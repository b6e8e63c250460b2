------------------------------- MODULE AsyncJobs -------------------------------
(***************************************************************************)
(* What the optimize endpoints promise: a job that was uploaded is pending *)
(* until it is done or given up, for good, and whoever asks for it is told *)
(* how it stands at one moment of his request.                             *)
(***************************************************************************)
CONSTANTS Items, Askers, Nothing

VARIABLES
  status,  \* item -> how the job stands
  reply    \* asker -> the answer to his last request: <<item, code>>, or Nothing

vars == <<status, reply>>

Init == status = [i \in Items |-> "NONE"] /\ reply = [a \in Askers |-> Nothing]

Submit(i) ==
  /\ status[i] = "NONE"
  /\ status' = [status EXCEPT ![i] = "PENDING"]
  /\ UNCHANGED reply

End(i, how) ==
  /\ status[i] = "PENDING"
  /\ status' = [status EXCEPT ![i] = how]
  /\ UNCHANGED reply

\* A job that was given up is said to be under way for ever; a request that is
\* overtaken by the end of its job may be answered with an error.
Codes(i) ==
  CASE status[i] = "NONE" -> {404}
    [] status[i] \in {"PENDING", "FAILED"} -> {202}
    [] status[i] = "DONE" -> {200, 500}

Answer(a, i) ==
  /\ \E code \in Codes(i) : reply' = [reply EXCEPT ![a] = <<i, code>>]
  /\ UNCHANGED status

\* The asker asks again.
Ask(a) == reply' = [reply EXCEPT ![a] = Nothing] /\ UNCHANGED status

Next ==
  \/ \E i \in Items : Submit(i) \/ End(i, "DONE") \/ End(i, "FAILED")
  \/ \E a \in Askers : Ask(a) \/ \E i \in Items : Answer(a, i)

Spec == Init /\ [][Next]_vars
=============================================================================
