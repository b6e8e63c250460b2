---------------------------- MODULE ApprovalAtomic ----------------------------
(***************************************************************************)
(* Approval as a user of the API expects it: an item is decided at most    *)
(* once, and the decision and the status of the item change together.      *)
(***************************************************************************)
CONSTANTS Items, Undecided

VARIABLES
  shown,   \* what a reader sees of an item: NONE before it exists, GONE after
  verdict  \* the decision on an item, or Undecided

vars == <<shown, verdict>>

Opens(v) == IF v = "APPROVED" THEN "ACTIVE" ELSE "INACTIVE"

Visible(i) == shown[i] \in {"PENDING", "ACTIVE", "INACTIVE"}

Init ==
  /\ shown = [i \in Items |-> "NONE"]
  /\ verdict = [i \in Items |-> Undecided]

Propose(i) ==
  /\ shown[i] = "NONE"
  /\ shown' = [shown EXCEPT ![i] = "PENDING"]
  /\ UNCHANGED verdict

\* The one decision: an item that is gone is decided without being shown again.
Decide(i, v) ==
  /\ shown[i] # "NONE"
  /\ verdict[i] = Undecided
  /\ verdict' = [verdict EXCEPT ![i] = v]
  /\ shown' = [shown EXCEPT ![i] = IF Visible(i) THEN Opens(v) ELSE @]

Close(i) ==
  /\ Visible(i)
  /\ shown' = [shown EXCEPT ![i] = "PENDING"]
  /\ UNCHANGED verdict

Withdraw(i) ==
  /\ Visible(i)
  /\ shown' = [shown EXCEPT ![i] = "GONE"]
  /\ UNCHANGED verdict

Next ==
  \E i \in Items :
    \/ Propose(i)
    \/ \E v \in {"APPROVED", "REJECTED"} : Decide(i, v)
    \/ Close(i)
    \/ Withdraw(i)

Spec == Init /\ [][Next]_vars
=============================================================================
