----------------------------- MODULE ApprovalGate -----------------------------
(***************************************************************************)
(* The least that an approval gate promises about the items behind it: an  *)
(* item is shown with a decided status only if a verdict of that kind was  *)
(* cast on it.  It says nothing of how many verdicts are cast, or when one *)
(* that was cast is applied.                                               *)
(***************************************************************************)
CONSTANT Items

VARIABLES
  shown,  \* what a reader sees of an item: NONE before it exists, GONE after
  cast    \* the verdicts cast on an item so far

vars == <<shown, cast>>

Opens(verdict) == IF verdict = "APPROVED" THEN "ACTIVE" ELSE "INACTIVE"

Visible(i) == shown[i] \in {"PENDING", "ACTIVE", "INACTIVE"}

Init ==
  /\ shown = [i \in Items |-> "NONE"]
  /\ cast = [i \in Items |-> {}]

\* An item is proposed once, and without a verdict.
Propose(i) ==
  /\ shown[i] = "NONE"
  /\ shown' = [shown EXCEPT ![i] = "PENDING"]
  /\ UNCHANGED cast

Vote(i, verdict) ==
  /\ shown[i] # "NONE"
  /\ cast' = [cast EXCEPT ![i] = @ \union {verdict}]
  /\ UNCHANGED shown

\* Only a verdict that was cast gives an item its status.
Apply(i, verdict) ==
  /\ Visible(i)
  /\ verdict \in cast[i]
  /\ shown' = [shown EXCEPT ![i] = Opens(verdict)]
  /\ UNCHANGED cast

\* An edit of the item closes the gate again.
Close(i) ==
  /\ Visible(i)
  /\ shown' = [shown EXCEPT ![i] = "PENDING"]
  /\ UNCHANGED cast

Withdraw(i) ==
  /\ Visible(i)
  /\ shown' = [shown EXCEPT ![i] = "GONE"]
  /\ UNCHANGED cast

Next ==
  \E i \in Items :
    \/ Propose(i)
    \/ \E verdict \in {"APPROVED", "REJECTED"} : Vote(i, verdict) \/ Apply(i, verdict)
    \/ Close(i)
    \/ Withdraw(i)

Spec == Init /\ [][Next]_vars
=============================================================================
