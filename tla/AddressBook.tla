------------------------------ MODULE AddressBook ------------------------------
(***************************************************************************)
(* What registration promises about addresses: an address is held by one   *)
(* account at a time, and only one that was sent a link is confirmed.      *)
(***************************************************************************)
CONSTANTS Addresses, Holders, Nobody

VARIABLES
  holder,     \* address -> who holds it, or Nobody
  invited,    \* the addresses a link was asked for
  confirmed   \* the addresses whose holder is confirmed

vars == <<holder, invited, confirmed>>

Init ==
  /\ holder = [a \in Addresses |-> Nobody]
  /\ invited = {}
  /\ confirmed = {}

Claim(a, i) ==
  /\ holder[a] = Nobody
  /\ holder' = [holder EXCEPT ![a] = i]
  /\ UNCHANGED <<invited, confirmed>>

Invite(a) ==
  /\ invited' = invited \union {a}
  /\ UNCHANGED <<holder, confirmed>>

Confirm(a) ==
  /\ holder[a] # Nobody
  /\ a \in invited
  /\ confirmed' = confirmed \union {a}
  /\ UNCHANGED <<holder, invited>>

\* The address is free again, and its next holder is not confirmed.
Release(a) ==
  /\ holder[a] # Nobody
  /\ holder' = [holder EXCEPT ![a] = Nobody]
  /\ confirmed' = confirmed \ {a}
  /\ UNCHANGED invited

Next ==
  \E a \in Addresses :
    \/ \E i \in Holders : Claim(a, i)
    \/ Invite(a)
    \/ Confirm(a)
    \/ Release(a)

Spec == Init /\ [][Next]_vars
=============================================================================
