-------------------------- MODULE MCCategoryApproval --------------------------
(* CategoryApproval on small instances, for TLC.                           *)
EXTENDS CategoryApproval, TLC

CONSTANTS c1, c2, r1, r2, u1, u2, n1, n2, h1, h2

OneCategory == {c1}
TwoCategories == {c1, c2}
OneRequest == {r1}
TwoRequests == {r1, r2}
OneUser == {u1}
TwoUsers == {u1, u2}
OneName == {n1}
TwoNames == {n1, n2}
TwoHandlers == {h1, h2}
OneDecider == {h1}
TheOther == {h2}

\* Users, names, categories and requests are interchangeable in the safety runs.
Symmetry ==
  Permutations(Users) \union Permutations(Names)
    \union Permutations(Categories) \union Permutations(Requests)
=============================================================================
