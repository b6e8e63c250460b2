------------------------------ MODULE MCListings ------------------------------
(* Listings on a small instance, for TLC.                                  *)
EXTENDS Listings

TheIds == 1..3

\* Documents of two authors (or posts).
TheOf == [id \in TheIds |-> IF id = 2 THEN "b" ELSE "a"]

TheAt == [h1 |-> "p1", h2 |-> "p2"]

\* No query; two fields with or, one of them with a second condition; contains
\* next to a second condition that asks for another's documents.
TheQueries ==
  { [_id |-> {}, of |-> {}],
    [_id |-> {<<"or", 1>>, <<"gt", 2>>}, of |-> {<<"or", "b">>}],
    [_id |-> {<<"ne", 1>>}, of |-> {<<"contains", {"a"}>>, <<"eq", "b">>}] }
=============================================================================
