------------------------------ MODULE ClientQuery ------------------------------
(***************************************************************************)
(* What common/client-query makes of a client's query: the conditions it   *)
(* hands to MongoDB, the page it cuts out and the pages it announces.      *)
(*                                                                         *)
(* A query gives every field a set of conditions <<operator, value>>; a    *)
(* value that JavaScript takes for false is no condition.  The value of    *)
(* contains is the set of the values that its pattern fits.                *)
(***************************************************************************)
EXTENDS Integers, FiniteSets

CONSTANTS
  DefaultLimit,  \* LIMIT_DEFAULT
  Absent         \* a parameter that is missing, or is no number

ASSUME DefaultLimitAssumption == DefaultLimit \in Nat \ {0}

-----------------------------------------------------------------------------
(* limit, offset and the pagination.                                       *)

\* Zero is false to ||, and means the default as well.
Limit(limit) == IF limit \in {Absent, 0} THEN DefaultLimit ELSE limit

\* Mutant: the division is rounded down.
TotalPagesDown(count, limit) == count \div limit

\* Math.ceil(count / limit).
TotalPages(count, limit) == (count + limit - 1) \div limit

-----------------------------------------------------------------------------
(* The filter.                                                             *)

Operators(conditions) == {c[1] : c \in conditions}

\* The or of every field becomes one $or, and takes the other conditions of its
\* field with it; contains replaces the other conditions of its field.
ParseQuery(query) ==
  [all |-> [f \in DOMAIN query |->
              {c \in query[f] : /\ "or" \notin Operators(query[f])
                                /\ "contains" \in Operators(query[f]) => c[1] = "contains"}],
   any |-> UNION {{<<f, c[2]>> : c \in {d \in query[f] : d[1] = "or"}} : f \in DOMAIN query}]

\* Mutant: the client's condition on a field wins over the service's.
MongoFilterOfClient(query, own) ==
  LET filter == ParseQuery(query) IN
  [filter EXCEPT !.all =
     [f \in DOMAIN query \union DOMAIN own |->
        IF f \in DOMAIN own /\ filter.all[f] = {} THEN own[f] ELSE filter.all[f]]]

\* { ...filter, ...queryMongoose }: the service's conditions on a field replace
\* the client's.
MongoFilter(query, own) ==
  LET filter == ParseQuery(query) IN
  [all |-> [f \in DOMAIN query \union DOMAIN own |->
              IF f \in DOMAIN own THEN own[f] ELSE filter.all[f]],
   any |-> filter.any]

\* MongoDB: does a value meet a condition, and a document a filter?
Meets(value, condition) ==
  LET v == condition[2] IN
  \/ condition[1] = "eq" /\ value = v
  \/ condition[1] = "ne" /\ value # v
  \/ condition[1] = "lt" /\ value < v
  \/ condition[1] = "lte" /\ value <= v
  \/ condition[1] = "gt" /\ value > v
  \/ condition[1] = "gte" /\ value >= v
  \/ condition[1] \in {"in", "contains"} /\ value \in v

Matches(doc, filter) ==
  /\ \A f \in DOMAIN filter.all : \A c \in filter.all[f] : Meets(doc[f], c)
  /\ filter.any # {} => \E alternative \in filter.any : doc[alternative[1]] = alternative[2]

-----------------------------------------------------------------------------
(* The page.                                                               *)

\* Mutant: the oldest first.
BeforeOldestFirst(S, x) == {y \in S : y < x}

\* The members of a set of numbers that come before one of them, the greatest
\* first.
Before(S, x) == {y \in S : y > x}

\* Mutant: one document more, to see whether there is a next page.
PagePeeking(S, offset, limit) ==
  {x \in S : /\ offset <= Cardinality(Before(S, x))
             /\ Cardinality(Before(S, x)) <= offset + limit}

\* The newest first: find().skip(offset).limit(limit).sort({ _id: -1 }).
Page(S, offset, limit) ==
  {x \in S : /\ offset <= Cardinality(Before(S, x))
             /\ Cardinality(Before(S, x)) < offset + limit}

\* sort is {} unless the service or the client asks for one, and then MongoDB
\* may cut any page of that size out of what it finds, another one every time.
Pages(S, offset, limit, sort) ==
  {T \in SUBSET S : /\ Cardinality(T) = Cardinality(Page(S, offset, limit))
                    /\ sort = "desc" => T = Page(S, offset, limit)}
=============================================================================
