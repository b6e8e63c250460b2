----------------------------- MODULE ListingsProofs -----------------------------
(***************************************************************************)
(* Proofs about Listings, in two layers: what the pages of a walk return   *)
(* under IInv, and over it how far a walk drifts (WalksAreCounted), which  *)
(* counts the documents that other clients move across its offset.         *)
(***************************************************************************)
EXTENDS Listings, FiniteSetTheorems, WellFoundedInduction, TLAPS

-----------------------------------------------------------------------------
(* Sets of ids, and the pages cut out of them.                             *)

\* A set of natural numbers that is not empty has a least member.
LEMMA LeastExists ==
  ASSUME NEW S \in SUBSET Nat, S # {}
  PROVE  Least(S) \in S /\ \A y \in S : Least(S) <= y
<1>1. \E x \in S : \A y \in S : ~(<<y, x>> \in OpToRel(<, Nat))
  BY WFMin, NatLessThanWellFounded
<1>2. \A x, y \in S : ~(<<y, x>> \in OpToRel(<, Nat)) => x <= y
  BY DEF OpToRel
<1>3. \E x \in S : \A y \in S : x <= y
  BY <1>1, <1>2
<1> QED
  BY <1>3 DEF Least

\* Who comes later has more before it.
LEMMA BeforeGrows ==
  ASSUME NEW S \in SUBSET Nat, IsFiniteSet(S), NEW x \in S, NEW y \in S, x < y
  PROVE  /\ Cardinality(Before(S, x)) \in Nat
         /\ Cardinality(Before(S, y)) \in Nat
         /\ Cardinality(Before(S, y)) < Cardinality(Before(S, x))
<1>1. Before(S, x) \in SUBSET S /\ Before(S, y) \in SUBSET Before(S, x)
  <2>1. x \in Nat /\ y \in Nat /\ \A z \in S : z \in Nat
    OBVIOUS
  <2>2. \A z \in S : z > y => z > x
    BY <2>1
  <2> QED
    BY <2>2 DEF Before
<1>2. y \in Before(S, x) /\ y \notin Before(S, y)
  BY DEF Before
<1>3. IsFiniteSet(Before(S, x)) /\ IsFiniteSet(Before(S, y))
  BY <1>1, FS_Subset
<1>4. Cardinality(Before(S, x)) \in Nat /\ Cardinality(Before(S, y)) \in Nat
  BY <1>3, FS_CardinalityType
<1>5. Cardinality(Before(S, y)) <= Cardinality(Before(S, x))
  BY <1>1, <1>3, FS_Subset
<1>6. Cardinality(Before(S, y)) # Cardinality(Before(S, x))
  BY <1>1, <1>2, <1>3, FS_Subset
<1> QED
  BY <1>4, <1>5, <1>6

\* The first page holds, with a document, all that come before it.
LEMMA FirstPageIsUpper ==
  ASSUME NEW S \in SUBSET Nat, IsFiniteSet(S), NEW k \in Nat,
         NEW x \in Page(S, 0, k), NEW y \in S, x < y
  PROVE  y \in Page(S, 0, k)
<1>1. x \in S /\ Cardinality(Before(S, x)) < 0 + k
  BY DEF Page
<1>2. /\ Cardinality(Before(S, y)) \in Nat /\ Cardinality(Before(S, x)) \in Nat
      /\ Cardinality(Before(S, y)) < Cardinality(Before(S, x))
  BY <1>1, BeforeGrows
<1> QED
  BY <1>1, <1>2 DEF Page

\* A first page that is not full holds everything.
LEMMA ShortPageIsAll ==
  ASSUME NEW S \in SUBSET Nat, IsFiniteSet(S), NEW k \in Nat,
         Cardinality(Page(S, 0, k)) < k
  PROVE  Page(S, 0, k) = S
<1> DEFINE P == Page(S, 0, k)
           Late == S \ P
           Size == {n \in Nat : \E x \in Late : n = Cardinality(Before(S, x))}
<1>1. P \in SUBSET S
  BY DEF Page
<1>2. \A x \in S : IsFiniteSet(Before(S, x)) /\ Cardinality(Before(S, x)) \in Nat
  <2>1. \A x \in S : Before(S, x) \in SUBSET S
    BY DEF Before
  <2> QED
    BY <2>1, FS_Subset, FS_CardinalityType
<1>3. SUFFICES ASSUME Late # {} PROVE FALSE
  BY <1>1
<1>4. Size \in SUBSET Nat /\ Size # {}
  BY <1>2, <1>3
<1>5. PICK x \in Late : Cardinality(Before(S, x)) = Least(Size)
  BY <1>4, LeastExists
<1>6. x \in S /\ x \in Nat
  OBVIOUS
<1>7. \A y \in Late : Least(Size) <= Cardinality(Before(S, y))
  BY <1>2, <1>4, LeastExists
<1>8. Before(S, x) \in SUBSET P
  <2>1. SUFFICES ASSUME NEW y \in Before(S, x), y \notin P PROVE FALSE
    OBVIOUS
  <2>2. y \in S /\ x < y
    BY <1>6 DEF Before
  <2>3. y \in Late
    BY <2>1, <2>2
  <2>4. /\ Cardinality(Before(S, y)) \in Nat /\ Cardinality(Before(S, x)) \in Nat
        /\ Cardinality(Before(S, y)) < Cardinality(Before(S, x))
    BY <1>6, <2>2, BeforeGrows
  <2> QED
    BY <1>5, <1>7, <2>3, <2>4
<1>9. IsFiniteSet(P) /\ Cardinality(P) \in Nat
  BY <1>1, FS_Subset, FS_CardinalityType
<1>10. Cardinality(Before(S, x)) <= Cardinality(P)
  BY <1>8, <1>9, FS_Subset
<1>11. 0 <= Cardinality(Before(S, x)) /\ Cardinality(Before(S, x)) < 0 + k
  BY <1>2, <1>6, <1>9, <1>10
<1> QED
  BY <1>6, <1>11 DEF Page
-----------------------------------------------------------------------------
(* The filters.                                                            *)

\* What a filter is made of: the service's conditions, those of the client's on
\* the other fields, and the alternatives.
LEMMA FilterParts ==
  ASSUME NEW query, DOMAIN query = Fields, NEW own, DOMAIN own \subseteq Fields
  PROVE  /\ DOMAIN MongoFilter(query, own).all = Fields
         /\ \A f \in DOMAIN own : MongoFilter(query, own).all[f] = own[f]
         /\ \A f \in Fields \ DOMAIN own :
              MongoFilter(query, own).all[f] =
                {c \in query[f] : /\ "or" \notin Operators(query[f])
                                  /\ "contains" \in Operators(query[f]) => c[1] = "contains"}
         /\ MongoFilter(query, own).any =
              UNION {{<<f, c[2]>> : c \in {d \in query[f] : d[1] = "or"}} : f \in Fields}
<1> DEFINE Kept(f) == {c \in query[f] : /\ "or" \notin Operators(query[f])
                                        /\ "contains" \in Operators(query[f]) => c[1] = "contains"}
<1>1. ParseQuery(query).all = [f \in Fields |-> Kept(f)]
  BY DEF ParseQuery
<1>2. ParseQuery(query).any =
        UNION {{<<f, c[2]>> : c \in {d \in query[f] : d[1] = "or"}} : f \in Fields}
  BY DEF ParseQuery
<1>3. MongoFilter(query, own).any = ParseQuery(query).any
  BY DEF MongoFilter
<1>4. MongoFilter(query, own).all =
        [f \in DOMAIN query \union DOMAIN own |->
           IF f \in DOMAIN own THEN own[f] ELSE ParseQuery(query).all[f]]
  BY DEF MongoFilter
<1>5. DOMAIN query \union DOMAIN own = Fields
  OBVIOUS
<1> HIDE DEF Kept
<1>6. /\ DOMAIN MongoFilter(query, own).all = Fields
      /\ \A f \in DOMAIN own : MongoFilter(query, own).all[f] = own[f]
  BY <1>4, <1>5
<1>7. \A f \in Fields \ DOMAIN own : MongoFilter(query, own).all[f] = Kept(f)
  BY <1>1, <1>4, <1>5
<1> QED
  BY <1>2, <1>3, <1>6, <1>7 DEF Kept

\* What a page of any list holds was asked for.
LEMMA MatchesAreAskedFor ==
  ASSUME NEW query, DOMAIN query = Fields, NEW own, DOMAIN own \subseteq Fields,
         NEW id, Matches(Doc(id), MongoFilter(query, own))
  PROVE  IsAskedFor(id, query, own)
<1> DEFINE m == MongoFilter(query, own)
           Any == UNION {{<<f, c[2]>> : c \in {d \in query[f] : d[1] = "or"}} : f \in Fields}
<1>1. /\ \A f \in DOMAIN m.all : \A c \in m.all[f] : Meets(Doc(id)[f], c)
      /\ m.any # {} => \E alternative \in m.any : Doc(id)[alternative[1]] = alternative[2]
  BY DEF Matches
<1>2. DOMAIN m.all = Fields /\ m.any = Any
  BY FilterParts
<1>3. \A f \in DOMAIN own : m.all[f] = own[f]
  BY FilterParts
<1>4. \A f \in Fields \ DOMAIN own :
        m.all[f] = {c \in query[f] : /\ "or" \notin Operators(query[f])
                                     /\ "contains" \in Operators(query[f]) => c[1] = "contains"}
  BY FilterParts
<1> HIDE DEF m
<1>5. \A f \in DOMAIN own : \A d \in own[f] : Meets(Doc(id)[f], d)
  BY <1>1, <1>2, <1>3
<1>6. \A f \in Fields \ DOMAIN own :
        Operators(query[f]) \intersect {"or", "contains"} = {} =>
          \A d \in query[f] : Meets(Doc(id)[f], d)
  BY <1>1, <1>2, <1>4
<1>7. ASSUME NEW f \in Fields, "or" \in Operators(query[f])
      PROVE  \E g \in Fields : \E d \in query[g] : d[1] = "or" /\ Doc(id)[g] = d[2]
  <2>1. PICK c \in query[f] : c[1] = "or"
    BY <1>7 DEF Operators
  <2>2. <<f, c[2]>> \in Any
    BY <2>1
  <2>3. m.any # {}
    BY <1>2, <2>2
  <2>4. \E alternative \in m.any : Doc(id)[alternative[1]] = alternative[2]
    BY <1>1, <2>3, Zenon
  <2>5. PICK alternative \in m.any : Doc(id)[alternative[1]] = alternative[2]
    BY <2>4, Zenon
  <2>6. PICK g \in Fields : \E d \in query[g] : d[1] = "or" /\ alternative = <<g, d[2]>>
    BY <1>2, <2>5
  <2> QED
    BY <2>5, <2>6
<1> QED
  BY <1>5, <1>6, <1>7 DEF IsAskedFor

-----------------------------------------------------------------------------
(* The records of the walks and the sockets, written field by field.       *)

WalkNames == {"step", "by", "query", "own", "sort", "limit", "cursor", "offset", "page", "seen",
              "again", "pages", "announced", "start", "came", "went"}

\* Writing one field of a walk leaves the others.
LEMMA FieldLeft ==
  ASSUME NEW w \in Walk, NEW g \in WalkNames, NEW v, NEW f \in WalkNames
  PROVE  [w EXCEPT ![g] = v][f] = IF f = g THEN v ELSE w[f]
<1>1. DOMAIN w = WalkNames
  BY DEF Walk, WalkNames
<1> QED
  BY <1>1

LEMMA WalkFields ==
  ASSUME NEW w \in Walk
  PROVE  /\ w.step \in {"idle", "count", "find", "read"} /\ w.by \in {"cursor", "offset", None}
         /\ w.limit \in Nat \union {None} /\ w.cursor \in Ids \union {None} /\ w.offset \in Nat
         /\ w.page \in SUBSET Ids /\ w.seen \in SUBSET Ids /\ w.again \in Nat
         /\ w.pages \in Nat /\ w.announced \in Int \union {None}
         /\ w.start \in SUBSET Ids /\ w.came \in Nat /\ w.went \in Nat
BY DEF Walk

\* Each field of a walk takes the values of its set, and leaves the others alone.
LEMMA WalkWritten ==
  ASSUME NEW w \in Walk
  PROVE  /\ \A v \in {"idle", "count", "find", "read"} : [w EXCEPT !.step = v] \in Walk
         /\ \A v \in Ids \union {None} : [w EXCEPT !.cursor = v] \in Walk
         /\ \A v \in Nat : [w EXCEPT !.offset = v] \in Walk
         /\ \A v \in SUBSET Ids : [w EXCEPT !.page = v] \in Walk
         /\ \A v \in SUBSET Ids : [w EXCEPT !.seen = v] \in Walk
         /\ \A v \in Nat : [w EXCEPT !.again = v] \in Walk
         /\ \A v \in Nat : [w EXCEPT !.pages = v] \in Walk
         /\ \A v \in Int \union {None} : [w EXCEPT !.announced = v] \in Walk
         /\ \A v \in SUBSET Ids : [w EXCEPT !.start = v] \in Walk
         /\ \A v \in Nat : [w EXCEPT !.came = v] \in Walk
         /\ \A v \in Nat : [w EXCEPT !.went = v] \in Walk
<1> DEFINE Steps == {"idle", "count", "find", "read"}
           Ways == {"cursor", "offset", None}
           Asks == Queries \union {NoQuery, None}
           Owns == {Own(o) : o \in Owners} \union {NoOwn, None}
           Bounds == Nat \union {None}
           Marks == Ids \union {None}
           Naturals == Nat
           Parts == SUBSET Ids
           Counts == Int \union {None}
<1>1. Walk = [step : Steps, by : Ways, query : Asks, own : Owns, sort : Sorts, limit : Bounds,
              cursor : Marks, offset : Naturals, page : Parts, seen : Parts, again : Naturals,
              pages : Naturals, announced : Counts, start : Parts,
              came : Naturals, went : Naturals]
  BY DEF Walk
<1> HIDE DEF Steps, Ways, Asks, Owns, Bounds, Marks, Naturals, Parts, Counts
<1>2. /\ \A v \in Steps : [w EXCEPT !.step = v] \in Walk
      /\ \A v \in Marks : [w EXCEPT !.cursor = v] \in Walk
      /\ \A v \in Naturals : [w EXCEPT !.offset = v] \in Walk
      /\ \A v \in Parts : [w EXCEPT !.page = v] \in Walk
      /\ \A v \in Parts : [w EXCEPT !.seen = v] \in Walk
      /\ \A v \in Naturals : [w EXCEPT !.again = v] \in Walk
      /\ \A v \in Naturals : [w EXCEPT !.pages = v] \in Walk
      /\ \A v \in Counts : [w EXCEPT !.announced = v] \in Walk
      /\ \A v \in Parts : [w EXCEPT !.start = v] \in Walk
      /\ \A v \in Naturals : [w EXCEPT !.came = v] \in Walk
      /\ \A v \in Naturals : [w EXCEPT !.went = v] \in Walk
  BY <1>1
<1> QED
  BY <1>2 DEF Steps, Ways, Asks, Owns, Bounds, Marks, Naturals, Parts, Counts

-----------------------------------------------------------------------------
(* The pages of a walk by cursor.                                          *)

\* The filter of a walk by cursor leaves out what is not older than the cursor.
LEMMA FoundByCursor ==
  ASSUME NEW w, w.by = "cursor", w.query = NoQuery, w.own = NoOwn
  PROVE  Found(w) = {id \in Documents : w.cursor # None => id < w.cursor}
<1>1. DOMAIN NoQuery = Fields /\ \A f \in Fields : NoQuery[f] = {}
  BY DEF NoQuery
<1>2. UNION {{<<f, c[2]>> : c \in {d \in NoQuery[f] : d[1] = "or"}} : f \in Fields} = {}
  BY <1>1
<1>3. "_id" \in Fields /\ \A id : Doc(id)["_id"] = id
  BY DEF Fields, Doc, Record
<1>4. CASE w.cursor = None
  <2>1. Filter(w) = MongoFilter(NoQuery, NoOwn)
    BY <1>4 DEF Filter
  <2>2. DOMAIN NoOwn = {}
    BY DEF NoOwn
  <2>3. \A f \in Fields : Filter(w).all[f] = {}
    BY <1>1, <2>1, <2>2, FilterParts
  <2>4. DOMAIN Filter(w).all = Fields /\ Filter(w).any = {}
    BY <1>1, <1>2, <2>1, <2>2, FilterParts
  <2>5. \A id : Matches(Doc(id), Filter(w))
    BY <2>3, <2>4 DEF Matches
  <2> QED
    BY <1>4, <2>5 DEF Found
<1>5. CASE w.cursor # None
  <2> DEFINE own == [f \in {"_id"} |-> {<<"lt", w.cursor>>}]
  <2>1. Filter(w) = MongoFilter(NoQuery, own)
    BY <1>5 DEF Filter
  <2>2. DOMAIN own = {"_id"} /\ own["_id"] = {<<"lt", w.cursor>>}
    OBVIOUS
  <2> HIDE DEF own
  <2>3. Filter(w).all["_id"] = {<<"lt", w.cursor>>}
    BY <1>1, <1>3, <2>1, <2>2, FilterParts
  <2>4. \A f \in Fields : f # "_id" => Filter(w).all[f] = {}
    BY <1>1, <1>3, <2>1, <2>2, FilterParts
  <2>5. DOMAIN Filter(w).all = Fields /\ Filter(w).any = {}
    BY <1>1, <1>2, <1>3, <2>1, <2>2, FilterParts
  <2>6. \A id : Meets(id, <<"lt", w.cursor>>) <=> id < w.cursor
    BY DEF Meets
  <2>7. \A id : Matches(Doc(id), Filter(w)) <=> id < w.cursor
    BY <1>3, <2>3, <2>4, <2>5, <2>6 DEF Matches
  <2> QED
    BY <1>5, <2>7 DEF Found
<1> QED
  BY <1>4, <1>5

-----------------------------------------------------------------------------
(* The steps of a walk.                                                    *)

\* All that the invariant says of one walk.
Good(w) ==
  /\ w \in Walk
  /\ Asked(w)
  /\ Tight(w)

\* A walk may ask for every field, and the service too.
LEMMA AsksAreFilters ==
  ASSUME NEW w, Asked(w), w.step # "idle"
  PROVE  DOMAIN w.query = Fields /\ DOMAIN w.own \subseteq Fields
<1>1. w.query \in Queries \union {NoQuery} /\ w.own \in {Own(o) : o \in Owners} \union {NoOwn}
  BY DEF Asked
<1>2. DOMAIN NoQuery = Fields /\ DOMAIN NoOwn \subseteq Fields
  BY DEF NoQuery, NoOwn
<1>3. \A o : DOMAIN Own(o) \subseteq Fields
  BY DEF Own, Fields
<1>4. \A query \in Queries : DOMAIN query = Fields
  BY QueriesAssumption DEF Fields
<1> QED
  BY <1>1, <1>2, <1>3, <1>4

LEMMA DocumentsAreFinite ==
  /\ Documents \in SUBSET Ids /\ Documents \in SUBSET Nat /\ IsFiniteSet(Documents)
  /\ \A w : Found(w) \in SUBSET Documents /\ IsFiniteSet(Found(w))
<1>1. Documents \in SUBSET Ids /\ IsFiniteSet(Documents)
  BY IdsAssumption, FS_Subset DEF Documents
<1>2. \A w : Found(w) \in SUBSET Documents
  BY DEF Found
<1> QED
  BY <1>1, <1>2, IdsAssumption, FS_Subset

LEMMA NoWalkIsGood ==
  Good(NoWalk)
<1>1. NoWalk \in Walk /\ NoWalk.step = "idle" /\ NoWalk.page = {}
  BY DEF NoWalk, Fresh, Walk, Sorts
<1> QED
  BY <1>1 DEF Good, Asked, Tight

LEMMA FreshIsGood ==
  ASSUME NEW by \in {"cursor", "offset"}, NEW query \in Queries \union {NoQuery},
         NEW own \in {Own(o) : o \in Owners} \union {NoOwn}, NEW sort \in Sorts,
         NEW limit \in Limits, NEW start \in SUBSET Documents,
         by = "cursor" => /\ collection = "messages" /\ query = NoQuery /\ own = NoOwn
                          /\ sort = "desc"
  PROVE  Good(Fresh("count", by, query, own, sort, Limit(limit), start))
<1> DEFINE w == Fresh("count", by, query, own, sort, Limit(limit), start)
<1>1. Limit(limit) \in Nat \ {0}
  BY LimitsAssumption, DefaultLimitAssumption DEF Limit
<1>2. w \in Walk
  <2>1. start \in SUBSET Ids
    BY DocumentsAreFinite
  <2> QED
    BY <1>1, <2>1 DEF Fresh, Walk
<1>3. /\ w.step = "count" /\ w.by = by /\ w.query = query /\ w.own = own /\ w.sort = sort
      /\ w.limit = Limit(limit) /\ w.cursor = None /\ w.offset = 0 /\ w.page = {}
      /\ w.seen = {} /\ w.again = 0 /\ w.start = start
  BY DEF Fresh
<1> HIDE DEF w
<1>4. Asked(w)
  BY <1>1, <1>3 DEF Asked
<1>5. Tight(w)
  BY <1>3 DEF Tight
<1> QED
  BY <1>2, <1>3, <1>4, <1>5 DEF Good, w

LEMMA CountedIsGood ==
  ASSUME NEW w, Good(w), w.step = "count", NEW n \in Nat
  PROVE  Good([w EXCEPT !.step = "find",
                        !.announced = IF @ = None THEN TotalPages(n, w.limit) ELSE @])
<1> DEFINE v == [w EXCEPT !.step = "find"]
           pages == IF v.announced = None THEN TotalPages(n, w.limit) ELSE v.announced
           x == [v EXCEPT !.announced = pages]
<1>1. w \in Walk /\ Asked(w) /\ Tight(w)
  BY DEF Good
<1>2. v \in Walk /\ \A f \in WalkNames : v[f] = IF f = "step" THEN "find" ELSE w[f]
  <2>1. v \in Walk
    BY <1>1, WalkWritten
  <2>2. "step" \in WalkNames
    BY DEF WalkNames
  <2> QED
    BY <1>1, <2>1, <2>2, FieldLeft
<1>3. w.limit \in Nat \ {0}
  BY <1>1 DEF Asked
<1>4. TotalPages(n, w.limit) \in Int
  BY <1>3 DEF TotalPages
<1>5. pages \in Int \union {None}
  BY <1>2, <1>4, WalkFields
<1> HIDE DEF v, pages
<1>6. x \in Walk
  BY <1>2, <1>5, WalkWritten
<1>7. \A f \in WalkNames : f # "announced" => x[f] = v[f]
  <2>1. "announced" \in WalkNames
    BY DEF WalkNames
  <2> QED
    BY <1>2, <2>1, FieldLeft
<1> HIDE DEF x
<1>8. /\ x.step = "find" /\ x.by = w.by /\ x.query = w.query /\ x.own = w.own /\ x.sort = w.sort
      /\ x.limit = w.limit /\ x.cursor = w.cursor /\ x.offset = w.offset /\ x.page = w.page
      /\ x.seen = w.seen /\ x.again = w.again /\ x.start = w.start
  BY <1>2, <1>7 DEF WalkNames
<1>9. Asked(x) /\ Tight(x)
  BY <1>1, <1>8 DEF Asked, Tight
<1>10. Good(x)
  BY <1>1, <1>6, <1>8, <1>9 DEF Good
<1> QED
  BY <1>10 DEF x, v, pages

\* A page of any list was asked for.
LEMMA HitsOfAPage ==
  ASSUME NEW w, Asked(w), w.step # "idle", NEW id \in Found(w)
  PROVE  IsAskedFor(id, w.query, w.own)
<1>1. Matches(Doc(id), Filter(w))
  BY DEF Found
<1>2. DOMAIN w.query = Fields /\ DOMAIN w.own \subseteq Fields
  BY AsksAreFilters
<1>3. CASE w.by = "cursor"
  <2>1. w.query = NoQuery /\ w.own = NoOwn
    BY <1>3 DEF Asked
  <2>2. DOMAIN NoOwn = {}
    BY DEF NoOwn
  <2>3. \A f \in Fields : NoQuery[f] = {}
    BY DEF NoQuery
  <2> QED
    BY <2>1, <2>2, <2>3 DEF IsAskedFor, Operators
<1>4. CASE w.by # "cursor"
  <2>1. Filter(w) = MongoFilter(w.query, w.own)
    BY <1>4 DEF Filter
  <2> QED
    BY <1>1, <1>2, <2>1, MatchesAreAskedFor
<1> QED
  BY <1>3, <1>4

\* What the first page of a walk by cursor adds to what it has read.
LEMMA CursorPage ==
  ASSUME NEW w, Good(w), w.step = "find", w.by = "cursor",
         NEW hits \in Pages(Found(w), w.offset, w.limit, w.sort)
  PROVE  /\ hits \intersect w.seen = {}
         /\ w.cursor # None => \A id \in hits : id < w.cursor
         /\ \A id \in w.start, x \in hits : id >= x => id \in w.seen \union hits
         /\ Cardinality(hits) < w.limit => w.start \subseteq w.seen \union hits
<1>1. w \in Walk /\ Asked(w) /\ Tight(w)
  BY DEF Good
<1>2. /\ w.query = NoQuery /\ w.own = NoOwn /\ w.offset = 0 /\ w.limit \in Nat
      /\ w.sort = "desc"
  BY <1>1 DEF Asked
<1>3. Found(w) = {id \in Documents : w.cursor # None => id < w.cursor}
  BY <1>2, FoundByCursor
<1>4. Found(w) \in SUBSET Nat /\ IsFiniteSet(Found(w))
  BY DocumentsAreFinite
<1>5. hits = Page(Found(w), 0, w.limit) /\ hits \in SUBSET Found(w)
  BY <1>2 DEF Pages, Page
<1>6. /\ w.start \in SUBSET Documents /\ Documents \in SUBSET Nat
      /\ w.cursor # None => w.cursor \in Nat
  <2>1. w.start \subseteq Documents
    BY <1>1 DEF Tight
  <2>2. w.cursor \in Ids \union {None}
    BY <1>1, WalkFields
  <2> QED
    BY <2>1, <2>2, IdsAssumption, DocumentsAreFinite
<1>7. /\ \A id \in w.start : w.cursor # None /\ id >= w.cursor => id \in w.seen
      /\ \A id \in w.seen : w.cursor # None /\ id >= w.cursor
  BY <1>1 DEF Tight
<1>8. hits \intersect w.seen = {}
  BY <1>3, <1>4, <1>5, <1>6, <1>7
<1>9. ASSUME NEW id \in w.start, id \notin w.seen
      PROVE  id \in Found(w)
  <2>1. id \in Documents /\ id \in Nat
    BY <1>6
  <2>2. w.cursor # None => w.cursor \in Nat /\ ~(id >= w.cursor)
    BY <1>6, <1>7, <1>9
  <2>3. w.cursor # None => id < w.cursor
    BY <2>1, <2>2
  <2> QED
    BY <1>3, <2>1, <2>3
<1>10. ASSUME NEW id \in w.start, NEW x \in hits, id >= x
       PROVE  id \in w.seen \union hits
  <2>1. CASE id \in Found(w) /\ id # x
    <3>1. x \in Page(Found(w), 0, w.limit) /\ x < id
      BY <1>4, <1>5, <1>10, <2>1
    <3> QED
      BY <1>2, <1>4, <1>5, <2>1, <3>1, FirstPageIsUpper
  <2> QED
    BY <1>9, <2>1
<1>11. ASSUME Cardinality(hits) < w.limit
       PROVE  w.start \subseteq w.seen \union hits
  <2>1. hits = Found(w)
    BY <1>2, <1>4, <1>5, <1>11, ShortPageIsAll
  <2> QED
    BY <1>9, <2>1
<1>12. w.cursor # None => \A id \in hits : id < w.cursor
  BY <1>3, <1>5
<1> QED
  BY <1>8, <1>10, <1>11, <1>12

LEMMA ReadIsGood ==
  ASSUME NEW w, Good(w), w.step = "find", NEW hits \in Pages(Found(w), w.offset, w.limit, w.sort)
  PROVE  Good([w EXCEPT !.step = "read", !.page = hits, !.seen = @ \union hits,
                        !.again = @ + Cardinality(hits \intersect w.seen), !.pages = @ + 1])
<1> DEFINE v1 == [w EXCEPT !.step = "read"]
           v2 == [v1 EXCEPT !.page = hits]
           v3 == [v2 EXCEPT !.seen = v2.seen \union hits]
           v4 == [v3 EXCEPT !.again = v3.again + Cardinality(hits \intersect w.seen)]
           v5 == [v4 EXCEPT !.pages = v4.pages + 1]
<1>1. w \in Walk /\ Asked(w) /\ Tight(w)
  BY DEF Good
<1>2. hits \in SUBSET Found(w) /\ hits \in SUBSET Ids
  BY DocumentsAreFinite DEF Pages
<1>3. Cardinality(hits \intersect w.seen) \in Nat
  <2>1. IsFiniteSet(hits \intersect w.seen)
    BY <1>2, IdsAssumption, FS_Subset
  <2> QED
    BY <2>1, FS_CardinalityType
<1>4. /\ "step" \in WalkNames /\ "page" \in WalkNames /\ "seen" \in WalkNames
      /\ "again" \in WalkNames /\ "pages" \in WalkNames
  BY DEF WalkNames
<1>5. v1 \in Walk /\ \A f \in WalkNames : v1[f] = IF f = "step" THEN "read" ELSE w[f]
  <2>1. v1 \in Walk
    BY <1>1, WalkWritten
  <2> QED
    BY <1>1, <1>4, <2>1, FieldLeft
<1> HIDE DEF v1
<1>6. v2 \in Walk /\ \A f \in WalkNames : v2[f] = IF f = "page" THEN hits ELSE v1[f]
  <2>1. v2 \in Walk
    BY <1>2, <1>5, WalkWritten
  <2> QED
    BY <1>4, <1>5, <2>1, FieldLeft
<1> HIDE DEF v2
<1>7. /\ v3 \in Walk
      /\ \A f \in WalkNames : v3[f] = IF f = "seen" THEN v2.seen \union hits ELSE v2[f]
  <2> DEFINE seen == v2.seen \union hits
  <2>1. seen \in SUBSET Ids
    BY <1>2, <1>6, WalkFields
  <2> HIDE DEF seen
  <2>2. [v2 EXCEPT !.seen = seen] \in Walk
    BY <1>6, <2>1, WalkWritten
  <2>3. \A f \in WalkNames : f # "seen" => [v2 EXCEPT !.seen = seen][f] = v2[f]
    BY <1>4, <1>6, FieldLeft
  <2>4. [v2 EXCEPT !.seen = seen]["seen"] = seen
    BY <1>4, <1>6, FieldLeft
  <2> QED
    BY <2>2, <2>3, <2>4 DEF seen
<1> HIDE DEF v3
<1>8. /\ v4 \in Walk
      /\ \A f \in WalkNames :
           v4[f] = IF f = "again" THEN v3.again + Cardinality(hits \intersect w.seen) ELSE v3[f]
  <2> DEFINE n == v3.again + Cardinality(hits \intersect w.seen)
  <2>1. n \in Nat
    <3>1. v3.again \in Nat
      BY <1>7, WalkFields
    <3> QED
      BY <1>3, <3>1
  <2> HIDE DEF n
  <2>2. [v3 EXCEPT !.again = n] \in Walk
    BY <1>7, <2>1, WalkWritten
  <2>3. \A f \in WalkNames : f # "again" => [v3 EXCEPT !.again = n][f] = v3[f]
    BY <1>4, <1>7, FieldLeft
  <2>4. [v3 EXCEPT !.again = n]["again"] = n
    BY <1>4, <1>7, FieldLeft
  <2> QED
    BY <2>2, <2>3, <2>4 DEF n
<1> HIDE DEF v4
<1>9. v5 \in Walk /\ \A f \in WalkNames : f # "pages" => v5[f] = v4[f]
  <2> DEFINE n == v4.pages + 1
  <2>1. n \in Nat
    <3>1. v4.pages \in Nat
      BY <1>8, WalkFields
    <3> QED
      BY <3>1
  <2> HIDE DEF n
  <2>2. [v4 EXCEPT !.pages = n] \in Walk
    BY <1>8, <2>1, WalkWritten
  <2>3. \A f \in WalkNames : f # "pages" => [v4 EXCEPT !.pages = n][f] = v4[f]
    BY <1>4, <1>8, FieldLeft
  <2> QED
    BY <2>2, <2>3 DEF n
<1> HIDE DEF v5
<1>10. /\ v5.step = "read" /\ v5.by = w.by /\ v5.query = w.query /\ v5.own = w.own
       /\ v5.sort = w.sort
       /\ v5.limit = w.limit /\ v5.cursor = w.cursor /\ v5.offset = w.offset
       /\ v5.page = hits /\ v5.seen = w.seen \union hits /\ v5.start = w.start
       /\ v5.again = w.again + Cardinality(hits \intersect w.seen)
  BY <1>5, <1>6, <1>7, <1>8, <1>9 DEF WalkNames
<1>11. Asked(v5)
  BY <1>1, <1>10 DEF Asked
<1>13. ASSUME w.by = "cursor" PROVE Tight(v5)
  <2>1. /\ hits \intersect w.seen = {}
        /\ w.cursor # None => \A id \in hits : id < w.cursor
        /\ \A id \in w.start, x \in hits : id >= x => id \in w.seen \union hits
        /\ Cardinality(hits) < w.limit => w.start \subseteq w.seen \union hits
    BY <1>13, CursorPage
  <2>2. /\ w.again = 0 /\ w.start \subseteq Documents
        /\ \A id \in w.start : w.cursor # None /\ id >= w.cursor => id \in w.seen
        /\ \A id \in w.seen : w.cursor # None /\ id >= w.cursor
    BY <1>1, <1>13 DEF Tight
  <2>3. v5.again = 0
    BY <1>10, <2>1, <2>2, FS_EmptySet
  <2> QED
    BY <1>10, <2>1, <2>2, <2>3 DEF Tight
<1>14. Tight(v5)
  BY <1>10, <1>13 DEF Tight
<1>15. Good(v5)
  BY <1>9, <1>11, <1>14 DEF Good
<1> QED
  BY <1>15 DEF v1, v2, v3, v4, v5

LEMMA NextByCursorIsGood ==
  ASSUME NEW w, Good(w), w.step = "read", w.page # {}, w.by = "cursor"
  PROVE  Good([w EXCEPT !.step = "count", !.cursor = Least(w.page)])
<1> DEFINE v == [w EXCEPT !.step = "count"]
           x == [v EXCEPT !.cursor = Least(w.page)]
<1>1. w \in Walk /\ Asked(w) /\ Tight(w)
  BY DEF Good
<1>2. w.page \in SUBSET Nat /\ w.page \in SUBSET Ids /\ w.seen \in SUBSET Nat
  BY <1>1, WalkFields, IdsAssumption
<1>3. Least(w.page) \in w.page /\ \A id \in w.page : Least(w.page) <= id
  BY <1>2, LeastExists
<1>4. Least(w.page) # None /\ Least(w.page) \in Nat
  BY <1>2, <1>3, NoneAssumption
<1>5. "step" \in WalkNames /\ "cursor" \in WalkNames
  BY DEF WalkNames
<1>6. v \in Walk /\ \A f \in WalkNames : v[f] = IF f = "step" THEN "count" ELSE w[f]
  <2>1. v \in Walk
    BY <1>1, WalkWritten
  <2> QED
    BY <1>1, <1>5, <2>1, FieldLeft
<1> HIDE DEF v
<1>7. x \in Walk /\ \A f \in WalkNames : x[f] = IF f = "cursor" THEN Least(w.page) ELSE v[f]
  <2>1. x \in Walk
    BY <1>2, <1>3, <1>6, WalkWritten
  <2> QED
    BY <1>5, <1>6, <2>1, FieldLeft
<1> HIDE DEF x
<1>8. /\ x.step = "count" /\ x.by = w.by /\ x.query = w.query /\ x.own = w.own /\ x.sort = w.sort
      /\ x.limit = w.limit /\ x.cursor = Least(w.page) /\ x.offset = w.offset
      /\ x.page = w.page /\ x.seen = w.seen /\ x.again = w.again /\ x.start = w.start
  BY <1>6, <1>7 DEF WalkNames
<1>9. Asked(x)
  BY <1>1, <1>8 DEF Asked
<1>10. /\ w.again = 0 /\ w.start \subseteq Documents /\ w.page \subseteq w.seen
       /\ \A id \in w.seen : id \in w.page \/ (w.cursor # None /\ id >= w.cursor)
       /\ w.cursor # None => \A id \in w.page : id < w.cursor
       /\ \A id \in w.start, y \in w.page : id >= y => id \in w.seen
  BY <1>1 DEF Tight
<1>11. ASSUME NEW id \in w.seen PROVE id >= Least(w.page)
  <2>1. CASE id \in w.page
    BY <1>2, <1>3, <1>4, <2>1
  <2>2. CASE w.cursor # None /\ id >= w.cursor
    <3>1. w.cursor \in Nat
      BY <1>1, <2>2, WalkFields, IdsAssumption
    <3> QED
      BY <1>2, <1>3, <1>4, <1>10, <2>2, <3>1
  <2> QED
    BY <1>10, <2>1, <2>2
<1>12. Tight(x)
  BY <1>3, <1>4, <1>8, <1>10, <1>11 DEF Tight
<1>13. Good(x)
  BY <1>1, <1>7, <1>8, <1>9, <1>12 DEF Good
<1> QED
  BY <1>13 DEF x, v

LEMMA NextByOffsetIsGood ==
  ASSUME NEW w, Good(w), w.step = "read", w.by # "cursor"
  PROVE  Good([w EXCEPT !.step = "count", !.offset = @ + w.limit])
<1> DEFINE v == [w EXCEPT !.step = "count"]
           n == v.offset + w.limit
           x == [v EXCEPT !.offset = n]
<1>1. w \in Walk /\ Asked(w)
  BY DEF Good
<1>2. "step" \in WalkNames /\ "offset" \in WalkNames
  BY DEF WalkNames
<1>3. v \in Walk /\ \A f \in WalkNames : v[f] = IF f = "step" THEN "count" ELSE w[f]
  <2>1. v \in Walk
    BY <1>1, WalkWritten
  <2> QED
    BY <1>1, <1>2, <2>1, FieldLeft
<1>4. n \in Nat
  <2>1. v.offset \in Nat
    BY <1>3, WalkFields
  <2>2. w.limit \in Nat
    BY <1>1 DEF Asked
  <2> QED
    BY <2>1, <2>2
<1> HIDE DEF v, n
<1>5. x \in Walk /\ \A f \in WalkNames : x[f] = IF f = "offset" THEN n ELSE v[f]
  <2>1. x \in Walk
    BY <1>3, <1>4, WalkWritten
  <2> QED
    BY <1>2, <1>3, <2>1, FieldLeft
<1> HIDE DEF x
<1>6. /\ x.step = "count" /\ x.by = w.by /\ x.query = w.query /\ x.own = w.own /\ x.sort = w.sort
      /\ x.limit = w.limit /\ x.page = w.page
  BY <1>3, <1>5 DEF WalkNames
<1>7. Asked(x) /\ Tight(x)
  BY <1>1, <1>6 DEF Asked, Tight
<1>8. Good(x)
  BY <1>1, <1>5, <1>6, <1>7 DEF Good
<1> QED
  BY <1>8 DEF x, v, n

\* Is the document asked for, with what is written of it?
Asks(w, docs) == \E doc \in docs : Matches(doc, MongoFilter(w.query, w.own))

\* A walk after a document came or went: as it was, but for its history.
AsNoted(w, x, id, docs) ==
  /\ x \in Walk
  /\ \A f \in WalkNames \ {"came", "went", "start"} : x[f] = w[f]
  /\ x.came = IF Asks(w, docs) /\ id \notin Meant(w) THEN w.came + 1 ELSE w.came
  /\ x.went = IF id \in Meant(w) /\ ~Asks(w, docs) THEN w.went + 1 ELSE w.went
  /\ x.start = IF Asks(w, docs) THEN w.start ELSE w.start \ {id}

LEMMA NotedWalk ==
  ASSUME NEW id, NEW docs, NEW c \in Clients, walk[c] \in Walk, walk[c].step # "idle"
  PROVE  AsNoted(walk[c], Noted(id, docs)[c], id, docs)
<1>1. PICK w : w = walk[c]
  OBVIOUS
<1> DEFINE was == id \in Meant(w)
           is == Asks(w, docs)
           came == IF is /\ ~was THEN w.came + 1 ELSE w.came
           went == IF was /\ ~is THEN w.went + 1 ELSE w.went
           start == IF is THEN w.start ELSE w.start \ {id}
           v1 == [w EXCEPT !.came = came]
           v2 == [v1 EXCEPT !.went = went]
           v3 == [v2 EXCEPT !.start = start]
<1>2. Noted(id, docs)[c] = [w EXCEPT !.came = came, !.went = went, !.start = start]
  BY <1>1 DEF Noted, Asks, Meant
<1> HIDE DEF was, is
<1>3. w \in Walk /\ w.came \in Nat /\ w.went \in Nat /\ w.start \in SUBSET Ids
  BY <1>1, WalkFields
<1>4. came \in Nat /\ went \in Nat /\ start \in SUBSET Ids
  BY <1>3
<1> HIDE DEF came, went, start
<1>5. "came" \in WalkNames /\ "went" \in WalkNames /\ "start" \in WalkNames
  BY DEF WalkNames
<1>6. Noted(id, docs)[c] = v3
  BY <1>2
<1>7. v1 \in Walk /\ \A f \in WalkNames : v1[f] = IF f = "came" THEN came ELSE w[f]
  <2>1. v1 \in Walk
    BY <1>3, <1>4, WalkWritten
  <2> QED
    BY <1>3, <1>5, <2>1, FieldLeft
<1> HIDE DEF v1
<1>8. v2 \in Walk /\ \A f \in WalkNames : v2[f] = IF f = "went" THEN went ELSE v1[f]
  <2>1. v2 \in Walk
    BY <1>4, <1>7, WalkWritten
  <2> QED
    BY <1>5, <1>7, <2>1, FieldLeft
<1> HIDE DEF v2
<1>9. v3 \in Walk /\ \A f \in WalkNames : v3[f] = IF f = "start" THEN start ELSE v2[f]
  <2>1. v3 \in Walk
    BY <1>4, <1>8, WalkWritten
  <2> QED
    BY <1>5, <1>8, <2>1, FieldLeft
<1> HIDE DEF v3
<1>10. /\ v3.came = came /\ v3.went = went /\ v3.start = start
       /\ \A f \in WalkNames \ {"came", "went", "start"} : v3[f] = w[f]
  BY <1>5, <1>7, <1>8, <1>9
<1>11. AsNoted(w, v3, id, docs)
  BY <1>9, <1>10 DEF AsNoted, came, went, start, was, is
<1> QED
  BY <1>1, <1>6, <1>11

\* The sockets, written field by field.
LEMMA SocketWritten ==
  ASSUME NEW s \in Socket
  PROVE  /\ s.process \in Processes \union {None} /\ s.loading \in BOOLEAN
         /\ s.loaded \in (SUBSET Ids) \union {None} /\ s.live \in SUBSET Ids
         /\ \A p \in Processes : [s EXCEPT !.process = p] \in Socket
         /\ \A b \in BOOLEAN : [s EXCEPT !.loading = b] \in Socket
         /\ \A S \in SUBSET Ids : [s EXCEPT !.loaded = S] \in Socket
         /\ \A S \in SUBSET Ids : [s EXCEPT !.live = S] \in Socket
<1> DEFINE Hosts == Processes \union {None}
           Parts == SUBSET Ids
           Histories == Parts \union {None}
<1>1. Socket = [process : Hosts, loading : BOOLEAN, loaded : Histories, live : Parts]
  BY DEF Socket
<1>2. Processes \subseteq Hosts /\ Parts \subseteq Histories
  OBVIOUS
<1> HIDE DEF Hosts, Parts, Histories
<1>3. /\ s.process \in Hosts /\ s.loading \in BOOLEAN
      /\ s.loaded \in Histories /\ s.live \in Parts
      /\ \A p \in Hosts : [s EXCEPT !.process = p] \in Socket
      /\ \A b \in BOOLEAN : [s EXCEPT !.loading = b] \in Socket
      /\ \A S \in Histories : [s EXCEPT !.loaded = S] \in Socket
      /\ \A S \in Parts : [s EXCEPT !.live = S] \in Socket
  BY <1>1
<1> QED
  BY <1>2, <1>3 DEF Hosts, Parts, Histories

SocketNames == {"process", "loading", "loaded", "live"}

LEMMA SocketFieldLeft ==
  ASSUME NEW s \in Socket, NEW g \in SocketNames, NEW v, NEW f \in SocketNames
  PROVE  [s EXCEPT ![g] = v][f] = IF f = g THEN v ELSE s[f]
<1>1. DOMAIN s = SocketNames
  BY DEF Socket, SocketNames
<1> QED
  BY <1>1

\* What the invariant says of the documents, the handlers and the sockets.
Rest ==
  /\ collection \in Collections
  /\ stored \in [Ids -> Handlers \union {None}]
  /\ owner \in [Ids -> Owners]
  /\ edits \in Nat
  /\ drawn \subseteq Ids
  /\ task \in [Handlers -> Task]
  /\ socket \in [Clients -> Socket]
  /\ IdsAreDrawn
  /\ SocketsAreServed
  /\ NoGap

LEMMA InvariantParts ==
  /\ IInv <=> Rest /\ walk \in [Clients -> Walk] /\ \A c \in Clients : Good(walk[c])
  /\ IInv' <=> Rest' /\ walk' \in [Clients -> Walk] /\ \A c \in Clients : Good(walk[c])'
<1>1. IInv <=> Rest /\ walk \in [Clients -> Walk] /\ \A c \in Clients : Good(walk[c])
  BY DEF IInv, TypeOK, WalksAreAsked, CursorsAreTight, Good, Rest
<1>2. IInv' <=> Rest' /\ walk' \in [Clients -> Walk] /\ \A c \in Clients : Good(walk[c])'
  BY DEF IInv, TypeOK, WalksAreAsked, CursorsAreTight, Good, Rest
<1> QED
  BY <1>1, <1>2

\* A step of one walk.
LEMMA WalkStep ==
  ASSUME IInv, NEW c \in Clients, NEW w, Good(w), walk' = [walk EXCEPT ![c] = w],
         UNCHANGED <<collection, stored, owner, edits, drawn, task, socket>>
  PROVE  IInv'
<1>1. Rest /\ walk \in [Clients -> Walk] /\ \A d \in Clients : Good(walk[d])
  BY InvariantParts
<1>2. Rest'
  BY <1>1 DEF Rest, IdsAreDrawn, SocketsAreServed, NoGap, Documents
<1>3. walk' \in [Clients -> Walk]
  BY <1>1 DEF Good
<1>4. ASSUME NEW d \in Clients PROVE Good(walk[d])'
  <2>1. PICK x : x = walk'[d]
    OBVIOUS
  <2>2. Good(x)
    BY <1>1, <2>1
  <2>3. Documents' = Documents
    BY DEF Documents
  <2>4. x \in Walk /\ Asked(x)' /\ Tight(x)'
    BY <2>2, <2>3 DEF Good, Asked, Tight
  <2> QED
    BY <2>1, <2>4 DEF Good, Asked, Tight
<1> QED
  BY <1>2, <1>3, <1>4, InvariantParts

\* A step that leaves the documents and the walks alone.
LEMMA OtherStep ==
  ASSUME IInv, UNCHANGED <<collection, stored, owner, walk>>, Rest'
  PROVE  IInv'
<1>1. walk \in [Clients -> Walk] /\ \A d \in Clients : Good(walk[d])
  BY InvariantParts
<1>2. Documents' = Documents
  BY DEF Documents
<1>3. \A d \in Clients : Good(walk[d])'
  BY <1>1, <1>2 DEF Good, Asked, Tight
<1> QED
  BY <1>1, <1>3, InvariantParts

\* What is remembered of a document that comes or goes: a walk stays good when
\* the documents it needs are still there.
LEMMA HistoryStep ==
  ASSUME IInv, NEW id \in Ids, NEW docs, UNCHANGED collection, walk' = Noted(id, docs),
         Documents \subseteq Documents' \/ collection # "messages",
         Rest'
  PROVE  IInv'
<1>1. walk \in [Clients -> Walk] /\ \A d \in Clients : Good(walk[d])
  BY InvariantParts
<1>2. ASSUME NEW d \in Clients PROVE Good(walk[d])'
  <2>1. PICK w : w = walk[d]
    OBVIOUS
  <2>2. PICK x : x = walk'[d]
    OBVIOUS
  <2>3. w \in Walk /\ Asked(w) /\ Tight(w)
    BY <1>1, <2>1 DEF Good
  <2>4. x \in Walk /\ x.start \subseteq w.start
        /\ \A f \in WalkNames \ {"came", "went", "start"} : x[f] = w[f]
    <3>1. CASE w.step = "idle"
      <4>1. x = w
        BY <2>1, <2>2, <3>1 DEF Noted
      <4> QED
        BY <2>3, <4>1
    <3>2. CASE w.step # "idle"
      <4>1. AsNoted(walk[d], Noted(id, docs)[d], id, docs)
        BY <2>1, <2>3, <3>2, NotedWalk
      <4>2. AsNoted(w, x, id, docs)
        BY <2>1, <2>2, <4>1
      <4> QED
        BY <4>2 DEF AsNoted
    <3> QED
      BY <3>1, <3>2
  <2>5. /\ x.step = w.step /\ x.by = w.by /\ x.query = w.query /\ x.own = w.own
        /\ x.sort = w.sort /\ x.limit = w.limit /\ x.cursor = w.cursor /\ x.offset = w.offset
        /\ x.page = w.page /\ x.seen = w.seen /\ x.again = w.again
    BY <2>4 DEF WalkNames
  <2>6. Asked(x)'
    <3>1. CASE w.step = "idle"
      <4>1. x = w
        BY <2>1, <2>2, <3>1 DEF Noted
      <4> QED
        BY <2>3, <3>1, <4>1 DEF Asked
    <3>2. CASE w.step # "idle"
      BY <2>3, <2>5, <3>2 DEF Asked
    <3> QED
      BY <3>1, <3>2
  <2>7. w.step # "idle" /\ w.by = "cursor" => Documents \subseteq Documents'
    BY <2>3 DEF Asked
  <2>8. Tight(x)'
    BY <2>3, <2>4, <2>5, <2>7 DEF Tight
  <2> QED
    BY <2>2, <2>4, <2>6, <2>8 DEF Good, Asked, Tight
<1>3. walk' \in [Clients -> Walk]
  <2>1. \A d \in Clients : walk'[d] \in Walk
    BY <1>2 DEF Good
  <2>2. walk' = [d \in Clients |-> walk'[d]]
    BY DEF Noted
  <2> QED
    BY <2>1, <2>2
<1> QED
  BY <1>2, <1>3, InvariantParts

LEMMA NewKeeps ==
  ASSUME IInv, NEW h \in Handlers, NEW id \in Ids, New(h, id)
  PROVE  IInv'
<1>1. Rest
  BY InvariantParts
<1>2. /\ task[h].step = "idle" /\ id \notin drawn /\ drawn' = drawn \union {id}
      /\ task' = [task EXCEPT ![h] = [step |-> "save", id |-> id]]
      /\ UNCHANGED <<collection, stored, owner, edits, walk, socket>>
  BY DEF New
<1>3. [step |-> "save", id |-> id] \in Task
  BY DEF Task
<1>4. Documents' = Documents
  BY <1>2 DEF Documents
<1>5. \A g \in Handlers : task'[g] = IF g = h THEN [step |-> "save", id |-> id] ELSE task[g]
  BY <1>1, <1>2 DEF Rest
<1>6. stored[id] = None
  BY <1>1, <1>2 DEF Rest, IdsAreDrawn, Documents
<1>7. IdsAreDrawn'
  <2>1. id # None /\ \A g \in Handlers : task[g].step = "idle" => task[g].id = None
    BY <1>1, IdsAssumption, NoneAssumption DEF Rest, IdsAreDrawn
  <2> QED
    BY <1>1, <1>2, <1>4, <1>5, <1>6, <2>1 DEF Rest, IdsAreDrawn
<1>8. NoGap'
  <2>1. \A g \in Handlers : \A x : task[g] = [step |-> "emit", id |-> x]
                               => task'[g] = [step |-> "emit", id |-> x]
    BY <1>2, <1>5
  <2> QED
    BY <1>1, <1>2, <1>4, <2>1 DEF Rest, NoGap
<1>9. SocketsAreServed'
  BY <1>1, <1>2 DEF Rest, SocketsAreServed
<1>10. Rest'
  BY <1>1, <1>2, <1>3, <1>7, <1>8, <1>9 DEF Rest
<1> QED
  BY <1>2, <1>10, OtherStep

LEMMA SaveKeeps ==
  ASSUME IInv, NEW h \in Handlers, Save(h)
  PROVE  IInv'
<1> DEFINE id == task[h].id
           t == IF collection = "messages" THEN [step |-> "emit", id |-> id] ELSE Idle
<1>1. Rest
  BY InvariantParts
<1>2. /\ task[h].step = "save" /\ stored' = [stored EXCEPT ![id] = h]
      /\ task' = [task EXCEPT ![h] = t] /\ walk' = Noted(id, {Doc(id)})
      /\ UNCHANGED <<collection, owner, edits, drawn, socket>>
  BY DEF Save
<1>3. id \in drawn /\ id \in Ids /\ stored[id] = None
  BY <1>1, <1>2 DEF Rest, IdsAreDrawn
<1>4. t \in Task
  BY <1>3 DEF Task, Idle
<1>5. /\ collection = "messages" => t = [step |-> "emit", id |-> id]
      /\ collection # "messages" => t.step = "idle" /\ t.id = None
  BY DEF Idle
<1> HIDE DEF t
<1>6. \A g \in Handlers : task'[g] = IF g = h THEN t ELSE task[g]
  BY <1>1, <1>2 DEF Rest
<1>7. \A x \in Ids : stored'[x] = IF x = id THEN h ELSE stored[x]
  BY <1>1, <1>2 DEF Rest
<1>8. None \notin Handlers
  BY NoneAssumption
<1>9. Documents' = Documents \union {id}
  BY <1>3, <1>7, <1>8 DEF Documents
<1> HIDE DEF id
<1>10. \A g \in Handlers : g # h => task[g].id # id \/ task[g].step = "idle"
  BY <1>1, <1>2 DEF Rest, IdsAreDrawn, id
<1>11. \A g \in Handlers : task[g].step # "idle" => task[g].id \in Ids
  BY <1>1 DEF Rest, IdsAreDrawn
<1>12. IdsAreDrawn'
  <2>1. \A x \in Documents' : x \in drawn'
    BY <1>1, <1>2, <1>3, <1>9 DEF Rest, IdsAreDrawn
  <2>2. ASSUME NEW g \in Handlers
        PROVE  /\ IF task'[g].step = "idle" THEN task'[g].id = None ELSE task'[g].id \in drawn'
               /\ task'[g].step = "save" => stored'[task'[g].id] = None
               /\ task'[g].step = "emit" => stored'[task'[g].id] = g /\ collection' = "messages"
    <3>1. CASE g = h
      BY <1>2, <1>3, <1>5, <1>6, <1>7, <3>1
    <3>2. CASE g # h
      BY <1>1, <1>2, <1>6, <1>7, <1>10, <1>11, <3>2 DEF Rest, IdsAreDrawn
    <3> QED
      BY <3>1, <3>2
  <2>3. ASSUME NEW g \in Handlers, NEW f \in Handlers,
               task'[f].id = task'[g].id /\ task'[g].step # "idle"
        PROVE  f = g
    <3>1. task[g].step # "idle" /\ task[g].id = task'[g].id
      BY <1>2, <1>5, <1>6, <2>3 DEF id
    <3>2. task'[g].id # None
      BY <1>11, <3>1, IdsAssumption, NoneAssumption
    <3>3. task[f].id = task'[f].id
      BY <1>2, <1>5, <1>6, <2>3, <3>2 DEF id
    <3> QED
      BY <1>1, <2>3, <3>1, <3>3 DEF Rest, IdsAreDrawn
  <2> QED
    BY <2>1, <2>2, <2>3 DEF IdsAreDrawn
<1>13. SocketsAreServed'
  BY <1>1, <1>2, <1>3, <1>7, <1>8 DEF Rest, SocketsAreServed, Socket
<1>14. NoGap'
  <2>1. SUFFICES ASSUME NEW c \in Clients, socket[c].loaded # None, NEW x \in Documents'
        PROVE  \/ At[stored'[x]] # socket[c].process \/ stored'[x] \in Faulty
               \/ x \in socket[c].loaded \/ x \in socket[c].live
               \/ \E g \in Handlers : task'[g] = [step |-> "emit", id |-> x]
               \/ /\ Cardinality(socket[c].loaded) >= DefaultLimit
                  /\ \A y \in socket[c].loaded : x < y
    BY <1>2 DEF NoGap
  <2>2. CASE x = id
    <3>1. socket[c].process # None
      BY <1>1, <2>1 DEF Rest, SocketsAreServed, NoSocket
    <3>2. collection = "messages"
      BY <1>1, <3>1 DEF Rest, SocketsAreServed
    <3> QED
      BY <1>5, <1>6, <2>2, <3>2
  <2>3. CASE x # id
    <3>1. x \in Documents /\ stored'[x] = stored[x]
      BY <1>7, <1>9, <2>1, <2>3 DEF Documents
    <3>2. \A g \in Handlers : task[g] = [step |-> "emit", id |-> x] => task'[g] = task[g]
      BY <1>2, <1>6
    <3> QED
      BY <1>1, <2>1, <3>1, <3>2 DEF Rest, NoGap
  <2> QED
    BY <2>2, <2>3
<1>15. stored' \in [Ids -> Handlers \union {None}] /\ task' \in [Handlers -> Task]
  BY <1>1, <1>2, <1>4 DEF Rest
<1>16. Rest'
  BY <1>1, <1>2, <1>12, <1>13, <1>14, <1>15 DEF Rest
<1> QED
  BY <1>2, <1>3, <1>9, <1>16, HistoryStep

\* A handler that is done holds no id.
LEMMA IdleDraws ==
  ASSUME Rest, NEW h \in Handlers, task' = [task EXCEPT ![h] = Idle],
         UNCHANGED <<collection, stored, owner, edits, drawn>>
  PROVE  IdsAreDrawn'
<1>1. Idle.step = "idle" /\ Idle.id = None
  BY DEF Idle
<1>2. \A g \in Handlers : task'[g] = IF g = h THEN Idle ELSE task[g]
  BY DEF Rest
<1>3. Documents' = Documents
  BY DEF Documents
<1>4. None \notin drawn
  BY IdsAssumption, NoneAssumption DEF Rest
<1>5. ASSUME NEW g \in Handlers
      PROVE  /\ IF task'[g].step = "idle" THEN task'[g].id = None ELSE task'[g].id \in drawn
             /\ task'[g].step = "save" => stored[task'[g].id] = None
             /\ task'[g].step = "emit" => stored[task'[g].id] = g /\ collection = "messages"
  <2>1. CASE g = h
    BY <1>1, <1>2, <2>1
  <2>2. CASE g # h
    BY <1>2, <2>2 DEF Rest, IdsAreDrawn
  <2> QED
    BY <2>1, <2>2
<1>6. ASSUME NEW g \in Handlers, NEW f \in Handlers,
             task'[f].id = task'[g].id /\ task'[g].step # "idle"
      PROVE  f = g
  <2>1. g # h /\ task'[g] = task[g] /\ task[g].id \in drawn
    BY <1>1, <1>2, <1>6 DEF Rest, IdsAreDrawn
  <2>2. f # h /\ task'[f] = task[f]
    BY <1>1, <1>2, <1>4, <1>6, <2>1
  <2> QED
    BY <1>6, <2>1, <2>2 DEF Rest, IdsAreDrawn
<1> QED
  BY <1>3, <1>5, <1>6 DEF IdsAreDrawn, Rest

LEMMA EmitKeeps ==
  ASSUME IInv, NEW h \in Handlers, Emit(h)
  PROVE  IInv'
<1> DEFINE id == task[h].id
           next(c) == IF c \in Local(At[h]) THEN [socket[c] EXCEPT !.live = @ \union {id}]
                      ELSE socket[c]
<1>1. Rest
  BY InvariantParts
<1>2. /\ task[h].step = "emit" /\ task' = [task EXCEPT ![h] = Idle]
      /\ socket' = [c \in Clients |-> next(c)]
      /\ UNCHANGED <<collection, stored, owner, edits, drawn, walk>>
  BY DEF Emit
<1>3. id \in drawn /\ id \in Ids /\ stored[id] = h /\ collection = "messages"
  BY <1>1, <1>2 DEF Rest, IdsAreDrawn
<1>4. At[h] \in Processes /\ At[h] # None /\ h # None
  BY AtAssumption, NoneAssumption
<1>5. ASSUME NEW c \in Clients
      PROVE  /\ socket'[c] \in Socket /\ socket'[c].process = socket[c].process
             /\ socket'[c].loaded = socket[c].loaded
             /\ socket'[c].live =
                  IF socket[c].process = At[h] THEN socket[c].live \union {id} ELSE socket[c].live
  <2> DEFINE live == socket[c].live \union {id}
  <2>1. socket[c] \in Socket /\ live \in SUBSET Ids
    <3>1. socket[c] \in Socket
      BY <1>1 DEF Rest
    <3> QED
      BY <1>3, <3>1, SocketWritten
  <2> HIDE DEF live
  <2>2. [socket[c] EXCEPT !.live = live] \in Socket
    BY <2>1, SocketWritten
  <2>3. /\ "live" \in SocketNames /\ "process" \in SocketNames /\ "loaded" \in SocketNames
    BY DEF SocketNames
  <2>4. /\ [socket[c] EXCEPT !.live = live].live = live
        /\ [socket[c] EXCEPT !.live = live].process = socket[c].process
        /\ [socket[c] EXCEPT !.live = live].loaded = socket[c].loaded
    BY <2>1, <2>3, SocketFieldLeft
  <2>5. socket'[c] = IF socket[c].process = At[h] THEN [socket[c] EXCEPT !.live = live]
                     ELSE socket[c]
    BY <1>2 DEF Local, live
  <2> QED
    BY <2>1, <2>2, <2>4, <2>5 DEF live
<1> HIDE DEF id, next
<1>6. socket' \in [Clients -> Socket]
  BY <1>2, <1>5
<1>7. Idle \in Task /\ Idle.step = "idle" /\ Idle.id = None
  BY DEF Task, Idle
<1>8. \A g \in Handlers : task'[g] = IF g = h THEN Idle ELSE task[g]
  BY <1>1, <1>2 DEF Rest
<1>9. Documents' = Documents
  BY <1>2 DEF Documents
<1>10. IdsAreDrawn'
  BY <1>1, <1>2, IdleDraws
<1>11. SocketsAreServed'
  <2>1. SUFFICES ASSUME NEW c \in Clients
        PROVE  /\ socket'[c].process = None => socket'[c] = NoSocket
               /\ socket'[c].process # None => collection = "messages"
               /\ \A x \in socket'[c].live : stored[x] # None /\ At[stored[x]] = socket'[c].process
    BY <1>2 DEF SocketsAreServed
  <2>2. /\ socket[c].process = None => socket[c] = NoSocket
        /\ \A x \in socket[c].live : stored[x] # None /\ At[stored[x]] = socket[c].process
    BY <1>1 DEF Rest, SocketsAreServed
  <2>3. socket[c].process = None => socket'[c] = socket[c]
    BY <1>2, <1>4 DEF next, Local
  <2> QED
    BY <1>3, <1>4, <1>5, <2>2, <2>3
<1>12. NoGap'
  <2>1. SUFFICES ASSUME NEW c \in Clients, socket[c].loaded # None, NEW x \in Documents
        PROVE  \/ At[stored[x]] # socket[c].process \/ stored[x] \in Faulty
               \/ x \in socket[c].loaded \/ x \in socket'[c].live
               \/ \E g \in Handlers : task'[g] = [step |-> "emit", id |-> x]
               \/ /\ Cardinality(socket[c].loaded) >= DefaultLimit
                  /\ \A y \in socket[c].loaded : x < y
    BY <1>2, <1>5, <1>9 DEF NoGap
  <2>2. CASE x = id
    BY <1>3, <1>5, <2>2
  <2>3. CASE x # id
    <3>1. \A g \in Handlers : task[g] = [step |-> "emit", id |-> x] => task'[g] = task[g]
      BY <1>8, <2>3 DEF id
    <3>2. x \in socket[c].live => x \in socket'[c].live
      BY <1>5
    <3> QED
      BY <1>1, <2>1, <3>1, <3>2 DEF Rest, NoGap
  <2> QED
    BY <2>2, <2>3
<1>13. Rest'
  BY <1>1, <1>2, <1>6, <1>7, <1>10, <1>11, <1>12 DEF Rest
<1> QED
  BY <1>2, <1>13, OtherStep

LEMMA FailKeeps ==
  ASSUME IInv, NEW h \in Handlers, Fail(h)
  PROVE  IInv'
<1>1. Rest
  BY InvariantParts
<1>2. /\ h \in Faulty /\ task' = [task EXCEPT ![h] = Idle]
      /\ UNCHANGED <<collection, stored, owner, edits, drawn, walk, socket>>
  BY DEF Fail
<1>3. Idle \in Task /\ Idle.step = "idle" /\ Idle.id = None
  BY DEF Task, Idle
<1>4. \A g \in Handlers : task'[g] = IF g = h THEN Idle ELSE task[g]
  BY <1>1, <1>2 DEF Rest
<1>5. Documents' = Documents
  BY <1>2 DEF Documents
<1>6. IdsAreDrawn' /\ SocketsAreServed'
  <2>1. IdsAreDrawn'
    BY <1>1, <1>2, IdleDraws
  <2> QED
    BY <1>1, <1>2, <2>1 DEF Rest, SocketsAreServed
<1>7. NoGap'
  <2>1. ASSUME NEW x, task[h] = [step |-> "emit", id |-> x] PROVE stored[x] \in Faulty
    BY <1>1, <1>2, <2>1 DEF Rest, IdsAreDrawn
  <2>2. \A g \in Handlers : \A x : task[g] = [step |-> "emit", id |-> x] =>
          task'[g] = [step |-> "emit", id |-> x] \/ stored[x] \in Faulty
    BY <1>4, <2>1
  <2> QED
    BY <1>1, <1>2, <1>5, <2>2 DEF Rest, NoGap
<1>8. Rest'
  BY <1>1, <1>2, <1>3, <1>6, <1>7 DEF Rest
<1> QED
  BY <1>2, <1>8, OtherStep

LEMMA DeleteKeeps ==
  ASSUME IInv, NEW id \in Ids, Delete(id)
  PROVE  IInv'
<1>1. Rest
  BY InvariantParts
<1>2. /\ collection # "messages" /\ stored' = [stored EXCEPT ![id] = None] /\ walk' = Noted(id, {})
      /\ UNCHANGED <<collection, owner, edits, drawn, task, socket>>
  BY DEF Delete
<1>3. \A x \in Ids : stored'[x] = IF x = id THEN None ELSE stored[x]
  BY <1>1, <1>2 DEF Rest
<1>4. \A c \in Clients : socket[c].loaded = None /\ socket[c].live = {}
  BY <1>1, <1>2 DEF Rest, SocketsAreServed, NoSocket
<1>5. SocketsAreServed'
  BY <1>1, <1>2, <1>4 DEF Rest, SocketsAreServed
<1>6. NoGap'
  BY <1>2, <1>4 DEF NoGap
<1>7. IdsAreDrawn'
  <2>1. \A h \in Handlers : task[h].step # "idle" => task[h].id \in Ids
    BY <1>1 DEF Rest, IdsAreDrawn
  <2> QED
    BY <1>1, <1>2, <1>3, <2>1 DEF Rest, IdsAreDrawn, Documents
<1>8. stored' \in [Ids -> Handlers \union {None}]
  BY <1>1, <1>2 DEF Rest
<1>9. Rest'
  BY <1>1, <1>2, <1>5, <1>6, <1>7, <1>8 DEF Rest
<1> QED
  BY <1>2, <1>9, HistoryStep

LEMMA EditKeeps ==
  ASSUME IInv, NEW id \in Ids, NEW o \in Owners, Edit(id, o)
  PROVE  IInv'
<1>1. Rest
  BY InvariantParts
<1>2. /\ collection # "messages" /\ owner' = [owner EXCEPT ![id] = o] /\ edits' = edits + 1
      /\ walk' = Noted(id, {Record(id, o)})
      /\ UNCHANGED <<collection, stored, drawn, task, socket>>
  BY DEF Edit
<1>3. owner' \in [Ids -> Owners] /\ edits' \in Nat
  BY <1>1, <1>2 DEF Rest
<1>4. Documents' = Documents
  BY <1>2 DEF Documents
<1>5. IdsAreDrawn' /\ SocketsAreServed' /\ NoGap'
  BY <1>1, <1>2, <1>4 DEF Rest, IdsAreDrawn, SocketsAreServed, NoGap
<1>6. Rest'
  BY <1>1, <1>2, <1>3, <1>5 DEF Rest
<1> QED
  BY <1>2, <1>6, HistoryStep

\* A step of one socket: the others, and what is drawn and stored, stay.
LEMMA SocketStep ==
  ASSUME IInv, NEW c \in Clients, NEW s \in Socket, socket' = [socket EXCEPT ![c] = s],
         UNCHANGED <<collection, stored, owner, edits, drawn, task, walk>>,
         s.process = None => s = NoSocket,
         s.process # None => collection = "messages",
         s.live = {} \/ (s.process = socket[c].process /\ s.live = socket[c].live),
         s.loaded # None => \A x \in Documents :
           \/ At[stored[x]] # s.process \/ stored[x] \in Faulty
           \/ x \in s.loaded \/ x \in s.live
           \/ \E h \in Handlers : task[h] = [step |-> "emit", id |-> x]
           \/ (Cardinality(s.loaded) >= DefaultLimit /\ \A y \in s.loaded : x < y)
  PROVE  IInv'
<1>1. Rest
  BY InvariantParts
<1>2. \A d \in Clients : socket'[d] = IF d = c THEN s ELSE socket[d]
  BY <1>1 DEF Rest
<1>3. Documents' = Documents
  BY DEF Documents
<1>4. IdsAreDrawn'
  BY <1>1, <1>3 DEF Rest, IdsAreDrawn
<1>5. SocketsAreServed'
  BY <1>1, <1>2 DEF Rest, SocketsAreServed
<1>6. NoGap'
  BY <1>1, <1>2, <1>3 DEF Rest, NoGap
<1>7. Rest'
  BY <1>1, <1>4, <1>5, <1>6 DEF Rest
<1> QED
  BY <1>7, OtherStep

LEMMA HandleConnectionKeeps ==
  ASSUME IInv, NEW c \in Clients, NEW p \in Processes, HandleConnection(c, p)
  PROVE  IInv'
<1> DEFINE s == [socket[c] EXCEPT !.process = p]
<1>1. Rest
  BY InvariantParts
<1>2. socket[c] \in Socket /\ socket[c] = NoSocket
  BY <1>1 DEF Rest, SocketsAreServed, HandleConnection
<1>3. s \in Socket
  BY <1>2, SocketWritten
<1>4. s.process = p /\ s.loaded = socket[c].loaded /\ s.live = socket[c].live
  BY <1>2, SocketFieldLeft DEF SocketNames
<1>5. NoSocket.loaded = None /\ NoSocket.live = {}
  BY DEF NoSocket
<1>6. p # None
  BY NoneAssumption
<1>7. /\ collection = "messages" /\ socket' = [socket EXCEPT ![c] = s]
      /\ UNCHANGED <<collection, stored, owner, edits, drawn, task, walk>>
  BY DEF HandleConnection
<1> HIDE DEF s
<1> QED
  BY <1>2, <1>3, <1>4, <1>5, <1>6, <1>7, SocketStep

LEMMA HandleDisconnectKeeps ==
  ASSUME IInv, NEW c \in Clients, HandleDisconnect(c)
  PROVE  IInv'
<1>1. NoSocket \in Socket /\ NoSocket.process = None /\ NoSocket.loaded = None /\ NoSocket.live = {}
  BY DEF Socket, NoSocket
<1>2. /\ socket' = [socket EXCEPT ![c] = NoSocket]
      /\ UNCHANGED <<collection, stored, owner, edits, drawn, task, walk>>
  BY DEF HandleDisconnect
<1> QED
  BY <1>1, <1>2, SocketStep

LEMMA RequestAllMessagesKeeps ==
  ASSUME IInv, NEW c \in Clients, RequestAllMessages(c)
  PROVE  IInv'
<1> DEFINE s == [socket[c] EXCEPT !.loading = TRUE]
<1>1. Rest
  BY InvariantParts
<1>2. socket[c] \in Socket
  BY <1>1 DEF Rest
<1>3. s \in Socket
  BY <1>2, SocketWritten
<1>4. s.process = socket[c].process /\ s.loaded = socket[c].loaded /\ s.live = socket[c].live
  BY <1>2, SocketFieldLeft DEF SocketNames
<1>5. /\ socket[c].process # None /\ socket' = [socket EXCEPT ![c] = s]
      /\ UNCHANGED <<collection, stored, owner, edits, drawn, task, walk>>
  BY DEF RequestAllMessages
<1>6. collection = "messages"
  BY <1>1, <1>5 DEF Rest, SocketsAreServed
<1>7. socket[c].loaded # None => \A x \in Documents :
        \/ At[stored[x]] # socket[c].process \/ stored[x] \in Faulty
        \/ x \in socket[c].loaded \/ x \in socket[c].live
        \/ \E h \in Handlers : task[h] = [step |-> "emit", id |-> x]
        \/ (Cardinality(socket[c].loaded) >= DefaultLimit /\ \A y \in socket[c].loaded : x < y)
  BY <1>1 DEF Rest, NoGap
<1> HIDE DEF s
<1> QED
  BY <1>3, <1>4, <1>5, <1>6, <1>7, SocketStep

LEMMA SendAllMessagesKeeps ==
  ASSUME IInv, NEW c \in Clients, SendAllMessages(c)
  PROVE  IInv'
<1> DEFINE history == Page(Documents, 0, Limit(Absent))
           v == [socket[c] EXCEPT !.loading = FALSE]
           s == [v EXCEPT !.loaded = history]
<1>1. Rest
  BY InvariantParts
<1>2. socket[c] \in Socket
  BY <1>1 DEF Rest
<1>3. /\ socket[c].loading /\ socket' = [socket EXCEPT ![c] = s]
      /\ UNCHANGED <<collection, stored, owner, edits, drawn, task, walk>>
  BY DEF SendAllMessages
<1>4. history \in SUBSET Documents /\ history \in SUBSET Ids
  BY DocumentsAreFinite DEF Page
<1>5. v \in Socket
  BY <1>2, SocketWritten
<1>6. v.process = socket[c].process /\ v.live = socket[c].live
  BY <1>2, SocketFieldLeft DEF SocketNames
<1> HIDE DEF v, history
<1>7. s \in Socket
  BY <1>4, <1>5, SocketWritten
<1>8. s.process = socket[c].process /\ s.live = socket[c].live /\ s.loaded = history
  BY <1>5, <1>6, SocketFieldLeft DEF SocketNames
<1>9. socket[c].process # None
  BY <1>1, <1>3 DEF Rest, SocketsAreServed, NoSocket
<1>10. collection = "messages"
  BY <1>1, <1>9 DEF Rest, SocketsAreServed
<1>11. ASSUME NEW x \in Documents, x \notin history
       PROVE  Cardinality(history) >= DefaultLimit /\ \A y \in history : x < y
  <2>1. history = Page(Documents, 0, DefaultLimit) /\ DefaultLimit \in Nat
    BY DefaultLimitAssumption DEF history, Limit
  <2>2. Documents \in SUBSET Nat /\ IsFiniteSet(Documents)
    BY DocumentsAreFinite
  <2>3. Cardinality(history) \in Nat
    BY <1>4, <2>2, FS_Subset, FS_CardinalityType
  <2>4. ~(Cardinality(history) < DefaultLimit)
    BY <1>11, <2>1, <2>2, ShortPageIsAll
  <2>5. ASSUME NEW y \in history PROVE x < y
    <3>1. x \in Nat /\ y \in Nat /\ x # y
      BY <1>4, <1>11, <2>2
    <3>2. ~(y < x)
      BY <1>11, <2>1, <2>2, FirstPageIsUpper
    <3> QED
      BY <3>1, <3>2
  <2> QED
    BY <2>1, <2>3, <2>4, <2>5
<1> HIDE DEF s
<1> QED
  BY <1>3, <1>7, <1>8, <1>9, <1>10, <1>11, SocketStep

LEMMA BeginKeeps ==
  ASSUME IInv, NEW c \in Clients, NEW by \in {"cursor", "offset"},
         NEW query \in Queries \union {NoQuery},
         NEW own \in {Own(o) : o \in Owners} \union {NoOwn}, NEW sort \in Sorts,
         NEW limit \in Limits,
         by = "cursor" => /\ collection = "messages" /\ query = NoQuery /\ own = NoOwn
                          /\ sort = "desc",
         Begin(c, by, query, own, sort, limit)
  PROVE  IInv'
<1> DEFINE start == {id \in Documents : Matches(Doc(id), MongoFilter(query, own))}
           w == Fresh("count", by, query, own, sort, Limit(limit), start)
<1>1. start \in SUBSET Documents
  OBVIOUS
<1>2. /\ walk' = [walk EXCEPT ![c] = w]
      /\ UNCHANGED <<collection, stored, owner, edits, drawn, task, socket>>
  BY DEF Begin
<1> HIDE DEF start
<1>3. Good(w)
  BY <1>1, FreshIsGood
<1> HIDE DEF w
<1> QED
  BY <1>2, <1>3, WalkStep

LEMMA GetPaginationKeeps ==
  ASSUME IInv, NEW c \in Clients, GetPagination(c)
  PROVE  IInv'
<1> DEFINE w == walk[c]
           n == Cardinality(IF collection = "messages" THEN Documents ELSE Found(w))
           x == [w EXCEPT !.step = "find",
                          !.announced = IF @ = None THEN TotalPages(n, w.limit) ELSE @]
<1>1. Good(w) /\ w.step = "count"
  BY InvariantParts DEF GetPagination
<1>2. n \in Nat
  BY DocumentsAreFinite, FS_CardinalityType
<1>3. walk' = [walk EXCEPT ![c] = x] /\ UNCHANGED <<collection, stored, owner, edits, drawn, task, socket>>
  BY DEF GetPagination
<1> HIDE DEF n, w
<1>4. Good(x)
  BY <1>1, <1>2, CountedIsGood
<1> HIDE DEF x
<1> QED
  BY <1>3, <1>4, WalkStep

LEMMA FindForQueryKeeps ==
  ASSUME IInv, NEW c \in Clients, FindForQuery(c)
  PROVE  IInv'
<1> DEFINE w == walk[c]
           read(hits) ==
             [w EXCEPT !.step = "read", !.page = hits, !.seen = @ \union hits,
                       !.again = @ + Cardinality(hits \intersect w.seen), !.pages = @ + 1]
<1>1. Good(w) /\ w.step = "find"
  BY InvariantParts DEF FindForQuery
<1>2. /\ \E hits \in Pages(Found(w), w.offset, w.limit, w.sort) :
            walk' = [walk EXCEPT ![c] = read(hits)]
      /\ UNCHANGED <<collection, stored, owner, edits, drawn, task, socket>>
  BY DEF FindForQuery
<1> HIDE DEF w
<1>3. PICK hits \in Pages(Found(w), w.offset, w.limit, w.sort) :
            walk' = [walk EXCEPT ![c] = read(hits)]
  BY <1>2
<1>4. Good(read(hits))
  BY <1>1, ReadIsGood
<1> HIDE DEF read
<1> QED
  BY <1>2, <1>3, <1>4, WalkStep

LEMMA NextPageKeeps ==
  ASSUME IInv, NEW c \in Clients, NextPage(c)
  PROVE  IInv'
<1> DEFINE w == walk[c]
           x == IF w.by = "cursor" THEN [w EXCEPT !.step = "count", !.cursor = Least(w.page)]
                ELSE [w EXCEPT !.step = "count", !.offset = @ + w.limit]
<1>1. Good(w) /\ w.step = "read" /\ w.page # {}
  BY InvariantParts DEF NextPage
<1>2. walk' = [walk EXCEPT ![c] = x] /\ UNCHANGED <<collection, stored, owner, edits, drawn, task, socket>>
  BY DEF NextPage
<1> HIDE DEF w
<1>3. Good(x)
  <2>1. CASE w.by = "cursor"
    <3>1. Good([w EXCEPT !.step = "count", !.cursor = Least(w.page)])
      BY <1>1, <2>1, NextByCursorIsGood
    <3> QED
      BY <2>1, <3>1
  <2>2. CASE w.by # "cursor"
    <3>1. Good([w EXCEPT !.step = "count", !.offset = @ + w.limit])
      BY <1>1, <2>2, NextByOffsetIsGood
    <3> QED
      BY <2>2, <3>1
  <2> QED
    BY <2>1, <2>2
<1> HIDE DEF x
<1> QED
  BY <1>2, <1>3, WalkStep

LEMMA StopKeeps ==
  ASSUME IInv, NEW c \in Clients, Stop(c)
  PROVE  IInv'
<1>1. /\ walk' = [walk EXCEPT ![c] = NoWalk]
      /\ UNCHANGED <<collection, stored, owner, edits, drawn, task, socket>>
  BY DEF Stop
<1> QED
  BY <1>1, NoWalkIsGood, WalkStep

LEMMA StutterKeeps ==
  ASSUME IInv, UNCHANGED vars
  PROVE  IInv'
<1>1. UNCHANGED <<collection, stored, owner, walk>> /\ Rest
  BY InvariantParts DEF vars
<1>2. Rest'
  BY <1>1 DEF vars, Rest, IdsAreDrawn, SocketsAreServed, NoGap, Documents
<1> QED
  BY <1>1, <1>2, OtherStep

LEMMA InitIInv ==
  Init => IInv
<1>1. SUFFICES ASSUME Init PROVE IInv
  OBVIOUS
<1>2. Documents = {}
  BY <1>1 DEF Init, Documents
<1>3. Idle \in Task /\ Idle.step = "idle" /\ Idle.id = None
  BY DEF Task, Idle
<1>4. NoSocket \in Socket /\ NoSocket.process = None /\ NoSocket.loaded = None /\ NoSocket.live = {}
  BY DEF Socket, NoSocket
<1>5. IdsAreDrawn
  BY <1>1, <1>2, <1>3 DEF Init, IdsAreDrawn
<1>6. SocketsAreServed /\ NoGap
  BY <1>1, <1>4 DEF Init, SocketsAreServed, NoGap
<1>7. Rest
  BY <1>1, <1>3, <1>4, <1>5, <1>6, OfAssumption DEF Init, Rest
<1>8. \A c \in Clients : walk[c] = NoWalk
  BY <1>1 DEF Init
<1>9. walk \in [Clients -> Walk]
  BY <1>1, NoWalkIsGood DEF Init, Good
<1> QED
  BY <1>7, <1>8, <1>9, NoWalkIsGood, InvariantParts

LEMMA StepIInv ==
  IInv /\ [Next]_vars => IInv'
<1> SUFFICES ASSUME IInv, [Next]_vars PROVE IInv'
  OBVIOUS
<1>1. ASSUME NEW h \in Handlers, NEW id \in Ids,
             \/ SaveMessage(h, id) \/ CreatePost(h, id) \/ CreateComment(h, id)
             \/ CreateCategory(h, id) \/ CreateRequest(h, id)
      PROVE  IInv'
  BY <1>1, NewKeeps DEF SaveMessage, CreatePost, CreateComment, CreateCategory, CreateRequest
<1>2. ASSUME NEW h \in Handlers, Proceed(h) \/ Fail(h) PROVE IInv'
  BY <1>2, SaveKeeps, EmitKeeps, FailKeeps DEF Proceed
<1>3. ASSUME NEW id \in Ids, Delete(id) \/ \E o \in Owners : Edit(id, o) PROVE IInv'
  BY <1>3, DeleteKeeps, EditKeeps
<1>4. ASSUME NEW c \in Clients, NEW limit \in Limits, NEW by \in {"cursor", "offset"},
             GetAllMessages(c, by, limit)
      PROVE  IInv'
  BY <1>4, BeginKeeps DEF GetAllMessages, Sorts
<1>5. ASSUME NEW c \in Clients, NEW limit \in Limits, NEW query \in Queries,
             NEW sort \in Sorts,
             \/ GetAllPosts(c, query, sort, limit) \/ GetAllCategories(c, query, sort, limit)
             \/ GetAllApprove(c, query, sort, limit)
      PROVE  IInv'
  BY <1>5, BeginKeeps DEF GetAllPosts, GetAllCategories, GetAllApprove
<1>6. ASSUME NEW c \in Clients, NEW limit \in Limits, NEW query \in Queries,
             NEW sort \in Sorts, NEW o \in Owners,
             \/ GetAllPostsByUser(c, query, sort, limit, o)
             \/ GetAllComments(c, query, sort, limit, o)
      PROVE  IInv'
  BY <1>6, BeginKeeps DEF GetAllPostsByUser, GetAllComments, FindAllByPostId
<1>7. ASSUME NEW c \in Clients,
             GetPagination(c) \/ FindForQuery(c) \/ NextPage(c) \/ Stop(c)
      PROVE  IInv'
  BY <1>7, GetPaginationKeeps, FindForQueryKeeps, NextPageKeeps, StopKeeps
<1>8. ASSUME NEW c \in Clients,
             \/ \E p \in Processes : HandleConnection(c, p)
             \/ HandleDisconnect(c) \/ RequestAllMessages(c) \/ SendAllMessages(c)
      PROVE  IInv'
  BY <1>8, HandleConnectionKeeps, HandleDisconnectKeeps, RequestAllMessagesKeeps,
     SendAllMessagesKeeps
<1>9. CASE UNCHANGED vars
  BY <1>9, StutterKeeps
<1> QED
  BY <1>1, <1>2, <1>3, <1>4, <1>5, <1>6, <1>7, <1>8, <1>9 DEF Next

(* Whatever the ids, the handlers, the processes, the clients and their    *)
(* queries: the ids, the walks and the sockets stay as IInv says.          *)
THEOREM Invariance ==
  Spec => []IInv
BY InitIInv, StepIInv, PTL DEF Spec

(* A client that goes on by id_lt reads every message once, however many   *)
(* messages come in between, and with ids in whatever order: the condition *)
(* on _id, the descending sort and the limit of findForQuery make it so.   *)
THEOREM CursorWalks ==
  Spec => []CursorWalkIsExact
<1>1. IInv => CursorWalkIsExact
  <2> SUFFICES ASSUME IInv, NEW c \in Clients, Walking(c), walk[c].by = "cursor"
      PROVE  /\ walk[c].again = 0
             /\ Missed(walk[c]) = {}
             /\ AtEnd(walk[c]) => walk[c].start \subseteq walk[c].seen
    BY DEF CursorWalkIsExact
  <2>1. Tight(walk[c]) /\ walk[c].step # "idle"
    BY InvariantParts DEF Good, Walking
  <2>2. Missed(walk[c]) = {}
    BY <2>1 DEF Missed, Tight
  <2> QED
    BY <2>1, <2>2 DEF Tight, AtEnd
<1> QED
  BY <1>1, Invariance, PTL

\* A walk comes to have read a page by the step that reads one only.
LEMMA OnlyFindReads ==
  ASSUME IInv, Next, NEW c \in Clients, walk[c].step = "find", walk'[c].step = "read"
  PROVE  FindForQuery(c)
<1>1. walk \in [Clients -> Walk]
  BY InvariantParts
<1>2. ASSUME NEW w, w.step \in {"idle", "count", "find"}, NEW d \in Clients,
             walk' = [walk EXCEPT ![d] = w]
      PROVE  FALSE
  BY <1>1, <1>2
<1>3. walk' # walk
  OBVIOUS
<1>4. ASSUME NEW id \in Ids, NEW docs, walk' = Noted(id, docs) PROVE FALSE
  <2>1. PICK x : x = Noted(id, docs)[c]
    OBVIOUS
  <2>2. walk[c] \in Walk /\ walk[c].step # "idle"
    BY <1>1
  <2>3. AsNoted(walk[c], x, id, docs)
    BY <2>1, <2>2, NotedWalk
  <2>4. x["step"] = walk[c]["step"]
    BY <2>3 DEF AsNoted, WalkNames
  <2> QED
    BY <1>4, <2>1, <2>4
<1>5. ASSUME NEW d \in Clients, NEW by, NEW query, NEW own, NEW sort, NEW limit,
             Begin(d, by, query, own, sort, limit)
      PROVE  FALSE
  <2> DEFINE start == {id \in Documents : Matches(Doc(id), MongoFilter(query, own))}
             w == Fresh("count", by, query, own, sort, Limit(limit), start)
  <2>1. walk' = [walk EXCEPT ![d] = w]
    BY <1>5 DEF Begin
  <2>2. w.step = "count"
    BY DEF Fresh
  <2> HIDE DEF w
  <2> QED
    BY <1>2, <2>1, <2>2
<1>6. \A d \in Clients, limit \in Limits : \A by \in {"cursor", "offset"} :
        ~GetAllMessages(d, by, limit)
  BY <1>5 DEF GetAllMessages
<1>7. \A d \in Clients, limit \in Limits : \A query \in Queries, sort \in Sorts :
        /\ ~GetAllPosts(d, query, sort, limit)
        /\ ~GetAllCategories(d, query, sort, limit)
        /\ ~GetAllApprove(d, query, sort, limit)
        /\ \A o \in Owners : /\ ~GetAllPostsByUser(d, query, sort, limit, o)
                             /\ ~GetAllComments(d, query, sort, limit, o)
  BY <1>5 DEF GetAllPosts, GetAllCategories, GetAllApprove, GetAllPostsByUser, GetAllComments,
              FindAllByPostId
<1>8. \A h \in Handlers, id \in Ids :
        /\ ~SaveMessage(h, id) /\ ~CreatePost(h, id) /\ ~CreateComment(h, id)
        /\ ~CreateCategory(h, id) /\ ~CreateRequest(h, id)
  BY <1>3 DEF SaveMessage, CreatePost, CreateComment, CreateCategory, CreateRequest, New
<1>9. \A h \in Handlers : ~Proceed(h) /\ ~Fail(h)
  <2>1. \A h \in Handlers : ~Save(h)
    <3> SUFFICES ASSUME NEW h \in Handlers, Save(h) PROVE FALSE
      OBVIOUS
    <3>1. task[h].id \in Ids
      BY InvariantParts DEF Save, Rest, IdsAreDrawn
    <3> QED
      BY <1>4, <3>1 DEF Save
  <2> QED
    BY <1>3, <2>1 DEF Proceed, Emit, Fail
<1>10. \A id \in Ids : ~Delete(id) /\ \A o \in Owners : ~Edit(id, o)
  BY <1>4 DEF Delete, Edit
<1>11. ASSUME NEW d \in Clients, GetPagination(d) PROVE FALSE
  <2> DEFINE w == walk[d]
             n == Cardinality(IF collection = "messages" THEN Documents ELSE Found(w))
             x == [w EXCEPT !.step = "find",
                            !.announced = IF @ = None THEN TotalPages(n, w.limit) ELSE @]
  <2>1. walk' = [walk EXCEPT ![d] = x]
    BY <1>11 DEF GetPagination
  <2>2. Good(w) /\ w.step = "count" /\ n \in Nat
    BY <1>11, InvariantParts, DocumentsAreFinite, FS_CardinalityType DEF GetPagination
  <2> HIDE DEF w, n
  <2>3. x.step = "find"
    BY <2>2 DEF Good, Walk
  <2> HIDE DEF x
  <2> QED
    BY <1>2, <2>1, <2>3
<1>12. ASSUME NEW d \in Clients, NextPage(d) PROVE FALSE
  <2> DEFINE w == walk[d]
             x == IF w.by = "cursor" THEN [w EXCEPT !.step = "count", !.cursor = Least(w.page)]
                  ELSE [w EXCEPT !.step = "count", !.offset = @ + w.limit]
  <2>1. walk' = [walk EXCEPT ![d] = x]
    BY <1>12 DEF NextPage
  <2>2. w \in Walk
    BY <1>1
  <2> HIDE DEF w
  <2>3. x.step = "count"
    BY <2>2 DEF Walk
  <2> HIDE DEF x
  <2> QED
    BY <1>2, <2>1, <2>3
<1>13. \A d \in Clients : ~Stop(d)
  <2>1. NoWalk.step = "idle"
    BY DEF NoWalk, Fresh
  <2> QED
    BY <1>2, <2>1 DEF Stop
<1>14. \A d \in Clients : /\ ~HandleDisconnect(d) /\ ~RequestAllMessages(d) /\ ~SendAllMessages(d)
                          /\ \A p \in Processes : ~HandleConnection(d, p)
  BY <1>3 DEF HandleDisconnect, RequestAllMessages, SendAllMessages, HandleConnection
<1>15. PICK d \in Clients : FindForQuery(d)
  BY <1>6, <1>7, <1>8, <1>9, <1>10, <1>11, <1>12, <1>13, <1>14 DEF Next
<1>16. d = c
  <2>1. PICK x : walk' = [walk EXCEPT ![d] = x]
    BY <1>15 DEF FindForQuery
  <2> QED
    BY <1>1, <2>1
<1> QED
  BY <1>15, <1>16

(* Whatever a client asks, a page holds documents of the service's own     *)
(* filter only, and those meet, when they are read, what the client asked  *)
(* for: in any order, and while others edit what is read.                  *)
THEOREM PagesAreAskedFor ==
  Spec => HitsAreAskedFor
<1> DEFINE Right == \A c \in Clients : walk[c].step = "find" /\ walk'[c].step = "read" =>
                      \A id \in walk'[c].page : IsAskedFor(id, walk[c].query, walk[c].own)
<1>1. ASSUME IInv, Next PROVE Right
  <2> SUFFICES ASSUME NEW c \in Clients, walk[c].step = "find", walk'[c].step = "read",
                      NEW id \in walk'[c].page
               PROVE  IsAskedFor(id, walk[c].query, walk[c].own)
    OBVIOUS
  <2> DEFINE w == walk[c]
             read(hits) ==
               [w EXCEPT !.step = "read", !.page = hits, !.seen = @ \union hits,
                         !.again = @ + Cardinality(hits \intersect w.seen), !.pages = @ + 1]
  <2>1. FindForQuery(c)
    BY <1>1, OnlyFindReads
  <2>2. \E hits \in Pages(Found(w), w.offset, w.limit, w.sort) :
          walk' = [walk EXCEPT ![c] = read(hits)]
    BY <2>1 DEF FindForQuery
  <2>3. PICK hits \in Pages(Found(w), w.offset, w.limit, w.sort) :
          walk' = [walk EXCEPT ![c] = read(hits)]
    BY <2>2
  <2>4. walk \in [Clients -> Walk] /\ Good(w) /\ w.step = "find"
    BY <1>1, InvariantParts
  <2>5. id \in read(hits).page
    BY <2>3, <2>4
  <2> HIDE DEF w
  <2>6. read(hits).page = hits
    BY <2>4 DEF Good, Walk
  <2>7. id \in Found(w)
    BY <2>5, <2>6 DEF Pages
  <2>8. IsAskedFor(id, w.query, w.own)
    BY <2>4, <2>7, HitsOfAPage DEF Good
  <2> QED
    BY <2>8 DEF w
<1>2. IInv /\ [Next]_vars => [Right]_vars
  BY <1>1
<1> HIDE DEF Right
<1>3. Spec => [][Right]_vars
  BY <1>2, Invariance, PTL DEF Spec
<1> QED
  BY <1>3 DEF HitsAreAskedFor, Right

(* No message falls between the history a socket is sent and the messages  *)
(* that reach it as they come, with any number of handlers and sockets.    *)
THEOREM HistoriesMeetTheLive ==
  Spec => []NoGap
<1>1. IInv => NoGap
  BY DEF IInv
<1> QED
  BY <1>1, Invariance, PTL

-----------------------------------------------------------------------------
(* The pages, counted.                                                     *)

LEMMA TimesGrows ==
  ASSUME NEW a \in Nat, NEW b \in Nat, NEW k \in Nat, a <= b
  PROVE  a * k <= b * k /\ a * k \in Nat /\ b * k \in Nat
<1>1. \E d \in Nat : b = a + d
  <2>1. b - a \in Nat /\ b = a + (b - a)
    OBVIOUS
  <2> QED
    BY <2>1
<1>2. PICK d \in Nat : b = a + d
  BY <1>1
<1>3. b * k = a * k + d * k
  BY <1>2
<1>4. d * k \in Nat /\ a * k \in Nat /\ b * k \in Nat
  OBVIOUS
<1> QED
  BY <1>3, <1>4

LEMMA NextTimes ==
  ASSUME NEW a \in Nat, NEW k \in Nat
  PROVE  (a + 1) * k = a * k + k /\ a * k \in Nat /\ 0 * k = 0
OBVIOUS

\* The pages that are announced hold all that was counted.
LEMMA PagesHoldAll ==
  ASSUME NEW n \in Nat, NEW k \in Nat \ {0}
  PROVE  TotalPages(n, k) \in Nat /\ n <= TotalPages(n, k) * k
<1> DEFINE a == n + k - 1
           q == a \div k
<1>1. a \in Nat /\ k \in Nat /\ k > 0
  OBVIOUS
<1> HIDE DEF a
<1>2. q \in Nat /\ a < (q + 1) * k
  BY <1>1
<1> HIDE DEF q
<1>3. (q + 1) * k = q * k + k
  BY <1>1, <1>2, NextTimes
<1>4. q * k \in Nat
  BY <1>1, <1>2, NextTimes
<1>5. n <= q * k
  BY <1>1, <1>2, <1>3, <1>4 DEF a
<1> QED
  BY <1>2, <1>5 DEF TotalPages, q, a

\* Finite sets, counted.
LEMMA CountParts ==
  ASSUME NEW B, IsFiniteSet(B)
  PROVE  /\ Cardinality(B) \in Nat
         /\ \A A \in SUBSET B : /\ IsFiniteSet(A) /\ Cardinality(A) \in Nat
                                /\ Cardinality(A) <= Cardinality(B)
         /\ \A z : /\ IsFiniteSet(B \union {z})
                   /\ Cardinality(B \union {z}) <= Cardinality(B) + 1
                   /\ z \notin B => Cardinality(B \union {z}) = Cardinality(B) + 1
BY FS_CardinalityType, FS_Subset, FS_AddElement

LEMMA CountOneMore ==
  ASSUME NEW B, IsFiniteSet(B), NEW A, NEW z, A \subseteq B \union {z}
  PROVE  IsFiniteSet(A) /\ Cardinality(A) \in Nat /\ Cardinality(A) <= Cardinality(B) + 1
<1>1. IsFiniteSet(B \union {z}) /\ Cardinality(B \union {z}) <= Cardinality(B) + 1
  BY CountParts
<1>2. A \in SUBSET (B \union {z})
  OBVIOUS
<1>3. /\ IsFiniteSet(A) /\ Cardinality(A) \in Nat
      /\ Cardinality(A) <= Cardinality(B \union {z}) /\ Cardinality(B \union {z}) \in Nat
  BY <1>1, <1>2, CountParts
<1>4. Cardinality(B) \in Nat
  BY CountParts
<1> QED
  BY <1>1, <1>3, <1>4

\* What a first page holds: all that has fewer before it.
LEMMA FirstPage ==
  ASSUME NEW S \in SUBSET Nat, IsFiniteSet(S), NEW k \in Nat
  PROVE  /\ \A x : IsFiniteSet(Before(S, x)) /\ Cardinality(Before(S, x)) \in Nat
         /\ Page(S, 0, k) = {x \in S : Cardinality(Before(S, x)) < k}
<1>1. \A x : IsFiniteSet(Before(S, x)) /\ Cardinality(Before(S, x)) \in Nat
  <2>1. \A x : Before(S, x) \in SUBSET S
    BY DEF Before
  <2> QED
    BY <2>1, CountParts
<1> QED
  BY <1>1 DEF Page

\* A page is what a longer first page adds to a shorter one.
LEMMA PagesJoin ==
  ASSUME NEW S \in SUBSET Nat, IsFiniteSet(S), NEW n \in Nat, NEW k \in Nat
  PROVE  /\ Page(S, n, k) = Page(S, 0, n + k) \ Page(S, 0, n)
         /\ Page(S, 0, n) \subseteq Page(S, 0, n + k)
<1>1. /\ \A x : Cardinality(Before(S, x)) \in Nat
      /\ Page(S, 0, n) = {x \in S : Cardinality(Before(S, x)) < n}
      /\ Page(S, 0, n + k) = {x \in S : Cardinality(Before(S, x)) < n + k}
  BY FirstPage
<1> QED
  BY <1>1 DEF Page

\* What a first page leaves is what there is above its size.
LEMMA PageLeaves ==
  ASSUME NEW S \in SUBSET Nat, IsFiniteSet(S), NEW k \in Nat, NEW m \in Nat,
         Cardinality(S) <= k + m
  PROVE  /\ IsFiniteSet(S \ Page(S, 0, k))
         /\ Cardinality(S \ Page(S, 0, k)) \in Nat
         /\ Cardinality(S \ Page(S, 0, k)) <= m
<1> DEFINE P == Page(S, 0, k)
<1>1. P \in SUBSET S
  BY DEF Page
<1>2. S \ P \in SUBSET S
  OBVIOUS
<1>3. /\ IsFiniteSet(S \ P) /\ Cardinality(S \ P) \in Nat
      /\ IsFiniteSet(P) /\ Cardinality(P) \in Nat /\ Cardinality(S) \in Nat
  BY <1>1, <1>2, CountParts
<1>4. Cardinality(S \ P) = Cardinality(S) - Cardinality(P)
  <2>1. S \cap P = P
    BY <1>1
  <2> QED
    BY <2>1, FS_Difference
<1>5. CASE Cardinality(P) < k
  <2>1. P = S
    BY <1>5, ShortPageIsAll
  <2>2. Cardinality(S \ P) = 0
    BY <2>1, <1>3, <1>4
  <2> QED
    BY <1>3, <2>2
<1>6. CASE Cardinality(P) >= k
  BY <1>3, <1>4, <1>6
<1> QED
  BY <1>3, <1>5, <1>6

\* With one document more, a first page gives up at most one for it.
LEMMA PageWithOneMore ==
  ASSUME NEW S \in SUBSET Nat, IsFiniteSet(S), NEW k \in Nat, NEW x \in Nat, x \notin S
  PROVE  /\ Page(S \union {x}, 0, k) \subseteq Page(S, 0, k) \union {x}
         /\ \E z : Page(S, 0, k) \subseteq Page(S \union {x}, 0, k) \union {z}
         /\ x \notin Page(S \union {x}, 0, k) => Page(S, 0, k) \subseteq Page(S \union {x}, 0, k)
<1> DEFINE R == S \union {x}
           P == Page(S, 0, k)
           Q == Page(R, 0, k)
<1>1. R \in SUBSET Nat /\ IsFiniteSet(R)
  BY CountParts
<1>2. /\ \A y : IsFiniteSet(Before(S, y)) /\ Cardinality(Before(S, y)) \in Nat
      /\ P = {y \in S : Cardinality(Before(S, y)) < k}
  BY FirstPage
<1>3. /\ \A y : IsFiniteSet(Before(R, y)) /\ Cardinality(Before(R, y)) \in Nat
      /\ Q = {y \in R : Cardinality(Before(R, y)) < k}
  BY <1>1, FirstPage
<1>4. ASSUME NEW y \in S
      PROVE  /\ Cardinality(Before(S, y)) <= Cardinality(Before(R, y))
             /\ Cardinality(Before(R, y)) <= Cardinality(Before(S, y)) + 1
  <2>1. Before(S, y) \in SUBSET Before(R, y) /\ Before(R, y) \subseteq Before(S, y) \union {x}
    BY DEF Before
  <2>2. Cardinality(Before(S, y)) <= Cardinality(Before(R, y))
    BY <1>3, <2>1, CountParts
  <2>3. Cardinality(Before(R, y)) <= Cardinality(Before(S, y)) + 1
    BY <1>2, <2>1, CountOneMore
  <2> QED
    BY <2>2, <2>3
<1>5. Q \subseteq P \union {x}
  <2>1. ASSUME NEW y \in Q, y # x PROVE y \in P
    <3>1. y \in S /\ Cardinality(Before(R, y)) < k
      BY <1>3, <2>1
    <3> QED
      BY <1>2, <1>3, <1>4, <3>1
  <2> QED
    BY <2>1
<1>6. \A y \in P \ Q : y \in S /\ Cardinality(Before(S, y)) = k - 1
  <2>1. SUFFICES ASSUME NEW y \in P \ Q PROVE y \in S /\ Cardinality(Before(S, y)) = k - 1
    OBVIOUS
  <2>2. y \in S /\ Cardinality(Before(S, y)) < k
    BY <1>2, <2>1
  <2>3. ~(Cardinality(Before(R, y)) < k)
    BY <1>3, <2>1, <2>2
  <2>4. Cardinality(Before(S, y)) \in Nat /\ Cardinality(Before(R, y)) \in Nat
    BY <1>2, <1>3
  <2>5. Cardinality(Before(R, y)) <= Cardinality(Before(S, y)) + 1
    BY <1>4, <2>2
  <2> HIDE DEF P, Q, R
  <2>6. \A c, r \in Nat : c < k /\ ~(r < k) /\ r <= c + 1 => c = k - 1
    OBVIOUS
  <2> QED
    BY <2>2, <2>3, <2>4, <2>5, <2>6
<1>7. ASSUME NEW y \in P \ Q, NEW z \in P \ Q PROVE y = z
  <2>1. /\ y \in S /\ z \in S /\ y \in Nat /\ z \in Nat
        /\ Cardinality(Before(S, y)) = Cardinality(Before(S, z))
    BY <1>6
  <2>2. ~(y < z)
    BY <2>1, BeforeGrows
  <2>3. ~(z < y)
    BY <2>1, BeforeGrows
  <2> QED
    BY <2>1, <2>2, <2>3
<1>8. \E z : P \subseteq Q \union {z}
  <2>1. CASE P \ Q = {}
    BY <2>1
  <2>2. CASE P \ Q # {}
    <3>1. PICK z : z \in P \ Q
      BY <2>2
    <3>2. P \subseteq Q \union {z}
      BY <1>7, <3>1
    <3> QED
      BY <3>2
  <2> QED
    BY <2>1, <2>2
<1>9. ASSUME x \notin Q, NEW y \in P PROVE y \in Q
  <2>1. /\ y \in S /\ y \in Nat /\ y # x /\ y \in R /\ x \in R
        /\ Cardinality(Before(S, y)) < k /\ ~(Cardinality(Before(R, x)) < k)
    BY <1>2, <1>3, <1>9
  <2>2. CASE x < y
    <3>1. Before(R, y) = Before(S, y)
      BY <2>1, <2>2 DEF Before
    <3> QED
      BY <1>3, <2>1, <3>1
  <2>3. CASE y < x
    <3>1. Cardinality(Before(R, x)) < Cardinality(Before(R, y))
      BY <1>1, <2>1, <2>3, BeforeGrows
    <3>2. Cardinality(Before(R, y)) <= Cardinality(Before(S, y)) + 1
      BY <1>4, <2>1
    <3>3. /\ Cardinality(Before(R, x)) \in Nat /\ Cardinality(Before(R, y)) \in Nat
          /\ Cardinality(Before(S, y)) \in Nat
      BY <1>2, <1>3
    <3> HIDE DEF P, Q, R
    <3>4. \A a, b, c \in Nat : a < b /\ b <= c + 1 /\ c < k => a < k
      OBVIOUS
    <3> QED
      BY <2>1, <3>1, <3>2, <3>3, <3>4
  <2> QED
    BY <2>1, <2>2, <2>3
<1> QED
  BY <1>5, <1>8, <1>9

\* Different members have different numbers of members before them.
LEMMA PlacesDiffer ==
  ASSUME NEW S \in SUBSET Nat, IsFiniteSet(S), NEW x \in S, NEW y \in S,
         Cardinality(Before(S, x)) = Cardinality(Before(S, y))
  PROVE  x = y
<1>1. x \in Nat /\ y \in Nat
  OBVIOUS
<1>2. ~(x < y)
  BY BeforeGrows
<1>3. ~(y < x)
  BY BeforeGrows
<1> QED
  BY <1>1, <1>2, <1>3

\* A page holds no more than its limit.
LEMMA PageIsLimited ==
  ASSUME NEW S \in SUBSET Nat, IsFiniteSet(S), NEW n \in Nat, NEW k \in Nat
  PROVE  IsFiniteSet(Page(S, n, k)) /\ Cardinality(Page(S, n, k)) <= k
<1> DEFINE P == Page(S, n, k)
           Place == [x \in P |-> Cardinality(Before(S, x))]
           T == n .. (n + k - 1)
<1>1. P \in SUBSET S
  BY DEF Page
<1>2. IsFiniteSet(P) /\ Cardinality(P) \in Nat
  BY <1>1, CountParts
<1>3. IsFiniteSet(T) /\ Cardinality(T) = k
  <2>1. IsFiniteSet(T) /\ Cardinality(T) = IF n > n + k - 1 THEN 0 ELSE (n + k - 1) - n + 1
    BY FS_Interval
  <2> QED
    BY <2>1
<1>4. Place \in [P -> T]
  <2>1. \A x \in P : /\ Cardinality(Before(S, x)) \in Nat
                     /\ n <= Cardinality(Before(S, x)) /\ Cardinality(Before(S, x)) < n + k
    BY FirstPage DEF Page
  <2>2. \A x \in P : Cardinality(Before(S, x)) \in T
    BY <2>1
  <2> QED
    BY <2>2
<1>5. SUFFICES ASSUME Cardinality(T) < Cardinality(P) PROVE FALSE
  BY <1>2, <1>3
<1>6. \E x, y \in P : x # y /\ Place[x] = Place[y]
  <2> HIDE DEF P, T, Place
  <2> QED
    BY <1>2, <1>3, <1>4, <1>5, FS_PigeonHole
<1>7. PICK x \in P, y \in P : x # y /\ Place[x] = Place[y]
  BY <1>6
<1> QED
  BY <1>1, <1>7, PlacesDiffer

\* Two sets without a common member.
LEMMA CountBoth ==
  ASSUME NEW A, IsFiniteSet(A), NEW B, IsFiniteSet(B), A \intersect B = {}
  PROVE  /\ Cardinality(A) \in Nat /\ Cardinality(B) \in Nat
         /\ Cardinality(A \union B) = Cardinality(A) + Cardinality(B)
<1>1. Cardinality(A \union B) = Cardinality(A) + Cardinality(B) - Cardinality(A \intersect B)
  BY FS_Union
<1>2. Cardinality(A \intersect B) = 0
  BY FS_EmptySet
<1>3. Cardinality(A) \in Nat /\ Cardinality(B) \in Nat
  BY CountParts
<1> QED
  BY <1>1, <1>2, <1>3

\* A page that is not full is the last one.
LEMMA ShortPageIsLast ==
  ASSUME NEW S \in SUBSET Nat, IsFiniteSet(S), NEW n \in Nat, NEW k \in Nat,
         Cardinality(Page(S, n, k)) < k
  PROVE  Cardinality(S) <= n + Cardinality(Page(S, n, k))
<1>1. PICK P : P = Page(S, 0, n)
  OBVIOUS
<1>2. PICK Q : Q = Page(S, 0, n + k)
  OBVIOUS
<1>3. PICK R : R = Page(S, n, k)
  OBVIOUS
<1>4. R = Q \ P /\ P \subseteq Q
  BY <1>1, <1>2, <1>3, PagesJoin
<1>5. P \in SUBSET S /\ Q \in SUBSET S /\ R \in SUBSET S
  BY <1>1, <1>2, <1>3 DEF Page
<1>6. IsFiniteSet(P) /\ IsFiniteSet(R)
  BY <1>5, CountParts
<1>7. P \intersect R = {} /\ P \union R = Q
  BY <1>4
<1>8. /\ Cardinality(P) \in Nat /\ Cardinality(R) \in Nat
      /\ Cardinality(Q) = Cardinality(P) + Cardinality(R)
  BY <1>6, <1>7, CountBoth
<1>9. Cardinality(P) <= n
  BY <1>1, PageIsLimited
<1>10. Cardinality(R) < k
  BY <1>3
<1>11. Cardinality(Q) < n + k
  BY <1>8, <1>9, <1>10
<1>12. Q = S
  BY <1>2, <1>11, ShortPageIsAll
<1> QED
  BY <1>3, <1>8, <1>9, <1>12

-----------------------------------------------------------------------------
(* What the steps of a walk write, field by field.                         *)

Counting(w, n) ==
  [w EXCEPT !.step = "find", !.announced = IF @ = None THEN TotalPages(n, w.limit) ELSE @]

Reading(w, hits) ==
  [w EXCEPT !.step = "read", !.page = hits, !.seen = @ \union hits,
            !.again = @ + Cardinality(hits \intersect w.seen), !.pages = @ + 1]

GoingOn(w) ==
  IF w.by = "cursor" THEN [w EXCEPT !.step = "count", !.cursor = Least(w.page)]
  ELSE [w EXCEPT !.step = "count", !.offset = @ + w.limit]

LEMMA CountWrites ==
  ASSUME NEW w \in Walk, NEW n
  PROVE  /\ \A f \in WalkNames \ {"step", "announced"} : Counting(w, n)[f] = w[f]
         /\ Counting(w, n).step = "find"
         /\ Counting(w, n).announced =
              IF w.announced = None THEN TotalPages(n, w.limit) ELSE w.announced
<1>1. DOMAIN w = WalkNames /\ "step" \in WalkNames /\ "announced" \in WalkNames
  BY DEF Walk, WalkNames
<1> QED
  BY <1>1 DEF Counting

LEMMA ReadWrites ==
  ASSUME NEW w \in Walk, NEW hits, NEW x, x = Reading(w, hits)
  PROVE  /\ x.by = w.by /\ x.query = w.query /\ x.own = w.own /\ x.sort = w.sort
         /\ x.limit = w.limit
         /\ x.cursor = w.cursor /\ x.offset = w.offset /\ x.announced = w.announced
         /\ x.start = w.start /\ x.came = w.came /\ x.went = w.went
         /\ x.step = "read" /\ x.page = hits /\ x.seen = w.seen \union hits
         /\ x.again = w.again + Cardinality(hits \intersect w.seen)
         /\ x.pages = w.pages + 1
<1>1. /\ DOMAIN w = WalkNames
      /\ "step" \in WalkNames /\ "page" \in WalkNames /\ "seen" \in WalkNames
      /\ "again" \in WalkNames /\ "pages" \in WalkNames
  BY DEF Walk, WalkNames
<1>2. \A f \in WalkNames \ {"step", "page", "seen", "again", "pages"} : x[f] = w[f]
  BY <1>1 DEF Reading
<1>3. /\ x.step = "read" /\ x.page = hits /\ x.seen = w.seen \union hits
      /\ x.again = w.again + Cardinality(hits \intersect w.seen)
      /\ x.pages = w.pages + 1
  BY <1>1 DEF Reading
<1> QED
  BY <1>2, <1>3 DEF WalkNames

LEMMA NextWrites ==
  ASSUME NEW w \in Walk
  PROVE  /\ \A f \in WalkNames \ {"step", "cursor", "offset"} : GoingOn(w)[f] = w[f]
         /\ GoingOn(w).step = "count"
         /\ w.by # "cursor" =>
              GoingOn(w).offset = w.offset + w.limit /\ GoingOn(w).cursor = w.cursor
<1>1. /\ DOMAIN w = WalkNames /\ "step" \in WalkNames /\ "cursor" \in WalkNames
      /\ "offset" \in WalkNames
  BY DEF Walk, WalkNames
<1> QED
  BY <1>1 DEF GoingOn

-----------------------------------------------------------------------------
(* A step of a walk keeps its counts.                                      *)

Counted(w) == Remembers(w) /\ Drifts(w) /\ Announces(w)

\* Who asks for nothing in particular means every document.
LEMMA NothingAsked ==
  ASSUME NEW w, w.query = NoQuery, w.own = NoOwn
  PROVE  Meant(w) = Documents
<1>1. PICK r : r = [by |-> "cursor", query |-> NoQuery, own |-> NoOwn, cursor |-> None]
  OBVIOUS
<1>2. r.by = "cursor" /\ r.query = NoQuery /\ r.own = NoOwn /\ r.cursor = None
  BY <1>1
<1>3. Found(r) = Documents
  BY <1>2, FoundByCursor
<1>4. Filter(r) = MongoFilter(w.query, w.own)
  BY <1>2 DEF Filter
<1> QED
  BY <1>3, <1>4 DEF Found, Meant, Wanted

\* The sets that are counted are finite.
LEMMA WalkCountsAreNumbers ==
  ASSUME NEW w, Good(w), w.step # "idle"
  PROVE  /\ \A S \in SUBSET Ids : IsFiniteSet(S) /\ Cardinality(S) \in Nat
         /\ w.start \in SUBSET Ids /\ w.seen \in SUBSET Ids /\ w.came \in Nat
         /\ w.went \in Nat /\ Found(w) \in SUBSET Ids /\ Found(w) \in SUBSET Nat
         /\ Passed(w) \in SUBSET Found(w)
         /\ w.again \in Nat /\ w.pages \in Nat /\ w.offset \in Nat /\ w.limit \in Nat \ {0}
         /\ Behind(w) \in Nat
         /\ w.by \in {"cursor", "offset"}
         /\ Meant(w) \in SUBSET Documents /\ Meant(w) \in SUBSET Ids /\ IsFiniteSet(Meant(w))
         /\ w.by = "offset" => Found(w) = Meant(w)
         /\ w.by = "cursor" => Meant(w) = Documents /\ w.again = 0
<1>1. w \in Walk /\ Asked(w)
  BY DEF Good
<1>2. w.limit \in Nat \ {0} /\ w.by \in {"cursor", "offset"}
  BY <1>1 DEF Asked
<1>3. /\ w.start \in SUBSET Ids /\ w.seen \in SUBSET Ids /\ w.came \in Nat
      /\ w.went \in Nat /\ w.again \in Nat /\ w.pages \in Nat /\ w.offset \in Nat
  BY <1>1, WalkFields
<1>4. Found(w) \in SUBSET Ids /\ Found(w) \in SUBSET Nat
  BY DocumentsAreFinite
<1>5. Passed(w) \in SUBSET Found(w)
  BY DEF Passed, Page
<1>6. Behind(w) \in Nat
  BY <1>2, <1>3 DEF Behind
<1>7. \A S \in SUBSET Ids : IsFiniteSet(S) /\ Cardinality(S) \in Nat
  BY IdsAssumption, CountParts
<1>8. Meant(w) \in SUBSET Documents /\ Meant(w) \in SUBSET Ids /\ IsFiniteSet(Meant(w))
  <2>1. Meant(w) \in SUBSET Documents
    BY DEF Meant
  <2> QED
    BY <2>1, DocumentsAreFinite, CountParts
<1>9. w.by = "offset" => Found(w) = Meant(w)
  BY DEF Found, Meant, Wanted, Filter
<1>10. w.by = "cursor" => Meant(w) = Documents /\ w.again = 0
  BY NothingAsked DEF Good, Asked, Tight
<1> QED
  BY <1>2, <1>3, <1>4, <1>5, <1>6, <1>7, <1>8, <1>9, <1>10

LEMMA FreshIsCounted ==
  ASSUME NEW by, NEW query, NEW own, NEW sort, NEW limit \in Nat,
         NEW start, start = {id \in Documents : Matches(Doc(id), MongoFilter(query, own))}
  PROVE  Counted(Fresh("count", by, query, own, sort, limit, start))
<1> DEFINE w == Fresh("count", by, query, own, sort, limit, start)
<1>1. /\ w.step = "count" /\ w.query = query /\ w.own = own /\ w.limit = limit /\ w.offset = 0
      /\ w.seen = {} /\ w.again = 0 /\ w.pages = 0 /\ w.announced = None /\ w.start = start
      /\ w.came = 0 /\ w.went = 0
  BY DEF Fresh
<1> HIDE DEF w
<1>2. Remembers(w)
  <2>1. Meant(w) = w.start
    BY <1>1 DEF Meant, Wanted
  <2>2. Meant(w) \ w.start = {} /\ Cardinality({}) = 0
    BY <2>1, FS_EmptySet
  <2> QED
    BY <1>1, <2>1, <2>2 DEF Remembers
<1>3. Behind(w) = 0 /\ 0 * limit = 0 /\ Cardinality({}) = 0
  BY <1>1, FS_EmptySet DEF Behind
<1>4. Passed(w) = {}
  <2>1. Found(w) \in SUBSET Nat /\ IsFiniteSet(Found(w))
    BY DocumentsAreFinite
  <2>2. /\ \A x : Cardinality(Before(Found(w), x)) \in Nat
        /\ Page(Found(w), 0, 0) = {x \in Found(w) : Cardinality(Before(Found(w), x)) < 0}
    BY <2>1, FirstPage
  <2>3. Page(Found(w), 0, 0) = {}
    BY <2>2
  <2> QED
    BY <1>3, <2>3 DEF Passed
<1>5. Drifts(w)
  <2>1. (Found(w) \ Passed(w)) \intersect w.seen = {} /\ (Passed(w) \intersect w.start) \ w.seen = {}
    BY <1>1, <1>4
  <2> QED
    BY <1>1, <1>3, <2>1 DEF Drifts
<1>6. Announces(w)
  BY <1>1, <1>3 DEF Announces
<1>7. Counted(w)
  BY <1>2, <1>5, <1>6 DEF Counted
<1> QED
  BY <1>7 DEF w

\* A step that leaves what a walk has behind it keeps its counts.
LEMMA SameCounts ==
  ASSUME NEW w, NEW x, Found(x) = Found(w), Behind(x) = Behind(w),
         w.step # "idle", x.by = w.by, x.sort = w.sort, x.start = w.start, x.came = w.came,
         x.went = w.went, x.seen = w.seen, x.again = w.again, Drifts(w)
  PROVE  Drifts(x)
BY DEF Drifts, Passed

LEMMA SameMeant ==
  ASSUME NEW w, NEW x, w.step # "idle", x.query = w.query, x.own = w.own, x.by = w.by,
         x.start = w.start, x.came = w.came, x.seen = w.seen, Remembers(w)
  PROVE  Meant(x) = Meant(w) /\ Remembers(x)
<1>1. Meant(x) = Meant(w)
  BY DEF Meant, Wanted
<1> QED
  BY <1>1 DEF Remembers

LEMMA CountIsCounted ==
  ASSUME NEW w, Good(w), Counted(w), w.step = "count",
         NEW n, n = Cardinality(IF collection = "messages" THEN Documents ELSE Found(w)),
         NEW x, x = Counting(w, n)
  PROVE  Counted(x)
<1>1. w \in Walk /\ Asked(w) /\ Remembers(w) /\ Drifts(w) /\ Announces(w)
  BY DEF Good, Counted
<1>2. /\ \A f \in WalkNames \ {"step", "announced"} : x[f] = w[f]
      /\ x.step = "find"
      /\ x.announced = IF w.announced = None THEN TotalPages(n, w.limit) ELSE w.announced
  BY <1>1, CountWrites
<1>3. /\ x.by = w.by /\ x.query = w.query /\ x.own = w.own /\ x.sort = w.sort
      /\ x.limit = w.limit /\ x.cursor = w.cursor /\ x.offset = w.offset /\ x.seen = w.seen
      /\ x.again = w.again /\ x.pages = w.pages /\ x.start = w.start /\ x.came = w.came
      /\ x.went = w.went
  BY <1>2 DEF WalkNames
<1>4. Found(x) = Found(w)
  BY <1>3 DEF Found, Filter
<1>5. Behind(x) = Behind(w)
  BY <1>2, <1>3 DEF Behind
<1>6. Remembers(x)
  BY <1>1, <1>3, SameMeant
<1>7. Drifts(x)
  BY <1>1, <1>3, <1>4, <1>5, SameCounts
<1>8. /\ Found(w) \in SUBSET Documents /\ IsFiniteSet(Documents) /\ IsFiniteSet(Found(w))
      /\ Cardinality(Found(w)) \in Nat /\ Cardinality(Documents) \in Nat
  BY DocumentsAreFinite, CountParts
<1>9. n \in Nat /\ Cardinality(Found(w)) <= n
  BY <1>8, CountParts
<1>10. /\ w.limit \in Nat \ {0} /\ w.came \in Nat /\ w.by \in {"cursor", "offset"}
       /\ Meant(w) \in SUBSET Documents
       /\ w.by = "offset" => Found(w) = Meant(w)
  BY WalkCountsAreNumbers
<1>11. Cardinality(w.start) \in Nat /\ Cardinality(w.start) <= n
  <2>1. w.start \subseteq Meant(w)
    BY <1>1 DEF Remembers
  <2>2. CASE collection = "messages"
    <3>1. w.start \in SUBSET Documents
      BY <1>10, <2>1
    <3> QED
      BY <1>8, <2>2, <3>1, CountParts
  <2>3. CASE collection # "messages"
    <3>1. w.start \in SUBSET Found(w)
      BY <1>1, <1>10, <2>1, <2>3 DEF Asked
    <3> QED
      BY <1>8, <2>3, <3>1, CountParts
  <2> QED
    BY <2>2, <2>3
<1>12. TotalPages(n, w.limit) \in Nat /\ n <= TotalPages(n, w.limit) * w.limit
  BY <1>9, <1>10, PagesHoldAll
<1>13. TotalPages(n, w.limit) * w.limit \in Nat
  BY <1>10, <1>12, NextTimes
<1> DEFINE t == TotalPages(n, w.limit)
<1> HIDE DEF t
<1>14. Announces(x)
  <2>1. /\ x.announced # None /\ x.announced \in Nat
        /\ Cardinality(w.start) <= x.announced * w.limit
        /\ w.by = "offset" => Cardinality(Found(w)) <= x.announced * w.limit + w.came
    <3>1. CASE w.announced # None
      <4>1. x.announced = w.announced
        BY <1>2, <3>1
      <4> QED
        BY <1>1, <3>1, <4>1 DEF Announces
    <3>2. CASE w.announced = None
      <4>1. x.announced = t /\ t \in Nat /\ n <= t * w.limit /\ t * w.limit \in Nat
        BY <1>2, <1>12, <1>13, <3>2 DEF t
      <4>2. /\ Cardinality(Found(w)) <= t * w.limit + w.came
            /\ Cardinality(w.start) <= t * w.limit
        BY <1>8, <1>9, <1>10, <1>11, <4>1
      <4> QED
        BY <4>1, <4>2, NoneAssumption
    <3> QED
      BY <3>1, <3>2
  <2>2. /\ w.by = "offset" => Behind(w) = w.pages * w.limit
        /\ \/ Cardinality(w.start) <= Cardinality(w.seen) + w.again
           \/ w.pages * w.limit <= Cardinality(w.seen) + w.again
    BY <1>1 DEF Announces
  <2> QED
    BY <1>3, <1>4, <1>5, <2>1, <2>2 DEF Announces
<1> QED
  BY <1>6, <1>7, <1>14 DEF Counted

LEMMA NextIsCounted ==
  ASSUME NEW w, Good(w), Counted(w), w.step = "read",
         NEW x, x = GoingOn(w)
  PROVE  Counted(x)
<1>1. w \in Walk /\ Remembers(w) /\ Drifts(w) /\ Announces(w)
  BY DEF Good, Counted
<1>2. /\ \A f \in WalkNames \ {"step", "cursor", "offset"} : x[f] = w[f]
      /\ x.step = "count"
      /\ w.by # "cursor" => x.offset = w.offset + w.limit /\ x.cursor = w.cursor
  BY <1>1, NextWrites
<1>3. /\ x.by = w.by /\ x.query = w.query /\ x.own = w.own /\ x.sort = w.sort
      /\ x.limit = w.limit /\ x.seen = w.seen /\ x.again = w.again
      /\ x.announced = w.announced /\ x.pages = w.pages /\ x.start = w.start
      /\ x.came = w.came /\ x.went = w.went
  BY <1>2 DEF WalkNames
<1>4. Remembers(x)
  BY <1>1, <1>3, SameMeant
<1>5. CASE w.by = "cursor"
  BY <1>1, <1>2, <1>3, <1>4, <1>5 DEF Counted, Drifts, Announces
<1>6. CASE w.by # "cursor"
  <2>1. Found(x) = Found(w) /\ Behind(x) = Behind(w)
    BY <1>2, <1>3, <1>6 DEF Found, Filter, Behind
  <2>2. Drifts(x)
    BY <1>1, <1>3, <2>1, SameCounts
  <2>3. Announces(x)
    BY <1>1, <1>2, <1>3, <1>6, <2>1 DEF Announces
  <2> QED
    BY <1>4, <2>2, <2>3 DEF Counted
<1> QED
  BY <1>5, <1>6

\* What a page changes of a walk, and what it leaves.
IsRead(w, hits, x) ==
  /\ x.by = w.by /\ x.query = w.query /\ x.own = w.own /\ x.sort = w.sort
  /\ x.limit = w.limit /\ x.cursor = w.cursor /\ x.offset = w.offset
  /\ x.announced = w.announced /\ x.start = w.start /\ x.came = w.came /\ x.went = w.went
  /\ x.step = "read" /\ x.seen = w.seen \union hits
  /\ x.again = w.again + Cardinality(hits \intersect w.seen)
  /\ x.pages = w.pages + 1

LEMMA ReadIsRead ==
  ASSUME NEW w \in Walk, NEW hits
  PROVE  IsRead(w, hits, Reading(w, hits))
<1>1. PICK x : x = Reading(w, hits)
  OBVIOUS
<1>2. IsRead(w, hits, x)
  BY <1>1, ReadWrites DEF IsRead
<1> QED
  BY <1>1, <1>2

LEMMA ReadIsCounted ==
  ASSUME NEW w, Good(w), Counted(w), w.step = "find",
         NEW hits \in Pages(Found(w), w.offset, w.limit, w.sort),
         NEW x, IsRead(w, hits, x)
  PROVE  Counted(x)
<1>1. Remembers(w) /\ Drifts(w) /\ Announces(w)
  BY DEF Counted
<1>2. /\ x.step = "read" /\ x.seen = w.seen \union hits
      /\ x.again = w.again + Cardinality(hits \intersect w.seen)
      /\ x.pages = w.pages + 1
  BY DEF IsRead
<1>3. /\ x.by = w.by /\ x.query = w.query /\ x.own = w.own /\ x.sort = w.sort
      /\ x.limit = w.limit /\ x.cursor = w.cursor /\ x.offset = w.offset
      /\ x.announced = w.announced /\ x.start = w.start /\ x.came = w.came /\ x.went = w.went
  BY DEF IsRead
<1>4. /\ \A S \in SUBSET Ids : IsFiniteSet(S) /\ Cardinality(S) \in Nat
      /\ w.start \in SUBSET Ids /\ w.seen \in SUBSET Ids /\ w.came \in Nat
      /\ Found(w) \in SUBSET Ids /\ Found(w) \in SUBSET Nat /\ Passed(w) \in SUBSET Found(w)
      /\ w.again \in Nat /\ w.pages \in Nat /\ w.offset \in Nat /\ w.limit \in Nat
      /\ w.by \in {"cursor", "offset"}
      /\ w.by = "offset" => Found(w) = Meant(w)
  BY WalkCountsAreNumbers
<1> DEFINE F == Found(w)
           P == Passed(w)
           Q == Page(F, 0, w.offset + w.limit)
<1>5. Found(x) = F /\ Passed(x) = Q /\ P = Page(F, 0, w.offset) /\ Behind(x) = w.offset + w.limit
      /\ Behind(w) = w.offset
  BY <1>2, <1>3 DEF Found, Filter, Passed, Behind
<1>6. /\ hits \in SUBSET F /\ hits \in SUBSET Ids
      /\ Cardinality(hits) = Cardinality(Page(F, w.offset, w.limit))
      /\ w.sort = "desc" => hits = Page(F, w.offset, w.limit)
  BY <1>4 DEF Pages
<1>7. F \subseteq Documents /\ IsFiniteSet(F)
  BY DocumentsAreFinite
<1>8. Page(F, w.offset, w.limit) = Q \ P /\ P \subseteq Q /\ Q \subseteq F
  <2>1. Page(F, w.offset, w.limit) = Q \ P /\ P \subseteq Q
    BY <1>4, <1>5, PagesJoin
  <2>2. Q \subseteq F
    BY DEF Page
  <2> QED
    BY <2>1, <2>2
<1>9. w.by = "offset" /\ Cardinality(hits) < w.limit =>
        Cardinality(w.start) <= w.offset + Cardinality(hits)
  <2>1. SUFFICES ASSUME w.by = "offset", Cardinality(hits) < w.limit
        PROVE  Cardinality(w.start) <= w.offset + Cardinality(hits)
    OBVIOUS
  <2>2. Cardinality(F) <= w.offset + Cardinality(hits)
    <3>1. Cardinality(Page(F, w.offset, w.limit)) < w.limit
      BY <1>6, <2>1
    <3>2. Cardinality(F) <= w.offset + Cardinality(Page(F, w.offset, w.limit))
      BY <1>4, <1>7, <3>1, ShortPageIsLast
    <3> QED
      BY <1>6, <3>2
  <2>3. w.start \in SUBSET F
    BY <1>1, <1>4, <2>1 DEF Remembers
  <2>4. /\ Cardinality(w.start) \in Nat /\ Cardinality(F) \in Nat /\ Cardinality(hits) \in Nat
        /\ Cardinality(w.start) <= Cardinality(F)
    BY <1>4, <1>6, <1>7, <2>3, CountParts
  <2> HIDE DEF F
  <2> QED
    BY <1>4, <2>2, <2>4
<1> HIDE DEF F, P, Q
<1>10. Remembers(x)
  <2>1. Meant(x) = Meant(w)
    BY <1>3 DEF Meant, Wanted
  <2> QED
    BY <1>1, <1>2, <1>3, <1>6, <1>7, <2>1 DEF Remembers
<1>11. Drifts(x)
  <2>1. SUFFICES ASSUME w.by = "offset", w.sort = "desc" PROVE Drifts(x)
    BY <1>3 DEF Drifts
  <2> DEFINE A == (F \ Q) \intersect w.seen
             B == hits \intersect w.seen
  <2>2. /\ w.again + Cardinality((F \ P) \intersect w.seen) <= w.came
        /\ Cardinality((P \intersect w.start) \ w.seen) <= w.went
    BY <1>1, <2>1 DEF Drifts, F, P
  <2>3. hits = Q \ P
    BY <1>6, <1>8, <2>1
  <2>4. (F \ P) \intersect w.seen = A \union B /\ A \intersect B = {}
    BY <1>8, <2>3
  <2>5. (F \ Q) \intersect (w.seen \union hits) = A
    BY <1>8, <2>3
  <2>6. (Q \intersect w.start) \ (w.seen \union hits) = (P \intersect w.start) \ w.seen
    BY <1>8, <2>3
  <2>7. A \in SUBSET Ids /\ B \in SUBSET Ids
    BY <1>4
  <2>8. x.again = w.again + Cardinality(B)
    BY <1>2
  <2> HIDE DEF A, B
  <2>9. /\ Cardinality(A) \in Nat /\ Cardinality(B) \in Nat
        /\ Cardinality(A \union B) = Cardinality(A) + Cardinality(B)
    BY <1>4, <2>4, <2>7, CountBoth
  <2>10. x.again + Cardinality(A) <= w.came
    <3>1. Cardinality((F \ P) \intersect w.seen) = Cardinality(A) + Cardinality(B)
      BY <2>4, <2>9
    <3>2. w.again \in Nat /\ w.came \in Nat
      BY <1>4
    <3> QED
      BY <2>2, <2>8, <2>9, <3>1, <3>2
  <2> QED
    BY <1>2, <1>3, <1>5, <2>2, <2>5, <2>6, <2>10 DEF Drifts
<1>12. (w.pages + 1) * w.limit = w.pages * w.limit + w.limit /\ w.pages * w.limit \in Nat
  BY <1>4, NextTimes
<1>13. /\ w.announced # None /\ w.announced \in Nat
       /\ Cardinality(w.start) <= w.announced * w.limit
       /\ w.by = "offset" =>
            Behind(w) = w.pages * w.limit /\ Cardinality(F) <= w.announced * w.limit + w.came
       /\ \/ Cardinality(w.start) <= Cardinality(w.seen) + w.again
          \/ w.pages * w.limit <= Cardinality(w.seen) + w.again
  BY <1>1 DEF Announces, F
<1>14. /\ Cardinality(x.seen) + x.again = Cardinality(w.seen) + w.again + Cardinality(hits)
       /\ Cardinality(x.seen) \in Nat /\ Cardinality(w.seen) \in Nat /\ Cardinality(hits) \in Nat
       /\ Cardinality(w.start) \in Nat /\ x.again \in Nat
  <2> DEFINE B == hits \intersect w.seen
             U == w.seen \union hits
  <2>1. Cardinality(U) = Cardinality(w.seen) + Cardinality(hits) - Cardinality(w.seen \intersect hits)
    BY <1>4, <1>6, FS_Union
  <2>2. w.seen \intersect hits = B
    OBVIOUS
  <2>3. B \in SUBSET Ids /\ U \in SUBSET Ids
    BY <1>4, <1>6
  <2> HIDE DEF B, U
  <2>4. /\ Cardinality(B) \in Nat /\ Cardinality(U) \in Nat /\ Cardinality(w.seen) \in Nat
        /\ Cardinality(hits) \in Nat /\ Cardinality(w.start) \in Nat /\ w.again \in Nat
    BY <1>4, <1>6, <2>3
  <2>5. x.again = w.again + Cardinality(B) /\ x.seen = U
    BY <1>2 DEF B, U
  <2>6. Cardinality(U) = Cardinality(w.seen) + Cardinality(hits) - Cardinality(B)
    BY <2>1, <2>2
  <2> QED
    BY <2>4, <2>5, <2>6
<1>15. \/ Cardinality(w.start) <= Cardinality(x.seen) + x.again
       \/ (w.pages + 1) * w.limit <= Cardinality(x.seen) + x.again
  <2>1. CASE Cardinality(w.start) <= Cardinality(w.seen) + w.again
    BY <1>4, <1>14, <2>1
  <2>2. CASE w.pages * w.limit <= Cardinality(w.seen) + w.again /\ w.limit <= Cardinality(hits)
    BY <1>4, <1>12, <1>14, <2>2
  <2>3. CASE /\ w.pages * w.limit <= Cardinality(w.seen) + w.again
             /\ Cardinality(hits) < w.limit /\ w.by = "offset"
    <3>1. Cardinality(w.start) <= w.offset + Cardinality(hits)
      BY <1>9, <2>3
    <3>2. w.offset = w.pages * w.limit
      BY <1>5, <1>13, <2>3
    <3> QED
      BY <1>4, <1>12, <1>14, <2>3, <3>1, <3>2
  <2>4. CASE Cardinality(hits) < w.limit /\ w.by = "cursor"
    <3>1. w.start \in SUBSET x.seen /\ x.seen \in SUBSET Ids
      BY <1>2, <1>4, <1>6, <2>4, CursorPage
    <3>2. Cardinality(w.start) <= Cardinality(x.seen)
      BY <1>4, <3>1, CountParts
    <3> QED
      BY <1>14, <3>2
  <2> QED
    BY <1>4, <1>13, <1>14, <2>1, <2>2, <2>3, <2>4
<1>16. Announces(x)
  <2>1. w.by = "offset" => Behind(x) = x.pages * x.limit
    BY <1>2, <1>3, <1>5, <1>12, <1>13
  <2> QED
    BY <1>2, <1>3, <1>5, <1>13, <1>15, <2>1 DEF Announces
<1> QED
  BY <1>10, <1>11, <1>16 DEF Counted

-----------------------------------------------------------------------------
(* A document that comes, or goes, while a walk is under way.              *)

\* One document more: the walk gets one back in front of it at most.
LEMMA OneMoreDrifts ==
  ASSUME NEW F \in SUBSET Nat, IsFiniteSet(F), NEW k \in Nat, NEW id \in Nat, id \notin F,
         NEW seen, NEW start, id \notin start,
         NEW G, G = F \union {id}, NEW P, P = Page(F, 0, k), NEW Q, Q = Page(G, 0, k)
  PROVE  /\ Cardinality((G \ Q) \intersect seen) \in Nat
         /\ Cardinality((G \ Q) \intersect seen) <= Cardinality((F \ P) \intersect seen) + 1
         /\ Cardinality((Q \intersect start) \ seen) \in Nat
         /\ Cardinality((Q \intersect start) \ seen) <= Cardinality((P \intersect start) \ seen)
<1>1. P \in SUBSET F
  BY DEF Page
<1>2. Q \subseteq P \union {id}
  BY PageWithOneMore
<1>3. PICK z : P \subseteq Q \union {z}
  BY PageWithOneMore
<1>4. \E y : (G \ Q) \intersect seen \subseteq ((F \ P) \intersect seen) \union {y}
  <2>1. CASE id \in Q
    <3>1. (G \ Q) \intersect seen \subseteq ((F \ P) \intersect seen) \union {z}
      BY <1>3, <2>1
    <3> QED
      BY <3>1
  <2>2. CASE id \notin Q
    <3>1. P \subseteq Q
      BY <2>2, PageWithOneMore
    <3>2. (G \ Q) \intersect seen \subseteq ((F \ P) \intersect seen) \union {id}
      BY <3>1
    <3> QED
      BY <3>2
  <2> QED
    BY <2>1, <2>2
<1>5. (Q \intersect start) \ seen \in SUBSET ((P \intersect start) \ seen)
  BY <1>2
<1> DEFINE A == (G \ Q) \intersect seen
           B == (F \ P) \intersect seen
           C == (Q \intersect start) \ seen
           D == (P \intersect start) \ seen
<1>6. IsFiniteSet(B) /\ IsFiniteSet(D)
  <2>1. B \in SUBSET F /\ D \in SUBSET F
    BY <1>1
  <2> QED
    BY <2>1, CountParts
<1> HIDE DEF A, B, C, D
<1>7. Cardinality(A) \in Nat /\ Cardinality(A) <= Cardinality(B) + 1
  <2>1. PICK y : A \subseteq B \union {y}
    BY <1>4 DEF A, B
  <2> QED
    BY <1>6, <2>1, CountOneMore
<1>8. Cardinality(C) \in Nat /\ Cardinality(C) <= Cardinality(D)
  <2>1. C \in SUBSET D
    BY <1>5 DEF C, D
  <2> QED
    BY <1>6, <2>1, CountParts
<1> QED
  BY <1>7, <1>8 DEF A, B, C, D

\* One document less: one that was not read falls behind the walk at most.
LEMMA OneLessDrifts ==
  ASSUME NEW G \in SUBSET Nat, IsFiniteSet(G), NEW k \in Nat, NEW id \in Nat, id \notin G,
         NEW seen, NEW start,
         NEW F, F = G \union {id}, NEW P, P = Page(F, 0, k), NEW Q, Q = Page(G, 0, k)
  PROVE  /\ Cardinality((G \ Q) \intersect seen) \in Nat
         /\ Cardinality((G \ Q) \intersect seen) <= Cardinality((F \ P) \intersect seen)
         /\ Cardinality((Q \intersect start) \ seen) \in Nat
         /\ Cardinality((Q \intersect start) \ seen)
              <= Cardinality((P \intersect start) \ seen) + 1
<1>1. P \in SUBSET F /\ IsFiniteSet(F)
  BY CountParts DEF Page
<1>2. P \subseteq Q \union {id}
  BY PageWithOneMore
<1>3. PICK z : Q \subseteq P \union {z}
  BY PageWithOneMore
<1>4. (G \ Q) \intersect seen \in SUBSET ((F \ P) \intersect seen)
  BY <1>2
<1>5. (Q \intersect start) \ seen \subseteq ((P \intersect start) \ seen) \union {z}
  BY <1>3
<1> DEFINE A == (G \ Q) \intersect seen
           B == (F \ P) \intersect seen
           C == (Q \intersect start) \ seen
           D == (P \intersect start) \ seen
<1>6. IsFiniteSet(B) /\ IsFiniteSet(D)
  <2>1. B \in SUBSET F /\ D \in SUBSET F
    BY <1>1
  <2> QED
    BY <1>1, <2>1, CountParts
<1> HIDE DEF A, B, C, D
<1>7. Cardinality(A) \in Nat /\ Cardinality(A) <= Cardinality(B)
  <2>1. A \in SUBSET B
    BY <1>4 DEF A, B
  <2> QED
    BY <1>6, <2>1, CountParts
<1>8. Cardinality(C) \in Nat /\ Cardinality(C) <= Cardinality(D) + 1
  <2>1. C \subseteq D \union {z}
    BY <1>5 DEF C, D
  <2> QED
    BY <1>6, <2>1, CountOneMore
<1> QED
  BY <1>7, <1>8 DEF A, B, C, D

\* A document that begins to be asked for, or stops.
LEMMA NotedIsCounted ==
  ASSUME NEW w, Good(w), Counted(w), w.step # "idle", NEW id \in Ids, NEW docs,
         NEW x, AsNoted(w, x, id, docs),
         Meant(x)' = IF Asks(w, docs) THEN Meant(w) \union {id} ELSE Meant(w) \ {id},
         w.by = "cursor" => Documents \subseteq Documents'
  PROVE  Counted(x)'
<1>1. Remembers(w) /\ Drifts(w) /\ Announces(w)
  BY DEF Counted
<1>2. /\ x.step = w.step /\ x.by = w.by /\ x.query = w.query /\ x.own = w.own /\ x.sort = w.sort
      /\ x.limit = w.limit /\ x.cursor = w.cursor /\ x.offset = w.offset /\ x.seen = w.seen
      /\ x.again = w.again /\ x.pages = w.pages /\ x.announced = w.announced
  BY DEF AsNoted, WalkNames
<1>3. PICK F : F = Meant(w)
  OBVIOUS
<1>4. PICK G : G = Meant(x)'
  OBVIOUS
<1>5. PICK k : k = Behind(w)
  OBVIOUS
<1>6. /\ F \in SUBSET Ids /\ F \in SUBSET Nat /\ IsFiniteSet(F) /\ id \in Nat /\ k \in Nat
      /\ w.start \in SUBSET F /\ w.came \in Nat /\ w.went \in Nat /\ w.again \in Nat
      /\ w.by = "offset" => Found(w) = F
      /\ w.limit \in Nat /\ w.seen \in SUBSET Ids
  BY <1>1, <1>3, <1>5, WalkCountsAreNumbers, IdsAssumption DEF Remembers
<1>7. \/ G = F /\ x.came = w.came /\ x.went = w.went /\ x.start = w.start
      \/ /\ id \notin F /\ G = F \union {id}
         /\ x.came = w.came + 1 /\ x.went = w.went /\ x.start = w.start
      \/ /\ id \notin G /\ F = G \union {id}
         /\ x.came = w.came /\ x.went = w.went + 1 /\ x.start = w.start \ {id}
  <2>1. /\ x.came = IF Asks(w, docs) /\ id \notin F THEN w.came + 1 ELSE w.came
        /\ x.went = IF id \in F /\ ~Asks(w, docs) THEN w.went + 1 ELSE w.went
        /\ x.start = IF Asks(w, docs) THEN w.start ELSE w.start \ {id}
    BY <1>3 DEF AsNoted
  <2>2. G = IF Asks(w, docs) THEN F \union {id} ELSE F \ {id}
    BY <1>3, <1>4
  <2> QED
    BY <1>6, <2>1, <2>2
<1>8. G \in SUBSET Ids /\ G \in SUBSET Nat /\ IsFiniteSet(G) /\ x.start \in SUBSET w.start
  <2>1. G \in SUBSET Ids /\ x.start \in SUBSET w.start
    BY <1>6, <1>7
  <2> QED
    BY <2>1, IdsAssumption, CountParts
<1>9. /\ Cardinality(F) \in Nat /\ Cardinality(G) \in Nat
      /\ Cardinality(G) <= Cardinality(F) \/ x.came = w.came + 1
      /\ Cardinality(G) <= Cardinality(F) + 1
      /\ x.came \in Nat /\ w.came <= x.came
  <2>1. G \subseteq F \union {id} /\ (G \in SUBSET F \/ x.came = w.came + 1)
    BY <1>7
  <2>2. /\ Cardinality(F) \in Nat /\ Cardinality(G) \in Nat
        /\ Cardinality(G) <= Cardinality(F) + 1
        /\ G \in SUBSET F => Cardinality(G) <= Cardinality(F)
    BY <1>6, <2>1, CountParts, CountOneMore
  <2>3. x.came \in Nat /\ w.came <= x.came
    BY <1>6, <1>7
  <2> QED
    BY <2>1, <2>2, <2>3
<1>10. x.by = "offset" => Found(x)' = G
  BY <1>4 DEF Found, Meant, Wanted, Filter
<1>11. Behind(x)' = k
  BY <1>2, <1>5 DEF Behind
<1>12. Remembers(x)'
  <2>1. x.start \subseteq G
    BY <1>6, <1>7
  <2>2. Cardinality(G \ x.start) <= x.came
    <3> DEFINE A == G \ x.start
               B == F \ w.start
    <3>1. Cardinality(B) <= w.came
      BY <1>1, <1>3 DEF Remembers
    <3>2. IsFiniteSet(B)
      <4>1. B \in SUBSET F
        OBVIOUS
      <4> QED
        BY <1>6, <4>1, CountParts
    <3>3. A \in SUBSET B \/ (A \subseteq B \union {id} /\ x.came = w.came + 1)
      BY <1>7
    <3> HIDE DEF A, B
    <3>4. Cardinality(B) \in Nat
      BY <3>2, CountParts
    <3>5. CASE A \in SUBSET B
      <4>1. Cardinality(A) <= Cardinality(B) /\ Cardinality(A) \in Nat
        BY <3>2, <3>5, CountParts
      <4>2. Cardinality(A) <= x.came
        BY <1>6, <1>9, <3>1, <3>4, <4>1
      <4> QED
        BY <4>2 DEF A
    <3>6. CASE A \subseteq B \union {id} /\ x.came = w.came + 1
      <4>1. Cardinality(A) <= Cardinality(B) + 1 /\ Cardinality(A) \in Nat
        BY <3>2, <3>6, CountOneMore
      <4>2. Cardinality(A) <= x.came
        BY <1>6, <3>1, <3>4, <3>6, <4>1
      <4> QED
        BY <4>2 DEF A
    <3> QED
      BY <3>3, <3>5, <3>6
  <2>3. w.by = "cursor" => w.seen \subseteq Documents'
    BY <1>1 DEF Remembers
  <2> QED
    BY <1>2, <1>4, <2>1, <2>2, <2>3 DEF Remembers
<1>13. Announces(x)'
  <2>1. /\ w.step \in {"find", "read"} => w.announced # None
        /\ w.announced # None =>
             /\ w.announced \in Nat
             /\ Cardinality(w.start) <= w.announced * w.limit
             /\ w.by = "offset" => Cardinality(F) <= w.announced * w.limit + w.came
        /\ w.by = "offset" => k = w.pages * w.limit
        /\ \/ Cardinality(w.start) <= Cardinality(w.seen) + w.again
           \/ w.pages * w.limit <= Cardinality(w.seen) + w.again
    BY <1>1, <1>5, <1>6 DEF Announces
  <2>2. /\ Cardinality(x.start) \in Nat /\ Cardinality(w.start) \in Nat
        /\ Cardinality(x.start) <= Cardinality(w.start) /\ Cardinality(w.seen) \in Nat
    <3>1. IsFiniteSet(w.start) /\ IsFiniteSet(w.seen)
      BY <1>6, CountParts, IdsAssumption
    <3> QED
      BY <1>8, <3>1, CountParts
  <2>3. ASSUME w.announced # None
        PROVE  /\ Cardinality(x.start) <= w.announced * w.limit
               /\ w.by = "offset" => Cardinality(G) <= w.announced * w.limit + x.came
    <3>1. w.announced * w.limit \in Nat
      BY <1>6, <2>1, <2>3, NextTimes
    <3> QED
      BY <1>6, <1>9, <2>1, <2>2, <2>3, <3>1
  <2>4. \/ Cardinality(x.start) <= Cardinality(w.seen) + w.again
        \/ w.pages * w.limit <= Cardinality(w.seen) + w.again
    BY <1>6, <2>1, <2>2
  <2> QED
    BY <1>2, <1>10, <1>11, <2>1, <2>3, <2>4 DEF Announces
<1>14. Drifts(x)'
  <2>1. PICK P : P = Page(F, 0, k)
    OBVIOUS
  <2>2. PICK Q : Q = Page(G, 0, k)
    OBVIOUS
  <2>3. SUFFICES ASSUME w.by = "offset", w.sort = "desc"
        PROVE  /\ w.again + Cardinality((G \ Q) \intersect w.seen) <= x.came
               /\ Cardinality((Q \intersect x.start) \ w.seen) <= x.went
    <3>1. x.by = "offset" => Found(x)' = G /\ Passed(x)' = Q
      BY <1>10, <1>11, <2>2 DEF Passed
    <3> QED
      BY <1>2, <3>1 DEF Drifts
  <2>4. /\ w.again + Cardinality((F \ P) \intersect w.seen) <= w.came
        /\ Cardinality((P \intersect w.start) \ w.seen) <= w.went
    <3>1. Found(w) = F /\ Passed(w) = P
      BY <1>5, <1>6, <2>1, <2>3 DEF Passed
    <3> QED
      BY <1>1, <2>3, <3>1 DEF Drifts
  <2>5. /\ Cardinality((F \ P) \intersect w.seen) \in Nat
        /\ Cardinality((P \intersect w.start) \ w.seen) \in Nat
    <3>1. /\ (F \ P) \intersect w.seen \in SUBSET F
          /\ (P \intersect w.start) \ w.seen \in SUBSET F
      BY <1>6
    <3> QED
      BY <1>6, <3>1, CountParts
  <2>6. CASE G = F /\ x.came = w.came /\ x.went = w.went /\ x.start = w.start
    <3>1. P = Q
      BY <2>1, <2>2, <2>6
    <3> QED
      BY <2>4, <2>6, <3>1
  <2>7. CASE /\ id \notin F /\ G = F \union {id}
             /\ x.came = w.came + 1 /\ x.went = w.went /\ x.start = w.start
    <3>1. /\ Cardinality((G \ Q) \intersect w.seen) \in Nat
          /\ Cardinality((G \ Q) \intersect w.seen) <= Cardinality((F \ P) \intersect w.seen) + 1
          /\ Cardinality((Q \intersect w.start) \ w.seen) \in Nat
          /\ Cardinality((Q \intersect w.start) \ w.seen)
               <= Cardinality((P \intersect w.start) \ w.seen)
      <4>1. id \notin w.start
        BY <1>6, <2>7
      <4> QED
        BY <1>6, <2>1, <2>2, <2>7, <4>1, OneMoreDrifts
    <3> QED
      BY <1>6, <2>4, <2>5, <2>7, <3>1
  <2>8. CASE /\ id \notin G /\ F = G \union {id}
             /\ x.came = w.came /\ x.went = w.went + 1 /\ x.start = w.start \ {id}
    <3>1. /\ Cardinality((G \ Q) \intersect w.seen) \in Nat
          /\ Cardinality((G \ Q) \intersect w.seen) <= Cardinality((F \ P) \intersect w.seen)
          /\ Cardinality((Q \intersect w.start) \ w.seen) \in Nat
          /\ Cardinality((Q \intersect w.start) \ w.seen)
               <= Cardinality((P \intersect w.start) \ w.seen) + 1
      BY <1>6, <1>8, <2>1, <2>2, <2>8, OneLessDrifts
    <3>2. /\ Cardinality((Q \intersect x.start) \ w.seen) \in Nat
          /\ Cardinality((Q \intersect x.start) \ w.seen)
               <= Cardinality((Q \intersect w.start) \ w.seen)
      <4> DEFINE A == (Q \intersect x.start) \ w.seen
                 B == (Q \intersect w.start) \ w.seen
      <4>1. A \in SUBSET B /\ B \in SUBSET F
        BY <1>6, <1>8
      <4> HIDE DEF A, B
      <4>2. Cardinality(A) \in Nat /\ Cardinality(A) <= Cardinality(B)
        BY <1>6, <4>1, CountParts
      <4> QED
        BY <4>2 DEF A, B
    <3> QED
      BY <1>6, <2>4, <2>5, <2>8, <3>1, <3>2
  <2> QED
    BY <1>7, <2>6, <2>7, <2>8
<1> QED
  BY <1>12, <1>13, <1>14 DEF Counted

\* What a walk asks for, once one document is written, or gone.
LEMMA NotedMeans ==
  ASSUME NEW w, NEW x, x.query = w.query, x.own = w.own, NEW id \in Ids, NEW docs,
         docs = IF stored'[id] # None THEN {Record(id, owner'[id])} ELSE {},
         \A y \in Ids \ {id} : (stored'[y] # None <=> stored[y] # None) /\ owner'[y] = owner[y]
  PROVE  Meant(x)' = IF Asks(w, docs) THEN Meant(w) \union {id} ELSE Meant(w) \ {id}
<1> DEFINE m == MongoFilter(w.query, w.own)
<1>1. Meant(x)' = {y \in Ids : stored'[y] # None /\ Matches(Record(y, owner'[y]), m)}
  BY DEF Meant, Wanted, Documents, Doc
<1>2. Meant(w) = {y \in Ids : stored[y] # None /\ Matches(Record(y, owner[y]), m)}
  BY DEF Meant, Wanted, Documents, Doc
<1>3. Asks(w, docs) <=> stored'[id] # None /\ Matches(Record(id, owner'[id]), m)
  BY DEF Asks
<1> HIDE DEF m
<1>4. ASSUME NEW y \in Ids, y # id PROVE y \in Meant(x)' <=> y \in Meant(w)
  BY <1>1, <1>2, <1>4
<1>5. id \in Meant(x)' <=> Asks(w, docs)
  BY <1>1, <1>3
<1>6. Meant(x)' \subseteq Ids /\ Meant(w) \subseteq Ids
  BY <1>1, <1>2
<1> QED
  BY <1>4, <1>5, <1>6

-----------------------------------------------------------------------------
(* Every step keeps the counts of every walk.                              *)

LEMMA CountedWalks ==
  /\ WalksAreCounted <=> \A c \in Clients : Counted(walk[c])
  /\ WalksAreCounted' <=> \A c \in Clients : Counted(walk[c])'
BY DEF WalksAreCounted, Counted

\* The walk of a client after a step, by a name that the step leaves alone.
LEMMA CountedNamed ==
  ASSUME NEW d \in Clients, NEW x, x = walk'[d], Counted(x)'
  PROVE  Counted(walk[d])'
BY DEF Counted, Remembers, Drifts, Announces, Passed, Behind, Found, Meant, Wanted

LEMMA IdleIsCounted ==
  ASSUME NEW w, w.step = "idle"
  PROVE  Counted(w) /\ Counted(w)'
BY DEF Counted, Remembers, Drifts, Announces

\* While no document comes, goes or is edited, a walk that stays where it is stays
\* counted.
LEMMA WaitingIsCounted ==
  ASSUME NEW w, Counted(w), UNCHANGED <<stored, owner>>
  PROVE  Counted(w)'
<1>1. Documents' = Documents /\ \A id : Doc(id)' = Doc(id)
  BY DEF Documents, Doc
<1>2. Found(w)' = Found(w) /\ Meant(w)' = Meant(w)
  <2>1. /\ Found(w)' = {id \in Documents' : Matches(Doc(id)', Filter(w))}
        /\ Meant(w)' = {id \in Documents' : Matches(Doc(id)', MongoFilter(w.query, w.own))}
    BY DEF Found, Meant, Wanted, Filter
  <2>2. /\ Found(w) = {id \in Documents : Matches(Doc(id), Filter(w))}
        /\ Meant(w) = {id \in Documents : Matches(Doc(id), MongoFilter(w.query, w.own))}
    BY DEF Found, Meant, Wanted
  <2> QED
    BY <1>1, <2>1, <2>2
<1>3. Behind(w)' = Behind(w)
  BY DEF Behind
<1>4. Passed(w)' = Passed(w)
  BY <1>2, <1>3 DEF Passed
<1>5. Remembers(w)'
  BY <1>1, <1>2 DEF Counted, Remembers
<1>6. Drifts(w)'
  BY <1>2, <1>4 DEF Counted, Drifts
<1>7. Announces(w)'
  BY <1>2, <1>3 DEF Counted, Announces
<1> QED
  BY <1>5, <1>6, <1>7 DEF Counted

\* A step of one walk.
LEMMA CountedStep ==
  ASSUME IInv, WalksAreCounted, NEW c \in Clients, NEW w, Counted(w),
         walk' = [walk EXCEPT ![c] = w],
         UNCHANGED <<collection, stored, owner, edits, drawn, task, socket>>
  PROVE  WalksAreCounted'
<1>1. ASSUME NEW d \in Clients PROVE Counted(walk[d])'
  <2>1. PICK x : x = walk'[d]
    OBVIOUS
  <2>2. walk \in [Clients -> Walk]
    BY InvariantParts
  <2>3. Counted(x)
    BY <2>1, <2>2, CountedWalks
  <2>4. Counted(x)'
    BY <2>3, WaitingIsCounted
  <2> QED
    BY <2>1, <2>4, CountedNamed
<1> QED
  BY <1>1, CountedWalks

\* A step that leaves the walks, and the documents, as they are.
LEMMA CountedBeside ==
  ASSUME WalksAreCounted, UNCHANGED <<stored, owner, walk>>
  PROVE  WalksAreCounted'
<1>1. ASSUME NEW d \in Clients PROVE Counted(walk[d])'
  <2>1. PICK x : x = walk'[d]
    OBVIOUS
  <2>2. Counted(x)
    BY <2>1, CountedWalks
  <2>3. Counted(x)'
    BY <2>2, WaitingIsCounted
  <2> QED
    BY <2>1, <2>3, CountedNamed
<1> QED
  BY <1>1, CountedWalks

\* A step that writes one document, or removes it.
LEMMA NotedCounts ==
  ASSUME IInv, WalksAreCounted, NEW id \in Ids, NEW docs, walk' = Noted(id, docs),
         Documents \subseteq Documents' \/ collection # "messages",
         docs = IF stored'[id] # None THEN {Record(id, owner'[id])} ELSE {},
         \A y \in Ids \ {id} : (stored'[y] # None <=> stored[y] # None) /\ owner'[y] = owner[y]
  PROVE  WalksAreCounted'
<1>1. walk \in [Clients -> Walk] /\ \A d \in Clients : Good(walk[d])
  BY InvariantParts
<1>2. ASSUME NEW d \in Clients PROVE Counted(walk[d])'
  <2>1. PICK w : w = walk[d]
    OBVIOUS
  <2>2. PICK x : x = walk'[d]
    OBVIOUS
  <2>3. Good(w) /\ w \in Walk /\ Counted(w)
    BY <1>1, <2>1, CountedWalks
  <2>4. CASE w.step = "idle"
    <3>1. x = w
      BY <2>1, <2>2, <2>4 DEF Noted
    <3>2. Counted(x)'
      BY <2>4, <3>1, IdleIsCounted
    <3> QED
      BY <2>2, <3>2, CountedNamed
  <2>5. CASE w.step # "idle"
    <3>1. AsNoted(walk[d], Noted(id, docs)[d], id, docs)
      BY <2>1, <2>3, <2>5, NotedWalk
    <3>2. AsNoted(w, x, id, docs)
      BY <2>1, <2>2, <3>1
    <3>3. x.query = w.query /\ x.own = w.own
      BY <3>2 DEF AsNoted, WalkNames
    <3>4. Meant(x)' = IF Asks(w, docs) THEN Meant(w) \union {id} ELSE Meant(w) \ {id}
      BY <3>3, NotedMeans
    <3>5. w.by = "cursor" => Documents \subseteq Documents'
      BY <2>3, <2>5 DEF Good, Asked
    <3>6. Counted(x)'
      BY <2>3, <2>5, <3>2, <3>4, <3>5, NotedIsCounted
    <3> QED
      BY <2>2, <3>6, CountedNamed
  <2> QED
    BY <2>4, <2>5
<1> QED
  BY <1>2, CountedWalks

LEMMA SaveCounts ==
  ASSUME IInv, WalksAreCounted, NEW h \in Handlers, Save(h)
  PROVE  WalksAreCounted'
<1>1. PICK id : id = task[h].id
  OBVIOUS
<1>2. /\ task[h].step = "save" /\ stored' = [stored EXCEPT ![id] = h]
      /\ walk' = Noted(id, {Doc(id)}) /\ owner' = owner
  BY <1>1 DEF Save
<1>3. Rest
  BY InvariantParts
<1>4. id \in Ids
  BY <1>1, <1>2, <1>3 DEF Rest, IdsAreDrawn
<1>5. \A y \in Ids : stored'[y] = IF y = id THEN h ELSE stored[y]
  BY <1>2, <1>3 DEF Rest
<1>6. h # None
  BY NoneAssumption
<1>7. Documents \subseteq Documents'
  BY <1>5, <1>6 DEF Documents
<1>8. {Doc(id)} = IF stored'[id] # None THEN {Record(id, owner'[id])} ELSE {}
  BY <1>2, <1>4, <1>5, <1>6 DEF Doc
<1> QED
  BY <1>2, <1>4, <1>5, <1>7, <1>8, NotedCounts

LEMMA DeleteCounts ==
  ASSUME IInv, WalksAreCounted, NEW id \in Ids, Delete(id)
  PROVE  WalksAreCounted'
<1>1. /\ collection # "messages" /\ stored' = [stored EXCEPT ![id] = None]
      /\ walk' = Noted(id, {}) /\ owner' = owner
  BY DEF Delete
<1>2. Rest
  BY InvariantParts
<1>3. \A y \in Ids : stored'[y] = IF y = id THEN None ELSE stored[y]
  BY <1>1, <1>2 DEF Rest
<1>4. {} = IF stored'[id] # None THEN {Record(id, owner'[id])} ELSE {}
  BY <1>3
<1> QED
  BY <1>1, <1>3, <1>4, NotedCounts

LEMMA EditCounts ==
  ASSUME IInv, WalksAreCounted, NEW id \in Ids, NEW o \in Owners, Edit(id, o)
  PROVE  WalksAreCounted'
<1>1. /\ id \in Documents /\ owner' = [owner EXCEPT ![id] = o] /\ stored' = stored
      /\ walk' = Noted(id, {Record(id, o)})
  BY DEF Edit
<1>2. Rest
  BY InvariantParts
<1>3. \A y \in Ids : owner'[y] = IF y = id THEN o ELSE owner[y]
  BY <1>1, <1>2 DEF Rest
<1>4. {Record(id, o)} = IF stored'[id] # None THEN {Record(id, owner'[id])} ELSE {}
  BY <1>1, <1>3 DEF Documents
<1>5. Documents \subseteq Documents'
  BY <1>1 DEF Documents
<1> QED
  BY <1>1, <1>3, <1>4, <1>5, NotedCounts

LEMMA BeginCounts ==
  ASSUME IInv, WalksAreCounted, NEW c \in Clients, NEW by, NEW query, NEW own, NEW sort,
         NEW limit \in Limits, Begin(c, by, query, own, sort, limit)
  PROVE  WalksAreCounted'
<1>1. Limit(limit) \in Nat
  BY LimitsAssumption, DefaultLimitAssumption DEF Limit
<1>2. PICK start : start = {id \in Documents : Matches(Doc(id), MongoFilter(query, own))}
  OBVIOUS
<1>3. PICK w : w = Fresh("count", by, query, own, sort, Limit(limit), start)
  OBVIOUS
<1>4. Counted(w)
  BY <1>1, <1>2, <1>3, FreshIsCounted
<1>5. /\ walk' = [walk EXCEPT ![c] = w]
      /\ UNCHANGED <<collection, stored, owner, edits, drawn, task, socket>>
  BY <1>2, <1>3 DEF Begin
<1> QED
  BY <1>4, <1>5, CountedStep

LEMMA GetPaginationCounts ==
  ASSUME IInv, WalksAreCounted, NEW c \in Clients, GetPagination(c)
  PROVE  WalksAreCounted'
<1>1. PICK w : w = walk[c]
  OBVIOUS
<1>2. PICK n : n = Cardinality(IF collection = "messages" THEN Documents ELSE Found(w))
  OBVIOUS
<1>3. PICK x : x = Counting(w, n)
  OBVIOUS
<1>4. /\ w.step = "count" /\ walk' = [walk EXCEPT ![c] = x]
      /\ UNCHANGED <<collection, stored, owner, edits, drawn, task, socket>>
  BY <1>1, <1>2, <1>3 DEF GetPagination, Counting
<1>5. Good(w) /\ Counted(w)
  BY <1>1, InvariantParts, CountedWalks
<1>6. Counted(x)
  BY <1>2, <1>3, <1>4, <1>5, CountIsCounted
<1> QED
  BY <1>4, <1>6, CountedStep

LEMMA FindForQueryCounts ==
  ASSUME IInv, WalksAreCounted, NEW c \in Clients, FindForQuery(c)
  PROVE  WalksAreCounted'
<1>1. PICK w : w = walk[c]
  OBVIOUS
<1>2. PICK hits \in Pages(Found(w), w.offset, w.limit, w.sort) :
        walk' = [walk EXCEPT ![c] = Reading(w, hits)]
  BY <1>1 DEF FindForQuery, Reading
<1>3. PICK x : x = Reading(w, hits)
  OBVIOUS
<1>4. /\ w.step = "find" /\ walk' = [walk EXCEPT ![c] = x]
      /\ UNCHANGED <<collection, stored, owner, edits, drawn, task, socket>>
  BY <1>1, <1>2, <1>3 DEF FindForQuery
<1>5. Good(w) /\ Counted(w)
  BY <1>1, InvariantParts, CountedWalks
<1>6. IsRead(w, hits, x)
  BY <1>3, <1>5, ReadIsRead DEF Good
<1>7. Counted(x)
  BY <1>2, <1>4, <1>5, <1>6, ReadIsCounted
<1> QED
  BY <1>4, <1>7, CountedStep

LEMMA NextPageCounts ==
  ASSUME IInv, WalksAreCounted, NEW c \in Clients, NextPage(c)
  PROVE  WalksAreCounted'
<1>1. PICK w : w = walk[c]
  OBVIOUS
<1>2. PICK x : x = GoingOn(w)
  OBVIOUS
<1>3. /\ w.step = "read" /\ walk' = [walk EXCEPT ![c] = x]
      /\ UNCHANGED <<collection, stored, owner, edits, drawn, task, socket>>
  BY <1>1, <1>2 DEF NextPage, GoingOn
<1>4. Good(w) /\ Counted(w)
  BY <1>1, InvariantParts, CountedWalks
<1>5. Counted(x)
  BY <1>2, <1>3, <1>4, NextIsCounted
<1> QED
  BY <1>3, <1>5, CountedStep

LEMMA StopCounts ==
  ASSUME IInv, WalksAreCounted, NEW c \in Clients, Stop(c)
  PROVE  WalksAreCounted'
<1>1. /\ walk' = [walk EXCEPT ![c] = NoWalk]
      /\ UNCHANGED <<collection, stored, owner, edits, drawn, task, socket>>
  BY DEF Stop
<1>2. NoWalk.step = "idle"
  BY DEF NoWalk, Fresh
<1>3. Counted(NoWalk)
  BY <1>2, IdleIsCounted
<1> QED
  BY <1>1, <1>3, CountedStep

LEMMA InitCounts ==
  Init => WalksAreCounted
<1>1. NoWalk.step = "idle"
  BY DEF NoWalk, Fresh
<1>2. Counted(NoWalk)
  BY <1>1, IdleIsCounted
<1> QED
  BY <1>2, CountedWalks DEF Init

LEMMA StepCounts ==
  IInv /\ WalksAreCounted /\ [Next]_vars => WalksAreCounted'
<1> SUFFICES ASSUME IInv, WalksAreCounted, [Next]_vars PROVE WalksAreCounted'
  OBVIOUS
<1>1. ASSUME NEW h \in Handlers, NEW id \in Ids,
             \/ SaveMessage(h, id) \/ CreatePost(h, id) \/ CreateComment(h, id)
             \/ CreateCategory(h, id) \/ CreateRequest(h, id)
      PROVE  WalksAreCounted'
  BY <1>1, CountedBeside DEF New, SaveMessage, CreatePost, CreateComment, CreateCategory, CreateRequest
<1>2. ASSUME NEW h \in Handlers, Proceed(h) \/ Fail(h) PROVE WalksAreCounted'
  BY <1>2, SaveCounts, CountedBeside DEF Proceed, Emit, Fail
<1>3. ASSUME NEW id \in Ids, Delete(id) \/ \E o \in Owners : Edit(id, o) PROVE WalksAreCounted'
  BY <1>3, DeleteCounts, EditCounts
<1>4. ASSUME NEW c \in Clients, NEW limit \in Limits, NEW by \in {"cursor", "offset"},
             GetAllMessages(c, by, limit)
      PROVE  WalksAreCounted'
  BY <1>4, BeginCounts DEF GetAllMessages
<1>5. ASSUME NEW c \in Clients, NEW limit \in Limits, NEW query \in Queries,
             NEW sort \in Sorts,
             \/ GetAllPosts(c, query, sort, limit) \/ GetAllCategories(c, query, sort, limit)
             \/ GetAllApprove(c, query, sort, limit)
      PROVE  WalksAreCounted'
  BY <1>5, BeginCounts DEF GetAllPosts, GetAllCategories, GetAllApprove
<1>6. ASSUME NEW c \in Clients, NEW limit \in Limits, NEW query \in Queries,
             NEW sort \in Sorts, NEW o \in Owners,
             \/ GetAllPostsByUser(c, query, sort, limit, o)
             \/ GetAllComments(c, query, sort, limit, o)
      PROVE  WalksAreCounted'
  BY <1>6, BeginCounts DEF GetAllPostsByUser, GetAllComments, FindAllByPostId
<1>7. ASSUME NEW c \in Clients,
             GetPagination(c) \/ FindForQuery(c) \/ NextPage(c) \/ Stop(c)
      PROVE  WalksAreCounted'
  BY <1>7, GetPaginationCounts, FindForQueryCounts, NextPageCounts, StopCounts
<1>8. ASSUME NEW c \in Clients,
             \/ \E p \in Processes : HandleConnection(c, p)
             \/ HandleDisconnect(c) \/ RequestAllMessages(c) \/ SendAllMessages(c)
      PROVE  WalksAreCounted'
  BY <1>8, CountedBeside DEF HandleConnection, HandleDisconnect, RequestAllMessages, SendAllMessages
<1>9. CASE UNCHANGED vars
  BY <1>9, CountedBeside DEF vars
<1> QED
  BY <1>1, <1>2, <1>3, <1>4, <1>5, <1>6, <1>7, <1>8, <1>9 DEF Next

\* What was there from the beginning on and is not read yet lies behind the walk,
\* or is still to come.
LEMMA LeftByOffset ==
  ASSUME NEW w, Good(w), Counted(w), w.step # "idle", w.by = "offset",
         NEW S, S = w.start \ w.seen
  PROVE  /\ S \in SUBSET Found(w)
         /\ S \subseteq ((Passed(w) \intersect w.start) \ w.seen) \union (Found(w) \ Passed(w))
         /\ Missed(w) \in SUBSET (((Found(w) \intersect w.start) \ w.seen))
<1>1. w.start \subseteq Found(w)
  BY WalkCountsAreNumbers DEF Counted, Remembers
<1>2. Missed(w) \in SUBSET S
  BY DEF Missed
<1> QED
  BY <1>1, <1>2

LEMMA CountedDrifts ==
  ASSUME NEW w, Good(w), Counted(w), w.step # "idle", w.by = "offset", w.sort = "desc"
  PROVE  /\ w.again <= w.came
         /\ Cardinality(Missed(w)) <= w.went
<1>1. /\ \A S \in SUBSET Ids : IsFiniteSet(S) /\ Cardinality(S) \in Nat
      /\ w.came \in Nat /\ w.went \in Nat /\ w.seen \in SUBSET Ids
      /\ Found(w) \in SUBSET Ids /\ Found(w) \in SUBSET Nat /\ Passed(w) \in SUBSET Found(w)
      /\ w.again \in Nat /\ w.offset \in Nat /\ w.limit \in Nat /\ Behind(w) \in Nat
  BY WalkCountsAreNumbers
<1> DEFINE A == (Found(w) \ Passed(w)) \intersect w.seen
           B == (Passed(w) \intersect w.start) \ w.seen
<1>2. w.again + Cardinality(A) <= w.came /\ Cardinality(B) <= w.went
  BY DEF Counted, Drifts
<1>3. A \in SUBSET Ids /\ B \in SUBSET Ids
  BY <1>1
<1>4. Missed(w) \in SUBSET B
  <2>1. Missed(w) \in SUBSET ((Found(w) \intersect w.start) \ w.seen)
    BY LeftByOffset
  <2>2. /\ \A x : Cardinality(Before(Found(w), x)) \in Nat
        /\ Passed(w) = {x \in Found(w) : Cardinality(Before(Found(w), x)) < Behind(w)}
    BY <1>1, FirstPage DEF Passed
  <2>3. w.offset <= Behind(w)
    BY <1>1 DEF Behind
  <2>4. \A x \in Missed(w) : Cardinality(Before(Found(w), x)) < w.offset
    BY DEF Missed
  <2>5. \A x \in Missed(w) : Cardinality(Before(Found(w), x)) < Behind(w)
    BY <1>1, <2>2, <2>3, <2>4
  <2> QED
    BY <2>1, <2>2, <2>5
<1> HIDE DEF A, B
<1>5. Cardinality(Missed(w)) \in Nat /\ Cardinality(Missed(w)) <= Cardinality(B)
  BY <1>1, <1>3, <1>4, CountParts
<1>6. Cardinality(A) \in Nat /\ Cardinality(B) \in Nat
  BY <1>1, <1>3
<1>7. w.again <= w.came
  BY <1>1, <1>2, <1>6
<1>8. Cardinality(Missed(w)) <= w.went
  BY <1>1, <1>2, <1>5, <1>6
<1> QED
  BY <1>7, <1>8

LEMMA CountedHits ==
  ASSUME NEW w, Good(w), Counted(w), w.step = "read", w.pages >= w.announced
  PROVE  Cardinality(w.start) <= Cardinality(w.seen) + w.again
<1>1. /\ Cardinality(w.start) \in Nat /\ Cardinality(w.seen) \in Nat /\ w.again \in Nat
      /\ w.pages \in Nat /\ w.limit \in Nat
  BY WalkCountsAreNumbers
<1>2. /\ w.announced \in Nat /\ Cardinality(w.start) <= w.announced * w.limit
      /\ \/ Cardinality(w.start) <= Cardinality(w.seen) + w.again
         \/ w.pages * w.limit <= Cardinality(w.seen) + w.again
  BY DEF Counted, Announces
<1>3. /\ w.announced * w.limit <= w.pages * w.limit
      /\ w.announced * w.limit \in Nat /\ w.pages * w.limit \in Nat
  BY <1>1, <1>2, TimesGrows
<1> QED
  BY <1>1, <1>2, <1>3

LEMMA CountedSuffices ==
  ASSUME NEW w, Good(w), Counted(w), w.step = "read", w.sort = "desc",
         w.pages >= w.announced, NEW S, S = w.start \ w.seen
  PROVE  Cardinality(S) <= w.came + w.went
<1>1. /\ \A T \in SUBSET Ids : IsFiniteSet(T) /\ Cardinality(T) \in Nat
      /\ w.came \in Nat /\ w.went \in Nat /\ w.seen \in SUBSET Ids
      /\ w.start \in SUBSET Ids
      /\ Found(w) \in SUBSET Ids /\ Found(w) \in SUBSET Nat /\ Passed(w) \in SUBSET Found(w)
      /\ w.pages \in Nat /\ w.limit \in Nat /\ Behind(w) \in Nat
      /\ w.by \in {"cursor", "offset"}
  BY WalkCountsAreNumbers
<1>2. Announces(w) /\ Remembers(w) /\ Drifts(w)
  BY DEF Counted
<1>3. w.announced # None /\ w.announced \in Nat
  BY <1>2 DEF Announces
<1>4. /\ w.announced * w.limit <= w.pages * w.limit
      /\ w.announced * w.limit \in Nat /\ w.pages * w.limit \in Nat
  BY <1>1, <1>3, TimesGrows
<1>5. w.came \in Nat /\ w.went \in Nat
  BY <1>1
<1>6. CASE w.by = "offset"
  <2> DEFINE B == (Passed(w) \intersect w.start) \ w.seen
             C == Found(w) \ Passed(w)
  <2>1. S \subseteq B \union C
    BY <1>6, LeftByOffset
  <2>2. B \in SUBSET Ids /\ C \in SUBSET Ids /\ S \in SUBSET Ids
    BY <1>1
  <2>3. Cardinality(B) <= w.went
    BY <1>2, <1>6 DEF Drifts
  <2>4. Cardinality(C) <= w.came
    <3>1. /\ Behind(w) = w.pages * w.limit
          /\ Cardinality(Found(w)) <= w.announced * w.limit + w.came
      BY <1>2, <1>3, <1>6 DEF Announces
    <3>2. Cardinality(Found(w)) <= Behind(w) + w.came
      <4>1. Cardinality(Found(w)) \in Nat
        BY <1>1
      <4> QED
        BY <1>4, <1>5, <3>1, <4>1
    <3>3. IsFiniteSet(Found(w))
      BY <1>1
    <3> QED
      BY <1>1, <1>5, <3>2, <3>3, PageLeaves DEF Passed
  <2> HIDE DEF B, C
  <2>5. /\ Cardinality(B) \in Nat /\ Cardinality(C) \in Nat
        /\ Cardinality(S) \in Nat /\ Cardinality(S) <= Cardinality(B) + Cardinality(C)
    <3>1. IsFiniteSet(B) /\ IsFiniteSet(C)
      BY <1>1, <2>2
    <3>2. /\ Cardinality(B \union C)
               = Cardinality(B) + Cardinality(C) - Cardinality(B \intersect C)
          /\ IsFiniteSet(B \union C)
      BY <3>1, FS_Union
    <3>3. B \intersect C \in SUBSET B /\ S \in SUBSET (B \union C)
      BY <2>1
    <3>4. /\ Cardinality(B) \in Nat /\ Cardinality(C) \in Nat
          /\ Cardinality(B \intersect C) \in Nat /\ Cardinality(B \union C) \in Nat
          /\ Cardinality(S) \in Nat /\ Cardinality(S) <= Cardinality(B \union C)
      BY <3>1, <3>2, <3>3, CountParts
    <3> QED
      BY <3>2, <3>4
  <2> QED
    BY <1>5, <2>3, <2>4, <2>5
<1>7. CASE w.by = "cursor"
  <2> DEFINE L == w.start \ w.seen
  <2>1. S \in SUBSET L /\ L \in SUBSET Ids
    BY <1>1
  <2>2. Cardinality(S) \in Nat /\ Cardinality(S) <= Cardinality(L) /\ Cardinality(L) \in Nat
    <3>1. IsFiniteSet(L) /\ Cardinality(L) \in Nat
      BY <1>1, <2>1
    <3> HIDE DEF L
    <3> QED
      BY <2>1, <3>1, CountParts
  <2>3. Cardinality(L) <= w.came
    <3>1. Cardinality(w.start) <= Cardinality(w.seen)
      BY <1>1, <1>7, CountedHits, WalkCountsAreNumbers
    <3> DEFINE M == w.seen \ w.start
               K == w.start \intersect w.seen
    <3>2. M \in SUBSET (Meant(w) \ w.start)
      BY <1>2, <1>7, WalkCountsAreNumbers DEF Remembers
    <3>3. /\ w.start = K \union L /\ K \intersect L = {}
          /\ w.seen = K \union M /\ K \intersect M = {}
          /\ K \in SUBSET Ids /\ M \in SUBSET Ids /\ L \in SUBSET Ids
      BY <1>1
    <3> HIDE DEF K, L, M
    <3>4. IsFiniteSet(K) /\ IsFiniteSet(L) /\ IsFiniteSet(M)
      BY <1>1, <3>3
    <3>5. /\ Cardinality(w.start) = Cardinality(K) + Cardinality(L)
          /\ Cardinality(K) \in Nat /\ Cardinality(L) \in Nat
      BY <3>3, <3>4, CountBoth
    <3>6. Cardinality(w.seen) = Cardinality(K) + Cardinality(M) /\ Cardinality(M) \in Nat
      BY <3>3, <3>4, CountBoth
    <3>7. Cardinality(M) <= w.came
      <4>1. Meant(w) \ w.start \in SUBSET Ids
        BY WalkCountsAreNumbers
      <4>2. /\ Cardinality(M) <= Cardinality(Meant(w) \ w.start)
            /\ Cardinality(Meant(w) \ w.start) \in Nat
        BY <1>1, <3>2, <4>1, CountParts
      <4>3. Cardinality(Meant(w) \ w.start) <= w.came
        BY <1>2 DEF Remembers
      <4> QED
        BY <1>5, <3>6, <4>2, <4>3
    <3> QED
      BY <1>5, <3>1, <3>5, <3>6, <3>7
  <2> HIDE DEF L
  <2> QED
    BY <1>5, <2>2, <2>3
<1> QED
  BY <1>1, <1>6, <1>7

(* Whatever comes, goes and is edited, a walk stays counted against it, as *)
(* WalksAreCounted says: the walks of a sorted list document by document,  *)
(* those of a list without a sort hit by hit.                              *)
THEOREM CountInvariance ==
  Spec => []WalksAreCounted
<1>1. Init => WalksAreCounted
  BY InitCounts
<1>2. IInv /\ WalksAreCounted /\ [Next]_vars => WalksAreCounted'
  BY StepCounts
<1> QED
  BY <1>1, <1>2, Invariance, PTL DEF Spec

(* A list that is read by skip and limit and is sorted by _id, the newest  *)
(* first (the chat, or a client that sends the sort), repeats at most as   *)
(* many documents as came to be asked for, and passes by at most as many   *)
(* as went, for any number of clients, handlers and edits.                 *)
THEOREM OffsetWalks ==
  Spec => []OffsetWalkDrifts
<1>1. IInv /\ WalksAreCounted => OffsetWalkDrifts
  BY InvariantParts, CountedWalks, CountedDrifts DEF OffsetWalkDrifts, Walking
<1> QED
  BY <1>1, Invariance, CountInvariance, PTL

(* The total_page of getPagination, counted by a call of its own before    *)
(* the first page of a sorted list, is enough pages for all that was there *)
(* all along, but for one document for each that came or went since.       *)
THEOREM AnnouncedPages ==
  Spec => []AnnouncedPagesSuffice
<1>1. IInv /\ WalksAreCounted => AnnouncedPagesSuffice
  BY InvariantParts, CountedWalks, CountedSuffices DEF AnnouncedPagesSuffice
<1> QED
  BY <1>1, Invariance, CountInvariance, PTL

(* In any list, with the sort {} of parseQuery too, the announced pages    *)
(* answer as many hits as there are documents that were there all along.   *)
THEOREM AnnouncedHits ==
  Spec => []AnnouncedHitsSuffice
<1>1. IInv /\ WalksAreCounted => AnnouncedHitsSuffice
  BY InvariantParts, CountedWalks, CountedHits DEF AnnouncedHitsSuffice
<1> QED
  BY <1>1, Invariance, CountInvariance, PTL

-----------------------------------------------------------------------------
(* The pages of a sorted list that nobody changes.                         *)

\* What is not among the first has one that comes right after them.
LEMMA NextAfter ==
  ASSUME NEW S \in SUBSET Nat, IsFiniteSet(S), NEW n \in Nat, n < Cardinality(S)
  PROVE  \E x \in S : Cardinality(Before(S, x)) = n
<1> DEFINE P == Page(S, 0, n)
           Late == S \ P
           Size == {m \in Nat : \E x \in Late : m = Cardinality(Before(S, x))}
<1>1. /\ \A x : IsFiniteSet(Before(S, x)) /\ Cardinality(Before(S, x)) \in Nat
      /\ P = {x \in S : Cardinality(Before(S, x)) < n}
  BY FirstPage
<1>2. IsFiniteSet(P) /\ Cardinality(P) <= n /\ Cardinality(P) \in Nat /\ Cardinality(S) \in Nat
  <2>1. IsFiniteSet(P) /\ Cardinality(P) <= n
    BY PageIsLimited
  <2> QED
    BY <2>1, CountParts
<1>3. Late # {}
  <2>1. SUFFICES ASSUME Late = {} PROVE FALSE
    OBVIOUS
  <2>2. P = S
    BY <1>1, <2>1
  <2> QED
    BY <1>2, <2>2
<1>4. Size \in SUBSET Nat /\ Size # {}
  BY <1>1, <1>3
<1>5. PICK x \in Late : Cardinality(Before(S, x)) = Least(Size)
  BY <1>4, LeastExists
<1>6. \A y \in Late : Least(Size) <= Cardinality(Before(S, y))
  BY <1>1, <1>4, LeastExists
<1>7. Before(S, x) \in SUBSET P
  <2>1. SUFFICES ASSUME NEW y \in Before(S, x), y \notin P PROVE FALSE
    OBVIOUS
  <2>2. x \in S /\ y \in S /\ x < y /\ y \in Late
    BY <2>1 DEF Before
  <2>3. /\ Cardinality(Before(S, y)) \in Nat /\ Cardinality(Before(S, x)) \in Nat
        /\ Cardinality(Before(S, y)) < Cardinality(Before(S, x))
    BY <2>2, BeforeGrows
  <2> QED
    BY <1>5, <1>6, <2>2, <2>3
<1>8. Cardinality(Before(S, x)) <= Cardinality(P)
  BY <1>2, <1>7, CountParts
<1>9. x \in S /\ ~(Cardinality(Before(S, x)) < n)
  BY <1>1
<1>10. Cardinality(Before(S, x)) \in Nat
  BY <1>1
<1> HIDE DEF P
<1>11. Cardinality(Before(S, x)) = n
  BY <1>2, <1>8, <1>9, <1>10
<1> QED
  BY <1>9, <1>11

\* The pages that are announced are no more than there are documents to put on them.
LEMMA PagesAreNeeded ==
  ASSUME NEW n \in Nat, NEW k \in Nat \ {0}, NEW m \in Nat, m < TotalPages(n, k)
  PROVE  m * k < n /\ m * k \in Nat
<1> DEFINE a == n + k - 1
           q == a \div k
<1>1. a \in Nat /\ k \in Nat /\ k > 0
  OBVIOUS
<1> HIDE DEF a
<1>2. q \in Nat /\ q * k <= a
  BY <1>1
<1>3. m < q
  BY DEF TotalPages, a
<1> HIDE DEF q
<1>4. (m + 1) * k <= q * k /\ (m + 1) * k \in Nat /\ q * k \in Nat
  <2>1. m + 1 \in Nat /\ m + 1 <= q
    BY <1>2, <1>3
  <2> QED
    BY <1>1, <1>2, <2>1, TimesGrows
<1>5. (m + 1) * k = m * k + k /\ m * k \in Nat
  BY <1>1, NextTimes
<1> QED
  BY <1>1, <1>2, <1>4, <1>5 DEF a

(* The announced pages of findForQuery (Math.ceil of count by limit) are   *)
(* the right ones for a list that is sorted by _id, as the chat sorts its  *)
(* messages, and that nobody changes meanwhile: every document is on       *)
(* exactly one page, which is one of them, none of them is empty, and no   *)
(* page holds more than its limit.                                         *)
THEOREM StillListsArePaged ==
  ASSUME NEW S \in SUBSET Nat, IsFiniteSet(S), NEW limit \in Nat \ {0},
         NEW total, total = TotalPages(Cardinality(S), limit)
  PROVE  /\ \A x \in S : \E n \in 0 .. (total - 1) :
              \A m \in Nat : x \in Page(S, m * limit, limit) <=> m = n
         /\ \A n \in 0 .. (total - 1) : Page(S, n * limit, limit) # {}
         /\ \A n \in Nat : Cardinality(Page(S, n * limit, limit)) <= limit
<1>1. Cardinality(S) \in Nat /\ \A x : Cardinality(Before(S, x)) \in Nat
  BY CountParts, FirstPage
<1>2. total \in Nat /\ Cardinality(S) <= total * limit /\ total * limit \in Nat
  <2>1. total \in Nat /\ Cardinality(S) <= total * limit
    BY <1>1, PagesHoldAll
  <2> QED
    BY <2>1, NextTimes
<1>3. ASSUME NEW x \in S
      PROVE  \E n \in 0 .. (total - 1) :
               \A m \in Nat : x \in Page(S, m * limit, limit) <=> m = n
  <2> DEFINE b == Cardinality(Before(S, x))
             n == b \div limit
  <2>1. b \in Nat /\ limit \in Nat /\ limit > 0
    BY <1>1
  <2>2. b < Cardinality(S)
    <3>1. Before(S, x) \in SUBSET S /\ x \in S /\ x \notin Before(S, x)
      BY DEF Before
    <3>2. Before(S, x) \union {x} \in SUBSET S
      BY <3>1
    <3>3. IsFiniteSet(Before(S, x))
      BY <3>1, CountParts
    <3>4. Cardinality(Before(S, x) \union {x}) = b + 1
      BY <3>1, <3>3, CountParts
    <3>5. Cardinality(Before(S, x) \union {x}) <= Cardinality(S)
      BY <3>2, CountParts
    <3> HIDE DEF b
    <3> QED
      BY <1>1, <2>1, <3>4, <3>5
  <2>3. \A m \in Nat : x \in Page(S, m * limit, limit) <=> m * limit <= b /\ b < m * limit + limit
    BY DEF Page
  <2> HIDE DEF b
  <2>4. n \in Nat /\ n * limit <= b /\ b < (n + 1) * limit
    BY <2>1
  <2> HIDE DEF n
  <2>5. \A m \in Nat : (m + 1) * limit = m * limit + limit /\ m * limit \in Nat
    BY <2>1, NextTimes
  <2>6. ASSUME NEW m \in Nat, NEW p \in Nat, m * limit <= b, b < p * limit + limit
        PROVE  m <= p
    <3>1. SUFFICES ASSUME p + 1 <= m PROVE FALSE
      OBVIOUS
    <3>2. (p + 1) * limit <= m * limit
      BY <2>1, <3>1, TimesGrows
    <3> QED
      BY <2>1, <2>5, <2>6, <3>2
  <2>7. n \in 0 .. (total - 1)
    <3>1. SUFFICES ASSUME total <= n PROVE FALSE
      BY <1>2, <2>4
    <3>2. total * limit <= n * limit
      BY <1>2, <2>1, <2>4, <3>1, TimesGrows
    <3> QED
      BY <1>1, <1>2, <2>1, <2>2, <2>4, <2>5, <3>2
  <2>8. \A m \in Nat : m * limit <= b /\ b < m * limit + limit <=> m = n
    <3>1. SUFFICES ASSUME NEW m \in Nat
          PROVE  (m * limit <= b /\ b < m * limit + limit) <=> m = n
      OBVIOUS
    <3>2. n * limit <= b /\ b < n * limit + limit
      BY <2>4, <2>5
    <3>3. m * limit <= b /\ b < m * limit + limit => m <= n /\ n <= m
      BY <2>4, <2>6, <3>2
    <3> QED
      BY <2>4, <3>2, <3>3
  <2> QED
    BY <2>3, <2>7, <2>8
<1>4. ASSUME NEW n \in 0 .. (total - 1) PROVE Page(S, n * limit, limit) # {}
  <2>1. n * limit < Cardinality(S) /\ n * limit \in Nat
    BY <1>1, <1>2, PagesAreNeeded
  <2>2. PICK x \in S : Cardinality(Before(S, x)) = n * limit
    BY <2>1, NextAfter
  <2>3. n * limit <= n * limit /\ n * limit < n * limit + limit
    BY <2>1
  <2> QED
    BY <2>2, <2>3 DEF Page
<1>5. ASSUME NEW n \in Nat PROVE Cardinality(Page(S, n * limit, limit)) <= limit
  <2>1. n * limit \in Nat
    BY NextTimes
  <2> QED
    BY <2>1, PageIsLimited
<1> QED
  BY <1>3, <1>4, <1>5
=============================================================================
