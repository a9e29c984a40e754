-------------------------- MODULE TrustStoreProofs --------------------------
(***************************************************************************)
(* Proofs about TrustStore: for any requests, ids, features, intervals and *)
(* queries, any integer widths and any size of the table.                  *)
(***************************************************************************)
EXTENDS TrustStore, FiniteSetTheorems, SequenceTheorems, TLAPS

-----------------------------------------------------------------------------
(* Conversions and statements.                                             *)

\* Converting a feature gives an integer.
LEMMA SignedType ==
    ASSUME NEW n \in Nat, NEW span \in Nat \ {0}
    PROVE  Signed(n, span) \in Int
BY DEF Signed

\* add() inserts a row.
LEMMA RowOfType ==
    ASSUME NEW r \in Requests, NEW from \in Ids \ {EmptyId}
    PROVE  RowOf(r, from) \in Row
<1>1. r.feature \in Nat /\ r.when \in Int /\ r.answer \in Answer
  BY StoreAssumption
<1>2. AsInt32(r.feature) \in Int
  BY <1>1, SignedType, SpanAssumption DEF AsInt32
<1> QED
  BY <1>1, <1>2 DEF RowOf, Row

\* A function over an interval from 1 is a sequence.
LEMMA IntervalSeq ==
    ASSUME NEW S, NEW k \in Nat, NEW f \in [1..k -> S]
    PROVE  f \in Seq(S) /\ DOMAIN f = 1..k
OBVIOUS

\* What SELECT lists: some of the rows of the table, each of which matches,
\* newest first and none twice.
LEMMA ListingFacts ==
    ASSUME NEW table, NEW narrowing,
           DOMAIN table \subseteq 1..MaxId,
           table \in [DOMAIN table -> Row],
           NEW l \in Listings(table, narrowing)
    PROVE  /\ l \in Seq(DOMAIN table)
           /\ \A n \in DOMAIN l : Matches(table[l[n]], narrowing)
           /\ \A m, n \in DOMAIN l : m < n =>
                 l[m] # l[n] /\ table[l[m]].when >= table[l[n]].when
<1> DEFINE found == Selected(table, narrowing)
<1>1. found \subseteq 1..MaxId
  BY DEF Selected
<1>2. IsFiniteSet(1..MaxId)
  BY FS_Interval, StoreAssumption
<1>3. IsFiniteSet(found)
  BY <1>1, <1>2, FS_Subset
<1>4. Cardinality(found) \in Nat
  BY <1>3, FS_CardinalityType
<1>5. l \in [1..Cardinality(found) -> found]
  BY DEF Listings
<1>6. l \in Seq(DOMAIN table)
  <2>1. l \in [1..Cardinality(found) -> DOMAIN table]
    BY <1>5 DEF Selected
  <2> QED
    BY ONLY <1>4, <2>1, IntervalSeq
<1>7. \A n \in DOMAIN l : Matches(table[l[n]], narrowing) /\ l[n] \in DOMAIN table
  BY <1>5 DEF Selected
<1>8. \A m, n \in DOMAIN l : m < n => Precedes(table, l[m], l[n])
  BY DEF Listings
<1>9. \A m, n \in DOMAIN l : m < n => l[m] # l[n] /\ table[l[m]].when >= table[l[n]].when
  <2> SUFFICES ASSUME NEW m \in DOMAIN l, NEW n \in DOMAIN l, m < n
               PROVE  l[m] # l[n] /\ table[l[m]].when >= table[l[n]].when
    OBVIOUS
  <2>1. l[m] \in DOMAIN table /\ l[n] \in DOMAIN table
    BY <1>7
  <2>2. table[l[m]].when \in Int /\ table[l[n]].when \in Int
    BY <2>1 DEF Row
  <2>3. l[m] \in Int /\ l[n] \in Int
    BY <2>1
  <2> QED
    BY <1>8, <2>2, <2>3 DEF Precedes
<1> QED
  BY <1>6, <1>7, <1>9
-----------------------------------------------------------------------------
(* Query states.                                                           *)

\* ResultsMatchNarrowing, ResultsNewestFirst and ResultsAreReported, of one
\* query.  None of the three is inductive alone: a query can be narrowed only
\* when its statement is ready, and that says that it has no results left only
\* through ResultsAreReported.
Sound(s) ==
    /\ \A n \in DOMAIN s.results : Matches(s.results[n].row, s.narrowing)
    /\ \A m, n \in DOMAIN s.results : m < n =>
          /\ s.results[m].id # s.results[n].id
          /\ s.results[m].row.when >= s.results[n].row.when
    /\ s.statement = "row" <=> s.results # <<>>
    /\ s.statement = "row" => s.status = "has_more_results"
    /\ s.statement = "done" => s.status = "eor"

QueryOK(s) == s \in QueryState /\ Sound(s)

LEMMA NewQueryOK == QueryOK(NewQuery)
<1>1. Unnarrowed \in Narrowing
  BY DEF Unnarrowed, Narrowing
<1>2. NewQuery \in QueryState
  BY <1>1 DEF NewQuery, QueryState
<1>3. Sound(NewQuery)
  BY DEF NewQuery, Sound
<1> QED
  BY <1>2, <1>3 DEF QueryOK

\* reset() of the select statement, and a failure of its step.
LEMMA RewoundOK ==
    ASSUME NEW s, QueryOK(s)
    PROVE  /\ QueryOK(Rewound(s))
           /\ QueryOK(StepFailed(s))
           /\ QueryOK([Rewound(s) EXCEPT !.narrowing = Unnarrowed])
<1>1. Unnarrowed \in Narrowing
  BY DEF Unnarrowed, Narrowing
<1>2. Rewound(s) \in QueryState /\ StepFailed(s) \in QueryState
  <2>1. <<>> \in Seq(Result)
    BY EmptySeq
  <2>2. s \in QueryState
    BY DEF QueryOK
  <2>3. Rewound(s) \in QueryState
    BY <2>1, <2>2 DEF Rewound, QueryState
  <2>4. StepFailed(s) \in QueryState
    BY <2>1, <2>2 DEF StepFailed, QueryState
  <2> QED
    BY <2>3, <2>4
<1>4. [Rewound(s) EXCEPT !.narrowing = Unnarrowed] \in QueryState
  BY <1>1, <1>2 DEF QueryState
<1>3. Sound(Rewound(s)) /\ Sound(StepFailed(s))
      /\ Sound([Rewound(s) EXCEPT !.narrowing = Unnarrowed])
  BY DEF QueryOK, Rewound, StepFailed, QueryState, Sound
<1> QED
  BY <1>2, <1>3, <1>4 DEF QueryOK

\* Narrowing, which needs a ready statement.
LEMMA NarrowedOK ==
    ASSUME NEW s, QueryOK(s), s.statement = "ready", NEW n \in Narrowing
    PROVE  QueryOK([s EXCEPT !.narrowing = n])
<1>1. s.results = <<>>
  BY DEF QueryOK, Sound
<1>2. [s EXCEPT !.narrowing = n] \in QueryState
  BY DEF QueryOK, QueryState
<1>3. Sound([s EXCEPT !.narrowing = n])
  BY <1>1 DEF QueryOK, QueryState, Sound
<1> QED
  BY <1>2, <1>3 DEF QueryOK

\* step() with some results left, the current one included.
LEMMA SteppedOK ==
    ASSUME NEW s, QueryOK(s), NEW left \in Seq(Result),
           \A n \in DOMAIN left : Matches(left[n].row, s.narrowing),
           \A m, n \in DOMAIN left : m < n =>
              left[m].id # left[n].id /\ left[m].row.when >= left[n].row.when
    PROVE  QueryOK(Stepped(s, left))
<1>1. Stepped(s, left) \in QueryState
  BY DEF QueryOK, QueryState, Stepped
<1>2. Sound(Stepped(s, left))
  BY DEF QueryOK, QueryState, Stepped, Sound
<1> QED
  BY <1>1, <1>2 DEF QueryOK

\* step() against a table, whether it starts the query or goes on with it.
LEMMA StepsOK ==
    ASSUME NEW s, QueryOK(s), NEW table,
           DOMAIN table \subseteq 1..MaxId, table \in [DOMAIN table -> Row],
           NEW t \in Steps(s, table)
    PROVE  QueryOK(t)
<1>1. CASE s.statement = "row"
  <2> DEFINE r == s.results
  <2>1. r \in Seq(Result) /\ r # <<>>
    BY <1>1 DEF QueryOK, QueryState, Sound
  <2>2. /\ Tail(r) \in Seq(Result)
        /\ Len(Tail(r)) = Len(r) - 1
        /\ \A n \in 1..Len(Tail(r)) : Tail(r)[n] = r[n + 1]
    BY <2>1, HeadTailProperties
  <2>3. DOMAIN r = 1..Len(r) /\ Len(r) \in Nat /\ DOMAIN Tail(r) = 1..Len(Tail(r))
    BY <2>1, <2>2
  <2>4. \A n \in DOMAIN Tail(r) : n + 1 \in DOMAIN r /\ Tail(r)[n] = r[n + 1]
    BY <2>2, <2>3
  <2>5. \A n \in DOMAIN Tail(r) : Matches(Tail(r)[n].row, s.narrowing)
    BY <2>4 DEF QueryOK, Sound
  <2>6. \A m, n \in DOMAIN Tail(r) : m < n =>
           Tail(r)[m].id # Tail(r)[n].id /\ Tail(r)[m].row.when >= Tail(r)[n].row.when
    <3> SUFFICES ASSUME NEW m \in DOMAIN Tail(r), NEW n \in DOMAIN Tail(r), m < n
                 PROVE  Tail(r)[m].id # Tail(r)[n].id /\ Tail(r)[m].row.when >= Tail(r)[n].row.when
      OBVIOUS
    <3>1. m + 1 \in DOMAIN r /\ n + 1 \in DOMAIN r /\ m + 1 < n + 1
      BY <2>3, <2>4
    <3>2. r[m + 1].id # r[n + 1].id /\ r[m + 1].row.when >= r[n + 1].row.when
      BY <3>1 DEF QueryOK, Sound
    <3> QED
      BY <2>4, <3>2
  <2>7. t = Stepped(s, Tail(r))
    BY <1>1 DEF Steps
  <2> HIDE DEF r
  <2> QED
    BY <2>2, <2>5, <2>6, <2>7, SteppedOK
<1>2. CASE s.statement # "row"
  <2>1. PICK l \in Listings(table, s.narrowing) :
           t = Stepped(s, [n \in DOMAIN l |-> [id |-> l[n], row |-> table[l[n]]]])
    BY <1>2 DEF Steps
  <2> DEFINE left == [n \in DOMAIN l |-> [id |-> l[n], row |-> table[l[n]]]]
  <2>2. /\ l \in Seq(DOMAIN table)
        /\ \A n \in DOMAIN l : Matches(table[l[n]], s.narrowing)
        /\ \A m, n \in DOMAIN l : m < n => l[m] # l[n] /\ table[l[m]].when >= table[l[n]].when
    BY ListingFacts
  <2>3. DOMAIN l = 1..Len(l) /\ Len(l) \in Nat /\ \A n \in DOMAIN l : l[n] \in DOMAIN table
    BY <2>2
  <2>4. left \in [1..Len(l) -> Result]
    BY <2>3 DEF Result
  <2>5. left \in Seq(Result)
    BY ONLY <2>3, <2>4, IntervalSeq
  <2>6. \A n \in DOMAIN left : Matches(left[n].row, s.narrowing)
    BY <2>2
  <2>7. \A m, n \in DOMAIN left : m < n =>
           left[m].id # left[n].id /\ left[m].row.when >= left[n].row.when
    BY <2>2
  <2> HIDE DEF left
  <2> QED
    BY <2>1, <2>5, <2>6, <2>7, SteppedOK DEF left
<1> QED
  BY <1>1, <1>2

-----------------------------------------------------------------------------
(* The inductive invariant.                                                *)

\* The part of TypeOK about the table and the store's statements.
TableOK ==
    /\ DOMAIN rows \subseteq 1..MaxId /\ rows \in [DOMAIN rows -> Row]
    /\ insert_from \in (Ids \ {EmptyId}) \cup {Null}
    /\ remove_from \in (Ids \ {EmptyId}) \cup {Null}
    /\ failed \subseteq StoreStatement

FileOK ==
    /\ phase \in {"closed", "upgrading", "open"}
    /\ version \in {0, 1}
    /\ created \in BOOLEAN
    /\ OpenedStoreIsUpgraded
    /\ phase = "upgrading" => created

QueriesOK ==
    /\ query \in [Queries -> QueryState \cup {Null}]
    /\ \A q \in Queries : query[q] # Null => QueryOK(query[q])

IInv == TableOK /\ FileOK /\ QueriesOK

\* Rows go: the table keeps its type.
LEMMA KeepOK ==
    ASSUME TableOK, NEW S
    PROVE  DOMAIN Keep(S) \subseteq DOMAIN rows /\ Keep(S) \in [DOMAIN Keep(S) -> Row]
BY DEF TableOK, Keep, Restrict

\* One query changes, to a state that is sound.
LEMMA UpdateOK ==
    ASSUME QueriesOK, NEW q \in Queries, NEW t, t = Null \/ QueryOK(t),
           query' = [query EXCEPT ![q] = t]
    PROVE  QueriesOK'
BY DEF QueriesOK, QueryOK

\* An id that bind_text binds.
LEMMA BindTextType ==
    ASSUME NEW bound \in (Ids \ {EmptyId}) \cup {Null}, NEW s \in Ids
    PROVE  BindText(bound, s) \in (Ids \ {EmptyId}) \cup {Null}
BY DEF BindText

LEMMA InitOK == Init => IInv
<1> SUFFICES ASSUME Init PROVE IInv
  OBVIOUS
<1>1. TableOK
  BY DEF Init, TableOK, EmptyTable
<1>2. FileOK
  <2>1. phase = "closed" /\ version = 0 /\ created \in BOOLEAN /\ rows = EmptyTable
    BY DEF Init
  <2> QED
    BY <2>1 DEF FileOK, OpenedStoreIsUpgraded
<1>3. QueriesOK
  BY DEF Init, QueriesOK
<1> QED
  BY <1>1, <1>2, <1>3 DEF IInv

\* The operations of Store.
LEMMA StoreStepOK ==
    ASSUME IInv, NextStore
    PROVE  IInv'
<1> USE DEF IInv
<1>a. CASE Open
  <2>1. TableOK'
    BY <1>a DEF Open, TableOK, statements
  <2>2. FileOK'
    BY <1>a DEF Open, FileOK, OpenedStoreIsUpgraded
  <2>3. QueriesOK'
    BY <1>a DEF Open, QueriesOK
  <2> QED
    BY <2>1, <2>2, <2>3
<1>b. CASE SetVersion
  <2>1. TableOK'
    BY <1>b DEF SetVersion, TableOK, statements
  <2>2. FileOK'
    BY <1>b DEF SetVersion, FileOK, OpenedStoreIsUpgraded
  <2>3. QueriesOK'
    BY <1>b DEF SetVersion, QueriesOK
  <2> QED
    BY <2>1, <2>2, <2>3
<1>c. CASE Close
  <2>1. TableOK'
    BY <1>c DEF Close, TableOK, file
  <2>2. FileOK'
    BY <1>c DEF Close, FileOK, OpenedStoreIsUpgraded, file
  <2>3. QueriesOK'
    BY <1>c DEF Close, QueriesOK
  <2> QED
    BY <2>1, <2>2, <2>3
<1>d. CASE ResetOk
  <2>1. TableOK'
    BY <1>d DEF ResetOk, TableOK, statements, EmptyTable
  <2>2. FileOK'
    BY <1>d DEF ResetOk, FileOK, OpenedStoreIsUpgraded
  <2>3. QueriesOK'
    BY <1>d DEF ResetOk, QueriesOK
  <2> QED
    BY <2>1, <2>2, <2>3
<1>e. CASE ResetFails
  <2>1. TableOK'
    BY <1>e DEF ResetFails, ResetThrows, StepThrows, TableOK, file, StoreStatement
  <2>2. FileOK'
    BY <1>e DEF ResetFails, ResetThrows, StepThrows, FileOK, OpenedStoreIsUpgraded, file
  <2>3. QueriesOK'
    BY <1>e DEF ResetFails, ResetThrows, StepThrows, QueriesOK
  <2> QED
    BY <2>1, <2>2, <2>3
<1>f. ASSUME NEW r \in Requests, AddOk(r)
      PROVE  IInv'
  <2>1. r.from \in Ids
    BY DEF Ids
  <2>2. insert_from' \in Ids \ {EmptyId}
    BY <1>f, <2>1, BindTextType DEF AddOk, TableOK
  <2>3. RowOf(r, insert_from') \in Row
    BY <2>2, RowOfType
  <2>4. PICK id \in 1..MaxId :
           rows' = [i \in DOMAIN rows \cup {id} |->
                      IF i = id THEN RowOf(r, insert_from') ELSE rows[i]]
    BY <1>f DEF AddOk
  <2>5. TableOK'
    BY <1>f, <2>2, <2>3, <2>4 DEF AddOk, TableOK
  <2>6. FileOK'
    BY <1>f DEF AddOk, FileOK, OpenedStoreIsUpgraded
  <2>7. QueriesOK'
    BY <1>f DEF AddOk, QueriesOK
  <2> QED
    BY <2>5, <2>6, <2>7
<1>g. ASSUME NEW r \in Requests, AddFails(r)
      PROVE  IInv'
  <2>1. r.from \in Ids
    BY DEF Ids
  <2>2. BindText(insert_from, r.from) \in (Ids \ {EmptyId}) \cup {Null}
    BY <2>1, BindTextType DEF TableOK
  <2>3. TableOK'
    BY <1>g, <2>2 DEF AddFails, ResetThrows, StepThrows, TableOK, file, StoreStatement
  <2>4. FileOK'
    BY <1>g DEF AddFails, ResetThrows, StepThrows, FileOK, OpenedStoreIsUpgraded, file
  <2>5. QueriesOK'
    BY <1>g DEF AddFails, ResetThrows, StepThrows, QueriesOK
  <2> QED
    BY <2>3, <2>4, <2>5
<1>h. ASSUME NEW id \in AppIds, RemoveApplicationOk(id)
      PROVE  IInv'
  <2>1. id \in Ids
    BY DEF Ids
  <2>2. remove_from' \in (Ids \ {EmptyId}) \cup {Null}
    BY <1>h, <2>1, BindTextType DEF RemoveApplicationOk, TableOK
  <2>3. TableOK'
    BY <1>h, <2>2, KeepOK DEF RemoveApplicationOk, TableOK
  <2>4. FileOK'
    <3>1. ~created => rows' = EmptyTable
      BY <1>h DEF RemoveApplicationOk, FileOK, OpenedStoreIsUpgraded
    <3> QED
      BY <1>h, <3>1 DEF RemoveApplicationOk, FileOK, OpenedStoreIsUpgraded
  <2>5. QueriesOK'
    BY <1>h DEF RemoveApplicationOk, QueriesOK
  <2> QED
    BY <2>3, <2>4, <2>5
<1>i. ASSUME NEW id \in AppIds, RemoveApplicationFails(id)
      PROVE  IInv'
  <2>1. id \in Ids
    BY DEF Ids
  <2>2. BindText(remove_from, id) \in (Ids \ {EmptyId}) \cup {Null}
    BY <2>1, BindTextType DEF TableOK
  <2>3. TableOK'
    BY <1>i, <2>2 DEF RemoveApplicationFails, ResetThrows, StepThrows, TableOK, file, StoreStatement
  <2>4. FileOK'
    BY <1>i DEF RemoveApplicationFails, ResetThrows, StepThrows, FileOK, OpenedStoreIsUpgraded, file
  <2>5. QueriesOK'
    BY <1>i DEF RemoveApplicationFails, ResetThrows, StepThrows, QueriesOK
  <2> QED
    BY <2>3, <2>4, <2>5
<1> QED
  BY <1>a, <1>b, <1>c, <1>d, <1>e, <1>f, <1>g, <1>h, <1>i DEF NextStore

\* What an operation of a query leaves alone, unless it erases.
LEMMA QueryStepFrame ==
    ASSUME IInv, UNCHANGED <<phase, file, statements>>
    PROVE  TableOK' /\ FileOK'
BY DEF IInv, TableOK, FileOK, OpenedStoreIsUpgraded, file, statements

\* for_application_id() and its like.
LEMMA NarrowOK ==
    ASSUME IInv, NEW q \in Queries, NEW n,
           query[q] \in QueryState => n \in Narrowing, Narrow(q, n)
    PROVE  IInv'
<1>1. QueryOK(query[q]) /\ query[q].statement = "ready"
  BY DEF IInv, QueriesOK, Narrow
<1>2. n \in Narrowing
  BY <1>1 DEF QueryOK
<1>3. query' = [query EXCEPT ![q] = [query[q] EXCEPT !.narrowing = n]]
  BY DEF Narrow
<1>4. QueryOK([query[q] EXCEPT !.narrowing = n])
  BY <1>1, <1>2, NarrowedOK
<1>5. QueriesOK'
  BY <1>3, <1>4, UpdateOK DEF IInv
<1>6. UNCHANGED <<phase, file, statements>>
  BY DEF Narrow
<1> QED
  BY <1>5, <1>6, QueryStepFrame DEF IInv

\* The operations of Query.
LEMMA QueryStepOK ==
    ASSUME IInv, NEW q \in Queries, NextQuery(q)
    PROVE  IInv'
<1>t. query[q] # Null => QueryOK(query[q]) /\ query[q].narrowing \in Narrowing
  BY DEF IInv, QueriesOK, QueryOK, QueryState
<1>n. query[q] \in QueryState => query[q].narrowing \in Narrowing
  BY DEF QueryState
<1>r. DOMAIN rows \subseteq 1..MaxId /\ rows \in [DOMAIN rows -> Row]
  BY DEF IInv, TableOK
<1>a. CASE CreateQuery(q)
  <2>1. QueriesOK'
    BY <1>a, NewQueryOK, UpdateOK DEF CreateQuery, IInv
  <2> QED
    BY <1>a, <2>1, QueryStepFrame DEF CreateQuery, IInv
<1>b. CASE DestroyQuery(q)
  <2>1. QueriesOK'
    BY <1>b, UpdateOK DEF DestroyQuery, IInv
  <2> QED
    BY <1>b, <2>1, QueryStepFrame DEF DestroyQuery, IInv
<1>c. ASSUME NEW id \in AppIds, ForApplicationId(q, id)
      PROVE  IInv'
  <2> DEFINE n == [query[q].narrowing EXCEPT !.app = BindText(@, id)]
  <2>1. query[q] \in QueryState => n \in Narrowing
    BY <1>n DEF Narrowing, BindText
  <2>2. Narrow(q, n)
    BY <1>c DEF ForApplicationId
  <2> HIDE DEF n
  <2> QED
    BY <2>1, <2>2, NarrowOK
<1>d. ASSUME NEW f \in Features, ForFeature(q, f)
      PROVE  IInv'
  <2> DEFINE n == [query[q].narrowing EXCEPT !.feature = AsInt64(f)]
  <2>1. AsInt64(f) \in Int
    BY SignedType, SpanAssumption, StoreAssumption DEF AsInt64
  <2>2. query[q] \in QueryState => n \in Narrowing
    BY <1>n, <2>1 DEF Narrowing
  <2>3. Narrow(q, n)
    BY <1>d DEF ForFeature
  <2> HIDE DEF n
  <2> QED
    BY <2>2, <2>3, NarrowOK
<1>e. ASSUME NEW i \in Intervals, ForInterval(q, i)
      PROVE  IInv'
  <2> DEFINE n == [query[q].narrowing EXCEPT !.interval = i]
  <2>1. i \in Int \X Int
    BY StoreAssumption
  <2>2. query[q] \in QueryState => n \in Narrowing
    BY <1>n, <2>1 DEF Narrowing
  <2>3. Narrow(q, n)
    BY <1>e DEF ForInterval
  <2> HIDE DEF n
  <2> QED
    BY <2>2, <2>3, NarrowOK
<1>f. ASSUME NEW a \in Answer, ForAnswer(q, a)
      PROVE  IInv'
  <2> DEFINE n == [query[q].narrowing EXCEPT !.answer = a]
  <2>1. query[q] \in QueryState => n \in Narrowing
    BY <1>n DEF Narrowing
  <2>2. Narrow(q, n)
    BY <1>f DEF ForAnswer
  <2> HIDE DEF n
  <2> QED
    BY <2>1, <2>2, NarrowOK
<1>g. CASE CreateQueryThrows(q) \/ NarrowThrows(q) \/ Current(q) \/ CurrentThrows(q)
  <2>1. UNCHANGED <<phase, file, statements, query>>
    BY <1>g DEF CreateQueryThrows, NarrowThrows, Current, CurrentThrows
  <2>2. QueriesOK'
    BY <2>1 DEF IInv, QueriesOK
  <2> QED
    BY <2>1, <2>2, QueryStepFrame DEF IInv
<1>h. CASE All(q)
  <2>1. QueriesOK'
    BY <1>h, <1>t, RewoundOK, UpdateOK DEF All, IInv
  <2> QED
    BY <1>h, <2>1, QueryStepFrame DEF All, IInv
<1>i. CASE RewindThrows(q, "all") \/ RewindThrows(q, "execute")
  <2>1. QueriesOK'
    BY <1>i, <1>t, RewoundOK, UpdateOK DEF RewindThrows, IInv
  <2> QED
    BY <1>i, <2>1, QueryStepFrame DEF RewindThrows, IInv
<1>j. CASE Execute(q)
  <2>1. PICK s : (s \in Steps(Rewound(query[q]), rows) \/ s = StepFailed(query[q]))
                 /\ query' = [query EXCEPT ![q] = s]
    BY <1>j DEF Execute
  <2>2. QueryOK(query[q])
    BY <1>j, <1>t DEF Execute
  <2>3. QueryOK(s)
    BY <2>1, <2>2, <1>r, RewoundOK, StepsOK
  <2>4. QueriesOK'
    BY <2>1, <2>3, UpdateOK DEF IInv
  <2> QED
    BY <1>j, <2>4, QueryStepFrame DEF Execute, IInv
<1>k. CASE Next(q)
  <2>1. PICK s : (s \in Steps(query[q], rows) \/ s = StepFailed(query[q]))
                 /\ query' = [query EXCEPT ![q] = s]
    BY <1>k DEF Next
  <2>2. QueryOK(query[q])
    BY <1>k, <1>t DEF Next
  <2>3. QueryOK(s)
    BY <2>1, <2>2, <1>r, RewoundOK, StepsOK
  <2>4. QueriesOK'
    BY <2>1, <2>3, UpdateOK DEF IInv
  <2> QED
    BY <1>k, <2>4, QueryStepFrame DEF Next, IInv
<1>l. CASE Erase(q)
  <2>1. PICK s : (s \in Steps(query[q], rows') \/ s = StepFailed(query[q]))
                 /\ query' = [query EXCEPT ![q] = s]
    BY <1>l DEF Erase
  <2>2. QueryOK(query[q])
    BY <1>l, <1>t DEF Erase
  <2>3. DOMAIN rows' \subseteq DOMAIN rows /\ rows' \in [DOMAIN rows' -> Row]
    BY <1>l, KeepOK DEF Erase, IInv
  <2>4. QueryOK(s)
    BY <2>1, <2>2, <2>3, <1>r, RewoundOK, StepsOK
  <2>5. QueriesOK'
    BY <2>1, <2>4, UpdateOK DEF IInv
  <2>6. TableOK'
    BY <1>l, <2>3, <1>r DEF Erase, IInv, TableOK, statements
  <2>7. FileOK'
    <3>1. ~created => rows' = EmptyTable
      BY <1>l DEF Erase, IInv, FileOK, OpenedStoreIsUpgraded, Keep, Restrict, EmptyTable
    <3> QED
      BY <1>l, <3>1 DEF Erase, IInv, FileOK, OpenedStoreIsUpgraded
  <2> QED
    BY <2>5, <2>6, <2>7 DEF IInv
<1>m. CASE EraseThrows(q)
  <2>1. QueryOK(query[q])
    BY <1>m, <1>t DEF EraseThrows
  <2>2. QueryOK([query[q] EXCEPT !.delete_failed = ~@])
    BY <2>1 DEF QueryOK, QueryState, Sound
  <2>3. UNCHANGED query \/ query' = [query EXCEPT ![q] = [query[q] EXCEPT !.delete_failed = ~@]]
    BY <1>m DEF EraseThrows
  <2>4. QueriesOK'
    <3>1. CASE UNCHANGED query
      BY <3>1 DEF IInv, QueriesOK
    <3>2. CASE query' = [query EXCEPT ![q] = [query[q] EXCEPT !.delete_failed = ~@]]
      BY <3>2, <2>2, UpdateOK DEF IInv
    <3> QED
      BY <2>3, <3>1, <3>2
  <2> QED
    BY <1>m, <2>4, QueryStepFrame DEF EraseThrows, IInv
<1> QED
  BY <1>a, <1>b, <1>c, <1>d, <1>e, <1>f, <1>g, <1>h, <1>i, <1>j, <1>k, <1>l, <1>m DEF NextQuery

\* IInv is an invariant of the store.
THEOREM StoreInvariant == Spec => []IInv
<1>1. Init => IInv
  BY InitOK
<1>2. IInv /\ [NextStep]_vars => IInv'
  <2> SUFFICES ASSUME IInv, [NextStep]_vars PROVE IInv'
    OBVIOUS
  <2>1. CASE UNCHANGED vars
    BY <2>1 DEF vars, file, statements, IInv, TableOK, FileOK, OpenedStoreIsUpgraded, QueriesOK
  <2>2. CASE NextStore
    BY <2>2, StoreStepOK
  <2>3. CASE \E q \in Queries : NextQuery(q)
    BY <2>3, QueryStepOK
  <2> QED
    BY <2>1, <2>2, <2>3 DEF NextStep
<1> QED
  BY <1>1, <1>2, PTL DEF Spec

\* Every variable keeps its type: the store.cpp operations never store an
\* empty or unbound application id, whatever ids they are called with.
THEOREM StoreTypeOK == Spec => []TypeOK
<1>1. IInv => TypeOK
  BY DEF IInv, TableOK, FileOK, QueriesOK, TypeOK
<1> QED
  BY <1>1, StoreInvariant, PTL

\* A store that finished opening is upgraded, whenever its process crashed.
THEOREM StoreOpenedIsUpgraded == Spec => []OpenedStoreIsUpgraded
<1>1. IInv => OpenedStoreIsUpgraded
  BY DEF IInv, FileOK
<1> QED
  BY <1>1, StoreInvariant, PTL

\* Whatever a running query has left to deliver matches its narrowing, comes
\* newest first, and is announced by its status as long as there is any.
THEOREM StoreResults ==
    Spec => [](ResultsMatchNarrowing /\ ResultsNewestFirst /\ ResultsAreReported)
<1>1. IInv => ResultsMatchNarrowing /\ ResultsNewestFirst /\ ResultsAreReported
  BY DEF IInv, QueriesOK, QueryOK, Sound, ResultsMatchNarrowing, ResultsNewestFirst,
         ResultsAreReported
<1> QED
  BY <1>1, StoreInvariant, PTL

\* Query::next() delivers the rows in the order of their time stamps, the newest
\* first, whatever other clients add, remove or reset meanwhile (store.cpp, the
\* ORDER BY of the SELECT statement).
COROLLARY StoreResultsNewestFirst == Spec => []ResultsNewestFirst
BY StoreResults, PTL

\* A client that loops on status() misses no result and does not run past the end:
\* a statement at a row reports has_more_results, one that ran to its end eor
\* (store.cpp, Query::execute, next and erase).  The theorem leaves out what a query
\* reports after all() or a failed step, where TLC shows the status to be wrong.
COROLLARY StoreResultsAreReported == Spec => []ResultsAreReported
BY StoreResults, PTL

-----------------------------------------------------------------------------
(* The store implements RequestStore, for clients that                     *)
(*   - use no empty application id, which bind_text would not bind, and    *)
(*   - use features that an std::int32_t can hold.                         *)

PlainIds == EmptyId \notin Ids

NarrowFeatures == \A r \in Requests : r.feature < Int32Span \div 2

\* A narrow feature survives the way into the table and back.
LEMMA FeatureReadBack ==
    ASSUME NEW f \in Nat, f < Int32Span \div 2
    PROVE  AsUint64(AsInt32(f)) = f
<1>1. Int32Span \in Nat /\ Int64Span \in Nat /\ Int32Span > 0 /\ Int32Span <= Int64Span
  BY SpanAssumption
<1>2. Int32Span \div 2 <= Int32Span
  BY <1>1
<1>3. 0 <= f /\ f < Int32Span /\ f < Int64Span
  BY <1>1, <1>2
<1>4. f % Int32Span = f /\ f % Int64Span = f
  BY <1>1, <1>3
<1> QED
  BY <1>4 DEF AsInt32, AsUint64, Signed

\* What is read back of a request is the request.
LEMMA RequestReadBack ==
    ASSUME NarrowFeatures, NEW r \in Requests
    PROVE  RequestOf(RowOf(r, r.from)) = r
<1>1. r \in [from : {x.from : x \in Requests}, feature : Nat, when : Int, answer : Answer]
  BY StoreAssumption
<1>2. AsUint64(AsInt32(r.feature)) = r.feature
  BY <1>1, FeatureReadBack DEF NarrowFeatures
<1>3. RequestOf(RowOf(r, r.from)) =
        [from |-> r.from, feature |-> AsUint64(AsInt32(r.feature)), when |-> r.when, answer |-> r.answer]
  BY DEF RequestOf, RowOf
<1> QED
  BY <1>1, <1>2, <1>3

\* A step that leaves the table alone, and whose call promised no change.
LEMMA ObserveStep ==
    ASSUME rows' = rows,
           call'.op \in {"add", "reset", "remove_application"} => call'.thrown
    PROVE  Abstract!Next
<1>1. AsRequests' = AsRequests
  BY DEF AsRequests
<1> QED
  BY <1>1 DEF Abstract!Next, Abstract!Observe

LEMMA AddStep ==
    ASSUME PlainIds, NarrowFeatures, IInv, NEW r \in Requests, AddOk(r)
    PROVE  Abstract!Next
<1>1. r.from # EmptyId
  BY DEF PlainIds, Ids
<1>2. insert_from' = r.from
  BY <1>1 DEF AddOk, BindText
<1>3. PICK id \in 1..MaxId :
         /\ IsNextId(id, rows)
         /\ rows' = [i \in DOMAIN rows \cup {id} |-> IF i = id THEN RowOf(r, r.from) ELSE rows[i]]
  BY <1>2 DEF AddOk
<1>4. id \notin DOMAIN rows
  <2>1. \A i \in DOMAIN rows : i < id
    BY <1>3 DEF IsNextId
  <2> QED
    BY <2>1
<1>5. AsRequests' = [i \in DOMAIN AsRequests \cup {id} |-> IF i = id THEN r ELSE AsRequests[i]]
  BY <1>3, <1>4, RequestReadBack DEF AsRequests
<1>6. id \in DOMAIN AsRequests' \ DOMAIN AsRequests
  BY <1>4, <1>5 DEF AsRequests
<1>7. Abstract!Add(r)
  BY <1>5, <1>6 DEF AddOk, AddCall, Abstract!Add
<1> QED
  BY <1>7 DEF Abstract!Next

LEMMA RemoveStep ==
    ASSUME PlainIds, IInv, NEW a \in AppIds, RemoveApplicationOk(a)
    PROVE  Abstract!Next
<1>1. remove_from' = a
  BY DEF PlainIds, Ids, RemoveApplicationOk, BindText
<1>2. rows' = [i \in {j \in DOMAIN rows : rows[j].from # a} |-> rows[i]]
  BY <1>1 DEF RemoveApplicationOk, Keep, Restrict
<1>3. \A i \in DOMAIN rows : AsRequests[i].from = rows[i].from
  BY DEF AsRequests, RequestOf, IInv, TableOK, Row
<1>4. AsRequests' = Abstract!Without({i \in DOMAIN AsRequests : AsRequests[i].from = a})
  <2>1. {j \in DOMAIN rows : rows[j].from # a} =
           DOMAIN rows \ {i \in DOMAIN AsRequests : AsRequests[i].from = a}
    BY <1>3 DEF AsRequests
  <2> QED
    BY <1>2, <2>1 DEF AsRequests, Abstract!Without
<1>5. Abstract!RemoveApplication(a)
  BY <1>4 DEF RemoveApplicationOk, RemoveCall, Abstract!RemoveApplication
<1> QED
  BY <1>5 DEF Abstract!Next

LEMMA EraseStep ==
    ASSUME IInv, NEW q \in Queries, Erase(q)
    PROVE  Abstract!Next
<1> DEFINE id == CurrentId(query[q])
<1>1. rows' = [i \in DOMAIN rows \ {id} |-> rows[i]]
  BY DEF Erase, Keep, Restrict
<1>2. call'.op = "erase"
  BY DEF Erase, QueryCall
<1>3. CASE id \in DOMAIN rows
  <2>1. AsRequests' = Abstract!Without({id})
    BY <1>1 DEF AsRequests, Abstract!Without
  <2> QED
    BY <1>2, <1>3, <2>1 DEF Abstract!Next, Abstract!Erase, AsRequests
<1>4. CASE id \notin DOMAIN rows
  <2>1. DOMAIN rows \ {id} = DOMAIN rows
    BY <1>4
  <2>2. rows' = rows
    BY <1>1, <2>1 DEF IInv, TableOK
  <2> QED
    BY <1>2, <2>2, ObserveStep
<1> QED
  BY <1>3, <1>4

\* store.cpp keeps the promises of store.h: what add() acknowledged stays as
\* it was until a call that is meant to takes it away.
THEOREM StoreImplements ==
    ASSUME PlainIds, NarrowFeatures
    PROVE  Spec => ImplementsRequestStore
<1>1. Init => Abstract!Init
  BY DEF Init, NoCall, EmptyTable, AsRequests, Abstract!Init
<1>2. IInv /\ [NextStep]_vars => [Abstract!Next]_<<AsRequests, call>>
  <2> SUFFICES ASSUME IInv, [NextStep]_vars
               PROVE  [Abstract!Next]_<<AsRequests, call>>
    OBVIOUS
  <2>1. CASE UNCHANGED vars
    BY <2>1 DEF vars, file, AsRequests
  <2>2. CASE Open \/ Close
    BY <2>2, ObserveStep DEF Open, Close, NoCall, file
  <2>3. CASE SetVersion
    BY <2>3 DEF SetVersion, AsRequests
  <2>4. CASE ResetOk
    <3>1. DOMAIN AsRequests' = {}
      BY <2>4 DEF ResetOk, AsRequests, EmptyTable
    <3> QED
      BY <2>4, <3>1 DEF ResetOk, ResetCall, Abstract!Next, Abstract!Reset
  <2>5. CASE ResetFails
    BY <2>5, ObserveStep DEF ResetFails, ResetThrows, StepThrows, ResetCall, file
  <2>6. CASE \E r \in Requests : AddOk(r)
    BY <2>6, AddStep
  <2>7. CASE \E r \in Requests : AddFails(r)
    BY <2>7, ObserveStep DEF AddFails, ResetThrows, StepThrows, AddCall, file
  <2>8. CASE \E a \in AppIds : RemoveApplicationOk(a)
    BY <2>8, RemoveStep
  <2>9. CASE \E a \in AppIds : RemoveApplicationFails(a)
    BY <2>9, ObserveStep DEF RemoveApplicationFails, ResetThrows, StepThrows, RemoveCall, file
  <2>10. ASSUME NEW q \in Queries, NextQuery(q)
         PROVE  Abstract!Next
    <3>1. CASE Erase(q)
      BY <3>1, EraseStep
    <3>2. CASE ~Erase(q)
      <4>1. rows' = rows
        BY <2>10, <3>2 DEF NextQuery, CreateQuery, CreateQueryThrows, DestroyQuery,
           ForApplicationId, ForFeature, ForInterval, ForAnswer, Narrow, NarrowThrows, All, RewindThrows, Execute, Next,
           EraseThrows, Current, CurrentThrows, file
      <4>2. call'.op \notin {"add", "reset", "remove_application"}
        BY <2>10, <3>2 DEF NextQuery, CreateQuery, CreateQueryThrows, DestroyQuery,
           ForApplicationId, ForFeature, ForInterval, ForAnswer, Narrow, NarrowThrows, All, RewindThrows, Execute, Next,
           EraseThrows, Current, CurrentThrows, QueryCall
      <4> QED
        BY <4>1, <4>2, ObserveStep
    <3> QED
      BY <3>1, <3>2
  <2> QED
    BY <2>1, <2>2, <2>3, <2>4, <2>5, <2>6, <2>7, <2>8, <2>9, <2>10 DEF NextStep, NextStore
<1> QED
  BY <1>1, <1>2, StoreInvariant, PTL DEF Spec, ImplementsRequestStore, Abstract!Spec
=============================================================================
