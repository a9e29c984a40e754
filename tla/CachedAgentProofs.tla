------------------------- MODULE CachedAgentProofs -------------------------
(***************************************************************************)
(* Proofs about CachedAgent: for any number of callers, any keys and       *)
(* command lines of the preseed tool, any clock and any size of the table. *)
(***************************************************************************)
EXTENDS CachedAgent, FiniteSetTheorems, SequenceTheorems, TLAPS

-----------------------------------------------------------------------------
(* Types.                                                                  *)

\* The preseed tool names an application in every request.
SeedsNamed == \A i \in DOMAIN seeds : seeds[i].key.from # EmptyId

\* What a call has got hold of.
CallsTyped ==
    \A c \in Callers :
        /\ pc[c] \in Active \cup {"returned"} => params[c] \in Keys
        /\ pc[c] \in {"answered", "inserting", "returned"} => answer[c] \in Answer

TypeInv == TypeOK /\ SeedsNamed /\ CallsTyped

SeedType == [key : Keys, answer : Answer, when : Int \X Moment]

LEMMA KeyType ==
    ASSUME NEW key \in Keys
    PROVE  key.from \in Apps /\ key.feature \in Nat /\ key = [from |-> key.from, feature |-> key.feature]
BY CachedAgentAssumption DEF Apps

LEMMA ClockType == MaxTime \in Nat /\ MaxSetBacks \in Nat /\ 0 \in Skews /\ Skews \subseteq Int
BY CachedAgentAssumption

LEMMA MomentType ==
    ASSUME NEW g \in Nat, NEW t \in Nat, epoch \in Nat
    PROVE  MomentOf(g, t) \in Moment
BY DEF MomentOf, Moment

LEMMA NoStampType == NoStamp \in Int \X Moment
BY DEF NoStamp, Moment

\* Converting a feature gives an integer.
LEMMA AsInt32Type ==
    ASSUME NEW n \in Nat
    PROVE  AsInt32(n) \in Int
BY SpanAssumption DEF AsInt32, Signed

\* A function over an interval from 1 is a sequence.
LEMMA IntervalSeq ==
    ASSUME NEW S, NEW k \in Nat, NEW f \in [1..k -> S]
    PROVE  f \in Seq(S) /\ DOMAIN f = 1..k
OBVIOUS

\* An INSERT leaves a table of rows.
LEMMA AddRowType ==
    ASSUME TypeOK, NEW from \in Apps \ {EmptyId}, NEW feature \in Nat, NEW a \in Answer,
           NEW when \in Int \X Moment, AddRow(from, feature, a, when)
    PROVE  /\ DOMAIN rows' \subseteq 1..MaxId
           /\ rows' \in [DOMAIN rows' -> Row]
           /\ stamped' \in [DOMAIN rows' -> Moment]
<1> DEFINE row == RowOf([feature |-> feature, when |-> when[1], answer |-> a], from)
<1>1. row \in Row
  BY AsInt32Type DEF RowOf, Row
<1>2. PICK id \in 1..MaxId :
         /\ rows' = [i \in DOMAIN rows \cup {id} |-> IF i = id THEN row ELSE rows[i]]
         /\ stamped' = [i \in DOMAIN rows \cup {id} |-> IF i = id THEN when[2] ELSE stamped[i]]
  BY DEF AddRow
<1> HIDE DEF row
<1>3. \A i \in DOMAIN rows : rows[i] \in Row /\ stamped[i] \in Moment
  BY DEF TypeOK
<1> QED
  BY <1>1, <1>2, <1>3 DEF TypeOK

\* Store::add() binds an id that is not empty.
LEMMA StoreAddType ==
    ASSUME TypeOK, NEW key \in Keys, NEW a \in Answer, NEW when \in Int \X Moment,
           StoreAdd(key, a, when)
    PROVE  /\ DOMAIN rows' \subseteq 1..MaxId
           /\ rows' \in [DOMAIN rows' -> Row]
           /\ stamped' \in [DOMAIN rows' -> Moment]
           /\ insert_from' \in (Apps \ {EmptyId}) \cup {Null}
           /\ insert_failed' \in BOOLEAN
<1>1. insert_from' \in Apps \ {EmptyId}
  BY KeyType DEF TypeOK, StoreAdd, BindText
<1>2. AddRow(insert_from', key.feature, a, when) /\ insert_failed' = insert_failed
  BY DEF StoreAdd
<1>3. key.feature \in Nat
  BY KeyType
<1> QED
  BY <1>1, <1>2, <1>3, AddRowType DEF TypeOK

LEMMA StoreAddThrowsType ==
    ASSUME TypeOK, NEW key \in Keys, StoreAddThrows(key)
    PROVE  /\ DOMAIN rows' \subseteq 1..MaxId
           /\ rows' \in [DOMAIN rows' -> Row]
           /\ stamped' \in [DOMAIN rows' -> Moment]
           /\ insert_from' \in (Apps \ {EmptyId}) \cup {Null}
           /\ insert_failed' \in BOOLEAN
BY KeyType DEF TypeOK, StoreAddThrows, BindText

\* Rows go: what stays is a table.
LEMMA RemoveType ==
    ASSUME TypeOK, NEW ids, Remove(ids)
    PROVE  /\ DOMAIN rows' \subseteq DOMAIN rows
           /\ rows' \in [DOMAIN rows' -> Row]
           /\ stamped' \in [DOMAIN rows' -> Moment]
           /\ \A id \in DOMAIN rows' : rows'[id] = rows[id]
           /\ DOMAIN rows' = DOMAIN rows \ ids
BY DEF TypeOK, Remove, Restrict

\* SELECT lists all rows that match, and the first one it lists precedes the
\* others.
LEMMA ListingHead ==
    ASSUME NEW table, NEW narrowing,
           DOMAIN table \subseteq 1..MaxId, table \in [DOMAIN table -> Row],
           NEW l \in Listings(table, narrowing), l # <<>>
    PROVE  /\ l[1] \in Selected(table, narrowing)
           /\ \A j \in Selected(table, narrowing) : j = l[1] \/ Precedes(table, l[1], j)
<1> DEFINE found == Selected(table, narrowing)
           n == Cardinality(found)
<1>1. found \subseteq DOMAIN table /\ found \subseteq 1..MaxId
  BY DEF Selected
<1>2. IsFiniteSet(1..MaxId)
  BY FS_Interval, CachedAgentAssumption
<1>3. IsFiniteSet(found)
  BY <1>1, <1>2, FS_Subset
<1>4. n \in Nat
  BY <1>3, FS_CardinalityType
<1>5. l \in [1..n -> found] /\ \A m, k \in DOMAIN l : m < k => Precedes(table, l[m], l[k])
  BY DEF Listings
<1> HIDE DEF found, n
<1>6. 1 \in 1..n
  BY <1>4, <1>5
<1>7. \A i \in found : ~Precedes(table, i, i)
  BY <1>1 DEF Precedes, Row
<1>8. ASSUME NEW m \in 1..n, NEW k \in 1..n, m # k PROVE l[m] # l[k]
  BY <1>4, <1>5, <1>7, <1>8
<1>9. l \in Injection(1..n, found)
  BY <1>5, <1>8 DEF Injection, IsInjective
<1>10. Cardinality(1..n) = n
  BY <1>4, FS_Interval
<1>11. l \in Surjection(1..n, found)
  BY <1>3, <1>9, <1>10, FS_Injection DEF n
<1>12. ASSUME NEW j \in found PROVE j = l[1] \/ Precedes(table, l[1], j)
  <2>1. PICK k \in 1..n : l[k] = j
    BY <1>11 DEF Surjection
  <2> QED
    BY <1>4, <1>5, <1>6, <2>1
<1> QED
  BY <1>5, <1>6, <1>12 DEF found

\* The request that the preseed tool adds next, and those it adds later.
LEMMA SeedsTail ==
    ASSUME TypeOK, seeds # <<>>
    PROVE  /\ Head(seeds) \in SeedType /\ Tail(seeds) \in Seq(SeedType)
           /\ 1 \in DOMAIN seeds /\ Head(seeds) = seeds[1]
           /\ \A i \in DOMAIN Tail(seeds) : i + 1 \in DOMAIN seeds /\ Tail(seeds)[i] = seeds[i + 1]
<1>1. seeds \in Seq(SeedType)
  BY DEF TypeOK, SeedType
<1>2. /\ Head(seeds) \in SeedType /\ Tail(seeds) \in Seq(SeedType)
      /\ Len(Tail(seeds)) = Len(seeds) - 1
      /\ \A i \in 1..Len(Tail(seeds)) : Tail(seeds)[i] = seeds[i + 1]
  BY <1>1, HeadTailProperties
<1>3. /\ DOMAIN seeds = 1..Len(seeds) /\ Len(seeds) \in Nat \ {0} /\ Head(seeds) = seeds[1]
      /\ DOMAIN Tail(seeds) = 1..Len(Tail(seeds))
  BY <1>1, <1>2
<1> QED
  BY <1>2, <1>3

LEMMA TypeInit == Init => TypeInv
<1> SUFFICES ASSUME Init PROVE TypeInv
  OBVIOUS
<1>1. /\ DOMAIN rows \subseteq 1..MaxId
      /\ rows \in [DOMAIN rows -> Row] /\ stamped \in [DOMAIN rows -> Moment]
  BY DEF Init, EmptyTable
<1>2. stamp \in [Callers -> Int \X Moment]
  BY NoStampType DEF Init
<1>3. seeds \in Seq(SeedType) /\ DOMAIN seeds = {}
  BY EmptySeq DEF Init
<1>4. now \in 0..MaxTime /\ skew \in Skews /\ epoch \in 0..MaxSetBacks
  <2>1. now = 0 /\ skew = 0 /\ epoch = 0
    BY DEF Init
  <2> QED
    BY <2>1, ClockType
<1>5. /\ insert_from \in (Apps \ {EmptyId}) \cup {Null}
      /\ insert_failed \in BOOLEAN
      /\ pc \in [Callers -> {"idle", "returned", "thrown"} \cup Active]
      /\ params \in [Callers -> Keys \cup {Null}]
      /\ answer \in [Callers -> Answer \cup {Null}]
      /\ given \subseteq [key : Keys, answer : Answer]
      /\ answered \in [Callers -> Nat]
      /\ known \in [Callers -> BOOLEAN]
      /\ removed \in [Callers -> BOOLEAN]
  BY DEF Init
<1> QED
  BY <1>1, <1>2, <1>3, <1>4, <1>5 DEF TypeInv, TypeOK, SeedsNamed, SeedType, CallsTyped, Init, Active

\* A step of a call keeps the types.
LEMMA ProgressType ==
    ASSUME TypeInv, NEW c \in Callers, Progress(c)
    PROVE  TypeInv'
<1> USE DEF TypeInv
<1>1. CASE LookupHits(c)
  <2>1. PICK l \in Listings(rows, Lookup(params[c])) :
           l # <<>> /\ answer' = [answer EXCEPT ![c] = rows[l[1]].answer]
    BY <1>1 DEF LookupHits
  <2>2. l[1] \in DOMAIN rows
    BY <2>1, ListingHead DEF TypeOK, Selected
  <2>3. rows[l[1]].answer \in Answer
    BY <2>2 DEF TypeOK, Row
  <2> QED
    BY <1>1, <2>1, <2>3 DEF LookupHits, TypeOK, SeedsNamed, CallsTyped, store, clock, ghosts
<1>2. CASE LookupMisses(c) \/ Throws(c)
  BY <1>2 DEF LookupMisses, Throws, TypeOK, SeedsNamed, CallsTyped, store, clock, ghosts, Active
<1>3. ASSUME NEW a \in Answer, UserAnswers(c, a)
      PROVE  TypeInv'
  <2>1. now' \in 0..MaxTime /\ now \in Nat
    BY <1>3, ClockType DEF UserAnswers, TypeOK
  <2> QED
    BY <1>3, <2>1 DEF UserAnswers, TypeOK, SeedsNamed, CallsTyped, store, Active
<1>4. CASE Stamp(c)
  <2>1. now' \in 0..MaxTime /\ Wallclock \in Int /\ now \in Nat /\ epoch \in Nat
    BY <1>4, ClockType DEF Stamp, TypeOK, Wallclock
  <2>2. MomentOf(answered[c], now) \in Moment
    BY <2>1, MomentType DEF TypeOK
  <2>3. stamp' \in [Callers -> Int \X Moment] /\ answered' \in [Callers -> Nat]
    BY <1>4, <2>1, <2>2 DEF Stamp, TypeOK
  <2>4. CallsTyped'
    BY <1>4 DEF Stamp, TypeOK, CallsTyped, Active
  <2> QED
    BY <1>4, <2>1, <2>3, <2>4 DEF Stamp, TypeOK, SeedsNamed, store, Active
<1>5. CASE Insert(c)
  <2>1. params[c] \in Keys /\ answer[c] \in Answer /\ stamp[c] \in Int \X Moment
    BY <1>5 DEF Insert, Active, CallsTyped, TypeOK
  <2>2. StoreAdd(params[c], answer[c], stamp[c])
    BY <1>5 DEF Insert
  <2> QED
    BY <1>5, <2>1, <2>2, StoreAddType, NoStampType DEF Insert, TypeOK, SeedsNamed, CallsTyped, store, clock, ghosts
<1>6. CASE InsertThrows(c)
  <2>1. params[c] \in Keys /\ StoreAddThrows(params[c])
    BY <1>6 DEF InsertThrows, Active, CallsTyped
  <2>2. pc' = [pc EXCEPT ![c] = "thrown"]
    BY <1>6 DEF InsertThrows
  <2>3. CallsTyped'
    BY <1>6, <2>2 DEF InsertThrows, TypeOK, CallsTyped, Active
  <2>4. /\ DOMAIN rows' \subseteq 1..MaxId /\ rows' \in [DOMAIN rows' -> Row]
        /\ stamped' \in [DOMAIN rows' -> Moment]
        /\ insert_from' \in (Apps \ {EmptyId}) \cup {Null} /\ insert_failed' \in BOOLEAN
    BY <2>1, StoreAddThrowsType
  <2>5. UNCHANGED <<clock, params, seeds, ghosts>>
    BY <1>6 DEF InsertThrows
  <2>6. /\ answer' \in [Callers -> Answer \cup {Null}]
        /\ pc' \in [Callers -> {"idle", "returned", "thrown"} \cup Active]
    BY <1>6 DEF InsertThrows, TypeOK
  <2>7. stamp' \in [Callers -> Int \X Moment]
    BY <1>6, NoStampType DEF InsertThrows, TypeOK
  <2> QED
    BY <2>3, <2>4, <2>5, <2>6, <2>7 DEF TypeOK, SeedsNamed, clock, ghosts
<1> QED
  BY <1>1, <1>2, <1>3, <1>4, <1>5, <1>6 DEF Progress

\* So do the other clients of the store and the preseed tool.
LEMMA OthersType ==
    ASSUME TypeInv,
           \/ \E c \in Callers, key \in Keys : Call(c, key)
           \/ \E key \in Keys, a \in Answer : Decide(key, a)
           \/ \E ids : Remove(ids)
           \/ \E s \in Skews : SetClock(s)
           \/ \E requests \in Preseeds : Preseed(requests)
           \/ Seed \/ SeedThrows
    PROVE  TypeInv'
<1> USE DEF TypeInv
<1>1. ASSUME NEW c \in Callers, NEW key \in Keys, Call(c, key)
      PROVE  TypeInv'
  <2>1. Stored(key) \in BOOLEAN
    BY DEF Stored
  <2> QED
    BY <1>1, <2>1 DEF Call, TypeOK, SeedsNamed, CallsTyped, store, clock, Active
<1>2. ASSUME NEW key \in Keys, NEW a \in Answer, Decide(key, a)
      PROVE  TypeInv'
  <2> DEFINE when == <<Wallclock, MomentOf(now, now)>>
  <2>1. now' \in 0..MaxTime /\ when \in Int \X Moment
    BY <1>2, ClockType, MomentType DEF Decide, TypeOK, Wallclock
  <2>2. StoreAdd(key, a, when)
    BY <1>2 DEF Decide
  <2> HIDE DEF when
  <2>3. /\ DOMAIN rows' \subseteq 1..MaxId /\ rows' \in [DOMAIN rows' -> Row]
        /\ stamped' \in [DOMAIN rows' -> Moment]
        /\ insert_from' \in (Apps \ {EmptyId}) \cup {Null} /\ insert_failed' \in BOOLEAN
    BY <2>1, <2>2, StoreAddType
  <2>4. /\ given' = given \cup {[key |-> key, answer |-> a]}
        /\ UNCHANGED <<skew, epoch, calls, seeds, answered, known, removed>>
    BY <1>2 DEF Decide
  <2> QED
    BY <2>1, <2>3, <2>4 DEF TypeOK, SeedsNamed, CallsTyped, calls
<1>3. ASSUME NEW ids, Remove(ids)
      PROVE  TypeInv'
  <2>1. removed' \in [Callers -> BOOLEAN]
    BY <1>3 DEF Remove, TypeOK
  <2>2. /\ DOMAIN rows' \subseteq 1..MaxId
        /\ rows' \in [DOMAIN rows' -> Row] /\ stamped' \in [DOMAIN rows' -> Moment]
    <3>1. DOMAIN rows' \subseteq DOMAIN rows
      BY <1>3, RemoveType
    <3> QED
      BY <1>3, <3>1, RemoveType DEF TypeOK
  <2> QED
    BY <1>3, <2>1, <2>2 DEF Remove, TypeOK, SeedsNamed, CallsTyped, clock, calls
<1>4. ASSUME NEW s \in Skews, SetClock(s)
      PROVE  TypeInv'
  <2>1. epoch' \in 0..MaxSetBacks
    BY <1>4, ClockType DEF SetClock, TypeOK
  <2> QED
    BY <1>4, <2>1 DEF SetClock, TypeOK, SeedsNamed, CallsTyped, store, calls, ghosts
<1>5. ASSUME NEW requests \in Preseeds, Preseed(requests)
      PROVE  TypeInv'
  <2>1. /\ requests \in Seq([key : Keys, answer : Answer])
        /\ \A i \in DOMAIN requests : requests[i].key.from # EmptyId
    BY CachedAgentAssumption
  <2>2. Len(requests) \in Nat /\ DOMAIN requests = 1..Len(requests)
    BY <2>1
  <2>3. now' \in 0..MaxTime
    BY <1>5, <2>2, ClockType DEF Preseed, TypeOK
  <2>4. \A i \in 1..Len(requests) :
           <<Wallclock + i - 1, MomentOf(now + i - 1, now + i - 1)>> \in Int \X Moment
    <3>1. now \in Nat /\ skew \in Int /\ epoch \in Nat
      BY ClockType DEF TypeOK
    <3>2. \A i \in 1..Len(requests) : now + i - 1 \in Nat /\ Wallclock + i - 1 \in Int
      BY <2>2, <3>1 DEF Wallclock
    <3> QED
      BY <3>1, <3>2, MomentType
  <2>5. \A i \in 1..Len(requests) :
           /\ requests[i] \in [key : Keys, answer : Answer]
           /\ requests[i].key \in Keys /\ requests[i].answer \in Answer
    <3>1. \A i \in 1..Len(requests) : requests[i] \in [key : Keys, answer : Answer]
      BY <2>1, ElementOfSeq
    <3> QED
      BY <3>1
  <2>6. seeds' \in [1..Len(requests) -> SeedType]
    BY <1>5, <2>2, <2>4, <2>5 DEF Preseed, SeedType
  <2>7. seeds' \in Seq(SeedType)
    BY ONLY <2>2, <2>6, IntervalSeq
  <2>8. SeedsNamed'
    BY <1>5, <2>1 DEF Preseed, SeedsNamed
  <2>9. given' \subseteq [key : Keys, answer : Answer]
    BY <1>5, <2>2, <2>5 DEF Preseed, TypeOK, Range
  <2> QED
    BY <1>5, <2>3, <2>7, <2>8, <2>9 DEF Preseed, TypeOK, CallsTyped, SeedType, store, calls
<1>6. CASE Seed
  <2> DEFINE s == Head(seeds)
  <2>1. s \in SeedType /\ Tail(seeds) \in Seq(SeedType) /\ s.key.from # EmptyId
    BY <1>6, SeedsTail DEF Seed, SeedsNamed
  <2>2. SeedsNamed'
    BY <1>6, SeedsTail DEF Seed, SeedsNamed
  <2>3. AddRow(s.key.from, s.key.feature, s.answer, s.when)
    BY <1>6 DEF Seed
  <2>4. /\ s.key.from \in Apps \ {EmptyId} /\ s.key.feature \in Nat
        /\ s.answer \in Answer /\ s.when \in Int \X Moment
    BY <2>1, KeyType DEF SeedType
  <2> HIDE DEF s
  <2> QED
    BY <1>6, <2>1, <2>2, <2>3, <2>4, AddRowType
       DEF Seed, TypeOK, CallsTyped, SeedType, clock, calls, ghosts
<1>7. CASE SeedThrows
  <2>1. seeds' \in Seq(SeedType) /\ DOMAIN seeds' = {}
    BY <1>7, EmptySeq DEF SeedThrows
  <2> QED
    BY <1>7, <2>1 DEF SeedThrows, TypeOK, SeedsNamed, CallsTyped, SeedType, store, clock, calls, ghosts
<1> QED
  BY <1>1, <1>2, <1>3, <1>4, <1>5, <1>6, <1>7

LEMMA TypeStep ==
    ASSUME TypeInv, [Next]_vars
    PROVE  TypeInv'
<1>1. CASE UNCHANGED vars
  BY <1>1 DEF TypeInv, TypeOK, SeedsNamed, CallsTyped, vars, store, clock, calls, ghosts
<1>2. CASE Next
  BY <1>2, ProgressType, OthersType DEF Next, RemoveApplication, Reset
<1> QED
  BY <1>1, <1>2

\* No row has an empty or unbound application id, and no call that is past its
\* prompt lacks an answer, whatever the callers, the keys and the clock.
THEOREM CachedAgentTypeOK == Spec => []TypeOK
<1>1. TypeInv => TypeOK
  BY DEF TypeInv
<1> QED
  BY <1>1, TypeInit, TypeStep, PTL DEF Spec

-----------------------------------------------------------------------------
(* What is answered and stored, for callers and clients that               *)
(*   - use no empty application id, which bind_text would not bind, and    *)
(*   - use features that an std::int32_t can hold.                         *)

PlainKeys == \A key \in Keys : key.from # EmptyId /\ key.feature < Int32Span \div 2

\* The conversions of the feature leave it alone.
LEMMA PlainFeature ==
    ASSUME PlainKeys, NEW key \in Keys
    PROVE  /\ AsInt32(key.feature) = key.feature
           /\ AsInt64(key.feature) = key.feature
           /\ AsUint64(key.feature) = key.feature
<1> DEFINE f == key.feature
<1>1. f \in Nat /\ f < Int32Span \div 2
  BY KeyType DEF PlainKeys
<1> HIDE DEF f
<1>2. /\ Int32Span \in Nat /\ Int64Span \in Nat /\ Int32Span > 0 /\ Int32Span <= Int64Span
      /\ Int32Span % 2 = 0 /\ Int64Span % 2 = 0
  BY SpanAssumption
<1>3. f < Int64Span \div 2 /\ f < Int32Span /\ f < Int64Span
  BY <1>1, <1>2
<1>4. f % Int32Span = f /\ f % Int64Span = f
  BY <1>1, <1>2, <1>3
<1> QED
  BY <1>1, <1>3, <1>4 DEF AsInt32, AsInt64, AsUint64, Signed, f

\* A row, as the answer to a question.
AnswerIn(row) == [key |-> [from |-> row.from, feature |-> row.feature], answer |-> row.answer]

\* Rows are answers that were given, so that their features read back unchanged.
RowsGiven == \A id \in DOMAIN rows : AnswerIn(rows[id]) \in given

SeedsGiven ==
    \A i \in DOMAIN seeds : [key |-> seeds[i].key, answer |-> seeds[i].answer] \in given

CallGiven(c) ==
    pc[c] \in {"answered", "inserting", "returned"} =>
        [key |-> params[c], answer |-> answer[c]] \in given

CallUpToDate(c) ==
    /\ known[c] /\ ~removed[c] /\ pc[c] = "lookup" => Stored(params[c])
    /\ known[c] /\ ~removed[c] => pc[c] \notin {"prompting", "answered", "inserting"}
    /\ pc[c] = "returned" => Stored(params[c]) \/ removed[c]

Inv ==
    /\ TypeInv /\ RowsGiven /\ SeedsGiven
    /\ \A c \in Callers : CallGiven(c) /\ CallUpToDate(c)

\* What a row was stored for.
LEMMA RowKey ==
    ASSUME PlainKeys, Inv, NEW id \in DOMAIN rows
    PROVE  /\ rows[id] \in Row
           /\ KeyOf(rows[id]) \in Keys
           /\ KeyOf(rows[id]) = [from |-> rows[id].from, feature |-> rows[id].feature]
<1>1. rows[id] \in Row
  BY DEF Inv, TypeInv, TypeOK
<1>2. AnswerIn(rows[id]) \in [key : Keys, answer : Answer]
  BY DEF Inv, TypeInv, TypeOK, RowsGiven
<1>3. [from |-> rows[id].from, feature |-> rows[id].feature] \in Keys
  BY <1>2 DEF AnswerIn
<1>4. AsUint64(rows[id].feature) = rows[id].feature
  BY <1>3, PlainFeature
<1> QED
  BY <1>1, <1>3, <1>4 DEF KeyOf

\* A lookup finds the rows that were stored for its key.
LEMMA LookupFinds ==
    ASSUME PlainKeys, Inv, NEW key \in Keys
    PROVE  Selected(rows, Lookup(key)) = {id \in DOMAIN rows : KeyOf(rows[id]) = key}
<1>1. /\ Lookup(key).app = key.from /\ Lookup(key).feature = key.feature
      /\ Lookup(key).interval = Null /\ Lookup(key).answer = Null
  BY PlainFeature DEF PlainKeys, Lookup, Unnarrowed, BindText
<1>2. key.from # Null /\ key.feature # Null /\ key = [from |-> key.from, feature |-> key.feature]
  BY KeyType, CachedAgentAssumption DEF Apps
<1>3. ASSUME NEW id \in DOMAIN rows
      PROVE  Matches(rows[id], Lookup(key)) <=> KeyOf(rows[id]) = key
  <2>1. KeyOf(rows[id]) = [from |-> rows[id].from, feature |-> rows[id].feature]
    BY RowKey
  <2>2. Matches(rows[id], Lookup(key)) <=> key.from = rows[id].from /\ key.feature = rows[id].feature
    BY <1>1, <1>2 DEF Matches
  <2> QED
    BY <1>2, <2>1, <2>2
<1> QED
  BY <1>3 DEF Selected

\* An INSERT adds a row for its key and leaves the others.
LEMMA AddRowGiven ==
    ASSUME PlainKeys, Inv, NEW key \in Keys, NEW a \in Answer, NEW when,
           AddRow(key.from, key.feature, a, when),
           given \subseteq given', [key |-> key, answer |-> a] \in given'
    PROVE  RowsGiven' /\ Stored(key)' /\ \A k : Stored(k) => Stored(k)'
<1> DEFINE row == RowOf([feature |-> key.feature, when |-> when[1], answer |-> a], key.from)
<1>1. PICK id \in 1..MaxId :
         /\ IsNextId(id, rows)
         /\ rows' = [i \in DOMAIN rows \cup {id} |-> IF i = id THEN row ELSE rows[i]]
  BY DEF AddRow
<1>2. AnswerIn(row) = [key |-> key, answer |-> a] /\ KeyOf(row) = key
  BY PlainFeature, KeyType DEF RowOf, AnswerIn, KeyOf
<1> HIDE DEF row
<1>3. id \notin DOMAIN rows
  <2>1. DOMAIN rows \subseteq 1..MaxId
    BY DEF Inv, TypeInv, TypeOK
  <2> QED
    BY <1>1, <2>1 DEF IsNextId
<1>4. /\ DOMAIN rows' = DOMAIN rows \cup {id} /\ rows'[id] = row
      /\ \A i \in DOMAIN rows : rows'[i] = rows[i]
  BY <1>1, <1>3
<1> QED
  BY <1>2, <1>4 DEF Inv, RowsGiven, Stored

\* The rest of the state stays, for what a call is about.
LEMMA CallStays ==
    ASSUME NEW c \in Callers, CallGiven(c), CallUpToDate(c),
           pc'[c] = pc[c], params'[c] = params[c], answer'[c] = answer[c],
           known'[c] = known[c], removed'[c] = removed[c],
           given \subseteq given', \A k : Stored(k) => Stored(k)'
    PROVE  CallGiven(c)' /\ CallUpToDate(c)'
BY DEF CallGiven, CallUpToDate

\* A step of a call.
LEMMA ProgressInv ==
    ASSUME PlainKeys, Inv, NEW c \in Callers, Progress(c)
    PROVE  Inv'
<1> USE DEF Inv
<1>1. TypeInv'
  BY ProgressType
<1>2. TypeOK /\ CallsTyped
  BY DEF TypeInv
<1>3. /\ UNCHANGED <<seeds, known, removed>> /\ given \subseteq given'
      /\ \A d \in Callers \ {c} : pc'[d] = pc[d] /\ params'[d] = params[d] /\ answer'[d] = answer[d]
      /\ params' = params
  BY <1>2 DEF Progress, LookupHits, LookupMisses, Throws, UserAnswers, Stamp, Insert, InsertThrows,
              ghosts, TypeOK
<1>4. SeedsGiven'
  BY <1>3 DEF SeedsGiven
<1>5. SUFFICES RowsGiven' /\ (\A k : Stored(k) => Stored(k)') /\ CallGiven(c)' /\ CallUpToDate(c)'
  BY <1>1, <1>3, <1>4, CallStays
<1>6. CASE LookupHits(c)
  <2>1. PICK l \in Listings(rows, Lookup(params[c])) :
           l # <<>> /\ answer' = [answer EXCEPT ![c] = rows[l[1]].answer]
    BY <1>6 DEF LookupHits
  <2>2. params[c] \in Keys
    BY <1>2, <1>6 DEF CallsTyped, LookupHits, Active
  <2>3. l[1] \in Selected(rows, Lookup(params[c]))
    BY <1>2, <2>1, ListingHead DEF TypeOK
  <2>4. l[1] \in DOMAIN rows /\ KeyOf(rows[l[1]]) = params[c]
    BY <2>2, <2>3, LookupFinds
  <2>5. [key |-> params[c], answer |-> rows[l[1]].answer] \in given
    BY <2>4, RowKey DEF RowsGiven, AnswerIn
  <2>6. UNCHANGED <<rows, params, given>> /\ pc' = [pc EXCEPT ![c] = "returned"]
    BY <1>6 DEF LookupHits, store, ghosts
  <2>7. answer'[c] = rows[l[1]].answer /\ pc'[c] = "returned"
    BY <1>2, <2>1, <2>6 DEF TypeOK
  <2>8. Stored(params[c])
    BY <2>4 DEF Stored
  <2> QED
    BY <2>5, <2>6, <2>7, <2>8 DEF RowsGiven, Stored, CallGiven, CallUpToDate
<1>7. CASE LookupMisses(c)
  <2>1. params[c] \in Keys
    BY <1>2, <1>7 DEF CallsTyped, LookupMisses, Active
  <2>2. ~Stored(params[c])
    BY <1>7, <2>1, LookupFinds DEF LookupMisses, Stored
  <2>3. UNCHANGED <<rows, params, given>> /\ pc[c] = "lookup" /\ pc'[c] = "prompting"
    BY <1>2, <1>7 DEF LookupMisses, store, ghosts, TypeOK
  <2> QED
    BY <1>3, <2>2, <2>3 DEF RowsGiven, Stored, CallGiven, CallUpToDate
<1>8. CASE Throws(c)
  <2>1. UNCHANGED <<rows, params, given>> /\ pc'[c] = "thrown"
    BY <1>2, <1>8 DEF Throws, store, ghosts, TypeOK
  <2> QED
    BY <2>1 DEF RowsGiven, Stored, CallGiven, CallUpToDate
<1>9. ASSUME NEW a \in Answer, UserAnswers(c, a)
      PROVE  RowsGiven' /\ (\A k : Stored(k) => Stored(k)') /\ CallGiven(c)' /\ CallUpToDate(c)'
  <2>1. /\ UNCHANGED <<rows, params>> /\ given' = given \cup {[key |-> params[c], answer |-> a]}
        /\ pc[c] = "prompting" /\ pc'[c] = "answered" /\ answer'[c] = a
    BY <1>2, <1>9 DEF UserAnswers, store, TypeOK
  <2> QED
    BY <1>3, <2>1 DEF RowsGiven, Stored, CallGiven, CallUpToDate
<1>10. CASE Stamp(c)
  <2>1. /\ UNCHANGED <<rows, params, given, answer>>
        /\ pc[c] = "answered" /\ pc'[c] = "inserting"
    BY <1>2, <1>10 DEF Stamp, store, ghosts, TypeOK
  <2> QED
    BY <1>3, <2>1 DEF RowsGiven, Stored, CallGiven, CallUpToDate
<1>11. CASE Insert(c)
  <2>1. /\ UNCHANGED <<params, given, answer>>
        /\ pc[c] = "inserting" /\ pc'[c] = "returned"
    BY <1>2, <1>11 DEF Insert, ghosts, TypeOK
  <2>2. params[c] \in Keys /\ answer[c] \in Answer /\ [key |-> params[c], answer |-> answer[c]] \in given
    BY <1>2, <2>1 DEF CallsTyped, Active, CallGiven
  <2>3. insert_from' = params[c].from
    BY <1>11, <2>2 DEF Insert, StoreAdd, BindText, PlainKeys
  <2>4. AddRow(params[c].from, params[c].feature, answer[c], stamp[c])
    BY <1>11, <2>3 DEF Insert, StoreAdd
  <2>5. RowsGiven' /\ Stored(params[c])' /\ \A k : Stored(k) => Stored(k)'
    BY <2>1, <2>2, <2>4, AddRowGiven
  <2> QED
    BY <2>1, <2>2, <2>5 DEF CallGiven, CallUpToDate
<1>12. CASE InsertThrows(c)
  <2>1. UNCHANGED <<rows, given>> /\ pc'[c] = "thrown"
    BY <1>2, <1>12 DEF InsertThrows, StoreAddThrows, ghosts, TypeOK
  <2> QED
    BY <2>1 DEF RowsGiven, Stored, CallGiven, CallUpToDate
<1> QED
  BY <1>6, <1>7, <1>8, <1>9, <1>10, <1>11, <1>12 DEF Progress

\* The other clients of the store, the clock and the preseed tool.
LEMMA OthersInv ==
    ASSUME PlainKeys, Inv,
           \/ \E c \in Callers, key \in Keys : Call(c, key)
           \/ \E key \in Keys, a \in Answer : Decide(key, a)
           \/ \E ids : Remove(ids)
           \/ \E s \in Skews : SetClock(s)
           \/ \E requests \in Preseeds : Preseed(requests)
           \/ Seed \/ SeedThrows
    PROVE  Inv'
<1> USE DEF Inv
<1>1. TypeInv'
  BY OthersType
<1>2. TypeOK /\ SeedsNamed /\ CallsTyped
  BY DEF TypeInv
<1>3. ASSUME NEW c \in Callers, NEW key \in Keys, Call(c, key)
      PROVE  Inv'
  <2>1. UNCHANGED <<rows, seeds, given>>
    BY <1>3 DEF Call, store
  <2>2. RowsGiven' /\ SeedsGiven' /\ \A k : Stored(k) => Stored(k)'
    BY <2>1 DEF RowsGiven, SeedsGiven, Stored
  <2>3. \A d \in Callers \ {c} :
           /\ pc'[d] = pc[d] /\ params'[d] = params[d] /\ answer'[d] = answer[d]
           /\ known'[d] = known[d] /\ removed'[d] = removed[d]
    BY <1>2, <1>3 DEF Call, TypeOK
  <2>4. pc'[c] = "lookup" /\ params'[c] = key /\ (known'[c] <=> Stored(key))
    BY <1>2, <1>3 DEF Call, TypeOK
  <2>5. CallGiven(c)' /\ CallUpToDate(c)'
    BY <2>2, <2>4 DEF CallGiven, CallUpToDate
  <2> QED
    BY <1>1, <2>1, <2>2, <2>3, <2>5, CallStays
<1>4. ASSUME NEW key \in Keys, NEW a \in Answer, Decide(key, a)
      PROVE  Inv'
  <2>1. /\ UNCHANGED <<calls, seeds, known, removed>>
        /\ given' = given \cup {[key |-> key, answer |-> a]}
    BY <1>4 DEF Decide
  <2>2. insert_from' = key.from
    BY <1>4 DEF Decide, StoreAdd, BindText, PlainKeys
  <2>3. AddRow(key.from, key.feature, a, <<Wallclock, MomentOf(now, now)>>)
    BY <1>4, <2>2 DEF Decide, StoreAdd
  <2>4. RowsGiven' /\ \A k : Stored(k) => Stored(k)'
    BY <2>1, <2>3, AddRowGiven
  <2>5. SeedsGiven'
    BY <2>1 DEF SeedsGiven
  <2> QED
    BY <1>1, <2>1, <2>4, <2>5, CallStays DEF calls
<1>5. ASSUME NEW ids, Remove(ids)
      PROVE  Inv'
  <2>1. UNCHANGED <<calls, seeds, given, known>>
    BY <1>5 DEF Remove
  <2>2. DOMAIN rows' = DOMAIN rows \ ids /\ \A id \in DOMAIN rows' : rows'[id] = rows[id]
    BY <1>2, <1>5, RemoveType
  <2>3. RowsGiven' /\ SeedsGiven'
    BY <2>1, <2>2 DEF RowsGiven, SeedsGiven
  <2>4. ASSUME NEW c \in Callers
        PROVE  CallGiven(c)' /\ CallUpToDate(c)'
    <3>1. removed'[c] <=> removed[c] \/ \E id \in DOMAIN rows \cap ids : KeyOf(rows[id]) = params[c]
      BY <1>5 DEF Remove
    <3>2. ~removed'[c] => ~removed[c] /\ (Stored(params[c]) => Stored(params[c])')
      BY <2>1, <2>2, <3>1 DEF Stored, calls
    <3>3. CallGiven(c) /\ CallUpToDate(c)
      OBVIOUS
    <3> QED
      BY <2>1, <3>2, <3>3 DEF CallGiven, CallUpToDate, calls
  <2> QED
    BY <1>1, <2>3, <2>4
<1>6. ASSUME NEW s \in Skews, SetClock(s)
      PROVE  Inv'
  <2>1. UNCHANGED <<store, calls, seeds, ghosts>>
    BY <1>6 DEF SetClock
  <2> QED
    BY <1>1, <2>1, CallStays DEF store, calls, ghosts, RowsGiven, SeedsGiven, Stored
<1>7. ASSUME NEW requests \in Preseeds, Preseed(requests)
      PROVE  Inv'
  <2>1. UNCHANGED <<store, calls, known, removed>> /\ given' = given \cup Range(requests)
    BY <1>7 DEF Preseed
  <2>2. RowsGiven' /\ \A k : Stored(k) => Stored(k)'
    BY <2>1 DEF store, RowsGiven, Stored
  <2>3. \A i \in DOMAIN requests :
           /\ requests[i] = [key |-> requests[i].key, answer |-> requests[i].answer]
           /\ requests[i] \in given'
    <3>1. requests \in Seq([key : Keys, answer : Answer])
      BY CachedAgentAssumption
    <3>2. \A i \in DOMAIN requests : requests[i] \in [key : Keys, answer : Answer]
      <4>1. DOMAIN requests = 1..Len(requests)
        BY <3>1
      <4> QED
        BY <3>1, <4>1, ElementOfSeq
    <3> QED
      BY <2>1, <3>2 DEF Range
  <2>4. SeedsGiven'
    <3>1. /\ DOMAIN seeds' = DOMAIN requests
          /\ \A i \in DOMAIN requests :
                seeds'[i].key = requests[i].key /\ seeds'[i].answer = requests[i].answer
      BY <1>7 DEF Preseed
    <3> QED
      BY <2>3, <3>1 DEF SeedsGiven
  <2> QED
    BY <1>1, <2>1, <2>2, <2>4, CallStays DEF calls
<1>8. CASE Seed
  <2> DEFINE s == Head(seeds)
  <2>1. UNCHANGED <<calls, ghosts>> /\ seeds # <<>> /\ seeds' = Tail(seeds)
    BY <1>8 DEF Seed
  <2>2. SeedsGiven' /\ [key |-> s.key, answer |-> s.answer] \in given
    BY <1>2, <2>1, SeedsTail DEF SeedsGiven, ghosts
  <2>3. s.key \in Keys /\ s.answer \in Answer
    BY <1>2, <2>1, SeedsTail DEF SeedType
  <2>4. AddRow(s.key.from, s.key.feature, s.answer, s.when)
    BY <1>8 DEF Seed
  <2> HIDE DEF s
  <2>5. RowsGiven' /\ \A k : Stored(k) => Stored(k)'
    BY <2>1, <2>2, <2>3, <2>4, AddRowGiven DEF ghosts
  <2> QED
    BY <1>1, <2>1, <2>2, <2>5, CallStays DEF calls, ghosts
<1>9. CASE SeedThrows
  <2>1. UNCHANGED <<store, calls, ghosts>> /\ seeds' = <<>>
    BY <1>9 DEF SeedThrows
  <2>2. RowsGiven' /\ SeedsGiven' /\ \A k : Stored(k) => Stored(k)'
    BY <2>1 DEF store, ghosts, RowsGiven, SeedsGiven, Stored
  <2> QED
    BY <1>1, <2>1, <2>2, CallStays DEF calls, ghosts
<1> QED
  BY <1>3, <1>4, <1>5, <1>6, <1>7, <1>8, <1>9

LEMMA InvInit == Init => Inv
<1> SUFFICES ASSUME Init PROVE Inv
  OBVIOUS
<1>1. TypeInv
  BY TypeInit
<1>2. RowsGiven /\ SeedsGiven
  BY DEF Init, RowsGiven, SeedsGiven, EmptyTable
<1>3. \A c \in Callers : pc[c] = "idle"
  BY DEF Init
<1> QED
  BY <1>1, <1>2, <1>3 DEF Inv, CallGiven, CallUpToDate

LEMMA InvStep ==
    ASSUME PlainKeys, Inv, [Next]_vars
    PROVE  Inv'
<1>1. CASE UNCHANGED vars
  <2>1. TypeInv'
    BY TypeStep DEF Inv
  <2>2. UNCHANGED <<rows, seeds, given, pc, params, answer, known, removed>>
    BY <1>1 DEF vars, store, calls, ghosts
  <2>3. RowsGiven' /\ SeedsGiven' /\ \A k : Stored(k) => Stored(k)'
    BY <2>2 DEF Inv, RowsGiven, SeedsGiven, Stored
  <2> QED
    BY <2>1, <2>2, <2>3, CallStays DEF Inv
<1>2. CASE Next
  BY <1>2, ProgressInv, OthersInv DEF Next, RemoveApplication, Reset
<1> QED
  BY <1>1, <1>2

\* The four properties follow from the invariant.
LEMMA InvImplies ==
    ASSUME PlainKeys, Inv
    PROVE  /\ AnswersAreTheUsers /\ RowsAreTheUsers
           /\ KnownAnswerIsNotAskedFor /\ StoreIsUpToDateOnReturn
<1>1. AnswersAreTheUsers /\ KnownAnswerIsNotAskedFor /\ StoreIsUpToDateOnReturn
  BY DEF Inv, CallGiven, CallUpToDate, AnswersAreTheUsers, KnownAnswerIsNotAskedFor,
         StoreIsUpToDateOnReturn
<1>2. RowsAreTheUsers
  BY RowKey DEF Inv, RowsGiven, AnswerIn, RowsAreTheUsers
<1> QED
  BY <1>1, <1>2

LEMMA CachedAgentInvariant ==
    ASSUME PlainKeys
    PROVE  Spec => []Inv
<1>1. Inv /\ [Next]_vars => Inv'
  BY InvStep
<1> QED
  BY <1>1, InvInit, PTL DEF Spec

\* However calls, other clients and the preseed tool interleave, a call returns,
\* and the store holds, only answers that were given for that application and
\* that feature (CachedAgent, Store::add, Preseed::main).
THEOREM CachedAgentAnswers ==
    ASSUME PlainKeys
    PROVE  Spec => [](AnswersAreTheUsers /\ RowsAreTheUsers)
<1>1. Inv => AnswersAreTheUsers /\ RowsAreTheUsers
  BY InvImplies
<1> QED
  BY <1>1, CachedAgentInvariant, PTL

\* A call that begins with an answer in the store does not prompt, and one that
\* returns leaves an answer there, unless one is removed meanwhile.
THEOREM CachedAgentAsksOnce ==
    ASSUME PlainKeys
    PROVE  Spec => [](KnownAnswerIsNotAskedFor /\ StoreIsUpToDateOnReturn)
<1>1. Inv => KnownAnswerIsNotAskedFor /\ StoreIsUpToDateOnReturn
  BY InvImplies
<1> QED
  BY <1>1, CachedAgentInvariant, PTL

-----------------------------------------------------------------------------
(* The order of the answers.  Time stamps are taken before the store's     *)
(* lock, so rows come in any order; what is invariant is how the time      *)
(* stamps of rows, of calls on their way to the store and of requests that *)
(* the preseed tool has still to add relate to the moments behind them.    *)

RowStamps == {<<rows[i].when, stamped[i]>> : i \in DOMAIN rows}

CallStamps == {stamp[c] : c \in {d \in Callers : pc[d] = "inserting"}}

SeedStamps == {seeds[i].when : i \in DOMAIN seeds}

Stamps == RowStamps \cup CallStamps \cup SeedStamps

\* A stamp was taken in the past; since then the clock was at most set forward,
\* unless it was set back.
Past(s) ==
    /\ s[2].given <= s[2].stamped
    /\ s[2].stamped < now
    /\ s[2].epoch <= epoch
    /\ s[2].epoch = epoch => s[1] <= s[2].stamped + skew

\* Under one setting of the clock, a later stamp bears a later time.
InOrder(s, t) == s[2].epoch = t[2].epoch /\ s[2].stamped < t[2].stamped => s[1] < t[1]

StampsInOrder ==
    /\ \A s \in Stamps : Past(s)
    /\ \A s, t \in Stamps : InOrder(s, t)

AnswersInPast == \A c \in Callers : pc[c] = "answered" => answered[c] < now

OrderInv == StampsInOrder /\ AnswersInPast

\* A stamp that is taken in this step.
Fresh(s) ==
    /\ s \in Int \X Moment
    /\ s[2].epoch = epoch
    /\ s[1] = s[2].stamped + skew
    /\ s[2].given <= s[2].stamped
    /\ now <= s[2].stamped /\ s[2].stamped < now'

LEMMA StampsTyped ==
    ASSUME TypeOK
    PROVE  Stamps \subseteq Int \X Moment
<1>1. RowStamps \subseteq Int \X Moment
  BY DEF TypeOK, RowStamps, Row
<1>2. CallStamps \subseteq Int \X Moment
  BY DEF TypeOK, CallStamps
<1>3. \A i \in DOMAIN seeds : seeds[i] \in SeedType
  <2>1. seeds \in Seq(SeedType)
    BY DEF TypeOK, SeedType
  <2>2. DOMAIN seeds = 1..Len(seeds)
    BY <2>1
  <2> QED
    BY <2>1, <2>2, ElementOfSeq
<1>4. SeedStamps \subseteq Int \X Moment
  BY <1>3 DEF SeedStamps, SeedType
<1> QED
  BY <1>1, <1>2, <1>4 DEF Stamps

\* The order survives a step that takes stamps at most at its own moments, and
\* sets the clock forward, or sets it back and takes none.
LEMMA OrderStep ==
    ASSUME TypeOK, TypeOK', StampsInOrder, now <= now',
           \/ skew <= skew' /\ epoch' = epoch
           \/ epoch' > epoch /\ Stamps' \subseteq Stamps,
           \A s \in Stamps' : s \in Stamps \/ (Fresh(s) /\ skew' = skew)
    PROVE  StampsInOrder'
<1>1. /\ now \in Nat /\ now' \in Nat /\ skew \in Int /\ skew' \in Int
      /\ epoch \in Nat /\ epoch' \in Nat
  BY ClockType DEF TypeOK
<1>2. ASSUME NEW s \in Stamps'
      PROVE  s[1] \in Int /\ s[2].given \in Nat /\ s[2].stamped \in Nat /\ s[2].epoch \in Nat
  <2>1. s \in Int \X Moment
    BY StampsTyped, <1>2 DEF Fresh
  <2> QED
    BY <2>1 DEF Moment
<1>3. ASSUME NEW s \in Stamps'
      PROVE  Past(s)'
  <2>1. CASE s \in Stamps
    <3>1. Past(s)
      BY <2>1 DEF StampsInOrder
    <3> QED
      BY <1>1, <1>2, <3>1 DEF Past
  <2>2. CASE Fresh(s) /\ s \notin Stamps
    <3>1. epoch' = epoch /\ skew' = skew
      BY <2>2
    <3> QED
      BY <1>1, <1>2, <2>2, <3>1 DEF Past, Fresh
  <2> QED
    BY <2>1, <2>2
<1>4. ASSUME NEW s \in Stamps', NEW t \in Stamps'
      PROVE  InOrder(s, t)
  <2>1. CASE s \in Stamps /\ t \in Stamps
    BY <2>1 DEF StampsInOrder
  <2>2. CASE s \in Stamps /\ Fresh(t)
    <3>1. Past(s)
      BY <2>2 DEF StampsInOrder
    <3> QED
      BY <1>1, <1>2, <2>2, <3>1 DEF Past, Fresh, InOrder
  <2>3. CASE Fresh(s) /\ t \in Stamps
    <3>1. Past(t)
      BY <2>3 DEF StampsInOrder
    <3> QED
      BY <1>1, <1>2, <2>3, <3>1 DEF Past, Fresh, InOrder
  <2>4. CASE Fresh(s) /\ Fresh(t)
    BY <1>1, <1>2, <2>4 DEF Fresh, InOrder
  <2> QED
    BY <2>1, <2>2, <2>3, <2>4
<1>5. \A s, t : InOrder(s, t)' <=> InOrder(s, t)
  BY DEF InOrder
<1> QED
  BY <1>3, <1>4, <1>5 DEF StampsInOrder

\* Answers that wait for their stamp stay in the past.
LEMMA AnswersStay ==
    ASSUME TypeOK, TypeOK', AnswersInPast, now <= now',
           \A c \in Callers : pc'[c] = "answered" => pc[c] = "answered" /\ answered'[c] = answered[c]
    PROVE  AnswersInPast'
<1>1. now \in Nat /\ now' \in Nat /\ answered \in [Callers -> Nat]
  BY ClockType DEF TypeOK
<1> QED
  BY <1>1 DEF AnswersInPast

\* An INSERT adds the stamp it was given.
LEMMA AddRowStamps ==
    ASSUME TypeOK, NEW from, NEW feature, NEW a, NEW when \in Int \X Moment,
           AddRow(from, feature, a, when)
    PROVE  RowStamps' \subseteq RowStamps \cup {when}
<1> DEFINE row == RowOf([feature |-> feature, when |-> when[1], answer |-> a], from)
<1>1. PICK id \in 1..MaxId :
         /\ rows' = [i \in DOMAIN rows \cup {id} |-> IF i = id THEN row ELSE rows[i]]
         /\ stamped' = [i \in DOMAIN rows \cup {id} |-> IF i = id THEN when[2] ELSE stamped[i]]
  BY DEF AddRow
<1>2. row.when = when[1] /\ when = <<when[1], when[2]>>
  BY DEF RowOf
<1> HIDE DEF row
<1>3. ASSUME NEW i \in DOMAIN rows'
      PROVE  <<rows'[i].when, stamped'[i]>> \in RowStamps \cup {when}
  <2>1. CASE i = id
    BY <1>1, <1>2, <2>1
  <2>2. CASE i # id
    <3>1. i \in DOMAIN rows /\ rows'[i] = rows[i] /\ stamped'[i] = stamped[i]
      BY <1>1, <1>3, <2>2
    <3> QED
      BY <3>1 DEF RowStamps
  <2> QED
    BY <2>1, <2>2
<1> QED
  BY <1>3 DEF RowStamps

LEMMA ProgressOrder ==
    ASSUME TypeInv, TypeInv', OrderInv, NEW c \in Callers, Progress(c)
    PROVE  OrderInv'
<1>1. TypeOK /\ TypeOK'
  BY DEF TypeInv
<1>2. now \in Nat /\ skew \in Int /\ epoch \in Nat /\ skew' = skew /\ epoch' = epoch
  BY <1>1, ClockType
     DEF TypeOK, Progress, LookupHits, LookupMisses, Throws, UserAnswers, Stamp, Insert,
         InsertThrows, clock
<1>3. seeds' = seeds /\ SeedStamps' = SeedStamps
  BY DEF Progress, LookupHits, LookupMisses, Throws, UserAnswers, Stamp, Insert, InsertThrows,
         SeedStamps
<1>4. CASE LookupHits(c) \/ LookupMisses(c) \/ Throws(c)
  <2>1. /\ UNCHANGED <<rows, stamped, stamp, now, answered>>
        /\ pc'[c] \notin {"answered", "inserting"} /\ \A d \in Callers \ {c} : pc'[d] = pc[d]
    BY <1>1, <1>4 DEF LookupHits, LookupMisses, Throws, TypeOK, store, clock, ghosts
  <2>2. Stamps' \subseteq Stamps
    BY <1>3, <2>1 DEF Stamps, RowStamps, CallStamps
  <2>3. AnswersInPast'
    BY <1>1, <1>2, <2>1, AnswersStay DEF OrderInv
  <2> QED
    BY <1>1, <1>2, <2>1, <2>2, <2>3, OrderStep DEF OrderInv
<1>5. ASSUME NEW a \in Answer, UserAnswers(c, a)
      PROVE  OrderInv'
  <2>1. /\ UNCHANGED <<rows, stamped, stamp>> /\ now' = now + 1
        /\ pc' = [pc EXCEPT ![c] = "answered"] /\ answered' = [answered EXCEPT ![c] = now]
    BY <1>5 DEF UserAnswers, store
  <2>2. Stamps' \subseteq Stamps
    BY <1>1, <1>3, <2>1 DEF Stamps, RowStamps, CallStamps, TypeOK
  <2>3. AnswersInPast'
    BY <1>1, <1>2, <2>1 DEF OrderInv, AnswersInPast, TypeOK
  <2> QED
    BY <1>1, <1>2, <2>1, <2>2, <2>3, OrderStep DEF OrderInv
<1>6. CASE Stamp(c)
  <2> DEFINE when == <<Wallclock, MomentOf(answered[c], now)>>
  <2>1. /\ UNCHANGED <<rows, stamped>> /\ now' = now + 1 /\ pc[c] = "answered"
        /\ stamp' = [stamp EXCEPT ![c] = when] /\ pc' = [pc EXCEPT ![c] = "inserting"]
        /\ answered' = [answered EXCEPT ![c] = 0]
    BY <1>6 DEF Stamp, store
  <2>2. answered[c] \in Nat /\ answered[c] < now
    BY <1>1, <2>1 DEF OrderInv, AnswersInPast, TypeOK
  <2>3. Fresh(when)
    <3>1. when \in Int \X Moment
      BY <1>2, <2>2, MomentType DEF Wallclock
    <3>2. /\ when[1] = now + skew /\ when[2].given = answered[c]
          /\ when[2].stamped = now /\ when[2].epoch = epoch
      BY DEF Wallclock, MomentOf
    <3> HIDE DEF when
    <3> QED
      BY <1>2, <2>1, <2>2, <3>1, <3>2 DEF Fresh
  <2> HIDE DEF when
  <2>4. Stamps' \subseteq Stamps \cup {when}
    BY <1>1, <1>3, <2>1 DEF Stamps, RowStamps, CallStamps, TypeOK
  <2>5. AnswersInPast'
    <3>1. \A d \in Callers :
             pc'[d] = "answered" => pc[d] = "answered" /\ answered'[d] = answered[d]
      BY <1>1, <2>1 DEF TypeOK
    <3> QED
      BY <1>1, <1>2, <2>1, <3>1, AnswersStay DEF OrderInv
  <2> QED
    BY <1>1, <1>2, <2>1, <2>3, <2>4, <2>5, OrderStep DEF OrderInv
<1>7. CASE Insert(c) \/ InsertThrows(c)
  <2>1. /\ UNCHANGED <<now, answered>> /\ stamp' = [stamp EXCEPT ![c] = NoStamp]
        /\ pc[c] = "inserting" /\ pc'[c] \in {"returned", "thrown"}
        /\ \A d \in Callers \ {c} : pc'[d] = pc[d]
    BY <1>1, <1>7 DEF Insert, InsertThrows, clock, ghosts, TypeOK
  <2>2. stamp[c] \in CallStamps /\ stamp[c] \in Int \X Moment
    BY <1>1, <2>1 DEF CallStamps, TypeOK
  <2>3. RowStamps' \subseteq RowStamps \cup {stamp[c]}
    <3>1. CASE Insert(c)
      BY <1>1, <2>2, <3>1, AddRowStamps DEF Insert, StoreAdd
    <3>2. CASE InsertThrows(c)
      BY <3>2 DEF InsertThrows, StoreAddThrows, RowStamps
    <3> QED
      BY <1>7, <3>1, <3>2
  <2>4. CallStamps' \subseteq CallStamps
    BY <1>1, <2>1 DEF CallStamps, TypeOK
  <2>5. Stamps' \subseteq Stamps
    BY <1>3, <2>2, <2>3, <2>4 DEF Stamps
  <2>6. AnswersInPast'
    BY <1>1, <1>2, <2>1, AnswersStay DEF OrderInv
  <2> QED
    BY <1>1, <1>2, <2>1, <2>5, <2>6, OrderStep DEF OrderInv
<1> QED
  BY <1>4, <1>5, <1>6, <1>7 DEF Progress

LEMMA OthersOrder ==
    ASSUME TypeInv, TypeInv', OrderInv,
           \/ \E c \in Callers, key \in Keys : Call(c, key)
           \/ \E key \in Keys, a \in Answer : Decide(key, a)
           \/ \E ids : Remove(ids)
           \/ \E s \in Skews : SetClock(s)
           \/ \E requests \in Preseeds : Preseed(requests)
           \/ Seed \/ SeedThrows
    PROVE  OrderInv'
<1>1. TypeOK /\ TypeOK'
  BY DEF TypeInv
<1>2. now \in Nat /\ skew \in Int /\ epoch \in Nat
  BY <1>1, ClockType DEF TypeOK
<1>3. ASSUME NEW c \in Callers, NEW key \in Keys, Call(c, key)
      PROVE  OrderInv'
  <2>1. /\ UNCHANGED <<rows, stamped, stamp, seeds, now, skew, epoch, answered>>
        /\ pc'[c] = "lookup" /\ \A d \in Callers \ {c} : pc'[d] = pc[d]
    BY <1>1, <1>3 DEF Call, TypeOK, store, clock
  <2>2. Stamps' \subseteq Stamps
    BY <2>1 DEF Stamps, RowStamps, CallStamps, SeedStamps
  <2>3. AnswersInPast'
    BY <1>1, <1>2, <2>1, AnswersStay DEF OrderInv
  <2> QED
    BY <1>1, <1>2, <2>1, <2>2, <2>3, OrderStep DEF OrderInv
<1>4. ASSUME NEW key \in Keys, NEW a \in Answer, Decide(key, a)
      PROVE  OrderInv'
  <2> DEFINE when == <<Wallclock, MomentOf(now, now)>>
  <2>1. /\ UNCHANGED <<skew, epoch, pc, stamp, seeds, answered>> /\ now' = now + 1
        /\ AddRow(insert_from', key.feature, a, when)
    BY <1>4 DEF Decide, StoreAdd, calls
  <2>2. when \in Int \X Moment
    BY <1>2, MomentType DEF Wallclock
  <2>3. Fresh(when)
    <3>1. /\ when[1] = now + skew /\ when[2].given = now
          /\ when[2].stamped = now /\ when[2].epoch = epoch
      BY DEF Wallclock, MomentOf
    <3> HIDE DEF when
    <3> QED
      BY <1>2, <2>1, <2>2, <3>1 DEF Fresh
  <2> HIDE DEF when
  <2>4. RowStamps' \subseteq RowStamps \cup {when}
    BY <1>1, <2>1, <2>2, AddRowStamps
  <2>5. Stamps' \subseteq Stamps \cup {when}
    BY <2>1, <2>4 DEF Stamps, CallStamps, SeedStamps
  <2>6. AnswersInPast'
    BY <1>1, <1>2, <2>1, AnswersStay DEF OrderInv
  <2> QED
    BY <1>1, <1>2, <2>1, <2>3, <2>5, <2>6, OrderStep DEF OrderInv
<1>5. ASSUME NEW ids, Remove(ids)
      PROVE  OrderInv'
  <2>1. /\ UNCHANGED <<now, skew, epoch, pc, stamp, seeds, answered>>
        /\ rows' = Restrict(rows, DOMAIN rows \ ids) /\ stamped' = Restrict(stamped, DOMAIN rows \ ids)
    BY <1>5 DEF Remove, clock, calls
  <2>2. Stamps' \subseteq Stamps
    BY <2>1 DEF Stamps, RowStamps, CallStamps, SeedStamps, Restrict
  <2>3. AnswersInPast'
    BY <1>1, <1>2, <2>1, AnswersStay DEF OrderInv
  <2> QED
    BY <1>1, <1>2, <2>1, <2>2, <2>3, OrderStep DEF OrderInv
<1>6. ASSUME NEW s \in Skews, SetClock(s)
      PROVE  OrderInv'
  <2>1. /\ UNCHANGED <<rows, stamped, pc, stamp, seeds, now, answered>>
        /\ skew' = s /\ IF s < skew THEN epoch' = epoch + 1 ELSE epoch' = epoch
    BY <1>6 DEF SetClock, store, calls, ghosts
  <2>2. s \in Int
    BY ClockType
  <2>3. Stamps' \subseteq Stamps
    BY <2>1 DEF Stamps, RowStamps, CallStamps, SeedStamps
  <2>4. (skew <= skew' /\ epoch' = epoch) \/ epoch' > epoch
    BY <1>2, <2>1, <2>2
  <2>5. AnswersInPast'
    BY <1>1, <1>2, <2>1, AnswersStay DEF OrderInv
  <2> QED
    BY <1>1, <1>2, <2>1, <2>3, <2>4, <2>5, OrderStep DEF OrderInv
<1>7. ASSUME NEW requests \in Preseeds, Preseed(requests)
      PROVE  OrderInv'
  <2>1. /\ UNCHANGED <<rows, stamped, skew, epoch, pc, stamp, answered>>
        /\ now' = now + Len(requests) /\ DOMAIN seeds' = DOMAIN requests
        /\ \A i \in DOMAIN requests :
              seeds'[i].when = <<Wallclock + i - 1, MomentOf(now + i - 1, now + i - 1)>>
    BY <1>7 DEF Preseed, store, calls
  <2>2. Len(requests) \in Nat /\ DOMAIN requests = 1..Len(requests)
    BY CachedAgentAssumption
  <2>3. ASSUME NEW i \in 1..Len(requests)
        PROVE  Fresh(<<Wallclock + i - 1, MomentOf(now + i - 1, now + i - 1)>>)
    <3> DEFINE n == now + i - 1
               when == <<Wallclock + i - 1, MomentOf(n, n)>>
    <3>1. n \in Nat /\ now <= n /\ n < now' /\ Wallclock + i - 1 = n + skew
      BY <1>2, <2>1, <2>2 DEF Wallclock
    <3> HIDE DEF n
    <3>2. when \in Int \X Moment
      BY <1>2, <3>1, MomentType
    <3>3. /\ when[1] = n + skew /\ when[2].given = n /\ when[2].stamped = n /\ when[2].epoch = epoch
      BY <3>1 DEF MomentOf
    <3> HIDE DEF when
    <3>4. Fresh(when)
      BY <3>1, <3>2, <3>3 DEF Fresh
    <3> QED
      BY <3>4 DEF when, n
  <2>4. \A s \in Stamps' : s \in Stamps \/ Fresh(s)
    <3>1. RowStamps' = RowStamps /\ CallStamps' = CallStamps
      BY <2>1 DEF RowStamps, CallStamps
    <3>2. \A s \in SeedStamps' : Fresh(s)
      BY <2>1, <2>2, <2>3 DEF SeedStamps
    <3> QED
      BY <3>1, <3>2 DEF Stamps
  <2>5. AnswersInPast'
    BY <1>1, <1>2, <2>1, <2>2, AnswersStay DEF OrderInv
  <2> QED
    BY <1>1, <1>2, <2>1, <2>2, <2>4, <2>5, OrderStep DEF OrderInv
<1>8. CASE Seed
  <2> DEFINE s == Head(seeds)
  <2>1. /\ UNCHANGED <<now, skew, epoch, pc, stamp, answered>> /\ seeds # <<>> /\ seeds' = Tail(seeds)
        /\ AddRow(s.key.from, s.key.feature, s.answer, s.when)
    BY <1>8 DEF Seed, clock, calls, ghosts
  <2>2. s \in SeedType /\ 1 \in DOMAIN seeds /\ s = seeds[1]
    BY <1>1, <2>1, SeedsTail
  <2> HIDE DEF s
  <2>3. s.when \in SeedStamps /\ s.when \in Int \X Moment
    BY <2>2 DEF SeedStamps, SeedType
  <2>4. RowStamps' \subseteq RowStamps \cup {s.when}
    BY <1>1, <2>1, <2>3, AddRowStamps
  <2>5. SeedStamps' \subseteq SeedStamps
    BY <1>1, <2>1, SeedsTail DEF SeedStamps
  <2>6. Stamps' \subseteq Stamps
    BY <2>1, <2>3, <2>4, <2>5 DEF Stamps, CallStamps
  <2>7. AnswersInPast'
    BY <1>1, <1>2, <2>1, AnswersStay DEF OrderInv
  <2> QED
    BY <1>1, <1>2, <2>1, <2>6, <2>7, OrderStep DEF OrderInv
<1>9. CASE SeedThrows
  <2>1. UNCHANGED <<rows, stamped, pc, stamp, now, skew, epoch, answered>> /\ seeds' = <<>>
    BY <1>9 DEF SeedThrows, store, clock, calls, ghosts
  <2>2. Stamps' \subseteq Stamps
    BY <2>1 DEF Stamps, RowStamps, CallStamps, SeedStamps
  <2>3. AnswersInPast'
    BY <1>1, <1>2, <2>1, AnswersStay DEF OrderInv
  <2> QED
    BY <1>1, <1>2, <2>1, <2>2, <2>3, OrderStep DEF OrderInv
<1> QED
  BY <1>3, <1>4, <1>5, <1>6, <1>7, <1>8, <1>9

LEMMA OrderInit == Init => OrderInv
BY DEF Init, EmptyTable, OrderInv, StampsInOrder, AnswersInPast, Stamps, RowStamps, CallStamps, SeedStamps

LEMMA OrderInvStep ==
    ASSUME TypeInv, OrderInv, [Next]_vars
    PROVE  OrderInv'
<1>1. TypeInv'
  BY TypeStep
<1>2. CASE UNCHANGED vars
  BY <1>2 DEF vars, store, clock, calls, ghosts, OrderInv, StampsInOrder, AnswersInPast, Stamps,
              RowStamps, CallStamps, SeedStamps, Past, InOrder
<1>3. CASE Next
  BY <1>1, <1>3, ProgressOrder, OthersOrder DEF Next, RemoveApplication, Reset
<1> QED
  BY <1>2, <1>3

LEMMA OrderInvariant == Spec => [](TypeInv /\ OrderInv)
<1>1. Init => TypeInv /\ OrderInv
  BY TypeInit, OrderInit
<1>2. TypeInv /\ OrderInv /\ [Next]_vars => TypeInv' /\ OrderInv'
  BY TypeStep, OrderInvStep
<1> QED
  BY <1>1, <1>2, PTL DEF Spec

\* The first row of the listing has the latest time of those with its key, so
\* none of them was given after it had been stamped.
LEMMA LookupMostRecent ==
    ASSUME PlainKeys, Inv, OrderInv, NEW c \in Callers, LookupHits(c)
    PROVE  TakesMostRecent(c)
<1>1. PICK l \in Listings(rows, Lookup(params[c])) :
         l # <<>> /\ answer' = [answer EXCEPT ![c] = rows[l[1]].answer]
  BY DEF LookupHits
<1>2. TypeOK /\ params[c] \in Keys
  BY DEF Inv, TypeInv, CallsTyped, LookupHits, Active
<1>3. /\ l[1] \in Selected(rows, Lookup(params[c]))
      /\ \A j \in Selected(rows, Lookup(params[c])) : j = l[1] \/ Precedes(rows, l[1], j)
  BY <1>1, <1>2, ListingHead DEF TypeOK
<1>4. l[1] \in DOMAIN rows /\ KeyOf(rows[l[1]]) = params[c] /\ rows[l[1]].answer = answer'[c]
  BY <1>1, <1>2, <1>3, LookupFinds DEF TypeOK
<1>5. ASSUME NEW j \in DOMAIN rows, KeyOf(rows[j]) = params[c]
      PROVE  ~GivenAfterStamp(j, l[1])
  <2>1. j = l[1] \/ Precedes(rows, l[1], j)
    BY <1>2, <1>3, <1>5, LookupFinds
  <2>2. /\ rows[j].when \in Int /\ rows[l[1]].when \in Int
        /\ stamped[j] \in Moment /\ stamped[l[1]] \in Moment
    BY <1>2, <1>4 DEF TypeOK, Row
  <2>3. rows[j].when <= rows[l[1]].when
    BY <2>1, <2>2 DEF Precedes
  <2> DEFINE s == <<rows[l[1]].when, stamped[l[1]]>>
             t == <<rows[j].when, stamped[j]>>
  <2>4. s \in Stamps /\ t \in Stamps
    BY <1>4 DEF Stamps, RowStamps
  <2>5. InOrder(s, t) /\ Past(t)
    BY <2>4 DEF OrderInv, StampsInOrder
  <2>6. /\ stamped[j].given <= stamped[j].stamped
        /\ stamped[l[1]].epoch = stamped[j].epoch /\ stamped[l[1]].stamped < stamped[j].stamped
              => rows[l[1]].when < rows[j].when
    BY <2>5 DEF InOrder, Past
  <2>7. /\ stamped[j].given \in Nat /\ stamped[j].stamped \in Nat /\ stamped[l[1]].stamped \in Nat
    BY <2>2 DEF Moment
  <2> QED
    BY <2>2, <2>3, <2>6, <2>7 DEF GivenAfterStamp
<1> QED
  BY <1>4, <1>5 DEF TakesMostRecent

\* Only a lookup with results takes a call from its lookup to its return.
LEMMA StepTakesMostRecent ==
    ASSUME PlainKeys, Inv, OrderInv, [Next]_vars, NEW c \in Callers
    PROVE  TakesMostRecent(c)
<1>1. TypeOK
  BY DEF Inv, TypeInv
<1>2. ASSUME NEW d \in Callers, Progress(d)
      PROVE  TakesMostRecent(c)
  <2>1. CASE LookupHits(d) /\ d = c
    BY <2>1, LookupMostRecent
  <2>2. CASE d # c
    BY <1>1, <1>2, <2>2 DEF TakesMostRecent, TypeOK, Progress, LookupHits, LookupMisses, Throws,
                            UserAnswers, Stamp, Insert, InsertThrows
  <2>3. CASE ~LookupHits(d)
    BY <1>1, <1>2, <2>3 DEF TakesMostRecent, TypeOK, Progress, LookupMisses, Throws, UserAnswers,
                            Stamp, Insert, InsertThrows
  <2> QED
    BY <2>1, <2>2, <2>3
<1>3. ASSUME NEW d \in Callers, NEW key \in Keys, Call(d, key)
      PROVE  TakesMostRecent(c)
  BY <1>1, <1>3 DEF TakesMostRecent, TypeOK, Call
<1>4. CASE UNCHANGED pc
  BY <1>4 DEF TakesMostRecent
<1> QED
  BY <1>2, <1>3, <1>4 DEF Next, Decide, RemoveApplication, Reset, Remove, SetClock, Preseed, Seed,
                          SeedThrows, calls, vars

\* An answer that was given after another one for the same key had been stamped
\* is never passed over for it, unless the clock was set back between the two
\* stamps ("we take the most recent one", cached_agent.cpp): for any number of
\* answers, in whatever order they reached the store.
THEOREM CachedAgentMostRecent ==
    ASSUME PlainKeys
    PROVE  Spec => MostRecentAnswerIsTaken
<1>1. Inv /\ OrderInv /\ [Next]_vars => [\A c \in Callers : TakesMostRecent(c)]_vars
  BY StepTakesMostRecent
<1> QED
  BY <1>1, CachedAgentInvariant, OrderInvariant, PTL
     DEF Spec, MostRecentAnswerIsTaken
=============================================================================
