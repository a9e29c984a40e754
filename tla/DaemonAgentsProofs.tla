------------------------- MODULE DaemonAgentsProofs -------------------------
(***************************************************************************)
(* Proofs about DaemonAgents: what the white list and the formatting of    *)
(* application ids add to the cached agent, for any requests and keys.     *)
(***************************************************************************)
EXTENDS DaemonAgents, CachedAgentProofs

-----------------------------------------------------------------------------
(* Labels.                                                                 *)

\* An application has one id in all versions: its package and its name.
LEMMA FormatIsFirstTwo ==
    ASSUME NEW label \in Seq(STRING), Len(label) \in 2..3
    PROVE  Format(label) = SubSeq(label, 1, 2)
<1>1. CASE Len(label) = 2
  <2>1. SubSeq(label, 1, 2) = label
    BY <1>1, SubSeqFull
  <2> QED
    BY <1>1, <2>1 DEF Format
<1>2. CASE Len(label) = 3
  BY <1>2 DEF Format
<1> QED
  BY <1>1, <1>2

\* Cutting the version off keeps the package and the name.
LEMMA FormatKeepsApplication ==
    ASSUME NEW label \in Seq(STRING)
    PROVE  /\ Format(label) \in Seq(STRING)
           /\ SubSeq(Format(label), 1, 2) = SubSeq(label, 1, 2)
           /\ Len(Format(label)) = IF Len(label) > 2 THEN Len(label) - 1 ELSE Len(label)
<1>1. CASE Len(label) > 2
  <2> DEFINE n == Len(label) - 1
  <2>1. n \in 2..Len(label) /\ Len(label) \in Nat
    BY <1>1
  <2>2. Format(label) = SubSeq(label, 1, n)
    BY <1>1 DEF Format
  <2> HIDE DEF n
  <2>3. /\ SubSeq(label, 1, n) \in Seq(STRING) /\ Len(SubSeq(label, 1, n)) = n
        /\ \A i \in 1..n : SubSeq(label, 1, n)[i] = label[i]
    BY <2>1, SubSeqProperties
  <2>4. SubSeq(SubSeq(label, 1, n), 1, 2) = SubSeq(label, 1, 2)
    BY <2>1, <2>3, SubSeqOfSubSeq
  <2> QED
    BY <1>1, <2>2, <2>3, <2>4 DEF n
<1>2. CASE ~(Len(label) > 2)
  BY <1>2 DEF Format
<1> QED
  BY <1>1, <1>2

\* The only label that is formatted to "unconfined" is that itself.
LEMMA FormatUnconfined ==
    ASSUME NEW label \in Seq(STRING), Format(label) = Unconfined
    PROVE  label = Unconfined
<1>1. Len(Format(label)) = 1 /\ Len(label) \in Nat
  BY ChainAssumption
<1>2. ~(Len(label) > 2)
  <2>1. Len(label) > 2 => Len(Format(label)) = Len(label) - 1
    BY FormatKeepsApplication
  <2>2. PICK k \in Nat : k = Len(label)
    BY <1>1
  <2>3. ~(k > 2 /\ k - 1 = 1)
    OBVIOUS
  <2> QED
    BY <1>1, <2>1, <2>2, <2>3
<1> QED
  BY <1>2 DEF Format

-----------------------------------------------------------------------------
(* The inductive invariant: what a call of the cached agent has to do with *)
(* the request that led to it.                                             *)

\* No label has more than a package, an application and a version, and no
\* version is stored.
ShortIds ==
    /\ \A ask \in Asks : Len(ask.label) <= 3
    /\ \A key \in Keys : Len(key.from) <= 2

AskOK(c) ==
    /\ pc[c] \in Active \cup {"returned"} => asked[c] \in Asks /\ params[c] = KeyFor(asked[c])
    /\ listed[c] => asked[c] \in Asks /\ WhiteListed(Format(asked[c].label))
    /\ ShortIds /\ decided[c] => known[c]

ChainTypeOK ==
    /\ listed \in [Callers -> BOOLEAN]
    /\ decided \in [Callers -> BOOLEAN]
    /\ asked \in [Callers -> Asks \cup {Null}]

ChainInv == ChainTypeOK /\ \A c \in Callers : AskOK(c)

\* The id that a decision is stored under, and that of another version.
LEMMA SameId ==
    ASSUME NEW l \in Seq(STRING), Len(l) <= 2, NEW m \in Seq(STRING), Len(m) <= 3,
           NewerOrOlder(l, m)
    PROVE  l = Format(m)
<1>1. Len(l) = 2 /\ Len(m) \in 2..3
  <2>1. PICK n \in Nat : n = Len(l)
    OBVIOUS
  <2>2. PICK k \in Nat : k = Len(m)
    OBVIOUS
  <2>3. n > 1 /\ n <= 2 /\ k > 1 /\ k <= 3
    BY <2>1, <2>2 DEF NewerOrOlder
  <2>4. n = 2 /\ k \in 2..3
    BY ONLY <2>3
  <2> QED
    BY <2>1, <2>2, <2>4
<1>2. SubSeq(l, 1, 2) = l
  BY <1>1, SubSeqFull
<1>3. l = SubSeq(m, 1, 2)
  BY <1>2 DEF NewerOrOlder, SameApplication
<1> QED
  BY <1>1, <1>3, FormatIsFirstTwo

\* A decision about another version was stored under the key of this one.
LEMMA DecidedIsStored ==
    ASSUME TypeOK, ShortIds, NEW ask \in Asks, NEW id \in DOMAIN rows,
           NewerOrOlder(rows[id].from, ask.label), AsUint64(rows[id].feature) = ask.feature
    PROVE  KeyOf(rows[id]) = KeyFor(ask)
<1>1. rows[id].from \in Apps
  BY DEF TypeOK, Row
<1>2. PICK key \in Keys : key.from = rows[id].from
  BY <1>1 DEF Apps
<1>3. key.from \in Seq(STRING) /\ Len(key.from) <= 2
  BY ChainAssumption DEF ShortIds
<1>4. ask.label \in Seq(STRING) /\ Len(ask.label) <= 3
  BY ChainAssumption DEF ShortIds
<1>5. key.from = Format(ask.label)
  BY <1>2, <1>3, <1>4, SameId
<1> QED
  BY <1>2, <1>5 DEF KeyOf, KeyFor

LEMMA ChainInvInit == ChainInit => ChainInv
BY DEF ChainInit, Init, ChainInv, ChainTypeOK, AskOK, Active

\* What the white list and the formatting do.
LEMMA AskStep ==
    ASSUME TypeOK, ChainInv, NEW c \in Callers, NEW ask \in Asks,
           AskListed(c, ask) \/ AskCached(c, ask)
    PROVE  ChainInv'
<1> USE DEF ChainInv
<1>1. CASE AskListed(c, ask)
  BY <1>1 DEF AskListed, ChainTypeOK, AskOK, TypeOK, Active
<1>2. CASE AskCached(c, ask)
  <2> DEFINE found == \E id \in DOMAIN rows :
                 NewerOrOlder(rows[id].from, ask.label) /\ AsUint64(rows[id].feature) = ask.feature
  <2>1. /\ asked' = [asked EXCEPT ![c] = ask] /\ listed' = [listed EXCEPT ![c] = FALSE]
        /\ decided' = [decided EXCEPT ![c] = found]
    BY <1>2 DEF AskCached
  <2>2. /\ pc' = [pc EXCEPT ![c] = "lookup"] /\ params' = [params EXCEPT ![c] = KeyFor(ask)]
        /\ known' = [known EXCEPT ![c] = Stored(KeyFor(ask))]
    BY <1>2 DEF AskCached, Call
  <2>3. ShortIds /\ found => Stored(KeyFor(ask))
    BY DecidedIsStored DEF Stored
  <2>4. found \in BOOLEAN
    OBVIOUS
  <2> HIDE DEF found
  <2>5. ChainTypeOK'
    BY <2>1, <2>4 DEF ChainTypeOK
  <2>6. AskOK(c)'
    BY <2>1, <2>2, <2>3 DEF ChainTypeOK, AskOK, TypeOK
  <2>7. ASSUME NEW d \in Callers, d # c PROVE AskOK(d)'
    BY <2>1, <2>2, <2>7 DEF ChainTypeOK, AskOK, TypeOK
  <2> QED
    BY <2>5, <2>6, <2>7
<1> QED
  BY <1>1, <1>2

\* What the cached agent, the clients of the store and the preseed tool do.
LEMMA ChainStays ==
    ASSUME ChainInv, UNCHANGED <<asked, listed, decided, params, known>>,
           \A c \in Callers : pc'[c] \in Active \cup {"returned"} => pc[c] \in Active \cup {"returned"}
    PROVE  ChainInv'
BY DEF ChainInv, ChainTypeOK, AskOK

LEMMA AgentStep ==
    ASSUME TypeOK, ChainInv, UNCHANGED chain,
           \/ \E c \in Callers : Progress(c)
           \/ \E key \in Keys, a \in Answer : Decide(key, a)
           \/ \E key \in Keys : RemoveApplication(key.from)
           \/ Reset
           \/ \E s \in Skews : SetClock(s)
           \/ \E requests \in Preseeds : Preseed(requests)
           \/ Seed \/ SeedThrows
    PROVE  ChainInv'
<1>1. UNCHANGED <<asked, listed, decided>>
  BY DEF chain
<1>2. ASSUME NEW c \in Callers, Progress(c)
      PROVE  ChainInv'
  <2>1. params' = params /\ known' = known
    BY <1>2 DEF Progress, LookupHits, LookupMisses, Throws, UserAnswers, Stamp, Insert, InsertThrows,
                ghosts
  <2>2. pc[c] \in Active /\ \A d \in Callers \ {c} : pc'[d] = pc[d]
    BY <1>2 DEF Progress, LookupHits, LookupMisses, Throws, UserAnswers, Stamp, Insert, InsertThrows,
                TypeOK, Active
  <2> QED
    BY <1>1, <2>1, <2>2, ChainStays
<1>3. CASE UNCHANGED <<calls, known>>
  BY <1>1, <1>3, ChainStays DEF calls
<1> QED
  BY <1>2, <1>3 DEF Decide, RemoveApplication, Reset, Remove, SetClock, Preseed, Seed, SeedThrows, ghosts

-----------------------------------------------------------------------------
(* The invariant of the cached agent, in the chain.                        *)

\* A request that the white list grants ends the caller's last call.
LEMMA ListedKeepsType ==
    ASSUME TypeInv, NEW c \in Callers, NEW ask \in Asks, AskListed(c, ask)
    PROVE  TypeInv'
BY DEF TypeInv, TypeOK, SeedsNamed, CallsTyped, AskListed, store, clock, Active

LEMMA ListedKeepsInv ==
    ASSUME Inv, NEW c \in Callers, NEW ask \in Asks, AskListed(c, ask)
    PROVE  Inv'
<1>1. TypeInv'
  BY ListedKeepsType DEF Inv
<1>2. UNCHANGED <<rows, seeds, given>>
  BY DEF AskListed, store
<1>3. RowsGiven' /\ SeedsGiven' /\ \A k : Stored(k) => Stored(k)'
  BY <1>2 DEF Inv, RowsGiven, SeedsGiven, Stored
<1>4. TypeOK
  BY DEF Inv, TypeInv
<1>5. \A d \in Callers \ {c} :
         /\ pc'[d] = pc[d] /\ params'[d] = params[d] /\ answer'[d] = answer[d]
         /\ known'[d] = known[d] /\ removed'[d] = removed[d]
  BY <1>4 DEF AskListed, TypeOK
<1>6. pc'[c] = "idle"
  BY <1>4 DEF AskListed, TypeOK
<1>7. CallGiven(c)' /\ CallUpToDate(c)'
  BY <1>6 DEF CallGiven, CallUpToDate
<1> QED
  BY <1>1, <1>2, <1>3, <1>5, <1>7, CallStays DEF Inv

\* A request that is not listed is a call of the cached agent; the other steps
\* are the agent's own.
LEMMA ChainStepIsAgentStep ==
    ASSUME [ChainNext]_<<vars, chain>>
    PROVE  \/ \E c \in Callers, ask \in Asks : AskListed(c, ask)
           \/ [Next]_vars
<1>1. ASSUME NEW c \in Callers, NEW ask \in Asks, AskCached(c, ask)
      PROVE  \E d \in Callers, key \in Keys : Call(d, key)
  <2>1. KeyFor(ask) \in Keys
    BY <1>1, ChainAssumption DEF AskCached
  <2> QED
    BY <1>1, <2>1 DEF AskCached
<1> QED
  BY <1>1 DEF ChainNext, Next

LEMMA ChainInvStep ==
    ASSUME TypeOK, ChainInv, [ChainNext]_<<vars, chain>>
    PROVE  ChainInv'
<1>1. CASE UNCHANGED <<vars, chain>>
  BY <1>1, ChainStays DEF vars, chain, calls, ghosts
<1>2. CASE ChainNext
  BY <1>2, AskStep, AgentStep DEF ChainNext
<1> QED
  BY <1>1, <1>2

LEMMA ChainTypeInvariant == ChainSpec => [](TypeInv /\ ChainInv)
<1>1. ChainInit => TypeInv /\ ChainInv
  BY TypeInit, ChainInvInit DEF ChainInit
<1>2. TypeInv /\ ChainInv /\ [ChainNext]_<<vars, chain>> => TypeInv' /\ ChainInv'
  BY ChainStepIsAgentStep, ListedKeepsType, TypeStep, ChainInvStep DEF TypeInv
<1> QED
  BY <1>1, <1>2, PTL DEF ChainSpec

LEMMA ChainInvariant ==
    ASSUME PlainKeys
    PROVE  ChainSpec => [](Inv /\ ChainInv)
<1>1. ChainInit => Inv /\ ChainInv
  BY InvInit, ChainInvInit DEF ChainInit
<1>2. Inv /\ ChainInv /\ [ChainNext]_<<vars, chain>> => Inv' /\ ChainInv'
  BY ChainStepIsAgentStep, ListedKeepsInv, InvStep, ChainInvStep DEF Inv, TypeInv
<1> QED
  BY <1>1, <1>2, PTL DEF ChainSpec

-----------------------------------------------------------------------------
(* Theorems.                                                               *)

\* The types, in the daemon: rows bear the ids that the formatting agent leaves.
THEOREM DaemonTypeOK == ChainSpec => []TypeOK
<1>1. TypeInv => TypeOK
  BY DEF TypeInv
<1> QED
  BY <1>1, ChainTypeInvariant, PTL

\* The properties of the cached agent hold for the requests that the agents in
\* front of it let through.
THEOREM DaemonAnswers ==
    ASSUME PlainKeys
    PROVE  ChainSpec => [](/\ AnswersAreTheUsers /\ RowsAreTheUsers
                           /\ KnownAnswerIsNotAskedFor /\ StoreIsUpToDateOnReturn)
<1>1. Inv => /\ AnswersAreTheUsers /\ RowsAreTheUsers
             /\ KnownAnswerIsNotAskedFor /\ StoreIsUpToDateOnReturn
  BY InvImplies
<1> QED
  BY <1>1, ChainInvariant, PTL

\* Each row of the store, preseeded ones included, holds an answer that was
\* given for its application and feature (process_trust_request, Store::add).
COROLLARY DaemonRows ==
    ASSUME PlainKeys
    PROVE  ChainSpec => []RowsAreTheUsers
BY DaemonAnswers, PTL

\* A call that begins with an answer in the store does not prompt
\* (CachedAgent), whatever other calls and clients do meanwhile.
COROLLARY DaemonAsksOnce ==
    ASSUME PlainKeys
    PROVE  ChainSpec => []KnownAnswerIsNotAskedFor
BY DaemonAnswers, PTL

\* A call that returns leaves an answer for its key in the store, unless one is
\* removed after the call began (CachedAgent, process_trust_request).
COROLLARY DaemonUpToDate ==
    ASSUME PlainKeys
    PROVE  ChainSpec => []StoreIsUpToDateOnReturn
BY DaemonAnswers, PTL

\* A request that the white list grants takes no stamp and withdraws none.
LEMMA ListedKeepsOrder ==
    ASSUME TypeInv, OrderInv, NEW c \in Callers, NEW ask \in Asks, AskListed(c, ask)
    PROVE  OrderInv'
<1>1. TypeOK /\ TypeOK'
  BY ListedKeepsType DEF TypeInv
<1>2. /\ UNCHANGED <<rows, stamped, stamp, seeds, now, skew, epoch, answered>>
      /\ pc'[c] = "idle" /\ \A d \in Callers \ {c} : pc'[d] = pc[d]
  BY <1>1 DEF AskListed, TypeOK, store, clock
<1>3. now \in Nat /\ skew \in Int
  BY <1>1, ClockType DEF TypeOK
<1>4. Stamps' \subseteq Stamps
  BY <1>2 DEF Stamps, RowStamps, CallStamps, SeedStamps
<1>5. AnswersInPast'
  BY <1>1, <1>2, <1>3, AnswersStay DEF OrderInv
<1> QED
  BY <1>1, <1>2, <1>3, <1>4, <1>5, OrderStep DEF OrderInv

LEMMA ChainOrderInvariant == ChainSpec => [](TypeInv /\ OrderInv)
<1>1. ChainInit => TypeInv /\ OrderInv
  BY TypeInit, OrderInit DEF ChainInit
<1>2. TypeInv /\ OrderInv /\ [ChainNext]_<<vars, chain>> => TypeInv' /\ OrderInv'
  BY ChainStepIsAgentStep, ListedKeepsType, ListedKeepsOrder, TypeStep, OrderInvStep
<1> QED
  BY <1>1, <1>2, PTL DEF ChainSpec

\* In the daemon too, an answer that was given after another one had been stamped
\* is not passed over for it; the white list makes no call return.
THEOREM DaemonMostRecent ==
    ASSUME PlainKeys
    PROVE  ChainSpec => MostRecentAnswerIsTaken
<1>1. ASSUME Inv, NEW c \in Callers, NEW ask \in Asks, AskListed(c, ask), NEW d \in Callers
      PROVE  TakesMostRecent(d)
  BY <1>1 DEF Inv, TypeInv, TypeOK, AskListed, TakesMostRecent
<1>2. Inv /\ OrderInv /\ [ChainNext]_<<vars, chain>> => [\A c \in Callers : TakesMostRecent(c)]_vars
  BY <1>1, ChainStepIsAgentStep, StepTakesMostRecent
<1> QED
  BY <1>2, ChainInvariant, ChainOrderInvariant, PTL
     DEF ChainSpec, MostRecentAnswerIsTaken

\* Nothing is granted but to unconfined processes, to the camera where it is
\* listed, and to applications that the user granted the feature to
\* (WhiteListingAgent, AppIdFormattingTrustAgent, CachedAgent), for labels of
\* any number of parts.
THEOREM GrantsAreTheUsersOrListed ==
    ASSUME PlainKeys
    PROVE  ChainSpec => []GrantedOnlyByUserOrList
<1>1. ASSUME Inv, ChainInv, NEW c \in Callers, asked[c] # Null, Granted(c)
      PROVE  \/ asked[c].label = Unconfined
             \/ ListCamera /\ SameApplication(asked[c].label, Camera)
             \/ \E g \in given :
                   /\ g.answer = "granted"
                   /\ g.key.feature = asked[c].feature
                   /\ SameApplication(g.key.from, asked[c].label)
  <2>1. AskOK(c) /\ asked[c] \in Asks
    BY <1>1 DEF ChainInv, ChainTypeOK
  <2>2. asked[c].label \in Seq(STRING)
    BY <2>1, ChainAssumption
  <2>3. CASE listed[c]
    <3>1. WhiteListed(Format(asked[c].label))
      BY <2>1, <2>3 DEF AskOK
    <3>2. CASE Format(asked[c].label) = Unconfined
      BY <2>2, <3>2, FormatUnconfined
    <3>3. CASE ListCamera /\ Format(asked[c].label) = Camera
      BY <2>2, <3>3, FormatKeepsApplication DEF SameApplication
    <3> QED
      BY <3>1, <3>2, <3>3 DEF WhiteListed
  <2>4. CASE pc[c] = "returned" /\ answer[c] = "granted"
    <3>1. params[c] = KeyFor(asked[c])
      BY <2>1, <2>4 DEF AskOK
    <3>2. [key |-> KeyFor(asked[c]), answer |-> "granted"] \in given
      BY <1>1, <2>4, <3>1 DEF Inv, CallGiven
    <3>3. SameApplication(Format(asked[c].label), asked[c].label)
      BY <2>2, FormatKeepsApplication DEF SameApplication
    <3> QED
      BY <3>2, <3>3 DEF KeyFor
  <2> QED
    BY <1>1, <2>3, <2>4 DEF Granted
<1>2. Inv /\ ChainInv => GrantedOnlyByUserOrList
  BY <1>1 DEF GrantedOnlyByUserOrList
<1> QED
  BY <1>2, ChainInvariant, PTL

\* Whoever decided about an application is not asked again in another version of
\* it: the ids that are stored and looked up bear no version.
THEOREM DecisionsSurvive ==
    ASSUME PlainKeys, ShortIds
    PROVE  ChainSpec => []DecisionsOutliveUpgrades
<1>1. Inv /\ ChainInv => DecisionsOutliveUpgrades
  BY DEF Inv, ChainInv, AskOK, CallUpToDate, DecisionsOutliveUpgrades
<1> QED
  BY <1>1, ChainInvariant, PTL
=============================================================================
