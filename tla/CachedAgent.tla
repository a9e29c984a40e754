---------------------------- MODULE CachedAgent ----------------------------
(***************************************************************************)
(* core::trust::CachedAgent::authenticate_request_with_parameters          *)
(* (cached_agent.cpp) and core::trust::process_trust_request (request.cpp),*)
(* which take the same steps: look the application and the feature up in   *)
(* the store, prompt the user if nothing is found, add the answer.         *)
(*                                                                         *)
(* Neither takes a lock: several calls can be under way on the same store, *)
(* next to the clients that add, remove and reset through the store itself *)
(* (a settings application, over the bus) and the preseed tool, a process  *)
(* of its own with the same database (preseed.cpp).  A lookup uses a query *)
(* object of its own, and the one step of it that touches shared state is  *)
(* its execute(); an answer is stamped with the wallclock before add()     *)
(* takes the store's lock.  The user, the prompting agent and the clock    *)
(* are external.                                                           *)
(***************************************************************************)
EXTENDS RequestsTable, Sequences

CONSTANTS
    Callers,   \* the threads that call the agent
    Keys,      \* the [from, feature] pairs they ask about
    Preseeds,  \* the command lines of the preseed tool: sequences of requests
    Skews,     \* how far the wallclock can be off
    MaxId,     \* bound: the largest row id
    MaxTime,   \* bound: the answers given and stamped in a behaviour
    MaxSetBacks \* bound: how often the wallclock is set back

ASSUME CachedAgentAssumption ==
    /\ Keys \subseteq [from : {key.from : key \in Keys}, feature : Nat]
    /\ Null \notin {key.from : key \in Keys} \cup Int \cup Answer
    /\ Null # EmptyId
    /\ Preseeds \subseteq Seq([key : Keys, answer : Answer])
    \* A word is read from the command line, or the request is not parsed.
    /\ \A requests \in Preseeds : \A i \in DOMAIN requests : requests[i].key.from # EmptyId
    /\ Skews \subseteq Int /\ 0 \in Skews
    /\ MaxId \in Nat /\ MaxTime \in Nat /\ MaxSetBacks \in Nat

VARIABLES
    rows, insert_from, insert_failed,  \* the store, as in TrustStore
    now,      \* true time: it passes when an answer is given or stamped
    skew,     \* what the wallclock adds to it
    pc,       \* where each call is
    params,   \* what each call asks about
    answer,   \* what it got from the user or the store
    stamp,    \* the time it stamped the answer with, and the moments behind it
    seeds,    \* the stamped requests that a preseed tool has still to add
    \* Not in the code, for the properties:
    epoch,    \* how often the wallclock was set back
    stamped,  \* the moments behind the time stamp of each row
    answered, \* when the user answered each call
    given,    \* the answers ever given, by the user or to the tool, with what they were given for
    known,    \* whether the store had an answer when the call began
    removed   \* whether one was removed since

store == <<rows, insert_from, insert_failed, stamped>>
clock == <<now, skew, epoch>>
calls == <<pc, params, answer, stamp>>
ghosts == <<given, answered, known, removed>>
vars == <<store, clock, calls, seeds, ghosts>>

Apps == {key.from : key \in Keys}

Row == [from : Apps \ {EmptyId}, feature : Int, when : Int, answer : Answer]

Wallclock == now + skew

\* When an answer was given, when it was stamped, and under which setting of
\* the clock, all in true time.
Moment == [given : Nat, stamped : Nat, epoch : Nat]

MomentOf(g, t) == [given |-> g, stamped |-> t, epoch |-> epoch]

NoStamp == <<0, [given |-> 0, stamped |-> 0, epoch |-> 0]>>

Active == {"lookup", "prompting", "answered", "inserting"}

\* Mutant: for_feature() is forgotten.
LookupAnyFeature(key) == [Unnarrowed EXCEPT !.app = BindText(@, key.from)]

\* Mutant: only granted requests are looked up.
LookupGranted(key) ==
    [Unnarrowed EXCEPT !.app = BindText(@, key.from), !.feature = AsInt64(key.feature),
                       !.answer = "granted"]

\* query(), for_application_id() and for_feature().
Lookup(key) ==
    [Unnarrowed EXCEPT !.app = BindText(@, key.from), !.feature = AsInt64(key.feature)]

\* What a row was stored for, as it reads back.
KeyOf(row) == [from |-> row.from, feature |-> AsUint64(row.feature)]

Stored(key) == \E id \in DOMAIN rows : KeyOf(rows[id]) = key

Init ==
    /\ rows = EmptyTable
    /\ stamped = EmptyTable
    /\ insert_from = Null
    /\ insert_failed = FALSE
    /\ now = 0
    /\ skew = 0
    /\ epoch = 0
    /\ pc = [c \in Callers |-> "idle"]
    /\ params = [c \in Callers |-> Null]
    /\ answer = [c \in Callers |-> Null]
    /\ stamp = [c \in Callers |-> NoStamp]
    /\ seeds = <<>>
    /\ given = {}
    /\ answered = [c \in Callers |-> 0]
    /\ known = [c \in Callers |-> FALSE]
    /\ removed = [c \in Callers |-> FALSE]

-----------------------------------------------------------------------------
(* A call.                                                                 *)

Call(c, key) ==
    /\ pc[c] \notin Active
    /\ pc' = [pc EXCEPT ![c] = "lookup"]
    /\ params' = [params EXCEPT ![c] = key]
    /\ answer' = [answer EXCEPT ![c] = Null]
    /\ known' = [known EXCEPT ![c] = Stored(key)]
    /\ removed' = [removed EXCEPT ![c] = FALSE]
    /\ UNCHANGED <<store, clock, stamp, seeds, given, answered>>

\* execute() found results: the first one is the answer.
LookupHits(c) ==
    /\ pc[c] = "lookup"
    /\ \E l \in Listings(rows, Lookup(params[c])) :
          /\ l # <<>>
          /\ answer' = [answer EXCEPT ![c] = rows[l[1]].answer]
    /\ pc' = [pc EXCEPT ![c] = "returned"]
    /\ UNCHANGED <<store, clock, params, stamp, seeds, ghosts>>

LookupMisses(c) ==
    /\ pc[c] = "lookup"
    /\ Selected(rows, Lookup(params[c])) = {}
    /\ pc' = [pc EXCEPT ![c] = "prompting"]
    /\ UNCHANGED <<store, clock, params, answer, stamp, seeds, ghosts>>

\* A failure in SQLite, or the agent's: no conclusive answer.
Throws(c) ==
    /\ pc[c] \in {"lookup", "prompting"}
    /\ pc' = [pc EXCEPT ![c] = "thrown"]
    /\ UNCHANGED <<store, clock, params, answer, stamp, seeds, ghosts>>

UserAnswers(c, a) ==
    /\ pc[c] = "prompting"
    /\ now < MaxTime
    /\ pc' = [pc EXCEPT ![c] = "answered"]
    /\ answer' = [answer EXCEPT ![c] = a]
    /\ now' = now + 1
    /\ given' = given \cup {[key |-> params[c], answer |-> a]}
    /\ answered' = [answered EXCEPT ![c] = now]
    /\ UNCHANGED <<store, skew, epoch, params, stamp, seeds, known, removed>>

\* system_clock::now(), an argument of the call of add(): the answer travels
\* back from the prompt and is reported before it is stamped.
Stamp(c) ==
    /\ pc[c] = "answered"
    /\ now < MaxTime
    /\ pc' = [pc EXCEPT ![c] = "inserting"]
    /\ now' = now + 1
    /\ stamp' = [stamp EXCEPT ![c] = <<Wallclock, MomentOf(answered[c], now)>>]
    /\ answered' = [answered EXCEPT ![c] = 0]
    /\ UNCHANGED <<store, skew, epoch, params, answer, seeds, given, known, removed>>

\* A row with the given text, feature, answer and time stamp is inserted.
AddRow(from, feature, a, when) ==
    \E id \in 1..MaxId :
        /\ IsNextId(id, rows)
        /\ rows' = [i \in DOMAIN rows \cup {id} |->
              IF i = id
              THEN RowOf([feature |-> feature, when |-> when[1], answer |-> a], from)
              ELSE rows[i]]
        /\ stamped' = [i \in DOMAIN rows \cup {id} |-> IF i = id THEN when[2] ELSE stamped[i]]

\* What Store::add() does for a key, an answer and a time stamp.
StoreAdd(key, a, when) ==
    /\ ~insert_failed
    /\ insert_from' = BindText(insert_from, key.from)
    /\ insert_from' # Null
    /\ AddRow(insert_from', key.feature, a, when)
    /\ UNCHANGED insert_failed

\* add() throws: its step fails, or its reset() reports that the last one did.
StoreAddThrows(key) ==
    /\ insert_failed' = ~insert_failed
    /\ insert_from' = IF insert_failed THEN insert_from ELSE BindText(insert_from, key.from)
    /\ UNCHANGED <<rows, stamped>>

Insert(c) ==
    /\ pc[c] = "inserting"
    /\ StoreAdd(params[c], answer[c], stamp[c])
    /\ stamp' = [stamp EXCEPT ![c] = NoStamp]
    /\ pc' = [pc EXCEPT ![c] = "returned"]
    /\ UNCHANGED <<clock, params, answer, seeds, ghosts>>

\* Mutant: an exception of add() is swallowed.
InsertSwallowed(c) ==
    /\ pc[c] = "inserting"
    /\ StoreAddThrows(params[c])
    /\ stamp' = [stamp EXCEPT ![c] = NoStamp]
    /\ pc' = [pc EXCEPT ![c] = "returned"]
    /\ UNCHANGED <<clock, params, answer, seeds, ghosts>>

InsertThrows(c) ==
    /\ pc[c] = "inserting"
    /\ StoreAddThrows(params[c])
    /\ stamp' = [stamp EXCEPT ![c] = NoStamp]
    /\ pc' = [pc EXCEPT ![c] = "thrown"]
    /\ answer' = [answer EXCEPT ![c] = Null]
    /\ UNCHANGED <<clock, params, seeds, ghosts>>

-----------------------------------------------------------------------------
(* The other clients of the store, and the clock.                          *)

\* The user records a decision without having been prompted.
Decide(key, a) ==
    /\ now < MaxTime
    /\ StoreAdd(key, a, <<Wallclock, MomentOf(now, now)>>)
    /\ now' = now + 1
    /\ given' = given \cup {[key |-> key, answer |-> a]}
    /\ UNCHANGED <<skew, epoch, calls, seeds, answered, known, removed>>

Remove(ids) ==
    /\ rows' = Restrict(rows, DOMAIN rows \ ids)
    /\ stamped' = Restrict(stamped, DOMAIN rows \ ids)
    /\ removed' = [c \in Callers |->
          removed[c] \/ \E id \in DOMAIN rows \cap ids : KeyOf(rows[id]) = params[c]]
    /\ UNCHANGED <<insert_from, insert_failed, clock, calls, seeds, given, answered, known>>

\* One that throws removes nothing, and its statement is not modelled here.
RemoveApplication(app) == Remove({id \in DOMAIN rows : rows[id].from = app})

Reset == Remove(DOMAIN rows)

\* system_clock is not monotonic: it can be set.
SetClock(s) ==
    /\ skew # s
    /\ skew' = s
    /\ IF s < skew THEN epoch < MaxSetBacks /\ epoch' = epoch + 1 ELSE UNCHANGED epoch
    /\ UNCHANGED <<store, now, calls, seeds, ghosts>>

-----------------------------------------------------------------------------
(* The preseed tool.                                                       *)

\* Configuration::parse_from_command_line: all requests are parsed and stamped
\* before the first one is added; what cannot be parsed ends the tool here.
Preseed(requests) ==
    /\ seeds = <<>>
    /\ now + Len(requests) <= MaxTime
    /\ now' = now + Len(requests)
    /\ seeds' = [i \in DOMAIN requests |->
          [key |-> requests[i].key, answer |-> requests[i].answer,
           when |-> <<Wallclock + i - 1, MomentOf(now + i - 1, now + i - 1)>>]]
    /\ given' = given \cup Range(requests)
    /\ UNCHANGED <<store, skew, epoch, calls, answered, known, removed>>

\* Preseed::main adds them one by one, with a statement of its own, and ends
\* with the first that fails: the database can be locked by the daemon.
Seed ==
    /\ seeds # <<>>
    /\ LET s == Head(seeds) IN AddRow(s.key.from, s.key.feature, s.answer, s.when)
    /\ seeds' = Tail(seeds)
    /\ UNCHANGED <<insert_from, insert_failed, clock, calls, ghosts>>

SeedThrows ==
    /\ seeds # <<>>
    /\ seeds' = <<>>
    /\ UNCHANGED <<store, clock, calls, ghosts>>

-----------------------------------------------------------------------------
Progress(c) ==
    \/ LookupHits(c) \/ LookupMisses(c) \/ Throws(c)
    \/ \E a \in Answer : UserAnswers(c, a)
    \/ Stamp(c) \/ Insert(c) \/ InsertThrows(c)

Next ==
    \/ \E c \in Callers, key \in Keys : Call(c, key)
    \/ \E c \in Callers : Progress(c)
    \/ \E key \in Keys, a \in Answer : Decide(key, a)
    \/ \E key \in Keys : RemoveApplication(key.from)
    \/ Reset
    \/ \E s \in Skews : SetClock(s)
    \/ \E requests \in Preseeds : Preseed(requests)
    \/ Seed \/ SeedThrows

Spec == Init /\ [][Next]_vars

-----------------------------------------------------------------------------
(* Properties.                                                             *)

TypeOK ==
    /\ DOMAIN rows \subseteq 1..MaxId
    /\ rows \in [DOMAIN rows -> Row]
    /\ stamped \in [DOMAIN rows -> Moment]
    /\ insert_from \in (Apps \ {EmptyId}) \cup {Null}
    /\ insert_failed \in BOOLEAN
    /\ now \in 0..MaxTime
    /\ skew \in Skews
    /\ epoch \in 0..MaxSetBacks
    /\ pc \in [Callers -> {"idle", "returned", "thrown"} \cup Active]
    /\ params \in [Callers -> Keys \cup {Null}]
    /\ answer \in [Callers -> Answer \cup {Null}]
    /\ stamp \in [Callers -> Int \X Moment]
    /\ seeds \in Seq([key : Keys, answer : Answer, when : Int \X Moment])
    /\ given \subseteq [key : Keys, answer : Answer]
    /\ answered \in [Callers -> Nat]
    /\ known \in [Callers -> BOOLEAN]
    /\ removed \in [Callers -> BOOLEAN]

\* A call only ever returns an answer that the user gave for that application
\* and that feature, in this call or an earlier one, or that it was preseeded
\* with: no answer is made up, and none is carried over from another application
\* or feature.
AnswersAreTheUsers ==
    \A c \in Callers : pc[c] = "returned" =>
        [key |-> params[c], answer |-> answer[c]] \in given

\* The same for what the store holds.
RowsAreTheUsers ==
    \A id \in DOMAIN rows : [key |-> KeyOf(rows[id]), answer |-> rows[id].answer] \in given

\* A call that begins when the store has an answer does not prompt, unless an
\* answer is removed meanwhile: whatever other calls and clients do.
KnownAnswerIsNotAskedFor ==
    \A c \in Callers : known[c] /\ ~removed[c] =>
        pc[c] \notin {"prompting", "answered", "inserting"}

\* request.h: "On return, the given trust-store is up-to-date": it has an
\* answer for what was asked, unless one was removed meanwhile.
StoreIsUpToDateOnReturn ==
    \A c \in Callers : pc[c] = "returned" => Stored(params[c]) \/ removed[c]

\* The answer of row j was given when that of row i was already stamped, and the
\* clock was not set back between the two stamps.
GivenAfterStamp(j, i) ==
    /\ stamped[j].epoch = stamped[i].epoch
    /\ stamped[j].given > stamped[i].stamped

\* A lookup of call c returns a row of its key that was not stamped before an
\* answer to the same question was given.
TakesMostRecent(c) ==
    pc[c] = "lookup" /\ pc'[c] = "returned" =>
        \E i \in DOMAIN rows :
            /\ KeyOf(rows[i]) = params[c]
            /\ rows[i].answer = answer'[c]
            /\ \A j \in DOMAIN rows : KeyOf(rows[j]) = params[c] => ~GivenAfterStamp(j, i)

\* cached_agent.cpp: "we take the most recent one as the most appropriate": an
\* answer that was given after another one had been stamped is never passed over
\* for it, in whatever order the calls, the other clients and the preseed tool
\* then store the two.  It is not the answer given last: of two answers that are
\* both given before either is stamped, the one given first can be stamped last,
\* and is taken then.  Nor is anything said of two stamps between which the clock
\* was set back.
MostRecentAnswerIsTaken ==
    [][\A c \in Callers : TakesMostRecent(c)]_vars
=============================================================================
