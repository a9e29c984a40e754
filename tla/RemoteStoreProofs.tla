-------------------------- MODULE RemoteStoreProofs --------------------------
(***************************************************************************)
(* Proofs about RemoteStore: for any number of clients, queries, calls     *)
(* under way and starts of the daemon.                                     *)
(***************************************************************************)
EXTENDS RemoteStore, SequenceTheorems, TLAPS

OnQuery == QueryMethods \cup {"RemoveQuery"}

\* What waits for the daemon.  There is a handle where the method needs one,
\* and a path for the query that is asked for.
InboxOK ==
    /\ \A i \in DOMAIN inbox :
          /\ inbox[i].method \in OnQuery => inbox[i].on \in Handle
          /\ inbox[i].method = "AddQuery" => counter < MaxQueries
    /\ \A i, j \in PendingQueries : i = j

\* A client between and during its calls.
ClientsOK ==
    \A c \in Clients :
        /\ call[c] \in OnQuery => handle[c] # Null
        /\ call[c] = "AddQuery" => handle[c] = Null
        /\ call[c] = Null => reply[c] = Null
        /\ reply[c] # Null /\ reply[c].query # Null => call[c] = "AddQuery"
        /\ reply[c] # Null /\ ~reply[c].error => applied[c]

DaemonOK ==
    /\ alive => run >= 1
    /\ ~alive => inbox = <<>> /\ query = [p \in Paths |-> Null]

\* A call that is waited for is the one its client makes, and has no reply.
AwaitedOK ==
    \A i \in DOMAIN inbox : inbox[i].awaited =>
        /\ call[inbox[i].client] = inbox[i].method
        /\ reply[inbox[i].client] = Null
        /\ \A j \in DOMAIN inbox : inbox[j].awaited /\ inbox[j].client = inbox[i].client => j = i

TypeInv == TypeOK /\ InboxOK /\ ClientsOK /\ DaemonOK /\ AwaitedOK

\* A client has a Query, or is about to have it.
Holds(c, h) == handle[c] = h \/ (reply[c] # Null /\ reply[c].query = h)

\* The paths of this run that have been given out are below the counter.
Given(h) == h.run <= run /\ (alive /\ h.run = run => h.path < counter)

HandlesGiven ==
    /\ \A c \in Clients, h \in Handle : Holds(c, h) => Given(h)
    /\ \A i \in DOMAIN inbox : inbox[i].on # Null => Given(inbox[i].on)

OneHolder == \A c, d \in Clients, h \in Handle : Holds(c, h) /\ Holds(d, h) => c = d

\* A query to be removed is nobody's, or that of the client that has said so.
RemovesOK ==
    \A i \in DOMAIN inbox, c \in Clients :
        /\ inbox[i].method = "RemoveQuery"
        /\ Holds(c, inbox[i].on)
        => handle[c] = inbox[i].on /\ call[c] = "RemoveQuery"

Removing(h) == \E i \in DOMAIN inbox : inbox[i].method = "RemoveQuery" /\ inbox[i].on = h

\* What a client has said it is done with is on its way or gone.
Removed ==
    \A c \in Clients :
        call[c] = "RemoveQuery" /\ alive /\ handle[c].run = run =>
            Removing(handle[c]) \/ query[handle[c].path] = Null

HandlesOwn ==
    \A c \in Clients, h \in Handle :
        /\ Holds(c, h) /\ call[c] # "RemoveQuery"
        /\ alive /\ h.run = run /\ h.path \notin misdirected
        => query[h.path] = c

\* The clients that will not hear of the query they asked for.
GivenUp ==
    \A i \in DOMAIN inbox :
        inbox[i].method = "AddQuery" /\ ~inbox[i].awaited => inbox[i].client \in lost

Released ==
    \A p \in Paths \ misdirected, h \in Handle :
        h = [path |-> p, run |-> run] /\ query[p] # Null /\ query[p] \notin lost =>
            Holds(query[p], h) \/ Removing(h)

Inv ==
    /\ TypeInv
    /\ HandlesGiven /\ OneHolder /\ RemovesOK /\ Removed /\ HandlesOwn
    /\ GivenUp /\ Released

-----------------------------------------------------------------------------
(* The inbox.                                                              *)

\* The values that stand for nothing.
LEMMA Nothing ==
    /\ Null \notin Clients /\ Null \notin Methods /\ Null \notin Handle /\ Null \notin Reply
    /\ MaxQueries \in Nat /\ MaxCalls \in Nat /\ MaxRuns \in Nat
BY RemoteStoreAssumption

LEMMA Replies ==
    /\ Error \in Reply /\ Error # Null /\ Error.error /\ Error.query = Null
    /\ \A q \in Handle \cup {Null} :
          Returns(q) \in Reply /\ Returns(q) # Null /\ ~Returns(q).error /\ Returns(q).query = q
<1>1. Error \in Reply /\ Error.error /\ Error.query = Null
  BY DEF Error, Reply
<1>2. ASSUME NEW q \in Handle \cup {Null}
      PROVE  Returns(q) \in Reply /\ ~Returns(q).error /\ Returns(q).query = q
  BY DEF Returns, Reply
<1> QED
  BY <1>1, <1>2, Nothing

LEMMA Domain ==
    ASSUME TypeOK
    PROVE  /\ Len(inbox) \in Nat /\ DOMAIN inbox = 1..Len(inbox)
           /\ \A i \in DOMAIN inbox : inbox[i] \in Call
BY ElementOfSeq, LenProperties DEF TypeOK

LEMMA Appended ==
    ASSUME TypeOK, NEW m \in Call, inbox' = Append(inbox, m)
    PROVE  /\ inbox' \in Seq(Call)
           /\ Len(inbox) + 1 \in DOMAIN inbox' /\ inbox'[Len(inbox) + 1] = m
           /\ \A i \in DOMAIN inbox : i \in DOMAIN inbox' /\ inbox'[i] = inbox[i]
           /\ \A i \in DOMAIN inbox' : i \in DOMAIN inbox \/ i = Len(inbox) + 1
           /\ Len(inbox) + 1 \notin DOMAIN inbox
<1>1. inbox \in Seq(Call)
  BY DEF TypeOK
<1>2. /\ inbox' \in Seq(Call) /\ Len(inbox') = Len(inbox) + 1 /\ inbox'[Len(inbox) + 1] = m
      /\ \A i \in 1..Len(inbox) : inbox'[i] = inbox[i]
  BY <1>1, AppendProperties
<1>3. DOMAIN inbox' = 1..Len(inbox) + 1
  BY <1>2, LenProperties
<1> QED
  BY <1>2, <1>3, Domain

LEMMA TailTaken ==
    ASSUME TypeOK, inbox # <<>>, inbox' = Tail(inbox)
    PROVE  /\ inbox' \in Seq(Call) /\ 1 \in DOMAIN inbox /\ Head(inbox) = inbox[1]
           /\ \A i \in DOMAIN inbox' :
                 i \in Nat /\ i + 1 # 1 /\ i + 1 \in DOMAIN inbox /\ inbox'[i] = inbox[i + 1]
           /\ \A i \in DOMAIN inbox : i # 1 => i - 1 \in DOMAIN inbox' /\ inbox'[i - 1] = inbox[i]
<1>1. inbox \in Seq(Call)
  BY DEF TypeOK
<1>2. /\ Head(inbox) = inbox[1] /\ inbox' \in Seq(Call) /\ Len(inbox') = Len(inbox) - 1
      /\ \A i \in 1..Len(inbox) - 1 : inbox'[i] = inbox[i + 1]
  BY <1>1, HeadTailProperties
<1>3. DOMAIN inbox' = 1..Len(inbox) - 1 /\ Len(inbox) # 0 /\ Len(inbox) \in Nat
  BY <1>1, <1>2, LenProperties, EmptySeq
<1> QED
  BY <1>2, <1>3, Domain

LEMMA AbandonedCalls ==
    ASSUME TypeOK, NEW c \in Clients, inbox' = Abandoned(c)
    PROVE  /\ inbox' \in Seq(Call) /\ DOMAIN inbox' = DOMAIN inbox
           /\ \A i \in DOMAIN inbox :
                 /\ inbox'[i].client = inbox[i].client /\ inbox'[i].method = inbox[i].method
                 /\ inbox'[i].on = inbox[i].on
                 /\ inbox'[i].awaited <=> inbox[i].awaited /\ inbox[i].client # c
<1>1. DOMAIN inbox' = 1..Len(inbox) /\ DOMAIN inbox' = DOMAIN inbox /\ Len(inbox) \in Nat
  BY Domain DEF Abandoned
<1>2. ASSUME NEW i \in DOMAIN inbox
      PROVE  /\ inbox'[i] \in Call
             /\ inbox'[i].client = inbox[i].client /\ inbox'[i].method = inbox[i].method
             /\ inbox'[i].on = inbox[i].on
             /\ inbox'[i].awaited <=> inbox[i].awaited /\ inbox[i].client # c
  <2>1. inbox[i] \in [client : Clients, method : Methods, awaited : BOOLEAN, on : Handle \cup {Null}]
    BY Domain DEF Call
  <2>2. inbox'[i] = IF inbox[i].client = c THEN [inbox[i] EXCEPT !.awaited = FALSE] ELSE inbox[i]
    BY DEF Abandoned
  <2> QED
    BY <2>1, <2>2 DEF Call
<1>3. inbox' = [i \in 1..Len(inbox) |-> inbox'[i]]
  BY <1>1 DEF Abandoned
<1>4. inbox' \in [1..Len(inbox) -> Call]
  BY <1>1, <1>2, <1>3
<1>5. inbox' \in Seq(Call)
  BY <1>1, <1>4, SeqDef
<1> QED
  BY <1>1, <1>2, <1>5

-----------------------------------------------------------------------------
(* Types, and that a call that succeeds was carried out.                   *)

LEMMA TypeInit == Init => TypeInv
<1> SUFFICES ASSUME Init PROVE TypeInv
  OBVIOUS
<1>1. inbox \in Seq(Call) /\ DOMAIN inbox = {}
  BY EmptySeq DEF Init
<1>2. run \in 0..MaxRuns /\ counter \in 0..MaxQueries
  BY Nothing DEF Init
<1>3. TypeOK
  BY <1>1, <1>2 DEF Init, TypeOK
<1>4. InboxOK
  BY <1>1 DEF InboxOK, PendingQueries
<1>5. ClientsOK
  BY Nothing DEF Init, ClientsOK, OnQuery, QueryMethods, Methods, StoreMethods
<1>6. DaemonOK
  BY DEF Init, DaemonOK
<1>7. AwaitedOK
  BY <1>1 DEF AwaitedOK
<1> QED
  BY <1>3, <1>4, <1>5, <1>6, <1>7 DEF TypeInv

LEMMA InvokeTypes ==
    ASSUME TypeInv, NEW c \in Clients, NEW m \in Methods, Invoke(c, m)
    PROVE  TypeInv'
<1> USE DEF TypeInv
<1> DEFINE msg == [client |-> c, method |-> m, awaited |-> TRUE,
                   on |-> IF m \in OnQuery THEN handle[c] ELSE Null]
<1>1. /\ UNCHANGED <<alive, run, counter, query, handle, applied, misdirected, lost>>
      /\ returned' = Null /\ call[c] = Null /\ call' = [call EXCEPT ![c] = m]
      /\ m = "AddQuery" => counter < MaxQueries /\ PendingQueries = {}
      /\ m \in OnQuery => handle[c] # Null
      /\ m = "AddQuery" => handle[c] = Null
  BY DEF Invoke, Callable, OnQuery, QueryMethods
<1>2. \/ alive /\ inbox' = Append(inbox, msg) /\ reply' = reply
      \/ ~alive /\ inbox' = inbox /\ reply' = [reply EXCEPT ![c] = Error]
  BY DEF Invoke, OnQuery
<1>3. Error \in Reply /\ Error.error /\ Error.query = Null /\ Error # Null
  BY Replies
<1>4. msg \in Call /\ (msg.method \in OnQuery => msg.on \in Handle) /\ msg.method = m
  <2>1. handle[c] \in Handle \cup {Null}
    BY DEF TypeOK
  <2> QED
    BY <1>1, <2>1 DEF Call
<1> HIDE DEF msg
<1>5. inbox' \in Seq(Call) /\ InboxOK'
  <2>1. CASE alive
    <3>1. /\ inbox' \in Seq(Call)
          /\ Len(inbox) + 1 \in DOMAIN inbox' /\ inbox'[Len(inbox) + 1] = msg
          /\ \A i \in DOMAIN inbox : i \in DOMAIN inbox' /\ inbox'[i] = inbox[i]
          /\ \A i \in DOMAIN inbox' : i \in DOMAIN inbox \/ i = Len(inbox) + 1
      BY <1>2, <1>4, <2>1, Appended
    <3> QED
      BY <1>1, <1>4, <3>1 DEF InboxOK, PendingQueries
  <2>2. CASE ~alive
    BY <1>1, <1>2, <2>2 DEF InboxOK, PendingQueries, TypeOK
  <2> QED
    BY <2>1, <2>2
<1>6. TypeOK'
  BY <1>1, <1>2, <1>3, <1>5 DEF TypeOK
<1>7. ClientsOK'
  <2> SUFFICES ASSUME NEW d \in Clients
               PROVE  /\ call'[d] \in OnQuery => handle'[d] # Null
                      /\ call'[d] = "AddQuery" => handle'[d] = Null
                      /\ call'[d] = Null => reply'[d] = Null
                      /\ reply'[d] # Null /\ reply'[d].query # Null => call'[d] = "AddQuery"
                      /\ reply'[d] # Null /\ ~reply'[d].error => applied'[d]
    BY DEF ClientsOK
  <2>1. m # Null /\ reply[c] = Null
    BY <1>1, Nothing DEF ClientsOK
  <2>2. reply'[c] = Null \/ reply'[c] = Error
    BY <1>2, <2>1 DEF TypeOK
  <2>3. CASE d = c
    BY <1>1, <1>3, <2>1, <2>2, <2>3 DEF TypeOK
  <2>4. CASE d # c
    <3>1. call'[d] = call[d] /\ reply'[d] = reply[d] /\ handle'[d] = handle[d] /\ applied'[d] = applied[d]
      BY <1>1, <1>2, <2>4 DEF TypeOK
    <3> QED
      BY <3>1 DEF ClientsOK
  <2> QED
    BY <2>3, <2>4
<1>8. DaemonOK'
  BY <1>1, <1>2 DEF DaemonOK
<1>9. AwaitedOK'
  <2>1. \A i \in DOMAIN inbox : inbox[i].awaited => inbox[i].client # c /\ inbox[i].client \in Clients
    <3> SUFFICES ASSUME NEW i \in DOMAIN inbox, inbox[i].awaited, inbox[i].client = c PROVE FALSE
      BY Domain DEF Call
    <3>1. inbox[i].method \in Methods
      BY Domain DEF Call
    <3> QED
      BY <1>1, <3>1, Nothing DEF AwaitedOK
  <2>2. CASE alive
    <3>1. /\ Len(inbox) + 1 \in DOMAIN inbox' /\ inbox'[Len(inbox) + 1] = msg
          /\ \A i \in DOMAIN inbox : i \in DOMAIN inbox' /\ inbox'[i] = inbox[i]
          /\ \A i \in DOMAIN inbox' : i \in DOMAIN inbox \/ i = Len(inbox) + 1
      BY <1>2, <1>4, <2>2, Appended
    <3>2. msg.client = c /\ call'[c] = m /\ reply' = reply /\ reply[c] = Null
      BY <1>1, <1>2, <2>2 DEF msg, TypeOK, ClientsOK
    <3>3. \A d \in Clients : d # c => call'[d] = call[d]
      BY <1>1 DEF TypeOK
    <3> QED
      BY <1>4, <2>1, <3>1, <3>2, <3>3 DEF AwaitedOK
  <2>3. CASE ~alive
    <3>1. DOMAIN inbox' = {}
      BY <1>2, <2>3, EmptySeq DEF DaemonOK
    <3> QED
      BY <3>1 DEF AwaitedOK
  <2> QED
    BY <2>2, <2>3
<1> QED
  BY <1>5, <1>6, <1>7, <1>8, <1>9

\* A call ends with its client or without it.
LEMMA EndTypes ==
    ASSUME TypeInv, NEW c \in Clients, Return(c) \/ TimeOut(c) \/ Die(c)
    PROVE  TypeInv'
<1> USE DEF TypeInv
<1>1. /\ UNCHANGED <<alive, run, counter, query, misdirected>>
      /\ call' = [call EXCEPT ![c] = Null] /\ reply' = [reply EXCEPT ![c] = Null]
      /\ applied' = [applied EXCEPT ![c] = FALSE]
      /\ returned' \in Clients \cup {Null} /\ lost' \subseteq Clients
      /\ inbox' = inbox \/ inbox' = Abandoned(c)
  BY DEF Return, TimeOut, Die, End, server, TypeOK
<1>2. \E h \in Handle \cup {Null} : handle' = [handle EXCEPT ![c] = h]
  <2>1. CASE Return(c)
    <3>1. reply[c].query \in Handle \cup {Null} /\ handle[c] \in Handle \cup {Null}
      BY <2>1 DEF Return, TypeOK, Reply
    <3> QED
      BY <2>1, <3>1 DEF Return
  <2>2. CASE TimeOut(c)
    <3>1. handle[c] \in Handle \cup {Null} /\ handle = [handle EXCEPT ![c] = handle[c]]
      BY DEF TypeOK
    <3> QED
      BY <2>2, <3>1 DEF TimeOut
  <2>3. CASE Die(c)
    BY <2>3 DEF Die
  <2> QED
    BY <2>1, <2>2, <2>3
<1>3. /\ inbox' \in Seq(Call) /\ DOMAIN inbox' = DOMAIN inbox
      /\ \A i \in DOMAIN inbox : inbox'[i].method = inbox[i].method /\ inbox'[i].on = inbox[i].on
  BY <1>1, AbandonedCalls DEF TypeOK
<1>4. TypeOK'
  BY <1>1, <1>2, <1>3 DEF TypeOK
<1>5. InboxOK'
  BY <1>1, <1>3 DEF InboxOK, PendingQueries
<1>6. ClientsOK'
  <2> SUFFICES ASSUME NEW d \in Clients
               PROVE  /\ call'[d] \in OnQuery => handle'[d] # Null
                      /\ call'[d] = "AddQuery" => handle'[d] = Null
                      /\ call'[d] = Null => reply'[d] = Null
                      /\ reply'[d] # Null /\ reply'[d].query # Null => call'[d] = "AddQuery"
                      /\ reply'[d] # Null /\ ~reply'[d].error => applied'[d]
    BY DEF ClientsOK
  <2>1. CASE d = c
    <3>1. call'[c] = Null /\ reply'[c] = Null
      BY <1>1 DEF TypeOK
    <3> QED
      BY <2>1, <3>1, Nothing DEF OnQuery, Methods, StoreMethods
  <2>2. CASE d # c
    <3>1. call'[d] = call[d] /\ reply'[d] = reply[d] /\ handle'[d] = handle[d] /\ applied'[d] = applied[d]
      BY <1>1, <1>2, <2>2 DEF TypeOK
    <3> QED
      BY <3>1 DEF ClientsOK
  <2> QED
    BY <2>1, <2>2
<1>7. DaemonOK'
  <2>1. inbox = <<>> => inbox' = <<>>
    <3> SUFFICES ASSUME inbox = <<>> PROVE inbox' = <<>>
      OBVIOUS
    <3>1. DOMAIN inbox' = {}
      BY <1>3, EmptySeq
    <3> QED
      BY <1>3, <3>1, EmptySeq, LenProperties
  <2> QED
    BY <1>1, <2>1 DEF DaemonOK
<1>8. AwaitedOK'
  <2>1. \A i \in DOMAIN inbox : inbox'[i].awaited =>
           inbox[i].awaited /\ inbox'[i].client = inbox[i].client /\ inbox[i].client \in Clients \ {c}
    <3> SUFFICES ASSUME NEW i \in DOMAIN inbox, inbox'[i].awaited
                 PROVE  inbox[i].awaited /\ inbox'[i].client = inbox[i].client /\ inbox[i].client # c
      BY Domain DEF Call
    <3>1. CASE Return(c)
      BY <3>1 DEF Return, AwaitedOK, server
    <3>2. CASE TimeOut(c) \/ Die(c)
      <4>1. inbox' = Abandoned(c)
        BY <3>2 DEF TimeOut, Die
      <4> QED
        BY <4>1, AbandonedCalls
    <3> QED
      BY <3>1, <3>2
  <2>2. \A d \in Clients \ {c} : call'[d] = call[d] /\ reply'[d] = reply[d]
    BY <1>1 DEF TypeOK
  <2> QED
    BY <1>3, <2>1, <2>2 DEF AwaitedOK
<1> QED
  BY <1>4, <1>5, <1>6, <1>7, <1>8

\* The handlers of the daemon: what gives out a query, what takes one back,
\* and the others.
Other == HandleAdd \/ HandleQueryMethod \/ HandlerThrows \/ NoSuchQuery

Handler == Other \/ HandleAddQuery \/ HandleRemoveQuery

LEMMA Received ==
    ASSUME TypeInv, Handler
    PROVE  /\ alive /\ inbox # <<>> /\ inbox' = Tail(inbox)
           /\ UNCHANGED <<alive, run, call, handle, lost>> /\ returned' = Null
           /\ inbox[1] \in Call /\ 1 \in DOMAIN inbox /\ Head(inbox) = inbox[1]
           /\ inbox[1].client \in Clients
           /\ inbox[1].method \in OnQuery => inbox[1].on \in Handle
<1>1. /\ alive /\ inbox # <<>> /\ inbox' = Tail(inbox)
      /\ UNCHANGED <<alive, run, call, handle, lost>> /\ returned' = Null
  BY DEF Handler, Other, HandleAdd, HandleQueryMethod, HandlerThrows, NoSuchQuery, HandleAddQuery,
         HandleRemoveQuery, Receive, client
<1>2. 1 \in DOMAIN inbox /\ Head(inbox) = inbox[1]
  BY <1>1, TailTaken DEF TypeInv
<1>3. inbox[1] \in Call
  BY <1>2, Domain DEF TypeInv
<1> QED
  BY <1>1, <1>2, <1>3 DEF TypeInv, InboxOK, Call

\* What a handler may do to the reply that a client waits for.
LEMMA Answering ==
    ASSUME TypeInv, Handler
    PROVE  /\ reply' \in [Clients -> Reply \cup {Null}] /\ applied' \in [Clients -> BOOLEAN]
           /\ \A c \in Clients :
                 \/ reply'[c] = reply[c] /\ (applied[c] => applied'[c])
                 \/ /\ inbox[1].awaited /\ c = inbox[1].client
                    /\ reply'[c] \in Reply /\ reply'[c] # Null
                    /\ ~reply'[c].error => applied'[c]
                    /\ reply'[c].query # Null =>
                          inbox[1].method = "AddQuery" /\ reply'[c].query = [path |-> counter, run |-> run]
<1>1. /\ inbox[1].client \in Clients /\ Head(inbox) = inbox[1]
      /\ reply \in [Clients -> Reply \cup {Null}] /\ applied \in [Clients -> BOOLEAN]
  BY Received DEF TypeInv, TypeOK
<1>2. CASE HandleAdd \/ HandleQueryMethod \/ HandlerThrows \/ NoSuchQuery \/ HandleRemoveQuery
  <2>1. \/ \E r \in {Error, Returns(Null)} : Send(inbox[1], r) /\ Done(inbox[1])
        \/ Send(inbox[1], Error) /\ applied' = applied
        \/ reply' = reply /\ applied' = applied
    BY <1>1, <1>2 DEF HandleAdd, HandleQueryMethod, HandlerThrows, NoSuchQuery, HandleRemoveQuery
  <2>2. PICK r \in Reply : /\ r # Null /\ r.query = Null
                           /\ \/ Send(inbox[1], r) /\ Done(inbox[1])
                              \/ r.error /\ Send(inbox[1], r) /\ applied' = applied
                              \/ reply' = reply /\ applied' = applied
    BY <2>1, Replies
  <2> QED
    BY <1>1, <2>2 DEF Send, Done
<1>3. CASE HandleAddQuery
  <2>1. inbox[1].method = "AddQuery" /\ inbox[1].on \in Handle \cup {Null}
    BY <1>1, <1>3, Received DEF HandleAddQuery, Receive, Call
  <2>2. PICK h \in Handle : h = [path |-> counter, run |-> run]
    <3>1. counter < MaxQueries /\ run >= 1
      BY <2>1, Received DEF TypeInv, InboxOK, DaemonOK
    <3> QED
      <4>1. counter \in 0..MaxQueries - 1 /\ run \in 1..MaxRuns
        BY <3>1, Nothing DEF TypeInv, TypeOK
      <4> QED
        BY <4>1 DEF Handle, Paths
  <2>3. \/ Send(inbox[1], Returns(h)) /\ Done(inbox[1])
        \/ Send(inbox[1], Error) /\ applied' = applied
    BY <1>1, <1>3, <2>2 DEF HandleAddQuery
  <2>4. PICK r \in Reply : /\ r # Null /\ (r.query # Null => r.query = h)
                           /\ \/ Send(inbox[1], r) /\ Done(inbox[1])
                              \/ r.error /\ Send(inbox[1], r) /\ applied' = applied
    BY <2>3, Replies
  <2> QED
    BY <1>1, <2>1, <2>2, <2>4 DEF Send, Done
<1> QED
  BY <1>2, <1>3 DEF Handler, Other

LEMMA HandlerTypes ==
    ASSUME TypeInv, Handler
    PROVE  TypeInv'
<1> USE DEF TypeInv
<1>1. /\ alive /\ inbox # <<>> /\ inbox' = Tail(inbox)
      /\ UNCHANGED <<alive, run, call, handle, lost>> /\ returned' = Null
      /\ inbox[1] \in Call /\ 1 \in DOMAIN inbox /\ Head(inbox) = inbox[1]
      /\ inbox[1].method \in OnQuery => inbox[1].on \in Handle
  BY Received
<1>2. /\ inbox' \in Seq(Call)
      /\ \A i \in DOMAIN inbox' :
            i \in Nat /\ i + 1 # 1 /\ i + 1 \in DOMAIN inbox /\ inbox'[i] = inbox[i + 1]
  BY <1>1, TailTaken
<1>3. /\ reply' \in [Clients -> Reply \cup {Null}] /\ applied' \in [Clients -> BOOLEAN]
      /\ \A c \in Clients :
            \/ reply'[c] = reply[c] /\ (applied[c] => applied'[c])
            \/ /\ inbox[1].awaited /\ c = inbox[1].client
               /\ ~reply'[c].error => applied'[c]
               /\ reply'[c].query # Null => inbox[1].method = "AddQuery"
  BY Answering
<1>4. \/ counter' = counter
      \/ inbox[1].method = "AddQuery" /\ counter' = counter + 1 /\ counter < MaxQueries
  <2>1. CASE HandleAddQuery
    BY <1>1, <2>1 DEF HandleAddQuery, Receive, InboxOK
  <2>2. CASE Other \/ HandleRemoveQuery
    BY <2>2 DEF Other, HandleAdd, HandleQueryMethod, HandlerThrows, NoSuchQuery, HandleRemoveQuery
  <2> QED
    BY <2>1, <2>2 DEF Handler
<1>5. counter' \in 0..MaxQueries
  BY <1>4, Nothing DEF TypeOK
<1>6. query' \in [Paths -> Clients \cup {Null}] /\ misdirected' \subseteq Paths
  <2>1. CASE HandleAddQuery
    BY <1>1, <2>1 DEF HandleAddQuery, Call, TypeOK
  <2>2. CASE HandleAdd \/ NoSuchQuery
    BY <2>2 DEF HandleAdd, NoSuchQuery, TypeOK
  <2>3. CASE HandleQueryMethod \/ HandlerThrows \/ HandleRemoveQuery
    <3>1. inbox[1].on.path \in Paths
      BY <1>1, <2>3 DEF HandleQueryMethod, HandlerThrows, HandleRemoveQuery, Receive, OnQuery, Handle
    <3>2. misdirected' = Reached(inbox[1].on)
      BY <1>1, <2>3 DEF HandleQueryMethod, HandlerThrows, HandleRemoveQuery
    <3>3. misdirected' \subseteq Paths
      BY <3>1, <3>2 DEF Reached, TypeOK
    <3>4. query' \in [Paths -> Clients \cup {Null}]
      BY <1>1, <2>3, <3>1 DEF HandleQueryMethod, HandlerThrows, HandleRemoveQuery, TypeOK
    <3> QED
      BY <3>3, <3>4
  <2> QED
    BY <2>1, <2>2, <2>3 DEF Handler, Other
<1>7. TypeOK'
  BY <1>1, <1>2, <1>3, <1>5, <1>6 DEF TypeOK
<1>8. InboxOK'
  <2>1. ASSUME NEW i \in DOMAIN inbox', inbox'[i].method = "AddQuery"
        PROVE  counter' < MaxQueries
    <3>1. i + 1 \in PendingQueries /\ i + 1 # 1 /\ counter < MaxQueries
      BY <1>2, <2>1 DEF InboxOK, PendingQueries
    <3>2. 1 \notin PendingQueries
      BY <3>1 DEF InboxOK
    <3> QED
      BY <1>1, <1>4, <3>1, <3>2 DEF PendingQueries
  <2>2. ASSUME NEW i \in PendingQueries', NEW j \in PendingQueries'
        PROVE  i = j
    <3>1. i \in Nat /\ j \in Nat /\ i + 1 \in PendingQueries /\ j + 1 \in PendingQueries
      BY <1>2, <2>2 DEF PendingQueries
    <3>2. i + 1 = j + 1
      BY <3>1 DEF InboxOK
    <3> QED
      BY <3>1, <3>2
  <2>3. \A i \in DOMAIN inbox' : inbox'[i].method \in OnQuery => inbox'[i].on \in Handle
    BY <1>2 DEF InboxOK
  <2> QED
    BY <2>1, <2>2, <2>3 DEF InboxOK
<1>9. ClientsOK'
  <2>1. inbox[1].awaited => call[inbox[1].client] = inbox[1].method /\ inbox[1].method # Null
    BY <1>1, Nothing DEF AwaitedOK, Call
  <2> QED
    BY <1>1, <1>3, <2>1 DEF ClientsOK
<1>10. DaemonOK'
  BY <1>1 DEF DaemonOK
<1>11. AwaitedOK'
  <2> SUFFICES ASSUME NEW i \in DOMAIN inbox', inbox'[i].awaited
               PROVE  /\ call'[inbox'[i].client] = inbox'[i].method
                      /\ reply'[inbox'[i].client] = Null
                      /\ \A j \in DOMAIN inbox' :
                            inbox'[j].awaited /\ inbox'[j].client = inbox'[i].client => j = i
    BY DEF AwaitedOK
  <2>1. i \in Nat /\ i + 1 # 1 /\ i + 1 \in DOMAIN inbox /\ inbox'[i] = inbox[i + 1]
    BY <1>2
  <2>2. inbox[i + 1].client \in Clients
    BY <2>1, Domain DEF Call
  <2>3. ~(inbox[1].awaited /\ inbox[1].client = inbox[i + 1].client)
    BY <1>1, <2>1 DEF AwaitedOK
  <2>4. reply'[inbox[i + 1].client] = reply[inbox[i + 1].client]
    BY <1>3, <2>2, <2>3
  <2>5. ASSUME NEW j \in DOMAIN inbox', inbox'[j].awaited, inbox'[j].client = inbox'[i].client
        PROVE  j = i
    <3>1. j \in Nat /\ j + 1 = i + 1
      BY <1>2, <2>1, <2>5 DEF AwaitedOK
    <3> QED
      BY <2>1, <3>1
  <2> QED
    BY <1>1, <2>1, <2>4, <2>5 DEF AwaitedOK
<1> QED
  BY <1>7, <1>8, <1>9, <1>10, <1>11

LEMMA RunTypes ==
    ASSUME TypeInv, Start \/ Crash
    PROVE  TypeInv'
<1> USE DEF TypeInv
<1>1. CASE Start
  <2>1. /\ UNCHANGED <<counter, query, inbox, call, handle, reply, applied, misdirected, lost>>
        /\ alive' = TRUE /\ run' = run + 1 /\ run < MaxRuns /\ returned' = Null
    BY <1>1 DEF Start, client
  <2>2. run' \in 0..MaxRuns /\ run' >= 1
    BY <2>1, Nothing DEF TypeOK
  <2>3. TypeOK'
    BY <2>1, <2>2 DEF TypeOK
  <2>4. InboxOK' /\ ClientsOK' /\ AwaitedOK' /\ DaemonOK'
    BY <2>1, <2>2 DEF InboxOK, PendingQueries, ClientsOK, AwaitedOK, DaemonOK
  <2> QED
    BY <2>3, <2>4
<1>2. CASE Crash
  <2>1. /\ UNCHANGED <<run, call, handle, applied>>
        /\ alive' = FALSE /\ counter' = 0 /\ query' = [p \in Paths |-> Null] /\ inbox' = <<>>
        /\ misdirected' = {} /\ lost' = {} /\ returned' = Null
    BY <1>2 DEF Crash, client
  <2>2. /\ reply' \in [Clients -> Reply \cup {Null}]
        /\ \A c \in Clients : \/ reply'[c] = reply[c]
                              \/ reply'[c] = Error /\ \E i \in DOMAIN inbox : inbox[i].client = c /\ inbox[i].awaited
    BY <1>2, Replies DEF Crash, TypeOK
  <2>3. inbox' \in Seq(Call) /\ DOMAIN inbox' = {} /\ counter' \in 0..MaxQueries
    BY <2>1, EmptySeq, Nothing
  <2>4. TypeOK'
    BY <2>1, <2>2, <2>3 DEF TypeOK
  <2>5. \A c \in Clients : (\E i \in DOMAIN inbox : inbox[i].client = c /\ inbox[i].awaited) => call[c] # Null
    BY Domain, Nothing DEF AwaitedOK, Call
  <2>6. ClientsOK'
    BY <2>1, <2>2, <2>5, Replies DEF ClientsOK
  <2>7. InboxOK' /\ AwaitedOK' /\ DaemonOK'
    BY <2>1, <2>3 DEF InboxOK, PendingQueries, AwaitedOK, DaemonOK
  <2> QED
    BY <2>4, <2>6, <2>7
<1> QED
  BY <1>1, <1>2

LEMMA TypeStep ==
    ASSUME TypeInv, [Next]_vars
    PROVE  TypeInv'
<1>1. CASE UNCHANGED vars
  BY <1>1 DEF TypeInv, TypeOK, InboxOK, PendingQueries, ClientsOK, DaemonOK, AwaitedOK, vars, server, client
<1>2. CASE Next
  BY <1>2, InvokeTypes, EndTypes, HandlerTypes, RunTypes DEF Next, Handler, Other
<1> QED
  BY <1>1, <1>2

LEMMA TypeInvariant == Spec => []TypeInv
<1>1. TypeInv /\ [Next]_vars => TypeInv'
  BY TypeStep
<1> QED
  BY <1>1, TypeInit, PTL DEF Spec

\* Every variable of clients, bus and daemon keeps its type: what a client waits
\* for and what it is told are results that its method can have.
THEOREM RemoteStoreTypeOK == Spec => []TypeOK
<1>1. TypeInv => TypeOK
  BY DEF TypeInv
<1> QED
  BY <1>1, TypeInvariant, PTL

\* A call to the store over the bus that returns normally was carried out by
\* the store, also after timeouts, late replies and restarts of the daemon; the
\* exceptions are reset(), ~Query and all(), which hide their failures.
THEOREM SuccessesAreReal == Spec => SuccessIsReal
<1>1. ASSUME TypeInv, [Next]_vars,
             NEW c \in Clients, call[c] # Null, call'[c] = Null, returned' = c
      PROVE  applied[c] \/ call[c] \in {"Reset", "RemoveQuery", "All"}
  <2>1. c # Null /\ call \in [Clients -> Methods \cup {Null}]
    BY <1>1, Nothing DEF TypeInv, TypeOK
  <2>2. ~Handler /\ ~Start /\ ~Crash /\ call' # call
    BY <1>1, <2>1, Received DEF Start, Crash
  <2>3. PICK d \in Clients : Return(d) \/ TimeOut(d) \/ Die(d) \/ \E m \in Methods : Invoke(d, m)
    BY <1>1, <2>2 DEF Next, Handler, Other, vars, client
  <2>4. ~Die(d) /\ \A m \in Methods : ~Invoke(d, m)
    BY <1>1, <2>1 DEF Die, Invoke
  <2>5. PICK failed \in BOOLEAN : End(d, failed) /\ (~failed => reply[d] # Null /\ ~reply[d].error)
    <3>1. CASE TimeOut(d)
      BY <3>1 DEF TimeOut
    <3>2. CASE Return(d)
      <4>1. reply[d] \in Reply
        BY <1>1, <3>2 DEF Return, TypeInv, TypeOK
      <4>2. reply[d].error \in BOOLEAN
        BY <4>1 DEF Reply
      <4> QED
        BY <3>2, <4>2 DEF Return
    <3> QED
      BY <2>3, <2>4, <3>1, <3>2
  <2>6. d = c /\ FALSE \in Throws(call[c], failed)
    <3>1. call' = [call EXCEPT ![d] = Null]
      BY <2>5 DEF End
    <3>2. d = c
      BY <1>1, <2>1, <3>1
    <3>3. PICK t \in Throws(call[c], failed) : returned' = IF t THEN Null ELSE c
      BY <2>5, <3>2 DEF End
    <3>4. Throws(call[c], failed) \subseteq BOOLEAN
      BY DEF Throws
    <3> QED
      BY <1>1, <2>1, <3>2, <3>3, <3>4
  <2>7. ~failed \/ call[c] \in {"Reset", "RemoveQuery", "All"}
    BY <2>6 DEF Throws
  <2> QED
    BY <1>1, <2>5, <2>6, <2>7 DEF TypeInv, ClientsOK
<1>2. TypeInv /\ [Next]_vars =>
         [\A c \in Clients :
            call[c] # Null /\ call'[c] = Null /\ returned' = c =>
               applied[c] \/ call[c] \in {"Reset", "RemoveQuery", "All"}]_vars
  BY <1>1
<1> QED
  BY <1>2, TypeInvariant, PTL DEF Spec, SuccessIsReal

-----------------------------------------------------------------------------
(* Whose a query is.                                                       *)

LEMMA HandleFields ==
    ASSUME NEW h \in Handle
    PROVE  /\ h.path \in Paths /\ h.path \in Nat /\ h.run \in 1..MaxRuns
           /\ h = [path |-> h.path, run |-> h.run] /\ h # Null
BY Nothing DEF Handle, Paths

LEMMA InvInit == Init => Inv
<1> SUFFICES ASSUME Init PROVE Inv
  OBVIOUS
<1>1. DOMAIN inbox = {}
  BY EmptySeq DEF Init
<1>2. \A c \in Clients, h \in Handle : ~Holds(c, h)
  BY Nothing DEF Init, Holds
<1>3. HandlesGiven /\ OneHolder /\ HandlesOwn
  BY <1>1, <1>2 DEF HandlesGiven, OneHolder, HandlesOwn
<1>4. RemovesOK /\ GivenUp
  BY <1>1 DEF RemovesOK, GivenUp
<1>5. Removed /\ Released
  BY DEF Init, Removed, Released
<1> QED
  BY <1>3, <1>4, <1>5, TypeInit DEF Inv

LEMMA InvokeOwn ==
    ASSUME Inv, NEW c \in Clients, NEW m \in Methods, Invoke(c, m)
    PROVE  Inv'
<1> DEFINE msg == [client |-> c, method |-> m, awaited |-> TRUE,
                   on |-> IF m \in OnQuery THEN handle[c] ELSE Null]
<1>1. /\ UNCHANGED <<alive, run, counter, query, handle, misdirected, lost>>
      /\ call[c] = Null /\ call'[c] = m /\ \A d \in Clients \ {c} : call'[d] = call[d]
      /\ m \in OnQuery => handle[c] # Null
      /\ TypeInv
  BY DEF Inv, TypeInv, TypeOK, Invoke, Callable, OnQuery
<1>2. \/ alive /\ inbox' = Append(inbox, msg) /\ reply' = reply
      \/ ~alive /\ inbox' = inbox /\ reply' = [reply EXCEPT ![c] = Error]
  BY DEF Invoke, OnQuery
<1>3. /\ msg \in Call /\ msg.method = m /\ msg.awaited
      /\ m \in OnQuery => msg.on \in Handle /\ msg.on = handle[c]
      /\ m \notin OnQuery => msg.on = Null
  <2>1. handle[c] \in Handle \cup {Null}
    BY <1>1 DEF TypeInv, TypeOK
  <2> QED
    BY <1>1, <2>1 DEF Call
<1> HIDE DEF msg
<1>4. \A d \in Clients, h \in Handle : Holds(d, h)' <=> Holds(d, h)
  <2>1. reply[c] = Null
    BY <1>1 DEF TypeInv, ClientsOK
  <2>2. \A d \in Clients : reply'[d] = reply[d] \/ (reply[d] = Null /\ reply'[d] = Error)
    BY <1>1, <1>2, <2>1 DEF TypeInv, TypeOK
  <2> QED
    BY <1>1, <2>2, Replies, Nothing DEF Holds
<1>5. /\ \A i \in DOMAIN inbox : i \in DOMAIN inbox' /\ inbox'[i] = inbox[i]
      /\ alive => \E i \in DOMAIN inbox' : inbox'[i] = msg
      /\ \A i \in DOMAIN inbox' : (i \in DOMAIN inbox /\ inbox'[i] = inbox[i]) \/ inbox'[i] = msg
  BY <1>1, <1>2, <1>3, Appended DEF TypeInv
<1>6. HandlesGiven'
  <2>1. \A h \in Handle : Given(h) => Given(h)'
    BY <1>1 DEF Given
  <2>2. \A d \in Clients, h \in Handle : Holds(d, h)' => Given(h)'
    BY <1>4, <2>1 DEF Inv, HandlesGiven
  <2>3. ASSUME NEW i \in DOMAIN inbox', inbox'[i].on # Null PROVE Given(inbox[i].on)'
    <3>1. CASE i \in DOMAIN inbox /\ inbox'[i] = inbox[i]
      <4>1. inbox[i].on \in Handle /\ Given(inbox[i].on)
        BY <1>1, <2>3, <3>1, Domain DEF TypeInv, Call, Inv, HandlesGiven
      <4> QED
        BY <1>1, <3>1, <4>1 DEF Given
    <3>2. CASE inbox'[i] = msg
      <4>1. msg.on \in Handle /\ Holds(c, msg.on)
        BY <1>3, <2>3, <3>2 DEF Holds
      <4>2. Given(msg.on)
        BY <4>1 DEF Inv, HandlesGiven
      <4> QED
        BY <1>1, <3>2, <4>2 DEF Given
    <3> QED
      BY <1>5, <3>1, <3>2
  <2> QED
    BY <2>2, <2>3 DEF HandlesGiven
<1>7. OneHolder'
  BY <1>4 DEF Inv, OneHolder
<1>8. RemovesOK'
  <2> SUFFICES ASSUME NEW i \in DOMAIN inbox', NEW d \in Clients,
                      inbox'[i].method = "RemoveQuery", (Holds(d, inbox[i].on))'
               PROVE  handle'[d] = inbox'[i].on /\ call'[d] = "RemoveQuery"
    BY DEF RemovesOK
  <2>1. CASE i \in DOMAIN inbox /\ inbox'[i] = inbox[i]
    <3>1. inbox[i].on \in Handle
      BY <1>1, <2>1 DEF TypeInv, InboxOK, OnQuery
    <3>2. PICK h \in Handle : h = inbox[i].on
      BY <3>1
    <3>3. Holds(d, h)
      BY <1>4, <2>1, <3>2 DEF Holds
    <3>4. handle[d] = h /\ call[d] = "RemoveQuery"
      BY <2>1, <3>2, <3>3 DEF Inv, RemovesOK
    <3>5. d # c
      BY <1>1, <3>4, Nothing DEF Methods, StoreMethods
    <3> QED
      BY <1>1, <2>1, <3>2, <3>4, <3>5
  <2>2. CASE inbox'[i] = msg
    <3>1. m = "RemoveQuery" /\ msg.on \in Handle /\ msg.on = handle[c]
      BY <1>3, <2>2 DEF OnQuery
    <3>2. PICK h \in Handle : h = msg.on
      BY <3>1
    <3>3. Holds(d, h) /\ Holds(c, h)
      BY <1>4, <2>2, <3>1, <3>2 DEF Holds
    <3>4. d = c
      BY <3>3 DEF Inv, OneHolder
    <3> QED
      BY <1>1, <2>2, <3>1, <3>4
  <2> QED
    BY <1>5, <2>1, <2>2
<1>9. \A h \in Handle : Removing(h) => Removing(h)'
  BY <1>5 DEF Removing
<1>10. Removed'
  <2> SUFFICES ASSUME NEW d \in Clients, call'[d] = "RemoveQuery", alive, handle[d].run = run
               PROVE  Removing(handle[d])' \/ query[handle[d].path] = Null
    BY <1>1 DEF Removed
  <2>1. CASE d = c
    <3>1. m \in OnQuery /\ m = "RemoveQuery"
      BY <1>1, <2>1 DEF OnQuery
    <3>2. msg.method = "RemoveQuery" /\ msg.on = handle[c]
      BY <1>3, <3>1
    <3>3. PICK i \in DOMAIN inbox' : inbox'[i] = msg
      BY <1>5
    <3> QED
      BY <1>1, <2>1, <3>2, <3>3 DEF Removing
  <2>2. CASE d # c
    <3>1. call[d] = "RemoveQuery"
      BY <1>1, <2>2
    <3>2. handle[d] \in Handle
      BY <1>1, <3>1 DEF TypeInv, TypeOK, ClientsOK, OnQuery
    <3>3. Removing(handle[d]) \/ query[handle[d].path] = Null
      BY <3>1 DEF Inv, Removed
    <3>4. Removing(handle[d]) => Removing(handle[d])'
      BY <1>1, <1>5 DEF Removing
    <3> QED
      BY <3>3, <3>4
  <2> QED
    BY <2>1, <2>2
<1>11. HandlesOwn'
  <2>1. \A d \in Clients : call[d] = "RemoveQuery" => call'[d] = "RemoveQuery"
    BY <1>1, Nothing DEF Methods, StoreMethods
  <2> QED
    BY <1>1, <1>4, <2>1 DEF Inv, HandlesOwn
<1>12. GivenUp'
  BY <1>1, <1>3, <1>5 DEF Inv, GivenUp
<1>13. Released'
  <2> SUFFICES ASSUME NEW p \in Paths \ misdirected, NEW h \in Handle,
                      h = [path |-> p, run |-> run], query[p] # Null, query[p] \notin lost
               PROVE  Holds(query[p], h)' \/ Removing(h)'
    BY <1>1 DEF Released
  <2>1. query[p] \in Clients
    BY <1>1 DEF TypeInv, TypeOK
  <2>2. Holds(query[p], h) \/ Removing(h)
    BY DEF Inv, Released
  <2>3. Holds(query[p], h) => Holds(query[p], h)'
    BY <1>1, <1>4, <2>1 DEF Holds
  <2> QED
    BY <1>9, <2>2, <2>3
<1> QED
  BY <1>1, <1>6, <1>7, <1>8, <1>10, <1>11, <1>12, <1>13, InvokeTypes DEF Inv

LEMMA EndOwn ==
    ASSUME Inv, NEW c \in Clients, Return(c) \/ TimeOut(c) \/ Die(c)
    PROVE  Inv'
<1>1. /\ UNCHANGED <<alive, run, counter, query, misdirected>>
      /\ call'[c] = Null /\ reply'[c] = Null
      /\ \A d \in Clients \ {c} : call'[d] = call[d] /\ reply'[d] = reply[d] /\ handle'[d] = handle[d]
      /\ lost \subseteq lost' /\ TypeInv
  BY DEF Return, TimeOut, Die, End, server, Inv, TypeInv, TypeOK
<1>2. /\ \/ Return(c) /\ inbox' = inbox
         \/ (TimeOut(c) \/ Die(c)) /\ inbox' = Abandoned(c)
      /\ DOMAIN inbox' = DOMAIN inbox
      /\ \A i \in DOMAIN inbox : /\ inbox'[i].client = inbox[i].client
                                 /\ inbox'[i].method = inbox[i].method /\ inbox'[i].on = inbox[i].on
  BY <1>1, AbandonedCalls DEF Return, TimeOut, Die, server, TypeInv
<1>3. /\ \/ handle'[c] = Null
         \/ handle'[c] = handle[c] /\ call[c] # "RemoveQuery"
         \/ call[c] = "AddQuery" /\ reply[c] # Null /\ handle'[c] = reply[c].query
      /\ \/ Die(c) \/ call[c] = "RemoveQuery"
         \/ call[c] # "AddQuery" /\ handle'[c] = handle[c]
         \/ Return(c) /\ call[c] = "AddQuery" /\ reply[c] # Null /\ handle'[c] = reply[c].query
         \/ TimeOut(c) /\ call[c] = "AddQuery"
  <2>1. handle \in [Clients -> Handle \cup {Null}]
    BY <1>1 DEF TypeInv, TypeOK
  <2>2. CASE Return(c)
    BY <2>1, <2>2 DEF Return
  <2>3. CASE TimeOut(c)
    BY <2>1, <2>3 DEF TimeOut
  <2>4. CASE Die(c)
    BY <2>1, <2>4 DEF Die
  <2> QED
    BY <2>2, <2>3, <2>4
<1>4. \A d \in Clients, h \in Handle : Holds(d, h)' => Holds(d, h) /\ (d = c => call[c] # "RemoveQuery")
  BY <1>1, <1>3, Nothing DEF Holds
<1>5. \A d \in Clients \ {c}, h \in Handle : Holds(d, h)' <=> Holds(d, h)
  BY <1>1 DEF Holds
<1>6. \A h \in Handle : Removing(h)' <=> Removing(h)
  BY <1>2 DEF Removing
<1>7. HandlesGiven'
  <2>1. \A d \in Clients, h \in Handle : Holds(d, h)' => Given(h)'
    BY <1>1, <1>4 DEF Inv, HandlesGiven, Given
  <2>2. \A i \in DOMAIN inbox' : inbox'[i].on # Null => Given(inbox[i].on)'
    BY <1>1, <1>2 DEF Inv, HandlesGiven, Given
  <2> QED
    BY <2>1, <2>2 DEF HandlesGiven
<1>8. OneHolder'
  BY <1>4 DEF Inv, OneHolder
<1>9. RemovesOK'
  <2> SUFFICES ASSUME NEW i \in DOMAIN inbox', NEW d \in Clients,
                      inbox'[i].method = "RemoveQuery", (Holds(d, inbox[i].on))'
               PROVE  handle'[d] = inbox'[i].on /\ call'[d] = "RemoveQuery"
    BY DEF RemovesOK
  <2>1. i \in DOMAIN inbox /\ inbox[i].method = "RemoveQuery" /\ inbox'[i].on = inbox[i].on
    BY <1>2
  <2>2. PICK h \in Handle : h = inbox[i].on
    BY <1>1, <2>1 DEF TypeInv, InboxOK, OnQuery
  <2>3. Holds(d, h)'
    BY <2>1, <2>2 DEF Holds
  <2>4. Holds(d, h) /\ (d = c => call[c] # "RemoveQuery")
    BY <1>4, <2>3
  <2>5. handle[d] = h /\ call[d] = "RemoveQuery"
    BY <2>1, <2>2, <2>4 DEF Inv, RemovesOK
  <2> QED
    BY <1>1, <2>1, <2>2, <2>4, <2>5
<1>10. Removed'
  <2> SUFFICES ASSUME NEW d \in Clients, call'[d] = "RemoveQuery", alive, handle'[d].run = run
               PROVE  Removing(handle[d])' \/ query[handle'[d].path] = Null
    BY <1>1 DEF Removed
  <2>1. d # c
    BY <1>1, Nothing DEF Methods, StoreMethods
  <2>2. call[d] = "RemoveQuery" /\ handle'[d] = handle[d]
    BY <1>1, <2>1
  <2>3. PICK h \in Handle : h = handle[d]
    BY <1>1, <2>2 DEF TypeInv, TypeOK, ClientsOK, OnQuery
  <2>4. Removing(h) \/ query[h.path] = Null
    BY <2>2, <2>3 DEF Inv, Removed
  <2>5. Removing(h)' <=> Removing(handle[d])'
    BY <2>2, <2>3 DEF Removing
  <2> QED
    BY <1>6, <2>2, <2>3, <2>4, <2>5
<1>11. HandlesOwn'
  <2> SUFFICES ASSUME NEW d \in Clients, NEW h \in Handle, Holds(d, h)', call'[d] # "RemoveQuery",
                      alive, h.run = run, h.path \notin misdirected
               PROVE  query[h.path] = d
    BY <1>1 DEF HandlesOwn
  <2>1. Holds(d, h) /\ call[d] # "RemoveQuery"
    BY <1>1, <1>4
  <2> QED
    BY <2>1 DEF Inv, HandlesOwn
<1>12. GivenUp'
  <2> SUFFICES ASSUME NEW i \in DOMAIN inbox', inbox'[i].method = "AddQuery", ~inbox'[i].awaited
               PROVE  inbox'[i].client \in lost'
    BY DEF GivenUp
  <2>1. /\ i \in DOMAIN inbox /\ inbox[i].method = "AddQuery" /\ inbox'[i].client = inbox[i].client
    BY <1>2
  <2>2. CASE ~inbox[i].awaited
    BY <1>1, <2>1, <2>2 DEF Inv, GivenUp
  <2>3. CASE inbox[i].awaited
    <3>1. (TimeOut(c) \/ Die(c)) /\ inbox[i].client = c
      BY <1>1, <1>2, <2>1, <2>3, AbandonedCalls DEF TypeInv
    <3>2. call[c] = "AddQuery"
      BY <1>1, <2>1, <2>3, <3>1 DEF TypeInv, AwaitedOK
    <3> QED
      BY <2>1, <3>1, <3>2 DEF TimeOut, Die
  <2> QED
    BY <2>2, <2>3
<1>13. Released'
  <2> SUFFICES ASSUME NEW p \in Paths \ misdirected, NEW h \in Handle,
                      h = [path |-> p, run |-> run], query[p] # Null, query[p] \notin lost'
               PROVE  Holds(query[p], h)' \/ Removing(h)'
    BY <1>1 DEF Released
  <2>1. PICK d \in Clients : d = query[p] /\ d = query'[p]
    BY <1>1 DEF TypeInv, TypeOK
  <2>2. Holds(d, h) \/ Removing(h)
    BY <1>1, <2>1 DEF Inv, Released
  <2>3. ASSUME Holds(d, h), d = c, ~Removing(h) PROVE Holds(d, h)'
    <3>1. call[c] # "RemoveQuery"
      <4> SUFFICES ASSUME call[c] = "RemoveQuery" PROVE FALSE
        OBVIOUS
      <4>1. handle[c] = h
        BY <1>1, <2>3, Nothing DEF Holds, TypeInv, ClientsOK
      <4>2. alive /\ h.run = run /\ h.path = p
        BY <1>1 DEF TypeInv, DaemonOK
      <4> QED
        BY <2>1, <2>3, <4>1, <4>2 DEF Inv, Removed
    <3>2. ~Die(c) /\ ~(TimeOut(c) /\ call[c] = "AddQuery")
      BY <2>1, <2>3 DEF Die, TimeOut
    <3>3. CASE call[c] # "AddQuery" /\ handle'[c] = handle[c]
      BY <1>1, <2>3, <3>3, HandleFields DEF Holds, TypeInv, ClientsOK
    <3>4. CASE call[c] = "AddQuery" /\ handle'[c] = reply[c].query
      BY <1>1, <2>3, <3>4, HandleFields DEF Holds, TypeInv, ClientsOK
    <3> QED
      BY <1>3, <3>1, <3>2, <3>3, <3>4
  <2>4. Holds(d, h)' => Holds(query[p], h)'
    BY <2>1 DEF Holds
  <2> QED
    BY <1>5, <1>6, <2>2, <2>3, <2>4
<1> QED
  BY <1>1, <1>7, <1>8, <1>9, <1>10, <1>11, <1>12, <1>13, EndTypes DEF Inv

\* What a handler changes in who holds what: a query that has just been created.
LEMMA HandlerHolds ==
    ASSUME TypeInv, Handler, NEW c \in Clients, NEW h \in Handle
    PROVE  /\ Holds(c, h) => Holds(c, h)'
           /\ Holds(c, h)' => \/ Holds(c, h)
                              \/ /\ inbox[1].method = "AddQuery" /\ inbox[1].awaited
                                 /\ c = inbox[1].client /\ h = [path |-> counter, run |-> run]
<1>1. handle' = handle /\ 1 \in DOMAIN inbox
  BY Received
<1>2. \/ reply'[c] = reply[c]
      \/ /\ inbox[1].awaited /\ c = inbox[1].client
         /\ reply'[c] # Null
         /\ reply'[c].query # Null =>
               inbox[1].method = "AddQuery" /\ reply'[c].query = [path |-> counter, run |-> run]
  BY Answering
<1>3. inbox[1].awaited /\ c = inbox[1].client => reply[c] = Null
  BY <1>1 DEF TypeInv, AwaitedOK
<1>4. h # Null
  BY HandleFields
<1> QED
  BY <1>1, <1>2, <1>3, <1>4 DEF Holds

\* What the handlers have in common.
LEMMA HandlerOwn ==
    ASSUME Inv, Handler
    PROVE  HandlesGiven' /\ OneHolder' /\ RemovesOK' /\ GivenUp'
<1>1. /\ alive /\ inbox # <<>> /\ inbox' = Tail(inbox) /\ TypeInv
      /\ UNCHANGED <<alive, run, call, handle, lost>> /\ Head(inbox) = inbox[1]
  BY Received DEF Inv
<1>2. \A i \in DOMAIN inbox' : i + 1 \in DOMAIN inbox /\ inbox'[i] = inbox[i + 1]
  BY <1>1, TailTaken DEF TypeInv
<1>3. /\ counter \in Nat /\ counter' \in Nat /\ counter' >= counter
      /\ inbox[1].method = "AddQuery" => counter' = counter + 1
  <2>1. counter \in Nat
    BY <1>1, Nothing DEF TypeInv, TypeOK
  <2>2. CASE HandleAddQuery
    BY <2>1, <2>2 DEF HandleAddQuery
  <2>3. CASE Other \/ HandleRemoveQuery
    <3>1. counter' = counter /\ Head(inbox).method # "AddQuery"
      BY <2>3 DEF Other, HandleAdd, HandleQueryMethod, HandlerThrows, NoSuchQuery, HandleRemoveQuery,
                  Receive, QueryMethods
    <3> QED
      BY <1>1, <2>1, <3>1
  <2> QED
    BY <2>2, <2>3 DEF Handler
<1>4. \A h \in Handle : Given(h) => Given(h)'
  BY <1>1, <1>3, HandleFields DEF Given
<1>5. HandlesGiven'
  <2>1. ASSUME NEW c \in Clients, NEW h \in Handle, Holds(c, h)' PROVE Given(h)'
    <3>1. CASE Holds(c, h)
      BY <1>4, <3>1 DEF Inv, HandlesGiven
    <3>2. CASE inbox[1].method = "AddQuery" /\ h = [path |-> counter, run |-> run]
      <4>1. h.path = counter /\ h.run = run /\ run \in Nat
        BY <1>1, <3>2 DEF TypeInv, TypeOK
      <4> QED
        BY <1>1, <1>3, <3>2, <4>1 DEF Given
    <3> QED
      BY <1>1, <2>1, <3>1, <3>2, HandlerHolds
  <2>2. ASSUME NEW i \in DOMAIN inbox', inbox'[i].on # Null PROVE Given(inbox[i].on)'
    <3>1. i + 1 \in DOMAIN inbox /\ inbox'[i] = inbox[i + 1]
      BY <1>2
    <3>2. PICK h \in Handle : h = inbox[i + 1].on
      BY <1>1, <2>2, <3>1, Domain DEF TypeInv, Call
    <3>3. Given(h)'
      BY <1>4, <2>2, <3>1, <3>2 DEF Inv, HandlesGiven
    <3> QED
      BY <3>1, <3>2, <3>3 DEF Given
  <2> QED
    BY <2>1, <2>2 DEF HandlesGiven
<1>6. \A h \in Handle : h = [path |-> counter, run |-> run] => ~Given(h)
  BY <1>1, <1>3 DEF Given
<1>7. OneHolder'
  <2> SUFFICES ASSUME NEW c \in Clients, NEW d \in Clients, NEW h \in Handle, Holds(c, h)', Holds(d, h)'
               PROVE  c = d
    BY DEF OneHolder
  <2>1. (Holds(c, h) \/ Holds(d, h)) => h # [path |-> counter, run |-> run]
    BY <1>6 DEF Inv, HandlesGiven
  <2>2. \/ Holds(c, h) /\ Holds(d, h)
        \/ c = inbox[1].client /\ d = inbox[1].client
    BY <1>1, <2>1, HandlerHolds
  <2> QED
    BY <2>2 DEF Inv, OneHolder
<1>8. RemovesOK'
  <2> SUFFICES ASSUME NEW i \in DOMAIN inbox', NEW d \in Clients,
                      inbox'[i].method = "RemoveQuery", (Holds(d, inbox[i].on))'
               PROVE  handle'[d] = inbox'[i].on /\ call'[d] = "RemoveQuery"
    BY DEF RemovesOK
  <2>1. i + 1 \in DOMAIN inbox /\ inbox[i + 1].method = "RemoveQuery" /\ inbox'[i] = inbox[i + 1]
    BY <1>2
  <2>2. PICK h \in Handle : h = inbox[i + 1].on
    BY <1>1, <2>1 DEF TypeInv, InboxOK, OnQuery
  <2>3. Holds(d, h)'
    BY <2>1, <2>2 DEF Holds
  <2>4. Given(h)
    BY <2>1, <2>2, HandleFields DEF Inv, HandlesGiven
  <2>5. Holds(d, h)
    BY <1>1, <1>6, <2>3, <2>4, HandlerHolds
  <2> QED
    BY <1>1, <2>1, <2>2, <2>5 DEF Inv, RemovesOK
<1>9. GivenUp'
  BY <1>1, <1>2 DEF Inv, GivenUp
<1> QED
  BY <1>5, <1>7, <1>8, <1>9

\* What is to be removed after the head has been taken from the inbox.
LEMMA HandlerRemoving ==
    ASSUME TypeInv, Handler, NEW h \in Handle
    PROVE  /\ Removing(h)' => Removing(h)
           /\ Removing(h) => Removing(h)' \/ (inbox[1].method = "RemoveQuery" /\ inbox[1].on = h)
<1>1. inbox # <<>> /\ inbox' = Tail(inbox)
  BY Received
<1>2. /\ \A i \in DOMAIN inbox' : i + 1 \in DOMAIN inbox /\ inbox'[i] = inbox[i + 1]
      /\ \A i \in DOMAIN inbox : i # 1 => i - 1 \in DOMAIN inbox' /\ inbox'[i - 1] = inbox[i]
  BY <1>1, TailTaken DEF TypeInv
<1>3. Removing(h)' => Removing(h)
  BY <1>2 DEF Removing
<1>4. ASSUME NEW i \in DOMAIN inbox, inbox[i].method = "RemoveQuery", inbox[i].on = h, i # 1
      PROVE  Removing(h)'
  BY <1>2, <1>4 DEF Removing
<1> QED
  BY <1>3, <1>4 DEF Removing

\* The client that says it is done with its Query has one.
LEMMA RemovedHandle ==
    ASSUME Inv, NEW c \in Clients, call[c] = "RemoveQuery"
    PROVE  handle[c] \in Handle /\ Holds(c, handle[c]) /\ Given(handle[c])
<1>1. handle[c] \in Handle
  BY DEF Inv, TypeInv, TypeOK, ClientsOK, OnQuery
<1> QED
  BY <1>1 DEF Holds, Inv, HandlesGiven

LEMMA OtherOwn ==
    ASSUME Inv, Other
    PROVE  Inv'
<1>1. Handler /\ TypeInv /\ UNCHANGED <<alive, run, call, handle, lost>> /\ alive
  BY Received DEF Handler, Inv
<1>2. UNCHANGED query /\ misdirected \subseteq misdirected' /\ Head(inbox).method # "RemoveQuery"
      /\ Head(inbox).method # "AddQuery"
  BY DEF Other, HandleAdd, HandleQueryMethod, HandlerThrows, NoSuchQuery, Receive, Reached, QueryMethods
<1>3. Head(inbox) = inbox[1]
  BY <1>1, Received
<1>4. \A h \in Handle : Removing(h)' <=> Removing(h)
  BY <1>1, <1>2, <1>3, HandlerRemoving
<1>5. \A c \in Clients, h \in Handle : Holds(c, h)' <=> Holds(c, h)
  BY <1>1, <1>2, <1>3, HandlerHolds
<1>6. Removed'
  <2> SUFFICES ASSUME NEW c \in Clients, call[c] = "RemoveQuery", handle[c].run = run
               PROVE  Removing(handle[c])' \/ query[handle[c].path] = Null
    BY <1>1, <1>2 DEF Removed
  <2>1. PICK h \in Handle : h = handle[c]
    BY RemovedHandle
  <2>2. Removing(h)' <=> Removing(handle[c])'
    BY <1>1, <2>1 DEF Removing
  <2> QED
    BY <1>1, <1>4, <2>1, <2>2 DEF Inv, Removed
<1>7. HandlesOwn'
  BY <1>1, <1>2, <1>5 DEF Inv, HandlesOwn
<1>8. Released'
  <2> SUFFICES ASSUME NEW p \in Paths \ misdirected', NEW h \in Handle,
                      h = [path |-> p, run |-> run], query[p] # Null, query[p] \notin lost
               PROVE  Holds(query[p], h)' \/ Removing(h)'
    BY <1>1, <1>2 DEF Released
  <2>1. PICK d \in Clients : d = query[p] /\ d = query'[p]
    BY <1>1, <1>2 DEF TypeInv, TypeOK
  <2>2. Holds(d, h) \/ Removing(h)
    BY <1>2, <2>1 DEF Inv, Released
  <2>3. Holds(d, h)' => Holds(query[p], h)'
    BY <2>1 DEF Holds
  <2> QED
    BY <1>4, <1>5, <2>2, <2>3
<1> QED
  BY <1>1, <1>6, <1>7, <1>8, HandlerOwn, HandlerTypes DEF Inv

\* A path is given out once in a run, to the client that asked.
LEMMA AddQueryOwn ==
    ASSUME Inv, HandleAddQuery
    PROVE  Inv'
<1>1. /\ Handler /\ TypeInv /\ UNCHANGED <<alive, run, call, handle, lost>> /\ alive
      /\ inbox[1].client \in Clients /\ 1 \in DOMAIN inbox
      /\ inbox[1].method = "AddQuery" /\ misdirected' = misdirected /\ Head(inbox) = inbox[1]
  BY Received DEF Handler, Inv, HandleAddQuery, Receive
<1>2. counter \in Paths /\ run \in 1..MaxRuns
  <2>1. counter < MaxQueries /\ run >= 1
    BY <1>1 DEF TypeInv, InboxOK, DaemonOK
  <2> QED
    BY <1>1, <2>1, Nothing DEF TypeInv, TypeOK, Paths
<1>3. PICK g \in Handle : g = [path |-> counter, run |-> run]
  BY <1>2 DEF Handle
<1>4. PICK a \in Clients : a = inbox[1].client
  BY <1>1
<1>5. /\ \A p \in Paths \ {counter} : query'[p] = query[p]
      /\ \/ query' = query
         \/ query'[counter] = a /\ (inbox[1].awaited => Holds(a, g)')
  <2>1. query \in [Paths -> Clients \cup {Null}] /\ reply \in [Clients -> Reply \cup {Null}]
    BY <1>1 DEF TypeInv, TypeOK
  <2>2. \/ query' = query
        \/ query' = [query EXCEPT ![counter] = a] /\ Send(inbox[1], Returns(g))
    BY <1>1, <1>3, <1>4 DEF HandleAddQuery
  <2>3. Send(inbox[1], Returns(g)) /\ inbox[1].awaited => Holds(a, g)'
    BY <1>4, <2>1, Replies DEF Send, Holds
  <2> QED
    BY <1>2, <2>1, <2>2, <2>3
<1>6. \A h \in Handle : Given(h) /\ h.run = run => h.path \in Paths \ {counter}
  BY <1>1, <1>2, HandleFields DEF Given, Paths
<1>7. \A h \in Handle : Removing(h)' <=> Removing(h)
  BY <1>1, HandlerRemoving
<1>8. Removed'
  <2> SUFFICES ASSUME NEW c \in Clients, call[c] = "RemoveQuery", handle[c].run = run
               PROVE  Removing(handle[c])' \/ query'[handle[c].path] = Null
    BY <1>1 DEF Removed
  <2>1. PICK h \in Handle : h = handle[c] /\ Given(h)
    BY RemovedHandle
  <2>2. Removing(h)' <=> Removing(handle[c])'
    BY <1>1, <2>1 DEF Removing
  <2>3. Removing(h) \/ query[h.path] = Null
    BY <1>1, <2>1 DEF Inv, Removed
  <2> QED
    BY <1>5, <1>6, <1>7, <2>1, <2>2, <2>3
<1>9. HandlesOwn'
  <2> SUFFICES ASSUME NEW d \in Clients, NEW h \in Handle, Holds(d, h)', call[d] # "RemoveQuery",
                      h.run = run, h.path \notin misdirected
               PROVE  query'[h.path] = d
    BY <1>1 DEF HandlesOwn
  <2>1. CASE Holds(d, h)
    <3>1. Given(h) /\ query[h.path] = d
      BY <1>1, <2>1 DEF Inv, HandlesGiven, HandlesOwn
    <3> QED
      BY <1>5, <1>6, <3>1
  <2>2. CASE ~Holds(d, h)
    <3>1. d = inbox[1].client /\ h = g /\ inbox[1].awaited
      BY <1>1, <1>3, <2>2, HandlerHolds
    <3>2. query'[counter] = d
      <4>1. CASE query'[counter] = inbox[1].client
        BY <3>1, <4>1
      <4>2. CASE Send(inbox[1], Error)
        <5>1. reply'[d] = Error
          BY <1>1, <3>1, <4>2 DEF Send, TypeInv, TypeOK
        <5>2. ~Holds(d, h)'
          BY <1>1, <2>2, <5>1, Replies, HandleFields DEF Holds
        <5> QED
          BY <5>2
      <4> QED
        BY <1>1, <1>2, <4>1, <4>2 DEF HandleAddQuery, TypeInv, TypeOK
    <3> QED
      BY <1>3, <3>1, <3>2
  <2> QED
    BY <2>1, <2>2
<1>10. Released'
  <2> SUFFICES ASSUME NEW p \in Paths \ misdirected, NEW h \in Handle,
                      h = [path |-> p, run |-> run], query'[p] # Null, query'[p] \notin lost
               PROVE  Holds(query[p], h)' \/ Removing(h)'
    BY <1>1 DEF Released
  <2>1. PICK d \in Clients : d = query'[p]
    BY <1>1, HandlerTypes DEF TypeInv, TypeOK
  <2>2. Holds(d, h)' => Holds(query[p], h)'
    BY <2>1 DEF Holds
  <2>3. CASE query'[p] = query[p]
    <3>1. Holds(d, h) \/ Removing(h)
      BY <2>1, <2>3 DEF Inv, Released
    <3>2. Holds(d, h) => Holds(d, h)'
      BY <1>1, HandlerHolds
    <3> QED
      BY <1>7, <2>2, <3>1, <3>2
  <2>4. CASE query'[p] # query[p]
    <3>1. p = counter /\ h = g /\ d = a /\ (inbox[1].awaited => Holds(d, g)')
      BY <1>3, <1>5, <2>1, <2>4
    <3>2. inbox[1].awaited
      BY <1>1, <1>4, <2>1, <3>1 DEF Inv, GivenUp
    <3> QED
      BY <2>2, <3>1, <3>2
  <2> QED
    BY <2>3, <2>4
<1> QED
  BY <1>1, <1>8, <1>9, <1>10, HandlerOwn, HandlerTypes DEF Inv

\* A query is erased for the client that has said it is done with it, or at a
\* path of an earlier run, which is then among the misdirected ones.
LEMMA RemoveQueryOwn ==
    ASSUME Inv, HandleRemoveQuery
    PROVE  Inv'
<1>1. /\ Handler /\ TypeInv /\ UNCHANGED <<alive, run, call, handle, lost>> /\ alive
      /\ inbox[1].method = "RemoveQuery" /\ 1 \in DOMAIN inbox /\ Head(inbox) = inbox[1]
      /\ inbox[1].on \in Handle
  BY Received DEF Handler, Inv, HandleRemoveQuery, Receive, OnQuery
<1>2. PICK g \in Handle : g = inbox[1].on
  BY <1>1
<1>3. /\ query'[g.path] = Null /\ \A p \in Paths \ {g.path} : query'[p] = query[p]
      /\ misdirected \subseteq misdirected' /\ (g.run # run => g.path \in misdirected')
  <2>1. query' = [query EXCEPT ![g.path] = Null] /\ misdirected' = Reached(g)
    BY <1>1, <1>2 DEF HandleRemoveQuery
  <2>2. query \in [Paths -> Clients \cup {Null}] /\ g.path \in Paths
    BY <1>1, HandleFields DEF TypeInv, TypeOK
  <2> QED
    BY <2>1, <2>2 DEF Reached
<1>4. \A c \in Clients, h \in Handle : Holds(c, h)' <=> Holds(c, h)
  BY <1>1, HandlerHolds
<1>5. \A h \in Handle : Removing(h) => Removing(h)' \/ h = g
  BY <1>1, <1>2, HandlerRemoving
<1>6. Removed'
  <2> SUFFICES ASSUME NEW c \in Clients, call[c] = "RemoveQuery", handle[c].run = run
               PROVE  Removing(handle[c])' \/ query'[handle[c].path] = Null
    BY <1>1 DEF Removed
  <2>1. PICK h \in Handle : h = handle[c]
    BY RemovedHandle
  <2>2. Removing(h)' <=> Removing(handle[c])'
    BY <1>1, <2>1 DEF Removing
  <2>3. Removing(h) \/ query[h.path] = Null
    BY <1>1, <2>1 DEF Inv, Removed
  <2>4. h.path \in Paths
    BY HandleFields
  <2> QED
    BY <1>3, <1>5, <2>1, <2>2, <2>3, <2>4
<1>7. HandlesOwn'
  <2> SUFFICES ASSUME NEW d \in Clients, NEW h \in Handle, Holds(d, h), call[d] # "RemoveQuery",
                      h.run = run, h.path \notin misdirected'
               PROVE  query'[h.path] = d
    BY <1>1, <1>4 DEF HandlesOwn
  <2>1. h # g
    BY <1>1, <1>2 DEF Inv, RemovesOK
  <2>2. h.path # g.path
    BY <1>3, <2>1, HandleFields
  <2>3. query[h.path] = d
    BY <1>1, <1>3 DEF Inv, HandlesOwn
  <2>4. h.path \in Paths
    BY HandleFields
  <2> QED
    BY <1>3, <2>2, <2>3, <2>4
<1>8. Released'
  <2> SUFFICES ASSUME NEW p \in Paths \ misdirected', NEW h \in Handle,
                      h = [path |-> p, run |-> run], query'[p] # Null, query'[p] \notin lost
               PROVE  Holds(query[p], h)' \/ Removing(h)'
    BY <1>1 DEF Released
  <2>1. p # g.path /\ h # g /\ query'[p] = query[p]
    BY <1>3
  <2>2. PICK d \in Clients : d = query[p] /\ d = query'[p]
    BY <1>1, <2>1 DEF TypeInv, TypeOK
  <2>3. Holds(d, h) \/ Removing(h)
    BY <1>3, <2>2 DEF Inv, Released
  <2>4. Holds(d, h)' => Holds(query[p], h)'
    BY <2>2 DEF Holds
  <2> QED
    BY <1>4, <1>5, <2>1, <2>3, <2>4
<1> QED
  BY <1>1, <1>6, <1>7, <1>8, HandlerOwn, HandlerTypes DEF Inv

\* A new run gives out new handles.
LEMMA RunOwn ==
    ASSUME Inv, Start \/ Crash
    PROVE  Inv'
<1>1. UNCHANGED <<call, handle>> /\ TypeInv
  BY DEF Start, Crash, client, Inv
<1>2. inbox' = <<>> /\ DOMAIN inbox' = {} /\ query' = [p \in Paths |-> Null]
  BY <1>1, EmptySeq DEF Start, Crash, TypeInv, DaemonOK
<1>3. \A c \in Clients, h \in Handle : Holds(c, h)' => Holds(c, h)
  <2>1. \A c \in Clients : reply'[c] = reply[c] \/ reply'[c] = Error
    BY DEF Start, Crash
  <2> QED
    BY <1>1, <2>1, Replies, HandleFields DEF Holds
<1>4. \A h \in Handle : h.run <= run => Given(h)' /\ ~(alive' /\ h.run = run')
  <2>1. run \in Nat
    BY <1>1, Nothing DEF TypeInv, TypeOK
  <2> QED
    BY <2>1, HandleFields DEF Start, Crash, Given
<1>5. \A c \in Clients, h \in Handle : Holds(c, h)' => h.run <= run
  BY <1>3 DEF Inv, HandlesGiven, Given
<1>6. HandlesGiven' /\ HandlesOwn'
  BY <1>2, <1>4, <1>5 DEF HandlesGiven, HandlesOwn
<1>7. OneHolder'
  BY <1>3 DEF Inv, OneHolder
<1>8. RemovesOK' /\ GivenUp'
  BY <1>2 DEF RemovesOK, GivenUp
<1>9. Removed'
  <2>1. \A c \in Clients : call[c] = "RemoveQuery" => handle[c] \in Handle /\ handle[c].run <= run
    BY RemovedHandle DEF Given
  <2> QED
    BY <1>1, <1>4, <2>1 DEF Removed
<1>10. Released'
  BY <1>2 DEF Released
<1> QED
  BY <1>1, <1>6, <1>7, <1>8, <1>9, <1>10, RunTypes DEF Inv

LEMMA InvStep ==
    ASSUME Inv, [Next]_vars
    PROVE  Inv'
<1>1. CASE UNCHANGED vars
  <2>1. TypeInv'
    BY <1>1, TypeStep DEF Inv
  <2> QED
    BY <1>1, <2>1 DEF Inv, HandlesGiven, OneHolder, RemovesOK, Removed, HandlesOwn, GivenUp, Released,
                      Holds, Given, Removing, vars, server, client
<1>2. CASE Next
  BY <1>2, InvokeOwn, EndOwn, OtherOwn, AddQueryOwn, RemoveQueryOwn, RunOwn DEF Next, Other
<1> QED
  BY <1>1, <1>2

LEMMA Invariant == Spec => []Inv
<1>1. Inv /\ [Next]_vars => Inv'
  BY InvStep
<1> QED
  BY <1>1, InvInit, PTL DEF Spec

\* A client's Query is the query that the daemon's Token created for it, on
\* whatever path and in whatever run, as long as no Query from before the last
\* start of the daemon has been used on the same path.
THEOREM QueriesAreTheClientsOwn == Spec => []QueryIsTheClientsOwn
<1>1. Inv => QueryIsTheClientsOwn
  <2> SUFFICES ASSUME Inv, NEW c \in Clients, handle[c] # Null, call[c] # "RemoveQuery",
                      alive, handle[c].run = run, handle[c].path \notin misdirected
               PROVE  query[handle[c].path] = c
    BY DEF QueryIsTheClientsOwn
  <2>1. handle[c] \in Handle /\ Holds(c, handle[c])
    BY DEF Inv, TypeInv, TypeOK, Holds
  <2> QED
    BY <2>1 DEF Inv, HandlesOwn
<1> QED
  BY <1>1, Invariant, PTL

\* The Token keeps a query for a client that has it, is about to have it or has
\* said that it is done with it, unless the client ended with the query or gave
\* up waiting for it.
THEOREM QueriesNotKept == Spec => []QueriesAreReleased
<1>1. Inv => QueriesAreReleased
  <2> SUFFICES ASSUME Inv, NEW p \in Paths \ misdirected, query[p] # Null, query[p] \notin lost
               PROVE  LET c == query[p]
                          h == [path |-> p, run |-> run]
                      IN  \/ handle[c] = h
                          \/ reply[c] # Null /\ reply[c].query = h
                          \/ \E i \in DOMAIN inbox : inbox[i].method = "RemoveQuery" /\ inbox[i].on = h
    BY DEF QueriesAreReleased
  <2>1. alive /\ run >= 1
    BY DEF Inv, TypeInv, DaemonOK
  <2>2. run \in 1..MaxRuns
    BY <2>1, Nothing DEF Inv, TypeInv, TypeOK
  <2>3. PICK h \in Handle : h = [path |-> p, run |-> run]
    BY <2>2 DEF Handle
  <2>4. Holds(query[p], h) \/ Removing(h)
    BY <2>3 DEF Inv, Released
  <2> QED
    BY <2>3, <2>4 DEF Holds, Removing
<1> QED
  BY <1>1, Invariant, PTL
=============================================================================
