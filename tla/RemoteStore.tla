---------------------------- MODULE RemoteStore ----------------------------
(***************************************************************************)
(* A trust store over the bus: the daemon exposes its store (expose.cpp,   *)
(* detail::Token) and clients resolve it (resolve.cpp, detail::Store).     *)
(* Every client call is synchronous and gives up after a second; the       *)
(* daemon handles calls one at a time, in the order they arrive, also      *)
(* those that nobody waits for any more.  Queries live in the daemon under *)
(* a path; a client that is done with one says so.                         *)
(*                                                                         *)
(* Whether the store carries out a call or throws is left open: TrustStore *)
(* has the store itself.  The bus is external.  What the code relies on: a *)
(* call without a receiver, or whose receiver goes, is answered with an    *)
(* error; a reply that comes too late, and a second reply to one call, are *)
(* dropped.  Methods are told apart where their handlers or their callers  *)
(* differ: "Add" also stands for RemoveApplication, "Step" for Execute,    *)
(* Next, Erase and the four narrowings.                                    *)
(***************************************************************************)
EXTENDS Naturals, Sequences

CONSTANTS
    Null,
    Clients,     \* the processes that use the store over the bus
    MaxQueries,  \* bound: the queries created in one run of the daemon
    MaxCalls,    \* bound: the calls that wait to be handled
    MaxRuns      \* bound: the number of times the daemon is started

VARIABLES
    alive,       \* whether the daemon runs
    run,         \* how often it was started
    counter,     \* query_counter
    query,       \* query_store: the client each path was given out to
    inbox,       \* the calls the daemon has not handled
    call,        \* the clients' calls under way
    reply,       \* the replies on their way
    handle,      \* the clients' Query objects, with the run they are from
    returned,    \* the client whose call has just returned without an exception
    \* Not in the code, for the properties:
    applied,     \* the store carried out the call under way
    misdirected, \* paths that a handle of an earlier run was used on
    lost         \* clients that gave up on a query or ended with one

server == <<alive, run, counter, query, inbox>>
client == <<call, handle>>
vars == <<server, client, reply, returned, applied, misdirected, lost>>

Paths == 0..MaxQueries - 1

StoreMethods == {"Add", "Reset", "AddQuery", "RemoveQuery"}

QueryMethods == {"All", "Step", "Current", "Status"}

Methods == StoreMethods \cup QueryMethods

Handle == [path : Paths, run : 1..MaxRuns]

Reply == [error : BOOLEAN, query : Handle \cup {Null}]

Error == [error |-> TRUE, query |-> Null]

ASSUME RemoteStoreAssumption ==
    /\ MaxQueries \in Nat /\ MaxCalls \in Nat /\ MaxRuns \in Nat
    /\ Null \notin Clients \cup Methods \cup Handle \cup Reply

Init ==
    /\ alive = FALSE
    /\ run = 0
    /\ counter = 0
    /\ query = [p \in Paths |-> Null]
    /\ inbox = <<>>
    /\ call = [c \in Clients |-> Null]
    /\ reply = [c \in Clients |-> Null]
    /\ handle = [c \in Clients |-> Null]
    /\ returned = Null
    /\ applied = [c \in Clients |-> FALSE]
    /\ misdirected = {}
    /\ lost = {}

-----------------------------------------------------------------------------
(* Clients.                                                                *)

\* A query method needs a Query, its destructor calls RemoveQuery.  One Query
\* per client is enough for any two to meet.
Callable(c, m) ==
    IF m \in QueryMethods \cup {"RemoveQuery"} THEN handle[c] # Null
    ELSE m = "AddQuery" => handle[c] = Null

PendingQueries == {i \in DOMAIN inbox : inbox[i].method = "AddQuery"}

Invoke(c, m) ==
    /\ call[c] = Null
    /\ Callable(c, m)
    /\ Len(inbox) < MaxCalls
    /\ m = "AddQuery" => counter < MaxQueries /\ PendingQueries = {}
    /\ call' = [call EXCEPT ![c] = m]
    /\ returned' = Null
    /\ IF alive
       THEN /\ inbox' = Append(inbox, [client |-> c, method |-> m, awaited |-> TRUE,
                  on |-> IF m \in QueryMethods \cup {"RemoveQuery"} THEN handle[c] ELSE Null])
            /\ UNCHANGED reply
       ELSE /\ reply' = [reply EXCEPT ![c] = Error]
            /\ UNCHANGED inbox
    /\ UNCHANGED <<alive, run, counter, query, handle, applied, misdirected, lost>>

\* Whether the client's method throws.  reset() and ~Query swallow exceptions;
\* all() does not look at the result, so that only what the bus throws remains.
Throws(m, failed) ==
    CASE m \in {"Reset", "RemoveQuery"} -> {FALSE}
      [] m = "All"                      -> {FALSE, failed}
      [] OTHER                          -> {failed}

End(c, failed) ==
    /\ call' = [call EXCEPT ![c] = Null]
    /\ \E t \in Throws(call[c], failed) :
          returned' = IF t THEN Null ELSE c
    /\ applied' = [applied EXCEPT ![c] = FALSE]
    /\ reply' = [reply EXCEPT ![c] = Null]

Return(c) ==
    /\ call[c] # Null
    /\ reply[c] # Null
    /\ End(c, reply[c].error)
    /\ handle' = [handle EXCEPT ![c] =
          CASE call[c] = "AddQuery" -> reply[c].query
            [] call[c] = "RemoveQuery" -> Null
            [] OTHER -> @]
    /\ UNCHANGED <<server, misdirected, lost>>

\* Nobody waits for c's call any more; it stays where it is.
Abandoned(c) ==
    [i \in DOMAIN inbox |->
        IF inbox[i].client = c THEN [inbox[i] EXCEPT !.awaited = FALSE] ELSE inbox[i]]

\* default_timeout() has passed, whether or not a reply is on its way.
TimeOut(c) ==
    /\ call[c] # Null
    /\ End(c, TRUE)
    /\ inbox' = Abandoned(c)
    /\ handle' = IF call[c] = "RemoveQuery" THEN [handle EXCEPT ![c] = Null] ELSE handle
    /\ lost' = IF call[c] = "AddQuery" THEN lost \cup {c} ELSE lost
    /\ UNCHANGED <<alive, run, counter, query, misdirected>>

\* The client's process ends, without the destructor of its Query.
Die(c) ==
    /\ call[c] # Null \/ handle[c] # Null
    /\ call' = [call EXCEPT ![c] = Null]
    /\ reply' = [reply EXCEPT ![c] = Null]
    /\ handle' = [handle EXCEPT ![c] = Null]
    /\ returned' = Null
    /\ applied' = [applied EXCEPT ![c] = FALSE]
    /\ inbox' = Abandoned(c)
    /\ lost' = lost \cup {c}
    /\ UNCHANGED <<alive, run, counter, query, misdirected>>

-----------------------------------------------------------------------------
(* The daemon.                                                             *)

\* The first reply to a call; a second one is dropped.
Send(msg, r) == reply' = IF msg.awaited THEN [reply EXCEPT ![msg.client] = r] ELSE reply

Done(msg) == applied' = IF msg.awaited THEN [applied EXCEPT ![msg.client] = TRUE] ELSE applied

Receive(ms) ==
    /\ alive
    /\ inbox # <<>>
    /\ Head(inbox).method \in ms
    /\ inbox' = Tail(inbox)
    /\ returned' = Null
    /\ UNCHANGED <<alive, run, client, lost>>

Returns(q) == [error |-> FALSE, query |-> q]

\* Mutant: the reply is sent after the error as well, and before it.
HandleAddRepliesFirst ==
    /\ Receive({"Add", "Reset"})
    /\ Send(Head(inbox), Returns(Null))
    /\ Done(Head(inbox)) \/ UNCHANGED applied
    /\ UNCHANGED <<counter, query, misdirected>>

\* handle_add, handle_remove_application, handle_reset.  After an error the
\* latter sends a return too, which comes second.
HandleAdd ==
    /\ Receive({"Add", "Reset"})
    /\ \/ Send(Head(inbox), Returns(Null)) /\ Done(Head(inbox))
       \/ Send(Head(inbox), Error) /\ UNCHANGED applied
    /\ UNCHANGED <<counter, query, misdirected>>

\* Mutant: the counter stays where it is.
HandleAddQuerySamePath ==
    /\ Receive({"AddQuery"})
    /\ query' = [query EXCEPT ![counter] = Head(inbox).client]
    /\ Send(Head(inbox), Returns([path |-> counter, run |-> run]))
    /\ Done(Head(inbox))
    /\ UNCHANGED <<counter, misdirected>>

\* Mutant: the reply carries the wrong part of what was inserted.
HandleAddQuerySwapped ==
    /\ Receive({"AddQuery"})
    /\ counter' = counter + 1
    /\ query' = [query EXCEPT ![counter] = Head(inbox).client]
    /\ Send(Head(inbox), Returns(Head(inbox).client))
    /\ Done(Head(inbox))
    /\ UNCHANGED misdirected

\* The counter has moved on when store->query() throws.
HandleAddQuery ==
    /\ Receive({"AddQuery"})
    /\ counter' = counter + 1
    /\ \/ /\ query' = [query EXCEPT ![counter] = Head(inbox).client]
          /\ Send(Head(inbox), Returns([path |-> counter, run |-> run]))
          /\ Done(Head(inbox))
       \/ /\ Send(Head(inbox), Error)
          /\ UNCHANGED <<query, applied>>
    /\ UNCHANGED misdirected

Reached(on) == IF on.run = run THEN misdirected ELSE misdirected \cup {on.path}

\* Mutant: the path is looked up but not erased.
HandleRemoveQueryKeeps ==
    /\ Receive({"RemoveQuery"})
    /\ Send(Head(inbox), Returns(Null))
    /\ Done(Head(inbox))
    /\ misdirected' = Reached(Head(inbox).on)
    /\ UNCHANGED <<counter, query>>

HandleRemoveQuery ==
    /\ Receive({"RemoveQuery"})
    /\ query' = [query EXCEPT ![Head(inbox).on.path] = Null]
    /\ Send(Head(inbox), Returns(Null))
    /\ Done(Head(inbox))
    /\ misdirected' = Reached(Head(inbox).on)
    /\ UNCHANGED counter

\* A handler of one of the query's methods.
HandleQueryMethod ==
    /\ Receive(QueryMethods)
    /\ query[Head(inbox).on.path] # Null
    /\ Send(Head(inbox), Returns(Null))
    /\ Done(Head(inbox))
    /\ misdirected' = Reached(Head(inbox).on)
    /\ UNCHANGED <<counter, query>>

\* Only Current answers exceptions with an error.  The others leave the
\* handler, and there is no reply.  Where that happens on the token's own
\* thread it ends the daemon: Crash, with the call unhandled.
HandlerThrows ==
    /\ Receive(QueryMethods \ {"Status"})
    /\ query[Head(inbox).on.path] # Null
    /\ IF Head(inbox).method = "Current" THEN Send(Head(inbox), Error) ELSE UNCHANGED reply
    /\ misdirected' = Reached(Head(inbox).on)
    /\ UNCHANGED <<counter, query, applied>>

\* There is no object at the path.
NoSuchQuery ==
    /\ Receive(QueryMethods)
    /\ query[Head(inbox).on.path] = Null
    /\ Send(Head(inbox), Error)
    /\ UNCHANGED <<counter, query, applied, misdirected>>

\* A new Token; the counter is static and starts at zero in every process.
Start ==
    /\ ~alive
    /\ run < MaxRuns
    /\ alive' = TRUE
    /\ run' = run + 1
    /\ returned' = Null
    /\ UNCHANGED <<counter, query, inbox, client, reply, applied, misdirected, lost>>

\* ~Token, or the daemon's process ends.
Crash ==
    /\ alive
    /\ alive' = FALSE
    /\ counter' = 0
    /\ query' = [p \in Paths |-> Null]
    /\ inbox' = <<>>
    /\ reply' = [c \in Clients |->
          IF \E i \in DOMAIN inbox : inbox[i].client = c /\ inbox[i].awaited THEN Error ELSE reply[c]]
    /\ misdirected' = {}
    /\ lost' = {}
    /\ returned' = Null
    /\ UNCHANGED <<run, client, applied>>

Next ==
    \/ \E c \in Clients, m \in Methods : Invoke(c, m)
    \/ \E c \in Clients : Return(c) \/ TimeOut(c) \/ Die(c)
    \/ HandleAdd
    \/ HandleAddQuery \/ HandleRemoveQuery
    \/ HandleQueryMethod \/ HandlerThrows \/ NoSuchQuery
    \/ Start \/ Crash

Spec == Init /\ [][Next]_vars

-----------------------------------------------------------------------------
(* Properties.                                                             *)

Call == [client : Clients, method : Methods, awaited : BOOLEAN, on : Handle \cup {Null}]

TypeOK ==
    /\ alive \in BOOLEAN
    /\ run \in 0..MaxRuns
    /\ counter \in 0..MaxQueries
    /\ query \in [Paths -> Clients \cup {Null}]
    /\ inbox \in Seq(Call)
    /\ call \in [Clients -> Methods \cup {Null}]
    /\ reply \in [Clients -> Reply \cup {Null}]
    /\ handle \in [Clients -> Handle \cup {Null}]
    /\ returned \in Clients \cup {Null}
    /\ applied \in [Clients -> BOOLEAN]
    /\ misdirected \subseteq Paths
    /\ lost \subseteq Clients

\* A method that returns without an exception was carried out by the daemon's
\* store, whatever timed out, crashed or was left unanswered before; except
\* for the three that hide their failures, reset() among them against store.h:71.
SuccessIsReal ==
    [][\A c \in Clients :
         call[c] # Null /\ call'[c] = Null /\ returned' = c =>
            applied[c] \/ call[c] \in {"Reset", "RemoveQuery", "All"}]_vars

\* A client's Query leads to the query that the daemon created for it, unless
\* a client used a Query from before the daemon's last start on its path.
QueryIsTheClientsOwn ==
    \A c \in Clients :
        /\ handle[c] # Null /\ call[c] # "RemoveQuery"
        /\ alive /\ handle[c].run = run
        /\ handle[c].path \notin misdirected
        => query[handle[c].path] = c

\* The daemon keeps a query no longer than its client does, unless the client
\* ended with it or never learned of it.
QueriesAreReleased ==
    \A p \in Paths \ misdirected :
        query[p] # Null /\ query[p] \notin lost =>
            LET c == query[p]
                h == [path |-> p, run |-> run]
            IN  \/ handle[c] = h
                \/ reply[c] # Null /\ reply[c].query = h
                \/ \E i \in DOMAIN inbox : inbox[i].method = "RemoveQuery" /\ inbox[i].on = h
=============================================================================
