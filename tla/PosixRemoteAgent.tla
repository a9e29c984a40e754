-------------------------- MODULE PosixRemoteAgent --------------------------
(***************************************************************************)
(* The remote agent over a Unix domain socket (remote/posix.cpp): a Stub   *)
(* in a trusted helper and one Skeleton per trust-store daemon, one daemon *)
(* per connection.  Threads of the helper call Stub::send, which asks the  *)
(* session registered for the user of an application and waits for the     *)
(* answer; the skeleton looks the application up by its process id and     *)
(* asks the user.  Handlers run on the Runtime's threads, which swallow    *)
(* the exceptions that leave them (runtime.cpp).                           *)
(*                                                                         *)
(* A process is a pid and its start time; a pid comes back with another    *)
(* start time.  The content of an answer is what it is about: the request, *)
(* with the process that the user was asked for.  Sockets, /proc, AppArmor *)
(* and the user are external.                                              *)
(***************************************************************************)
EXTENDS Naturals, Sequences

CONSTANTS
    Senders,      \* threads of the trusted helper
    Uids,
    Pids,
    Sessions,     \* bound: the connections of a behaviour
    MaxStart,     \* bound: the start times of a pid; it exits only before the last
    Verify,       \* the connections of daemons with verify_process_start_time
    Faults,       \* which calls can fail: "agent", "credentials"
    Serialized,   \* the helper sends one request per user at a time
    Null

ASSUME PosixAssumption ==
    /\ MaxStart \in Nat \ {0}
    /\ Verify \subseteq Sessions /\ Serialized \in BOOLEAN
    /\ Faults \subseteq {"agent", "credentials"}
    /\ Null \notin Sessions \cup Uids \cup Pids \cup [uid : Uids, pid : Pids, start : 1..MaxStart]

VARIABLES
    start,      \* start time of each pid's process, 0 without one
    started,    \* the last start time of each pid
    accepting,  \* an async_accept is pending
    sessions,   \* Session::Registry::sessions
    peer,       \* the daemon behind each connection: its Skeleton's state
    owner,      \* the uid it runs under
    request,    \* Skeleton::request, then the process the user is asked for
    requests,   \* socket from stub to skeleton
    answers,    \* socket from skeleton to stub
    pc,         \* where each sender is in Stub::send
    params,     \* its parameters
    before,     \* start_time_before_query
    session,    \* the session it resolved
    answer      \* the answer it read

processes == <<start, started>>
stub == <<accepting, sessions>>
skeletons == <<peer, owner, request>>
sockets == <<requests, answers>>
sends == <<pc, params, before, session, answer>>
vars == <<processes, stub, skeletons, sockets, sends>>

\* A request, and what its answer is about.
Request == [uid : Uids, pid : Pids, start : 1..MaxStart]

Done == {"idle", "returned", "thrown"}

Init ==
    /\ start = [p \in Pids |-> 1]
    /\ started = [p \in Pids |-> 1]
    /\ accepting = TRUE
    /\ sessions = [u \in Uids |-> Null]
    /\ peer = [s \in Sessions |-> "none"]
    /\ owner = [s \in Sessions |-> Null]
    /\ request = [s \in Sessions |-> Null]
    /\ requests = [s \in Sessions |-> <<>>]
    /\ answers = [s \in Sessions |-> <<>>]
    /\ pc = [c \in Senders |-> "idle"]
    /\ params = [c \in Senders |-> Null]
    /\ before = [c \in Senders |-> 0]
    /\ session = [c \in Senders |-> Null]
    /\ answer = [c \in Senders |-> Null]

-----------------------------------------------------------------------------
(* Applications.                                                           *)

\* The start time resolver and AppArmor find a process under the pid.
Runs(p) == start[p] # 0

Exit(p) ==
    /\ start[p] # 0
    /\ started[p] < MaxStart
    /\ start' = [start EXCEPT ![p] = 0]
    /\ UNCHANGED <<started, stub, skeletons, sockets, sends>>

Spawn(p) ==
    /\ start[p] = 0
    /\ started' = [started EXCEPT ![p] = @ + 1]
    /\ start' = [start EXCEPT ![p] = started[p] + 1]
    /\ UNCHANGED <<stub, skeletons, sockets, sends>>

-----------------------------------------------------------------------------
(* Connections.                                                            *)

\* The constructor of a Skeleton in a daemon of user u.
Connect(s, u) ==
    /\ peer[s] = "none"
    /\ peer' = [peer EXCEPT ![s] = "connecting"]
    /\ owner' = [owner EXCEPT ![s] = u]
    /\ UNCHANGED <<processes, stub, request, sockets, sends>>

\* A connection is accepted also when its daemon has left meanwhile.
Accepted(s) == peer' = [peer EXCEPT ![s] = IF @ = "left" THEN "gone" ELSE "reading"]

\* on_new_session: the latest session of a user replaces an earlier one.
\* An error of async_accept itself only starts the next accept.
Accept(s) ==
    /\ accepting
    /\ peer[s] \in {"connecting", "left"}
    /\ sessions' = [sessions EXCEPT ![owner[s]] = s]
    /\ Accepted(s)
    /\ UNCHANGED <<processes, accepting, owner, request, sockets, sends>>

\* The peer credentials resolver throws: start_accept() is not reached again,
\* and the connection is closed with its session.
AcceptThrows(s) ==
    /\ "credentials" \in Faults
    /\ accepting
    /\ peer[s] \in {"connecting", "left"}
    /\ accepting' = FALSE
    /\ Accepted(s)
    /\ UNCHANGED <<processes, sessions, owner, request, sockets, sends>>

\* The daemon ends, and the kernel closes its socket.  A connection that was not
\* accepted yet stays in the queue of the acceptor.
Die(s) ==
    /\ peer[s] \notin {"none", "left", "gone"}
    /\ peer' = [peer EXCEPT ![s] = IF @ = "connecting" THEN "left" ELSE "gone"]
    /\ request' = [request EXCEPT ![s] = Null]
    /\ UNCHANGED <<processes, stub, owner, sockets, sends>>

\* The stub's end of a connection is open while its Session is referenced.
Referenced(s) == (\E u \in Uids : sessions[u] = s) \/ (\E c \in Senders : session[c] = s)

-----------------------------------------------------------------------------
(* Skeleton.  A handler that throws neither answers nor reads again.  At   *)
(* the end of file, on_read_finished only starts another read.             *)

ReadRequest(s) ==
    /\ peer[s] = "reading"
    /\ requests[s] # <<>>
    /\ requests' = [requests EXCEPT ![s] = Tail(@)]
    /\ request' = [request EXCEPT ![s] = Head(requests[s])]
    /\ peer' = [peer EXCEPT ![s] = "processing"]
    /\ UNCHANGED <<processes, stub, owner, answers, sends>>

\* The start time is verified, if so configured.
Verified(s) == s \in Verify => start[request[s].pid] = request[s].start

VerifyStartTime(s) ==
    /\ peer[s] = "processing"
    /\ Verified(s)
    /\ peer' = [peer EXCEPT ![s] = "verified"]
    /\ UNCHANGED <<processes, stub, owner, request, sockets, sends>>

\* The app id is that of what runs under the pid by now.
ResolveAppId(s) ==
    /\ peer[s] = "verified"
    /\ Runs(request[s].pid)
    /\ request' = [request EXCEPT ![s].start = start[request[s].pid]]
    /\ peer' = [peer EXCEPT ![s] = "asking"]
    /\ UNCHANGED <<processes, stub, owner, sockets, sends>>

\* Mutant: the request is cleared before its answer is written.
WriteClearedAnswer(s) ==
    /\ peer[s] = "asking"
    /\ Referenced(s)
    /\ request' = [request EXCEPT ![s] = Null]
    /\ answers' = [answers EXCEPT ![s] = Append(@, request'[s])]
    /\ peer' = [peer EXCEPT ![s] = "reading"]
    /\ UNCHANGED <<processes, stub, owner, requests, sends>>

\* Mutant: the skeleton reads on without an answer.
WriteNoAnswer(s) ==
    /\ peer[s] = "asking"
    /\ request' = [request EXCEPT ![s] = Null]
    /\ peer' = [peer EXCEPT ![s] = "reading"]
    /\ UNCHANGED <<processes, stub, owner, sockets, sends>>

WriteAnswer(s) ==
    /\ peer[s] = "asking"
    /\ Referenced(s)
    /\ answers' = [answers EXCEPT ![s] = Append(@, request[s])]
    /\ request' = [request EXCEPT ![s] = Null]
    /\ peer' = [peer EXCEPT ![s] = "reading"]
    /\ UNCHANGED <<processes, stub, owner, requests, sends>>

\* Verification or resolution fails, the agent throws, or the stub's end is
\* closed when the answer is written.
SkeletonThrows(s) ==
    /\ \/ peer[s] = "processing" /\ ~Verified(s)
       \/ peer[s] = "verified" /\ ~Runs(request[s].pid)
       \/ peer[s] = "asking" /\ ("agent" \in Faults \/ ~Referenced(s))
    /\ peer' = [peer EXCEPT ![s] = "stuck"]
    /\ request' = [request EXCEPT ![s] = Null]
    /\ UNCHANGED <<processes, stub, owner, sockets, sends>>

-----------------------------------------------------------------------------
(* Stub::send.                                                             *)

Throw(c) ==
    /\ pc' = [pc EXCEPT ![c] = "thrown"]
    /\ session' = [session EXCEPT ![c] = Null]

\* The start time of the application comes first; without a process, the
\* resolver throws.
Send(c, p, u) ==
    /\ pc[c] \in Done
    /\ Serialized => \A d \in Senders : pc[d] \notin Done => params[d].uid # u
    /\ params' = [params EXCEPT ![c] = [pid |-> p, uid |-> u]]
    /\ answer' = [answer EXCEPT ![c] = Null]
    /\ IF Runs(p)
       THEN pc' = [pc EXCEPT ![c] = "resolving"] /\ before' = [before EXCEPT ![c] = start[p]]
       ELSE pc' = [pc EXCEPT ![c] = "thrown"] /\ UNCHANGED before
    /\ UNCHANGED <<processes, stub, skeletons, sockets, session>>

\* Mutant: without a session for the user, any session will do.
ResolveAnySession(c) ==
    /\ pc[c] = "resolving"
    /\ \E u \in Uids :
          /\ sessions[params[c].uid] = Null \/ u = params[c].uid
          /\ pc' = [pc EXCEPT ![c] = IF sessions[u] = Null THEN "thrown" ELSE "writing"]
          /\ session' = [session EXCEPT ![c] = sessions[u]]
    /\ UNCHANGED <<processes, stub, skeletons, sockets, params, before, answer>>

ResolveSession(c) ==
    /\ pc[c] = "resolving"
    /\ LET s == sessions[params[c].uid]
       IN  /\ pc' = [pc EXCEPT ![c] = IF s = Null THEN "thrown" ELSE "writing"]
           /\ session' = [session EXCEPT ![c] = s]
    /\ UNCHANGED <<processes, stub, skeletons, sockets, params, before, answer>>

WriteRequest(c) ==
    /\ pc[c] = "writing"
    /\ peer[session[c]] # "gone"
    /\ requests' = [requests EXCEPT ![session[c]] =
                       Append(@, [uid |-> params[c].uid, pid |-> params[c].pid, start |-> before[c]])]
    /\ pc' = [pc EXCEPT ![c] = "reading"]
    /\ UNCHANGED <<processes, stub, skeletons, answers, params, before, session, answer>>

\* handle_error_from_socket_operation_for_uid, for an error that it takes for
\* the peer having gone away.
PeerGone(c) ==
    /\ sessions' = [sessions EXCEPT ![params[c].uid] = Null]
    /\ Throw(c)
    /\ UNCHANGED <<processes, accepting, skeletons, sockets, params, before, answer>>

\* EPIPE.
WriteFails(c) ==
    /\ pc[c] = "writing"
    /\ peer[session[c]] = "gone"
    /\ PeerGone(c)

ReadAnswer(c) ==
    /\ pc[c] = "reading"
    /\ answers[session[c]] # <<>>
    /\ answer' = [answer EXCEPT ![c] = Head(answers[session[c]])]
    /\ answers' = [answers EXCEPT ![session[c]] = Tail(@)]
    /\ pc' = [pc EXCEPT ![c] = "checking"]
    /\ UNCHANGED <<processes, stub, skeletons, requests, params, before, session>>

\* Mutant: the read is given up after a while, and the session used again.
ReadTimesOut(c) ==
    /\ pc[c] = "reading"
    /\ answers[session[c]] = <<>>
    /\ Throw(c)
    /\ UNCHANGED <<processes, stub, skeletons, sockets, params, before, answer>>

\* A daemon that goes with requests unread leaves ECONNRESET, else the end of
\* file: an error that the handler does not take for a peer gone away.
ReadFails(c) ==
    /\ pc[c] = "reading"
    /\ answers[session[c]] = <<>>
    /\ peer[session[c]] = "gone"
    /\ IF requests[session[c]] # <<>>
       THEN PeerGone(c)
       ELSE /\ Throw(c)
            /\ UNCHANGED <<processes, stub, skeletons, sockets, params, before, answer>>

\* Mutant: the start time is not compared afterwards.
CheckNothing(c) ==
    /\ pc[c] = "checking"
    /\ pc' = [pc EXCEPT ![c] = "returned"]
    /\ session' = [session EXCEPT ![c] = Null]
    /\ UNCHANGED <<processes, stub, skeletons, sockets, params, before, answer>>

\* The start time afterwards; the resolver throws if the process is gone.
CheckStartTime(c) ==
    /\ pc[c] = "checking"
    /\ IF start[params[c].pid] = before[c]
       THEN /\ pc' = [pc EXCEPT ![c] = "returned"]
            /\ session' = [session EXCEPT ![c] = Null]
       ELSE Throw(c)
    /\ UNCHANGED <<processes, stub, skeletons, sockets, params, before, answer>>

-----------------------------------------------------------------------------
SendStep(c) ==
    \/ ResolveSession(c) \/ WriteRequest(c) \/ WriteFails(c)
    \/ ReadAnswer(c) \/ ReadFails(c) \/ CheckStartTime(c)

SkeletonStep(s) ==
    \/ ReadRequest(s) \/ VerifyStartTime(s) \/ ResolveAppId(s)
    \/ WriteAnswer(s) \/ SkeletonThrows(s)

Next ==
    \/ \E p \in Pids : Exit(p) \/ Spawn(p)
    \/ \E s \in Sessions, u \in Uids : Connect(s, u)
    \/ \E s \in Sessions : Accept(s) \/ AcceptThrows(s) \/ Die(s) \/ SkeletonStep(s)
    \/ \E c \in Senders, p \in Pids, u \in Uids : Send(c, p, u)
    \/ \E c \in Senders : SendStep(c)

Spec == Init /\ [][Next]_vars

\* Threads are scheduled and the user answers; applications and daemons need
\* do nothing.
FairSpec ==
    /\ Spec
    /\ \A c \in Senders : WF_vars(SendStep(c))
    /\ \A s \in Sessions : WF_vars(SkeletonStep(s)) /\ WF_vars(Accept(s))

-----------------------------------------------------------------------------
(* Properties.                                                             *)

TypeOK ==
    /\ start \in [Pids -> 0..MaxStart]
    /\ started \in [Pids -> 1..MaxStart]
    /\ accepting \in BOOLEAN
    /\ sessions \in [Uids -> Sessions \cup {Null}]
    /\ peer \in [Sessions -> {"none", "connecting", "left", "reading", "processing",
                             "verified", "asking", "stuck", "gone"}]
    /\ owner \in [Sessions -> Uids \cup {Null}]
    /\ request \in [Sessions -> Request \cup {Null}]
    /\ requests \in [Sessions -> Seq(Request)]
    /\ answers \in [Sessions -> Seq(Request)]
    /\ pc \in [Senders -> Done \cup {"resolving", "writing", "reading", "checking"}]
    /\ params \in [Senders -> [pid : Pids, uid : Uids] \cup {Null}]
    /\ before \in [Senders -> 0..MaxStart]
    /\ session \in [Senders -> Sessions \cup {Null}]
    /\ answer \in [Senders -> Request \cup {Null}]

\* An answer that send() returns is about the very process it was called for,
\* although the skeleton looks the application up by its pid alone: neither a
\* pid that changed hands meanwhile nor another request's answer slips in.
AnswerIsAboutTheAsker ==
    \A c \in Senders : pc[c] = "returned" =>
        answer[c] = [uid |-> params[c].uid, pid |-> params[c].pid, start |-> before[c]]

\* A session registered for a user leads to a daemon of that user, across
\* reconnections and removals; so does the one a sender works with.
SessionsLeadToTheirUser ==
    /\ \A u \in Uids : sessions[u] # Null => owner[sessions[u]] = u
    /\ \A c \in Senders : session[c] # Null => owner[session[c]] = params[c].uid

\* What is under way on a connection: a request to be read, one in the works
\* and an answer to be read.
UnderWay(s) ==
    Len(requests[s]) + (IF request[s] = Null THEN 0 ELSE 1) + Len(answers[s])

\* With one request per user at a time, at most one message is under way on a
\* connection, and there is none without a sender that waits for its answer:
\* no answer is left over for the next request on the session.
NothingIsLeftOver ==
    \A s \in Sessions :
        /\ UnderWay(s) <= 1
        /\ UnderWay(s) = 1 /\ peer[s] # "gone" =>
              \E c \in Senders : pc[c] = "reading" /\ session[c] = s

\* A send() ends at whatever moment daemons die and reconnect, applications
\* exit and connections are refused, unless the skeleton it waits for has been
\* left by an exception and is there to stay.
SendEndsUnlessItsSkeletonThrew ==
    \A c \in Senders :
        pc[c] \notin Done ~> pc[c] \in Done \/ (pc[c] = "reading" /\ peer[session[c]] = "stuck")

\* remote/agent.h on send(): "either returning an answer or throwing an
\* exception": it does not wait forever.
SendEnds ==
    \A c \in Senders : pc[c] \notin Done ~> pc[c] \in Done
=============================================================================
