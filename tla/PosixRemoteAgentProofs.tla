----------------------- MODULE PosixRemoteAgentProofs -----------------------
(***************************************************************************)
(* Proofs about PosixRemoteAgent: for any number of users, processes,      *)
(* connections and sending threads.                                        *)
(***************************************************************************)
EXTENDS PosixRemoteAgent, SequenceTheorems, TLAPS

-----------------------------------------------------------------------------
(* Types, processes and sessions: with or without requests sent one at a   *)
(* time.                                                                   *)

\* What runs under a pid is the last process that was started under it.
ProcessesOK ==
    \A p \in Pids : start[p] \in {0, started[p]} /\ (start[p] = 0 => started[p] < MaxStart)

\* A skeleton has a request while it works on one.
SkeletonsOK ==
    \A s \in Sessions :
        /\ peer[s] \in {"processing", "verified", "asking"} <=> request[s] # Null
        /\ peer[s] # "none" => owner[s] \in Uids

\* What a send() has got hold of.
SendOK(c) ==
    /\ pc[c] \notin Done => /\ params[c] \in [pid : Pids, uid : Uids]
                           /\ before[c] \in 1..started[params[c].pid]
    /\ pc[c] \in {"writing", "reading", "checking"} <=> session[c] # Null
    /\ pc[c] = "checking" => answer[c] # Null

SendsOK == \A c \in Senders : SendOK(c)

\* Sessions are connected, to a daemon of their user.
SessionsOK ==
    /\ SessionsLeadToTheirUser
    /\ \A u \in Uids : sessions[u] # Null => peer[sessions[u]] # "none"
    /\ \A c \in Senders : session[c] # Null => peer[session[c]] # "none"

BaseInv == TypeOK /\ ProcessesOK /\ SkeletonsOK /\ SendsOK /\ SessionsOK

LEMMA BaseInit == Init => BaseInv
<1> SUFFICES ASSUME Init PROVE BaseInv
  OBVIOUS
<1>1. requests \in [Sessions -> Seq(Request)] /\ answers \in [Sessions -> Seq(Request)]
  BY EmptySeq DEF Init
<1>2. start \in [Pids -> 0..MaxStart] /\ started \in [Pids -> 1..MaxStart]
  BY PosixAssumption DEF Init
<1>3. before \in [Senders -> 0..MaxStart]
  BY PosixAssumption DEF Init
<1>4. TypeOK
  BY <1>1, <1>2, <1>3 DEF Init, TypeOK, Done
<1>5. ProcessesOK
  BY DEF Init, ProcessesOK
<1>6. SkeletonsOK
  BY DEF Init, SkeletonsOK
<1>7. SendsOK /\ SessionsOK
  BY DEF Init, SendsOK, SendOK, SessionsOK, SessionsLeadToTheirUser, Done
<1> QED
  BY <1>4, <1>5, <1>6, <1>7 DEF BaseInv

\* Processes come and go.
LEMMA ProcessesBase ==
    ASSUME BaseInv, NEW p \in Pids, Exit(p) \/ Spawn(p)
    PROVE  BaseInv'
<1> USE DEF BaseInv
<1>1. /\ start' \in [Pids -> 0..MaxStart] /\ started' \in [Pids -> 1..MaxStart]
      /\ \A q \in Pids : started'[q] >= started[q]
      /\ ProcessesOK'
  <2>1. MaxStart \in Nat /\ start \in [Pids -> 0..MaxStart] /\ started \in [Pids -> 1..MaxStart]
    BY PosixAssumption DEF TypeOK
  <2>2. CASE Exit(p)
    BY <2>1, <2>2 DEF Exit, ProcessesOK
  <2>3. CASE Spawn(p)
    BY <2>1, <2>3 DEF Spawn, ProcessesOK
  <2> QED
    BY <2>2, <2>3
<1>2. UNCHANGED <<stub, skeletons, sockets, sends>>
  BY DEF Exit, Spawn
<1>3. TypeOK'
  BY <1>1, <1>2 DEF TypeOK, stub, skeletons, sockets, sends
<1>4. SkeletonsOK' /\ SessionsOK'
  BY <1>2 DEF SkeletonsOK, SessionsOK, SessionsLeadToTheirUser, stub, skeletons, sends
<1>5. SendsOK'
  <2> SUFFICES ASSUME NEW c \in Senders PROVE SendOK(c)'
    BY DEF SendsOK
  <2>1. pc[c] \notin Done => params[c].pid \in Pids
    BY DEF SendsOK, SendOK, TypeOK
  <2> QED
    BY <1>1, <1>2, <2>1 DEF SendsOK, SendOK, TypeOK, sends
<1> QED
  BY <1>1, <1>3, <1>4, <1>5

\* Daemons connect, are accepted or refused, and end.
LEMMA ConnectionsBase ==
    ASSUME BaseInv, NEW s \in Sessions,
           (\E u \in Uids : Connect(s, u)) \/ Accept(s) \/ AcceptThrows(s) \/ Die(s)
    PROVE  BaseInv'
<1> USE DEF BaseInv
<1>1. UNCHANGED <<processes, sockets, sends>>
  BY DEF Connect, Accept, AcceptThrows, Accepted, Die
<1>2. ProcessesOK' /\ SendsOK'
  BY <1>1 DEF ProcessesOK, SendsOK, SendOK, processes, sends
<1>3. ASSUME NEW u \in Uids, Connect(s, u)
      PROVE  BaseInv'
  <2>1. TypeOK'
    BY <1>1, <1>3 DEF TypeOK, Connect, stub, processes, sockets, sends
  <2>2. SkeletonsOK'
    BY <1>3 DEF TypeOK, SkeletonsOK, Connect
  <2>3. SessionsOK'
    BY <1>1, <1>3 DEF TypeOK, SessionsOK, SessionsLeadToTheirUser, Connect, stub, sends
  <2> QED
    BY <1>2, <2>1, <2>2, <2>3
<1>4. CASE Accept(s)
  <2>1. owner[s] \in Uids
    BY <1>4 DEF SkeletonsOK, Accept
  <2>2. TypeOK'
    BY <1>1, <1>4 DEF TypeOK, Accept, Accepted, processes, sockets, sends
  <2>3. SkeletonsOK'
    BY <1>4 DEF TypeOK, SkeletonsOK, Accept, Accepted
  <2>4. SessionsOK'
    BY <1>1, <1>4, <2>1 DEF TypeOK, SessionsOK, SessionsLeadToTheirUser, Accept, Accepted, sends
  <2> QED
    BY <1>2, <2>2, <2>3, <2>4
<1>5. CASE AcceptThrows(s) \/ Die(s)
  <2>1. TypeOK'
    BY <1>1, <1>5 DEF TypeOK, AcceptThrows, Accepted, Die, stub, processes, sockets, sends
  <2>2. SkeletonsOK'
    BY <1>5 DEF TypeOK, SkeletonsOK, AcceptThrows, Accepted, Die
  <2>3. SessionsOK'
    BY <1>1, <1>5 DEF TypeOK, SessionsOK, SessionsLeadToTheirUser, AcceptThrows, Accepted, Die, stub, sends
  <2> QED
    BY <1>2, <2>1, <2>2, <2>3
<1> QED
  BY <1>3, <1>4, <1>5

\* A skeleton reads, resolves, answers or throws.
LEMMA SkeletonBase ==
    ASSUME BaseInv, NEW s \in Sessions, SkeletonStep(s)
    PROVE  BaseInv'
<1> USE DEF BaseInv
<1>1. /\ UNCHANGED <<processes, stub, owner, sends>>
      /\ peer' \in [Sessions -> {"none", "connecting", "left", "reading", "processing",
                                "verified", "asking", "stuck", "gone"}]
      /\ \A t \in Sessions : peer'[t] # "none" <=> peer[t] # "none"
  BY DEF SkeletonStep, ReadRequest, VerifyStartTime, ResolveAppId, WriteAnswer, SkeletonThrows, TypeOK
<1>2. ProcessesOK' /\ SendsOK' /\ SessionsOK'
  BY <1>1 DEF ProcessesOK, SendsOK, SendOK, SessionsOK, SessionsLeadToTheirUser, TypeOK,
              processes, stub, sends
<1>3. SUFFICES /\ request' \in [Sessions -> Request \cup {Null}]
               /\ requests' \in [Sessions -> Seq(Request)]
               /\ answers' \in [Sessions -> Seq(Request)]
               /\ \A t \in Sessions : peer'[t] \in {"processing", "verified", "asking"} <=> request'[t] # Null
  BY <1>1, <1>2 DEF TypeOK, SkeletonsOK, processes, stub, sends
<1>4. Null \notin Request
  BY PosixAssumption DEF Request
<1>5. CASE ReadRequest(s)
  <2>1. requests[s] \in Seq(Request) /\ requests[s] # <<>>
    BY <1>5 DEF ReadRequest, TypeOK
  <2>2. Head(requests[s]) \in Request /\ Tail(requests[s]) \in Seq(Request)
    BY <2>1, HeadTailProperties
  <2> QED
    BY <1>4, <1>5, <2>2 DEF ReadRequest, TypeOK, SkeletonsOK, sockets
<1>6. CASE ResolveAppId(s)
  <2>1. request[s] \in Request
    BY <1>6 DEF ResolveAppId, SkeletonsOK, TypeOK
  <2>2. start[request[s].pid] \in 1..MaxStart
    BY <1>6, <2>1, PosixAssumption DEF ResolveAppId, Runs, TypeOK, Request
  <2>3. [request[s] EXCEPT !.start = start[request[s].pid]] \in Request
    BY <2>1, <2>2 DEF Request
  <2>4. request' = [request EXCEPT ![s] = [request[s] EXCEPT !.start = start[request[s].pid]]]
    BY <1>6 DEF ResolveAppId
  <2>5. /\ request' \in [Sessions -> Request \cup {Null}]
        /\ request'[s] # Null /\ \A t \in Sessions \ {s} : request'[t] = request[t]
    BY <1>4, <2>3, <2>4 DEF TypeOK
  <2>6. peer'[s] = "asking" /\ \A t \in Sessions \ {s} : peer'[t] = peer[t]
    BY <1>6 DEF ResolveAppId, TypeOK
  <2>7. requests' \in [Sessions -> Seq(Request)] /\ answers' \in [Sessions -> Seq(Request)]
    BY <1>6 DEF ResolveAppId, TypeOK, sockets
  <2> QED
    BY <2>5, <2>6, <2>7 DEF SkeletonsOK
<1>7. CASE WriteAnswer(s)
  <2>1. request[s] \in Request
    BY <1>7 DEF WriteAnswer, SkeletonsOK, TypeOK
  <2>2. Append(answers[s], request[s]) \in Seq(Request)
    BY <2>1 DEF TypeOK
  <2> QED
    BY <1>7, <2>2 DEF WriteAnswer, TypeOK, SkeletonsOK
<1>8. CASE SkeletonThrows(s)
  BY <1>8 DEF SkeletonThrows, TypeOK, SkeletonsOK, sockets
<1>9. CASE VerifyStartTime(s)
  BY <1>9 DEF VerifyStartTime, TypeOK, SkeletonsOK, sockets
<1> QED
  BY <1>5, <1>6, <1>7, <1>8, <1>9 DEF SkeletonStep

\* What a send() under way is for.
LEMMA SendParams ==
    ASSUME BaseInv, NEW c \in Senders, pc[c] \notin Done
    PROVE  /\ params[c].uid \in Uids /\ params[c].pid \in Pids
           /\ before[c] \in 1..started[params[c].pid] /\ before[c] \in 1..MaxStart
<1>1. params[c] \in [pid : Pids, uid : Uids] /\ before[c] \in 1..started[params[c].pid]
  BY DEF BaseInv, SendsOK, SendOK, TypeOK
<1>2. started[params[c].pid] \in 1..MaxStart
  BY <1>1 DEF BaseInv, TypeOK
<1>3. before[c] \in 1..MaxStart
  BY <1>1, <1>2, PosixAssumption
<1> QED
  BY <1>1, <1>3

\* A send() begins, or takes a step.
LEMMA SendBase ==
    ASSUME BaseInv, NEW c \in Senders,
           (\E p \in Pids, u \in Uids : Send(c, p, u)) \/ SendStep(c)
    PROVE  BaseInv'
<1> USE DEF BaseInv
<1>1. /\ UNCHANGED <<processes, skeletons, accepting>>
      /\ \A d \in Senders \ {c} :
            /\ pc'[d] = pc[d] /\ params'[d] = params[d] /\ before'[d] = before[d]
            /\ session'[d] = session[d] /\ answer'[d] = answer[d]
  BY DEF Send, SendStep, ResolveSession, WriteRequest, WriteFails, ReadAnswer, ReadFails, PeerGone,
         Throw, CheckStartTime, TypeOK, stub, sends, skeletons
<1>2. ProcessesOK' /\ SkeletonsOK'
  BY <1>1 DEF ProcessesOK, SkeletonsOK, processes, skeletons
<1>3. \A d \in Senders \ {c} : SendOK(d)'
  BY <1>1 DEF SendsOK, SendOK, processes
<1>4. ASSUME NEW p \in Pids, NEW u \in Uids, Send(c, p, u)
      PROVE  BaseInv'
  <2>1. /\ params' = [params EXCEPT ![c] = [pid |-> p, uid |-> u]]
        /\ session[c] = Null /\ UNCHANGED <<stub, sockets, session>>
    BY <1>4 DEF Send, SendsOK, SendOK, Done
  <2>2. TypeOK'
    <3>1. params' \in [Senders -> [pid : Pids, uid : Uids] \cup {Null}]
      BY <2>1 DEF TypeOK
    <3>2. pc' \in [Senders -> Done \cup {"resolving", "writing", "reading", "checking"}]
      BY <1>4 DEF Send, TypeOK, Done
    <3>3. before' \in [Senders -> 0..MaxStart] /\ answer' \in [Senders -> Request \cup {Null}]
      <4>1. PICK b \in 0..MaxStart : before' = before \/ before' = [before EXCEPT ![c] = b]
        BY <1>4 DEF Send, TypeOK
      <4>2. answer' = [answer EXCEPT ![c] = Null]
        BY <1>4 DEF Send
      <4>3. before \in [Senders -> 0..MaxStart] /\ answer \in [Senders -> Request \cup {Null}]
        BY DEF TypeOK
      <4>4. before' \in [Senders -> 0..MaxStart]
        BY <4>1, <4>3
      <4> QED
        BY <4>2, <4>3, <4>4
    <3> QED
      BY <1>1, <2>1, <3>1, <3>2, <3>3 DEF TypeOK, processes, skeletons, stub, sockets
  <2>3. SendOK(c)'
    <3>1. params'[c] = [pid |-> p, uid |-> u] /\ session'[c] = Null
      BY <2>1 DEF TypeOK
    <3>2. CASE start[p] = 0
      BY <1>4, <3>1, <3>2 DEF Send, Runs, SendOK, TypeOK, Done
    <3>3. CASE start[p] # 0
      <4>1. start[p] \in 1..started[p] /\ pc'[c] = "resolving" /\ before'[c] = start[p]
        BY <1>4, <3>3, PosixAssumption DEF Send, Runs, TypeOK, ProcessesOK
      <4> QED
        BY <1>1, <3>1, <4>1, params'[c].pid = p DEF SendOK, Done, processes
    <3> QED
      BY <3>2, <3>3
  <2>4. SessionsOK'
    BY <1>1, <2>1 DEF SessionsOK, SessionsLeadToTheirUser, stub, skeletons, TypeOK
  <2> QED
    BY <1>2, <1>3, <2>2, <2>3, <2>4 DEF SendsOK
<1>5. CASE ResolveSession(c)
  <2>1. params[c].uid \in Uids /\ session[c] = Null
    BY <1>5 DEF ResolveSession, SendsOK, SendOK, TypeOK, Done
  <2>2. TypeOK'
    BY <1>1, <1>5, <2>1 DEF ResolveSession, TypeOK, Done, processes, skeletons, stub, sockets
  <2>3. SendOK(c)'
    BY <1>1, <1>5, <2>1 DEF ResolveSession, SendsOK, SendOK, TypeOK, Done, processes
  <2>4. SessionsOK'
    BY <1>1, <1>5, <2>1 DEF ResolveSession, SessionsOK, SessionsLeadToTheirUser, TypeOK, stub, skeletons
  <2> QED
    BY <1>2, <1>3, <2>2, <2>3, <2>4 DEF SendsOK
<1>6. CASE WriteRequest(c)
  <2> DEFINE r == [uid |-> params[c].uid, pid |-> params[c].pid, start |-> before[c]]
  <2>1. r \in Request /\ session[c] \in Sessions
    <3>1. pc[c] \notin Done /\ session[c] \in Sessions
      BY <1>6 DEF WriteRequest, SendsOK, SendOK, TypeOK, Done
    <3> QED
      BY <3>1, SendParams DEF Request
  <2>2. Append(requests[session[c]], r) \in Seq(Request)
    BY <2>1 DEF TypeOK
  <2>3. requests' = [requests EXCEPT ![session[c]] = Append(requests[session[c]], r)]
    BY <1>6 DEF WriteRequest
  <2> HIDE DEF r
  <2>4. TypeOK'
    <3>1. requests' \in [Sessions -> Seq(Request)]
      BY <2>2, <2>3 DEF TypeOK
    <3>2. /\ pc' \in [Senders -> Done \cup {"resolving", "writing", "reading", "checking"}]
          /\ UNCHANGED <<stub, answers, params, before, session, answer>>
      BY <1>6 DEF WriteRequest, TypeOK
    <3> QED
      BY <1>1, <3>1, <3>2 DEF TypeOK, processes, skeletons, stub
  <2>5. SendOK(c)'
    BY <1>1, <1>6 DEF WriteRequest, SendsOK, SendOK, TypeOK, Done, processes
  <2>6. SessionsOK'
    BY <1>1, <1>6 DEF WriteRequest, SessionsOK, SessionsLeadToTheirUser, stub, skeletons
  <2> QED
    BY <1>2, <1>3, <2>4, <2>5, <2>6 DEF SendsOK
<1>7. CASE WriteFails(c) \/ ReadFails(c)
  <2>1. TypeOK'
    <3>1. pc' = [pc EXCEPT ![c] = "thrown"] /\ session' = [session EXCEPT ![c] = Null]
      BY <1>7 DEF WriteFails, ReadFails, PeerGone, Throw
    <3>2. /\ pc' \in [Senders -> Done \cup {"resolving", "writing", "reading", "checking"}]
          /\ session' \in [Senders -> Sessions \cup {Null}]
      BY <3>1 DEF TypeOK, Done
    <3>3. /\ sessions' = sessions \/ sessions' = [sessions EXCEPT ![params[c].uid] = Null]
          /\ UNCHANGED <<accepting, sockets, params, before, answer>>
      BY <1>7 DEF WriteFails, ReadFails, PeerGone, stub
    <3>4. sessions' \in [Uids -> Sessions \cup {Null}]
      BY <3>3 DEF TypeOK
    <3> QED
      BY <1>1, <3>2, <3>3, <3>4 DEF TypeOK, processes, skeletons, sockets
  <2>2. SendOK(c)'
    BY <1>1, <1>7 DEF WriteFails, ReadFails, PeerGone, Throw, SendsOK, SendOK, TypeOK, Done
  <2>3. SessionsOK'
    <3>1. session'[c] = Null /\ params' = params
      BY <1>7 DEF WriteFails, ReadFails, PeerGone, Throw, TypeOK
    <3>2. \A u \in Uids : sessions'[u] = sessions[u] \/ sessions'[u] = Null
      BY <1>7 DEF WriteFails, ReadFails, PeerGone, TypeOK, stub
    <3> QED
      BY <1>1, <3>1, <3>2 DEF SessionsOK, SessionsLeadToTheirUser, skeletons
  <2> QED
    BY <1>2, <1>3, <2>1, <2>2, <2>3 DEF SendsOK
<1>8. CASE ReadAnswer(c)
  <2>1. session[c] \in Sessions
    BY <1>8 DEF ReadAnswer, SendsOK, SendOK, TypeOK
  <2>2. Head(answers[session[c]]) \in Request /\ Tail(answers[session[c]]) \in Seq(Request)
    BY <1>8, <2>1, HeadTailProperties DEF ReadAnswer, TypeOK
  <2>3. Null \notin Request
    BY PosixAssumption DEF Request
  <2>4. TypeOK'
    BY <1>1, <1>8, <2>2 DEF ReadAnswer, TypeOK, Done, processes, skeletons, stub
  <2>5. SendOK(c)'
    BY <1>1, <1>8, <2>2, <2>3 DEF ReadAnswer, SendsOK, SendOK, TypeOK, Done, processes
  <2>6. SessionsOK'
    BY <1>1, <1>8 DEF ReadAnswer, SessionsOK, SessionsLeadToTheirUser, stub, skeletons
  <2> QED
    BY <1>2, <1>3, <2>4, <2>5, <2>6 DEF SendsOK
<1>9. CASE CheckStartTime(c)
  <2>1. TypeOK'
    <3>1. /\ pc' \in [Senders -> Done \cup {"resolving", "writing", "reading", "checking"}]
          /\ session' \in [Senders -> Sessions \cup {Null}]
      BY <1>9 DEF CheckStartTime, Throw, TypeOK, Done
    <3>2. UNCHANGED <<stub, sockets, params, before, answer>>
      BY <1>9 DEF CheckStartTime
    <3> QED
      BY <1>1, <3>1, <3>2 DEF TypeOK, processes, skeletons, stub, sockets
  <2>2. SendOK(c)'
    BY <1>1, <1>9 DEF CheckStartTime, Throw, SendsOK, SendOK, TypeOK, Done
  <2>3. SessionsOK'
    <3>1. session'[c] = Null /\ params' = params /\ sessions' = sessions
      BY <1>9 DEF CheckStartTime, Throw, TypeOK, stub
    <3> QED
      BY <1>1, <3>1 DEF SessionsOK, SessionsLeadToTheirUser, skeletons
  <2> QED
    BY <1>2, <1>3, <2>1, <2>2, <2>3 DEF SendsOK
<1> QED
  BY <1>4, <1>5, <1>6, <1>7, <1>8, <1>9 DEF SendStep

LEMMA BaseStep ==
    ASSUME BaseInv, [Next]_vars
    PROVE  BaseInv'
<1>1. CASE UNCHANGED vars
  BY <1>1 DEF BaseInv, TypeOK, ProcessesOK, SkeletonsOK, SendsOK, SendOK, SessionsOK,
              SessionsLeadToTheirUser, vars, processes, stub, skeletons, sockets, sends
<1>2. CASE Next
  BY <1>2, ProcessesBase, ConnectionsBase, SkeletonBase, SendBase DEF Next
<1> QED
  BY <1>1, <1>2

LEMMA BaseInvariant == Spec => []BaseInv
<1>1. BaseInv /\ [Next]_vars => BaseInv'
  BY BaseStep
<1> QED
  BY <1>1, BaseInit, PTL DEF Spec

\* Every skeleton that works on something has a request, and every send() that
\* waits has a session, whatever fails.
THEOREM PosixTypeOK == Spec => []TypeOK
<1>1. BaseInv => TypeOK
  BY DEF BaseInv
<1> QED
  BY <1>1, BaseInvariant, PTL

\* The session registered for a user, and the one a send() for that user works
\* with, lead to a daemon of that user (Session::Registry), also where requests
\* are not sent one at a time.
THEOREM SessionsOfTheirUsers == Spec => []SessionsLeadToTheirUser
<1>1. BaseInv => SessionsLeadToTheirUser
  BY DEF BaseInv, SessionsOK
<1> QED
  BY <1>1, BaseInvariant, PTL

-----------------------------------------------------------------------------
(* Requests sent one at a time: what is under way on a connection belongs   *)
(* to the one sender that waits there.                                     *)

OneAtATime ==
    \A c, d \in Senders :
        pc[c] \notin Done /\ pc[d] \notin Done /\ params[c].uid = params[d].uid => c = d

On(c, s) == pc[c] = "reading" /\ session[c] = s

\* m names the user and the pid of the sender, and a process that ran under the
\* pid when the sender looked, or one that came after it.
About(c, m) ==
    /\ m.uid = params[c].uid
    /\ m.pid = params[c].pid
    /\ m.start \in before[c]..started[m.pid]

Quiet(s) == requests[s] = <<>> /\ request[s] = Null /\ answers[s] = <<>>

Carries(s, m) ==
    \/ requests[s] = <<m>> /\ request[s] = Null /\ answers[s] = <<>>
    \/ requests[s] = <<>> /\ request[s] = m /\ answers[s] = <<>>
    \/ requests[s] = <<>> /\ request[s] = Null /\ answers[s] = <<m>>

Awaited(s, m) ==
    /\ peer[s] = "gone" \/ \E c \in Senders : On(c, s)
    /\ \A c \in Senders : On(c, s) => About(c, m)

Line(s) == Quiet(s) \/ \E m \in Request : Carries(s, m) /\ Awaited(s, m)

Answered == \A c \in Senders : pc[c] = "checking" => About(c, answer[c])

SerialInv ==
    /\ BaseInv
    /\ OneAtATime
    /\ \A s \in Sessions : Line(s)
    /\ Answered
    /\ AnswerIsAboutTheAsker

LEMMA SerialInit == Init => SerialInv
<1> SUFFICES ASSUME Init PROVE SerialInv
  OBVIOUS
<1>1. OneAtATime /\ Answered /\ AnswerIsAboutTheAsker
  BY DEF Init, OneAtATime, Answered, AnswerIsAboutTheAsker, Done
<1>2. \A s \in Sessions : Line(s)
  BY DEF Init, Line, Quiet
<1> QED
  BY <1>1, <1>2, BaseInit DEF SerialInv

\* A step that leaves the senders alone leaves them as they were.
LEMMA SendersKept ==
    ASSUME SerialInv, UNCHANGED <<started, sends>>
    PROVE  /\ OneAtATime' /\ Answered' /\ AnswerIsAboutTheAsker'
           /\ \A c \in Senders, s \in Sessions : On(c, s)' <=> On(c, s)
           /\ \A c \in Senders, m \in Request : About(c, m)' <=> About(c, m)
BY DEF SerialInv, OneAtATime, Answered, AnswerIsAboutTheAsker, On, About, sends

LEMMA ProcessesSerial ==
    ASSUME SerialInv, NEW p \in Pids, Exit(p) \/ Spawn(p)
    PROVE  SerialInv'
<1>1. UNCHANGED <<stub, skeletons, sockets, sends>>
  BY DEF Exit, Spawn
<1>2. \A q \in Pids : started[q] \in Nat /\ started'[q] \in Nat /\ started'[q] >= started[q]
  <2>1. started \in [Pids -> 1..MaxStart] /\ MaxStart \in Nat
    BY PosixAssumption DEF SerialInv, BaseInv, TypeOK
  <2> QED
    BY <2>1 DEF Exit, Spawn
<1>3. \A c \in Senders, m \in Request : About(c, m) => About(c, m)'
  <2> SUFFICES ASSUME NEW c \in Senders, NEW m \in Request, About(c, m) PROVE About(c, m)'
    OBVIOUS
  <2>1. m.pid \in Pids /\ m.start \in Nat /\ before[c] \in Nat
    BY PosixAssumption DEF Request, SerialInv, BaseInv, TypeOK
  <2> QED
    BY <1>1, <1>2, <2>1 DEF About, sends
<1>4. \A s \in Sessions : Line(s)'
  <2> SUFFICES ASSUME NEW s \in Sessions PROVE Line(s)'
    OBVIOUS
  <2>1. CASE Quiet(s)
    BY <1>1, <2>1 DEF Line, Quiet, sockets, skeletons
  <2>2. ASSUME NEW m \in Request, Carries(s, m), Awaited(s, m) PROVE Line(s)'
    <3>1. Carries(s, m)'
      BY <1>1, <2>2 DEF Carries, sockets, skeletons
    <3>2. Awaited(s, m)'
      BY <1>1, <1>3, <2>2 DEF Awaited, On, sends, skeletons
    <3> QED
      BY <3>1, <3>2 DEF Line
  <2> QED
    BY <2>1, <2>2 DEF SerialInv, Line
<1>5. Answered'
  <2>1. \A c \in Senders : pc[c] = "checking" => answer[c] \in Request
    BY DEF SerialInv, BaseInv, SendsOK, SendOK, TypeOK
  <2> QED
    BY <1>1, <1>3, <2>1 DEF SerialInv, Answered, About, sends
<1>6. OneAtATime' /\ AnswerIsAboutTheAsker'
  BY <1>1 DEF SerialInv, OneAtATime, AnswerIsAboutTheAsker, sends
<1> QED
  BY <1>4, <1>5, <1>6, ProcessesBase DEF SerialInv

LEMMA ConnectionsSerial ==
    ASSUME SerialInv, NEW s \in Sessions,
           (\E u \in Uids : Connect(s, u)) \/ Accept(s) \/ AcceptThrows(s) \/ Die(s)
    PROVE  SerialInv'
<1>1. /\ UNCHANGED <<processes, sockets, sends>>
      /\ \A t \in Sessions : /\ peer[t] = "gone" => peer'[t] = "gone"
                             /\ request'[t] = request[t] \/ request'[t] = Null
  BY DEF Connect, Accept, AcceptThrows, Accepted, Die, SerialInv, BaseInv, TypeOK
<1>2. /\ OneAtATime' /\ Answered' /\ AnswerIsAboutTheAsker'
      /\ \A c \in Senders, t \in Sessions : On(c, t)' <=> On(c, t)
      /\ \A c \in Senders, m \in Request : About(c, m)' <=> About(c, m)
  BY <1>1, SendersKept DEF processes
<1>3. \A t \in Sessions : Line(t)'
  <2> SUFFICES ASSUME NEW t \in Sessions PROVE Line(t)'
    OBVIOUS
  <2>1. CASE Quiet(t)
    BY <1>1, <2>1 DEF Line, Quiet, sockets
  <2>2. ASSUME NEW m \in Request, Carries(t, m), Awaited(t, m) PROVE Line(t)'
    <3>1. Quiet(t)' \/ Carries(t, m)'
      BY <1>1, <2>2 DEF Carries, Quiet, sockets
    <3>2. Awaited(t, m)'
      BY <1>1, <1>2, <2>2 DEF Awaited
    <3> QED
      BY <3>1, <3>2 DEF Line
  <2> QED
    BY <2>1, <2>2 DEF SerialInv, Line
<1> QED
  BY <1>2, <1>3, ConnectionsBase DEF SerialInv

\* The message moves from the socket to the skeleton, names the process found
\* under the pid, and moves on to the other socket, or is dropped.
LEMMA SkeletonSerial ==
    ASSUME SerialInv, NEW s \in Sessions, SkeletonStep(s)
    PROVE  SerialInv'
<1>1. /\ UNCHANGED <<processes, stub, owner, sends>>
      /\ peer[s] # "gone"
      /\ \A t \in Sessions \ {s} :
            /\ peer'[t] = peer[t] /\ request'[t] = request[t]
            /\ requests'[t] = requests[t] /\ answers'[t] = answers[t]
  BY DEF SkeletonStep, ReadRequest, VerifyStartTime, ResolveAppId, WriteAnswer, SkeletonThrows, sockets,
         SerialInv, BaseInv, TypeOK
<1>2. /\ OneAtATime' /\ Answered' /\ AnswerIsAboutTheAsker'
      /\ \A c \in Senders, t \in Sessions : On(c, t)' <=> On(c, t)
      /\ \A c \in Senders, m \in Request : About(c, m)' <=> About(c, m)
  BY <1>1, SendersKept DEF processes
<1>3. ASSUME NEW t \in Sessions \ {s} PROVE Line(t)'
  <2>1. Quiet(t) => Quiet(t)'
    BY <1>1 DEF Quiet
  <2>2. \A m \in Request : Carries(t, m) /\ Awaited(t, m) => Carries(t, m)' /\ Awaited(t, m)'
    BY <1>1, <1>2 DEF Carries, Awaited
  <2> QED
    BY <2>1, <2>2 DEF SerialInv, Line
<1>4. ~Quiet(s)
  BY DEF SkeletonStep, ReadRequest, VerifyStartTime, ResolveAppId, WriteAnswer, SkeletonThrows, Quiet,
         SerialInv, BaseInv, SkeletonsOK
<1>5. PICK m \in Request : Carries(s, m) /\ Awaited(s, m)
  BY <1>4 DEF SerialInv, Line
<1>6. \E c \in Senders : On(c, s)'
  BY <1>1, <1>2, <1>5 DEF Awaited
<1>7. Null \notin Request
  BY PosixAssumption DEF Request
<1>8. /\ request \in [Sessions -> Request \cup {Null}]
      /\ requests \in [Sessions -> Seq(Request)] /\ answers \in [Sessions -> Seq(Request)]
      /\ peer[s] \in {"processing", "verified", "asking"} <=> request[s] # Null
  BY DEF SerialInv, BaseInv, TypeOK, SkeletonsOK
<1>9. CASE ReadRequest(s)
  <2>1. requests[s] = <<m>> /\ answers[s] = <<>>
    BY <1>5, <1>9 DEF Carries, ReadRequest
  <2>2. Carries(s, m)'
    BY <1>8, <1>9, <2>1 DEF Carries, ReadRequest
  <2>3. Awaited(s, m)'
    BY <1>2, <1>5, <1>6 DEF Awaited
  <2> QED
    BY <1>2, <1>3, <2>2, <2>3, SkeletonBase DEF SerialInv, Line
<1>10. CASE ResolveAppId(s)
  <2>1. request[s] = m /\ requests[s] = <<>> /\ answers[s] = <<>>
    BY <1>5, <1>8, <1>10 DEF Carries, ResolveAppId
  <2>2. m.pid \in Pids /\ start[m.pid] # 0
    BY <1>10, <2>1 DEF ResolveAppId, Runs, Request
  <2>3. start[m.pid] = started[m.pid] /\ start[m.pid] \in 1..MaxStart
    BY <2>2 DEF SerialInv, BaseInv, ProcessesOK, TypeOK
  <2>4. PICK n \in Request : n = [m EXCEPT !.start = start[m.pid]]
    BY <2>3 DEF Request
  <2>5. n.uid = m.uid /\ n.pid = m.pid /\ n.start = started[m.pid]
    BY <2>3, <2>4 DEF Request
  <2>6. Carries(s, n)'
    <3>1. request' = [request EXCEPT ![s] = n]
      BY <1>10, <2>1, <2>4 DEF ResolveAppId
    <3>2. request'[s] = n
      BY <1>8, <3>1
    <3> QED
      BY <1>10, <2>1, <3>2 DEF Carries, ResolveAppId, sockets
  <2>7. \A c \in Senders : On(c, s) => About(c, n)
    <3> SUFFICES ASSUME NEW c \in Senders, On(c, s) PROVE About(c, n)
      OBVIOUS
    <3>1. About(c, m)
      BY <1>5 DEF Awaited
    <3>2. pc[c] \notin Done
      BY DEF On, Done
    <3>3. before[c] \in 1..started[params[c].pid] /\ started[m.pid] \in Nat
      BY <2>2, <3>2, SendParams, PosixAssumption DEF SerialInv, BaseInv, TypeOK
    <3> QED
      BY <2>5, <3>1, <3>3 DEF About
  <2>8. Awaited(s, n)'
    BY <1>2, <1>6, <2>7 DEF Awaited
  <2> QED
    BY <1>2, <1>3, <2>6, <2>8, SkeletonBase DEF SerialInv, Line
<1>11. CASE WriteAnswer(s)
  <2>1. request[s] = m /\ requests[s] = <<>> /\ answers[s] = <<>>
    BY <1>5, <1>8, <1>11 DEF Carries, WriteAnswer
  <2>2. Carries(s, m)'
    BY <1>8, <1>11, <2>1 DEF Carries, WriteAnswer
  <2>3. Awaited(s, m)'
    BY <1>2, <1>5, <1>6 DEF Awaited
  <2> QED
    BY <1>2, <1>3, <2>2, <2>3, SkeletonBase DEF SerialInv, Line
<1>12. CASE SkeletonThrows(s)
  <2>1. request[s] # Null
    BY <1>8, <1>12 DEF SkeletonThrows
  <2>2. Quiet(s)'
    BY <1>5, <1>8, <1>12, <2>1 DEF Carries, Quiet, SkeletonThrows, sockets
  <2> QED
    BY <1>2, <1>3, <2>2, SkeletonBase DEF SerialInv, Line
<1>13. CASE VerifyStartTime(s)
  <2>1. Carries(s, m)'
    BY <1>5, <1>13 DEF Carries, VerifyStartTime, sockets
  <2>2. Awaited(s, m)'
    BY <1>2, <1>5, <1>6 DEF Awaited
  <2> QED
    BY <1>2, <1>3, <2>1, <2>2, SkeletonBase DEF SerialInv, Line
<1> QED
  BY <1>9, <1>10, <1>11, <1>12, <1>13 DEF SkeletonStep

\* A send() is alone on the session it has resolved.
LEMMA AloneOnSession ==
    ASSUME SerialInv, NEW c \in Senders, NEW d \in Senders,
           session[c] # Null, session[d] = session[c]
    PROVE  d = c
<1>1. pc[c] \notin Done /\ pc[d] \notin Done
  BY DEF SerialInv, BaseInv, SendsOK, SendOK, Done
<1>2. params[c].uid = params[d].uid
  BY DEF SerialInv, BaseInv, SessionsOK, SessionsLeadToTheirUser
<1> QED
  BY <1>1, <1>2 DEF SerialInv, OneAtATime

\* The guard that keeps a second request of the same user back.
LEMMA SendSerial ==
    ASSUME Serialized, SerialInv, NEW c \in Senders, NEW p \in Pids, NEW u \in Uids, Send(c, p, u)
    PROVE  SerialInv'
<1>1. /\ UNCHANGED <<processes, stub, skeletons, sockets, session>>
      /\ pc[c] \in Done /\ pc'[c] \in {"thrown", "resolving"}
      /\ \A d \in Senders \ {c} :
            /\ pc'[d] = pc[d] /\ params'[d] = params[d] /\ before'[d] = before[d]
            /\ answer'[d] = answer[d]
  BY DEF Send, SerialInv, BaseInv, TypeOK
<1>2. params'[c].uid = u /\ \A d \in Senders : pc[d] \notin Done => params[d].uid # u
  BY DEF Send, SerialInv, BaseInv, TypeOK
<1>3. OneAtATime'
  BY <1>1, <1>2 DEF SerialInv, OneAtATime, Done
<1>4. Answered' /\ AnswerIsAboutTheAsker'
  BY <1>1 DEF SerialInv, Answered, About, AnswerIsAboutTheAsker, processes
<1>5. \A d \in Senders, s \in Sessions : On(d, s)' <=> On(d, s)
  BY <1>1 DEF On, Done
<1>6. \A d \in Senders, s \in Sessions, m \in Request : On(d, s) /\ About(d, m) => About(d, m)'
  BY <1>1 DEF On, Done, About, processes
<1>7. \A s \in Sessions : Line(s)'
  <2> SUFFICES ASSUME NEW s \in Sessions PROVE Line(s)'
    OBVIOUS
  <2>1. Quiet(s) => Quiet(s)'
    BY <1>1 DEF Quiet, skeletons, sockets
  <2>2. \A m \in Request : Carries(s, m) => Carries(s, m)'
    BY <1>1 DEF Carries, skeletons, sockets
  <2>3. \A m \in Request : Awaited(s, m) => Awaited(s, m)'
    BY <1>1, <1>5, <1>6 DEF Awaited, skeletons
  <2> QED
    BY <2>1, <2>2, <2>3 DEF SerialInv, Line
<1>8. BaseInv'
  BY SendBase DEF SerialInv
<1> QED
  BY <1>3, <1>4, <1>7, <1>8 DEF SerialInv

\* The steps of a send(): only WriteRequest puts a message on a connection, and
\* it finds the connection quiet.
LEMMA SendStepSerial ==
    ASSUME SerialInv, NEW c \in Senders, SendStep(c)
    PROVE  SerialInv'
<1>1. /\ UNCHANGED <<processes, skeletons, params, before>>
      /\ pc[c] \notin Done
      /\ \A d \in Senders \ {c} :
            pc'[d] = pc[d] /\ session'[d] = session[d] /\ answer'[d] = answer[d]
  BY DEF SendStep, ResolveSession, WriteRequest, WriteFails, ReadAnswer, ReadFails, PeerGone,
         Throw, CheckStartTime, SerialInv, BaseInv, TypeOK, Done
<1>2. OneAtATime'
  BY <1>1 DEF SerialInv, OneAtATime
<1>3. BaseInv'
  BY SendBase DEF SerialInv
<1>4. \A d \in Senders, m \in Request : About(d, m)' <=> About(d, m)
  BY <1>1 DEF About, processes
<1>5. \A d \in Senders \ {c} : /\ pc'[d] = "checking" => About(d, answer[d])'
                              /\ \A s \in Sessions : On(d, s)' <=> On(d, s)
  BY <1>1 DEF About, SerialInv, Answered, On, processes
<1>6. \A d \in Senders \ {c} : pc'[d] = "returned" =>
         answer'[d] = [uid |-> params'[d].uid, pid |-> params'[d].pid, start |-> before'[d]]
  BY <1>1 DEF SerialInv, AnswerIsAboutTheAsker
<1>7. CASE ResolveSession(c) \/ WriteFails(c) \/ CheckStartTime(c)
  <2>1. /\ pc[c] # "reading" /\ pc'[c] \notin {"reading", "checking"}
        /\ UNCHANGED <<sockets, answer>>
    BY <1>7 DEF ResolveSession, WriteFails, PeerGone, Throw, CheckStartTime, SerialInv, BaseInv, TypeOK
  <2>2. ASSUME NEW s \in Sessions PROVE Line(s)'
    <3>1. Quiet(s) => Quiet(s)'
      BY <1>1, <2>1 DEF Quiet, skeletons, sockets
    <3>2. \A m \in Request : Carries(s, m) => Carries(s, m)'
      BY <1>1, <2>1 DEF Carries, skeletons, sockets
    <3>3. \A d \in Senders : On(d, s)' <=> On(d, s)
      BY <1>5, <2>1 DEF On
    <3>4. \A m \in Request : Awaited(s, m) => Awaited(s, m)'
      BY <1>1, <1>4, <3>3 DEF Awaited, skeletons
    <3> QED
      BY <3>1, <3>2, <3>4 DEF SerialInv, Line
  <2>3. Answered'
    BY <1>5, <2>1 DEF Answered
  <2>4. pc'[c] = "returned" =>
           answer'[c] = [uid |-> params'[c].uid, pid |-> params'[c].pid, start |-> before'[c]]
    <3> SUFFICES ASSUME pc'[c] = "returned"
                 PROVE  answer[c] = [uid |-> params[c].uid, pid |-> params[c].pid, start |-> before[c]]
      BY <1>1, <2>1
    <3>1. pc[c] = "checking" /\ start[params[c].pid] = before[c]
      BY <1>7 DEF ResolveSession, WriteFails, PeerGone, Throw, CheckStartTime, SerialInv, BaseInv, TypeOK
    <3>2. About(c, answer[c]) /\ answer[c] \in Request
      BY <3>1 DEF SerialInv, Answered, BaseInv, SendsOK, SendOK, TypeOK
    <3>3. /\ params[c].pid \in Pids /\ before[c] \in 1..started[params[c].pid]
      BY <1>1, SendParams DEF SerialInv
    <3>4. started[params[c].pid] = before[c] /\ before[c] \in Nat
      BY <3>1, <3>3, PosixAssumption DEF SerialInv, BaseInv, ProcessesOK, TypeOK
    <3>5. answer[c].start = before[c]
      BY <3>2, <3>4 DEF About
    <3> QED
      BY <3>2, <3>5 DEF About, Request
  <2> QED
    BY <1>2, <1>3, <1>6, <2>2, <2>3, <2>4 DEF SerialInv, AnswerIsAboutTheAsker
<1>8. (session[c] # Null /\ session[c] \in Sessions) \/ ResolveSession(c)
  BY DEF SendStep, WriteRequest, WriteFails, ReadAnswer, ReadFails, CheckStartTime,
         SerialInv, BaseInv, SendsOK, SendOK, TypeOK
<1>9. CASE WriteRequest(c)
  <2>1. PICK s \in Sessions : s = session[c] /\ s # Null
    BY <1>8, <1>9 DEF WriteRequest, ResolveSession
  <2>2. pc'[c] = "reading" /\ session' = session /\ answer' = answer /\ pc[c] = "writing"
    BY <1>9 DEF WriteRequest, SerialInv, BaseInv, TypeOK
  <2>3. PICK r \in Request : r = [uid |-> params[c].uid, pid |-> params[c].pid, start |-> before[c]]
    BY <1>1, SendParams DEF SerialInv, Request
  <2>4. Quiet(s)
    <3>1. \A d \in Senders : ~On(d, s)
      BY <2>1, <2>2, AloneOnSession DEF On
    <3>2. peer[s] # "gone"
      BY <1>9, <2>1 DEF WriteRequest
    <3> QED
      BY <3>1, <3>2 DEF SerialInv, Line, Awaited
  <2>5. Carries(s, r)'
    <3>1. requests' = [requests EXCEPT ![s] = Append(requests[s], r)] /\ answers' = answers
      BY <1>9, <2>1, <2>3 DEF WriteRequest
    <3>2. requests'[s] = <<r>>
      BY <2>4, <3>1 DEF Quiet, SerialInv, BaseInv, TypeOK
    <3> QED
      BY <1>1, <2>4, <3>1, <3>2 DEF Carries, Quiet, skeletons
  <2>6. Awaited(s, r)'
    <3>1. On(c, s)' /\ \A d \in Senders : On(d, s)' => d = c
      BY <1>5, <2>1, <2>2, AloneOnSession DEF On
    <3>2. About(c, r)
      <4>1. before[c] \in 1..started[params[c].pid]
        BY <1>1, SendParams DEF SerialInv
      <4>2. r.uid = params[c].uid /\ r.pid = params[c].pid /\ r.start = before[c]
        BY <2>3
      <4>3. params[c].pid \in Pids
        BY <1>1, SendParams DEF SerialInv
      <4>4. started[params[c].pid] \in Nat
        BY <4>3, PosixAssumption DEF SerialInv, BaseInv, TypeOK
      <4> QED
        BY <4>1, <4>2, <4>4 DEF About
    <3> QED
      BY <1>4, <3>1, <3>2 DEF Awaited
  <2>7. ASSUME NEW t \in Sessions \ {s} PROVE Line(t)'
    <3>1. requests'[t] = requests[t] /\ answers'[t] = answers[t] /\ UNCHANGED <<request, peer>>
      BY <1>1, <1>9, <2>1 DEF WriteRequest, SerialInv, BaseInv, TypeOK, skeletons
    <3>2. \A d \in Senders : On(d, t)' <=> On(d, t)
      BY <1>5, <2>1, <2>2 DEF On
    <3>3. Quiet(t) => Quiet(t)'
      BY <3>1 DEF Quiet
    <3>4. \A m \in Request : Carries(t, m) /\ Awaited(t, m) => Carries(t, m)' /\ Awaited(t, m)'
      BY <1>4, <3>1, <3>2 DEF Carries, Awaited
    <3> QED
      BY <3>3, <3>4 DEF SerialInv, Line
  <2>8. \A t \in Sessions : Line(t)'
    BY <2>5, <2>6, <2>7 DEF Line
  <2>9. Answered' /\ AnswerIsAboutTheAsker'
    BY <1>5, <1>6, <2>2 DEF Answered, AnswerIsAboutTheAsker
  <2> QED
    BY <1>2, <1>3, <2>8, <2>9 DEF SerialInv
<1>10. CASE ReadAnswer(c)
  <2>1. PICK s \in Sessions : s = session[c] /\ s # Null
    BY <1>8, <1>10 DEF ReadAnswer, ResolveSession
  <2>2. On(c, s) /\ pc'[c] = "checking" /\ session' = session /\ requests' = requests
    BY <1>10, <2>1 DEF ReadAnswer, On, SerialInv, BaseInv, TypeOK
  <2>3. answers[s] # <<>> /\ answers \in [Sessions -> Seq(Request)]
    BY <1>10, <2>1 DEF ReadAnswer, SerialInv, BaseInv, TypeOK
  <2>4. PICK m \in Request : Carries(s, m) /\ Awaited(s, m)
    BY <2>3 DEF SerialInv, Line, Quiet
  <2>5. answers[s] = <<m>> /\ requests[s] = <<>> /\ request[s] = Null
    BY <2>3, <2>4 DEF Carries
  <2>6. answer'[c] = m /\ answers'[s] = <<>> /\ \A t \in Sessions \ {s} : answers'[t] = answers[t]
    BY <1>10, <2>1, <2>3, <2>5 DEF ReadAnswer, SerialInv, BaseInv, TypeOK
  <2>7. About(c, m)'
    BY <1>4, <2>2, <2>4 DEF Awaited
  <2>8. Answered' /\ AnswerIsAboutTheAsker'
    BY <1>5, <1>6, <2>2, <2>6, <2>7 DEF Answered, AnswerIsAboutTheAsker, About
  <2>9. Line(s)'
    BY <1>1, <2>2, <2>5, <2>6 DEF Line, Quiet, skeletons
  <2>10. ASSUME NEW t \in Sessions \ {s} PROVE Line(t)'
    <3>1. \A d \in Senders : On(d, t)' <=> On(d, t)
      BY <1>5, <2>1, <2>2 DEF On
    <3>2. Quiet(t) => Quiet(t)'
      BY <1>1, <2>2, <2>6 DEF Quiet, skeletons
    <3>3. \A k \in Request : Carries(t, k) => Carries(t, k)'
      BY <1>1, <2>2, <2>6 DEF Carries, skeletons
    <3>4. \A k \in Request : Awaited(t, k) => Awaited(t, k)'
      BY <1>1, <1>4, <3>1 DEF Awaited, skeletons
    <3> QED
      BY <3>2, <3>3, <3>4 DEF SerialInv, Line
  <2> QED
    BY <1>2, <1>3, <2>8, <2>9, <2>10 DEF SerialInv
<1>11. CASE ReadFails(c)
  <2>1. PICK s \in Sessions : s = session[c] /\ s # Null
    BY <1>8, <1>11 DEF ReadFails, ResolveSession
  <2>2. /\ pc[c] = "reading" /\ pc'[c] = "thrown" /\ peer[s] = "gone"
        /\ UNCHANGED <<sockets, answer>>
    BY <1>11, <2>1 DEF ReadFails, PeerGone, Throw, SerialInv, BaseInv, TypeOK
  <2>3. ASSUME NEW t \in Sessions PROVE Line(t)'
    <3>1. \A d \in Senders : On(d, t)' => On(d, t)
      BY <1>5, <2>2 DEF On
    <3>2. t # s => \A d \in Senders : On(d, t)' <=> On(d, t)
      BY <1>5, <2>1, <2>2 DEF On
    <3>3. Quiet(t) => Quiet(t)'
      BY <1>1, <2>2 DEF Quiet, skeletons, sockets
    <3>4. \A m \in Request : Carries(t, m) => Carries(t, m)'
      BY <1>1, <2>2 DEF Carries, skeletons, sockets
    <3>5. \A m \in Request : Awaited(t, m) => Awaited(t, m)'
      BY <1>1, <1>4, <2>2, <3>1, <3>2 DEF Awaited, skeletons
    <3> QED
      BY <3>3, <3>4, <3>5 DEF SerialInv, Line
  <2>4. Answered' /\ AnswerIsAboutTheAsker'
    BY <1>5, <1>6, <2>2 DEF Answered, AnswerIsAboutTheAsker
  <2> QED
    BY <1>2, <1>3, <2>3, <2>4 DEF SerialInv
<1> QED
  BY <1>7, <1>9, <1>10, <1>11 DEF SendStep

LEMMA SerialStep ==
    ASSUME Serialized, SerialInv, [Next]_vars
    PROVE  SerialInv'
<1>1. CASE UNCHANGED vars
  <2>1. BaseInv'
    BY <1>1, BaseStep DEF SerialInv
  <2>2. UNCHANGED <<processes, stub, skeletons, sockets, sends>>
    BY <1>1 DEF vars
  <2>3. OneAtATime' /\ Answered' /\ AnswerIsAboutTheAsker'
    BY <2>2, SendersKept DEF processes
  <2>4. \A s \in Sessions : Line(s)'
    BY <2>2 DEF SerialInv, Line, Quiet, Carries, Awaited, On, About, processes, skeletons, sockets, sends
  <2> QED
    BY <2>1, <2>3, <2>4 DEF SerialInv
<1>2. CASE Next
  BY <1>2, ProcessesSerial, ConnectionsSerial, SkeletonSerial, SendSerial, SendStepSerial DEF Next
<1> QED
  BY <1>1, <1>2

LEMMA SerialInvariant ==
    ASSUME Serialized
    PROVE  Spec => []SerialInv
<1>1. SerialInv /\ [Next]_vars => SerialInv'
  BY SerialStep
<1> QED
  BY <1>1, SerialInit, PTL DEF Spec

\* Where the helper sends one request per user at a time, the answer that
\* send() returns is about the process it was called for: the skeleton asked
\* about what ran under the pid, and the start time compared afterwards leaves
\* only the process of the beginning.
THEOREM AnswersAboutTheAsker ==
    ASSUME Serialized
    PROVE  Spec => []AnswerIsAboutTheAsker
<1>1. SerialInv => AnswerIsAboutTheAsker
  BY DEF SerialInv
<1> QED
  BY <1>1, SerialInvariant, PTL

\* Under the same premise no answer is left over on a session, whenever
\* daemons die and skeletons throw: at most one message is under way, and its
\* sender waits for it.
THEOREM NoAnswerLeftOver ==
    ASSUME Serialized
    PROVE  Spec => []NothingIsLeftOver
<1>1. SerialInv => NothingIsLeftOver
  <2> SUFFICES ASSUME SerialInv, NEW s \in Sessions
               PROVE  /\ UnderWay(s) <= 1
                      /\ UnderWay(s) = 1 /\ peer[s] # "gone" =>
                            \E c \in Senders : pc[c] = "reading" /\ session[c] = s
    BY DEF NothingIsLeftOver
  <2>1. CASE Quiet(s)
    BY <2>1 DEF Quiet, UnderWay
  <2>2. ASSUME NEW m \in Request, Carries(s, m), Awaited(s, m)
        PROVE  UnderWay(s) <= 1 /\ (peer[s] # "gone" => \E c \in Senders : On(c, s))
    <3>1. m # Null
      BY PosixAssumption DEF Request
    <3>2. Len(<<m>>) = 1 /\ Len(<<>>) = 0
      OBVIOUS
    <3>3. UnderWay(s) = 1
      <4>1. CASE requests[s] = <<m>> /\ request[s] = Null /\ answers[s] = <<>>
        BY <3>2, <4>1 DEF UnderWay
      <4>2. CASE requests[s] = <<>> /\ request[s] = m /\ answers[s] = <<>>
        BY <3>1, <3>2, <4>2 DEF UnderWay
      <4>3. CASE requests[s] = <<>> /\ request[s] = Null /\ answers[s] = <<m>>
        BY <3>2, <4>3 DEF UnderWay
      <4> QED
        BY <2>2, <4>1, <4>2, <4>3 DEF Carries
    <3> QED
      BY <2>2, <3>3 DEF Awaited
  <2> QED
    BY <2>1, <2>2 DEF SerialInv, Line, On
<1> QED
  BY <1>1, SerialInvariant, PTL
=============================================================================
