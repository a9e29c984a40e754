-------------------------- MODULE DBusRemoteAgent --------------------------
(***************************************************************************)
(* The remote agent over the bus.  A trusted helper owns a bus name and    *)
(* exposes a registry of agents, one per user (remote/dbus.cpp, Stub;      *)
(* dbus/agent_registry.h, Skeleton).  The trust-store daemon of each user  *)
(* exports an agent under a path of its own and announces it to the        *)
(* registry when it starts and whenever the helper's name appears on the   *)
(* bus (remote/dbus.cpp, Skeleton; dbus/agent_registry.h, Stub); it may    *)
(* also withdraw it.  A thread of the helper asks the agent registered for *)
(* a request's user (Stub::send, dbus/agent.cpp).                          *)
(*                                                                         *)
(* The bus is external.  What the code relies on: messages from one sender *)
(* to one receiver stay in order; a call to a name, object or method that  *)
(* is not there, or whose receiver goes, is answered with an error; unique *)
(* names, and so a daemon's agents, are never taken over by another; an    *)
(* asynchronous call without a reply fails after a while, and a reply that *)
(* comes later is dropped.  An exported object lives as long as somebody   *)
(* holds its skeleton: the callback of the announcement, then the daemon's *)
(* own registry.                                                           *)
(***************************************************************************)
EXTENDS Naturals, Sequences

CONSTANTS
    Null,
    Uids,
    Daemons,   \* daemon processes, over time
    UserOf,    \* the user each of them runs under
    Leavers,   \* the daemons that use unregister_agent_for_user
    Callers,   \* threads of the helper
    MaxPaths,  \* bound: the announcements of a daemon
    MaxRuns,   \* bound: the number of times the helper is started
    Since      \* bound: the starts of the helper that a daemon waits for

VARIABLES
    helper,    \* the helper: gone, owning its name, or with its handlers installed
    runs,      \* how often it was started
    registry,  \* LockingAgentRegistry of the helper: the agents' addresses
    inbox,     \* the daemons' calls on their way to the helper: the path to register,
               \* Null to unregister
    phase,     \* of the daemons: new, created (with a watcher of the helper's name),
               \* announced (in the constructor), watching (connected to it), gone
    counter,   \* of counting_object_path_generator
    pending,   \* paths whose announcement waits for a reply
    current,   \* the path in the daemon's own registry
    leaving,   \* the daemon's call of unregister_agent_for_user
    notices,   \* messages on their way to the daemons: replies, name changes
    pc,        \* where the callers are in Stub::send
    uid,       \* the user whose application the caller asks for
    agent,     \* the address of the agent the caller asks
    \* Not in the code, for the properties:
    by,        \* the daemon that answered
    late,      \* daemons whose view of their registration can be wrong: a call got
               \* no reply in time, or they announced themselves while unregistering
    missed     \* daemons that this run of the helper need not know of

bus == <<inbox, notices>>
daemon == <<phase, counter, pending, current, leaving>>
ghost == <<late, missed>>
caller == <<pc, uid, agent, by>>
vars == <<helper, runs, registry, bus, daemon, caller, ghost>>

Paths == 0..MaxPaths - 1

Address == [daemon : Daemons, path : Paths]

ASSUME DBusAssumption ==
    /\ MaxPaths \in Nat /\ MaxRuns \in Nat
    /\ UserOf \in [Daemons -> Uids] /\ Leavers \subseteq Daemons
    /\ Since \in [Daemons -> 0..MaxRuns]
    /\ Null \notin Uids \cup Daemons \cup Nat \cup Address

Live(d) == phase[d] \in {"created", "announced", "watching"}

Exported(d) == IF Live(d) THEN (pending[d] \cup {current[d]}) \ {Null} ELSE {}

Init ==
    /\ helper = "gone"
    /\ runs = 0
    /\ registry = [u \in Uids |-> Null]
    /\ inbox = [d \in Daemons |-> <<>>]
    /\ phase = [d \in Daemons |-> "new"]
    /\ counter = [d \in Daemons |-> 0]
    /\ pending = [d \in Daemons |-> {}]
    /\ current = [d \in Daemons |-> Null]
    /\ leaving = [d \in Daemons |-> "no"]
    /\ notices = [d \in Daemons |-> <<>>]
    /\ pc = [c \in Callers |-> "idle"]
    /\ uid = [c \in Callers |-> Null]
    /\ agent = [c \in Callers |-> Null]
    /\ by = [c \in Callers |-> Null]
    /\ late = {}
    /\ missed = {}

-----------------------------------------------------------------------------
(* The trust-store daemons.                                                *)

Result(p, error) == [type |-> "result", path |-> p, error |-> error]

Registered == [type |-> "registered"]

\* A call of daemon d to the helper's registry; where there is no helper the bus
\* answers.  `left` are the daemon's notices without the one it is handling.
Call(d, p, left) ==
    IF helper = "gone"
    THEN /\ notices' = [notices EXCEPT ![d] = Append(left, Result(p, TRUE))]
         /\ UNCHANGED inbox
    ELSE /\ inbox' = [inbox EXCEPT ![d] = Append(@, p)]
         /\ notices' = [notices EXCEPT ![d] = left]

\* register_agent_for_user, or its _async form: a new path and skeleton, and the
\* call.
Announce(d, left) ==
    /\ counter[d] < MaxPaths
    /\ counter' = [counter EXCEPT ![d] = @ + 1]
    /\ pending' = [pending EXCEPT ![d] = @ \cup {counter[d]}]
    /\ Call(d, counter[d], left)
    /\ late' = IF leaving[d] = "no" THEN late ELSE late \cup {d}
    /\ missed' = missed \ {d}
    /\ UNCHANGED <<helper, runs, registry, leaving, caller>>

Create(d) ==
    /\ phase[d] = "new"
    /\ runs >= Since[d]
    /\ phase' = [phase EXCEPT ![d] = "created"]
    /\ UNCHANGED <<helper, runs, registry, bus, counter, pending, current, leaving, caller, ghost>>

Start(d) ==
    /\ phase[d] = "created"
    /\ Announce(d, notices[d])
    /\ phase' = [phase EXCEPT ![d] = "announced"]
    /\ UNCHANGED current

\* service_registered().connect: what the watcher is told before goes unnoticed.
Watch(d) ==
    /\ phase[d] = "announced"
    /\ phase' = [phase EXCEPT ![d] = "watching"]
    /\ UNCHANGED <<helper, runs, registry, bus, counter, pending, current, leaving, caller, ghost>>

GoesUnnoticed(d) ==
    /\ phase[d] \in {"created", "announced"}
    /\ notices[d] # <<>>
    /\ Head(notices[d]) = Registered
    /\ notices' = [notices EXCEPT ![d] = Tail(@)]
    /\ UNCHANGED <<helper, runs, registry, inbox, daemon, caller, ghost>>

\* Mutant: a helper that appears is only taken note of.
OnServiceRegisteredIdle(d) ==
    /\ phase[d] = "watching"
    /\ notices[d] # <<>>
    /\ Head(notices[d]) = Registered
    /\ notices' = [notices EXCEPT ![d] = Tail(@)]
    /\ UNCHANGED <<helper, runs, registry, inbox, daemon, caller, ghost>>

OnServiceRegistered(d) ==
    /\ phase[d] = "watching"
    /\ notices[d] # <<>>
    /\ Head(notices[d]) = Registered
    /\ Announce(d, Tail(notices[d]))
    /\ UNCHANGED <<phase, current>>

\* Mutant: the skeleton is not held by the daemon's own registry.
OnResultNotKept(d) ==
    /\ Live(d)
    /\ notices[d] # <<>>
    /\ Head(notices[d]).type = "result"
    /\ pending' = [pending EXCEPT ![d] = @ \ {Head(notices[d]).path}]
    /\ notices' = [notices EXCEPT ![d] = Tail(@)]
    /\ UNCHANGED <<helper, runs, registry, inbox, phase, counter, current, leaving, caller, ghost>>

\* The reply to a call; after a timeout nobody waits for it.  With an error the
\* skeleton of an announcement goes, otherwise it replaces the one in the
\* registry.  A reply without a path wakes unregister_agent_for_user.
OnResult(d) ==
    /\ Live(d)
    /\ notices[d] # <<>>
    /\ Head(notices[d]).type = "result"
    /\ LET n == Head(notices[d]) IN
          /\ pending' = [pending EXCEPT ![d] = @ \ {n.path}]
          /\ current' = IF n.path \in pending[d] /\ ~n.error
                        THEN [current EXCEPT ![d] = n.path] ELSE current
          /\ leaving' = IF n.path = Null /\ leaving[d] = "called"
                        THEN [leaving EXCEPT ![d] = IF n.error THEN "failed" ELSE "ok"]
                        ELSE leaving
    /\ notices' = [notices EXCEPT ![d] = Tail(@)]
    /\ UNCHANGED <<helper, runs, registry, inbox, phase, counter, caller, ghost>>

AnnouncementTimesOut(d, p) ==
    /\ Live(d)
    /\ p \in pending[d]
    /\ pending' = [pending EXCEPT ![d] = @ \ {p}]
    /\ late' = late \cup {d}
    /\ UNCHANGED <<helper, runs, registry, bus, phase, counter, current, leaving, caller, missed>>

\* unregister_agent_for_user, on a thread of the daemon; bound: once.  The local
\* agent goes whatever the reply, and without one.
Withdraw(d) ==
    /\ d \in Leavers
    /\ phase[d] = "watching"
    /\ leaving[d] = "no"
    /\ leaving' = [leaving EXCEPT ![d] = "called"]
    /\ Call(d, Null, notices[d])
    /\ UNCHANGED <<helper, runs, registry, phase, counter, pending, current, caller, ghost>>

WithdrawTimesOut(d) ==
    /\ Live(d)
    /\ leaving[d] = "called"
    /\ leaving' = [leaving EXCEPT ![d] = "failed"]
    /\ late' = late \cup {d}
    /\ UNCHANGED <<helper, runs, registry, bus, phase, counter, pending, current, caller, missed>>

Withdrawn(d) ==
    /\ Live(d)
    /\ leaving[d] \in {"ok", "failed"}
    /\ leaving' = [leaving EXCEPT ![d] = IF @ = "ok" THEN "left" ELSE "threw"]
    /\ current' = [current EXCEPT ![d] = Null]
    /\ UNCHANGED <<helper, runs, registry, bus, phase, counter, pending, caller, ghost>>

\* The daemon's process ends; a session that starts again is another daemon.
End(d) ==
    /\ Live(d)
    /\ phase' = [phase EXCEPT ![d] = "gone"]
    /\ counter' = [counter EXCEPT ![d] = 0]
    /\ pending' = [pending EXCEPT ![d] = {}]
    /\ current' = [current EXCEPT ![d] = Null]
    /\ leaving' = [leaving EXCEPT ![d] = "no"]
    /\ notices' = [notices EXCEPT ![d] = <<>>]
    /\ late' = late \ {d}
    /\ missed' = missed \ {d}
    /\ UNCHANGED <<helper, runs, registry, inbox, caller>>

-----------------------------------------------------------------------------
(* The registry of the trusted helper.                                     *)

\* Service::add_service: the watchers of the name are told.
OwnName ==
    /\ helper = "gone"
    /\ runs < MaxRuns
    /\ helper' = "named"
    /\ runs' = runs + 1
    /\ notices' = [d \in Daemons |->
          IF Live(d) THEN Append(notices[d], Registered) ELSE notices[d]]
    /\ missed' = {d \in Daemons : phase[d] = "announced"}
    /\ UNCHANGED <<registry, inbox, daemon, caller, late>>

InstallHandlers ==
    /\ helper = "named"
    /\ helper' = "ready"
    /\ UNCHANGED <<runs, registry, bus, daemon, caller, ghost>>

Answered(d, p, error) ==
    IF Live(d) THEN [notices EXCEPT ![d] = Append(@, Result(p, error))] ELSE notices

Running == {d \in Daemons : Live(d)}

DaemonsOf(u) == {d \in Daemons : UserOf[d] = u}

\* The object or its method is not there yet.
Refuse(d) ==
    /\ helper = "named"
    /\ inbox[d] # <<>>
    /\ inbox' = [inbox EXCEPT ![d] = Tail(@)]
    /\ notices' = Answered(d, Head(inbox[d]), TRUE)
    /\ missed' = missed \cup ({d} \cap Running)
    /\ UNCHANGED <<helper, runs, registry, daemon, caller, late>>

\* The helper takes up a call of daemon d.
Receive(d, toRegister) ==
    /\ helper = "ready"
    /\ inbox[d] # <<>>
    /\ toRegister <=> Head(inbox[d]) # Null
    /\ inbox' = [inbox EXCEPT ![d] = Tail(@)]
    /\ UNCHANGED <<helper, runs, daemon, caller, late>>

Agent(d) == [daemon |-> d, path |-> Head(inbox[d])]

\* Mutant: the user of an announcement is not looked at.
RegisterForEveryone(d) ==
    /\ Receive(d, TRUE)
    /\ registry' = [u \in Uids |-> Agent(d)]
    /\ notices' = Answered(d, Head(inbox[d]), FALSE)
    /\ UNCHANGED missed

\* The handler of RegisterAgentForUser: the sender and the path make up the
\* agent's address; daemons announce themselves for their own user.
Register(d) ==
    /\ Receive(d, TRUE)
    /\ registry' = [registry EXCEPT ![UserOf[d]] = Agent(d)]
    /\ notices' = Answered(d, Head(inbox[d]), FALSE)
    /\ UNCHANGED missed

\* Whoever is registered for the caller's user goes.
Erase(d) ==
    /\ registry' = [registry EXCEPT ![UserOf[d]] = Null]
    /\ missed' = missed \cup (DaemonsOf(UserOf[d]) \cap Running)

\* Mutant: the agent is not removed but replaced by that of no user.
RegisterReplyFailsKeepsKey(d) ==
    /\ Receive(d, TRUE)
    /\ registry' = [registry EXCEPT ![UserOf[d]] = [daemon |-> Null, path |-> 0]]
    /\ UNCHANGED <<notices, missed>>

\* The reply cannot be sent.
RegisterReplyFails(d) ==
    /\ Receive(d, TRUE)
    /\ Erase(d)
    /\ UNCHANGED notices

\* Mutant: the user is told, the agent stays.
UnregisterKeeps(d) ==
    /\ Receive(d, FALSE)
    /\ notices' = Answered(d, Null, FALSE)
    /\ UNCHANGED <<registry, missed>>

\* The handler of UnregisterAgentForUser; that the reply cannot be sent leaves
\* the caller to its time-out.
Unregister(d) ==
    /\ Receive(d, FALSE)
    /\ Erase(d)
    /\ \/ notices' = Answered(d, Null, FALSE)
       \/ UNCHANGED notices

HelperEnds ==
    /\ helper # "gone"
    /\ helper' = "gone"
    /\ registry' = [u \in Uids |-> Null]
    /\ inbox' = [d \in Daemons |-> <<>>]
    /\ notices' = [d \in Daemons |->
          IF Live(d)
          THEN notices[d] \o [i \in 1..Len(inbox[d]) |-> Result(inbox[d][i], TRUE)]
          ELSE notices[d]]
    /\ pc' = [c \in Callers |-> "idle"]
    /\ uid' = [c \in Callers |-> Null]
    /\ agent' = [c \in Callers |-> Null]
    /\ by' = [c \in Callers |-> Null]
    /\ missed' = {}
    /\ UNCHANGED <<runs, daemon, late>>

-----------------------------------------------------------------------------
(* Stub::send, on threads of the helper.                                   *)

Go(c, from, to) ==
    /\ pc[c] = from
    /\ pc' = [pc EXCEPT ![c] = to]

\* has_agent_for_user and agent_for_user lock the registry one after the other.
Send(c, u) ==
    /\ helper = "ready"
    /\ pc[c] \in {"idle", "done", "denied", "thrown"}
    /\ IF registry[u] = Null
       THEN pc' = [pc EXCEPT ![c] = "denied"] /\ uid' = [uid EXCEPT ![c] = Null]
       ELSE pc' = [pc EXCEPT ![c] = "known"] /\ uid' = [uid EXCEPT ![c] = u]
    /\ by' = [by EXCEPT ![c] = Null]
    /\ UNCHANGED <<helper, runs, registry, bus, daemon, agent, ghost>>

\* send() throws.
Throw(c, from) ==
    /\ Go(c, from, "thrown")
    /\ uid' = [uid EXCEPT ![c] = Null]
    /\ agent' = [agent EXCEPT ![c] = Null]
    /\ UNCHANGED <<helper, runs, registry, bus, daemon, by, ghost>>

\* std::map::at throws where the agent has gone meanwhile.
AgentForUser(c) ==
    \/ /\ pc[c] = "known" /\ registry[uid[c]] = Null
       /\ Throw(c, "known")
    \/ /\ Go(c, "known", "asking")
       /\ registry[uid[c]] # Null
       /\ agent' = [agent EXCEPT ![c] = registry[uid[c]]]
       /\ UNCHANGED <<helper, runs, registry, bus, daemon, uid, by, ghost>>

\* The agent answers; it throws, so that the handler replies with an error; it
\* is no longer there; or 120 seconds pass, in which case a later reply is
\* dropped.
Answer(c) ==
    /\ agent[c] # Null /\ agent[c].path \in Exported(agent[c].daemon)
    /\ Go(c, "asking", "done")
    /\ by' = [by EXCEPT ![c] = agent[c].daemon]
    /\ agent' = [agent EXCEPT ![c] = Null]
    /\ UNCHANGED <<helper, runs, registry, bus, daemon, uid, ghost>>

SendThrows(c) == Throw(c, "asking")

Next ==
    \/ \E d \in Daemons :
          \/ Create(d) \/ Start(d) \/ Watch(d) \/ GoesUnnoticed(d)
          \/ OnServiceRegistered(d) \/ OnResult(d) \/ End(d)
          \/ Withdraw(d) \/ WithdrawTimesOut(d) \/ Withdrawn(d)
          \/ \E p \in Paths : AnnouncementTimesOut(d, p)
          \/ Refuse(d) \/ Register(d) \/ RegisterReplyFails(d) \/ Unregister(d)
    \/ OwnName \/ InstallHandlers \/ HelperEnds
    \/ \E c \in Callers :
          \/ \E u \in Uids : Send(c, u)
          \/ AgentForUser(c) \/ Answer(c) \/ SendThrows(c)

Spec == Init /\ [][Next]_vars

\* The event loops of the daemons and of the helper handle what is in front of
\* them, constructors come to their end.  Processes need not start or end, and
\* no call has to time out.
Fairness ==
    /\ \A d \in Daemons :
          /\ WF_vars(Start(d)) /\ WF_vars(Watch(d)) /\ WF_vars(GoesUnnoticed(d))
          /\ WF_vars(OnServiceRegistered(d)) /\ WF_vars(OnResult(d))
          /\ WF_vars(Register(d) \/ RegisterReplyFails(d) \/ Unregister(d))
    /\ WF_vars(InstallHandlers)

FairSpec == Spec /\ Fairness

-----------------------------------------------------------------------------
(* Properties.                                                             *)

Notice == {Registered} \cup {Result(p, e) : p \in Paths \cup {Null}, e \in BOOLEAN}

TypeOK ==
    /\ helper \in {"gone", "named", "ready"}
    /\ runs \in 0..MaxRuns
    /\ registry \in [Uids -> Address \cup {Null}]
    /\ inbox \in [Daemons -> Seq(Paths \cup {Null})]
    /\ phase \in [Daemons -> {"new", "created", "announced", "watching", "gone"}]
    /\ counter \in [Daemons -> 0..MaxPaths]
    /\ pending \in [Daemons -> SUBSET Paths]
    /\ current \in [Daemons -> Paths \cup {Null}]
    /\ leaving \in [Daemons -> {"no", "called", "ok", "failed", "left", "threw"}]
    /\ notices \in [Daemons -> Seq(Notice)]
    /\ pc \in [Callers -> {"idle", "known", "asking", "done", "denied", "thrown"}]
    /\ uid \in [Callers -> Uids \cup {Null}]
    /\ agent \in [Callers -> Address \cup {Null}]
    /\ by \in [Callers -> Daemons \cup {Null}]
    /\ late \subseteq Daemons /\ missed \subseteq Daemons

\* An answer that send() returns comes from a daemon of the user it asked for,
\* although all daemons count their paths from zero.
AnswerIsFromTheUsersDaemon ==
    \A c \in Callers : by[c] # Null => UserOf[by[c]] = uid[c]

\* An agent in the helper's registry can be reached as long as its daemon runs
\* and got the replies to its announcements in time: a skeleton is given up
\* only when the registry no longer leads to it.
RegisteredAgentIsExported ==
    \A u \in Uids : registry[u] # Null =>
        LET d == registry[u].daemon
        IN  Live(d) /\ d \notin late => registry[u].path \in Exported(d)

\* A daemon that unregistered without an error and did not announce itself again
\* is no longer asked: calls and replies that were under way do not bring it
\* back.
WithdrawnAgentIsNotAsked ==
    \A d \in Daemons : leaving[d] \in {"ok", "left"} /\ d \notin late =>
        LET a == registry[UserOf[d]] IN a # Null => a.daemon # d

\* A user's only daemon, once it watches the helper's name, is in the end
\* registered with whatever helper stays, under a path it exports, in spite of
\* the helpers that came and went before.  It is not where its announcement met a
\* helper without handlers, the name appeared before the daemon was watching it,
\* or a reply was lost or late: the code does not try again.
DaemonIsReachedInTheEnd ==
    \A d \in Daemons :
        <>[](/\ phase[d] = "watching" /\ helper # "gone" /\ d \notin late \cup missed
             /\ \A e \in DaemonsOf(UserOf[d]) \ {d} : phase[e] = "new")
        => <>[](registry[UserOf[d]] \in [daemon : {d}, path : Exported(d)])
=============================================================================
