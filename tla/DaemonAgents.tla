---------------------------- MODULE DaemonAgents ----------------------------
(***************************************************************************)
(* The chain of agents that the trust-store daemon puts in front of its    *)
(* remote agent (daemon.cpp, Skeleton::Configuration::from_command_line):  *)
(* AppIdFormattingTrustAgent, WhiteListingAgent, CachedAgent.  The first   *)
(* two keep no state, so a call passes them in the step that starts it.    *)
(*                                                                         *)
(* An AppArmor label is the sequence of its parts between underscores:     *)
(* package, application and version of a confined application.  The empty  *)
(* label is the empty sequence.                                            *)
(***************************************************************************)
EXTENDS CachedAgent

CONSTANTS
    Asks,       \* the requests that reach the daemon, with uid, label, feature
    User,       \* the uid the daemon runs under
    Unconfined, \* the label "unconfined"
    Camera,     \* the application id "com.ubuntu.camera_camera"
    ListCamera  \* whether --disable-whitelisting is absent

VARIABLES
    asked,      \* what each caller asked last
    listed,     \* whether the white list granted it
    decided     \* for a property: a decision about that application was known

chain == <<asked, listed, decided>>

\* Mutant: the version is kept.
FormatKeepsVersion(label) == label

\* The regular expression (.*)_(.*)_(.*) is greedy: the last part goes.
Format(label) == IF Len(label) > 2 THEN SubSeq(label, 1, Len(label) - 1) ELSE label

KeyFor(ask) == [from |-> Format(ask.label), feature |-> ask.feature]

\* Mutant: the option lists every application.
WhiteListedAny(id) == id = Unconfined \/ ListCamera

WhiteListed(id) == id = Unconfined \/ (ListCamera /\ id = Camera)

ASSUME ChainAssumption ==
    /\ Asks \subseteq [uid : {ask.uid : ask \in Asks}, label : Seq(STRING), feature : Nat]
    /\ \A key \in Keys : key.from \in Seq(STRING)
    /\ \A ask \in Asks : WhiteListed(Format(ask.label)) \/ KeyFor(ask) \in Keys
    /\ Unconfined \in Seq(STRING) /\ Len(Unconfined) = 1
    /\ Camera \in Seq(STRING) /\ Len(Camera) = 2
    /\ ListCamera \in BOOLEAN

\* What a reader of the labels takes for one application: the same package
\* and the same application name, whatever the version.
SameApplication(l, m) == SubSeq(l, 1, 2) = SubSeq(m, 1, 2)

NewerOrOlder(l, m) == Len(l) > 1 /\ Len(m) > 1 /\ SameApplication(l, m)

ChainInit ==
    /\ Init
    /\ asked = [c \in Callers |-> Null]
    /\ listed = [c \in Callers |-> FALSE]
    /\ decided = [c \in Callers |-> FALSE]

\* WhiteListingAgent grants without going any further: the cached agent is not
\* called, and nothing is left of the caller's last call of it.
AskListed(c, ask) ==
    /\ pc[c] \notin Active
    /\ WhiteListed(Format(ask.label))
    /\ asked' = [asked EXCEPT ![c] = ask]
    /\ listed' = [listed EXCEPT ![c] = TRUE]
    /\ decided' = [decided EXCEPT ![c] = FALSE]
    /\ pc' = [pc EXCEPT ![c] = "idle"]
    /\ params' = [params EXCEPT ![c] = Null]
    /\ answer' = [answer EXCEPT ![c] = Null]
    /\ known' = [known EXCEPT ![c] = FALSE]
    /\ removed' = [removed EXCEPT ![c] = FALSE]
    /\ UNCHANGED <<store, clock, stamp, seeds, given, answered>>

AskCached(c, ask) ==
    /\ ~WhiteListed(Format(ask.label))
    /\ Call(c, KeyFor(ask))
    /\ asked' = [asked EXCEPT ![c] = ask]
    /\ listed' = [listed EXCEPT ![c] = FALSE]
    /\ decided' = [decided EXCEPT ![c] = \E id \in DOMAIN rows :
          NewerOrOlder(rows[id].from, ask.label) /\ AsUint64(rows[id].feature) = ask.feature]

ChainNext ==
    \/ \E c \in Callers, ask \in Asks : AskListed(c, ask) \/ AskCached(c, ask)
    \/ (\E c \in Callers : Progress(c)) /\ UNCHANGED chain
    \/ (\E key \in Keys, a \in Answer : Decide(key, a)) /\ UNCHANGED chain
    \/ (\E key \in Keys : RemoveApplication(key.from)) /\ UNCHANGED chain
    \/ Reset /\ UNCHANGED chain
    \/ (\E s \in Skews : SetClock(s)) /\ UNCHANGED chain
    \/ (\E requests \in Preseeds : Preseed(requests)) /\ UNCHANGED chain
    \/ (Seed \/ SeedThrows) /\ UNCHANGED chain

ChainSpec == ChainInit /\ [][ChainNext]_<<vars, chain>>

-----------------------------------------------------------------------------
(* Properties.                                                             *)

Granted(c) == listed[c] \/ (pc[c] = "returned" /\ answer[c] = "granted")

\* Access is granted to unconfined processes, to the camera application where
\* it is listed, and to what the user granted to the same application, in some
\* version of it, for the same feature: to nothing else.
GrantedOnlyByUserOrList ==
    \A c \in Callers : asked[c] # Null /\ Granted(c) =>
        \/ asked[c].label = Unconfined
        \/ ListCamera /\ SameApplication(asked[c].label, Camera)
        \/ \E g \in given :
              /\ g.answer = "granted"
              /\ g.key.feature = asked[c].feature
              /\ SameApplication(g.key.from, asked[c].label)

\* app_id_formatting_trust_agent.h: ids are "independent of application
\* versions": whoever decided about an application is not asked again after
\* the application was upgraded, unless the decision is removed meanwhile.
DecisionsOutliveUpgrades ==
    \A c \in Callers : decided[c] /\ ~removed[c] =>
        pc[c] \notin {"prompting", "answered", "inserting"}

\* privilege_escalation_prevention_agent.h: requests of applications running
\* under a different user than the daemon are rejected immediately.
OtherUsersAreRejected ==
    \A c \in Callers : asked[c] # Null /\ asked[c].uid # User => ~Granted(c)
=============================================================================
