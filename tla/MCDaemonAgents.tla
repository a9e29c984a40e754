--------------------------- MODULE MCDaemonAgents ---------------------------
(* Small instances of DaemonAgents.                                        *)
EXTENDS DaemonAgents, TLC

MCEmptyId == <<>>

MCUnconfined == <<"unconfined">>

MCCamera == <<"com.ubuntu.camera", "camera">>

Ask(uid, label, feature) == [uid |-> uid, label |-> label, feature |-> feature]

\* Two versions of an application, and the camera.
MCAsks ==
    {Ask(1, <<"p", "a", "1">>, 0), Ask(1, <<"p", "a", "2">>, 0),
     Ask(1, <<"com.ubuntu.camera", "camera", "1">>, 0)}

Key(feature) == [from |-> <<"p", "a">>, feature |-> feature]

\* The preseed tool with two requests that contradict each other; it can fail
\* after the first.
MCPreseeds ==
    LET Request(a) == [key |-> Key(0), answer |-> a]
    IN  {<<Request("granted"), Request("denied")>>}

\* What is asked for, another feature, and another application of the package,
\* about which only clients decide.
MCKeys ==
    {KeyFor(ask) : ask \in {a \in MCAsks : ~WhiteListed(Format(a.label))}}
      \cup {Key(0), Key(1), [from |-> <<"p", "b">>, feature |-> 0]}

\* A request under another uid.
MCOtherUserAsks == {Ask(1, <<"p", "a", "1">>, 0), Ask(2, <<"p", "a", "1">>, 0)}

MCSymmetry == Permutations(Callers)
=============================================================================
