--------------------------- MODULE MCLocalAgents ---------------------------
(* The local agents with two applications, of which one's id begins with   *)
(* the other's, and up to two files in the user's directory.               *)
EXTENDS LocalAgents

MCLonger == {<<"pkg_app", "pkg_app2">>}

MCDatas ==
    [home : {Null, <<>>} \cup [1..1 -> File] \cup [1..2 -> File],
     dirs : {Null, {}, Ids}]
=============================================================================
