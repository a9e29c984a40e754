------------------------- MODULE MCDBusRemoteAgent -------------------------
(* A small instance of DBusRemoteAgent: two users, a daemon each.  The     *)
(* first starts at any time after the helper was first started, so that it *)
(* sees one helper end and another come; the second starts after the       *)
(* second helper.                                                          *)
EXTENDS DBusRemoteAgent, TLC

CONSTANTS u1, u2, d1, d2

MCUserOf == (d1 :> u1) @@ (d2 :> u2)

MCSince == (d1 :> 1) @@ (d2 :> 2)
=============================================================================
