---------------------------- MODULE MCTrustStore ----------------------------
(* A small instance of TrustStore.  Integers have 2 bits where the code has *)
(* 32 and 3 bits where it has 64.                                          *)
EXTENDS TrustStore

Req(from, feature, when, answer) ==
    [from |-> from, feature |-> feature, when |-> when, answer |-> answer]

\* Two applications, two features, two moments, both answers.
MCRequests == {Req("a", 0, 1, "granted"), Req("b", 1, 2, "denied")}

MCIntervals == {<<2, 2>>}
=============================================================================
