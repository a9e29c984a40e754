--------------------------- MODULE MCRemoteStore ---------------------------
(* A small instance of RemoteStore; clients are interchangeable.           *)
EXTENDS RemoteStore, TLC

MCSymmetry == Permutations(Clients)
=============================================================================
