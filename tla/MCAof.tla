-------------------------------- MODULE MCAof -------------------------------
(* Small instances of Aof for TLC. *)
EXTENDS Aof, TLC

\* The connections are interchangeable.
AnyClient == Permutations(Clients)
=============================================================================
