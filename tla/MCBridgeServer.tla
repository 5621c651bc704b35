--------------------------- MODULE MCBridgeServer ---------------------------
(* Small instances of BridgeServer for TLC. *)
EXTENDS BridgeServer

Interchangeable == Permutations(Jobs) \cup Permutations(Tokens)
=============================================================================
