--------------------------- MODULE MCWhisperServer ---------------------------
(* A server that receives a few requests, which are alike.                    *)
EXTENDS WhisperServer, TLC

Alike == Permutations(Requests)
=============================================================================
