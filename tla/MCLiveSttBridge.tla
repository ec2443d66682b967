--------------------------- MODULE MCLiveSttBridge ---------------------------
(* One session of LiveSttBridge on a stream of a few frames.                  *)
EXTENDS LiveSttBridge
=============================================================================
