---------------------------- MODULE MCBeamDecoder ----------------------------
(* A few decoders, a few steps of one window.                                 *)
EXTENDS BeamDecoder
=============================================================================
