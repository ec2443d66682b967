--------------------------- MODULE MCPcmRingBuffer ---------------------------
(* PcmRingBuffer on a short stream: payloads of one or two frames, a pre-roll *)
(* that overflows, an utterance that reaches its cap, and enough ticks for    *)
(* silence to end one utterance and for a stamped payload to grow old.        *)
EXTENDS PcmRingBuffer
=============================================================================
