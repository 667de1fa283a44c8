---------------------------- MODULE MCAudioBuffer ----------------------------
(* Four slots, positions that wrap after eight, calls of up to three samples: *)
(* two writes overfill the ring, so that a write is cut short or refused.     *)
EXTENDS AudioBuffer
=============================================================================
