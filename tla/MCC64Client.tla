----------------------------- MODULE MCC64Client -----------------------------
(***************************************************************************)
(* Instances of C64Client for TLC.                                         *)
(***************************************************************************)
EXTENDS C64Client

==============================================================================
