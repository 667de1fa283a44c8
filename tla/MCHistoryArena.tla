--------------------------- MODULE MCHistoryArena ----------------------------
(* Three blocks of five bytes, two-byte headers and at most one one-byte     *)
(* access: a block takes one or two records, a marker can fit where an       *)
(* instruction does not, and four records can wrap the ring.  A cycle two    *)
(* past the start of its block does not fit its delta.                       *)
EXTENDS HistoryArena
=============================================================================
