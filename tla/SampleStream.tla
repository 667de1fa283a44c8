----------------------------- MODULE SampleStream ----------------------------
(***************************************************************************)
(* What the audio ring promises: a bounded stream of samples.  A write     *)
(* appends a run of samples, a read delivers and removes the oldest ones,  *)
(* and a reset drops everything.                                           *)
(***************************************************************************)
EXTENDS Naturals, Sequences

CONSTANTS Samples, Capacity

VARIABLES stream,      \* samples written and not yet read, oldest first
          offered,     \* samples the current write was given
          delivered    \* samples the last completed read returned

svars == <<stream, offered, delivered>>

Init == stream = <<>> /\ offered = <<>> /\ delivered = <<>>

BeginWrite ==
  /\ offered' \in Seq(Samples)
  /\ UNCHANGED <<stream, delivered>>

\* What does not fit is dropped; what is appended is what was offered.
Write ==
  /\ \E n \in 0 .. Len(offered) :
       /\ Len(stream) + n <= Capacity
       /\ stream' = stream \o SubSeq(offered, 1, n)
  /\ UNCHANGED <<offered, delivered>>

BeginRead ==
  /\ delivered' = <<>>
  /\ UNCHANGED <<stream, offered>>

Read ==
  /\ stream = delivered' \o stream'
  /\ UNCHANGED offered

Reset ==
  /\ stream' = <<>>
  /\ UNCHANGED <<offered, delivered>>

Next == BeginWrite \/ Write \/ BeginRead \/ Read \/ Reset

Spec == Init /\ [][Next]_svars
=============================================================================
