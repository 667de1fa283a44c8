----------------------------- MODULE MCA2mWorker -----------------------------
(* A queue of three and four commands: lands can pile up, and the queue can *)
(* be full when the worker is stopped.                                      *)
EXTENDS A2mWorker
=============================================================================
