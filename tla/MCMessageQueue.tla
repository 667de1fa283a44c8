--------------------------- MODULE MCMessageQueue ----------------------------
(* Two consumers and a ring of three slots: wrap-around, a full queue, and  *)
(* a signal whose item another consumer takes first.                        *)
EXTENDS MessageQueue
=============================================================================
