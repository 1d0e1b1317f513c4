--------------------------- MODULE MCDurableLane ---------------------------
(* The instance for TLC: model values for operations and queued items.     *)
EXTENDS DurableLane
=============================================================================
