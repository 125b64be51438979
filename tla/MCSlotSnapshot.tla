--------------------------- MODULE MCSlotSnapshot ---------------------------
(* SlotSnapshot for TLC; the constants are in the cfg files.                *)
EXTENDS SlotSnapshot
=============================================================================
