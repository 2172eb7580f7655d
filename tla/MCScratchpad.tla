----------------------------- MODULE MCScratchpad -----------------------------
(* The scratchpad alone, with the callers and sessions of the cfg. *)
EXTENDS Scratchpad
==============================================================================
