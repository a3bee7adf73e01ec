----------------------------- MODULE MCInterrupts -----------------------------
(* Small instances of Interrupts for TLC; the constants are in the cfg files. *)
EXTENDS Interrupts
===============================================================================
