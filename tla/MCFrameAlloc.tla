----------------------------- MODULE MCFrameAlloc -----------------------------
(* Small instances of FrameAlloc for TLC; the constants are in the cfg files. *)
EXTENDS FrameAlloc
===============================================================================
