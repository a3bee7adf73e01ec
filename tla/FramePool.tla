------------------------------ MODULE FramePool -------------------------------
(***************************************************************************)
(* What the physical page frame allocator promises its callers             *)
(* (page_frame_alloc.h: pf_allocate_frames, free_page_frame), with neither *)
(* the stack nor the bitmap behind it: a frame is free or held by a        *)
(* caller, a request moves frames that were free to the caller, and a      *)
(* request that returns 0 may lose the frames it had already taken.        *)
(***************************************************************************)
EXTENDS Naturals, FiniteSets

CONSTANTS
  Frames,     (* the page frame numbers of the machine *)
  MaxRequest  (* the largest request a caller makes    *)

VARIABLES
  free,       (* frames a later request may be given          *)
  held        (* frames callers own: granted and not released *)

vars == <<free, held>>

Init ==
  /\ free = Frames
  /\ held = {}

(* A successful request: every frame granted was free, hence held by nobody. *)
Grant(S) ==
  /\ free' = free \ S
  /\ held' = held \union S

(* A failed request: no frame reaches the caller, some may reach nobody again. *)
Lose(S) ==
  /\ free' = free \ S
  /\ UNCHANGED held

Release(f) ==
  /\ held' = held \ {f}
  /\ free' = free \union {f}

Next ==
  \/ \E S \in SUBSET free : Cardinality(S) <= MaxRequest /\ (Grant(S) \/ Lose(S))
  \/ \E f \in held : Release(f)

Spec == Init /\ [][Next]_vars

===============================================================================
