------------------------------- MODULE HeapArena -------------------------------
(***************************************************************************)
(* What the heap promises its callers (malloc.h: malloc, free), without    *)
(* the free list behind it: an arena that only grows, and blocks of it     *)
(* that belong to callers and never overlap.  A request gets a block of    *)
(* the size it asked for, or nothing.                                      *)
(***************************************************************************)
EXTENDS Naturals

CONSTANTS
  Sizes   (* the block sizes requests come to, in units *)

VARIABLES
  brk,      (* the units 0 .. brk - 1 belong to the heap                *)
  blocks,   (* the size of every block a caller owns, by its first unit *)
  wanted    (* the size of the request being served, 0 between requests *)

vars == <<brk, blocks, wanted>>

Overlap(a, n, b, m) == a < b + m /\ b < a + n

Init ==
  /\ brk = 0
  /\ blocks = [a \in {} |-> 0]
  /\ wanted = 0

(* A caller asks for a block of n units. *)
Ask(n) ==
  /\ wanted = 0 /\ wanted' = n
  /\ UNCHANGED <<brk, blocks>>

(* The arena grows to serve a request, and for nothing else. *)
Grow ==
  /\ wanted # 0 /\ brk' > brk
  /\ UNCHANGED <<blocks, wanted>>

(* A block of the size wanted is carved out of memory no caller owns. *)
Grant(a) ==
  /\ wanted # 0 /\ a + wanted <= brk
  /\ \A b \in DOMAIN blocks : ~Overlap(a, wanted, b, blocks[b])
  /\ blocks' = [b \in DOMAIN blocks \union {a} |-> IF b = a THEN wanted ELSE blocks[b]]
  /\ wanted' = 0
  /\ UNCHANGED brk

(* The request ends with nothing, and takes nothing from anybody. *)
Refuse ==
  /\ wanted # 0 /\ wanted' = 0
  /\ UNCHANGED <<brk, blocks>>

(* Only the block named goes, and only between requests. *)
Free(a) ==
  /\ wanted = 0
  /\ blocks' = [b \in DOMAIN blocks \ {a} |-> blocks[b]]
  /\ UNCHANGED <<brk, wanted>>

Next ==
  \/ \E n \in Sizes : Ask(n)
  \/ Grow
  \/ \E a \in 0 .. brk - 1 : Grant(a)
  \/ Refuse
  \/ \E a \in DOMAIN blocks : Free(a)

Spec == Init /\ [][Next]_vars

===============================================================================
