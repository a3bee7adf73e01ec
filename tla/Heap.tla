--------------------------------- MODULE Heap ---------------------------------
(***************************************************************************)
(* The kernel heap (src/memory/heap/malloc.c): a cyclic list of free       *)
(* blocks in address order, searched first-fit from where the last call    *)
(* left off, grown by one chunk at a time and merged on every free.        *)
(*                                                                         *)
(* Addresses and sizes are in units of sizeof(HEADER_T).  The heap starts  *)
(* at malloc_start_vaddress = 0, which is also NULL.  A header is kept     *)
(* while something may read it: `next' for the blocks on the list, `size'  *)
(* for those and for the blocks callers own.  Calls do not overlap; their  *)
(* loops are taken one iteration per step.                                 *)
(***************************************************************************)
EXTENDS Integers

CONSTANTS
  NALLOC,     (* units the heap grows by (1024)                               *)
  MaxChunks,  (* bound: how often the frame allocator can serve a growth      *)
  Requests    (* the values of nunits that calls of malloc come to; 1 is what
                 nbytes just below 2^32 gives, 2 the smallest regular request *)

ASSUME HeapAssumption ==
  /\ NALLOC \in Nat \ {0}
  /\ MaxChunks \in Nat
  /\ Requests \subseteq Nat \ {0}

NULL == 0

(* The header `base' lies in the kernel image, above every heap address. *)
base == NALLOC * MaxChunks + 1

Addresses == 0 .. NALLOC * MaxChunks - 1
Nodes == Addresses \union {base}

VARIABLES
  freep,              (* where a search starts; NULL before the first          *)
  next,               (* next_header of the blocks on the free list            *)
  size,               (* size of those blocks and of the blocks callers own    *)
  total_malloc_chunks,(* total_malloc_pages, in chunks                         *)
  pc,                 (* what the call in progress does next                   *)
  nunits,             (* malloc: the request                                   *)
  p, prevp,           (* the list positions of malloc and of free              *)
  bp,                 (* free: the block to insert                             *)
  growing,            (* free was called by get_more_memory                    *)
  forgotten           (* history: a set up list was taken for a missing one    *)

list_vars == <<freep, next, size, total_malloc_chunks, forgotten>>
vars == <<list_vars, pc, nunits, p, prevp, bp, growing>>

(* Blocks callers own: neither on the list nor about to be put there *)
Owned ==
  (DOMAIN size \ DOMAIN next) \ (IF pc = "insert" THEN {bp} ELSE {})

(* The first malloc sets base up; nothing reads it before. *)
Init ==
  /\ freep = NULL
  /\ next = [a \in {base} |-> base]
  /\ size = [a \in {base} |-> 0]
  /\ total_malloc_chunks = 0
  /\ pc = "idle"
  /\ nunits = 0 /\ p = base /\ prevp = base /\ bp = NULL
  /\ growing = FALSE
  /\ forgotten = FALSE

(* The locals of malloc and free end with the call. *)
Return ==
  /\ pc' = "idle"
  /\ nunits' = 0 /\ p' = base /\ prevp' = base /\ bp' = NULL
  /\ growing' = FALSE

(***************************************************************************)
(* malloc                                                                  *)
(***************************************************************************)

(* The first search sets up an empty list.  So does every search that finds
   freep at the block whose address is 0.  *)
Malloc(n) ==
  /\ pc = "idle"
  /\ nunits' = n
  /\ IF freep = NULL
       THEN /\ next' = [a \in {base} |-> base]
            /\ size' = [a \in Owned \union {base} |-> IF a = base THEN 0 ELSE size[a]]
            /\ freep' = base
            /\ forgotten' = (forgotten \/ NULL \in DOMAIN next)
       ELSE UNCHANGED <<next, size, freep, forgotten>>
  /\ prevp' = freep'
  /\ p' = next'[freep']
  /\ pc' = "search"
  /\ UNCHANGED <<total_malloc_chunks, bp, growing>>

(* mutant of TakeWhole: freep is left at the block taken *)
TakeWholeFreep ==
  /\ pc = "search" /\ size[p] = nunits
  /\ next' = [a \in DOMAIN next \ {p} |-> IF a = prevp THEN next[p] ELSE next[a]]
  /\ freep' = p
  /\ Return
  /\ UNCHANGED <<size, total_malloc_chunks, forgotten>>

(* mutant of TakeWhole: a larger block is handed out whole *)
TakeWholeLarger ==
  /\ pc = "search" /\ size[p] >= nunits
  /\ next' = [a \in DOMAIN next \ {p} |-> IF a = prevp THEN next[p] ELSE next[a]]
  /\ freep' = prevp
  /\ Return
  /\ UNCHANGED <<size, total_malloc_chunks, forgotten>>

(* A block of exactly the size asked for leaves the list. *)
TakeWhole ==
  /\ pc = "search" /\ size[p] = nunits
  /\ next' = [a \in DOMAIN next \ {p} |-> IF a = prevp THEN next[p] ELSE next[a]]
  /\ freep' = prevp
  /\ Return
  /\ UNCHANGED <<size, total_malloc_chunks, forgotten>>

(* mutant of TakeTail: the block keeps its old size *)
TakeTailUncut ==
  /\ pc = "search" /\ size[p] > nunits
  /\ LET rest == size[p] - nunits IN
       size' = [a \in DOMAIN size \union {p + rest} |->
                  IF a = p + rest THEN nunits ELSE size[a]]
  /\ freep' = prevp
  /\ Return
  /\ UNCHANGED <<next, total_malloc_chunks, forgotten>>

(* The tail of a larger block is cut off; the block stays where it is. *)
TakeTail ==
  /\ pc = "search" /\ size[p] > nunits
  /\ LET rest == size[p] - nunits IN
       size' = [a \in DOMAIN size \union {p + rest} |->
                  IF a = p THEN rest ELSE IF a = p + rest THEN nunits ELSE size[a]]
  /\ freep' = prevp
  /\ Return
  /\ UNCHANGED <<next, total_malloc_chunks, forgotten>>

Advance ==
  /\ pc = "search" /\ size[p] < nunits /\ p # freep
  /\ prevp' = p
  /\ p' = next[p]
  /\ UNCHANGED <<list_vars, pc, nunits, bp, growing>>

(***************************************************************************)
(* get_more_memory, when the search has come round                         *)
(***************************************************************************)

(* mutant of Grow: the end of the round is tested before the size *)
GrowEarly ==
  /\ pc = "search" /\ p = freep
  /\ total_malloc_chunks < MaxChunks
  /\ bp' = NALLOC * total_malloc_chunks
  /\ size' = [a \in DOMAIN size \union {bp'} |-> IF a = bp' THEN NALLOC ELSE size[a]]
  /\ total_malloc_chunks' = total_malloc_chunks + 1
  /\ p' = freep
  /\ growing' = TRUE
  /\ pc' = "insert"
  /\ UNCHANGED <<freep, next, forgotten, nunits, prevp>>

Grow ==
  /\ pc = "search" /\ size[p] < nunits /\ p = freep
  /\ total_malloc_chunks < MaxChunks
  /\ bp' = NALLOC * total_malloc_chunks
  /\ size' = [a \in DOMAIN size \union {bp'} |-> IF a = bp' THEN NALLOC ELSE size[a]]
  /\ total_malloc_chunks' = total_malloc_chunks + 1
  /\ p' = freep
  /\ growing' = TRUE
  /\ pc' = "insert"
  /\ UNCHANGED <<freep, next, forgotten, nunits, prevp>>

(* No frames are left.  The null result of pf_allocate_frames is used as an
   array all the same: what follows is not modelled.  *)
GrowUnchecked ==
  /\ pc = "search" /\ size[p] < nunits /\ p = freep
  /\ total_malloc_chunks = MaxChunks
  /\ pc' = "corrupt"
  /\ UNCHANGED <<list_vars, nunits, p, prevp, bp, growing>>

(***************************************************************************)
(* free, of a block the caller owns or of a new chunk                      *)
(***************************************************************************)

Free(a) ==
  /\ pc = "idle"
  /\ bp' = a
  /\ p' = freep
  /\ growing' = FALSE
  /\ pc' = "insert"
  /\ UNCHANGED <<list_vars, nunits, prevp>>

(* mutants of InsertHere: the block after p is not compared, no end test *)
InsertAbove == bp > p \/ p >= next[p]
InsertBetween == bp > p /\ bp < next[p]

(* bp belongs between p and the block after it, or at an end of the list *)
InsertHere ==
  \/ bp > p /\ bp < next[p]
  \/ p >= next[p] /\ (bp > p \/ bp < next[p])

InsertAdvance ==
  /\ pc = "insert" /\ ~InsertHere
  /\ p' = next[p]
  /\ UNCHANGED <<list_vars, pc, nunits, prevp, bp, growing>>

(* mutant of MergesLeft *)
MergesNever == FALSE

MergesRight == bp + size[bp] = next[p]

MergesLeft == p + size[p] = bp

(* mutant of MergedSize: the size of the block merged is not added *)
UnmergedSize == size[bp]

(* What bp becomes when the block after it is merged into it *)
MergedSize == IF MergesRight THEN size[bp] + size[next[p]] ELSE size[bp]

MergedNext == IF MergesRight THEN next[next[p]] ELSE next[p]

Swallowed == IF MergesRight THEN {next[p]} ELSE {}

(* Back in malloc, a null freep counts as a failure of get_more_memory. *)
InsertLink ==
  /\ pc = "insert" /\ InsertHere
  /\ IF MergesLeft
       THEN /\ next' = [a \in DOMAIN next \ Swallowed |->
                          IF a = p THEN MergedNext ELSE next[a]]
            /\ size' = [a \in (DOMAIN size \ Swallowed) \ {bp} |->
                          IF a = p THEN size[p] + MergedSize ELSE size[a]]
       ELSE /\ next' = [a \in (DOMAIN next \ Swallowed) \union {bp} |->
                          IF a = p THEN bp ELSE IF a = bp THEN MergedNext ELSE next[a]]
            /\ size' = [a \in DOMAIN size \ Swallowed |->
                          IF a = bp THEN MergedSize ELSE size[a]]
  /\ freep' = p
  /\ IF growing /\ freep' # NULL
       THEN /\ pc' = "search" /\ prevp' = p /\ p' = next'[p]
            /\ bp' = NULL /\ growing' = FALSE /\ UNCHANGED nunits
       ELSE Return
  /\ UNCHANGED <<total_malloc_chunks, forgotten>>

Step ==
  \/ TakeWhole \/ TakeTail \/ Advance \/ Grow \/ GrowUnchecked
  \/ InsertAdvance \/ InsertLink

Next ==
  \/ \E n \in Requests : Malloc(n)
  \/ Step
  \/ \E a \in Owned : Free(a)

Spec == Init /\ [][Next]_vars

(* A call, once made, runs. *)
FairSpec == Spec /\ WF_vars(Step)

(***************************************************************************)
(* Properties.                                                             *)
(***************************************************************************)

(* The shape of the heap: every pointer leads to a header that is kept. *)
TypeOK ==
  /\ DOMAIN next \subseteq Nodes /\ base \in DOMAIN next
  /\ next \in [DOMAIN next -> DOMAIN next]
  /\ DOMAIN next \subseteq DOMAIN size /\ DOMAIN size \subseteq Nodes
  /\ size \in [DOMAIN size -> Nat]
  /\ freep \in DOMAIN next \union {NULL}
  /\ total_malloc_chunks \in 0 .. MaxChunks
  /\ pc \in {"idle", "search", "insert", "corrupt"}
  /\ nunits \in Requests \union {0}
  /\ p \in Nodes /\ prevp \in Nodes /\ bp \in Addresses \union {NULL}
  /\ pc = "search" =>
       /\ nunits # 0 /\ prevp \in DOMAIN next /\ p = next[prevp] /\ freep # NULL
  /\ pc \in {"search", "insert"} => p \in DOMAIN next
  /\ pc = "insert" => bp \in DOMAIN size \ DOMAIN next
  /\ growing => pc = "insert" /\ nunits # 0
  /\ forgotten \in BOOLEAN

(* The free list is cyclic and in address order, the header in the kernel image
   last, whatever was cut off, taken, merged or inserted: from a block the next is
   the nearest above it, and from base it is the lowest.  The end test of free
   (malloc.c:95) relies on it.  *)
Sorted ==
  \A a, b \in DOMAIN next :
    /\ a # base => next[a] > a /\ ~(a < b /\ b < next[a])
    /\ a = base => next[a] <= b

(* The blocks of the list, those callers own and the one being inserted lie in the
   heap and do not overlap.  *)
Disjoint ==
  /\ \A a \in DOMAIN size \ {base} :
       size[a] > 0 /\ a + size[a] <= NALLOC * total_malloc_chunks
  /\ \A a, b \in DOMAIN size \ {base} : a < b => a + size[a] <= b

(* No free block ends where another begins: each free merges with both its
   neighbours, so no request fails to find room only because it is in two
   pieces.  *)
Coalesced == \A a \in DOMAIN next \ {base} : a + size[a] \notin DOMAIN next

(* Until the block at address 0 is taken for a missing list, every unit of the
   heap belongs to a block that is on the list, owned, or being inserted.  *)
NothingLost == ~forgotten =>
  \A u \in 0 .. NALLOC * total_malloc_chunks - 1 :
    \E a \in DOMAIN size : a <= u /\ u < a + size[a]

(* The heap grows only when no block of the list is large enough, wherever the
   search began.  *)
GrowsOnlyWhenShort ==
  [][total_malloc_chunks' # total_malloc_chunks =>
       \A a \in DOMAIN next : size[a] < nunits]_vars

(* Every call returns, or meets the end of memory: neither the search nor the scan
   of free goes round for ever.  *)
CallReturns == pc # "idle" ~> pc \in {"idle", "corrupt"}

(* The list and its headers implement HeapArena: every block handed out is memory
   no caller owns, of the size its call asked for, a block stays as it was handed
   out until its owner frees it, and a call that fails takes nothing.  *)
Arena == INSTANCE HeapArena WITH
  Sizes <- Requests,
  brk <- NALLOC * total_malloc_chunks,
  blocks <- [a \in Owned |-> size[a]],
  wanted <- nunits

RefinesArena == Arena!Spec

(* malloc.c:18: freep is the "start of freelist", so nothing free is off it. *)
FreeListComplete ==
  \A u \in 0 .. NALLOC * total_malloc_chunks - 1 :
    \E a \in DOMAIN size : a <= u /\ u < a + size[a]

===============================================================================
