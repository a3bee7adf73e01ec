------------------------------ MODULE FrameAlloc ------------------------------
(***************************************************************************)
(* The physical page frame allocator (src/memory/physical/                 *)
(* page_frame_alloc.c): a stack of free frames, refilled from a bitmap     *)
(* that is searched as a ring.                                             *)
(*                                                                         *)
(* Units.  A physical address is its page frame number, address / 4 KB; an *)
(* address computation wraps at TOTAL_PAGE_FRAME_NUMS as the 32-bit one    *)
(* wraps at 2^32.  Bit j of bit_map[w] is the bit number w*WORD_BITS + j,  *)
(* and a word index is kept as the number of the word's first bit.         *)
(*                                                                         *)
(* The kernel is single threaded and no interrupt handler allocates, so    *)
(* one call runs at a time; its loops are taken one iteration per step.    *)
(***************************************************************************)
EXTENDS Integers, Sequences, FiniteSets

CONSTANTS
  PT_ENTRIES,            (* capacity of the stack, size of a refill (1024)   *)
  TOTAL_PAGE_FRAME_NUMS, (* frames of the 32-bit address space (1024 * 1024) *)
  WORD_BITS,             (* bits of one bitmap entry (32)                    *)
  KERNEL_END_FRAME       (* kernel_physical_end / 4 KB                       *)

(* start_offset: the first frame after the kernel *)
START == KERNEL_END_FRAME + 1

(* The first frames after the kernel fill the stack without wrapping. *)
ASSUME FrameAllocAssumption ==
  /\ PT_ENTRIES \in Nat \ {0}
  /\ TOTAL_PAGE_FRAME_NUMS \in Nat
  /\ WORD_BITS \in Nat \ {0}
  /\ KERNEL_END_FRAME \in Nat
  /\ START + PT_ENTRIES <= TOTAL_PAGE_FRAME_NUMS

(* A refill batch and the bitmap are whole numbers of words. *)
ASSUME WordAssumption ==
  /\ PT_ENTRIES % WORD_BITS = 0
  /\ TOTAL_PAGE_FRAME_NUMS % WORD_BITS = 0

Frames == 0 .. TOTAL_PAGE_FRAME_NUMS - 1
Bits == 0 .. TOTAL_PAGE_FRAME_NUMS - 1
MAX_REQUESTED_FRAMES == PT_ENTRIES
STACK_OP_FAIL == 0

VARIABLES
  bit_map,               (* the bits that are 1: frames not free in the bitmap *)
  last_allocated_index,  (* where the next refill starts                       *)
  stack,                 (* FREE_PAGE_FRAMES, its top last                     *)
  allocated_page_frames, (* the static array whose address is returned         *)
  pc,                    (* what the call in progress does next                *)
  num_page_frames, i,    (* its argument and loop index                        *)
  scan,                  (* the bit the refill examines                        *)
  pages_allocated,       (* the bits the refill has taken                      *)
  held,                  (* history: frames callers own                        *)
  wrapped                (* history: a bit whose address wraps was taken       *)

refill_vars == <<bit_map, last_allocated_index, scan, pages_allocated, wrapped>>
vars == <<refill_vars, stack, allocated_page_frames, pc, num_page_frames, i, held>>

(***************************************************************************)
(* Addresses, bits and the stack.                                          *)
(***************************************************************************)

(* mutant of FrameOf: start_offset without the + 1 *)
FrameOfInKernel(n) ==
  IF KERNEL_END_FRAME + n < TOTAL_PAGE_FRAME_NUMS
    THEN KERNEL_END_FRAME + n ELSE KERNEL_END_FRAME + n - TOTAL_PAGE_FRAME_NUMS

FrameOf(n) ==
  IF START + n < TOTAL_PAGE_FRAME_NUMS THEN START + n
                                       ELSE START + n - TOTAL_PAGE_FRAME_NUMS

BitOf(f) ==
  IF f >= START THEN f - START ELSE f - START + TOTAL_PAGE_FRAME_NUMS

WordOf(n) == n - (n % WORD_BITS)

stack_push(s, f) == IF Len(s) < PT_ENTRIES THEN Append(s, f) ELSE s
stack_top(s) == IF s = <<>> THEN STACK_OP_FAIL ELSE s[Len(s)]

(* mutant of stack_rest: the top index is not decremented *)
stack_peek(s) == s

stack_rest(s) == IF s = <<>> THEN s ELSE SubSeq(s, 1, Len(s) - 1)

Elements(s) == {s[k] : k \in 1 .. Len(s)}

(***************************************************************************)
(* page_frame_allocator_init                                               *)
(***************************************************************************)

Init ==
  /\ bit_map = 0 .. PT_ENTRIES - 1
  /\ last_allocated_index = PT_ENTRIES - WORD_BITS
  /\ stack = [k \in 1 .. PT_ENTRIES |-> FrameOf(k - 1)]
  /\ allocated_page_frames = [k \in 0 .. MAX_REQUESTED_FRAMES - 1 |-> 0]
  /\ pc = "idle"
  /\ num_page_frames = 0 /\ i = 0
  /\ scan = 0 /\ pages_allocated = 0
  /\ held = {}
  /\ wrapped = FALSE

(***************************************************************************)
(* pf_allocate_frames                                                      *)
(***************************************************************************)

Request(num) ==
  /\ pc = "idle"
  /\ pc' = "alloc"
  /\ num_page_frames' = num
  /\ i' = 0
  /\ UNCHANGED <<refill_vars, stack, allocated_page_frames, held>>

(* One iteration up to the refill.  An empty pop leaves the slot as it was. *)
Pop ==
  /\ pc = "alloc" /\ i < num_page_frames
  /\ LET res == stack_top(stack) IN
       allocated_page_frames' =
         IF res # STACK_OP_FAIL THEN [allocated_page_frames EXCEPT ![i] = res]
                                ELSE allocated_page_frames
  /\ stack' = stack_rest(stack)
  /\ IF stack' = <<>>
       THEN /\ pc' = "scan"
            /\ scan' = last_allocated_index
            /\ pages_allocated' = 0
            /\ UNCHANGED i
       ELSE /\ i' = i + 1
            /\ UNCHANGED <<pc, scan, pages_allocated>>
  /\ UNCHANGED <<bit_map, last_allocated_index, num_page_frames, held, wrapped>>

(* The request is served: the caller owns the frames in the array. *)
Return ==
  /\ pc = "alloc" /\ i = num_page_frames
  /\ pc' = "idle"
  /\ held' = held \union {allocated_page_frames[k] : k \in 0 .. num_page_frames - 1}
  /\ num_page_frames' = 0 /\ i' = 0
  /\ UNCHANGED <<refill_vars, stack, allocated_page_frames>>

(***************************************************************************)
(* bitmap_get_unallocated_pages, called by pf_allocate_frames              *)
(***************************************************************************)

(* mutants of NextBit: past the last entry, stopping at it, never stopping *)
NextBitPastEnd ==
  IF scan + 1 = last_allocated_index
    THEN pc' = "refilled" /\ scan' = 0
    ELSE scan' = scan + 1 /\ UNCHANGED pc

NextBitToEnd ==
  IF scan + 1 = TOTAL_PAGE_FRAME_NUMS
    THEN pc' = "refilled" /\ scan' = 0
    ELSE scan' = scan + 1 /\ UNCHANGED pc

NextBitForEver ==
  /\ scan' = IF scan + 1 = TOTAL_PAGE_FRAME_NUMS THEN 0 ELSE scan + 1
  /\ UNCHANGED pc

(* The next bit of the ring, or the end of the search once it comes round. *)
NextBit ==
  LET n == IF scan + 1 = TOTAL_PAGE_FRAME_NUMS THEN 0 ELSE scan + 1 IN
  IF n = last_allocated_index
    THEN pc' = "refilled" /\ scan' = 0
    ELSE scan' = n /\ UNCHANGED pc

TakeBit ==
  /\ pc = "scan" /\ scan \notin bit_map
  /\ bit_map' = bit_map \union {scan}
  /\ stack' = stack_push(stack, FrameOf(scan))
  /\ pages_allocated' = pages_allocated + 1
  /\ wrapped' = (wrapped \/ START + scan >= TOTAL_PAGE_FRAME_NUMS)
  /\ IF pages_allocated' = PT_ENTRIES
       THEN /\ pc' = "refilled" /\ scan' = 0
            /\ last_allocated_index' = WordOf(scan)
       ELSE NextBit /\ UNCHANGED last_allocated_index
  /\ UNCHANGED <<allocated_page_frames, num_page_frames, i, held>>

SkipBit ==
  /\ pc = "scan" /\ scan \in bit_map
  /\ NextBit
  /\ UNCHANGED <<bit_map, last_allocated_index, pages_allocated, wrapped, stack,
                 allocated_page_frames, num_page_frames, i, held>>

(* The test of pf_allocate_frames on what the refill found *)
RefillSuffices == pages_allocated >= PT_ENTRIES - i + 1

Refilled ==
  /\ pc = "refilled" /\ RefillSuffices
  /\ pc' = "alloc"
  /\ i' = i + 1
  /\ pages_allocated' = 0
  /\ UNCHANGED <<bit_map, last_allocated_index, scan, wrapped, stack,
                 allocated_page_frames, num_page_frames, held>>

(* return 0: the frames popped so far are neither returned nor pushed back *)
Fail ==
  /\ pc = "refilled" /\ ~RefillSuffices
  /\ pc' = "idle"
  /\ num_page_frames' = 0 /\ i' = 0 /\ pages_allocated' = 0
  /\ UNCHANGED <<bit_map, last_allocated_index, scan, wrapped, stack,
                 allocated_page_frames, held>>

(***************************************************************************)
(* free_page_frame, called for a frame the caller owns                     *)
(***************************************************************************)

(* mutants of free_page_frame: stack and bitmap both, never the bitmap *)
free_twice(f) ==
  /\ pc = "idle" /\ f \in held
  /\ stack' = stack_push(stack, f)
  /\ bit_map' = bit_map \ {BitOf(f)}
  /\ held' = held \ {f}
  /\ UNCHANGED <<last_allocated_index, scan, pages_allocated, wrapped,
                 allocated_page_frames, pc, num_page_frames, i>>

free_push_only(f) ==
  /\ pc = "idle" /\ f \in held
  /\ stack' = stack_push(stack, f)
  /\ held' = held \ {f}
  /\ UNCHANGED <<refill_vars, allocated_page_frames, pc, num_page_frames, i>>

free_page_frame(f) ==
  /\ pc = "idle" /\ f \in held
  /\ IF Len(stack) < PT_ENTRIES
       THEN stack' = stack_push(stack, f) /\ UNCHANGED bit_map
       ELSE bit_map' = bit_map \ {BitOf(f)} /\ UNCHANGED stack
  /\ held' = held \ {f}
  /\ UNCHANGED <<last_allocated_index, scan, pages_allocated, wrapped,
                 allocated_page_frames, pc, num_page_frames, i>>

(***************************************************************************)
(* The specification.  A call, once made, runs: the kernel has nothing     *)
(* that could preempt it for ever.                                         *)
(***************************************************************************)

Step == Pop \/ Return \/ TakeBit \/ SkipBit \/ Refilled \/ Fail

Next ==
  \/ \E num \in 0 .. MAX_REQUESTED_FRAMES : Request(num)
  \/ Step
  \/ \E f \in held : free_page_frame(f)

Spec == Init /\ [][Next]_vars

FairSpec == Spec /\ WF_vars(Step)

(***************************************************************************)
(* Properties.                                                             *)
(***************************************************************************)

(* The slots of the array the call in progress has filled, and their frames *)
Popped == 0 .. (IF pc \in {"scan", "refilled"} THEN i ELSE i - 1)
Transit == {allocated_page_frames[k] : k \in Popped}

(* The shape of the allocator's state: every pointer and counter stays within
   its array.  *)
TypeOK ==
  /\ bit_map \subseteq Bits
  /\ last_allocated_index \in Bits
  /\ stack \in Seq(Frames) /\ Len(stack) <= PT_ENTRIES
  /\ allocated_page_frames \in [0 .. MAX_REQUESTED_FRAMES - 1 -> Frames]
  /\ pc \in {"idle", "alloc", "scan", "refilled"}
  /\ num_page_frames \in 0 .. MAX_REQUESTED_FRAMES
  /\ i \in 0 .. num_page_frames
  /\ pc = "idle" => num_page_frames = 0
  /\ pc \in {"scan", "refilled"} => i < num_page_frames
  /\ scan \in Bits
  /\ pages_allocated \in 0 .. PT_ENTRIES
  /\ held \subseteq Frames
  /\ wrapped \in BOOLEAN

(* Until the bitmap is used up to the 4 GB wrap, a frame is in one place only:
   once on the stack, in one slot of the request being served, with a caller, or
   free in the bitmap.  No frame has two owners, however requests, refills and
   frees (onto the stack or, when it is full, into the bitmap) follow each
   other.  *)
EachFrameOnce == ~wrapped =>
  /\ \A j, k \in 1 .. Len(stack) : stack[j] = stack[k] => j = k
  /\ \A j, k \in Popped : allocated_page_frames[j] = allocated_page_frames[k] => j = k
  /\ Elements(stack) \intersect (held \union Transit) = {}
  /\ held \intersect Transit = {}
  /\ \A f \in Elements(stack) \union held \union Transit : BitOf(f) \in bit_map

(* Until the wrap, no frame at or below the end of the kernel image is on the
   stack, on its way to a caller or with one.  *)
KernelFramesSafe == ~wrapped =>
  \A f \in Elements(stack) \union held \union Transit : f >= START

(* Between refills the stack is empty only when the bitmap has no free frame
   left: the refill comes as soon as the last frame is popped, its search of the
   ring misses no free bit wherever it starts, and a free goes to the bitmap
   only while the stack is full.  This is why the pop of pf_allocate_frames never
   fails while frames remain.  *)
EmptyMeansExhausted ==
  pc \in {"idle", "alloc"} /\ stack = <<>> => bit_map = Bits

(* Frames marked allocated that nobody has and nobody can get any more *)
Lost ==
  {FrameOf(n) : n \in bit_map} \ (Elements(stack) \union held \union Transit)

(* A frame is lost only by a request that returns 0: no push onto a full stack,
   no pop and no free ever loses one.  *)
NoSilentLoss ==
  [][~wrapped' /\ Lost' # Lost => pc = "refilled" /\ pc' = "idle"]_vars

(* Every call of pf_allocate_frames returns: the search of the ring ends. *)
CallReturns == pc = "alloc" ~> pc = "idle"

(* Until the wrap the allocator implements FramePool: frames in the bitmap, on
   the stack and in the request being served are free, and a step grants, loses
   or releases them, or leaves them alone.  *)
PoolFree ==
  {FrameOf(n) : n \in Bits \ bit_map} \union Elements(stack) \union Transit

Pool == INSTANCE FramePool WITH
  free <- PoolFree, MaxRequest <- MAX_REQUESTED_FRAMES

RefinesFramePool ==
  /\ Pool!Init
  /\ [][~wrapped' => Pool!Next]_<<PoolFree, held>>

(* page_frame_alloc.c:173: a request returns 0 because "it wasn't able to
   allocate desired number of frames".  *)
FailsOnlyWhenShort ==
  [][pc = "refilled" /\ pc' = "idle" =>
       Cardinality(Popped) + Len(stack) + Cardinality(Bits \ bit_map)
         < num_page_frames]_vars

===============================================================================
