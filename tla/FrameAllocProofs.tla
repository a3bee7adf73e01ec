--------------------------- MODULE FrameAllocProofs ---------------------------
(***************************************************************************)
(* Theorems about FrameAlloc, for every stack size, bitmap size, word size *)
(* and kernel size, and that it implements FramePool.                      *)
(***************************************************************************)
EXTENDS FrameAlloc, SequenceTheorems, FiniteSetTheorems, TLAPS

USE DEF MAX_REQUESTED_FRAMES

(***************************************************************************)
(* Lemmas about the operators of FrameAlloc.                               *)
(***************************************************************************)

(* A push onto a stack that is not full adds its frame on top. *)
LEMMA PushProperties ==
  ASSUME NEW s \in Seq(Frames), NEW f \in Frames, Len(s) < PT_ENTRIES
  PROVE  /\ stack_push(s, f) \in Seq(Frames)
         /\ Len(stack_push(s, f)) = Len(s) + 1
         /\ stack_push(s, f) # <<>>
         /\ \A k \in 1 .. Len(s) : stack_push(s, f)[k] = s[k]
         /\ stack_push(s, f)[Len(s) + 1] = f
         /\ Elements(stack_push(s, f)) = Elements(s) \union {f}
<1> DEFINE t == Append(s, f)
<1>1. stack_push(s, f) = t
  BY DEF stack_push
<1>2. /\ t \in Seq(Frames) /\ Len(t) = Len(s) + 1 /\ t # <<>>
      /\ \A k \in 1 .. Len(s) : t[k] = s[k]
      /\ t[Len(s) + 1] = f
  BY AppendProperties
<1>3. Len(s) \in Nat
  BY LenProperties
<1>4. Elements(t) = Elements(s) \union {f}
  <2> HIDE DEF t
  <2>1. ASSUME NEW k \in 1 .. Len(t) PROVE t[k] \in Elements(s) \union {f}
    <3>1. CASE k = Len(s) + 1
      BY <3>1, <1>2
    <3>2. CASE k # Len(s) + 1
      <4>1. k \in 1 .. Len(s)
        BY <3>2, <1>2, <1>3
      <4>2. QED
        BY <4>1, <1>2 DEF Elements
    <3>3. QED
      BY <3>1, <3>2
  <2>2. ASSUME NEW k \in 1 .. Len(s) PROVE s[k] \in Elements(t)
    <3>1. k \in 1 .. Len(t) /\ t[k] = s[k]
      BY <1>2, <1>3
    <3>2. QED
      BY <3>1 DEF Elements
  <2>3. f \in Elements(t)
    <3>1. Len(s) + 1 \in 1 .. Len(t)
      BY <1>2, <1>3
    <3>2. QED
      BY <3>1, <1>2 DEF Elements
  <2>4. QED
    BY <2>1, <2>2, <2>3 DEF Elements
<1>5. QED
  BY <1>1, <1>2, <1>4

(* A pop takes the top frame off and leaves the others where they were. *)
LEMMA PopProperties ==
  ASSUME NEW s \in Seq(Frames), s # <<>>
  PROVE  /\ Len(s) \in Nat \ {0}
         /\ stack_rest(s) \in Seq(Frames)
         /\ Len(stack_rest(s)) = Len(s) - 1
         /\ \A k \in 1 .. Len(s) - 1 : stack_rest(s)[k] = s[k]
         /\ stack_top(s) = s[Len(s)]
         /\ stack_top(s) \in Frames
         /\ Elements(s) = Elements(stack_rest(s)) \union {stack_top(s)}
<1> DEFINE t == SubSeq(s, 1, Len(s) - 1)
<1>1. stack_rest(s) = t /\ stack_top(s) = s[Len(s)]
  BY DEF stack_rest, stack_top
<1>2. Len(s) \in Nat \ {0}
  BY EmptySeq
<1>3. s[Len(s)] \in Frames
  BY <1>2, ElementOfSeq
<1>4. \A k \in 1 .. Len(s) - 1 : s[k] \in Frames
  BY <1>2, ElementOfSeq
<1>5. /\ t \in Seq(Frames)
      /\ Len(t) = Len(s) - 1
      /\ \A k \in 1 .. Len(s) - 1 : t[k] = s[k]
  <2>1. PICK m \in Nat : m = Len(s) - 1
    BY <1>2
  <2>2. /\ SubSeq(s, 1, m) \in Seq(Frames)
        /\ Len(SubSeq(s, 1, m)) = IF 1 <= m THEN m - 1 + 1 ELSE 0
    BY <1>4, <2>1, SubSeqProperties
  <2>3. Len(SubSeq(s, 1, m)) = m
    BY <2>2
  <2>4. \A k \in 1 .. m : SubSeq(s, 1, m)[k] = s[k]
    BY <2>1, <1>2
  <2>5. QED
    BY <2>1, <2>2, <2>3, <2>4
<1>6. Elements(s) = Elements(t) \union {s[Len(s)]}
  <2> HIDE DEF t
  <2>1. QED
    BY <1>2, <1>5 DEF Elements
<1>7. QED
  BY <1>1, <1>2, <1>3, <1>5, <1>6

(* The first bit of a word is not after any bit of the word. *)
LEMMA WordOfBound ==
  ASSUME NEW n \in Bits
  PROVE  WordOf(n) \in Bits /\ WordOf(n) <= n
<1>1. n \in Nat /\ WORD_BITS \in Nat \ {0} /\ TOTAL_PAGE_FRAME_NUMS \in Nat
  BY FrameAllocAssumption DEF Bits
<1>2. n % WORD_BITS \in 0 .. WORD_BITS - 1
  BY <1>1
<1>3. n = WORD_BITS * (n \div WORD_BITS) + (n % WORD_BITS)
  BY <1>1
<1>4. n \div WORD_BITS \in Nat
  BY <1>1
<1>5. WORD_BITS * (n \div WORD_BITS) \in Nat
  BY <1>1, <1>4
<1>6. n - (n % WORD_BITS) \in Nat /\ n - (n % WORD_BITS) <= n
  BY <1>1, <1>2, <1>3, <1>5
<1>7. QED
  BY <1>1, <1>6 DEF WordOf, Bits

(* On the bits whose address does not wrap, FrameOf and BitOf are inverse.  *)
LEMMA AddressProperties ==
  /\ \A n \in Bits : FrameOf(n) \in Frames
  /\ \A n \in Bits : START + n < TOTAL_PAGE_FRAME_NUMS =>
       FrameOf(n) = START + n /\ FrameOf(n) >= START /\ BitOf(FrameOf(n)) = n
  /\ \A f \in Frames : f >= START => BitOf(f) = f - START /\ BitOf(f) \in Bits
BY FrameAllocAssumption DEF FrameOf, BitOf, Frames, Bits, START

(***************************************************************************)
(* The inductive invariant.  EachFrameOnce and EmptyMeansExhausted are not *)
(* inductive: the first needs to know where the search of the ring stands  *)
(* relative to the bit that wraps, the second what the bits already passed *)
(* look like.                                                              *)
(***************************************************************************)

(* The bits of the ring from the start of the refill up to, not including,
   the bit it examines *)
Scanned ==
  IF scan >= last_allocated_index
    THEN last_allocated_index .. scan - 1
    ELSE (last_allocated_index .. TOTAL_PAGE_FRAME_NUMS - 1) \union (0 .. scan - 1)

RefillInv ==
  /\ pc = "scan" => pages_allocated < PT_ENTRIES
  /\ pc \in {"scan", "refilled"} => Len(stack) = pages_allocated
  /\ pc = "scan" => Scanned \subseteq bit_map
  /\ pc = "refilled" /\ pages_allocated < PT_ENTRIES => bit_map = Bits

UnwrappedInv == ~wrapped =>
  /\ \A n \in bit_map : START + n < TOTAL_PAGE_FRAME_NUMS
  /\ START + last_allocated_index < TOTAL_PAGE_FRAME_NUMS
  /\ pc = "scan" => /\ last_allocated_index <= scan
                    /\ START + scan <= TOTAL_PAGE_FRAME_NUMS

(* Where the allocator is and what the bitmap looks like *)
SearchInv == TypeOK /\ RefillInv /\ EmptyMeansExhausted /\ UnwrappedInv

LEMMA InitSearchInv == Init => SearchInv
<1> SUFFICES ASSUME Init PROVE SearchInv
  OBVIOUS
<1> USE FrameAllocAssumption
<1>1. stack \in Seq(Frames) /\ Len(stack) = PT_ENTRIES /\ stack # <<>>
  <2>1. \A k \in 1 .. PT_ENTRIES : FrameOf(k - 1) \in Frames
    BY DEF FrameOf, Frames, START
  <2>2. stack \in [1 .. PT_ENTRIES -> Frames]
    BY <2>1 DEF Init
  <2>3. stack \in Seq(Frames) /\ DOMAIN stack = 1 .. PT_ENTRIES
    BY <2>2, SeqDef
  <2>4. QED
    BY <2>3, LenProperties, EmptySeq
<1>2. PT_ENTRIES - WORD_BITS \in 0 .. PT_ENTRIES - 1
  <2>1. WORD_BITS <= PT_ENTRIES
    BY WordAssumption
  <2>2. QED
    BY <2>1
<1>3. TypeOK
  <2>1. 0 \in Bits /\ 0 \in Frames
    BY DEF Bits, Frames, START
  <2>2. bit_map \subseteq Bits /\ last_allocated_index \in Bits
    BY <1>2 DEF Init, Bits, START
  <2>3. allocated_page_frames \in [0 .. PT_ENTRIES - 1 -> Frames]
    BY <2>1 DEF Init
  <2>4. /\ pc = "idle" /\ num_page_frames = 0 /\ i = 0 /\ scan = 0
        /\ pages_allocated = 0 /\ held = {} /\ wrapped = FALSE
    BY DEF Init
  <2>5. Len(stack) <= PT_ENTRIES
    BY <1>1
  <2>6. QED
    BY <1>1, <2>1, <2>2, <2>3, <2>4, <2>5 DEF TypeOK
<1>4. RefillInv /\ EmptyMeansExhausted
  BY <1>1 DEF Init, RefillInv, EmptyMeansExhausted
<1>5. UnwrappedInv
  BY <1>2 DEF Init, UnwrappedInv, START
<1>6. QED
  BY <1>3, <1>4, <1>5 DEF SearchInv

LEMMA RequestSearchInv ==
  ASSUME SearchInv, NEW num \in 0 .. MAX_REQUESTED_FRAMES, Request(num)
  PROVE  SearchInv'
<1> USE FrameAllocAssumption DEF SearchInv, Request, refill_vars
<1>1. TypeOK'
  BY DEF TypeOK
<1>2. RefillInv' /\ EmptyMeansExhausted' /\ UnwrappedInv'
  BY DEF RefillInv, EmptyMeansExhausted, UnwrappedInv
<1>3. QED
  BY <1>1, <1>2

LEMMA PopSearchInv == SearchInv /\ Pop => SearchInv'
<1> SUFFICES ASSUME SearchInv, Pop PROVE SearchInv'
  OBVIOUS
<1> USE FrameAllocAssumption DEF SearchInv
<1>1. stack' \in Seq(Frames) /\ Len(stack') <= PT_ENTRIES
  <2>1. CASE stack = <<>>
    BY <2>1 DEF Pop, stack_rest, TypeOK
  <2>2. CASE stack # <<>>
    BY <2>2, PopProperties DEF Pop, TypeOK
  <2>3. QED
    BY <2>1, <2>2
<1>2. allocated_page_frames' \in [0 .. MAX_REQUESTED_FRAMES - 1 -> Frames]
  <2>1. CASE stack_top(stack) = STACK_OP_FAIL
    BY <2>1 DEF Pop, TypeOK
  <2>2. CASE stack_top(stack) # STACK_OP_FAIL
    <3>1. stack_top(stack) \in Frames
      BY <2>2, PopProperties DEF stack_top, TypeOK
    <3>2. QED
      BY <2>2, <3>1 DEF Pop, TypeOK
  <2>3. QED
    BY <2>1, <2>2
<1>3. Len(<<>>) = 0
  OBVIOUS
<1>4. CASE stack' = <<>>
  <2>1. /\ pc' = "scan" /\ scan' = last_allocated_index /\ pages_allocated' = 0
        /\ i' = i /\ i < num_page_frames
        /\ UNCHANGED <<bit_map, last_allocated_index, num_page_frames, held, wrapped>>
    BY <1>4 DEF Pop
  <2>2. TypeOK'
    BY <1>1, <1>2, <2>1 DEF TypeOK
  <2>3. Scanned' = {}
    BY <2>1 DEF Scanned, TypeOK, Bits
  <2>4. RefillInv' /\ EmptyMeansExhausted'
    BY <1>3, <1>4, <2>1, <2>3 DEF RefillInv, EmptyMeansExhausted
  <2>5. UnwrappedInv'
    BY <2>1 DEF UnwrappedInv, TypeOK, Bits, START
  <2>6. QED
    BY <2>2, <2>4, <2>5
<1>5. CASE stack' # <<>>
  <2>1. /\ pc = "alloc" /\ i' = i + 1 /\ i < num_page_frames
        /\ UNCHANGED <<pc, scan, pages_allocated, bit_map, last_allocated_index,
                       num_page_frames, held, wrapped>>
    BY <1>5 DEF Pop
  <2>2. TypeOK'
    BY <1>1, <1>2, <2>1 DEF TypeOK
  <2>3. RefillInv' /\ EmptyMeansExhausted' /\ UnwrappedInv'
    BY <1>5, <2>1 DEF RefillInv, EmptyMeansExhausted, UnwrappedInv
  <2>4. QED
    BY <2>2, <2>3
<1>6. QED
  BY <1>4, <1>5

LEMMA ReturnSearchInv == SearchInv /\ Return => SearchInv'
<1> SUFFICES ASSUME SearchInv, Return PROVE SearchInv'
  OBVIOUS
<1> USE FrameAllocAssumption DEF SearchInv, Return, refill_vars
<1>1. {allocated_page_frames[k] : k \in 0 .. num_page_frames - 1} \subseteq Frames
  BY DEF TypeOK
<1>2. TypeOK'
  BY <1>1 DEF TypeOK
<1>3. RefillInv' /\ EmptyMeansExhausted' /\ UnwrappedInv'
  BY DEF RefillInv, EmptyMeansExhausted, UnwrappedInv
<1>4. QED
  BY <1>2, <1>3

(***************************************************************************)
(* The search of the ring.                                                 *)
(***************************************************************************)

(* The bit after the one examined, as NextBit computes it *)
Following == IF scan + 1 = TOTAL_PAGE_FRAME_NUMS THEN 0 ELSE scan + 1

(* Once the search is back where it began, every bit has been examined. *)
LEMMA ScannedAll ==
  ASSUME TypeOK, Following = last_allocated_index
  PROVE  Bits \subseteq Scanned \union {scan}
BY FrameAllocAssumption DEF TypeOK, Following, Scanned, Bits

(* While it is not, the next bit is the only one added to those examined. *)
LEMMA ScannedNext ==
  ASSUME TypeOK, Following # last_allocated_index,
         scan' = Following, last_allocated_index' = last_allocated_index
  PROVE  Scanned' \subseteq Scanned \union {scan} /\ scan' \in Bits
<1>1. scan' \in Bits
  BY FrameAllocAssumption DEF TypeOK, Following, Bits
<1>2. ASSUME NEW n \in Scanned' PROVE n \in Scanned \union {scan}
  BY <1>2, FrameAllocAssumption DEF TypeOK, Following, Scanned, Bits
<1>3. QED
  BY <1>1, <1>2

LEMMA SkipSearchInv == SearchInv /\ SkipBit => SearchInv'
<1> SUFFICES ASSUME SearchInv, SkipBit PROVE SearchInv'
  OBVIOUS
<1> USE FrameAllocAssumption DEF SearchInv
<1>1. /\ pc = "scan" /\ scan \in bit_map
      /\ UNCHANGED <<bit_map, last_allocated_index, pages_allocated, wrapped, stack,
                     allocated_page_frames, num_page_frames, i, held>>
      /\ Scanned \union {scan} \subseteq bit_map
  BY DEF SkipBit, RefillInv
<1>2. CASE Following = last_allocated_index
  <2>1. pc' = "refilled" /\ scan' = 0
    BY <1>2 DEF SkipBit, NextBit, Following
  <2>2. bit_map = Bits
    BY <1>1, <1>2, ScannedAll DEF TypeOK
  <2>3. TypeOK'
    BY <1>1, <2>1 DEF TypeOK, Bits
  <2>4. RefillInv' /\ EmptyMeansExhausted' /\ UnwrappedInv'
    BY <1>1, <2>1, <2>2 DEF RefillInv, EmptyMeansExhausted, UnwrappedInv
  <2>5. QED
    BY <2>3, <2>4
<1>3. CASE Following # last_allocated_index
  <2>1. pc' = "scan" /\ scan' = Following
    BY <1>1, <1>3 DEF SkipBit, NextBit, Following
  <2>2. Scanned' \subseteq bit_map' /\ scan' \in Bits
    BY <1>1, <1>3, <2>1, ScannedNext
  <2>3. TypeOK'
    BY <1>1, <2>1, <2>2 DEF TypeOK
  <2>4. RefillInv' /\ EmptyMeansExhausted'
    BY <1>1, <2>1, <2>2 DEF RefillInv, EmptyMeansExhausted
  <2>5. UnwrappedInv'
    BY <1>1, <1>3, <2>1 DEF UnwrappedInv, Following, TypeOK, Bits, START
  <2>6. QED
    BY <2>3, <2>4, <2>5
<1>4. QED
  BY <1>2, <1>3

LEMMA TakeSearchInv == SearchInv /\ TakeBit => SearchInv'
<1> SUFFICES ASSUME SearchInv, TakeBit PROVE SearchInv'
  OBVIOUS
<1> USE FrameAllocAssumption DEF SearchInv
<1>1. /\ pc = "scan" /\ bit_map' = bit_map \union {scan}
      /\ stack' = stack_push(stack, FrameOf(scan))
      /\ pages_allocated' = pages_allocated + 1
      /\ wrapped' = (wrapped \/ START + scan >= TOTAL_PAGE_FRAME_NUMS)
      /\ UNCHANGED <<allocated_page_frames, num_page_frames, i, held>>
  BY DEF TakeBit
<1>2. /\ scan \in Bits /\ FrameOf(scan) \in Frames
      /\ pages_allocated \in Nat /\ pages_allocated < PT_ENTRIES
      /\ Len(stack) = pages_allocated
  BY <1>1, AddressProperties DEF TypeOK, RefillInv
<1>3. stack' \in Seq(Frames) /\ Len(stack') = pages_allocated' /\ stack' # <<>>
  BY <1>1, <1>2, PushProperties DEF TypeOK
<1>4. /\ Scanned \union {scan} \subseteq bit_map' /\ bit_map' \subseteq Bits
      /\ pages_allocated' \in 0 .. PT_ENTRIES /\ wrapped' \in BOOLEAN
  BY <1>1, <1>2 DEF RefillInv, TypeOK
<1>5. ~wrapped' => /\ \A n \in bit_map' : START + n < TOTAL_PAGE_FRAME_NUMS
                   /\ START + scan < TOTAL_PAGE_FRAME_NUMS
                   /\ START + last_allocated_index < TOTAL_PAGE_FRAME_NUMS
                   /\ last_allocated_index <= scan
  <2> SUFFICES ASSUME ~wrapped' PROVE
                  /\ \A n \in bit_map' : START + n < TOTAL_PAGE_FRAME_NUMS
                  /\ START + scan < TOTAL_PAGE_FRAME_NUMS
                  /\ START + last_allocated_index < TOTAL_PAGE_FRAME_NUMS
                  /\ last_allocated_index <= scan
    OBVIOUS
  <2>1. ~wrapped /\ ~(START + scan >= TOTAL_PAGE_FRAME_NUMS)
    BY <1>1 DEF TypeOK
  <2>2. START + scan < TOTAL_PAGE_FRAME_NUMS
    BY <1>2, <2>1 DEF START, Bits
  <2>3. QED
    BY <1>1, <2>1, <2>2 DEF UnwrappedInv
<1>6. CASE pages_allocated' = PT_ENTRIES
  <2>1. pc' = "refilled" /\ scan' = 0 /\ last_allocated_index' = WordOf(scan)
    BY <1>6 DEF TakeBit
  <2>2. WordOf(scan) \in Bits /\ WordOf(scan) <= scan /\ 0 \in Bits
    BY <1>2, WordOfBound DEF Bits
  <2>3. TypeOK'
    BY <1>1, <1>2, <1>3, <1>4, <2>1, <2>2 DEF TypeOK
  <2>4. RefillInv' /\ EmptyMeansExhausted'
    BY <1>3, <1>6, <2>1 DEF RefillInv, EmptyMeansExhausted
  <2>5. ~wrapped' => START + last_allocated_index' < TOTAL_PAGE_FRAME_NUMS
    BY <1>2, <1>5, <2>1, <2>2 DEF START, Bits
  <2>6. UnwrappedInv'
    BY <1>5, <2>1, <2>5 DEF UnwrappedInv
  <2>7. QED
    BY <2>3, <2>4, <2>6
<1>7. CASE pages_allocated' # PT_ENTRIES /\ Following = last_allocated_index
  <2>1. /\ pc' = "refilled" /\ scan' = 0
        /\ last_allocated_index' = last_allocated_index
    BY <1>7 DEF TakeBit, NextBit, Following
  <2>2. bit_map' = Bits
    BY <1>4, <1>7, ScannedAll DEF TypeOK
  <2>3. TypeOK'
    BY <1>1, <1>2, <1>3, <1>4, <2>1 DEF TypeOK, Bits
  <2>4. RefillInv' /\ EmptyMeansExhausted'
    BY <1>3, <2>1, <2>2 DEF RefillInv, EmptyMeansExhausted
  <2>5. UnwrappedInv'
    BY <1>5, <2>1 DEF UnwrappedInv
  <2>6. QED
    BY <2>3, <2>4, <2>5
<1>8. CASE pages_allocated' # PT_ENTRIES /\ Following # last_allocated_index
  <2>1. /\ pc' = "scan" /\ scan' = Following
        /\ last_allocated_index' = last_allocated_index
    BY <1>1, <1>8 DEF TakeBit, NextBit, Following
  <2>2. Scanned' \subseteq bit_map' /\ scan' \in Bits
    BY <1>4, <1>8, <2>1, ScannedNext
  <2>3. pages_allocated' < PT_ENTRIES
    BY <1>4, <1>8
  <2>4. TypeOK'
    <3>1. Len(stack') <= PT_ENTRIES
      BY <1>3, <2>3
    <3>2. QED
      BY <1>1, <1>3, <1>4, <2>1, <2>2, <3>1 DEF TypeOK
  <2>5. RefillInv' /\ EmptyMeansExhausted'
    BY <1>3, <2>1, <2>2, <2>3 DEF RefillInv, EmptyMeansExhausted
  <2>6. ~wrapped' => /\ last_allocated_index <= scan'
                     /\ START + scan' <= TOTAL_PAGE_FRAME_NUMS
    BY <1>2, <1>5, <1>8, <2>1 DEF Following, START, Bits, TypeOK
  <2>7. UnwrappedInv'
    BY <1>5, <2>1, <2>6 DEF UnwrappedInv
  <2>8. QED
    BY <2>4, <2>5, <2>7
<1>9. QED
  BY <1>6, <1>7, <1>8

(***************************************************************************)
(* After the refill, and frees.                                            *)
(***************************************************************************)

(* The test on the refill is never passed with an empty stack. *)
LEMMA RefilledSearchInv == SearchInv /\ Refilled => SearchInv'
<1> SUFFICES ASSUME SearchInv, Refilled PROVE SearchInv'
  OBVIOUS
<1> USE FrameAllocAssumption DEF SearchInv
<1>1. /\ pc = "refilled" /\ pages_allocated >= PT_ENTRIES - i + 1
      /\ pc' = "alloc" /\ i' = i + 1 /\ pages_allocated' = 0
      /\ UNCHANGED <<bit_map, last_allocated_index, scan, wrapped, stack,
                     allocated_page_frames, num_page_frames, held>>
  BY DEF Refilled, RefillSuffices
<1>2. TypeOK'
  BY <1>1 DEF TypeOK
<1>3. stack # <<>>
  <2>1. Len(stack) > 0
    BY <1>1 DEF TypeOK, RefillInv
  <2>2. QED
    BY <2>1
<1>4. RefillInv' /\ EmptyMeansExhausted' /\ UnwrappedInv'
  BY <1>1, <1>3 DEF RefillInv, EmptyMeansExhausted, UnwrappedInv
<1>5. QED
  BY <1>2, <1>4

LEMMA FailSearchInv == SearchInv /\ Fail => SearchInv'
<1> SUFFICES ASSUME SearchInv, Fail PROVE SearchInv'
  OBVIOUS
<1> USE FrameAllocAssumption DEF SearchInv
<1>1. /\ pc = "refilled" /\ ~RefillSuffices
      /\ pc' = "idle" /\ num_page_frames' = 0 /\ i' = 0 /\ pages_allocated' = 0
      /\ UNCHANGED <<bit_map, last_allocated_index, scan, wrapped, stack,
                     allocated_page_frames, held>>
  BY DEF Fail
<1>2. TypeOK'
  BY <1>1 DEF TypeOK
<1>3. stack = <<>> => pages_allocated = 0
  BY <1>1 DEF RefillInv
<1>4. RefillInv' /\ EmptyMeansExhausted' /\ UnwrappedInv'
  BY <1>1, <1>3 DEF RefillInv, EmptyMeansExhausted, UnwrappedInv
<1>5. QED
  BY <1>2, <1>4

LEMMA FreeSearchInv ==
  ASSUME SearchInv, NEW f \in held, free_page_frame(f)
  PROVE  SearchInv'
<1> USE FrameAllocAssumption DEF SearchInv
<1>1. /\ pc = "idle" /\ held' = held \ {f}
      /\ UNCHANGED <<last_allocated_index, scan, pages_allocated, wrapped,
                     allocated_page_frames, pc, num_page_frames, i>>
      /\ f \in Frames
  BY DEF free_page_frame, TypeOK
<1>2. CASE Len(stack) < PT_ENTRIES
  <2>1. stack' = stack_push(stack, f) /\ bit_map' = bit_map
    BY <1>2 DEF free_page_frame
  <2>2. stack' \in Seq(Frames) /\ Len(stack') <= PT_ENTRIES /\ stack' # <<>>
    <3>1. Len(stack) \in Nat
      BY LenProperties DEF TypeOK
    <3>2. QED
      BY <1>1, <1>2, <2>1, <3>1, PushProperties DEF TypeOK
  <2>3. TypeOK'
    BY <1>1, <2>1, <2>2 DEF TypeOK
  <2>4. RefillInv' /\ EmptyMeansExhausted' /\ UnwrappedInv'
    BY <1>1, <2>1, <2>2 DEF RefillInv, EmptyMeansExhausted, UnwrappedInv
  <2>5. QED
    BY <2>3, <2>4
<1>3. CASE ~(Len(stack) < PT_ENTRIES)
  <2>1. bit_map' = bit_map \ {BitOf(f)} /\ stack' = stack
    BY <1>3 DEF free_page_frame
  <2>2. stack # <<>>
    BY <1>3
  <2>3. TypeOK'
    BY <1>1, <2>1 DEF TypeOK
  <2>4. RefillInv' /\ EmptyMeansExhausted' /\ UnwrappedInv'
    BY <1>1, <2>1, <2>2 DEF RefillInv, EmptyMeansExhausted, UnwrappedInv
  <2>5. QED
    BY <2>3, <2>4
<1>4. QED
  BY <1>2, <1>3

LEMMA StutterSearchInv == SearchInv /\ UNCHANGED vars => SearchInv'
BY DEF SearchInv, TypeOK, RefillInv, EmptyMeansExhausted, UnwrappedInv, Scanned,
       vars, refill_vars

LEMMA StepSearchInv == SearchInv /\ [Next]_vars => SearchInv'
<1> SUFFICES ASSUME SearchInv, [Next]_vars PROVE SearchInv'
  OBVIOUS
<1>1. ASSUME NEW num \in 0 .. MAX_REQUESTED_FRAMES, Request(num) PROVE SearchInv'
  BY <1>1, RequestSearchInv
<1>2. CASE Pop
  BY <1>2, PopSearchInv
<1>3. CASE Return
  BY <1>3, ReturnSearchInv
<1>4. CASE TakeBit
  BY <1>4, TakeSearchInv
<1>5. CASE SkipBit
  BY <1>5, SkipSearchInv
<1>6. CASE Refilled
  BY <1>6, RefilledSearchInv
<1>7. CASE Fail
  BY <1>7, FailSearchInv
<1>8. ASSUME NEW f \in held, free_page_frame(f) PROVE SearchInv'
  BY <1>8, FreeSearchInv
<1>9. CASE UNCHANGED vars
  BY <1>9, StutterSearchInv
<1>10. QED
  BY <1>1, <1>2, <1>3, <1>4, <1>5, <1>6, <1>7, <1>8, <1>9 DEF Next, Step

(* Whatever calls are made, every pointer, index and counter of the allocator
   stays in its range (page_frame_alloc.c:95-178): the stack never holds more
   than its array, a refill never writes past it, and the search never leaves
   the bitmap.  *)
THEOREM TypeCorrect == Spec => []TypeOK
<1>1. SearchInv => TypeOK
  BY DEF SearchInv
<1>2. QED
  BY InitSearchInv, StepSearchInv, <1>1, PTL DEF Spec

(* Between refills the stack of bitmap_get_unallocated_pages and stack_tpop is
   empty only once no frame is free in the bitmap.  *)
THEOREM Exhaustion == Spec => []EmptyMeansExhausted
<1>1. SearchInv => EmptyMeansExhausted
  BY DEF SearchInv
<1>2. QED
  BY InitSearchInv, StepSearchInv, <1>1, PTL DEF Spec

(***************************************************************************)
(* One place for every frame.                                              *)
(***************************************************************************)

(* EachFrameOnce with the facts about the search it needs: a frame enters the
   stack only from a bit not marked before, or from its owner.  *)
OnceInv == SearchInv /\ EachFrameOnce /\ KernelFramesSafe

(* Until the wrap the stack is never found empty, so no pop fails and no slot
   of the array keeps what an earlier request left in it.  *)
LEMMA NeverEmpty ==
  ASSUME SearchInv, ~wrapped, pc \in {"idle", "alloc"}
  PROVE  stack # <<>>
<1> SUFFICES ASSUME stack = <<>> PROVE FALSE
  OBVIOUS
<1>1. bit_map = Bits
  BY DEF SearchInv, EmptyMeansExhausted
<1>2. TOTAL_PAGE_FRAME_NUMS - 1 \in Bits
  BY FrameAllocAssumption DEF Bits, START
<1>3. START + (TOTAL_PAGE_FRAME_NUMS - 1) < TOTAL_PAGE_FRAME_NUMS
  BY <1>1, <1>2 DEF SearchInv, UnwrappedInv
<1>4. QED
  BY <1>3, FrameAllocAssumption DEF START

LEMMA InitOnce == Init => OnceInv
<1> SUFFICES ASSUME Init PROVE OnceInv
  OBVIOUS
<1> USE FrameAllocAssumption
<1>1. SearchInv
  BY InitSearchInv
<1>2. Len(stack) = PT_ENTRIES /\ DOMAIN stack = 1 .. PT_ENTRIES
  <2>1. stack \in [1 .. PT_ENTRIES -> Frames]
    <3>1. \A k \in 1 .. PT_ENTRIES : FrameOf(k - 1) \in Frames
      BY DEF FrameOf, Frames, START
    <3>2. QED
      BY <3>1 DEF Init
  <2>2. QED
    BY <2>1, LenProperties, SeqDef
<1>3. \A k \in 1 .. PT_ENTRIES : stack[k] = START + (k - 1)
  BY DEF Init, FrameOf, START
<1>4. held = {} /\ Popped = {} /\ Transit = {}
  BY DEF Init, Popped, Transit
<1>5. \A f \in Elements(stack) : f >= START /\ BitOf(f) \in bit_map
  BY <1>2, <1>3 DEF Elements, Init, BitOf, START
<1>6. \A j, k \in 1 .. Len(stack) : stack[j] = stack[k] => j = k
  BY <1>2, <1>3 DEF START
<1>7. EachFrameOnce
  BY <1>4, <1>5, <1>6 DEF EachFrameOnce
<1>8. KernelFramesSafe
  BY <1>4, <1>5 DEF KernelFramesSafe
<1>9. QED
  BY <1>1, <1>7, <1>8 DEF OnceInv

(* A step that moves no frame, and keeps the bitmap, keeps EachFrameOnce. *)
LEMMA SameOnce ==
  ASSUME OnceInv, Popped' \subseteq Popped,
         UNCHANGED <<bit_map, stack, held, allocated_page_frames, wrapped>>
  PROVE  EachFrameOnce' /\ KernelFramesSafe'
<1>1. Elements(stack)' = Elements(stack) /\ Transit' \subseteq Transit
  BY DEF Elements, Transit
<1>2. KernelFramesSafe'
  BY <1>1 DEF OnceInv, KernelFramesSafe
<1>3. EachFrameOnce'
  <2> SUFFICES ASSUME ~wrapped' PROVE EachFrameOnce'
    BY DEF EachFrameOnce
  <2>1. /\ \A j, k \in 1 .. Len(stack') : stack'[j] = stack'[k] => j = k
        /\ \A j, k \in Popped' : allocated_page_frames'[j] = allocated_page_frames'[k]
                                   => j = k
    BY DEF OnceInv, EachFrameOnce
  <2>2. /\ Elements(stack)' \intersect (held' \union Transit') = {}
        /\ held' \intersect Transit' = {}
        /\ \A f \in Elements(stack)' \union held' \union Transit' : BitOf(f)' \in bit_map'
    BY <1>1 DEF OnceInv, EachFrameOnce, BitOf
  <2>3. QED
    BY <2>1, <2>2 DEF EachFrameOnce
<1>4. QED
  BY <1>2, <1>3

LEMMA PopOnce ==
  ASSUME OnceInv, Pop
  PROVE  EachFrameOnce' /\ KernelFramesSafe'
<1> SUFFICES ASSUME ~wrapped' PROVE EachFrameOnce' /\ KernelFramesSafe'
  BY DEF EachFrameOnce, KernelFramesSafe
<1> USE FrameAllocAssumption
<1> DEFINE top == stack_top(stack)
           rest == stack_rest(stack)
<1>1. SearchInv /\ TypeOK /\ ~wrapped /\ pc = "alloc" /\ i < num_page_frames
      /\ stack' = rest /\ bit_map' = bit_map /\ held' = held
  BY DEF Pop, OnceInv, SearchInv
<1>2. stack # <<>> /\ stack \in Seq(Frames)
  BY <1>1, NeverEmpty DEF TypeOK
<1>3. /\ Len(stack) \in Nat \ {0} /\ Len(rest) = Len(stack) - 1
      /\ \A k \in 1 .. Len(stack) - 1 : rest[k] = stack[k]
      /\ top = stack[Len(stack)] /\ top \in Frames
      /\ Elements(stack) = Elements(rest) \union {top}
  BY <1>2, PopProperties
<1>4. /\ \A j, k \in 1 .. Len(stack) : stack[j] = stack[k] => j = k
      /\ \A j, k \in Popped : allocated_page_frames[j] = allocated_page_frames[k] => j = k
      /\ Elements(stack) \intersect (held \union Transit) = {}
      /\ held \intersect Transit = {}
      /\ \A f \in Elements(stack) \union held \union Transit :
           BitOf(f) \in bit_map /\ f >= START
  BY <1>1 DEF OnceInv, EachFrameOnce, KernelFramesSafe
<1>5. top # STACK_OP_FAIL
  <2>1. top >= START
    BY <1>3, <1>4
  <2>2. START > 0 /\ top \in Int
    BY <1>3 DEF START, Frames
  <2>3. QED
    BY <2>1, <2>2 DEF START, STACK_OP_FAIL
<1>6. allocated_page_frames' = [allocated_page_frames EXCEPT ![i] = top]
  BY <1>5 DEF Pop
<1>7. Popped = 0 .. i - 1 /\ Popped' = 0 .. i /\ i \in Nat /\ i < PT_ENTRIES
  BY <1>1 DEF Popped, Pop, TypeOK
<1>8. /\ \A k \in 0 .. i - 1 : allocated_page_frames'[k] = allocated_page_frames[k]
      /\ allocated_page_frames'[i] = top
  BY <1>1, <1>6, <1>7 DEF TypeOK
<1>9. Transit' = Transit \union {top}
  <2>1. \A k \in 0 .. i : k = i \/ k \in 0 .. i - 1
    BY <1>7
  <2>2. \A k \in 0 .. i - 1 : k \in 0 .. i
    BY <1>7
  <2>3. i \in 0 .. i
    BY <1>7
  <2>4. QED
    BY <1>7, <1>8, <2>1, <2>2, <2>3 DEF Transit
<1>10. top \notin Elements(rest)
  BY <1>3, <1>4 DEF Elements
<1>11. \A j, k \in 1 .. Len(rest) : rest[j] = rest[k] => j = k
  BY <1>3, <1>4
<1>12. \A j, k \in Popped' :
         allocated_page_frames'[j] = allocated_page_frames'[k] => j = k
  <2>1. \A k \in 0 .. i - 1 : allocated_page_frames[k] \in Transit
    BY <1>7 DEF Transit
  <2>2. top \notin Transit
    BY <1>3, <1>4
  <2>3. \A k \in Popped' : k = i \/ k \in 0 .. i - 1
    BY <1>7
  <2>4. QED
    BY <1>4, <1>7, <1>8, <2>1, <2>2, <2>3
<1>13. Elements(stack)' = Elements(rest)
  BY <1>1 DEF Elements
<1>14. EachFrameOnce'
  <2>1. /\ Elements(stack)' \intersect (held' \union Transit') = {}
        /\ held' \intersect Transit' = {}
    BY <1>1, <1>3, <1>4, <1>9, <1>10, <1>13
  <2>2. \A f \in Elements(stack)' \union held' \union Transit' : BitOf(f)' \in bit_map'
    BY <1>1, <1>3, <1>4, <1>9, <1>13 DEF BitOf
  <2>3. QED
    BY <1>1, <1>11, <1>12, <2>1, <2>2 DEF EachFrameOnce
<1>15. KernelFramesSafe'
  BY <1>1, <1>3, <1>4, <1>9, <1>13 DEF KernelFramesSafe
<1>16. QED
  BY <1>14, <1>15

LEMMA ReturnOnce ==
  ASSUME OnceInv, Return
  PROVE  EachFrameOnce' /\ KernelFramesSafe'
<1> SUFFICES ASSUME ~wrapped' PROVE EachFrameOnce' /\ KernelFramesSafe'
  BY DEF EachFrameOnce, KernelFramesSafe
<1> USE FrameAllocAssumption
<1>1. /\ TypeOK /\ ~wrapped /\ pc = "alloc" /\ i = num_page_frames
      /\ held' = held \union {allocated_page_frames[k] : k \in 0 .. num_page_frames - 1}
      /\ pc' = "idle" /\ i' = 0
      /\ UNCHANGED <<stack, bit_map, allocated_page_frames>>
  BY DEF Return, refill_vars, OnceInv, SearchInv
<1>2. Popped' = {} /\ Transit' = {}
  BY <1>1 DEF Popped, Transit
<1>3. held' = held \union Transit
  BY <1>1 DEF Popped, Transit
<1>4. Elements(stack)' = Elements(stack)
  BY <1>1 DEF Elements
<1>5. KernelFramesSafe'
  BY <1>1, <1>2, <1>3, <1>4 DEF OnceInv, KernelFramesSafe
<1>6. EachFrameOnce'
  <2>1. \A j, k \in 1 .. Len(stack') : stack'[j] = stack'[k] => j = k
    BY <1>1 DEF OnceInv, EachFrameOnce
  <2>2. /\ Elements(stack)' \intersect (held' \union Transit') = {}
        /\ held' \intersect Transit' = {}
        /\ \A f \in Elements(stack)' \union held' \union Transit' : BitOf(f)' \in bit_map'
    BY <1>1, <1>2, <1>3, <1>4 DEF OnceInv, EachFrameOnce, BitOf
  <2>3. QED
    BY <1>2, <2>1, <2>2 DEF EachFrameOnce
<1>7. QED
  BY <1>5, <1>6

LEMMA TakeOnce ==
  ASSUME OnceInv, TakeBit
  PROVE  EachFrameOnce' /\ KernelFramesSafe'
<1> SUFFICES ASSUME ~wrapped' PROVE EachFrameOnce' /\ KernelFramesSafe'
  BY DEF EachFrameOnce, KernelFramesSafe
<1> USE FrameAllocAssumption
<1> DEFINE new == FrameOf(scan)
           pushed == stack_push(stack, new)
<1>1. /\ SearchInv /\ TypeOK /\ ~wrapped /\ pc = "scan" /\ pc' \in {"scan", "refilled"}
      /\ ~(START + scan >= TOTAL_PAGE_FRAME_NUMS)
      /\ scan \notin bit_map /\ bit_map' = bit_map \union {scan}
      /\ stack' = pushed
      /\ UNCHANGED <<allocated_page_frames, i, held>>
  BY DEF TakeBit, NextBit, OnceInv, SearchInv
<1>2. scan \in Bits /\ START + scan < TOTAL_PAGE_FRAME_NUMS
  BY <1>1 DEF TypeOK, Bits, START
<1>3. new \in Frames /\ new >= START /\ BitOf(new) = scan
  BY <1>2, AddressProperties
<1>4. stack \in Seq(Frames) /\ Len(stack) \in Nat /\ Len(stack) < PT_ENTRIES
  BY <1>1, LenProperties DEF SearchInv, TypeOK, RefillInv
<1>5. /\ Len(pushed) = Len(stack) + 1
      /\ \A k \in 1 .. Len(stack) : pushed[k] = stack[k]
      /\ pushed[Len(stack) + 1] = new
      /\ Elements(pushed) = Elements(stack) \union {new}
  BY <1>3, <1>4, PushProperties
<1>6. /\ \A j, k \in 1 .. Len(stack) : stack[j] = stack[k] => j = k
      /\ \A j, k \in Popped : allocated_page_frames[j] = allocated_page_frames[k] => j = k
      /\ Elements(stack) \intersect (held \union Transit) = {}
      /\ held \intersect Transit = {}
      /\ \A f \in Elements(stack) \union held \union Transit :
           BitOf(f) \in bit_map /\ f >= START
  BY <1>1 DEF OnceInv, EachFrameOnce, KernelFramesSafe
<1>7. new \notin Elements(stack) \union held \union Transit
  BY <1>1, <1>3, <1>6
<1>8. Popped' = Popped /\ Transit' = Transit /\ Elements(stack)' = Elements(pushed)
  BY <1>1 DEF Popped, Transit, Elements
<1>9. \A j, k \in 1 .. Len(pushed) : pushed[j] = pushed[k] => j = k
  <2>1. \A k \in 1 .. Len(stack) : stack[k] \in Elements(stack)
    BY DEF Elements
  <2>2. \A k \in 1 .. Len(pushed) : k = Len(stack) + 1 \/ k \in 1 .. Len(stack)
    BY <1>4, <1>5
  <2> HIDE DEF new, pushed
  <2>3. QED
    BY <1>5, <1>6, <1>7, <2>1, <2>2
<1> HIDE DEF new, pushed
<1>10. EachFrameOnce'
  <2>1. /\ Elements(stack)' \intersect (held' \union Transit') = {}
        /\ held' \intersect Transit' = {}
    BY <1>1, <1>5, <1>6, <1>7, <1>8
  <2>2. \A f \in Elements(stack)' \union held' \union Transit' : BitOf(f) \in bit_map'
    BY <1>1, <1>3, <1>5, <1>6, <1>8
  <2>3. \A j, k \in Popped' : allocated_page_frames'[j] = allocated_page_frames'[k]
                               => j = k
    BY <1>1, <1>6, <1>8
  <2>4. QED
    BY <1>1, <1>9, <2>1, <2>2, <2>3 DEF EachFrameOnce, BitOf
<1>11. KernelFramesSafe'
  BY <1>1, <1>3, <1>5, <1>6, <1>8 DEF KernelFramesSafe
<1>12. QED
  BY <1>10, <1>11

(* A free onto a full stack clears the bit of the freed frame and no other's. *)
LEMMA FreeOnce ==
  ASSUME OnceInv, NEW f \in held, free_page_frame(f)
  PROVE  EachFrameOnce' /\ KernelFramesSafe'
<1> SUFFICES ASSUME ~wrapped' PROVE EachFrameOnce' /\ KernelFramesSafe'
  BY DEF EachFrameOnce, KernelFramesSafe
<1> USE FrameAllocAssumption
<1>1. /\ TypeOK /\ ~wrapped /\ held' = held \ {f} /\ f \in Frames
      /\ UNCHANGED <<allocated_page_frames, pc, i>>
  BY DEF free_page_frame, OnceInv, SearchInv, TypeOK
<1>2. /\ \A j, k \in 1 .. Len(stack) : stack[j] = stack[k] => j = k
      /\ \A j, k \in Popped : allocated_page_frames[j] = allocated_page_frames[k] => j = k
      /\ Elements(stack) \intersect (held \union Transit) = {}
      /\ held \intersect Transit = {}
      /\ \A g \in Elements(stack) \union held \union Transit :
           BitOf(g) \in bit_map /\ g >= START
  BY <1>1 DEF OnceInv, EachFrameOnce, KernelFramesSafe
<1>3. Popped' = Popped /\ Transit' = Transit
  BY <1>1 DEF Popped, Transit
<1>4. \A j, k \in Popped' : allocated_page_frames'[j] = allocated_page_frames'[k] => j = k
  BY <1>1, <1>2, <1>3
<1>5. CASE Len(stack) < PT_ENTRIES
  <2> DEFINE pushed == stack_push(stack, f)
  <2>1. stack' = pushed /\ bit_map' = bit_map
    BY <1>5 DEF free_page_frame
  <2>2. stack \in Seq(Frames) /\ Len(stack) \in Nat
    BY <1>1, LenProperties DEF TypeOK
  <2>3. /\ Len(pushed) = Len(stack) + 1
        /\ \A k \in 1 .. Len(stack) : pushed[k] = stack[k]
        /\ pushed[Len(stack) + 1] = f
        /\ Elements(pushed) = Elements(stack) \union {f}
    BY <1>1, <1>5, <2>2, PushProperties
  <2>4. Elements(stack)' = Elements(pushed)
    BY <2>1 DEF Elements
  <2> HIDE DEF pushed
  <2>5. \A j, k \in 1 .. Len(pushed) : pushed[j] = pushed[k] => j = k
    <3>1. \A k \in 1 .. Len(stack) : stack[k] \in Elements(stack)
      BY DEF Elements
    <3>2. \A k \in 1 .. Len(pushed) : k = Len(stack) + 1 \/ k \in 1 .. Len(stack)
      BY <2>2, <2>3
    <3>3. f \notin Elements(stack)
      BY <1>2
    <3>4. QED
      BY <1>2, <2>3, <3>1, <3>2, <3>3
  <2>6. /\ Elements(stack)' \intersect (held' \union Transit') = {}
        /\ held' \intersect Transit' = {}
        /\ \A g \in Elements(stack)' \union held' \union Transit' : BitOf(g) \in bit_map'
    BY <1>1, <1>2, <1>3, <2>1, <2>3, <2>4
  <2>7. EachFrameOnce'
    BY <1>4, <2>1, <2>5, <2>6 DEF EachFrameOnce, BitOf
  <2>8. KernelFramesSafe'
    BY <1>1, <1>2, <1>3, <2>3, <2>4 DEF KernelFramesSafe
  <2>9. QED
    BY <2>7, <2>8
<1>6. CASE ~(Len(stack) < PT_ENTRIES)
  <2>1. bit_map' = bit_map \ {BitOf(f)} /\ stack' = stack
    BY <1>6 DEF free_page_frame
  <2>2. Elements(stack)' = Elements(stack)
    BY <2>1 DEF Elements
  <2>3. Elements(stack) \union held \union Transit \subseteq Frames
    <3>1. Elements(stack) \subseteq Frames
      <4>1. \A k \in 1 .. Len(stack) : stack[k] \in Frames
        BY <1>1, ElementOfSeq DEF TypeOK
      <4>2. QED
        BY <4>1 DEF Elements
    <3>2. Transit \subseteq Frames
      BY <1>1 DEF TypeOK, Transit, Popped
    <3>3. QED
      BY <1>1, <3>1, <3>2 DEF TypeOK
  <2>4. ASSUME NEW g \in Elements(stack) \union (held \ {f}) \union Transit
        PROVE  BitOf(g) \in bit_map \ {BitOf(f)}
    <3>1. g # f /\ g \in Elements(stack) \union held \union Transit
      BY <1>2
    <3>2. g \in Int /\ f \in Int
      BY <1>1, <2>3, <3>1 DEF Frames
    <3>3. BitOf(g) = g - START /\ BitOf(f) = f - START
      BY <1>2, <3>1 DEF BitOf
    <3>4. BitOf(g) # BitOf(f)
      BY <3>1, <3>2, <3>3 DEF START
    <3>5. QED
      BY <1>2, <3>1, <3>4
  <2>5. /\ Elements(stack)' \intersect (held' \union Transit') = {}
        /\ held' \intersect Transit' = {}
        /\ \A g \in Elements(stack)' \union held' \union Transit' : BitOf(g) \in bit_map'
    BY <1>1, <1>2, <1>3, <2>1, <2>2, <2>4
  <2>6. EachFrameOnce'
    BY <1>2, <1>4, <2>1, <2>5 DEF EachFrameOnce, BitOf
  <2>7. KernelFramesSafe'
    BY <1>1, <1>2, <1>3, <2>2 DEF KernelFramesSafe
  <2>8. QED
    BY <2>6, <2>7
<1>7. QED
  BY <1>5, <1>6

LEMMA StepOnce == OnceInv /\ [Next]_vars => OnceInv'
<1> SUFFICES ASSUME OnceInv, [Next]_vars PROVE EachFrameOnce' /\ KernelFramesSafe'
  BY StepSearchInv DEF OnceInv
<1> USE FrameAllocAssumption
<1>1. ASSUME NEW num \in 0 .. MAX_REQUESTED_FRAMES, Request(num)
      PROVE  EachFrameOnce' /\ KernelFramesSafe'
  <2>1. Popped' \subseteq Popped
    BY <1>1 DEF Request, Popped
  <2>2. QED
    BY <1>1, <2>1, SameOnce DEF Request, refill_vars
<1>2. CASE Pop
  BY <1>2, PopOnce
<1>3. CASE Return
  BY <1>3, ReturnOnce
<1>4. CASE TakeBit
  BY <1>4, TakeOnce
<1>5. CASE SkipBit
  <2>1. Popped' \subseteq Popped
    BY <1>5 DEF SkipBit, NextBit, Popped
  <2>2. QED
    BY <1>5, <2>1, SameOnce DEF SkipBit
<1>6. CASE Refilled
  <2>1. Popped' \subseteq Popped
    BY <1>6 DEF Refilled, Popped, OnceInv, SearchInv, TypeOK
  <2>2. QED
    BY <1>6, <2>1, SameOnce DEF Refilled
<1>7. CASE Fail
  <2>1. Popped' \subseteq Popped
    BY <1>7 DEF Fail, Popped
  <2>2. QED
    BY <1>7, <2>1, SameOnce DEF Fail
<1>8. ASSUME NEW f \in held, free_page_frame(f)
      PROVE  EachFrameOnce' /\ KernelFramesSafe'
  BY <1>8, FreeOnce
<1>9. CASE UNCHANGED vars
  <2>1. Popped' \subseteq Popped
    BY <1>9 DEF vars, Popped
  <2>2. QED
    BY <1>9, <2>1, SameOnce DEF vars, refill_vars
<1>10. QED
  BY <1>1, <1>2, <1>3, <1>4, <1>5, <1>6, <1>7, <1>8, <1>9 DEF Next, Step

(* pf_allocate_frames and free_page_frame never put a frame in two places, and
   so never give it to two callers, until a refill takes a bit whose address
   wraps past 4 GB.  *)
THEOREM FrameUniqueness == Spec => []EachFrameOnce
<1>1. OnceInv => EachFrameOnce
  BY DEF OnceInv
<1>2. QED
  BY InitOnce, StepOnce, <1>1, PTL DEF Spec

(* Until then no caller is given a frame of the kernel image, nor frame 0, whose
   address is STACK_OP_FAIL (page_frame_alloc.c:22).  *)
THEOREM KernelProtection == Spec => []KernelFramesSafe
<1>1. OnceInv => KernelFramesSafe
  BY DEF OnceInv
<1>2. QED
  BY InitOnce, StepOnce, <1>1, PTL DEF Spec

(***************************************************************************)
(* FrameAlloc implements FramePool until the address wrap: every step of   *)
(* the stack and the bitmap grants, loses or releases frames of the pool,  *)
(* or leaves it as it is.                                                  *)
(***************************************************************************)

(* The frames free in the bitmap *)
Unmarked == {FrameOf(n) : n \in Bits \ bit_map}

(* Until the wrap, a frame in use is free nowhere else. *)
LEMMA UsedNotFree ==
  ASSUME OnceInv, ~wrapped
  PROVE  /\ (Elements(stack) \union held \union Transit) \intersect Unmarked = {}
         /\ Transit \intersect Elements(stack) = {}
         /\ Elements(stack) \union held \union Transit \subseteq Frames
<1> USE FrameAllocAssumption
<1>1. /\ \A f \in Elements(stack) \union held \union Transit :
           BitOf(f) \in bit_map /\ f >= START
      /\ Elements(stack) \intersect (held \union Transit) = {}
  BY DEF OnceInv, EachFrameOnce, KernelFramesSafe
<1>2. Elements(stack) \union held \union Transit \subseteq Frames
  <2>1. Elements(stack) \subseteq Frames
    <3>1. \A k \in 1 .. Len(stack) : stack[k] \in Frames
      BY ElementOfSeq DEF OnceInv, SearchInv, TypeOK
    <3>2. QED
      BY <3>1 DEF Elements
  <2>2. Transit \subseteq Frames
    <3>1. TypeOK
      BY DEF OnceInv, SearchInv
    <3>2. Popped \subseteq 0 .. PT_ENTRIES - 1
      BY <3>1 DEF TypeOK, Popped
    <3>3. \A k \in Popped : allocated_page_frames[k] \in Frames
      BY <3>1, <3>2 DEF TypeOK
    <3>4. QED
      BY <3>3 DEF Transit
  <2>3. QED
    BY <2>1, <2>2 DEF OnceInv, SearchInv, TypeOK
<1>3. ASSUME NEW n \in Bits, n \notin bit_map,
             FrameOf(n) \in Elements(stack) \union held \union Transit
      PROVE  FALSE
  <2>1. FrameOf(n) >= START
    BY <1>1, <1>3
  <2>2. START + n < TOTAL_PAGE_FRAME_NUMS
    BY <1>3, <2>1 DEF FrameOf, Bits, START
  <2>3. BitOf(FrameOf(n)) = n
    BY <1>3, <2>2, AddressProperties
  <2>4. QED
    BY <1>1, <1>3, <2>3
<1>4. QED
  BY <1>1, <1>2, <1>3 DEF Unmarked

(* A request takes at most MAX_REQUESTED_FRAMES frames. *)
LEMMA TransitSize ==
  ASSUME TypeOK
  PROVE  Cardinality(Transit) <= MAX_REQUESTED_FRAMES
<1> USE FrameAllocAssumption
<1> DEFINE last == IF pc \in {"scan", "refilled"} THEN i ELSE i - 1
           f == [k \in Popped |-> allocated_page_frames[k]]
<1>1. last \in Int /\ last + 1 <= PT_ENTRIES /\ last + 1 >= 0 /\ Popped = 0 .. last
  BY DEF TypeOK, Popped
<1>2. IsFiniteSet(Popped) /\ Cardinality(Popped) <= PT_ENTRIES
  <2> HIDE DEF last
  <2>1. 0 \in Int
    OBVIOUS
  <2>2. /\ IsFiniteSet(0 .. last)
        /\ Cardinality(0 .. last) = IF 0 > last THEN 0 ELSE last - 0 + 1
    BY <1>1, <2>1, FS_Interval
  <2>3. QED
    BY <1>1, <2>2
<1>3. f \in Surjection(Popped, Transit)
  BY DEF Surjection, Transit
<1>4. Cardinality(Transit) <= Cardinality(Popped)
  BY <1>2, <1>3, FS_Surjection
<1>5. IsFiniteSet(Transit)
  BY <1>2, <1>3, FS_Surjection
<1>6. Cardinality(Popped) \in Nat /\ Cardinality(Transit) \in Nat
  BY <1>2, <1>5, FS_CardinalityType
<1>7. QED
  BY <1>2, <1>4, <1>6

LEMMA InitPool == Init => Pool!Init
<1> SUFFICES ASSUME Init PROVE Pool!Init
  OBVIOUS
<1> USE FrameAllocAssumption
<1>1. OnceInv /\ held = {} /\ Transit = {} /\ ~wrapped
  <2>1. OnceInv
    BY InitOnce
  <2>2. held = {} /\ Transit = {} /\ ~wrapped
    BY DEF Init, Transit, Popped
  <2>3. QED
    BY <2>1, <2>2
<1>2. PoolFree \subseteq Frames
  <2>1. Unmarked \subseteq Frames
    BY AddressProperties DEF Unmarked
  <2>2. QED
    BY <1>1, <2>1, UsedNotFree DEF PoolFree, Unmarked
<1>3. ASSUME NEW f \in Frames PROVE f \in PoolFree
  <2>1. f \in Int
    BY DEF Frames
  <2>2. BitOf(f) \in Bits /\ FrameOf(BitOf(f)) = f
    BY <2>1 DEF BitOf, FrameOf, Bits, Frames, START
  <2>3. CASE BitOf(f) \in bit_map
    <3>1. BitOf(f) + 1 \in 1 .. PT_ENTRIES
      BY <2>2, <2>3 DEF Init, Bits
    <3>2. stack[BitOf(f) + 1] = FrameOf(BitOf(f))
      <4>1. PICK k \in 1 .. PT_ENTRIES : k = BitOf(f) + 1
        BY <3>1
      <4>2. k - 1 = BitOf(f)
        BY <2>2, <4>1 DEF Bits
      <4>3. stack[k] = FrameOf(k - 1)
        BY <4>1 DEF Init
      <4>4. QED
        BY <4>1, <4>2, <4>3
    <3>3. Len(stack) = PT_ENTRIES
      <4>1. stack \in Seq(Frames) /\ DOMAIN stack = 1 .. PT_ENTRIES
        BY <1>1 DEF OnceInv, SearchInv, TypeOK, Init
      <4>2. QED
        BY <4>1, LenProperties
    <3>4. QED
      BY <2>2, <3>1, <3>2, <3>3 DEF Elements, PoolFree
  <2>4. CASE BitOf(f) \notin bit_map
    BY <2>2, <2>4 DEF PoolFree
  <2>5. QED
    BY <2>3, <2>4
<1>4. QED
  BY <1>1, <1>2, <1>3 DEF Pool!Init

(* Until the wrap every step is one of FramePool's, and only a request that
   returns 0 changes which frames the pool and the callers have together.  *)
LEMMA StepPool ==
  ASSUME OnceInv, OnceInv', [Next]_vars
  PROVE  /\ [~wrapped' => Pool!Next]_<<PoolFree, held>>
         /\ ~wrapped' => Fail \/ UNCHANGED (PoolFree \union held)
<1> SUFFICES ASSUME ~wrapped'
             PROVE  \/ UNCHANGED <<PoolFree, held>>
                    \/ Pool!Next /\ (Fail \/ UNCHANGED (PoolFree \union held))
  OBVIOUS
<1> USE FrameAllocAssumption
<1>1. ~wrapped
  BY DEF Next, Step, Request, Pop, Return, TakeBit, SkipBit, Refilled, Fail,
         free_page_frame, vars, refill_vars, OnceInv, SearchInv, TypeOK
<1>2. TypeOK /\ PoolFree = Unmarked \union Elements(stack) \union Transit
  BY DEF OnceInv, SearchInv, PoolFree, Unmarked
<1>3. /\ (Elements(stack) \union held \union Transit) \intersect Unmarked = {}
      /\ Transit \intersect Elements(stack) = {}
      /\ Elements(stack) \union held \union Transit \subseteq Frames
  BY <1>1, UsedNotFree
<1>4. ASSUME NEW num \in 0 .. MAX_REQUESTED_FRAMES, Request(num)
      PROVE  UNCHANGED <<PoolFree, held>>
  <2>1. Transit = {} /\ Transit' = {} /\ UNCHANGED <<bit_map, stack, held>>
    BY <1>2, <1>4 DEF Request, refill_vars, Transit, Popped, TypeOK
  <2>2. QED
    BY <2>1 DEF PoolFree, Elements, FrameOf
<1>5. CASE Pop
  <2>1. pc = "alloc" /\ stack' = stack_rest(stack) /\ bit_map' = bit_map /\ held' = held
        /\ i < num_page_frames
    BY <1>5 DEF Pop
  <2>2. stack # <<>> /\ stack \in Seq(Frames)
    BY <1>1, <1>2, <2>1, NeverEmpty DEF OnceInv, TypeOK
  <2>3. Elements(stack) = Elements(stack)' \union {stack_top(stack)}
    <3>1. Elements(stack)' = Elements(stack_rest(stack))
      BY <2>1 DEF Elements
    <3>2. QED
      BY <2>2, <3>1, PopProperties
  <2>4. stack_top(stack) # STACK_OP_FAIL
    <3>1. stack_top(stack) >= START
      BY <1>1, <2>3 DEF OnceInv, KernelFramesSafe
    <3>2. START > 0 /\ stack_top(stack) \in Int
      BY <1>3, <2>3 DEF START, Frames
    <3>3. QED
      BY <3>1, <3>2 DEF START, STACK_OP_FAIL
  <2>5. allocated_page_frames' = [allocated_page_frames EXCEPT ![i] = stack_top(stack)]
    BY <1>5, <2>4 DEF Pop
  <2>6. Popped = 0 .. i - 1 /\ Popped' = 0 .. i /\ i \in Nat /\ i < PT_ENTRIES
    BY <1>2, <1>5 DEF Popped, Pop, TypeOK
  <2>7. Transit' = Transit \union {stack_top(stack)}
    <3>1. /\ \A k \in 0 .. i - 1 : allocated_page_frames'[k] = allocated_page_frames[k]
          /\ allocated_page_frames'[i] = stack_top(stack)
      BY <1>2, <2>5, <2>6 DEF TypeOK
    <3>2. /\ \A k \in 0 .. i : k = i \/ k \in 0 .. i - 1
          /\ \A k \in 0 .. i - 1 : k \in 0 .. i
          /\ i \in 0 .. i
      BY <2>6
    <3>3. QED
      BY <2>6, <3>1, <3>2 DEF Transit
  <2>8. PoolFree' = Unmarked \union Elements(stack)' \union Transit'
    BY <2>1 DEF PoolFree, Unmarked, FrameOf
  <2>9. QED
    BY <1>2, <2>1, <2>3, <2>7, <2>8
<1>6. CASE Return
  <2>1. /\ bit_map' = bit_map /\ stack' = stack
        /\ held' = held \union Transit /\ Transit' = {}
    BY <1>2, <1>6 DEF Return, refill_vars, Transit, Popped, TypeOK
  <2>2. PoolFree' = PoolFree \ Transit
    <3>1. PoolFree' = Unmarked \union Elements(stack)
      BY <2>1 DEF PoolFree, Unmarked, FrameOf, Elements
    <3>2. QED
      BY <1>2, <1>3, <3>1
  <2>3. Transit \in SUBSET PoolFree /\ Cardinality(Transit) <= MAX_REQUESTED_FRAMES
    BY <1>2, TransitSize
  <2>4. Pool!Grant(Transit)
    BY <2>1, <2>2 DEF Pool!Grant
  <2>5. Cardinality(Transit) = Pool!Cardinality(Transit)
    BY DEF Cardinality, Pool!Cardinality, IsFiniteSet, Pool!IsFiniteSet
  <2>6. UNCHANGED (PoolFree \union held)
    BY <2>1, <2>2, <2>3
  <2>7. QED
    BY <2>3, <2>4, <2>5, <2>6 DEF Pool!Next
<1>7. CASE TakeBit
  <2>1. /\ bit_map' = bit_map \union {scan} /\ stack' = stack_push(stack, FrameOf(scan))
        /\ held' = held /\ pc = "scan" /\ pc' \in {"scan", "refilled"} /\ scan \notin bit_map
        /\ UNCHANGED <<allocated_page_frames, i>>
    BY <1>7 DEF TakeBit, NextBit
  <2>2. scan \in Bits /\ FrameOf(scan) \in Frames
    BY <1>2, AddressProperties DEF TypeOK
  <2>3. Len(stack) < PT_ENTRIES /\ stack \in Seq(Frames)
    BY <1>2, <2>1 DEF OnceInv, SearchInv, TypeOK, RefillInv
  <2>4. Elements(stack)' = Elements(stack) \union {FrameOf(scan)}
    <3>1. Elements(stack)' = Elements(stack_push(stack, FrameOf(scan)))
      BY <2>1 DEF Elements
    <3>2. QED
      BY <2>2, <2>3, <3>1, PushProperties
  <2>5. Transit' = Transit
    BY <2>1 DEF Transit, Popped
  <2>6. PoolFree' = {FrameOf(n) : n \in Bits \ (bit_map \union {scan})}
                      \union Elements(stack)' \union Transit'
    BY <2>1 DEF PoolFree, FrameOf
  <2>7. Unmarked = {FrameOf(n) : n \in Bits \ (bit_map \union {scan})} \union {FrameOf(scan)}
    BY <2>1, <2>2 DEF Unmarked
  <2>8. QED
    BY <1>2, <2>1, <2>4, <2>5, <2>6, <2>7
<1>8. CASE SkipBit
  <2>1. /\ UNCHANGED <<bit_map, stack, held, allocated_page_frames, i>>
        /\ pc = "scan" /\ pc' \in {"scan", "refilled"}
    BY <1>8 DEF SkipBit, NextBit
  <2>2. QED
    BY <2>1 DEF PoolFree, Elements, FrameOf, Transit, Popped
<1>9. CASE Refilled
  <2>1. /\ UNCHANGED <<bit_map, stack, held, allocated_page_frames>>
        /\ pc = "refilled" /\ pc' = "alloc" /\ i' = i + 1 /\ i \in Int
    BY <1>2, <1>9 DEF Refilled, TypeOK
  <2>2. Popped' = Popped
    BY <2>1 DEF Popped
  <2>3. QED
    BY <2>1, <2>2 DEF PoolFree, Elements, FrameOf, Transit
<1>10. CASE Fail
  <2>1. /\ bit_map' = bit_map /\ stack' = stack /\ held' = held /\ Transit' = {}
    BY <1>10 DEF Fail, Transit, Popped
  <2>2. PoolFree' = PoolFree \ Transit
    <3>1. PoolFree' = Unmarked \union Elements(stack)
      BY <2>1 DEF PoolFree, Unmarked, FrameOf, Elements
    <3>2. QED
      BY <1>2, <1>3, <3>1
  <2>3. Transit \in SUBSET PoolFree /\ Cardinality(Transit) <= MAX_REQUESTED_FRAMES
    BY <1>2, TransitSize
  <2>4. Pool!Lose(Transit)
    BY <2>1, <2>2 DEF Pool!Lose
  <2>5. Cardinality(Transit) = Pool!Cardinality(Transit)
    BY DEF Cardinality, Pool!Cardinality, IsFiniteSet, Pool!IsFiniteSet
  <2>6. QED
    BY <1>10, <2>3, <2>4, <2>5 DEF Pool!Next
<1>11. ASSUME NEW f \in held, free_page_frame(f)
       PROVE  Pool!Next /\ UNCHANGED (PoolFree \union held)
  <2>1. /\ held' = held \ {f} /\ UNCHANGED <<allocated_page_frames, pc, i>>
        /\ f \in Frames /\ f >= START
    BY <1>1, <1>3, <1>11 DEF free_page_frame, OnceInv, KernelFramesSafe
  <2>2. Transit' = Transit
    BY <2>1 DEF Transit, Popped
  <2>3. PoolFree' = PoolFree \union {f}
    <3>1. CASE Len(stack) < PT_ENTRIES
      <4>1. stack' = stack_push(stack, f) /\ bit_map' = bit_map
        BY <1>11, <3>1 DEF free_page_frame
      <4>2. Elements(stack)' = Elements(stack) \union {f}
        <5>1. Elements(stack)' = Elements(stack_push(stack, f))
          BY <4>1 DEF Elements
        <5>2. stack \in Seq(Frames)
          BY <1>2 DEF TypeOK
        <5>3. QED
          BY <2>1, <3>1, <5>1, <5>2, PushProperties
      <4>3. PoolFree' = Unmarked \union Elements(stack)' \union Transit'
        BY <4>1 DEF PoolFree, Unmarked, FrameOf
      <4>4. QED
        BY <1>2, <2>2, <4>2, <4>3
    <3>2. CASE ~(Len(stack) < PT_ENTRIES)
      <4>1. stack' = stack /\ bit_map' = bit_map \ {BitOf(f)}
        BY <1>11, <3>2 DEF free_page_frame
      <4>2. BitOf(f) \in Bits /\ FrameOf(BitOf(f)) = f
        BY <2>1 DEF BitOf, FrameOf, Bits, Frames, START
      <4>3. PoolFree' = {FrameOf(n) : n \in Bits \ (bit_map \ {BitOf(f)})}
                          \union Elements(stack) \union Transit
        BY <2>2, <4>1 DEF PoolFree, FrameOf, Elements
      <4>4. {FrameOf(n) : n \in Bits \ (bit_map \ {BitOf(f)})} = Unmarked \union {f}
        BY <4>2 DEF Unmarked
      <4>5. QED
        BY <1>2, <4>3, <4>4
    <3>3. QED
      BY <3>1, <3>2
  <2>4. UNCHANGED (PoolFree \union held)
    BY <1>11, <2>1, <2>3
  <2>5. QED
    BY <2>1, <2>3, <2>4 DEF Pool!Next, Pool!Release
<1>12. CASE UNCHANGED vars
  BY <1>12 DEF vars, refill_vars, PoolFree, Elements, FrameOf, Transit, Popped
<1>13. QED
  BY <1>4, <1>5, <1>6, <1>7, <1>8, <1>9, <1>10, <1>11, <1>12 DEF Next, Step

(* pf_allocate_frames and free_page_frame together keep what FramePool promises:
   until a refill takes a bit whose address wraps, a request is given frames that
   were free, a failing one may lose them, and a free gives back one frame.  *)
THEOREM Refinement == Spec => RefinesFramePool
<1>1. Init => Pool!Init
  BY InitPool
<1>2. OnceInv /\ OnceInv' /\ [Next]_vars => [~wrapped' => Pool!Next]_<<PoolFree, held>>
  BY StepPool
<1>3. QED
  BY InitOnce, StepOnce, <1>1, <1>2, PTL DEF Spec, RefinesFramePool

(* Until the wrap the lost frames are those that neither the pool nor a caller
   has: FrameOf takes the marked bits to exactly the frames it does not take a
   free bit to.  *)
LEMMA LostFrames ==
  ASSUME OnceInv, ~wrapped
  PROVE  Lost = Frames \ (PoolFree \union held)
<1> DEFINE Marked == {FrameOf(n) : n \in bit_map}
<1> USE FrameAllocAssumption
<1>1. bit_map \subseteq Bits
  BY DEF OnceInv, SearchInv, TypeOK
<1>2. Marked \subseteq Frames
  BY <1>1, AddressProperties
<1>3. ASSUME NEW m \in Bits, NEW n \in Bits, FrameOf(m) = FrameOf(n)
      PROVE  m = n
  BY <1>3 DEF FrameOf, Bits, START
<1>4. Marked \intersect Unmarked = {}
  BY <1>1, <1>3 DEF Unmarked
<1>5. ASSUME NEW f \in Frames PROVE f \in Marked \union Unmarked
  <2>1. BitOf(f) \in Bits /\ FrameOf(BitOf(f)) = f
    BY DEF BitOf, FrameOf, Bits, Frames, START
  <2>2. QED
    BY <2>1 DEF Unmarked
<1>6. Lost = Marked \ (Elements(stack) \union held \union Transit)
  BY DEF Lost
<1>7. PoolFree = Unmarked \union Elements(stack) \union Transit
  BY DEF PoolFree, Unmarked
<1>8. QED
  <2> HIDE DEF Marked
  <2>1. QED
    BY <1>2, <1>4, <1>5, <1>6, <1>7

(* No push onto a full stack, no pop, no refill and no free ever loses a frame:
   until the wrap, only pf_allocate_frames returning 0 does, with the frames it
   had already popped.  *)
THEOREM NothingLostSilently == Spec => NoSilentLoss
<1> DEFINE Accounted == wrapped \/ Lost = Frames \ (PoolFree \union held)
<1>1. OnceInv => Accounted
  BY LostFrames
<1>2. ASSUME OnceInv, OnceInv', Accounted, Accounted', [Next]_vars
      PROVE  [~wrapped' /\ Lost' # Lost => pc = "refilled" /\ pc' = "idle"]_vars
  <2> SUFFICES ASSUME ~wrapped', ~Fail PROVE Lost' = Lost
    BY DEF Fail
  <2>1. ~wrapped
    BY <1>2 DEF Next, Step, Request, Pop, Return, TakeBit, SkipBit, Refilled,
                free_page_frame, vars, refill_vars, OnceInv, SearchInv, TypeOK
  <2>2. UNCHANGED (PoolFree \union held)
    BY <1>2, StepPool
  <2>3. QED
    BY <1>2, <2>1, <2>2 DEF Frames
<1>3. QED
  BY InitOnce, StepOnce, <1>1, <1>2, PTL DEF Spec, NoSilentLoss

===============================================================================
