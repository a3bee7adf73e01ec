----------------------------- MODULE PagingProofs -----------------------------
(***************************************************************************)
(* Theorems about Paging, for tables and memories of every size.           *)
(*                                                                         *)
(* A lemma per function of paging.c says what it returns and what it       *)
(* changes, entry by entry; the invariants follow from these.              *)
(***************************************************************************)
EXTENDS Paging, SequenceTheorems, WellFoundedInduction, TLAPS

PTE == [present : BOOLEAN, rw : BOOLEAN, user : BOOLEAN, frame : Frames]
Notes == {"stale", "ghost", "stray", "full"}
Allocatable == Frames \ {KERNEL_PT}

(* What the functions of paging.c are called on and return *)
State ==
  [mem : [Frames -> [Idx -> PTE]], tlb : Frames \union {NoFrame},
   pool : Seq(Allocatable), array : [0 .. HEAP_PAGES - 1 -> Frames],
   res : Nat, seen : SUBSET Notes]

(***************************************************************************)
(* Addresses and the constants.                                            *)
(***************************************************************************)

(* A page number below the square of the table size has an entry of a directory and
   one of a table.  *)
LEMMA AddressParts ==
  ASSUME NEW v \in VPages
  PROVE  /\ GET_PD_IDX(v) \in Idx /\ GET_PT_IDX(v) \in Idx
         /\ v = GET_PD_IDX(v) * PT_ENTRIES + GET_PT_IDX(v)
<1> DEFINE n == PT_ENTRIES
<1>1. n \in Nat \ {0} /\ v \in Nat /\ v < n * n
  BY PagingAssumption DEF VPages
<1>2. /\ v \div n \in Nat /\ v % n \in 0 .. n - 1
      /\ v = n * (v \div n) + (v % n)
  BY <1>1
<1>3. v \div n < n
  <2>1. SUFFICES ASSUME v \div n >= n PROVE FALSE
    BY <1>1, <1>2
  <2>2. n * (v \div n) >= n * n
    BY <2>1, <1>1, <1>2
  <2> QED
    BY <2>2, <1>1, <1>2
<1> QED
  BY <1>1, <1>2, <1>3 DEF GET_PD_IDX, GET_PT_IDX, Idx

(* An entry of a directory and one of a table make a page, with these parts. *)
LEMMA AddressOfParts ==
  ASSUME NEW d \in Idx, NEW t \in Idx
  PROVE  /\ d * PT_ENTRIES + t \in VPages
         /\ GET_PD_IDX(d * PT_ENTRIES + t) = d
         /\ GET_PT_IDX(d * PT_ENTRIES + t) = t
<1> DEFINE n == PT_ENTRIES
           v == d * n + t
<1>1. n \in Nat \ {0} /\ d \in 0 .. n - 1 /\ t \in 0 .. n - 1
  BY PagingAssumption DEF Idx
<1>2. v \in Nat /\ v < n * n
  <2>1. d * n \in Nat /\ d * n <= (n - 1) * n
    BY <1>1
  <2> QED
    BY <2>1, <1>1
<1>3. v \div n \in Nat /\ v % n \in 0 .. n - 1 /\ v = n * (v \div n) + (v % n)
  BY <1>1, <1>2
<1>4. v \div n = d
  <2>1. CASE v \div n < d
    <3>1. n * (v \div n) + n <= n * d
      BY <2>1, <1>1, <1>3
    <3> QED
      BY <3>1, <1>1, <1>3
  <2>2. CASE v \div n > d
    <3>1. n * (v \div n) >= n * d + n
      BY <2>2, <1>1, <1>3
    <3> QED
      BY <3>1, <1>1, <1>3
  <2> QED
    BY <2>1, <2>2, <1>1, <1>3
<1>5. v % n = t
  BY <1>1, <1>3, <1>4
<1> QED
  BY <1>1, <1>2, <1>4, <1>5 DEF VPages, GET_PD_IDX, GET_PT_IDX

(* What the assumption on the constants comes to *)
LEMMA Constants ==
  /\ PT_ENTRIES \in Nat /\ PT_ENTRIES >= 3 /\ HEAP_PAGES \in Nat \ {0}
  /\ KERNEL_PT_PDT_IDX \in Idx \ {0} /\ KERNEL_TMP_PT_IDX \in Idx \ {0}
  /\ KERNEL_PT_PDT_IDX < KERNEL_TMP_PT_IDX
  /\ KERNEL_PD \in Frames /\ KERNEL_PT \in Frames /\ KERNEL_PD # KERNEL_PT
  /\ KERNEL_PD # 0 /\ KERNEL_PT # 0 /\ 0 \in Frames
  /\ KERNEL_PD < START /\ KERNEL_PT < START /\ START \in Nat \ {0} /\ START < TOTAL_FRAMES
  /\ TOTAL_FRAMES \in Nat /\ Idx \subseteq Frames
  /\ KERNEL_TEMP_VADDR \in Nat /\ KERNEL_TEMP_VADDR \in VPages \intersect Allocatable
  /\ ARRAY_PAGE \in Allocatable
  /\ NoFrame \notin Frames /\ 0 \in Idx
<1> DEFINE n == PT_ENTRIES  k == KERNEL_PT_PDT_IDX
<1>1. n \in Nat \ {0, 1} /\ k \in 1 .. n - 2 /\ n >= 3
      /\ HEAP_PAGES \in Nat \ {0} /\ START \in 1 .. n
      /\ KERNEL_PD \in 1 .. START - 1 /\ KERNEL_PT \in 1 .. START - 1 /\ KERNEL_PD # KERNEL_PT
  BY PagingAssumption
<1>2. k \in Idx \ {0} /\ n - 1 \in Idx \ {0} /\ k < n - 1 /\ 0 \in Idx
  BY <1>1 DEF Idx
<1>3. k * n >= n /\ k * n \in Nat
  BY <1>1
<1>4. KERNEL_TEMP_VADDR \in Nat /\ KERNEL_TEMP_VADDR >= n
  BY <1>1, <1>3 DEF KERNEL_TEMP_VADDR, KERNEL_TMP_PT_IDX
<1>5. n * n \in Nat
  BY <1>1
<1>6. TOTAL_FRAMES \in Nat /\ TOTAL_FRAMES > KERNEL_TEMP_VADDR
  BY <1>4, <1>5, PagingAssumption
<1>7. KERNEL_TEMP_VADDR \in VPages
  BY <1>2, AddressOfParts DEF KERNEL_TEMP_VADDR, KERNEL_TMP_PT_IDX
<1>8. ARRAY_PAGE \in Frames /\ ARRAY_PAGE >= n
  <2>1. ARRAY_PAGE \in VPages /\ ARRAY_PAGE \in Frames /\ GET_PD_IDX(ARRAY_PAGE) = k
    BY PagingAssumption
  <2>2. ARRAY_PAGE = k * n + GET_PT_IDX(ARRAY_PAGE) /\ GET_PT_IDX(ARRAY_PAGE) \in Idx
    BY <2>1, AddressParts
  <2> QED
    BY <2>1, <2>2, <1>1, <1>3 DEF Idx
<1> QED
  BY <1>1, <1>2, <1>4, <1>6, <1>7, <1>8 DEF Idx, Frames, Allocatable, NoFrame, KERNEL_TMP_PT_IDX

(* The first number of a set is one of them. *)
LEMMA FirstProperties ==
  ASSUME NEW S \in SUBSET Nat, S # {}
  PROVE  First(S) \in S /\ \A y \in S : First(S) <= y
<1> DEFINE R == {p \in Nat \X Nat : p[1] < p[2]}
<1>1. R = OpToRel(<, Nat)
  BY DEF OpToRel
<1>2. IsWellFoundedOn(R, Nat)
  BY <1>1, NatLessThanWellFounded
<1>3. \A y, x \in Nat : y < x => <<y, x>> \in R
  OBVIOUS
<1> HIDE DEF R
<1>4. PICK x \in S : \A y \in S : ~ (<<y, x>> \in R)
  BY <1>2, WFMin
<1>5. ASSUME NEW y \in S PROVE x <= y
  <2>1. x \in Nat /\ y \in Nat
    OBVIOUS
  <2>2. ~ (y < x)
    BY <1>3, <1>4, <2>1, Zenon
  <2> QED
    BY <2>1, <2>2
<1> QED
  BY <1>4, <1>5 DEF First

(***************************************************************************)
(* pf_allocate_frames.                                                     *)
(***************************************************************************)

(* A request only takes frames off the top of the stack; when it is granted they are
   what the static array then begins with.  *)
LEMMA PfAllocateProperties ==
  ASSUME NEW s \in State, NEW n \in 1 .. HEAP_PAGES
  PROVE  LET a == pf_allocate_frames(s, n) IN
         /\ a \in State
         /\ a.mem = s.mem /\ a.tlb = s.tlb /\ a.seen = s.seen /\ a.res \in {0, 1}
         /\ Len(a.pool) <= Len(s.pool)
         /\ \A k \in 1 .. Len(a.pool) : a.pool[k] = s.pool[k]
         /\ \A k \in n .. HEAP_PAGES - 1 : a.array[k] = s.array[k]
         /\ a.res # 0 =>
              /\ Len(s.pool) > n /\ Len(a.pool) = Len(s.pool) - n
              /\ \A k \in 0 .. n - 1 : a.array[k] = s.pool[Len(s.pool) - k]
<1> DEFINE top == Len(s.pool)
           popped == IF top <= n THEN top ELSE IF s.pool[top] = unlucky THEN 1 ELSE n
           pl == SubSeq(s.pool, 1, top - popped)
           arr == [k \in DOMAIN s.array |-> IF k < popped THEN s.pool[top - k] ELSE s.array[k]]
           r == IF top <= n \/ s.pool[top] = unlucky THEN 0 ELSE 1
           a == pf_allocate_frames(s, n)
<1>1. /\ s.pool \in Seq(Allocatable) /\ top \in Nat
      /\ s.array \in [0 .. HEAP_PAGES - 1 -> Frames]
      /\ s.mem \in [Frames -> [Idx -> PTE]] /\ s.tlb \in Frames \union {NoFrame}
      /\ s.seen \in SUBSET Notes
  BY LenProperties DEF State
<1>2. a = [mem |-> s.mem, tlb |-> s.tlb, pool |-> pl, array |-> arr, res |-> r,
           seen |-> s.seen]
  <2>1. s = [mem |-> s.mem, tlb |-> s.tlb, pool |-> s.pool, array |-> s.array,
             res |-> s.res, seen |-> s.seen]
    BY DEF State
  <2>2. a = [s EXCEPT !.pool = pl, !.array = arr, !.res = r]
    BY Zenon DEF pf_allocate_frames
  <2> HIDE DEF pl, arr, r, a
  <2> QED
    BY <2>1, <2>2
<1>3. n \in Nat \ {0} /\ HEAP_PAGES \in Nat /\ popped \in 0 .. top /\ popped <= n
  BY <1>1, Constants
<1>4. /\ pl \in Seq(Allocatable) /\ Len(pl) = top - popped
      /\ \A k \in 1 .. top - popped : pl[k] = s.pool[k]
  <2>1. \A k \in 1 .. top - popped : s.pool[k] \in Allocatable
    BY <1>1, <1>3, ElementOfSeq
  <2>2. 1 \in Int /\ top - popped \in Int
    BY <1>1, <1>3
  <2> HIDE DEF top, popped
  <2>3. /\ pl \in Seq(Allocatable)
        /\ Len(pl) = IF 1 <= top - popped THEN top - popped - 1 + 1 ELSE 0
        /\ \A k \in 1 .. top - popped - 1 + 1 : pl[k] = s.pool[1 + k - 1]
    BY <2>1, <2>2, SubSeqProperties
  <2> QED
    BY <2>3, <1>1, <1>3
<1>5. /\ arr \in [0 .. HEAP_PAGES - 1 -> Frames]
      /\ \A k \in 0 .. HEAP_PAGES - 1 : arr[k] = IF k < popped THEN s.pool[top - k] ELSE s.array[k]
  <2>1. \A k \in 0 .. HEAP_PAGES - 1 : k < popped => s.pool[top - k] \in Frames
    <3>1. SUFFICES ASSUME NEW k \in 0 .. HEAP_PAGES - 1, k < popped
                   PROVE  s.pool[top - k] \in Frames
      OBVIOUS
    <3>2. top - k \in 1 .. top
      BY <3>1, <1>1, <1>3
    <3> QED
      BY <3>2, <1>1, ElementOfSeq DEF Allocatable
  <2>2. DOMAIN s.array = 0 .. HEAP_PAGES - 1
    BY <1>1
  <2> QED
    BY <2>1, <2>2, <1>1
<1>6. r \in {0, 1} /\ (r # 0 => top > n /\ popped = n)
  BY <1>1, <1>3
<1> HIDE DEF top, popped, pl, arr, r
<1>7. a \in State
  BY <1>1, <1>2, <1>4, <1>5, <1>6 DEF State
<1>8. \A k \in n .. HEAP_PAGES - 1 : arr[k] = s.array[k]
  BY <1>3, <1>5
<1>9. r # 0 => \A k \in 0 .. n - 1 : arr[k] = s.pool[top - k]
  BY <1>3, <1>5, <1>6
<1> QED
  BY <1>1, <1>2, <1>3, <1>4, <1>6, <1>7, <1>8, <1>9 DEF top

(***************************************************************************)
(* The temporary slot.                                                     *)
(***************************************************************************)

Slot(s) == kernel_get_temporary_entry(s)

(* The TLB has the slot's translation or none. *)
Coherent(s) == s.tlb = NoFrame \/ s.tlb = Slot(s).frame

(* Whether x of frame f is the slot *)
IsSlot(f, x) == f = KERNEL_PT /\ x = KERNEL_TMP_PT_IDX

Memory == [Frames -> [Idx -> PTE]]

(* Memory with one entry replaced, and a state with the memory and the TLB replaced *)
Put(m, f, x, e) == [m EXCEPT ![f] = [m[f] EXCEPT ![x] = e]]
With(s, m, t, r) ==
  [mem |-> m, tlb |-> t, pool |-> s.pool, array |-> s.array, res |-> r, seen |-> s.seen]

(* Put replaces that entry only. *)
LEMMA PutProperties ==
  ASSUME NEW m \in Memory, NEW f \in Frames, NEW x \in Idx, NEW e \in PTE
  PROVE  /\ Put(m, f, x, e) \in Memory
         /\ Put(m, f, x, e)[f][x] = e
         /\ \A g \in Frames, y \in Idx : ~(g = f /\ y = x) => Put(m, f, x, e)[g][y] = m[g][y]
         /\ \A g \in Frames : g # f => Put(m, f, x, e)[g] = m[g]
<1>1. m[f] \in [Idx -> PTE]
  BY DEF Memory
<1>2. [m[f] EXCEPT ![x] = e] \in [Idx -> PTE]
  BY <1>1
<1> QED
  BY <1>1, <1>2 DEF Put, Memory

(* A state is its six parts. *)
LEMMA StateParts ==
  ASSUME NEW s \in State
  PROVE  /\ s = With(s, s.mem, s.tlb, s.res)
         /\ s.mem \in Memory /\ s.tlb \in Frames \union {NoFrame} /\ s.pool \in Seq(Allocatable)
         /\ s.array \in [0 .. HEAP_PAGES - 1 -> Frames] /\ s.res \in Nat /\ s.seen \in SUBSET Notes
         /\ Slot(s) \in PTE /\ Slot(s).frame \in Frames
         /\ \A m \in Memory, t \in Frames \union {NoFrame}, r \in Nat : With(s, m, t, r) \in State
<1>1. s = With(s, s.mem, s.tlb, s.res)
  BY DEF State, With
<1>2. /\ s.mem \in Memory /\ s.tlb \in Frames \union {NoFrame} /\ s.pool \in Seq(Allocatable)
      /\ s.array \in [0 .. HEAP_PAGES - 1 -> Frames] /\ s.res \in Nat /\ s.seen \in SUBSET Notes
  BY DEF State, Memory
<1>3. Slot(s) \in PTE /\ Slot(s).frame \in Frames
  <2>1. Slot(s) \in PTE
    BY <1>2, Constants DEF Memory, Slot, kernel_get_temporary_entry
  <2> QED
    BY <2>1 DEF PTE
<1>4. \A m \in Memory, t \in Frames \union {NoFrame}, r \in Nat : With(s, m, t, r) \in State
  BY <1>2 DEF State, With, Memory
<1> QED
  BY <1>1, <1>2, <1>3, <1>4

(* Giving the slot back empties the TLB. *)
LEMMA SetSlot ==
  ASSUME NEW s \in State, NEW e \in PTE
  PROVE  LET a == kernel_set_temporary_entry(s, e) IN
         /\ a = With(s, Put(s.mem, KERNEL_PT, KERNEL_TMP_PT_IDX, e), NoFrame, s.res)
         /\ a \in State /\ Slot(a) = e /\ Coherent(a)
<1> DEFINE a == kernel_set_temporary_entry(s, e)
           m == Put(s.mem, KERNEL_PT, KERNEL_TMP_PT_IDX, e)
<1>1. a = With(s, m, NoFrame, s.res)
  <2>1. s = With(s, s.mem, s.tlb, s.res)
    BY StateParts
  <2>2. a = [[s EXCEPT !.mem[KERNEL_PT][KERNEL_TMP_PT_IDX] = e] EXCEPT !.tlb = NoFrame]
    BY Zenon DEF kernel_set_temporary_entry, flush_tlb_entry
  <2> HIDE DEF a
  <2> QED
    BY <2>1, <2>2 DEF With, Put
<1>2. m \in Memory /\ m[KERNEL_PT][KERNEL_TMP_PT_IDX] = e
  BY StateParts, Constants, PutProperties
<1>3. a \in State
  <2>1. With(s, m, NoFrame, s.res) \in State
    BY <1>2, StateParts
  <2> QED
    BY <1>1, <2>1
<1>4. a.mem = m /\ a.tlb = NoFrame
  BY <1>1 DEF With
<1> QED
  BY <1>1, <1>2, <1>3, <1>4 DEF Slot, kernel_get_temporary_entry, Coherent

(* The slot's entry with another frame *)
Pointing(s, f) == [Slot(s) EXCEPT !.present = TRUE, !.rw = TRUE, !.frame = f]

(* So does taking it. *)
LEMMA TempMap ==
  ASSUME NEW s \in State, NEW f \in Frames
  PROVE  LET a == temp_map_page(s, f) IN
         /\ a = With(s, Put(s.mem, KERNEL_PT, KERNEL_TMP_PT_IDX, Pointing(s, f)), NoFrame,
                     KERNEL_TEMP_VADDR)
         /\ Pointing(s, f) \in PTE
         /\ a \in State /\ Slot(a) = Pointing(s, f) /\ Slot(a).frame = f /\ Coherent(a)
<1> DEFINE a == temp_map_page(s, f)
           e == Pointing(s, f)
           m == Put(s.mem, KERNEL_PT, KERNEL_TMP_PT_IDX, e)
<1>1. Slot(s) \in PTE
  BY StateParts
<1>2. e \in PTE /\ e.frame = f
  BY <1>1 DEF Pointing, PTE
<1>4. a = With(s, m, NoFrame, KERNEL_TEMP_VADDR)
  <2>1. s = With(s, s.mem, s.tlb, s.res)
    BY StateParts
  <2>2. a = [[[s EXCEPT !.mem[KERNEL_PT][KERNEL_TMP_PT_IDX] =
                [@ EXCEPT !.present = TRUE, !.rw = TRUE, !.frame = f]]
               EXCEPT !.tlb = NoFrame] EXCEPT !.res = KERNEL_TEMP_VADDR]
    BY Zenon DEF temp_map_page, flush_tlb_entry
  <2>3. [s EXCEPT !.mem[KERNEL_PT][KERNEL_TMP_PT_IDX] =
                [@ EXCEPT !.present = TRUE, !.rw = TRUE, !.frame = f]]
        = With(s, m, s.tlb, s.res)
    BY <2>1 DEF With, Put, Pointing, Slot, kernel_get_temporary_entry
  <2> HIDE DEF a, m
  <2>4. a = [[With(s, m, s.tlb, s.res) EXCEPT !.tlb = NoFrame] EXCEPT !.res = KERNEL_TEMP_VADDR]
    BY <2>2, <2>3
  <2> QED
    BY <2>4 DEF With
<1>5. m \in Memory /\ m[KERNEL_PT][KERNEL_TMP_PT_IDX] = e
  BY <1>2, StateParts, Constants, PutProperties
<1>6. a \in State
  <2>1. With(s, m, NoFrame, KERNEL_TEMP_VADDR) \in State
    BY <1>5, StateParts, Constants
  <2> QED
    BY <1>4, <2>1
<1>7. a.mem = m /\ a.tlb = NoFrame
  BY <1>4 DEF With
<1> QED
  BY <1>2, <1>4, <1>5, <1>6, <1>7 DEF Slot, kernel_get_temporary_entry, Coherent

(* With a coherent TLB an access goes where the slot's entry says and leaves the TLB
   coherent and nothing noted.  *)
LEMMA SlotAccess ==
  ASSUME NEW s \in State, Coherent(s), NEW table \in [Idx -> PTE]
  PROVE  LET f == Slot(s).frame
             a == WriteTemp(s, table)
         IN
         /\ Access(s) = With(s, s.mem, f, s.res) /\ Access(s) \in State
         /\ Slot(Access(s)) = Slot(s) /\ Coherent(Access(s))
         /\ ReadTemp(s) = s.mem[f] /\ ReadTemp(s) \in [Idx -> PTE]
         /\ a = With(s, [s.mem EXCEPT ![f] = table], f, s.res)
         /\ a \in State
         /\ f # KERNEL_PT => Slot(a) = Slot(s) /\ Coherent(a)
<1> DEFINE f == Slot(s).frame
           m == [s.mem EXCEPT ![f] = table]
<1>1. s = With(s, s.mem, s.tlb, s.res) /\ f \in Frames /\ s.mem \in Memory /\ s.res \in Nat
  BY StateParts
<1>2. Access(s) = With(s, s.mem, f, s.res)
  <2>1. Access(s) = [s EXCEPT !.tlb = f, !.seen = s.seen]
    BY Constants, <1>1 DEF Access, Coherent, Slot
  <2> QED
    BY <1>1, <2>1 DEF With
<1>3. Access(s) \in State /\ Access(s).tlb = f /\ Access(s).mem = s.mem
  <2>1. With(s, s.mem, f, s.res) \in State
    BY <1>1, StateParts
  <2> QED
    BY <1>2, <2>1 DEF With
<1>4. ReadTemp(s) = s.mem[f] /\ ReadTemp(s) \in [Idx -> PTE]
  BY <1>1, <1>3 DEF ReadTemp, Memory
<1>5. Slot(Access(s)) = Slot(s) /\ Coherent(Access(s))
  BY <1>3 DEF Slot, kernel_get_temporary_entry, Coherent
<1>6. WriteTemp(s, table) = With(s, m, f, s.res)
  <2>1. WriteTemp(s, table) = [Access(s) EXCEPT !.mem[Access(s).tlb] = table]
    BY DEF WriteTemp
  <2>2. WriteTemp(s, table) = [With(s, s.mem, f, s.res) EXCEPT !.mem[f] = table]
    BY <2>1, <1>2, <1>3
  <2> QED
    BY <2>2 DEF With
<1>7. m \in Memory
  BY <1>1 DEF Memory
<1>8. WriteTemp(s, table) \in State /\ WriteTemp(s, table).mem = m /\ WriteTemp(s, table).tlb = f
  <2>1. With(s, m, f, s.res) \in State
    BY <1>1, <1>7, StateParts
  <2> QED
    BY <1>6, <2>1 DEF With
<1>9. f # KERNEL_PT => m[KERNEL_PT] = s.mem[KERNEL_PT]
  BY <1>1, Constants DEF Memory
<1> QED
  BY <1>2, <1>3, <1>4, <1>5, <1>6, <1>8, <1>9 DEF Slot, kernel_get_temporary_entry, Coherent

(* Reading and writing at the temporary address, each on its own. *)
LEMMA ReadSlot ==
  ASSUME NEW s \in State, Coherent(s)
  PROVE  ReadTemp(s) = s.mem[Slot(s).frame] /\ ReadTemp(s) \in [Idx -> PTE]
<1>1. s.mem[KERNEL_PT] \in [Idx -> PTE]
  BY StateParts, Constants DEF Memory
<1>2. PICK table : table \in [Idx -> PTE]
  BY <1>1
<1>3. QED
  BY <1>2, SlotAccess

LEMMA WriteSlot ==
  ASSUME NEW s \in State, Coherent(s), NEW f, f = Slot(s).frame, NEW table \in [Idx -> PTE]
  PROVE  /\ WriteTemp(s, table) = With(s, [s.mem EXCEPT ![f] = table], f, s.res)
         /\ WriteTemp(s, table) \in State
BY SlotAccess

(***************************************************************************)
(* map_page.                                                               *)
(***************************************************************************)

(* The changes the source makes to an entry *)
LEMMA EntryEdits ==
  ASSUME NEW p \in PTE, NEW f \in Frames, NEW u \in BOOLEAN
  PROVE  /\ SetWritable(p, u) \in PTE
         /\ SetWritable(p, u).present = p.present /\ SetWritable(p, u).frame = p.frame
         /\ SetPresent(p, u) \in PTE
         /\ SetPresent(p, u).present /\ SetPresent(p, u).frame = p.frame
         /\ SetPage(p, f) \in PTE /\ SetPage(p, f).present /\ SetPage(p, f).frame = f
BY DEF PTE, SetWritable, SetPresent, SetPage

(* A table with its first entry and that of a page replaced, as map_page does *)
Edited(pt, t, f, u) == [[pt EXCEPT ![0] = SetPresent(@, u)] EXCEPT ![t] = SetPage(@, f)]

(* The entry of the page gets its frame, and the first one keeps its own. *)
LEMMA TwoEdits ==
  ASSUME NEW pt \in [Idx -> PTE], NEW t \in Idx, NEW f \in Frames, NEW u \in BOOLEAN
  PROVE  LET q == Edited(pt, t, f, u)
         IN /\ q \in [Idx -> PTE]
            /\ \A x \in Idx \ {0, t} : q[x] = pt[x]
            /\ q[t].present /\ q[t].frame = f
            /\ q[0].present /\ (t # 0 => q[0].frame = pt[0].frame)
<1> DEFINE e == SetPresent(pt[0], u)
           p1 == [pt EXCEPT ![0] = e]
           g == SetPage(p1[t], f)
           q == [p1 EXCEPT ![t] = g]
<1>1. 0 \in Idx /\ pt[0] \in PTE
  BY Constants
<1>2. e \in PTE /\ e.present /\ e.frame = pt[0].frame
  BY <1>1, EntryEdits
<1>3. p1 \in [Idx -> PTE] /\ p1[0] = e /\ (\A x \in Idx \ {0} : p1[x] = pt[x]) /\ p1[t] \in PTE
  BY <1>1, <1>2
<1>4. g \in PTE /\ g.present /\ g.frame = f
  BY <1>3, EntryEdits
<1>5. Edited(pt, t, f, u) = q
  BY DEF Edited
<1> HIDE DEF e, p1, g
<1>6. q \in [Idx -> PTE] /\ q[t] = g /\ \A x \in Idx \ {t} : q[x] = p1[x]
  BY <1>3, <1>4
<1> HIDE DEF q
<1>7. q[0].present /\ (t # 0 => q[0].frame = pt[0].frame)
  BY <1>1, <1>2, <1>3, <1>4, <1>6
<1>8. \A x \in Idx \ {0, t} : q[x] = pt[x]
  BY <1>3, <1>6
<1> QED
  BY <1>4, <1>5, <1>6, <1>7, <1>8

(* The branch for a table that is there changes the entry of the directory, the first
   of the table and the one of the page, and the frame of the last only.  *)
MappedInOldTable(s, pd, fr, v, out) ==
  LET d == GET_PD_IDX(v)
      t == GET_PT_IDX(v)
      T == s.mem[pd][d].frame
  IN
  /\ out \in State /\ Coherent(out) /\ Slot(out) = Slot(s)
  /\ out.pool = s.pool /\ out.array = s.array /\ out.res = 1
  /\ s.seen \subseteq out.seen /\ ("stale" \in out.seen => "stale" \in s.seen)
  /\ s.mem[pd][d] = Junk /\ pd # KERNEL_PD => "stray" \in out.seen
  /\ \A f \in Frames, x \in Idx :
       ~(f = pd /\ x = d) /\ ~(f = T /\ x \in {0, t}) => out.mem[f][x] = s.mem[f][x]
  /\ T # pd =>
       /\ out.mem[pd][d].present = s.mem[pd][d].present /\ out.mem[pd][d].frame = T
       /\ out.mem[T][0].present
       /\ ~IsSlot(T, t) => out.mem[T][t].present /\ out.mem[T][t].frame = fr
       /\ t # 0 => out.mem[T][0].frame = s.mem[T][0].frame
       /\ t # 0 /\ ~s.mem[T][0].present => "ghost" \in out.seen

(* MapInOldTable does so. *)
LEMMA MapInOldTableEffect ==
  ASSUME NEW s \in State, NEW pd \in Frames, NEW fr \in Frames, NEW v \in VPages,
         NEW u \in BOOLEAN, ~IsSlot(pd, GET_PD_IDX(v))
  PROVE  MappedInOldTable(s, pd, fr, v, MapInOldTable(s, pd, fr, v, u))
<1> DEFINE d == GET_PD_IDX(v)
           t == GET_PT_IDX(v)
           pde == s.mem[pd][d]
           T == pde.frame
           pde2 == SetWritable(pde, u)
           m1 == Put(s.mem, pd, d, pde2)
           a == With(s, m1, s.tlb, s.res)
           b == temp_map_page(a, T)
           pt == ReadTemp(b)
           pt2 == Edited(pt, t, fr, u)
           c == WriteTemp(b, pt2)
           r == kernel_set_temporary_entry(c, Slot(a))
           notes == {x \in {"ghost"} : ~pt[0].present /\ t # 0}
                 \union {x \in {"stray"} : pde = Junk /\ pd # KERNEL_PD}
           out == MapInOldTable(s, pd, fr, v, u)
<1>1. d \in Idx /\ t \in Idx
  BY AddressParts
<1>2. /\ s = With(s, s.mem, s.tlb, s.res) /\ s.mem \in Memory /\ s.seen \in SUBSET Notes
      /\ s.tlb \in Frames \union {NoFrame} /\ s.res \in Nat
      /\ s.pool \in Seq(Allocatable) /\ s.array \in [0 .. HEAP_PAGES - 1 -> Frames]
  BY StateParts
<1>3. pde \in PTE /\ T \in Frames
  BY <1>1, <1>2 DEF Memory, PTE
<1>4. pde2 \in PTE /\ pde2.present = pde.present /\ pde2.frame = T
  BY <1>3, EntryEdits
<1>5. /\ m1 \in Memory /\ m1[pd][d] = pde2
      /\ \A g \in Frames, y \in Idx : ~(g = pd /\ y = d) => m1[g][y] = s.mem[g][y]
  <2> HIDE DEF pde, pde2, d
  <2>1. pd \in Frames /\ d \in Idx /\ pde2 \in PTE /\ s.mem \in Memory
    BY <1>1, <1>2, <1>4
  <2> QED
    BY <2>1, PutProperties
<1>6. [s EXCEPT !.mem[pd][d] = SetWritable(@, u)] = a
  <2>1. s = With(s, s.mem, s.tlb, s.res)
    BY <1>2
  <2> HIDE DEF pde2, d
  <2>2. [s EXCEPT !.mem[pd][d] = pde2] = With(s, Put(s.mem, pd, d, pde2), s.tlb, s.res)
    BY <2>1, SMTT(30) DEF With, Put
  <2> QED
    BY <2>2 DEF pde2, d
<1>7. a \in State /\ a.mem = m1 /\ a.pool = s.pool /\ a.array = s.array /\ a.seen = s.seen
  <2>1. With(s, m1, s.tlb, s.res) \in State
    BY <1>2, <1>5, StateParts
  <2> QED
    BY <2>1 DEF With
<1>8. out = [r EXCEPT !.res = 1, !.seen = @ \union notes]
  BY <1>6, Zenon DEF MapInOldTable, Slot, Edited
<1> HIDE DEF m1, a
<1>9. Slot(a) = Slot(s) /\ Slot(a) \in PTE
  <2>1. ~(KERNEL_PT = pd /\ KERNEL_TMP_PT_IDX = d)
    BY DEF IsSlot
  <2>2. m1[KERNEL_PT][KERNEL_TMP_PT_IDX] = s.mem[KERNEL_PT][KERNEL_TMP_PT_IDX]
    BY <2>1, <1>5, Constants
  <2> QED
    BY <2>2, <1>7, StateParts DEF Slot, kernel_get_temporary_entry
<1>10. /\ b = With(a, Put(a.mem, KERNEL_PT, KERNEL_TMP_PT_IDX, Pointing(a, T)), NoFrame, KERNEL_TEMP_VADDR)
       /\ Pointing(a, T) \in PTE
       /\ b \in State /\ Coherent(b) /\ Slot(b).frame = T
  BY <1>3, <1>7, TempMap
<1>11. /\ b.mem \in Memory
       /\ \A g \in Frames, y \in Idx : ~IsSlot(g, y) => b.mem[g][y] = m1[g][y]
       /\ b.pool = s.pool /\ b.array = s.array /\ b.seen = s.seen
  <2>1. b.mem = Put(m1, KERNEL_PT, KERNEL_TMP_PT_IDX, Pointing(a, T))
        /\ b.pool = s.pool /\ b.array = s.array /\ b.seen = s.seen
    BY <1>10, <1>7 DEF With
  <2> HIDE DEF b
  <2>2. \A g \in Frames, y \in Idx : ~(g = KERNEL_PT /\ y = KERNEL_TMP_PT_IDX)
          => b.mem[g][y] = m1[g][y]
    BY <2>1, <1>5, <1>10, Constants, PutProperties
  <2>3. b.mem \in Memory
    BY <1>10, StateParts
  <2> QED
    BY <2>1, <2>2, <2>3 DEF IsSlot
<1> HIDE DEF b
<1>12. pt = b.mem[T] /\ pt \in [Idx -> PTE]
  BY <1>10, ReadSlot
<1>13. /\ pt2 \in [Idx -> PTE]
       /\ \A x \in Idx \ {0, t} : pt2[x] = pt[x]
       /\ pt2[t].present /\ pt2[t].frame = fr
       /\ pt2[0].present /\ (t # 0 => pt2[0].frame = pt[0].frame)
  <2> HIDE DEF pt, t
  <2>1. pt \in [Idx -> PTE] /\ t \in Idx
    BY <1>1, <1>12
  <2> QED
    BY <2>1, TwoEdits
<1> HIDE DEF pt, pt2
<1>14. /\ c = With(b, [b.mem EXCEPT ![T] = pt2], T, b.res) /\ c \in State
  <2> HIDE DEF T
  <2>1. T = Slot(b).frame /\ b \in State /\ Coherent(b) /\ pt2 \in [Idx -> PTE]
    BY <1>10, <1>13
  <2> QED
    BY <2>1, WriteSlot
<1>15. /\ c.mem = [b.mem EXCEPT ![T] = pt2] /\ c.mem \in Memory
       /\ c.pool = s.pool /\ c.array = s.array /\ c.seen = s.seen
  <2>1. c.mem \in Memory
    BY <1>14, StateParts
  <2> QED
    BY <2>1, <1>14, <1>11 DEF With
<1> HIDE DEF c
<1>16. /\ r = With(c, Put(c.mem, KERNEL_PT, KERNEL_TMP_PT_IDX, Slot(a)), NoFrame, c.res)
       /\ r \in State /\ Slot(r) = Slot(a) /\ Coherent(r)
  BY <1>9, <1>14, SetSlot
<1>17. /\ r.mem \in Memory
       /\ \A g \in Frames, y \in Idx : ~IsSlot(g, y) => r.mem[g][y] = c.mem[g][y]
       /\ r.pool = s.pool /\ r.array = s.array /\ r.seen = s.seen /\ r.tlb = NoFrame
  <2>1. r.mem = Put(c.mem, KERNEL_PT, KERNEL_TMP_PT_IDX, Slot(a))
        /\ r.pool = s.pool /\ r.array = s.array /\ r.seen = s.seen /\ r.tlb = NoFrame
    BY <1>16, <1>15 DEF With
  <2> HIDE DEF r
  <2>2. KERNEL_PT \in Frames /\ KERNEL_TMP_PT_IDX \in Idx /\ c.mem \in Memory /\ Slot(a) \in PTE
    BY <1>9, <1>15, Constants
  <2>4. \A g \in Frames, y \in Idx : ~(g = KERNEL_PT /\ y = KERNEL_TMP_PT_IDX)
          => r.mem[g][y] = c.mem[g][y]
    BY <2>1, <2>2, PutProperties, SMTT(30)
  <2>3. r.mem \in Memory
    BY <1>16, StateParts
  <2> QED
    BY <2>1, <2>4, <2>3 DEF IsSlot
<1> HIDE DEF r
<1>18. notes \subseteq {"ghost", "stray"}
  OBVIOUS
<1>19. /\ out = [mem |-> r.mem, tlb |-> NoFrame, pool |-> s.pool, array |-> s.array, res |-> 1,
                 seen |-> s.seen \union notes]
  <2>1. r = With(r, r.mem, r.tlb, r.res)
    BY <1>16, StateParts
  <2> HIDE DEF notes, out
  <2> QED
    BY <2>1, <1>8, <1>17 DEF With
<1>20. out \in State
  <2>1. s.seen \union notes \in SUBSET Notes
    BY <1>2, <1>18 DEF Notes
  <2> HIDE DEF notes, out
  <2> QED
    BY <2>1, <1>2, <1>17, <1>19 DEF State, Memory
<1>21. out.mem = r.mem /\ out.tlb = NoFrame /\ out.pool = s.pool /\ out.array = s.array /\ out.res = 1
       /\ out.seen = s.seen \union notes
  <2> HIDE DEF notes, out
  <2> QED
    BY <1>19
<1>22. Slot(out) = Slot(s) /\ Coherent(out)
  <2> HIDE DEF notes, out
  <2> QED
    BY <1>9, <1>16, <1>21 DEF Slot, kernel_get_temporary_entry, Coherent
<1>23. ASSUME NEW f \in Frames, NEW x \in Idx, ~IsSlot(f, x)
       PROVE  out.mem[f][x] = IF f = T THEN pt2[x] ELSE m1[f][x]
  <2>1. out.mem[f][x] = c.mem[f][x]
    BY <1>17, <1>21, <1>23
  <2>2. c.mem[f] = IF f = T THEN pt2 ELSE b.mem[f]
    BY <1>11, <1>15, <1>3 DEF Memory
  <2>3. b.mem[f][x] = m1[f][x]
    BY <1>11, <1>23
  <2> QED
    BY <2>1, <2>2, <2>3
<1>24. ASSUME NEW x \in Idx, ~IsSlot(T, x) PROVE pt[x] = m1[T][x]
  BY <1>3, <1>11, <1>12, <1>24
<1>25. ASSUME NEW f \in Frames, NEW x \in Idx,
              ~(f = pd /\ x = d), ~(f = T /\ x \in {0, t})
       PROVE  out.mem[f][x] = s.mem[f][x]
  <2>1. CASE IsSlot(f, x)
    BY <2>1, <1>22 DEF IsSlot, Slot, kernel_get_temporary_entry
  <2>2. CASE ~IsSlot(f, x) /\ f # T
    BY <2>2, <1>23, <1>5, <1>25
  <2>3. CASE ~IsSlot(f, x) /\ f = T
    BY <2>3, <1>23, <1>24, <1>13, <1>5, <1>25
  <2> QED
    BY <2>1, <2>2, <2>3
<1>26. ~IsSlot(T, 0) /\ 0 \in Idx
  BY Constants DEF IsSlot
<1>27. ASSUME T # pd
       PROVE  /\ out.mem[pd][d].present = pde.present /\ out.mem[pd][d].frame = T
              /\ out.mem[T][0].present
              /\ ~IsSlot(T, t) => out.mem[T][t].present /\ out.mem[T][t].frame = fr
              /\ t # 0 => out.mem[T][0].frame = s.mem[T][0].frame
              /\ t # 0 /\ ~s.mem[T][0].present => "ghost" \in out.seen
  <2>1. out.mem[pd][d] = pde2
    BY <1>1, <1>5, <1>23, <1>27
  <2>2. out.mem[T][0] = pt2[0]
    BY <1>26, <1>3, <1>23
  <2>3. ~IsSlot(T, t) => out.mem[T][t] = pt2[t]
    BY <1>1, <1>3, <1>23
  <2>4. pt[0] = s.mem[T][0]
    BY <1>26, <1>24, <1>3, <1>5, <1>27
  <2> HIDE DEF pde, out
  <2> QED
    BY <2>1, <2>2, <2>3, <2>4, <1>4, <1>13, <1>21
<1>28. /\ s.seen \subseteq out.seen /\ ("stale" \in out.seen => "stale" \in s.seen)
       /\ pde = Junk /\ pd # KERNEL_PD => "stray" \in out.seen
  <2> HIDE DEF out, pde
  <2> QED
    BY <1>21
<1> HIDE DEF out, notes
<1>29. /\ out \in State /\ Coherent(out) /\ Slot(out) = Slot(s)
       /\ out.pool = s.pool /\ out.array = s.array /\ out.res = 1
  BY <1>20, <1>21, <1>22
<1>30. \A f \in Frames, x \in Idx :
         ~(f = pd /\ x = d) /\ ~(f = T /\ x \in {0, t}) => out.mem[f][x] = s.mem[f][x]
  BY <1>25
<1> QED
  BY <1>27, <1>28, <1>29, <1>30, Zenon DEF out, MappedInOldTable

(* A state with one entry of memory replaced *)
LEMMA PutState ==
  ASSUME NEW s \in State, NEW pd \in Frames, NEW d \in Idx, NEW e \in PTE
  PROVE  LET a == With(s, Put(s.mem, pd, d, e), s.tlb, s.res) IN
         /\ a \in State /\ a.mem \in Memory /\ a.mem[pd][d] = e
         /\ \A g \in Frames, y \in Idx : ~(g = pd /\ y = d) => a.mem[g][y] = s.mem[g][y]
         /\ a.pool = s.pool /\ a.array = s.array /\ a.seen = s.seen /\ a.tlb = s.tlb /\ a.res = s.res
         /\ ~IsSlot(pd, d) => Slot(a) = Slot(s) /\ (Coherent(s) => Coherent(a))
<1> DEFINE m == Put(s.mem, pd, d, e)
           a == With(s, m, s.tlb, s.res)
<1>1. s.mem \in Memory /\ s.tlb \in Frames \union {NoFrame} /\ s.res \in Nat
  BY StateParts
<1>2. /\ m \in Memory /\ m[pd][d] = e
      /\ \A g \in Frames, y \in Idx : ~(g = pd /\ y = d) => m[g][y] = s.mem[g][y]
  BY <1>1, PutProperties
<1> HIDE DEF m
<1>3. a \in State
  BY <1>1, <1>2, StateParts
<1>4. /\ a.mem = m /\ a.pool = s.pool /\ a.array = s.array /\ a.seen = s.seen /\ a.tlb = s.tlb
      /\ a.res = s.res
  BY DEF With
<1> HIDE DEF a
<1>5. ASSUME ~IsSlot(pd, d) PROVE Slot(a) = Slot(s) /\ (Coherent(s) => Coherent(a))
  <2>1. ~(KERNEL_PT = pd /\ KERNEL_TMP_PT_IDX = d)
    BY <1>5 DEF IsSlot
  <2>2. Slot(a) = Slot(s)
    BY <2>1, <1>2, <1>4, Constants DEF Slot, kernel_get_temporary_entry
  <2> QED
    BY <2>2, <1>4 DEF Coherent
<1>6. /\ a.mem \in Memory /\ a.mem[pd][d] = e
      /\ \A g \in Frames, y \in Idx : ~(g = pd /\ y = d) => a.mem[g][y] = s.mem[g][y]
  BY <1>2, <1>4
<1> QED
  BY <1>3, <1>4, <1>5, <1>6, Zenon DEF a, m

(* A state after the slot was given back *)
LEMMA SetSlotState ==
  ASSUME NEW s \in State, NEW e \in PTE
  PROVE  LET a == kernel_set_temporary_entry(s, e) IN
         /\ a \in State /\ Slot(a) = e /\ Coherent(a) /\ a.tlb = NoFrame
         /\ \A g \in Frames, y \in Idx : ~IsSlot(g, y) => a.mem[g][y] = s.mem[g][y]
         /\ a.pool = s.pool /\ a.array = s.array /\ a.seen = s.seen /\ a.res = s.res
<1> DEFINE a == kernel_set_temporary_entry(s, e)
           m == Put(s.mem, KERNEL_PT, KERNEL_TMP_PT_IDX, e)
<1>1. a = With(s, m, NoFrame, s.res) /\ a \in State /\ Slot(a) = e /\ Coherent(a)
  BY SetSlot
<1>2. s.mem \in Memory /\ KERNEL_PT \in Frames /\ KERNEL_TMP_PT_IDX \in Idx
  BY StateParts, Constants
<1>3. \A g \in Frames, y \in Idx : ~(g = KERNEL_PT /\ y = KERNEL_TMP_PT_IDX) => m[g][y] = s.mem[g][y]
  BY <1>2, PutProperties
<1> HIDE DEF m, a
<1>4. /\ a.mem = m /\ a.pool = s.pool /\ a.array = s.array /\ a.seen = s.seen /\ a.res = s.res
      /\ a.tlb = NoFrame
  BY <1>1 DEF With
<1> QED
  BY <1>1, <1>3, <1>4 DEF IsSlot, a

(* A state after the slot was taken *)
LEMMA TempMapState ==
  ASSUME NEW s \in State, NEW f \in Frames
  PROVE  LET a == temp_map_page(s, f) IN
         /\ a \in State /\ Slot(a).frame = f /\ Coherent(a) /\ a.tlb = NoFrame
         /\ \A g \in Frames, y \in Idx : ~IsSlot(g, y) => a.mem[g][y] = s.mem[g][y]
         /\ a.pool = s.pool /\ a.array = s.array /\ a.seen = s.seen /\ a.res = KERNEL_TEMP_VADDR
         /\ \A g \in Frames : g # KERNEL_PT => a.mem[g] = s.mem[g]
<1> DEFINE a == temp_map_page(s, f)
           e == Pointing(s, f)
           m == Put(s.mem, KERNEL_PT, KERNEL_TMP_PT_IDX, e)
<1>1. a = With(s, m, NoFrame, KERNEL_TEMP_VADDR) /\ a \in State /\ Slot(a).frame = f /\ Coherent(a)
  BY TempMap
<1>2. s.mem \in Memory /\ KERNEL_PT \in Frames /\ KERNEL_TMP_PT_IDX \in Idx /\ e \in PTE
  BY StateParts, Constants, TempMap
<1>3. /\ \A g \in Frames, y \in Idx : ~(g = KERNEL_PT /\ y = KERNEL_TMP_PT_IDX) => m[g][y] = s.mem[g][y]
      /\ \A g \in Frames : g # KERNEL_PT => m[g] = s.mem[g]
  <2> HIDE DEF e
  <2> QED
    BY <1>2, PutProperties
<1> HIDE DEF m, a
<1>4. /\ a.mem = m /\ a.pool = s.pool /\ a.array = s.array /\ a.seen = s.seen
      /\ a.tlb = NoFrame /\ a.res = KERNEL_TEMP_VADDR
  BY <1>1 DEF With
<1> QED
  BY <1>1, <1>3, <1>4 DEF IsSlot, a

(* A state after a table other than the kernel's was written through the slot *)
LEMMA WriteTempState ==
  ASSUME NEW s \in State, Coherent(s), NEW table \in [Idx -> PTE]
  PROVE  LET f == Slot(s).frame
             a == WriteTemp(s, table)
         IN
         /\ a \in State /\ a.mem \in Memory /\ a.mem[f] = table
         /\ \A g \in Frames : g # f => a.mem[g] = s.mem[g]
         /\ a.pool = s.pool /\ a.array = s.array /\ a.seen = s.seen /\ a.res = s.res
         /\ f # KERNEL_PT => Slot(a) = Slot(s) /\ Coherent(a)
<1> DEFINE f == Slot(s).frame
           a == WriteTemp(s, table)
           m == [s.mem EXCEPT ![f] = table]
<1>1. /\ a = With(s, m, f, s.res) /\ a \in State
      /\ f # KERNEL_PT => Slot(a) = Slot(s) /\ Coherent(a)
  BY SlotAccess
<1>2. f \in Frames /\ s.mem \in Memory
  BY StateParts
<1>3. a.mem = m /\ a.pool = s.pool /\ a.array = s.array /\ a.seen = s.seen /\ a.res = s.res
  <2> HIDE DEF a, m
  <2> QED
    BY <1>1 DEF With
<1>4. m \in Memory /\ m[f] = table /\ \A g \in Frames : g # f => m[g] = s.mem[g]
  BY <1>2 DEF Memory
<1> QED
  BY <1>1, <1>3, <1>4

(* The branch that adds a table takes a frame, clears it, enters it in the directory and
   enters the page in it; without a frame it changes no table.  *)
MappedInNewTable(s, pd, fr, v, out) ==
  LET d == GET_PD_IDX(v)
      t == GET_PT_IDX(v)
      a == pf_allocate_frames(s, 1)
      T == a.array[0]
  IN
  /\ out \in State /\ Coherent(out) /\ Slot(out) = Slot(s)
  /\ out.pool = a.pool /\ out.array = a.array /\ out.res \in {0, 1} /\ out.res = a.res
  /\ out.seen = s.seen
  /\ out.res = 0 => out.mem = s.mem
  /\ out.res # 0 =>
       /\ T \in Allocatable /\ T = s.pool[Len(s.pool)]
       /\ T # pd =>
            /\ \A f \in Frames \ {T}, x \in Idx :
                 ~(f = pd /\ x = d) => out.mem[f][x] = s.mem[f][x]
            /\ out.mem[pd][d].present /\ out.mem[pd][d].frame = T
            /\ \A x \in Idx \ {t} : out.mem[T][x] = Empty
            /\ out.mem[T][t].present /\ out.mem[T][t].frame = fr

(* MapInNewTable does so. *)
LEMMA MapInNewTableEffect ==
  ASSUME NEW s \in State, Coherent(s), NEW pd \in Frames, NEW fr \in Frames, NEW v \in VPages,
         NEW u \in BOOLEAN, ~IsSlot(pd, GET_PD_IDX(v))
  PROVE  MappedInNewTable(s, pd, fr, v, MapInNewTable(s, pd, fr, v, u))
<1> DEFINE d == GET_PD_IDX(v)
           t == GET_PT_IDX(v)
           a == pf_allocate_frames(s, 1)
           T == a.array[0]
           Zeros == [x \in Idx |-> Empty]
           b == temp_map_page(a, T)
           z == WriteTemp(b, Zeros)
           e == SetPage(SetWritable(z.mem[pd][d], u), T)
           l == With(z, Put(z.mem, pd, d, e), z.tlb, z.res)
           pt == ReadTemp(l)
           g == SetPage(SetPresent(pt[t], u), fr)
           pt2 == [pt EXCEPT ![t] = g]
           c == WriteTemp(l, pt2)
           r == kernel_set_temporary_entry(c, Slot(s))
           out == MapInNewTable(s, pd, fr, v, u)
<1>1. d \in Idx /\ t \in Idx /\ 0 \in 0 .. 1 - 1 /\ 1 \in 1 .. HEAP_PAGES
  BY AddressParts, Constants
<1>2. /\ a \in State /\ a.mem = s.mem /\ a.tlb = s.tlb /\ a.seen = s.seen /\ a.res \in {0, 1}
      /\ a.res # 0 => Len(s.pool) > 1 /\ T = s.pool[Len(s.pool)]
  <2>1. /\ a \in State /\ a.mem = s.mem /\ a.tlb = s.tlb /\ a.seen = s.seen /\ a.res \in {0, 1}
        /\ a.res # 0 => Len(s.pool) > 1 /\ a.array[0] = s.pool[Len(s.pool) - 0]
    BY <1>1, PfAllocateProperties
  <2>2. Len(s.pool) \in Nat
    BY StateParts, LenProperties
  <2> QED
    BY <2>1, <2>2
<1>3. CASE a.res = 0
  <2>1. out = a
    BY <1>3 DEF MapInNewTable
  <2>2. Slot(a) = Slot(s) /\ Coherent(a)
    BY <1>2 DEF Slot, kernel_get_temporary_entry, Coherent
  <2> HIDE DEF out, a
  <2> QED
    BY <1>2, <1>3, <2>1, <2>2 DEF out, a, MappedInNewTable
<1>4. CASE a.res # 0
  <2>1. T \in Allocatable /\ T \in Frames /\ T # KERNEL_PT
    <3>1. s.pool \in Seq(Allocatable) /\ Len(s.pool) \in Nat /\ Len(s.pool) > 1
      BY <1>2, <1>4, StateParts, LenProperties
    <3>2. s.pool[Len(s.pool)] \in Allocatable
      BY <3>1, ElementOfSeq
    <3> QED
      BY <3>2, <1>2, <1>4 DEF Allocatable
  <2> HIDE DEF a, T
  <2>2. /\ b \in State /\ Slot(b).frame = T /\ Coherent(b)
        /\ \A f \in Frames, x \in Idx : ~IsSlot(f, x) => b.mem[f][x] = a.mem[f][x]
        /\ b.pool = a.pool /\ b.array = a.array /\ b.seen = a.seen
    BY <1>2, <2>1, TempMapState
  <2>3. Zeros \in [Idx -> PTE] /\ \A x \in Idx : Zeros[x] = Empty
    BY Constants DEF Empty, PTE
  <2> HIDE DEF b, Zeros
  <2>4. /\ z \in State /\ z.mem \in Memory /\ z.mem[T] = Zeros
        /\ \A f \in Frames : f # T => z.mem[f] = b.mem[f]
        /\ z.pool = a.pool /\ z.array = a.array /\ z.seen = a.seen
        /\ Slot(z) = Slot(b) /\ Coherent(z)
    BY <2>1, <2>2, <2>3, WriteTempState
  <2>5. e \in PTE /\ e.present /\ e.frame = T
    <3>1. z.mem[pd][d] \in PTE
      BY <1>1, <2>4 DEF Memory
    <3>2. SetWritable(z.mem[pd][d], u) \in PTE
      BY <3>1, <2>1, EntryEdits
    <3> QED
      BY <3>2, <2>1, EntryEdits
  <2> HIDE DEF z, e
  <2>6. /\ l \in State /\ l.mem \in Memory /\ l.mem[pd][d] = e
        /\ \A f \in Frames, y \in Idx : ~(f = pd /\ y = d) => l.mem[f][y] = z.mem[f][y]
        /\ l.pool = a.pool /\ l.array = a.array /\ l.seen = a.seen
        /\ Slot(l) = Slot(z) /\ Coherent(l)
    BY <1>1, <2>4, <2>5, PutState
  <2>7. out = [r EXCEPT !.res = 1]
    <3>1. [z EXCEPT !.mem[pd][d] = SetPage(SetWritable(@, u), T)] = l
      <4>1. z = With(z, z.mem, z.tlb, z.res)
        BY <2>4, StateParts
      <4> QED
        BY <4>1 DEF With, Put, e
    <3> QED
      BY <3>1, <1>4, Zenon DEF MapInNewTable, Slot, z, b, Zeros, T, a
  <2> HIDE DEF l
  <2>8. pt = l.mem[T] /\ pt \in [Idx -> PTE] /\ Slot(l).frame = T
    <3>1. Slot(l).frame = T
      BY <2>2, <2>4, <2>6
    <3>2. l.mem[T] \in [Idx -> PTE]
      BY <2>1, <2>6 DEF Memory
    <3> QED
      BY <3>1, <3>2, <2>6, SlotAccess
  <2> HIDE DEF pt
  <2>9. g \in PTE /\ g.present /\ g.frame = fr
    <3>1. pt[t] \in PTE
      BY <1>1, <2>8
    <3>2. SetPresent(pt[t], u) \in PTE
      BY <3>1, EntryEdits
    <3> QED
      BY <3>2, EntryEdits
  <2> HIDE DEF g
  <2>10. pt2 \in [Idx -> PTE] /\ pt2[t] = g /\ \A x \in Idx \ {t} : pt2[x] = pt[x]
    BY <1>1, <2>8, <2>9
  <2>11. pt2 = [ReadTemp(l) EXCEPT ![t] = SetPage(SetPresent(@, u), fr)]
    BY DEF pt, g
  <2> HIDE DEF pt2
  <2>12. /\ c \in State /\ c.mem \in Memory /\ c.mem[T] = pt2
         /\ \A f \in Frames : f # T => c.mem[f] = l.mem[f]
         /\ c.pool = a.pool /\ c.array = a.array /\ c.seen = a.seen
    BY <2>6, <2>8, <2>10, WriteTempState
  <2> HIDE DEF c
  <2>13. Slot(s) \in PTE
    BY StateParts
  <2>14. /\ r \in State /\ Slot(r) = Slot(s) /\ r.tlb = NoFrame
         /\ \A f \in Frames, y \in Idx : ~IsSlot(f, y) => r.mem[f][y] = c.mem[f][y]
         /\ r.pool = a.pool /\ r.array = a.array /\ r.seen = a.seen
    BY <2>12, <2>13, SetSlotState
  <2> HIDE DEF r
  <2>15. out = With(r, r.mem, NoFrame, 1)
    <3>1. r = With(r, r.mem, r.tlb, r.res)
      BY <2>14, StateParts
    <3> HIDE DEF out
    <3> QED
      BY <3>1, <2>7, <2>14 DEF With
  <2>16. out \in State /\ out.mem = r.mem /\ out.tlb = NoFrame /\ out.pool = a.pool
         /\ out.array = a.array /\ out.res = 1 /\ out.seen = a.seen
    <3>1. With(r, r.mem, NoFrame, 1) \in State
      BY <2>14, StateParts
    <3> HIDE DEF out
    <3> QED
      BY <3>1, <2>14, <2>15 DEF With
  <2> HIDE DEF out
  <2>17. Slot(out) = Slot(s) /\ Coherent(out)
    BY <2>14, <2>16 DEF Slot, kernel_get_temporary_entry, Coherent
  <2>18. ASSUME T # pd, NEW f \in Frames \ {T}, NEW x \in Idx, ~(f = pd /\ x = d)
         PROVE  out.mem[f][x] = s.mem[f][x]
    <3>1. CASE IsSlot(f, x)
      BY <3>1, <2>17 DEF IsSlot, Slot, kernel_get_temporary_entry
    <3>2. CASE ~IsSlot(f, x)
      <4>1. out.mem[f][x] = c.mem[f][x] /\ c.mem[f] = l.mem[f]
        BY <3>2, <2>12, <2>14, <2>16, <2>18
      <4>2. l.mem[f][x] = z.mem[f][x] /\ z.mem[f] = b.mem[f]
        BY <2>4, <2>6, <2>18
      <4>3. b.mem[f][x] = s.mem[f][x]
        BY <3>2, <1>2, <2>2
      <4> QED
        BY <4>1, <4>2, <4>3
    <3> QED
      BY <3>1, <3>2
  <2>19. ASSUME T # pd
         PROVE  out.mem[pd][d] = e
    <3>1. ~IsSlot(pd, d)
      OBVIOUS
    <3> QED
      BY <3>1, <1>1, <2>6, <2>12, <2>14, <2>16, <2>19
  <2>20. ASSUME T # pd
         PROVE  out.mem[T][t] = g /\ \A x \in Idx \ {t} : out.mem[T][x] = Empty
    <3>1. \A x \in Idx : out.mem[T][x] = pt2[x]
      BY <2>1, <2>12, <2>14, <2>16 DEF IsSlot
    <3>2. \A x \in Idx : pt[x] = Empty
      BY <2>1, <2>3, <2>4, <2>6, <2>8, <2>20
    <3> QED
      BY <3>1, <3>2, <2>10, <1>1
  <2>21. /\ out.res \in {0, 1} /\ out.res = a.res /\ out.res # 0 /\ out.seen = s.seen
    BY <1>2, <1>4, <2>16
  <2>22. \A f \in Frames \ {T}, x \in Idx :
           T # pd /\ ~(f = pd /\ x = d) => out.mem[f][x] = s.mem[f][x]
    BY <2>18
  <2>23. T = s.pool[Len(s.pool)]
    BY <1>2, <1>4
  <2> QED
    BY <2>1, <2>5, <2>9, <2>16, <2>17, <2>19, <2>20, <2>21, <2>22, <2>23 DEF out, T, a, MappedInNewTable
<1> QED
  BY <1>2, <1>3, <1>4

(***************************************************************************)
(* Calls and the slot: what every borrower keeps.                          *)
(***************************************************************************)

(* A call that ends with the slot as it was, the TLB coherent and no stale access *)
Keeps(s, a) ==
  /\ a \in State /\ Coherent(a) /\ Slot(a) = Slot(s)
  /\ s.seen \subseteq a.seen /\ ("stale" \in a.seen => "stale" \in s.seen)

(* A state with another result *)
LEMMA ResState ==
  ASSUME NEW s \in State, NEW r \in Nat
  PROVE  LET a == [s EXCEPT !.res = r] IN
         /\ a \in State /\ a.mem = s.mem /\ a.tlb = s.tlb /\ a.pool = s.pool
         /\ a.array = s.array /\ a.seen = s.seen /\ a.res = r
         /\ Slot(a) = Slot(s) /\ (Coherent(s) => Coherent(a))
<1> DEFINE a == [s EXCEPT !.res = r]
<1>1. a = With(s, s.mem, s.tlb, r)
  <2>1. s = With(s, s.mem, s.tlb, s.res)
    BY StateParts
  <2> QED
    BY <2>1 DEF With
<1>2. a \in State
  <2>1. With(s, s.mem, s.tlb, r) \in State
    BY StateParts
  <2> QED
    BY <1>1, <2>1
<1>3. /\ a.mem = s.mem /\ a.tlb = s.tlb /\ a.pool = s.pool /\ a.array = s.array
      /\ a.seen = s.seen /\ a.res = r
  <2> HIDE DEF a
  <2> QED
    BY <1>1 DEF With
<1> HIDE DEF a
<1>4. Slot(a) = Slot(s) /\ (Coherent(s) => Coherent(a))
  BY <1>3 DEF Slot, kernel_get_temporary_entry, Coherent
<1> QED
  BY <1>2, <1>3, <1>4, Zenon DEF a

(* A frame request touches neither the slot nor the TLB. *)
LEMMA PfAllocateKeeps ==
  ASSUME NEW s \in State, Coherent(s), NEW n \in 1 .. HEAP_PAGES
  PROVE  LET a == pf_allocate_frames(s, n) IN
         Keeps(s, a) /\ a.array[0] \in Frames /\ a.res \in {0, 1}
<1> DEFINE a == pf_allocate_frames(s, n)
<1>1. /\ a \in State /\ a.mem = s.mem /\ a.tlb = s.tlb /\ a.seen = s.seen /\ a.res \in {0, 1}
  BY PfAllocateProperties
<1>2. a.array \in [0 .. HEAP_PAGES - 1 -> Frames]
  BY <1>1, StateParts
<1> HIDE DEF a
<1>3. Keeps(s, a)
  BY <1>1 DEF Keeps, Slot, kernel_get_temporary_entry, Coherent
<1>4. a.array[0] \in Frames
  BY <1>2, Constants
<1> QED
  BY <1>1, <1>3, <1>4 DEF a

(* map_page gives the slot back on each of its paths. *)
LEMMA MapPageKeeps ==
  ASSUME NEW s \in State, Coherent(s), NEW pd \in Frames, NEW fr \in Frames, NEW v \in VPages,
         NEW u \in BOOLEAN, ~IsSlot(pd, GET_PD_IDX(v))
  PROVE  Keeps(s, map_page(s, pd, fr, v, u)) /\ map_page(s, pd, fr, v, u).res \in {0, 1}
<1>1. LET out == MapInOldTable(s, pd, fr, v, u) IN Keeps(s, out) /\ out.res \in {0, 1}
  <2> DEFINE out == MapInOldTable(s, pd, fr, v, u)
  <2>1. MappedInOldTable(s, pd, fr, v, out)
    BY MapInOldTableEffect
  <2> HIDE DEF out
  <2>2. /\ out \in State /\ Coherent(out) /\ Slot(out) = Slot(s) /\ out.res = 1
        /\ s.seen \subseteq out.seen /\ ("stale" \in out.seen => "stale" \in s.seen)
    BY <2>1, Zenon DEF MappedInOldTable
  <2> QED
    BY <2>2 DEF Keeps, out
<1>2. LET out == MapInNewTable(s, pd, fr, v, u) IN Keeps(s, out) /\ out.res \in {0, 1}
  BY MapInNewTableEffect DEF MappedInNewTable, Keeps
<1> QED
  BY <1>1, <1>2, Zenon DEF map_page

(* So does kernel_map_page, whatever the page. *)
LEMMA KernelMapPageKeeps ==
  ASSUME NEW s \in State, Coherent(s), NEW fr \in Frames, NEW v \in VPages, NEW u \in BOOLEAN
  PROVE  Keeps(s, kernel_map_page(s, fr, v, u)) /\ kernel_map_page(s, fr, v, u).res \in {0, 1}
<1>1. KERNEL_PD \in Frames /\ ~IsSlot(KERNEL_PD, GET_PD_IDX(v))
  BY Constants DEF IsSlot
<1> QED
  BY <1>1, MapPageKeeps DEF kernel_map_page

(* Whatever was done on loan, giving the slot back ends it. *)
LEMMA SlotReturned ==
  ASSUME NEW s \in State, NEW a \in State,
         s.seen \subseteq a.seen, "stale" \in a.seen => "stale" \in s.seen
  PROVE  LET out == kernel_set_temporary_entry(a, kernel_get_temporary_entry(s)) IN
         Keeps(s, out) /\ out.pool = a.pool /\ out.array = a.array /\ out.seen = a.seen /\ out.res = a.res
<1> DEFINE out == kernel_set_temporary_entry(a, Slot(s))
<1>1. Slot(s) \in PTE
  BY StateParts
<1>2. /\ out \in State /\ Slot(out) = Slot(s) /\ Coherent(out)
      /\ out.pool = a.pool /\ out.array = a.array /\ out.seen = a.seen /\ out.res = a.res
  BY <1>1, SetSlotState
<1> HIDE DEF out
<1>3. Keeps(s, out)
  BY <1>2 DEF Keeps
<1> QED
  BY <1>2, <1>3, Zenon DEF out, Slot


(* The entry get_page leaves the slot at is changed behind the slot; once the slot is
   given back, that entry is all that differs.  *)
LEMMA EntryEdited ==
  ASSUME NEW s \in State, NEW v \in VPages, NEW e \in PTE
  PROVE  LET t == GET_PT_IDX(v)
             T == s.mem[KERNEL_PD][GET_PD_IDX(v)].frame
             a == get_page(s, v)
             out == kernel_set_temporary_entry(SetEntry(a, v, e), kernel_get_temporary_entry(s))
         IN
         /\ T \in Frames
         /\ ReadTemp(a) \in [Idx -> PTE] /\ (~IsSlot(T, t) => ReadTemp(a)[t] = s.mem[T][t])
         /\ Keeps(s, out) /\ out.pool = s.pool /\ out.array = s.array /\ out.seen = s.seen
         /\ \A f \in Frames, x \in Idx : ~(f = T /\ x = t) => out.mem[f][x] = s.mem[f][x]
         /\ ~IsSlot(T, t) => out.mem[T][t] = e
<1> DEFINE t == GET_PT_IDX(v)
           T == s.mem[KERNEL_PD][GET_PD_IDX(v)].frame
           a == get_page(s, v)
           pt == ReadTemp(a)
           pt2 == [pt EXCEPT ![t] = e]
           c == SetEntry(a, v, e)
           out == kernel_set_temporary_entry(c, kernel_get_temporary_entry(s))
<1>1. t \in Idx /\ T \in Frames /\ s.mem \in Memory
  <2>1. GET_PD_IDX(v) \in Idx /\ t \in Idx /\ s.mem \in Memory
    BY AddressParts, StateParts
  <2>2. s.mem[KERNEL_PD][GET_PD_IDX(v)] \in PTE
    BY <2>1, Constants DEF Memory
  <2> QED
    BY <2>1, <2>2 DEF PTE
<1>2. a = temp_map_page(s, T)
  BY DEF get_page
<1>3. c = WriteTemp(a, pt2)
  BY DEF SetEntry
<1> HIDE DEF t, T, a
<1>4. /\ a \in State /\ Slot(a).frame = T /\ Coherent(a)
      /\ \A g \in Frames, y \in Idx : ~IsSlot(g, y) => a.mem[g][y] = s.mem[g][y]
      /\ a.pool = s.pool /\ a.array = s.array /\ a.seen = s.seen
  BY <1>1, <1>2, TempMapState
<1>5. pt = a.mem[T] /\ pt \in [Idx -> PTE]
  <2>1. a.mem[T] \in [Idx -> PTE]
    BY <1>1, <1>4, StateParts DEF Memory
  <2> QED
    BY <2>1, <1>4, SlotAccess
<1> HIDE DEF pt
<1>6. pt2 \in [Idx -> PTE] /\ pt2[t] = e /\ \A x \in Idx \ {t} : pt2[x] = pt[x]
  BY <1>1, <1>5
<1> HIDE DEF pt2, c
<1>7. /\ c \in State /\ c.mem[T] = pt2
      /\ \A g \in Frames : g # T => c.mem[g] = a.mem[g]
      /\ c.pool = s.pool /\ c.array = s.array /\ c.seen = s.seen
  BY <1>3, <1>4, <1>6, WriteTempState
<1>8. Slot(s) \in PTE /\ out = kernel_set_temporary_entry(c, Slot(s))
  BY StateParts DEF Slot
<1> HIDE DEF out
<1>9. /\ out \in State /\ Slot(out) = Slot(s) /\ Coherent(out)
      /\ \A g \in Frames, y \in Idx : ~IsSlot(g, y) => out.mem[g][y] = c.mem[g][y]
      /\ out.pool = s.pool /\ out.array = s.array /\ out.seen = s.seen
  BY <1>7, <1>8, SetSlotState
<1>10. ASSUME NEW f \in Frames, NEW x \in Idx, ~(f = T /\ x = t)
       PROVE  out.mem[f][x] = s.mem[f][x]
  <2>1. CASE IsSlot(f, x)
    BY <2>1, <1>9 DEF IsSlot, Slot, kernel_get_temporary_entry
  <2>2. CASE ~IsSlot(f, x)
    <3>1. out.mem[f][x] = c.mem[f][x]
      BY <2>2, <1>9
    <3>2. c.mem[f][x] = a.mem[f][x]
      BY <1>5, <1>6, <1>7, <1>10
    <3> QED
      BY <3>1, <3>2, <2>2, <1>4
  <2> QED
    BY <2>1, <2>2
<1>11. ~IsSlot(T, t) => out.mem[T][t] = e /\ pt[t] = s.mem[T][t]
  BY <1>1, <1>4, <1>5, <1>6, <1>7, <1>9
<1>12. Keeps(s, out)
  BY <1>9 DEF Keeps
<1>13. \A f \in Frames, x \in Idx : ~(f = T /\ x = t) => out.mem[f][x] = s.mem[f][x]
  BY <1>10
<1> QED
  BY <1>1, <1>5, <1>9, <1>11, <1>12, <1>13, Zenon DEF out, c, pt, a, T, t

(* Memories with the same entries are the same. *)
LEMMA SameMemory ==
  ASSUME NEW m \in Memory, NEW p \in Memory, \A f \in Frames, x \in Idx : m[f][x] = p[f][x]
  PROVE  m = p
<1>1. ASSUME NEW f \in Frames PROVE m[f] = p[f]
  <2>1. m[f] \in [Idx -> PTE] /\ p[f] \in [Idx -> PTE]
    BY DEF Memory
  <2> QED
    BY <2>1
<1> QED
  BY <1>1 DEF Memory

(* A look at one table leaves memory as it was. *)
LEMMA TryTableEffect ==
  ASSUME NEW s \in State, Coherent(s), NEW d \in Idx
  PROVE  LET pde == s.mem[KERNEL_PD][d]
             T == pde.frame
             out == TryTable(s, d, 1)
         IN
         /\ T \in Frames
         /\ Keeps(s, out) /\ out.mem = s.mem /\ out.pool = s.pool /\ out.array = s.array
         /\ out.seen = s.seen
         /\ out.res = IF pde.present
                        THEN pt_kernel_find_next_vaddr(d,
                               Put(s.mem, KERNEL_PT, KERNEL_TMP_PT_IDX, Pointing(s, T))[T], 1)
                        ELSE d * PT_ENTRIES
         /\ out.res # 0 =>
              /\ out.res \in VPages /\ GET_PD_IDX(out.res) = d
              /\ pde.present => /\ ~IsSlot(T, GET_PT_IDX(out.res))
                                /\ ~s.mem[T][GET_PT_IDX(out.res)].present
              /\ ~pde.present => GET_PT_IDX(out.res) = 0
<1> DEFINE pde == s.mem[KERNEL_PD][d]
           T == pde.frame
           out == TryTable(s, d, 1)
           m == Put(s.mem, KERNEL_PT, KERNEL_TMP_PT_IDX, Pointing(s, T))
           b == temp_map_page(s, T)
           a == Access(b)
           g == kernel_set_temporary_entry(a, Slot(s))
           r == pt_kernel_find_next_vaddr(d, m[T], 1)
<1>1. s.mem \in Memory /\ pde \in PTE /\ T \in Frames /\ d \in Nat /\ PT_ENTRIES \in Nat
  <2>1. s.mem \in Memory
    BY StateParts
  <2>2. pde \in PTE
    BY <2>1, Constants DEF Memory
  <2> QED
    BY <2>1, <2>2, Constants DEF PTE, Idx
<1>2. /\ b = With(s, m, NoFrame, KERNEL_TEMP_VADDR) /\ Pointing(s, T) \in PTE
      /\ b \in State /\ Slot(b).frame = T /\ Coherent(b)
  BY <1>1, TempMap
<1>3. b.mem = m /\ b.pool = s.pool /\ b.array = s.array /\ b.seen = s.seen
  BY <1>2 DEF With
<1>4. /\ m \in Memory /\ m[KERNEL_PT][KERNEL_TMP_PT_IDX] = Pointing(s, T)
      /\ \A f \in Frames, x \in Idx :
           ~(f = KERNEL_PT /\ x = KERNEL_TMP_PT_IDX) => m[f][x] = s.mem[f][x]
  <2>1. KERNEL_PT \in Frames /\ KERNEL_TMP_PT_IDX \in Idx /\ s.mem \in Memory
        /\ Pointing(s, T) \in PTE
    BY <1>1, <1>2, Constants
  <2> HIDE DEF T, pde
  <2> QED
    BY <2>1, PutProperties
<1>5. Pointing(s, T).present
  <2>1. Slot(s) \in PTE
    BY StateParts
  <2> QED
    BY <2>1 DEF Pointing, PTE
<1> HIDE DEF m, b
<1>6. a = With(b, b.mem, T, b.res) /\ a \in State
  <2>1. b.mem[T] \in [Idx -> PTE]
    BY <1>1, <1>3, <1>4 DEF Memory
  <2> QED
    BY <2>1, <1>2, SlotAccess
<1>7. a.mem = m /\ a.tlb = T /\ a.pool = s.pool /\ a.array = s.array /\ a.seen = s.seen
  BY <1>6, <1>3 DEF With
<1> HIDE DEF a
<1>8. Slot(s) \in PTE
  BY StateParts
<1>9. /\ g \in State /\ Slot(g) = Slot(s) /\ Coherent(g)
      /\ \A f \in Frames, y \in Idx : ~IsSlot(f, y) => g.mem[f][y] = a.mem[f][y]
      /\ g.pool = s.pool /\ g.array = s.array /\ g.seen = s.seen
  BY <1>6, <1>7, <1>8, SetSlotState
<1> HIDE DEF g
<1>10. g.mem = s.mem
  <2>1. ASSUME NEW f \in Frames, NEW x \in Idx PROVE g.mem[f][x] = s.mem[f][x]
    <3>1. CASE IsSlot(f, x)
      BY <3>1, <1>9 DEF IsSlot, Slot, kernel_get_temporary_entry
    <3>2. CASE ~IsSlot(f, x)
      BY <3>2, <1>4, <1>7, <1>9 DEF IsSlot
    <3> QED
      BY <3>1, <3>2
  <2>2. g.mem \in Memory
    BY <1>9, StateParts
  <2> QED
    BY <2>1, <2>2, <1>1, SameMemory
<1>11. /\ pde.present => out = [g EXCEPT !.res = r]
       /\ ~pde.present => out = [s EXCEPT !.res = d * PT_ENTRIES]
  <2>1. pde.present => out = [g EXCEPT !.res = pt_kernel_find_next_vaddr(d, a.mem[a.tlb], 1)]
    BY Zenon DEF TryTable, Slot, g, a, b
  <2>2. ~pde.present => out = [s EXCEPT !.res = d * PT_ENTRIES]
    BY Zenon DEF TryTable
  <2> QED
    BY <2>1, <2>2, <1>7
<1>12. /\ r \in Nat
       /\ r # 0 => /\ r \in VPages /\ GET_PD_IDX(r) = d
                   /\ ~IsSlot(T, GET_PT_IDX(r)) /\ ~s.mem[T][GET_PT_IDX(r)].present
  <2> DEFINE runs == FreeRuns(d, m[T], 1)
             t == First(runs)
  <2>1. runs \in SUBSET Nat /\ runs \subseteq Idx /\ \A k \in runs : ~m[T][k].present
    BY Constants DEF FreeRuns, Idx
  <2>2. runs = {} => r = 0
    BY DEF pt_kernel_find_next_vaddr
  <2>3. ASSUME runs # {}
        PROVE  r = d * PT_ENTRIES + t /\ t \in Idx /\ ~m[T][t].present
    <3>1. r = d * PT_ENTRIES + t
      BY <2>3 DEF pt_kernel_find_next_vaddr
    <3> HIDE DEF runs
    <3>2. t \in runs
      BY <2>1, <2>3, FirstProperties
    <3> QED
      BY <3>1, <3>2, <2>1
  <2> HIDE DEF runs, r, t
  <2>4. ASSUME runs # {}
        PROVE  /\ r \in VPages /\ r \in Nat /\ GET_PD_IDX(r) = d
               /\ ~IsSlot(T, GET_PT_IDX(r)) /\ ~s.mem[T][GET_PT_IDX(r)].present
    <3>1. r \in VPages /\ GET_PD_IDX(r) = d /\ GET_PT_IDX(r) = t
      BY <2>3, <2>4, AddressOfParts
    <3>2. ~IsSlot(T, t)
      BY <2>3, <2>4, <1>4, <1>5 DEF IsSlot
    <3>3. m[T][t] = s.mem[T][t]
      BY <3>2, <2>3, <2>4, <1>1, <1>4 DEF IsSlot
    <3> QED
      BY <3>1, <3>2, <3>3, <2>3, <2>4 DEF VPages
  <2> QED
    BY <2>2, <2>4
<1>13. d * PT_ENTRIES \in VPages /\ d * PT_ENTRIES \in Nat
       /\ GET_PD_IDX(d * PT_ENTRIES) = d /\ GET_PT_IDX(d * PT_ENTRIES) = 0
  <2>1. d * PT_ENTRIES + 0 = d * PT_ENTRIES /\ d * PT_ENTRIES \in Nat
    BY <1>1
  <2> QED
    BY <2>1, Constants, AddressOfParts
<1> HIDE DEF r, out
<1>14. ASSUME pde.present
       PROVE  /\ Keeps(s, out) /\ out.mem = s.mem /\ out.pool = s.pool /\ out.array = s.array
              /\ out.seen = s.seen /\ out.res = r
  <2>1. /\ out \in State /\ out.mem = g.mem /\ out.pool = s.pool /\ out.array = s.array
        /\ out.seen = s.seen /\ out.res = r /\ Slot(out) = Slot(s) /\ Coherent(out)
    <3> DEFINE q == [g EXCEPT !.res = r]
    <3>1. g \in State /\ r \in Nat
      BY <1>9, <1>12
    <3>2. /\ q \in State /\ q.mem = g.mem /\ q.pool = g.pool /\ q.array = g.array
          /\ q.seen = g.seen /\ q.res = r /\ Slot(q) = Slot(g) /\ (Coherent(g) => Coherent(q))
      BY <3>1, ResState
    <3>3. out = q
      BY <1>11, <1>14
    <3> HIDE DEF q
    <3> QED
      BY <3>2, <3>3, <1>9
  <2> QED
    BY <2>1, <1>10 DEF Keeps
<1>15. ASSUME ~pde.present
       PROVE  /\ Keeps(s, out) /\ out.mem = s.mem /\ out.pool = s.pool /\ out.array = s.array
              /\ out.seen = s.seen /\ out.res = d * PT_ENTRIES
  <2>1. /\ out \in State /\ out.mem = s.mem /\ out.pool = s.pool /\ out.array = s.array
        /\ out.seen = s.seen /\ out.res = d * PT_ENTRIES /\ Slot(out) = Slot(s) /\ Coherent(out)
    <3> DEFINE r0 == d * PT_ENTRIES
               q == [s EXCEPT !.res = r0]
    <3>1. r0 \in Nat
      BY <1>13
    <3>2. out = q
      BY <1>11, <1>15
    <3> HIDE DEF r0
    <3>3. /\ q \in State /\ q.mem = s.mem /\ q.pool = s.pool /\ q.array = s.array
          /\ q.seen = s.seen /\ q.res = r0 /\ Slot(q) = Slot(s) /\ (Coherent(s) => Coherent(q))
      BY <3>1, ResState
    <3> HIDE DEF q
    <3> QED
      BY <3>2, <3>3 DEF r0
  <2> QED
    BY <2>1 DEF Keeps
<1> HIDE DEF pde
<1>16. out.res = IF pde.present THEN r ELSE d * PT_ENTRIES
  BY <1>14, <1>15
<1>17. out.res # 0 =>
              /\ out.res \in VPages /\ GET_PD_IDX(out.res) = d
              /\ pde.present => /\ ~IsSlot(T, GET_PT_IDX(out.res))
                                /\ ~s.mem[T][GET_PT_IDX(out.res)].present
              /\ ~pde.present => GET_PT_IDX(out.res) = 0
  BY <1>16, <1>12, <1>13
<1> QED
  BY <1>1, <1>14, <1>15, <1>16, <1>17, Zenon DEF out, r, m, T, pde


(* The search changes nothing, and finds a page that its table does not map and that is
   not the slot; without one it says so.  *)
LEMMA SearchEffect ==
  ASSUME NEW s \in State, Coherent(s)
  PROVE  LET out == pdt_kernel_find_next_vaddr(s, 1)
             d == GET_PD_IDX(out.res)
             T == s.mem[KERNEL_PD][d].frame
         IN
         /\ Keeps(s, out) /\ out.mem = s.mem /\ out.pool = s.pool /\ out.array = s.array
         /\ s.seen \subseteq out.seen /\ out.res \in VPages
         /\ out.res = 0 => "full" \in out.seen
         /\ out.res # 0 =>
              /\ d \in KERNEL_PT_PDT_IDX .. PT_ENTRIES - 1
              /\ s.mem[KERNEL_PD][d].present => ~IsSlot(T, GET_PT_IDX(out.res))
                                             /\ ~s.mem[T][GET_PT_IDX(out.res)].present
              /\ ~s.mem[KERNEL_PD][d].present => GET_PT_IDX(out.res) = 0
<1> DEFINE K == KERNEL_PT_PDT_IDX
           s1 == TryTable(s, K, 1)
           found == {d \in K .. PT_ENTRIES - 1 : TryTable(s, d, 1).res # 0}
           out == pdt_kernel_find_next_vaddr(s, 1)
<1>1. /\ s1 \in State /\ Coherent(s1) /\ Slot(s1) = Slot(s) /\ s1.mem = s.mem /\ s1.pool = s.pool
      /\ s1.array = s.array /\ s1.seen = s.seen
  BY Constants, TryTableEffect DEF Keeps
<1> HIDE DEF s1
<1>2. CASE found # {}
  <2> DEFINE d == First(found)
  <2>1. d \in found
    <3>1. found \in SUBSET Nat
      BY Constants DEF Idx
    <3> HIDE DEF found
    <3> QED
      BY <3>1, <1>2, FirstProperties
  <2>2. d \in K .. PT_ENTRIES - 1 /\ d \in Idx /\ TryTable(s, d, 1).res # 0
    BY <2>1, Constants DEF Idx
  <2>3. out = TryTable(s1, d, 1)
    BY <1>2, Zenon DEF pdt_kernel_find_next_vaddr, s1
  <2> HIDE DEF found, d, out
  <2> DEFINE pde == s.mem[KERNEL_PD][d]
             r == IF pde.present
                    THEN pt_kernel_find_next_vaddr(d,
                           Put(s.mem, KERNEL_PT, KERNEL_TMP_PT_IDX, Pointing(s, pde.frame))[pde.frame], 1)
                    ELSE d * PT_ENTRIES
  <2>4. TryTable(s, d, 1).res = r
    BY <2>2, TryTableEffect
  <2>5. Pointing(s1, pde.frame) = Pointing(s, pde.frame)
    BY <1>1 DEF Pointing
  <2>6. /\ Keeps(s1, out) /\ out.mem = s.mem /\ out.pool = s.pool /\ out.array = s.array
        /\ out.seen = s.seen
        /\ out.res # 0 =>
             /\ out.res \in VPages /\ GET_PD_IDX(out.res) = d
             /\ pde.present => /\ ~IsSlot(pde.frame, GET_PT_IDX(out.res))
                               /\ ~s.mem[pde.frame][GET_PT_IDX(out.res)].present
             /\ ~pde.present => GET_PT_IDX(out.res) = 0
    BY <1>1, <2>2, <2>3, TryTableEffect
  <2>7. out.res = r
    <3> HIDE DEF r
    <3>1. TryTable(s1, d, 1).res =
             IF s1.mem[KERNEL_PD][d].present
               THEN pt_kernel_find_next_vaddr(d,
                      Put(s1.mem, KERNEL_PT, KERNEL_TMP_PT_IDX,
                          Pointing(s1, s1.mem[KERNEL_PD][d].frame))[s1.mem[KERNEL_PD][d].frame], 1)
               ELSE d * PT_ENTRIES
      BY <1>1, <2>2, TryTableEffect
    <3> QED
      BY <3>1, <1>1, <2>3, <2>5, Zenon DEF r
  <2>8. out.res # 0
    BY <2>2, <2>4, <2>7
  <2>9. Keeps(s, out)
    BY <2>6, <1>1 DEF Keeps
  <2> QED
    BY <2>2, <2>6, <2>8, <2>9 DEF out
<1>3. CASE found = {}
  <2>1. out = [s1 EXCEPT !.res = 0, !.seen = @ \union {"full"}]
    BY <1>3, Zenon DEF pdt_kernel_find_next_vaddr, s1
  <2>2. s1 = With(s1, s1.mem, s1.tlb, s1.res)
    BY <1>1, StateParts
  <2> HIDE DEF found, out
  <2>3. out = [mem |-> s1.mem, tlb |-> s1.tlb, pool |-> s1.pool, array |-> s1.array, res |-> 0,
               seen |-> s1.seen \union {"full"}]
    BY <2>1, <2>2 DEF With
  <2>4. /\ s1.mem \in Memory /\ s1.tlb \in Frames \union {NoFrame} /\ s1.pool \in Seq(Allocatable)
        /\ s1.array \in [0 .. HEAP_PAGES - 1 -> Frames] /\ s1.seen \in SUBSET Notes
    BY <1>1, StateParts
  <2>5. out \in State
    BY <2>3, <2>4 DEF State, Memory, Notes
  <2>6. /\ out.mem = s.mem /\ out.tlb = s1.tlb /\ out.pool = s.pool /\ out.array = s.array
        /\ out.res = 0 /\ out.seen = s.seen \union {"full"}
    BY <2>3, <1>1
  <2>7. Slot(out) = Slot(s1) /\ Coherent(out)
    BY <2>6, <1>1 DEF Slot, kernel_get_temporary_entry, Coherent
  <2>8. Keeps(s, out)
    BY <2>5, <2>6, <2>7, <1>1 DEF Keeps
  <2>9. 0 \in VPages
    <3>1. 0 * PT_ENTRIES + 0 = 0 /\ 0 \in Idx
      BY Constants
    <3> QED
      BY <3>1, AddressOfParts
  <2> QED
    BY <2>6, <2>8, <2>9 DEF out
<1> QED
  BY <1>2, <1>3

(* Reading and clearing the entry of a page *)
LEMMA ChangedEntry ==
  ASSUME NEW p \in [Idx -> PTE], NEW t \in Idx
  PROVE  /\ [p[t] EXCEPT !.present = FALSE, !.frame = 0] \in PTE
         /\ [p[t] EXCEPT !.present = FALSE, !.frame = 0].present = FALSE
         /\ [p[t] EXCEPT !.present = FALSE, !.frame = 0].frame = 0
         /\ [p[t] EXCEPT !.rw = TRUE, !.present = TRUE] \in PTE
         /\ [p[t] EXCEPT !.rw = TRUE, !.present = TRUE].present = TRUE
         /\ [p[t] EXCEPT !.rw = TRUE, !.present = TRUE].frame = p[t].frame
         /\ [p[t] EXCEPT !.present = FALSE] \in PTE
         /\ [p[t] EXCEPT !.present = TRUE, !.frame = ARRAY_PAGE] \in PTE
<1>1. p[t] \in PTE /\ 0 \in Frames /\ ARRAY_PAGE \in Frames
  BY Constants DEF Allocatable
<1> QED
  BY <1>1 DEF PTE

(* unmap_page clears the entry of the page. *)
LEMMA UnmapPageEffect ==
  ASSUME NEW s \in State, NEW v \in VPages
  PROVE  LET t == GET_PT_IDX(v)
             T == s.mem[KERNEL_PD][GET_PD_IDX(v)].frame
             out == unmap_page(s, v)
         IN
         /\ T \in Frames
         /\ Keeps(s, out) /\ out.pool = s.pool /\ out.array = s.array /\ out.seen = s.seen
         /\ \A f \in Frames, x \in Idx : ~(f = T /\ x = t) => out.mem[f][x] = s.mem[f][x]
         /\ ~IsSlot(T, t) => out.mem[T][t].present = FALSE /\ out.mem[T][t].frame = 0
<1> DEFINE t == GET_PT_IDX(v)
           T == s.mem[KERNEL_PD][GET_PD_IDX(v)].frame
           a == get_page(s, v)
           e == [ReadTemp(a)[t] EXCEPT !.present = FALSE, !.frame = 0]
           out == kernel_set_temporary_entry(SetEntry(a, v, e), kernel_get_temporary_entry(s))
<1>1. unmap_page(s, v) = out
  BY DEF unmap_page
<1>2. ReadTemp(a) \in [Idx -> PTE] /\ t \in Idx
  <2>1. Empty \in PTE
    BY Constants DEF Empty, PTE
  <2>2. ReadTemp(a) \in [Idx -> PTE]
    BY <2>1, EntryEdited
  <2> QED
    BY <2>2, AddressParts
<1>3. e \in PTE /\ e.present = FALSE /\ e.frame = 0
  BY <1>2, ChangedEntry
<1> HIDE DEF e
<1>4. /\ T \in Frames /\ Keeps(s, out) /\ out.pool = s.pool /\ out.array = s.array /\ out.seen = s.seen
      /\ \A f \in Frames, x \in Idx : ~(f = T /\ x = t) => out.mem[f][x] = s.mem[f][x]
      /\ ~IsSlot(T, t) => out.mem[T][t] = e
  BY <1>3, EntryEdited
<1> HIDE DEF out, T, t
<1>5. ~IsSlot(T, t) => out.mem[T][t].present = FALSE /\ out.mem[T][t].frame = 0
  BY <1>3, <1>4
<1> QED
  BY <1>1, <1>4, <1>5, Zenon DEF T, t


(* get_page takes the slot; writing the entry writes through it once. *)
LEMMA GetPageState ==
  ASSUME NEW s \in State, NEW v \in VPages
  PROVE  LET a == get_page(s, v) IN
         /\ a \in State /\ Coherent(a) /\ a.pool = s.pool /\ a.array = s.array /\ a.seen = s.seen
         /\ a.res = KERNEL_TEMP_VADDR
<1>1. s.mem[KERNEL_PD][GET_PD_IDX(v)].frame \in Frames
  <2>1. s.mem[KERNEL_PD][GET_PD_IDX(v)] \in PTE
    BY AddressParts, StateParts, Constants DEF Memory
  <2> QED
    BY <2>1 DEF PTE
<1> QED
  BY <1>1, TempMapState DEF get_page

(* Writing the entry of a page of the table the slot is at notes nothing. *)
LEMMA SetEntryState ==
  ASSUME NEW s \in State, Coherent(s), NEW v \in VPages, NEW e \in PTE
  PROVE  LET a == SetEntry(s, v, e) IN
         /\ a \in State /\ a.pool = s.pool /\ a.array = s.array /\ a.seen = s.seen /\ a.res = s.res
         /\ ReadTemp(s) \in [Idx -> PTE]
<1> DEFINE pt == [ReadTemp(s) EXCEPT ![GET_PT_IDX(v)] = e]
<1>1. ReadTemp(s) \in [Idx -> PTE]
  <2>1. s.mem[KERNEL_PT] \in [Idx -> PTE]
    BY StateParts, Constants DEF Memory
  <2> QED
    BY <2>1, SlotAccess
<1>2. pt \in [Idx -> PTE]
  BY <1>1
<1>3. SetEntry(s, v, e) = WriteTemp(s, pt)
  BY DEF SetEntry
<1> HIDE DEF pt
<1> QED
  BY <1>1, <1>2, <1>3, WriteTempState

(* allocate_page *)
LEMMA AllocatePageState ==
  ASSUME NEW s \in State, Coherent(s), NEW v \in VPages
  PROVE  LET a == allocate_page(s, v) IN a \in State /\ a.seen = s.seen
<1> DEFINE a == pf_allocate_frames(s, 1)
           e == [ReadTemp(a)[GET_PT_IDX(v)] EXCEPT !.present = TRUE, !.frame = ARRAY_PAGE]
           c == SetEntry(a, v, e)
<1>1. a \in State /\ Coherent(a) /\ a.seen = s.seen /\ a.array[0] \in Nat
  <2>1. 1 \in 1 .. HEAP_PAGES
    BY Constants
  <2>2. a \in State /\ Coherent(a) /\ a.array[0] \in Frames
    BY <2>1, PfAllocateKeeps DEF Keeps
  <2>3. a.seen = s.seen
    BY <2>1, PfAllocateProperties
  <2> QED
    BY <2>2, <2>3, Constants DEF Frames
<1> HIDE DEF a
<1>2. e \in PTE
  <2>1. Empty \in PTE /\ GET_PT_IDX(v) \in Idx
    BY Constants, AddressParts DEF Empty, PTE
  <2>2. ReadTemp(a) \in [Idx -> PTE]
    BY <1>1, <2>1, SetEntryState
  <2> QED
    BY <2>1, <2>2, ChangedEntry
<1>3. c \in State /\ c.seen = s.seen
  <2> HIDE DEF e
  <2> QED
    BY <1>1, <1>2, SetEntryState
<1>4. /\ a.res = 0 => allocate_page(s, v) = a
      /\ a.res # 0 => allocate_page(s, v) = [c EXCEPT !.res = a.array[0]]
  BY Zenon DEF allocate_page, a
<1> HIDE DEF c
<1>5. LET d == [c EXCEPT !.res = a.array[0]] IN d \in State /\ d.seen = s.seen
  BY <1>1, <1>3, ResState
<1> QED
  BY <1>1, <1>4, <1>5

(* free_page puts the address of the slot's page in the pool. *)
LEMMA FreePageState ==
  ASSUME NEW s \in State, Coherent(s), NEW v \in VPages
  PROVE  LET a == free_page(s, v) IN a \in State /\ a.seen = s.seen
<1> DEFINE t == GET_PT_IDX(v)
           a == Access(s)
           F == a.mem[a.tlb][t].frame
           b == temp_map_page(a, F)
           q == Append(b.pool, b.res)
           d == [b EXCEPT !.pool = Append(@, b.res)]
           e == [ReadTemp(d)[t] EXCEPT !.present = FALSE]
           c == SetEntry(d, v, e)
           out == kernel_set_temporary_entry(c, Slot(a))
<1>1. free_page(s, v) = out /\ t \in Idx
  BY AddressParts DEF free_page, ClearPresent, Slot
<1>2. a \in State /\ a.seen = s.seen /\ Coherent(a) /\ F \in Frames
  <2>1. s.mem[KERNEL_PT] \in [Idx -> PTE] /\ s.mem \in Memory /\ Slot(s).frame \in Frames
    BY StateParts, Constants DEF Memory
  <2>2. a \in State /\ a = With(s, s.mem, Slot(s).frame, s.res) /\ Coherent(a)
    BY <2>1, SlotAccess
  <2> HIDE DEF a
  <2>3. a.seen = s.seen /\ a.mem = s.mem /\ a.tlb = Slot(s).frame
    BY <2>2 DEF With
  <2>4. a.mem[a.tlb][t] \in PTE
    BY <1>1, <2>1, <2>3 DEF Memory
  <2> QED
    BY <2>2, <2>3, <2>4 DEF PTE
<1> HIDE DEF t, a, F
<1>3. b \in State /\ Coherent(b) /\ b.seen = s.seen /\ b.res = KERNEL_TEMP_VADDR
  BY <1>2, TempMapState
<1> HIDE DEF b
<1>4. q \in Seq(Allocatable)
  <2>1. b.pool \in Seq(Allocatable)
    BY <1>3, StateParts
  <2>2. b.res \in Allocatable
    BY <1>3, Constants
  <2> QED
    BY <2>1, <2>2, AppendProperties
<1>5. d \in State /\ Coherent(d) /\ d.seen = s.seen
  <2>1. b = With(b, b.mem, b.tlb, b.res)
    BY <1>3, StateParts
  <2>2. d = [mem |-> b.mem, tlb |-> b.tlb, pool |-> q, array |-> b.array, res |-> b.res,
             seen |-> b.seen]
    BY <2>1, SMTT(30) DEF With
  <2>3. /\ b.mem \in Memory /\ b.tlb \in Frames \union {NoFrame} /\ b.res \in Nat
        /\ b.array \in [0 .. HEAP_PAGES - 1 -> Frames] /\ b.seen \in SUBSET Notes
    BY <1>3, StateParts
  <2> HIDE DEF d, q
  <2>4. d \in State
    BY <2>2, <2>3, <1>4 DEF State, Memory
  <2>5. d.mem = b.mem /\ d.tlb = b.tlb /\ d.seen = b.seen
    BY <2>2
  <2> QED
    BY <2>4, <2>5, <1>3 DEF Coherent, Slot, kernel_get_temporary_entry
<1> HIDE DEF d
<1>6. e \in PTE
  <2>1. Empty \in PTE
    BY Constants DEF Empty, PTE
  <2>2. ReadTemp(d) \in [Idx -> PTE]
    BY <1>5, <2>1, SetEntryState
  <2> QED
    BY <1>1, <2>2, ChangedEntry
<1> HIDE DEF e
<1>7. c \in State /\ c.seen = s.seen
  BY <1>5, <1>6, SetEntryState
<1> HIDE DEF c
<1>8. Slot(a) \in PTE
  BY <1>2, StateParts
<1>9. out \in State /\ out.seen = s.seen
  BY <1>7, <1>8, SetSlotState
<1> QED
  BY <1>1, <1>9

(* The entry of a page is an entry. *)
LEMMA EntryType ==
  ASSUME NEW s \in State, NEW pd \in Frames, NEW v \in VPages
  PROVE  Walk(s, pd, v) \in PTE /\ Walk(s, pd, v).frame \in Frames
<1> DEFINE pde == s.mem[pd][GET_PD_IDX(v)]
<1>1. s.mem \in Memory /\ GET_PD_IDX(v) \in Idx /\ GET_PT_IDX(v) \in Idx
  BY StateParts, AddressParts
<1>2. pde \in PTE
  BY <1>1 DEF Memory
<1>3. pde.frame \in Frames
  BY <1>2 DEF PTE
<1> HIDE DEF pde
<1>4. s.mem[pde.frame][GET_PT_IDX(v)] \in PTE
  BY <1>1, <1>3 DEF Memory
<1>5. Empty \in PTE
  BY Constants DEF Empty, PTE
<1>6. Walk(s, pd, v) \in PTE
  BY <1>4, <1>5 DEF Walk, pde
<1> QED
  BY <1>6 DEF PTE


(***************************************************************************)
(* The slot, under every sequence of calls.                                *)
(***************************************************************************)

(* What every step keeps, whatever was noted and whether or not the kernel is broken *)
SlotInv ==
  /\ Now \in State /\ Coherent(Now) /\ NoStaleAccess
  /\ i \in 0 .. HEAP_PAGES /\ total_malloc_pages \in Nat /\ total_malloc_pages <= HeapLimit
  /\ i < HEAP_PAGES => HEAP_PAGES <= total_malloc_pages
  /\ \A dir \in dirs : dir.pdt \in VPages

(* A step to s makes s the state. *)
LEMMA BecomesNow ==
  ASSUME NEW s \in State, Becomes(s)
  PROVE  Now' = s
<1>1. s = [mem |-> s.mem, tlb |-> s.tlb, pool |-> s.pool, array |-> s.array, res |-> s.res,
           seen |-> s.seen]
  BY DEF State
<1>2. Now' = [mem |-> s.mem, tlb |-> s.tlb, pool |-> s.pool, array |-> s.array, res |-> s.res,
              seen |-> s.seen]
  BY DEF Now, Becomes
<1> QED
  BY <1>1, <1>2, Zenon

(* One call after another keeps what both keep. *)
LEMMA KeepsTransitive ==
  ASSUME NEW s, NEW a, NEW b, Keeps(s, a), Keeps(a, b)
  PROVE  Keeps(s, b)
BY DEF Keeps

(* A page of the heap, or one it grows by, is a page below the kernel image. *)
LEMMA HeapPage ==
  ASSUME NEW v \in Nat, NEW n \in Nat, v < n, n <= HeapLimit
  PROVE  v \in VPages /\ GET_PD_IDX(v) < KERNEL_PT_PDT_IDX
<1> DEFINE p == PT_ENTRIES
<1>1. p \in Nat \ {0} /\ KERNEL_PT_PDT_IDX \in Nat /\ KERNEL_PT_PDT_IDX <= p
      /\ HeapLimit \in 0 .. KERNEL_PT_PDT_IDX * p
  BY PagingAssumption
<1>2. KERNEL_PT_PDT_IDX * p \in Nat /\ KERNEL_PT_PDT_IDX * p <= p * p
  BY <1>1
<1>3. v \in VPages /\ v < KERNEL_PT_PDT_IDX * p
  BY <1>1, <1>2 DEF VPages
<1>4. GET_PD_IDX(v) \in Nat /\ GET_PT_IDX(v) \in Nat /\ v = GET_PD_IDX(v) * p + GET_PT_IDX(v)
  BY <1>3, AddressParts DEF Idx
<1>5. GET_PD_IDX(v) < KERNEL_PT_PDT_IDX
  <2>1. SUFFICES ASSUME GET_PD_IDX(v) >= KERNEL_PT_PDT_IDX PROVE FALSE
    BY <1>1, <1>4
  <2>2. GET_PD_IDX(v) * p >= KERNEL_PT_PDT_IDX * p
    BY <2>1, <1>1, <1>4
  <2> QED
    BY <2>2, <1>1, <1>2, <1>3, <1>4
<1> QED
  BY <1>3, <1>5

(* So is the page of a process's stack. *)
LEMMA StackPage ==
  PROCESS_INIT_STACK_VADDR \in VPages /\ GET_PD_IDX(PROCESS_INIT_STACK_VADDR) = KERNEL_PT_PDT_IDX - 1
<1> DEFINE d == KERNEL_PT_PDT_IDX - 1
<1>1. d \in Idx /\ KERNEL_TMP_PT_IDX \in Idx
  BY Constants DEF Idx
<1>2. PROCESS_INIT_STACK_VADDR = d * PT_ENTRIES + KERNEL_TMP_PT_IDX
  BY Constants DEF PROCESS_INIT_STACK_VADDR, KERNEL_TMP_PT_IDX, Idx
<1> QED
  BY <1>1, <1>2, AddressOfParts

(* Growing the heap by a page: map_page, then the entry once more through the slot *)
GrownBy(s, fr, v) ==
  LET a == kernel_map_page(s, fr, v, TRUE)
      b == get_page(a, v)
      c == SetEntry(b, v, [ReadTemp(b)[GET_PT_IDX(v)] EXCEPT !.rw = TRUE, !.present = TRUE])
  IN kernel_set_temporary_entry(c, kernel_get_temporary_entry(a))

(* That keeps the slot. *)
LEMMA GrowPageKeeps ==
  ASSUME NEW s \in State, Coherent(s), NEW v \in VPages, NEW fr \in Frames
  PROVE  Keeps(s, GrownBy(s, fr, v))
<1> DEFINE a == kernel_map_page(s, fr, v, TRUE)
           b == get_page(a, v)
           e == [ReadTemp(b)[GET_PT_IDX(v)] EXCEPT !.rw = TRUE, !.present = TRUE]
           out == kernel_set_temporary_entry(SetEntry(b, v, e), kernel_get_temporary_entry(a))
<1>1. Keeps(s, a)
  BY KernelMapPageKeeps
<1>2. a \in State
  BY <1>1 DEF Keeps
<1> HIDE DEF a
<1>3. e \in PTE
  <2>1. Empty \in PTE /\ GET_PT_IDX(v) \in Idx
    BY Constants, AddressParts DEF Empty, PTE
  <2>2. ReadTemp(b) \in [Idx -> PTE]
    BY <1>2, <2>1, EntryEdited
  <2> QED
    BY <2>1, <2>2, ChangedEntry
<1> HIDE DEF e
<1>4. Keeps(a, out)
  BY <1>2, <1>3, EntryEdited
<1>5. Keeps(s, out)
  <2> HIDE DEF out
  <2> QED
    BY <1>1, <1>4, KeepsTransitive
<1> QED
  BY <1>5 DEF GrownBy, a, e


(* Every step leaves the slot as it found it, and the directories keep their pages. *)
LEMMA StepKeeps ==
  ASSUME SlotInv, [NextExported]_vars
  PROVE  /\ Keeps(Now, Now')
         /\ i' \in 0 .. HEAP_PAGES /\ total_malloc_pages' \in Nat
         /\ total_malloc_pages' <= HeapLimit
         /\ i' < HEAP_PAGES => HEAP_PAGES <= total_malloc_pages'
         /\ \A dir \in dirs' : dir.pdt \in VPages
<1>1. /\ Now \in State /\ Coherent(Now) /\ i \in 0 .. HEAP_PAGES /\ total_malloc_pages \in Nat
      /\ total_malloc_pages <= HeapLimit
      /\ i < HEAP_PAGES => HEAP_PAGES <= total_malloc_pages
      /\ \A dir \in dirs : dir.pdt \in VPages
  BY DEF SlotInv
<1>2. Keeps(Now, Now)
  BY <1>1 DEF Keeps
<1>3. /\ HEAP_PAGES \in Nat \ {0} /\ 1 \in 1 .. HEAP_PAGES /\ HEAP_PAGES \in 1 .. HEAP_PAGES
      /\ TRUE \in BOOLEAN
  BY Constants
<1>4. array \in [0 .. HEAP_PAGES - 1 -> Frames]
  BY <1>1, StateParts DEF Now
<1>5. ASSUME NEW v \in HeapPages PROVE v \in VPages
  <2>1. v \in Nat /\ v < total_malloc_pages
    BY <1>1 DEF HeapPages
  <2> QED
    BY <2>1, <1>1, HeapPage
<1>6. CASE UNCHANGED vars
  <2>1. Now' = Now /\ UNCHANGED <<i, total_malloc_pages, dirs>>
    BY <1>6 DEF vars, machine, Now
  <2> QED
    BY <2>1, <1>1, <1>2
<1>7. CASE GrowHeap
  <2> DEFINE a == pf_allocate_frames(Now, HEAP_PAGES)
  <2>1. Keeps(Now, a)
    BY <1>1, <1>3, PfAllocateKeeps
  <2>2. Becomes(a) /\ total_malloc_pages' = total_malloc_pages + HEAP_PAGES /\ i' = 0
        /\ dirs' = dirs /\ total_malloc_pages + HEAP_PAGES <= HeapLimit
    BY <1>7 DEF GrowHeap
  <2> HIDE DEF a
  <2>3. Now' = a
    BY <2>1, <2>2, BecomesNow DEF Keeps
  <2> QED
    BY <2>1, <2>2, <2>3, <1>1, <1>3
<1>8. CASE GrowPage
  <2> DEFINE virt == total_malloc_pages - HEAP_PAGES + i
             s == GrownBy(Now, HeapFrame(i), virt)
  <2>1. i < HEAP_PAGES /\ Becomes(s) /\ i' = i + 1 /\ UNCHANGED <<dirs, total_malloc_pages>>
    BY <1>8 DEF GrowPage, GrownBy
  <2>2. virt \in VPages
    <3>1. virt \in Nat /\ virt < total_malloc_pages
      BY <2>1, <1>1, <1>3
    <3> QED
      BY <3>1, <1>1, HeapPage
  <2>3. HeapFrame(i) \in Frames
    BY <2>1, <1>1, <1>3, <1>4 DEF HeapFrame
  <2> HIDE DEF virt
  <2>4. Keeps(Now, s)
    BY <2>2, <2>3, <1>1, GrowPageKeeps
  <2> HIDE DEF s
  <2>5. Now' = s
    BY <2>1, <2>4, BecomesNow DEF Keeps
  <2> QED
    BY <2>1, <2>4, <2>5, <1>1, <1>3
<1>9. CASE create_pdt
  <2> DEFINE a == pf_allocate_frames(Now, 1)
             b == pdt_kernel_find_next_vaddr(a, 1)
             c == kernel_map_page(b, b.array[0], b.res, TRUE)
             d == [c EXCEPT !.res = b.res]
  <2>1. UNCHANGED <<total_malloc_pages, i>>
    BY <1>9 DEF create_pdt
  <2>2. \/ Becomes(a) /\ UNCHANGED dirs
        \/ Becomes(b) /\ UNCHANGED dirs
        \/ Becomes(c) /\ UNCHANGED dirs
        \/ Becomes(d) /\ dirs' = dirs \union {[pdt |-> b.res, pdt_paddr |-> DirectoryFrame(c)]}
    BY <1>9, Zenon DEF create_pdt
  <2>3. Keeps(Now, a)
    BY <1>1, <1>3, PfAllocateKeeps
  <2> HIDE DEF a
  <2>4. a \in State /\ Coherent(a)
    BY <2>3 DEF Keeps
  <2>5. Keeps(a, b) /\ b.res \in VPages
    BY <2>4, SearchEffect
  <2> HIDE DEF b
  <2>6. b \in State /\ Coherent(b) /\ b.res \in Nat
    BY <2>5 DEF Keeps, VPages
  <2>7. b.array[0] \in Frames
    BY <2>6, <1>3, StateParts
  <2>8. Keeps(b, c)
    BY <2>5, <2>6, <2>7, <1>3, KernelMapPageKeeps
  <2> HIDE DEF c
  <2>9. c \in State /\ Coherent(c)
    BY <2>8 DEF Keeps
  <2>10. d \in State /\ Coherent(d) /\ Slot(d) = Slot(c) /\ d.seen = c.seen
    BY <2>6, <2>9, ResState
  <2> HIDE DEF d
  <2>11. Keeps(Now, a) /\ Keeps(Now, b) /\ Keeps(Now, c) /\ Keeps(Now, d)
    <3>1. Keeps(Now, c)
      BY <2>3, <2>5, <2>8, KeepsTransitive
    <3> QED
      BY <2>3, <2>5, <2>10, <3>1, KeepsTransitive DEF Keeps
  <2>12. Now' \in {a, b, c, d}
    BY <2>2, <2>4, <2>6, <2>9, <2>10, BecomesNow
  <2>13. \A dir \in dirs' : dir.pdt \in VPages
    BY <2>2, <2>5, <1>1
  <2> QED
    BY <2>1, <2>11, <2>12, <2>13, <1>1
<1>10. CASE process_set_kernel_stack
  <2> DEFINE a == pf_allocate_frames(Now, 1)
             b == pdt_kernel_find_next_vaddr(a, 1)
             c == kernel_map_page(b, b.array[0], b.res, TRUE)
             d == [b EXCEPT !.res = 0]
  <2>1. UNCHANGED <<total_malloc_pages, i, dirs>>
    BY <1>10 DEF process_set_kernel_stack
  <2>2. Becomes(c) \/ Becomes(d)
    BY <1>10, Zenon DEF process_set_kernel_stack, KernelStackSearch
  <2>3. Keeps(Now, a)
    BY <1>1, <1>3, PfAllocateKeeps
  <2> HIDE DEF a
  <2>4. a \in State /\ Coherent(a)
    BY <2>3 DEF Keeps
  <2>5. Keeps(a, b) /\ b.res \in VPages
    BY <2>4, SearchEffect
  <2> HIDE DEF b
  <2>6. b \in State /\ Coherent(b) /\ b.res \in Nat
    BY <2>5 DEF Keeps, VPages
  <2>7. b.array[0] \in Frames
    BY <2>6, <1>3, StateParts
  <2>8. Keeps(b, c)
    BY <2>5, <2>6, <2>7, <1>3, KernelMapPageKeeps
  <2> HIDE DEF c
  <2>9. c \in State
    BY <2>8 DEF Keeps
  <2>10. d \in State /\ Coherent(d) /\ Slot(d) = Slot(b) /\ d.seen = b.seen
    BY <2>6, ResState
  <2> HIDE DEF d
  <2>11. Keeps(Now, c) /\ Keeps(Now, d)
    <3>1. Keeps(Now, b)
      BY <2>3, <2>5, KeepsTransitive
    <3> QED
      BY <2>8, <2>10, <3>1, KeepsTransitive DEF Keeps
  <2>12. Now' = c \/ Now' = d
    BY <2>2, <2>9, <2>10, BecomesNow
  <2> QED
    BY <2>1, <2>11, <2>12, <1>1
<1>11. ASSUME NEW dir \in dirs, process_set_stack(dir)
       PROVE  Keeps(Now, Now') /\ UNCHANGED <<total_malloc_pages, i, dirs>>
  <2> DEFINE a == pf_allocate_frames(Now, 1)
             pd == Entry(Now, dir.pdt).frame
             fr == a.array[0]
             c == map_page(a, pd, fr, PROCESS_INIT_STACK_VADDR, TRUE)
  <2>1. UNCHANGED <<total_malloc_pages, i, dirs>> /\ (Becomes(a) \/ Becomes(c))
    BY <1>11, Zenon DEF process_set_stack
  <2>2. Keeps(Now, a) /\ fr \in Frames
    BY <1>1, <1>3, PfAllocateKeeps
  <2>3. pd \in Frames
    BY <1>1, Constants, EntryType DEF Entry
  <2> HIDE DEF a, pd, fr
  <2>4. a \in State /\ Coherent(a)
    BY <2>2 DEF Keeps
  <2>5. PROCESS_INIT_STACK_VADDR \in VPages
        /\ ~IsSlot(pd, GET_PD_IDX(PROCESS_INIT_STACK_VADDR))
    <3>1. GET_PD_IDX(PROCESS_INIT_STACK_VADDR) # KERNEL_TMP_PT_IDX
      BY StackPage, Constants DEF Idx
    <3> QED
      BY <3>1, StackPage DEF IsSlot
  <2>6. Keeps(a, c)
    BY <2>2, <2>3, <2>4, <2>5, <1>3, MapPageKeeps
  <2> HIDE DEF c
  <2>7. Keeps(Now, c) /\ c \in State
    BY <2>2, <2>6, KeepsTransitive DEF Keeps
  <2>8. Now' = a \/ Now' = c
    BY <2>1, <2>4, <2>7, BecomesNow
  <2> QED
    BY <2>1, <2>2, <2>7, <2>8
<1>12. ASSUME NEW v \in HeapPages, UnmapPage(v)
       PROVE  Keeps(Now, Now') /\ UNCHANGED <<total_malloc_pages, i, dirs>>
  <2> DEFINE a == unmap_page(Now, v)
  <2>1. UNCHANGED <<total_malloc_pages, i, dirs>> /\ Becomes(a)
    BY <1>12 DEF UnmapPage
  <2>2. Keeps(Now, a)
    BY <1>1, <1>5, UnmapPageEffect
  <2> HIDE DEF a
  <2>3. Now' = a
    BY <2>1, <2>2, BecomesNow DEF Keeps
  <2> QED
    BY <2>1, <2>2, <2>3
<1>13. ASSUME NEW a \in State, a.seen = Now.seen, Borrowing(a)
       PROVE  Keeps(Now, Now') /\ UNCHANGED <<total_malloc_pages, i, dirs>>
  <2> DEFINE b == kernel_set_temporary_entry(a, kernel_get_temporary_entry(Now))
             c == [b EXCEPT !.res = a.res]
  <2>1. UNCHANGED <<total_malloc_pages, i, dirs>> /\ Becomes(c)
    BY <1>13 DEF Borrowing
  <2>2. Keeps(Now, b)
    BY <1>1, <1>13, SlotReturned
  <2> HIDE DEF b
  <2>3. b \in State /\ Coherent(b) /\ a.res \in Nat
    BY <2>2, <1>13, StateParts DEF Keeps
  <2>4. c \in State /\ Coherent(c) /\ Slot(c) = Slot(b) /\ c.seen = b.seen
    BY <2>3, ResState
  <2> HIDE DEF c
  <2>5. Keeps(Now, c)
    BY <2>2, <2>4 DEF Keeps
  <2>6. Now' = c
    BY <2>1, <2>4, BecomesNow
  <2> QED
    BY <2>1, <2>5, <2>6
<1>14. ASSUME NEW v \in HeapPages, GetPage(v) \/ AllocatePage(v) \/ FreePage(v)
       PROVE  Keeps(Now, Now') /\ UNCHANGED <<total_malloc_pages, i, dirs>>
  <2> DEFINE a == get_page(Now, v)
  <2>1. a \in State /\ Coherent(a) /\ a.seen = Now.seen
    BY <1>1, <1>5, GetPageState
  <2>2. Borrowing(a) \/ Borrowing(allocate_page(a, v)) \/ Borrowing(free_page(a, v))
    BY <1>14 DEF GetPage, AllocatePage, FreePage
  <2> HIDE DEF a
  <2>3. /\ allocate_page(a, v) \in State /\ allocate_page(a, v).seen = Now.seen
        /\ free_page(a, v) \in State /\ free_page(a, v).seen = Now.seen
    BY <2>1, <1>5, AllocatePageState, FreePageState
  <2> QED
    BY <2>1, <2>2, <2>3, <1>13
<1>15. Keeps(Now, Now') /\ UNCHANGED <<total_malloc_pages, i, dirs>> =>
         /\ Keeps(Now, Now')
         /\ i' \in 0 .. HEAP_PAGES /\ total_malloc_pages' \in Nat
         /\ total_malloc_pages' <= HeapLimit
         /\ i' < HEAP_PAGES => HEAP_PAGES <= total_malloc_pages'
         /\ \A dir \in dirs' : dir.pdt \in VPages
  BY <1>1
<1> QED
  BY <1>6, <1>7, <1>8, <1>9, <1>10, <1>11, <1>12, <1>14, <1>15, Zenon DEF NextExported, Next


(* The boot table's state is one the functions are called on. *)
LEMMA InitSlotInv == Init => SlotInv
<1> SUFFICES ASSUME Init PROVE SlotInv
  OBVIOUS
<1>1. PICK fresh \in {Empty, Junk} : mem = BootMem(fresh)
  BY DEF Init
<1>2. /\ Empty \in PTE /\ Junk \in PTE
      /\ \A t \in Idx : [present |-> TRUE, rw |-> TRUE, user |-> TRUE, frame |-> t] \in PTE
  BY Constants DEF Empty, Junk, PTE
<1>3. mem \in Memory
  <2>1. fresh \in PTE
    BY <1>2
  <2>2. ASSUME NEW f \in Frames PROVE BootMem(fresh)[f] \in [Idx -> PTE]
    BY <1>2, <2>1, Constants DEF BootMem, Junk
  <2>3. BootMem(fresh) \in [Frames -> [Idx -> PTE]]
    BY <2>2 DEF BootMem
  <2> QED
    BY <2>3, <1>1 DEF Memory
<1>4. Slot(Now).frame = KERNEL_TMP_PT_IDX
  BY <1>1, Constants DEF BootMem, Slot, kernel_get_temporary_entry, Now
<1>5. pool \in Seq(Allocatable)
  <2>1. TOTAL_FRAMES - START \in Nat
    BY Constants
  <2>2. \A k \in 1 .. TOTAL_FRAMES - START : START + k - 1 \in Allocatable
    BY Constants DEF Allocatable, Frames
  <2>3. FreeFrames \in Seq(Allocatable)
    BY <2>1, <2>2, SeqDef DEF FreeFrames
  <2> QED
    BY <2>3 DEF Init
<1>6. /\ tlb \in {NoFrame, KERNEL_TMP_PT_IDX} /\ res = 0 /\ seen = {} /\ dirs = {}
      /\ total_malloc_pages = 0 /\ i = HEAP_PAGES
      /\ array = [k \in 0 .. HEAP_PAGES - 1 |-> 0]
  BY DEF Init
<1>7. Now \in State
  <2>1. tlb \in Frames \union {NoFrame} /\ array \in [0 .. HEAP_PAGES - 1 -> Frames] /\ res \in Nat
        /\ seen \in SUBSET Notes
    BY <1>6, Constants
  <2> QED
    BY <2>1, <1>3, <1>5 DEF Now, State, Memory
<1>8. Coherent(Now)
  BY <1>4, <1>6 DEF Coherent, Now
<1>9. HEAP_PAGES \in Nat /\ HeapLimit \in Nat /\ HeapLimit >= 0
  BY PagingAssumption
<1> QED
  BY <1>6, <1>7, <1>8, <1>9 DEF SlotInv, NoStaleAccess

(* SlotInv is inductive. *)
LEMMA NextSlotInv == SlotInv /\ [NextExported]_vars => SlotInv'
<1> SUFFICES ASSUME SlotInv, [NextExported]_vars PROVE SlotInv'
  OBVIOUS
<1>1. /\ Keeps(Now, Now')
      /\ i' \in 0 .. HEAP_PAGES /\ total_malloc_pages' \in Nat
      /\ total_malloc_pages' <= HeapLimit
      /\ i' < HEAP_PAGES => HEAP_PAGES <= total_malloc_pages'
      /\ \A dir \in dirs' : dir.pdt \in VPages
  BY StepKeeps
<1>2. Now' \in State /\ Coherent(Now') /\ ("stale" \in Now'.seen => "stale" \in Now.seen)
  BY <1>1 DEF Keeps
<1>3. Now'.seen = seen' /\ Now.seen = seen /\ "stale" \notin seen
  BY DEF Now, SlotInv, NoStaleAccess
<1>4. Coherent(Now)'
  BY <1>2 DEF Coherent, Slot, kernel_get_temporary_entry
<1> QED
  BY <1>1, <1>2, <1>3, <1>4 DEF SlotInv, NoStaleAccess

(* A step of the functions that are called is one of those exported. *)
LEMMA SpecImpliesExported == Spec => SpecExported
<1>1. [Next]_vars => [NextExported]_vars
  BY DEF NextExported
<1> QED
  BY <1>1, PTL DEF Spec, SpecExported

(* No access through the slot ever uses an old translation: each function that changes
   the slot's entry flushes it, and no table written through it is the kernel's until it
   is flushed again (paging.c: temp_map_page, kernel_set_temporary_entry).  *)
THEOREM NoStaleAccessHolds == SpecExported => []NoStaleAccess
<1>1. SlotInv => NoStaleAccess
  BY DEF SlotInv
<1> QED
  BY <1>1, InitSlotInv, NextSlotInv, PTL DEF SpecExported

(* Every call gives the temporary slot back as it found it: each function that
   borrows it, on every path, nested or not.  *)
THEOREM TempSlotRestoredHolds == SpecExported => TempSlotRestored
<1>1. SlotInv /\ [NextExported]_vars =>
        [kernel_get_temporary_entry(Now)' = kernel_get_temporary_entry(Now)]_vars
  <2> SUFFICES ASSUME SlotInv, [NextExported]_vars
               PROVE  kernel_get_temporary_entry(Now)' = kernel_get_temporary_entry(Now)
    OBVIOUS
  <2>1. Slot(Now') = Slot(Now)
    BY StepKeeps DEF Keeps
  <2> QED
    BY <2>1 DEF Slot, kernel_get_temporary_entry
<1> QED
  BY <1>1, InitSlotInv, NextSlotInv, PTL DEF SpecExported, TempSlotRestored

(* Both hold of the functions that are called. *)
THEOREM CalledKeepSlot == Spec => []NoStaleAccess /\ TempSlotRestored
BY SpecImpliesExported, NoStaleAccessHolds, TempSlotRestoredHolds, PTL


(***************************************************************************)
(* Frames.  A place is an entry d of a directory with, for a page, an      *)
(* entry t of its table; the table itself is at the place with t = Itself. *)
(* R is the set of the directories' frames and W a set of frames in hand.  *)
(***************************************************************************)

Itself == -1
Spots == Idx \union {Itself}

HasTable(s, pd, d) == s.mem[pd][d].present /\ s.mem[pd][d].frame # KERNEL_PT

Used(s, pd, d, t) ==
  HasTable(s, pd, d) /\ (t # Itself => s.mem[s.mem[pd][d].frame][t].present)

At(s, pd, d, t) ==
  IF t = Itself THEN s.mem[pd][d].frame ELSE s.mem[s.mem[pd][d].frame][t].frame

Free(s) == {s.pool[k] : k \in 1 .. Len(s.pool)}

(* No frame is at two places. *)
Unique(s, R) ==
  \A p, q \in R, d, e \in Idx, t, u \in Spots :
    Used(s, p, d, t) /\ Used(s, q, e, u) /\ At(s, p, d, t) = At(s, q, e, u) =>
      p = q /\ d = e /\ t = u

(* A frame at a place came from the allocator and is neither in hand nor free. *)
Taken(s, R, W) ==
  \A p \in R, d \in Idx, t \in Spots :
    Used(s, p, d, t) => At(s, p, d, t) \in (START .. TOTAL_FRAMES - 1) \ (W \union Free(s))

(* Frames in hand and free ones differ, and hold what they held at first. *)
Untouched(s, W) ==
  /\ W \union Free(s) \subseteq START .. TOTAL_FRAMES - 1 /\ W \intersect Free(s) = {}
  /\ \A j, k \in 1 .. Len(s.pool) : s.pool[j] = s.pool[k] => j = k
  /\ \A f \in W \union Free(s), x \in Idx : s.mem[f][x] \in {Empty, Junk}

(* The kernel image has its entry of the kernel's directory and no other has its table;
   its table has every page but, perhaps, the slot.  *)
KernelTables(s) ==
  /\ s.mem[KERNEL_PD][KERNEL_PT_PDT_IDX].present
  /\ s.mem[KERNEL_PD][KERNEL_PT_PDT_IDX].frame = KERNEL_PT
  /\ \A d \in Idx \ {KERNEL_PT_PDT_IDX} :
       IF s.mem[KERNEL_PD][d].present THEN s.mem[KERNEL_PD][d].frame # KERNEL_PT
                                      ELSE s.mem[KERNEL_PD][d].frame = 0
  /\ \A t \in Idx \ {KERNEL_TMP_PT_IDX} : s.mem[KERNEL_PT][t].present

(* A process's directory is a page of the kernel's upper half, and leads to the kernel's
   table only where nothing was written yet.  *)
Directories(s, R) ==
  /\ KERNEL_PD \in R /\ R \subseteq Frames
  /\ \A p \in R \ {KERNEL_PD} :
       /\ \E d, t \in Idx : /\ d > KERNEL_PT_PDT_IDX
                            /\ Used(s, KERNEL_PD, d, t) /\ At(s, KERNEL_PD, d, t) = p
       /\ \A d \in Idx : s.mem[p][d].present /\ s.mem[p][d].frame = KERNEL_PT => s.mem[p][d] = Junk

Shape(s, R, W) ==
  Unique(s, R) /\ Taken(s, R, W) /\ Untouched(s, W) /\ KernelTables(s) /\ Directories(s, R)

(* The frames of the directories ds, and those malloc has still to map after k *)
RootsOf(s, ds) == {KERNEL_PD} \union {Entry(s, dir.pdt).frame : dir \in ds}
InHand(s, k) == {s.array[j] : j \in k .. HEAP_PAGES - 1}

(* The place of a page in the kernel's directory *)
InUse(s, v) == Used(s, KERNEL_PD, GET_PD_IDX(v), GET_PT_IDX(v))
FrameOf(s, v) == At(s, KERNEL_PD, GET_PD_IDX(v), GET_PT_IDX(v))

(* The frames with directories ds, in the k-th iteration of malloc's loop, the heap to
   grow by page next: every directory is mapped above the kernel image, each at a page
   of its own, and no page from next on is.  *)
FramesShapeOf(s, ds, k, next) ==
  /\ Shape(s, RootsOf(s, ds), InHand(s, k))
  /\ \A j, l \in k .. HEAP_PAGES - 1 : s.array[j] = s.array[l] => j = l
  /\ \A dir \in ds : GET_PD_IDX(dir.pdt) > KERNEL_PT_PDT_IDX /\ InUse(s, dir.pdt)
  /\ \A d, e \in ds : d.pdt = e.pdt => d = e
  /\ \A v \in next .. HeapLimit - 1 : ~InUse(s, v)

HeapNext == total_malloc_pages - HEAP_PAGES + i

(* What holds until something was noted *)
FramesShape == FramesShapeOf(Now, dirs, i, HeapNext)

FramesInv == SlotInv /\ (seen = {} /\ ~broken => FramesShape)

(* A root is no table and no frame in hand, free or below the allocator's. *)
LEMMA RootFacts ==
  ASSUME NEW s \in State, NEW R, NEW W, Shape(s, R, W), NEW p \in R
  PROVE  /\ p \in Frames /\ p # KERNEL_PT /\ p # 0 /\ p \notin W \union Free(s)
         /\ \A q \in R, d \in Idx : HasTable(s, q, d) => s.mem[q][d].frame # p
<1>1. Unique(s, R) /\ Taken(s, R, W) /\ Untouched(s, W) /\ Directories(s, R) /\ KERNEL_PD \in R
  BY DEF Shape, Directories
<1>2. ASSUME NEW q \in R, NEW d \in Idx, HasTable(s, q, d)
      PROVE  Used(s, q, d, Itself) /\ At(s, q, d, Itself) = s.mem[q][d].frame
             /\ s.mem[q][d].frame \in START .. TOTAL_FRAMES - 1
  <2>1. Used(s, q, d, Itself) /\ At(s, q, d, Itself) = s.mem[q][d].frame /\ Itself \in Spots
    BY <1>2 DEF Used, At, Spots
  <2> QED
    BY <2>1, <1>1 DEF Taken
<1>3. CASE p = KERNEL_PD
  <2>1. p \in Frames /\ p # KERNEL_PT /\ p # 0 /\ p \notin START .. TOTAL_FRAMES - 1
    BY <1>3, Constants
  <2> QED
    BY <2>1, <1>1, <1>2 DEF Untouched
<1>4. CASE p # KERNEL_PD
  <2>1. PICK e, u \in Idx : Used(s, KERNEL_PD, e, u) /\ At(s, KERNEL_PD, e, u) = p
    BY <1>1, <1>4 DEF Directories
  <2>2. u \in Spots /\ u # Itself /\ Itself \in Spots
    BY Constants DEF Spots, Itself, Idx
  <2>3. p \in (START .. TOTAL_FRAMES - 1) \ (W \union Free(s))
    BY <2>1, <2>2, <1>1 DEF Taken
  <2>4. p \in Frames /\ p # KERNEL_PT /\ p # 0
    BY <2>3, Constants DEF Frames
  <2>5. ASSUME NEW q \in R, NEW d \in Idx, HasTable(s, q, d), s.mem[q][d].frame = p PROVE FALSE
    <3>1. Used(s, q, d, Itself) /\ At(s, q, d, Itself) = p
      BY <1>2, <2>5
    <3> QED
      BY <3>1, <2>1, <2>2, <1>1 DEF Unique
  <2> QED
    BY <2>3, <2>4, <2>5
<1> QED
  BY <1>3, <1>4

(* A table is at its place: a frame the allocator handed out, at no other. *)
LEMMA TableFacts ==
  ASSUME NEW s \in State, NEW R, NEW W, Shape(s, R, W), NEW p \in R, NEW d \in Idx,
         HasTable(s, p, d)
  PROVE  LET T == s.mem[p][d].frame IN
         /\ T \in START .. TOTAL_FRAMES - 1 /\ T \in Frames /\ T # KERNEL_PT
         /\ T \notin W \union Free(s) /\ T \notin R
         /\ \A q \in R, e \in Idx : HasTable(s, q, e) /\ s.mem[q][e].frame = T => q = p /\ e = d
<1> DEFINE T == s.mem[p][d].frame
<1>1. Unique(s, R) /\ Taken(s, R, W)
  BY DEF Shape
<1>2. ASSUME NEW q \in R, NEW e \in Idx, HasTable(s, q, e)
      PROVE  Used(s, q, e, Itself) /\ At(s, q, e, Itself) = s.mem[q][e].frame
  BY <1>2 DEF Used, At
<1>3. Itself \in Spots
  BY DEF Spots
<1>4. T \in (START .. TOTAL_FRAMES - 1) \ (W \union Free(s))
  BY <1>1, <1>2, <1>3 DEF Taken
<1>5. T \in Frames /\ T # KERNEL_PT
  BY <1>4, Constants DEF Frames
<1>6. T \notin R
  BY RootFacts
<1>7. \A q \in R, e \in Idx : HasTable(s, q, e) /\ s.mem[q][e].frame = T => q = p /\ e = d
  BY <1>1, <1>2, <1>3 DEF Unique
<1> QED
  BY <1>4, <1>5, <1>6, <1>7

(* A page is mapped: its place has frame fr, and every other place what it had, but
   that the table, if it is new, was free before.  *)
MapsPlace(s, out, R, W, pd, d, t, fr) ==
  /\ Free(out) \subseteq Free(s)
  /\ \A j, k \in 1 .. Len(out.pool) : out.pool[j] = out.pool[k] => j = k
  /\ Used(out, pd, d, t) /\ At(out, pd, d, t) = fr
  /\ \A p \in R, e \in Idx, u \in Spots :
       ~(p = pd /\ e = d /\ u = t) /\ Used(s, p, e, u) =>
         Used(out, p, e, u) /\ At(out, p, e, u) = At(s, p, e, u)
  /\ \A p \in R, e \in Idx, u \in Spots :
       Used(out, p, e, u) =>
         \/ p = pd /\ e = d /\ u = t
         \/ Used(s, p, e, u)
         \/ p = pd /\ e = d /\ u = Itself /\ At(out, p, e, u) \in Free(s) \ Free(out)
  /\ \A p \in R, e \in Idx : (p = pd /\ e = d) \/ out.mem[p][e] = s.mem[p][e]
  /\ \A f \in W \union Free(out) \union {KERNEL_PT}, x \in Idx : out.mem[f][x] = s.mem[f][x]

(* map_page does that when it finds the table, *)
LEMMA MapOldPlaces ==
  ASSUME NEW s \in State, NEW R, NEW W, Shape(s, R, W), NEW pd \in R, NEW v \in VPages,
         NEW fr \in Frames, NEW out, HasTable(s, pd, GET_PD_IDX(v)),
         MappedInOldTable(s, pd, fr, v, out), "ghost" \notin out.seen
  PROVE  MapsPlace(s, out, R, W, pd, GET_PD_IDX(v), GET_PT_IDX(v), fr)
<1> DEFINE d == GET_PD_IDX(v)
           t == GET_PT_IDX(v)
           T == s.mem[pd][d].frame
<1>1. d \in Idx /\ t \in Idx /\ t # Itself
  BY AddressParts, Constants DEF Itself, Idx
<1>2. /\ T \in Frames /\ T # KERNEL_PT /\ T \notin W \union Free(s) /\ T \notin R
      /\ \A q \in R, e \in Idx : HasTable(s, q, e) /\ s.mem[q][e].frame = T => q = pd /\ e = d
  BY <1>1, TableFacts
<1>3. /\ \A f \in Frames, x \in Idx :
           ~(f = pd /\ x = d) /\ ~(f = T /\ x \in {0, t}) => out.mem[f][x] = s.mem[f][x]
      /\ out.pool = s.pool
      /\ T # pd =>
           /\ out.mem[pd][d].present = s.mem[pd][d].present /\ out.mem[pd][d].frame = T
           /\ out.mem[T][0].present
           /\ ~IsSlot(T, t) => out.mem[T][t].present /\ out.mem[T][t].frame = fr
           /\ t # 0 => out.mem[T][0].frame = s.mem[T][0].frame
           /\ t # 0 /\ ~s.mem[T][0].present => "ghost" \in out.seen
  BY Zenon DEF MappedInOldTable
<1>4. T # pd /\ ~IsSlot(T, t)
  BY <1>2 DEF IsSlot
<1> HIDE DEF d, t, T
<1>5. /\ out.mem[pd][d].present = s.mem[pd][d].present /\ out.mem[pd][d].frame = T
      /\ out.mem[T][t].present /\ out.mem[T][t].frame = fr
      /\ t # 0 => /\ out.mem[T][0].present /\ s.mem[T][0].present
                  /\ out.mem[T][0].frame = s.mem[T][0].frame
  BY <1>3, <1>4
<1>6. \A p \in R : p \in Frames /\ p # T /\ p \notin W \union Free(s) /\ p # KERNEL_PT
  BY <1>2, RootFacts
<1>7. \A p \in R, e \in Idx : (p = pd /\ e = d) \/ out.mem[p][e] = s.mem[p][e]
  BY <1>3, <1>6
<1>8. HasTable(s, pd, d) /\ HasTable(out, pd, d)
  BY <1>2, <1>5 DEF HasTable, d
<1>9. ASSUME NEW p \in R, NEW e \in Idx, ~(p = pd /\ e = d)
      PROVE  /\ HasTable(out, p, e) <=> HasTable(s, p, e)
             /\ HasTable(s, p, e) => \A x \in Idx :
                  out.mem[out.mem[p][e].frame][x] = s.mem[s.mem[p][e].frame][x]
             /\ out.mem[p][e].frame = s.mem[p][e].frame
  <2>1. out.mem[p][e] = s.mem[p][e]
    BY <1>7, <1>9
  <2>2. ASSUME HasTable(s, p, e)
        PROVE  \A x \in Idx : out.mem[s.mem[p][e].frame][x] = s.mem[s.mem[p][e].frame][x]
    <3>1. s.mem[p][e].frame \in Frames /\ s.mem[p][e].frame \notin R
      BY <2>2, TableFacts
    <3>2. s.mem[p][e].frame # T
      BY <1>2, <1>9, <2>2
    <3> QED
      BY <3>1, <3>2, <1>3
  <2> QED
    BY <2>1, <2>2 DEF HasTable
<1>10. ASSUME NEW p \in R, NEW e \in Idx, NEW u \in Spots, ~(p = pd /\ e = d /\ u = t)
       PROVE  /\ Used(out, p, e, u) <=> Used(s, p, e, u)
              /\ Used(s, p, e, u) => At(out, p, e, u) = At(s, p, e, u)
  <2>1. CASE ~(p = pd /\ e = d)
    <3>1. u # Itself => u \in Idx
      BY DEF Spots
    <3> QED
      BY <2>1, <3>1, <1>9 DEF Used, At
  <2>2. CASE p = pd /\ e = d /\ u = Itself
    BY <2>2, <1>5, <1>8 DEF Used, At, T
  <2>3. CASE p = pd /\ e = d /\ u # Itself
    <3>1. u \in Idx /\ u # t
      BY <2>3, <1>10 DEF Spots
    <3>2. CASE u = 0
      <4>1. /\ out.mem[T][u].present /\ s.mem[T][u].present
            /\ out.mem[T][u].frame = s.mem[T][u].frame
        BY <3>1, <3>2, <1>5
      <4> QED
        BY <4>1, <2>3, <1>5, <1>8 DEF Used, At, T
    <3>3. CASE u # 0
      <4>1. out.mem[T][u] = s.mem[T][u]
        BY <3>1, <3>3, <1>2, <1>3, <1>4
      <4> QED
        BY <4>1, <2>3, <1>5, <1>8 DEF Used, At, T
    <3> QED
      BY <3>2, <3>3
  <2> QED
    BY <2>1, <2>2, <2>3
<1>11. Used(out, pd, d, t) /\ At(out, pd, d, t) = fr
  BY <1>1, <1>5, <1>8 DEF Used, At
<1>12. ASSUME NEW f \in W \union Free(out) \union {KERNEL_PT}, NEW x \in Idx
       PROVE  out.mem[f][x] = s.mem[f][x]
  <2>1. Free(out) = Free(s)
    BY <1>3 DEF Free
  <2>2. f \in Frames /\ f # T /\ f \notin R
    <3>1. W \union Free(s) \subseteq START .. TOTAL_FRAMES - 1
      BY DEF Shape, Untouched
    <3>2. f \in Frames
      BY <2>1, <3>1, Constants DEF Frames
    <3> QED
      BY <2>1, <3>2, <1>2, <1>6
  <2> QED
    BY <2>2, <1>3
<1>13. /\ Free(out) \subseteq Free(s)
       /\ \A j, k \in 1 .. Len(out.pool) : out.pool[j] = out.pool[k] => j = k
  BY <1>3 DEF Free, Shape, Untouched
<1> QED
  BY <1>7, <1>10, <1>11, <1>12, <1>13 DEF MapsPlace, d, t


(* and when it adds one. *)
LEMMA MapNewPlaces ==
  ASSUME NEW s \in State, NEW R, NEW W, Shape(s, R, W), NEW pd \in R, NEW v \in VPages,
         NEW fr \in Frames, NEW out, ~s.mem[pd][GET_PD_IDX(v)].present,
         MappedInNewTable(s, pd, fr, v, out), out.res # 0
  PROVE  MapsPlace(s, out, R, W, pd, GET_PD_IDX(v), GET_PT_IDX(v), fr)
<1> DEFINE d == GET_PD_IDX(v)
           t == GET_PT_IDX(v)
           a == pf_allocate_frames(s, 1)
           T == a.array[0]
<1>1. d \in Idx /\ t \in Idx /\ t # Itself /\ 1 \in 1 .. HEAP_PAGES
  BY AddressParts, Constants DEF Itself, Idx
<1>2. /\ out.pool = a.pool /\ a.res # 0 /\ T \in Allocatable /\ T = s.pool[Len(s.pool)]
      /\ T # pd =>
            /\ \A f \in Frames \ {T}, x \in Idx :
                 ~(f = pd /\ x = d) => out.mem[f][x] = s.mem[f][x]
            /\ out.mem[pd][d].present /\ out.mem[pd][d].frame = T
            /\ \A x \in Idx \ {t} : out.mem[T][x] = Empty
            /\ out.mem[T][t].present /\ out.mem[T][t].frame = fr
  BY Zenon DEF MappedInNewTable
<1>3. /\ Len(s.pool) > 1 /\ Len(a.pool) = Len(s.pool) - 1 /\ Len(s.pool) \in Nat
      /\ \A k \in 1 .. Len(a.pool) : a.pool[k] = s.pool[k]
  <2>1. s.pool \in Seq(Allocatable)
    BY StateParts
  <2>2. Len(s.pool) \in Nat
    BY <2>1, LenProperties
  <2>3. /\ Len(s.pool) > 1 /\ Len(a.pool) = Len(s.pool) - 1
        /\ \A k \in 1 .. Len(a.pool) : a.pool[k] = s.pool[k]
    BY <1>1, <1>2, PfAllocateProperties
  <2> QED
    BY <2>2, <2>3
<1> HIDE DEF d, t, a, T
<1>4. /\ T \in Free(s) \ Free(out) /\ Free(out) \subseteq Free(s)
      /\ \A j, k \in 1 .. Len(out.pool) : out.pool[j] = out.pool[k] => j = k
  <2>1. \A j, k \in 1 .. Len(s.pool) : s.pool[j] = s.pool[k] => j = k
    BY DEF Shape, Untouched
  <2> QED
    BY <2>1, <1>2, <1>3 DEF Free
<1>5. \A p \in R : p \in Frames /\ p # T /\ p # KERNEL_PT
  BY <1>4, RootFacts
<1>6. /\ T \in Frames /\ T # KERNEL_PT /\ T # pd
  BY <1>2, <1>5 DEF Allocatable
<1>7. /\ \A f \in Frames \ {T}, x \in Idx :
           ~(f = pd /\ x = d) => out.mem[f][x] = s.mem[f][x]
      /\ out.mem[pd][d].present /\ out.mem[pd][d].frame = T
      /\ \A x \in Idx \ {t} : out.mem[T][x] = Empty
      /\ out.mem[T][t].present /\ out.mem[T][t].frame = fr
  BY <1>2, <1>6
<1>8. \A p \in R, e \in Idx : (p = pd /\ e = d) \/ out.mem[p][e] = s.mem[p][e]
  BY <1>5, <1>7
<1>9. HasTable(out, pd, d) /\ \A u \in Spots : ~Used(s, pd, d, u)
  BY <1>6, <1>7 DEF HasTable, Used, d
<1>10. ASSUME NEW p \in R, NEW e \in Idx, NEW u \in Spots, ~(p = pd /\ e = d)
       PROVE  /\ Used(out, p, e, u) <=> Used(s, p, e, u)
              /\ Used(s, p, e, u) => At(out, p, e, u) = At(s, p, e, u)
  <2>1. out.mem[p][e] = s.mem[p][e]
    BY <1>8, <1>10
  <2>2. ASSUME HasTable(s, p, e)
        PROVE  \A x \in Idx : out.mem[s.mem[p][e].frame][x] = s.mem[s.mem[p][e].frame][x]
    <3>1. /\ s.mem[p][e].frame \in Frames /\ s.mem[p][e].frame \notin R
          /\ s.mem[p][e].frame \notin W \union Free(s)
      BY <2>2, TableFacts
    <3> QED
      BY <3>1, <1>4, <1>7
  <2>3. u # Itself => u \in Idx
    BY DEF Spots
  <2> QED
    BY <2>1, <2>2, <2>3 DEF HasTable, Used, At
<1>11. ASSUME NEW u \in Spots, Used(out, pd, d, u)
       PROVE  u = t \/ (u = Itself /\ At(out, pd, d, u) \in Free(s) \ Free(out))
  <2>1. CASE u = Itself
    BY <2>1, <1>4, <1>7 DEF At
  <2>2. CASE u # Itself /\ u # t
    <3>1. u \in Idx \ {t} /\ out.mem[T][u].present
      BY <2>2, <1>7, <1>11 DEF Spots, Used
    <3> QED
      BY <3>1, <1>7 DEF Empty
  <2> QED
    BY <2>1, <2>2
<1>12. Used(out, pd, d, t) /\ At(out, pd, d, t) = fr
  BY <1>1, <1>7, <1>9 DEF Used, At, t
<1>13. ASSUME NEW f \in W \union Free(out) \union {KERNEL_PT}, NEW x \in Idx
       PROVE  out.mem[f][x] = s.mem[f][x]
  <2>1. W \union Free(s) \subseteq START .. TOTAL_FRAMES - 1 /\ W \intersect Free(s) = {}
    BY DEF Shape, Untouched
  <2>2. f \in Frames /\ f # T
    BY <2>1, <1>4, <1>6, Constants DEF Frames
  <2>3. f # pd
    BY <1>4, <1>5, RootFacts
  <2> QED
    BY <2>2, <2>3, <1>7
<1>14. ASSUME NEW p \in R, NEW e \in Idx, NEW u \in Spots, ~(p = pd /\ e = d /\ u = t),
              Used(s, p, e, u)
       PROVE  Used(out, p, e, u) /\ At(out, p, e, u) = At(s, p, e, u)
  BY <1>9, <1>10, <1>14
<1>15. ASSUME NEW p \in R, NEW e \in Idx, NEW u \in Spots, Used(out, p, e, u)
       PROVE  \/ p = pd /\ e = d /\ u = t
              \/ Used(s, p, e, u)
              \/ p = pd /\ e = d /\ u = Itself /\ At(out, p, e, u) \in Free(s) \ Free(out)
  BY <1>10, <1>11, <1>15
<1> QED
  BY <1>4, <1>8, <1>12, <1>13, <1>14, <1>15 DEF MapsPlace, d, t

(* Mapping a frame in hand at a place keeps the shape, with that frame no longer in hand,
   if in the kernel's directory nothing was at that place.  *)
LEMMA MapsPlaceShape ==
  ASSUME NEW s \in State, NEW R, NEW W, NEW fr, fr \notin W, Shape(s, R, W \union {fr}),
         NEW pd \in R, NEW d \in Idx, NEW t \in Idx, NEW out,
         MapsPlace(s, out, R, W \union {fr}, pd, d, t, fr),
         pd = KERNEL_PD => d # KERNEL_PT_PDT_IDX /\ ~Used(s, pd, d, t)
  PROVE  Shape(out, R, W)
<1>1. /\ Unique(s, R) /\ Taken(s, R, W \union {fr}) /\ Untouched(s, W \union {fr})
      /\ KernelTables(s) /\ Directories(s, R)
  BY DEF Shape
<1>2. /\ Free(out) \subseteq Free(s)
      /\ \A j, k \in 1 .. Len(out.pool) : out.pool[j] = out.pool[k] => j = k
      /\ Used(out, pd, d, t) /\ At(out, pd, d, t) = fr
  BY DEF MapsPlace
<1>3. /\ \A p \in R, e \in Idx, u \in Spots :
           ~(p = pd /\ e = d /\ u = t) /\ Used(s, p, e, u) =>
             Used(out, p, e, u) /\ At(out, p, e, u) = At(s, p, e, u)
      /\ \A p \in R, e \in Idx, u \in Spots :
           Used(out, p, e, u) =>
             \/ p = pd /\ e = d /\ u = t
             \/ Used(s, p, e, u)
             \/ p = pd /\ e = d /\ u = Itself /\ At(out, p, e, u) \in Free(s) \ Free(out)
  BY DEF MapsPlace
<1>4. /\ \A p \in R, e \in Idx : (p = pd /\ e = d) \/ out.mem[p][e] = s.mem[p][e]
      /\ \A f \in (W \union {fr}) \union Free(out) \union {KERNEL_PT}, x \in Idx :
           out.mem[f][x] = s.mem[f][x]
  BY DEF MapsPlace
<1>5. /\ W \union {fr} \union Free(s) \subseteq START .. TOTAL_FRAMES - 1
      /\ (W \union {fr}) \intersect Free(s) = {}
      /\ \A f \in W \union {fr} \union Free(s), x \in Idx : s.mem[f][x] \in {Empty, Junk}
  BY <1>1 DEF Untouched
<1>6. ASSUME NEW p \in R, NEW e \in Idx, NEW u \in Spots, Used(out, p, e, u),
             ~(p = pd /\ e = d /\ u = t)
      PROVE  \/ Used(s, p, e, u) /\ At(out, p, e, u) = At(s, p, e, u)
             \/ p = pd /\ e = d /\ u = Itself /\ At(out, p, e, u) \in Free(s) \ Free(out)
  BY <1>3, <1>6
<1>7. \A p \in R, e \in Idx, u \in Spots :
        Used(s, p, e, u) =>
          At(s, p, e, u) \in (START .. TOTAL_FRAMES - 1) \ (W \union {fr} \union Free(s))
  BY <1>1 DEF Taken
<1>8. Unique(out, R)
  <2> SUFFICES ASSUME NEW p \in R, NEW q \in R, NEW e \in Idx, NEW g \in Idx,
                      NEW u \in Spots, NEW w \in Spots, Used(out, p, e, u), Used(out, q, g, w),
                      At(out, p, e, u) = At(out, q, g, w)
               PROVE  p = q /\ e = g /\ u = w
    BY DEF Unique
  <2>1. CASE p = pd /\ e = d /\ u = t
    <3>1. At(out, q, g, w) = fr
      BY <2>1, <1>2
    <3> QED
      BY <3>1, <2>1, <1>5, <1>6, <1>7
  <2>2. CASE q = pd /\ g = d /\ w = t
    <3>1. At(out, p, e, u) = fr
      BY <2>2, <1>2
    <3> QED
      BY <3>1, <2>2, <1>5, <1>6, <1>7
  <2>3. CASE ~(p = pd /\ e = d /\ u = t) /\ ~(q = pd /\ g = d /\ w = t)
    <3>1. \/ Used(s, p, e, u) /\ At(out, p, e, u) = At(s, p, e, u)
          \/ p = pd /\ e = d /\ u = Itself /\ At(out, p, e, u) \in Free(s) \ Free(out)
      BY <2>3, <1>6
    <3>2. \/ Used(s, q, g, w) /\ At(out, q, g, w) = At(s, q, g, w)
          \/ q = pd /\ g = d /\ w = Itself /\ At(out, q, g, w) \in Free(s) \ Free(out)
      BY <2>3, <1>6
    <3>3. CASE Used(s, p, e, u) /\ At(out, p, e, u) = At(s, p, e, u)
      <4>1. At(s, p, e, u) \notin Free(s)
        BY <3>3, <1>7
      <4>2. Used(s, q, g, w) /\ At(s, p, e, u) = At(s, q, g, w)
        BY <3>2, <3>3, <4>1
      <4> QED
        BY <3>3, <4>2, <1>1 DEF Unique
    <3>4. CASE p = pd /\ e = d /\ u = Itself /\ At(out, p, e, u) \in Free(s) \ Free(out)
      BY <3>2, <3>4, <1>7
    <3> QED
      BY <3>1, <3>3, <3>4
  <2> QED
    BY <2>1, <2>2, <2>3
<1>9. Taken(out, R, W)
  <2> SUFFICES ASSUME NEW p \in R, NEW e \in Idx, NEW u \in Spots, Used(out, p, e, u)
               PROVE  At(out, p, e, u) \in (START .. TOTAL_FRAMES - 1) \ (W \union Free(out))
    BY DEF Taken
  <2>1. CASE p = pd /\ e = d /\ u = t
    BY <2>1, <1>2, <1>5
  <2>2. CASE ~(p = pd /\ e = d /\ u = t)
    BY <2>2, <1>2, <1>5, <1>6, <1>7
  <2> QED
    BY <2>1, <2>2
<1>10. Untouched(out, W)
  <2>1. \A f \in W \union Free(out), x \in Idx : out.mem[f][x] \in {Empty, Junk}
    BY <1>2, <1>4, <1>5
  <2> QED
    BY <2>1, <1>2, <1>5 DEF Untouched
<1>11. out.mem[pd][d].present /\ out.mem[pd][d].frame # KERNEL_PT
  BY <1>2 DEF Used, HasTable
<1>12. KERNEL_PD \in R /\ KERNEL_PT_PDT_IDX \in Idx /\ R \subseteq Frames
  BY <1>1, Constants DEF Directories
<1>13. KernelTables(out)
  <2>1. \A e \in Idx : (KERNEL_PD = pd /\ e = d) \/ out.mem[KERNEL_PD][e] = s.mem[KERNEL_PD][e]
    BY <1>4, <1>12
  <2>2. \A x \in Idx : out.mem[KERNEL_PT][x] = s.mem[KERNEL_PT][x]
    BY <1>4
  <2> QED
    BY <2>1, <2>2, <1>1, <1>11, <1>12 DEF KernelTables
<1>14. Directories(out, R)
  <2> SUFFICES ASSUME NEW p \in R \ {KERNEL_PD}
               PROVE  /\ \E e, u \in Idx : /\ e > KERNEL_PT_PDT_IDX
                                          /\ Used(out, KERNEL_PD, e, u) /\ At(out, KERNEL_PD, e, u) = p
                      /\ \A e \in Idx : out.mem[p][e].present /\ out.mem[p][e].frame = KERNEL_PT
                           => out.mem[p][e] = Junk
    BY <1>12 DEF Directories
  <2>1. PICK e, u \in Idx : /\ e > KERNEL_PT_PDT_IDX
                             /\ Used(s, KERNEL_PD, e, u) /\ At(s, KERNEL_PD, e, u) = p
    BY <1>1 DEF Directories
  <2>2. ~(KERNEL_PD = pd /\ e = d /\ u = t) /\ u \in Spots
    BY <2>1 DEF Spots
  <2>3. Used(out, KERNEL_PD, e, u) /\ At(out, KERNEL_PD, e, u) = p
    BY <2>1, <2>2, <1>3, <1>12
  <2>4. ASSUME NEW g \in Idx, out.mem[p][g].present, out.mem[p][g].frame = KERNEL_PT
        PROVE  out.mem[p][g] = Junk
    <3>1. ~(p = pd /\ g = d)
      BY <2>4, <1>11
    <3>2. out.mem[p][g] = s.mem[p][g]
      BY <3>1, <1>4
    <3> QED
      BY <3>2, <2>4, <1>1 DEF Directories
  <2> QED
    BY <2>1, <2>3, <2>4
<1> QED
  BY <1>8, <1>9, <1>10, <1>13, <1>14 DEF Shape


(* Taking frames out of the pool or out of hand keeps the shape. *)
LEMMA ShapeSubset ==
  ASSUME NEW s, NEW R, NEW W, Shape(s, R, W), NEW a, NEW V,
         a.mem = s.mem, V \union Free(a) \subseteq W \union Free(s), V \intersect Free(a) = {},
         \A j, k \in 1 .. Len(a.pool) : a.pool[j] = a.pool[k] => j = k
  PROVE  Shape(a, R, V)
<1>1. /\ Unique(s, R) /\ Taken(s, R, W) /\ Untouched(s, W)
      /\ KernelTables(s) /\ Directories(s, R)
  BY DEF Shape
<1>2. ASSUME NEW p \in R, NEW d \in Idx, NEW t \in Spots
      PROVE  /\ Used(a, p, d, t) <=> Used(s, p, d, t)
             /\ At(a, p, d, t) = At(s, p, d, t)
  BY DEF Used, At, HasTable
<1>3. Unique(a, R)
  BY <1>1, <1>2 DEF Unique
<1>4. Taken(a, R, V)
  BY <1>1, <1>2 DEF Taken
<1>5. Untouched(a, V)
  BY <1>1 DEF Untouched
<1>6. KernelTables(a)
  BY <1>1 DEF KernelTables
<1>7. Directories(a, R)
  <2>1. Idx \subseteq Spots
    BY DEF Spots
  <2> QED
    BY <2>1, <1>1, <1>2 DEF Directories
<1> QED
  BY <1>3, <1>4, <1>5, <1>6, <1>7 DEF Shape

(* The frames a request for n is granted *)
Granted(a, n) == {a.array[k] : k \in 0 .. n - 1}

(* A request keeps the shape; the frames it is granted were free and are in hand. *)
LEMMA RequestShape ==
  ASSUME NEW s \in State, NEW R, NEW W, Shape(s, R, W), NEW n \in 1 .. HEAP_PAGES
  PROVE  LET a == pf_allocate_frames(s, n)
             G == Granted(a, n)
         IN
         /\ Shape(a, R, W) /\ Free(a) \subseteq Free(s)
         /\ a.res # 0 => /\ Shape(a, R, W \union G) /\ G \subseteq Free(s)
                         /\ \A j, k \in 0 .. n - 1 : a.array[j] = a.array[k] => j = k
<1> DEFINE a == pf_allocate_frames(s, n)
           G == Granted(a, n)
           top == Len(s.pool)
<1>1. /\ a \in State /\ a.mem = s.mem /\ Len(a.pool) <= top
      /\ \A k \in 1 .. Len(a.pool) : a.pool[k] = s.pool[k]
      /\ a.res # 0 => /\ top > n /\ Len(a.pool) = top - n
                      /\ \A k \in 0 .. n - 1 : a.array[k] = s.pool[top - k]
  BY PfAllocateProperties
<1>2. top \in Nat /\ Len(a.pool) \in Nat /\ n \in Nat
  <2>1. s.pool \in Seq(Allocatable) /\ a.pool \in Seq(Allocatable)
    BY <1>1, StateParts
  <2> QED
    BY <2>1, LenProperties
<1>3. /\ \A j, k \in 1 .. top : s.pool[j] = s.pool[k] => j = k
      /\ W \intersect Free(s) = {}
  BY DEF Shape, Untouched
<1> HIDE DEF a
<1>4. Free(a) \subseteq Free(s) /\ \A j, k \in 1 .. Len(a.pool) : a.pool[j] = a.pool[k] => j = k
  <2>1. \A k \in 1 .. Len(a.pool) : k \in 1 .. top
    BY <1>1, <1>2
  <2>2. ASSUME NEW j \in 1 .. Len(a.pool), NEW k \in 1 .. Len(a.pool), a.pool[j] = a.pool[k]
        PROVE  j = k
    <3>1. j \in 1 .. top /\ k \in 1 .. top /\ s.pool[j] = s.pool[k]
      BY <2>1, <2>2, <1>1
    <3> QED
      BY <3>1, <1>3
  <2>3. Free(a) \subseteq Free(s)
    BY <2>1, <1>1 DEF Free
  <2> QED
    BY <2>2, <2>3
<1>5. Shape(a, R, W)
  BY <1>1, <1>3, <1>4, ShapeSubset
<1>6. ASSUME a.res # 0
      PROVE  /\ G \subseteq Free(s) /\ G \intersect Free(a) = {}
             /\ \A j, k \in 0 .. n - 1 : a.array[j] = a.array[k] => j = k
  <2>1. \A k \in 0 .. n - 1 : top - k \in 1 .. top /\ a.array[k] = s.pool[top - k]
    BY <1>1, <1>2, <1>6
  <2>2. Free(a) = {s.pool[k] : k \in 1 .. top - n}
    BY <1>1, <1>2, <1>6 DEF Free
  <2>3. \A k \in 0 .. n - 1, j \in 1 .. top - n : s.pool[top - k] # s.pool[j]
    <3> SUFFICES ASSUME NEW k \in 0 .. n - 1, NEW j \in 1 .. top - n, s.pool[top - k] = s.pool[j]
                 PROVE  FALSE
      OBVIOUS
    <3>1. top > n
      BY <1>1, <1>6
    <3>2. top - k \in 1 .. top /\ j \in 1 .. top /\ top - k # j
      BY <3>1, <1>2
    <3> QED
      BY <3>2, <1>3
  <2>4. ASSUME NEW j \in 0 .. n - 1, NEW k \in 0 .. n - 1, a.array[j] = a.array[k]
        PROVE  j = k
    <3>1. top - j = top - k
      BY <2>1, <2>4, <1>3
    <3> QED
      BY <3>1, <1>2
  <2>5. G \subseteq Free(s)
    BY <2>1 DEF Free, Granted
  <2>6. G \intersect Free(a) = {}
    BY <2>1, <2>2, <2>3 DEF Granted
  <2> QED
    BY <2>4, <2>5, <2>6
<1>7. ASSUME a.res # 0 PROVE Shape(a, R, W \union G)
  BY <1>1, <1>3, <1>4, <1>6, <1>7, ShapeSubset
<1> QED
  BY <1>4, <1>5, <1>6, <1>7, Zenon DEF a


(* map_page of a frame in hand, in a directory: if nothing is noted, the frame is at the
   place of the page, or else there was no frame for a table.  *)
LEMMA MapPageShape ==
  ASSUME NEW s \in State, Coherent(s), NEW R, NEW W, NEW fr \in Frames, fr \notin W,
         Shape(s, R, W \union {fr}), NEW pd \in R, NEW v \in VPages, NEW u \in BOOLEAN,
         pd = KERNEL_PD => /\ GET_PD_IDX(v) # KERNEL_PT_PDT_IDX
                           /\ ~Used(s, pd, GET_PD_IDX(v), GET_PT_IDX(v))
  PROVE  LET out == map_page(s, pd, fr, v, u) IN
         /\ s.seen \subseteq out.seen /\ out.res \in {0, 1}
         /\ \A k \in 1 .. HEAP_PAGES - 1 : out.array[k] = s.array[k]
         /\ out.seen = {} =>
              /\ Shape(out, R, W)
              /\ out.res = 0 => out.mem = s.mem /\ ~s.mem[pd][GET_PD_IDX(v)].present
              /\ out.res # 0 =>
                   MapsPlace(s, out, R, W \union {fr}, pd, GET_PD_IDX(v), GET_PT_IDX(v), fr)
<1> DEFINE d == GET_PD_IDX(v)
           t == GET_PT_IDX(v)
           pde == s.mem[pd][d]
           old == MapInOldTable(s, pd, fr, v, u)
           new == MapInNewTable(s, pd, fr, v, u)
           out == map_page(s, pd, fr, v, u)
<1>1. pd \in Frames /\ ~IsSlot(pd, d) /\ d \in Idx /\ t \in Idx /\ 1 \in 1 .. HEAP_PAGES
  BY RootFacts, AddressParts, Constants DEF IsSlot
<1>2. CASE pde.present
  <2>1. out = old
    BY <1>2, Zenon DEF map_page
  <2>2. MappedInOldTable(s, pd, fr, v, old)
    BY <1>1, MapInOldTableEffect
  <2> HIDE DEF old, out
  <2>3. /\ s.seen \subseteq out.seen /\ out.res = 1 /\ out.array = s.array
        /\ pde = Junk /\ pd # KERNEL_PD => "stray" \in out.seen
    BY <2>1, <2>2, Zenon DEF MappedInOldTable
  <2>4. ASSUME out.seen = {}
        PROVE  /\ Shape(out, R, W)
               /\ MapsPlace(s, out, R, W \union {fr}, pd, d, t, fr)
    <3>1. HasTable(s, pd, d)
      <4>1. CASE pd = KERNEL_PD
        BY <4>1, <1>1, <1>2 DEF Shape, KernelTables, HasTable
      <4>2. CASE pd # KERNEL_PD
        <5>1. pde.frame = KERNEL_PT => pde = Junk
          BY <4>2, <1>1, <1>2 DEF Shape, Directories
        <5> QED
          BY <5>1, <4>2, <2>3, <2>4, <1>2 DEF HasTable
      <4> QED
        BY <4>1, <4>2
    <3>2. "ghost" \notin out.seen
      BY <2>4
    <3>3. MapsPlace(s, out, R, W \union {fr}, pd, d, t, fr)
      BY <2>1, <2>2, <3>1, <3>2, MapOldPlaces
    <3> QED
      BY <3>3, <1>1, MapsPlaceShape
  <2> QED
    BY <2>3, <2>4 DEF out
<1>3. CASE ~pde.present
  <2> DEFINE a == pf_allocate_frames(s, 1)
  <2>1. out = new
    BY <1>3, Zenon DEF map_page
  <2>2. MappedInNewTable(s, pd, fr, v, new)
    BY <1>1, MapInNewTableEffect
  <2> HIDE DEF new, out
  <2>3. /\ out.seen = s.seen /\ out.res \in {0, 1} /\ out.array = a.array /\ out.pool = a.pool
        /\ out.res = 0 => out.mem = s.mem
    BY <2>1, <2>2, Zenon DEF MappedInNewTable
  <2>4. \A k \in 1 .. HEAP_PAGES - 1 : a.array[k] = s.array[k]
    BY <1>1, PfAllocateProperties
  <2>5. /\ Shape(a, R, W \union {fr}) /\ a.mem = s.mem
    BY <1>1, RequestShape, PfAllocateProperties
  <2> HIDE DEF a
  <2>6. ASSUME out.res = 0 PROVE Shape(out, R, W)
    <3>1. Free(out) = Free(a) /\ out.mem = a.mem
      BY <2>3, <2>5, <2>6 DEF Free
    <3>2. /\ (W \union {fr}) \intersect Free(a) = {}
          /\ \A j, k \in 1 .. Len(out.pool) : out.pool[j] = out.pool[k] => j = k
      BY <2>3, <2>5 DEF Shape, Untouched
    <3> QED
      BY <3>1, <3>2, <2>5, ShapeSubset
  <2>7. ASSUME out.res # 0
        PROVE  /\ Shape(out, R, W)
               /\ MapsPlace(s, out, R, W \union {fr}, pd, d, t, fr)
    <3>1. MapsPlace(s, out, R, W \union {fr}, pd, d, t, fr)
      BY <2>1, <2>2, <2>7, <1>3, MapNewPlaces
    <3> QED
      BY <3>1, <1>1, MapsPlaceShape
  <2> QED
    BY <2>3, <2>4, <2>6, <2>7, <1>3 DEF out
<1> QED
  BY <1>2, <1>3

(* Places, and what is at them, that a step leaves alone *)
SamePlaces(s, out, R) ==
  \A p \in R, e \in Idx, u \in Spots :
    /\ Used(out, p, e, u) <=> Used(s, p, e, u)
    /\ Used(s, p, e, u) => At(out, p, e, u) = At(s, p, e, u)

(* Another entry of frame 0, or one with the same frame and presence in a frame that is
   in use as a table, makes no difference.  *)
LEMMA EditShape ==
  ASSUME NEW s \in State, NEW R, NEW W, Shape(s, R, W), NEW out, NEW f \in Frames, NEW x \in Idx,
         out.pool = s.pool,
         \A g \in Frames, y \in Idx : ~(g = f /\ y = x) => out.mem[g][y] = s.mem[g][y],
         f \notin R \union W \union Free(s) \union {KERNEL_PT},
         \/ f = 0
         \/ out.mem[f][x].present = s.mem[f][x].present /\ out.mem[f][x].frame = s.mem[f][x].frame
  PROVE  Shape(out, R, W) /\ SamePlaces(s, out, R)
<1>1. /\ Unique(s, R) /\ Taken(s, R, W) /\ Untouched(s, W)
      /\ KernelTables(s) /\ Directories(s, R)
  BY DEF Shape
<1>2. ASSUME NEW p \in R, NEW e \in Idx PROVE out.mem[p][e] = s.mem[p][e]
  <2>1. p \in Frames /\ p # f
    BY RootFacts
  <2> QED
    BY <2>1
<1>3. ASSUME NEW p \in R, NEW e \in Idx, HasTable(s, p, e), NEW y \in Idx
      PROVE  /\ out.mem[s.mem[p][e].frame][y].present = s.mem[s.mem[p][e].frame][y].present
             /\ out.mem[s.mem[p][e].frame][y].frame = s.mem[s.mem[p][e].frame][y].frame
  <2> DEFINE T == s.mem[p][e].frame
  <2>1. T \in START .. TOTAL_FRAMES - 1 /\ T \in Frames
    BY <1>3, TableFacts
  <2>2. T # 0
    BY <2>1, Constants
  <2> HIDE DEF T
  <2>3. ASSUME T = f, y = x
        PROVE  out.mem[T][y].present = s.mem[T][y].present /\ out.mem[T][y].frame = s.mem[T][y].frame
    <3>1. f # 0
      BY <2>2, <2>3
    <3>2. out.mem[f][x].present = s.mem[f][x].present /\ out.mem[f][x].frame = s.mem[f][x].frame
      BY <3>1
    <3> QED
      BY <3>2, <2>3, Zenon
  <2>4. ASSUME ~(T = f /\ y = x)
        PROVE  out.mem[T][y].present = s.mem[T][y].present /\ out.mem[T][y].frame = s.mem[T][y].frame
    <3>1. out.mem[T][y] = s.mem[T][y]
      BY <2>1, <2>4
    <3> QED
      BY <3>1
  <2>5. out.mem[T][y].present = s.mem[T][y].present /\ out.mem[T][y].frame = s.mem[T][y].frame
    BY <2>3, <2>4, Zenon
  <2> QED
    BY <2>5, Zenon DEF T
<1>4. ASSUME NEW p \in R, NEW e \in Idx, NEW u \in Spots
      PROVE  /\ Used(out, p, e, u) <=> Used(s, p, e, u)
             /\ Used(s, p, e, u) => At(out, p, e, u) = At(s, p, e, u)
  <2>1. out.mem[p][e] = s.mem[p][e]
    BY <1>2
  <2>2. u # Itself => u \in Idx
    BY DEF Spots
  <2>3. ASSUME HasTable(s, p, e), u # Itself
        PROVE  /\ out.mem[s.mem[p][e].frame][u].present = s.mem[s.mem[p][e].frame][u].present
               /\ out.mem[s.mem[p][e].frame][u].frame = s.mem[s.mem[p][e].frame][u].frame
    BY <2>2, <2>3, <1>3
  <2> QED
    BY <2>1, <2>3 DEF Used, At, HasTable
<1>5. SamePlaces(s, out, R)
  BY <1>4 DEF SamePlaces
<1>6. Unique(out, R)
  BY <1>1, <1>4 DEF Unique
<1>7. Free(out) = Free(s)
  BY DEF Free
<1>8. Taken(out, R, W)
  BY <1>1, <1>4, <1>7 DEF Taken
<1>9. ASSUME NEW g \in W \union Free(s) \union {KERNEL_PT}, NEW y \in Idx
      PROVE  out.mem[g][y] = s.mem[g][y]
  <2>1. g \in Frames /\ g # f
    <3>1. W \union Free(s) \subseteq START .. TOTAL_FRAMES - 1
      BY <1>1 DEF Untouched
    <3> QED
      BY <3>1, Constants DEF Frames
  <2> QED
    BY <2>1
<1>10. Untouched(out, W)
  BY <1>1, <1>7, <1>9 DEF Untouched
<1>11. KernelTables(out)
  <2>1. KERNEL_PD \in R /\ KERNEL_PT_PDT_IDX \in Idx
    BY <1>1, Constants DEF Directories
  <2> QED
    BY <2>1, <1>1, <1>2, <1>9 DEF KernelTables
<1>12. Directories(out, R)
  <2>1. Idx \subseteq Spots /\ KERNEL_PD \in R
    BY <1>1 DEF Spots, Directories
  <2> QED
    BY <2>1, <1>1, <1>2, <1>4 DEF Directories
<1> QED
  BY <1>5, <1>6, <1>8, <1>10, <1>11, <1>12 DEF Shape


(* A frame appears at a place. *)
Adds(s, out, R, pd, d, t, fr) ==
  /\ Used(out, pd, d, t) /\ At(out, pd, d, t) = fr
  /\ \A p \in R, e \in Idx, u \in Spots :
       ~(p = pd /\ e = d /\ u = t) /\ Used(s, p, e, u) =>
         Used(out, p, e, u) /\ At(out, p, e, u) = At(s, p, e, u)
  /\ \A p \in R, e \in Idx, u \in Spots :
       Used(out, p, e, u) =>
         (p = pd /\ e = d /\ u \in {t, Itself}) \/ Used(s, p, e, u)

(* A frame goes from a place. *)
Removes(s, out, R, pd, d, t) ==
  \A p \in R, e \in Idx, u \in Spots :
    /\ Used(out, p, e, u) <=> Used(s, p, e, u) /\ ~(p = pd /\ e = d /\ u = t)
    /\ Used(out, p, e, u) => At(out, p, e, u) = At(s, p, e, u)

(* MapsPlace adds the place. *)
LEMMA MapsPlaceAdds ==
  ASSUME NEW s, NEW out, NEW R, NEW W, NEW pd, NEW d, NEW t, NEW fr,
         MapsPlace(s, out, R, W, pd, d, t, fr)
  PROVE  /\ Adds(s, out, R, pd, d, t, fr)
         /\ \A f \in W \union {KERNEL_PT}, x \in Idx : out.mem[f][x] = s.mem[f][x]
<1>1. /\ Used(out, pd, d, t) /\ At(out, pd, d, t) = fr
      /\ \A p \in R, e \in Idx, u \in Spots :
           ~(p = pd /\ e = d /\ u = t) /\ Used(s, p, e, u) =>
             Used(out, p, e, u) /\ At(out, p, e, u) = At(s, p, e, u)
  BY DEF MapsPlace
<1>2. \A p \in R, e \in Idx, u \in Spots :
           Used(out, p, e, u) =>
             \/ p = pd /\ e = d /\ u = t
             \/ Used(s, p, e, u)
             \/ p = pd /\ e = d /\ u = Itself /\ At(out, p, e, u) \in Free(s) \ Free(out)
  BY DEF MapsPlace
<1>3. \A f \in W \union {KERNEL_PT}, x \in Idx : out.mem[f][x] = s.mem[f][x]
  BY DEF MapsPlace
<1> QED
  BY <1>1, <1>2, <1>3 DEF Adds

(* Growing the heap by a page adds its place, or nothing when there is no frame for a
   table: the entry that is then set lies in frame 0.  *)
LEMMA GrowPageShape ==
  ASSUME NEW s \in State, Coherent(s), NEW R, NEW W, NEW fr \in Frames, fr \notin W,
         Shape(s, R, W \union {fr}), NEW v \in VPages,
         GET_PD_IDX(v) # KERNEL_PT_PDT_IDX,
         ~Used(s, KERNEL_PD, GET_PD_IDX(v), GET_PT_IDX(v))
  PROVE  LET out == GrownBy(s, fr, v) IN
         /\ s.seen \subseteq out.seen
         /\ \A k \in 1 .. HEAP_PAGES - 1 : out.array[k] = s.array[k]
         /\ out.seen = {} =>
              /\ Shape(out, R, W)
              /\ \/ Adds(s, out, R, KERNEL_PD, GET_PD_IDX(v), GET_PT_IDX(v), fr)
                 \/ SamePlaces(s, out, R)
              /\ \A x \in Idx : out.mem[KERNEL_PT][x] = s.mem[KERNEL_PT][x]
<1> DEFINE d == GET_PD_IDX(v)
           t == GET_PT_IDX(v)
           a == kernel_map_page(s, fr, v, TRUE)
           b == get_page(a, v)
           pt == ReadTemp(b)
           e == [pt[t] EXCEPT !.rw = TRUE, !.present = TRUE]
           out == kernel_set_temporary_entry(SetEntry(b, v, e), kernel_get_temporary_entry(a))
           T == a.mem[KERNEL_PD][d].frame
<1>1. d \in Idx /\ t \in Idx /\ t \in Spots /\ t # Itself /\ KERNEL_PD \in R /\ TRUE \in BOOLEAN
  BY AddressParts, Constants DEF Spots, Itself, Idx, Shape, Directories
<1>2. a \in State /\ a.res \in {0, 1}
  BY KernelMapPageKeeps DEF Keeps
<1>3. /\ s.seen \subseteq a.seen
      /\ \A k \in 1 .. HEAP_PAGES - 1 : a.array[k] = s.array[k]
      /\ a.seen = {} =>
           /\ Shape(a, R, W)
           /\ a.res = 0 => a.mem = s.mem /\ ~s.mem[KERNEL_PD][d].present
           /\ a.res # 0 => MapsPlace(s, a, R, W \union {fr}, KERNEL_PD, d, t, fr)
  <2> DEFINE q == map_page(s, KERNEL_PD, fr, v, TRUE)
  <2>1. a = q
    BY DEF kernel_map_page
  <2>2. /\ s.seen \subseteq q.seen /\ q.res \in {0, 1}
        /\ \A k \in 1 .. HEAP_PAGES - 1 : q.array[k] = s.array[k]
        /\ q.seen = {} =>
             /\ Shape(q, R, W)
             /\ q.res = 0 => q.mem = s.mem /\ ~s.mem[KERNEL_PD][GET_PD_IDX(v)].present
             /\ q.res # 0 => MapsPlace(s, q, R, W \union {fr}, KERNEL_PD,
                                      GET_PD_IDX(v), GET_PT_IDX(v), fr)
    BY <1>1, MapPageShape
  <2> HIDE DEF q
  <2> QED
    BY <2>1, <2>2
<1> HIDE DEF a
<1>4. pt \in [Idx -> PTE]
  <2>1. Empty \in PTE
    BY Constants DEF Empty, PTE
  <2> QED
    BY <1>2, <2>1, EntryEdited
<1>5. e \in PTE /\ e.present = TRUE /\ e.frame = pt[t].frame
  BY <1>1, <1>4, ChangedEntry
<1> HIDE DEF e
<1>6. /\ T \in Frames /\ (~IsSlot(T, t) => pt[t] = a.mem[T][t])
      /\ out.pool = a.pool /\ out.array = a.array /\ out.seen = a.seen
      /\ \A f \in Frames, x \in Idx : ~(f = T /\ x = t) => out.mem[f][x] = a.mem[f][x]
      /\ ~IsSlot(T, t) => out.mem[T][t] = e
  BY <1>2, <1>5, EntryEdited
<1> HIDE DEF b, pt, out, d, t, T
<1>7. ASSUME out.seen = {}
      PROVE  /\ Shape(out, R, W)
             /\ Adds(s, out, R, KERNEL_PD, d, t, fr) \/ SamePlaces(s, out, R)
             /\ \A x \in Idx : out.mem[KERNEL_PT][x] = s.mem[KERNEL_PT][x]
  <2>1. /\ Shape(a, R, W)
        /\ a.res = 0 => a.mem = s.mem /\ ~s.mem[KERNEL_PD][d].present
        /\ a.res # 0 => MapsPlace(s, a, R, W \union {fr}, KERNEL_PD, d, t, fr)
    BY <1>3, <1>6, <1>7
  <2>2. ASSUME T \notin R \union W \union Free(a) \union {KERNEL_PT},
               \/ T = 0
               \/ /\ out.mem[T][t].present = a.mem[T][t].present
                  /\ out.mem[T][t].frame = a.mem[T][t].frame
        PROVE  /\ Shape(out, R, W) /\ SamePlaces(a, out, R)
               /\ \A x \in Idx : out.mem[KERNEL_PT][x] = a.mem[KERNEL_PT][x]
    <3>1. \A x \in Idx : out.mem[KERNEL_PT][x] = a.mem[KERNEL_PT][x]
      BY <1>6, <2>2, Constants
    <3>2. out.pool = a.pool /\ T \in Frames /\ t \in Idx
          /\ \A f \in Frames, x \in Idx : ~(f = T /\ x = t) => out.mem[f][x] = a.mem[f][x]
      BY <1>1, <1>6
    <3> QED
      BY <1>2, <2>1, <2>2, <3>1, <3>2, EditShape
  <2>3. CASE a.res = 0
    <3>1. T = 0
      BY <2>1, <2>3, <1>1 DEF Shape, KernelTables, T
    <3>2. T \notin R \union W \union Free(a) \union {KERNEL_PT}
      <4>1. \A p \in R : p # 0
        BY <1>2, <2>1, RootFacts
      <4>2. W \union Free(a) \subseteq START .. TOTAL_FRAMES - 1
        BY <2>1 DEF Shape, Untouched
      <4> QED
        BY <3>1, <4>1, <4>2, Constants
    <3>3. /\ Shape(out, R, W) /\ SamePlaces(a, out, R)
          /\ \A x \in Idx : out.mem[KERNEL_PT][x] = a.mem[KERNEL_PT][x]
      BY <2>2, <3>1, <3>2
    <3>4. SamePlaces(s, out, R)
      <4>1. \A p \in R, x \in Idx, u \in Spots :
              (Used(a, p, x, u) <=> Used(s, p, x, u)) /\ At(a, p, x, u) = At(s, p, x, u)
        BY <2>1, <2>3 DEF Used, At, HasTable
      <4> QED
        BY <4>1, <3>3 DEF SamePlaces
    <3> QED
      BY <2>1, <2>3, <3>3, <3>4
  <2>4. CASE a.res # 0
    <3>1. /\ Adds(s, a, R, KERNEL_PD, d, t, fr)
          /\ \A x \in Idx : a.mem[KERNEL_PT][x] = s.mem[KERNEL_PT][x]
      BY <2>1, <2>4, MapsPlaceAdds
    <3>2. HasTable(a, KERNEL_PD, d) /\ a.mem[T][t].present
      BY <3>1, <1>1 DEF Adds, Used, T
    <3>3. T # KERNEL_PT /\ T \notin W \union Free(a) /\ T \notin R
      BY <1>1, <1>2, <2>1, <3>2, TableFacts DEF T
    <3>4. ~IsSlot(T, t)
      BY <3>3 DEF IsSlot
    <3>5. a.mem[T][t].present = TRUE
      <4>1. a.mem[T][t] \in PTE
        BY <1>1, <1>2, <1>6, StateParts DEF Memory
      <4> QED
        BY <3>2, <4>1 DEF PTE
    <3>6. out.mem[T][t].present = a.mem[T][t].present /\ out.mem[T][t].frame = a.mem[T][t].frame
      BY <1>5, <1>6, <3>4, <3>5
    <3>7. /\ Shape(out, R, W) /\ SamePlaces(a, out, R)
          /\ \A x \in Idx : out.mem[KERNEL_PT][x] = a.mem[KERNEL_PT][x]
      BY <2>2, <3>3, <3>6
    <3>8. Adds(s, out, R, KERNEL_PD, d, t, fr)
      BY <3>1, <3>7, <1>1 DEF Adds, SamePlaces
    <3> QED
      BY <3>1, <3>7, <3>8
  <2> QED
    BY <1>2, <2>3, <2>4
<1> QED
  BY <1>3, <1>6, <1>7, Zenon DEF GrownBy, out, e, pt, b, a, d, t


(* unmap_page of a page of the heap takes its frame from its place. *)
LEMMA UnmapShape ==
  ASSUME NEW s \in State, NEW R, NEW W, Shape(s, R, W), NEW v \in VPages,
         GET_PD_IDX(v) < KERNEL_PT_PDT_IDX,
         Used(s, KERNEL_PD, GET_PD_IDX(v), GET_PT_IDX(v))
  PROVE  LET out == unmap_page(s, v) IN
         /\ Shape(out, R, W)
         /\ Removes(s, out, R, KERNEL_PD, GET_PD_IDX(v), GET_PT_IDX(v))
         /\ \A x \in Idx : out.mem[KERNEL_PT][x] = s.mem[KERNEL_PT][x]
<1> DEFINE d == GET_PD_IDX(v)
           t == GET_PT_IDX(v)
           T == s.mem[KERNEL_PD][d].frame
           out == unmap_page(s, v)
<1>1. /\ Unique(s, R) /\ Taken(s, R, W) /\ Untouched(s, W)
      /\ KernelTables(s) /\ Directories(s, R) /\ KERNEL_PD \in R
  BY DEF Shape, Directories
<1>2. d \in Idx /\ t \in Idx /\ t # Itself /\ Idx \subseteq Spots /\ Itself \in Spots
      /\ KERNEL_PT_PDT_IDX \in Idx
  BY AddressParts, Constants DEF Itself, Idx, Spots
<1>3. /\ T \in Frames /\ T # KERNEL_PT /\ T \notin W \union Free(s) /\ T \notin R
      /\ \A q \in R, e \in Idx : HasTable(s, q, e) /\ s.mem[q][e].frame = T => q = KERNEL_PD /\ e = d
  <2>1. HasTable(s, KERNEL_PD, d)
    BY DEF Used
  <2> QED
    BY <2>1, <1>1, <1>2, TableFacts
<1>4. /\ out.pool = s.pool
      /\ \A f \in Frames, x \in Idx : ~(f = T /\ x = t) => out.mem[f][x] = s.mem[f][x]
      /\ ~IsSlot(T, t) => out.mem[T][t].present = FALSE /\ out.mem[T][t].frame = 0
  BY UnmapPageEffect
<1>5. out.mem[T][t].present = FALSE
  BY <1>3, <1>4 DEF IsSlot
<1> HIDE DEF out, d, t
<1>6. HasTable(s, KERNEL_PD, d) /\ d < KERNEL_PT_PDT_IDX
  BY DEF Used, d
<1> HIDE DEF T
<1>7. ASSUME NEW p \in R PROVE p \in Frames /\ p # T /\ \A e \in Idx : out.mem[p][e] = s.mem[p][e]
  BY <1>3, <1>4, RootFacts
<1>8. ASSUME NEW f \in W \union Free(s) \union {KERNEL_PT}, NEW x \in Idx
      PROVE  out.mem[f][x] = s.mem[f][x]
  <2>1. f \in Frames /\ f # T
    <3>1. W \union Free(s) \subseteq START .. TOTAL_FRAMES - 1
      BY <1>1 DEF Untouched
    <3> QED
      BY <3>1, <1>3, Constants DEF Frames
  <2> QED
    BY <2>1, <1>4
<1>9. ASSUME NEW p \in R, NEW e \in Idx, NEW u \in Spots
      PROVE  /\ Used(out, p, e, u) <=> Used(s, p, e, u) /\ ~(p = KERNEL_PD /\ e = d /\ u = t)
             /\ Used(out, p, e, u) => At(out, p, e, u) = At(s, p, e, u)
  <2>1. out.mem[p][e] = s.mem[p][e]
    BY <1>7
  <2>2. CASE HasTable(s, p, e) /\ u # Itself /\ ~(p = KERNEL_PD /\ e = d /\ u = t)
    <3>1. u \in Idx /\ s.mem[p][e].frame \in Frames
      BY <2>2, TableFacts DEF Spots
    <3>2. ~(s.mem[p][e].frame = T /\ u = t)
      BY <2>2, <1>3
    <3>3. out.mem[s.mem[p][e].frame][u] = s.mem[s.mem[p][e].frame][u]
      BY <3>1, <3>2, <1>4
    <3> QED
      BY <2>1, <2>2, <3>3 DEF Used, At, HasTable
  <2>3. CASE p = KERNEL_PD /\ e = d /\ u = t
    <3>1. ~Used(out, p, e, u)
      BY <2>1, <2>3, <1>2, <1>5 DEF Used, T
    <3> QED
      BY <2>3, <3>1
  <2>4. CASE ~HasTable(s, p, e) \/ (u = Itself /\ ~(p = KERNEL_PD /\ e = d /\ u = t))
    BY <2>1, <2>4 DEF Used, At, HasTable
  <2> QED
    BY <2>2, <2>3, <2>4
<1>10. Free(out) = Free(s)
  BY <1>4 DEF Free
<1>11. Unique(out, R)
  BY <1>1, <1>9 DEF Unique
<1>12. Taken(out, R, W)
  BY <1>1, <1>9, <1>10 DEF Taken
<1>13. Untouched(out, W)
  BY <1>1, <1>4, <1>8, <1>10 DEF Untouched
<1>14. KernelTables(out)
  BY <1>1, <1>2, <1>7, <1>8 DEF KernelTables
<1>15. Directories(out, R)
  <2> SUFFICES ASSUME NEW p \in R \ {KERNEL_PD}
               PROVE  /\ \E e, u \in Idx : /\ e > KERNEL_PT_PDT_IDX
                                          /\ Used(out, KERNEL_PD, e, u) /\ At(out, KERNEL_PD, e, u) = p
                      /\ \A e \in Idx : out.mem[p][e].present /\ out.mem[p][e].frame = KERNEL_PT
                           => out.mem[p][e] = Junk
    BY <1>1 DEF Directories
  <2>1. PICK e, u \in Idx : /\ e > KERNEL_PT_PDT_IDX
                             /\ Used(s, KERNEL_PD, e, u) /\ At(s, KERNEL_PD, e, u) = p
    BY <1>1 DEF Directories
  <2>2. e # d
    BY <2>1, <1>2, <1>6 DEF Idx
  <2>3. Used(out, KERNEL_PD, e, u) /\ At(out, KERNEL_PD, e, u) = p
    BY <2>1, <2>2, <1>1, <1>2, <1>9
  <2>4. \A g \in Idx : out.mem[p][g].present /\ out.mem[p][g].frame = KERNEL_PT
                         => out.mem[p][g] = Junk
    BY <1>1, <1>7 DEF Directories
  <2> QED
    BY <2>1, <2>3, <2>4
<1>16. Shape(out, R, W)
  BY <1>11, <1>12, <1>13, <1>14, <1>15 DEF Shape
<1>17. Removes(s, out, R, KERNEL_PD, d, t)
  BY <1>9 DEF Removes
<1> QED
  BY <1>8, <1>16, <1>17 DEF out, d, t

(* A mapped page above the kernel image that nothing was written to is a directory that
   leads nowhere.  *)
LEMMA DirectoryAdded ==
  ASSUME NEW s \in State, NEW R, NEW W, Shape(s, R, W), NEW fr \in Frames,
         NEW d \in Idx, NEW t \in Idx, d > KERNEL_PT_PDT_IDX,
         Used(s, KERNEL_PD, d, t), At(s, KERNEL_PD, d, t) = fr,
         \A x \in Idx : s.mem[fr][x] \in {Empty, Junk}
  PROVE  Shape(s, R \union {fr}, W)
<1>1. /\ Unique(s, R) /\ Taken(s, R, W) /\ Untouched(s, W)
      /\ KernelTables(s) /\ Directories(s, R) /\ KERNEL_PD \in R
  BY DEF Shape, Directories
<1>2. \A e \in Idx, u \in Spots : ~Used(s, fr, e, u)
  BY DEF Used, HasTable, Empty, Junk
<1>3. Unique(s, R \union {fr})
  BY <1>1, <1>2 DEF Unique
<1>4. Taken(s, R \union {fr}, W)
  BY <1>1, <1>2 DEF Taken
<1>5. Directories(s, R \union {fr})
  <2>1. \A e \in Idx : s.mem[fr][e].present /\ s.mem[fr][e].frame = KERNEL_PT => s.mem[fr][e] = Junk
    <3>1. ~Empty.present
      BY DEF Empty
    <3> QED
      BY <3>1
  <2> QED
    BY <2>1, <1>1 DEF Directories
<1> QED
  BY <1>1, <1>3, <1>4, <1>5 DEF Shape


(***************************************************************************)
(* The frames, under every sequence of calls.                              *)
(***************************************************************************)

(* Outside the kernel image a page is mapped when its place is used, to what is there. *)
LEMMA PageEntry ==
  ASSUME NEW s \in State, KernelTables(s), NEW v \in Pages
  PROVE  /\ v \in VPages /\ GET_PD_IDX(v) \in Idx /\ GET_PT_IDX(v) \in Idx
         /\ Entry(s, v).present <=> Used(s, KERNEL_PD, GET_PD_IDX(v), GET_PT_IDX(v))
         /\ Entry(s, v).present => /\ Entry(s, v).frame = At(s, KERNEL_PD, GET_PD_IDX(v), GET_PT_IDX(v))
                                   /\ Entry(s, v).frame \in Frames
<1> DEFINE d == GET_PD_IDX(v)
           t == GET_PT_IDX(v)
<1>1. v \in VPages /\ d \in Idx /\ t \in Idx /\ d # KERNEL_PT_PDT_IDX
  BY AddressParts DEF Pages
<1>2. t # Itself
  BY <1>1, Constants DEF Idx, Itself
<1>3. s.mem[KERNEL_PD][d].present => s.mem[KERNEL_PD][d].frame # KERNEL_PT
  BY <1>1 DEF KernelTables
<1>4. Entry(s, v).frame \in Frames
  BY <1>1, Constants, EntryType DEF Entry
<1>5. ~Empty.present
  BY DEF Empty
<1>6. CASE s.mem[KERNEL_PD][d].present
  <2>1. Entry(s, v) = s.mem[s.mem[KERNEL_PD][d].frame][t]
    BY <1>6 DEF Entry, Walk
  <2> QED
    BY <2>1, <1>1, <1>2, <1>3, <1>4, <1>6 DEF Used, HasTable, At
<1>7. CASE ~s.mem[KERNEL_PD][d].present
  <2>1. Entry(s, v) = Empty
    BY <1>7 DEF Entry, Walk
  <2> QED
    BY <2>1, <1>1, <1>5, <1>7 DEF Used, HasTable
<1> QED
  BY <1>6, <1>7

(* The same page has the same parts and other pages have others. *)
LEMMA PagesDiffer ==
  ASSUME NEW v \in VPages, NEW w \in VPages, GET_PD_IDX(v) = GET_PD_IDX(w),
         GET_PT_IDX(v) = GET_PT_IDX(w)
  PROVE  v = w
<1>1. v = GET_PD_IDX(v) * PT_ENTRIES + GET_PT_IDX(v) /\ w = GET_PD_IDX(w) * PT_ENTRIES + GET_PT_IDX(w)
  BY AddressParts
<1> QED
  BY <1>1

(* What the kernel's tables of s map a page to *)
MapOf(s) == [v \in Pages |-> IF Entry(s, v).present THEN Entry(s, v).frame ELSE NoFrame]

(* Mapping, before a step and after it, is that of the state. *)
LEMMA MappingOfNow == Mapping = MapOf(Now) /\ Mapping' = MapOf(Now')
BY DEF Mapping, MapOf, Entry, Walk

(* A page has the frame at its place, or none when the place is not used. *)
LEMMA MapOfPlaces ==
  ASSUME NEW s \in State, KernelTables(s)
  PROVE  /\ MapOf(s) \in [Pages -> Frames \union {NoFrame}]
         /\ \A v \in Pages :
              IF Used(s, KERNEL_PD, GET_PD_IDX(v), GET_PT_IDX(v))
                THEN MapOf(s)[v] = At(s, KERNEL_PD, GET_PD_IDX(v), GET_PT_IDX(v)) /\ MapOf(s)[v] \in Frames
                ELSE MapOf(s)[v] = NoFrame
<1>1. ASSUME NEW v \in Pages
      PROVE  /\ MapOf(s)[v] \in Frames \union {NoFrame}
             /\ IF Used(s, KERNEL_PD, GET_PD_IDX(v), GET_PT_IDX(v))
                  THEN MapOf(s)[v] = At(s, KERNEL_PD, GET_PD_IDX(v), GET_PT_IDX(v)) /\ MapOf(s)[v] \in Frames
                  ELSE MapOf(s)[v] = NoFrame
  <2>1. MapOf(s)[v] = IF Entry(s, v).present THEN Entry(s, v).frame ELSE NoFrame
    BY DEF MapOf
  <2>2. /\ Entry(s, v).present <=> Used(s, KERNEL_PD, GET_PD_IDX(v), GET_PT_IDX(v))
        /\ Entry(s, v).present => /\ Entry(s, v).frame = At(s, KERNEL_PD, GET_PD_IDX(v), GET_PT_IDX(v))
                                  /\ Entry(s, v).frame \in Frames
    BY PageEntry
  <2> QED
    BY <2>1, <2>2
<1>2. MapOf(s) = [v \in Pages |-> MapOf(s)[v]]
  BY DEF MapOf
<1> QED
  BY <1>1, <1>2

(* A step that maps a page, for AddressSpace *)
MapStep == \E v \in Pages : Space!Map(v)

(* A step that adds the place of a page, for a frame in hand or free, is a Map of
   AddressSpace.  *)
LEMMA AddsMaps ==
  ASSUME NEW R, NEW W, NEW V, NEW fr \in W \union Free(Now), NEW v \in Pages,
         Now \in State, Now' \in State, Shape(Now, R, W), Shape(Now', R, V),
         ~Used(Now, KERNEL_PD, GET_PD_IDX(v), GET_PT_IDX(v)),
         Adds(Now, Now', R, KERNEL_PD, GET_PD_IDX(v), GET_PT_IDX(v), fr)
  PROVE  MapStep
<1> DEFINE m == MapOf(Now)
           n == MapOf(Now')
           U(s, x) == Used(s, KERNEL_PD, GET_PD_IDX(x), GET_PT_IDX(x))
           A(s, x) == At(s, KERNEL_PD, GET_PD_IDX(x), GET_PT_IDX(x))
<1>1. /\ m \in [Pages -> Frames \union {NoFrame}] /\ n \in [Pages -> Frames \union {NoFrame}]
      /\ \A x \in Pages : IF U(Now, x) THEN m[x] = A(Now, x) /\ m[x] \in Frames ELSE m[x] = NoFrame
      /\ \A x \in Pages : IF U(Now', x) THEN n[x] = A(Now', x) /\ n[x] \in Frames ELSE n[x] = NoFrame
  BY MapOfPlaces DEF Shape
<1>2. KERNEL_PD \in R
  BY DEF Shape, Directories
<1>3. \A x \in Pages : /\ x \in VPages /\ GET_PD_IDX(x) \in Idx /\ GET_PT_IDX(x) \in Idx
                       /\ GET_PT_IDX(x) \in Spots /\ GET_PT_IDX(x) # Itself
  BY AddressParts, Constants DEF Pages, Spots, Itself, Idx
<1>4. fr \notin {m[x] : x \in Pages} /\ fr # NoFrame
  <2>1. fr \in START .. TOTAL_FRAMES - 1
    BY DEF Shape, Untouched
  <2>2. fr \in Frames /\ fr # NoFrame
    BY <2>1, Constants DEF Frames
  <2>3. ASSUME NEW x \in Pages, m[x] = fr PROVE FALSE
    <3>1. U(Now, x) /\ A(Now, x) = fr
      BY <1>1, <2>2, <2>3
    <3> QED
      BY <3>1, <1>2, <1>3 DEF Shape, Taken
  <2> QED
    BY <2>2, <2>3
<1>5. m[v] = NoFrame /\ n[v] = fr /\ n[v] \in Frames
  BY <1>1 DEF Adds
<1>6. ASSUME NEW x \in Pages, x # v PROVE n[x] = m[x]
  <2>1. ~(GET_PD_IDX(x) = GET_PD_IDX(v) /\ GET_PT_IDX(x) = GET_PT_IDX(v))
    BY <1>3, <1>6, PagesDiffer
  <2>2. /\ U(Now, x) => U(Now', x) /\ A(Now', x) = A(Now, x)
        /\ U(Now', x) => U(Now, x)
    BY <2>1, <1>2, <1>3 DEF Adds
  <2> QED
    BY <2>2, <1>1
<1> HIDE DEF m, n, U, A
<1>7. n = [m EXCEPT ![v] = n[v]]
  BY <1>1, <1>6
<1>8. Mapping = m /\ Mapping' = n
  BY MappingOfNow DEF m, n
<1>9. Mapping' = [Mapping EXCEPT ![v] = Mapping'[v]]
  BY <1>7, <1>8, Zenon
<1>10. Mapping[v] = NoFrame /\ Mapping'[v] \in Frames \ {Mapping[w] : w \in Pages}
  BY <1>4, <1>5, <1>8
<1> QED
  BY <1>9, <1>10 DEF MapStep, Space!Map

(* One that removes it is an Unmap. *)
LEMMA RemovesUnmaps ==
  ASSUME NEW R, NEW W, NEW v \in Pages,
         Now \in State, Now' \in State, Shape(Now, R, W), Shape(Now', R, W),
         Used(Now, KERNEL_PD, GET_PD_IDX(v), GET_PT_IDX(v)),
         Removes(Now, Now', R, KERNEL_PD, GET_PD_IDX(v), GET_PT_IDX(v))
  PROVE  Space!Next
<1> DEFINE m == MapOf(Now)
           n == MapOf(Now')
           U(s, x) == Used(s, KERNEL_PD, GET_PD_IDX(x), GET_PT_IDX(x))
           A(s, x) == At(s, KERNEL_PD, GET_PD_IDX(x), GET_PT_IDX(x))
<1>1. /\ m \in [Pages -> Frames \union {NoFrame}] /\ n \in [Pages -> Frames \union {NoFrame}]
      /\ \A x \in Pages : IF U(Now, x) THEN m[x] = A(Now, x) /\ m[x] \in Frames ELSE m[x] = NoFrame
      /\ \A x \in Pages : IF U(Now', x) THEN n[x] = A(Now', x) /\ n[x] \in Frames ELSE n[x] = NoFrame
  BY MapOfPlaces DEF Shape
<1>2. KERNEL_PD \in R
  BY DEF Shape, Directories
<1>3. \A x \in Pages : /\ x \in VPages /\ GET_PD_IDX(x) \in Idx /\ GET_PT_IDX(x) \in Idx
                       /\ GET_PT_IDX(x) \in Spots
  BY AddressParts DEF Pages, Spots
<1>4. m[v] # NoFrame /\ n[v] = NoFrame
  <2>1. m[v] \in Frames
    BY <1>1
  <2>2. ~U(Now', v)
    BY <1>2, <1>3 DEF Removes
  <2> QED
    BY <2>1, <2>2, <1>1, Constants
<1>5. ASSUME NEW x \in Pages, x # v PROVE n[x] = m[x]
  <2>1. ~(GET_PD_IDX(x) = GET_PD_IDX(v) /\ GET_PT_IDX(x) = GET_PT_IDX(v))
    BY <1>3, <1>5, PagesDiffer
  <2>2. /\ U(Now', x) <=> U(Now, x)
        /\ U(Now', x) => A(Now', x) = A(Now, x)
    BY <2>1, <1>2, <1>3 DEF Removes
  <2> QED
    BY <2>2, <1>1
<1> HIDE DEF m, n, U, A
<1>6. n = [m EXCEPT ![v] = NoFrame]
  BY <1>1, <1>4, <1>5
<1>7. Mapping = m /\ Mapping' = n
  BY MappingOfNow DEF m, n
<1> QED
  BY <1>4, <1>6, <1>7 DEF Space!Next, Space!Unmap

(* One that leaves the kernel's places alone is a stutter. *)
LEMMA SameMaps ==
  ASSUME NEW R, NEW W, NEW V, Now \in State, Now' \in State, Shape(Now, R, W), KernelTables(Now'),
         \A d \in Idx, t \in Spots :
           /\ Used(Now', KERNEL_PD, d, t) <=> Used(Now, KERNEL_PD, d, t)
           /\ Used(Now, KERNEL_PD, d, t) => At(Now', KERNEL_PD, d, t) = At(Now, KERNEL_PD, d, t)
  PROVE  Mapping' = Mapping
<1> DEFINE m == MapOf(Now)
           n == MapOf(Now')
           U(s, x) == Used(s, KERNEL_PD, GET_PD_IDX(x), GET_PT_IDX(x))
           A(s, x) == At(s, KERNEL_PD, GET_PD_IDX(x), GET_PT_IDX(x))
<1>1. /\ m \in [Pages -> Frames \union {NoFrame}] /\ n \in [Pages -> Frames \union {NoFrame}]
      /\ \A x \in Pages : IF U(Now, x) THEN m[x] = A(Now, x) /\ m[x] \in Frames ELSE m[x] = NoFrame
      /\ \A x \in Pages : IF U(Now', x) THEN n[x] = A(Now', x) /\ n[x] \in Frames ELSE n[x] = NoFrame
  BY MapOfPlaces DEF Shape
<1>2. \A x \in Pages : GET_PD_IDX(x) \in Idx /\ GET_PT_IDX(x) \in Spots
  BY AddressParts DEF Pages, Spots
<1>3. ASSUME NEW x \in Pages PROVE n[x] = m[x]
  <2>1. /\ U(Now', x) <=> U(Now, x)
        /\ U(Now, x) => A(Now', x) = A(Now, x)
    BY <1>2
  <2> QED
    BY <2>1, <1>1
<1> HIDE DEF m, n, U, A
<1>4. n = m
  BY <1>1, <1>3
<1> QED
  BY <1>4, MappingOfNow DEF m, n

(* FramesShape after a step is that of the new state. *)
LEMMA FramesShapeNow ==
  FramesShape' <=> FramesShapeOf(Now', dirs', i', total_malloc_pages' - HEAP_PAGES + i')
BY DEF FramesShape, FramesShapeOf, HeapNext, Shape, Unique, Taken, Untouched, KernelTables,
       Directories, RootsOf, InHand, InUse, Used, HasTable, At, Free, Entry, Walk, Now

(* If the pages of the directories stay and no page of the heap to come appears, what
   is left of FramesShape is the shape.  *)
LEMMA FramesKept ==
  ASSUME NEW s \in State, NEW ds, NEW k, NEW n \in Int, FramesShapeOf(s, ds, k, n),
         \A dir \in ds : dir.pdt \in VPages,
         NEW out \in State, NEW l, NEW m \in Int, n <= m,
         Shape(out, RootsOf(s, ds), InHand(out, l)),
         \A x, y \in l .. HEAP_PAGES - 1 : out.array[x] = out.array[y] => x = y,
         \A dir \in ds : InUse(out, dir.pdt) /\ FrameOf(out, dir.pdt) = FrameOf(s, dir.pdt),
         \A v \in m .. HeapLimit - 1 : InUse(out, v) => InUse(s, v)
  PROVE  FramesShapeOf(out, ds, l, m)
<1>1. KernelTables(s) /\ KernelTables(out)
  BY DEF FramesShapeOf, Shape
<1>2. \A dir \in ds : InUse(s, dir.pdt) /\ GET_PD_IDX(dir.pdt) > KERNEL_PT_PDT_IDX
  BY DEF FramesShapeOf
<1>3. ASSUME NEW dir \in ds
      PROVE  Entry(out, dir.pdt).frame = Entry(s, dir.pdt).frame
  <2>1. dir.pdt \in Pages
    BY <1>2, AddressParts, Constants DEF Pages, Idx
  <2>2. /\ Entry(s, dir.pdt).present <=> InUse(s, dir.pdt)
        /\ Entry(s, dir.pdt).present => Entry(s, dir.pdt).frame = FrameOf(s, dir.pdt)
    BY <1>1, <2>1, PageEntry DEF InUse, FrameOf
  <2>3. /\ Entry(out, dir.pdt).present <=> InUse(out, dir.pdt)
        /\ Entry(out, dir.pdt).present => Entry(out, dir.pdt).frame = FrameOf(out, dir.pdt)
    BY <1>1, <2>1, PageEntry DEF InUse, FrameOf
  <2> QED
    BY <2>2, <2>3, <1>2
<1>4. RootsOf(out, ds) = RootsOf(s, ds)
  BY <1>3 DEF RootsOf
<1>5. \A v \in m .. HeapLimit - 1 : ~InUse(out, v)
  <2>1. \A v \in m .. HeapLimit - 1 : v \in n .. HeapLimit - 1
    BY PagingAssumption
  <2>2. \A v \in n .. HeapLimit - 1 : ~InUse(s, v)
    BY DEF FramesShapeOf
  <2> QED
    BY <2>1, <2>2
<1> QED
  BY <1>2, <1>4, <1>5 DEF FramesShapeOf

(* Places of the kernel's directory that a step leaves alone *)
KernelPlacesKept(s, out) ==
  \A d \in Idx, t \in Spots :
    /\ Used(out, KERNEL_PD, d, t) <=> Used(s, KERNEL_PD, d, t)
    /\ Used(s, KERNEL_PD, d, t) => At(out, KERNEL_PD, d, t) = At(s, KERNEL_PD, d, t)

NextAfter == total_malloc_pages' - HEAP_PAGES + i'

(* What is to be shown of a step, and of one that unmaps nothing *)
FramesAfter ==
  /\ ~broken' => FramesShapeOf(Now', dirs', i', NextAfter)
  /\ \A x \in Idx : Now'.mem[KERNEL_PT][x] = Now.mem[KERNEL_PT][x]

FramesStep == FramesAfter /\ (Mapping' = Mapping \/ MapStep)

(* A page of the heap to come, and that of a directory, has a place. *)
LEMMA PageSpots ==
  ASSUME SlotInv
  PROVE  /\ HeapNext \in Nat
         /\ \A v \in HeapNext .. HeapLimit - 1 : v \in VPages /\ GET_PD_IDX(v) < KERNEL_PT_PDT_IDX
         /\ \A v \in VPages : /\ GET_PD_IDX(v) \in Idx /\ GET_PT_IDX(v) \in Idx
                              /\ GET_PT_IDX(v) \in Spots /\ GET_PT_IDX(v) # Itself
<1>1. HeapNext \in Nat
  BY Constants DEF SlotInv, HeapNext
<1>2. HeapLimit \in Nat
  BY PagingAssumption
<1>3. \A v \in HeapNext .. HeapLimit - 1 : v \in VPages /\ GET_PD_IDX(v) < KERNEL_PT_PDT_IDX
  <2>1. \A v \in HeapNext .. HeapLimit - 1 : v \in Nat /\ v < HeapLimit /\ HeapLimit <= HeapLimit
    BY <1>1, <1>2
  <2> QED
    BY <2>1, <1>2, HeapPage
<1> QED
  BY <1>1, <1>3, AddressParts, Constants DEF Spots, Itself, Idx

(* A step that leaves the kernel's places alone *)
LEMMA PlacesKeptStep ==
  ASSUME SlotInv, FramesShape, Now' \in State, KernelTables(Now'), KernelPlacesKept(Now, Now'),
         dirs' = dirs, NextAfter \in Int, HeapNext <= NextAfter,
         ~broken' => /\ Shape(Now', RootsOf(Now, dirs), InHand(Now', i'))
                     /\ \A x, y \in i' .. HEAP_PAGES - 1 : Now'.array[x] = Now'.array[y] => x = y,
         \A x \in Idx : Now'.mem[KERNEL_PT][x] = Now.mem[KERNEL_PT][x]
  PROVE  FramesStep
<1>1. Now \in State /\ FramesShapeOf(Now, dirs, i, HeapNext) /\ \A dir \in dirs : dir.pdt \in VPages
  BY DEF SlotInv, FramesShape
<1>2. Mapping' = Mapping
  BY <1>1, SameMaps DEF KernelPlacesKept, FramesShapeOf
<1>3. HeapNext \in Nat
      /\ \A v \in HeapNext .. HeapLimit - 1 : v \in VPages
  BY PageSpots
<1>4. \A v \in VPages : /\ InUse(Now', v) <=> InUse(Now, v)
                        /\ InUse(Now, v) => FrameOf(Now', v) = FrameOf(Now, v)
  <2> SUFFICES ASSUME NEW v \in VPages
               PROVE  /\ InUse(Now', v) <=> InUse(Now, v)
                      /\ InUse(Now, v) => FrameOf(Now', v) = FrameOf(Now, v)
    OBVIOUS
  <2> DEFINE d == GET_PD_IDX(v)
             t == GET_PT_IDX(v)
  <2>1. d \in Idx /\ t \in Spots
    BY PageSpots
  <2> HIDE DEF d, t
  <2>2. /\ Used(Now', KERNEL_PD, d, t) <=> Used(Now, KERNEL_PD, d, t)
        /\ Used(Now, KERNEL_PD, d, t) => At(Now', KERNEL_PD, d, t) = At(Now, KERNEL_PD, d, t)
    BY <2>1, Zenon DEF KernelPlacesKept
  <2> QED
    BY <2>2 DEF InUse, FrameOf, d, t
<1>5. \A dir \in dirs : InUse(Now', dir.pdt) /\ FrameOf(Now', dir.pdt) = FrameOf(Now, dir.pdt)
  BY <1>1, <1>4 DEF FramesShapeOf
<1>6. \A v \in NextAfter .. HeapLimit - 1 : InUse(Now', v) => InUse(Now, v)
  <2>1. \A v \in NextAfter .. HeapLimit - 1 : v \in HeapNext .. HeapLimit - 1
    BY <1>3, PagingAssumption
  <2> QED
    BY <2>1, <1>3, <1>4
<1>7. ~broken' => FramesShapeOf(Now', dirs, i', NextAfter)
  <2> SUFFICES ASSUME ~broken' PROVE FramesShapeOf(Now', dirs, i', NextAfter)
    OBVIOUS
  <2> QED
    BY <1>1, <1>3, <1>5, <1>6, FramesKept
<1> QED
  BY <1>2, <1>7 DEF FramesStep, FramesAfter

(* get_more_memory, up to its loop *)
LEMMA GrowHeapFrames ==
  ASSUME SlotInv, FramesShape, GrowHeap
  PROVE  FramesStep
<1> DEFINE a == pf_allocate_frames(Now, HEAP_PAGES)
           R == RootsOf(Now, dirs)
           W == InHand(Now, i)
           G == Granted(a, HEAP_PAGES)
<1>1. /\ Now \in State /\ total_malloc_pages \in Nat /\ i \in 0 .. HEAP_PAGES
      /\ HEAP_PAGES \in Nat \ {0} /\ HEAP_PAGES \in 1 .. HEAP_PAGES
  BY Constants DEF SlotInv
<1>2. /\ Becomes(a) /\ total_malloc_pages' = total_malloc_pages + HEAP_PAGES /\ i' = 0
      /\ dirs' = dirs /\ i = HEAP_PAGES /\ broken' = (a.res = 0)
  BY DEF GrowHeap, Idle
<1>3. Shape(Now, R, W) /\ W = {}
  BY <1>1, <1>2 DEF InHand, FramesShape, FramesShapeOf
<1>4. a \in State /\ a.mem = Now.mem
  BY <1>1, PfAllocateProperties
<1>5. /\ Shape(a, R, W)
      /\ a.res # 0 => /\ Shape(a, R, W \union G)
                      /\ \A j, k \in 0 .. HEAP_PAGES - 1 : a.array[j] = a.array[k] => j = k
  <2> HIDE DEF R, W
  <2>1. Now \in State /\ HEAP_PAGES \in 1 .. HEAP_PAGES
    BY <1>1
  <2> QED
    BY <2>1, <1>3, RequestShape
<1>6. G = InHand(a, 0)
  BY DEF InHand, Granted
<1> HIDE DEF a, R, W, G
<1>7. Now' = a
  BY <1>2, <1>4, BecomesNow
<1>8. KernelTables(Now')
  BY <1>5, <1>7 DEF Shape
<1>9. KernelPlacesKept(Now, Now') /\ \A x \in Idx : Now'.mem[KERNEL_PT][x] = Now.mem[KERNEL_PT][x]
  BY <1>4, <1>7 DEF KernelPlacesKept, Used, At, HasTable
<1>10. NextAfter \in Int /\ HeapNext <= NextAfter
  BY <1>1, <1>2 DEF NextAfter, HeapNext
<1>11. ~broken' => Shape(Now', R, InHand(Now', i'))
                   /\ \A x, y \in i' .. HEAP_PAGES - 1 : Now'.array[x] = Now'.array[y] => x = y
  <2>1. W \union G = G
    BY <1>3
  <2> QED
    BY <2>1, <1>2, <1>5, <1>6, <1>7
<1> QED
  BY <1>2, <1>4, <1>7, <1>8, <1>9, <1>10, <1>11, PlacesKeptStep DEF R

(* A step that adds a page *)
LEMMA AddedStep ==
  ASSUME SlotInv, FramesShape, Now' \in State, NEW v \in Pages, ~InUse(Now, v),
         NEW fr \in InHand(Now, i) \union Free(Now),
         Adds(Now, Now', RootsOf(Now, dirs), KERNEL_PD, GET_PD_IDX(v), GET_PT_IDX(v), fr),
         Shape(Now', RootsOf(Now, dirs), InHand(Now', i')),
         \A x, y \in i' .. HEAP_PAGES - 1 : Now'.array[x] = Now'.array[y] => x = y,
         NextAfter \in Int, HeapNext <= NextAfter, v \notin NextAfter .. HeapLimit - 1
  PROVE  MapStep /\ FramesShapeOf(Now', dirs, i', NextAfter)
<1> DEFINE R == RootsOf(Now, dirs)
<1>1. Now \in State /\ FramesShapeOf(Now, dirs, i, HeapNext) /\ \A dir \in dirs : dir.pdt \in VPages
  BY DEF SlotInv, FramesShape
<1>2. KERNEL_PD \in R
  BY DEF RootsOf
<1>3. HeapNext \in Nat /\ \A w \in HeapNext .. HeapLimit - 1 : w \in VPages
  BY PageSpots
<1>4. v \in VPages
  BY DEF Pages
<1>5. MapStep
  <2>1. Shape(Now, R, InHand(Now, i))
    BY <1>1 DEF FramesShapeOf
  <2> HIDE DEF R
  <2> QED
    BY <2>1, <1>1, AddsMaps DEF InUse, R
<1>6. ASSUME NEW w \in VPages, w # v
      PROVE  /\ InUse(Now, w) => InUse(Now', w) /\ FrameOf(Now', w) = FrameOf(Now, w)
             /\ InUse(Now', w) => InUse(Now, w)
  <2> DEFINE d == GET_PD_IDX(w)
             t == GET_PT_IDX(w)
  <2>1. d \in Idx /\ t \in Spots /\ t # Itself
    BY PageSpots
  <2>2. ~(d = GET_PD_IDX(v) /\ t = GET_PT_IDX(v))
    BY <1>4, <1>6, PagesDiffer
  <2> HIDE DEF d, t, R
  <2>3. /\ Used(Now, KERNEL_PD, d, t) =>
             Used(Now', KERNEL_PD, d, t) /\ At(Now', KERNEL_PD, d, t) = At(Now, KERNEL_PD, d, t)
        /\ Used(Now', KERNEL_PD, d, t) => Used(Now, KERNEL_PD, d, t)
    BY <2>1, <2>2, <1>2 DEF Adds, R
  <2> QED
    BY <2>3 DEF InUse, FrameOf, d, t
<1>7. \A dir \in dirs : InUse(Now', dir.pdt) /\ FrameOf(Now', dir.pdt) = FrameOf(Now, dir.pdt)
  <2> SUFFICES ASSUME NEW dir \in dirs
               PROVE  InUse(Now', dir.pdt) /\ FrameOf(Now', dir.pdt) = FrameOf(Now, dir.pdt)
    OBVIOUS
  <2>1. InUse(Now, dir.pdt)
    BY <1>1 DEF FramesShapeOf
  <2> QED
    BY <2>1, <1>1, <1>6
<1>8. \A w \in NextAfter .. HeapLimit - 1 : InUse(Now', w) => InUse(Now, w)
  <2>1. \A w \in NextAfter .. HeapLimit - 1 : w \in HeapNext .. HeapLimit - 1 /\ w # v
    BY <1>3, PagingAssumption
  <2> QED
    BY <2>1, <1>3, <1>6
<1>9. FramesShapeOf(Now', dirs, i', NextAfter)
  BY <1>1, <1>3, <1>7, <1>8, FramesKept
<1> QED
  BY <1>5, <1>9

(* One iteration of malloc's loop: the page mapped is the next one, and the frame is no
   longer in hand.  *)
LEMMA GrowPageFrames ==
  ASSUME SlotInv, FramesShape, GrowPage, seen' = {}
  PROVE  FramesStep
<1> DEFINE virt == total_malloc_pages - HEAP_PAGES + i
           fr == HeapFrame(i)
           s == GrownBy(Now, fr, virt)
           R == RootsOf(Now, dirs)
           W == InHand(Now, i + 1)
<1>1. /\ Now \in State /\ Coherent(Now) /\ total_malloc_pages \in Nat /\ i \in 0 .. HEAP_PAGES
      /\ i < HEAP_PAGES => HEAP_PAGES <= total_malloc_pages
      /\ total_malloc_pages <= HeapLimit
      /\ HEAP_PAGES \in Nat \ {0} /\ HeapLimit \in Nat
  BY Constants, PagingAssumption DEF SlotInv
<1>2. i < HEAP_PAGES /\ Becomes(s) /\ i' = i + 1 /\ UNCHANGED <<dirs, total_malloc_pages>>
  BY DEF GrowPage, GrownBy
<1>3. virt = HeapNext /\ virt \in HeapNext .. HeapLimit - 1 /\ virt \in Nat
      /\ NextAfter = HeapNext + 1
  BY <1>1, <1>2 DEF HeapNext, NextAfter
<1>4. virt \in VPages /\ GET_PD_IDX(virt) < KERNEL_PT_PDT_IDX /\ ~InUse(Now, virt)
  <2>1. \A v \in HeapNext .. HeapLimit - 1 : ~InUse(Now, v)
    BY DEF FramesShape, FramesShapeOf
  <2> HIDE DEF virt
  <2> QED
    BY <2>1, <1>3, PageSpots
<1>5. GET_PD_IDX(virt) # KERNEL_PT_PDT_IDX
  <2> HIDE DEF virt
  <2>1. GET_PD_IDX(virt) \in Idx
    BY <1>4, AddressParts
  <2> QED
    BY <2>1, <1>4, Constants DEF Idx
<1>6. fr \in Frames /\ fr \notin W /\ W \union {fr} = InHand(Now, i)
  <2>1. Now.array = array /\ array \in [0 .. HEAP_PAGES - 1 -> Frames]
    BY <1>1, StateParts DEF Now
  <2>2. i \in 0 .. HEAP_PAGES - 1 /\ i \in i .. HEAP_PAGES - 1
        /\ (\A k \in i + 1 .. HEAP_PAGES - 1 : k \in i .. HEAP_PAGES - 1 /\ k # i)
        /\ (\A k \in i .. HEAP_PAGES - 1 : k = i \/ k \in i + 1 .. HEAP_PAGES - 1)
    BY <1>1, <1>2
  <2>3. \A j, k \in i .. HEAP_PAGES - 1 : array[j] = array[k] => j = k
    BY <2>1 DEF FramesShape, FramesShapeOf
  <2> QED
    BY <2>1, <2>2, <2>3 DEF InHand, HeapFrame
<1>7. Shape(Now, R, W \union {fr})
  BY <1>6 DEF FramesShape, FramesShapeOf
<1> HIDE DEF virt, fr, R, W
<1>8. /\ \A k \in 1 .. HEAP_PAGES - 1 : s.array[k] = Now.array[k]
      /\ s.seen = {} =>
           /\ Shape(s, R, W)
           /\ \/ Adds(Now, s, R, KERNEL_PD, GET_PD_IDX(virt), GET_PT_IDX(virt), fr)
              \/ SamePlaces(Now, s, R)
           /\ \A x \in Idx : s.mem[KERNEL_PT][x] = Now.mem[KERNEL_PT][x]
  <2>1. Now \in State /\ Coherent(Now) /\ fr \in Frames /\ fr \notin W /\ virt \in VPages
        /\ ~Used(Now, KERNEL_PD, GET_PD_IDX(virt), GET_PT_IDX(virt))
    BY <1>1, <1>4, <1>6 DEF InUse
  <2> QED
    BY <2>1, <1>5, <1>7, GrowPageShape
<1>9. Keeps(Now, s)
  BY <1>1, <1>4, <1>6, GrowPageKeeps
<1> HIDE DEF s
<1>10. Now' = s /\ s.seen = {} /\ s \in State
  <2>1. Now' = s /\ s \in State
    BY <1>2, <1>9, BecomesNow DEF Keeps
  <2>2. Now'.seen = {}
    BY DEF Now
  <2> QED
    BY <2>1, <2>2
<1>11. InHand(Now', i') = W
       /\ \A x, y \in i' .. HEAP_PAGES - 1 : Now'.array[x] = Now'.array[y] => x = y
  <2>1. \A k \in i + 1 .. HEAP_PAGES - 1 : Now'.array[k] = Now.array[k]
    BY <1>1, <1>8, <1>10
  <2>2. \A j, k \in i .. HEAP_PAGES - 1 : Now.array[j] = Now.array[k] => j = k
    BY DEF FramesShape, FramesShapeOf
  <2>3. \A k \in i + 1 .. HEAP_PAGES - 1 : k \in i .. HEAP_PAGES - 1
    BY <1>1
  <2>4. \A x, y \in i + 1 .. HEAP_PAGES - 1 : Now'.array[x] = Now'.array[y] => x = y
    BY <2>1, <2>2, <2>3
  <2>5. InHand(Now', i + 1) = InHand(Now, i + 1)
    BY <2>1 DEF InHand
  <2> QED
    BY <2>4, <2>5, <1>2 DEF W
<1>12. Shape(Now', R, InHand(Now', i')) /\ KernelTables(Now')
  BY <1>8, <1>10, <1>11 DEF Shape
<1>13. CASE Adds(Now, s, R, KERNEL_PD, GET_PD_IDX(virt), GET_PT_IDX(virt), fr)
  <2>1. virt \in Pages
    BY <1>4, <1>5 DEF Pages
  <2>2. fr \in InHand(Now, i) \union Free(Now)
    BY <1>6
  <2>3. NextAfter \in Int /\ HeapNext <= NextAfter /\ virt \notin NextAfter .. HeapLimit - 1
    BY <1>1, <1>3
  <2>4. MapStep /\ FramesShapeOf(Now', dirs, i', NextAfter)
    BY <2>1, <2>2, <2>3, <1>4, <1>10, <1>11, <1>12, <1>13, AddedStep DEF R
  <2> QED
    BY <2>4, <1>2, <1>8, <1>10 DEF FramesStep, FramesAfter
<1>14. CASE SamePlaces(Now, s, R)
  <2>1. KERNEL_PD \in R
    BY DEF R, RootsOf
  <2>2. KernelPlacesKept(Now, Now')
    BY <2>1, <1>10, <1>14 DEF KernelPlacesKept, SamePlaces
  <2>3. NextAfter \in Int /\ HeapNext <= NextAfter
    BY <1>1, <1>3
  <2> QED
    BY <2>2, <2>3, <1>2, <1>8, <1>10, <1>11, <1>12, PlacesKeptStep DEF R
<1> QED
  BY <1>8, <1>10, <1>13, <1>14

(* Between calls of malloc nothing is in hand. *)
LEMMA NothingInHand ==
  ASSUME SlotInv, i = HEAP_PAGES, UNCHANGED <<total_malloc_pages, i>>
  PROVE  /\ InHand(Now, i) = {} /\ InHand(Now', i') = InHand(Now, i)
         /\ \A x, y \in i' .. HEAP_PAGES - 1 : Now'.array[x] = Now'.array[y] => x = y
         /\ NextAfter = HeapNext /\ NextAfter \in Int /\ HeapNext <= NextAfter
         /\ HeapNext = total_malloc_pages
<1>1. i .. HEAP_PAGES - 1 = {} /\ i' = i
  BY Constants
<1>2. total_malloc_pages \in Nat /\ HEAP_PAGES \in Nat
  BY Constants DEF SlotInv
<1> QED
  BY <1>1, <1>2 DEF InHand, HeapNext, NextAfter

(* A call outside malloc that leaves the kernel's places alone *)
LEMMA IdleStep ==
  ASSUME SlotInv, FramesShape, i = HEAP_PAGES, UNCHANGED <<total_malloc_pages, i, dirs>>,
         Now' \in State, Shape(Now', RootsOf(Now, dirs), InHand(Now, i)),
         KernelPlacesKept(Now, Now'),
         \A x \in Idx : Now'.mem[KERNEL_PT][x] = Now.mem[KERNEL_PT][x]
  PROVE  FramesStep
<1>1. /\ InHand(Now', i') = InHand(Now, i)
      /\ \A x, y \in i' .. HEAP_PAGES - 1 : Now'.array[x] = Now'.array[y] => x = y
      /\ NextAfter \in Int /\ HeapNext <= NextAfter
  BY NothingInHand
<1>2. KernelTables(Now') /\ dirs' = dirs
  BY DEF Shape
<1> QED
  BY <1>1, <1>2, PlacesKeptStep

(* unmap_page *)
LEMMA UnmapPageFrames ==
  ASSUME SlotInv, FramesShape, NEW v \in HeapPages, UnmapPage(v)
  PROVE  FramesAfter /\ Space!Next
<1> DEFINE s == unmap_page(Now, v)
           R == RootsOf(Now, dirs)
           W == InHand(Now, i)
           d == GET_PD_IDX(v)
           t == GET_PT_IDX(v)
<1>1. /\ Now \in State /\ total_malloc_pages \in Nat /\ total_malloc_pages <= HeapLimit
      /\ HeapLimit \in Nat /\ Shape(Now, R, W) /\ KernelTables(Now)
      /\ FramesShapeOf(Now, dirs, i, HeapNext) /\ \A dir \in dirs : dir.pdt \in VPages
  BY PagingAssumption DEF SlotInv, FramesShape, FramesShapeOf, Shape
<1>2. /\ i = HEAP_PAGES /\ Becomes(s) /\ UNCHANGED <<total_malloc_pages, i, dirs>>
      /\ Entry(Now, v).present
  BY DEF UnmapPage, Idle
<1>3. v \in Nat /\ v < total_malloc_pages
  BY <1>1 DEF HeapPages
<1>4. v \in VPages /\ d < KERNEL_PT_PDT_IDX
  BY <1>1, <1>3, HeapPage
<1>5. d \in Idx /\ t \in Idx /\ t \in Spots /\ d # KERNEL_PT_PDT_IDX
  <2>1. d \in Idx /\ t \in Idx
    BY <1>4, AddressParts
  <2> QED
    BY <2>1, <1>4, Constants DEF Spots, Idx
<1>6. v \in Pages
  BY <1>4, <1>5 DEF Pages
<1>7. Used(Now, KERNEL_PD, d, t)
  BY <1>1, <1>2, <1>6, PageEntry
<1> HIDE DEF R, W
<1>8. /\ Shape(s, R, W)
      /\ Removes(Now, s, R, KERNEL_PD, d, t)
      /\ \A x \in Idx : s.mem[KERNEL_PT][x] = Now.mem[KERNEL_PT][x]
  BY <1>1, <1>4, <1>7, UnmapShape
<1>9. Keeps(Now, s)
  BY <1>1, <1>4, UnmapPageEffect
<1> HIDE DEF s
<1>10. Now' = s /\ s \in State
  BY <1>2, <1>9, BecomesNow DEF Keeps
<1>11. Space!Next
  BY <1>1, <1>6, <1>7, <1>8, <1>10, RemovesUnmaps
<1>12. /\ InHand(Now', i') = W
       /\ \A x, y \in i' .. HEAP_PAGES - 1 : Now'.array[x] = Now'.array[y] => x = y
       /\ NextAfter \in Int /\ HeapNext <= NextAfter
  BY <1>2, NothingInHand DEF W
<1>13. ASSUME NEW w \in VPages
       PROVE  /\ InUse(Now', w) => InUse(Now, w)
              /\ InUse(Now, w) /\ GET_PD_IDX(w) # d =>
                   InUse(Now', w) /\ FrameOf(Now', w) = FrameOf(Now, w)
  <2> DEFINE e == GET_PD_IDX(w)
             u == GET_PT_IDX(w)
  <2>1. e \in Idx /\ u \in Spots
    BY PageSpots
  <2>2. KERNEL_PD \in R
    BY DEF R, RootsOf
  <2> HIDE DEF e, u, d, t
  <2>3. /\ Used(s, KERNEL_PD, e, u) <=> Used(Now, KERNEL_PD, e, u) /\ ~(e = d /\ u = t)
        /\ Used(s, KERNEL_PD, e, u) => At(s, KERNEL_PD, e, u) = At(Now, KERNEL_PD, e, u)
    BY <2>1, <2>2, <1>8 DEF Removes
  <2>4. /\ InUse(Now', w) <=> Used(s, KERNEL_PD, e, u)
        /\ InUse(Now, w) <=> Used(Now, KERNEL_PD, e, u)
        /\ FrameOf(Now', w) = At(s, KERNEL_PD, e, u)
        /\ FrameOf(Now, w) = At(Now, KERNEL_PD, e, u)
        /\ GET_PD_IDX(w) = e
    BY <1>10 DEF InUse, FrameOf, e, u
  <2> QED
    BY <2>3, <2>4
<1>14. \A dir \in dirs : InUse(Now', dir.pdt) /\ FrameOf(Now', dir.pdt) = FrameOf(Now, dir.pdt)
  <2> SUFFICES ASSUME NEW dir \in dirs
               PROVE  InUse(Now', dir.pdt) /\ FrameOf(Now', dir.pdt) = FrameOf(Now, dir.pdt)
    OBVIOUS
  <2>1. InUse(Now, dir.pdt) /\ GET_PD_IDX(dir.pdt) > KERNEL_PT_PDT_IDX /\ dir.pdt \in VPages
    BY <1>1 DEF FramesShapeOf
  <2>2. GET_PD_IDX(dir.pdt) # d
    BY <2>1, <1>4, <1>5, AddressParts, Constants DEF Idx
  <2> QED
    BY <2>1, <2>2, <1>13
<1>15. \A w \in NextAfter .. HeapLimit - 1 : InUse(Now', w) => InUse(Now, w)
  <2>1. \A w \in NextAfter .. HeapLimit - 1 : w \in VPages
    BY <1>2, NothingInHand, PageSpots
  <2> QED
    BY <2>1, <1>13
<1>16. FramesShapeOf(Now', dirs, i', NextAfter)
  <2>1. Shape(Now', R, InHand(Now', i'))
    BY <1>8, <1>10, <1>12
  <2>2. HeapNext \in Int
    BY PageSpots
  <2> QED
    BY <2>1, <2>2, <1>1, <1>10, <1>12, <1>14, <1>15, FramesKept DEF R
<1> QED
  BY <1>2, <1>8, <1>10, <1>11, <1>16 DEF FramesAfter

(* A request for one frame leaves memory alone and, if granted, has a free frame in hand. *)
LEMMA OneRequested ==
  ASSUME NEW s \in State, Coherent(s), NEW R, NEW W, Shape(s, R, W)
  PROVE  LET a == pf_allocate_frames(s, 1)
             fr == a.array[0]
         IN
         /\ Keeps(s, a) /\ a \in State /\ Coherent(a) /\ a.mem = s.mem /\ a.seen = s.seen
         /\ Shape(a, R, W) /\ fr \in Frames
         /\ a.res # 0 => Shape(a, R, W \union {fr}) /\ fr \in Free(s) /\ fr \notin W
<1> DEFINE a == pf_allocate_frames(s, 1)
           G == Granted(a, 1)
<1>1. 1 \in 1 .. HEAP_PAGES
  BY Constants
<1>2. a \in State /\ a.mem = s.mem /\ a.seen = s.seen
  BY <1>1, PfAllocateProperties
<1>3. Keeps(s, a) /\ a.array[0] \in Frames
  BY <1>1, PfAllocateKeeps
<1>4. Shape(a, R, W) /\ (a.res # 0 => Shape(a, R, W \union G) /\ G \subseteq Free(s))
  BY <1>1, RequestShape
<1> HIDE DEF a
<1>5. G = {a.array[0]}
  BY DEF Granted
<1>6. W \intersect Free(s) = {}
  BY DEF Shape, Untouched
<1>7. a.res # 0 => a.array[0] \in Free(s) /\ a.array[0] \notin W /\ Shape(a, R, W \union {a.array[0]})
  BY <1>4, <1>5, <1>6
<1>8. Coherent(a)
  BY <1>3 DEF Keeps
<1> QED
  BY <1>2, <1>3, <1>4, <1>7, <1>8, Zenon DEF a

(* A page of another directory is none of the kernel's. *)
LEMMA OtherDirectory ==
  ASSUME NEW s, NEW out, NEW R, NEW W, NEW pd, NEW d, NEW t, NEW fr, KERNEL_PD \in R,
         pd # KERNEL_PD, MapsPlace(s, out, R, W, pd, d, t, fr)
  PROVE  KernelPlacesKept(s, out)
         /\ \A x \in Idx : out.mem[KERNEL_PT][x] = s.mem[KERNEL_PT][x]
<1>1. ASSUME NEW e \in Idx, NEW u \in Spots
      PROVE  /\ Used(out, KERNEL_PD, e, u) <=> Used(s, KERNEL_PD, e, u)
             /\ Used(s, KERNEL_PD, e, u) => At(out, KERNEL_PD, e, u) = At(s, KERNEL_PD, e, u)
  BY DEF MapsPlace
<1>2. \A x \in Idx : out.mem[KERNEL_PT][x] = s.mem[KERNEL_PT][x]
  BY DEF MapsPlace
<1> QED
  BY <1>1, <1>2 DEF KernelPlacesKept

(* The kernel's places depend on memory only. *)
LEMMA MemoryPlaces ==
  ASSUME NEW s, NEW a, a.mem = s.mem
  PROVE  /\ \A p, d, t : (Used(a, p, d, t) <=> Used(s, p, d, t)) /\ At(a, p, d, t) = At(s, p, d, t)
         /\ KernelPlacesKept(s, a)
         /\ \A out : KernelPlacesKept(a, out) => KernelPlacesKept(s, out)
<1>1. \A p, d, t : (Used(a, p, d, t) <=> Used(s, p, d, t)) /\ At(a, p, d, t) = At(s, p, d, t)
  BY DEF Used, At, HasTable
<1> QED
  BY <1>1 DEF KernelPlacesKept

(* process_set_stack: the directory is not the kernel's, so no page of the kernel's is
   touched.  *)
LEMMA SetStackFrames ==
  ASSUME SlotInv, FramesShape, NEW dir \in dirs, process_set_stack(dir), seen' = {}
  PROVE  FramesStep
<1> DEFINE a == pf_allocate_frames(Now, 1)
           pd == Entry(Now, dir.pdt).frame
           fr == a.array[0]
           v == PROCESS_INIT_STACK_VADDR
           c == map_page(a, pd, fr, v, TRUE)
           R == RootsOf(Now, dirs)
           W == InHand(Now, i)
<1>1. /\ Now \in State /\ Coherent(Now) /\ Shape(Now, R, W) /\ KERNEL_PD \in R /\ pd \in R
      /\ KernelTables(Now) /\ TRUE \in BOOLEAN
      /\ InUse(Now, dir.pdt) /\ GET_PD_IDX(dir.pdt) > KERNEL_PT_PDT_IDX /\ dir.pdt \in VPages
  BY DEF SlotInv, FramesShape, FramesShapeOf, Shape, RootsOf
<1>2. /\ i = HEAP_PAGES /\ UNCHANGED <<total_malloc_pages, i, dirs>>
      /\ IF a.res = 0 THEN Becomes(a) ELSE Becomes(c)
  BY DEF process_set_stack, Idle
<1>3. /\ a \in State /\ Coherent(a) /\ a.mem = Now.mem
      /\ Shape(a, R, W) /\ fr \in Frames
      /\ a.res # 0 => Shape(a, R, W \union {fr}) /\ fr \notin W
  <2> HIDE DEF R, W
  <2> QED
    BY <1>1, OneRequested
<1>4. pd # KERNEL_PD
  <2>1. GET_PD_IDX(dir.pdt) \in Idx /\ GET_PT_IDX(dir.pdt) \in Spots
    BY <1>1, PageSpots
  <2>2. GET_PD_IDX(dir.pdt) # KERNEL_PT_PDT_IDX
    BY <1>1, <2>1, Constants DEF Idx
  <2>3. dir.pdt \in Pages
    BY <1>1, <2>2 DEF Pages
  <2>4. pd = FrameOf(Now, dir.pdt)
    BY <2>3, <1>1, PageEntry DEF InUse, FrameOf
  <2>5. FrameOf(Now, dir.pdt) \in START .. TOTAL_FRAMES - 1
    BY <2>1, <1>1 DEF Shape, Taken, InUse, FrameOf
  <2> QED
    BY <2>4, <2>5, Constants DEF Frames
<1> HIDE DEF a, pd, fr, R, W
<1>5. CASE a.res = 0
  <2>1. Now' = a
    BY <1>2, <1>3, <1>5, BecomesNow
  <2>2. KernelPlacesKept(Now, Now')
    BY <2>1, <1>3, MemoryPlaces
  <2> QED
    BY <2>1, <2>2, <1>2, <1>3, IdleStep DEF R, W
<1>6. CASE a.res # 0
  <2>1. v \in VPages /\ Shape(a, R, W \union {fr}) /\ fr \notin W
    BY <1>3, <1>6, StackPage
  <2>2. ~IsSlot(pd, GET_PD_IDX(v))
    <3>1. GET_PD_IDX(v) # KERNEL_TMP_PT_IDX
      BY StackPage, Constants DEF Idx
    <3> QED
      BY <3>1 DEF IsSlot
  <2>3. pd \in Frames
    BY <1>1 DEF Shape, Directories
  <2>4. Keeps(a, c)
    BY <2>1, <2>2, <2>3, <1>1, <1>3, MapPageKeeps
  <2>5. /\ c.seen = {} =>
             /\ Shape(c, R, W)
             /\ c.res = 0 => c.mem = a.mem
             /\ c.res # 0 =>
                  MapsPlace(a, c, R, W \union {fr}, pd, GET_PD_IDX(v), GET_PT_IDX(v), fr)
    BY <2>1, <1>1, <1>3, <1>4, MapPageShape
  <2> HIDE DEF c, v
  <2>6. Now' = c /\ c \in State /\ c.seen = {}
    <3>1. Now' = c /\ c \in State
      BY <2>4, <1>2, <1>6, BecomesNow DEF Keeps
    <3>2. Now'.seen = {}
      BY DEF Now
    <3> QED
      BY <3>1, <3>2
  <2>7. KernelPlacesKept(a, c) /\ \A x \in Idx : c.mem[KERNEL_PT][x] = a.mem[KERNEL_PT][x]
    <3>1. CASE c.res = 0
      BY <3>1, <2>5, <2>6, MemoryPlaces
    <3>2. CASE c.res # 0
      <4>1. MapsPlace(a, c, R, W \union {fr}, pd, GET_PD_IDX(v), GET_PT_IDX(v), fr)
        BY <3>2, <2>5, <2>6
      <4> QED
        BY <4>1, <1>1, <1>4, OtherDirectory
    <3> QED
      BY <3>1, <3>2
  <2>8. KernelPlacesKept(Now, Now')
    BY <2>6, <2>7, <1>3, MemoryPlaces
  <2> QED
    BY <2>5, <2>6, <2>7, <2>8, <1>2, <1>3, IdleStep DEF R, W
<1> QED
  BY <1>5, <1>6

(* The search keeps the shape; if it notes nothing, it finds a page above the kernel image
   that is not in use.  *)
LEMMA SearchShape ==
  ASSUME NEW s \in State, Coherent(s)
  PROVE  LET q == pdt_kernel_find_next_vaddr(s, 1) IN
         /\ Keeps(s, q) /\ q \in State /\ Coherent(q) /\ q.mem = s.mem /\ q.array = s.array
         /\ q.res \in VPages
         /\ \A R, W : Shape(s, R, W) =>
              /\ Shape(q, R, W) /\ Free(q) = Free(s)
              /\ q.seen = {} => /\ q.res # 0 /\ q.res \in Pages /\ ~InUse(q, q.res)
                                /\ GET_PD_IDX(q.res) > KERNEL_PT_PDT_IDX
<1> DEFINE q == pdt_kernel_find_next_vaddr(s, 1)
           d == GET_PD_IDX(q.res)
           t == GET_PT_IDX(q.res)
           T == s.mem[KERNEL_PD][d].frame
           K == KERNEL_PT_PDT_IDX
<1>1. /\ Keeps(s, q) /\ q.mem = s.mem /\ q.pool = s.pool /\ q.array = s.array
      /\ s.seen \subseteq q.seen /\ q.res \in VPages
      /\ q.res = 0 => "full" \in q.seen
      /\ q.res # 0 =>
           /\ d \in K .. PT_ENTRIES - 1
           /\ s.mem[KERNEL_PD][d].present => ~IsSlot(T, t) /\ ~s.mem[T][t].present
           /\ ~s.mem[KERNEL_PD][d].present => t = 0
  BY SearchEffect
<1>2. q \in State /\ Coherent(q)
  BY <1>1 DEF Keeps
<1>3. d \in Idx /\ t \in Idx /\ t # Itself
  <2>1. d \in Idx /\ t \in Idx
    BY <1>1, AddressParts
  <2> QED
    BY <2>1, Constants DEF Idx, Itself
<1> HIDE DEF q
<1>4. ASSUME NEW R, NEW W, Shape(s, R, W)
      PROVE  Shape(q, R, W) /\ Free(q) = Free(s)
  <2>1. Free(q) = Free(s) /\ W \intersect Free(s) = {}
        /\ \A j, k \in 1 .. Len(q.pool) : q.pool[j] = q.pool[k] => j = k
    BY <1>1, <1>4 DEF Free, Shape, Untouched
  <2>2. Shape(q, R, W)
    BY <2>1, <1>1, <1>4, ShapeSubset
  <2> QED
    BY <2>1, <2>2
<1>5. ASSUME NEW R, NEW W, Shape(s, R, W), q.seen = {}
      PROVE  q.res # 0 /\ q.res \in Pages /\ ~InUse(q, q.res) /\ d > K
  <2>1. q.res # 0
    BY <1>1, <1>5
  <2>2. d # K
    <3>1. SUFFICES ASSUME d = K PROVE FALSE
      OBVIOUS
    <3>2. s.mem[KERNEL_PD][K].present /\ s.mem[KERNEL_PD][K].frame = KERNEL_PT
          /\ \A x \in Idx \ {KERNEL_TMP_PT_IDX} : s.mem[KERNEL_PT][x].present
      BY <1>5 DEF Shape, KernelTables
    <3>3. ~IsSlot(KERNEL_PT, t) /\ ~s.mem[KERNEL_PT][t].present
      BY <3>1, <3>2, <2>1, <1>1
    <3> QED
      BY <3>2, <3>3, <1>3 DEF IsSlot
  <2>3. d > K
    BY <2>1, <2>2, <1>1, Constants DEF Idx
  <2>4. q.res \in Pages
    BY <2>2, <1>1 DEF Pages
  <2>5. ~InUse(q, q.res)
    <3>1. ~Used(s, KERNEL_PD, d, t)
      BY <2>1, <1>1, <1>3 DEF Used, HasTable
    <3> QED
      BY <3>1, <1>1, MemoryPlaces DEF InUse
  <2> QED
    BY <2>1, <2>3, <2>4, <2>5
<1> QED
  BY <1>1, <1>2, <1>4, <1>5, Zenon DEF q

(* What create_pdt and process_set_kernel_stack have in common: a frame is requested, a
   page found for it, and it is mapped there.  *)
MappedAbove(s, c, R, W, v, fr) ==
  /\ v \in Pages /\ GET_PD_IDX(v) > KERNEL_PT_PDT_IDX /\ ~InUse(s, v)
  /\ fr \in Free(s)
  /\ Shape(c, R, W)
  /\ c.res = 0 => KernelPlacesKept(s, c)
  /\ c.res # 0 => /\ Adds(s, c, R, KERNEL_PD, GET_PD_IDX(v), GET_PT_IDX(v), fr)
                  /\ \A x \in Idx : c.mem[fr][x] = s.mem[fr][x]
  /\ \A x \in Idx : c.mem[KERNEL_PT][x] = s.mem[KERNEL_PT][x]

(* They do so. *)
LEMMA MapsAbove ==
  ASSUME NEW s \in State, Coherent(s), NEW R, NEW W, Shape(s, R, W),
         pf_allocate_frames(s, 1).res # 0
  PROVE  LET a == pf_allocate_frames(s, 1)
             b == pdt_kernel_find_next_vaddr(a, 1)
             fr == b.array[0]
             c == kernel_map_page(b, fr, b.res, TRUE)
         IN
         /\ b \in State /\ c \in State /\ b.seen \subseteq c.seen
         /\ b.seen = {} => b.res # 0
         /\ c.seen = {} => MappedAbove(s, c, R, W, b.res, fr)
<1> DEFINE a == pf_allocate_frames(s, 1)
           b == pdt_kernel_find_next_vaddr(a, 1)
           v == b.res
           fr == b.array[0]
           c == kernel_map_page(b, fr, v, TRUE)
           d == GET_PD_IDX(v)
           t == GET_PT_IDX(v)
<1>1. /\ a \in State /\ Coherent(a) /\ a.mem = s.mem /\ a.array[0] \in Frames
      /\ Shape(a, R, W \union {a.array[0]}) /\ a.array[0] \in Free(s) /\ a.array[0] \notin W
  BY OneRequested
<1> HIDE DEF a
<1>2. /\ b \in State /\ Coherent(b) /\ b.mem = a.mem /\ b.array = a.array /\ v \in VPages
  BY <1>1, SearchShape
<1>3. \A U : Shape(a, R, U) =>
              /\ Shape(b, R, U)
              /\ b.seen = {} => v # 0 /\ v \in Pages /\ ~InUse(b, v) /\ d > KERNEL_PT_PDT_IDX
  BY <1>1, SearchShape
<1>4. fr = a.array[0]
  BY <1>2
<1> HIDE DEF b, fr
<1>5. /\ Shape(b, R, W \union {fr}) /\ fr \in Frames /\ fr \notin W /\ fr \in Free(s)
      /\ b.seen = {} => v # 0 /\ v \in Pages /\ ~InUse(b, v) /\ d > KERNEL_PT_PDT_IDX
  BY <1>1, <1>3, <1>4
<1>6. Keeps(b, c)
  BY <1>2, <1>5, KernelMapPageKeeps
<1>7. c \in State /\ b.seen \subseteq c.seen
  BY <1>6 DEF Keeps
<1>8. ASSUME c.seen = {}
      PROVE  MappedAbove(s, c, R, W, v, fr)
  <2>1. b.seen = {}
    BY <1>7, <1>8
  <2>2. v # 0 /\ v \in Pages /\ ~InUse(b, v) /\ d > KERNEL_PT_PDT_IDX
    BY <2>1, <1>5
  <2>3. d # KERNEL_PT_PDT_IDX /\ ~Used(b, KERNEL_PD, d, t) /\ KERNEL_PD \in R /\ TRUE \in BOOLEAN
    <3>1. KERNEL_PD \in R
      BY <1>5 DEF Shape, Directories
    <3>2. d # KERNEL_PT_PDT_IDX
      BY <2>2 DEF Pages
    <3> QED
      BY <3>1, <3>2, <2>2 DEF InUse
  <2>4. c = map_page(b, KERNEL_PD, fr, v, TRUE)
    BY DEF kernel_map_page
  <2>5. LET m == map_page(b, KERNEL_PD, fr, v, TRUE) IN
        m.seen = {} =>
          /\ Shape(m, R, W)
          /\ m.res = 0 => m.mem = b.mem
          /\ m.res # 0 => MapsPlace(b, m, R, W \union {fr}, KERNEL_PD, d, t, fr)
    BY <2>3, <1>2, <1>5, MapPageShape
  <2>6. /\ Shape(c, R, W)
        /\ c.res = 0 => c.mem = b.mem
        /\ c.res # 0 => MapsPlace(b, c, R, W \union {fr}, KERNEL_PD, d, t, fr)
    BY <2>4, <2>5, <1>8, Zenon
  <2> HIDE DEF c
  <2>7. c.res # 0 => /\ Adds(b, c, R, KERNEL_PD, d, t, fr)
                     /\ \A f \in (W \union {fr}) \union {KERNEL_PT}, x \in Idx :
                          c.mem[f][x] = b.mem[f][x]
    BY <2>6, MapsPlaceAdds
  <2>8. b.mem = s.mem
    BY <1>1, <1>2
  <2>9. \A p, e, u : (Used(b, p, e, u) <=> Used(s, p, e, u)) /\ At(b, p, e, u) = At(s, p, e, u)
    BY <2>8, MemoryPlaces
  <2>10. c.res # 0 => Adds(s, c, R, KERNEL_PD, d, t, fr)
    BY <2>7, <2>9 DEF Adds
  <2>11. c.res = 0 => KernelPlacesKept(s, c)
    BY <2>6, <2>8, MemoryPlaces
  <2>12. ~InUse(s, v)
    BY <2>2, <2>9 DEF InUse
  <2>13. /\ c.res # 0 => \A x \in Idx : c.mem[fr][x] = s.mem[fr][x]
         /\ \A x \in Idx : c.mem[KERNEL_PT][x] = s.mem[KERNEL_PT][x]
    BY <2>6, <2>7, <2>8
  <2> QED
    BY <2>2, <2>6, <2>10, <2>11, <2>12, <2>13, <1>5 DEF MappedAbove
<1> QED
  BY <1>2, <1>5, <1>7, <1>8, Zenon DEF c, v, fr, b, a

(* A page added above the kernel image is a step of AddressSpace and keeps the rest. *)
LEMMA AboveAdded ==
  ASSUME SlotInv, FramesShape, Now' \in State, NEW v, NEW fr,
         MappedAbove(Now, Now', RootsOf(Now, dirs), InHand(Now, i), v, fr), Now'.res # 0,
         InHand(Now', i') = InHand(Now, i),
         \A x, y \in i' .. HEAP_PAGES - 1 : Now'.array[x] = Now'.array[y] => x = y,
         NextAfter = HeapNext
  PROVE  MapStep /\ FramesShapeOf(Now', dirs, i', NextAfter)
<1>1. /\ v \in Pages /\ GET_PD_IDX(v) > KERNEL_PT_PDT_IDX /\ ~InUse(Now, v)
      /\ fr \in InHand(Now, i) \union Free(Now)
      /\ Shape(Now', RootsOf(Now, dirs), InHand(Now', i'))
      /\ Adds(Now, Now', RootsOf(Now, dirs), KERNEL_PD, GET_PD_IDX(v), GET_PT_IDX(v), fr)
  BY DEF MappedAbove
<1>2. HeapNext \in Nat /\ \A w \in HeapNext .. HeapLimit - 1 : GET_PD_IDX(w) < KERNEL_PT_PDT_IDX
  BY PageSpots
<1>3. v \notin HeapNext .. HeapLimit - 1
  <2>1. GET_PD_IDX(v) \in Nat /\ KERNEL_PT_PDT_IDX \in Nat
    BY <1>1, AddressParts, Constants DEF Pages, Idx
  <2> QED
    BY <2>1, <1>1, <1>2
<1>4. NextAfter \in Int /\ HeapNext <= NextAfter /\ v \notin NextAfter .. HeapLimit - 1
  BY <1>2, <1>3
<1> QED
  BY <1>1, <1>4, AddedStep

(* Another result makes no difference to the shape. *)
LEMMA ResShape ==
  ASSUME NEW s \in State, NEW r \in Nat, NEW R, NEW W, Shape(s, R, W)
  PROVE  LET a == [s EXCEPT !.res = r] IN
         a \in State /\ a.mem = s.mem /\ a.seen = s.seen /\ a.res = r /\ Shape(a, R, W)
<1> DEFINE a == [s EXCEPT !.res = r]
<1>1. a \in State /\ a.mem = s.mem /\ a.pool = s.pool /\ a.seen = s.seen /\ a.res = r
  BY ResState
<1> HIDE DEF a
<1>2. Free(a) = Free(s) /\ W \intersect Free(s) = {}
      /\ \A j, k \in 1 .. Len(a.pool) : a.pool[j] = a.pool[k] => j = k
  BY <1>1 DEF Free, Shape, Untouched
<1>3. Shape(a, R, W)
  BY <1>1, <1>2, ShapeSubset
<1> QED
  BY <1>1, <1>3, Zenon DEF a

(* process_set_kernel_stack *)
LEMMA SetKernelStackFrames ==
  ASSUME SlotInv, FramesShape, process_set_kernel_stack, seen' = {}
  PROVE  FramesStep
<1> DEFINE a == pf_allocate_frames(Now, 1)
           b == pdt_kernel_find_next_vaddr(a, 1)
           fr == b.array[0]
           v == b.res
           c == kernel_map_page(b, fr, v, TRUE)
           e == [b EXCEPT !.res = 0]
           R == RootsOf(Now, dirs)
           W == InHand(Now, i)
<1>1. Now \in State /\ Coherent(Now) /\ Shape(Now, R, W) /\ Now'.seen = {}
  BY DEF SlotInv, FramesShape, FramesShapeOf, Now
<1>2. /\ i = HEAP_PAGES /\ UNCHANGED <<total_malloc_pages, i, dirs>>
      /\ IF a.res = 0 THEN Becomes(e) ELSE Becomes(c)
  BY Zenon DEF process_set_kernel_stack, KernelStackSearch, Idle
<1>3. CASE a.res = 0
  <2> HIDE DEF R, W
  <2>1. a \in State /\ Coherent(a) /\ a.mem = Now.mem /\ Shape(a, R, W)
    BY <1>1, OneRequested
  <2> HIDE DEF a
  <2>2. b \in State /\ Coherent(b) /\ b.mem = a.mem /\ Shape(b, R, W)
    BY <2>1, SearchShape
  <2> HIDE DEF b
  <2>3. e \in State /\ e.mem = b.mem /\ Shape(e, R, W)
    BY <2>2, ResShape
  <2> HIDE DEF e
  <2>4. Now' = e
    BY <1>2, <1>3, <2>3, BecomesNow
  <2>5. KernelPlacesKept(Now, Now') /\ \A x \in Idx : Now'.mem[KERNEL_PT][x] = Now.mem[KERNEL_PT][x]
    BY <2>1, <2>2, <2>3, <2>4, MemoryPlaces
  <2> QED
    BY <2>3, <2>4, <2>5, <1>2, IdleStep DEF R, W
<1>4. CASE a.res # 0
  <2> HIDE DEF R, W
  <2>1. /\ c \in State /\ b.seen \subseteq c.seen
        /\ c.seen = {} => MappedAbove(Now, c, R, W, v, fr)
    BY <1>1, <1>4, MapsAbove
  <2> HIDE DEF c, v, fr, b, a, e
  <2>2. Now' = c
    BY <1>2, <1>4, <2>1, BecomesNow
  <2>3. MappedAbove(Now, Now', R, W, v, fr)
    BY <2>1, <2>2, <1>1
  <2>4. /\ InHand(Now', i') = W
        /\ \A x, y \in i' .. HEAP_PAGES - 1 : Now'.array[x] = Now'.array[y] => x = y
        /\ NextAfter = HeapNext /\ NextAfter \in Int /\ HeapNext <= NextAfter
    BY <1>2, NothingInHand DEF W
  <2>5. Shape(Now', R, W) /\ \A x \in Idx : Now'.mem[KERNEL_PT][x] = Now.mem[KERNEL_PT][x]
    BY <2>3 DEF MappedAbove
  <2>6. CASE c.res = 0
    <3>1. KernelPlacesKept(Now, Now')
      BY <2>2, <2>3, <2>6 DEF MappedAbove
    <3> QED
      BY <3>1, <2>1, <2>2, <2>5, <1>2, IdleStep DEF R, W
  <2>7. CASE c.res # 0
    <3>1. MapStep /\ FramesShapeOf(Now', dirs, i', NextAfter)
      BY <2>1, <2>2, <2>3, <2>4, <2>7, <1>1, AboveAdded DEF R, W
    <3> QED
      BY <3>1, <2>5, <1>2 DEF FramesStep, FramesAfter
  <2> QED
    BY <2>6, <2>7
<1> QED
  BY <1>3, <1>4

(* create_pdt: the frame of the new directory is the one mapped, which holds what it held
   when it was free.  *)
LEMMA CreatePdtFrames ==
  ASSUME SlotInv, FramesShape, create_pdt, seen' = {}
  PROVE  FramesStep
<1> DEFINE a == pf_allocate_frames(Now, 1)
           b == pdt_kernel_find_next_vaddr(a, 1)
           fr == b.array[0]
           v == b.res
           c == kernel_map_page(b, fr, v, TRUE)
           e == [c EXCEPT !.res = v]
           dir == [pdt |-> v, pdt_paddr |-> DirectoryFrame(c)]
           R == RootsOf(Now, dirs)
           W == InHand(Now, i)
<1>1. Now \in State /\ Coherent(Now) /\ Shape(Now, R, W) /\ Now'.seen = {}
  BY DEF SlotInv, FramesShape, FramesShapeOf, Now
<1>2. i = HEAP_PAGES /\ UNCHANGED <<total_malloc_pages, i>>
  BY DEF create_pdt, Idle
<1>3. \/ a.res = 0 /\ Becomes(a) /\ UNCHANGED dirs
      \/ a.res # 0 /\ b.res = 0 /\ Becomes(b) /\ UNCHANGED dirs
      \/ a.res # 0 /\ b.res # 0 /\ c.res = 0 /\ Becomes(c) /\ UNCHANGED dirs
      \/ a.res # 0 /\ b.res # 0 /\ c.res # 0 /\ Becomes(e) /\ dirs' = dirs \union {dir}
  BY Zenon DEF create_pdt
<1>4. CASE a.res = 0 /\ Becomes(a) /\ UNCHANGED dirs
  <2> HIDE DEF R, W
  <2>1. a \in State /\ a.mem = Now.mem /\ Shape(a, R, W)
    BY <1>1, OneRequested
  <2> HIDE DEF a
  <2>2. Now' = a
    BY <1>4, <2>1, BecomesNow
  <2>3. KernelPlacesKept(Now, Now') /\ \A x \in Idx : Now'.mem[KERNEL_PT][x] = Now.mem[KERNEL_PT][x]
    BY <2>1, <2>2, MemoryPlaces
  <2> QED
    BY <2>1, <2>2, <2>3, <1>2, <1>4, IdleStep DEF R, W
<1>5. ASSUME a.res # 0
      PROVE  /\ b \in State /\ c \in State /\ b.seen \subseteq c.seen
             /\ b.seen = {} => b.res # 0
             /\ c.seen = {} => MappedAbove(Now, c, R, W, v, fr)
  <2> HIDE DEF R, W
  <2> QED
    BY <1>1, <1>5, MapsAbove
<1>6. CASE a.res # 0 /\ b.res = 0 /\ Becomes(b) /\ UNCHANGED dirs
  <2>1. b \in State /\ (b.seen = {} => b.res # 0)
    BY <1>5, <1>6
  <2> HIDE DEF b
  <2>2. Now' = b
    BY <1>6, <2>1, BecomesNow
  <2> QED
    BY <2>1, <2>2, <1>1, <1>6
<1>7. CASE a.res # 0 /\ b.res # 0 /\ c.res = 0 /\ Becomes(c) /\ UNCHANGED dirs
  <2>1. c \in State /\ (c.seen = {} => MappedAbove(Now, c, R, W, v, fr))
    BY <1>5, <1>7
  <2> HIDE DEF c, v, fr, b, R, W
  <2>2. Now' = c
    BY <1>7, <2>1, BecomesNow
  <2>3. MappedAbove(Now, c, R, W, v, fr)
    BY <2>1, <2>2, <1>1
  <2>4. /\ Shape(Now', R, W) /\ KernelPlacesKept(Now, Now')
        /\ \A x \in Idx : Now'.mem[KERNEL_PT][x] = Now.mem[KERNEL_PT][x]
    BY <2>2, <2>3, <1>7 DEF MappedAbove
  <2> QED
    BY <2>1, <2>2, <2>4, <1>2, <1>7, IdleStep DEF R, W
<1>8. CASE a.res # 0 /\ b.res # 0 /\ c.res # 0 /\ Becomes(e) /\ dirs' = dirs \union {dir}
  <2>1. /\ b \in State /\ c \in State
        /\ c.seen = {} => MappedAbove(Now, c, R, W, v, fr)
    BY <1>5, <1>8
  <2>2. v \in Nat
    BY <2>1, StateParts
  <2> HIDE DEF c, v, fr, b, R, W, dir
  <2>3. /\ e \in State /\ e.mem = c.mem /\ e.seen = c.seen /\ e.res = v
        /\ Shape(c, R, W) => Shape(e, R, W)
    BY <2>1, <2>2, ResShape, ResState
  <2> HIDE DEF e
  <2>4. Now' = e
    BY <1>8, <2>3, BecomesNow
  <2>5. MappedAbove(Now, c, R, W, v, fr)
    BY <2>1, <2>3, <2>4, <1>1
  <2>6. /\ v \in Pages /\ GET_PD_IDX(v) > KERNEL_PT_PDT_IDX /\ ~InUse(Now, v) /\ fr \in Free(Now)
        /\ Shape(e, R, W)
        /\ Adds(Now, c, R, KERNEL_PD, GET_PD_IDX(v), GET_PT_IDX(v), fr)
        /\ \A x \in Idx : e.mem[fr][x] = Now.mem[fr][x] /\ e.mem[KERNEL_PT][x] = Now.mem[KERNEL_PT][x]
    BY <2>3, <2>5, <1>8 DEF MappedAbove
  <2>7. Adds(Now, e, R, KERNEL_PD, GET_PD_IDX(v), GET_PT_IDX(v), fr)
    <3>1. \A p, d, t : (Used(e, p, d, t) <=> Used(c, p, d, t)) /\ At(e, p, d, t) = At(c, p, d, t)
      BY <2>3, MemoryPlaces
    <3> QED
      BY <3>1, <2>6 DEF Adds
  <2>8. MappedAbove(Now, Now', R, W, v, fr) /\ Now'.res # 0
    <3>1. e.res # 0
      BY <2>3, <1>8 DEF v
    <3> QED
      BY <3>1, <2>4, <2>6, <2>7 DEF MappedAbove
  <2>9. /\ InHand(Now', i') = W
        /\ \A x, y \in i' .. HEAP_PAGES - 1 : Now'.array[x] = Now'.array[y] => x = y
        /\ NextAfter = HeapNext
    BY <1>2, NothingInHand DEF W
  <2>10. MapStep /\ FramesShapeOf(Now', dirs, i', NextAfter)
    BY <2>3, <2>4, <2>8, <2>9, AboveAdded DEF R, W
  <2>11. InUse(Now', v) /\ FrameOf(Now', v) = fr
    BY <2>4, <2>7 DEF Adds, InUse, FrameOf
  <2>12. Shape(Now', RootsOf(Now', dirs), InHand(Now', i'))
    BY <2>10 DEF FramesShapeOf
  <2>13. RootsOf(Now', dirs') = RootsOf(Now', dirs) \union {fr} /\ fr \in Frames
    <3>1. KernelTables(Now') /\ Now' \in State
      BY <2>3, <2>4, <2>12 DEF Shape
    <3>2. Entry(Now', v).frame = fr /\ fr \in Frames
      BY <3>1, <2>6, <2>11, PageEntry DEF InUse, FrameOf
    <3>3. dir.pdt = v
      BY DEF dir
    <3> QED
      BY <3>2, <3>3, <1>8 DEF RootsOf
  <2>14. \A x \in Idx : Now'.mem[fr][x] \in {Empty, Junk}
    BY <2>4, <2>6, <1>1 DEF Shape, Untouched
  <2>15. Shape(Now', RootsOf(Now', dirs'), InHand(Now', i'))
    <3>1. GET_PD_IDX(v) \in Idx /\ GET_PT_IDX(v) \in Idx
      BY <2>6, AddressParts DEF Pages
    <3>2. Now' \in State
      BY <2>3, <2>4
    <3> QED
      BY <3>1, <3>2, <2>6, <2>11, <2>12, <2>13, <2>14, DirectoryAdded DEF InUse, FrameOf
  <2>16. /\ \A q \in dirs' : GET_PD_IDX(q.pdt) > KERNEL_PT_PDT_IDX /\ InUse(Now', q.pdt)
         /\ \A p, q \in dirs' : p.pdt = q.pdt => p = q
    <3>1. dir.pdt = v
      BY DEF dir
    <3>2. /\ \A q \in dirs : GET_PD_IDX(q.pdt) > KERNEL_PT_PDT_IDX /\ InUse(Now', q.pdt)
          /\ \A p, q \in dirs : p.pdt = q.pdt => p = q
      BY <2>10 DEF FramesShapeOf
    <3>3. \A q \in dirs : q.pdt # v
      BY <2>6 DEF FramesShape, FramesShapeOf
    <3> QED
      BY <3>1, <3>2, <3>3, <2>6, <2>11, <1>8
  <2>17. FramesShapeOf(Now', dirs', i', NextAfter)
    BY <2>10, <2>15, <2>16 DEF FramesShapeOf
  <2> QED
    BY <2>4, <2>6, <2>10, <2>17 DEF FramesStep, FramesAfter
<1> QED
  BY <1>3, <1>4, <1>6, <1>7, <1>8

(* With the boot tables no page outside the kernel image is mapped, and every frame the
   allocator has is as the machine left it.  *)
LEMMA InitFrames == Init => FramesInv /\ Space!Init
<1> SUFFICES ASSUME Init PROVE FramesInv /\ Space!Init
  OBVIOUS
<1> DEFINE K == KERNEL_PT_PDT_IDX
           R == RootsOf(Now, dirs)
           W == InHand(Now, i)
<1>1. SlotInv
  BY InitSlotInv
<1>2. PICK fresh \in {Empty, Junk} : mem = BootMem(fresh)
  BY DEF Init
<1>3. /\ dirs = {} /\ i = HEAP_PAGES /\ pool = FreeFrames /\ Now.mem = mem /\ Now.pool = pool
      /\ Now.array = array
  BY DEF Init, Now
<1>4. R = {KERNEL_PD} /\ W = {} /\ i .. HEAP_PAGES - 1 = {}
  BY <1>3, Constants DEF RootsOf, InHand
<1>5. /\ \A d \in Idx \ {K} : mem[KERNEL_PD][d] = Empty
      /\ mem[KERNEL_PD][K].present /\ mem[KERNEL_PD][K].frame = KERNEL_PT
      /\ \A t \in Idx : mem[KERNEL_PT][t].present
      /\ \A f \in Frames, x \in Idx : f >= START => mem[f][x] = fresh
  BY <1>2, Constants DEF BootMem, Frames
<1>6. ~Empty.present /\ Empty.frame = 0
  BY DEF Empty
<1>7. KernelTables(Now)
  BY <1>3, <1>5, <1>6, Constants DEF KernelTables
<1>8. \A d \in Idx : ~HasTable(Now, KERNEL_PD, d)
  BY <1>3, <1>5, <1>6 DEF HasTable
<1>9. \A d \in Idx, t \in Spots : ~Used(Now, KERNEL_PD, d, t)
  BY <1>8 DEF Used
<1>10. Unique(Now, R) /\ Taken(Now, R, W) /\ Directories(Now, R)
  BY <1>4, <1>9, Constants DEF Unique, Taken, Directories
<1>11. Untouched(Now, W)
  <2>1. TOTAL_FRAMES - START \in Nat /\ START \in Nat \ {0} /\ TOTAL_FRAMES \in Nat
    BY Constants
  <2>2. pool \in Seq(Allocatable) /\ Len(pool) = TOTAL_FRAMES - START
        /\ \A k \in 1 .. TOTAL_FRAMES - START : pool[k] = START + k - 1
    <3>1. pool \in Seq(Allocatable)
      BY <1>1, StateParts DEF SlotInv, Now
    <3>2. pool = [k \in 1 .. TOTAL_FRAMES - START |-> START + k - 1]
      BY <1>3 DEF FreeFrames
    <3>3. DOMAIN pool = 1 .. Len(pool) /\ Len(pool) \in Nat
      BY <3>1, LenProperties
    <3> QED
      BY <3>1, <3>2, <3>3, <2>1
  <2>3. Free(Now) \subseteq START .. TOTAL_FRAMES - 1
    BY <2>1, <2>2, <1>3 DEF Free
  <2>4. \A f \in START .. TOTAL_FRAMES - 1, x \in Idx : mem[f][x] \in {Empty, Junk}
    BY <2>1, <1>5 DEF Frames
  <2> QED
    BY <2>1, <2>2, <2>3, <2>4, <1>3, <1>4 DEF Untouched
<1>12. \A v \in HeapNext .. HeapLimit - 1 : ~InUse(Now, v)
  <2>1. \A v \in HeapNext .. HeapLimit - 1 : GET_PD_IDX(v) \in Idx /\ GET_PT_IDX(v) \in Spots
    BY <1>1, PageSpots
  <2> QED
    BY <2>1, <1>9 DEF InUse
<1>13. FramesShape
  BY <1>3, <1>4, <1>7, <1>10, <1>11, <1>12 DEF FramesShape, FramesShapeOf, Shape
<1>14. Space!Init
  <2>1. ASSUME NEW v \in Pages PROVE ~Entry(Now, v).present
    <3>1. GET_PD_IDX(v) \in Idx /\ GET_PT_IDX(v) \in Spots
      BY <1>1, PageSpots DEF Pages
    <3>2. ~Used(Now, KERNEL_PD, GET_PD_IDX(v), GET_PT_IDX(v))
      BY <3>1, <1>9
    <3> QED
      BY <3>2, <1>1, <1>7, PageEntry DEF SlotInv
  <2>2. Mapping = [v \in Pages |-> NoFrame]
    BY <2>1 DEF Mapping
  <2> QED
    BY <2>2 DEF Space!Init
<1> QED
  BY <1>1, <1>13, <1>14 DEF FramesInv

(* A step that notes nothing found nothing noted, and does what FramesAfter says. *)
LEMMA NextFramesStep ==
  ASSUME FramesInv, Next, seen' = {}
  PROVE  FramesAfter /\ (Space!Next \/ Mapping' = Mapping)
<1>1. SlotInv /\ seen = {}
  <2>1. [NextExported]_vars
    BY DEF NextExported
  <2>2. Now.seen \subseteq Now'.seen
    BY <2>1, StepKeeps DEF FramesInv, Keeps
  <2>3. Now.seen = seen /\ Now'.seen = {}
    BY DEF Now
  <2> QED
    BY <2>2, <2>3 DEF FramesInv
<1>2. ~broken
  BY DEF Next, GrowHeap, GrowPage, create_pdt, process_set_kernel_stack, process_set_stack,
         UnmapPage, Idle
<1>3. FramesShape
  BY <1>1, <1>2 DEF FramesInv
<1>4. FramesStep => FramesAfter /\ (Space!Next \/ Mapping' = Mapping)
  BY DEF FramesStep, MapStep, Space!Next
<1>5. CASE GrowHeap
  BY <1>1, <1>3, <1>4, <1>5, GrowHeapFrames
<1>6. CASE GrowPage
  BY <1>1, <1>3, <1>4, <1>6, GrowPageFrames
<1>7. CASE create_pdt
  BY <1>1, <1>3, <1>4, <1>7, CreatePdtFrames
<1>8. CASE process_set_kernel_stack
  BY <1>1, <1>3, <1>4, <1>8, SetKernelStackFrames
<1>9. ASSUME NEW dir \in dirs, process_set_stack(dir)
      PROVE  FramesStep
  BY <1>1, <1>3, <1>9, SetStackFrames
<1>10. ASSUME NEW v \in HeapPages, UnmapPage(v)
      PROVE  FramesAfter /\ Space!Next
  BY <1>1, <1>3, <1>10, UnmapPageFrames
<1> QED
  BY <1>4, <1>5, <1>6, <1>7, <1>8, <1>9, <1>10 DEF Next

(* FramesInv is inductive. *)
LEMMA NextFramesInv == FramesInv /\ [Next]_vars => FramesInv'
<1> SUFFICES ASSUME FramesInv, [Next]_vars PROVE FramesInv'
  OBVIOUS
<1>1. SlotInv'
  BY NextSlotInv DEF FramesInv, NextExported
<1>2. ASSUME seen' = {}, ~broken' PROVE FramesShape'
  <2>1. CASE UNCHANGED vars
    <3>1. Now' = Now /\ dirs' = dirs /\ i' = i /\ total_malloc_pages' = total_malloc_pages
          /\ broken' = broken /\ seen' = seen
      BY <2>1 DEF vars, machine, Now
    <3>2. FramesShape
      BY <3>1, <1>2 DEF FramesInv
    <3>3. FramesShapeOf(Now', dirs', i', total_malloc_pages' - HEAP_PAGES + i')
      BY <3>1, <3>2 DEF FramesShape, HeapNext
    <3> QED
      BY <3>3, FramesShapeNow
  <2>2. CASE Next
    BY <2>2, <1>2, NextFramesStep, FramesShapeNow DEF FramesAfter, NextAfter
  <2> QED
    BY <2>1, <2>2
<1> QED
  BY <1>1, <1>2 DEF FramesInv

(* FramesApart follows: a table, a page, a frame in hand and a free one are at different
   places, or at none.  *)
LEMMA FramesInvApart == FramesInv => FramesApart
<1> SUFFICES ASSUME FramesInv, seen = {}, ~broken
             PROVE  /\ \A d, e \in {k \in Idx : mem[KERNEL_PD][k].present} :
                         mem[KERNEL_PD][d].frame = mem[KERNEL_PD][e].frame => d = e
                    /\ \A j, k \in i .. HEAP_PAGES - 1 : array[j] = array[k] => j = k
                    /\ Tables \intersect (Mapped \union Waiting \union InPool) = {}
                    /\ Mapped \intersect (Waiting \union InPool) = {}
                    /\ Waiting \intersect InPool = {}
  BY DEF FramesApart
<1> DEFINE R == RootsOf(Now, dirs)
           W == InHand(Now, i)
           I == START .. TOTAL_FRAMES - 1
<1>1. /\ Now \in State /\ Shape(Now, R, W) /\ KERNEL_PD \in R
      /\ \A j, k \in i .. HEAP_PAGES - 1 : array[j] = array[k] => j = k
  BY DEF FramesInv, SlotInv, FramesShape, FramesShapeOf, RootsOf, Now
<1>2. Waiting = W /\ InPool = Free(Now) /\ Now.mem = mem
  BY DEF Waiting, InPool, InHand, Free, Now
<1> HIDE DEF R, W
<1>3. /\ Unique(Now, R) /\ Taken(Now, R, W) /\ KernelTables(Now)
      /\ W \union Free(Now) \subseteq I /\ W \intersect Free(Now) = {}
  BY <1>1 DEF Shape, Untouched
<1>4. KERNEL_PT \notin I /\ Itself \in Spots /\ Idx \subseteq Spots /\ Itself \notin Idx
  BY Constants DEF Itself, Spots, Idx
<1>5. ASSUME NEW d \in Idx, mem[KERNEL_PD][d].present
      PROVE  \/ d = KERNEL_PT_PDT_IDX /\ mem[KERNEL_PD][d].frame = KERNEL_PT
             \/ /\ Used(Now, KERNEL_PD, d, Itself)
                /\ At(Now, KERNEL_PD, d, Itself) = mem[KERNEL_PD][d].frame
                /\ mem[KERNEL_PD][d].frame \in I \ (W \union Free(Now))
  <2>1. CASE d = KERNEL_PT_PDT_IDX
    BY <2>1, <1>2, <1>3 DEF KernelTables
  <2>2. CASE d # KERNEL_PT_PDT_IDX
    <3>1. Used(Now, KERNEL_PD, d, Itself) /\ At(Now, KERNEL_PD, d, Itself) = mem[KERNEL_PD][d].frame
      BY <2>2, <1>2, <1>3, <1>5 DEF KernelTables, Used, HasTable, At
    <3> QED
      BY <3>1, <1>1, <1>3, <1>4 DEF Taken
  <2> QED
    BY <2>1, <2>2
<1>6. ASSUME NEW f \in Mapped
      PROVE  \E d \in Idx, t \in Idx : Used(Now, KERNEL_PD, d, t) /\ At(Now, KERNEL_PD, d, t) = f
  <2>1. PICK v \in Pages : Mapping[v] = f /\ f # NoFrame
    BY DEF Mapped
  <2>2. Mapping[v] = IF Entry(Now, v).present THEN Entry(Now, v).frame ELSE NoFrame
    BY DEF Mapping
  <2>3. Entry(Now, v).present /\ Entry(Now, v).frame = f
    BY <2>1, <2>2
  <2> QED
    BY <2>3, <1>1, <1>3, PageEntry
<1>7. Mapped \subseteq I \ (W \union Free(Now))
  BY <1>1, <1>3, <1>4, <1>6 DEF Taken
<1>8. \A d, e \in {k \in Idx : mem[KERNEL_PD][k].present} :
        mem[KERNEL_PD][d].frame = mem[KERNEL_PD][e].frame => d = e
  BY <1>1, <1>3, <1>4, <1>5 DEF Unique
<1>9. ASSUME NEW f \in Tables
      PROVE  f \notin Mapped /\ f \notin W \union Free(Now)
  <2>1. PICK d \in Idx : mem[KERNEL_PD][d].present /\ mem[KERNEL_PD][d].frame = f
    BY DEF Tables
  <2>2. f \notin W \union Free(Now)
    BY <2>1, <1>3, <1>4, <1>5
  <2>3. ASSUME f \in Mapped PROVE FALSE
    <3>1. PICK e \in Idx, t \in Idx : Used(Now, KERNEL_PD, e, t) /\ At(Now, KERNEL_PD, e, t) = f
      BY <2>3, <1>6
    <3>2. Used(Now, KERNEL_PD, d, Itself) /\ At(Now, KERNEL_PD, d, Itself) = f
      BY <2>1, <2>3, <1>4, <1>5, <1>7
    <3> QED
      BY <3>1, <3>2, <1>1, <1>3, <1>4 DEF Unique
  <2> QED
    BY <2>2, <2>3
<1>10. Tables \intersect (Mapped \union W \union Free(Now)) = {}
  BY <1>9
<1>11. Mapped \intersect (W \union Free(Now)) = {}
  BY <1>7
<1> QED
  BY <1>1, <1>2, <1>3, <1>8, <1>10, <1>11

(* A page table, a mapped page, a frame in malloc's hands and a free frame are never the
   same frame: what pf_allocate_frames hands out stays where map_page, malloc and
   create_pdt put it, until an entry appears that nobody mapped.  *)
THEOREM FramesApartHolds == Spec => []FramesApart
<1>1. Init => FramesInv
  BY InitFrames
<1> QED
  BY <1>1, NextFramesInv, FramesInvApart, PTL DEF Spec

(* The kernel's page table maps the kernel image as the boot code left it, in every
   entry, after every call.  *)
THEOREM KernelImageKeptHolds == Spec => KernelImageKept
<1>1. Init => FramesInv
  BY InitFrames
<1>2. FramesInv /\ FramesInv' /\ [Next]_vars => [seen' = {} => mem'[KERNEL_PT] = mem[KERNEL_PT]]_vars
  <2> SUFFICES ASSUME FramesInv, FramesInv', Next, seen' = {}
               PROVE  mem'[KERNEL_PT] = mem[KERNEL_PT]
    OBVIOUS
  <2>1. \A x \in Idx : Now'.mem[KERNEL_PT][x] = Now.mem[KERNEL_PT][x]
    BY NextFramesStep DEF FramesAfter
  <2>2. Now.mem = mem /\ Now'.mem = mem'
    BY DEF Now
  <2>3. Now \in State /\ Now' \in State
    BY NextSlotInv, StepKeeps DEF FramesInv, SlotInv, Keeps, NextExported
  <2>4. mem[KERNEL_PT] \in [Idx -> PTE] /\ mem'[KERNEL_PT] \in [Idx -> PTE]
    BY <2>2, <2>3, StateParts, Constants DEF Memory
  <2> QED
    BY <2>1, <2>2, <2>4
<1> QED
  BY <1>1, <1>2, NextFramesInv, PTL DEF Spec, KernelImageKept

(* The page tables implement AddressSpace: every call maps one page to a frame that no
   other page has, unmaps one, or leaves every translation alone.  *)
THEOREM PagingRefinesAddressSpace == Spec => RefinesAddressSpace
<1>1. Init => FramesInv /\ Space!Init
  BY InitFrames
<1>2. FramesInv /\ [Next]_vars => [seen' = {} => Space!Next]_Mapping
  <2> SUFFICES ASSUME FramesInv, [Next]_vars, seen' = {}
               PROVE  Space!Next \/ Mapping' = Mapping
    OBVIOUS
  <2>1. CASE UNCHANGED vars
    <3>1. Now' = Now
      BY <2>1 DEF vars, machine, Now
    <3> QED
      BY <3>1, MappingOfNow
  <2>2. CASE Next
    BY <2>2, NextFramesStep
  <2> QED
    BY <2>1, <2>2
<1> QED
  BY <1>1, <1>2, NextFramesInv, PTL DEF Spec, RefinesAddressSpace

===============================================================================
