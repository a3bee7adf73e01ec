-------------------------------- MODULE Paging --------------------------------
(***************************************************************************)
(* Page tables (src/memory/virtual/paging.c) and the callers that map      *)
(* pages: the heap, create_pdt and the stacks of process.c.                *)
(*                                                                         *)
(* Units.  An address, virtual or physical, is its page number: page       *)
(* d*PT_ENTRIES + t has entry d of a directory and entry t of a table.     *)
(* Memory is the table of entries each frame holds, whatever the frame is  *)
(* used for.  Directories are read and written in place; page tables only  *)
(* through the temporary slot, the last entry of the kernel's page table,  *)
(* and its translation in the TLB.                                         *)
(*                                                                         *)
(* A function of the source is an operator from the state before the call  *)
(* to the state after it, with the value returned in res: no interrupt     *)
(* handler touches the page tables, so calls do not interleave.            *)
(***************************************************************************)
EXTENDS Integers, Sequences, FiniteSets

CONSTANTS
  PT_ENTRIES,        (* entries of a table and of a directory (1024)          *)
  KERNEL_PT_PDT_IDX, (* the directory entry of the kernel image (768)         *)
  KERNEL_PD,         (* the frame of boot_page_directory                      *)
  KERNEL_PT,         (* the frame of boot_page_table                          *)
  START,             (* the first frame the allocator hands out               *)
  TOTAL_FRAMES,      (* the frames there are                                  *)
  HEAP_PAGES,        (* the pages malloc adds at a time (2)                   *)
  ARRAY_PAGE,        (* the page of the allocator's static array              *)
  HeapLimit,         (* bound: the heap stops growing at this page            *)
  MaxDirs            (* bound: directories created                            *)

VPages == 0 .. PT_ENTRIES * PT_ENTRIES - 1
Frames == 0 .. TOTAL_FRAMES - 1
Idx == 0 .. PT_ENTRIES - 1
KERNEL_TMP_PT_IDX == PT_ENTRIES - 1
KERNEL_TEMP_VADDR == KERNEL_PT_PDT_IDX * PT_ENTRIES + KERNEL_TMP_PT_IDX
PROCESS_INIT_STACK_VADDR == KERNEL_PT_PDT_IDX * PT_ENTRIES - 1
NoFrame == -1

GET_PD_IDX(v) == v \div PT_ENTRIES
GET_PT_IDX(v) == v % PT_ENTRIES

(* The boot table maps the kernel, which ends before START, and its array. *)
ASSUME PagingAssumption ==
  /\ PT_ENTRIES \in Nat \ {0, 1}
  /\ KERNEL_PT_PDT_IDX \in 1 .. PT_ENTRIES - 2
  /\ {KERNEL_PD, KERNEL_PT} \subseteq 1 .. START - 1 /\ KERNEL_PD # KERNEL_PT
  /\ TOTAL_FRAMES \in KERNEL_TEMP_VADDR + 1 .. PT_ENTRIES * PT_ENTRIES
  /\ START \in 1 .. PT_ENTRIES
  /\ HEAP_PAGES \in Nat \ {0}
  /\ ARRAY_PAGE \in VPages \intersect Frames /\ GET_PD_IDX(ARRAY_PAGE) = KERNEL_PT_PDT_IDX
  /\ HeapLimit \in 0 .. KERNEL_PT_PDT_IDX * PT_ENTRIES
  /\ MaxDirs \in Nat

VARIABLES
  mem,                (* the entries in every frame                            *)
  tlb,                (* the frame cached for the temporary slot, or NoFrame   *)
  pool,               (* frames pf_allocate_frames can hand out, the next last *)
  unlucky,            (* the frame whose pop makes a request return 0          *)
  array,              (* allocated_page_frames, the static array               *)
  res,                (* what the last call returned                           *)
  seen,               (* history: what happened that voids a promise           *)
  dirs,               (* directories created: pdt and pdt_paddr                *)
  total_malloc_pages, (* pages of the heap, mapped or being mapped             *)
  i,                  (* pages get_more_memory has mapped in the call, or      *)
                      (* HEAP_PAGES outside it                                 *)
  broken              (* the kernel has read a null pointer or halted          *)

machine == <<mem, tlb, pool, array, res, seen>>
vars == <<machine, unlucky, dirs, total_malloc_pages, i, broken>>

Empty == [present |-> FALSE, rw |-> FALSE, user |-> FALSE, frame |-> 0]

(* What an unwritten frame may hold: entries that point at a kernel table *)
Junk == [present |-> TRUE, rw |-> TRUE, user |-> TRUE, frame |-> KERNEL_PT]

Now == [mem |-> mem, tlb |-> tlb, pool |-> pool, array |-> array,
        res |-> res, seen |-> seen]

Becomes(s) ==
  /\ mem' = s.mem /\ tlb' = s.tlb /\ pool' = s.pool
  /\ array' = s.array /\ res' = s.res /\ seen' = s.seen

(***************************************************************************)
(* pf_allocate_frames: frames come from the top of its stack.  A request   *)
(* that empties the stack with its first pop, or finds nothing to refill   *)
(* it with, returns 0 and loses what it popped (see FrameAlloc).           *)
(***************************************************************************)

pf_allocate_frames(s, n) ==
  LET top == Len(s.pool)
      last == top <= n
      popped == IF last THEN top ELSE IF s.pool[top] = unlucky THEN 1 ELSE n
  IN [s EXCEPT
       !.pool = SubSeq(@, 1, top - popped),
       !.array = [k \in DOMAIN @ |-> IF k < popped THEN s.pool[top - k] ELSE @[k]],
       !.res = IF last \/ s.pool[top] = unlucky THEN 0 ELSE 1]

(***************************************************************************)
(* The temporary slot.                                                     *)
(***************************************************************************)

kernel_get_temporary_entry(s) == s.mem[KERNEL_PT][KERNEL_TMP_PT_IDX]

flush_tlb_entry(s) == [s EXCEPT !.tlb = NoFrame]

kernel_set_temporary_entry(s, entry) ==
  flush_tlb_entry([s EXCEPT !.mem[KERNEL_PT][KERNEL_TMP_PT_IDX] = entry])

(* mutant of temp_map_page: the old translation stays in the TLB *)
temp_map_unflushed(s, frame) ==
  [s EXCEPT
    !.mem[KERNEL_PT][KERNEL_TMP_PT_IDX] =
      [@ EXCEPT !.present = TRUE, !.rw = TRUE, !.frame = frame],
    !.res = KERNEL_TEMP_VADDR]

temp_map_page(s, frame) ==
  [flush_tlb_entry(
     [s EXCEPT !.mem[KERNEL_PT][KERNEL_TMP_PT_IDX] =
        [@ EXCEPT !.present = TRUE, !.rw = TRUE, !.frame = frame]])
   EXCEPT !.res = KERNEL_TEMP_VADDR]

(* An access through the slot: the cached translation wins over the entry. *)
Access(s) ==
  LET entry == kernel_get_temporary_entry(s)
      cached == IF s.tlb = NoFrame THEN entry.frame ELSE s.tlb
  IN [s EXCEPT !.tlb = cached,
               !.seen = IF cached = entry.frame THEN @ ELSE @ \union {"stale"}]

ReadTemp(s) == s.mem[Access(s).tlb]
WriteTemp(s, table) == LET a == Access(s) IN [a EXCEPT !.mem[a.tlb] = table]

(* SET_ATTR of RW or of PRESENT, with that of USER for a user's page *)
SetWritable(entry, is_user) == [entry EXCEPT !.rw = TRUE, !.user = @ \/ is_user]
SetPresent(entry, is_user) == [entry EXCEPT !.present = TRUE, !.user = @ \/ is_user]

(* SET_ATTR of PRESENT with SET_FRAME *)
SetPage(entry, frame) == [entry EXCEPT !.present = TRUE, !.frame = frame]

(***************************************************************************)
(* map_page                                                                *)
(***************************************************************************)

(* The branch that adds a page table *)
MapInNewTable(s, pd, frame, v, is_user) ==
  LET tmp_entry == kernel_get_temporary_entry(s)
      a == pf_allocate_frames(s, 1)
      table == a.array[0]
      zeroed == WriteTemp(temp_map_page(a, table), [t \in Idx |-> Empty])
      linked == [zeroed EXCEPT !.mem[pd][GET_PD_IDX(v)] =
                   SetPage(SetWritable(@, is_user), table)]
      mapped == WriteTemp(linked, [ReadTemp(linked) EXCEPT ![GET_PT_IDX(v)] =
                   SetPage(SetPresent(@, is_user), frame)])
  IN IF a.res = 0 THEN a
     ELSE [kernel_set_temporary_entry(mapped, tmp_entry) EXCEPT !.res = 1]

(* mutant of MapInOldTable: the slot is not given back *)
MapKeepingSlot(s, pd, frame, v, is_user) ==
  LET a == temp_map_page(s, s.mem[pd][GET_PD_IDX(v)].frame)
  IN [WriteTemp(a, [ReadTemp(a) EXCEPT
        ![0] = SetPresent(@, FALSE),
        ![GET_PT_IDX(v)] = SetPage(@, frame)])
      EXCEPT !.res = 1]

(* The branch for a table that is there.  PRESENT and USER are set on the
   table's first entry, USER on that one only.  *)
MapInOldTable(s, pd, frame, v, is_user) ==
  LET pde == s.mem[pd][GET_PD_IDX(v)]
      a == [s EXCEPT !.mem[pd][GET_PD_IDX(v)] = SetWritable(@, is_user)]
      tmp_entry == kernel_get_temporary_entry(a)
      b == temp_map_page(a, pde.frame)
      pt == ReadTemp(b)
      marked == [pt EXCEPT ![0] = SetPresent(@, is_user)]
      mapped == WriteTemp(b, [marked EXCEPT ![GET_PT_IDX(v)] = SetPage(@, frame)])
      notes == {x \in {"ghost"} : ~pt[0].present /\ GET_PT_IDX(v) # 0}
                 \union {x \in {"stray"} : pde = Junk /\ pd # KERNEL_PD}
  IN [kernel_set_temporary_entry(mapped, tmp_entry) EXCEPT
        !.res = 1, !.seen = @ \union notes]

map_page(s, pd, frame, v, is_user) ==
  IF s.mem[pd][GET_PD_IDX(v)].present THEN MapInOldTable(s, pd, frame, v, is_user)
                                      ELSE MapInNewTable(s, pd, frame, v, is_user)

kernel_map_page(s, frame, v, is_user) == map_page(s, KERNEL_PD, frame, v, is_user)

(***************************************************************************)
(* The search for free kernel pages                                        *)
(***************************************************************************)

(* mutant of FreeRuns: the last page of the run is not looked at *)
FreeRunsShort(pdt_idx, pt, n) ==
  {t \in 0 .. PT_ENTRIES - n : \A k \in t .. t + n - 2 : ~pt[k].present}

FreeRuns(pdt_idx, pt, n) ==
  {t \in 0 .. PT_ENTRIES - n : \A k \in t .. t + n - 1 :
     /\ ~pt[k].present
     /\ ~(pdt_idx = KERNEL_PT_PDT_IDX /\ k = KERNEL_TMP_PT_IDX)}

First(S) == CHOOSE x \in S : \A y \in S : x <= y

pt_kernel_find_next_vaddr(pdt_idx, pt, n) ==
  LET runs == FreeRuns(pdt_idx, pt, n)
  IN IF runs = {} THEN 0 ELSE pdt_idx * PT_ENTRIES + First(runs)

(* One iteration of the search: the slot is borrowed and given back. *)
TryTable(s, pdt_idx, n) ==
  LET pde == s.mem[KERNEL_PD][pdt_idx]
      tmp_entry == kernel_get_temporary_entry(s)
      a == Access(temp_map_page(s, pde.frame))
  IN IF pde.present
       THEN [kernel_set_temporary_entry(a, tmp_entry) EXCEPT
               !.res = pt_kernel_find_next_vaddr(pdt_idx, a.mem[a.tlb], n)]
       ELSE [s EXCEPT !.res = pdt_idx * PT_ENTRIES]

(* The iterations before the last leave nothing behind that its own does not. *)
pdt_kernel_find_next_vaddr(s, n) ==
  LET found == {d \in KERNEL_PT_PDT_IDX .. PT_ENTRIES - 1 : TryTable(s, d, n).res # 0}
  IN IF found # {}
       THEN TryTable(TryTable(s, KERNEL_PT_PDT_IDX, n), First(found), n)
       ELSE [TryTable(s, KERNEL_PT_PDT_IDX, n) EXCEPT
               !.res = 0, !.seen = @ \union {"full"}]

(***************************************************************************)
(* The remaining functions of paging.c.  The kernel directory is the       *)
(* current one: only sys_exec, which nothing calls, loads another.         *)
(***************************************************************************)

(* The address returned is that of the page table entry in the slot. *)
get_page(s, v) == temp_map_page(s, s.mem[KERNEL_PD][GET_PD_IDX(v)].frame)

(* *pte = entry, for a pte that get_page returned for v *)
SetEntry(s, v, entry) ==
  WriteTemp(s, [ReadTemp(s) EXCEPT ![GET_PT_IDX(v)] = entry])

ClearPresent(s, v) ==
  SetEntry(s, v, [ReadTemp(s)[GET_PT_IDX(v)] EXCEPT !.present = FALSE])

(* mutant of unmap_page: PRESENT stays set *)
unmap_frame_only(s, v) ==
  LET a == get_page(s, v)
  IN kernel_set_temporary_entry(
       SetEntry(a, v, [ReadTemp(a)[GET_PT_IDX(v)] EXCEPT !.frame = 0]),
       kernel_get_temporary_entry(s))

(* unmap_page up to the read of *vaddress *)
unmap_page(s, v) ==
  LET tmp_entry == kernel_get_temporary_entry(s)
      a == get_page(s, v)
      cleared == SetEntry(a, v, [ReadTemp(a)[GET_PT_IDX(v)] EXCEPT
                                   !.present = FALSE, !.frame = 0])
  IN kernel_set_temporary_entry(cleared, tmp_entry)

(* The address of the static array goes into the entry, not that of the frame. *)
allocate_page(s, v) ==
  LET a == pf_allocate_frames(s, 1)
      set == SetEntry(a, v, [ReadTemp(a)[GET_PT_IDX(v)] EXCEPT
                               !.present = TRUE, !.frame = ARRAY_PAGE])
  IN IF a.res = 0 THEN a ELSE [set EXCEPT !.res = a.array[0]]

(* The page freed is the one the slot is at, and the entry cleared is the one
   now behind the slot.  *)
free_page(s, v) ==
  LET a == Access(s)
      page_paddr == a.mem[a.tlb][GET_PT_IDX(v)].frame
      tmp_entry == kernel_get_temporary_entry(a)
      b == temp_map_page(a, page_paddr)
      freed == [b EXCEPT !.pool = Append(@, b.res)]
  IN kernel_set_temporary_entry(ClearPresent(freed, v), tmp_entry)

(***************************************************************************)
(* Initialisation: loader.s maps the first frames at the kernel's half and *)
(* drops the identity map; paging_init.                                    *)
(***************************************************************************)

BootMem(fresh) ==
  [f \in Frames |->
     IF f = KERNEL_PT THEN [t \in Idx |-> [present |-> TRUE, rw |-> TRUE, user |-> TRUE, frame |-> t]]
     ELSE IF f = KERNEL_PD THEN [d \in Idx |->
            IF d = KERNEL_PT_PDT_IDX
              THEN [present |-> TRUE, rw |-> TRUE, user |-> TRUE, frame |-> KERNEL_PT]
              ELSE Empty]
     ELSE [t \in Idx |-> fresh]]

FreeFrames == [k \in 1 .. TOTAL_FRAMES - START |-> START + k - 1]

Init ==
  /\ \E fresh \in {Empty, Junk} : mem = BootMem(fresh)
  /\ tlb \in {NoFrame, KERNEL_TMP_PT_IDX}
  /\ pool = FreeFrames
  /\ unlucky \in START .. TOTAL_FRAMES - 1
  /\ array = [k \in 0 .. HEAP_PAGES - 1 |-> 0]
  /\ res = 0 /\ seen = {} /\ dirs = {}
  /\ total_malloc_pages = 0 /\ i = HEAP_PAGES
  /\ broken = FALSE

(***************************************************************************)
(* Steps.  A null array is read as frames: the kernel breaks there.        *)
(***************************************************************************)

Idle == i = HEAP_PAGES /\ ~broken

(* get_more_memory, called by malloc: up to its loop *)
GrowHeap ==
  /\ Idle /\ total_malloc_pages + HEAP_PAGES <= HeapLimit
  /\ LET a == pf_allocate_frames(Now, HEAP_PAGES)
     IN Becomes(a) /\ broken' = (a.res = 0)
  /\ total_malloc_pages' = total_malloc_pages + HEAP_PAGES
  /\ i' = 0
  /\ UNCHANGED <<unlucky, dirs>>

(* mutant of HeapFrame: the frames are used last first *)
HeapFrameBackwards(k) == array[HEAP_PAGES - 1 - k]

(* The frame for the k-th new page *)
HeapFrame(k) == array[k]

(* One iteration of its loop.  The first page is written after the loop. *)
GrowPage ==
  /\ i < HEAP_PAGES /\ ~broken
  /\ LET virt == total_malloc_pages - HEAP_PAGES + i
         a == kernel_map_page(Now, HeapFrame(i), virt, TRUE)
         tmp_entry == kernel_get_temporary_entry(a)
         b == get_page(a, virt)
         c == SetEntry(b, virt, [ReadTemp(b)[GET_PT_IDX(virt)] EXCEPT
                                   !.rw = TRUE, !.present = TRUE])
     IN /\ Becomes(kernel_set_temporary_entry(c, tmp_entry))
        /\ broken' = (i = 0 /\ a.res = 0)
  /\ i' = i + 1
  /\ UNCHANGED <<unlucky, dirs, total_malloc_pages>>

(* mutant of DirectoryFrame: off by one *)
DirectoryFrameNext(s) == s.array[1]

(* What create_pdt gives its caller as the frame of the directory: the static array
   is read again after the directory was mapped.  *)
DirectoryFrame(s) == s.array[0]

create_pdt ==
  /\ Idle /\ Cardinality(dirs) < MaxDirs
  /\ LET a == pf_allocate_frames(Now, 1)
         b == pdt_kernel_find_next_vaddr(a, 1)
         c == kernel_map_page(b, b.array[0], b.res, TRUE)
     IN IF a.res = 0 THEN Becomes(a) /\ UNCHANGED dirs
        ELSE IF b.res = 0 THEN Becomes(b) /\ UNCHANGED dirs
        ELSE IF c.res = 0 THEN Becomes(c) /\ UNCHANGED dirs
        ELSE /\ Becomes([c EXCEPT !.res = b.res])
             /\ dirs' = dirs \union {[pdt |-> b.res, pdt_paddr |-> DirectoryFrame(c)]}
  /\ UNCHANGED <<unlucky, total_malloc_pages, i, broken>>

(* The search of process_set_kernel_stack; the page found is not checked. *)
KernelStackSearch == pdt_kernel_find_next_vaddr(pf_allocate_frames(Now, 1), 1)

process_set_kernel_stack ==
  /\ Idle /\ dirs # {}
  /\ LET b == KernelStackSearch
     IN Becomes(IF pf_allocate_frames(Now, 1).res = 0 THEN [b EXCEPT !.res = 0]
                ELSE kernel_map_page(b, b.array[0], b.res, TRUE))
  /\ UNCHANGED <<unlucky, dirs, total_malloc_pages, i, broken>>

(* What a walk of a directory's tables makes of a page *)
Walk(s, pd, v) ==
  LET pde == s.mem[pd][GET_PD_IDX(v)]
  IN IF pde.present THEN s.mem[pde.frame][GET_PT_IDX(v)] ELSE Empty

Entry(s, v) == Walk(s, KERNEL_PD, v)

(* process_set_stack: a page in the lower half of a process's directory *)
process_set_stack(dir) ==
  /\ Idle
  /\ LET a == pf_allocate_frames(Now, 1)
         pd == Entry(Now, dir.pdt).frame
     IN Becomes(IF a.res = 0 THEN a
                ELSE map_page(a, pd, a.array[0], PROCESS_INIT_STACK_VADDR, TRUE))
  /\ UNCHANGED <<unlucky, dirs, total_malloc_pages, i, broken>>

(* unmap_page, of a page of the heap.  *vaddress is read after the page is gone:
   a page fault, which halts, unless the TLB still has the page.  *)
UnmapPage(v) ==
  /\ Idle /\ Entry(Now, v).present
  /\ Becomes(unmap_page(Now, v))
  /\ broken' \in BOOLEAN
  /\ UNCHANGED <<unlucky, dirs, total_malloc_pages, i>>

HeapPages == 0 .. total_malloc_pages - 1

Next ==
  \/ GrowHeap \/ GrowPage
  \/ create_pdt \/ process_set_kernel_stack
  \/ \E dir \in dirs : process_set_stack(dir)
  \/ \E v \in HeapPages : UnmapPage(v)

Spec == Init /\ [][Next]_vars

(* Calls for the entry of a page of the heap, the slot saved and given back
   around them as malloc does *)
Borrowing(a) ==
  /\ Idle
  /\ Becomes([kernel_set_temporary_entry(a, kernel_get_temporary_entry(Now))
               EXCEPT !.res = a.res])
  /\ UNCHANGED <<unlucky, dirs, total_malloc_pages, i, broken>>

GetPage(v) == Borrowing(get_page(Now, v))
AllocatePage(v) == Borrowing(allocate_page(get_page(Now, v), v))

(* Bound: the pool never holds more than it did at first. *)
FreePage(v) ==
  /\ Entry(Now, v).present /\ Len(pool) < Len(FreeFrames)
  /\ Borrowing(free_page(get_page(Now, v), v))

(* The functions of paging.h that nothing calls yet *)
NextExported ==
  \/ Next
  \/ \E v \in HeapPages : GetPage(v) \/ AllocatePage(v) \/ FreePage(v)

SpecExported == Init /\ [][NextExported]_vars

(***************************************************************************)
(* Properties.                                                             *)
(***************************************************************************)

(* Whoever borrows the temporary slot gives it back as it was, on every path and
   however the borrowers nest: map_page inside create_pdt or malloc, get_page in
   unmap_page, the search for free pages.  *)
TempSlotRestored ==
  [][kernel_get_temporary_entry(Now)' = kernel_get_temporary_entry(Now)]_vars

(* No page is ever taken from the kernel's image or its slot: the search for free
   pages passes over them, and no entry of the kernel's table differs after a call,
   unless a directory built on an uncleared frame was followed.  *)
KernelImageKept == [][seen' = {} => mem'[KERNEL_PT] = mem[KERNEL_PT]]_vars

(* No access through the slot uses a translation older than the slot's entry. *)
NoStaleAccess == "stale" \notin seen

(* The pages outside the kernel image, as the kernel's tables map them *)
Pages == {v \in VPages : GET_PD_IDX(v) # KERNEL_PT_PDT_IDX}
Mapping == [v \in Pages |-> IF Entry(Now, v).present THEN Entry(Now, v).frame ELSE NoFrame]
Space == INSTANCE AddressSpace WITH map <- Mapping

(* The tables implement AddressSpace: every step maps one page to a frame no other
   page has, or unmaps one, or changes no translation.  Not so once the first entry
   of a table that had none was made present with another page (ghost), a
   directory built on an uncleared frame was followed (stray), or the kernel half
   was full.  *)
RefinesAddressSpace ==
  /\ Space!Init
  /\ [][seen' = {} => Space!Next]_Mapping

Tables == {mem[KERNEL_PD][d].frame : d \in {e \in Idx : mem[KERNEL_PD][e].present}}
Mapped == {Mapping[v] : v \in Pages} \ {NoFrame}
Waiting == {array[k] : k \in i .. HEAP_PAGES - 1}
InPool == {pool[k] : k \in 1 .. Len(pool)}

(* A page table, a mapped page, a frame in malloc's hands and a free frame are never
   the same frame.  The frames malloc has still to map lie in the static array,
   which every page table allocated on the way overwrites.  *)
FramesApart == seen = {} /\ ~broken =>
  /\ \A d, e \in {k \in Idx : mem[KERNEL_PD][k].present} :
       mem[KERNEL_PD][d].frame = mem[KERNEL_PD][e].frame => d = e
  /\ \A j, k \in i .. HEAP_PAGES - 1 : array[j] = array[k] => j = k
  /\ Tables \intersect (Mapped \union Waiting \union InPool) = {}
  /\ Mapped \intersect (Waiting \union InPool) = {}
  /\ Waiting \intersect InPool = {}

===============================================================================
