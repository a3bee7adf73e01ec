------------------------------- MODULE Process --------------------------------
(***************************************************************************)
(* Creating and entering a process: create_process (src/kernel/process.c)  *)
(* and sys_exec (src/interrupt/syscall.c) over Paging.                     *)
(*                                                                         *)
(* Each function create_process calls is one step, with the page tables as *)
(* Paging has them and the frames read from the allocator's static array   *)
(* where the source reads them.  The heap grows, by GrowHeap, before       *)
(* create_process takes a block from it.  A behaviour ends where sys_exec  *)
(* jumps to the program.                                                   *)
(***************************************************************************)
EXTENDS Paging

CONSTANTS
  PROGRAM,  (* program_vaddr: the page of the kernel image with the program *)
  MaxExecs  (* bound: calls of sys_exec                                     *)

ASSUME ProcessAssumption ==
  /\ PROGRAM \in VPages /\ GET_PD_IDX(PROGRAM) = KERNEL_PT_PDT_IDX
  /\ GET_PT_IDX(PROGRAM) \in 0 .. START - 1
  /\ MaxExecs \in Nat

VARIABLES
  process,        (* the page struct PROCESS lies on, and its fields     *)
  step,           (* what create_process or sys_exec does next           *)
  NUM_PROCESSES,
  cr3,            (* the frame of the directory the processor uses       *)
  jump            (* the page sys_exec jumped to                         *)

exec_vars == <<process, step, NUM_PROCESSES, cr3, jump>>
process_vars == <<vars, exec_vars>>

(* init_populate_process.  A null pointer is an address of page 0 too, which the
   heap has.  *)
Blank(v, null) ==
  [at |-> v, null |-> null, pdt |-> 0, pdt_paddr |-> 0, kernel_stack_vaddr |-> 0,
   process_stack_paddr |-> 0, process_code_paddr |-> 0]

Steps == {"none", "pdt", "stack", "kernel_stack", "code", "map", "load", "entered"}

ProcessInit ==
  /\ Init
  /\ process = Blank(0, TRUE) /\ step = "none" /\ NUM_PROCESSES = 0
  /\ cr3 = KERNEL_PD /\ jump = 0

(* A call of malloc that grows the heap *)
Malloc == step = "none" /\ (GrowHeap \/ GrowPage) /\ UNCHANGED exec_vars

(* sys_exec up to the first function of create_process.  The block lies on any page
   of the heap.  When malloc returned NULL, the structure is written to page 0, and
   the processor faults if the heap has not got that page yet.  *)
sys_exec ==
  /\ Idle /\ step = "none" /\ NUM_PROCESSES < MaxExecs
  /\ NUM_PROCESSES' = NUM_PROCESSES + 1
  /\ \/ /\ \E v \in HeapPages : process' = Blank(v, FALSE)
        /\ UNCHANGED broken
     \/ /\ process' = Blank(0, TRUE)
        /\ broken' = ~Entry(Now, 0).present
  /\ step' = "pdt"
  /\ UNCHANGED <<machine, unlucky, dirs, total_malloc_pages, i, cr3, jump>>

(* create_process goes on, or returns NULL and gives nothing back. *)
GoOn(next) == step' = next /\ UNCHANGED <<NUM_PROCESSES, cr3, jump>>
ReturnNull == GoOn("none") /\ UNCHANGED process

process_set_pdt ==
  /\ step = "pdt"
  /\ create_pdt
  /\ \/ /\ dirs' = dirs
        /\ ReturnNull
     \/ \E dir \in dirs' \ dirs :
          /\ process' = [process EXCEPT !.pdt = dir.pdt, !.pdt_paddr = dir.pdt_paddr]
          /\ GoOn("stack")

SetStack ==
  /\ step = "stack"
  /\ process_set_stack(process)
  /\ IF res' = 0 THEN ReturnNull
     ELSE /\ process' = [process EXCEPT !.process_stack_paddr = array'[0]]
          /\ GoOn("kernel_stack")

SetKernelStack ==
  /\ step = "kernel_stack"
  /\ process_set_kernel_stack
  /\ IF res' = 0 THEN ReturnNull
     ELSE /\ process' = [process EXCEPT !.kernel_stack_vaddr = KernelStackSearch.res]
          /\ GoOn("code")

PD == Entry(Now, process.pdt).frame

(* mutant of CodeFrame: the frame of the kernel stack is still in the array *)
NoCodeFrame == [Now EXCEPT !.res = 1]

CodeFrame == pf_allocate_frames(Now, 1)

(* mutant of CodeMapped: page 0 is mapped in the kernel's directory *)
CodeInKernel(s) == kernel_map_page(s, s.array[0], 0, TRUE)

(* The page of the program is mapped to the new frame, and the frame to page 0 of
   the process: nothing copies the program.  *)
CodeMapped(s) == map_page(s, PD, s.array[0], 0, TRUE)

process_set_code ==
  /\ Idle /\ step = "code"
  /\ LET a == CodeFrame
         b == kernel_map_page(a, a.array[0], PROGRAM, TRUE)
         c == CodeMapped(b)
     IN IF a.res = 0
          THEN Becomes(a) /\ broken' = TRUE /\ ReturnNull
          ELSE /\ Becomes(c)
               /\ UNCHANGED broken
               /\ IF c.res = 0 THEN ReturnNull
                  ELSE /\ process' = [process EXCEPT !.process_code_paddr = c.array[0]]
                       /\ GoOn("map")
  /\ UNCHANGED <<unlucky, dirs, total_malloc_pages, i>>

(* mutant of ProcessMapped: the slot is not given back *)
ProcessMappedKeeping(s) ==
  LET a == get_page(s, process.at)
  IN IF process.null THEN a ELSE map_page(a, PD, a.res, process.at, TRUE)

(* The address get_page returns, of the slot, is mapped as if it were the frame of
   struct PROCESS; whether that worked is not looked at.  *)
ProcessMapped(s) ==
  LET a == get_page(s, process.at)
      b == IF process.null THEN a ELSE map_page(a, PD, a.res, process.at, TRUE)
  IN kernel_set_temporary_entry(b, kernel_get_temporary_entry(s))

(* Only here does a null process structure make create_process fail. *)
process_map_process ==
  /\ Idle /\ step = "map"
  /\ Becomes(ProcessMapped(Now))
  /\ GoOn(IF process.null THEN "none" ELSE "load") /\ UNCHANGED process
  /\ UNCHANGED <<unlucky, dirs, total_malloc_pages, i, broken>>

(* mutant of Copied: the entry of the kernel image is left out *)
CopiedAbove(d) == d > KERNEL_PT_PDT_IDX /\ mem[KERNEL_PD][d].present

(* The entries load_process_pdt copies *)
Copied(d) == d >= KERNEL_PT_PDT_IDX /\ mem[KERNEL_PD][d].present

(* load_process_pdt and what sys_exec does after it: the process structure is read
   through the new directory.  Without it, or without the kernel image, of which
   PROGRAM is a page, the processor faults.  *)
load_process_pdt ==
  /\ Idle /\ step = "load"
  /\ cr3' = process.pdt_paddr
  /\ LET a == [Now EXCEPT !.mem[PD] =
                [d \in Idx |-> IF Copied(d) THEN mem[KERNEL_PD][d] ELSE @[d]]]
         read == Walk(a, cr3', process.at)
     IN /\ Becomes(a)
        /\ jump' \in IF read.frame = Entry(a, process.at).frame THEN {0} ELSE VPages
        /\ broken' = ~(read.present /\ Walk(a, cr3', PROGRAM).present)
  /\ step' = "entered"
  /\ UNCHANGED <<unlucky, dirs, total_malloc_pages, i, process, NUM_PROCESSES>>

ProcessNext ==
  \/ Malloc
  \/ sys_exec
  \/ process_set_pdt \/ SetStack \/ SetKernelStack \/ process_set_code
  \/ process_map_process
  \/ load_process_pdt

ProcessSpec == ProcessInit /\ [][ProcessNext]_process_vars

(***************************************************************************)
(* Properties.                                                             *)
(***************************************************************************)

Lower == 0 .. KERNEL_PT_PDT_IDX * PT_ENTRIES - 1

(* The page tables of a directory and the frames they map, but not entries left
   in its frame, nor the page of struct PROCESS, which is mapped to the slot's
   address *)
TablesOf(dir) ==
  LET pd == Entry(Now, dir.pdt).frame
  IN {mem[pd][d].frame : d \in {e \in 0 .. KERNEL_PT_PDT_IDX - 1 :
                                  mem[pd][e].present /\ mem[pd][e] # Junk}}
PagesOf(dir) ==
  LET pd == Entry(Now, dir.pdt).frame
  IN {Walk(Now, pd, v).frame : v \in {w \in Lower :
        /\ mem[pd][GET_PD_IDX(w)] # Junk /\ Walk(Now, pd, w).present
        /\ ~(step \in {"load", "entered"} /\ dir.pdt = process.pdt /\ w = process.at)}}

(* The code and the stack of a process lie in frames that are neither the kernel's
   nor free nor another process's, also after creations that failed midway.  Each
   is read from the static array just before the call that overwrites it.  *)
ProcessPagesApart == seen = {} /\ ~broken =>
  /\ \A dir \in dirs :
       /\ TablesOf(dir) \intersect PagesOf(dir) = {}
       /\ (TablesOf(dir) \union PagesOf(dir)) \intersect (Mapped \union Tables \union InPool) = {}
  /\ \A d, e \in dirs : d # e =>
       (TablesOf(d) \union PagesOf(d)) \intersect (TablesOf(e) \union PagesOf(e)) = {}

(* No step of a creation, whether it ends well or not, takes a page away from the
   kernel or moves it.  *)
KernelPagesKept ==
  [][step # "none" /\ seen' = {} =>
       \A v \in Pages : Mapping[v] # NoFrame => Mapping'[v] = Mapping[v]]_process_vars

(* When CR3 is loaded, the directory in it has every page the kernel has in its
   half, those mapped after the directory was created included, provided that
   create_pdt recorded the frame of the directory.  *)
SwitchKeepsKernel ==
  step = "entered" /\ process.pdt_paddr = PD =>
    \A v \in VPages \ Lower : Entry(Now, v).present => Walk(Now, cr3, v) = Entry(Now, v)

(* create_pdt records another frame only when mapping the directory took a new page
   table, whose frame then lies where it reads the directory's.  *)
DirectoryFrameRecorded ==
  [][\A dir \in dirs' \ dirs :
       dir.pdt_paddr = Entry(Now, dir.pdt)'.frame \/ dir.pdt_paddr \in Tables' \ Tables]_process_vars

(* syscall.c:22: sys_exec "Replaces current process with a new process running
   program from program_addr": the page it jumps to is in the frame the loader put
   the program in, which nothing copies.  *)
ExecRunsProgram ==
  step = "entered" /\ ~broken =>
    LET page == Walk(Now, cr3, jump) IN page.present /\ page.frame = GET_PT_IDX(PROGRAM)

===============================================================================
