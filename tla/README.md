# A TLA+ verification project for OYES

OYES is a small 32-bit x86 kernel: it boots through GRUB into the higher half,
sets up its descriptor tables, paging, a physical frame allocator and a heap,
installs interrupt handlers for the keyboard, page faults and one system call,
and starts a user process. This directory holds TLA+ models of its parts, the TLC
configurations that check them, and proofs checked by TLAPS. `PROJECT.json` lists
the components, the runs, the source lines behind every definition, the hazards and
the theorems; this file explains them.

Paths below are relative to `src/src/` of the repository unless they start with
`include/` (`src/include/`).

## 1. The system

| component | source | state it keeps | operations |
|---|---|---|---|
| page frame allocator | `memory/physical/page_frame_alloc.c` | bitmap of frames, stack of up to 1024 free frames, ring position of the next refill, a static result array | `page_frame_allocator_init`, `pf_allocate_frames`, `free_page_frame` |
| heap | `memory/heap/malloc.c` | cyclic free list of headers threaded through the heap, `freep`, `base`, number of heap pages | `malloc`, `get_more_memory`, `free` |
| paging | `memory/virtual/paging.c`, `paging_asm.s` | page directories and tables in memory, the kernel's temporary slot, `CURRENT_PD`, CR3 and the TLB | `map_page`, `unmap_page`, `create_pdt`, `set_current_pd`, `temp_map_page`, ... |
| processes | `kernel/process.c`, `user_mode.s` | `PROCESS` structures, the page tables of a process | `create_process`, `init_populate_process`, `process_set_*` |
| system calls | `interrupt/syscall.c` | the table of calls | `sys_get_pid`, `sys_exec` |
| interrupts | `interrupt/idt.c`, `interrupt_handler.c`, `system_interrupt_handler.s`, `exceptions.c`, `pic.c` | IDT, table of handlers, the two PICs, IF and the stack of interrupted contexts | dispatch, acknowledge, mask |
| keyboard | `hardware/keyboard.c` | ring buffers of scan codes and of characters, modifier flags | interrupt handler, `keyboard_read`, `keyboard_write`, conversion |
| console | `display/fb.c`, `stdlib/stdio.c`, `hardware/serial.c` | cursor, UART registers | `fb_write`, `printf`, `serial_write` |
| utilities | `utility/utilities.c`, `x86.s`, `io.s` | none | division, rounding, alignment |
| segmentation | `memory/physical/memory_seg.c`, `gdt.s`, `tss.s` | GDT, TSS | install, `set_kernel_stack` |
| boot | `kernel/loader.s`, `kernel/kmain.c` | boot page tables; order of initialisation | `kmain`, `enter_user_mode` |
| scheduler | `kernel/scheduler.c` | none: declared only | none |

How they interact. `malloc`, `map_page`, `create_pdt` and the `process_set_*`
functions call `pf_allocate_frames`, which returns the address of ONE static array:
a caller reads its frames from that array after other calls may have overwritten
it. `malloc` calls the kernel mapping functions for every page it adds;
`map_page` and `create_pdt` share one temporary slot of the kernel page table,
saved and restored by hand around each use. The keyboard interrupt handler and
`keyboard_read` share the ring buffers; `system_interrupt_handler.s` puts every
handler between a push and a pop of the registers, and `pic.c` acknowledges.
`sys_exec` uses the heap, the frame allocator, paging and the process code in one
call. Everything runs on one processor without preemption; only interrupts
interleave with the main flow, and since the interrupt gates are of trap type a
handler may itself be interrupted.

What makes each part correct:

- page frame allocator: a frame has one owner; kernel frames are never handed
  out; frames are not lost; a refill happens when and only when it is needed.
- heap: blocks handed out are disjoint, inside the heap and as large as asked
  for; the free list stays sorted and fully merged; freed memory is used again; a
  request is refused only when memory is exhausted.
- paging: the temporary slot is as it was after every call that borrows it; a
  mapped address translates to the frame it was mapped to; no frame is mapped
  in two address spaces unless it is shared on purpose; a page directory is
  entered only when complete.
- processes: code, stack and kernel stack of a process are distinct frames, the
  addresses recorded are the frames mapped, and a failed creation leaks nothing.
- interrupts and keyboard: every interrupt taken is acknowledged at the PIC that
  raised it; scan codes are read in the order they came or overwritten by the
  newest; modifiers match the keys held down.
- console: the cursor stays on the screen; printed digits are those of the number;
  no byte sent is dropped.

## 2. Plan

In order of importance; a dagger marks what exists now.

1. `FramePool` †, `FrameAlloc` †, `FrameAllocProofs` †: the frame allocator, its abstract
   specification and proofs.
2. `HeapArena` †, `Heap` †, `HeapProofs` †: the heap, stepwise, the abstract allocator it
   implements, and the proofs of both.
3. `Keyboard` †, `KeyboardProofs` †: ring buffers, handler, reader and the PIC
   acknowledgement.
4. `Interrupts` †, `InterruptsProofs` †: gates, stubs, dispatcher, several lines of the
   PIC, exceptions, the order in which `kmain` sets them up.
5. `AddressSpace` †, `Paging` †: page tables, temporary slot, the static array of the
   frame allocator, the TLB; `PagingProofs` †.
6. `Process` †: `create_process` and `sys_exec` composed with `Paging`: aliasing of the
   static array, partial failure, `load_process_pdt` and `set_current_pd`;
   `ProcessProofs` †.
7. `Words` †, `WordsProofs` †: the arithmetic of `utilities.c` on words.
8. `Console` †, `ConsoleProofs` †: framebuffer cursor, the parser of `printf` and the UART,
   composed with `Words`.

Every safety property of the passing runs is a theorem (section 12).

## 3. Conventions

A small kernel without preemption is a sequence of calls, so concurrency is not the
only source of difficulty: most hazards are long sequences of legal calls, state
read after another call changed it, and counters at a boundary. The models keep the
control flow of each function. A function whose loop may be interrupted by nothing
but whose loop invariant matters is taken one iteration per step (`FrameAlloc`,
`Heap`); functions that only matter as a whole are operators from state to state
(`Paging`).

- Addresses are counted in the natural unit: page frames (`FrameAlloc`), header units
  of 8 bytes (`Heap`), pages (`Paging`).
- A *history* variable, marked so at its declaration, records what no variable of the
  program holds: who owns a frame (`held`), what was read from the port (`taken`).
- Some promises end when the code itself breaks them. The event is a history variable,
  and the promise is conditional on it, so that everything before the event is still
  checked: `wrapped` (a frame address wrapped past 4 GB), `forgotten` (the heap lost its
  free list), `early` (a key was pressed before the PIC was reset), `seen` (in
  `Paging`: `ghost`, `stray`, `full`), `broken` (a null pointer was read as an array or
  a fault halted). Each of these is reached in the run that uses it.
- `mutant of X` in a module marks a deliberately wrong version of X; no
  specification uses it. With it in place of X, the property paired with it in
  `PROJECT.json` fails.

## 4. The frame allocator

| code | model |
|---|---|
| `bit_map`, `last_allocated_index` | `bit_map` (the set of bits that are 1), `last_allocated_index` (first bit of the word) |
| `FREE_PAGE_FRAMES` | `stack`, its top last; capacity `PT_ENTRIES` |
| `allocated_page_frames` | the same, from index 0 |
| `pf_allocate_frames` | `Request`, `Pop` per iteration, `Refilled` or `Fail` after a refill, `Return` |
| `bitmap_get_unallocated_pages` | `TakeBit` or `SkipBit` per bit of the ring; `NextBit` is its end test |
| `free_page_frame` | `free_page_frame` |

`FramePool` is what callers may rely on: free frames are granted to a request, given
back, or lost by a request that fails. In `FrameAlloc` a frame is free when its bit
is 0, when it is on the stack, or while a request holds it in the array;
`RefinesFramePool` maps the state this way and says that every step until the wrap is
a `Grant`, a `Lose`, a `Release`, or leaves the pool alone.

Run `frame_alloc_calls`: a stack of 2, 6 frames, words of 2 bits, a kernel of 1 frame.
Small as it is, the instance has every case of the code: the initial stack takes two
bits and a refill the next two, a later refill takes the bits whose addresses wrap,
a free meets a full stack and a stack with room, a search starts in each of the
three words, crosses the end of the bitmap and comes back to where it began, and a
request is as large as the stack, so the stack empties at each index of the loop. The
proofs remove the bound for the safety properties. `frame_alloc_short` is a disagreement
with a comment (section 11). So is the wrap itself, though no run is spent on it:
`page_frame_alloc.c:22` says that 0 and 1 are never frame addresses, and the last bits of
the bitmap stand for addresses that wrap past 4 GB, the first of them 0.

Fairness: `WF_vars(Step)`, a call once made goes on. No handler allocates, and
nothing preempts the kernel. Whether a request is made, or a frame freed, is up to
callers and not fair. `CallReturns` is that the search of the ring ends.

Not modelled: a caller that frees a frame it does not own, or frees it twice. The
lifetime of the returned static array matters to callers only, and is part of
`Paging`.

## 5. The heap

`Heap` follows `malloc.c` one loop iteration per step. `freep`, `next` and `size` are
the free list; `base`, the header in the kernel image, is above every heap address,
as it is in memory. `malloc` is `Malloc`, then `Advance` along the list, ending in
`TakeWhole`, `TakeTail` or `Grow`; `get_more_memory` continues as the call of `free`
it makes for the new chunk; `free` is `Free`, `InsertAdvance` and `InsertLink`, which
does the merging with both neighbours.

`HeapArena` is what a caller may rely on: a block it gets is memory nobody owns, lies
in the arena, has the size this very call asked for (`wanted`, which is `nunits` in
`Heap`), and stays as it is until it is freed; a call that fails takes nothing; and the
arena grows only to serve a request. `RefinesArena` is `Heap` implementing it.

Run `heap_calls`: chunks of 4 units, up to 3, requests of 2, 3, 4 and 7 units. A
request can take a whole block, cut off a tail, or be larger than a chunk, so that
it is served only after two growths that merge; blocks are freed in every order
between, before and after those on the list, so each of the four ways of merging
and both ends of the list occur. Fairness: `WF_vars(Step)`, as for the allocator.
`CHECK_DEADLOCK FALSE`, because the model stops at `corrupt`: when the frame allocator
has nothing left, `get_more_memory` uses the null pointer it got as an array, and
what the kernel does from there on is not modelled.

`NothingLost` holds only until `forgotten`: the heap starts at address 0, `freep` can
point there, and the next `malloc` takes that for a list never set up. The run
`heap_forgets` shows it.

The two halves of growth, blocks and pages, are checked apart: `Heap` assumes that a
growth appends one contiguous chunk, and `Paging` checks that the pages behind it are
mapped to frames nobody else has.

## 6. Paging

`Paging` takes one call, or one iteration of the loop of `get_more_memory`, per step.
Each function of `paging.c` is an operator on a record of the machine: the contents of
every frame (`mem`), the cached translation of the temporary slot (`tlb`), the frames
the allocator can give (`pool`), its static array (`array`) and the value returned
(`res`). Page tables are read and written only through the slot and through `tlb`, so
that a missing flush, or a slot not given back, is visible as a write to the wrong
frame.

The frame allocator is reduced to what its callers see: frames off the top of a
stack, a failure that loses what was popped, either when the stack is used up or at
one `unlucky` frame chosen at the start (the refill that counts as too short). A frame
nobody has written is either all zero or full of entries that look present (`Junk`).

Run `paging_calls`: tables of 4 entries, 13 frames, the kernel half at entry 2, two
directories, a heap of up to 6 pages (so that it crosses a table), every position of
the unlucky frame. Ten free frames are enough for the heap, its two tables and the
directories with their stacks, so exhaustion and success are both reached in each
function. Run `paging_slot`: tables of 3 entries with, in addition, the functions of
`paging.h` that nothing calls yet (`get_page`, `allocate_page`, `free_page`), each
called with the slot saved around it as `malloc` does. `CHECK_DEADLOCK FALSE`: a null
array that is read, and a page fault in `unmap_page`, stop the kernel (`broken`).

`RefinesAddressSpace` says that the kernel's tables implement `AddressSpace`: a step
maps one page to a frame no other page has, unmaps one, or changes no translation.
It is claimed while `seen` is empty. `ghost`: `map_page` sets PRESENT on the first entry
of a table, whichever page it maps, so an unmapped first page comes back. `stray`: the
frame of a new directory is not cleared, so `map_page` may follow an old entry.
`full`: no page is free in the kernel half and the caller maps page 0. These are
hazards of the code, recorded in `PROJECT.json`; no comment or test says otherwise, so
they are not findings. One comment does disagree, and no run is spent on it:
`paging.c:58` says that every page gets user privileges, but in a table that exists
`map_page` sets USER on the first entry and not on the one it fills.

Three functions nothing calls differ from their comments without a run of their own:
`get_page` (`paging.c:82`, "Retrieves physical page") returns the address of the page
table entry in the slot, and `allocate_page` (`paging.c:101`) stores the address of the
static array in the entry instead of the frame it returns. `free_page` (`paging.c:117`) hands
`free_page_frame` the address of the temporary slot and not that of the frame. The
model follows the code in all three.

Not modelled: TLB entries of pages other than the slot, and `unmap_temp_page` (in no
header, never called). `PagingAssumption` states what `boot.s` and the link script give:
the boot table maps the kernel image, which ends at frame `START`, within one table, and
the static array of the frame allocator is a page of that image. `load_process_pdt` and `set_current_pd` are in `Process`.

## 7. Processes

`Process` extends `Paging`: the state of the machine, the growth of the heap and
`create_pdt`, `process_set_stack` and `process_set_kernel_stack` are those of `Paging`,
and `Process` puts them in the order of `create_process`, with what each records in
the process structure and what each failure returns.

| code | model |
|---|---|
| the pointer `process` and the structure behind it | `process`: its page, whether it is null, its fields |
| where `create_process` or `sys_exec` is | `step` |
| `process_set_pdt` ... `process_map_process` | `process_set_pdt`, `SetStack`, `SetKernelStack`, `process_set_code`, `process_map_process` |
| `load_process_pdt`, `set_current_pd` and the jump of `sys_exec` | `load_process_pdt`, `cr3`, `jump` |

The heap starts at address 0, so a null pointer is an address of its first page. A
failed `malloc` therefore goes unnoticed until `process_map_process`, unless the heap
has no page at all and the processor faults; both are in the model.

Run `process_calls`: tables of 4 entries, 16 frames, two calls of `sys_exec` and a heap
that grows before and between them. Twelve free frames let both creations succeed or
fail at any step, with an unlucky frame anywhere, and two directories are enough to
compare the pages of two processes. `ProcessPagesApart` looks at what failed creations
leave behind as well. `SwitchKeepsKernel` and `DirectoryFrameRecorded` belong together:
`create_pdt` reads the physical address of the directory from the static array after
a call that may have put a new page table there; the second says that this is the
only way to record a wrong one, the first that the switch is right in every other
case. `CHECK_DEADLOCK FALSE`: a behaviour ends at the jump, or on a fault.

Run `process_exec` is a disagreement with a comment (section 11).

Not modelled: what the program does, the saved registers and the ids of the structure
(nothing reads them), the offset of `esp0` in its page.

## 8. Keyboard, PIC and interrupt flag

`Keyboard` has the two ring buffers and the handler of `keyboard.c`, the keyboard's line
of the master PIC (`irr`, `isr`), the interrupt flag and as much of `kmain` as sets
them up. The gates are trap gates, so the flag stays on in a handler: `ctx` is the
stack of handlers entered and not left. The handler is cut where an interrupt could
make a difference: `Enter` (room in the buffer?), `Store`, `Convert`, `DropScancode`,
`PutChar`, `WriteChar`, `Acknowledge`, `Iret`. Scan codes are the seven classes the
conversion tells apart. `KeyEvent` and the reading of the port are the keyboard
controller's, modelled from how the handler uses it.

Run `keyboard_keys`: buffers of 2, up to 4 key events at any moment from power-on. Four
codes are enough for shift, caps lock and a release before a letter, and for three
handlers that nest. Fairness: `WF_vars(Handler)` and `WF_vars(Dispatch)`, the
processor executes, and takes a pending interrupt; `WF_vars(Boot)`, `kmain` has no
wait in its set-up. `enter_user_mode` is fair only in `UserSpec`, used by
`keyboard_user`, because `kmain` may stay in the kernel. `CHECK_DEADLOCK FALSE`: with
all keys pressed and read and user mode entered nothing is left to happen.

Not modelled: interrupts other than the keyboard's, which are in `Interrupts`, and
`keyboard_read` from anywhere but the handler: nothing else calls it.

## 9. Interrupts

`Interrupts` is about the way into a handler and back, which `Keyboard` takes for granted.

| code | model |
|---|---|
| gates of `idt.c`; what the processor pushes | `Enter` |
| the stubs of `system_interrupt_handler.s` | `Stub`; `ErrorCodeStub` lists the vectors whose stub pushes no error code of its own |
| `common_interrupt_handler` | `Save`, `interrupt_handler`, `Restore`, `Iret` |
| `interrupt_handler`, `assign_interrupt_handler` | the same, on the table `handlers` |
| `pic.c` | `install_pic`, `pic_acknowledge`, and the masks in `Unmasked`; `Raise` and `Dispatch` are the PIC's and the processor's |
| `exceptions.c` | `enable_exceptions`, `pagefault_exception_handler` |
| `kmain` | the actions of `Boot`, in its order |

The stack is a sequence of words, `esp` its length. Every word the code or the processor
pushes is on it, and what the stubs skip and the pops take away is counted in words, so
a save of the wrong stack pointer, a register popped into the wrong place or a missing
error code shows. `ctx` holds the handlers entered and not left. Of each it keeps, as
history, the registers, stack and flag that were interrupted; `ResumesAsInterrupted`
compares them with what there is after the `iret`. A handler of C may leave anything in
the registers it need not save, so `Restore` has to bring them back.

Run `interrupts`: a timer, the keyboard and one more line, exceptions with and without an
error code and the page fault, up to four interrupts at any moment. Four let the keyboard
interrupt a handler that has itself interrupted one, and a masked line be requested as
well. `DevicesDoNotPrint` and `LinesReleased` belong together: `interrupt_handler` neither
acknowledges nor keeps out of `printf` for a vector without handler, and only the mask
that `install_pic` sets, before anything enables interrupts, keeps devices from getting
there. `PageFaultHalts` holds although the handler prints with interrupts on.

Fairness: `WF_vars` of `Boot`, `Handler`, `TakeFault` and `Dispatch`: the processor goes on
executing, and takes exceptions and pending interrupts. Devices and faults are not fair.
`CHECK_DEADLOCK FALSE`: the model ends where the processor halts or enters user mode.

Not modelled: faults before the table is loaded and in handlers, entries from user mode
(the TSS they would switch stacks through is left zero but for `esp0`, see
`memory_seg.c:127`), the slave PIC, all of whose lines are masked, the encoding of
descriptors, and how deep the stack may grow. Compiled C functions own the words of
their arguments and could change them; the model assumes they do not, since
`common_interrupt_handler` pops the registers from there.

## 10. Arithmetic and console

`Words` is `divideUnsigned`, one iteration of its loops per step, on words of any even
number of values, and the rounding functions as operators. They are what the sizes of
`malloc`, the bitmap and the heap's growth are computed with; the other modules use the
exact quotients, and `QuotientRight` and `RoundingRight` are why they may.
`div_absolute_ceil` returns one more than the ceil for every dividend, since the extra
unit is where `malloc` puts its header; its comment (`utilities.c:34-36`) says so only for
multiples of the divisor. `RoundingRight` claims the value where code and comment agree,
for multiples, and that there is room for more than the dividend otherwise; what `malloc`
needs of it is the theorem `UnitsHoldRequest`.

`Console` has `printf` with the states of its parser, one format character per step, and
`printf_number`, one digit per step, each division being the steps of `Words`. The
characters of a format are the classes the parser tells apart. A character of the output
is a pair of its origin and its value, so that text, digits and string contents are not
confused. The output is compared with `Reference`, a definition of what a format stands
for, with each number in its `Decimal` notation. Formats with `h` or `l` are followed too,
to see that the parser comes out of them, but not compared: with both a second letter is
read in another state than in the C library. `ConsoleAssumption` gives the stack enough
words for every conversion, since reading past them is not what `printf` promises.
`serial_write` sets up the port on every call, waits for an empty FIFO and writes; the
UART takes from the FIFO and sends in its own time. Setting up clears the FIFO.

Run `console`: words of 6 bits, bytes of 1, so that the cursor's two registers get two
bits of the position and every pair of words is divided; all formats of up to three
characters and all pairs of conversions; strings of no, two and three bytes on a FIFO of
two, twice. The smallest int is among the arguments: `n = -n` leaves it as it is (the
build does not optimise), its extension to 64 bits is negative, and the digits are right
all the same because the division sees the lower half. Fairness: `WF` of `PrintfStep`,
`SerialStep`, `OtherStep` and `Uart`: a call runs, and the UART sends. `CHECK_DEADLOCK
FALSE`: after the calls of a behaviour nothing is left to happen.

Not modelled: `slowDivide`, which nothing calls; the loop of `memset`; colours and digits as
text; cells beyond the screen, to which `fb_write` goes on writing as the cursor grows.

## 11. Where the code disagrees with its documents

Each of these runs checks one sentence of the repository and ends in a
counterexample.

| run | sentence | what happens |
|---|---|---|
| `frame_alloc_short` | `page_frame_alloc.c:173`: 0 means "it wasn't able to allocate desired number of frames" | with the refill at the first frame of a request, a full refill counts as too short: the request returns 0 and its frame is lost |
| `heap_forgets` | `malloc.c:18`: `freep` is the start of the free list | a list that starts at address 0 is taken for none, and all free blocks are lost |
| `process_exec` | `syscall.c:22`: `sys_exec` runs the program given | nothing copies the program, and the process structure is read through a mapping to another frame |
| `keyboard_user` | `README.md:15`: hardware interrupts are supported | user mode is entered with the interrupt flag off, and it stays off |

Smaller differences between a comment and its code, followed in the models and given no
run of their own:

- `utilities.c:34-36`: `div_absolute_ceil` "Returns of the ceil of a number", plus one only if
  the division is exact. The code adds the one always: for 5 and 4 the comment gives 2 and
  the code 3. With 2 units of 4 bytes, one of them the header, `malloc` would not have room
  for 5 bytes, so the code is what its caller needs.
- `stdio.c:59`: `printf` "Should mimic printf from stdlib"; `%x` and the other bases print
  nothing, as `stdio.c:155` ("for now simply handle base 10") admits. `PrintsFormat` says
  what the code supports.
- `paging.c:58`, `:82`, `:101` and `:117`: user privileges, and three functions nothing calls
  (section 6).

## 12. What is proved

TLAPS checks every proof from the named assumptions on the constants, which TLC
evaluates in the runs: `FrameAllocAssumption` (the first frames after the kernel fill
the stack without wrapping; no upper bounds), `WordAssumption` (the stack size and the
number of frames are whole numbers of words), `HeapAssumption` (a chunk has a unit, a
request is not empty), `KeyboardAssumption` (a buffer has room for something),
`InterruptsAssumption` (lines and vectors are in their ranges), `PagingAssumption` (how the
boot code lays out the kernel's table, section 6), `ProcessAssumption` (the program is a page
of the kernel image), `WordsAssumption` and `ConsoleAssumption` (the stack has an argument for
every conversion, the position of the cursor wraps with its word, and 10 is a word). The bounds of the models, `MaxChunks`, `MaxKeys`,
`MaxRaises`, `MaxDirs`, `MaxExecs` and `HeapLimit`, are any natural number in the theorems, the
last one up to the end of the lower half.

Frame allocator (`FrameAllocProofs`). `EachFrameOnce`, no frame in two places, is not
inductive: that a refill pushes only frames nobody has depends on where the search of
the ring is. `SearchInv` says that. While a refill runs, the stack holds exactly what it
counted, and every bit between its start and the one examined is marked (`RefillInv`);
between refills an empty stack means a full bitmap (`EmptyMeansExhausted`), so the pop
of a request never fails while a frame is left and never leaves an old entry in the
array; and until the wrap, marked bits and positions are below the wrap
(`UnwrappedInv`), so two bits never stand for one frame. `SearchInv` is inductive, which
gives `TypeCorrect` and `Exhaustion`; `OnceInv` adds `EachFrameOnce` and
`KernelFramesSafe` and is inductive on top of it, which gives `FrameUniqueness` and
`KernelProtection`.

`Refinement` proves `RefinesFramePool`: with `OnceInv` before and after a step, each action
is shown to be a `Grant`, `Lose`, `Release` or stutter of `FramePool`, as long as nothing
has wrapped. The same case analysis shows that only `Fail` changes which frames the pool and
the callers have together; the frames that neither has are the lost ones, as `FrameOf` is a
bijection from bits to frames, so `NothingLostSilently` proves `NoSilentLoss`.

Heap (`HeapProofs`). The invariant `HInv` says that the list is cyclic and in address order
(`List`), that blocks, free or not, do not overlap (`Blocks`), that no free block ends where
another begins (`Apart`), and where the locals of the call in progress point (`Locals`). None
of these is inductive without the others. Order and disjointness together put the block
being freed into one gap of the list, so that comparing it with two neighbours is enough
to merge everything that touches; that `base` has size 0 keeps a search from taking it and
a free from merging into it. The lemmas are about a list and a set of blocks as values
(`ListRemove`, `ListInsert`, `BlocksSplit`, `BlocksAdd`, `BlocksMerge`); a free is
`RightMerged` or `RightApart`, then `LeftMerged` or `Inserted`. `NothingLost` is inductive
on top of `HInv`, and so is `SearchInv`, from which `GrowsOnlyWhenShort` follows: every block
the search has passed is too small. `Passed` says which those are without counting steps,
as an interval of addresses that may wrap at `base`; one step along a list in address
order adds one block to it (`PassedNext`), and when the search is back where it began only
that block is left (`PassedAll`). `RefinesArena` is proved too: taking a block or a tail is
`Arena!Grant`, the start of a malloc `Arena!Ask`, growth `Arena!Grow`, the return of a null
`freep` after it `Arena!Refuse`, the start of a free `Arena!Free`, and no other step changes
a block somebody owns; that no request is pending between calls (`Answered`) is a small
invariant of its own.

Keyboard (`KeyboardProofs`). That the buffers are empty between handlers
(`RingsDrained`) and that no scan code waits at the port without an interrupt
(`NoLostInterrupt`) both depend on what the one handler at work is doing, however deep
the stack of interrupted ones. `Stage` is that step; `OneHandlerAtWork` makes it well
defined, because the processor dispatches only while no acknowledgement is
outstanding. `RingsInv` gives the contents of both buffers at each stage, `PortInv`
relates the port to the interrupt request. `IInv`, the conjunction with the type
invariant, is inductive; the first four theorems follow. `CharactersInOrder`
(`OutputInOrder`) speaks only of states with no handler at work, so `OrderInv` says for
each stage how far the last scan code has come from the port to the output: how many
codes are judged and how many written, what the scan code buffer, the local and the
character buffer hold. Modifiers are counts over the codes read, and one more code changes
each count as the conversion changes its flag (`ShiftStep`, `CapsStep`).

Interrupts (`InterruptsProofs`). `Frame` says, for each step a handler can be at, what lies
on the stack above the stack it interrupted, word by word, and `Frames` says it of every
handler of `ctx`: the stack and registers of an interrupted handler are those the one
above it recorded, so a handler's frame is untouched while others come and go on top.
`IInv` adds how far `kmain` is with the tables, masks and the interrupt flag (from which
`DevicesSilent` follows), which line each handler has yet to acknowledge, and that a halted
processor has its flag off. `Resumption`, `LinesAreReleased`, `DevicesSilent` and
`HaltIsFinal` follow.

Paging (`PagingProofs`). A lemma per function says what it returns and what it writes, entry
by entry, on every path. `SlotInv` says that the state is typed and that the cached
translation of the slot is the entry it caches or none; each function keeps the slot
(`Keeps`), which gives `NoStaleAccess` and `TempSlotRestored` for all calls, those nothing
makes yet included.

`FramesApart` and `KernelImageKept` are not inductive: a `map_page` through the directory of a
process must not reach a table of the kernel, and what it meets in a frame just popped
depends on who wrote there before. `Shape` is about places: a place is an entry of the
kernel's or a process's directory with, for a page, an entry of its table; the table itself
is the place `Itself`. No frame is at two places (`Unique`); a frame at a place is
neither free nor in the hands of `malloc` (`Taken`); free frames differ and hold what they
held at first, so a new table is `Empty` or `Junk` and never an old table
(`Untouched`); the kernel image keeps its table (`KernelTables`); each directory is a page of
the kernel above it (`Directories`). The heap pages to come are not in use. `FramesInv`, the
two together, is inductive; `Shape` is claimed while nothing is noted in `seen`, as the
properties are. Each step adds one place, removes one or keeps them all, which is what
`PagingRefinesAddressSpace` has to show.

Processes (`ProcessProofs`). `ProcessInv` is `CreationInv`, where a creation stands and that
its directory is one of those made, with `FramesInv` from the start to the last mapping of
a creation: every step up to there is a call of `Paging` or keeps the places as one does
(`CodeFrames`, where the page of the program moves within the kernel image, which is at no
place). Then the tables get entries no frame was taken for, the page of the process
structure mapped to the slot's address and the kernel's half copied into the directory, and
`Unique` and `Taken` are false of them. From there `ProcessInv` says that the frames would
have their shape without those entries: there is a state, with the same pool and tables
equal but for them, of which `FramesShapeOf` holds, and the real state `StandsFor` it
(`Standing`). That is enough: no entry of the kernel's directory differs, nor any table but
one of the process, at one entry, and the kernel image's. `ProcessInv` is inductive; it
gives `KernelPagesKeptHolds` step by step and `ProcessPagesApartHolds` state by state,
because each frame of `TablesOf` or `PagesOf` is at a place of that process's directory
(`TablePlace`, `PagePlace`) and no frame is at two (`PlaceFacts`). `Standing` is
existential over states, so TLC does not evaluate it: what it checks are the properties
that follow.

`FramesInv` says nothing once something is noted in `seen`, but `SwitchKeepsKernel`,
`DirectoryFrameRecorded` and `TempSlotRestored` are claimed there as well. They rest on
less, which holds throughout (`TablesInv`): what a mistake spoils is where a page leads, never
where a table does. Tables and directories have their frames to themselves, free frames
hold what they held at first, and the page of each directory, above the kernel image, is
mapped to the directory's own frame (`TablesShape`, `Layout`). Each function of `Paging`
keeps that or adds one table or one page; `create_pdt` then records that frame unless the
page table it had to add has changed the static array, `set_current_pd` copies the kernel's
entries into a frame that is no table of the kernel, so that they are equal when CR3 is
loaded, and the temporary slot is not touched. Without it the last two could not be
separated: a directory in the frame of the kernel's own table would be overwritten while
it is being copied.

Words (`WordsProofs`). At every step the dividend asked for is the divisor times the
quotient so far plus what is left of the dividend, and the shifted divisor is the divisor
times the power of two kept beside it. Powers of two are the smallest set that contains 1
and is closed under doubling; that halving stays in the set is a lemma about it. `RoundsRight` and
`UnitsHoldRequest` need the definition of division only.
`WordsSpec` is a caller that divides any two words; the calls of `Console` are such calls.

Console (`ConsoleProofs`). `serial_write` waits for an empty FIFO before every byte, so the
FIFO holds at most the byte written last (`FifoHoldsLast`), and between two strings that is
the last byte of one (`StringsEnd`): clearing the FIFO cannot cost more. For the order, the
bytes written and those still to come are one sequence in order (`StringsInOrder`).
`SerialInv`, these with the types and `OnlyLastByteLost`, is inductive. `OnlyLastByteLost` says
by places what a filtered sequence would say recursively.

For `printf`, `Following` says that what is out, and what `Printed` makes of the rest of the
format with the next argument, are together what `Reference` gives (`OutFollows`); while a
number is divided, the sign, the notation of what is left and the buffer read backwards
stand between the two. A digit step moves the last digit of a notation to the buffer, and is
right because the division is (`IInv` of `WordsProofs`); for the smallest int, whose 64-bit
extension is negative, because only the lower word counts (`NumberFacts`). That there is
always an argument left is `RestFollows`: a conversion is two characters. `CursorFollows`
holds because a word is a multiple of a short, so that the position keeps in step with the
length of the output when it wraps. `FormatInv`, `Following` as long as nothing else was called
and the format has no length modifier, is inductive. `Decimal` and `Printed` are recursive
functions: that their recursions define what they say (`DecimalNotation`, `PrintedRows`) is
proved from the least element of a set of numbers (`Recursion`), not from an induction
theorem.

## 13. What is only model-checked

- Liveness (`CallReturns` of the allocator and of the heap, `KeysAreRead`, `CallsReturn`,
  and of `PageFaultHalts` that the processor does halt) and everything under fairness: out
  of the reach of the prover.

Not modelled at all, with the reason for each in `PROJECT.json`: segmentation,
multiboot, the scheduler (an empty file) and the user programs.
