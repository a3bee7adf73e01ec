------------------------------ MODULE Interrupts ------------------------------
(***************************************************************************)
(* How interrupts are taken and returned from: the descriptor table        *)
(* (src/interrupt/idt.c), the assembly stubs around the C dispatcher       *)
(* (system_interrupt_handler.s, interrupt_handler.c), the master PIC       *)
(* (pic.c), the page fault handler (exceptions.c) and the order in which   *)
(* kmain sets them up.                                                     *)
(*                                                                         *)
(* The stack is a sequence of words and esp its length; addresses grow     *)
(* down, so adding 8 to an address takes two words away.  A trap gate      *)
(* leaves the interrupt flag on: whatever a handler is at, the next        *)
(* interrupt may come on top of it.  ctx holds the handlers entered and    *)
(* not returned from, innermost last.                                      *)
(***************************************************************************)
EXTENDS Integers, Sequences

CONSTANTS
  Lines,     (* lines of the master PIC that have a device; 1 is the keyboard *)
  Faults,    (* exceptions kmain's own code may meet                          *)
  MaxRaises  (* bound: how often devices raise a line                         *)

ASSUME InterruptsAssumption ==
  /\ Lines \subseteq 0 .. 7
  /\ Faults \subseteq 0 .. 20
  /\ MaxRaises \in Nat

PIC1_START_INTERRUPT == 32
KEYBOARD_INTERRUPT_NUMBER == PIC1_START_INTERRUPT + 1
PAGEFAULT_INTERRUPT_NUMBER == 14
KERNEL_CS == 8
NoFault == -1

(* mutant of Unmasked: the mask 0xFC, which lets the timer through as well *)
UnmaskedTimer == {0, 1}

(* The lines the mask 0xFD of install_pic lets through *)
Unmasked == {1}

(* Exceptions for which the processor pushes an error code *)
PushesErrorCode == {8} \union 10 .. 14 \union {17}

(* Vectors whose stub pushes no error code of its own *)
ErrorCodeStub == {8, 10, 11, 12, 13, 14, 17}

(* The order common_interrupt_handler pushes the registers in *)
SavedRegisters == <<"eax", "ebx", "ecx", "edx", "ebp", "esi", "edi">>
Registers == {SavedRegisters[i] : i \in 1 .. 7}
CalleeSaved == {"ebx", "ebp", "esi", "edi"}

VARIABLES
  main,      (* how far kmain is                                          *)
  fault,     (* the exception kmain's next instruction causes, or NoFault *)
  handlers,  (* interrupt_handlers: the vectors assigned, and to what     *)
  irr, isr, imr,  (* the PIC: lines requested, in service, masked         *)
  iflag,     (* the interrupt flag, 1 or 0                                *)
  regs, stack,
  ctx,       (* per handler: its next step, its vector, and as history
                the registers, stack and flag it interrupted              *)
  halted,    (* the processor waits in hlt                                *)
  raised     (* counts what devices raised                                *)

pic_vars == <<irr, isr, imr>>
cpu_vars == <<iflag, regs, stack, ctx, halted>>
vars == <<main, fault, handlers, pic_vars, cpu_vars, raised>>

Init ==
  /\ main = "start" /\ fault = NoFault
  /\ handlers = [v \in {} |-> ""]
  /\ irr = {} /\ isr = {} /\ imr = {}
  /\ iflag = 0
  /\ regs = [r \in Registers |-> 0] /\ stack = <<>>
  /\ ctx = <<>> /\ halted = FALSE
  /\ raised = 0

(***************************************************************************)
(* Devices and the processor.                                              *)
(***************************************************************************)

Raise(line) ==
  /\ raised < MaxRaises
  /\ raised' = raised + 1
  /\ irr' = irr \union {line}
  /\ UNCHANGED <<main, fault, handlers, isr, imr, cpu_vars>>

(* Through the gate of vector v: flags, code segment and return address are pushed,
   with an error code (here 99) for some exceptions.  The flag stays as it is.  *)
Enter(v) ==
  /\ stack' = stack \o <<iflag, KERNEL_CS, Len(ctx)>>
                    \o (IF v \in PushesErrorCode THEN <<99>> ELSE <<>>)
  /\ ctx' = Append(ctx, [at |-> "stub", vector |-> v,
                         regs |-> regs, stack |-> stack, iflag |-> iflag])
  /\ UNCHANGED <<iflag, regs>>

(* The PIC passes on its most urgent request that no line in service outranks; a
   processor that waits in hlt wakes up.  *)
Dispatch ==
  /\ iflag = 1
  /\ \E line \in irr \ imr :
       /\ \A l \in irr \ imr : line <= l
       /\ \A l \in isr : line < l
       /\ irr' = irr \ {line} /\ isr' = isr \union {line}
       /\ Enter(PIC1_START_INTERRUPT + line)
  /\ halted' = FALSE
  /\ UNCHANGED <<main, fault, handlers, imr, raised>>

(* The instruction kmain has reached faults, and does so again whenever it is
   executed again.  *)
Fault(v) ==
  /\ ctx = <<>> /\ fault = NoFault
  /\ main \in {"pic", "keyboard", "interrupts", "exceptions"}
  /\ fault' = v
  /\ UNCHANGED <<main, handlers, pic_vars, cpu_vars, raised>>

TakeFault ==
  /\ ctx = <<>> /\ fault # NoFault
  /\ Enter(fault)
  /\ UNCHANGED <<main, fault, handlers, pic_vars, halted, raised>>

(***************************************************************************)
(* kmain: install_idt, install_pic, install_keyboard, then the allocator   *)
(* and paging, enable_interrupts, enable_exceptions and user mode.         *)
(***************************************************************************)

MainStep(from, to) ==
  /\ ctx = <<>> /\ fault = NoFault
  /\ main = from /\ main' = to
  /\ UNCHANGED <<fault, regs, stack, ctx, halted, raised>>

assign_interrupt_handler(v, handler) ==
  handlers' = [u \in DOMAIN handlers \union {v} |->
                 IF u = v THEN handler ELSE handlers[u]]

(* ICW1 clears requests and masks. *)
install_pic ==
  /\ MainStep("start", "pic")
  /\ irr' = {} /\ isr' = {} /\ imr' = Lines \ Unmasked
  /\ UNCHANGED <<handlers, iflag>>

install_keyboard ==
  /\ MainStep("pic", "keyboard")
  /\ assign_interrupt_handler(KEYBOARD_INTERRUPT_NUMBER, "keyboard")
  /\ UNCHANGED <<pic_vars, iflag>>

enable_interrupts ==
  /\ MainStep("keyboard", "interrupts")
  /\ iflag' = 1
  /\ UNCHANGED <<handlers, pic_vars>>

enable_exceptions ==
  /\ MainStep("interrupts", "exceptions")
  /\ assign_interrupt_handler(PAGEFAULT_INTERRUPT_NUMBER, "pagefault")
  /\ UNCHANGED <<pic_vars, iflag>>

(* The flags pushed for the iret have the interrupt flag off. *)
enter_user_mode ==
  /\ MainStep("exceptions", "user")
  /\ iflag' = 0
  /\ UNCHANGED <<handlers, pic_vars>>

Boot ==
  \/ install_pic \/ install_keyboard \/ enable_interrupts \/ enable_exceptions
  \/ enter_user_mode

(***************************************************************************)
(* The handlers.                                                           *)
(***************************************************************************)

top == ctx[Len(ctx)]

HandlerStep(from, to) ==
  /\ ctx # <<>> /\ ~halted /\ top.at = from
  /\ ctx' = [ctx EXCEPT ![Len(ctx)] = [top EXCEPT !.at = to]]
  /\ UNCHANGED <<main, fault, handlers, irr, imr, raised>>

Stub ==
  /\ HandlerStep("stub", "save")
  /\ stack' = stack \o (IF top.vector \in ErrorCodeStub THEN <<>> ELSE <<0>>)
                    \o <<top.vector>>
  /\ UNCHANGED <<isr, iflag, regs, halted>>

(* mutant of SavedStackPointer: one word too few is skipped *)
SavedStackPointerByFour == Len(stack) - 1

(* push esp, then add 8 to the word pushed: past the vector and the error code *)
SavedStackPointer == Len(stack) - 2

Save ==
  /\ HandlerStep("save", "call")
  /\ stack' = stack \o <<SavedStackPointer>>
                    \o [i \in 1 .. 7 |-> regs[SavedRegisters[i]]]
  /\ UNCHANGED <<isr, iflag, regs, halted>>

(* interrupt_info.interrupt_number, where CPU_STATE and INTERRUPT_INFO put it *)
interrupt_number == stack[Len(stack) - 8]

(* interrupt_handler calls the handler assigned or reports that there is none.  The
   C code uses every register.  *)
interrupt_handler ==
  /\ HandlerStep("call", IF interrupt_number \in DOMAIN handlers
                           THEN handlers[interrupt_number] ELSE "report")
  /\ regs' = [r \in Registers |-> Len(ctx)]
  /\ UNCHANGED <<isr, iflag, stack, halted>>

(* C code gives back the registers the callee saves. *)
ReturnFromC ==
  regs' = [r \in Registers |-> IF r \in CalleeSaved THEN top.regs[r] ELSE Len(ctx)]

(* mutant of pic_acknowledge: the slave is acknowledged instead of the master *)
pic_acknowledge_slave == UNCHANGED isr

(* A non-specific end of interrupt ends the most urgent line in service. *)
pic_acknowledge == isr' = {l \in isr : \E k \in isr : k < l}

keyboard_interrupt_handler ==
  /\ HandlerStep("keyboard", "restore")
  /\ pic_acknowledge
  /\ ReturnFromC
  /\ UNCHANGED <<iflag, stack, halted>>

Report ==
  /\ HandlerStep("report", "restore")
  /\ ReturnFromC
  /\ UNCHANGED <<isr, iflag, stack, halted>>

(* mutant of pagefault_exception_handler: hlt without cli *)
pagefault_handler_no_cli ==
  /\ HandlerStep("pagefault", "restore")
  /\ halted' = TRUE
  /\ UNCHANGED <<isr, iflag, regs, stack>>

(* The message, then cli_and_halt *)
pagefault_exception_handler ==
  /\ HandlerStep("pagefault", "restore")
  /\ iflag' = 0 /\ halted' = TRUE
  /\ UNCHANGED <<isr, regs, stack>>

(* The registers are popped in the opposite order, then esp. *)
Restore ==
  /\ HandlerStep("restore", "iret")
  /\ regs' = [r \in Registers |->
                LET i == CHOOSE j \in 1 .. 7 : SavedRegisters[j] = r IN
                  stack[Len(stack) - 7 + i]]
  /\ stack' = SubSeq(stack, 1, stack[Len(stack) - 7])
  /\ UNCHANGED <<isr, iflag, halted>>

Iret ==
  /\ ctx # <<>> /\ ~halted /\ top.at = "iret"
  /\ iflag' = stack[Len(stack) - 2]
  /\ stack' = SubSeq(stack, 1, Len(stack) - 3)
  /\ ctx' = SubSeq(ctx, 1, Len(ctx) - 1)
  /\ UNCHANGED <<main, fault, handlers, pic_vars, regs, halted, raised>>

Handler ==
  \/ Stub \/ Save \/ interrupt_handler
  \/ keyboard_interrupt_handler \/ Report \/ pagefault_exception_handler
  \/ Restore \/ Iret

Next ==
  \/ \E line \in Lines : Raise(line)
  \/ Dispatch
  \/ \E v \in Faults : Fault(v)
  \/ TakeFault
  \/ Boot
  \/ Handler

Spec == Init /\ [][Next]_vars

(* The processor executes kmain and the handlers and takes what interrupts it;
   devices need raise nothing and no instruction need fault.  *)
FairSpec ==
  Spec /\ WF_vars(Boot) /\ WF_vars(TakeFault) /\ WF_vars(Handler) /\ WF_vars(Dispatch)

(***************************************************************************)
(* Properties.                                                             *)
(***************************************************************************)

(* Code that was interrupted goes on with the registers, the stack and the flag it
   had, and at the instruction it had reached, however the handlers nest and whether
   or not the processor pushed an error code.  *)
ResumesAsInterrupted ==
  [][Len(ctx') < Len(ctx) =>
       /\ regs' = top.regs /\ stack' = top.stack /\ iflag' = top.iflag
       /\ stack[Len(stack)] = Len(ctx')]_vars

(* A line in service has a handler entered that is yet to acknowledge it, so the
   PIC never holds lines back for ever; interrupt_handler does not acknowledge what
   it has no handler for.  *)
LinesReleased ==
  \A l \in isr : \E c \in 1 .. Len(ctx) :
    /\ ctx[c].vector = PIC1_START_INTERRUPT + l
    /\ ctx[c].at \in {"stub", "save", "call", "keyboard"}

(* No hardware interrupt ends in the message of interrupt_handler: printf and the
   cursor are never entered by a device while kmain is in them.  *)
DevicesDoNotPrint ==
  \A c \in 1 .. Len(ctx) : ctx[c].at = "report" => ctx[c].vector < PIC1_START_INTERRUPT

(* From enable_exceptions on a page fault stops the processor for good: keyboard
   interrupts may come before the handler gets to cli_and_halt, none wakes the
   processor after.  *)
PageFaultHalts ==
  /\ fault = PAGEFAULT_INTERRUPT_NUMBER /\ main = "exceptions" ~> halted
  /\ [][halted => halted']_vars

===============================================================================
