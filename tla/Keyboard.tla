------------------------------- MODULE Keyboard -------------------------------
(***************************************************************************)
(* The keyboard (src/hardware/keyboard.c) with what delivers its           *)
(* interrupts: the keyboard controller, IRQ 1 of the master PIC            *)
(* (src/interrupt/pic.c), the dispatch through a trap gate                 *)
(* (src/interrupt/idt.c, system_interrupt_handler.s) and the interrupt     *)
(* flag as kmain and enter_user_mode set it.                               *)
(*                                                                         *)
(* A trap gate leaves the interrupt flag on, so a handler may be           *)
(* interrupted by the next one: ctx is the stack of handlers entered and   *)
(* not returned from, and its top is what the processor runs.  The handler *)
(* is taken one ring buffer operation per step.                            *)
(***************************************************************************)
EXTENDS Integers, Sequences, FiniteSets

CONSTANTS
  KBD_BUFFER_SIZE, (* capacity of each ring buffer (1000)        *)
  MaxKeys          (* bound: scan codes the controller ever sends *)

ASSUME KeyboardAssumption ==
  /\ KBD_BUFFER_SIZE \in Nat \ {0}
  /\ MaxKeys \in Nat

(* Scan codes by what the conversion does with them *)
Letter == "letter"       (* shift or caps lock changes it *)
Symbol == "symbol"       (* shift changes it              *)
Space == "space"         (* printed as it is              *)
Shift == "shift"         (* either shift key              *)
Unshift == "unshift"     (* release of either             *)
Caps == "caps"
Other == "other"         (* not converted                 *)
Scancodes == {Letter, Symbol, Space, Shift, Unshift, Caps, Other}
Printing == {Letter, Symbol, Space}

(* A character is its key and whether it is the upper one. *)
KBD_UNUSED_SCANCODE == <<Other, FALSE>>
Chars == (Printing \X BOOLEAN) \union {KBD_UNUSED_SCANCODE}

Slots == 0 .. KBD_BUFFER_SIZE - 1

VARIABLES
  kbd_scancode_buffer, kbd_char_buffer,  (* struct RING_BUFFER                *)
  is_shift_key_on, is_caps_lock_on,
  keys,    (* scan codes the controller holds, the one at its port first       *)
  irr,     (* PIC: an edge on IRQ 1 waits to be delivered                      *)
  isr,     (* PIC: IRQ 1 is in service until acknowledged                      *)
  iflag,   (* the interrupt flag of the processor                              *)
  main,    (* how far kmain is                                                 *)
  ctx,     (* handlers entered, innermost last: next step and converted char   *)
  taken,   (* history: scan codes read from the port                           *)
  out,     (* history: characters keyboard_write took from the buffer          *)
  early    (* history: a key was pressed before the PIC was installed          *)

rings == <<kbd_scancode_buffer, kbd_char_buffer>>
modifiers == <<is_shift_key_on, is_caps_lock_on>>
hardware == <<keys, irr, isr, iflag>>
vars == <<rings, modifiers, hardware, main, ctx, taken, out, early>>

EmptyRing(filler) ==
  [buffer |-> [s \in Slots |-> filler], head |-> 0, tail |-> 0, count |-> 0]

(* mutant of After: no wrap at the end of the buffer *)
AfterNoWrap(s) == s + 1

(* The pointer after s: the end of the buffer is followed by its start. *)
After(s) == IF s + 1 = KBD_BUFFER_SIZE THEN 0 ELSE s + 1

Put(ring, x) ==
  [buffer |-> [ring.buffer EXCEPT ![ring.tail] = x], head |-> ring.head,
   tail |-> After(ring.tail), count |-> ring.count + 1]

Drop(ring) ==
  [buffer |-> ring.buffer, head |-> After(ring.head),
   tail |-> ring.tail, count |-> ring.count - 1]

Init ==
  /\ kbd_scancode_buffer = EmptyRing(Other)
  /\ kbd_char_buffer = EmptyRing(KBD_UNUSED_SCANCODE)
  /\ is_shift_key_on = FALSE /\ is_caps_lock_on = FALSE
  /\ keys = <<>> /\ irr = FALSE /\ isr = FALSE /\ iflag = FALSE
  /\ main = "start"
  /\ ctx = <<>> /\ taken = <<>> /\ out = <<>>
  /\ early = FALSE

(***************************************************************************)
(* The keyboard controller and the PIC.                                    *)
(***************************************************************************)

(* A key is pressed or released.  The line rises when the port was empty. *)
KeyEvent(code) ==
  /\ Len(taken) + Len(keys) < MaxKeys
  /\ keys' = Append(keys, code)
  /\ irr' = (irr \/ keys = <<>>)
  /\ early' = (early \/ main = "start")
  /\ UNCHANGED <<rings, modifiers, isr, iflag, main, ctx, taken, out>>

(* The processor takes the interrupt and enters the handler of the trap gate. *)
Dispatch ==
  /\ iflag /\ irr /\ ~isr
  /\ irr' = FALSE /\ isr' = TRUE
  /\ ctx' = Append(ctx, [at |-> "enter", ch |-> KBD_UNUSED_SCANCODE])
  /\ UNCHANGED <<rings, modifiers, keys, iflag, main, taken, out, early>>

(***************************************************************************)
(* kmain                                                                   *)
(***************************************************************************)

MainStep(from, to) == ctx = <<>> /\ main = from /\ main' = to

(* ICW1 clears the request register; a line that is up already gives no edge. *)
install_pic ==
  /\ MainStep("start", "pic")
  /\ irr' = FALSE /\ isr' = FALSE
  /\ UNCHANGED <<rings, modifiers, keys, iflag, ctx, taken, out, early>>

install_keyboard ==
  /\ MainStep("pic", "installed")
  /\ kbd_scancode_buffer' =
       [kbd_scancode_buffer EXCEPT !.head = 0, !.tail = 0, !.count = 0]
  /\ kbd_char_buffer' =
       [kbd_char_buffer EXCEPT !.head = 0, !.tail = 0, !.count = 0]
  /\ UNCHANGED <<modifiers, hardware, ctx, taken, out, early>>

enable_interrupts ==
  /\ MainStep("installed", "running")
  /\ iflag' = TRUE
  /\ UNCHANGED <<rings, modifiers, keys, irr, isr, ctx, taken, out, early>>

(* cli, then pushf: the flags the iret of enter_user_mode loads have the flag off. *)
enter_user_mode ==
  /\ MainStep("running", "user")
  /\ iflag' = FALSE
  /\ UNCHANGED <<rings, modifiers, keys, irr, isr, ctx, taken, out, early>>

(***************************************************************************)
(* keyboard_interrupt_handler                                              *)
(***************************************************************************)

top == ctx[Len(ctx)]
At(step) == ctx # <<>> /\ top.at = step
GoTo(step) == ctx' = [ctx EXCEPT ![Len(ctx)].at = step]

(* mutant of Enter: the interrupt is acknowledged first *)
EnterAcknowledged ==
  /\ At("enter")
  /\ isr' = FALSE
  /\ GoTo(IF kbd_scancode_buffer.count < KBD_BUFFER_SIZE THEN "store" ELSE "ack")
  /\ UNCHANGED <<rings, modifiers, keys, irr, iflag, main, taken, out, early>>

(* With the buffer full the port is not read. *)
Enter ==
  /\ At("enter")
  /\ GoTo(IF kbd_scancode_buffer.count < KBD_BUFFER_SIZE THEN "store" ELSE "ack")
  /\ UNCHANGED <<rings, modifiers, hardware, main, taken, out, early>>

(* mutant of Store: the handler only fills the buffer, as its comment says *)
StoreOnly ==
  /\ At("store")
  /\ kbd_scancode_buffer' = Put(kbd_scancode_buffer, Head(keys))
  /\ taken' = Append(taken, Head(keys))
  /\ keys' = Tail(keys)
  /\ irr' = (irr \/ Len(keys) > 1)
  /\ GoTo("ack")
  /\ UNCHANGED <<kbd_char_buffer, modifiers, isr, iflag, main, out, early>>

(* keyboard_read_scan_code: reading the port lets the next code come up, or gives
   the last one again when there is none.  *)
Store ==
  /\ At("store")
  /\ LET code == IF keys # <<>> THEN Head(keys) ELSE taken[Len(taken)] IN
       /\ kbd_scancode_buffer' = Put(kbd_scancode_buffer, code)
       /\ taken' = Append(taken, code)
  /\ keys' = IF keys # <<>> THEN Tail(keys) ELSE keys
  /\ irr' = (irr \/ Len(keys) > 1)
  /\ GoTo("convert")
  /\ UNCHANGED <<kbd_char_buffer, modifiers, isr, iflag, main, out, early>>

(* keyboard_convert_scancode_to_ascii.  The case of caps lock runs on into that of
   the shift releases.  *)
Converted(code) ==
  CASE code = Letter -> <<code, is_shift_key_on \/ is_caps_lock_on>>
    [] code = Symbol -> <<code, is_shift_key_on>>
    [] code = Space  -> <<code, FALSE>>
    [] OTHER         -> KBD_UNUSED_SCANCODE

(* mutant of Modify: pressing caps lock again does not switch it off *)
ModifyCapsOn(code) ==
  /\ is_shift_key_on' =
       IF code = Shift THEN TRUE
       ELSE IF code \in {Caps, Unshift} THEN FALSE ELSE is_shift_key_on
  /\ is_caps_lock_on' = (is_caps_lock_on \/ code = Caps)

Modify(code) ==
  /\ is_shift_key_on' =
       IF code = Shift THEN TRUE
       ELSE IF code \in {Caps, Unshift} THEN FALSE ELSE is_shift_key_on
  /\ is_caps_lock_on' = IF code = Caps THEN ~is_caps_lock_on ELSE is_caps_lock_on

(* keyboard_read: the oldest scan code is converted ... *)
Convert ==
  /\ At("convert")
  /\ IF kbd_scancode_buffer.count # 0
       THEN LET code == kbd_scancode_buffer.buffer[kbd_scancode_buffer.head] IN
              /\ Modify(code)
              /\ ctx' = [ctx EXCEPT ![Len(ctx)] = [at |-> "drop", ch |-> Converted(code)]]
       ELSE GoTo("write") /\ UNCHANGED modifiers
  /\ UNCHANGED <<rings, hardware, main, taken, out, early>>

(* mutant of DropScancode: the head moves only past codes that were converted *)
DropConverted ==
  /\ At("drop")
  /\ IF top.ch # KBD_UNUSED_SCANCODE
       THEN kbd_scancode_buffer' = Drop(kbd_scancode_buffer)
       ELSE UNCHANGED kbd_scancode_buffer
  /\ GoTo(IF top.ch # KBD_UNUSED_SCANCODE /\ kbd_char_buffer.count < KBD_BUFFER_SIZE
            THEN "put" ELSE "write")
  /\ UNCHANGED <<kbd_char_buffer, modifiers, hardware, main, taken, out, early>>

(* ... and dropped, whatever it was, ... *)
DropScancode ==
  /\ At("drop")
  /\ kbd_scancode_buffer' = Drop(kbd_scancode_buffer)
  /\ GoTo(IF top.ch # KBD_UNUSED_SCANCODE /\ kbd_char_buffer.count < KBD_BUFFER_SIZE
            THEN "put" ELSE "write")
  /\ UNCHANGED <<kbd_char_buffer, modifiers, hardware, main, taken, out, early>>

(* ... and its character is put in the other buffer. *)
PutChar ==
  /\ At("put")
  /\ kbd_char_buffer' = Put(kbd_char_buffer, top.ch)
  /\ GoTo("write")
  /\ UNCHANGED <<kbd_scancode_buffer, modifiers, hardware, main, taken, out, early>>

(* keyboard_write takes one character from the buffer; its putchar is commented
   out.  *)
WriteChar ==
  /\ At("write")
  /\ IF kbd_char_buffer.count # 0
       THEN /\ out' = Append(out, kbd_char_buffer.buffer[kbd_char_buffer.head])
            /\ kbd_char_buffer' = Drop(kbd_char_buffer)
       ELSE UNCHANGED <<out, kbd_char_buffer>>
  /\ GoTo("ack")
  /\ UNCHANGED <<kbd_scancode_buffer, modifiers, hardware, main, taken, early>>

(* mutant of Acknowledge: the interrupt is not acknowledged *)
NoAcknowledge ==
  /\ At("ack")
  /\ GoTo("iret")
  /\ UNCHANGED <<rings, modifiers, hardware, main, taken, out, early>>

(* pic_acknowledge *)
Acknowledge ==
  /\ At("ack")
  /\ isr' = FALSE
  /\ GoTo("iret")
  /\ UNCHANGED <<rings, modifiers, keys, irr, iflag, main, taken, out, early>>

(* Back through common_interrupt_handler.  The flag was on when the handler was
   entered and is on again.  *)
Iret ==
  /\ At("iret")
  /\ ctx' = SubSeq(ctx, 1, Len(ctx) - 1)
  /\ UNCHANGED <<rings, modifiers, hardware, main, taken, out, early>>

Handler ==
  \/ Enter \/ Store \/ Convert \/ DropScancode \/ PutChar \/ WriteChar
  \/ Acknowledge \/ Iret

Boot == install_pic \/ install_keyboard \/ enable_interrupts

Next ==
  \/ \E code \in Scancodes : KeyEvent(code)
  \/ Dispatch
  \/ Handler
  \/ Boot
  \/ enter_user_mode

Spec == Init /\ [][Next]_vars

(* The processor executes kmain and the handlers and takes a pending interrupt at
   the next instruction.  kmain goes on to user mode unless it stays in its loops,
   so enter_user_mode is not fair.  *)
FairSpec == Spec /\ WF_vars(Boot) /\ WF_vars(Handler) /\ WF_vars(Dispatch)

(* kmain has no loop that does not end: it does reach user mode. *)
UserSpec == FairSpec /\ WF_vars(enter_user_mode)

(***************************************************************************)
(* Properties.                                                             *)
(***************************************************************************)

RingOf(data) ==
  [buffer : [Slots -> data], head : Slots, tail : Slots, count : 0 .. KBD_BUFFER_SIZE]

(* The shape of the state: heads and tails stay in their buffers and counts within
   their size.  *)
TypeOK ==
  /\ kbd_scancode_buffer \in RingOf(Scancodes)
  /\ kbd_char_buffer \in RingOf(Chars)
  /\ is_shift_key_on \in BOOLEAN /\ is_caps_lock_on \in BOOLEAN
  /\ keys \in Seq(Scancodes)
  /\ irr \in BOOLEAN /\ isr \in BOOLEAN /\ iflag \in BOOLEAN
  /\ main \in {"start", "pic", "installed", "running", "user"}
  /\ ctx \in Seq([at : {"enter", "store", "convert", "drop", "put", "write", "ack",
                        "iret"}, ch : Chars])
  /\ taken \in Seq(Scancodes)
  /\ out \in Seq(Chars)
  /\ early \in BOOLEAN

AtWork == {c \in 1 .. Len(ctx) : ctx[c].at # "iret"}

(* A handler that interrupts another finds it past its acknowledgement: however
   deep the handlers nest, only the innermost touches the ring buffers, and the
   modifier flags it read cannot change under it.  *)
OneHandlerAtWork ==
  /\ AtWork \subseteq {Len(ctx)}
  /\ isr <=> AtWork # {}

(* When no handler is at work both ring buffers are empty, so the next handler
   finds room: it always reads the port, without which no further interrupt would
   come.  *)
RingsDrained ==
  AtWork = {} =>
    /\ kbd_scancode_buffer.count = 0
    /\ kbd_scancode_buffer.head = kbd_scancode_buffer.tail
    /\ kbd_char_buffer.count = 0
    /\ kbd_char_buffer.head = kbd_char_buffer.tail

(* A scan code at the port always has an interrupt on its way or a handler about to
   read it, unless it was there before the PIC was installed.  *)
NoLostInterrupt ==
  keys # <<>> /\ ~early => irr \/ At("enter") \/ At("store")

(* What the modifiers are when the scan code taken[k] is converted, told from the
   codes before it *)
ShiftBefore(k) ==
  \E j \in 1 .. k - 1 :
    taken[j] = Shift /\ \A l \in j + 1 .. k - 1 : taken[l] \notin {Unshift, Caps}

CapsBefore(k) == Cardinality({j \in 1 .. k - 1 : taken[j] = Caps}) % 2 = 1

CharOf(k) ==
  <<taken[k], CASE taken[k] = Letter -> ShiftBefore(k) \/ CapsBefore(k)
                [] taken[k] = Symbol -> ShiftBefore(k)
                [] OTHER             -> FALSE>>

(* The characters that come out are those of the scan codes read, each once, in
   the order the keys were pressed and with the modifiers as they were then,
   however the handlers nest.  *)
OutputInOrder ==
  AtWork = {} =>
    LET printed == {k \in 1 .. Len(taken) : taken[k] \in Printing} IN
    /\ Len(out) = Cardinality(printed)
    /\ \A k \in printed :
         out[Cardinality({j \in printed : j <= k})] = CharOf(k)

(* While the kernel runs with interrupts on, the port is emptied again and again:
   no key is left unread for ever.  *)
KeysAreRead == []<>(keys = <<>>) \/ <>(early \/ main = "user")

(* README.md:15: "OYES supports both hardware and software interrupts and the
   respective interrupt handling": a key pressed is read.  *)
HardwareInterruptsServed == []<>(keys = <<>>) \/ <>early

===============================================================================
