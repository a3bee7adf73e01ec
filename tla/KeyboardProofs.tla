---------------------------- MODULE KeyboardProofs ----------------------------
(***************************************************************************)
(* Theorems about Keyboard, for every buffer size and every number of key  *)
(* events.                                                                 *)
(***************************************************************************)
EXTENDS Keyboard, SequenceTheorems, FiniteSetTheorems, TLAPS

Steps == {"enter", "store", "convert", "drop", "put", "write", "ack", "iret"}
Contexts == [at : Steps, ch : Chars]

(* What the processor does next: a step of the innermost handler, or nothing of
   the handlers' work, whether none is entered or the innermost only has to return. *)
Stage == IF ctx = <<>> THEN "iret" ELSE top.at

(***************************************************************************)
(* The inductive invariant.                                                *)
(***************************************************************************)

Drained(ring) == ring.count = 0 /\ ring.head = ring.tail
Holding(ring) == ring.count = 1 /\ ring.tail = After(ring.head)

(* A buffer holds at most the one element its handler is about to take.  Of this
   RingsDrained is the case of no handler at work, and Enter needs it to read
   the port.  *)
RingsInv ==
  /\ Stage \in {"convert", "drop"} => Holding(kbd_scancode_buffer)
  /\ Stage \notin {"convert", "drop"} => Drained(kbd_scancode_buffer)
  /\ Drained(kbd_char_buffer) \/ (Stage = "write" /\ Holding(kbd_char_buffer))

(* An interrupt means a scan code at the port, so that none is read twice, and,
   after an orderly boot, a scan code at the port means an interrupt.  *)
PortInv ==
  /\ irr => keys # <<>>
  /\ Stage \in {"enter", "store"} => keys # <<>> /\ ~irr
  /\ keys # <<>> /\ ~early => irr \/ Stage \in {"enter", "store"}
  /\ main = "start" /\ ~early => keys = <<>>

IInv == TypeOK /\ OneHandlerAtWork /\ RingsInv /\ PortInv

(***************************************************************************)
(* Lemmas about the stack of handlers and the ring buffers.                *)
(***************************************************************************)

(* With the handlers below at their return, isr tells whether one is at work. *)
LEMMA StageProperties ==
  ASSUME TypeOK, OneHandlerAtWork
  PROVE  /\ ctx \in Seq(Contexts) /\ Len(ctx) \in Nat
         /\ ctx # <<>> => Len(ctx) \in Nat \ {0} /\ top \in Contexts
         /\ Stage \in Steps
         /\ isr <=> Stage # "iret"
         /\ AtWork = {} <=> Stage = "iret"
         /\ \A k \in 1 .. Len(ctx) - 1 : ctx[k].at = "iret"
<1>1. ctx \in Seq(Contexts)
  BY DEF TypeOK, Contexts, Steps
<1>2. Len(ctx) \in Nat /\ (ctx # <<>> => Len(ctx) \in Nat \ {0})
  BY <1>1, LenProperties, EmptySeq
<1>3. ctx # <<>> => top \in Contexts
  BY <1>1, <1>2, ElementOfSeq DEF top
<1>4. Stage \in Steps
  BY <1>3 DEF Stage, Contexts, Steps
<1>5. AtWork = {} <=> Stage = "iret"
  <2>1. CASE ctx = <<>>
    <3>1. Len(ctx) = 0
      BY <2>1, EmptySeq
    <3>2. QED
      BY <2>1, <3>1 DEF AtWork, Stage
  <2>2. CASE ctx # <<>>
    <3>1. Len(ctx) \in AtWork <=> top.at # "iret"
      BY <2>2, <1>2 DEF AtWork, top
    <3>2. AtWork \subseteq {Len(ctx)}
      BY DEF OneHandlerAtWork
    <3>3. QED
      BY <2>2, <3>1, <3>2 DEF Stage
  <2>3. QED
    BY <2>1, <2>2
<1>6. \A k \in 1 .. Len(ctx) - 1 : ctx[k].at = "iret"
  BY <1>2 DEF OneHandlerAtWork, AtWork
<1>7. QED
  BY <1>1, <1>2, <1>3, <1>4, <1>5, <1>6 DEF OneHandlerAtWork

(* A handler at work that goes on to another step stays the only one, and one that
   goes on to its return is no longer at work.  *)
LEMMA AdvanceProperties ==
  ASSUME TypeOK, OneHandlerAtWork, Stage # "iret",
         NEW step \in Steps, NEW ch \in Chars,
         ctx' = [ctx EXCEPT ![Len(ctx)] = [at |-> step, ch |-> ch]],
         isr' <=> step # "iret"
  PROVE  /\ ctx' \in Seq(Contexts)
         /\ ctx' # <<>>
         /\ top' = [at |-> step, ch |-> ch]
         /\ Stage' = step
         /\ OneHandlerAtWork'
<1> DEFINE c == [at |-> step, ch |-> ch]
           n == Len(ctx)
<1>1. ctx \in Seq(Contexts) /\ ctx # <<>> /\ n \in Nat \ {0}
      /\ \A k \in 1 .. n - 1 : ctx[k].at = "iret"
  BY StageProperties DEF Stage
<1>2. c \in Contexts
  BY DEF Contexts
<1>3. n \in 1 .. n
  BY <1>1
<1>4. /\ ctx' \in Seq(Contexts) /\ Len(ctx') = n
      /\ \A k \in 1 .. n : ctx'[k] = IF k = n THEN c ELSE ctx[k]
  BY <1>1, <1>2, <1>3, ExceptSeq
<1>5. ctx' # <<>>
  BY <1>4, <1>1, EmptySeq
<1>6. top' = c
  BY <1>4, <1>3 DEF top
<1>7. Stage' = step
  BY <1>5, <1>6 DEF Stage
<1>8. ASSUME NEW k \in 1 .. n
      PROVE  ctx'[k].at # "iret" <=> k = n /\ step # "iret"
  <2>1. CASE k = n
    BY <2>1, <1>4
  <2>2. CASE k # n
    <3>1. ctx'[k] = ctx[k]
      BY <2>2, <1>4
    <3>2. k \in 1 .. n - 1
      BY <2>2, <1>1
    <3>3. QED
      BY <2>2, <3>1, <3>2, <1>1
  <2>3. QED
    BY <2>1, <2>2
<1>9. AtWork' = {k \in 1 .. n : ctx'[k].at # "iret"}
  BY <1>4 DEF AtWork
<1>10. AtWork' = IF step # "iret" THEN {n} ELSE {}
  BY <1>3, <1>8, <1>9
<1>11. QED
  BY <1>4, <1>5, <1>6, <1>7, <1>10 DEF OneHandlerAtWork

(* GoTo keeps the character of the handler. *)
LEMMA GoToProperties ==
  ASSUME TypeOK, OneHandlerAtWork, Stage # "iret",
         NEW step \in Steps, GoTo(step), isr' <=> step # "iret"
  PROVE  /\ ctx' \in Seq(Contexts)
         /\ Stage' = step
         /\ OneHandlerAtWork'
<1>1. ctx # <<>> /\ top \in Contexts /\ ctx \in Seq(Contexts) /\ Len(ctx) \in Nat \ {0}
  BY StageProperties DEF Stage
<1>2. [top EXCEPT !.at = step] = [at |-> step, ch |-> top.ch] /\ top.ch \in Chars
  BY <1>1 DEF Contexts
<1>3. ctx' = [ctx EXCEPT ![Len(ctx)] = [at |-> step, ch |-> top.ch]]
  BY <1>2 DEF GoTo, top
<1>4. QED
  BY <1>2, <1>3, AdvanceProperties

(* What leaves the stack of handlers alone leaves alone what is told from it. *)
LEMMA SameStage ==
  ASSUME OneHandlerAtWork, ctx' = ctx, isr' = isr
  PROVE  Stage' = Stage /\ OneHandlerAtWork'
BY DEF Stage, top, OneHandlerAtWork, AtWork

(* Putting into a drained buffer and taking from it come back to where they began. *)
LEMMA RingProperties ==
  ASSUME NEW D, NEW ring \in RingOf(D)
  PROVE  /\ \A x \in D : Drained(ring) =>
              Put(ring, x) \in RingOf(D) /\ Holding(Put(ring, x))
         /\ Holding(ring) => Drop(ring) \in RingOf(D) /\ Drained(Drop(ring))
<1>1. \A s \in Slots : After(s) \in Slots
  BY KeyboardAssumption DEF After, Slots
<1>2. 1 \in 0 .. KBD_BUFFER_SIZE /\ 0 \in 0 .. KBD_BUFFER_SIZE
  BY KeyboardAssumption
<1>3. ASSUME NEW x \in D, Drained(ring)
      PROVE  Put(ring, x) \in RingOf(D) /\ Holding(Put(ring, x))
  BY <1>1, <1>2, <1>3 DEF Put, RingOf, Drained, Holding
<1>4. ASSUME Holding(ring) PROVE Drop(ring) \in RingOf(D) /\ Drained(Drop(ring))
  <2>1. ring.count - 1 = 0
    BY <1>4 DEF Holding
  <2>2. QED
    BY <1>1, <1>2, <1>4, <2>1 DEF Drop, RingOf, Drained, Holding
<1>5. QED
  BY <1>3, <1>4

(***************************************************************************)
(* The invariant is inductive.                                             *)
(***************************************************************************)

LEMMA InitIInv == Init => IInv
<1> SUFFICES ASSUME Init PROVE IInv
  OBVIOUS
<1>1. 0 \in Slots /\ 0 \in 0 .. KBD_BUFFER_SIZE
  BY KeyboardAssumption DEF Slots
<1>2. Len(ctx) = 0 /\ keys = <<>>
  BY EmptySeq DEF Init
<1>3. EmptyRing(Other) \in RingOf(Scancodes)
  BY <1>1 DEF EmptyRing, RingOf, Scancodes
<1>4. EmptyRing(KBD_UNUSED_SCANCODE) \in RingOf(Chars)
  BY <1>1 DEF EmptyRing, RingOf, Chars
<1>5. TypeOK
  BY <1>3, <1>4, EmptySeq DEF Init, TypeOK
<1>6. OneHandlerAtWork
  BY <1>2 DEF Init, OneHandlerAtWork, AtWork
<1>7. RingsInv
  <2>1. Drained(kbd_scancode_buffer) /\ Drained(kbd_char_buffer)
    BY DEF Init, Drained, EmptyRing
  <2>2. Stage = "iret"
    BY DEF Init, Stage
  <2>3. QED
    BY <2>1, <2>2 DEF RingsInv, Drained, Holding
<1>8. PortInv
  BY DEF Init, PortInv, Stage
<1>9. QED
  BY <1>5, <1>6, <1>7, <1>8 DEF IInv

(* An interrupt enters a handler on top of those that only have to return. *)
LEMMA DispatchProperties ==
  ASSUME TypeOK, OneHandlerAtWork, Dispatch
  PROVE  /\ Len(ctx) \in Nat /\ AtWork = {} /\ Stage = "iret" /\ Stage' = "enter"
         /\ ctx' \in Seq(Contexts) /\ Len(ctx') = Len(ctx) + 1
         /\ (\A k \in 1 .. Len(ctx) : ctx'[k] = ctx[k])
         /\ ctx'[Len(ctx) + 1] = [at |-> "enter", ch |-> KBD_UNUSED_SCANCODE]
<1> DEFINE c == [at |-> "enter", ch |-> KBD_UNUSED_SCANCODE]
           n == Len(ctx)
<1>1. ctx \in Seq(Contexts) /\ n \in Nat /\ AtWork = {} /\ Stage = "iret"
  BY StageProperties DEF Dispatch
<1>2. c \in Contexts
  BY DEF Contexts, Steps, Chars
<1>3. ctx' = Append(ctx, c)
  BY DEF Dispatch
<1>4. /\ ctx' \in Seq(Contexts) /\ Len(ctx') = n + 1
      /\ (\A k \in 1 .. n : ctx'[k] = ctx[k])
      /\ ctx'[n + 1] = c
  <2> HIDE DEF c
  <2>1. QED
    BY <1>1, <1>2, <1>3, AppendProperties
<1>5. Stage' = "enter"
  <2>1. ctx' # <<>>
    BY <1>1, <1>4, EmptySeq
  <2>2. QED
    BY <1>4, <2>1 DEF Stage, top
<1>6. QED
  BY <1>1, <1>4, <1>5

(* The keyboard controller and the delivery of its interrupt *)
LEMMA HardwareIInv ==
  ASSUME IInv, (\E code \in Scancodes : KeyEvent(code)) \/ Dispatch
  PROVE  IInv'
<1> USE DEF IInv
<1>1. ASSUME NEW code \in Scancodes, KeyEvent(code) PROVE IInv'
  <2>1. keys' \in Seq(Scancodes) /\ keys' # <<>>
    <3>1. Len(keys') = Len(keys) + 1 /\ keys' \in Seq(Scancodes) /\ Len(keys) \in Nat
      BY <1>1, AppendProperties, LenProperties DEF KeyEvent, TypeOK
    <3>2. QED
      BY <3>1, EmptySeq
  <2>2. Stage' = Stage /\ OneHandlerAtWork'
    BY <1>1, SameStage DEF KeyEvent
  <2>3. TypeOK'
    BY <1>1, <2>1 DEF KeyEvent, TypeOK, rings, modifiers
  <2>4. RingsInv'
    BY <1>1, <2>2 DEF KeyEvent, RingsInv, rings
  <2>5. PortInv'
    BY <1>1, <2>1, <2>2 DEF KeyEvent, PortInv
  <2>6. QED
    BY <2>2, <2>3, <2>4, <2>5
<1>2. CASE Dispatch
  <2> DEFINE c == [at |-> "enter", ch |-> KBD_UNUSED_SCANCODE]
             n == Len(ctx)
  <2>1. n \in Nat /\ AtWork = {} /\ Stage = "iret" /\ Stage' = "enter"
        /\ ctx' \in Seq(Contexts) /\ Len(ctx') = n + 1
        /\ (\A k \in 1 .. n : ctx'[k] = ctx[k])
        /\ ctx'[n + 1] = c
    BY <1>2, DispatchProperties
  <2>2. AtWork' = {n + 1}
    <3>1. AtWork' = {k \in 1 .. n + 1 : ctx'[k].at # "iret"}
      BY <2>1 DEF AtWork
    <3>2. \A k \in 1 .. n : ctx'[k].at = "iret"
      BY <2>1 DEF AtWork
    <3>3. ctx'[n + 1].at # "iret"
      BY <2>1
    <3>4. QED
      BY <2>1, <3>1, <3>2, <3>3
  <2>3. OneHandlerAtWork'
    BY <1>2, <2>1, <2>2 DEF Dispatch, OneHandlerAtWork
  <2>4. TypeOK'
    BY <1>2, <2>1 DEF Dispatch, TypeOK, Contexts, Steps, rings, modifiers
  <2>5. RingsInv'
    BY <1>2, <2>1 DEF Dispatch, RingsInv, rings
  <2>6. PortInv'
    BY <1>2, <2>1 DEF Dispatch, PortInv
  <2>7. QED
    BY <2>3, <2>4, <2>5, <2>6
<1>3. QED
  BY <1>1, <1>2

(* The steps of kmain, which run only when no handler does *)
LEMMA MainIInv ==
  ASSUME IInv, Boot \/ enter_user_mode
  PROVE  IInv'
<1> USE DEF IInv, MainStep
<1>1. ctx = <<>> /\ ctx' = <<>>
  BY DEF Boot, install_pic, install_keyboard, enable_interrupts, enter_user_mode
<1>2. Stage = "iret" /\ Stage' = "iret" /\ ~isr
  BY <1>1, StageProperties DEF Stage
<1>3. OneHandlerAtWork'
  <2>1. Len(ctx') = 0
    BY <1>1, EmptySeq
  <2>2. AtWork' = {}
    BY <2>1 DEF AtWork
  <2>3. ~isr'
    BY <1>2 DEF Boot, install_pic, install_keyboard, enable_interrupts,
                enter_user_mode, hardware
  <2>4. QED
    BY <2>2, <2>3 DEF OneHandlerAtWork
<1>4. CASE install_pic
  <2>1. TypeOK'
    BY <1>4 DEF install_pic, TypeOK, rings, modifiers
  <2>2. RingsInv'
    BY <1>4, <1>2 DEF install_pic, RingsInv, rings
  <2>3. PortInv'
    BY <1>4, <1>2 DEF install_pic, PortInv
  <2>4. QED
    BY <1>3, <2>1, <2>2, <2>3
<1>5. CASE install_keyboard
  <2>1. 0 \in Slots /\ 0 \in 0 .. KBD_BUFFER_SIZE
    BY KeyboardAssumption DEF Slots
  <2>2. kbd_scancode_buffer' \in RingOf(Scancodes) /\ kbd_char_buffer' \in RingOf(Chars)
    BY <1>5, <2>1 DEF install_keyboard, TypeOK, RingOf
  <2>3. TypeOK'
    BY <1>5, <2>2 DEF install_keyboard, TypeOK, modifiers, hardware
  <2>4. Drained(kbd_scancode_buffer') /\ Drained(kbd_char_buffer')
    BY <1>5 DEF install_keyboard, TypeOK, RingOf, Drained
  <2>5. RingsInv'
    BY <1>2, <2>4 DEF RingsInv, Drained, Holding
  <2>6. PortInv'
    BY <1>5, <1>2 DEF install_keyboard, PortInv, hardware
  <2>7. QED
    BY <1>3, <2>3, <2>5, <2>6
<1>6. CASE enable_interrupts \/ enter_user_mode
  <2>1. TypeOK'
    BY <1>6 DEF enable_interrupts, enter_user_mode, TypeOK, rings, modifiers
  <2>2. RingsInv'
    BY <1>6, <1>2 DEF enable_interrupts, enter_user_mode, RingsInv, rings
  <2>3. PortInv'
    BY <1>6, <1>2 DEF enable_interrupts, enter_user_mode, PortInv
  <2>4. QED
    BY <1>3, <2>1, <2>2, <2>3
<1>7. QED
  BY <1>4, <1>5, <1>6 DEF Boot

(* The steps of the innermost handler *)
LEMMA HandlerStage ==
  ASSUME IInv, NEW step \in Steps \ {"iret"}, At(step)
  PROVE  Stage = step /\ isr /\ ctx # <<>>
BY StageProperties DEF IInv, At, Stage

LEMMA EnterIInv == IInv /\ Enter => IInv'
<1> SUFFICES ASSUME IInv, Enter PROVE IInv'
  OBVIOUS
<1> USE DEF IInv
<1>1. Stage = "enter" /\ isr /\ isr'
  BY HandlerStage DEF Enter, Steps, hardware
<1>2. GoTo("store")
  BY <1>1, KeyboardAssumption DEF Enter, RingsInv, Drained
<1>3. ctx' \in Seq(Contexts) /\ Stage' = "store" /\ OneHandlerAtWork'
  BY <1>1, <1>2, GoToProperties DEF Steps
<1>4. TypeOK'
  BY <1>3 DEF Enter, TypeOK, Contexts, Steps, rings, modifiers, hardware
<1>5. RingsInv'
  BY <1>1, <1>3 DEF Enter, RingsInv, rings
<1>6. PortInv'
  BY <1>1, <1>3 DEF Enter, PortInv, hardware
<1>7. QED
  BY <1>3, <1>4, <1>5, <1>6

LEMMA StoreIInv == IInv /\ Store => IInv'
<1> SUFFICES ASSUME IInv, Store PROVE IInv'
  OBVIOUS
<1> USE DEF IInv
<1>1. Stage = "store" /\ isr /\ isr'
  BY HandlerStage DEF Store, Steps
<1>2. ctx' \in Seq(Contexts) /\ Stage' = "convert" /\ OneHandlerAtWork'
  BY <1>1, GoToProperties DEF Store, Steps
<1>3. keys \in Seq(Scancodes) /\ keys # <<>> /\ ~irr
  BY <1>1 DEF PortInv, TypeOK
<1>4. /\ Head(keys) \in Scancodes /\ keys' \in Seq(Scancodes)
      /\ Len(keys) \in Nat /\ Len(keys') = Len(keys) - 1
  BY <1>3, HeadTailProperties, LenProperties DEF Store
<1>5. irr' <=> keys' # <<>>
  <2>1. irr' <=> Len(keys) > 1
    BY <1>3 DEF Store
  <2>2. keys' # <<>> <=> Len(keys') # 0
    BY <1>4, EmptySeq
  <2>3. Len(keys) # 0
    BY <1>3, EmptySeq
  <2>4. QED
    BY <1>4, <2>1, <2>2, <2>3
<1>6. /\ kbd_scancode_buffer' = Put(kbd_scancode_buffer, Head(keys))
      /\ taken' = Append(taken, Head(keys))
  BY <1>3 DEF Store
<1>7. kbd_scancode_buffer' \in RingOf(Scancodes) /\ Holding(kbd_scancode_buffer')
  BY <1>1, <1>4, <1>6, RingProperties DEF TypeOK, RingsInv
<1>8. TypeOK'
  <2>1. taken' \in Seq(Scancodes)
    BY <1>4, <1>6, AppendProperties DEF TypeOK
  <2>2. QED
    BY <1>2, <1>4, <1>5, <1>7, <2>1 DEF Store, TypeOK, Contexts, Steps, modifiers
<1>9. RingsInv'
  BY <1>1, <1>2, <1>7 DEF Store, RingsInv, Holding
<1>10. PortInv'
  BY <1>1, <1>2, <1>3, <1>5 DEF Store, PortInv
<1>11. QED
  BY <1>2, <1>8, <1>9, <1>10

LEMMA ConvertIInv == IInv /\ Convert => IInv'
<1> SUFFICES ASSUME IInv, Convert PROVE IInv'
  OBVIOUS
<1> USE DEF IInv
<1> DEFINE code == kbd_scancode_buffer.buffer[kbd_scancode_buffer.head]
<1>1. Stage = "convert" /\ isr /\ isr'
  BY HandlerStage DEF Convert, Steps, hardware
<1>2. kbd_scancode_buffer.count = 1 /\ code \in Scancodes
  BY <1>1 DEF RingsInv, Holding, TypeOK, RingOf
<1>3. /\ Modify(code)
      /\ ctx' = [ctx EXCEPT ![Len(ctx)] = [at |-> "drop", ch |-> Converted(code)]]
  BY <1>2 DEF Convert
<1>4. Converted(code) \in Chars
  BY <1>2 DEF Converted, Chars, Printing, TypeOK
<1>5. ctx' \in Seq(Contexts) /\ Stage' = "drop" /\ OneHandlerAtWork'
  BY <1>1, <1>3, <1>4, AdvanceProperties DEF Steps
<1>6. is_shift_key_on' \in BOOLEAN /\ is_caps_lock_on' \in BOOLEAN
  BY <1>3 DEF Modify, TypeOK
<1>7. TypeOK'
  BY <1>5, <1>6 DEF Convert, TypeOK, Contexts, Steps, rings, hardware
<1>8. RingsInv'
  BY <1>1, <1>5 DEF Convert, RingsInv, rings
<1>9. PortInv'
  BY <1>1, <1>5 DEF Convert, PortInv, hardware
<1>10. QED
  BY <1>5, <1>7, <1>8, <1>9

LEMMA DropScancodeIInv == IInv /\ DropScancode => IInv'
<1> SUFFICES ASSUME IInv, DropScancode PROVE IInv'
  OBVIOUS
<1> USE DEF IInv
<1>1. Stage = "drop" /\ isr /\ isr'
  BY HandlerStage DEF DropScancode, Steps, hardware
<1>2. PICK step \in {"put", "write"} : GoTo(step)
  BY DEF DropScancode
<1>3. ctx' \in Seq(Contexts) /\ Stage' = step /\ OneHandlerAtWork'
  BY <1>1, <1>2, GoToProperties DEF Steps
<1>4. kbd_scancode_buffer' \in RingOf(Scancodes) /\ Drained(kbd_scancode_buffer')
  BY <1>1, RingProperties DEF DropScancode, TypeOK, RingsInv
<1>5. TypeOK'
  BY <1>3, <1>4 DEF DropScancode, TypeOK, Contexts, Steps, modifiers, hardware
<1>6. RingsInv'
  BY <1>1, <1>3, <1>4 DEF DropScancode, RingsInv, Drained
<1>7. PortInv'
  BY <1>1, <1>3 DEF DropScancode, PortInv, hardware
<1>8. QED
  BY <1>3, <1>5, <1>6, <1>7

LEMMA PutCharIInv == IInv /\ PutChar => IInv'
<1> SUFFICES ASSUME IInv, PutChar PROVE IInv'
  OBVIOUS
<1> USE DEF IInv
<1>1. Stage = "put" /\ isr /\ isr'
  BY HandlerStage DEF PutChar, Steps, hardware
<1>2. ctx' \in Seq(Contexts) /\ Stage' = "write" /\ OneHandlerAtWork'
  BY <1>1, GoToProperties DEF PutChar, Steps
<1>3. top.ch \in Chars
  BY StageProperties, HandlerStage DEF PutChar, Contexts, Steps
<1>4. kbd_char_buffer' \in RingOf(Chars) /\ Holding(kbd_char_buffer')
  BY <1>1, <1>3, RingProperties DEF PutChar, TypeOK, RingsInv
<1>5. TypeOK'
  BY <1>2, <1>4 DEF PutChar, TypeOK, Contexts, Steps, modifiers, hardware
<1>6. RingsInv'
  BY <1>1, <1>2, <1>4 DEF PutChar, RingsInv, Holding
<1>7. PortInv'
  BY <1>1, <1>2 DEF PutChar, PortInv, hardware
<1>8. QED
  BY <1>2, <1>5, <1>6, <1>7

LEMMA WriteCharIInv == IInv /\ WriteChar => IInv'
<1> SUFFICES ASSUME IInv, WriteChar PROVE IInv'
  OBVIOUS
<1> USE DEF IInv
<1>1. Stage = "write" /\ isr /\ isr'
  BY HandlerStage DEF WriteChar, Steps, hardware
<1>2. ctx' \in Seq(Contexts) /\ Stage' = "ack" /\ OneHandlerAtWork'
  BY <1>1, GoToProperties DEF WriteChar, Steps
<1>3. /\ kbd_char_buffer' \in RingOf(Chars) /\ Drained(kbd_char_buffer')
      /\ out' \in Seq(Chars)
  <2>1. CASE kbd_char_buffer.count # 0
    <3>1. Holding(kbd_char_buffer)
      BY <2>1 DEF RingsInv, Drained
    <3>2. PICK c \in Chars : c = kbd_char_buffer.buffer[kbd_char_buffer.head]
      BY DEF TypeOK, RingOf
    <3>3. out' \in Seq(Chars)
      <4>1. out' = Append(out, c)
        BY <2>1, <3>2 DEF WriteChar
      <4>2. out \in Seq(Chars)
        BY DEF TypeOK
      <4>3. QED
        BY <4>1, <4>2, AppendProperties
    <3>4. QED
      BY <2>1, <3>1, <3>3, RingProperties DEF WriteChar, TypeOK
  <2>2. CASE kbd_char_buffer.count = 0
    BY <2>2 DEF WriteChar, TypeOK, RingsInv, Drained, Holding
  <2>3. QED
    BY <2>1, <2>2
<1>4. TypeOK'
  BY <1>2, <1>3 DEF WriteChar, TypeOK, Contexts, Steps, modifiers, hardware
<1>5. RingsInv'
  BY <1>1, <1>2, <1>3 DEF WriteChar, RingsInv, Drained
<1>6. PortInv'
  BY <1>1, <1>2 DEF WriteChar, PortInv, hardware
<1>7. QED
  BY <1>2, <1>4, <1>5, <1>6

LEMMA AcknowledgeIInv == IInv /\ Acknowledge => IInv'
<1> SUFFICES ASSUME IInv, Acknowledge PROVE IInv'
  OBVIOUS
<1> USE DEF IInv
<1>1. Stage = "ack" /\ ~isr'
  BY HandlerStage DEF Acknowledge, Steps
<1>2. ctx' \in Seq(Contexts) /\ Stage' = "iret" /\ OneHandlerAtWork'
  BY <1>1, GoToProperties DEF Acknowledge, Steps
<1>3. TypeOK'
  BY <1>1, <1>2 DEF Acknowledge, TypeOK, Contexts, Steps, rings, modifiers
<1>4. RingsInv'
  BY <1>1, <1>2 DEF Acknowledge, RingsInv, rings
<1>5. PortInv'
  BY <1>1, <1>2 DEF Acknowledge, PortInv
<1>6. QED
  BY <1>2, <1>3, <1>4, <1>5

(* The handler returned to, if any, only has to return itself. *)
LEMMA IretProperties ==
  ASSUME IInv, Iret
  PROVE  /\ Stage = "iret" /\ ~isr /\ ~isr'
         /\ ctx' \in Seq(Contexts)
         /\ AtWork' = {}
         /\ Stage' = "iret"
<1> USE DEF IInv
<1> DEFINE n == Len(ctx)
<1>1. /\ ctx \in Seq(Contexts) /\ n \in Nat \ {0} /\ ctx # <<>>
      /\ \A k \in 1 .. n - 1 : ctx[k].at = "iret"
  BY StageProperties DEF Iret, At
<1>2. Stage = "iret" /\ ~isr /\ ~isr'
  BY <1>1, StageProperties DEF Iret, At, Stage, hardware
<1>3. /\ ctx' \in Seq(Contexts) /\ Len(ctx') = n - 1
      /\ \A k \in 1 .. n - 1 : ctx'[k] = ctx[k]
  <2>1. PICK m \in Nat : m = n - 1
    BY <1>1
  <2>2. \A k \in 1 .. m : ctx[k] \in Contexts
    BY <1>1, <2>1, ElementOfSeq
  <2>3. /\ SubSeq(ctx, 1, m) \in Seq(Contexts)
        /\ Len(SubSeq(ctx, 1, m)) = IF 1 <= m THEN m - 1 + 1 ELSE 0
    BY <2>2, SubSeqProperties
  <2>4. \A k \in 1 .. m : SubSeq(ctx, 1, m)[k] = ctx[k]
    BY <1>1, <2>1
  <2>5. QED
    BY <2>1, <2>3, <2>4 DEF Iret
<1>4. AtWork' = {}
  <2>1. AtWork' = {k \in 1 .. n - 1 : ctx'[k].at # "iret"}
    BY <1>3 DEF AtWork
  <2>2. QED
    BY <1>1, <1>3, <2>1
<1>5. Stage' = "iret"
  <2>1. CASE ctx' = <<>>
    BY <2>1 DEF Stage
  <2>2. CASE ctx' # <<>>
    <3>1. Len(ctx') \in 1 .. n - 1 /\ Len(ctx') = n - 1
      BY <1>1, <1>3, <2>2, EmptySeq
    <3>2. ctx'[Len(ctx')] = ctx[Len(ctx')]
      BY <1>3, <3>1
    <3>3. QED
      BY <1>1, <2>2, <3>1, <3>2 DEF Stage, top
  <2>3. QED
    BY <2>1, <2>2
<1>6. QED
  BY <1>2, <1>3, <1>4, <1>5

LEMMA IretIInv == IInv /\ Iret => IInv'
<1> SUFFICES ASSUME IInv, Iret PROVE IInv'
  OBVIOUS
<1>1. /\ Stage = "iret" /\ ~isr /\ ~isr'
      /\ ctx' \in Seq(Contexts) /\ AtWork' = {} /\ Stage' = "iret"
  BY IretProperties
<1> USE DEF IInv
<1>2. OneHandlerAtWork'
  BY <1>1 DEF OneHandlerAtWork
<1>3. TypeOK'
  BY <1>1 DEF Iret, TypeOK, Contexts, Steps, rings, modifiers, hardware
<1>4. RingsInv'
  BY <1>1 DEF Iret, RingsInv, rings
<1>5. PortInv'
  BY <1>1 DEF Iret, PortInv, hardware
<1>6. QED
  BY <1>2, <1>3, <1>4, <1>5

LEMMA StepIInv == IInv /\ [Next]_vars => IInv'
<1> SUFFICES ASSUME IInv, [Next]_vars PROVE IInv'
  OBVIOUS
<1>1. CASE (\E code \in Scancodes : KeyEvent(code)) \/ Dispatch
  BY <1>1, HardwareIInv
<1>2. CASE Boot \/ enter_user_mode
  BY <1>2, MainIInv
<1>3. CASE Handler
  BY <1>3, EnterIInv, StoreIInv, ConvertIInv, DropScancodeIInv, PutCharIInv,
     WriteCharIInv, AcknowledgeIInv, IretIInv DEF Handler
<1>4. CASE UNCHANGED vars
  <2> USE <1>4 DEF IInv, vars, rings, modifiers, hardware
  <2>1. Stage' = Stage /\ OneHandlerAtWork'
    BY SameStage
  <2>2. TypeOK'
    BY DEF TypeOK
  <2>3. RingsInv'
    BY <2>1 DEF RingsInv
  <2>4. PortInv'
    BY <2>1 DEF PortInv
  <2>5. QED
    BY <2>1, <2>2, <2>3, <2>4
<1>5. QED
  BY <1>1, <1>2, <1>3, <1>4 DEF Next

(***************************************************************************)
(* The output.                                                             *)
(***************************************************************************)

(* What Keyboard's ShiftBefore, CapsBefore and CharOf say of the scan codes read,
   said of any sequence s of them *)
UpTo(s, D, n) == {k \in 1 .. n : s[k] \in D}
PrintedIn(s, n) == UpTo(s, Printing, n)

ShiftAt(s, k) ==
  \E j \in 1 .. k - 1 :
    s[j] = Shift /\ \A l \in j + 1 .. k - 1 : s[l] \notin {Unshift, Caps}

CapsAt(s, k) == Cardinality(UpTo(s, {Caps}, k - 1)) % 2 = 1

CharAt(s, k) ==
  <<s[k], CASE s[k] = Letter -> ShiftAt(s, k) \/ CapsAt(s, k)
            [] s[k] = Symbol -> ShiftAt(s, k)
            [] OTHER         -> FALSE>>

(* The characters o are those of the first n scan codes of s. *)
InOrder(o, s, n) ==
  /\ Len(o) = Cardinality(PrintedIn(s, n))
  /\ \A k \in PrintedIn(s, n) : o[Cardinality(PrintedIn(s, k))] = CharAt(s, k)

(* How many of the scan codes read have been converted, and written out *)
Converting == {"convert", "drop", "put", "write"}
Judged == IF Stage = "convert" THEN Len(taken) - 1 ELSE Len(taken)
Written == IF Stage \in Converting THEN Len(taken) - 1 ELSE Len(taken)
Latest == taken[Len(taken)]

(* Where the last scan code read is on its way from the port to the output.  The
   property speaks only of states with no handler at work; this says what each
   step of the one handler at work has got to.  *)
OrderInv ==
  /\ Stage \in Converting => taken # <<>>
  /\ InOrder(out, taken, Written)
  /\ is_shift_key_on = ShiftAt(taken, Judged + 1)
  /\ is_caps_lock_on = CapsAt(taken, Judged + 1)
  /\ Stage = "convert" => kbd_scancode_buffer.buffer[kbd_scancode_buffer.head] = Latest
  /\ Stage \in {"drop", "put"} =>
       top.ch = IF Latest \in Printing THEN CharAt(taken, Len(taken))
                ELSE KBD_UNUSED_SCANCODE
  /\ Stage = "put" => Latest \in Printing
  /\ Stage = "write" =>
       IF Latest \in Printing
         THEN /\ Holding(kbd_char_buffer)
              /\ kbd_char_buffer.buffer[kbd_char_buffer.head] = CharAt(taken, Len(taken))
         ELSE Drained(kbd_char_buffer)

(* One more scan code switches the shift state as the conversion does. *)
LEMMA ShiftStep ==
  ASSUME NEW s, NEW n \in Nat \ {0}
  PROVE  ShiftAt(s, n + 1) = IF s[n] = Shift THEN TRUE
                             ELSE IF s[n] \in {Caps, Unshift} THEN FALSE
                             ELSE ShiftAt(s, n)
<1>1. n + 1 - 1 = n
  OBVIOUS
<1>2. ShiftAt(s, n + 1) <=>
        \E j \in 1 .. n : s[j] = Shift /\ \A l \in j + 1 .. n : s[l] \notin {Unshift, Caps}
  BY <1>1 DEF ShiftAt
<1>3. CASE s[n] = Shift
  BY <1>2, <1>3 DEF ShiftAt
<1>4. CASE s[n] \in {Caps, Unshift}
  <2>1. \A j \in 1 .. n : s[j] = Shift => n \in j + 1 .. n
    BY <1>4 DEF Shift, Caps, Unshift
  <2>2. QED
    BY <1>2, <1>4, <2>1 DEF ShiftAt, Shift, Caps, Unshift
<1>5. CASE s[n] # Shift /\ s[n] \notin {Caps, Unshift}
  <2>1. \A j \in 1 .. n : s[j] = Shift => j \in 1 .. n - 1
    BY <1>5
  <2>2. \A j \in 1 .. n - 1 :
          (\A l \in j + 1 .. n : s[l] \notin {Unshift, Caps})
          <=> \A l \in j + 1 .. n - 1 : s[l] \notin {Unshift, Caps}
    <3> SUFFICES ASSUME NEW j \in 1 .. n - 1,
                        \A l \in j + 1 .. n - 1 : s[l] \notin {Unshift, Caps},
                        NEW l \in j + 1 .. n
                 PROVE  s[l] \notin {Unshift, Caps}
      OBVIOUS
    <3>1. CASE l = n
      BY <1>5, <3>1
    <3>2. CASE l # n
      BY <3>2
    <3>3. QED
      BY <3>1, <3>2
  <2>3. ShiftAt(s, n + 1) <=> ShiftAt(s, n)
    BY <1>2, <2>1, <2>2 DEF ShiftAt
  <2>4. QED
    BY <1>5, <2>3 DEF ShiftAt
<1>6. QED
  BY <1>3, <1>4, <1>5

(* One more element that satisfies the condition adds one to the count. *)
LEMMA CountStep ==
  ASSUME NEW s, NEW D, NEW n \in Nat, NEW p \in Nat, p = n + 1
  PROVE  /\ IsFiniteSet(UpTo(s, D, n))
         /\ Cardinality(UpTo(s, D, n)) \in Nat
         /\ UpTo(s, D, p) = IF s[p] \in D THEN UpTo(s, D, n) \union {p} ELSE UpTo(s, D, n)
         /\ Cardinality(UpTo(s, D, p)) =
              IF s[p] \in D THEN Cardinality(UpTo(s, D, n)) + 1 ELSE Cardinality(UpTo(s, D, n))
<1>1. IsFiniteSet(1 .. n)
  BY FS_Interval
<1>2. IsFiniteSet(UpTo(s, D, n))
  BY <1>1, FS_Subset DEF UpTo
<1>3. UpTo(s, D, p) = IF s[p] \in D THEN UpTo(s, D, n) \union {p} ELSE UpTo(s, D, n)
  <2>1. ASSUME NEW j \in 1 .. p, j # p
        PROVE  j \in 1 .. n
    BY <2>1
  <2>2. QED
    BY <2>1 DEF UpTo
<1>4. p \notin UpTo(s, D, n)
  BY DEF UpTo
<1>5. Cardinality(UpTo(s, D, n)) \in Nat
  BY <1>2, FS_CardinalityType
<1>6. Cardinality(UpTo(s, D, n) \union {p}) = Cardinality(UpTo(s, D, n)) + 1
  BY <1>2, <1>4, FS_AddElement
<1>7. QED
  BY <1>2, <1>3, <1>5, <1>6

(* One more scan code switches caps lock as the conversion does. *)
LEMMA CapsStep ==
  ASSUME NEW s, NEW n \in Nat \ {0}
  PROVE  CapsAt(s, n + 1) = IF s[n] = Caps THEN ~CapsAt(s, n) ELSE CapsAt(s, n)
<1> DEFINE W == {Caps}
<1> HIDE DEF W
<1>1. PICK m \in Nat : m = n - 1 /\ n = m + 1
  OBVIOUS
<1>3. /\ Cardinality(UpTo(s, W, m)) \in Nat
      /\ Cardinality(UpTo(s, W, n)) =
           IF s[n] \in W THEN Cardinality(UpTo(s, W, m)) + 1
           ELSE Cardinality(UpTo(s, W, m))
  BY <1>1, CountStep
<1>4. n + 1 - 1 = n
  OBVIOUS
<1>5. PICK c \in Nat : c = Cardinality(UpTo(s, W, m))
  BY <1>3
<1>6. (CapsAt(s, n) <=> c % 2 = 1)
  BY <1>1, <1>5 DEF CapsAt, W
<1>7. CASE s[n] = Caps
  <2>1. CapsAt(s, n + 1) <=> (c + 1) % 2 = 1
    BY <1>3, <1>4, <1>5, <1>7 DEF CapsAt, W
  <2>2. (c + 1) % 2 = 1 <=> c % 2 # 1
    OBVIOUS
  <2>3. QED
    BY <1>6, <1>7, <2>1, <2>2 DEF CapsAt, W
<1>8. CASE s[n] # Caps
  <2>1. CapsAt(s, n + 1) <=> c % 2 = 1
    BY <1>3, <1>4, <1>5, <1>8 DEF CapsAt, W
  <2>2. QED
    BY <1>6, <1>8, <2>1 DEF CapsAt, W
<1>9. QED
  BY <1>7, <1>8

(* A scan code read later changes nothing of what is said of those before it. *)
LEMMA LaterCode ==
  ASSUME NEW s \in Seq(Scancodes), NEW code \in Scancodes
  PROVE  LET t == Append(s, code)
             n == Len(s)
         IN
         /\ \A k \in 0 .. n : PrintedIn(t, k) = PrintedIn(s, k)
         /\ \A k \in 1 .. n + 1 : ShiftAt(t, k) = ShiftAt(s, k)
         /\ \A k \in 1 .. n + 1 : CapsAt(t, k) = CapsAt(s, k)
         /\ \A k \in 1 .. n : CharAt(t, k) = CharAt(s, k)
<1> DEFINE t == Append(s, code)
           n == Len(s)
<1>1. n \in Nat /\ \A k \in 1 .. n : t[k] = s[k]
  BY LenProperties, AppendProperties
<1> HIDE DEF t, n
<1>2. \A k \in 0 .. n : PrintedIn(t, k) = PrintedIn(s, k)
  BY <1>1 DEF PrintedIn, UpTo
<1>3. ASSUME NEW k \in 1 .. n + 1 PROVE ShiftAt(t, k) = ShiftAt(s, k)
  <2>1. \A j \in 1 .. k - 1 : t[j] = s[j] /\ \A l \in j + 1 .. k - 1 : t[l] = s[l]
    BY <1>1
  <2>2. QED
    BY <2>1 DEF ShiftAt
<1>4. ASSUME NEW k \in 1 .. n + 1 PROVE CapsAt(t, k) = CapsAt(s, k)
  <2>1. UpTo(t, {Caps}, k - 1) = UpTo(s, {Caps}, k - 1)
    BY <1>1 DEF UpTo
  <2>2. QED
    BY <2>1 DEF CapsAt
<1>5. ASSUME NEW k \in 1 .. n PROVE CharAt(t, k) = CharAt(s, k)
  <2>1. k \in 1 .. n + 1 /\ t[k] = s[k]
    BY <1>1
  <2>2. QED
    BY <1>3, <1>4, <2>1 DEF CharAt
<1>6. QED
  BY <1>2, <1>3, <1>4, <1>5 DEF t, n

(* A scan code read and not written yet leaves the output as it should be. *)
LEMMA LaterOutput ==
  ASSUME NEW s \in Seq(Scancodes), NEW code \in Scancodes, NEW o, InOrder(o, s, Len(s))
  PROVE  InOrder(o, Append(s, code), Len(s))
<1> DEFINE t == Append(s, code)
           n == Len(s)
<1>1. n \in Nat
  BY LenProperties
<1>2. /\ \A k \in 0 .. n : PrintedIn(t, k) = PrintedIn(s, k)
      /\ \A k \in 1 .. n : CharAt(t, k) = CharAt(s, k)
  BY LaterCode
<1> HIDE DEF t, n
<1>3. PrintedIn(t, n) = PrintedIn(s, n)
  BY <1>1, <1>2
<1>4. \A k \in PrintedIn(s, n) : k \in 1 .. n /\ k \in 0 .. n
  BY <1>1 DEF PrintedIn, UpTo
<1>5. InOrder(o, t, n)
  BY <1>2, <1>3, <1>4 DEF InOrder, n
<1>6. QED
  BY <1>5 DEF t, n

(* The next scan code adds its character to the output if it is printed and
   nothing if it is not.  *)
LEMMA NextOutput ==
  ASSUME NEW s, NEW n \in Nat \ {0}, NEW o \in Seq(Chars), InOrder(o, s, n - 1)
  PROVE  /\ s[n] \notin Printing => InOrder(o, s, n)
         /\ s[n] \in Printing /\ CharAt(s, n) \in Chars =>
              InOrder(Append(o, CharAt(s, n)), s, n)
<1>1. PICK m \in Nat : m = n - 1 /\ n = m + 1
  OBVIOUS
<1>2. \A k \in Nat :
        /\ IsFiniteSet(PrintedIn(s, k))
        /\ Cardinality(PrintedIn(s, k)) \in Nat
  <2> SUFFICES ASSUME NEW k \in Nat
               PROVE  /\ IsFiniteSet(PrintedIn(s, k))
                      /\ Cardinality(PrintedIn(s, k)) \in Nat
    OBVIOUS
  <2>1. PICK p \in Nat : p = k + 1
    OBVIOUS
  <2>2. QED
    BY <2>1, CountStep DEF PrintedIn
<1>3. /\ PrintedIn(s, n) =
           IF s[n] \in Printing THEN PrintedIn(s, m) \union {n} ELSE PrintedIn(s, m)
      /\ Cardinality(PrintedIn(s, n)) =
           IF s[n] \in Printing THEN Cardinality(PrintedIn(s, m)) + 1
           ELSE Cardinality(PrintedIn(s, m))
  BY <1>1, CountStep DEF PrintedIn
<1>4. InOrder(o, s, m)
  BY <1>1
<1>5. CASE s[n] \notin Printing
  BY <1>3, <1>4, <1>5 DEF InOrder
<1>6. ASSUME s[n] \in Printing, CharAt(s, n) \in Chars
      PROVE  InOrder(Append(o, CharAt(s, n)), s, n)
  <2> DEFINE q == Append(o, CharAt(s, n))
  <2>1. /\ Len(o) \in Nat /\ Len(q) = Len(o) + 1 /\ q[Len(o) + 1] = CharAt(s, n)
        /\ \A i \in 1 .. Len(o) : q[i] = o[i]
    BY <1>6, LenProperties, AppendProperties
  <2> HIDE DEF q
  <2>2. Len(q) = Cardinality(PrintedIn(s, n)) /\ Len(o) = Cardinality(PrintedIn(s, m))
    BY <1>3, <1>4, <1>6, <2>1 DEF InOrder
  <2>3. ASSUME NEW k \in PrintedIn(s, m)
        PROVE  q[Cardinality(PrintedIn(s, k))] = CharAt(s, k)
    <3>1. k \in 1 .. m /\ s[k] \in Printing
      BY DEF PrintedIn, UpTo
    <3>2. PrintedIn(s, k) \in SUBSET PrintedIn(s, m) /\ k \in PrintedIn(s, k)
      BY <3>1 DEF PrintedIn, UpTo
    <3>3. Cardinality(PrintedIn(s, k)) <= Cardinality(PrintedIn(s, m))
      BY <1>2, <3>2, FS_Subset
    <3>4. Cardinality(PrintedIn(s, k)) # 0
      BY <1>2, <3>1, <3>2, FS_EmptySet
    <3>5. Cardinality(PrintedIn(s, k)) \in 1 .. Len(o)
      BY <1>2, <2>2, <3>1, <3>3, <3>4
    <3>6. QED
      BY <1>4, <2>1, <3>5 DEF InOrder
  <2>4. q[Cardinality(PrintedIn(s, n))] = CharAt(s, n)
    BY <2>1, <2>2
  <2>5. InOrder(q, s, n)
    BY <1>3, <1>6, <2>2, <2>3, <2>4 DEF InOrder
  <2>6. QED
    BY <2>5 DEF q
<1>7. QED
  BY <1>5, <1>6

(***************************************************************************)
(* OrderInv is inductive, given IInv.                                      *)
(***************************************************************************)

LEMMA InitOrder == Init => OrderInv
<1> SUFFICES ASSUME Init PROVE OrderInv
  OBVIOUS
<1>1. Stage = "iret" /\ Len(taken) = 0 /\ Len(out) = 0
  BY EmptySeq DEF Init, Stage
<1>2. Judged = 0 /\ Written = 0
  BY <1>1 DEF Judged, Written, Converting
<1>3. InOrder(out, taken, 0)
  <2>1. PrintedIn(taken, 0) = {}
    BY DEF PrintedIn, UpTo
  <2>2. QED
    BY <1>1, <2>1, FS_EmptySet DEF InOrder
<1>4. is_shift_key_on = ShiftAt(taken, 1)
  <2>1. ~ShiftAt(taken, 1)
    BY DEF ShiftAt
  <2>2. QED
    BY <2>1 DEF Init, ShiftAt
<1>5. is_caps_lock_on = CapsAt(taken, 1)
  <2>1. UpTo(taken, {Caps}, 0) = {}
    BY DEF UpTo
  <2>2. Cardinality(UpTo(taken, {Caps}, 1 - 1)) = 0
    BY <2>1, FS_EmptySet
  <2>3. ~CapsAt(taken, 1)
    BY <2>2 DEF CapsAt
  <2>4. QED
    BY <2>3 DEF Init, CapsAt
<1>6. QED
  BY <1>1, <1>2, <1>3, <1>4, <1>5 DEF OrderInv, Converting

(* Outside the conversion nothing but the history matters. *)
LEMMA IdleOrder ==
  ASSUME OrderInv, Stage \in Steps \ Converting, Stage' \in Steps \ Converting,
         taken' = taken, out' = out, UNCHANGED modifiers
  PROVE  OrderInv'
BY DEF OrderInv, Judged, Written, Converting, Steps, modifiers

(* The steps of keyboard controller, PIC and kmain, and the handler's before it
   reads the port and after it has taken a character out *)
LEMMA OutsideOrder ==
  ASSUME IInv, OrderInv,
         \/ \E code \in Scancodes : KeyEvent(code)
         \/ Dispatch \/ Boot \/ enter_user_mode
         \/ Enter \/ Acknowledge \/ Iret
         \/ UNCHANGED vars
  PROVE  OrderInv'
<1>1. CASE (\E code \in Scancodes : KeyEvent(code)) \/ UNCHANGED vars
  <2>1. ctx' = ctx /\ isr' = isr /\ UNCHANGED <<rings, modifiers, taken, out>>
    BY <1>1 DEF KeyEvent, vars, hardware
  <2>2. Stage' = Stage /\ top' = top
    BY <2>1 DEF Stage, top
  <2>3. QED
    BY <2>1, <2>2 DEF OrderInv, Judged, Written, Latest, Holding, Drained, rings, modifiers
<1>2. CASE Dispatch
  <2>1. Stage = "iret" /\ Stage' = "enter"
    BY <1>2, DispatchProperties DEF IInv
  <2>2. QED
    BY <1>2, <2>1, IdleOrder DEF Dispatch, Steps, Converting
<1>3. CASE Boot \/ enter_user_mode
  <2>1. ctx = <<>> /\ ctx' = <<>> /\ taken' = taken /\ out' = out /\ UNCHANGED modifiers
    BY <1>3 DEF Boot, install_pic, install_keyboard, enable_interrupts,
                enter_user_mode, MainStep
  <2>2. Stage = "iret" /\ Stage' = "iret"
    BY <2>1 DEF Stage
  <2>3. QED
    BY <2>1, <2>2, IdleOrder DEF Steps, Converting
<1>4. CASE Enter
  <2>1. Stage = "enter" /\ isr /\ isr'
    BY <1>4, HandlerStage DEF Enter, Steps, hardware
  <2>2. PICK step \in {"store", "ack"} : GoTo(step)
    BY <1>4 DEF Enter
  <2>3. Stage' = step
    BY <2>1, <2>2, GoToProperties DEF IInv, Steps
  <2>4. QED
    BY <1>4, <2>1, <2>3, IdleOrder DEF Enter, Steps, Converting
<1>5. CASE Acknowledge
  <2>1. Stage = "ack" /\ ~isr'
    BY <1>5, HandlerStage DEF Acknowledge, Steps
  <2>2. Stage' = "iret"
    BY <1>5, <2>1, GoToProperties DEF Acknowledge, IInv, Steps
  <2>3. QED
    BY <1>5, <2>1, <2>2, IdleOrder DEF Acknowledge, Steps, Converting
<1>6. CASE Iret
  <2>1. Stage = "iret" /\ Stage' = "iret"
    BY <1>6, IretProperties
  <2>2. QED
    BY <1>6, <2>1, IdleOrder DEF Iret, Steps, Converting
<1>7. QED
  BY <1>1, <1>2, <1>3, <1>4, <1>5, <1>6

(* The code read from the port is the one in the buffer and is judged next. *)
LEMMA StoreOrder == IInv /\ OrderInv /\ Store => OrderInv'
<1> SUFFICES ASSUME IInv, OrderInv, Store PROVE OrderInv'
  OBVIOUS
<1> DEFINE n == Len(taken)
<1>1. Stage = "store" /\ isr /\ isr'
  BY HandlerStage DEF Store, Steps
<1>2. Stage' = "convert"
  BY <1>1, GoToProperties DEF Store, IInv, Steps
<1>3. PICK code \in Scancodes :
        /\ kbd_scancode_buffer' = Put(kbd_scancode_buffer, code)
        /\ taken' = Append(taken, code)
  <2>1. keys # <<>> /\ Head(keys) \in Scancodes
    BY <1>1, HeadTailProperties DEF IInv, PortInv, TypeOK
  <2>2. QED
    BY <2>1 DEF Store
<1>4. n \in Nat /\ taken \in Seq(Scancodes)
  BY LenProperties DEF IInv, TypeOK
<1>5. taken' # <<>> /\ Len(taken') = n + 1 /\ Latest' = code
  BY <1>3, <1>4, AppendProperties DEF Latest
<1>6. kbd_scancode_buffer'.buffer[kbd_scancode_buffer'.head] = code
  <2>1. Drained(kbd_scancode_buffer) /\ kbd_scancode_buffer \in RingOf(Scancodes)
    BY <1>1 DEF IInv, RingsInv, TypeOK
  <2>2. QED
    BY <1>3, <2>1 DEF Put, Drained, RingOf
<1>7. Written = n /\ Judged = n /\ Written' = n /\ Judged' = n
  BY <1>1, <1>2, <1>4, <1>5 DEF Written, Judged, Converting
<1>8. InOrder(out', taken', n)
  <2>1. InOrder(out, taken, n)
    BY <1>7 DEF OrderInv
  <2>2. QED
    BY <1>3, <1>4, <2>1, LaterOutput DEF Store
<1>9. is_shift_key_on' = ShiftAt(taken', n + 1) /\ is_caps_lock_on' = CapsAt(taken', n + 1)
  <2>1. is_shift_key_on = ShiftAt(taken, n + 1) /\ is_caps_lock_on = CapsAt(taken, n + 1)
    BY <1>7 DEF OrderInv
  <2>2. n + 1 \in 1 .. n + 1
    BY <1>4
  <2>3. ShiftAt(taken', n + 1) = ShiftAt(taken, n + 1)
        /\ CapsAt(taken', n + 1) = CapsAt(taken, n + 1)
    BY <1>3, <1>4, <2>2, LaterCode
  <2>4. QED
    BY <2>1, <2>3 DEF Store, modifiers
<1>10. QED
  BY <1>2, <1>5, <1>6, <1>7, <1>8, <1>9 DEF OrderInv, Converting

(* Converted gives the character as the modifiers were, Modify brings them up to
   date.  *)
LEMMA ConvertOrder == IInv /\ OrderInv /\ Convert => OrderInv'
<1> SUFFICES ASSUME IInv, OrderInv, Convert PROVE OrderInv'
  OBVIOUS
<1> DEFINE n == Len(taken)
<1>1. Stage = "convert" /\ isr /\ isr'
  BY HandlerStage DEF Convert, Steps, hardware
<1>2. kbd_scancode_buffer.count # 0
  BY <1>1 DEF IInv, RingsInv, Holding
<1>3. taken # <<>> /\ n \in Nat \ {0} /\ Latest \in Scancodes /\ taken \in Seq(Scancodes)
  <2>1. taken # <<>> /\ taken \in Seq(Scancodes)
    BY <1>1 DEF OrderInv, Converting, IInv, TypeOK
  <2>2. n \in Nat \ {0}
    BY <2>1, LenProperties, EmptySeq
  <2>3. QED
    BY <2>1, <2>2, ElementOfSeq DEF Latest
<1>4. /\ Modify(Latest)
      /\ ctx' = [ctx EXCEPT ![Len(ctx)] = [at |-> "drop", ch |-> Converted(Latest)]]
      /\ UNCHANGED <<taken, out>>
  BY <1>1, <1>2 DEF Convert, OrderInv
<1>5. Converted(Latest) \in Chars
  BY <1>3 DEF Converted, Chars, Printing, IInv, TypeOK
<1>6. Stage' = "drop" /\ top'.ch = Converted(Latest)
  <2> DEFINE c == Converted(Latest)
  <2>1. c \in Chars /\ "drop" \in Steps /\ isr' = isr
        /\ ctx' = [ctx EXCEPT ![Len(ctx)] = [at |-> "drop", ch |-> c]]
    BY <1>1, <1>4, <1>5 DEF Steps, Convert, hardware
  <2> HIDE DEF c
  <2>2. Stage' = "drop" /\ top' = [at |-> "drop", ch |-> c]
    BY <1>1, <2>1, AdvanceProperties DEF IInv
  <2>3. QED
    BY <2>2 DEF c
<1>7. Written = n - 1 /\ Judged = n - 1 /\ Written' = n - 1 /\ Judged' = n
  BY <1>1, <1>4, <1>6 DEF Written, Judged, Converting
<1>8. is_shift_key_on = ShiftAt(taken, n) /\ is_caps_lock_on = CapsAt(taken, n)
  BY <1>3, <1>7 DEF OrderInv
<1>9. is_shift_key_on' = ShiftAt(taken, n + 1) /\ is_caps_lock_on' = CapsAt(taken, n + 1)
  BY <1>3, <1>4, <1>8, ShiftStep, CapsStep DEF Modify, Latest
<1>10. Converted(Latest) = IF Latest \in Printing THEN CharAt(taken, n)
                           ELSE KBD_UNUSED_SCANCODE
  BY <1>3, <1>8
  DEF Converted, CharAt, Latest, Printing, Scancodes, Letter, Symbol, Space, Shift,
      Unshift, Caps, Other
<1>11. Latest' = Latest /\ InOrder(out', taken', n - 1)
  BY <1>4, <1>7 DEF OrderInv, Latest
<1>12. QED
  BY <1>3, <1>4, <1>6, <1>7, <1>9, <1>10, <1>11 DEF OrderInv, Converting

(* A code that prints goes on to the other buffer, which has room. *)
LEMMA DropScancodeOrder == IInv /\ OrderInv /\ DropScancode => OrderInv'
<1> SUFFICES ASSUME IInv, OrderInv, DropScancode PROVE OrderInv'
  OBVIOUS
<1>1. Stage = "drop" /\ isr /\ isr' /\ ctx # <<>> /\ top \in Contexts
  BY HandlerStage, StageProperties DEF DropScancode, Steps, hardware, IInv
<1>2. Drained(kbd_char_buffer)
  BY <1>1 DEF IInv, RingsInv
<1>3. top.ch = IF Latest \in Printing THEN CharAt(taken, Len(taken)) ELSE KBD_UNUSED_SCANCODE
  BY <1>1 DEF OrderInv
<1>4. top.ch # KBD_UNUSED_SCANCODE <=> Latest \in Printing
  <2>1. Latest \in Printing => CharAt(taken, Len(taken))[1] # Other
    BY DEF CharAt, Latest, Printing, Letter, Symbol, Space, Other
  <2>2. KBD_UNUSED_SCANCODE[1] = Other
    BY DEF KBD_UNUSED_SCANCODE
  <2>3. QED
    BY <1>3, <2>1, <2>2
<1> DEFINE step == IF Latest \in Printing THEN "put" ELSE "write"
<1>5. GoTo(step)
  BY <1>2, <1>4, KeyboardAssumption DEF DropScancode, Drained
<1>6. Stage' = step /\ (top.ch = top'.ch)
  <2>1. top.ch \in Chars /\ [top EXCEPT !.at = step] = [at |-> step, ch |-> top.ch]
    BY <1>1 DEF Contexts
  <2>2. ctx' = [ctx EXCEPT ![Len(ctx)] = [at |-> step, ch |-> top.ch]]
    BY <1>5, <2>1 DEF GoTo, top
  <2>3. QED
    BY <1>1, <2>1, <2>2, AdvanceProperties DEF IInv, Steps
<1>7. UNCHANGED <<taken, out, modifiers, kbd_char_buffer>> /\ Latest' = Latest
  BY DEF DropScancode, Latest
<1>8. Written = Len(taken) - 1 /\ Judged = Len(taken) /\ Written' = Written /\ Judged' = Judged
  BY <1>1, <1>6, <1>7 DEF Written, Judged, Converting
<1>9. QED
  BY <1>1, <1>2, <1>3, <1>6, <1>7, <1>8 DEF OrderInv, Converting, modifiers, Drained

LEMMA PutCharOrder == IInv /\ OrderInv /\ PutChar => OrderInv'
<1> SUFFICES ASSUME IInv, OrderInv, PutChar PROVE OrderInv'
  OBVIOUS
<1>1. Stage = "put" /\ isr /\ isr' /\ ctx # <<>> /\ top \in Contexts
  BY HandlerStage, StageProperties DEF PutChar, Steps, hardware, IInv
<1>2. Stage' = "write"
  BY <1>1, GoToProperties DEF PutChar, Steps, IInv
<1>3. top.ch = CharAt(taken, Len(taken)) /\ Latest \in Printing /\ top.ch \in Chars
  BY <1>1 DEF OrderInv, Contexts
<1>4. Drained(kbd_char_buffer) /\ kbd_char_buffer \in RingOf(Chars)
  BY <1>1 DEF IInv, RingsInv, TypeOK
<1>5. Holding(kbd_char_buffer')
  BY <1>3, <1>4, RingProperties DEF PutChar
<1>6. kbd_char_buffer'.buffer[kbd_char_buffer'.head] = top.ch
  BY <1>4 DEF PutChar, Put, Drained, RingOf
<1>7. UNCHANGED <<taken, out, modifiers>> /\ Latest' = Latest
  BY DEF PutChar, Latest
<1>8. Written = Len(taken) - 1 /\ Judged = Len(taken) /\ Written' = Written /\ Judged' = Judged
  BY <1>1, <1>2, <1>7 DEF Written, Judged, Converting
<1>9. QED
  BY <1>1, <1>2, <1>3, <1>5, <1>6, <1>7, <1>8 DEF OrderInv, Converting, modifiers

LEMMA WriteCharOrder == IInv /\ OrderInv /\ WriteChar => OrderInv'
<1> SUFFICES ASSUME IInv, OrderInv, WriteChar PROVE OrderInv'
  OBVIOUS
<1> DEFINE n == Len(taken)
<1>1. Stage = "write" /\ isr /\ isr'
  BY HandlerStage DEF WriteChar, Steps, hardware
<1>2. Stage' = "ack"
  BY <1>1, GoToProperties DEF WriteChar, Steps, IInv
<1>3. taken # <<>> /\ n \in Nat \ {0}
  BY <1>1, LenProperties, EmptySeq DEF OrderInv, Converting, IInv, TypeOK
<1>4. UNCHANGED <<taken, modifiers>>
  BY DEF WriteChar
<1>5. Written = n - 1 /\ Judged = n /\ Written' = n /\ Judged' = n
  BY <1>1, <1>2, <1>4 DEF Written, Judged, Converting
<1>6. InOrder(out, taken, n - 1) /\ out \in Seq(Chars)
  BY <1>5 DEF OrderInv, IInv, TypeOK
<1>7. InOrder(out', taken, n)
  <2>1. CASE Latest \in Printing
    <3>1. Holding(kbd_char_buffer) /\ kbd_char_buffer \in RingOf(Chars)
          /\ kbd_char_buffer.buffer[kbd_char_buffer.head] = CharAt(taken, n)
      BY <1>1, <2>1 DEF OrderInv, IInv, TypeOK
    <3>2. CharAt(taken, n) \in Chars
      BY <3>1 DEF RingOf
    <3>3. out' = Append(out, CharAt(taken, n))
      BY <3>1 DEF WriteChar, Holding
    <3>4. QED
      BY <1>3, <1>6, <2>1, <3>2, <3>3, NextOutput DEF Latest
  <2>2. CASE Latest \notin Printing
    <3>1. out' = out
      BY <1>1, <2>2 DEF OrderInv, Drained, WriteChar
    <3>2. QED
      BY <1>3, <1>6, <2>2, <3>1, NextOutput DEF Latest
  <2>3. QED
    BY <2>1, <2>2
<1>8. QED
  BY <1>2, <1>4, <1>5, <1>7 DEF OrderInv, Converting, modifiers

LEMMA StepOrder == IInv /\ OrderInv /\ [Next]_vars => OrderInv'
BY OutsideOrder, StoreOrder, ConvertOrder, DropScancodeOrder, PutCharOrder,
   WriteCharOrder DEF Next, Handler

(***************************************************************************)
(* Theorems.                                                               *)
(***************************************************************************)

(* The invariant holds in every state. *)
LEMMA Inductive == Spec => []IInv
BY InitIInv, StepIInv, PTL DEF Spec

(* Heads and tails stay in their buffers and counts within their size, whatever
   interrupts whatever.  *)
THEOREM TypeCorrect == Spec => []TypeOK
<1>1. IInv => TypeOK
  BY DEF IInv
<1>2. QED
  BY Inductive, <1>1, PTL

(* However deep keyboard_interrupt_handler nests through its trap gate, only the
   innermost has not acknowledged yet, so the ring buffers need no lock.  *)
THEOREM HandlerExclusion == Spec => []OneHandlerAtWork
<1>1. IInv => OneHandlerAtWork
  BY DEF IInv
<1>2. QED
  BY Inductive, <1>1, PTL

(* Each handler leaves both ring buffers empty, so its successor finds room and
   reads the port.  *)
THEOREM BuffersDrained == Spec => []RingsDrained
<1>1. IInv => RingsDrained
  BY StageProperties DEF IInv, RingsInv, Drained, RingsDrained
<1>2. QED
  BY Inductive, <1>1, PTL

(* Unless a key was pressed before install_pic, a scan code at the port has an
   interrupt pending or a handler about to read it.  *)
THEOREM InterruptPending == Spec => []NoLostInterrupt
<1>1. ASSUME IInv PROVE NoLostInterrupt
  <2>1. Stage \in {"enter", "store"} => At("enter") \/ At("store")
    BY DEF Stage, At
  <2>2. QED
    BY <1>1, <2>1 DEF IInv, PortInv, NoLostInterrupt
<1>2. QED
  BY Inductive, <1>1, PTL

(* The characters keyboard_interrupt_handler takes from its buffer are those of the
   scan codes read from the port, each once and in order, with shift and caps lock
   as they were then: no interrupt that arrives in a handler spoils its conversion. *)
THEOREM CharactersInOrder == Spec => []OutputInOrder
<1>1. ASSUME TypeOK, OneHandlerAtWork, OrderInv PROVE OutputInOrder
  <2> SUFFICES ASSUME AtWork = {} PROVE OutputInOrder
    BY DEF OutputInOrder
  <2> DEFINE n == Len(taken)
             printed == {k \in 1 .. n : taken[k] \in Printing}
  <2>1. Stage = "iret" /\ n \in Nat
    BY <1>1, StageProperties, LenProperties DEF TypeOK
  <2>2. InOrder(out, taken, n)
    BY <1>1, <2>1 DEF OrderInv, Written, Converting
  <2>3. printed = PrintedIn(taken, n)
    BY DEF PrintedIn, UpTo
  <2>4. ASSUME NEW k \in printed
        PROVE  {j \in printed : j <= k} = PrintedIn(taken, k) /\ CharOf(k) = CharAt(taken, k)
    <3>1. {j \in printed : j <= k} = PrintedIn(taken, k)
      BY <2>1 DEF PrintedIn, UpTo
    <3>2. UpTo(taken, {Caps}, k - 1) = {j \in 1 .. k - 1 : taken[j] = Caps}
      BY DEF UpTo
    <3>3. CharOf(k) = CharAt(taken, k)
      BY <3>2 DEF CharOf, CharAt, ShiftBefore, ShiftAt, CapsBefore, CapsAt
    <3>4. QED
      BY <3>1, <3>3
  <2> HIDE DEF printed
  <2>5. Len(out) = Cardinality(printed)
    BY <2>2, <2>3 DEF InOrder
  <2>6. \A k \in printed : out[Cardinality({j \in printed : j <= k})] = CharOf(k)
    BY <2>2, <2>3, <2>4 DEF InOrder
  <2>7. QED
    BY <2>5, <2>6 DEF OutputInOrder, printed
<1>2. IInv /\ OrderInv => OutputInOrder
  BY <1>1 DEF IInv
<1>3. Spec => [](IInv /\ OrderInv)
  BY InitIInv, InitOrder, StepIInv, StepOrder, PTL DEF Spec
<1>4. QED
  BY <1>2, <1>3, PTL

===============================================================================
