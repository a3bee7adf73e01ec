---------------------------- MODULE InterruptsProofs ----------------------------
(***************************************************************************)
(* Whatever was interrupted resumes as it was, and no line is held back,   *)
(* for every set of devices and exceptions, any number of interrupts and   *)
(* any depth of nesting.                                                   *)
(*                                                                         *)
(* Frames says what lies on the stack of each handler at each of its       *)
(* steps: of the innermost one on stack, of any other on the stack that    *)
(* the handler above it found.  Booted says what kmain has set up by the   *)
(* time the interrupt flag is on.                                          *)
(***************************************************************************)
EXTENDS Interrupts, TLAPS

Stages == {"stub", "save", "call", "keyboard", "report", "pagefault", "restore", "iret"}

Context == [at : Stages, vector : Nat, regs : [Registers -> Int],
            stack : Seq(Int), iflag : {0, 1}]

TypeOK ==
  /\ iflag \in {0, 1}
  /\ regs \in [Registers -> Int]
  /\ stack \in Seq(Int)
  /\ ctx \in Seq(Context)

(***************************************************************************)
(* The boot.                                                               *)
(***************************************************************************)

Listening == main \in {"interrupts", "exceptions"}

HandlersInv ==
  /\ DOMAIN handlers \subseteq {KEYBOARD_INTERRUPT_NUMBER, PAGEFAULT_INTERRUPT_NUMBER}
  /\ KEYBOARD_INTERRUPT_NUMBER \in DOMAIN handlers =>
       handlers[KEYBOARD_INTERRUPT_NUMBER] = "keyboard"
  /\ PAGEFAULT_INTERRUPT_NUMBER \in DOMAIN handlers =>
       handlers[PAGEFAULT_INTERRUPT_NUMBER] = "pagefault"
  /\ main \notin {"start", "pic"} => KEYBOARD_INTERRUPT_NUMBER \in DOMAIN handlers

PicInv ==
  /\ main # "start" => imr = Lines \ Unmasked
  /\ irr \subseteq Lines /\ isr \subseteq Unmasked

(* Hardware interrupts are those of the keyboard, and only come while kmain listens. *)
ContextsInv ==
  \A c \in 1 .. Len(ctx) :
    /\ ctx[c].vector \in Faults \union {KEYBOARD_INTERRUPT_NUMBER}
    /\ ctx[c].vector = KEYBOARD_INTERRUPT_NUMBER => Listening /\ ctx[c].at # "report"
    /\ ctx[c].iflag = 1 => Listening

Booted ==
  /\ fault \in Faults \union {NoFault}
  /\ iflag = 1 => Listening
  /\ HandlersInv /\ PicInv /\ ContextsInv

(***************************************************************************)
(* The stack.                                                              *)
(***************************************************************************)

(* What the processor pushed for handler number c, entered as k, on the stack s *)
Pushed(k, c, s) ==
  LET b == Len(k.stack) IN
  /\ Len(s) >= b + 3
  /\ \A i \in 1 .. b : s[i] = k.stack[i]
  /\ s[b + 1] = k.iflag /\ s[b + 2] = KERNEL_CS /\ s[b + 3] = c - 1

(* What the stub has put there, and what the registers r hold, at each step *)
AtStub(k, s, r) ==
  r = k.regs /\ Len(s) = Len(k.stack) + (IF k.vector \in PushesErrorCode THEN 4 ELSE 3)

AtSave(k, s, r) ==
  r = k.regs /\ Len(s) = Len(k.stack) + 5 /\ s[Len(s)] = k.vector

Saved(k, s) ==
  LET b == Len(k.stack) IN
  /\ Len(s) = b + 13 /\ s[b + 5] = k.vector /\ s[b + 6] = b + 3
  /\ \A i \in 1 .. 7 : s[b + 6 + i] = k.regs[SavedRegisters[i]]

AtIret(k, s, r) == r = k.regs /\ Len(s) = Len(k.stack) + 3

Frame(k, c, s, r) ==
  /\ Pushed(k, c, s)
  /\ k.at = "stub" => AtStub(k, s, r)
  /\ k.at = "save" => AtSave(k, s, r)
  /\ k.at \in {"call", "keyboard", "report", "pagefault", "restore"} => Saved(k, s)
  /\ k.at = "iret" => AtIret(k, s, r)

StackOf(c) == IF c = Len(ctx) THEN stack ELSE ctx[c + 1].stack
RegsOf(c) == IF c = Len(ctx) THEN regs ELSE ctx[c + 1].regs

Frames == \A c \in 1 .. Len(ctx) : Frame(ctx[c], c, StackOf(c), RegsOf(c))

IInv == TypeOK /\ Booted /\ Frames /\ LinesReleased

(***************************************************************************)
(* Sequences and the stack of contexts.                                    *)
(***************************************************************************)

(* What is pushed lies above what was there. *)
LEMMA Concat ==
  ASSUME NEW s \in Seq(Int), NEW t \in Seq(Int)
  PROVE  /\ s \o t \in Seq(Int) /\ Len(s \o t) = Len(s) + Len(t)
         /\ \A i \in 1 .. Len(s) : (s \o t)[i] = s[i]
         /\ \A i \in 1 .. Len(t) : (s \o t)[Len(s) + i] = t[i]
  OBVIOUS

(* What is popped leaves what was below it. *)
LEMMA Prefix ==
  ASSUME NEW s \in Seq(Int), NEW n \in 0 .. Len(s)
  PROVE  /\ SubSeq(s, 1, n) \in Seq(Int) /\ Len(SubSeq(s, 1, n)) = n
         /\ \A i \in 1 .. n : SubSeq(s, 1, n)[i] = s[i]
  OBVIOUS

(* A context is typed, and so is its vector. *)
LEMMA ContextFacts ==
  ASSUME TypeOK, NEW c \in 1 .. Len(ctx)
  PROVE  /\ ctx[c] \in Context /\ ctx[c].stack \in Seq(Int) /\ Len(ctx[c].stack) \in Nat
         /\ ctx[c].vector \in Nat /\ ctx[c].regs \in [Registers -> Int]
         /\ ctx[c].iflag \in {0, 1}
<1>1. ctx[c] \in Context
  BY DEF TypeOK
<1> QED
  BY <1>1 DEF Context

(* The innermost handler takes a step: only its own place changes. *)
LEMMA TopSteps ==
  ASSUME TypeOK, NEW from, NEW to \in Stages, HandlerStep(from, to)
  PROVE  /\ Len(ctx) \in Nat \ {0} /\ Len(ctx') = Len(ctx) /\ ctx' \in Seq(Context)
         /\ top.at = from /\ top \in Context
         /\ \A c \in 1 .. Len(ctx) - 1 : ctx'[c] = ctx[c]
         /\ ctx'[Len(ctx)] = [at |-> to, vector |-> top.vector, regs |-> top.regs,
                              stack |-> top.stack, iflag |-> top.iflag]
         /\ UNCHANGED <<main, fault, handlers, irr, imr, raised>>
<1>1. ctx \in Seq(Context) /\ ctx # <<>> /\ top.at = from
  BY DEF TypeOK, HandlerStep
<1>2. Len(ctx) \in Nat \ {0}
  BY <1>1
<1>3. top \in Context
  BY <1>1, <1>2 DEF top
<1>4. PICK k : k = [top EXCEPT !.at = to]
  OBVIOUS
<1>5. k = [at |-> to, vector |-> top.vector, regs |-> top.regs,
           stack |-> top.stack, iflag |-> top.iflag]
  BY <1>3, <1>4 DEF Context
<1>6. k \in Context
  BY <1>3, <1>5 DEF Context
<1>7. ctx' = [ctx EXCEPT ![Len(ctx)] = k]
  BY <1>4 DEF HandlerStep
<1>8. /\ Len(ctx') = Len(ctx) /\ ctx' \in Seq(Context) /\ ctx'[Len(ctx)] = k
      /\ \A c \in 1 .. Len(ctx) - 1 : ctx'[c] = ctx[c]
  BY <1>1, <1>2, <1>6, <1>7
<1>9. UNCHANGED <<main, fault, handlers, irr, imr, raised>>
  BY DEF HandlerStep
<1> QED
  BY <1>1, <1>2, <1>3, <1>5, <1>8, <1>9

(* If it leaves its frame in order, all frames are. *)
LEMMA TopKeepsFrames ==
  ASSUME IInv, NEW from, NEW to \in Stages, HandlerStep(from, to),
         Frame([at |-> to, vector |-> top.vector, regs |-> top.regs,
                stack |-> top.stack, iflag |-> top.iflag], Len(ctx), stack', regs')
  PROVE  Frames'
<1>0. TypeOK
  BY DEF IInv
<1>1. /\ Len(ctx) \in Nat \ {0} /\ Len(ctx') = Len(ctx)
      /\ \A c \in 1 .. Len(ctx) - 1 : ctx'[c] = ctx[c]
      /\ ctx'[Len(ctx)] = [at |-> to, vector |-> top.vector, regs |-> top.regs,
                           stack |-> top.stack, iflag |-> top.iflag]
  BY <1>0, TopSteps
<1>2. top = ctx[Len(ctx)]
  BY DEF top
<1>3. ASSUME NEW c \in 1 .. Len(ctx)
      PROVE  Frame(ctx'[c], c, StackOf(c)', RegsOf(c)')
  <2>1. CASE c = Len(ctx)
    <3>1. StackOf(c)' = stack' /\ RegsOf(c)' = regs'
      BY <2>1, <1>1 DEF StackOf, RegsOf
    <3> QED
      BY <2>1, <3>1, <1>1
  <2>2. CASE c # Len(ctx)
    <3>1. c \in 1 .. Len(ctx) - 1 /\ c + 1 \in 1 .. Len(ctx)
      BY <2>2, <1>1
    <3>2. ctx'[c] = ctx[c]
      BY <3>1, <1>1
    <3>3. ctx'[c + 1].stack = ctx[c + 1].stack /\ ctx'[c + 1].regs = ctx[c + 1].regs
      <4>1. CASE c + 1 = Len(ctx)
        BY <4>1, <1>1, <1>2
      <4>2. CASE c + 1 # Len(ctx)
        BY <4>2, <3>1, <1>1
      <4> QED BY <4>1, <4>2
    <3>4. StackOf(c)' = StackOf(c) /\ RegsOf(c)' = RegsOf(c)
      BY <2>2, <3>3, <1>1 DEF StackOf, RegsOf
    <3>5. Frame(ctx[c], c, StackOf(c), RegsOf(c))
      BY DEF IInv, Frames
    <3> QED
      BY <3>2, <3>4, <3>5
  <2> QED BY <2>1, <2>2
<1> QED
  BY <1>1, <1>3 DEF Frames

(* The frame of the innermost handler lies on the stack. *)
LEMMA TopFrame ==
  ASSUME IInv, Len(ctx) # 0
  PROVE  Frame(top, Len(ctx), stack, regs) /\ Len(ctx) \in 1 .. Len(ctx)
<1>1. Len(ctx) \in Nat /\ Len(ctx) \in 1 .. Len(ctx)
  BY DEF IInv, TypeOK
<1>2. Frame(ctx[Len(ctx)], Len(ctx), StackOf(Len(ctx)), RegsOf(Len(ctx)))
  BY <1>1 DEF IInv, Frames
<1> QED
  BY <1>1, <1>2 DEF top, StackOf, RegsOf

(***************************************************************************)
(* Each step of a handler leaves its frame in order.                       *)
(***************************************************************************)

(* The vectors whose stub pushes no error code are those for which the processor
   has pushed one.  *)
LEMMA StubsAgree == ErrorCodeStub = PushesErrorCode
  BY DEF ErrorCodeStub, PushesErrorCode

(* What was pushed for the handler stays below what is pushed on top of it. *)
LEMMA PushedBelow ==
  ASSUME NEW k \in Context, NEW c \in Nat, NEW s \in Seq(Int), NEW t \in Seq(Int),
         Len(t) >= Len(k.stack) + 3, Len(k.stack) + 3 <= Len(s),
         \A i \in 1 .. Len(k.stack) + 3 : t[i] = s[i],
         Pushed(k, c, s)
  PROVE  Pushed(k, c, t)
<1>1. PICK b \in Nat : b = Len(k.stack)
  BY DEF Context
<1>2. /\ \A i \in 1 .. b : s[i] = k.stack[i]
      /\ s[b + 1] = k.iflag /\ s[b + 2] = KERNEL_CS /\ s[b + 3] = c - 1
  BY <1>1 DEF Pushed
<1>3. \A i \in 1 .. b + 3 : t[i] = s[i]
  BY <1>1
<1>4. t[b + 1] = s[b + 1] /\ t[b + 2] = s[b + 2] /\ t[b + 3] = s[b + 3]
  BY <1>3
<1>5. \A i \in 1 .. b : t[i] = k.stack[i]
  BY <1>2, <1>3
<1>6. Len(t) >= b + 3
  BY <1>1
<1> QED
  BY <1>1, <1>2, <1>4, <1>5, <1>6 DEF Pushed

(* The error code and the vector lie above what the processor pushed. *)
LEMMA StubFrames == ASSUME IInv, Stub PROVE Frames' /\ stack' \in Seq(Int)
<1>0. TypeOK /\ HandlerStep("stub", "save") /\ "save" \in Stages
  BY DEF IInv, Stub, Stages
<1>1. top.at = "stub" /\ top \in Context /\ Len(ctx) \in Nat \ {0}
  BY <1>0, TopSteps
<1>2. PICK b \in Nat : b = Len(top.stack)
  BY <1>1 DEF Context
<1>3. PICK v \in Nat : v = top.vector
  BY <1>1 DEF Context
<1>4. /\ stack \in Seq(Int) /\ Pushed(top, Len(ctx), stack) /\ regs = top.regs
      /\ Len(stack) = b + (IF v \in PushesErrorCode THEN 4 ELSE 3)
  BY <1>0, <1>1, <1>2, <1>3, TopFrame DEF TypeOK, Frame, AtStub
<1>5. PICK e \in Seq(Int) : e = (IF v \in ErrorCodeStub THEN <<>> ELSE <<0>>)
  <2>1. <<>> \in Seq(Int) /\ <<0>> \in Seq(Int)
    OBVIOUS
  <2>2. (IF v \in ErrorCodeStub THEN <<>> ELSE <<0>>) \in Seq(Int)
    BY <2>1
  <2> QED BY <2>2
<1>6. Len(stack) + Len(e) = b + 4
  BY <1>4, <1>5, StubsAgree
<1>7. PICK s \in Seq(Int) : s = stack \o e
  <2>1. stack \o e \in Seq(Int)
    BY <1>4, Concat
  <2> QED BY <2>1
<1>8. Len(s) = b + 4 /\ \A i \in 1 .. b + 3 : s[i] = stack[i]
  BY <1>4, <1>5, <1>6, <1>7, Concat
<1>9. /\ stack' \in Seq(Int) /\ Len(stack') = b + 5 /\ stack'[b + 5] = v
      /\ \A i \in 1 .. b + 3 : stack'[i] = s[i]
  <2>1. stack' = s \o <<v>>
    BY <1>3, <1>5, <1>7 DEF Stub
  <2>2. <<v>> \in Seq(Int) /\ Len(<<v>>) = 1 /\ <<v>>[1] = v
    OBVIOUS
  <2> QED
    BY <1>8, <2>1, <2>2, Concat
<1>10. regs' = regs
  BY DEF Stub
<1> DEFINE k == [at |-> "save", vector |-> top.vector, regs |-> top.regs,
                 stack |-> top.stack, iflag |-> top.iflag]
<1>11. Pushed(k, Len(ctx), stack')
  <2>1. \A i \in 1 .. b + 3 : stack'[i] = stack[i]
    BY <1>8, <1>9
  <2>2. Len(stack') >= Len(top.stack) + 3 /\ Len(top.stack) + 3 <= Len(stack)
    BY <1>2, <1>4, <1>9
  <2>3. \A i \in 1 .. Len(top.stack) + 3 : stack'[i] = stack[i]
    BY <1>2, <2>1
  <2>4. Pushed(top, Len(ctx), stack')
    BY <1>1, <1>4, <1>9, <2>2, <2>3, PushedBelow
  <2> QED
    BY <2>4 DEF Pushed
<1>12. AtSave(k, stack', regs')
  BY <1>2, <1>3, <1>4, <1>9, <1>10 DEF AtSave
<1>13. Frame(k, Len(ctx), stack', regs')
  BY <1>11, <1>12 DEF Frame
<1> QED
  BY <1>0, <1>9, <1>13, TopKeepsFrames

(* The registers lie above the saved stack pointer in the order of SavedRegisters. *)
LEMMA SaveFrames == ASSUME IInv, Save PROVE Frames' /\ stack' \in Seq(Int)
<1>0. TypeOK /\ HandlerStep("save", "call") /\ "call" \in Stages
  BY DEF IInv, Save, Stages
<1>1. top.at = "save" /\ top \in Context /\ Len(ctx) \in Nat \ {0}
  BY <1>0, TopSteps
<1>2. PICK b \in Nat : b = Len(top.stack)
  BY <1>1 DEF Context
<1>3. /\ stack \in Seq(Int) /\ Pushed(top, Len(ctx), stack) /\ regs = top.regs
      /\ Len(stack) = b + 5 /\ stack[b + 5] = top.vector
  BY <1>0, <1>1, <1>2, TopFrame DEF TypeOK, Frame, AtSave
<1>4. PICK t : t = [i \in 1 .. 7 |-> regs[SavedRegisters[i]]]
  OBVIOUS
<1>5. t \in Seq(Int) /\ Len(t) = 7 /\ \A i \in 1 .. 7 : t[i] = regs[SavedRegisters[i]]
  <2>1. \A i \in 1 .. 7 : regs[SavedRegisters[i]] \in Int
    BY <1>0 DEF TypeOK, Registers
  <2> QED
    BY <1>4, <2>1
<1>6. PICK s \in Seq(Int) : s = stack \o <<b + 3>>
  <2>1. <<b + 3>> \in Seq(Int)
    BY <1>2
  <2>2. stack \o <<b + 3>> \in Seq(Int)
    BY <1>3, <2>1, Concat
  <2> QED BY <2>2
<1>7. Len(s) = b + 6 /\ s[b + 6] = b + 3 /\ \A i \in 1 .. b + 5 : s[i] = stack[i]
  <2>1. <<b + 3>> \in Seq(Int) /\ Len(<<b + 3>>) = 1 /\ <<b + 3>>[1] = b + 3
    OBVIOUS
  <2> QED
    BY <1>3, <1>6, <2>1, Concat
<1>8. stack' = s \o t
  <2>1. SavedStackPointer = b + 3
    BY <1>2, <1>3 DEF SavedStackPointer
  <2>2. stack' = (stack \o <<SavedStackPointer>>) \o [i \in 1 .. 7 |-> regs[SavedRegisters[i]]]
    BY DEF Save
  <2> QED
    BY <1>4, <1>6, <2>1, <2>2
<1>9. /\ stack' \in Seq(Int) /\ Len(stack') = b + 13
      /\ \A i \in 1 .. b + 6 : stack'[i] = s[i]
      /\ \A i \in 1 .. 7 : stack'[b + 6 + i] = t[i]
  <2>1. /\ s \o t \in Seq(Int) /\ Len(s \o t) = Len(s) + Len(t)
        /\ \A i \in 1 .. Len(s) : (s \o t)[i] = s[i]
        /\ \A i \in 1 .. Len(t) : (s \o t)[Len(s) + i] = t[i]
    BY <1>5, Concat
  <2>2. Len(s) = b + 6 /\ Len(t) = 7
    BY <1>5, <1>7
  <2>3. Len(stack') = b + 13 /\ stack' \in Seq(Int)
    BY <1>8, <2>1, <2>2
  <2>4. \A i \in 1 .. b + 6 : stack'[i] = s[i]
    BY <1>8, <2>1, <2>2
  <2>5. \A i \in 1 .. 7 : stack'[b + 6 + i] = t[i]
    BY <1>8, <2>1, <2>2
  <2> QED
    BY <2>3, <2>4, <2>5
<1> DEFINE k == [at |-> "call", vector |-> top.vector, regs |-> top.regs,
                 stack |-> top.stack, iflag |-> top.iflag]
<1>10. Pushed(k, Len(ctx), stack')
  <2>1. Pushed(top, Len(ctx), stack')
    <3>1. \A i \in 1 .. b + 3 : stack'[i] = stack[i]
      BY <1>7, <1>9
    <3>2. Len(stack') >= Len(top.stack) + 3 /\ Len(top.stack) + 3 <= Len(stack)
      BY <1>2, <1>3, <1>9
    <3>3. \A i \in 1 .. Len(top.stack) + 3 : stack'[i] = stack[i]
      BY <1>2, <3>1
    <3> QED
      BY <1>1, <1>3, <1>9, <3>2, <3>3, PushedBelow
  <2> QED
    BY <2>1 DEF Pushed
<1>11. Saved(k, stack')
  <2>1. b + 5 \in 1 .. b + 6 /\ b + 6 \in 1 .. b + 6 /\ b + 5 \in 1 .. b + 5
    BY <1>2
  <2>2. stack'[b + 5] = top.vector /\ stack'[b + 6] = b + 3
    BY <1>3, <1>7, <1>9, <2>1
  <2>3. \A i \in 1 .. 7 : stack'[b + 6 + i] = top.regs[SavedRegisters[i]]
    BY <1>3, <1>5, <1>9
  <2> QED
    BY <1>2, <1>9, <2>2, <2>3 DEF Saved
<1>12. Frame(k, Len(ctx), stack', regs')
  BY <1>10, <1>11 DEF Frame
<1> QED
  BY <1>0, <1>9, <1>12, TopKeepsFrames

(* The handlers themselves leave the stack alone. *)
LEMMA HandlerFrames ==
  ASSUME IInv, NEW from \in {"call", "keyboard", "report", "pagefault"},
         NEW to \in {"keyboard", "report", "pagefault", "restore"},
         HandlerStep(from, to), stack' = stack
  PROVE  Frames'
<1>0. TypeOK /\ to \in Stages
  BY DEF IInv, Stages
<1>1. top.at = from /\ Len(ctx) # 0
  BY <1>0, TopSteps
<1>2. Pushed(top, Len(ctx), stack') /\ Saved(top, stack')
  BY <1>1, TopFrame DEF Frame
<1> DEFINE k == [at |-> to, vector |-> top.vector, regs |-> top.regs,
                 stack |-> top.stack, iflag |-> top.iflag]
<1>3. Pushed(k, Len(ctx), stack') /\ Saved(k, stack')
  BY <1>2 DEF Pushed, Saved
<1>4. k.at \notin {"stub", "save", "iret"}
  OBVIOUS
<1>5. Frame(k, Len(ctx), stack', regs')
  BY <1>3, <1>4 DEF Frame
<1> QED
  BY <1>0, <1>5, TopKeepsFrames

(* Every register gets back the word saved for it. *)
LEMMA RestoreFrames == ASSUME IInv, Restore PROVE Frames' /\ stack' \in Seq(Int) /\ regs' = top.regs
<1>0. TypeOK /\ HandlerStep("restore", "iret") /\ "iret" \in Stages
  BY DEF IInv, Restore, Stages
<1>1. top.at = "restore" /\ top \in Context /\ Len(ctx) \in Nat \ {0}
  BY <1>0, TopSteps
<1>2. PICK b \in Nat : b = Len(top.stack)
  BY <1>1 DEF Context
<1>3. /\ stack \in Seq(Int) /\ Pushed(top, Len(ctx), stack)
      /\ Len(stack) = b + 13 /\ stack[b + 6] = b + 3
      /\ \A i \in 1 .. 7 : stack[b + 6 + i] = top.regs[SavedRegisters[i]]
  BY <1>0, <1>1, <1>2, TopFrame DEF TypeOK, Frame, Saved
<1>4. regs' = top.regs
  <2>1. ASSUME NEW r \in Registers
        PROVE  LET i == CHOOSE j \in 1 .. 7 : SavedRegisters[j] = r IN
                 stack[Len(stack) - 7 + i] = top.regs[r]
    <3>1. \E j \in 1 .. 7 : SavedRegisters[j] = r
      BY DEF Registers
    <3>2. PICK i : i = CHOOSE j \in 1 .. 7 : SavedRegisters[j] = r
      OBVIOUS
    <3>3. i \in 1 .. 7 /\ SavedRegisters[i] = r
      BY <3>1, <3>2
    <3>4. Len(stack) - 7 + i = b + 6 + i
      BY <1>3, <3>3
    <3> QED
      BY <1>3, <3>2, <3>3, <3>4
  <2>2. top.regs = [r \in Registers |-> top.regs[r]]
    BY <1>1 DEF Context
  <2> QED
    BY <2>1, <2>2 DEF Restore
<1>5. /\ stack' \in Seq(Int) /\ Len(stack') = b + 3
      /\ \A i \in 1 .. b + 3 : stack'[i] = stack[i]
  <2>1. stack[Len(stack) - 7] = b + 3
    BY <1>3
  <2>2. stack' = SubSeq(stack, 1, b + 3)
    BY <2>1 DEF Restore
  <2>3. b + 3 \in 0 .. Len(stack)
    BY <1>3
  <2> QED
    BY <1>3, <2>2, <2>3, Prefix
<1> DEFINE k == [at |-> "iret", vector |-> top.vector, regs |-> top.regs,
                 stack |-> top.stack, iflag |-> top.iflag]
<1>6. Pushed(k, Len(ctx), stack')
  <2>1. Pushed(top, Len(ctx), stack')
    <3>1. Len(stack') >= Len(top.stack) + 3 /\ Len(top.stack) + 3 <= Len(stack)
      BY <1>2, <1>3, <1>5
    <3>2. \A i \in 1 .. Len(top.stack) + 3 : stack'[i] = stack[i]
      BY <1>2, <1>5
    <3> QED
      BY <1>1, <1>3, <1>5, <3>1, <3>2, PushedBelow
  <2> QED
    BY <2>1 DEF Pushed
<1>7. AtIret(k, stack', regs')
  BY <1>2, <1>4, <1>5 DEF AtIret
<1>8. Frame(k, Len(ctx), stack', regs')
  BY <1>6, <1>7 DEF Frame
<1> QED
  BY <1>0, <1>4, <1>5, <1>8, TopKeepsFrames

(***************************************************************************)
(* Entering a handler and returning from one.                              *)
(***************************************************************************)

(* The new handler finds what the processor pushed; the one below keeps its stack. *)
LEMMA EnterFrames ==
  ASSUME IInv, NEW v \in Faults \union {KEYBOARD_INTERRUPT_NUMBER}, Enter(v)
  PROVE  /\ Frames' /\ stack' \in Seq(Int) /\ ctx' \in Seq(Context)
         /\ Len(ctx') = Len(ctx) + 1 /\ Len(ctx) \in Nat
         /\ \A c \in 1 .. Len(ctx) : ctx'[c] = ctx[c]
         /\ ctx'[Len(ctx) + 1] = [at |-> "stub", vector |-> v, regs |-> regs,
                                  stack |-> stack, iflag |-> iflag]
<1>1. PICK n \in Nat : n = Len(ctx)
  BY DEF IInv, TypeOK
<1>2. PICK b \in Nat : b = Len(stack)
  BY DEF IInv, TypeOK
<1>3. PICK k : k = [at |-> "stub", vector |-> v, regs |-> regs,
                    stack |-> stack, iflag |-> iflag]
  OBVIOUS
<1>4. k \in Context
  <2>1. v \in Nat
    BY InterruptsAssumption DEF KEYBOARD_INTERRUPT_NUMBER, PIC1_START_INTERRUPT
  <2>2. regs \in [Registers -> Int] /\ stack \in Seq(Int) /\ iflag \in {0, 1}
    BY DEF IInv, TypeOK
  <2>3. "stub" \in Stages
    BY DEF Stages
  <2> QED
    BY <1>3, <2>1, <2>2, <2>3 DEF Context
<1>5. /\ ctx' \in Seq(Context) /\ Len(ctx') = n + 1 /\ ctx'[n + 1] = k
      /\ \A c \in 1 .. n : ctx'[c] = ctx[c]
  <2>1. ctx \in Seq(Context) /\ ctx' = Append(ctx, k)
    BY <1>3 DEF IInv, TypeOK, Enter
  <2> QED
    BY <1>1, <1>4, <2>1
<1>6. PICK p \in Seq(Int) : p = <<iflag, KERNEL_CS, n>>
  <2>1. iflag \in Int /\ KERNEL_CS \in Int /\ n \in Int
    BY DEF IInv, TypeOK, KERNEL_CS
  <2>2. <<iflag, KERNEL_CS, n>> \in Seq(Int)
    BY <2>1
  <2> QED BY <2>2
<1>7. Len(p) = 3 /\ p[1] = iflag /\ p[2] = KERNEL_CS /\ p[3] = n
  BY <1>6
<1>8. PICK e \in Seq(Int) : e = (IF v \in PushesErrorCode THEN <<99>> ELSE <<>>)
  <2>1. <<>> \in Seq(Int) /\ <<99>> \in Seq(Int)
    OBVIOUS
  <2>2. (IF v \in PushesErrorCode THEN <<99>> ELSE <<>>) \in Seq(Int)
    BY <2>1
  <2> QED BY <2>2
<1>9. PICK s \in Seq(Int) : s = stack \o p
  <2>1. stack \o p \in Seq(Int)
    BY Concat DEF IInv, TypeOK
  <2> QED BY <2>1
<1>10. /\ Len(s) = b + 3 /\ \A i \in 1 .. b : s[i] = stack[i]
       /\ s[b + 1] = iflag /\ s[b + 2] = KERNEL_CS /\ s[b + 3] = n
  <2>1. /\ Len(stack \o p) = Len(stack) + Len(p)
        /\ \A i \in 1 .. Len(stack) : (stack \o p)[i] = stack[i]
        /\ \A i \in 1 .. Len(p) : (stack \o p)[Len(stack) + i] = p[i]
    BY Concat DEF IInv, TypeOK
  <2>2. \A i \in 1 .. 3 : s[b + i] = p[i]
    BY <1>2, <1>7, <1>9, <2>1
  <2>3. Len(s) = b + 3 /\ \A i \in 1 .. b : s[i] = stack[i]
    BY <1>2, <1>7, <1>9, <2>1
  <2> QED
    BY <1>7, <2>2, <2>3
<1>11. /\ stack' \in Seq(Int) /\ \A i \in 1 .. b + 3 : stack'[i] = s[i]
       /\ Len(stack') = b + (IF v \in PushesErrorCode THEN 4 ELSE 3)
  <2>1. stack' = s \o e
    BY <1>1, <1>6, <1>8, <1>9 DEF Enter
  <2>2. Len(e) = (IF v \in PushesErrorCode THEN 1 ELSE 0)
    BY <1>8
  <2>3. /\ s \o e \in Seq(Int) /\ Len(s \o e) = Len(s) + Len(e)
        /\ \A i \in 1 .. Len(s) : (s \o e)[i] = s[i]
    BY Concat
  <2>4. stack' \in Seq(Int) /\ \A i \in 1 .. b + 3 : stack'[i] = s[i]
    BY <1>10, <2>1, <2>3
  <2>5. Len(stack') = b + (IF v \in PushesErrorCode THEN 4 ELSE 3)
    BY <1>10, <2>1, <2>2, <2>3
  <2> QED BY <2>4, <2>5
<1>12. Frame(k, n + 1, stack', regs')
  <2>1. Len(k.stack) = b /\ k.stack = stack /\ k.iflag = iflag /\ k.at = "stub"
        /\ k.regs = regs /\ k.vector = v
    BY <1>2, <1>3
  <2>2. Pushed(k, n + 1, stack')
    <3>1. stack'[b + 1] = iflag /\ stack'[b + 2] = KERNEL_CS /\ stack'[b + 3] = n
      <4>1. b + 1 \in 1 .. b + 3 /\ b + 2 \in 1 .. b + 3 /\ b + 3 \in 1 .. b + 3
        OBVIOUS
      <4>2. /\ stack'[b + 1] = s[b + 1] /\ stack'[b + 2] = s[b + 2]
            /\ stack'[b + 3] = s[b + 3]
        BY <1>11, <4>1, Zenon
      <4> QED
        BY <1>10, <4>2, Zenon
    <3>2. ASSUME NEW i \in 1 .. b PROVE stack'[i] = stack[i]
      <4>1. i \in 1 .. b + 3
        OBVIOUS
      <4> QED
        BY <4>1, <1>10, <1>11
    <3>3. Len(stack') >= b + 3
      BY <1>11
    <3>4. n = (n + 1) - 1
      OBVIOUS
    <3> QED
      BY <2>1, <3>1, <3>2, <3>3, <3>4 DEF Pushed
  <2>3. AtStub(k, stack', regs')
    <3>1. regs' = regs
      BY DEF Enter
    <3> QED
      BY <2>1, <1>11, <3>1 DEF AtStub
  <2> QED
    BY <2>1, <2>2, <2>3 DEF Frame
<1>13. ASSUME NEW c \in 1 .. n + 1
       PROVE  Frame(ctx'[c], c, StackOf(c)', RegsOf(c)')
  <2>1. CASE c = n + 1
    <3>1. StackOf(c)' = stack' /\ RegsOf(c)' = regs'
      BY <2>1, <1>5 DEF StackOf, RegsOf
    <3> QED
      BY <2>1, <3>1, <1>5, <1>12
  <2>2. CASE c # n + 1
    <3>1. c \in 1 .. n
      BY <2>2
    <3>2. StackOf(c)' = ctx'[c + 1].stack /\ RegsOf(c)' = ctx'[c + 1].regs
      BY <2>2, <1>5 DEF StackOf, RegsOf
    <3>3. ctx'[c + 1].stack = StackOf(c) /\ ctx'[c + 1].regs = RegsOf(c)
      <4>1. CASE c = n
        BY <4>1, <1>1, <1>3, <1>5 DEF StackOf, RegsOf
      <4>2. CASE c # n
        <5>1. ctx'[c + 1] = ctx[c + 1]
          BY <4>2, <3>1, <1>5
        <5> QED
          BY <4>2, <5>1, <1>1 DEF StackOf, RegsOf
      <4> QED BY <4>1, <4>2
    <3>4. Frame(ctx[c], c, StackOf(c), RegsOf(c))
      BY <1>1, <3>1 DEF IInv, Frames
    <3> QED
      BY <1>5, <3>1, <3>2, <3>3, <3>4
  <2> QED BY <2>1, <2>2
<1>14. Frames'
  BY <1>5, <1>13 DEF Frames
<1> QED
  BY <1>1, <1>3, <1>5, <1>11, <1>14

(* The iret restores what the handler's context recorded. *)
LEMMA IretRestores ==
  ASSUME IInv, Iret
  PROVE  /\ Len(ctx) \in Nat \ {0} /\ top \in Context
         /\ Len(ctx') = Len(ctx) - 1 /\ ctx' \in Seq(Context)
         /\ \A c \in 1 .. Len(ctx) - 1 : ctx'[c] = ctx[c]
         /\ stack' = top.stack /\ regs' = top.regs /\ iflag' = top.iflag
         /\ stack[Len(stack)] = Len(ctx')
<1>1. TypeOK /\ ctx \in Seq(Context) /\ ctx # <<>> /\ top.at = "iret"
  BY DEF IInv, TypeOK, Iret
<1>2. PICK n \in Nat \ {0} : n = Len(ctx)
  BY <1>1
<1>3. top \in Context
  BY <1>1, <1>2 DEF top
<1>4. /\ Len(ctx') = n - 1 /\ ctx' \in Seq(Context)
      /\ \A c \in 1 .. n - 1 : ctx'[c] = ctx[c]
  <2>1. ctx' = SubSeq(ctx, 1, n - 1)
    BY <1>2 DEF Iret
  <2> QED
    BY <1>1, <1>2, <2>1
<1>5. PICK b \in Nat : b = Len(top.stack)
  BY <1>3 DEF Context
<1>6. Pushed(top, n, stack) /\ regs = top.regs /\ Len(stack) = b + 3
  BY <1>1, <1>2, <1>5, TopFrame DEF Frame, AtIret
<1>7. /\ \A i \in 1 .. b : stack[i] = top.stack[i]
      /\ stack[b + 1] = top.iflag /\ stack[b + 3] = n - 1
  BY <1>5, <1>6 DEF Pushed
<1>8. iflag' = top.iflag
  <2>1. Len(stack) - 2 = b + 1
    BY <1>6
  <2> QED
    BY <1>7, <2>1 DEF Iret
<1>9. stack' = top.stack
  <2>1. PICK s \in Seq(Int) : s = top.stack
    BY <1>3 DEF Context
  <2>2. stack' = SubSeq(stack, 1, b)
    <3>1. Len(stack) - 3 = b
      BY <1>6
    <3> QED
      BY <3>1 DEF Iret
  <2>3. /\ stack' \in Seq(Int) /\ Len(stack') = b
        /\ \A i \in 1 .. b : stack'[i] = stack[i]
    <3>1. stack \in Seq(Int) /\ b \in 0 .. Len(stack)
      BY <1>1, <1>6 DEF TypeOK
    <3> QED
      BY <2>2, <3>1, Prefix
  <2>4. Len(s) = b /\ \A i \in 1 .. b : stack'[i] = s[i]
    BY <1>5, <1>7, <2>1, <2>3
  <2>5. stack' = s
    BY <2>3, <2>4
  <2> QED
    BY <2>1, <2>5
<1>10. stack[Len(stack)] = Len(ctx')
  BY <1>4, <1>6, <1>7
<1>11. regs' = top.regs
  BY <1>6 DEF Iret
<1> QED
  BY <1>2, <1>3, <1>4, <1>8, <1>9, <1>10, <1>11

(* The handler below finds its own stack and registers again. *)
LEMMA IretFrames == ASSUME IInv, Iret PROVE Frames'
<1>1. PICK n \in Nat \ {0} : n = Len(ctx)
  BY IretRestores
<1>2. /\ Len(ctx') = n - 1 /\ \A c \in 1 .. n - 1 : ctx'[c] = ctx[c]
      /\ stack' = top.stack /\ regs' = top.regs
  BY <1>1, IretRestores
<1>3. ASSUME NEW c \in 1 .. n - 1
      PROVE  Frame(ctx'[c], c, StackOf(c)', RegsOf(c)')
  <2>1. StackOf(c) = ctx[c + 1].stack /\ RegsOf(c) = ctx[c + 1].regs
    BY <1>1 DEF StackOf, RegsOf
  <2>2. StackOf(c)' = ctx[c + 1].stack /\ RegsOf(c)' = ctx[c + 1].regs
    <3>1. CASE c = n - 1
      BY <3>1, <1>1, <1>2 DEF StackOf, RegsOf, top
    <3>2. CASE c # n - 1
      <4>1. ctx'[c + 1] = ctx[c + 1]
        BY <3>2, <1>2
      <4> QED
        BY <3>2, <4>1, <1>2 DEF StackOf, RegsOf
    <3> QED BY <3>1, <3>2
  <2>3. Frame(ctx[c], c, StackOf(c), RegsOf(c))
    BY <1>1 DEF IInv, Frames
  <2> QED
    BY <1>2, <2>1, <2>2, <2>3
<1> QED
  BY <1>2, <1>3 DEF Frames

(***************************************************************************)
(* The boot and the PIC.                                                   *)
(***************************************************************************)

(* The vectors and the places of contexts in use *)
LEMMA Vectors ==
  /\ KEYBOARD_INTERRUPT_NUMBER = 33 /\ PAGEFAULT_INTERRUPT_NUMBER = 14
  /\ PIC1_START_INTERRUPT = 32 /\ Unmasked = {1} /\ NoFault \notin Faults
  /\ \A v \in Faults : v \in Nat /\ v < PIC1_START_INTERRUPT
  BY InterruptsAssumption
     DEF KEYBOARD_INTERRUPT_NUMBER, PAGEFAULT_INTERRUPT_NUMBER, PIC1_START_INTERRUPT,
         Unmasked, NoFault

(* A line in service is the keyboard's, and a handler will acknowledge it. *)
Acknowledging(k) ==
  k.vector = KEYBOARD_INTERRUPT_NUMBER /\ k.at \in {"stub", "save", "call", "keyboard"}

(* LinesReleased, when only the keyboard can be in service *)
LEMMA LinesReleasedKeyboard ==
  ASSUME isr \subseteq Unmasked
  PROVE  LinesReleased <=>
           (isr # {} => \E c \in 1 .. Len(ctx) : Acknowledging(ctx[c]))
<1>1. ASSUME NEW l \in isr PROVE PIC1_START_INTERRUPT + l = KEYBOARD_INTERRUPT_NUMBER
  BY Vectors
<1> QED
  BY <1>1 DEF LinesReleased, Acknowledging

(* The same in the next state *)
LEMMA LinesReleasedKeyboardNext ==
  ASSUME (isr \subseteq Unmasked)'
  PROVE  LinesReleased' <=>
           (isr' # {} => \E c \in 1 .. Len(ctx') : Acknowledging(ctx'[c]))
<1>1. ASSUME NEW l \in isr' PROVE PIC1_START_INTERRUPT + l = KEYBOARD_INTERRUPT_NUMBER
  BY Vectors
<1> QED
  BY <1>1 DEF LinesReleased, Acknowledging

(* Only the keyboard is dispatched. *)
LEMMA DispatchKeeps == ASSUME IInv, Dispatch PROVE IInv'
<1>1. Listening /\ irr \subseteq Lines /\ isr \subseteq Unmasked /\ imr = Lines \ Unmasked
  BY DEF IInv, Booted, PicInv, Listening, Dispatch
<1>2. PICK line \in irr \ imr :
        /\ irr' = irr \ {line} /\ isr' = isr \union {line}
        /\ Enter(PIC1_START_INTERRUPT + line)
  BY DEF Dispatch
<1>3. line = 1 /\ PIC1_START_INTERRUPT + line = KEYBOARD_INTERRUPT_NUMBER
  BY <1>1, <1>2, Vectors
<1>4. UNCHANGED <<main, fault, handlers, imr>>
  BY DEF Dispatch
<1>5. /\ Frames' /\ stack' \in Seq(Int) /\ ctx' \in Seq(Context)
      /\ Len(ctx') = Len(ctx) + 1 /\ Len(ctx) \in Nat
      /\ \A c \in 1 .. Len(ctx) : ctx'[c] = ctx[c]
      /\ ctx'[Len(ctx) + 1] = [at |-> "stub", vector |-> KEYBOARD_INTERRUPT_NUMBER,
                               regs |-> regs, stack |-> stack, iflag |-> iflag]
  BY <1>2, <1>3, EnterFrames
<1>6. TypeOK'
  BY <1>2, <1>5 DEF IInv, TypeOK, Enter
<1>7. (isr \subseteq Unmasked)'
  BY <1>1, <1>2, <1>3, Vectors
<1>8. LinesReleased'
  <2>1. Acknowledging(ctx'[Len(ctx) + 1]) /\ Len(ctx) + 1 \in 1 .. Len(ctx')
    BY <1>5 DEF Acknowledging
  <2> QED
    BY <1>7, <2>1, LinesReleasedKeyboardNext
<1>9. ContextsInv'
  <2>1. ASSUME NEW c \in 1 .. Len(ctx')
        PROVE  /\ ctx'[c].vector \in Faults \union {KEYBOARD_INTERRUPT_NUMBER}
               /\ ctx'[c].vector = KEYBOARD_INTERRUPT_NUMBER => ctx'[c].at # "report"
    <3>1. CASE c = Len(ctx) + 1
      BY <3>1, <1>5
    <3>2. CASE c # Len(ctx) + 1
      BY <3>2, <1>5 DEF IInv, Booted, ContextsInv
    <3> QED BY <3>1, <3>2
  <2>2. Listening'
    BY <1>1, <1>4 DEF Listening
  <2> QED
    BY <2>1, <2>2 DEF ContextsInv
<1>10. Booted'
  <2>1. Listening' /\ HandlersInv' /\ (fault \in Faults \union {NoFault})'
    BY <1>1, <1>4 DEF IInv, Booted, HandlersInv, Listening
  <2>2. PicInv'
    BY <1>1, <1>2, <1>4, <1>7 DEF PicInv
  <2> QED
    BY <1>9, <2>1, <2>2 DEF Booted
<1> QED
  BY <1>5, <1>6, <1>8, <1>10 DEF IInv

(* An exception is entered like an interrupt, without the PIC. *)
LEMMA FaultKeeps == ASSUME IInv, TakeFault PROVE IInv'
<1>1. UNCHANGED <<main, fault, handlers, irr, isr, imr>> /\ Enter(fault) /\ fault \in Faults
  BY DEF IInv, Booted, TakeFault, pic_vars
<1>2. /\ Frames' /\ stack' \in Seq(Int) /\ ctx' \in Seq(Context)
      /\ Len(ctx') = Len(ctx) + 1 /\ Len(ctx) \in Nat
      /\ \A c \in 1 .. Len(ctx) : ctx'[c] = ctx[c]
      /\ ctx'[Len(ctx) + 1] = [at |-> "stub", vector |-> fault,
                               regs |-> regs, stack |-> stack, iflag |-> iflag]
  BY <1>1, EnterFrames
<1>3. TypeOK'
  BY <1>1, <1>2 DEF IInv, TypeOK, Enter
<1>4. LinesReleased'
  <2>1. isr \subseteq Unmasked /\ (isr \subseteq Unmasked)' /\ isr' = isr
    BY <1>1 DEF IInv, Booted, PicInv
  <2>2. isr # {} => \E c \in 1 .. Len(ctx) : Acknowledging(ctx[c])
    BY <2>1, LinesReleasedKeyboard DEF IInv
  <2>3. \A c \in 1 .. Len(ctx) : c \in 1 .. Len(ctx') /\ ctx'[c] = ctx[c]
    BY <1>2
  <2> QED
    BY <2>1, <2>2, <2>3, LinesReleasedKeyboardNext
<1>5. ContextsInv'
  <2>1. ASSUME NEW c \in 1 .. Len(ctx')
        PROVE  /\ ctx'[c].vector \in Faults \union {KEYBOARD_INTERRUPT_NUMBER}
               /\ ctx'[c].vector = KEYBOARD_INTERRUPT_NUMBER =>
                    Listening /\ ctx'[c].at # "report"
               /\ ctx'[c].iflag = 1 => Listening
    <3>1. CASE c = Len(ctx) + 1
      <4>1. ctx'[c].vector = fault /\ ctx'[c].iflag = iflag
        BY <3>1, <1>2
      <4>2. fault # KEYBOARD_INTERRUPT_NUMBER
        BY <1>1, Vectors
      <4>3. iflag = 1 => Listening
        BY DEF IInv, Booted
      <4>4. fault \in Faults
        BY <1>1
      <4> HIDE DEF Listening
      <4> QED
        BY <4>1, <4>2, <4>3, <4>4
    <3>2. CASE c # Len(ctx) + 1
      BY <3>2, <1>2 DEF IInv, Booted, ContextsInv
    <3> QED BY <3>1, <3>2
  <2>2. Listening' = Listening
    BY <1>1 DEF Listening
  <2> QED
    BY <2>1, <2>2 DEF ContextsInv
<1>6. Booted'
  <2>1. iflag' = iflag
    BY <1>1 DEF Enter
  <2> QED
    BY <1>1, <1>5, <2>1 DEF IInv, Booted, HandlersInv, PicInv, Listening
<1> QED
  BY <1>2, <1>3, <1>4, <1>6 DEF IInv

(***************************************************************************)
(* The steps of a handler.                                                 *)
(***************************************************************************)

(* What kmain has set up stays, as long as no keyboard interrupt is reported. *)
LEMMA TopKeepsBooted ==
  ASSUME IInv, NEW from, NEW to \in Stages, HandlerStep(from, to),
         to = "report" => top.vector # KEYBOARD_INTERRUPT_NUMBER,
         iflag' = 1 => iflag = 1, isr' \subseteq isr
  PROVE  Booted'
<1>0. TypeOK
  BY DEF IInv
<1>1. /\ Len(ctx) \in Nat \ {0} /\ Len(ctx') = Len(ctx)
      /\ \A c \in 1 .. Len(ctx) - 1 : ctx'[c] = ctx[c]
      /\ ctx'[Len(ctx)] = [at |-> to, vector |-> top.vector, regs |-> top.regs,
                           stack |-> top.stack, iflag |-> top.iflag]
      /\ UNCHANGED <<main, fault, handlers, irr, imr>>
  BY <1>0, TopSteps
<1>2. Listening' = Listening
  BY <1>1 DEF Listening
<1>3. ASSUME NEW c \in 1 .. Len(ctx')
      PROVE  /\ ctx'[c].vector \in Faults \union {KEYBOARD_INTERRUPT_NUMBER}
             /\ ctx'[c].vector = KEYBOARD_INTERRUPT_NUMBER =>
                  Listening /\ ctx'[c].at # "report"
             /\ ctx'[c].iflag = 1 => Listening
  <2>1. /\ ctx[c].vector \in Faults \union {KEYBOARD_INTERRUPT_NUMBER}
        /\ ctx[c].vector = KEYBOARD_INTERRUPT_NUMBER => Listening /\ ctx[c].at # "report"
        /\ ctx[c].iflag = 1 => Listening
    BY <1>1 DEF IInv, Booted, ContextsInv
  <2>2. CASE c = Len(ctx)
    <3>1. ctx'[c].vector = ctx[c].vector /\ ctx'[c].iflag = ctx[c].iflag /\ ctx'[c].at = to
      BY <2>2, <1>1 DEF top
    <3>2. to = "report" => ctx[c].vector # KEYBOARD_INTERRUPT_NUMBER
      BY <2>2 DEF top
    <3> QED
      BY <2>1, <3>1, <3>2
  <2>3. CASE c # Len(ctx)
    <3>1. ctx'[c] = ctx[c]
      BY <2>3, <1>1
    <3> QED
      BY <2>1, <3>1
  <2> QED BY <2>2, <2>3
<1>4. ContextsInv'
  BY <1>2, <1>3 DEF ContextsInv
<1>5. HandlersInv' /\ PicInv'
  BY <1>1 DEF IInv, Booted, HandlersInv, PicInv
<1> QED
  BY <1>1, <1>2, <1>4, <1>5 DEF IInv, Booted

(* A line stays with the handler that will acknowledge it. *)
LEMMA TopKeepsLines ==
  ASSUME IInv, NEW from, NEW to \in Stages, HandlerStep(from, to), isr' = isr,
         Acknowledging(top) => to \in {"stub", "save", "call", "keyboard"}
  PROVE  LinesReleased'
<1>0. TypeOK
  BY DEF IInv
<1>1. /\ Len(ctx) \in Nat \ {0} /\ Len(ctx') = Len(ctx)
      /\ \A c \in 1 .. Len(ctx) - 1 : ctx'[c] = ctx[c]
      /\ ctx'[Len(ctx)] = [at |-> to, vector |-> top.vector, regs |-> top.regs,
                           stack |-> top.stack, iflag |-> top.iflag]
  BY <1>0, TopSteps
<1>2. isr \subseteq Unmasked /\ (isr \subseteq Unmasked)'
  BY DEF IInv, Booted, PicInv
<1>3. SUFFICES ASSUME isr' # {} PROVE \E c \in 1 .. Len(ctx') : Acknowledging(ctx'[c])
  BY <1>2, LinesReleasedKeyboardNext
<1>4. PICK c \in 1 .. Len(ctx) : Acknowledging(ctx[c])
  BY <1>2, <1>3, LinesReleasedKeyboard DEF IInv
<1>5. Acknowledging(ctx'[c])
  <2>1. CASE c = Len(ctx)
    BY <2>1, <1>1, <1>4 DEF Acknowledging, top
  <2>2. CASE c # Len(ctx)
    BY <2>2, <1>1, <1>4
  <2> QED BY <2>1, <2>2
<1> QED
  BY <1>1, <1>4, <1>5

(* The registers after C code are numbers. *)
LEMMA CRegisters ==
  ASSUME TypeOK, top \in Context, ReturnFromC
  PROVE  regs' \in [Registers -> Int]
<1>1. Len(ctx) \in Int
  BY DEF TypeOK
<1>2. \A r \in Registers : top.regs[r] \in Int
  BY DEF Context
<1>3. \A r \in Registers : (IF r \in CalleeSaved THEN top.regs[r] ELSE Len(ctx)) \in Int
  BY <1>1, <1>2
<1> QED
  BY <1>3 DEF ReturnFromC

(* The stub keeps the invariant. *)
LEMMA StubKeeps == ASSUME IInv, Stub PROVE IInv'
<1>1. HandlerStep("stub", "save") /\ UNCHANGED <<isr, iflag, regs>> /\ "save" \in Stages
  BY DEF Stub, Stages
<1>2. Frames' /\ stack' \in Seq(Int)
  BY StubFrames
<1>3. TypeOK'
  BY <1>1, <1>2, TopSteps DEF IInv, TypeOK
<1>4. Booted' /\ LinesReleased'
  BY <1>1, TopKeepsBooted, TopKeepsLines
<1> QED
  BY <1>2, <1>3, <1>4 DEF IInv

(* Saving the registers keeps the invariant. *)
LEMMA SaveKeeps == ASSUME IInv, Save PROVE IInv'
<1>1. HandlerStep("save", "call") /\ UNCHANGED <<isr, iflag, regs>> /\ "call" \in Stages
  BY DEF Save, Stages
<1>2. Frames' /\ stack' \in Seq(Int)
  BY SaveFrames
<1>3. TypeOK'
  BY <1>1, <1>2, TopSteps DEF IInv, TypeOK
<1>4. Booted' /\ LinesReleased'
  BY <1>1, TopKeepsBooted, TopKeepsLines
<1> QED
  BY <1>2, <1>3, <1>4 DEF IInv

(* The number on the stack is the vector, so the keyboard's interrupt comes to the
   keyboard's handler.  *)
LEMMA DispatcherKeeps == ASSUME IInv, interrupt_handler PROVE IInv'
<1> DEFINE to == IF interrupt_number \in DOMAIN handlers
                   THEN handlers[interrupt_number] ELSE "report"
<1>1. HandlerStep("call", to) /\ UNCHANGED <<isr, iflag, stack>>
  BY DEF interrupt_handler
<1>2. ctx # <<>> /\ top.at = "call"
  BY <1>1 DEF HandlerStep
<1>3. Len(ctx) \in Nat \ {0} /\ ctx \in Seq(Context) /\ top \in Context
  BY <1>2 DEF IInv, TypeOK, top
<1>4. interrupt_number = top.vector
  <2>1. PICK b \in Nat : b = Len(top.stack)
    BY <1>3 DEF Context
  <2>2. Len(stack) = b + 13 /\ stack[b + 5] = top.vector
    BY <1>2, <1>3, <2>1, TopFrame DEF Frame, Saved
  <2>3. Len(stack) - 8 = b + 5
    BY <2>2
  <2> QED
    BY <2>2, <2>3 DEF interrupt_number
<1>5. HandlersInv /\ (top.vector = KEYBOARD_INTERRUPT_NUMBER => Listening)
  <2>1. Len(ctx) \in 1 .. Len(ctx)
    BY <1>3
  <2> QED
    BY <2>1 DEF IInv, Booted, ContextsInv, top
<1>6. to \in {"keyboard", "pagefault", "report"}
  BY <1>5 DEF HandlersInv
<1>7. top.vector = KEYBOARD_INTERRUPT_NUMBER => to = "keyboard"
  BY <1>4, <1>5 DEF HandlersInv, Listening
<1> HIDE DEF to
<1>8. to \in Stages
  BY <1>6 DEF Stages
<1>9. Frames'
  BY <1>1, <1>6, HandlerFrames
<1>10. TypeOK'
  <2>1. Len(ctx) \in Int
    BY <1>3
  <2>2. regs' \in [Registers -> Int]
    BY <2>1 DEF interrupt_handler
  <2> QED
    BY <1>1, <1>8, <2>2, TopSteps DEF IInv, TypeOK
<1>11. Booted'
  BY <1>1, <1>7, <1>8, TopKeepsBooted
<1>12. LinesReleased'
  BY <1>1, <1>7, <1>8, TopKeepsLines DEF Acknowledging
<1> QED
  BY <1>9, <1>10, <1>11, <1>12 DEF IInv

(* The keyboard handler ends what is in service. *)
LEMMA KeyboardKeeps == ASSUME IInv, keyboard_interrupt_handler PROVE IInv'
<1>0. TypeOK
  BY DEF IInv
<1>1. /\ HandlerStep("keyboard", "restore") /\ UNCHANGED <<iflag, stack>>
      /\ ReturnFromC /\ "restore" \in Stages
  BY DEF keyboard_interrupt_handler, Stages
<1>2. isr' = {}
  <2>1. isr \subseteq {1}
    BY Vectors DEF IInv, Booted, PicInv
  <2>2. \A l, k \in isr : ~(k < l)
    BY <2>1
  <2> QED
    BY <2>2 DEF keyboard_interrupt_handler, pic_acknowledge
<1>3. Frames'
  BY <1>1, HandlerFrames
<1>4. TypeOK'
  BY <1>0, <1>1, TopSteps, CRegisters DEF TypeOK
<1>5. Booted'
  BY <1>1, <1>2, TopKeepsBooted
<1>6. LinesReleased'
  BY <1>2 DEF LinesReleased
<1> QED
  BY <1>3, <1>4, <1>5, <1>6 DEF IInv

(* A vector without handler is not the keyboard's. *)
LEMMA ReportKeeps == ASSUME IInv, Report PROVE IInv'
<1>0. TypeOK
  BY DEF IInv
<1>1. /\ HandlerStep("report", "restore") /\ UNCHANGED <<isr, iflag, stack>>
      /\ ReturnFromC /\ "restore" \in Stages
  BY DEF Report, Stages
<1>2. top.at = "report"
  BY <1>1 DEF HandlerStep
<1>3. Frames'
  BY <1>1, HandlerFrames
<1>4. TypeOK'
  BY <1>0, <1>1, TopSteps, CRegisters DEF TypeOK
<1>5. Booted' /\ LinesReleased'
  BY <1>1, <1>2, TopKeepsBooted, TopKeepsLines DEF Acknowledging
<1> QED
  BY <1>3, <1>4, <1>5 DEF IInv

(* The page fault handler keeps the invariant; it never comes to its end. *)
LEMMA PageFaultKeeps == ASSUME IInv, pagefault_exception_handler PROVE IInv'
<1>1. /\ HandlerStep("pagefault", "restore") /\ UNCHANGED <<isr, regs, stack>>
      /\ iflag' = 0 /\ "restore" \in Stages
  BY DEF pagefault_exception_handler, Stages
<1>2. top.at = "pagefault"
  BY <1>1 DEF HandlerStep
<1>3. Frames'
  BY <1>1, HandlerFrames
<1>4. TypeOK'
  BY <1>1, TopSteps DEF IInv, TypeOK
<1>5. Booted' /\ LinesReleased'
  BY <1>1, <1>2, TopKeepsBooted, TopKeepsLines DEF Acknowledging
<1> QED
  BY <1>3, <1>4, <1>5 DEF IInv

(* Restoring the registers keeps the invariant. *)
LEMMA RestoreKeeps == ASSUME IInv, Restore PROVE IInv'
<1>0. TypeOK
  BY DEF IInv
<1>1. /\ HandlerStep("restore", "iret") /\ UNCHANGED <<isr, iflag>> /\ "iret" \in Stages
  BY DEF Restore, Stages
<1>2. top.at = "restore" /\ top \in Context
  BY <1>0, <1>1, TopSteps
<1>3. Frames' /\ stack' \in Seq(Int) /\ regs' = top.regs
  BY RestoreFrames
<1>4. TypeOK'
  <2>1. regs' \in [Registers -> Int]
    BY <1>2, <1>3 DEF Context
  <2> QED
    BY <1>0, <1>1, <1>3, <2>1, TopSteps DEF TypeOK
<1>5. Booted' /\ LinesReleased'
  BY <1>1, <1>2, TopKeepsBooted, TopKeepsLines DEF Acknowledging
<1> QED
  BY <1>3, <1>4, <1>5 DEF IInv

(* The handler that returns has acknowledged what it had to. *)
LEMMA IretKeeps == ASSUME IInv, Iret PROVE IInv'
<1>1. UNCHANGED <<main, fault, handlers, irr, isr, imr>> /\ top.at = "iret"
  BY DEF Iret, pic_vars
<1>2. /\ Len(ctx) \in Nat \ {0} /\ top \in Context
      /\ Len(ctx') = Len(ctx) - 1 /\ ctx' \in Seq(Context)
      /\ \A c \in 1 .. Len(ctx) - 1 : ctx'[c] = ctx[c]
      /\ stack' = top.stack /\ regs' = top.regs /\ iflag' = top.iflag
  BY IretRestores
<1>3. TypeOK'
  BY <1>2 DEF TypeOK, Context
<1>4. Listening' = Listening
  BY <1>1 DEF Listening
<1>5. ContextsInv'
  <2>1. \A c \in 1 .. Len(ctx') : c \in 1 .. Len(ctx) /\ ctx'[c] = ctx[c]
    BY <1>2
  <2> QED
    BY <1>4, <2>1 DEF IInv, Booted, ContextsInv
<1>6. iflag' = 1 => Listening
  <2>1. Len(ctx) \in 1 .. Len(ctx)
    BY <1>2
  <2> QED
    BY <1>2, <2>1 DEF IInv, Booted, ContextsInv, top
<1>7. Booted'
  BY <1>1, <1>4, <1>5, <1>6 DEF IInv, Booted, HandlersInv, PicInv
<1>8. LinesReleased'
  <2>1. isr \subseteq Unmasked /\ (isr \subseteq Unmasked)'
    BY <1>1 DEF IInv, Booted, PicInv
  <2>2. SUFFICES ASSUME isr' # {} PROVE \E c \in 1 .. Len(ctx') : Acknowledging(ctx'[c])
    BY <2>1, LinesReleasedKeyboardNext
  <2>3. PICK c \in 1 .. Len(ctx) : Acknowledging(ctx[c])
    BY <1>1, <2>1, <2>2, LinesReleasedKeyboard DEF IInv
  <2>4. c # Len(ctx)
    BY <1>1, <2>3 DEF Acknowledging, top
  <2> QED
    BY <1>2, <2>3, <2>4
<1>9. Frames'
  BY IretFrames
<1> QED
  BY <1>3, <1>7, <1>8, <1>9 DEF IInv

(***************************************************************************)
(* The steps of kmain and of the devices.                                  *)
(***************************************************************************)

(* A step that enters and leaves no handler keeps the frames. *)
LEMMA SameStackKeeps ==
  ASSUME IInv, UNCHANGED <<regs, stack, ctx>>, (iflag \in {0, 1})'
  PROVE  TypeOK' /\ Frames'
<1>1. \A c \in 1 .. Len(ctx) : StackOf(c)' = StackOf(c) /\ RegsOf(c)' = RegsOf(c)
  BY DEF StackOf, RegsOf
<1>2. Frames'
  BY <1>1 DEF IInv, Frames
<1> QED
  BY <1>2 DEF IInv, TypeOK

(* While kmain runs no line is in service. *)
LEMMA MainKeeps ==
  ASSUME IInv, NEW from, NEW to, MainStep(from, to), Booted', isr' \subseteq isr,
         (iflag \in {0, 1})'
  PROVE  IInv'
<1>1. ctx = <<>> /\ UNCHANGED <<regs, stack, ctx>>
  BY DEF MainStep
<1>2. TypeOK' /\ Frames'
  BY <1>1, SameStackKeeps
<1>3. isr = {}
  BY <1>1 DEF IInv, LinesReleased
<1>4. LinesReleased'
  BY <1>3 DEF LinesReleased
<1> QED
  BY <1>2, <1>4 DEF IInv

(* The handlers assigned so far, and one more *)
LEMMA AssignKeeps ==
  ASSUME NEW v, NEW h, assign_interrupt_handler(v, h)
  PROVE  /\ DOMAIN handlers' = DOMAIN handlers \union {v}
         /\ \A u \in DOMAIN handlers' : handlers'[u] = IF u = v THEN h ELSE handlers[u]
  BY DEF assign_interrupt_handler

(* The steps of kmain keep the invariant. *)
LEMMA BootKeeps == ASSUME IInv, Boot PROVE IInv'
<1>1. CASE install_pic
  <2>1. /\ MainStep("start", "pic") /\ main = "start" /\ main' = "pic" /\ isr' = {}
        /\ irr' = {} /\ imr' = Lines \ Unmasked
        /\ UNCHANGED <<fault, handlers, iflag, ctx>> /\ ctx = <<>>
    BY <1>1 DEF install_pic, MainStep
  <2>2. Booted'
    BY <2>1 DEF IInv, Booted, Listening, HandlersInv, PicInv, ContextsInv
  <2> QED
    BY <2>1, <2>2, MainKeeps DEF IInv, TypeOK
<1>2. CASE install_keyboard
  <2>1. /\ MainStep("pic", "keyboard") /\ main = "pic" /\ main' = "keyboard"
        /\ assign_interrupt_handler(KEYBOARD_INTERRUPT_NUMBER, "keyboard")
        /\ UNCHANGED <<fault, irr, isr, imr, iflag, ctx>> /\ ctx = <<>>
    BY <1>2 DEF install_keyboard, MainStep, pic_vars
  <2>2. HandlersInv'
    <3>1. /\ DOMAIN handlers' = DOMAIN handlers \union {KEYBOARD_INTERRUPT_NUMBER}
          /\ \A u \in DOMAIN handlers' :
               handlers'[u] = IF u = KEYBOARD_INTERRUPT_NUMBER THEN "keyboard" ELSE handlers[u]
      BY <2>1, AssignKeeps
    <3>2. KEYBOARD_INTERRUPT_NUMBER # PAGEFAULT_INTERRUPT_NUMBER
      BY Vectors
    <3>3. HandlersInv
      BY DEF IInv, Booted
    <3> QED
      BY <2>1, <3>1, <3>2, <3>3 DEF HandlersInv
  <2>3. Booted'
    BY <2>1, <2>2 DEF IInv, Booted, Listening, PicInv, ContextsInv
  <2> QED
    BY <2>1, <2>3, MainKeeps DEF IInv, TypeOK
<1>3. CASE enable_interrupts
  <2>1. /\ MainStep("keyboard", "interrupts") /\ main = "keyboard" /\ main' = "interrupts"
        /\ iflag' = 1
        /\ UNCHANGED <<fault, handlers, irr, isr, imr, ctx>> /\ ctx = <<>>
    BY <1>3 DEF enable_interrupts, MainStep, pic_vars
  <2>2. Booted'
    BY <2>1 DEF IInv, Booted, Listening, HandlersInv, PicInv, ContextsInv
  <2> QED
    BY <2>1, <2>2, MainKeeps
<1>4. CASE enable_exceptions
  <2>1. /\ MainStep("interrupts", "exceptions") /\ main = "interrupts" /\ main' = "exceptions"
        /\ assign_interrupt_handler(PAGEFAULT_INTERRUPT_NUMBER, "pagefault")
        /\ UNCHANGED <<fault, irr, isr, imr, iflag, ctx>> /\ ctx = <<>>
    BY <1>4 DEF enable_exceptions, MainStep, pic_vars
  <2>2. HandlersInv'
    <3>1. /\ DOMAIN handlers' = DOMAIN handlers \union {PAGEFAULT_INTERRUPT_NUMBER}
          /\ \A u \in DOMAIN handlers' :
               handlers'[u] = IF u = PAGEFAULT_INTERRUPT_NUMBER THEN "pagefault" ELSE handlers[u]
      BY <2>1, AssignKeeps
    <3>2. KEYBOARD_INTERRUPT_NUMBER # PAGEFAULT_INTERRUPT_NUMBER
      BY Vectors
    <3>3. HandlersInv
      BY DEF IInv, Booted
    <3> QED
      BY <2>1, <3>1, <3>2, <3>3 DEF HandlersInv
  <2>3. Booted'
    BY <2>1, <2>2 DEF IInv, Booted, Listening, PicInv, ContextsInv
  <2> QED
    BY <2>1, <2>3, MainKeeps DEF IInv, TypeOK
<1>5. CASE enter_user_mode
  <2>1. /\ MainStep("exceptions", "user") /\ main = "exceptions" /\ main' = "user"
        /\ iflag' = 0
        /\ UNCHANGED <<fault, handlers, irr, isr, imr, ctx>> /\ ctx = <<>>
    BY <1>5 DEF enter_user_mode, MainStep, pic_vars
  <2>2. Booted'
    BY <2>1 DEF IInv, Booted, Listening, HandlersInv, PicInv, ContextsInv
  <2> QED
    BY <2>1, <2>2, MainKeeps
<1> QED
  BY <1>1, <1>2, <1>3, <1>4, <1>5 DEF Boot

(* The invariant holds when kmain starts. *)
LEMMA InterruptsInitial == Init => IInv
<1> SUFFICES ASSUME Init PROVE IInv
  OBVIOUS
<1>1. ctx = <<>> /\ Len(ctx) = 0
  BY DEF Init
<1>2. TypeOK
  BY DEF Init, TypeOK
<1>3. Booted
  BY <1>1 DEF Init, Booted, Listening, HandlersInv, PicInv, ContextsInv
<1>4. Frames /\ LinesReleased
  BY <1>1 DEF Init, Frames, LinesReleased
<1> QED
  BY <1>2, <1>3, <1>4 DEF IInv

(* Every step keeps the invariant. *)
LEMMA InterruptsStep == IInv /\ [Next]_vars => IInv'
<1> SUFFICES ASSUME IInv, [Next]_vars PROVE IInv'
  OBVIOUS
<1>1. ASSUME NEW line \in Lines, Raise(line) PROVE IInv'
  <2>1. /\ UNCHANGED <<main, fault, handlers, isr, imr, iflag, regs, stack, ctx>>
        /\ irr' = irr \union {line}
    BY <1>1 DEF Raise, cpu_vars
  <2>2. TypeOK' /\ Frames'
    BY <2>1, SameStackKeeps DEF IInv, TypeOK
  <2>3. Booted' /\ LinesReleased'
    BY <2>1 DEF IInv, Booted, Listening, HandlersInv, PicInv, ContextsInv, LinesReleased
  <2> QED
    BY <2>2, <2>3 DEF IInv
<1>2. ASSUME NEW v \in Faults, Fault(v) PROVE IInv'
  <2>1. UNCHANGED <<main, handlers, irr, isr, imr, iflag, regs, stack, ctx>> /\ fault' = v
    BY <1>2 DEF Fault, pic_vars, cpu_vars
  <2>2. TypeOK' /\ Frames'
    BY <2>1, SameStackKeeps DEF IInv, TypeOK
  <2>3. Booted' /\ LinesReleased'
    BY <2>1 DEF IInv, Booted, Listening, HandlersInv, PicInv, ContextsInv, LinesReleased
  <2> QED
    BY <2>2, <2>3 DEF IInv
<1>3. CASE UNCHANGED vars
  <2>1. UNCHANGED <<main, fault, handlers, irr, isr, imr, iflag, regs, stack, ctx>>
    BY <1>3 DEF vars, pic_vars, cpu_vars
  <2>2. TypeOK' /\ Frames'
    BY <2>1, SameStackKeeps DEF IInv, TypeOK
  <2>3. Booted' /\ LinesReleased'
    BY <2>1 DEF IInv, Booted, Listening, HandlersInv, PicInv, ContextsInv, LinesReleased
  <2> QED
    BY <2>2, <2>3 DEF IInv
<1>4. CASE Dispatch
  BY <1>4, DispatchKeeps
<1>5. CASE TakeFault
  BY <1>5, FaultKeeps
<1>6. CASE Boot
  BY <1>6, BootKeeps
<1>7. CASE Handler
  BY <1>7, StubKeeps, SaveKeeps, DispatcherKeeps, KeyboardKeeps, ReportKeeps,
     PageFaultKeeps, RestoreKeeps, IretKeeps DEF Handler
<1> QED
  BY <1>1, <1>2, <1>3, <1>4, <1>5, <1>6, <1>7 DEF Next

(***************************************************************************)
(* The theorems.                                                           *)
(***************************************************************************)

(* The invariant of the stack, the boot and the PIC always holds. *)
THEOREM InvariantHolds == Spec => []IInv
<1>1. Init => IInv
  BY InterruptsInitial
<1>2. IInv /\ [Next]_vars => IInv'
  BY InterruptsStep
<1> QED
  BY <1>1, <1>2, PTL DEF Spec

(* A line in service is always one a handler will acknowledge. *)
THEOREM LinesAreReleased == Spec => []LinesReleased
<1>1. IInv => LinesReleased
  BY DEF IInv
<1> QED
  BY <1>1, InvariantHolds, PTL

(* No hardware interrupt ends in a message. *)
THEOREM DevicesSilent == Spec => []DevicesDoNotPrint
<1>1. IInv => DevicesDoNotPrint
  <2> SUFFICES ASSUME IInv, NEW c \in 1 .. Len(ctx), ctx[c].at = "report"
               PROVE  ctx[c].vector < PIC1_START_INTERRUPT
    BY DEF DevicesDoNotPrint
  <2>1. ctx[c].vector \in Faults
    BY DEF IInv, Booted, ContextsInv
  <2> QED
    BY <2>1, Vectors
<1> QED
  BY <1>1, InvariantHolds, PTL

(* Only an iret takes a handler away. *)
LEMMA OnlyIretReturns ==
  ASSUME IInv, Next, Len(ctx') < Len(ctx)
  PROVE  Iret
<1>0. TypeOK /\ Len(ctx) \in Nat /\ ctx \in Seq(Context)
  BY DEF IInv, TypeOK
<1>1. ASSUME NEW v, Enter(v) PROVE FALSE
  <2>1. PICK k : ctx' = Append(ctx, k)
    BY <1>1 DEF Enter
  <2>2. Len(ctx') = Len(ctx) + 1
    BY <1>0, <2>1
  <2> QED
    BY <1>0, <2>2
<1>2. ASSUME NEW from, NEW to, HandlerStep(from, to) PROVE FALSE
  <2>1. Len(ctx') = Len(ctx)
    BY <1>0, <1>2 DEF HandlerStep
  <2> QED
    BY <1>0, <2>1
<1>3. ASSUME ctx' = ctx PROVE FALSE
  BY <1>0, <1>3
<1>4. CASE Dispatch \/ TakeFault
  BY <1>1, <1>4 DEF Dispatch, TakeFault
<1>5. CASE Boot
  BY <1>3, <1>5 DEF Boot, MainStep, install_pic, install_keyboard, enable_interrupts,
                    enable_exceptions, enter_user_mode
<1>6. CASE \/ \E line \in Lines : Raise(line)
           \/ \E v \in Faults : Fault(v)
  BY <1>3, <1>6 DEF Raise, Fault, cpu_vars
<1>7. CASE Handler
  BY <1>2, <1>7 DEF Handler, Stub, Save, interrupt_handler, keyboard_interrupt_handler,
                    Report, pagefault_exception_handler, Restore
<1> QED
  BY <1>4, <1>5, <1>6, <1>7 DEF Next

(* Whatever was interrupted goes on as it was, however deep handlers nest. *)
THEOREM Resumption == Spec => ResumesAsInterrupted
<1>1. ASSUME IInv, [Next]_vars
      PROVE  [Len(ctx') < Len(ctx) =>
                /\ regs' = top.regs /\ stack' = top.stack /\ iflag' = top.iflag
                /\ stack[Len(stack)] = Len(ctx')]_vars
  <2> SUFFICES ASSUME ~(UNCHANGED vars), Len(ctx') < Len(ctx)
               PROVE  /\ regs' = top.regs /\ stack' = top.stack /\ iflag' = top.iflag
                      /\ stack[Len(stack)] = Len(ctx')
    OBVIOUS
  <2>1. Iret
    BY <1>1, OnlyIretReturns
  <2> QED
    BY <1>1, <2>1, IretRestores
<1> QED
  BY <1>1, InvariantHolds, PTL DEF Spec, ResumesAsInterrupted

(* A processor that waits after cli has nothing left to wake it. *)
HaltInv == halted => iflag = 0 /\ ctx # <<>> /\ halted = TRUE

(* Halting is an invariant of its own: only hlt after cli sets it. *)
LEMMA HaltStep ==
  ASSUME HaltInv, [Next]_vars
  PROVE  HaltInv' /\ (halted => halted')
<1>1. CASE UNCHANGED vars
  BY <1>1 DEF vars, cpu_vars, HaltInv
<1>2. CASE \/ \E line \in Lines : Raise(line)
           \/ \E v \in Faults : Fault(v)
  BY <1>2 DEF Raise, Fault, cpu_vars, HaltInv
<1>3. CASE Dispatch
  <2>1. ~halted /\ halted' = FALSE
    BY <1>3 DEF Dispatch, HaltInv
  <2> QED
    BY <2>1 DEF HaltInv
<1>4. CASE TakeFault
  <2>1. ~halted /\ halted' = halted
    BY <1>4 DEF TakeFault, HaltInv
  <2> QED
    BY <2>1 DEF HaltInv
<1>5. CASE Boot
  <2>1. ~halted /\ halted' = halted
    BY <1>5 DEF Boot, MainStep, HaltInv, install_pic, install_keyboard,
                enable_interrupts, enable_exceptions, enter_user_mode
  <2> QED
    BY <2>1 DEF HaltInv
<1>6. CASE pagefault_exception_handler
  <2>1. ctx # <<>> /\ ~halted /\ halted' = TRUE /\ iflag' = 0
    BY <1>6 DEF pagefault_exception_handler, HandlerStep
  <2>2. PICK k : ctx' = [ctx EXCEPT ![Len(ctx)] = k]
    BY <1>6 DEF pagefault_exception_handler, HandlerStep
  <2>3. ctx' # <<>>
    BY <2>1, <2>2
  <2> QED
    BY <2>1, <2>3 DEF HaltInv
<1>7. CASE Stub \/ Save \/ interrupt_handler \/ keyboard_interrupt_handler
           \/ Report \/ Restore \/ Iret
  <2>1. ~halted /\ halted' = halted
    BY <1>7 DEF Stub, Save, interrupt_handler, keyboard_interrupt_handler, Report,
                Restore, Iret, HandlerStep
  <2> QED
    BY <2>1 DEF HaltInv
<1> QED
  BY <1>1, <1>2, <1>3, <1>4, <1>5, <1>6, <1>7 DEF Next, Handler

(* After a page fault the processor halts for good: the part of PageFaultHalts that
   is not about fairness.  *)
THEOREM HaltIsFinal == Spec => [][halted => halted']_vars
<1>1. Init => HaltInv
  BY DEF Init, HaltInv
<1>2. HaltInv /\ [Next]_vars => HaltInv' /\ [halted => halted']_vars
  BY HaltStep
<1> QED
  BY <1>1, <1>2, PTL DEF Spec

===============================================================================
