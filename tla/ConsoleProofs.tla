----------------------------- MODULE ConsoleProofs -----------------------------
(***************************************************************************)
(* The serial port loses at most the last byte of a string, for strings of *)
(* any length, any number of calls, a FIFO of any size and a UART as slow  *)
(* as it likes; and printf prints what its format says, for every format   *)
(* without a length modifier, all arguments and words of every size.       *)
(*                                                                         *)
(* serial_write waits for an empty FIFO before each byte, so that the FIFO *)
(* never holds more than the byte written last; what the next call clears  *)
(* is then the last byte of the call before.                               *)
(*                                                                         *)
(* Of printf, what is out and what the rest of the format prints of the    *)
(* rest of the arguments always make up the whole; while a number is       *)
(* divided, its sign, the notation of what is left and the buffer read     *)
(* backwards stand between them.  That its divisions are right is the      *)
(* invariant of WordsProofs.                                               *)
(***************************************************************************)
EXTENDS Console, WordsProofs, SequenceTheorems, WellFoundedInduction, TLAPS

Byte == Nat \X Nat \X BOOLEAN

(* What has been written and will be, and what has left the kernel's hands *)
Strings == sent \o text
Leaving == wire \o shift \o fifo

SerialTypes ==
  /\ sent \in Seq(Byte) /\ text \in Seq(Byte)
  /\ wire \in Seq(Byte) /\ shift \in Seq(Byte) /\ fifo \in Seq(Byte)
  /\ calls \in Nat

(* The FIFO holds nothing or the byte written last. *)
FifoHoldsLast ==
  fifo = <<>> \/ (sent # <<>> /\ fifo = <<sent[Len(sent)]>>)

(* Between two strings the byte written last was the last of its string. *)
StringsEnd ==
  /\ at \notin {"configure", "write"} => text = <<>>
  /\ at # "write" \/ text = <<>> => sent = <<>> \/ sent[Len(sent)][3]
  /\ text = <<>> \/ text[Len(text)][3]

(* Every byte written and to be written is of a call made, in order. *)
StringsInOrder ==
  /\ InOrder(Strings)
  /\ \A i \in DOMAIN Strings : Strings[i][1] < calls

(* The inductive invariant *)
SerialInv ==
  /\ SerialTypes /\ FifoHoldsLast /\ StringsEnd /\ StringsInOrder
  /\ OnlyLastByteLost

(***************************************************************************)
(* Sequences of bytes.                                                     *)
(***************************************************************************)

(* The elements of a sequence, by their places *)
LEMMA Elements ==
  ASSUME NEW s \in Seq(Byte)
  PROVE  /\ Len(s) \in Nat /\ DOMAIN s = 1 .. Len(s)
         /\ \A i \in 1 .. Len(s) : s[i] \in Byte
         /\ s # <<>> <=> Len(s) > 0
         /\ \A b : b \in ToSet(s) <=> \E i \in 1 .. Len(s) : b = s[i]
BY LenProperties, EmptySeq DEF ToSet

(* The places of a concatenation *)
LEMMA ConcatElements ==
  ASSUME NEW s \in Seq(Byte), NEW t \in Seq(Byte)
  PROVE  /\ s \o t \in Seq(Byte) /\ Len(s \o t) = Len(s) + Len(t)
         /\ \A i \in 1 .. Len(s) : (s \o t)[i] = s[i]
         /\ \A i \in 1 .. Len(t) : (s \o t)[Len(s) + i] = t[i]
<1>1. /\ s \o t \in Seq(Byte) /\ Len(s \o t) = Len(s) + Len(t)
      /\ \A i \in 1 .. Len(s) + Len(t) :
           (s \o t)[i] = IF i <= Len(s) THEN s[i] ELSE t[i - Len(s)]
  BY ConcatProperties
<1>2. Len(s) \in Nat /\ Len(t) \in Nat
  BY Elements
<1>3. ASSUME NEW i \in 1 .. Len(t)
      PROVE  (s \o t)[Len(s) + i] = t[i]
  <2>1. Len(s) + i \in 1 .. Len(s) + Len(t) /\ ~(Len(s) + i <= Len(s)) /\ Len(s) + i - Len(s) = i
    BY <1>2
  <2> QED
    BY <1>1, <2>1
<1>4. \A i \in 1 .. Len(s) : i \in 1 .. Len(s) + Len(t) /\ i <= Len(s)
  BY <1>2
<1> QED
  BY <1>1, <1>3, <1>4

(* Two sequences in order are in order one after the other, if every byte of the first is
   before every byte of the second; and only if.  *)
LEMMA ConcatInOrder ==
  ASSUME NEW s \in Seq(Byte), NEW t \in Seq(Byte)
  PROVE  InOrder(s \o t) <=>
           /\ InOrder(s) /\ InOrder(t)
           /\ \A i \in 1 .. Len(s), j \in 1 .. Len(t) : Before(s[i], t[j])
<1>1. /\ s \o t \in Seq(Byte) /\ Len(s \o t) = Len(s) + Len(t)
      /\ \A i \in 1 .. Len(s) : (s \o t)[i] = s[i]
      /\ \A i \in 1 .. Len(t) : (s \o t)[Len(s) + i] = t[i]
  BY ConcatElements
<1>2. /\ Len(s) \in Nat /\ Len(t) \in Nat
      /\ DOMAIN s = 1 .. Len(s) /\ DOMAIN t = 1 .. Len(t)
      /\ DOMAIN (s \o t) = 1 .. Len(s) + Len(t)
  BY <1>1, Elements
<1>3. ASSUME InOrder(s \o t)
      PROVE  /\ InOrder(s) /\ InOrder(t)
             /\ \A i \in 1 .. Len(s), j \in 1 .. Len(t) : Before(s[i], t[j])
  <2>1. ASSUME NEW i \in 1 .. Len(s), NEW j \in 1 .. Len(s), i < j
        PROVE  Before(s[i], s[j])
    <3>1. i \in DOMAIN (s \o t) /\ j \in DOMAIN (s \o t)
      BY <1>2
    <3>2. Before((s \o t)[i], (s \o t)[j])
      BY <1>3, <2>1, <3>1 DEF InOrder
    <3> QED
      BY <1>1, <3>2
  <2>2. ASSUME NEW i \in 1 .. Len(t), NEW j \in 1 .. Len(t), i < j
        PROVE  Before(t[i], t[j])
    <3>1. Len(s) + i \in DOMAIN (s \o t) /\ Len(s) + j \in DOMAIN (s \o t) /\ Len(s) + i < Len(s) + j
      BY <1>2, <2>2
    <3>2. Before((s \o t)[Len(s) + i], (s \o t)[Len(s) + j])
      BY <1>3, <3>1 DEF InOrder
    <3> QED
      BY <1>1, <3>2
  <2>3. ASSUME NEW i \in 1 .. Len(s), NEW j \in 1 .. Len(t)
        PROVE  Before(s[i], t[j])
    <3>1. i \in DOMAIN (s \o t) /\ Len(s) + j \in DOMAIN (s \o t) /\ i < Len(s) + j
      BY <1>2
    <3>2. Before((s \o t)[i], (s \o t)[Len(s) + j])
      BY <1>3, <3>1 DEF InOrder
    <3> QED
      BY <1>1, <3>2
  <2> QED
    BY <1>2, <2>1, <2>2, <2>3 DEF InOrder
<1>4. ASSUME InOrder(s), InOrder(t),
             \A i \in 1 .. Len(s), j \in 1 .. Len(t) : Before(s[i], t[j]),
             NEW i \in 1 .. Len(s) + Len(t), NEW j \in 1 .. Len(s) + Len(t), i < j
      PROVE  Before((s \o t)[i], (s \o t)[j])
  <2>1. CASE j <= Len(s)
    <3>1. i \in 1 .. Len(s) /\ j \in 1 .. Len(s)
      BY <1>2, <1>4, <2>1
    <3>2. Before(s[i], s[j])
      BY <1>2, <1>4, <3>1 DEF InOrder
    <3> QED
      BY <1>1, <3>1, <3>2
  <2>2. CASE i <= Len(s) /\ j > Len(s)
    <3>1. PICK k \in 1 .. Len(t) : j = Len(s) + k
      <4>1. j - Len(s) \in 1 .. Len(t) /\ j = Len(s) + (j - Len(s))
        BY <1>2, <2>2
      <4> QED
        BY <4>1
    <3>2. i \in 1 .. Len(s)
      BY <1>2, <2>2
    <3>3. Before(s[i], t[k])
      BY <1>4, <3>2
    <3> QED
      BY <1>1, <3>1, <3>2, <3>3
  <2>3. CASE i > Len(s)
    <3>1. PICK k \in 1 .. Len(t), l \in 1 .. Len(t) : i = Len(s) + k /\ j = Len(s) + l /\ k < l
      <4>1. /\ i - Len(s) \in 1 .. Len(t) /\ i = Len(s) + (i - Len(s))
            /\ j - Len(s) \in 1 .. Len(t) /\ j = Len(s) + (j - Len(s))
            /\ i - Len(s) < j - Len(s)
        BY <1>2, <1>4, <2>3
      <4> QED
        BY <4>1
    <3>2. Before(t[k], t[l])
      BY <1>2, <1>4, <3>1 DEF InOrder
    <3> QED
      BY <1>1, <3>1, <3>2
  <2> QED
    BY <1>2, <2>1, <2>2, <2>3
<1> QED
  BY <1>2, <1>3, <1>4 DEF InOrder

(* A concatenation has the elements of both. *)
LEMMA ConcatToSet ==
  ASSUME NEW s \in Seq(Byte), NEW t \in Seq(Byte)
  PROVE  ToSet(s \o t) = ToSet(s) \union ToSet(t)
<1>1. /\ s \o t \in Seq(Byte) /\ Len(s \o t) = Len(s) + Len(t)
      /\ \A i \in 1 .. Len(s) : (s \o t)[i] = s[i]
      /\ \A i \in 1 .. Len(t) : (s \o t)[Len(s) + i] = t[i]
  BY ConcatElements
<1>2. /\ Len(s) \in Nat /\ \A b : b \in ToSet(s) <=> \E i \in 1 .. Len(s) : b = s[i]
  BY Elements
<1>3. /\ Len(t) \in Nat /\ \A b : b \in ToSet(t) <=> \E i \in 1 .. Len(t) : b = t[i]
  BY Elements
<1>4. \A b : b \in ToSet(s \o t) <=> \E i \in 1 .. Len(s) + Len(t) : b = (s \o t)[i]
  <2>1. PICK u \in Seq(Byte) : u = s \o t
    BY <1>1
  <2>2. \A b : b \in ToSet(u) <=> \E i \in 1 .. Len(u) : b = u[i]
    BY Elements
  <2> QED
    BY <1>1, <2>1, <2>2
<1>5. ASSUME NEW i \in 1 .. Len(s) + Len(t)
      PROVE  i \in 1 .. Len(s) \/ \E k \in 1 .. Len(t) : i = Len(s) + k
  <2>1. CASE i <= Len(s)
    BY <1>2, <1>3, <2>1
  <2>2. CASE i > Len(s)
    <3>1. i - Len(s) \in 1 .. Len(t) /\ i = Len(s) + (i - Len(s))
      BY <1>2, <1>3, <2>2
    <3> QED
      BY <3>1
  <2> QED
    BY <1>2, <1>3, <2>1, <2>2
<1>6. /\ \A i \in 1 .. Len(s) : i \in 1 .. Len(s) + Len(t)
      /\ \A i \in 1 .. Len(t) : Len(s) + i \in 1 .. Len(s) + Len(t)
  BY <1>2, <1>3
<1>7. ASSUME NEW b \in ToSet(s \o t)
      PROVE  b \in ToSet(s) \/ b \in ToSet(t)
  <2>1. PICK i \in 1 .. Len(s) + Len(t) : b = (s \o t)[i]
    BY <1>4
  <2>2. CASE i \in 1 .. Len(s)
    BY <1>1, <1>2, <2>1, <2>2
  <2>3. CASE \E k \in 1 .. Len(t) : i = Len(s) + k
    BY <1>1, <1>3, <2>1, <2>3
  <2> QED
    BY <1>5, <2>2, <2>3
<1>8. ASSUME NEW b, b \in ToSet(s) \/ b \in ToSet(t)
      PROVE  b \in ToSet(s \o t)
  <2>1. CASE b \in ToSet(s)
    BY <1>1, <1>2, <1>6, <1>4, <2>1
  <2>2. CASE b \in ToSet(t)
    BY <1>1, <1>6, <1>3, <1>4, <2>2
  <2> QED
    BY <1>8, <2>1, <2>2
<1> QED
  BY <1>7, <1>8

(* Three strings in a row *)
LEMMA ThreeStrings ==
  ASSUME NEW s \in Seq(Byte), NEW t \in Seq(Byte), NEW u \in Seq(Byte)
  PROVE  (s \o t) \o u = s \o (t \o u)
BY ConcatAssociative

(* One byte *)
LEMMA OneByte ==
  ASSUME NEW b \in Byte
  PROVE  /\ <<b>> \in Seq(Byte) /\ Len(<<b>>) = 1 /\ <<b>>[1] = b
         /\ ToSet(<<b>>) = {b} /\ InOrder(<<b>>)
<1>1. <<b>> \in Seq(Byte) /\ Len(<<b>>) = 1 /\ <<b>>[1] = b
  OBVIOUS
<1>2. DOMAIN <<b>> = {1}
  BY <1>1, Elements
<1>3. ToSet(<<b>>) = {b}
  BY <1>1, <1>2 DEF ToSet
<1>4. InOrder(<<b>>)
  BY <1>2 DEF InOrder
<1> QED
  BY <1>1, <1>3, <1>4

(* A sequence is its first byte and the rest. *)
LEMMA HeadAndTail ==
  ASSUME NEW s \in Seq(Byte), s # <<>>
  PROVE  /\ Head(s) \in Byte /\ Head(s) = s[1] /\ Tail(s) \in Seq(Byte)
         /\ s = <<Head(s)>> \o Tail(s)
         /\ Tail(s) # <<>> => Tail(s)[Len(Tail(s))] = s[Len(s)]
         /\ Tail(s) = <<>> => Head(s) = s[Len(s)]
<1>1. /\ Head(s) \in Byte /\ Head(s) = s[1] /\ Tail(s) \in Seq(Byte)
      /\ Len(Tail(s)) = Len(s) - 1
      /\ \A i \in 1 .. Len(Tail(s)) : Tail(s)[i] = s[i + 1]
  BY HeadTailProperties
<1>2. Len(s) \in Nat /\ Len(s) > 0 /\ (Tail(s) # <<>> <=> Len(Tail(s)) > 0)
  BY <1>1, Elements
<1>3. s = <<Head(s)>> \o Tail(s)
  <2> DEFINE u == <<Head(s)>>
             w == u \o Tail(s)
  <2>1. u \in Seq(Byte) /\ Len(u) = 1 /\ u[1] = Head(s)
    BY <1>1, OneByte
  <2> HIDE DEF u
  <2>2. /\ w \in Seq(Byte) /\ Len(w) = Len(u) + Len(Tail(s))
        /\ \A i \in 1 .. Len(u) : w[i] = u[i]
        /\ \A i \in 1 .. Len(Tail(s)) : w[Len(u) + i] = Tail(s)[i]
    BY <1>1, <2>1, ConcatElements
  <2> HIDE DEF w
  <2>3. ASSUME NEW i \in 1 .. Len(s) PROVE s[i] = w[i]
    <3>1. CASE i = 1
      BY <1>1, <2>1, <2>2, <3>1
    <3>2. CASE i # 1
      <4>1. i - 1 \in 1 .. Len(Tail(s)) /\ Len(u) + (i - 1) = i /\ (i - 1) + 1 = i
        BY <1>1, <1>2, <2>1, <3>2
      <4>2. w[Len(u) + (i - 1)] = Tail(s)[i - 1] /\ Tail(s)[i - 1] = s[(i - 1) + 1]
        BY <1>1, <2>2, <4>1
      <4> QED
        BY <4>1, <4>2
    <3> QED BY <3>1, <3>2
  <2>4. Len(s) = Len(w)
    BY <1>1, <1>2, <2>1, <2>2
  <2>5. s = w
    BY <2>2, <2>3, <2>4, SeqEqual
  <2> QED
    BY <2>5 DEF w, u
<1>4. ASSUME Tail(s) # <<>> PROVE Tail(s)[Len(Tail(s))] = s[Len(s)]
  <2>1. Len(Tail(s)) \in 1 .. Len(Tail(s)) /\ Len(Tail(s)) + 1 = Len(s)
    BY <1>1, <1>2, <1>4
  <2>2. Tail(s)[Len(Tail(s))] = s[Len(Tail(s)) + 1]
    BY <1>1, <2>1
  <2> QED
    BY <2>1, <2>2
<1>5. ASSUME Tail(s) = <<>> PROVE Head(s) = s[Len(s)]
  <2>1. Len(s) = 1
    BY <1>1, <1>2, <1>5
  <2> QED
    BY <1>1, <2>1
<1> QED
  BY <1>1, <1>3, <1>4, <1>5

(***************************************************************************)
(* The steps.                                                              *)
(***************************************************************************)

(* The bytes of a string, in order; the last is marked. *)
LEMMA TextFacts ==
  ASSUME calls \in Nat, NEW n \in Nat
  PROVE  /\ TextOf(n) \in Seq(Byte) /\ Len(TextOf(n)) = n
         /\ \A i \in 1 .. n : TextOf(n)[i] = <<calls, i, i = n>>
         /\ InOrder(TextOf(n))
         /\ TextOf(n) = <<>> \/ TextOf(n)[Len(TextOf(n))][3]
<1>1. /\ Len(TextOf(n)) = n /\ DOMAIN TextOf(n) = 1 .. n
      /\ \A i \in 1 .. n : TextOf(n)[i] = <<calls, i, i = n>>
  BY DEF TextOf
<1>2. TextOf(n) \in Seq(Byte)
  <2>1. ASSUME NEW i \in 1 .. n PROVE <<calls, i, i = n>> \in Byte
    <3>1. PICK last \in BOOLEAN : last = (i = n)
      OBVIOUS
    <3>2. <<calls, i, last>> \in Byte
      BY DEF Byte
    <3> QED
      BY <3>1, <3>2
  <2>2. TextOf(n) \in [1 .. n -> Byte]
    BY <2>1 DEF TextOf
  <2> QED
    BY <2>2, SeqDef
<1>3. InOrder(TextOf(n))
  BY <1>1 DEF InOrder, Before
<1>4. ASSUME TextOf(n) # <<>> PROVE TextOf(n)[Len(TextOf(n))][3]
  <2>1. n \in 1 .. n
    BY <1>1, <1>2, <1>4, Elements
  <2>2. TextOf(n)[n] = <<calls, n, TRUE>>
    BY <1>1, <2>1
  <2> QED
    BY <1>1, <2>2
<1> QED
  BY <1>1, <1>2, <1>3, <1>4

(* The port is empty when the kernel starts. *)
LEMMA InitSerial == Init => SerialInv
<1> SUFFICES ASSUME Init PROVE SerialInv
  OBVIOUS
<1>1. /\ sent = <<>> /\ text = <<>> /\ wire = <<>> /\ shift = <<>> /\ fifo = <<>>
      /\ calls = 0 /\ at = "idle"
  BY DEF Init
<1>2. <<>> \in Seq(Byte) /\ <<>> \o <<>> = <<>>
  BY EmptySeq, ConcatEmptySeq
<1>3. DOMAIN <<>> = {} /\ ToSet(<<>>) = {}
  BY DEF ToSet
<1>4. SerialTypes /\ FifoHoldsLast /\ StringsEnd
  BY <1>1, <1>2 DEF SerialTypes, FifoHoldsLast, StringsEnd
<1>5. Strings = <<>> /\ Leaving = <<>>
  BY <1>1, <1>2 DEF Strings, Leaving
<1>6. StringsInOrder
  BY <1>3, <1>5 DEF StringsInOrder, InOrder
<1>7. OnlyLastByteLost
  BY <1>1, <1>3, <1>5 DEF OnlyLastByteLost, InOrder, Leaving
<1> QED
  BY <1>4, <1>6, <1>7 DEF SerialInv

(* Steps that leave the port and the strings alone *)
LEMMA PortKept ==
  ASSUME SerialInv, UNCHANGED <<serial_vars, calls>>,
         at' = at \/ (at \notin {"configure", "write"} /\ at' \notin {"configure", "write"})
           \/ (at = "write" /\ text = <<>> /\ at' = "idle")
  PROVE  SerialInv'
<1>1. UNCHANGED <<text, fifo, shift, wire, sent, calls>>
  BY DEF serial_vars, uart_vars
<1>2. SerialTypes' /\ FifoHoldsLast' /\ StringsInOrder' /\ OnlyLastByteLost'
  BY <1>1 DEF SerialInv, SerialTypes, FifoHoldsLast, StringsInOrder, Strings, OnlyLastByteLost
<1>3. StringsEnd'
  BY <1>1 DEF SerialInv, StringsEnd
<1> QED
  BY <1>2, <1>3 DEF SerialInv

(* Nothing in printf and in the divisions touches the port. *)
LEMMA PrintfKeeps ==
  ASSUME SerialInv,
         \/ \E f \in Formats, args \in Arguments : printf(f, args)
         \/ PrintfStep \/ OtherCall \/ OtherStep
  PROVE  SerialInv'
<1>1. UNCHANGED <<serial_vars, calls>>
  BY DEF printf, PrintfStep, Normal, LengthModifier, Specifier, Number, DigitDivision,
         Digit, Emit, EndOfFormat, Keep, OtherCall, OtherStep
<1>2. at \notin {"configure", "write"}
  BY DEF printf, PrintfStep, Normal, LengthModifier, Specifier, Number, DigitDivision,
         Digit, Emit, EndOfFormat, OtherCall, OtherStep, First, Parsing, AtSpecifier
<1>3. at' \notin {"configure", "write"}
  BY <1>2 DEF printf, PrintfStep, Normal, LengthModifier, Specifier, Number, DigitDivision,
         Digit, Emit, EndOfFormat, OtherCall, OtherStep, First, Parsing, AtSpecifier
<1> QED
  BY <1>1, <1>2, <1>3, PortKept

(* The next string belongs after all written before. *)
LEMMA AprintfSerial ==
  ASSUME SerialInv, NEW n \in Texts, NEW channel \in {PRINT_FB, PRINT_SERIAL},
         aprintf(n, channel)
  PROVE  SerialInv'
<1>1. /\ at = "idle" /\ calls' = calls + 1 /\ UNCHANGED <<fifo, shift, wire, sent>>
      /\ \/ UNCHANGED <<at, text>>
         \/ at' = "configure" /\ text' = TextOf(n)
  BY DEF aprintf, uart_vars
<1>2. /\ sent \in Seq(Byte) /\ text = <<>> /\ calls \in Nat /\ n \in Nat
      /\ sent = <<>> \/ sent[Len(sent)][3]
  BY <1>1, ConsoleAssumption DEF SerialInv, SerialTypes, StringsEnd
<1>3. Strings = sent
  BY <1>2, ConcatEmptySeq DEF Strings
<1>4. /\ InOrder(sent) /\ Len(sent) \in Nat
      /\ \A i \in 1 .. Len(sent) : sent[i] \in Byte /\ sent[i][1] < calls
  BY <1>2, <1>3, Elements DEF SerialInv, StringsInOrder
<1>5. /\ text' \in Seq(Byte) /\ InOrder(text') /\ Len(text') \in Nat
      /\ \A i \in 1 .. Len(text') : text'[i][1] = calls
      /\ text' = <<>> \/ text'[Len(text')][3]
  <2>1. CASE text' = <<>>
    <3>1. <<>> \in Seq(Byte) /\ Len(<<>>) = 0 /\ DOMAIN <<>> = {}
      BY EmptySeq
    <3>2. InOrder(<<>>)
      BY DEF InOrder
    <3>3. \A i \in 1 .. Len(<<>>) : FALSE
      BY <3>1
    <3> QED
      BY <2>1, <3>1, <3>2, <3>3
  <2>2. CASE text' = TextOf(n)
    <3>1. /\ TextOf(n) \in Seq(Byte) /\ Len(TextOf(n)) = n
          /\ \A i \in 1 .. n : TextOf(n)[i] = <<calls, i, i = n>>
          /\ InOrder(TextOf(n))
          /\ TextOf(n) = <<>> \/ TextOf(n)[Len(TextOf(n))][3]
      BY <1>2, TextFacts
    <3>2. \A i \in 1 .. n : TextOf(n)[i][1] = calls
      BY <3>1
    <3>3. /\ text' \in Seq(Byte) /\ InOrder(text') /\ Len(text') = n
          /\ text' = <<>> \/ text'[Len(text')][3]
      BY <2>2, <3>1
    <3> QED
      BY <1>2, <2>2, <3>2, <3>3
  <2> QED
    BY <1>1, <1>2, <2>1, <2>2
<1>6. SerialTypes' /\ FifoHoldsLast'
  BY <1>1, <1>2, <1>5 DEF SerialInv, SerialTypes, FifoHoldsLast
<1>7. StringsEnd'
  BY <1>1, <1>2, <1>5 DEF StringsEnd
<1>8. StringsInOrder'
  <2>1. PICK t \in Seq(Byte) : t = text'
    BY <1>5
  <2>2. Strings' = sent \o t
    BY <1>1, <2>1 DEF Strings
  <2>3. ASSUME NEW i \in 1 .. Len(sent), NEW j \in 1 .. Len(t)
        PROVE  Before(sent[i], t[j])
    BY <1>4, <1>5, <2>1 DEF Before
  <2>4. InOrder(sent \o t)
    BY <1>2, <1>4, <1>5, <2>1, <2>3, ConcatInOrder
  <2>5. ASSUME NEW b \in ToSet(sent \o t) PROVE b[1] < calls + 1
    <3>1. CASE b \in ToSet(sent)
      <4>1. PICK i \in 1 .. Len(sent) : b = sent[i]
        BY <1>2, <3>1, Elements
      <4>2. sent[i][1] < calls /\ sent[i][1] \in Nat
        BY <1>4 DEF Byte
      <4> QED
        BY <1>2, <4>1, <4>2
    <3>2. CASE b \in ToSet(t)
      <4>1. PICK i \in 1 .. Len(t) : b = t[i]
        BY <3>2, Elements
      <4> QED
        BY <1>2, <1>5, <2>1, <4>1
    <3> QED
      BY <1>2, <3>1, <3>2, ConcatToSet
  <2>6. \A i \in DOMAIN (sent \o t) : (sent \o t)[i][1] < calls + 1
    BY <2>5 DEF ToSet
  <2> QED
    BY <1>1, <2>2, <2>4, <2>6 DEF StringsInOrder
<1>9. OnlyLastByteLost'
  BY <1>1 DEF SerialInv, OnlyLastByteLost
<1> QED
  BY <1>6, <1>7, <1>8, <1>9 DEF SerialInv

(* The port is set up: the FIFO loses what it holds, which ends the string before. *)
LEMMA ConfigureSerial ==
  ASSUME SerialInv, Configure
  PROVE  SerialInv'
<1>1. /\ at = "configure" /\ at' = "write" /\ fifo' = <<>>
      /\ UNCHANGED <<text, shift, wire, sent, calls>>
  BY DEF Configure
<1>2. /\ wire \in Seq(Byte) /\ shift \in Seq(Byte) /\ fifo \in Seq(Byte)
      /\ sent \in Seq(Byte) /\ <<>> \in Seq(Byte)
  BY EmptySeq DEF SerialInv, SerialTypes
<1>3. PICK w \in Seq(Byte) : w = wire \o shift
  BY <1>2, ConcatElements
<1>4. Leaving = w \o fifo /\ Leaving' = w
  BY <1>1, <1>3, ConcatEmptySeq DEF Leaving
<1>5. /\ InOrder(w \o fifo) /\ ToSet(w \o fifo) = ToSet(w) \union ToSet(fifo)
      /\ ToSet(w \o fifo) \subseteq ToSet(sent)
      /\ \A byte \in ToSet(sent) \ ToSet(w \o fifo) : byte[3]
  BY <1>2, <1>3, <1>4, ConcatToSet DEF SerialInv, OnlyLastByteLost, Leaving
<1>6. InOrder(w)
  BY <1>2, <1>5, ConcatInOrder
<1>7. \A byte \in ToSet(fifo) : byte[3]
  <2>1. CASE fifo = <<>>
    BY <2>1 DEF ToSet
  <2>2. CASE sent # <<>> /\ fifo = <<sent[Len(sent)]>>
    <3>1. Len(sent) \in 1 .. Len(sent) /\ sent[Len(sent)] \in Byte
      BY <1>2, <2>2, Elements
    <3>2. ToSet(fifo) = {sent[Len(sent)]}
      BY <2>2, <3>1, OneByte
    <3>3. sent[Len(sent)][3]
      BY <1>1, <2>2 DEF SerialInv, StringsEnd
    <3> QED
      BY <3>2, <3>3
  <2> QED
    BY <2>1, <2>2 DEF SerialInv, FifoHoldsLast
<1>8. OnlyLastByteLost'
  <2>1. InOrder(Leaving') /\ ToSet(Leaving') \subseteq ToSet(sent)
    BY <1>4, <1>5, <1>6
  <2>2. \A byte \in ToSet(sent) \ ToSet(Leaving') : byte[3]
    BY <1>4, <1>5, <1>7
  <2> QED
    BY <1>1, <2>1, <2>2 DEF OnlyLastByteLost, Leaving
<1>9. SerialTypes' /\ FifoHoldsLast' /\ StringsEnd' /\ StringsInOrder'
  BY <1>1, <1>2 DEF SerialInv, SerialTypes, FifoHoldsLast, StringsEnd, StringsInOrder, Strings
<1> QED
  BY <1>8, <1>9 DEF SerialInv

(* A byte is written to the empty FIFO. *)
LEMMA WriteByteSerial ==
  ASSUME SerialInv, WriteByte
  PROVE  SerialInv'
<1> DEFINE b == Head(text)
<1>1. /\ at = "write" /\ text # <<>> /\ fifo = <<>>
      /\ sent' = Append(sent, b) /\ text' = Tail(text)
      /\ UNCHANGED <<at, shift, wire, calls>>
  BY DEF WriteByte, Spin, serial_is_transmit_fifo_empty
<1>2. /\ wire \in Seq(Byte) /\ shift \in Seq(Byte) /\ text \in Seq(Byte)
      /\ sent \in Seq(Byte) /\ <<>> \in Seq(Byte) /\ calls \in Nat
  BY EmptySeq DEF SerialInv, SerialTypes
<1>3. /\ b \in Byte /\ Tail(text) \in Seq(Byte) /\ text = <<b>> \o Tail(text)
      /\ Tail(text) # <<>> => Tail(text)[Len(Tail(text))] = text[Len(text)]
      /\ Tail(text) = <<>> => b = text[Len(text)]
  BY <1>1, <1>2, HeadAndTail
<1>4. text[Len(text)][3]
  BY <1>1 DEF SerialInv, StringsEnd
<1> HIDE DEF b
<1>5. PICK u \in Seq(Byte) : u = <<b>> /\ Len(u) = 1 /\ u[1] = b /\ ToSet(u) = {b} /\ InOrder(u)
  BY <1>3, OneByte
<1>6. fifo' = u
  <2>1. Len(fifo) < FifoSize /\ Append(fifo, b) = <<b>>
    BY <1>1, ConsoleAssumption, EmptySeq
  <2> QED
    BY <1>5, <2>1 DEF WriteByte, b
<1>7. /\ sent' = sent \o u /\ sent' \in Seq(Byte) /\ sent' # <<>>
      /\ Len(sent') = Len(sent) + 1 /\ sent'[Len(sent')] = b
  BY <1>1, <1>2, <1>3, <1>5, AppendProperties, AppendIsConcat
<1>8. Strings' = Strings
  <2>1. PICK t \in Seq(Byte) : t = Tail(text)
    BY <1>3
  <2>2. (sent \o u) \o t = sent \o (u \o t)
    <3>1. sent \in Seq(Byte)
      BY <1>2
    <3> QED
      BY <3>1, ThreeStrings
  <2>3. text = u \o t /\ sent' = sent \o u /\ text' = t
    BY <1>1, <1>3, <1>5, <1>7, <2>1
  <2> QED
    BY <2>2, <2>3 DEF Strings
<1>9. PICK w \in Seq(Byte) : w = wire \o shift
  BY <1>2, ConcatElements
<1>10. Leaving = w /\ Leaving' = w \o u
  BY <1>1, <1>6, <1>9, ConcatEmptySeq DEF Leaving
<1>11. /\ InOrder(w) /\ ToSet(w) \subseteq ToSet(sent)
       /\ \A byte \in ToSet(sent) \ ToSet(w) : byte[3]
  BY <1>10 DEF SerialInv, OnlyLastByteLost, Leaving
<1>12. ToSet(w \o u) = ToSet(w) \union {b} /\ ToSet(sent') = ToSet(sent) \union {b}
  <2>1. ToSet(w \o u) = ToSet(w) \union ToSet(u)
    BY ConcatToSet
  <2>2. ToSet(sent \o u) = ToSet(sent) \union ToSet(u)
    <3>1. sent \in Seq(Byte)
      BY <1>2
    <3> QED
      BY <3>1, ConcatToSet
  <2> QED
    BY <1>5, <1>7, <2>1, <2>2
<1>13. ASSUME NEW i \in 1 .. Len(w), NEW j \in 1 .. Len(u)
       PROVE  Before(w[i], u[j])
  <2>1. w[i] \in ToSet(sent)
    BY <1>11, Elements
  <2>2. PICK k \in 1 .. Len(sent) : w[i] = sent[k]
    <3>1. sent \in Seq(Byte)
      BY <1>2
    <3>2. \A c : c \in ToSet(sent) <=> \E k \in 1 .. Len(sent) : c = sent[k]
      BY <3>1, Elements
    <3> QED
      BY <2>1, <3>2
  <2>3. InOrder(sent \o text)
    BY DEF SerialInv, StringsInOrder, Strings
  <2>4. 1 \in 1 .. Len(text) /\ text[1] = b
    BY <1>1, <1>2, Elements, HeadAndTail DEF b
  <2>5. Before(sent[k], text[1])
    BY <1>2, <2>3, <2>4, ConcatInOrder
  <2> QED
    BY <1>5, <2>2, <2>4, <2>5
<1>14. InOrder(w \o u)
  BY <1>5, <1>11, <1>13, ConcatInOrder
<1>15. OnlyLastByteLost'
  <2>1. InOrder(Leaving') /\ ToSet(Leaving') \subseteq ToSet(sent')
    BY <1>10, <1>11, <1>12, <1>14
  <2>2. \A byte \in ToSet(sent') \ ToSet(Leaving') : byte[3]
    BY <1>10, <1>11, <1>12
  <2> QED
    BY <2>1, <2>2 DEF OnlyLastByteLost, Leaving
<1>16. SerialTypes' /\ FifoHoldsLast'
  BY <1>1, <1>2, <1>3, <1>5, <1>6, <1>7 DEF SerialInv, SerialTypes, FifoHoldsLast
<1>17. StringsEnd'
  BY <1>1, <1>3, <1>4, <1>7 DEF StringsEnd
<1>18. StringsInOrder'
  BY <1>1, <1>8 DEF SerialInv, StringsInOrder
<1> QED
  BY <1>15, <1>16, <1>17, <1>18 DEF SerialInv

(* The UART passes bytes on and loses none. *)
LEMMA UartSerial ==
  ASSUME SerialInv, Uart
  PROVE  SerialInv'
<1>1. /\ wire \in Seq(Byte) /\ shift \in Seq(Byte) /\ fifo \in Seq(Byte)
      /\ sent \in Seq(Byte) /\ <<>> \in Seq(Byte)
      /\ UNCHANGED <<at, text, sent, calls>>
  BY EmptySeq DEF SerialInv, SerialTypes, Uart, UartLoad, UartSend
<1>2. /\ Leaving' = Leaving /\ wire' \in Seq(Byte) /\ shift' \in Seq(Byte) /\ fifo' \in Seq(Byte)
      /\ FifoHoldsLast'
  <2>1. CASE UartLoad
    <3>1. /\ shift = <<>> /\ fifo # <<>> /\ shift' = <<Head(fifo)>> /\ fifo' = Tail(fifo)
          /\ wire' = wire
      BY <2>1 DEF UartLoad
    <3>2. PICK l \in Byte : fifo = <<l>>
      <4>1. sent # <<>> /\ fifo = <<sent[Len(sent)]>>
        BY <3>1 DEF SerialInv, FifoHoldsLast
      <4>2. sent[Len(sent)] \in Byte
        BY <1>1, <4>1, Elements
      <4> QED
        BY <4>1, <4>2
    <3>3. Head(fifo) = l /\ Tail(fifo) = <<>>
      BY <3>2
    <3>4. <<l>> \in Seq(Byte)
      BY <3>2, OneByte
    <3>5. Leaving = wire \o <<l>> /\ Leaving' = wire \o <<l>>
      <4>1. Leaving = (wire \o <<>>) \o <<l>> /\ Leaving' = (wire \o <<l>>) \o <<>>
        BY <3>1, <3>2, <3>3 DEF Leaving
      <4>2. wire \o <<l>> \in Seq(Byte)
        BY <1>1, <3>4, ConcatElements
      <4> QED
        BY <1>1, <4>1, <4>2, ConcatEmptySeq
    <3> QED
      BY <1>1, <3>1, <3>3, <3>4, <3>5 DEF FifoHoldsLast
  <2>2. CASE UartSend
    <3>1. wire' = wire \o shift /\ shift' = <<>> /\ fifo' = fifo
      BY <2>2 DEF UartSend
    <3>2. wire \o shift \in Seq(Byte)
      BY <1>1, ConcatElements
    <3>3. Leaving' = Leaving
      BY <3>1, <3>2, ConcatEmptySeq DEF Leaving
    <3> QED
      BY <1>1, <3>1, <3>2, <3>3 DEF SerialInv, FifoHoldsLast
  <2> QED
    BY <2>1, <2>2 DEF Uart
<1>3. OnlyLastByteLost'
  BY <1>1, <1>2 DEF SerialInv, OnlyLastByteLost, Leaving
<1>4. SerialTypes' /\ StringsEnd' /\ StringsInOrder'
  BY <1>1, <1>2 DEF SerialInv, SerialTypes, StringsEnd, StringsInOrder, Strings
<1> QED
  BY <1>2, <1>3, <1>4 DEF SerialInv

(* The invariant is inductive. *)
LEMMA StepSerial ==
  ASSUME SerialInv, [Next]_vars
  PROVE  SerialInv'
<1>1. CASE \/ \E f \in Formats, args \in Arguments : printf(f, args)
           \/ PrintfStep \/ OtherCall \/ OtherStep
  BY <1>1, PrintfKeeps
<1>2. CASE \E n \in Texts, channel \in {PRINT_FB, PRINT_SERIAL} : aprintf(n, channel)
  BY <1>2, AprintfSerial
<1>3. CASE EndOfText
  <2>1. UNCHANGED <<serial_vars, calls>> /\ at = "write" /\ text = <<>> /\ at' = "idle"
    BY <1>3 DEF EndOfText
  <2> QED
    BY <2>1, PortKept
<1>4. CASE UNCHANGED vars
  <2>1. UNCHANGED <<serial_vars, calls>> /\ at' = at
    BY <1>4 DEF vars
  <2> QED
    BY <2>1, PortKept
<1> QED
  BY <1>1, <1>2, <1>3, <1>4, ConfigureSerial, WriteByteSerial, UartSerial DEF Next, SerialStep

(* What leaves the serial port is what aprintf was given, in order and each byte once,
   but for last bytes of strings: of a string of n bytes the first n - 1 always arrive.  *)
THEOREM SerialLosesOnlyLast == Spec => []OnlyLastByteLost
<1>1. Init => SerialInv
  BY InitSerial
<1>2. SerialInv /\ [Next]_vars => SerialInv'
  BY StepSerial
<1>3. SerialInv => OnlyLastByteLost
  BY DEF SerialInv
<1> QED
  BY <1>1, <1>2, <1>3, PTL DEF Spec

(***************************************************************************)
(* Recursion.                                                              *)
(***************************************************************************)

(* A set of numbers has a smallest one. *)
LEMMA Smallest ==
  ASSUME NEW T \in SUBSET Nat, T # {}
  PROVE  \E x \in T : \A y \in T : x <= y
<1> DEFINE R == {q \in Nat \X Nat : q[1] < q[2]}
<1>1. R = OpToRel(<, Nat)
  BY DEF OpToRel
<1>2. IsWellFoundedOn(R, Nat)
  BY <1>1, NatLessThanWellFounded
<1>3. \A y, x \in Nat : y < x => <<y, x>> \in R
  OBVIOUS
<1> HIDE DEF R
<1>4. PICK x \in T : \A y \in T : ~(<<y, x>> \in R)
  BY <1>2, WFMin
<1>5. ASSUME NEW y \in T PROVE x <= y
  <2>1. x \in Nat /\ y \in Nat
    OBVIOUS
  <2>2. ~(y < x)
    BY <1>3, <1>4, <2>1, Zenon
  <2> QED
    BY <2>1, <2>2
<1> QED
  BY <1>5

(* Functions on the numbers, and what makes one of another value by value *)
Maps(V) == [Nat -> V]
Makers(V) == [Nat -> [Maps(V) -> V]]

(* g is what `after' makes of it, up to n. *)
Follows(g, after, n) == \A m \in 0 .. n : g[m] = after[m][g]

(* The values at n depend on those below n only. *)
Determined(after, V) ==
  \A n \in Nat, g, h \in Maps(V) :
    (\A m \in Nat : m < n => g[m] = h[m]) => after[n][g] = after[n][h]

(* Two functions that follow agree. *)
LEMMA FollowsUnique ==
  ASSUME NEW V, NEW after \in Makers(V), Determined(after, V),
         NEW g \in Maps(V), NEW h \in Maps(V), NEW n \in Nat,
         Follows(g, after, n), Follows(h, after, n)
  PROVE  \A m \in 0 .. n : g[m] = h[m]
<1> DEFINE T == {m \in 0 .. n : g[m] # h[m]}
<1>1. SUFFICES ASSUME T # {} PROVE FALSE
  OBVIOUS
<1>2. PICK x \in T : \A y \in T : x <= y
  <2>1. T \in SUBSET Nat
    OBVIOUS
  <2> HIDE DEF T
  <2> QED
    BY <1>1, <2>1, Smallest
<1>3. x \in 0 .. n /\ g[x] # h[x]
  OBVIOUS
<1>4. \A m \in Nat : m < x => g[m] = h[m]
  BY <1>2, <1>3
<1>5. after[x][g] = after[x][h]
  <2>1. x \in Nat
    BY <1>3
  <2> HIDE DEF T
  <2> QED
    BY <1>4, <2>1 DEF Determined
<1> QED
  BY <1>3, <1>5 DEF Follows

(* There is a function that follows up to n. *)
LEMMA FollowsExists ==
  ASSUME NEW V, NEW c \in V, NEW after \in Makers(V), Determined(after, V),
         NEW n \in Nat
  PROVE  \E g \in Maps(V) : Follows(g, after, n)
<1> DEFINE T == {m \in Nat : ~\E g \in Maps(V) : Follows(g, after, m)}
<1>1. SUFFICES ASSUME T # {} PROVE FALSE
  OBVIOUS
<1>2. PICK x \in T : \A y \in T : x <= y
  <2>1. T \in SUBSET Nat
    OBVIOUS
  <2> HIDE DEF T
  <2> QED
    BY <1>1, <2>1, Smallest
<1>3. x \in Nat /\ ~\E g \in Maps(V) : Follows(g, after, x)
  OBVIOUS
<1>4. PICK h \in Maps(V) : \A m \in Nat : m < x => h[m] = after[m][h]
  <2>1. CASE x = 0
    <3>1. [m \in Nat |-> c] \in Maps(V) /\ \A m \in Nat : ~(m < x)
      BY <2>1 DEF Maps
    <3> QED
      BY <3>1
  <2>2. CASE x # 0
    <3>1. x - 1 \in Nat /\ ~(x <= x - 1)
      BY <1>3, <2>2
    <3>2. x - 1 \notin T
      BY <1>2, <3>1
    <3>3. PICK h \in Maps(V) : Follows(h, after, x - 1)
      BY <3>1, <3>2
    <3>4. \A m \in Nat : m < x => m \in 0 .. x - 1
      BY <1>3
    <3> QED
      BY <3>3, <3>4 DEF Follows
  <2> QED
    BY <2>1, <2>2
<1>5. PICK g : g = [h EXCEPT ![x] = after[x][h]]
  OBVIOUS
<1>6. /\ g \in Maps(V) /\ g[x] = after[x][h]
      /\ \A m \in Nat : m # x => g[m] = h[m]
  BY <1>3, <1>5 DEF Maps, Makers
<1>7. ASSUME NEW m \in 0 .. x PROVE g[m] = after[m][g]
  <2>1. m \in Nat /\ \A l \in Nat : l < m => g[l] = h[l]
    BY <1>3, <1>6
  <2>2. after[m][g] = after[m][h]
    BY <1>6, <2>1 DEF Determined
  <2>3. CASE m = x
    BY <1>6, <2>2, <2>3
  <2>4. CASE m # x
    BY <1>3, <1>4, <1>6, <2>1, <2>2, <2>4
  <2> QED
    BY <2>3, <2>4
<1> QED
  BY <1>3, <1>6, <1>7 DEF Follows

(* There is a function that follows throughout: recursion on numbers defines one. *)
LEMMA Recursion ==
  ASSUME NEW V, NEW c \in V, NEW after \in Makers(V), Determined(after, V)
  PROVE  \E g \in Maps(V) : \A n \in Nat : g[n] = after[n][g]
<1> DEFINE UpTo(n) == CHOOSE g \in Maps(V) : Follows(g, after, n)
           F == [n \in Nat |-> UpTo(n)[n]]
<1>1. ASSUME NEW n \in Nat
      PROVE  UpTo(n) \in Maps(V) /\ Follows(UpTo(n), after, n)
  BY FollowsExists
<1> HIDE DEF UpTo
<1>2. F \in Maps(V)
  BY <1>1 DEF Maps
<1>3. ASSUME NEW n \in Nat PROVE F[n] = after[n][F]
  <2>1. ASSUME NEW m \in Nat, m <= n PROVE F[m] = UpTo(n)[m]
    <3>1. m \in 0 .. m /\ 0 .. m \subseteq 0 .. n
      BY <2>1
    <3>2. Follows(UpTo(n), after, m)
      BY <1>1, <3>1 DEF Follows
    <3>3. \A k \in 0 .. m : UpTo(m)[k] = UpTo(n)[k]
      <4>1. PICK g \in Maps(V) : g = UpTo(m) /\ Follows(g, after, m)
        BY <1>1
      <4>2. PICK h \in Maps(V) : h = UpTo(n) /\ Follows(h, after, m)
        BY <1>1, <3>2
      <4>3. \A k \in 0 .. m : g[k] = h[k]
        BY <4>1, <4>2, FollowsUnique
      <4> QED
        BY <4>1, <4>2, <4>3
    <3> QED
      BY <3>1, <3>3
  <2>2. n \in 0 .. n
    OBVIOUS
  <2>3. F[n] = after[n][UpTo(n)]
    BY <1>1, <2>1, <2>2 DEF Follows
  <2>4. \A m \in Nat : m < n => F[m] = UpTo(n)[m]
    BY <2>1
  <2>5. after[n][F] = after[n][UpTo(n)]
    <3> HIDE DEF F
    <3> QED
      BY <1>1, <1>2, <2>4 DEF Determined
  <2> QED
    BY <2>3, <2>5
<1> HIDE DEF F
<1> QED
  BY <1>2, <1>3

(***************************************************************************)
(* Decimal notation.                                                       *)
(***************************************************************************)

(* Characters of a format, and of the output *)
Class == {"%", "h", "l", "c", "s", "d", "u", "x"}
Char == ({"text"} \X (Class \union {"-"})) \union ({"digit", "char", "string"} \X Nat)

(* A character each of text, digits, chars and strings *)
LEMMA CharFacts ==
  /\ \A c \in Class \union {"-"} : <<"text", c>> \in Char
  /\ \A n \in Nat : <<"digit", n>> \in Char /\ <<"char", n>> \in Char /\ <<"string", n>> \in Char
BY DEF Char

(* One character is a sequence of characters. *)
LEMMA OneChar ==
  ASSUME NEW c \in Char
  PROVE  <<c>> \in Seq(Char) /\ Len(<<c>>) = 1
OBVIOUS

DecimalOf(D, n) ==
  IF n < RADIX THEN << <<"digit", n>> >>
  ELSE Append(D[n \div RADIX], <<"digit", n % RADIX>>)

(* Without its last digit a number is smaller. *)
LEMMA Shorter ==
  ASSUME NEW n \in Nat
  PROVE  /\ n \div RADIX \in Nat /\ n % RADIX \in Nat
         /\ n >= RADIX => n \div RADIX < n /\ n \div RADIX > 0
         /\ n < RADIX => n \div RADIX = 0 /\ n % RADIX = n
BY DEF RADIX

(* One more digit makes a sequence of characters. *)
LEMMA DecimalOfType ==
  ASSUME NEW n \in Nat, NEW D, n >= RADIX => D[n \div RADIX] \in Seq(Char)
  PROVE  DecimalOf(D, n) \in Seq(Char)
<1>1. CASE n < RADIX
  BY <1>1, CharFacts, OneChar DEF DecimalOf
<1>2. CASE ~(n < RADIX)
  <2>1. n >= RADIX
    BY <1>2 DEF RADIX
  <2>2. <<"digit", n % RADIX>> \in Char
    BY Shorter, CharFacts
  <2>3. PICK s \in Seq(Char) : s = D[n \div RADIX]
    BY <2>1
  <2>4. PICK e \in Char : e = <<"digit", n % RADIX>>
    BY <2>2
  <2>5. Append(s, e) \in Seq(Char)
    BY AppendProperties
  <2> QED
    BY <1>2, <2>3, <2>4, <2>5 DEF DecimalOf
<1> QED
  BY <1>1, <1>2

(* The recursion defines the notation of every number. *)
LEMMA DecimalExists ==
  \E D : D = [n \in Nat |-> DecimalOf(D, n)]
<1> DEFINE V == Seq(Char)
           after == [n \in Nat |-> [g \in Maps(V) |-> DecimalOf(g, n)]]
<1>1. \A n \in Nat, g \in Maps(V) : after[n][g] = DecimalOf(g, n)
  OBVIOUS
<1>2. after \in Makers(V)
  <2>1. ASSUME NEW n \in Nat, NEW g \in Maps(V)
        PROVE  DecimalOf(g, n) \in V
    <3>1. g[n \div RADIX] \in Seq(Char)
      BY Shorter DEF Maps
    <3> QED
      BY <3>1, DecimalOfType
  <2> HIDE DEF V
  <2> QED
    BY <2>1 DEF Makers
<1>3. Determined(after, V)
  <2> SUFFICES ASSUME NEW n \in Nat, NEW g \in Maps(V), NEW h \in Maps(V),
                      \A m \in Nat : m < n => g[m] = h[m]
               PROVE  after[n][g] = after[n][h]
    BY DEF Determined
  <2>1. n >= RADIX => g[n \div RADIX] = h[n \div RADIX]
    BY Shorter
  <2>2. n < RADIX \/ n >= RADIX
    BY DEF RADIX
  <2>3. DecimalOf(g, n) = DecimalOf(h, n)
    BY <2>1, <2>2 DEF DecimalOf
  <2> QED
    BY <1>1, <2>3
<1>4. <<>> \in V
  BY EmptySeq
<1>5. PICK D \in Maps(V) : \A n \in Nat : D[n] = after[n][D]
  <2> HIDE DEF V, after
  <2> QED
    BY <1>2, <1>3, <1>4, Recursion
<1>6. \A n \in Nat : D[n] = DecimalOf(D, n)
  BY <1>1, <1>5
<1>7. D = [n \in Nat |-> D[n]]
  BY <1>5 DEF Maps
<1> QED
  BY <1>6, <1>7

(* The notation of a number, digit by digit *)
LEMMA DecimalNotation ==
  ASSUME NEW n \in Nat
  PROVE  /\ n < RADIX => Decimal[n] = << <<"digit", n>> >>
         /\ n >= RADIX => Decimal[n] = Append(Decimal[n \div RADIX], <<"digit", n % RADIX>>)
<1>1. Decimal = [m \in Nat |-> DecimalOf(Decimal, m)]
  BY DecimalExists DEF Decimal, DecimalOf
<1>2. Decimal[n] = DecimalOf(Decimal, n)
  BY <1>1
<1>3. n >= RADIX => ~(n < RADIX)
  BY DEF RADIX
<1> QED
  BY <1>2, <1>3 DEF DecimalOf

(* It is made of characters. *)
LEMMA DecimalType ==
  ASSUME NEW n \in Nat
  PROVE  Decimal[n] \in Seq(Char)
<1> DEFINE T == {m \in Nat : Decimal[m] \notin Seq(Char)}
<1>1. SUFFICES ASSUME T # {} PROVE FALSE
  OBVIOUS
<1>2. PICK x \in T : \A y \in T : x <= y
  <2>1. T \in SUBSET Nat
    OBVIOUS
  <2> HIDE DEF T
  <2> QED
    BY <1>1, <2>1, Smallest
<1>3. x \in Nat /\ Decimal[x] \notin Seq(Char)
  OBVIOUS
<1>4. x < RADIX \/ x >= RADIX
  BY <1>3 DEF RADIX
<1>5. Decimal[x] = DecimalOf(Decimal, x)
  BY <1>3, <1>4, DecimalNotation DEF DecimalOf, RADIX
<1>6. x >= RADIX => Decimal[x \div RADIX] \in Seq(Char)
  <2> SUFFICES ASSUME x >= RADIX PROVE Decimal[x \div RADIX] \in Seq(Char)
    OBVIOUS
  <2>1. x \div RADIX \in Nat /\ x \div RADIX < x
    BY <1>3, Shorter
  <2>2. ~(x <= x \div RADIX)
    BY <1>3, <2>1
  <2> QED
    BY <1>2, <2>1, <2>2
<1> QED
  BY <1>3, <1>5, <1>6, DecimalOfType

(***************************************************************************)
(* What a format prints.                                                   *)
(***************************************************************************)

(* What a conversion prints is made of characters. *)
LEMMA ConvertedType ==
  ASSUME NEW c \in TakesArgument, NEW n \in Word
  PROVE  Converted(c, n) \in Seq(Char)
<1>1. n \in Nat /\ n < WORD /\ WORD \in Nat
  BY WordFacts
<1>2. Decimal[n] \in Seq(Char)
  BY <1>1, DecimalType
<1>3. Signed(n) \in Seq(Char)
  <2>1. CASE n < HALF
    BY <1>2, <2>1 DEF Signed
  <2>2. CASE ~(n < HALF)
    <3>1. WORD - n \in Nat
      BY <1>1
    <3>2. PICK s \in Seq(Char) : s = Decimal[WORD - n]
      BY <3>1, DecimalType
    <3>3. PICK m \in Seq(Char) : m = << <<"text", "-">> >>
      <4>1. "-" \in Class \union {"-"}
        OBVIOUS
      <4>2. <<"text", "-">> \in Char
        BY <4>1, CharFacts
      <4> QED
        BY <4>2, OneChar
    <3>4. m \o s \in Seq(Char)
      BY ConcatProperties
    <3> QED
      BY <2>2, <3>2, <3>3, <3>4 DEF Signed
  <2> QED
    BY <2>1, <2>2
<1>4. << <<"char", n % BYTE>> >> \in Seq(Char)
  <2>1. n % BYTE \in Nat
    BY <1>1, ConsoleAssumption
  <2> QED
    BY <2>1, CharFacts, OneChar
<1>5. StringAt(n) \in Seq(Char)
  <2>0. n % 3 \in Nat
    BY <1>1
  <2>1. <<"string", n>> \in Char
    BY <1>1, CharFacts
  <2>2. StringAt(n) \in [1 .. n % 3 -> Char]
    BY <2>1 DEF StringAt
  <2> QED
    BY <2>0, <2>2, SeqDef
<1>6. c = "d" \/ c = "u" \/ c = "c" \/ c = "s"
  BY DEF TakesArgument
<1>7. /\ c = "d" => Converted(c, n) = Signed(n)
      /\ c = "u" => Converted(c, n) = Decimal[n]
      /\ c = "c" => Converted(c, n) = << <<"char", n % BYTE>> >>
      /\ c = "s" => Converted(c, n) = StringAt(n)
  BY DEF Converted
<1> QED
  BY <1>2, <1>3, <1>4, <1>5, <1>6, <1>7

(* What is printed from the i-th character on, given what is from the next two on *)
RowOf(f, args, i, r1, r2) ==
  [k \in 1 .. Len(args) + 1 |->
     IF i > Len(f) \/ (i = Len(f) /\ f[i] = "%") THEN <<>>
     ELSE IF f[i] # "%" THEN << <<"text", f[i]>> >> \o r1[k]
     ELSE IF f[i + 1] = "%" THEN << <<"text", "%">> >> \o r2[k]
     ELSE IF f[i + 1] \notin TakesArgument THEN r2[k]
     ELSE IF k > Len(args) THEN <<>>
     ELSE Converted(f[i + 1], args[k]) \o r2[k + 1]]

Rows(args) == [1 .. Len(args) + 1 -> Seq(Char)]

(* It is made of characters. *)
LEMMA RowType ==
  ASSUME NEW f \in Seq(Class), NEW args \in Seq(Word), NEW i \in 1 .. Len(f) + 2,
         NEW r1, i <= Len(f) => r1 \in Rows(args),
         NEW r2, i < Len(f) => r2 \in Rows(args)
  PROVE  RowOf(f, args, i, r1, r2) \in Rows(args)
<1>1. Len(f) \in Nat /\ Len(args) \in Nat /\ i \in Nat
  BY LenProperties
<1>2. SUFFICES ASSUME NEW k \in 1 .. Len(args) + 1
               PROVE  RowOf(f, args, i, r1, r2)[k] \in Seq(Char)
  BY DEF RowOf, Rows
<1>3. CASE i > Len(f) \/ (i = Len(f) /\ f[i] = "%")
  <2>1. RowOf(f, args, i, r1, r2)[k] = <<>>
    BY <1>3 DEF RowOf
  <2> QED
    BY <2>1, EmptySeq
<1>4. CASE i <= Len(f) /\ f[i] # "%"
  <2>1. RowOf(f, args, i, r1, r2)[k] = << <<"text", f[i]>> >> \o r1[k]
    BY <1>1, <1>4 DEF RowOf
  <2>2. f[i] \in Class
    <3>1. i \in 1 .. Len(f)
      BY <1>1, <1>4
    <3> QED
      BY <3>1, ElementOfSeq
  <2>3. PICK s \in Seq(Char) : s = << <<"text", f[i]>> >>
    BY <2>2, CharFacts, OneChar
  <2>4. PICK t \in Seq(Char) : t = r1[k]
    BY <1>4 DEF Rows
  <2>5. s \o t \in Seq(Char)
    BY ConcatProperties
  <2> QED
    BY <2>1, <2>3, <2>4, <2>5
<1>5. CASE i < Len(f) /\ f[i] = "%"
  <2>1. ~(i > Len(f)) /\ i # Len(f)
    BY <1>1, <1>5
  <2>2. PICK t \in Seq(Char) : t = r2[k]
    BY <1>5 DEF Rows
  <2>3. CASE f[i + 1] = "%"
    <3>1. RowOf(f, args, i, r1, r2)[k] = << <<"text", "%">> >> \o r2[k]
      BY <1>5, <2>1, <2>3 DEF RowOf
    <3>2. PICK s \in Seq(Char) : s = << <<"text", "%">> >>
      <4>1. "%" \in Class
        BY DEF Class
      <4>2. <<"text", "%">> \in Char
        BY <4>1, CharFacts
      <4> QED
        BY <4>2, OneChar
    <3>3. s \o t \in Seq(Char)
      BY ConcatProperties
    <3> QED
      BY <2>2, <3>1, <3>2, <3>3
  <2>4. CASE f[i + 1] # "%" /\ f[i + 1] \notin TakesArgument
    <3>1. RowOf(f, args, i, r1, r2)[k] = r2[k]
      BY <1>5, <2>1, <2>4 DEF RowOf
    <3> QED
      BY <2>2, <3>1
  <2>5. CASE f[i + 1] \in TakesArgument /\ k > Len(args)
    <3>1. RowOf(f, args, i, r1, r2)[k] = <<>>
      BY <1>5, <2>1, <2>5 DEF RowOf, TakesArgument
    <3> QED
      BY <3>1, EmptySeq
  <2>6. CASE f[i + 1] \in TakesArgument /\ k <= Len(args)
    <3>1. f[i + 1] # "%" /\ ~(k > Len(args))
      BY <1>1, <2>6 DEF TakesArgument
    <3>2. RowOf(f, args, i, r1, r2)[k] = Converted(f[i + 1], args[k]) \o r2[k + 1]
      BY <1>5, <2>1, <2>6, <3>1 DEF RowOf
    <3>3. k \in 1 .. Len(args) /\ k + 1 \in 1 .. Len(args) + 1
      BY <1>1, <2>6
    <3>4. args[k] \in Word
      BY <3>3, ElementOfSeq
    <3>5. PICK s \in Seq(Char) : s = Converted(f[i + 1], args[k])
      BY <2>6, <3>4, ConvertedType
    <3>6. PICK u \in Seq(Char) : u = r2[k + 1]
      BY <1>5, <3>3 DEF Rows
    <3>7. s \o u \in Seq(Char)
      BY ConcatProperties
    <3> QED
      BY <3>2, <3>5, <3>6, <3>7
  <2> QED
    BY <1>1, <2>3, <2>4, <2>5, <2>6
<1> QED
  BY <1>1, <1>3, <1>4, <1>5

(* Past the end of the format nothing is printed. *)
LEMMA RowEmpty ==
  ASSUME NEW f, NEW args, NEW i, i > Len(f), NEW r1, NEW r2, NEW q1, NEW q2
  PROVE  RowOf(f, args, i, r1, r2) = RowOf(f, args, i, q1, q2)
BY DEF RowOf

(* The recursion defines what every format prints. *)
LEMMA PrintedExists ==
  ASSUME NEW f \in Seq(Class), NEW args \in Seq(Word)
  PROVE  \E R : R = [i \in 1 .. Len(f) + 2 |-> RowOf(f, args, i, R[i + 1], R[i + 2])]
<1> DEFINE V == Rows(args)
           e == Len(f) + 2
           c == [k \in 1 .. Len(args) + 1 |-> <<>>]
           made(n, g) == IF n < e THEN RowOf(f, args, e - n, g[n - 1], g[n - 2]) ELSE c
           after == [n \in Nat |-> [g \in Maps(V) |-> made(n, g)]]
<1>1. Len(f) \in Nat /\ e \in Nat /\ e = Len(f) + 2
  BY LenProperties
<1>2. c \in V
  BY EmptySeq DEF Rows
<1>3. \A n \in Nat, g \in Maps(V) : after[n][g] = made(n, g)
  OBVIOUS
<1> HIDE DEF e, c
<1>4. after \in Makers(V)
  <2>1. ASSUME NEW n \in Nat, NEW g \in Maps(V)
        PROVE  made(n, g) \in V
    <3>1. CASE n < e
      <4>1. e - n \in 1 .. Len(f) + 2
        BY <1>1, <3>1
      <4>2. e - n <= Len(f) => g[n - 1] \in Rows(args)
        <5>1. SUFFICES ASSUME e - n <= Len(f) PROVE n - 1 \in Nat
          BY DEF Maps
        <5> QED
          BY <1>1, <5>1
      <4>3. e - n < Len(f) => g[n - 2] \in Rows(args)
        <5>1. SUFFICES ASSUME e - n < Len(f) PROVE n - 2 \in Nat
          BY DEF Maps
        <5> QED
          BY <1>1, <5>1
      <4>4. RowOf(f, args, e - n, g[n - 1], g[n - 2]) \in Rows(args)
        BY <4>1, <4>2, <4>3, RowType
      <4> QED
        BY <3>1, <4>4
    <3>2. CASE ~(n < e)
      BY <1>2, <3>2
    <3> QED
      BY <3>1, <3>2
  <2> HIDE DEF V, made
  <2> QED
    BY <2>1 DEF Makers
<1>5. Determined(after, V)
  <2> SUFFICES ASSUME NEW n \in Nat, NEW g \in Maps(V), NEW h \in Maps(V),
                      \A m \in Nat : m < n => g[m] = h[m]
               PROVE  after[n][g] = after[n][h]
    BY DEF Determined
  <2>1. CASE n < e /\ n >= 2
    <3>1. n - 1 \in Nat /\ n - 1 < n /\ n - 2 \in Nat /\ n - 2 < n
      BY <2>1
    <3>2. g[n - 1] = h[n - 1] /\ g[n - 2] = h[n - 2]
      BY <3>1
    <3>3. made(n, g) = made(n, h)
      BY <2>1, <3>2
    <3> QED
      BY <1>3, <3>3
  <2>2. CASE n < e /\ n < 2
    <3>1. e - n > Len(f)
      BY <1>1, <2>2
    <3>2. RowOf(f, args, e - n, g[n - 1], g[n - 2]) = RowOf(f, args, e - n, h[n - 1], h[n - 2])
      BY <3>1, RowEmpty
    <3>3. made(n, g) = made(n, h)
      BY <2>2, <3>2
    <3> QED
      BY <1>3, <3>3
  <2>3. CASE ~(n < e)
    <3>1. made(n, g) = made(n, h)
      BY <2>3
    <3> QED
      BY <1>3, <3>1
  <2> QED
    BY <1>1, <2>1, <2>2, <2>3
<1>6. PICK g \in Maps(V) : \A n \in Nat : g[n] = after[n][g]
  <2> HIDE DEF V, after
  <2> QED
    BY <1>2, <1>4, <1>5, Recursion
<1>7. PICK R : R = [i \in 1 .. Len(f) + 2 |-> IF i <= Len(f) + 2 THEN g[e - i] ELSE c]
  OBVIOUS
<1>8. ASSUME NEW i \in 1 .. Len(f) + 2
      PROVE  R[i] = RowOf(f, args, i, R[i + 1], R[i + 2])
  <2>1. e - i \in Nat /\ e - i < e /\ e - (e - i) = i /\ R[i] = g[e - i]
    BY <1>1, <1>7
  <2>2. g[e - i] = RowOf(f, args, i, g[(e - i) - 1], g[(e - i) - 2])
    <3>1. g[e - i] = made(e - i, g)
      BY <1>3, <1>6, <2>1
    <3> QED
      BY <2>1, <3>1
  <2>3. CASE i > Len(f)
    BY <2>1, <2>2, <2>3, RowEmpty
  <2>4. CASE i <= Len(f)
    <3>1. /\ i + 1 \in 1 .. Len(f) + 2 /\ i + 2 \in 1 .. Len(f) + 2
          /\ e - (i + 1) = (e - i) - 1 /\ e - (i + 2) = (e - i) - 2
      BY <1>1, <2>4
    <3>2. R[i + 1] = g[(e - i) - 1] /\ R[i + 2] = g[(e - i) - 2]
      BY <1>1, <1>7, <3>1
    <3> QED
      BY <2>1, <2>2, <3>2
  <2> QED
    BY <1>1, <2>3, <2>4
<1> QED
  BY <1>7, <1>8

(* What a format prints, character by character *)
LEMMA PrintedRows ==
  ASSUME NEW f \in Seq(Class), NEW args \in Seq(Word), NEW i \in 1 .. Len(f) + 2
  PROVE  Printed(f, args)[i] = RowOf(f, args, i, Printed(f, args)[i + 1], Printed(f, args)[i + 2])
<1> DEFINE P == Printed(f, args)
<1>1. P = [j \in 1 .. Len(f) + 2 |-> RowOf(f, args, j, P[j + 1], P[j + 2])]
  BY PrintedExists DEF Printed, RowOf
<1> HIDE DEF P
<1>2. P[i] = RowOf(f, args, i, P[i + 1], P[i + 2])
  BY <1>1
<1> QED
  BY <1>2 DEF P

(* It is made of characters. *)
LEMMA PrintedType ==
  ASSUME NEW f \in Seq(Class), NEW args \in Seq(Word), NEW i \in 1 .. Len(f) + 2
  PROVE  Printed(f, args)[i] \in Rows(args)
<1> DEFINE P == Printed(f, args)
           e == Len(f) + 2
           T == {m \in Nat : m < e /\ P[e - m] \notin Rows(args)}
<1>1. Len(f) \in Nat /\ e \in Nat /\ e = Len(f) + 2
  BY LenProperties
<1>2. \A j \in 1 .. Len(f) + 2 : P[j] = RowOf(f, args, j, P[j + 1], P[j + 2])
  BY PrintedRows
<1> HIDE DEF P, e
<1>3. T = {}
  <2> SUFFICES ASSUME T # {} PROVE FALSE
    OBVIOUS
  <2>1. PICK x \in T : \A y \in T : x <= y
    <3>1. T \in SUBSET Nat
      OBVIOUS
    <3> HIDE DEF T
    <3> QED
      BY <3>1, Smallest
  <2>2. x \in Nat /\ x < e /\ P[e - x] \notin Rows(args)
    OBVIOUS
  <2>3. \A y \in Nat : y < x => P[e - y] \in Rows(args)
    <3> SUFFICES ASSUME NEW y \in Nat, y < x PROVE P[e - y] \in Rows(args)
      OBVIOUS
    <3>1. y \notin T
      BY <2>1, <2>2
    <3> QED
      BY <1>1, <2>2, <3>1
  <2>4. PICK j \in 1 .. Len(f) + 2 : j = e - x
    BY <1>1, <2>2
  <2>5. j <= Len(f) => P[j + 1] \in Rows(args)
    <3> SUFFICES ASSUME j <= Len(f) PROVE P[j + 1] \in Rows(args)
      OBVIOUS
    <3>1. x - 1 \in Nat /\ x - 1 < x /\ e - (x - 1) = j + 1
      BY <1>1, <2>2, <2>4
    <3> QED
      BY <2>3, <3>1
  <2>6. j < Len(f) => P[j + 2] \in Rows(args)
    <3> SUFFICES ASSUME j < Len(f) PROVE P[j + 2] \in Rows(args)
      OBVIOUS
    <3>1. x - 2 \in Nat /\ x - 2 < x /\ e - (x - 2) = j + 2
      BY <1>1, <2>2, <2>4
    <3> QED
      BY <2>3, <3>1
  <2>7. RowOf(f, args, j, P[j + 1], P[j + 2]) \in Rows(args)
    BY <2>5, <2>6, RowType
  <2> QED
    BY <1>2, <2>2, <2>4, <2>7
<1>4. e - i \in Nat /\ e - i < e /\ e - (e - i) = i
  BY <1>1
<1>5. P[i] \in Rows(args)
  BY <1>3, <1>4
<1> QED
  BY <1>5 DEF P

(***************************************************************************)
(* The format, the arguments and the buffer.                               *)
(***************************************************************************)

(* s is what is left of the whole. *)
SuffixOf(s, whole) ==
  /\ Len(s) <= Len(whole)
  /\ \A j \in 1 .. Len(s) : s[j] = whole[Len(whole) - Len(s) + j]

(* What is left begins where the whole goes on, and without its head it is still a rest. *)
LEMMA SuffixTail ==
  ASSUME NEW S, NEW s \in Seq(S), NEW whole \in Seq(S), s # <<>>, SuffixOf(s, whole)
  PROVE  /\ Tail(s) \in Seq(S) /\ Len(Tail(s)) = Len(s) - 1 /\ Len(s) \in Nat \ {0}
         /\ SuffixOf(Tail(s), whole)
         /\ Head(s) = whole[Len(whole) - Len(s) + 1] /\ Head(s) = s[1] /\ Head(s) \in S
<1>1. Len(s) \in Nat \ {0} /\ Len(whole) \in Nat
  BY EmptySeq, LenProperties
<1>2. /\ Head(s) \in S /\ Tail(s) \in Seq(S) /\ Len(Tail(s)) = Len(s) - 1
      /\ \A i \in 1 .. Len(Tail(s)) : Tail(s)[i] = s[i + 1]
  BY HeadTailProperties
<1>3. Head(s) = s[1]
  OBVIOUS
<1>4. s[1] = whole[Len(whole) - Len(s) + 1]
  <2>1. 1 \in 1 .. Len(s)
    BY <1>1
  <2> QED
    BY <2>1 DEF SuffixOf
<1>5. SuffixOf(Tail(s), whole)
  <2>1. Len(Tail(s)) <= Len(whole)
    BY <1>1, <1>2 DEF SuffixOf
  <2>2. ASSUME NEW j \in 1 .. Len(Tail(s))
        PROVE  Tail(s)[j] = whole[Len(whole) - Len(Tail(s)) + j]
    <3>1. j + 1 \in 1 .. Len(s) /\ Tail(s)[j] = s[j + 1]
      BY <1>1, <1>2
    <3>2. s[j + 1] = whole[Len(whole) - Len(s) + (j + 1)]
      BY <3>1 DEF SuffixOf
    <3>3. Len(whole) - Len(s) + (j + 1) = Len(whole) - Len(Tail(s)) + j
      BY <1>1, <1>2
    <3> QED
      BY <3>1, <3>2, <3>3
  <2> QED
    BY <2>1, <2>2 DEF SuffixOf
<1> QED
  BY <1>1, <1>2, <1>3, <1>4, <1>5

(* All of a sequence is left of it, and so is nothing. *)
LEMMA SuffixEnds ==
  ASSUME NEW S, NEW whole \in Seq(S)
  PROVE  SuffixOf(whole, whole) /\ SuffixOf(<<>>, whole)
<1>1. Len(whole) \in Nat /\ Len(<<>>) = 0
  BY LenProperties
<1>2. \A j \in 1 .. Len(whole) : Len(whole) - Len(whole) + j = j
  BY <1>1
<1> QED
  BY <1>1, <1>2 DEF SuffixOf

(* Read backwards, the character added last comes first. *)
LEMMA ReverseAppend ==
  ASSUME NEW s \in Seq(Char), NEW c \in Char
  PROVE  /\ Reverse(s) \in Seq(Char) /\ Reverse(Append(s, c)) \in Seq(Char)
         /\ Reverse(Append(s, c)) = <<c>> \o Reverse(s)
<1>1. Len(s) \in Nat /\ \A i \in 1 .. Len(s) : s[i] \in Char
  BY LenProperties, ElementOfSeq
<1>2. /\ Append(s, c) \in Seq(Char) /\ Len(Append(s, c)) = Len(s) + 1
      /\ \A i \in 1 .. Len(s) : Append(s, c)[i] = s[i]
      /\ Append(s, c)[Len(s) + 1] = c
  BY AppendProperties
<1>3. Reverse(s) \in Seq(Char) /\ Len(Reverse(s)) = Len(s)
  <2>1. \A i \in 1 .. Len(s) : s[(Len(s) - i) + 1] \in Char
    BY <1>1
  <2>2. Reverse(s) \in [1 .. Len(s) -> Char]
    BY <2>1 DEF Reverse
  <2> QED
    BY <1>1, <2>2, SeqDef
<1>4. PICK r \in Seq(Char) : r = Reverse(s)
  BY <1>3
<1>5. Reverse(Append(s, c)) \in Seq(Char) /\ Len(Reverse(Append(s, c))) = Len(s) + 1
  <2>1. \A i \in 1 .. Len(s) + 1 : Append(s, c)[((Len(s) + 1) - i) + 1] \in Char
    BY <1>1, <1>2
  <2>2. Reverse(Append(s, c)) \in [1 .. Len(s) + 1 -> Char]
    BY <1>2, <2>1 DEF Reverse
  <2> QED
    BY <1>1, <2>2, SeqDef
<1>6. /\ <<c>> \o r \in Seq(Char) /\ Len(<<c>> \o r) = 1 + Len(s)
      /\ \A i \in 1 .. 1 + Len(s) : (<<c>> \o r)[i] = IF i <= 1 THEN c ELSE r[i - 1]
  <2>1. PICK o \in Seq(Char) : o = <<c>> /\ Len(o) = 1 /\ o[1] = c
    BY OneChar
  <2>2. /\ o \o r \in Seq(Char) /\ Len(o \o r) = Len(o) + Len(r)
        /\ \A i \in 1 .. Len(o) + Len(r) : (o \o r)[i] = IF i <= Len(o) THEN o[i] ELSE r[i - Len(o)]
    BY ConcatProperties
  <2>3. \A i \in 1 .. 1 + Len(s) : i <= 1 => i = 1
    BY <1>1
  <2> QED
    BY <1>3, <1>4, <2>1, <2>2, <2>3
<1>7. ASSUME NEW i \in 1 .. Len(s) + 1
      PROVE  Reverse(Append(s, c))[i] = (<<c>> \o r)[i]
  <2>1. Reverse(Append(s, c))[i] = Append(s, c)[((Len(s) + 1) - i) + 1]
    BY <1>2 DEF Reverse
  <2>2. CASE i = 1
    <3>1. ((Len(s) + 1) - i) + 1 = Len(s) + 1 /\ i \in 1 .. 1 + Len(s)
      BY <1>1, <2>2
    <3> QED
      BY <1>2, <1>6, <2>1, <2>2, <3>1
  <2>3. CASE i # 1
    <3>1. /\ i - 1 \in 1 .. Len(s) /\ ~(i <= 1) /\ i \in 1 .. 1 + Len(s)
          /\ ((Len(s) + 1) - i) + 1 = (Len(s) - (i - 1)) + 1
          /\ (Len(s) - (i - 1)) + 1 \in 1 .. Len(s)
      BY <1>1, <2>3
    <3>2. r[i - 1] = s[(Len(s) - (i - 1)) + 1]
      BY <1>4, <3>1 DEF Reverse
    <3> QED
      BY <1>2, <1>6, <2>1, <3>1, <3>2
  <2> QED
    BY <2>2, <2>3
<1>8. Reverse(Append(s, c)) = <<c>> \o r
  <2>1. PICK x \in Seq(Char) : x = Reverse(Append(s, c)) /\ Len(x) = Len(s) + 1
    BY <1>5
  <2>2. PICK y \in Seq(Char) : y = <<c>> \o r /\ Len(y) = Len(s) + 1
    <3>1. 1 + Len(s) = Len(s) + 1
      BY <1>1
    <3> QED
      BY <1>6, <3>1
  <2>3. \A i \in 1 .. Len(x) : x[i] = y[i]
    BY <1>7, <2>1, <2>2
  <2>4. x = y
    BY <2>1, <2>2, <2>3, SeqEqual
  <2> QED
    BY <2>1, <2>2, <2>4
<1> QED
  BY <1>3, <1>4, <1>5, <1>8

(* The lowest digit of a number moves from its notation to the buffer. *)
LEMMA DigitMoves ==
  ASSUME NEW n \in Nat, NEW s \in Seq(Char)
  PROVE  LET more == Append(s, <<"digit", n % RADIX>>) IN
         /\ more \in Seq(Char)
         /\ n \div RADIX > 0 =>
              Decimal[n] \o Reverse(s) = Decimal[n \div RADIX] \o Reverse(more)
         /\ ~(n \div RADIX > 0) => Decimal[n] \o Reverse(s) = Reverse(more)
<1>1. PICK d \in Char : d = <<"digit", n % RADIX>>
  BY Shorter, CharFacts
<1>2. Append(s, d) \in Seq(Char)
  BY AppendProperties
<1>3. PICK r \in Seq(Char) : r = Reverse(s)
  BY <1>1, ReverseAppend
<1>4. Reverse(Append(s, d)) = <<d>> \o r
  BY <1>3, ReverseAppend
<1>5. PICK o \in Seq(Char) : o = <<d>>
  BY OneChar
<1>6. ASSUME n \div RADIX > 0
      PROVE  Decimal[n] \o r = Decimal[n \div RADIX] \o (o \o r)
  <2>1. n >= RADIX
    BY <1>6, Shorter DEF RADIX
  <2>2. PICK e \in Seq(Char) : e = Decimal[n \div RADIX]
    BY Shorter, DecimalType
  <2>3. Decimal[n] = Append(e, d)
    BY <1>1, <2>1, <2>2, DecimalNotation
  <2>4. Append(e, d) = e \o o
    BY <1>5, AppendIsConcat
  <2>5. (e \o o) \o r = e \o (o \o r)
    BY ConcatAssociative
  <2> QED
    BY <2>2, <2>3, <2>4, <2>5
<1>7. ASSUME ~(n \div RADIX > 0)
      PROVE  Decimal[n] = o
  <2>1. n < RADIX /\ n % RADIX = n
    BY <1>7, Shorter DEF RADIX
  <2> QED
    BY <1>1, <1>5, <2>1, DecimalNotation
<1> QED
  BY <1>1, <1>2, <1>3, <1>4, <1>5, <1>6, <1>7

(***************************************************************************)
(* The cursor.                                                             *)
(***************************************************************************)

(* What a remainder is of, with a quotient of any sign *)
LEMMA RemainderOf ==
  ASSUME NEW b \in Nat \ {0}, NEW q \in Int, NEW r \in 0 .. b - 1, b * q + r \in Nat
  PROVE  (b * q + r) % b = r
<1>1. q \in Nat
  <2>1. SUFFICES ASSUME q < 0 PROVE FALSE
    OBVIOUS
  <2>2. PICK m \in Nat : q = -1 - m
    <3>1. -1 - q \in Nat /\ q = -1 - (-1 - q)
      BY <2>1
    <3> QED
      BY <3>1
  <2>3. b * q = -b - b * m /\ b * m \in Nat
    BY <2>2
  <2> QED
    BY <2>3
<1> QED
  BY <1>1, DivisionUnique

Divides(S, W) == W % S = 0
SameModulo(p, l, S) == p % S = l % S

(* A position that wraps at a multiple of S keeps in step with a length modulo S. *)
LEMMA WrapsInStep ==
  ASSUME NEW S \in Nat \ {0}, NEW W \in Nat \ {0}, Divides(S, W),
         NEW p \in Nat, NEW l \in Nat, NEW n \in Nat, SameModulo(p, l, S)
  PROVE  (p + n) % W \in Nat /\ SameModulo((p + n) % W, l + n, S)
<1>1. PICK w \in Nat : W = S * w
  <2>1. PICK w \in Nat : w = W \div S
    BY Division
  <2>2. W = S * w + (W % S)
    BY <2>1, Division
  <2>3. W % S = 0
    BY DEF Divides
  <2>4. S * w + 0 = S * w
    BY <2>1
  <2> QED
    BY <2>2, <2>3, <2>4, Zenon
<1>2. PICK x \in Nat, y \in 0 .. W - 1 : p + n = W * x + y /\ y = (p + n) % W
  <2>1. p + n \in Nat
    OBVIOUS
  <2> QED
    BY <2>1, Division
<1>3. PICK y1 \in Nat, y2 \in 0 .. S - 1 : y = S * y1 + y2 /\ y2 = y % S
  <2>1. y \in Nat
    BY <1>2
  <2>2. y \div S \in Nat /\ y % S \in 0 .. S - 1 /\ y = S * (y \div S) + (y % S)
    BY <2>1, Division
  <2> QED
    BY <2>2
<1>4. PICK p1 \in Nat, r \in 0 .. S - 1 : p = S * p1 + r /\ r = p % S
  BY Division
<1>5. PICK l1 \in Nat : l = S * l1 + r
  <2>1. l \div S \in Nat /\ l = S * (l \div S) + (l % S)
    BY Division
  <2>2. l % S = r
    BY <1>4 DEF SameModulo
  <2> QED
    BY <2>1, <2>2, Zenon
<1>6. PICK wx \in Nat : wx = w * x
  BY <1>1, <1>2
<1>7. W * x = S * wx
  BY <1>1, <1>2, <1>6
<1>8. PICK q \in Int : q = wx + y1 - p1 + l1
  BY <1>3, <1>4, <1>5, <1>6
<1>9. S * q = S * wx + S * y1 - S * p1 + S * l1
  BY <1>3, <1>4, <1>5, <1>6, <1>8
<1>10. l + n = S * q + y2
  <2>1. PICK a1 \in Nat : a1 = S * wx
    BY <1>6
  <2>2. PICK a2 \in Nat : a2 = S * y1
    BY <1>3
  <2>3. PICK a3 \in Nat : a3 = S * p1
    BY <1>4
  <2>4. PICK a4 \in Nat : a4 = S * l1
    BY <1>5
  <2>5. PICK a5 \in Int : a5 = S * q
    BY <1>8
  <2>6. p + n = a1 + y /\ y = a2 + y2 /\ p = a3 + r /\ l = a4 + r /\ a5 = a1 + a2 - a3 + a4
    BY <1>2, <1>3, <1>4, <1>5, <1>7, <1>9, <2>1, <2>2, <2>3, <2>4, <2>5
  <2>7. l + n = a5 + y2
    <3>1. y2 \in Int /\ r \in Int /\ y \in Int
      BY <1>2, <1>3, <1>4
    <3>2. a3 + r + n = a1 + a2 + y2
      BY <2>6, <3>1
    <3>3. a4 + r + n = a1 + a2 - a3 + a4 + y2
      BY <3>1, <3>2
    <3> QED
      BY <2>6, <3>3
  <2> QED
    BY <2>5, <2>7
<1>11. (S * q + y2) % S = y2
  <2>1. S * q + y2 \in Nat
    BY <1>10
  <2> QED
    BY <1>3, <1>8, <2>1, RemainderOf
<1>12. (p + n) % W \in Nat /\ ((p + n) % W) % S = y2
  <2>1. (p + n) % W = y /\ y \in Nat
    BY <1>2
  <2>2. y % S = y2
    BY <1>3
  <2> QED
    BY <2>1, <2>2, Zenon
<1> QED
  BY <1>10, <1>11, <1>12 DEF SameModulo

(* The two bytes of an unsigned short make it up. *)
LEMMA TwoBytes ==
  ASSUME NEW m \in Nat, m < SHORT
  PROVE  ((m \div BYTE) % BYTE) * BYTE + (m % BYTE) = m
<1>1. BYTE \in Nat \ {0}
  BY ConsoleAssumption
<1>2. PICK q \in Nat, r \in 0 .. BYTE - 1 : m = BYTE * q + r /\ q = m \div BYTE /\ r = m % BYTE
  BY <1>1, Division
<1>3. q < BYTE
  <2>1. SUFFICES ASSUME q >= BYTE PROVE FALSE
    BY <1>1
  <2>2. PICK e \in Nat : q = BYTE + e
    <3>1. q - BYTE \in Nat /\ q = BYTE + (q - BYTE)
      BY <1>1, <2>1
    <3> QED
      BY <3>1
  <2>3. BYTE * q = BYTE * BYTE + BYTE * e /\ BYTE * e \in Nat /\ BYTE * BYTE \in Nat
    BY <1>1, <2>2
  <2> QED
    BY <1>2, <2>3 DEF SHORT
<1>4. q % BYTE = q
  BY <1>1, <1>3
<1>5. q * BYTE + r = m
  BY <1>1, <1>2
<1>6. m \div BYTE = q /\ m % BYTE = r
  BY <1>2
<1> QED
  BY <1>4, <1>5, <1>6, Zenon

(***************************************************************************)
(* What is printed, from a place of the format on.                         *)
(***************************************************************************)

(* One character of text, the end, %%, a letter that is no conversion, and a conversion *)
LEMMA RowCases ==
  ASSUME NEW f \in Seq(Class), NEW args \in Seq(Word),
         NEW i \in 1 .. Len(f) + 2, NEW k \in 1 .. Len(args) + 1
  PROVE  LET P == Printed(f, args) IN
         /\ P[i][k] \in Seq(Char)
         /\ i > Len(f) => P[i][k] = <<>>
         /\ i = Len(f) /\ f[i] = "%" => P[i][k] = <<>>
         /\ i <= Len(f) /\ f[i] # "%" => P[i][k] = << <<"text", f[i]>> >> \o P[i + 1][k]
         /\ i < Len(f) /\ f[i] = "%" =>
              /\ f[i + 1] = "%" => P[i][k] = << <<"text", "%">> >> \o P[i + 2][k]
              /\ f[i + 1] # "%" /\ f[i + 1] \notin TakesArgument => P[i][k] = P[i + 2][k]
              /\ f[i + 1] \in TakesArgument /\ k <= Len(args) =>
                   P[i][k] = Converted(f[i + 1], args[k]) \o P[i + 2][k + 1]
<1> DEFINE P == Printed(f, args)
<1>1. P[i] = RowOf(f, args, i, P[i + 1], P[i + 2])
  BY PrintedRows
<1>2. P[i] \in Rows(args)
  BY PrintedType
<1> HIDE DEF P
<1>3. P[i][k] \in Seq(Char)
  BY <1>2 DEF Rows
<1>4. Len(f) \in Nat /\ Len(args) \in Nat
  BY LenProperties
<1>5. P[i][k] = IF i > Len(f) \/ (i = Len(f) /\ f[i] = "%") THEN <<>>
                ELSE IF f[i] # "%" THEN << <<"text", f[i]>> >> \o P[i + 1][k]
                ELSE IF f[i + 1] = "%" THEN << <<"text", "%">> >> \o P[i + 2][k]
                ELSE IF f[i + 1] \notin TakesArgument THEN P[i + 2][k]
                ELSE IF k > Len(args) THEN <<>>
                ELSE Converted(f[i + 1], args[k]) \o P[i + 2][k + 1]
  BY <1>1 DEF RowOf
<1>6. /\ i <= Len(f) => ~(i > Len(f))
      /\ i < Len(f) => ~(i > Len(f)) /\ i # Len(f)
      /\ k <= Len(args) => ~(k > Len(args))
  BY <1>4
<1>7. "%" \notin TakesArgument
  BY DEF TakesArgument
<1>8. /\ i > Len(f) => P[i][k] = <<>>
      /\ i = Len(f) /\ f[i] = "%" => P[i][k] = <<>>
      /\ i <= Len(f) /\ f[i] # "%" => P[i][k] = << <<"text", f[i]>> >> \o P[i + 1][k]
  BY <1>5, <1>6, Zenon
<1>9. ASSUME i < Len(f), f[i] = "%"
      PROVE  /\ f[i + 1] = "%" => P[i][k] = << <<"text", "%">> >> \o P[i + 2][k]
             /\ f[i + 1] # "%" /\ f[i + 1] \notin TakesArgument => P[i][k] = P[i + 2][k]
             /\ f[i + 1] \in TakesArgument /\ k <= Len(args) =>
                  P[i][k] = Converted(f[i + 1], args[k]) \o P[i + 2][k + 1]
  BY <1>5, <1>6, <1>7, <1>9, Zenon
<1> QED
  BY <1>3, <1>8, <1>9 DEF P

(***************************************************************************)
(* The invariant.                                                          *)
(***************************************************************************)

(* The format has no length modifier. *)
Plain == Range(call.fmt) \cap {"h", "l"} = {}

(* The next character of the format and the next argument, as places *)
Place == Len(call.fmt) - Len(fmt) + 1
NextArg == Len(call.args) - Len(argp) + 1

Whole == Reference(call.fmt, call.args)
Ahead(i, k) == Printed(call.fmt, call.args)[i][k]
Minus == IF sign THEN << <<"text", "-">> >> ELSE <<>>

FormatTypes ==
  /\ call.fmt \in Seq(Class) /\ call.args \in Seq(Word)
  /\ Len(call.fmt) <= 2 * Len(call.args)
  /\ fmt \in Seq(Class) /\ argp \in Seq(Word)
  /\ out \in Seq(Char) /\ buffer \in Seq(Char)
  /\ sign \in BOOLEAN /\ number \in Nat /\ fb_cursor_pos \in Nat

Control ==
  /\ at \in {"idle", "parse", "digits", "emit"}
  /\ state \in {"NORMAL", "LENGTH"} /\ (at # "parse" => state = "NORMAL")
  /\ length = "DEFAULT"

(* A conversion is two characters, so that there is an argument for the next one. *)
RestFollows ==
  /\ SuffixOf(fmt, call.fmt) /\ SuffixOf(argp, call.args)
  /\ at # "idle" => 2 * (NextArg - 1) + (IF state = "LENGTH" THEN 1 ELSE 0) < Place

CursorFollows ==
  /\ fb_cursor_pos % SHORT = Len(out) % SHORT
  /\ cursor.high * BYTE + cursor.low = Len(out) % SHORT

(* What is out, in the buffer, still to be divided and ahead make up the whole. *)
OutFollows ==
  /\ at = "idle" => out = Whole
  /\ at = "parse" /\ state = "NORMAL" => Whole = out \o Ahead(Place, NextArg)
  /\ at = "parse" /\ state = "LENGTH" =>
       /\ Place > 1 /\ call.fmt[Place - 1] = "%"
       /\ Whole = out \o Ahead(Place - 1, NextArg)
  /\ at = "digits" =>
       /\ divisor = RADIX /\ number % WORD = asked
       /\ Whole = out \o (Minus \o ((Decimal[asked] \o Reverse(buffer)) \o Ahead(Place, NextArg)))
  /\ at = "emit" =>
       Whole = out \o (Minus \o (Reverse(buffer) \o Ahead(Place, NextArg)))

Following ==
  /\ IInv /\ FormatTypes /\ Control /\ RestFollows /\ CursorFollows /\ OutFollows

(* The inductive invariant *)
FormatInv == calls \in Nat /\ (calls = 0 /\ Plain => Following)

(* Where the rest of the format and of the arguments begins *)
LEMMA Places ==
  ASSUME Following
  PROVE  /\ Len(call.fmt) \in Nat /\ Len(call.args) \in Nat
         /\ Len(fmt) \in Nat /\ Len(argp) \in Nat
         /\ Place \in 1 .. Len(call.fmt) + 1 /\ NextArg \in 1 .. Len(call.args) + 1
         /\ fmt = <<>> <=> Place = Len(call.fmt) + 1
<1>1. /\ Len(call.fmt) \in Nat /\ Len(call.args) \in Nat
      /\ Len(fmt) \in Nat /\ Len(argp) \in Nat
  BY LenProperties DEF Following, FormatTypes
<1>2. fmt = <<>> <=> Len(fmt) = 0
  <2>1. fmt \in Seq(Class)
    BY DEF Following, FormatTypes
  <2> QED
    BY <2>1, EmptySeq
<1>3. Len(fmt) <= Len(call.fmt) /\ Len(argp) <= Len(call.args)
  BY DEF Following, RestFollows, SuffixOf
<1> QED
  BY <1>1, <1>2, <1>3 DEF Place, NextArg

(* The next character is one of the format's, and neither h nor l. *)
LEMMA NextCharacter ==
  ASSUME Following, Plain, fmt # <<>>
  PROVE  /\ Place \in 1 .. Len(call.fmt)
         /\ Head(fmt) = call.fmt[Place] /\ Head(fmt) \in Class \ {"h", "l"}
         /\ Tail(fmt) \in Seq(Class) /\ SuffixOf(Tail(fmt), call.fmt)
         /\ Len(call.fmt) - Len(Tail(fmt)) + 1 = Place + 1
<1>1. /\ Len(call.fmt) \in Nat /\ Len(fmt) \in Nat
      /\ Place \in 1 .. Len(call.fmt) + 1 /\ Place # Len(call.fmt) + 1
  BY Places
<1>2. Place \in 1 .. Len(call.fmt)
  BY <1>1
<1>3. PICK f \in Seq(Class) : f = call.fmt
  BY DEF Following, FormatTypes
<1>4. PICK s \in Seq(Class) : s = fmt
  BY DEF Following, FormatTypes
<1>5. s # <<>> /\ SuffixOf(s, f)
  BY <1>3, <1>4 DEF Following, RestFollows
<1>6. /\ Tail(s) \in Seq(Class) /\ Len(Tail(s)) = Len(s) - 1
      /\ SuffixOf(Tail(s), f)
      /\ Head(s) = f[Len(f) - Len(s) + 1] /\ Head(s) \in Class
  BY <1>5, SuffixTail
<1>7. Head(fmt) = call.fmt[Place]
  BY <1>3, <1>4, <1>6 DEF Place
<1>8. call.fmt[Place] \in Range(call.fmt)
  <2>1. DOMAIN f = 1 .. Len(f)
    BY LenProperties
  <2> QED
    BY <1>2, <1>3, <2>1 DEF Range
<1>9. Head(fmt) \notin {"h", "l"}
  BY <1>7, <1>8 DEF Plain
<1>10. Len(call.fmt) - Len(Tail(fmt)) + 1 = Place + 1
  BY <1>1, <1>4, <1>6 DEF Place
<1> QED
  BY <1>2, <1>3, <1>4, <1>6, <1>7, <1>9, <1>10

(* After % there is an argument left. *)
LEMMA NextArgument ==
  ASSUME Following, Plain, fmt # <<>>, at = "parse", state = "LENGTH"
  PROVE  /\ NextArg \in 1 .. Len(call.args)
         /\ argp # <<>> /\ argp[1] = call.args[NextArg] /\ argp[1] \in Word
         /\ Tail(argp) \in Seq(Word) /\ SuffixOf(Tail(argp), call.args)
         /\ Len(call.args) - Len(Tail(argp)) + 1 = NextArg + 1
         /\ SubSeq(argp, 2, Len(argp)) = Tail(argp)
<1>1. /\ Len(call.fmt) \in Nat /\ Len(call.args) \in Nat /\ Len(argp) \in Nat
      /\ NextArg \in 1 .. Len(call.args) + 1
  BY Places
<1>2. Place \in 1 .. Len(call.fmt)
  BY NextCharacter
<1>3. 2 * (NextArg - 1) + 1 < Place /\ Len(call.fmt) <= 2 * Len(call.args)
  BY DEF Following, RestFollows, FormatTypes
<1>4. NextArg \in 1 .. Len(call.args)
  BY <1>1, <1>2, <1>3
<1>5. PICK a \in Seq(Word) : a = call.args
  BY DEF Following, FormatTypes
<1>6. PICK s \in Seq(Word) : s = argp
  BY DEF Following, FormatTypes
<1>7. s # <<>>
  <2>1. Len(s) > 0
    BY <1>1, <1>4, <1>6 DEF NextArg
  <2>2. Len(<<>>) = 0
    OBVIOUS
  <2> QED
    BY <2>1, <2>2
<1>8. /\ Tail(s) \in Seq(Word) /\ Len(Tail(s)) = Len(s) - 1
      /\ SuffixOf(Tail(s), a)
      /\ s[1] = a[Len(a) - Len(s) + 1] /\ s[1] \in Word
  <2>1. SuffixOf(s, a)
    BY <1>5, <1>6 DEF Following, RestFollows
  <2>2. Head(s) = s[1] /\ Head(s) \in Word
    BY <1>7, <2>1, SuffixTail
  <2> QED
    BY <1>7, <2>1, <2>2, SuffixTail
<1>9. SubSeq(s, 2, Len(s)) = Tail(s)
  BY <1>7, TailIsSubSeq
<1>10. Len(call.args) - Len(Tail(argp)) + 1 = NextArg + 1
  BY <1>1, <1>6, <1>8 DEF NextArg
<1> QED
  BY <1>4, <1>5, <1>6, <1>7, <1>8, <1>9, <1>10 DEF NextArg

(* What is written is added to what is out, and the cursor goes along. *)
LEMMA PutFollows ==
  ASSUME Following, NEW chars \in Seq(Char), Put(chars)
  PROVE  /\ out' = out \o chars /\ out' \in Seq(Char)
         /\ fb_cursor_pos' \in Nat /\ CursorFollows'
<1>1. PICK o \in Seq(Char) : o = out
  BY DEF Following, FormatTypes
<1>2. o \o chars \in Seq(Char) /\ Len(o \o chars) = Len(o) + Len(chars)
  BY ConcatProperties
<1>3. Len(o) \in Nat /\ Len(chars) \in Nat
  BY LenProperties
<1>4. out' = o \o chars
  BY <1>1 DEF Put
<1>5. fb_cursor_pos' = (fb_cursor_pos + Len(chars)) % WORD
  BY DEF Put, fb_write
<1>6. PICK S \in Nat \ {0} : S = SHORT /\ WORD % S = 0
  <2>1. BYTE * BYTE \in Nat \ {0}
    BY ConsoleAssumption
  <2> QED
    BY <2>1, ConsoleAssumption DEF SHORT
<1>7. fb_cursor_pos' \in Nat /\ fb_cursor_pos' % S = (Len(o) + Len(chars)) % S
  <2>1. fb_cursor_pos \in Nat /\ fb_cursor_pos % S = Len(o) % S
    BY <1>1, <1>6 DEF Following, FormatTypes, CursorFollows
  <2>2. PICK W \in Nat \ {0} : W = WORD
    BY WordFacts
  <2>3. PICK p \in Nat : p = fb_cursor_pos
    BY <2>1
  <2>4. PICK l \in Nat : l = Len(o)
    BY <1>3
  <2>5. PICK n \in Nat : n = Len(chars)
    BY <1>3
  <2>6. Divides(S, W) /\ SameModulo(p, l, S)
    BY <1>6, <2>1, <2>2, <2>3, <2>4 DEF Divides, SameModulo
  <2>7. (p + n) % W \in Nat /\ SameModulo((p + n) % W, l + n, S)
    BY <2>6, WrapsInStep
  <2> QED
    BY <1>5, <2>2, <2>3, <2>4, <2>5, <2>7 DEF SameModulo
<1>8. PICK m \in Nat : m = fb_cursor_pos' % SHORT /\ m < SHORT
  <2>1. fb_cursor_pos' % S \in 0 .. S - 1
    BY <1>7, Division
  <2> QED
    BY <1>6, <2>1
<1>9. cursor' = [high |-> (m \div BYTE) % BYTE, low |-> m % BYTE]
  BY <1>8 DEF Put, fb_write, fb_move_cursor
<1>10. cursor'.high * BYTE + cursor'.low = m
  BY <1>8, <1>9, TwoBytes
<1>11. Len(out') = Len(o) + Len(chars)
  BY <1>2, <1>4
<1>12. CursorFollows'
  BY <1>6, <1>7, <1>8, <1>10, <1>11 DEF CursorFollows
<1> QED
  BY <1>1, <1>2, <1>4, <1>7, <1>12

(***************************************************************************)
(* The steps.                                                              *)
(***************************************************************************)

(* Nothing of printf changes. *)
LEMMA StutterFollows ==
  ASSUME Following, IInv', UNCHANGED <<at, printf_vars, fb_vars>>,
         at = "digits" => UNCHANGED <<divisor, asked>>
  PROVE  Following'
<1>1. UNCHANGED <<at, fmt, argp, state, length, number, sign, buffer, call,
                  fb_cursor_pos, cursor, out>>
  BY DEF printf_vars, fb_vars
<1>2. FormatTypes'
  BY <1>1 DEF Following, FormatTypes
<1>3. Control'
  BY <1>1 DEF Following, Control
<1>4. RestFollows'
  BY <1>1 DEF Following, RestFollows, NextArg, Place
<1>5. CursorFollows'
  BY <1>1 DEF Following, CursorFollows
<1>6. OutFollows'
  BY <1>1 DEF Following, OutFollows, Whole, Ahead, Minus, NextArg, Place
<1> QED
  BY <1>2, <1>3, <1>4, <1>5, <1>6 DEF Following

(* A step to the next character of the format *)
LEMMA ParseFollows ==
  ASSUME Following, IInv', call' = call, at' = "parse",
         state' \in {"NORMAL", "LENGTH"}, length' = "DEFAULT",
         fmt' \in Seq(Class), SuffixOf(fmt', call.fmt),
         argp' \in Seq(Word), SuffixOf(argp', call.args),
         out' \in Seq(Char), buffer' \in Seq(Char), sign' \in BOOLEAN,
         number' \in Nat, fb_cursor_pos' \in Nat, CursorFollows',
         NEW j, j = Len(call.fmt) - Len(fmt') + 1,
         NEW k, k = Len(call.args) - Len(argp') + 1,
         2 * (k - 1) + (IF state' = "LENGTH" THEN 1 ELSE 0) < j,
         state' = "NORMAL" => Whole = out' \o Ahead(j, k),
         state' = "LENGTH" =>
           j > 1 /\ call.fmt[j - 1] = "%" /\ Whole = out' \o Ahead(j - 1, k)
  PROVE  Following'
<1>1. FormatTypes'
  BY DEF Following, FormatTypes
<1>2. Control'
  BY DEF Control
<1>3. Place' = j /\ NextArg' = k
  BY DEF Place, NextArg
<1>4. RestFollows'
  BY <1>3 DEF RestFollows
<1>5. OutFollows'
  BY <1>3 DEF OutFollows, Whole, Ahead
<1> QED
  BY <1>1, <1>2, <1>4, <1>5 DEF Following

(* Concatenation is associative. *)
LEMMA Regroup ==
  ASSUME NEW s \in Seq(Char), NEW t \in Seq(Char), NEW u \in Seq(Char)
  PROVE  (s \o t) \o u = s \o (t \o u)
BY ConcatAssociative

(* What is written was ahead. *)
LEMMA Advance ==
  ASSUME Following, NEW chars \in Seq(Char), Put(chars), NEW rest \in Seq(Char)
  PROVE  Whole = out \o (chars \o rest) => Whole = out' \o rest
<1>1. PICK o \in Seq(Char) : o = out
  BY DEF Following, FormatTypes
<1>2. out' = o \o chars
  BY <1>1 DEF Put
<1>3. (o \o chars) \o rest = o \o (chars \o rest)
  BY Regroup
<1> QED
  BY <1>1, <1>2, <1>3, Zenon

(* What is ahead is made of characters, and is nothing at the end. *)
LEMMA AheadCases ==
  ASSUME Following, NEW i \in 1 .. Len(call.fmt) + 2, NEW k \in 1 .. Len(call.args) + 1
  PROVE  /\ Ahead(i, k) \in Seq(Char)
         /\ i > Len(call.fmt) => Ahead(i, k) = <<>>
         /\ i = Len(call.fmt) /\ call.fmt[i] = "%" => Ahead(i, k) = <<>>
         /\ i <= Len(call.fmt) /\ call.fmt[i] # "%" =>
              Ahead(i, k) = << <<"text", call.fmt[i]>> >> \o Ahead(i + 1, k)
         /\ i < Len(call.fmt) /\ call.fmt[i] = "%" =>
              /\ call.fmt[i + 1] = "%" =>
                   Ahead(i, k) = << <<"text", "%">> >> \o Ahead(i + 2, k)
              /\ call.fmt[i + 1] # "%" /\ call.fmt[i + 1] \notin TakesArgument =>
                   Ahead(i, k) = Ahead(i + 2, k)
              /\ call.fmt[i + 1] \in TakesArgument /\ k <= Len(call.args) =>
                   Ahead(i, k) = Converted(call.fmt[i + 1], call.args[k]) \o Ahead(i + 2, k + 1)
<1>1. PICK f \in Seq(Class) : f = call.fmt
  BY DEF Following, FormatTypes
<1>2. PICK a \in Seq(Word) : a = call.args
  BY DEF Following, FormatTypes
<1> DEFINE P(x, y) == Printed(f, a)[x][y]
<1>3. i \in 1 .. Len(f) + 2 /\ k \in 1 .. Len(a) + 1
  BY <1>1, <1>2
<1>4. /\ P(i, k) \in Seq(Char)
      /\ i > Len(f) => P(i, k) = <<>>
      /\ i = Len(f) /\ f[i] = "%" => P(i, k) = <<>>
      /\ i <= Len(f) /\ f[i] # "%" => P(i, k) = << <<"text", f[i]>> >> \o P(i + 1, k)
      /\ i < Len(f) /\ f[i] = "%" =>
           /\ f[i + 1] = "%" => P(i, k) = << <<"text", "%">> >> \o P(i + 2, k)
           /\ f[i + 1] # "%" /\ f[i + 1] \notin TakesArgument => P(i, k) = P(i + 2, k)
           /\ f[i + 1] \in TakesArgument /\ k <= Len(a) =>
                P(i, k) = Converted(f[i + 1], a[k]) \o P(i + 2, k + 1)
  BY <1>3, RowCases
<1>5. \A x, y : Ahead(x, y) = P(x, y)
  BY <1>1, <1>2 DEF Ahead
<1> HIDE DEF P
<1> QED
  BY <1>1, <1>2, <1>4, <1>5

(* A character of text, or the % of a conversion *)
LEMMA NormalFollows ==
  ASSUME Following, Plain, Normal
  PROVE  Following'
<1>1. /\ at = "parse" /\ fmt # <<>> /\ state = "NORMAL"
      /\ fmt' = Tail(fmt) /\ UNCHANGED <<at, argp, length, words_vars, number, sign, buffer, call>>
      /\ IF Head(fmt) = "%"
           THEN state' = "LENGTH" /\ UNCHANGED fb_vars
           ELSE Put(<< <<"text", Head(fmt)>> >>) /\ UNCHANGED state
  BY DEF Normal, Parsing, Keep
<1>2. IInv'
  BY <1>1, WordsStep DEF Following
<1>3. PICK i \in 1 .. Len(call.fmt) :
        /\ i = Place /\ Head(fmt) = call.fmt[i] /\ Head(fmt) \in Class
        /\ fmt' \in Seq(Class) /\ SuffixOf(fmt', call.fmt)
        /\ Len(call.fmt) - Len(fmt') + 1 = i + 1
  BY <1>1, NextCharacter
<1>4. PICK k \in 1 .. Len(call.args) + 1 : k = NextArg
  BY Places
<1>5. Len(call.fmt) \in Nat /\ Len(call.args) \in Nat
  BY Places
<1>6. /\ argp' \in Seq(Word) /\ SuffixOf(argp', call.args)
      /\ Len(call.args) - Len(argp') + 1 = k
      /\ buffer' \in Seq(Char) /\ sign' \in BOOLEAN /\ number' \in Nat
      /\ at' = "parse" /\ length' = "DEFAULT" /\ call' = call
  BY <1>1, <1>4 DEF Following, FormatTypes, RestFollows, Control, NextArg
<1>7. 2 * (k - 1) < i
  BY <1>1, <1>3, <1>4, <1>5 DEF Following, RestFollows
<1>8. Whole = out \o Ahead(i, k)
  BY <1>1, <1>3, <1>4 DEF Following, OutFollows
<1>9. i \in 1 .. Len(call.fmt) + 2 /\ i + 1 \in 1 .. Len(call.fmt) + 2
  BY <1>5
<1>10. CASE Head(fmt) = "%"
  <2>1. state' = "LENGTH" /\ UNCHANGED <<fb_cursor_pos, cursor, out>>
    BY <1>1, <1>10 DEF fb_vars
  <2>2. out' \in Seq(Char) /\ fb_cursor_pos' \in Nat /\ CursorFollows'
    BY <2>1 DEF Following, FormatTypes, CursorFollows
  <2>3. (i + 1) - 1 = i /\ i + 1 > 1 /\ 2 * (k - 1) + 1 < i + 1
    BY <1>5, <1>7
  <2>4. state' # "NORMAL"
    BY <2>1
  <2> QED
    BY <1>2, <1>3, <1>6, <1>8, <1>10, <2>1, <2>2, <2>3, <2>4, ParseFollows
<1>11. CASE Head(fmt) # "%"
  <2>1. Put(<< <<"text", Head(fmt)>> >>) /\ state' = "NORMAL"
    BY <1>1, <1>11
  <2>2. PICK chars \in Seq(Char) : chars = << <<"text", Head(fmt)>> >>
    BY <1>3, CharFacts, OneChar
  <2>3. out' \in Seq(Char) /\ fb_cursor_pos' \in Nat /\ CursorFollows'
    BY <2>1, <2>2, PutFollows
  <2>4. Ahead(i, k) = chars \o Ahead(i + 1, k)
    <3>1. i <= Len(call.fmt) /\ call.fmt[i] # "%"
      BY <1>3, <1>5, <1>11
    <3> QED
      BY <1>3, <1>9, <2>2, <3>1, AheadCases
  <2>5. PICK rest \in Seq(Char) : rest = Ahead(i + 1, k)
    BY <1>9, AheadCases
  <2>6. Whole = out' \o rest
    BY <1>8, <2>1, <2>2, <2>4, <2>5, Advance
  <2>7. 2 * (k - 1) + 0 < i + 1 /\ state' # "LENGTH"
    BY <1>5, <1>7, <2>1
  <2> QED
    BY <1>2, <1>3, <1>6, <2>1, <2>3, <2>5, <2>6, <2>7, ParseFollows
<1> QED
  BY <1>10, <1>11

(* The place after a %, and what is ahead of a conversion *)
LEMMA Converting ==
  ASSUME Following, Plain, at = "parse", fmt # <<>>, state = "LENGTH"
  PROVE  \E i \in 2 .. Len(call.fmt) :
           /\ i = Place /\ Head(fmt) = call.fmt[i] /\ call.fmt[i - 1] = "%"
           /\ Head(fmt) \in Class \ {"h", "l"}
           /\ Len(call.fmt) \in Nat /\ Len(call.args) \in Nat
           /\ NextArg \in 1 .. Len(call.args) /\ 2 * (NextArg - 1) + 1 < i
           /\ Ahead(i + 1, NextArg) \in Seq(Char) /\ Ahead(i + 1, NextArg + 1) \in Seq(Char)
           /\ Head(fmt) = "%" =>
                Whole = out \o (<< <<"text", "%">> >> \o Ahead(i + 1, NextArg))
           /\ Head(fmt) # "%" /\ Head(fmt) \notin TakesArgument =>
                Whole = out \o Ahead(i + 1, NextArg)
           /\ Head(fmt) \in TakesArgument =>
                Whole = out \o (Converted(Head(fmt), argp[1]) \o Ahead(i + 1, NextArg + 1))
<1>1. PICK i \in 1 .. Len(call.fmt) :
        i = Place /\ Head(fmt) = call.fmt[i] /\ Head(fmt) \in Class \ {"h", "l"}
  BY NextCharacter
<1>2. Len(call.fmt) \in Nat /\ Len(call.args) \in Nat
  BY Places
<1>3. i > 1 /\ call.fmt[i - 1] = "%" /\ Whole = out \o Ahead(i - 1, NextArg)
  BY <1>1 DEF Following, OutFollows
<1>4. PICK k \in 1 .. Len(call.args) : k = NextArg /\ argp[1] = call.args[k]
  BY NextArgument
<1>5. 2 * (k - 1) + 1 < i
  BY <1>1, <1>4 DEF Following, RestFollows
<1>6. i \in 2 .. Len(call.fmt)
  BY <1>2, <1>3
<1>7. /\ i - 1 \in 1 .. Len(call.fmt) + 2 /\ i + 1 \in 1 .. Len(call.fmt) + 2
      /\ k \in 1 .. Len(call.args) + 1 /\ k + 1 \in 1 .. Len(call.args) + 1
      /\ i - 1 < Len(call.fmt) /\ (i - 1) + 1 = i /\ (i - 1) + 2 = i + 1 /\ k <= Len(call.args)
  BY <1>2, <1>6
<1>8. Ahead(i + 1, k) \in Seq(Char) /\ Ahead(i + 1, k + 1) \in Seq(Char)
  BY <1>7, AheadCases
<1>9. PICK h \in 1 .. Len(call.fmt) + 2 : h = i - 1 /\ h + 1 = i /\ h + 2 = i + 1
  BY <1>7
<1>10. /\ call.fmt[i] = "%" => Ahead(h, k) = << <<"text", "%">> >> \o Ahead(i + 1, k)
       /\ call.fmt[i] # "%" /\ call.fmt[i] \notin TakesArgument => Ahead(h, k) = Ahead(i + 1, k)
       /\ call.fmt[i] \in TakesArgument =>
            Ahead(h, k) = Converted(call.fmt[i], call.args[k]) \o Ahead(i + 1, k + 1)
  <2>1. h < Len(call.fmt) /\ call.fmt[h] = "%"
    BY <1>3, <1>7, <1>9
  <2>2. h \in 1 .. Len(call.fmt) + 2 /\ k \in 1 .. Len(call.args) + 1 /\ k <= Len(call.args)
    BY <1>7
  <2>3. /\ call.fmt[h + 1] = "%" => Ahead(h, k) = << <<"text", "%">> >> \o Ahead(h + 2, k)
        /\ call.fmt[h + 1] # "%" /\ call.fmt[h + 1] \notin TakesArgument =>
             Ahead(h, k) = Ahead(h + 2, k)
        /\ call.fmt[h + 1] \in TakesArgument =>
             Ahead(h, k) = Converted(call.fmt[h + 1], call.args[k]) \o Ahead(h + 2, k + 1)
    BY <2>1, <2>2, AheadCases
  <2> QED
    BY <1>9, <2>3
<1> QED
  BY <1>1, <1>2, <1>3, <1>4, <1>5, <1>6, <1>8, <1>9, <1>10

(* A conversion that is none of a number *)
LEMMA SpecifierFollows ==
  ASSUME Following, Plain, Specifier
  PROVE  Following'
<1> DEFINE c == Head(fmt)
<1>1. /\ at = "parse" /\ fmt # <<>> /\ state = "LENGTH" /\ c \notin {"d", "u"}
      /\ fmt' = Tail(fmt) /\ state' = "NORMAL" /\ length' = "DEFAULT"
      /\ UNCHANGED <<at, words_vars, number, sign, buffer, call>>
  BY DEF Specifier, AtSpecifier, Keep, Following, Control
<1>2. /\ Put(CASE c = "c" -> << <<"char", argp[1] % BYTE>> >>
               [] c = "s" -> StringAt(argp[1])
               [] c = "%" -> << <<"text", "%">> >>
               [] OTHER   -> <<>>)
      /\ argp' = IF c \in {"c", "s"} THEN Tail(argp) ELSE argp
  BY DEF Specifier
<1>3. IInv'
  BY <1>1, WordsStep DEF Following
<1>4. /\ fmt' \in Seq(Class) /\ SuffixOf(fmt', call.fmt)
      /\ Len(call.fmt) - Len(fmt') + 1 = Place + 1
  BY <1>1, NextCharacter
<1>5. /\ buffer' \in Seq(Char) /\ sign' \in BOOLEAN /\ number' \in Nat
      /\ at' = "parse" /\ call' = call /\ state' # "LENGTH"
  BY <1>1 DEF Following, FormatTypes
<1>6. PICK i \in 2 .. Len(call.fmt) :
        /\ i = Place /\ c \in Class \ {"h", "l"}
        /\ Len(call.fmt) \in Nat /\ Len(call.args) \in Nat
        /\ NextArg \in 1 .. Len(call.args) /\ 2 * (NextArg - 1) + 1 < i
        /\ Ahead(i + 1, NextArg) \in Seq(Char) /\ Ahead(i + 1, NextArg + 1) \in Seq(Char)
        /\ c = "%" => Whole = out \o (<< <<"text", "%">> >> \o Ahead(i + 1, NextArg))
        /\ c # "%" /\ c \notin TakesArgument => Whole = out \o Ahead(i + 1, NextArg)
        /\ c \in TakesArgument =>
             Whole = out \o (Converted(c, argp[1]) \o Ahead(i + 1, NextArg + 1))
  BY <1>1, Converting
<1> HIDE DEF c
<1>7. CASE c \in {"c", "s"}
  <2>1. c \in TakesArgument /\ argp[1] \in Word
    BY <1>1, <1>7, NextArgument DEF TakesArgument
  <2>2. Put(Converted(c, argp[1]))
    BY <1>2, <1>7 DEF Converted
  <2>3. PICK chars \in Seq(Char) : chars = Converted(c, argp[1])
    BY <2>1, ConvertedType
  <2>4. Put(chars)
    BY <2>2, <2>3
  <2>5. out' \in Seq(Char) /\ fb_cursor_pos' \in Nat /\ CursorFollows'
    BY <2>4, PutFollows
  <2>6. PICK rest \in Seq(Char) : rest = Ahead(i + 1, NextArg + 1)
    BY <1>6
  <2>7. Whole = out \o (chars \o rest)
    BY <1>6, <2>1, <2>3, <2>6
  <2>8. Whole = out' \o rest
    BY <2>4, <2>7, Advance
  <2>9. argp' = Tail(argp)
    BY <1>2, <1>7
  <2>10. /\ argp' \in Seq(Word) /\ SuffixOf(argp', call.args)
         /\ Len(call.args) - Len(argp') + 1 = NextArg + 1
    BY <1>1, <2>9, NextArgument
  <2>11. 2 * ((NextArg + 1) - 1) + 0 < i + 1
    BY <1>6
  <2> QED
    BY <1>1, <1>3, <1>4, <1>5, <1>6, <2>5, <2>6, <2>8, <2>10, <2>11, ParseFollows
<1>8. CASE c \notin {"c", "s"}
  <2>1. c \notin TakesArgument /\ argp' = argp
    BY <1>1, <1>2, <1>8 DEF TakesArgument
  <2>2. PICK rest \in Seq(Char) : rest = Ahead(i + 1, NextArg)
    BY <1>6
  <2>3. PICK chars \in Seq(Char) : Put(chars) /\ Whole = out \o (chars \o rest)
    <3>1. CASE c = "%"
      <4>1. Put(<< <<"text", "%">> >>)
        BY <1>2, <3>1
      <4>2. <<"text", "%">> \in Char
        <5>1. "%" \in Class
          BY DEF Class
        <5> QED
          BY <5>1, CharFacts
      <4>3. << <<"text", "%">> >> \in Seq(Char)
        BY <4>2, OneChar
      <4> QED
        BY <1>6, <2>2, <3>1, <4>1, <4>3
    <3>2. CASE c # "%"
      <4>1. Put(<<>>)
        BY <1>2, <1>8, <3>2
      <4>2. <<>> \o rest = rest
        BY ConcatEmptySeq
      <4>3. <<>> \in Seq(Char)
        BY EmptySeq
      <4> QED
        BY <1>6, <2>1, <2>2, <3>2, <4>1, <4>2, <4>3
    <3> QED
      BY <3>1, <3>2
  <2>4. out' \in Seq(Char) /\ fb_cursor_pos' \in Nat /\ CursorFollows'
    BY <2>3, PutFollows
  <2>5. Whole = out' \o rest
    BY <2>3, Advance
  <2>6. /\ argp' \in Seq(Word) /\ SuffixOf(argp', call.args)
        /\ Len(call.args) - Len(argp') + 1 = NextArg
    BY <2>1 DEF Following, FormatTypes, RestFollows, NextArg
  <2>7. 2 * (NextArg - 1) + 0 < i + 1
    BY <1>6
  <2> QED
    BY <1>1, <1>3, <1>4, <1>5, <1>6, <2>2, <2>4, <2>5, <2>6, <2>7, ParseFollows
<1> QED
  BY <1>7, <1>8

(* The value divided, the sign and what the conversion is to print *)
LEMMA NumberFacts ==
  ASSUME NEW n \in Word
  PROVE  /\ Converted("u", n) = Decimal[n] /\ n % WORD = n /\ n \in Nat
         /\ n < HALF => Extended(n) = n /\ Converted("d", n) = Decimal[n]
         /\ n >= HALF =>
              /\ Negated(n) \in Word /\ Extended(Negated(n)) \in Nat
              /\ Extended(Negated(n)) % WORD = Negated(n)
              /\ Converted("d", n) = << <<"text", "-">> >> \o Decimal[Negated(n)]
<1>1. n \in Nat /\ n < WORD /\ WORD \in Nat \ {0} /\ HALF \in Nat \ {0} /\ WORD = 2 * HALF
  BY WordFacts
<1>2. n % WORD = n
  BY <1>1
<1>3. Converted("u", n) = Decimal[n] /\ Converted("d", n) = Signed(n)
  BY DEF Converted
<1>4. ASSUME n < HALF
      PROVE  Extended(n) = n /\ Signed(n) = Decimal[n]
  BY <1>1, <1>4 DEF Extended, Signed
<1>5. ASSUME n >= HALF
      PROVE  /\ Negated(n) \in Word /\ Extended(Negated(n)) \in Nat
             /\ Extended(Negated(n)) % WORD = Negated(n)
             /\ Signed(n) = << <<"text", "-">> >> \o Decimal[Negated(n)]
  <2>1. WORD - n \in Nat /\ WORD - n < WORD /\ WORD - n <= HALF
    BY <1>1, <1>5
  <2>2. PICK m \in Nat : m = WORD - n
    BY <2>1
  <2>3. Negated(n) = m
    BY <2>1, <2>2, WordRemainder DEF Negated
  <2>4. m \in Word
    BY <2>1, <2>2, WordFacts
  <2>5. Signed(n) = << <<"text", "-">> >> \o Decimal[m]
    <3>1. ~(n < HALF)
      BY <1>1, <1>5
    <3> QED
      BY <2>2, <3>1 DEF Signed
  <2>6. Extended(m) \in Nat /\ Extended(m) % WORD = m
    <3>1. CASE m >= HALF
      <4>1. m = HALF
        BY <1>1, <2>1, <2>2, <3>1
      <4>2. Extended(m) = WORD * (WORD - 1) + m
        <5>1. WORD * WORD - WORD = WORD * (WORD - 1)
          BY <1>1
        <5>2. WORD * WORD \in Nat
          BY <1>1
        <5> QED
          BY <1>1, <3>1, <5>1, <5>2 DEF Extended, LONG_LONG
      <4>3. WORD - 1 \in Nat /\ m \in 0 .. WORD - 1
        BY <1>1, <2>1, <2>2
      <4>4. (WORD * (WORD - 1) + m) % WORD = m
        BY <1>1, <4>3, DivisionUnique
      <4>5. WORD * (WORD - 1) \in Nat
        BY <1>1, <4>3
      <4> QED
        BY <4>2, <4>4, <4>5
    <3>2. CASE ~(m >= HALF)
      <4>1. Extended(m) = m
        BY <3>2 DEF Extended
      <4>2. m % WORD = m
        BY <2>1, <2>2, WordRemainder
      <4> QED
        BY <4>1, <4>2
    <3> QED
      BY <3>1, <3>2
  <2> QED
    BY <2>3, <2>4, <2>5, <2>6
<1> QED
  BY <1>1, <1>2, <1>3, <1>4, <1>5

(* The number a conversion begins with: what is to be printed of it is all ahead. *)
LEMMA NumberFollows ==
  ASSUME Following, Plain, Number
  PROVE  Following'
<1> DEFINE c == Head(fmt)
           n == argp[1]
<1>1. /\ at = "parse" /\ fmt # <<>> /\ state = "LENGTH" /\ length = "DEFAULT"
      /\ c \in {"d", "u"}
      /\ fmt' = Tail(fmt) /\ state' = "NORMAL" /\ length' = "DEFAULT"
      /\ sign' = (c = "d" /\ n >= HALF)
      /\ number' = IF c = "u" THEN n ELSE Extended(IF sign' THEN Negated(n) ELSE n)
      /\ buffer' = <<>> /\ divideUnsigned(number' % WORD, RADIX)
      /\ at' = "digits"
      /\ UNCHANGED <<fb_cursor_pos, cursor, out, call>>
  BY DEF Number, AtSpecifier, Following, Control, fb_vars
<1>2. argp' = Tail(argp)
  <2>1. argp' = SubSeq(argp, 2, Len(argp))
    BY <1>1 DEF Number
  <2> QED
    BY <1>1, <2>1, NextArgument
<1>3. /\ n \in Word /\ argp' \in Seq(Word) /\ SuffixOf(argp', call.args)
      /\ Len(call.args) - Len(argp') + 1 = NextArg + 1
  BY <1>1, <1>2, NextArgument
<1>4. /\ fmt' \in Seq(Class) /\ SuffixOf(fmt', call.fmt)
      /\ Len(call.fmt) - Len(fmt') + 1 = Place + 1
  BY <1>1, NextCharacter
<1>5. PICK i \in 2 .. Len(call.fmt) :
        /\ i = Place
        /\ Len(call.fmt) \in Nat /\ Len(call.args) \in Nat
        /\ NextArg \in 1 .. Len(call.args) /\ 2 * (NextArg - 1) + 1 < i
        /\ Ahead(i + 1, NextArg + 1) \in Seq(Char)
        /\ c \in TakesArgument =>
             Whole = out \o (Converted(c, n) \o Ahead(i + 1, NextArg + 1))
  BY <1>1, Converting
<1> HIDE DEF c, n
<1>6. PICK v \in Word :
        /\ v = number' % WORD /\ number' \in Nat
        /\ Converted(c, n) = Minus' \o Decimal[v]
  <2>1. PICK d \in Seq(Char) : d = Decimal[n]
    BY <1>3, NumberFacts, DecimalType
  <2>2. <<>> \o d = d
    BY ConcatEmptySeq
  <2>3. n \in Nat /\ HALF \in Nat
    BY <1>3, WordFacts
  <2>4. CASE c = "u"
    <3>1. number' = n /\ sign' = FALSE
      BY <1>1, <2>4
    <3>2. Minus' = <<>>
      BY <3>1 DEF Minus
    <3>3. n % WORD = n /\ Converted(c, n) = d
      BY <1>3, <2>1, <2>4, NumberFacts
    <3> QED
      BY <1>3, <2>1, <2>2, <2>3, <3>1, <3>2, <3>3
  <2>5. CASE c = "d" /\ n < HALF
    <3>0. ~(n >= HALF)
      BY <2>3, <2>5
    <3>1. sign' = FALSE
      BY <1>1, <3>0, Zenon
    <3>2. number' = Extended(n) /\ Minus' = <<>>
      BY <1>1, <2>5, <3>1 DEF Minus
    <3>3. Extended(n) = n /\ n % WORD = n /\ Converted(c, n) = d
      BY <1>3, <2>1, <2>5, NumberFacts
    <3> QED
      BY <1>3, <2>1, <2>2, <2>3, <3>2, <3>3
  <2>6. CASE c = "d" /\ n >= HALF
    <3>1. sign' = TRUE /\ number' = Extended(Negated(n))
      BY <1>1, <2>6
    <3>2. Minus' = << <<"text", "-">> >>
      BY <3>1 DEF Minus
    <3> QED
      BY <1>3, <2>6, <3>1, <3>2, NumberFacts
  <2>7. c = "u" \/ (c = "d" /\ n < HALF) \/ (c = "d" /\ n >= HALF)
    BY <1>1, <2>3
  <2> QED
    BY <2>4, <2>5, <2>6, <2>7, Zenon
<1>7. IInv' /\ divisor' = RADIX /\ asked' = v
  <2>1. RADIX \in Word
    BY ConsoleAssumption, WordFacts DEF RADIX
  <2>2. divideUnsigned(v, RADIX)
    BY <1>1, <1>6
  <2> QED
    BY <2>1, <2>2, CallKeeps DEF divideUnsigned
<1>8. sign' \in BOOLEAN /\ buffer' \in Seq(Char)
  BY <1>1, EmptySeq
<1>9. FormatTypes'
  BY <1>1, <1>3, <1>4, <1>6, <1>8 DEF Following, FormatTypes
<1>10. Control'
  BY <1>1 DEF Control
<1>11. Place' = i + 1 /\ NextArg' = NextArg + 1
  BY <1>1, <1>3, <1>4, <1>5 DEF Place, NextArg
<1>12. RestFollows'
  <2>1. 2 * ((NextArg + 1) - 1) + 0 < i + 1
    BY <1>5
  <2> QED
    BY <1>1, <1>3, <1>4, <1>11, <2>1 DEF RestFollows
<1>13. CursorFollows'
  BY <1>1 DEF Following, CursorFollows
<1>14. OutFollows'
  <2>1. PICK rest \in Seq(Char) : rest = Ahead(i + 1, NextArg + 1)
    BY <1>5
  <2>2. PICK d \in Seq(Char) : d = Decimal[v]
    BY WordFacts, DecimalType
  <2>3. PICK m \in Seq(Char) : m = Minus'
    <3>1. "-" \in Class \union {"-"}
      OBVIOUS
    <3>2. <<"text", "-">> \in Char
      BY <3>1, CharFacts
    <3>3. << <<"text", "-">> >> \in Seq(Char) /\ <<>> \in Seq(Char)
      BY <3>2, OneChar, EmptySeq
    <3> QED
      BY <3>3 DEF Minus
  <2>4. Reverse(buffer') = <<>>
    BY <1>1 DEF Reverse
  <2>5. d \o <<>> = d
    BY ConcatEmptySeq
  <2>6. (m \o d) \o rest = m \o (d \o rest)
    BY ConcatAssociative
  <2>7. c \in TakesArgument
    BY <1>1 DEF TakesArgument
  <2>8. Whole = out \o (m \o ((d \o <<>>) \o rest))
    BY <1>5, <1>6, <2>1, <2>2, <2>3, <2>5, <2>6, <2>7
  <2>9. /\ Whole' = Whole /\ out' = out
        /\ Ahead(Place, NextArg)' = rest
    BY <1>1, <1>11, <2>1 DEF Whole, Ahead
  <2>10. Whole' = out' \o (Minus' \o ((Decimal[asked'] \o Reverse(buffer')) \o Ahead(Place, NextArg)'))
    BY <1>7, <2>2, <2>3, <2>4, <2>8, <2>9
  <2> QED
    BY <1>1, <1>6, <1>7, <2>10 DEF OutFollows
<1> QED
  BY <1>7, <1>9, <1>10, <1>12, <1>13, <1>14 DEF Following

(* The lowest digit goes to the buffer, and what is left is divided on. *)
LEMMA DigitFollows ==
  ASSUME Following, Digit
  PROVE  Following'
<1> DEFINE d == <<"digit", asked % RADIX>>
<1>1. /\ at = "digits" /\ divides = "done"
      /\ buffer' = Append(buffer, <<"digit", (number - quotient * RADIX) % WORD>>)
      /\ number' = quotient
      /\ IF quotient > 0
           THEN divideUnsigned(quotient, RADIX) /\ UNCHANGED at
           ELSE at' = "emit" /\ Returned
      /\ UNCHANGED <<fmt, argp, state, length, sign, call, fb_cursor_pos, cursor, out>>
  BY DEF Digit, fb_vars
<1>2. /\ divisor = RADIX /\ number % WORD = asked
      /\ Whole = out \o (Minus \o ((Decimal[asked] \o Reverse(buffer)) \o Ahead(Place, NextArg)))
  BY <1>1 DEF Following, OutFollows
<1>3. /\ number \in Nat /\ asked \in Word /\ quotient \in Word /\ buffer \in Seq(Char)
      /\ asked \in Nat /\ quotient \in Nat /\ WORD \in Nat \ {0} /\ RADIX < WORD
  BY ConsoleAssumption, WordFacts DEF Following, FormatTypes, IInv, TypeOK, RADIX
<1>4. quotient = asked \div RADIX
  <2>1. QuotientRight
    BY InvariantGivesQuotient DEF Following
  <2> QED
    BY <1>1, <1>2, <2>1 DEF QuotientRight, RADIX
<1>5. buffer' = Append(buffer, d)
  <2>1. PICK x \in Nat : number = WORD * x + asked
    <3>1. number = WORD * (number \div WORD) + (number % WORD) /\ number \div WORD \in Nat
      BY <1>3, Division
    <3> QED
      BY <1>2, <3>1
  <2>2. PICK r \in 0 .. RADIX - 1 : r = asked % RADIX /\ asked = RADIX * quotient + r
    <3>1. RADIX \in Nat \ {0}
      BY DEF RADIX
    <3>2. asked % RADIX \in 0 .. RADIX - 1 /\ asked = RADIX * (asked \div RADIX) + (asked % RADIX)
      BY <1>3, <3>1, Division
    <3> QED
      BY <1>4, <3>2
  <2>3. number - quotient * RADIX = WORD * x + r
    <3>1. WORD * x \in Nat
      BY <1>3
    <3> QED
      BY <1>3, <2>1, <2>2, <3>1 DEF RADIX
  <2>4. r \in 0 .. WORD - 1
    BY <1>3, <2>2 DEF RADIX
  <2>5. (WORD * x + r) % WORD = r
    BY <1>3, <2>4, DivisionUnique
  <2> QED
    BY <1>1, <2>2, <2>3, <2>5
<1>6. /\ buffer' \in Seq(Char)
      /\ quotient > 0 => Decimal[asked] \o Reverse(buffer) = Decimal[quotient] \o Reverse(buffer')
      /\ ~(quotient > 0) => Decimal[asked] \o Reverse(buffer) = Reverse(buffer')
  <2>1. PICK b \in Seq(Char) : b = buffer
    BY <1>3
  <2>2. PICK m \in Nat : m = asked
    BY <1>3
  <2> QED
    BY <1>4, <1>5, <2>1, <2>2, DigitMoves
<1>7. FormatTypes'
  BY <1>1, <1>3, <1>6 DEF Following, FormatTypes
<1>8. RestFollows'
  BY <1>1 DEF Following, RestFollows, NextArg, Place
<1>9. CursorFollows'
  BY <1>1 DEF Following, CursorFollows
<1>10. /\ Whole' = Whole /\ out' = out /\ Minus' = Minus
       /\ Ahead(Place, NextArg)' = Ahead(Place, NextArg)
  BY <1>1 DEF Whole, Ahead, Minus, NextArg, Place
<1> HIDE DEF d
<1>11. CASE quotient > 0
  <2>1. divideUnsigned(quotient, RADIX) /\ at' = "digits"
    BY <1>1, <1>11
  <2>2. IInv' /\ divisor' = RADIX /\ asked' = quotient
    <3>1. RADIX \in Word
      BY <1>3, WordFacts DEF RADIX
    <3> QED
      BY <1>3, <2>1, <3>1, CallKeeps DEF divideUnsigned
  <2>3. number' % WORD = asked'
    BY <1>1, <1>3, <2>2, WordRemainder, WordFacts
  <2>4. Control'
    BY <1>1, <2>1 DEF Following, Control
  <2>5. Whole' = out' \o (Minus' \o ((Decimal[asked'] \o Reverse(buffer')) \o Ahead(Place, NextArg)'))
    BY <1>2, <1>6, <1>10, <1>11, <2>2
  <2>6. OutFollows'
    BY <2>1, <2>2, <2>3, <2>5 DEF OutFollows
  <2> QED
    BY <1>7, <1>8, <1>9, <2>2, <2>4, <2>6 DEF Following
<1>12. CASE ~(quotient > 0)
  <2>1. Returned /\ at' = "emit"
    BY <1>1, <1>12
  <2>2. IInv'
    BY <2>1, WordsStep DEF Following, WordsNext
  <2>3. Control'
    BY <1>1, <2>1 DEF Following, Control
  <2>4. Whole' = out' \o (Minus' \o (Reverse(buffer') \o Ahead(Place, NextArg)'))
    BY <1>2, <1>6, <1>10, <1>12
  <2>5. OutFollows'
    BY <2>1, <2>4 DEF OutFollows
  <2> QED
    BY <1>7, <1>8, <1>9, <2>2, <2>3, <2>5 DEF Following
<1> QED
  BY <1>11, <1>12

(* Sign and digits come out, and the format goes on. *)
LEMMA EmitFollows ==
  ASSUME Following, Emit
  PROVE  Following'
<1>1. /\ at = "emit" /\ Put(Minus \o Reverse(buffer))
      /\ buffer' = <<>> /\ sign' = FALSE /\ at' = "parse"
      /\ UNCHANGED <<words_vars, fmt, argp, state, length, number, call>>
  BY DEF Emit, Minus
<1>2. Whole = out \o (Minus \o (Reverse(buffer) \o Ahead(Place, NextArg)))
  BY <1>1 DEF Following, OutFollows
<1>3. IInv'
  BY <1>1, WordsStep DEF Following
<1>4. PICK m \in Seq(Char) : m = Minus
  <2>1. "-" \in Class \union {"-"}
    OBVIOUS
  <2>2. <<"text", "-">> \in Char
    BY <2>1, CharFacts
  <2>3. << <<"text", "-">> >> \in Seq(Char) /\ <<>> \in Seq(Char)
    BY <2>2, OneChar, EmptySeq
  <2> QED
    BY <2>3 DEF Minus
<1>5. PICK r \in Seq(Char) : r = Reverse(buffer)
  <2>1. PICK b \in Seq(Char) : b = buffer
    BY DEF Following, FormatTypes
  <2>2. <<"digit", 0>> \in Char
    BY CharFacts
  <2>3. Reverse(b) \in Seq(Char)
    BY <2>2, ReverseAppend
  <2> QED
    BY <2>1, <2>3
<1>6. /\ Len(call.fmt) \in Nat /\ Len(call.args) \in Nat
      /\ Place \in 1 .. Len(call.fmt) + 1 /\ NextArg \in 1 .. Len(call.args) + 1
  BY Places
<1>7. PICK rest \in Seq(Char) : rest = Ahead(Place, NextArg)
  <2>1. Place \in 1 .. Len(call.fmt) + 2
    BY <1>6
  <2> QED
    BY <1>6, <2>1, AheadCases
<1>8. PICK chars \in Seq(Char) : chars = m \o r
  BY ConcatProperties
<1>9. Put(chars)
  BY <1>1, <1>4, <1>5, <1>8
<1>10. chars \o rest = m \o (r \o rest)
  BY <1>8, ConcatAssociative
<1>11. Whole = out' \o rest
  BY <1>2, <1>4, <1>5, <1>7, <1>9, <1>10, Advance
<1>12. out' \in Seq(Char) /\ fb_cursor_pos' \in Nat /\ CursorFollows'
  BY <1>9, PutFollows
<1>13. /\ state' = "NORMAL" /\ state' # "LENGTH" /\ length' = "DEFAULT"
       /\ fmt' \in Seq(Class) /\ SuffixOf(fmt', call.fmt)
       /\ argp' \in Seq(Word) /\ SuffixOf(argp', call.args)
       /\ buffer' \in Seq(Char) /\ sign' \in BOOLEAN /\ number' \in Nat
       /\ Place = Len(call.fmt) - Len(fmt') + 1 /\ NextArg = Len(call.args) - Len(argp') + 1
  BY <1>1, EmptySeq DEF Following, FormatTypes, Control, RestFollows, Place, NextArg
<1>14. 2 * (NextArg - 1) + 0 < Place
  BY <1>1 DEF Following, RestFollows, Control
<1> QED
  BY <1>1, <1>3, <1>7, <1>11, <1>12, <1>13, <1>14, ParseFollows

(* At the end of the format nothing is ahead. *)
LEMMA EndFollows ==
  ASSUME Following, EndOfFormat
  PROVE  Following'
<1>1. /\ at = "parse" /\ fmt = <<>> /\ at' = "idle"
      /\ argp' = <<>> /\ state' = "NORMAL" /\ length' = "DEFAULT" /\ number' = 0
      /\ UNCHANGED <<words_vars, fmt, sign, buffer, call, fb_cursor_pos, cursor, out>>
  BY DEF EndOfFormat, fb_vars
<1>2. IInv'
  BY <1>1, WordsStep DEF Following
<1>3. argp' \in Seq(Word) /\ SuffixOf(argp', call.args)
  <2>1. PICK a \in Seq(Word) : a = call.args
    BY DEF Following, FormatTypes
  <2> QED
    BY <1>1, <2>1, EmptySeq, SuffixEnds
<1>4. FormatTypes'
  BY <1>1, <1>3 DEF Following, FormatTypes
<1>5. Control'
  BY <1>1 DEF Control
<1>6. RestFollows'
  BY <1>1, <1>3 DEF Following, RestFollows
<1>7. CursorFollows'
  BY <1>1 DEF Following, CursorFollows
<1>8. out = Whole
  <2>1. /\ Len(call.fmt) \in Nat
        /\ Place = Len(call.fmt) + 1 /\ NextArg \in 1 .. Len(call.args) + 1
    BY <1>1, Places
  <2>2. out \o <<>> = out
    <3>1. PICK o \in Seq(Char) : o = out
      BY DEF Following, FormatTypes
    <3>2. o \o <<>> = o
      BY ConcatEmptySeq
    <3> QED
      BY <3>1, <3>2
  <2>3. CASE state = "NORMAL"
    <3>1. Place \in 1 .. Len(call.fmt) + 2 /\ Place > Len(call.fmt)
      BY <2>1
    <3>2. Ahead(Place, NextArg) = <<>>
      BY <2>1, <3>1, AheadCases
    <3> QED
      BY <1>1, <2>2, <2>3, <3>2 DEF Following, OutFollows
  <2>4. CASE state = "LENGTH"
    <3>1. Place > 1 /\ call.fmt[Place - 1] = "%" /\ Whole = out \o Ahead(Place - 1, NextArg)
      BY <1>1, <2>4 DEF Following, OutFollows
    <3>2. Place - 1 \in 1 .. Len(call.fmt) + 2 /\ Place - 1 = Len(call.fmt)
      BY <2>1, <3>1
    <3>3. Ahead(Place - 1, NextArg) = <<>>
      BY <2>1, <3>1, <3>2, AheadCases
    <3> QED
      BY <2>2, <3>1, <3>3
  <2> QED
    BY <2>3, <2>4 DEF Following, Control
<1>9. OutFollows'
  BY <1>1, <1>8 DEF OutFollows, Whole
<1> QED
  BY <1>2, <1>4, <1>5, <1>6, <1>7, <1>9 DEF Following

(* printf begins with the whole format ahead; nothing is out, and the cursor is
   where the last one of nothing left it.  *)
LEMMA StartFollows ==
  ASSUME Following, NEW f \in Formats, NEW args \in Arguments, printf(f, args)
  PROVE  Following'
<1>1. /\ at = "idle" /\ call = NoCall
      /\ at' = "parse" /\ fmt' = f /\ argp' = args
      /\ state' = "NORMAL" /\ length' = "DEFAULT"
      /\ call' = [fmt |-> f, args |-> args] /\ out' = <<>>
      /\ UNCHANGED <<words_vars, number, sign, buffer, fb_cursor_pos, cursor>>
  BY DEF printf, First
<1>2. IInv'
  BY <1>1, WordsStep DEF Following
<1>3. f \in Seq(Class) /\ args \in Seq(Word) /\ 2 * Len(f) <= 3 * Len(args)
  BY ConsoleAssumption DEF Class
<1>4. PICK g \in Seq(Class) : g = f
  BY <1>3
<1>5. PICK a \in Seq(Word) : a = args
  BY <1>3
<1>6. Len(g) \in Nat /\ Len(a) \in Nat /\ Len(g) <= 2 * Len(a)
  <2>1. Len(g) \in Nat /\ Len(a) \in Nat
    BY LenProperties
  <2> QED
    BY <1>3, <1>4, <1>5, <2>1
<1>7. call'.fmt = g /\ call'.args = a /\ fmt' = g /\ argp' = a
  BY <1>1, <1>4, <1>5
<1>8. FormatTypes'
  BY <1>1, <1>6, <1>7, EmptySeq DEF Following, FormatTypes
<1>9. Control'
  BY <1>1 DEF Control
<1>10. Place' = 1 /\ NextArg' = 1
  BY <1>6, <1>7 DEF Place, NextArg
<1>11. RestFollows'
  <2>1. SuffixOf(g, g) /\ SuffixOf(a, a)
    BY SuffixEnds
  <2>2. 2 * (1 - 1) + 0 < 1
    OBVIOUS
  <2> QED
    BY <1>1, <1>7, <1>10, <2>1, <2>2 DEF RestFollows
<1>12. CursorFollows'
  <2>1. out = <<>>
    <3>1. call.fmt = <<>> /\ call.args = <<>>
      BY <1>1 DEF NoCall
    <3>2. Len(call.fmt) = 0 /\ Len(call.args) = 0
      BY <3>1
    <3>3. Ahead(1, 1) = <<>>
      BY <3>2, AheadCases
    <3> QED
      BY <1>1, <3>3 DEF Following, OutFollows, Whole, Reference, Ahead
  <2> QED
    BY <1>1, <2>1 DEF Following, CursorFollows
<1>13. OutFollows'
  <2>1. PICK w \in Seq(Char) : w = Printed(g, a)[1][1]
    <3>1. 1 \in 1 .. Len(g) + 2 /\ 1 \in 1 .. Len(a) + 1
      BY <1>6
    <3> QED
      BY <3>1, RowCases
  <2>2. <<>> \o w = w
    BY ConcatEmptySeq
  <2>3. Whole' = w /\ Ahead(Place, NextArg)' = w
    BY <1>7, <1>10, <2>1 DEF Whole, Reference, Ahead
  <2> QED
    BY <1>1, <2>2, <2>3 DEF OutFollows
<1> QED
  BY <1>2, <1>8, <1>9, <1>11, <1>12, <1>13 DEF Following

(* Nothing is out before the first call, and nothing was to be. *)
LEMMA FormatInitial == Init => FormatInv
<1> SUFFICES ASSUME Init PROVE FormatInv
  OBVIOUS
<1>1. /\ WordsInit /\ at = "idle" /\ fmt = <<>> /\ argp = <<>>
      /\ state = "NORMAL" /\ length = "DEFAULT" /\ number = 0 /\ sign = FALSE /\ buffer = <<>>
      /\ fb_cursor_pos = 0 /\ cursor = [high |-> 0, low |-> 0]
      /\ call.fmt = <<>> /\ call.args = <<>> /\ out = <<>>
  BY DEF Init, NoCall
<1>2. IInv
  BY <1>1, WordsInitial
<1>3. <<>> \in Seq(Class) /\ <<>> \in Seq(Word) /\ <<>> \in Seq(Char) /\ Len(<<>>) = 0
  BY EmptySeq
<1>4. FormatTypes
  <2>1. Len(call.fmt) <= 2 * Len(call.args)
    BY <1>1, <1>3
  <2>2. FALSE \in BOOLEAN /\ 0 \in Nat
    OBVIOUS
  <2> QED
    BY <1>1, <1>3, <2>1, <2>2, Zenon DEF FormatTypes
<1>5. Control
  BY <1>1 DEF Control
<1>6. RestFollows
  BY <1>1, <1>3 DEF RestFollows, SuffixOf
<1>7. CursorFollows
  <2>1. BYTE \in Nat \ {0}
    BY ConsoleAssumption
  <2>2. SHORT \in Nat \ {0}
    BY <2>1 DEF SHORT
  <2>3. 0 % SHORT = 0 /\ 0 * BYTE + 0 = 0
    BY <2>1, <2>2
  <2> QED
    BY <1>1, <1>3, <2>3 DEF CursorFollows
<1>8. OutFollows
  <2>1. PICK f \in Seq(Class) : f = <<>> /\ Len(f) = 0
    BY <1>3
  <2>2. PICK a \in Seq(Word) : a = <<>> /\ Len(a) = 0
    BY <1>3
  <2>3. PICK i \in 1 .. Len(f) + 2, k \in 1 .. Len(a) + 1 : i = 1 /\ k = 1 /\ i > Len(f)
    BY <2>1, <2>2
  <2>4. Printed(f, a)[i][k] = <<>>
    BY <2>3, RowCases
  <2> QED
    BY <1>1, <2>1, <2>2, <2>3, <2>4 DEF OutFollows, Whole, Reference
<1>9. calls \in Nat
  BY DEF Init
<1> QED
  BY <1>2, <1>4, <1>5, <1>6, <1>7, <1>8, <1>9 DEF Following, FormatInv

(* Every step keeps the format followed. *)
LEMMA FormatStep == FormatInv /\ [Next]_vars => FormatInv'
<1> SUFFICES ASSUME FormatInv, [Next]_vars PROVE FormatInv'
  OBVIOUS
<1>1. calls \in Nat /\ (calls = 0 /\ Plain => Following)
  BY DEF FormatInv
<1>2. ASSUME UNCHANGED <<calls, call>>, Following => Following'
      PROVE  FormatInv'
  BY <1>1, <1>2 DEF FormatInv, Plain
<1>3. ASSUME UNCHANGED <<calls, call>>, calls = 0 /\ Plain => Following'
      PROVE  FormatInv'
  BY <1>1, <1>3 DEF FormatInv, Plain
<1>4. ASSUME NEW f \in Formats, NEW args \in Arguments, printf(f, args)
      PROVE  FormatInv'
  <2>1. UNCHANGED calls /\ calls = 0 /\ call = NoCall
    BY <1>4 DEF printf, First
  <2>2. Plain
    BY <2>1 DEF Plain, NoCall, Range
  <2>3. Following'
    BY <1>1, <1>4, <2>1, <2>2, StartFollows
  <2> QED
    BY <1>1, <2>1, <2>3 DEF FormatInv
<1>5. CASE Normal
  <2>1. UNCHANGED <<calls, call>>
    BY <1>5 DEF Normal, Keep
  <2> QED
    BY <1>1, <1>3, <1>5, <2>1, NormalFollows
<1>6. CASE LengthModifier
  <2>1. UNCHANGED <<calls, call>> /\ fmt # <<>> /\ Head(fmt) \in {"h", "l"}
    BY <1>6 DEF LengthModifier, Parsing, Keep
  <2>2. ~(Following /\ Plain)
    BY <2>1, NextCharacter
  <2> QED
    BY <1>1, <1>3, <2>1, <2>2
<1>7. CASE Specifier
  <2>1. UNCHANGED <<calls, call>>
    BY <1>7 DEF Specifier, Keep
  <2> QED
    BY <1>1, <1>3, <1>7, <2>1, SpecifierFollows
<1>8. CASE Number
  <2>1. UNCHANGED <<calls, call>>
    BY <1>8 DEF Number
  <2> QED
    BY <1>1, <1>3, <1>8, <2>1, NumberFollows
<1>9. CASE DigitDivision
  <2>1. at = "digits" /\ DivideStep /\ UNCHANGED <<at, printf_vars, fb_vars, calls>>
    BY <1>9 DEF DigitDivision
  <2>2. UNCHANGED <<calls, call, divisor, asked>>
    BY <2>1 DEF printf_vars, DivideStep, Double, Halve, Subtract, Divided
  <2>3. ASSUME Following PROVE Following'
    <3>1. IInv'
      BY <2>1, <2>3, WordsStep DEF Following, WordsNext
    <3> QED
      BY <2>1, <2>2, <2>3, <3>1, StutterFollows
  <2> QED
    BY <1>2, <2>2, <2>3
<1>10. CASE Digit
  <2>1. UNCHANGED <<calls, call>>
    BY <1>10 DEF Digit
  <2> QED
    BY <1>2, <1>10, <2>1, DigitFollows
<1>11. CASE Emit
  <2>1. UNCHANGED <<calls, call>>
    BY <1>11 DEF Emit
  <2> QED
    BY <1>2, <1>11, <2>1, EmitFollows
<1>12. CASE EndOfFormat
  <2>1. UNCHANGED <<calls, call>>
    BY <1>12 DEF EndOfFormat
  <2> QED
    BY <1>2, <1>12, <2>1, EndFollows
<1>13. ASSUME NEW n \in Texts, NEW channel \in {PRINT_FB, PRINT_SERIAL}, aprintf(n, channel)
       PROVE  FormatInv'
  <2>1. calls' = calls + 1
    BY <1>13 DEF aprintf
  <2>2. calls' \in Nat /\ calls' # 0
    BY <1>1, <2>1
  <2> QED
    BY <2>2 DEF FormatInv
<1>14. CASE SerialStep
  <2>1. UNCHANGED <<calls, call>> /\ at \in {"configure", "write"}
    BY <1>14 DEF SerialStep, Configure, WriteByte, Spin, EndOfText, printf_vars
  <2>2. ~Following
    BY <2>1 DEF Following, Control
  <2> QED
    BY <1>2, <2>1, <2>2
<1>15. CASE Uart
  <2>1. UNCHANGED <<words_vars, at, printf_vars, fb_vars, calls>>
    BY <1>15 DEF Uart, UartLoad, UartSend
  <2>2. UNCHANGED <<call, divisor, asked>>
    BY <2>1 DEF printf_vars, words_vars
  <2>3. ASSUME Following PROVE Following'
    <3>1. IInv'
      BY <2>1, <2>3, WordsStep DEF Following
    <3> QED
      BY <2>1, <2>2, <2>3, <3>1, StutterFollows
  <2> QED
    BY <1>2, <2>1, <2>2, <2>3
<1>16. CASE OtherCall \/ OtherStep
  <2>1. at = "idle" /\ UNCHANGED <<at, printf_vars, fb_vars, calls>>
    BY <1>16 DEF OtherCall, OtherStep, First
  <2>2. UNCHANGED call
    BY <2>1 DEF printf_vars
  <2>3. ASSUME Following PROVE Following'
    <3>1. IInv'
      <4>1. CASE OtherCall
        <5>1. PICK a \in Word, b \in Word : divideUnsigned(a, b)
          BY <4>1 DEF OtherCall
        <5> QED
          BY <5>1, CallKeeps
      <4>2. CASE OtherStep
        BY <2>3, <4>2, WordsStep DEF Following, OtherStep, WordsNext
      <4> QED
        BY <1>16, <4>1, <4>2
    <3> QED
      BY <2>1, <2>3, <3>1, StutterFollows
  <2> QED
    BY <1>2, <2>1, <2>2, <2>3
<1>17. CASE UNCHANGED vars
  <2>1. UNCHANGED <<words_vars, at, printf_vars, fb_vars, calls>>
    BY <1>17 DEF vars
  <2>2. UNCHANGED <<call, divisor, asked>>
    BY <2>1 DEF printf_vars, words_vars
  <2>3. ASSUME Following PROVE Following'
    <3>1. IInv'
      BY <2>1, <2>3, WordsStep DEF Following
    <3> QED
      BY <2>1, <2>2, <2>3, <3>1, StutterFollows
  <2> QED
    BY <1>2, <2>1, <2>2, <2>3
<1> QED
  BY <1>4, <1>5, <1>6, <1>7, <1>8, <1>9, <1>10, <1>11, <1>12, <1>13, <1>14, <1>15, <1>16,
     <1>17 DEF Next, PrintfStep

(* printf prints what its format says and leaves the cursor behind it, for every format
   without a length modifier, all arguments and words of every size.  *)
THEOREM PrintsWhatItSays == Spec => []PrintsFormat
<1>1. Init => FormatInv
  BY FormatInitial
<1>2. FormatInv /\ [Next]_vars => FormatInv'
  BY FormatStep
<1>3. FormatInv => PrintsFormat
  BY DEF FormatInv, Plain, Following, OutFollows, CursorFollows, PrintsFormat, Whole
<1> QED
  BY <1>1, <1>2, <1>3, PTL DEF Spec

===============================================================================
