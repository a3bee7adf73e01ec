-------------------------------- MODULE Console --------------------------------
(***************************************************************************)
(* What the kernel prints with: printf and aprintf (src/stdlib/stdio.c),   *)
(* the framebuffer and its cursor (src/display/fb.c) and the serial port   *)
(* (src/hardware/serial.c) with the UART behind it.                        *)
(*                                                                         *)
(* printf is taken one format character per step and one digit per step;   *)
(* its divisions are the steps of Words.  A character of the output is a   *)
(* pair of its origin and value.  serial_write is taken one byte per step, *)
(* and the UART sends in between.                                          *)
(***************************************************************************)
EXTENDS Words, Sequences, SequencesExt

CONSTANTS
  Formats,    (* format strings printf is called with                      *)
  Arguments,  (* the words on the stack above the format, enough for each  *)
  BYTE,       (* 2^8                                                       *)
  FifoSize,   (* bytes the transmit FIFO of the UART holds (16)            *)
  Texts,      (* lengths of the strings aprintf is called with             *)
  MaxTexts    (* bound: calls of aprintf                                   *)

SHORT == BYTE * BYTE   (* an unsigned short *)
RADIX == 10

ASSUME ConsoleAssumption ==
  /\ Formats \subseteq Seq({"%", "h", "l", "c", "s", "d", "u", "x"})
  /\ Arguments \subseteq Seq(Word)
  /\ \A f \in Formats, args \in Arguments : 2 * Len(f) <= 3 * Len(args)
       (* %ld, three characters, takes two *)
  /\ BYTE \in Nat \ {0} /\ FifoSize \in Nat \ {0}
  /\ Texts \subseteq Nat /\ MaxTexts \in Nat
  /\ WORD % SHORT = 0 /\ RADIX < WORD

LONG_LONG == WORD * WORD
PRINT_FB == 0
PRINT_SERIAL == 1

VARIABLES
  at,        (* what the call in progress does next                          *)
  fmt, argp, (* the rest of the format and of the arguments                  *)
  state, length,
  number, sign, buffer,        (* printf_number: what is left, '-', digits   *)
  fb_cursor_pos, cursor,       (* the position and the registers of the CRTC *)
  text,                        (* serial_write: bytes yet to be written      *)
  fifo, shift, wire,           (* the UART, and history: what it sent        *)
  calls,                       (* counts calls of aprintf                    *)
  call, out, sent              (* history: the format and arguments of the
                                  call, what printf wrote, bytes sent so far *)

printf_vars == <<fmt, argp, state, length, number, sign, buffer, call>>
fb_vars == <<fb_cursor_pos, cursor, out>>
uart_vars == <<fifo, shift, wire>>
serial_vars == <<text, uart_vars, sent>>
vars == <<words_vars, at, printf_vars, fb_vars, serial_vars, calls>>

NoCall == [fmt |-> <<>>, args |-> <<>>]

Init ==
  /\ WordsInit
  /\ at = "idle"
  /\ fmt = <<>> /\ argp = <<>> /\ state = "NORMAL" /\ length = "DEFAULT"
  /\ number = 0 /\ sign = FALSE /\ buffer = <<>>
  /\ fb_cursor_pos = 0 /\ cursor = [high |-> 0, low |-> 0]
  /\ text = <<>> /\ fifo = <<>> /\ shift = <<>> /\ wire = <<>>
  /\ calls = 0
  /\ call = NoCall /\ out = <<>> /\ sent = <<>>

(***************************************************************************)
(* The framebuffer.                                                        *)
(***************************************************************************)

(* The two registers of the cursor each get a byte of the position. *)
fb_move_cursor(pos) ==
  cursor' = [high |-> (pos \div BYTE) % BYTE, low |-> pos % BYTE]

(* One cell per character; nothing wraps the position or scrolls. *)
fb_write(chars) ==
  /\ fb_cursor_pos' = (fb_cursor_pos + Len(chars)) % WORD
  /\ fb_move_cursor(fb_cursor_pos' % SHORT)

Put(chars) == fb_write(chars) /\ out' = out \o chars

(***************************************************************************)
(* printf                                                                  *)
(***************************************************************************)

(* Bound: a format is printed in the first call only. *)
First == at = "idle" /\ calls = 0 /\ call = NoCall

printf(f, args) ==
  /\ First /\ divides = "idle"
  /\ at' = "parse"
  /\ fmt' = f /\ argp' = args /\ state' = "NORMAL" /\ length' = "DEFAULT"
  /\ call' = [fmt |-> f, args |-> args] /\ out' = <<>>
  /\ UNCHANGED <<words_vars, number, sign, buffer, fb_cursor_pos, cursor, serial_vars, calls>>

Parsing(in) == at = "parse" /\ fmt # <<>> /\ state = in

Keep == UNCHANGED <<words_vars, number, sign, buffer, call, serial_vars, calls>>

Normal ==
  /\ Parsing("NORMAL")
  /\ IF Head(fmt) = "%"
       THEN state' = "LENGTH" /\ UNCHANGED fb_vars
       ELSE Put(<< <<"text", Head(fmt)>> >>) /\ UNCHANGED state
  /\ fmt' = Tail(fmt)
  /\ UNCHANGED <<at, argp, length>> /\ Keep

(* h and l go on with the next character.  A second one falls through the case
   labels down to the specifiers, where it is none.  *)
LengthModifier ==
  /\ Parsing("LENGTH") /\ Head(fmt) \in {"h", "l"}
  /\ length' = IF Head(fmt) = "h" THEN "SHORT" ELSE "LONG"
  /\ state' = IF Head(fmt) = "h" THEN "LENGTH_SHORT" ELSE "LENGTH_LONG"
  /\ fmt' = Tail(fmt)
  /\ UNCHANGED <<at, argp, fb_vars>> /\ Keep

AtSpecifier ==
  /\ at = "parse" /\ fmt # <<>> /\ state # "NORMAL"
  /\ ~(state = "LENGTH" /\ Head(fmt) \in {"h", "l"})
  /\ fmt' = Tail(fmt)
  /\ state' = "NORMAL"

(* The string a pointer argument stands for *)
StringAt(pointer) == [i \in 1 .. pointer % 3 |-> <<"string", pointer>>]

Specifier ==
  /\ AtSpecifier /\ Head(fmt) \notin {"d", "u"}
  /\ LET c == Head(fmt) IN
       /\ Put(CASE c = "c" -> << <<"char", argp[1] % BYTE>> >>
                  [] c = "s" -> StringAt(argp[1])
                  [] c = "%" -> << <<"text", "%">> >>
                  [] OTHER   -> <<>>)
       /\ argp' = IF c \in {"c", "s"} THEN Tail(argp) ELSE argp
  /\ length' = "DEFAULT"
  /\ UNCHANGED at /\ Keep

(* -n for an int; the smallest one is its own negation *)
Negated(n) == (WORD - n) % WORD

(* An int extended to 64 bits *)
Extended(n) == IF n >= HALF THEN LONG_LONG - WORD + n ELSE n

(* printf_number reads one word, whatever the length; for a long it skips two. *)
Number ==
  /\ AtSpecifier /\ Head(fmt) \in {"d", "u"}
  /\ sign' = (Head(fmt) = "d" /\ argp[1] >= HALF)
  /\ number' = IF Head(fmt) = "u" THEN argp[1]
               ELSE Extended(IF sign' THEN Negated(argp[1]) ELSE argp[1])
  /\ argp' = SubSeq(argp, IF length = "LONG" THEN 3 ELSE 2, Len(argp))
  /\ buffer' = <<>>
  /\ length' = "DEFAULT"
  /\ divideUnsigned(number' % WORD, RADIX)
  /\ at' = "digits"
  /\ UNCHANGED <<fb_vars, call, serial_vars, calls>>

(* mutant of Digit: the loop stops when one digit is left *)
DigitShort ==
  /\ at = "digits" /\ divides = "done"
  /\ buffer' = Append(buffer, <<"digit", (number - quotient * RADIX) % WORD>>)
  /\ number' = quotient
  /\ IF quotient > RADIX
       THEN divideUnsigned(quotient, RADIX) /\ UNCHANGED at
       ELSE at' = "emit" /\ Returned
  /\ UNCHANGED <<fmt, argp, state, length, sign, call, fb_vars, serial_vars, calls>>

(* The lowest digit of what is left, and on to the others *)
Digit ==
  /\ at = "digits" /\ divides = "done"
  /\ buffer' = Append(buffer, <<"digit", (number - quotient * RADIX) % WORD>>)
  /\ number' = quotient
  /\ IF quotient > 0
       THEN divideUnsigned(quotient, RADIX) /\ UNCHANGED at
       ELSE at' = "emit" /\ Returned
  /\ UNCHANGED <<fmt, argp, state, length, sign, call, fb_vars, serial_vars, calls>>

(* The digits come out of the buffer last in, first out. *)
Emit ==
  /\ at = "emit"
  /\ Put((IF sign THEN << <<"text", "-">> >> ELSE <<>>) \o Reverse(buffer))
  /\ buffer' = <<>> /\ sign' = FALSE
  /\ at' = "parse"
  /\ UNCHANGED <<words_vars, fmt, argp, state, length, number, call, serial_vars, calls>>

EndOfFormat ==
  /\ at = "parse" /\ fmt = <<>>
  /\ at' = "idle"
  /\ argp' = <<>> /\ state' = "NORMAL" /\ length' = "DEFAULT" /\ number' = 0
  /\ UNCHANGED <<words_vars, fmt, sign, buffer, call, fb_vars, serial_vars, calls>>

DigitDivision ==
  /\ at = "digits" /\ DivideStep
  /\ UNCHANGED <<at, printf_vars, fb_vars, serial_vars, calls>>

PrintfStep ==
  \/ Normal \/ LengthModifier \/ Specifier
  \/ Number \/ DigitDivision \/ Digit \/ Emit
  \/ EndOfFormat

(***************************************************************************)
(* aprintf and serial_write                                                *)
(***************************************************************************)

(* The bytes of a string: its call, their place, and whether it is the last one *)
TextOf(n) == [i \in 1 .. n |-> <<calls, i, i = n>>]

(* The history of printf ends here. *)
aprintf(n, channel) ==
  /\ at = "idle" /\ divides = "idle" /\ calls < MaxTexts
  /\ calls' = calls + 1
  /\ IF channel = PRINT_FB
       THEN fb_write(TextOf(n)) /\ UNCHANGED <<at, text>>
       ELSE at' = "configure" /\ text' = TextOf(n) /\ UNCHANGED <<fb_cursor_pos, cursor>>
  /\ call' = NoCall /\ out' = <<>>
  /\ UNCHANGED <<words_vars, fmt, argp, state, length, number, sign, buffer, uart_vars, sent>>

(* serial_write first sets rate, line, modem and FIFO: 0xC7 empties the FIFO of
   what it had not sent.  *)
Configure ==
  /\ at = "configure"
  /\ fifo' = <<>>
  /\ at' = "write"
  /\ UNCHANGED <<words_vars, printf_vars, fb_vars, text, shift, wire, sent, calls>>

(* mutant of serial_is_transmit_fifo_empty: the status bit is not tested *)
serial_fifo_not_tested == TRUE

(* mutant of Spin: the loop waits while the FIFO is empty *)
SpinInverted == at = "write" /\ text # <<>> /\ fifo # <<>>

serial_is_transmit_fifo_empty == fifo = <<>>

(* The loop on the line status is over. *)
Spin == at = "write" /\ text # <<>> /\ serial_is_transmit_fifo_empty

WriteByte ==
  /\ Spin
  /\ fifo' = IF Len(fifo) < FifoSize THEN Append(fifo, Head(text)) ELSE fifo
  /\ sent' = Append(sent, Head(text))
  /\ text' = Tail(text)
  /\ UNCHANGED <<words_vars, at, printf_vars, fb_vars, shift, wire, calls>>

EndOfText ==
  /\ at = "write" /\ text = <<>>
  /\ at' = "idle"
  /\ UNCHANGED <<words_vars, printf_vars, fb_vars, serial_vars, calls>>

SerialStep == Configure \/ WriteByte \/ EndOfText

(* The UART: the oldest byte goes to the shift register and from there out. *)
UartLoad ==
  /\ shift = <<>> /\ fifo # <<>>
  /\ shift' = <<Head(fifo)>> /\ fifo' = Tail(fifo)
  /\ UNCHANGED <<words_vars, at, printf_vars, fb_vars, text, wire, sent, calls>>

UartSend ==
  /\ shift # <<>>
  /\ wire' = wire \o shift /\ shift' = <<>>
  /\ UNCHANGED <<words_vars, at, printf_vars, fb_vars, text, fifo, sent, calls>>

Uart == UartLoad \/ UartSend

(* The allocator, the heap and paging divide too. *)
OtherCall ==
  /\ First /\ divides = "idle"
  /\ \E a, b \in Word : divideUnsigned(a, b)
  /\ UNCHANGED <<at, printf_vars, fb_vars, serial_vars, calls>>

OtherStep ==
  /\ First
  /\ DivideStep \/ Returned
  /\ UNCHANGED <<at, printf_vars, fb_vars, serial_vars, calls>>

Next ==
  \/ \E f \in Formats, args \in Arguments : printf(f, args)
  \/ PrintfStep
  \/ \E n \in Texts, channel \in {PRINT_FB, PRINT_SERIAL} : aprintf(n, channel)
  \/ SerialStep
  \/ Uart
  \/ OtherCall \/ OtherStep

(* Calls run to their end and the UART goes on sending. *)
Spec ==
  /\ Init /\ [][Next]_vars
  /\ WF_vars(PrintfStep) /\ WF_vars(SerialStep) /\ WF_vars(Uart) /\ WF_vars(OtherStep)

(***************************************************************************)
(* Properties.                                                             *)
(***************************************************************************)

(* The decimal notation of n *)
Decimal[n \in Nat] ==
  IF n < RADIX THEN << <<"digit", n>> >>
  ELSE Append(Decimal[n \div RADIX], <<"digit", n % RADIX>>)

Signed(n) ==
  IF n < HALF THEN Decimal[n] ELSE << <<"text", "-">> >> \o Decimal[WORD - n]

TakesArgument == {"d", "u", "c", "s"}

(* What a conversion prints of its argument *)
Converted(c, n) ==
  CASE c = "d" -> Signed(n)
    [] c = "u" -> Decimal[n]
    [] c = "c" -> << <<"char", n % BYTE>> >>
    [] c = "s" -> StringAt(n)

(* What a format without lengths prints from its i-th character on, with the k-th argument
   next: text as it is, and each conversion of the next argument *)
Printed(f, args) ==
  LET Rest[i \in 1 .. Len(f) + 2] == [k \in 1 .. Len(args) + 1 |->
        IF i > Len(f) \/ (i = Len(f) /\ f[i] = "%") THEN <<>>
        ELSE IF f[i] # "%" THEN << <<"text", f[i]>> >> \o Rest[i + 1][k]
        ELSE IF f[i + 1] = "%" THEN << <<"text", "%">> >> \o Rest[i + 2][k]
        ELSE IF f[i + 1] \notin TakesArgument THEN Rest[i + 2][k]
        ELSE IF k > Len(args) THEN <<>>
        ELSE Converted(f[i + 1], args[k]) \o Rest[i + 2][k + 1]]
  IN Rest

Reference(f, args) == Printed(f, args)[1][1]

(* printf prints what its format says, the smallest int and the largest unsigned
   included, each argument once and in order, and leaves the cursor behind the last character,
   if the format has no length modifier.  (With h or l what it does differs from the C library's.)  *)
PrintsFormat ==
  at = "idle" /\ calls = 0 /\ Range(call.fmt) \cap {"h", "l"} = {}
    => /\ out = Reference(call.fmt, call.args)
       /\ cursor.high * BYTE + cursor.low = Len(out) % SHORT

(* Of two bytes: the one of the earlier call, or nearer the start of the same string *)
Before(b, c) == b[1] < c[1] \/ (b[1] = c[1] /\ b[2] < c[2])

InOrder(bytes) == \A j, k \in DOMAIN bytes : j < k => Before(bytes[j], bytes[k])

(* Bytes leave the serial port in the order of the calls and of their strings, each
   once, and the only ones that can get lost are the last of a string: the next call
   may empty the FIFO before they were sent.  *)
OnlyLastByteLost ==
  LET leaving == wire \o shift \o fifo IN
  /\ InOrder(leaving)
  /\ ToSet(leaving) \subseteq ToSet(sent)
  /\ \A byte \in ToSet(sent) \ ToSet(leaving) : byte[3]

(* Every call returns: printf comes to the end of its format and divideUnsigned shifts
   the divisor down again, and serial_write does not wait for ever.  *)
CallsReturn == at # "idle" \/ divides # "idle" ~> at = "idle" /\ divides = "idle"

===============================================================================
