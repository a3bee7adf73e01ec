--------------------------------- MODULE Words ---------------------------------
(***************************************************************************)
(* The arithmetic of src/utility/utilities.c on unsigned words:            *)
(* divideUnsigned, one loop iteration per step, and the functions that     *)
(* round.  The kernel divides with it by a header, a page, 32 and 10.      *)
(***************************************************************************)
EXTENDS Integers

CONSTANT HALF  (* 2^31, half of what a word can hold *)

ASSUME WordsAssumption == HALF \in Nat \ {0}

WORD == 2 * HALF
Word == 0 .. WORD - 1

VARIABLES
  divides,  (* where divideUnsigned is: "idle", "up", "down" or "done" *)
  dividend, divisor, quotient, temp_divisor, temp_quotient,
  asked     (* history: the dividend the call came with                *)

words_vars == <<divides, dividend, divisor, quotient, temp_divisor, temp_quotient, asked>>

WordsInit ==
  /\ divides = "idle"
  /\ dividend = 0 /\ divisor = 1 /\ quotient = 0
  /\ temp_divisor = 1 /\ temp_quotient = 1
  /\ asked = 0

(* mutant of divideUnsigned: division by zero is not answered *)
divideUnsignedByZero(a, b) ==
  /\ divides' = "up"
  /\ dividend' = a /\ divisor' = b /\ quotient' = 0
  /\ temp_divisor' = b /\ temp_quotient' = 1
  /\ asked' = a

(* The call and its locals; dividing by zero gives 0. *)
divideUnsigned(a, b) ==
  /\ divides' = IF b = 0 THEN "done" ELSE "up"
  /\ dividend' = a /\ divisor' = b /\ quotient' = 0
  /\ temp_divisor' = b /\ temp_quotient' = 1
  /\ asked' = a

(* mutant of Double: the top bit of a word is not minded *)
DoubleUnbounded ==
  /\ divides = "up"
  /\ IF temp_divisor < dividend
       THEN /\ temp_divisor' = (temp_divisor * 2) % WORD
            /\ temp_quotient' = (temp_quotient * 2) % WORD
            /\ UNCHANGED divides
       ELSE divides' = "down" /\ UNCHANGED <<temp_divisor, temp_quotient>>
  /\ UNCHANGED <<dividend, divisor, quotient, asked>>

(* The divisor is shifted up until it reaches the dividend or has the top bit. *)
Double ==
  /\ divides = "up"
  /\ IF temp_divisor < dividend /\ temp_divisor < HALF
       THEN /\ temp_divisor' = (temp_divisor * 2) % WORD
            /\ temp_quotient' = (temp_quotient * 2) % WORD
            /\ UNCHANGED divides
       ELSE divides' = "down" /\ UNCHANGED <<temp_divisor, temp_quotient>>
  /\ UNCHANGED <<dividend, divisor, quotient, asked>>

(* It is shifted down again until it fits ... *)
Halve ==
  /\ divides = "down" /\ dividend >= divisor /\ dividend < temp_divisor
  /\ temp_divisor' = temp_divisor \div 2
  /\ temp_quotient' = temp_quotient \div 2
  /\ UNCHANGED <<divides, dividend, divisor, quotient, asked>>

(* ... and is taken away, as long as the divisor itself fits. *)
Subtract ==
  /\ divides = "down" /\ dividend >= divisor /\ dividend >= temp_divisor
  /\ dividend' = dividend - temp_divisor
  /\ quotient' = (quotient + temp_quotient) % WORD
  /\ UNCHANGED <<divides, divisor, temp_divisor, temp_quotient, asked>>

Divided ==
  /\ divides = "down" /\ dividend < divisor
  /\ divides' = "done"
  /\ UNCHANGED <<dividend, divisor, quotient, temp_divisor, temp_quotient, asked>>

DivideStep == Double \/ Halve \/ Subtract \/ Divided

(* The caller takes the quotient; the locals end with the call. *)
Returned ==
  /\ divides = "done" /\ divides' = "idle"
  /\ dividend' = 0 /\ divisor' = 1 /\ quotient' = 0
  /\ temp_divisor' = 1 /\ temp_quotient' = 1
  /\ asked' = 0

WordsNext ==
  \/ divides \in {"idle", "done"} /\ \E a, b \in Word : divideUnsigned(a, b)
  \/ DivideStep
  \/ Returned

WordsSpec == WordsInit /\ [][WordsNext]_words_vars

(***************************************************************************)
(* The rounding functions.  `/' and `%' are the machine's.                 *)
(***************************************************************************)

(* mutant of div_absolute_ceil: without the unit for the header *)
div_absolute_ceil_plain(a, b) == ((a + b - 1) % WORD) \div b

(* The units malloc asks for: one for the header, then the size in units rounded up *)
div_absolute_ceil(a, b) == (((a + b - 1) % WORD) \div b + 1) % WORD

div_ceil(a, b) == (((a - 1) % WORD) \div b + 1) % WORD

modulo(a, b) == (a - b * (a \div b)) % WORD

align_up(a, b) == IF a % b = 0 THEN a ELSE (a + (b - (a % b))) % WORD

align_down(a, b) == a - (a % b)

(***************************************************************************)
(* Properties.                                                             *)
(***************************************************************************)

(* divideUnsigned returns the quotient, for every dividend and divisor of a word:
   doubling stops before the top bit is shifted out, no subtraction goes below
   zero, and every power of two it adds belongs to the quotient.  *)
QuotientRight ==
  divides = "done" =>
    quotient = (IF divisor = 0 THEN 0 ELSE asked \div divisor)

(* Adding or taking away one before the division is right at both ends of a unit:
   the pages and alignments are the nearest ones, and div_absolute_ceil leaves room
   for more than the dividend, by exactly one unit for a multiple of the divisor
   (utilities.c:36).  It and align_up are claimed as long as their sums do not wrap;
   div_ceil and align_down never wrap for a size above zero.  What the comment of
   div_absolute_ceil says of the other dividends, the code does not do: it returns
   one more than the ceil.  *)
RoundingRight ==
  divides # "idle" /\ divisor # 0 =>
    LET a == asked  b == divisor IN
    /\ modulo(a, b) = a % b
    /\ align_down(a, b) \in {m \in 0 .. a : m % b = 0 /\ a < m + b}
    /\ a + b - 1 < WORD /\ b > 1 =>
         /\ div_absolute_ceil(a, b) * b > a
         /\ a % b = 0 => div_absolute_ceil(a, b) = a \div b + 1
         /\ align_up(a, b) \in {m \in a .. a + b - 1 : m % b = 0}
    /\ a > 0 => div_ceil(a, b) * b \in a .. a + b - 1

===============================================================================
