------------------------------ MODULE WordsProofs ------------------------------
(***************************************************************************)
(* divideUnsigned and the rounding functions are right for words of every  *)
(* size.  The loops keep the dividend and what was asked apart by          *)
(* quotient * divisor, and the shifted divisor divisor * temp_quotient;    *)
(* halving is exact because temp_quotient comes from 1 by doubling.        *)
(***************************************************************************)
EXTENDS Words, TLAPS

(***************************************************************************)
(* Powers of two, as the numbers in every set with 1 and all doubles.      *)
(***************************************************************************)

ClosedUnderDoubling(S) == 1 \in S /\ \A x \in S : 2 * x \in S

PowersOfTwo == {q \in Nat : \A S \in SUBSET Nat : ClosedUnderDoubling(S) => q \in S}

(* 1 is a power of two, and so is the double of one. *)
LEMMA PowersDouble ==
  1 \in PowersOfTwo /\ \A q \in PowersOfTwo : 2 * q \in PowersOfTwo
<1>1. 1 \in PowersOfTwo
  BY DEF PowersOfTwo, ClosedUnderDoubling
<1>2. ASSUME NEW q \in PowersOfTwo PROVE 2 * q \in PowersOfTwo
  <2>1. q \in Nat /\ 2 * q \in Nat
    BY DEF PowersOfTwo
  <2>2. ASSUME NEW S \in SUBSET Nat, ClosedUnderDoubling(S) PROVE 2 * q \in S
    <3>1. q \in S
      BY <2>2 DEF PowersOfTwo
    <3> QED
      BY <3>1, <2>2 DEF ClosedUnderDoubling
  <2> QED
    BY <2>1, <2>2 DEF PowersOfTwo
<1> QED
  BY <1>1, <1>2

(* A power of two other than 1 is the double of one. *)
LEMMA PowersHalve ==
  ASSUME NEW q \in PowersOfTwo, q # 1
  PROVE  \E h \in PowersOfTwo : q = 2 * h
<1> DEFINE S == {x \in PowersOfTwo : x = 1 \/ \E h \in PowersOfTwo : x = 2 * h}
<1>1. S \in SUBSET Nat
  BY DEF PowersOfTwo
<1>2. 1 \in S
  BY PowersDouble
<1>3. \A x \in S : 2 * x \in S
  BY PowersDouble
<1>4. ClosedUnderDoubling(S)
  BY <1>2, <1>3 DEF ClosedUnderDoubling
<1>5. q \in S
  BY <1>1, <1>4 DEF PowersOfTwo
<1> QED
  BY <1>5

(***************************************************************************)
(* Facts about division.                                                   *)
(***************************************************************************)

(* Division with remainder *)
LEMMA Division ==
  ASSUME NEW a \in Nat, NEW b \in Nat \ {0}
  PROVE  /\ a \div b \in Nat /\ a % b \in 0 .. b - 1
         /\ a = b * (a \div b) + (a % b)
  OBVIOUS

(* The quotient and the remainder are the only ones. *)
LEMMA DivisionUnique ==
  ASSUME NEW b \in Nat \ {0}, NEW q \in Nat, NEW r \in 0 .. b - 1
  PROVE  (b * q + r) \div b = q /\ (b * q + r) % b = r
<1> DEFINE a == b * q + r
<1>0. b * q \in Nat
  OBVIOUS
<1>1. a \in Nat
  BY <1>0
<1>2. PICK k \in Nat : k = a \div b
  BY <1>1, Division
<1>3. PICK s \in 0 .. b - 1 : s = a % b
  BY <1>1, Division
<1>4. a = b * k + s
  BY <1>1, <1>2, <1>3, Division
<1>5. b * q + r = b * k + s
  BY <1>4
<1>6. k = q
  <2>1. CASE k < q
    <3>1. PICK j \in Nat : q = k + 1 + j
      <4>1. q - k - 1 \in Nat /\ q = k + 1 + (q - k - 1)
        BY <2>1
      <4> QED BY <4>1
    <3>2. b * q = b * k + b + b * j /\ b * j \in Nat /\ b * k \in Nat
      BY <3>1
    <3> QED BY <3>2, <1>5
  <2>2. CASE q < k
    <3>1. PICK j \in Nat : k = q + 1 + j
      <4>1. k - q - 1 \in Nat /\ k = q + 1 + (k - q - 1)
        BY <2>2
      <4> QED BY <4>1
    <3>2. b * k = b * q + b + b * j /\ b * j \in Nat /\ b * q \in Nat
      BY <3>1
    <3> QED BY <3>2, <1>5
  <2> QED BY <2>1, <2>2
<1>7. s = r
  BY <1>5, <1>6, <1>0
<1> QED
  BY <1>2, <1>3, <1>6, <1>7

(***************************************************************************)
(* divideUnsigned.                                                         *)
(***************************************************************************)

TypeOK ==
  /\ divides \in {"idle", "up", "down", "done"}
  /\ dividend \in Word /\ divisor \in Word /\ quotient \in Word
  /\ temp_divisor \in Word /\ temp_quotient \in Word
  /\ asked \in Word

(* What is left and what was taken away make up what was asked. *)
Account == divisor # 0 /\ asked = divisor * quotient + dividend

(* The divisor has been doubled as often as 1. *)
Shifted == temp_quotient \in PowersOfTwo /\ temp_divisor = divisor * temp_quotient

Loops == divides \in {"up", "down"} => Account /\ Shifted

Ended ==
  divides = "done" =>
    IF divisor = 0 THEN quotient = 0 ELSE Account /\ dividend < divisor

IInv == TypeOK /\ Loops /\ Ended

(* A word is a number, and 1 is one. *)
LEMMA WordFacts ==
  /\ HALF \in Nat \ {0} /\ WORD \in Nat /\ WORD = 2 * HALF
  /\ 0 \in Word /\ 1 \in Word
  /\ \A x \in Word : x \in Nat /\ x < WORD
  /\ \A x \in Nat : x < WORD => x \in Word
  BY WordsAssumption DEF WORD, Word

(* A factor is not larger than the product. *)
LEMMA FactorBound ==
  ASSUME NEW a \in Nat \ {0}, NEW b \in Nat
  PROVE  a * b \in Nat /\ b <= a * b
<1>1. PICK c \in Nat : a = c + 1
  <2>1. a - 1 \in Nat /\ a = (a - 1) + 1
    OBVIOUS
  <2> QED BY <2>1
<1>2. a * b = c * b + b /\ c * b \in Nat
  BY <1>1
<1> QED
  BY <1>2

(* The invariant holds before the first call. *)
LEMMA WordsInitial == WordsInit => IInv
  BY WordFacts DEF WordsInit, IInv, TypeOK, Loops, Ended

(* A call keeps the invariant. *)
LEMMA CallKeeps ==
  ASSUME NEW a \in Word, NEW b \in Word, divideUnsigned(a, b)
  PROVE  IInv'
<1>1. TypeOK'
  BY WordFacts DEF divideUnsigned, TypeOK
<1>2. Loops'
  <2> SUFFICES ASSUME divides' \in {"up", "down"} PROVE Account' /\ Shifted'
    BY DEF Loops
  <2>1. b # 0 /\ a \in Nat /\ b \in Nat
    BY WordFacts DEF divideUnsigned
  <2>2. Account'
    BY <2>1 DEF divideUnsigned, Account
  <2>3. Shifted'
    BY <2>1, PowersDouble DEF divideUnsigned, Shifted
  <2> QED BY <2>2, <2>3
<1>3. Ended'
  BY DEF divideUnsigned, Ended
<1> QED
  BY <1>1, <1>2, <1>3 DEF IInv

(* Doubling keeps the invariant: nothing is shifted out. *)
LEMMA DoubleKeeps ==
  ASSUME IInv, Double
  PROVE  IInv'
<1>0. Account /\ Shifted /\ TypeOK /\ divides = "up"
  BY DEF IInv, Loops, Double
<1>1. CASE temp_divisor < dividend /\ temp_divisor < HALF
  <2>1. divisor \in Nat \ {0} /\ temp_quotient \in Nat /\ temp_divisor \in Nat
    BY <1>0, WordFacts DEF TypeOK, Account
  <2>2. temp_quotient <= temp_divisor
    BY <1>0, <2>1, FactorBound DEF Shifted
  <2>3. temp_divisor * 2 < WORD /\ temp_quotient * 2 < WORD
    BY <1>1, <2>1, <2>2, WordFacts
  <2>4. temp_divisor' = temp_divisor * 2 /\ temp_quotient' = temp_quotient * 2
    BY <1>1, <2>1, <2>3, WordFacts DEF Double
  <2>5. UNCHANGED <<divides, dividend, divisor, quotient, asked>>
    BY <1>1 DEF Double
  <2>6. TypeOK'
    BY <1>0, <2>1, <2>3, <2>4, <2>5, WordFacts DEF TypeOK
  <2>7. Shifted'
    <3>1. temp_quotient' \in PowersOfTwo
      BY <1>0, <2>1, <2>4, PowersDouble DEF Shifted
    <3>2. (divisor * temp_quotient) * 2 = divisor * (temp_quotient * 2)
      BY <2>1
    <3> QED
      BY <1>0, <2>4, <2>5, <3>1, <3>2 DEF Shifted
  <2>8. Account'
    BY <1>0, <2>5 DEF Account
  <2> QED
    BY <1>0, <2>5, <2>6, <2>7, <2>8 DEF IInv, Loops, Ended
<1>2. CASE ~(temp_divisor < dividend /\ temp_divisor < HALF)
  <2>1. divides' = "down"
    BY <1>2 DEF Double
  <2>2. UNCHANGED <<dividend, divisor, quotient, asked, temp_divisor, temp_quotient>>
    BY <1>2 DEF Double
  <2>3. TypeOK' /\ Account' /\ Shifted'
    BY <1>0, <2>1, <2>2 DEF TypeOK, Account, Shifted
  <2> QED
    BY <2>1, <2>3 DEF IInv, Loops, Ended
<1> QED
  BY <1>1, <1>2

(* Halving keeps it: temp_quotient is not 1, so it is even. *)
LEMMA HalveKeeps ==
  ASSUME IInv, Halve
  PROVE  IInv'
<1>0. Account /\ Shifted /\ TypeOK /\ divides = "down"
  BY DEF IInv, Loops, Halve
<1>1. dividend >= divisor /\ dividend < temp_divisor
  BY DEF Halve
<1>2. UNCHANGED <<divides, dividend, divisor, quotient, asked>>
  BY DEF Halve
<1>3. divisor \in Nat \ {0} /\ dividend \in Nat /\ temp_quotient \in Nat
  BY <1>0, WordFacts DEF TypeOK, Account
<1>4. temp_quotient # 1
  BY <1>0, <1>1, <1>3 DEF Shifted
<1>5. PICK h \in PowersOfTwo : temp_quotient = 2 * h
  BY <1>0, <1>4, PowersHalve DEF Shifted
<1>6. h \in Nat
  BY DEF PowersOfTwo
<1>7. temp_divisor = 2 * (divisor * h) /\ divisor * h \in Nat
  BY <1>0, <1>3, <1>5, <1>6 DEF Shifted
<1>8. temp_quotient' = h /\ temp_divisor' = divisor * h
  <2>1. \A m \in Nat : (2 * m) \div 2 = m
    OBVIOUS
  <2> QED
    BY <1>5, <1>6, <1>7, <2>1 DEF Halve
<1>9. temp_quotient' \in Word /\ temp_divisor' \in Word
  BY <1>0, <1>5, <1>6, <1>7, <1>8, WordFacts DEF TypeOK
<1>10. TypeOK'
  BY <1>0, <1>2, <1>9 DEF TypeOK
<1>11. Account' /\ Shifted'
  BY <1>0, <1>2, <1>8 DEF Account, Shifted
<1> QED
  BY <1>0, <1>2, <1>10, <1>11 DEF IInv, Loops, Ended

(* Taking away keeps it, and the quotient stays a word. *)
LEMMA SubtractKeeps ==
  ASSUME IInv, Subtract
  PROVE  IInv'
<1>0. Account /\ Shifted /\ TypeOK /\ divides = "down"
  BY DEF IInv, Loops, Subtract
<1>1. dividend >= temp_divisor /\ dividend' = dividend - temp_divisor
  BY DEF Subtract
<1>2. UNCHANGED <<divides, divisor, temp_divisor, temp_quotient, asked>>
  BY DEF Subtract
<1>3. /\ divisor \in Nat \ {0} /\ dividend \in Nat /\ temp_quotient \in Nat
      /\ quotient \in Nat /\ temp_divisor \in Nat /\ asked \in Nat /\ asked < WORD
  BY <1>0, WordFacts DEF TypeOK, Account
<1>4. divisor * (quotient + temp_quotient) = divisor * quotient + temp_divisor
  BY <1>0, <1>3 DEF Shifted
<1>5. divisor * quotient \in Nat
  BY <1>3
<1>6. asked = divisor * (quotient + temp_quotient) + (dividend - temp_divisor)
  BY <1>0, <1>3, <1>4, <1>5 DEF Account
<1>7. quotient + temp_quotient < WORD
  <2>1. quotient + temp_quotient <= divisor * (quotient + temp_quotient)
    BY <1>3, FactorBound
  <2>2. divisor * (quotient + temp_quotient) \in Nat
    BY <1>3, <1>4, <1>5
  <2> QED
    BY <1>1, <1>3, <1>6, <2>1, <2>2, WordFacts
<1>8. quotient' = quotient + temp_quotient
  BY <1>3, <1>7, WordFacts DEF Subtract
<1>9. dividend' \in Word /\ quotient' \in Word
  <2>1. dividend < WORD
    BY <1>0, WordFacts DEF TypeOK
  <2> QED
    BY <1>1, <1>3, <1>7, <1>8, <2>1, WordFacts
<1>10. TypeOK'
  BY <1>0, <1>2, <1>9 DEF TypeOK
<1>11. Account' /\ Shifted'
  BY <1>0, <1>1, <1>2, <1>6, <1>8 DEF Account, Shifted
<1> QED
  BY <1>0, <1>2, <1>10, <1>11 DEF IInv, Loops, Ended

(* Every step of divideUnsigned keeps the invariant. *)
LEMMA WordsStep == IInv /\ [WordsNext]_words_vars => IInv'
<1> SUFFICES ASSUME IInv, [WordsNext]_words_vars PROVE IInv'
  OBVIOUS
<1>1. ASSUME NEW a \in Word, NEW b \in Word, divideUnsigned(a, b) PROVE IInv'
  BY <1>1, CallKeeps
<1>2. CASE Double
  BY <1>2, DoubleKeeps
<1>3. CASE Halve
  BY <1>3, HalveKeeps
<1>4. CASE Subtract
  BY <1>4, SubtractKeeps
<1>5. CASE Divided
  <2>1. UNCHANGED <<dividend, divisor, quotient, asked, temp_divisor, temp_quotient>>
    BY <1>5 DEF Divided
  <2>2. Account /\ dividend < divisor /\ divides' = "done"
    BY <1>5 DEF Divided, IInv, Loops
  <2> QED
    BY <2>1, <2>2 DEF IInv, TypeOK, Loops, Ended, Account
<1>6. CASE Returned
  BY <1>6, WordFacts DEF Returned, IInv, TypeOK, Loops, Ended
<1>7. CASE UNCHANGED words_vars
  BY <1>7 DEF words_vars, IInv, TypeOK, Loops, Ended, Account, Shifted
<1> QED
  BY <1>1, <1>2, <1>3, <1>4, <1>5, <1>6, <1>7 DEF WordsNext, DivideStep

(* The invariant gives the quotient. *)
LEMMA InvariantGivesQuotient == IInv => QuotientRight
<1> SUFFICES ASSUME IInv, divides = "done"
             PROVE  quotient = (IF divisor = 0 THEN 0 ELSE asked \div divisor)
  BY DEF QuotientRight
<1>1. CASE divisor = 0
  BY <1>1 DEF IInv, Ended
<1>2. CASE divisor # 0
  <2>1. Account /\ dividend < divisor
    BY <1>2 DEF IInv, Ended
  <2>2. divisor \in Nat \ {0} /\ quotient \in Nat /\ dividend \in 0 .. divisor - 1
    BY <1>2, <2>1, WordFacts DEF IInv, TypeOK
  <2>3. (divisor * quotient + dividend) \div divisor = quotient
    BY <2>2, DivisionUnique
  <2> QED
    BY <1>2, <2>1, <2>3 DEF Account
<1> QED
  BY <1>1, <1>2

(* divideUnsigned returns the quotient of any two words, whatever their size. *)
THEOREM DividesRight == WordsSpec => []QuotientRight
<1>1. WordsInit => IInv
  BY WordsInitial
<1>2. IInv /\ [WordsNext]_words_vars => IInv'
  BY WordsStep
<1>3. IInv => QuotientRight
  BY InvariantGivesQuotient
<1> QED
  BY <1>1, <1>2, <1>3, PTL DEF WordsSpec

(***************************************************************************)
(* The rounding functions.                                                 *)
(***************************************************************************)

(* Rounding up by adding b - 1, as div_absolute_ceil does *)
LEMMA UpByAdding ==
  ASSUME NEW a \in Nat, NEW b \in Nat \ {0}
  PROVE  ((a + b - 1) \div b) * b \in a .. a + b - 1
<1> DEFINE q == (a + b - 1) \div b
           r == (a + b - 1) % b
<1>1. a + b - 1 \in Nat
  OBVIOUS
<1>2. q \in Nat /\ r \in 0 .. b - 1 /\ a + b - 1 = b * q + r
  BY <1>1, Division
<1> HIDE DEF q, r
<1>3. b * q \in Nat /\ q * b = b * q
  BY <1>2
<1>4. q * b \in a .. a + b - 1
  BY <1>2, <1>3
<1> QED
  BY <1>4 DEF q

(* Rounding up by taking 1 away first, as div_ceil does *)
LEMMA UpBySubtracting ==
  ASSUME NEW a \in Nat \ {0}, NEW b \in Nat \ {0}
  PROVE  /\ (a - 1) \div b \in 0 .. a - 1
         /\ ((a - 1) \div b + 1) * b \in a .. a + b - 1
<1> DEFINE q == (a - 1) \div b
           r == (a - 1) % b
<1>1. a - 1 \in Nat
  OBVIOUS
<1>2. q \in Nat /\ r \in 0 .. b - 1 /\ a - 1 = b * q + r
  BY <1>1, Division
<1> HIDE DEF q, r
<1>3. b * q \in Nat /\ (q + 1) * b = b * q + b /\ q <= b * q
  BY <1>2, FactorBound
<1>4. q \in 0 .. a - 1 /\ (q + 1) * b \in a .. a + b - 1
  BY <1>2, <1>3
<1> QED
  BY <1>4 DEF q

(* What a leaves when divided by b, and the multiple below it *)
LEMMA Down ==
  ASSUME NEW a \in Nat, NEW b \in Nat \ {0}
  PROVE  /\ a - b * (a \div b) = a % b
         /\ a - (a % b) \in 0 .. a /\ a < a - (a % b) + b /\ (a - (a % b)) % b = 0
<1> DEFINE q == a \div b
           r == a % b
<1>1. q \in Nat /\ r \in 0 .. b - 1 /\ a = b * q + r
  BY Division
<1>2. (b * q + 0) % b = 0
  BY <1>1, DivisionUnique
<1> HIDE DEF q, r
<1>3. b * q \in Nat /\ a - r = b * q + 0 /\ a - b * q = r
  BY <1>1
<1>4. a - r \in 0 .. a /\ a < a - r + b /\ (a - r) % b = 0
  BY <1>1, <1>2, <1>3
<1> QED
  BY <1>3, <1>4 DEF q, r

(* The multiple above a number that is none *)
LEMMA Up ==
  ASSUME NEW a \in Nat, NEW b \in Nat \ {0}, a % b # 0
  PROVE  /\ a + (b - (a % b)) \in a .. a + b - 1
         /\ (a + (b - (a % b))) % b = 0
<1> DEFINE q == a \div b
           r == a % b
<1>1. q \in Nat /\ r \in 1 .. b - 1 /\ a = b * q + r
  BY Division
<1>2. (b * (q + 1) + 0) % b = 0
  BY <1>1, DivisionUnique
<1> HIDE DEF q, r
<1>3. b * (q + 1) = b * q + b /\ b * q \in Nat
  BY <1>1
<1>4. a + (b - r) = b * (q + 1) + 0
  BY <1>1, <1>3
<1>5. a + (b - r) \in a .. a + b - 1
  BY <1>1
<1>6. (a + (b - r)) % b = 0
  BY <1>2, <1>4
<1> QED
  BY <1>5, <1>6 DEF r

(* A word is its own remainder. *)
LEMMA WordRemainder == \A x \in Nat : x < WORD => x % WORD = x
  BY WordFacts

(* malloc.c:36 needs a unit for the header and the bytes asked for after it: for
   every size whose sum does not wrap, div_absolute_ceil leaves them that room with
   less than a unit to spare, for multiples of a unit and for others.  *)
THEOREM UnitsHoldRequest ==
  ASSUME NEW a \in Word, NEW b \in Word, b > 1, a + b - 1 < WORD
  PROVE  (div_absolute_ceil(a, b) - 1) * b \in a .. a + b - 1
<1>1. a \in Nat /\ b \in Nat \ {0} /\ a + b - 1 \in Nat
  BY WordFacts
<1>2. PICK q \in Nat : q = (a + b - 1) \div b
  BY <1>1, Division
<1>3. PICK r \in 0 .. b - 1 : a + b - 1 = b * q + r
  BY <1>1, <1>2, Division
<1>4. q + 1 < WORD
  <2>1. PICK c \in Nat \ {0} : b = c + 1
    <3>1. b - 1 \in Nat \ {0} /\ b = (b - 1) + 1
      BY <1>1
    <3> QED BY <3>1
  <2>2. b * q = c * q + q /\ q <= c * q /\ c * q \in Nat
    BY <2>1, FactorBound
  <2>3. q + q <= a + b - 1
    BY <1>1, <1>3, <2>2
  <2> QED
    BY <1>1, <2>3, WordFacts
<1>5. div_absolute_ceil(a, b) = q + 1
  BY <1>1, <1>2, <1>4, WordRemainder DEF div_absolute_ceil
<1>6. q * b \in a .. a + b - 1
  BY <1>1, <1>2, UpByAdding
<1> QED
  BY <1>5, <1>6

(* What RoundingRight says of div_absolute_ceil *)
LEMMA AbsoluteCeilRight ==
  ASSUME NEW a \in Word, NEW b \in Word, b > 1, a + b - 1 < WORD
  PROVE  /\ div_absolute_ceil(a, b) * b > a
         /\ a % b = 0 => div_absolute_ceil(a, b) = a \div b + 1
<1>1. a \in Nat /\ b \in Nat \ {0} /\ WORD \in Nat
  BY WordFacts
<1>2. div_absolute_ceil(a, b) \in Int
  <2>1. (a + b - 1) % WORD \in Nat
    BY <1>1, Division, WordFacts
  <2>2. ((a + b - 1) % WORD) \div b \in Nat
    BY <1>1, <2>1, Division
  <2> QED
    BY <1>1, <2>2, Division, WordFacts DEF div_absolute_ceil
<1>3. PICK u \in Int : div_absolute_ceil(a, b) = u + 1
  <2>1. div_absolute_ceil(a, b) - 1 \in Int
    BY <1>2
  <2> QED
    BY <1>2, <2>1
<1>4. u * b \in a .. a + b - 1
  BY <1>3, UnitsHoldRequest
<1>5. (u + 1) * b = u * b + b
  BY <1>1
<1>6. ASSUME a % b = 0 PROVE u = a \div b
  <2>1. PICK q \in Nat : q = a \div b
    BY <1>1, Division
  <2>2. a = b * q
    BY <1>1, <1>6, <2>1, Division
  <2>3. u * b = b * u /\ b * u \in b * q .. b * q + b - 1
    BY <1>1, <1>4, <2>2
  <2>4. u = q
    <3>1. CASE u < q
      <4>1. b * (q - u) >= b
        BY <1>1, <2>1, <3>1
      <4> QED BY <1>1, <2>3, <4>1
    <3>2. CASE u > q
      <4>1. b * (u - q) >= b
        BY <1>1, <2>1, <3>2
      <4> QED BY <1>1, <2>3, <4>1
    <3> QED
      BY <3>1, <3>2
  <2> QED
    BY <2>1, <2>4
<1> QED
  BY <1>1, <1>3, <1>4, <1>5, <1>6

(* align_up, when the sum does not wrap *)
LEMMA AlignUpRight ==
  ASSUME NEW a \in Word, NEW b \in Word, b # 0, a + b - 1 < WORD
  PROVE  align_up(a, b) \in {m \in a .. a + b - 1 : m % b = 0}
<1>1. a \in Nat /\ b \in Nat \ {0}
  BY WordFacts
<1>2. CASE a % b = 0
  BY <1>1, <1>2 DEF align_up
<1>3. CASE a % b # 0
  <2>1. a + (b - (a % b)) \in a .. a + b - 1 /\ (a + (b - (a % b))) % b = 0
    BY <1>1, <1>3, Up
  <2>2. (a + (b - (a % b))) % WORD = a + (b - (a % b))
    BY <1>1, <2>1, WordRemainder, WordFacts
  <2> QED
    BY <1>3, <2>1, <2>2 DEF align_up
<1> QED
  BY <1>2, <1>3

(* Each function rounds as its callers expect, for words of every size. *)
LEMMA TypesGiveRounding == TypeOK => RoundingRight
<1> SUFFICES ASSUME NEW a \in Word, NEW b \in Word, b # 0
             PROVE  /\ modulo(a, b) = a % b
                    /\ align_down(a, b) \in {m \in 0 .. a : m % b = 0 /\ a < m + b}
                    /\ a + b - 1 < WORD /\ b > 1 =>
                         /\ div_absolute_ceil(a, b) * b > a
                         /\ a % b = 0 => div_absolute_ceil(a, b) = a \div b + 1
                         /\ align_up(a, b) \in {m \in a .. a + b - 1 : m % b = 0}
                    /\ a > 0 => div_ceil(a, b) * b \in a .. a + b - 1
  BY DEF TypeOK, RoundingRight
<1>1. a \in Nat /\ b \in Nat \ {0} /\ a < WORD /\ b < WORD /\ WORD \in Nat
  BY WordFacts
<1>2. modulo(a, b) = a % b
  <2>1. PICK r \in 0 .. b - 1 : r = a % b
    BY <1>1, Division
  <2>2. a - b * (a \div b) = r
    BY <1>1, <2>1, Down
  <2>3. r % WORD = r
    BY <1>1, <2>1, WordRemainder
  <2> QED
    BY <2>1, <2>2, <2>3 DEF modulo
<1>3. align_down(a, b) \in {m \in 0 .. a : m % b = 0 /\ a < m + b}
  BY <1>1, Down DEF align_down
<1>4. a > 0 => div_ceil(a, b) * b \in a .. a + b - 1
  <2> SUFFICES ASSUME a > 0 PROVE div_ceil(a, b) * b \in a .. a + b - 1
    OBVIOUS
  <2>1. (a - 1) % WORD = a - 1
    <3>1. a - 1 \in Nat /\ a - 1 < WORD
      BY <1>1
    <3> QED BY <3>1, WordRemainder
  <2>2. /\ (a - 1) \div b \in 0 .. a - 1
        /\ ((a - 1) \div b + 1) * b \in a .. a + b - 1
    BY <1>1, UpBySubtracting
  <2>3. ((a - 1) \div b + 1) % WORD = (a - 1) \div b + 1
    <3>1. PICK q \in 0 .. a - 1 : q = (a - 1) \div b
      BY <2>2
    <3>2. q + 1 \in Nat /\ q + 1 < WORD
      BY <1>1, <3>1
    <3> QED BY <3>1, <3>2, WordRemainder
  <2> QED
    BY <2>1, <2>2, <2>3 DEF div_ceil
<1> QED
  BY <1>2, <1>3, <1>4, AbsoluteCeilRight, AlignUpRight

(* What malloc, paging and the allocator round is right whatever the word. *)
THEOREM RoundsRight == WordsSpec => []RoundingRight
<1>1. WordsInit => IInv
  BY WordsInitial
<1>2. IInv /\ [WordsNext]_words_vars => IInv'
  BY WordsStep
<1>3. IInv => RoundingRight
  BY TypesGiveRounding DEF IInv
<1> QED
  BY <1>1, <1>2, <1>3, PTL DEF WordsSpec

===============================================================================
