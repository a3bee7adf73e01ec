------------------------------ MODULE MCConsole ------------------------------
(* Small instances of Console for TLC; the other constants are in the cfg. *)
EXTENDS Console

Classes == {"%", "h", "l", "c", "s", "d", "u", "x"}

(* Every format of up to three characters, and two conversions in a row, the first
   with and without a length *)
MCFormats ==
  BoundedSeq(Classes, 3)
    \union {<<"%", a, "%", b>> : a, b \in {"c", "s", "d", "u", "x", "%"}}
    \union {<<"%", m, a, "%", b>> : m \in {"h", "l"}, a, b \in {"d", "u"}}

(* The smallest int, the largest unsigned, a number of two digits, one and zero *)
MCArguments == {<<HALF, 12, 1, 0>>, <<WORD - 1, HALF - 1, 0, 1>>, <<0, HALF, 12, 1>>}
===============================================================================
