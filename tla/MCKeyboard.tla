------------------------------ MODULE MCKeyboard ------------------------------
(* Small instances of Keyboard for TLC; the constants are in the cfg files. *)
EXTENDS Keyboard
===============================================================================
