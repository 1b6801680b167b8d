----------------------------- MODULE MCKeyboard -----------------------------
(***************************************************************************)
(* KeyboardSystem with a letter key, a function key without a character    *)
(* and a key that has a character only in the shifted table.               *)
(***************************************************************************)
EXTENDS KeyboardSystem

MCLower == [letter |-> "a", fkey |-> NUL, mark |-> NUL]
MCUpper == [letter |-> "A", fkey |-> NUL, mark |-> "!"]
MCChars == {"a", "A", "!"}
=============================================================================
