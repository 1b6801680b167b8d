---------------------------- MODULE MCThreadSync ----------------------------
(***************************************************************************)
(* ThreadSync with model values for the control blocks.                    *)
(***************************************************************************)
EXTENDS ThreadSync, TLC

CONSTANTS t1, t2, t3

MCTCB == {main, idle, t1, t2, t3}
MCTCB2 == {main, idle, t1, t2}
MCSymmetry == Permutations({t1, t2, t3})
=============================================================================
