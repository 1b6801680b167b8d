----------------------------- MODULE MCThreads -----------------------------
(***************************************************************************)
(* Threads with model values for the control blocks.                       *)
(***************************************************************************)
EXTENDS Threads, TLC

CONSTANTS t1, t2, t3

MCWorkers == {t1, t2, t3}
MCTCB == {main, idle} \cup MCWorkers

\* The worker blocks are interchangeable pages.
MCSymmetry == Permutations(MCWorkers)

\* Bound of the shutdown run: TORT still has a free entry.
MCTableNotFull == next_TORT_Position < TORT_SIZE
=============================================================================
