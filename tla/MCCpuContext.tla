---------------------------- MODULE MCCpuContext ----------------------------
(***************************************************************************)
(* CpuContext with two user threads and one kernel thread.                 *)
(***************************************************************************)
EXTENDS CpuContext, TLC

CONSTANTS u1, u2, k1

MCPlain == {k1}
MCUsers == {u1, u2}
MCSymmetry == Permutations({u1, u2})
=============================================================================
