------------------------------- MODULE MCVmm -------------------------------
(***************************************************************************)
(* Vmm on 34 pages and tables of two entries: Vmm.cfg gives the numbers.   *)
(***************************************************************************)
EXTENDS Vmm
=============================================================================
