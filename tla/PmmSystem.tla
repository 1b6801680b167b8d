----------------------------- MODULE PmmSystem -----------------------------
(***************************************************************************)
(* From the boot loader to the page allocator: the kernel is loaded and    *)
(* started (Loader), and with the memory map it was handed the allocator   *)
(* (Pmm) runs.  It is followed only where the loader ignored no failure.   *)
(***************************************************************************)
EXTENDS Loader, Pmm

sysVars == <<vars, loaderVars>>

\* The memory map is the firmware's from the beginning, but nobody looks at it before
\* the kernel runs.
SysInit == LoaderInit /\ map = KernelMap /\ Init

LoadKernel == LoaderStep /\ UNCHANGED vars
Running == At("running") /\ unchecked = {}
Allocator == Running /\ Next /\ UNCHANGED loaderVars

SysNext == LoadKernel \/ Allocator

\* A call of the allocator that has begun goes on.
SysSpec ==
    /\ SysInit
    /\ [][SysNext]_sysVars
    /\ WF_sysVars(Running /\ ~clobbered /\ Step /\ UNCHANGED loaderVars)

-----------------------------------------------------------------------------
\* As long as callers ask for single pages, no page the allocator hands out belongs to the
\* loader's memory, where the kernel itself, its stack, its font and the descriptors are.
LoaderDataKept == single => \A b \in blocks : Cover(b) \cap LoaderPages = {}
=============================================================================
