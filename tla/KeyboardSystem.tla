--------------------------- MODULE KeyboardSystem ---------------------------
(***************************************************************************)
(* The keyboard driver under the interrupts that drive it: a key raises    *)
(* line 1, and irq_1 stores it when the controller and the processor let   *)
(* it; the main thread moves only between interrupts.                      *)
(***************************************************************************)
EXTENDS Keyboard, Interrupts

sysVars == <<vars, intVars>>

SysInit == Init /\ IntInit

\* irq_1 finds a key, a shift key, or nothing it keeps: a release, a key without a
\* character, or a full buffer.
KeyInterrupt == irq_1 /\ (PressKey \/ ShiftKey \/ UNCHANGED vars)

Boot == (ClearSlot \/ BootDone) /\ cpu = Code /\ UNCHANGED intVars
Reader == Shell /\ cpu = Code /\ UNCHANGED intVars
ClockCommand == GetKey_NoBlock /\ cpu = Code /\ UNCHANGED intVars

Processor == (Stubs \/ Handlers) /\ UNCHANGED vars
World == Devices /\ UNCHANGED vars
DeliverLine(i) == AcceptLine(i) /\ UNCHANGED vars

SysNext ==
    \/ KeyInterrupt \/ Boot \/ Reader \/ ClockCommand
    \/ Processor \/ World \/ \E i \in Lines : DeliverLine(i)

\* The processor goes on; the main thread is not kept from it by ever more interrupts, nor
\* is line 1 by the timer, whose ticks are far apart.
SysSpec ==
    /\ SysInit
    /\ [][SysNext]_sysVars
    /\ WF_sysVars(Processor \/ KeyInterrupt)
    /\ SF_sysVars(Boot) /\ SF_sysVars(Reader)
    /\ \A i \in Lines : SF_sysVars(DeliverLine(i))

-----------------------------------------------------------------------------
\* A full buffer does not lock typing out for ever: the shell empties it, unless the
\* machine stopped.
FullIsTemporary == Full ~> (~Full \/ Dead)

\* A raised line is always served, however many interrupts of the other line come before
\* it: no handler returns without telling the controller.
LineIsServed == \A i \in Lines : i \in irr ~> (i \notin irr \/ Dead)
=============================================================================
