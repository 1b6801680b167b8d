----------------------------- MODULE Interrupts -----------------------------
(***************************************************************************)
(* Interrupts and exceptions: the gates of Kernel/kernel/idt.c, the stubs  *)
(* behind them, the C handlers, and the controller programmed and answered *)
(* by Kernel/kernel/pic.c.                                                 *)
(*                                                                         *)
(* The stack is the words pushed since the interrupted code: a frame of    *)
(* the processor ("irq" or "fault"), an error code, the registers, the     *)
(* padding and the return address of a call.  Init_PIC masks every line    *)
(* but the timer (0) and the keyboard (1); line 0 has the higher priority. *)
(***************************************************************************)
EXTENDS Integers, Sequences

CONSTANTS
    Raised,        \* bound: the exceptions and unused vectors that occur
    MaxNest        \* bound: fault frames the stack has room for

Lines == {0, 1}

\* Init_IDT: how the stub of each vector reaches its handler.  Vector 11 (#NP) has a stub
\* and no gate for it, like the vectors nothing uses.
CallGates == {"DE", "DB", "NM", "GP", "PF", "MF", "AC", "XM", "VE"}
JumpGates == {"NMI", "BP", "OF", "BR", "UD", "DF", "TS", "SS", "MC"}
DefaultGates == {"NP", "unused"}
Vectors == CallGates \cup JumpGates \cup DefaultGates
WithError == {"DF", "TS", "NP", "SS", "GP", "PF", "AC"}

ASSUME InterruptsAssumption == Raised \subseteq Vectors /\ MaxNest \in Nat \ {0}

VARIABLES
    cpu,           \* where the processor is: at, and the vector or line it serves
    intr,          \* the interrupt flag
    stack,         \* top at the end
    irr, isr       \* the controller: lines raised, lines in service
intVars == <<cpu, intr, stack, irr, isr>>

Code == [at |-> "code", v |-> "none"]
IrqName == [i \in Lines |-> IF i = 0 THEN "timer" ELSE "keyboard"]

\* After Init_Interrupt.
IntInit ==
    /\ cpu = Code
    /\ intr = TRUE
    /\ stack = <<>>
    /\ irr = {} /\ isr = {}

Push(words) == stack' = stack \o words
Pop(n) == SubSeq(stack, 1, Len(stack) - n)
GoTo(at, v) == cpu' = [at |-> at, v |-> v]
Top == stack[Len(stack)]
FaultDepth == Len(SelectSeq(stack, LAMBDA w : w = "fault"))

-----------------------------------------------------------------------------
\* The devices.  The timer's period is far longer than its handler: no tick comes while
\* one is served.
RaiseLine(i) ==
    /\ i = 0 => cpu.v # IrqName[0]
    /\ irr' = irr \cup {i}
    /\ UNCHANGED <<cpu, intr, stack, isr>>

\* A line is delivered when interrupts are on - not in the instruction after sti, which
\* is the iretq of every stub - and no line of its or a higher priority is in service.
Shadowed_Never == FALSE
Shadowed == cpu.at = "iret"

Deliverable(i) ==
    /\ i \in irr
    /\ \A j \in isr : i < j
    /\ \A j \in irr : i <= j

AcceptLine(i) ==
    /\ cpu.at \in {"code", "iret"} /\ intr /\ ~Shadowed
    /\ Deliverable(i)
    /\ irr' = irr \ {i} /\ isr' = isr \cup {i}
    /\ Push(<<"irq">>)
    /\ intr' = FALSE
    /\ GoTo("entry", IrqName[i])

\* An exception: the gate turns interrupts off (ist is 0, so the stack stays).
Fault(v) ==
    /\ Push(<<"fault">> \o (IF v \in WithError THEN <<"error">> ELSE <<>>))
    /\ intr' = FALSE
    /\ GoTo("entry", v)
    /\ UNCHANGED <<irr, isr>>

Exception == cpu.at = "code" /\ \E v \in Raised \ {"NMI"} : Fault(v)

\* The one that does not wait for the interrupt flag.
Nmi ==
    /\ "NMI" \in Raised
    /\ cpu.at \in {"code", "body", "iret"} /\ cpu.v # "NMI"
    /\ Fault("NMI")

-----------------------------------------------------------------------------
Served == {"timer", "keyboard"}

\* interrupt_handler_default is an iretq ...
DefaultStub ==
    /\ cpu.at = "entry" /\ cpu.v \in DefaultGates
    /\ GoTo("iret", cpu.v)
    /\ UNCHANGED <<intr, stack, irr, isr>>

\* ... the others save the registers, align the stack and call their handler, or jump
\* to it when it never returns.
CallStub ==
    /\ cpu.at = "entry" /\ cpu.v \in CallGates \cup Served
    /\ Push(<<"registers", "padding", "return">>)
    /\ intr' = FALSE
    /\ GoTo("body", cpu.v)
    /\ UNCHANGED <<irr, isr>>

JumpStub ==
    /\ cpu.at = "entry" /\ cpu.v \in JumpGates
    /\ Push(<<"registers", "padding">>)
    /\ intr' = FALSE
    /\ GoTo("body", cpu.v)
    /\ UNCHANGED <<irr, isr>>

-----------------------------------------------------------------------------
\* PIC_sendEOI: the line in service with the highest priority is done.
PIC_sendEOI_Omitted == isr' = isr
PIC_sendEOI == isr' = isr \ {CHOOSE i \in isr : \A j \in isr : i <= j}

\* irq_0 counts the tick, draws the cursor and tells the controller before it calls
\* schedule, which comes back here when this thread is chosen again.
irq_0 ==
    /\ cpu = [at |-> "body", v |-> "timer"]
    /\ PIC_sendEOI
    /\ GoTo("leave", "timer")
    /\ UNCHANGED <<intr, stack, irr>>

\* irq_1, but for what it does to the key buffer.
irq_1 ==
    /\ cpu = [at |-> "body", v |-> "keyboard"]
    /\ PIC_sendEOI
    /\ GoTo("leave", "keyboard")
    /\ UNCHANGED <<intr, stack, irr>>

\* Back in the stub: the return address, the padding and the registers, then sti.
LeaveStub ==
    /\ cpu.at = "leave"
    /\ stack' = Pop(3)
    /\ intr' = TRUE
    /\ GoTo("iret", cpu.v)
    /\ UNCHANGED <<irr, isr>>

\* iretq takes what is on top for a frame.
Iretq ==
    /\ cpu.at = "iret"
    /\ IF Top \in {"irq", "fault"}
       THEN cpu' = Code /\ stack' = Pop(1) /\ intr' = TRUE
       ELSE GoTo("wild", cpu.v) /\ UNCHANGED <<intr, stack>>
    /\ UNCHANGED <<irr, isr>>

-----------------------------------------------------------------------------
\* The exception handlers print and stop: SYSTEM_STOP halts for ever.
Stop ==
    /\ cpu.at = "body" /\ cpu.v \in Vectors
    /\ GoTo("halted", cpu.v)
    /\ UNCHANGED <<intr, stack, irr, isr>>

\* interrupt_PF and interrupt_GP print through pointers that were never set: the write may
\* fault in turn, and the faults pile up until the stack has no room for another one.
WildPrint ==
    /\ cpu.at = "body" /\ cpu.v \in {"PF", "GP"}
    /\ IF FaultDepth < MaxNest THEN Fault("PF")
       ELSE GoTo("reset", cpu.v) /\ UNCHANGED <<intr, stack, irr, isr>>

-----------------------------------------------------------------------------
Stubs == DefaultStub \/ CallStub \/ JumpStub \/ LeaveStub \/ Iretq
Handlers == irq_0 \/ Stop \/ WildPrint
Devices == Exception \/ Nmi \/ \E i \in Lines : RaiseLine(i)
Deliver == \E i \in Lines : AcceptLine(i)

IntNext == Stubs \/ Handlers \/ irq_1 \/ Devices \/ Deliver
IntSpec == IntInit /\ [][IntNext]_intVars

Dead == cpu.at \in {"halted", "reset", "wild"}

-----------------------------------------------------------------------------
\* The variables keep their types.
IntTypeOK ==
    /\ cpu \in [at : {"code", "entry", "body", "leave", "iret", "halted", "reset", "wild"},
                v : Vectors \cup Served \cup {"none"}]
    /\ intr \in BOOLEAN
    /\ stack \in Seq({"irq", "fault", "error", "registers", "padding", "return"})
    /\ irr \subseteq Lines /\ isr \subseteq Lines

\* Every iretq finds the processor's frame on top, interrupts never nest, and the code
\* that was interrupted finds its stack as it left it and no line still in service - with
\* one exception: #NP goes through the default stub, which takes its error code for the
\* address to return to.
ReturnsClean ==
    /\ cpu.at = "iret" /\ cpu.v # "NP" => Top \in {"irq", "fault"}
    /\ cpu.at = "wild" => cpu.v = "NP"
    /\ \A k \in 2..Len(stack) : stack[k] # "irq"
    /\ cpu.at = "code" => stack = <<>> /\ isr = {}
=============================================================================
