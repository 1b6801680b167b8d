----------------------------- MODULE CpuContext -----------------------------
(***************************************************************************)
(* What the processor and two globals hold across thread switches: the     *)
(* page table in CR3, Current_VMM_Desc (the virtual memory manager that    *)
(* Vmm_Malloc and Vmm_Free work on), and the SYSCALL state, that is the GS *)
(* base and the one save area syscall_cpu.  From schedule(), create_thread *)
(* and create_user_thread of Kernel/kernel/Thread.c, Kernel/kernel/        *)
(* Syscall.c and Switch_Virtual_Mamanager of Kernel/mm/vmm.c.              *)
(*                                                                         *)
(* The queues of the scheduler are the business of module Threads; here    *)
(* schedule() may choose any thread that is alive.  A thread with a memory *)
(* manager of its own names that manager too; `kernel' is the manager that *)
(* InitSystem makes, whose page table is KernelPML4.                       *)
(***************************************************************************)
EXTENDS Naturals, FiniteSets

CONSTANTS
    main,       \* the shell thread
    Plain,      \* kernel threads without a memory manager of their own
    Users,      \* threads with one (use_vmm); these may enter ring 3
    kernel,     \* the kernel's memory manager
    None

ASSUME ContextAssumption ==
    /\ main \notin Plain \cup Users /\ Plain \cap Users = {}
    /\ kernel \notin Users
    /\ None \notin Plain \cup Users \cup {main, kernel}

Threads == {main} \cup Plain \cup Users
Spaces == Users \cup {kernel}

VARIABLES
    current_thread,
    frame,        \* where a thread stopped: "none" (does not exist), "new" (never
                  \* ran), "irq" (preempted in its own code), "yield", "sleep" and
                  \* "open" (in a syscall: in schedule(), in ThreadSleepMS,
                  \* preempted after it), "dead" (exited, not buried); of the
                  \* running thread, "run"
    target_cr3,   \* a suspended thread's local of schedule(): was it nonzero?
    vmm,          \* thread_t.vmm
    cr3, Current_VMM_Desc,
    gs,           \* does GS hold the address of syscall_cpu?
    saved,        \* whose user registers the save area holds
    kernel_rsp,   \* whose kernel stack syscall_cpu.kernel_rsp points to
    regs,         \* whose user registers a thread goes on with
    mode,         \* of the running thread: "own" (its own code), "syscall"
                  \* (interrupts masked), "open" (interrupts on again), "lost"
                  \* (entered through a GS base that is not syscall_cpu)
    job,          \* main: <<step, the manager being made>> of a thread creation
    saved_cr3, old_vmm,    \* locals of that creation
    solo          \* history: there was never a second user thread at a time, and
                  \* none ended inside a syscall

switch == <<current_thread, frame, target_cr3, vmm, kernel_rsp>>
memory == <<cr3, Current_VMM_Desc>>
syscall == <<gs, saved, regs, mode>>
making == <<job, saved_cr3, old_vmm>>
vars == <<switch, memory, syscall, making, solo>>

Suspended == {"irq", "yield", "sleep", "open"}

Prompt == <<"prompt", None>>

Init ==
    /\ current_thread = main
    /\ frame = [t \in Threads |-> IF t = main THEN "run" ELSE "none"]
    /\ target_cr3 = [t \in Threads |-> FALSE]
    /\ vmm = [t \in Threads |-> kernel]
    /\ cr3 = kernel /\ Current_VMM_Desc = kernel
    /\ gs = FALSE /\ saved = None /\ kernel_rsp = None
    /\ regs = [t \in Threads |-> t]
    /\ mode = "own"
    /\ job = Prompt /\ saved_cr3 = kernel /\ old_vmm = kernel
    /\ solo = TRUE

-----------------------------------------------------------------------------
\* What schedule() passes to switch_to: the page table of a thread that has its
\* own, the kernel's after such a thread, else none.
Target_AlwaysKernel(prev, next) == IF next \in Users THEN vmm[next] ELSE kernel
Target(prev, next) ==
    IF next \in Users THEN vmm[next] ELSE IF prev \in Users THEN kernel ELSE None

\* switch_to loads CR3 unless it is passed 0.
Loaded(target) == IF target = None THEN cr3 ELSE target

Resumed(f) == CASE f = "yield" -> "syscall"
                [] f \in {"sleep", "open"} -> "open"
                [] OTHER -> "own"

\* The line after switch_to looks at the local the resumed thread computed when it
\* was itself switched out.
Updated_Never(next) == Current_VMM_Desc
Updated(next) == IF target_cr3[next] THEN vmm[next] ELSE Current_VMM_Desc

\* schedule() from the running thread, which stops with frame f, to the thread
\* next.  A new thread starts without the lines after switch_to; any other runs
\* them and buries its predecessor if that is dead: KillThread switches to the
\* dead thread's manager and then back to Current_VMM_Desc.
SwitchTo(f, next) ==
    LET prev == current_thread
        target == Target(prev, next)
        buries == f = "dead" /\ frame[next] # "new"
    IN  /\ next # prev
        /\ frame[next] \notin {"none", "dead"}
        /\ current_thread' = next
        /\ frame' = [frame EXCEPT ![prev] = IF buries THEN "none" ELSE f, ![next] = "run"]
        /\ target_cr3' = [target_cr3 EXCEPT ![prev] = target # None]
        /\ kernel_rsp' = next
        /\ mode' = Resumed(frame[next])
        /\ Current_VMM_Desc' = IF frame[next] = "new" THEN Current_VMM_Desc ELSE Updated(next)
        /\ cr3' = IF buries /\ prev \in Users THEN Updated(next) ELSE Loaded(target)
        /\ UNCHANGED vmm

Schedule(f) == \E t \in Threads : SwitchTo(f, t)

\* The timer interrupt, with interrupts on; a kernel thread that goes to sleep
\* leaves the same things behind.
Tick ==
    /\ \/ mode = "own" /\ Schedule("irq")
       \/ mode = "open" /\ Schedule("open")
    /\ UNCHANGED <<gs, saved, regs, making, solo>>

\* thread_exit: a kernel thread returns, or int 0x80 in ring 3.
ThreadExit ==
    /\ mode = "own" /\ current_thread # main
    /\ Schedule("dead")
    /\ UNCHANGED <<gs, saved, regs, making, solo>>

-----------------------------------------------------------------------------
\* syscall_entry: swapgs, then the user registers go to the save area and the
\* stack comes from it, wherever GS points.
swapgs_Missing == gs
swapgs == ~gs

SyscallEntry ==
    /\ mode = "own" /\ current_thread \in Users
    /\ gs' = swapgs
    /\ IF gs'
       THEN mode' = "syscall" /\ saved' = regs[current_thread]
       ELSE mode' = "lost" /\ UNCHANGED saved
    /\ UNCHANGED <<switch, memory, regs, making, solo>>

\* The end of syscall_entry, after SYS_putchar, an unknown number, or when
\* SYS_yield or SYS_sleep returns.
SyscallReturn ==
    /\ mode \in {"syscall", "open"}
    /\ regs' = [regs EXCEPT ![current_thread] = saved]
    /\ gs' = swapgs
    /\ mode' = "own"
    /\ UNCHANGED <<switch, memory, saved, making, solo>>

SyscallYield ==
    /\ mode = "syscall"
    /\ Schedule("yield") \/ Schedule("sleep")
    /\ UNCHANGED <<gs, saved, regs, making, solo>>

\* SYS_exit does not return, so the second swapgs does not happen.
SyscallExit ==
    /\ mode = "syscall"
    /\ Schedule("dead")
    /\ solo' = FALSE
    /\ UNCHANGED <<gs, saved, regs, making>>

-----------------------------------------------------------------------------
Shell == current_thread = main /\ mode = "own"

Alive == {u \in Users : frame[u] # "none"}

\* Init_Virtual_Memory_Manager: fill the new page table through CR3, restore CR3.
MakeManager ==
    /\ Shell /\ job = Prompt
    /\ \E u \in Users :
         /\ frame[u] = "none"
         /\ job' = <<"init", u>>
         /\ cr3' = u
    /\ saved_cr3' = cr3
    /\ solo' = (solo /\ Alive = {})
    /\ UNCHANGED <<switch, Current_VMM_Desc, syscall, old_vmm>>

ManagerMade ==
    /\ Shell /\ job[1] = "init"
    /\ cr3' = saved_cr3
    /\ job' = <<"made", job[2]>>
    /\ UNCHANGED <<switch, Current_VMM_Desc, syscall, saved_cr3, old_vmm, solo>>

\* Switch_Virtual_Mamanager(vmm): Vmm_Malloc now works in the new space.
EnterSpace ==
    /\ Shell /\ job[1] = "made"
    /\ old_vmm' = Current_VMM_Desc
    /\ Current_VMM_Desc' = job[2]
    /\ cr3' = job[2]
    /\ job' = <<"fill", job[2]>>
    /\ UNCHANGED <<switch, syscall, saved_cr3, solo>>

\* Switch_Virtual_Mamanager(old_vmm), after code and stack are in place or after
\* Vmm_Malloc failed.
LeaveSpace ==
    /\ Shell /\ job[1] = "fill"
    /\ Current_VMM_Desc' = old_vmm
    /\ cr3' = old_vmm
    /\ job' \in {<<"start", job[2]>>, Prompt}
    /\ UNCHANGED <<switch, syscall, saved_cr3, old_vmm, solo>>

\* create_thread / create_user_thread, interrupts off: into the space and back.
StartUser ==
    /\ Shell /\ job[1] = "start"
    /\ frame' = [frame EXCEPT ![job[2]] = "new"]
    /\ vmm' = [vmm EXCEPT ![job[2]] = job[2]]
    /\ regs' = [regs EXCEPT ![job[2]] = job[2]]
    /\ cr3' = Current_VMM_Desc
    /\ job' = Prompt
    /\ UNCHANGED <<current_thread, target_cr3, kernel_rsp, Current_VMM_Desc, gs, saved,
                   mode, saved_cr3, old_vmm, solo>>

\* CreateKernelThread: the thread inherits Current_VMM_Desc.
StartPlain ==
    /\ Shell /\ job = Prompt
    /\ \E k \in Plain :
         /\ frame[k] = "none"
         /\ frame' = [frame EXCEPT ![k] = "new"]
         /\ vmm' = [vmm EXCEPT ![k] = Current_VMM_Desc]
    /\ UNCHANGED <<current_thread, target_cr3, kernel_rsp, memory, syscall, making, solo>>

\* KillThread by the shell (KillTest, CleanAllThreads): for a thread with its own
\* manager, into that manager and back to Current_VMM_Desc.
KillThread ==
    /\ Shell /\ job = Prompt
    /\ \E t \in Threads \ {main} :
         /\ frame[t] \in Suspended \cup {"new"}
         /\ frame' = [frame EXCEPT ![t] = "none"]
         /\ cr3' = IF t \in Users THEN Current_VMM_Desc ELSE cr3
         /\ solo' = (solo /\ frame[t] \in {"new", "irq"})
    /\ UNCHANGED <<current_thread, target_cr3, vmm, kernel_rsp, Current_VMM_Desc, syscall,
                   making>>

Making == MakeManager \/ ManagerMade \/ EnterSpace \/ LeaveSpace \/ StartUser \/ StartPlain
          \/ KillThread
Syscalls == SyscallEntry \/ SyscallReturn \/ SyscallYield \/ SyscallExit

\* After a "lost" entry the registers and the stack are garbage.
Lost == mode = "lost" /\ UNCHANGED vars

Next == Tick \/ ThreadExit \/ Syscalls \/ Making \/ Lost

Spec == Init /\ [][Next]_vars

-----------------------------------------------------------------------------
\* Every variable has its type.
TypeOK ==
    /\ current_thread \in Threads
    /\ frame \in [Threads -> {"none", "new", "run", "dead"} \cup Suspended]
    /\ target_cr3 \in [Threads -> BOOLEAN]
    /\ vmm \in [Threads -> Spaces]
    /\ cr3 \in Spaces /\ Current_VMM_Desc \in Spaces
    /\ gs \in BOOLEAN
    /\ saved \in Threads \cup {None} /\ kernel_rsp \in Threads \cup {None}
    /\ regs \in [Threads -> Threads \cup {None}]
    /\ mode \in {"own", "syscall", "open", "lost"}
    /\ job \in {Prompt} \cup ({"init", "made", "fill", "start"} \X Users)
    /\ saved_cr3 \in Spaces /\ old_vmm \in Spaces
    /\ solo \in BOOLEAN

\* A thread with an address space of its own always runs in it, also right after
\* it has buried a thread of another address space.
InOwnSpace == current_thread \in Users => cr3 = current_thread

\* A user thread that is alone and returns from every syscall gets its own
\* registers back, and enters through the save area, on its own kernel stack.
SoloSyscalls ==
    solo /\ current_thread \in Users =>
        /\ mode # "lost"
        /\ regs[current_thread] = current_thread
        /\ mode = "own" <=> ~gs
        /\ kernel_rsp = current_thread

\* While no other user thread is alive, a thread creation preempted between
\* switching to the new address space and back goes on in the new one.
FillsNewSpace == solo /\ Shell /\ job[1] = "fill" => cr3 = job[2]

\* syscall_entry works on the save area and on the caller's kernel stack.
EntersSaveArea == mode # "lost"
=============================================================================
