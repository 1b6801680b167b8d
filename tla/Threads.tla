------------------------------ MODULE Threads ------------------------------
(***************************************************************************)
(* The thread manager of the OS003 kernel (Kernel/kernel/Thread.c) on its  *)
(* single core, driven by the timer interrupt (irq_0 of kernel/pic.c), by  *)
(* the threads themselves and by the shell (the main thread, kernel.c).    *)
(*                                                                         *)
(* A thread is its control block (thread_t), a page taken from the         *)
(* physical memory manager; blocks are recycled through free_tcb_list, so  *)
(* one element of TCB may carry several threads in turn.  Code between     *)
(* disable_interrupts() and enable_interrupts() is one step, except that   *)
(* schedule() is cut where it hands the processor over: "wake" is its      *)
(* first half (wake_sleeping_threads and thread_dequeue, still on the old  *)
(* thread), "tail" is what follows switch_to (already on the new thread),  *)
(* and "run" is ordinary code, which the timer may preempt.                *)
(***************************************************************************)
EXTENDS Integers, Sequences, FiniteSets, SequencesExt

CONSTANTS
    TCB,                 \* the pages that may hold a thread_t
    main, idle,          \* SYSTEM_KernelThread and the idle thread's block
    NULL,
    FREE_TCB_LIST_SIZE,  \* Thread.h:24
    TORT_SIZE,           \* Thread.h:25
    Kinds,               \* which threads the shell may start (bound)
    MaxSleep,            \* longest sleep, in timer ticks (bound)
    OutOfMemory,         \* may Pmm_Malloc / Vmm_Malloc return NULL?
    StaleKill,           \* may KillTest be repeated on a dead test_thread?
    Shutdown             \* may shutdown/reboot run (and fail to power off)?

ASSUME ThreadsAssumption ==
    /\ main \in TCB /\ idle \in TCB /\ main # idle /\ NULL \notin TCB
    /\ FREE_TCB_LIST_SIZE \in Nat \ {0}
    /\ TORT_SIZE \in Nat \ {0}
    /\ Kinds \subseteq {"test", "task", "user"}
    /\ MaxSleep \in Nat \ {0}
    /\ OutOfMemory \in BOOLEAN /\ StaleKill \in BOOLEAN /\ Shutdown \in BOOLEAN

VARIABLES
    current_thread, schedule_prev_thread,
    ready_queue, sleep_queue,   \* the two linked lists, head first
    state,                      \* thread_t.state ("NONE": page not a thread yet)
    frame,      \* where switch_to resumes the thread: "new" = its entry point,
                \* "irq" / "sleep" / "yield" / "call" = the call of schedule()
                \* it made there, "exit" = thread_exit; "run" = it runs
    wakeup,     \* thread_t.wakeup_time minus SYSTEM_TimerTicks, not below 0
    kind,       \* which function it executes (see Kinds)
    stack,      \* the threads whose kernel_stack is allocated
    heap,       \* the pages of TCB not yet given out by Pmm_Malloc(1)
    free_tcb_list, num_of_FreeTCB,
    TORT, next_TORT_Position, PositionInTable,
    intr,       \* the interrupt flag
    phase,      \* "run", "wake" or "tail"
    test_thread,                \* the shell's global, kernel.c:110
    clean, victim               \* CleanAllThreads' loop index and local

lists == <<free_tcb_list, num_of_FreeTCB, TORT>>
shell == <<test_thread, clean, victim>>
vars == <<current_thread, schedule_prev_thread, ready_queue, sleep_queue, state,
          frame, wakeup, kind, stack, heap, lists, next_TORT_Position,
          PositionInTable, intr, phase, shell>>

Live(t) == state[t] \in {"READY", "RUNNING", "BLOCKED"}

-----------------------------------------------------------------------------
(***************************************************************************)
(* Queue primitives.  thread_dequeue is Head/Tail, the enqueues are Append *)
(* and the two unlinking loops remove the first match.  An operator whose  *)
(* name carries a suffix (thread_enqueue_AtHead) is a faulty variant of    *)
(* the one that follows it; only the mutation runs of PROJECT.json use it. *)
(***************************************************************************)
thread_enqueue_AtHead(q, t) == <<t>> \o q
thread_enqueue(q, t) == Append(q, t)

sleep_enqueue(q, t) == Append(q, t)

IndexOf(q, t) == CHOOSE k \in 1..Len(q) : q[k] = t /\ \A j \in 1..(k-1) : q[j] # t

Unlink_Forgotten(q, t) == q
Unlink(q, t) == IF \E k \in 1..Len(q) : q[k] = t THEN RemoveAt(q, IndexOf(q, t)) ELSE q

(***************************************************************************)
(* The state init_multitasking leaves: the shell's thread runs, the idle   *)
(* thread (the first create_thread) waits in the ready queue and in TORT.  *)
(***************************************************************************)
Init ==
    /\ current_thread = main
    /\ schedule_prev_thread = NULL
    /\ ready_queue = <<idle>>
    /\ sleep_queue = <<>>
    /\ state = [t \in TCB |-> IF t = main THEN "RUNNING"
                              ELSE IF t = idle THEN "READY" ELSE "NONE"]
    /\ frame = [t \in TCB |-> IF t = main THEN "run" ELSE "new"]
    /\ wakeup = [t \in TCB |-> 0]
    /\ kind = [t \in TCB |-> IF t = main THEN "main" ELSE "idle"]
    /\ stack = {main, idle}
    /\ heap = TCB \ {main, idle}
    /\ free_tcb_list = [i \in 0..FREE_TCB_LIST_SIZE |-> NULL]
    /\ num_of_FreeTCB = 0
    /\ TORT = [i \in 0..(TORT_SIZE-1) |-> IF i = 0 THEN idle ELSE NULL]
    /\ next_TORT_Position = 1
    /\ PositionInTable = [t \in TCB |-> 0]
    /\ intr = TRUE
    /\ phase = "run"
    /\ test_thread = NULL
    /\ clean = TORT_SIZE
    /\ victim = NULL

-----------------------------------------------------------------------------
(***************************************************************************)
(* schedule(), first half: the caller goes back to the ready queue if it   *)
(* is still RUNNING; fr is where it resumes.  st is the state function as  *)
(* the caller left it.  Interrupts stay off until the switch is over.      *)
(***************************************************************************)
StillRunning_Unchecked(st) == TRUE
StillRunning(st) == st[current_thread] = "RUNNING"

Schedule_DropsCaller(st, fr) ==
    /\ state' = st
    /\ frame' = [frame EXCEPT ![current_thread] = fr]
    /\ phase' = "wake"
    /\ intr' = FALSE
    /\ UNCHANGED ready_queue
Schedule(st, fr) ==
    /\ IF StillRunning(st)
       THEN /\ state' = [st EXCEPT ![current_thread] = "READY"]
            /\ ready_queue' = thread_enqueue(ready_queue, current_thread)
       ELSE /\ state' = st
            /\ UNCHANGED ready_queue
    /\ frame' = [frame EXCEPT ![current_thread] = fr]
    /\ phase' = "wake"
    /\ intr' = FALSE

Due(t) == wakeup[t] = 0

\* One turn of the loop of wake_sleeping_threads that finds a thread due.
WakeSleeping ==
    /\ phase = "wake"
    /\ \E k \in 1..Len(sleep_queue) :
         /\ Due(sleep_queue[k])
         /\ \A j \in 1..(k-1) : ~Due(sleep_queue[j])
         /\ sleep_queue' = RemoveAt(sleep_queue, k)
         /\ ready_queue' = thread_enqueue(ready_queue, sleep_queue[k])
         /\ state' = [state EXCEPT ![sleep_queue[k]] = "READY"]
    /\ UNCHANGED <<current_thread, schedule_prev_thread, frame, wakeup, kind,
                   stack, heap, lists, next_TORT_Position, PositionInTable,
                   intr, phase, shell>>

(***************************************************************************)
(* The rest of schedule() up to switch_to.  A thread that never ran starts *)
(* at its entry point with rflags 0x202, that is with interrupts on and    *)
(* without the tail of schedule().                                         *)
(***************************************************************************)
NextThread == IF ready_queue = <<>> THEN main ELSE Head(ready_queue)

SwitchTo ==
    /\ phase = "wake"
    /\ \A k \in 1..Len(sleep_queue) : ~Due(sleep_queue[k])
    /\ current_thread' = NextThread
    /\ ready_queue' = IF ready_queue = <<>> THEN <<>> ELSE Tail(ready_queue)
    /\ schedule_prev_thread' = current_thread
    /\ state' = [state EXCEPT ![NextThread] = "RUNNING"]
    /\ IF frame[NextThread] = "new"
       THEN /\ phase' = "run"
            /\ intr' = TRUE
            /\ frame' = [frame EXCEPT ![NextThread] = "run"]
       ELSE phase' = "tail" /\ UNCHANGED <<intr, frame>>
    /\ UNCHANGED <<sleep_queue, wakeup, kind, stack, heap, lists,
                   next_TORT_Position, PositionInTable, shell>>

-----------------------------------------------------------------------------
Unlisted_WrongEntry(t) == [TORT EXCEPT ![0] = NULL]
Unlisted(t) == [TORT EXCEPT ![PositionInTable[t]] = NULL]

(***************************************************************************)
(* KillThread(t) for a thread t that is not the running one.  The block is *)
(* stored at free_tcb_list[num_of_FreeTCB + 1]: the word with index        *)
(* FREE_TCB_LIST_SIZE is already outside the array.                        *)
(***************************************************************************)
KillThread(t) ==
    /\ state' = [state EXCEPT ![t] = "TERMINATED"]
    /\ sleep_queue' = Unlink(sleep_queue, t)
    /\ ready_queue' = Unlink(ready_queue, t)
    /\ stack' = stack \ {t}
    /\ IF num_of_FreeTCB < FREE_TCB_LIST_SIZE
       THEN /\ num_of_FreeTCB' = num_of_FreeTCB + 1
            /\ free_tcb_list' = [free_tcb_list EXCEPT ![num_of_FreeTCB + 1] = t]
       ELSE UNCHANGED <<free_tcb_list, num_of_FreeTCB>>
    /\ TORT' = Unlisted(t)

MustBury_Always == TRUE
MustBury == state[schedule_prev_thread] = "TERMINATED"

(***************************************************************************)
(* schedule() after switch_to, on the thread switched in: it buries the    *)
(* thread it took over from.  KillThread ends with enable_interrupts(), so *)
(* a burial leaves interrupts on whatever they were; otherwise the caller  *)
(* of schedule() decides: the interrupt handler, ThreadSleepMS and the     *)
(* system call return turn them on, a lock keeps them off ("call").        *)
(***************************************************************************)
InterruptsAfter == frame[current_thread] # "call"

ScheduleTail ==
    /\ phase = "tail"
    /\ IF MustBury
       THEN /\ KillThread(schedule_prev_thread)
            /\ intr' = TRUE
       ELSE /\ intr' = InterruptsAfter
            /\ UNCHANGED <<state, sleep_queue, ready_queue, stack, lists>>
    /\ schedule_prev_thread' = NULL
    /\ frame' = [frame EXCEPT ![current_thread] = "run"]
    /\ phase' = "run"
    /\ UNCHANGED <<current_thread, wakeup, kind, heap, next_TORT_Position,
                   PositionInTable, shell>>

-----------------------------------------------------------------------------
Sooner_Stopped(w) == w
Sooner(w) == IF w > 0 THEN w - 1 ELSE 0

\* irq_0: one tick nearer to every wakeup_time, then schedule().
Tick ==
    /\ phase = "run" /\ intr
    /\ wakeup' = [t \in TCB |-> Sooner(wakeup[t])]
    /\ Schedule(state, "irq")
    /\ UNCHANGED <<current_thread, schedule_prev_thread, sleep_queue, kind, stack,
                   heap, lists, next_TORT_Position, PositionInTable, shell>>

Worker == phase = "run" /\ current_thread \notin {main, idle}

\* ThreadSleepMS / ThreadSleepSecond of a positive time (zero returns at once).
ThreadSleep ==
    /\ Worker
    /\ \E d \in 1..MaxSleep : wakeup' = [wakeup EXCEPT ![current_thread] = d]
    /\ sleep_queue' = sleep_enqueue(sleep_queue, current_thread)
    /\ Schedule([state EXCEPT ![current_thread] = "BLOCKED"], "sleep")
    /\ UNCHANGED <<current_thread, schedule_prev_thread, kind, stack, heap, lists,
                   next_TORT_Position, PositionInTable, shell>>

\* SYS_yield of a ring 3 thread: schedule() with interrupts masked by FMASK.
Yield ==
    /\ Worker
    /\ kind[current_thread] = "user"
    /\ Schedule(state, "yield")
    /\ UNCHANGED <<current_thread, schedule_prev_thread, sleep_queue, wakeup, kind,
                   stack, heap, lists, next_TORT_Position, PositionInTable, shell>>

\* thread_exit: the entry function returned, int 0x80, or SYS_exit.  The loop of
\* thread_test never returns.
ThreadExit ==
    /\ Worker
    /\ kind[current_thread] # "test"
    /\ sleep_queue' = Unlink(sleep_queue, current_thread)
    /\ Schedule([state EXCEPT ![current_thread] = "TERMINATED"], "exit")
    /\ UNCHANGED <<current_thread, schedule_prev_thread, wakeup, kind, stack, heap,
                   lists, next_TORT_Position, PositionInTable, shell>>

-----------------------------------------------------------------------------
\* The shell reads a command: the main thread, outside CleanAllThreads.
Shell == phase = "run" /\ current_thread = main /\ clean = TORT_SIZE

\* create_thread and create_user_thread take their block from here.
FromFreeList(k) == k # "user" /\ free_tcb_list[num_of_FreeTCB] # NULL

NewTCB(k) == IF FromFreeList(k) THEN {free_tcb_list[num_of_FreeTCB]} ELSE heap

TakeTCB_Kept(k) == UNCHANGED <<free_tcb_list, num_of_FreeTCB>>
TakeTCB(k) ==
    IF FromFreeList(k)
    THEN /\ free_tcb_list' = [free_tcb_list EXCEPT ![num_of_FreeTCB] = NULL]
         /\ num_of_FreeTCB' = num_of_FreeTCB - 1
    ELSE UNCHANGED <<free_tcb_list, num_of_FreeTCB>>

\* Both give the thread the next entry of TORT, whose entries are never reused.
EnterTable(t) ==
    IF next_TORT_Position < TORT_SIZE
    THEN /\ PositionInTable' = [PositionInTable EXCEPT ![t] = next_TORT_Position]
         /\ TORT' = [TORT EXCEPT ![next_TORT_Position] = t]
         /\ next_TORT_Position' = next_TORT_Position + 1
    ELSE /\ PositionInTable' = [PositionInTable EXCEPT ![t] = 0]
         /\ UNCHANGED <<TORT, next_TORT_Position>>

\* CreateKernelThread / create_thread / create_user_thread when memory suffices.
CreateThread ==
    /\ Shell
    /\ \E k \in Kinds : \E t \in NewTCB(k) :
         /\ TakeTCB(k)
         /\ heap' = heap \ {t}
         /\ kind' = [kind EXCEPT ![t] = k]
         /\ state' = [state EXCEPT ![t] = "READY"]
         /\ frame' = [frame EXCEPT ![t] = "new"]
         /\ wakeup' = [wakeup EXCEPT ![t] = 0]
         /\ stack' = stack \cup {t}
         /\ ready_queue' = thread_enqueue(ready_queue, t)
         /\ EnterTable(t)
         /\ test_thread' = IF k = "test" THEN t ELSE test_thread
    /\ intr' = TRUE
    /\ UNCHANGED <<current_thread, schedule_prev_thread, sleep_queue, phase, clean, victim>>

(***************************************************************************)
(* The two early returns: no block (the stack, allocated first, is lost),  *)
(* or no stack (the block goes back to the memory manager).  Neither turns *)
(* the interrupts on again.                                                *)
(***************************************************************************)
CreateThreadFails ==
    /\ Shell /\ OutOfMemory
    /\ \E k \in Kinds :
         /\ \/ ~FromFreeList(k) /\ UNCHANGED <<free_tcb_list, num_of_FreeTCB, heap, state>>
            \/ \E t \in NewTCB(k) :
                 /\ TakeTCB(k)
                 /\ heap' = heap \cup {t}
                 /\ state' = [state EXCEPT ![t] = "NONE"]
         /\ test_thread' = IF k = "test" THEN NULL ELSE test_thread
    /\ intr' = FALSE
    /\ UNCHANGED <<current_thread, schedule_prev_thread, ready_queue, sleep_queue,
                   frame, wakeup, kind, stack, TORT, next_TORT_Position,
                   PositionInTable, phase, clean, victim>>

\* The shell's KillTest.
KillTest ==
    /\ Shell
    /\ test_thread # NULL
    /\ StaleKill \/ Live(test_thread)
    /\ KillThread(test_thread)
    /\ intr' = TRUE
    /\ UNCHANGED <<current_thread, schedule_prev_thread, frame, wakeup, kind, heap,
                   next_TORT_Position, PositionInTable, phase, shell>>

(***************************************************************************)
(* SYSTEM_SHUTDOWN / SYSTEM_REBOOT begin with CleanAllThreads; when the    *)
(* machine does not power off they return to the shell with interrupts on. *)
(* The loop reads a table entry with interrupts on and kills it later.     *)
(***************************************************************************)
CleanAllThreads ==
    /\ Shell /\ Shutdown
    /\ clean' = 0
    /\ UNCHANGED <<current_thread, schedule_prev_thread, ready_queue, sleep_queue,
                   state, frame, wakeup, kind, stack, heap, lists,
                   next_TORT_Position, PositionInTable, intr, phase, test_thread, victim>>

SkipEntry_Sleeping(t) == t \in {NULL, idle} \/ state[t] = "BLOCKED"
SkipEntry(t) == t \in {NULL, idle}

CleanRead ==
    /\ phase = "run" /\ current_thread = main
    /\ clean < TORT_SIZE /\ victim = NULL
    /\ IF SkipEntry(TORT[clean])
       THEN clean' = clean + 1 /\ UNCHANGED victim
       ELSE victim' = TORT[clean] /\ UNCHANGED clean
    /\ UNCHANGED <<current_thread, schedule_prev_thread, ready_queue, sleep_queue,
                   state, frame, wakeup, kind, stack, heap, lists,
                   next_TORT_Position, PositionInTable, intr, phase, test_thread>>

CleanKill ==
    /\ phase = "run" /\ current_thread = main
    /\ clean < TORT_SIZE /\ victim # NULL
    /\ KillThread(victim)
    /\ clean' = clean + 1
    /\ victim' = NULL
    /\ intr' = TRUE
    /\ UNCHANGED <<current_thread, schedule_prev_thread, frame, wakeup, kind, heap,
                   next_TORT_Position, PositionInTable, phase, test_thread>>

-----------------------------------------------------------------------------
Kernel == Tick \/ WakeSleeping \/ SwitchTo \/ ScheduleTail

ThreadCode == ThreadSleep \/ Yield \/ ThreadExit

ShellCode == \/ CreateThread \/ CreateThreadFails \/ KillTest
             \/ CleanAllThreads \/ CleanRead \/ CleanKill

Next == Kernel \/ ThreadCode \/ ShellCode

Spec == Init /\ [][Next]_vars

-----------------------------------------------------------------------------
(***************************************************************************)
(* Properties.                                                             *)
(***************************************************************************)
States == {"NONE", "READY", "RUNNING", "BLOCKED", "TERMINATED"}
Frames == {"new", "run", "irq", "sleep", "yield", "call", "exit"}

\* Every variable of Thread.c keeps its type; the index of the free list stays in
\* the range KillThread's guard allows.
TypeOK ==
    /\ current_thread \in TCB
    /\ schedule_prev_thread \in TCB \cup {NULL}
    /\ ready_queue \in Seq(TCB)
    /\ sleep_queue \in Seq(TCB)
    /\ state \in [TCB -> States]
    /\ frame \in [TCB -> Frames]
    /\ wakeup \in [TCB -> 0..MaxSleep]
    /\ kind \in [TCB -> {"main", "idle", "test", "task", "user"}]
    /\ stack \subseteq TCB
    /\ heap \subseteq TCB
    /\ free_tcb_list \in [0..FREE_TCB_LIST_SIZE -> TCB \cup {NULL}]
    /\ num_of_FreeTCB \in 0..FREE_TCB_LIST_SIZE
    /\ TORT \in [0..(TORT_SIZE-1) -> TCB \cup {NULL}]
    /\ next_TORT_Position \in 1..TORT_SIZE
    /\ PositionInTable \in [TCB -> 0..(TORT_SIZE-1)]
    /\ intr \in BOOLEAN
    /\ phase \in {"run", "wake", "tail"}
    /\ test_thread \in TCB \cup {NULL}
    /\ clean \in 0..TORT_SIZE
    /\ victim \in TCB \cup {NULL}

InQueue(q, t) == \E k \in 1..Len(q) : q[k] = t

NoRepeat(q) == \A i, j \in 1..Len(q) : i # j => q[i] # q[j]

\* All queues share the one link thread_t.next, so a thread may stand in at most
\* one of them and once: each READY thread is in the ready queue exactly once,
\* each BLOCKED one in the sleep queue exactly once, no other thread is queued,
\* and only current_thread is RUNNING.
QueueOwnership ==
    /\ NoRepeat(ready_queue)
    /\ NoRepeat(sleep_queue)
    /\ \A t \in TCB :
         /\ InQueue(ready_queue, t) <=> state[t] = "READY"
         /\ InQueue(sleep_queue, t) <=> state[t] = "BLOCKED"
         /\ state[t] = "RUNNING" => t = current_thread
    /\ phase # "wake" => state[current_thread] = "RUNNING"

\* schedule() always finds a thread to dequeue: its fallback to the kernel thread,
\* which would run a thread that is asleep or already queued, is never taken.
NoFallback == phase = "wake" => ready_queue # <<>>

\* The stack under the running code is never given back to the memory manager, not
\* even between thread_exit and the end of the switch, and neither is the stack
\* of a thread that will run again.
StackSafety ==
    /\ current_thread \in stack
    /\ \A t \in TCB : Live(t) => t \in stack

FreeSlots == 1..num_of_FreeTCB

\* What create_thread may recycle is really unused: a block on the free list is
\* there once, is dead, has no stack, is not about to be buried again and is not
\* listed in TORT.
FreeBlocksUnused ==
    /\ \A i, j \in FreeSlots : i # j => free_tcb_list[i] # free_tcb_list[j]
    /\ \A i \in FreeSlots :
         /\ free_tcb_list[i] \in TCB
         /\ state[free_tcb_list[i]] = "TERMINATED"
         /\ free_tcb_list[i] \notin stack
         /\ free_tcb_list[i] \notin heap
         /\ phase = "tail" => free_tcb_list[i] # schedule_prev_thread
         /\ \A p \in 0..(TORT_SIZE-1) : TORT[p] # free_tcb_list[i]

\* A thread listed in TORT is listed where its PositionInTable says, so KillThread
\* clears the entry of the thread it kills.
TableAgrees ==
    \A p \in 0..(TORT_SIZE-1) : TORT[p] # NULL => PositionInTable[TORT[p]] = p

AtPrompt == phase = "run" /\ current_thread = main

\* ThreadLs lists the threads that can still run, every one of them and no other.
ThreadLsExact ==
    AtPrompt =>
        /\ \A t \in TCB \ {main} : Live(t) => \E p \in 0..(TORT_SIZE-1) : TORT[p] = t
        /\ \A p \in 0..(TORT_SIZE-1) : TORT[p] # NULL => Live(TORT[p])

\* A dead thread never runs again: its block leaves TERMINATED only through the
\* memory manager or through the free list, and then as a new thread.
DeadStaysDead ==
    [][\A t \in TCB : state[t] = "TERMINATED" /\ state'[t] # "TERMINATED" =>
          /\ \E i \in FreeSlots : free_tcb_list[i] = t
          /\ state'[t] = "NONE" \/ frame'[t] = "new"]_vars

\* When CleanAllThreads is over, no thread but main and idle is left alive.
CleanIsComplete ==
    [][clean # TORT_SIZE /\ clean' = TORT_SIZE =>
          \A t \in TCB \ {main, idle} : ~Live(t)']_vars

\* A thread that is READY eventually gets the processor (or is killed).
EveryReadyThreadRuns ==
    \A t \in TCB : state[t] = "READY" ~> state[t] \in {"RUNNING", "TERMINATED"}

\* A sleeping thread is eventually woken (or killed).
EverySleeperWakes ==
    \A t \in TCB : InQueue(sleep_queue, t) ~> state[t] \in {"READY", "TERMINATED"}
=============================================================================
