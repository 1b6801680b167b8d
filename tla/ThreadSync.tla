----------------------------- MODULE ThreadSync -----------------------------
(***************************************************************************)
(* The blocking primitives of Kernel/kernel/Thread.c, one mutex_t and one  *)
(* semaphore_t, on top of the scheduler of Threads.  Both functions that   *)
(* block test, queue the caller and call schedule() in a loop, relying on  *)
(* interrupts being off all along; the loop is therefore cut into its      *)
(* statements, so that the timer can come between them whenever interrupts *)
(* are in fact on.                                                         *)
(***************************************************************************)
EXTENDS Threads

CONSTANTS
    SemInit,       \* the value given to sem_init
    MaxCount,      \* largest semaphore count (bound)
    MaxDepth,      \* how often a thread locks the mutex it holds (bound)
    Exiting        \* may threads exit while others use the primitives?

ASSUME SyncAssumption ==
    /\ SemInit \in Nat /\ MaxCount \in Nat \ {0} /\ MaxDepth \in Nat \ {0}
    /\ Exiting \in BOOLEAN
    /\ IsFiniteSet(TCB)

VARIABLES
    locked, owner, mutex_queue,    \* mutex_t
    count, sem_queue,              \* semaphore_t
    pc,      \* where a thread is in mutex_lock ("lock": the while test,
             \* "lockq": marked BLOCKED, "lockset": loop left) or in sem_wait
             \* ("sem", "semq", "semdec"); "none" outside
    depth    \* history: mutex_lock calls not yet undone by mutex_unlock

mutex == <<locked, owner, mutex_queue>>
sem == <<count, sem_queue>>
sync == <<mutex, sem, pc, depth>>
syncVars == <<vars, sync>>

SyncInit ==
    /\ Init
    /\ locked = FALSE /\ owner = NULL /\ mutex_queue = <<>>
    /\ count = SemInit /\ sem_queue = <<>>
    /\ pc = [t \in TCB |-> "none"]
    /\ depth = [t \in TCB |-> 0]

\* The caller runs and has reached label l; its next statement touches nothing of
\* the scheduler but the interrupt flag.
At(l) == Worker /\ pc[current_thread] = l

Goto(l) == pc' = [pc EXCEPT ![current_thread] = l]

KeepScheduler ==
    UNCHANGED <<current_thread, schedule_prev_thread, ready_queue, sleep_queue, state,
                frame, wakeup, kind, stack, heap, lists, next_TORT_Position,
                PositionInTable, phase, shell>>

\* current_thread->state = THREAD_BLOCKED
Block ==
    /\ state' = [state EXCEPT ![current_thread] = "BLOCKED"]
    /\ UNCHANGED <<current_thread, schedule_prev_thread, ready_queue, sleep_queue,
                   frame, wakeup, kind, stack, heap, lists, next_TORT_Position,
                   PositionInTable, intr, phase, shell>>

\* schedule() from one of the two loops; interrupts stay as the frame keeps them.
Wait ==
    /\ Schedule(state, "call")
    /\ UNCHANGED <<current_thread, schedule_prev_thread, sleep_queue, wakeup, kind,
                   stack, heap, lists, next_TORT_Position, PositionInTable, shell>>

\* Waking the head of a wait queue q: thread_dequeue_wait / sem_dequeue_wait, then
\* thread_enqueue.  Used with interrupts off, which end up on.
WakeHead_Lost(q) ==
    /\ UNCHANGED <<state, ready_queue>>
    /\ intr' = TRUE
WakeHead(q) ==
    /\ IF q = <<>>
       THEN UNCHANGED <<state, ready_queue>>
       ELSE /\ state' = [state EXCEPT ![Head(q)] = "READY"]
            /\ ready_queue' = thread_enqueue(ready_queue, Head(q))
    /\ intr' = TRUE

Rest(q) == IF q = <<>> THEN <<>> ELSE Tail(q)

KeepSchedulerButReady ==
    UNCHANGED <<current_thread, schedule_prev_thread, sleep_queue, frame, wakeup, kind,
                stack, heap, lists, next_TORT_Position, PositionInTable, phase, shell>>

-----------------------------------------------------------------------------
\* mutex_lock: a second lock by the owner returns at once and counts nothing.
MutexLock ==
    /\ At("none")
    /\ depth[current_thread] < MaxDepth
    /\ IF owner = current_thread
       THEN /\ intr' = TRUE
            /\ depth' = [depth EXCEPT ![current_thread] = @ + 1]
            /\ UNCHANGED pc
       ELSE /\ intr' = FALSE
            /\ Goto("lock")
            /\ UNCHANGED depth
    /\ KeepScheduler /\ UNCHANGED <<mutex, sem>>

MustWait_Never == FALSE
MustWait == locked

LockTest ==
    /\ At("lock")
    /\ IF MustWait
       THEN Block /\ Goto("lockq")
       ELSE KeepScheduler /\ UNCHANGED intr /\ Goto("lockset")
    /\ UNCHANGED <<mutex, sem, depth>>

LockWait ==
    /\ At("lockq")
    /\ mutex_queue' = Append(mutex_queue, current_thread)
    /\ Wait
    /\ Goto("lock")
    /\ UNCHANGED <<locked, owner, sem, depth>>

LockSet ==
    /\ At("lockset")
    /\ locked' = TRUE
    /\ owner' = current_thread
    /\ intr' = TRUE
    /\ Goto("none")
    /\ depth' = [depth EXCEPT ![current_thread] = @ + 1]
    /\ KeepScheduler /\ UNCHANGED <<mutex_queue, sem>>

\* mutex_unlock by a thread that has locked; only the owner releases.
MutexUnlock ==
    /\ At("none")
    /\ depth[current_thread] > 0
    /\ depth' = [depth EXCEPT ![current_thread] = @ - 1]
    /\ IF owner = current_thread
       THEN /\ locked' = FALSE
            /\ owner' = NULL
            /\ WakeHead(mutex_queue)
            /\ mutex_queue' = Rest(mutex_queue)
       ELSE /\ intr' = TRUE
            /\ UNCHANGED <<state, ready_queue, mutex>>
    /\ KeepSchedulerButReady /\ UNCHANGED <<sem, pc>>

-----------------------------------------------------------------------------
SemWait ==
    /\ At("none")
    /\ intr' = FALSE
    /\ Goto("sem")
    /\ KeepScheduler /\ UNCHANGED <<mutex, sem, depth>>

Exhausted_Late == count < 0
Exhausted == count <= 0

SemTest ==
    /\ At("sem")
    /\ IF Exhausted
       THEN Block /\ Goto("semq")
       ELSE KeepScheduler /\ UNCHANGED intr /\ Goto("semdec")
    /\ UNCHANGED <<mutex, sem, depth>>

SemQueue ==
    /\ At("semq")
    /\ sem_queue' = Append(sem_queue, current_thread)
    /\ Wait
    /\ Goto("sem")
    /\ UNCHANGED <<mutex, count, depth>>

SemTake ==
    /\ At("semdec")
    /\ count' = count - 1
    /\ intr' = TRUE
    /\ Goto("none")
    /\ KeepScheduler /\ UNCHANGED <<mutex, sem_queue, depth>>

SemPost ==
    /\ At("none")
    /\ count < MaxCount
    /\ count' = count + 1
    /\ WakeHead(sem_queue)
    /\ sem_queue' = Rest(sem_queue)
    /\ KeepSchedulerButReady /\ UNCHANGED <<mutex, pc, depth>>

-----------------------------------------------------------------------------
\* What a thread does outside the primitives.
ElseWhere == At("none") /\ (ThreadSleep \/ (Exiting /\ ThreadExit))

\* A thread starts with a zeroed block and a new stack.
Start ==
    /\ CreateThread
    /\ pc' = [t \in TCB |-> IF frame'[t] = "new" THEN "none" ELSE pc[t]]
    /\ depth' = [t \in TCB |-> IF frame'[t] = "new" THEN 0 ELSE depth[t]]
    /\ UNCHANGED <<mutex, sem>>

Locking == LockTest \/ LockWait \/ LockSet
SemLoop == SemTest \/ SemQueue \/ SemTake
Primitives == MutexLock \/ Locking \/ MutexUnlock \/ SemWait \/ SemLoop \/ SemPost

SyncNext == \/ (Kernel \/ ElseWhere) /\ UNCHANGED sync
            \/ Start
            \/ Primitives

SyncSpec == SyncInit /\ [][SyncNext]_syncVars

\* The PIT keeps firing; schedule(), once entered, runs to its end; a thread that
\* runs inside one of the loops goes on.  The shell and the threads promise
\* nothing else.  The timer needs strong fairness, since the primitives turn
\* interrupts off and on for ever: the interrupt controller keeps the request
\* until they are on.
SyncFairSpec ==
    /\ SyncSpec
    /\ SF_syncVars(Tick /\ UNCHANGED sync)
    /\ WF_syncVars((WakeSleeping \/ SwitchTo \/ ScheduleTail) /\ UNCHANGED sync)
    /\ WF_syncVars(Locking \/ SemLoop)

-----------------------------------------------------------------------------
\* At most one thread is between mutex_lock and the matching mutex_unlock.
MutualExclusion == \A t, u \in TCB : depth[t] > 0 /\ depth[u] > 0 => t = u

Woken(l) == {t \in TCB : pc[t] \in l /\ state[t] \in {"READY", "RUNNING"}}

\* A free mutex with waiters has a thread on its way to take it.
NoLostUnlock ==
    ~locked /\ mutex_queue # <<>> => Woken({"lock", "lockset"}) # {}

\* The semaphore gives out no unit it does not have; and while threads wait, every
\* unit it has is on its way to a woken thread.
NoLostPost ==
    /\ count >= 0
    /\ sem_queue # <<>> => Cardinality(Woken({"sem", "semdec"})) >= count

\* A mutex somebody wants does not stay free.
FreeMutexIsTaken ==
    (~locked /\ \E t \in TCB : pc[t] \in {"lock", "lockq", "lockset"}) ~> locked
=============================================================================
