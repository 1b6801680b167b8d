-------------------------- MODULE ThreadSyncProofs --------------------------
(***************************************************************************)
(* The mutex and the semaphore for every number of threads: while no       *)
(* thread exits, and none locks a mutex it holds, one thread at a time     *)
(* owns the mutex, and no unlock and no unit of the semaphore is lost.     *)
(***************************************************************************)
EXTENDS ThreadSync, ThreadsProofs, FiniteSetTheorems

\* What the primitives need of the threads that use them.  A thread that exits is buried
\* inside somebody's schedule(), which turns interrupts on; a nested lock is not counted.
Disciplined == ~Exiting /\ MaxDepth = 1

Labels == {"none", "lock", "lockq", "lockset", "sem", "semq", "semdec"}

SyncTypes ==
    /\ locked \in BOOLEAN
    /\ owner \in TCB \cup {NULL}
    /\ mutex_queue \in Seq(TCB)
    /\ sem_queue \in Seq(TCB)
    /\ count \in Int
    /\ pc \in [TCB -> Labels]
    /\ depth \in [TCB -> Nat]

\* The caller has marked itself BLOCKED and is about to queue itself.
Entering == phase = "run" /\ pc[current_thread] \in {"lockq", "semq"}

\* Nobody dies; what is not a thread yet never was one.
AliveInv ==
    /\ num_of_FreeTCB = 0
    /\ \A t \in TCB : state[t] # "TERMINATED"
    /\ \A t \in heap : state[t] = "NONE" /\ frame[t] = "new"

\* The four queues share the link thread_t.next: no thread is in two of them.
LinkInv ==
    /\ NoRepeat(ready_queue) /\ NoRepeat(sleep_queue) /\ NoRepeat(mutex_queue) /\ NoRepeat(sem_queue)
    /\ \A t \in TCB :
         /\ InQueue(ready_queue, t) <=> state[t] = "READY"
         /\ InQueue(sleep_queue, t) => state[t] = "BLOCKED" /\ pc[t] = "none"
         /\ InQueue(mutex_queue, t) => state[t] = "BLOCKED" /\ pc[t] = "lock"
         /\ InQueue(sem_queue, t) => state[t] = "BLOCKED" /\ pc[t] = "sem"
         /\ state[t] = "RUNNING" => t = current_thread
    /\ phase = "wake" => state[current_thread] # "RUNNING"
    /\ phase # "wake" => state[current_thread] = IF Entering THEN "BLOCKED" ELSE "RUNNING"
    /\ state[main] \in {"READY", "RUNNING"}

\* Inside the loops interrupts are off, so their steps are not cut by the timer: a thread
\* that is switched out there resumes behind its own call of schedule().  The shell's
\* thread uses neither primitive.
LoopInv ==
    /\ pc[main] = "none"
    /\ phase = "run" => frame[current_thread] = "run" /\ (pc[current_thread] # "none" => ~intr)
    /\ \A t \in TCB :
         /\ pc[t] \in {"lockq", "lockset", "semq", "semdec"} => t = current_thread /\ phase = "run"
         /\ pc[t] # "none" => frame[t] = "call" \/ (t = current_thread /\ phase = "run")
         /\ frame[t] = "new" => pc[t] = "none" /\ owner # t

\* The lock word, its owner and the calls of the threads agree.
MutexInv ==
    /\ locked <=> owner # NULL
    /\ \A t \in TCB : depth[t] = IF owner = t THEN 1 ELSE 0
    /\ \A t \in TCB : pc[t] = "lockset" => ~locked
    /\ \A t \in TCB : pc[t] = "lockq" => locked
    /\ NoLostUnlock

\* A thread between the test of the count and its use finds it as it was.
SemInv ==
    /\ \A t \in TCB : pc[t] = "semdec" => count > 0
    /\ \A t \in TCB : pc[t] = "semq" => count = 0
    /\ NoLostPost

Sound == AliveInv /\ LinkInv /\ LoopInv /\ MutexInv /\ SemInv

SyncInv == TypeInv /\ SyncTypes /\ (Disciplined => Sound)

-----------------------------------------------------------------------------
LEMMA SyncInitInv == SyncInit => SyncInv
  <1> SUFFICES ASSUME SyncInit PROVE SyncInv
    OBVIOUS
  <1> USE ThreadsAssumption, SyncAssumption
  <1>1. TypeInv /\ Init
    BY InitTypeInv DEF SyncInit
  <1>2. locked \in BOOLEAN
    BY Zenon DEF SyncInit
  <1>3. SyncTypes
    BY <1>2 DEF SyncInit, SyncTypes, Labels
  <1>4. AliveInv
    BY <1>1 DEF Init, AliveInv
  <1>5. LinkInv
    <2>1. /\ ready_queue = <<idle>> /\ sleep_queue = <<>> /\ mutex_queue = <<>> /\ sem_queue = <<>>
          /\ current_thread = main /\ phase = "run" /\ pc = [t \in TCB |-> "none"]
          /\ state = [t \in TCB |-> IF t = main THEN "RUNNING" ELSE IF t = idle THEN "READY" ELSE "NONE"]
      BY <1>1 DEF SyncInit, Init
    <2> QED
      BY <2>1 DEF LinkInv, NoRepeat, InQueue, Entering
  <1>6. LoopInv
    BY <1>1 DEF Init, SyncInit, LoopInv
  <1>7. MutexInv
    BY DEF SyncInit, MutexInv, NoLostUnlock
  <1>8. SemInv
    BY DEF SyncInit, SemInv, NoLostPost
  <1> QED
    BY <1>1, <1>3, <1>4, <1>5, <1>6, <1>7, <1>8 DEF SyncInv, Sound

-----------------------------------------------------------------------------
\* Types: the steps of the scheduler are known, those of the primitives follow.
LEMMA WakeTypes ==
    ASSUME TypeInv, NEW q \in Seq(TCB), WakeHead(q), KeepSchedulerButReady
    PROVE  TypeInv' /\ Rest(q) \in Seq(TCB)
  <1>1. Rest(q) \in Seq(TCB) /\ (q # <<>> => Head(q) \in TCB)
    BY DequeueFacts DEF Rest
  <1>2. state' \in [TCB -> States] /\ ready_queue' \in Seq(TCB)
    BY ZenonT(60), <1>1, EnqueueFacts DEF WakeHead, thread_enqueue, TypeInv, TypeOK, States
  <1>3. intr' \in BOOLEAN
    BY Zenon DEF WakeHead
  <1>4. UNCHANGED <<current_thread, schedule_prev_thread, sleep_queue, frame, wakeup, kind,
                    stack, heap, free_tcb_list, num_of_FreeTCB, TORT, next_TORT_Position,
                    PositionInTable, phase, test_thread, clean, victim>>
    BY DEF KeepSchedulerButReady, lists, shell
  <1> QED
    BY <1>1, <1>2, <1>3, <1>4 DEF TypeInv, TypeOK

LEMMA BlockTypes == TypeInv /\ Block => TypeInv'
  <1> SUFFICES ASSUME TypeInv, Block PROVE TypeInv'
    OBVIOUS
  <1>1. state' \in [TCB -> States]
    BY DEF Block, TypeInv, TypeOK, States
  <1>2. intr' \in BOOLEAN
    BY Zenon DEF Block, TypeInv, TypeOK
  <1> QED
    BY <1>1, <1>2 DEF Block, lists, shell, TypeInv, TypeOK

LEMMA WaitTypes == TypeInv /\ Wait => TypeInv'
  <1> SUFFICES ASSUME TypeInv, Wait PROVE TypeInv'
    OBVIOUS
  <1>1. state \in [TCB -> States] /\ "call" \in Frames
    BY DEF TypeInv, TypeOK, Frames
  <1>2. /\ state' \in [TCB -> States] /\ frame' \in [TCB -> Frames]
        /\ ready_queue' \in Seq(TCB) /\ phase' = "wake" /\ intr' \in BOOLEAN
    BY <1>1, ScheduleTypes DEF Wait, TypeInv
  <1> QED
    BY <1>2 DEF Wait, lists, shell, TypeInv, TypeOK

LEMMA KeepTypes == TypeInv /\ KeepScheduler /\ intr' \in BOOLEAN => TypeInv'
  BY DEF KeepScheduler, lists, shell, TypeInv, TypeOK

LEMMA PrimitiveTypes == TypeInv /\ SyncTypes /\ Primitives => TypeInv' /\ SyncTypes'
  <1> SUFFICES ASSUME TypeInv, SyncTypes, Primitives PROVE TypeInv' /\ SyncTypes'
    OBVIOUS
  <1> USE ThreadsAssumption, SyncAssumption
  <1>0. current_thread \in TCB /\ intr \in BOOLEAN
    BY DEF TypeInv, TypeOK
  <1>1. ASSUME NEW l \in Labels, Goto(l) PROVE pc' \in [TCB -> Labels]
    BY <1>1 DEF Goto, SyncTypes
  <1>2. {"none", "lock", "lockq", "lockset", "sem", "semq", "semdec"} \subseteq Labels
    BY DEF Labels
  <1>3. CASE MutexLock
    <2>1. intr' \in BOOLEAN
      BY <1>3, Zenon DEF MutexLock
    <2>2. pc' \in [TCB -> Labels]
      BY <1>1, <1>2, <1>3 DEF MutexLock, SyncTypes
    <2>3. depth' \in [TCB -> Nat]
      <3>1. depth' = [depth EXCEPT ![current_thread] = @ + 1] \/ depth' = depth
        BY <1>3, Zenon DEF MutexLock
      <3>2. depth \in [TCB -> Nat]
        BY DEF SyncTypes
      <3> QED
        BY ONLY <1>0, <3>1, <3>2
    <2>4. KeepScheduler /\ UNCHANGED <<mutex, sem>>
      BY <1>3 DEF MutexLock
    <2> QED
      BY <2>1, <2>2, <2>3, <2>4, KeepTypes DEF SyncTypes, mutex, sem
  <1>4. CASE LockTest \/ SemTest
    <2>1. TypeInv'
      BY <1>0, <1>4, BlockTypes, KeepTypes DEF LockTest, SemTest
    <2>2. pc' \in [TCB -> Labels] /\ UNCHANGED <<mutex, sem, depth>>
      BY <1>1, <1>2, <1>4 DEF LockTest, SemTest
    <2> QED
      BY <2>1, <2>2 DEF SyncTypes, mutex, sem
  <1>5. CASE LockWait \/ SemQueue
    <2>1. TypeInv'
      BY <1>5, WaitTypes DEF LockWait, SemQueue
    <2>2. pc' \in [TCB -> Labels]
      BY <1>1, <1>2, <1>5 DEF LockWait, SemQueue
    <2>3. UNCHANGED <<locked, owner, count, depth>>
      BY <1>5 DEF LockWait, SemQueue, mutex, sem
    <2>4. mutex_queue' \in Seq(TCB) /\ sem_queue' \in Seq(TCB)
      <3>1. /\ Append(mutex_queue, current_thread) \in Seq(TCB) /\ Append(sem_queue, current_thread) \in Seq(TCB)
            /\ mutex_queue \in Seq(TCB) /\ sem_queue \in Seq(TCB)
        BY <1>0, EnqueueFacts DEF SyncTypes
      <3>2. \/ mutex_queue' = Append(mutex_queue, current_thread) /\ sem_queue' = sem_queue
            \/ sem_queue' = Append(sem_queue, current_thread) /\ mutex_queue' = mutex_queue
        BY <1>5 DEF LockWait, SemQueue, mutex, sem
      <3> QED
        BY <3>1, <3>2
    <2> QED
      BY <2>1, <2>2, <2>3, <2>4 DEF SyncTypes
  <1>6. CASE LockSet
    <2>1. intr' \in BOOLEAN /\ locked' \in BOOLEAN
      BY <1>6, Zenon DEF LockSet
    <2>2. pc' \in [TCB -> Labels] /\ depth' \in [TCB -> Nat]
      BY <1>0, <1>1, <1>2, <1>6 DEF LockSet, SyncTypes
    <2>3. KeepScheduler /\ owner' \in TCB /\ UNCHANGED <<mutex_queue, count, sem_queue>>
      BY <1>0, <1>6 DEF LockSet, sem
    <2> QED
      BY <2>1, <2>2, <2>3, KeepTypes DEF SyncTypes
  <1>7. CASE MutexUnlock
    <2>1. pc' \in [TCB -> Labels] /\ depth' \in [TCB -> Nat] /\ UNCHANGED sem
      BY <1>0, <1>7 DEF MutexUnlock, SyncTypes
    <2>2. CASE owner = current_thread
      <3>1. locked' \in BOOLEAN
        BY <1>7, <2>2, Zenon DEF MutexUnlock
      <3>2. owner' = NULL /\ TypeInv' /\ mutex_queue' \in Seq(TCB)
        BY <1>7, <2>2, WakeTypes DEF MutexUnlock, SyncTypes
      <3> QED
        BY <2>1, <3>1, <3>2 DEF SyncTypes, sem
    <2>3. CASE owner # current_thread
      <3>1. intr' \in BOOLEAN
        BY <1>7, <2>3, Zenon DEF MutexUnlock
      <3>2. KeepScheduler /\ UNCHANGED mutex
        BY <1>7, <2>3 DEF MutexUnlock, KeepSchedulerButReady, KeepScheduler
      <3> QED
        BY <2>1, <3>1, <3>2, KeepTypes DEF SyncTypes, sem, mutex
    <2> QED
      BY <2>2, <2>3
  <1>8. CASE SemWait \/ SemTake
    <2>1. intr' \in BOOLEAN
      BY <1>8, Zenon DEF SemWait, SemTake
    <2>2. pc' \in [TCB -> Labels]
      BY <1>1, <1>2, <1>8 DEF SemWait, SemTake
    <2>3. KeepScheduler /\ UNCHANGED <<locked, owner, mutex_queue, sem_queue, depth>> /\ count' \in Int
      BY <1>8 DEF SemWait, SemTake, mutex, sem, SyncTypes
    <2> QED
      BY <2>1, <2>2, <2>3, KeepTypes DEF SyncTypes
  <1>9. CASE SemPost
    <2>1. TypeInv' /\ sem_queue' \in Seq(TCB)
      BY <1>9, WakeTypes DEF SemPost, SyncTypes
    <2> QED
      BY <1>9, <2>1 DEF SemPost, SyncTypes, mutex
  <1> QED
    BY <1>3, <1>4, <1>5, <1>6, <1>7, <1>8, <1>9 DEF Primitives, Locking, SemLoop

LEMMA SyncNextTypes == TypeInv /\ SyncTypes /\ [SyncNext]_syncVars => TypeInv' /\ SyncTypes'
  <1> SUFFICES ASSUME TypeInv, SyncTypes, [SyncNext]_syncVars PROVE TypeInv' /\ SyncTypes'
    OBVIOUS
  <1>1. UNCHANGED sync => SyncTypes'
    BY DEF SyncTypes, sync, mutex, sem
  <1>2. CASE (Kernel \/ ElseWhere) /\ UNCHANGED sync
    BY <1>1, <1>2, KernelTypes, ThreadCodeTypes DEF ElseWhere, ThreadCode
  <1>3. CASE Start
    <2>1. TypeInv'
      BY <1>3, ShellCodeTypes DEF Start, ShellCode
    <2>2. pc' \in [TCB -> Labels] /\ depth' \in [TCB -> Nat] /\ UNCHANGED <<mutex, sem>>
      BY <1>3 DEF Start, SyncTypes, Labels
    <2> QED
      BY <2>1, <2>2 DEF SyncTypes, mutex, sem
  <1>4. CASE UNCHANGED syncVars
    BY <1>1, <1>4, StutterTypes DEF syncVars
  <1> QED
    BY <1>2, <1>3, <1>4, PrimitiveTypes DEF SyncNext

-----------------------------------------------------------------------------
(***************************************************************************)
(* The steps of the scheduler.                                             *)
(***************************************************************************)

\* A step that leaves the primitives alone and keeps awake who is awake in one of them.
LEMMA KeepsWoken ==
    ASSUME SyncTypes, MutexInv, SemInv, UNCHANGED sync,
           \A t \in TCB : pc[t] # "none" /\ state[t] \in {"READY", "RUNNING"}
                             => state'[t] \in {"READY", "RUNNING"}
    PROVE  MutexInv' /\ SemInv'
  <1> USE DEF sync, mutex, sem
  <1>1. Woken({"lock", "lockset"}) \subseteq Woken({"lock", "lockset"})'
    BY DEF Woken
  <1>2. Woken({"sem", "semdec"}) \subseteq Woken({"sem", "semdec"})'
    BY DEF Woken
  <1>3. Woken({"sem", "semdec"})' \subseteq TCB
    BY DEF Woken
  <1>4. IsFiniteSet(Woken({"sem", "semdec"})')
    BY <1>3, SyncAssumption, FS_Subset
  <1>5. /\ Cardinality(Woken({"sem", "semdec"})') \in Nat
        /\ Cardinality(Woken({"sem", "semdec"})) \in Nat
        /\ Cardinality(Woken({"sem", "semdec"})) <= Cardinality(Woken({"sem", "semdec"})')
    BY <1>2, <1>4, FS_Subset, FS_CardinalityType
  <1>6. MutexInv'
    <2>1. NoLostUnlock'
      BY <1>1 DEF MutexInv, NoLostUnlock
    <2> QED
      BY <2>1 DEF MutexInv
  <1>7. SemInv'
    <2>1. NoLostPost'
      BY <1>5 DEF SemInv, NoLostPost, SyncTypes
    <2> QED
      BY <2>1 DEF SemInv
  <1> QED
    BY <1>6, <1>7

LEMMA TickSound == TypeInv /\ SyncTypes /\ Sound /\ Tick /\ UNCHANGED sync => Sound'
  <1> SUFFICES ASSUME TypeInv, SyncTypes, Sound, Tick, UNCHANGED sync PROVE Sound'
    OBVIOUS
  <1> USE ThreadsAssumption
  <1> DEFINE c == current_thread
  <1>1. /\ phase = "run" /\ c \in TCB /\ pc[c] = "none" /\ state[c] = "RUNNING"
    BY DEF Tick, Sound, LoopInv, LinkInv, Entering, TypeInv, TypeOK
  <1>2. /\ state' = [state EXCEPT ![c] = "READY"]
        /\ ready_queue' = Append(ready_queue, c)
        /\ frame' = [frame EXCEPT ![c] = "irq"]
        /\ phase' = "wake" /\ UNCHANGED <<current_thread, sleep_queue, heap, num_of_FreeTCB>>
    BY <1>1 DEF Tick, Schedule, StillRunning, thread_enqueue, lists
  <1>3. /\ state'[c] = "READY" /\ \A x \in TCB : x # c => state'[x] = state[x]
        /\ frame'[c] = "irq" /\ \A x \in TCB : x # c => frame'[x] = frame[x]
    BY <1>1, <1>2 DEF TypeInv, TypeOK
  <1>4. UNCHANGED <<mutex_queue, sem_queue, pc, owner>>
    BY DEF sync, mutex, sem
  <1>5. AliveInv'
    BY SMTT(30), <1>1, <1>2, <1>3 DEF Sound, AliveInv, TypeInv, TypeOK
  <1>6. NoRepeat(ready_queue') /\ \A x : InQueue(ready_queue', x) <=> InQueue(ready_queue, x) \/ x = c
    BY <1>1, <1>2, EnqueueFacts DEF Sound, LinkInv, TypeInv, TypeOK
  <1>7. LinkInv'
    BY <1>1, <1>2, <1>3, <1>4, <1>6 DEF Sound, LinkInv
  <1>8. LoopInv'
    BY <1>1, <1>2, <1>3, <1>4 DEF Sound, LoopInv
  <1>9. MutexInv' /\ SemInv'
    BY <1>1, <1>3, KeepsWoken DEF Sound
  <1> QED
    BY <1>5, <1>7, <1>8, <1>9 DEF Sound

LEMMA WakeSound == TypeInv /\ SyncTypes /\ Sound /\ WakeSleeping /\ UNCHANGED sync => Sound'
  <1> SUFFICES ASSUME TypeInv, SyncTypes, Sound, WakeSleeping, UNCHANGED sync PROVE Sound'
    OBVIOUS
  <1> USE ThreadsAssumption
  <1>1. PICK k \in 1..Len(sleep_queue) :
             /\ sleep_queue' = RemoveAt(sleep_queue, k)
             /\ ready_queue' = Append(ready_queue, sleep_queue[k])
             /\ state' = [state EXCEPT ![sleep_queue[k]] = "READY"]
    BY DEF WakeSleeping, thread_enqueue
  <1> DEFINE t == sleep_queue[k]
  <1>2. /\ phase = "wake" /\ UNCHANGED <<current_thread, phase, frame, heap, num_of_FreeTCB>>
        /\ UNCHANGED <<mutex_queue, sem_queue, pc, owner>>
    BY DEF WakeSleeping, lists, sync, mutex, sem
  <1>3. k \in 1..Len(sleep_queue) /\ sleep_queue \in Seq(TCB)
    BY <1>1 DEF TypeInv, TypeOK
  <1>4. t \in TCB
    BY <1>3
  <1>5. InQueue(sleep_queue, t)
    BY <1>3 DEF InQueue
  <1>6. state[t] = "BLOCKED" /\ pc[t] = "none" /\ ~InQueue(ready_queue, t)
    BY <1>4, <1>5 DEF Sound, LinkInv
  <1>7. state'[t] = "READY" /\ \A x \in TCB : x # t => state'[x] = state[x]
    BY <1>1, <1>4 DEF TypeInv, TypeOK
  <1>8. NoRepeat(ready_queue') /\ \A x : InQueue(ready_queue', x) <=> InQueue(ready_queue, x) \/ x = t
    <2>1. ready_queue \in Seq(TCB) /\ NoRepeat(ready_queue)
      BY DEF Sound, LinkInv, TypeInv, TypeOK
    <2> QED
      BY <1>1, <1>4, <1>6, <2>1, EnqueueFacts
  <1>9. NoRepeat(sleep_queue') /\ \A x : InQueue(sleep_queue', x) <=> InQueue(sleep_queue, x) /\ x # t
    BY <1>1, RemoveFacts DEF Sound, LinkInv, TypeInv, TypeOK
  <1> HIDE DEF t
  <1>10. AliveInv'
    BY ZenonT(60), <1>2, <1>4, <1>6, <1>7 DEF Sound, AliveInv, TypeInv, TypeOK
  <1>11. state'[current_thread] # "RUNNING"
    BY <1>2, <1>4, <1>7 DEF Sound, LinkInv, TypeInv, TypeOK
  <1>12. LinkInv'
    BY <1>2, <1>4, <1>5, <1>6, <1>7, <1>8, <1>9, <1>11 DEF Sound, LinkInv
  <1>13. LoopInv'
    BY <1>2 DEF Sound, LoopInv
  <1>14. MutexInv' /\ SemInv'
    BY <1>7, KeepsWoken DEF Sound
  <1> QED
    BY <1>10, <1>12, <1>13, <1>14 DEF Sound

LEMMA SwitchSound == TypeInv /\ SyncTypes /\ Sound /\ SwitchTo /\ UNCHANGED sync => Sound'
  <1> SUFFICES ASSUME TypeInv, SyncTypes, Sound, SwitchTo, UNCHANGED sync PROVE Sound'
    OBVIOUS
  <1> USE ThreadsAssumption
  <1> DEFINE n == Head(ready_queue)
  <1>1. phase = "wake"
    BY DEF SwitchTo
  <1>2. \A x \in TCB : state[x] # "RUNNING"
    BY <1>1 DEF Sound, LinkInv
  <1>3. ready_queue # <<>>
    <2>1. InQueue(ready_queue, main)
      BY <1>2 DEF Sound, LinkInv
    <2> QED
      BY <2>1 DEF InQueue
  <1>4. /\ current_thread' = n /\ ready_queue' = Tail(ready_queue)
        /\ state' = [state EXCEPT ![n] = "RUNNING"]
        /\ IF frame[n] = "new" THEN phase' = "run" /\ frame' = [frame EXCEPT ![n] = "run"]
                               ELSE phase' = "tail" /\ frame' = frame
        /\ UNCHANGED <<sleep_queue, heap, num_of_FreeTCB>>
        /\ UNCHANGED <<mutex_queue, sem_queue, pc, owner>>
    BY <1>3 DEF SwitchTo, NextThread, lists, sync, mutex, sem
  <1>5. /\ n \in TCB /\ InQueue(ready_queue, n)
        /\ NoRepeat(ready_queue')
        /\ \A x : InQueue(ready_queue', x) <=> InQueue(ready_queue, x) /\ x # n
    BY <1>3, <1>4, DequeueFacts DEF Sound, LinkInv, TypeInv, TypeOK
  <1>6. state[n] = "READY"
    BY <1>5 DEF Sound, LinkInv
  <1>7. state'[n] = "RUNNING" /\ \A x \in TCB : x # n => state'[x] = state[x]
    BY <1>4, <1>5 DEF TypeInv, TypeOK
  <1> HIDE DEF n
  <1>8. /\ \A x \in TCB : frame'[x] = IF x = n /\ frame[n] = "new" THEN "run" ELSE frame[x]
        /\ phase' = IF frame[n] = "new" THEN "run" ELSE "tail"
    BY SMTT(30), <1>4, <1>5 DEF TypeInv, TypeOK
  <1>9. AliveInv'
    BY ZenonT(60), <1>4, <1>5, <1>6, <1>7, <1>8 DEF Sound, AliveInv, TypeInv, TypeOK
  <1>10. /\ ~Entering'
         /\ \A x \in TCB : pc[x] \notin {"lockq", "lockset", "semq", "semdec"}
         /\ frame[n] = "new" => pc[n] = "none"
    BY <1>1, <1>4, <1>5, <1>8 DEF Sound, LoopInv, Entering
  <1>11. LinkInv'
    BY <1>2, <1>4, <1>5, <1>6, <1>7, <1>8, <1>10 DEF Sound, LinkInv
  <1>12. LoopInv'
    BY <1>1, <1>4, <1>5, <1>8, <1>10 DEF Sound, LoopInv
  <1>13. MutexInv' /\ SemInv'
    BY <1>7, KeepsWoken DEF Sound
  <1> QED
    BY <1>9, <1>11, <1>12, <1>13 DEF Sound

\* Nobody is TERMINATED, so schedule() buries nobody and interrupts stay off for a thread
\* that resumes inside a loop.
LEMMA TailSound == TypeInv /\ SyncTypes /\ Sound /\ ScheduleTail /\ UNCHANGED sync => Sound'
  <1> SUFFICES ASSUME TypeInv, SyncTypes, Sound, ScheduleTail, UNCHANGED sync PROVE Sound'
    OBVIOUS
  <1> USE ThreadsAssumption
  <1> DEFINE c == current_thread
  <1>1. phase = "tail" /\ c \in TCB /\ schedule_prev_thread \in TCB
    BY DEF ScheduleTail, TypeInv, TypeOK
  <1>2. ~MustBury
    BY <1>1 DEF MustBury, Sound, AliveInv
  <1>3. /\ intr' = InterruptsAfter /\ frame' = [frame EXCEPT ![c] = "run"] /\ phase' = "run"
        /\ UNCHANGED <<current_thread, state, sleep_queue, ready_queue, heap, num_of_FreeTCB>>
        /\ UNCHANGED <<mutex_queue, sem_queue, pc, owner>>
    BY <1>2 DEF ScheduleTail, lists, sync, mutex, sem
  <1>4. frame'[c] = "run" /\ \A x \in TCB : x # c => frame'[x] = frame[x]
    BY <1>1, <1>3 DEF TypeInv, TypeOK
  <1>5. \A x \in TCB : pc[x] \notin {"lockq", "lockset", "semq", "semdec"}
    BY <1>1 DEF Sound, LoopInv
  <1>6. ~Entering /\ ~Entering' /\ state[c] = "RUNNING"
    BY <1>1, <1>3, <1>5 DEF Sound, LinkInv, Entering
  <1>7. AliveInv'
    BY <1>3, <1>4, <1>6 DEF Sound, AliveInv, TypeInv, TypeOK
  <1>8. LinkInv'
    BY <1>1, <1>3, <1>6 DEF Sound, LinkInv
  <1>9. pc[c] # "none" => ~intr'
    BY <1>1, <1>3 DEF Sound, LoopInv, InterruptsAfter
  <1>10. LoopInv'
    BY <1>1, <1>3, <1>4, <1>5, <1>9 DEF Sound, LoopInv
  <1>11. MutexInv' /\ SemInv'
    BY <1>3, KeepsWoken DEF Sound
  <1> QED
    BY <1>7, <1>8, <1>10, <1>11 DEF Sound

LEMMA SleepSound == TypeInv /\ SyncTypes /\ Sound /\ At("none") /\ ThreadSleep /\ UNCHANGED sync => Sound'
  <1> SUFFICES ASSUME TypeInv, SyncTypes, Sound, At("none"), ThreadSleep, UNCHANGED sync PROVE Sound'
    OBVIOUS
  <1> USE ThreadsAssumption
  <1> DEFINE c == current_thread
  <1>1. phase = "run" /\ c \in TCB /\ c # main /\ pc[c] = "none" /\ state[c] = "RUNNING"
    BY DEF At, Worker, Sound, LinkInv, Entering, TypeInv, TypeOK
  <1>2. /\ state' = [state EXCEPT ![c] = "BLOCKED"]
        /\ sleep_queue' = Append(sleep_queue, c)
        /\ frame' = [frame EXCEPT ![c] = "sleep"]
        /\ phase' = "wake" /\ UNCHANGED <<current_thread, ready_queue, heap, num_of_FreeTCB>>
        /\ UNCHANGED <<mutex_queue, sem_queue, pc, owner>>
    BY <1>1 DEF ThreadSleep, Schedule, StillRunning, sleep_enqueue, lists, sync, mutex, sem, TypeInv, TypeOK
  <1>3. /\ state'[c] = "BLOCKED" /\ \A x \in TCB : x # c => state'[x] = state[x]
        /\ frame'[c] = "sleep" /\ \A x \in TCB : x # c => frame'[x] = frame[x]
    BY <1>1, <1>2 DEF TypeInv, TypeOK
  <1>4. AliveInv'
    BY <1>1, <1>2, <1>3 DEF Sound, AliveInv, TypeInv, TypeOK
  <1>5. NoRepeat(sleep_queue') /\ \A x : InQueue(sleep_queue', x) <=> InQueue(sleep_queue, x) \/ x = c
    <2>1. sleep_queue \in Seq(TCB) /\ NoRepeat(sleep_queue) /\ ~InQueue(sleep_queue, c)
      BY <1>1 DEF Sound, LinkInv, TypeInv, TypeOK
    <2> QED
      BY <1>1, <1>2, <2>1, EnqueueFacts
  <1>6. LinkInv'
    BY <1>1, <1>2, <1>3, <1>5 DEF Sound, LinkInv
  <1>7. LoopInv'
    BY <1>1, <1>2, <1>3 DEF Sound, LoopInv
  <1>8. MutexInv' /\ SemInv'
    BY <1>1, <1>3, KeepsWoken DEF Sound
  <1> QED
    BY <1>4, <1>6, <1>7, <1>8 DEF Sound

\* A page that becomes a thread takes part in nothing yet.
LEMMA StartSound == TypeInv /\ SyncTypes /\ Sound /\ Start => Sound'
  <1> SUFFICES ASSUME TypeInv, SyncTypes, Sound, Start PROVE Sound'
    OBVIOUS
  <1> USE ThreadsAssumption
  <1>1. PICK k \in Kinds : \E y \in NewTCB(k) : Created(k, y)
    BY DEF Start, CreateThread, Created, thread_enqueue
  <1>2. PICK t \in NewTCB(k) : Created(k, t)
    BY <1>1
  <1>3. /\ phase = "run" /\ current_thread = main
        /\ UNCHANGED <<current_thread, sleep_queue, phase>>
        /\ UNCHANGED <<mutex_queue, sem_queue, owner, locked, count>>
    BY DEF Start, CreateThread, Shell, mutex, sem
  <1>4. ~FromFreeList(k)
    BY DEF FromFreeList, Sound, AliveInv, TypeInv
  <1>5. t \in heap /\ t \in TCB /\ num_of_FreeTCB' = 0
    BY <1>2, <1>4 DEF NewTCB, Created, TakeTCB, Sound, AliveInv, TypeInv, TypeOK
  <1>6. state[t] = "NONE" /\ frame[t] = "new" /\ pc[t] = "none" /\ owner # t
    BY <1>5 DEF Sound, AliveInv, LoopInv
  <1>7. /\ state' = [state EXCEPT ![t] = "READY"] /\ frame' = [frame EXCEPT ![t] = "new"]
        /\ heap' = heap \ {t} /\ ready_queue' = Append(ready_queue, t)
    BY <1>2 DEF Created
  <1>8. state'[t] = "READY" /\ (\A x \in TCB : x # t => state'[x] = state[x]) /\ frame' = frame
    BY <1>5, <1>6, <1>7 DEF TypeInv, TypeOK
  <1>9. pc' = pc /\ depth' = depth
    <2>1. \A x \in TCB : frame'[x] = "new" => pc[x] = "none" /\ depth[x] = 0
      BY <1>8 DEF Sound, LoopInv, MutexInv
    <2> QED
      BY <2>1 DEF Start, SyncTypes
  <1>10. UNCHANGED sync
    BY <1>3, <1>9 DEF sync, mutex, sem
  <1>11. AliveInv'
    BY <1>5, <1>7, <1>8 DEF Sound, AliveInv, TypeInv, TypeOK
  <1>12. NoRepeat(ready_queue') /\ \A x : InQueue(ready_queue', x) <=> InQueue(ready_queue, x) \/ x = t
    <2>1. ready_queue \in Seq(TCB) /\ NoRepeat(ready_queue) /\ ~InQueue(ready_queue, t)
      BY <1>5, <1>6 DEF Sound, LinkInv, TypeInv, TypeOK
    <2> QED
      BY <1>5, <1>7, <2>1, EnqueueFacts
  <1>13. state[main] # "NONE"
    BY DEF Sound, LinkInv
  <1>14. LinkInv'
    BY <1>3, <1>5, <1>6, <1>8, <1>9, <1>12, <1>13 DEF Sound, LinkInv, Entering
  <1>15. LoopInv'
    BY <1>3, <1>8, <1>9 DEF Sound, LoopInv
  <1>16. MutexInv' /\ SemInv'
    BY <1>8, <1>10, KeepsWoken DEF Sound
  <1> QED
    BY <1>11, <1>14, <1>15, <1>16 DEF Sound

-----------------------------------------------------------------------------
(***************************************************************************)
(* The steps of the primitives.                                            *)
(***************************************************************************)
LEMMA Caller ==
    ASSUME TypeInv, SyncTypes, Sound, NEW l, At(l)
    PROVE  /\ phase = "run" /\ current_thread \in TCB /\ current_thread # main
           /\ pc[current_thread] = l /\ frame[current_thread] = "run"
           /\ state[current_thread] = IF l \in {"lockq", "semq"} THEN "BLOCKED" ELSE "RUNNING"
           /\ l # "none" => ~intr
           /\ \A t \in TCB : t # current_thread =>
                 pc[t] \notin {"lockq", "lockset", "semq", "semdec"} /\ (pc[t] # "none" => frame[t] = "call")
  <1>1. phase = "run" /\ current_thread \in TCB /\ current_thread # main /\ pc[current_thread] = l
    BY DEF At, Worker, TypeInv, TypeOK
  <1>2. state[current_thread] = IF l \in {"lockq", "semq"} THEN "BLOCKED" ELSE "RUNNING"
    BY <1>1 DEF Sound, LinkInv, Entering
  <1> QED
    BY <1>1, <1>2 DEF Sound, LoopInv

\* The caller moves from label l to label m and the scheduler does not notice.
LEMMA MoveSound ==
    ASSUME TypeInv, SyncTypes, Sound, NEW l \in Labels, NEW m \in Labels, At(l), Goto(m),
           l \notin {"lockq", "semq"}, m \notin {"lockq", "semq"}, KeepScheduler,
           m # "none" => ~intr', UNCHANGED <<mutex_queue, sem_queue>>,
           owner' \in {owner, current_thread}
    PROVE  AliveInv' /\ LinkInv' /\ LoopInv'
  <1> USE ThreadsAssumption
  <1> DEFINE c == current_thread
  <1>1. /\ phase = "run" /\ c \in TCB /\ c # main /\ pc[c] = l /\ frame[c] = "run" /\ state[c] = "RUNNING"
        /\ \A t \in TCB : t # c =>
                 pc[t] \notin {"lockq", "lockset", "semq", "semdec"} /\ (pc[t] # "none" => frame[t] = "call")
    BY Caller
  <1>2. UNCHANGED <<current_thread, phase, state, frame, ready_queue, sleep_queue, heap, num_of_FreeTCB>>
    BY DEF KeepScheduler, lists
  <1>3. pc'[c] = m /\ \A t \in TCB : t # c => pc'[t] = pc[t]
    BY <1>1 DEF Goto, SyncTypes
  <1>4. AliveInv'
    BY <1>2 DEF Sound, AliveInv
  <1>5. ~Entering'
    BY <1>1, <1>2, <1>3 DEF Entering
  <1>6. LinkInv'
    BY <1>1, <1>2, <1>3, <1>5 DEF Sound, LinkInv
  <1>7. LoopInv'
    BY <1>1, <1>2, <1>3 DEF Sound, LoopInv
  <1> QED
    BY <1>4, <1>6, <1>7

\* The caller marks itself BLOCKED: from its test to its place in the queue.
LEMMA BlockSound ==
    ASSUME TypeInv, SyncTypes, Sound, NEW l, l \in {"lock", "sem"}, NEW m, m \in {"lockq", "semq"},
           At(l), Block, Goto(m), UNCHANGED <<mutex_queue, sem_queue, owner>>
    PROVE  AliveInv' /\ LinkInv' /\ LoopInv'
  <1> USE ThreadsAssumption
  <1> DEFINE c == current_thread
  <1>1. /\ phase = "run" /\ c \in TCB /\ c # main /\ pc[c] = l /\ frame[c] = "run" /\ state[c] = "RUNNING"
        /\ ~intr
        /\ \A t \in TCB : t # c =>
                 pc[t] \notin {"lockq", "lockset", "semq", "semdec"} /\ (pc[t] # "none" => frame[t] = "call")
    BY Caller
  <1>2. /\ UNCHANGED <<current_thread, phase, intr, frame, ready_queue, sleep_queue, heap, num_of_FreeTCB>>
        /\ state' = [state EXCEPT ![c] = "BLOCKED"]
    BY DEF Block, lists
  <1>3. /\ pc'[c] = m /\ \A t \in TCB : t # c => pc'[t] = pc[t]
        /\ state'[c] = "BLOCKED" /\ \A t \in TCB : t # c => state'[t] = state[t]
    BY <1>1, <1>2 DEF Goto, SyncTypes, TypeInv, TypeOK
  <1>4. AliveInv'
    BY <1>1, <1>2, <1>3 DEF Sound, AliveInv, TypeInv, TypeOK
  <1>5. Entering'
    BY <1>1, <1>2, <1>3 DEF Entering
  <1>6. LinkInv'
    BY <1>1, <1>2, <1>3, <1>5 DEF Sound, LinkInv
  <1>7. LoopInv'
    BY <1>1, <1>2, <1>3 DEF Sound, LoopInv
  <1> QED
    BY <1>4, <1>6, <1>7

\* The caller, BLOCKED, goes into the queue it waits in and calls schedule().
LEMMA WaitSound ==
    ASSUME TypeInv, SyncTypes, Sound, LockWait \/ SemQueue
    PROVE  AliveInv' /\ LinkInv' /\ LoopInv'
  <1> USE ThreadsAssumption
  <1> DEFINE c == current_thread
  <1>1. PICK l \in {"lockq", "semq"} : At(l) /\ (l = "lockq" <=> LockWait)
    <2>1. ~(At("lockq") /\ At("semq"))
      BY DEF At
    <2> QED
      BY <2>1 DEF LockWait, SemQueue
  <1>2. /\ phase = "run" /\ c \in TCB /\ c # main /\ pc[c] = l /\ frame[c] = "run" /\ state[c] = "BLOCKED"
        /\ \A t \in TCB : t # c =>
                 pc[t] \notin {"lockq", "lockset", "semq", "semdec"} /\ (pc[t] # "none" => frame[t] = "call")
    BY <1>1, Caller
  <1>3. Wait
    BY DEF LockWait, SemQueue
  <1>4. /\ phase' = "wake" /\ ~intr' /\ state' = state /\ frame' = [frame EXCEPT ![c] = "call"]
        /\ UNCHANGED <<current_thread, ready_queue, sleep_queue, heap, num_of_FreeTCB>>
    BY <1>2, <1>3 DEF Wait, Schedule, StillRunning, lists
  <1>5. /\ owner' = owner
        /\ Goto(IF l = "lockq" THEN "lock" ELSE "sem")
        /\ IF l = "lockq" THEN mutex_queue' = Append(mutex_queue, c) /\ sem_queue' = sem_queue
                          ELSE sem_queue' = Append(sem_queue, c) /\ mutex_queue' = mutex_queue
    BY <1>1 DEF LockWait, SemQueue, mutex, sem
  <1>6. /\ pc'[c] = (IF l = "lockq" THEN "lock" ELSE "sem") /\ \A t \in TCB : t # c => pc'[t] = pc[t]
        /\ frame'[c] = "call" /\ \A t \in TCB : t # c => frame'[t] = frame[t]
    BY <1>2, <1>4, <1>5 DEF Goto, SyncTypes, TypeInv, TypeOK
  <1>7. AliveInv'
    BY <1>2, <1>4, <1>6 DEF Sound, AliveInv, TypeInv, TypeOK
  <1>8. /\ mutex_queue \in Seq(TCB) /\ NoRepeat(mutex_queue) /\ ~InQueue(mutex_queue, c)
        /\ sem_queue \in Seq(TCB) /\ NoRepeat(sem_queue) /\ ~InQueue(sem_queue, c)
        /\ ~InQueue(sleep_queue, c) /\ ~InQueue(ready_queue, c)
    BY <1>2 DEF Sound, LinkInv, SyncTypes
  <1>9. /\ NoRepeat(mutex_queue') /\ NoRepeat(sem_queue')
        /\ \A x : InQueue(mutex_queue', x) <=> InQueue(mutex_queue, x) \/ (l = "lockq" /\ x = c)
        /\ \A x : InQueue(sem_queue', x) <=> InQueue(sem_queue, x) \/ (l # "lockq" /\ x = c)
    <2>1. /\ NoRepeat(Append(mutex_queue, c))
          /\ \A x : InQueue(Append(mutex_queue, c), x) <=> InQueue(mutex_queue, x) \/ x = c
      BY <1>2, <1>8, EnqueueFacts
    <2>2. /\ NoRepeat(Append(sem_queue, c))
          /\ \A x : InQueue(Append(sem_queue, c), x) <=> InQueue(sem_queue, x) \/ x = c
      BY <1>2, <1>8, EnqueueFacts
    <2>3. CASE l = "lockq"
      BY <1>5, <1>8, <2>1, <2>3
    <2>4. CASE l # "lockq"
      BY <1>5, <1>8, <2>2, <2>4
    <2> QED
      BY <2>3, <2>4
  <1>10. LinkInv'
    BY <1>2, <1>4, <1>6, <1>8, <1>9 DEF Sound, LinkInv
  <1>11. LoopInv'
    BY <1>2, <1>4, <1>5, <1>6 DEF Sound, LoopInv
  <1> QED
    BY <1>7, <1>10, <1>11

\* The running thread wakes the head of one of the two queues.
LEMMA WakeHeadSound ==
    ASSUME TypeInv, SyncTypes, Sound, At("none"), KeepSchedulerButReady, UNCHANGED pc,
           owner' \in {owner, NULL},
           \/ WakeHead(mutex_queue) /\ mutex_queue' = Rest(mutex_queue) /\ sem_queue' = sem_queue
           \/ WakeHead(sem_queue) /\ sem_queue' = Rest(sem_queue) /\ mutex_queue' = mutex_queue
    PROVE  AliveInv' /\ LinkInv' /\ LoopInv'
  <1> USE ThreadsAssumption
  <1> DEFINE c == current_thread
  <1>1. /\ phase = "run" /\ c \in TCB /\ c # main /\ pc[c] = "none" /\ frame[c] = "run" /\ state[c] = "RUNNING"
    BY Caller
  <1>2. UNCHANGED <<current_thread, phase, frame, sleep_queue, heap, num_of_FreeTCB, pc>>
    BY DEF KeepSchedulerButReady, lists
  <1>3. LoopInv'
    BY <1>1, <1>2 DEF Sound, LoopInv
  <1>4. ~Entering'
    BY <1>1, <1>2 DEF Entering
  <1>5. /\ mutex_queue \in Seq(TCB) /\ NoRepeat(mutex_queue) /\ sem_queue \in Seq(TCB) /\ NoRepeat(sem_queue)
        /\ ready_queue \in Seq(TCB) /\ NoRepeat(ready_queue)
    BY DEF Sound, LinkInv, SyncTypes, TypeInv, TypeOK
  <1>6. CASE UNCHANGED <<state, ready_queue, mutex_queue, sem_queue>>
    <2>1. AliveInv' /\ LinkInv'
      BY <1>1, <1>2, <1>4, <1>6 DEF Sound, AliveInv, LinkInv
    <2> QED
      BY <1>3, <2>1
  <1>7. ASSUME NEW q, q \in {mutex_queue, sem_queue}, q # <<>>,
               state' = [state EXCEPT ![Head(q)] = "READY"],
               ready_queue' = Append(ready_queue, Head(q)),
               \/ q = mutex_queue /\ mutex_queue' = Tail(q) /\ sem_queue' = sem_queue
               \/ q = sem_queue /\ sem_queue' = Tail(q) /\ mutex_queue' = mutex_queue
        PROVE  AliveInv' /\ LinkInv'
    <2> DEFINE h == Head(q)
    <2>1. /\ h \in TCB /\ InQueue(q, h) /\ NoRepeat(Tail(q))
          /\ \A x : InQueue(Tail(q), x) <=> InQueue(q, x) /\ x # h
      BY <1>5, <1>7, DequeueFacts
    <2>2. state[h] = "BLOCKED" /\ ~InQueue(ready_queue, h) /\ h # c
      BY <1>1, <1>7, <2>1 DEF Sound, LinkInv
    <2>3. state'[h] = "READY" /\ \A x \in TCB : x # h => state'[x] = state[x]
      BY <1>7, <2>1 DEF TypeInv, TypeOK
    <2>4. NoRepeat(ready_queue') /\ \A x : InQueue(ready_queue', x) <=> InQueue(ready_queue, x) \/ x = h
      BY <1>5, <1>7, <2>1, <2>2, EnqueueFacts
    <2> HIDE DEF h
    <2>5. AliveInv'
      <3>1. heap \subseteq TCB /\ AliveInv
        BY DEF Sound, TypeInv, TypeOK
      <3>2. h \notin heap
        BY <2>2, <3>1 DEF AliveInv
      <3>3. \A t \in heap' : state'[t] = "NONE" /\ frame'[t] = "new"
        BY <1>2, <2>3, <3>1, <3>2 DEF AliveInv
      <3>4. \A t \in TCB : state'[t] # "TERMINATED"
        BY <2>3, <3>1 DEF AliveInv
      <3> QED
        BY <1>2, <3>1, <3>3, <3>4 DEF AliveInv
    <2>6. LinkInv'
      <3>1. CASE mutex_queue' = Tail(q) /\ sem_queue' = sem_queue /\ q = mutex_queue
        BY <1>1, <1>2, <1>4, <2>1, <2>2, <2>3, <2>4, <3>1 DEF Sound, LinkInv
      <3>2. CASE sem_queue' = Tail(q) /\ mutex_queue' = mutex_queue /\ q = sem_queue
        BY <1>1, <1>2, <1>4, <2>1, <2>2, <2>3, <2>4, <3>2 DEF Sound, LinkInv
      <3> QED
        BY <1>7, <3>1, <3>2
    <2> QED
      BY <2>5, <2>6
  <1>8. CASE WakeHead(mutex_queue) /\ mutex_queue' = Rest(mutex_queue) /\ sem_queue' = sem_queue
    BY <1>3, <1>6, <1>7, <1>8 DEF WakeHead, Rest, thread_enqueue
  <1>9. CASE WakeHead(sem_queue) /\ sem_queue' = Rest(sem_queue) /\ mutex_queue' = mutex_queue
    BY <1>3, <1>6, <1>7, <1>9 DEF WakeHead, Rest, thread_enqueue
  <1> QED
    BY <1>8, <1>9

\* How a step changes the threads that are on their way.
LEMMA WokenFinite ==
    ASSUME NEW l PROVE IsFiniteSet(Woken(l)) /\ Cardinality(Woken(l)) \in Nat
  <1>1. Woken(l) \subseteq TCB
    BY DEF Woken
  <1> QED
    BY <1>1, SyncAssumption, FS_Subset, FS_CardinalityType

LEMMA LockSound == TypeInv /\ SyncTypes /\ Disciplined /\ Sound /\ (MutexLock \/ Locking) => Sound'
  <1> SUFFICES ASSUME TypeInv, SyncTypes, Disciplined, Sound, MutexLock \/ Locking PROVE Sound'
    OBVIOUS
  <1> USE ThreadsAssumption, SyncAssumption
  <1> DEFINE c == current_thread
  <1>a. owner \in TCB \cup {NULL} /\ pc \in [TCB -> Labels] /\ state \in [TCB -> States]
    BY DEF SyncTypes, TypeInv, TypeOK
  <1>1. CASE MutexLock
    <2>1. At("none") /\ c \in TCB /\ pc[c] = "none" /\ state[c] = "RUNNING"
      BY <1>1, Caller DEF MutexLock
    <2>2. owner # c
      BY <1>1, <2>1 DEF MutexLock, Disciplined, Sound, MutexInv, SyncTypes
    <2>3. /\ Goto("lock") /\ KeepScheduler /\ ~intr' /\ state' = state
          /\ UNCHANGED <<locked, owner, mutex_queue, count, sem_queue, depth>>
      BY <1>1, <2>2 DEF MutexLock, KeepScheduler, mutex, sem
    <2>4. AliveInv' /\ LinkInv' /\ LoopInv'
      BY <2>1, <2>3, MoveSound DEF Labels
    <2>5. pc'[c] = "lock" /\ \A t \in TCB : t # c => pc'[t] = pc[t]
      BY <1>a, <2>1, <2>3 DEF Goto
    <2>6. Woken({"lock", "lockset"}) \subseteq Woken({"lock", "lockset"})'
      BY <2>1, <2>3, <2>5 DEF Woken
    <2>7. Woken({"sem", "semdec"})' = Woken({"sem", "semdec"})
      BY <2>1, <2>3, <2>5 DEF Woken
    <2>8. MutexInv'
      BY <2>1, <2>3, <2>5, <2>6 DEF Sound, MutexInv, NoLostUnlock
    <2>9. SemInv'
      BY <2>1, <2>3, <2>5, <2>7 DEF Sound, SemInv, NoLostPost
    <2> QED
      BY <2>4, <2>8, <2>9 DEF Sound
  <1>2. CASE LockTest /\ ~locked
    <2>1. At("lock") /\ c \in TCB /\ pc[c] = "lock" /\ ~intr /\ state[c] = "RUNNING"
      BY <1>2, Caller DEF LockTest
    <2>2. /\ Goto("lockset") /\ KeepScheduler /\ intr' = intr /\ state' = state
          /\ UNCHANGED <<locked, owner, mutex_queue, count, sem_queue, depth>>
      BY <1>2 DEF LockTest, MustWait, KeepScheduler, mutex, sem
    <2>3. AliveInv' /\ LinkInv' /\ LoopInv'
      BY <2>1, <2>2, MoveSound DEF Labels
    <2>4. pc'[c] = "lockset" /\ \A t \in TCB : t # c => pc'[t] = pc[t]
      BY <1>a, <2>1, <2>2 DEF Goto
    <2>5. c \in Woken({"lock", "lockset"})'
      BY <2>1, <2>2, <2>4 DEF Woken
    <2>6. Woken({"sem", "semdec"})' = Woken({"sem", "semdec"})
      BY <2>1, <2>2, <2>4 DEF Woken
    <2>7. MutexInv'
      BY <1>2, <2>1, <2>2, <2>4, <2>5 DEF Sound, MutexInv, NoLostUnlock
    <2>8. SemInv'
      BY <2>1, <2>2, <2>4, <2>6 DEF Sound, SemInv, NoLostPost
    <2> QED
      BY <2>3, <2>7, <2>8 DEF Sound
  <1>3. CASE LockTest /\ locked
    <2>1. At("lock") /\ c \in TCB /\ pc[c] = "lock"
      BY <1>3, Caller DEF LockTest
    <2>2. /\ Goto("lockq") /\ Block /\ state' = [state EXCEPT ![c] = "BLOCKED"]
          /\ UNCHANGED <<locked, owner, mutex_queue, count, sem_queue, depth>>
      BY <1>3 DEF LockTest, MustWait, Block, mutex, sem
    <2>3. AliveInv' /\ LinkInv' /\ LoopInv'
      BY <2>1, <2>2, BlockSound
    <2>4. /\ pc'[c] = "lockq" /\ \A t \in TCB : t # c => pc'[t] = pc[t]
          /\ \A t \in TCB : t # c => state'[t] = state[t]
      BY <1>a, <2>1, <2>2 DEF Goto
    <2>5. Woken({"sem", "semdec"})' = Woken({"sem", "semdec"})
      BY <2>1, <2>4 DEF Woken
    <2>6. MutexInv'
      BY <1>3, <2>1, <2>2, <2>4 DEF Sound, MutexInv, NoLostUnlock
    <2>7. SemInv'
      BY <2>1, <2>2, <2>4, <2>5 DEF Sound, SemInv, NoLostPost
    <2> QED
      BY <2>3, <2>6, <2>7 DEF Sound
  <1>4. CASE LockWait
    <2>1. At("lockq") /\ c \in TCB /\ pc[c] = "lockq" /\ state[c] = "BLOCKED"
      BY <1>4, Caller DEF LockWait
    <2>2. locked
      BY <2>1 DEF Sound, MutexInv
    <2>3. Goto("lock") /\ state' = state /\ UNCHANGED <<locked, owner, count, sem_queue, depth>>
      BY <1>4, <2>1 DEF LockWait, Wait, Schedule, StillRunning, sem
    <2>4. pc'[c] = "lock" /\ \A t \in TCB : t # c => pc'[t] = pc[t]
      BY <1>a, <2>1, <2>3 DEF Goto
    <2>5. Woken({"sem", "semdec"})' = Woken({"sem", "semdec"})
      BY <2>1, <2>3, <2>4 DEF Woken
    <2>6. MutexInv'
      BY <2>1, <2>2, <2>3, <2>4 DEF Sound, MutexInv, NoLostUnlock
    <2>7. SemInv'
      BY <2>1, <2>3, <2>4, <2>5 DEF Sound, SemInv, NoLostPost
    <2> QED
      BY <1>4, <2>6, <2>7, WaitSound DEF Sound
  <1>5. CASE LockSet
    <2>1. At("lockset") /\ c \in TCB /\ pc[c] = "lockset"
          /\ \A t \in TCB : t # c => pc[t] \notin {"lockq", "lockset", "semq", "semdec"}
      BY <1>5, Caller DEF LockSet
    <2>2. ~locked /\ owner = NULL /\ \A t \in TCB : depth[t] = 0
      BY <1>a, <2>1 DEF Sound, MutexInv
    <2>3. /\ Goto("none") /\ KeepScheduler /\ state' = state /\ locked' /\ owner' = c
          /\ depth' = [depth EXCEPT ![c] = @ + 1] /\ UNCHANGED <<mutex_queue, count, sem_queue>>
      BY <1>5 DEF LockSet, KeepScheduler, sem
    <2>4. AliveInv' /\ LinkInv' /\ LoopInv'
      BY <2>1, <2>3, MoveSound DEF Labels
    <2>5. /\ pc'[c] = "none" /\ \A t \in TCB : t # c => pc'[t] = pc[t]
          /\ depth'[c] = 1 /\ \A t \in TCB : t # c => depth'[t] = 0
      BY <1>a, <2>1, <2>2, <2>3 DEF Goto, SyncTypes
    <2>6. Woken({"sem", "semdec"})' = Woken({"sem", "semdec"})
      BY <2>1, <2>3, <2>5 DEF Woken
    <2>7. MutexInv'
      BY <2>1, <2>3, <2>5 DEF MutexInv, NoLostUnlock
    <2>8. SemInv'
      BY <2>1, <2>3, <2>5, <2>6 DEF Sound, SemInv, NoLostPost
    <2> QED
      BY <2>4, <2>7, <2>8 DEF Sound
  <1> QED
    BY <1>1, <1>2, <1>3, <1>4, <1>5 DEF Locking

LEMMA UnlockSound == TypeInv /\ SyncTypes /\ Sound /\ MutexUnlock => Sound'
  <1> SUFFICES ASSUME TypeInv, SyncTypes, Sound, MutexUnlock PROVE Sound'
    OBVIOUS
  <1> USE ThreadsAssumption, SyncAssumption
  <1> DEFINE c == current_thread
  <1>1. At("none") /\ c \in TCB /\ pc[c] = "none" /\ state[c] = "RUNNING"
        /\ \A t \in TCB : t # c => pc[t] \notin {"lockq", "lockset", "semq", "semdec"}
    BY Caller DEF MutexUnlock
  <1>2. owner = c /\ depth[c] = 1
    BY <1>1 DEF MutexUnlock, Sound, MutexInv
  <1>3. /\ ~locked' /\ owner' = NULL /\ WakeHead(mutex_queue) /\ mutex_queue' = Rest(mutex_queue)
        /\ depth' = [depth EXCEPT ![c] = @ - 1] /\ KeepSchedulerButReady
        /\ UNCHANGED <<count, sem_queue, pc>>
    BY <1>2 DEF MutexUnlock, sem
  <1>4. AliveInv' /\ LinkInv' /\ LoopInv'
    BY <1>1, <1>3, WakeHeadSound
  <1>5. \A t \in TCB : depth'[t] = 0
    BY <1>1, <1>2, <1>3 DEF Sound, MutexInv, SyncTypes
  <1>6. CASE mutex_queue = <<>>
    <2>1. state' = state /\ mutex_queue' = <<>>
      BY <1>3, <1>6 DEF WakeHead, Rest
    <2>2. Woken({"sem", "semdec"})' = Woken({"sem", "semdec"})
      BY <1>3, <2>1 DEF Woken
    <2>3. MutexInv'
      BY <1>1, <1>3, <1>5, <2>1 DEF Sound, MutexInv, NoLostUnlock
    <2>4. SemInv'
      BY <1>3, <2>2 DEF Sound, SemInv, NoLostPost
    <2> QED
      BY <1>4, <2>3, <2>4 DEF Sound
  <1>7. CASE mutex_queue # <<>>
    <2> DEFINE h == Head(mutex_queue)
    <2>1. h \in TCB /\ InQueue(mutex_queue, h)
      BY <1>7, DequeueFacts DEF SyncTypes
    <2>2. pc[h] = "lock" /\ state' = [state EXCEPT ![h] = "READY"]
      BY <1>3, <1>7, <2>1 DEF WakeHead, Sound, LinkInv
    <2>3. state'[h] = "READY" /\ \A t \in TCB : t # h => state'[t] = state[t]
      BY <2>1, <2>2 DEF TypeInv, TypeOK
    <2> HIDE DEF h
    <2>4. h \in Woken({"lock", "lockset"})'
      BY <1>3, <2>1, <2>2, <2>3 DEF Woken
    <2>5. Woken({"sem", "semdec"})' = Woken({"sem", "semdec"})
      BY <1>3, <2>2, <2>3 DEF Woken
    <2>6. MutexInv'
      BY <1>1, <1>3, <1>5, <2>4 DEF Sound, MutexInv, NoLostUnlock
    <2>7. SemInv'
      BY <1>3, <2>5 DEF Sound, SemInv, NoLostPost
    <2> QED
      BY <1>4, <2>6, <2>7 DEF Sound
  <1> QED
    BY <1>6, <1>7

LEMMA SemLoopSound == TypeInv /\ SyncTypes /\ Sound /\ (SemWait \/ SemLoop) => Sound'
  <1> SUFFICES ASSUME TypeInv, SyncTypes, Sound, SemWait \/ SemLoop PROVE Sound'
    OBVIOUS
  <1> USE ThreadsAssumption, SyncAssumption
  <1> DEFINE c == current_thread
             W == Woken({"sem", "semdec"})
  <1>a. owner \in TCB \cup {NULL} /\ pc \in [TCB -> Labels] /\ state \in [TCB -> States] /\ count \in Int
    BY DEF SyncTypes, TypeInv, TypeOK
  <1>b. IsFiniteSet(W) /\ Cardinality(W) \in Nat /\ IsFiniteSet(W') /\ Cardinality(W') \in Nat
    <2>1. W \subseteq TCB /\ W' \subseteq TCB
      BY DEF Woken
    <2> QED
      BY <2>1, FS_Subset, FS_CardinalityType
  <1>1. CASE SemWait
    <2>1. At("none") /\ c \in TCB /\ pc[c] = "none" /\ state[c] = "RUNNING"
      BY <1>1, Caller DEF SemWait
    <2>2. /\ Goto("sem") /\ KeepScheduler /\ ~intr' /\ state' = state
          /\ UNCHANGED <<locked, owner, mutex_queue, count, sem_queue, depth>>
      BY <1>1 DEF SemWait, KeepScheduler, mutex, sem
    <2>3. AliveInv' /\ LinkInv' /\ LoopInv'
      BY <2>1, <2>2, MoveSound DEF Labels
    <2>4. pc'[c] = "sem" /\ \A t \in TCB : t # c => pc'[t] = pc[t]
      BY <1>a, <2>1, <2>2 DEF Goto
    <2>5. Woken({"lock", "lockset"}) = Woken({"lock", "lockset"})'
      BY <2>1, <2>2, <2>4 DEF Woken
    <2>6. W \subseteq W'
      BY <2>1, <2>2, <2>4 DEF Woken
    <2>7. Cardinality(W) <= Cardinality(W')
      BY <1>b, <2>6, FS_Subset
    <2>8. MutexInv'
      BY <2>1, <2>2, <2>4, <2>5 DEF Sound, MutexInv, NoLostUnlock
    <2>9. SemInv'
      BY <1>a, <1>b, <2>1, <2>2, <2>4, <2>7 DEF Sound, SemInv, NoLostPost
    <2> QED
      BY <2>3, <2>8, <2>9 DEF Sound
  <1>2. CASE SemTest /\ ~Exhausted
    <2>1. At("sem") /\ c \in TCB /\ pc[c] = "sem" /\ ~intr /\ state[c] = "RUNNING"
      BY <1>2, Caller DEF SemTest
    <2>2. /\ Goto("semdec") /\ KeepScheduler /\ intr' = intr /\ state' = state
          /\ UNCHANGED <<locked, owner, mutex_queue, count, sem_queue, depth>>
      BY <1>2 DEF SemTest, KeepScheduler, mutex, sem
    <2>3. AliveInv' /\ LinkInv' /\ LoopInv'
      BY <2>1, <2>2, MoveSound DEF Labels
    <2>4. pc'[c] = "semdec" /\ \A t \in TCB : t # c => pc'[t] = pc[t]
      BY <1>a, <2>1, <2>2 DEF Goto
    <2>5. Woken({"lock", "lockset"}) = Woken({"lock", "lockset"})' /\ W' = W
      BY <2>1, <2>2, <2>4 DEF Woken
    <2>6. MutexInv'
      BY <2>1, <2>2, <2>4, <2>5 DEF Sound, MutexInv, NoLostUnlock
    <2>7. count > 0
      BY <1>2, <1>a DEF Exhausted
    <2>8. SemInv'
      BY <2>1, <2>2, <2>4, <2>5, <2>7 DEF Sound, SemInv, NoLostPost
    <2> QED
      BY <2>3, <2>6, <2>8 DEF Sound
  <1>3. CASE SemTest /\ Exhausted
    <2>1. At("sem") /\ c \in TCB /\ pc[c] = "sem"
      BY <1>3, Caller DEF SemTest
    <2>2. /\ Goto("semq") /\ Block /\ state' = [state EXCEPT ![c] = "BLOCKED"]
          /\ UNCHANGED <<locked, owner, mutex_queue, count, sem_queue, depth>>
      BY <1>3 DEF SemTest, Block, mutex, sem
    <2>3. AliveInv' /\ LinkInv' /\ LoopInv'
      BY <2>1, <2>2, BlockSound
    <2>4. /\ pc'[c] = "semq" /\ \A t \in TCB : t # c => pc'[t] = pc[t]
          /\ \A t \in TCB : t # c => state'[t] = state[t]
      BY <1>a, <2>1, <2>2 DEF Goto
    <2>5. Woken({"lock", "lockset"}) = Woken({"lock", "lockset"})'
      BY <2>1, <2>4 DEF Woken
    <2>6. MutexInv'
      BY <2>1, <2>2, <2>4, <2>5 DEF Sound, MutexInv, NoLostUnlock
    <2>7. count = 0
      BY <1>3, <1>a DEF Exhausted, Sound, SemInv, NoLostPost
    <2>8. SemInv'
      BY <1>b, <2>1, <2>2, <2>4, <2>7 DEF Sound, SemInv, NoLostPost
    <2> QED
      BY <2>3, <2>6, <2>8 DEF Sound
  <1>4. CASE SemQueue
    <2>1. At("semq") /\ c \in TCB /\ pc[c] = "semq" /\ state[c] = "BLOCKED"
      BY <1>4, Caller DEF SemQueue
    <2>2. count = 0
      BY <2>1 DEF Sound, SemInv
    <2>3. Goto("sem") /\ state' = state /\ UNCHANGED <<locked, owner, mutex_queue, count, depth>>
      BY <1>4, <2>1 DEF SemQueue, Wait, Schedule, StillRunning, mutex
    <2>4. pc'[c] = "sem" /\ \A t \in TCB : t # c => pc'[t] = pc[t]
      BY <1>a, <2>1, <2>3 DEF Goto
    <2>5. Woken({"lock", "lockset"})' = Woken({"lock", "lockset"})
      BY <2>1, <2>3, <2>4 DEF Woken
    <2>6. MutexInv'
      BY <2>1, <2>3, <2>4, <2>5 DEF Sound, MutexInv, NoLostUnlock
    <2>7. SemInv'
      BY <1>b, <2>1, <2>2, <2>3, <2>4 DEF Sound, SemInv, NoLostPost
    <2> QED
      BY <1>4, <2>6, <2>7, WaitSound DEF Sound
  <1>5. CASE SemTake
    <2>1. At("semdec") /\ c \in TCB /\ pc[c] = "semdec" /\ state[c] = "RUNNING"
          /\ \A t \in TCB : t # c => pc[t] \notin {"lockq", "lockset", "semq", "semdec"}
      BY <1>5, Caller DEF SemTake
    <2>2. count > 0
      BY <2>1 DEF Sound, SemInv
    <2>3. /\ Goto("none") /\ KeepScheduler /\ state' = state /\ count' = count - 1
          /\ UNCHANGED <<locked, owner, depth, mutex_queue, sem_queue>>
      BY <1>5 DEF SemTake, KeepScheduler, mutex
    <2>4. AliveInv' /\ LinkInv' /\ LoopInv'
      BY <2>1, <2>3, MoveSound DEF Labels
    <2>5. pc'[c] = "none" /\ \A t \in TCB : t # c => pc'[t] = pc[t]
      BY <1>a, <2>1, <2>3 DEF Goto
    <2>6. Woken({"lock", "lockset"})' = Woken({"lock", "lockset"})
      BY <2>1, <2>3, <2>5 DEF Woken
    <2>7. W' = W \ {c} /\ c \in W
      BY <2>1, <2>3, <2>5 DEF Woken
    <2>8. Cardinality(W') = Cardinality(W) - 1
      <3> HIDE DEF W
      <3> QED
        BY <1>b, <2>7, FS_RemoveElement
    <2>9. MutexInv'
      BY <2>1, <2>3, <2>5, <2>6 DEF Sound, MutexInv, NoLostUnlock
    <2>10. NoLostPost'
      BY <1>a, <1>b, <2>2, <2>3, <2>8 DEF Sound, SemInv, NoLostPost
    <2>11. SemInv'
      BY <2>1, <2>5, <2>10 DEF SemInv
    <2> QED
      BY <2>4, <2>9, <2>11 DEF Sound
  <1> QED
    BY <1>1, <1>2, <1>3, <1>4, <1>5 DEF SemLoop

LEMMA PostSound == TypeInv /\ SyncTypes /\ Sound /\ SemPost => Sound'
  <1> SUFFICES ASSUME TypeInv, SyncTypes, Sound, SemPost PROVE Sound'
    OBVIOUS
  <1> USE ThreadsAssumption, SyncAssumption
  <1> DEFINE c == current_thread
             W == Woken({"sem", "semdec"})
  <1>1. At("none") /\ c \in TCB /\ pc[c] = "none" /\ state[c] = "RUNNING"
        /\ \A t \in TCB : t # c => pc[t] \notin {"lockq", "lockset", "semq", "semdec"}
    BY Caller DEF SemPost
  <1>2. /\ WakeHead(sem_queue) /\ sem_queue' = Rest(sem_queue) /\ KeepSchedulerButReady
        /\ count' = count + 1 /\ count \in Int
        /\ UNCHANGED <<locked, owner, mutex_queue, depth, pc>>
    BY DEF SemPost, mutex, SyncTypes
  <1>3. AliveInv' /\ LinkInv' /\ LoopInv'
    BY <1>1, <1>2, WakeHeadSound
  <1>4. CASE sem_queue = <<>>
    <2>1. state' = state /\ sem_queue' = <<>>
      BY <1>2, <1>4 DEF WakeHead, Rest
    <2>2. Woken({"lock", "lockset"})' = Woken({"lock", "lockset"})
      BY <1>2, <2>1 DEF Woken
    <2>3. MutexInv'
      BY <1>1, <1>2, <2>2 DEF Sound, MutexInv, NoLostUnlock
    <2>4. SemInv'
      BY <1>1, <1>2, <2>1 DEF Sound, SemInv, NoLostPost
    <2> QED
      BY <1>3, <2>3, <2>4 DEF Sound
  <1>5. CASE sem_queue # <<>>
    <2> DEFINE h == Head(sem_queue)
    <2>1. h \in TCB /\ InQueue(sem_queue, h)
      BY <1>5, DequeueFacts DEF SyncTypes
    <2>2. pc[h] = "sem" /\ state[h] = "BLOCKED" /\ state' = [state EXCEPT ![h] = "READY"]
      BY <1>2, <1>5, <2>1 DEF WakeHead, Sound, LinkInv
    <2>3. state'[h] = "READY" /\ \A t \in TCB : t # h => state'[t] = state[t]
      BY <2>1, <2>2 DEF TypeInv, TypeOK
    <2> HIDE DEF h
    <2>4. Woken({"lock", "lockset"})' = Woken({"lock", "lockset"})
      BY <1>2, <2>2, <2>3 DEF Woken
    <2>5. h \notin W /\ W' = W \cup {h}
      BY <1>2, <2>1, <2>2, <2>3 DEF Woken
    <2>6. IsFiniteSet(W) /\ Cardinality(W) \in Nat
      BY WokenFinite
    <2>7. Cardinality(W') = Cardinality(W) + 1
      <3> HIDE DEF W
      <3> QED
        BY <2>5, <2>6, FS_AddElement
    <2>8. MutexInv'
      BY <1>1, <1>2, <2>4 DEF Sound, MutexInv, NoLostUnlock
    <2>9. NoLostPost'
      BY <1>2, <1>5, <2>6, <2>7 DEF Sound, SemInv, NoLostPost
    <2>10. SemInv'
      BY <1>1, <1>2, <2>9 DEF SemInv
    <2> QED
      BY <1>3, <2>8, <2>10 DEF Sound
  <1> QED
    BY <1>4, <1>5

-----------------------------------------------------------------------------
LEMMA SyncNextSound == TypeInv /\ SyncTypes /\ Disciplined /\ Sound /\ [SyncNext]_syncVars => Sound'
  <1> SUFFICES ASSUME TypeInv, SyncTypes, Disciplined, Sound, [SyncNext]_syncVars PROVE Sound'
    OBVIOUS
  <1>1. CASE (Kernel \/ ElseWhere) /\ UNCHANGED sync
    BY <1>1, TickSound, WakeSound, SwitchSound, TailSound, SleepSound DEF Kernel, ElseWhere, Disciplined
  <1>2. CASE Primitives
    BY <1>2, LockSound, UnlockSound, SemLoopSound, PostSound DEF Primitives
  <1>3. CASE UNCHANGED syncVars
    <2>1. UNCHANGED sync /\ UNCHANGED vars
      BY <1>3 DEF syncVars
    <2>2. AliveInv' /\ LinkInv' /\ LoopInv'
      BY <2>1 DEF Sound, AliveInv, LinkInv, LoopInv, Entering, sync, mutex, sem, vars, lists
    <2>3. MutexInv' /\ SemInv'
      BY <2>1, KeepsWoken DEF Sound, vars
    <2> QED
      BY <2>2, <2>3 DEF Sound
  <1> QED
    BY <1>1, <1>2, <1>3, StartSound DEF SyncNext

LEMMA SyncInvariant == SyncSpec => []SyncInv
  <1>1. Disciplined' = Disciplined
    BY DEF Disciplined
  <1>2. SyncInv /\ [SyncNext]_syncVars => SyncInv'
    BY <1>1, SyncNextTypes, SyncNextSound DEF SyncInv
  <1> QED
    BY SyncInitInv, <1>2, PTL DEF SyncSpec

\* mutex_lock and mutex_unlock keep every other thread out, for any number of threads and
\* however the timer, sleeping threads and the semaphore interleave with them.
THEOREM MutexExcludes == SyncSpec => [](Disciplined => MutualExclusion)
  <1>1. SyncInv => (Disciplined => MutualExclusion)
    BY DEF SyncInv, Sound, MutexInv, MutualExclusion
  <1> QED
    BY SyncInvariant, <1>1, PTL

\* mutex_unlock never leaves the mutex free with threads queued and nobody awake to take it.
THEOREM UnlockReachesWaiter == SyncSpec => [](Disciplined => NoLostUnlock)
  <1>1. SyncInv => (Disciplined => NoLostUnlock)
    BY DEF SyncInv, Sound, MutexInv
  <1> QED
    BY SyncInvariant, <1>1, PTL

\* sem_wait takes no unit that is not there, and sem_post wakes a waiter for every unit.
THEOREM PostReachesWaiter == SyncSpec => [](Disciplined => NoLostPost)
  <1>1. SyncInv => (Disciplined => NoLostPost)
    BY DEF SyncInv, Sound, SemInv
  <1> QED
    BY SyncInvariant, <1>1, PTL
=============================================================================
