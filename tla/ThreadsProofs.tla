--------------------------- MODULE ThreadsProofs ---------------------------
(***************************************************************************)
(* The thread manager for every number of threads, every size of the free  *)
(* list and of the thread table: its types, and, unless a kill hits a      *)
(* thread that is already dead, the ownership of the queue links, of the   *)
(* stacks and of the control blocks.                                       *)
(***************************************************************************)
EXTENDS Threads, SequenceTheorems, WellFoundedInduction, TLAPS

\* The first match of a loop over an array exists when there is a match.
LEMMA Smallest ==
    ASSUME NEW S \in SUBSET Nat, S # {}
    PROVE  \E x \in S : \A y \in S : x <= y
  <1>1. PICK x \in S : \A y \in S : <<y, x>> \notin OpToRel(<, Nat)
    BY NatLessThanWellFounded, WFMin, Zenon
  <1>2. ASSUME NEW y \in S PROVE x <= y
    <2>1. <<y, x>> \in Nat \X Nat
      OBVIOUS
    <2>2. ~(y < x)
      BY <1>1, <2>1 DEF OpToRel
    <2> QED
      BY <2>2
  <1> QED
    BY <1>2

(***************************************************************************)
(* What the queue primitives do to a queue.                                *)
(***************************************************************************)

LEMMA RemoveAtFacts ==
    ASSUME NEW S, NEW q \in Seq(S), NEW k \in 1..Len(q)
    PROVE  /\ RemoveAt(q, k) \in Seq(S)
           /\ Len(RemoveAt(q, k)) = Len(q) - 1
           /\ \A j \in 1..(Len(q) - 1) : RemoveAt(q, k)[j] = IF j < k THEN q[j] ELSE q[j+1]
  <1> DEFINE a == SubSeq(q, 1, k-1)
             b == SubSeq(q, k+1, Len(q))
  <1>1. a \in Seq(S) /\ Len(a) = k - 1 /\ \A j \in 1..(k-1) : a[j] = q[j]
    BY SubSeqProperties
  <1>2. b \in Seq(S) /\ Len(b) = Len(q) - k /\ \A j \in 1..(Len(q)-k) : b[j] = q[k + j]
    BY SubSeqProperties
  <1>3. RemoveAt(q, k) = a \o b
    BY DEF RemoveAt
  <1> HIDE DEF a, b
  <1> QED
    BY <1>1, <1>2, <1>3, ConcatProperties

\* thread_enqueue and sleep_enqueue.
LEMMA EnqueueFacts ==
    ASSUME NEW q \in Seq(TCB), NEW t \in TCB
    PROVE  /\ Append(q, t) \in Seq(TCB)
           /\ Append(q, t) # <<>>
           /\ \A x : InQueue(Append(q, t), x) <=> InQueue(q, x) \/ x = t
           /\ NoRepeat(q) /\ ~InQueue(q, t) => NoRepeat(Append(q, t))
  <1>1. /\ Append(q, t) \in Seq(TCB) /\ Len(Append(q, t)) = Len(q) + 1
        /\ \A j \in 1..Len(q) : Append(q, t)[j] = q[j]
        /\ Append(q, t)[Len(q) + 1] = t
    BY AppendProperties
  <1> QED
    BY <1>1 DEF InQueue, NoRepeat

\* thread_dequeue.
LEMMA DequeueFacts ==
    ASSUME NEW q \in Seq(TCB), q # <<>>
    PROVE  /\ Tail(q) \in Seq(TCB) /\ Head(q) \in TCB /\ InQueue(q, Head(q))
           /\ NoRepeat(q) => /\ NoRepeat(Tail(q))
                             /\ \A x : InQueue(Tail(q), x) <=> InQueue(q, x) /\ x # Head(q)
  <1>1. /\ Tail(q) \in Seq(TCB) /\ Len(Tail(q)) = Len(q) - 1 /\ Len(q) > 0
        /\ Head(q) = q[1] /\ Head(q) \in TCB
        /\ \A j \in 1..(Len(q) - 1) : Tail(q)[j] = q[j+1]
    BY HeadTailProperties
  <1>2. InQueue(q, Head(q))
    BY <1>1 DEF InQueue
  <1>3. ASSUME NoRepeat(q) PROVE NoRepeat(Tail(q))
    BY <1>1, <1>3 DEF NoRepeat
  <1>4. ASSUME NoRepeat(q), NEW x PROVE InQueue(Tail(q), x) <=> InQueue(q, x) /\ x # Head(q)
    <2>1. ASSUME NEW j \in 1..Len(Tail(q)), Tail(q)[j] = x PROVE InQueue(q, x) /\ x # Head(q)
      <3>1. j + 1 \in 1..Len(q) /\ q[j+1] = x /\ 1 \in 1..Len(q) /\ j + 1 # 1
        BY <1>1, <2>1
      <3> QED
        BY <1>1, <1>4, <3>1 DEF InQueue, NoRepeat
    <2>2. ASSUME NEW j \in 1..Len(q), q[j] = x, x # Head(q) PROVE InQueue(Tail(q), x)
      <3>1. j - 1 \in 1..Len(Tail(q)) /\ Tail(q)[j-1] = x
        BY <1>1, <2>2
      <3> QED
        BY <3>1 DEF InQueue
    <2> QED
      BY <2>1, <2>2 DEF InQueue
  <1> QED
    BY <1>1, <1>2, <1>3, <1>4

\* Unlinking the element at position k.
LEMMA RemoveFacts ==
    ASSUME NEW q \in Seq(TCB), NEW k \in 1..Len(q), NoRepeat(q)
    PROVE  /\ NoRepeat(RemoveAt(q, k))
           /\ \A x : InQueue(RemoveAt(q, k), x) <=> InQueue(q, x) /\ x # q[k]
  <1> DEFINE r == RemoveAt(q, k)
  <1>1. /\ Len(q) \in Nat /\ Len(r) = Len(q) - 1
        /\ \A j \in 1..(Len(q) - 1) : r[j] = IF j < k THEN q[j] ELSE q[j+1]
    BY RemoveAtFacts
  <1> HIDE DEF r
  <1>2. NoRepeat(r)
    BY <1>1 DEF NoRepeat
  <1>3. ASSUME NEW x PROVE InQueue(r, x) <=> InQueue(q, x) /\ x # q[k]
    <2>1. ASSUME NEW j \in 1..Len(r), r[j] = x PROVE InQueue(q, x) /\ x # q[k]
      <3>1. CASE j < k
        BY <1>1, <2>1, <3>1 DEF InQueue, NoRepeat
      <3>2. CASE ~(j < k)
        <4>1. j + 1 \in 1..Len(q) /\ q[j+1] = x /\ j + 1 # k
          BY <1>1, <2>1, <3>2
        <4> QED
          BY <4>1 DEF InQueue, NoRepeat
      <3> QED
        BY <3>1, <3>2
    <2>2. ASSUME NEW j \in 1..Len(q), q[j] = x, x # q[k] PROVE InQueue(r, x)
      <3>1. CASE j < k
        BY <1>1, <2>2, <3>1 DEF InQueue
      <3>2. CASE j > k
        <4>1. j - 1 \in 1..Len(r) /\ r[j-1] = x
          BY <1>1, <2>2, <3>2
        <4> QED
          BY <4>1 DEF InQueue
      <3> QED
        BY <2>2, <3>1, <3>2
    <2> QED
      BY <2>1, <2>2 DEF InQueue
  <1> QED
    BY <1>2, <1>3 DEF r

\* remove_from_sleep_queue, and KillThread's walk through the ready queue.
LEMMA UnlinkFacts ==
    ASSUME NEW q \in Seq(TCB), NEW t \in TCB
    PROVE  /\ Unlink(q, t) \in Seq(TCB)
           /\ NoRepeat(q) => /\ NoRepeat(Unlink(q, t))
                             /\ \A x : InQueue(Unlink(q, t), x) <=> InQueue(q, x) /\ x # t
  <1>1. CASE ~InQueue(q, t)
    BY <1>1 DEF Unlink, InQueue
  <1>2. CASE InQueue(q, t)
    <2> DEFINE K == {k \in 1..Len(q) : q[k] = t}
    <2>1. K \in SUBSET Nat /\ K # {}
      BY <1>2 DEF InQueue
    <2>2. PICK m \in K : \A k \in K : m <= k
      <3> HIDE DEF K
      <3> QED
        BY <2>1, Smallest
    <2>3. m \in 1..Len(q) /\ q[m] = t /\ \A j \in 1..(m-1) : q[j] # t
      BY <2>2
    <2>4. IndexOf(q, t) \in 1..Len(q) /\ q[IndexOf(q, t)] = t
      <3>1. \E k \in 1..Len(q) : q[k] = t /\ \A j \in 1..(k-1) : q[j] # t
        BY <2>3
      <3> QED
        BY <3>1, Zenon DEF IndexOf
    <2>5. Unlink(q, t) = RemoveAt(q, IndexOf(q, t))
      BY <1>2 DEF Unlink, InQueue
    <2>6. Unlink(q, t) \in Seq(TCB)
      BY <2>4, <2>5, RemoveAtFacts
    <2>7. ASSUME NoRepeat(q)
          PROVE  /\ NoRepeat(Unlink(q, t))
                 /\ \A x : InQueue(Unlink(q, t), x) <=> InQueue(q, x) /\ x # t
      BY <2>4, <2>5, <2>7, RemoveFacts
    <2> QED
      BY <2>6, <2>7
  <1> QED
    BY <1>1, <1>2

-----------------------------------------------------------------------------
\* No kill hits a thread that is already dead: KillTest is not repeated on one, and no
\* thread exits by itself where CleanAllThreads may be about to kill it.
Benign == ~StaleKill /\ (Shutdown => Kinds \subseteq {"test"})

TypeInv ==
    /\ TypeOK
    /\ free_tcb_list[0] = NULL
    /\ phase = "tail" => schedule_prev_thread # NULL

Table == 0..(TORT_SIZE-1)

\* In schedule() nobody is RUNNING; the shell's thread is never blocked nor dead.
RunInv ==
    /\ phase = "wake" => state[current_thread] # "RUNNING"
    /\ state[main] \in {"READY", "RUNNING"}
    /\ test_thread # main
    /\ \A p \in Table : TORT[p] # main

\* What Pmm_Malloc may give out for a control block is no thread and is not listed.
HeapInv == \A t \in heap : state[t] = "NONE" /\ \A p \in Table : TORT[p] # t

\* What CleanAllThreads is about to kill is alive.
CleanInv ==
    /\ Shutdown => \A t \in TCB \ {main, idle} : Live(t) => kind[t] = "test"
    /\ Shutdown => \A p \in Table : TORT[p] # NULL => Live(TORT[p])
    /\ ~Shutdown => clean = TORT_SIZE
    /\ victim # NULL => clean < TORT_SIZE /\ Live(victim) /\ victim # main

Safe == /\ QueueOwnership /\ StackSafety /\ FreeBlocksUnused /\ TableAgrees
        /\ RunInv /\ HeapInv /\ CleanInv

IInv == TypeInv /\ (Benign => Safe)

-----------------------------------------------------------------------------
LEMMA InitTypeInv == Init => TypeInv
  <1> SUFFICES ASSUME Init PROVE TypeInv
    OBVIOUS
  <1> USE ThreadsAssumption
  <1>1. ready_queue \in Seq(TCB) /\ sleep_queue \in Seq(TCB)
    BY DEF Init
  <1>2. intr \in BOOLEAN
    BY Zenon DEF Init
  <1>3. /\ state \in [TCB -> States] /\ frame \in [TCB -> Frames]
        /\ wakeup \in [TCB -> 0..MaxSleep]
        /\ kind \in [TCB -> {"main", "idle", "test", "task", "user"}]
        /\ PositionInTable \in [TCB -> 0..(TORT_SIZE-1)]
    BY DEF Init, States, Frames
  <1>4. /\ free_tcb_list \in [0..FREE_TCB_LIST_SIZE -> TCB \cup {NULL}]
        /\ TORT \in [0..(TORT_SIZE-1) -> TCB \cup {NULL}]
        /\ free_tcb_list[0] = NULL
    BY DEF Init
  <1>5. num_of_FreeTCB \in 0..FREE_TCB_LIST_SIZE /\ next_TORT_Position \in 1..TORT_SIZE /\ clean \in 0..TORT_SIZE
    BY DEF Init
  <1> QED
    BY <1>1, <1>2, <1>3, <1>4, <1>5 DEF Init, TypeInv, TypeOK

\* The part of the type invariant that schedule() changes.
LEMMA ScheduleTypes ==
    ASSUME TypeOK, NEW st \in [TCB -> States], NEW fr \in Frames, Schedule(st, fr)
    PROVE  /\ state' \in [TCB -> States] /\ frame' \in [TCB -> Frames]
           /\ ready_queue' \in Seq(TCB) /\ phase' = "wake" /\ intr' \in BOOLEAN
  BY ZenonT(60), EnqueueFacts DEF Schedule, TypeOK, thread_enqueue, States

\* The part that KillThread changes.
LEMMA KillTypes ==
    ASSUME TypeInv, NEW t \in TCB, KillThread(t)
    PROVE  /\ state' \in [TCB -> States]
           /\ ready_queue' \in Seq(TCB) /\ sleep_queue' \in Seq(TCB)
           /\ stack' \subseteq TCB
           /\ free_tcb_list' \in [0..FREE_TCB_LIST_SIZE -> TCB \cup {NULL}]
           /\ num_of_FreeTCB' \in 0..FREE_TCB_LIST_SIZE
           /\ TORT' \in [0..(TORT_SIZE-1) -> TCB \cup {NULL}]
           /\ free_tcb_list'[0] = NULL
  <1> USE ThreadsAssumption DEF TypeInv, TypeOK
  <1>1. state' \in [TCB -> States] /\ stack' \subseteq TCB
    BY DEF KillThread, States
  <1>2. ready_queue' \in Seq(TCB) /\ sleep_queue' \in Seq(TCB)
    BY UnlinkFacts DEF KillThread
  <1>3. TORT' \in [0..(TORT_SIZE-1) -> TCB \cup {NULL}]
    BY DEF KillThread, Unlisted
  <1>4. CASE num_of_FreeTCB < FREE_TCB_LIST_SIZE
    <2>1. num_of_FreeTCB + 1 \in 1..FREE_TCB_LIST_SIZE
      BY <1>4
    <2>2. /\ num_of_FreeTCB' = num_of_FreeTCB + 1
          /\ free_tcb_list' = [free_tcb_list EXCEPT ![num_of_FreeTCB + 1] = t]
      BY <1>4 DEF KillThread
    <2>3. free_tcb_list' \in [0..FREE_TCB_LIST_SIZE -> TCB \cup {NULL}]
      BY <2>1, <2>2
    <2>4. free_tcb_list'[0] = free_tcb_list[0]
      BY <2>1, <2>2
    <2>5. num_of_FreeTCB' \in 0..FREE_TCB_LIST_SIZE
      BY <2>1, <2>2
    <2> QED
      BY <1>1, <1>2, <1>3, <2>3, <2>4, <2>5
  <1>5. CASE ~(num_of_FreeTCB < FREE_TCB_LIST_SIZE)
    BY <1>1, <1>2, <1>3, <1>5 DEF KillThread
  <1> QED
    BY <1>4, <1>5

\* The part that taking a control block and entering it into TORT change.
LEMMA TakeTypes ==
    ASSUME TypeInv, NEW k \in Kinds, NEW t \in NewTCB(k), TakeTCB(k)
    PROVE  /\ t \in TCB
           /\ free_tcb_list' \in [0..FREE_TCB_LIST_SIZE -> TCB \cup {NULL}]
           /\ num_of_FreeTCB' \in 0..FREE_TCB_LIST_SIZE
           /\ free_tcb_list'[0] = NULL
  <1> USE ThreadsAssumption DEF TypeInv, TypeOK
  <1>1. CASE FromFreeList(k)
    <2>1. /\ t = free_tcb_list[num_of_FreeTCB] /\ t # NULL
          /\ free_tcb_list' = [free_tcb_list EXCEPT ![num_of_FreeTCB] = NULL]
          /\ num_of_FreeTCB' = num_of_FreeTCB - 1
      BY <1>1 DEF NewTCB, TakeTCB, FromFreeList
    <2>2. num_of_FreeTCB # 0
      BY <2>1
    <2>3. num_of_FreeTCB' \in 0..FREE_TCB_LIST_SIZE
      BY <2>1, <2>2
    <2>4. free_tcb_list' \in [0..FREE_TCB_LIST_SIZE -> TCB \cup {NULL}] /\ free_tcb_list'[0] = NULL
      BY <2>1
    <2>5. t \in TCB
      BY <2>1
    <2> QED
      BY <2>3, <2>4, <2>5
  <1>2. CASE ~FromFreeList(k)
    BY <1>2 DEF NewTCB, TakeTCB
  <1> QED
    BY <1>1, <1>2

LEMMA EnterTypes ==
    ASSUME TypeOK, NEW t \in TCB, EnterTable(t)
    PROVE  /\ TORT' \in [0..(TORT_SIZE-1) -> TCB \cup {NULL}]
           /\ next_TORT_Position' \in 1..TORT_SIZE
           /\ PositionInTable' \in [TCB -> 0..(TORT_SIZE-1)]
  <1> USE ThreadsAssumption DEF TypeOK
  <1>1. CASE next_TORT_Position < TORT_SIZE
    <2>1. next_TORT_Position \in 0..(TORT_SIZE-1) /\ next_TORT_Position + 1 \in 1..TORT_SIZE
      BY <1>1
    <2>2. /\ PositionInTable' = [PositionInTable EXCEPT ![t] = next_TORT_Position]
          /\ TORT' = [TORT EXCEPT ![next_TORT_Position] = t]
          /\ next_TORT_Position' = next_TORT_Position + 1
      BY <1>1 DEF EnterTable
    <2> QED
      BY <2>1, <2>2
  <1>2. CASE ~(next_TORT_Position < TORT_SIZE)
    <2>1. 0 \in 0..(TORT_SIZE-1)
      OBVIOUS
    <2> QED
      BY <1>2, <2>1 DEF EnterTable
  <1> QED
    BY <1>1, <1>2

LEMMA KernelTypes == TypeInv /\ Kernel => TypeInv'
  <1> SUFFICES ASSUME TypeInv, Kernel PROVE TypeInv'
    OBVIOUS
  <1> USE ThreadsAssumption
  <1>1. CASE Tick
    <2>1. wakeup' \in [TCB -> 0..MaxSleep]
      <3>1. \A w \in 0..MaxSleep : Sooner(w) \in 0..MaxSleep
        BY DEF Sooner
      <3> QED
        BY <1>1, <3>1 DEF Tick, TypeInv, TypeOK
    <2>2. /\ state' \in [TCB -> States] /\ frame' \in [TCB -> Frames]
          /\ ready_queue' \in Seq(TCB) /\ phase' = "wake" /\ intr' \in BOOLEAN
      BY <1>1, ScheduleTypes DEF Tick, TypeInv, TypeOK, Frames
    <2> QED
      BY <1>1, <2>1, <2>2 DEF Tick, TypeInv, TypeOK, lists, shell
  <1>2. CASE WakeSleeping
    <2>1. PICK k \in 1..Len(sleep_queue) :
               /\ sleep_queue' = RemoveAt(sleep_queue, k)
               /\ ready_queue' = Append(ready_queue, sleep_queue[k])
               /\ state' = [state EXCEPT ![sleep_queue[k]] = "READY"]
      BY <1>2 DEF WakeSleeping, thread_enqueue
    <2>2. ready_queue \in Seq(TCB) /\ sleep_queue \in Seq(TCB) /\ sleep_queue[k] \in TCB
      BY DEF TypeInv, TypeOK
    <2>3. sleep_queue' \in Seq(TCB)
      BY <2>1, <2>2, RemoveAtFacts
    <2>4. ready_queue' \in Seq(TCB)
      BY <2>1, <2>2, EnqueueFacts
    <2>5. state' \in [TCB -> States]
      BY <2>1, <2>2 DEF TypeInv, TypeOK, States
    <2>6. intr' \in BOOLEAN
      BY <1>2, Zenon DEF WakeSleeping, TypeInv, TypeOK
    <2> QED
      BY <1>2, <2>3, <2>4, <2>5, <2>6 DEF WakeSleeping, TypeInv, TypeOK, lists, shell
  <1>3. CASE SwitchTo
    <2>1. NextThread \in TCB
      BY DequeueFacts DEF NextThread, TypeInv, TypeOK
    <2>2. ready_queue' \in Seq(TCB)
      BY <1>3, DequeueFacts DEF SwitchTo, TypeInv, TypeOK
    <2>3. state' \in [TCB -> States]
      BY <1>3, <2>1 DEF SwitchTo, TypeInv, TypeOK, States
    <2>4. frame' \in [TCB -> Frames] /\ phase' \in {"run", "tail"}
      BY <1>3, <2>1 DEF SwitchTo, TypeInv, TypeOK, Frames
    <2>5. intr' \in BOOLEAN
      BY <1>3, Zenon DEF SwitchTo, TypeInv, TypeOK
    <2>6. schedule_prev_thread' \in TCB /\ schedule_prev_thread' # NULL
      BY <1>3 DEF SwitchTo, TypeInv, TypeOK
    <2> QED
      BY <1>3, <2>1, <2>2, <2>3, <2>4, <2>5, <2>6 DEF SwitchTo, TypeInv, TypeOK, lists, shell
  <1>4. CASE ScheduleTail
    <2>1. frame' \in [TCB -> Frames] /\ phase' = "run" /\ schedule_prev_thread' = NULL
      BY <1>4 DEF ScheduleTail, TypeInv, TypeOK, Frames
    <2>2. CASE MustBury
      <3>1. schedule_prev_thread \in TCB /\ KillThread(schedule_prev_thread) /\ intr' = TRUE
        BY <1>4, <2>2 DEF ScheduleTail, TypeInv, TypeOK
      <3>2. intr' \in BOOLEAN
        BY <3>1, Zenon
      <3> QED
        BY <1>4, <2>1, <3>1, <3>2, KillTypes DEF ScheduleTail, TypeInv, TypeOK, shell
    <2>3. CASE ~MustBury
      <3>1. intr' \in BOOLEAN
        BY <1>4, <2>3 DEF ScheduleTail, InterruptsAfter
      <3> QED
        BY <1>4, <2>1, <2>3, <3>1 DEF ScheduleTail, TypeInv, TypeOK, shell, lists
    <2> QED
      BY <2>2, <2>3
  <1> QED
    BY <1>1, <1>2, <1>3, <1>4 DEF Kernel

LEMMA ThreadCodeTypes == TypeInv /\ ThreadCode => TypeInv'
  <1> SUFFICES ASSUME TypeInv, ThreadCode PROVE TypeInv'
    OBVIOUS
  <1> USE ThreadsAssumption
  <1>1. CASE ThreadSleep
    <2>1. wakeup' \in [TCB -> 0..MaxSleep]
      BY <1>1 DEF ThreadSleep, TypeInv, TypeOK
    <2>2. sleep_queue' \in Seq(TCB)
      BY <1>1, EnqueueFacts DEF ThreadSleep, TypeInv, TypeOK, sleep_enqueue
    <2>3. [state EXCEPT ![current_thread] = "BLOCKED"] \in [TCB -> States] /\ "sleep" \in Frames
      BY DEF TypeInv, TypeOK, States, Frames
    <2>4. /\ state' \in [TCB -> States] /\ frame' \in [TCB -> Frames]
          /\ ready_queue' \in Seq(TCB) /\ phase' = "wake" /\ intr' \in BOOLEAN
      BY <1>1, <2>3, ScheduleTypes DEF ThreadSleep, TypeInv
    <2> QED
      BY <1>1, <2>1, <2>2, <2>4 DEF ThreadSleep, TypeInv, TypeOK, lists, shell
  <1>2. CASE Yield
    <2>1. state \in [TCB -> States] /\ "yield" \in Frames
      BY DEF TypeInv, TypeOK, Frames
    <2>2. /\ state' \in [TCB -> States] /\ frame' \in [TCB -> Frames]
          /\ ready_queue' \in Seq(TCB) /\ phase' = "wake" /\ intr' \in BOOLEAN
      BY <1>2, <2>1, ScheduleTypes DEF Yield, TypeInv
    <2> QED
      BY <1>2, <2>2 DEF Yield, TypeInv, TypeOK, lists, shell
  <1>3. CASE ThreadExit
    <2>1. sleep_queue' \in Seq(TCB)
      BY <1>3, UnlinkFacts DEF ThreadExit, TypeInv, TypeOK
    <2>2. [state EXCEPT ![current_thread] = "TERMINATED"] \in [TCB -> States] /\ "exit" \in Frames
      BY DEF TypeInv, TypeOK, States, Frames
    <2>3. /\ state' \in [TCB -> States] /\ frame' \in [TCB -> Frames]
          /\ ready_queue' \in Seq(TCB) /\ phase' = "wake" /\ intr' \in BOOLEAN
      BY <1>3, <2>2, ScheduleTypes DEF ThreadExit, TypeInv
    <2> QED
      BY <1>3, <2>1, <2>3 DEF ThreadExit, TypeInv, TypeOK, lists, shell
  <1> QED
    BY <1>1, <1>2, <1>3 DEF ThreadCode

\* The thread t of kind k has been created.
Created(k, t) ==
    /\ TakeTCB(k)
    /\ heap' = heap \ {t}
    /\ kind' = [kind EXCEPT ![t] = k]
    /\ state' = [state EXCEPT ![t] = "READY"]
    /\ frame' = [frame EXCEPT ![t] = "new"]
    /\ wakeup' = [wakeup EXCEPT ![t] = 0]
    /\ stack' = stack \cup {t}
    /\ ready_queue' = Append(ready_queue, t)
    /\ EnterTable(t)
    /\ test_thread' = IF k = "test" THEN t ELSE test_thread

LEMMA ShellCodeTypes == TypeInv /\ ShellCode => TypeInv'
  <1> SUFFICES ASSUME TypeInv, ShellCode PROVE TypeInv'
    OBVIOUS
  <1> USE ThreadsAssumption
  <1>1. CASE CreateThread
    <2>a. PICK k \in Kinds : \E t \in NewTCB(k) : Created(k, t)
      BY <1>1 DEF CreateThread, Created, thread_enqueue
    <2>b. PICK t \in NewTCB(k) : Created(k, t)
      BY <2>a
    <2>1. Created(k, t)
      BY <2>b
    <2> USE DEF Created
    <2>2. /\ t \in TCB
          /\ free_tcb_list' \in [0..FREE_TCB_LIST_SIZE -> TCB \cup {NULL}]
          /\ num_of_FreeTCB' \in 0..FREE_TCB_LIST_SIZE
          /\ free_tcb_list'[0] = NULL
      BY <2>1, TakeTypes
    <2>3. /\ TORT' \in [0..(TORT_SIZE-1) -> TCB \cup {NULL}]
          /\ next_TORT_Position' \in 1..TORT_SIZE
          /\ PositionInTable' \in [TCB -> 0..(TORT_SIZE-1)]
      BY <2>1, <2>2, EnterTypes DEF TypeInv
    <2>4. ready_queue' \in Seq(TCB)
      BY <2>1, <2>2, EnqueueFacts DEF TypeInv, TypeOK
    <2>5. /\ state' \in [TCB -> States] /\ frame' \in [TCB -> Frames]
          /\ wakeup' \in [TCB -> 0..MaxSleep]
          /\ kind' \in [TCB -> {"main", "idle", "test", "task", "user"}]
      BY SMTT(30), <2>1, <2>2 DEF TypeInv, TypeOK, States, Frames
    <2>6. intr' \in BOOLEAN
      BY <1>1, Zenon DEF CreateThread
    <2>7. UNCHANGED <<current_thread, schedule_prev_thread, sleep_queue, phase, clean, victim>>
      BY <1>1 DEF CreateThread
    <2>8. heap' \subseteq TCB /\ stack' \subseteq TCB /\ test_thread' \in TCB \cup {NULL}
      BY <2>1, <2>2 DEF TypeInv, TypeOK
    <2> QED
      BY <2>2, <2>3, <2>4, <2>5, <2>6, <2>7, <2>8 DEF TypeInv, TypeOK
  <1>2. CASE CreateThreadFails
    <2>1. PICK k \in Kinds :
         /\ \/ ~FromFreeList(k) /\ UNCHANGED <<free_tcb_list, num_of_FreeTCB, heap, state>>
            \/ \E t \in NewTCB(k) :
                 /\ TakeTCB(k)
                 /\ heap' = heap \cup {t}
                 /\ state' = [state EXCEPT ![t] = "NONE"]
         /\ test_thread' = IF k = "test" THEN NULL ELSE test_thread
      BY <1>2 DEF CreateThreadFails
    <2>2. intr' \in BOOLEAN
      BY <1>2, Zenon DEF CreateThreadFails
    <2>3. CASE UNCHANGED <<free_tcb_list, num_of_FreeTCB, heap, state>>
      BY <1>2, <2>1, <2>2, <2>3 DEF CreateThreadFails, TypeInv, TypeOK
    <2>4. ASSUME NEW t \in NewTCB(k), TakeTCB(k), heap' = heap \cup {t},
                 state' = [state EXCEPT ![t] = "NONE"]
          PROVE  TypeInv'
      <3>1. /\ t \in TCB
            /\ free_tcb_list' \in [0..FREE_TCB_LIST_SIZE -> TCB \cup {NULL}]
            /\ num_of_FreeTCB' \in 0..FREE_TCB_LIST_SIZE
            /\ free_tcb_list'[0] = NULL
        BY <2>4, TakeTypes
      <3>2. state' \in [TCB -> States] /\ heap' \subseteq TCB
        BY <2>4, <3>1 DEF TypeInv, TypeOK, States
      <3> QED
        BY <1>2, <2>1, <2>2, <3>1, <3>2 DEF CreateThreadFails, TypeInv, TypeOK
    <2> QED
      BY <2>1, <2>3, <2>4
  <1>3. CASE KillTest
    <2>1. test_thread \in TCB /\ KillThread(test_thread)
      BY <1>3 DEF KillTest, TypeInv, TypeOK
    <2>2. intr' \in BOOLEAN
      BY <1>3, Zenon DEF KillTest
    <2> QED
      BY <1>3, <2>1, <2>2, KillTypes DEF KillTest, TypeInv, TypeOK, shell
  <1>4. CASE CleanAllThreads
    <2>1. intr' \in BOOLEAN
      BY <1>4, Zenon DEF CleanAllThreads, TypeInv, TypeOK
    <2> QED
      BY SMTT(30), <1>4, <2>1 DEF CleanAllThreads, TypeInv, TypeOK, lists
  <1>5. CASE CleanRead
    <2>1. intr' \in BOOLEAN
      BY <1>5, Zenon DEF CleanRead, TypeInv, TypeOK
    <2>a. clean \in 0..(TORT_SIZE-1) /\ clean + 1 \in 0..TORT_SIZE
      BY <1>5 DEF CleanRead, TypeInv, TypeOK
    <2>b. TORT[clean] \in TCB \cup {NULL}
      BY <2>a DEF TypeInv, TypeOK
    <2>2. clean' \in 0..TORT_SIZE /\ victim' \in TCB \cup {NULL}
      BY <1>5, <2>a, <2>b DEF CleanRead, TypeInv, TypeOK
    <2> QED
      BY <1>5, <2>1, <2>2 DEF CleanRead, TypeInv, TypeOK, lists
  <1>6. CASE CleanKill
    <2>1. victim \in TCB /\ KillThread(victim)
      BY <1>6 DEF CleanKill, TypeInv, TypeOK
    <2>2. intr' \in BOOLEAN
      BY <1>6, Zenon DEF CleanKill
    <2>3. clean' \in 0..TORT_SIZE
      BY <1>6 DEF CleanKill, TypeInv, TypeOK
    <2> QED
      BY <1>6, <2>1, <2>2, <2>3, KillTypes DEF CleanKill, TypeInv, TypeOK
  <1> QED
    BY <1>1, <1>2, <1>3, <1>4, <1>5, <1>6 DEF ShellCode

LEMMA StutterTypes == TypeInv /\ UNCHANGED vars => TypeInv'
  <1> SUFFICES ASSUME TypeInv, UNCHANGED vars PROVE TypeInv'
    OBVIOUS
  <1>1. intr' \in BOOLEAN
    BY Zenon DEF vars, TypeInv, TypeOK
  <1> QED
    BY <1>1 DEF vars, lists, shell, TypeInv, TypeOK

LEMMA TypeInvariant == Spec => []TypeInv
  <1>1. TypeInv /\ [Next]_vars => TypeInv'
    BY KernelTypes, ThreadCodeTypes, ShellCodeTypes, StutterTypes DEF Next
  <1> QED
    BY InitTypeInv, <1>1, PTL DEF Spec

\* Every variable of Thread.c keeps its type, whatever is killed: the index of the free
\* list never leaves its range and the thread table never gets an entry past its end.
THEOREM ThreadTypes == Spec => []TypeOK
  <1>1. TypeInv => TypeOK
    BY DEF TypeInv
  <1> QED
    BY TypeInvariant, <1>1, PTL

-----------------------------------------------------------------------------
(***************************************************************************)
(* The safety invariant.  SafeBut is Safe without what the queues say.     *)
(***************************************************************************)
SafeBut ==
    /\ StackSafety /\ FreeBlocksUnused /\ TableAgrees /\ HeapInv /\ CleanInv
    /\ state[main] \in {"READY", "RUNNING"}
    /\ test_thread # main
    /\ \A p \in Table : TORT[p] # main

LEMMA InitSafe == Init => Safe
  <1> SUFFICES ASSUME Init PROVE Safe
    OBVIOUS
  <1> USE ThreadsAssumption
  <1>1. QueueOwnership
    BY DEF Init, QueueOwnership, NoRepeat, InQueue
  <1>2. StackSafety
    BY DEF Init, StackSafety, Live
  <1>3. FreeBlocksUnused
    BY DEF Init, FreeBlocksUnused, FreeSlots
  <1>4. TableAgrees
    BY DEF Init, TableAgrees
  <1>5. RunInv
    BY DEF Init, RunInv, Table
  <1>6. HeapInv
    BY DEF Init, HeapInv, Table
  <1>7. CleanInv
    BY DEF Init, CleanInv, Table, Live
  <1> QED
    BY <1>1, <1>2, <1>3, <1>4, <1>5, <1>6, <1>7 DEF Safe

\* A step that only changes the state of one thread that is alive: the scheduler's own
\* steps and the calls that lead into schedule().
LEMMA StateStep ==
    ASSUME TypeInv, Safe, NEW t \in TCB, Live(t),
           state'[t] \in {"READY", "RUNNING", "BLOCKED", "TERMINATED"},
           \A x \in TCB : x # t => state'[x] = state[x],
           state'[t] = "TERMINATED" => ~Shutdown,
           t = main => state'[t] \in {"READY", "RUNNING"},
           UNCHANGED <<stack, heap, lists, kind, PositionInTable, shell>>,
           current_thread' \in stack,
           phase' = "tail" => schedule_prev_thread' \in stack
    PROVE  SafeBut'
  <1> USE ThreadsAssumption DEF TypeInv, TypeOK, Safe, lists, shell
  <1>1. StackSafety'
    BY DEF StackSafety, Live
  <1>2. FreeBlocksUnused'
    <2>1. UNCHANGED <<free_tcb_list, num_of_FreeTCB, TORT, stack, heap>>
      OBVIOUS
    <2>2. ASSUME NEW i \in FreeSlots
          PROVE  /\ free_tcb_list[i] \in TCB
                 /\ state'[free_tcb_list[i]] = "TERMINATED"
                 /\ free_tcb_list[i] \notin stack
                 /\ free_tcb_list[i] \notin heap
                 /\ phase' = "tail" => free_tcb_list[i] # schedule_prev_thread'
                 /\ \A p \in 0..(TORT_SIZE-1) : TORT[p] # free_tcb_list[i]
      <3>1. /\ free_tcb_list[i] \in TCB /\ state[free_tcb_list[i]] = "TERMINATED"
            /\ free_tcb_list[i] \notin stack /\ free_tcb_list[i] \notin heap
            /\ \A p \in 0..(TORT_SIZE-1) : TORT[p] # free_tcb_list[i]
        BY <2>2 DEF FreeBlocksUnused
      <3>2. free_tcb_list[i] # t
        BY <3>1 DEF Live
      <3> QED
        BY <3>1, <3>2
    <2>3. FreeSlots' = FreeSlots
      BY <2>1 DEF FreeSlots
    <2>4. \A i, j \in FreeSlots : i # j => free_tcb_list[i] # free_tcb_list[j]
      BY DEF FreeBlocksUnused
    <2> QED
      BY <2>1, <2>2, <2>3, <2>4 DEF FreeBlocksUnused
  <1>3. TableAgrees'
    BY DEF TableAgrees
  <1>4. HeapInv'
    <2>1. ASSUME NEW x \in heap
          PROVE  state'[x] = "NONE" /\ \A p \in Table : TORT[p] # x
      <3>1. x \in TCB /\ state[x] = "NONE" /\ \A p \in Table : TORT[p] # x
        BY <2>1 DEF HeapInv
      <3>2. x # t
        BY <3>1 DEF Live
      <3> QED
        BY <3>1, <3>2
    <2>2. TORT' = TORT /\ heap' = heap /\ Table' = Table
      BY DEF Table
    <2> QED
      BY <2>1, <2>2 DEF HeapInv
  <1>5. CleanInv'
    <2>1. CASE Shutdown
      BY <2>1 DEF CleanInv, Live, Table
    <2>2. CASE ~Shutdown
      BY <2>2 DEF CleanInv, Live, Table
    <2> QED
      BY <2>1, <2>2
  <1>6. state'[main] \in {"READY", "RUNNING"} /\ test_thread' # main /\ \A p \in Table : TORT'[p] # main
    BY DEF RunInv
  <1> QED
    BY <1>1, <1>2, <1>3, <1>4, <1>5, <1>6 DEF SafeBut

\* With interrupts on or in a call of its own, the running thread is marked so.
LEMMA RunningThread ==
    ASSUME TypeInv, Safe, phase # "wake"
    PROVE  /\ state[current_thread] = "RUNNING" /\ Live(current_thread)
           /\ current_thread \in TCB /\ current_thread \in stack
           /\ ~InQueue(ready_queue, current_thread) /\ ~InQueue(sleep_queue, current_thread)
  BY DEF Safe, QueueOwnership, StackSafety, TypeInv, TypeOK, Live

\* Tick and Yield: the running thread goes to the end of the ready queue.
LEMMA PreemptSafe ==
    ASSUME TypeInv, Safe, phase = "run", NEW fr, Schedule(state, fr),
           UNCHANGED <<current_thread, sleep_queue, stack, heap, lists, kind, PositionInTable, shell>>
    PROVE  Safe'
  <1> DEFINE c == current_thread
  <1>1. /\ state[c] = "RUNNING" /\ Live(c) /\ c \in TCB /\ c \in stack
        /\ ~InQueue(ready_queue, c) /\ ~InQueue(sleep_queue, c)
    BY RunningThread
  <1>2. /\ state' = [state EXCEPT ![c] = "READY"]
        /\ ready_queue' = Append(ready_queue, c)
        /\ phase' = "wake"
    BY <1>1 DEF Schedule, StillRunning, thread_enqueue
  <1>3. state'[c] = "READY" /\ \A x \in TCB : x # c => state'[x] = state[x]
    BY <1>1, <1>2 DEF TypeInv, TypeOK
  <1>4. SafeBut'
    BY <1>1, <1>2, <1>3, StateStep
  <1>5. NoRepeat(ready_queue') /\ \A x : InQueue(ready_queue', x) <=> InQueue(ready_queue, x) \/ x = c
    BY <1>1, <1>2, EnqueueFacts DEF Safe, QueueOwnership, TypeInv, TypeOK
  <1>6. QueueOwnership'
    BY <1>1, <1>2, <1>3, <1>5 DEF Safe, QueueOwnership
  <1> QED
    BY <1>3, <1>4, <1>6 DEF SafeBut, Safe, RunInv

LEMMA SleepSafe == TypeInv /\ Safe /\ ThreadSleep => Safe'
  <1> SUFFICES ASSUME TypeInv, Safe, ThreadSleep PROVE Safe'
    OBVIOUS
  <1> DEFINE c == current_thread
  <1>0. phase = "run" /\ c # main
    BY DEF ThreadSleep, Worker
  <1>1. /\ state[c] = "RUNNING" /\ Live(c) /\ c \in TCB /\ c \in stack
        /\ ~InQueue(ready_queue, c) /\ ~InQueue(sleep_queue, c)
    BY <1>0, RunningThread
  <1>2. /\ state' = [state EXCEPT ![c] = "BLOCKED"]
        /\ sleep_queue' = Append(sleep_queue, c)
        /\ phase' = "wake"
        /\ UNCHANGED <<current_thread, ready_queue, stack, heap, lists, kind, PositionInTable, shell>>
    BY <1>1 DEF ThreadSleep, Schedule, StillRunning, sleep_enqueue, TypeInv, TypeOK
  <1>3. state'[c] = "BLOCKED" /\ \A x \in TCB : x # c => state'[x] = state[x]
    BY <1>1, <1>2 DEF TypeInv, TypeOK
  <1>4. SafeBut'
    BY <1>0, <1>1, <1>2, <1>3, StateStep
  <1>5. NoRepeat(sleep_queue') /\ \A x : InQueue(sleep_queue', x) <=> InQueue(sleep_queue, x) \/ x = c
    BY <1>1, <1>2, EnqueueFacts DEF Safe, QueueOwnership, TypeInv, TypeOK
  <1>6. QueueOwnership'
    BY <1>1, <1>2, <1>3, <1>5 DEF Safe, QueueOwnership
  <1> QED
    BY <1>2, <1>3, <1>4, <1>6 DEF SafeBut, Safe, RunInv

LEMMA ExitSafe == TypeInv /\ Safe /\ ThreadExit => Safe'
  <1> SUFFICES ASSUME TypeInv, Safe, ThreadExit PROVE Safe'
    OBVIOUS
  <1> DEFINE c == current_thread
  <1>0. phase = "run" /\ c # main /\ c # idle /\ kind[c] # "test"
    BY DEF ThreadExit, Worker
  <1>1. /\ state[c] = "RUNNING" /\ Live(c) /\ c \in TCB /\ c \in stack
        /\ ~InQueue(ready_queue, c) /\ ~InQueue(sleep_queue, c)
    BY <1>0, RunningThread
  <1>2. /\ state' = [state EXCEPT ![c] = "TERMINATED"]
        /\ sleep_queue' = Unlink(sleep_queue, c)
        /\ phase' = "wake"
        /\ UNCHANGED <<current_thread, ready_queue, stack, heap, lists, kind, PositionInTable, shell>>
    BY <1>1 DEF ThreadExit, Schedule, StillRunning, TypeInv, TypeOK
  <1>3. state'[c] = "TERMINATED" /\ \A x \in TCB : x # c => state'[x] = state[x]
    BY <1>1, <1>2 DEF TypeInv, TypeOK
  <1>4. ~Shutdown
    BY <1>0, <1>1 DEF Safe, CleanInv
  <1>5. SafeBut'
    BY <1>0, <1>1, <1>2, <1>3, <1>4, StateStep
  <1>6. NoRepeat(sleep_queue') /\ \A x : InQueue(sleep_queue', x) <=> InQueue(sleep_queue, x) /\ x # c
    BY <1>1, <1>2, UnlinkFacts DEF Safe, QueueOwnership, TypeInv, TypeOK
  <1>7. QueueOwnership'
    BY <1>1, <1>2, <1>3, <1>6 DEF Safe, QueueOwnership
  <1> QED
    BY <1>2, <1>3, <1>5, <1>7 DEF SafeBut, Safe, RunInv

LEMMA WakeSafe == TypeInv /\ Safe /\ WakeSleeping => Safe'
  <1> SUFFICES ASSUME TypeInv, Safe, WakeSleeping PROVE Safe'
    OBVIOUS
  <1>1. PICK k \in 1..Len(sleep_queue) :
             /\ sleep_queue' = RemoveAt(sleep_queue, k)
             /\ ready_queue' = Append(ready_queue, sleep_queue[k])
             /\ state' = [state EXCEPT ![sleep_queue[k]] = "READY"]
    BY DEF WakeSleeping, thread_enqueue
  <1> DEFINE t == sleep_queue[k]
  <1>2. /\ phase = "wake"
        /\ UNCHANGED <<current_thread, phase, stack, heap, lists, kind, PositionInTable, shell>>
    BY DEF WakeSleeping
  <1>3. t \in TCB /\ InQueue(sleep_queue, t)
    <2>1. k \in 1..Len(sleep_queue) /\ sleep_queue \in Seq(TCB)
      BY <1>1 DEF TypeInv, TypeOK
    <2>2. t \in TCB
      BY <2>1
    <2> QED
      BY <2>1, <2>2 DEF InQueue
  <1>4. state[t] = "BLOCKED" /\ Live(t) /\ ~InQueue(ready_queue, t)
    BY <1>3 DEF Safe, QueueOwnership, Live
  <1>5. state'[t] = "READY" /\ \A x \in TCB : x # t => state'[x] = state[x]
    BY <1>1, <1>3 DEF TypeInv, TypeOK
  <1>6. SafeBut'
    <2>1. current_thread' \in stack
      BY <1>2 DEF Safe, StackSafety
    <2> QED
      BY <1>2, <1>3, <1>4, <1>5, <2>1, StateStep
  <1>7. NoRepeat(ready_queue') /\ \A x : InQueue(ready_queue', x) <=> InQueue(ready_queue, x) \/ x = t
    BY SMTT(30), <1>1, <1>3, <1>4, EnqueueFacts DEF Safe, QueueOwnership, TypeInv, TypeOK
  <1>8. NoRepeat(sleep_queue') /\ \A x : InQueue(sleep_queue', x) <=> InQueue(sleep_queue, x) /\ x # t
    BY <1>1, RemoveFacts DEF Safe, QueueOwnership, TypeInv, TypeOK
  <1> HIDE DEF t
  <1>9. state'[current_thread] # "RUNNING"
    BY <1>2, <1>3, <1>5 DEF Safe, RunInv, TypeInv, TypeOK
  <1>10. QueueOwnership'
    BY <1>2, <1>3, <1>4, <1>5, <1>7, <1>8 DEF Safe, QueueOwnership
  <1> QED
    BY <1>2, <1>6, <1>9, <1>10 DEF SafeBut, Safe, RunInv

\* In schedule() the shell's thread is queued, so there is somebody to switch to.
LEMMA ReadyNotEmpty ==
    ASSUME TypeInv, Safe, phase = "wake"
    PROVE  ready_queue # <<>>
  <1>1. state[main] = "READY"
    BY ThreadsAssumption DEF Safe, RunInv, QueueOwnership
  <1>2. InQueue(ready_queue, main)
    BY <1>1, ThreadsAssumption DEF Safe, QueueOwnership
  <1> QED
    BY <1>2 DEF InQueue

LEMMA SwitchSafe == TypeInv /\ Safe /\ SwitchTo => Safe'
  <1> SUFFICES ASSUME TypeInv, Safe, SwitchTo PROVE Safe'
    OBVIOUS
  <1> DEFINE n == Head(ready_queue)
  <1>1. phase = "wake" /\ ready_queue # <<>>
    BY ReadyNotEmpty DEF SwitchTo
  <1>2. /\ current_thread' = n /\ ready_queue' = Tail(ready_queue)
        /\ schedule_prev_thread' = current_thread
        /\ state' = [state EXCEPT ![n] = "RUNNING"]
        /\ phase' \in {"run", "tail"}
        /\ UNCHANGED <<sleep_queue, stack, heap, lists, kind, PositionInTable, shell>>
    BY <1>1 DEF SwitchTo, NextThread
  <1>3. /\ n \in TCB /\ InQueue(ready_queue, n)
        /\ NoRepeat(ready_queue')
        /\ \A x : InQueue(ready_queue', x) <=> InQueue(ready_queue, x) /\ x # n
    BY <1>1, <1>2, DequeueFacts DEF Safe, QueueOwnership, TypeInv, TypeOK
  <1>4. state[n] = "READY" /\ Live(n) /\ n \in stack
    BY <1>3 DEF Safe, QueueOwnership, StackSafety, Live
  <1>5. state'[n] = "RUNNING" /\ \A x \in TCB : x # n => state'[x] = state[x]
    BY <1>2, <1>3 DEF TypeInv, TypeOK
  <1>6. SafeBut'
    <2>1. current_thread \in stack
      BY DEF Safe, StackSafety
    <2> QED
      BY <1>2, <1>3, <1>4, <1>5, <2>1, StateStep
  <1>7. \A x \in TCB : state[x] # "RUNNING"
    BY <1>1 DEF Safe, RunInv, QueueOwnership
  <1>8. QueueOwnership'
    BY <1>2, <1>3, <1>4, <1>5, <1>7 DEF Safe, QueueOwnership
  <1> QED
    BY <1>2, <1>6, <1>8 DEF SafeBut, Safe, RunInv

\* KillThread of a thread that is alive, or that schedule() has just left for good.
LEMMA KillSafe ==
    ASSUME TypeInv, Safe, NEW t \in TCB, KillThread(t), t # current_thread, t # main,
           \/ Live(t)
           \/ phase = "tail" /\ t = schedule_prev_thread /\ state[t] = "TERMINATED",
           phase # "wake", phase' = "run",
           UNCHANGED <<current_thread, heap, kind, PositionInTable, test_thread>>,
           ~Shutdown => clean' = TORT_SIZE,
           victim' # NULL => /\ clean' < TORT_SIZE
                             /\ victim' = victim /\ victim # t
    PROVE  Safe'
  <1> USE ThreadsAssumption
  <1>1. state' = [state EXCEPT ![t] = "TERMINATED"] /\ stack' = stack \ {t}
    BY DEF KillThread
  <1>2. state'[t] = "TERMINATED" /\ \A x \in TCB : x # t => state'[x] = state[x]
    BY <1>1 DEF TypeInv, TypeOK
  <1>3. current_thread \in TCB /\ current_thread \in stack /\ state[current_thread] = "RUNNING"
    BY RunningThread
  <1>4. \A p \in Table : TORT'[p] = IF p = PositionInTable[t] THEN NULL ELSE TORT[p]
    BY DEF KillThread, Unlisted, Table, TypeInv, TypeOK
  <1>5. \A p \in Table : TORT'[p] # t /\ (TORT'[p] # NULL => TORT'[p] = TORT[p])
    BY <1>4 DEF Safe, TableAgrees, Table
  <1>6. StackSafety'
    BY <1>1, <1>2, <1>3 DEF Safe, StackSafety, Live
  <1>7. TableAgrees'
    BY <1>5 DEF Safe, TableAgrees, Table
  <1>8. HeapInv'
    <2>1. ASSUME NEW x \in heap PROVE state'[x] = "NONE" /\ \A p \in Table : TORT'[p] # x
      <3>1. x \in TCB /\ x # NULL /\ state[x] = "NONE" /\ \A p \in Table : TORT[p] # x
        BY <2>1 DEF Safe, HeapInv, TypeInv, TypeOK
      <3>2. x # t
        BY <3>1 DEF Live
      <3> QED
        BY <1>2, <1>5, <3>1, <3>2
    <2>2. heap' = heap /\ Table' = Table
      BY DEF Table
    <2> QED
      BY <2>1, <2>2 DEF HeapInv
  <1>9. RunInv'
    BY <1>2, <1>5 DEF Safe, RunInv, Table
  <1>10. CleanInv'
    <2>1. Shutdown => \A x \in TCB \ {main, idle} : Live(x)' => kind'[x] = "test"
      BY <1>2 DEF Safe, CleanInv, Live
    <2>2. Shutdown => \A p \in Table : TORT'[p] # NULL => Live(TORT[p])' /\ TORT'[p] = TORT[p]
      <3> SUFFICES ASSUME Shutdown, NEW p \in Table, TORT'[p] # NULL
                   PROVE  Live(TORT[p])' /\ TORT'[p] = TORT[p]
        OBVIOUS
      <3>1. TORT'[p] = TORT[p] /\ TORT[p] # t /\ TORT[p] # NULL
        BY <1>5
      <3>2. Live(TORT[p]) /\ TORT[p] \in TCB
        BY <3>1 DEF Safe, CleanInv, TypeInv, TypeOK, Table
      <3>3. TORT' \in [Table -> TCB \cup {NULL}] /\ state'[TORT[p]] = state[TORT[p]]
        BY <1>2, <3>1, <3>2, KillTypes DEF Table
      <3>4. state'[TORT'[p]] = state[TORT[p]]
        BY <3>1, <3>3
      <3> QED
        BY <3>1, <3>2, <3>4 DEF Live
    <2>3. victim' # NULL => Live(victim)' /\ victim' # main
      BY <1>2 DEF Safe, CleanInv, Live, TypeInv, TypeOK
    <2> QED
      BY <2>1, <2>2, <2>3 DEF CleanInv, Table, Live
  <1>11. QueueOwnership'
    <2>1. /\ NoRepeat(ready_queue') /\ \A x : InQueue(ready_queue', x) <=> InQueue(ready_queue, x) /\ x # t
          /\ NoRepeat(sleep_queue') /\ \A x : InQueue(sleep_queue', x) <=> InQueue(sleep_queue, x) /\ x # t
      BY ZenonT(60), UnlinkFacts DEF KillThread, Safe, QueueOwnership, TypeInv, TypeOK
    <2> QED
      BY <1>2, <1>3, <2>1 DEF Safe, QueueOwnership
  <1>12. FreeBlocksUnused'
    <2> DEFINE Unused(x) == /\ x \in TCB /\ state'[x] = "TERMINATED" /\ x \notin stack' /\ x \notin heap
                            /\ \A p \in Table : TORT'[p] # x
    <2>1. Unused(t)
      <3>1. t \notin heap
        BY DEF Safe, HeapInv, Live
      <3> QED
        BY <1>1, <1>2, <1>5, <3>1
    <2>2. ASSUME NEW i \in FreeSlots PROVE Unused(free_tcb_list[i]) /\ free_tcb_list[i] # t
      <3>1. /\ free_tcb_list[i] \in TCB /\ state[free_tcb_list[i]] = "TERMINATED"
            /\ free_tcb_list[i] \notin stack /\ free_tcb_list[i] \notin heap
            /\ phase = "tail" => free_tcb_list[i] # schedule_prev_thread
            /\ \A p \in Table : TORT[p] # free_tcb_list[i]
        BY <2>2 DEF Safe, FreeBlocksUnused, Table
      <3>2. free_tcb_list[i] # t /\ free_tcb_list[i] # NULL
        BY <3>1 DEF Live
      <3> QED
        BY <1>1, <1>2, <1>5, <3>1, <3>2
    <2>3. \A i, j \in FreeSlots : i # j => free_tcb_list[i] # free_tcb_list[j]
      BY DEF Safe, FreeBlocksUnused
    <2>4. \A i \in FreeSlots' : \/ i \in FreeSlots /\ free_tcb_list'[i] = free_tcb_list[i]
                                \/ i \notin FreeSlots /\ i = num_of_FreeTCB + 1 /\ free_tcb_list'[i] = t
      <3>1. CASE num_of_FreeTCB < FREE_TCB_LIST_SIZE
        <4>1. /\ num_of_FreeTCB' = num_of_FreeTCB + 1
              /\ free_tcb_list' = [free_tcb_list EXCEPT ![num_of_FreeTCB + 1] = t]
          BY <3>1 DEF KillThread
        <4>2. num_of_FreeTCB \in 0..FREE_TCB_LIST_SIZE /\ free_tcb_list \in [0..FREE_TCB_LIST_SIZE -> TCB \cup {NULL}]
          BY DEF TypeInv, TypeOK
        <4> QED
          BY <3>1, <4>1, <4>2 DEF FreeSlots
      <3>2. CASE ~(num_of_FreeTCB < FREE_TCB_LIST_SIZE)
        BY <3>2 DEF KillThread, FreeSlots
      <3> QED
        BY <3>1, <3>2
    <2> HIDE DEF Unused
    <2>5. \A i \in FreeSlots' : Unused(free_tcb_list'[i])
      BY <2>1, <2>2, <2>4
    <2>6. \A i, j \in FreeSlots' : i # j => free_tcb_list'[i] # free_tcb_list'[j]
      BY <2>2, <2>3, <2>4
    <2> QED
      BY <2>5, <2>6 DEF Unused, FreeBlocksUnused, Table
  <1> QED
    BY <1>6, <1>7, <1>8, <1>9, <1>10, <1>11, <1>12 DEF Safe

LEMMA TailSafe == TypeInv /\ Safe /\ ScheduleTail => Safe'
  <1> SUFFICES ASSUME TypeInv, Safe, ScheduleTail PROVE Safe'
    OBVIOUS
  <1> USE ThreadsAssumption
  <1>1. /\ phase = "tail" /\ phase' = "run"
        /\ UNCHANGED <<current_thread, heap, kind, PositionInTable, shell>>
    BY DEF ScheduleTail
  <1>2. /\ state[current_thread] = "RUNNING" /\ Live(current_thread)
        /\ current_thread \in TCB /\ current_thread \in stack
    BY <1>1, RunningThread
  <1>3. CASE MustBury
    <2>1. schedule_prev_thread \in TCB /\ KillThread(schedule_prev_thread)
      BY <1>1, <1>3 DEF ScheduleTail, TypeInv, TypeOK
    <2>2. state[schedule_prev_thread] = "TERMINATED"
      BY <1>3 DEF MustBury
    <2>3. schedule_prev_thread # current_thread /\ schedule_prev_thread # main
      BY <1>2, <2>2 DEF Safe, RunInv
    <2>4. /\ ~Shutdown => clean' = TORT_SIZE
          /\ victim' # NULL => clean' < TORT_SIZE /\ victim' = victim /\ victim # schedule_prev_thread
      BY <1>1, <2>2 DEF Safe, CleanInv, shell, Live
    <2>5. test_thread' = test_thread
      BY <1>1 DEF shell
    <2> QED
      BY <1>1, <2>1, <2>2, <2>3, <2>4, <2>5, KillSafe
  <1>4. CASE ~MustBury
    <2>1. UNCHANGED <<state, sleep_queue, ready_queue, stack, lists>>
      BY <1>4 DEF ScheduleTail
    <2>2. state'[current_thread] = "RUNNING" /\ \A x \in TCB : state'[x] = state[x]
      BY <1>2, <2>1
    <2>3. current_thread = main => state'[current_thread] \in {"READY", "RUNNING"}
      BY <2>2
    <2>4. current_thread' \in stack /\ phase' # "tail"
      BY <1>1, <1>2
    <2>5. SafeBut'
      BY <1>1, <1>2, <2>1, <2>2, <2>3, <2>4, StateStep
    <2>6. QueueOwnership'
      BY <1>1, <1>2, <2>1 DEF Safe, QueueOwnership
    <2> QED
      BY <1>1, <2>5, <2>6 DEF SafeBut, Safe, RunInv
  <1> QED
    BY <1>3, <1>4

\* The block create_thread takes: dead or never used, not listed, and no longer on the
\* free list.
LEMMA NewBlock ==
    ASSUME TypeInv, Safe, NEW k \in Kinds, NEW t \in NewTCB(k), TakeTCB(k)
    PROVE  /\ t \in TCB /\ t # main /\ state[t] \in {"NONE", "TERMINATED"}
           /\ \A p \in Table : TORT[p] # t
           /\ \A i \in FreeSlots' : i \in FreeSlots /\ free_tcb_list'[i] = free_tcb_list[i]
                                    /\ free_tcb_list[i] # t
  <1> USE ThreadsAssumption
  <1>1. t \in TCB
    BY TakeTypes
  <1>2. state[t] \in {"NONE", "TERMINATED"} /\ \A p \in Table : TORT[p] # t
    <2>1. CASE FromFreeList(k)
      <3>1. t = free_tcb_list[num_of_FreeTCB] /\ t # NULL
        BY <2>1 DEF NewTCB, FromFreeList
      <3>2. num_of_FreeTCB \in FreeSlots
        BY <3>1 DEF TypeInv, TypeOK, FreeSlots
      <3> QED
        BY <3>1, <3>2 DEF Safe, FreeBlocksUnused, Table
    <2>2. CASE ~FromFreeList(k)
      BY <2>2 DEF NewTCB, Safe, HeapInv
    <2> QED
      BY <2>1, <2>2
  <1>3. ASSUME NEW i \in FreeSlots'
        PROVE  i \in FreeSlots /\ free_tcb_list'[i] = free_tcb_list[i] /\ free_tcb_list[i] # t
    <2>1. CASE FromFreeList(k)
      <3>1. /\ t = free_tcb_list[num_of_FreeTCB] /\ t # NULL
            /\ free_tcb_list' = [free_tcb_list EXCEPT ![num_of_FreeTCB] = NULL]
            /\ num_of_FreeTCB' = num_of_FreeTCB - 1
        BY <2>1 DEF NewTCB, FromFreeList, TakeTCB
      <3>2. /\ free_tcb_list \in [0..FREE_TCB_LIST_SIZE -> TCB \cup {NULL}]
            /\ num_of_FreeTCB \in 0..FREE_TCB_LIST_SIZE /\ free_tcb_list[0] = NULL
        BY DEF TypeInv, TypeOK
      <3>3. num_of_FreeTCB \in FreeSlots /\ i \in FreeSlots /\ i # num_of_FreeTCB
        BY <1>3, <3>1, <3>2 DEF FreeSlots
      <3>4. free_tcb_list'[i] = free_tcb_list[i]
        BY <3>1, <3>2, <3>3 DEF FreeSlots
      <3>5. free_tcb_list[i] # t
        BY <3>1, <3>3 DEF Safe, FreeBlocksUnused
      <3> QED
        BY <3>3, <3>4, <3>5
    <2>2. CASE ~FromFreeList(k)
      <3>1. i \in FreeSlots /\ free_tcb_list' = free_tcb_list
        BY <1>3, <2>2 DEF TakeTCB, FreeSlots
      <3>2. t \in heap /\ free_tcb_list[i] \notin heap
        BY <2>2, <3>1 DEF NewTCB, Safe, FreeBlocksUnused
      <3> QED
        BY <3>1, <3>2
    <2> QED
      BY <2>1, <2>2
  <1>4. t # main
    BY <1>2 DEF Safe, RunInv
  <1> QED
    BY <1>1, <1>2, <1>3, <1>4 DEF Safe, QueueOwnership

LEMMA CreateSafe == TypeInv /\ Benign /\ Safe /\ CreateThread => Safe'
  <1> SUFFICES ASSUME TypeInv, Benign, Safe, CreateThread PROVE Safe'
    OBVIOUS
  <1> USE ThreadsAssumption
  <1>a. PICK k \in Kinds : \E x \in NewTCB(k) : Created(k, x)
    BY DEF CreateThread, Created, thread_enqueue
  <1>b. PICK t \in NewTCB(k) : Created(k, t)
    BY <1>a
  <1>1. /\ phase = "run" /\ current_thread = main /\ clean = TORT_SIZE
        /\ UNCHANGED <<current_thread, schedule_prev_thread, sleep_queue, phase, clean, victim>>
    BY DEF CreateThread, Shell
  <1>2. /\ TakeTCB(k)
        /\ heap' = heap \ {t}
        /\ kind' = [kind EXCEPT ![t] = k]
        /\ state' = [state EXCEPT ![t] = "READY"]
        /\ stack' = stack \cup {t}
        /\ ready_queue' = Append(ready_queue, t)
        /\ EnterTable(t)
        /\ test_thread' = IF k = "test" THEN t ELSE test_thread
    BY <1>b DEF Created
  <1>3. /\ t \in TCB /\ t # main /\ state[t] \in {"NONE", "TERMINATED"}
        /\ \A p \in Table : TORT[p] # t
        /\ \A i \in FreeSlots' : i \in FreeSlots /\ free_tcb_list'[i] = free_tcb_list[i]
                                 /\ free_tcb_list[i] # t
    BY <1>2, NewBlock
  <1>4. state'[t] = "READY" /\ \A x \in TCB : x # t => state'[x] = state[x]
    BY <1>2, <1>3 DEF TypeInv, TypeOK
  <1>5. kind'[t] = k /\ \A x \in TCB : x # t => kind'[x] = kind[x]
    BY <1>2, <1>3 DEF TypeInv, TypeOK
  <1>6. \A p \in Table : TORT'[p] = TORT[p] \/ (TORT'[p] = t /\ PositionInTable'[t] = p)
    <2>1. CASE next_TORT_Position < TORT_SIZE
      <3>1. /\ PositionInTable' = [PositionInTable EXCEPT ![t] = next_TORT_Position]
            /\ TORT' = [TORT EXCEPT ![next_TORT_Position] = t]
        BY <1>2, <2>1 DEF EnterTable
      <3>2. PositionInTable'[t] = next_TORT_Position
        BY <1>3, <3>1 DEF TypeInv, TypeOK
      <3>3. \A p \in Table : TORT'[p] = IF p = next_TORT_Position THEN t ELSE TORT[p]
        BY <3>1 DEF TypeInv, TypeOK, Table
      <3> QED
        BY <3>2, <3>3
    <2>2. CASE ~(next_TORT_Position < TORT_SIZE)
      <3>1. TORT' = TORT
        BY <1>2, <2>2 DEF EnterTable
      <3> QED
        BY <3>1
    <2> QED
      BY <2>1, <2>2
  <1>7. \A x \in TCB : x # t => PositionInTable'[x] = PositionInTable[x]
    BY <1>2, <1>3 DEF EnterTable, TypeInv, TypeOK
  <1>8. TORT \in [Table -> TCB \cup {NULL}] /\ TORT' \in [Table -> TCB \cup {NULL}]
    BY <1>2, <1>3, EnterTypes DEF TypeInv, TypeOK, Table
  <1>9. ~InQueue(ready_queue, t) /\ ~InQueue(sleep_queue, t) /\ ~Live(t)
    BY <1>3 DEF Safe, QueueOwnership, Live
  <1>10. QueueOwnership'
    <2>1. NoRepeat(ready_queue') /\ \A x : InQueue(ready_queue', x) <=> InQueue(ready_queue, x) \/ x = t
      BY <1>2, <1>3, <1>9, EnqueueFacts DEF Safe, QueueOwnership, TypeInv, TypeOK
    <2> QED
      BY <1>1, <1>3, <1>4, <1>9, <2>1 DEF Safe, QueueOwnership
  <1>11. StackSafety'
    BY <1>1, <1>2, <1>4 DEF Safe, StackSafety, Live
  <1>12. FreeBlocksUnused'
    <2>1. ASSUME NEW i \in FreeSlots'
          PROVE  LET f == free_tcb_list[i]
                 IN  /\ free_tcb_list'[i] = f /\ f \in TCB /\ state'[f] = "TERMINATED"
                     /\ f \notin stack' /\ f \notin heap'
                     /\ \A p \in Table : TORT'[p] # f
      <3>1. i \in FreeSlots /\ free_tcb_list'[i] = free_tcb_list[i] /\ free_tcb_list[i] # t
        BY <1>3, <2>1
      <3>2. /\ free_tcb_list[i] \in TCB /\ state[free_tcb_list[i]] = "TERMINATED"
            /\ free_tcb_list[i] \notin stack /\ free_tcb_list[i] \notin heap
            /\ \A p \in Table : TORT[p] # free_tcb_list[i]
        BY <3>1 DEF Safe, FreeBlocksUnused, Table
      <3> QED
        BY <1>2, <1>4, <1>6, <3>1, <3>2
    <2>2. \A i, j \in FreeSlots' : i # j => free_tcb_list'[i] # free_tcb_list'[j]
      BY <1>3 DEF Safe, FreeBlocksUnused
    <2> QED
      BY <1>1, <2>1, <2>2 DEF FreeBlocksUnused, Table
  <1>13. TableAgrees'
    BY <1>3, <1>6, <1>7, <1>8 DEF Safe, TableAgrees, Table
  <1>14. RunInv'
    BY SMTT(30), <1>1, <1>2, <1>3, <1>4, <1>6 DEF Safe, RunInv, Table
  <1>15. HeapInv'
    <2>1. ASSUME NEW x \in heap' PROVE state'[x] = "NONE" /\ \A p \in Table : TORT'[p] # x
      <3>1. x \in heap /\ x \in TCB /\ x # t
        BY <1>2, <2>1 DEF TypeInv, TypeOK
      <3> QED
        BY <1>4, <1>6, <3>1 DEF Safe, HeapInv
    <2> QED
      BY <2>1 DEF HeapInv, Table
  <1>16. CleanInv'
    <2>1. Shutdown => \A x \in TCB \ {main, idle} : Live(x)' => kind'[x] = "test"
      BY <1>4, <1>5 DEF Safe, CleanInv, Live, Benign
    <2>2. ASSUME Shutdown, NEW p \in Table, TORT'[p] # NULL
          PROVE  state'[TORT'[p]] \in {"READY", "RUNNING", "BLOCKED"}
      <3>1. CASE TORT'[p] = t
        BY <1>4, <3>1
      <3>2. CASE TORT'[p] # t
        <4>1. TORT'[p] = TORT[p] /\ TORT[p] \in TCB
          BY <1>6, <1>8, <2>2, <3>2
        <4>2. state'[TORT[p]] = state[TORT[p]]
          BY <1>4, <3>2, <4>1
        <4>3. Live(TORT[p])
          BY <2>2, <4>1 DEF Safe, CleanInv, Table
        <4> QED
          BY <4>1, <4>2, <4>3 DEF Live
      <3> QED
        BY <3>1, <3>2
    <2>3. victim = NULL /\ (~Shutdown => clean' = TORT_SIZE)
      BY <1>1 DEF Safe, CleanInv, TypeInv, TypeOK
    <2> QED
      BY <1>1, <1>4, <2>1, <2>2, <2>3 DEF CleanInv, Table, Live
  <1> QED
    BY <1>10, <1>11, <1>12, <1>13, <1>14, <1>15, <1>16 DEF Safe

LEMMA CreateFailsSafe == TypeInv /\ Safe /\ CreateThreadFails => Safe'
  <1> SUFFICES ASSUME TypeInv, Safe, CreateThreadFails PROVE Safe'
    OBVIOUS
  <1> USE ThreadsAssumption
  <1>1. PICK k \in Kinds :
             /\ \/ ~FromFreeList(k) /\ UNCHANGED <<free_tcb_list, num_of_FreeTCB, heap, state>>
                \/ \E x \in NewTCB(k) :
                     /\ TakeTCB(k)
                     /\ heap' = heap \cup {x}
                     /\ state' = [state EXCEPT ![x] = "NONE"]
             /\ test_thread' = IF k = "test" THEN NULL ELSE test_thread
    BY DEF CreateThreadFails
  <1>2. /\ phase = "run" /\ current_thread = main /\ clean = TORT_SIZE
        /\ UNCHANGED <<current_thread, schedule_prev_thread, ready_queue, sleep_queue, kind, stack,
                       TORT, PositionInTable, phase, clean, victim>>
    BY DEF CreateThreadFails, Shell
  <1>3. test_thread' # main
    BY <1>1 DEF Safe, RunInv
  <1>4. CASE UNCHANGED <<free_tcb_list, num_of_FreeTCB, heap, state>>
    <2>1. QueueOwnership' /\ StackSafety' /\ TableAgrees' /\ RunInv' /\ HeapInv'
      BY <1>2, <1>3, <1>4 DEF Safe, QueueOwnership, StackSafety, TableAgrees, RunInv, HeapInv, Live, Table
    <2>2. FreeBlocksUnused' /\ CleanInv'
      BY <1>2, <1>4 DEF Safe, FreeBlocksUnused, FreeSlots, CleanInv, Live, Table
    <2> QED
      BY <2>1, <2>2 DEF Safe
  <1>5. ASSUME NEW t \in NewTCB(k), TakeTCB(k), heap' = heap \cup {t},
               state' = [state EXCEPT ![t] = "NONE"]
        PROVE  Safe'
    <2>1. /\ t \in TCB /\ t # main /\ state[t] \in {"NONE", "TERMINATED"}
          /\ \A p \in Table : TORT[p] # t
          /\ \A i \in FreeSlots' : i \in FreeSlots /\ free_tcb_list'[i] = free_tcb_list[i]
                                   /\ free_tcb_list[i] # t
      BY <1>5, NewBlock
    <2>2. state'[t] = "NONE" /\ \A x \in TCB : x # t => state'[x] = state[x]
      BY <1>5, <2>1 DEF TypeInv, TypeOK
    <2>3. QueueOwnership'
      BY <1>2, <2>1, <2>2 DEF Safe, QueueOwnership
    <2>4. StackSafety' /\ TableAgrees' /\ RunInv'
      BY <1>2, <1>3, <2>1, <2>2 DEF Safe, StackSafety, TableAgrees, RunInv, Live, Table
    <2>5. HeapInv'
      BY <1>2, <1>5, <2>1, <2>2 DEF Safe, HeapInv, TypeInv, TypeOK, Table
    <2>6. FreeBlocksUnused'
      BY <1>2, <1>5, <2>1, <2>2 DEF Safe, FreeBlocksUnused
    <2>7. CleanInv'
      <3>1. ASSUME Shutdown, NEW p \in Table, TORT[p] # NULL
            PROVE  state'[TORT[p]] \in {"READY", "RUNNING", "BLOCKED"}
        <4>1. TORT[p] \in TCB /\ TORT[p] # t /\ Live(TORT[p])
          BY <2>1, <3>1 DEF Safe, CleanInv, TypeInv, TypeOK, Table
        <4> QED
          BY <2>2, <4>1 DEF Live
      <3>2. victim = NULL
        BY <1>2 DEF Safe, CleanInv, TypeInv, TypeOK
      <3> QED
        BY <1>2, <2>2, <3>1, <3>2 DEF Safe, CleanInv, Table, Live
    <2> QED
      BY <2>3, <2>4, <2>5, <2>6, <2>7 DEF Safe
  <1> QED
    BY <1>1, <1>4, <1>5

LEMMA KillTestSafe == TypeInv /\ Benign /\ Safe /\ KillTest => Safe'
  <1> SUFFICES ASSUME TypeInv, Benign, Safe, KillTest PROVE Safe'
    OBVIOUS
  <1> USE ThreadsAssumption
  <1> DEFINE t == test_thread
  <1>1. /\ phase = "run" /\ current_thread = main /\ clean = TORT_SIZE /\ phase' = "run"
        /\ UNCHANGED <<current_thread, heap, kind, PositionInTable, shell>>
    BY DEF KillTest, Shell
  <1>2. t \in TCB /\ Live(t) /\ KillThread(t)
    BY DEF KillTest, Benign, TypeInv, TypeOK
  <1>3. t # main /\ t # current_thread
    BY <1>1 DEF Safe, RunInv
  <1>4. test_thread' = test_thread /\ clean' = TORT_SIZE /\ victim' = NULL
    BY <1>1 DEF shell, Safe, CleanInv, TypeInv, TypeOK
  <1> QED
    BY <1>1, <1>2, <1>3, <1>4, KillSafe

\* CleanAllThreads and its loop, up to the kill: only its own variables change.
LEMMA CleanSafe == TypeInv /\ Safe /\ (CleanAllThreads \/ CleanRead) => Safe'
  <1> SUFFICES ASSUME TypeInv, Safe, CleanAllThreads \/ CleanRead PROVE Safe'
    OBVIOUS
  <1> USE ThreadsAssumption
  <1>1. UNCHANGED <<current_thread, schedule_prev_thread, ready_queue, sleep_queue, state, kind,
                    stack, heap, lists, PositionInTable, phase, test_thread>>
    BY DEF CleanAllThreads, CleanRead
  <1>2. QueueOwnership' /\ StackSafety' /\ TableAgrees' /\ RunInv' /\ HeapInv'
    BY <1>1 DEF Safe, QueueOwnership, StackSafety, TableAgrees, RunInv, HeapInv, Live, Table, lists
  <1>3. FreeBlocksUnused'
    BY <1>1 DEF Safe, FreeBlocksUnused, FreeSlots, lists
  <1>4. Shutdown
    BY DEF CleanAllThreads, CleanRead, Safe, CleanInv, TypeInv, TypeOK
  <1>5. victim' # NULL => clean' < TORT_SIZE /\ state[victim'] \in {"READY", "RUNNING", "BLOCKED"} /\ victim' # main
    <2>1. CASE CleanAllThreads
      BY <2>1 DEF CleanAllThreads, Shell, Safe, CleanInv, TypeInv, TypeOK
    <2>2. CASE CleanRead
      <3>1. clean \in Table /\ victim = NULL
        BY <2>2 DEF CleanRead, TypeInv, TypeOK, Table
      <3>2. TORT[clean] # main /\ (TORT[clean] # NULL => Live(TORT[clean]))
        BY <1>4, <3>1 DEF Safe, CleanInv, RunInv
      <3>3. victim' # NULL => victim' = TORT[clean] /\ clean' = clean
        BY <2>2, <3>1 DEF CleanRead
      <3> QED
        BY <3>1, <3>2, <3>3 DEF Live, Table
    <2> QED
      BY <2>1, <2>2
  <1>6. CleanInv'
    BY <1>1, <1>4, <1>5 DEF Safe, CleanInv, Live, Table, lists
  <1> QED
    BY <1>2, <1>3, <1>6 DEF Safe

LEMMA CleanKillSafe == TypeInv /\ Safe /\ CleanKill => Safe'
  <1> SUFFICES ASSUME TypeInv, Safe, CleanKill PROVE Safe'
    OBVIOUS
  <1> USE ThreadsAssumption
  <1>1. /\ phase = "run" /\ current_thread = main /\ phase' = "run"
        /\ clean < TORT_SIZE /\ victim # NULL /\ KillThread(victim) /\ victim' = NULL
        /\ UNCHANGED <<current_thread, heap, kind, PositionInTable, test_thread>>
    BY DEF CleanKill
  <1>2. victim \in TCB /\ Live(victim) /\ victim # main
    BY <1>1 DEF Safe, CleanInv, TypeInv, TypeOK
  <1>3. Shutdown
    BY <1>1 DEF Safe, CleanInv, TypeInv, TypeOK
  <1> QED
    BY <1>1, <1>2, <1>3, KillSafe

LEMMA StutterSafe == Safe /\ UNCHANGED vars => Safe'
  <1> SUFFICES ASSUME Safe, UNCHANGED vars PROVE Safe'
    OBVIOUS
  <1> USE DEF vars, lists, shell
  <1>1. QueueOwnership' /\ StackSafety' /\ TableAgrees' /\ RunInv' /\ HeapInv'
    BY DEF Safe, QueueOwnership, StackSafety, TableAgrees, RunInv, HeapInv, Live, Table
  <1>2. FreeBlocksUnused' /\ CleanInv'
    BY DEF Safe, FreeBlocksUnused, FreeSlots, CleanInv, Live, Table
  <1> QED
    BY <1>1, <1>2 DEF Safe

LEMMA NextSafe == TypeInv /\ Benign /\ Safe /\ [Next]_vars => Safe'
  <1> SUFFICES ASSUME TypeInv, Benign, Safe, [Next]_vars PROVE Safe'
    OBVIOUS
  <1>1. CASE Kernel
    <2>1. CASE Tick
      BY <2>1, PreemptSafe DEF Tick
    <2> QED
      BY <1>1, <2>1, WakeSafe, SwitchSafe, TailSafe DEF Kernel
  <1>2. CASE ThreadCode
    <2>1. CASE Yield
      BY <2>1, PreemptSafe DEF Yield, Worker
    <2> QED
      BY <1>2, <2>1, SleepSafe, ExitSafe DEF ThreadCode
  <1>3. CASE ShellCode
    BY <1>3, CreateSafe, CreateFailsSafe, KillTestSafe, CleanSafe, CleanKillSafe DEF ShellCode
  <1> QED
    BY <1>1, <1>2, <1>3, StutterSafe DEF Next

LEMMA ThreadsInvariant == Spec => []IInv
  <1>1. Init => IInv
    BY InitTypeInv, InitSafe DEF IInv
  <1>2. TypeInv /\ [Next]_vars => TypeInv'
    BY KernelTypes, ThreadCodeTypes, ShellCodeTypes, StutterTypes DEF Next
  <1>3. Benign' = Benign
    BY DEF Benign
  <1>4. IInv /\ [Next]_vars => IInv'
    BY <1>2, <1>3, NextSafe DEF IInv
  <1> QED
    BY <1>1, <1>4, PTL DEF Spec

\* The link thread_t.next has one owner: whatever is created, killed, put to sleep, woken
\* or preempted, a thread is in the one queue its state names and only there.
THEOREM ThreadQueues == Spec => [](Benign => QueueOwnership)
  <1>1. IInv => (Benign => QueueOwnership)
    BY DEF IInv, Safe
  <1> QED
    BY ThreadsInvariant, <1>1, PTL

\* schedule() never falls back to the kernel thread: there is always a READY thread.
THEOREM SomebodyReady == Spec => [](Benign => NoFallback)
  <1>1. IInv => (Benign => NoFallback)
    BY ReadyNotEmpty DEF IInv, NoFallback
  <1> QED
    BY ThreadsInvariant, <1>1, PTL

\* Pmm_Free never gets the stack of running code or of a thread that will run again.
THEOREM StacksKept == Spec => [](Benign => StackSafety)
  <1>1. IInv => (Benign => StackSafety)
    BY DEF IInv, Safe
  <1> QED
    BY ThreadsInvariant, <1>1, PTL

\* A control block create_thread recycles belongs to nobody, for every length of the list.
THEOREM BlocksRecycled == Spec => [](Benign => FreeBlocksUnused)
  <1>1. IInv => (Benign => FreeBlocksUnused)
    BY DEF IInv, Safe
  <1> QED
    BY ThreadsInvariant, <1>1, PTL

\* KillThread clears the right entry of TORT, also when the table has run out of entries.
THEOREM TablePositions == Spec => [](Benign => TableAgrees)
  <1>1. IInv => (Benign => TableAgrees)
    BY DEF IInv, Safe
  <1> QED
    BY ThreadsInvariant, <1>1, PTL

\* A dead thread's block comes back to life only through the free list, as a new thread.
THEOREM NoResurrection == ASSUME Benign PROVE Spec => DeadStaysDead
  <1> DEFINE Reborn == \A t \in TCB : state[t] = "TERMINATED" /\ state'[t] # "TERMINATED" =>
                          /\ \E i \in FreeSlots : free_tcb_list[i] = t
                          /\ state'[t] = "NONE" \/ frame'[t] = "new"
  <1>1. ASSUME IInv, [Next]_vars PROVE [Reborn]_vars
    <2> SUFFICES ASSUME Next, NEW t \in TCB, state[t] = "TERMINATED", state'[t] # "TERMINATED"
                 PROVE  /\ \E i \in FreeSlots : free_tcb_list[i] = t
                        /\ state'[t] = "NONE" \/ frame'[t] = "new"
      BY <1>1
    <2> USE ThreadsAssumption
    <2>0. TypeInv /\ Safe /\ state \in [TCB -> States] /\ frame \in [TCB -> Frames]
      BY <1>1 DEF IInv, TypeInv, TypeOK
    <2>1. \A x \in TCB : KillThread(x) => state'[t] = "TERMINATED"
      BY <2>0 DEF KillThread
    <2>2. ~Kernel
      <3>1. ~Tick
        BY <2>0, RunningThread DEF Tick, Schedule
      <3>2. ~WakeSleeping
        <4>1. ~InQueue(sleep_queue, t)
          BY <2>0 DEF Safe, QueueOwnership
        <4> QED
          BY <2>0, <4>1 DEF WakeSleeping, InQueue
      <3>3. ~SwitchTo
        <4>1. phase = "wake" => ready_queue # <<>>
          BY <2>0, ReadyNotEmpty
        <4>2. ready_queue # <<>> => Head(ready_queue) # t
          BY <2>0, DequeueFacts DEF Safe, QueueOwnership, TypeInv, TypeOK
        <4> QED
          BY <2>0, <4>1, <4>2 DEF SwitchTo, NextThread
      <3>4. ~ScheduleTail
        BY <2>0, <2>1 DEF ScheduleTail, TypeInv, TypeOK
      <3> QED
        BY <3>1, <3>2, <3>3, <3>4 DEF Kernel
    <2>3. ~ThreadCode
      <3>1. phase = "run" => state[current_thread] = "RUNNING" /\ current_thread \in TCB
        BY <2>0, RunningThread
      <3> QED
        BY <2>0, <3>1 DEF ThreadCode, ThreadSleep, Yield, ThreadExit, Worker, Schedule
    <2>4. ~KillTest /\ ~CleanKill
      BY <2>0, <2>1 DEF KillTest, CleanKill, TypeInv, TypeOK
    <2>5. ~CleanAllThreads /\ ~CleanRead
      BY DEF CleanAllThreads, CleanRead
    <2>6. ASSUME NEW k \in Kinds, t \in NewTCB(k) PROVE \E i \in FreeSlots : free_tcb_list[i] = t
      <3>1. FromFreeList(k)
        BY <2>0, <2>6 DEF NewTCB, Safe, HeapInv
      <3>2. t = free_tcb_list[num_of_FreeTCB]
        BY <2>6, <3>1 DEF NewTCB
      <3>3. num_of_FreeTCB \in FreeSlots
        <4>1. /\ num_of_FreeTCB \in 0..FREE_TCB_LIST_SIZE /\ free_tcb_list[0] = NULL
              /\ FREE_TCB_LIST_SIZE \in Nat /\ NULL \notin TCB
          BY <2>0 DEF TypeInv, TypeOK
        <4>2. num_of_FreeTCB # 0
          BY <3>2, <4>1
        <4> QED
          BY <4>1, <4>2 DEF FreeSlots
      <3> QED
        BY <3>2, <3>3
    <2>7. CASE CreateThread
      <3>1. PICK k \in Kinds : \E x \in NewTCB(k) : /\ state' = [state EXCEPT ![x] = "READY"]
                                                    /\ frame' = [frame EXCEPT ![x] = "new"]
        BY <2>7 DEF CreateThread
      <3>2. PICK x \in NewTCB(k) : /\ state' = [state EXCEPT ![x] = "READY"]
                                   /\ frame' = [frame EXCEPT ![x] = "new"]
        BY <3>1
      <3>3. x = t
        BY <2>0, <3>2
      <3> QED
        BY <2>0, <2>6, <3>2, <3>3
    <2>8. CASE CreateThreadFails
      <3>1. PICK k \in Kinds : \/ state' = state
                               \/ \E x \in NewTCB(k) : state' = [state EXCEPT ![x] = "NONE"]
        BY <2>8 DEF CreateThreadFails
      <3>2. PICK x \in NewTCB(k) : state' = [state EXCEPT ![x] = "NONE"]
        BY <3>1
      <3>3. x = t
        BY <2>0, <3>2
      <3> QED
        BY <2>0, <2>6, <3>2, <3>3
    <2> QED
      BY <2>2, <2>3, <2>4, <2>5, <2>7, <2>8 DEF Next, ShellCode
  <1>2. IInv /\ [Next]_vars => [Reborn]_vars
    BY <1>1
  <1> QED
    BY ThreadsInvariant, <1>2, PTL DEF Spec, DeadStaysDead

-----------------------------------------------------------------------------
(***************************************************************************)
(* What ThreadLs prints and CleanAllThreads kills: where only test threads *)
(* are started, which never exit by themselves, and as long as TORT has an *)
(* entry left, the table lists the live threads.                           *)
(***************************************************************************)
OnlyTests == Kinds \subseteq {"test"}
Room == next_TORT_Position < TORT_SIZE

\* Nobody dies of himself, so nobody is ever buried by the next thread.
NobodyExits ==
    /\ \A t \in TCB \ {main, idle} : Live(t) => kind[t] = "test"
    /\ phase = "wake" => state[current_thread] # "TERMINATED"
    /\ phase = "tail" => state[schedule_prev_thread] # "TERMINATED"

\* The table lists the live threads, each where it says, and nobody beyond the last entry given out.
Listed ==
    /\ \A t \in TCB \ {main} : Live(t) => TORT[PositionInTable[t]] = t
    /\ \A p \in Table : TORT[p] # NULL => Live(TORT[p])
    /\ \A p \in Table : p >= next_TORT_Position => TORT[p] = NULL

\* Behind CleanAllThreads only the idle thread is left in the table.
Cleaned ==
    clean < TORT_SIZE =>
        /\ \A p \in Table : p < clean => TORT[p] \in {NULL, idle}
        /\ victim # NULL => victim = TORT[clean]

ListInv == NobodyExits /\ (Room => Listed /\ Cleaned)

Worked == /\ \A t \in TCB \ {main, idle} : Live(t) => kind[t] = "test"
          /\ Room => Listed /\ Cleaned

LEMMA InitListInv == Init => ListInv
  <1> SUFFICES ASSUME Init PROVE ListInv
    OBVIOUS
  <1> USE ThreadsAssumption
  <1>1. NobodyExits
    BY DEF Init, NobodyExits, Live
  <1>2. Listed
    BY DEF Init, Listed, Live, Table
  <1>3. Cleaned
    BY DEF Init, Cleaned
  <1> QED
    BY <1>1, <1>2, <1>3 DEF ListInv

\* A step that kills nobody, starts nobody and leaves the table alone.
LEMMA SameThreads ==
    ASSUME TypeInv, ListInv, \A x \in TCB : Live(x)' <=> Live(x),
           UNCHANGED <<TORT, next_TORT_Position, PositionInTable, kind, clean, victim>>
    PROVE  Worked'
  <1> USE ThreadsAssumption DEF ListInv
  <1>1. \A t \in TCB \ {main, idle} : Live(t)' => kind'[t] = "test"
    BY DEF NobodyExits
  <1>2. ASSUME Room' PROVE Listed'
    <2>1. Room /\ Listed
      BY <1>2 DEF Room
    <2>2. ASSUME NEW t \in TCB \ {main}, Live(t)' PROVE TORT'[PositionInTable'[t]] = t
      BY <2>1, <2>2 DEF Listed
    <2>3. ASSUME NEW p \in Table, TORT'[p] # NULL PROVE state'[TORT'[p]] \in {"READY", "RUNNING", "BLOCKED"}
      <3>1. TORT[p] \in TCB /\ TORT'[p] = TORT[p] /\ Live(TORT[p])
        BY <2>1, <2>3 DEF Listed, TypeInv, TypeOK, Table
      <3> QED
        BY <3>1 DEF Live
    <2>4. \A p \in Table : p >= next_TORT_Position' => TORT'[p] = NULL
      BY <2>1 DEF Listed
    <2> QED
      BY <2>2, <2>3, <2>4 DEF Listed, Table, Live
  <1>3. Room' => Cleaned'
    BY DEF Room, Cleaned, Table
  <1> QED
    BY <1>1, <1>2, <1>3 DEF Worked

\* KillThread of a live thread clears its entry and no other.
LEMMA KillListed ==
    ASSUME TypeInv, Safe, ListInv, NEW t \in TCB, t # main, Live(t), KillThread(t), phase' = "run",
           UNCHANGED <<next_TORT_Position, PositionInTable, kind>>,
           \/ clean = TORT_SIZE /\ UNCHANGED <<clean, victim>>
           \/ clean < TORT_SIZE /\ t = victim /\ clean' = clean + 1 /\ victim' = NULL
    PROVE  ListInv'
  <1> USE ThreadsAssumption DEF ListInv
  <1>1. state'[t] = "TERMINATED" /\ \A x \in TCB : x # t => state'[x] = state[x]
    BY DEF KillThread, TypeInv, TypeOK
  <1>2. \A x \in TCB : Live(x)' <=> Live(x) /\ x # t
    BY <1>1 DEF Live
  <1>3. NobodyExits'
    BY <1>2 DEF NobodyExits
  <1>4. /\ \A p \in Table : TORT'[p] = IF p = PositionInTable[t] THEN NULL ELSE TORT[p]
        /\ TORT' \in [Table -> TCB \cup {NULL}] /\ TORT \in [Table -> TCB \cup {NULL}]
        /\ PositionInTable \in [TCB -> Table]
    BY KillTypes DEF KillThread, Unlisted, Table, TypeInv, TypeOK
  <1>5. ASSUME Room' PROVE Listed' /\ Cleaned'
    <2>1. Listed /\ Cleaned
      BY <1>5 DEF Room
    <2>2. TORT[PositionInTable[t]] = t
      BY <2>1 DEF Listed
    <2>3. ASSUME NEW x \in TCB \ {main}, Live(x)' PROVE TORT'[PositionInTable[x]] = x
      <3>1. x # t /\ TORT[PositionInTable[x]] = x /\ PositionInTable[x] \in Table
        BY <1>2, <1>4, <2>1, <2>3 DEF Listed
      <3> QED
        BY <1>4, <2>2, <3>1
    <2>4. ASSUME NEW p \in Table, TORT'[p] # NULL PROVE Live(TORT[p])' /\ TORT'[p] = TORT[p]
      <3>1. TORT'[p] = TORT[p] /\ p # PositionInTable[t] /\ TORT[p] \in TCB
        BY <1>4, <2>4
      <3>2. Live(TORT[p])
        BY <2>1, <2>4, <3>1 DEF Listed
      <3>3. TORT[p] # t
        BY <3>1 DEF Safe, TableAgrees, Table
      <3>4. state'[TORT[p]] = state[TORT[p]]
        BY <1>1, <3>1, <3>3
      <3>5. state'[TORT'[p]] = state[TORT[p]]
        BY <3>1, <3>4
      <3> QED
        BY <3>1, <3>2, <3>5 DEF Live
    <2>5. \A p \in Table : p >= next_TORT_Position => TORT'[p] = NULL
      BY <1>4, <2>1 DEF Listed
    <2>6. Listed'
      BY <2>3, <2>4, <2>5 DEF Listed, Table, Live
    <2>7. Cleaned'
      <3>1. CASE clean = TORT_SIZE /\ UNCHANGED <<clean, victim>>
        BY <3>1 DEF Cleaned
      <3>2. CASE clean < TORT_SIZE /\ t = victim /\ clean' = clean + 1 /\ victim' = NULL
        <4>1. clean \in Table /\ victim = TORT[clean] /\ victim # NULL
          BY <2>1, <3>2 DEF Cleaned, TypeInv, TypeOK, Table
        <4>2. PositionInTable[t] = clean
          BY <3>2, <4>1 DEF Safe, TableAgrees, Table
        <4>3. ASSUME NEW p \in Table, p < clean' PROVE TORT'[p] \in {NULL, idle}
          <5>1. CASE p = clean
            BY <1>4, <4>2, <5>1
          <5>2. CASE p # clean
            BY <1>4, <2>1, <3>2, <4>1, <4>3, <5>2 DEF Cleaned, Table
          <5> QED
            BY <5>1, <5>2
        <4> QED
          BY <3>2, <4>3 DEF Cleaned, Table
      <3> QED
        BY <3>1, <3>2
    <2> QED
      BY <2>6, <2>7
  <1> QED
    BY <1>3, <1>5

\* The scheduler and the threads themselves.
LEMMA KernelListed == TypeInv /\ Safe /\ ListInv /\ (Kernel \/ ThreadCode) => ListInv'
  <1> SUFFICES ASSUME TypeInv, Safe, ListInv, Kernel \/ ThreadCode PROVE ListInv'
    OBVIOUS
  <1> USE ThreadsAssumption
  <1> DEFINE c == current_thread
  <1>0. state \in [TCB -> States] /\ c \in TCB
    BY DEF TypeInv, TypeOK
  <1>1. phase # "wake" => state[c] = "RUNNING" /\ Live(c)
    BY RunningThread
  <1>2. CASE Tick \/ Yield
    <2>1. /\ phase = "run" /\ (Schedule(state, "irq") \/ Schedule(state, "yield"))
          /\ UNCHANGED <<current_thread, TORT, next_TORT_Position, PositionInTable, kind, clean, victim>>
      BY <1>2 DEF Tick, Yield, Worker, lists, shell
    <2>2. state' = [state EXCEPT ![c] = "READY"] /\ phase' = "wake"
      BY <1>1, <1>2, <2>1 DEF Tick, Yield, Worker, Schedule, StillRunning
    <2>3. \A x \in TCB : Live(x)' <=> Live(x)
      BY <1>0, <1>1, <1>2, <2>1, <2>2 DEF Tick, Yield, Worker, Live
    <2>4. Worked'
      BY <2>1, <2>3, SameThreads
    <2>5. state'[c] # "TERMINATED"
      BY <1>0, <2>2
    <2> QED
      BY <2>1, <2>2, <2>4, <2>5 DEF Worked, ListInv, NobodyExits
  <1>3. CASE ThreadSleep
    <2>1. /\ phase = "run" /\ state' = [state EXCEPT ![c] = "BLOCKED"] /\ phase' = "wake"
          /\ UNCHANGED <<current_thread, TORT, next_TORT_Position, PositionInTable, kind, clean, victim>>
      BY <1>0, <1>3 DEF ThreadSleep, Worker, Schedule, StillRunning, lists, shell
    <2>2. \A x \in TCB : Live(x)' <=> Live(x)
      BY <1>0, <1>1, <2>1 DEF Live
    <2>3. Worked'
      BY <2>1, <2>2, SameThreads
    <2>4. state'[c] # "TERMINATED"
      BY <1>0, <2>1
    <2> QED
      BY <2>1, <2>3, <2>4 DEF Worked, ListInv, NobodyExits
  <1>4. ~ThreadExit
    BY <1>0, <1>1 DEF ThreadExit, Worker, ListInv, NobodyExits
  <1>5. CASE WakeSleeping
    <2>1. PICK k \in 1..Len(sleep_queue) : state' = [state EXCEPT ![sleep_queue[k]] = "READY"]
      BY <1>5 DEF WakeSleeping
    <2>2. /\ phase = "wake"
          /\ UNCHANGED <<current_thread, phase, TORT, next_TORT_Position, PositionInTable, kind, clean, victim>>
      BY <1>5 DEF WakeSleeping, lists, shell
    <2>3. sleep_queue[k] \in TCB /\ InQueue(sleep_queue, sleep_queue[k])
      <3>1. sleep_queue[k] \in TCB
        BY DEF TypeInv, TypeOK
      <3> QED
        BY <3>1 DEF InQueue
    <2>4. state[sleep_queue[k]] = "BLOCKED"
      BY <2>3 DEF Safe, QueueOwnership
    <2>5. \A x \in TCB : (Live(x)' <=> Live(x)) /\ (state'[x] = "TERMINATED" => state[x] = "TERMINATED")
      BY <1>0, <2>1, <2>3, <2>4 DEF Live
    <2>6. Worked'
      BY <2>2, <2>5, SameThreads
    <2>7. state'[c] # "TERMINATED"
      BY <1>0, <2>2, <2>5 DEF ListInv, NobodyExits
    <2> QED
      BY <2>2, <2>6, <2>7 DEF Worked, ListInv, NobodyExits
  <1>6. CASE SwitchTo
    <2>1. phase = "wake" /\ ready_queue # <<>>
      BY <1>6, ReadyNotEmpty DEF SwitchTo
    <2> DEFINE n == Head(ready_queue)
    <2>2. /\ state' = [state EXCEPT ![n] = "RUNNING"] /\ schedule_prev_thread' = c /\ phase' \in {"run", "tail"}
          /\ UNCHANGED <<TORT, next_TORT_Position, PositionInTable, kind, clean, victim>>
      BY <1>6, <2>1 DEF SwitchTo, NextThread, lists, shell
    <2>3. n \in TCB /\ InQueue(ready_queue, n)
      BY <2>1, DequeueFacts DEF TypeInv, TypeOK
    <2>4. state[n] = "READY"
      BY <2>3 DEF Safe, QueueOwnership
    <2> HIDE DEF n
    <2>5. \A x \in TCB : (Live(x)' <=> Live(x)) /\ (state'[x] = "TERMINATED" => state[x] = "TERMINATED")
      BY <1>0, <2>2, <2>3, <2>4 DEF Live
    <2>6. Worked'
      BY <2>2, <2>5, SameThreads
    <2>7. state'[schedule_prev_thread'] # "TERMINATED"
      BY <1>0, <2>1, <2>2, <2>5 DEF ListInv, NobodyExits
    <2> QED
      BY <2>2, <2>6, <2>7 DEF Worked, ListInv, NobodyExits
  <1>7. CASE ScheduleTail
    <2>1. ~MustBury
      BY <1>7 DEF ScheduleTail, MustBury, ListInv, NobodyExits
    <2>2. /\ UNCHANGED <<state, TORT, next_TORT_Position, PositionInTable, kind, clean, victim>>
          /\ phase' = "run"
      BY <1>7, <2>1 DEF ScheduleTail, lists, shell
    <2>3. \A x \in TCB : Live(x)' <=> Live(x)
      BY <2>2 DEF Live
    <2>4. Worked'
      BY <2>2, <2>3, SameThreads
    <2> QED
      BY <2>2, <2>4 DEF Worked, ListInv, NobodyExits
  <1> QED
    BY <1>2, <1>3, <1>4, <1>5, <1>6, <1>7 DEF Kernel, ThreadCode

\* CreateThread: the new thread gets an entry nobody has.
LEMMA CreateListed == TypeInv /\ Safe /\ OnlyTests /\ ListInv /\ CreateThread => ListInv'
  <1> SUFFICES ASSUME TypeInv, Safe, OnlyTests, ListInv, CreateThread PROVE ListInv'
    OBVIOUS
  <1> USE ThreadsAssumption DEF ListInv
  <1>1. PICK k \in Kinds : \E x \in NewTCB(k) :
             /\ TakeTCB(k) /\ kind' = [kind EXCEPT ![x] = k] /\ state' = [state EXCEPT ![x] = "READY"] /\ EnterTable(x)
    BY DEF CreateThread
  <1>2. PICK t \in NewTCB(k) :
             /\ TakeTCB(k) /\ kind' = [kind EXCEPT ![t] = k] /\ state' = [state EXCEPT ![t] = "READY"] /\ EnterTable(t)
    BY <1>1
  <1>3. k = "test"
    BY DEF OnlyTests
  <1>4. t \in TCB /\ t # main /\ \A p \in Table : TORT[p] # t
    BY <1>2, NewBlock
  <1>5. /\ phase = "run" /\ clean = TORT_SIZE
        /\ UNCHANGED <<current_thread, schedule_prev_thread, phase, clean, victim>>
    BY DEF CreateThread, Shell
  <1>6. state'[t] = "READY" /\ \A x \in TCB : x # t => state'[x] = state[x] /\ (Live(x)' <=> Live(x))
    BY <1>2, <1>4 DEF TypeInv, TypeOK, Live
  <1>7. NobodyExits'
    BY <1>2, <1>3, <1>4, <1>5, <1>6 DEF NobodyExits, TypeInv, TypeOK
  <1>8. Cleaned'
    BY <1>5 DEF Cleaned
  <1>9. ASSUME Room' PROVE Listed'
    <2> DEFINE new == next_TORT_Position
    <2>1. /\ TORT \in [Table -> TCB \cup {NULL}] /\ PositionInTable \in [TCB -> Table] /\ new \in Nat
      BY SMTT(30) DEF TypeInv, TypeOK, Table
    <2>2. new < TORT_SIZE
      BY <1>2, <1>9 DEF EnterTable, Room
    <2>3. /\ PositionInTable' = [PositionInTable EXCEPT ![t] = new]
          /\ TORT' = [TORT EXCEPT ![new] = t]
          /\ next_TORT_Position' = new + 1 /\ new \in Table /\ Room
      BY <1>2, <2>1, <2>2 DEF EnterTable, Table, Room
    <2>4. Listed /\ TORT[new] = NULL
      BY <2>1, <2>3 DEF Listed
    <2>5. TORT'[new] = t /\ \A p \in Table : p # new => TORT'[p] = TORT[p]
      BY <2>1, <2>3
    <2>6. ASSUME NEW x \in TCB \ {main}, Live(x)' PROVE TORT'[PositionInTable'[x]] = x
      <3>1. CASE x = t
        BY <1>4, <2>1, <2>3, <2>5, <3>1
      <3>2. CASE x # t
        <4>1. TORT[PositionInTable[x]] = x /\ PositionInTable'[x] = PositionInTable[x] /\ PositionInTable[x] \in Table
          BY <1>6, <2>1, <2>3, <2>4, <2>6, <3>2 DEF Listed
        <4> QED
          BY <2>4, <2>5, <4>1
      <3> QED
        BY <3>1, <3>2
    <2>7. ASSUME NEW p \in Table, TORT'[p] # NULL PROVE state'[TORT'[p]] \in {"READY", "RUNNING", "BLOCKED"}
      <3>1. CASE p = new
        BY <1>6, <2>5, <3>1
      <3>2. CASE p # new
        <4>1. TORT'[p] = TORT[p] /\ TORT[p] \in TCB /\ TORT[p] # t /\ Live(TORT[p])
          BY <1>4, <2>1, <2>4, <2>5, <2>7, <3>2 DEF Listed
        <4> QED
          BY <1>6, <4>1 DEF Live
      <3> QED
        BY <3>1, <3>2
    <2>8. \A p \in Table : p >= new + 1 => TORT'[p] = NULL
      BY <2>1, <2>4, <2>5 DEF Listed, Table
    <2> QED
      BY <2>3, <2>6, <2>7, <2>8 DEF Listed, Table, Live
  <1> QED
    BY <1>7, <1>8, <1>9

LEMMA CreateFailsListed == TypeInv /\ Safe /\ ListInv /\ CreateThreadFails => ListInv'
  <1> SUFFICES ASSUME TypeInv, Safe, ListInv, CreateThreadFails PROVE ListInv'
    OBVIOUS
  <1> USE ThreadsAssumption
  <1>1. PICK k \in Kinds : \/ UNCHANGED state
                           \/ \E x \in NewTCB(k) : TakeTCB(k) /\ state' = [state EXCEPT ![x] = "NONE"]
    BY DEF CreateThreadFails
  <1>2. \A x \in NewTCB(k) : TakeTCB(k) => x \in TCB /\ state[x] \in {"NONE", "TERMINATED"}
    BY NewBlock
  <1>3. \A x \in TCB : Live(x)' <=> Live(x)
    BY ZenonT(60), <1>1, <1>2 DEF Live, TypeInv, TypeOK
  <1>4. /\ phase = "run" /\ phase' = "run"
        /\ UNCHANGED <<TORT, next_TORT_Position, PositionInTable, kind, clean, victim>>
    BY DEF CreateThreadFails, Shell
  <1>5. Worked'
    BY <1>3, <1>4, SameThreads
  <1> QED
    BY <1>4, <1>5 DEF Worked, ListInv, NobodyExits

\* CleanAllThreads and its loop.
LEMMA CleanListed == TypeInv /\ Safe /\ ListInv /\ (CleanAllThreads \/ CleanRead) => ListInv'
  <1> SUFFICES ASSUME TypeInv, Safe, ListInv, CleanAllThreads \/ CleanRead PROVE ListInv'
    OBVIOUS
  <1> USE ThreadsAssumption DEF ListInv
  <1>1. UNCHANGED <<current_thread, schedule_prev_thread, state, kind, TORT, next_TORT_Position, PositionInTable, phase>>
    BY DEF CleanAllThreads, CleanRead, lists
  <1>2. NobodyExits' /\ (Listed' <=> Listed) /\ (Room' <=> Room)
    BY <1>1 DEF NobodyExits, Listed, Room, Live, Table
  <1>3. ASSUME Cleaned PROVE Cleaned'
    <2>1. CASE CleanAllThreads
      <3>1. clean' = 0 /\ victim' = NULL
        BY <2>1 DEF CleanAllThreads, Shell, Safe, CleanInv, TypeInv, TypeOK
      <3>2. ~\E p \in Table : p < 0
        BY DEF Table
      <3> QED
        BY <3>1, <3>2 DEF Cleaned
    <2>2. CASE CleanRead
      BY SMTT(30), <1>1, <1>3, <2>2 DEF CleanRead, SkipEntry, Cleaned, Table, TypeInv, TypeOK
    <2> QED
      BY <2>1, <2>2
  <1> QED
    BY <1>2, <1>3

LEMMA NextListed == TypeInv /\ Benign /\ Safe /\ OnlyTests /\ ListInv /\ [Next]_vars => ListInv'
  <1> SUFFICES ASSUME TypeInv, Benign, Safe, OnlyTests, ListInv, [Next]_vars PROVE ListInv'
    OBVIOUS
  <1> USE ThreadsAssumption
  <1>1. CASE KillTest
    <2>1. /\ phase' = "run" /\ clean = TORT_SIZE /\ KillThread(test_thread)
          /\ UNCHANGED <<next_TORT_Position, PositionInTable, kind, clean, victim>>
      BY <1>1 DEF KillTest, Shell, shell
    <2>2. test_thread \in TCB /\ Live(test_thread) /\ test_thread # main
      BY <1>1 DEF KillTest, Benign, Safe, RunInv, TypeInv, TypeOK
    <2> QED
      BY <2>1, <2>2, KillListed
  <1>2. CASE CleanKill
    <2>1. /\ phase' = "run" /\ clean < TORT_SIZE /\ KillThread(victim) /\ clean' = clean + 1 /\ victim' = NULL
          /\ UNCHANGED <<next_TORT_Position, PositionInTable, kind>>
      BY <1>2 DEF CleanKill
    <2>2. victim \in TCB /\ Live(victim) /\ victim # main
      BY <1>2 DEF CleanKill, Safe, CleanInv, TypeInv, TypeOK
    <2> QED
      BY <2>1, <2>2, KillListed
  <1>3. CASE UNCHANGED vars
    <2>1. \A x \in TCB : Live(x)' <=> Live(x)
      BY <1>3 DEF vars, Live
    <2>2. Worked'
      BY <1>3, <2>1, SameThreads DEF vars, lists, shell
    <2> QED
      BY <1>3, <2>2 DEF vars, Worked, ListInv, NobodyExits
  <1> QED
    BY <1>1, <1>2, <1>3, KernelListed, CreateListed, CreateFailsListed, CleanListed DEF Next, ShellCode

LEMMA ListInvariant == Spec => [](Benign /\ OnlyTests => ListInv)
  <1>1. Init => (Benign /\ OnlyTests => ListInv)
    BY InitListInv
  <1>2. Benign' = Benign /\ OnlyTests' = OnlyTests
    BY DEF Benign, OnlyTests
  <1>3. IInv /\ (Benign /\ OnlyTests => ListInv) /\ [Next]_vars => (Benign /\ OnlyTests => ListInv)'
    BY <1>2, NextListed DEF IInv
  <1> QED
    BY ThreadsInvariant, <1>1, <1>3, PTL DEF Spec

\* ThreadLs lists every thread that can still run and no other, whatever is started, killed,
\* preempted or put to sleep, as long as only test threads are started and TORT, whose
\* entries are never reused, has one left.
THEOREM ThreadListExact == Spec => [](Benign /\ OnlyTests /\ Room => ThreadLsExact)
  <1>1. IInv /\ (Benign /\ OnlyTests => ListInv) => (Benign /\ OnlyTests /\ Room => ThreadLsExact)
    <2> SUFFICES ASSUME TypeInv, Room, ListInv PROVE ThreadLsExact
      BY DEF IInv
    <2>1. Listed /\ PositionInTable \in [TCB -> Table]
      BY DEF ListInv, TypeInv, TypeOK, Table
    <2> QED
      BY <2>1 DEF Listed, ThreadLsExact, Table
  <1> QED
    BY ThreadsInvariant, ListInvariant, <1>1, PTL

\* CleanAllThreads, which reads an entry of TORT with interrupts on and kills it later, leaves
\* no thread but main and idle alive, on the same condition.
THEOREM CleanKillsAll == ASSUME Benign PROVE Spec /\ []Room => CleanIsComplete
  <1> DEFINE Complete == clean # TORT_SIZE /\ clean' = TORT_SIZE => \A t \in TCB \ {main, idle} : ~Live(t)'
  <1>1. ASSUME IInv, Benign /\ OnlyTests => ListInv, (Benign /\ OnlyTests => ListInv)', IInv', Room, Room',
               [Next]_vars
        PROVE  [Complete]_vars
    <2> SUFFICES ASSUME Next, clean # TORT_SIZE, clean' = TORT_SIZE, NEW t \in TCB \ {main, idle}, Live(t)'
                 PROVE  FALSE
      BY <1>1
    <2> USE ThreadsAssumption
    <2>1. TypeInv /\ Safe /\ TypeInv'
      BY <1>1, Zenon DEF IInv
    <2>2. Shutdown /\ OnlyTests
      BY <2>1 DEF Safe, CleanInv, Benign, OnlyTests
    <2>3. ListInv /\ ListInv'
      BY <1>1, <2>2 DEF Benign, OnlyTests
    <2>4. Listed' /\ Listed /\ Cleaned /\ clean \in Table
      BY <1>1, <2>1, <2>3 DEF ListInv, TypeInv, TypeOK, Table
    <2>5. CASE CleanRead
      <3>1. clean = TORT_SIZE - 1 /\ TORT[clean] \in {NULL, idle} /\ TORT' = TORT
        BY <2>1, <2>5 DEF CleanRead, SkipEntry, TypeInv, TypeOK, lists
      <3>2. \A p \in Table : TORT'[p] \in {NULL, idle}
        BY <2>4, <3>1 DEF Cleaned, Table
      <3>3. TORT'[PositionInTable'[t]] = t /\ PositionInTable'[t] \in Table
        BY <2>1, <2>4 DEF Listed, TypeInv, TypeOK, Table
      <3> QED
        BY <3>2, <3>3
    <2>6. CASE CleanKill
      <3>1. clean = TORT_SIZE - 1 /\ victim # NULL /\ victim = TORT[clean] /\ KillThread(victim)
        BY <2>1, <2>4, <2>6 DEF CleanKill, Cleaned, TypeInv, TypeOK
      <3>2. victim \in TCB /\ PositionInTable[victim] = clean
        BY <2>1, <2>4, <3>1 DEF Safe, TableAgrees, Table, TypeInv, TypeOK
      <3>3. TORT' = [TORT EXCEPT ![clean] = NULL] /\ TORT \in [Table -> TCB \cup {NULL}]
        BY <2>1, <3>1, <3>2 DEF KillThread, Unlisted, TypeInv, TypeOK, Table
      <3>4. \A p \in Table : TORT'[p] \in {NULL, idle}
        BY <2>4, <3>1, <3>3 DEF Cleaned, Table
      <3>5. TORT'[PositionInTable'[t]] = t /\ PositionInTable'[t] \in Table
        BY <2>1, <2>4 DEF Listed, TypeInv, TypeOK, Table
      <3> QED
        BY <3>4, <3>5
    <2>7. CASE CleanAllThreads
      BY <2>7 DEF CleanAllThreads
    <2> QED
      BY <2>5, <2>6, <2>7 DEF Next, Kernel, ThreadCode, ShellCode, Tick, WakeSleeping, SwitchTo, ScheduleTail,
         ThreadSleep, Yield, ThreadExit, CreateThread, CreateThreadFails, KillTest, shell
  <1> QED
    BY ThreadsInvariant, ListInvariant, <1>1, PTL DEF Spec, CleanIsComplete
=============================================================================
