-------------------------- MODULE CpuContextProofs --------------------------
(***************************************************************************)
(* For every set of kernel threads and of user threads: a user thread runs *)
(* in its own address space, a user thread that is alone gets its own      *)
(* registers back from every syscall, and a new address space is the one   *)
(* in CR3 while its creator fills it.                                      *)
(***************************************************************************)
EXTENDS CpuContext, TLAPS

\* What schedule() needs to find the right page table: only the running thread is
\* marked as running, a user thread keeps its own manager, and one that was switched
\* out remembers that this loaded CR3.
RunInv ==
    /\ \A t \in Threads : frame[t] = "run" <=> t = current_thread
    /\ \A u \in Users : frame[u] # "none" => vmm[u] = u
    /\ \A u \in Users : frame[u] \in Suspended => target_cr3[u]

SpaceInv == TypeOK /\ RunInv /\ InOwnSpace

LEMMA SpacesDiffer ==
    /\ main \in Threads /\ main \notin Users /\ None \notin Spaces /\ None \notin Users
    /\ kernel \in Spaces /\ Users \subseteq Spaces /\ Users \subseteq Threads
  BY ContextAssumption DEF Threads, Spaces

LEMMA InitSpaceInv == Init => SpaceInv
  <1> SUFFICES ASSUME Init PROVE SpaceInv
    OBVIOUS
  <1>1. gs \in BOOLEAN /\ solo \in BOOLEAN
    BY Zenon DEF Init
  <1>2. target_cr3 \in [Threads -> BOOLEAN]
    BY Zenon DEF Init
  <1>3. TypeOK
    BY <1>1, <1>2, SpacesDiffer DEF Init, TypeOK, Prompt
  <1>4. RunInv
    BY SpacesDiffer DEF Init, RunInv, Suspended
  <1>5. InOwnSpace
    BY SpacesDiffer DEF Init, InOwnSpace
  <1> QED
    BY <1>3, <1>4, <1>5 DEF SpaceInv

Frames == {"none", "new", "run", "dead"} \cup Suspended

\* schedule() keeps the types and leaves the next thread in its own address space.
LEMMA SwitchKeeps ==
    ASSUME SpaceInv, NEW f \in Suspended \cup {"dead"}, NEW next \in Threads, SwitchTo(f, next)
    PROVE  /\ current_thread' \in Threads /\ frame' \in [Threads -> Frames]
           /\ target_cr3' \in [Threads -> BOOLEAN]
           /\ vmm' \in [Threads -> Spaces] /\ cr3' \in Spaces /\ Current_VMM_Desc' \in Spaces
           /\ kernel_rsp' \in Threads \cup {None}
           /\ mode' \in {"own", "syscall", "open", "lost"}
           /\ RunInv' /\ InOwnSpace'
  <1> USE SpacesDiffer DEF SpaceInv, RunInv
  <1> DEFINE prev == current_thread
             target == Target(prev, next)
             buries == f = "dead" /\ frame[next] # "new"
  <1>1. /\ next # prev /\ prev \in Threads /\ frame[next] \in {"new"} \cup Suspended
        /\ vmm[next] \in Spaces
        /\ next \in Users => vmm[next] = next
    BY DEF SwitchTo, TypeOK, Frames, Suspended
  <1>2. /\ target \in Spaces \cup {None}
        /\ prev \in Users => target # None
    BY <1>1 DEF Target
  <1>3. Updated(next) \in Spaces /\ Loaded(target) \in Spaces
    BY <1>1, <1>2 DEF Updated, Loaded, TypeOK
  <1>4. /\ current_thread' = next /\ vmm' = vmm /\ kernel_rsp' = next
        /\ target_cr3' = [target_cr3 EXCEPT ![prev] = target # None]
        /\ frame' = [frame EXCEPT ![prev] = IF buries THEN "none" ELSE f, ![next] = "run"]
        /\ mode' = Resumed(frame[next])
        /\ Current_VMM_Desc' = IF frame[next] = "new" THEN Current_VMM_Desc ELSE Updated(next)
        /\ cr3' = IF buries /\ prev \in Users THEN Updated(next) ELSE Loaded(target)
    BY DEF SwitchTo
  <1>5. target_cr3' \in [Threads -> BOOLEAN]
    <2>1. (target # None) \in BOOLEAN
      OBVIOUS
    <2> HIDE DEF target
    <2> QED
      BY <1>4, <2>1, Zenon DEF TypeOK
  <1>6. frame' \in [Threads -> Frames]
    BY <1>1, <1>4 DEF TypeOK, Frames
  <1>7. mode' \in {"own", "syscall", "open", "lost"}
    BY <1>4 DEF Resumed
  <1>8. cr3' \in Spaces /\ Current_VMM_Desc' \in Spaces
    BY <1>3, <1>4 DEF TypeOK
  <1>9. RunInv'
    <2>1. \A t \in Threads : frame'[t] = "run" <=> t = next
      BY <1>1, <1>4 DEF TypeOK, Suspended
    <2>2. \A u \in Users : frame'[u] # "none" => vmm'[u] = u
      BY <1>1, <1>4 DEF TypeOK
    <2>3. \A u \in Users : frame'[u] \in Suspended => target_cr3'[u]
      BY ZenonT(60), <1>1, <1>2, <1>4 DEF TypeOK, Suspended
    <2> QED
      BY <1>4, <2>1, <2>2, <2>3
  <1>10. InOwnSpace'
    <2> SUFFICES ASSUME next \in Users PROVE cr3' = next
      BY <1>4 DEF InOwnSpace
    <2>1. Loaded(target) = next
      BY <1>1 DEF Target, Loaded
    <2>2. buries => Updated(next) = next
      BY <1>1 DEF Updated
    <2> QED
      BY <1>4, <2>1, <2>2
  <1> QED
    BY <1>1, <1>4, <1>5, <1>6, <1>7, <1>8, <1>9, <1>10 DEF TypeOK

\* The actions of a running thread that do not switch threads: ring 3 and its syscalls,
\* and the shell as it makes and kills threads.
LEMMA JobValid ==
    ASSUME TypeOK, job # Prompt
    PROVE  job[1] \in {"init", "made", "fill", "start"} /\ job[2] \in Users
  BY DEF TypeOK

LEMMA MakingKeeps == SpaceInv /\ Making => SpaceInv'
  <1> SUFFICES ASSUME SpaceInv, Making PROVE SpaceInv'
    OBVIOUS
  <1> USE SpacesDiffer DEF SpaceInv, RunInv
  <1>1. current_thread = main /\ current_thread' = main /\ InOwnSpace'
    BY DEF Making, MakeManager, ManagerMade, EnterSpace, LeaveSpace, StartUser, StartPlain, KillThread,
           Shell, switch, InOwnSpace
  <1>2. /\ mode' = mode /\ gs' = gs /\ saved' = saved
        /\ target_cr3' = target_cr3 /\ kernel_rsp' = kernel_rsp
    BY DEF Making, MakeManager, ManagerMade, EnterSpace, LeaveSpace, StartUser, StartPlain, KillThread,
           switch, syscall
  <1>3. gs' \in BOOLEAN /\ target_cr3' \in [Threads -> BOOLEAN]
    BY <1>2, Zenon DEF TypeOK
  <1>4. CASE MakeManager
    <2>1. solo' \in BOOLEAN
      BY <1>4, Zenon DEF MakeManager, TypeOK
    <2>2. job' \in {Prompt} \cup ({"init", "made", "fill", "start"} \X Users)
      BY <1>4 DEF MakeManager
    <2> QED
      BY <1>1, <1>2, <1>3, <1>4, <2>1, <2>2 DEF MakeManager, TypeOK, switch, syscall
  <1>5. CASE ManagerMade
    <2>1. solo' \in BOOLEAN
      BY <1>5, Zenon DEF ManagerMade, TypeOK
    <2>2. job' \in {"made"} \X Users
      BY <1>5, JobValid DEF ManagerMade, Prompt
    <2> QED
      BY <1>1, <1>2, <1>3, <1>5, <2>1, <2>2 DEF ManagerMade, TypeOK, switch, syscall
  <1>6. CASE EnterSpace
    <2>1. solo' \in BOOLEAN
      BY <1>6, Zenon DEF EnterSpace, TypeOK
    <2>2. job[2] \in Users /\ job' \in {"fill"} \X Users
      BY <1>6, JobValid DEF EnterSpace, Prompt
    <2> QED
      BY <1>1, <1>2, <1>3, <1>6, <2>1, <2>2 DEF EnterSpace, TypeOK, switch, syscall
  <1>7. CASE LeaveSpace
    <2>1. solo' \in BOOLEAN
      BY <1>7, Zenon DEF LeaveSpace, TypeOK
    <2>2. job' \in {Prompt} \cup ({"start"} \X Users)
      BY <1>7, JobValid DEF LeaveSpace, Prompt
    <2> QED
      BY <1>1, <1>2, <1>3, <1>7, <2>1, <2>2 DEF LeaveSpace, TypeOK, switch, syscall
  <1>8. CASE StartUser
    <2>1. solo' \in BOOLEAN
      BY <1>8, Zenon DEF StartUser, TypeOK
    <2>2. job[2] \in Users
      BY <1>8, JobValid DEF StartUser, Prompt
    <2>3. RunInv'
      BY <1>1, <1>2, <1>8, <2>2 DEF StartUser, TypeOK, Suspended
    <2> QED
      BY <1>1, <1>2, <1>3, <1>8, <2>1, <2>2, <2>3 DEF StartUser, TypeOK
  <1>9. CASE StartPlain
    <2>1. solo' \in BOOLEAN
      BY <1>9, Zenon DEF StartPlain, TypeOK, making
    <2>2. PICK k \in Plain : /\ frame[k] = "none" /\ frame' = [frame EXCEPT ![k] = "new"]
                             /\ vmm' = [vmm EXCEPT ![k] = Current_VMM_Desc]
      BY <1>9 DEF StartPlain
    <2>3. k \in Threads /\ k \notin Users /\ k # main
      BY ContextAssumption DEF Threads
    <2>4. RunInv'
      BY <1>1, <1>2, <2>2, <2>3 DEF TypeOK, Suspended
    <2> QED
      BY <1>1, <1>2, <1>3, <1>9, <2>1, <2>2, <2>3, <2>4 DEF StartPlain, TypeOK, memory, syscall, making
  <1>10. CASE KillThread
    <2>1. PICK t \in Threads \ {main} :
               /\ frame[t] \in Suspended \cup {"new"}
               /\ frame' = [frame EXCEPT ![t] = "none"]
               /\ cr3' = IF t \in Users THEN Current_VMM_Desc ELSE cr3
               /\ solo' = (solo /\ frame[t] \in {"new", "irq"})
      BY <1>10 DEF KillThread
    <2>2. solo' \in BOOLEAN
      BY <2>1, Zenon DEF TypeOK
    <2>3. RunInv'
      BY <1>1, <1>2, <1>10, <2>1 DEF KillThread, TypeOK, Suspended
    <2> QED
      BY <1>1, <1>2, <1>3, <1>10, <2>1, <2>2, <2>3 DEF KillThread, TypeOK, syscall, making
  <1> QED
    BY <1>4, <1>5, <1>6, <1>7, <1>8, <1>9, <1>10 DEF Making

\* Every step that switches threads is one of these.
Switching == Tick \/ ThreadExit \/ SyscallYield \/ SyscallExit

LEMMA SwitchingKeeps == SpaceInv /\ Switching => SpaceInv'
  <1> SUFFICES ASSUME SpaceInv, Switching PROVE SpaceInv'
    OBVIOUS
  <1>1. \E f \in Suspended \cup {"dead"} : Schedule(f)
    BY DEF Switching, Tick, ThreadExit, SyscallYield, SyscallExit, Suspended
  <1>2. PICK f \in Suspended \cup {"dead"}, next \in Threads : SwitchTo(f, next)
    BY <1>1 DEF Schedule
  <1>3. UNCHANGED <<gs, saved, regs, making>>
    BY DEF Switching, Tick, ThreadExit, SyscallYield, SyscallExit
  <1>4. solo' = FALSE \/ solo' = solo
    BY DEF Switching, Tick, ThreadExit, SyscallYield, SyscallExit
  <1>5. solo' \in BOOLEAN /\ gs' \in BOOLEAN
    BY <1>3, <1>4, Zenon DEF SpaceInv, TypeOK
  <1> QED
    BY <1>2, <1>3, <1>5, SwitchKeeps DEF SpaceInv, TypeOK, making, Frames

LEMMA NextSpaceInv == SpaceInv /\ [Next]_vars => SpaceInv'
  <1> SUFFICES ASSUME SpaceInv, [Next]_vars PROVE SpaceInv'
    OBVIOUS
  <1>1. CASE SyscallEntry
    <2> USE <1>1 DEF SyscallEntry, switch, memory, making
    <2>1. gs' \in BOOLEAN /\ solo' \in BOOLEAN /\ target_cr3' \in [Threads -> BOOLEAN]
      BY Zenon DEF SpaceInv, TypeOK, swapgs
    <2>2. saved' \in Threads \cup {None} /\ mode' \in {"own", "syscall", "open", "lost"}
      BY DEF SpaceInv, TypeOK
    <2>3. RunInv' /\ InOwnSpace'
      BY DEF SpaceInv, RunInv, InOwnSpace
    <2> QED
      BY <2>1, <2>2, <2>3 DEF SpaceInv, TypeOK
  <1>2. CASE SyscallReturn
    <2> USE <1>2 DEF SyscallReturn, switch, memory, making
    <2>1. gs' \in BOOLEAN /\ solo' \in BOOLEAN /\ target_cr3' \in [Threads -> BOOLEAN]
      BY Zenon DEF SpaceInv, TypeOK, swapgs
    <2>2. regs' \in [Threads -> Threads \cup {None}]
      BY DEF SpaceInv, TypeOK
    <2>3. RunInv' /\ InOwnSpace'
      BY DEF SpaceInv, RunInv, InOwnSpace
    <2> QED
      BY <2>1, <2>2, <2>3 DEF SpaceInv, TypeOK
  <1>3. CASE UNCHANGED vars
    <2>1. gs' \in BOOLEAN /\ solo' \in BOOLEAN /\ target_cr3' \in [Threads -> BOOLEAN]
      BY <1>3, Zenon DEF SpaceInv, TypeOK, vars, switch, syscall
    <2> QED
      BY <1>3, <2>1 DEF SpaceInv, TypeOK, RunInv, InOwnSpace, vars, switch, memory, syscall, making
  <1> QED
    BY <1>1, <1>2, <1>3, MakingKeeps, SwitchingKeeps DEF Next, Switching, Syscalls, Lost

LEMMA SpaceInvariant == Spec => []SpaceInv
  BY InitSpaceInv, NextSpaceInv, PTL DEF Spec

\* Every variable keeps its type: schedule() finds a page table or none, never None as
\* the content of CR3 or of Current_VMM_Desc.
THEOREM ContextTypes == Spec => []TypeOK
  <1>1. SpaceInv => TypeOK
    BY DEF SpaceInv
  <1> QED
    BY SpaceInvariant, <1>1, PTL

\* Whichever thread schedule() chooses and whichever dead thread it buries on the way, a
\* thread with an address space of its own runs in that one.
THEOREM OwnSpace == Spec => []InOwnSpace
  <1>1. SpaceInv => InOwnSpace
    BY DEF SpaceInv
  <1> QED
    BY SpaceInvariant, <1>1, PTL

-----------------------------------------------------------------------------
\* A thread that entered syscall_entry and did not leave it yet.
InCall(u) == frame[u] \in {"yield", "sleep", "open"} \/ (u = current_thread /\ mode # "own")

\* While there was never a second user thread at a time and none ended inside a syscall:
\* GS and the save area belong to the one user thread, and no user thread is alive while
\* the shell makes a new address space.
OneUser == \A u, v \in Users : frame[u] # "none" /\ frame[v] # "none" => u = v
KernelCallsNothing ==
    \A t \in Threads \ Users : ~InCall(t)
UserState ==
    \A u \in Users : frame[u] # "none" =>
        /\ regs[u] = u
        /\ InCall(u) => saved = u
        /\ gs <=> InCall(u)
MakesAlone ==
    /\ job # Prompt => Alive = {}
    /\ job[1] = "fill" => cr3 = job[2]

SoloInv == mode # "lost" /\ OneUser /\ KernelCallsNothing /\ UserState /\ (Alive = {} => ~gs)
           /\ MakesAlone
StackInv == current_thread \in Users => kernel_rsp = current_thread
IInv == SpaceInv /\ StackInv /\ (solo => SoloInv)

LEMMA InitIInv == Init => IInv
  <1> SUFFICES ASSUME Init PROVE IInv
    OBVIOUS
  <1>1. StackInv
    BY SpacesDiffer DEF Init, StackInv
  <1>2. SoloInv
    BY SpacesDiffer DEF Init, SoloInv, OneUser, KernelCallsNothing, UserState, MakesAlone, InCall,
                        Alive, Prompt
  <1> QED
    BY <1>1, <1>2, InitSpaceInv DEF IInv

LEMMA NextStackInv == SpaceInv /\ StackInv /\ [Next]_vars => StackInv'
  <1> SUFFICES ASSUME SpaceInv, StackInv, [Next]_vars PROVE StackInv'
    OBVIOUS
  <1>1. CASE Switching
    <2>1. \E f \in Suspended \cup {"dead"} : Schedule(f)
      BY <1>1 DEF Switching, Tick, ThreadExit, SyscallYield, SyscallExit, Suspended
    <2>2. PICK f \in Suspended \cup {"dead"}, next \in Threads : SwitchTo(f, next)
      BY <2>1 DEF Schedule
    <2> QED
      BY <2>2 DEF SwitchTo, StackInv
  <1>2. CASE SyscallEntry \/ SyscallReturn \/ UNCHANGED vars
    BY <1>2 DEF SyscallEntry, SyscallReturn, vars, switch, StackInv
  <1>3. CASE Making
    <2>1. current_thread' = main
      BY <1>3 DEF Making, MakeManager, ManagerMade, EnterSpace, LeaveSpace, StartUser, StartPlain,
                  KillThread, Shell, switch
    <2> QED
      BY <2>1, SpacesDiffer DEF StackInv
  <1> QED
    BY <1>1, <1>2, <1>3 DEF Next, Switching, Syscalls, Lost

\* A thread switch keeps the one user thread's hold of GS and the save area.
LEMMA SwitchSolo ==
    ASSUME SpaceInv, SoloInv, NEW f \in Suspended \cup {"dead"}, NEW next \in Threads,
           SwitchTo(f, next), UNCHANGED <<gs, saved, regs, making>>,
           mode = "own" => f \in {"irq", "dead"},
           mode # "own" => f \in {"yield", "sleep", "open"}
    PROVE  SoloInv'
  <1> USE SpacesDiffer DEF SpaceInv, SoloInv
  <1> DEFINE prev == current_thread
             buries == f = "dead" /\ frame[next] # "new"
  <1>1. /\ next # prev /\ prev \in Threads
        /\ frame[next] \in {"new"} \cup Suspended
        /\ frame[prev] = "run"
    BY DEF SwitchTo, TypeOK, RunInv, Suspended
  <1>2. /\ current_thread' = next /\ mode' = Resumed(frame[next])
        /\ frame' = [frame EXCEPT ![prev] = IF buries THEN "none" ELSE f, ![next] = "run"]
    BY DEF SwitchTo
  <1>3. /\ frame'[next] = "run"
        /\ frame'[prev] = IF buries THEN "none" ELSE f
        /\ \A t \in Threads : t # prev /\ t # next => frame'[t] = frame[t]
    BY <1>1, <1>2 DEF TypeOK
  <1>4. \A t \in Threads : frame'[t] # "none" => frame[t] # "none"
    BY <1>1, <1>3 DEF Suspended
  <1>5. mode' # "lost"
    BY <1>2 DEF Resumed
  <1>6. OneUser'
    BY <1>4 DEF OneUser
  <1>7. \A t \in Threads : frame'[t] # "none" => (InCall(t)' <=> InCall(t))
    <2> SUFFICES ASSUME NEW t \in Threads, frame'[t] # "none"
                 PROVE  InCall(t)' <=> InCall(t)
      OBVIOUS
    <2>1. CASE t = next
      <3>1. frame[next] \in {"yield", "sleep", "open"} <=> mode' # "own"
        BY <1>1, <1>2 DEF Resumed, Suspended
      <3> QED
        BY <1>1, <1>2, <1>3, <2>1, <3>1 DEF InCall
    <2>2. CASE t = prev
      BY <1>1, <1>2, <1>3, <2>2 DEF InCall
    <2>3. CASE t # prev /\ t # next
      BY <1>2, <1>3, <2>3 DEF InCall
    <2> QED
      BY <2>1, <2>2, <2>3
  <1>8. KernelCallsNothing'
    <2> SUFFICES ASSUME NEW t \in Threads \ Users PROVE ~InCall(t)'
      BY DEF KernelCallsNothing
    <2>1. CASE frame'[t] = "none"
      BY <1>2, <1>3, <2>1 DEF InCall
    <2>2. CASE frame'[t] # "none"
      BY <1>7, <2>2 DEF KernelCallsNothing
    <2> QED
      BY <2>1, <2>2
  <1>9. UserState'
    <2> SUFFICES ASSUME NEW u \in Users, frame'[u] # "none"
                 PROVE  /\ regs'[u] = u
                        /\ InCall(u)' => saved' = u
                        /\ gs' <=> InCall(u)'
      BY DEF UserState
    <2>1. frame[u] # "none" /\ u \in Threads
      BY <1>4
    <2>2. InCall(u)' <=> InCall(u)
      BY <1>7, <2>1
    <2>3. regs[u] = u /\ (InCall(u) => saved = u) /\ (gs <=> InCall(u))
      BY <2>1 DEF UserState
    <2> QED
      BY <2>2, <2>3, Zenon
  <1>10. Alive' = {} => ~gs'
    <2> SUFFICES ASSUME Alive' = {} PROVE ~gs
      BY Zenon
    <2>1. CASE Alive = {}
      BY <2>1
    <2>2. CASE Alive # {}
      <3>1. PICK u \in Users : frame[u] # "none"
        BY <2>2 DEF Alive
      <3>2. frame'[u] = "none"
        BY DEF Alive
      <3>3. u = prev /\ buries
        BY <1>1, <1>3, <3>1, <3>2
      <3>4. ~InCall(u)
        BY <1>1, <3>3 DEF InCall
      <3> QED
        BY <3>1, <3>4 DEF UserState
    <2> QED
      BY <2>1, <2>2
  <1>11. MakesAlone'
    <2>1. job' = job
      BY DEF making
    <2>2. Alive = {} => Alive' = {}
      BY <1>4 DEF Alive
    <2>3. ASSUME job[1] = "fill" PROVE cr3' = cr3
      <3>1. Alive = {}
        BY <2>3 DEF MakesAlone, Prompt
      <3>2. prev \notin Users /\ next \notin Users
        BY <1>1, <3>1 DEF Alive, Suspended
      <3> QED
        BY <3>2 DEF SwitchTo, Target, Loaded
    <2> QED
      BY <2>1, <2>2, <2>3 DEF MakesAlone
  <1> QED
    BY <1>5, <1>6, <1>8, <1>9, <1>10, <1>11

LEMMA SwitchingSolo == SpaceInv /\ SoloInv /\ solo' /\ Switching => SoloInv'
  <1> SUFFICES ASSUME SpaceInv, SoloInv, solo', Switching PROVE SoloInv'
    OBVIOUS
  <1>1. ~SyscallExit
    BY DEF SyscallExit
  <1>2. PICK f \in Suspended \cup {"dead"} :
             /\ Schedule(f)
             /\ mode = "own" => f \in {"irq", "dead"}
             /\ mode # "own" => f \in {"yield", "sleep", "open"}
    BY <1>1 DEF Switching, Tick, ThreadExit, SyscallYield, Suspended
  <1>3. PICK next \in Threads : SwitchTo(f, next)
    BY <1>2 DEF Schedule
  <1>4. UNCHANGED <<gs, saved, regs, making>>
    BY DEF Switching, Tick, ThreadExit, SyscallYield, SyscallExit
  <1> QED
    BY <1>2, <1>3, <1>4, SwitchSolo

LEMMA SyscallSolo == SpaceInv /\ SoloInv /\ (SyscallEntry \/ SyscallReturn) => SoloInv'
  <1> SUFFICES ASSUME SpaceInv, SoloInv, SyscallEntry \/ SyscallReturn PROVE SoloInv'
    OBVIOUS
  <1> USE DEF SoloInv
  <1> DEFINE u == current_thread
  <1>1. /\ UNCHANGED <<current_thread, frame, cr3, job>>
        /\ Alive' = Alive
    BY DEF SyscallEntry, SyscallReturn, switch, memory, making, Alive
  <1>2. u \in Users /\ frame[u] = "run" /\ gs' = ~gs
    <2>1. CASE SyscallEntry
      BY <2>1, SpacesDiffer DEF SyscallEntry, SpaceInv, RunInv, swapgs
    <2>2. CASE SyscallReturn
      <3>1. InCall(u) /\ u \in Threads
        BY <2>2 DEF SyscallReturn, InCall, SpaceInv, TypeOK
      <3> QED
        BY <2>2, <3>1 DEF SyscallReturn, KernelCallsNothing, SpaceInv, RunInv, swapgs
    <2> QED
      BY <2>1, <2>2
  <1>3. regs[u] = u /\ (InCall(u) => saved = u) /\ (gs <=> InCall(u)) /\ (InCall(u) <=> mode # "own")
    BY <1>2 DEF UserState, InCall
  <1>4. \A v \in Users : frame[v] # "none" => v = u
    BY <1>2 DEF OneUser
  <1>5. /\ mode' # "lost" /\ regs'[u] = u
        /\ mode' # "own" => saved' = u
        /\ gs' <=> mode' # "own"
    <2>1. CASE SyscallEntry
      <3>1. gs'
        BY <1>2, <1>3, <2>1 DEF SyscallEntry
      <3> QED
        BY <1>3, <2>1, <3>1 DEF SyscallEntry
    <2>2. CASE SyscallReturn
      <3>1. mode # "own" /\ mode' = "own" /\ regs' = [regs EXCEPT ![u] = saved]
        BY <2>2 DEF SyscallReturn
      <3>2. ~gs'
        BY <1>2, <1>3, <3>1
      <3>3. regs'[u] = u
        BY <1>2, <1>3, <3>1, SpacesDiffer DEF SpaceInv, TypeOK
      <3> QED
        BY <3>1, <3>2, <3>3
    <2> QED
      BY <2>1, <2>2
  <1>6. OneUser'
    BY <1>1 DEF OneUser
  <1>7. KernelCallsNothing'
    BY <1>1, <1>2 DEF KernelCallsNothing, InCall
  <1>8. UserState'
    <2>1. InCall(u)' <=> mode' # "own"
      BY <1>1, <1>2 DEF InCall
    <2> QED
      BY <1>1, <1>4, <1>5, <2>1 DEF UserState
  <1>9. Alive' # {}
    BY <1>1, <1>2 DEF Alive
  <1> QED
    BY <1>1, <1>5, <1>6, <1>7, <1>8, <1>9 DEF MakesAlone

\* The shell makes, starts and kills threads.
LEMMA MakingSolo == SpaceInv /\ SoloInv /\ solo' /\ Making => SoloInv'
  <1> SUFFICES ASSUME SpaceInv, SoloInv, solo', Making PROVE SoloInv'
    OBVIOUS
  <1> USE SpacesDiffer DEF SoloInv
  <1>1. /\ current_thread = main /\ current_thread' = main
        /\ mode = "own" /\ UNCHANGED <<gs, saved, mode>>
    BY DEF Making, MakeManager, ManagerMade, EnterSpace, LeaveSpace, StartUser, StartPlain, KillThread,
           Shell, switch, syscall
  <1>2. CASE MakeManager \/ ManagerMade \/ EnterSpace \/ LeaveSpace
    <2>1. UNCHANGED <<frame, regs>> /\ Alive' = Alive
      BY <1>2 DEF MakeManager, ManagerMade, EnterSpace, LeaveSpace, switch, syscall, Alive
    <2>2. \A t \in Threads : InCall(t)' <=> InCall(t)
      BY <1>1, <2>1 DEF InCall
    <2>3. OneUser' /\ KernelCallsNothing' /\ UserState'
      BY <1>1, <2>1, <2>2 DEF OneUser, KernelCallsNothing, UserState
    <2>4. Alive = {}
      <3>1. CASE MakeManager
        <4>1. solo' = (solo /\ Alive = {})
          BY <3>1 DEF MakeManager
        <4> QED
          BY <4>1, Zenon
      <3>2. CASE ManagerMade \/ EnterSpace \/ LeaveSpace
        <4>1. job[1] \in {"init", "made", "fill"}
          BY <3>2 DEF ManagerMade, EnterSpace, LeaveSpace
        <4>2. job # Prompt
          BY <4>1 DEF Prompt
        <4> QED
          BY <4>2, Zenon DEF MakesAlone
      <3> QED
        BY <1>2, <3>1, <3>2
    <2>5. job'[1] = "fill" => cr3' = job'[2]
      <3>1. CASE MakeManager
        BY <3>1 DEF MakeManager
      <3>2. CASE ManagerMade
        BY <3>2 DEF ManagerMade
      <3>3. CASE EnterSpace
        BY <3>3 DEF EnterSpace
      <3>4. CASE LeaveSpace
        BY <3>4 DEF LeaveSpace, Prompt
      <3> QED
        BY <1>2, <3>1, <3>2, <3>3, <3>4
    <2> QED
      BY <1>1, <2>1, <2>3, <2>4, <2>5 DEF MakesAlone
  <1>3. CASE StartUser
    <2>1. job[2] \in Users /\ Alive = {}
      BY <1>3, JobValid DEF StartUser, Prompt, SpaceInv, MakesAlone
    <2> DEFINE u == job[2]
    <2>2. /\ frame' = [frame EXCEPT ![u] = "new"] /\ regs' = [regs EXCEPT ![u] = u]
          /\ job' = Prompt
      BY <1>3 DEF StartUser
    <2>3. /\ frame'[u] = "new" /\ regs'[u] = u
          /\ \A v \in Users : v # u => frame'[v] = "none"
          /\ \A t \in Threads \ Users : frame'[t] = frame[t]
      BY <2>1, <2>2 DEF Alive, SpaceInv, TypeOK
    <2>4. OneUser'
      BY <2>3 DEF OneUser
    <2>5. KernelCallsNothing'
      BY <1>1, <2>3 DEF KernelCallsNothing, InCall
    <2>6. UserState'
      BY <1>1, <2>1, <2>3 DEF UserState, InCall
    <2> QED
      BY <1>1, <2>1, <2>2, <2>4, <2>5, <2>6 DEF MakesAlone, Prompt
  <1>4. CASE StartPlain
    <2>1. PICK k \in Plain : frame' = [frame EXCEPT ![k] = "new"]
      BY <1>4 DEF StartPlain
    <2>2. k \in Threads /\ k \notin Users /\ k # main
      BY ContextAssumption DEF Threads
    <2>3. UNCHANGED <<regs, job, cr3>> /\ \A t \in Threads : t # k => frame'[t] = frame[t]
      BY <1>4, <2>1 DEF StartPlain, syscall, making, memory, SpaceInv, TypeOK
    <2>4. frame'[k] = "new"
      BY <2>1, <2>2 DEF SpaceInv, TypeOK
    <2>5. Alive' = Alive
      BY <2>2, <2>3 DEF Alive
    <2>6. OneUser' /\ KernelCallsNothing' /\ UserState'
      BY <1>1, <2>2, <2>3, <2>4 DEF OneUser, KernelCallsNothing, UserState, InCall
    <2> QED
      BY <1>1, <2>3, <2>5, <2>6 DEF MakesAlone
  <1>5. CASE KillThread
    <2>1. PICK t \in Threads \ {main} :
               /\ frame[t] \in {"new", "irq"}
               /\ frame' = [frame EXCEPT ![t] = "none"]
      BY <1>5 DEF KillThread
    <2>2. UNCHANGED <<regs, job>> /\ job = Prompt
      BY <1>5 DEF KillThread, syscall, making
    <2>3. frame'[t] = "none" /\ \A v \in Threads : v # t => frame'[v] = frame[v]
      BY <2>1 DEF SpaceInv, TypeOK
    <2>4. OneUser' /\ KernelCallsNothing' /\ UserState'
      BY <1>1, <2>2, <2>3 DEF OneUser, KernelCallsNothing, UserState, InCall
    <2>5. Alive' = {} => ~gs'
      <3>1. ASSUME t \in Users PROVE ~gs
        BY <1>1, <2>1, <3>1 DEF UserState, InCall
      <3>2. ASSUME t \notin Users PROVE Alive' = Alive
        BY <2>3, <3>2 DEF Alive
      <3> QED
        BY <1>1, <3>1, <3>2
    <2> QED
      BY <1>1, <2>2, <2>4, <2>5 DEF MakesAlone, Prompt
  <1> QED
    BY <1>2, <1>3, <1>4, <1>5 DEF Making

LEMMA NextIInv == IInv /\ [Next]_vars => IInv'
  <1> SUFFICES ASSUME IInv, [Next]_vars PROVE IInv'
    OBVIOUS
  <1>1. ASSUME solo' PROVE SoloInv'
    <2>1. solo
      BY <1>1, Zenon DEF IInv, SpaceInv, Next, Tick, ThreadExit, Syscalls, SyscallEntry, SyscallReturn,
           SyscallYield, SyscallExit, Making, MakeManager, ManagerMade, EnterSpace, LeaveSpace,
           StartUser, StartPlain, KillThread, Lost, vars, making
    <2>2. CASE UNCHANGED vars
      BY <2>1, <2>2 DEF IInv, SoloInv, OneUser, KernelCallsNothing, UserState, MakesAlone, InCall, Alive,
                        vars, switch, memory, syscall, making
    <2> QED
      BY <1>1, <2>1, <2>2, SwitchingSolo, SyscallSolo, MakingSolo
         DEF IInv, Next, Switching, Syscalls, Lost
  <1> QED
    BY <1>1, NextSpaceInv, NextStackInv DEF IInv

LEMMA ContextInvariant == Spec => []IInv
  BY InitIInv, NextIInv, PTL DEF Spec

\* A user thread that was never alive together with another one, and that returns from
\* every syscall, gets its own registers back however often it is preempted, and enters
\* through the save area on its own kernel stack.
THEOREM Solo == Spec => []SoloSyscalls
  <1>1. IInv => SoloSyscalls
    <2> SUFFICES ASSUME IInv, solo, current_thread \in Users
                 PROVE  /\ mode # "lost" /\ regs[current_thread] = current_thread
                        /\ mode = "own" <=> ~gs
                        /\ kernel_rsp = current_thread
      BY DEF SoloSyscalls
    <2>1. frame[current_thread] = "run"
      BY SpacesDiffer DEF IInv, SpaceInv, RunInv
    <2> QED
      BY <2>1 DEF IInv, SoloInv, StackInv, UserState, InCall
  <1> QED
    BY ContextInvariant, <1>1, PTL

\* Without other user threads, the creator of a thread fills the new address space also
\* after it was preempted in the middle.
THEOREM FillsNew == Spec => []FillsNewSpace
  <1>1. IInv => FillsNewSpace
    BY DEF IInv, SoloInv, MakesAlone, FillsNewSpace
  <1> QED
    BY ContextInvariant, <1>1, PTL
=============================================================================
