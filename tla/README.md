# A TLA+ verification of the OS003 kernel

OS003 is a small x86-64 operating system: a UEFI boot loader and a
single-core, preemptive kernel with kernel and ring 3 threads, virtual memory,
a keyboard, an ATA disk with a FAT32 file system and a shell.  This directory
holds TLA+ models of the parts that carry its logic, TLC configurations that
check them on small instances, and TLAPS proofs of the main safety properties
for every instance.

Paths below are relative to the repository; `Thread.c` is
`Kernel/kernel/Thread.c` and so on.  `PROJECT.json` maps every definition to the
lines it models.

## 1. The system

| Part | State | Operations | Interaction |
|---|---|---|---|
| Threads, scheduler (`Thread.c`) | `current_thread`, ready and sleep queue (both linked through `thread_t.next`), `free_tcb_list`, the table `TORT` | `create_thread`, `create_user_thread`, `schedule`, `ThreadSleepMS`, `thread_exit`, `KillThread`, `CleanAllThreads` | called by the timer interrupt `irq_0`, by threads, by the shell |
| Mutex, semaphore (`Thread.c`) | `locked`, `owner`, `count`, wait queues | `mutex_lock/unlock`, `sem_wait/post` | test and block in a loop around `schedule()`; offered to kernel code, no caller yet |
| System calls, processor context (`Syscall.c`, `Thread.c`, `vmm.c`) | CR3, `Current_VMM_Desc`, GS base, the one save area `syscall_cpu` | `syscall_entry`, `SYS_yield`, `SYS_sleep`, `SYS_exit`, `Switch_Virtual_Mamanager` | every thread switch, burial and creation touches it |
| Keyboard (`Keyboard.c`, `pic.c`) | ring buffer, two indices, count, shift flag | `irq_1`, `GetKey`, `GetKey_NoBlock` | interrupt handler against the shell |
| Physical memory (`pmm.c`, `bitmap.c`) | descriptors with bitmaps | `Pmm_Malloc`, `Pmm_Free` | the shell allocates with interrupts on, burials free |
| Virtual memory (`paging.c`, `vmm.c`) | page tables, managers `VMM_T`, allocation records | `map_page`, `Init_*Virtual_Memory_Manager`, `Vmm_Malloc`, `Vmm_Free` | shell, thread creation, `KillThread` |
| FAT32, file layer (`fat32.c`, `fs.c`) | FAT, directories, FSInfo on disk; hint and free count in memory | create, write, append, read, rename, delete, mkdir, rmdir | through `ATA_Read` and `ATA_Write`, which may fail |
| ATA driver, GPT, PCI (`ata.c`, `gpt.c`, `pci.c`) | registers of two channels, drives that work on their own, `gATAInfo`, sector buffers | scan, IDENTIFY, read, write, flush, `FindPartition`, both bus scans | polled with time-outs, never reset; under the mount and every file operation |
| Display (`display.c`, `Draw.c`) | `g_display_driver`, the frame buffer | probe, rectangles, lines, block copies | `InitSystem`, then the shell |
| Clock (`delay.c`, `Time.c`) | the real-time clock's second | `Get_CPU_Frequency` | the last wait before the shell |
| Interrupts, exceptions (`idt.c`, `pic.c`) | gates, the stack of the interrupted code, the controller's request and service registers | stubs, `irq_0`, `irq_1`, exception handlers, end of interrupt | between any two instructions with interrupts on |
| Boot loader (`Bootloader/src`), UEFI map (`EfiMemDesc.c`) | firmware handles and pool memory, `BOOT_SHARE`, the memory map | `efi_main`, `ReadFileToBuffer`, `LoadBootShare`, `CheckMemoryMap`, `AnalysisMemoryMap` | hands memory and files to the kernel |
| Others | | | GDT/TSS, ACPI tables, console, serial port: see section 7 |

What is hard here: the timer may fall between any two instructions outside a
`cli`/`sti` pair, and `KillThread` turns interrupts on wherever it is called
from; a dead thread is cleaned up by its successor, on whatever code path that
was suspended; memory can run out in the middle of every creation; the disk can
refuse a write or lose power between any two writes of one file operation; a
drive that was given up goes on working and answers the next command instead;
an interrupt or a second exception can come inside a stub; and every call of the
firmware can fail, some of them unnoticed.
`PROJECT.json` lists these hazards line by line with the properties that watch
them.

## 2. The modules

    Threads <-- ThreadSync              Ata <--+
                                               +-- Mount ---+
    KeyQueue <.. Keyboard <--+          Pci <--+            +-- Boot
                             +-- KeyboardSystem  ^-- Display -+
               Interrupts <--+   FileSystem <.. Fat32, Clock -+

    CpuContext     Vmm                  Loader, Pmm <-- PmmSystem

An arrow is EXTENDS, `<..` the refinement.  `MCThreads`, `MCThreadSync`,
`MCKeyboard` (of `KeyboardSystem`), `MCPmm` (of `PmmSystem`), `MCCpuContext`,
`MCVmm` and `MCBoot` hold the instances.  The proofs are in modules of their own:
`ThreadsProofs`, `ThreadSyncProofs`, `CpuContextProofs` and `Fat32Proofs` extend the
module they are named after, `KeyboardProofs` extends `KeyboardSystem`, `PmmProofs`
extends `PmmSystem`, `BootProofs` extends `Boot`, `VmmProofs` extends `Vmm`.

An operator whose name ends in a suffix, such as `thread_enqueue_AtHead`, is a
faulty variant of the definition that follows it.  No specification uses it;
`PROJECT.json` names, for each property, the variant that makes TLC report a
violation.

**Threads.**  One action per operation.  Code between `disable_interrupts()`
and `enable_interrupts()` is one step; `schedule()` is cut where it hands the
processor over (`phase`: "wake" before `switch_to`, "tail" after it, on the new
thread's stack).  `frame` says where a suspended thread resumes and hence
whether interrupts are on afterwards; a thread that never ran starts without
the tail, so its dead predecessor is not buried, as in the code.  Absolute
wake-up times are kept relative to the tick counter.  Queues are sequences,
since their links are only followed from head to tail.  Self-kill through
`KillThread(current_thread)` has no caller and is left out.

**ThreadSync** extends Threads with one mutex and one semaphore.  The loops of
`mutex_lock` and `sem_wait` are cut into statements, because whether interrupts
are really off inside them is the question.

**CpuContext** keeps what one processor holds for all threads.  Here
`schedule()` may choose any live thread, which includes every order the queues
of Threads produce.  The local `target_cr3` of each suspended thread is state:
the line after `switch_to` tests the value from the time the resumed thread was
itself switched out.

**Keyboard, KeyQueue, Interrupts, KeyboardSystem.**  `KeyQueue` is the promise: a
bounded first-in first-out queue that may be erased while the kernel boots.
`Keyboard` has the ring, the handler and the reader's steps; `ImplementsQueue`
is the refinement.  `Interrupts` has the gates of `Init_IDT`, the two kinds of
stubs (those that call their handler and those that jump to it), the handlers
with the prints that may fault again, and the controller.  The stack is a
sequence of what was pushed, one word per frame, error code, register block or
return address, because what an `iretq` finds on top is the question.  The
`sti` before every `iretq` takes effect one instruction later, as the processor
defines it.  `KeyboardSystem` puts the keyboard under these interrupts: a key
reaches the ring only through line 1, and the reader moves only while no
handler runs.

**Loader, Pmm, PmmSystem.**  `Loader` is `efi_main` with every firmware call
that can fail and what each error path gives back, up to the kernel's own tests
of what it was handed.  `unchecked` collects the failures the code does not
look at.  `PmmSystem` starts the allocator on the map the loader handed over.
`Pmm` starts from a UEFI memory map, builds the descriptors, and steps through
`BitmapAllocBits` and `BitmapSetBits`.  `bitmap.c` is compiled without
optimisation, so the load and the store of a bitmap byte are two steps, between
which another thread may bury a dead one and free its pages.

**Vmm** models four-level page tables as functions on pages.  A PML4 keeps the
two entries that matter (low memory, kernel half) and a PDPT two (RAM, 4 GiB).
The manager, buffer, thread and kill operations are whole actions; interleaving
of address-space switches is CpuContext's subject.

**Ata, Pci, Mount.**  A step of `Ata` is one wait of the driver with what
follows it up to the next wait, or one step of a drive: to become ready with
data, to fail, or nothing for as long as it likes.  A wait that ends on a busy
drive leaves the drive its command (`abandoned`), so its answer can come during
a later one.  A sector is known by its drive and address; `media` records what
was written where.  `Pci` is the two scans of bus 0.  `Mount` is what
`InitSystem` does with both: the controllers, the four drives, `FindPartition`
with its result test that is never true, `FAT32_GetInfo`, and the functions
that read and write a cluster or an entry of the FAT.  Where `fat32.c` passes
`&Disk->is_master` the model asks the master.

**Fat32.**  A step is one disk write with the reads that lead to it.  `Outcomes`
is what a write can do: succeed, fail before, or fail after the sectors that
matter were written.  Power loss may come between any two steps.  File contents
and LFN text are left out; names are model values with their 8.3 name and the
number of LFN entries they need, since aliasing through 8.3 names is where names
go wrong.

`FileSystem` is what the shell is promised of a volume: a tree of directories and
calls that each create, remove, rename or enlarge the one entry they were given, in
their last step, or give up and change nothing; nothing is said of clusters or of the
writes in between.  `ImplementsFiles` is the refinement: `Tree` reads the directories
by following the table from the root, as `FAT32_FindEntryAny` does, `UnderWay` is the
name and the argument of the call, `Opened` the directory and the 8.3 name of the open
file.  The promise ends (`broken`) with the events "torn" and "misread".

**Clock, Display, Boot.**  `Clock` is `Get_CPU_Frequency` on a clock that wraps.
`Display` is the probe and the drawing operations on a frame buffer whose words
all differ, with writes outside it recorded; a line is drawn turn by turn with the
error term of the code, a block copied word by word.  `Boot` is `InitSystem` from the
disk scan to the shell, and the shell's use of what was found.  Fat32 sees the
driver as calls that succeed or fail; what it takes for granted, that a call
which succeeds moved the sectors it names, is what `ReadIsExact` and
`WriteIsExact` say of Ata under it.

History variables record what a property needs to know and no action reads:
`depth` (mutex calls), `blocks`, `freed`, `failed`, `single`, `shared` (Pmm),
`solo` (CpuContext), `mishap` (Fat32), `abandoned` and the origin of sectors
(Ata), `genuine` (Mount), `unchecked` (Loader).  Four more mark where the model stops
following the kernel, because what it does then is arbitrary: Pmm's
`clobbered` (a bitmap write hit a descriptor), CpuContext's mode "lost" (GS is
not the save area), Vmm's `stopped` (page fault, the kernel halts) and
`spoiled` (pages in use were freed or address 0 used).  In Fat32 the
events "torn" and "grow" do the same: the volume is not used further; PmmSystem follows the kernel only
where `unchecked` is empty.

## 3. What is checked

| Run | States | Shows |
|---|---|---|
| `threads_lifecycle` | 555 007 | with three worker blocks created, preempted, sleeping, killed, exiting and recycled in every order: each thread is in exactly the queue its state names (`QueueOwnership`), `schedule()` never falls back (`NoFallback`), no stack in use is freed (`StackSafety`), recycled blocks are unused (`FreeBlocksUnused`), the dead stay dead (`DeadStaysDead`) |
| `threads_shutdown` | 393 125 | `CleanAllThreads` under preemption, with creations that run out of memory: `ThreadLs` is exact (`ThreadLsExact`), and afterwards no thread but main and idle lives (`CleanIsComplete`) |
| `sync_mutex` | 194 491 | while no thread exits: one owner at a time, no lost unlock, no lost or invented semaphore unit |
| `sync_progress` | 63 046 | with exits and fairness: a wanted mutex is taken, ready threads run, sleepers wake |
| `sync_burial` | violation | with exits, two threads own the mutex (section 5) |
| `cpu_context` | 219 817 | `InOwnSpace`, `SoloSyscalls`, `FillsNewSpace` with two user threads and a kernel thread |
| `context_gs` | violation | a second user thread enters a syscall through the wrong GS base |
| `keyboard` | 167 384 | under timer, keyboard, exceptions and nested faults: the ring is consistent and implements `KeyQueue`, every return finds its frame and leaves the interrupted stack as it was (`ReturnsClean`), a full ring is emptied (`FullIsTemporary`), a raised line is served (`LineIsServed`) |
| `pmm` | 279 793 | from the loader on, with every firmware call failing: the hand-over (`HandoverIsSound`), no page of the loader's memory is handed out (`LoaderDataKept`), single pages are never shared (`PagesDisjoint`), NULL only when there is no room (`NullMeansFull`), every call returns |
| `pmm_overlap` | violation | requests of two pages get a page in use |
| `vmm` | 56 824 | pages have one use, the kernel is reachable from every address space, buffers stay mapped, until memory runs out |
| `boot` | 321 029 | on eight machines, with drives that answer late, fail or stay silent: a read or write that reports success moved exactly the sectors asked for (`ReadIsExact`, `WriteIsExact`), the mounted volume is the right one (`MountIsGenuine`), the shell is reached (`BootReachesShell`), drawing touches what it names (`DrawingIsExact`); on the mounted volume chains, leaks, sizes, names, removal and the cluster search (`ChainsIntact`, `NothingLeaks`, `SizeIsBacked`, `NamesUnambiguous`, `FullMeansFull`), with one fault anywhere; every call changes the tree of directories in its last step or not at all (`ImplementsFiles`) |

`TypeOK` of Threads, CpuContext, Keyboard and Pmm, `TakeFindsKey` and
`PagesMarked` are not in the runs: they are theorems (section 4).

### Bounds

* Threads: `TCB` (main, idle, three workers; two for `sync_progress`), `Kinds`
  (which threads the shell starts), `MaxSleep` (one or two ticks),
  `FREE_TCB_LIST_SIZE` = 4 (more than the workers; full and empty lists are
  covered by proof), `TORT_SIZE` = 3 in `threads_lifecycle`, so that the
  table overflows, and 6 with the constraint `MCTableNotFull` in
  `threads_shutdown`: behind the limit the code no longer lists new threads.
  `OutOfMemory` enables the early returns, `StaleKill` a repeated KillTest,
  `Shutdown` the clean-up.  Three workers are enough for one running, one dying
  and one waiting.
* ThreadSync: `MaxCount` (semaphore count), `MaxDepth` = 1 (a thread does not
  lock what it holds: the code returns at once and counts nothing, so a nested
  unlock releases), `Exiting`.
* Keyboard: `KEYBOARD_BUFFER_SIZE` = 2 instead of 256, with full, empty and
  both wraps; other sizes are covered by proof.  `Raised` has one vector of each
  way an exception can go: a calling stub with an error code whose handler may
  fault again, jumping stubs with and without one, an error code without a gate, an
  unused vector.  `MaxNest` = 2 faults inside each other.
* Loader: `MCFirmwares` (maps with each memory type and with more entries than
  fit), `MAP_ENTRIES` = 3.
* Pmm: `MCMaps` (two entries of up to two pages, three of one, with and without
  holes, of both kinds, at 0 and above), `Sizes`, `BYTE` = 2 bits and
  `DescBits` = 1, so that one byte is shared by two pages and a bitmap reaches
  the next descriptor.
* CpuContext: two user threads, one kernel thread.
* Vmm: `FRAMES` = 34 pages, enough for the kernel and two threads and few
  enough to run out; `ENTRIES` = 2; `BufferPages`, `StackPages`; `RECORDS`, the
  allocation records used; `HEAP` follows from `ENTRIES`.
* Boot: `MCMachines` (a disk alone, the volume on a slave, behind a CD, on the
  second channel, disks with an empty, a short, an alien and no partition
  table, nothing at all) and `MCBus` (2 devices of 2 functions) with more
  controllers and adapters than are asked for; LBA limits of a few sectors, so
  that both address forms and both ends of them are used; `MaxUses` = 2;
  `MINUTE` = 3; a screen of 3 by 3; `FileMachines`, `ScreenMachines`: the
  machines on which files are used and drawings made, which behave alike on all.
* Fat32: `TotalClusters` = 4 and `EntryCount` = 2, so that the volume and a
  directory run full; `Slack` = 0; `UnitsPerCluster` = 2 and `Sizes` for empty,
  partial and several clusters; `MaxFile`; `DirNames` (directories in the root
  only); `MaxCalls` = 5; `MaxFaults` = 1; `Ready` (a torn volume is left alone).

Deadlock is checked in all runs but three.  In `boot` the calls are bounded, and
an endless cluster search really stops the kernel; in `keyboard` an exception
handler stops the machine; in `pmm` the loader may reset it.  Pmm, CpuContext and
Vmm stutter explicitly (`Lost`, `Halted`) where they stop following the kernel.

### Fairness

* `SyncFairSpec`: strong fairness of `Tick`, because the PIT fires for ever and
  the interrupt controller holds a request while interrupts are off; weak
  fairness of the steps of `schedule()` and of the loops of a thread that runs,
  which are straight-line code.  Nothing is assumed of what threads do
  otherwise.
* `SysSpec` of KeyboardSystem: weak fairness of the processor inside stubs and
  handlers; strong fairness of boot code and reader, which interrupts interrupt
  again and again without taking the processor for good, and of the delivery of
  each line, since the controller keeps a request.  No tick is raised while one
  is served: the PIT's period is far longer than its handler.  Nobody has to
  type.
* `SysSpec` of PmmSystem: a call of the allocator that has begun goes on, since
  the shell thread is scheduled again and again (`EveryReadyThreadRuns`).
* `BootSpec`: weak fairness of `InitSystem` and of the driver, which is one
  thread of straight-line code and loops, and of the clock.  No fairness of the
  drives: they may stay silent for ever, and the time-outs have to do.

## 4. What is proved

Every theorem holds for all values of the constants allowed by the named
assumption of the module (`ThreadsAssumption`, `SyncAssumption`,
`KeyboardAssumption`, `InterruptsAssumption`, `PmmAssumption`, `LoaderAssumption`,
`ContextAssumption`, `AtaAssumption`, `MountAssumption`, `BootAssumption`,
`DisplayAssumption`, `Fat32Assumption`).  Beyond types they say: there are finitely many control blocks;
a table of partitions lies within the reach of LBA48 and a cluster is one read; a
drive without a partition table has no system partition; the firmware's memory map
describes a page at most once.

**ThreadsProofs.**  `ThreadTypes` holds always.  The others hold for `Benign`
constants: no kill of a thread that is already dead (`~StaleKill`, and where the
clean-up may run only threads that never exit).  `ThreadQueues`,
`SomebodyReady`, `StacksKept`, `BlocksRecycled`, `TablePositions` and
`NoResurrection` follow from the inductive invariant
`IInv == TypeInv /\ (Benign => Safe)`.  None of the properties is inductive alone: that a
stack is kept depends on the queues naming only live threads, which depends on
recycled blocks being unlisted, which depends on the table's positions; `RunInv`
(nobody is RUNNING inside `schedule()`, main is never blocked or dead) gives
`NoFallback`, and `CleanInv` (the victim read is still alive) carries
`CleanAllThreads` over a preemption.  The lemmas on queues (`EnqueueFacts`,
`DequeueFacts`, `RemoveFacts`, `UnlinkFacts`) reduce sequences to membership;
`StateStep` is the argument common to all actions that move one thread.

`ThreadListExact` and `CleanKillsAll` are about the thread table.  `ListInv` says, as
long as the table has an entry left (`Room`): every live thread has an entry
(`Listed`), and no live thread but main and idle stands below the index the
clean-up has reached (`Cleaned`).  The entries are never reused, so `Room` is a real
condition: behind it new threads are unlisted by the code.

**ThreadSyncProofs.**  `MutexExcludes`, `UnlockReachesWaiter` and `PostReachesWaiter`
for any number of threads, as long as nobody exits and nobody locks what it holds
(`Disciplined`; without the first the property is false, section 5).  The
invariant `SyncInv` has `LinkInv` (the four queues share one link: a thread is in at
most one, the one its place in the loops and its state name), `LoopInv` (a thread
inside a loop runs with interrupts off or is in `schedule()`, so test and set are
one step), `MutexInv` (an owner there is while `locked`, and a free mutex with
waiters has a woken one) and `SemInv`, which keeps a count: as long as threads wait, at least
`count` of the woken ones are on their way.  A post adds a unit and a woken thread,
a taken unit removes one of each.

**KeyboardProofs.**  `TypeCorrect`, `GetKeyNeverUnderflows`,
`RingAlwaysConsistent`, and the refinement `DriverImplementsQueue`, for every
buffer size and scan code table.  The invariant states the write index by cases
instead of with `%`; the refinement shows that a stored character is appended,
a removal is `Tail`, and the boot-time clearing erases in place or stutters.

`InterruptsReturn`: `ReturnsClean` for every set of
exceptions and every depth of faults.  `IntInv` gives, for each place the
processor can be at, the shape of the top of the stack (`StackShape`), which
handlers may be at that place (`WhoReturns`), and that a line is in service exactly
while its handler runs before its end of interrupt.  Without the shapes the
property is not inductive: an `iretq` is right only because of what the stub
pushed and popped before it.

`SystemIsSound`: every step of the composition is a
step or a stutter of both components, hence `RingConsistent`,
`ImplementsQueue` and `ReturnsClean` hold of the composition as well.

**PmmProofs.**  `PmmTypes` for every map and request; `PmmDisjoint` and
`PmmMarked` while every request is for one page (`single`), which is what all
page-table, control-block and heap allocations ask for.  The invariant says that
the page a search has found stays clear, and that a byte that was loaded still
shows every block under it: frees by others only clear bits, so the store can at
worst set a bit that was freed, a lost page and never a shared one.

`PmmNull`: NULL means that there was no room, for every size.  `SearchInv` says that
behind the place the search has reached no run is free but for pages given back
since the call began; it holds although the search does not look at the last bit of
a run, which errs to the other side.

`ManagedIsAvailable`: the descriptors cover the available entries of the UEFI map,
no more and no less, except entries at address 0.  The loop is the function
`Rounds`, whose value after k rounds describes the first k entries
(`Describes`); that it does for all k is shown by a least counterexample, with
the lemma `Smallest` (a set of natural numbers has a least element) in place of an
induction principle.

`LoaderHandsOver`: `HandoverIsSound` for every firmware map
and every combination of failures.  The invariant `LoaderInv` says for each
label of `ReadFileToBuffer` which handles are held there (`ReadingInv`), and what
the later labels know of kernel, font and map (`LateInv`).
`BootToAllocator`: the composition implements Loader and Pmm, hence what is proved of
each holds of both together.  `LoaderMemoryKept` joins them: pages handed out are
managed, managed pages are available entries of the map that was handed over, and
those do not overlap the loader's.

**CpuContextProofs.**  `ContextTypes`, `OwnSpace` for any number of threads, and
`Solo` and `FillsNew` as long as no two user threads were alive together and
none ended inside a syscall (`solo`).  `OwnSpace` needs that a suspended user
thread has a nonzero `target_cr3`, so that a burial ends in its own space.

**BootProofs.**  `ReadsAreExact`, `WritesAreExact` and `MountsAreGenuine` of the whole
boot, for every machine, geometry and behaviour of the drives.  `BootInv` has three
parts.  `AtaInv` relates the driver's place to the drives: on a channel where
no command was abandoned a drive works only on the call under way (`OwnInv`), it is
at the sector the driver waits for (`PlaceInv`), and the sectors transferred so far
are the first ones of the request (`ReadInv`, `WriteInv`).  The one exception is the
read of a partition table whose address was never filled in: with a count of 0 the
drive delivers a sector that nobody fetches (`Orphan`).  `MountInv` says what the caller
waits for in each of its places (`WaitInv`) and which disk, table and volume the
values it has read come from (`FoundInv`).  `PhaseInv` ties both to the phase of
`InitSystem`.

`DrawingsAreExact`: `DrawingIsExact` for every size of the screen and every argument
the runs draw with, up to one beyond the edges.  A pixel is a row and a column
(`PixelOfPlace`, `PlaceOfPixel`), so a run of words that was cut at the edge stays in
its row (`Covers`).  After k turns a line is k steps along its longer axis and at the
`Nearest` place across it, and the error says how far from the line that is
(`Reaches`); at the end of the axis only the end point is left.  A block copy goes
word by word: no copy reads a word that an earlier one has written (`CopiesInOrder`,
for which rows are turned round when moving down), hence every word arrives as it was
(`CopiedInOrder`).  Moving right within the same rows this fails, and `memcpy` repeats
the words; the property leaves that case out.

**Fat32Proofs.**  Every safety property of Fat32, for every size of the volume, of
the directories and of the files.

`FullVolume`: "no space" means that no entry of the table is free.  The hint is any
natural number or unknown (`HintInv`): wherever it stands, the clusters the search
probes are all clusters of the volume (`ProbesCover`), and no step but a search
reports "no space" (`StepKinds`).

`VolumeInvariant`: as long as no removal was cut short, `Volume` holds, the
inductive invariant of the other results.  None of the properties is inductive, for
they speak of whole chains and a step changes one entry of the table.  `FatInv` is
local: no two entries of the table have the same successor and no successor is free.
An entry in use that is nobody's successor is an *origin*; from an origin the walk is
a chain without a cycle that ends in an end mark (`OriginChain`), and the chains of
different origins have no cluster in common (`OriginsApart`).  `DirInv` says that
directories are single clusters, end at their first end mark and hold entries
whose long name goes with their 8.3 name; `HeadInv` that every entry names an origin
of its own; `OpenInv` that the open file's entry is the one
`FAT32_WriteDirEntry` will find; `OpInv` what each call holds at each of its places
(`WritingInv`, `CreatingInv`, `RemovalInv`): a cluster linked to nothing yet, the
part of a chain that is left to free.

* `ChainsStayIntact` follows from `Volume` at once (`VolumeChains`).
* `NamesStayApart` adds `NamesInv`: the 8.3 names of a directory differ, and
  the name a creation looked up is still absent when the slot is written.
* `FileSystemKept` is the refinement of `FileSystem`, step by step.  It adds
  `NamesInv`, `EmptyInv` (a removal is of an entry of the kind the call is for, and the
  directory being removed stays empty) and `SameInv` (a write is of the open file).
  `DirectoryStep` lists what a step may do to a directory: nothing, or write one slot
  with the open file's entry, a new name, a new entry, or the mark of a deleted one;
  `DirectoryWriters` names the places that do.  `TreeRead` says that the tree is what
  the slots of the directories show, `ContentAfter` what writing one slot does to it,
  `DirsKept`, `DirsMade` and `DirsLost` which directories there are then.  A step that
  writes no slot leaves the tree alone, though it may change the table (`QuietStep`);
  one that does is the last of its call and the one action of `FileSystem` for it
  (`WriteIsWrite`, `SlotIsCreation`, `MarkIsRemoval`, `RenameIsRename`).  `CallKept`
  and `OpenedKept` say that a call keeps its argument and a file its place meanwhile.
* `NoClusterLeaks` adds `LeakInv`: every origin is the root, named by an entry, or in
  the hands of the call under way (`Tight`), and the table has no cycle
  (`Ranked`: some rank grows along every link), so that every cluster in use is on
  the chain of an origin (`OnSomeChain`).  `TableStep` lists what a step may do to the
  table: take a cluster, link one, cut a chain, free an origin.
* `FilesAreBacked` adds `SizeInv`: the cluster being written is the m-th of the file's
  chain, and the size to be claimed fits into m clusters (`WritePlace`); the open
  file's size and the sizes in the entries are backed (`OpenSize`, `EntrySizes`).
  `ChainStep` says what a step does to a chain: it keeps it as a prefix, or cuts
  it behind the place of the write, and then the event "short" marks the cut
  below the size that is kept.

Where an induction along a chain is needed (`WalkExists`, `OriginChain`,
`OriginsApart`, `ChainKept`) the proof takes a least counterexample, by `Smallest`.

**VmmProofs.**  Every safety property of Vmm, for every amount of memory, size of the
tables, set of buffer sizes and size of a user stack: `VmmTypes`, `VmmOneUse`,
`VmmKernelReachable`, `VmmBufferKept`, from one inductive invariant (`VmmInvariant`).

`OneUse` speaks of walks through whole page tables, and a step writes single
entries.  `Tree` replaces the walks by a local statement: every page has a *kind*
(a manager's block, a user's or a kernel's PML4, one of the three lower tables, a
page of a heap, a kernel stack, or none), and an entry that a walk may take leads to
a page of the next kind, which names that entry in `up`.  Since a page names one
entry only, two walks that end at the same page are the same walk (`WayKinds`,
`PlacedOnce`); a free page has no kind, hence no walk reaches it.  Kinds and
`up` are existential in the invariant (`Some`): the kernel keeps no such table.

Four relations between the memory before and after an operation carry
the proof, each proved once per operation and closed under composition.

* `Grows`: what `walk_page_table`, `map_page`, `Vmm_Malloc` and
  `Init_*Virtual_Memory_Manager` do.  Free pages get a kind, and entries are
  written only on the way to the half of the manager at work (`OnTheWay`).  The
  leaf page that `walk_page_table` takes and nobody uses stays without a kind.
* `Spent`: what an error exit leaves behind; pages are lost, no table changes.
* `Shrinks`: what `Vmm_Free` and `KillThread`'s loop do.  Heap pages of this one
  manager lose their kind, whatever the records say, because `Vmm_Free` walks its own
  manager's tables; hence other heaps are untouched (`ShrinksKeeps`), which is
  `BufferKept`.
* A new manager (`New`) is made of pages that were free, and joins the others by
  `AddManager`.

`KillThread` frees more than it owns (the stack's size in bytes), so `Frees`, that free
pages have no kind, may fail after it.  If the step did not spoil anything, that is,
what is in use is not free, the kinds are assigned anew, to the pages in use and to no
other (`Recolour`): what a live manager reaches is in use, so the result is again a
tree.

`Reaching` is kept even when memory is spoiled.  User PML4s share the kernel half
because entry 1 was copied while it was already there (`Linked`) and `OnTheWay` never
writes an entry that is there; `Low` says that entry 0 leads to a table of
the manager's own in which RAM is mapped by a writable huge page.

Only model-checked: liveness (`sync_progress`, `FullIsTemporary`,
`LineIsServed`, `CallsReturn`, `BootReachesShell`), which the prover does not do.

## 5. Where the code and its comments disagree

* **Mutex and burial** (`sync_burial`).  `Thread.c:489` says interrupts are
  still off when `schedule()` returns to `mutex_lock`.  If the thread switched
  away from has exited, `schedule()` buries it with `KillThread`, which ends with
  `enable_interrupts()`; the timer can then separate the test of `locked` from
  its setting.
* **Bitmap search** (`pmm_overlap`).  `bitmap.c:26` promises `size` consecutive
  bits of the wanted value.  The loop re-reads the start bit, so the last one is
  never looked at.  Requests of one page are not affected.
* **GS across switches** (`context_gs`).  `Syscall.c:16` takes the kernel stack
  from `%gs:0`.  `swapgs` is balanced within a syscall, not across a switch
  inside one or a `SYS_exit`.

Further weaknesses are modelled as they are, without a claim that they are
absent.

* *Threads, memory.*  A page is lost for each new leaf mapping (`paging.c:94`);
  `KillThread` frees a user thread's kernel stack counting bytes as pages
  (`Thread.c:539`) and looks at half of the allocation records; those records are
  one array shared by all managers; `Current_VMM_Desc` can name the manager of a
  thread that no longer runs (`Thread.c:397`); `create_thread` without memory
  returns with interrupts off (`Thread.c:141`); table entries are not reused;
  marking a low page overwrites the next descriptor (`pmm.c:38`).
* *Files.*  The free count and hint are never written back; interrupted removals
  leave an entry over freed clusters; a growing directory is linked from outside
  the table (`fat32.c:793`).
* *Disk.*  `fat32.c` passes the address of `is_master`, always true, in place of
  its value (lines 47, 130, 419 and others), so a volume on a slave is looked
  for on the master; `gpt.c` tests negative results with `!rr`, so no failed read
  is noticed there; a channel is not reset after a time-out; IDENTIFY's -3 stands
  both for a CD and for a drive without data.
* *Clock.*  `Get_CPU_Frequency` waits for second 60 when it begins in second 58
  or 59 (`delay.c:11`).
* *Display.*  `fillRect` calls through NULL without a driver; the VBE ports answer
  for every adapter, so one without them may be bound; a block copied to the
  right within its own rows repeats itself.
* *Exceptions.*  #PF and #GP print through pointers never set; the stub of #GP
  takes a saved register for the error code; #NP has a stub but no gate.
* *Loader.*  The results of `AllocatePool`, `GetMemoryMap` and `ExitBootServices`
  are ignored; a font that could not be read is tolerated by the loader and
  refused by the kernel.

Seen in the code and not in a model: KillTest given twice kills a block that is
already free or another's (`kernel.c:217`; excluded by `~StaleKill`); a thread
killed while it waits for a mutex stays in its queue (`Thread.c:528`); page
addresses beyond 2 GiB of one descriptor overflow an int (`pmm.c:83`);
`OpenFile` takes a page that `CloseFile` does not give back (`fs.c:81`);
`AppendFile` ignores a link that failed (`fat32.c:606`); the `BOOT_SHARE` on the
firmware's stack and the firmware's page tables lie in memory that the allocator
hands out; the font's address is kept in 32 bits; `SYSTEM_STOP` halts with
interrupts on.

## 6. Conditions in the properties

Some properties hold only under a condition, always a recorded event and never
a bound: `PagesDisjoint` and `PagesMarked` for single pages, `SoloSyscalls` and
`FillsNewSpace` for one user thread at a time, `OneUse` until `spoiled`,
`ReadIsExact`, `WriteIsExact` and `MountIsGenuine` for channels that were never
given up (`abandoned`), the latter also for masters whose table was really read,
`BootReachesShell` unless the wait is for second 60, `ReturnsClean` but for #NP,
and in Fat32 `Clean(events)`.  `FileSystem` promises nothing after "torn" and
"misread"; `ChainsIntact` excludes only "torn"; `SizeIsBacked`
excludes failed writes and "short" (a file cut below the size that `WriteFile`
never lowers); `NamesUnambiguous` excludes "misread", since a look-up that fails
counts as "does not exist"; `NothingLeaks` excludes faults and a full volume or
directory, since the error returns keep what was allocated.

## 7. Not modelled

* The GNU-EFI library under `Bootloader/GNU-EFI`: vendored headers and start-up
  code, some 17 000 of the repository's 26 700 lines, mostly declarations.  The
  firmware calls behind it are the calls of Loader that may fail.  The share of
  the map is small beside these lines (16 %); of the kernel's and the loader's own
  10 000 lines it covers 43 %, and most of what remains is listed here.
* GDT and TSS: tables written once; the kernel stack in the TSS follows
  `kernel_rsp`, which CpuContext has.
* ACPI tables: a search through constant data.  Registers that set the screen
  mode, BCD conversion of the clock, the drive's ready and fault bits, which the
  driver does not test, and the `int 0x80` gate, whose exit call is in Threads and
  CpuContext.
* Console, fonts, serial port, strings, and the commands that only print: output
  and formatting.
* No caller: `spinlock_*`, `split_huge_page`, `make_phys_writable`,
  `init_paging`, `vmware_blit`, `init_rtc`, `FindLargestAvailableBlock`.
* TLB contents, file contents, stack depth.  The driver writes every copy of
  the FAT (`fat32.c:417`); the model has one.

## 8. Plan

Done, in this order: Threads, ThreadSync, Keyboard, Pmm, CpuContext, Vmm, Fat32,
and the proofs of Threads, Keyboard, Pmm and CpuContext; then Ata, Pci, Mount,
Clock, Display and Boot around Fat32, Interrupts around Keyboard, Loader before
Pmm, and the proofs of Interrupts, Loader and both compositions; then the proofs of
ThreadSync, of the thread table and the clean-up, of the map behind Pmm, of the disk
driver and the mount, of all safety properties of Fat32 and Vmm, and of the drawing
operations; then the file system that Fat32 promises, and its refinement.

Left:

1. ThreadSync: threads killed while they wait for or own a lock.
2. Torn reads of the real-time clock (`Time.c:28`), which only the clock command
   shows.
