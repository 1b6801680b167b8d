-------------------------------- MODULE Vmm --------------------------------
(***************************************************************************)
(* Page tables and virtual memory managers (Kernel/mm/paging.c and         *)
(* Kernel/mm/vmm.c) as the kernel uses them: the manager InitSystem makes, *)
(* the shell's buffers in its heap, a thread with a kernel manager of its  *)
(* own (the shell's uvmth), ring 3 threads (CreateUserThread), and the     *)
(* part of KillThread that gives their memory back.                        *)
(*                                                                         *)
(* Physical pages are numbered; Pmm_Malloc(1) gives the lowest free one    *)
(* (module Pmm).  A page table is a page with entries.  Of the 512 entries *)
(* of a PML4 two are told apart: 0 (memory below 512 GiB, mapped to itself *)
(* by UEFI) and 1 for number 256 (the kernel half).  Of a PDPT below PML4  *)
(* entry 0, entry 0 stands for the gigabytes that hold the RAM and entry 1 *)
(* for the one at 4 GiB, where user heaps begin.  A page directory and a   *)
(* page table have ENTRIES entries each.  Thread switches between the      *)
(* steps of an operation are the business of module CpuContext, the pages  *)
(* of the control blocks that of module Threads.                           *)
(***************************************************************************)
EXTENDS Integers, FiniteSets

CONSTANTS
    FRAMES,       \* pages of physical memory (bound)
    ENTRIES,      \* entries of a page directory and of a page table (512)
    BufferPages,  \* sizes of the shell's buffers, in pages (bound)
    StackPages    \* pages of a user thread's stack

ASSUME VmmAssumption ==
    /\ FRAMES \in Nat /\ FRAMES >= 8
    /\ ENTRIES \in Nat /\ ENTRIES >= 2
    /\ BufferPages \subseteq Nat \ {0}
    /\ StackPages \in Nat \ {0}

NULL == 0
Frame == 1..FRAMES
UEFI_PML4 == FRAMES + 1
UefiPdpt == FRAMES + 2
UefiTable == FRAMES + 3        \* any lower table of UEFI's
Index == 0..(ENTRIES - 1)
HEAP == ENTRIES * ENTRIES      \* a heap's pages; number 0 holds the descriptor
Half == {"user", "kernel"}
RECORDS == 0..2                \* the entries of AllocRecord that are ever used

VARIABLES
    memory,       \* [free: the free pages, table: the entries of each page]
    vmm,          \* the managers of the threads that are alive, by page of VMM_T
    KernelVMM,    \* InitSystem's manager
    AllocRecord,  \* VMM_T.AllocRecord is never set: one array, at address 0, for all
    kernel_stack, \* of the thread of a user manager: its page; else NULL
    held,         \* the shell's buffer: <<page number, pages>>, or <<>>
    stopped,      \* a page fault stopped the machine
    spoiled       \* pages in use were freed, or address 0 was used as memory

vars == <<memory, vmm, KernelVMM, AllocRecord, kernel_stack, held, stopped, spoiled>>

Absent == [to |-> NULL, flags |-> {}]
Present(e) == "P" \in e.flags
Huge(e) == "H" \in e.flags
EmptyTable == [i \in Index |-> Absent]

(***************************************************************************)
(* The machine as InitSystem finds it.  UEFI may map RAM with huge pages   *)
(* or with smaller ones, writable or not, and may or may not map 4 GiB.    *)
(***************************************************************************)
UefiEntries == {[to |-> NULL, flags |-> {"P", "H"}], [to |-> UefiTable, flags |-> {"P", "W"}]}

Init ==
    /\ \E ram \in UefiEntries, high \in UefiEntries \cup {Absent} :
         memory = [free |-> Frame,
                   table |-> [f \in 1..(FRAMES + 3) |->
                      [i \in Index |->
                         CASE f = UEFI_PML4 /\ i = 0 -> [to |-> UefiPdpt, flags |-> {"P", "W"}]
                           [] f = UefiPdpt /\ i = 0  -> ram
                           [] f = UefiPdpt /\ i = 1  -> high
                           [] OTHER                  -> Absent]]]
    /\ vmm = <<>>
    /\ KernelVMM = NULL
    /\ AllocRecord = [i \in RECORDS |-> [half |-> "user", page |-> 0, size |-> 0]]
    /\ kernel_stack = <<>>
    /\ held = <<>>
    /\ stopped = FALSE
    /\ spoiled = FALSE

-----------------------------------------------------------------------------
(***************************************************************************)
(* Page tables.  m is a value of memory.                                   *)
(***************************************************************************)
Pmm_Malloc(m) == IF m.free = {} THEN NULL ELSE CHOOSE f \in m.free : \A g \in m.free : f <= g

Pmm_Free(m, F) == [m EXCEPT !.free = @ \cup F]

\* Pmm_Malloc(1) and memset.
Take(m) == [free |-> m.free \ {Pmm_Malloc(m)}, table |-> [m.table EXCEPT ![Pmm_Malloc(m)] = EmptyTable]]

\* The virtual page n of the heap in a half, as the indices of the four levels.
Path(half, n) ==
    IF half = "user" THEN <<0, 1, n \div ENTRIES, n % ENTRIES>>
                     ELSE <<1, 0, n \div ENTRIES, n % ENTRIES>>

(***************************************************************************)
(* walk_page_table with create, one level: w.t is the table reached, NULL  *)
(* once a page was missing.  A huge page is replaced by an empty table.    *)
(***************************************************************************)
Descend(w, i) ==
    LET e == w.m.table[w.t][i]
    IN  IF w.t = NULL THEN w
        ELSE IF Present(e) /\ ~Huge(e) THEN [w EXCEPT !.t = e.to]
        ELSE IF w.m.free = {} THEN [w EXCEPT !.t = NULL]
        ELSE [m |-> [Take(w.m) EXCEPT !.table[w.t][i] =
                        [to |-> Pmm_Malloc(w.m), flags |-> {"P", "W", "U"}]],
              t |-> Pmm_Malloc(w.m)]

\* map_page.  The walk gives a page to an absent entry of the last level as well;
\* it is overwritten at once and belongs to nobody from then on.  A walk that
\* fails is not reported to the caller.
map_page(m, pml4, v, phys, flags) ==
    LET w == Descend(Descend(Descend([m |-> m, t |-> pml4], v[1]), v[2]), v[3])
        fresh == ~Present(w.m.table[w.t][v[4]])
    IN  IF w.t = NULL \/ (fresh /\ w.m.free = {}) THEN w.m
        ELSE [(IF fresh THEN Take(w.m) ELSE w.m) EXCEPT
                 !.table[w.t][v[4]] = [to |-> phys, flags |-> flags \cup {"P"}]]

\* A table of the next level without creating one, and the page at the end.
Follow(m, t, i) ==
    IF t = NULL \/ ~Present(m.table[t][i]) \/ Huge(m.table[t][i]) THEN NULL ELSE m.table[t][i].to

LastTable(m, pml4, v) == Follow(m, Follow(m, Follow(m, pml4, v[1]), v[2]), v[3])

virt_to_phys_on(m, pml4, half, n) ==
    IF n >= HEAP THEN NULL
    ELSE Follow(m, LastTable(m, pml4, Path(half, n)), Path(half, n)[4])

unmap_page_Kept(m, pml4, half, n) == m
unmap_page(m, pml4, half, n) ==
    [m EXCEPT !.table[LastTable(m, pml4, Path(half, n))][Path(half, n)[4]] = Absent]

-----------------------------------------------------------------------------
(***************************************************************************)
(* The PML4 of a new manager: UEFI's entries for a kernel manager, those   *)
(* of the manager src for a user one; then a PDPT of its own for entry 0,  *)
(* in which UEFI's finer tables become writable huge pages.                *)
(***************************************************************************)
copy_pml4_entries(m, dest) == [m EXCEPT !.table[dest] = m.table[UEFI_PML4]]

copy_kernel_pml4_entries_LowOnly(m, dest, src) ==
    [m EXCEPT !.table[dest][0] = [m.table[src][0] EXCEPT !.flags = @ \cup {"U", "W"}]]
copy_kernel_pml4_entries(m, dest, src) ==
    [m EXCEPT !.table[dest] = [i \in Index |->
        IF i = 0 THEN [m.table[src][0] EXCEPT !.flags = @ \cup {"U", "W"}] ELSE m.table[src][i]]]

replace_identity_pdpt(m, pml4) ==
    LET old == m.table[m.table[pml4][0].to]
        new == Pmm_Malloc(m)
    IN  IF new = NULL THEN m
        ELSE [Take(m) EXCEPT
                !.table[new] = [i \in Index |->
                    CASE ~Present(old[i]) -> Absent
                      [] Present(old[i]) /\ Huge(old[i]) -> [old[i] EXCEPT !.flags = @ \cup {"W"}]
                      [] OTHER -> [to |-> NULL, flags |-> {"P", "W", "H"}]],
                !.table[pml4][0] = [to |-> new, flags |-> m.table[pml4][0].flags \cup {"W"}]]

(***************************************************************************)
(* Init_Virtual_Memory_Manager and Init_User_Virtual_Memory_Manager.  The  *)
(* error exits give the pages of VMM_T and PML4 back, not the new PDPT.    *)
(* made.v is NULL after an error; made.fault: the descriptor's page could  *)
(* not be mapped and writing it faults.                                    *)
(***************************************************************************)
Init_Manager(m, half, src) ==
    LET v  == Pmm_Malloc(m)
        m1 == Take(m)
        p  == Pmm_Malloc(m1)
        m2 == IF half = "user" THEN copy_kernel_pml4_entries(Take(m1), p, src)
                               ELSE copy_pml4_entries(Take(m1), p)
        m3 == replace_identity_pdpt(m2, p)
        d  == Pmm_Malloc(m3)
        m4 == map_page(Take(m3), p, Path(half, 0), d, IF half = "user" THEN {"W", "U"} ELSE {"W"})
        failed(mem) == [m |-> mem, v |-> NULL, desc |-> Absent, fault |-> FALSE]
    IN  CASE v = NULL -> failed(m)
          [] v # NULL /\ p = NULL -> failed(m)
          [] v # NULL /\ p # NULL /\ d = NULL -> failed(Pmm_Free(m3, {v, p}))
          [] OTHER -> [m |-> m4, v |-> v,
                       desc |-> [half |-> half, Pml4 |-> p, Address |-> 1, PageSize |-> 0, AllocRecordNum |-> 0],
                       fault |-> virt_to_phys_on(m4, p, half, 0) = NULL]

\* n pages of physical memory, or none at all.
phys_pages(m, n) ==
    LET grab[k \in 0..n] ==
          IF k = 0 THEN [m |-> m, pages |-> <<>>]
          ELSE [m |-> Take(grab[k-1].m), pages |-> [j \in 1..k |->
                  IF j = k THEN Pmm_Malloc(grab[k-1].m) ELSE grab[k-1].pages[j]]]
    IN  grab[n]

vmm_map_range(m, pml4, half, n, pages) ==
    LET mapped[k \in 0..Cardinality(DOMAIN pages)] ==
          IF k = 0 THEN m
          ELSE map_page(mapped[k-1], pml4, Path(half, n + k - 1), pages[k],
                        IF half = "user" THEN {"W", "U"} ELSE {"W"})
    IN  mapped[Cardinality(DOMAIN pages)]

(***************************************************************************)
(* Vmm_Malloc and Vmm_Free on a manager d.  s has the fields m, rec (the   *)
(* record array) and d; at is the virtual page, NULL for failure.          *)
(***************************************************************************)
Vmm_Malloc(m, rec, d, n) ==
    LET got == phys_pages(m, n)
    IN  IF d.Address + n > HEAP \/ Cardinality(m.free) < n
        THEN [m |-> m, rec |-> rec, d |-> d, at |-> NULL]
        ELSE [m   |-> vmm_map_range(got.m, d.Pml4, d.half, d.Address, got.pages),
              rec |-> [rec EXCEPT ![d.AllocRecordNum] = [half |-> d.half, page |-> d.Address, size |-> n]],
              d   |-> [d EXCEPT !.Address = @ + n, !.PageSize = @ + n, !.AllocRecordNum = @ + 1],
              at  |-> d.Address]

OwnRange_Any(d, half, page) == TRUE
OwnRange(d, half, page) == half = d.half /\ page >= 1 /\ page <= d.Address

\* What Vmm_Free takes back in the descriptor; the address never goes back.
Lowered(d, n) == [d EXCEPT !.PageSize = @ - n, !.AllocRecordNum = @ - 1]

Vmm_Free(m, d, half, page, n) ==
    LET freed[k \in 0..n] ==
          IF k = 0 THEN m
          ELSE LET f == virt_to_phys_on(freed[k-1], d.Pml4, half, page + k - 1)
               IN  IF f = NULL THEN freed[k-1]
                   ELSE Pmm_Free(unmap_page(freed[k-1], d.Pml4, half, page + k - 1), {f})
    IN  IF page = 0 \/ n = 0 \/ ~OwnRange(d, half, page) THEN [m |-> m, d |-> d]
        ELSE [m |-> freed[n], d |-> Lowered(d, n)]

Mapped(m, d, page, n) == \A k \in page..(page + n - 1) : virt_to_phys_on(m, d.Pml4, d.half, k) # NULL

-----------------------------------------------------------------------------
Running == ~stopped /\ ~spoiled

With(f, x, y) == [z \in DOMAIN f \cup {x} |-> IF z = x THEN y ELSE f[z]]
Without(f, x) == [z \in DOMAIN f \ {x} |-> f[z]]

InitSystem ==
    /\ Running /\ KernelVMM = NULL
    /\ LET made == Init_Manager(memory, "kernel", NULL)
       IN  /\ memory' = made.m
           /\ KernelVMM' = made.v
           /\ vmm' = With(vmm, made.v, made.desc)
           /\ stopped' = made.fault
    /\ UNCHANGED <<AllocRecord, kernel_stack, held, spoiled>>

Shell == Running /\ KernelVMM # NULL /\ held = <<>>

\* The shell's acvmm, and FindPartition: get a buffer and write to all of it, the
\* result NULL not excepted.
AllocBuffer ==
    /\ Shell
    /\ \E n \in BufferPages :
         LET r == Vmm_Malloc(memory, AllocRecord, vmm[KernelVMM], n)
         IN  /\ memory' = r.m /\ AllocRecord' = r.rec
             /\ vmm' = [vmm EXCEPT ![KernelVMM] = r.d]
             /\ held' = IF r.at = NULL THEN <<>> ELSE <<r.at, n>>
             /\ stopped' = (r.at # NULL /\ ~Mapped(r.m, r.d, r.at, n))
             /\ spoiled' = (r.at = NULL)
    /\ UNCHANGED <<KernelVMM, kernel_stack>>

FreeBuffer ==
    /\ Running /\ held # <<>>
    /\ LET r == Vmm_Free(memory, vmm[KernelVMM], "kernel", held[1], held[2])
       IN  memory' = r.m /\ vmm' = [vmm EXCEPT ![KernelVMM] = r.d]
    /\ held' = <<>>
    /\ UNCHANGED <<KernelVMM, AllocRecord, kernel_stack, stopped, spoiled>>

(***************************************************************************)
(* The shell's uvmth: a kernel manager whose first page is the stack of a  *)
(* new thread, which create_thread writes to.                              *)
(***************************************************************************)
VmmThread ==
    /\ Shell
    /\ \E made \in {Init_Manager(memory, "kernel", NULL)} :
         IF made.v = NULL \/ made.fault
         THEN /\ memory' = made.m
              /\ stopped' = made.fault /\ spoiled' = (made.v = NULL)
              /\ UNCHANGED <<vmm, AllocRecord, kernel_stack>>
         ELSE \E r \in {Vmm_Malloc(made.m, AllocRecord, made.desc, 1)} :
              /\ memory' = r.m /\ AllocRecord' = r.rec
              /\ vmm' = With(vmm, made.v, r.d)
              /\ kernel_stack' = With(kernel_stack, made.v, NULL)
              /\ stopped' = (r.at # NULL /\ ~Mapped(r.m, r.d, r.at, 1))
              /\ spoiled' = (r.at = NULL)
    /\ UNCHANGED <<KernelVMM, held>>

(***************************************************************************)
(* CreateUserThread: a user manager, a page for the copy of the code, the  *)
(* stack, and in create_user_thread one page for the kernel stack.  The    *)
(* PML4 is copied from Current_VMM_Desc, which may still be that of a user *)
(* thread (see Updated in CpuContext).  No error exit gives the manager's  *)
(* memory back.  Copying the code to a page that could not be mapped       *)
(* faults.                                                                 *)
(***************************************************************************)
CreateUserThread ==
    /\ Shell
    /\ \E src \in {v \in DOMAIN vmm : v = KernelVMM \/ vmm[v].half = "user"} :
       \E made \in {Init_Manager(memory, "user", vmm[src].Pml4)} :
         IF made.v = NULL \/ made.fault
         THEN /\ memory' = made.m
              /\ stopped' = made.fault
              /\ UNCHANGED <<vmm, AllocRecord, kernel_stack>>
         ELSE \E code \in {Vmm_Malloc(made.m, AllocRecord, made.desc, 1)} :
              LET unfit == code.at # NULL /\ ~Mapped(code.m, code.d, code.at, 1)
                  stk   == Vmm_Malloc(code.m, code.rec, code.d, StackPages)
              IN  /\ stopped' = unfit
                  /\ IF unfit \/ code.at = NULL
                     THEN /\ memory' = code.m /\ AllocRecord' = code.rec
                          /\ UNCHANGED <<vmm, kernel_stack>>
                     ELSE /\ AllocRecord' = stk.rec
                          /\ IF stk.at = NULL \/ stk.m.free = {}
                             THEN memory' = stk.m /\ UNCHANGED <<vmm, kernel_stack>>
                             ELSE /\ memory' = Take(stk.m)
                                  /\ vmm' = With(vmm, made.v, stk.d)
                                  /\ kernel_stack' = With(kernel_stack, made.v, Pmm_Malloc(stk.m))
    /\ UNCHANGED <<KernelVMM, held, spoiled>>

-----------------------------------------------------------------------------
\* The tables and the pages of a page table's heaps.
TablesOf(m, pml4) ==
    {m.table[pml4][0].to} \cup
    UNION {LET v == Path(half, n)
               t1 == Follow(m, pml4, v[1])
               t2 == Follow(m, t1, v[2])
               t3 == Follow(m, t2, v[3])
           IN  {pml4, t1, t2, t3} \ {NULL} : half \in Half, n \in 0..(HEAP-1)}
HeapOf(m, pml4, half) == {virt_to_phys_on(m, pml4, half, n) : n \in 0..(HEAP-1)} \ {NULL}

\* The pages that something alive still refers to.
InUse(m, managers, stacks) ==
    DOMAIN managers
    \cup (UNION {TablesOf(m, managers[v].Pml4) \cup HeapOf(m, managers[v].Pml4, "user")
                 \cup HeapOf(m, managers[v].Pml4, "kernel") : v \in DOMAIN managers})
    \cup ({stacks[v] : v \in DOMAIN stacks} \ {NULL})

(***************************************************************************)
(* The loop of KillThread over the records: Vmm_Free lowers the number of  *)
(* records while the index rises, so about half of them are looked at, and *)
(* the array may hold another manager's records by now.                    *)
(***************************************************************************)
FreeRecords(m, rec, d) ==
    LET turn[i \in 0..3] ==
          IF i = 0 THEN [m |-> m, d |-> d]
          ELSE IF i - 1 < turn[i-1].d.AllocRecordNum
               THEN Vmm_Free(turn[i-1].m, turn[i-1].d, rec[i-1].half, rec[i-1].page, rec[i-1].size)
               ELSE turn[i-1]
    IN  turn[3]

\* Pmm_Free(kernel_stack, stack_size) counts pages and is given bytes.
StackFreed(v) == {f \in Frame : f >= kernel_stack[v]}

\* KillThread, by the shell or at the burial of a thread that exited.
KillThread ==
    /\ Running
    /\ \E v \in DOMAIN kernel_stack :
         LET r    == FreeRecords(memory, AllocRecord, vmm[v])
             last == IF vmm[v].half = "user"
                     THEN Pmm_Free(r.m, StackFreed(v))
                     ELSE Vmm_Free(r.m, r.d, "kernel", 1, 1).m
         IN  /\ memory' = last
             /\ vmm' = Without(vmm, v)
             /\ kernel_stack' = Without(kernel_stack, v)
             /\ spoiled' = (InUse(last, vmm', kernel_stack') \cap last.free # {})
    /\ UNCHANGED <<KernelVMM, AllocRecord, held, stopped>>

\* After SYSTEM_STOP, or once pages in use may be handed out, nothing is modelled.
Halted == ~Running /\ UNCHANGED vars

Next == \/ InitSystem \/ AllocBuffer \/ FreeBuffer \/ VmmThread \/ CreateUserThread
        \/ KillThread \/ Halted

Spec == Init /\ [][Next]_vars

-----------------------------------------------------------------------------
Entry == [to : 0..(FRAMES + 3), flags : SUBSET {"P", "W", "U", "H"}]

\* Every variable has its type; no manager outgrows the entries of AllocRecord.
TypeOK ==
    /\ memory.free \subseteq Frame
    /\ memory.table \in [1..(FRAMES + 3) -> [Index -> Entry]]
    /\ KernelVMM \in Frame \cup {NULL}
    /\ DOMAIN vmm \subseteq Frame
    /\ \A v \in DOMAIN vmm : /\ vmm[v].half \in Half /\ vmm[v].Pml4 \in Frame
                             /\ vmm[v].Address \in 1..HEAP /\ vmm[v].AllocRecordNum \in RECORDS
    /\ DOMAIN kernel_stack = DOMAIN vmm \ {KernelVMM}
    /\ stopped \in BOOLEAN /\ spoiled \in BOOLEAN

Users == {v \in DOMAIN vmm : vmm[v].half = "user"}

\* Every page in use has one use: a manager's block, a table, a page of one heap or
\* a kernel stack; no page of a heap is mapped twice, in one address space or in
\* two, and none of them is free.  (The kernel's heap counts once.)
OneUse ==
    ~spoiled =>
    LET at(h) == virt_to_phys_on(memory, vmm[h[1]].Pml4, vmm[h[1]].half, h[2])
        heap == {h \in (DOMAIN vmm) \X (0..(HEAP-1)) : at(h) # NULL}
        tables == UNION {TablesOf(memory, vmm[v].Pml4) : v \in DOMAIN vmm}
        pages == {at(h) : h \in heap}
        stacks == {kernel_stack[v] : v \in DOMAIN kernel_stack} \ {NULL}
        uses == <<DOMAIN vmm, tables, pages, stacks, memory.free>>
    IN  /\ \A g, h \in heap : g # h => at(g) # at(h)
        /\ \A i, j \in DOMAIN uses : i # j => uses[i] \cap uses[j] = {}

\* What the kernel needs is there in every address space it may run in: the kernel
\* half of a user thread is the kernel's own, whatever the kernel has mapped or
\* unmapped since the thread started; and RAM is mapped to itself, writable, since
\* tables, control blocks and kernel stacks are used through these addresses.
KernelReachable ==
    /\ \A u \in Users, n \in 0..(HEAP-1) :
         virt_to_phys_on(memory, vmm[u].Pml4, "kernel", n)
             = virt_to_phys_on(memory, vmm[KernelVMM].Pml4, "kernel", n)
    /\ \A v \in DOMAIN vmm :
         LET e == memory.table[memory.table[vmm[v].Pml4][0].to][0]
         IN  /\ "W" \in memory.table[vmm[v].Pml4][0].flags
             /\ {"P", "W", "H"} \subseteq e.flags

\* A buffer of the shell stays mapped until the shell frees it, whichever threads
\* die in the meantime and whatever the records say by then.
BufferKept ==
    held # <<>> /\ Running => Mapped(memory, vmm[KernelVMM], held[1], held[2])
=============================================================================
