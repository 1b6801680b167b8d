-------------------------------- MODULE Pmm --------------------------------
(***************************************************************************)
(* The physical page allocator: Kernel/mm/pmm.c on Kernel/mm/bitmap.c.     *)
(*                                                                         *)
(* Init_Physical_Memory_Manager turns the UEFI memory map into descriptors *)
(* of contiguous memory, each followed in memory by its bitmap.  The shell *)
(* thread is the only one that calls Pmm_Malloc, and it does so with       *)
(* interrupts on: while it is inside BitmapAllocBits or BitmapSetBits any  *)
(* other thread may run, and may bury a dead thread, which calls Pmm_Free  *)
(* with interrupts off.  Pages are numbered by physical address / 4 KiB;   *)
(* a set bit is a page in `used'.  bitmap.c is built with -O0: setting a   *)
(* bit loads the byte, changes it and stores it, so these are two steps.   *)
(***************************************************************************)
EXTENDS Integers, Sequences, SequencesExt, FiniteSets

CONSTANTS
    Maps,       \* UEFI memory maps: sequences of [start, pages, avail]
    Sizes,      \* the page counts given to Pmm_Malloc
    BYTE,       \* bits to a byte (8)
    DescBits    \* sizeof(OS_MEMORY_DESCRIPTOR) in bits (384)

Descriptor == [start : Nat, pages : Nat \ {0}, avail : BOOLEAN]

\* One round of the loop of Init_Physical_Memory_Manager.
Extends(d, e) == e.avail = d.avail /\ e.start = d.start + d.pages

AddEntry(descs, e) ==
    IF e.start = 0
    THEN descs
    ELSE IF descs # <<>> /\ Extends(Last(descs), e)
         THEN [descs EXCEPT ![Len(descs)].pages = @ + e.pages]
         ELSE Append(descs, e)

\* The descriptors after each round.
Rounds(m) ==
    LET after[k \in 0..Len(m)] == IF k = 0 THEN <<>> ELSE AddEntry(after[k - 1], m[k])
    IN  after

Init_Physical_Memory_Manager(m) == Rounds(m)[Len(m)]

ASSUME PmmAssumption ==
    /\ Maps \subseteq Seq(Descriptor)
    /\ Sizes \subseteq Nat \ {0}
    /\ BYTE \in Nat \ {0}
    /\ DescBits \in Nat

VARIABLES
    map,          \* the memory map the boot loader left
    MemDesc,      \* the descriptors, in the order of MemDescAddr
    used,         \* the pages whose bit is 1
    op,           \* where the shell thread is: "idle", "scan" (the while test of
                  \* BitmapAllocBits), "check" (its for test), "load" and "store"
                  \* (the two halves of a round of BitmapSetBits)
    reg,          \* the descriptor at hand
    size, value,  \* arguments: pages wanted, bit to write
    sidx, ridx, i,         \* locals of BitmapAllocBits
    index, left, byte,     \* locals of BitmapSetBits; byte is the loaded byte
    blocks,       \* history: the blocks handed out and not given back
    freed,        \* history: pages given back by others since the call began
    failed,       \* history: pages asked for by the last Pmm_Malloc if it returned
                  \* NULL, else 0
    single,       \* history: every Pmm_Malloc so far asked for one page
    shared,       \* history: a page was handed out that was not given back yet
    clobbered     \* history: a bitmap write went into a descriptor

locals == <<reg, size, value, sidx, ridx, i, index, left, byte>>
vars == <<map, MemDesc, used, op, locals, blocks, freed, failed, single, shared, clobbered>>

-----------------------------------------------------------------------------
\* Page d of descriptor r, and the pages a block covers.
PageOf(r, d) == MemDesc[r].start + d
BitSize(r) == MemDesc[r].pages
Bit(r, d) == PageOf(r, d) \in used
Cover(b) == b.addr .. (b.addr + b.size - 1)

\* The bits that share a byte of the bitmap with bit d.
ByteBits(r, d) == {PageOf(r, e) : e \in {e \in 0..(BitSize(r)-1) : e \div BYTE = d \div BYTE}}

\* A bitmap starts right behind its descriptor, where the later descriptors are.
Overlays(r, d) == d < DescBits * (Len(MemDesc) - r)

NextAvailable_First(r) == IF r = 1 /\ MemDesc # <<>> /\ MemDesc[1].avail THEN 1 ELSE 0
NextAvailable(r) ==
    LET later == {k \in 1..Len(MemDesc) : k >= r /\ MemDesc[k].avail}
    IN  IF later = {} THEN 0 ELSE CHOOSE k \in later : \A l \in later : k <= l

Pages(k) == MemDesc[k].start .. (MemDesc[k].start + MemDesc[k].pages - 1)

\* Pmm_Free's search for the descriptor an address belongs to.
Holds(k, addr) == MemDesc[k].avail /\ addr \in Pages(k)

Managed == UNION {Pages(k) : k \in {k \in 1..Len(MemDesc) : MemDesc[k].avail}}
Overlaid == {p \in Managed : \E k \in 1..Len(MemDesc) :
                p \in Pages(k) /\ Overlays(k, p - MemDesc[k].start)}

\* A bit that lies over a later descriptor shows whatever that descriptor holds.
Init ==
    /\ map \in Maps
    /\ MemDesc = Init_Physical_Memory_Manager(map)
    /\ used \in SUBSET Overlaid
    /\ op = "idle"
    /\ reg = 1 /\ size = 1 /\ value = TRUE
    /\ sidx = 0 /\ ridx = -1 /\ i = 1
    /\ index = 0 /\ left = 0 /\ byte = {}
    /\ blocks = {} /\ freed = {} /\ failed = 0
    /\ single = TRUE /\ shared = FALSE /\ clobbered = FALSE

-----------------------------------------------------------------------------
\* The call is over; its locals are gone.
Leave ==
    /\ op' = "idle"
    /\ reg' = 1 /\ size' = 1 /\ value' = TRUE
    /\ sidx' = 0 /\ ridx' = -1 /\ i' = 1
    /\ index' = 0 /\ left' = 0 /\ byte' = {}

\* The loop of Pmm_Malloc(n) goes on with the first available descriptor from r on,
\* or the call returns NULL.
TryFrom(r, n) ==
    IF NextAvailable(r) = 0
    THEN Leave /\ failed' = n
    ELSE /\ op' = "scan"
         /\ reg' = NextAvailable(r)
         /\ size' = n
         /\ sidx' = 0
         /\ ridx' = -1
         /\ failed' = 0
         /\ UNCHANGED <<value, i, index, left, byte>>

Pmm_Malloc(n) ==
    /\ op = "idle"
    /\ freed' = {}
    /\ single' = (single /\ n = 1)
    /\ TryFrom(1, n)
    /\ UNCHANGED <<map, MemDesc, used, blocks, shared, clobbered>>

\* Pmm_Malloc returns bit r of the descriptor at hand.
Return(r) ==
    /\ Leave
    /\ LET new == [addr |-> PageOf(reg, r), size |-> size]
       IN  /\ blocks' = blocks \cup {new}
           /\ shared' = (shared \/ \E b \in blocks : Cover(b) \cap Cover(new) # {})
    /\ UNCHANGED failed

Skipped_Not == sidx
Skipped == sidx + 1

\* The while of BitmapAllocBits: skip a set bit, or take a clear one as a start;
\* behind the last bit, return whatever start is remembered.
Scan ==
    /\ op = "scan"
    /\ \/ /\ sidx < BitSize(reg) /\ Bit(reg, sidx)
          /\ sidx' = Skipped
          /\ UNCHANGED <<op, reg, size, value, ridx, i, index, left, byte, failed, blocks, shared>>
       \/ /\ sidx < BitSize(reg) /\ ~Bit(reg, sidx)
          /\ ridx' = sidx
          /\ i' = 1
          /\ op' = "check"
          /\ UNCHANGED <<reg, size, value, sidx, index, left, byte, failed, blocks, shared>>
       \/ /\ sidx >= BitSize(reg)
          /\ IF ridx = -1 THEN TryFrom(reg + 1, size) /\ UNCHANGED <<blocks, shared>> ELSE Return(ridx)
    /\ UNCHANGED <<map, MemDesc, used, freed, single, clobbered>>

\* The for of BitmapAllocBits.  Its first round looks at the start bit again, so
\* the last bit of a longer block is not looked at.
Enough == i >= size

Check ==
    /\ op = "check"
    /\ \/ /\ ~Enough /\ sidx < BitSize(reg)
          /\ sidx' = sidx + 1
          /\ IF Bit(reg, sidx)
             THEN ridx' = -1 /\ op' = "scan" /\ UNCHANGED i
             ELSE i' = i + 1 /\ UNCHANGED <<ridx, op>>
          /\ UNCHANGED <<value, index, left>>
       \/ /\ Enough
          /\ op' = "load" /\ value' = TRUE /\ index' = ridx /\ left' = size
          /\ UNCHANGED <<sidx, ridx, i>>
       \/ /\ ~Enough /\ sidx >= BitSize(reg)
          /\ op' = "scan"
          /\ UNCHANGED <<sidx, ridx, i, value, index, left>>
    /\ UNCHANGED <<map, MemDesc, used, reg, size, byte, blocks, freed, failed, single, shared, clobbered>>

\* BitmapSetBits: the bits the loop visits, bounded by the bitmap's size.
InBitmap == left > 0 /\ index < BitSize(reg)

SetBitsLoad ==
    /\ op = "load"
    /\ \/ /\ InBitmap
          /\ byte' = used \cap ByteBits(reg, index)
          /\ op' = "store"
          /\ UNCHANGED <<reg, size, value, sidx, ridx, i, index, left, failed, blocks, shared>>
       \/ /\ ~InBitmap /\ value
          /\ Return(ridx)
       \/ /\ ~InBitmap /\ ~value
          /\ Leave /\ UNCHANGED <<failed, blocks, shared>>
    /\ UNCHANGED <<map, MemDesc, used, freed, single, clobbered>>

Changed(b) == IF value THEN b \cup {PageOf(reg, index)} ELSE b \ {PageOf(reg, index)}

SetBitsStore ==
    /\ op = "store"
    /\ used' = (used \ ByteBits(reg, index)) \cup Changed(byte)
    /\ clobbered' = Overlays(reg, index)
    /\ index' = index + 1
    /\ left' = left - 1
    /\ op' = "load"
    /\ byte' = {}
    /\ UNCHANGED <<map, MemDesc, reg, size, value, sidx, ridx, i, blocks, freed, failed, single, shared>>

\* Pmm_Free by the shell thread: the owner gives the block up when it calls.
Pmm_Free(b) ==
    /\ op = "idle"
    /\ blocks' = blocks \ {b}
    /\ op' = "load"
    /\ \E k \in 1..Len(MemDesc) :
         /\ Holds(k, b.addr)
         /\ reg' = k
         /\ index' = b.addr - MemDesc[k].start
    /\ left' = b.size
    /\ value' = FALSE
    /\ freed' = {}
    /\ failed' = 0
    /\ UNCHANGED <<map, MemDesc, used, size, sidx, ridx, i, byte, single, shared, clobbered>>

\* Pmm_Free by another thread that buries a dead one: interrupts are off, so it
\* happens as a whole, between any two steps of the shell thread.
Released_OneMore(b) == b.addr .. (b.addr + b.size)
Released(b) == Cover(b)

BuryFree(b) ==
    /\ \E k \in 1..Len(MemDesc) :
         /\ Holds(k, b.addr)
         /\ used' = used \ (Released(b) \cap Pages(k))
         /\ clobbered' = Overlays(k, b.addr - MemDesc[k].start)
    /\ blocks' = blocks \ {b}
    /\ freed' = freed \cup Cover(b)
    /\ UNCHANGED <<map, MemDesc, op, locals, failed, single, shared>>

Malloc == \E n \in Sizes : Pmm_Malloc(n)
Step == Scan \/ Check \/ SetBitsLoad \/ SetBitsStore
Free == \E b \in blocks : Pmm_Free(b)
Bury == \E b \in blocks : BuryFree(b)

\* The behaviour of the allocator is followed until it overwrites a descriptor.
Lost == clobbered /\ UNCHANGED vars

Next == (~clobbered /\ (Malloc \/ Step \/ Free \/ Bury)) \/ Lost

Spec == Init /\ [][Next]_vars

\* A call that has begun goes on: the shell thread is scheduled again and again.
FairSpec == Spec /\ WF_vars(~clobbered /\ Step)

-----------------------------------------------------------------------------
\* Every variable has its type; only managed pages are ever marked.
TypeOK ==
    /\ MemDesc \in Seq(Descriptor)
    /\ used \subseteq Managed
    /\ op \in {"idle", "scan", "check", "load", "store"}
    /\ reg \in Nat \ {0} /\ size \in Nat \ {0} /\ value \in BOOLEAN
    /\ sidx \in Nat /\ ridx \in Nat \cup {-1} /\ i \in Nat
    /\ index \in Nat /\ left \in Nat /\ byte \subseteq Managed
    /\ blocks \subseteq [addr : Nat, size : Nat \ {0}]
    /\ freed \subseteq Nat
    /\ failed \in Nat /\ single \in BOOLEAN /\ shared \in BOOLEAN /\ clobbered \in BOOLEAN

\* As long as callers ask for single pages, Pmm_Malloc never hands out a page that a
\* caller still has, whatever frees race with the search and with the marking.
PagesDisjoint == single => ~shared

\* As long as callers ask for single pages, a page handed out lies in available
\* memory and stays marked until its owner gives it back, whatever frees race with
\* the two halves of a bitmap update.
PagesMarked == single => \A b \in blocks : Cover(b) \subseteq used

\* Pmm_Malloc gives up only when there is no room: after a NULL, any run of pages
\* long enough has a page in use or one given back while the call was running.
NullMeansFull ==
    failed # 0 =>
      \A k \in 1..Len(MemDesc) : \A d \in 0..(BitSize(k) - failed) :
         MemDesc[k].avail =>
           \E e \in d..(d + failed - 1) : PageOf(k, e) \in used \cup freed

\* Every call of Pmm_Malloc and Pmm_Free returns.
CallsReturn == op # "idle" ~> op = "idle" \/ clobbered

\* BitmapAllocBits allocates bits that are clear: no two blocks share a page.
BlocksDisjoint == ~shared
=============================================================================
