------------------------------- MODULE Loader -------------------------------
(***************************************************************************)
(* The UEFI boot loader: efi_main of Bootloader/src/main.c with            *)
(* ReadFileToBuffer of Bootloader/src/lib.c, up to the kernel's tests of   *)
(* what it was handed: LoadBootShare of Kernel/kernel/kernel.c and         *)
(* CheckMemoryMap of Kernel/mm/EfiMemDesc.c.                               *)
(*                                                                         *)
(* Every call of the firmware may fail.  held are the handles and the      *)
(* blocks of pool memory the loader has; unchecked are the failures its    *)
(* code does not look at.  Printing and the delays are left out.           *)
(***************************************************************************)
EXTENDS Integers, Sequences

CONSTANTS
    Firmwares,        \* the memory the loader leaves: entries, and the top of its stack
    MAP_ENTRIES       \* descriptors that fit into the 8192 bytes for the memory map

MemoryTypes == {"loader", "conventional", "boot", "other"}
Region == [type : MemoryTypes, start : Nat, pages : Nat \ {0}]
RegionPages(e) == e.start .. (e.start + e.pages - 1)

\* The firmware describes a page once.
ASSUME LoaderAssumption ==
    /\ MAP_ENTRIES \in Nat
    /\ \A f \in Firmwares :
         /\ f.entries \in Seq(Region)
         /\ \A j, k \in 1..Len(f.entries) :
              j # k => RegionPages(f.entries[j]) \cap RegionPages(f.entries[k]) = {}

VARIABLES
    fw,               \* the firmware's memory map when the loader is done
    load,             \* where the loader is, the file at hand, the kernel file's content
    held,
    share,            \* SHARE_KERNEL and MEMORY_MAP: the fields the kernel tests
    unchecked
loaderVars == <<fw, load, held, share, unchecked>>

\* Share and its parts are locals that hold anything before they are set.
LoaderInit ==
    /\ fw \in Firmwares
    /\ load = [at |-> "InitGraphics", file |-> "kernel", content |-> "none"]
    /\ held = {}
    /\ share = [font |-> "null", map |-> "junk", desc |-> "null"]
    /\ unchecked = {}

At(label) == load.at = label
Goto(label) == load' = [load EXCEPT !.at = label]
\* The message, half a minute to read it, and ResetSystem.
Reset == Goto("reset") /\ UNCHANGED <<fw, held, share, unchecked>>

InitGraphics ==
    /\ At("InitGraphics")
    /\ Goto("HandleProtocol") \/ Goto("reset")
    /\ UNCHANGED <<fw, held, share, unchecked>>

-----------------------------------------------------------------------------
(***************************************************************************)
(* ReadFileToBuffer: its calls in order, what each one takes, and what is  *)
(* given back when it fails.                                               *)
(***************************************************************************)
Follower == [HandleProtocol |-> "OpenVolume", OpenVolume |-> "Open", Open |-> "AllocateInfo",
             AllocateInfo |-> "GetInfo", GetInfo |-> "AllocateBuffer", AllocateBuffer |-> "Read"]
Calls == {"HandleProtocol", "OpenVolume", "Open", "AllocateInfo", "GetInfo", "AllocateBuffer", "Read"}

When(cond, r) == IF cond THEN {r} ELSE {}
Takes(c) == When(c = "OpenVolume", "root") \cup When(c = "Open", "file")
              \cup When(c = "AllocateInfo", "info") \cup When(c = "AllocateBuffer", load.file)

AfterRoot == {"Open", "AllocateInfo", "GetInfo", "AllocateBuffer", "Read"}
GivesBack_InfoKept(c) ==
    When(c \in AfterRoot, "root") \cup When(c \in AfterRoot \ {"Open"}, "file")
      \cup When(c \in {"GetInfo", "Read"}, "info") \cup When(c = "Read", load.file)
GivesBack(c) ==
    When(c \in AfterRoot, "root") \cup When(c \in AfterRoot \ {"Open"}, "file")
      \cup When(c \in {"GetInfo", "AllocateBuffer", "Read"}, "info") \cup When(c = "Read", load.file)

\* A call that goes well and is not the last one.
ReadGoesOn ==
    /\ \E c \in Calls \ {"Read"} :
         /\ At(c)
         /\ held' = held \cup Takes(c)
         /\ Goto(Follower[c])
    /\ UNCHANGED <<fw, share, unchecked>>

\* An error: without the kernel the loader gives up, without the font it goes on.
ReadFails ==
    /\ \E c \in Calls : At(c) /\ held' = held \ GivesBack(c)
    /\ IF load.file = "kernel" THEN Goto("reset") ELSE Goto("GetRSDP")
    /\ UNCHANGED <<fw, share, unchecked>>

\* The file is in the buffer; the kernel's header is tested next.
KernelRead ==
    /\ At("Read") /\ load.file = "kernel"
    /\ held' = held \ {"root", "file", "info"}
    /\ \E c \in {"good", "damaged"} : load' = [load EXCEPT !.at = "header", !.content = c]
    /\ UNCHANGED <<fw, share, unchecked>>

CheckHeader ==
    /\ At("header")
    /\ IF load.content = "good"
       THEN load' = [load EXCEPT !.at = "HandleProtocol", !.file = "font"]
                /\ UNCHANGED <<fw, held, share, unchecked>>
       ELSE Reset

\* FONTADDR has 32 bits: an address above 4 GiB is cut off.
FontRead ==
    /\ At("Read") /\ load.file = "font"
    /\ held' = held \ {"root", "file", "info"}
    /\ \/ share' = [share EXCEPT !.font = "right"] /\ UNCHANGED unchecked
       \/ share' = [share EXCEPT !.font = "cut"] /\ unchecked' = unchecked \cup {"high"}
    /\ Goto("GetRSDP")
    /\ UNCHANGED fw

ReadFileToBuffer == ReadGoesOn \/ ReadFails \/ KernelRead \/ FontRead

-----------------------------------------------------------------------------
GetRSDP == At("GetRSDP") /\ (Reset \/ (Goto("stack") /\ UNCHANGED <<fw, held, share, unchecked>>))

\* Nobody looks at the status: without memory the stack is wherever a local pointed.
AllocateStack ==
    /\ At("stack")
    /\ \/ held' = held \cup {"stack"} /\ UNCHANGED unchecked
       \/ unchecked' = unchecked \cup {"stack"} /\ UNCHANGED held
    /\ Goto("desc")
    /\ UNCHANGED <<fw, share>>

\* OsDescAddr stays NULL when there is no memory for it.
AllocateDesc ==
    /\ At("desc")
    /\ \/ held' = held \cup {"desc"} /\ share' = [share EXCEPT !.desc = "set"]
       \/ UNCHANGED <<held, share>>
    /\ Goto("map")
    /\ UNCHANGED <<fw, unchecked>>

\* Without memory for the map Share.MemoryMap is never set.
AllocateMap ==
    /\ At("map")
    /\ \/ held' = held \cup {"map"} /\ Goto("GetMemoryMap") /\ UNCHANGED unchecked
       \/ unchecked' = unchecked \cup {"map"} /\ Goto("kernel") /\ UNCHANGED held
    /\ UNCHANGED <<fw, share>>

\* GetMemoryMap fails when the map has no room.
MapFits == Len(fw.entries) <= MAP_ENTRIES
GetMemoryMap ==
    /\ At("GetMemoryMap")
    /\ share' = [share EXCEPT !.map = IF MapFits THEN "filled" ELSE "unfilled"]
    /\ unchecked' = IF MapFits THEN unchecked ELSE unchecked \cup {"GetMemoryMap"}
    /\ Goto("ExitBootServices")
    /\ UNCHANGED <<fw, held>>

\* It fails without the key of the current map; the kernel is started all the same.
ExitBootServices ==
    /\ At("ExitBootServices")
    /\ \/ share.map = "filled" /\ UNCHANGED unchecked
       \/ unchecked' = unchecked \cup {"ExitBootServices"}
    /\ Goto("kernel")
    /\ UNCHANGED <<fw, held, share>>

-----------------------------------------------------------------------------
\* The kernel: a share without a map, a font or the RSDP is refused, as is a map without
\* its fields or without room for the descriptors.  A pointer that was never set may be NULL,
\* and the fields of a map that was never filled may be 0.
LoadBootShare ==
    IF share.font = "null" THEN {FALSE} ELSE IF share.map = "junk" THEN BOOLEAN ELSE {TRUE}
CheckMemoryMap ==
    IF share.map # "filled" THEN BOOLEAN ELSE {share.desc = "set"}

KernelStart ==
    /\ At("kernel")
    /\ \E ok \in LoadBootShare, usable \in CheckMemoryMap :
         IF ok /\ usable THEN Goto("running") ELSE Goto("stopped")
    /\ UNCHANGED <<fw, held, share, unchecked>>

LoaderStep ==
    \/ InitGraphics \/ ReadFileToBuffer \/ CheckHeader \/ GetRSDP \/ AllocateStack
    \/ AllocateDesc \/ AllocateMap \/ GetMemoryMap \/ ExitBootServices \/ KernelStart

-----------------------------------------------------------------------------
\* IsMemoryAvailable of Kernel/mm/EfiMemDesc.c.
IsMemoryAvailable_Loader(e) == e.start # fw.top /\ e.type # "other"
IsMemoryAvailable(e) == e.start # fw.top /\ e.type \in {"conventional", "boot"}

\* What the kernel makes of the firmware's map.
KernelMap ==
    [k \in 1..Len(fw.entries) |->
        [start |-> fw.entries[k].start, pages |-> fw.entries[k].pages,
         avail |-> IsMemoryAvailable(fw.entries[k])]]

LoaderPages == UNION {RegionPages(fw.entries[k]) : k \in {k \in 1..Len(fw.entries) : fw.entries[k].type = "loader"}}

\* Whatever fails on the way: outside ReadFileToBuffer none of its handles or scratch memory
\* is left, nor the buffer of a font it could not read; a kernel that gets past its own
\* tests is a kernel file that was read whole, with its font; and if none of the failures
\* occurred that the loader ignores, it has all its memory and a map that the firmware
\* filled in.
HandoverIsSound ==
    /\ load.at \notin Calls =>
         /\ held \cap {"root", "file", "info"} = {}
         /\ load.file = "font" => ("font" \in held <=> share.font # "null")
    /\ At("running") =>
         /\ load.content = "good"
         /\ {"kernel", "font"} \subseteq held
         /\ unchecked = {} => /\ held = {"kernel", "font", "stack", "desc", "map"}
                              /\ share = [font |-> "right", map |-> "filled", desc |-> "set"]
=============================================================================
