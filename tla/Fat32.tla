------------------------------- MODULE Fat32 -------------------------------
(***************************************************************************)
(* The FAT32 driver Kernel/fs/fat32.c under the file layer Kernel/fs/fs.c, *)
(* used as the shell uses it: one command at a time, a file closed before  *)
(* anything is created, renamed or removed.                                *)
(*                                                                         *)
(* One step is one write to the disk together with the reads that lead to  *)
(* it.  Every such step may instead fail, and the machine may lose power   *)
(* between any two: what is on the disk stays, what is in Info (the free   *)
(* count and the search hint, which the driver never writes back) is read  *)
(* again from the FSInfo sector.  A directory entry with its long-name     *)
(* pieces is one slot; file contents are left out, file sizes are counted  *)
(* in units of which a cluster holds UnitsPerCluster.                      *)
(***************************************************************************)
EXTENDS Integers, Sequences, SequencesExt, FiniteSets

CONSTANTS
    TotalClusters,    \* Info->total_clusters
    Slack,            \* entries of the last FAT sector behind the last cluster
    EntryCount,       \* slots in a cluster of a directory
    UnitsPerCluster,  \* granularity of file sizes
    Sizes,            \* sizes given to a write, in units
    MaxFile,          \* bound: largest file
    Names,            \* file names (the long names)
    ShortNames,       \* 8.3 names
    name_to_83,       \* [Names -> ShortNames]
    Pieces,           \* [Names -> Nat]: long-name entries a name needs
    FsInfos,          \* possible FSInfo sectors: [free, next]
    DirNames,         \* bound: names given to directories
    MaxCalls,         \* bound: calls that change the volume
    MaxFaults         \* bound: disk errors and power losses

FREE == 0
EOF == 268435448      \* FAT32_ENTRY_EOF
UNKNOWN == -1         \* 0xFFFFFFFF in FSInfo
root_cluster == 2

Clusters == 2 .. (TotalClusters + 1)
Table == 2 .. (TotalClusters + 1 + Slack)

End == [kind |-> "end"]       \* name[0] = 0x00
Deleted == [kind |-> "deleted"]  \* name[0] = 0xE5
Dots == [kind |-> "dots"]     \* "." and ".."
NoName == "none"
Entries == [kind : {"file", "dir"}, long : Names \cup {NoName}, sfn : ShortNames,
            start : {0} \cup Table, size : Nat]
Blank == [i \in 1..EntryCount |-> End]
NewDir == [Blank EXCEPT ![1] = Dots]

ASSUME Fat32Assumption ==
    /\ TotalClusters \in Nat \ {0} /\ TotalClusters < EOF - Slack - 2
    /\ Slack \in Nat /\ Sizes \subseteq Nat /\ MaxFile \in Nat /\ MaxCalls \in Nat /\ MaxFaults \in Nat
    /\ EntryCount \in Nat \ {0} /\ UnitsPerCluster \in Nat \ {0}
    /\ name_to_83 \in [Names -> ShortNames] /\ Pieces \in [Names -> Nat \ {0}]
    /\ NoName \notin Names /\ DirNames \subseteq Names
    /\ FsInfos \subseteq [free : Nat \cup {UNKNOWN}, next : Nat \cup {UNKNOWN}]

VARIABLES
    fat,                \* the file allocation table
    dirs,               \* what each cluster holds when read as a directory
    fsinfo,             \* the FSInfo sector
    free_clusters, next_free_cluster,   \* of Info
    file,               \* the open file: its entry as read, and its directory
    op,                 \* the call under way
    calls, faults,      \* calls and faults so far
    mishap              \* history: the unfavourable events so far

disk == <<fat, dirs, fsinfo>>
Info == <<free_clusters, next_free_cluster>>
vars == <<disk, Info, file, op, calls, faults, mishap>>

\* A call under way: its name, where it is, its arguments and its locals.
PCs == {"idle", "hung", "data", "extend", "link", "trim", "free", "entry",
        "mkdir", "fill", "slot", "grow", "attach", "mark"}
Calls == {"none", "write", "append", "create", "mkdir", "delete", "rmdir"}
Frame == [call : Calls, pc : PCs, d : Table, n : Names \cup {NoName},
          cluster : {0} \cup Table, next : {0} \cup Table,
          size : Nat, written : Nat, offset : Nat]
Idle == [call |-> "none", pc |-> "idle", d |-> root_cluster, n |-> NoName,
         cluster |-> 0, next |-> 0, size |-> 0, written |-> 0, offset |-> 0]
NoEntry == [kind |-> "file", long |-> NoName, sfn |-> CHOOSE x \in ShortNames : TRUE,
            start |-> 0, size |-> 0]
Closed == [open |-> FALSE, dir |-> root_cluster, entry |-> NoEntry]

-----------------------------------------------------------------------------
\* Reading: chains, directories, look-up.

\* FAT32_NextCluster, followed to the end (or round a cycle, or into a free entry).
FAT32_NextCluster(c) == IF c \in Table THEN fat[c] ELSE EOF
Walk(c) ==
    LET at[k \in 1..Cardinality(Table)] == IF k = 1 THEN c ELSE FAT32_NextCluster(at[k - 1])
    IN  at
Chain(c) ==
    LET at == Walk(c)
    IN  [k \in {k \in DOMAIN at : at[k] \in Table} |-> at[k]]

\* The slots of directory d in the order they are scanned, up to the first End of
\* each cluster, and whether a slot answers to name n.
Shown(c) == {i \in 1..EntryCount : \A j \in 1..i : dirs[c][j] # End}
Places(d) ==
    LET ch == Chain(d)
    IN  {p \in (1..Len(ch)) \X (1..EntryCount) : p[2] \in Shown(ch[p[1]])}
Slot(d, p) == dirs[Chain(d)[p[1]]][p[2]]
Before(p, q) == p[1] < q[1] \/ (p[1] = q[1] /\ p[2] <= q[2])
IsEntry(s) == s.kind \in {"file", "dir"}
Matches(s, n) == IsEntry(s) /\ (s.long = n \/ s.sfn = name_to_83[n])
First(ps) == CHOOSE p \in ps : \A q \in ps : Before(p, q)

Hits(d, n) == {p \in Places(d) : Matches(Slot(d, p), n)}
Found(d, n) == Hits(d, n) # {}
FAT32_FindEntryAny(d, n) == Slot(d, First(Hits(d, n)))

EntriesOf(d) == {p \in Places(d) : IsEntry(Slot(d, p))}

\* The directories OpenFile reaches: the root and those named in it.
OpenDirs ==
    {root_cluster} \cup
    {FAT32_FindEntryAny(root_cluster, n).start :
        n \in {m \in Names : Found(root_cluster, m) /\ FAT32_FindEntryAny(root_cluster, m).kind = "dir"}}

-----------------------------------------------------------------------------
\* What ATA_Write does with the sectors it is given: all are written ("ok"), or an error
\* is returned before those that matter are written ("fail") or after ("half").  Both
\* errors are seen by the caller.
Outcomes == {"ok"} \cup (IF faults < MaxFaults THEN {"fail", "half"} ELSE {})
\* One entry of the FAT; the copies are written in turn and the first is the one that
\* is read.  An index outside the table falls on sectors that belong to something else.
FAT32_WriteFATEntry(f, c, v, w) ==
    IF w = "fail" \/ c \notin Table THEN f ELSE [f EXCEPT ![c] = v]
Fault(w) == faults' = IF w = "ok" THEN faults ELSE faults + 1
Noted(w) == IF w = "ok" THEN {} ELSE {"error"}

\* FAT32_AllocCluster: the entries looked at from the hint on, in order.
Start == IF next_free_cluster # UNKNOWN /\ next_free_cluster >= 2 THEN next_free_cluster ELSE 2
Probes_NoWrap == [k \in 1..TotalClusters |-> Start + k - 1]
Probes ==
    IF Start \in Clusters
    THEN [k \in 1..TotalClusters |-> 2 + ((Start - 2 + k - 1) % TotalClusters)]
    ELSE <<Start>> \o [k \in 1..TotalClusters |-> k + 1]
IsFree(c) == c \in Table /\ fat[c] = FREE
FreeProbes == {k \in 1..Len(Probes) : IsFree(Probes[k])}
NoneFree == FreeProbes = {}
\* The loop ends where it began, and a hint behind the last cluster is never met again.
NeverEnds == NoneFree /\ Start \notin Clusters
Picked == Probes[CHOOSE k \in FreeProbes : \A l \in FreeProbes : k <= l]

CountDown == IF free_clusters # UNKNOWN /\ free_clusters > 0 THEN free_clusters - 1 ELSE free_clusters
CountUp == IF free_clusters # UNKNOWN THEN free_clusters + 1 ELSE free_clusters

\* The new cluster is ended in the FAT; without a free one, or when that write fails (w),
\* the caller returns - unless the search never ends.
FAT32_AllocCluster(w) ==
    IF NoneFree
    THEN /\ w = "ok"
         /\ mishap' = mishap \cup {"full"}
         /\ UNCHANGED <<fat, Info, faults>>
    ELSE /\ fat' = FAT32_WriteFATEntry(fat, Picked, EOF, w)
         /\ Fault(w)
         /\ mishap' = mishap \cup Noted(w)
         /\ free_clusters' = IF w = "ok" THEN CountDown ELSE free_clusters
         /\ next_free_cluster' = IF w = "ok" THEN Picked + 1 ELSE next_free_cluster

Allocated(w) == ~NoneFree /\ w = "ok"
Return == op' = Idle /\ UNCHANGED file
NoCluster == IF NeverEnds THEN op' = [Idle EXCEPT !.pc = "hung"] /\ UNCHANGED file ELSE Return

-----------------------------------------------------------------------------
\* A fresh volume: the root directory in one empty cluster.
Init ==
    /\ fat = [c \in Table |-> IF c = root_cluster THEN EOF ELSE FREE]
    /\ dirs = [c \in Table |-> Blank]
    /\ fsinfo \in FsInfos
    /\ free_clusters = fsinfo.free /\ next_free_cluster = fsinfo.next
    /\ file = Closed
    /\ op = Idle
    /\ calls = 0 /\ faults = 0
    /\ mishap = {}

\* Bound: a volume whose tree was torn by an interrupted removal, or that was written to
\* outside its table, is not used further.
Ready == op = Idle /\ mishap \cap {"torn", "grow"} = {}

OpenFile(d, n) ==
    /\ Ready /\ ~file.open
    /\ Found(d, n)
    /\ file' = [open |-> TRUE, dir |-> d, entry |-> FAT32_FindEntryAny(d, n)]
    /\ UNCHANGED <<disk, Info, op, faults, mishap>>

CloseFile ==
    /\ op = Idle /\ file.open
    /\ file' = Closed
    /\ UNCHANGED <<disk, Info, op, faults, mishap>>

\* FAT32_WriteFile and FAT32_AppendFile up to their loops.
Begin(call, pc, c, size) == [Idle EXCEPT !.call = call, !.pc = pc, !.cluster = c, !.size = size]
BeginFirst(call, size) ==
    \E w \in Outcomes :
       /\ FAT32_AllocCluster(w)
       /\ IF Allocated(w)
          THEN /\ op' = Begin(call, "data", Picked, size)
               /\ file' = [file EXCEPT !.entry.start = Picked]
          ELSE NoCluster
CanWrite == Ready /\ file.open /\ file.entry.kind = "file"

WriteFile(size) ==
    /\ CanWrite
    /\ IF file.entry.start = 0 /\ size > 0
       THEN BeginFirst("write", size)
       ELSE /\ op' = Begin("write", IF size > 0 THEN "data" ELSE "trim", file.entry.start, size)
            /\ UNCHANGED <<fat, Info, file, faults, mishap>>
    /\ UNCHANGED <<dirs, fsinfo>>

AppendFile(size) ==
    /\ CanWrite /\ size > 0 /\ file.entry.size + size <= MaxFile
    /\ LET offset == file.entry.size % UnitsPerCluster
           full == offset = 0 /\ file.entry.size > 0
       IN  IF file.entry.start = 0
           THEN BeginFirst("append", size)
           ELSE /\ op' = [Begin("append", IF full THEN "extend" ELSE "data",
                                Last(Chain(file.entry.start)), size) EXCEPT !.offset = offset]
                /\ UNCHANGED <<fat, Info, file, faults, mishap>>
    /\ UNCHANGED <<dirs, fsinfo>>

\* One round of either loop: write the cluster at hand and see what comes next.  Only
\* FAT32_WriteFile looks at the result of the write.
ToWrite == LET space == UnitsPerCluster - op.offset
               remain == op.size - op.written
           IN  IF remain < space THEN remain ELSE space
Written == op.written + ToWrite
AsData == [dirs EXCEPT ![op.cluster] = Blank]

WriteRound ==
    IF Written >= op.size
    THEN [op EXCEPT !.written = Written, !.pc = IF op.call = "write" THEN "trim" ELSE "entry"]
    ELSE IF op.call = "append" \/ fat[op.cluster] >= EOF
         THEN [op EXCEPT !.written = Written, !.pc = "extend"]
         ELSE [op EXCEPT !.written = Written, !.cluster = fat[op.cluster]]

WriteData ==
    /\ op.pc = "data"
    /\ \E w \in Outcomes :
         /\ op' = IF w # "ok" /\ op.call = "write" THEN Idle ELSE WriteRound
         /\ dirs' = IF w # "fail" THEN AsData ELSE dirs
         /\ Fault(w)
         /\ mishap' = mishap \cup Noted(w)
    /\ UNCHANGED <<fat, fsinfo, Info, file>>

Extend ==
    /\ op.pc = "extend"
    /\ \E w \in Outcomes :
         /\ FAT32_AllocCluster(w)
         /\ IF Allocated(w)
            THEN op' = [op EXCEPT !.pc = "link", !.next = Picked] /\ UNCHANGED file
            ELSE NoCluster
    /\ UNCHANGED <<dirs, fsinfo>>

Link ==
    /\ op.pc = "link"
    /\ \E w \in Outcomes :
         /\ fat' = FAT32_WriteFATEntry(fat, op.cluster, op.next, w)
         /\ op' = IF w # "ok" /\ op.call = "write" THEN Idle
                  ELSE [op EXCEPT !.pc = "data", !.cluster = op.next, !.next = 0, !.offset = 0]
         /\ Fault(w)
         /\ mishap' = mishap \cup Noted(w)
    /\ UNCHANGED <<dirs, fsinfo, Info, file>>

\* Clusters behind the last one written are cut off; file_size is never lowered.
EndMark_Missing == fat[op.cluster]
EndMark == EOF
old_clusters == (file.entry.size + UnitsPerCluster - 1) \div UnitsPerCluster
Surplus == op.written < old_clusters * UnitsPerCluster /\ fat[op.cluster] < EOF
Kept == IF op.written = 0 THEN UnitsPerCluster
        ELSE ((op.written + UnitsPerCluster - 1) \div UnitsPerCluster) * UnitsPerCluster

Trim ==
    /\ op.pc = "trim"
    /\ IF Surplus
       THEN \E w \in Outcomes :
              /\ fat' = FAT32_WriteFATEntry(fat, op.cluster, EndMark, w)
              /\ op' = [op EXCEPT !.pc = "free", !.next = fat[op.cluster]]
              /\ Fault(w)
              /\ mishap' = mishap \cup Noted(w)
                           \cup (IF w = "fail" THEN {"torn"} ELSE {})
                           \cup (IF file.entry.size > Kept THEN {"short"} ELSE {})
       ELSE op' = [op EXCEPT !.pc = "entry"] /\ UNCHANGED <<fat, faults, mishap>>
    /\ UNCHANGED <<dirs, fsinfo, Info, file>>

\* When the successor cannot be read nothing is cut off.
TrimUnread ==
    /\ op.pc = "trim" /\ Surplus /\ faults < MaxFaults
    /\ op' = [op EXCEPT !.pc = "entry"]
    /\ Fault("fail")
    /\ mishap' = mishap \cup {"error"}
    /\ UNCHANGED <<disk, Info, file>>

\* One round of FAT32_FreeClusterChain.  FAT32_WriteFile ignores its failure, the
\* removals return.
Removal == op.call \in {"delete", "rmdir"}
After == IF Removal THEN "mark" ELSE "entry"
TornBy(f) ==
    LET freed(c) == c # 0 /\ f[c] = FREE
    IN  IF Removal /\ freed(FAT32_FindEntryAny(op.d, op.n).start) THEN {"torn"} ELSE {}

ChainEnds(c) == c >= EOF \/ c < 2
NextToFree_AfterWrite == fat'[op.next]
NextToFree == fat[op.next]

FreeClusterChain ==
    /\ op.pc = "free"
    /\ \E w \in Outcomes :
         /\ fat' = FAT32_WriteFATEntry(fat, op.next, FREE, w)
         /\ IF w = "ok"
            THEN /\ free_clusters' = CountUp
                 /\ mishap' = mishap
                 /\ op' = IF ChainEnds(NextToFree)
                          THEN [op EXCEPT !.pc = After, !.next = 0]
                          ELSE [op EXCEPT !.next = NextToFree]
            ELSE /\ UNCHANGED free_clusters
                 /\ mishap' = mishap \cup {"error"} \cup TornBy(fat')
                 /\ op' = IF Removal THEN Idle ELSE [op EXCEPT !.pc = After, !.next = 0]
         /\ Fault(w)
    /\ UNCHANGED <<dirs, fsinfo, next_free_cluster, file>>

\* FAT32_WriteDirEntry: the first entry of the directory with the same 8.3 name.
NewSize_WholeClusters ==
    IF op.call = "append" THEN old_clusters * UnitsPerCluster + op.written
    ELSE IF op.written > file.entry.size THEN op.written ELSE file.entry.size
NewSize ==
    IF op.call = "append" THEN file.entry.size + op.written
    ELSE IF op.written > file.entry.size THEN op.written ELSE file.entry.size
Overwritten(d, e) ==
    LET same == {p \in EntriesOf(d) : Slot(d, p).sfn = e.sfn}
        p == First(same)
    IN  IF same = {} THEN dirs
        ELSE [dirs EXCEPT ![Chain(d)[p[1]]][p[2]] = e]

WriteEntry ==
    /\ op.pc = "entry"
    /\ file' = [file EXCEPT !.entry.size = NewSize]
    /\ \E w \in Outcomes :
         /\ dirs' = IF w # "fail" THEN Overwritten(file.dir, file'.entry) ELSE dirs
         /\ Fault(w)
         /\ mishap' = mishap \cup Noted(w)
    /\ op' = Idle
    /\ UNCHANGED <<fat, fsinfo, Info>>

-----------------------------------------------------------------------------
\* Creation.  FAT32_FindEntryAny's "could not read" counts as "does not exist".
Target(call, pc, d, n) == [Idle EXCEPT !.call = call, !.pc = pc, !.d = d, !.n = n]
Misread(d, n) == Found(d, n) /\ faults < MaxFaults
SeenAbsent(d, n) == ~Found(d, n) \/ Misread(d, n)
NoteMisread(d, n) ==
    /\ faults' = IF Found(d, n) THEN faults + 1 ELSE faults
    /\ mishap' = IF Found(d, n) THEN mishap \cup {"misread"} ELSE mishap

CreateFile(d, n) ==
    /\ Ready /\ ~file.open
    /\ SeenAbsent(d, n)
    /\ op' = Target("create", "slot", d, n)
    /\ NoteMisread(d, n)
    /\ UNCHANGED <<disk, Info, file>>

CreateDir(d, n) ==
    /\ Ready /\ ~file.open
    /\ SeenAbsent(d, n)
    /\ op' = Target("mkdir", "mkdir", d, n)
    /\ NoteMisread(d, n)
    /\ UNCHANGED <<disk, Info, file>>

MakeDirCluster ==
    /\ op.pc = "mkdir"
    /\ \E w \in Outcomes :
         /\ FAT32_AllocCluster(w)
         /\ IF Allocated(w)
            THEN op' = [op EXCEPT !.pc = "fill", !.cluster = Picked] /\ UNCHANGED file
            ELSE NoCluster
    /\ UNCHANGED <<dirs, fsinfo>>

FillDirCluster ==
    /\ op.pc = "fill"
    /\ \E w \in Outcomes :
         /\ dirs' = IF w # "fail" THEN [dirs EXCEPT ![op.cluster] = NewDir] ELSE dirs
         /\ op' = IF w = "ok" THEN [op EXCEPT !.pc = "slot"] ELSE Idle
         /\ Fault(w)
         /\ mishap' = mishap \cup Noted(w)
    /\ UNCHANGED <<fat, fsinfo, Info, file>>

\* The entry goes into the first slot of the directory that is deleted or behind its end.
NewEntry == [kind |-> IF op.call = "mkdir" THEN "dir" ELSE "file", long |-> op.n,
             sfn |-> name_to_83[op.n], start |-> op.cluster, size |-> 0]
Usable(s) == s \in {End, Deleted}
FreePlaces(d) == {p \in (1..Len(Chain(d))) \X (1..EntryCount) : Usable(Slot(d, p))}

WriteSlot ==
    /\ op.pc = "slot"
    /\ IF FreePlaces(op.d) # {}
       THEN /\ \E w \in Outcomes :
                 LET p == First(FreePlaces(op.d))
                 IN  /\ dirs' = IF w # "fail"
                                THEN [dirs EXCEPT ![Chain(op.d)[p[1]]][p[2]] = NewEntry]
                                ELSE dirs
                     /\ Fault(w)
                     /\ mishap' = mishap \cup Noted(w)
            /\ op' = Idle
       ELSE op' = [op EXCEPT !.pc = "grow"] /\ UNCHANGED <<dirs, faults, mishap>>
    /\ UNCHANGED <<fat, fsinfo, Info, file>>

\* A full directory: `current' has already moved on to the end mark when the new cluster
\* is linked behind it, so the link goes to FAT entry number EOF, outside the table, and
\* the entry into a copy of the last cluster that no chain leads to.
GrowDir ==
    /\ op.pc = "grow"
    /\ \E w \in Outcomes :
         /\ FAT32_AllocCluster(w)
         /\ IF Allocated(w)
            THEN op' = [op EXCEPT !.pc = "attach", !.next = Picked] /\ UNCHANGED file
            ELSE NoCluster
    /\ UNCHANGED <<dirs, fsinfo>>

LinkedFrom(d) == EOF
AttachToDir ==
    /\ op.pc = "attach"
    /\ fat' = FAT32_WriteFATEntry(fat, LinkedFrom(op.d), op.next, "ok")
    /\ \/ dirs' = [dirs EXCEPT ![op.next] = [dirs[Last(Chain(op.d))] EXCEPT ![1] = NewEntry]]
       \/ UNCHANGED dirs        \* there is no such sector: the call returns 3
    /\ mishap' = mishap \cup {"grow"}
    /\ Return
    /\ UNCHANGED <<fsinfo, Info, faults>>

-----------------------------------------------------------------------------
\* Removal: the chain is freed first, the entry marked last.
Removing(call, d, n) ==
    LET e == FAT32_FindEntryAny(d, n)
    IN  /\ op' = [Target(call, IF e.start # 0 THEN "free" ELSE "mark", d, n) EXCEPT !.next = e.start]
        /\ UNCHANGED <<disk, Info, file, faults, mishap>>

DeleteFile(d, n) ==
    /\ Ready /\ ~file.open
    /\ Found(d, n) /\ FAT32_FindEntryAny(d, n).kind = "file"
    /\ Removing("delete", d, n)

\* No entry before the first end mark.
is_dir_empty_Unchecked(d) == TRUE
is_dir_empty(d) == \A p \in EntriesOf(d) : \E q \in FreePlaces(d) : Slot(d, q) = End /\ Before(q, p)

RemoveDir(d, n) ==
    /\ Ready /\ ~file.open
    /\ Found(d, n) /\ FAT32_FindEntryAny(d, n).kind = "dir"
    /\ is_dir_empty(FAT32_FindEntryAny(d, n).start)
    /\ Removing("rmdir", d, n)

MarkDeleted ==
    /\ op.pc = "mark"
    /\ \E w \in Outcomes :
         LET p == First(Hits(op.d, op.n))
         IN  /\ dirs' = IF w # "fail" THEN [dirs EXCEPT ![Chain(op.d)[p[1]]][p[2]] = Deleted] ELSE dirs
             /\ Fault(w)
             /\ mishap' = mishap \cup Noted(w)
                          \cup (IF w = "fail" /\ Slot(op.d, p).start # 0 THEN {"torn"} ELSE {})
    /\ op' = Idle
    /\ UNCHANGED <<fat, fsinfo, Info, file>>

\* The long name survives a renaming only if the new one takes as many pieces.
Renamed_LongKept(s, m) == [s EXCEPT !.sfn = name_to_83[m]]
Renamed(s, m) ==
    [s EXCEPT !.sfn = name_to_83[m],
              !.long = IF @ # NoName /\ Pieces[@] = Pieces[m] THEN m ELSE NoName]

\* Bound: not both the look-up of the new name and the write fail.
RenameFile(d, n, m) ==
    /\ Ready /\ ~file.open
    /\ Found(d, n) /\ SeenAbsent(d, m)
    /\ \E w \in IF Found(d, m) THEN {"ok"} ELSE Outcomes :
         /\ LET p == First(Hits(d, n))
            IN  dirs' = IF w = "fail" THEN dirs
                        ELSE [dirs EXCEPT ![Chain(d)[p[1]]][p[2]] = Renamed(@, m)]
         /\ IF Found(d, m) THEN NoteMisread(d, m)
            ELSE Fault(w) /\ mishap' = mishap \cup Noted(w)
    /\ UNCHANGED <<fat, fsinfo, Info, file, op>>

-----------------------------------------------------------------------------
\* The machine stops and FAT32_GetInfo runs again.
PowerLoss ==
    /\ faults < MaxFaults
    /\ op' = Idle
    /\ file' = Closed
    /\ free_clusters' = fsinfo.free /\ next_free_cluster' = fsinfo.next
    /\ faults' = faults + 1
    /\ mishap' = mishap \cup {"loss"} \cup TornBy(fat)
    /\ UNCHANGED disk

Step ==
    \/ WriteData \/ Extend \/ Link \/ Trim \/ TrimUnread \/ FreeClusterChain \/ WriteEntry
    \/ MakeDirCluster \/ FillDirCluster \/ WriteSlot \/ GrowDir \/ AttachToDir \/ MarkDeleted

Command ==
    \/ \E d \in OpenDirs, n \in Names : CreateFile(d, n) \/ DeleteFile(d, n)
    \/ \E n \in DirNames : CreateDir(root_cluster, n) \/ RemoveDir(root_cluster, n)
    \/ \E d \in OpenDirs, n, m \in Names : RenameFile(d, n, m)

\* Bound: directories are made in the root only.
Next ==
    \/ Step /\ UNCHANGED calls
    \/ /\ op = Idle /\ calls < MaxCalls
       /\ \/ ~file.open /\ Command
          \/ \E size \in Sizes : WriteFile(size) \/ AppendFile(size)
       /\ calls' = calls + 1
    \/ op = Idle /\ (\E d \in OpenDirs, n \in Names : OpenFile(d, n)) /\ UNCHANGED calls
    \/ CloseFile /\ UNCHANGED calls
    \/ PowerLoss /\ UNCHANGED calls
Spec == Init /\ [][Next]_vars

-----------------------------------------------------------------------------
AllDirs == {root_cluster} \cup
           {Slot(root_cluster, p).start : p \in {q \in EntriesOf(root_cluster) : Slot(root_cluster, q).kind = "dir"}}
Clean(events) == mishap \cap events = {}

\* Every variable has its type.
TypeOK ==
    /\ fat \in [Table -> {FREE, EOF} \cup Table]
    /\ \A c \in Table : dirs[c] \in [1..EntryCount -> Entries \cup {End, Deleted, Dots}]
    /\ fsinfo \in FsInfos
    /\ free_clusters \in Nat \cup {UNKNOWN} /\ next_free_cluster \in Nat \cup {UNKNOWN}
    /\ file.open \in BOOLEAN /\ file.dir \in Table /\ file.entry \in Entries
    /\ op \in Frame
    /\ calls \in 0..MaxCalls /\ faults \in 0..MaxFaults
    /\ mishap \subseteq {"error", "full", "grow", "loss", "misread", "short", "torn"}

\* The entry being removed: its chain is being freed under it.
Doomed(d, p) == Removal /\ d = op.d /\ p = First(Hits(op.d, op.n))

\* The chains there are: the root, the entries that are not being removed, and the
\* chain of an open file whose first cluster its entry on disk does not name yet.
Heads == {h \in UNION {{d} \X EntriesOf(d) : d \in AllDirs} :
              ~Doomed(h[1], h[2]) /\ Slot(h[1], h[2]).start # 0}
HeadChain(h) == Chain(Slot(h[1], h[2]).start)
Clus(s) == {s[k] : k \in 1..Len(s)}

\* No cluster is on two chains and every chain ends in an end mark, whatever the disk
\* refused to write and wherever the power failed - except when a removal was cut short
\* (FAT32_DeleteFile and FAT32_RemoveDir free the chain before they mark the entry, and
\* FAT32_WriteFile frees the tail although it could not end the chain before it).
ChainsIntact ==
    Clean({"torn"}) =>
        /\ \A h \in Heads : /\ root_cluster \notin Clus(HeadChain(h))
                             /\ fat[Last(HeadChain(h))] = EOF
                             /\ Cardinality(Clus(HeadChain(h))) = Len(HeadChain(h))
        /\ \A g, h \in Heads : g # h => Clus(HeadChain(g)) \cap Clus(HeadChain(h)) = {}

\* With no call under way and no file open, every cluster in use is on the root's chain or
\* on an entry's: WriteFile, AppendFile, CreateDir and the removals lose none, as long as
\* no write failed, the power stayed on, the volume never ran full and no directory did.
NothingLeaks ==
    op = Idle /\ ~file.open /\ Clean({"error", "loss", "full", "grow"}) =>
        {c \in Table : fat[c] # FREE} =
            Clus(Chain(root_cluster)) \cup UNION {Clus(HeadChain(h)) : h \in Heads}

\* What FAT32_ReadFile returns for entry e.
FAT32_ReadFile(e) == LET n == Len(Chain(e.start)) * UnitsPerCluster
                     IN  IF n < e.size THEN n ELSE e.size

\* A file's chain is long enough for its file_size, so ReadFile returns all of it: the
\* size is written last, also when the power fails in between.  Not so after AppendFile
\* ignored a failed link, nor once WriteFile cut the chain below a file_size it keeps.
SizeIsBacked ==
    Clean({"error", "short", "torn"}) =>
        \A h \in Heads : LET e == Slot(h[1], h[2])
                         IN  e.kind = "file" => FAT32_ReadFile(e) = e.size

\* No name answers to two entries of a directory, through creation, renaming and removal
\* of long and 8.3 names, unless a failed look-up was taken for "does not exist".
NamesUnambiguous ==
    Clean({"misread", "torn"}) =>
        \A d \in AllDirs, n \in Names : Cardinality(Hits(d, n)) <= 1

\* The volume is a tree of directories that every call changes once, in its last step, or
\* not at all, whatever the disk refused to write and wherever the power failed: RemoveDir
\* never drops a directory with something in it, no call takes away or changes an entry
\* that it was not given, and FAT32_WriteDirEntry, which goes by the 8.3 name, hits the
\* file that is open and never lowers its size.
Listing(d) ==
    LET ch == Chain(d)
        seen(c) == {dirs[c][i] : i \in Shown(c)}
    IN  {s \in UNION {seen(ch[k]) : k \in 1..Len(ch)} : IsEntry(s)}
Tree == [d \in {root_cluster} \cup {e.start : e \in {s \in Listing(root_cluster) : s.kind = "dir"}} |->
            Listing(d)]
UnderWay == [name |-> op.call, d |-> op.d, n |-> op.n]
Opened == IF file.open THEN <<file.dir, file.entry.sfn>> ELSE <<>>
Files == INSTANCE FileSystem WITH
    tree <- Tree, call <- UnderWay, open <- Opened, broken <- ~Clean({"torn", "misread"}),
    Homes <- Table, root <- root_cluster
ImplementsFiles == Files!Spec

\* A call gives up for want of a cluster only when every cluster is in use.
FullMeansFull ==
    [][("full" \in mishap' /\ "full" \notin mishap) => \A c \in Clusters : fat[c] # FREE]_vars
=============================================================================
