------------------------------- MODULE Mount -------------------------------
(***************************************************************************)
(* From the disk scan to a mounted volume and its use: the part of         *)
(* InitSystem in Kernel/kernel/kernel.c that runs ata_scan_all and         *)
(* InitFileSystem of Kernel/fs/fs.c, with FindPartition of                 *)
(* Kernel/drives/gpt.c and FAT32_GetInfo of Kernel/fs/fat32.c, and the     *)
(* functions of fat32.c that read and write a cluster or an entry of the   *)
(* FAT, all over the driver of module Ata.  Every step between two calls   *)
(* of the driver looks at what the last one left in the buffer, which      *)
(* after a failed read is what was there before.                           *)
(***************************************************************************)
EXTENDS Ata, Pci

CONSTANTS
    Bus,             \* the PCI bus of each machine: a function from Machines
    MaxControllers,  \* 8, the controllers InitSystem asks for
    Gpt,             \* the disks with a protective MBR and a GPT header
    TableSectors,    \* whole sectors of a disk's partition table, as ATA_Read's uint16_t takes them
    EspAt,           \* [Disks -> Sectors or NoEsp]: where the GPT has the system partition start
    Volumes,         \* the disks with a FAT32 volume at that place
    sectors_per_cluster,
    MaxUses          \* bound: uses of the volume's sectors

NoEsp == -1
ASSUME MountAssumption ==
    /\ Bus \in [Machines -> Buses]
    /\ MaxControllers \in Nat \ {0}
    /\ Gpt \subseteq Disks /\ Volumes \subseteq Disks
    /\ TableSectors \in [Disks -> 0..(LBA48_COUNT - 1)]
    /\ EspAt \in [Disks -> Sectors \cup {NoEsp}]
    /\ \A d \in Disks \ Gpt : EspAt[d] = NoEsp
    /\ sectors_per_cluster \in 1..LBA48_COUNT /\ MaxUses \in Nat

VARIABLES
    present,      \* gATAInfo.drives[i].present
    mount,        \* where InitSystem is, and its locals
    status        \* what InitFileSystem returned; Pending before
mountVars == <<present, mount, status>>

Pending == 100
NoDisk == -1

\* A partition entry: where it starts, and whether it was really read from the disk.
NoPartition == [start |-> 0, genuine |-> FALSE]
\* What the 512 bytes of a local buffer are: nothing that was ever read, or a sector.
Junk == [from |-> -1, cmd |-> "none", lba |-> 0]

MountInit ==
    /\ present = [i \in Drives |-> FALSE]
    /\ mount = [pc |-> "pci", i |-> 0, disk |-> NoDisk, part |-> NoPartition,
                sector |-> Junk, dbr |-> Junk, uses |-> 0]
    /\ status = Pending

To(label) == mount' = [mount EXCEPT !.pc = label]
InMount(label) == mount.pc = label /\ io.pc = "idle"
Returned(label) == mount.pc = label /\ io.pc = "done"
\* The caller takes the result and makes no further call for now.
Taken == io' = NoCall /\ buffer' = <<>> /\ UNCHANGED <<device, drive, selected, media, abandoned>>
\* InitFileSystem returns s; its buffer is gone.
InitFileSystem(s) == status' = s /\ mount' = [mount EXCEPT !.pc = "mounted", !.sector = Junk]

-----------------------------------------------------------------------------
\* InitSystem: the ports are scanned when one of the storage controllers is an IDE one.
ScanBus ==
    /\ InMount("pci")
    /\ LET devs == pci_find_storage_controllers(Bus[device], MaxControllers)
       IN  IF \E k \in 1..Len(devs) : Bus[device].fn[devs[k]] = "ide" THEN To("scan") ELSE To("find")
    /\ UNCHANGED <<ataVars, present, status>>

\* ata_scan_all: the four drives in turn.
IsMaster(i) == i % 2 = 0
ScanNext ==
    /\ InMount("scan")
    /\ IF mount.i = 4 THEN To("find") /\ UNCHANGED ataVars
       ELSE To("scanned") /\ Call("identify", mount.i, IsMaster(mount.i), 0, 1)
    /\ UNCHANGED <<present, status>>

\* -3 stands for an ATAPI device, and for a drive that never asked for its data.
Scanned ==
    /\ Returned("scanned")
    /\ present' = [present EXCEPT ![mount.i] = io.ret \in {0, -3}]
    /\ mount' = [mount EXCEPT !.pc = "scan", !.i = @ + 1]
    /\ Taken
    /\ UNCHANGED status

FindFirstATADisk == IF \E i \in Drives : present[i]
                    THEN CHOOSE i \in Drives : present[i] /\ \A j \in Drives : present[j] => i <= j
                    ELSE NoDisk

\* InitFileSystem: the first disk; FindPartition reads its sector 0.
FindDisk ==
    /\ InMount("find")
    /\ IF FindFirstATADisk = NoDisk THEN InitFileSystem(1) /\ UNCHANGED ataVars
       ELSE /\ mount' = [mount EXCEPT !.pc = "mbr", !.disk = FindFirstATADisk]
            /\ Call("read", FindFirstATADisk, IsMaster(FindFirstATADisk), 0, 1)
            /\ UNCHANGED status
    /\ UNCHANGED present

-----------------------------------------------------------------------------
(***************************************************************************)
(* FindPartition.  ATA_Read is negative on an error and the tests for it   *)
(* are for 0, so after a failed read the checks go on with the buffer as   *)
(* it is; a buffer that was never filled may hold anything.                *)
(***************************************************************************)
IsRead(b) == b.cmd = "read" /\ b.from \in Drives /\ device[b.from] \in Disks
Check_MBR(b) == IsRead(b) /\ b.lba = 0 /\ device[b.from] \in Gpt
Check_GPT_Header(b) == IsRead(b) /\ b.lba = 1 /\ device[b.from] \in Gpt
Passes(b, check) == IF b = Junk THEN BOOLEAN ELSE {check}

Refilled == IF io.ret > 0 THEN buffer[1] ELSE mount.sector
DiskRead(lba, count) == Call("read", mount.disk, IsMaster(mount.disk), lba, count)

CheckMBR ==
    /\ Returned("mbr")
    /\ \E ok \in Passes(Refilled, Check_MBR(Refilled)) :
         IF ok THEN /\ mount' = [mount EXCEPT !.pc = "header", !.sector = Refilled]
                    /\ DiskRead(1, 1)
                    /\ UNCHANGED status
         ELSE InitFileSystem(22) /\ Taken
    /\ UNCHANGED present

\* The table goes into memory from Vmm_Malloc, if there is any.
TableOf(b) == IF IsRead(b) THEN {TableSectors[device[b.from]]} ELSE {0, 1}
CheckHeader ==
    /\ Returned("header")
    /\ \E ok \in Passes(Refilled, Check_GPT_Header(Refilled)) :
         IF ~ok THEN InitFileSystem(23) /\ Taken
         ELSE \/ InitFileSystem(18) /\ Taken
              \/ \E n \in TableOf(Refilled) : To("table") /\ DiskRead(2, n) /\ UNCHANGED status
    /\ UNCHANGED present

\* The entries: those of the sectors read, or of whatever the memory held before.
Entry ==
    IF io.ret > 0
    THEN {[start |-> IF IsRead(buffer[1]) THEN EspAt[device[buffer[1].from]] ELSE NoEsp, genuine |-> TRUE]}
    ELSE {[start |-> s, genuine |-> FALSE] : s \in Sectors \cup {NoEsp}}

\* FAT32_GetInfo passes the address of is_master, which is always true.
InfoRead(lba) == Call("read", mount.disk, TRUE, lba, 1)

FindEntry ==
    /\ Returned("table")
    /\ IF io.ret = 0 THEN InitFileSystem(19) /\ Taken
       ELSE \E e \in Entry :
              IF e.start = NoEsp THEN InitFileSystem(24) /\ Taken
              ELSE /\ mount' = [mount EXCEPT !.pc = "dbr", !.part = e]
                   /\ InfoRead(e.start)
                   /\ UNCHANGED status
    /\ UNCHANGED present

-----------------------------------------------------------------------------
\* FAT32_GetInfo: the boot sector, then FSInfo, whose loss only costs the free count.
check_DBR(b) == IsRead(b) /\ device[b.from] \in Volumes /\ b.lba = EspAt[device[b.from]]

CheckDBR ==
    /\ Returned("dbr")
    /\ IF io.ret < 0 \/ ~check_DBR(buffer[1]) THEN InitFileSystem(31) /\ Taken
       ELSE /\ mount' = [mount EXCEPT !.pc = "fsinfo", !.dbr = buffer[1]]
            /\ InfoRead(mount.part.start + 1)
            /\ UNCHANGED status
    /\ UNCHANGED present

Mounted ==
    /\ Returned("fsinfo")
    /\ InitFileSystem(0)
    /\ Taken
    /\ UNCHANGED present

MountStep ==
    \/ ScanBus \/ ScanNext \/ Scanned \/ FindDisk
    \/ CheckMBR \/ CheckHeader \/ FindEntry \/ CheckDBR \/ Mounted

-----------------------------------------------------------------------------
(***************************************************************************)
(* The mounted volume: FAT32_ReadCluster and FAT32_WriteCluster, which     *)
(* pass is_master, and FAT32_NextCluster and FAT32_WriteFATEntry, which    *)
(* pass its address.  There is one FAT of one sector (num_fats is 1), with *)
(* the clusters behind it.                                                 *)
(***************************************************************************)
FatLba == mount.part.start + 2
DataLba == mount.part.start + 3

ReadCluster == To("cluster") /\ DiskRead(DataLba, sectors_per_cluster)
WriteCluster == To("put") /\ Call("write", mount.disk, IsMaster(mount.disk), DataLba, sectors_per_cluster)
NextCluster == To("next") /\ InfoRead(FatLba)
WriteFATEntry == To("entry") /\ InfoRead(FatLba)

BeginUse ==
    /\ InMount("volume") /\ status = 0
    /\ mount.uses < MaxUses
    /\ ReadCluster \/ WriteCluster \/ NextCluster \/ WriteFATEntry
    /\ UNCHANGED <<present, status>>

\* The entry is changed in the sector read and the sector is written back.
StoreEntry ==
    /\ Returned("entry") /\ io.ret >= 0
    /\ To("stored") /\ Call("write", mount.disk, TRUE, FatLba, 1)
    /\ UNCHANGED <<present, status>>

FlushCache ==
    /\ io.ret >= 0
    /\ \/ Returned("put") /\ Call("flush", mount.disk, IsMaster(mount.disk), 0, 1)
       \/ Returned("stored") /\ Call("flush", mount.disk, TRUE, 0, 1)
    /\ To("flush")
    /\ UNCHANGED <<present, status>>

EndUse ==
    /\ \/ Returned("cluster") \/ Returned("next") \/ Returned("flush")
       \/ io.ret < 0 /\ (Returned("entry") \/ Returned("put") \/ Returned("stored"))
    /\ mount' = [mount EXCEPT !.pc = "volume", !.uses = @ + 1]
    /\ Taken
    /\ UNCHANGED <<present, status>>

VolumeUse == BeginUse \/ StoreEntry \/ FlushCache \/ EndUse

-----------------------------------------------------------------------------
\* A volume that InitFileSystem mounted is the one of the system partition of the first
\* disk found, and an empty port was never taken for a disk, whatever the drives answered -
\* as long as no drive was given up while busy, and neither of two known cases is met: the
\* read of the table failed unnoticed, or the disk is a slave, whose volume
\* FAT32_GetInfo looks for on the master.
MountIsGenuine ==
    /\ \A i \in Drives : present[i] => Real(device[i])
    /\ status = 0 /\ abandoned = {} /\ mount.part.genuine /\ IsMaster(mount.disk) =>
         /\ mount.dbr = [from |-> mount.disk, cmd |-> "read", lba |-> mount.part.start]
         /\ device[mount.disk] \in Volumes \cap Gpt
         /\ mount.part.start = EspAt[device[mount.disk]]
=============================================================================
