-------------------------------- MODULE Ata --------------------------------
(***************************************************************************)
(* The PIO driver of Kernel/drives/ata.c with the drives behind it.        *)
(*                                                                         *)
(* The driver polls the alternate status register and gives up after a     *)
(* time-out; it never resets a channel.  A drive it gave up on goes on     *)
(* with its command, so its answer may come while a later command is under *)
(* way: abandoned remembers the channels where that can happen.  One step  *)
(* is one wait with what follows it up to the next wait, or one step of a  *)
(* drive.  A sector is known by the drive and the address it belongs to.   *)
(*                                                                         *)
(* Drive i is gATAInfo.drives[i]: channel i \div 2, master when i is even. *)
(***************************************************************************)
EXTENDS Integers, Sequences, FiniteSets

CONSTANTS
    Disks,          \* the hard disks there are
    Machines,       \* what may be attached: functions from Drives to Devices
    LBA28_LAST,     \* 0x0FFFFFFF
    LBA28_COUNT,    \* 256
    LBA48_LAST,     \* 0xFFFFFFFFFFFF
    LBA48_COUNT     \* 65536, what a drive makes of the count 0

Drives == 0..3
Channels == {0, 1}
Channel(i) == i \div 2
Drive(ch, is_master) == 2 * ch + (IF is_master THEN 0 ELSE 1)

\* "none" reads as 0, "float" as 0xFF: an empty channel may do either.
Devices == {"none", "float", "atapi"} \cup Disks
Real(d) == d \in Disks \cup {"atapi"}
Sectors == 0..(LBA48_LAST + LBA48_COUNT)

ASSUME AtaAssumption ==
    /\ Disks \cap {"none", "float", "atapi"} = {}
    /\ Machines \subseteq [Drives -> Devices]
    /\ LBA28_LAST \in Nat /\ LBA48_LAST \in Nat /\ LBA28_LAST <= LBA48_LAST
    /\ LBA28_COUNT \in Nat \ {0} /\ LBA48_COUNT \in Nat \ {0}

VARIABLES
    device,       \* the machine
    drive,        \* each drive: status and the command it works on
    selected,     \* the drive/head register of each channel: is the master selected?
    media,        \* what was written to each sector: nothing, or data meant for a sector
    io,           \* the driver's call: its arguments, its progress and its result
    buffer,       \* the sectors the call has put into the caller's buffer
    abandoned     \* history: channels with a drive that was busy when a wait ended

ataVars == <<device, drive, selected, media, io, buffer, abandoned>>

\* A drive's status as the driver tests it: BSY, ERR, DRQ, or none of them.
Statuses == {"busy", "err", "data", "idle"}
Commands == {"none", "read", "write", "identify", "flush"}
NoCommand == [st |-> "idle", cmd |-> "none", lba |-> 0, left |-> 0, got |-> {}]
NoCall == [f |-> "none", pc |-> "idle", ch |-> 0, master |-> TRUE,
           lba |-> 0, count |-> 0, done |-> 0, ret |-> 0]

AtaInit ==
    /\ device \in Machines
    /\ drive = [i \in Drives |-> NoCommand]
    /\ selected = [c \in Channels |-> TRUE]
    /\ media = [i \in Drives |-> [l \in Sectors |-> {}]]
    /\ io = NoCall
    /\ buffer = <<>>
    /\ abandoned = {}

-----------------------------------------------------------------------------
\* What the driver reads: the selected drive of its channel answers.
Unit == Drive(io.ch, selected[io.ch])
alt_status ==
    CASE device[Unit] = "none" -> "idle"
      [] device[Unit] = "float" -> "busy"
      [] OTHER -> drive[Unit].st

Pc(labels) == io.pc \in labels
GoTo(label) == io' = [io EXCEPT !.pc = label]
Give(r) == io' = [io EXCEPT !.pc = "done", !.ret = r]

\* A wait that ends while the drive is busy leaves the drive with its command.
Abandon == abandoned' = IF alt_status = "busy" /\ Real(device[Unit])
                        THEN abandoned \cup {io.ch} ELSE abandoned

-----------------------------------------------------------------------------
(***************************************************************************)
(* The drives.  A command written while a drive asks for data is against   *)
(* the rules of ATA: it may be taken or ignored.                           *)
(***************************************************************************)
GiveCommand(cmd, lba, count) ==
    LET taken == [NoCommand EXCEPT !.st = "busy", !.cmd = cmd, !.lba = lba,
                                   !.left = IF count = 0 THEN LBA48_COUNT ELSE count]
    IN  IF ~Real(device[Unit]) THEN UNCHANGED drive
        ELSE \/ drive' = [drive EXCEPT ![Unit] = taken]
             \/ drive[Unit].st = "data" /\ UNCHANGED drive

Failed(i) == [NoCommand EXCEPT !.st = "err"]

\* A sector is ready to be read, or wanted, or the command is over.  A drive that
\* identifies itself may also end without asking for anything.
Outcome(i) ==
    CASE drive[i].cmd \in {"read", "write"} \/ (drive[i].cmd = "identify" /\ device[i] \in Disks)
            -> {[drive[i] EXCEPT !.st = "data"], Failed(i)}
                 \cup (IF drive[i].cmd = "identify" THEN {NoCommand} ELSE {})
      [] drive[i].cmd = "flush" -> {NoCommand}
      [] OTHER -> {Failed(i)}

\* The next sector after one has been transferred.
Advanced(d, st) == IF d.left = 1 THEN NoCommand
                   ELSE [d EXCEPT !.st = st, !.left = @ - 1, !.lba = @ + 1, !.got = {}]

DriveAnswers(i) ==
    /\ drive[i].st = "busy" /\ drive[i].got = {}
    /\ \E d \in Outcome(i) : drive' = [drive EXCEPT ![i] = d]
    /\ UNCHANGED <<device, selected, media, io, buffer, abandoned>>

\* A drive that got the data of a sector writes it, or fails to.
DriveWrites(i) ==
    /\ drive[i].st = "busy" /\ drive[i].got # {}
    /\ \/ /\ media' = [media EXCEPT ![i][drive[i].lba] = drive[i].got]
          /\ drive' = [drive EXCEPT ![i] = Advanced(drive[i], "data")]
       \/ /\ drive' = [drive EXCEPT ![i] = Failed(i)]
          /\ UNCHANGED media
    /\ UNCHANGED <<device, selected, io, buffer, abandoned>>

AtaDrives == \E i \in Drives : DriveAnswers(i) \/ DriveWrites(i)

-----------------------------------------------------------------------------
\* A call begins, perhaps as the caller takes the result of the one before.
Call(f, i, is_master, lba, count) ==
    /\ io.pc \in {"idle", "done"}
    /\ io' = [f |-> f, pc |-> "select", ch |-> Channel(i), master |-> is_master,
              lba |-> lba, count |-> count, done |-> 0, ret |-> 0]
    /\ buffer' = <<>>
    /\ UNCHANGED <<device, drive, selected, media, abandoned>>

\* ATA_Read and ATA_Write: which of the two forms of the command is sent, and the
\* address it can still carry.
UseLBA28 == io.lba < LBA28_LAST /\ io.count <= LBA28_COUNT /\ io.count > 0
OutOfRange == io.f \in {"read", "write"} /\ ~UseLBA28 /\ io.lba > LBA48_LAST

\* outb(drive_port): master or slave of this channel.
Select_Omitted ==
    /\ Pc({"select"})
    /\ IF OutOfRange THEN Give(-4) ELSE GoTo("command")
    /\ UNCHANGED <<device, drive, selected, media, buffer, abandoned>>
Select ==
    /\ Pc({"select"})
    /\ IF OutOfRange
       THEN Give(-4) /\ UNCHANGED selected
       ELSE selected' = [selected EXCEPT ![io.ch] = io.master] /\ GoTo("command")
    /\ UNCHANGED <<device, drive, media, buffer, abandoned>>

\* ATA_Wait_Busy, then the registers and the command.
AfterCommand == [read |-> "sector", write |-> "want", identify |-> "answer", flush |-> "flushed"]
SendCommand ==
    /\ Pc({"command"})
    /\ alt_status # "busy"
    /\ GiveCommand(io.f, io.lba, io.count)
    /\ GoTo(AfterCommand[io.f])
    /\ UNCHANGED <<device, selected, media, buffer, abandoned>>

NotReady ==
    /\ Pc({"command"})
    /\ alt_status = "busy"
    /\ Give(IF io.f = "flush" THEN 0 ELSE -2)
    /\ Abandon
    /\ UNCHANGED <<device, drive, selected, media, buffer>>

-----------------------------------------------------------------------------
\* Read_Sector: all sectors read, or the next one.
ReadDone ==
    /\ Pc({"sector"})
    /\ io.done = io.count
    /\ Give(io.done)
    /\ UNCHANGED <<device, drive, selected, media, buffer, abandoned>>

\* ATA_Wait_Busy and the test of ERR ...
Erroneous_Ignored == FALSE
Erroneous == alt_status = "err"

ReadWait ==
    /\ Pc({"sector"})
    /\ io.done < io.count
    /\ alt_status # "busy"
    /\ IF Erroneous THEN Give(-(10 + io.done)) ELSE GoTo("words")
    /\ UNCHANGED <<device, drive, selected, media, buffer, abandoned>>

ReadTimeout_Never == FALSE /\ UNCHANGED ataVars
ReadTimeout ==
    /\ Pc({"sector"})
    /\ io.done < io.count
    /\ alt_status = "busy"
    /\ Give(-(5 + io.done))
    /\ Abandon
    /\ UNCHANGED <<device, drive, selected, media, buffer>>

\* ... then ATA_Wait_DRP and the 256 words of the sector.
ReadWords ==
    /\ Pc({"words"})
    /\ IF alt_status = "data"
       THEN /\ buffer' = Append(buffer, [from |-> Unit, cmd |-> drive[Unit].cmd,
                                         lba |-> drive[Unit].lba])
            /\ drive' = [drive EXCEPT ![Unit] = Advanced(drive[Unit], "busy")]
            /\ io' = [io EXCEPT !.pc = "sector", !.done = @ + 1]
       ELSE /\ Give(-(20 + io.done))
            /\ UNCHANGED <<buffer, drive>>
    /\ Abandon
    /\ UNCHANGED <<device, selected, media>>

-----------------------------------------------------------------------------
\* Write_Sector: ATA_Wait_DRP and the 256 words (lost on a drive that wants none) ...
WriteDone ==
    /\ Pc({"want"})
    /\ io.done = io.count
    /\ Give(io.done)
    /\ UNCHANGED <<device, drive, selected, media, buffer, abandoned>>

WriteWords ==
    /\ Pc({"want"})
    /\ io.done < io.count
    /\ alt_status = "data"
    /\ drive' = IF drive[Unit].cmd # "write" THEN drive
                ELSE [drive EXCEPT ![Unit].st = "busy",
                                   ![Unit].got = {[on |-> Drive(io.ch, io.master), lba |-> io.lba + io.done]}]
    /\ GoTo("written")
    /\ UNCHANGED <<device, selected, media, buffer, abandoned>>

WriteRefused ==
    /\ Pc({"want"})
    /\ io.done < io.count
    /\ alt_status # "data"
    /\ Give(-(20 + io.done))
    /\ Abandon
    /\ UNCHANGED <<device, drive, selected, media, buffer>>

\* ... then ATA_Wait_Busy and the test of ERR.
WriteChecked ==
    /\ Pc({"written"})
    /\ alt_status # "busy"
    /\ IF Erroneous THEN Give(-(10 + io.done))
       ELSE io' = [io EXCEPT !.pc = "want", !.done = @ + 1]
    /\ UNCHANGED <<device, drive, selected, media, buffer, abandoned>>

WriteTimeout ==
    /\ Pc({"written"})
    /\ alt_status = "busy"
    /\ Give(-(5 + io.done))
    /\ Abandon
    /\ UNCHANGED <<device, drive, selected, media, buffer>>

\* ATA_Flush_Cache returns whether or not the drive is done.
FlushWait ==
    /\ Pc({"flushed"})
    /\ Give(0)
    /\ Abandon
    /\ UNCHANGED <<device, drive, selected, media, buffer>>

-----------------------------------------------------------------------------
(***************************************************************************)
(* ATA_Identify_Drive after its command: status 0 means that nothing is    *)
(* there; otherwise ATA_Wait_DRP, whose result is replaced by the signs of *)
(* an empty channel or of an ATAPI device in lba_mid and lba_hi.           *)
(***************************************************************************)
ReadsZero_Never == FALSE
ReadsZero == device[Unit] = "none"

Wait_DRP == CASE alt_status = "data" -> 0
              [] alt_status = "busy" -> -1
              [] alt_status = "err" -> -2
              [] OTHER -> -3

Identified ==
    CASE ReadsZero -> -1
      [] device[Unit] = "float" -> -1
      [] Wait_DRP < 0 /\ device[Unit] = "atapi" -> -3
      [] OTHER -> Wait_DRP

Identify ==
    /\ Pc({"answer"})
    /\ Give(Identified)
    /\ IF Identified = 0
       THEN /\ buffer' = <<[from |-> Unit, cmd |-> drive[Unit].cmd, lba |-> 0]>>
            /\ drive' = [drive EXCEPT ![Unit] = NoCommand]
       ELSE UNCHANGED <<buffer, drive>>
    /\ Abandon
    /\ UNCHANGED <<device, selected, media>>

-----------------------------------------------------------------------------
ReadLoop == ReadDone \/ ReadWait \/ ReadTimeout \/ ReadWords
WriteLoop == WriteDone \/ WriteWords \/ WriteRefused \/ WriteChecked \/ WriteTimeout
AtaDriver == Select \/ SendCommand \/ NotReady \/ ReadLoop \/ WriteLoop \/ FlushWait \/ Identify

-----------------------------------------------------------------------------
Asked == Drive(io.ch, io.master)
Succeeded(f) == io.pc = "done" /\ io.f = f /\ io.ret >= 0
Trusted == io.ch \notin abandoned

\* ATA_Read returns a positive number only with the sectors that were asked for in the
\* buffer, from the drive that was asked, in order and all of them - as long as no wait
\* on the channel ended on a busy drive.
ReadIsExact ==
    Succeeded("read") /\ Trusted =>
        /\ io.ret = io.count
        /\ buffer = [k \in 1..io.count |-> [from |-> Asked, cmd |-> "read", lba |-> io.lba + k - 1]]

\* The same for ATA_Write: success means that every sector is on the medium, and at no
\* moment does a sector hold data meant for another one.
WriteIsExact ==
    /\ Succeeded("write") /\ Trusted =>
        \A k \in 0..(io.count - 1) :
            media[Asked][io.lba + k] = {[on |-> Asked, lba |-> io.lba + k]}
    /\ \A i \in Drives, l \in Sectors :
         Channel(i) \notin abandoned => media[i][l] \subseteq {[on |-> i, lba |-> l]}
=============================================================================
