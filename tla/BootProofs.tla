----------------------------- MODULE BootProofs -----------------------------
(***************************************************************************)
(* The ATA driver and the mount over it for every machine, every disk,     *)
(* every length of a transfer and every order of the drives' answers: what *)
(* a successful call moved, and what InitFileSystem mounted.  And the      *)
(* drawing operations, for every size of the screen.                       *)
(***************************************************************************)
EXTENDS Boot, WellFoundedInduction, SequenceTheorems, TLAPS

\* The first match of a loop over an array exists when there is a match.
LEMMA Smallest ==
    ASSUME NEW S \in SUBSET Nat, S # {}
    PROVE  \E x \in S : \A y \in S : x <= y
  <1>1. PICK x \in S : \A y \in S : <<y, x>> \notin OpToRel(<, Nat)
    BY NatLessThanWellFounded, WFMin, Zenon
  <1>2. ASSUME NEW y \in S PROVE x <= y
    <2>1. <<y, x>> \in Nat \X Nat
      OBVIOUS
    <2>2. ~(y < x)
      BY <1>1, <2>1 DEF OpToRel
    <2> QED
      BY <2>2
  <1> QED
    BY <1>2

(***************************************************************************)
(* The invariant of the driver and the drives.                             *)
(***************************************************************************)
CallLabels == {"idle", "select", "command", "sector", "words", "want", "written",
               "answer", "flushed", "done"}
Meant == [on : Drives, lba : Nat]
DriveStates == [st : Statuses, cmd : Commands, lba : Nat, left : Nat, got : SUBSET Meant]
CallStates == [f : Commands, pc : CallLabels, ch : Channels, master : BOOLEAN, lba : Nat,
               count : 0..LBA48_COUNT, done : Nat, ret : Int]
Contents == [from : Drives, cmd : Commands, lba : Nat]

AtaTypes ==
    /\ device \in [Drives -> Devices] /\ device \in Machines
    /\ drive \in [Drives -> DriveStates]
    /\ selected \in [Channels -> BOOLEAN]
    /\ media \in [Drives -> [Sectors -> SUBSET Meant]]
    /\ io \in CallStates
    /\ buffer \in Seq(Contents)
    /\ abandoned \subseteq Channels

\* A drive is busy or asks for data exactly while it has a command; it has data to write
\* only while it writes them; where there is no drive nothing ever happens.
DriveInv ==
    \A i \in Drives :
        /\ ~Real(device[i]) => drive[i] = NoCommand
        /\ drive[i].st \in {"busy", "data"} <=> drive[i].cmd # "none"
        /\ drive[i].got # {} => drive[i].st = "busy" /\ drive[i].cmd = "write"
        /\ drive[i].cmd # "none" => drive[i].left > 0
        /\ drive[i].cmd = "flush" => drive[i].st = "busy"

\* Where the driver is in a call.
CallInv ==
    /\ io.pc = "idle" => io = NoCall
    /\ io.pc # "idle" => io.f # "none"
    /\ io.pc \in {"sector", "words"} => io.f = "read"
    /\ io.pc \in {"want", "written"} => io.f = "write"
    /\ io.pc = "answer" => io.f = "identify"
    /\ io.pc = "flushed" => io.f = "flush"
    /\ io.pc \in {"select", "command"} => io.done = 0 /\ buffer = <<>>
    /\ io.pc # "done" => io.ret = 0
    /\ io.pc \in {"sector", "want"} => io.done <= io.count
    /\ io.pc \in {"words", "written"} => io.done < io.count
    /\ io.pc \notin {"idle", "select", "done"} => selected[io.ch] = io.master
    /\ io.pc \notin {"idle", "select", "done"} /\ io.f \in {"read", "write"} => io.lba <= LBA48_LAST
    /\ io.pc = "written" => Real(device[Asked])
    /\ io.pc = "done" /\ io.f = "identify" /\ io.ret \in {0, -3} => Real(device[Asked])
    /\ io.pc \in {"sector", "words"} \/ Succeeded("read") => Len(buffer) = io.done
    /\ Succeeded("read") => io.ret = io.count /\ io.done = io.count
    /\ Succeeded("write") => io.done = io.count /\ io.lba <= LBA48_LAST
    /\ io.f = "write" => io.count > 0
    /\ status = 19 => io.pc = "idle"

\* The read of a partition table of less than a sector: the count 0 makes the drive send
\* 65536 sectors that nobody takes.  InitFileSystem then fails with 19 and nothing is read
\* again.
Orphan == \/ io.f = "read" /\ io.count = 0 /\ io.pc \in {"sector", "done"} /\ io.ret = 0
          \/ status = 19

\* How far the drive that was asked has got, seen from the driver.
InStep(d) ==
    \/ /\ io.pc \in {"sector", "words", "want"}
       /\ d.lba = io.lba + io.done /\ d.left = io.count - io.done /\ d.got = {}
    \/ /\ io.pc = "written"
       /\ d.lba = io.lba + io.done /\ d.left = io.count - io.done
       /\ d.got = {[on |-> Asked, lba |-> io.lba + io.done]}
    \/ /\ io.pc = "written" /\ d.st = "data"
       /\ d.lba = io.lba + io.done + 1 /\ d.left = io.count - io.done - 1 /\ d.got = {}
    \/ io.pc \in {"answer", "flushed"}

\* On a channel where no wait ended on a busy drive, a drive works only on the command of
\* the call under way, and in step with it.
OwnInv ==
    \A i \in Drives : Channel(i) \notin abandoned /\ drive[i].cmd # "none" /\ ~Orphan =>
        i = Asked /\ drive[i].cmd = io.f /\ InStep(drive[i])

\* There, what a drive is about to write and what it has written is in its place.
PlaceInv ==
    \A i \in Drives : Channel(i) \notin abandoned =>
        /\ drive[i].got \subseteq {[on |-> i, lba |-> drive[i].lba]}
        /\ \A l \in Sectors : media[i][l] \subseteq {[on |-> i, lba |-> l]}

\* The sectors the call has read so far.
ReadInv ==
    io.f = "read" /\ Trusted /\ (io.pc \in {"sector", "words"} \/ Succeeded("read")) =>
        \A k \in 1..io.done : buffer[k] = [from |-> Asked, cmd |-> "read", lba |-> io.lba + k - 1]

Stored(i, l) == media[i][l] = {[on |-> i, lba |-> l]}

\* The sectors the call has written so far; a drive that is done with a sector and reports
\* no error has written it.
WriteInv ==
    /\ io.f = "write" /\ Trusted /\ (io.pc \in {"want", "written"} \/ Succeeded("write")) =>
         \A k \in 0..(io.done - 1) : Stored(Asked, io.lba + k)
    /\ io.pc = "written" /\ Trusted /\ drive[Asked].st \notin {"busy", "err"} =>
         Stored(Asked, io.lba + io.done)

AtaInv == /\ AtaTypes /\ DriveInv /\ CallInv /\ OwnInv /\ PlaceInv /\ ReadInv /\ WriteInv

(***************************************************************************)
(* The invariant of the mount.                                             *)
(***************************************************************************)
Pauses == {"pci", "scan", "find", "mounted", "volume"}
Mounting == {"pci", "scan", "scanned", "find", "mbr", "header", "table", "dbr", "fsinfo"}
Using == {"cluster", "put", "next", "entry", "stored", "flush"}
Locals == [from : Drives \cup {-1}, cmd : Commands, lba : Nat]
MountStates == [pc : Pauses \cup Mounting \cup Using, i : 0..4, disk : Drives \cup {NoDisk},
                part : [start : Sectors, genuine : BOOLEAN], sector : Locals, dbr : Locals, uses : Nat]

MountTypes ==
    /\ present \in [Drives -> BOOLEAN]
    /\ mount \in MountStates
    /\ status \in Int

\* Which call InitSystem waits for.
WaitInv ==
    /\ mount.pc \in Pauses <=> io.pc = "idle"
    /\ mount.pc \in Mounting <=> status = Pending
    /\ mount.pc \in Using => status = 0
    /\ mount.pc = "scanned" => io.f = "identify" /\ mount.i \in Drives /\ Asked = mount.i
    /\ mount.pc \in {"mbr", "header", "table"} => io.f = "read" /\ Asked = mount.disk
    /\ mount.pc \in {"dbr", "fsinfo"} => io.f = "read" /\ Asked = Drive(Channel(mount.disk), TRUE)
    /\ mount.pc = "dbr" => io.lba = mount.part.start
    /\ io.f = "read" /\ io.count = 0 => mount.pc = "table"
    /\ mount.pc \in {"mbr", "header", "table", "dbr", "fsinfo"} \cup Using \/ status = 0 => mount.disk \in Drives

\* What InitSystem has found out so far.
FoundInv ==
    /\ \A i \in Drives : present[i] => Real(device[i])
    /\ mount.part.genuine => mount.pc \notin {"pci", "scan", "scanned", "find", "mbr", "header", "table"}
    /\ mount.part.genuine /\ abandoned = {} =>
         /\ mount.disk \in Drives /\ device[mount.disk] \in Disks
         /\ mount.part.start = EspAt[device[mount.disk]]
    /\ mount.pc = "fsinfo" \/ status = 0 =>
         (abandoned = {} /\ IsMaster(mount.disk) =>
            /\ mount.dbr = [from |-> mount.disk, cmd |-> "read", lba |-> mount.part.start]
            /\ device[mount.disk] \in Volumes)

MountInv == MountTypes /\ WaitInv /\ FoundInv

\* InitSystem goes on to the display when InitFileSystem has returned.
PhaseInv == /\ phase = "mount" => mount.pc \in Mounting
            /\ phase \in {"display", "clock"} => mount.pc = "mounted"

BootInv == AtaInv /\ MountInv /\ PhaseInv

-----------------------------------------------------------------------------
(***************************************************************************)
(* Drives, channels and what the driver reads from them.                   *)
(***************************************************************************)
LEMMA DriveNumbers ==
    /\ \A i \in Drives : Channel(i) \in Channels /\ IsMaster(i) \in BOOLEAN
    /\ \A i \in Drives : Drive(Channel(i), IsMaster(i)) = i
    /\ \A i \in Drives : IsMaster(i) => Drive(Channel(i), TRUE) = i
    /\ \A ch \in Channels, m \in BOOLEAN : Drive(ch, m) \in Drives /\ Channel(Drive(ch, m)) = ch
  <1>1. \A i \in Drives : i \in {0, 1, 2, 3}
    BY DEF Drives
  <1>2. \A i \in {0, 1, 2, 3} : Channel(i) \in Channels
    BY DEF Channel, Channels
  <1>3. \A i : IsMaster(i) \in BOOLEAN
    BY DEF IsMaster
  <1>4. \A i \in {0, 1, 2, 3} : Drive(Channel(i), IsMaster(i)) = i /\ (IsMaster(i) => Drive(Channel(i), TRUE) = i)
    BY DEF Drive, Channel, IsMaster
  <1>5. \A ch \in Channels : /\ Drive(ch, TRUE) \in Drives /\ Channel(Drive(ch, TRUE)) = ch
                              /\ Drive(ch, FALSE) \in Drives /\ Channel(Drive(ch, FALSE)) = ch
    BY DEF Drive, Channel, Channels, Drives
  <1>6. \A m \in BOOLEAN : m = TRUE \/ m = FALSE
    OBVIOUS
  <1>7. \A ch \in Channels, m \in BOOLEAN : Drive(ch, m) \in Drives /\ Channel(Drive(ch, m)) = ch
    BY <1>5, <1>6, Zenon
  <1> QED
    BY <1>1, <1>2, <1>3, <1>4, <1>7

LEMMA AskedDrive == AtaTypes => Asked \in Drives /\ Channel(Asked) = io.ch /\ io.ch \in Channels
  <1>1. io \in CallStates => io.ch \in Channels /\ io.master \in BOOLEAN
    BY DEF CallStates
  <1> QED
    BY <1>1, DriveNumbers DEF AtaTypes, Asked

\* What the driver reads on the drive it asked.
LEMMA StatusRead ==
    ASSUME AtaInv, io.pc \notin {"idle", "select", "done"}
    PROVE  /\ Unit = Asked
           /\ alt_status \in Statuses
           /\ Real(device[Asked]) => alt_status = drive[Asked].st
           /\ ~Real(device[Asked]) => alt_status \in {"idle", "busy"} /\ drive[Asked] = NoCommand
           /\ alt_status # "busy" => drive[Asked].st # "busy"
  <1>1. Unit = Asked
    BY DEF Unit, Asked, AtaInv, CallInv
  <1>2. device[Asked] \in Devices /\ drive[Asked] \in DriveStates /\ Asked \in Drives
    BY AskedDrive DEF AtaInv, AtaTypes
  <1>3. drive[Asked].st \in Statuses
    BY <1>2 DEF DriveStates
  <1>4. ~Real(device[Asked]) => drive[Asked] = NoCommand /\ device[Asked] \in {"none", "float"}
    BY <1>2 DEF AtaInv, DriveInv, Real, Devices
  <1>5. Real(device[Asked]) => device[Asked] \notin {"none", "float"}
    BY AtaAssumption DEF Real
  <1>6. alt_status = IF device[Asked] = "none" THEN "idle"
                     ELSE IF device[Asked] = "float" THEN "busy" ELSE drive[Asked].st
    BY <1>1 DEF alt_status
  <1>7. NoCommand.st = "idle"
    BY DEF NoCommand
  <1> QED
    BY <1>1, <1>3, <1>4, <1>5, <1>6, <1>7 DEF Statuses

-----------------------------------------------------------------------------
(***************************************************************************)
(* The steps of the drives.                                                *)
(***************************************************************************)

\* A drive that asks for data, fails or ends.
LEMMA AnswersInv ==
    ASSUME AtaInv, NEW i \in Drives, DriveAnswers(i), UNCHANGED status
    PROVE  AtaInv'
  <1>1. /\ drive[i].st = "busy" /\ drive[i].got = {}
        /\ UNCHANGED <<device, selected, media, io, buffer, abandoned>>
    BY DEF DriveAnswers
  <1>2. PICK d \in Outcome(i) : drive' = [drive EXCEPT ![i] = d]
    BY DEF DriveAnswers
  <1>3. drive[i] \in DriveStates /\ drive[i].cmd # "none" /\ drive[i].left > 0 /\ Real(device[i])
    BY <1>1 DEF AtaInv, AtaTypes, DriveInv, NoCommand
  <1>4. \/ d = [drive[i] EXCEPT !.st = "data"] /\ drive[i].cmd # "flush"
        \/ d \in {NoCommand, [NoCommand EXCEPT !.st = "err"]}
    BY <1>2 DEF Outcome, Failed
  <1>5. /\ d \in DriveStates /\ d.got = {} /\ d.st # "busy"
        /\ (d.st = "data" <=> d.cmd # "none")
        /\ d.cmd # "none" => d = [drive[i] EXCEPT !.st = "data"] /\ drive[i].cmd # "flush"
    BY <1>1, <1>3, <1>4 DEF DriveStates, NoCommand, Statuses, Commands
  <1>6. d.cmd # "none" => d.cmd = drive[i].cmd /\ d.lba = drive[i].lba /\ d.left = drive[i].left
    BY <1>3, <1>5 DEF DriveStates
  <1>7. drive'[i] = d /\ \A j \in Drives : j # i => drive'[j] = drive[j]
    BY <1>2 DEF AtaInv, AtaTypes
  <1> HIDE DEF AtaInv
  <1>8. AtaTypes'
    BY <1>1, <1>2, <1>5 DEF AtaInv, AtaTypes
  <1>9. DriveInv'
    BY <1>1, <1>3, <1>5, <1>6, <1>7 DEF AtaInv, DriveInv
  <1>10. CallInv'
    BY <1>1 DEF AtaInv, CallInv, Asked, Succeeded, Real
  <1>11. Channel(i) \notin abandoned => io.pc # "written"
    BY <1>1, <1>3 DEF AtaInv, OwnInv, Orphan, CallInv, InStep
  <1>12. OwnInv'
    <2>1. ASSUME NEW j \in Drives, Channel(j) \notin abandoned, drive'[j].cmd # "none", ~Orphan
          PROVE  j = Asked /\ drive'[j].cmd = io.f /\ InStep(drive'[j])
      <3>1. drive[j].cmd # "none" /\ drive'[j].cmd = drive[j].cmd
        BY <1>3, <1>6, <1>7, <2>1
      <3>2. j = Asked /\ drive[j].cmd = io.f /\ InStep(drive[j])
        BY <2>1, <3>1 DEF AtaInv, OwnInv
      <3>3. InStep(drive'[j])
        BY <1>1, <1>5, <1>6, <1>7, <1>11, <2>1, <3>1, <3>2 DEF InStep
      <3> QED
        BY <3>1, <3>2, <3>3
    <2>2. (Orphan' <=> Orphan) /\ Asked' = Asked
      BY <1>1 DEF Orphan, Asked
    <2> QED
      BY <1>1, <2>1, <2>2 DEF OwnInv, InStep
  <1>13. PlaceInv'
    BY <1>1, <1>5, <1>7 DEF AtaInv, PlaceInv
  <1>14. ReadInv'
    BY <1>1 DEF AtaInv, ReadInv, Trusted, Succeeded, Asked
  <1>15. WriteInv'
    <2>1. io.pc = "written" /\ Trusted => i # Asked
      BY <1>11, AskedDrive DEF AtaInv, Trusted
    <2>2. Asked \in Drives
      BY AskedDrive DEF AtaInv
    <2> QED
      BY <1>1, <1>7, <2>1, <2>2 DEF AtaInv, WriteInv, Trusted, Succeeded, Asked, Stored
  <1> QED
    BY <1>8, <1>9, <1>10, <1>12, <1>13, <1>14, <1>15 DEF AtaInv

\* The sectors of a write are sectors of the medium.
LEMMA WriteRange ==
    ASSUME AtaInv, io.f = "write", io.pc \in {"want", "written"} \/ Succeeded("write")
    PROVE  \A k \in 0..(io.count - 1) : io.lba + k \in Sectors
  <1>1. io.lba \in Nat /\ io.count \in 0..LBA48_COUNT
    BY DEF AtaInv, AtaTypes, CallStates
  <1>2. io.lba <= LBA48_LAST
    BY DEF AtaInv, CallInv, Succeeded
  <1> QED
    BY <1>1, <1>2, AtaAssumption DEF Sectors

\* A drive that writes the sector it was given, or fails to.
LEMMA WritesInv ==
    ASSUME AtaInv, NEW i \in Drives, DriveWrites(i), UNCHANGED status
    PROVE  AtaInv'
  <1> DEFINE d == drive[i]
             e == drive'[i]
  <1>1. /\ d.st = "busy" /\ d.got # {}
        /\ UNCHANGED <<device, selected, io, buffer, abandoned>>
    BY DEF DriveWrites
  <1>2. d \in DriveStates /\ d.cmd = "write" /\ d.left > 0 /\ Real(device[i])
    BY <1>1 DEF AtaInv, AtaTypes, DriveInv, NoCommand
  <1>3. drive \in [Drives -> DriveStates] /\ media \in [Drives -> [Sectors -> SUBSET Meant]]
    BY DEF AtaInv, AtaTypes
  <1>4. \/ drive' = [drive EXCEPT ![i] = Advanced(d, "data")] /\ media' = [media EXCEPT ![i][d.lba] = d.got]
        \/ drive' = [drive EXCEPT ![i] = [NoCommand EXCEPT !.st = "err"]] /\ media' = media
    BY DEF DriveWrites, Failed
  <1>5. Advanced(d, "data") \in {NoCommand, [d EXCEPT !.st = "data", !.left = @ - 1, !.lba = @ + 1, !.got = {}]}
    BY DEF Advanced
  <1>6. d.left # 1 => d.left - 1 > 0 /\ d.left - 1 \in Nat /\ d.lba + 1 \in Nat
    BY <1>2 DEF DriveStates
  <1>7. /\ e \in DriveStates /\ e.got = {} /\ e.st # "busy" /\ (e.st = "data" <=> e.cmd # "none")
        /\ e.cmd # "none" => /\ e.cmd = "write" /\ e.st = "data" /\ e.left = d.left - 1 /\ e.lba = d.lba + 1
                             /\ e.left > 0
    <2>1. CASE e = NoCommand \/ e = [NoCommand EXCEPT !.st = "err"]
      BY <2>1 DEF NoCommand, DriveStates, Statuses, Commands
    <2>2. CASE d.left # 1 /\ e = [d EXCEPT !.st = "data", !.left = @ - 1, !.lba = @ + 1, !.got = {}]
      BY <1>2, <1>6, <2>2 DEF DriveStates, Statuses, Commands
    <2> QED
      BY <1>3, <1>4, <2>1, <2>2 DEF Advanced
  <1>8. \A j \in Drives : j # i => drive'[j] = drive[j]
    BY <1>3, <1>4
  <1>9. /\ \A j \in Drives : j # i => media'[j] = media[j]
        /\ \A l \in Sectors : media'[i][l] = media[i][l] \/ (l = d.lba /\ media'[i][l] = d.got)
        /\ e.st # "err" /\ d.lba \in Sectors => media'[i][d.lba] = d.got
    <2>1. CASE media' = media /\ e.st = "err"
      BY <2>1
    <2>2. CASE media' = [media EXCEPT ![i][d.lba] = d.got]
      BY <1>3, <2>2
    <2>3. [NoCommand EXCEPT !.st = "err"].st = "err"
      BY DEF NoCommand
    <2> QED
      BY <1>3, <1>4, <2>1, <2>2, <2>3
  <1>10. Channel(i) \notin abandoned => d.got = {[on |-> i, lba |-> d.lba]}
    BY <1>1 DEF AtaInv, PlaceInv
  <1>11. ASSUME Channel(i) \notin abandoned, ~Orphan
         PROVE  /\ i = Asked /\ io.f = "write" /\ io.pc = "written"
                /\ d.lba = io.lba + io.done /\ d.left = io.count - io.done
    BY <1>1, <1>2, <1>11 DEF AtaInv, OwnInv, InStep, CallInv
  <1> HIDE DEF d, e
  <1>12. AtaTypes'
    <2>1. drive' \in [Drives -> DriveStates]
      BY <1>3, <1>4, <1>7 DEF e
    <2>2. media' \in [Drives -> [Sectors -> SUBSET Meant]]
      <3>1. d.got \in SUBSET Meant
        BY <1>2 DEF DriveStates
      <3>2. [media[i] EXCEPT ![d.lba] = d.got] \in [Sectors -> SUBSET Meant]
        BY <1>3, <3>1
      <3>3. media' = media \/ media' = [media EXCEPT ![i] = [media[i] EXCEPT ![d.lba] = d.got]]
        BY <1>3, <1>4
      <3> QED
        BY <1>3, <3>2, <3>3
    <2> QED
      BY <1>1, <2>1, <2>2 DEF AtaInv, AtaTypes
  <1>13. DriveInv'
    BY <1>1, <1>2, <1>7, <1>8 DEF AtaInv, DriveInv, e
  <1>14. CallInv'
    BY <1>1 DEF AtaInv, CallInv, Asked, Succeeded, Real
  <1>15. OwnInv'
    <2>1. ASSUME NEW j \in Drives, Channel(j) \notin abandoned, drive'[j].cmd # "none", ~Orphan
          PROVE  j = Asked /\ drive'[j].cmd = io.f /\ InStep(drive'[j])
      <3>1. CASE j # i
        BY <1>8, <2>1, <3>1 DEF AtaInv, OwnInv
      <3>2. CASE j = i
        <4>1. io.count \in Nat /\ io.done \in Nat /\ io.lba \in Nat
          BY DEF AtaInv, AtaTypes, CallStates
        <4> QED
          BY <1>7, <1>11, <2>1, <3>2, <4>1 DEF InStep, e
      <3> QED
        BY <3>1, <3>2
    <2>2. (Orphan' <=> Orphan) /\ Asked' = Asked
      BY <1>1 DEF Orphan, Asked
    <2> QED
      BY <1>1, <2>1, <2>2 DEF OwnInv, InStep
  <1>16. PlaceInv'
    BY <1>1, <1>7, <1>8, <1>9, <1>10 DEF AtaInv, PlaceInv, e
  <1>17. ReadInv'
    BY <1>1 DEF AtaInv, ReadInv, Trusted, Succeeded, Asked
  <1>18. WriteInv'
    <2>1. Asked \in Drives /\ Channel(Asked) = io.ch /\ Asked' = Asked
      BY <1>1, AskedDrive DEF AtaInv, Asked
    <2> DEFINE NowStored(l) == media'[Asked][l] = {[on |-> Asked, lba |-> l]}
    <2>2. Trusted => \A l \in Sectors : Stored(Asked, l) => NowStored(l)
      BY <1>1, <1>9, <1>10, <2>1 DEF Stored, Trusted
    <2>3. io.done \in Nat /\ io.count \in Nat
      BY DEF AtaInv, AtaTypes, CallStates
    <2>4. io.f = "write" /\ Trusted /\ (io.pc \in {"want", "written"} \/ Succeeded("write")) =>
             \A k \in 0..(io.done - 1) : NowStored(io.lba + k)
      <3>1. io.f = "write" /\ (io.pc \in {"want", "written"} \/ Succeeded("write")) => io.done <= io.count
        BY <2>3 DEF AtaInv, CallInv
      <3>2. io.f = "write" /\ (io.pc \in {"want", "written"} \/ Succeeded("write")) =>
               \A k \in 0..(io.done - 1) : io.lba + k \in Sectors
        BY <2>3, <3>1, WriteRange
      <3> HIDE DEF NowStored
      <3> QED
        BY <2>2, <3>2 DEF AtaInv, WriteInv
    <2>5. ASSUME io.pc = "written", Trusted, drive'[Asked].st \notin {"busy", "err"}
          PROVE  NowStored(io.lba + io.done)
      <3>1. io.f = "write" /\ io.done < io.count /\ ~Orphan
        BY <2>5 DEF AtaInv, CallInv, Orphan
      <3>2. io.lba + io.done \in Sectors
        BY <2>3, <2>5, <3>1, WriteRange
      <3>3. CASE i = Asked
        <4>1. d.lba = io.lba + io.done /\ d.got = {[on |-> i, lba |-> d.lba]} /\ e.st # "err"
          BY <1>10, <1>11, <2>1, <2>5, <3>1, <3>3 DEF Trusted, e
        <4> QED
          BY <1>9, <3>2, <3>3, <4>1, <2>1
      <3>4. CASE i # Asked
        <4>1. Stored(Asked, io.lba + io.done)
          BY <1>8, <2>1, <2>5, <3>4 DEF AtaInv, WriteInv
        <4> QED
          BY <2>2, <2>5, <3>2, <4>1
      <3> QED
        BY <3>3, <3>4
    <2> QED
      BY <1>1, <2>1, <2>4, <2>5 DEF WriteInv, Trusted, Succeeded, Stored
  <1> QED
    BY <1>12, <1>13, <1>14, <1>15, <1>16, <1>17, <1>18 DEF AtaInv

-----------------------------------------------------------------------------
(***************************************************************************)
(* The steps of the driver: first those that end a call.                   *)
(***************************************************************************)
LEMMA EndInv ==
    ASSUME AtaInv, UNCHANGED <<status, device, drive, selected, media, buffer>>,
           NEW r \in Int, Give(r), io.pc \notin {"idle", "done"},
           abandoned \subseteq abandoned', abandoned' \subseteq Channels,
           io.ch \notin abandoned' => drive[Asked].cmd = "none" \/ Orphan',
           Orphan => Orphan',
           io.f = "read" /\ r >= 0 => io.pc = "sector" /\ io.done = io.count /\ r = io.count,
           io.f = "write" /\ r >= 0 => io.pc = "want" /\ io.done = io.count,
           io.f = "identify" /\ r \in {0, -3} => Real(device[Asked])
    PROVE  AtaInv'
  <1>1. /\ io' \in CallStates /\ io'.pc = "done" /\ io'.ret = r
        /\ io'.f = io.f /\ io'.ch = io.ch /\ io'.master = io.master /\ io'.lba = io.lba
        /\ io'.count = io.count /\ io'.done = io.done
    BY DEF AtaInv, AtaTypes, CallStates, CallLabels, Give
  <1>2. Asked' = Asked /\ Asked \in Drives /\ Channel(Asked) = io.ch /\ (Trusted' => Trusted)
    BY <1>1, AskedDrive DEF AtaInv, Asked, Trusted
  <1>3. AtaTypes'
    BY <1>1 DEF AtaInv, AtaTypes
  <1>4. DriveInv'
    BY DEF AtaInv, DriveInv, Real
  <1>5. status # 19
    BY DEF AtaInv, CallInv
  <1>6. CallInv'
    <2>1. io.f # "none"
      BY DEF AtaInv, CallInv
    <2>2. io.f = "read" /\ r >= 0 => Len(buffer) = io.done
      BY DEF AtaInv, CallInv
    <2>3. io.f = "write" => io.count > 0
      BY DEF AtaInv, CallInv
    <2>4. io.f = "write" /\ r >= 0 => io.lba <= LBA48_LAST
      BY DEF AtaInv, CallInv
    <2> QED
      BY <1>1, <1>2, <1>5, <2>1, <2>2, <2>3, <2>4 DEF CallInv, Succeeded, Real
  <1>7. OwnInv'
    <2>1. ASSUME NEW j \in Drives, Channel(j) \notin abandoned', drive[j].cmd # "none", ~Orphan'
          PROVE  FALSE
      <3>1. j = Asked
        BY <2>1 DEF AtaInv, OwnInv
      <3> QED
        BY <1>2, <2>1, <3>1
    <2> QED
      BY <2>1 DEF OwnInv
  <1>8. PlaceInv'
    BY DEF AtaInv, PlaceInv
  <1>9. ReadInv'
    BY <1>1, <1>2 DEF AtaInv, ReadInv, Succeeded
  <1>10. WriteInv'
    BY <1>1, <1>2 DEF AtaInv, WriteInv, Succeeded, Stored
  <1> QED
    BY <1>3, <1>4, <1>6, <1>7, <1>8, <1>9, <1>10 DEF AtaInv

\* A wait that ends without data leaves the drive without a command, or abandoned.
LEMMA WaitEnds ==
    ASSUME AtaInv, io.pc \notin {"idle", "select", "done"}, Abandon, alt_status # "data"
    PROVE  /\ abandoned \subseteq abandoned' /\ abandoned' \subseteq Channels
           /\ io.ch \notin abandoned' => drive[Asked].cmd = "none"
  <1>1. /\ Unit = Asked /\ alt_status \in Statuses
        /\ Real(device[Asked]) => alt_status = drive[Asked].st
        /\ ~Real(device[Asked]) => drive[Asked] = NoCommand
    BY StatusRead
  <1>2. Asked \in Drives /\ io.ch \in Channels /\ abandoned \subseteq Channels
    BY AskedDrive DEF AtaInv, AtaTypes
  <1>3. NoCommand.cmd = "none"
    BY DEF NoCommand
  <1>4. drive[Asked].st \in {"busy", "data"} <=> drive[Asked].cmd # "none"
    BY <1>2 DEF AtaInv, DriveInv
  <1> QED
    BY <1>1, <1>2, <1>3, <1>4 DEF Abandon

\* Before the command is sent no drive that can be trusted has one.
LEMMA NothingPending ==
    ASSUME AtaInv, io.pc \in {"select", "command"}
    PROVE  ~Orphan /\ \A i \in Drives : Channel(i) \notin abandoned => drive[i].cmd = "none"
  BY DEF AtaInv, OwnInv, Orphan, CallInv, InStep

\* In the middle of a call a drive that can be trusted works on it.
LEMMA InStepWith ==
    ASSUME AtaInv, io.pc \in {"sector", "words", "want", "written", "answer", "flushed"}, ~Orphan,
           Trusted, drive[Asked].cmd # "none"
    PROVE  drive[Asked].cmd = io.f /\ InStep(drive[Asked])
  BY AskedDrive DEF AtaInv, OwnInv, Trusted

LEMMA OrphanAt ==
    ASSUME AtaInv, io.pc \notin {"idle", "done"}
    PROVE  Orphan <=> io.f = "read" /\ io.count = 0 /\ io.pc = "sector"
  BY DEF AtaInv, CallInv, Orphan

LEMMA CallTypes ==
    AtaTypes => /\ io.f \in Commands /\ io.pc \in CallLabels /\ io.ch \in Channels /\ io.master \in BOOLEAN
                /\ io.lba \in Nat /\ io.count \in Nat /\ io.done \in Nat /\ io.ret \in Int
  BY AtaAssumption DEF AtaTypes, CallStates

\* A wait that ends a call with an error, or the flush.
LEMMA WaitEndInv ==
    ASSUME AtaInv, UNCHANGED <<status, device, drive, selected, media, buffer>>,
           io.pc \notin {"idle", "select", "done"}, ~Orphan,
           NEW r \in Int, Give(r), r < 0 \/ io.f = "flush",
           io.f = "identify" /\ r = -3 => Real(device[Asked]),
           Abandon, alt_status # "data"
    PROVE  AtaInv'
  BY WaitEnds, EndInv, CallTypes DEF AtaInv, Commands

\* A wait that ends a call because the drive reports an error.
LEMMA ErrorEndInv ==
    ASSUME AtaInv, UNCHANGED <<status, device, drive, selected, media, buffer, abandoned>>,
           io.pc \in {"sector", "written"}, ~Orphan,
           NEW r \in Int, Give(r), r < 0, Erroneous
    PROVE  AtaInv'
  <1>1. drive[Asked].cmd = "none" /\ Asked \in Drives
    <2>1. drive[Asked].st = "err" /\ Asked \in Drives
      BY StatusRead, AskedDrive DEF Erroneous, AtaInv
    <2> QED
      BY <2>1 DEF AtaInv, DriveInv
  <1>2. io.f \in {"read", "write"}
    BY DEF AtaInv, CallInv
  <1> QED
    BY <1>1, <1>2, EndInv DEF AtaInv, AtaTypes

LEMMA ReadDoneInv == AtaInv /\ UNCHANGED status /\ ReadDone => AtaInv'
  <1> SUFFICES ASSUME AtaInv, UNCHANGED status, ReadDone PROVE AtaInv'
    OBVIOUS
  <1>1. /\ io.pc = "sector" /\ io.done = io.count /\ Give(io.done) /\ io.f = "read"
        /\ UNCHANGED <<device, drive, selected, media, buffer, abandoned>>
    BY DEF ReadDone, Pc, AtaInv, CallInv
  <1>2. io.count = 0 => Orphan'
    <2>1. io' = [io EXCEPT !.pc = "done", !.ret = io.done] /\ io \in CallStates
      BY <1>1 DEF Give, AtaInv, AtaTypes
    <2>2. io'.f = io.f /\ io'.count = io.count /\ io'.pc = "done" /\ io'.ret = io.done
      BY <2>1 DEF CallStates
    <2> QED
      BY <1>1, <2>2 DEF Orphan
  <1>3. io.count \in Nat /\ io.done \in Nat
    BY CallTypes DEF AtaInv
  <1>4. io.ch \notin abandoned /\ io.count # 0 => drive[Asked].cmd = "none"
    <2>1. drive[Asked].cmd # "none" => drive[Asked].left > 0
      BY AskedDrive DEF AtaInv, DriveInv
    <2>2. io.count # 0 => ~Orphan
      BY <1>1, OrphanAt
    <2>3. io.ch \notin abandoned /\ io.count # 0 /\ drive[Asked].cmd # "none" => drive[Asked].left = 0
      BY <1>1, <1>3, <2>2, InStepWith DEF Trusted, InStep
    <2> QED
      BY <2>1, <2>3
  <1>5. Orphan => Orphan'
    BY <1>1, <1>2, OrphanAt
  <1> QED
    BY <1>1, <1>2, <1>3, <1>4, <1>5, EndInv DEF AtaInv, AtaTypes

LEMMA WriteDoneInv == AtaInv /\ UNCHANGED status /\ WriteDone => AtaInv'
  <1> SUFFICES ASSUME AtaInv, UNCHANGED status, WriteDone PROVE AtaInv'
    OBVIOUS
  <1>1. /\ io.pc = "want" /\ io.done = io.count /\ Give(io.done) /\ io.f = "write"
        /\ UNCHANGED <<device, drive, selected, media, buffer, abandoned>>
    BY DEF WriteDone, Pc, AtaInv, CallInv
  <1>2. io.count \in Nat /\ io.done \in Nat /\ ~Orphan
    BY <1>1, CallTypes, OrphanAt DEF AtaInv
  <1>3. io.ch \notin abandoned => drive[Asked].cmd = "none"
    <2>1. drive[Asked].cmd # "none" => drive[Asked].left > 0
      BY AskedDrive DEF AtaInv, DriveInv
    <2>2. io.ch \notin abandoned /\ drive[Asked].cmd # "none" => drive[Asked].left = 0
      BY <1>1, <1>2, InStepWith DEF Trusted, InStep
    <2> QED
      BY <2>1, <2>2
  <1> QED
    BY <1>1, <1>2, <1>3, EndInv DEF AtaInv, AtaTypes

\* The waits that run out, and the ways a call fails after a wait.
LEMMA FailingInv ==
    ASSUME AtaInv, UNCHANGED status
    PROVE  /\ NotReady => AtaInv'
           /\ ReadTimeout => AtaInv'
           /\ WriteRefused => AtaInv'
           /\ WriteTimeout => AtaInv'
  <1> USE CallTypes
  <1>1. ASSUME NotReady PROVE AtaInv'
    <2>1. ~Orphan
      BY <1>1, OrphanAt DEF NotReady, Pc
    <2> QED
      BY <1>1, <2>1, WaitEndInv DEF NotReady, Pc
  <1>2. ASSUME ReadTimeout PROVE AtaInv'
    <2>1. ~Orphan /\ io.done \in Nat
      BY <1>2, OrphanAt DEF ReadTimeout, Pc, AtaInv
    <2>2. -(5 + io.done) \in Int /\ -(5 + io.done) < 0 /\ io.f = "read"
      BY <1>2, <2>1 DEF ReadTimeout, Pc, AtaInv, CallInv
    <2> QED
      BY <1>2, <2>1, <2>2, WaitEndInv DEF ReadTimeout, Pc
  <1>3. ASSUME WriteRefused PROVE AtaInv'
    <2>1. ~Orphan /\ io.done \in Nat
      BY <1>3, OrphanAt DEF WriteRefused, Pc, AtaInv
    <2>2. -(20 + io.done) \in Int /\ -(20 + io.done) < 0 /\ io.f = "write"
      BY <1>3, <2>1 DEF WriteRefused, Pc, AtaInv, CallInv
    <2> QED
      BY <1>3, <2>1, <2>2, WaitEndInv DEF WriteRefused, Pc
  <1>4. ASSUME WriteTimeout PROVE AtaInv'
    <2>1. ~Orphan /\ io.done \in Nat
      BY <1>4, OrphanAt DEF WriteTimeout, Pc, AtaInv
    <2>2. -(5 + io.done) \in Int /\ -(5 + io.done) < 0 /\ io.f = "write"
      BY <1>4, <2>1 DEF WriteTimeout, Pc, AtaInv, CallInv
    <2> QED
      BY <1>4, <2>1, <2>2, WaitEndInv DEF WriteTimeout, Pc
  <1> QED
    BY <1>1, <1>2, <1>3, <1>4

\* A flush is taken as done when its wait ends; a drive that can be trusted is not busy then.
LEMMA FlushWaitInv == AtaInv /\ UNCHANGED status /\ FlushWait => AtaInv'
  <1> SUFFICES ASSUME AtaInv, UNCHANGED status, FlushWait PROVE AtaInv'
    OBVIOUS
  <1>1. /\ io.pc = "flushed" /\ io.f = "flush" /\ Give(0) /\ Abandon
        /\ UNCHANGED <<device, drive, selected, media, buffer>>
    BY DEF FlushWait, Pc, AtaInv, CallInv
  <1>2. ~Orphan
    BY <1>1, OrphanAt
  <1>3. Unit = Asked /\ (Real(device[Asked]) => alt_status = drive[Asked].st) /\ Asked \in Drives
        /\ io.ch \in Channels /\ abandoned \subseteq Channels
    BY <1>1, StatusRead, AskedDrive DEF AtaInv, AtaTypes
  <1>4. abandoned \subseteq abandoned' /\ abandoned' \subseteq Channels
    BY <1>1, <1>3 DEF Abandon
  <1>5. io.ch \notin abandoned' => drive[Asked].cmd = "none"
    <2>1. SUFFICES ASSUME io.ch \notin abandoned', drive[Asked].cmd # "none" PROVE FALSE
      OBVIOUS
    <2>2. drive[Asked].cmd = "flush"
      BY <1>1, <1>2, <1>4, <2>1, InStepWith DEF Trusted
    <2>3. drive[Asked].st = "busy" /\ Real(device[Asked])
      BY <1>3, <2>2 DEF AtaInv, DriveInv, NoCommand
    <2> QED
      BY <1>1, <1>3, <2>1, <2>3 DEF Abandon
  <1> QED
    BY <1>1, <1>2, <1>4, <1>5, EndInv

(***************************************************************************)
(* The steps of the driver that take a call further.                       *)
(***************************************************************************)
LEMMA SelectInv == AtaInv /\ UNCHANGED status /\ Select => AtaInv'
  <1> SUFFICES ASSUME AtaInv, UNCHANGED status, Select PROVE AtaInv'
    OBVIOUS
  <1>1. io.pc = "select" /\ UNCHANGED <<device, drive, media, buffer, abandoned>>
    BY DEF Select, Pc
  <1>2. ~Orphan /\ \A i \in Drives : Channel(i) \notin abandoned => drive[i].cmd = "none"
    BY <1>1, NothingPending
  <1>3. Asked \in Drives /\ Channel(Asked) = io.ch /\ io.ch \in Channels /\ io.lba \in Nat /\ io.count \in Nat
    BY AskedDrive, CallTypes DEF AtaInv
  <1>4. CASE OutOfRange
    <2>1. Give(-4) /\ UNCHANGED selected /\ io.f \in {"read", "write"}
      BY <1>4 DEF Select, OutOfRange
    <2> QED
      BY <1>1, <1>2, <1>3, <2>1, EndInv DEF AtaInv, AtaTypes
  <1>5. CASE ~OutOfRange
    <2>1. selected' = [selected EXCEPT ![io.ch] = io.master] /\ io' = [io EXCEPT !.pc = "command"]
      BY <1>5 DEF Select, GoTo
    <2>2. /\ io' \in CallStates /\ io'.pc = "command" /\ io'.f = io.f /\ io'.ch = io.ch
          /\ io'.master = io.master /\ io'.lba = io.lba /\ io'.count = io.count /\ io'.done = io.done
          /\ io'.ret = io.ret
      BY <2>1 DEF AtaInv, AtaTypes, CallStates, CallLabels
    <2>3. selected' \in [Channels -> BOOLEAN] /\ selected'[io.ch] = io.master
      BY <1>3, <2>1, CallTypes DEF AtaInv, AtaTypes
    <2>4. io.f \in {"read", "write"} => io.lba <= LBA48_LAST
      BY <1>3, <1>5, AtaAssumption DEF OutOfRange, UseLBA28
    <2>5. AtaTypes'
      BY <1>1, <2>2, <2>3 DEF AtaInv, AtaTypes
    <2>6. DriveInv'
      BY <1>1 DEF AtaInv, DriveInv, Real
    <2>7. CallInv'
      BY <1>1, <2>2, <2>3, <2>4 DEF AtaInv, CallInv, Succeeded
    <2>8. OwnInv' /\ PlaceInv'
      BY <1>1, <1>2 DEF AtaInv, OwnInv, PlaceInv
    <2>9. ReadInv' /\ WriteInv'
      BY <2>2 DEF ReadInv, WriteInv, Succeeded
    <2> QED
      BY <2>5, <2>6, <2>7, <2>8, <2>9 DEF AtaInv
  <1> QED
    BY <1>4, <1>5

LEMMA SendCommandInv == AtaInv /\ UNCHANGED status /\ SendCommand => AtaInv'
  <1> SUFFICES ASSUME AtaInv, UNCHANGED status, SendCommand PROVE AtaInv'
    OBVIOUS
  <1> DEFINE n == IF io.count = 0 THEN LBA48_COUNT ELSE io.count
             taken == [st |-> "busy", cmd |-> io.f, lba |-> io.lba, left |-> n, got |-> {}]
  <1>1. io.pc = "command" /\ UNCHANGED <<device, selected, media, buffer, abandoned>>
    BY DEF SendCommand, Pc
  <1>2. ~Orphan /\ \A i \in Drives : Channel(i) \notin abandoned => drive[i].cmd = "none"
    BY <1>1, NothingPending
  <1>3. Asked \in Drives /\ Channel(Asked) = io.ch /\ Unit = Asked
    BY <1>1, AskedDrive, StatusRead DEF AtaInv
  <1>4. /\ io.f \in Commands /\ io.f # "none" /\ io.lba \in Nat /\ io.count \in Nat /\ io.done = 0
        /\ buffer = <<>> /\ io.ret = 0 /\ selected[io.ch] = io.master
        /\ io.f \in {"read", "write"} => io.lba <= LBA48_LAST
        /\ io.f = "write" => io.count > 0
    BY <1>1, CallTypes DEF AtaInv, CallInv
  <1>5. \/ drive' = drive /\ ~Real(device[Asked])
        \/ drive' = [drive EXCEPT ![Asked] = taken] /\ Real(device[Asked])
        \/ drive' = drive /\ drive[Asked].st = "data"
    BY <1>3 DEF SendCommand, GiveCommand, NoCommand
  <1>6. /\ io' = [io EXCEPT !.pc = AfterCommand[io.f]]
        /\ io.f = "read" => AfterCommand[io.f] = "sector"
        /\ io.f = "write" => AfterCommand[io.f] = "want"
        /\ io.f = "identify" => AfterCommand[io.f] = "answer"
        /\ io.f = "flush" => AfterCommand[io.f] = "flushed"
    BY DEF SendCommand, GoTo, AfterCommand
  <1>7. io.f \in {"read", "write", "identify", "flush"}
    BY <1>4 DEF Commands
  <1>8. /\ io' \in CallStates /\ io'.f = io.f /\ io'.ch = io.ch
        /\ io'.master = io.master /\ io'.lba = io.lba /\ io'.count = io.count /\ io'.done = io.done
        /\ io'.ret = io.ret
        /\ io'.pc = AfterCommand[io.f] /\ io'.pc \in {"sector", "want", "answer", "flushed"}
    BY <1>6, <1>7 DEF AtaInv, AtaTypes, CallStates, CallLabels
  <1>9. n \in Nat /\ n > 0 /\ (io.count # 0 => n = io.count)
    BY <1>4, AtaAssumption
  <1>10. taken \in DriveStates
    BY <1>4, <1>9 DEF DriveStates, Statuses
  <1>11. drive \in [Drives -> DriveStates]
    BY DEF AtaInv, AtaTypes
  <1>12. /\ \A j \in Drives : j # Asked => drive'[j] = drive[j]
         /\ drive'[Asked] = drive[Asked] \/ (drive'[Asked] = taken /\ Real(device[Asked]))
         /\ drive' \in [Drives -> DriveStates]
    BY <1>3, <1>5, <1>10, <1>11
  <1>13. Asked' = Asked
    BY <1>8 DEF Asked
  <1>14. /\ taken.st = "busy" /\ taken.cmd = io.f /\ taken.lba = io.lba /\ taken.left = n /\ taken.got = {}
    OBVIOUS
  <1> HIDE DEF taken, n
  <1>15. AtaTypes'
    BY <1>1, <1>8, <1>12 DEF AtaInv, AtaTypes
  <1>16. DriveInv'
    BY <1>1, <1>3, <1>4, <1>9, <1>12, <1>14 DEF AtaInv, DriveInv, Real
  <1>17. CallInv'
    <2>1. Len(buffer) = 0
      BY <1>4
    <2>2. status # 19
      BY <1>1 DEF AtaInv, CallInv
    <2> QED
      BY <1>1, <1>4, <1>6, <1>7, <1>8, <2>1, <2>2 DEF CallInv, Succeeded
  <1>18. OwnInv'
    <2>1. SUFFICES ASSUME NEW j \in Drives, Channel(j) \notin abandoned, drive'[j].cmd # "none", ~Orphan'
                   PROVE  j = Asked /\ drive'[j].cmd = io.f /\ InStep(drive[j])'
      BY <1>1, <1>8, <1>13 DEF OwnInv
    <2>2. j = Asked /\ drive'[j] = taken
      BY <1>2, <1>12, <2>1
    <2>3. io.f \in {"read", "write"} => io.count # 0
      BY <1>4, <1>6, <1>8, <2>1 DEF Orphan
    <2>4. (InStep(drive[j]))'
      BY <1>4, <1>6, <1>7, <1>8, <1>9, <1>14, <2>2, <2>3 DEF InStep
    <2> QED
      BY <1>14, <2>2, <2>4
  <1>19. PlaceInv'
    BY <1>1, <1>12, <1>14 DEF AtaInv, PlaceInv
  <1>20. ReadInv' /\ WriteInv'
    BY <1>4, <1>8 DEF ReadInv, WriteInv, Succeeded
  <1> QED
    BY <1>15, <1>16, <1>17, <1>18, <1>19, <1>20 DEF AtaInv

LEMMA ReadWaitInv == AtaInv /\ UNCHANGED status /\ ReadWait => AtaInv'
  <1> SUFFICES ASSUME AtaInv, UNCHANGED status, ReadWait PROVE AtaInv'
    OBVIOUS
  <1>1. /\ io.pc = "sector" /\ io.done < io.count /\ alt_status # "busy"
        /\ UNCHANGED <<device, drive, selected, media, buffer, abandoned>>
    BY DEF ReadWait, Pc
  <1>2. io.done \in Nat /\ io.count \in Nat /\ ~Orphan
    BY <1>1, CallTypes, OrphanAt DEF AtaInv
  <1>3. CASE Erroneous
    <2>1. Give(-(10 + io.done)) /\ -(10 + io.done) \in Int /\ -(10 + io.done) < 0
      BY <1>2, <1>3 DEF ReadWait
    <2> QED
      BY <1>1, <1>2, <1>3, <2>1, ErrorEndInv
  <1>4. CASE ~Erroneous
    <2>1. io' = [io EXCEPT !.pc = "words"]
      BY <1>4 DEF ReadWait, GoTo
    <2>2. /\ io' \in CallStates /\ io'.pc = "words" /\ io'.f = io.f /\ io'.ch = io.ch
          /\ io'.master = io.master /\ io'.lba = io.lba /\ io'.count = io.count /\ io'.done = io.done
          /\ io'.ret = io.ret
      BY <2>1 DEF AtaInv, AtaTypes, CallStates, CallLabels
    <2>3. AtaTypes' /\ DriveInv' /\ PlaceInv'
      BY <1>1, <2>2 DEF AtaInv, AtaTypes, DriveInv, PlaceInv, Real
    <2>4. CallInv'
      BY <1>1, <2>2 DEF AtaInv, CallInv, Succeeded
    <2>5. OwnInv'
      BY <1>1, <1>2, <2>2 DEF AtaInv, OwnInv, InStep, Asked
    <2>6. ReadInv' /\ WriteInv'
      BY <1>1, <2>2 DEF AtaInv, CallInv, ReadInv, WriteInv, Succeeded, Trusted, Asked
    <2> QED
      BY <2>3, <2>4, <2>5, <2>6 DEF AtaInv
  <1> QED
    BY <1>3, <1>4

\* Only a real drive has data.
LEMMA DataRead ==
    ASSUME AtaInv, io.pc \notin {"idle", "select", "done"}, alt_status = "data"
    PROVE  /\ Unit = Asked /\ Asked \in Drives /\ Channel(Asked) = io.ch
           /\ Real(device[Asked]) /\ drive[Asked] \in DriveStates
           /\ drive[Asked].st = "data" /\ drive[Asked].cmd # "none" /\ drive[Asked].left > 0
           /\ drive[Asked].got = {}
           /\ Abandon => abandoned' = abandoned
  <1>1. /\ Unit = Asked /\ Real(device[Asked]) /\ drive[Asked].st = "data"
        /\ Asked \in Drives /\ Channel(Asked) = io.ch
    BY StatusRead, AskedDrive DEF AtaInv
  <1>2. Abandon => abandoned' = abandoned
    BY DEF Abandon
  <1> QED
    BY <1>1, <1>2 DEF AtaInv, AtaTypes, DriveInv

LEMMA ReadWordsInv == AtaInv /\ UNCHANGED status /\ ReadWords => AtaInv'
  <1> SUFFICES ASSUME AtaInv, UNCHANGED status, ReadWords PROVE AtaInv'
    OBVIOUS
  <1>1. io.pc = "words" /\ io.f = "read" /\ io.done < io.count /\ Abandon /\ UNCHANGED <<device, selected, media>>
    BY DEF ReadWords, Pc, AtaInv, CallInv
  <1>2. io.done \in Nat /\ io.count \in Nat /\ io.lba \in Nat /\ ~Orphan
    BY <1>1, CallTypes, OrphanAt DEF AtaInv
  <1>3. CASE alt_status # "data"
    <2>1. Give(-(20 + io.done)) /\ UNCHANGED <<buffer, drive>> /\ -(20 + io.done) \in Int /\ -(20 + io.done) < 0
      BY <1>2, <1>3 DEF ReadWords
    <2> QED
      BY <1>1, <1>2, <1>3, <2>1, WaitEndInv
  <1>4. CASE alt_status = "data"
    <2> DEFINE d == drive[Asked]
               b == [from |-> Asked, cmd |-> d.cmd, lba |-> d.lba]
               e == drive'[Asked]
    <2>1. /\ Unit = Asked /\ Asked \in Drives /\ Channel(Asked) = io.ch /\ Real(device[Asked])
          /\ d \in DriveStates /\ d.st = "data" /\ d.cmd # "none" /\ d.left > 0 /\ d.got = {}
          /\ abandoned' = abandoned
      BY <1>1, <1>4, DataRead
    <2>2. /\ buffer' = Append(buffer, b)
          /\ drive' = [drive EXCEPT ![Asked] = Advanced(d, "busy")]
          /\ io' = [io EXCEPT !.pc = "sector", !.done = @ + 1]
      BY <1>4, <2>1 DEF ReadWords
    <2>3. /\ io' \in CallStates /\ io'.pc = "sector" /\ io'.f = io.f /\ io'.ch = io.ch
          /\ io'.master = io.master /\ io'.lba = io.lba /\ io'.count = io.count /\ io'.done = io.done + 1
          /\ io'.ret = io.ret
      <3>1. io \in CallStates /\ io.done + 1 \in Nat
        BY <1>2 DEF AtaInv, AtaTypes
      <3>2. io' = [io EXCEPT !.pc = "sector", !.done = io.done + 1]
        BY <2>2
      <3> HIDE DEF d, b, e, AtaInv
      <3> QED
        BY ONLY <3>1, <3>2 DEF CallStates, CallLabels
    <2>4. b \in Contents /\ buffer \in Seq(Contents) /\ drive \in [Drives -> DriveStates]
      BY <2>1 DEF AtaInv, AtaTypes, Contents, DriveStates
    <2>5. /\ buffer' \in Seq(Contents) /\ Len(buffer') = Len(buffer) + 1
          /\ \A k \in 1..Len(buffer) : buffer'[k] = buffer[k]
          /\ buffer'[Len(buffer) + 1] = b
      BY <2>2, <2>4
    <2>6. /\ e \in DriveStates /\ e.got = {} /\ (e.st \in {"busy", "data"} <=> e.cmd # "none")
          /\ e.cmd # "none" => /\ e.st = "busy" /\ e.cmd = d.cmd /\ e.left = d.left - 1 /\ e.lba = d.lba + 1
                               /\ e.left > 0
      <3>1. e = Advanced(d, "busy")
        BY <2>1, <2>2, <2>4
      <3>2. CASE e = NoCommand
        BY <3>2 DEF NoCommand, DriveStates, Statuses, Commands
      <3>3. CASE d.left # 1 /\ e = [d EXCEPT !.st = "busy", !.left = @ - 1, !.lba = @ + 1, !.got = {}]
        <4>1. d.left - 1 \in Nat /\ d.left - 1 > 0 /\ d.lba + 1 \in Nat
          BY <2>1, <3>3 DEF DriveStates
        <4> QED
          BY <2>1, <3>3, <4>1 DEF DriveStates, Statuses
      <3> QED
        BY <3>1, <3>2, <3>3 DEF Advanced
    <2>7. \A j \in Drives : j # Asked => drive'[j] = drive[j]
      BY <2>1, <2>2, <2>4
    <2>8. Asked' = Asked /\ Trusted' = Trusted /\ ~Orphan'
      BY <1>1, <1>2, <2>1, <2>3 DEF Asked, Trusted, Orphan, AtaInv, CallInv
    <2>9. Trusted => d.cmd = "read" /\ d.lba = io.lba + io.done /\ d.left = io.count - io.done
      BY <1>1, <1>2, <2>1, InStepWith DEF InStep
    <2> HIDE DEF d, b, e
    <2>10. AtaTypes'
      BY <1>1, <2>1, <2>2, <2>3, <2>4, <2>5, <2>6 DEF AtaInv, AtaTypes, e
    <2>11. DriveInv'
      BY <1>1, <2>1, <2>6, <2>7 DEF AtaInv, DriveInv, Real, e
    <2>12. CallInv'
      BY <1>1, <1>2, <2>3, <2>5 DEF AtaInv, CallInv, Succeeded
    <2>13. OwnInv'
      <3>1. SUFFICES ASSUME NEW j \in Drives, Channel(j) \notin abandoned, drive'[j].cmd # "none"
                     PROVE  j = Asked /\ drive'[j].cmd = io.f /\ InStep(drive[j])'
        BY <2>1, <2>3, <2>8 DEF OwnInv
      <3>2. j = Asked
        BY <1>2, <2>7, <3>1 DEF AtaInv, OwnInv
      <3>3. Trusted
        BY <2>1, <3>1, <3>2 DEF Trusted
      <3>4. InStep(drive[j])'
        BY <1>2, <2>3, <2>6, <2>9, <3>1, <3>2, <3>3 DEF InStep, e
      <3> QED
        BY <1>1, <2>6, <2>9, <3>1, <3>2, <3>3, <3>4 DEF e
    <2>14. PlaceInv'
      BY <1>1, <2>1, <2>6, <2>7 DEF AtaInv, PlaceInv, e
    <2>15. ReadInv'
      <3>1. Len(buffer) = io.done
        BY <1>1 DEF AtaInv, CallInv
      <3>2. Trusted => b = [from |-> Asked, cmd |-> "read", lba |-> io.lba + (io.done + 1) - 1]
        BY <1>2, <2>9 DEF b
      <3>3. Trusted => \A k \in 1..io.done : buffer[k] = [from |-> Asked, cmd |-> "read", lba |-> io.lba + k - 1]
        BY <1>1 DEF AtaInv, ReadInv
      <3>4. ASSUME Trusted, NEW k \in 1..(io.done + 1)
            PROVE  buffer'[k] = [from |-> Asked, cmd |-> "read", lba |-> io.lba + k - 1]
        <4>1. CASE k = io.done + 1
          BY <2>5, <3>1, <3>2, <3>4, <4>1
        <4>2. CASE k # io.done + 1
          <5>1. k \in 1..io.done
            BY <1>2, <4>2
          <5> QED
            BY <2>5, <3>1, <3>3, <3>4, <5>1
        <4> QED
          BY <4>1, <4>2
      <3> QED
        BY <2>3, <2>8, <3>4 DEF ReadInv
    <2>16. WriteInv'
      BY <1>1, <2>3 DEF WriteInv
    <2> QED
      BY <2>10, <2>11, <2>12, <2>13, <2>14, <2>15, <2>16 DEF AtaInv
  <1> QED
    BY <1>3, <1>4

LEMMA WriteWordsInv == AtaInv /\ UNCHANGED status /\ WriteWords => AtaInv'
  <1> SUFFICES ASSUME AtaInv, UNCHANGED status, WriteWords PROVE AtaInv'
    OBVIOUS
  <1> DEFINE d == drive[Asked]
             e == drive'[Asked]
             sector == [on |-> Asked, lba |-> io.lba + io.done]
  <1>1. /\ io.pc = "want" /\ io.f = "write" /\ io.done < io.count /\ alt_status = "data"
        /\ UNCHANGED <<device, selected, media, buffer, abandoned>>
    BY DEF WriteWords, Pc, AtaInv, CallInv
  <1>2. io.done \in Nat /\ io.count \in Nat /\ io.lba \in Nat /\ ~Orphan
    BY <1>1, CallTypes, OrphanAt DEF AtaInv
  <1>3. /\ Unit = Asked /\ Asked \in Drives /\ Channel(Asked) = io.ch /\ Real(device[Asked])
        /\ d \in DriveStates /\ d.st = "data" /\ d.cmd # "none" /\ d.left > 0 /\ d.got = {}
    BY <1>1, DataRead
  <1>4. io' = [io EXCEPT !.pc = "written"]
    BY DEF WriteWords, GoTo
  <1>5. /\ io' \in CallStates /\ io'.pc = "written" /\ io'.f = io.f /\ io'.ch = io.ch
        /\ io'.master = io.master /\ io'.lba = io.lba /\ io'.count = io.count /\ io'.done = io.done
        /\ io'.ret = io.ret
    BY <1>4 DEF AtaInv, AtaTypes, CallStates, CallLabels
  <1>6. drive' = IF d.cmd # "write" THEN drive
                 ELSE [drive EXCEPT ![Asked].st = "busy", ![Asked].got = {sector}]
    BY <1>3 DEF WriteWords, Asked
  <1>7. drive \in [Drives -> DriveStates] /\ sector \in Meant
    BY <1>2, <1>3 DEF AtaInv, AtaTypes, Meant
  <1>8. /\ \A j \in Drives : j # Asked => drive'[j] = drive[j]
        /\ IF d.cmd # "write" THEN drive' = drive /\ e = d
           ELSE /\ e \in DriveStates /\ e.st = "busy" /\ e.got = {sector} /\ e.cmd = "write"
                /\ e.lba = d.lba /\ e.left = d.left
        /\ drive' \in [Drives -> DriveStates]
    <2>1. CASE d.cmd # "write"
      BY <1>6, <1>7, <2>1
    <2>2. CASE d.cmd = "write"
      <3>1. drive' = [drive EXCEPT ![Asked] = [d EXCEPT !.st = "busy", !.got = {sector}]]
        BY <1>3, <1>6, <1>7, <2>2
      <3>2. [d EXCEPT !.st = "busy", !.got = {sector}] \in DriveStates
        BY <1>3, <1>7 DEF DriveStates, Statuses
      <3> QED
        BY <1>3, <1>7, <2>2, <3>1, <3>2 DEF DriveStates
    <2> QED
      BY <2>1, <2>2
  <1>9. Asked' = Asked /\ Trusted' = Trusted /\ ~Orphan'
    BY <1>1, <1>2, <1>5 DEF Asked, Trusted, Orphan, AtaInv, CallInv
  <1>10. Trusted => d.cmd = "write" /\ d.lba = io.lba + io.done /\ d.left = io.count - io.done
    BY <1>1, <1>2, <1>3, InStepWith DEF InStep
  <1> HIDE DEF d, e, sector
  <1>11. AtaTypes'
    BY <1>1, <1>5, <1>8 DEF AtaInv, AtaTypes
  <1>12. DriveInv'
    BY <1>1, <1>3, <1>8 DEF AtaInv, DriveInv, Real, e, d
  <1>13. CallInv'
    BY <1>1, <1>3, <1>5, <1>9 DEF AtaInv, CallInv, Succeeded, Real
  <1>14. OwnInv'
    <2>1. SUFFICES ASSUME NEW j \in Drives, Channel(j) \notin abandoned, drive'[j].cmd # "none"
                   PROVE  j = Asked /\ drive'[j].cmd = io.f /\ InStep(drive[j])'
      BY <1>1, <1>5, <1>9 DEF OwnInv
    <2>2. j = Asked
      BY <1>2, <1>8, <2>1 DEF AtaInv, OwnInv
    <2>3. Trusted
      BY <1>3, <2>1, <2>2 DEF Trusted
    <2>4. InStep(drive[j])'
      BY <1>5, <1>8, <1>9, <1>10, <2>2, <2>3 DEF InStep, e, sector
    <2> QED
      BY <1>1, <1>8, <1>10, <2>2, <2>3, <2>4 DEF e
  <1>15. PlaceInv'
    <2>1. Trusted => e.got \subseteq {[on |-> Asked, lba |-> e.lba]}
      BY <1>8, <1>10 DEF sector
    <2> QED
      BY <1>1, <1>3, <1>8, <2>1 DEF AtaInv, PlaceInv, Trusted, e
  <1>16. ReadInv'
    BY <1>1, <1>5 DEF ReadInv
  <1>17. WriteInv'
    BY <1>1, <1>5, <1>8, <1>9, <1>10 DEF AtaInv, WriteInv, Succeeded, Stored, e
  <1> QED
    BY <1>11, <1>12, <1>13, <1>14, <1>15, <1>16, <1>17 DEF AtaInv

\* The wait after a sector: a drive that is no longer busy with it and reports no error has
\* written it.
LEMMA WriteCheckedInv == AtaInv /\ UNCHANGED status /\ WriteChecked => AtaInv'
  <1> SUFFICES ASSUME AtaInv, UNCHANGED status, WriteChecked PROVE AtaInv'
    OBVIOUS
  <1>1. /\ io.pc = "written" /\ io.f = "write" /\ io.done < io.count /\ alt_status # "busy"
        /\ UNCHANGED <<device, drive, selected, media, buffer, abandoned>>
    BY DEF WriteChecked, Pc, AtaInv, CallInv
  <1>2. io.done \in Nat /\ io.count \in Nat /\ io.lba \in Nat /\ ~Orphan
    BY <1>1, CallTypes, OrphanAt DEF AtaInv
  <1>3. CASE Erroneous
    <2>1. Give(-(10 + io.done)) /\ -(10 + io.done) \in Int /\ -(10 + io.done) < 0
      BY <1>2, <1>3 DEF WriteChecked
    <2> QED
      BY <1>1, <1>2, <1>3, <2>1, ErrorEndInv
  <1>4. CASE ~Erroneous
    <2>1. io' = [io EXCEPT !.pc = "want", !.done = io.done + 1]
      BY <1>4 DEF WriteChecked
    <2>2. /\ io' \in CallStates /\ io'.pc = "want" /\ io'.f = io.f /\ io'.ch = io.ch
          /\ io'.master = io.master /\ io'.lba = io.lba /\ io'.count = io.count /\ io'.done = io.done + 1
          /\ io'.ret = io.ret
      <3>1. io \in CallStates /\ io.done + 1 \in Nat
        BY <1>2 DEF AtaInv, AtaTypes
      <3> QED
        BY ONLY <2>1, <3>1 DEF CallStates, CallLabels
    <2>3. Asked' = Asked /\ Trusted' = Trusted /\ ~Orphan' /\ Asked \in Drives
      BY <1>1, <1>2, <2>2, AskedDrive DEF Asked, Trusted, Orphan, AtaInv, CallInv
    <2>4. drive[Asked].st \notin {"busy", "err"}
      <3>1. Real(device[Asked])
        BY <1>1 DEF AtaInv, CallInv
      <3> QED
        BY <1>1, <1>4, <3>1, StatusRead DEF Erroneous
    <2>5. AtaTypes' /\ DriveInv' /\ PlaceInv'
      BY <1>1, <2>2 DEF AtaInv, AtaTypes, DriveInv, PlaceInv, Real
    <2>6. CallInv'
      BY <1>1, <1>2, <2>2 DEF AtaInv, CallInv, Succeeded
    <2>7. OwnInv'
      <3>1. SUFFICES ASSUME NEW j \in Drives, Channel(j) \notin abandoned, drive[j].cmd # "none"
                     PROVE  j = Asked /\ drive[j].cmd = io.f /\ InStep(drive[j])'
        BY <1>1, <2>2, <2>3 DEF OwnInv
      <3>2. j = Asked /\ drive[j].cmd = io.f /\ InStep(drive[j])
        BY <1>2, <3>1 DEF AtaInv, OwnInv
      <3>3. drive[j].got = {}
        BY <2>4, <3>2 DEF AtaInv, DriveInv
      <3>4. drive[j].lba = io.lba + io.done + 1 /\ drive[j].left = io.count - io.done - 1
        BY <1>1, <3>2, <3>3 DEF InStep
      <3>5. InStep(drive[j])'
        BY <1>1, <1>2, <2>2, <3>3, <3>4 DEF InStep
      <3> QED
        BY <3>2, <3>5
    <2>8. ReadInv'
      BY <1>1, <2>2 DEF ReadInv
    <2>9. WriteInv'
      <3>1. ASSUME Trusted, NEW k \in 0..io.done PROVE Stored(Asked, io.lba + k)
        <4>1. CASE k = io.done
          BY <1>1, <2>4, <3>1, <4>1 DEF AtaInv, WriteInv
        <4>2. CASE k # io.done
          <5>1. k \in 0..(io.done - 1)
            BY <1>2, <4>2
          <5> QED
            BY <1>1, <3>1, <5>1 DEF AtaInv, WriteInv
        <4> QED
          BY <4>1, <4>2
      <3>2. (io.done + 1) - 1 = io.done
        BY <1>2
      <3> QED
        BY <1>1, <2>2, <2>3, <3>1, <3>2 DEF WriteInv, Stored
    <2> QED
      BY <2>5, <2>6, <2>7, <2>8, <2>9 DEF AtaInv
  <1> QED
    BY <1>3, <1>4

\* What ATA_Identify_Drive makes of what it reads.
LEMMA IdentifiedIs ==
    ASSUME AtaInv, io.pc = "answer"
    PROVE  /\ Identified \in {0, -1, -2, -3}
           /\ Identified = 0 <=> alt_status = "data"
           /\ Identified = -3 => Real(device[Asked])
  <1>1. /\ Unit = Asked /\ alt_status \in Statuses
        /\ ~Real(device[Asked]) => alt_status \in {"idle", "busy"}
    BY StatusRead
  <1>2. device[Asked] \in Devices
    BY AskedDrive DEF AtaInv, AtaTypes
  <1>3. Wait_DRP = IF alt_status = "data" THEN 0 ELSE IF alt_status = "busy" THEN -1
                   ELSE IF alt_status = "err" THEN -2 ELSE -3
    BY DEF Wait_DRP
  <1>4. Identified = IF device[Asked] = "none" THEN -1 ELSE IF device[Asked] = "float" THEN -1
                     ELSE IF Wait_DRP < 0 /\ device[Asked] = "atapi" THEN -3 ELSE Wait_DRP
    BY <1>1, Zenon DEF Identified, ReadsZero
  <1>5. ~Real(device[Asked]) <=> device[Asked] \in {"none", "float"}
    BY <1>2, AtaAssumption DEF Real, Devices
  <1> QED
    BY <1>1, <1>3, <1>4, <1>5 DEF Statuses

LEMMA IdentifyInv == AtaInv /\ UNCHANGED status /\ Identify => AtaInv'
  <1> SUFFICES ASSUME AtaInv, UNCHANGED status, Identify PROVE AtaInv'
    OBVIOUS
  <1>1. /\ io.pc = "answer" /\ io.f = "identify" /\ Give(Identified) /\ Abandon
        /\ UNCHANGED <<device, selected, media>>
    BY DEF Identify, Pc, AtaInv, CallInv
  <1>2. ~Orphan
    BY <1>1, OrphanAt
  <1>3. /\ Identified \in {0, -1, -2, -3} /\ (Identified = 0 <=> alt_status = "data")
        /\ Identified = -3 => Real(device[Asked])
    BY <1>1, IdentifiedIs
  <1>4. CASE Identified # 0
    <2>1. UNCHANGED <<buffer, drive>> /\ alt_status # "data" /\ Identified \in Int /\ Identified < 0
      BY <1>3, <1>4 DEF Identify
    <2> QED
      BY <1>1, <1>2, <1>3, <2>1, WaitEndInv
  <1>5. CASE Identified = 0
    <2>1. /\ Unit = Asked /\ Asked \in Drives /\ Channel(Asked) = io.ch /\ Real(device[Asked])
          /\ drive[Asked] \in DriveStates /\ abandoned' = abandoned
      BY <1>1, <1>3, <1>5, DataRead
    <2>2. /\ buffer' = <<[from |-> Asked, cmd |-> drive[Asked].cmd, lba |-> 0]>>
          /\ drive' = [drive EXCEPT ![Asked] = NoCommand]
      BY <1>5, <2>1 DEF Identify
    <2>3. io' = [io EXCEPT !.pc = "done", !.ret = 0]
      BY <1>1, <1>5 DEF Give
    <2>4. /\ io' \in CallStates /\ io'.pc = "done" /\ io'.f = io.f /\ io'.ch = io.ch
          /\ io'.master = io.master /\ io'.lba = io.lba /\ io'.count = io.count /\ io'.done = io.done
          /\ io'.ret = 0
      <3>1. io \in CallStates
        BY DEF AtaInv, AtaTypes
      <3>2. PICK r \in Int : r = 0
        OBVIOUS
      <3>3. io' = [io EXCEPT !.pc = "done", !.ret = r]
        BY <2>3, <3>2
      <3>4. /\ io' \in CallStates /\ io'.pc = "done" /\ io'.f = io.f /\ io'.ch = io.ch
            /\ io'.master = io.master /\ io'.lba = io.lba /\ io'.count = io.count /\ io'.done = io.done
            /\ io'.ret = r
        BY ONLY <3>1, <3>3, r \in Int DEF CallStates, CallLabels
      <3> QED
        BY <3>2, <3>4
    <2>5. buffer' \in Seq(Contents)
      BY <2>1, <2>2 DEF Contents, DriveStates
    <2>6. /\ NoCommand \in DriveStates /\ NoCommand.cmd = "none" /\ NoCommand.got = {} /\ NoCommand.st = "idle"
      BY DEF NoCommand, DriveStates, Statuses, Commands
    <2>7. drive' \in [Drives -> DriveStates] /\ drive'[Asked] = NoCommand /\ \A j \in Drives : j # Asked => drive'[j] = drive[j]
      BY <2>1, <2>2, <2>6 DEF AtaInv, AtaTypes
    <2>8. Asked' = Asked
      BY <2>4 DEF Asked
    <2>9. AtaTypes'
      BY <1>1, <2>1, <2>4, <2>5, <2>7 DEF AtaInv, AtaTypes
    <2>10. DriveInv'
      BY <1>1, <2>6, <2>7 DEF AtaInv, DriveInv, Real
    <2>11. CallInv'
      BY <1>1, <2>1, <2>4, <2>8 DEF AtaInv, CallInv, Succeeded, Real
    <2>12. OwnInv'
      <3>1. ASSUME NEW j \in Drives, Channel(j) \notin abandoned, drive'[j].cmd # "none" PROVE FALSE
        BY <1>2, <2>6, <2>7, <3>1 DEF AtaInv, OwnInv
      <3> QED
        BY <2>1, <3>1 DEF OwnInv
    <2>13. PlaceInv'
      BY <1>1, <2>1, <2>6, <2>7 DEF AtaInv, PlaceInv
    <2>14. ReadInv' /\ WriteInv'
      BY <1>1, <2>4 DEF ReadInv, WriteInv
    <2> QED
      BY <2>9, <2>10, <2>11, <2>12, <2>13, <2>14 DEF AtaInv
  <1> QED
    BY <1>4, <1>5

LEMMA DriverInv == AtaInv /\ UNCHANGED status /\ AtaDriver => AtaInv'
  BY SelectInv, SendCommandInv, FailingInv, ReadDoneInv, ReadWaitInv, ReadWordsInv, WriteDoneInv, WriteWordsInv,
     WriteCheckedInv, FlushWaitInv, IdentifyInv DEF AtaDriver, ReadLoop, WriteLoop

LEMMA DrivesInv == AtaInv /\ UNCHANGED status /\ AtaDrives => AtaInv'
  BY AnswersInv, WritesInv DEF AtaDrives

-----------------------------------------------------------------------------
(***************************************************************************)
(* A call begins, or its result is taken: nothing that can be trusted is   *)
(* left of the one before.                                                 *)
(***************************************************************************)
LEMMA BetweenCalls ==
    ASSUME AtaInv, io.pc \in {"idle", "done"}, ~Orphan
    PROVE  \A i \in Drives : Channel(i) \notin abandoned => drive[i].cmd = "none"
  BY DEF AtaInv, OwnInv, InStep

LEMMA CallBegins ==
    ASSUME AtaInv, UNCHANGED status, ~Orphan,
           NEW f \in Commands \ {"none"}, NEW i \in Drives, NEW m \in BOOLEAN, NEW lba \in Nat,
           NEW count \in 0..LBA48_COUNT, f = "write" => count > 0,
           Call(f, i, m, lba, count)
    PROVE  /\ AtaInv'
           /\ io'.pc = "select" /\ io'.f = f /\ io'.lba = lba /\ io'.count = count
           /\ Asked' = Drive(Channel(i), m)
           /\ UNCHANGED <<device, abandoned>>
  <1>1. /\ io.pc \in {"idle", "done"}
        /\ io' = [f |-> f, pc |-> "select", ch |-> Channel(i), master |-> m,
                  lba |-> lba, count |-> count, done |-> 0, ret |-> 0]
        /\ buffer' = <<>>
        /\ UNCHANGED <<device, drive, selected, media, abandoned>>
    BY DEF Call
  <1>2. \A j \in Drives : Channel(j) \notin abandoned => drive[j].cmd = "none"
    BY <1>1, BetweenCalls
  <1>3. Channel(i) \in Channels
    BY DriveNumbers
  <1>4. /\ io' \in CallStates /\ io'.pc = "select" /\ io'.f = f /\ io'.ch = Channel(i) /\ io'.master = m
        /\ io'.lba = lba /\ io'.count = count /\ io'.done = 0 /\ io'.ret = 0
    BY <1>1, <1>3 DEF CallStates, CallLabels
  <1>5. AtaTypes'
    BY <1>1, <1>4 DEF AtaInv, AtaTypes
  <1>6. DriveInv' /\ PlaceInv'
    BY <1>1 DEF AtaInv, DriveInv, PlaceInv, Real
  <1>7. CallInv'
    BY <1>1, <1>4 DEF CallInv, Succeeded, Orphan
  <1>8. OwnInv'
    BY <1>1, <1>2 DEF OwnInv
  <1>9. ReadInv' /\ WriteInv'
    BY <1>4 DEF ReadInv, WriteInv, Succeeded
  <1>10. Asked' = Drive(Channel(i), m)
    BY <1>4 DEF Asked
  <1> QED
    BY <1>1, <1>4, <1>5, <1>6, <1>7, <1>8, <1>9, <1>10 DEF AtaInv

LEMMA TakenInv ==
    ASSUME AtaInv, io.pc = "done", Taken, Orphan => status' = 19
    PROVE  AtaInv' /\ io' = NoCall /\ UNCHANGED <<device, abandoned>>
  <1>1. io' = NoCall /\ buffer' = <<>> /\ UNCHANGED <<device, drive, selected, media, abandoned>>
    BY DEF Taken
  <1>2. /\ NoCall \in CallStates /\ NoCall.pc = "idle" /\ NoCall.f = "none"
        /\ NoCall.count = 0 /\ NoCall.done = 0 /\ NoCall.ret = 0
    BY AtaAssumption DEF NoCall, CallStates, CallLabels, Commands, Channels
  <1>3. AtaTypes'
    BY <1>1, <1>2 DEF AtaInv, AtaTypes
  <1>4. DriveInv' /\ PlaceInv'
    BY <1>1 DEF AtaInv, DriveInv, PlaceInv, Real
  <1>5. CallInv'
    BY <1>1, <1>2 DEF CallInv, Succeeded
  <1>6. OwnInv'
    <2>1. ~Orphan' => ~Orphan
      BY DEF Orphan
    <2> QED
      BY <1>1, <2>1, BetweenCalls DEF OwnInv
  <1>7. ReadInv' /\ WriteInv'
    BY <1>1, <1>2 DEF ReadInv, WriteInv, Succeeded
  <1> QED
    BY <1>1, <1>3, <1>4, <1>5, <1>6, <1>7 DEF AtaInv

-----------------------------------------------------------------------------
(***************************************************************************)
(* The steps of InitSystem up to the mounted volume.                       *)
(***************************************************************************)
LEMMA MountFields ==
    MountTypes => /\ mount.pc \in Pauses \cup Mounting \cup Using /\ mount.i \in 0..4
                  /\ mount.disk \in Drives \cup {NoDisk}
                  /\ mount.part.start \in Sectors /\ mount.part.genuine \in BOOLEAN
                  /\ mount.sector \in Locals /\ mount.dbr \in Locals /\ mount.uses \in Nat
  BY DEF MountTypes, MountStates

\* Only the empty read of a table leaves an orphan.
LEMMA OrphanIsTable ==
    ASSUME MountInv, Orphan, status # 19
    PROVE  mount.pc = "table" /\ io.ret = 0
  BY DEF MountInv, WaitInv, Orphan

\* A step that only moves InitSystem to a call.
LEMMA ToFields ==
    ASSUME MountTypes, NEW label \in Pauses \cup Mounting \cup Using, To(label)
    PROVE  /\ mount' \in MountStates /\ mount'.pc = label /\ mount'.i = mount.i /\ mount'.disk = mount.disk
           /\ mount'.part = mount.part /\ mount'.sector = mount.sector /\ mount'.dbr = mount.dbr
           /\ mount'.uses = mount.uses
  <1>1. mount \in MountStates /\ mount' = [mount EXCEPT !.pc = label]
    BY DEF MountTypes, To
  <1> QED
    BY ONLY <1>1, label \in Pauses \cup Mounting \cup Using DEF MountStates

\* InitFileSystem returns with an error.
LEMMA MountFails ==
    ASSUME MountInv, NEW s \in Int, s \notin {0, Pending}, InitFileSystem(s), io' = NoCall,
           UNCHANGED <<device, abandoned, present>>
    PROVE  MountInv'
  <1>1. mount \in MountStates /\ mount' = [mount EXCEPT !.pc = "mounted", !.sector = Junk] /\ status' = s
    BY DEF MountInv, MountTypes, InitFileSystem
  <1>2. Junk \in Locals
    BY DEF Junk, Locals, Commands
  <1>3. /\ mount' \in MountStates /\ mount'.pc = "mounted" /\ mount'.i = mount.i /\ mount'.disk = mount.disk
        /\ mount'.part = mount.part /\ mount'.dbr = mount.dbr /\ mount'.uses = mount.uses
    BY ONLY <1>1, <1>2 DEF MountStates, Pauses, Mounting, Using
  <1>4. io'.pc = "idle" /\ io'.f = "none"
    BY DEF NoCall
  <1>5. MountTypes'
    BY <1>1, <1>3 DEF MountInv, MountTypes
  <1>6. WaitInv'
    BY <1>1, <1>3, <1>4 DEF WaitInv, Pauses, Mounting, Using
  <1>7. FoundInv'
    BY <1>1, <1>3 DEF MountInv, FoundInv
  <1> QED
    BY <1>5, <1>6, <1>7 DEF MountInv

\* Nothing of the driver or the drives changes.
LEMMA AtaStays == AtaInv /\ UNCHANGED <<ataVars, status>> => AtaInv'
  BY DEF ataVars, AtaInv, AtaTypes, DriveInv, CallInv, OwnInv, PlaceInv, ReadInv, WriteInv, Orphan, InStep,
         Asked, Trusted, Succeeded, Stored, Real

LEMMA ScanBusInv == AtaInv /\ MountInv /\ ScanBus => AtaInv' /\ MountInv'
  <1> SUFFICES ASSUME AtaInv, MountInv, ScanBus PROVE AtaInv' /\ MountInv'
    OBVIOUS
  <1>1. /\ mount.pc = "pci" /\ io.pc = "idle" /\ UNCHANGED <<ataVars, present, status>>
        /\ To("scan") \/ To("find")
    BY DEF ScanBus, InMount
  <1>2. PICK l \in {"scan", "find"} : To(l)
    BY <1>1
  <1>3. /\ mount' \in MountStates /\ mount'.pc = l /\ mount'.i = mount.i /\ mount'.disk = mount.disk
        /\ mount'.part = mount.part /\ mount'.sector = mount.sector /\ mount'.dbr = mount.dbr
        /\ mount'.uses = mount.uses
    BY <1>2, ToFields DEF MountInv, Pauses
  <1>4. AtaInv'
    BY <1>1, AtaStays
  <1>5. MountTypes'
    BY <1>1, <1>3 DEF MountInv, MountTypes
  <1>6. WaitInv'
    BY <1>1, <1>3 DEF MountInv, WaitInv, Pauses, Mounting, Using, ataVars, Asked
  <1>7. FoundInv'
    BY <1>1, <1>3 DEF MountInv, FoundInv, ataVars, Real, WaitInv, Mounting, Pending
  <1> QED
    BY <1>4, <1>5, <1>6, <1>7 DEF MountInv

LEMMA ScanNextInv == AtaInv /\ MountInv /\ ScanNext => AtaInv' /\ MountInv'
  <1> SUFFICES ASSUME AtaInv, MountInv, ScanNext PROVE AtaInv' /\ MountInv'
    OBVIOUS
  <1>1. mount.pc = "scan" /\ io.pc = "idle" /\ UNCHANGED <<present, status>> /\ status = Pending
    BY DEF ScanNext, InMount, MountInv, WaitInv, Mounting
  <1>2. CASE mount.i = 4
    <2>1. To("find") /\ UNCHANGED ataVars
      BY <1>2 DEF ScanNext
    <2>2. /\ mount' \in MountStates /\ mount'.pc = "find" /\ mount'.i = mount.i /\ mount'.disk = mount.disk
          /\ mount'.part = mount.part /\ mount'.sector = mount.sector /\ mount'.dbr = mount.dbr
      BY <2>1, ToFields DEF MountInv, Pauses
    <2>3. AtaInv'
      BY <1>1, <2>1, AtaStays
    <2>4. MountTypes'
      BY <1>1, <2>2 DEF MountInv, MountTypes
    <2>5. WaitInv'
      BY <1>1, <2>1, <2>2 DEF MountInv, WaitInv, Pauses, Mounting, Using, ataVars, Asked
    <2>6. FoundInv'
      BY <1>1, <2>1, <2>2 DEF MountInv, FoundInv, ataVars, Real, Pending
    <2> QED
      BY <2>3, <2>4, <2>5, <2>6 DEF MountInv
  <1>3. CASE mount.i # 4
    <2>1. To("scanned") /\ Call("identify", mount.i, IsMaster(mount.i), 0, 1)
      BY <1>3 DEF ScanNext
    <2>2. /\ mount' \in MountStates /\ mount'.pc = "scanned" /\ mount'.i = mount.i /\ mount'.disk = mount.disk
          /\ mount'.part = mount.part /\ mount'.sector = mount.sector /\ mount'.dbr = mount.dbr
      BY <2>1, ToFields DEF MountInv, Mounting
    <2>3. mount.i \in Drives /\ ~Orphan /\ IsMaster(mount.i) \in BOOLEAN /\ 1 \in 0..LBA48_COUNT
      BY <1>1, <1>3, MountFields, AtaAssumption DEF MountInv, Drives, Orphan, Pending, IsMaster
    <2>4. /\ AtaInv' /\ io'.pc = "select" /\ io'.f = "identify" /\ io'.count = 1
          /\ Asked' = mount.i /\ UNCHANGED <<device, abandoned>>
      BY <1>1, <2>1, <2>3, CallBegins, DriveNumbers DEF Commands
    <2>5. MountTypes'
      BY <1>1, <2>2 DEF MountInv, MountTypes
    <2>6. WaitInv'
      BY <1>1, <2>2, <2>3, <2>4 DEF MountInv, WaitInv, Pauses, Mounting, Using, Pending
    <2>7. FoundInv'
      BY <1>1, <2>2, <2>4 DEF MountInv, FoundInv, Real, Pending
    <2> QED
      BY <2>4, <2>5, <2>6, <2>7 DEF MountInv
  <1> QED
    BY <1>2, <1>3

LEMMA ScannedInv == AtaInv /\ MountInv /\ Scanned => AtaInv' /\ MountInv'
  <1> SUFFICES ASSUME AtaInv, MountInv, Scanned PROVE AtaInv' /\ MountInv'
    OBVIOUS
  <1>1. /\ mount.pc = "scanned" /\ io.pc = "done" /\ Taken /\ UNCHANGED status
        /\ present' = [present EXCEPT ![mount.i] = io.ret \in {0, -3}]
        /\ mount' = [mount EXCEPT !.pc = "scan", !.i = mount.i + 1]
    BY DEF Scanned, Returned
  <1>2. status = Pending /\ io.f = "identify" /\ mount.i \in Drives /\ Asked = mount.i /\ ~Orphan
    BY <1>1, OrphanIsTable DEF MountInv, WaitInv, Mounting, Pending
  <1>3. AtaInv' /\ io' = NoCall /\ UNCHANGED <<device, abandoned>>
    BY <1>1, <1>2, TakenInv
  <1>4. mount \in MountStates /\ mount.i + 1 \in 0..4
    BY <1>2 DEF MountInv, MountTypes, Drives
  <1>5. /\ mount' \in MountStates /\ mount'.pc = "scan" /\ mount'.disk = mount.disk
        /\ mount'.part = mount.part /\ mount'.sector = mount.sector /\ mount'.dbr = mount.dbr
    BY ONLY <1>1, <1>4 DEF MountStates, Pauses, Mounting, Using
  <1>6. present' \in [Drives -> BOOLEAN] /\ \A i \in Drives : present'[i] => Real(device[i])
    <2>1. io.ret \in {0, -3} => Real(device[Asked])
      BY <1>1, <1>2 DEF AtaInv, CallInv
    <2>2. (io.ret \in {0, -3}) \in BOOLEAN
      OBVIOUS
    <2>3. present \in [Drives -> BOOLEAN] /\ \A i \in Drives : present[i] => Real(device[i])
      BY DEF MountInv, MountTypes, FoundInv
    <2> QED
      BY <1>1, <1>2, <2>1, <2>2, <2>3
  <1>7. io'.pc = "idle" /\ io'.f = "none"
    BY <1>3 DEF NoCall
  <1>8. MountTypes'
    BY <1>1, <1>5, <1>6 DEF MountInv, MountTypes
  <1>9. WaitInv'
    BY <1>1, <1>2, <1>5, <1>7 DEF MountInv, WaitInv, Pauses, Mounting, Using, Pending
  <1>10. FoundInv'
    BY <1>1, <1>2, <1>3, <1>5, <1>6 DEF MountInv, FoundInv, Real, Pending
  <1> QED
    BY <1>3, <1>8, <1>9, <1>10 DEF MountInv

\* The first drive found is the smallest one.
LEMMA FirstDisk ==
    ASSUME MountTypes
    PROVE  \/ FindFirstATADisk = NoDisk /\ \A i \in Drives : ~present[i]
           \/ FindFirstATADisk \in Drives /\ present[FindFirstATADisk]
  <1> DEFINE S == {i \in Drives : present[i]}
  <1>1. CASE S = {}
    BY <1>1 DEF FindFirstATADisk
  <1>2. CASE S # {}
    <2>1. \E i \in S : \A j \in S : i <= j
      BY <1>2, Smallest DEF Drives
    <2>2. \E i \in Drives : present[i] /\ \A j \in Drives : present[j] => i <= j
      BY <2>1
    <2>3. \E i \in Drives : present[i]
      BY <1>2
    <2> QED
      BY <2>2, <2>3 DEF FindFirstATADisk
  <1> QED
    BY <1>1, <1>2

LEMMA FindDiskInv == AtaInv /\ MountInv /\ FindDisk => AtaInv' /\ MountInv'
  <1> SUFFICES ASSUME AtaInv, MountInv, FindDisk PROVE AtaInv' /\ MountInv'
    OBVIOUS
  <1> DEFINE first == FindFirstATADisk
  <1>1. mount.pc = "find" /\ io.pc = "idle" /\ UNCHANGED present /\ status = Pending
    BY DEF FindDisk, InMount, MountInv, WaitInv, Mounting
  <1>2. ~Orphan
    BY <1>1 DEF Orphan, Pending
  <1>3. CASE first = NoDisk
    <2>1. InitFileSystem(1) /\ UNCHANGED ataVars /\ io' = NoCall
      BY <1>1, <1>3 DEF FindDisk, AtaInv, CallInv, ataVars
    <2>2. AtaInv'
      <3>1. status' = 1
        BY <2>1 DEF InitFileSystem
      <3>2. Orphan' <=> Orphan
        BY <1>1, <2>1, <3>1 DEF Orphan, ataVars, Pending
      <3>3. OwnInv'
        BY <2>1, <3>2 DEF AtaInv, OwnInv, InStep, ataVars, Asked
      <3> QED
        BY <1>1, <2>1, <3>1, <3>3 DEF ataVars, AtaInv, AtaTypes, DriveInv, CallInv, PlaceInv, ReadInv, WriteInv,
                         Asked, Trusted, Succeeded, Stored, Real
    <2>3. MountInv'
      BY <1>1, <2>1, MountFails DEF ataVars, Pending
    <2> QED
      BY <2>2, <2>3
  <1>4. CASE first # NoDisk
    <2>1. /\ mount' = [mount EXCEPT !.pc = "mbr", !.disk = first]
          /\ Call("read", first, IsMaster(first), 0, 1)
          /\ UNCHANGED status
      BY <1>4 DEF FindDisk
    <2>2. first \in Drives
      BY <1>4, FirstDisk DEF MountInv
    <2>3. mount \in MountStates
      BY DEF MountInv, MountTypes
    <2> HIDE DEF first
    <2>4. /\ mount' \in MountStates /\ mount'.pc = "mbr" /\ mount'.i = mount.i /\ mount'.disk = first
          /\ mount'.part = mount.part /\ mount'.sector = mount.sector /\ mount'.dbr = mount.dbr
      BY ONLY <2>1, <2>2, <2>3 DEF MountStates, Pauses, Mounting, Using
    <2>5. /\ AtaInv' /\ io'.pc = "select" /\ io'.f = "read" /\ io'.count = 1
          /\ Asked' = first /\ UNCHANGED <<device, abandoned>>
      <3>1. IsMaster(first) \in BOOLEAN /\ 1 \in 0..LBA48_COUNT
        BY AtaAssumption DEF IsMaster
      <3> QED
        BY <1>2, <2>1, <2>2, <3>1, CallBegins, DriveNumbers DEF Commands
    <2>6. MountTypes'
      BY <1>1, <2>1, <2>4 DEF MountInv, MountTypes
    <2>7. WaitInv'
      BY <1>1, <2>1, <2>2, <2>4, <2>5 DEF MountInv, WaitInv, Pauses, Mounting, Using, Pending
    <2>8. FoundInv'
      BY <1>1, <2>1, <2>4, <2>5 DEF MountInv, FoundInv, Real, Pending
    <2> QED
      BY <2>5, <2>6, <2>7, <2>8 DEF MountInv
  <1> QED
    BY <1>3, <1>4

\* What a read that returned a positive number left in the buffer.
LEMMA BufferRead ==
    ASSUME AtaInv, io.pc = "done", io.f = "read", io.ret > 0
    PROVE  /\ io.count = io.ret /\ buffer[1] \in Contents /\ buffer[1] \in Locals
           /\ io.ch \notin abandoned => buffer[1] = [from |-> Asked, cmd |-> "read", lba |-> io.lba]
  <1>1. io.ret \in Int /\ io.lba \in Nat /\ io.done \in Nat
    BY CallTypes DEF AtaInv
  <1>2. Succeeded("read") /\ io.ret = io.count /\ io.done = io.count /\ Len(buffer) = io.done
    BY <1>1 DEF AtaInv, CallInv, Succeeded
  <1>3. buffer[1] \in Contents
    BY <1>1, <1>2 DEF AtaInv, AtaTypes
  <1>4. 1 \in 1..io.done /\ io.lba + 1 - 1 = io.lba
    BY <1>1, <1>2
  <1>5. io.ch \notin abandoned => buffer[1] = [from |-> Asked, cmd |-> "read", lba |-> io.lba]
    BY <1>2, <1>4 DEF AtaInv, ReadInv, Trusted
  <1> QED
    BY <1>2, <1>3, <1>5 DEF Contents, Locals

LEMMA CheckMBRInv == AtaInv /\ MountInv /\ CheckMBR => AtaInv' /\ MountInv'
  <1> SUFFICES ASSUME AtaInv, MountInv, CheckMBR PROVE AtaInv' /\ MountInv'
    OBVIOUS
  <1>1. mount.pc = "mbr" /\ io.pc = "done" /\ UNCHANGED present /\ status = Pending
    BY DEF CheckMBR, Returned, MountInv, WaitInv, Mounting
  <1>2. ~Orphan /\ io.f = "read" /\ mount.disk \in Drives
    BY <1>1, OrphanIsTable DEF MountInv, WaitInv, Pending
  <1>3. \/ /\ mount' = [mount EXCEPT !.pc = "header", !.sector = Refilled]
           /\ DiskRead(1, 1) /\ UNCHANGED status
        \/ InitFileSystem(22) /\ Taken
    BY DEF CheckMBR
  <1>4. CASE InitFileSystem(22) /\ Taken
    BY <1>1, <1>2, <1>4, TakenInv, MountFails DEF Pending
  <1>5. CASE mount' = [mount EXCEPT !.pc = "header", !.sector = Refilled] /\ DiskRead(1, 1) /\ UNCHANGED status
    <2>1. Refilled \in Locals /\ mount \in MountStates
      BY <1>1, <1>2, BufferRead, MountFields DEF Refilled, MountInv, MountTypes
    <2>2. /\ mount' \in MountStates /\ mount'.pc = "header" /\ mount'.i = mount.i /\ mount'.disk = mount.disk
          /\ mount'.part = mount.part /\ mount'.dbr = mount.dbr
      BY ONLY <1>5, <2>1 DEF MountStates, Pauses, Mounting, Using
    <2>3. /\ AtaInv' /\ io'.pc = "select" /\ io'.f = "read" /\ io'.count = 1
          /\ Asked' = mount.disk /\ UNCHANGED <<device, abandoned>>
      <3>1. IsMaster(mount.disk) \in BOOLEAN /\ 1 \in 0..LBA48_COUNT
        BY AtaAssumption DEF IsMaster
      <3> QED
        BY <1>2, <1>5, <3>1, CallBegins, DriveNumbers DEF Commands, DiskRead
    <2>4. MountTypes'
      BY <1>1, <1>5, <2>2 DEF MountInv, MountTypes
    <2>5. WaitInv'
      BY <1>1, <1>2, <1>5, <2>2, <2>3 DEF MountInv, WaitInv, Pauses, Mounting, Using, Pending
    <2>6. FoundInv'
      BY <1>1, <1>5, <2>2, <2>3 DEF MountInv, FoundInv, Real, Pending
    <2> QED
      BY <2>3, <2>4, <2>5, <2>6 DEF MountInv
  <1> QED
    BY <1>3, <1>4, <1>5

LEMMA CheckHeaderInv == AtaInv /\ MountInv /\ CheckHeader => AtaInv' /\ MountInv'
  <1> SUFFICES ASSUME AtaInv, MountInv, CheckHeader PROVE AtaInv' /\ MountInv'
    OBVIOUS
  <1>1. mount.pc = "header" /\ io.pc = "done" /\ UNCHANGED present /\ status = Pending
    BY DEF CheckHeader, Returned, MountInv, WaitInv, Mounting
  <1>2. ~Orphan /\ io.f = "read" /\ mount.disk \in Drives
    BY <1>1, OrphanIsTable DEF MountInv, WaitInv, Pending
  <1>3. \/ \E s \in {18, 23} : InitFileSystem(s) /\ Taken
        \/ \E n \in TableOf(Refilled) : To("table") /\ DiskRead(2, n) /\ UNCHANGED status
    BY DEF CheckHeader
  <1>4. ASSUME NEW s \in {18, 23}, InitFileSystem(s), Taken PROVE AtaInv' /\ MountInv'
    BY <1>1, <1>2, <1>4, TakenInv, MountFails DEF Pending
  <1>5. ASSUME NEW n \in TableOf(Refilled), To("table"), DiskRead(2, n), UNCHANGED status
        PROVE  AtaInv' /\ MountInv'
    <2>1. n \in 0..LBA48_COUNT
      BY AtaAssumption, MountAssumption DEF TableOf, IsRead
    <2>2. /\ mount' \in MountStates /\ mount'.pc = "table" /\ mount'.i = mount.i /\ mount'.disk = mount.disk
          /\ mount'.part = mount.part /\ mount'.dbr = mount.dbr
      BY <1>5, ToFields DEF MountInv, Mounting
    <2>3. /\ AtaInv' /\ io'.pc = "select" /\ io'.f = "read"
          /\ Asked' = mount.disk /\ UNCHANGED <<device, abandoned>>
      <3>1. IsMaster(mount.disk) \in BOOLEAN
        BY DEF IsMaster
      <3> QED
        BY <1>2, <1>5, <2>1, <3>1, CallBegins, DriveNumbers DEF Commands, DiskRead
    <2>4. MountTypes'
      BY <1>1, <1>5, <2>2 DEF MountInv, MountTypes
    <2>5. WaitInv'
      BY <1>1, <1>2, <1>5, <2>2, <2>3 DEF MountInv, WaitInv, Pauses, Mounting, Using, Pending
    <2>6. FoundInv'
      BY <1>1, <1>5, <2>2, <2>3 DEF MountInv, FoundInv, Real, Pending
    <2> QED
      BY <2>3, <2>4, <2>5, <2>6 DEF MountInv
  <1> QED
    BY <1>3, <1>4, <1>5

\* A partition taken from a table that was read is the one of the disk that was asked, if
\* no drive was given up.
LEMMA EntryRead ==
    ASSUME AtaInv, MountInv, io.pc = "done", mount.pc = "table", io.ret # 0,
           NEW e \in Entry, e.start # NoEsp
    PROVE  /\ e \in [start : Sectors, genuine : BOOLEAN]
           /\ e.genuine /\ abandoned = {} =>
                /\ device[mount.disk] \in Disks
                /\ e.start = EspAt[device[mount.disk]]
  <1>1. io.f = "read" /\ Asked = mount.disk /\ mount.disk \in Drives /\ io.ret \in Int
    BY CallTypes DEF MountInv, WaitInv, AtaInv
  <1>2. CASE io.ret > 0
    <2>1. /\ buffer[1] \in Contents
          /\ io.ch \notin abandoned => buffer[1] = [from |-> Asked, cmd |-> "read", lba |-> io.lba]
      BY <1>1, <1>2, BufferRead
    <2>2. e = [start |-> IF IsRead(buffer[1]) THEN EspAt[device[buffer[1].from]] ELSE NoEsp, genuine |-> TRUE]
      BY <1>2 DEF Entry
    <2>3. IsRead(buffer[1]) /\ e.start = EspAt[device[buffer[1].from]] /\ e.genuine = TRUE
      BY <2>2
    <2>4. device[buffer[1].from] \in Disks
      BY <2>3 DEF IsRead
    <2>5. e.start \in Sectors
      BY <2>3, <2>4, MountAssumption
    <2>6. e \in [start : Sectors, genuine : BOOLEAN]
      BY <2>2, <2>3, <2>5
    <2>7. abandoned = {} => buffer[1].from = mount.disk
      BY <1>1, <2>1
    <2> QED
      BY <2>3, <2>4, <2>6, <2>7
  <1>3. CASE ~(io.ret > 0)
    <2>1. PICK s \in Sectors \cup {NoEsp} : e = [start |-> s, genuine |-> FALSE]
      BY <1>3 DEF Entry
    <2> QED
      BY <2>1
  <1> QED
    BY <1>2, <1>3

LEMMA SectorNumbers == /\ Sectors \subseteq Nat /\ NoEsp \notin Sectors
                       /\ \A l \in Sectors, k \in Nat : l + k \in Nat
  BY AtaAssumption DEF Sectors, NoEsp

\* The read of one sector with is_master true.
LEMMA InfoReadBegins ==
    ASSUME AtaInv, UNCHANGED status, ~Orphan, mount.disk \in Drives, NEW lba \in Nat, InfoRead(lba)
    PROVE  /\ AtaInv' /\ io'.pc = "select" /\ io'.f = "read" /\ io'.count = 1 /\ io'.lba = lba
           /\ Asked' = Drive(Channel(mount.disk), TRUE) /\ UNCHANGED <<device, abandoned>>
  <1>1. PICK m \in BOOLEAN : m = TRUE
    OBVIOUS
  <1>2. PICK count \in 0..LBA48_COUNT : count = 1
    BY AtaAssumption
  <1>3. PICK f \in Commands \ {"none"} : f = "read"
    BY DEF Commands
  <1>4. Call(f, mount.disk, m, lba, count)
    BY <1>1, <1>2, <1>3 DEF InfoRead
  <1>5. /\ AtaInv' /\ io'.pc = "select" /\ io'.f = f /\ io'.lba = lba /\ io'.count = count
        /\ Asked' = Drive(Channel(mount.disk), m) /\ UNCHANGED <<device, abandoned>>
    BY <1>3, <1>4, CallBegins
  <1> QED
    BY <1>1, <1>2, <1>3, <1>5

LEMMA FindEntryInv == AtaInv /\ MountInv /\ FindEntry => AtaInv' /\ MountInv'
  <1> SUFFICES ASSUME AtaInv, MountInv, FindEntry PROVE AtaInv' /\ MountInv'
    OBVIOUS
  <1>1. mount.pc = "table" /\ io.pc = "done" /\ UNCHANGED present /\ status = Pending
    <2>1. Returned("table") /\ UNCHANGED present
      BY Zenon DEF FindEntry
    <2> QED
      BY <2>1 DEF Returned, MountInv, WaitInv, Mounting
  <1>2. io.f = "read" /\ mount.disk \in Drives /\ (Orphan => io.ret = 0)
    BY <1>1, OrphanIsTable DEF MountInv, WaitInv, Pending
  <1>3. \/ io.ret = 0 /\ InitFileSystem(19) /\ Taken
        \/ io.ret # 0 /\ InitFileSystem(24) /\ Taken
        \/ io.ret # 0 /\ \E e \in Entry : /\ e.start # NoEsp
                                          /\ mount' = [mount EXCEPT !.pc = "dbr", !.part = e]
                                          /\ InfoRead(e.start) /\ UNCHANGED status
    <2>1. IF io.ret = 0 THEN InitFileSystem(19) /\ Taken
          ELSE \E e \in Entry : IF e.start = NoEsp THEN InitFileSystem(24) /\ Taken
                               ELSE /\ mount' = [mount EXCEPT !.pc = "dbr", !.part = e]
                                    /\ InfoRead(e.start) /\ UNCHANGED status
      BY Zenon DEF FindEntry
    <2>2. CASE io.ret = 0
      BY <2>1, <2>2, Zenon
    <2>3. CASE io.ret # 0
      <3>1. PICK e \in Entry : IF e.start = NoEsp THEN InitFileSystem(24) /\ Taken
                               ELSE /\ mount' = [mount EXCEPT !.pc = "dbr", !.part = e]
                                    /\ InfoRead(e.start) /\ UNCHANGED status
        BY <2>1, <2>3, Zenon
      <3> QED
        BY <2>3, <3>1, Zenon
    <2> QED
      BY <2>2, <2>3, Zenon
  <1>4. ASSUME NEW s \in {19, 24}, s = 24 => ~Orphan, InitFileSystem(s), Taken PROVE AtaInv' /\ MountInv'
    <2>1. status' = s
      BY <1>4 DEF InitFileSystem
    <2>2. AtaInv' /\ io' = NoCall /\ UNCHANGED <<device, abandoned>>
      BY <1>1, <1>4, <2>1, TakenInv
    <2> QED
      BY <1>1, <1>4, <2>2, MountFails DEF Pending
  <1>5. ASSUME NEW e \in Entry, io.ret # 0, e.start # NoEsp, InfoRead(e.start), UNCHANGED status,
               mount' = [mount EXCEPT !.pc = "dbr", !.part = e]
        PROVE  AtaInv' /\ MountInv'
    <2>1. /\ e \in [start : Sectors, genuine : BOOLEAN]
          /\ e.genuine /\ abandoned = {} =>
                device[mount.disk] \in Disks /\ e.start = EspAt[device[mount.disk]]
      BY <1>1, <1>5, EntryRead
    <2>2. mount \in MountStates
      BY DEF MountInv, MountTypes
    <2>3. /\ mount' \in MountStates /\ mount'.pc = "dbr" /\ mount'.i = mount.i /\ mount'.disk = mount.disk
          /\ mount'.part = e /\ mount'.dbr = mount.dbr
      BY ONLY <1>5, <2>1, <2>2 DEF MountStates, Pauses, Mounting, Using
    <2>4. /\ AtaInv' /\ io'.pc = "select" /\ io'.f = "read" /\ io'.count = 1 /\ io'.lba = e.start
          /\ Asked' = Drive(Channel(mount.disk), TRUE) /\ UNCHANGED <<device, abandoned>>
      <3>1. e.start \in Sectors
        BY <2>1
      <3>2. e.start \in Nat
        BY <3>1, SectorNumbers
      <3> QED
        BY <1>2, <1>5, <3>2, InfoReadBegins
    <2>5. MountTypes'
      BY <1>1, <1>5, <2>3 DEF MountInv, MountTypes
    <2>6. WaitInv'
      BY <1>1, <1>2, <1>5, <2>3, <2>4 DEF MountInv, WaitInv, Pauses, Mounting, Using, Pending
    <2>7. FoundInv'
      BY <1>1, <1>2, <1>5, <2>1, <2>3, <2>4 DEF MountInv, FoundInv, Real, Pending
    <2> QED
      BY <2>4, <2>5, <2>6, <2>7 DEF MountInv
  <1>6. CASE io.ret = 0 /\ InitFileSystem(19) /\ Taken
    BY <1>4, <1>6
  <1>7. CASE io.ret # 0 /\ InitFileSystem(24) /\ Taken
    BY <1>2, <1>4, <1>7
  <1> QED
    BY <1>3, <1>5, <1>6, <1>7, Zenon

LEMMA CheckDBRInv == AtaInv /\ MountInv /\ CheckDBR => AtaInv' /\ MountInv'
  <1> SUFFICES ASSUME AtaInv, MountInv, CheckDBR PROVE AtaInv' /\ MountInv'
    OBVIOUS
  <1>1. mount.pc = "dbr" /\ io.pc = "done" /\ UNCHANGED present /\ status = Pending
    BY DEF CheckDBR, Returned, MountInv, WaitInv, Mounting
  <1>2. /\ io.f = "read" /\ mount.disk \in Drives /\ ~Orphan /\ io.count # 0 /\ io.lba = mount.part.start
        /\ Asked = Drive(Channel(mount.disk), TRUE)
    BY <1>1, OrphanIsTable DEF MountInv, WaitInv, Pending
  <1>3. \/ InitFileSystem(31) /\ Taken
        \/ /\ ~(io.ret < 0) /\ check_DBR(buffer[1])
           /\ mount' = [mount EXCEPT !.pc = "fsinfo", !.dbr = buffer[1]]
           /\ InfoRead(mount.part.start + 1) /\ UNCHANGED status
    BY DEF CheckDBR
  <1>4. CASE InitFileSystem(31) /\ Taken
    BY <1>1, <1>2, <1>4, TakenInv, MountFails DEF Pending
  <1>5. CASE /\ ~(io.ret < 0) /\ check_DBR(buffer[1])
             /\ mount' = [mount EXCEPT !.pc = "fsinfo", !.dbr = buffer[1]]
             /\ InfoRead(mount.part.start + 1) /\ UNCHANGED status
    <2>1. io.ret > 0
      <3>1. io.ret \in Int /\ io.count \in Nat
        BY CallTypes DEF AtaInv
      <3> QED
        BY <1>1, <1>2, <1>5, <3>1 DEF AtaInv, CallInv, Succeeded
    <2>2. /\ buffer[1] \in Locals
          /\ io.ch \notin abandoned => buffer[1] = [from |-> Asked, cmd |-> "read", lba |-> io.lba]
      BY <1>1, <1>2, <2>1, BufferRead
    <2>3. mount \in MountStates /\ mount.part.start + 1 \in Nat /\ 1 \in 0..LBA48_COUNT
      BY MountFields, SectorNumbers, AtaAssumption DEF MountInv, MountTypes
    <2>4. /\ mount' \in MountStates /\ mount'.pc = "fsinfo" /\ mount'.i = mount.i /\ mount'.disk = mount.disk
          /\ mount'.part = mount.part /\ mount'.dbr = buffer[1]
      BY ONLY <1>5, <2>2, <2>3 DEF MountStates, Pauses, Mounting, Using
    <2>5. /\ AtaInv' /\ io'.pc = "select" /\ io'.f = "read" /\ io'.count = 1
          /\ Asked' = Drive(Channel(mount.disk), TRUE) /\ UNCHANGED <<device, abandoned>>
      BY <1>2, <1>5, <2>3, InfoReadBegins
    <2>6. MountTypes'
      BY <1>1, <1>5, <2>4 DEF MountInv, MountTypes
    <2>7. WaitInv'
      BY <1>1, <1>2, <1>5, <2>4, <2>5 DEF MountInv, WaitInv, Pauses, Mounting, Using, Pending
    <2>8. abandoned = {} /\ IsMaster(mount.disk) =>
            /\ buffer[1] = [from |-> mount.disk, cmd |-> "read", lba |-> mount.part.start]
            /\ device[mount.disk] \in Volumes
      <3>1. IsMaster(mount.disk) => Asked = mount.disk
        BY <1>2, DriveNumbers
      <3>2. device[buffer[1].from] \in Volumes
        BY <1>5 DEF check_DBR
      <3>3. abandoned = {} => buffer[1] = [from |-> Asked, cmd |-> "read", lba |-> mount.part.start]
        BY <1>2, <2>2
      <3>4. [from |-> Asked, cmd |-> "read", lba |-> mount.part.start].from = Asked
        OBVIOUS
      <3> QED
        BY <3>1, <3>2, <3>3, <3>4, Zenon
    <2>9. FoundInv'
      BY <1>1, <1>2, <1>5, <2>4, <2>5, <2>8 DEF MountInv, FoundInv, Real, Pending
    <2> QED
      BY <2>5, <2>6, <2>7, <2>9 DEF MountInv
  <1> QED
    BY <1>3, <1>4, <1>5

LEMMA MountedInv == AtaInv /\ MountInv /\ Mounted => AtaInv' /\ MountInv'
  <1> SUFFICES ASSUME AtaInv, MountInv, Mounted PROVE AtaInv' /\ MountInv'
    OBVIOUS
  <1>1. mount.pc = "fsinfo" /\ io.pc = "done" /\ UNCHANGED present /\ status = Pending /\ Taken
        /\ mount' = [mount EXCEPT !.pc = "mounted", !.sector = Junk] /\ status' = 0
    BY DEF Mounted, Returned, MountInv, WaitInv, Mounting, InitFileSystem
  <1>2. ~Orphan /\ mount.disk \in Drives
    BY <1>1, OrphanIsTable DEF MountInv, WaitInv, Pending
  <1>3. AtaInv' /\ io' = NoCall /\ UNCHANGED <<device, abandoned>>
    BY <1>1, <1>2, TakenInv
  <1>4. Junk \in Locals /\ mount \in MountStates
    BY DEF Junk, Locals, Commands, MountInv, MountTypes
  <1>5. /\ mount' \in MountStates /\ mount'.pc = "mounted" /\ mount'.i = mount.i /\ mount'.disk = mount.disk
        /\ mount'.part = mount.part /\ mount'.dbr = mount.dbr
    BY ONLY <1>1, <1>4 DEF MountStates, Pauses, Mounting, Using
  <1>6. io'.pc = "idle" /\ io'.f = "none"
    BY <1>3 DEF NoCall
  <1>7. MountTypes'
    BY <1>1, <1>5 DEF MountInv, MountTypes
  <1>8. WaitInv'
    BY <1>1, <1>2, <1>5, <1>6 DEF WaitInv, Pauses, Mounting, Using, Pending
  <1>9. FoundInv'
    BY <1>1, <1>3, <1>5 DEF MountInv, FoundInv, Real
  <1> QED
    BY <1>3, <1>7, <1>8, <1>9 DEF MountInv

LEMMA MountStepInv == AtaInv /\ MountInv /\ MountStep => AtaInv' /\ MountInv'
  BY ScanBusInv, ScanNextInv, ScannedInv, FindDiskInv, CheckMBRInv, CheckHeaderInv, FindEntryInv, CheckDBRInv,
     MountedInv DEF MountStep

-----------------------------------------------------------------------------
(***************************************************************************)
(* The use of the volume.                                                  *)
(***************************************************************************)
LEMMA UseCall ==
    ASSUME AtaInv, MountInv, ~Orphan, status = 0, UNCHANGED <<present, status>>,
           NEW label \in Using, To(label), NEW f \in Commands \ {"none"}, NEW m \in BOOLEAN, NEW lba \in Nat,
           NEW count \in 0..LBA48_COUNT, count > 0, Call(f, mount.disk, m, lba, count)
    PROVE  AtaInv' /\ MountInv'
  <1>1. mount.disk \in Drives
    BY DEF MountInv, WaitInv
  <1>2. /\ AtaInv' /\ io'.pc = "select" /\ io'.f = f /\ io'.count = count
        /\ UNCHANGED <<device, abandoned>>
    BY <1>1, CallBegins
  <1>3. /\ mount' \in MountStates /\ mount'.pc = label /\ mount'.i = mount.i /\ mount'.disk = mount.disk
        /\ mount'.part = mount.part /\ mount'.sector = mount.sector /\ mount'.dbr = mount.dbr
    BY ToFields DEF MountInv
  <1>4. MountTypes'
    BY <1>3 DEF MountInv, MountTypes
  <1>5. WaitInv'
    <2>1. count # 0
      BY AtaAssumption
    <2>2. label \notin Pauses /\ label \notin Mounting /\ 0 # Pending
      BY DEF Using, Pauses, Mounting, Pending
    <2> QED
      BY <1>1, <1>2, <1>3, <2>1, <2>2 DEF WaitInv, Mounting
  <1>6. FoundInv'
    BY <1>2, <1>3 DEF MountInv, FoundInv, Real, Using
  <1> QED
    BY <1>2, <1>4, <1>5, <1>6 DEF MountInv

LEMMA UseNumbers ==
    ASSUME MountInv
    PROVE  /\ FatLba \in Nat /\ DataLba \in Nat /\ 0 \in Nat
           /\ 1 \in 0..LBA48_COUNT /\ sectors_per_cluster \in 0..LBA48_COUNT /\ sectors_per_cluster > 0
           /\ TRUE \in BOOLEAN /\ IsMaster(mount.disk) \in BOOLEAN
           /\ {"read", "write", "flush"} \subseteq Commands \ {"none"}
  <1>1. mount.part.start \in Sectors
    BY MountFields DEF MountInv
  <1>2. FatLba \in Nat /\ DataLba \in Nat
    BY <1>1, SectorNumbers DEF FatLba, DataLba
  <1>3. 1 \in 0..LBA48_COUNT /\ sectors_per_cluster \in 0..LBA48_COUNT /\ sectors_per_cluster > 0
    BY AtaAssumption, MountAssumption
  <1> QED
    BY <1>2, <1>3 DEF IsMaster, Commands

LEMMA BeginUseInv == AtaInv /\ MountInv /\ BeginUse => AtaInv' /\ MountInv'
  <1> SUFFICES ASSUME AtaInv, MountInv, BeginUse PROVE AtaInv' /\ MountInv'
    OBVIOUS
  <1>1. /\ mount.pc = "volume" /\ io.pc = "idle" /\ status = 0 /\ UNCHANGED <<present, status>>
        /\ ReadCluster \/ WriteCluster \/ NextCluster \/ WriteFATEntry
    BY DEF BeginUse, InMount
  <1>2. ~Orphan /\ 1 > 0
    BY <1>1 DEF Orphan
  <1> USE UseNumbers
  <1>3. ASSUME ReadCluster PROVE AtaInv' /\ MountInv'
    <2>1. To("cluster") /\ Call("read", mount.disk, IsMaster(mount.disk), DataLba, sectors_per_cluster) /\ "cluster" \in Using
      BY <1>3 DEF ReadCluster, DiskRead, Using
    <2> QED
      BY <1>1, <1>2, <2>1, UseCall
  <1>4. ASSUME WriteCluster PROVE AtaInv' /\ MountInv'
    <2>1. To("put") /\ Call("write", mount.disk, IsMaster(mount.disk), DataLba, sectors_per_cluster) /\ "put" \in Using
      BY <1>4 DEF WriteCluster, Using
    <2> QED
      BY <1>1, <1>2, <2>1, UseCall
  <1>5. ASSUME NextCluster \/ WriteFATEntry PROVE AtaInv' /\ MountInv'
    <2>1. PICK m \in BOOLEAN : m = TRUE
      OBVIOUS
    <2>2. PICK label \in {"next", "entry"} : To(label) /\ Call("read", mount.disk, m, FatLba, 1)
      BY <1>5, <2>1 DEF NextCluster, WriteFATEntry, InfoRead
    <2>3. label \in Using
      BY DEF Using
    <2> QED
      BY <1>1, <1>2, <2>2, <2>3, UseCall
  <1> QED
    BY <1>1, <1>3, <1>4, <1>5

LEMMA StoreEntryInv == AtaInv /\ MountInv /\ StoreEntry => AtaInv' /\ MountInv'
  <1> SUFFICES ASSUME AtaInv, MountInv, StoreEntry PROVE AtaInv' /\ MountInv'
    OBVIOUS
  <1>1. /\ mount.pc = "entry" /\ io.pc = "done" /\ UNCHANGED <<present, status>>
        /\ To("stored") /\ Call("write", mount.disk, TRUE, FatLba, 1)
    BY DEF StoreEntry, Returned
  <1>2. ~Orphan /\ status = 0 /\ 1 > 0 /\ "stored" \in Using
    BY <1>1, OrphanIsTable DEF MountInv, WaitInv, Using
  <1>3. PICK m \in BOOLEAN : m = TRUE
    OBVIOUS
  <1>4. Call("write", mount.disk, m, FatLba, 1)
    BY <1>1, <1>3
  <1> QED
    BY <1>1, <1>2, <1>4, UseCall, UseNumbers

LEMMA FlushCacheInv == AtaInv /\ MountInv /\ FlushCache => AtaInv' /\ MountInv'
  <1> SUFFICES ASSUME AtaInv, MountInv, FlushCache PROVE AtaInv' /\ MountInv'
    OBVIOUS
  <1>1. /\ mount.pc \in {"put", "stored"} /\ io.pc = "done" /\ UNCHANGED <<present, status>> /\ To("flush")
        /\ \/ Call("flush", mount.disk, IsMaster(mount.disk), 0, 1)
           \/ Call("flush", mount.disk, TRUE, 0, 1)
    BY DEF FlushCache, Returned
  <1>2. ~Orphan /\ status = 0 /\ 1 > 0 /\ "flush" \in Using
    <2>1. status = 0 /\ "flush" \in Using
      BY <1>1 DEF MountInv, WaitInv, Using
    <2> QED
      BY <1>1, <2>1, OrphanIsTable
  <1>3. PICK m \in BOOLEAN : Call("flush", mount.disk, m, 0, 1)
    BY <1>1, UseNumbers
  <1> QED
    BY <1>1, <1>2, <1>3, UseCall, UseNumbers

LEMMA EndUseInv == AtaInv /\ MountInv /\ EndUse => AtaInv' /\ MountInv'
  <1> SUFFICES ASSUME AtaInv, MountInv, EndUse PROVE AtaInv' /\ MountInv'
    OBVIOUS
  <1>1. /\ mount.pc \in Using /\ io.pc = "done" /\ UNCHANGED <<present, status>> /\ Taken
        /\ mount' = [mount EXCEPT !.pc = "volume", !.uses = mount.uses + 1]
    BY DEF EndUse, Returned, Using
  <1>2. ~Orphan /\ status = 0 /\ mount.disk \in Drives
    <2>1. status = 0 /\ mount.disk \in Drives
      BY <1>1 DEF MountInv, WaitInv
    <2>2. mount.pc # "table"
      BY <1>1 DEF Using
    <2> QED
      BY <2>1, <2>2, OrphanIsTable
  <1>3. AtaInv' /\ io' = NoCall /\ UNCHANGED <<device, abandoned>>
    BY <1>1, <1>2, TakenInv
  <1>4. mount \in MountStates /\ mount.uses + 1 \in Nat
    BY MountFields DEF MountInv, MountTypes
  <1>5. /\ mount' \in MountStates /\ mount'.pc = "volume" /\ mount'.i = mount.i /\ mount'.disk = mount.disk
        /\ mount'.part = mount.part /\ mount'.dbr = mount.dbr
    BY ONLY <1>1, <1>4 DEF MountStates, Pauses, Mounting, Using
  <1>6. io'.pc = "idle" /\ io'.f = "none"
    BY <1>3 DEF NoCall
  <1>7. MountTypes'
    BY <1>1, <1>5 DEF MountInv, MountTypes
  <1>8. WaitInv'
    BY <1>1, <1>2, <1>5, <1>6 DEF WaitInv, Pauses, Mounting, Using, Pending
  <1>9. FoundInv'
    BY <1>1, <1>3, <1>5 DEF MountInv, FoundInv, Real
  <1> QED
    BY <1>3, <1>7, <1>8, <1>9 DEF MountInv

-----------------------------------------------------------------------------
(***************************************************************************)
(* The whole system.                                                       *)
(***************************************************************************)

\* The driver keeps the arguments of its call, and never forgets a drive it gave up.
LEMMA DriverKeeps ==
    ASSUME AtaInv, AtaDriver
    PROVE  /\ io.pc # "idle" /\ io'.pc # "idle" /\ io'.f = io.f /\ io'.ch = io.ch /\ io'.master = io.master
           /\ io'.lba = io.lba /\ io'.count = io.count
           /\ device' = device /\ abandoned \subseteq abandoned'
  <1>1. io \in CallStates
    BY DEF AtaInv, AtaTypes
  <1>2. \A label : GoTo(label) => /\ io'.pc = label /\ io'.f = io.f /\ io'.ch = io.ch /\ io'.master = io.master
                                  /\ io'.lba = io.lba /\ io'.count = io.count
    BY <1>1 DEF GoTo, CallStates
  <1>3. \A r : Give(r) => /\ io'.pc = "done" /\ io'.f = io.f /\ io'.ch = io.ch /\ io'.master = io.master
                          /\ io'.lba = io.lba /\ io'.count = io.count
    BY <1>1 DEF Give, CallStates
  <1>4. Abandon => abandoned \subseteq abandoned'
    BY DEF Abandon
  <1>5. CASE Select \/ NotReady \/ ReadDone \/ ReadWait \/ ReadTimeout \/ WriteDone \/ WriteWords \/ WriteRefused
             \/ WriteTimeout \/ FlushWait \/ Identify
    BY <1>2, <1>3, <1>4, <1>5 DEF Select, NotReady, ReadDone, ReadWait, ReadTimeout, WriteDone, WriteWords,
        WriteRefused, WriteTimeout, FlushWait, Identify, Pc
  <1>6. CASE SendCommand
    <2>1. /\ io.pc = "command" /\ GoTo(AfterCommand[io.f]) /\ UNCHANGED <<device, abandoned>>
      BY <1>6 DEF SendCommand, Pc
    <2>2. io.f \in Commands \ {"none"}
      BY <2>1, CallTypes DEF AtaInv, CallInv
    <2>3. AfterCommand[io.f] # "idle"
      BY <2>2 DEF AfterCommand, Commands
    <2> QED
      BY <1>2, <2>1, <2>3
  <1>7. CASE ReadWords \/ WriteChecked
    <2>1. /\ io.pc \in {"words", "written"} /\ device' = device
          /\ abandoned' = abandoned \/ Abandon
          /\ \/ \E r : Give(r)
             \/ io' = [io EXCEPT !.pc = "sector", !.done = io.done + 1]
             \/ io' = [io EXCEPT !.pc = "want", !.done = io.done + 1]
      BY <1>7 DEF ReadWords, WriteChecked, Pc
    <2>2. CASE \E r : Give(r)
      BY <1>3, <1>4, <2>1, <2>2
    <2>3. CASE io' = [io EXCEPT !.pc = "sector", !.done = io.done + 1]
      <3>1. /\ io'.pc = "sector" /\ io'.f = io.f /\ io'.ch = io.ch /\ io'.master = io.master
            /\ io'.lba = io.lba /\ io'.count = io.count
        BY ONLY <1>1, <2>3 DEF CallStates
      <3> QED
        BY <1>4, <2>1, <3>1
    <2>4. CASE io' = [io EXCEPT !.pc = "want", !.done = io.done + 1]
      <3>1. /\ io'.pc = "want" /\ io'.f = io.f /\ io'.ch = io.ch /\ io'.master = io.master
            /\ io'.lba = io.lba /\ io'.count = io.count
        BY ONLY <1>1, <2>4 DEF CallStates
      <3> QED
        BY <1>4, <2>1, <3>1
    <2> QED
      BY <2>1, <2>2, <2>3, <2>4
  <1> QED
    BY <1>5, <1>6, <1>7 DEF AtaDriver, ReadLoop, WriteLoop

\* While the driver or a drive works the mount waits.
LEMMA MountWaits ==
    ASSUME MountInv, UNCHANGED mountVars,
           io'.pc = "idle" <=> io.pc = "idle", io'.f = io.f, io'.ch = io.ch, io'.master = io.master,
           io'.lba = io.lba, io'.count = io.count, device' = device, abandoned \subseteq abandoned'
    PROVE  MountInv'
  <1>1. Asked' = Asked /\ UNCHANGED <<mount, status, present>>
    BY DEF Asked, mountVars
  <1>2. MountTypes'
    BY <1>1 DEF MountInv, MountTypes
  <1>3. WaitInv'
    BY <1>1 DEF MountInv, WaitInv
  <1>4. abandoned' = {} => abandoned = {}
    OBVIOUS
  <1>5. FoundInv'
    BY <1>1, <1>4 DEF MountInv, FoundInv, Real
  <1> QED
    BY <1>2, <1>3, <1>5 DEF MountInv

LEMMA BootInvInit == BootInit => BootInv
  <1> SUFFICES ASSUME BootInit PROVE BootInv
    OBVIOUS
  <1> USE DEF BootInit, AtaInit, MountInit
  <1>1. NoCommand \in DriveStates /\ NoCommand.cmd = "none" /\ NoCommand.got = {} /\ NoCommand.st = "idle"
    BY DEF NoCommand, DriveStates, Statuses, Commands
  <1>2. /\ NoCall \in CallStates /\ NoCall.pc = "idle" /\ NoCall.f = "none" /\ NoCall.ret = 0
    BY AtaAssumption DEF NoCall, CallStates, CallLabels, Commands, Channels
  <1>3. AtaTypes
    <2>1. drive \in [Drives -> DriveStates]
      BY <1>1
    <2>2. media \in [Drives -> [Sectors -> SUBSET Meant]]
      OBVIOUS
    <2>3. device \in [Drives -> Devices] /\ device \in Machines
      BY AtaAssumption
    <2> QED
      BY <1>2, <2>1, <2>2, <2>3 DEF AtaTypes, Channels
  <1>4. DriveInv /\ OwnInv /\ PlaceInv
    BY <1>1 DEF DriveInv, OwnInv, PlaceInv
  <1>5. CallInv /\ ReadInv /\ WriteInv
    BY <1>2 DEF CallInv, ReadInv, WriteInv, Succeeded, Pending
  <1>6. MountTypes
    <2>1. Junk \in Locals /\ NoPartition \in [start : Sectors, genuine : BOOLEAN]
      BY AtaAssumption DEF Junk, Locals, NoPartition, Sectors, Commands
    <2> QED
      BY <2>1 DEF MountTypes, MountStates, Pauses, NoDisk, Pending
  <1>7. mount.pc = "pci" /\ mount.part.genuine = FALSE /\ mount.disk = NoDisk
    BY DEF NoPartition
  <1>8. WaitInv
    BY <1>2, <1>7 DEF WaitInv, Pauses, Mounting, Using, Pending
  <1>9. FoundInv /\ PhaseInv
    BY <1>7 DEF FoundInv, PhaseInv, Mounting, Pending
  <1> QED
    BY <1>3, <1>4, <1>5, <1>6, <1>8, <1>9 DEF BootInv, AtaInv, MountInv

LEMMA VolumeUseInv == AtaInv /\ MountInv /\ VolumeUse => AtaInv' /\ MountInv'
  BY BeginUseInv, StoreEntryInv, FlushCacheInv, EndUseInv DEF VolumeUse

\* InitFileSystem is at work, or it has just returned.
LEMMA MountStepPlace == MountInv /\ MountStep => mount'.pc \in Mounting \cup {"mounted"}
  <1> SUFFICES ASSUME MountInv, MountStep PROVE mount'.pc \in Mounting \cup {"mounted"}
    OBVIOUS
  <1>1. mount \in MountStates
    BY DEF MountInv, MountTypes
  <1>2. \A l : To(l) => mount'.pc = l
    BY <1>1 DEF To, MountStates
  <1>3. \A r : InitFileSystem(r) => mount'.pc = "mounted"
    BY <1>1 DEF InitFileSystem, MountStates
  <1>4. \A l, x : /\ mount' = [mount EXCEPT !.pc = l, !.i = x] => mount'.pc = l
                  /\ mount' = [mount EXCEPT !.pc = l, !.disk = x] => mount'.pc = l
                  /\ mount' = [mount EXCEPT !.pc = l, !.sector = x] => mount'.pc = l
                  /\ mount' = [mount EXCEPT !.pc = l, !.part = x] => mount'.pc = l
                  /\ mount' = [mount EXCEPT !.pc = l, !.dbr = x] => mount'.pc = l
    BY <1>1 DEF MountStates
  <1>5. CASE ScanBus \/ ScanNext \/ Scanned \/ FindDisk
    BY <1>2, <1>3, <1>4, <1>5, Zenon DEF ScanBus, ScanNext, Scanned, FindDisk, Mounting
  <1>6. CASE CheckMBR \/ CheckHeader
    BY <1>2, <1>3, <1>4, <1>6, Zenon DEF CheckMBR, CheckHeader, Mounting
  <1>7. CASE FindEntry \/ CheckDBR \/ Mounted
    BY <1>2, <1>3, <1>4, <1>7, Zenon DEF FindEntry, CheckDBR, Mounted, Mounting
  <1> QED
    BY <1>5, <1>6, <1>7 DEF MountStep

LEMMA BootInvNext == BootInv /\ [BootNext]_allVars => BootInv'
  <1> SUFFICES ASSUME BootInv, [BootNext]_allVars PROVE BootInv'
    OBVIOUS
  <1>1. AtaInv /\ MountInv /\ PhaseInv
    BY DEF BootInv
  <1>2. CASE UNCHANGED <<phase, ataVars, mountVars>>
    <2>1. UNCHANGED <<phase, mount, status, device, abandoned, io>> /\ UNCHANGED <<ataVars, status>> /\ UNCHANGED mountVars
      BY <1>2 DEF mountVars, ataVars
    <2>2. PhaseInv'
      BY <1>1, <2>1 DEF PhaseInv
    <2> QED
      BY <1>1, <2>1, <2>2, AtaStays, MountWaits DEF BootInv
  <1>3. CASE DriveStep
    <2>1. AtaDrives /\ UNCHANGED <<phase, mountVars>>
      BY <1>3 DEF DriveStep
    <2>2. UNCHANGED <<device, io, abandoned>> /\ UNCHANGED <<mount, status>>
      BY <2>1 DEF AtaDrives, DriveAnswers, DriveWrites, mountVars
    <2>3. PhaseInv'
      BY <1>1, <2>1, <2>2 DEF PhaseInv
    <2> QED
      BY <1>1, <2>1, <2>2, <2>3, DrivesInv, MountWaits DEF BootInv
  <1>4. CASE DriverStep
    <2>1. AtaDriver /\ UNCHANGED <<phase, mountVars>> /\ UNCHANGED <<mount, status>>
      BY <1>4 DEF DriverStep, mountVars
    <2>2. PhaseInv'
      BY <1>1, <2>1 DEF PhaseInv
    <2>3. MountInv'
      BY <1>1, <2>1, DriverKeeps, MountWaits
    <2> QED
      BY <1>1, <2>1, <2>2, <2>3, DriverInv DEF BootInv
  <1>5. CASE MountDisk
    <2>1. MountStep /\ phase' = IF status' = Pending THEN "mount" ELSE "display"
      BY <1>5 DEF MountDisk
    <2>2. AtaInv' /\ MountInv'
      BY <1>1, <2>1, MountStepInv
    <2>3. mount'.pc \in Mounting <=> status' = Pending
      BY <2>2 DEF MountInv, WaitInv
    <2>4. PhaseInv'
      BY <1>1, <2>1, <2>3, MountStepPlace DEF PhaseInv
    <2> QED
      BY <2>2, <2>4 DEF BootInv
  <1>6. CASE FindDisplay
    <2>1. UNCHANGED <<ataVars, mountVars>> /\ phase = "display" /\ phase' = "clock"
      BY <1>6 DEF FindDisplay
    <2>2. UNCHANGED <<mount, status, device, abandoned, io>>
      BY <2>1 DEF mountVars, ataVars
    <2>3. PhaseInv'
      BY <1>1, <2>1, <2>2 DEF PhaseInv
    <2> QED
      BY <1>1, <2>1, <2>2, <2>3, AtaStays, MountWaits DEF BootInv
  <1>7. CASE EnterShell
    <2>1. phase = "clock" /\ phase' = "shell" /\ To("volume") /\ UNCHANGED <<ataVars, present, status>>
      BY <1>7 DEF EnterShell
    <2>2. mount.pc = "mounted" /\ UNCHANGED <<device, abandoned, io>>
      BY <1>1, <2>1 DEF PhaseInv, ataVars
    <2>3. /\ mount' \in MountStates /\ mount'.pc = "volume" /\ mount'.i = mount.i /\ mount'.disk = mount.disk
          /\ mount'.part = mount.part /\ mount'.dbr = mount.dbr
      BY <1>1, <2>1, ToFields DEF MountInv, Pauses
    <2>4. MountTypes'
      BY <1>1, <2>1, <2>3 DEF MountInv, MountTypes
    <2>5. WaitInv'
      BY <1>1, <2>1, <2>2, <2>3 DEF MountInv, WaitInv, Pauses, Mounting, Using, Asked
    <2>6. FoundInv'
      BY <1>1, <2>1, <2>2, <2>3 DEF MountInv, FoundInv, Real
    <2>7. AtaInv' /\ PhaseInv'
      BY <1>1, <2>1, AtaStays DEF PhaseInv
    <2> QED
      BY <2>4, <2>5, <2>6, <2>7 DEF BootInv, MountInv
  <1>8. CASE UseVolume
    <2>1. VolumeUse /\ phase = "shell" /\ phase' = "shell"
      BY <1>8 DEF UseVolume
    <2> QED
      BY <1>1, <2>1, VolumeUseInv DEF BootInv, PhaseInv
  <1>9. CASE UseFiles
    <2>1. UNCHANGED <<ataVars, mountVars>> /\ phase' = "files"
      BY <1>9 DEF UseFiles
    <2>2. UNCHANGED <<mount, status, device, abandoned, io>>
      BY <2>1 DEF mountVars, ataVars
    <2> QED
      BY <1>1, <2>1, <2>2, AtaStays, MountWaits DEF BootInv, PhaseInv
  <1>10. CASE MeasureCpu \/ ClockTicks \/ UseScreen
    BY <1>2, <1>10 DEF MeasureCpu, ClockTicks, UseScreen
  <1>11. CASE UNCHANGED allVars
    BY <1>2, <1>11 DEF allVars, bootVars
  <1> QED
    BY <1>3, <1>4, <1>5, <1>6, <1>7, <1>8, <1>9, <1>10, <1>11 DEF BootNext, InitSystem, Shell

\* The invariant of the boot: what the driver, the drives and InitSystem know of one another.
THEOREM BootInvariant == BootSpec => []BootInv
  <1>1. BootInit => BootInv
    BY BootInvInit
  <1>2. BootInv /\ [BootNext]_allVars => BootInv'
    BY BootInvNext
  <1> QED
    BY <1>1, <1>2, PTL DEF BootSpec

\* ATA_Read of Kernel/drives/ata.c, for every drive, address and count: when it returns a
\* positive number on a channel where no wait ended on a busy drive, the buffer holds the
\* sectors asked for, all of them, in order and from the drive that was asked.
THEOREM ReadsAreExact == BootSpec => []ReadIsExact
  <1>1. BootInv => ReadIsExact
    <2>1. SUFFICES ASSUME BootInv, Succeeded("read"), Trusted
                   PROVE  /\ io.ret = io.count
                          /\ buffer = [k \in 1..io.count |-> [from |-> Asked, cmd |-> "read", lba |-> io.lba + k - 1]]
      BY DEF ReadIsExact
    <2>2. AtaInv /\ io.f = "read"
      BY <2>1 DEF BootInv, Succeeded
    <2>3. io.ret = io.count /\ io.done = io.count /\ Len(buffer) = io.count
      BY <2>1, <2>2 DEF AtaInv, CallInv
    <2>4. \A k \in 1..io.count : buffer[k] = [from |-> Asked, cmd |-> "read", lba |-> io.lba + k - 1]
      BY <2>1, <2>2, <2>3 DEF AtaInv, ReadInv
    <2>5. buffer \in Seq(Contents)
      BY <2>2 DEF AtaInv, AtaTypes
    <2>6. buffer = [k \in 1..Len(buffer) |-> buffer[k]]
      BY <2>5
    <2>7. buffer = [k \in 1..io.count |-> buffer[k]]
      BY <2>3, <2>6
    <2> QED
      BY <2>3, <2>4, <2>7
  <1> QED
    BY <1>1, BootInvariant, PTL

\* ATA_Write: when it reports success on such a channel every sector is on the medium, and
\* on such a channel no sector ever holds data meant for another one.
THEOREM WritesAreExact == BootSpec => []WriteIsExact
  <1>1. BootInv => WriteIsExact
    <2> SUFFICES ASSUME BootInv PROVE WriteIsExact
      OBVIOUS
    <2>1. AtaInv
      BY DEF BootInv
    <2>2. \A i \in Drives, l \in Sectors :
             Channel(i) \notin abandoned => media[i][l] \subseteq {[on |-> i, lba |-> l]}
      BY <2>1 DEF AtaInv, PlaceInv
    <2>3. ASSUME Succeeded("write"), Trusted, NEW k \in 0..(io.count - 1)
          PROVE  media[Asked][io.lba + k] = {[on |-> Asked, lba |-> io.lba + k]}
      <3>1. io.f = "write" /\ io.done = io.count
        BY <2>1, <2>3 DEF AtaInv, CallInv, Succeeded
      <3> QED
        BY <2>1, <2>3, <3>1 DEF AtaInv, WriteInv, Stored
    <2> QED
      BY <2>2, <2>3 DEF WriteIsExact
  <1> QED
    BY <1>1, BootInvariant, PTL

\* InitFileSystem mounts the volume of the system partition of the first disk, and
\* ata_scan_all finds no disk on an empty port, whatever the drives answer and whenever -
\* outside of the cases MountIsGenuine names.
THEOREM MountsAreGenuine == BootSpec => []MountIsGenuine
  <1>1. BootInv => MountIsGenuine
    <2> SUFFICES ASSUME BootInv PROVE MountIsGenuine
      OBVIOUS
    <2>1. MountTypes /\ FoundInv
      BY DEF BootInv, MountInv
    <2>2. mount.part.start \in Sectors /\ NoEsp \notin Sectors
      BY <2>1, MountFields, SectorNumbers
    <2>3. \A d \in Disks \ Gpt : EspAt[d] = NoEsp
      BY MountAssumption
    <2> QED
      BY <2>1, <2>2, <2>3 DEF FoundInv, MountIsGenuine
  <1> QED
    BY <1>1, BootInvariant, PTL

-----------------------------------------------------------------------------
(***************************************************************************)
(* Drawing: where a pixel is on the screen.                                *)
(***************************************************************************)
LEMMA SplitAt ==
    ASSUME NEW m \in Nat \ {0}, NEW q \in Int, NEW r \in 0..(m - 1)
    PROVE  (q * m + r) \div m = q /\ (q * m + r) % m = r
  <1> DEFINE n == q * m + r
             q2 == n \div m
             r2 == n % m
  <1>1. n \in Int /\ q2 \in Int /\ r2 \in 0..(m - 1) /\ n = m * q2 + r2
    OBVIOUS
  <1>2. m * q2 + r2 = m * q + r
    BY <1>1
  <1> HIDE DEF n, q2, r2
  <1>3. q2 = q
    <2>1. CASE q2 >= q + 1
      <3>1. m * q2 >= m * q + m
        BY <1>1, <2>1
      <3> QED
        BY <1>1, <1>2, <3>1
    <2>2. CASE q >= q2 + 1
      <3>1. m * q >= m * q2 + m
        BY <1>1, <2>2
      <3> QED
        BY <1>1, <1>2, <3>1
    <2> QED
      BY <1>1, <2>1, <2>2
  <1>4. r2 = r
    BY <1>1, <1>2, <1>3
  <1> QED
    BY <1>3, <1>4 DEF n, q2, r2

Columns == 0..(width - 1)
Rows == 0..(height - 1)

LEMMA ScreenSize == width \in Nat /\ width > 0 /\ height \in Nat /\ height > 0
  BY DisplayAssumption

\* The pixel of a place, and the place of a pixel.
LEMMA PixelOfPlace ==
    ASSUME NEW x \in Columns, NEW y \in Rows
    PROVE  y * width + x \in Pixels /\ Row(y * width + x) = y /\ Col(y * width + x) = x
  <1>1. x \in Nat /\ y \in Nat /\ x <= width - 1 /\ y <= height - 1
    BY ScreenSize DEF Columns, Rows
  <1>2. y * width \in Nat /\ (height - 1) * width \in Nat /\ height * width \in Nat
    BY <1>1, ScreenSize
  <1>3. y * width <= (height - 1) * width
    BY <1>1, ScreenSize
  <1>4. (height - 1) * width = height * width - width /\ height * width = width * height
    BY ScreenSize
  <1>5. y * width + x \in 0..(width * height - 1)
    BY <1>1, <1>2, <1>3, <1>4, ScreenSize
  <1> QED
    BY <1>1, <1>5, SplitAt, DisplayAssumption DEF Pixels, Row, Col, Columns

LEMMA PlaceOfPixel ==
    ASSUME NEW i \in Pixels
    PROVE  i \in Nat /\ Col(i) \in Columns /\ Row(i) \in Rows /\ i = Row(i) * width + Col(i)
  <1>1. i \in Nat /\ i < width * height /\ width * height \in Nat
    BY ScreenSize DEF Pixels
  <1>2. i % width \in 0..(width - 1) /\ i \div width \in Nat
    BY <1>1, ScreenSize
  <1>3. i = width * (i \div width) + (i % width) /\ width * (i \div width) = (i \div width) * width
    BY <1>1, ScreenSize
  <1>4. i \div width < height
    <2>1. SUFFICES ASSUME i \div width >= height PROVE FALSE
      BY <1>2, ScreenSize
    <2>2. width * (i \div width) >= width * height
      BY <1>2, <2>1, ScreenSize
    <2> QED
      BY <1>1, <1>2, <1>3, <2>2, ScreenSize
  <1> QED
    BY <1>1, <1>2, <1>3, <1>4, ScreenSize DEF Columns, Rows, Row, Col

LEMMA SamePlace ==
    ASSUME NEW i \in Pixels, NEW j \in Pixels, Row(i) = Row(j), Col(i) = Col(j)
    PROVE  i = j
  BY PlaceOfPixel, Zenon

(***************************************************************************)
(* Rectangles.                                                             *)
(***************************************************************************)
LEMMA RunOfRow ==
    ASSUME NEW x \in Columns, NEW y \in Rows, NEW n \in Nat, x + n <= width
    PROVE  LET at == y * width + x
           IN  /\ at .. (at + n - 1) \subseteq Pixels
               /\ \A i \in Pixels :
                    i \in at .. (at + n - 1) <=> Row(i) = y /\ Col(i) \in x..(x + n - 1)
  <1> DEFINE at == y * width + x
  <1>1. x \in Nat /\ y \in Nat /\ y * width \in Nat /\ at \in Nat
    BY ScreenSize DEF Columns, Rows
  <1>2. ASSUME NEW i \in at .. (at + n - 1)
        PROVE  i \in Pixels /\ Row(i) = y /\ Col(i) \in x..(x + n - 1)
    <2> DEFINE c == i - y * width
    <2>1. i \in Int /\ c \in Int /\ x <= c /\ c <= x + n - 1 /\ i = y * width + c
      BY <1>1
    <2> HIDE DEF c
    <2>2. c \in Columns
      BY <1>1, <2>1, ScreenSize DEF Columns
    <2>3. i \in Pixels /\ Row(i) = y /\ Col(i) = c
      BY <2>1, <2>2, PixelOfPlace
    <2> QED
      BY <1>1, <2>1, <2>3
  <1>3. ASSUME NEW i \in Pixels, Row(i) = y, Col(i) \in x..(x + n - 1)
        PROVE  i \in at .. (at + n - 1)
    <2>1. i = y * width + Col(i)
      BY <1>3, PlaceOfPixel
    <2> QED
      BY <1>1, <1>3, <2>1
  <1> QED
    BY <1>2, <1>3

LEMMA CutFacts ==
    ASSUME NEW x \in Nat, NEW w \in Nat, NEW limit \in Nat, x < limit
    PROVE  /\ Cut(x, w, limit) \in Nat /\ x + Cut(x, w, limit) <= limit
           /\ \A c \in Nat : c < limit => (c \in x..(x + w - 1) <=> c \in x..(x + Cut(x, w, limit) - 1))
  BY DEF Cut

\* A set of pixels and the rectangle it should be.
Covers(s, x, y, w, h) == s \subseteq Pixels /\ \A i \in Pixels : i \in s <=> Within(i, x, y, w, h)

LEMMA NothingWithin ==
    ASSUME NEW x \in Nat, NEW y \in Nat, NEW w \in Nat, NEW h \in Nat, x >= width \/ y >= height
    PROVE  Covers({}, x, y, w, h)
  <1> SUFFICES ASSUME NEW i \in Pixels PROVE ~Within(i, x, y, w, h)
    BY DEF Covers
  <1>1. Col(i) \in Nat /\ Col(i) < width /\ Row(i) \in Nat /\ Row(i) < height
    BY PlaceOfPixel, ScreenSize DEF Columns, Rows
  <1> QED
    BY <1>1, ScreenSize DEF Within

LEMMA FillCovers ==
    ASSUME NEW x \in Nat, NEW y \in Nat, NEW w \in Nat, NEW h \in Nat
    PROVE  Covers(bochs_fill_rect(x, y, w, h), x, y, w, h)
  <1>1. CASE x >= width \/ y >= height
    BY <1>1, NothingWithin DEF bochs_fill_rect
  <1>2. CASE ~(x >= width \/ y >= height)
    <2> DEFINE w2 == Cut(x, w, width)
               h2 == Cut(y, h, height)
               run(r) == ((y + r) * width + x) .. ((y + r) * width + x + w2 - 1)
    <2>1. x \in Columns /\ x < width /\ y < height
      BY <1>2, ScreenSize DEF Columns
    <2>2. w2 \in Nat /\ x + w2 <= width /\ h2 \in Nat /\ y + h2 <= height
      BY <2>1, CutFacts, ScreenSize
    <2>3. bochs_fill_rect(x, y, w, h) = UNION {run(r) : r \in 0..(h2 - 1)}
      BY <1>2, Zenon DEF bochs_fill_rect
    <2>4. ASSUME NEW i \in Pixels
          PROVE  Within(i, x, y, w, h) <=> Col(i) \in x..(x + w2 - 1) /\ Row(i) \in y..(y + h2 - 1)
      <3>1. Col(i) \in Nat /\ Col(i) < width /\ Row(i) \in Nat /\ Row(i) < height
        BY PlaceOfPixel, ScreenSize DEF Columns, Rows
      <3>2. Col(i) \in x..(x + w - 1) <=> Col(i) \in x..(x + w2 - 1)
        BY <2>1, <3>1, CutFacts, ScreenSize
      <3>3. Row(i) \in y..(y + h - 1) <=> Row(i) \in y..(y + h2 - 1)
        BY <2>1, <3>1, CutFacts, ScreenSize
      <3> QED
        BY <3>2, <3>3 DEF Within
    <2> HIDE DEF w2, h2
    <2>5. ASSUME NEW r \in 0..(h2 - 1)
          PROVE  /\ run(r) \subseteq Pixels
                 /\ \A i \in Pixels : i \in run(r) <=> Row(i) = y + r /\ Col(i) \in x..(x + w2 - 1)
      <3>1. y + r \in Rows
        BY <2>2, ScreenSize DEF Rows
      <3> QED
        BY <2>1, <2>2, <3>1, RunOfRow
    <2>6. UNION {run(r) : r \in 0..(h2 - 1)} \subseteq Pixels
      BY <2>5, Zenon
    <2>7. ASSUME NEW i \in Pixels
          PROVE  i \in UNION {run(r) : r \in 0..(h2 - 1)} <=> Within(i, x, y, w, h)
      <3>1. ASSUME NEW r \in 0..(h2 - 1), i \in run(r) PROVE Within(i, x, y, w, h)
        <4>1. Row(i) = y + r /\ Col(i) \in x..(x + w2 - 1)
          BY <2>5, <3>1
        <4> QED
          BY <2>2, <2>4, <4>1
      <3>2. ASSUME Within(i, x, y, w, h) PROVE \E r \in 0..(h2 - 1) : i \in run(r)
        <4>1. Col(i) \in x..(x + w2 - 1) /\ Row(i) \in y..(y + h2 - 1)
          BY <2>4, <3>2
        <4>2. Row(i) - y \in 0..(h2 - 1) /\ Row(i) = y + (Row(i) - y)
          BY <2>2, <4>1
        <4> HIDE DEF run
        <4>3. i \in run(Row(i) - y)
          BY <2>5, <4>1, <4>2, Zenon
        <4> QED
          BY <4>2, <4>3
      <3> HIDE DEF run
      <3> QED
        BY <3>1, <3>2, Zenon
    <2> QED
      BY <2>3, <2>6, <2>7, Zenon DEF Covers
  <1> QED
    BY <1>1, <1>2

LEMMA HlineCovers ==
    ASSUME NEW x \in Nat, NEW y \in Nat, NEW w \in Nat
    PROVE  Covers(bochs_hline(x, y, w), x, y, w, 1)
  <1>1. CASE x >= width \/ y >= height
    BY <1>1, NothingWithin DEF bochs_hline
  <1>2. CASE ~(x >= width \/ y >= height)
    <2> DEFINE w2 == Cut(x, w, width)
               at == y * width + x
    <2>1. x \in Columns /\ y \in Rows /\ x < width
      BY <1>2, ScreenSize DEF Columns, Rows
    <2>2. w2 \in Nat /\ x + w2 <= width
      BY <2>1, CutFacts, ScreenSize
    <2>3. bochs_hline(x, y, w) = at .. (at + w2 - 1)
      BY <1>2 DEF bochs_hline
    <2>4. ASSUME NEW i \in Pixels
          PROVE  Within(i, x, y, w, 1) <=> Row(i) = y /\ Col(i) \in x..(x + w2 - 1)
      <3>1. Col(i) \in Nat /\ Col(i) < width /\ Row(i) \in Nat
        BY PlaceOfPixel, ScreenSize DEF Columns, Rows
      <3>2. Col(i) \in x..(x + w - 1) <=> Col(i) \in x..(x + w2 - 1)
        BY <2>1, <3>1, CutFacts, ScreenSize
      <3>3. Row(i) \in y..(y + 1 - 1) <=> Row(i) = y
        BY <3>1
      <3> QED
        BY <3>2, <3>3 DEF Within
    <2> HIDE DEF w2
    <2>5. at .. (at + w2 - 1) \subseteq Pixels
          /\ \A i \in Pixels : i \in at .. (at + w2 - 1) <=> Row(i) = y /\ Col(i) \in x..(x + w2 - 1)
      BY <2>1, <2>2, RunOfRow
    <2> QED
      BY <2>3, <2>4, <2>5 DEF Covers
  <1> QED
    BY <1>1, <1>2

LEMMA VlineCovers ==
    ASSUME NEW x \in Nat, NEW y \in Nat, NEW h \in Nat
    PROVE  Covers(bochs_vline(x, y, h), x, y, 1, h)
  <1>1. CASE x >= width \/ y >= height
    BY <1>1, NothingWithin DEF bochs_vline
  <1>2. CASE ~(x >= width \/ y >= height)
    <2> DEFINE h2 == Cut(y, h, height)
               at(r) == y * width + x + r * width
    <2>1. x \in Columns /\ y < height
      BY <1>2, ScreenSize DEF Columns
    <2>2. h2 \in Nat /\ y + h2 <= height
      BY <2>1, CutFacts, ScreenSize
    <2>3. bochs_vline(x, y, h) = {at(r) : r \in 0..(h2 - 1)}
      BY <1>2, Zenon DEF bochs_vline
    <2>4. ASSUME NEW i \in Pixels
          PROVE  Within(i, x, y, 1, h) <=> Col(i) = x /\ Row(i) \in y..(y + h2 - 1)
      <3>1. Col(i) \in Nat /\ Row(i) \in Nat /\ Row(i) < height
        BY PlaceOfPixel, ScreenSize DEF Columns, Rows
      <3>2. Row(i) \in y..(y + h - 1) <=> Row(i) \in y..(y + h2 - 1)
        BY <2>1, <3>1, CutFacts, ScreenSize
      <3>3. Col(i) \in x..(x + 1 - 1) <=> Col(i) = x
        BY <3>1
      <3> QED
        BY <3>2, <3>3 DEF Within
    <2> HIDE DEF h2
    <2>5. ASSUME NEW r \in 0..(h2 - 1)
          PROVE  at(r) \in Pixels /\ Row(at(r)) = y + r /\ Col(at(r)) = x
      <3>1. y + r \in Rows
        BY <2>2, ScreenSize DEF Rows
      <3>2. at(r) = (y + r) * width + x
        BY <2>1, ScreenSize DEF Columns
      <3> QED
        BY <2>1, <3>1, <3>2, PixelOfPlace
    <2> HIDE DEF at
    <2>6. {at(r) : r \in 0..(h2 - 1)} \subseteq Pixels
      BY <2>5
    <2>7. ASSUME NEW i \in Pixels
          PROVE  i \in {at(r) : r \in 0..(h2 - 1)} <=> Within(i, x, y, 1, h)
      <3>1. ASSUME NEW r \in 0..(h2 - 1), i = at(r) PROVE Within(i, x, y, 1, h)
        BY <2>2, <2>4, <2>5, <3>1
      <3>2. ASSUME Within(i, x, y, 1, h) PROVE \E r \in 0..(h2 - 1) : i = at(r)
        <4>1. Col(i) = x /\ Row(i) \in y..(y + h2 - 1)
          BY <2>4, <3>2
        <4>2. Row(i) - y \in 0..(h2 - 1) /\ Row(i) = y + (Row(i) - y)
          BY <2>2, <4>1
        <4>3. i = at(Row(i) - y)
          BY <2>5, <4>1, <4>2, SamePlace
        <4> QED
          BY <4>2, <4>3
      <3> QED
        BY <3>1, <3>2
    <2> QED
      BY <2>3, <2>6, <2>7, Zenon DEF Covers
  <1> QED
    BY <1>1, <1>2

(***************************************************************************)
(* Lines.  One coordinate takes a step in every turn, the other when the   *)
(* line has come nearer to the next row or column.                         *)
(***************************************************************************)
LEMMA NearestStart ==
    ASSUME NEW D \in Nat, NEW d \in Nat
    PROVE  Nearest(D, 0, d, 0)
  BY DEF Nearest

LEMMA NearestEnd ==
    ASSUME NEW D \in Nat, NEW d \in Nat, d <= D, NEW b, Nearest(D, D, d, b)
    PROVE  b = d
  <1>1. b \in Nat /\ b <= d /\ (D # 0 => -D <= 2 * (b * D - D * d))
    BY DEF Nearest
  <1>2. CASE D # 0 /\ b <= d - 1
    <2>1. b * D \in Nat /\ D * d \in Nat /\ (d - 1) * D = D * d - D
      BY <1>1
    <2>2. b * D <= (d - 1) * D
      BY <1>1, <1>2
    <2> QED
      BY <1>1, <1>2, <2>1, <2>2
  <1> QED
    BY <1>1, <1>2

LEMMA NearestUnique ==
    ASSUME NEW D \in Nat, NEW k, NEW d \in Nat, d <= D, NEW b, NEW c,
           Nearest(D, k, d, b), Nearest(D, k, d, c)
    PROVE  b = c
  <1>1. b \in Nat /\ c \in Nat /\ k \in Nat /\ b <= d /\ c <= d
    BY DEF Nearest
  <1>2. CASE D # 0
    <2> DEFINE P == b * D
               R == c * D
               Q == k * d
    <2>1. /\ -D <= 2 * (P - Q) /\ 2 * (P - Q) < D
          /\ -D <= 2 * (R - Q) /\ 2 * (R - Q) < D
      BY <1>2 DEF Nearest
    <2>2. P \in Nat /\ R \in Nat /\ Q \in Nat
      BY <1>1
    <2>3. c >= b + 1 => R >= P + D
      BY <1>1
    <2>4. b >= c + 1 => P >= R + D
      BY <1>1
    <2> HIDE DEF P, Q, R
    <2> QED
      BY <1>1, <2>1, <2>2, <2>3, <2>4
  <1> QED
    BY <1>1, <1>2

LEMMA NearestStep ==
    ASSUME NEW D \in Nat, NEW k \in Nat, k < D, NEW d \in Nat, d <= D, NEW b, Nearest(D, k, d, b)
    PROVE  Nearest(D, k + 1, d, IF 2 * (b * D - (k + 1) * d) < -D THEN b + 1 ELSE b)
  <1> DEFINE P == b * D
             Q == k * d
  <1>1. b \in Nat /\ b <= d /\ -D <= 2 * (P - Q) /\ 2 * (P - Q) < D
    BY DEF Nearest
  <1>2. P \in Nat /\ Q \in Nat /\ (k + 1) * d = Q + d /\ (b + 1) * D = P + D
    BY <1>1
  <1>3. Q + d <= D * d /\ (b = d => P = D * d)
    <2>1. (k + 1) * d <= D * d
      <3>1. k + 1 <= D
        OBVIOUS
      <3> QED
        BY <3>1
    <2> QED
      BY <1>2, <2>1
  <1>4. D * d \in Nat
    OBVIOUS
  <1> HIDE DEF P, Q
  <1>5. CASE 2 * (b * D - (k + 1) * d) < -D
    <2>1. 2 * (P - (Q + d)) < -D
      BY <1>2, <1>5 DEF P
    <2>2. b # d
      BY <1>2, <1>3, <1>4, <2>1
    <2>3. -D <= 2 * (P + D - (Q + d)) /\ 2 * (P + D - (Q + d)) < D
      BY <1>1, <1>2, <2>1
    <2>4. -D <= 2 * ((b + 1) * D - (k + 1) * d) /\ 2 * ((b + 1) * D - (k + 1) * d) < D
      BY <1>2, <2>3
    <2> QED
      BY <1>1, <1>5, <2>2, <2>4 DEF Nearest
  <1>6. CASE ~(2 * (b * D - (k + 1) * d) < -D)
    <2>1. -D <= 2 * (P - (Q + d)) /\ 2 * (P - (Q + d)) < D
      <3>1. ~(2 * (P - (Q + d)) < -D)
        BY <1>2, <1>6 DEF P
      <3> QED
        BY <1>1, <1>2, <3>1
    <2>2. -D <= 2 * (b * D - (k + 1) * d) /\ 2 * (b * D - (k + 1) * d) < D
      BY <1>2, <2>1 DEF P
    <2> QED
      BY <1>1, <1>6, <2>2 DEF Nearest
  <1> QED
    BY <1>5, <1>6

\* The point a steps along and b steps down, with the error the loop has there.
LineAt(x1, y1, x2, y2, a, b) ==
    [x |-> x1 + a * Toward(x1, x2), y |-> y1 + b * Toward(y1, y2),
     err |-> (b + 1) * Abs(x2 - x1) - (a + 1) * Abs(y2 - y1)]

LEMMA Steps ==
    ASSUME NEW p \in Int, NEW q \in Int
    PROVE  /\ Abs(q - p) \in Nat /\ Toward(p, q) \in {1, -1}
           /\ p + Abs(q - p) * Toward(p, q) = q
           /\ \A a \in Int : /\ p + a * Toward(p, q) = q <=> a = Abs(q - p)
                             /\ p + a * Toward(p, q) + Toward(p, q) = p + (a + 1) * Toward(p, q)
                             /\ ((p + a * Toward(p, q)) - p) * Toward(p, q) = a
                             /\ p + ((a - p) * Toward(p, q)) * Toward(p, q) = a
                             /\ p + a * Toward(p, q) \in Int /\ (a - p) * Toward(p, q) \in Int
  <1>1. CASE q > p
    BY <1>1 DEF Abs, Toward
  <1>2. CASE ~(q > p)
    BY <1>2 DEF Abs, Toward
  <1> QED
    BY <1>1, <1>2

\* Where a turn goes from there.
TurnTo(x1, y1, x2, y2, a, b) ==
    LET dx == Abs(x2 - x1)
        dy == Abs(y2 - y1)
        e == (b + 1) * dx - (a + 1) * dy
    IN  IF a = dx /\ b = dy THEN LineAt(x1, y1, x2, y2, a, b)
        ELSE LineAt(x1, y1, x2, y2, IF 2 * e > -dy THEN a + 1 ELSE a,
                                    IF 2 * e < dx THEN b + 1 ELSE b)

LEMMA TurnAt ==
    ASSUME NEW x1 \in Int, NEW y1 \in Int, NEW x2 \in Int, NEW y2 \in Int,
           NEW a \in Nat, NEW b \in Nat
    PROVE  bochs_line_turn(LineAt(x1, y1, x2, y2, a, b), x1, y1, x2, y2) = TurnTo(x1, y1, x2, y2, a, b)
  <1> DEFINE dx == Abs(x2 - x1)
             dy == Abs(y2 - y1)
             tx == Toward(x1, x2)
             ty == Toward(y1, y2)
             e == (b + 1) * dx - (a + 1) * dy
             p == LineAt(x1, y1, x2, y2, a, b)
             a2 == IF 2 * e > -dy THEN a + 1 ELSE a
             b2 == IF 2 * e < dx THEN b + 1 ELSE b
  <1>1. dx \in Nat /\ dy \in Nat /\ e \in Int
    <2>1. dx \in Nat /\ dy \in Nat
      BY Steps, Zenon
    <2> HIDE DEF dx, dy
    <2> QED
      BY <2>1
  <1>2. p.x = x1 + a * tx /\ p.y = y1 + b * ty /\ p.err = e
    BY DEF LineAt
  <1>3. (p.x = x2 <=> a = dx) /\ (p.y = y2 <=> b = dy)
    BY SMTT(30), <1>2, Steps
  <1>4. CASE a = dx /\ b = dy
    BY <1>3, <1>4 DEF bochs_line_turn, TurnTo
  <1>5. CASE ~(a = dx /\ b = dy)
    <2>1. (IF 2 * e > -dy THEN p.x + tx ELSE p.x) = x1 + a2 * tx
      <3>1. x1 + a * tx + tx = x1 + (a + 1) * tx
        BY Steps
      <3> HIDE DEF p, e, dx, dy, tx
      <3> QED
        BY <1>2, <3>1, Zenon
    <2>2. (IF 2 * e < dx THEN p.y + ty ELSE p.y) = y1 + b2 * ty
      <3>1. y1 + b * ty + ty = y1 + (b + 1) * ty
        BY Steps
      <3> HIDE DEF p, e, dx, dy, ty
      <3> QED
        BY <1>2, <3>1, Zenon
    <2>3. e - (IF 2 * e > -dy THEN dy ELSE 0) + (IF 2 * e < dx THEN dx ELSE 0)
            = (b2 + 1) * dx - (a2 + 1) * dy
      <3>1. /\ (b + 1) * dx \in Int /\ (a + 1) * dy \in Int
            /\ (b + 1 + 1) * dx = (b + 1) * dx + dx
            /\ (a + 1 + 1) * dy = (a + 1) * dy + dy
        BY <1>1
      <3> HIDE DEF dx, dy
      <3> QED
        BY <1>1, <3>1
    <2>4. bochs_line_turn(p, x1, y1, x2, y2) =
            [x |-> IF 2 * e > -dy THEN p.x + tx ELSE p.x,
             y |-> IF 2 * e < dx THEN p.y + ty ELSE p.y,
             err |-> e - (IF 2 * e > -dy THEN dy ELSE 0) + (IF 2 * e < dx THEN dx ELSE 0)]
      <3>1. ~(p.x = x2 /\ p.y = y2)
        BY <1>3, <1>5
      <3> HIDE DEF p, e
      <3> QED
        BY <1>2, <3>1, Zenon DEF bochs_line_turn
    <2>5. LineAt(x1, y1, x2, y2, a2, b2) = [x |-> x1 + a2 * tx, y |-> y1 + b2 * ty,
                                            err |-> (b2 + 1) * dx - (a2 + 1) * dy]
      BY Zenon DEF LineAt
    <2> HIDE DEF p, e, dx, dy, tx, ty, a2, b2
    <2>6. bochs_line_turn(p, x1, y1, x2, y2) = LineAt(x1, y1, x2, y2, a2, b2)
      BY <2>1, <2>2, <2>3, <2>4, <2>5, Zenon
    <2>7. TurnTo(x1, y1, x2, y2, a, b) = LineAt(x1, y1, x2, y2, a2, b2)
      BY <1>5, Zenon DEF TurnTo, e, dx, dy, a2, b2
    <2> QED
      BY <2>6, <2>7, Zenon DEF p
  <1> QED
    BY <1>4, <1>5, Zenon

AtMost(k, D) == IF k < D THEN k ELSE D

\* Where the loop is after k turns.
Reaches(p, k, x1, y1, x2, y2) ==
    LET dx == Abs(x2 - x1)
        dy == Abs(y2 - y1)
    IN  IF dx >= dy
        THEN \E b : Nearest(dx, AtMost(k, dx), dy, b) /\ p = LineAt(x1, y1, x2, y2, AtMost(k, dx), b)
        ELSE \E a : Nearest(dy, AtMost(k, dy), dx, a) /\ p = LineAt(x1, y1, x2, y2, a, AtMost(k, dy))

LineStart(x1, y1, x2, y2) == [x |-> x1, y |-> y1, err |-> Abs(x2 - x1) - Abs(y2 - y1)]

LEMMA ReachesStart ==
    ASSUME NEW x1 \in Int, NEW y1 \in Int, NEW x2 \in Int, NEW y2 \in Int
    PROVE  Reaches(LineStart(x1, y1, x2, y2), 0, x1, y1, x2, y2)
  <1> DEFINE dx == Abs(x2 - x1)
             dy == Abs(y2 - y1)
             tx == Toward(x1, x2)
             ty == Toward(y1, y2)
  <1>1. dx \in Nat /\ dy \in Nat /\ tx \in Int /\ ty \in Int
    <2>1. tx \in {1, -1} /\ ty \in {1, -1}
      BY Steps, Zenon
    <2>2. dx \in Nat /\ dy \in Nat
      BY Steps, Zenon
    <2> HIDE DEF tx, ty, dx, dy
    <2> QED
      BY <2>1, <2>2
  <1> HIDE DEF dx, dy, tx, ty
  <1>2. AtMost(0, dx) = 0 /\ AtMost(0, dy) = 0
    BY <1>1 DEF AtMost
  <1>3. x1 + 0 * tx = x1 /\ y1 + 0 * ty = y1 /\ (0 + 1) * dx - (0 + 1) * dy = dx - dy
    BY <1>1
  <1>4. LineStart(x1, y1, x2, y2) = LineAt(x1, y1, x2, y2, 0, 0)
    BY <1>3, Zenon DEF LineAt, LineStart, dx, dy, tx, ty
  <1>5. Nearest(dx, 0, dy, 0) /\ Nearest(dy, 0, dx, 0)
    BY <1>1, NearestStart
  <1> QED
    BY <1>2, <1>4, <1>5, Zenon DEF Reaches, dx, dy

LEMMA ReachesNext ==
    ASSUME NEW x1 \in Int, NEW y1 \in Int, NEW x2 \in Int, NEW y2 \in Int,
           NEW k \in Nat, NEW p, Reaches(p, k, x1, y1, x2, y2)
    PROVE  Reaches(bochs_line_turn(p, x1, y1, x2, y2), k + 1, x1, y1, x2, y2)
  <1> DEFINE dx == Abs(x2 - x1)
             dy == Abs(y2 - y1)
             e(a, b) == (b + 1) * dx - (a + 1) * dy
             At(a, b) == LineAt(x1, y1, x2, y2, a, b)
             turn(q) == bochs_line_turn(q, x1, y1, x2, y2)
  <1>1. dx \in Nat /\ dy \in Nat
    BY Steps, Zenon
  <1>2. ASSUME NEW a \in Nat, NEW b \in Nat
        PROVE  turn(At(a, b)) =
                           IF a = dx /\ b = dy THEN At(a, b)
                           ELSE At(IF 2 * e(a, b) > -dy THEN a + 1 ELSE a,
                                   IF 2 * e(a, b) < dx THEN b + 1 ELSE b)
    <2>1. turn(At(a, b)) = TurnTo(x1, y1, x2, y2, a, b)
      BY TurnAt
    <2> QED
      BY <2>1, Zenon DEF TurnTo
  <1>3. Reaches(p, k, x1, y1, x2, y2) <=>
          IF dx >= dy THEN \E b : Nearest(dx, AtMost(k, dx), dy, b) /\ p = At(AtMost(k, dx), b)
          ELSE \E a : Nearest(dy, AtMost(k, dy), dx, a) /\ p = At(a, AtMost(k, dy))
    BY Zenon DEF Reaches
  <1>4. Reaches(turn(p), k + 1, x1, y1, x2, y2) <=>
          IF dx >= dy THEN \E b : Nearest(dx, AtMost(k + 1, dx), dy, b) /\ turn(p) = At(AtMost(k + 1, dx), b)
          ELSE \E a : Nearest(dy, AtMost(k + 1, dy), dx, a) /\ turn(p) = At(a, AtMost(k + 1, dy))
    BY Zenon DEF Reaches
  <1> HIDE DEF dx, dy, At, turn
  <1>5. ASSUME dx >= dy, k < dx
        PROVE  Reaches(turn(p), k + 1, x1, y1, x2, y2)
    <2>1. AtMost(k, dx) = k /\ AtMost(k + 1, dx) = k + 1
      BY <1>1, <1>5 DEF AtMost
    <2>2. PICK b : Nearest(dx, k, dy, b) /\ p = At(k, b)
      BY <1>3, <1>5, <2>1
    <2> DEFINE P == b * dx
               Q == k * dy
               c == IF 2 * (b * dx - (k + 1) * dy) < -dx THEN b + 1 ELSE b
    <2>3. b \in Nat /\ -dx <= 2 * (P - Q) /\ 2 * (P - Q) < dx
      BY <1>5, <2>2 DEF Nearest
    <2>4. P \in Nat /\ Q \in Nat /\ e(k, b) = P + dx - (Q + dy) /\ b * dx - (k + 1) * dy = P - (Q + dy)
      BY <1>1, <2>3
    <2>5. dx = dy => P - Q = 0
      <3>1. ASSUME dx = dy PROVE b = k
        <4>1. P - Q = (b - k) * dx
          BY <1>1, <2>3, <3>1
        <4>2. b >= k + 1 => (b - k) * dx >= dx
          BY <1>1, <2>3
        <4>3. k >= b + 1 => (b - k) * dx <= -dx
          BY <1>1, <2>3
        <4> HIDE DEF P, Q
        <4> QED
          BY <1>1, <1>5, <2>3, <4>1, <4>2, <4>3
      <3> QED
        BY <1>1, <2>3, <3>1
    <2>6. 2 * e(k, b) > -dy /\ (2 * e(k, b) < dx <=> 2 * (b * dx - (k + 1) * dy) < -dx)
      <3> DEFINE E == e(k, b)
                 F == b * dx - (k + 1) * dy
      <3>1. E = P + dx - (Q + dy) /\ F = P - (Q + dy)
        BY <2>4
      <3> HIDE DEF P, Q, E, F
      <3>2. 2 * E > -dy /\ (2 * E < dx <=> 2 * F < -dx)
        BY <1>1, <1>5, <2>3, <2>4, <2>5, <3>1
      <3> QED
        BY <3>2 DEF E, F
    <2>7. turn(p) = At(k + 1, c)
      <3>1. ~(k = dx /\ b = dy)
        BY <1>1, <1>5
      <3> HIDE DEF e
      <3> QED
        BY <1>2, <2>2, <2>3, <2>6, <3>1
    <2>8. Nearest(dx, k + 1, dy, c)
      BY <1>1, <1>5, <2>2, NearestStep
    <2> HIDE DEF c
    <2> QED
      BY <1>4, <1>5, <2>1, <2>7, <2>8
  <1>6. ASSUME ~(dx >= dy), k < dy
        PROVE  Reaches(turn(p), k + 1, x1, y1, x2, y2)
    <2>1. AtMost(k, dy) = k /\ AtMost(k + 1, dy) = k + 1
      BY <1>1, <1>6 DEF AtMost
    <2>2. PICK a : Nearest(dy, k, dx, a) /\ p = At(a, k)
      BY <1>3, <1>6, <2>1
    <2> DEFINE P == a * dy
               Q == k * dx
               c == IF 2 * (a * dy - (k + 1) * dx) < -dy THEN a + 1 ELSE a
    <2>3. a \in Nat /\ -dy <= 2 * (P - Q) /\ 2 * (P - Q) < dy
      BY <1>1, <1>6, <2>2 DEF Nearest
    <2>4. P \in Nat /\ Q \in Nat /\ e(a, k) = Q + dx - (P + dy) /\ a * dy - (k + 1) * dx = P - (Q + dx)
      BY <1>1, <2>3
    <2>6. 2 * e(a, k) < dx /\ (2 * e(a, k) > -dy <=> 2 * (a * dy - (k + 1) * dx) < -dy)
      <3> DEFINE E == e(a, k)
                 F == a * dy - (k + 1) * dx
      <3>1. E = Q + dx - (P + dy) /\ F = P - (Q + dx)
        BY <2>4
      <3> HIDE DEF P, Q, E, F
      <3>2. 2 * E < dx /\ (2 * E > -dy <=> 2 * F < -dy)
        BY <1>1, <1>6, <2>3, <2>4, <3>1
      <3> QED
        BY <3>2 DEF E, F
    <2>7. turn(p) = At(c, k + 1)
      <3>1. ~(a = dx /\ k = dy)
        BY <1>1, <1>6
      <3> HIDE DEF e
      <3> QED
        BY <1>2, <2>2, <2>3, <2>6, <3>1
    <2>8. Nearest(dy, k + 1, dx, c)
      <3>1. dx <= dy
        BY <1>1, <1>6
      <3> QED
        BY <1>1, <1>6, <2>2, <3>1, NearestStep
    <2> HIDE DEF c
    <2> QED
      BY <1>4, <1>6, <2>1, <2>7, <2>8
  <1>7. ASSUME dx >= dy, ~(k < dx)
        PROVE  Reaches(turn(p), k + 1, x1, y1, x2, y2)
    <2>1. AtMost(k, dx) = dx /\ AtMost(k + 1, dx) = dx
      BY <1>1, <1>7 DEF AtMost
    <2>2. PICK b : Nearest(dx, dx, dy, b) /\ p = At(dx, b)
      BY <1>3, <1>7, <2>1
    <2>3. b = dy
      BY <1>1, <1>7, <2>2, NearestEnd
    <2>4. turn(p) = p
      BY <1>1, <1>2, <2>2, <2>3, Zenon
    <2> QED
      BY <1>4, <1>7, <2>1, <2>2, <2>4
  <1>8. ASSUME ~(dx >= dy), ~(k < dy)
        PROVE  Reaches(turn(p), k + 1, x1, y1, x2, y2)
    <2>1. AtMost(k, dy) = dy /\ AtMost(k + 1, dy) = dy
      BY <1>1, <1>8 DEF AtMost
    <2>2. PICK a : Nearest(dy, dy, dx, a) /\ p = At(a, dy)
      BY <1>3, <1>8, <2>1
    <2>3. a = dx
      <3>1. dx <= dy
        BY <1>1, <1>8
      <3> QED
        BY <1>1, <2>2, <3>1, NearestEnd
    <2>4. turn(p) = p
      BY <1>1, <1>2, <2>2, <2>3, Zenon
    <2> QED
      BY <1>4, <1>8, <2>1, <2>2, <2>4
  <1>9. Reaches(turn(p), k + 1, x1, y1, x2, y2)
    BY <1>5, <1>6, <1>7, <1>8, Zenon
  <1> QED
    BY <1>9 DEF turn

\* The points of a walk of n turns.
Walks(g, n, x1, y1, x2, y2) ==
    g = [k \in 0..n |-> IF k = 0 THEN LineStart(x1, y1, x2, y2)
                        ELSE bochs_line_turn(g[k - 1], x1, y1, x2, y2)]

Follows(g, k, x1, y1, x2, y2) ==
    /\ k = 0 => g[k] = LineStart(x1, y1, x2, y2)
    /\ k # 0 => g[k] = bochs_line_turn(g[k - 1], x1, y1, x2, y2)

LEMMA WalkStep ==
    ASSUME NEW x1, NEW y1, NEW x2, NEW y2, NEW n \in Nat, NEW g, Walks(g, n, x1, y1, x2, y2),
           NEW k \in 0..n
    PROVE  Follows(g, k, x1, y1, x2, y2)
  <1> DEFINE start == LineStart(x1, y1, x2, y2)
             turn(p) == bochs_line_turn(p, x1, y1, x2, y2)
             h == [j \in 0..n |-> IF j = 0 THEN start ELSE turn(g[j - 1])]
  <1>1. g = h
    BY Zenon DEF Walks
  <1> HIDE DEF start, turn
  <1>2. (k = 0 => h[k] = start) /\ (k # 0 => h[k] = turn(g[k - 1]))
    OBVIOUS
  <1> HIDE DEF h
  <1>3. (k = 0 => g[k] = start) /\ (k # 0 => g[k] = turn(g[k - 1]))
    BY <1>1, <1>2
  <1> QED
    BY <1>3, Zenon DEF start, turn, Follows

LEMMA WalkExists ==
    ASSUME NEW x1, NEW y1, NEW x2, NEW y2, NEW n \in Nat
    PROVE  \E g : Walks(g, n, x1, y1, x2, y2)
  <1> DEFINE start == LineStart(x1, y1, x2, y2)
             turn(p) == bochs_line_turn(p, x1, y1, x2, y2)
             Is(g, m) == Walks(g, m, x1, y1, x2, y2)
             bad == {m \in Nat : ~ \E g : Is(g, m)}
  <1>1. \A g, m : Is(g, m) <=> g = [k \in 0..m |-> IF k = 0 THEN start ELSE turn(g[k - 1])]
    BY Zenon DEF Walks
  <1>2. ASSUME NEW m \in Nat, NEW g, Is(g, m), NEW k \in 0..m
        PROVE  (k = 0 => g[k] = start) /\ (k # 0 => g[k] = turn(g[k - 1]))
    <2>1. Follows(g, k, x1, y1, x2, y2)
      BY <1>2, WalkStep
    <2> QED
      BY <2>1, Zenon DEF Follows
  <1> HIDE DEF start, turn, Is
  <1>3. bad = {}
    <2>1. SUFFICES ASSUME bad # {} PROVE FALSE
      OBVIOUS
    <2>2. PICK m \in bad : \A k \in bad : m <= k
      <3>1. bad \in SUBSET Nat
        OBVIOUS
      <3> HIDE DEF bad
      <3> QED
        BY <2>1, <3>1, Smallest
    <2>3. m \in Nat /\ ~ \E g : Is(g, m)
      OBVIOUS
    <2>4. CASE m = 0
      <3> DEFINE g == [k \in 0..0 |-> start]
      <3>1. g = [k \in 0..0 |-> IF k = 0 THEN start ELSE turn(g[k - 1])]
        OBVIOUS
      <3>2. Is(g, 0)
        BY <1>1, <3>1, Zenon
      <3> QED
        BY <2>3, <2>4, <3>2
    <2>5. CASE m # 0
      <3>1. m - 1 \in Nat /\ m - 1 \notin bad
        <4> HIDE DEF bad
        <4>1. m - 1 \in Nat /\ ~(m <= m - 1)
          BY <2>3, <2>5
        <4> QED
          BY <2>2, <4>1
      <3>2. PICK f : Is(f, m - 1)
        BY <3>1
      <3> DEFINE g == [k \in 0..m |-> IF k = m THEN turn(f[m - 1]) ELSE f[k]]
      <3>3. g[m - 1] = f[m - 1]
        BY <2>3, <3>1
      <3>4. ASSUME NEW k \in 0..m
            PROVE  g[k] = IF k = 0 THEN start ELSE turn(g[k - 1])
        <4>1. CASE k = m
          BY <2>5, <3>3, <4>1
        <4>2. CASE k # m
          <5>1. k \in 0..(m - 1) /\ g[k] = f[k]
            BY <2>3, <4>2
          <5>2. k # 0 => g[k - 1] = f[k - 1]
            BY <2>3, <4>2
          <5>3. (k = 0 => f[k] = start) /\ (k # 0 => f[k] = turn(f[k - 1]))
            BY <1>2, <3>1, <3>2, <5>1, Zenon
          <5> HIDE DEF g
          <5> QED
            BY <5>1, <5>2, <5>3
        <4> QED
          BY <4>1, <4>2
      <3>5. g = [k \in 0..m |-> IF k = 0 THEN start ELSE turn(g[k - 1])]
        BY <3>4, Zenon
      <3>6. Is(g, m)
        BY <1>1, <3>5, Zenon
      <3> QED
        BY <2>3, <3>6
    <2> QED
      BY <2>4, <2>5
  <1>4. \E g : Is(g, n)
    BY <1>3
  <1> QED
    BY <1>4 DEF Is

LEMMA WalkReaches ==
    ASSUME NEW x1 \in Int, NEW y1 \in Int, NEW x2 \in Int, NEW y2 \in Int,
           NEW n \in Nat, NEW g, Walks(g, n, x1, y1, x2, y2)
    PROVE  \A k \in 0..n : Reaches(g[k], k, x1, y1, x2, y2)
  <1> DEFINE bad == {k \in 0..n : ~Reaches(g[k], k, x1, y1, x2, y2)}
  <1>1. SUFFICES ASSUME bad # {} PROVE FALSE
    OBVIOUS
  <1>2. PICK k \in bad : \A j \in bad : k <= j
    <2>1. bad \in SUBSET Nat
      OBVIOUS
    <2> HIDE DEF bad
    <2> QED
      BY <1>1, <2>1, Smallest
  <1>3. k \in 0..n /\ ~Reaches(g[k], k, x1, y1, x2, y2)
    OBVIOUS
  <1>4. CASE k = 0
    <2>1. g[k] = LineStart(x1, y1, x2, y2)
      <3>1. Follows(g, k, x1, y1, x2, y2)
        BY <1>3, WalkStep
      <3> QED
        BY <1>4, <3>1, Zenon DEF Follows
    <2> QED
      BY <1>3, <1>4, <2>1, ReachesStart
  <1>5. CASE k # 0
    <2>1. k - 1 \in 0..n /\ k - 1 \in Nat /\ k - 1 + 1 = k
      BY <1>3, <1>5
    <2>2. Reaches(g[k - 1], k - 1, x1, y1, x2, y2)
      <3>1. k - 1 \notin bad
        <4> HIDE DEF bad
        <4> QED
          BY <1>2, <1>3, <2>1
      <3> QED
        BY <2>1, <3>1
    <2>3. g[k] = bochs_line_turn(g[k - 1], x1, y1, x2, y2)
      <3>1. Follows(g, k, x1, y1, x2, y2)
        BY <1>3, WalkStep
      <3> QED
        BY <1>5, <3>1, Zenon DEF Follows
    <2> QED
      BY <1>3, <2>1, <2>2, <2>3, ReachesNext
  <1> QED
    BY <1>4, <1>5

LEMMA LineIsWalk ==
    ASSUME NEW x1, NEW y1, NEW x2, NEW y2
    PROVE  \E g : /\ Walks(g, width + height, x1, y1, x2, y2)
                  /\ bochs_line(x1, y1, x2, y2) =
                       UNION {bochs_pixel(g[k].x, g[k].y) : k \in 0..(width + height)}
  <1> DEFINE g == CHOOSE f :
                    f = [k \in 0..(width + height) |->
                           IF k = 0 THEN LineStart(x1, y1, x2, y2)
                           ELSE bochs_line_turn(f[k - 1], x1, y1, x2, y2)]
  <1>1. width + height \in Nat
    BY ScreenSize
  <1>2. PICK f : Walks(f, width + height, x1, y1, x2, y2)
    BY <1>1, WalkExists
  <1>3. Walks(g, width + height, x1, y1, x2, y2)
    BY <1>2, Zenon DEF Walks
  <1>4. bochs_line(x1, y1, x2, y2) = UNION {bochs_pixel(g[k].x, g[k].y) : k \in 0..(width + height)}
    BY Zenon DEF bochs_line, LineStart
  <1> HIDE DEF g
  <1> QED
    BY <1>3, <1>4

\* bochs_line draws the pixels nearest to the line that are on the screen.
LEMMA LineCovers ==
    ASSUME NEW x1 \in 0..width, NEW y1 \in 0..height, NEW x2 \in 0..width, NEW y2 \in 0..height
    PROVE  /\ bochs_line(x1, y1, x2, y2) \subseteq Pixels
           /\ \A i \in Pixels : i \in bochs_line(x1, y1, x2, y2) <=> OnLine(i, x1, y1, x2, y2)
  <1> DEFINE dx == Abs(x2 - x1)
             dy == Abs(y2 - y1)
             tx == Toward(x1, x2)
             ty == Toward(y1, y2)
             N == width + height
             At(a, b) == LineAt(x1, y1, x2, y2, a, b)
  <1>0. /\ x1 \in Nat /\ y1 \in Nat /\ x2 \in Nat /\ y2 \in Nat /\ N \in Nat
        /\ x1 \in Int /\ y1 \in Int /\ x2 \in Int /\ y2 \in Int
    BY ScreenSize
  <1>1. dx \in Nat /\ dy \in Nat /\ dx <= N /\ dy <= N
    BY <1>0, ScreenSize DEF Abs
  <1>2. PICK g : /\ Walks(g, N, x1, y1, x2, y2)
                 /\ bochs_line(x1, y1, x2, y2) = UNION {bochs_pixel(g[k].x, g[k].y) : k \in 0..N}
    BY LineIsWalk, Zenon
  <1>3. ASSUME NEW k \in 0..N PROVE Reaches(g[k], k, x1, y1, x2, y2)
    BY <1>0, <1>2, WalkReaches
  <1>4. ASSUME NEW i \in Pixels
        PROVE  OnLine(i, x1, y1, x2, y2) <=>
                 IF dx >= dy THEN Nearest(dx, (Col(i) - x1) * tx, dy, (Row(i) - y1) * ty)
                 ELSE Nearest(dy, (Row(i) - y1) * ty, dx, (Col(i) - x1) * tx)
    BY Zenon DEF OnLine
  <1>5. ASSUME NEW a, NEW b PROVE At(a, b).x = x1 + a * tx /\ At(a, b).y = y1 + b * ty
    BY DEF LineAt
  <1>6. /\ \A a \in Int : /\ ((x1 + a * tx) - x1) * tx = a
                          /\ x1 + ((a - x1) * tx) * tx = a
        /\ \A b \in Int : /\ ((y1 + b * ty) - y1) * ty = b
                          /\ y1 + ((b - y1) * ty) * ty = b
    <2>1. tx \in {1, -1} /\ ty \in {1, -1}
      BY <1>0, Steps, Zenon
    <2> HIDE DEF tx, ty
    <2> QED
      BY <1>0, <2>1
  <1>7. ASSUME NEW k \in 0..N
        PROVE  Reaches(g[k], k, x1, y1, x2, y2) <=>
                 IF dx >= dy THEN \E b : Nearest(dx, AtMost(k, dx), dy, b) /\ g[k] = At(AtMost(k, dx), b)
                 ELSE \E a : Nearest(dy, AtMost(k, dy), dx, a) /\ g[k] = At(a, AtMost(k, dy))
    BY Zenon DEF Reaches
  <1> HIDE DEF dx, dy, tx, ty, At, N
  <1>8. ASSUME NEW k \in 0..N
        PROVE  \E a, b \in Nat : /\ g[k] = At(a, b)
                                 /\ dx >= dy => Nearest(dx, a, dy, b) /\ (k <= dx => a = k)
                                 /\ ~(dx >= dy) => Nearest(dy, b, dx, a) /\ (k <= dy => b = k)
    <2>1. k \in Nat
      BY <1>0
    <2>2. AtMost(k, dx) \in Nat /\ (k <= dx => AtMost(k, dx) = k)
          /\ AtMost(k, dy) \in Nat /\ (k <= dy => AtMost(k, dy) = k)
      BY <1>1, <2>1 DEF AtMost
    <2>3. CASE dx >= dy
      <3>1. PICK b : Nearest(dx, AtMost(k, dx), dy, b) /\ g[k] = At(AtMost(k, dx), b)
        BY <1>3, <1>7, <2>3, Zenon
      <3>2. b \in Nat
        BY <1>1, <3>1 DEF Nearest
      <3> QED
        BY <2>2, <2>3, <3>1, <3>2
    <2>4. CASE ~(dx >= dy)
      <3>1. PICK a : Nearest(dy, AtMost(k, dy), dx, a) /\ g[k] = At(a, AtMost(k, dy))
        BY <1>3, <1>7, <2>4, Zenon
      <3>2. a \in Nat
        BY <1>1, <3>1 DEF Nearest
      <3> QED
        BY <2>2, <2>4, <3>1, <3>2
    <2> QED
      BY <2>3, <2>4
  <1>9. ASSUME NEW k \in 0..N, NEW i \in bochs_pixel(g[k].x, g[k].y)
        PROVE  i \in Pixels /\ OnLine(i, x1, y1, x2, y2)
    <2> DEFINE x == g[k].x
               y == g[k].y
    <2>1. x \in Columns /\ y \in Rows /\ i = y * width + x
      BY <1>9 DEF bochs_pixel, Columns, Rows
    <2>2. i \in Pixels /\ Row(i) = y /\ Col(i) = x
      BY <2>1, PixelOfPlace
    <2>3. PICK a, b \in Nat : /\ g[k] = At(a, b)
                              /\ dx >= dy => Nearest(dx, a, dy, b)
                              /\ ~(dx >= dy) => Nearest(dy, b, dx, a)
      BY <1>8
    <2>4. x = x1 + a * tx /\ y = y1 + b * ty
      BY <1>5, <2>3
    <2>5. (Col(i) - x1) * tx = a /\ (Row(i) - y1) * ty = b
      BY <1>6, <2>2, <2>3, <2>4
    <2> QED
      BY <1>4, <2>2, <2>3, <2>5
  <1>10. ASSUME NEW i \in Pixels, OnLine(i, x1, y1, x2, y2)
         PROVE  \E k \in 0..N : i \in bochs_pixel(g[k].x, g[k].y)
    <2> DEFINE a == (Col(i) - x1) * tx
               b == (Row(i) - y1) * ty
    <2>1. Col(i) \in Columns /\ Row(i) \in Rows /\ i = Row(i) * width + Col(i) /\ Col(i) \in Int /\ Row(i) \in Int
      BY PlaceOfPixel DEF Columns, Rows
    <2>2. Col(i) = x1 + a * tx /\ Row(i) = y1 + b * ty
      BY <1>6, <2>1
    <2>3. (dx >= dy => Nearest(dx, a, dy, b)) /\ (~(dx >= dy) => Nearest(dy, b, dx, a))
      BY <1>4, <1>10
    <2> HIDE DEF a, b
    <2>4. CASE dx >= dy
      <3>1. a \in 0..N /\ a <= dx /\ Nearest(dx, a, dy, b)
        BY <1>0, <1>1, <2>3, <2>4 DEF Nearest
      <3>2. PICK a2, b2 \in Nat : g[a] = At(a2, b2) /\ Nearest(dx, a2, dy, b2) /\ a2 = a
        BY <1>8, <2>4, <3>1
      <3>3. b2 = b
        BY <1>1, <2>4, <3>1, <3>2, NearestUnique
      <3>4. g[a].x = Col(i) /\ g[a].y = Row(i)
        BY <1>5, <2>2, <3>2, <3>3
      <3>5. i \in bochs_pixel(g[a].x, g[a].y)
        BY <2>1, <3>4 DEF bochs_pixel, Columns, Rows
      <3> QED
        BY <3>1, <3>5
    <2>5. CASE ~(dx >= dy)
      <3>1. b \in 0..N /\ b <= dy /\ dx <= dy /\ Nearest(dy, b, dx, a)
        BY <1>0, <1>1, <2>3, <2>5 DEF Nearest
      <3>2. PICK a2, b2 \in Nat : g[b] = At(a2, b2) /\ Nearest(dy, b2, dx, a2) /\ b2 = b
        BY <1>8, <2>5, <3>1
      <3>3. a2 = a
        BY <1>1, <3>1, <3>2, NearestUnique
      <3>4. g[b].x = Col(i) /\ g[b].y = Row(i)
        BY <1>5, <2>2, <3>2, <3>3
      <3>5. i \in bochs_pixel(g[b].x, g[b].y)
        BY <2>1, <3>4 DEF bochs_pixel, Columns, Rows
      <3> QED
        BY <3>1, <3>5
    <2> QED
      BY <2>4, <2>5
  <1>11. bochs_line(x1, y1, x2, y2) \subseteq Pixels
    BY <1>2, <1>9, Zenon DEF N
  <1>12. ASSUME NEW i \in Pixels
         PROVE  i \in bochs_line(x1, y1, x2, y2) <=> OnLine(i, x1, y1, x2, y2)
    BY <1>2, <1>9, <1>10, Zenon DEF N
  <1> QED
    BY <1>11, <1>12

(***************************************************************************)
(* Block copies.  A word is copied before it is overwritten, so that after *)
(* all copies every target holds what its source held at the start.        *)
(***************************************************************************)
\* The word of the k-th copy in the block at <<x, y>>.
WordAt(x, y, w, rows, k) == (y + rows[((k - 1) \div w) + 1]) * width + x + ((k - 1) % w)

BlitStep(v, sx, sy, dx, dy, w, rows, k) ==
    [v EXCEPT ![WordAt(dx, dy, w, rows, k)] = v[WordAt(sx, sy, w, rows, k)]]

Copies(g, n, sx, sy, dx, dy, w, rows) ==
    g = [k \in 0..n |-> IF k = 0 THEN fb ELSE BlitStep(g[k - 1], sx, sy, dx, dy, w, rows, k)]

CopyFollows(g, k, sx, sy, dx, dy, w, rows) ==
    /\ k = 0 => g[k] = fb
    /\ k # 0 => g[k] = BlitStep(g[k - 1], sx, sy, dx, dy, w, rows, k)

LEMMA CopyStep ==
    ASSUME NEW sx, NEW sy, NEW dx, NEW dy, NEW w, NEW rows, NEW n \in Nat, NEW g,
           Copies(g, n, sx, sy, dx, dy, w, rows), NEW k \in 0..n
    PROVE  CopyFollows(g, k, sx, sy, dx, dy, w, rows)
  <1> DEFINE turn(v, j) == BlitStep(v, sx, sy, dx, dy, w, rows, j)
             h == [j \in 0..n |-> IF j = 0 THEN fb ELSE turn(g[j - 1], j)]
  <1>1. g = h
    BY Zenon DEF Copies
  <1> HIDE DEF turn
  <1>2. (k = 0 => h[k] = fb) /\ (k # 0 => h[k] = turn(g[k - 1], k))
    OBVIOUS
  <1> HIDE DEF h
  <1>3. (k = 0 => g[k] = fb) /\ (k # 0 => g[k] = turn(g[k - 1], k))
    BY <1>1, <1>2
  <1> QED
    BY <1>3, Zenon DEF turn, CopyFollows

LEMMA CopiesExist ==
    ASSUME NEW sx, NEW sy, NEW dx, NEW dy, NEW w, NEW rows, NEW n \in Nat
    PROVE  \E g : Copies(g, n, sx, sy, dx, dy, w, rows)
  <1> DEFINE turn(v, j) == BlitStep(v, sx, sy, dx, dy, w, rows, j)
             Is(g, m) == Copies(g, m, sx, sy, dx, dy, w, rows)
             bad == {m \in Nat : ~ \E g : Is(g, m)}
  <1>1. \A g, m : Is(g, m) <=> g = [k \in 0..m |-> IF k = 0 THEN fb ELSE turn(g[k - 1], k)]
    BY Zenon DEF Copies
  <1>2. ASSUME NEW m \in Nat, NEW g, Is(g, m), NEW k \in 0..m
        PROVE  (k = 0 => g[k] = fb) /\ (k # 0 => g[k] = turn(g[k - 1], k))
    <2>1. CopyFollows(g, k, sx, sy, dx, dy, w, rows)
      BY <1>2, CopyStep
    <2> QED
      BY <2>1, Zenon DEF CopyFollows
  <1> HIDE DEF turn, Is
  <1>3. bad = {}
    <2>1. SUFFICES ASSUME bad # {} PROVE FALSE
      OBVIOUS
    <2>2. PICK m \in bad : \A k \in bad : m <= k
      <3>1. bad \in SUBSET Nat
        OBVIOUS
      <3> HIDE DEF bad
      <3> QED
        BY <2>1, <3>1, Smallest
    <2>3. m \in Nat /\ ~ \E g : Is(g, m)
      OBVIOUS
    <2>4. CASE m = 0
      <3> DEFINE g == [k \in 0..0 |-> fb]
      <3>1. g = [k \in 0..0 |-> IF k = 0 THEN fb ELSE turn(g[k - 1], k)]
        OBVIOUS
      <3>2. Is(g, 0)
        BY <1>1, <3>1, Zenon
      <3> QED
        BY <2>3, <2>4, <3>2
    <2>5. CASE m # 0
      <3>1. m - 1 \in Nat /\ m - 1 \notin bad
        <4> HIDE DEF bad
        <4>1. m - 1 \in Nat /\ ~(m <= m - 1)
          BY <2>3, <2>5
        <4> QED
          BY <2>2, <4>1
      <3>2. PICK f : Is(f, m - 1)
        BY <3>1
      <3> DEFINE g == [k \in 0..m |-> IF k = m THEN turn(f[m - 1], m) ELSE f[k]]
      <3>3. g[m - 1] = f[m - 1]
        BY <2>3, <3>1
      <3>4. ASSUME NEW k \in 0..m
            PROVE  g[k] = IF k = 0 THEN fb ELSE turn(g[k - 1], k)
        <4>1. CASE k = m
          BY <2>5, <3>3, <4>1
        <4>2. CASE k # m
          <5>1. k \in 0..(m - 1) /\ g[k] = f[k]
            BY <2>3, <4>2
          <5>2. k # 0 => g[k - 1] = f[k - 1]
            BY <2>3, <4>2
          <5>3. (k = 0 => f[k] = fb) /\ (k # 0 => f[k] = turn(f[k - 1], k))
            BY <1>2, <3>1, <3>2, <5>1, Zenon
          <5> HIDE DEF g
          <5> QED
            BY <5>1, <5>2, <5>3
        <4> QED
          BY <4>1, <4>2
      <3>5. g = [k \in 0..m |-> IF k = 0 THEN fb ELSE turn(g[k - 1], k)]
        BY <3>4, Zenon
      <3>6. Is(g, m)
        BY <1>1, <3>5, Zenon
      <3> QED
        BY <2>3, <3>6
    <2> QED
      BY <2>4, <2>5
  <1>4. \E g : Is(g, n)
    BY <1>3
  <1> QED
    BY <1>4 DEF Is

\* What the words hold after k copies from S to T on a fresh screen.
Copied(v, k, S, T) ==
    /\ DOMAIN v = Pixels
    /\ \A j \in 1..k : v[T[j]] = S[j]
    /\ \A i \in Pixels : (\A j \in 1..k : T[j] # i) => v[i] = i

LEMMA CopiedInOrder ==
    ASSUME NEW n \in Nat, NEW S \in [1..n -> Pixels], NEW T \in [1..n -> Pixels], NEW g,
           g[0] = Fresh,
           \A k \in 1..n : g[k] = [g[k - 1] EXCEPT ![T[k]] = g[k - 1][S[k]]],
           \A j, k \in 1..n : j < k => S[k] # T[j] /\ T[k] # T[j]
    PROVE  Copied(g[n], n, S, T)
  <1> DEFINE bad == {k \in 0..n : ~Copied(g[k], k, S, T)}
  <1>1. SUFFICES ASSUME bad # {} PROVE FALSE
    OBVIOUS
  <1>2. PICK k \in bad : \A j \in bad : k <= j
    <2>1. bad \in SUBSET Nat
      OBVIOUS
    <2> HIDE DEF bad
    <2> QED
      BY <1>1, <2>1, Smallest
  <1>3. k \in 0..n /\ ~Copied(g[k], k, S, T)
    OBVIOUS
  <1>4. CASE k = 0
    <2>1. DOMAIN Fresh = Pixels /\ \A i \in Pixels : Fresh[i] = i
      BY DEF Fresh
    <2>2. g[k] = Fresh /\ 1..k = {}
      BY <1>4
    <2> QED
      BY <1>3, <2>1, <2>2 DEF Copied
  <1>5. CASE k # 0
    <2>1. k - 1 \in 0..n /\ k \in 1..n /\ k \in Nat
      BY <1>3, <1>5
    <2>2. Copied(g[k - 1], k - 1, S, T)
      <3>1. k - 1 \notin bad
        <4> HIDE DEF bad
        <4> QED
          BY <1>2, <1>3, <2>1
      <3> QED
        BY <2>1, <3>1
    <2>3. PICK u : u = g[k - 1]
      OBVIOUS
    <2>4. g[k] = [u EXCEPT ![T[k]] = u[S[k]]]
      BY <2>1, <2>3
    <2>5. S[k] \in Pixels /\ T[k] \in Pixels
      BY <2>1
    <2>6. /\ DOMAIN u = Pixels
          /\ \A j \in 1..(k - 1) : u[T[j]] = S[j]
          /\ \A i \in Pixels : (\A j \in 1..(k - 1) : T[j] # i) => u[i] = i
      BY <2>2, <2>3 DEF Copied
    <2>7. DOMAIN g[k] = Pixels /\ g[k][T[k]] = u[S[k]] /\ \A i \in Pixels : i # T[k] => g[k][i] = u[i]
      BY <2>4, <2>5, <2>6
    <2>8. \A j \in 1..(k - 1) : j \in 1..n /\ S[k] # T[j] /\ T[k] # T[j] /\ T[j] \in Pixels
      <3> TAKE j \in 1..(k - 1)
      <3>1. j \in 1..n /\ j < k
        BY <2>1
      <3> QED
        BY <2>1, <3>1
    <2>9. u[S[k]] = S[k]
      BY <2>5, <2>6, <2>8
    <2>10. \A j \in 1..k : g[k][T[j]] = S[j]
      <3> TAKE j \in 1..k
      <3>1. CASE j = k
        BY <2>7, <2>9, <3>1
      <3>2. CASE j # k
        <4>1. j \in 1..(k - 1)
          BY <2>1, <3>2
        <4> QED
          BY <2>6, <2>7, <2>8, <4>1
      <3> QED
        BY <3>1, <3>2
    <2>11. \A i \in Pixels : (\A j \in 1..k : T[j] # i) => g[k][i] = i
      <3> SUFFICES ASSUME NEW i \in Pixels, \A j \in 1..k : T[j] # i PROVE g[k][i] = i
        OBVIOUS
      <3>1. i # T[k]
        BY <2>1
      <3>2. \A j \in 1..(k - 1) : T[j] # i
        BY <2>1
      <3> QED
        BY <2>6, <2>7, <3>1, <3>2
    <2> QED
      BY <1>3, <2>7, <2>10, <2>11 DEF Copied
  <1> QED
    BY <1>4, <1>5

\* The row the q-th row of copies is in: from the end of the block when it moves down.
RowOfCopy(sy, dy, h, q) == IF sy < dy THEN h - 1 - q ELSE q

\* Where the k-th copy is: rows in the order of the loop, words from the left.
LEMMA CopyPlace ==
    ASSUME NEW w \in Nat, NEW h \in Nat, w > 0, NEW sy \in Nat, NEW dy \in Nat,
           NEW k \in 1..(w * h)
    PROVE  LET q == (k - 1) \div w
               c == (k - 1) % w
           IN  /\ q \in 0..(h - 1) /\ c \in 0..(w - 1) /\ k = q * w + c + 1
               /\ blit_rows(sy, dy, h)[q + 1] = RowOfCopy(sy, dy, h, q)
  <1> DEFINE q == (k - 1) \div w
             c == (k - 1) % w
  <1>1. w * h \in Nat /\ k - 1 \in Nat /\ k - 1 < w * h
    BY DEF Nat
  <1>2. q \in Nat /\ c \in 0..(w - 1) /\ k - 1 = w * q + c /\ w * q = q * w
    BY <1>1
  <1>3. q < h
    <2>1. SUFFICES ASSUME q >= h PROVE FALSE
      BY <1>2
    <2>2. w * q >= w * h
      BY <1>2, <2>1
    <2> HIDE DEF q, c
    <2> QED
      BY <1>1, <1>2, <2>2
  <1>4. q \in 0..(h - 1) /\ q + 1 \in 1..h
    BY <1>2, <1>3
  <1>5. k = q * w + c + 1
    <2> HIDE DEF q, c
    <2> QED
      BY <1>1, <1>2
  <1> HIDE DEF q, c
  <1>6. blit_rows(sy, dy, h)[q + 1] = RowOfCopy(sy, dy, h, q)
    BY <1>4 DEF blit_rows, RowOfCopy
  <1> QED
    BY <1>2, <1>4, <1>5, <1>6 DEF q, c

LEMMA EarlierCopy ==
    ASSUME NEW w \in Nat, w > 0, NEW q1 \in Nat, NEW c1 \in 0..(w - 1), NEW q2 \in Nat,
           NEW c2 \in 0..(w - 1), q1 * w + c1 < q2 * w + c2
    PROVE  q1 < q2 \/ (q1 = q2 /\ c1 < c2)
  <1>1. q1 * w \in Nat /\ q2 * w \in Nat
    OBVIOUS
  <1>2. q1 >= q2 + 1 => q1 * w >= q2 * w + w
    OBVIOUS
  <1> QED
    BY <1>1, <1>2

\* The pixel of the k-th copy.
IsWord(i, x, y, w, h, sy, dy, k) ==
    /\ i \in Pixels
    /\ Row(i) = y + RowOfCopy(sy, dy, h, (k - 1) \div w)
    /\ Col(i) = x + ((k - 1) % w)

LEMMA WordPlace ==
    ASSUME NEW x \in Nat, NEW y \in Nat, NEW w \in Nat, NEW h \in Nat, w > 0,
           x + w <= width, y + h <= height,
           NEW sy \in Nat, NEW dy \in Nat, NEW k \in 1..(w * h)
    PROVE  IsWord(WordAt(x, y, w, blit_rows(sy, dy, h), k), x, y, w, h, sy, dy, k)
  <1> DEFINE q == (k - 1) \div w
             c == (k - 1) % w
             r == RowOfCopy(sy, dy, h, q)
             i == WordAt(x, y, w, blit_rows(sy, dy, h), k)
  <1>1. q \in 0..(h - 1) /\ c \in 0..(w - 1) /\ blit_rows(sy, dy, h)[q + 1] = r
    BY CopyPlace
  <1>2. i = (y + blit_rows(sy, dy, h)[q + 1]) * width + x + c
    BY Zenon DEF WordAt
  <1> HIDE DEF q, c, i
  <1>3. r \in 0..(h - 1)
    BY <1>1 DEF RowOfCopy
  <1> HIDE DEF r
  <1>4. y + r \in Rows /\ x + c \in Columns
    BY <1>1, <1>3, ScreenSize DEF Rows, Columns
  <1>5. i = (y + r) * width + (x + c)
    <2>1. (y + r) * width \in Int
      BY <1>3, ScreenSize
    <2> QED
      BY <1>1, <1>2, <2>1
  <1>6. i \in Pixels /\ Row(i) = y + r /\ Col(i) = x + c
    BY <1>4, <1>5, PixelOfPlace
  <1> QED
    BY <1>6, Zenon DEF IsWord, q, c, r, i

\* No copy takes its word from where an earlier one has put another.
LEMMA CopiesInOrder ==
    ASSUME NEW w \in Nat, NEW h \in Nat, w > 0,
           NEW sx \in Nat, NEW sy \in Nat, NEW dx \in Nat, NEW dy \in Nat,
           sx + w <= width, sy + h <= height, dx + w <= width, dy + h <= height,
           ~(sy = dy /\ sx < dx /\ dx < sx + w),
           NEW j \in 1..(w * h), NEW k \in 1..(w * h), j < k
    PROVE  LET rows == blit_rows(sy, dy, h)
           IN  /\ WordAt(sx, sy, w, rows, k) # WordAt(dx, dy, w, rows, j)
               /\ WordAt(dx, dy, w, rows, k) # WordAt(dx, dy, w, rows, j)
  <1> DEFINE rows == blit_rows(sy, dy, h)
             q1 == (j - 1) \div w
             c1 == (j - 1) % w
             q2 == (k - 1) \div w
             c2 == (k - 1) % w
             S == WordAt(sx, sy, w, rows, k)
             T == WordAt(dx, dy, w, rows, k)
             U == WordAt(dx, dy, w, rows, j)
  <1>1. /\ q1 \in 0..(h - 1) /\ c1 \in 0..(w - 1) /\ j = q1 * w + c1 + 1
        /\ q2 \in 0..(h - 1) /\ c2 \in 0..(w - 1) /\ k = q2 * w + c2 + 1
    <2>1. q1 \in 0..(h - 1) /\ c1 \in 0..(w - 1) /\ j = q1 * w + c1 + 1
      BY CopyPlace, ZenonT(60)
    <2>2. q2 \in 0..(h - 1) /\ c2 \in 0..(w - 1) /\ k = q2 * w + c2 + 1
      BY CopyPlace, ZenonT(60)
    <2> QED
      BY <2>1, <2>2
  <1>2. /\ Row(S) = sy + RowOfCopy(sy, dy, h, q2) /\ Col(S) = sx + c2
        /\ Row(T) = dy + RowOfCopy(sy, dy, h, q2) /\ Col(T) = dx + c2
        /\ Row(U) = dy + RowOfCopy(sy, dy, h, q1) /\ Col(U) = dx + c1
    <2>1. IsWord(S, sx, sy, w, h, sy, dy, k)
      BY WordPlace
    <2>2. IsWord(T, dx, dy, w, h, sy, dy, k)
      BY WordPlace
    <2>3. IsWord(U, dx, dy, w, h, sy, dy, j)
      BY WordPlace
    <2> QED
      BY <2>1, <2>2, <2>3, Zenon DEF IsWord
  <1> HIDE DEF q1, q2, c1, c2, S, T, U
  <1>3. q1 < q2 \/ (q1 = q2 /\ c1 < c2)
    <2>1. q1 * w \in Nat /\ q2 * w \in Nat /\ q1 \in Nat /\ q2 \in Nat
      BY <1>1
    <2>2. q1 * w + c1 < q2 * w + c2
      BY <1>1, <2>1
    <2> QED
      BY <1>1, <2>1, <2>2, EarlierCopy
  <1>4. S # U
    <2>1. SUFFICES ASSUME Row(S) = Row(U), Col(S) = Col(U) PROVE FALSE
      BY Zenon
    <2>2. sx + c2 = dx + c1
      BY <1>2, <2>1
    <2>3. CASE sy < dy
      BY <1>1, <1>2, <1>3, <2>1, <2>3 DEF RowOfCopy
    <2>4. CASE sy > dy
      BY <1>1, <1>2, <1>3, <2>1, <2>4 DEF RowOfCopy
    <2>5. CASE sy = dy
      <3>1. q1 = q2 /\ c1 < c2
        BY <1>1, <1>2, <1>3, <2>1, <2>5 DEF RowOfCopy
      <3> QED
        BY <1>1, <2>2, <2>5, <3>1
    <2> QED
      BY <2>3, <2>4, <2>5
  <1>5. T # U
    <2>1. SUFFICES ASSUME Row(T) = Row(U), Col(T) = Col(U) PROVE FALSE
      BY Zenon
    <2>2. q1 = q2 /\ c1 = c2
      BY <1>1, <1>2, <2>1 DEF RowOfCopy
    <2> QED
      BY <1>1, <1>3, <2>2
  <1> QED
    BY <1>4, <1>5 DEF S, T, U

\* Every word of the block is copied.
IsCopied(w, h, sy, dy, r, c) ==
    \E k \in 1..(w * h) : (k - 1) % w = c /\ RowOfCopy(sy, dy, h, (k - 1) \div w) = r

LEMMA CopyOfPlace ==
    ASSUME NEW w \in Nat, NEW h \in Nat, w > 0, NEW sy \in Nat, NEW dy \in Nat,
           NEW r \in 0..(h - 1), NEW c \in 0..(w - 1)
    PROVE  IsCopied(w, h, sy, dy, r, c)
  <1> DEFINE q == RowOfCopy(sy, dy, h, r)
             k == q * w + c + 1
  <1>1. q \in 0..(h - 1) /\ RowOfCopy(sy, dy, h, q) = r
    BY DEF RowOfCopy
  <1> HIDE DEF q
  <1>2. q * w \in Nat /\ (h - 1) * w = w * h - w /\ q * w <= (h - 1) * w /\ w * h \in Nat /\ (h - 1) * w \in Int
    <2>1. q \in Nat /\ q <= h - 1
      BY <1>1
    <2>2. q * w <= (h - 1) * w
      BY <2>1
    <2> QED
      BY <2>1, <2>2
  <1>3. k \in 1..(w * h)
    BY <1>2
  <1>4. k - 1 = q * w + c
    BY <1>2
  <1>5. (k - 1) \div w = q /\ (k - 1) % w = c
    <2>1. (q * w + c) \div w = q /\ (q * w + c) % w = c
      <3>1. w \in Nat \ {0} /\ q \in Int
        BY <1>1
      <3> QED
        BY <3>1, SplitAt
    <2> HIDE DEF k
    <2> QED
      BY <1>4, <2>1
  <1> HIDE DEF k
  <1> QED
    BY <1>1, <1>3, <1>5, Zenon DEF IsCopied

LEMMA CopiesDomain ==
    ASSUME NEW sx, NEW sy, NEW dx, NEW dy, NEW w, NEW rows, NEW n \in Nat, NEW g,
           Copies(g, n, sx, sy, dx, dy, w, rows), fb = Fresh
    PROVE  DOMAIN g[n] = Pixels
  <1> DEFINE bad == {k \in 0..n : DOMAIN g[k] # Pixels}
  <1>1. SUFFICES ASSUME bad # {} PROVE FALSE
    OBVIOUS
  <1>2. PICK k \in bad : \A j \in bad : k <= j
    <2>1. bad \in SUBSET Nat
      OBVIOUS
    <2> HIDE DEF bad
    <2> QED
      BY <1>1, <2>1, Smallest
  <1>3. k \in 0..n /\ DOMAIN g[k] # Pixels
    OBVIOUS
  <1>4. CopyFollows(g, k, sx, sy, dx, dy, w, rows)
    BY <1>3, CopyStep
  <1>5. CASE k = 0
    BY <1>3, <1>4, <1>5 DEF CopyFollows, Fresh
  <1>6. CASE k # 0
    <2>1. DOMAIN g[k - 1] = Pixels
      <3>1. k - 1 \in 0..n /\ ~(k <= k - 1)
        BY <1>3, <1>6
      <3>2. k - 1 \notin bad
        <4> HIDE DEF bad
        <4> QED
          BY <1>2, <3>1
      <3> QED
        BY <3>1, <3>2
    <2>2. g[k] = BlitStep(g[k - 1], sx, sy, dx, dy, w, rows, k)
      BY <1>4, <1>6, Zenon DEF CopyFollows
    <2>3. DOMAIN g[k] = DOMAIN g[k - 1]
      <3>1. PICK u : u = g[k - 1]
        OBVIOUS
      <3>2. g[k] = BlitStep(u, sx, sy, dx, dy, w, rows, k)
        BY <2>2, <3>1, Zenon
      <3>3. DOMAIN BlitStep(u, sx, sy, dx, dy, w, rows, k) = DOMAIN u
        BY DEF BlitStep
      <3> QED
        BY <3>1, <3>2, <3>3, Zenon
    <2> QED
      BY <1>3, <2>1, <2>3
  <1> QED
    BY <1>5, <1>6

\* The block after both cuts.
BlitW(sx, dx, w0) == Cut(dx, Cut(sx, w0, width), width)
BlitH(sy, dy, h0) == Cut(dy, Cut(sy, h0, height), height)
OffScreen(sx, sy, dx, dy, w0, h0) ==
    sx >= width \/ sy >= height \/ dx >= width \/ dy >= height
      \/ BlitW(sx, dx, w0) = 0 \/ BlitH(sy, dy, h0) = 0

LEMMA BlitIsCopies ==
    ASSUME NEW sx, NEW sy, NEW dx, NEW dy, NEW w0, NEW h0,
           BlitW(sx, dx, w0) * BlitH(sy, dy, h0) \in Nat
    PROVE  LET w == BlitW(sx, dx, w0)
               h == BlitH(sy, dy, h0)
           IN  \E g : /\ Copies(g, w * h, sx, sy, dx, dy, w, blit_rows(sy, dy, h))
                      /\ bochs_blit(sx, sy, dx, dy, w0, h0) =
                           IF OffScreen(sx, sy, dx, dy, w0, h0) THEN fb ELSE g[w * h]
  <1> DEFINE w == BlitW(sx, dx, w0)
             h == BlitH(sy, dy, h0)
             rows == blit_rows(sy, dy, h)
             g == CHOOSE f : f = [k \in 0..(w * h) |->
                                    IF k = 0 THEN fb ELSE BlitStep(f[k - 1], sx, sy, dx, dy, w, rows, k)]
  <1>1. PICK f : Copies(f, w * h, sx, sy, dx, dy, w, rows)
    BY CopiesExist
  <1>2. Copies(g, w * h, sx, sy, dx, dy, w, rows)
    BY <1>1, Zenon DEF Copies
  <1>3. bochs_blit(sx, sy, dx, dy, w0, h0) =
          IF OffScreen(sx, sy, dx, dy, w0, h0) THEN fb ELSE g[w * h]
    BY Zenon DEF bochs_blit, OffScreen, BlitW, BlitH, BlitStep, WordAt
  <1> HIDE DEF g
  <1> QED
    BY <1>2, <1>3

LEMMA BlitSize ==
    ASSUME NEW s \in Nat, NEW d \in Nat, NEW n \in Nat, NEW limit \in Nat, s < limit, d < limit
    PROVE  LET m == Cut(d, Cut(s, n, limit), limit)
           IN  /\ m \in Nat /\ s + m <= limit /\ d + m <= limit /\ m <= n
               /\ \A c \in Nat : c < limit =>
                    (c \in d..(d + m - 1) <=> c \in d..(d + n - 1) /\ c - d + s < limit)
  BY DEF Cut

\* The pixels a block lands on.
LandsOn(i, sx, sy, dx, dy, w0, h0) ==
    /\ Within(i, dx, dy, w0, h0)
    /\ Col(i) - dx + sx < width /\ Row(i) - dy + sy < height /\ dx < width /\ dy < height

\* What pixel i of the picture v holds when the block has landed.
Arrives(v, i, sx, sy, dx, dy, w, h) ==
    v[i] = IF Col(i) \in dx..(dx + w - 1) /\ Row(i) \in dy..(dy + h - 1)
           THEN (Row(i) - dy + sy) * width + (Col(i) - dx + sx) ELSE i

LEMMA BlitCopies ==
    ASSUME NEW sx \in Nat, NEW sy \in Nat, NEW dx \in Nat, NEW dy \in Nat, NEW w \in Nat, NEW h \in Nat,
           w > 0, sx + w <= width, sy + h <= height, dx + w <= width, dy + h <= height,
           ~(sy = dy /\ sx < dx /\ dx < sx + w), fb = Fresh,
           NEW g, Copies(g, w * h, sx, sy, dx, dy, w, blit_rows(sy, dy, h)),
           NEW i \in Pixels
    PROVE  Arrives(g[w * h], i, sx, sy, dx, dy, w, h)
  <1> DEFINE n == w * h
             rows == blit_rows(sy, dy, h)
             S == [k \in 1..n |-> WordAt(sx, sy, w, rows, k)]
             T == [k \in 1..n |-> WordAt(dx, dy, w, rows, k)]
  <1>1. n \in Nat
    OBVIOUS
  <1>2. ASSUME NEW k \in 1..n
        PROVE  IsWord(S[k], sx, sy, w, h, sy, dy, k) /\ IsWord(T[k], dx, dy, w, h, sy, dy, k)
    <2>1. S[k] = WordAt(sx, sy, w, rows, k) /\ T[k] = WordAt(dx, dy, w, rows, k)
      BY Zenon
    <2>2. IsWord(WordAt(sx, sy, w, rows, k), sx, sy, w, h, sy, dy, k)
      BY WordPlace
    <2>3. IsWord(WordAt(dx, dy, w, rows, k), dx, dy, w, h, sy, dy, k)
      BY WordPlace
    <2> QED
      BY <2>1, <2>2, <2>3, Zenon
  <1>3. S \in [1..n -> Pixels] /\ T \in [1..n -> Pixels]
    BY <1>2 DEF IsWord
  <1>4. ASSUME NEW j \in 1..n, NEW k \in 1..n, j < k
        PROVE  S[k] # T[j] /\ T[k] # T[j]
    <2>1. S[k] = WordAt(sx, sy, w, rows, k) /\ T[k] = WordAt(dx, dy, w, rows, k)
          /\ T[j] = WordAt(dx, dy, w, rows, j)
      BY Zenon
    <2>2. WordAt(sx, sy, w, rows, k) # WordAt(dx, dy, w, rows, j)
          /\ WordAt(dx, dy, w, rows, k) # WordAt(dx, dy, w, rows, j)
      BY <1>4, CopiesInOrder
    <2> QED
      BY <2>1, <2>2, Zenon
  <1>5. g[0] = Fresh
    <2>1. CopyFollows(g, 0, sx, sy, dx, dy, w, rows)
      BY <1>1, CopyStep
    <2> QED
      BY <2>1 DEF CopyFollows
  <1>6. ASSUME NEW k \in 1..n
        PROVE  g[k] = [g[k - 1] EXCEPT ![T[k]] = g[k - 1][S[k]]]
    <2>1. k \in 0..n /\ k # 0
      BY <1>1
    <2>2. CopyFollows(g, k, sx, sy, dx, dy, w, rows)
      BY <1>1, <2>1, CopyStep
    <2>3. g[k] = BlitStep(g[k - 1], sx, sy, dx, dy, w, rows, k)
      BY <2>1, <2>2, Zenon DEF CopyFollows
    <2> QED
      BY <2>3, Zenon DEF BlitStep
  <1>7. Copied(g[n], n, S, T)
    <2> HIDE DEF S, T, n
    <2> QED
      BY <1>1, <1>3, <1>4, <1>5, <1>6, CopiedInOrder
  <1> HIDE DEF S, T
  <1>8. ASSUME NEW k \in 1..n
        PROVE  /\ Col(T[k]) \in dx..(dx + w - 1) /\ Row(T[k]) \in dy..(dy + h - 1)
               /\ S[k] = (Row(T[k]) - dy + sy) * width + (Col(T[k]) - dx + sx)
    <2> DEFINE q == (k - 1) \div w
               c == (k - 1) % w
               r == RowOfCopy(sy, dy, h, q)
    <2>1. q \in 0..(h - 1) /\ c \in 0..(w - 1)
      BY CopyPlace
    <2>2. /\ S[k] \in Pixels /\ Row(S[k]) = sy + r /\ Col(S[k]) = sx + c
          /\ Row(T[k]) = dy + r /\ Col(T[k]) = dx + c
      BY <1>2, Zenon DEF IsWord
    <2> HIDE DEF q, c
    <2>3. r \in 0..(h - 1)
      BY <2>1 DEF RowOfCopy
    <2> HIDE DEF r
    <2>4. S[k] = (sy + r) * width + (sx + c)
      BY <2>2, PlaceOfPixel
    <2>5. Row(T[k]) - dy + sy = sy + r /\ Col(T[k]) - dx + sx = sx + c
      BY <2>1, <2>2, <2>3
    <2> QED
      BY <2>1, <2>2, <2>3, <2>4, <2>5
  <1>9. CASE Col(i) \in dx..(dx + w - 1) /\ Row(i) \in dy..(dy + h - 1)
    <2> DEFINE r == Row(i) - dy
               c == Col(i) - dx
    <2>1. r \in 0..(h - 1) /\ c \in 0..(w - 1) /\ Row(i) = dy + r /\ Col(i) = dx + c
      BY <1>9
    <2> HIDE DEF r, c
    <2>2. PICK k \in 1..n : (k - 1) % w = c /\ RowOfCopy(sy, dy, h, (k - 1) \div w) = r
      <3>1. IsCopied(w, h, sy, dy, r, c)
        BY <2>1, CopyOfPlace
      <3> QED
        BY <3>1, Zenon DEF IsCopied
    <2>3. T[k] \in Pixels /\ Row(T[k]) = dy + r /\ Col(T[k]) = dx + c
      BY <1>2, <2>2 DEF IsWord
    <2>4. T[k] = i
      BY <2>1, <2>3, SamePlace
    <2>5. g[n][i] = S[k]
      BY <1>7, <2>4 DEF Copied
    <2>6. S[k] = (Row(i) - dy + sy) * width + (Col(i) - dx + sx)
      BY <1>8, <2>4
    <2> QED
      BY <1>9, <2>5, <2>6, Zenon DEF Arrives, n
  <1>10. CASE ~(Col(i) \in dx..(dx + w - 1) /\ Row(i) \in dy..(dy + h - 1))
    <2>1. \A k \in 1..n : T[k] # i
      BY <1>8, <1>10
    <2>2. g[n][i] = i
      BY <1>7, <2>1 DEF Copied
    <2> QED
      BY <1>10, <2>2, Zenon DEF Arrives, n
  <1> QED
    BY <1>9, <1>10

\* The picture after a block has been copied.
Blitted(pic, sx, sy, dx, dy, w, h) ==
    /\ DOMAIN pic = Pixels
    /\ ~(sy = dy /\ sx < dx /\ dx < sx + w) =>
         \A i \in Pixels : pic[i] = IF LandsOn(i, sx, sy, dx, dy, w, h)
                                    THEN (Row(i) - dy + sy) * width + (Col(i) - dx + sx) ELSE i

LEMMA BlitExact ==
    ASSUME NEW sx \in Nat, NEW sy \in Nat, NEW dx \in Nat, NEW dy \in Nat,
           NEW w0 \in Nat, NEW h0 \in Nat, fb = Fresh
    PROVE  Blitted(bochs_blit(sx, sy, dx, dy, w0, h0), sx, sy, dx, dy, w0, h0)
  <1> DEFINE pic == bochs_blit(sx, sy, dx, dy, w0, h0)
             w == BlitW(sx, dx, w0)
             h == BlitH(sy, dy, h0)
             SourceOf(i) == (Row(i) - dy + sy) * width + (Col(i) - dx + sx)
             Exact == \A i \in Pixels : pic[i] = IF LandsOn(i, sx, sy, dx, dy, w0, h0) THEN SourceOf(i) ELSE i
  <1>1. DOMAIN Fresh = Pixels /\ \A i \in Pixels : Fresh[i] = i
    BY DEF Fresh
  <1>2. ASSUME NEW i \in Pixels
        PROVE  /\ Col(i) \in Nat /\ Col(i) < width /\ Row(i) \in Nat /\ Row(i) < height
               /\ LandsOn(i, sx, sy, dx, dy, w0, h0) <=>
                    /\ Col(i) \in dx..(dx + w0 - 1) /\ Row(i) \in dy..(dy + h0 - 1)
                    /\ Col(i) - dx + sx < width /\ Row(i) - dy + sy < height /\ dx < width /\ dy < height
    BY PlaceOfPixel, ScreenSize DEF LandsOn, Within, Columns, Rows
  <1>3. CASE sx >= width \/ sy >= height \/ dx >= width \/ dy >= height
    <2>1. pic = fb
      BY <1>3, Zenon DEF bochs_blit
    <2>2. \A i \in Pixels : ~LandsOn(i, sx, sy, dx, dy, w0, h0)
      BY <1>2, <1>3, ScreenSize
    <2> HIDE DEF pic, SourceOf
    <2>3. DOMAIN pic = Pixels /\ Exact
      BY <1>1, <2>1, <2>2
    <2> QED
      BY <2>3, Zenon DEF Blitted, pic, SourceOf
  <1>4. CASE ~(sx >= width \/ sy >= height \/ dx >= width \/ dy >= height)
    <2>1. /\ w \in Nat /\ sx + w <= width /\ dx + w <= width /\ w <= w0
          /\ \A c \in Nat : c < width =>
               (c \in dx..(dx + w - 1) <=> c \in dx..(dx + w0 - 1) /\ c - dx + sx < width)
      <3>1. sx < width /\ dx < width
        BY <1>4, ScreenSize
      <3> QED
        BY <3>1, BlitSize, ScreenSize DEF BlitW
    <2>2. /\ h \in Nat /\ sy + h <= height /\ dy + h <= height
          /\ \A c \in Nat : c < height =>
               (c \in dy..(dy + h - 1) <=> c \in dy..(dy + h0 - 1) /\ c - dy + sy < height)
      <3>1. sy < height /\ dy < height
        BY <1>4, ScreenSize
      <3> QED
        BY <3>1, BlitSize, ScreenSize DEF BlitH
    <2> HIDE DEF w, h
    <2>3. ASSUME NEW i \in Pixels
          PROVE  LandsOn(i, sx, sy, dx, dy, w0, h0) <=>
                   Col(i) \in dx..(dx + w - 1) /\ Row(i) \in dy..(dy + h - 1)
      <3>1. Col(i) \in dx..(dx + w - 1) <=> Col(i) \in dx..(dx + w0 - 1) /\ Col(i) - dx + sx < width
        BY <1>2, <2>1
      <3>2. Row(i) \in dy..(dy + h - 1) <=> Row(i) \in dy..(dy + h0 - 1) /\ Row(i) - dy + sy < height
        BY <1>2, <2>2
      <3>3. dx < width /\ dy < height
        BY <1>4, ScreenSize
      <3> QED
        BY <1>2, <3>1, <3>2, <3>3, Zenon
    <2>4. w * h \in Nat
      BY <2>1, <2>2
    <2>5. PICK g : /\ Copies(g, w * h, sx, sy, dx, dy, w, blit_rows(sy, dy, h))
                   /\ pic = IF OffScreen(sx, sy, dx, dy, w0, h0) THEN fb ELSE g[w * h]
      BY <2>4, BlitIsCopies DEF w, h
    <2>6. OffScreen(sx, sy, dx, dy, w0, h0) <=> w = 0 \/ h = 0
      BY <1>4, Zenon DEF OffScreen, w, h
    <2> HIDE DEF pic, SourceOf
    <2>7. CASE w = 0 \/ h = 0
      <3>1. pic = fb
        BY <2>5, <2>6, <2>7
      <3>2. \A i \in Pixels : ~LandsOn(i, sx, sy, dx, dy, w0, h0)
        BY <1>2, <2>3, <2>7
      <3>3. DOMAIN pic = Pixels /\ Exact
        BY <1>1, <3>1, <3>2
      <3> QED
        BY <3>3, Zenon DEF Blitted, pic, SourceOf
    <2>8. CASE ~(w = 0 \/ h = 0)
      <3>1. pic = g[w * h]
        BY <2>5, <2>6, <2>8
      <3>2. DOMAIN pic = Pixels
        BY <2>4, <2>5, <3>1, CopiesDomain
      <3>3. ASSUME ~(sy = dy /\ sx < dx /\ dx < sx + w0), NEW i \in Pixels
            PROVE  pic[i] = IF LandsOn(i, sx, sy, dx, dy, w0, h0) THEN SourceOf(i) ELSE i
        <4>1. w > 0 /\ ~(sy = dy /\ sx < dx /\ dx < sx + w)
          BY <2>1, <2>8, <3>3
        <4>2. g[w * h][i] = IF Col(i) \in dx..(dx + w - 1) /\ Row(i) \in dy..(dy + h - 1)
                            THEN SourceOf(i) ELSE i
          <5>1. Arrives(g[w * h], i, sx, sy, dx, dy, w, h)
            BY <2>1, <2>2, <2>5, <4>1, BlitCopies
          <5> QED
            BY <5>1, Zenon DEF Arrives, SourceOf
        <4> QED
          BY <2>3, <3>1, <4>2
      <3>4. ~(sy = dy /\ sx < dx /\ dx < sx + w0) => Exact
        BY <3>3, Zenon
      <3> QED
        BY <3>2, <3>4, Zenon DEF Blitted, pic, SourceOf
    <2> QED
      BY <2>7, <2>8
  <1> QED
    BY <1>3, <1>4

-----------------------------------------------------------------------------
\* What Draw leaves on a fresh screen is what DrawingIsExact says of the drawing it records.
LEMMA PaintedPixels ==
    ASSUME NEW s, s \subseteq Pixels, fb = Fresh
    PROVE  /\ DOMAIN Painted(s) = Pixels
           /\ \A i \in Pixels : Painted(s)[i] = IF i \in s THEN Ink ELSE i
  BY DEF Painted, Fresh

LEMMA RectangleDrawn ==
    ASSUME NEW f \in {"fill", "hline", "vline"}, NEW x, NEW y, NEW w, NEW h, NEW s,
           Covers(s, x, y, w, h), fb = Fresh, Drawing(f, <<x, y, w, h>>, s)
    PROVE  DrawingIsExact'
  <1>1. fb' = Painted(s) /\ drawn' = [f |-> f, args |-> <<x, y, w, h>>, wild |-> FALSE]
    BY DEF Drawing
  <1>2. DOMAIN fb' = Pixels /\ \A i \in Pixels : fb'[i] = IF Within(i, x, y, w, h) THEN Ink ELSE i
    BY <1>1, PaintedPixels DEF Covers
  <1>3. drawn'.f = f /\ drawn'.args[1] = x /\ drawn'.args[2] = y /\ drawn'.args[3] = w /\ drawn'.args[4] = h
    BY <1>1
  <1>4. drawn'.f \notin {"line", "blit"}
    BY <1>3
  <1>5. \A i \in Pixels : fb'[i] = IF Within(i, drawn'.args[1], drawn'.args[2], drawn'.args[3], drawn'.args[4])
                                   THEN Ink ELSE i
    BY <1>2, <1>3
  <1> QED
    BY <1>2, <1>4, <1>5 DEF DrawingIsExact

LEMMA DrawExact ==
    ASSUME fb = Fresh, Draw
    PROVE  DrawingIsExact'
  <1>1. ASSUME NEW x \in Xs, NEW y \in Ys, NEW w \in Ws, NEW h \in Hs, FillRect(x, y, w, h)
        PROVE  DrawingIsExact'
    <2>1. x \in Nat /\ y \in Nat /\ w \in Nat /\ h \in Nat
      BY ScreenSize DEF Xs, Ys, Ws, Hs
    <2>2. CASE Drawing("fill", <<x, y, w, h>>, bochs_fill_rect(x, y, w, h))
      BY <2>1, <2>2, FillCovers, RectangleDrawn
    <2>3. CASE drawn' = [f |-> "fill", args |-> <<x, y, w, h>>, wild |-> TRUE]
      BY <2>3 DEF DrawingIsExact
    <2> QED
      BY <1>1, <2>2, <2>3 DEF FillRect
  <1>2. ASSUME NEW x \in Xs, NEW y \in Ys, NEW w \in Ws, Drawing("hline", <<x, y, w, 1>>, bochs_hline(x, y, w))
        PROVE  DrawingIsExact'
    <2>1. x \in Nat /\ y \in Nat /\ w \in Nat
      BY ScreenSize DEF Xs, Ys, Ws
    <2> QED
      BY <1>2, <2>1, HlineCovers, RectangleDrawn
  <1>3. ASSUME NEW x \in Xs, NEW y \in Ys, NEW h \in Hs, Drawing("vline", <<x, y, 1, h>>, bochs_vline(x, y, h))
        PROVE  DrawingIsExact'
    <2>1. x \in Nat /\ y \in Nat /\ h \in Nat
      BY ScreenSize DEF Xs, Ys, Hs
    <2> QED
      BY <1>3, <2>1, VlineCovers, RectangleDrawn
  <1>4. ASSUME NEW x \in Xs, NEW y \in Ys, NEW x2 \in Xs, NEW y2 \in Ys,
               Drawing("line", <<x, y, x2, y2>>, bochs_line(x, y, x2, y2))
        PROVE  DrawingIsExact'
    <2> DEFINE s == bochs_line(x, y, x2, y2)
    <2>1. s \subseteq Pixels /\ \A i \in Pixels : i \in s <=> OnLine(i, x, y, x2, y2)
      BY LineCovers, Zenon DEF Xs, Ys
    <2>2. fb' = Painted(s) /\ drawn' = [f |-> "line", args |-> <<x, y, x2, y2>>, wild |-> FALSE]
      BY <1>4, Zenon DEF Drawing
    <2> HIDE DEF s
    <2>3. DOMAIN fb' = Pixels /\ \A i \in Pixels : fb'[i] = IF OnLine(i, x, y, x2, y2) THEN Ink ELSE i
      BY <2>1, <2>2, PaintedPixels
    <2>4. drawn'.f = "line" /\ drawn'.args[1] = x /\ drawn'.args[2] = y /\ drawn'.args[3] = x2 /\ drawn'.args[4] = y2
      BY <2>2
    <2>5. \A i \in Pixels : fb'[i] = IF OnLine(i, drawn'.args[1], drawn'.args[2], drawn'.args[3], drawn'.args[4])
                                     THEN Ink ELSE i
      BY <2>3, <2>4
    <2>6. drawn'.f \notin {"fill", "hline", "vline"} /\ drawn'.f # "blit"
      BY <2>4
    <2> QED
      BY <2>3, <2>5, <2>6 DEF DrawingIsExact
  <1>5. ASSUME Blit PROVE DrawingIsExact'
    <2>1. PICK sx \in Xs, dx \in Xs, sy \in Ys, dy \in Ys, w \in Ws, h \in Hs :
              /\ drawn' = [f |-> "blit", args |-> <<sx, sy, dx, dy, w, h>>, wild |-> FALSE]
              /\ fb' = bochs_blit(sx, sy, dx, dy, w, h)
      BY <1>5, Zenon DEF Blit
    <2>2. sx \in Nat /\ sy \in Nat /\ dx \in Nat /\ dy \in Nat /\ w \in Nat /\ h \in Nat
      BY ScreenSize DEF Xs, Ys, Ws, Hs
    <2> DEFINE pic == bochs_blit(sx, sy, dx, dy, w, h)
    <2>3. /\ DOMAIN pic = Pixels
          /\ ~(sy = dy /\ sx < dx /\ dx < sx + w) =>
               \A i \in Pixels :
                 pic[i] = IF LandsOn(i, sx, sy, dx, dy, w, h)
                          THEN (Row(i) - dy + sy) * width + (Col(i) - dx + sx) ELSE i
      <3>1. Blitted(bochs_blit(sx, sy, dx, dy, w, h), sx, sy, dx, dy, w, h)
        BY <2>2, BlitExact
      <3> QED
        BY <3>1, Zenon DEF Blitted
    <2>4. fb' = pic
      BY <2>1
    <2> HIDE DEF pic
    <2>5. PICK a : a = drawn'.args
      OBVIOUS
    <2>6. /\ drawn'.f = "blit"
          /\ a[1] = sx /\ a[2] = sy /\ a[3] = dx /\ a[4] = dy /\ a[5] = w /\ a[6] = h
      BY <2>1, <2>5
    <2>7. ASSUME ~(a[2] = a[4] /\ a[1] < a[3] /\ a[3] < a[1] + a[5]), NEW i \in Pixels
          PROVE  fb'[i] = IF /\ Within(i, a[3], a[4], a[5], a[6])
                             /\ Col(i) - a[3] + a[1] < width /\ Row(i) - a[4] + a[2] < height
                             /\ a[3] < width /\ a[4] < height
                          THEN (Row(i) - a[4] + a[2]) * width + (Col(i) - a[3] + a[1]) ELSE i
      <3>1. fb'[i] = IF LandsOn(i, sx, sy, dx, dy, w, h)
                     THEN (Row(i) - dy + sy) * width + (Col(i) - dx + sx) ELSE i
        BY <2>3, <2>4, <2>6, <2>7
      <3>2. LandsOn(i, sx, sy, dx, dy, w, h) <=>
              /\ Within(i, dx, dy, w, h)
              /\ Col(i) - dx + sx < width /\ Row(i) - dy + sy < height /\ dx < width /\ dy < height
        BY Zenon DEF LandsOn
      <3> QED
        BY <2>6, <3>1, <3>2
    <2>8. DOMAIN fb' = Pixels /\ drawn'.f \notin {"fill", "hline", "vline"} /\ drawn'.f # "line"
      BY <2>3, <2>4, <2>6
    <2> QED
      BY <2>5, <2>7, <2>8 DEF DrawingIsExact
  <1>6. ASSUME DrawLines PROVE DrawingIsExact'
    BY <1>2, <1>3, <1>4, <1>6, Zenon DEF DrawLines
  <1> QED
    BY <1>1, <1>5, <1>6, Zenon DEF Draw

LEMMA DrawRecords == Draw => drawn' # Nothing
  <1> SUFFICES ASSUME Draw PROVE drawn' # Nothing
    OBVIOUS
  <1>1. ASSUME NEW f, NEW a, NEW s, f # "none", Drawing(f, a, s) PROVE drawn' # Nothing
    BY <1>1 DEF Drawing, Nothing
  <1>2. ASSUME NEW x, NEW y, NEW w, NEW h, FillRect(x, y, w, h) PROVE drawn' # Nothing
    <2>1. CASE Drawing("fill", <<x, y, w, h>>, bochs_fill_rect(x, y, w, h))
      BY <1>1, <2>1
    <2>2. CASE drawn' = [f |-> "fill", args |-> <<x, y, w, h>>, wild |-> TRUE]
      BY <2>2 DEF Nothing
    <2> QED
      BY <1>2, <2>1, <2>2 DEF FillRect
  <1>3. ASSUME DrawLines PROVE drawn' # Nothing
    BY <1>1, <1>3 DEF DrawLines
  <1>4. ASSUME Blit PROVE drawn' # Nothing
    <2>1. PICK a : drawn' = [f |-> "blit", args |-> a, wild |-> FALSE]
      BY <1>4, Zenon DEF Blit
    <2> QED
      BY <2>1 DEF Nothing
  <1> QED
    BY <1>2, <1>3, <1>4, Zenon DEF Draw

\* One drawing is made, on the screen as InitSystem leaves it.
DrawInv == (drawn = Nothing => fb = Fresh) /\ DrawingIsExact

LEMMA DrawInvInit == BootInit => DrawInv
  <1> SUFFICES ASSUME BootInit PROVE DrawInv
    OBVIOUS
  <1>1. fb = Fresh /\ drawn = Nothing
    BY DEF BootInit, DisplayInit
  <1>2. DOMAIN fb = Pixels /\ drawn.f = "none"
    BY <1>1 DEF Fresh, Nothing
  <1> QED
    BY <1>1, <1>2 DEF DrawInv, DrawingIsExact

\* The only operation on the picture is Draw.
LEMMA OnlyDrawDraws == [BootNext]_allVars => UNCHANGED <<fb, drawn>> \/ Draw
  <1> SUFFICES ASSUME [BootNext]_allVars PROVE UNCHANGED <<fb, drawn>> \/ Draw
    OBVIOUS
  <1>1. CASE InitSystem
    BY <1>1 DEF InitSystem, MountDisk, FindDisplay, ProbeDisplay, MeasureCpu, EnterShell, displayVars
  <1>2. CASE DriveStep \/ DriverStep \/ ClockTicks
    BY <1>2 DEF DriveStep, DriverStep, ClockTicks, displayVars
  <1>3. CASE Shell
    BY <1>3 DEF Shell, UseVolume, UseScreen, UseFiles, displayVars
  <1>4. CASE UNCHANGED allVars
    BY <1>4 DEF allVars, bootVars, displayVars
  <1> QED
    BY <1>1, <1>2, <1>3, <1>4, Zenon DEF BootNext

LEMMA DrawInvNext == DrawInv /\ [BootNext]_allVars => DrawInv'
  <1> SUFFICES ASSUME DrawInv, [BootNext]_allVars PROVE DrawInv'
    OBVIOUS
  <1>1. CASE UNCHANGED <<fb, drawn>>
    BY <1>1 DEF DrawInv, DrawingIsExact
  <1>2. CASE Draw
    <2>1. fb = Fresh
      BY <1>2 DEF Draw, DrawInv
    <2> QED
      BY <1>2, <2>1, DrawExact, DrawRecords DEF DrawInv
  <1> QED
    BY <1>1, <1>2, OnlyDrawDraws

\* The drawing operations of Kernel/drives/display.c and fillRect of Kernel/lib/Draw.c, for
\* every size of the screen and every argument: a rectangle or a straight line is the pixels
\* it names that are on the screen, a slanted line is the pixels nearest to it, a block
\* arrives as it was, and nothing else changes, in the frame buffer or beyond it.
THEOREM DrawingsAreExact == BootSpec => []DrawingIsExact
  <1>1. BootInit => DrawInv
    BY DrawInvInit
  <1>2. DrawInv /\ [BootNext]_allVars => DrawInv'
    BY DrawInvNext
  <1>3. DrawInv => DrawingIsExact
    BY DEF DrawInv
  <1> QED
    BY <1>1, <1>2, <1>3, PTL DEF BootSpec
=============================================================================
