-------------------------------- MODULE Boot --------------------------------
(***************************************************************************)
(* InitSystem of Kernel/kernel/kernel.c from the disk scan to the shell,   *)
(* and what the shell does with what was found: the volume is mounted over *)
(* the ATA driver (Mount), the display adapter is probed (Display), the    *)
(* processor is timed (Clock); in the shell the volume is used through its *)
(* sectors (Mount) or its files (Fat32), and the screen is drawn on        *)
(* (Display).                                                              *)
(*                                                                         *)
(* Fat32 looks at the driver as calls that succeed or fail; what it takes  *)
(* for granted, that a successful call moved the sectors it names, is what *)
(* ReadIsExact and WriteIsExact say of Ata.                                *)
(***************************************************************************)
EXTENDS Fat32, Mount, Display, Clock

CONSTANTS
    FileMachines,         \* bound: the machines whose files are used
    ScreenMachines        \* bound: the machines whose screen is drawn on
ASSUME BootAssumption == FileMachines \subseteq Machines /\ ScreenMachines \subseteq Machines

VARIABLE phase            \* "mount", "display", "clock", then in the shell "shell" and "files"

bootVars == <<phase, ataVars, mountVars, displayVars, clockVars>>
allVars == <<vars, bootVars>>

BootInit ==
    /\ phase = "mount"
    /\ AtaInit /\ MountInit /\ DisplayInit /\ ClockInit
    /\ Init

-----------------------------------------------------------------------------
\* The drives work on what they were given, whatever the kernel does meanwhile.
DriveStep ==
    /\ phase \in {"mount", "shell"}
    /\ AtaDrives
    /\ UNCHANGED <<phase, vars, mountVars, displayVars, clockVars>>

DriverStep ==
    /\ AtaDriver
    /\ UNCHANGED <<phase, vars, mountVars, displayVars, clockVars>>

MountDisk ==
    /\ phase = "mount"
    /\ MountStep
    /\ phase' = IF status' = Pending THEN "mount" ELSE "display"
    /\ UNCHANGED <<vars, displayVars, clockVars>>

FindDisplay ==
    /\ phase = "display"
    /\ ProbeDisplay(Bus[device])
    /\ phase' = "clock"
    /\ UNCHANGED <<vars, ataVars, mountVars, clockVars>>

MeasureCpu ==
    /\ phase = "clock"
    /\ ClockStep
    /\ UNCHANGED <<phase, vars, ataVars, mountVars, displayVars>>

ClockTicks ==
    /\ phase = "clock"
    /\ Tick
    /\ UNCHANGED <<phase, vars, ataVars, mountVars, displayVars>>

\* The shell begins; nothing reads the calibration's locals again.
EnterShell ==
    /\ phase = "clock" /\ cal.pc = "after"
    /\ phase' = "shell"
    /\ To("volume")
    /\ second' = 0 /\ cal' = Uncalibrated
    /\ UNCHANGED <<vars, ataVars, present, status, displayVars>>

InitSystem == MountDisk \/ FindDisplay \/ MeasureCpu \/ EnterShell

-----------------------------------------------------------------------------
UseVolume ==
    /\ phase = "shell"
    /\ VolumeUse
    /\ UNCHANGED <<phase, vars, displayVars, clockVars>>

UseScreen ==
    /\ phase = "shell" /\ device \in ScreenMachines
    /\ Draw
    /\ UNCHANGED <<phase, vars, ataVars, mountVars, clockVars>>

\* Bound: files are used after a boot without incident, and then nothing else.
UseFiles ==
    /\ \/ phase = "files"
       \/ /\ phase = "shell" /\ mount.uses = 0 /\ InMount("volume")
          /\ device \in FileMachines
          /\ status = 0 /\ abandoned = {} /\ mount.part.genuine
          /\ \A i \in Drives : drive[i] = NoCommand
    /\ Next
    /\ phase' = "files"
    /\ UNCHANGED <<ataVars, mountVars, displayVars, clockVars>>

Shell == UseVolume \/ UseScreen \/ UseFiles

BootNext == InitSystem \/ DriveStep \/ DriverStep \/ ClockTicks \/ Shell

\* The kernel goes on as long as it can, and time passes; the drives may stay silent.
BootSpec ==
    /\ BootInit
    /\ [][BootNext]_allVars
    /\ WF_allVars(InitSystem) /\ WF_allVars(DriverStep) /\ WF_allVars(ClockTicks)

-----------------------------------------------------------------------------
\* InitSystem always gets to the shell, whatever the drives do and for how long they do
\* not answer: every wait for a drive has a time-out.  Only Get_CPU_Frequency may wait for
\* ever, for second 60, when it begins in one of the last two seconds of a minute.
BootReachesShell == <>(phase \in {"shell", "files"} \/ []Overran)
=============================================================================
