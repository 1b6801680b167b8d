------------------------------ MODULE Keyboard ------------------------------
(***************************************************************************)
(* The PS/2 keyboard driver (Kernel/drives/Keyboard.c) with its interrupt  *)
(* handler irq_1 (Kernel/kernel/pic.c) and its only reader, the main       *)
(* thread: the boot code that clears the buffer (InitSystem), then the     *)
(* shell (GetKey) and the clock command (GetKey_NoBlock).                  *)
(*                                                                         *)
(* Interrupts are off only between the cli and sti of the two readers, so  *)
(* irq_1 may fall between any two steps below; GetKey tests                *)
(* kbbuffer_count before its cli.                                          *)
(***************************************************************************)
EXTENDS Integers, Sequences

CONSTANTS
    KEYBOARD_BUFFER_SIZE,
    Chars,               \* the characters of the scan code tables
    NUL,                 \* the character 0
    Lower, Upper         \* the two tables, from scan code to Chars or NUL

ScanCodes == DOMAIN Lower

ASSUME KeyboardAssumption ==
    /\ KEYBOARD_BUFFER_SIZE \in Nat \ {0}
    /\ NUL \notin Chars
    /\ Lower \in [ScanCodes -> Chars \cup {NUL}]
    /\ Upper \in [ScanCodes -> Chars \cup {NUL}]

VARIABLES
    shift_pressed,
    buffer,              \* SYSTEM_KeyboardBuffer
    kbbuffer_write_index, kbbuffer_read_index, kbbuffer_count,
    cleared,             \* slots the memset of InitSystem has passed
    pc,                  \* the main thread: "boot", "shell", "wait", "take"
    got                  \* what the last successful read returned

ring == <<buffer, kbbuffer_write_index, kbbuffer_read_index, kbbuffer_count>>
vars == <<shift_pressed, ring, cleared, pc, got>>

Slots == 0..(KEYBOARD_BUFFER_SIZE - 1)

Init ==
    /\ shift_pressed = FALSE
    /\ buffer = [i \in Slots |-> NUL]
    /\ kbbuffer_write_index = 0
    /\ kbbuffer_read_index = 0
    /\ kbbuffer_count = 0
    /\ cleared = 0
    /\ pc = "boot"
    /\ got = NUL

\* The index after i in the ring.
Advance(i) == (i + 1) % KEYBOARD_BUFFER_SIZE

Full_Late == kbbuffer_count > KEYBOARD_BUFFER_SIZE
Full == kbbuffer_count >= KEYBOARD_BUFFER_SIZE

-----------------------------------------------------------------------------
\* irq_1 for a shift key pressed or released: _getkey_noblock returns 0.
ShiftKey ==
    /\ shift_pressed' \in BOOLEAN
    /\ UNCHANGED <<ring, cleared, pc, got>>

\* _getkey_noblock for any other key pressed (releases return 0 and change nothing).
Translate(s) == IF shift_pressed THEN Upper[s] ELSE Lower[s]

\* irq_1 for such a key.
PressKey ==
    /\ \E s \in ScanCodes :
         /\ Translate(s) # NUL
         /\ ~Full
         /\ buffer' = [buffer EXCEPT ![kbbuffer_write_index] = Translate(s)]
    /\ kbbuffer_write_index' = Advance(kbbuffer_write_index)
    /\ kbbuffer_count' = kbbuffer_count + 1
    /\ UNCHANGED <<shift_pressed, kbbuffer_read_index, cleared, pc, got>>

-----------------------------------------------------------------------------
\* InitSystem: memset of the buffer, a slot at a time, interrupts on; the indices
\* and the count keep what irq_1 has made of them.
ClearSlot ==
    /\ pc = "boot"
    /\ cleared \in Slots
    /\ buffer' = [buffer EXCEPT ![cleared] = NUL]
    /\ cleared' = cleared + 1
    /\ UNCHANGED <<shift_pressed, kbbuffer_write_index, kbbuffer_read_index,
                   kbbuffer_count, pc, got>>

BootDone ==
    /\ pc = "boot"
    /\ cleared = KEYBOARD_BUFFER_SIZE
    /\ pc' = "shell"
    /\ UNCHANGED <<shift_pressed, ring, cleared, got>>

\* GetKey: the busy wait, with interrupts on ...
GetKey ==
    /\ pc = "shell"
    /\ pc' = "wait"
    /\ UNCHANGED <<shift_pressed, ring, cleared, got>>

WaitOver == kbbuffer_count # 0

GetKeyWaited ==
    /\ pc = "wait"
    /\ WaitOver
    /\ pc' = "take"
    /\ UNCHANGED <<shift_pressed, ring, cleared, got>>

\* ... and the removal, with interrupts off.
RemoveKey_CountKept ==
    /\ got' = buffer[kbbuffer_read_index]
    /\ buffer' = [buffer EXCEPT ![kbbuffer_read_index] = NUL]
    /\ kbbuffer_read_index' = Advance(kbbuffer_read_index)
    /\ UNCHANGED <<shift_pressed, kbbuffer_write_index, kbbuffer_count, cleared>>
RemoveKey ==
    /\ got' = buffer[kbbuffer_read_index]
    /\ buffer' = [buffer EXCEPT ![kbbuffer_read_index] = NUL]
    /\ kbbuffer_read_index' = Advance(kbbuffer_read_index)
    /\ kbbuffer_count' = kbbuffer_count - 1
    /\ UNCHANGED <<shift_pressed, kbbuffer_write_index, cleared>>

GetKeyTake ==
    /\ pc = "take"
    /\ RemoveKey
    /\ pc' = "shell"

\* GetKey_NoBlock finds a key (without one it returns 0 and changes nothing).
GetKey_NoBlock ==
    /\ pc = "shell"
    /\ kbbuffer_count # 0
    /\ RemoveKey
    /\ UNCHANGED pc

-----------------------------------------------------------------------------
Shell == GetKey \/ GetKeyWaited \/ GetKeyTake

Next == ShiftKey \/ PressKey \/ ClearSlot \/ BootDone \/ Shell \/ GetKey_NoBlock

Spec == Init /\ [][Next]_vars

\* Boot ends and the shell keeps coming back to GetKey; nobody has to type.
FairSpec == Spec /\ WF_vars(ClearSlot \/ BootDone) /\ WF_vars(Shell)

-----------------------------------------------------------------------------
\* The variables of the driver keep their types.
TypeOK ==
    /\ shift_pressed \in BOOLEAN
    /\ buffer \in [Slots -> Chars \cup {NUL}]
    /\ kbbuffer_write_index \in Slots
    /\ kbbuffer_read_index \in Slots
    /\ kbbuffer_count \in 0..KEYBOARD_BUFFER_SIZE
    /\ cleared \in 0..KEYBOARD_BUFFER_SIZE
    /\ pc \in {"boot", "shell", "wait", "take"}
    /\ got \in Chars \cup {NUL}

\* The slot that holds the i-th waiting character.
Slot(i) ==
    LET k == kbbuffer_read_index + i - 1
    IN  IF k < KEYBOARD_BUFFER_SIZE THEN k ELSE k - KEYBOARD_BUFFER_SIZE

\* Count and indices agree: the handler writes just behind the last waiting
\* character, so it overwrites nothing unread and leaves no gap.
RingConsistent ==
    kbbuffer_write_index = (kbbuffer_read_index + kbbuffer_count) % KEYBOARD_BUFFER_SIZE

\* The test GetKey makes before its cli still holds after it.
TakeFindsKey == pc = "take" => kbbuffer_count > 0

waiting == [i \in 1..kbbuffer_count |-> buffer[Slot(i)]]

KQ == INSTANCE KeyQueue WITH
        Size <- KEYBOARD_BUFFER_SIZE, Chars <- Chars, NUL <- NUL,
        queue <- waiting, got <- got, open <- (pc # "boot")

\* Interrupt handler and readers together implement the queue of KeyQueue.
ImplementsQueue == KQ!Spec
=============================================================================
