--------------------------- MODULE KeyboardProofs ---------------------------
(***************************************************************************)
(* For every buffer size and every pair of scan code tables: the ring is   *)
(* consistent, GetKey never removes from an empty ring, and the driver     *)
(* implements the bounded queue of KeyQueue.  Whatever exceptions occur    *)
(* and however deep they nest: every stub comes back to the frame the      *)
(* processor pushed, interrupts never nest, and the interrupted code goes  *)
(* on with its own stack and an idle controller.  And what holds of the    *)
(* driver and of the interrupts on their own holds of both together.       *)
(***************************************************************************)
EXTENDS KeyboardSystem, SequenceTheorems, TLAPS

N == KEYBOARD_BUFFER_SIZE

\* Advance, the (i + 1) % KEYBOARD_BUFFER_SIZE of irq_1 and GetKey, without modulo.
LEMMA AdvanceIsNext ==
    ASSUME NEW i \in Slots
    PROVE  /\ Advance(i) \in Slots
           /\ Advance(i) = IF i + 1 = N THEN 0 ELSE i + 1
  BY KeyboardAssumption DEF Advance, Slots, N

\* The write index as an offset from the read index, without modulo.
Behind(r, c) == IF r + c < N THEN r + c ELSE r + c - N

IInv == /\ TypeOK
        /\ kbbuffer_write_index = Behind(kbbuffer_read_index, kbbuffer_count)
        /\ TakeFindsKey
        /\ pc # "boot" => cleared = N

LEMMA InitIInv == Init => IInv
  <1> SUFFICES ASSUME Init PROVE IInv
    OBVIOUS
  <1>1. N \in Nat \ {0} /\ 0 \in Slots
    BY KeyboardAssumption DEF Slots, N
  <1>2. buffer \in [Slots -> Chars \cup {NUL}]
    BY DEF Init
  <1>3. TypeOK
    <2>1. shift_pressed \in BOOLEAN
      BY Zenon DEF Init
    <2>2. 0 \in 0..KEYBOARD_BUFFER_SIZE
      BY <1>1 DEF N
    <2> QED
      BY <1>1, <1>2, <2>1, <2>2, Zenon DEF Init, TypeOK
  <1>4. kbbuffer_write_index = Behind(kbbuffer_read_index, kbbuffer_count)
    BY <1>1 DEF Init, Behind
  <1> QED
    BY <1>3, <1>4 DEF Init, IInv, TakeFindsKey

LEMMA NextIInv == IInv /\ [Next]_vars => IInv'
  <1> SUFFICES ASSUME IInv, [Next]_vars PROVE IInv'
    OBVIOUS
  <1> USE KeyboardAssumption DEF IInv, TypeOK, TakeFindsKey, Behind, Slots, N
  <1>1. CASE ShiftKey
    BY <1>1 DEF ShiftKey, ring
  <1>2. CASE PressKey
    <2>1. PICK s \in ScanCodes : /\ Translate(s) # NUL
                                 /\ ~Full
                                 /\ buffer' = [buffer EXCEPT ![kbbuffer_write_index] = Translate(s)]
      BY <1>2 DEF PressKey
    <2>2. Translate(s) \in Chars \cup {NUL}
      BY DEF Translate
    <2>3. buffer' \in [Slots -> Chars \cup {NUL}]
      BY <2>1, <2>2
    <2>4. /\ Advance(kbbuffer_write_index) \in Slots
          /\ Advance(kbbuffer_write_index) =
               IF kbbuffer_write_index + 1 = N THEN 0 ELSE kbbuffer_write_index + 1
      BY AdvanceIsNext
    <2> QED
      BY <1>2, <2>1, <2>3, <2>4 DEF PressKey, Full
  <1>3. CASE ClearSlot
    BY <1>3 DEF ClearSlot
  <1>4. CASE BootDone
    BY <1>4 DEF BootDone, ring
  <1>5. CASE GetKey
    BY <1>5 DEF GetKey, ring
  <1>6. CASE GetKeyWaited
    BY <1>6 DEF GetKeyWaited, WaitOver, ring
  <1>7. ASSUME RemoveKey, kbbuffer_count > 0, pc' = "shell", pc # "boot"
        PROVE  IInv'
    <2>1. /\ Advance(kbbuffer_read_index) \in Slots
          /\ Advance(kbbuffer_read_index) =
               IF kbbuffer_read_index + 1 = N THEN 0 ELSE kbbuffer_read_index + 1
      BY AdvanceIsNext
    <2> QED
      BY <1>7, <2>1 DEF RemoveKey
  <1>8. CASE GetKeyTake
    BY <1>7, <1>8 DEF GetKeyTake
  <1>9. CASE GetKey_NoBlock
    BY <1>7, <1>9 DEF GetKey_NoBlock
  <1>10. CASE UNCHANGED vars
    BY <1>10 DEF vars, ring
  <1> QED
    BY <1>1, <1>2, <1>3, <1>4, <1>5, <1>6, <1>8, <1>9, <1>10 DEF Next, Shell

LEMMA IInvHolds == Spec => []IInv
  <1>1. Init => IInv
    BY InitIInv
  <1>2. IInv /\ [Next]_vars => IInv'
    BY NextIInv
  <1> QED
    BY <1>1, <1>2, PTL DEF Spec

\* The driver's variables keep their types: neither index leaves the buffer and the
\* count stays within 0..KEYBOARD_BUFFER_SIZE.
THEOREM TypeCorrect == Spec => []TypeOK
  BY IInvHolds, PTL DEF IInv

\* The test GetKey makes with interrupts on still holds when it removes the key.
THEOREM GetKeyNeverUnderflows == Spec => []TakeFindsKey
  BY IInvHolds, PTL DEF IInv

\* irq_1 always writes just behind the last unread character.
THEOREM RingAlwaysConsistent == Spec => []RingConsistent
  <1>1. IInv => RingConsistent
    <2> SUFFICES ASSUME IInv PROVE RingConsistent
      OBVIOUS
    <2> DEFINE r == kbbuffer_read_index
               c == kbbuffer_count
    <2>1. r \in 0..(N-1) /\ c \in 0..N /\ N \in Nat \ {0}
      BY KeyboardAssumption DEF IInv, TypeOK, Slots, N
    <2>2. CASE r + c < N
      <3>1. (r + c) % N = r + c
        BY <2>1, <2>2
      <3> QED BY <2>2, <3>1 DEF IInv, Behind, RingConsistent, N
    <2>3. CASE ~(r + c < N)
      <3>1. r + c - N \in 0..(N-1)
        BY <2>1, <2>3
      <3>2. (r + c) % N = r + c - N
        BY <2>1, <2>3, <3>1
      <3> QED BY <2>3, <3>2 DEF IInv, Behind, RingConsistent, N
    <2> QED BY <2>2, <2>3
  <1> QED
    BY <1>1, IInvHolds, PTL

-----------------------------------------------------------------------------
(***************************************************************************)
(* Refinement: the characters between the read and the write index are the *)
(* queue.                                                                  *)
(***************************************************************************)
Cell == Chars \cup {NUL}

WaitingOK ==
    /\ waiting \in Seq(Cell)
    /\ Len(waiting) = kbbuffer_count
    /\ \A i \in 1..kbbuffer_count : Slot(i) \in Slots /\ waiting[i] = buffer[Slot(i)]

LEMMA WaitingIsSeq == TypeOK => WaitingOK
  <1> SUFFICES ASSUME TypeOK PROVE WaitingOK
    OBVIOUS
  <1>1. \A i \in 1..kbbuffer_count : Slot(i) \in Slots
    BY KeyboardAssumption DEF TypeOK, Slot, Slots
  <1>2. \A i \in 1..kbbuffer_count : buffer[Slot(i)] \in Cell
    BY <1>1 DEF TypeOK, Cell
  <1>3. kbbuffer_count \in Nat
    BY KeyboardAssumption DEF TypeOK
  <1>4. waiting \in [1..kbbuffer_count -> Cell]
    BY <1>2 DEF waiting
  <1>5. waiting \in Seq(Cell)
    BY <1>3, <1>4, SeqDef
  <1> QED
    BY <1>1, <1>3, <1>4, <1>5 DEF waiting, WaitingOK

\* The same one step later.
LEMMA WaitingIsSeqNext == TypeOK' => WaitingOK'
  BY WaitingIsSeq, PTL

\* Slots of different waiting characters differ.
LEMMA SlotInjective ==
    ASSUME TypeOK, NEW i \in 1..KEYBOARD_BUFFER_SIZE, NEW j \in 1..KEYBOARD_BUFFER_SIZE, i # j
    PROVE  Slot(i) # Slot(j)
  BY KeyboardAssumption DEF TypeOK, Slot, Slots

LEMMA InitRefines == Init => KQ!Init
  <1> SUFFICES ASSUME Init PROVE KQ!Init
    OBVIOUS
  <1>1. TypeOK
    BY InitIInv DEF IInv
  <1>2. waiting \in Seq(Cell) /\ Len(waiting) = 0
    BY <1>1, WaitingIsSeq DEF Init, WaitingOK
  <1>3. waiting = <<>>
    BY <1>2, EmptySeq
  <1> QED
    BY <1>3 DEF Init, KQ!Init

LEMMA PressRefines ==
    ASSUME IInv, IInv', PressKey
    PROVE  \E c \in Chars : KQ!Type(c)
  <1>1. PICK s \in ScanCodes : /\ Translate(s) # NUL
                               /\ ~Full
                               /\ buffer' = [buffer EXCEPT ![kbbuffer_write_index] = Translate(s)]
    BY DEF PressKey
  <1> DEFINE c == Translate(s)
  <1>2. c \in Chars /\ c \in Cell
    BY <1>1, KeyboardAssumption DEF Translate, Cell
  <1>3. /\ waiting \in Seq(Cell)
        /\ Len(waiting) = kbbuffer_count
        /\ \A i \in 1..kbbuffer_count : Slot(i) \in Slots /\ waiting[i] = buffer[Slot(i)]
    BY WaitingIsSeq DEF IInv, WaitingOK
  <1>4. /\ waiting' \in Seq(Cell)
        /\ Len(waiting') = kbbuffer_count'
        /\ \A i \in 1..kbbuffer_count' : Slot(i)' \in Slots /\ waiting'[i] = buffer'[Slot(i)']
    BY WaitingIsSeqNext DEF IInv, WaitingOK, Cell, Slots
  <1>5. /\ kbbuffer_count' = kbbuffer_count + 1
        /\ kbbuffer_count < KEYBOARD_BUFFER_SIZE
        /\ kbbuffer_count \in Nat
    BY <1>1, KeyboardAssumption DEF PressKey, Full, IInv, TypeOK
  <1>6. \A i \in 1..KEYBOARD_BUFFER_SIZE : Slot(i)' = Slot(i)
    BY DEF PressKey, Slot
  <1>7. Slot(kbbuffer_count + 1) = kbbuffer_write_index
    BY <1>5, KeyboardAssumption DEF IInv, Behind, Slot, TypeOK, N, Slots
  <1>8. \A i \in 1..kbbuffer_count : Slot(i) # kbbuffer_write_index
    BY <1>5, <1>7, SlotInjective, KeyboardAssumption DEF IInv
  <1>9. \A i \in 1..kbbuffer_count : waiting'[i] = waiting[i]
    <2> SUFFICES ASSUME NEW i \in 1..kbbuffer_count PROVE waiting'[i] = waiting[i]
      OBVIOUS
    <2>1. i \in 1..kbbuffer_count' /\ i \in 1..KEYBOARD_BUFFER_SIZE
      BY <1>5, KeyboardAssumption
    <2>2. buffer'[Slot(i)] = buffer[Slot(i)]
      BY <1>1, <1>3, <1>8 DEF IInv, TypeOK
    <2> QED
      BY <1>3, <1>4, <1>6, <2>1, <2>2
  <1>10. waiting'[kbbuffer_count + 1] = c
    BY <1>1, <1>4, <1>5, <1>6, <1>7 DEF IInv, TypeOK
  <1>11. waiting' = Append(waiting, c)
    <2>1. /\ Append(waiting, c) \in Seq(Cell)
          /\ Len(Append(waiting, c)) = kbbuffer_count + 1
          /\ \A i \in 1..kbbuffer_count : Append(waiting, c)[i] = waiting[i]
          /\ Append(waiting, c)[kbbuffer_count + 1] = c
      BY <1>2, <1>3, AppendProperties
    <2>2. \A i \in 1..Len(waiting') : waiting'[i] = Append(waiting, c)[i]
      BY <1>4, <1>5, <1>9, <1>10, <2>1
    <2> QED
      BY <1>4, <1>5, <2>1, <2>2, SeqEqual
  <1>12. KQ!Type(c)
    BY <1>3, <1>5, <1>11 DEF KQ!Type, PressKey
  <1> QED
    BY <1>2, <1>12

LEMMA RemoveRefines ==
    ASSUME IInv, IInv', RemoveKey, kbbuffer_count > 0, pc # "boot", pc' # "boot"
    PROVE  KQ!Read
  <1>3. /\ waiting \in Seq(Cell)
        /\ Len(waiting) = kbbuffer_count
        /\ \A i \in 1..kbbuffer_count : Slot(i) \in Slots /\ waiting[i] = buffer[Slot(i)]
    BY WaitingIsSeq DEF IInv, WaitingOK
  <1>4. /\ waiting' \in Seq(Cell)
        /\ Len(waiting') = kbbuffer_count'
        /\ \A i \in 1..kbbuffer_count' : Slot(i)' \in Slots /\ waiting'[i] = buffer'[Slot(i)']
    BY WaitingIsSeqNext DEF IInv, WaitingOK, Cell, Slots
  <1>5. /\ kbbuffer_count' = kbbuffer_count - 1
        /\ kbbuffer_count \in 1..KEYBOARD_BUFFER_SIZE
    BY KeyboardAssumption DEF RemoveKey, IInv, TypeOK
  <1>6. Slot(1) = kbbuffer_read_index
    BY KeyboardAssumption DEF IInv, TypeOK, Slot, Slots
  <1>7. \A i \in 1..kbbuffer_count' : Slot(i)' = Slot(i + 1)
    <2>1. kbbuffer_read_index' = IF kbbuffer_read_index + 1 = N THEN 0 ELSE kbbuffer_read_index + 1
      BY AdvanceIsNext DEF RemoveKey, IInv, TypeOK
    <2> QED
      BY <1>5, <2>1, KeyboardAssumption DEF IInv, TypeOK, Slot, Slots, N
  <1>8. \A i \in 1..kbbuffer_count' : Slot(i + 1) # kbbuffer_read_index
    BY <1>5, <1>6, SlotInjective, KeyboardAssumption DEF IInv
  <1>9. \A i \in 1..kbbuffer_count' : waiting'[i] = waiting[i + 1]
    <2> SUFFICES ASSUME NEW i \in 1..kbbuffer_count' PROVE waiting'[i] = waiting[i + 1]
      OBVIOUS
    <2>1. i + 1 \in 1..kbbuffer_count
      BY <1>5
    <2>2. buffer'[Slot(i + 1)] = buffer[Slot(i + 1)]
      BY <1>3, <1>8, <2>1 DEF RemoveKey, IInv, TypeOK
    <2> QED
      BY <1>3, <1>4, <1>7, <2>1, <2>2
  <1>10. waiting # <<>>
    BY <1>3, <1>5, EmptySeq
  <1>11. waiting' = Tail(waiting)
    <2>1. /\ Tail(waiting) \in Seq(Cell)
          /\ Len(Tail(waiting)) = kbbuffer_count - 1
          /\ \A i \in 1..(kbbuffer_count - 1) : Tail(waiting)[i] = waiting[i + 1]
      BY <1>3, <1>10, HeadTailProperties
    <2> QED
      BY <1>4, <1>5, <1>9, <2>1, SeqEqual
  <1>12. got' = Head(waiting)
    <2>1. Head(waiting) = waiting[1]
      BY <1>3, <1>10
    <2> QED
      BY <1>3, <1>5, <1>6, <2>1 DEF RemoveKey
  <1> QED
    BY <1>10, <1>11, <1>12 DEF KQ!Read

LEMMA ClearRefines ==
    ASSUME IInv, IInv', ClearSlot
    PROVE  KQ!Erase \/ UNCHANGED <<waiting, got, pc # "boot">>
  <1>3. /\ waiting \in Seq(Cell)
        /\ Len(waiting) = kbbuffer_count
        /\ \A i \in 1..kbbuffer_count : Slot(i) \in Slots /\ waiting[i] = buffer[Slot(i)]
    BY WaitingIsSeq DEF IInv, WaitingOK
  <1>4. /\ waiting' \in Seq(Cell)
        /\ Len(waiting') = kbbuffer_count'
        /\ \A i \in 1..kbbuffer_count' : Slot(i)' \in Slots /\ waiting'[i] = buffer'[Slot(i)']
    BY WaitingIsSeqNext DEF IInv, WaitingOK, Cell, Slots
  <1>5. kbbuffer_count' = kbbuffer_count /\ kbbuffer_count \in 0..KEYBOARD_BUFFER_SIZE
    BY DEF ClearSlot, IInv, TypeOK
  <1>6. \A i \in 1..kbbuffer_count : Slot(i)' = Slot(i)
    BY DEF ClearSlot, Slot
  <1>7. CASE \E i \in 1..kbbuffer_count : Slot(i) = cleared
    <2>1. PICK k \in 1..kbbuffer_count : Slot(k) = cleared
      BY <1>7
    <2>2. \A i \in 1..kbbuffer_count : waiting'[i] = IF i = k THEN NUL ELSE waiting[i]
      <3> SUFFICES ASSUME NEW i \in 1..kbbuffer_count
                   PROVE  waiting'[i] = IF i = k THEN NUL ELSE waiting[i]
        OBVIOUS
      <3>1. i # k => Slot(i) # cleared
        BY <1>5, <2>1, SlotInjective, KeyboardAssumption DEF IInv
      <3>2. buffer'[Slot(i)] = IF Slot(i) = cleared THEN NUL ELSE buffer[Slot(i)]
        BY <1>3 DEF ClearSlot, IInv, TypeOK
      <3> QED
        BY <1>3, <1>4, <1>5, <1>6, <2>1, <3>1, <3>2
    <2>3. waiting' = [waiting EXCEPT ![k] = NUL]
      <3>1. NUL \in Cell /\ k \in 1..Len(waiting)
        BY <1>3 DEF Cell
      <3>2. /\ [waiting EXCEPT ![k] = NUL] \in Seq(Cell)
            /\ Len([waiting EXCEPT ![k] = NUL]) = Len(waiting)
            /\ \A j \in 1..Len(waiting) : [waiting EXCEPT ![k] = NUL][j] =
                                             IF j = k THEN NUL ELSE waiting[j]
        BY <1>3, <3>1, ExceptSeq
      <3> QED
        BY <1>3, <1>4, <1>5, <2>2, <3>2, SeqEqual
    <2> QED
      BY <1>3, <2>3 DEF KQ!Erase, ClearSlot
  <1>8. CASE \A i \in 1..kbbuffer_count : Slot(i) # cleared
    <2>1. \A i \in 1..kbbuffer_count : waiting'[i] = waiting[i]
      BY <1>3, <1>4, <1>5, <1>6, <1>8 DEF ClearSlot, IInv, TypeOK
    <2>2. waiting' = waiting
      BY <1>3, <1>4, <1>5, <2>1, SeqEqual
    <2> QED
      BY <2>2 DEF ClearSlot
  <1> QED
    BY <1>7, <1>8

LEMMA StepRefines ==
    ASSUME IInv, IInv', [Next]_vars
    PROVE  [KQ!Next]_<<waiting, got, pc # "boot">>
  <1>1. ASSUME UNCHANGED ring PROVE UNCHANGED waiting
    BY <1>1 DEF ring, waiting, Slot
  <1>2. CASE ShiftKey
    BY <1>1, <1>2 DEF ShiftKey
  <1>3. CASE PressKey
    BY <1>3, PressRefines DEF KQ!Next
  <1>4. CASE ClearSlot
    BY <1>4, ClearRefines DEF KQ!Next
  <1>5. CASE BootDone
    BY <1>1, <1>5 DEF BootDone, KQ!Next, KQ!Open
  <1>6. CASE GetKey \/ GetKeyWaited
    BY <1>1, <1>6 DEF GetKey, GetKeyWaited
  <1>7. CASE GetKeyTake
    BY <1>7, RemoveRefines DEF GetKeyTake, KQ!Next, IInv, TakeFindsKey
  <1>8. CASE GetKey_NoBlock
    <2>1. kbbuffer_count > 0
      BY <1>8, KeyboardAssumption DEF GetKey_NoBlock, IInv, TypeOK
    <2> QED
      BY <1>8, <2>1, RemoveRefines DEF GetKey_NoBlock, KQ!Next
  <1>9. CASE UNCHANGED vars
    BY <1>1, <1>9 DEF vars, ring
  <1> QED
    BY <1>2, <1>3, <1>4, <1>5, <1>6, <1>7, <1>8, <1>9 DEF Next, Shell

\* irq_1, the clearing of the buffer at boot, GetKey and GetKey_NoBlock together
\* implement a bounded first-in first-out queue of characters.
THEOREM DriverImplementsQueue == Spec => ImplementsQueue
  <1>1. Init => KQ!Init
    BY InitRefines
  <1>2. IInv /\ IInv' /\ [Next]_vars => [KQ!Next]_<<waiting, got, pc # "boot">>
    BY StepRefines
  <1> QED
    BY <1>1, <1>2, IInvHolds, PTL DEF Spec, ImplementsQueue, KQ!Spec

-----------------------------------------------------------------------------
(***************************************************************************)
(* The interrupts.                                                         *)
(***************************************************************************)
\* What a stub has pushed by the time it calls its handler.
Words == {"irq", "fault", "error", "registers", "padding", "return"}
Saved == <<"irq", "registers", "padding", "return">>
LineOf(v) == IF v = "timer" THEN 0 ELSE 1

\* Where the processor is decides what is on the stack.
StackShape ==
    /\ cpu.at = "code" => stack = <<>>
    /\ cpu.at \in {"entry", "iret"} /\ cpu.v \in Served => stack = <<"irq">>
    /\ cpu.at \in {"body", "leave"} /\ cpu.v \in Served => stack = Saved
    /\ cpu.at \in {"entry", "iret"} /\ cpu.v = "unused" => stack = <<"fault">>
    /\ cpu.at \in {"entry", "iret"} /\ cpu.v = "NP" => stack = <<"fault", "error">>
    /\ \A k \in 2..Len(stack) : stack[k] # "irq"

\* And which lines are in service.
LinesInService ==
    /\ cpu.at = "code" \/ (cpu.v \in DefaultGates /\ cpu.at \in {"entry", "iret"}) => isr = {}
    /\ cpu.at \in {"entry", "body"} /\ cpu.v \in Served => isr = {LineOf(cpu.v)}
    /\ cpu.at \in {"leave", "iret"} /\ cpu.v \in Served => isr = {}

\* Only the two lines and the default stub ever come back.
WhoReturns ==
    /\ cpu.at = "leave" => cpu.v \in Served
    /\ cpu.at = "iret" => cpu.v \in Served \cup DefaultGates
    /\ cpu.at = "body" => cpu.v \notin DefaultGates
    /\ cpu.at = "wild" => cpu.v = "NP"
    /\ cpu.at = "entry" => cpu.v # "none"

\* The inductive invariant.
IntInv == IntTypeOK /\ StackShape /\ LinesInService /\ WhoReturns

LEMMA IntInitInv == IntInit => IntInv
  BY DEF IntInit, IntInv, IntTypeOK, StackShape, LinesInService, WhoReturns, Code

-----------------------------------------------------------------------------
\* Words pushed behind others: no frame of a line gets below them.
LEMMA PushedWords ==
    ASSUME NEW s \in Seq(Words), NEW t \in Seq(Words \ {"irq"}),
           \A k \in 2..Len(s) : s[k] # "irq"
    PROVE  /\ s \o t \in Seq(Words)
           /\ \A k \in 2..Len(s \o t) : (s \o t)[k] # "irq"
  <1>1. s \o t \in Seq(Words) /\ Len(s \o t) = Len(s) + Len(t)
    BY DEF Words
  <1>2. ASSUME NEW k \in 2..Len(s \o t) PROVE (s \o t)[k] # "irq"
    <2>1. CASE k <= Len(s)
      <3>1. k \in 2..Len(s)
        BY <2>1
      <3>2. (s \o t)[k] = s[k]
        BY <2>1
      <3> QED
        BY <3>1, <3>2
    <2>2. CASE k > Len(s)
      <3>1. k - Len(s) \in 1..Len(t)
        BY <1>1, <2>2
      <3>2. (s \o t)[k] = t[k - Len(s)]
        BY <1>1, <2>2
      <3> QED
        BY <3>1, <3>2
    <2> QED
      BY <2>1, <2>2
  <1> QED
    BY <1>1, <1>2

\* The words of a frame, an error code and a stub.
LEMMA StubWords ==
    /\ <<"fault">> \in Seq(Words \ {"irq"})
    /\ <<"fault", "error">> \in Seq(Words \ {"irq"})
    /\ <<"registers", "padding", "return">> \in Seq(Words \ {"irq"})
    /\ <<"registers", "padding">> \in Seq(Words \ {"irq"})
  BY DEF Words

\* A frame with its error code; the words of a stub behind the frame of a line, pushed and
\* taken off again.
LEMMA FrameWords ==
    /\ <<"fault">> \o <<"error">> = <<"fault", "error">>
    /\ <<"fault">> \o <<>> = <<"fault">>
  <1> DEFINE s == <<"fault">>
             t == <<"error">>
             r == <<"fault", "error">>
  <1>1. s \in Seq(Words) /\ t \in Seq(Words) /\ r \in Seq(Words)
    BY DEF Words
  <1>2. Len(s) = 1 /\ Len(t) = 1 /\ Len(r) = 2 /\ s[1] = r[1] /\ t[1] = r[2]
    OBVIOUS
  <1> HIDE DEF s, t, r
  <1>3. /\ s \o t \in Seq(Words)
        /\ Len(s \o t) = 2
        /\ \A k \in 1..2 : (s \o t)[k] = IF k <= 1 THEN s[k] ELSE t[k - 1]
    BY <1>1, <1>2, ConcatProperties
  <1>4. \A k \in 1..2 : (s \o t)[k] = r[k]
    BY <1>2, <1>3
  <1>5. s \o t = r
    BY <1>1, <1>2, <1>3, <1>4, SeqEqual
  <1> QED
    BY <1>1, <1>5, ConcatEmptySeq DEF s, t, r

LEMMA SavedWords ==
    /\ <<"irq">> \o <<"registers", "padding", "return">> = Saved
    /\ SubSeq(Saved, 1, Len(Saved) - 3) = <<"irq">>
  <1> DEFINE s == <<"irq">>
             t == <<"registers", "padding", "return">>
  <1>1. s \in Seq(Words) /\ t \in Seq(Words) /\ Saved \in Seq(Words)
    BY DEF Words, Saved
  <1>2. /\ Len(s) = 1 /\ Len(t) = 3 /\ Len(Saved) = 4
        /\ s[1] = Saved[1] /\ t[1] = Saved[2] /\ t[2] = Saved[3] /\ t[3] = Saved[4]
    BY DEF Saved
  <1> HIDE DEF s, t
  <1>3. /\ s \o t \in Seq(Words)
        /\ Len(s \o t) = 4
        /\ \A k \in 1..4 : (s \o t)[k] = IF k <= 1 THEN s[k] ELSE t[k - 1]
    <2>1. /\ s \o t \in Seq(Words)
          /\ Len(s \o t) = Len(s) + Len(t)
          /\ \A k \in 1 .. Len(s) + Len(t) :
                (s \o t)[k] = IF k <= Len(s) THEN s[k] ELSE t[k - Len(s)]
      BY <1>1, ConcatProperties
    <2> QED
      BY <1>2, <2>1
  <1>4. \A k \in 1..4 : (s \o t)[k] = Saved[k]
    BY <1>2, <1>3
  <1>5. s \o t = Saved
    BY <1>1, <1>2, <1>3, <1>4, SeqEqual
  <1>6. /\ SubSeq(Saved, 1, 1) \in Seq(Words)
        /\ Len(SubSeq(Saved, 1, 1)) = 1
        /\ SubSeq(Saved, 1, 1)[1] = Saved[1]
    BY <1>1, <1>2, SubSeqProperties
  <1>7. SubSeq(Saved, 1, 1) = s
    BY <1>1, <1>2, <1>6, SeqEqual
  <1> QED
    BY <1>2, <1>5, <1>7 DEF s, t

-----------------------------------------------------------------------------
\* A gate is passed: the frame lies on top, and the default stubs are entered only from
\* code that was not serving anything.
LEMMA FaultKeeps ==
    ASSUME IntInv, NEW v \in Vectors, Fault(v),
           v \in DefaultGates => cpu.at = "code"
    PROVE  IntInv'
  <1> DEFINE frame == <<"fault">> \o (IF v \in WithError THEN <<"error">> ELSE <<>>)
  <1>1. frame = IF v \in WithError THEN <<"fault", "error">> ELSE <<"fault">>
    BY FrameWords
  <1>2. frame \in Seq(Words \ {"irq"})
    BY <1>1, StubWords
  <1>3. stack' = stack \o frame /\ cpu' = [at |-> "entry", v |-> v] /\ intr' = FALSE
        /\ UNCHANGED <<irr, isr>>
    BY DEF Fault, Push, GoTo
  <1>4. stack \in Seq(Words) /\ \A k \in 2..Len(stack) : stack[k] # "irq"
    BY DEF IntInv, IntTypeOK, StackShape, Words
  <1> HIDE DEF frame
  <1>5. stack' \in Seq(Words) /\ \A k \in 2..Len(stack') : stack'[k] # "irq"
    BY <1>2, <1>3, <1>4, PushedWords
  <1>6. v \in DefaultGates => stack' = frame
    <2>1. ASSUME v \in DefaultGates PROVE stack = <<>>
      BY <2>1 DEF IntInv, StackShape
    <2>2. stack = <<>> => stack \o frame = frame
      BY <1>2
    <2> QED
      BY <1>3, <2>1, <2>2
  <1>7. v \notin Served /\ v # "none"
    BY DEF Vectors, CallGates, JumpGates, DefaultGates, Served
  <1>8. IntTypeOK'
    BY <1>3, <1>5 DEF IntInv, IntTypeOK, Words
  <1>9. StackShape'
    <2>1. v = "unused" => stack' = <<"fault">>
      BY <1>1, <1>6 DEF DefaultGates, WithError
    <2>2. v = "NP" => stack' = <<"fault", "error">>
      BY <1>1, <1>6 DEF DefaultGates, WithError
    <2> QED
      BY <1>3, <1>5, <1>7, <2>1, <2>2 DEF StackShape
  <1>10. LinesInService'
    BY <1>3, <1>7 DEF IntInv, LinesInService
  <1>11. WhoReturns'
    BY <1>3, <1>7 DEF WhoReturns
  <1> QED
    BY <1>8, <1>9, <1>10, <1>11 DEF IntInv

\* A line is taken only by code: not in the shadow of the sti of a stub.
LEMMA AcceptKeeps ==
    ASSUME IntInv, NEW i \in Lines, AcceptLine(i)
    PROVE  IntInv'
  <1>1. cpu.at = "code" /\ stack = <<>> /\ isr = {}
    BY DEF AcceptLine, Shadowed, IntInv, StackShape, LinesInService
  <1>2. stack' = <<"irq">>
    BY <1>1 DEF AcceptLine, Push
  <1>3. cpu' = [at |-> "entry", v |-> IrqName[i]] /\ intr' = FALSE
    BY DEF AcceptLine, GoTo
  <1>4. isr' = {i} /\ irr' \subseteq Lines
    BY <1>1 DEF AcceptLine, IntInv, IntTypeOK
  <1>5. IrqName[i] \in Served /\ LineOf(IrqName[i]) = i /\ IrqName[i] \notin Vectors \cup {"none"}
    BY DEF IrqName, Lines, Served, LineOf, Vectors, CallGates, JumpGates, DefaultGates
  <1>6. IntTypeOK'
    <2>1. isr' \subseteq Lines /\ irr' \subseteq Lines /\ intr' \in BOOLEAN
      BY <1>3, <1>4
    <2>2. stack' \in Seq(Words)
      BY <1>2 DEF Words
    <2> QED
      BY <1>3, <1>5, <2>1, <2>2 DEF IntTypeOK, Words
  <1>7. StackShape'
    BY <1>2, <1>3, <1>5 DEF StackShape, Vectors, DefaultGates
  <1>8. LinesInService' /\ WhoReturns'
    BY <1>3, <1>4, <1>5 DEF LinesInService, WhoReturns, Vectors
  <1> QED
    BY <1>6, <1>7, <1>8 DEF IntInv

\* A stub that calls or jumps pushes the registers.
LEMMA EntryKeeps ==
    ASSUME IntInv, CallStub \/ JumpStub
    PROVE  IntInv'
  <1>1. cpu.at = "entry" /\ cpu' = [at |-> "body", v |-> cpu.v] /\ intr' = FALSE
        /\ UNCHANGED <<irr, isr>> /\ cpu.v \notin DefaultGates
    BY DEF CallStub, JumpStub, GoTo, CallGates, JumpGates, DefaultGates, Served
  <1>2. PICK w \in {<<"registers", "padding", "return">>, <<"registers", "padding">>} : stack' = stack \o w
    BY DEF CallStub, JumpStub, Push
  <1>3. stack \in Seq(Words) /\ \A k \in 2..Len(stack) : stack[k] # "irq"
    BY DEF IntInv, IntTypeOK, StackShape, Words
  <1>4. stack' \in Seq(Words) /\ \A k \in 2..Len(stack') : stack'[k] # "irq"
    BY <1>2, <1>3, StubWords, PushedWords
  <1>5. cpu.v \in Served => stack' = Saved
    <2> SUFFICES ASSUME cpu.v \in Served PROVE stack' = Saved
      OBVIOUS
    <2>1. stack' = stack \o <<"registers", "padding", "return">>
      BY DEF CallStub, JumpStub, Push, JumpGates, Served
    <2>2. stack = <<"irq">>
      BY <1>1 DEF IntInv, StackShape
    <2> QED
      BY <2>1, <2>2, SavedWords
  <1>6. IntTypeOK'
    BY <1>1, <1>4 DEF IntInv, IntTypeOK, Words
  <1>7. StackShape'
    BY <1>1, <1>4, <1>5 DEF StackShape
  <1>8. LinesInService' /\ WhoReturns'
    BY <1>1 DEF IntInv, LinesInService, WhoReturns
  <1> QED
    BY <1>6, <1>7, <1>8 DEF IntInv

\* The handlers of the two lines tell the controller.
LEMMA HandlerKeeps ==
    ASSUME IntInv, irq_0 \/ irq_1
    PROVE  IntInv'
  <1>1. cpu.at = "body" /\ cpu.v \in Served /\ cpu' = [at |-> "leave", v |-> cpu.v]
        /\ UNCHANGED <<intr, stack, irr>> /\ PIC_sendEOI
    BY DEF irq_0, irq_1, GoTo, Served
  <1>2. isr = {LineOf(cpu.v)}
    BY <1>1 DEF IntInv, LinesInService
  <1>3. isr' = {}
    <2>1. \A i \in isr : i = LineOf(cpu.v)
      BY <1>2
    <2>2. \E i \in isr : \A j \in isr : i <= j
      BY <1>2 DEF LineOf
    <2>3. (CHOOSE i \in isr : \A j \in isr : i <= j) \in isr
      BY <2>2
    <2> QED
      BY <1>1, <1>2, <2>1, <2>3 DEF PIC_sendEOI
  <1>4. IntTypeOK'
    BY <1>1, <1>3 DEF IntInv, IntTypeOK
  <1>5. StackShape'
    BY <1>1 DEF IntInv, StackShape
  <1>6. LinesInService' /\ WhoReturns'
    BY <1>1, <1>3 DEF LinesInService, WhoReturns, DefaultGates, Served
  <1> QED
    BY <1>4, <1>5, <1>6 DEF IntInv

\* The way back.
LEMMA LeaveKeeps ==
    ASSUME IntInv, LeaveStub
    PROVE  IntInv'
  <1>1. cpu.at = "leave" /\ cpu.v \in Served /\ stack = Saved /\ isr = {}
    BY DEF LeaveStub, IntInv, WhoReturns, StackShape, LinesInService
  <1>2. stack' = <<"irq">>
    BY <1>1, SavedWords DEF LeaveStub, Pop
  <1>3. cpu' = [at |-> "iret", v |-> cpu.v] /\ intr' = TRUE /\ UNCHANGED <<irr, isr>>
    BY DEF LeaveStub, GoTo
  <1>4. IntTypeOK'
    BY <1>1, <1>2, <1>3 DEF IntInv, IntTypeOK
  <1>5. StackShape'
    BY <1>1, <1>2, <1>3 DEF StackShape, Served
  <1>6. LinesInService' /\ WhoReturns'
    BY <1>1, <1>3 DEF LinesInService, WhoReturns
  <1> QED
    BY <1>4, <1>5, <1>6 DEF IntInv

LEMMA IretqKeeps ==
    ASSUME IntInv, Iretq
    PROVE  IntInv'
  <1>1. cpu.at = "iret" /\ cpu.v \in Served \cup {"unused", "NP"} /\ UNCHANGED <<irr, isr>> /\ isr = {}
    BY DEF Iretq, IntInv, WhoReturns, LinesInService, DefaultGates
  <1>2. CASE cpu.v # "NP"
    <2>1. stack = <<"irq">> \/ stack = <<"fault">>
      BY <1>1, <1>2 DEF IntInv, StackShape
    <2>2. cpu' = Code /\ stack' = <<>> /\ intr' = TRUE
      BY <2>1 DEF Iretq, Top, Pop
    <2> QED
      BY <1>1, <2>2 DEF IntInv, IntTypeOK, StackShape, LinesInService, WhoReturns, Code
  <1>3. CASE cpu.v = "NP"
    <2>1. stack = <<"fault", "error">>
      BY <1>1, <1>3 DEF IntInv, StackShape
    <2>2. cpu' = [at |-> "wild", v |-> "NP"] /\ UNCHANGED <<stack, intr>>
      BY <1>3, <2>1 DEF Iretq, Top, GoTo
    <2> QED
      BY <1>1, <2>2 DEF IntInv, IntTypeOK, StackShape, LinesInService, WhoReturns, Vectors, DefaultGates
  <1> QED
    BY <1>2, <1>3

-----------------------------------------------------------------------------
\* The steps that leave the stack alone.
LEMMA QuietKeeps ==
    ASSUME IntInv, UNCHANGED <<stack, isr, intr>>, irr' \subseteq Lines,
           \/ UNCHANGED cpu
           \/ cpu.at = "entry" /\ cpu.v \in DefaultGates /\ cpu' = [at |-> "iret", v |-> cpu.v]
           \/ \E l \in {"halted", "reset"} : cpu' = [at |-> l, v |-> cpu.v]
    PROVE  IntInv'
  <1>1. CASE UNCHANGED cpu
    BY <1>1 DEF IntInv, IntTypeOK, StackShape, LinesInService, WhoReturns
  <1>2. CASE cpu.at = "entry" /\ cpu.v \in DefaultGates /\ cpu' = [at |-> "iret", v |-> cpu.v]
    BY <1>2 DEF IntInv, IntTypeOK, StackShape, LinesInService, WhoReturns, DefaultGates, Served
  <1>3. CASE \E l \in {"halted", "reset"} : cpu' = [at |-> l, v |-> cpu.v]
    BY <1>3 DEF IntInv, IntTypeOK, StackShape, LinesInService, WhoReturns
  <1> QED
    BY <1>1, <1>2, <1>3

LEMMA IntStepKeeps == IntInv /\ [IntNext]_intVars => IntInv'
  <1> SUFFICES ASSUME IntInv, [IntNext]_intVars PROVE IntInv'
    OBVIOUS
  <1>0. irr \subseteq Lines
    BY DEF IntInv, IntTypeOK
  <1>1. ASSUME NEW i \in Lines, RaiseLine(i) PROVE IntInv'
    BY <1>0, <1>1, QuietKeeps DEF RaiseLine
  <1>2. ASSUME NEW i \in Lines, AcceptLine(i) PROVE IntInv'
    BY <1>2, AcceptKeeps
  <1>3. CASE Exception
    <2>1. PICK v \in Raised \ {"NMI"} : Fault(v) /\ cpu.at = "code"
      BY <1>3 DEF Exception
    <2> QED
      BY <2>1, FaultKeeps, InterruptsAssumption
  <1>4. CASE Nmi
    BY <1>4, FaultKeeps, InterruptsAssumption DEF Nmi, Vectors, JumpGates, DefaultGates
  <1>5. CASE DefaultStub
    BY <1>0, <1>5, QuietKeeps DEF DefaultStub, GoTo
  <1>6. CASE CallStub \/ JumpStub
    BY <1>6, EntryKeeps
  <1>7. CASE irq_0 \/ irq_1
    BY <1>7, HandlerKeeps
  <1>8. CASE LeaveStub
    BY <1>8, LeaveKeeps
  <1>9. CASE Iretq
    BY <1>9, IretqKeeps
  <1>10. CASE Stop
    BY <1>0, <1>10, QuietKeeps DEF Stop, GoTo
  <1>11. CASE WildPrint
    <2>1. CASE Fault("PF")
      BY <2>1, FaultKeeps DEF Vectors, CallGates, DefaultGates
    <2>2. CASE GoTo("reset", cpu.v) /\ UNCHANGED <<intr, stack, irr, isr>>
      BY <1>0, <2>2, QuietKeeps DEF GoTo
    <2> QED
      BY <1>11, <2>1, <2>2 DEF WildPrint
  <1>12. CASE UNCHANGED intVars
    BY <1>0, <1>12, QuietKeeps DEF intVars
  <1> QED
    BY <1>1, <1>2, <1>3, <1>4, <1>5, <1>6, <1>7, <1>8, <1>9, <1>10, <1>11, <1>12
    DEF IntNext, Stubs, Handlers, Devices, Deliver

\* For every set of exceptions and every depth of the stack: the stubs of idt.c and pic.c
\* return to the frames the processor pushed, with the controller idle.
THEOREM InterruptsReturn == IntSpec => []ReturnsClean
  <1>1. IntInv => ReturnsClean
    <2> SUFFICES ASSUME IntInv PROVE ReturnsClean
      OBVIOUS
    <2>1. ASSUME cpu.at = "iret", cpu.v # "NP" PROVE Top \in {"irq", "fault"}
      <3>1. stack = <<"irq">> \/ stack = <<"fault">>
        BY <2>1 DEF IntInv, WhoReturns, StackShape, DefaultGates
      <3> QED
        BY <3>1 DEF Top
    <2> QED
      BY <2>1 DEF IntInv, WhoReturns, StackShape, LinesInService, ReturnsClean
  <1> QED
    BY IntInitInv, IntStepKeeps, <1>1, PTL DEF IntSpec

-----------------------------------------------------------------------------
(***************************************************************************)
(* Both together.                                                          *)
(***************************************************************************)
\* A step of the system is a step of the driver or leaves it alone, and a step of the
\* interrupts or leaves them alone.
LEMMA SysStep == [SysNext]_sysVars => [Next]_vars /\ [IntNext]_intVars
  <1> SUFFICES ASSUME [SysNext]_sysVars PROVE [Next]_vars /\ [IntNext]_intVars
    OBVIOUS
  <1>1. CASE KeyInterrupt
    BY <1>1 DEF KeyInterrupt, Next, IntNext
  <1>2. CASE Boot
    BY <1>2 DEF Boot, Next
  <1>3. CASE Reader \/ ClockCommand
    BY <1>3 DEF Reader, ClockCommand, Next
  <1>4. CASE Processor \/ World
    BY <1>4 DEF Processor, World, IntNext
  <1>5. CASE \E i \in Lines : DeliverLine(i)
    BY <1>5 DEF DeliverLine, IntNext, Deliver
  <1>6. CASE UNCHANGED sysVars
    BY <1>6 DEF sysVars
  <1> QED
    BY <1>1, <1>2, <1>3, <1>4, <1>5, <1>6 DEF SysNext

\* The keyboard driver under its interrupts (Keyboard.c, idt.c and pic.c together) keeps
\* its ring consistent and is the queue of KeyQueue, and every stub comes back clean.
THEOREM SystemIsSound == SysSpec => []RingConsistent /\ ImplementsQueue /\ []ReturnsClean
  <1>1. SysInit => Init /\ IntInit
    BY DEF SysInit
  <1>2. SysSpec => Spec /\ IntSpec
    BY <1>1, SysStep, PTL DEF SysSpec, Spec, IntSpec
  <1> QED
    BY <1>2, RingAlwaysConsistent, DriverImplementsQueue, InterruptsReturn, PTL
=============================================================================
