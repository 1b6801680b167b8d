------------------------------ MODULE KeyQueue ------------------------------
(***************************************************************************)
(* What the keyboard driver promises its reader: the characters typed, in  *)
(* the order typed, at most Size of them waiting; a character typed into a *)
(* full queue is lost and nothing else is.  While the kernel boots         *)
(* (~open) the queue has no reader and waiting characters may be erased:   *)
(* they keep their place and are read as NUL.                              *)
(***************************************************************************)
EXTENDS Integers, Sequences

CONSTANTS Size, Chars, NUL

VARIABLES queue, got, open

Init == queue = <<>> /\ got = NUL /\ open = FALSE

Type(c) ==
    /\ Len(queue) < Size
    /\ queue' = Append(queue, c)
    /\ UNCHANGED <<got, open>>

Erase ==
    /\ ~open
    /\ \E i \in 1..Len(queue) : queue' = [queue EXCEPT ![i] = NUL]
    /\ UNCHANGED <<got, open>>

Open == ~open /\ open' = TRUE /\ UNCHANGED <<queue, got>>

Read ==
    /\ open
    /\ queue # <<>>
    /\ got' = Head(queue)
    /\ queue' = Tail(queue)
    /\ UNCHANGED open

Next == (\E c \in Chars : Type(c)) \/ Erase \/ Open \/ Read

Spec == Init /\ [][Next]_<<queue, got, open>>
=============================================================================
