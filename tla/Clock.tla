------------------------------- MODULE Clock -------------------------------
(***************************************************************************)
(* Get_CPU_Frequency of Kernel/lib/delay.c: the cycles between two changes *)
(* of the second that get_rtc_time of Kernel/kernel/Time.c reads.  The     *)
(* loops read the clock far more often than once a second, so the clock    *)
(* moves on only after it was read.                                        *)
(***************************************************************************)
EXTENDS Integers

CONSTANT MINUTE            \* 60 seconds
ASSUME ClockAssumption == MINUTE \in Nat \ {0, 1, 2}

VARIABLES
    second,                \* the second of the real-time clock
    cal                    \* the calibration: pc, the second last met, read since it moved?
clockVars == <<second, cal>>

Uncalibrated == [pc |-> "before", s |-> 0, seen |-> FALSE]
ClockInit == second = 0 /\ cal = Uncalibrated

\* It may be any second when s1 is read ...
StartCalibration ==
    /\ cal.pc = "before"
    /\ second' \in 0..(MINUTE - 1)
    /\ cal' = [pc |-> "s2", s |-> second', seen |-> TRUE]

\* ... then both loops wait for the number that follows the last one.
NextSecond(s) == s + 1

PollSecond ==
    /\ cal.pc \in {"s2", "s3"}
    /\ cal' = IF second = NextSecond(cal.s)
              THEN [pc |-> IF cal.pc = "s2" THEN "s3" ELSE "after", s |-> second, seen |-> TRUE]
              ELSE [cal EXCEPT !.seen = TRUE]
    /\ UNCHANGED second

Tick ==
    /\ cal.pc \in {"s2", "s3"} /\ cal.seen
    /\ second' = (second + 1) % MINUTE
    /\ cal' = [cal EXCEPT !.seen = FALSE]

ClockStep == StartCalibration \/ PollSecond

\* The loops wait for second 60.
Overran == cal.pc \in {"s2", "s3"} /\ cal.s = MINUTE - 1
=============================================================================
