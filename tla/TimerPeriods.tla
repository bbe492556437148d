---------------------------- MODULE TimerPeriods ----------------------------
(***************************************************************************)
(* Timer as the kernel uses it: a period is a millisecond, the quantum is  *)
(* 50 of them, only sleep_milli() is called, and nobody sleeps for 2^63    *)
(* nanoseconds.  With other durations a wake time may wrap below zero and  *)
(* the thread sleep on (DeltaQueue.cpp, update_wake_time()).               *)
(***************************************************************************)
EXTENDS Timer

ASSUME PeriodAssumption ==
    /\ Quantum < Word /\ Quantum % TimeBetweenIrq = 0
    /\ \A d \in Durations : d <= Word \div 2 /\ d % TimeBetweenIrq = 0
=============================================================================
