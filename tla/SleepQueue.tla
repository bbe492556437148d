----------------------------- MODULE SleepQueue -----------------------------
(***************************************************************************)
(* What the queue of sleeping threads promises (Include/CPU/Time/Timer.h): *)
(* every sleeper has some time left, each timer interrupt takes the time   *)
(* between two interrupts from ALL of them at once, and a sleeper whose    *)
(* time is up is awake.  How the threads are ordered, and that only the    *)
(* first of them is ever touched, is left to the delta queue of Timer.     *)
(***************************************************************************)
EXTENDS Naturals

CONSTANTS Threads,      \* the threads that may sleep
          TimeBetweenIrq \* PIT::_time_between_irq, in the unit of the model

VARIABLE left           \* the time each thread still has to sleep, 0: awake

Init == left = [t \in Threads |-> 0]

\* sleep_until(): t is awake and goes to sleep for some time
Sleep(t) == /\ left[t] = 0
            /\ left'[t] \in Nat \ {0}
            /\ left' = [left EXCEPT ![t] = left'[t]]

\* remove_sleeping_thread()
Cancel(t) == /\ left[t] > 0
             /\ left' = [left EXCEPT ![t] = 0]

\* One timer interrupt
Elapse == left' = [t \in Threads |-> IF left[t] > TimeBetweenIrq
                                     THEN left[t] - TimeBetweenIrq ELSE 0]

Next == \/ \E t \in Threads : Sleep(t) \/ Cancel(t)
        \/ Elapse

Spec == Init /\ [][Next]_left
=============================================================================
