------------------------------ MODULE MCTimer ------------------------------
(* Timer for TLC: three threads, sleeps of one to three periods of two       *)
(* units.                                                                    *)
EXTENDS TimerPeriods, TLC

Symmetry == Permutations(Threads)

=============================================================================
