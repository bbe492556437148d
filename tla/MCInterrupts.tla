---------------------------- MODULE MCInterrupts ----------------------------
EXTENDS Interrupts, TLC

CONSTANTS boot, a, b

MCThread == {boot, a, b}
MCPolicy == (boot :> LOW_LATENCY) @@ (a :> NORMAL) @@ (b :> NORMAL)
=============================================================================
