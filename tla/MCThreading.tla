---------------------------- MODULE MCThreading ----------------------------
EXTENDS Threading, TLC

CONSTANTS boot, a, b, c

MCThread == {boot, a, b, c}
MCPolicy == (boot :> LOW_LATENCY) @@ (a :> NORMAL) @@ (b :> NORMAL) @@ (c :> BACKGROUND)
=============================================================================
