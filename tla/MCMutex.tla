------------------------------ MODULE MCMutex ------------------------------
EXTENDS Mutex, TLC

CONSTANTS boot, a, b, c

MCThread == {boot, a, b, c}
MCPolicy == (boot :> LOW_LATENCY) @@ (a :> NORMAL) @@ (b :> NORMAL) @@ (c :> NORMAL)
=============================================================================
