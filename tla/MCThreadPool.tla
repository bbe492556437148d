---------------------------- MODULE MCThreadPool ----------------------------
EXTENDS ThreadPool, TLC

CONSTANTS boot, o, s, w1, w2

MCThread == {boot, o, s, w1, w2}
MCPoolThreads == <<w1, w2>>
MCPolicy == (boot :> LOW_LATENCY) @@ (o :> NORMAL) @@ (s :> NORMAL)
            @@ (w1 :> LOW_LATENCY) @@ (w2 :> LOW_LATENCY)
=============================================================================
