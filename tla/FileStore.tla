------------------------------ MODULE FileStore ------------------------------
(***************************************************************************)
(* What the file system promises its users: a file is a sequence of bytes, *)
(* a directory is empty content, and a node that is deleted while it is    *)
(* open stays until its last handle is closed.                             *)
(***************************************************************************)
EXTENDS Sequences

CONSTANTS Node, Handle, None, Buffer, Below(_, _)

VARIABLES
    content,    \* of a node that exists
    open,       \* the node and mode of a handle; fresh: its first write replaces the content
    doomed      \* nodes that are deleted with their last handle

vars == <<content, open, doomed>>

Remove(n) == content' = [m \in Node |-> IF m = n \/ Below(m, n) THEN None ELSE content[m]]

Create(n) ==
    /\ content[n] = None
    /\ content' = [content EXCEPT ![n] = << >>]
    /\ UNCHANGED <<open, doomed>>

Delete(n) ==
    /\ content[n] # None
    /\ \A h \in Handle : open[h] # None => open[h].node # n /\ ~Below(open[h].node, n)
    /\ Remove(n)
    /\ UNCHANGED <<open, doomed>>

Doom(n) ==
    /\ \E h \in Handle : open[h] # None /\ open[h].node = n
    /\ doomed' = doomed \cup {n}
    /\ UNCHANGED <<content, open>>

Open(h, n, mode) ==
    /\ open[h] = None
    /\ content[n] # None
    /\ open' = [open EXCEPT ![h] = [node |-> n, mode |-> mode, fresh |-> mode = "WRITE"]]
    /\ UNCHANGED <<content, doomed>>

Close(h) ==
    /\ open[h] # None
    /\ open' = [open EXCEPT ![h] = None]
    /\ LET n == open[h].node
       IN  IF n \in doomed /\ ~\E k \in Handle \ {h} : open[k] # None /\ open[k].node = n
           THEN Remove(n) /\ doomed' = doomed \ {n}
           ELSE UNCHANGED <<content, doomed>>

Write(h, bytes) ==
    /\ open[h] # None /\ open[h].mode # "READ"
    /\ open' = [open EXCEPT ![h].fresh = FALSE]
    /\ content' = [content EXCEPT ![open[h].node] = IF open[h].fresh THEN bytes ELSE @ \o bytes]
    /\ UNCHANGED doomed

Init ==
    /\ content = [n \in Node |-> None]
    /\ open = [h \in Handle |-> None]
    /\ doomed = {}

Next ==
    \/ \E n \in Node : Create(n) \/ Delete(n) \/ Doom(n)
    \/ \E h \in Handle, n \in Node, mode \in {"READ", "WRITE", "APPEND"} : Open(h, n, mode)
    \/ \E h \in Handle : Close(h)
    \/ \E h \in Handle, bytes \in Buffer : Write(h, bytes)

Spec == Init /\ [][Next]_vars
=============================================================================
