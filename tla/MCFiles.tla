------------------------------ MODULE MCFiles ------------------------------
EXTENDS FileSystem
CONSTANTS f, g, d, h1, h2

MCParent == [n \in {f, g, d} |-> IF n = f THEN d ELSE Root]
Symmetry == Permutations({h1, h2})

\* No call decides anything by the bytes it moves: states that differ in them only
\* have the same successors but for the bytes, so one of them stands for all.
View == <<entry, fat, node, refs>>
=============================================================================
