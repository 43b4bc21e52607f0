---------------------------- MODULE MCFileStorage ----------------------------
(***************************************************************************)
(* Small instances of FileStorage: every file is one or two units long.    *)
(***************************************************************************)
EXTENDS FileStorage, TLC

CONSTANTS i1, i2, r1, r2, c1, c2, s1, s2

MCWant == [f \in Files |-> IF f \in Inline THEN 2 ELSE 1]

\* Files of a kind are of one size, so all of these are interchangeable (for
\* invariants only).
Interchangeable == Permutations(Inline) \cup Permutations(Resumable)
                       \cup Permutations(Calls) \cup Permutations(Sweeps)
=============================================================================
