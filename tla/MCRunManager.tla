---------------------------- MODULE MCRunManager ----------------------------
(***************************************************************************)
(* Small instances of RunManager: several runs in one line, and a line     *)
(* per run with one slot for all.                                          *)
(***************************************************************************)
EXTENDS RunManager, TLC

CONSTANTS r1, r2, r3, c1, c2

OneLine == [r \in Run |-> c1]
TwoLines == [r \in Run |-> IF r = r1 THEN c1 ELSE c2]
OwnId == [r \in Run |-> r]
Symmetry == Permutations(Run)
=============================================================================
