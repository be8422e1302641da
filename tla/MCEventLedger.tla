---------------------------- MODULE MCEventLedger ---------------------------
(***************************************************************************)
(* Small instances of EventLedger: two processes on one table, and one     *)
(* process with consumers.                                                 *)
(***************************************************************************)
EXTENDS EventLedger

CONSTANTS k1, k2, k3, p1, p2, l1, l2

\* Calls are numbers.  1 and 2 carry the same callback.
Duplicated == [c \in Call |-> CASE c \in {1, 2} -> k1 [] c = 3 -> k2 [] OTHER -> k3]
Distinct == [c \in Call |-> CASE c = 1 -> k1 [] c = 2 -> k2 [] OTHER -> k3]
OneProfile == [k \in Key |-> p1]
LastApart == [k \in Key |-> IF k = k3 THEN p2 ELSE p1]
OneLedger == [c \in Call |-> l1]
TwoLedgers == [c \in Call |-> IF c % 2 = 0 THEN l2 ELSE l1]
WatchesProfile == [w \in Watcher |-> p1]
WatchesLedger == [w \in Watcher |-> l1]
=============================================================================
