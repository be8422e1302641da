------------------------------ MODULE MCInbound ------------------------------
(***************************************************************************)
(* Small instances of Inbound: callbacks 1 and 2 carry the same event, or  *)
(* all three differ; their conversation has one queue, which overflows.    *)
(***************************************************************************)
EXTENDS Inbound

CONSTANTS k1, k2, k3, v1

Duplicated == [c \in Call |-> CASE c \in {1, 2} -> k1 [] OTHER -> k2]
Distinct == [c \in Call |-> CASE c = 1 -> k1 [] c = 2 -> k2 [] OTHER -> k3]

OneConv == [e \in Event |-> v1]

SecondText == [e \in Event |-> IF e = k2 THEN "text" ELSE "workspace"]
ThirdOther == [e \in Event |-> IF e = k3 THEN "other" ELSE "workspace"]
=============================================================================
