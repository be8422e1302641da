-------------------------- MODULE MCDaemonLifecycle --------------------------
(***************************************************************************)
(* Small instances of DaemonLifecycle: two commands at once, with a daemon *)
(* of an earlier command beside them.                                      *)
(***************************************************************************)
EXTENDS DaemonLifecycle

CONSTANTS c1, c2

Pair(k1, k2) == [c \in Cli |-> IF c = c1 THEN k1 ELSE k2]

Pairs == {Pair("start", "start"), Pair("setup", "stop"), Pair("restart", "call")}
SetupAndStart == {Pair("setup", "start")}
=============================================================================
