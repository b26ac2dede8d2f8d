---------------------------- MODULE MCCoaExchange ----------------------------
(* CoaExchange for TLC: a session on address a, and a network w around it.  *)
EXTENDS CoaExchange

CONSTANTS a, w

MCHostOf == [s \in Session |-> a]
MCNetsOf == [n \in Name |-> IF n = a THEN {w} ELSE {}]
MCPrefix == [n \in Name |-> IF n = w THEN 16 ELSE 32]
=============================================================================
