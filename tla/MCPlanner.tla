------------------------------ MODULE MCPlanner -----------------------------
(* Small registries for Planner. *)
EXTENDS Planner

CONSTANTS w, r, x, y, e, f

\* A delta writer of a store that also emits, and a system that plans fully
\* and reads both stores: conflicts, stale runs and follow-up work.
MCReads == [s \in Systems |-> IF s = w THEN {x} ELSE {x, y}]
MCMutates == [s \in Systems |-> IF s = w THEN {x} ELSE {}]
MCEmits == [s \in Systems |-> IF s = w THEN {y} ELSE {}]

\* A system and its consumer.
ChainReads == [s \in Systems |-> IF s = w THEN {x} ELSE {y}]
ChainMutates == [s \in Systems |-> {}]
=============================================================================
