----------------------------- MODULE AtomicState -----------------------------
(***************************************************************************)
(* What the governor and the dedupe store take their state file for: the   *)
(* operations on it happen one after another, each in one step on what the *)
(* operations before it left.  The file is its log: the operations whose   *)
(* effects it holds, in their order, which fix its content whatever the    *)
(* operations are.                                                         *)
(***************************************************************************)
EXTENDS Sequences

CONSTANT Operations

VARIABLES
    log,        \* the operations whose effects the file holds
    done        \* the operations that have returned

atomicVars == <<log, done>>

AtomicInit == log = <<>> /\ done = {}

Apply(op) == log' = Append(log, op) /\ UNCHANGED done

Return(op) ==
    /\ \E i \in DOMAIN log : log[i] = op
    /\ done' = done \cup {op}
    /\ UNCHANGED log

AtomicNext == \E op \in Operations : Apply(op) \/ Return(op)

AtomicSpec == AtomicInit /\ [][AtomicNext]_atomicVars

=============================================================================
