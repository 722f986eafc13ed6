----------------------------- MODULE LockedState -----------------------------
(***************************************************************************)
(* A state file behind its lock, as the operations of the governor and of  *)
(* the dedupe store use it: take the lock, read the file, write a changed  *)
(* copy beside it and move the copy into its place, release the lock.      *)
(* Each operation may die at any step, and may fail with the lock held, in *)
(* which case __exit__ releases the lock and nothing is saved.             *)
(***************************************************************************)
EXTENDS StateLock, Sequences

CONSTANTS
    Operations,     \* the calls of operations, each made once
    Nothing

ASSUME NothingAssumption == Nothing \notin Operations \cup Seq(Operations)

VARIABLES
    log,        \* what the file holds, as in AtomicState
    done,       \* the operations that have returned
    begun,      \* the operations that have been called
    op,         \* process -> the operation it is in, or Nothing
    view,       \* process -> what it has read and not yet saved, or Nothing
    saved       \* process -> whether it has saved

vars == <<lockVars, log, done, begun, op, view, saved>>

TypeOK ==
    /\ LockTypeOK
    /\ log \in Seq(Operations)
    /\ done \subseteq Operations
    /\ begun \subseteq Operations
    /\ op \in [Processes -> Operations \cup {Nothing}]
    /\ view \in [Processes -> Seq(Operations) \cup {Nothing}]
    /\ saved \in [Processes -> BOOLEAN]

Init ==
    /\ LockInit
    /\ log = <<>>
    /\ done = {}
    /\ begun = {}
    /\ op = [p \in Processes |-> Nothing]
    /\ view = [p \in Processes |-> Nothing]
    /\ saved = [p \in Processes |-> FALSE]

-----------------------------------------------------------------------------

Call(p, o) ==
    /\ o \notin begun
    /\ Enter(p)
    /\ begun' = begun \cup {o}
    /\ op' = [op EXCEPT ![p] = o]
    /\ UNCHANGED <<log, done, view, saved>>

\* Waiting for the lock, to the end: a call that gives up leaves its operation.
Wait(p) ==
    /\ Waits(p)
    /\ op' = IF pc'[p] = "out" THEN [op EXCEPT ![p] = Nothing] ELSE op
    /\ UNCHANGED <<log, done, begun, view, saved>>

\* Mutant: the file is read before the lock is there.
Load_BeforeLock(p) ==
    /\ pc[p] = "try"
    /\ view[p] = Nothing
    /\ view' = [view EXCEPT ![p] = log]
    /\ UNCHANGED <<lockVars, log, done, begun, op, saved>>
Load(p) ==
    /\ pc[p] = "in"
    /\ view[p] = Nothing
    /\ ~saved[p]
    /\ view' = [view EXCEPT ![p] = log]
    /\ UNCHANGED <<lockVars, log, done, begun, op, saved>>

\* replace() moves the whole copy into place at once.
Save(p) ==
    /\ pc[p] = "in"
    /\ view[p] # Nothing
    /\ log' = Append(view[p], op[p])
    /\ view' = [view EXCEPT ![p] = Nothing]
    /\ saved' = [saved EXCEPT ![p] = TRUE]
    /\ UNCHANGED <<lockVars, done, begun, op>>

\* The with statement is left: after the save, or through an exception.
Leave(p) ==
    /\ Close(p)
    /\ view' = [view EXCEPT ![p] = Nothing]
    /\ UNCHANGED <<log, done, begun, op, saved>>

\* The operation returns if it has saved and raises if it has not.
Finish(p) ==
    /\ Unlink(p)
    /\ done' = IF saved[p] THEN done \cup {op[p]} ELSE done
    /\ op' = [op EXCEPT ![p] = Nothing]
    /\ saved' = [saved EXCEPT ![p] = FALSE]
    /\ UNCHANGED <<log, begun, view>>

Die(p) ==
    /\ Crash(p)
    /\ op' = [op EXCEPT ![p] = Nothing]
    /\ view' = [view EXCEPT ![p] = Nothing]
    /\ saved' = [saved EXCEPT ![p] = FALSE]
    /\ UNCHANGED <<log, done, begun>>

TimePasses == Tick /\ UNCHANGED <<log, done, begun, op, view, saved>>

Next ==
    \/ \E p \in Processes :
          \/ \E o \in Operations : Call(p, o)
          \/ Wait(p) \/ Load(p) \/ Save(p) \/ Leave(p) \/ Finish(p) \/ Die(p)
    \/ TimePasses

Spec == Init /\ [][Next]_vars

\* Processes that are in an operation are scheduled and the clock goes on.
GoesOn(p) == Wait(p) \/ Load(p) \/ Save(p) \/ Leave(p) \/ Finish(p)

FairSpec == Spec /\ (\A p \in Processes : WF_vars(GoesOn(p))) /\ WF_vars(TimePasses)

-----------------------------------------------------------------------------
(* Properties *)

\* The locked operations are atomic and none that returned is lost: what module
\* Governor assumes of its steps (governor.py 191-200, 429-444, 588-614).
AtomicView == INSTANCE AtomicState
ImplementsAtomicState == AtomicView!AtomicSpec

\* What an operation returned from is in the file, for good.
Kept == \A o \in done : \E i \in DOMAIN log : log[i] = o

=============================================================================
