------------------------------ MODULE StateLock ------------------------------
(***************************************************************************)
(* The lock file of the governor and of the dedupe store: _StateLock of    *)
(* bridge/wechat/governor.py, which bridge/runtime/dedupe.py repeats line  *)
(* for line.  A process has the lock when it created the file; it gives it *)
(* back by closing and unlinking it.  Whoever finds the file in its way    *)
(* looks at its age and unlinks it when it is stale, by its path: between  *)
(* the look and the unlink the path may come to name another lock.         *)
(*                                                                         *)
(* Every system call is a step.  What unlink does to a file that is open   *)
(* is the difference between the platforms the bridge is tested on: POSIX  *)
(* removes the name, Windows refuses, and the code ignores the refusal.    *)
(***************************************************************************)
EXTENDS Integers

CONSTANTS
    Processes,          \* the threads and processes that share the state
    StaleSeconds,       \* lock_stale_seconds
    TimeoutSeconds,     \* lock_timeout_seconds
    UnlinksOpenFiles,   \* TRUE on POSIX, FALSE on Windows
    Mortal,             \* the processes that may die
    WritesFail,         \* whether writing the pid may fail: the disk is full
    MaxHold,            \* the longest a process keeps the lock
    MaxNow,             \* bound: the clock stops here
    NoLock              \* state.lock does not exist

Lock == [owner : Processes, mtime : Nat, open : BOOLEAN]

ASSUME LockTimingAssumption ==
    /\ StaleSeconds \in Nat
    /\ TimeoutSeconds \in Nat
    /\ MaxHold \in Nat
ASSUME PlatformAssumption ==
    /\ UnlinksOpenFiles \in BOOLEAN
    /\ Mortal \subseteq Processes
    /\ WritesFail \in BOOLEAN
ASSUME NoLockAssumption == NoLock \notin Lock

VARIABLES
    path,       \* what the path of the lock file names
    pc,         \* process -> the step it is at
    deadline,   \* process -> when it gives up waiting
    now         \* the wall clock

lockVars == <<path, pc, deadline, now>>

Steps == {"out", "try", "stat", "unlink", "check", "in", "closed"}

LockTypeOK ==
    /\ path \in Lock \cup {NoLock}
    /\ pc \in [Processes -> Steps]
    /\ deadline \in [Processes -> Nat]
    /\ now \in Nat

LockInit ==
    /\ path = NoLock
    /\ pc = [p \in Processes |-> "out"]
    /\ deadline = [p \in Processes |-> 0]
    /\ now = 1

Owns(p) == path # NoLock /\ path.owner = p

-----------------------------------------------------------------------------
(* __enter__ *)

Goto(p, step) == pc' = [pc EXCEPT ![p] = step]

\* Mutant: the timeout is taken off the deadline of the last wait.
Enter_InThePast(p) ==
    /\ pc[p] = "out"
    /\ now + TimeoutSeconds <= MaxNow
    /\ deadline' = [deadline EXCEPT ![p] = @ - TimeoutSeconds]
    /\ Goto(p, "try")
    /\ UNCHANGED <<path, now>>

Enter(p) ==
    /\ pc[p] = "out"
    /\ now + TimeoutSeconds <= MaxNow       \* bound: the clock sees the deadline
    /\ deadline' = [deadline EXCEPT ![p] = now + TimeoutSeconds]
    /\ Goto(p, "try")
    /\ UNCHANGED <<path, now>>

\* os.open(O_CREAT | O_EXCL).
\* Mutant: the file is closed as soon as the pid is in it.
Create_ClosesAtOnce(p) ==
    /\ pc[p] = "try"
    /\ path = NoLock
    /\ path' = [owner |-> p, mtime |-> now, open |-> FALSE]
    /\ Goto(p, "in")
    /\ UNCHANGED <<deadline, now>>

Create(p) ==
    /\ pc[p] = "try"
    /\ path = NoLock
    /\ path' = [owner |-> p, mtime |-> now, open |-> TRUE]
    /\ Goto(p, "in")
    /\ UNCHANGED <<deadline, now>>

\* os.write raises: nobody has the lock, and the file is there, open until the
\* process ends, for there is nothing to call __exit__.
WriteFails(p) ==
    /\ WritesFail
    /\ pc[p] = "try"
    /\ path = NoLock
    /\ path' = [owner |-> p, mtime |-> now, open |-> TRUE]
    /\ Goto(p, "out")
    /\ UNCHANGED <<deadline, now>>

\* FileExistsError.
\* Mutant: the deadline is set inside the loop, anew for every try.
Contend_RenewsDeadline(p) ==
    /\ pc[p] = "try"
    /\ path # NoLock
    /\ deadline' = [deadline EXCEPT ![p] = now + TimeoutSeconds]
    /\ Goto(p, "stat")
    /\ UNCHANGED <<path, now>>

Contend(p) ==
    /\ pc[p] = "try"
    /\ path # NoLock
    /\ Goto(p, "stat")
    /\ UNCHANGED <<path, deadline, now>>

\* Mutant: no lock is ever stale.
IsStale_Never(t) == t - path.mtime < 0
IsStale(t) == t - path.mtime > StaleSeconds

\* The first half of _remove_stale_lock.  The clock is read before the file is
\* looked at, at some time since the call began.
Stat(p) ==
    /\ pc[p] = "stat"
    /\ \/ path = NoLock /\ Goto(p, "check")
       \/ /\ path # NoLock
          /\ \E t \in deadline[p] - TimeoutSeconds .. now :
                Goto(p, IF IsStale(t) THEN "unlink" ELSE "check")
    /\ UNCHANGED <<path, deadline, now>>

\* What is left of the path when somebody unlinks it.
Unlinked ==
    IF path # NoLock /\ path.open /\ ~UnlinksOpenFiles THEN path ELSE NoLock

RemoveStale(p) ==
    /\ pc[p] = "unlink"
    /\ path' = Unlinked
    /\ Goto(p, "check")
    /\ UNCHANGED <<deadline, now>>

Retry(p) ==
    /\ pc[p] = "check"
    /\ now < deadline[p]
    /\ Goto(p, "try")
    /\ UNCHANGED <<path, deadline, now>>

\* TimeoutError leaves the operation.
GiveUp(p) ==
    /\ pc[p] = "check"
    /\ now >= deadline[p]
    /\ Goto(p, "out")
    /\ UNCHANGED <<path, deadline, now>>

-----------------------------------------------------------------------------
(* __exit__ and the environment *)

Released(p) == IF Owns(p) THEN [path EXCEPT !.open = FALSE] ELSE path

Close(p) ==
    /\ pc[p] = "in"
    /\ path' = Released(p)
    /\ Goto(p, "closed")
    /\ UNCHANGED <<deadline, now>>

Unlink(p) ==
    /\ pc[p] = "closed"
    /\ path' = Unlinked
    /\ Goto(p, "out")
    /\ UNCHANGED <<deadline, now>>

\* The system closes the files of a process that dies and leaves the lock file.
Crash(p) ==
    /\ p \in Mortal
    /\ pc[p] # "out" \/ Owns(p)
    /\ path' = Released(p)
    /\ Goto(p, "out")
    /\ UNCHANGED <<deadline, now>>

\* The lock is not kept longer than MaxHold, the unlink included.
Tick ==
    /\ now < MaxNow
    /\ path # NoLock /\ pc[path.owner] \in {"in", "closed"}
          => now < path.mtime + MaxHold
    /\ now' = now + 1
    /\ UNCHANGED <<path, pc, deadline>>

Waits(p) ==
    \/ Create(p) \/ WriteFails(p)
    \/ Contend(p) \/ Stat(p) \/ RemoveStale(p) \/ Retry(p) \/ GiveUp(p)

LockStep(p) == Enter(p) \/ Waits(p) \/ Close(p) \/ Unlink(p) \/ Crash(p)

LockNext == (\E p \in Processes : LockStep(p)) \/ Tick

LockSpec == LockInit /\ [][LockNext]_lockVars

-----------------------------------------------------------------------------
(* Properties *)

\* When the lock can be relied on.  Windows keeps the file of a live holder in
\* its place; on POSIX nobody may die, or leave it there without having it, and
\* nobody keep it until it is stale.
LockIsSafe ==
    UnlinksOpenFiles => Mortal = {} /\ ~WritesFail /\ MaxHold <= StaleSeconds

\* No two processes have the lock (588-614): not when one of them removes a
\* stale lock, nor when the unlink of a process that was long away comes late.
MutualExclusion ==
    \A p, q \in Processes : pc[p] = "in" /\ pc[q] = "in" => p = q

\* The lock of a process that died does not lock the others out: a call that
\* meets one which was stale when the call began removes it before it can give
\* up (597-600), and the look and the unlink in two steps do not spoil that.
Orphan ==
    \E lock \in {path} \ {NoLock} : ~lock.open /\ pc[lock.owner] # "closed"

MadeAt(m) == \E lock \in {path} \ {NoLock} : lock.mtime = m

MeetsStaleLock(p, m) ==
    /\ pc[p] = "try"
    /\ Orphan
    /\ MadeAt(m)
    /\ m + StaleSeconds < deadline[p] - TimeoutSeconds

StaleLockGoes ==
    \A p \in Processes \ Mortal, m \in 1 .. MaxNow :
        MeetsStaleLock(p, m) ~> ~MadeAt(m)

\* Every caller comes to have the lock, gives up, or dies: none waits for ever,
\* whatever the others do with the lock meanwhile.
WaitEnds ==
    \A p \in Processes :
        pc[p] \in {"try", "stat", "unlink", "check"} ~> pc[p] \in {"in", "out"}

=============================================================================
