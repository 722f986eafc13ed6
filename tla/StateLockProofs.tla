--------------------------- MODULE StateLockProofs ---------------------------
(***************************************************************************)
(* Proofs about StateLock and about the state file behind it, for any      *)
(* number of processes and operations and any timing.                      *)
(***************************************************************************)
EXTENDS LockedState, TLAPS

\* On Windows the holder's file stays where it is because it is open.
HolderHasItOpen == \A p \in Processes : pc[p] = "in" => Owns(p) /\ path.open

\* On POSIX nobody finds a lock stale: one that is there belongs to a process
\* that has kept it for no longer than MaxHold, and nobody is about to unlink
\* another's.
NobodyIsLate ==
    /\ \A p \in Processes : pc[p] # "unlink"
    /\ \A p \in Processes : pc[p] \in {"in", "closed"} => Owns(p)
    /\ path # NoLock => /\ pc[path.owner] \in {"in", "closed"}
                        /\ now <= path.mtime + MaxHold

LockInv ==
    /\ LockTypeOK
    /\ ~UnlinksOpenFiles => HolderHasItOpen
    /\ UnlinksOpenFiles => NobodyIsLate

-----------------------------------------------------------------------------
(* The lock *)

LEMMA ReleasedType ==
    ASSUME LockTypeOK, NEW p \in Processes
    PROVE  Released(p) \in Lock \cup {NoLock}
BY DEF LockTypeOK, Released, Owns, Lock

LEMMA UnlinkedType ==
    ASSUME LockTypeOK
    PROVE  Unlinked \in Lock \cup {NoLock}
BY DEF LockTypeOK, Unlinked

LEMMA CreateNames ==
    ASSUME LockTypeOK, NEW p \in Processes, Create(p) \/ WriteFails(p)
    PROVE  /\ path' # NoLock
           /\ path'.owner = p
           /\ path'.open
           /\ path'.mtime = now
<1>1. path' = [owner |-> p, mtime |-> now, open |-> TRUE]
  BY DEF Create, WriteFails
<1>2. path' \in Lock
  BY <1>1 DEF LockTypeOK, Lock
<1>3. path' # NoLock
  BY <1>2, NoLockAssumption
<1> QED
  BY <1>1, <1>3

\* Every step keeps the types.
LEMMA LockTypeStep ==
    ASSUME LockTypeOK, [LockNext]_lockVars
    PROVE  LockTypeOK'
<1> USE LockTimingAssumption
<1>1. CASE UNCHANGED lockVars
  BY <1>1 DEF LockTypeOK, lockVars
<1>2. ASSUME NEW p \in Processes, Enter(p)
      PROVE  LockTypeOK'
  BY <1>2 DEF Enter, Goto, LockTypeOK, Steps
<1>3. ASSUME NEW p \in Processes, Create(p) \/ WriteFails(p)
      PROVE  LockTypeOK'
  <2>1. /\ path' = [owner |-> p, mtime |-> now, open |-> TRUE]
        /\ \E step \in {"in", "out"} : pc' = [pc EXCEPT ![p] = step]
        /\ UNCHANGED <<deadline, now>>
    BY <1>3 DEF Create, WriteFails, Goto
  <2>2. path' \in Lock
    BY <2>1 DEF LockTypeOK, Lock
  <2> QED
    BY <2>1, <2>2 DEF LockTypeOK, Steps
<1>4. ASSUME NEW p \in Processes, Contend(p) \/ Stat(p) \/ Retry(p) \/ GiveUp(p)
      PROVE  LockTypeOK'
  BY <1>4 DEF Contend, Stat, Retry, GiveUp, Goto, LockTypeOK, Steps
<1>5. ASSUME NEW p \in Processes, RemoveStale(p) \/ Unlink(p)
      PROVE  LockTypeOK'
  BY <1>5, UnlinkedType DEF RemoveStale, Unlink, Goto, LockTypeOK, Steps
<1>6. ASSUME NEW p \in Processes, Close(p) \/ Crash(p)
      PROVE  LockTypeOK'
  BY <1>6, ReleasedType DEF Close, Crash, Goto, LockTypeOK, Steps
<1>7. CASE Tick
  BY <1>7 DEF Tick, LockTypeOK
<1> QED
  BY <1>1, <1>2, <1>3, <1>4, <1>5, <1>6, <1>7 DEF LockNext, LockStep, Waits

\* Windows: no step takes the open file of a holder away.
LEMMA WindowsStep ==
    ASSUME LockTypeOK, ~UnlinksOpenFiles, HolderHasItOpen, [LockNext]_lockVars
    PROVE  HolderHasItOpen'
<1> USE DEF HolderHasItOpen, Owns
<1>1. CASE UNCHANGED lockVars
  BY <1>1 DEF lockVars
<1>2. ASSUME NEW p \in Processes,
             Enter(p) \/ Contend(p) \/ Stat(p) \/ Retry(p) \/ GiveUp(p)
      PROVE  HolderHasItOpen'
  BY <1>2 DEF Enter, Contend, Stat, Retry, GiveUp, Goto, LockTypeOK
<1>3. ASSUME NEW p \in Processes, Create(p) \/ WriteFails(p)
      PROVE  HolderHasItOpen'
  <2>1. path' # NoLock /\ path'.owner = p /\ path'.open
    BY <1>3, CreateNames
  <2> QED
    BY <1>3, <2>1 DEF Create, WriteFails, Goto, LockTypeOK
<1>4. ASSUME NEW p \in Processes, RemoveStale(p) \/ Unlink(p)
      PROVE  HolderHasItOpen'
  BY <1>4 DEF RemoveStale, Unlink, Unlinked, Goto, LockTypeOK
<1>5. ASSUME NEW p \in Processes, Close(p) \/ Crash(p)
      PROVE  HolderHasItOpen'
  BY <1>5 DEF Close, Crash, Released, Goto, LockTypeOK
<1>6. CASE Tick
  BY <1>6 DEF Tick
<1> QED
  BY <1>1, <1>2, <1>3, <1>4, <1>5, <1>6 DEF LockNext, LockStep, Waits

\* POSIX: while nobody dies or is late, no lock is ever found stale.
LEMMA PosixStep ==
    ASSUME LockTypeOK, UnlinksOpenFiles, LockIsSafe, NobodyIsLate,
           [LockNext]_lockVars
    PROVE  NobodyIsLate'
<1> USE LockTimingAssumption, NoLockAssumption DEF NobodyIsLate, Owns
<1>1. CASE UNCHANGED lockVars
  BY <1>1 DEF lockVars
<1>2. ASSUME NEW p \in Processes,
             Enter(p) \/ Contend(p) \/ Retry(p) \/ GiveUp(p)
      PROVE  NobodyIsLate'
  BY <1>2 DEF Enter, Contend, Retry, GiveUp, Goto, LockTypeOK, Lock
<1>3. ASSUME NEW p \in Processes, Create(p)
      PROVE  NobodyIsLate'
  <2>1. path' # NoLock /\ path'.owner = p /\ path'.mtime = now
    BY <1>3, CreateNames
  <2> QED
    BY <1>3, <2>1 DEF Create, Goto, LockTypeOK
<1>4. ASSUME NEW p \in Processes, Stat(p)
      PROVE  NobodyIsLate'
  <2>1. pc' = [pc EXCEPT ![p] = "check"]
    <3>1. CASE path = NoLock
      BY <1>4, <3>1 DEF Stat, Goto
    <3>2. ASSUME path # NoLock,
                 NEW t \in deadline[p] - TimeoutSeconds .. now
          PROVE  ~IsStale(t)
      BY <3>2 DEF IsStale, LockIsSafe, LockTypeOK, Lock
    <3> QED
      BY <1>4, <3>1, <3>2 DEF Stat, Goto
  <2> QED
    BY <1>4, <2>1 DEF Stat, LockTypeOK, Lock
<1>5. ASSUME NEW p \in Processes, RemoveStale(p)
      PROVE  NobodyIsLate'
  BY <1>5 DEF RemoveStale
<1>6. ASSUME NEW p \in Processes, Close(p)
      PROVE  NobodyIsLate'
  BY <1>6 DEF Close, Released, Goto, LockTypeOK, Lock
<1>7. ASSUME NEW p \in Processes, Unlink(p)
      PROVE  NobodyIsLate'
  BY <1>7 DEF Unlink, Unlinked, Goto, LockTypeOK, Lock
<1>8. ASSUME NEW p \in Processes, Crash(p)
      PROVE  NobodyIsLate'
  BY <1>8 DEF Crash, LockIsSafe
<1>9. ASSUME NEW p \in Processes, WriteFails(p)
      PROVE  NobodyIsLate'
  BY <1>9 DEF WriteFails, LockIsSafe
<1>10. CASE Tick
  BY <1>10 DEF Tick, LockTypeOK, Lock
<1> QED
  BY <1>1, <1>2, <1>3, <1>4, <1>5, <1>6, <1>7, <1>8, <1>9, <1>10
  DEF LockNext, LockStep, Waits

LEMMA LockInvInit == LockInit => LockInv
BY DEF LockInit, LockInv, LockTypeOK, Steps, HolderHasItOpen, NobodyIsLate

LEMMA LockInvStep ==
    ASSUME LockIsSafe, LockInv, [LockNext]_lockVars
    PROVE  LockInv'
BY LockTypeStep, WindowsStep, PosixStep DEF LockInv

LEMMA LockInvExcludes == LockInv => MutualExclusion
BY DEF LockInv, MutualExclusion, HolderHasItOpen, NobodyIsLate, Owns

\* The lock file keeps its shape on every platform, crashes and all.
THEOREM LockTypeCorrect == LockSpec => []LockTypeOK
<1>1. LockInit => LockTypeOK
  BY DEF LockInit, LockTypeOK, Steps
<1>2. LockTypeOK /\ [LockNext]_lockVars => LockTypeOK'
  BY LockTypeStep
<1> QED
  BY <1>1, <1>2, PTL DEF LockSpec

\* Two processes never have the lock: on Windows whatever dies, fails and however
\* long the lock is kept, on POSIX while nobody dies, fails to write the pid, or
\* keeps the lock until it is stale.
THEOREM ExclusionCorrect == LockIsSafe => (LockSpec => []MutualExclusion)
<1> SUFFICES ASSUME LockIsSafe
             PROVE  LockSpec => []MutualExclusion
  OBVIOUS
<1>1. LockInv /\ [LockNext]_lockVars => LockInv'
  BY LockInvStep
<1> QED
  BY <1>1, LockInvInit, LockInvExcludes, PTL DEF LockSpec

-----------------------------------------------------------------------------
(* The state file behind the lock *)

InLog(o) == \E i \in DOMAIN log : log[i] = o

\* What is read stays the file's content until it is saved, and what was saved
\* is in the file when its operation returns.
FileInv ==
    /\ LockInv
    /\ log \in Seq(Operations)
    /\ op \in [Processes -> Operations \cup {Nothing}]
    /\ view \in [Processes -> Seq(Operations) \cup {Nothing}]
    /\ saved \in [Processes -> BOOLEAN]
    /\ \A p \in Processes :
          /\ pc[p] # "out" => op[p] \in Operations
          /\ view[p] # Nothing => pc[p] = "in" /\ view[p] = log
          /\ saved[p] => pc[p] \in {"in", "closed"} /\ InLog(op[p])

\* Every step of LockedState is one of the lock's, or leaves the lock alone.
LEMMA StepsTheLock == [Next]_vars => [LockNext]_lockVars
BY DEF Next, vars, Call, Wait, Load, Save, Leave, Finish, Die, TimePasses,
       LockNext, LockStep, lockVars

LEMMA AppendKeeps ==
    ASSUME NEW s \in Seq(Operations), NEW o \in Operations
    PROVE  /\ Append(s, o) \in Seq(Operations)
           /\ \E i \in DOMAIN Append(s, o) : Append(s, o)[i] = o
           /\ \A i \in DOMAIN s : /\ i \in DOMAIN Append(s, o)
                                  /\ Append(s, o)[i] = s[i]
<1>1. Append(s, o) \in Seq(Operations) /\ Len(s) \in Nat
  OBVIOUS
<1>2. DOMAIN Append(s, o) = 1 .. Len(s) + 1 /\ DOMAIN s = 1 .. Len(s)
  OBVIOUS
<1>3. Append(s, o)[Len(s) + 1] = o
  OBVIOUS
<1>4. \A i \in 1 .. Len(s) : Append(s, o)[i] = s[i]
  OBVIOUS
<1> QED
  BY <1>1, <1>2, <1>3, <1>4

LEMMA FileInvInit == Init => FileInv
<1> SUFFICES ASSUME Init
             PROVE  FileInv
  OBVIOUS
<1>1. LockInv /\ pc = [p \in Processes |-> "out"]
  BY LockInvInit DEF Init, LockInit
<1>2. log \in Seq(Operations)
  BY DEF Init
<1> QED
  BY <1>1, <1>2 DEF Init, FileInv

\* A save writes what was read a moment ago with the operation added to it.
LEMMA SaveAppends ==
    ASSUME FileInv, NEW p \in Processes, Save(p)
    PROVE  /\ op[p] \in Operations
           /\ log' = Append(log, op[p])
           /\ log' \in Seq(Operations)
           /\ InLog(op[p])'
           /\ \A o \in Operations : InLog(o) => InLog(o)'
<1>1. op[p] \in Operations /\ log' = Append(log, op[p]) /\ log \in Seq(Operations)
      /\ op' = op
  BY DEF FileInv, Save
<1>2. \E i \in DOMAIN log' : log'[i] = op[p]
  BY <1>1, AppendKeeps
<1>3. \A i \in DOMAIN log : i \in DOMAIN log' /\ log'[i] = log[i]
  BY <1>1, AppendKeeps
<1>4. log' \in Seq(Operations)
  BY <1>1, AppendKeeps
<1> QED
  BY <1>1, <1>2, <1>3, <1>4 DEF InLog

LEMMA FileInvStep ==
    ASSUME LockIsSafe, FileInv, [Next]_vars
    PROVE  FileInv'
<1>1. LockInv' /\ MutualExclusion
  BY StepsTheLock, LockInvStep, LockInvExcludes DEF FileInv
<1>2. pc \in [Processes -> Steps] /\ pc' \in [Processes -> Steps]
  BY <1>1 DEF FileInv, LockInv, LockTypeOK
<1> USE <1>1, <1>2 DEF FileInv, InLog
<1>3. CASE UNCHANGED vars
  BY <1>3 DEF vars, lockVars
<1>4. ASSUME NEW p \in Processes, NEW o \in Operations, Call(p, o)
      PROVE  FileInv'
  <2>1. /\ pc[p] = "out" /\ pc' = [pc EXCEPT ![p] = "try"]
        /\ op' = [op EXCEPT ![p] = o]
        /\ UNCHANGED <<log, view, saved>>
    BY <1>4 DEF Call, Enter, Goto
  <2>2. ~saved[p]
    BY <2>1
  <2> QED
    BY <2>1, <2>2
<1>5. ASSUME NEW p \in Processes, Wait(p)
      PROVE  FileInv'
  <2>1. pc[p] \in {"try", "stat", "unlink", "check"}
    BY <1>5 DEF Wait, Waits, Create, WriteFails, Contend, Stat, RemoveStale,
                Retry, GiveUp
  <2>2. \A q \in Processes : q # p => pc'[q] = pc[q]
    BY <1>5 DEF Wait, Waits, Create, WriteFails, Contend, Stat, RemoveStale,
                Retry, GiveUp, Goto
  <2> QED
    BY <1>5, <2>1, <2>2, NothingAssumption DEF Wait
<1>6. ASSUME NEW p \in Processes, Load(p)
      PROVE  FileInv'
  BY <1>6 DEF Load, lockVars
<1>7. ASSUME NEW p \in Processes, Save(p)
      PROVE  FileInv'
  <2>1. \A q \in Processes : q # p => view[q] = Nothing
    BY <1>7 DEF Save, MutualExclusion
  <2>2. UNCHANGED <<pc, op>> /\ view' = [view EXCEPT ![p] = Nothing]
        /\ saved' = [saved EXCEPT ![p] = TRUE]
    BY <1>7 DEF Save, lockVars
  <2>3. log' \in Seq(Operations) /\ InLog(op[p])'
        /\ \A o \in Operations : InLog(o) => InLog(o)'
    BY <1>7, SaveAppends
  <2>4. pc[p] = "in"
    BY <1>7 DEF Save
  <2>5. /\ view' \in [Processes -> Seq(Operations) \cup {Nothing}]
        /\ \A q \in Processes : view'[q] = Nothing
    BY <2>1, <2>2
  <2>6. \A q \in Processes : saved'[q] => pc[q] \in {"in", "closed"} /\ InLog(op[q])'
    <3> SUFFICES ASSUME NEW q \in Processes, saved'[q]
                 PROVE  pc[q] \in {"in", "closed"} /\ InLog(op[q])'
      OBVIOUS
    <3>1. CASE q = p
      BY <2>3, <2>4, <3>1
    <3>2. CASE q # p
      <4>1. saved[q] /\ op[q] \in Operations
        BY <2>2, <3>2
      <4> QED
        BY <2>2, <2>3, <4>1
    <3> QED
      BY <3>1, <3>2
  <2>7. saved' \in [Processes -> BOOLEAN] /\ op' = op /\ pc' = pc
    BY <2>2
  <2> QED
    BY <2>3, <2>5, <2>6, <2>7
<1>8. ASSUME NEW p \in Processes, Leave(p)
      PROVE  FileInv'
  BY <1>8 DEF Leave, Close, Goto
<1>9. ASSUME NEW p \in Processes, Finish(p)
      PROVE  FileInv'
  BY <1>9 DEF Finish, Unlink, Goto
<1>10. ASSUME NEW p \in Processes, Die(p)
       PROVE  FileInv'
  BY <1>10 DEF Die, Crash, Goto
<1>11. CASE TimePasses
  BY <1>11 DEF TimePasses, Tick
<1> QED
  BY <1>3, <1>4, <1>5, <1>6, <1>7, <1>8, <1>9, <1>10, <1>11 DEF Next

\* A save is the operation, a return is a return, and the rest is nobody's
\* business.
LEMMA StepImplements ==
    ASSUME FileInv, [Next]_vars
    PROVE  [AtomicView!AtomicNext]_(AtomicView!atomicVars)
<1> USE DEF AtomicView!AtomicNext, AtomicView!atomicVars
<1>1. ASSUME NEW p \in Processes, Save(p)
      PROVE  AtomicView!AtomicNext
  <2>1. op[p] \in Operations /\ log' = Append(log, op[p])
    BY <1>1, SaveAppends
  <2> QED
    BY <1>1, <2>1 DEF Save, AtomicView!Apply
<1>2. ASSUME NEW p \in Processes, Finish(p), saved[p]
      PROVE  AtomicView!AtomicNext
  <2>1. op[p] \in Operations /\ InLog(op[p])
    BY <1>2 DEF FileInv, Finish, Unlink
  <2> QED
    BY <1>2, <2>1 DEF Finish, AtomicView!Return, InLog
<1>3. ASSUME NEW p \in Processes, Finish(p), ~saved[p]
      PROVE  UNCHANGED <<log, done>>
  BY <1>3 DEF Finish
<1>4. ASSUME ~ \E p \in Processes : Save(p) \/ Finish(p)
      PROVE  UNCHANGED <<log, done>>
  BY <1>4 DEF Next, vars, Call, Wait, Load, Leave, Die, TimePasses
<1> QED
  BY <1>1, <1>2, <1>3, <1>4

\* Wherever the lock can be relied on, the operations on a state file are
\* atomic and none that has returned is lost.
THEOREM LockedIsAtomic == LockIsSafe => (Spec => ImplementsAtomicState)
<1> SUFFICES ASSUME LockIsSafe
             PROVE  Spec => ImplementsAtomicState
  OBVIOUS
<1>1. FileInv /\ [Next]_vars => FileInv'
  BY FileInvStep
<1>2. FileInv /\ [Next]_vars => [AtomicView!AtomicNext]_(AtomicView!atomicVars)
  BY StepImplements
<1>3. Init => AtomicView!AtomicInit
  BY DEF Init, AtomicView!AtomicInit
<1> QED
  BY <1>1, <1>2, <1>3, FileInvInit, PTL
  DEF Spec, ImplementsAtomicState, AtomicView!AtomicSpec

-----------------------------------------------------------------------------
(* Types *)

\* Who is past the door is there for an operation.
TypeInv ==
    /\ TypeOK
    /\ \A p \in Processes : pc[p] # "out" => op[p] \in Operations

LEMMA TypeInvStep ==
    ASSUME TypeInv, [Next]_vars
    PROVE  TypeInv'
<1>1. LockTypeOK'
  BY StepsTheLock, LockTypeStep DEF TypeInv, TypeOK
<1>2. pc \in [Processes -> Steps] /\ pc' \in [Processes -> Steps]
  BY <1>1 DEF TypeInv, TypeOK, LockTypeOK
<1> USE <1>1, <1>2 DEF TypeInv, TypeOK
<1>3. CASE UNCHANGED vars
  BY <1>3 DEF vars, lockVars
<1>4. ASSUME NEW p \in Processes, NEW o \in Operations, Call(p, o)
      PROVE  TypeInv'
  BY <1>4 DEF Call, Enter, Goto
<1>5. ASSUME NEW p \in Processes, Wait(p)
      PROVE  TypeInv'
  <2>1. pc[p] # "out"
    BY <1>5 DEF Wait, Waits, Create, WriteFails, Contend, Stat, RemoveStale,
                Retry, GiveUp
  <2>2. \A q \in Processes : q # p => pc'[q] = pc[q]
    BY <1>5 DEF Wait, Waits, Create, WriteFails, Contend, Stat, RemoveStale,
                Retry, GiveUp, Goto
  <2> QED
    BY <1>5, <2>1, <2>2 DEF Wait
<1>6. ASSUME NEW p \in Processes, Load(p)
      PROVE  TypeInv'
  BY <1>6 DEF Load, lockVars
<1>7. ASSUME NEW p \in Processes, Save(p)
      PROVE  TypeInv'
  <2>1. op[p] \in Operations /\ view[p] \in Seq(Operations) /\ UNCHANGED <<pc, op>>
    BY <1>7 DEF Save, lockVars
  <2>2. log' \in Seq(Operations)
    BY <1>7, <2>1, AppendKeeps DEF Save
  <2> QED
    BY <1>7, <2>1, <2>2 DEF Save
<1>8. ASSUME NEW p \in Processes, Leave(p)
      PROVE  TypeInv'
  BY <1>8 DEF Leave, Close, Goto
<1>9. ASSUME NEW p \in Processes, Finish(p)
      PROVE  TypeInv'
  BY <1>9 DEF Finish, Unlink, Goto
<1>10. ASSUME NEW p \in Processes, Die(p)
       PROVE  TypeInv'
  BY <1>10 DEF Die, Crash, Goto
<1>11. CASE TimePasses
  BY <1>11 DEF TimePasses, Tick
<1> QED
  BY <1>3, <1>4, <1>5, <1>6, <1>7, <1>8, <1>9, <1>10, <1>11 DEF Next

\* The lock, the file and what each process has read keep their types, also
\* where the lock cannot be relied on: whoever saves is in an operation, which is
\* what it adds to the copy it has read (governor.py 191-200, 429-444).
THEOREM TypeCorrect == Spec => []TypeOK
<1>1. Init => TypeInv
  <2> SUFFICES ASSUME Init
               PROVE  TypeInv
    OBVIOUS
  <2>1. LockTypeOK /\ pc = [p \in Processes |-> "out"]
    BY DEF Init, LockInit, LockTypeOK, Steps
  <2>2. log \in Seq(Operations)
    BY DEF Init
  <2> QED
    BY <2>1, <2>2 DEF Init, TypeInv, TypeOK
<1>2. TypeInv /\ [Next]_vars => TypeInv'
  BY TypeInvStep
<1>3. TypeInv => TypeOK
  BY DEF TypeInv
<1> QED
  BY <1>1, <1>2, <1>3, PTL DEF Spec

=============================================================================
