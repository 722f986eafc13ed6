---------------------------- MODULE GovernorProofs ----------------------------
(***************************************************************************)
(* What Governor guarantees for every configuration: the types, the shape  *)
(* of the circuit, who owns the probe mark, who owns each delivery, how    *)
(* far the budget and the queue may grow, what a step may never do, and    *)
(* how many attempts any stretch of time may be granted.                   *)
(***************************************************************************)
EXTENDS GovernorBudget, GovernorStateProofs

USE DEF GovernorFile, Statuses

-----------------------------------------------------------------------------
(* The inductive invariant.  CircuitShape needs the whole of Coherent (a      *)
(* HALF_OPEN that closes must find its queue counted right), and the mark     *)
(* needs a pending probe: a result of any attempt clears the mark, so the     *)
(* last pending probe never leaves one behind.                                *)

IInv ==
    /\ TypeOK
    /\ HasFile => Coherent(file, now)
    /\ ~Faults /\ Probing(file) => probes > 0

LEMMA ReadingsPast ==
    ASSUME now \in Nat, NEW t \in Readings
    PROVE  t \in Nat /\ t <= now
BY EnvironmentAssumption DEF Readings, Larger

LEMMA InitInv == Init => IInv
BY DEF Init, IInv, TypeOK, HasFile, Probing

\* What every step keeps, and what a step that counts an attempt finds.
Quiet == Enabled /\ ordinary' + probes' > ordinary + probes
            => file'.open_until = None \/ file'.open_until <= now

LEMMA NoMoreInAll ==
    ASSUME NEW x \in Nat, NEW y \in Nat, NEW a \in Nat, NEW b \in Nat, a <= x, b <= y
    PROVE  ~(a + b > x + y)
OBVIOUS

LEMMA AdmitStep ==
    ASSUME IInv, NEW m \in Messages, NEW u \in Targets, NEW p \in Priorities,
           AdmitOrQueue(m, u, p)
    PROVE  IInv' /\ Quiet
<1>0. PICK t \in Readings :
      \E o \in AdmitOutcomes(file, BuildDelivery(ids + 1, m, u, p, t), t) :
         /\ file' = o.state
         /\ ids' = ids + 1
         /\ IF o.allowed THEN CountAttempt(o.status = "HALF_OPEN")
            ELSE UNCHANGED <<ordinary, probes>>
  BY DEF AdmitOrQueue
<1>1. PICK o \in AdmitOutcomes(file, BuildDelivery(ids + 1, m, u, p, t), t) :
         /\ file' = o.state
         /\ ids' = ids + 1
         /\ IF o.allowed THEN CountAttempt(o.status = "HALF_OPEN")
            ELSE UNCHANGED <<ordinary, probes>>
  BY <1>0
<1>2. t \in Nat /\ t <= now /\ now \in Nat /\ ids + 1 \in Nat
  BY ReadingsPast DEF IInv, TypeOK
<1>3. BuildDelivery(ids + 1, m, u, p, t) \in Delivery
  BY <1>2, BuildType
<1>4. /\ o.state \in GovernorFile \cup {NoFile}
      /\ o.state # NoFile => Coherent(o.state, now)
      /\ Probing(file) => Probing(o.state)
      /\ Probing(o.state) => Probing(file) \/ (o.allowed /\ o.status = "HALF_OPEN")
      /\ Enabled /\ o.allowed =>
            /\ o.state.open_until = None \/ o.state.open_until <= now
            /\ ~Probing(file)
  BY <1>2, <1>3, AdmitCoherent DEF IInv, TypeOK, HasFile
<1>5. UNCHANGED <<now, held>> /\ ordinary \in Nat /\ probes \in Nat
  BY DEF AdmitOrQueue, IInv, TypeOK
<1>6. /\ ordinary' \in Nat /\ probes' \in Nat /\ probes' >= probes
      /\ ~o.allowed => UNCHANGED <<ordinary, probes>>
      /\ o.allowed /\ o.status = "HALF_OPEN" => probes' = probes + 1
  BY <1>1, <1>5 DEF CountAttempt
<1>7. IInv'
  BY <1>1, <1>2, <1>4, <1>5, <1>6 DEF IInv, TypeOK, HasFile
<1>8. Quiet
  BY <1>1, <1>4, <1>5, <1>6 DEF Quiet
<1>9. QED BY <1>7, <1>8

LEMMA QueueStep ==
    ASSUME IInv, NEW m \in Messages, NEW u \in Targets, NEW p \in Priorities,
           QueueDelivery(m, u, p)
    PROVE  IInv' /\ Quiet
<1>0. PICK t \in Readings :
      \E o \in QueueOutcomes(file, BuildDelivery(ids + 1, m, u, p, t), t) :
         file' = o.state
  BY DEF QueueDelivery
<1>1. PICK o \in QueueOutcomes(file, BuildDelivery(ids + 1, m, u, p, t), t) :
         file' = o.state
  BY <1>0
<1>2. t \in Nat /\ t <= now /\ now \in Nat /\ ids + 1 \in Nat
  BY ReadingsPast DEF IInv, TypeOK
<1>3. BuildDelivery(ids + 1, m, u, p, t) \in Delivery
  BY <1>2, BuildType
<1>4. o.state \in GovernorFile /\ Coherent(o.state, now) /\ (Probing(o.state) <=> Probing(file))
  BY <1>2, <1>3, QueueCoherent DEF IInv, TypeOK, HasFile
<1>5. /\ UNCHANGED <<now, ordinary, probes>> /\ ids' = ids + 1 /\ held' \subseteq held
      /\ ordinary \in Nat /\ probes \in Nat
  BY DEF QueueDelivery, IInv, TypeOK
<1>6. IInv'
  BY <1>1, <1>2, <1>4, <1>5 DEF IInv, TypeOK, HasFile
<1>7. Quiet
  BY <1>5 DEF Quiet
<1>8. QED BY <1>6, <1>7

LEMMA ReserveStep ==
    ASSUME IInv, NEW u \in Targets, ReserveNextQueued(u)
    PROVE  IInv' /\ Quiet
<1>0. PICK t \in Readings : \E o \in ReserveOutcomes(file, u, t) :
         /\ file' = o.state
         /\ held' = held \cup o.reserved
         /\ IF o.reserved # {} THEN CountAttempt(o.state.status = "HALF_OPEN")
            ELSE UNCHANGED <<ordinary, probes>>
  BY DEF ReserveNextQueued
<1>1. PICK o \in ReserveOutcomes(file, u, t) :
         /\ file' = o.state
         /\ held' = held \cup o.reserved
         /\ IF o.reserved # {} THEN CountAttempt(o.state.status = "HALF_OPEN")
            ELSE UNCHANGED <<ordinary, probes>>
  BY <1>0
<1>2. t \in Nat /\ t <= now /\ now \in Nat
  BY ReadingsPast DEF IInv, TypeOK
<1>3. /\ o.state \in GovernorFile
      /\ Coherent(o.state, now)
      /\ o.reserved \subseteq Delivery
      /\ Probing(file) => Probing(o.state)
      /\ Probing(o.state) => Probing(file) \/ (o.reserved # {} /\ o.state.status = "HALF_OPEN")
      /\ o.reserved # {} =>
            /\ o.state.open_until = None \/ o.state.open_until <= now
            /\ ~Probing(file)
  BY <1>2, ReserveCoherent DEF IInv, TypeOK, HasFile
<1>4. UNCHANGED <<now, ids>> /\ ordinary \in Nat /\ probes \in Nat
  BY DEF ReserveNextQueued, IInv, TypeOK
<1>5. /\ ordinary' \in Nat /\ probes' \in Nat /\ probes' >= probes
      /\ o.reserved = {} => UNCHANGED <<ordinary, probes>>
      /\ o.reserved # {} /\ o.state.status = "HALF_OPEN" => probes' = probes + 1
  BY <1>1, <1>4 DEF CountAttempt
<1>6. IInv'
  BY <1>1, <1>2, <1>3, <1>4, <1>5 DEF IInv, TypeOK, HasFile
<1>7. Quiet
  BY <1>1, <1>3, <1>4, <1>5 DEF Quiet
<1>8. QED BY <1>6, <1>7

LEMMA RequeueStep ==
    ASSUME IInv, NEW d \in held, RequeueDelivery(d)
    PROVE  IInv' /\ Quiet
<1>1. PICK t \in Readings : file' = RequeueFile(file, d, t)
  BY DEF RequeueDelivery
<1>2. t \in Nat /\ t <= now /\ now \in Nat /\ d \in Delivery
  BY ReadingsPast DEF IInv, TypeOK
<1>3. /\ file' \in GovernorFile \cup {NoFile}
      /\ file' # NoFile => Coherent(file', now)
      /\ Probing(file') <=> Probing(file)
  BY <1>1, <1>2, RequeueCoherent DEF IInv, TypeOK, HasFile
<1>4. UNCHANGED <<now, ids, ordinary, probes>> /\ held' \subseteq held
      /\ ordinary \in Nat /\ probes \in Nat
  BY DEF RequeueDelivery, IInv, TypeOK
<1>5. IInv'
  BY <1>3, <1>4 DEF IInv, TypeOK, HasFile
<1>6. Quiet
  BY <1>4 DEF Quiet
<1>7. QED BY <1>5, <1>6

LEMMA RecordStep ==
    ASSUME IInv, NEW result \in Results, RecordResult(result)
    PROVE  IInv' /\ Quiet
<1>1. PICK t \in Readings : file' \in RecordOutcomes(file, result, t)
  BY DEF RecordResult
<1>2. t \in Nat /\ t <= now /\ now \in Nat
  BY ReadingsPast DEF IInv, TypeOK
<1>3. file' \in GovernorFile /\ Coherent(file', now) /\ ~Probing(file')
  BY <1>1, <1>2, RecordCoherent DEF IInv, TypeOK, HasFile
<1>4. UNCHANGED <<now, ids>> /\ held' \subseteq held
      /\ ordinary \in Nat /\ probes \in Nat
  BY DEF RecordResult, IInv, TypeOK
<1>5. /\ ordinary' \in Nat /\ probes' \in Nat
      /\ ordinary' <= ordinary /\ probes' <= probes /\ ordinary + probes > 0
  BY <1>4 DEF RecordResult
<1>6. IInv'
  BY <1>3, <1>4, <1>5 DEF IInv, TypeOK, HasFile
<1>7. Quiet
  <2>1. ~(ordinary' + probes' > ordinary + probes)
    BY <1>4, <1>5, NoMoreInAll
  <2>2. QED BY <2>1 DEF Quiet
<1>8. QED BY <1>6, <1>7

LEMMA StatusStep ==
    ASSUME IInv, Status
    PROVE  IInv' /\ Quiet
<1>1. PICK t \in Readings : file' = StatusFile(file, t)
  BY DEF Status
<1>2. t \in Nat /\ t <= now /\ now \in Nat
  BY ReadingsPast DEF IInv, TypeOK
<1>3. file' \in GovernorFile /\ Coherent(file', now) /\ (Probing(file') <=> Probing(file))
  BY <1>1, <1>2, StatusCoherent DEF IInv, TypeOK, HasFile
<1>4. UNCHANGED <<now, ids, held, ordinary, probes>>
      /\ ordinary \in Nat /\ probes \in Nat
  BY DEF Status, IInv, TypeOK
<1>5. IInv'
  BY <1>3, <1>4 DEF IInv, TypeOK, HasFile
<1>6. Quiet
  BY <1>4 DEF Quiet
<1>7. QED BY <1>5, <1>6

LEMMA AbandonStep ==
    ASSUME IInv, Abandon
    PROVE  IInv' /\ Quiet
<1>1. /\ Faults /\ UNCHANGED <<file, now, ids>> /\ held' \subseteq held
      /\ ordinary \in Nat /\ probes \in Nat
      /\ ordinary' \in Nat /\ probes' \in Nat
      /\ ordinary' <= ordinary /\ probes' <= probes
  BY DEF Abandon, IInv, TypeOK
<1>2. IInv'
  BY <1>1 DEF IInv, TypeOK, HasFile, Probing
<1>3. Quiet
  <2>1. ~(ordinary' + probes' > ordinary + probes)
    BY <1>1, NoMoreInAll
  <2>2. QED BY <2>1 DEF Quiet
<1>4. QED BY <1>2, <1>3

LEMMA TickStep ==
    ASSUME IInv, Tick
    PROVE  IInv' /\ Quiet
<1>1. UNCHANGED <<file, ids, held, ordinary, probes>> /\ now' = now + 1
      /\ now \in Nat /\ ordinary \in Nat /\ probes \in Nat
  BY DEF Tick, IInv, TypeOK
<1>2. HasFile => Coherent(file, now')
  <2>1. HasFile => Coherent(file, now) /\ file.open_until \in Nat \cup {None}
    BY DEF IInv, TypeOK, HasFile
  <2>2. QED BY <1>1, <2>1 DEF Coherent
<1>3. IInv'
  BY <1>1, <1>2 DEF IInv, TypeOK, HasFile, Probing
<1>4. Quiet
  <2>1. ~(ordinary' + probes' > ordinary + probes)
    BY <1>1, NoMoreInAll
  <2>2. QED BY <2>1 DEF Quiet
<1>5. QED BY <1>3, <1>4

LEMMA NextStep ==
    ASSUME IInv, [Next]_vars
    PROVE  IInv' /\ Quiet
<1>1. CASE \E m \in Messages, u \in Targets, p \in Priorities : AdmitOrQueue(m, u, p)
  BY <1>1, AdmitStep
<1>2. CASE \E m \in Messages, u \in Targets, p \in Priorities : QueueDelivery(m, u, p)
  BY <1>2, QueueStep
<1>3. CASE \E u \in Targets : ReserveNextQueued(u)
  BY <1>3, ReserveStep
<1>4. CASE \E d \in held : RequeueDelivery(d)
  BY <1>4, RequeueStep
<1>5. CASE \E result \in Results : RecordResult(result)
  BY <1>5, RecordStep
<1>6. CASE Status
  BY <1>6, StatusStep
<1>7. CASE Abandon
  BY <1>7, AbandonStep
<1>8. CASE Tick
  BY <1>8, TickStep
<1>9. CASE UNCHANGED vars
  <2>1. UNCHANGED <<file, now, ids, held, ordinary, probes>>
        /\ ordinary \in Nat /\ probes \in Nat
    BY <1>9 DEF vars, IInv, TypeOK
  <2>2. IInv'
    BY <2>1 DEF IInv, TypeOK, HasFile, Probing
  <2>3. Quiet
    <3>1. ~(ordinary' + probes' > ordinary + probes)
      BY <2>1, NoMoreInAll
    <3>2. QED BY <3>1 DEF Quiet
  <2>4. QED BY <2>2, <2>3
<1>10. QED
  BY <1>1, <1>2, <1>3, <1>4, <1>5, <1>6, <1>7, <1>8, <1>9 DEF Next

-----------------------------------------------------------------------------
(* Who owns what: an id is queued or held once, the counters are within the   *)
(* budget.  One owner is inductive only with the ids that have been drawn:    *)
(* the next one is new.                                                       *)

Ledger ==
    /\ Owned(QueueOf(file), held, ids)
    /\ HasFile => Budgeted(file)

\* What a step does to the ledger, and what one that counts an attempt finds.
Accounted ==
    /\ Ledger'
    /\ Moved(QueueOf(file), held, QueueOf(file'), held', now)
    /\ HasFile /\ HasFile' => Earned(file, file')
    /\ Enabled /\ HasFile /\ ordinary' + probes' > ordinary + probes =>
          LET report == Report(file, now)
          IN  IF report.next_available_at = None
              THEN report.remaining > 0 /\ report.status # "OPEN"
              ELSE report.next_available_at <= now

LEMMA InitLedger == Init => Ledger
<1>1. Init => Owned({}, {}, 0)
  BY FS_EmptySet DEF Owned
<1> QED BY <1>1 DEF Init, Ledger, QueueOf, HasFile

\* An operation counts within the budget, whoever calls it.
LEMMA CountedLedger ==
    ASSUME IInv, Ledger, NEW t \in Nat, Counted(file, file', t),
           file' \in GovernorFile \cup {NoFile}
    PROVE  /\ HasFile' => Budgeted(file')
           /\ HasFile /\ HasFile' => Earned(file, file')
<1>1. file \in GovernorFile \cup {NoFile} /\ (file # NoFile => Budgeted(file))
  BY DEF IInv, TypeOK, Ledger, HasFile
<1>2. HasFile' => Budgeted(file')
  BY <1>1, CountedBudgeted DEF HasFile
<1>3. HasFile /\ HasFile' => Earned(file, file')
  BY <1>1, CountedEarned DEF HasFile
<1> QED BY <1>2, <1>3

LEMMA AnnouncedGrant ==
    ASSUME IInv, NEW t \in Nat, t <= now, CanAttempt(Refresh(Load(file, t), t), t),
           HasFile
    PROVE  LET report == Report(file, now)
           IN  IF report.next_available_at = None
               THEN report.remaining > 0 /\ report.status # "OPEN"
               ELSE report.next_available_at <= now
<1>1. /\ file \in GovernorFile /\ Coherent(file, now) /\ now \in Nat
      /\ Load(file, t) = file
  BY DEF IInv, TypeOK, HasFile, Load
<1>2. CanAttempt(Refresh(file, t), t)
  BY <1>1
<1> QED BY <1>1, <1>2, GrantReported

LEMMA AdmitAccounted ==
    ASSUME IInv, Ledger, NEW m \in Messages, NEW u \in Targets,
           NEW p \in Priorities, AdmitOrQueue(m, u, p)
    PROVE  Accounted
<1>0. PICK t \in Readings :
      \E o \in AdmitOutcomes(file, BuildDelivery(ids + 1, m, u, p, t), t) :
         /\ file' = o.state
         /\ ids' = ids + 1
         /\ IF o.allowed THEN CountAttempt(o.status = "HALF_OPEN")
            ELSE UNCHANGED <<ordinary, probes>>
  BY DEF AdmitOrQueue
<1>1. PICK o \in AdmitOutcomes(file, BuildDelivery(ids + 1, m, u, p, t), t) :
         /\ file' = o.state
         /\ ids' = ids + 1
         /\ IF o.allowed THEN CountAttempt(o.status = "HALF_OPEN")
            ELSE UNCHANGED <<ordinary, probes>>
  BY <1>0
<1>2. /\ t \in Nat /\ t <= now /\ now \in Nat /\ ids \in Nat
      /\ file \in GovernorFile \cup {NoFile}
      /\ ordinary \in Nat /\ probes \in Nat
  BY ReadingsPast DEF IInv, TypeOK
<1>3. PICK d \in Delivery : d = BuildDelivery(ids + 1, m, u, p, t)
  BY <1>2, BuildType
<1>4. d.id = ids + 1
  BY <1>3 DEF BuildDelivery
<1>5. /\ Counted(file, file', t)
      /\ \/ file' = file
         \/ /\ file' \in GovernorFile
            /\ Appended(Unexpired(QueueOf(file), t), file'.queue, d)
      /\ Enabled /\ o.allowed => CanAttempt(Refresh(Load(file, t), t), t)
  BY <1>1, <1>2, <1>3, AdmitMoves
<1>6. file' \in GovernorFile \cup {NoFile} /\ ids' = ids + 1 /\ held' = held
  BY <1>1, AdmitStep DEF IInv, TypeOK, AdmitOrQueue
<1>7. /\ HasFile' => Budgeted(file')
      /\ HasFile /\ HasFile' => Earned(file, file')
  BY <1>2, <1>5, <1>6, CountedLedger
<1>8. /\ Owned(QueueOf(file'), held', ids')
      /\ Moved(QueueOf(file), held, QueueOf(file'), held', now)
  <2>1. Owned(QueueOf(file), held, ids)
    BY DEF Ledger
  <2>2. CASE QueueOf(file') = QueueOf(file)
    <3>1. /\ Owned(QueueOf(file), held, ids)
          /\ Moved(QueueOf(file), held, QueueOf(file), held, now)
      BY <1>2, <2>1, ShrinkMoves
    <3>2. Owned(QueueOf(file), held, ids + 1)
      BY <1>2, <2>1 DEF Owned, Delivery
    <3> QED BY <1>6, <2>2, <3>1, <3>2
  <2>3. CASE Appended(Unexpired(QueueOf(file), t), QueueOf(file'), d)
    <3>1. /\ Owned(QueueOf(file'), held, ids + 1)
          /\ Moved(QueueOf(file), held, QueueOf(file'), held, now)
      BY <1>2, <1>4, <2>1, <2>3, AppendMoves
    <3> QED BY <1>6, <3>1
  <2> QED BY <1>5, <2>2, <2>3, NoFileAssumption DEF QueueOf
<1>9. ASSUME Enabled, HasFile, ordinary' + probes' > ordinary + probes
      PROVE  CanAttempt(Refresh(Load(file, t), t), t)
  <2>1. o.allowed
    BY <1>1, <1>2, <1>9
  <2> QED BY <1>5, <1>9, <2>1
<1> QED BY <1>2, <1>7, <1>8, <1>9, AnnouncedGrant DEF Accounted, Ledger

LEMMA QueueAccounted ==
    ASSUME IInv, Ledger, NEW m \in Messages, NEW u \in Targets,
           NEW p \in Priorities, QueueDelivery(m, u, p)
    PROVE  Accounted
<1>0. PICK t \in Readings :
      \E o \in QueueOutcomes(file, BuildDelivery(ids + 1, m, u, p, t), t) :
         file' = o.state
  BY DEF QueueDelivery
<1>2. /\ t \in Nat /\ t <= now /\ now \in Nat /\ ids \in Nat
      /\ file \in GovernorFile \cup {NoFile}
      /\ ordinary \in Nat /\ probes \in Nat
  BY ReadingsPast DEF IInv, TypeOK
<1>3. PICK d \in Delivery : d = BuildDelivery(ids + 1, m, u, p, t)
  BY <1>2, BuildType
<1>4. d.id = ids + 1
  BY <1>3 DEF BuildDelivery
<1>5. PICK o \in QueueOutcomes(file, d, t) : file' = o.state
  BY <1>0, <1>3
<1>6. file' \in GovernorFile
  BY <1>2, <1>5, QueueCoherent DEF IInv, HasFile
<1>7. /\ Counted(file, file', t)
      /\ Appended(Unexpired(QueueOf(file), t), QueueOf(file'), d)
  BY <1>2, <1>5, <1>6, QueueMoves, NoFileAssumption DEF QueueOf
<1>8. /\ HasFile' => Budgeted(file')
      /\ HasFile /\ HasFile' => Earned(file, file')
  BY <1>2, <1>6, <1>7, CountedLedger
<1>9. /\ ids' = ids + 1 /\ held' \in SUBSET held
      /\ UNCHANGED <<ordinary, probes>>
  BY DEF QueueDelivery
<1>10. /\ Owned(QueueOf(file'), held', ids')
       /\ Moved(QueueOf(file), held, QueueOf(file'), held', now)
  BY <1>2, <1>4, <1>7, <1>9, AppendMoves DEF Ledger
<1>11. ~(ordinary' + probes' > ordinary + probes)
  BY <1>2, <1>9, NoMoreInAll
<1> QED BY <1>8, <1>10, <1>11 DEF Accounted, Ledger

LEMMA ReserveAccounted ==
    ASSUME IInv, Ledger, NEW u \in Targets, ReserveNextQueued(u)
    PROVE  Accounted
<1>0. PICK t \in Readings : \E o \in ReserveOutcomes(file, u, t) :
         /\ file' = o.state
         /\ held' = held \cup o.reserved
         /\ IF o.reserved # {} THEN CountAttempt(o.state.status = "HALF_OPEN")
            ELSE UNCHANGED <<ordinary, probes>>
  BY DEF ReserveNextQueued
<1>1. PICK o \in ReserveOutcomes(file, u, t) :
         /\ file' = o.state
         /\ held' = held \cup o.reserved
         /\ IF o.reserved # {} THEN CountAttempt(o.state.status = "HALF_OPEN")
            ELSE UNCHANGED <<ordinary, probes>>
  BY <1>0
<1>2. /\ t \in Nat /\ t <= now /\ now \in Nat /\ ids \in Nat
      /\ file \in GovernorFile \cup {NoFile}
      /\ ordinary \in Nat /\ probes \in Nat /\ ids' = ids
  BY ReadingsPast DEF IInv, TypeOK, ReserveNextQueued
<1>3. file' \in GovernorFile
  BY <1>1, <1>2, ReserveCoherent DEF IInv, HasFile
<1>4. QueueOf(file') = file'.queue
  BY <1>3, NoFileAssumption DEF QueueOf
<1> DEFINE live == Unexpired(QueueOf(file), t)
<1>5. /\ Counted(file, file', t)
      /\ o.reserved = {} => QueueOf(file') = live
      /\ o.reserved # {} =>
            /\ CanAttempt(Refresh(Load(file, t), t), t)
            /\ \E d \in live :
                 /\ o.reserved = {[d EXCEPT !.attempts = @ + 1]}
                 /\ QueueOf(file') = Others(live, d)
  BY <1>1, <1>2, <1>4, ReserveMoves
<1>6. /\ HasFile' => Budgeted(file')
      /\ HasFile /\ HasFile' => Earned(file, file')
  BY <1>2, <1>3, <1>5, CountedLedger
<1>7. Owned(QueueOf(file), held, ids)
  BY DEF Ledger
<1>8. /\ Owned(QueueOf(file'), held', ids)
      /\ Moved(QueueOf(file), held, QueueOf(file'), held', now)
  <2>1. CASE o.reserved = {}
    <3>1. live \in SUBSET QueueOf(file) /\ \A d \in QueueOf(file) \ live :
                                              d.expires_at <= now
      BY <1>2, <1>7, LiveIsPart DEF Owned
    <3>2. QueueOf(file') = live /\ held' = held
      BY <1>1, <1>5, <2>1
    <3> HIDE DEF live
    <3> QED BY <1>2, <1>7, <3>1, <3>2, ShrinkMoves
  <2>2. CASE o.reserved # {}
    <3>1. PICK d \in live : /\ o.reserved = {[d EXCEPT !.attempts = @ + 1]}
                            /\ QueueOf(file') = Others(live, d)
      BY <1>5, <2>2
    <3>2. PICK c : c = [d EXCEPT !.attempts = @ + 1]
      OBVIOUS
    <3>3. held' = held \cup {c}
      BY <1>1, <3>1, <3>2
    <3>4. /\ Owned(Others(live, d), held \cup {c}, ids)
          /\ Moved(QueueOf(file), held, Others(live, d), held \cup {c}, now)
      BY <1>2, <1>7, <3>2, HandOutMoves
    <3> HIDE DEF live
    <3> QED BY <3>1, <3>3, <3>4
  <2> QED BY <2>1, <2>2
<1>9. ASSUME Enabled, HasFile, ordinary' + probes' > ordinary + probes
      PROVE  CanAttempt(Refresh(Load(file, t), t), t)
  BY <1>1, <1>2, <1>5, <1>9
<1> QED BY <1>2, <1>6, <1>8, <1>9, AnnouncedGrant DEF Accounted, Ledger

LEMMA RequeueAccounted ==
    ASSUME IInv, Ledger, NEW d \in held, RequeueDelivery(d)
    PROVE  Accounted
<1>1. PICK t \in Readings : file' = RequeueFile(file, d, t)
  BY DEF RequeueDelivery
<1>2. /\ t \in Nat /\ t <= now /\ now \in Nat /\ ids \in Nat /\ d \in Delivery
      /\ file \in GovernorFile \cup {NoFile}
      /\ ordinary \in Nat /\ probes \in Nat
      /\ UNCHANGED <<ids, ordinary, probes>> /\ held' = held \ {d}
  BY ReadingsPast DEF IInv, TypeOK, RequeueDelivery
<1>3. file' \in GovernorFile \cup {NoFile}
  BY RequeueStep DEF IInv, TypeOK
<1>4. /\ Counted(file, file', t)
      /\ \/ file' = file
         \/ /\ file' \in GovernorFile
            /\ file'.queue = Others(Unexpired(QueueOf(file), t), d) \cup {d}
  BY <1>1, <1>2, RequeueMoves
<1>5. /\ HasFile' => Budgeted(file')
      /\ HasFile /\ HasFile' => Earned(file, file')
  BY <1>2, <1>3, <1>4, CountedLedger
<1>6. Owned(QueueOf(file), held, ids)
  BY DEF Ledger
<1>7. CASE file' = file
  <2>1. /\ Owned(QueueOf(file), held', ids)
        /\ Moved(QueueOf(file), held, QueueOf(file), held', now)
    BY <1>2, <1>6, ShrinkMoves
  <2>2. ~(ordinary' + probes' > ordinary + probes)
    BY <1>2, NoMoreInAll
  <2> QED BY <1>2, <1>5, <1>7, <2>1, <2>2 DEF Accounted, Ledger
<1>8. CASE file' # file /\ HasFile'
  <2>1. QueueOf(file') = Others(Unexpired(QueueOf(file), t), d) \cup {d}
    BY <1>4, <1>8 DEF QueueOf, HasFile
  <2>2. /\ Owned(QueueOf(file'), held', ids)
        /\ Moved(QueueOf(file), held, QueueOf(file'), held', now)
    BY <1>2, <1>6, <2>1, PutBackMoves
  <2>3. ~(ordinary' + probes' > ordinary + probes)
    BY <1>2, NoMoreInAll
  <2> QED BY <1>2, <1>5, <2>2, <2>3 DEF Accounted, Ledger
<1>9. file' # file => HasFile'
  BY <1>4, NoFileAssumption DEF HasFile
<1> QED BY <1>7, <1>8, <1>9

\* A step that drops nothing but what has expired, and counts no attempt.
LEMMA ShrinkAccounted ==
    ASSUME IInv, Ledger, NEW t \in Nat, t <= now,
           Counted(file, file', t), file' \in GovernorFile \cup {NoFile},
           QueueOf(file') \in {QueueOf(file), Unexpired(QueueOf(file), t)},
           held' \in SUBSET held, ids' = ids,
           ordinary' \in Nat, probes' \in Nat,
           ordinary' <= ordinary, probes' <= probes
    PROVE  Accounted
<1>1. /\ now \in Nat /\ ids \in Nat /\ ordinary \in Nat /\ probes \in Nat
      /\ Owned(QueueOf(file), held, ids)
  BY DEF IInv, TypeOK, Ledger
<1>2. /\ HasFile' => Budgeted(file')
      /\ HasFile /\ HasFile' => Earned(file, file')
  BY CountedLedger
<1>3. /\ QueueOf(file') \in SUBSET QueueOf(file)
      /\ \A d \in QueueOf(file) \ QueueOf(file') : d.expires_at <= now
  <2>1. QueueOf(file) \in SUBSET Delivery
    BY <1>1 DEF Owned
  <2>2. /\ Unexpired(QueueOf(file), t) \in SUBSET QueueOf(file)
        /\ \A d \in QueueOf(file) \ Unexpired(QueueOf(file), t) :
              d.expires_at <= now
    BY <1>1, <2>1, LiveIsPart
  <2> QED BY <2>2
<1>4. /\ Owned(QueueOf(file'), held', ids)
      /\ Moved(QueueOf(file), held, QueueOf(file'), held', now)
  BY <1>1, <1>3, ShrinkMoves
<1>5. ~(ordinary' + probes' > ordinary + probes)
  BY <1>1, NoMoreInAll
<1> QED BY <1>2, <1>4, <1>5 DEF Accounted, Ledger

LEMMA RecordAccounted ==
    ASSUME IInv, Ledger, NEW result \in Results, RecordResult(result)
    PROVE  Accounted
<1>1. PICK t \in Readings : file' \in RecordOutcomes(file, result, t)
  BY DEF RecordResult
<1>2. /\ t \in Nat /\ t <= now /\ now \in Nat
      /\ file \in GovernorFile \cup {NoFile}
      /\ ordinary \in Nat /\ probes \in Nat
  BY ReadingsPast DEF IInv, TypeOK
<1>3. file' \in GovernorFile
  BY <1>1, <1>2, RecordCoherent DEF IInv, HasFile
<1>4. /\ Counted(file, file', t)
      /\ QueueOf(file') = Unexpired(QueueOf(file), t)
  BY <1>1, <1>2, <1>3, RecordMoves, NoFileAssumption DEF QueueOf
<1>5. /\ held' \in SUBSET held /\ ids' = ids
      /\ ordinary' \in Nat /\ probes' \in Nat
      /\ ordinary' <= ordinary /\ probes' <= probes
  BY <1>2 DEF RecordResult
<1> QED BY <1>2, <1>3, <1>4, <1>5, ShrinkAccounted

LEMMA StatusAccounted ==
    ASSUME IInv, Ledger, Status
    PROVE  Accounted
<1>1. PICK t \in Readings : file' = StatusFile(file, t)
  BY DEF Status
<1>2. /\ t \in Nat /\ t <= now /\ now \in Nat
      /\ file \in GovernorFile \cup {NoFile}
      /\ ordinary \in Nat /\ probes \in Nat
      /\ UNCHANGED <<now, ids, held, ordinary, probes>>
  BY ReadingsPast DEF IInv, TypeOK, Status
<1>3. file' \in GovernorFile
  BY <1>1, <1>2, StatusCoherent DEF IInv, HasFile
<1>4. /\ Counted(file, file', t)
      /\ QueueOf(file') = Unexpired(QueueOf(file), t)
  BY <1>1, <1>2, <1>3, StatusMoves, NoFileAssumption DEF QueueOf
<1> QED BY <1>2, <1>3, <1>4, ShrinkAccounted

LEMMA NextAccounted ==
    ASSUME IInv, Ledger, [Next]_vars
    PROVE  Accounted
<1>1. CASE \E m \in Messages, u \in Targets, p \in Priorities : AdmitOrQueue(m, u, p)
  BY <1>1, AdmitAccounted
<1>2. CASE \E m \in Messages, u \in Targets, p \in Priorities : QueueDelivery(m, u, p)
  BY <1>2, QueueAccounted
<1>3. CASE \E u \in Targets : ReserveNextQueued(u)
  BY <1>3, ReserveAccounted
<1>4. CASE \E d \in held : RequeueDelivery(d)
  BY <1>4, RequeueAccounted
<1>5. CASE \E result \in Results : RecordResult(result)
  BY <1>5, RecordAccounted
<1>6. CASE Status
  BY <1>6, StatusAccounted
<1>7. CASE Abandon \/ Tick \/ UNCHANGED vars
  <2>1. /\ file' = file /\ ids' = ids /\ held' \in SUBSET held
        /\ file \in GovernorFile \cup {NoFile} /\ now \in Nat
        /\ ordinary' \in Nat /\ probes' \in Nat
        /\ ordinary' <= ordinary /\ probes' <= probes
    BY <1>7 DEF Abandon, Tick, vars, IInv, TypeOK
  <2>2. Counted(file, file', now)
    BY <2>1 DEF Counted
  <2> QED BY <2>1, <2>2, ShrinkAccounted
<1> QED
  BY <1>1, <1>2, <1>3, <1>4, <1>5, <1>6, <1>7 DEF Next

-----------------------------------------------------------------------------
(* Windows and stretches of time.  A window starts at the clock reading of an *)
(* operation, which is at most MaxLag old, so what was counted before it was  *)
(* counted MaxLag after its start at the latest.  The window before that one  *)
(* is over WindowSeconds after its own start: of all that the windows before  *)
(* the present one counted, no more than one window's attempts are later than *)
(* WindowSeconds - MaxLag ago.                                                *)

Length == WindowSeconds - MaxLag

\* What was granted before the present window.
Before == IF HasFile THEN granted[now] - file.attempts_in_window ELSE 0

Stretches ==
    /\ now \in 1 .. MaxNow
    /\ granted \in [0 .. MaxNow -> Nat]
    /\ \A x \in 0 .. MaxNow : x >= now => granted[x] = granted[now]
    /\ ~HasFile => granted[now] = 0
    /\ HasFile => file.window_started_at >= 1
    /\ \A x \in 0 .. MaxNow :
          HasFile /\ x >= file.window_started_at + MaxLag => Before <= granted[x]
    /\ \A s \in 1 .. now : s > now - Length => Before - granted[s - 1] <= Ceiling
    /\ \A s, e \in 1 .. MaxNow :
          s <= e /\ e - s < Length => GrantedBetween(s, e) <= 2 * Ceiling

\* An operation counts what it grants, in the window that its reading is in.
Windowed ==
    \/ file' = file /\ GrantedNow = 0
    \/ \E t \in Readings :
          LET f == Refresh(Load(file, t), t)
          IN  /\ file' \in GovernorFile
              /\ file'.window_started_at = f.window_started_at
              /\ file'.attempts_in_window >= f.attempts_in_window + GrantedNow
              /\ GrantedNow \in {0, 1}

LEMMA NoGain ==
    ASSUME NEW x \in Nat, NEW y \in Nat, NEW a \in Nat, NEW b \in Nat, a <= x, b <= y
    PROVE  Larger(0, (a + b) - (x + y)) = 0
BY DEF Larger

LEMMA NoneGranted ==
    ASSUME IInv, ordinary' \in Nat, probes' \in Nat,
           ordinary' <= ordinary, probes' <= probes
    PROVE  GrantedNow = 0
<1>1. ordinary \in Nat /\ probes \in Nat
  BY DEF IInv, TypeOK
<1> QED BY <1>1, NoGain DEF GrantedNow

LEMMA OneGranted ==
    ASSUME IInv, NEW b \in BOOLEAN, CountAttempt(b)
    PROVE  GrantedNow = 1
BY DEF GrantedNow, Larger, IInv, TypeOK, CountAttempt

LEMMA CountedWindowed ==
    ASSUME IInv, NEW t \in Readings, Counted(file, file', t),
           file' \in GovernorFile, GrantedNow = 0
    PROVE  Windowed
<1> DEFINE f == Refresh(Load(file, t), t)
<1>1. t \in Nat /\ file \in GovernorFile \cup {NoFile}
  BY ReadingsPast DEF IInv, TypeOK
<1>2. f \in GovernorFile
  BY <1>1, LoadType, RefreshType
<1> HIDE DEF f
<1>3. CASE file' = file
  BY <1>3 DEF Windowed
<1>4. CASE file' # file
  <2>1. /\ file'.window_started_at = f.window_started_at
        /\ file'.attempts_in_window >= f.attempts_in_window
    BY <1>2, <1>4 DEF Counted, f
  <2>2. file'.attempts_in_window >= f.attempts_in_window + GrantedNow
    BY <1>2, <2>1
  <2> QED BY <2>1, <2>2 DEF Windowed, f
<1> QED BY <1>3, <1>4

LEMMA AdmitWindowed ==
    ASSUME IInv, Enabled, NEW m \in Messages, NEW u \in Targets,
           NEW p \in Priorities, AdmitOrQueue(m, u, p)
    PROVE  Windowed
<1>0. PICK t \in Readings :
      \E o \in AdmitOutcomes(file, BuildDelivery(ids + 1, m, u, p, t), t) :
         /\ file' = o.state
         /\ ids' = ids + 1
         /\ IF o.allowed THEN CountAttempt(o.status = "HALF_OPEN")
            ELSE UNCHANGED <<ordinary, probes>>
  BY DEF AdmitOrQueue
<1>1. PICK o \in AdmitOutcomes(file, BuildDelivery(ids + 1, m, u, p, t), t) :
         /\ file' = o.state
         /\ IF o.allowed THEN CountAttempt(o.status = "HALF_OPEN")
            ELSE UNCHANGED <<ordinary, probes>>
  BY <1>0
<1>2. /\ t \in Nat /\ ids \in Nat /\ file \in GovernorFile \cup {NoFile}
      /\ ordinary \in Nat /\ probes \in Nat
  BY ReadingsPast DEF IInv, TypeOK
<1>3. PICK d \in Delivery : d = BuildDelivery(ids + 1, m, u, p, t)
  BY <1>2, BuildType
<1> DEFINE f == Refresh(Load(file, t), t)
<1>4. /\ Counted(file, file', t)
      /\ file' = file \/ file' \in GovernorFile
      /\ o.allowed => /\ CanAttempt(f, t)
                      /\ file' \in GovernorFile
                      /\ file'.attempts_in_window = f.attempts_in_window + 1
                      /\ file'.window_started_at = f.window_started_at
  BY <1>1, <1>2, <1>3, AdmitMoves
<1>5. f \in GovernorFile
  BY <1>2, LoadType, RefreshType
<1> HIDE DEF f
<1>6. CASE o.allowed
  <2>1. GrantedNow = 1
    BY <1>1, <1>6, OneGranted
  <2>2. file'.attempts_in_window >= f.attempts_in_window + GrantedNow
    BY <1>4, <1>5, <1>6, <2>1
  <2> QED BY <1>4, <1>6, <2>1, <2>2 DEF Windowed, f
<1>7. CASE ~o.allowed
  <2>1. GrantedNow = 0
    BY <1>1, <1>2, <1>7, NoneGranted
  <2> QED BY <1>4, <2>1, CountedWindowed DEF Windowed
<1> QED BY <1>6, <1>7

LEMMA ReserveWindowed ==
    ASSUME IInv, NEW u \in Targets, ReserveNextQueued(u)
    PROVE  Windowed
<1>0. PICK t \in Readings : \E o \in ReserveOutcomes(file, u, t) :
         /\ file' = o.state
         /\ held' = held \cup o.reserved
         /\ IF o.reserved # {} THEN CountAttempt(o.state.status = "HALF_OPEN")
            ELSE UNCHANGED <<ordinary, probes>>
  BY DEF ReserveNextQueued
<1>1. PICK o \in ReserveOutcomes(file, u, t) :
         /\ file' = o.state
         /\ IF o.reserved # {} THEN CountAttempt(o.state.status = "HALF_OPEN")
            ELSE UNCHANGED <<ordinary, probes>>
  BY <1>0
<1>2. /\ t \in Nat /\ t <= now /\ now \in Nat
      /\ file \in GovernorFile \cup {NoFile}
      /\ ordinary \in Nat /\ probes \in Nat
  BY ReadingsPast DEF IInv, TypeOK
<1>3. file' \in GovernorFile
  BY <1>1, <1>2, ReserveCoherent DEF IInv, HasFile
<1> DEFINE f == Refresh(Load(file, t), t)
<1>4. /\ Counted(file, file', t)
      /\ o.reserved # {} => /\ file'.attempts_in_window = f.attempts_in_window + 1
                            /\ file'.window_started_at = f.window_started_at
  BY <1>1, <1>2, ReserveMoves
<1>5. f \in GovernorFile
  BY <1>2, LoadType, RefreshType
<1> HIDE DEF f
<1>6. CASE o.reserved # {}
  <2>1. GrantedNow = 1
    BY <1>1, <1>6, OneGranted
  <2>2. file'.attempts_in_window >= f.attempts_in_window + GrantedNow
    BY <1>4, <1>5, <1>6, <2>1
  <2> QED BY <1>3, <1>4, <1>6, <2>1, <2>2 DEF Windowed, f
<1>7. CASE o.reserved = {}
  <2>1. GrantedNow = 0
    BY <1>1, <1>2, <1>7, NoneGranted
  <2> QED BY <1>3, <1>4, <2>1, CountedWindowed
<1> QED BY <1>6, <1>7

\* Every operation that counts is one of these two; the others count nothing.
LEMMA NextWindowed ==
    ASSUME IInv, Enabled, [Next]_vars
    PROVE  /\ Windowed
           /\ now' = now \/ (file' = file /\ GrantedNow = 0 /\ now' = now + 1
                              /\ now < MaxNow)
<1>0. /\ ordinary \in Nat /\ probes \in Nat
      /\ file \in GovernorFile \cup {NoFile} /\ now \in Nat
  BY DEF IInv, TypeOK
<1>1. CASE \E m \in Messages, u \in Targets, p \in Priorities : AdmitOrQueue(m, u, p)
  BY <1>1, AdmitWindowed DEF AdmitOrQueue
<1>2. CASE \E m \in Messages, u \in Targets, p \in Priorities : QueueDelivery(m, u, p)
  <2>1. PICK m \in Messages, u \in Targets, p \in Priorities : QueueDelivery(m, u, p)
    BY <1>2
  <2>2. PICK t \in Readings :
        \E o \in QueueOutcomes(file, BuildDelivery(ids + 1, m, u, p, t), t) :
           file' = o.state
    BY <2>1 DEF QueueDelivery
  <2>3. t \in Nat /\ t <= now /\ BuildDelivery(ids + 1, m, u, p, t) \in Delivery
    BY <1>0, <2>2, ReadingsPast, BuildType DEF IInv, TypeOK
  <2>4. file' \in GovernorFile /\ Counted(file, file', t)
    BY <1>0, <2>2, <2>3, QueueMoves, QueueCoherent DEF IInv, HasFile
  <2>5. GrantedNow = 0
    BY <1>0, <2>1, NoneGranted DEF QueueDelivery
  <2> QED BY <2>1, <2>2, <2>4, <2>5, CountedWindowed DEF QueueDelivery
<1>3. CASE \E u \in Targets : ReserveNextQueued(u)
  BY <1>3, ReserveWindowed DEF ReserveNextQueued
<1>4. CASE \E d \in held : RequeueDelivery(d)
  <2>1. PICK d \in held : RequeueDelivery(d)
    BY <1>4
  <2>2. PICK t \in Readings : file' = RequeueFile(file, d, t)
    BY <2>1 DEF RequeueDelivery
  <2>3. t \in Nat /\ d \in Delivery
    BY <1>0, <2>2, ReadingsPast DEF IInv, TypeOK
  <2>4. Counted(file, file', t) /\ (file' = file \/ file' \in GovernorFile)
    BY <1>0, <2>2, <2>3, RequeueMoves
  <2>5. GrantedNow = 0
    BY <1>0, <2>1, NoneGranted DEF RequeueDelivery
  <2> QED BY <2>1, <2>2, <2>4, <2>5, CountedWindowed DEF RequeueDelivery, Windowed
<1>5. CASE \E result \in Results : RecordResult(result)
  <2>1. PICK result \in Results : RecordResult(result)
    BY <1>5
  <2>2. PICK t \in Readings : file' \in RecordOutcomes(file, result, t)
    BY <2>1 DEF RecordResult
  <2>3. t \in Nat /\ t <= now
    BY <1>0, <2>2, ReadingsPast
  <2>4. file' \in GovernorFile /\ Counted(file, file', t)
    BY <1>0, <2>2, <2>3, RecordMoves, RecordCoherent DEF IInv, HasFile
  <2>5. GrantedNow = 0
    BY <1>0, <2>1, NoneGranted DEF RecordResult
  <2> QED BY <2>1, <2>2, <2>4, <2>5, CountedWindowed DEF RecordResult
<1>6. CASE Status
  <2>1. PICK t \in Readings : file' = StatusFile(file, t)
    BY <1>6 DEF Status
  <2>2. t \in Nat /\ t <= now
    BY <1>0, <2>1, ReadingsPast
  <2>3. file' \in GovernorFile /\ Counted(file, file', t)
    BY <1>0, <2>1, <2>2, StatusMoves, StatusCoherent DEF IInv, HasFile
  <2>4. GrantedNow = 0
    BY <1>0, <1>6, NoneGranted DEF Status
  <2> QED BY <1>6, <2>1, <2>3, <2>4, CountedWindowed DEF Status
<1>7. CASE Abandon \/ Tick \/ UNCHANGED vars
  <2>1. /\ file' = file
        /\ ordinary' \in Nat /\ probes' \in Nat
        /\ ordinary' <= ordinary /\ probes' <= probes
        /\ now' = now \/ (now' = now + 1 /\ now < MaxNow)
    BY <1>0, <1>7 DEF Abandon, Tick, vars
  <2> QED BY <2>1, NoneGranted DEF Windowed
<1> QED
  BY <1>1, <1>2, <1>3, <1>4, <1>5, <1>6, <1>7 DEF Next

\* Stretches is inductive.  Only a window that is over is rolled, and what it
\* counted was counted before the stretches that are left.
LEMMA NextStretches ==
    ASSUME IInv, Ledger, Stretches, Enabled, [BudgetNext]_<<vars, granted>>
    PROVE  Stretches'
<1> SUFFICES ASSUME BudgetNext PROVE Stretches'
  <2>1. CASE UNCHANGED <<vars, granted>>
    BY <2>1 DEF vars, Stretches, Before, HasFile, GrantedBetween
  <2> QED BY <2>1
<1>0. /\ now \in 1 .. MaxNow /\ now \in Nat /\ MaxNow \in Nat
      /\ granted \in [0 .. MaxNow -> Nat]
      /\ file \in GovernorFile \cup {NoFile}
      /\ Length \in Int /\ MaxLag \in Nat /\ WindowSeconds \in Nat
      /\ Ceiling \in Nat
  BY BoundsType, ClockAssumption, EnvironmentAssumption, TimingAssumption
     DEF Stretches, IInv, TypeOK, Length
<1>1. /\ Windowed
      /\ now' = now \/ (file' = file /\ GrantedNow = 0 /\ now' = now + 1
                         /\ now < MaxNow)
  BY NextWindowed DEF BudgetNext
<1>2. granted' = [s \in 0 .. MaxNow |->
                     IF s >= now THEN granted[s] + GrantedNow ELSE granted[s]]
  BY DEF BudgetNext
<1>3. GrantedNow \in {0, 1}
  BY <1>1 DEF Windowed
<1>4. HasFile' => Budgeted(file')
  BY NextAccounted DEF Accounted, Ledger, BudgetNext
<1>5. CASE GrantedNow = 0 /\ file' = file
  <2>1. granted' = granted
    BY <1>0, <1>2, <1>5
  <2>2. CASE now' = now
    BY <1>5, <2>1, <2>2 DEF Stretches, Before, HasFile, GrantedBetween
  <2>3. CASE now' = now + 1 /\ now < MaxNow
    <3>1. granted[now + 1] = granted[now] /\ now + 1 \in 1 .. MaxNow
      BY <1>0, <2>3 DEF Stretches
    <3>2. Before' = Before /\ HasFile' = HasFile
      BY <1>5, <2>1, <2>3, <3>1 DEF Before, HasFile
    <3>3. \A s \in 1 .. now + 1 : s > now + 1 - Length =>
             Before - granted[s - 1] <= Ceiling
      <4>1. Before \in Int /\ Before - granted[now] <= 0
        BY <1>0, <3>1 DEF Before, HasFile, Stretches
      <4> QED BY <1>0, <4>1 DEF Stretches
    <3> QED BY <1>0, <1>5, <2>1, <2>3, <3>1, <3>2, <3>3
            DEF Stretches, GrantedBetween
  <2> QED BY <1>1, <2>2, <2>3
<1>6. ASSUME now' = now, NEW t \in Readings, file' \in GovernorFile,
             file'.window_started_at = Refresh(Load(file, t), t).window_started_at,
             file'.attempts_in_window
                >= Refresh(Load(file, t), t).attempts_in_window + GrantedNow
      PROVE  Stretches'
  <2> DEFINE f == Refresh(Load(file, t), t)
             attempts == file'.attempts_in_window
             started == file'.window_started_at
  <2>1. t \in Nat /\ t >= 1 /\ t <= now /\ t >= now - MaxLag
    BY <1>0 DEF Readings, Larger
  <2>2. /\ HasFile' /\ attempts \in Nat /\ started \in Nat
        /\ attempts <= Ceiling
    BY <1>4, <1>6, NoFileAssumption DEF HasFile, Budgeted
  <2>3. /\ granted' \in [0 .. MaxNow -> Nat]
        /\ \A x \in 0 .. MaxNow :
              granted'[x] = IF x >= now THEN granted[x] + GrantedNow ELSE granted[x]
    BY <1>0, <1>2, <1>3
  <2>4. \A x \in 0 .. MaxNow : x >= now => granted'[x] = granted'[now]
    BY <1>0, <2>3 DEF Stretches
  <2>5. Before' = granted[now] + GrantedNow - attempts /\ Before' \in Int
    <3>1. granted[now] \in Nat /\ granted'[now] = granted[now] + GrantedNow
      BY <1>0, <2>3
    <3>2. Before' = granted'[now] - attempts
      BY <1>6, <2>2 DEF Before
    <3> HIDE DEF attempts
    <3> QED BY <1>3, <2>2, <3>1, <3>2
  <2>6. /\ file = NoFile =>
              /\ f.window_started_at = t /\ f.attempts_in_window = 0
        /\ file # NoFile /\ WindowElapsed(file, t) =>
              /\ f.window_started_at = t /\ f.attempts_in_window = 0
        /\ file # NoFile /\ ~WindowElapsed(file, t) =>
              /\ f.window_started_at = file.window_started_at
              /\ f.attempts_in_window = file.attempts_in_window
    <3>1. Load(file, t) \in GovernorFile
      BY <1>0, <2>1, LoadType
    <3>2. file = NoFile => /\ Load(file, t).window_started_at = t
                           /\ Load(file, t).attempts_in_window = 0
      BY DEF Load, DefaultState
    <3>3. file # NoFile => Load(file, t) = file
      BY DEF Load
    <3> QED BY <2>1, <3>1, <3>2, <3>3, RefreshCounts
  <2> HIDE DEF f
  <2>7. /\ started >= 1
        /\ \A x \in 0 .. MaxNow : x >= started + MaxLag => Before' <= granted[x]
        /\ \A s \in 1 .. now : s > now - Length => Before' - granted[s - 1] <= Ceiling
    <3>0. started = f.window_started_at /\ attempts >= f.attempts_in_window + GrantedNow
      BY <1>6 DEF f
    <3> HIDE DEF attempts, started
    <3>1. CASE file = NoFile
      <4>1. Before' <= 0 /\ started = t
        BY <1>0, <1>3, <2>2, <2>5, <2>6, <3>0, <3>1 DEF Stretches, HasFile
      <4> QED BY <1>0, <2>1, <2>5, <4>1
    <3>2. CASE file # NoFile /\ WindowElapsed(file, t)
      <4>1. Before' <= granted[now] /\ started = t
        BY <1>0, <1>3, <2>2, <2>5, <2>6, <3>0, <3>2, SMTT(60)
      <4>2. \A x \in 0 .. MaxNow : x >= started + MaxLag => Before' <= granted[x]
        BY <1>0, <2>1, <2>5, <4>1 DEF Stretches
      <4>3. /\ file.window_started_at \in Nat
            /\ t - file.window_started_at >= WindowSeconds
            /\ file.attempts_in_window \in Nat /\ file.attempts_in_window <= Ceiling
            /\ Before = granted[now] - file.attempts_in_window
        BY <1>0, <3>2 DEF WindowElapsed, WindowStart, Stretches, HasFile,
                          Ledger, Budgeted, Before
      <4>4. ASSUME NEW s \in 1 .. now, s > now - Length
            PROVE  Before' - granted[s - 1] <= Ceiling
        <5>1. s - 1 \in 0 .. MaxNow /\ s - 1 >= file.window_started_at + MaxLag
          <6>1. s - 1 >= now - WindowSeconds + MaxLag
            BY <1>0, <4>4, SMTT(60) DEF Length
          <6>2. now >= file.window_started_at + WindowSeconds
            BY <1>0, <2>1, <4>3
          <6> QED BY <1>0, <4>3, <6>1, <6>2
        <5>2. Before <= granted[s - 1]
          BY <3>2, <5>1 DEF Stretches, HasFile
        <5>3. granted[s - 1] \in Nat /\ granted[now] \in Nat
          BY <1>0, <5>1
        <5> QED BY <2>5, <4>1, <4>3, <5>2, <5>3, BoundsType
      <4> QED BY <2>1, <4>1, <4>2, <4>4
    <3>3. CASE file # NoFile /\ ~WindowElapsed(file, t)
      <4>1. /\ Before' <= Before /\ Before \in Int
            /\ started = file.window_started_at
        <5>1. /\ file.attempts_in_window \in Nat /\ granted[now] \in Nat
              /\ Before = granted[now] - file.attempts_in_window
          BY <1>0, <3>3 DEF Before, HasFile
        <5> QED BY <1>3, <2>2, <2>5, <2>6, <3>0, <3>3, <5>1
      <4>2. /\ file.window_started_at >= 1
            /\ \A x \in 0 .. MaxNow :
                  x >= file.window_started_at + MaxLag => Before <= granted[x]
            /\ \A s \in 1 .. now : s > now - Length => Before - granted[s - 1] <= Ceiling
        BY <3>3 DEF Stretches, HasFile
      <4> QED BY <1>0, <2>5, <4>1, <4>2, SMTT(60)
    <3> QED BY <3>1, <3>2, <3>3
  <2> HIDE DEF attempts, started
  <2>8. ASSUME NEW s \in 1 .. MaxNow, NEW e \in 1 .. MaxNow,
               s <= e, e - s < Length
        PROVE  granted'[e] - granted'[s - 1] <= 2 * Ceiling
    <3>1. s - 1 \in 0 .. MaxNow /\ s \in Nat /\ e \in Nat
      BY <1>0
    <3>2. CASE e < now
      <4>1. granted'[e] = granted[e] /\ granted'[s - 1] = granted[s - 1]
        BY <1>0, <2>3, <2>8, <3>1, <3>2
      <4> QED BY <2>8, <4>1 DEF Stretches, GrantedBetween
    <3>3. CASE e >= now /\ s > now
      <4>1. granted'[e] = granted'[now] /\ granted'[s - 1] = granted'[now]
        BY <1>0, <2>4, <3>1, <3>3
      <4> QED BY <1>0, <2>3, <4>1
    <3>4. CASE e >= now /\ s <= now
      <4>1. granted'[e] = granted'[now]
        BY <1>0, <2>4, <3>4
      <4>2. granted'[s - 1] = granted[s - 1]
        BY <1>0, <2>3, <3>1, <3>4
      <4>3. granted'[now] = granted[now] + GrantedNow
        BY <1>0, <2>3
      <4>4. Before' - granted[s - 1] <= Ceiling
        BY <1>0, <2>7, <2>8, <3>4
      <4>5. granted[now] \in Nat /\ granted[s - 1] \in Nat
        BY <1>0, <3>1
      <4>6. granted'[now] = Before' + attempts
        BY <1>3, <2>2, <2>5, <4>3, <4>5
      <4> QED BY <2>2, <2>5, <4>1, <4>2, <4>4, <4>5, <4>6, BoundsType
    <3>5. now \in Nat
      BY <1>0
    <3>6. e < now \/ (e >= now /\ s > now) \/ (e >= now /\ s <= now)
      BY <3>1, <3>5
    <3> QED BY <3>2, <3>3, <3>4, <3>6
  <2>9. \A x \in 0 .. MaxNow : x >= started + MaxLag => Before' <= granted'[x]
    <3>1. ASSUME NEW x \in 0 .. MaxNow, Before' <= granted[x]
          PROVE  Before' <= granted'[x]
      <4>1. granted[x] \in Nat
        BY <1>0
      <4> QED BY <1>3, <2>3, <2>5, <3>1, <4>1
    <3> QED BY <2>7, <3>1
  <2>10. \A s \in 1 .. now : s > now - Length => Before' - granted'[s - 1] <= Ceiling
    BY <1>0, <2>3, <2>7
  <2> QED BY <1>0, <1>6, <2>2, <2>3, <2>4, <2>7, <2>8, <2>9, <2>10
          DEF Stretches, GrantedBetween, started
<1> QED BY <1>1, <1>5, <1>6 DEF Windowed

-----------------------------------------------------------------------------
(* The theorems *)

\* The inductive invariant holds in every reachable state.
THEOREM Invariance == Spec => []IInv
<1>1. IInv /\ [Next]_vars => IInv'
  BY NextStep
<1>2. QED BY InitInv, <1>1, PTL DEF Spec

\* Types: whatever is done to the state file, it keeps its fields and their types.
THEOREM TypeCorrect == Spec => []TypeOK
<1>1. IInv => TypeOK
  BY DEF IInv
<1>2. QED BY Invariance, <1>1, PTL

\* The status of the file says whether messages wait (refresh, grants, appends,
\* requeues and results of governor.py).
THEOREM StatusCorrect == Spec => []StatusMirrorsQueue
<1>1. IInv => StatusMirrorsQueue
  BY DEF IInv, StatusMirrorsQueue, Coherent
<1>2. QED BY Invariance, <1>1, PTL

\* Status, circuit end and probe mark of the file agree.
THEOREM CircuitCorrect == Spec => []CircuitShape
<1>1. IInv => CircuitShape
  BY DEF IInv, CircuitShape, Coherent
<1>2. QED BY Invariance, <1>1, PTL

\* Without faults, a probe mark always has its attempt pending.
THEOREM ProbeMarkCorrect == Spec => []ProbeMarkIsOwned
<1>1. IInv => ProbeMarkIsOwned
  BY DEF IInv, ProbeMarkIsOwned, Probing, HasFile, Coherent
<1>2. QED BY Invariance, <1>1, PTL

\* Nothing is granted before the end of a backoff (_can_attempt, _refresh_state).
THEOREM QuietCorrect == Spec => QuietPeriod
<1>1. IInv /\ [Next]_vars =>
        [Enabled /\ ordinary' + probes' > ordinary + probes
          => file'.open_until = None \/ file'.open_until <= now]_vars
  BY NextStep DEF Quiet
<1>2. QED BY Invariance, <1>1, PTL DEF Spec, QuietPeriod

\* Deliveries and counters: the ledger is kept along with the circuit.
THEOREM LedgerKept == Spec => [](IInv /\ Ledger)
<1>1. Init => IInv /\ Ledger
  BY InitInv, InitLedger
<1>2. (IInv /\ Ledger) /\ [Next]_vars => (IInv /\ Ledger)'
  BY NextStep, NextAccounted DEF Accounted
<1>3. QED BY <1>1, <1>2, PTL DEF Spec

\* No delivery is in two hands: reserve_next_queued takes every copy of an id out
\* of the queue, and requeue_delivery puts back what one caller holds.
THEOREM OwnerCorrect == Spec => []OneOwner
<1>1. Ledger => OneOwner
  BY DEF Ledger, Owned, OneOwner, Queue, QueueOf, HasFile
<1>2. QED BY LedgerKept, <1>1, PTL

\* The learned capacity stays between its bounds and the attempts of a window below
\* the upper one, whatever shrinks the capacity in between.
THEOREM BudgetCorrect == Spec => []BudgetBound
<1>1. Ledger => BudgetBound
  BY DEF Ledger, Budgeted, BudgetBound
<1>2. QED BY LedgerKept, <1>1, PTL

\* A queued delivery leaves the queue because it expired, was reserved, or had a
\* low priority in a full queue (_append_to_queue, _prune_queue).
THEOREM NothingLost == Spec => NothingVanishes
<1>1. IInv /\ Ledger /\ [Next]_vars =>
        [\A d \in Queue \ Queue' :
            \/ d.expires_at <= now
            \/ \E e \in held' \ held : e.id = d.id
            \/ d.priority = "low" /\ Cardinality(Queue) >= QueueMaxSize]_vars
  BY NextAccounted DEF Accounted, Moved, Queue, QueueOf, HasFile
<1>2. QED BY LedgerKept, <1>1, PTL DEF Spec, NothingVanishes

\* Requeues overfill the queue only by what was taken out of it.
THEOREM QueueBounded == Spec => QueueStaysBounded
<1>1. IInv /\ Ledger /\ [Next]_vars =>
        [Cardinality(Queue') + Cardinality(held')
           <= Larger(Cardinality(Queue), QueueMaxSize) + Cardinality(held)]_vars
  BY NextAccounted DEF Accounted, Moved, Queue, QueueOf, HasFile
<1>2. QED BY LedgerKept, <1>1, PTL DEF Spec, QueueStaysBounded

\* The capacity grows by one, for a full window with messages waiting and without
\* a rate limit (_refresh_state), and no result makes it grow.
THEOREM GrowthCorrect == Spec => GrowthIsEarned
<1>1. IInv /\ Ledger /\ [Next]_vars =>
        [HasFile /\ HasFile' /\ file'.capacity > Larger(MinCapacity, Capacity(file))
           => /\ file'.capacity = Capacity(file) + 1
              /\ file.attempts_in_window >= Capacity(file)
              /\ file.queue # {}
              /\ ~file.window_rate_limited]_vars
  BY NextAccounted DEF Accounted, Earned
<1>2. QED BY LedgerKept, <1>1, PTL DEF Spec, GrowthIsEarned

\* Nothing is granted before the time that decisions and status() announce.
THEOREM AnnouncedCorrect == Spec => AnnouncedIsKept
<1>1. IInv /\ Ledger /\ [Next]_vars =>
        [Enabled /\ HasFile /\ ordinary' + probes' > ordinary + probes =>
           LET report == Report(file, now)
           IN  IF report.next_available_at = None
               THEN report.remaining > 0 /\ report.status # "OPEN"
               ELSE report.next_available_at <= now]_vars
  BY NextAccounted DEF Accounted
<1>2. QED BY LedgerKept, <1>1, PTL DEF Spec, AnnouncedIsKept

\* However refreshes, polls and old clock readings move the windows, any stretch
\* of time shorter than a window, less the age of a reading, is granted at most
\* twice the largest capacity (_refresh_state, _can_attempt).
THEOREM StretchCorrect == BudgetSpec => []AnyStretchBudget
<1>1. CASE Enabled
  <2>1. BudgetInit => IInv /\ Ledger /\ Stretches
    <3> SUFFICES ASSUME BudgetInit PROVE Stretches
      BY InitInv, InitLedger DEF BudgetInit
    <3> QED BY BoundsType, ClockAssumption
            DEF BudgetInit, Init, Stretches, Before, HasFile, GrantedBetween
  <2>2. (IInv /\ Ledger /\ Stretches) /\ [BudgetNext]_<<vars, granted>>
           => (IInv /\ Ledger /\ Stretches)'
    <3> SUFFICES ASSUME IInv, Ledger, Stretches, [BudgetNext]_<<vars, granted>>
                 PROVE  (IInv /\ Ledger /\ Stretches)'
      OBVIOUS
    <3>1. [Next]_vars
      BY DEF BudgetNext, vars
    <3> QED BY <1>1, <3>1, NextStep, NextAccounted, NextStretches DEF Accounted
  <2>3. Stretches => AnyStretchBudget
    BY DEF Stretches, AnyStretchBudget, Length
  <2> QED BY <2>1, <2>2, <2>3, PTL DEF BudgetSpec
<1>2. CASE ~Enabled
  <2>1. AnyStretchBudget
    BY <1>2 DEF AnyStretchBudget
  <2> QED BY <2>1, PTL
<1> QED BY <1>1, <1>2

=============================================================================
