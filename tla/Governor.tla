------------------------------- MODULE Governor -------------------------------
(***************************************************************************)
(* WeixinDeliveryGovernor with everything that may call it.  The governor  *)
(* is a state file shared by threads and processes (HTTP handlers, the     *)
(* CLI, cron and guardian notifiers); every operation reads the clock,     *)
(* takes the state lock, loads the file, changes it and saves it, so a     *)
(* step of this module is one locked operation.  The clock is read before  *)
(* the lock is waited for: an operation may act on a reading up to MaxLag  *)
(* seconds old, and on an older one than an operation before it used.      *)
(*                                                                         *)
(* Between two operations the callers hold what the governor gave them:    *)
(* reservations taken out of the queue and attempts counted but not yet    *)
(* recorded.  Callers are otherwise free here; module Sender is the one    *)
(* caller of the repository and implements this specification.             *)
(***************************************************************************)
EXTENDS GovernorState

CONSTANTS
    MaxLag,         \* the longest wait between reading the clock and the lock
    Faults,         \* whether a caller may die or give up half-way
    MaxNow,         \* bound: the clock stops here
    MaxIds,         \* bound: how many deliveries are built
    MaxInFlight     \* bound: attempts counted and not recorded

ASSUME EnvironmentAssumption ==
    /\ MaxLag \in Nat
    /\ Faults \in BOOLEAN

VARIABLES
    file,       \* state.json
    now,        \* the wall clock
    ids,        \* how many delivery ids have been drawn
    held,       \* deliveries reserved and not yet sent, requeued or given up
    ordinary,   \* attempts granted with the circuit closed, result pending
    probes      \* attempts granted in HALF_OPEN, result pending

vars == <<file, now, ids, held, ordinary, probes>>

TypeOK ==
    /\ file \in GovernorFile \cup {NoFile}
    /\ now \in Nat
    /\ ids \in Nat
    /\ held \subseteq Delivery
    /\ ordinary \in Nat
    /\ probes \in Nat

Init ==
    /\ file = NoFile
    /\ now = 1
    /\ ids = 0
    /\ held = {}
    /\ ordinary = 0
    /\ probes = 0

-----------------------------------------------------------------------------

\* The clock readings an operation that has the lock now may act on.
Readings == Larger(1, now - MaxLag) .. now

\* A delivery held by a caller that is finished with it, if there is one.
Finishes(done) == done \in {{}} \cup {{d} : d \in held}

\* An attempt is counted: a probe if it was granted in HALF_OPEN.
CountAttempt(probing) ==
    /\ ordinary + probes < MaxInFlight
    /\ IF probing
       THEN probes' = probes + 1 /\ UNCHANGED ordinary
       ELSE ordinary' = ordinary + 1 /\ UNCHANGED probes

AdmitOrQueue(m, target, p) ==
    /\ ids < MaxIds
    /\ \E t \in Readings :
       \E o \in AdmitOutcomes(file, BuildDelivery(ids + 1, m, target, p, t), t) :
          /\ file' = o.state
          /\ ids' = ids + 1
          /\ IF o.allowed THEN CountAttempt(o.status = "HALF_OPEN")
             ELSE UNCHANGED <<ordinary, probes>>
    /\ UNCHANGED <<now, held>>

\* A sender queues again what the transport refused as rate limited.  When the
\* message came from the queue, its reservation ends.
QueueDelivery(m, target, p) ==
    /\ ids < MaxIds
    /\ \E t \in Readings :
       \E o \in QueueOutcomes(file, BuildDelivery(ids + 1, m, target, p, t), t) :
          file' = o.state
    /\ \E done \in SUBSET held : Finishes(done) /\ held' = held \ done
    /\ ids' = ids + 1
    /\ UNCHANGED <<now, ordinary, probes>>

ReserveNextQueued(target) ==
    /\ \E t \in Readings : \E o \in ReserveOutcomes(file, target, t) :
          /\ file' = o.state
          /\ held' = held \cup o.reserved
          /\ IF o.reserved # {} THEN CountAttempt(o.state.status = "HALF_OPEN")
             ELSE UNCHANGED <<ordinary, probes>>
    /\ UNCHANGED <<now, ids>>

RequeueDelivery(d) ==
    /\ \E t \in Readings : file' = RequeueFile(file, d, t)
    /\ held' = held \ {d}
    /\ UNCHANGED <<now, ids, ordinary, probes>>

\* The result of a counted attempt.  A flushed delivery that was sent is done.
RecordResult(result) ==
    /\ \/ ordinary > 0 /\ ordinary' = ordinary - 1 /\ UNCHANGED probes
       \/ probes > 0 /\ probes' = probes - 1 /\ UNCHANGED ordinary
    /\ \E t \in Readings : file' \in RecordOutcomes(file, result, t)
    /\ \E done \in SUBSET held : Finishes(done) /\ held' = held \ done
    /\ UNCHANGED <<now, ids>>

\* GET /status and every poll of it: refreshes the file and saves it.
Status ==
    /\ \E t \in Readings : file' = StatusFile(file, t)
    /\ UNCHANGED <<now, ids, held, ordinary, probes>>

\* A caller dies, or leaves through an exception (a lock timeout), with some
\* attempts not recorded and some reservations not used.
Abandon ==
    /\ Faults
    /\ held' \in SUBSET held
    /\ ordinary' \in 0 .. ordinary
    /\ probes' \in 0 .. probes
    /\ UNCHANGED <<file, now, ids>>

Tick ==
    /\ now < MaxNow
    /\ now' = now + 1
    /\ UNCHANGED <<file, ids, held, ordinary, probes>>

Next ==
    \/ \E m \in Messages, target \in Targets, p \in Priorities :
          AdmitOrQueue(m, target, p) \/ QueueDelivery(m, target, p)
    \/ \E target \in Targets : ReserveNextQueued(target)
    \/ \E d \in held : RequeueDelivery(d)
    \/ \E result \in Results : RecordResult(result)
    \/ Status
    \/ Abandon
    \/ Tick

Spec == Init /\ [][Next]_vars

-----------------------------------------------------------------------------
(* Safety *)

HasFile == file # NoFile
Queue   == IF HasFile THEN file.queue ELSE {}

\* The status of the file tells whether messages wait: a HEALTHY governor has
\* an empty queue and a DRAINING one has not, through refresh (462-488),
\* grants, appends, requeues and results, in any order.
StatusMirrorsQueue ==
    HasFile => /\ file.status = "HEALTHY" => file.queue = {}
               /\ file.status = "DRAINING" => file.queue # {}

\* The circuit is consistent: an OPEN one has an end, a closed one has none
\* left over, a HALF_OPEN one has reached it, and a probe is marked in flight
\* only in HALF_OPEN.
CircuitShape ==
    HasFile => /\ file.status = "OPEN" => file.open_until # None
               /\ file.status = "HALF_OPEN" =>
                     file.open_until # None /\ file.open_until <= now
               /\ file.status \in {"HEALTHY", "DRAINING"} => file.open_until = None
               /\ file.half_open_in_flight => file.status = "HALF_OPEN"

\* While no caller dies, the mark that keeps everyone else out of a HALF_OPEN
\* governor belongs to an attempt whose result is still to be recorded: the
\* governor cannot be blocked by an attempt that is over.
ProbeMarkIsOwned ==
    ~Faults /\ HasFile /\ file.half_open_in_flight => probes > 0

\* No delivery is in two hands: an id is in the queue once, or with the one
\* caller that reserved it, whoever reserves, requeues or expires it meanwhile.
OneOwner ==
    /\ \A d, e \in Queue \cup held : d.id = e.id => d = e
    /\ Queue \cap held = {}

\* A learned capacity never leaves its bounds, and the attempts counted in the
\* window never exceed the largest, whatever shrinks the capacity in between.
BudgetBound ==
    HasFile => /\ Floor <= file.capacity /\ file.capacity <= Ceiling
               /\ file.attempts_in_window <= Ceiling

\* After a rate limit nothing is granted before the backoff is over, whatever
\* late results, polls and old clock readings come in between: a step that
\* counts an attempt finds no circuit end still ahead of the clock.
QuietPeriod ==
    [][ Enabled /\ ordinary' + probes' > ordinary + probes
          => file'.open_until = None \/ file'.open_until <= now ]_vars

\* What decisions and status() tell the callers to wait for is kept: nothing is
\* granted while the governor announces that no slot remains before some time to
\* come, whichever of the callers, clock readings and refreshes came in between.
AnnouncedIsKept ==
    [][ Enabled /\ HasFile /\ ordinary' + probes' > ordinary + probes =>
          LET report == Report(file, now)
          IN  IF report.next_available_at = None
              THEN report.remaining > 0 /\ report.status # "OPEN"
              ELSE report.next_available_at <= now ]_vars

\* Requeues ignore queue_max_size (306-330), yet they overfill the queue only by
\* what was taken out of it: the deliveries in the queue and in hand, together,
\* grow only into the room an admission finds in the queue.
QueueStaysBounded ==
    [][ Cardinality(Queue') + Cardinality(held')
          <= Larger(Cardinality(Queue), QueueMaxSize) + Cardinality(held) ]_vars

\* A queued delivery is never lost inside the governor: it leaves the queue
\* because it expired, because a caller reserved it, or because it was a
\* low-priority one in a full queue.
NothingVanishes ==
    [][ \A d \in Queue \ Queue' :
          \/ d.expires_at <= now
          \/ \E e \in held' \ held : e.id = d.id
          \/ d.priority = "low" /\ Cardinality(Queue) >= QueueMaxSize ]_vars

\* Above the least capacity, the capacity grows only by one, and only for a
\* window that used all of it with messages still waiting and without a rate limit.
GrowthIsEarned ==
    [][ HasFile /\ HasFile' /\ file'.capacity > Larger(MinCapacity, Capacity(file))
          => /\ file'.capacity = Capacity(file) + 1
             /\ file.attempts_in_window >= Capacity(file)
             /\ file.queue # {}
             /\ ~file.window_rate_limited ]_vars

=============================================================================
