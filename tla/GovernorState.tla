---------------------------- MODULE GovernorState ----------------------------
(***************************************************************************)
(* The state file of WeixinDeliveryGovernor (bridge/wechat/governor.py)    *)
(* and what one locked operation does to it: load, refresh, act, save.     *)
(* Every operator is constant-level; the modules that EXTEND this one say  *)
(* who calls the operations, when, and with which clock reading.           *)
(*                                                                         *)
(* The queue is a set of deliveries.  The list order of the file is read   *)
(* only to break ties between deliveries of one priority, one created_at   *)
(* and one attempts count, and such a tie is left open here: an operation  *)
(* that chooses among tied deliveries has one outcome per choice.  Fields  *)
(* of the file that nothing reads back (version, consecutive_failures,     *)
(* last_success_at, last_rate_limited_at) are left out.                    *)
(***************************************************************************)
EXTENDS Integers, FiniteSets

CONSTANTS
    Messages,           \* message texts
    Targets,            \* target_hash values
    Priorities,         \* the priorities in use
    Ttl,                \* priority -> seconds a queued delivery lives
    Enabled,            \* config.enabled
    WindowSeconds, InitialCapacity, MinCapacity, MaxCapacity, QueueMaxSize,
    BaseBackoff, MaxBackoff, BackoffMultiplier, JitterSeconds,
    NoFile,             \* state.json is absent or unreadable
    None                \* JSON null

PriorityNames == {"critical", "high", "normal", "low"}

ASSUME PrioritiesAssumption ==
    /\ Priorities \subseteq PriorityNames
    /\ Ttl \in [Priorities -> Nat]
ASSUME EnabledAssumption == Enabled \in BOOLEAN
ASSUME CapacityAssumption ==
    /\ InitialCapacity \in Nat
    /\ MinCapacity \in Nat
    /\ MaxCapacity \in Nat
ASSUME QueueAssumption == QueueMaxSize \in Nat
ASSUME TimingAssumption ==
    /\ WindowSeconds \in Nat
    /\ BaseBackoff \in Nat
    /\ MaxBackoff \in Nat
    /\ BackoffMultiplier \in Nat
    /\ JitterSeconds \in Nat
ASSUME NoneAssumption == None \notin Nat

Statuses == {"HEALTHY", "OPEN", "HALF_OPEN", "DRAINING"}
Results  == {"ok", "failed", "rate_limited"}

Delivery == [id : Nat, message : Messages, target : Targets,
             priority : Priorities, created_at : Nat, expires_at : Nat,
             attempts : Nat]

GovernorFile == [status : Statuses, capacity : Nat, window_started_at : Nat,
                 attempts_in_window : Nat, window_rate_limited : BOOLEAN,
                 consecutive_rate_limits : Nat, open_until : Nat \cup {None},
                 half_open_in_flight : BOOLEAN, queue : SUBSET Delivery]

ASSUME NoFileAssumption == NoFile \notin GovernorFile

Larger(a, b)  == IF a > b THEN a ELSE b
Smaller(a, b) == IF a < b THEN a ELSE b

-----------------------------------------------------------------------------
(* Loading and refreshing *)

DefaultState(t) ==
    [status                  |-> "HEALTHY",
     capacity                |-> Larger(MinCapacity,
                                        Smaller(InitialCapacity, MaxCapacity)),
     window_started_at       |-> t,
     attempts_in_window      |-> 0,
     window_rate_limited     |-> FALSE,
     consecutive_rate_limits |-> 0,
     open_until              |-> None,
     half_open_in_flight     |-> FALSE,
     queue                   |-> {}]

Load(file, t) == IF file = NoFile THEN DefaultState(t) ELSE file

\* The least and the most a window may ever be granted.  Nothing checks that the
\* configured minimum is below the maximum, and growth stops at the maximum.
Floor   == Smaller(MinCapacity, MaxCapacity)
Ceiling == Larger(MinCapacity, Larger(InitialCapacity, MaxCapacity))

\* `int(state.get("capacity") or initial_capacity)`: a capacity of 0 reads as
\* the initial one.
Capacity(f) == IF f.capacity = 0 THEN InitialCapacity ELSE f.capacity

\* The same `or` makes a window start of 0 read as now.
WindowStart(f, t) == IF f.window_started_at = 0 THEN t ELSE f.window_started_at

WindowElapsed(f, t) == t - WindowStart(f, t) >= WindowSeconds

\* Mutants: growth for a full window nobody waits behind; growth past the
\* largest capacity.
LearnedCapacity_NobodyWaits(f) ==
    IF f.window_rate_limited THEN Larger(MinCapacity, Capacity(f) - 1)
    ELSE IF f.attempts_in_window >= Capacity(f)
         THEN Smaller(MaxCapacity, Capacity(f) + 1)
         ELSE Capacity(f)
LearnedCapacity_NoCeiling(f) ==
    IF f.window_rate_limited THEN Larger(MinCapacity, Capacity(f) - 1)
    ELSE IF f.attempts_in_window >= Capacity(f) /\ f.queue # {}
         THEN Capacity(f) + 1
         ELSE Capacity(f)

LearnedCapacity(f) ==
    IF f.window_rate_limited THEN Larger(MinCapacity, Capacity(f) - 1)
    ELSE IF f.attempts_in_window >= Capacity(f) /\ f.queue # {}
         THEN Smaller(MaxCapacity, Capacity(f) + 1)
         ELSE Capacity(f)

\* Mutants: the new window keeps its predecessor's start, or its attempts.
RollWindow_KeepsStart(f, t) ==
    IF WindowElapsed(f, t)
    THEN [f EXCEPT !.capacity            = LearnedCapacity(f),
                   !.attempts_in_window  = 0,
                   !.window_rate_limited = FALSE]
    ELSE f
RollWindow_KeepsAttempts(f, t) ==
    IF WindowElapsed(f, t)
    THEN [f EXCEPT !.capacity            = LearnedCapacity(f),
                   !.window_started_at   = t,
                   !.window_rate_limited = FALSE]
    ELSE f

RollWindow(f, t) ==
    IF WindowElapsed(f, t)
    THEN [f EXCEPT !.capacity            = LearnedCapacity(f),
                   !.window_started_at   = t,
                   !.attempts_in_window  = 0,
                   !.window_rate_limited = FALSE]
    ELSE f

\* Mutant: a delivery expires a second early.
Unexpired_Early(q, t) == {d \in q : d.expires_at > t + 1}

Unexpired(q, t) == {d \in q : d.expires_at > t}

\* Mutant: the end of the circuit is met a second early.
BackoffOver_Early(f, t) ==
    f.status = "OPEN" /\ f.open_until # None /\ t + 1 >= f.open_until

BackoffOver(f, t) == f.status = "OPEN" /\ f.open_until # None /\ t >= f.open_until

\* Mutant: a status nobody knows.
HalfOpenIfDue_Misspelt(f, t) ==
    IF BackoffOver(f, t)
    THEN [f EXCEPT !.status = "HALF-OPEN", !.half_open_in_flight = FALSE]
    ELSE f

HalfOpenIfDue(f, t) ==
    IF BackoffOver(f, t)
    THEN [f EXCEPT !.status = "HALF_OPEN", !.half_open_in_flight = FALSE]
    ELSE f

HealthyIfDrained(f) ==
    IF f.status = "DRAINING" /\ f.queue = {}
    THEN [f EXCEPT !.status = "HEALTHY"]
    ELSE f

Refresh(f, t) ==
    LET rolled == RollWindow(f, t)
        pruned == [rolled EXCEPT !.queue = Unexpired(rolled.queue, t)]
    IN  HealthyIfDrained(HalfOpenIfDue(pruned, t))

EffectiveStatus(f, t) ==
    IF BackoffOver(f, t) THEN "HALF_OPEN"
    ELSE IF f.status = "HEALTHY" /\ f.queue # {} THEN "DRAINING"
    ELSE f.status

\* Mutant: one attempt more than the capacity.
CanAttempt_OneMore(f, t) ==
    LET status == EffectiveStatus(f, t)
    IN  /\ status # "OPEN"
        /\ f.attempts_in_window <= Capacity(f)
        /\ ~(status = "HALF_OPEN" /\ f.half_open_in_flight)

CanAttempt(f, t) ==
    LET status == EffectiveStatus(f, t)
    IN  /\ status # "OPEN"
        /\ f.attempts_in_window < Capacity(f)
        /\ ~(status = "HALF_OPEN" /\ f.half_open_in_flight)

\* When the next attempt can be granted, as far as the file tells: None is now.
NextAvailableAt(f, t) ==
    IF EffectiveStatus(f, t) = "OPEN" /\ f.open_until # None THEN f.open_until
    ELSE IF f.attempts_in_window >= Capacity(f)
         THEN WindowStart(f, t) + WindowSeconds
         ELSE None

\* What every decision and every answer of status() say of the governor.
Report(f, t) ==
    [status            |-> EffectiveStatus(f, t),
     remaining         |-> Larger(0, Capacity(f) - f.attempts_in_window),
     queue_size        |-> Cardinality(f.queue),
     next_available_at |-> NextAvailableAt(f, t)]

\* What admit_or_queue and reserve_next_queued both do to count an attempt.
Granted(f, t) ==
    LET probing == EffectiveStatus(f, t) = "HALF_OPEN"
    IN  [f EXCEPT !.status = IF probing THEN "HALF_OPEN"
                             ELSE IF f.queue # {} THEN "DRAINING" ELSE "HEALTHY",
                  !.attempts_in_window  = @ + 1,
                  !.half_open_in_flight = IF probing THEN TRUE ELSE @]

-----------------------------------------------------------------------------
(* The queue *)

Rank(p) == CASE p = "critical" -> 100 [] p = "high" -> 75
             [] p = "normal" -> 50   [] p = "low" -> 25

\* _queue_sort_key: the higher priority, then the older, then the less tried.
SortsBefore(d, e) ==
    \/ Rank(d.priority) > Rank(e.priority)
    \/ /\ d.priority = e.priority
       /\ \/ d.created_at < e.created_at
          \/ d.created_at = e.created_at /\ d.attempts < e.attempts

BuildDelivery(id, m, target, p, t) ==
    [id |-> id, message |-> m, target |-> target, priority |-> p,
     created_at |-> t, expires_at |-> t + Ttl[p], attempts |-> 0]

\* Mutant: the status is not told of the delivery.
Enqueued_KeepsStatus(f, q) == [f EXCEPT !.queue = q]

\* A delivery put into the queue turns a HEALTHY governor into a DRAINING one.
Enqueued(f, q) ==
    [f EXCEPT !.queue = q, !.status = IF @ = "HEALTHY" THEN "DRAINING" ELSE @]

\* reserve_next_queued takes out every delivery with the reserved one's id.
\* Mutant: it looks for the copy it hands out, which counts one attempt more.
TakenOut_SearchesCopy(f, d) ==
    [f EXCEPT !.queue = @ \ {[d EXCEPT !.attempts = @ + 1]}]
TakenOut(f, d) == [f EXCEPT !.queue = {e \in @ : e.id # d.id}]

\* Mutants: room for one more than the limit, and for one less.
Room_OffByOne(q) == Cardinality(q) <= QueueMaxSize
Room_CountsNew(q) == Cardinality(q) + 1 < QueueMaxSize
Room(q) == Cardinality(q) < QueueMaxSize

\* The low-priority deliveries that may sort last.
\* Mutant: whatever sorts last may be dropped.
Evictable_AnyPriority(q) == {d \in q : \A e \in q : ~SortsBefore(d, e)}
Evictable(q) ==
    LET low == {d \in q : d.priority = "low"}
    IN  {d \in low : \A e \in low : ~SortsBefore(d, e)}

\* _append_to_queue: when the queue is full the last low-priority delivery
\* makes room, and without one the new delivery is refused.
AppendOutcomes(f, d, t) ==
    LET live == Unexpired(f.queue, t)
    IN  IF Room(live)
        THEN {[queued |-> TRUE, state |-> Enqueued(f, live \cup {d})]}
        ELSE IF Evictable(live) = {}
        THEN {[queued |-> FALSE, state |-> [f EXCEPT !.queue = live]]}
        ELSE {[queued |-> TRUE,
               state  |-> Enqueued(f, (live \ {e}) \cup {d})] : e \in Evictable(live)}

-----------------------------------------------------------------------------
(* The locked operations: the possible replies, each with the saved file *)

AdmitOutcomes(file, d, t) ==
    LET f == Refresh(Load(file, t), t)
    IN  IF ~Enabled
        THEN {[allowed |-> TRUE, queued |-> FALSE, status |-> "HEALTHY",
               state |-> file]}
        ELSE IF CanAttempt(f, t)
        THEN {[allowed |-> TRUE, queued |-> FALSE,
               status  |-> EffectiveStatus(Granted(f, t), t),
               state   |-> Granted(f, t)]}
        ELSE {[allowed |-> FALSE, queued |-> o.queued,
               status  |-> EffectiveStatus(o.state, t),
               state   |-> o.state] : o \in AppendOutcomes(f, d, t)}

QueueOutcomes(file, d, t) == AppendOutcomes(Refresh(Load(file, t), t), d, t)

\* reserve_next_queued gives back no delivery ({}) or the one it took out.
ReserveOutcomes(file, target, t) ==
    LET f        == Refresh(Load(file, t), t)
        matching == {d \in f.queue : d.target = target}
        first    == {d \in matching : \A e \in matching : ~SortsBefore(e, d)}
    IN  IF ~CanAttempt(f, t) \/ matching = {}
        THEN {[reserved |-> {}, state |-> f]}
        ELSE {[reserved |-> {[d EXCEPT !.attempts = @ + 1]},
               state    |-> Granted(TakenOut(f, d), t)] : d \in first}

\* requeue_delivery returns before it takes the lock when d has expired, and
\* puts d back whatever the size of the queue.
RequeueFile(file, d, t) ==
    LET f == Refresh(Load(file, t), t)
    IN  IF d.expires_at <= t THEN file
        ELSE Enqueued(f, {e \in f.queue : e.id # d.id} \cup {d})

\* The delays min(max, base * mult^(n-1)) + uniform(0, jitter) can take.
BackoffDelays(n) ==
    LET raw     == BaseBackoff * BackoffMultiplier ^ Larger(0, n - 1)
        bounded == Smaller(MaxBackoff, raw)
    IN  {s \in 0 .. (MaxBackoff + JitterSeconds) :
            bounded <= s /\ s <= bounded + JitterSeconds}

Tripped(f, open_until) ==
    [f EXCEPT !.consecutive_rate_limits = @ + 1,
              !.window_rate_limited     = TRUE,
              !.status                  = "OPEN",
              !.open_until              = open_until,
              !.half_open_in_flight     = FALSE,
              !.capacity =
                  Larger(MinCapacity,
                         Smaller(Capacity(f) - 1,
                                 (IF f.capacity = 0 THEN 1 ELSE f.capacity) \div 2))]

Reopened(f, open_until) ==
    [f EXCEPT !.status = "OPEN", !.open_until = open_until,
              !.half_open_in_flight = FALSE]

\* Mutants: the circuit closes with its end, or with its probe mark, left set.
Closed_KeepsEnd(f) ==
    [f EXCEPT !.status = IF f.queue # {} THEN "DRAINING" ELSE "HEALTHY",
              !.consecutive_rate_limits = 0,
              !.half_open_in_flight     = FALSE]
Closed_KeepsMark(f) ==
    [f EXCEPT !.status = IF f.queue # {} THEN "DRAINING" ELSE "HEALTHY",
              !.consecutive_rate_limits = 0,
              !.open_until              = None]

Closed(f) ==
    [f EXCEPT !.status = IF f.queue # {} THEN "DRAINING" ELSE "HEALTHY",
              !.consecutive_rate_limits = 0,
              !.open_until              = None,
              !.half_open_in_flight     = FALSE]

RecordOutcomes(file, result, t) ==
    LET f == Refresh(Load(file, t), t)
        n == f.consecutive_rate_limits
    IN  CASE result = "rate_limited" ->
               {Tripped(f, t + s) : s \in BackoffDelays(n + 1)}
          [] result = "ok" ->
               {IF f.status = "HALF_OPEN" THEN Closed(f) ELSE HealthyIfDrained(f)}
          [] result = "failed" ->
               IF f.status = "HALF_OPEN"
               THEN {Reopened(f, t + s) : s \in BackoffDelays(Larger(n, 1))}
               ELSE {f}

StatusFile(file, t) == Refresh(Load(file, t), t)

=============================================================================
