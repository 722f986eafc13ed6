-------------------------- MODULE GovernorStateProofs --------------------------
(***************************************************************************)
(* What one locked operation does to a state file, for every configuration *)
(* and every clock reading: it keeps the types, it keeps a coherent circuit *)
(* coherent, it counts attempts within the budget, and it moves deliveries *)
(* in and out of the queue in three ways only.  Constant-level lemmas, for *)
(* the modules that say who calls the operations.                          *)
(***************************************************************************)
EXTENDS GovernorState, FiniteSetTheorems, TLAPS

USE DEF GovernorFile, Statuses

\* A file whose status, queue and circuit agree at time n.
Coherent(f, n) ==
    /\ f.status = "HEALTHY" => f.queue = {}
    /\ f.status = "DRAINING" => f.queue # {}
    /\ f.status = "OPEN" => f.open_until # None
    /\ f.status = "HALF_OPEN" => f.open_until # None /\ f.open_until <= n
    /\ f.status \in {"HEALTHY", "DRAINING"} => f.open_until = None
    /\ f.half_open_in_flight => f.status = "HALF_OPEN"

-----------------------------------------------------------------------------
(* Loading and refreshing *)

LEMMA DefaultType ==
    ASSUME NEW t \in Nat
    PROVE  DefaultState(t) \in GovernorFile
BY CapacityAssumption DEF DefaultState, Larger, Smaller

LEMMA CapacityType ==
    ASSUME NEW f \in GovernorFile
    PROVE  Capacity(f) \in Nat
BY CapacityAssumption DEF Capacity

LEMMA RollWindowType ==
    ASSUME NEW f \in GovernorFile, NEW t \in Nat
    PROVE  /\ RollWindow(f, t) \in GovernorFile
           /\ \A n \in Nat : Coherent(f, n) => Coherent(RollWindow(f, t), n)
<1>1. LearnedCapacity(f) \in Nat
  BY CapacityType, CapacityAssumption DEF LearnedCapacity, Larger, Smaller
<1>2. QED BY <1>1 DEF RollWindow, Coherent

\* What a refresh does to the fields the circuit is made of.
LEMMA RefreshType ==
    ASSUME NEW f \in GovernorFile, NEW t \in Nat
    PROVE  Refresh(f, t) \in GovernorFile
<1>1. RollWindow(f, t) \in GovernorFile
  BY RollWindowType
<1>2. [RollWindow(f, t) EXCEPT !.queue = Unexpired(RollWindow(f, t).queue, t)]
         \in GovernorFile
  BY <1>1 DEF Unexpired
<1>3. QED BY <1>2 DEF Refresh, HalfOpenIfDue, HealthyIfDrained

LEMMA LoadType ==
    ASSUME NEW g \in GovernorFile \cup {NoFile}, NEW t \in Nat
    PROVE  Load(g, t) \in GovernorFile
BY DefaultType DEF Load

\* A refresh may leave the queue of a HEALTHY governor empty only, wakes an OPEN
\* one whose time has come, and settles a drained one.
LEMMA RefreshCoherent ==
    ASSUME NEW f \in GovernorFile, NEW t \in Nat, NEW n \in Nat, t <= n,
           Coherent(f, n)
    PROVE  /\ Coherent(Refresh(f, t), n)
           /\ Refresh(f, t).half_open_in_flight => f.half_open_in_flight
           /\ Refresh(f, t).status = "OPEN" => Refresh(f, t).open_until > t
<1> DEFINE r == RollWindow(f, t)
           p == [r EXCEPT !.queue = Unexpired(r.queue, t)]
           h == HalfOpenIfDue(p, t)
<1>1. r \in GovernorFile /\ Coherent(r, n) /\ r.half_open_in_flight = f.half_open_in_flight
  BY RollWindowType DEF RollWindow
<1>2. p \in GovernorFile
  BY <1>1 DEF Unexpired
<1>3. /\ p.status = r.status /\ p.open_until = r.open_until
      /\ p.half_open_in_flight = r.half_open_in_flight
      /\ p.status = "HEALTHY" => p.queue = {}
  BY <1>1 DEF Unexpired, Coherent
<1> HIDE DEF r, p
<1>4. /\ h \in GovernorFile
      /\ h.status = "OPEN" => h.open_until # None /\ h.open_until > t
      /\ h.status = "HALF_OPEN" => h.open_until # None /\ h.open_until <= n
      /\ h.status \in {"HEALTHY", "DRAINING"} => h.open_until = None
      /\ h.half_open_in_flight => h.status = "HALF_OPEN" /\ p.half_open_in_flight
      /\ h.status = "HEALTHY" => h.queue = {}
  <2>1. p.open_until \in Nat \cup {None} /\ p.status \in Statuses
    BY <1>2
  <2>2. CASE BackoffOver(p, t)
    <3>1. /\ h.status = "HALF_OPEN" /\ h.half_open_in_flight = FALSE
          /\ h.open_until = p.open_until /\ h \in GovernorFile
      BY <1>2, <2>2 DEF HalfOpenIfDue
    <3>2. p.open_until # None /\ p.open_until <= n
      BY <2>1, <2>2 DEF BackoffOver
    <3>3. QED BY <3>1, <3>2
  <2>3. CASE ~BackoffOver(p, t)
    <3>1. h = p
      BY <2>3 DEF HalfOpenIfDue
    <3>2. p.status = "OPEN" => p.open_until # None /\ p.open_until > t
      BY <1>1, <1>3, <2>1, <2>3 DEF BackoffOver, Coherent
    <3>3. QED BY <1>1, <1>2, <1>3, <3>1, <3>2 DEF Coherent
  <2>4. QED BY <2>2, <2>3
<1>5. Refresh(f, t) = HealthyIfDrained(h)
  BY DEF Refresh, r, p, h
<1> HIDE DEF h
<1>6. QED BY <1>1, <1>3, <1>4, <1>5 DEF HealthyIfDrained, Coherent

\* A file that no operation has saved yet reads as a coherent one.
LEMMA LoadCoherent ==
    ASSUME NEW g \in GovernorFile \cup {NoFile}, NEW t \in Nat, NEW n \in Nat,
           g # NoFile => Coherent(g, n)
    PROVE  /\ Load(g, t) \in GovernorFile
           /\ Coherent(Load(g, t), n)
           /\ Load(g, t).half_open_in_flight => g # NoFile /\ g.half_open_in_flight
BY LoadType DEF Load, DefaultState, Coherent

-----------------------------------------------------------------------------
(* Grants *)

\* A grant is refused by an OPEN circuit and marked in HALF_OPEN, so after it
\* no circuit end lies ahead.
LEMMA GrantCoherent ==
    ASSUME NEW f \in GovernorFile, NEW t \in Nat, NEW n \in Nat, t <= n,
           Coherent(f, n), f.status = "OPEN" => f.open_until > t,
           NEW q \in SUBSET Delivery, f.queue = {} => q = {},
           CanAttempt(f, t)
    PROVE  LET g == Granted([f EXCEPT !.queue = q], t)
           IN  /\ g \in GovernorFile
               /\ Coherent(g, n)
               /\ g.open_until = None \/ g.open_until <= n
               /\ g.half_open_in_flight <=> g.status = "HALF_OPEN"
               /\ f.half_open_in_flight => FALSE
<1> DEFINE e == [f EXCEPT !.queue = q]
           g == Granted(e, t)
<1>1. f.open_until \in Nat \cup {None} /\ f.status \in Statuses
      /\ f.attempts_in_window \in Nat /\ f.half_open_in_flight \in BOOLEAN
  OBVIOUS
<1>2. ~BackoffOver(f, t)
  BY <1>1 DEF BackoffOver
<1>3. f.status # "OPEN" /\ ~f.half_open_in_flight
  BY <1>1, <1>2 DEF CanAttempt, EffectiveStatus, Coherent
<1>4. e \in GovernorFile /\ e.queue = q /\ e.status = f.status
      /\ e.open_until = f.open_until /\ e.half_open_in_flight = f.half_open_in_flight
      /\ e.attempts_in_window = f.attempts_in_window
  OBVIOUS
<1>5. ~BackoffOver(e, t)
  BY <1>2, <1>4 DEF BackoffOver
<1>6. EffectiveStatus(e, t) = "HALF_OPEN" <=> f.status = "HALF_OPEN"
  BY <1>4, <1>5 DEF EffectiveStatus
<1> HIDE DEF e
<1>7. /\ g \in GovernorFile
      /\ g.open_until = f.open_until
      /\ g.queue = q
      /\ g.half_open_in_flight <=> f.status = "HALF_OPEN"
      /\ g.status = IF f.status = "HALF_OPEN" THEN "HALF_OPEN"
                    ELSE IF q # {} THEN "DRAINING" ELSE "HEALTHY"
  <2> DEFINE k == e.attempts_in_window + 1
  <2>1. k \in Nat
    BY <1>1, <1>4
  <2>2. g = [e EXCEPT !.status = IF f.status = "HALF_OPEN" THEN "HALF_OPEN"
                                 ELSE IF q # {} THEN "DRAINING" ELSE "HEALTHY",
                      !.attempts_in_window = k,
                      !.half_open_in_flight =
                          IF f.status = "HALF_OPEN" THEN TRUE ELSE FALSE]
    BY <1>3, <1>4, <1>6 DEF Granted
  <2> HIDE DEF g, k
  <2>3. QED BY <1>4, <2>1, <2>2
<1>8. QED BY <1>1, <1>3, <1>7 DEF Coherent, e

-----------------------------------------------------------------------------
(* The queue *)

LEMMA BuildType ==
    ASSUME NEW id \in Nat, NEW m \in Messages, NEW u \in Targets,
           NEW p \in Priorities, NEW t \in Nat
    PROVE  BuildDelivery(id, m, u, p, t) \in Delivery
<1>1. Ttl[p] \in Nat
  BY PrioritiesAssumption
<1>2. QED BY <1>1 DEF BuildDelivery, Delivery

LEMMA EnqueuedCoherent ==
    ASSUME NEW f \in GovernorFile, NEW n \in Nat, Coherent(f, n),
           NEW q \in SUBSET Delivery, q # {}
    PROVE  /\ Enqueued(f, q) \in GovernorFile
           /\ Coherent(Enqueued(f, q), n)
           /\ Enqueued(f, q).half_open_in_flight = f.half_open_in_flight
           /\ Enqueued(f, q).queue = q
BY DEF Enqueued, Coherent

LEMMA AppendCoherent ==
    ASSUME NEW f \in GovernorFile, NEW t \in Nat, NEW n \in Nat, Coherent(f, n),
           f.queue = Unexpired(f.queue, t),
           NEW d \in Delivery, NEW o \in AppendOutcomes(f, d, t)
    PROVE  /\ o.state \in GovernorFile
           /\ Coherent(o.state, n)
           /\ o.state.half_open_in_flight = f.half_open_in_flight
<1> DEFINE live == Unexpired(f.queue, t)
<1>1. live \subseteq Delivery
  BY DEF Unexpired
<1>2. CASE \E q \in SUBSET Delivery : q # {} /\ o.state = Enqueued(f, q)
  BY <1>2, EnqueuedCoherent
<1>3. CASE o.state = [f EXCEPT !.queue = live]
  BY <1>1, <1>3 DEF Coherent
<1>4. \/ o.state = Enqueued(f, live \cup {d})
      \/ o.state = [f EXCEPT !.queue = live]
      \/ \E e \in Evictable(live) : o.state = Enqueued(f, (live \ {e}) \cup {d})
  <2> DEFINE refusal == [queued |-> FALSE, state |-> [f EXCEPT !.queue = live]]
             taken(q) == [queued |-> TRUE, state |-> Enqueued(f, q)]
  <2>1. \A q : taken(q).state = Enqueued(f, q)
    OBVIOUS
  <2>2. refusal.state = [f EXCEPT !.queue = live]
    OBVIOUS
  <2>3. AppendOutcomes(f, d, t) =
           IF Room(live) THEN {taken(live \cup {d})}
           ELSE IF Evictable(live) = {} THEN {refusal}
           ELSE {taken((live \ {e}) \cup {d}) : e \in Evictable(live)}
    BY DEF AppendOutcomes
  <2> HIDE DEF live, refusal, taken
  <2>4. QED BY <2>1, <2>2, <2>3
<1>5. QED BY <1>1, <1>2, <1>3, <1>4

LEMMA RefreshPrunes ==
    ASSUME NEW f \in GovernorFile, NEW t \in Nat
    PROVE  /\ Refresh(f, t).queue = Unexpired(f.queue, t)
           /\ Refresh(f, t).queue = Unexpired(Refresh(f, t).queue, t)
<1> DEFINE r == RollWindow(f, t)
           p == [r EXCEPT !.queue = Unexpired(r.queue, t)]
           h == HalfOpenIfDue(p, t)
<1>1. r \in GovernorFile /\ r.queue = f.queue
  BY RollWindowType DEF RollWindow
<1> HIDE DEF r
<1>2. p \in GovernorFile /\ p.queue = Unexpired(f.queue, t)
  BY <1>1 DEF Unexpired
<1> HIDE DEF p
<1>3. h \in GovernorFile /\ h.queue = p.queue
  BY <1>2 DEF HalfOpenIfDue
<1> HIDE DEF h
<1>4. HealthyIfDrained(h).queue = h.queue
  BY <1>3 DEF HealthyIfDrained
<1>5. Refresh(f, t) = HealthyIfDrained(h)
  BY DEF Refresh, r, p, h
<1>6. QED BY <1>2, <1>3, <1>4, <1>5 DEF Unexpired

-----------------------------------------------------------------------------
(* The operations *)

\* No refresh moves a HALF_OPEN governor or drops its mark.
LEMMA RefreshKeepsHalfOpen ==
    ASSUME NEW f \in GovernorFile, NEW t \in Nat, f.status = "HALF_OPEN"
    PROVE  /\ Refresh(f, t).status = "HALF_OPEN"
           /\ Refresh(f, t).half_open_in_flight = f.half_open_in_flight
<1> DEFINE r == RollWindow(f, t)
           p == [r EXCEPT !.queue = Unexpired(r.queue, t)]
<1>1. r \in GovernorFile /\ r.status = f.status /\ r.half_open_in_flight = f.half_open_in_flight
  BY RollWindowType DEF RollWindow
<1> HIDE DEF r
<1>2. p.status = f.status /\ p.half_open_in_flight = f.half_open_in_flight
  BY <1>1
<1> HIDE DEF p
<1>3. HalfOpenIfDue(p, t) = p /\ HealthyIfDrained(p) = p
  BY <1>2 DEF HalfOpenIfDue, BackoffOver, HealthyIfDrained
<1>4. QED BY <1>2, <1>3 DEF Refresh, r, p

\* A probe is on its way in the governor of state g.
Probing(g) == g # NoFile /\ g.status = "HALF_OPEN" /\ g.half_open_in_flight

\* What every operation starts from: the loaded and refreshed file.
LEMMA Refreshed ==
    ASSUME NEW g \in GovernorFile \cup {NoFile}, NEW t \in Nat, NEW n \in Nat, t <= n,
           g # NoFile => Coherent(g, n)
    PROVE  LET f == Refresh(Load(g, t), t)
           IN  /\ f \in GovernorFile
               /\ Coherent(f, n)
               /\ f.half_open_in_flight <=> Probing(g)
               /\ f.status = "OPEN" => f.open_until > t
               /\ f.queue = Unexpired(f.queue, t)
<1> DEFINE l == Load(g, t)
           f == Refresh(l, t)
<1>1. l \in GovernorFile /\ Coherent(l, n)
  BY LoadCoherent
<1>2. l.half_open_in_flight <=> Probing(g)
  BY DEF Load, DefaultState, Probing, Coherent
<1>3. Probing(g) => l.status = "HALF_OPEN"
  BY DEF Load, Probing
<1> HIDE DEF l
<1>4. /\ f \in GovernorFile
      /\ Coherent(f, n)
      /\ f.half_open_in_flight => l.half_open_in_flight
      /\ f.status = "OPEN" => f.open_until > t
      /\ f.queue = Unexpired(f.queue, t)
  BY <1>1, RefreshType, RefreshCoherent, RefreshPrunes
<1>5. Probing(g) => f.half_open_in_flight
  BY <1>1, <1>2, <1>3, RefreshKeepsHalfOpen
<1> HIDE DEF f
<1>6. QED BY <1>2, <1>4, <1>5 DEF f, l

\* What holds of the file when an operation with clock reading t ends: it is
\* coherent, and a probe is marked only if one was or one is granted now.
LEMMA AdmitCoherent ==
    ASSUME NEW g \in GovernorFile \cup {NoFile}, NEW t \in Nat, NEW n \in Nat, t <= n,
           g # NoFile => Coherent(g, n),
           NEW d \in Delivery, NEW o \in AdmitOutcomes(g, d, t)
    PROVE  /\ o.state \in GovernorFile \cup {NoFile}
           /\ o.state # NoFile => Coherent(o.state, n)
           /\ Probing(g) => Probing(o.state)
           /\ Probing(o.state) => Probing(g) \/ (o.allowed /\ o.status = "HALF_OPEN")
           /\ Enabled /\ o.allowed =>
                 /\ o.state.open_until = None \/ o.state.open_until <= n
                 /\ ~Probing(g)
<1> DEFINE f == Refresh(Load(g, t), t)
<1>1. /\ f \in GovernorFile
      /\ Coherent(f, n)
      /\ f.half_open_in_flight <=> Probing(g)
      /\ f.status = "OPEN" => f.open_until > t
      /\ f.queue = Unexpired(f.queue, t)
  BY Refreshed
<1> HIDE DEF f
<1>2. CASE ~Enabled
  <2>1. o.state = g /\ o.allowed = TRUE
    BY <1>2 DEF AdmitOutcomes
  <2>2. QED BY <1>2, <2>1
<1>3. CASE Enabled /\ CanAttempt(f, t)
  <2> DEFINE e == Granted(f, t)
  <2>1. o.allowed = TRUE /\ o.status = EffectiveStatus(e, t) /\ o.state = e
    BY <1>3 DEF AdmitOutcomes, f
  <2>2. /\ e \in GovernorFile
        /\ Coherent(e, n)
        /\ e.open_until = None \/ e.open_until <= n
        /\ e.half_open_in_flight <=> e.status = "HALF_OPEN"
        /\ ~f.half_open_in_flight
    <3>1. [f EXCEPT !.queue = f.queue] = f /\ f.queue \in SUBSET Delivery
      BY <1>1
    <3>2. QED BY <1>1, <1>3, <3>1, GrantCoherent
  <2> HIDE DEF e
  <2>3. e.status = "HALF_OPEN" => EffectiveStatus(e, t) = "HALF_OPEN"
    BY DEF EffectiveStatus
  <2>4. QED BY <1>1, <2>1, <2>2, <2>3, NoFileAssumption DEF Probing
<1>4. CASE Enabled /\ ~CanAttempt(f, t)
  <2>1. PICK a \in AppendOutcomes(f, d, t) : o.allowed = FALSE /\ o.state = a.state
    BY <1>4 DEF AdmitOutcomes, f
  <2>2. /\ a.state \in GovernorFile
        /\ Coherent(a.state, n)
        /\ a.state.half_open_in_flight = f.half_open_in_flight
    BY <1>1, AppendCoherent
  <2>3. QED BY <1>1, <2>1, <2>2, NoFileAssumption DEF Probing, Coherent
<1>5. QED BY <1>2, <1>3, <1>4

LEMMA QueueCoherent ==
    ASSUME NEW g \in GovernorFile \cup {NoFile}, NEW t \in Nat, NEW n \in Nat, t <= n,
           g # NoFile => Coherent(g, n),
           NEW d \in Delivery, NEW o \in QueueOutcomes(g, d, t)
    PROVE  /\ o.state \in GovernorFile
           /\ Coherent(o.state, n)
           /\ Probing(o.state) <=> Probing(g)
<1> DEFINE f == Refresh(Load(g, t), t)
<1>1. /\ f \in GovernorFile
      /\ Coherent(f, n)
      /\ f.half_open_in_flight <=> Probing(g)
      /\ f.queue = Unexpired(f.queue, t)
  BY Refreshed
<1> HIDE DEF f
<1>2. /\ o.state \in GovernorFile
      /\ Coherent(o.state, n)
      /\ o.state.half_open_in_flight = f.half_open_in_flight
  BY <1>1, AppendCoherent DEF QueueOutcomes, f
<1>3. QED BY <1>1, <1>2, NoFileAssumption DEF Probing, Coherent

LEMMA ReserveCoherent ==
    ASSUME NEW g \in GovernorFile \cup {NoFile}, NEW t \in Nat, NEW n \in Nat, t <= n,
           g # NoFile => Coherent(g, n),
           NEW u \in Targets, NEW o \in ReserveOutcomes(g, u, t)
    PROVE  /\ o.state \in GovernorFile
           /\ Coherent(o.state, n)
           /\ o.reserved \subseteq Delivery
           /\ Probing(g) => Probing(o.state)
           /\ Probing(o.state) => Probing(g) \/ (o.reserved # {} /\ o.state.status = "HALF_OPEN")
           /\ o.reserved # {} =>
                 /\ o.state.open_until = None \/ o.state.open_until <= n
                 /\ ~Probing(g)
<1> DEFINE f == Refresh(Load(g, t), t)
           matching == {d \in f.queue : d.target = u}
           Left(d) == {e \in f.queue : e.id # d.id}
<1>1. /\ f \in GovernorFile
      /\ Coherent(f, n)
      /\ f.half_open_in_flight <=> Probing(g)
      /\ f.status = "OPEN" => f.open_until > t
  BY Refreshed
<1>2. CASE o = [reserved |-> {}, state |-> f]
  BY <1>1, <1>2, NoFileAssumption DEF Probing, Coherent
<1>3. CASE /\ CanAttempt(f, t)
           /\ \E d \in f.queue :
                 o = [reserved |-> {[d EXCEPT !.attempts = @ + 1]},
                      state |-> Granted([f EXCEPT !.queue = Left(d)], t)]
  <2>1. PICK d \in f.queue :
           o = [reserved |-> {[d EXCEPT !.attempts = @ + 1]},
                state |-> Granted([f EXCEPT !.queue = Left(d)], t)]
    BY <1>3
  <2> HIDE DEF f
  <2>2. d \in Delivery
    BY <1>1
  <2>3. o.reserved \subseteq Delivery /\ o.reserved # {}
    <3>1. d.attempts + 1 \in Nat
      BY <2>2 DEF Delivery
    <3> DEFINE k == d.attempts + 1
    <3>2. o.reserved = {[d EXCEPT !.attempts = k]}
      BY <2>1
    <3> HIDE DEF k
    <3>3. [d EXCEPT !.attempts = k] \in Delivery
      BY <2>2, <3>1 DEF Delivery, k
    <3>4. QED BY <3>2, <3>3
  <2>4. Left(d) \in SUBSET Delivery /\ (f.queue = {} => Left(d) = {})
    BY <1>1
  <2> DEFINE q == Left(d)
             e == Granted([f EXCEPT !.queue = q], t)
  <2>5. /\ e \in GovernorFile
        /\ Coherent(e, n)
        /\ e.open_until = None \/ e.open_until <= n
        /\ e.half_open_in_flight <=> e.status = "HALF_OPEN"
        /\ ~f.half_open_in_flight
    <3>1. q \in SUBSET Delivery /\ (f.queue = {} => q = {}) /\ CanAttempt(f, t)
      BY <1>3, <2>4
    <3> HIDE DEF q
    <3>2. QED BY <1>1, <3>1, GrantCoherent, SMTT(60)
  <2>6. o.state = e
    BY <2>1
  <2> HIDE DEF e
  <2>7. QED BY <1>1, <2>3, <2>5, <2>6, NoFileAssumption DEF Probing
<1>4. \A d : TakenOut(f, d) = [f EXCEPT !.queue = Left(d)]
  BY <1>1 DEF TakenOut
<1>5. QED BY <1>2, <1>3, <1>4, ZenonT(60) DEF ReserveOutcomes

LEMMA RequeueCoherent ==
    ASSUME NEW g \in GovernorFile \cup {NoFile}, NEW t \in Nat, NEW n \in Nat, t <= n,
           g # NoFile => Coherent(g, n), NEW d \in Delivery
    PROVE  LET h == RequeueFile(g, d, t)
           IN  /\ h \in GovernorFile \cup {NoFile}
               /\ h # NoFile => Coherent(h, n)
               /\ Probing(h) <=> Probing(g)
<1> DEFINE f == Refresh(Load(g, t), t)
           q == {e \in f.queue : e.id # d.id} \cup {d}
<1>1. /\ f \in GovernorFile
      /\ Coherent(f, n)
      /\ f.half_open_in_flight <=> Probing(g)
  BY Refreshed
<1> HIDE DEF f
<1>2. q \in SUBSET Delivery /\ q # {}
  BY <1>1
<1>3. RequeueFile(g, d, t) = IF d.expires_at <= t THEN g ELSE Enqueued(f, q)
  BY DEF RequeueFile, f
<1> HIDE DEF q
<1>4. /\ Enqueued(f, q) \in GovernorFile
      /\ Coherent(Enqueued(f, q), n)
      /\ Enqueued(f, q).half_open_in_flight = f.half_open_in_flight
  BY <1>1, <1>2, EnqueuedCoherent
<1>5. CASE d.expires_at <= t
  BY <1>3, <1>5
<1>6. CASE ~(d.expires_at <= t)
  BY <1>1, <1>3, <1>4, <1>6, NoFileAssumption DEF Probing, Coherent
<1>7. QED BY <1>5, <1>6

LEMMA StatusCoherent ==
    ASSUME NEW g \in GovernorFile \cup {NoFile}, NEW t \in Nat, NEW n \in Nat, t <= n,
           g # NoFile => Coherent(g, n)
    PROVE  LET h == StatusFile(g, t)
           IN  h \in GovernorFile /\ Coherent(h, n) /\ (Probing(h) <=> Probing(g))
<1> DEFINE f == Refresh(Load(g, t), t)
<1>1. /\ f \in GovernorFile
      /\ Coherent(f, n)
      /\ f.half_open_in_flight <=> Probing(g)
  BY Refreshed
<1>2. StatusFile(g, t) = f
  BY DEF StatusFile
<1> HIDE DEF f
<1>3. QED BY <1>1, <1>2, NoFileAssumption DEF Probing, Coherent

\* No result leaves a probe marked: whichever attempt it belongs to, it opens
\* the circuit again or closes it.
LEMMA RecordCoherent ==
    ASSUME NEW g \in GovernorFile \cup {NoFile}, NEW t \in Nat, NEW n \in Nat, t <= n,
           g # NoFile => Coherent(g, n),
           NEW result \in Results, NEW h \in RecordOutcomes(g, result, t)
    PROVE  h \in GovernorFile /\ Coherent(h, n) /\ ~Probing(h)
<1> DEFINE f == Refresh(Load(g, t), t)
<1>1. f \in GovernorFile /\ Coherent(f, n)
  BY Refreshed
<1> HIDE DEF f
<1>2. \A k : \A s \in BackoffDelays(k) : s \in Nat
  BY TimingAssumption DEF BackoffDelays
<1>3. CASE \E x \in Nat : h = Tripped(f, x)
  <2>1. PICK x \in Nat : h = Tripped(f, x)
    BY <1>3
  <2> DEFINE c == Larger(MinCapacity,
                         Smaller(Capacity(f) - 1,
                                 (IF f.capacity = 0 THEN 1 ELSE f.capacity) \div 2))
             k == f.consecutive_rate_limits + 1
  <2>2. c \in Nat /\ k \in Nat
    BY <1>1, CapacityType, CapacityAssumption DEF Larger, Smaller
  <2>3. h = [f EXCEPT !.consecutive_rate_limits = k, !.window_rate_limited = TRUE,
                      !.status = "OPEN", !.open_until = x,
                      !.half_open_in_flight = FALSE, !.capacity = c]
    BY <2>1 DEF Tripped
  <2> HIDE DEF c, k
  <2>4. h \in GovernorFile /\ h.status = "OPEN" /\ h.open_until = x
        /\ h.half_open_in_flight = FALSE
    BY <1>1, <2>2, <2>3
  <2>5. QED BY <2>4, NoneAssumption DEF Coherent, Probing
<1>4. CASE h = Closed(f)
  BY <1>1, <1>4 DEF Closed, Coherent, Probing
<1>5. CASE f.status = "HALF_OPEN" /\ \E x \in Nat : h = Reopened(f, x)
  <2>1. PICK x \in Nat : h = Reopened(f, x)
    BY <1>5
  <2>2. h \in GovernorFile /\ h.status = "OPEN" /\ h.open_until = x
        /\ h.half_open_in_flight = FALSE
    BY <1>1, <2>1 DEF Reopened
  <2>3. QED BY <2>2, NoneAssumption DEF Coherent, Probing
<1>6. CASE f.status # "HALF_OPEN" /\ (h = f \/ h = HealthyIfDrained(f))
  BY <1>1, <1>6 DEF HealthyIfDrained, Coherent, Probing
<1>7. \A k : \A s \in BackoffDelays(k) : t + s \in Nat
  BY <1>2
<1>8. QED BY <1>3, <1>4, <1>5, <1>6, <1>7 DEF RecordOutcomes, Results, f

-----------------------------------------------------------------------------
(* The budget *)

\* A capacity within its bounds, and no more attempts than the largest.
Budgeted(f) ==
    /\ Floor <= f.capacity /\ f.capacity <= Ceiling
    /\ f.attempts_in_window <= Ceiling

\* What a rate limit leaves of the capacity.
HalvedCapacity(f) ==
    Larger(MinCapacity,
           Smaller(Capacity(f) - 1,
                   (IF f.capacity = 0 THEN 1 ELSE f.capacity) \div 2))

\* How an operation with clock reading t may change what is counted: as the
\* refresh does, plus one attempt that was free, or with less capacity.
Counted(g, h, t) ==
    LET f == Refresh(Load(g, t), t)
    IN  \/ h = g
        \/ /\ h.window_started_at = f.window_started_at
           /\ \/ /\ h.capacity = f.capacity
                 /\ h.attempts_in_window = f.attempts_in_window
              \/ /\ CanAttempt(f, t)
                 /\ h.capacity = f.capacity
                 /\ h.attempts_in_window = f.attempts_in_window + 1
              \/ /\ h.capacity = HalvedCapacity(f)
                 /\ h.attempts_in_window = f.attempts_in_window

\* The capacity grew by one, for a window that earned it.
Earned(g, h) ==
    h.capacity > Larger(MinCapacity, Capacity(g))
        => /\ h.capacity = Capacity(g) + 1
           /\ g.attempts_in_window >= Capacity(g)
           /\ g.queue # {}
           /\ ~g.window_rate_limited

LEMMA BoundsType ==
    /\ Floor \in Nat /\ Ceiling \in Nat
    /\ Floor <= MinCapacity /\ Floor <= MaxCapacity
    /\ MinCapacity <= Ceiling /\ InitialCapacity <= Ceiling
    /\ MaxCapacity <= Ceiling
BY CapacityAssumption DEF Floor, Ceiling, Larger, Smaller

\* A capacity of 0 is read as the initial one, and 0 only when 0 is allowed.
LEMMA CapacityBudgeted ==
    ASSUME NEW f \in GovernorFile, Budgeted(f)
    PROVE  Capacity(f) \in Nat /\ Floor <= Capacity(f) /\ Capacity(f) <= Ceiling
BY BoundsType, CapacityAssumption DEF Capacity, Budgeted

LEMMA LearnedBudgeted ==
    ASSUME NEW f \in GovernorFile, Budgeted(f)
    PROVE  /\ LearnedCapacity(f) \in Nat
           /\ Floor <= LearnedCapacity(f) /\ LearnedCapacity(f) <= Ceiling
<1>1. Capacity(f) \in Nat /\ Floor <= Capacity(f) /\ Capacity(f) <= Ceiling
  BY CapacityBudgeted
<1> QED
  BY <1>1, BoundsType, CapacityAssumption DEF LearnedCapacity, Larger, Smaller

\* The counters after a refresh are those of the rolled window.
LEMMA RefreshCounts ==
    ASSUME NEW f \in GovernorFile, NEW t \in Nat
    PROVE  LET r == Refresh(f, t)
           IN  IF WindowElapsed(f, t)
               THEN /\ r.capacity = LearnedCapacity(f)
                    /\ r.attempts_in_window = 0
                    /\ r.window_started_at = t
               ELSE /\ r.capacity = f.capacity
                    /\ r.attempts_in_window = f.attempts_in_window
                    /\ r.window_started_at = f.window_started_at
<1> DEFINE r == RollWindow(f, t)
           p == [r EXCEPT !.queue = Unexpired(r.queue, t)]
           h == HalfOpenIfDue(p, t)
<1>1. /\ r \in GovernorFile
      /\ IF WindowElapsed(f, t)
         THEN /\ r.capacity = LearnedCapacity(f) /\ r.attempts_in_window = 0
              /\ r.window_started_at = t
         ELSE /\ r.capacity = f.capacity
              /\ r.attempts_in_window = f.attempts_in_window
              /\ r.window_started_at = f.window_started_at
  BY RollWindowType DEF RollWindow
<1> HIDE DEF r
<1>2. /\ p \in GovernorFile /\ p.capacity = r.capacity
      /\ p.attempts_in_window = r.attempts_in_window
      /\ p.window_started_at = r.window_started_at
  BY <1>1 DEF Unexpired
<1> HIDE DEF p
<1>3. /\ h \in GovernorFile /\ h.capacity = p.capacity
      /\ h.attempts_in_window = p.attempts_in_window
      /\ h.window_started_at = p.window_started_at
  BY <1>2 DEF HalfOpenIfDue
<1> HIDE DEF h
<1>4. /\ HealthyIfDrained(h).capacity = h.capacity
      /\ HealthyIfDrained(h).attempts_in_window = h.attempts_in_window
      /\ HealthyIfDrained(h).window_started_at = h.window_started_at
  BY <1>3 DEF HealthyIfDrained
<1>5. Refresh(f, t) = HealthyIfDrained(h)
  BY DEF Refresh, r, p, h
<1> QED BY <1>1, <1>2, <1>3, <1>4, <1>5

LEMMA RefreshBudgeted ==
    ASSUME NEW f \in GovernorFile, NEW t \in Nat, Budgeted(f)
    PROVE  Budgeted(Refresh(f, t))
BY RefreshCounts, LearnedBudgeted, BoundsType DEF Budgeted

LEMMA LoadBudgeted ==
    ASSUME NEW g \in GovernorFile \cup {NoFile}, NEW t \in Nat,
           g # NoFile => Budgeted(g)
    PROVE  Budgeted(Load(g, t))
<1>1. Budgeted(DefaultState(t))
  BY BoundsType, CapacityAssumption
     DEF Budgeted, DefaultState, Floor, Ceiling, Larger, Smaller
<1> QED BY <1>1 DEF Load

LEMMA HalvedBudgeted ==
    ASSUME NEW f \in GovernorFile, Budgeted(f)
    PROVE  /\ HalvedCapacity(f) \in Nat
           /\ Floor <= HalvedCapacity(f) /\ HalvedCapacity(f) <= Ceiling
           /\ HalvedCapacity(f) = MinCapacity \/ HalvedCapacity(f) < f.capacity
<1> DEFINE half == (IF f.capacity = 0 THEN 1 ELSE f.capacity) \div 2
<1>1. f.capacity \in Nat /\ Capacity(f) \in Nat
  BY CapacityBudgeted
<1>2. half \in Nat /\ half <= f.capacity /\ (f.capacity > 0 => half < f.capacity)
  BY <1>1
<1> HIDE DEF half
<1>3. HalvedCapacity(f) = Larger(MinCapacity, Smaller(Capacity(f) - 1, half))
  BY DEF HalvedCapacity, half
<1>4. f.capacity = 0 => half = 0
  BY <1>1, <1>2
<1> QED BY <1>1, <1>2, <1>3, <1>4, BoundsType, CapacityAssumption
           DEF Larger, Smaller, Budgeted, Capacity

\* The budget is kept by every operation.
LEMMA CountedBudgeted ==
    ASSUME NEW g \in GovernorFile \cup {NoFile}, NEW t \in Nat,
           g # NoFile => Budgeted(g), NEW h, h # NoFile, Counted(g, h, t)
    PROVE  Budgeted(h)
<1> DEFINE f == Refresh(Load(g, t), t)
<1>1. f \in GovernorFile /\ Budgeted(f)
  BY LoadType, LoadBudgeted, RefreshType, RefreshBudgeted
<1>2. Capacity(f) <= Ceiling /\ Capacity(f) \in Nat
  BY <1>1, CapacityBudgeted
<1>3. /\ Floor <= HalvedCapacity(f) /\ HalvedCapacity(f) <= Ceiling
  BY <1>1, HalvedBudgeted
<1>4. CanAttempt(f, t) => f.attempts_in_window + 1 <= Ceiling
  BY <1>1, <1>2, BoundsType DEF CanAttempt
<1> HIDE DEF f
<1> QED BY <1>1, <1>3, <1>4 DEF Counted, Budgeted, f

\* So is what growth costs.
LEMMA CountedEarned ==
    ASSUME NEW g \in GovernorFile, NEW t \in Nat, Budgeted(g),
           NEW h, Counted(g, h, t)
    PROVE  Earned(g, h)
<1> DEFINE f == Refresh(g, t)
<1>1. Load(g, t) = g
  BY NoFileAssumption DEF Load
<1>2. f \in GovernorFile /\ Budgeted(f)
  BY RefreshType, RefreshBudgeted
<1>3. Capacity(g) \in Nat /\ g.capacity \in Nat
  BY CapacityBudgeted
<1>4. IF WindowElapsed(g, t) THEN f.capacity = LearnedCapacity(g)
      ELSE f.capacity = g.capacity
  BY RefreshCounts
<1>5. g.capacity <= Capacity(g)
  BY CapacityAssumption DEF Capacity
<1> HIDE DEF f
<1>6. f.capacity > Larger(MinCapacity, Capacity(g))
        => /\ f.capacity = Capacity(g) + 1
           /\ g.attempts_in_window >= Capacity(g)
           /\ g.queue # {}
           /\ ~g.window_rate_limited
  BY <1>3, <1>4, <1>5, CapacityAssumption DEF LearnedCapacity, Larger, Smaller
<1>7. HalvedCapacity(f) <= Larger(MinCapacity, Capacity(g))
  BY <1>2, <1>3, <1>6, HalvedBudgeted, CapacityAssumption DEF Larger
<1>8. HalvedCapacity(f) \in Nat
  BY <1>2, HalvedBudgeted
<1>9. CASE h = g
  BY <1>3, <1>5, <1>9, CapacityAssumption DEF Earned, Larger
<1>10. CASE h.capacity = f.capacity
  BY <1>6, <1>10 DEF Earned
<1>11. CASE h.capacity = HalvedCapacity(f)
  BY <1>3, <1>7, <1>8, <1>11, CapacityAssumption DEF Earned, Larger
<1> QED BY <1>1, <1>9, <1>10, <1>11 DEF Counted, f

-----------------------------------------------------------------------------
(* How the queue changes *)

QueueOf(g) == IF g = NoFile THEN {} ELSE g.queue

\* _append_to_queue: into free room, into the place of a low-priority delivery,
\* or not at all.
Appended(live, q, d) ==
    \/ q = live
    \/ Room(live) /\ q = live \cup {d}
    \/ ~Room(live) /\ \E e \in Evictable(live) : q = (live \ {e}) \cup {d}

\* Nothing but a full queue keeps a delivery out of it.
Placed(live, q, d) == d \in q \/ ~Room(live)

\* The deliveries with the id of d are out of the queue.
Others(live, d) == {e \in live : e.id # d.id}

LEMMA LiveQueue ==
    ASSUME NEW g \in GovernorFile \cup {NoFile}, NEW t \in Nat
    PROVE  /\ Refresh(Load(g, t), t) \in GovernorFile
           /\ Refresh(Load(g, t), t).queue = Unexpired(QueueOf(g), t)
           /\ Unexpired(Unexpired(QueueOf(g), t), t) = Unexpired(QueueOf(g), t)
<1>1. Load(g, t) \in GovernorFile /\ Load(g, t).queue = QueueOf(g)
  BY LoadType DEF Load, DefaultState, QueueOf
<1>2. Refresh(Load(g, t), t) \in GovernorFile
      /\ Refresh(Load(g, t), t).queue = Unexpired(Load(g, t).queue, t)
  BY <1>1, RefreshType, RefreshPrunes
<1> QED BY <1>1, <1>2 DEF Unexpired

LEMMA AppendWays ==
    ASSUME NEW f \in GovernorFile, NEW t \in Nat, NEW d \in Delivery,
           NEW o \in AppendOutcomes(f, d, t)
    PROVE  /\ o.state \in GovernorFile
           /\ o.state.capacity = f.capacity
           /\ o.state.attempts_in_window = f.attempts_in_window
           /\ o.state.window_started_at = f.window_started_at
           /\ Appended(Unexpired(f.queue, t), o.state.queue, d)
           /\ Placed(Unexpired(f.queue, t), o.state.queue, d)
<1> DEFINE live == Unexpired(f.queue, t)
           refusal == [queued |-> FALSE, state |-> [f EXCEPT !.queue = live]]
           taken(q) == [queued |-> TRUE, state |-> Enqueued(f, q)]
<1>1. \A q : taken(q).state = Enqueued(f, q)
  OBVIOUS
<1>2. refusal.state = [f EXCEPT !.queue = live]
  OBVIOUS
<1>3. AppendOutcomes(f, d, t) =
         IF Room(live) THEN {taken(live \cup {d})}
         ELSE IF Evictable(live) = {} THEN {refusal}
         ELSE {taken((live \ {e}) \cup {d}) : e \in Evictable(live)}
  BY DEF AppendOutcomes
<1> HIDE DEF live, refusal, taken
<1>4. \A q \in SUBSET Delivery :
         /\ Enqueued(f, q) \in GovernorFile
         /\ Enqueued(f, q).capacity = f.capacity
         /\ Enqueued(f, q).attempts_in_window = f.attempts_in_window
         /\ Enqueued(f, q).window_started_at = f.window_started_at
         /\ Enqueued(f, q).queue = q
  BY DEF Enqueued
<1>0. live \in SUBSET Delivery
  BY DEF live, Unexpired
<1>5. CASE Room(live)
  <2>1. o.state = Enqueued(f, live \cup {d})
    BY <1>1, <1>3, <1>5
  <2> QED BY <1>0, <1>4, <1>5, <2>1 DEF Appended, Placed, live
<1>6. CASE ~Room(live) /\ Evictable(live) = {}
  <2>1. o.state = [f EXCEPT !.queue = live]
    BY <1>2, <1>3, <1>6
  <2> QED BY <1>0, <1>6, <2>1 DEF Appended, Placed, live
<1>7. CASE ~Room(live) /\ Evictable(live) # {}
  <2>1. PICK e \in Evictable(live) : o.state = Enqueued(f, (live \ {e}) \cup {d})
    BY <1>1, <1>3, <1>7
  <2> QED BY <1>0, <1>4, <1>7, <2>1 DEF Appended, Placed, live
<1> QED BY <1>5, <1>6, <1>7

LEMMA GrantCounts ==
    ASSUME NEW f \in GovernorFile, NEW t \in Nat
    PROVE  /\ Granted(f, t) \in GovernorFile
           /\ Granted(f, t).capacity = f.capacity
           /\ Granted(f, t).attempts_in_window = f.attempts_in_window + 1
           /\ Granted(f, t).window_started_at = f.window_started_at
           /\ Granted(f, t).queue = f.queue
<1>1. PICK k \in Nat : k = f.attempts_in_window + 1
  OBVIOUS
<1> QED BY <1>1 DEF Granted

LEMMA AdmitMoves ==
    ASSUME NEW g \in GovernorFile \cup {NoFile}, NEW t \in Nat, NEW d \in Delivery,
           NEW o \in AdmitOutcomes(g, d, t)
    PROVE  /\ Counted(g, o.state, t)
           /\ \/ o.state = g
              \/ /\ o.state \in GovernorFile
                 /\ Appended(Unexpired(QueueOf(g), t), o.state.queue, d)
           /\ IF o.allowed THEN QueueOf(o.state) \subseteq QueueOf(g)
              ELSE Placed(Unexpired(QueueOf(g), t), QueueOf(o.state), d)
           /\ Enabled /\ o.allowed =>
                 /\ CanAttempt(Refresh(Load(g, t), t), t)
                 /\ o.state \in GovernorFile
                 /\ o.state.attempts_in_window =
                       Refresh(Load(g, t), t).attempts_in_window + 1
                 /\ o.state.window_started_at =
                       Refresh(Load(g, t), t).window_started_at
<1> DEFINE f == Refresh(Load(g, t), t)
<1>1. /\ f \in GovernorFile /\ f.queue = Unexpired(QueueOf(g), t)
      /\ Unexpired(f.queue, t) = Unexpired(QueueOf(g), t)
  BY LiveQueue
<1> HIDE DEF f
<1>2. CASE ~Enabled
  <2>1. o.state = g /\ o.allowed = TRUE
    BY <1>2 DEF AdmitOutcomes
  <2> QED BY <1>2, <2>1 DEF Counted
<1>3. CASE Enabled /\ CanAttempt(f, t)
  <2>1. o.state = Granted(f, t) /\ o.allowed = TRUE
    BY <1>3 DEF AdmitOutcomes, f
  <2>2. /\ o.state \in GovernorFile
        /\ o.state.capacity = f.capacity
        /\ o.state.attempts_in_window = f.attempts_in_window + 1
        /\ o.state.window_started_at = f.window_started_at
        /\ o.state.queue = f.queue
    BY <1>1, <2>1, GrantCounts
  <2>3. Counted(g, o.state, t)
    BY <1>3, <2>2 DEF Counted, f
  <2>4. Appended(Unexpired(QueueOf(g), t), o.state.queue, d)
    BY <1>1, <2>2 DEF Appended
  <2>5. QueueOf(o.state) \subseteq QueueOf(g)
    BY <1>1, <2>2, NoFileAssumption DEF QueueOf, Unexpired
  <2> QED BY <1>3, <2>1, <2>2, <2>3, <2>4, <2>5 DEF f
<1>4. CASE Enabled /\ ~CanAttempt(f, t)
  <2>1. PICK a \in AppendOutcomes(f, d, t) : o.allowed = FALSE /\ o.state = a.state
    BY <1>4 DEF AdmitOutcomes, f
  <2>2. /\ a.state \in GovernorFile
        /\ a.state.capacity = f.capacity
        /\ a.state.attempts_in_window = f.attempts_in_window
        /\ a.state.window_started_at = f.window_started_at
        /\ Appended(Unexpired(f.queue, t), a.state.queue, d)
        /\ Placed(Unexpired(f.queue, t), a.state.queue, d)
    BY <1>1, AppendWays
  <2>3. QueueOf(a.state) = a.state.queue
    BY <2>2, NoFileAssumption DEF QueueOf
  <2> QED BY <1>1, <1>4, <2>1, <2>2, <2>3 DEF Counted, f
<1> QED BY <1>2, <1>3, <1>4

LEMMA QueueMoves ==
    ASSUME NEW g \in GovernorFile \cup {NoFile}, NEW t \in Nat, NEW d \in Delivery,
           NEW o \in QueueOutcomes(g, d, t)
    PROVE  /\ Counted(g, o.state, t)
           /\ Appended(Unexpired(QueueOf(g), t), o.state.queue, d)
           /\ Placed(Unexpired(QueueOf(g), t), o.state.queue, d)
<1> DEFINE f == Refresh(Load(g, t), t)
<1>1. f \in GovernorFile /\ Unexpired(f.queue, t) = Unexpired(QueueOf(g), t)
  BY LiveQueue
<1>2. o \in AppendOutcomes(f, d, t)
  BY DEF QueueOutcomes
<1> HIDE DEF f
<1>3. /\ o.state.capacity = f.capacity
      /\ o.state.attempts_in_window = f.attempts_in_window
      /\ o.state.window_started_at = f.window_started_at
      /\ Appended(Unexpired(f.queue, t), o.state.queue, d)
      /\ Placed(Unexpired(f.queue, t), o.state.queue, d)
  BY <1>1, <1>2, AppendWays
<1> QED BY <1>1, <1>3 DEF Counted, f

\* The one that is reserved is handed out with one attempt more, and every
\* delivery of its id is out of the queue.
LEMMA ReserveMoves ==
    ASSUME NEW g \in GovernorFile \cup {NoFile}, NEW t \in Nat, NEW u \in Targets,
           NEW o \in ReserveOutcomes(g, u, t)
    PROVE  LET live == Unexpired(QueueOf(g), t)
           IN  /\ Counted(g, o.state, t)
               /\ o.reserved = {} =>
                     /\ o.state.queue = live
                     /\ \/ ~CanAttempt(Refresh(Load(g, t), t), t)
                        \/ \A d \in live : d.target # u
               /\ o.reserved # {} =>
                     /\ CanAttempt(Refresh(Load(g, t), t), t)
                     /\ o.state.attempts_in_window =
                           Refresh(Load(g, t), t).attempts_in_window + 1
                     /\ o.state.window_started_at =
                           Refresh(Load(g, t), t).window_started_at
                     /\ \E d \in live :
                          /\ d.target = u
                          /\ \A e \in live : e.target = u => ~SortsBefore(e, d)
                          /\ o.reserved = {[d EXCEPT !.attempts = @ + 1]}
                          /\ o.state.queue = Others(live, d)
<1> DEFINE f == Refresh(Load(g, t), t)
           live == Unexpired(QueueOf(g), t)
           matching == {d \in f.queue : d.target = u}
           first == {d \in matching : \A e \in matching : ~SortsBefore(e, d)}
<1>1. f \in GovernorFile /\ f.queue = live
  BY LiveQueue
<1>2. ReserveOutcomes(g, u, t) =
         IF ~CanAttempt(f, t) \/ matching = {}
         THEN {[reserved |-> {}, state |-> f]}
         ELSE {[reserved |-> {[d EXCEPT !.attempts = @ + 1]},
                state    |-> Granted(TakenOut(f, d), t)] : d \in first}
  BY DEF ReserveOutcomes
<1> HIDE DEF f, live
<1>3. CASE /\ ~CanAttempt(f, t) \/ matching = {}
           /\ o = [reserved |-> {}, state |-> f]
  <2>1. o.reserved = {} /\ o.state = f
    BY <1>3
  <2>2. Counted(g, o.state, t)
    BY <2>1 DEF Counted, f
  <2> QED BY <1>1, <1>3, <2>1, <2>2 DEF f, live
<1>4. CASE /\ CanAttempt(f, t)
           /\ \E d \in first :
                 o = [reserved |-> {[d EXCEPT !.attempts = @ + 1]},
                      state    |-> Granted(TakenOut(f, d), t)]
  <2>1. PICK d \in first :
           o = [reserved |-> {[d EXCEPT !.attempts = @ + 1]},
                state    |-> Granted(TakenOut(f, d), t)]
    BY <1>4
  <2>2. /\ TakenOut(f, d) \in GovernorFile
        /\ TakenOut(f, d).queue = Others(live, d)
        /\ TakenOut(f, d).capacity = f.capacity
        /\ TakenOut(f, d).attempts_in_window = f.attempts_in_window
        /\ TakenOut(f, d).window_started_at = f.window_started_at
    BY <1>1 DEF TakenOut, Others
  <2>3. /\ o.state.capacity = f.capacity
        /\ o.state.attempts_in_window = f.attempts_in_window + 1
        /\ o.state.window_started_at = f.window_started_at
        /\ o.state.queue = Others(live, d)
    BY <2>1, <2>2, GrantCounts
  <2>4. o.reserved = {[d EXCEPT !.attempts = @ + 1]}
    BY <2>1
  <2>5. /\ d \in live /\ d.target = u
        /\ \A e \in live : e.target = u => ~SortsBefore(e, d)
    BY <1>1
  <2>6. Counted(g, o.state, t)
    BY <1>4, <2>3 DEF Counted, f
  <2> QED BY <1>4, <2>3, <2>4, <2>5, <2>6 DEF f, live
<1> QED BY <1>2, <1>3, <1>4

LEMMA RequeueMoves ==
    ASSUME NEW g \in GovernorFile \cup {NoFile}, NEW t \in Nat, NEW d \in Delivery
    PROVE  LET h == RequeueFile(g, d, t)
           IN  /\ Counted(g, h, t)
               /\ \/ h = g /\ d.expires_at <= t
                  \/ /\ h \in GovernorFile
                     /\ h.queue = Others(Unexpired(QueueOf(g), t), d) \cup {d}
<1> DEFINE f == Refresh(Load(g, t), t)
           q == Others(f.queue, d) \cup {d}
<1>1. f \in GovernorFile /\ f.queue = Unexpired(QueueOf(g), t)
  BY LiveQueue
<1>2. RequeueFile(g, d, t) = IF d.expires_at <= t THEN g ELSE Enqueued(f, q)
  BY DEF RequeueFile, Others
<1> HIDE DEF f
<1>3. /\ Enqueued(f, q) \in GovernorFile
      /\ Enqueued(f, q).capacity = f.capacity
      /\ Enqueued(f, q).attempts_in_window = f.attempts_in_window
      /\ Enqueued(f, q).window_started_at = f.window_started_at
      /\ Enqueued(f, q).queue = q
  BY <1>1 DEF Enqueued, Others
<1> QED BY <1>1, <1>2, <1>3 DEF Counted, f

LEMMA StatusMoves ==
    ASSUME NEW g \in GovernorFile \cup {NoFile}, NEW t \in Nat
    PROVE  /\ Counted(g, StatusFile(g, t), t)
           /\ StatusFile(g, t).queue = Unexpired(QueueOf(g), t)
BY LiveQueue DEF StatusFile, Counted

LEMMA RecordMoves ==
    ASSUME NEW g \in GovernorFile \cup {NoFile}, NEW t \in Nat,
           NEW result \in Results, NEW h \in RecordOutcomes(g, result, t)
    PROVE  Counted(g, h, t) /\ h.queue = Unexpired(QueueOf(g), t)
<1> DEFINE f == Refresh(Load(g, t), t)
<1>1. f \in GovernorFile /\ f.queue = Unexpired(QueueOf(g), t)
  BY LiveQueue
<1> HIDE DEF f
<1>2. \/ \E x : h = Tripped(f, x)
      \/ \E x : h = Reopened(f, x)
      \/ h = Closed(f) \/ h = HealthyIfDrained(f) \/ h = f
  BY DEF RecordOutcomes, Results, f
<1>3. CASE \E x : h = Tripped(f, x)
  <2>1. /\ h.capacity = HalvedCapacity(f)
        /\ h.attempts_in_window = f.attempts_in_window /\ h.queue = f.queue
        /\ h.window_started_at = f.window_started_at
    BY <1>1, <1>3 DEF Tripped, HalvedCapacity
  <2> QED BY <1>1, <2>1 DEF Counted, f
<1>4. CASE \/ \E x : h = Reopened(f, x)
           \/ h = Closed(f) \/ h = HealthyIfDrained(f) \/ h = f
  <2>1. /\ h.capacity = f.capacity
        /\ h.attempts_in_window = f.attempts_in_window /\ h.queue = f.queue
        /\ h.window_started_at = f.window_started_at
    BY ZenonT(60), <1>1, <1>4 DEF Reopened, Closed, HealthyIfDrained
  <2> QED BY <1>1, <2>1 DEF Counted, f
<1> QED BY <1>2, <1>3, <1>4

-----------------------------------------------------------------------------
(* Whose a delivery is: q is the queue, h what callers hold, and the ids up  *)
(* to i have been drawn.                                                     *)

Owned(q, h, i) ==
    /\ q \subseteq Delivery /\ h \subseteq Delivery
    /\ IsFiniteSet(q) /\ IsFiniteSet(h)
    /\ \A d \in q \cup h : d.id <= i
    /\ \A d, e \in q \cup h : d.id = e.id => d = e
    /\ q \cap h = {}

\* From q and h to q2 and h2 at time n: nothing vanishes, and what is queued or
\* held grows into free room only.
Moved(q, h, q2, h2, n) ==
    /\ \A d \in q \ q2 :
          \/ d.expires_at <= n
          \/ \E e \in h2 \ h : e.id = d.id
          \/ d.priority = "low" /\ Cardinality(q) >= QueueMaxSize
    /\ Cardinality(q2) + Cardinality(h2)
          <= Larger(Cardinality(q), QueueMaxSize) + Cardinality(h)

LEMMA Sizes ==
    ASSUME NEW S, IsFiniteSet(S)
    PROVE  /\ Cardinality(S) \in Nat
           /\ \A T \in SUBSET S :
                 /\ IsFiniteSet(T)
                 /\ Cardinality(T) \in Nat /\ Cardinality(T) <= Cardinality(S)
           /\ \A x : /\ IsFiniteSet(S \cup {x})
                     /\ Cardinality(S \cup {x}) \in Nat
                     /\ Cardinality(S \cup {x}) <= Cardinality(S) + 1
           /\ \A x \in S : Cardinality(S \ {x}) = Cardinality(S) - 1
<1>1. Cardinality(S) \in Nat
  BY FS_CardinalityType
<1>2. ASSUME NEW T \in SUBSET S
      PROVE  /\ IsFiniteSet(T)
             /\ Cardinality(T) \in Nat /\ Cardinality(T) <= Cardinality(S)
  <2>1. IsFiniteSet(T) /\ Cardinality(T) <= Cardinality(S)
    BY FS_Subset
  <2> QED BY <2>1, FS_CardinalityType
<1>3. ASSUME NEW x
      PROVE  /\ IsFiniteSet(S \cup {x})
             /\ Cardinality(S \cup {x}) \in Nat
             /\ Cardinality(S \cup {x}) <= Cardinality(S) + 1
  <2>1. /\ IsFiniteSet(S \cup {x})
        /\ Cardinality(S \cup {x})
             = IF x \in S THEN Cardinality(S) ELSE Cardinality(S) + 1
    BY FS_AddElement
  <2> QED BY <1>1, <2>1
<1>4. ASSUME NEW x \in S PROVE Cardinality(S \ {x}) = Cardinality(S) - 1
  BY FS_RemoveElement
<1> QED BY <1>1, <1>2, <1>3, <1>4

LEMMA LiveIsPart ==
    ASSUME NEW q \in SUBSET Delivery, NEW t \in Nat, NEW n \in Nat, t <= n
    PROVE  LET live == Unexpired(q, t)
           IN  /\ live \in SUBSET q
               /\ \A d \in q \ live : d.expires_at <= n
<1>1. \A d \in q : d.expires_at \in Nat
  BY DEF Delivery
<1> QED BY <1>1 DEF Unexpired

\* Deliveries expire, and callers are done with theirs.
LEMMA ShrinkMoves ==
    ASSUME NEW q, NEW h, NEW i \in Nat, Owned(q, h, i),
           NEW q2 \in SUBSET q, NEW h2 \in SUBSET h, NEW n \in Nat,
           \A d \in q \ q2 : d.expires_at <= n
    PROVE  Owned(q2, h2, i) /\ Moved(q, h, q2, h2, n)
<1>1. /\ IsFiniteSet(q) /\ IsFiniteSet(h)
      /\ IsFiniteSet(q2) /\ IsFiniteSet(h2)
      /\ Cardinality(q) \in Nat /\ Cardinality(h) \in Nat
      /\ Cardinality(q2) \in Nat /\ Cardinality(h2) \in Nat
      /\ Cardinality(q2) <= Cardinality(q)
      /\ Cardinality(h2) <= Cardinality(h)
  BY Sizes DEF Owned
<1>2. Owned(q2, h2, i)
  BY <1>1 DEF Owned
<1>3. Cardinality(q2) + Cardinality(h2)
        <= Larger(Cardinality(q), QueueMaxSize) + Cardinality(h)
  BY <1>1, QueueAssumption DEF Larger
<1> QED BY <1>2, <1>3 DEF Moved

\* A new delivery is queued, or finds no room.
LEMMA AppendMoves ==
    ASSUME NEW q, NEW h, NEW i \in Nat, Owned(q, h, i),
           NEW t \in Nat, NEW n \in Nat, t <= n,
           NEW d \in Delivery, d.id = i + 1,
           NEW q2, Appended(Unexpired(q, t), q2, d), NEW h2 \in SUBSET h
    PROVE  Owned(q2, h2, i + 1) /\ Moved(q, h, q2, h2, n)
<1> DEFINE live == Unexpired(q, t)
<1>1. /\ q \in SUBSET Delivery /\ h \in SUBSET Delivery
      /\ IsFiniteSet(q) /\ IsFiniteSet(h)
      /\ \A e \in q \cup h : e.id <= i /\ e.id \in Nat
  BY DEF Owned, Delivery
<1>2. live \in SUBSET q /\ \A e \in q \ live : e.expires_at <= n
  BY <1>1, LiveIsPart
<1> HIDE DEF live
<1>3. /\ IsFiniteSet(live) /\ IsFiniteSet(h2)
      /\ Cardinality(q) \in Nat /\ Cardinality(h) \in Nat
      /\ Cardinality(live) \in Nat /\ Cardinality(h2) \in Nat
      /\ Cardinality(live) <= Cardinality(q)
      /\ Cardinality(h2) <= Cardinality(h)
  BY <1>1, <1>2, Sizes
<1>4. q2 \subseteq live \cup {d} /\ IsFiniteSet(live \cup {d})
  BY <1>3, Sizes DEF Appended, live, Evictable
<1>5. Owned(q2, h2, i + 1)
  <2>1. IsFiniteSet(q2)
    BY <1>4, Sizes
  <2>2. \A e \in q2 \cup h2 : e = d \/ (e \in q \cup h /\ e.id # d.id)
    BY <1>1, <1>2, <1>4
  <2>3. \A e \in q2 \cup h2 : e.id <= i + 1
    BY <1>1, <2>2
  <2>4. \A e, f \in q2 \cup h2 : e.id = f.id => e = f
    BY <2>2 DEF Owned
  <2>5. d \notin h2
    BY <1>1
  <2>6. q2 \cap h2 = {}
    BY <1>2, <1>4, <2>5 DEF Owned
  <2>7. q2 \subseteq Delivery /\ h2 \subseteq Delivery
    BY <1>1, <1>2, <1>4
  <2> QED BY <1>3, <2>1, <2>3, <2>4, <2>6, <2>7 DEF Owned
<1>6. CASE q2 = live
  <2>1. Cardinality(q2) + Cardinality(h2)
          <= Larger(Cardinality(q), QueueMaxSize) + Cardinality(h)
    BY <1>3, <1>6, QueueAssumption DEF Larger
  <2> QED BY <1>2, <1>5, <1>6, <2>1 DEF Moved
<1>7. CASE Room(live) /\ q2 = live \cup {d}
  <2>1. Cardinality(q2) \in Nat /\ Cardinality(q2) <= QueueMaxSize
    <3>1. Cardinality(q2) \in Nat /\ Cardinality(q2) <= Cardinality(live) + 1
      BY <1>3, <1>7, Sizes
    <3> QED BY <1>3, <1>7, <3>1, QueueAssumption DEF Room
  <2>2. Cardinality(q2) + Cardinality(h2)
          <= Larger(Cardinality(q), QueueMaxSize) + Cardinality(h)
    BY <1>3, <2>1, QueueAssumption DEF Larger
  <2>3. q \ q2 \subseteq q \ live
    BY <1>7
  <2> QED BY <1>2, <1>5, <2>2, <2>3 DEF Moved
<1>8. CASE ~Room(live) /\ \E e \in Evictable(live) : q2 = (live \ {e}) \cup {d}
  <2>1. PICK e \in Evictable(live) : q2 = (live \ {e}) \cup {d}
    BY <1>8
  <2>2. e \in live /\ e.priority = "low"
    BY DEF Evictable
  <2>3. Cardinality(q) >= QueueMaxSize
    BY <1>3, <1>8, QueueAssumption DEF Room
  <2>4. Cardinality(q2) \in Nat /\ Cardinality(q2) <= Cardinality(live)
    <3>1. /\ IsFiniteSet(live \ {e})
          /\ Cardinality(live \ {e}) = Cardinality(live) - 1
      BY <1>3, <2>2, Sizes
    <3>2. /\ Cardinality(q2) \in Nat
          /\ Cardinality(q2) <= Cardinality(live \ {e}) + 1
      BY <2>1, <3>1, Sizes
    <3> QED BY <1>3, <3>1, <3>2
  <2>5. Cardinality(q2) + Cardinality(h2)
          <= Larger(Cardinality(q), QueueMaxSize) + Cardinality(h)
    BY <1>3, <2>4, QueueAssumption DEF Larger
  <2>6. q \ q2 \subseteq (q \ live) \cup {e}
    BY <2>1
  <2> QED BY <1>2, <1>5, <2>2, <2>3, <2>5, <2>6 DEF Moved
<1> QED BY <1>6, <1>7, <1>8 DEF Appended, live

\* A delivery of the queue passes to a caller, with one attempt more.
LEMMA HandOutMoves ==
    ASSUME NEW q, NEW h, NEW i \in Nat, Owned(q, h, i),
           NEW t \in Nat, NEW n \in Nat, t <= n,
           NEW d \in Unexpired(q, t),
           NEW c, c = [d EXCEPT !.attempts = @ + 1]
    PROVE  LET q2 == Others(Unexpired(q, t), d)
               h2 == h \cup {c}
           IN  Owned(q2, h2, i) /\ Moved(q, h, q2, h2, n)
<1> DEFINE live == Unexpired(q, t)
           q2 == Others(live, d)
           h2 == h \cup {c}
<1>1. /\ q \in SUBSET Delivery /\ h \in SUBSET Delivery
      /\ IsFiniteSet(q) /\ IsFiniteSet(h)
  BY DEF Owned
<1>2. live \in SUBSET q /\ \A e \in q \ live : e.expires_at <= n
  BY <1>1, LiveIsPart
<1>3. d \in live
  OBVIOUS
<1> HIDE DEF live
<1>4. c \in Delivery /\ c.id = d.id
  <2> DEFINE k == d.attempts + 1
  <2>1. d \in Delivery /\ k \in Nat
    BY <1>1, <1>2, <1>3 DEF Delivery
  <2>2. c = [d EXCEPT !.attempts = k]
    OBVIOUS
  <2> HIDE DEF k
  <2> QED BY <2>1, <2>2 DEF Delivery
<1>5. q2 \in SUBSET (live \ {d}) /\ \A e \in q2 : e.id # d.id
  BY DEF Others
<1>6. \A e \in h : e.id # d.id
  BY <1>2, <1>3 DEF Owned
<1>7. /\ IsFiniteSet(live) /\ Cardinality(live) \in Nat
      /\ Cardinality(live) <= Cardinality(q)
      /\ Cardinality(q) \in Nat /\ Cardinality(h) \in Nat
      /\ IsFiniteSet(h2) /\ Cardinality(h2) \in Nat
      /\ Cardinality(h2) <= Cardinality(h) + 1
  BY <1>1, <1>2, Sizes
<1>8. /\ IsFiniteSet(q2) /\ Cardinality(q2) \in Nat
      /\ Cardinality(q2) <= Cardinality(live) - 1
  <2>1. /\ IsFiniteSet(live \ {d})
        /\ Cardinality(live \ {d}) = Cardinality(live) - 1
    BY <1>3, <1>7, Sizes
  <2> QED BY <1>5, <2>1, Sizes
<1>9. Owned(q2, h2, i)
  <2>1. \A e \in q2 \cup h2 : e = c \/ (e \in q \cup h /\ e.id # c.id)
    BY <1>2, <1>4, <1>5, <1>6
  <2>2. c.id <= i
    BY <1>2, <1>3, <1>4 DEF Owned
  <2>3. \A e \in q2 \cup h2 : e.id <= i
    BY <2>1, <2>2 DEF Owned
  <2>4. \A e, f \in q2 \cup h2 : e.id = f.id => e = f
    BY <2>1 DEF Owned
  <2>5. q2 \cap h2 = {}
    BY <1>2, <1>4, <1>5 DEF Owned
  <2>6. q2 \subseteq Delivery /\ h2 \subseteq Delivery
    BY <1>1, <1>2, <1>4, <1>5
  <2> HIDE DEF q2, h2
  <2> QED BY <1>7, <1>8, <2>3, <2>4, <2>5, <2>6 DEF Owned
<1>10. Moved(q, h, q2, h2, n)
  <2>1. ASSUME NEW e \in q \ q2, ~(e.expires_at <= n)
        PROVE  \E f \in h2 \ h : f.id = e.id
    <3>1. e \in live /\ e.id = d.id
      BY <1>2, <2>1 DEF Others
    <3>2. c \in h2 \ h
      BY <1>4, <1>6
    <3> QED BY <1>4, <3>1, <3>2
  <2>2. Cardinality(q2) + Cardinality(h2)
          <= Larger(Cardinality(q), QueueMaxSize) + Cardinality(h)
    BY <1>7, <1>8, QueueAssumption DEF Larger
  <2> QED BY <2>1, <2>2 DEF Moved
<1> QED BY <1>9, <1>10 DEF live

\* A delivery a caller holds goes back into the queue.
LEMMA PutBackMoves ==
    ASSUME NEW q, NEW h, NEW i \in Nat, Owned(q, h, i),
           NEW t \in Nat, NEW n \in Nat, t <= n, NEW d \in h
    PROVE  LET q2 == Others(Unexpired(q, t), d) \cup {d}
               h2 == h \ {d}
           IN  Owned(q2, h2, i) /\ Moved(q, h, q2, h2, n)
<1> DEFINE live == Unexpired(q, t)
           q2 == Others(live, d) \cup {d}
           h2 == h \ {d}
<1>1. /\ q \in SUBSET Delivery /\ h \in SUBSET Delivery
      /\ IsFiniteSet(q) /\ IsFiniteSet(h)
  BY DEF Owned
<1>2. live \in SUBSET q /\ \A e \in q \ live : e.expires_at <= n
  BY <1>1, LiveIsPart
<1> HIDE DEF live
<1>3. \A e \in live : e.id # d.id
  BY <1>2 DEF Owned
<1>4. q2 = live \cup {d}
  BY <1>3 DEF Others
<1>5. /\ IsFiniteSet(live) /\ Cardinality(live) \in Nat
      /\ Cardinality(live) <= Cardinality(q)
      /\ Cardinality(q) \in Nat /\ Cardinality(h) \in Nat
      /\ IsFiniteSet(h2) /\ Cardinality(h2) = Cardinality(h) - 1
  BY <1>1, <1>2, Sizes
<1>6. /\ IsFiniteSet(q2) /\ Cardinality(q2) \in Nat
      /\ Cardinality(q2) <= Cardinality(live) + 1
  BY <1>4, <1>5, Sizes
<1>7. Owned(q2, h2, i)
  <2>1. q2 \cup h2 \subseteq q \cup h
    BY <1>2, <1>4
  <2>2. q2 \cap h2 = {}
    BY <1>2, <1>4 DEF Owned
  <2>3. q2 \subseteq Delivery /\ h2 \subseteq Delivery
    BY <1>1, <2>1
  <2>4. /\ \A e \in q2 \cup h2 : e.id <= i
        /\ \A e, f \in q2 \cup h2 : e.id = f.id => e = f
    BY <2>1 DEF Owned
  <2> HIDE DEF q2, h2
  <2> QED BY <1>5, <1>6, <2>2, <2>3, <2>4 DEF Owned
<1>8. Moved(q, h, q2, h2, n)
  <2>1. q \ q2 \subseteq q \ live
    BY <1>4
  <2>2. Cardinality(q2) + Cardinality(h2)
          <= Larger(Cardinality(q), QueueMaxSize) + Cardinality(h)
    BY <1>5, <1>6, QueueAssumption DEF Larger
  <2> QED BY <1>2, <2>1, <2>2 DEF Moved
<1> QED BY <1>7, <1>8 DEF live

-----------------------------------------------------------------------------
(* What is announced *)

\* A refresh leaves a circuit open that has not come to its end.
LEMMA RefreshKeepsOpen ==
    ASSUME NEW f \in GovernorFile, NEW t \in Nat, f.status = "OPEN",
           ~BackoffOver(f, t)
    PROVE  /\ Refresh(f, t).status = "OPEN"
           /\ Refresh(f, t).open_until = f.open_until
<1> DEFINE r == RollWindow(f, t)
           p == [r EXCEPT !.queue = Unexpired(r.queue, t)]
<1>1. r \in GovernorFile /\ r.status = f.status /\ r.open_until = f.open_until
  BY RollWindowType DEF RollWindow
<1> HIDE DEF r
<1>2. p.status = f.status /\ p.open_until = f.open_until
  BY <1>1
<1> HIDE DEF p
<1>3. HalfOpenIfDue(p, t) = p /\ HealthyIfDrained(p) = p
  BY <1>2 DEF HalfOpenIfDue, BackoffOver, HealthyIfDrained
<1> QED BY <1>2, <1>3 DEF Refresh, r, p

\* An attempt that can be granted at a reading t is announced at any later time:
\* no circuit is open by then, and a used-up window is over.
LEMMA GrantAnnounced ==
    ASSUME NEW g \in GovernorFile, NEW t \in Nat, NEW n \in Nat, t <= n,
           Coherent(g, n), CanAttempt(Refresh(g, t), t)
    PROVE  /\ EffectiveStatus(g, n) # "OPEN"
           /\ g.attempts_in_window >= Capacity(g)
                 => WindowStart(g, n) + WindowSeconds <= n
<1> DEFINE f == Refresh(g, t)
<1>1. f \in GovernorFile
  BY RefreshType
<1>2. /\ f.status # "OPEN" \/ BackoffOver(f, t)
      /\ f.attempts_in_window < Capacity(f)
  BY <1>1 DEF CanAttempt, EffectiveStatus
<1>3. EffectiveStatus(g, n) # "OPEN"
  <2> SUFFICES ASSUME EffectiveStatus(g, n) = "OPEN" PROVE FALSE
    OBVIOUS
  <2>1. g.status = "OPEN" /\ ~BackoffOver(g, n)
    BY DEF EffectiveStatus
  <2>2. g.open_until \in Nat /\ g.open_until > n
    BY <2>1 DEF BackoffOver, Coherent
  <2>3. ~BackoffOver(g, t)
    BY <2>2 DEF BackoffOver
  <2>4. f.status = "OPEN" /\ f.open_until = g.open_until
    BY <2>1, <2>3, RefreshKeepsOpen
  <2> HIDE DEF f
  <2> QED BY <1>2, <2>2, <2>4 DEF BackoffOver
<1>4. ASSUME g.attempts_in_window >= Capacity(g)
      PROVE  WindowStart(g, n) + WindowSeconds <= n
  <2>1. WindowElapsed(g, t)
    <3>1. ~WindowElapsed(g, t) => /\ f.capacity = g.capacity
                                  /\ f.attempts_in_window = g.attempts_in_window
      BY RefreshCounts
    <3>2. Capacity(g) \in Nat /\ g.attempts_in_window \in Nat
      BY CapacityType
    <3> HIDE DEF f
    <3> QED BY <1>2, <1>4, <3>1, <3>2 DEF Capacity
  <2> QED BY <2>1, TimingAssumption DEF WindowElapsed, WindowStart
<1> QED BY <1>3, <1>4

\* The same of what the report says.
LEMMA GrantReported ==
    ASSUME NEW g \in GovernorFile, NEW t \in Nat, NEW n \in Nat, t <= n,
           Coherent(g, n), CanAttempt(Refresh(g, t), t)
    PROVE  LET report == Report(g, n)
           IN  IF report.next_available_at = None
               THEN report.remaining > 0 /\ report.status # "OPEN"
               ELSE report.next_available_at <= n
<1>1. /\ EffectiveStatus(g, n) # "OPEN"
      /\ g.attempts_in_window >= Capacity(g)
            => WindowStart(g, n) + WindowSeconds <= n
  BY GrantAnnounced
<1>2. /\ Report(g, n).next_available_at = NextAvailableAt(g, n)
      /\ Report(g, n).status = EffectiveStatus(g, n)
      /\ Report(g, n).remaining
            = Larger(0, Capacity(g) - g.attempts_in_window)
  BY DEF Report
<1>3. Capacity(g) \in Nat /\ g.attempts_in_window \in Nat
  BY CapacityType
<1>4. CASE g.attempts_in_window >= Capacity(g)
  <2>1. NextAvailableAt(g, n) = WindowStart(g, n) + WindowSeconds
    BY <1>1, <1>4 DEF NextAvailableAt
  <2>2. NextAvailableAt(g, n) \in Nat
    BY <2>1, TimingAssumption DEF WindowStart
  <2> QED BY <1>1, <1>2, <1>4, <2>1, <2>2, NoneAssumption
<1>5. CASE ~(g.attempts_in_window >= Capacity(g))
  <2>1. NextAvailableAt(g, n) = None
    BY <1>1, <1>5 DEF NextAvailableAt
  <2> QED BY <1>1, <1>2, <1>3, <1>5, <2>1 DEF Larger
<1> QED BY <1>4, <1>5

\* A refresh leaves no circuit open whose time has come, nor opens one.
LEMMA RefreshWakes ==
    ASSUME NEW f \in GovernorFile, NEW t \in Nat
    PROVE  Refresh(f, t).status = "OPEN" => f.status = "OPEN" /\ ~BackoffOver(f, t)
<1> DEFINE r == RollWindow(f, t)
           p == [r EXCEPT !.queue = Unexpired(r.queue, t)]
           h == HalfOpenIfDue(p, t)
<1>1. r \in GovernorFile /\ r.status = f.status /\ r.open_until = f.open_until
  BY RollWindowType DEF RollWindow
<1> HIDE DEF r
<1>2. p \in GovernorFile /\ p.status = f.status /\ p.open_until = f.open_until
  BY <1>1 DEF Unexpired
<1> HIDE DEF p
<1>3. BackoffOver(p, t) <=> BackoffOver(f, t)
  BY <1>2 DEF BackoffOver
<1>4. h.status = "OPEN" => f.status = "OPEN" /\ ~BackoffOver(f, t)
  BY <1>2, <1>3 DEF HalfOpenIfDue, BackoffOver
<1>5. HealthyIfDrained(h).status = "OPEN" => h.status = "OPEN"
  <2>1. h \in GovernorFile
    BY <1>2 DEF HalfOpenIfDue
  <2> QED BY <2>1 DEF HealthyIfDrained
<1>6. Refresh(f, t) = HealthyIfDrained(h)
  BY DEF Refresh, r, p
<1> HIDE DEF h
<1> QED BY <1>4, <1>5, <1>6

\* In a window that is over, after the end of the circuit, an attempt can be
\* granted unless a probe is under way or the capacity is 0 in every sense.
LEMMA AttemptDue ==
    ASSUME NEW g \in GovernorFile, NEW s \in Int, NEW t \in Nat, NEW n \in Nat,
           s <= t, t <= n, Coherent(g, n), InitialCapacity > 0,
           WindowElapsed(g, s), g.open_until # None => g.open_until <= s,
           ~Probing(g)
    PROVE  CanAttempt(Refresh(Load(g, t), t), t)
<1> DEFINE f == Refresh(Load(g, t), t)
<1>1. Load(g, t) = g
  BY NoFileAssumption DEF Load
<1>2. /\ f \in GovernorFile /\ Coherent(f, n)
      /\ ~f.half_open_in_flight
  BY Refreshed
<1>3. WindowElapsed(g, t)
  <2>1. g.window_started_at \in Nat
    OBVIOUS
  <2> QED BY <2>1, TimingAssumption DEF WindowElapsed, WindowStart
<1>4. f.attempts_in_window = 0 
  BY <1>1, <1>3, RefreshCounts
<1>5. Capacity(f) > 0
  BY <1>2, CapacityAssumption DEF Capacity
<1>6. f.status # "OPEN"
  <2> SUFFICES ASSUME f.status = "OPEN" PROVE FALSE
    OBVIOUS
  <2>1. g.status = "OPEN" /\ ~BackoffOver(g, t)
    BY <1>1, RefreshWakes
  <2>2. g.open_until \in Nat /\ g.open_until <= s
    BY <2>1 DEF Coherent
  <2> QED BY <2>1, <2>2 DEF BackoffOver, Coherent
<1> HIDE DEF f
<1>7. EffectiveStatus(f, t) # "OPEN"
  BY <1>6 DEF EffectiveStatus
<1>8. CanAttempt(f, t)
  BY <1>2, <1>4, <1>5, <1>7 DEF CanAttempt
<1> QED BY <1>8 DEF f

=============================================================================
