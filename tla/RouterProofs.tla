----------------------------- MODULE RouterProofs -----------------------------
(***************************************************************************)
(* Proofs about Router: the type invariant; a callback is turned away only *)
(* for an event that ended well; and what was answered and promised is not *)
(* given to Hermes again.                                                  *)
(*                                                                         *)
(* The last is not inductive by itself.  What carries it is what a promise *)
(* means while it lasts: the entry stands until the promised time, by the  *)
(* clock of the machine that is up; nobody is about to pop it; and whoever *)
(* is on the event came after the promise, knows of it, and has not got as *)
(* far as writing an entry.                                                *)
(***************************************************************************)
EXTENDS Router, TLAPS

Succeeded(e) == store[e] # NoEntry /\ store[e].status = "succeeded"

\* An entry that turns callbacks away is of a callback that ended well, and
\* ends with the TTL of it; one that was promised lasts as long as was promised.
EntryInv(e) ==
    /\ okAt[e] <= now
    /\ Succeeded(e) => okAt[e] > 0 /\ store[e].expires_at <= okAt[e] + Ttl
    /\ promised[e] > now =>
          /\ Succeeded(e)
          /\ promised[e] <= boot + store[e].expires_at

\* What the scan of an operation left in the dict was not expired by then.
Seen(c) ==
    /\ c.t <= now
    /\ c.phase # "scan" =>
          \A e \in Events :
              (c.phase = "pop" => e \notin c.gone) /\ Succeeded(e)
                  => c.t < okAt[e] + Ttl

\* While an event is promised nobody is about to pop its entry, and a call on
\* the event is turned away before it writes one.
Keeps(c) ==
    \A e \in Events :
        promised[e] > now =>
            /\ e \notin c.gone
            /\ c.event = e => c.at \in {"idle", "begin"} /\ c.phase # "write"

\* A call that came in after a promise finds it standing.
Knows(c) ==
    c.at = "begin" /\ c.until > now => promised[c.event] >= c.until

CallInv(c) ==
    /\ c.at # "idle" => c.event \in Events
    /\ Seen(c)
    /\ Keeps(c)
    /\ Knows(c)

IInv ==
    /\ TypeOK
    /\ now > 0
    /\ \A e \in Events : EntryInv(e)
    /\ \A w \in Workers : CallInv(worker[w])

-----------------------------------------------------------------------------
(* Calls and the store *)

USE TtlAssumption, NoEntryAssumption, RouterAssumption

LEMMA IdleCall == Idle \in Call
BY DEF Idle, Call, Steps, Phases

LEMMA IdleInv ==
    ASSUME now \in Nat
    PROVE  CallInv(Idle)
BY DEF Idle, CallInv, Seen, Keeps, Knows

\* The call after GoTo: only its step and its place in the next operation.
LEMMA GoToCall ==
    ASSUME TypeOK, NEW w \in Workers, NEW step \in Steps, GoTo(w, step)
    PROVE  /\ worker' \in [Workers -> Call]
           /\ \A v \in Workers : v # w => worker'[v] = worker[v]
           /\ worker'[w].at = step
           /\ worker'[w].phase = "scan"
           /\ worker'[w].t = 0
           /\ worker'[w].gone = {}
           /\ step # "idle" => worker'[w].event = worker[w].event
           /\ step # "idle" => worker'[w].until = worker[w].until
<1>1. worker \in [Workers -> Call] /\ worker[w] \in Call
  BY DEF TypeOK
<1> DEFINE c == [worker[w] EXCEPT !.at = step, !.phase = "scan",
                                  !.t = 0, !.gone = {}]
<1>2. /\ c \in Call
      /\ c.at = step /\ c.phase = "scan" /\ c.t = 0 /\ c.gone = {}
      /\ c.event = worker[w].event /\ c.until = worker[w].until
  BY <1>1 DEF Call, Phases
<1>3. CASE step = "idle"
  <2>1. worker' = [worker EXCEPT ![w] = Idle]
    BY <1>3 DEF GoTo
  <2> QED BY <2>1, <1>1, <1>3, IdleCall DEF Idle
<1>4. CASE step # "idle"
  <2>1. worker' = [worker EXCEPT ![w] = c]
    BY <1>4 DEF GoTo
  <2> HIDE DEF c
  <2> QED BY <2>1, <1>1, <1>2, <1>4
<1> QED BY <1>3, <1>4

LEMMA WithoutType ==
    ASSUME NEW s \in Store, NEW gone
    PROVE  /\ Without(s, gone) \in Store
           /\ \A x \in Events :
                 Without(s, gone)[x] = IF x \in gone THEN NoEntry ELSE s[x]
BY DEF Store, Without

LEMMA MarkedType ==
    ASSUME NEW s \in Store, NEW e \in Events,
           NEW status \in {"processing", "succeeded", "failed"}, NEW t \in Nat
    PROVE  /\ Marked(s, e, status, t) \in Store
           /\ \A x \in Events : x # e => Marked(s, e, status, t)[x] = s[x]
           /\ Marked(s, e, status, t)[e]
                = [status |-> status, expires_at |-> t + Ttl]
BY DEF Store, Marked, Entry

LEMMA InitInv == Init => IInv
<1> SUFFICES ASSUME Init PROVE IInv
  OBVIOUS
<1>1. TypeOK /\ now > 0
  BY IdleCall DEF Init, TypeOK, Empty, Store
<1>2. ASSUME NEW e \in Events PROVE EntryInv(e)
  BY DEF Init, EntryInv, Succeeded, Empty
<1>3. ASSUME NEW w \in Workers PROVE CallInv(worker[w])
  BY IdleInv DEF Init
<1> QED BY <1>1, <1>2, <1>3 DEF IInv

-----------------------------------------------------------------------------
(* Steps *)

\* What a step must do: keep the invariant, and give no promised event to
\* Hermes.
Good == IInv' /\ \A w \in Workers : Claims(w) => now >= worker[w].until

\* A step of one call that writes no entry, and drops none that is promised.
LEMMA CallStep ==
    ASSUME IInv, NEW w \in Workers,
           store' \in Store,
           \A e \in Events : \/ store'[e] = store[e]
                             \/ store'[e] = NoEntry /\ promised[e] <= now,
           UNCHANGED <<mode, now, boot, okAt, promised>>,
           worker' \in [Workers -> Call],
           \A v \in Workers : v # w => worker'[v] = worker[v],
           CallInv(worker[w])',
           worker[w].at = "begin" => worker'[w].at # "hermes"
    PROVE  Good
<1>1. TypeOK' /\ now' > 0
  BY DEF IInv, TypeOK
<1>2. ASSUME NEW e \in Events PROVE EntryInv(e)'
  <2>1. CASE store'[e] = store[e]
    BY <2>1 DEF IInv, EntryInv, Succeeded
  <2>2. CASE store'[e] = NoEntry /\ promised[e] <= now
    <3>1. now \in Nat /\ promised[e] \in Nat /\ okAt[e] <= now
      BY DEF IInv, TypeOK, EntryInv
    <3> QED BY <2>2, <3>1 DEF EntryInv, Succeeded
  <2> QED BY <2>1, <2>2
<1>3. ASSUME NEW v \in Workers PROVE CallInv(worker[v])'
  <2>1. CASE v # w
    <3>1. worker'[v] = worker[v] /\ CallInv(worker[v])
      BY <2>1 DEF IInv
    <3>2. \A e \in Events : Succeeded(e)' => Succeeded(e)
      BY DEF Succeeded
    <3>3. Seen(worker[v])'
      BY <3>1, <3>2 DEF CallInv, Seen
    <3>4. Keeps(worker[v])' /\ Knows(worker[v])'
      BY <3>1 DEF CallInv, Keeps, Knows
    <3> QED BY <3>1, <3>3, <3>4 DEF CallInv
  <2> QED BY <2>1
<1>4. ASSUME NEW v \in Workers, Claims(v) PROVE FALSE
  BY <1>4 DEF Claims
<1> QED BY <1>1, <1>2, <1>3, <1>4 DEF Good, IInv

LEMMA GoToStep ==
    ASSUME IInv, NEW w \in Workers, NEW step \in Steps \ {"begin"},
           store' \in Store,
           \A e \in Events : \/ store'[e] = store[e]
                             \/ store'[e] = NoEntry /\ promised[e] <= now,
           UNCHANGED <<mode, now, boot, okAt, promised>>,
           GoTo(w, step),
           worker[w].at \in {"idle", "begin"} => step = "idle"
    PROVE  Good
<1>1. TypeOK /\ CallInv(worker[w]) /\ worker[w] \in Call /\ now \in Nat
  BY DEF IInv, TypeOK
<1>2. /\ worker' \in [Workers -> Call]
      /\ \A v \in Workers : v # w => worker'[v] = worker[v]
      /\ worker'[w].at = step
      /\ worker'[w].phase = "scan"
      /\ worker'[w].t = 0
      /\ worker'[w].gone = {}
      /\ step # "idle" => worker'[w].event = worker[w].event
  BY <1>1, GoToCall
<1>3. CallInv(worker[w])'
  <2>1. (worker[w].at # "idle" => worker[w].event \in Events)'
    BY <1>1, <1>2 DEF CallInv
  <2>2. Seen(worker[w])'
    BY <1>1, <1>2 DEF Seen
  <2>3. Keeps(worker[w])'
    BY <1>1, <1>2 DEF CallInv, Keeps
  <2>4. Knows(worker[w])'
    BY <1>1, <1>2 DEF Knows
  <2> QED BY <2>1, <2>2, <2>3, <2>4 DEF CallInv
<1> QED BY <1>2, <1>3, CallStep

\* begin(), complete() or fail() writes its entry after what it found expired
\* is popped: nothing that is promised, and the event is not.
LEMMA WriteStep ==
    ASSUME IInv, NEW w \in Workers, worker[w].at \in Operations,
           NEW t \in Nat, t <= now, NEW gone \in SUBSET Events,
           \A e \in gone : promised[e] <= now,
           promised[worker[w].event] <= now,
           store' = Marked(Without(store, gone), worker[w].event,
                           StatusAfter(worker[w].at), t),
           Note(w, t),
           GoTo(w, Returned(worker[w].at)),
           UNCHANGED <<mode, now, boot>>
    PROVE  Good
<1> DEFINE step == worker[w].at
           on == worker[w].event
           status == StatusAfter(step)
<1>1. /\ TypeOK /\ worker[w] \in Call /\ on \in Events
      /\ CallInv(worker[w]) /\ now \in Nat /\ boot \in Nat /\ boot <= now
      /\ okAt \in [Events -> Nat] /\ promised \in [Events -> Nat]
      /\ store \in Store /\ now > 0
  BY DEF IInv, TypeOK, CallInv, Operations
<1>2. /\ status \in {"processing", "succeeded", "failed"}
      /\ status = "succeeded" <=> step = "complete"
      /\ Returned(step) \in {"hermes", "idle"}
      /\ step # "begin" => Returned(step) = "idle"
  BY DEF StatusAfter, Returned, Operations
<1> HIDE DEF status
<1>3. /\ worker' \in [Workers -> Call]
      /\ \A v \in Workers : v # w => worker'[v] = worker[v]
      /\ worker'[w].at = Returned(step)
      /\ worker'[w].phase = "scan"
      /\ worker'[w].t = 0
      /\ worker'[w].gone = {}
      /\ Returned(step) # "idle" => worker'[w].event = on
  <2>1. Returned(step) \in Steps
    BY <1>2 DEF Steps
  <2> QED BY <1>1, <2>1, GoToCall
<1>4. /\ store' \in Store
      /\ store'[on] = [status |-> status, expires_at |-> t + Ttl]
      /\ \A e \in Events : e # on =>
            store'[e] = IF e \in gone THEN NoEntry ELSE store[e]
  <2>1. /\ Without(store, gone) \in Store
        /\ \A x \in Events : Without(store, gone)[x]
              = IF x \in gone THEN NoEntry ELSE store[x]
    BY <1>1, WithoutType
  <2>2. store' = Marked(Without(store, gone), on, status, t)
    BY DEF status
  <2> QED BY <1>1, <1>2, <2>1, <2>2, MarkedType
<1>5. /\ okAt' \in [Events -> Nat]
      /\ \A e \in Events : e # on => okAt'[e] = okAt[e]
      /\ okAt'[on] = IF step = "complete" THEN now ELSE okAt[on]
  BY <1>1 DEF Note
<1>6. /\ promised' \in [Events -> Nat]
      /\ \A e \in Events : e # on => promised'[e] = promised[e]
      /\ promised'[on] = IF step = "complete" /\ Alone(w)
                         THEN boot + t + Ttl ELSE 0
  <2> DEFINE p == IF step = "complete" /\ Alone(w) THEN boot + t + Ttl ELSE 0
  <2>1. p \in Nat
    BY <1>1
  <2>2. promised' = [promised EXCEPT ![on] = p]
    BY DEF Note
  <2> HIDE DEF p
  <2>3. /\ promised' \in [Events -> Nat]
        /\ \A e \in Events : e # on => promised'[e] = promised[e]
        /\ promised'[on] = p
    BY <1>1, <2>1, <2>2
  <2> QED BY <2>3 DEF p
<1>7. TypeOK' /\ now' > 0
  BY <1>1, <1>3, <1>4, <1>5, <1>6 DEF TypeOK
<1>8. ASSUME NEW e \in Events PROVE EntryInv(e)'
  <2>1. CASE e = on
    <3>1. okAt[e] \in Nat /\ okAt[e] <= now
      BY <1>1 DEF IInv, EntryInv
    <3>2. okAt'[e] <= now
      BY <1>1, <1>5, <2>1, <3>1
    <3>3. Succeeded(e)' => step = "complete"
      BY <1>2, <1>4, <2>1 DEF Succeeded
    <3>4. Succeeded(e)' => okAt'[e] = now /\ store'[e].expires_at <= now + Ttl
      BY <1>1, <1>4, <1>5, <2>1, <3>3
    <3>5. promised'[e] > now => step = "complete"
      BY <1>1, <1>6, <2>1
    <3>6. promised'[e] > now => Succeeded(e)'
      BY <1>2, <1>4, <2>1, <3>5 DEF Succeeded, Entry
    <3>7. promised'[e] > now => promised'[e] <= boot + store'[e].expires_at
      BY <1>1, <1>4, <1>6, <2>1
    <3> QED BY <1>1, <3>2, <3>4, <3>6, <3>7 DEF EntryInv
  <2>2. CASE e # on
    <3>1. EntryInv(e)
      BY DEF IInv
    <3> QED BY <1>1, <1>4, <1>5, <1>6, <2>2, <3>1 DEF EntryInv, Succeeded
  <2> QED BY <2>1, <2>2
<1>9. ASSUME NEW v \in Workers PROVE CallInv(worker[v])'
  <2>1. CASE v = w
    <3>1. (worker[w].at # "idle" => worker[w].event \in Events)'
      BY <1>1, <1>3
    <3>2. Seen(worker[w])'
      BY <1>1, <1>3 DEF Seen
    <3>3. Keeps(worker[w])'
      BY <1>1, <1>2, <1>3, <1>6 DEF Keeps
    <3>4. Knows(worker[w])'
      BY <1>1, <1>2, <1>3 DEF Knows
    <3> QED BY <2>1, <3>1, <3>2, <3>3, <3>4 DEF CallInv
  <2>2. CASE v # w
    <3>1. worker'[v] = worker[v] /\ CallInv(worker[v]) /\ worker[v] \in Call
      BY <1>1, <1>3, <2>2 DEF IInv, TypeOK
    <3>2. Seen(worker[v])'
      <4>1. worker[v].t \in Nat /\ worker[v].t <= now
        BY <3>1 DEF CallInv, Seen, Call
      <4>2. ASSUME NEW e \in Events,
                   worker[v].phase # "scan", Succeeded(e)',
                   worker[v].phase = "pop" => e \notin worker[v].gone
            PROVE  worker[v].t < okAt'[e] + Ttl
        <5>1. CASE e = on
          BY <1>1, <1>2, <1>4, <1>5, <4>1, <4>2, <5>1 DEF Succeeded
        <5>2. CASE e # on
          <6>1. Succeeded(e)
            BY <1>4, <4>2, <5>2 DEF Succeeded
          <6> QED BY <1>5, <3>1, <4>2, <5>2, <6>1 DEF CallInv, Seen
        <5> QED BY <5>1, <5>2
      <4> QED BY <3>1, <4>1, <4>2 DEF Seen
    <3>3. Keeps(worker[v])'
      <4> SUFFICES ASSUME NEW e \in Events, promised'[e] > now
                   PROVE  /\ e \notin worker[v].gone
                          /\ worker[v].event = e =>
                                /\ worker[v].at \in {"idle", "begin"}
                                /\ worker[v].phase # "write"
        BY <3>1 DEF Keeps
      <4>1. CASE e = on
        <5>1. Alone(w)
          BY <1>1, <1>6, <4>1
        <5> QED BY <5>1, <4>1, <2>2 DEF Alone
      <4>2. CASE e # on
        BY <1>6, <4>2, <3>1 DEF CallInv, Keeps
      <4> QED BY <4>1, <4>2
    <3>4. Knows(worker[v])'
      <4> SUFFICES ASSUME worker[v].at = "begin", worker[v].until > now
                   PROVE  promised'[worker[v].event] >= worker[v].until
        BY <3>1 DEF Knows
      <4>1. worker[v].event \in Events /\ worker[v].until \in Nat
        BY <3>1 DEF CallInv, Call
      <4>2. promised[worker[v].event] >= worker[v].until
        BY <3>1 DEF CallInv, Knows
      <4>3. worker[v].event # on
        BY <1>1, <4>1, <4>2
      <4> QED BY <1>6, <4>1, <4>2, <4>3
    <3> QED BY <3>1, <3>2, <3>3, <3>4 DEF CallInv
  <2> QED BY <2>1, <2>2
<1>10. ASSUME NEW v \in Workers, Claims(v) PROVE now >= worker[v].until
  <2>1. v = w
    BY <1>3, <1>10 DEF Claims
  <2>2. worker[w].at = "begin" /\ worker[w].until \in Nat
    BY <1>1, <1>10, <2>1 DEF Claims, Call
  <2> QED BY <1>1, <2>1, <2>2 DEF CallInv, Knows
<1> QED BY <1>7, <1>8, <1>9, <1>10 DEF Good, IInv

-----------------------------------------------------------------------------
(* What an operation pops and what it turns away *)

\* A reading of the clock is not ahead of it, so nothing promised has expired.
LEMMA ExpiredUnpromised ==
    ASSUME IInv, NEW t \in Nat, boot + t <= now
    PROVE  \A e \in Expired(store, t) : e \in Events /\ promised[e] <= now
<1> SUFFICES ASSUME NEW e \in Expired(store, t) PROVE promised[e] <= now
  BY DEF Expired
<1>1. /\ e \in Events /\ store[e] # NoEntry /\ store[e].expires_at <= t
      /\ EntryInv(e)
  BY DEF Expired, IInv
<1>2. /\ store[e].expires_at \in Nat /\ promised[e] \in Nat
      /\ now \in Nat /\ boot \in Nat
  BY <1>1 DEF IInv, TypeOK, Store, Entry
<1> QED BY <1>1, <1>2 DEF EntryInv

LEMMA ReadingTime ==
    ASSUME TypeOK, NEW r \in now - MaxLag .. now, r >= boot
    PROVE  /\ r - boot \in Nat /\ boot + (r - boot) <= now /\ r - boot <= now
           /\ boot + (r - boot) = r /\ r >= now - MaxLag
BY DEF TypeOK

\* What an operation on the file finds when it is about to decide.
LEMMA FileLive ==
    ASSUME IInv, NEW t \in Nat, boot + t <= now,
           NEW e \in Events
    PROVE  LET live == Without(store, Expired(store, t))
           IN  /\ live \in Store
               /\ \A x \in Events : \/ live[x] = store[x]
                                    \/ live[x] = NoEntry /\ promised[x] <= now
               /\ IsDuplicate(live, e) =>
                     Succeeded(e) /\ t < store[e].expires_at
               /\ promised[e] > now => IsDuplicate(live, e)
<1>1. store \in Store /\ now \in Nat /\ promised[e] \in Nat
  BY DEF IInv, TypeOK
<1> DEFINE gone == Expired(store, t)
           live == Without(store, gone)
<1>2. /\ live \in Store
      /\ \A x \in Events : live[x] = IF x \in gone THEN NoEntry ELSE store[x]
  BY <1>1, WithoutType
<1>3. \A x \in gone : x \in Events /\ promised[x] <= now
  BY ExpiredUnpromised
<1>4. IsDuplicate(live, e) => Succeeded(e) /\ t < store[e].expires_at
  <2> SUFFICES ASSUME IsDuplicate(live, e)
               PROVE  Succeeded(e) /\ t < store[e].expires_at
    OBVIOUS
  <2>1. e \notin gone /\ live[e] = store[e] /\ Succeeded(e)
    BY <1>2 DEF IsDuplicate, Succeeded
  <2>2. store[e].expires_at \in Nat
    BY <1>1, <2>1 DEF Store, Entry, Succeeded
  <2> QED BY <2>1, <2>2 DEF Expired, Succeeded
<1>5. promised[e] > now => IsDuplicate(live, e)
  <2> SUFFICES ASSUME promised[e] > now PROVE IsDuplicate(live, e)
    OBVIOUS
  <2>1. Succeeded(e)
    BY DEF IInv, EntryInv
  <2>2. e \notin gone
    BY <1>1, <1>3
  <2> QED BY <1>2, <2>1, <2>2 DEF IsDuplicate, Succeeded
<1> QED BY <1>2, <1>3, <1>4, <1>5

-----------------------------------------------------------------------------
(* One lemma per action *)

LEMMA ReceiveGood ==
    ASSUME IInv, NEW w \in Workers, NEW e \in Events, Receive(w, e)
    PROVE  Good
<1>1. /\ now \in Nat /\ promised \in [Events -> Nat] /\ store \in Store
      /\ worker \in [Workers -> Call]
  BY DEF IInv, TypeOK
<1>2. PICK u \in Nat : u = IF promised[e] > now THEN promised[e] ELSE 0
  BY <1>1
<1> DEFINE c == [Idle EXCEPT !.at = "begin", !.event = e, !.until = u]
<1>3. /\ c \in Call
      /\ c.at = "begin" /\ c.event = e /\ c.until = u
      /\ c.phase = "scan" /\ c.t = 0 /\ c.gone = {}
  BY IdleCall DEF Idle, Call, Steps
<1>4. worker' = [worker EXCEPT ![w] = c]
  BY <1>2 DEF Receive
<1> HIDE DEF c
<1>5. /\ worker' \in [Workers -> Call]
      /\ worker'[w] = c
      /\ \A v \in Workers : v # w => worker'[v] = worker[v]
  BY <1>1, <1>3, <1>4
<1>6. UNCHANGED <<mode, store, now, boot, okAt, promised>>
  BY DEF Receive
<1>7. CallInv(worker[w])'
  <2>1. (worker[w].at # "idle" => worker[w].event \in Events)'
    BY <1>3, <1>5
  <2>2. Seen(worker[w])' /\ Keeps(worker[w])'
    BY <1>1, <1>3, <1>5, <1>6 DEF Seen, Keeps
  <2>3. Knows(worker[w])'
    BY <1>1, <1>2, <1>3, <1>5, <1>6 DEF Knows
  <2> QED BY <2>1, <2>2, <2>3 DEF CallInv
<1> QED BY <1>1, <1>3, <1>5, <1>6, <1>7, CallStep

LEMMA FileAcknowledgeGood ==
    ASSUME IInv, NEW w \in Workers, FileAcknowledge(w)
    PROVE  Good
<1>1. TypeOK /\ worker[w].event \in Events /\ worker[w].at = "begin"
  BY DEF IInv, CallInv, FileAcknowledge
<1>2. PICK r \in now - MaxLag .. now :
          r >= boot /\ store' = Without(store, Expired(store, r - boot))
  BY DEF FileAcknowledge
<1>3. PICK t \in Nat : t = r - boot /\ boot + t <= now
  BY <1>1, <1>2, ReadingTime
<1>4. /\ store' \in Store
      /\ \A x \in Events : \/ store'[x] = store[x]
                           \/ store'[x] = NoEntry /\ promised[x] <= now
  BY <1>1, <1>2, <1>3, FileLive
<1>5. GoTo(w, "idle") /\ UNCHANGED <<mode, now, boot, okAt, promised>>
  BY DEF FileAcknowledge
<1> QED BY <1>4, <1>5, GoToStep DEF Steps

LEMMA FileOperationGood ==
    ASSUME IInv, NEW w \in Workers, FileOperation(w)
    PROVE  Good
<1>1. /\ TypeOK /\ worker[w].event \in Events /\ worker[w].at \in Operations
      /\ now \in Nat /\ boot \in Nat /\ promised \in [Events -> Nat]
      /\ CallInv(worker[w])
  BY DEF IInv, TypeOK, CallInv, FileOperation, Operations
<1>2. PICK r \in now - MaxLag .. now :
          /\ r >= boot
          /\ LET t == r - boot
                 live == Without(store, Expired(store, t))
             IN  /\ worker[w].at = "begin"
                       => ~IsDuplicate(live, worker[w].event)
                 /\ store' = Marked(live, worker[w].event,
                                    StatusAfter(worker[w].at), t)
                 /\ Note(w, t)
  BY DEF FileOperation
<1>3. PICK t \in Nat : t = r - boot /\ boot + t <= now /\ t <= now
  BY <1>1, <1>2, ReadingTime
<1>4. PICK gone \in SUBSET Events : gone = Expired(store, t)
  BY DEF Expired
<1>5. \A e \in gone : promised[e] <= now
  BY <1>3, <1>4, ExpiredUnpromised
<1>6. promised[worker[w].event] <= now
  <2>1. CASE worker[w].at = "begin"
    <3>1. ~IsDuplicate(Without(store, Expired(store, t)), worker[w].event)
      BY <1>2, <1>3, <2>1
    <3>2. ~(promised[worker[w].event] > now)
      BY <1>1, <1>3, <3>1, FileLive
    <3> QED BY <1>1, <3>2
  <2>2. CASE worker[w].at # "begin"
    BY <1>1, <2>2 DEF CallInv, Keeps, Operations
  <2> QED BY <2>1, <2>2
<1>7. /\ store' = Marked(Without(store, gone), worker[w].event,
                         StatusAfter(worker[w].at), t)
      /\ Note(w, t)
  BY <1>2, <1>3, <1>4
<1>8. GoTo(w, Returned(worker[w].at)) /\ UNCHANGED <<mode, now, boot>>
  BY DEF FileOperation
<1> QED BY <1>1, <1>3, <1>5, <1>6, <1>7, <1>8, WriteStep

\* A call of the dict's operations is on an event, and knows what its scan saw.
LEMMA PhaseFacts ==
    ASSUME IInv, NEW w \in Workers, worker[w].at \in Operations
    PROVE  /\ worker[w].event \in Events /\ worker[w] \in Call
           /\ worker[w].t \in Nat /\ worker[w].t <= now
           /\ worker[w].at # "idle" /\ CallInv(worker[w])
           /\ worker \in [Workers -> Call] /\ store \in Store
           /\ now \in Nat /\ boot \in Nat /\ boot <= now
           /\ promised \in [Events -> Nat] /\ okAt \in [Events -> Nat]
<1>1. worker[w] \in Call /\ CallInv(worker[w]) /\ worker[w].at # "idle"
  BY DEF IInv, TypeOK, Operations
<1> QED BY <1>1 DEF IInv, TypeOK, CallInv, Seen, Call

LEMMA MemoryScanGood ==
    ASSUME IInv, NEW w \in Workers, MemoryScan(w)
    PROVE  Good
<1>1. worker[w].at \in Operations /\ worker[w].at # "hermes"
  BY DEF MemoryScan, InPhase, Operations
<1>2. PICK t \in Nat : t = now - boot /\ boot + t <= now /\ t <= now
  BY <1>1, PhaseFacts
<1>3. PICK gone \in SUBSET Events : gone = Expired(store, t)
  BY DEF Expired
<1>4. \A e \in gone : promised[e] <= now
  BY <1>2, <1>3, ExpiredUnpromised
<1>p. PICK phase \in {"pop", "look", "write"} :
          /\ phase = PhaseAfter(w, gone)
          /\ phase = "pop" <=> gone # {}
          /\ phase = "write" => worker[w].at # "begin"
  BY DEF PhaseAfter
<1> DEFINE c == [worker[w] EXCEPT !.phase = phase, !.t = t, !.gone = gone]
<1>5. /\ c \in Call
      /\ c.at = worker[w].at /\ c.event = worker[w].event
      /\ c.until = worker[w].until
      /\ c.phase = phase /\ c.t = t /\ c.gone = gone
  BY <1>1, PhaseFacts DEF Call, Phases
<1>6. worker' = [worker EXCEPT ![w] = c]
  BY <1>2, <1>3, <1>p DEF MemoryScan
<1> HIDE DEF c
<1>7. /\ worker' \in [Workers -> Call]
      /\ worker'[w] = c
      /\ \A v \in Workers : v # w => worker'[v] = worker[v]
  BY <1>1, <1>5, <1>6, PhaseFacts
<1>8. UNCHANGED <<mode, store, now, boot, okAt, promised>> /\ store \in Store
  BY <1>1, PhaseFacts DEF MemoryScan
<1>9. CallInv(worker[w])'
  <2>1. (worker[w].at # "idle" => worker[w].event \in Events)'
    BY <1>1, <1>5, <1>7, PhaseFacts
  <2>2. Seen(worker[w])'
    <3>1. ASSUME NEW e \in Events \ gone, Succeeded(e) PROVE t < okAt[e] + Ttl
      <4>1. store[e].expires_at \in Nat /\ ~(store[e].expires_at <= t)
        BY <1>3, <1>8, <3>1 DEF Succeeded, Expired, Store, Entry
      <4>2. store[e].expires_at <= okAt[e] + Ttl /\ okAt[e] \in Nat
        BY <3>1 DEF IInv, EntryInv, TypeOK
      <4> QED BY <4>1, <4>2
    <3> QED BY <1>2, <1>5, <1>7, <1>8, <1>p, <3>1 DEF Seen, Succeeded
  <2>3. Keeps(worker[w])'
    <3>1. \A e \in Events : promised[e] > now => e \notin gone
      BY <1>1, <1>4, PhaseFacts
    <3>2. Keeps(worker[w])
      BY <1>1, PhaseFacts DEF CallInv
    <3>3. \A e \in Events : promised[e] > now /\ worker[w].event = e
                               => worker[w].at = "begin"
      BY <1>1, <3>2 DEF Keeps, Operations
    <3> QED BY <1>5, <1>7, <1>8, <1>p, <3>1, <3>3 DEF Keeps
  <2>4. Knows(worker[w])'
    <3>1. Knows(worker[w])
      BY <1>1, PhaseFacts DEF CallInv
    <3> QED BY <1>5, <1>7, <1>8, <3>1 DEF Knows
  <2> QED BY <2>1, <2>2, <2>3, <2>4 DEF CallInv
<1> QED BY <1>1, <1>5, <1>7, <1>8, <1>9, CallStep

LEMMA MemoryPopGood ==
    ASSUME IInv, NEW w \in Workers, MemoryPop(w)
    PROVE  Good
<1>1. worker[w].at \in Operations /\ worker[w].at # "hermes"
      /\ worker[w].phase = "pop"
  BY DEF MemoryPop, InPhase, Operations
<1>2. PICK e \in worker[w].gone :
        /\ store' = Without(store, {e})
        /\ worker' = [worker EXCEPT ![w] =
              [@ EXCEPT !.phase = PhaseAfter(w, worker[w].gone \ {e}),
                        !.gone = worker[w].gone \ {e}]]
  BY DEF MemoryPop
<1>3. PICK left \in SUBSET Events : left = worker[w].gone \ {e}
  BY <1>1, PhaseFacts DEF Call
<1>4. PICK phase \in {"pop", "look", "write"} :
          /\ phase = PhaseAfter(w, left)
          /\ phase = "pop" <=> left # {}
          /\ phase = "write" => worker[w].at # "begin"
  BY DEF PhaseAfter
<1> DEFINE c == [worker[w] EXCEPT !.phase = phase, !.gone = left]
<1>5. /\ c \in Call
      /\ c.at = worker[w].at /\ c.event = worker[w].event
      /\ c.until = worker[w].until /\ c.t = worker[w].t
      /\ c.phase = phase /\ c.gone = left
  BY <1>1, PhaseFacts DEF Call, Phases
<1>6. worker' = [worker EXCEPT ![w] = c]
  BY <1>2, <1>3, <1>4
<1> HIDE DEF c
<1>7. /\ worker' \in [Workers -> Call]
      /\ worker'[w] = c
      /\ \A v \in Workers : v # w => worker'[v] = worker[v]
  BY <1>1, <1>5, <1>6, PhaseFacts
<1>8. UNCHANGED <<mode, now, boot, okAt, promised>>
  BY DEF MemoryPop
<1>9. /\ store' \in Store
      /\ \A x \in Events : store'[x] = IF x = e THEN NoEntry ELSE store[x]
  BY <1>1, <1>2, PhaseFacts, WithoutType
<1>10. Keeps(worker[w]) /\ Seen(worker[w]) /\ Knows(worker[w])
  BY <1>1, PhaseFacts DEF CallInv
<1>11. \A x \in Events : \/ store'[x] = store[x]
                         \/ store'[x] = NoEntry /\ promised[x] <= now
  <2>1. e \in Events /\ ~(promised[e] > now)
    BY <1>1, <1>2, <1>10, PhaseFacts DEF Call, Keeps
  <2> QED BY <1>1, <1>9, <2>1, PhaseFacts
<1>12. CallInv(worker[w])'
  <2>1. (worker[w].at # "idle" => worker[w].event \in Events)'
    BY <1>1, <1>5, <1>7, PhaseFacts
  <2>2. Seen(worker[w])'
    <3>1. \A x \in Events :
             Succeeded(x)' /\ x \notin left
                => Succeeded(x) /\ x \notin worker[w].gone
      BY <1>3, <1>9 DEF Succeeded
    <3>2. \A x \in Events : (c.phase = "pop" => x \notin c.gone) => x \notin left
      BY <1>4, <1>5
    <3> QED BY <1>1, <1>5, <1>7, <1>8, <1>10, <3>1, <3>2 DEF Seen
  <2>3. Keeps(worker[w])'
    <3>1. \A x \in Events : promised[x] > now /\ worker[w].event = x
                               => worker[w].at = "begin"
      BY <1>1, <1>10 DEF Keeps, Operations
    <3>2. \A x \in Events : promised[x] > now => x \notin left
      BY <1>3, <1>10 DEF Keeps
    <3> QED BY <1>4, <1>5, <1>7, <1>8, <3>1, <3>2 DEF Keeps
  <2>4. Knows(worker[w])'
    BY <1>5, <1>7, <1>8, <1>10 DEF Knows
  <2> QED BY <2>1, <2>2, <2>3, <2>4 DEF CallInv
<1> QED BY <1>1, <1>5, <1>7, <1>8, <1>9, <1>11, <1>12, CallStep

LEMMA MemoryAcknowledgeGood ==
    ASSUME IInv, NEW w \in Workers, MemoryAcknowledge(w)
    PROVE  Good
<1>1. /\ GoTo(w, "idle") /\ store \in Store
      /\ UNCHANGED <<mode, store, now, boot, okAt, promised>>
  BY DEF IInv, TypeOK, MemoryAcknowledge
<1> QED BY <1>1, GoToStep DEF Steps

LEMMA MemoryLookGood ==
    ASSUME IInv, NEW w \in Workers, MemoryLook(w)
    PROVE  Good
<1>1. worker[w].at \in Operations /\ worker[w].at # "hermes"
      /\ worker[w].phase = "look"
  BY DEF MemoryLook, InPhase, Operations
<1> DEFINE c == [worker[w] EXCEPT !.phase = "write"]
<1>2. /\ c \in Call
      /\ c.at = worker[w].at /\ c.event = worker[w].event
      /\ c.until = worker[w].until /\ c.t = worker[w].t
      /\ c.phase = "write" /\ c.gone = worker[w].gone
  BY <1>1, PhaseFacts DEF Call, Phases
<1>3. worker' = [worker EXCEPT ![w] = c]
  BY DEF MemoryLook
<1> HIDE DEF c
<1>4. /\ worker' \in [Workers -> Call]
      /\ worker'[w] = c
      /\ \A v \in Workers : v # w => worker'[v] = worker[v]
  BY <1>1, <1>2, <1>3, PhaseFacts
<1>5. UNCHANGED <<mode, store, now, boot, okAt, promised>> /\ store \in Store
  BY <1>1, PhaseFacts DEF MemoryLook
<1>6. CallInv(worker[w])'
  <2>1. (worker[w].at # "idle" => worker[w].event \in Events)'
    BY <1>1, <1>2, <1>4, PhaseFacts
  <2>2. Seen(worker[w])'
    <3>1. Seen(worker[w])
      BY <1>1, PhaseFacts DEF CallInv
    <3> QED BY <1>1, <1>2, <1>4, <1>5, <3>1 DEF Seen, Succeeded
  <2>3. Keeps(worker[w])'
    <3>1. Keeps(worker[w])
      BY <1>1, PhaseFacts DEF CallInv
    <3>2. ~Succeeded(worker[w].event)
      BY DEF MemoryLook, IsDuplicate, Succeeded
    <3>3. ~(promised[worker[w].event] > now)
      BY <1>1, <3>2, PhaseFacts DEF IInv, EntryInv
    <3> QED BY <1>2, <1>4, <1>5, <3>1, <3>3 DEF Keeps
  <2>4. Knows(worker[w])'
    <3>1. Knows(worker[w])
      BY <1>1, PhaseFacts DEF CallInv
    <3> QED BY <1>2, <1>4, <1>5, <3>1 DEF Knows
  <2> QED BY <2>1, <2>2, <2>3, <2>4 DEF CallInv
<1> QED BY <1>1, <1>2, <1>4, <1>5, <1>6, CallStep

LEMMA MemoryWriteGood ==
    ASSUME IInv, NEW w \in Workers, MemoryWrite(w)
    PROVE  Good
<1>1. worker[w].at \in Operations /\ worker[w].phase = "write"
  BY DEF MemoryWrite, InPhase
<1>2. PICK t \in Nat : t = worker[w].t /\ t <= now
  BY <1>1, PhaseFacts
<1>3. promised[worker[w].event] <= now
  <2>1. ~(promised[worker[w].event] > now)
    BY <1>1, PhaseFacts DEF CallInv, Keeps
  <2> QED BY <1>1, <2>1, PhaseFacts
<1>4. Without(store, {}) = store
  BY <1>1, PhaseFacts DEF Without, Store
<1>5. /\ store' = Marked(Without(store, {}), worker[w].event,
                         StatusAfter(worker[w].at), t)
      /\ Note(w, t)
      /\ GoTo(w, Returned(worker[w].at))
      /\ UNCHANGED <<mode, now, boot>>
  BY <1>2, <1>4 DEF MemoryWrite
<1> QED BY <1>1, <1>2, <1>3, <1>5, WriteStep

LEMMA OperationRaisesGood ==
    ASSUME IInv, NEW w \in Workers, OperationRaises(w)
    PROVE  Good
<1>1. /\ GoTo(w, Raised(worker[w].at)) /\ store \in Store
      /\ UNCHANGED <<mode, store, now, boot, okAt, promised>>
      /\ worker[w].at \in Operations
  BY DEF IInv, TypeOK, OperationRaises
<1>2. /\ Raised(worker[w].at) \in Steps \ {"begin"}
      /\ worker[w].at \in {"idle", "begin"} => Raised(worker[w].at) = "idle"
  BY <1>1 DEF Raised, Operations, Steps
<1> QED BY <1>1, <1>2, GoToStep

\* The call goes on with its next attempt.
LEMMA AttemptGood ==
    ASSUME IInv, NEW w \in Workers, worker[w].at \in {"hermes", "send"},
           UNCHANGED <<mode, store, now, boot, okAt, promised>>,
           NEW n \in 0 .. RetryAttempts,
           worker' = [worker EXCEPT ![w] =
                        [worker[w] EXCEPT !.at = "send", !.attempt = n]]
    PROVE  Good
<1>1. /\ worker \in [Workers -> Call] /\ worker[w] \in Call
      /\ CallInv(worker[w]) /\ store \in Store
  BY DEF IInv, TypeOK
<1> DEFINE c == [worker[w] EXCEPT !.at = "send", !.attempt = n]
<1>2. /\ c \in Call
      /\ c.at = "send" /\ c.event = worker[w].event
      /\ c.t = worker[w].t
      /\ c.phase = worker[w].phase /\ c.gone = worker[w].gone
  BY <1>1 DEF Call, Steps
<1> HIDE DEF c
<1>3. /\ worker' \in [Workers -> Call]
      /\ worker'[w] = c
      /\ \A v \in Workers : v # w => worker'[v] = worker[v]
  BY <1>1, <1>2 DEF c
<1>4. CallInv(worker[w])'
  <2>1. (worker[w].at # "idle" => worker[w].event \in Events)'
    BY <1>1, <1>2, <1>3 DEF CallInv
  <2>2. Seen(worker[w])'
    BY <1>1, <1>2, <1>3 DEF CallInv, Seen, Succeeded
  <2>3. Keeps(worker[w])'
    BY <1>1, <1>2, <1>3 DEF CallInv, Keeps
  <2>4. Knows(worker[w])'
    BY <1>2, <1>3 DEF Knows
  <2> QED BY <2>1, <2>2, <2>3, <2>4 DEF CallInv
<1> QED BY <1>1, <1>3, <1>4, CallStep

LEMMA AskHermesGood ==
    ASSUME IInv, NEW w \in Workers, AskHermes(w)
    PROVE  Good
<1>1. /\ UNCHANGED <<mode, store, now, boot, okAt, promised>>
      /\ worker[w].at = "hermes" /\ store \in Store
  BY DEF IInv, TypeOK, AskHermes
<1>2. CASE worker' = [worker EXCEPT ![w].at = "send", ![w].attempt = 1]
  <2>1. worker' = [worker EXCEPT ![w] =
                     [worker[w] EXCEPT !.at = "send", !.attempt = 1]]
    BY <1>2 DEF IInv, TypeOK
  <2>2. 1 \in 0 .. RetryAttempts
    OBVIOUS
  <2> QED BY <1>1, <2>1, <2>2, AttemptGood
<1>3. CASE GoTo(w, "abort")
  BY <1>1, <1>3, GoToStep DEF Steps
<1> QED BY <1>2, <1>3 DEF AskHermes

LEMMA SendReplyGood ==
    ASSUME IInv, NEW w \in Workers, SendReply(w)
    PROVE  Good
<1>1. /\ UNCHANGED <<mode, store, now, boot, okAt, promised>>
      /\ worker[w].at = "send" /\ store \in Store
      /\ worker \in [Workers -> Call] /\ worker[w] \in Call
  BY DEF IInv, TypeOK, SendReply
<1>2. CASE GoTo(w, "complete") \/ GoTo(w, "fail") \/ GoTo(w, "abort")
  BY <1>1, <1>2, GoToStep DEF Steps
<1>3. CASE /\ worker[w].attempt < RetryAttempts
           /\ worker' = [worker EXCEPT ![w].attempt = @ + 1]
  <2>1. PICK n \in 0 .. RetryAttempts : n = worker[w].attempt + 1
    BY <1>1, <1>3 DEF Call
  <2>2. [worker[w] EXCEPT !.attempt = @ + 1]
          = [worker[w] EXCEPT !.at = "send", !.attempt = n]
    BY <1>1, <2>1 DEF Call
  <2>3. worker' = [worker EXCEPT ![w] =
                     [worker[w] EXCEPT !.at = "send", !.attempt = n]]
    BY <1>1, <1>3, <2>2
  <2> QED BY <1>1, <2>3, AttemptGood
<1> QED BY <1>2, <1>3 DEF SendReply, Again

LEMMA DieGood ==
    ASSUME IInv, NEW w \in Workers, Die(w)
    PROVE  Good
<1>1. /\ GoTo(w, "idle") /\ store \in Store
      /\ UNCHANGED <<mode, store, now, boot, okAt, promised>>
  BY DEF IInv, TypeOK, Die
<1> QED BY <1>1, GoToStep DEF Steps

\* All calls end with the machine or with the process.
LEMMA AllIdle ==
    ASSUME now \in Nat, worker' = [w \in Workers |-> Idle], now' = now
    PROVE  /\ worker' \in [Workers -> Call]
           /\ \A w \in Workers : CallInv(worker[w])'
           /\ \A w \in Workers : ~Claims(w)
<1>1. worker' \in [Workers -> Call]
  BY IdleCall
<1>2. \A w \in Workers : worker'[w] = Idle
  OBVIOUS
<1>3. ASSUME NEW w \in Workers PROVE CallInv(worker[w])'
  BY <1>2 DEF Idle, CallInv, Seen, Keeps, Knows
<1>4. ASSUME NEW w \in Workers PROVE ~Claims(w)
  BY <1>2 DEF Idle, Claims
<1> QED BY <1>1, <1>3, <1>4

LEMMA RebootGood ==
    ASSUME IInv, Reboot
    PROVE  Good
<1>1. /\ worker' = [w \in Workers |-> Idle] /\ boot' = now
      /\ UNCHANGED <<mode, store, now, okAt, promised>>
      /\ now \in Nat /\ boot \in Nat /\ boot <= now
      /\ promised \in [Events -> Nat] /\ store \in Store
  BY DEF IInv, TypeOK, Reboot
<1>2. TypeOK' /\ now' > 0
  BY <1>1, AllIdle DEF IInv, TypeOK
<1>3. ASSUME NEW e \in Events PROVE EntryInv(e)'
  <2>1. EntryInv(e)
    BY DEF IInv
  <2>2. Succeeded(e) => store[e].expires_at \in Nat
    BY <1>1 DEF Succeeded, Store, Entry
  <2> QED BY <1>1, <2>1, <2>2 DEF EntryInv, Succeeded
<1> QED BY <1>1, <1>2, <1>3, AllIdle DEF Good, IInv

LEMMA RestartGood ==
    ASSUME IInv, Restart
    PROVE  Good
<1>1. /\ worker' = [w \in Workers |-> Idle] /\ store' = Empty
      /\ okAt' = [e \in Events |-> 0] /\ promised' = [e \in Events |-> 0]
      /\ UNCHANGED <<mode, now, boot>> /\ now \in Nat
  BY DEF IInv, TypeOK, Restart
<1>2. TypeOK' /\ now' > 0
  BY <1>1, AllIdle DEF IInv, TypeOK, Empty, Store
<1>3. ASSUME NEW e \in Events PROVE EntryInv(e)'
  BY <1>1 DEF EntryInv, Succeeded, Empty
<1> QED BY <1>1, <1>2, <1>3, AllIdle DEF Good, IInv

LEMMA TickGood ==
    ASSUME IInv, Tick
    PROVE  Good
<1>1. /\ now' = now + 1 /\ now \in Nat
      /\ UNCHANGED <<mode, store, boot, worker, okAt, promised>>
      /\ promised \in [Events -> Nat] /\ worker \in [Workers -> Call]
  BY DEF IInv, TypeOK, Tick
<1>2. TypeOK' /\ now' > 0
  BY <1>1 DEF IInv, TypeOK
<1>3. ASSUME NEW e \in Events PROVE EntryInv(e)'
  <2>1. EntryInv(e) /\ promised[e] \in Nat /\ okAt[e] \in Nat
    BY <1>1 DEF IInv, TypeOK
  <2> QED BY <1>1, <2>1 DEF EntryInv, Succeeded
<1>4. ASSUME NEW w \in Workers PROVE CallInv(worker[w])'
  <2>1. CallInv(worker[w]) /\ worker[w] \in Call
    BY <1>1 DEF IInv
  <2>2. worker[w].t \in Nat /\ worker[w].until \in Nat
    BY <2>1 DEF Call
  <2>3. Seen(worker[w])'
    BY <1>1, <2>1, <2>2 DEF CallInv, Seen, Succeeded
  <2>4. Keeps(worker[w])'
    BY <1>1, <2>1 DEF CallInv, Keeps
  <2>5. Knows(worker[w])'
    BY <1>1, <2>1, <2>2 DEF CallInv, Knows
  <2> QED BY <1>1, <2>1, <2>3, <2>4, <2>5 DEF CallInv
<1>5. ASSUME NEW w \in Workers PROVE ~Claims(w)
  BY <1>1 DEF Claims
<1> QED BY <1>2, <1>3, <1>4, <1>5 DEF Good, IInv

LEMMA NextGood ==
    ASSUME IInv, [Next]_vars
    PROVE  Good
<1>1. CASE UNCHANGED vars
  <2>1. UNCHANGED <<mode, store, now, boot, worker, okAt, promised>>
    BY <1>1 DEF vars
  <2>2. IInv'
    BY <2>1 DEF IInv, TypeOK, EntryInv, CallInv, Seen, Keeps, Knows, Succeeded
  <2>3. \A w \in Workers : ~Claims(w)
    BY <2>1 DEF Claims
  <2> QED BY <2>2, <2>3 DEF Good
<1>2. ASSUME NEW w \in Workers, NEW e \in Events, Receive(w, e) PROVE Good
  BY <1>2, ReceiveGood
<1>3. ASSUME NEW w \in Workers, GoOn(w) PROVE Good
  BY <1>3, FileAcknowledgeGood, MemoryAcknowledgeGood, FileOperationGood,
     MemoryScanGood, MemoryPopGood, MemoryLookGood, MemoryWriteGood,
     AskHermesGood, SendReplyGood DEF GoOn, Acknowledge
<1>4. ASSUME NEW w \in Workers, OperationRaises(w) \/ Die(w) PROVE Good
  BY <1>4, OperationRaisesGood, DieGood
<1>5. CASE Reboot \/ Restart \/ Tick
  BY <1>5, RebootGood, RestartGood, TickGood
<1> QED BY <1>1, <1>2, <1>3, <1>4, <1>5 DEF Next

-----------------------------------------------------------------------------
(* Theorems *)

\* The inductive invariant: what entries, promises and calls mean.
THEOREM Invariance == Spec => []IInv
<1>1. IInv /\ [Next]_vars => IInv'
  BY NextGood DEF Good
<1> QED BY InitInv, <1>1, PTL DEF Spec

\* Every variable of the router keeps its type: calls are at a step of
\* handle_event() with an attempt retry_call may make, and entries carry an
\* expiry.
THEOREM TypeCorrect == Spec => []TypeOK
<1>1. IInv => TypeOK
  BY DEF IInv
<1> QED BY Invariance, <1>1, PTL

\* begin() turns a callback away, on the file or on the dict, only if a
\* callback of the event ended well, and within the TTL by the clock it read.
LEMMA AcknowledgeStep ==
    ASSUME IInv, NEW w \in Workers, Acknowledge(w)
    PROVE  /\ okAt[worker[w].event] > 0
           /\ SeenAt(w) < okAt[worker[w].event] + Ttl + boot
<1>1. /\ TypeOK /\ now \in Nat /\ boot \in Nat /\ okAt \in [Events -> Nat]
      /\ store \in Store
  BY DEF IInv, TypeOK
<1>2. CASE FileAcknowledge(w)
  <2>1. worker[w].event \in Events /\ mode = "file"
    BY <1>2 DEF IInv, CallInv, FileAcknowledge
  <2>2. PICK r \in now - MaxLag .. now :
            /\ r >= boot
            /\ IsDuplicate(Without(store, Expired(store, r - boot)),
                           worker[w].event)
    BY <1>2 DEF FileAcknowledge
  <2>3. PICK t \in Nat : t = r - boot /\ boot + t <= now /\ boot + t >= now - MaxLag
    BY <1>1, <2>2, ReadingTime
  <2>4. Succeeded(worker[w].event) /\ t < store[worker[w].event].expires_at
    BY <2>1, <2>2, <2>3, FileLive
  <2>5. /\ okAt[worker[w].event] > 0
        /\ store[worker[w].event].expires_at <= okAt[worker[w].event] + Ttl
    BY <2>1, <2>4 DEF IInv, EntryInv
  <2>6. store[worker[w].event].expires_at \in Nat
    BY <1>1, <2>1, <2>4 DEF Succeeded, Store, Entry
  <2> QED BY <1>1, <2>1, <2>3, <2>4, <2>5, <2>6 DEF SeenAt
<1>3. CASE MemoryAcknowledge(w)
  <2>1. /\ worker[w].at \in Operations /\ worker[w].phase = "look"
        /\ mode = "memory" /\ Succeeded(worker[w].event)
    BY <1>3 DEF MemoryAcknowledge, InPhase, IsDuplicate, Succeeded
  <2>2. worker[w].event \in Events /\ worker[w].t \in Nat /\ CallInv(worker[w])
    BY <2>1, PhaseFacts
  <2>3. okAt[worker[w].event] > 0
    BY <2>1, <2>2 DEF IInv, EntryInv
  <2>4. worker[w].t < okAt[worker[w].event] + Ttl
    BY <2>1, <2>2 DEF CallInv, Seen
  <2> QED BY <1>1, <2>1, <2>2, <2>3, <2>4 DEF SeenAt
<1> QED BY <1>2, <1>3 DEF Acknowledge

\* An event is turned away only if a callback of it ended well, and not longer
\* ago than the TTL by the clock the entry was written with: no event is given up
\* because a callback of it failed, raised or died.
THEOREM EndedWellCorrect == Spec => DuplicateEndedWell
<1>1. IInv /\ [Next]_vars =>
        [\A w \in Workers : Acknowledge(w) =>
            LET e == worker[w].event
            IN  okAt[e] > 0 /\ SeenAt(w) < okAt[e] + Ttl + boot]_vars
  BY AcknowledgeStep
<1> QED BY Invariance, <1>1, PTL DEF Spec, DuplicateEndedWell

\* An event that ended well with nobody else on it or about to pop it is not given
\* to Hermes again before its TTL is over, whatever replays, faults, deaths,
\* reboots and other threads come between.
THEOREM StaysOutCorrect == Spec => ReplayStaysOut
<1>1. IInv /\ [Next]_vars =>
        [\A w \in Workers : Claims(w) => now >= worker[w].until]_vars
  BY NextGood DEF Good
<1> QED BY Invariance, <1>1, PTL DEF Spec, ReplayStaysOut

=============================================================================
