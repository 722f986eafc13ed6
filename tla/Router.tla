-------------------------------- MODULE Router --------------------------------
(***************************************************************************)
(* GatewayRouter.handle_event (bridge/runtime/router.py), run by the       *)
(* threads of the callback server, and by several processes when they      *)
(* share a state directory: claim the event, ask Hermes, send the reply    *)
(* with retry_call, and note how it ended.                                 *)
(*                                                                         *)
(* Of the dedupe store there are two kinds.  With a state directory an     *)
(* operation is atomic (what LockedState shows of the lock) and the store  *)
(* outlives the process.  Without one the store is a dict of the process   *)
(* that its threads scan, pop from, look into and write to without a lock. *)
(*                                                                         *)
(* send() is what Sender promises: the reply was sent or queued, or it     *)
(* failed, or the call raised, before or after the reply went out.         *)
(***************************************************************************)
EXTENDS Dedupe

CONSTANTS
    Workers,
    Modes,          \* subset of {"file", "memory"}: the kinds of store to start with
    RetryAttempts,  \* retry_attempts, at least one
    MaxLag,         \* the longest wait for the lock after the clock was read
    Faults,         \* whether store operations may raise
    MaxNow          \* bound: the clock stops here

ASSUME RouterAssumption ==
    /\ Modes \subseteq {"file", "memory"}
    /\ RetryAttempts \in Nat \ {0}
    /\ MaxLag \in Nat
    /\ Faults \in BOOLEAN

VARIABLES
    mode,       \* the kind of store
    store,
    now, boot,  \* the time, and when the machine came up: monotonic() is their
                \* difference
    worker,     \* worker -> its handle_event() call
    okAt,       \* history: event -> when it was last noted as succeeded (0: never)
    promised    \* history: event -> the time until which replays are to be
                \* acknowledged (0: none)

vars == <<mode, store, now, boot, worker, okAt, promised>>

Steps == {"idle", "begin", "hermes", "send", "complete", "fail", "abort"}

\* The steps of an operation on the dict: scan, pop, look, write.
Phases == {"scan", "pop", "look", "write"}

Call == [at : Steps, event : Events \cup {NoEntry}, attempt : 0 .. RetryAttempts,
         phase : Phases, t : Nat, gone : SUBSET Events,
         until : Nat]   \* history: what was promised when the event came in

TypeOK ==
    /\ mode \in Modes
    /\ store \in Store
    /\ now \in Nat /\ boot \in Nat /\ boot <= now
    /\ worker \in [Workers -> Call]
    /\ okAt \in [Events -> Nat]
    /\ promised \in [Events -> Nat]

Idle == [at |-> "idle", event |-> NoEntry, attempt |-> 0,
         phase |-> "scan", t |-> 0, gone |-> {}, until |-> 0]

Init ==
    /\ mode \in Modes
    /\ store = Empty
    /\ now = 1
    /\ boot = 0
    /\ worker = [w \in Workers |-> Idle]
    /\ okAt = [e \in Events |-> 0]
    /\ promised = [e \in Events |-> 0]

-----------------------------------------------------------------------------

\* Nobody else is on the worker's event, nor about to pop it: another worker may
\* have found the entry expired that this one renews.
Alone(w) ==
    \A v \in Workers \ {w} :
        /\ worker[v].event # worker[w].event
        /\ worker[w].event \notin worker[v].gone

GoTo(w, step) ==
    worker' = [worker EXCEPT ![w] =
        IF step = "idle" THEN Idle
        ELSE [@ EXCEPT !.at = step, !.phase = "scan", !.t = 0, !.gone = {}]]

\* A callback comes in: the event is new, or WeChat sends it again because no
\* answer came in time.
Receive(w, e) ==
    /\ worker[w].at = "idle"
    /\ worker' = [worker EXCEPT ![w] =
                    [Idle EXCEPT !.at = "begin", !.event = e,
                                 !.until = IF promised[e] > now THEN promised[e] ELSE 0]]
    /\ UNCHANGED <<mode, store, now, boot, okAt, promised>>

-----------------------------------------------------------------------------
(* Operations on the store: begin(), complete() and fail() *)

Operations == {"begin", "complete", "fail", "abort"}

\* `abort` is the fail() of the except clause.
StatusAfter(step) == CASE step = "begin"    -> "processing"
                       [] step = "complete" -> "succeeded"
                       [] OTHER             -> "failed"

\* Where the call goes when the operation has returned, or has raised: what is
\* raised inside the try is noted as a failure and raised again.
Returned(step) == IF step = "begin" THEN "hermes" ELSE "idle"
Raised(step)   == IF step \in {"begin", "abort"} THEN "idle" ELSE "abort"

\* The entry is there: what it promises to the callbacks to come, if nobody
\* else may still overwrite or pop it.
Note(w, t) ==
    LET e == worker[w].event
        succeeded == worker[w].at = "complete"
    IN  /\ okAt' = IF succeeded THEN [okAt EXCEPT ![e] = now] ELSE okAt
        /\ promised' = [promised EXCEPT ![e] =
                            IF succeeded /\ Alone(w) THEN boot + t + Ttl ELSE 0]

\* A duplicate is acknowledged and nothing is asked or sent.
FileAcknowledge(w) ==
    /\ mode = "file"
    /\ worker[w].at = "begin"
    /\ \E r \in now - MaxLag .. now :
          /\ r >= boot
          /\ LET live == Without(store, Expired(store, r - boot))
             IN  /\ IsDuplicate(live, worker[w].event)
                 /\ store' = live
    /\ GoTo(w, "idle")
    /\ UNCHANGED <<mode, now, boot, okAt, promised>>

FileOperation(w) ==
    /\ mode = "file"
    /\ worker[w].at \in Operations
    /\ \E r \in now - MaxLag .. now :
          /\ r >= boot
          /\ LET call == worker[w]
                 t == r - boot
                 live == Without(store, Expired(store, t))
             IN  /\ call.at = "begin" => ~IsDuplicate(live, call.event)
                 /\ store' = Marked(live, call.event, StatusAfter(call.at), t)
                 /\ Note(w, t)
    /\ GoTo(w, Returned(worker[w].at))
    /\ UNCHANGED <<mode, now, boot>>

InPhase(w, phase) ==
    /\ mode = "memory"
    /\ worker[w].at \in Operations
    /\ worker[w].phase = phase

\* Where an operation goes on when these are still to be popped: only begin()
\* looks at the entry.
PhaseAfter(w, gone) ==
    CASE gone # {}                                -> "pop"
      [] gone = {} /\ worker[w].at = "begin"      -> "look"
      [] gone = {} /\ worker[w].at # "begin"      -> "write"

MemoryScan(w) ==
    /\ InPhase(w, "scan")
    /\ LET t == now - boot
           gone == Expired(store, t)
       IN  worker' = [worker EXCEPT ![w] =
                [@ EXCEPT !.phase = PhaseAfter(w, gone), !.t = t, !.gone = gone]]
    /\ UNCHANGED <<mode, store, now, boot, okAt, promised>>

\* The expired entries are popped one by one, whatever is there by now.
MemoryPop(w) ==
    /\ InPhase(w, "pop")
    /\ \E e \in worker[w].gone :
          LET left == worker[w].gone \ {e}
          IN  /\ store' = Without(store, {e})
              /\ worker' = [worker EXCEPT ![w] =
                    [@ EXCEPT !.phase = PhaseAfter(w, left), !.gone = left]]
    /\ UNCHANGED <<mode, now, boot, okAt, promised>>

MemoryAcknowledge(w) ==
    /\ InPhase(w, "look")
    /\ IsDuplicate(store, worker[w].event)
    /\ GoTo(w, "idle")
    /\ UNCHANGED <<mode, store, now, boot, okAt, promised>>

MemoryLook(w) ==
    /\ InPhase(w, "look")
    /\ ~IsDuplicate(store, worker[w].event)
    /\ worker' = [worker EXCEPT ![w].phase = "write"]
    /\ UNCHANGED <<mode, store, now, boot, okAt, promised>>

MemoryWrite(w) ==
    /\ InPhase(w, "write")
    /\ LET call == worker[w]
       IN  /\ store' = Marked(store, call.event, StatusAfter(call.at), call.t)
           /\ Note(w, call.t)
           /\ GoTo(w, Returned(call.at))
    /\ UNCHANGED <<mode, now, boot>>

\* The lock timed out, the file cannot be written, or another thread changed
\* the dict during the scan.
OperationRaises(w) ==
    /\ Faults
    /\ worker[w].at \in Operations
    /\ worker[w].phase = "scan"
    /\ GoTo(w, Raised(worker[w].at))
    /\ UNCHANGED <<mode, store, now, boot, okAt, promised>>

-----------------------------------------------------------------------------
(* Between begin() and the end *)

\* An answer that reports an error is formatted and sent like any other.
HermesOutcomes == {"answered", "raised"}

AskHermes(w) ==
    /\ worker[w].at = "hermes"
    /\ \E r \in HermesOutcomes :
          \/ /\ r = "answered"
             /\ worker' = [worker EXCEPT ![w].at = "send", ![w].attempt = 1]
          \/ r = "raised" /\ GoTo(w, "abort")
    /\ UNCHANGED <<mode, store, now, boot, okAt, promised>>

\* retry_call repeats a send that raised, and no other.
\* Mutant: the attempts have no end.
Again_Endless(w) == worker' = [worker EXCEPT ![w].attempt = @ + 1]
Again(w) ==
    IF worker[w].attempt < RetryAttempts
    THEN worker' = [worker EXCEPT ![w].attempt = @ + 1]
    ELSE GoTo(w, "abort")

\* "ok" is sent, simulated, queued, or refused by a full queue.
SendOutcomes == {"ok", "failed", "raised"}

SendReply(w) ==
    /\ worker[w].at = "send"
    /\ \E r \in SendOutcomes :
          \/ r = "ok" /\ GoTo(w, "complete")
          \/ r = "failed" /\ GoTo(w, "fail")
          \/ r = "raised" /\ Again(w)
    /\ UNCHANGED <<mode, store, now, boot, okAt, promised>>

-----------------------------------------------------------------------------
(* The environment *)

\* A process that shares a state directory dies and its calls with it.
Die(w) ==
    /\ mode = "file"
    /\ worker[w].at # "idle"
    /\ GoTo(w, "idle")
    /\ UNCHANGED <<mode, store, now, boot, okAt, promised>>

\* The machine goes down, and monotonic() starts anew; the state file stays.
Reboot ==
    /\ mode = "file"
    /\ worker' = [w \in Workers |-> Idle]
    /\ boot' = now
    /\ UNCHANGED <<mode, store, now, okAt, promised>>

\* A dict dies with its process, and with all threads of it.
Restart ==
    /\ mode = "memory"
    /\ worker' = [w \in Workers |-> Idle]
    /\ store' = Empty
    /\ okAt' = [e \in Events |-> 0]
    /\ promised' = [e \in Events |-> 0]
    /\ UNCHANGED <<mode, now, boot>>

Tick ==
    /\ now < MaxNow
    /\ now' = now + 1
    /\ UNCHANGED <<mode, store, boot, worker, okAt, promised>>

Acknowledge(w) == FileAcknowledge(w) \/ MemoryAcknowledge(w)

GoOn(w) ==
    \/ Acknowledge(w) \/ FileOperation(w)
    \/ MemoryScan(w) \/ MemoryPop(w) \/ MemoryLook(w) \/ MemoryWrite(w)
    \/ AskHermes(w) \/ SendReply(w)

Next ==
    \/ \E w \in Workers :
          \/ \E e \in Events : Receive(w, e)
          \/ GoOn(w) \/ OperationRaises(w) \/ Die(w)
    \/ Reboot \/ Restart
    \/ Tick

Spec == Init /\ [][Next]_vars

-----------------------------------------------------------------------------
(* Properties *)

\* An event is turned away only if a callback of it ended well, and not longer
\* ago than the TTL -- plus the time the machine had been up when the process
\* was started again, for the file keeps readings of a clock that starts anew.
\* So no event is given up because a callback of it failed, raised or died.
SeenAt(w) == IF mode = "file" THEN now - MaxLag ELSE boot + worker[w].t

DuplicateEndedWell ==
    [][ \A w \in Workers : Acknowledge(w) =>
            LET e == worker[w].event
            IN  okAt[e] > 0 /\ SeenAt(w) < okAt[e] + Ttl + boot ]_vars

\* An event that ended well, with no other callback of it under way and nobody
\* about to pop it, is not given to Hermes again before its TTL is over: not by
\* any number of replays, through faults of their operations, restarts with a
\* state file, or what other threads do to the dict meanwhile.
Claims(w) == worker[w].at = "begin" /\ worker'[w].at = "hermes"

ReplayStaysOut ==
    [][ \A w \in Workers : Claims(w) => now >= worker[w].until ]_vars

\* A replay that comes while the event is being answered is not given to
\* Hermes a second time.
HermesIsAskedOnce ==
    \A v, w \in Workers :
        v # w /\ worker[v].at = "hermes" /\ worker[w].at \in {"hermes", "send"}
            => worker[v].event # worker[w].event

=============================================================================
