-------------------------------- MODULE Sender --------------------------------
(***************************************************************************)
(* WeChatSender (bridge/wechat/sender.py): send() and flush_queued() run   *)
(* by any number of threads and processes over one governor state file.    *)
(* A step is one governor operation or one transport call; between two     *)
(* steps of a worker the others run and the clock moves.                   *)
(*                                                                         *)
(* A job is a message a worker has been granted an attempt for: the        *)
(* request of a send(), or one of the deliveries flush_plan() reserved,    *)
(* all of them before the first is sent.                                   *)
(***************************************************************************)
EXTENDS GovernorState, Sequences

CONSTANTS
    Workers,
    Mode,           \* worker -> "dry_run", "missing" (no transport) or "transport":
                    \* processes of different configurations may share the file
    FlushLimits,    \* the limits callers flush with
    MaxLag,         \* as in Governor
    Faults,         \* whether a worker may die or fail to get the lock
    MaxNow,         \* bound: the clock stops here
    MaxIds, MaxInFlight     \* bounds of Governor, too large to bind here

ASSUME SenderAssumption ==
    /\ Mode \in [Workers -> {"dry_run", "missing", "transport"}]
    /\ FlushLimits \subseteq Nat
    /\ MaxLag \in Nat
    /\ Faults \in BOOLEAN

VARIABLES
    file, now, ids, \* as in Governor
    pc,             \* worker -> the step it is at
    jobs,           \* worker -> the jobs it still has, the current one first
    flush,          \* worker -> what is left to reserve: [target, left]
    result,         \* worker -> the result of the current transport call
    told,           \* message -> what send() answered for it
    sent            \* message -> how often the transport delivered it

governorVars == <<file, now, ids>>
vars == <<file, now, ids, pc, jobs, flush, result, told, sent>>

Steps == {"idle", "reserve", "transport", "record", "queue", "requeue"}

Answers == {"nothing", "pending", "sent", "queued", "failed"}

\* `reserved` is empty for a send() and the reserved delivery for a flush.
Job == [message : Messages, target : Targets, priority : Priorities,
        probe : BOOLEAN, reserved : SUBSET Delivery]

TypeOK ==
    /\ file \in GovernorFile \cup {NoFile}
    /\ now \in Nat
    /\ ids \in Nat
    /\ pc \in [Workers -> Steps]
    /\ jobs \in [Workers -> Seq(Job)]
    /\ flush \in [Workers -> [target : Targets, left : Nat]]
    /\ result \in [Workers -> Results]
    /\ told \in [Messages -> Answers]
    /\ sent \in [Messages -> Nat]

Init ==
    /\ file = NoFile
    /\ now = 1
    /\ ids = 0
    /\ pc = [w \in Workers |-> "idle"]
    /\ jobs = [w \in Workers |-> <<>>]
    /\ flush \in [Workers -> {[target |-> u, left |-> 0] : u \in Targets}]
    /\ result = [w \in Workers |-> "ok"]
    /\ told = [m \in Messages |-> "nothing"]
    /\ sent = [m \in Messages |-> 0]

Readings == Larger(1, now - MaxLag) .. now

-----------------------------------------------------------------------------

IsFlush(job) == job.reserved # {}

\* What send() answers for its message; a flush answers nobody who sent it.
Answer(job, reply) ==
    told' = IF IsFlush(job) THEN told ELSE [told EXCEPT ![job.message] = reply]

\* The current job is over: on to the next reserved one, or back to the caller.
FinishJob(w) ==
    /\ jobs' = [jobs EXCEPT ![w] = Tail(@)]
    /\ pc' = [pc EXCEPT ![w] = IF Len(jobs[w]) > 1 THEN "transport" ELSE "idle"]

\* Mutant: send() goes on when the governor has queued or refused the message.
Send_Unguarded(w, m, target, p) ==
    /\ pc[w] = "idle"
    /\ told[m] = "nothing"
    /\ ids' = ids + 1
    /\ \E t \in Readings :
       \E o \in AdmitOutcomes(file, BuildDelivery(ids + 1, m, target, p, t), t) :
          /\ file' = o.state
          /\ jobs' = [jobs EXCEPT ![w] =
                <<[message |-> m, target |-> target, priority |-> p,
                   probe |-> o.status = "HALF_OPEN", reserved |-> {}]>>]
    /\ pc' = [pc EXCEPT ![w] = "transport"]
    /\ told' = [told EXCEPT ![m] = "pending"]
    /\ UNCHANGED <<now, flush, result, sent>>

\* send(): every message is sent once.  Refused messages are answered as
\* queued, whether the governor queued them or not.
Send(w, m, target, p) ==
    /\ pc[w] = "idle"
    /\ told[m] = "nothing"
    /\ ids' = ids + 1
    /\ \E t \in Readings :
       \E o \in AdmitOutcomes(file, BuildDelivery(ids + 1, m, target, p, t), t) :
          /\ file' = o.state
          /\ IF o.allowed
             THEN /\ jobs' = [jobs EXCEPT ![w] =
                        <<[message |-> m, target |-> target, priority |-> p,
                           probe |-> o.status = "HALF_OPEN", reserved |-> {}]>>]
                  /\ pc' = [pc EXCEPT ![w] = "transport"]
                  /\ told' = [told EXCEPT ![m] = "pending"]
             ELSE /\ told' = [told EXCEPT ![m] = "queued"]
                  /\ UNCHANGED <<jobs, pc>>
    /\ UNCHANGED <<now, flush, result, sent>>

FlushQueued(w, target, limit) ==
    /\ pc[w] = "idle"
    /\ limit > 0
    /\ flush' = [flush EXCEPT ![w] = [target |-> target, left |-> limit]]
    /\ pc' = [pc EXCEPT ![w] = "reserve"]
    /\ UNCHANGED <<governorVars, jobs, result, told, sent>>

\* One turn of flush_plan(): it ends at the limit or when nothing is given.
Reserve(w) ==
    /\ pc[w] = "reserve"
    /\ \E t \in Readings : \E o \in ReserveOutcomes(file, flush[w].target, t) :
          /\ file' = o.state
          /\ jobs' = [jobs EXCEPT ![w] = 
                IF o.reserved = {} THEN @
                ELSE LET d == CHOOSE d \in o.reserved : TRUE
                     IN  Append(@, [message |-> d.message, target |-> d.target,
                                    priority |-> d.priority,
                                    probe |-> o.state.status = "HALF_OPEN",
                                    reserved |-> {d}])]
          /\ LET left == IF o.reserved = {} THEN 0 ELSE flush[w].left - 1
             IN  /\ flush' = [flush EXCEPT ![w].left = left]
                 /\ pc' = [pc EXCEPT ![w] = IF left > 0 THEN "reserve"
                                             ELSE IF jobs'[w] = <<>> THEN "idle"
                                             ELSE "transport"]
    /\ UNCHANGED <<now, ids, result, told, sent>>

\* What comes of an attempt: a dry run always succeeds without sending, a
\* missing transport always fails, and a transport may do anything.
\* Mutant: an outcome record_result() was not written for.
Attempts_Timeout(w) == Results \cup {"timeout"}
Attempts(w) == CASE Mode[w] = "dry_run"   -> {"ok"}
                 [] Mode[w] = "missing"   -> {"failed"}
                 [] Mode[w] = "transport" -> Results

Transport(w) ==
    /\ pc[w] = "transport"
    /\ \E r \in Attempts(w) :
          /\ result' = [result EXCEPT ![w] = r]
          /\ sent' = IF r = "ok" /\ Mode[w] = "transport"
                     THEN [sent EXCEPT ![Head(jobs[w]).message] = @ + 1]
                     ELSE sent
    /\ pc' = [pc EXCEPT ![w] = "record"]
    /\ UNCHANGED <<governorVars, jobs, flush, told>>

\* record_result(), then: success is final, a rate-limited message is queued
\* again, another failure is final for a send() and requeued by a flush.
Record(w) ==
    /\ pc[w] = "record"
    /\ \E t \in Readings : file' \in RecordOutcomes(file, result[w], t)
    /\ LET job == Head(jobs[w])
       IN  \/ /\ result[w] = "ok"
              /\ Answer(job, "sent")
              /\ FinishJob(w)
           \/ /\ result[w] = "rate_limited"
              /\ pc' = [pc EXCEPT ![w] = "queue"]
              /\ UNCHANGED <<jobs, told>>
           \/ /\ result[w] = "failed"
              /\ IsFlush(job)
              /\ pc' = [pc EXCEPT ![w] = "requeue"]
              /\ UNCHANGED <<jobs, told>>
           \/ /\ result[w] = "failed"
              /\ ~IsFlush(job)
              /\ Answer(job, "failed")
              /\ FinishJob(w)
    /\ result' = [result EXCEPT ![w] = "ok"]
    /\ UNCHANGED <<now, ids, flush, sent>>

\* queue_delivery() after a rate limit: a new delivery for the same message.
\* The answer is the same when the governor refused it.
QueueAgain(w) ==
    /\ pc[w] = "queue"
    /\ ids' = ids + 1
    /\ LET job == Head(jobs[w])
       IN  /\ \E t \in Readings :
              LET d == BuildDelivery(ids + 1, job.message, job.target, job.priority, t)
              IN  \E o \in QueueOutcomes(file, d, t) : file' = o.state
           /\ Answer(job, "queued")
    /\ FinishJob(w)
    /\ UNCHANGED <<now, flush, result, sent>>

Requeue(w) ==
    /\ pc[w] = "requeue"
    /\ \E t \in Readings : \E d \in Head(jobs[w]).reserved :
          file' = RequeueFile(file, d, t)
    /\ FinishJob(w)
    /\ UNCHANGED <<now, ids, flush, result, told, sent>>

\* The process dies, or a governor operation raises (its lock timed out) and
\* the exception leaves send() or flush_queued() with every job it had.
Abandon(w) ==
    /\ Faults
    /\ pc[w] # "idle"
    /\ pc' = [pc EXCEPT ![w] = "idle"]
    /\ jobs' = [jobs EXCEPT ![w] = <<>>]
    /\ flush' = [flush EXCEPT ![w].left = 0]
    /\ result' = [result EXCEPT ![w] = "ok"]
    /\ UNCHANGED <<governorVars, told, sent>>

Status ==
    /\ \E t \in Readings : file' = StatusFile(file, t)
    /\ UNCHANGED <<now, ids, pc, jobs, flush, result, told, sent>>

Tick ==
    /\ now < MaxNow
    /\ now' = now + 1
    /\ UNCHANGED <<file, ids, pc, jobs, flush, result, told, sent>>

Step(w) ==
    \/ \E m \in Messages, target \in Targets, p \in Priorities : Send(w, m, target, p)
    \/ \E target \in Targets, limit \in FlushLimits : FlushQueued(w, target, limit)
    \/ Reserve(w) \/ Transport(w) \/ Record(w) \/ QueueAgain(w) \/ Requeue(w)
    \/ Abandon(w)

Next == (\E w \in Workers : Step(w)) \/ Status \/ Tick

Spec == Init /\ [][Next]_vars

-----------------------------------------------------------------------------
(* What the governor sees of the workers *)

Recorded(w) == pc[w] \in {"queue", "requeue"}

\* The attempts granted and not yet recorded.
Pending(probing) ==
    UNION {{<<w, i>> : i \in {j \in DOMAIN jobs[w] :
                /\ jobs[w][j].probe = probing
                /\ ~(j = 1 /\ Recorded(w))}} : w \in Workers}

Held == UNION {UNION {jobs[w][i].reserved : i \in DOMAIN jobs[w]} : w \in Workers}

\* WeChatSender uses the governor as Governor says it may be used: it records a
\* result only for an attempt it was granted, and finishes each reservation.
GovernorView == INSTANCE Governor WITH
    held     <- Held,
    ordinary <- Cardinality(Pending(FALSE)),
    probes   <- Cardinality(Pending(TRUE))

ImplementsGovernor == GovernorView!Spec

-----------------------------------------------------------------------------
(* Properties *)

Queue == GovernorView!Queue

\* A copy of m that may still be sent: queued, or a job not yet delivered.
Queued(m) == {d \in Queue : d.message = m}
Undelivered(m) ==
    UNION {{<<w, i>> : i \in {j \in DOMAIN jobs[w] :
                /\ jobs[w][j].message = m
                /\ ~(j = 1 /\ pc[w] = "record" /\ result[w] = "ok")}} : w \in Workers}
Alive(m) == Queued(m) # {} \/ Undelivered(m) # {}

\* A message is in one place at a time and is delivered at most once, through
\* any number of rate limits, requeues and flushes by several workers.
DeliveredAtMostOnce ==
    \A m \in Messages :
        Cardinality(Queued(m)) + Cardinality(Undelivered(m)) + sent[m] <= 1

\* A message that can no longer be sent was sent, was answered as failed, has
\* expired, met a full queue (refused, or dropped for a newcomer), or was with
\* a worker that died or was thrown out of its flush (96-99): it never goes for
\* another reason, and never because somebody else's call went wrong.
Forgotten(m) ==
    \/ sent'[m] > sent[m]
    \/ told'[m] = "failed"
    \/ /\ Cardinality(Queue) >= QueueMaxSize
       /\ Queued(m) = {} \/ ~(Queue' \subseteq Queue)
    \/ \E d \in Queued(m) : d.expires_at <= now
    \/ \E d \in Held : d.message = m /\ d.expires_at <= now
    \/ \E w \in Workers :
          Abandon(w) /\ \E i \in DOMAIN jobs[w] : jobs[w][i].message = m

NoSilentLoss == [][ \A m \in Messages : Alive(m) /\ ~Alive(m)' => Forgotten(m) ]_vars

\* Queued messages are released in later windows.  Let a flush of a target with
\* a live message come in a window that is over (by any clock reading), after
\* the end of the circuit, with no attempt of anyone pending: it is given one.
ReleaseIsDue(w) ==
    LET oldest == now - MaxLag
    IN  /\ file # NoFile
        /\ WindowElapsed(file, oldest)
        /\ file.open_until # None => file.open_until <= oldest
        /\ Pending(TRUE) = {} /\ Pending(FALSE) = {}
        /\ \E d \in Queue : d.target = flush[w].target /\ d.expires_at > now

\* A flush for which a release is due is given a delivery.  All that withholds one
\* is the mark of a probe, of one whose worker died, since nobody's is pending (507).
ReleasedUnlessMarked ==
    [][ \A w \in Workers :
          Reserve(w) /\ ReleaseIsDue(w) /\ ~file.half_open_in_flight => Held' # Held ]_vars

\* A flush for which a release is due is given a delivery, whoever died before it:
\* the docs know no exception.
ReleasedInLaterWindow ==
    [][ \A w \in Workers : Reserve(w) /\ ReleaseIsDue(w) => Held' # Held ]_vars

\* A flush calls the transport only while the circuit is not open.
FlushSends(w) ==
    pc[w] = "transport" /\ pc'[w] = "record" /\ IsFlush(Head(jobs[w]))

FlushStopsAtCircuit ==
    [][ \A w \in Workers :
          FlushSends(w) => ~(file.status = "OPEN" /\ now < file.open_until) ]_vars

\* send() answers a message that the governor turned away as queued too (59, 181):
\* that is all it may stretch.  What is answered as queued and is not in the queue
\* came to a queue that was full, by the deliveries that have not expired.
RefusedOnlyWhenFull ==
    [][ \A m \in Messages :
          told'[m] = "queued" /\ told[m] # "queued" =>
             \/ Queued(m)' # {}
             \/ Cardinality(Unexpired(Queue, now - MaxLag)) >= QueueMaxSize ]_vars

=============================================================================
