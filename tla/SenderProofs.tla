----------------------------- MODULE SenderProofs -----------------------------
(***************************************************************************)
(* What Sender guarantees for every configuration and any number of        *)
(* workers: the types, that a message is in one place and is delivered at  *)
(* most once, for which reasons it can be lost, when the answer "queued"   *)
(* may be untrue, that a window that is over releases what waits, and that *)
(* the senders implement Governor.                                         *)
(***************************************************************************)
EXTENDS Sender, GovernorStateProofs, SequenceTheorems

-----------------------------------------------------------------------------
(* The inductive invariant.  A message is in the queue once, or in one job of *)
(* one worker, or gone; the jobs of all workers have to be looked at, those   *)
(* of a flush that wait behind the current one included.                      *)

\* Job lists are read through these, which keeps the sequences out of the proofs.
JobLists == [Workers -> Seq(Job)]
Places(js, w)   == 1 .. Len(js[w])
JobAt(js, w, i) == js[w][i]

Nowhere(m, q, js) ==
    /\ \A d \in q : d.message # m
    /\ \A w \in Workers : \A i \in Places(js, w) : JobAt(js, w, i).message # m

OnePlace(q, js) ==
    /\ \A d, e \in q : d.message = e.message => d = e
    /\ \A w \in Workers : \A i \in Places(js, w) :
          /\ \A d \in q : d.message # JobAt(js, w, i).message
          /\ \A v \in Workers : \A j \in Places(js, v) :
                JobAt(js, v, j).message = JobAt(js, w, i).message => v = w /\ j = i

\* A message that was sent is nowhere, but with the worker that is to record it.
SentOnce(q, js, s, done) ==
    \A m \in Messages :
        /\ s[m] \in {0, 1}
        /\ s[m] = 1 =>
              /\ \A d \in q : d.message # m
              /\ \A w \in Workers : \A i \in Places(js, w) :
                    JobAt(js, w, i).message = m => i = 1 /\ w \in done

Ledger(q, js, s, done) == OnePlace(q, js) /\ SentOnce(q, js, s, done)

\* The workers whose current job has succeeded, and has to be recorded.
Done == {w \in Workers : pc[w] = "record" /\ result[w] = "ok"}

\* A message that send() was not called for is nowhere.
Fresh(q, js, s, answers) ==
    \A m \in Messages : answers[m] = "nothing" => s[m] = 0 /\ Nowhere(m, q, js)

\* A reserved job is for the message of its delivery.
Backed(job) ==
    job.reserved = {} \/ \E d \in job.reserved : job.reserved = {d} /\ d.message = job.message

\* A worker between two jobs or in one has it, and a flush that reserves may.
Staged(w) ==
    /\ pc[w] = "idle" => jobs[w] = <<>>
    /\ pc[w] \in {"transport", "record", "queue", "requeue"} => jobs[w] # <<>>
    /\ pc[w] = "reserve" => flush[w].left > 0
    /\ \A i \in Places(jobs, w) : Backed(JobAt(jobs, w, i))

\* While no worker dies, the probe mark belongs to a job that is not recorded.
Marked ==
    ~Faults /\ Probing(file) =>
        \E w \in Workers : \E i \in Places(jobs, w) :
            JobAt(jobs, w, i).probe = TRUE /\ ~(i = 1 /\ Recorded(w))

IInv ==
    /\ TypeOK
    /\ file # NoFile => Coherent(file, now)
    /\ IsFiniteSet(QueueOf(file))
    /\ \A w \in Workers : Staged(w)
    /\ Ledger(QueueOf(file), jobs, sent, Done)
    /\ Fresh(QueueOf(file), jobs, sent, told)
    /\ Marked

-----------------------------------------------------------------------------
(* What happens to lists of jobs *)

\* FinishJob, and what grants and abandons do.
Finished(js, w)      == [js EXCEPT ![w] = Tail(@)]
Extended(js, w, job) == [js EXCEPT ![w] = Append(@, job)]
Dropped(js, w)       == [js EXCEPT ![w] = <<>>]

\* The other workers keep their jobs.
OthersKeep(js, js2, w) ==
    \A v \in Workers \ {w} :
        /\ js2[v] = js[v]
        /\ Places(js2, v) = Places(js, v)
        /\ \A i : JobAt(js2, v, i) = JobAt(js, v, i)

LEMMA EmptyTail ==
    ASSUME NEW S, NEW l \in Seq(S), Len(l) = 0
    PROVE  l = <<>>
<1>1. l # <<>> => Len(l) \in Nat \ {0}
  BY EmptySeq
<1> QED BY <1>1

LEMMA FirstJob ==
    ASSUME NEW js \in JobLists, NEW w \in Workers, js[w] # <<>>
    PROVE  /\ 1 \in Places(js, w)
           /\ Head(js[w]) = JobAt(js, w, 1)
           /\ JobAt(js, w, 1) \in Job
           /\ JobAt(js, w, 1).message \in Messages
<1> DEFINE l == js[w]
<1>1. l \in Seq(Job) /\ l # <<>>
  BY DEF JobLists
<1>2. /\ Len(l) \in Nat /\ Len(l) > 0
      /\ Head(l) = l[1] /\ l[1] \in Job
  BY <1>1
<1> HIDE DEF l
<1> QED BY <1>2 DEF Places, JobAt, Job, l

LEMMA FinishedJobs ==
    ASSUME NEW js \in JobLists, NEW w \in Workers, js[w] # <<>>
    PROVE  /\ Finished(js, w) \in JobLists
           /\ \A i \in Places(Finished(js, w), w) :
                 /\ i \in Nat /\ i >= 1
                 /\ i + 1 \in Places(js, w)
                 /\ JobAt(Finished(js, w), w, i) = JobAt(js, w, i + 1)
           /\ \A i \in Places(js, w) : i # 1 =>
                 /\ i - 1 \in Places(Finished(js, w), w)
                 /\ JobAt(Finished(js, w), w, i - 1) = JobAt(js, w, i)
           /\ OthersKeep(js, Finished(js, w), w)
           /\ IF Len(js[w]) > 1 THEN Finished(js, w)[w] # <<>>
              ELSE Finished(js, w)[w] = <<>>
<1> DEFINE l == js[w]
<1>1. l \in Seq(Job) /\ l # <<>>
  BY DEF JobLists
<1>2. /\ Len(l) \in Nat /\ Len(l) > 0
      /\ Tail(l) \in Seq(Job)
      /\ Len(Tail(l)) = Len(l) - 1
  BY <1>1
<1>3. \A i \in 1 .. Len(Tail(l)) : Tail(l)[i] = l[i + 1]
  BY <1>1, HeadTailProperties
<1>4. PICK k : k = Tail(l)
  OBVIOUS
<1>5. IF Len(l) > 1 THEN k # <<>> ELSE k = <<>>
  <2>1. k \in Seq(Job)
    BY <1>2, <1>4
  <2>2. Len(k) = Len(l) - 1 /\ Len(l) \in Nat /\ Len(l) > 0
    BY <1>2, <1>4
  <2>3. Len(<<>>) = 0
    BY EmptySeq
  <2> HIDE DEF l
  <2>4. IF Len(l) > 1 THEN Len(k) # 0 ELSE Len(k) = 0
    BY <2>2
  <2> QED BY <2>1, <2>3, <2>4, EmptyTail
<1>6. Finished(js, w) = [js EXCEPT ![w] = k]
  BY <1>4 DEF Finished
<1>7. /\ Finished(js, w) \in JobLists
      /\ Finished(js, w)[w] = k
      /\ \A v \in Workers \ {w} : Finished(js, w)[v] = js[v]
  BY <1>2, <1>4, <1>6 DEF JobLists
<1> HIDE DEF l
<1>8. Places(Finished(js, w), w) = 1 .. (Len(l) - 1) /\ Places(js, w) = 1 .. Len(l)
  BY <1>2, <1>4, <1>7 DEF Places, l
<1>9. \A i \in 1 .. (Len(l) - 1) :
         JobAt(Finished(js, w), w, i) = JobAt(js, w, i + 1)
  BY <1>2, <1>3, <1>4, <1>7 DEF JobAt, l
<1>10. OthersKeep(js, Finished(js, w), w)
  BY <1>7 DEF OthersKeep, Places, JobAt
<1>11. \A i \in 1 .. (Len(l) - 1) : i \in Nat /\ i >= 1 /\ i + 1 \in 1 .. Len(l)
  BY <1>2
<1>12. \A i \in 1 .. Len(l) : i # 1 => i - 1 \in 1 .. (Len(l) - 1) /\ (i - 1) + 1 = i
  BY <1>2
<1>13. \A i \in Places(js, w) : i # 1 =>
          /\ i - 1 \in Places(Finished(js, w), w)
          /\ JobAt(Finished(js, w), w, i - 1) = JobAt(js, w, i)
  BY <1>8, <1>9, <1>12
<1>14. \A i \in Places(Finished(js, w), w) :
          /\ i \in Nat /\ i >= 1
          /\ i + 1 \in Places(js, w)
          /\ JobAt(Finished(js, w), w, i) = JobAt(js, w, i + 1)
  BY <1>8, <1>9, <1>11
<1> QED BY <1>5, <1>7, <1>10, <1>13, <1>14 DEF l

LEMMA ExtendedJobs ==
    ASSUME NEW js \in JobLists, NEW w \in Workers, NEW job \in Job
    PROVE  /\ Extended(js, w, job) \in JobLists
           /\ Extended(js, w, job)[w] # <<>>
           /\ \A i \in Places(js, w) :
                 /\ i \in Places(Extended(js, w, job), w)
                 /\ JobAt(Extended(js, w, job), w, i) = JobAt(js, w, i)
           /\ \E n \in Places(Extended(js, w, job), w) :
                 /\ n \notin Places(js, w) /\ n \in Nat
                 /\ JobAt(Extended(js, w, job), w, n) = job
                 /\ \A i \in Places(Extended(js, w, job), w) :
                       i # n => i \in Places(js, w)
           /\ OthersKeep(js, Extended(js, w, job), w)
<1> DEFINE l == js[w]
           n == Len(l) + 1
<1>1. l \in Seq(Job)
  BY DEF JobLists
<1>2. PICK k : k = Append(l, job)
  OBVIOUS
<1>3. /\ k \in Seq(Job) /\ Len(l) \in Nat /\ Len(k) = n
      /\ \A i \in 1 .. Len(l) : k[i] = l[i]
      /\ k[n] = job
  BY <1>1, <1>2
<1>4. Extended(js, w, job) = [js EXCEPT ![w] = k]
  BY <1>2 DEF Extended
<1>5. /\ Extended(js, w, job) \in JobLists
      /\ Extended(js, w, job)[w] = k
      /\ \A v \in Workers \ {w} : Extended(js, w, job)[v] = js[v]
  BY <1>3, <1>4 DEF JobLists
<1>6. k # <<>>
  <2>1. Len(<<>>) = 0
    BY EmptySeq
  <2> QED BY <1>3, <2>1
<1>7. /\ Places(Extended(js, w, job), w) = 1 .. n /\ Places(js, w) = 1 .. Len(l)
  BY <1>3, <1>5 DEF Places
<1> HIDE DEF l
<1>8. /\ \A i \in 1 .. Len(l) : JobAt(Extended(js, w, job), w, i) = JobAt(js, w, i)
      /\ JobAt(Extended(js, w, job), w, n) = job
  BY <1>3, <1>5 DEF JobAt, l
<1>9. OthersKeep(js, Extended(js, w, job), w)
  BY <1>5 DEF OthersKeep, Places, JobAt
<1>10. /\ n \in 1 .. n /\ n \notin 1 .. Len(l) /\ n \in Nat
       /\ \A i \in 1 .. Len(l) : i \in 1 .. n
       /\ \A i \in 1 .. n : i # n => i \in 1 .. Len(l)
  BY <1>3
<1> HIDE DEF n
<1> QED BY <1>5, <1>6, <1>7, <1>8, <1>9, <1>10

LEMMA DroppedJobs ==
    ASSUME NEW js \in JobLists, NEW w \in Workers
    PROVE  /\ Dropped(js, w) \in JobLists
           /\ Dropped(js, w)[w] = <<>>
           /\ Places(Dropped(js, w), w) = {}
           /\ OthersKeep(js, Dropped(js, w), w)
<1>1. /\ Dropped(js, w) \in JobLists
      /\ Dropped(js, w)[w] = <<>>
      /\ \A v \in Workers \ {w} : Dropped(js, w)[v] = js[v]
  BY EmptySeq DEF Dropped, JobLists
<1>2. Len(<<>>) = 0
  BY EmptySeq
<1>3. Places(Dropped(js, w), w) = {}
  BY <1>1, <1>2 DEF Places
<1>4. OthersKeep(js, Dropped(js, w), w)
  BY <1>1 DEF OthersKeep, Places, JobAt
<1> QED BY <1>1, <1>3, <1>4

LEMMA NoJobs ==
    ASSUME NEW js \in JobLists, NEW w \in Workers, js[w] = <<>>
    PROVE  Places(js, w) = {}
<1>1. Len(<<>>) = 0
  BY EmptySeq
<1> QED BY <1>1 DEF Places

-----------------------------------------------------------------------------
(* What becomes of the ledger *)

\* Deliveries leave the queue.
LEMMA ShrinkLedger ==
    ASSUME NEW q, NEW js, NEW s, NEW done, Ledger(q, js, s, done),
           NEW q2 \in SUBSET q
    PROVE  /\ Ledger(q2, js, s, done)
           /\ \A m : Nowhere(m, q, js) => Nowhere(m, q2, js)
BY DEF Ledger, OnePlace, SentOnce, Nowhere

\* A delivery that leaves the queue leaves its message nowhere.
LEMMA TakeLedger ==
    ASSUME NEW q \in SUBSET Delivery, NEW js, NEW s, NEW done,
           Ledger(q, js, s, done), NEW d \in q, NEW q2 \in SUBSET (q \ {d})
    PROVE  Nowhere(d.message, q2, js) /\ s[d.message] = 0
<1>1. d.message \in Messages
  BY DEF Delivery
<1> QED BY <1>1 DEF Ledger, OnePlace, SentOnce, Nowhere

\* A job that is over leaves its message nowhere, if it is not put anywhere.
LEMMA FinishLedger ==
    ASSUME NEW q, NEW js \in JobLists, NEW s, NEW done, Ledger(q, js, s, done),
           NEW w \in Workers, js[w] # <<>>
    PROVE  LET js2 == Finished(js, w)
               m0  == JobAt(js, w, 1).message
           IN  /\ Ledger(q, js2, s, done \ {w})
               /\ \A m : Nowhere(m, q, js) => Nowhere(m, q, js2)
               /\ Nowhere(m0, q, js2)
               /\ ~Nowhere(m0, q, js)
               /\ w \notin done => s[m0] = 0
<1> PICK js2 : js2 = Finished(js, w)
  OBVIOUS
<1>1. /\ 1 \in Places(js, w)
      /\ JobAt(js, w, 1).message \in Messages
  BY FirstJob
<1>2. /\ \A i \in Places(js2, w) :
            /\ i \in Nat /\ i >= 1
            /\ i + 1 \in Places(js, w)
            /\ JobAt(js2, w, i) = JobAt(js, w, i + 1)
      /\ OthersKeep(js, js2, w)
  BY FinishedJobs
<1>3. \A v \in Workers : \A i \in Places(js2, v) :
         IF v = w
         THEN /\ i + 1 \in Places(js, v) /\ i + 1 # 1
              /\ JobAt(js2, v, i) = JobAt(js, v, i + 1)
         ELSE i \in Places(js, v) /\ JobAt(js2, v, i) = JobAt(js, v, i)
  BY <1>2 DEF OthersKeep
<1>4. \A i, j : i \in Nat /\ j \in Nat /\ i + 1 = j + 1 => i = j
  OBVIOUS
<1>5. OnePlace(q, js2)
  BY <1>2, <1>3, <1>4 DEF Ledger, OnePlace
<1>6. SentOnce(q, js2, s, done \ {w})
  BY <1>3 DEF Ledger, SentOnce
<1>7. \A m : Nowhere(m, q, js) => Nowhere(m, q, js2)
  BY <1>3 DEF Nowhere
<1>8. Nowhere(JobAt(js, w, 1).message, q, js2)
  BY <1>1, <1>3 DEF Ledger, OnePlace, Nowhere
<1>9. ~Nowhere(JobAt(js, w, 1).message, q, js)
  BY <1>1 DEF Nowhere
<1>10. w \notin done => s[JobAt(js, w, 1).message] = 0
  BY <1>1 DEF Ledger, SentOnce
<1> QED BY <1>5, <1>6, <1>7, <1>8, <1>9, <1>10 DEF Ledger

\* A worker gives up all its jobs.
LEMMA DropLedger ==
    ASSUME NEW q, NEW js \in JobLists, NEW s, NEW done, Ledger(q, js, s, done),
           NEW w \in Workers
    PROVE  LET js2 == Dropped(js, w)
           IN  /\ Ledger(q, js2, s, done \ {w})
               /\ \A m : Nowhere(m, q, js) => Nowhere(m, q, js2)
<1> PICK js2 : js2 = Dropped(js, w)
  OBVIOUS
<1>1. \A v \in Workers : \A i \in Places(js2, v) :
         v # w /\ i \in Places(js, v) /\ JobAt(js2, v, i) = JobAt(js, v, i)
  BY DroppedJobs DEF OthersKeep
<1>2. OnePlace(q, js2)
  BY <1>1 DEF Ledger, OnePlace
<1>3. SentOnce(q, js2, s, done \ {w})
  BY <1>1 DEF Ledger, SentOnce
<1>4. \A m : Nowhere(m, q, js) => Nowhere(m, q, js2)
  BY <1>1 DEF Nowhere
<1> QED BY <1>2, <1>3, <1>4 DEF Ledger

\* A delivery of a message that is nowhere is queued.
LEMMA PutLedger ==
    ASSUME NEW q, NEW js, NEW s, NEW done, Ledger(q, js, s, done),
           NEW d, Nowhere(d.message, q, js), s[d.message] = 0
    PROVE  /\ Ledger(q \cup {d}, js, s, done)
           /\ \A m : m # d.message /\ Nowhere(m, q, js) => Nowhere(m, q \cup {d}, js)
<1>1. OnePlace(q \cup {d}, js)
  BY DEF Ledger, OnePlace, Nowhere
<1>2. SentOnce(q \cup {d}, js, s, done)
  BY DEF Ledger, SentOnce
<1>3. \A m : m # d.message /\ Nowhere(m, q, js) => Nowhere(m, q \cup {d}, js)
  BY DEF Nowhere
<1> QED BY <1>1, <1>2, <1>3 DEF Ledger

\* A message that is nowhere becomes the last job of a worker.
LEMMA ExtendLedger ==
    ASSUME NEW q, NEW js \in JobLists, NEW s, NEW done, Ledger(q, js, s, done),
           NEW w \in Workers, NEW job \in Job,
           Nowhere(job.message, q, js), s[job.message] = 0
    PROVE  LET js2 == Extended(js, w, job)
           IN  /\ Ledger(q, js2, s, done)
               /\ \A m : m # job.message /\ Nowhere(m, q, js) => Nowhere(m, q, js2)
<1> PICK js2 : js2 = Extended(js, w, job)
  OBVIOUS
<1>1. /\ \A i \in Places(js, w) : JobAt(js2, w, i) = JobAt(js, w, i)
      /\ OthersKeep(js, js2, w)
  BY ExtendedJobs
<1>2. PICK n \in Places(js2, w) :
         /\ JobAt(js2, w, n) = job
         /\ \A i \in Places(js2, w) : i # n => i \in Places(js, w)
  BY ExtendedJobs
<1>3. \A v \in Workers : \A i \in Places(js2, v) :
         \/ v = w /\ i = n /\ JobAt(js2, v, i) = job
         \/ i \in Places(js, v) /\ JobAt(js2, v, i) = JobAt(js, v, i)
  BY <1>1, <1>2 DEF OthersKeep
<1>4. OnePlace(q, js2)
  BY <1>3 DEF Ledger, OnePlace, Nowhere
<1>5. SentOnce(q, js2, s, done)
  BY <1>3 DEF Ledger, SentOnce
<1>6. \A m : m # job.message /\ Nowhere(m, q, js) => Nowhere(m, q, js2)
  BY <1>3 DEF Nowhere
<1> QED BY <1>4, <1>5, <1>6 DEF Ledger

\* A new delivery is queued, dropped for want of room, or makes room for itself.
LEMMA QueuedLedger ==
    ASSUME NEW q \in SUBSET Delivery, IsFiniteSet(q), NEW js, NEW s, NEW done,
           Ledger(q, js, s, done),
           NEW d, Nowhere(d.message, q, js), s[d.message] = 0,
           NEW t, NEW q2, Appended(Unexpired(q, t), q2, d)
    PROVE  /\ IsFiniteSet(q2)
           /\ Ledger(q2, js, s, done)
           /\ \A m : m # d.message /\ Nowhere(m, q, js) => Nowhere(m, q2, js)
<1>1. PICK q3 \in SUBSET q : q2 = q3 \/ q2 = q3 \cup {d}
  BY DEF Appended, Evictable, Unexpired
<1>2. /\ IsFiniteSet(q3) /\ IsFiniteSet(q3 \cup {d})
  BY Sizes
<1>3. /\ Ledger(q3, js, s, done)
      /\ \A m : Nowhere(m, q, js) => Nowhere(m, q3, js)
  BY ShrinkLedger
<1>4. /\ Ledger(q3 \cup {d}, js, s, done)
      /\ \A m : m # d.message /\ Nowhere(m, q3, js) => Nowhere(m, q3 \cup {d}, js)
  BY <1>3, PutLedger
<1> QED BY <1>1, <1>2, <1>3, <1>4

-----------------------------------------------------------------------------
(* The steps *)

LEMMA ReadingsPast ==
    ASSUME now \in Nat, NEW t \in Readings
    PROVE  t \in Nat /\ t <= now /\ now - MaxLag <= t
BY SenderAssumption DEF Readings, Larger

LEMMA Basics ==
    ASSUME IInv
    PROVE  /\ file \in GovernorFile \cup {NoFile}
           /\ now \in Nat /\ ids \in Nat /\ ids + 1 \in Nat
           /\ jobs \in JobLists
           /\ QueueOf(file) \in SUBSET Delivery
BY DEF IInv, TypeOK, JobLists, QueueOf, GovernorFile

LEMMA InitInv == Init => IInv
<1> SUFFICES ASSUME Init PROVE IInv
  OBVIOUS
<1>1. TypeOK
  BY EmptySeq DEF Init, TypeOK, Steps, Results, Answers
<1>2. QueueOf(file) = {} /\ IsFiniteSet(QueueOf(file)) /\ ~Probing(file)
  BY FS_EmptySet DEF Init, QueueOf, Probing
<1>3. \A w \in Workers : jobs[w] = <<>> /\ Places(jobs, w) = {} /\ pc[w] = "idle"
  BY <1>1, NoJobs DEF Init, TypeOK, JobLists
<1>4. \A w \in Workers : Staged(w)
  BY <1>3 DEF Staged
<1>5. \A m \in Messages : sent[m] = 0
  BY DEF Init
<1>6. Ledger(QueueOf(file), jobs, sent, Done)
  BY <1>2, <1>3, <1>5 DEF Ledger, OnePlace, SentOnce
<1>7. Fresh(QueueOf(file), jobs, sent, told)
  BY <1>2, <1>3, <1>5 DEF Fresh, Nowhere
<1>8. file = NoFile
  BY DEF Init
<1> QED BY <1>1, <1>2, <1>4, <1>6, <1>7, <1>8 DEF IInv, Marked

\* What a step of w leaves alone of the others.
Alone(w) ==
    /\ OthersKeep(jobs, jobs', w)
    /\ \A v \in Workers \ {w} :
          pc'[v] = pc[v] /\ flush'[v] = flush[v] /\ result'[v] = result[v]

LEMMA OthersStaged ==
    ASSUME IInv, NEW w \in Workers, Alone(w), Staged(w)'
    PROVE  \A v \in Workers : Staged(v)'
<1>1. ASSUME NEW v \in Workers \ {w} PROVE Staged(v)'
  <2>1. /\ jobs'[v] = jobs[v] /\ pc'[v] = pc[v] /\ flush'[v] = flush[v]
        /\ Places(jobs', v) = Places(jobs, v)
        /\ \A i : JobAt(jobs', v, i) = JobAt(jobs, v, i)
    BY DEF Alone, OthersKeep
  <2>2. Staged(v)
    BY DEF IInv
  <2> QED BY <2>1, <2>2 DEF Staged
<1> QED BY <1>1

\* The mark stays with its job: of another worker, or where it is now.
LEMMA StillMarked ==
    ASSUME IInv, NEW w \in Workers, Alone(w), Probing(file)' => Probing(file),
           \A i \in Places(jobs, w) :
              JobAt(jobs, w, i).probe = TRUE /\ ~(i = 1 /\ Recorded(w)) =>
                 \E j \in Places(jobs', w) :
                    JobAt(jobs', w, j).probe = TRUE /\ ~(j = 1 /\ Recorded(w)')
    PROVE  Marked'
<1> SUFFICES ASSUME ~Faults, Probing(file)'
             PROVE  \E v \in Workers : \E i \in Places(jobs', v) :
                       JobAt(jobs', v, i).probe = TRUE /\ ~(i = 1 /\ Recorded(v)')
  BY DEF Marked
<1>1. PICK v \in Workers : \E i \in Places(jobs, v) :
         JobAt(jobs, v, i).probe = TRUE /\ ~(i = 1 /\ Recorded(v))
  BY DEF IInv, Marked
<1>2. PICK i \in Places(jobs, v) :
         JobAt(jobs, v, i).probe = TRUE /\ ~(i = 1 /\ Recorded(v))
  BY <1>1
<1>3. CASE v = w
  BY <1>2, <1>3
<1>4. CASE v # w
  <2>1. /\ i \in Places(jobs', v)
        /\ JobAt(jobs', v, i) = JobAt(jobs, v, i)
        /\ pc'[v] = pc[v]
    BY <1>2, <1>4 DEF Alone, OthersKeep
  <2> QED BY <1>2, <2>1 DEF Recorded
<1> QED BY <1>3, <1>4

LEMMA SendStep ==
    ASSUME IInv, NEW w \in Workers, NEW m \in Messages, NEW u \in Targets,
           NEW p \in Priorities, Send(w, m, u, p)
    PROVE  IInv'
<1>1. PICK t \in Readings :
      \E o \in AdmitOutcomes(file, BuildDelivery(ids + 1, m, u, p, t), t) :
         /\ file' = o.state
         /\ IF o.allowed
            THEN /\ jobs' = [jobs EXCEPT ![w] =
                       <<[message |-> m, target |-> u, priority |-> p,
                          probe |-> o.status = "HALF_OPEN", reserved |-> {}]>>]
                 /\ pc' = [pc EXCEPT ![w] = "transport"]
                 /\ told' = [told EXCEPT ![m] = "pending"]
            ELSE /\ told' = [told EXCEPT ![m] = "queued"]
                 /\ UNCHANGED <<jobs, pc>>
  BY DEF Send
<1>2. PICK d : d = BuildDelivery(ids + 1, m, u, p, t)
  OBVIOUS
<1>3. PICK o \in AdmitOutcomes(file, d, t) :
         /\ file' = o.state
         /\ IF o.allowed
            THEN /\ jobs' = [jobs EXCEPT ![w] =
                       <<[message |-> m, target |-> u, priority |-> p,
                          probe |-> o.status = "HALF_OPEN", reserved |-> {}]>>]
                 /\ pc' = [pc EXCEPT ![w] = "transport"]
                 /\ told' = [told EXCEPT ![m] = "pending"]
            ELSE /\ told' = [told EXCEPT ![m] = "queued"]
                 /\ UNCHANGED <<jobs, pc>>
  BY <1>1, <1>2
<1>4. /\ pc[w] = "idle" /\ told[m] = "nothing" /\ ids' = ids + 1
      /\ now' = now /\ flush' = flush /\ result' = result /\ sent' = sent
  BY DEF Send
<1>5. /\ t \in Nat /\ t <= now /\ d \in Delivery /\ d.message = m
  BY <1>2, Basics, ReadingsPast, BuildType DEF BuildDelivery
<1>6. /\ jobs[w] = <<>> /\ Places(jobs, w) = {}
  BY <1>4, Basics, NoJobs DEF IInv, Staged
<1>7. /\ file' \in GovernorFile \cup {NoFile}
      /\ file' # NoFile => Coherent(file', now)
      /\ Probing(file)' => Probing(file) \/ (o.allowed /\ o.status = "HALF_OPEN")
  BY <1>3, <1>5, Basics, AdmitCoherent DEF IInv
<1>8. /\ \/ QueueOf(file') = QueueOf(file)
         \/ Appended(Unexpired(QueueOf(file), t), QueueOf(file'), d)
      /\ o.allowed => QueueOf(file') \subseteq QueueOf(file)
  BY <1>3, <1>5, Basics, AdmitMoves, NoFileAssumption DEF QueueOf
<1>9. /\ Nowhere(m, QueueOf(file), jobs) /\ sent[m] = 0
  BY <1>4 DEF IInv, Fresh
<1>10. CASE o.allowed
  <2>1. PICK job : job = [message |-> m, target |-> u, priority |-> p,
                          probe |-> o.status = "HALF_OPEN", reserved |-> {}]
    OBVIOUS
  <2>2. /\ job \in Job /\ job.message = m /\ job.reserved = {}
        /\ o.status = "HALF_OPEN" => job.probe = TRUE
    BY <2>1 DEF Job
  <2>3. jobs' = Extended(jobs, w, job)
    BY <1>3, <1>6, <1>10, <2>1 DEF Extended
  <2>4. Alone(w) /\ jobs' \in JobLists /\ jobs'[w] # <<>>
    <3>1. /\ OthersKeep(jobs, jobs', w)
          /\ jobs' \in JobLists /\ jobs'[w] # <<>>
      BY <2>2, <2>3, Basics, ExtendedJobs
    <3> QED BY <1>3, <1>4, <1>10, <3>1 DEF Alone, IInv, TypeOK
  <2>5. PICK n \in Places(jobs', w) :
           JobAt(jobs', w, n) = job /\ \A i \in Places(jobs', w) : i = n
    BY <1>6, <2>2, <2>3, Basics, ExtendedJobs
  <2>6. pc' = [pc EXCEPT ![w] = "transport"] /\ told' = [told EXCEPT ![m] = "pending"]
    BY <1>3, <1>10
  <2>7. TypeOK'
    BY <1>4, <1>7, <2>4, <2>6, Basics DEF IInv, TypeOK, JobLists, Steps, Answers
  <2>8. Staged(w)'
    BY <2>2, <2>4, <2>5, <2>6 DEF Staged, Backed, IInv, TypeOK
  <2>9. Done' = Done
    BY <1>4, <2>6 DEF Done, IInv, TypeOK
  <2>10. /\ Ledger(QueueOf(file'), jobs, sent, Done)
         /\ \A x : Nowhere(x, QueueOf(file), jobs) => Nowhere(x, QueueOf(file'), jobs)
    BY <1>8, <1>10, ShrinkLedger DEF IInv
  <2>11. /\ Ledger(QueueOf(file'), jobs', sent, Done)
         /\ \A x : x # m /\ Nowhere(x, QueueOf(file'), jobs)
                     => Nowhere(x, QueueOf(file'), jobs')
    BY <1>9, <2>2, <2>3, <2>10, Basics, ExtendLedger
  <2>12. Fresh(QueueOf(file'), jobs', sent, told')
    BY <2>6, <2>10, <2>11 DEF Fresh, IInv, TypeOK
  <2>13. IsFiniteSet(QueueOf(file'))
    BY <1>8, <1>10, FS_Subset DEF IInv
  <2>14. Marked'
    <3>1. CASE Probing(file)
      <4>1. Probing(file)' => Probing(file)
        BY <3>1
      <4> QED BY <1>6, <2>4, <4>1, StillMarked
    <3>2. CASE ~Probing(file)
      <4>1. Probing(file)' => JobAt(jobs', w, n).probe = TRUE /\ pc'[w] = "transport"
        BY <1>7, <2>2, <2>5, <2>6, <3>2 DEF IInv, TypeOK
      <4> QED BY <2>5, <4>1 DEF Marked, Recorded
    <3> QED BY <3>1, <3>2
  <2> QED BY <1>4, <1>7, <2>4, <2>7, <2>8, <2>9, <2>11, <2>12, <2>13, <2>14, OthersStaged
          DEF IInv
<1>11. CASE ~o.allowed
  <2>1. /\ jobs' = jobs /\ pc' = pc /\ told' = [told EXCEPT ![m] = "queued"]
    BY <1>3, <1>11
  <2>2. Alone(w)
    BY <1>4, <2>1 DEF Alone, OthersKeep
  <2>3. TypeOK'
    BY <1>4, <1>7, <2>1, Basics DEF IInv, TypeOK, Answers
  <2>4. Staged(w)'
    BY <1>4, <2>1 DEF Staged, IInv
  <2>5. Done' = Done
    BY <1>4, <2>1 DEF Done
  <2>6. /\ IsFiniteSet(QueueOf(file'))
        /\ Ledger(QueueOf(file'), jobs, sent, Done)
        /\ \A x : x # m /\ Nowhere(x, QueueOf(file), jobs)
                    => Nowhere(x, QueueOf(file'), jobs)
    BY <1>5, <1>8, <1>9, Basics, QueuedLedger DEF IInv
  <2>7. Fresh(QueueOf(file'), jobs', sent, told')
    BY <2>1, <2>6 DEF Fresh, IInv, TypeOK
  <2>8. Marked'
    BY <1>6, <1>7, <1>11, <2>2, StillMarked
  <2> QED BY <1>4, <1>7, <2>1, <2>2, <2>3, <2>4, <2>5, <2>6, <2>7, <2>8, OthersStaged
          DEF IInv
<1> QED BY <1>10, <1>11

LEMMA FlushQueuedStep ==
    ASSUME IInv, NEW w \in Workers, NEW u \in Targets, NEW limit \in FlushLimits,
           FlushQueued(w, u, limit)
    PROVE  IInv'
<1>1. /\ pc[w] = "idle" /\ limit > 0 /\ limit \in Nat
      /\ flush' = [flush EXCEPT ![w] = [target |-> u, left |-> limit]]
      /\ pc' = [pc EXCEPT ![w] = "reserve"]
      /\ file' = file /\ now' = now /\ ids' = ids /\ jobs' = jobs
      /\ result' = result /\ told' = told /\ sent' = sent
  BY SenderAssumption DEF FlushQueued, governorVars
<1>2. TypeOK'
  BY <1>1 DEF IInv, TypeOK, Steps
<1>3. Alone(w)
  BY <1>1 DEF Alone, OthersKeep, IInv, TypeOK
<1>4. Staged(w)'
  BY <1>1 DEF Staged, IInv, TypeOK
<1>5. Done' = Done
  BY <1>1 DEF Done, IInv, TypeOK
<1>6. jobs[w] = <<>> /\ Places(jobs, w) = {}
  BY <1>1, Basics, NoJobs DEF IInv, Staged
<1>7. Marked'
  BY <1>1, <1>3, <1>6, StillMarked
<1> QED BY <1>1, <1>2, <1>3, <1>4, <1>5, <1>7, OthersStaged DEF IInv

\* One turn of flush_plan(): what is left to reserve, and where it goes on.
LEMMA ReserveStep ==
    ASSUME IInv, NEW w \in Workers, Reserve(w)
    PROVE  IInv'
<1> PICK u \in Targets : u = flush[w].target
  BY DEF IInv, TypeOK
<1> DEFINE Outcome(o) ==
         /\ file' = o.state
         /\ jobs' = [jobs EXCEPT ![w] =
               IF o.reserved = {} THEN @
               ELSE LET d == CHOOSE d \in o.reserved : TRUE
                    IN  Append(@, [message |-> d.message, target |-> d.target,
                                   priority |-> d.priority,
                                   probe |-> o.state.status = "HALF_OPEN",
                                   reserved |-> {d}])]
         /\ LET left == IF o.reserved = {} THEN 0 ELSE flush[w].left - 1
            IN  /\ flush' = [flush EXCEPT ![w].left = left]
                /\ pc' = [pc EXCEPT ![w] = IF left > 0 THEN "reserve"
                                            ELSE IF jobs'[w] = <<>> THEN "idle"
                                            ELSE "transport"]
<1>0. PICK t \in Readings : \E o \in ReserveOutcomes(file, u, t) : Outcome(o)
  BY DEF Reserve
<1>1. PICK o \in ReserveOutcomes(file, u, t) : Outcome(o)
  BY <1>0
<1> PICK left : left = IF o.reserved = {} THEN 0 ELSE flush[w].left - 1
  OBVIOUS
<1>2. /\ pc[w] = "reserve" /\ now' = now /\ ids' = ids
      /\ result' = result /\ told' = told /\ sent' = sent
  BY DEF Reserve
<1>3. /\ t \in Nat /\ t <= now
  BY Basics, ReadingsPast
<1>4. flush[w].left > 0 /\ flush[w].left \in Nat
  BY <1>2 DEF IInv, Staged, TypeOK
<1>5. left \in Nat
  BY <1>1, <1>4
<1>6. /\ file' \in GovernorFile
      /\ Coherent(file', now)
      /\ Probing(file)' => Probing(file) \/ (o.reserved # {} /\ o.state.status = "HALF_OPEN")
      /\ o.reserved \subseteq Delivery
  BY <1>1, <1>3, Basics, ReserveCoherent DEF IInv
<1>7. LET live == Unexpired(QueueOf(file), t)
      IN  /\ o.reserved = {} => o.state.queue = live
          /\ o.reserved # {} =>
                \E d \in live : /\ o.reserved = {[d EXCEPT !.attempts = @ + 1]}
                                /\ o.state.queue = Others(live, d)
  BY <1>3, Basics, ReserveMoves
<1>8. QueueOf(file') = o.state.queue
  BY <1>1, <1>6, NoFileAssumption DEF QueueOf
<1>9. /\ flush' \in [Workers -> [target : Targets, left : Nat]]
      /\ flush'[w].left = left
      /\ \A v \in Workers \ {w} : flush'[v] = flush[v]
  <2>1. flush[w] \in [target : Targets, left : Nat]
    BY DEF IInv, TypeOK
  <2>2. [flush[w] EXCEPT !.left = left] \in [target : Targets, left : Nat]
        /\ [flush[w] EXCEPT !.left = left].left = left
    BY <1>5, <2>1
  <2>3. flush' = [flush EXCEPT ![w] = [flush[w] EXCEPT !.left = left]]
    BY <1>1
  <2> QED BY <2>2, <2>3 DEF IInv, TypeOK
<1>10. /\ pc' \in [Workers -> Steps]
       /\ pc'[w] = IF left > 0 THEN "reserve"
                   ELSE IF jobs'[w] = <<>> THEN "idle" ELSE "transport"
       /\ \A v \in Workers \ {w} : pc'[v] = pc[v]
  BY <1>1 DEF IInv, TypeOK, Steps
<1>11. Done' = Done
  BY <1>2, <1>10 DEF Done, IInv, TypeOK
<1>12. CASE o.reserved = {}
  <2>1. jobs' = jobs
    BY <1>1, <1>12, Basics DEF JobLists
  <2>2. QueueOf(file') \in SUBSET QueueOf(file)
    BY <1>7, <1>8, <1>12 DEF Unexpired
  <2>3. /\ IsFiniteSet(QueueOf(file'))
        /\ Ledger(QueueOf(file'), jobs, sent, Done)
        /\ \A x : Nowhere(x, QueueOf(file), jobs) => Nowhere(x, QueueOf(file'), jobs)
    BY <2>2, ShrinkLedger, FS_Subset DEF IInv
  <2>4. Fresh(QueueOf(file'), jobs, sent, told)
    BY <2>3 DEF Fresh, IInv
  <2>5. Alone(w)
    BY <1>2, <1>9, <1>10, <2>1 DEF Alone, OthersKeep
  <2>6. Staged(w)'
    BY <1>2, <1>9, <1>10, <2>1 DEF Staged, IInv
  <2>7. TypeOK'
    BY <1>2, <1>6, <1>9, <1>10, <2>1 DEF IInv, TypeOK
  <2>8. Marked'
    BY <1>2, <1>6, <1>10, <1>12, <2>1, <2>5, StillMarked DEF Recorded
  <2> QED BY <1>2, <1>6, <1>11, <2>1, <2>3, <2>4, <2>5, <2>6, <2>7, <2>8, OthersStaged
          DEF IInv
<1>13. CASE o.reserved # {}
  <2>1. PICK d \in Unexpired(QueueOf(file), t) :
           /\ o.reserved = {[d EXCEPT !.attempts = @ + 1]}
           /\ o.state.queue = Others(Unexpired(QueueOf(file), t), d)
    BY <1>7, <1>13
  <2>2. PICK c \in Delivery : o.reserved = {c} /\ c.message = d.message
    <3>1. d \in Delivery
      BY Basics DEF Unexpired
    <3> QED BY <1>6, <2>1, <3>1 DEF Delivery
  <2>3. (CHOOSE x \in o.reserved : TRUE) = c
    BY <2>2
  <2>4. PICK job : job = [message |-> c.message, target |-> c.target,
                          priority |-> c.priority,
                          probe |-> o.state.status = "HALF_OPEN", reserved |-> {c}]
    OBVIOUS
  <2>5. /\ job \in Job /\ job.message = d.message
        /\ Backed(job)
        /\ o.state.status = "HALF_OPEN" => job.probe = TRUE
    BY <2>2, <2>4 DEF Job, Delivery, Backed
  <2>6. jobs' = Extended(jobs, w, job)
    BY <1>1, <1>13, <2>3, <2>4 DEF Extended
  <2>7. /\ OthersKeep(jobs, jobs', w)
        /\ jobs' \in JobLists /\ jobs'[w] # <<>>
        /\ \A i \in Places(jobs, w) :
              i \in Places(jobs', w) /\ JobAt(jobs', w, i) = JobAt(jobs, w, i)
    BY <2>5, <2>6, Basics, ExtendedJobs
  <2>8. PICK n \in Places(jobs', w) :
           /\ JobAt(jobs', w, n) = job
           /\ \A i \in Places(jobs', w) : i # n => i \in Places(jobs, w)
    BY <2>5, <2>6, Basics, ExtendedJobs
  <2>9. d \in QueueOf(file) /\ QueueOf(file') \in SUBSET (QueueOf(file) \ {d})
    BY <1>8, <2>1 DEF Unexpired, Others
  <2>10. /\ IsFiniteSet(QueueOf(file'))
         /\ Ledger(QueueOf(file'), jobs, sent, Done)
         /\ \A x : Nowhere(x, QueueOf(file), jobs) => Nowhere(x, QueueOf(file'), jobs)
    BY <2>9, ShrinkLedger, FS_Subset DEF IInv
  <2>11. Nowhere(d.message, QueueOf(file'), jobs) /\ sent[d.message] = 0
    BY <2>9, Basics, TakeLedger DEF IInv
  <2>12. /\ Ledger(QueueOf(file'), jobs', sent, Done)
         /\ \A x : x # d.message /\ Nowhere(x, QueueOf(file'), jobs)
                     => Nowhere(x, QueueOf(file'), jobs')
    BY <2>5, <2>6, <2>10, <2>11, Basics, ExtendLedger
  <2>13. Fresh(QueueOf(file'), jobs', sent, told)
    <3>1. ~Nowhere(d.message, QueueOf(file), jobs)
      BY <2>9 DEF Nowhere
    <3> QED BY <2>10, <2>12, <3>1 DEF Fresh, IInv
  <2>14. Alone(w)
    BY <1>2, <1>9, <1>10, <2>7 DEF Alone
  <2>15. Staged(w)'
    <3>1. \A i \in Places(jobs', w) : Backed(JobAt(jobs', w, i))
      BY <2>5, <2>7, <2>8 DEF IInv, Staged
    <3> QED BY <1>9, <1>10, <2>7, <3>1 DEF Staged
  <2>16. TypeOK'
    BY <1>2, <1>6, <1>9, <1>10, <2>7 DEF IInv, TypeOK, JobLists
  <2>17. Marked'
    <3>1. ~Recorded(w) /\ ~Recorded(w)'
      BY <1>2, <1>10 DEF Recorded
    <3>2. CASE Probing(file)
      BY <2>7, <2>14, <3>1, <3>2, StillMarked
    <3>3. CASE ~Probing(file)
      <4>1. Probing(file)' => JobAt(jobs', w, n).probe = TRUE
        BY <1>6, <1>1, <2>5, <2>8, <3>3
      <4> QED BY <2>8, <3>1, <4>1 DEF Marked
    <3> QED BY <3>2, <3>3
  <2> QED BY <1>2, <1>6, <1>11, <2>10, <2>12, <2>13, <2>14, <2>15, <2>16, <2>17,
             OthersStaged DEF IInv
<1> QED BY <1>12, <1>13

LEMMA AttemptsType ==
    ASSUME NEW w \in Workers
    PROVE  Attempts(w) \subseteq Results
BY SenderAssumption DEF Attempts, Results

\* The current job of a worker succeeds, by a delivery or by a dry run.
AtMostOneMore(s, s2, m0) ==
    \A m \in Messages : s2[m] = s[m] \/ (m = m0 /\ s2[m] = s[m] + 1)

LEMMA DeliverLedger ==
    ASSUME IInv, NEW w \in Workers, jobs[w] # <<>>, w \notin Done,
           NEW s2, AtMostOneMore(sent, s2, JobAt(jobs, w, 1).message)
    PROVE  /\ Ledger(QueueOf(file), jobs, s2, Done \cup {w})
           /\ \A m \in Messages : Nowhere(m, QueueOf(file), jobs) => s2[m] = sent[m]
<1> PICK q, done, m0 :
       q = QueueOf(file) /\ done = Done /\ m0 = JobAt(jobs, w, 1).message
  OBVIOUS
<1>1. 1 \in Places(jobs, w) /\ m0 \in Messages
  BY Basics, FirstJob
<1>2. Ledger(q, jobs, sent, done)
  BY DEF IInv
<1>3. sent[m0] = 0 /\ ~Nowhere(m0, q, jobs)
  BY <1>1, <1>2 DEF Ledger, SentOnce, Nowhere
<1>4. \A m \in Messages : s2[m] = sent[m] \/ (m = m0 /\ s2[m] = 1)
  BY <1>1, <1>3 DEF AtMostOneMore
<1>5. /\ \A d \in q : d.message # m0
      /\ \A v \in Workers : \A i \in Places(jobs, v) :
            JobAt(jobs, v, i).message = m0 => i = 1 /\ v = w
  BY <1>1, <1>2 DEF Ledger, OnePlace
<1>6. SentOnce(q, jobs, s2, done \cup {w})
  BY <1>2, <1>4, <1>5 DEF Ledger, SentOnce
<1> QED BY <1>2, <1>3, <1>4, <1>6 DEF Ledger

LEMMA TransportStep ==
    ASSUME IInv, NEW w \in Workers, Transport(w)
    PROVE  IInv'
<1>1. PICK r \in Attempts(w) :
         /\ result' = [result EXCEPT ![w] = r]
         /\ sent' = IF r = "ok" /\ Mode[w] = "transport"
                    THEN [sent EXCEPT ![Head(jobs[w]).message] = @ + 1]
                    ELSE sent
  BY DEF Transport
<1>2. /\ pc[w] = "transport" /\ pc' = [pc EXCEPT ![w] = "record"]
      /\ file' = file /\ now' = now /\ ids' = ids
      /\ jobs' = jobs /\ flush' = flush /\ told' = told
  BY DEF Transport, governorVars
<1>3. jobs[w] # <<>>
  BY <1>2 DEF IInv, Staged
<1>4. /\ Head(jobs[w]) = JobAt(jobs, w, 1)
      /\ JobAt(jobs, w, 1).message \in Messages
  BY <1>3, Basics, FirstJob
<1>5. r \in Results
  BY AttemptsType
<1>6. /\ sent' \in [Messages -> Nat]
      /\ \/ sent' = sent
         \/ r = "ok" /\ sent' = [sent EXCEPT ![JobAt(jobs, w, 1).message] = @ + 1]
  <2>1. PICK m0 \in Messages : m0 = JobAt(jobs, w, 1).message
    BY <1>4
  <2>2. \/ sent' = sent
        \/ r = "ok" /\ sent' = [sent EXCEPT ![m0] = @ + 1]
    BY <1>1, <1>4, <2>1
  <2>3. sent \in [Messages -> Nat]
    BY DEF IInv, TypeOK
  <2>4. [sent EXCEPT ![m0] = @ + 1] \in [Messages -> Nat]
    BY <2>3
  <2> QED BY <2>1, <2>2, <2>3, <2>4
<1>7. TypeOK'
  BY <1>1, <1>2, <1>5, <1>6 DEF IInv, TypeOK, Steps
<1>8. w \notin Done
  BY <1>2 DEF Done
<1>9. /\ Ledger(QueueOf(file), jobs, sent', Done')
      /\ \A m \in Messages : Nowhere(m, QueueOf(file), jobs) => sent'[m] = sent[m]
  <2>1. CASE r = "ok"
    <3>1. Done' = Done \cup {w}
      BY <1>1, <1>2, <2>1 DEF Done, IInv, TypeOK
    <3>2. AtMostOneMore(sent, sent', JobAt(jobs, w, 1).message)
      BY <1>4, <1>6 DEF AtMostOneMore, IInv, TypeOK
    <3>3. PICK s2 : s2 = sent'
      OBVIOUS
    <3>4. /\ Ledger(QueueOf(file), jobs, s2, Done \cup {w})
          /\ \A m \in Messages : Nowhere(m, QueueOf(file), jobs) => s2[m] = sent[m]
      BY <1>3, <1>8, <3>2, <3>3, DeliverLedger
    <3> QED BY <3>1, <3>3, <3>4
  <2>2. CASE r # "ok"
    <3>1. Done' = Done /\ sent' = sent
      BY <1>1, <1>2, <1>6, <1>8, <2>2 DEF Done, IInv, TypeOK
    <3> QED BY <3>1 DEF IInv
  <2> QED BY <2>1, <2>2
<1>10. Fresh(QueueOf(file), jobs, sent', told)
  BY <1>9 DEF Fresh, IInv
<1>11. Alone(w)
  BY <1>1, <1>2 DEF Alone, OthersKeep, IInv, TypeOK
<1>12. Staged(w)'
  BY <1>2, <1>3 DEF Staged, IInv, TypeOK
<1>13. Marked'
  <2>1. ~Recorded(w) /\ ~Recorded(w)'
    BY <1>2 DEF Recorded, IInv, TypeOK
  <2> QED BY <1>2, <1>11, <2>1, StillMarked
<1> QED BY <1>2, <1>7, <1>9, <1>10, <1>11, <1>12, <1>13, OthersStaged DEF IInv

\* The current job is over.
LEMMA FinishJobStep ==
    ASSUME IInv, NEW w \in Workers, jobs[w] # <<>>, FinishJob(w), flush' = flush
    PROVE  /\ jobs' = Finished(jobs, w) /\ jobs' \in JobLists
           /\ pc' \in [Workers -> Steps] /\ pc'[w] \in {"transport", "idle"}
           /\ OthersKeep(jobs, jobs', w)
           /\ \A v \in Workers \ {w} : pc'[v] = pc[v]
           /\ Staged(w)'
<1>1. /\ jobs' = Finished(jobs, w)
      /\ pc' = [pc EXCEPT ![w] = IF Len(jobs[w]) > 1 THEN "transport" ELSE "idle"]
  BY DEF FinishJob, Finished
<1>2. /\ jobs' \in JobLists
      /\ \A i \in Places(jobs', w) :
            i + 1 \in Places(jobs, w) /\ JobAt(jobs', w, i) = JobAt(jobs, w, i + 1)
      /\ OthersKeep(jobs, jobs', w)
      /\ IF Len(jobs[w]) > 1 THEN jobs'[w] # <<>> ELSE jobs'[w] = <<>>
  BY <1>1, Basics, FinishedJobs
<1>3. PICK more \in BOOLEAN : more <=> Len(jobs[w]) > 1
  OBVIOUS
<1>4. /\ pc' \in [Workers -> Steps]
      /\ pc'[w] = IF more THEN "transport" ELSE "idle"
      /\ \A v \in Workers \ {w} : pc'[v] = pc[v]
  BY <1>1, <1>3 DEF IInv, TypeOK, Steps
<1>5. \A i \in Places(jobs', w) : Backed(JobAt(jobs', w, i))
  BY <1>2 DEF IInv, Staged
<1>6. Staged(w)'
  BY <1>2, <1>3, <1>4, <1>5 DEF Staged
<1> QED BY <1>1, <1>2, <1>4, <1>6

\* Where that leaves the ledger, if the job did not succeed.
LEMMA FinishJobLedger ==
    ASSUME IInv, NEW w \in Workers, jobs[w] # <<>>, w \notin Done,
           NEW js2, js2 = Finished(jobs, w),
           NEW m, m = JobAt(jobs, w, 1).message
    PROVE  /\ Ledger(QueueOf(file), js2, sent, Done)
           /\ \A x : Nowhere(x, QueueOf(file), jobs) => Nowhere(x, QueueOf(file), js2)
           /\ Nowhere(m, QueueOf(file), js2)
           /\ ~Nowhere(m, QueueOf(file), jobs)
           /\ sent[m] = 0
<1>1. Ledger(QueueOf(file), jobs, sent, Done)
  BY DEF IInv
<1>2. /\ Ledger(QueueOf(file), Finished(jobs, w), sent, Done \ {w})
      /\ \A x : Nowhere(x, QueueOf(file), jobs)
                => Nowhere(x, QueueOf(file), Finished(jobs, w))
      /\ Nowhere(JobAt(jobs, w, 1).message, QueueOf(file), Finished(jobs, w))
      /\ ~Nowhere(JobAt(jobs, w, 1).message, QueueOf(file), jobs)
      /\ sent[JobAt(jobs, w, 1).message] = 0
  <2>1. jobs \in JobLists
    BY Basics
  <2> QED BY <1>1, <2>1, FinishLedger
<1>3. Done \ {w} = Done
  OBVIOUS
<1> QED BY <1>2, <1>3

\* A probe behind the current job, which is recorded, is still to come.
LEMMA FinishedMarked ==
    ASSUME IInv, NEW w \in Workers, jobs[w] # <<>>, Recorded(w), Alone(w),
           jobs' = Finished(jobs, w), ~Recorded(w)', Probing(file)' => Probing(file)
    PROVE  Marked'
<1>1. \A i \in Places(jobs, w) : i # 1 =>
         /\ i - 1 \in Places(jobs', w)
         /\ JobAt(jobs', w, i - 1) = JobAt(jobs, w, i)
  BY Basics, FinishedJobs
<1>2. \A i \in Places(jobs, w) :
         JobAt(jobs, w, i).probe = TRUE /\ ~(i = 1 /\ Recorded(w)) =>
            \E j \in Places(jobs', w) :
               JobAt(jobs', w, j).probe = TRUE /\ ~(j = 1 /\ Recorded(w)')
  BY <1>1
<1> QED BY <1>2, StillMarked

LEMMA AnswerType ==
    ASSUME told \in [Messages -> Answers], NEW job, job.message \in Messages,
           NEW reply \in Answers, reply # "nothing", Answer(job, reply)
    PROVE  /\ told' \in [Messages -> Answers]
           /\ \A m \in Messages : told'[m] = "nothing" => told[m] = "nothing"
BY DEF Answer

LEMMA RecordStep ==
    ASSUME IInv, NEW w \in Workers, Record(w)
    PROVE  IInv'
<1>1. PICK t \in Readings : file' \in RecordOutcomes(file, result[w], t)
  BY DEF Record
<1>2. /\ pc[w] = "record" /\ result' = [result EXCEPT ![w] = "ok"]
      /\ now' = now /\ ids' = ids /\ flush' = flush /\ sent' = sent
  BY DEF Record
<1>3. PICK job : job = JobAt(jobs, w, 1)
  OBVIOUS
<1>4. /\ jobs[w] # <<>> /\ Head(jobs[w]) = job
      /\ job \in Job /\ job.message \in Messages
  BY <1>2, <1>3, Basics, FirstJob DEF IInv, Staged
<1>5. result[w] \in Results /\ t \in Nat /\ t <= now
  BY Basics, ReadingsPast DEF IInv, TypeOK
<1>6. file' \in GovernorFile /\ Coherent(file', now) /\ ~Probing(file)'
  BY <1>1, <1>5, Basics, RecordCoherent DEF IInv
<1>7. QueueOf(file') \in SUBSET QueueOf(file)
  BY <1>1, <1>5, <1>6, Basics, RecordMoves, NoFileAssumption DEF QueueOf, Unexpired
<1>8. /\ IsFiniteSet(QueueOf(file'))
      /\ Ledger(QueueOf(file'), jobs, sent, Done)
      /\ \A x : Nowhere(x, QueueOf(file), jobs) => Nowhere(x, QueueOf(file'), jobs)
  BY <1>7, ShrinkLedger, FS_Subset DEF IInv
<1>9. Marked'
  BY <1>6 DEF Marked
<1>10. result' \in [Workers -> Results] /\ \A v \in Workers \ {w} : result'[v] = result[v]
  BY <1>2 DEF IInv, TypeOK, Results
<1>11. CASE /\ FinishJob(w)
            /\ \/ Answer(job, "sent")
               \/ Answer(job, "failed")
  <2>1. /\ jobs' = Finished(jobs, w) /\ jobs' \in JobLists
        /\ pc' \in [Workers -> Steps] /\ pc'[w] \in {"transport", "idle"}
        /\ OthersKeep(jobs, jobs', w)
        /\ \A v \in Workers \ {w} : pc'[v] = pc[v]
        /\ Staged(w)'
    BY <1>2, <1>4, <1>11, FinishJobStep
  <2>2. /\ told' \in [Messages -> Answers]
        /\ \A m \in Messages : told'[m] = "nothing" => told[m] = "nothing"
    BY <1>4, <1>11, AnswerType DEF IInv, TypeOK, Answers
  <2>3. TypeOK'
    BY <1>2, <1>6, <1>10, <2>1, <2>2 DEF IInv, TypeOK, JobLists
  <2>4. Done' = Done \ {w}
    BY <1>10, <2>1 DEF Done
  <2>5. /\ Ledger(QueueOf(file'), jobs', sent, Done \ {w})
        /\ \A x : Nowhere(x, QueueOf(file'), jobs) => Nowhere(x, QueueOf(file'), jobs')
    BY <1>4, <1>8, <2>1, Basics, FinishLedger
  <2>6. Fresh(QueueOf(file'), jobs', sent, told')
    BY <1>8, <2>2, <2>5 DEF Fresh, IInv
  <2>7. Alone(w)
    BY <1>2, <1>10, <2>1 DEF Alone
  <2> QED BY <1>2, <1>6, <1>8, <1>9, <2>1, <2>3, <2>4, <2>5, <2>6, <2>7, OthersStaged
          DEF IInv
<1>12. CASE /\ result[w] # "ok"
            /\ pc' = [pc EXCEPT ![w] = "queue"] \/ pc' = [pc EXCEPT ![w] = "requeue"]
            /\ UNCHANGED <<jobs, told>>
  <2>1. /\ jobs' = jobs /\ told' = told
        /\ pc' \in [Workers -> Steps] /\ pc'[w] \in {"queue", "requeue"}
        /\ \A v \in Workers \ {w} : pc'[v] = pc[v]
    BY <1>12 DEF IInv, TypeOK, Steps
  <2>2. TypeOK'
    BY <1>2, <1>6, <1>10, <2>1 DEF IInv, TypeOK
  <2>3. Done' = Done
    BY <1>10, <1>12, <2>1 DEF Done
  <2>4. Alone(w)
    BY <1>2, <1>10, <2>1 DEF Alone, OthersKeep
  <2>5. Staged(w)'
    BY <1>2, <1>4, <2>1 DEF Staged, IInv
  <2>6. Fresh(QueueOf(file'), jobs', sent, told')
    BY <1>8, <2>1 DEF Fresh, IInv
  <2> QED BY <1>2, <1>6, <1>8, <1>9, <2>1, <2>2, <2>3, <2>4, <2>5, <2>6, OthersStaged
          DEF IInv
<1> QED BY <1>4, <1>11, <1>12 DEF Record

LEMMA QueueAgainStep ==
    ASSUME IInv, NEW w \in Workers, QueueAgain(w)
    PROVE  IInv'
<1>1. PICK job : job = JobAt(jobs, w, 1)
  OBVIOUS
<1>2. /\ pc[w] = "queue" /\ ids' = ids + 1
      /\ now' = now /\ flush' = flush /\ result' = result /\ sent' = sent
  BY DEF QueueAgain
<1>3. /\ jobs[w] # <<>> /\ Head(jobs[w]) = job
      /\ job \in Job /\ job.message \in Messages
  BY <1>1, <1>2, Basics, FirstJob DEF IInv, Staged
<1>4. PICK t \in Readings :
         \E o \in QueueOutcomes(file, BuildDelivery(ids + 1, job.message, job.target,
                                                    job.priority, t), t) :
            file' = o.state
  BY <1>3 DEF QueueAgain
<1>5. PICK d : d = BuildDelivery(ids + 1, job.message, job.target, job.priority, t)
  OBVIOUS
<1>6. PICK o \in QueueOutcomes(file, d, t) : file' = o.state
  BY <1>4, <1>5
<1>7. /\ t \in Nat /\ t <= now /\ d \in Delivery /\ d.message = job.message
  <2>1. job.target \in Targets /\ job.priority \in Priorities
    BY <1>3 DEF Job
  <2> QED BY <1>3, <1>5, <2>1, Basics, ReadingsPast, BuildType DEF BuildDelivery
<1>8. /\ file' \in GovernorFile /\ Coherent(file', now)
      /\ Probing(file)' => Probing(file)
  BY <1>6, <1>7, Basics, QueueCoherent DEF IInv
<1>9. Appended(Unexpired(QueueOf(file), t), QueueOf(file'), d)
  BY <1>6, <1>7, <1>8, Basics, QueueMoves, NoFileAssumption DEF QueueOf
<1>10. /\ jobs' = Finished(jobs, w) /\ jobs' \in JobLists
       /\ pc' \in [Workers -> Steps] /\ pc'[w] \in {"transport", "idle"}
       /\ OthersKeep(jobs, jobs', w)
       /\ \A v \in Workers \ {w} : pc'[v] = pc[v]
       /\ Staged(w)'
  BY <1>2, <1>3, FinishJobStep DEF QueueAgain
<1>11. /\ told' \in [Messages -> Answers]
       /\ \A m \in Messages : told'[m] = "nothing" => told[m] = "nothing"
  <2>1. Answer(job, "queued")
    BY <1>3 DEF QueueAgain
  <2> QED BY <1>3, <2>1, AnswerType DEF IInv, TypeOK, Answers
<1>12. TypeOK'
  BY <1>2, <1>8, <1>10, <1>11, Basics DEF IInv, TypeOK, JobLists
<1>13. w \notin Done /\ Done' = Done
  BY <1>2, <1>10 DEF Done
<1>14. /\ Ledger(QueueOf(file), jobs', sent, Done)
       /\ \A x : Nowhere(x, QueueOf(file), jobs) => Nowhere(x, QueueOf(file), jobs')
       /\ Nowhere(job.message, QueueOf(file), jobs')
       /\ ~Nowhere(job.message, QueueOf(file), jobs)
       /\ sent[job.message] = 0
  BY <1>1, <1>3, <1>10, <1>13, FinishJobLedger
<1>15. /\ IsFiniteSet(QueueOf(file'))
       /\ Ledger(QueueOf(file'), jobs', sent, Done)
       /\ \A x : x # job.message /\ Nowhere(x, QueueOf(file), jobs')
                   => Nowhere(x, QueueOf(file'), jobs')
  <2>1. IsFiniteSet(QueueOf(file))
    BY DEF IInv
  <2> QED BY <1>7, <1>9, <1>14, <2>1, Basics, QueuedLedger
<1>16. Fresh(QueueOf(file'), jobs', sent, told')
  BY <1>11, <1>14, <1>15 DEF Fresh, IInv
<1>17. Alone(w)
  BY <1>2, <1>10 DEF Alone
<1>18. Marked'
  BY <1>2, <1>3, <1>8, <1>10, <1>17, FinishedMarked DEF Recorded
<1> QED BY <1>2, <1>8, <1>10, <1>12, <1>13, <1>15, <1>16, <1>17, <1>18, OthersStaged
        DEF IInv

LEMMA RequeueStep ==
    ASSUME IInv, NEW w \in Workers, Requeue(w)
    PROVE  IInv'
<1>1. PICK job : job = JobAt(jobs, w, 1)
  OBVIOUS
<1>2. /\ pc[w] = "requeue" /\ ids' = ids /\ told' = told
      /\ now' = now /\ flush' = flush /\ result' = result /\ sent' = sent
  BY DEF Requeue
<1>3. /\ jobs[w] # <<>> /\ Head(jobs[w]) = job /\ 1 \in Places(jobs, w)
      /\ job \in Job /\ job.message \in Messages
  BY <1>1, <1>2, Basics, FirstJob DEF IInv, Staged
<1>4. PICK t \in Readings : \E d \in job.reserved : file' = RequeueFile(file, d, t)
  BY <1>3 DEF Requeue
<1>5. PICK d \in job.reserved : file' = RequeueFile(file, d, t)
  BY <1>4
<1>6. d \in Delivery /\ d.message = job.message
  <2>1. Backed(job)
    BY <1>1, <1>3 DEF IInv, Staged
  <2>2. job.reserved \subseteq Delivery
    BY <1>3 DEF Job
  <2> QED BY <2>1, <2>2 DEF Backed
<1>7. t \in Nat /\ t <= now
  BY Basics, ReadingsPast
<1>8. /\ file' \in GovernorFile \cup {NoFile}
      /\ file' # NoFile => Coherent(file', now)
      /\ Probing(file)' => Probing(file)
  BY <1>5, <1>6, <1>7, Basics, RequeueCoherent DEF IInv
<1>9. \E q3 \in SUBSET QueueOf(file) :
         QueueOf(file') = q3 \/ QueueOf(file') = q3 \cup {d}
  <2>1. \/ file' = file
        \/ /\ file' \in GovernorFile
           /\ file'.queue = Others(Unexpired(QueueOf(file), t), d) \cup {d}
    BY <1>5, <1>6, <1>7, Basics, RequeueMoves
  <2>2. CASE file' = file
    BY <2>2
  <2>3. CASE /\ file' \in GovernorFile
             /\ file'.queue = Others(Unexpired(QueueOf(file), t), d) \cup {d}
    <3>1. Others(Unexpired(QueueOf(file), t), d) \in SUBSET QueueOf(file)
      BY DEF Others, Unexpired
    <3>2. QueueOf(file') = file'.queue
      BY <2>3, NoFileAssumption DEF QueueOf
    <3> QED BY <2>3, <3>1, <3>2
  <2> QED BY <2>1, <2>2, <2>3
<1>10. /\ jobs' = Finished(jobs, w) /\ jobs' \in JobLists
       /\ pc' \in [Workers -> Steps] /\ pc'[w] \in {"transport", "idle"}
       /\ OthersKeep(jobs, jobs', w)
       /\ \A v \in Workers \ {w} : pc'[v] = pc[v]
       /\ Staged(w)'
  BY <1>2, <1>3, FinishJobStep DEF Requeue
<1>11. TypeOK'
  BY <1>2, <1>8, <1>10 DEF IInv, TypeOK, JobLists
<1>12. w \notin Done /\ Done' = Done
  BY <1>2, <1>10 DEF Done
<1>13. /\ Ledger(QueueOf(file), jobs', sent, Done)
       /\ \A x : Nowhere(x, QueueOf(file), jobs) => Nowhere(x, QueueOf(file), jobs')
       /\ Nowhere(job.message, QueueOf(file), jobs')
       /\ ~Nowhere(job.message, QueueOf(file), jobs)
       /\ sent[job.message] = 0
  BY <1>1, <1>3, <1>10, <1>12, FinishJobLedger
<1>14. /\ IsFiniteSet(QueueOf(file'))
       /\ Ledger(QueueOf(file'), jobs', sent, Done)
       /\ \A x : x # job.message /\ Nowhere(x, QueueOf(file), jobs')
                   => Nowhere(x, QueueOf(file'), jobs')
  <2>1. PICK q3 \in SUBSET QueueOf(file) :
           QueueOf(file') = q3 \/ QueueOf(file') = q3 \cup {d}
    BY <1>9
  <2>2. IsFiniteSet(QueueOf(file)) /\ IsFiniteSet(q3) /\ IsFiniteSet(q3 \cup {d})
    BY Sizes DEF IInv
  <2>3. /\ Ledger(q3, jobs', sent, Done)
        /\ \A x : Nowhere(x, QueueOf(file), jobs') => Nowhere(x, q3, jobs')
    BY <1>13, ShrinkLedger
  <2>4. /\ Ledger(q3 \cup {d}, jobs', sent, Done)
        /\ \A x : x # d.message /\ Nowhere(x, q3, jobs')
                    => Nowhere(x, q3 \cup {d}, jobs')
    BY <1>6, <1>13, <2>3, PutLedger
  <2> QED BY <1>6, <2>1, <2>2, <2>3, <2>4
<1>15. Fresh(QueueOf(file'), jobs', sent, told)
  BY <1>13, <1>14 DEF Fresh, IInv
<1>16. Alone(w)
  BY <1>2, <1>10 DEF Alone
<1>17. Marked'
  BY <1>2, <1>3, <1>8, <1>10, <1>16, FinishedMarked DEF Recorded
<1> QED BY <1>2, <1>8, <1>10, <1>11, <1>12, <1>14, <1>15, <1>16, <1>17, OthersStaged
        DEF IInv

LEMMA AbandonStep ==
    ASSUME IInv, NEW w \in Workers, Abandon(w)
    PROVE  IInv'
<1>1. /\ Faults /\ pc' = [pc EXCEPT ![w] = "idle"]
      /\ jobs' = Dropped(jobs, w)
      /\ flush' = [flush EXCEPT ![w].left = 0]
      /\ result' = [result EXCEPT ![w] = "ok"]
      /\ file' = file /\ now' = now /\ ids' = ids /\ told' = told /\ sent' = sent
  BY DEF Abandon, Dropped, governorVars
<1>2. /\ jobs' \in JobLists /\ jobs'[w] = <<>> /\ Places(jobs', w) = {}
      /\ OthersKeep(jobs, jobs', w)
  BY <1>1, Basics, DroppedJobs
<1>3. /\ flush' \in [Workers -> [target : Targets, left : Nat]]
      /\ \A v \in Workers \ {w} : flush'[v] = flush[v]
  <2>1. flush[w] \in [target : Targets, left : Nat]
    BY DEF IInv, TypeOK
  <2>2. [flush[w] EXCEPT !.left = 0] \in [target : Targets, left : Nat]
    BY <2>1
  <2>3. flush' = [flush EXCEPT ![w] = [flush[w] EXCEPT !.left = 0]]
    BY <1>1
  <2> QED BY <2>2, <2>3 DEF IInv, TypeOK
<1>4. /\ pc' \in [Workers -> Steps] /\ pc'[w] = "idle"
      /\ result' \in [Workers -> Results]
      /\ \A v \in Workers \ {w} : pc'[v] = pc[v] /\ result'[v] = result[v]
  BY <1>1 DEF IInv, TypeOK, Steps, Results
<1>5. TypeOK'
  BY <1>1, <1>2, <1>3, <1>4 DEF IInv, TypeOK, JobLists
<1>6. Alone(w)
  BY <1>2, <1>3, <1>4 DEF Alone
<1>7. Staged(w)'
  BY <1>2, <1>4 DEF Staged
<1>8. Done' = Done \ {w}
  BY <1>4 DEF Done
<1>9. /\ Ledger(QueueOf(file), jobs', sent, Done \ {w})
      /\ \A x : Nowhere(x, QueueOf(file), jobs) => Nowhere(x, QueueOf(file), jobs')
  <2>1. Ledger(QueueOf(file), jobs, sent, Done) /\ jobs \in JobLists
    BY Basics DEF IInv
  <2> QED BY <1>1, <2>1, DropLedger
<1>10. Fresh(QueueOf(file), jobs', sent, told)
  BY <1>9 DEF Fresh, IInv
<1>11. Marked'
  BY <1>1 DEF Marked
<1> QED BY <1>1, <1>5, <1>6, <1>7, <1>8, <1>9, <1>10, <1>11, OthersStaged DEF IInv

\* What is nobody's step keeps every worker where it is.
LEMMA NobodysStep ==
    ASSUME IInv, UNCHANGED <<ids, pc, jobs, flush, result, told, sent>>,
           now' \in Nat, now <= now',
           file' \in GovernorFile \cup {NoFile},
           file' # NoFile => Coherent(file', now),
           QueueOf(file') \in SUBSET QueueOf(file),
           Probing(file)' => Probing(file)
    PROVE  IInv'
<1>1. /\ ids' = ids /\ pc' = pc /\ jobs' = jobs /\ flush' = flush
      /\ result' = result /\ told' = told /\ sent' = sent
  OBVIOUS
<1>2. TypeOK'
  BY <1>1 DEF IInv, TypeOK
<1>3. file' # NoFile => Coherent(file', now')
  <2>1. file' # NoFile => file'.open_until \in Nat \cup {None}
    BY DEF GovernorFile
  <2> QED BY <2>1, Basics, NoneAssumption DEF Coherent
<1>4. /\ IsFiniteSet(QueueOf(file'))
      /\ Ledger(QueueOf(file'), jobs, sent, Done)
      /\ \A x : Nowhere(x, QueueOf(file), jobs) => Nowhere(x, QueueOf(file'), jobs)
  BY ShrinkLedger, FS_Subset DEF IInv
<1>5. Fresh(QueueOf(file'), jobs, sent, told)
  BY <1>4 DEF Fresh, IInv
<1>6. Done' = Done
  BY <1>1 DEF Done
<1>7. \A w \in Workers : Staged(w)'
  BY <1>1 DEF Staged, IInv
<1>8. Marked'
  BY <1>1 DEF Marked, IInv, Recorded
<1> QED BY <1>1, <1>2, <1>3, <1>4, <1>5, <1>6, <1>7, <1>8 DEF IInv

LEMMA StatusStep ==
    ASSUME IInv, Status
    PROVE  IInv'
<1>1. PICK t \in Readings : file' = StatusFile(file, t)
  BY DEF Status
<1>2. t \in Nat /\ t <= now
  BY Basics, ReadingsPast
<1>3. /\ file' \in GovernorFile /\ Coherent(file', now)
      /\ Probing(file)' => Probing(file)
  BY <1>1, <1>2, Basics, StatusCoherent DEF IInv
<1>4. QueueOf(file') \in SUBSET QueueOf(file)
  BY <1>1, <1>2, <1>3, Basics, StatusMoves, NoFileAssumption DEF QueueOf, Unexpired
<1>5. now' = now /\ UNCHANGED <<ids, pc, jobs, flush, result, told, sent>>
  BY DEF Status
<1> QED BY <1>3, <1>4, <1>5, Basics, NobodysStep

LEMMA TickStep ==
    ASSUME IInv, Tick
    PROVE  IInv'
<1>1. now' = now + 1 /\ file' = file
      /\ UNCHANGED <<ids, pc, jobs, flush, result, told, sent>>
  BY DEF Tick
<1>2. now' \in Nat /\ now <= now'
  BY <1>1, Basics
<1>3. file' # NoFile => Coherent(file', now)
  BY <1>1 DEF IInv
<1> QED BY <1>1, <1>2, <1>3, Basics, NobodysStep

LEMMA StutterStep ==
    ASSUME IInv, UNCHANGED vars
    PROVE  IInv'
<1>1. file' = file /\ now' = now
      /\ UNCHANGED <<ids, pc, jobs, flush, result, told, sent>>
  BY DEF vars
<1>2. now' \in Nat /\ now <= now'
  BY <1>1, Basics
<1>3. file' # NoFile => Coherent(file', now)
  BY <1>1 DEF IInv
<1> QED BY <1>1, <1>2, <1>3, Basics, NobodysStep

LEMMA NextInv ==
    ASSUME IInv, [Next]_vars
    PROVE  IInv'
<1>1. ASSUME NEW w \in Workers, Step(w) PROVE IInv'
  <2>1. CASE \E m \in Messages, u \in Targets, p \in Priorities : Send(w, m, u, p)
    BY <2>1, SendStep
  <2>2. CASE \E u \in Targets, limit \in FlushLimits : FlushQueued(w, u, limit)
    BY <2>2, FlushQueuedStep
  <2>3. CASE Reserve(w)
    BY <2>3, ReserveStep
  <2>4. CASE Transport(w)
    BY <2>4, TransportStep
  <2>5. CASE Record(w)
    BY <2>5, RecordStep
  <2>6. CASE QueueAgain(w)
    BY <2>6, QueueAgainStep
  <2>7. CASE Requeue(w)
    BY <2>7, RequeueStep
  <2>8. CASE Abandon(w)
    BY <2>8, AbandonStep
  <2> QED BY <1>1, <2>1, <2>2, <2>3, <2>4, <2>5, <2>6, <2>7, <2>8 DEF Step
<1>2. CASE Status
  BY <1>2, StatusStep
<1>3. CASE Tick
  BY <1>3, TickStep
<1>4. CASE UNCHANGED vars
  BY <1>4, StutterStep
<1> QED BY <1>1, <1>2, <1>3, <1>4 DEF Next

\* The invariant of the senders: every message in one place, every job backed
\* by its delivery, and the probe mark with a job that is still to be recorded.
THEOREM Invariance == Spec => []IInv
BY InitInv, NextInv, PTL DEF Spec

\* The types of the senders' state (sender.py 31-196), for every configuration
\* and any number of workers.
THEOREM TypeCorrect == Spec => []TypeOK
<1>1. IInv => TypeOK
  BY DEF IInv
<1> QED BY <1>1, Invariance, PTL

-----------------------------------------------------------------------------
(* A message is in one place at a time *)

LEMMA SmallSet ==
    ASSUME NEW S, \A x, y \in S : x = y
    PROVE  IF S = {} THEN Cardinality(S) = 0 ELSE Cardinality(S) = 1
<1>1. CASE S = {}
  BY <1>1, FS_EmptySet
<1>2. CASE S # {}
  <2>1. PICK x : S = {x}
    BY <1>2
  <2> QED BY <1>2, <2>1, FS_Singleton
<1> QED BY <1>1, <1>2

LEMMA QueueIs == Queue = QueueOf(file)
BY DEF Queue, GovernorView!Queue, GovernorView!HasFile, QueueOf

\* The copies of m, in the terms of the ledger.
LEMMA CopiesAre ==
    ASSUME IInv, NEW m
    PROVE  /\ Queued(m) = {d \in QueueOf(file) : d.message = m}
           /\ \A x : x \in Undelivered(m) <=>
                 \E w \in Workers : \E i \in Places(jobs, w) :
                    /\ x = <<w, i>>
                    /\ JobAt(jobs, w, i).message = m
                    /\ ~(i = 1 /\ w \in Done)
<1>1. Queued(m) = {d \in QueueOf(file) : d.message = m}
  BY QueueIs DEF Queued
<1>2. \A w \in Workers : DOMAIN jobs[w] = Places(jobs, w)
  <2>1. jobs \in JobLists
    BY Basics
  <2>2. \A w \in Workers : jobs[w] \in Seq(Job)
    BY <2>1 DEF JobLists
  <2> QED BY <2>2 DEF Places
<1>3. \A w \in Workers : \A i : jobs[w][i] = JobAt(jobs, w, i)
  BY DEF JobAt
<1>4. \A w \in Workers : w \in Done <=> pc[w] = "record" /\ result[w] = "ok"
  BY DEF Done
<1>5. \A x : x \in Undelivered(m) <=>
         \E w \in Workers : \E i \in DOMAIN jobs[w] :
            /\ x = <<w, i>>
            /\ jobs[w][i].message = m
            /\ ~(i = 1 /\ pc[w] = "record" /\ result[w] = "ok")
  <2> DEFINE Live(w) == {i \in DOMAIN jobs[w] :
                           /\ jobs[w][i].message = m
                           /\ ~(i = 1 /\ pc[w] = "record" /\ result[w] = "ok")}
  <2>1. Undelivered(m) = UNION {{<<w, i>> : i \in Live(w)} : w \in Workers}
    BY DEF Undelivered
  <2>2. \A w : \A i : i \in Live(w) <=>
           /\ i \in DOMAIN jobs[w]
           /\ jobs[w][i].message = m
           /\ ~(i = 1 /\ pc[w] = "record" /\ result[w] = "ok")
    OBVIOUS
  <2> HIDE DEF Live
  <2>3. \A x : x \in Undelivered(m) <=> \E w \in Workers : \E i \in Live(w) : x = <<w, i>>
    BY <2>1
  <2> QED BY <2>2, <2>3
<1> HIDE DEF Places, JobAt, Done, Undelivered
<1>6. \A x : x \in Undelivered(m) <=>
         \E w \in Workers : \E i \in Places(jobs, w) :
            /\ x = <<w, i>>
            /\ JobAt(jobs, w, i).message = m
            /\ ~(i = 1 /\ w \in Done)
  BY <1>2, <1>3, <1>4, <1>5
<1> QED BY <1>1, <1>6

\* No message is queued, with a worker or delivered twice, or two of these.
LEMMA AtMostOneCopy ==
    ASSUME IInv
    PROVE  DeliveredAtMostOnce
<1> SUFFICES ASSUME NEW m \in Messages
             PROVE  Cardinality(Queued(m)) + Cardinality(Undelivered(m)) + sent[m] <= 1
  BY DEF DeliveredAtMostOnce
<1>1. OnePlace(QueueOf(file), jobs) /\ SentOnce(QueueOf(file), jobs, sent, Done)
  BY DEF IInv, Ledger
<1>2. \A x, y \in Queued(m) : x = y
  BY <1>1, CopiesAre DEF OnePlace
<1>3. \A x, y \in Undelivered(m) : x = y
  BY <1>1, CopiesAre DEF OnePlace
<1>4. ~(Queued(m) # {} /\ Undelivered(m) # {})
  BY <1>1, CopiesAre DEF OnePlace
<1>5. sent[m] \in {0, 1} /\ (sent[m] = 1 => Queued(m) = {} /\ Undelivered(m) = {})
  BY <1>1, CopiesAre DEF SentOnce
<1>6. IF Queued(m) = {} THEN Cardinality(Queued(m)) = 0 ELSE Cardinality(Queued(m)) = 1
  BY <1>2, SmallSet
<1>7. IF Undelivered(m) = {} THEN Cardinality(Undelivered(m)) = 0
      ELSE Cardinality(Undelivered(m)) = 1
  BY <1>3, SmallSet
<1> QED BY <1>4, <1>5, <1>6, <1>7

\* A message is queued once, or in one job of one worker, or delivered once,
\* through any number of rate limits, requeues and flushes by several workers
\* (sender.py 50-193), however many there are and whoever dies.
THEOREM DeliveredCorrect == Spec => []DeliveredAtMostOnce
BY AtMostOneCopy, Invariance, PTL
-----------------------------------------------------------------------------
(* Refusals *)

\* A queue that has no room is full, by any clock reading that is not later.
LEMMA FullQueue ==
    ASSUME NEW q \in SUBSET Delivery, IsFiniteSet(q), NEW t \in Nat, NEW s \in Int,
           s <= t, ~Room(Unexpired(q, t))
    PROVE  /\ Cardinality(Unexpired(q, s)) >= QueueMaxSize
           /\ Cardinality(q) >= QueueMaxSize
<1>1. \A d \in q : d.expires_at \in Nat
  BY DEF Delivery
<1>2. /\ Unexpired(q, s) \in SUBSET q
      /\ Unexpired(q, t) \in SUBSET Unexpired(q, s)
  BY <1>1 DEF Unexpired
<1>3. /\ IsFiniteSet(Unexpired(q, s))
      /\ Cardinality(Unexpired(q, s)) \in Nat /\ Cardinality(q) \in Nat
      /\ Cardinality(Unexpired(q, s)) <= Cardinality(q)
  BY <1>2, Sizes
<1>4. /\ Cardinality(Unexpired(q, t)) \in Nat
      /\ Cardinality(Unexpired(q, t)) <= Cardinality(Unexpired(q, s))
  BY <1>2, <1>3, Sizes
<1> QED BY <1>3, <1>4, QueueAssumption DEF Room

\* The queue before and after, for the copies of a message.
LEMMA QueuedIs ==
    ASSUME NEW m
    PROVE  /\ Queued(m) = {d \in QueueOf(file) : d.message = m}
           /\ Queued(m)' = {d \in QueueOf(file') : d.message = m}
           /\ Queue = QueueOf(file) /\ Queue' = QueueOf(file')
BY DEF Queued, Queue, GovernorView!Queue, GovernorView!HasFile, QueueOf

\* A delivery that is turned away met a full queue.
LEMMA TurnedAway ==
    ASSUME IInv, NEW t \in Readings, NEW d, NEW m, d.message = m,
           Placed(Unexpired(QueueOf(file), t), QueueOf(file'), d)
    PROVE  \/ Queued(m)' # {}
           \/ Cardinality(Unexpired(Queue, now - MaxLag)) >= QueueMaxSize
<1>1. /\ t \in Nat /\ now - MaxLag <= t /\ now - MaxLag \in Int
      /\ QueueOf(file) \in SUBSET Delivery /\ IsFiniteSet(QueueOf(file))
  BY Basics, ReadingsPast, SenderAssumption DEF IInv
<1>2. CASE d \in QueueOf(file')
  BY <1>2, QueuedIs
<1>3. CASE ~Room(Unexpired(QueueOf(file), t))
  BY <1>1, <1>3, FullQueue, QueuedIs
<1> QED BY <1>2, <1>3 DEF Placed

LEMMA RefusedSend ==
    ASSUME IInv, NEW w \in Workers, NEW x \in Messages, NEW u \in Targets,
           NEW p \in Priorities, Send(w, x, u, p),
           NEW m \in Messages, told'[m] = "queued", told[m] # "queued"
    PROVE  \/ Queued(m)' # {}
           \/ Cardinality(Unexpired(Queue, now - MaxLag)) >= QueueMaxSize
<1>1. PICK t \in Readings :
      \E o \in AdmitOutcomes(file, BuildDelivery(ids + 1, x, u, p, t), t) :
         /\ file' = o.state
         /\ IF o.allowed THEN told' = [told EXCEPT ![x] = "pending"]
            ELSE told' = [told EXCEPT ![x] = "queued"]
  BY DEF Send
<1>2. PICK d : d = BuildDelivery(ids + 1, x, u, p, t)
  OBVIOUS
<1>3. PICK o \in AdmitOutcomes(file, d, t) :
         /\ file' = o.state
         /\ IF o.allowed THEN told' = [told EXCEPT ![x] = "pending"]
            ELSE told' = [told EXCEPT ![x] = "queued"]
  BY <1>1, <1>2
<1>4. x = m /\ ~o.allowed
  BY <1>3 DEF IInv, TypeOK
<1>5. t \in Nat /\ d \in Delivery /\ d.message = m
  BY <1>2, <1>4, Basics, ReadingsPast, BuildType DEF BuildDelivery
<1>6. Placed(Unexpired(QueueOf(file), t), QueueOf(file'), d)
  BY <1>3, <1>4, <1>5, Basics, AdmitMoves
<1> QED BY <1>5, <1>6, TurnedAway

LEMMA RefusedAgain ==
    ASSUME IInv, NEW w \in Workers, QueueAgain(w),
           NEW m \in Messages, told'[m] = "queued", told[m] # "queued"
    PROVE  \/ Queued(m)' # {}
           \/ Cardinality(Unexpired(Queue, now - MaxLag)) >= QueueMaxSize
<1>1. PICK job : job = JobAt(jobs, w, 1)
  OBVIOUS
<1>2. pc[w] = "queue"
  BY DEF QueueAgain
<1>3. /\ Head(jobs[w]) = job /\ job \in Job /\ job.message \in Messages
      /\ job.target \in Targets /\ job.priority \in Priorities
  BY <1>1, <1>2, Basics, FirstJob DEF IInv, Staged, Job
<1>4. PICK t \in Readings :
         \E o \in QueueOutcomes(file, BuildDelivery(ids + 1, job.message, job.target,
                                                    job.priority, t), t) :
            file' = o.state
  BY <1>3 DEF QueueAgain
<1>5. PICK d : d = BuildDelivery(ids + 1, job.message, job.target, job.priority, t)
  OBVIOUS
<1>6. PICK o \in QueueOutcomes(file, d, t) : file' = o.state
  BY <1>4, <1>5
<1>7. job.message = m
  <2>1. Answer(job, "queued")
    BY <1>3 DEF QueueAgain
  <2> QED BY <2>1 DEF Answer, IInv, TypeOK
<1>8. t \in Nat /\ d \in Delivery /\ d.message = m
  BY <1>3, <1>5, <1>7, Basics, ReadingsPast, BuildType DEF BuildDelivery
<1>9. file' \in GovernorFile
  BY <1>6, <1>8, Basics, ReadingsPast, QueueCoherent DEF IInv
<1>10. Placed(Unexpired(QueueOf(file), t), QueueOf(file'), d)
  BY <1>6, <1>8, <1>9, Basics, QueueMoves, NoFileAssumption DEF QueueOf
<1> QED BY <1>8, <1>10, TurnedAway

\* Nothing else answers "queued".
LEMMA RefusedStep ==
    ASSUME IInv, [Next]_vars,
           NEW m \in Messages, told'[m] = "queued", told[m] # "queued"
    PROVE  \/ Queued(m)' # {}
           \/ Cardinality(Unexpired(Queue, now - MaxLag)) >= QueueMaxSize
<1>1. ASSUME NEW w \in Workers, Step(w)
      PROVE  \/ \E x \in Messages, u \in Targets, p \in Priorities : Send(w, x, u, p)
             \/ QueueAgain(w)
  <2>2. \A u \in Targets, limit \in FlushLimits : ~FlushQueued(w, u, limit)
    BY DEF FlushQueued
  <2>3. ~Reserve(w) /\ ~Transport(w) /\ ~Requeue(w) /\ ~Abandon(w)
    BY DEF Reserve, Transport, Requeue, Abandon
  <2>4. ~Record(w)
    <3>1. \A reply \in {"sent", "failed"} : ~Answer(Head(jobs[w]), reply)
      BY DEF Answer, IInv, TypeOK
    <3> QED BY <3>1 DEF Record
  <2> QED BY <1>1, <2>2, <2>3, <2>4 DEF Step
<1>2. ~Status /\ ~Tick /\ ~UNCHANGED vars
  BY DEF Status, Tick, vars
<1> QED BY <1>1, <1>2, RefusedSend, RefusedAgain DEF Next

\* send() answers "queued" for a message that the governor turned away as well
\* (sender.py 59, 181); that happens for a full queue only, whoever else uses it.
THEOREM RefusedCorrect == Spec => RefusedOnlyWhenFull
<1>1. IInv /\ [Next]_vars =>
        [ \A m \in Messages :
            told'[m] = "queued" /\ told[m] # "queued" =>
               \/ Queued(m)' # {}
               \/ Cardinality(Unexpired(Queue, now - MaxLag)) >= QueueMaxSize ]_vars
  BY RefusedStep
<1> QED BY <1>1, Invariance, PTL DEF Spec, RefusedOnlyWhenFull
-----------------------------------------------------------------------------
(* What a step does to the queue, the jobs and the successes to be recorded *)

\* Deliveries leave the queue because they have expired.
OnlyExpired(q, q2, n) == q2 \subseteq q /\ \A d \in q \ q2 : d.expires_at <= n

LEMMA UnexpiredOnly ==
    ASSUME NEW q \in SUBSET Delivery, NEW t \in Nat, NEW n \in Nat, t <= n
    PROVE  OnlyExpired(q, Unexpired(q, t), n) /\ OnlyExpired(q, q, n)
<1>1. \A d \in q : d.expires_at \in Nat
  BY DEF Delivery
<1> QED BY <1>1 DEF OnlyExpired, Unexpired

LEMMA SendEffect ==
    ASSUME IInv, NEW w \in Workers, NEW m \in Messages, NEW u \in Targets,
           NEW p \in Priorities, Send(w, m, u, p)
    PROVE  /\ Nowhere(m, QueueOf(file), jobs)
           /\ Done' = Done /\ ids' = ids + 1
           /\ \E t \in Readings : \E d \in Delivery :
                 /\ d.id = ids + 1 /\ d.message = m
                 /\ \/ QueueOf(file') = QueueOf(file)
                    \/ Appended(Unexpired(QueueOf(file), t), QueueOf(file'), d)
           /\ \/ jobs' = jobs
              \/ \E job \in Job : /\ job.message = m /\ job.reserved = {}
                                  /\ jobs' = Extended(jobs, w, job)
<1>1. PICK t \in Readings :
      \E o \in AdmitOutcomes(file, BuildDelivery(ids + 1, m, u, p, t), t) :
         /\ file' = o.state
         /\ IF o.allowed
            THEN /\ jobs' = [jobs EXCEPT ![w] =
                       <<[message |-> m, target |-> u, priority |-> p,
                          probe |-> o.status = "HALF_OPEN", reserved |-> {}]>>]
                 /\ pc' = [pc EXCEPT ![w] = "transport"]
            ELSE UNCHANGED <<jobs, pc>>
  BY DEF Send
<1>2. PICK d : d = BuildDelivery(ids + 1, m, u, p, t)
  OBVIOUS
<1>3. PICK o \in AdmitOutcomes(file, d, t) :
         /\ file' = o.state
         /\ IF o.allowed
            THEN /\ jobs' = [jobs EXCEPT ![w] =
                       <<[message |-> m, target |-> u, priority |-> p,
                          probe |-> o.status = "HALF_OPEN", reserved |-> {}]>>]
                 /\ pc' = [pc EXCEPT ![w] = "transport"]
            ELSE UNCHANGED <<jobs, pc>>
  BY <1>1, <1>2
<1>4. pc[w] = "idle" /\ told[m] = "nothing" /\ ids' = ids + 1 /\ result' = result
  BY DEF Send
<1>5. t \in Nat /\ d \in Delivery /\ d.message = m /\ d.id = ids + 1
  BY <1>2, Basics, ReadingsPast, BuildType DEF BuildDelivery
<1>6. \/ QueueOf(file') = QueueOf(file)
      \/ Appended(Unexpired(QueueOf(file), t), QueueOf(file'), d)
  BY <1>3, <1>5, Basics, AdmitMoves, NoFileAssumption DEF QueueOf
<1>7. Nowhere(m, QueueOf(file), jobs) /\ jobs[w] = <<>>
  BY <1>4 DEF IInv, Fresh, Staged
<1>8. Done' = Done
  <2>1. pc' = pc \/ pc' = [pc EXCEPT ![w] = "transport"]
    BY <1>3
  <2> QED BY <1>4, <2>1 DEF Done, IInv, TypeOK
<1>9. CASE o.allowed
  <2>1. PICK job : job = [message |-> m, target |-> u, priority |-> p,
                          probe |-> o.status = "HALF_OPEN", reserved |-> {}]
    OBVIOUS
  <2>2. job \in Job /\ job.message = m /\ job.reserved = {}
    BY <2>1 DEF Job
  <2>3. jobs' = Extended(jobs, w, job)
    BY <1>3, <1>7, <1>9, <2>1 DEF Extended
  <2> QED BY <1>4, <1>5, <1>6, <1>7, <1>8, <2>2, <2>3
<1>10. CASE ~o.allowed
  BY <1>3, <1>4, <1>5, <1>6, <1>7, <1>8, <1>10
<1> QED BY <1>9, <1>10

LEMMA ReserveEffect ==
    ASSUME IInv, NEW w \in Workers, Reserve(w)
    PROVE  /\ Done' = Done /\ ids' = ids
           /\ \E t \in Readings :
                 \/ /\ jobs' = jobs
                    /\ QueueOf(file') = Unexpired(QueueOf(file), t)
                    /\ \/ ~CanAttempt(Refresh(Load(file, t), t), t)
                       \/ \A d \in Unexpired(QueueOf(file), t) : d.target # flush[w].target
                 \/ \E d \in Unexpired(QueueOf(file), t) :
                       /\ QueueOf(file') = Others(Unexpired(QueueOf(file), t), d)
                       /\ \E c \in Delivery : \E job \in Job :
                             /\ c = [d EXCEPT !.attempts = @ + 1]
                             /\ c.message = d.message
                             /\ job.message = d.message /\ job.reserved = {c}
                             /\ jobs' = Extended(jobs, w, job)
<1> PICK u \in Targets : u = flush[w].target
  BY DEF IInv, TypeOK
<1> DEFINE Outcome(o) ==
         /\ file' = o.state
         /\ jobs' = [jobs EXCEPT ![w] =
               IF o.reserved = {} THEN @
               ELSE LET d == CHOOSE d \in o.reserved : TRUE
                    IN  Append(@, [message |-> d.message, target |-> d.target,
                                   priority |-> d.priority,
                                   probe |-> o.state.status = "HALF_OPEN",
                                   reserved |-> {d}])]
         /\ LET left == IF o.reserved = {} THEN 0 ELSE flush[w].left - 1
            IN  pc' = [pc EXCEPT ![w] = IF left > 0 THEN "reserve"
                                        ELSE IF jobs'[w] = <<>> THEN "idle"
                                        ELSE "transport"]
<1>0. PICK t \in Readings : \E o \in ReserveOutcomes(file, u, t) : Outcome(o)
  BY DEF Reserve
<1>1. PICK o \in ReserveOutcomes(file, u, t) : Outcome(o)
  BY <1>0
<1>2. pc[w] = "reserve" /\ ids' = ids /\ result' = result
  BY DEF Reserve
<1>3. t \in Nat /\ t <= now
  BY Basics, ReadingsPast
<1>4. file' \in GovernorFile /\ o.reserved \subseteq Delivery
  BY <1>1, <1>3, Basics, ReserveCoherent DEF IInv
<1>5. LET live == Unexpired(QueueOf(file), t)
      IN  /\ o.reserved = {} =>
                /\ o.state.queue = live
                /\ \/ ~CanAttempt(Refresh(Load(file, t), t), t)
                   \/ \A d \in live : d.target # u
          /\ o.reserved # {} =>
                \E d \in live : /\ o.reserved = {[d EXCEPT !.attempts = @ + 1]}
                                /\ o.state.queue = Others(live, d)
  BY <1>3, Basics, ReserveMoves
<1>6. QueueOf(file') = o.state.queue
  BY <1>1, <1>4, NoFileAssumption DEF QueueOf
<1>7. Done' = Done
  <2>1. /\ \A v \in Workers \ {w} : pc'[v] = pc[v]
        /\ pc'[w] \in {"reserve", "idle", "transport"}
    BY <1>1 DEF IInv, TypeOK
  <2> QED BY <1>2, <2>1 DEF Done
<1>8. CASE o.reserved = {}
  <2>1. jobs' = jobs
    BY <1>1, <1>8, Basics DEF JobLists
  <2> QED BY <1>2, <1>5, <1>6, <1>7, <1>8, <2>1
<1>9. CASE o.reserved # {}
  <2>1. PICK d \in Unexpired(QueueOf(file), t) :
           /\ o.reserved = {[d EXCEPT !.attempts = @ + 1]}
           /\ o.state.queue = Others(Unexpired(QueueOf(file), t), d)
    BY <1>5, <1>9
  <2>2. PICK c \in Delivery : /\ o.reserved = {c} /\ c.message = d.message
                              /\ c = [d EXCEPT !.attempts = @ + 1]
    <3>1. d \in Delivery
      BY Basics DEF Unexpired
    <3> QED BY <1>4, <2>1, <3>1 DEF Delivery
  <2>3. (CHOOSE x \in o.reserved : TRUE) = c
    BY <2>2
  <2>4. PICK job : job = [message |-> c.message, target |-> c.target,
                          priority |-> c.priority,
                          probe |-> o.state.status = "HALF_OPEN", reserved |-> {c}]
    OBVIOUS
  <2>5. job \in Job /\ job.message = d.message /\ job.reserved = {c}
    BY <2>2, <2>4 DEF Job, Delivery
  <2>6. jobs' = Extended(jobs, w, job)
    BY <1>1, <1>9, <2>3, <2>4 DEF Extended
  <2>7. QueueOf(file') = Others(Unexpired(QueueOf(file), t), d)
    BY <1>6, <2>1
  <2> QED BY <1>2, <1>7, <2>2, <2>5, <2>6, <2>7
<1> QED BY <1>8, <1>9

LEMMA TransportEffect ==
    ASSUME IInv, NEW w \in Workers, Transport(w)
    PROVE  /\ file' = file /\ ids' = ids /\ jobs' = jobs
           /\ \/ Done' = Done
              \/ /\ Done' = Done \cup {w} /\ jobs[w] # <<>>
                 /\ \/ Mode[w] = "dry_run"
                    \/ sent'[JobAt(jobs, w, 1).message] > sent[JobAt(jobs, w, 1).message]
<1>1. PICK r \in Attempts(w) :
         /\ result' = [result EXCEPT ![w] = r]
         /\ sent' = IF r = "ok" /\ Mode[w] = "transport"
                    THEN [sent EXCEPT ![Head(jobs[w]).message] = @ + 1]
                    ELSE sent
  BY DEF Transport
<1>2. /\ pc[w] = "transport" /\ pc' = [pc EXCEPT ![w] = "record"]
      /\ file' = file /\ ids' = ids /\ jobs' = jobs
  BY DEF Transport, governorVars
<1>3. PICK job : job = JobAt(jobs, w, 1)
  OBVIOUS
<1>4. /\ jobs[w] # <<>> /\ Head(jobs[w]) = job /\ job.message \in Messages
  BY <1>2, <1>3, Basics, FirstJob DEF IInv, Staged
<1>5. Done' = IF r = "ok" THEN Done \cup {w} ELSE Done
  BY <1>1, <1>2 DEF Done, IInv, TypeOK
<1>6. r = "ok" => Mode[w] = "dry_run" \/ Mode[w] = "transport"
  BY SenderAssumption DEF Attempts
<1>7. r = "ok" /\ Mode[w] = "transport" => sent'[job.message] > sent[job.message]
  BY <1>1, <1>4 DEF IInv, TypeOK
<1> QED BY <1>2, <1>3, <1>4, <1>5, <1>6, <1>7

\* What FinishJob does, for the successes to be recorded.
LEMMA FinishJobEffect ==
    ASSUME IInv, NEW w \in Workers, jobs[w] # <<>>, FinishJob(w),
           \A v \in Workers \ {w} : result'[v] = result[v]
    PROVE  jobs' = Finished(jobs, w) /\ Done' = Done \ {w}
<1>1. /\ jobs' = Finished(jobs, w)
      /\ \A v \in Workers \ {w} : pc'[v] = pc[v]
      /\ pc'[w] \in {"transport", "idle"}
  BY DEF FinishJob, Finished, IInv, TypeOK
<1> QED BY <1>1 DEF Done

LEMMA RecordEffect ==
    ASSUME IInv, NEW w \in Workers, Record(w)
    PROVE  /\ ids' = ids
           /\ \E t \in Readings : QueueOf(file') = Unexpired(QueueOf(file), t)
           /\ \/ jobs' = jobs /\ Done' = Done
              \/ /\ jobs[w] # <<>>
                 /\ jobs' = Finished(jobs, w) /\ Done' = Done \ {w}
                 /\ w \in Done \/ told'[JobAt(jobs, w, 1).message] = "failed"
<1>1. PICK t \in Readings : file' \in RecordOutcomes(file, result[w], t)
  BY DEF Record
<1>2. /\ pc[w] = "record" /\ result' = [result EXCEPT ![w] = "ok"] /\ ids' = ids
  BY DEF Record
<1>3. PICK job : job = JobAt(jobs, w, 1)
  OBVIOUS
<1>4. /\ jobs[w] # <<>> /\ Head(jobs[w]) = job /\ job.message \in Messages
  BY <1>2, <1>3, Basics, FirstJob DEF IInv, Staged
<1>5. result[w] \in Results /\ t \in Nat /\ t <= now
  BY Basics, ReadingsPast DEF IInv, TypeOK
<1>6. file' \in GovernorFile
  BY <1>1, <1>5, Basics, RecordCoherent DEF IInv
<1>7. QueueOf(file') = Unexpired(QueueOf(file), t)
  BY <1>1, <1>5, <1>6, Basics, RecordMoves, NoFileAssumption DEF QueueOf
<1>8. \A v \in Workers \ {w} : result'[v] = result[v]
  BY <1>2 DEF IInv, TypeOK
<1>9. CASE /\ FinishJob(w)
           /\ \/ result[w] = "ok"
              \/ ~IsFlush(job) /\ Answer(job, "failed")
  <2>1. jobs' = Finished(jobs, w) /\ Done' = Done \ {w}
    BY <1>4, <1>8, <1>9, FinishJobEffect
  <2>2. w \in Done \/ told'[job.message] = "failed"
    BY <1>2, <1>4, <1>9 DEF Done, Answer, IInv, TypeOK
  <2> QED BY <1>2, <1>3, <1>4, <1>7, <2>1, <2>2
<1>10. CASE /\ result[w] # "ok" /\ jobs' = jobs
            /\ pc' = [pc EXCEPT ![w] = "queue"] \/ pc' = [pc EXCEPT ![w] = "requeue"]
  <2>1. Done' = Done
    BY <1>2, <1>8, <1>10 DEF Done, IInv, TypeOK
  <2> QED BY <1>2, <1>7, <1>10, <2>1
<1> QED BY <1>4, <1>9, <1>10 DEF Record

LEMMA QueueAgainEffect ==
    ASSUME IInv, NEW w \in Workers, QueueAgain(w)
    PROVE  /\ ids' = ids + 1 /\ jobs[w] # <<>> /\ w \notin Done
           /\ jobs' = Finished(jobs, w) /\ Done' = Done
           /\ \E t \in Readings : \E d \in Delivery :
                 /\ d.id = ids + 1 /\ d.message = JobAt(jobs, w, 1).message
                 /\ Appended(Unexpired(QueueOf(file), t), QueueOf(file'), d)
                 /\ Placed(Unexpired(QueueOf(file), t), QueueOf(file'), d)
<1>1. PICK job : job = JobAt(jobs, w, 1)
  OBVIOUS
<1>2. pc[w] = "queue" /\ ids' = ids + 1 /\ result' = result /\ FinishJob(w)
  BY DEF QueueAgain
<1>3. /\ jobs[w] # <<>> /\ Head(jobs[w]) = job
      /\ job.message \in Messages /\ job.target \in Targets /\ job.priority \in Priorities
  BY <1>1, <1>2, Basics, FirstJob DEF IInv, Staged, Job
<1>4. PICK t \in Readings :
         \E o \in QueueOutcomes(file, BuildDelivery(ids + 1, job.message, job.target,
                                                    job.priority, t), t) :
            file' = o.state
  BY <1>3 DEF QueueAgain
<1>5. PICK d : d = BuildDelivery(ids + 1, job.message, job.target, job.priority, t)
  OBVIOUS
<1>6. PICK o \in QueueOutcomes(file, d, t) : file' = o.state
  BY <1>4, <1>5
<1>7. /\ t \in Nat /\ t <= now /\ d \in Delivery
      /\ d.message = job.message /\ d.id = ids + 1
  BY <1>3, <1>5, Basics, ReadingsPast, BuildType DEF BuildDelivery
<1>8. file' \in GovernorFile
  BY <1>6, <1>7, Basics, QueueCoherent DEF IInv
<1>9. /\ Appended(Unexpired(QueueOf(file), t), QueueOf(file'), d)
      /\ Placed(Unexpired(QueueOf(file), t), QueueOf(file'), d)
  BY <1>6, <1>7, <1>8, Basics, QueueMoves, NoFileAssumption DEF QueueOf
<1>10. jobs' = Finished(jobs, w) /\ Done' = Done \ {w} /\ w \notin Done
  BY <1>2, <1>3, FinishJobEffect DEF Done
<1> QED BY <1>1, <1>2, <1>3, <1>7, <1>9, <1>10

LEMMA RequeueEffect ==
    ASSUME IInv, NEW w \in Workers, Requeue(w)
    PROVE  /\ ids' = ids /\ jobs[w] # <<>> /\ w \notin Done
           /\ jobs' = Finished(jobs, w) /\ Done' = Done
           /\ \E t \in Readings : \E d \in JobAt(jobs, w, 1).reserved :
                 /\ d \in Delivery /\ d.message = JobAt(jobs, w, 1).message
                 /\ \/ QueueOf(file') = QueueOf(file) /\ d.expires_at <= t
                    \/ QueueOf(file') = Others(Unexpired(QueueOf(file), t), d) \cup {d}
<1>1. PICK job : job = JobAt(jobs, w, 1)
  OBVIOUS
<1>2. pc[w] = "requeue" /\ ids' = ids /\ result' = result /\ FinishJob(w)
  BY DEF Requeue
<1>3. /\ jobs[w] # <<>> /\ Head(jobs[w]) = job /\ 1 \in Places(jobs, w) /\ job \in Job
  BY <1>1, <1>2, Basics, FirstJob DEF IInv, Staged
<1>4. PICK t \in Readings : \E d \in job.reserved : file' = RequeueFile(file, d, t)
  BY <1>3 DEF Requeue
<1>5. PICK d \in job.reserved : file' = RequeueFile(file, d, t)
  BY <1>4
<1>6. d \in Delivery /\ d.message = job.message
  <2>1. Backed(job)
    BY <1>1, <1>2, <1>3 DEF IInv, Staged
  <2>2. job.reserved \subseteq Delivery
    BY <1>3 DEF Job
  <2> QED BY <2>1, <2>2 DEF Backed
<1>7. \/ QueueOf(file') = QueueOf(file) /\ d.expires_at <= t
      \/ QueueOf(file') = Others(Unexpired(QueueOf(file), t), d) \cup {d}
  BY <1>5, <1>6, Basics, ReadingsPast, RequeueMoves, NoFileAssumption DEF QueueOf
<1>8. jobs' = Finished(jobs, w) /\ Done' = Done \ {w} /\ w \notin Done
  BY <1>2, <1>3, FinishJobEffect DEF Done
<1> QED BY <1>1, <1>2, <1>3, <1>6, <1>7, <1>8

LEMMA AbandonEffect ==
    ASSUME IInv, NEW w \in Workers, Abandon(w)
    PROVE  /\ file' = file /\ ids' = ids
           /\ jobs' = Dropped(jobs, w) /\ Done' = Done \ {w}
<1>1. /\ pc' = [pc EXCEPT ![w] = "idle"]
      /\ jobs' = Dropped(jobs, w)
      /\ result' = [result EXCEPT ![w] = "ok"]
      /\ file' = file /\ ids' = ids
  BY DEF Abandon, Dropped, governorVars
<1> QED BY <1>1 DEF Done, IInv, TypeOK

\* The other steps leave the jobs alone.
LEMMA QuietEffect ==
    ASSUME IInv,
           \/ \E w \in Workers, u \in Targets, limit \in FlushLimits :
                 FlushQueued(w, u, limit)
           \/ Status
           \/ Tick
           \/ UNCHANGED vars
    PROVE  /\ OnlyExpired(QueueOf(file), QueueOf(file'), now)
           /\ jobs' = jobs /\ Done' = Done /\ ids' = ids
<1>1. file' = file => OnlyExpired(QueueOf(file), QueueOf(file'), now)
  BY DEF OnlyExpired
<1>2. CASE \E w \in Workers, u \in Targets, limit \in FlushLimits :
              FlushQueued(w, u, limit)
  <2>1. PICK w \in Workers : \E u \in Targets, limit \in FlushLimits :
                                FlushQueued(w, u, limit)
    BY <1>2
  <2>2. /\ pc[w] = "idle" /\ pc' = [pc EXCEPT ![w] = "reserve"]
        /\ file' = file /\ ids' = ids /\ jobs' = jobs /\ result' = result
    BY <2>1 DEF FlushQueued, governorVars
  <2>3. Done' = Done
    BY <2>2 DEF Done, IInv, TypeOK
  <2> QED BY <1>1, <2>2, <2>3
<1>3. CASE Status
  <2>1. PICK t \in Readings : file' = StatusFile(file, t)
    BY <1>3 DEF Status
  <2>2. t \in Nat /\ t <= now /\ now \in Nat
    BY Basics, ReadingsPast
  <2>3. file' \in GovernorFile
    BY <2>1, <2>2, Basics, StatusCoherent DEF IInv
  <2>4. QueueOf(file') = Unexpired(QueueOf(file), t)
    BY <2>1, <2>2, <2>3, Basics, StatusMoves, NoFileAssumption DEF QueueOf
  <2>5. UNCHANGED <<ids, pc, jobs, result>>
    BY <1>3 DEF Status
  <2> QED BY <2>2, <2>4, <2>5, Basics, UnexpiredOnly DEF Done
<1>4. CASE Tick \/ UNCHANGED vars
  <2>1. file' = file /\ ids' = ids /\ jobs' = jobs /\ pc' = pc /\ result' = result
    BY <1>4 DEF Tick, vars
  <2> QED BY <1>1, <2>1 DEF Done
<1> QED BY <1>2, <1>3, <1>4
-----------------------------------------------------------------------------
(* The deliveries of the queue and of the flushes have ids of their own.  A    *)
(* reservation takes every delivery with its id out of the queue, and a        *)
(* requeue overwrites one: without this either could lose a message.           *)

HeldIn(js) == UNION {UNION {JobAt(js, w, i).reserved : i \in Places(js, w)} : w \in Workers}

Distinct == Owned(QueueOf(file), Held, ids)

LEMMA HeldIs ==
    /\ jobs \in JobLists => Held = HeldIn(jobs)
    /\ jobs' \in JobLists => Held' = HeldIn(jobs')
<1>1. ASSUME jobs \in JobLists PROVE Held = HeldIn(jobs)
  <2>1. \A w \in Workers : DOMAIN jobs[w] = Places(jobs, w)
    BY <1>1 DEF Places, JobLists
  <2> QED BY <2>1 DEF Held, HeldIn, JobAt
<1>2. ASSUME jobs' \in JobLists PROVE Held' = HeldIn(jobs')
  <2>1. \A w \in Workers : DOMAIN jobs'[w] = Places(jobs', w)
    BY <1>2 DEF Places, JobLists
  <2> QED BY <2>1 DEF Held, HeldIn, JobAt
<1> QED BY <1>1, <1>2

LEMMA HeldMembers ==
    ASSUME NEW js
    PROVE  \A x : x \in HeldIn(js) <=>
              \E w \in Workers : \E i \in Places(js, w) : x \in JobAt(js, w, i).reserved
BY DEF HeldIn

LEMMA HeldExtended ==
    ASSUME NEW js \in JobLists, NEW w \in Workers, NEW job \in Job
    PROVE  HeldIn(Extended(js, w, job)) = HeldIn(js) \cup job.reserved
<1> PICK js2 : js2 = Extended(js, w, job)
  OBVIOUS
<1>1. /\ OthersKeep(js, js2, w)
      /\ \A i \in Places(js, w) :
            i \in Places(js2, w) /\ JobAt(js2, w, i) = JobAt(js, w, i)
  BY ExtendedJobs
<1>2. PICK n \in Places(js2, w) :
         /\ JobAt(js2, w, n) = job
         /\ \A i \in Places(js2, w) : i # n => i \in Places(js, w)
  BY ExtendedJobs
<1>3. ASSUME NEW x \in HeldIn(js2) PROVE x \in HeldIn(js) \cup job.reserved
  BY <1>1, <1>2, HeldMembers DEF OthersKeep
<1>4. ASSUME NEW x \in HeldIn(js) PROVE x \in HeldIn(js2)
  BY <1>1, HeldMembers DEF OthersKeep
<1>5. job.reserved \subseteq HeldIn(js2)
  BY <1>2, HeldMembers
<1> QED BY <1>3, <1>4, <1>5

\* The delivery of the job that is over is held no more.
LEMMA HeldFinished ==
    ASSUME IInv, NEW w \in Workers, jobs[w] # <<>>, jobs' = Finished(jobs, w)
    PROVE  Held' \in SUBSET (Held \ JobAt(jobs, w, 1).reserved)
<1>1. jobs \in JobLists
  BY Basics
<1>2. /\ OthersKeep(jobs, jobs', w) /\ jobs' \in JobLists
      /\ \A i \in Places(jobs', w) :
            /\ i \in Nat /\ i >= 1
            /\ i + 1 \in Places(jobs, w)
            /\ JobAt(jobs', w, i) = JobAt(jobs, w, i + 1)
  BY <1>1, FinishedJobs
<1>3. 1 \in Places(jobs, w)
  BY <1>1, FirstJob
<1>4. ASSUME NEW x \in HeldIn(jobs') 
      PROVE  x \in HeldIn(jobs) /\ x \notin JobAt(jobs, w, 1).reserved
  <2>1. PICK v \in Workers, i \in Nat :
           /\ i \in Places(jobs, v) /\ x \in JobAt(jobs, v, i).reserved
           /\ v # w \/ i # 1
    <3>1. PICK v \in Workers : \E j \in Places(jobs', v) : x \in JobAt(jobs', v, j).reserved
      BY HeldMembers
    <3>2. PICK j \in Places(jobs', v) : x \in JobAt(jobs', v, j).reserved
      BY <3>1
    <3>3. CASE v = w
      BY <1>2, <3>2, <3>3
    <3>4. CASE v # w
      <4>1. j \in Places(jobs, v) /\ x \in JobAt(jobs, v, j).reserved
        BY <1>2, <3>2, <3>4 DEF OthersKeep
      <4>2. j \in Nat
        BY <4>1, <1>1 DEF Places
      <4> QED BY <3>4, <4>1, <4>2
    <3> QED BY <3>3, <3>4
  <2>2. Backed(JobAt(jobs, v, i)) /\ Backed(JobAt(jobs, w, 1))
    BY <1>3, <2>1 DEF IInv, Staged
  <2>3. OnePlace(QueueOf(file), jobs)
    BY DEF IInv, Ledger
  <2>4. x \notin JobAt(jobs, w, 1).reserved
    BY <1>3, <2>1, <2>2, <2>3 DEF Backed, OnePlace
  <2> QED BY <2>1, <2>4, HeldMembers
<1> QED BY <1>1, <1>2, <1>4, HeldIs

LEMMA HeldDropped ==
    ASSUME IInv, NEW w \in Workers, jobs' = Dropped(jobs, w)
    PROVE  Held' \in SUBSET Held
<1>1. jobs \in JobLists
  BY Basics
<1>2. /\ jobs' \in JobLists /\ Places(jobs', w) = {}
      /\ OthersKeep(jobs, jobs', w)
  BY <1>1, DroppedJobs
<1>3. HeldIn(jobs') \subseteq HeldIn(jobs)
  BY <1>2, HeldMembers DEF OthersKeep
<1> QED BY <1>1, <1>2, <1>3, HeldIs

LEMMA OwnedMonotonic ==
    ASSUME NEW q, NEW h, NEW i \in Nat, Owned(q, h, i)
    PROVE  Owned(q, h, i + 1)
BY DEF Owned, Delivery

LEMMA InitDistinct == Init => Distinct
<1> SUFFICES ASSUME Init PROVE Distinct
  OBVIOUS
<1>1. jobs \in JobLists /\ \A w \in Workers : jobs[w] = <<>>
  BY EmptySeq DEF Init, JobLists
<1>2. \A w \in Workers : Places(jobs, w) = {}
  BY <1>1, NoJobs
<1>3. Held = {}
  BY <1>1, <1>2, HeldIs, HeldMembers
<1>4. QueueOf(file) = {}
  BY DEF Init, QueueOf
<1> QED BY <1>3, <1>4, FS_EmptySet DEF Distinct, Owned

LEMMA NextDistinct ==
    ASSUME IInv, Distinct, [Next]_vars
    PROVE  Distinct'
<1> DEFINE q  == QueueOf(file)
           q2 == QueueOf(file')
           h  == Held
           h2 == Held'
<1>1. /\ Owned(q, h, ids) /\ ids \in Nat /\ now \in Nat
      /\ jobs \in JobLists /\ q \in SUBSET Delivery
  BY Basics DEF Distinct
<1>2. Distinct' <=> Owned(q2, h2, ids')
  BY DEF Distinct
<1>3. jobs' = jobs => h2 = h
  BY DEF Held
<1>4. ASSUME OnlyExpired(q, q2, now), h2 \in SUBSET h, ids' = ids PROVE Distinct'
  BY <1>1, <1>2, <1>4, ShrinkMoves DEF OnlyExpired
<1>5. \A t \in Readings : OnlyExpired(q, Unexpired(q, t), now) /\ OnlyExpired(q, q, now)
  BY <1>1, ReadingsPast, UnexpiredOnly
<1>6. \A t \in Readings : t \in Nat /\ t <= now
  BY <1>1, ReadingsPast
<1> HIDE DEF q, q2, h, h2
<1>7. ASSUME NEW w \in Workers, NEW m \in Messages, NEW u \in Targets,
             NEW p \in Priorities, Send(w, m, u, p)
      PROVE  Distinct'
  <2>1. /\ ids' = ids + 1
        /\ \E t \in Readings : \E d \in Delivery :
              d.id = ids + 1 /\ (q2 = q \/ Appended(Unexpired(q, t), q2, d))
    BY <1>7, SendEffect DEF q, q2
  <2>2. h2 = h
    <3>1. CASE jobs' = jobs
      BY <1>3, <3>1
    <3>2. CASE \E job \in Job : job.reserved = {} /\ jobs' = Extended(jobs, w, job)
      <4>1. PICK job \in Job : job.reserved = {} /\ jobs' = Extended(jobs, w, job)
        BY <3>2
      <4>2. HeldIn(jobs') = HeldIn(jobs) \cup {} /\ jobs' \in JobLists
        BY <1>1, <4>1, HeldExtended, ExtendedJobs
      <4> QED BY <1>1, <4>2, HeldIs DEF h, h2
    <3> QED BY <1>7, <3>1, <3>2, SendEffect
  <2>3. CASE q2 = q
    BY <1>1, <1>2, <2>1, <2>2, <2>3, OwnedMonotonic
  <2>4. CASE \E t \in Readings : \E d \in Delivery :
                d.id = ids + 1 /\ Appended(Unexpired(q, t), q2, d)
    BY <1>1, <1>2, <1>6, <2>1, <2>2, <2>4, AppendMoves
  <2> QED BY <2>1, <2>3, <2>4
<1>8. ASSUME NEW w \in Workers, Reserve(w) PROVE Distinct'
  <2>1. PICK t \in Readings :
           \/ jobs' = jobs /\ q2 = Unexpired(q, t)
           \/ \E d \in Unexpired(q, t) :
                 /\ q2 = Others(Unexpired(q, t), d)
                 /\ \E c \in Delivery : \E job \in Job :
                       /\ c = [d EXCEPT !.attempts = @ + 1]
                       /\ job.reserved = {c} /\ jobs' = Extended(jobs, w, job)
    BY <1>8, ReserveEffect DEF q, q2
  <2>2. ids' = ids
    BY <1>8, ReserveEffect
  <2>3. CASE jobs' = jobs /\ q2 = Unexpired(q, t)
    BY <1>3, <1>4, <1>5, <2>2, <2>3
  <2>4. CASE \E d \in Unexpired(q, t) :
                /\ q2 = Others(Unexpired(q, t), d)
                /\ \E c \in Delivery : \E job \in Job :
                      /\ c = [d EXCEPT !.attempts = @ + 1]
                      /\ job.reserved = {c} /\ jobs' = Extended(jobs, w, job)
    <3>1. PICK d \in Unexpired(q, t) :
             /\ q2 = Others(Unexpired(q, t), d)
             /\ \E c \in Delivery : \E job \in Job :
                   /\ c = [d EXCEPT !.attempts = @ + 1]
                   /\ job.reserved = {c} /\ jobs' = Extended(jobs, w, job)
      BY <2>4
    <3>2. PICK c \in Delivery, job \in Job :
             /\ c = [d EXCEPT !.attempts = @ + 1]
             /\ job.reserved = {c} /\ jobs' = Extended(jobs, w, job)
      BY <3>1
    <3>3. HeldIn(jobs') = HeldIn(jobs) \cup {c} /\ jobs' \in JobLists
      BY <1>1, <3>2, HeldExtended, ExtendedJobs
    <3>4. h2 = h \cup {c}
      BY <1>1, <3>3, HeldIs DEF h, h2
    <3>5. Owned(Others(Unexpired(q, t), d), h \cup {c}, ids)
      BY <1>1, <1>6, <3>2, HandOutMoves
    <3> QED BY <1>2, <2>2, <3>1, <3>4, <3>5
  <2> QED BY <2>1, <2>3, <2>4
<1>9. ASSUME NEW w \in Workers, Transport(w) PROVE Distinct'
  <2>1. q2 = q /\ jobs' = jobs /\ ids' = ids
    BY <1>9, TransportEffect DEF q, q2
  <2>2. OnlyExpired(q, q2, now)
    BY <2>1 DEF OnlyExpired
  <2> QED BY <1>3, <1>4, <2>1, <2>2
<1>10. ASSUME NEW w \in Workers, Record(w) PROVE Distinct'
  <2>1. /\ ids' = ids
        /\ \E t \in Readings : q2 = Unexpired(q, t)
        /\ \/ jobs' = jobs
           \/ jobs[w] # <<>> /\ jobs' = Finished(jobs, w)
    BY <1>10, RecordEffect DEF q, q2
  <2>2. h2 \in SUBSET h
    BY <1>3, <2>1, HeldFinished DEF h, h2
  <2> QED BY <1>4, <1>5, <2>1, <2>2
<1>11. ASSUME NEW w \in Workers, QueueAgain(w) PROVE Distinct'
  <2>1. /\ ids' = ids + 1 /\ jobs[w] # <<>> /\ jobs' = Finished(jobs, w)
        /\ \E t \in Readings : \E d \in Delivery :
              d.id = ids + 1 /\ Appended(Unexpired(q, t), q2, d)
    BY <1>11, QueueAgainEffect DEF q, q2
  <2>2. h2 \in SUBSET h
    BY <2>1, HeldFinished DEF h, h2
  <2> QED BY <1>1, <1>2, <1>6, <2>1, <2>2, AppendMoves
<1>12. ASSUME NEW w \in Workers, Requeue(w) PROVE Distinct'
  <2>1. /\ ids' = ids /\ jobs[w] # <<>> /\ jobs' = Finished(jobs, w)
        /\ \E t \in Readings : \E d \in JobAt(jobs, w, 1).reserved :
              \/ q2 = q
              \/ q2 = Others(Unexpired(q, t), d) \cup {d}
    BY <1>12, RequeueEffect DEF q, q2
  <2>2. h2 \in SUBSET (h \ JobAt(jobs, w, 1).reserved)
    BY <2>1, HeldFinished DEF h, h2
  <2>3. PICK t \in Readings : \E d \in JobAt(jobs, w, 1).reserved :
              \/ q2 = q
              \/ q2 = Others(Unexpired(q, t), d) \cup {d}
    BY <2>1
  <2>4. PICK d \in JobAt(jobs, w, 1).reserved :
              \/ q2 = q
              \/ q2 = Others(Unexpired(q, t), d) \cup {d}
    BY <2>3
  <2>5. CASE q2 = q
    BY <1>4, <1>5, <2>1, <2>2, <2>5
  <2>6. CASE q2 = Others(Unexpired(q, t), d) \cup {d}
    <3>1. d \in h
      <4>1. 1 \in Places(jobs, w)
        BY <1>1, <2>1, FirstJob
      <4> QED BY <1>1, <4>1, HeldIs, HeldMembers DEF h
    <3>2. Owned(q2, h \ {d}, ids)
      BY <1>1, <1>6, <2>6, <3>1, PutBackMoves
    <3>3. h2 \in SUBSET (h \ {d})
      BY <2>2
    <3>4. Owned(q2, h2, ids)
      BY <1>1, <3>2, <3>3, ShrinkMoves
    <3> QED BY <1>2, <2>1, <3>4
  <2> QED BY <2>4, <2>5, <2>6
<1>13. ASSUME NEW w \in Workers, Abandon(w) PROVE Distinct'
  <2>1. q2 = q /\ ids' = ids /\ jobs' = Dropped(jobs, w)
    BY <1>13, AbandonEffect DEF q, q2
  <2>2. h2 \in SUBSET h
    BY <2>1, HeldDropped DEF h, h2
  <2>3. OnlyExpired(q, q2, now)
    BY <2>1 DEF OnlyExpired
  <2> QED BY <1>4, <2>1, <2>2, <2>3
<1>14. ASSUME \/ \E w \in Workers, u \in Targets, limit \in FlushLimits :
                    FlushQueued(w, u, limit)
              \/ Status \/ Tick \/ UNCHANGED vars
       PROVE  Distinct'
  <2>1. OnlyExpired(q, q2, now) /\ jobs' = jobs /\ ids' = ids
    BY <1>14, QuietEffect DEF q, q2
  <2> QED BY <1>3, <1>4, <2>1
<1> QED BY <1>7, <1>8, <1>9, <1>10, <1>11, <1>12, <1>13, <1>14 DEF Next, Step

\* The ids of what is queued and of what is with a flush are all different
\* (governor.py 286, 326, 403).
THEOREM DistinctIds == Spec => []Distinct
BY InitDistinct, NextDistinct, Invariance, PTL DEF Spec
-----------------------------------------------------------------------------
(* For which reasons a message is lost *)

\* A copy of m may still be sent, in the terms of the ledger.
Lives(m, q, js, done) ==
    \/ \E d \in q : d.message = m
    \/ \E w \in Workers : \E i \in Places(js, w) :
          JobAt(js, w, i).message = m /\ ~(i = 1 /\ w \in done)

LEMMA AliveIs == IInv => \A m : Alive(m) <=> Lives(m, QueueOf(file), jobs, Done)
<1> SUFFICES ASSUME IInv, NEW m
             PROVE  Alive(m) <=> Lives(m, QueueOf(file), jobs, Done)
  OBVIOUS
<1> QED BY CopiesAre DEF Alive, Lives

\* A delivery that a newcomer, and nothing else, takes the place of.
LEMMA Displaced ==
    ASSUME NEW q \in SUBSET Delivery, IsFiniteSet(q), NEW t \in Nat, NEW n \in Nat, t <= n,
           NEW d, d \notin q, NEW q2, Appended(Unexpired(q, t), q2, d),
           NEW e \in q, e \notin q2
    PROVE  \/ e.expires_at <= n
           \/ Cardinality(q) >= QueueMaxSize /\ ~(q2 \subseteq q)
<1>1. \A x \in q \ Unexpired(q, t) : x.expires_at <= n
  BY UnexpiredOnly DEF OnlyExpired
<1>2. CASE e \in Unexpired(q, t)
  <2>1. ~Room(Unexpired(q, t)) /\ d \in q2
    BY <1>2 DEF Appended
  <2>2. Cardinality(q) >= QueueMaxSize
    BY <2>1, FullQueue
  <2> QED BY <2>1, <2>2
<1> QED BY <1>1, <1>2

\* What excuses the end of a message, in the terms of the ledger.
LEMMA Excuses ==
    ASSUME NEW m \in Messages
    PROVE  /\ sent'[m] > sent[m] => Forgotten(m)
           /\ told'[m] = "failed" => Forgotten(m)
           /\ \A d \in QueueOf(file) : d.message = m /\ d.expires_at <= now => Forgotten(m)
           /\ \A d \in Held : d.message = m /\ d.expires_at <= now => Forgotten(m)
           /\ /\ Cardinality(QueueOf(file)) >= QueueMaxSize
              /\ \/ \A d \in QueueOf(file) : d.message # m
                 \/ ~(QueueOf(file') \subseteq QueueOf(file))
              => Forgotten(m)
BY QueuedIs DEF Forgotten

LEMMA DiedWith ==
    ASSUME IInv, NEW m \in Messages, NEW w \in Workers, Abandon(w),
           NEW i \in Places(jobs, w), JobAt(jobs, w, i).message = m
    PROVE  Forgotten(m)
<1>1. i \in DOMAIN jobs[w] /\ jobs[w][i].message = m
  <2>1. jobs \in JobLists
    BY Basics
  <2> QED BY <2>1 DEF JobLists, Places, JobAt
<1> QED BY <1>1 DEF Forgotten

\* The jobs of v that may still be sent for m.
Current(m, v, i) ==
    i \in Places(jobs, v) /\ JobAt(jobs, v, i).message = m /\ ~(i = 1 /\ v \in Done)

\* Jobs stay what they are when one is added, and all but one when one is over.
LEMMA LivesOn ==
    ASSUME jobs \in JobLists, NEW w \in Workers, NEW m, NEW v \in Workers, NEW i,
           Current(m, v, i)
    PROVE  /\ jobs' = jobs /\ Done' = Done => Current(m, v, i)'
           /\ (\E job \in Job : jobs' = Extended(jobs, w, job)) /\ Done' = Done
                 => Current(m, v, i)'
           /\ /\ jobs[w] # <<>> /\ jobs' = Finished(jobs, w) /\ Done' = Done \ {w}
              /\ ~(v = w /\ i = 1)
              => \E j : Current(m, v, j)'
           /\ jobs' = Dropped(jobs, w) /\ v # w /\ Done' = Done \ {w}
                 => Current(m, v, i)'
<1>1. i \in Places(jobs, v) /\ JobAt(jobs, v, i).message = m /\ ~(i = 1 /\ v \in Done)
  BY DEF Current
<1>2. \A j : Current(m, v, j)' <=> /\ j \in Places(jobs', v)
                                   /\ JobAt(jobs', v, j).message = m
                                   /\ ~(j = 1 /\ v \in Done')
  BY DEF Current
<1>3. ASSUME NEW job \in Job, jobs' = Extended(jobs, w, job), Done' = Done
      PROVE  Current(m, v, i)'
  <2>1. i \in Places(jobs', v) /\ JobAt(jobs', v, i) = JobAt(jobs, v, i)
    BY <1>1, <1>3, ExtendedJobs DEF OthersKeep
  <2> QED BY <1>1, <1>2, <1>3, <2>1
<1>4. ASSUME jobs[w] # <<>>, jobs' = Finished(jobs, w), Done' = Done \ {w},
             ~(v = w /\ i = 1)
      PROVE  \E j : Current(m, v, j)'
  <2>1. CASE v = w
    <3>1. i - 1 \in Places(jobs', w) /\ JobAt(jobs', w, i - 1) = JobAt(jobs, w, i)
      BY <1>1, <1>4, <2>1, FinishedJobs
    <3> QED BY <1>1, <1>2, <1>4, <2>1, <3>1
  <2>2. CASE v # w
    <3>1. i \in Places(jobs', v) /\ JobAt(jobs', v, i) = JobAt(jobs, v, i)
      BY <1>1, <1>4, <2>2, FinishedJobs DEF OthersKeep
    <3> QED BY <1>1, <1>2, <1>4, <2>2, <3>1
  <2> QED BY <2>1, <2>2
<1>5. ASSUME jobs' = Dropped(jobs, w), v # w, Done' = Done \ {w}
      PROVE  Current(m, v, i)'
  <2>1. i \in Places(jobs', v) /\ JobAt(jobs', v, i) = JobAt(jobs, v, i)
    BY <1>1, <1>5, DroppedJobs DEF OthersKeep
  <2> QED BY <1>1, <1>2, <1>5, <2>1
<1>6. jobs' = jobs /\ Done' = Done => Current(m, v, i)'
  <2>1. jobs' = jobs => Places(jobs', v) = Places(jobs, v)
    OBVIOUS
  <2>2. jobs' = jobs => JobAt(jobs', v, i) = JobAt(jobs, v, i)
    OBVIOUS
  <2> QED BY <1>1, <1>2, <2>1, <2>2
<1> QED BY <1>3, <1>4, <1>5, <1>6

LEMMA LossStep ==
    ASSUME IInv, Distinct, \A w \in Workers : Mode[w] # "dry_run",
           [Next]_vars, NEW m \in Messages,
           Lives(m, QueueOf(file), jobs, Done),
           ~Lives(m, QueueOf(file'), jobs', Done')
    PROVE  Forgotten(m)
<1> DEFINE q  == QueueOf(file)
           q2 == QueueOf(file')
<1>1. /\ now \in Nat /\ jobs \in JobLists
      /\ q \in SUBSET Delivery /\ IsFiniteSet(q)
  BY Basics DEF IInv
<1>2. \A t \in Readings : t \in Nat /\ t <= now
  BY <1>1, ReadingsPast
<1>3. \A t \in Readings : \A d \in q \ Unexpired(q, t) : d.expires_at <= now
  BY <1>1, <1>2, UnexpiredOnly DEF OnlyExpired
<1>4. \A d \in q2 : d.message # m
  BY DEF Lives
<1>5. \A v \in Workers : \A j : ~Current(m, v, j)'
  BY DEF Lives, Current
<1>6. ASSUME NEW d \in q, d.message = m, d.expires_at <= now PROVE Forgotten(m)
  BY <1>6, Excuses
<1>7. ASSUME NEW d \in Held, d.message = m, d.expires_at <= now PROVE Forgotten(m)
  BY <1>7, Excuses
<1>8. ASSUME Cardinality(q) >= QueueMaxSize,
             (\A d \in q : d.message # m) \/ ~(q2 \subseteq q)
      PROVE  Forgotten(m)
  BY <1>8, Excuses
<1>9. \/ \E d \in q : d.message = m
      \/ \E v \in Workers : \E i : Current(m, v, i)
  BY DEF Lives, Current
<1>10. OnePlace(q, jobs) /\ Owned(q, Held, ids)
  BY DEF IInv, Ledger, Distinct
<1> HIDE DEF q, q2
<1>11. ASSUME jobs' = jobs, Done' = Done, OnlyExpired(q, q2, now) PROVE Forgotten(m)
  <2>1. \A v \in Workers : \A i : ~Current(m, v, i)
    BY <1>1, <1>5, <1>11, LivesOn
  <2> QED BY <1>4, <1>6, <1>9, <1>11, <2>1 DEF OnlyExpired
<1>12. ASSUME NEW w \in Workers, NEW x \in Messages, NEW u \in Targets,
              NEW p \in Priorities, Send(w, x, u, p)
       PROVE  Forgotten(m)
  <2>1. /\ Nowhere(x, q, jobs) /\ Done' = Done
        /\ \/ jobs' = jobs
           \/ \E job \in Job : jobs' = Extended(jobs, w, job)
    BY <1>12, SendEffect DEF q, q2
  <2>2. PICK t \in Readings : \E d \in Delivery :
              d.message = x /\ (q2 = q \/ Appended(Unexpired(q, t), q2, d))
    BY <1>12, SendEffect DEF q, q2
  <2>3. PICK d \in Delivery :
              d.message = x /\ (q2 = q \/ Appended(Unexpired(q, t), q2, d))
    BY <2>2
  <2>4. d \notin q
    BY <2>1, <2>3 DEF Nowhere
  <2>5. ASSUME NEW v \in Workers, NEW i, Current(m, v, i)
        PROVE  FALSE
    <3>1. \E j : Current(m, v, j)'
      BY <1>1, <2>1, <2>5, LivesOn
    <3> QED BY <1>5, <3>1
  <2>6. PICK e \in q : e.message = m
    BY <1>9, <2>5
  <2>7. e \notin q2 /\ Appended(Unexpired(q, t), q2, d)
    BY <1>4, <2>3, <2>6
  <2>8. \/ e.expires_at <= now
        \/ Cardinality(q) >= QueueMaxSize /\ ~(q2 \subseteq q)
    BY <1>1, <1>2, <2>4, <2>6, <2>7, Displaced
  <2> QED BY <1>6, <1>8, <2>6, <2>8
<1>13. ASSUME NEW w \in Workers, Reserve(w) PROVE Forgotten(m)
  <2>1. Done' = Done
    BY <1>13, ReserveEffect
  <2>2. PICK t \in Readings :
           \/ jobs' = jobs /\ q2 = Unexpired(q, t)
           \/ \E d \in Unexpired(q, t) :
                 /\ q2 = Others(Unexpired(q, t), d)
                 /\ \E job \in Job :
                       job.message = d.message /\ jobs' = Extended(jobs, w, job)
    BY <1>13, ReserveEffect DEF q, q2
  <2>3. CASE jobs' = jobs /\ q2 = Unexpired(q, t)
    BY <1>1, <1>2, <1>11, <2>1, <2>3, UnexpiredOnly
  <2>4. CASE \E d \in Unexpired(q, t) :
                 /\ q2 = Others(Unexpired(q, t), d)
                 /\ \E job \in Job :
                       job.message = d.message /\ jobs' = Extended(jobs, w, job)
    <3>1. PICK d \in Unexpired(q, t), job \in Job :
             /\ q2 = Others(Unexpired(q, t), d)
             /\ job.message = d.message /\ jobs' = Extended(jobs, w, job)
      BY <2>4
    <3>2. ASSUME NEW v \in Workers, NEW i, Current(m, v, i)
          PROVE  FALSE
      <4>1. \E j : Current(m, v, j)'
        BY <1>1, <2>1, <3>1, <3>2, LivesOn
      <4> QED BY <1>5, <4>1
    <3>3. PICK e \in q : e.message = m
      BY <1>9, <3>2
    <3>4. CASE e \in Unexpired(q, t)
      <4>1. d \in q /\ e.id = d.id
        BY <1>4, <3>1, <3>3, <3>4 DEF Others, Unexpired
      <4>2. e = d
        BY <1>10, <3>3, <4>1 DEF Owned
      <4>3. job.message = m
        BY <3>1, <3>3, <4>2
      <4>4. PICK n \in Places(jobs', w) : JobAt(jobs', w, n) = job
        BY <1>1, <3>1, ExtendedJobs
      <4>5. n = 1 /\ w \in Done
        BY <1>5, <2>1, <4>3, <4>4 DEF Current
      <4> QED BY <1>13, <4>5 DEF Done, Reserve
    <3> QED BY <1>3, <1>6, <3>3, <3>4
  <2> QED BY <2>2, <2>3, <2>4
<1>14. ASSUME NEW w \in Workers, Transport(w) PROVE Forgotten(m)
  <2>1. /\ q2 = q /\ jobs' = jobs
        /\ \/ Done' = Done
           \/ /\ Done' = Done \cup {w} /\ jobs[w] # <<>>
              /\ sent'[JobAt(jobs, w, 1).message] > sent[JobAt(jobs, w, 1).message]
    BY <1>14, TransportEffect DEF q, q2
  <2>2. PICK v \in Workers : \E i : Current(m, v, i)
    BY <1>4, <1>9, <2>1
  <2>3. PICK i : Current(m, v, i)
    BY <2>2
  <2>4. i = 1 /\ v = w /\ sent'[m] > sent[m]
    BY <1>5, <2>1, <2>3 DEF Current
  <2> QED BY <2>4, Excuses
<1>15. ASSUME NEW w \in Workers, Record(w) PROVE Forgotten(m)
  <2>1. PICK t \in Readings : q2 = Unexpired(q, t)
    BY <1>15, RecordEffect DEF q, q2
  <2>2. \/ jobs' = jobs /\ Done' = Done
        \/ /\ jobs[w] # <<>> /\ jobs' = Finished(jobs, w) /\ Done' = Done \ {w}
           /\ w \in Done \/ told'[JobAt(jobs, w, 1).message] = "failed"
    BY <1>15, RecordEffect
  <2>3. CASE \E d \in q : d.message = m
    BY <1>3, <1>4, <1>6, <2>1, <2>3
  <2>4. ASSUME NEW v \in Workers, NEW i, Current(m, v, i)
        PROVE  Forgotten(m)
    <3>1. CASE v = w /\ i = 1 /\ told'[JobAt(jobs, w, 1).message] = "failed"
      BY <2>4, <3>1, Excuses DEF Current
    <3>2. CASE ~(v = w /\ i = 1 /\ told'[JobAt(jobs, w, 1).message] = "failed")
      <4>1. \/ jobs' = jobs /\ Done' = Done
            \/ /\ jobs[w] # <<>> /\ jobs' = Finished(jobs, w) /\ Done' = Done \ {w}
               /\ ~(v = w /\ i = 1)
        BY <2>2, <2>4, <3>2 DEF Current
      <4>2. \E j : Current(m, v, j)'
        BY <1>1, <2>4, <4>1, LivesOn
      <4> QED BY <1>5, <4>2
    <3> QED BY <3>1, <3>2
  <2> QED BY <1>9, <2>3, <2>4
<1>16. ASSUME NEW w \in Workers, jobs[w] # <<>>, w \notin Done,
              jobs' = Finished(jobs, w), Done' = Done,
              JobAt(jobs, w, 1).message # m
       PROVE  \A v \in Workers : \A i : ~Current(m, v, i)
  <2> SUFFICES ASSUME NEW v \in Workers, NEW i, Current(m, v, i)
               PROVE  FALSE
    OBVIOUS
  <2>1. ~(v = w /\ i = 1) /\ Done' = Done \ {w}
    BY <1>16 DEF Current
  <2>2. \E j : Current(m, v, j)'
    BY <1>1, <1>16, <2>1, LivesOn
  <2> QED BY <1>5, <2>2
<1>17. ASSUME NEW w \in Workers, QueueAgain(w) PROVE Forgotten(m)
  <2>1. /\ jobs[w] # <<>> /\ w \notin Done
        /\ jobs' = Finished(jobs, w) /\ Done' = Done
    BY <1>17, QueueAgainEffect
  <2>2. PICK t \in Readings : \E d \in Delivery :
           /\ d.message = JobAt(jobs, w, 1).message
           /\ Appended(Unexpired(q, t), q2, d)
           /\ Placed(Unexpired(q, t), q2, d)
    BY <1>17, QueueAgainEffect DEF q, q2
  <2>3. PICK d \in Delivery :
           /\ d.message = JobAt(jobs, w, 1).message
           /\ Appended(Unexpired(q, t), q2, d)
           /\ Placed(Unexpired(q, t), q2, d)
    BY <2>2
  <2>4. 1 \in Places(jobs, w)
    BY <1>1, <2>1, FirstJob
  <2>5. \A e \in q : e.message # d.message
    BY <1>10, <2>3, <2>4 DEF OnePlace
  <2>6. CASE d.message = m
    <3>1. ~Room(Unexpired(q, t))
      BY <1>4, <2>3, <2>6 DEF Placed
    <3>2. Cardinality(q) >= QueueMaxSize
      BY <1>1, <1>2, <3>1, FullQueue
    <3> QED BY <1>8, <2>5, <2>6, <3>2
  <2>7. CASE d.message # m
    <3>1. PICK e \in q : e.message = m
      BY <1>9, <1>16, <2>1, <2>3, <2>7
    <3>2. \/ e.expires_at <= now
          \/ Cardinality(q) >= QueueMaxSize /\ ~(q2 \subseteq q)
      BY <1>1, <1>2, <1>4, <2>3, <2>5, <3>1, Displaced
    <3> QED BY <1>6, <1>8, <3>1, <3>2
  <2> QED BY <2>6, <2>7
<1>18. ASSUME NEW w \in Workers, Requeue(w) PROVE Forgotten(m)
  <2>1. /\ jobs[w] # <<>> /\ w \notin Done
        /\ jobs' = Finished(jobs, w) /\ Done' = Done
    BY <1>18, RequeueEffect
  <2>2. PICK t \in Readings : \E d \in JobAt(jobs, w, 1).reserved :
           /\ d \in Delivery /\ d.message = JobAt(jobs, w, 1).message
           /\ \/ q2 = q /\ d.expires_at <= t
              \/ q2 = Others(Unexpired(q, t), d) \cup {d}
    BY <1>18, RequeueEffect DEF q, q2
  <2>3. PICK d \in JobAt(jobs, w, 1).reserved :
           /\ d \in Delivery /\ d.message = JobAt(jobs, w, 1).message
           /\ \/ q2 = q /\ d.expires_at <= t
              \/ q2 = Others(Unexpired(q, t), d) \cup {d}
    BY <2>2
  <2>4. d \in Held
    <3>1. 1 \in Places(jobs, w)
      BY <1>1, <2>1, FirstJob
    <3> QED BY <1>1, <2>3, <3>1, HeldIs, HeldMembers
  <2>5. CASE d.message = m
    <3>1. d.expires_at <= t /\ d.expires_at \in Nat /\ t \in Nat /\ t <= now
      BY <1>2, <1>4, <2>3, <2>5 DEF Delivery
    <3>2. d.expires_at <= now
      BY <1>1, <3>1
    <3> QED BY <1>7, <2>4, <2>5, <3>2
  <2>6. CASE d.message # m
    <3>1. PICK e \in q : e.message = m
      BY <1>9, <1>16, <2>1, <2>3, <2>6
    <3>2. e.id # d.id
      BY <1>10, <2>4, <3>1 DEF Owned
    <3>3. e \notin q2
      BY <1>4, <3>1
    <3>4. e \notin Unexpired(q, t)
      BY <2>3, <3>1, <3>2, <3>3 DEF Others
    <3> QED BY <1>3, <1>6, <3>1, <3>4
  <2> QED BY <2>5, <2>6
<1>19. ASSUME NEW w \in Workers, Abandon(w) PROVE Forgotten(m)
  <2>1. q2 = q /\ jobs' = Dropped(jobs, w) /\ Done' = Done \ {w}
    BY <1>19, AbandonEffect DEF q, q2
  <2>2. PICK v \in Workers : \E i : Current(m, v, i)
    BY <1>4, <1>9, <2>1
  <2>3. PICK i : Current(m, v, i)
    BY <2>2
  <2>4. CASE v = w
    BY <1>19, <2>3, <2>4, DiedWith DEF Current
  <2>5. CASE v # w
    <3>1. \E j : Current(m, v, j)'
      BY <1>1, <2>1, <2>3, <2>5, LivesOn
    <3> QED BY <1>5, <3>1
  <2> QED BY <2>4, <2>5
<1>20. ASSUME \/ \E w \in Workers, u \in Targets, limit \in FlushLimits :
                    FlushQueued(w, u, limit)
              \/ Status \/ Tick \/ UNCHANGED vars
       PROVE  Forgotten(m)
  BY <1>11, <1>20, QuietEffect DEF q, q2
<1> QED BY <1>12, <1>13, <1>14, <1>15, <1>17, <1>18, <1>19, <1>20 DEF Next, Step

\* A message is lost only for a reason that is named: answered as failed, expired,
\* a full queue, a death (sender.py 50-100, 137-193).  Any number of workers share
\* the file, all of which send: what a dry run takes from a queue it shares with a
\* sender is gone (103-106).
THEOREM LossCorrect == (\A w \in Workers : Mode[w] # "dry_run") => (Spec => NoSilentLoss)
<1> SUFFICES ASSUME \A w \in Workers : Mode[w] # "dry_run"
             PROVE  Spec => NoSilentLoss
  OBVIOUS
<1>1. (IInv => \A m : Alive(m) <=> Lives(m, QueueOf(file), jobs, Done))'
  BY AliveIs, PTL
<1>2. IInv /\ IInv' /\ Distinct /\ [Next]_vars =>
        [ \A m \in Messages : Alive(m) /\ ~Alive(m)' => Forgotten(m) ]_vars
  <2> SUFFICES ASSUME IInv, IInv', Distinct, [Next]_vars, NEW m \in Messages,
                      Alive(m), ~Alive(m)'
               PROVE  Forgotten(m)
    OBVIOUS
  <2>1. Lives(m, QueueOf(file), jobs, Done)
    BY AliveIs
  <2>2. ~Lives(m, QueueOf(file'), jobs', Done')
    BY <1>1
  <2> QED BY <2>1, <2>2, LossStep
<1> QED BY <1>2, Invariance, DistinctIds, PTL DEF Spec, NoSilentLoss
-----------------------------------------------------------------------------
(* Releases *)

\* Where no worker dies, a probe that is under way is pending with one of them.
LEMMA ProbePending ==
    ASSUME IInv, ~Faults, Pending(TRUE) = {}
    PROVE  ~Probing(file)
<1> SUFFICES ASSUME Probing(file) PROVE FALSE
  OBVIOUS
<1>1. PICK w \in Workers : \E i \in Places(jobs, w) :
         JobAt(jobs, w, i).probe = TRUE /\ ~(i = 1 /\ Recorded(w))
  BY DEF IInv, Marked
<1>2. PICK i \in Places(jobs, w) :
         JobAt(jobs, w, i).probe = TRUE /\ ~(i = 1 /\ Recorded(w))
  BY <1>1
<1>3. i \in DOMAIN jobs[w] /\ jobs[w][i].probe = TRUE
  <2>1. jobs \in JobLists
    BY Basics
  <2> QED BY <1>2, <2>1 DEF JobLists, Places, JobAt
<1>4. <<w, i>> \in Pending(TRUE)
  BY <1>2, <1>3 DEF Pending
<1> QED BY <1>4

LEMMA ReleaseStep ==
    ASSUME IInv, Distinct, InitialCapacity > 0, ~Probing(file),
           NEW w \in Workers, Reserve(w), ReleaseIsDue(w)
    PROVE  Held' # Held
<1> DEFINE q      == QueueOf(file)
           oldest == now - MaxLag
<1>1. /\ file # NoFile /\ WindowElapsed(file, oldest)
      /\ file.open_until # None => file.open_until <= oldest
      /\ \E d \in q : d.target = flush[w].target /\ d.expires_at > now
  BY QueueIs DEF ReleaseIsDue
<1>2. /\ file \in GovernorFile /\ Coherent(file, now)
      /\ now \in Nat /\ oldest \in Int /\ q \in SUBSET Delivery
  BY <1>1, Basics, SenderAssumption DEF IInv
<1>3. ASSUME NEW t \in Readings
      PROVE  /\ CanAttempt(Refresh(Load(file, t), t), t)
             /\ \E d \in Unexpired(q, t) : d.target = flush[w].target
  <2>1. t \in Nat /\ t <= now /\ oldest <= t
    BY <1>2, ReadingsPast
  <2>2. CanAttempt(Refresh(Load(file, t), t), t)
    BY <1>1, <1>2, <2>1, AttemptDue
  <2>3. PICK d \in q : d.target = flush[w].target /\ d.expires_at > now
    BY <1>1
  <2>4. d \in Unexpired(q, t)
    BY <1>2, <2>1, <2>3 DEF Unexpired, Delivery
  <2> QED BY <2>2, <2>3, <2>4
<1>4. PICK t \in Readings : \E d \in Unexpired(q, t) : \E c \in Delivery : \E job \in Job :
         /\ c = [d EXCEPT !.attempts = @ + 1]
         /\ job.reserved = {c} /\ jobs' = Extended(jobs, w, job)
  BY <1>3, ReserveEffect
<1>5. PICK d \in Unexpired(q, t), c \in Delivery, job \in Job :
         /\ c = [d EXCEPT !.attempts = @ + 1]
         /\ job.reserved = {c} /\ jobs' = Extended(jobs, w, job)
  BY <1>4
<1>6. Held' = Held \cup {c}
  <2>1. jobs \in JobLists
    BY Basics
  <2>2. HeldIn(jobs') = HeldIn(jobs) \cup {c} /\ jobs' \in JobLists
    BY <1>5, <2>1, HeldExtended, ExtendedJobs
  <2> QED BY <2>1, <2>2, HeldIs
<1>7. c \notin Held
  <2>1. d \in q /\ d \in Delivery
    BY <1>2, <1>5 DEF Unexpired
  <2>2. c.id = d.id
    BY <1>5, <2>1 DEF Delivery
  <2>3. Owned(q, Held, ids)
    BY DEF Distinct
  <2> QED BY <2>1, <2>2, <2>3 DEF Owned
<1> QED BY <1>6, <1>7

\* What is queued is released in later windows: a flush that comes when the window
\* and the circuit are over, and nobody's attempt is pending, is given a delivery
\* (governor.py 256-304, sender.py 79-100), by whatever clock reading it goes and
\* whoever died before it, unless a probe is marked as under way.  The hypothesis is
\* needed: when the learned and the initial capacity are 0 no window grants anything.
THEOREM ReleasedCorrect == InitialCapacity > 0 => (Spec => ReleasedUnlessMarked)
<1> SUFFICES ASSUME InitialCapacity > 0
             PROVE  Spec => ReleasedUnlessMarked
  OBVIOUS
<1>1. IInv /\ Distinct /\ [Next]_vars =>
        [ \A w \in Workers :
            Reserve(w) /\ ReleaseIsDue(w) /\ ~file.half_open_in_flight => Held' # Held ]_vars
  BY ReleaseStep DEF Probing
<1> QED BY <1>1, Invariance, DistinctIds, PTL DEF Spec, ReleasedUnlessMarked

\* Where no worker dies nothing withholds it: no mark is left without its probe.
THEOREM ReleasedAlways ==
    ~Faults /\ InitialCapacity > 0 => (Spec => ReleasedInLaterWindow)
<1> SUFFICES ASSUME ~Faults, InitialCapacity > 0
             PROVE  Spec => ReleasedInLaterWindow
  OBVIOUS
<1>1. ASSUME IInv, NEW w \in Workers, ReleaseIsDue(w)
      PROVE  ~Probing(file)
  BY <1>1, ProbePending DEF ReleaseIsDue
<1>2. IInv /\ Distinct /\ [Next]_vars =>
        [ \A w \in Workers : Reserve(w) /\ ReleaseIsDue(w) => Held' # Held ]_vars
  BY <1>1, ReleaseStep
<1> QED BY <1>2, Invariance, DistinctIds, PTL DEF Spec, ReleasedInLaterWindow
-----------------------------------------------------------------------------
(* The refinement.  The governor that the senders see is the one they use: the *)
(* operators of its instance are those of GovernorState.                       *)

LEMMA SameRefresh ==
    /\ \A f, t : GovernorView!Refresh(f, t) = Refresh(f, t)
    /\ \A f, t : GovernorView!Load(f, t) = Load(f, t)
<1>1. \A f, t : GovernorView!Refresh(f, t) = Refresh(f, t)
  BY SMTT(60)
     DEF Refresh, GovernorView!Refresh, RollWindow, GovernorView!RollWindow,
         LearnedCapacity, GovernorView!LearnedCapacity,
         WindowElapsed, GovernorView!WindowElapsed,
         WindowStart, GovernorView!WindowStart, Capacity, GovernorView!Capacity,
         Larger, GovernorView!Larger, Smaller, GovernorView!Smaller,
         Unexpired, GovernorView!Unexpired, HalfOpenIfDue, GovernorView!HalfOpenIfDue,
         BackoffOver, GovernorView!BackoffOver,
         HealthyIfDrained, GovernorView!HealthyIfDrained
<1>2. \A f, t : GovernorView!Load(f, t) = Load(f, t)
  BY DEF Load, GovernorView!Load, DefaultState, GovernorView!DefaultState,
         Larger, GovernorView!Larger, Smaller, GovernorView!Smaller
<1> QED BY <1>1, <1>2

LEMMA SameGrants ==
    /\ \A f, t : GovernorView!CanAttempt(f, t) = CanAttempt(f, t)
    /\ \A f, t : GovernorView!EffectiveStatus(f, t) = EffectiveStatus(f, t)
    /\ \A f, t : GovernorView!Granted(f, t) = Granted(f, t)
<1>1. \A f, t : GovernorView!EffectiveStatus(f, t) = EffectiveStatus(f, t)
  BY DEF EffectiveStatus, GovernorView!EffectiveStatus,
         BackoffOver, GovernorView!BackoffOver
<1>2. \A f, t : GovernorView!CanAttempt(f, t) = CanAttempt(f, t)
  BY DEF CanAttempt, GovernorView!CanAttempt, EffectiveStatus, GovernorView!EffectiveStatus,
         BackoffOver, GovernorView!BackoffOver, Capacity, GovernorView!Capacity
<1>3. \A f, t : GovernorView!Granted(f, t) = Granted(f, t)
  BY <1>1 DEF Granted, GovernorView!Granted
<1> QED BY <1>1, <1>2, <1>3

LEMMA SameAppend ==
    \A f, d, t : GovernorView!AppendOutcomes(f, d, t) = AppendOutcomes(f, d, t)
<1>1. \A q, t : GovernorView!Unexpired(q, t) = Unexpired(q, t)
  BY DEF Unexpired, GovernorView!Unexpired
<1>2. \A q : GovernorView!Room(q) = Room(q)
  BY DEF Room, GovernorView!Room, Cardinality, GovernorView!Cardinality,
         IsFiniteSet, GovernorView!IsFiniteSet
<1>3. \A f, q : GovernorView!Enqueued(f, q) = Enqueued(f, q)
  BY DEF Enqueued, GovernorView!Enqueued
<1>4. \A d, e : GovernorView!SortsBefore(d, e) = SortsBefore(d, e)
  <2>1. \A p : GovernorView!Rank(p) = Rank(p)
    BY DEF Rank, GovernorView!Rank
  <2> QED BY <2>1 DEF SortsBefore, GovernorView!SortsBefore
<1>5. \A q : GovernorView!Evictable(q) = Evictable(q)
  BY <1>4 DEF Evictable, GovernorView!Evictable
<1> SUFFICES ASSUME NEW f, NEW d, NEW t
             PROVE  GovernorView!AppendOutcomes(f, d, t) = AppendOutcomes(f, d, t)
  OBVIOUS
<1> PICK live : live = Unexpired(f.queue, t)
  OBVIOUS
<1>6. {[queued |-> TRUE, state |-> GovernorView!Enqueued(f, (live \ {e}) \cup {d})] :
          e \in Evictable(live)}
      = {[queued |-> TRUE, state |-> Enqueued(f, (live \ {e}) \cup {d})] :
          e \in Evictable(live)}
  BY <1>3
<1> QED BY <1>1, <1>2, <1>3, <1>5, <1>6 DEF AppendOutcomes, GovernorView!AppendOutcomes

LEMMA SameOperations ==
    /\ GovernorView!Readings = Readings
    /\ GovernorView!Results = Results
    /\ \A i, m, u, p, t :
          GovernorView!BuildDelivery(i, m, u, p, t) = BuildDelivery(i, m, u, p, t)
    /\ \A g, d, t : GovernorView!AdmitOutcomes(g, d, t) = AdmitOutcomes(g, d, t)
    /\ \A g, d, t : GovernorView!QueueOutcomes(g, d, t) = QueueOutcomes(g, d, t)
    /\ \A g, u, t : GovernorView!ReserveOutcomes(g, u, t) = ReserveOutcomes(g, u, t)
    /\ \A g, d, t : GovernorView!RequeueFile(g, d, t) = RequeueFile(g, d, t)
    /\ \A g, t : \A r \in Results :
          GovernorView!RecordOutcomes(g, r, t) = RecordOutcomes(g, r, t)
    /\ \A g, t : GovernorView!StatusFile(g, t) = StatusFile(g, t)
<1>1. GovernorView!Readings = Readings /\ GovernorView!Results = Results
  BY DEF Readings, GovernorView!Readings, Results, GovernorView!Results,
         Larger, GovernorView!Larger
<1>2. \A i, m, u, p, t :
         GovernorView!BuildDelivery(i, m, u, p, t) = BuildDelivery(i, m, u, p, t)
  BY DEF BuildDelivery, GovernorView!BuildDelivery
<1>3. \A g, d, t : GovernorView!AdmitOutcomes(g, d, t) = AdmitOutcomes(g, d, t)
  <2> SUFFICES ASSUME NEW g, NEW d, NEW t
               PROVE  GovernorView!AdmitOutcomes(g, d, t) = AdmitOutcomes(g, d, t)
    OBVIOUS
  <2> PICK f : f = Refresh(Load(g, t), t)
    OBVIOUS
  <2>1. {[allowed |-> FALSE, queued |-> o.queued,
          status  |-> GovernorView!EffectiveStatus(o.state, t),
          state   |-> o.state] : o \in AppendOutcomes(f, d, t)}
        = {[allowed |-> FALSE, queued |-> o.queued,
            status  |-> EffectiveStatus(o.state, t),
            state   |-> o.state] : o \in AppendOutcomes(f, d, t)}
    BY SameGrants
  <2> QED BY <2>1, SameRefresh, SameGrants, SameAppend
          DEF AdmitOutcomes, GovernorView!AdmitOutcomes
<1>4. \A g, d, t : GovernorView!QueueOutcomes(g, d, t) = QueueOutcomes(g, d, t)
  BY SameRefresh, SameAppend DEF QueueOutcomes, GovernorView!QueueOutcomes
<1>5. \A g, u, t : GovernorView!ReserveOutcomes(g, u, t) = ReserveOutcomes(g, u, t)
  <2>1. \A d, e : GovernorView!SortsBefore(d, e) = SortsBefore(d, e)
    <3>1. \A p : GovernorView!Rank(p) = Rank(p)
      BY DEF Rank, GovernorView!Rank
    <3> QED BY <3>1 DEF SortsBefore, GovernorView!SortsBefore
  <2>2. \A f, d : GovernorView!TakenOut(f, d) = TakenOut(f, d)
    BY DEF TakenOut, GovernorView!TakenOut
  <2> SUFFICES ASSUME NEW g, NEW u, NEW t
               PROVE  GovernorView!ReserveOutcomes(g, u, t) = ReserveOutcomes(g, u, t)
    OBVIOUS
  <2> PICK f : f = Refresh(Load(g, t), t)
    OBVIOUS
  <2> PICK matching : matching = {d \in f.queue : d.target = u}
    OBVIOUS
  <2>3. {d \in matching : \A e \in matching : ~GovernorView!SortsBefore(e, d)}
        = {d \in matching : \A e \in matching : ~SortsBefore(e, d)}
    BY <2>1
  <2> PICK first : first = {d \in matching : \A e \in matching : ~SortsBefore(e, d)}
    OBVIOUS
  <2>4. {[reserved |-> {[d EXCEPT !.attempts = @ + 1]},
          state    |-> GovernorView!Granted(GovernorView!TakenOut(f, d), t)] : d \in first}
        = {[reserved |-> {[d EXCEPT !.attempts = @ + 1]},
            state    |-> Granted(TakenOut(f, d), t)] : d \in first}
    BY <2>2, SameGrants
  <2>5. ReserveOutcomes(g, u, t)
        = IF ~CanAttempt(f, t) \/ matching = {}
          THEN {[reserved |-> {}, state |-> f]}
          ELSE {[reserved |-> {[d EXCEPT !.attempts = @ + 1]},
                 state    |-> Granted(TakenOut(f, d), t)] : d \in first}
    BY DEF ReserveOutcomes
  <2>6. GovernorView!Refresh(GovernorView!Load(g, t), t) = f
    BY SameRefresh
  <2>7. GovernorView!ReserveOutcomes(g, u, t)
        = IF ~GovernorView!CanAttempt(f, t) \/ matching = {}
          THEN {[reserved |-> {}, state |-> f]}
          ELSE {[reserved |-> {[d EXCEPT !.attempts = @ + 1]},
                 state    |-> GovernorView!Granted(GovernorView!TakenOut(f, d), t)] :
                    d \in {d \in matching :
                             \A e \in matching : ~GovernorView!SortsBefore(e, d)}}
    BY <2>6 DEF GovernorView!ReserveOutcomes
  <2> QED BY <2>3, <2>4, <2>5, <2>7, SameGrants
<1>6. \A g, d, t : GovernorView!RequeueFile(g, d, t) = RequeueFile(g, d, t)
  <2>1. \A f, q : GovernorView!Enqueued(f, q) = Enqueued(f, q)
    BY DEF Enqueued, GovernorView!Enqueued
  <2> QED BY <2>1, SameRefresh DEF RequeueFile, GovernorView!RequeueFile
<1>7. \A g, t : \A r \in Results :
         GovernorView!RecordOutcomes(g, r, t) = RecordOutcomes(g, r, t)
  <2>1. \A n : GovernorView!BackoffDelays(n) = BackoffDelays(n)
    BY DEF BackoffDelays, GovernorView!BackoffDelays, Larger, GovernorView!Larger,
           Smaller, GovernorView!Smaller
  <2>2. \A f, x : GovernorView!Tripped(f, x) = Tripped(f, x)
    BY DEF Tripped, GovernorView!Tripped, Larger, GovernorView!Larger,
           Smaller, GovernorView!Smaller, Capacity, GovernorView!Capacity
  <2>3. \A f, x : GovernorView!Reopened(f, x) = Reopened(f, x)
    BY DEF Reopened, GovernorView!Reopened
  <2>4. \A f : GovernorView!Closed(f) = Closed(f)
    BY DEF Closed, GovernorView!Closed
  <2>5. \A f : GovernorView!HealthyIfDrained(f) = HealthyIfDrained(f)
    BY DEF HealthyIfDrained, GovernorView!HealthyIfDrained
  <2>6. \A a, b : GovernorView!Larger(a, b) = Larger(a, b)
    BY DEF Larger, GovernorView!Larger
  <2> SUFFICES ASSUME NEW g, NEW r \in Results, NEW t
               PROVE  GovernorView!RecordOutcomes(g, r, t) = RecordOutcomes(g, r, t)
    OBVIOUS
  <2> PICK f : f = Refresh(Load(g, t), t)
    OBVIOUS
  <2>7. \A n : {GovernorView!Tripped(f, t + s) : s \in BackoffDelays(n)}
               = {Tripped(f, t + s) : s \in BackoffDelays(n)}
    BY <2>2
  <2>8. \A n : {GovernorView!Reopened(f, t + s) : s \in BackoffDelays(n)}
               = {Reopened(f, t + s) : s \in BackoffDelays(n)}
    BY <2>3
  <2>9. GovernorView!Refresh(GovernorView!Load(g, t), t) = f
    BY SameRefresh
  <2>10. ASSUME r = "rate_limited"
         PROVE  GovernorView!RecordOutcomes(g, r, t) = RecordOutcomes(g, r, t)
    <3> PICK n : n = f.consecutive_rate_limits + 1
      OBVIOUS
    <3>1. RecordOutcomes(g, r, t) = {Tripped(f, t + s) : s \in BackoffDelays(n)}
      BY <2>10 DEF RecordOutcomes
    <3>2. GovernorView!RecordOutcomes(g, r, t)
          = {GovernorView!Tripped(f, t + s) : s \in GovernorView!BackoffDelays(n)}
      BY <2>9, <2>10 DEF GovernorView!RecordOutcomes
    <3> QED BY <2>1, <2>7, <3>1, <3>2
  <2>11. r = "ok" =>
            GovernorView!RecordOutcomes(g, r, t) = RecordOutcomes(g, r, t)
    BY <2>4, <2>5, <2>9 DEF RecordOutcomes, GovernorView!RecordOutcomes
  <2>12. ASSUME r = "failed"
         PROVE  GovernorView!RecordOutcomes(g, r, t) = RecordOutcomes(g, r, t)
    <3> PICK n : n = Larger(f.consecutive_rate_limits, 1)
      OBVIOUS
    <3>1. RecordOutcomes(g, r, t)
          = IF f.status = "HALF_OPEN"
            THEN {Reopened(f, t + s) : s \in BackoffDelays(n)} ELSE {f}
      BY <2>12 DEF RecordOutcomes
    <3>2. GovernorView!RecordOutcomes(g, r, t)
          = IF f.status = "HALF_OPEN"
            THEN {GovernorView!Reopened(f, t + s) : s \in GovernorView!BackoffDelays(n)}
            ELSE {f}
      BY <2>6, <2>9, <2>12 DEF GovernorView!RecordOutcomes
    <3> QED BY <2>1, <2>8, <3>1, <3>2
  <2> QED BY <2>10, <2>11, <2>12 DEF Results
<1>8. \A g, t : GovernorView!StatusFile(g, t) = StatusFile(g, t)
  BY SameRefresh DEF StatusFile, GovernorView!StatusFile
<1> QED BY <1>1, <1>2, <1>3, <1>4, <1>5, <1>6, <1>7, <1>8
-----------------------------------------------------------------------------
(* The attempts that the governor counts are the jobs not yet recorded *)

\* The workers whose current job is recorded.
Recorders == {w \in Workers : Recorded(w)}

Counts(js, rec, b, w, i) ==
    i \in Places(js, w) /\ JobAt(js, w, i).probe = b /\ ~(i = 1 /\ w \in rec)

PendingAt(js, rec, b) == {x \in Workers \X Nat : Counts(js, rec, b, x[1], x[2])}

LEMMA Slots ==
    ASSUME NEW js \in JobLists
    PROVE  \A w \in Workers : DOMAIN js[w] = Places(js, w) /\ Places(js, w) \subseteq Nat
<1>1. \A w \in Workers : js[w] \in Seq(Job)
  BY DEF JobLists
<1> QED BY <1>1 DEF Places

LEMMA PendingAtIs ==
    ASSUME NEW js \in JobLists, NEW rec, NEW b
    PROVE  \A w \in Workers, i \in Nat :
              <<w, i>> \in PendingAt(js, rec, b) <=> Counts(js, rec, b, w, i)
BY DEF PendingAt

\* Two sets of slots are equal when they have the same slots.
LEMMA SameSlots ==
    ASSUME NEW S \in SUBSET (Workers \X Nat), NEW T \in SUBSET (Workers \X Nat),
           \A w \in Workers, i \in Nat : <<w, i>> \in S <=> <<w, i>> \in T
    PROVE  S = T
OBVIOUS

LEMMA PendingIs ==
    ASSUME NEW b
    PROVE  /\ jobs \in JobLists => Pending(b) = PendingAt(jobs, Recorders, b)
           /\ jobs' \in JobLists => Pending(b)' = PendingAt(jobs', Recorders', b)
<1> DEFINE Mine(js, rec) ==
         UNION {{<<w, i>> : i \in {j \in DOMAIN js[w] :
                /\ js[w][j].probe = b
                /\ ~(j = 1 /\ w \in rec)}} : w \in Workers}
<1>1. ASSUME NEW js \in JobLists, NEW rec
      PROVE  Mine(js, rec) = PendingAt(js, rec, b)
  <2>1. \A w \in Workers : {j \in DOMAIN js[w] : js[w][j].probe = b /\ ~(j = 1 /\ w \in rec)}
                           = {j \in Nat : Counts(js, rec, b, w, j)}
    BY Slots DEF Counts, JobAt
  <2>2. \A x : x \in Mine(js, rec) <=>
           \E w \in Workers : \E i \in Nat : x = <<w, i>> /\ Counts(js, rec, b, w, i)
    BY <2>1
  <2>3. \A x : x \in PendingAt(js, rec, b) <=>
           \E w \in Workers : \E i \in Nat : x = <<w, i>> /\ Counts(js, rec, b, w, i)
    BY DEF PendingAt
  <2> QED BY <2>2, <2>3
<1>2. Pending(b) = Mine(jobs, Recorders)
  BY DEF Pending, Recorders
<1>3. Pending(b)' = Mine(jobs', Recorders')
  BY DEF Pending, Recorders
<1> QED BY <1>1, <1>2, <1>3

\* A worker is granted an attempt.
LEMMA GrownPending ==
    ASSUME NEW js \in JobLists, NEW w \in Workers, NEW job \in Job,
           NEW rec, w \notin rec, NEW b, IsFiniteSet(PendingAt(js, rec, b))
    PROVE  LET before == PendingAt(js, rec, b)
               after  == PendingAt(Extended(js, w, job), rec, b)
           IN  /\ IsFiniteSet(after)
               /\ Cardinality(after) = IF job.probe = b THEN Cardinality(before) + 1
                                       ELSE Cardinality(before)
<1> PICK js2 : js2 = Extended(js, w, job)
  OBVIOUS
<1>1. PICK n \in Nat :
         /\ n \in Places(js2, w) /\ n \notin Places(js, w)
         /\ JobAt(js2, w, n) = job
         /\ \A i \in Places(js2, w) : i # n => i \in Places(js, w)
  BY ExtendedJobs
<1>2. /\ \A i \in Places(js, w) : i \in Places(js2, w) /\ JobAt(js2, w, i) = JobAt(js, w, i)
      /\ \A v \in Workers \ {w} : /\ Places(js2, v) = Places(js, v)
                                  /\ \A i : JobAt(js2, v, i) = JobAt(js, v, i)
  BY ExtendedJobs DEF OthersKeep
<1>3. \A v \in Workers, i \in Nat :
         Counts(js2, rec, b, v, i) <=>
            Counts(js, rec, b, v, i) \/ (v = w /\ i = n /\ job.probe = b)
  BY <1>1, <1>2 DEF Counts
<1>4. ~Counts(js, rec, b, w, n)
  BY <1>1 DEF Counts
<1> DEFINE S == PendingAt(js, rec, b)
           T == PendingAt(js2, rec, b)
<1>5. S \subseteq Workers \X Nat /\ T \subseteq Workers \X Nat
  BY DEF PendingAt
<1>6. /\ \A v \in Workers, i \in Nat :
            <<v, i>> \in T <=> <<v, i>> \in S \/ (<<v, i>> = <<w, n>> /\ job.probe = b)
      /\ <<w, n>> \notin S
  <2>1. js2 \in JobLists
    BY ExtendedJobs
  <2>2. \A v \in Workers, i \in Nat : <<v, i>> = <<w, n>> <=> v = w /\ i = n
    OBVIOUS
  <2> QED BY <1>3, <1>4, <2>1, <2>2, PendingAtIs
<1>7. IsFiniteSet(S)
  OBVIOUS
<1> HIDE DEF S, T
<1>8. CASE job.probe = b
  <2>1. T = S \cup {<<w, n>>}
    BY <1>5, <1>6, <1>8, SameSlots
  <2>2. IsFiniteSet(T) /\ Cardinality(T) = Cardinality(S) + 1
    BY <1>6, <1>7, <2>1, FS_AddElement
  <2> QED BY <1>8, <2>2 DEF S, T
<1>9. CASE job.probe # b
  <2>1. T = S
    BY <1>5, <1>6, <1>9, SameSlots
  <2> QED BY <1>9, <1>7, <2>1 DEF S, T
<1> QED BY <1>8, <1>9

\* The result of the current job is recorded.
LEMMA RecordedPending ==
    ASSUME NEW js \in JobLists, NEW w \in Workers, js[w] # <<>>,
           NEW rec, w \notin rec, NEW b, IsFiniteSet(PendingAt(js, rec, b))
    PROVE  LET before == PendingAt(js, rec, b)
               after  == PendingAt(js, rec \cup {w}, b)
           IN  /\ IsFiniteSet(after)
               /\ IF JobAt(js, w, 1).probe = b
                  THEN /\ Cardinality(before) > 0
                       /\ Cardinality(after) = Cardinality(before) - 1
                  ELSE Cardinality(after) = Cardinality(before)
<1>1. 1 \in Places(js, w)
  BY FirstJob
<1> DEFINE S == PendingAt(js, rec, b)
           T == PendingAt(js, rec \cup {w}, b)
<1>2. S \subseteq Workers \X Nat /\ T \subseteq Workers \X Nat
  BY DEF PendingAt
<1>3. \A v \in Workers, i \in Nat :
         Counts(js, rec \cup {w}, b, v, i) <=>
            Counts(js, rec, b, v, i) /\ ~(v = w /\ i = 1)
  BY DEF Counts
<1>4. Counts(js, rec, b, w, 1) <=> JobAt(js, w, 1).probe = b
  BY <1>1 DEF Counts
<1>5. /\ \A v \in Workers, i \in Nat :
            <<v, i>> \in T <=> <<v, i>> \in S \ {<<w, 1>>}
      /\ <<w, 1>> \in S <=> JobAt(js, w, 1).probe = b
  <2>1. \A v \in Workers, i \in Nat : <<v, i>> = <<w, 1>> <=> v = w /\ i = 1
    OBVIOUS
  <2> QED BY <1>3, <1>4, <2>1, PendingAtIs
<1>6. IsFiniteSet(S)
  OBVIOUS
<1> HIDE DEF S, T
<1>7. T = S \ {<<w, 1>>}
  BY <1>2, <1>5, SameSlots
<1>8. /\ IsFiniteSet(T) /\ Cardinality(S) \in Nat /\ Cardinality(T) \in Nat
      /\ Cardinality(T) = IF <<w, 1>> \in S THEN Cardinality(S) - 1 ELSE Cardinality(S)
  BY <1>6, <1>7, FS_RemoveElement, FS_CardinalityType
<1> QED BY <1>5, <1>8 DEF S, T

\* A recorded job is over: the jobs behind it move up by one.
LEMMA FinishedPending ==
    ASSUME NEW js \in JobLists, NEW w \in Workers, js[w] # <<>>,
           NEW rec, w \in rec, NEW b, IsFiniteSet(PendingAt(js, rec, b))
    PROVE  LET before == PendingAt(js, rec, b)
               after  == PendingAt(Finished(js, w), rec \ {w}, b)
           IN  IsFiniteSet(after) /\ Cardinality(after) = Cardinality(before)
<1> PICK js2 : js2 = Finished(js, w)
  OBVIOUS
<1>1. /\ js2 \in JobLists
      /\ \A i \in Places(js2, w) :
            /\ i \in Nat /\ i >= 1
            /\ i + 1 \in Places(js, w)
            /\ JobAt(js2, w, i) = JobAt(js, w, i + 1)
      /\ \A i \in Places(js, w) : i # 1 =>
            /\ i - 1 \in Places(js2, w)
            /\ JobAt(js2, w, i - 1) = JobAt(js, w, i)
      /\ \A v \in Workers \ {w} : /\ Places(js2, v) = Places(js, v)
                                  /\ \A i : JobAt(js2, v, i) = JobAt(js, v, i)
  BY FinishedJobs DEF OthersKeep
<1> DEFINE S == PendingAt(js, rec, b)
           T == PendingAt(js2, rec \ {w}, b)
           Back(v, i) == IF v = w THEN i - 1 ELSE i
           back == [x \in S |-> <<x[1], Back(x[1], x[2])>>]
<1>2. S \subseteq Workers \X Nat /\ T \subseteq Workers \X Nat
  BY DEF PendingAt
<1>3. \A v \in Workers, i \in Nat :
         Counts(js, rec, b, v, i) =>
            /\ Back(v, i) \in Nat
            /\ Counts(js2, rec \ {w}, b, v, Back(v, i))
            /\ v = w => i >= 1
  <2> SUFFICES ASSUME NEW v \in Workers, NEW i \in Nat, Counts(js, rec, b, v, i)
               PROVE  /\ Back(v, i) \in Nat
                      /\ Counts(js2, rec \ {w}, b, v, Back(v, i))
                      /\ v = w => i >= 1
    OBVIOUS
  <2>1. CASE v = w
    <3>1. i # 1 /\ i \in Places(js, w) /\ JobAt(js, w, i).probe = b
      BY <2>1 DEF Counts
    <3>2. i - 1 \in Places(js2, w) /\ JobAt(js2, w, i - 1).probe = b
      BY <1>1, <3>1
    <3>3. i - 1 \in Nat
      BY <1>1, <3>2
    <3> QED BY <2>1, <3>2, <3>3 DEF Counts
  <2>2. CASE v # w
    BY <1>1, <2>2 DEF Counts
  <2> QED BY <2>1, <2>2
<1>4. \A v \in Workers, i \in Nat :
         Counts(js2, rec \ {w}, b, v, i) =>
            \E j \in Nat : Counts(js, rec, b, v, j) /\ Back(v, j) = i
  <2> SUFFICES ASSUME NEW v \in Workers, NEW i \in Nat, Counts(js2, rec \ {w}, b, v, i)
               PROVE  \E j \in Nat : Counts(js, rec, b, v, j) /\ Back(v, j) = i
    OBVIOUS
  <2>1. CASE v = w
    <3>1. i >= 1 /\ i + 1 \in Places(js, w) /\ JobAt(js, w, i + 1).probe = b
      BY <1>1, <2>1 DEF Counts
    <3>2. Counts(js, rec, b, v, i + 1)
      BY <2>1, <3>1 DEF Counts
    <3>3. i + 1 \in Nat /\ Back(v, i + 1) = i
      BY <2>1
    <3> QED BY <3>2, <3>3
  <2>2. CASE v # w
    BY <1>1, <2>2 DEF Counts
  <2> QED BY <2>1, <2>2
<1>5. \A v \in Workers, i, j \in Nat : Back(v, i) = Back(v, j) => i = j
  OBVIOUS
<1>6. /\ \A v \in Workers, i \in Nat : <<v, i>> \in S <=> Counts(js, rec, b, v, i)
      /\ \A v \in Workers, i \in Nat : <<v, i>> \in T <=> Counts(js2, rec \ {w}, b, v, i)
  BY <1>1, PendingAtIs
<1>7. IsFiniteSet(S)
  OBVIOUS
<1>8. \A v \in Workers, i \in Nat : <<v, i>> \in S => back[<<v, i>>] = <<v, Back(v, i)>>
  OBVIOUS
<1>9. DOMAIN back = S /\ back = [x \in S |-> back[x]]
  OBVIOUS
<1> HIDE DEF S, T, Back, back
<1>10. \A x \in S : \E v \in Workers, i \in Nat : x = <<v, i>>
  BY <1>2
<1>11. \A x \in T : \E v \in Workers, i \in Nat : x = <<v, i>>
  BY <1>2
<1>12. \A x \in S : back[x] \in T
  <2> SUFFICES ASSUME NEW x \in S PROVE back[x] \in T
    OBVIOUS
  <2>1. PICK v \in Workers, i \in Nat : x = <<v, i>>
    BY <1>10
  <2>2. Back(v, i) \in Nat /\ Counts(js2, rec \ {w}, b, v, Back(v, i))
    BY <1>3, <1>6, <2>1
  <2> QED BY <1>6, <1>8, <2>1, <2>2
<1>13. \A x, y \in S : back[x] = back[y] => x = y
  <2> SUFFICES ASSUME NEW x \in S, NEW y \in S, back[x] = back[y] PROVE x = y
    OBVIOUS
  <2>1. PICK v \in Workers, i \in Nat : x = <<v, i>>
    BY <1>10
  <2>2. PICK u \in Workers, j \in Nat : y = <<u, j>>
    BY <1>10
  <2>3. <<v, Back(v, i)>> = <<u, Back(u, j)>>
    BY <1>8, <2>1, <2>2
  <2>4. v = u /\ Back(v, i) = Back(v, j)
    BY <2>3
  <2> QED BY <1>5, <2>1, <2>2, <2>4
<1>14. \A y \in T : \E x \in S : back[x] = y
  <2> SUFFICES ASSUME NEW y \in T PROVE \E x \in S : back[x] = y
    OBVIOUS
  <2>1. PICK v \in Workers, i \in Nat : y = <<v, i>>
    BY <1>11
  <2>2. PICK j \in Nat : Counts(js, rec, b, v, j) /\ Back(v, j) = i
    BY <1>4, <1>6, <2>1
  <2>3. <<v, j>> \in S
    BY <1>6, <2>2
  <2>4. back[<<v, j>>] = y
    BY <1>8, <2>1, <2>2, <2>3
  <2> QED BY <2>3, <2>4
<1>15. back \in Bijection(S, T)
  BY <1>9, <1>12, <1>13, <1>14 DEF Bijection, Injection, Surjection, IsInjective
<1>16. ExistsBijection(S, T)
  BY <1>15 DEF ExistsBijection
<1> QED BY <1>7, <1>16, FS_Bijection DEF S, T

\* A worker gives up all its jobs.
LEMMA DroppedPending ==
    ASSUME NEW js \in JobLists, NEW w \in Workers, NEW rec, NEW rec2,
           rec \ {w} = rec2 \ {w}, NEW b, IsFiniteSet(PendingAt(js, rec, b))
    PROVE  LET before == PendingAt(js, rec, b)
               after  == PendingAt(Dropped(js, w), rec2, b)
           IN  IsFiniteSet(after) /\ Cardinality(after) <= Cardinality(before)
<1> PICK js2 : js2 = Dropped(js, w)
  OBVIOUS
<1>1. /\ Places(js2, w) = {}
      /\ \A v \in Workers \ {w} : /\ Places(js2, v) = Places(js, v)
                                  /\ \A i : JobAt(js2, v, i) = JobAt(js, v, i)
  BY DroppedJobs DEF OthersKeep
<1>2. \A v \in Workers, i \in Nat :
         Counts(js2, rec2, b, v, i) => Counts(js, rec, b, v, i)
  BY <1>1 DEF Counts
<1>3. PendingAt(js2, rec2, b) \subseteq PendingAt(js, rec, b)
  BY <1>2 DEF PendingAt
<1> QED BY <1>3, FS_Subset

-----------------------------------------------------------------------------
(* What the steps do to the attempts pending and the deliveries held *)

LEMMA RestHeld ==
    ASSUME IInv, NEW w \in Workers, jobs[w] # <<>>, jobs' = Finished(jobs, w)
    PROVE  Held' = Held \ JobAt(jobs, w, 1).reserved
<1>1. jobs \in JobLists
  BY Basics
<1>2. /\ OthersKeep(jobs, jobs', w) /\ jobs' \in JobLists
      /\ \A i \in Places(jobs, w) : i # 1 =>
            /\ i - 1 \in Places(jobs', w)
            /\ JobAt(jobs', w, i - 1) = JobAt(jobs, w, i)
  BY <1>1, FinishedJobs
<1>3. ASSUME NEW x \in HeldIn(jobs), x \notin JobAt(jobs, w, 1).reserved
      PROVE  x \in HeldIn(jobs')
  <2>1. PICK v \in Workers : \E i \in Places(jobs, v) : x \in JobAt(jobs, v, i).reserved
    BY HeldMembers
  <2>2. PICK i \in Places(jobs, v) : x \in JobAt(jobs, v, i).reserved
    BY <2>1
  <2>3. CASE v = w
    <3>1. i - 1 \in Places(jobs', w) /\ x \in JobAt(jobs', w, i - 1).reserved
      BY <1>2, <1>3, <2>2, <2>3
    <3> QED BY <3>1, HeldMembers
  <2>4. CASE v # w
    <3>1. i \in Places(jobs', v) /\ x \in JobAt(jobs', v, i).reserved
      BY <1>2, <2>2, <2>4 DEF OthersKeep
    <3> QED BY <3>1, HeldMembers
  <2> QED BY <2>3, <2>4
<1>4. Held' \in SUBSET (Held \ JobAt(jobs, w, 1).reserved)
  BY HeldFinished
<1> QED BY <1>1, <1>2, <1>3, <1>4, HeldIs

LEMMA SamePending ==
    ASSUME IInv, jobs' = jobs, Recorders' = Recorders, NEW b
    PROVE  Pending(b)' = Pending(b) /\ Held' = Held
<1>1. jobs \in JobLists
  BY Basics
<1>2. Pending(b)' = Pending(b)
  BY <1>1, PendingIs
<1>3. Held' = Held
  BY <1>1, HeldIs
<1> QED BY <1>2, <1>3

LEMMA GrantedPending ==
    ASSUME IInv, NEW w \in Workers, NEW job \in Job, jobs' = Extended(jobs, w, job),
           w \notin Recorders, Recorders' = Recorders, NEW b, IsFiniteSet(Pending(b))
    PROVE  /\ IsFiniteSet(Pending(b)')
           /\ Cardinality(Pending(b)') = IF job.probe = b THEN Cardinality(Pending(b)) + 1
                                         ELSE Cardinality(Pending(b))
           /\ Held' = Held \cup job.reserved
<1>1. jobs \in JobLists /\ jobs' \in JobLists
  BY Basics, ExtendedJobs
<1>2. /\ Pending(b) = PendingAt(jobs, Recorders, b)
      /\ Pending(b)' = PendingAt(jobs', Recorders, b)
  BY <1>1, PendingIs
<1>3. HeldIn(jobs') = HeldIn(jobs) \cup job.reserved
  BY <1>1, HeldExtended
<1>4. Held' = Held \cup job.reserved
  BY <1>1, <1>3, HeldIs
<1> QED BY <1>1, <1>2, <1>4, GrownPending

LEMMA LessPending ==
    ASSUME IInv, NEW w \in Workers, jobs[w] # <<>>, w \notin Recorders,
           \/ jobs' = jobs /\ Recorders' = Recorders \cup {w}
           \/ jobs' = Finished(jobs, w) /\ Recorders' = Recorders,
           NEW b, IsFiniteSet(Pending(b))
    PROVE  /\ IsFiniteSet(Pending(b)')
           /\ IF JobAt(jobs, w, 1).probe = b
              THEN /\ Cardinality(Pending(b)) > 0
                   /\ Cardinality(Pending(b)') = Cardinality(Pending(b)) - 1
              ELSE Cardinality(Pending(b)') = Cardinality(Pending(b))
<1>1. jobs \in JobLists /\ jobs' \in JobLists
  BY Basics, FinishedJobs
<1>2. Pending(b) = PendingAt(jobs, Recorders, b)
  BY <1>1, PendingIs
<1> PICK marked : marked = PendingAt(jobs, Recorders \cup {w}, b)
  OBVIOUS
<1>3. /\ IsFiniteSet(marked)
      /\ IF JobAt(jobs, w, 1).probe = b
         THEN /\ Cardinality(Pending(b)) > 0
              /\ Cardinality(marked) = Cardinality(Pending(b)) - 1
         ELSE Cardinality(marked) = Cardinality(Pending(b))
  BY <1>1, <1>2, RecordedPending
<1>4. IsFiniteSet(Pending(b)') /\ Cardinality(Pending(b)') = Cardinality(marked)
  <2>1. CASE jobs' = jobs /\ Recorders' = Recorders \cup {w}
    BY <1>1, <1>3, <2>1, PendingIs
  <2>2. CASE jobs' = Finished(jobs, w) /\ Recorders' = Recorders
    <3>1. (Recorders \cup {w}) \ {w} = Recorders
      OBVIOUS
    <3>2. Pending(b)' = PendingAt(Finished(jobs, w), (Recorders \cup {w}) \ {w}, b)
      BY <1>1, <2>2, <3>1, PendingIs
    <3>3. w \in Recorders \cup {w}
      OBVIOUS
    <3> QED BY <1>1, <1>3, <3>2, <3>3, FinishedPending
  <2> QED BY <2>1, <2>2
<1> QED BY <1>3, <1>4

LEMMA MovedPending ==
    ASSUME IInv, NEW w \in Workers, jobs[w] # <<>>, w \in Recorders,
           jobs' = Finished(jobs, w), Recorders' = Recorders \ {w},
           NEW b, IsFiniteSet(Pending(b))
    PROVE  /\ IsFiniteSet(Pending(b)')
           /\ Cardinality(Pending(b)') = Cardinality(Pending(b))
<1>1. jobs \in JobLists /\ jobs' \in JobLists
  BY Basics, FinishedJobs
<1>2. /\ Pending(b) = PendingAt(jobs, Recorders, b)
      /\ Pending(b)' = PendingAt(Finished(jobs, w), Recorders \ {w}, b)
  BY <1>1, PendingIs
<1> QED BY <1>1, <1>2, FinishedPending

LEMMA FewerPending ==
    ASSUME IInv, NEW w \in Workers, jobs' = Dropped(jobs, w),
           Recorders' \ {w} = Recorders \ {w}, NEW b, IsFiniteSet(Pending(b))
    PROVE  /\ IsFiniteSet(Pending(b)')
           /\ Cardinality(Pending(b)') \in 0 .. Cardinality(Pending(b))
<1>1. jobs \in JobLists /\ jobs' \in JobLists
  BY Basics, DroppedJobs
<1>2. /\ Pending(b) = PendingAt(jobs, Recorders, b)
      /\ Pending(b)' = PendingAt(Dropped(jobs, w), Recorders', b)
  BY <1>1, PendingIs
<1>3. /\ IsFiniteSet(Pending(b)')
      /\ Cardinality(Pending(b)') <= Cardinality(Pending(b))
  BY <1>1, <1>2, DroppedPending
<1> QED BY <1>3, FS_CardinalityType

-----------------------------------------------------------------------------
(* Every step of the senders is a step of the governor *)

FinitelyMany == IsFiniteSet(Pending(TRUE)) /\ IsFiniteSet(Pending(FALSE))

\* The bounds that Governor has on its counters; they are none of the code.
WithinBounds ==
    /\ ids < MaxIds
    /\ Cardinality(Pending(FALSE)) + Cardinality(Pending(TRUE)) < MaxInFlight

\* An attempt is counted as a probe or as an ordinary one.
OneMore(probing) ==
    IF probing
    THEN /\ Cardinality(Pending(TRUE))' = Cardinality(Pending(TRUE)) + 1
         /\ Cardinality(Pending(FALSE))' = Cardinality(Pending(FALSE))
    ELSE /\ Cardinality(Pending(FALSE))' = Cardinality(Pending(FALSE)) + 1
         /\ Cardinality(Pending(TRUE))' = Cardinality(Pending(TRUE))

LEMMA GrantCounted ==
    ASSUME IInv, FinitelyMany, NEW w \in Workers, NEW job \in Job,
           jobs' = Extended(jobs, w, job), w \notin Recorders, Recorders' = Recorders
    PROVE  /\ FinitelyMany'
           /\ OneMore(job.probe)
           /\ Held' = Held \cup job.reserved
<1>1. job.probe \in BOOLEAN
  BY DEF Job
<1>2. /\ IsFiniteSet(Pending(TRUE)')
      /\ Cardinality(Pending(TRUE)') = IF job.probe = TRUE THEN Cardinality(Pending(TRUE)) + 1
                                       ELSE Cardinality(Pending(TRUE))
      /\ Held' = Held \cup job.reserved
  BY GrantedPending DEF FinitelyMany
<1>3. /\ IsFiniteSet(Pending(FALSE)')
      /\ Cardinality(Pending(FALSE)') = IF job.probe = FALSE THEN Cardinality(Pending(FALSE)) + 1
                                        ELSE Cardinality(Pending(FALSE))
  BY GrantedPending DEF FinitelyMany
<1> QED BY <1>1, <1>2, <1>3 DEF FinitelyMany, OneMore

LEMMA SameCounted ==
    ASSUME IInv, FinitelyMany, jobs' = jobs, Recorders' = Recorders
    PROVE  /\ FinitelyMany'
           /\ UNCHANGED <<Held, Cardinality(Pending(FALSE)), Cardinality(Pending(TRUE))>>
<1>1. Pending(TRUE)' = Pending(TRUE) /\ Held' = Held
  BY SamePending
<1>2. Pending(FALSE)' = Pending(FALSE)
  BY SamePending
<1> QED BY <1>1, <1>2 DEF FinitelyMany

\* admit_or_queue(), by send().
LEMMA SendImplements ==
    ASSUME IInv, FinitelyMany, NEW w \in Workers, NEW m \in Messages, NEW u \in Targets,
           NEW p \in Priorities, Send(w, m, u, p)
    PROVE  /\ FinitelyMany'
           /\ WithinBounds => GovernorView!AdmitOrQueue(m, u, p)
<1> DEFINE Grants(o) ==
         IF o.allowed
         THEN /\ jobs' = [jobs EXCEPT ![w] =
                   <<[message |-> m, target |-> u, priority |-> p,
                      probe |-> o.status = "HALF_OPEN", reserved |-> {}]>>]
              /\ pc' = [pc EXCEPT ![w] = "transport"]
         ELSE UNCHANGED <<jobs, pc>>
<1>1. PICK t \in Readings :
         \E o \in AdmitOutcomes(file, BuildDelivery(ids + 1, m, u, p, t), t) :
            file' = o.state /\ Grants(o)
  BY DEF Send
<1>2. PICK o \in AdmitOutcomes(file, BuildDelivery(ids + 1, m, u, p, t), t) :
         file' = o.state /\ Grants(o)
  BY <1>1
<1>3. pc[w] = "idle" /\ ids' = ids + 1 /\ now' = now
  BY DEF Send
<1>4. w \notin Recorders /\ Recorders' = Recorders
  BY <1>2, <1>3 DEF Recorders, Recorded, IInv, TypeOK
<1>5. /\ FinitelyMany' /\ Held' = Held
      /\ IF o.allowed THEN OneMore(o.status = "HALF_OPEN")
         ELSE UNCHANGED <<Cardinality(Pending(FALSE)), Cardinality(Pending(TRUE))>>
  <2>1. CASE o.allowed
    <3>1. PICK job : job = [message |-> m, target |-> u, priority |-> p,
                            probe |-> o.status = "HALF_OPEN", reserved |-> {}]
      OBVIOUS
    <3>2. job \in Job /\ job.reserved = {} /\ job.probe = (o.status = "HALF_OPEN")
      BY <3>1 DEF Job
    <3>3. jobs[w] = <<>>
      BY <1>3 DEF IInv, Staged
    <3>4. jobs' = Extended(jobs, w, job)
      BY <1>2, <2>1, <3>1, <3>3 DEF Extended
    <3> QED BY <1>4, <2>1, <3>2, <3>4, GrantCounted
  <2>2. CASE ~o.allowed
    BY <1>2, <1>4, <2>2, SameCounted
  <2> QED BY <2>1, <2>2
<1>6. ASSUME WithinBounds PROVE GovernorView!AdmitOrQueue(m, u, p)
  <2>1. /\ t \in GovernorView!Readings
        /\ o \in GovernorView!AdmitOutcomes(
                    file, GovernorView!BuildDelivery(ids + 1, m, u, p, t), t)
    BY <1>2, SameOperations
  <2>2. IF o.allowed THEN GovernorView!CountAttempt(o.status = "HALF_OPEN")
        ELSE UNCHANGED <<Cardinality(Pending(FALSE)), Cardinality(Pending(TRUE))>>
    BY <1>5, <1>6 DEF WithinBounds, OneMore, GovernorView!CountAttempt
  <2> QED BY <1>2, <1>3, <1>5, <1>6, <2>1, <2>2 DEF WithinBounds, GovernorView!AdmitOrQueue
<1> QED BY <1>5, <1>6

\* reserve_next_queued(), by flush_plan().
LEMMA ReserveImplements ==
    ASSUME IInv, FinitelyMany, NEW w \in Workers, Reserve(w)
    PROVE  /\ FinitelyMany'
           /\ WithinBounds => \E u \in Targets : GovernorView!ReserveNextQueued(u)
<1> PICK u \in Targets : u = flush[w].target
  BY DEF IInv, TypeOK
<1> DEFINE Takes(o) ==
         /\ jobs' = [jobs EXCEPT ![w] =
               IF o.reserved = {} THEN @
               ELSE LET d == CHOOSE d \in o.reserved : TRUE
                    IN  Append(@, [message |-> d.message, target |-> d.target,
                                   priority |-> d.priority,
                                   probe |-> o.state.status = "HALF_OPEN",
                                   reserved |-> {d}])]
         /\ \E step \in {"reserve", "idle", "transport"} : pc' = [pc EXCEPT ![w] = step]
<1>1. PICK t \in Readings : \E o \in ReserveOutcomes(file, u, t) : file' = o.state /\ Takes(o)
  BY DEF Reserve
<1>2. PICK o \in ReserveOutcomes(file, u, t) : file' = o.state /\ Takes(o)
  BY <1>1
<1>3. pc[w] = "reserve" /\ now' = now /\ ids' = ids
  BY DEF Reserve
<1>4. w \notin Recorders /\ Recorders' = Recorders
  BY <1>2, <1>3 DEF Recorders, Recorded, IInv, TypeOK
<1>5. /\ FinitelyMany' /\ Held' = Held \cup o.reserved
      /\ IF o.reserved # {} THEN OneMore(o.state.status = "HALF_OPEN")
         ELSE UNCHANGED <<Cardinality(Pending(FALSE)), Cardinality(Pending(TRUE))>>
  <2>1. CASE o.reserved = {}
    <3>1. jobs' = jobs
      BY <1>2, <2>1, Basics DEF JobLists
    <3> QED BY <1>4, <2>1, <3>1, SameCounted
  <2>2. CASE o.reserved # {}
    <3>1. PICK c \in Delivery : o.reserved = {c}
      <4>1. t \in Nat /\ t <= now
        BY Basics, ReadingsPast
      <4>2. o.reserved \subseteq Delivery
        BY <1>2, <4>1, Basics, ReserveCoherent DEF IInv
      <4>3. \E d \in Unexpired(QueueOf(file), t) : o.reserved = {[d EXCEPT !.attempts = @ + 1]}
        BY <1>2, <2>2, <4>1, Basics, ReserveMoves
      <4> QED BY <4>2, <4>3
    <3>2. (CHOOSE d \in o.reserved : TRUE) = c
      BY <3>1
    <3>3. PICK job : job = [message |-> c.message, target |-> c.target,
                            priority |-> c.priority,
                            probe |-> o.state.status = "HALF_OPEN", reserved |-> {c}]
      OBVIOUS
    <3>4. /\ job \in Job /\ job.reserved = o.reserved
          /\ job.probe = (o.state.status = "HALF_OPEN")
      BY <3>1, <3>3 DEF Job, Delivery
    <3>5. jobs' = Extended(jobs, w, job)
      BY <1>2, <2>2, <3>2, <3>3 DEF Extended
    <3> QED BY <1>4, <2>2, <3>4, <3>5, GrantCounted
  <2> QED BY <2>1, <2>2
<1>6. ASSUME WithinBounds PROVE GovernorView!ReserveNextQueued(u)
  <2>1. t \in GovernorView!Readings /\ o \in GovernorView!ReserveOutcomes(file, u, t)
    BY <1>2, SameOperations
  <2>2. IF o.reserved # {} THEN GovernorView!CountAttempt(o.state.status = "HALF_OPEN")
        ELSE UNCHANGED <<Cardinality(Pending(FALSE)), Cardinality(Pending(TRUE))>>
    BY <1>5, <1>6 DEF WithinBounds, OneMore, GovernorView!CountAttempt
  <2> QED BY <1>2, <1>3, <1>5, <2>1, <2>2 DEF GovernorView!ReserveNextQueued
<1> QED BY <1>5, <1>6

\* A job is for one delivery of a flush, or for none.
LEMMA JobFinishes ==
    ASSUME IInv, NEW w \in Workers, jobs[w] # <<>>
    PROVE  /\ JobAt(jobs, w, 1).reserved \subseteq Held
           /\ GovernorView!Finishes(JobAt(jobs, w, 1).reserved)
<1>1. 1 \in Places(jobs, w) /\ jobs \in JobLists
  BY Basics, FirstJob
<1>2. JobAt(jobs, w, 1).reserved \subseteq Held
  BY <1>1, HeldIs, HeldMembers
<1>3. Backed(JobAt(jobs, w, 1))
  BY <1>1 DEF IInv, Staged
<1> QED BY <1>2, <1>3 DEF Backed, GovernorView!Finishes

\* record_result(): the job is over, or goes back to the queue in a step to come.
LEMMA RecordImplements ==
    ASSUME IInv, FinitelyMany, NEW w \in Workers, Record(w)
    PROVE  /\ FinitelyMany'
           /\ \E r \in Results : GovernorView!RecordResult(r)
<1> PICK r \in Results : r = result[w]
  BY DEF IInv, TypeOK
<1>1. PICK t \in Readings : file' \in RecordOutcomes(file, r, t)
  BY DEF Record
<1>2. /\ pc[w] = "record" /\ now' = now /\ ids' = ids
      /\ \/ FinishJob(w)
         \/ pc' = [pc EXCEPT ![w] = "queue"] /\ jobs' = jobs
         \/ pc' = [pc EXCEPT ![w] = "requeue"] /\ jobs' = jobs
  BY DEF Record
<1>3. jobs[w] # <<>> /\ w \notin Recorders
  BY <1>2 DEF IInv, Staged, Recorders, Recorded
<1>4. /\ \/ jobs' = jobs /\ Recorders' = Recorders \cup {w}
         \/ jobs' = Finished(jobs, w) /\ Recorders' = Recorders
  BY <1>2 DEF FinishJob, Finished, Recorders, Recorded, IInv, TypeOK
<1>5. JobAt(jobs, w, 1).probe \in BOOLEAN
  BY <1>3, Basics, FirstJob DEF Job
<1> PICK job : job = JobAt(jobs, w, 1)
  OBVIOUS
<1>6. /\ IsFiniteSet(Pending(TRUE)')
      /\ IF job.probe = TRUE
         THEN /\ Cardinality(Pending(TRUE)) > 0
              /\ Cardinality(Pending(TRUE)') = Cardinality(Pending(TRUE)) - 1
         ELSE Cardinality(Pending(TRUE)') = Cardinality(Pending(TRUE))
  BY <1>3, <1>4, LessPending DEF FinitelyMany
<1>7. /\ IsFiniteSet(Pending(FALSE)')
      /\ IF job.probe = FALSE
         THEN /\ Cardinality(Pending(FALSE)) > 0
              /\ Cardinality(Pending(FALSE)') = Cardinality(Pending(FALSE)) - 1
         ELSE Cardinality(Pending(FALSE)') = Cardinality(Pending(FALSE))
  BY <1>3, <1>4, LessPending DEF FinitelyMany
<1>8. \E done \in SUBSET Held : GovernorView!Finishes(done) /\ Held' = Held \ done
  <2>1. CASE jobs' = jobs
    <3>1. Held' = Held
      BY <2>1, Basics, HeldIs
    <3> QED BY <3>1 DEF GovernorView!Finishes
  <2>2. CASE jobs' = Finished(jobs, w)
    BY <1>3, <2>2, JobFinishes, RestHeld
  <2> QED BY <1>4, <2>1, <2>2
<1>9. /\ t \in GovernorView!Readings
      /\ file' \in GovernorView!RecordOutcomes(file, r, t)
  BY <1>1, SameOperations
<1>10. \/ /\ Cardinality(Pending(FALSE)) > 0
          /\ Cardinality(Pending(FALSE))' = Cardinality(Pending(FALSE)) - 1
          /\ UNCHANGED Cardinality(Pending(TRUE))
       \/ /\ Cardinality(Pending(TRUE)) > 0
          /\ Cardinality(Pending(TRUE))' = Cardinality(Pending(TRUE)) - 1
          /\ UNCHANGED Cardinality(Pending(FALSE))
  BY <1>5, <1>6, <1>7
<1>11. GovernorView!RecordResult(r)
  BY <1>2, <1>8, <1>9, <1>10 DEF GovernorView!RecordResult
<1> QED BY <1>6, <1>7, <1>11 DEF FinitelyMany

\* The current job is recorded, and over.
LEMMA FinishCounted ==
    ASSUME IInv, FinitelyMany, NEW w \in Workers, pc[w] \in {"queue", "requeue"}, FinishJob(w)
    PROVE  /\ jobs[w] # <<>>
           /\ FinitelyMany'
           /\ UNCHANGED <<Cardinality(Pending(FALSE)), Cardinality(Pending(TRUE))>>
           /\ Held' = Held \ JobAt(jobs, w, 1).reserved
<1>1. jobs[w] # <<>> /\ w \in Recorders
  BY DEF IInv, Staged, Recorders, Recorded
<1>2. jobs' = Finished(jobs, w) /\ Recorders' = Recorders \ {w}
  BY DEF FinishJob, Finished, Recorders, Recorded, IInv, TypeOK
<1>3. /\ IsFiniteSet(Pending(TRUE)')
      /\ Cardinality(Pending(TRUE)') = Cardinality(Pending(TRUE))
  BY <1>1, <1>2, MovedPending DEF FinitelyMany
<1>4. /\ IsFiniteSet(Pending(FALSE)')
      /\ Cardinality(Pending(FALSE)') = Cardinality(Pending(FALSE))
  BY <1>1, <1>2, MovedPending DEF FinitelyMany
<1>5. Held' = Held \ JobAt(jobs, w, 1).reserved
  BY <1>1, <1>2, RestHeld
<1> QED BY <1>1, <1>3, <1>4, <1>5 DEF FinitelyMany

\* queue_delivery(), after a rate limit.
LEMMA QueueAgainImplements ==
    ASSUME IInv, FinitelyMany, NEW w \in Workers, QueueAgain(w)
    PROVE  /\ FinitelyMany'
           /\ WithinBounds => \E m \in Messages, u \in Targets, p \in Priorities :
                                 GovernorView!QueueDelivery(m, u, p)
<1>1. /\ pc[w] = "queue" /\ ids' = ids + 1 /\ now' = now /\ FinishJob(w)
  BY DEF QueueAgain
<1>2. /\ jobs[w] # <<>> /\ FinitelyMany'
      /\ UNCHANGED <<Cardinality(Pending(FALSE)), Cardinality(Pending(TRUE))>>
      /\ Held' = Held \ JobAt(jobs, w, 1).reserved
  BY <1>1, FinishCounted
<1>3. PICK job : job = JobAt(jobs, w, 1)
  OBVIOUS
<1>4. /\ Head(jobs[w]) = job
      /\ job.message \in Messages /\ job.target \in Targets /\ job.priority \in Priorities
  BY <1>2, <1>3, Basics, FirstJob DEF Job
<1>5. PICK t \in Readings :
         \E o \in QueueOutcomes(file, BuildDelivery(ids + 1, job.message, job.target,
                                                    job.priority, t), t) :
            file' = o.state
  BY <1>4 DEF QueueAgain
<1>6. /\ t \in GovernorView!Readings
      /\ \E o \in GovernorView!QueueOutcomes(file,
                     GovernorView!BuildDelivery(ids + 1, job.message, job.target,
                                                job.priority, t), t) :
            file' = o.state
  BY <1>5, SameOperations
<1>7. \E done \in SUBSET Held : GovernorView!Finishes(done) /\ Held' = Held \ done
  BY <1>2, JobFinishes
<1>8. ASSUME WithinBounds
      PROVE  GovernorView!QueueDelivery(job.message, job.target, job.priority)
  BY <1>1, <1>2, <1>6, <1>7, <1>8 DEF WithinBounds, GovernorView!QueueDelivery
<1> QED BY <1>2, <1>4, <1>8

\* requeue_delivery(), after another failure of a flush.
LEMMA RequeueImplements ==
    ASSUME IInv, FinitelyMany, NEW w \in Workers, Requeue(w)
    PROVE  /\ FinitelyMany'
           /\ \E d \in Held : GovernorView!RequeueDelivery(d)
<1>1. pc[w] = "requeue" /\ ids' = ids /\ now' = now /\ FinishJob(w)
  BY DEF Requeue
<1>2. /\ jobs[w] # <<>> /\ FinitelyMany'
      /\ UNCHANGED <<Cardinality(Pending(FALSE)), Cardinality(Pending(TRUE))>>
      /\ Held' = Held \ JobAt(jobs, w, 1).reserved
  BY <1>1, FinishCounted
<1>3. PICK job : job = JobAt(jobs, w, 1)
  OBVIOUS
<1>4. Head(jobs[w]) = job /\ 1 \in Places(jobs, w)
  BY <1>2, <1>3, Basics, FirstJob
<1>5. PICK t \in Readings : \E d \in job.reserved : file' = RequeueFile(file, d, t)
  BY <1>4 DEF Requeue
<1>6. PICK d \in job.reserved : file' = RequeueFile(file, d, t)
  BY <1>5
<1>7. job.reserved = {d} /\ d \in Held
  <2>1. Backed(job)
    BY <1>3, <1>4 DEF IInv, Staged
  <2>2. job.reserved \subseteq Held
    BY <1>2, <1>3, JobFinishes
  <2> QED BY <1>6, <2>1, <2>2 DEF Backed
<1>8. t \in GovernorView!Readings /\ file' = GovernorView!RequeueFile(file, d, t)
  BY <1>5, <1>6, SameOperations
<1>9. GovernorView!RequeueDelivery(d)
  BY <1>1, <1>2, <1>3, <1>7, <1>8 DEF GovernorView!RequeueDelivery
<1> QED BY <1>2, <1>7, <1>9

LEMMA AbandonImplements ==
    ASSUME IInv, FinitelyMany, NEW w \in Workers, Abandon(w)
    PROVE  FinitelyMany' /\ GovernorView!Abandon
<1>1. /\ Faults /\ pc' = [pc EXCEPT ![w] = "idle"]
      /\ jobs' = Dropped(jobs, w)
      /\ file' = file /\ now' = now /\ ids' = ids
  BY DEF Abandon, Dropped, governorVars
<1>2. Recorders' \ {w} = Recorders \ {w}
  BY <1>1 DEF Recorders, Recorded, IInv, TypeOK
<1>3. /\ IsFiniteSet(Pending(TRUE)')
      /\ Cardinality(Pending(TRUE)') \in 0 .. Cardinality(Pending(TRUE))
  BY <1>1, <1>2, FewerPending DEF FinitelyMany
<1>4. /\ IsFiniteSet(Pending(FALSE)')
      /\ Cardinality(Pending(FALSE)') \in 0 .. Cardinality(Pending(FALSE))
  BY <1>1, <1>2, FewerPending DEF FinitelyMany
<1>5. Held' \in SUBSET Held
  BY <1>1, HeldDropped
<1> QED BY <1>1, <1>3, <1>4, <1>5 DEF FinitelyMany, GovernorView!Abandon

\* FlushQueued and Transport are nothing to the governor.
LEMMA QuietImplements ==
    ASSUME IInv, FinitelyMany,
           \/ \E w \in Workers, u \in Targets, limit \in FlushLimits : FlushQueued(w, u, limit)
           \/ \E w \in Workers : Transport(w)
           \/ UNCHANGED vars
    PROVE  FinitelyMany' /\ UNCHANGED GovernorView!vars
<1>1. jobs' = jobs /\ file' = file /\ now' = now /\ ids' = ids
  BY DEF FlushQueued, Transport, vars, governorVars
<1>2. Recorders' = Recorders
  <2>1. ASSUME NEW w \in Workers, NEW u \in Targets, NEW limit \in FlushLimits,
               FlushQueued(w, u, limit)
        PROVE  Recorders' = Recorders
    BY <2>1 DEF FlushQueued, Recorders, Recorded, IInv, TypeOK
  <2>2. ASSUME NEW w \in Workers, Transport(w)
        PROVE  Recorders' = Recorders
    BY <2>2 DEF Transport, Recorders, Recorded, IInv, TypeOK
  <2>3. CASE UNCHANGED vars
    BY <2>3 DEF vars, Recorders, Recorded
  <2> QED BY <2>1, <2>2, <2>3
<1> QED BY <1>1, <1>2, SameCounted DEF GovernorView!vars

LEMMA NobodysImplements ==
    ASSUME IInv, FinitelyMany, Status \/ Tick
    PROVE  FinitelyMany' /\ (GovernorView!Status \/ GovernorView!Tick)
<1>1. jobs' = jobs /\ ids' = ids /\ Recorders' = Recorders
  BY DEF Status, Tick, Recorders, Recorded
<1>2. /\ FinitelyMany'
      /\ UNCHANGED <<Held, Cardinality(Pending(FALSE)), Cardinality(Pending(TRUE))>>
  BY <1>1, SameCounted
<1>3. CASE Status
  <2>1. PICK t \in Readings : file' = StatusFile(file, t)
    BY <1>3 DEF Status
  <2>2. t \in GovernorView!Readings /\ file' = GovernorView!StatusFile(file, t)
    BY <2>1, SameOperations
  <2>3. now' = now
    BY <1>3 DEF Status
  <2> QED BY <1>1, <1>2, <2>2, <2>3 DEF GovernorView!Status
<1>4. CASE Tick
  BY <1>1, <1>2, <1>4 DEF Tick, GovernorView!Tick
<1> QED BY <1>3, <1>4

LEMMA StepImplements ==
    ASSUME IInv, FinitelyMany, [Next]_vars
    PROVE  /\ FinitelyMany'
           /\ WithinBounds => [GovernorView!Next]_(GovernorView!vars)
<1>1. ASSUME NEW w \in Workers, NEW m \in Messages, NEW u \in Targets, NEW p \in Priorities,
             Send(w, m, u, p)
      PROVE  FinitelyMany' /\ (WithinBounds => GovernorView!Next)
  BY <1>1, SendImplements DEF GovernorView!Next
<1>2. ASSUME NEW w \in Workers, Reserve(w)
      PROVE  FinitelyMany' /\ (WithinBounds => GovernorView!Next)
  BY <1>2, ReserveImplements DEF GovernorView!Next
<1>3. ASSUME NEW w \in Workers, Record(w)
      PROVE  FinitelyMany' /\ GovernorView!Next
  <2>1. GovernorView!Results = Results
    BY SameOperations
  <2> QED BY <1>3, <2>1, RecordImplements DEF GovernorView!Next
<1>4. ASSUME NEW w \in Workers, QueueAgain(w)
      PROVE  FinitelyMany' /\ (WithinBounds => GovernorView!Next)
  BY <1>4, QueueAgainImplements DEF GovernorView!Next
<1>5. ASSUME NEW w \in Workers, Requeue(w)
      PROVE  FinitelyMany' /\ GovernorView!Next
  BY <1>5, RequeueImplements DEF GovernorView!Next
<1>6. ASSUME NEW w \in Workers, Abandon(w)
      PROVE  FinitelyMany' /\ GovernorView!Next
  BY <1>6, AbandonImplements DEF GovernorView!Next
<1>7. CASE \/ \E w \in Workers, u \in Targets, limit \in FlushLimits : FlushQueued(w, u, limit)
           \/ \E w \in Workers : Transport(w)
           \/ UNCHANGED vars
  BY <1>7, QuietImplements
<1>8. CASE Status \/ Tick
  BY <1>8, NobodysImplements DEF GovernorView!Next
<1> QED BY <1>1, <1>2, <1>3, <1>4, <1>5, <1>6, <1>7, <1>8 DEF Next, Step

LEMMA InitImplements == Init => FinitelyMany /\ GovernorView!Init
<1> SUFFICES ASSUME Init PROVE FinitelyMany /\ GovernorView!Init
  OBVIOUS
<1>1. jobs \in JobLists /\ \A w \in Workers : jobs[w] = <<>>
  BY EmptySeq DEF Init, JobLists
<1>2. \A w \in Workers : Places(jobs, w) = {}
  BY <1>1, NoJobs
<1>3. \A b : PendingAt(jobs, Recorders, b) = {}
  BY <1>2 DEF PendingAt, Counts
<1>4. Pending(TRUE) = {} /\ Pending(FALSE) = {}
  BY <1>1, <1>3, PendingIs
<1>5. Held = {}
  BY <1>1, <1>2, HeldIs, HeldMembers
<1> QED BY <1>4, <1>5, FS_EmptySet DEF Init, FinitelyMany, GovernorView!Init

\* WeChatSender keeps to what Governor allows its callers (sender.py 31-196): it
\* records one result for each attempt it was granted and no other, and it ends
\* each reservation once, by a delivery, a requeue or a new delivery in its place.
\* So all that is proved of Governor holds of the senders.  As far as the counters
\* are within the bounds of Governor, which are not in the code.
THEOREM Implementation == Spec /\ []WithinBounds => ImplementsGovernor
<1>1. Init => FinitelyMany /\ GovernorView!Init
  BY InitImplements
<1>2. IInv /\ FinitelyMany /\ [Next]_vars => FinitelyMany'
  BY StepImplements
<1>3. IInv /\ FinitelyMany /\ WithinBounds /\ [Next]_vars =>
         [GovernorView!Next]_(GovernorView!vars)
  BY StepImplements
<1> QED BY <1>1, <1>2, <1>3, Invariance, PTL DEF Spec, ImplementsGovernor, GovernorView!Spec

=============================================================================
