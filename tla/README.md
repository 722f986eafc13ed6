# Verification of the Hermes WeChat Bridge

TLA+ specifications of the bridge's delivery path, the TLC configurations that
check them on small instances, and TLAPS proofs that hold for every instance.
Paths such as `governor.py` are files of the repository (`bridge/wechat/governor.py`);
`PROJECT.json` maps every definition to the lines it models.

## 1. The system

The bridge receives WeChat callbacks, has Hermes answer them and sends the
answers, and it sends notifications of cron jobs and guardians. Everything that
leaves goes through one sender and one *delivery governor*, which counts attempts
per window, opens a circuit when WeChat (iLink) refuses for rate, and keeps what
it may not send yet in a queue.

```
 callback -> server -> adapter -> router -> dedupe store (state file + lock)
                                    |-> Hermes client
                                    |-> retry_call -> sender
 CLI, cron, guardian, shims -> notifier -----------> sender -> transport
                                                       |
                                                       v
                                              governor (state file + lock)
```

| component | state it keeps | operations | hard behaviour | what makes it correct |
|---|---|---|---|---|
| governor (`wechat/governor.py`) | `state.json`: status, capacity, window, circuit, queue | `admit_or_queue`, `queue_delivery`, `reserve_next_queued`, `requeue_delivery`, `record_result`, `status` | called by any number of threads and processes; the clock is read before the lock; results come late or never | no attempt inside the backoff; a bound on attempts in any stretch of time; a delivery has one owner and does not vanish; the circuit can always recover |
| sender (`wechat/sender.py`) | none between calls; inside a call, the granted attempt and the reserved deliveries | `send`, `flush_queued` | grant, transport call, result and requeue are separate steps, others run in between; a worker dies in the middle | a message is delivered at most once and not lost silently; the governor is used as it expects |
| state lock (`_StateLock` in `governor.py` and `dedupe.py`) | the lock file | enter, exit, removal of a stale lock | crash with the lock; age check and unlink in two steps; POSIX and Windows unlink differently | exclusion; no waiter waits for ever; a dead holder's lock goes away |
| state files | `state.json`, `dedupe-state.json` | load, change, replace | failure or crash between the steps | operations are atomic, none that returned is lost |
| dedupe store (`runtime/dedupe.py`) | event id -> received/processing/succeeded/failed, attempts, expiry; in memory or in a file | `begin`, `complete`, `fail`, `seen` | concurrent callbacks for one event; expiry during processing; monotonic clock in a file | an event that succeeded is not processed again |
| router, retry (`runtime/router.py`, `runtime/retry.py`) | none | `handle_event`, `retry_call` | retries repeat the whole send; exceptions after the transport delivered | one reply per event; failures leave the event retryable |
| server (`server.py`) | none | callback, `/notify`, `/flush`, `/simulate`, `/sessions/..`, status | one thread per request; WeChat repeats a callback that was not answered; the reply is also returned as passive XML | whoever is acknowledged has or will get a reply; callers are told what happened |
| notifier, cron, guardian, service, shims (`runtime/*.py`, `hermes_native/*_shim.py`) | none | make a card, call the sender, tell the caller | `send()` ends in many ways, or raises; callers pass raw texts, errors and cards | one card without a raw error; what is told is true |
| formatter, cards (`wechat/formatter.py`, `runtime/friendly_card.py`) | none | template, recognizers, `format_friendly_reply` | limits; texts that are cards already | replies fit the limit; nothing is wrapped twice |
| official transport (`wechat/official.py`) | access token and its expiry | `__call__` | threads refresh the token at once, without a lock | no message goes out with a token that has expired |
| installer and verifier (`integrations/hermes_native`) | files under the Hermes home | install, verify | crashes between and within writes, runs beside each other, edits, `--force` | what verifies was installed whole; the user's files survive |
| adapter, signature verifier, XML, config, diagnostics, CLI | none | pure functions | - | - |
| distribution (PowerShell, patches, overlay), simulator, release script | other projects' trees | install, patch, start | outside this program | - |

## 2. Modules

| module | models | role |
|---|---|---|
| `GovernorState` | the state file and what one locked operation does to it | constant-level operators, used by the two below |
| `Governor` | the governor with everything that may call it | abstract specification for its callers |
| `GovernorBudget` | `Governor` with a record of when attempts were granted | a bound over any stretch of time |
| `Sender` | `send()` and `flush_queued()` in several workers | detailed specification, implements `Governor` |
| `StateLock` | the lock file, system call by system call | lock protocol |
| `AtomicState` | a file whose operations are atomic | abstract specification of a state file |
| `LockedState` | load, change, replace behind `StateLock` | implements `AtomicState` |
| `Dedupe` | what the dedupe store keeps of an event | constant-level operators, used by `Router` |
| `Router` | `handle_event` with `retry_call` and both kinds of dedupe store, in several threads | uses what `LockedState` and `Sender` promise |
| `Cards` | the card template, its recognizers, the formatting of replies | constant-level operators, used by `Service` |
| `Service` | the callback with its passive answer, the notices, the queue and its flushes | composes the server, the router, the notifier and its adapters over what `Sender` and `Router` promise |
| `OfficialTransport` | the transport's token cache | on its own: to `Sender` a transport is anything with an outcome |
| `Installer` | the installer and the verifier | on its own |
| `GovernorStateProofs` | - | lemmas on what each operation does to the state file, for the next two |
| `GovernorProofs`, `SenderProofs` | - | theorems about the governor and about the senders that use it |
| `StateLockProofs`, `RouterProofs`, `OfficialTransportProofs`, `InstallerProofs`, `ServiceProofs` | - | theorems |
| `MC*` | - | instances for TLC |

They form one argument. `LockedState` shows (with `StateLock`) that the
operations on a state file are atomic; that is why a step of `Governor` is one
whole locked operation. `Sender` shows what the callers of the repository do with
those operations and that this is no more than `Governor` lets a caller do, so
what is proved of `Governor` holds while senders run. `Service` is the next layer:
it takes from `Sender` which outcomes a `send()` has and where they leave a
message, and follows the message through retries, repeated callbacks, flushes and
restarts to the user.

### GovernorState

The file is a record with the fields of `_default_state`; fields that nothing
reads back (`version`, `consecutive_failures`, the `last_*_at` times) are left
out. `Load` gives the default state when there is no file, `Refresh` is
`_refresh_state` (roll the window and learn the capacity, drop expired
deliveries, half-open the circuit, fall back to HEALTHY), in its order. Each
public operation has an operator with the set of its possible outcomes: the reply
together with the saved file (`AdmitOutcomes`, `QueueOutcomes`, `ReserveOutcomes`,
`RequeueFile`, `RecordOutcomes`, `StatusFile`). There is more than one outcome
where the code draws a random jitter or breaks a tie by list order: the queue is a
set of deliveries, and a tie between deliveries of one priority, one `created_at`
and one `attempts` is left open. `x or default` is modelled as it works:
a capacity of 0 reads as the initial capacity, a window start of 0 as now.
Time and all settings are integers; the code has floats for the times.

### Governor

`file` is `state.json`, `now` the clock, `ids` the delivery ids drawn. The rest is
what the callers hold: `held` (reserved deliveries), `ordinary` and `probes`
(attempts granted with the circuit closed and in HALF_OPEN whose results are
pending). An action is one operation: it takes a clock reading at most `MaxLag`
seconds old (the code reads the clock and then waits for the lock, at most
`lock_timeout_seconds`), refreshes, acts and saves. `Abandon` lets a caller die or
leave through an exception with anything it held.

### Sender

A worker is a thread in `send()` or `flush_queued()`. Its steps are the governor
operations and the transport call: `Send` (admission), `Reserve` (one turn of
`flush_plan`, all turns before the first delivery is sent), `Transport`, `Record`,
`QueueAgain` (after a rate limit: a new delivery), `Requeue` (a flushed delivery
that failed). `Mode` says for every worker whether its configuration is dry-run,
lacks a transport or has one, since processes of different configurations share
the default state directory. Messages are sent once each and `sent` counts what
the transport delivered. A transport may succeed, fail or be refused for rate
(`is_rate_limited_result` over the error or exception text); an exception and a
failed result go the same way through the code. The case of a transport that
delivers and then raises is outside the model: `sent` counts results.

`ImplementsGovernor` is the refinement: `held` maps to the reserved deliveries of
the workers' jobs, `ordinary` and `probes` to the jobs whose result is not yet
recorded.

### StateLock, LockedState, AtomicState

`path` is what the path of the lock file names: nothing, or a file with its
creator, its mtime and whether its creator still has it open. The steps are
`os.open(O_CREAT|O_EXCL)`, which may be followed by a failing `os.write` that
leaves the file there (`WriteFails`), the stat and the unlink of `_remove_stale_lock`, the
look at the deadline, and close and unlink of `__exit__`. `UnlinksOpenFiles` is
the one thing the platforms differ in (the repository's CI runs both). `Crash`
closes the files of a process and leaves the lock file. The pid written into the
file is read by nobody and left out, as are clock jumps and the errors Windows
gives for a file whose deletion is pending.

`LockedState` reads the file, and replaces it as a whole, only with the lock;
an operation may fail with the lock held, may time out, and may die anywhere. The
file's content is the sequence of the operations whose effects it holds: a save
writes what was read with one operation added, so a lost update is a lost
element. It implements `AtomicState`, where applying an operation is one step
and returning needs the operation to be there.

### Dedupe, Router

An entry of the store is a status and an expiry; attempts, reasons and
`updated_at` are only reported. `Router` is `handle_event` in several threads:
`begin`, Hermes, `retry_call` over `send()`, `complete` or `fail`, and the `fail`
of the except clause (`abort`). With a state directory (`mode = "file"`) a store
operation is one step, with a clock reading taken before the lock was waited for,
the store outlives its processes, and `Die` ends a call anywhere. Without one
(`mode = "memory"`) an operation is what it is in the code: a scan for expired
entries, the pops, one by one, the look, the write, with other threads between
them, and `Restart` empties the dict. The mode is chosen initially and never changes.
`monotonic()` is `now - boot`; `Reboot` moves `boot`. `OperationRaises` is a lock
timeout, a file that cannot be written, or Python's complaint about a dict that
changed during the scan. `okAt`, `promised` and `until` are history for the
properties: when an event last ended well, and until when its replays are to be
acknowledged, set only when nobody else is on the event who could overwrite the
entry, and nobody about to pop it.

The second condition is there because TLC found it to be needed. In memory mode
a thread working on another event may have listed an expired claim of this event
for removal; if the callback that made the claim succeeds before the pop, its
success is popped. It needs a callback that lasts longer than the TTL.

### Cards, Service

A text is what the recognizers look at: its length and that of its first line,
the icon and heading it starts with, the label of its summary, its divider
(0 for none, else 12 to 24), and, for the properties, how many cards it is wrapped
in and whether it shows a raw error. `Card` is `FriendlyCard.render`; the set
phrases of all cards count as one length (`Wording`), and what precedes a summary
as another (`HeadSize`), so lengths are right up to those. `LooksLikeCard` follows
the code in what it finds: the label over an urgent summary is drawn with another
icon than the one looked for, while the longest divider counts as a label.
`FormatReply` is `format_friendly_reply` with its three cases and
`_fit_to_limit`, which may cut a card within its head.

`Service` is one thread per request. A callback goes through `Claim`, `AskHermes`,
`Send` (which `retry_call` repeats when it raised, and only then), `Note` and
`Answer`; every operation on the store may raise, which leads to `Abort` and a 500.
The answer takes the reply to the user only as XML, for a callback that names both
sides (`config.named`); for one that does not, which the adapter lets pass, it is
JSON that nobody is shown. `wechat` counts the tries of a callback: WeChat sends it
again, beside a running one or after it, until it hears an answer that is not an
error, and hears only the answer to its last try. The notices (`Notify` to
`SessionMessage`) make their text as the code does and share `Send`; `Result` is
what the notifier, or the plain sender, tells the caller. `Flush` and `SendQueued`
take one message from the queue at a time (`Sender` has flushes of several).
`message` follows a message: where it has been (shown, in JSON, simulated, with the
user, in the queue, or refused by a full one, which is answered as queued and leaves
the message nowhere), how many copies wait, and `spare`, which goes up with each
decision to send and down with each time it was sent or queued; a text that went out
before the transport or the lock raised, or whose answer was lost, takes nothing
from `spare`, for the sender does not know. The dedupe store is atomic and does not
expire here: its clock and its races are `Router`'s. `/simulate` is a callback whose
answer nobody at WeChat hears. The shims build a notifier of their own in another
process and make the same calls.

### OfficialTransport

The cache is two attributes, read one after the other and written one after the
other; each read and write is a step. A token is the time until which WeChat
accepts it. The transport counts from its own reading of the clock, before the
request; WeChat counts from when it issues the token. `MaxCall` bounds a call: its
two requests have timeouts of ten seconds, and `MarginAssumption` says that the
60 seconds taken off a token's life cover two calls.

WeChat keeps one token per account: when it issues another, those before it live
for `Overlap` seconds more (five minutes, by WeChat's documentation;
`OverlapAssumption` asks for two calls) and the transport is not told. It issues them
to `Fetch` and, in `IssueElsewhere`, to other processes, which have a cache of
their own, or in an answer that is lost. So a token may be cut short in a thread's
hand or in the cache. While a thread of the transport has the newer token in hand
it will replace the older one in time; `stale` marks the tokens that nobody is left to
replace: one stored after a newer one was issued, or one in the cache when the
newer went elsewhere. `TokenIsAccepted` says that messages are refused for those
alone.

### Installer

A wrapper file is absent, this version's, torn (truncated, not yet filled) or
foreign. `write_text()` truncates and fills, two steps. Nothing locks the home:
installers run beside each other, the user edits wrappers and the configuration,
and an installer dies anywhere. `Verifies` is `verify_hermes_native()`, which
looks whether wrappers exist, not what is in them. `stale` and `changed` are
history for the two properties.

## 3. What TLC checks

| run | instance | shows |
|---|---|---|
| `governor` | 2 priorities, queue of 1, capacity 1..2, 5 seconds with windows of 2, clock readings up to 1 s old, dying callers; 1.2 M states | `StatusMirrorsQueue`, `CircuitShape`, `OneOwner`, `BudgetBound`; `NothingVanishes`, `GrowthIsEarned`, `QuietPeriod`, `AnnouncedIsKept`, `QueueStaysBounded` |
| `budget` | 6 seconds with windows of 3, capacity 1, jitter | `AnyStretchBudget`: at most 2 x the ceiling in any stretch shorter than a window less `MaxLag`. The bound is tight: 2 x the ceiling is reached. `ProbeMarkIsOwned` when callers finish what they start |
| `sender` | 2 workers that may die, 2 messages, 2 priorities, flushes of 2, queue of 1, clock readings up to 1 s old, 4 seconds | `DeliveredAtMostOnce`, `NoSilentLoss`, `RefusedOnlyWhenFull`, `ReleasedUnlessMarked`, `ImplementsGovernor` |
| `locked_windows` | Windows, 2 processes, one of which dies and overstays, lock files that cannot be written, 3 operations, under fairness | `MutualExclusion`, `ImplementsAtomicState`, `WaitEnds`, `StaleLockGoes` |
| `router` | 2 threads, 2 events, TTL 1, both modes, faults, reboots; 2.6 M states | `DuplicateEndedWell`, `ReplayStaysOut` |
| `transport` | 3 threads, tokens of 11 seconds less a margin of 4, or 5 after the next was issued, here or elsewhere, calls of up to 2, 14 seconds; 2.5 M states | `TokenIsAccepted` |
| `installer` | 2 installers, 2 wrappers, any edits and crashes | `VerifiedIsInstalled`, `ForeignSurvives` |
| `service` | 2 threads, a callback sent up to twice, with or without both names, a notice, 2 attempts, all modes, short and long, raw and finished texts, a limit of 70; 3 M states | `CopiesAreEarned`, `AcknowledgedIsSettled`, `ToldWhatHappened`, `NoticeIsOneCard`, `ReplyFits` |

Each module's type invariant is checked in one of its runs.

Four runs end in a violation, each of something the repository says of itself:

| run | the code | the repository |
|---|---|---|
| `sender_flush_circuit` | `flush_queued` sends everything `flush_plan` reserved, also after the first of it opened the circuit | `docs/service-api.md:60`: flushing "cannot bypass the iLink protection circuit" |
| `sender_wedged` | a worker that dies, or whose `record_result()` times out on the lock, between its HALF_OPEN grant and the result leaves the probe mark for good: a flush in a later window, with a live message in the queue, gets nothing | `docs/message-lifecycle.md:42`: the governor "releases queued messages by priority in later windows" |
| `locked_posix_crash` | two waiters remove the stale lock of a dead process one after the other, the second one the first one's new lock | `docs/configuration.md:70`: the state directory is for "multiple workers" and "must survive process restarts" |
| `router_replay` | a replay that comes while the first callback waits for Hermes is claimed and processed as well | `docs/message-lifecycle.md:38`: "Replayed webhook events should be acknowledged without invoking Hermes again." |

More that the models show, or that was met while they were written, and that no
run is spent on:

- `record_result()` does not know whose result it gets. The late failure of an
  attempt that outlived the backoff frees the mark of a pending canary, and a
  second canary goes out.
- A `fail()` that comes after another callback of the event succeeded overwrites
  the success, and the next replay is processed.
- A message refused by a full queue is answered `queued` with `ok`
  (`sender.py:59`, `181`), and its event noted as succeeded, although it is
  nowhere (`docs/message-lifecycle.md:33` knows a reserved attempt and a queued
  message only). If the answer that carries the reply is not heard, WeChat's next try
  is acknowledged as a duplicate and the user has nothing: that is the disjunct
  "refused" of `AcknowledgedIsSettled`, without which TLC finds it violated.
  `RefusedOnlyWhenFull` and `ToldWhatHappened` say how far it goes.
- A callback that does not name both sides (`server.py:120`) is acknowledged with
  JSON whatever became of its reply: a failed delivery is then shown to nobody and
  not tried again.
- A callback gets its reply twice as a matter of course, as a message and as the
  passive answer, and the user gets a copy more for each `send()` that raised
  after the text went out; `CopiesAreEarned` says that nothing else adds one.
  `docs/failure-modes.md:27` wants a failed delivery retried with backoff, but
  `retry_call` repeats only what raises, and a transport's failure is a result.
- When the reply was simulated, or queued and then dropped, the passive answer is
  all there is; if it is lost, WeChat's next try is acknowledged as a duplicate.
- A failure reply (an urgent card of another title) is the one card
  `looks_like_friendly_card` does not recognize: through `notify_text` it would
  be wrapped again. No path of the repository sends one there. A reply that
  already looks like one passes `format_friendly_reply` unsanitized.
- A token that WeChat withdraws early stays cached until its expiry, and all
  messages fail until then: the code does not react to the errcode, and two
  processes of one account, or a fetch whose answer is lost, are enough
  (`IssueElsewhere`). So is a thread that stores the older of two tokens last. A
  lifetime below 120 seconds is outlived by the cache
  (`LifetimeAssumption`; the API gives 7200).
- A wrapper torn by an installer that died is never repaired by a run without
  `--force`, and passes the verifier when an earlier manifest is there.
- A lock file whose `os.write` failed (`governor.py:594`) stays, open in a process
  that lives on. On Windows nobody can remove it, and every operation times out until
  that process ends.
- A limit shorter than the truncation notice yields a reply longer than it
  (`formatter.py:141`).
- A recovery notice overtakes the failure notice that waits in the queue.

### Bounds

`MaxNow`, `MaxIds`, `MaxInFlight` and the sets of workers, processes, messages and
operations bound the instances and nothing else. `MaxNow` covers at least two
windows (windows of two seconds begin at 1, 3 and 5), the longest backoff and the
shortest TTL, so windows roll, circuits open and close, and deliveries expire inside
a run. A queue of one is full with one delivery. In `Sender`, `MaxIds` and
`MaxInFlight` are `Governor`'s bounds, set too high to bind: what bounds the run is
that each message is sent once. Of two messages one evicts the other, meets a full
queue, or is reserved by the flush that has the other, when it is queued between its
turns. In `Router` two callbacks at a time and two events are the least with which a thread
can disturb an event that is not its own; the TTL of one second lets claims expire
while they are processed. In `StateLock`, a call begins only when the clock will
reach its deadline; the stale age is one second and calls wait for one or two, which
the defaults (30 s and 2 s) do not, so removal by a waiting call and by a later one
are both covered. `CHECK_DEADLOCK FALSE` in the lock runs and in `transport`: when
the clock has stopped and every operation was made, nothing is left to do. In
`transport` margin and overlap are the least the assumptions allow (an overlap of
one second less breaks the property), and a token's life is long enough to be cut
short in the cache and to be replaced. `installer` has no bound but its sets. In
`service` two threads let a repeated callback, a flush and a notice meet a running
one in pairs, and two tries are one repetition; the texts are short and long, raw,
cards and replies made earlier, and at the limit of 70 one reply is cut within the
head of its card, one after it, and one fits. Their queue needs no bound: every copy
in it comes from a decision to send. Symmetry is used for workers, processes,
messages and operations that no property names, and in no run with a liveness
property.

### Fairness

`LockedState!FairSpec` is weak fairness of the waits, closes and unlinks of each
process and of the clock: processes in an operation are scheduled, and the loop of
`__enter__` looks at the clock each time round. The other modules have no liveness
property. Nothing makes WeChat repeat a callback, or anyone send, install or flush
the queue, so there is none of deliveries: `ReleasedUnlessMarked` says what a flush
gets if somebody calls it. A flush ends after `max_items` turns by the form of its
loop.

## 4. What is proved

With TLAPS, for all values of the constants allowed by the named assumptions.

`GovernorStateProofs` has a group of lemmas per operator of `GovernorState`: what
refresh, grant, append, reserve, requeue and record do to the status and the
circuit, to the queue (which deliveries come, stay and go, and why), to the
capacity and to the attempts of the window. They are about the file alone and are
used for both modules below.

`GovernorProofs`. The inductive invariant has two parts. `IInv` is the type
invariant, the agreement of status, queue and circuit (`Coherent`), HALF_OPEN only
after the circuit's end, and, without faults, that a marked probe is pending. It is
needed because `CircuitShape` alone is not inductive: that an OPEN file has an end
that the next refresh can compare, and that the queue mirrors the status *after* a
refresh pruned it, are used by every operation. `Ledger` accounts for deliveries and
counters: the ids of what is queued and of what is held are different and not above
`ids`, both sets are finite, and the capacity and the attempts of the window keep
within their bounds. `OneOwner`, `BudgetBound`, `NothingVanishes`,
`QueueStaysBounded`, `GrowthIsEarned` and `AnnouncedIsKept` follow from it and from
`Accounted`, what every step does to the two collections; cardinalities are those of
finite sets. Theorems: `TypeCorrect`, `StatusCorrect`, `CircuitCorrect`,
`ProbeMarkCorrect`, `QuietCorrect`, `LedgerKept`, `OwnerCorrect`, `BudgetCorrect`,
`NothingLost`, `QueueBounded`, `GrowthCorrect`, `AnnouncedCorrect`. They hold with
the governor enabled or not and with callers that die or not.

`StretchCorrect` is about `GovernorBudget`, whose `granted` says how many attempts had
been granted by the end of each second. The file knows only its present window, so
the invariant (`Stretches`) relates the file to that history: what was granted before
the present window was granted within `MaxLag` of its start, for the reading the
window starts with is no older; and of what was granted before it, at most one
ceiling's worth is later than `WindowSeconds - MaxLag` ago. A window is rolled only
when its successor's reading is `WindowSeconds` past its start, so its predecessor's
attempts have left the stretch by then. `granted` is a history that sums as it goes:
a record of the attempts of each second, added up over a stretch, would need an
induction over data. Only `MaxNow` is assumed to be at least 1.

Two of them could not be proved as they were first stated, for nothing in the code
demands that the configured minimum capacity is below the maximum. With a minimum
above it, a rate limit sets the capacity to the minimum and the growth stops at the
maximum, so the capacity can be below the minimum and can jump up to it: the lower
bound is `Floor`, the smaller of the two, and `GrowthIsEarned` is about growth above
the minimum.

`SenderProofs`. A worker's jobs are a sequence, and most of what can go wrong is
about who has which message. The invariant gives every job a place (worker and
index) and says that a message is in one place, queued or in a job, and then not yet
sent (`Ledger`); that a message nobody was told about is nowhere (`Fresh`); that
each step of a worker has the jobs it works on (`Staged`); and that a probe mark has
a job that is still to be recorded (`Marked`). From it: `TypeCorrect`,
`DeliveredCorrect` (for any number of workers, of any mode, whoever dies),
`RefusedCorrect`, `LossCorrect`, `ReleasedCorrect`, `ReleasedAlways`. `DistinctIds`
is an invariant of its own: the ids in the queue and with flushes are all different,
which is what makes taking *by id* out of the queue the same as taking the delivery.

`Implementation` is the refinement: every step of any number of workers is a step or a
stutter of `Governor`. The operators of the instance are those of `GovernorState`
(they are the same definitions over the same constants, which `SameRefresh`,
`SameGrants`, `SameAppend` and `SameOperations` spell out); a job that waits for its
result is a pending attempt, a probe or an ordinary one, and a delivery that a flush
took out and has not finished with is held. Per operation it is shown that exactly one
pending attempt comes (a grant) or goes (a result), that all stay when a flush gives up
its first job and the others move forward by one (a bijection between places), and
that a death lets go of some attempts and reservations (`Abandon`). Its hypothesis,
`[]WithinBounds`, is about `MaxIds` and `MaxInFlight`, which bound the counters of
`Governor` so that TLC can check it; the code has no such bounds, and every finite
beginning of a behaviour is within some.

- `LossCorrect` needs that no worker is in a dry run. A dry run that shares the
  directory with a sender takes its messages from the queue and drops them
  (`sender.py:103`); the property names no such reason.
- `ReleasedCorrect` is `ReleasedUnlessMarked`: the mark of a probe is all that can
  withhold a release that is due. It needs that the initial capacity is not 0: with a
  learned and an initial capacity of 0 no window grants anything. `ReleasedAlways` adds
  that where nobody dies in a call there is no such mark (`sender_wedged` is the run
  where somebody does), so that `ReleasedInLaterWindow` holds.

`StateLockProofs`. Exclusion is proved under `LockIsSafe`: Windows, or POSIX
where nobody dies, no pid fails to be written and no lock is kept past the stale
age. On Windows the
invariant is that a holder has the file at the path open; on POSIX that no lock
is ever found stale. `LockedIsAtomic` proves the refinement to `AtomicState` under
the same condition: what a process has read stays the file's content until it
saves it. Where `LockIsSafe` fails, `locked_posix_crash` shows what happens; types
are kept there as well (`TypeCorrect`).

`RouterProofs`. `EndedWellCorrect` and `StaysOutCorrect`, for any threads and
events, both kinds of store, faults, deaths, reboots and readings of the clock. An
entry that turns callbacks away is of a callback that ended well and ends with its
TTL (`EntryInv`), and what a scan left in the dict was not expired by the reading the
scan was made with (`Seen`). While a promise lasts its entry stands, by the clock of
the machine that is up, nobody has listed it for removal, and a call on the event
has not got as far as writing an entry (`Keeps`); whoever came in after the promise
still finds it (`Knows`). In memory mode, where threads come between the steps of an
operation, this is the argument that those steps are harmless.

`OfficialTransportProofs`. `TokensAccepted`, for any number of threads and any
clock. The two halves of the cache may come from two threads; the invariant is that
whoever wrote them, the cached expiry, with the margin added, is at most one call
too late for the cached token, if that was not cut short. A thread that finds it
ahead of its clock then has a token that outlives its own call, even if it reads the
token a second time. Of a token in the cache that was cut short and is not stale, the
invariant says that the call its successor was issued to is on its way to replace it,
and that it is accepted for longer than any call that could take it until then lasts.

`InstallerProofs`. `InstalledWhole`, for any installers and wrappers. The
invariant accounts for the wrappers (as they were written, or changed since) that
a run without a refusal is done with, and for all of them from the manifest on.
`ForeignKept` says when a wrapper that is not the bridge's may be overwritten. The look
and the write are two steps, and nothing locks the home: the invariant (`LookedAt`) is
that between them the wrapper is absent or the bridge's own, unless the installer is
forced or has been overtaken, and every change by somebody else marks as overtaken
all who are about to write that wrapper.

`ServiceProofs`. `AcknowledgedCorrect`, `TruthCorrect` and `CopiesCorrect`, for any
callbacks, notices, handlers and texts, and any number of tries and restarts. The
three properties are about calls that have ended, and are kept by what is so before:
the invariant says where the message of a call has been at each step of it
(`Stage`), that only a message that was delivered to somebody waits in the queue, and
that the handlers with a decision to send in hand are no more than the message's
spare copies (`Covered`, with the cardinalities of finite sets: `Handlers` is
finite). Where a message has been only grows, so the other handlers' stages survive
each step (`Others`), and a restart only leaves copies unused. `AcknowledgedCorrect`
says of each acknowledgement what it rests on: for a callback that names both sides the
answer is never JSON (`JsonOnly`, over the calls that are about to answer), so what is
left is a reply that is somewhere, or the full queue. `NoticeCorrect` and
`ReplyCorrect` are about the texts: for texts of any length, each text on its way out
is one that was made a step ago, and the template and `_fit_to_limit` make it
right. Both have a hypothesis on what comes in. Callers pass no card, or one card
that `looks_like_friendly_card` recognizes (a failure reply is the card it does
not); Hermes answers no card, or one reply the bridge itself made.

Only model-checked: the liveness properties `WaitEnds` and `StaleLockGoes`, which are
out of the prover's reach. Every safety property that a passing run checks is stated
by a theorem.

## 5. Not modelled

- Wording: the phrases of cards, reasons, metadata sanitising, target hashes, log
  output, the processing notice. Lengths and what is recognized are modelled.
- Unreadable or damaged state files: the code replaces the file by a move and
  never leaves half of one; what a damaged file leads to (`governor.py:433`, an
  empty queue and a closed circuit) is listed as a hazard.
- A dry-run sender that flushes another configuration's queue from the shared
  default directory counts the messages as sent (`sender.py:103`).
- Which error texts count as a rate limit (`governor.py:622`): a failure of the
  transport may be either.
- GET requests, signatures, authorization, parsing of callbacks and XML, loading
  of settings, diagnostics, the CLI, the Hermes client's HTTP call: functions or
  single calls without state that anything else depends on.
- The distribution's PowerShell and the overlay, which install and patch other
  programs, the simulator and the release script.

## 6. Plan

Done, in this order, the most important behaviour first: `GovernorState`,
`Governor`, `GovernorBudget`, `Sender`, the governor's first proofs, `StateLock`,
`LockedState`, their proofs, `Dedupe` and `Router`, `OfficialTransport` and
`Installer` with their proofs, `Cards`, and `Service` with its proofs; then the
proofs about `Router`, the deliveries and counters of `Governor`, `Sender`, and the
texts of `Service`; last the refinement of `Governor` by `Sender`, the bound over any
stretch of time, and `ForeignSurvives`. To come:

1. What `Governor`'s theorems say of the senders, without the bounds on its counters:
   `QuietPeriod`, `AnnouncedIsKept` and `AnyStretchBudget` restated over the senders'
   own state.
2. What a dry run may do to the queue it shares (`sender.py:103`): which of the reasons
   of `NoSilentLoss` has to be added, so that `LossCorrect` needs no hypothesis.
