-------------------------------- MODULE Service --------------------------------
(***************************************************************************)
(* The bridge as its callers see it: the callback handler and the service  *)
(* API (bridge/server.py), the notifier with its Cron and Guardian         *)
(* adapters (bridge/runtime/notifier.py, cron.py, guardian.py) and the     *)
(* shims that call them from other processes.                              *)
(*                                                                         *)
(* WeChat sends a callback again when no answer came in time, and hears no *)
(* answer but that to its last try.  What becomes of a message is followed *)
(* from send() to the queue, the flushes of the queue, and the user.       *)
(*                                                                         *)
(* The dedupe store is atomic and keeps what it knows until the last try   *)
(* (Router has its clock and its races).  send() has the outcomes Sender   *)
(* has, and may raise: the governor's lock times out, before or after the  *)
(* text went out.                                                          *)
(***************************************************************************)
EXTENDS Cards

CONSTANTS
    Events,         \* callbacks
    Notices,        \* calls of the API, the adapters and the shims that send a text
    Handlers,       \* threads of the server, and processes that call a shim
    Modes,          \* of "dry_run", "missing" and "transport": how texts leave
    RetryAttempts,  \* retry_attempts
    Limits,         \* the max_reply_chars to start with
    Responses,      \* what Hermes may answer
    CallerTexts,    \* what callers may want to be sent
    MaxTries,       \* how often WeChat sends a callback
    Nobody          \* not a message

\* What Hermes says, and whether the user's own text is urgent.
Response == [text : Text, ok : BOOLEAN, urgent : BOOLEAN]

Said(text, ok, urgent) == [text |-> text, ok |-> ok, urgent |-> urgent]

\* A card made elsewhere, of what this bridge would not show.
Untidy(text) == [text EXCEPT !.raw = TRUE]

ASSUME ServiceAssumption ==
    /\ IsFiniteSet(Handlers)
    /\ Modes \subseteq {"dry_run", "missing", "transport"}
    /\ RetryAttempts \in Nat \ {0}
    /\ Limits \subseteq Nat \ {0}
    /\ Responses \subseteq Response
    /\ CallerTexts \subseteq Text
    /\ MaxTries \in Nat
    /\ Nobody \notin Events \cup Notices
    /\ Events \cap Notices = {}

VARIABLES
    config,     \* [mode, limit, file, named]: file is whether the dedupe store is
                \* one; named are the callbacks that say who wrote to whom
    store,      \* event -> the status of its dedupe entry
    call,       \* handler -> what it is doing
    wechat,     \* event -> [tries, acked]
    message     \* message -> what has become of it

vars == <<config, store, call, wechat, message>>

Messages == Events \cup Notices

Steps == {"idle", "claim", "ask", "send", "note", "abort", "flush", "answer"}

\* What a call answers: the reply as XML, which the user is shown, or within JSON,
\* which nobody is; a duplicate, an error, or the result of send(): whether it is
\* well, and what the card for the local user says.
Answers == {"reply", "json", "duplicate", "error", "result", Nothing}
Told == {"simulated", "deferred", "in_queue", "failed", Nothing}

Call == [text : Text, ok : BOOLEAN, at : Steps, of : Messages \cup {Nobody},
         try : 0 .. MaxTries, attempt : 0 .. RetryAttempts,
         carded : BOOLEAN,  \* the notifier sends it, and attaches a card
         answer : Answers, told : Told]

\* Where a message has been: "refused" is before a full queue, and "json" in an
\* answer that is not shown to the user.
Places == {"answered", "json", "simulated", "user", "queue", "refused"}

Configs == [mode : Modes, limit : Limits, file : BOOLEAN, named : SUBSET Events]

TypeOK ==
    /\ config \in Configs
    /\ store \in [Events -> {"unknown", "processing", "succeeded", "failed"}]
    /\ call \in [Handlers -> Call]
    /\ wechat \in [Events -> [tries : 0 .. MaxTries, acked : BOOLEAN]]
    /\ message \in [Messages ->
            [been : SUBSET Places,
             waiting : Nat, \* copies in the queue
             spare : Int]]  \* history: decisions to send it, and deliveries that
                            \* are repeated because the sender was not told, less
                            \* the times it was sent or queued

Idle == [text |-> Blank, ok |-> FALSE, at |-> "idle", of |-> Nobody, try |-> 0,
         attempt |-> 0, carded |-> FALSE, answer |-> Nothing, told |-> Nothing]

Unsent == [been |-> {}, waiting |-> 0, spare |-> 0]

Init ==
    /\ config \in Configs
    /\ store = [e \in Events |-> "unknown"]
    /\ call = [h \in Handlers |-> Idle]
    /\ wechat = [e \in Events |-> [tries |-> 0, acked |-> FALSE]]
    /\ message = [m \in Messages |-> Unsent]

GoTo(h, step) == call' = [call EXCEPT ![h].at = step]

Say(h, answer) ==
    call' = [call EXCEPT ![h] = [@ EXCEPT !.at = "answer", !.answer = answer,
                                          !.text = Blank]]

-----------------------------------------------------------------------------
(* send() and what becomes of a message *)

Outcome(ok, told, place) == [ok |-> ok, told |-> told, place |-> place]

\* A full queue refuses a message with the result of one it takes.
Held == {Outcome(TRUE, "deferred", p) : p \in {"queue", "refused"}}

\* The transport's answer may be lost when the text is with the user.
\* Mutant: nobody looks whether the transport failed.
Attempts_Unchecked(mode) ==
    CASE mode = "dry_run" -> {Outcome(TRUE, "simulated", "simulated")}
      [] mode = "missing" -> {Outcome(FALSE, "failed", Nothing)}
      [] OTHER -> Held \cup {Outcome(TRUE, Nothing, p) : p \in {Nothing, "user"}}
Attempts(mode) ==
    CASE mode = "dry_run" -> {Outcome(TRUE, "simulated", "simulated")}
      [] mode = "missing" -> {Outcome(FALSE, "failed", Nothing)}
      [] OTHER -> Held \cup {Outcome(TRUE, Nothing, "user"),
                             Outcome(FALSE, "failed", Nothing),
                             Outcome(FALSE, "failed", "user")}

Raised(mode) ==
    {Outcome(FALSE, "raised", p) :
        p \in IF mode = "transport" THEN {Nothing, "user"} ELSE {Nothing}}

Moved(msg, place, unsure) ==
    IF place = Nothing THEN msg
    ELSE [been    |-> msg.been \cup {place},
          waiting |-> msg.waiting + IF place = "queue" THEN 1 ELSE 0,
          spare   |-> msg.spare - IF unsure /\ place = "user" THEN 0 ELSE 1]

\* retry_call repeats a send that raised, and no other.
\* Mutants: a delivery that failed is tried again, too; one attempt too many.
Repeats_OneMore(o, attempt) == o.told = "raised" /\ attempt <= RetryAttempts
Repeats_Failed(o, attempt) == ~o.ok /\ attempt < RetryAttempts
Repeats(o, attempt) == o.told = "raised" /\ attempt < RetryAttempts

\* The notifier's card takes the place of the sender's when the text is queued.
Attached(o) ==
    CASE o.told = "deferred"           -> "in_queue"
      [] ~o.ok /\ o.told = Nothing     -> "failed"
      [] OTHER                         -> o.told

\* The call of an API handler, an adapter or a shim ends with what send() says.
Result(h, o) ==
    IF o.told = "raised" THEN Say(h, "error")
    ELSE call' = [call EXCEPT ![h] =
            [@ EXCEPT !.at = "answer", !.answer = "result", !.text = Blank, !.ok = o.ok,
                      !.told = IF call[h].carded THEN Attached(o) ELSE o.told]]

Send(h) ==
    LET c == call[h]
    IN  /\ c.at = "send"
        /\ \E o \in Held \cup Attempts(config.mode) \cup Raised(config.mode) :
              /\ message' = [message EXCEPT
                                ![c.of] = Moved(@, o.place, o.told = "raised")]
              /\ CASE c.of \in Notices -> Result(h, o)
                   [] c.of \in Events /\ Repeats(o, c.attempt) ->
                        call' = [call EXCEPT ![h].attempt = @ + 1]
                   [] c.of \in Events /\ ~Repeats(o, c.attempt) ->
                        call' = [call EXCEPT ![h] =
                            [@ EXCEPT !.ok = o.ok, !.text = Blank, !.at =
                                IF o.told = "raised" THEN "abort" ELSE "note"]]
        /\ UNCHANGED <<config, store, wechat>>

-----------------------------------------------------------------------------
(* The callback: do_POST, and handle_event within it *)

\* WeChat sends the callback, whether or not an earlier try is being handled.
Callback(h, e) ==
    /\ call[h].at = "idle"
    /\ ~wechat[e].acked /\ wechat[e].tries < MaxTries
    /\ wechat' = [wechat EXCEPT ![e].tries = @ + 1]
    /\ call' = [call EXCEPT ![h] =
                    [Idle EXCEPT !.at = "claim", !.of = e, !.try = wechat'[e].tries]]
    /\ UNCHANGED <<config, store, message>>

\* Mutant: an event that was claimed is turned away as well.
IsDuplicate_Claimed(e) == store[e] # "unknown"
IsDuplicate(e) == store[e] = "succeeded"

\* Each operation on the store may raise, which is a 500 to WeChat.
Claim(h) ==
    LET e == call[h].of
    IN  /\ call[h].at = "claim"
        /\ \/ IsDuplicate(e) /\ Say(h, "duplicate") /\ UNCHANGED <<store, message>>
           \/ Say(h, "error") /\ UNCHANGED <<store, message>>
           \/ /\ ~IsDuplicate(e)
              /\ store' = [store EXCEPT ![e] = "processing"]
              /\ message' = [message EXCEPT ![e].spare = @ + 1]
              /\ GoTo(h, "ask")
        /\ UNCHANGED <<config, wechat>>

AskHermes(h) ==
    /\ call[h].at = "ask"
    /\ \/ \E r \in Responses :
             call' = [call EXCEPT ![h] =
                [@ EXCEPT !.at = "send", !.attempt = 1,
                          !.text = FormatReply(r.ok, r.text, r.urgent, config.limit)]]
       \/ GoTo(h, "abort")
    /\ UNCHANGED <<config, store, wechat, message>>

\* The reply, which is never empty, is the answer, too, whatever became of its
\* delivery: as XML if the callback names both sides, which the adapter does not
\* ask for.
Note(h) ==
    LET c == call[h]
    IN  /\ c.at = "note"
        /\ \/ /\ store' = [store EXCEPT ![c.of] = IF c.ok THEN "succeeded" ELSE "failed"]
              /\ Say(h, IF c.of \in config.named THEN "reply" ELSE "json")
           \/ GoTo(h, "abort") /\ UNCHANGED store
        /\ UNCHANGED <<config, wechat, message>>

Abort(h) ==
    /\ call[h].at = "abort"
    /\ store' \in {store, [store EXCEPT ![call[h].of] = "failed"]}
    /\ Say(h, "error")
    /\ UNCHANGED <<config, wechat, message>>

\* Where an answer takes the reply.
Shown(answer) ==
    CASE answer = "reply" -> {"answered"}
      [] answer = "json"  -> {"json"}
      [] OTHER            -> {}

\* The answer is written; WeChat may be waiting for it no more.
Answer(h) ==
    LET c == call[h]
        heard == c.of \in Events /\ c.try = wechat[c.of].tries /\ c.answer # "error"
    IN  /\ c.at = "answer"
        /\ call' = [call EXCEPT ![h] = Idle]
        /\ \/ UNCHANGED <<wechat, message>>
           \/ /\ heard
              /\ wechat' = [wechat EXCEPT ![c.of].acked = TRUE]
              /\ message' = [message EXCEPT ![c.of].been = @ \cup Shown(c.answer)]
        /\ UNCHANGED <<config, store>>

-----------------------------------------------------------------------------
(* Notices *)

Begin(h, n, text, carded) ==
    /\ message[n] = Unsent
    /\ message' = [message EXCEPT ![n].spare = 1]
    /\ call' = [call EXCEPT ![h] = [Idle EXCEPT !.at = "send", !.of = n, !.attempt = 1,
                                                !.text = text, !.carded = carded]]
    /\ UNCHANGED <<config, store, wechat>>

\* A summary, a reason or a detail is no card; a text to be sent may be one.
Details == {t \in CallerTexts : t.cards = 0}

Notify(h, n) ==
    /\ call[h].at = "idle"
    /\ \E s \in Severities, given \in Details : Begin(h, n, NoticeCard(s, given), TRUE)

NotifyText(h, n) ==
    /\ call[h].at = "idle"
    /\ \E given \in CallerTexts : Begin(h, n, EnsureCard(given, "info"), TRUE)

CronFailure(h, n) ==
    /\ call[h].at = "idle"
    /\ \E reason \in Details :
          Begin(h, n, EnsureCard(CronFailureCard(reason), "warning"), TRUE)

CronRecovery(h, n) ==
    /\ call[h].at = "idle"
    /\ \E detail \in Details :
          Begin(h, n, EnsureCard(RecoveryCard(detail), "success"), TRUE)

\* Any state that is not among the critical ones.
Incident(h, n) ==
    /\ call[h].at = "idle"
    /\ \E state \in {"down", "degraded"}, reason \in Details :
          Begin(h, n, EnsureCard(IncidentCard(state, reason), "critical"), TRUE)

GuardianRecovery(h, n) ==
    /\ call[h].at = "idle"
    /\ \E detail \in Details :
          Begin(h, n, EnsureCard(RecoveryCard(detail), "success"), TRUE)

\* The text of a session message is cut at the limit, and is not made a card.
SessionMessage(h, n) ==
    /\ call[h].at = "idle"
    /\ \E given \in CallerTexts :
          Begin(h, n, [given EXCEPT !.size = Min({@, config.limit})], FALSE)

-----------------------------------------------------------------------------
(* The queue *)

\* A flush takes a message from the queue (Sender has flushes of several) ...
Flush(h, m) ==
    /\ call[h].at = "idle"
    /\ message[m].waiting > 0
    /\ message' = [message EXCEPT ![m].waiting = @ - 1, ![m].spare = @ + 1]
    /\ call' = [call EXCEPT ![h] =
                    [Idle EXCEPT !.at = "flush", !.of = m, !.carded = TRUE]]
    /\ UNCHANGED <<config, store, wechat>>

\* ... and tries to send it: what failed is put back, and what was taken when
\* the flush raises is lost.
Flushed(msg, o) ==
    IF o.ok \/ o.told = "raised" THEN Moved(msg, o.place, FALSE)
    ELSE Moved(Moved(msg, o.place, TRUE), "queue", FALSE)

SendQueued(h) ==
    LET m == call[h].of
    IN  /\ call[h].at = "flush"
        /\ \E o \in Attempts(config.mode) \cup Raised(config.mode) :
              /\ message' = [message EXCEPT ![m] = Flushed(@, o)]
              /\ Result(h, o)
        /\ UNCHANGED <<config, store, wechat>>

\* A message expires in the queue, or makes room for another.
Forget(m) ==
    /\ message[m].waiting > 0
    /\ message' = [message EXCEPT ![m].waiting = @ - 1]
    /\ UNCHANGED <<config, store, call, wechat>>

\* The server goes down; the queue and a dedupe file stay.
Restart ==
    /\ call' = [h \in Handlers |-> Idle]
    /\ store' = IF config.file THEN store ELSE [e \in Events |-> "unknown"]
    /\ UNCHANGED <<config, wechat, message>>

Handle(h) == Claim(h) \/ AskHermes(h) \/ Send(h) \/ Note(h) \/ Abort(h) \/ Answer(h)

Warn(h, n) ==
    \/ Notify(h, n) \/ NotifyText(h, n) \/ CronFailure(h, n) \/ CronRecovery(h, n)
    \/ Incident(h, n) \/ GuardianRecovery(h, n) \/ SessionMessage(h, n)

Next ==
    \/ \E h \in Handlers :
          \/ \E e \in Events : Callback(h, e)
          \/ \E n \in Notices : Warn(h, n)
          \/ \E m \in Messages : Flush(h, m)
          \/ Handle(h) \/ SendQueued(h)
    \/ \E m \in Messages : Forget(m)
    \/ Restart

Spec == Init /\ [][Next]_vars

-----------------------------------------------------------------------------
(* Properties *)

\* A message is sent or queued once for each decision to send it: retries,
\* flushes and restarts add a copy only for one that went out without the
\* sender knowing.
CopiesAreEarned ==
    \A m \in Messages : message[m].spare >= 0

\* The reply to e was shown to the user, sent, queued or simulated.
HasReply(e) == message[e].been \cap {"answered", "user", "queue", "simulated"} # {}

\* There is one way not to be: the queue was full, and the try that could have
\* shown the reply was not heard.  A callback that does not name both sides may, in
\* addition, hear in JSON alone what became of its reply.  No other
\* acknowledgement comes without one: not to a try that found another cut short,
\* still running, or failed, through any retries and restarts.
AcknowledgedIsSettled ==
    \A e \in Events : wechat[e].acked =>
        \/ HasReply(e)
        \/ "refused" \in message[e].been
        \/ e \notin config.named /\ "json" \in message[e].been

\* Who is told that all is well, and no more, has sent a text that arrived;
\* who is told that it waits, one that was queued or refused; who is told that
\* it failed is shown a card; and an event is noted as succeeded only if its
\* reply was sent, simulated, queued or refused.
ToldWhatHappened ==
    /\ \A h \in Handlers : call[h].answer = "result" /\ call[h].of # Nobody =>
          LET told == call[h].told
              been == message[call[h].of].been
          IN  CASE told = Nothing   -> call[h].ok /\ "user" \in been
                [] told = "failed"  -> ~call[h].ok
                [] told = "simulated" -> "simulated" \in been
                [] OTHER            -> been \cap {"queue", "refused"} # {}
    /\ \A e \in Events : store[e] = "succeeded" =>
          message[e].been \ {"answered", "json"} # {}

\* What the notifier sends is one card that shows no raw error, whatever its
\* caller passed: a text, or a card made elsewhere.  (A failure reply is the
\* one card that is not recognized as such, and is wrapped again.)
NoticeIsOneCard ==
    \A h \in Handlers : call[h].at = "send" /\ call[h].carded =>
        LET text == call[h].text
        IN  LooksLikeCard(text) /\ text.cards = 1 /\ ~text.raw

\* A reply is one card, no longer than the limit if the limit has room for the
\* notice that it was cut; and formatting a reply again leaves it as it is.
ReplyFits ==
    \A h \in Handlers : call[h].at = "send" /\ call[h].of \in Events =>
        LET text == call[h].text
            limit == config.limit
        IN  /\ text.size <= limit \/ limit < NoticeSize(text.urgent)
            /\ text.cards <= 1
            /\ LooksLikeReply(text) => FormatReply(TRUE, text, FALSE, limit) = text

=============================================================================
