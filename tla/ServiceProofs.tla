----------------------------- MODULE ServiceProofs -----------------------------
(***************************************************************************)
(* What TLAPS proves of Service, for any callbacks, notices and handlers,  *)
(* whatever callers and Hermes say and however often WeChat and retry_call *)
(* try again.                                                              *)
(***************************************************************************)
EXTENDS Service, FiniteSetTheorems, TLAPS

USE ServiceAssumption

-----------------------------------------------------------------------------
(* Texts *)

LEMMA MinType ==
    ASSUME NEW a \in Nat, NEW b \in Nat
    PROVE  Min({a, b}) \in Nat
<1>1. \E x \in {a, b} : \A y \in {a, b} : x <= y
  <2>1. CASE a <= b
    BY <2>1
  <2>2. CASE b <= a
    BY <2>2
  <2> QED BY <2>1, <2>2
<1> QED BY <1>1 DEF Min

LEMMA MaxType ==
    ASSUME NEW b \in Int
    PROVE  Max({0, b}) \in Nat
<1>1. \E x \in {0, b} : \A y \in {0, b} : x >= y
  <2>1. CASE b <= 0
    BY <2>1
  <2>2. CASE b >= 0
    BY <2>2
  <2> QED BY <2>1, <2>2
<1> QED BY <1>1 DEF Max

LEMMA PlainType ==
    ASSUME NEW size \in Nat, NEW first \in Nat,
           NEW urgent \in BOOLEAN, NEW raw \in BOOLEAN
    PROVE  Plain(size, first, urgent, raw) \in Text
BY DEF Plain, Text

LEMMA BlankType == Blank \in Text
BY PlainType DEF Blank

LEMMA SizedType ==
    ASSUME NEW t \in Text, NEW size \in Nat
    PROVE  [t EXCEPT !.size = size] \in Text
BY DEF Text

LEMMA SanitizedType ==
    ASSUME NEW t \in Text
    PROVE  Sanitized(t) \in Text
<1>1. t.size \in Nat
  BY DEF Text
<1>2. Min({t.size, PieceLimit}) \in Nat
  BY <1>1, MinType DEF PieceLimit
<1>3. [t EXCEPT !.size = Min({@, PieceLimit}), !.raw = FALSE] \in Text
  BY <1>2 DEF Text
<1> QED BY <1>3, PlainType DEF Sanitized

LEMMA CardType ==
    ASSUME NEW severity, NEW heading \in Headings, NEW label \in Labels,
           NEW summary \in Nat, NEW body \in Text
    PROVE  Card(severity, heading, label, summary, body) \in Text
<1>1. SeverityIcon(severity) \in Icons
  <2>1. SeverityIcon(severity) \in {SeverityIcon(s) : s \in Severities}
    BY DEF SeverityIcon, Severities
  <2> QED BY <2>1 DEF Icons
<1>2. \A n : Divider(n) \in {0, 12, 16, 20, 24}
  BY DEF Divider
<1>3. Sanitized(body).size \in Nat /\ body.cards \in Nat /\ body.urgent \in BOOLEAN
  BY SanitizedType DEF Text
<1> HIDE DEF Divider, SeverityIcon, Sanitized, Headings, Labels, Icons
<1> QED BY <1>1, <1>2, <1>3 DEF Card, Text, Wording

LEMMA NoticeType ==
    ASSUME NEW severity, NEW body \in Text
    PROVE  NoticeCard(severity, body) \in Text
BY CardType DEF NoticeCard, Headings, Labels

LEMMA EnsureType ==
    ASSUME NEW severity, NEW t \in Text
    PROVE  EnsureCard(t, severity) \in Text
BY SanitizedType, NoticeType DEF EnsureCard

LEMMA FitType ==
    ASSUME NEW t \in Text, NEW limit \in Nat, NEW urgent \in BOOLEAN
    PROVE  Fit(t, limit, urgent) \in Text
<1>1. NoticeSize(urgent) \in Nat
  BY DEF NoticeSize
<1> DEFINE allowed == Max({0, limit - NoticeSize(urgent)})
<1>2. allowed \in Nat
  BY <1>1, MaxType
<1> HIDE DEF allowed
<1>3. allowed + NoticeSize(urgent) \in Nat /\ t.raw \in BOOLEAN /\ t.size \in Nat
  BY <1>1, <1>2 DEF Text
<1>4. Plain(allowed + NoticeSize(urgent), allowed, urgent, t.raw) \in Text
  BY <1>2, <1>3, PlainType
<1>5. [t EXCEPT !.size = allowed + NoticeSize(urgent)] \in Text
  BY <1>3, SizedType
<1>6. Fit(t, limit, urgent) =
        CASE limit <= 0                   -> Blank
          [] limit > 0 /\ t.size <= limit -> t
          [] limit > 0 /\ t.size > limit /\ allowed < HeadSize ->
               Plain(allowed + NoticeSize(urgent), allowed, urgent, t.raw)
          [] OTHER -> [t EXCEPT !.size = allowed + NoticeSize(urgent)]
  BY DEF Fit, allowed
<1> QED BY <1>4, <1>5, <1>6, BlankType

\* A reply is a text, whatever Hermes answered.
LEMMA ReplyType ==
    ASSUME NEW ok \in BOOLEAN, NEW t \in Text, NEW question \in BOOLEAN, NEW limit \in Nat
    PROVE  FormatReply(ok, t, question, limit) \in Text
<1> DEFINE said   == IF t.size = 0 THEN Plain(25, 25, FALSE, FALSE) ELSE t
           urgent == said.urgent \/ question
           detail == [said EXCEPT !.size = DetailSize(said)]
<1>1. said \in Text
  BY PlainType
<1> HIDE DEF said
<1>2. /\ urgent \in BOOLEAN /\ said.size \in Nat /\ said.first \in Nat
      /\ said.bare \in Nat
  BY <1>1 DEF Text
<1>3. DetailSize(said) \in Nat /\ SummarySize(said) \in Nat
  BY <1>2 DEF DetailSize, SummarySize
<1>4. detail \in Text
  BY <1>1, <1>3, SizedType
<1> HIDE DEF urgent, detail
<1>5. \A s \in {0, SummarySize(said)}, h \in Headings,
         b \in {said, detail}, u \in BOOLEAN :
         ReplyCard(h, u, s, b) \in Text
  BY <1>1, <1>3, <1>4, CardType DEF ReplyCard, Labels
<1>6. Fit(ReplyCard("trouble", TRUE, 0, said), limit, TRUE) \in Text
  BY <1>5, FitType DEF Headings
<1>7. Fit(said, limit, urgent) \in Text
  BY <1>1, <1>2, FitType
<1>8. Fit(ReplyCard(IF urgent THEN "confirm_safety" ELSE "conclusion", urgent,
                    SummarySize(said), detail), limit, urgent) \in Text
  BY <1>2, <1>5, FitType DEF Headings
<1>9. FormatReply(ok, t, question, limit) =
        CASE ~ok -> Fit(ReplyCard("trouble", TRUE, 0, said), limit, TRUE)
          [] ok /\ LooksLikeReply(said) -> Fit(said, limit, urgent)
          [] OTHER -> Fit(ReplyCard(IF urgent THEN "confirm_safety" ELSE "conclusion",
                                    urgent, SummarySize(said), detail), limit, urgent)
  BY DEF FormatReply, said, urgent, detail
<1> QED BY <1>6, <1>7, <1>8, <1>9

-----------------------------------------------------------------------------
(* The invariant *)

Msg == [been : SUBSET Places, waiting : Nat, spare : Int]

\* A message was with the user, in the queue, before a full one or simulated, apart
\* from the answer.
Delivered(m) == message[m].been \ {"answered", "json"} # {}

\* What a caller is told is so.
Truthful(c, been) ==
    CASE c.told = Nothing     -> c.ok /\ "user" \in been
      [] c.told = "failed"    -> ~c.ok
      [] c.told = "simulated" -> "simulated" \in been
      [] OTHER                -> been \cap {"queue", "refused"} # {}

\* What each step of a handler rests on.
Stage(h) ==
    LET c == call[h]
    IN  /\ c.at # "answer" => c.answer = Nothing
        /\ c.at \in {"claim", "ask", "note", "abort"} => c.of \in Events
        /\ c.at \in {"send", "flush"} => c.of \in Messages
        /\ c.at = "flush" => Delivered(c.of)
        /\ c.at = "note" /\ c.ok => Delivered(c.of)
        /\ c.at = "answer" /\ c.of \in Events /\ c.answer \notin {"reply", "json", "error"}
              => Delivered(c.of)
        /\ c.answer = "result" /\ c.of # Nobody
              => c.of \in Messages /\ Truthful(c, message[c.of].been)

\* The handlers that have a decision to send m in hand, and have not used it.
Working(m) == {h \in Handlers : call[h].of = m /\ call[h].at \in {"ask", "send", "flush"}}

Covered(m) == Cardinality(Working(m)) <= message[m].spare

\* What the store, WeChat and the queue know.
Known(e) ==
    /\ store[e] = "succeeded" => Delivered(e)
    /\ wechat[e].acked => message[e].been # {}

IInv ==
    /\ TypeOK
    /\ \A h \in Handlers : Stage(h)
    /\ \A m \in Messages : Covered(m) /\ (message[m].waiting > 0 => Delivered(m))
    /\ \A e \in Events : Known(e)

-----------------------------------------------------------------------------
(* Outcomes *)

Outcomes == [ok : BOOLEAN, told : {"simulated", "deferred", "failed", "raised", Nothing},
             place : {"simulated", "queue", "refused", "user", Nothing}]

LEMMA OutcomeFacts ==
    ASSUME NEW mode \in Modes, NEW o \in Held \cup Attempts(mode) \cup Raised(mode)
    PROVE  /\ o \in Outcomes
           /\ o.ok => o.told # "raised" /\ o.place # Nothing
           /\ o.told = Nothing => o.ok /\ o.place = "user"
           /\ o.told = "simulated" => o.ok /\ o.place = "simulated"
           /\ o.told = "deferred" => o.ok /\ o.place \in {"queue", "refused"}
           /\ o.told \in {"failed", "raised"} => ~o.ok /\ o.place \in {"user", Nothing}
<1> DEFINE Is(ok, told, place) == o.ok = ok /\ o.told = told /\ o.place = place
<1>1. ASSUME NEW ok, NEW told, NEW place, o = Outcome(ok, told, place)
      PROVE  o = [ok |-> ok, told |-> told, place |-> place] /\ Is(ok, told, place)
  BY <1>1 DEF Outcome
<1>2. \/ \E p \in {"queue", "refused"} : o = Outcome(TRUE, "deferred", p)
      \/ o = Outcome(TRUE, "simulated", "simulated")
      \/ o = Outcome(FALSE, "failed", Nothing)
      \/ o = Outcome(FALSE, "failed", "user")
      \/ o = Outcome(TRUE, Nothing, "user")
      \/ o = Outcome(FALSE, "raised", Nothing)
      \/ o = Outcome(FALSE, "raised", "user")
  <2>1. CASE o \in Held
    BY <2>1 DEF Held
  <2>2. CASE o \in Attempts(mode) /\ o \notin Held
    BY <2>2 DEF Attempts
  <2>3. CASE o \in Raised(mode)
    BY <2>3 DEF Raised
  <2> QED BY <2>1, <2>2, <2>3
<1> HIDE DEF Is
<1>3. \/ \E p \in {"queue", "refused"} :
            o = [ok |-> TRUE, told |-> "deferred", place |-> p] /\ Is(TRUE, "deferred", p)
      \/ o = [ok |-> TRUE, told |-> "simulated", place |-> "simulated"]
         /\ Is(TRUE, "simulated", "simulated")
      \/ o = [ok |-> FALSE, told |-> "failed", place |-> Nothing]
         /\ Is(FALSE, "failed", Nothing)
      \/ o = [ok |-> FALSE, told |-> "failed", place |-> "user"]
         /\ Is(FALSE, "failed", "user")
      \/ o = [ok |-> TRUE, told |-> Nothing, place |-> "user"]
         /\ Is(TRUE, Nothing, "user")
      \/ o = [ok |-> FALSE, told |-> "raised", place |-> Nothing]
         /\ Is(FALSE, "raised", Nothing)
      \/ o = [ok |-> FALSE, told |-> "raised", place |-> "user"]
         /\ Is(FALSE, "raised", "user")
  BY <1>1, <1>2, Zenon
<1>4. o \in Outcomes
  <2>1. ASSUME NEW ok \in BOOLEAN,
               NEW told \in {"simulated", "deferred", "failed", "raised", Nothing},
               NEW place \in {"simulated", "queue", "refused", "user", Nothing}
        PROVE  [ok |-> ok, told |-> told, place |-> place] \in Outcomes
    BY <2>1 DEF Outcomes
  <2> QED BY <1>3, <2>1
<1> QED BY <1>3, <1>4 DEF Is, Nothing

\* What is left of msg when it went to place.
Follows(msg, place, unsure, next) ==
    /\ next \in Msg
    /\ msg.been \subseteq next.been
    /\ next.been \subseteq msg.been \cup {place}
    /\ place # Nothing => place \in next.been
    /\ next.waiting > 0 => msg.waiting > 0 \/ next.been \ {"answered", "json"} # {}
    /\ next.spare >= msg.spare - 1
    /\ unsure /\ place \in {"user", Nothing} => next.spare = msg.spare

LEMMA MovedFacts ==
    ASSUME NEW msg \in Msg, NEW place \in {"simulated", "queue", "refused", "user", Nothing},
           NEW unsure \in BOOLEAN
    PROVE  Follows(msg, place, unsure, Moved(msg, place, unsure))
<1> USE DEF Follows
<1>1. CASE place = Nothing
  BY <1>1 DEF Moved, Msg, Nothing
<1>2. CASE place # Nothing
  <2> DEFINE been == msg.been \cup {place}
             waiting == msg.waiting + IF place = "queue" THEN 1 ELSE 0
             spare == msg.spare - IF unsure /\ place = "user" THEN 0 ELSE 1
  <2>1. Moved(msg, place, unsure) = [been |-> been, waiting |-> waiting, spare |-> spare]
    BY <1>2 DEF Moved
  <2>2. place \in {"simulated", "queue", "refused", "user"}
    BY <1>2 DEF Nothing
  <2>3. msg.been \in SUBSET Places /\ msg.waiting \in Nat /\ msg.spare \in Int
    BY DEF Msg
  <2>4. been \in SUBSET Places
    BY <2>2, <2>3 DEF Places
  <2>5. place \in been \ {"answered", "json"}
    BY <2>2
  <2>6. waiting \in Nat /\ spare \in Int /\ spare >= msg.spare - 1
    BY <2>3
  <2>7. [been |-> been, waiting |-> waiting, spare |-> spare] \in Msg
    BY <2>4, <2>6 DEF Msg
  <2>8. unsure /\ place \in {"user", Nothing} => spare = msg.spare
    BY <1>2, <2>3
  <2> HIDE DEF been, waiting, spare
  <2>9. msg.been \subseteq been /\ been \subseteq msg.been \cup {place}
    BY DEF been
  <2> QED BY <2>1, <2>5, <2>6, <2>7, <2>8, <2>9
<1> QED BY <1>1, <1>2

LEMMA FlushedFacts ==
    ASSUME NEW msg \in Msg, NEW mode \in Modes, NEW o \in Attempts(mode) \cup Raised(mode)
    PROVE  LET next == Flushed(msg, o)
           IN  /\ next \in Msg
               /\ msg.been \subseteq next.been
               /\ next.been \subseteq msg.been \cup {o.place, "queue"}
               /\ o.ok /\ o.place # Nothing => o.place \in next.been
               /\ next.waiting > 0 => msg.waiting > 0 \/ next.been \ {"answered", "json"} # {}
               /\ next.spare >= msg.spare - 1
<1>1. o \in Outcomes /\ (o.told = "failed" => o.place \in {"user", Nothing})
  BY OutcomeFacts
<1>2. o.ok \in BOOLEAN /\ o.place \in {"simulated", "queue", "refused", "user", Nothing}
  BY <1>1 DEF Outcomes
<1>3. CASE o.ok \/ o.told = "raised"
  <2> DEFINE next == Moved(msg, o.place, FALSE)
  <2>1. Follows(msg, o.place, FALSE, next)
    BY <1>2, MovedFacts
  <2>2. Flushed(msg, o) = next
    BY <1>3 DEF Flushed
  <2> HIDE DEF next
  <2> QED BY <2>1, <2>2 DEF Follows
<1>4. CASE ~(o.ok \/ o.told = "raised")
  <2> DEFINE tried == Moved(msg, o.place, TRUE)
  <2>1. o.told = "failed"
    BY <1>4, OutcomeFacts DEF Outcomes, Nothing
  <2>2. /\ tried \in Msg /\ msg.been \subseteq tried.been /\ tried.spare = msg.spare
        /\ tried.been \subseteq msg.been \cup {o.place}
        /\ tried.waiting > 0 => msg.waiting > 0 \/ tried.been \ {"answered", "json"} # {}
    <3>1. Follows(msg, o.place, TRUE, tried)
      BY <1>2, MovedFacts
    <3> HIDE DEF tried
    <3> QED BY <1>1, <2>1, <3>1 DEF Follows
  <2> HIDE DEF tried
  <2> DEFINE next == Moved(tried, "queue", FALSE)
  <2>3. /\ next \in Msg /\ tried.been \subseteq next.been /\ "queue" \in next.been
        /\ next.been \subseteq tried.been \cup {"queue"}
        /\ next.spare >= tried.spare - 1
    <3>1. "queue" \in {"simulated", "queue", "refused", "user", Nothing} /\ "queue" # Nothing
      BY DEF Nothing
    <3>2. Follows(tried, "queue", FALSE, next)
      BY <2>2, <3>1, MovedFacts
    <3> HIDE DEF next
    <3> QED BY <3>1, <3>2 DEF Follows
  <2>4. Flushed(msg, o) = next
    BY <1>4 DEF Flushed, tried
  <2> HIDE DEF next
  <2> QED BY <1>4, <2>2, <2>3, <2>4
<1> QED BY <1>3, <1>4

-----------------------------------------------------------------------------
(* Types *)

LEMMA IdleType == Idle \in Call /\ Unsent \in Msg
<1>1. Idle \in Call
  BY BlankType DEF Idle, Call, Steps, Answers, Told, Nothing
<1>2. Unsent \in Msg
  BY DEF Unsent, Msg
<1> QED BY <1>1, <1>2

LEMMA TypeAgain == TypeOK <=>
    /\ config \in Configs
    /\ store \in [Events -> {"unknown", "processing", "succeeded", "failed"}]
    /\ call \in [Handlers -> Call]
    /\ wechat \in [Events -> [tries : 0 .. MaxTries, acked : BOOLEAN]]
    /\ message \in [Messages -> Msg]
BY DEF TypeOK, Msg

\* A call that goes on with one of its fields changed is a call.
LEMMA CallType ==
    ASSUME NEW c \in Call
    PROVE  /\ \A at \in Steps : [c EXCEPT !.at = at] \in Call
           /\ \A answer \in Answers :
                 [c EXCEPT !.at = "answer", !.answer = answer, !.text = Blank] \in Call
           /\ \A ok \in BOOLEAN, told \in Told :
                 [c EXCEPT !.at = "answer", !.answer = "result", !.text = Blank,
                           !.ok = ok, !.told = told] \in Call
           /\ \A text \in Text :
                 [c EXCEPT !.at = "send", !.attempt = 1, !.text = text] \in Call
           /\ \A ok \in BOOLEAN, at \in Steps :
                 [c EXCEPT !.ok = ok, !.text = Blank, !.at = at] \in Call
<1> USE BlankType
<1>1. \A at \in Steps : [c EXCEPT !.at = at] \in Call
  BY DEF Call
<1>2. \A answer \in Answers :
         [c EXCEPT !.at = "answer", !.answer = answer, !.text = Blank] \in Call
  BY DEF Call, Steps
<1>3. \A ok \in BOOLEAN, told \in Told :
         [c EXCEPT !.at = "answer", !.answer = "result", !.text = Blank,
                   !.ok = ok, !.told = told] \in Call
  BY DEF Call, Steps, Answers
<1>4. \A text \in Text : [c EXCEPT !.at = "send", !.attempt = 1, !.text = text] \in Call
  <2>1. 1 \in 0 .. RetryAttempts
    OBVIOUS
  <2> QED BY <2>1 DEF Call, Steps
<1>5. \A ok \in BOOLEAN, at \in Steps :
         [c EXCEPT !.ok = ok, !.text = Blank, !.at = at] \in Call
  BY DEF Call
<1> QED BY <1>1, <1>2, <1>3, <1>4, <1>5

\* What Result answers is a call's answer.
LEMMA ResultType ==
    ASSUME call \in [Handlers -> Call], NEW h \in Handlers, NEW o \in Outcomes,
           Result(h, o)
    PROVE  call' \in [Handlers -> Call]
<1>1. CASE o.told = "raised"
  <2>1. [call[h] EXCEPT !.at = "answer", !.answer = "error", !.text = Blank] \in Call
    BY CallType, ZenonT(60) DEF Answers
  <2> QED BY <1>1, <2>1, SMTT(60) DEF Result, Say
<1>2. CASE o.told # "raised"
  <2> DEFINE told == IF call[h].carded THEN Attached(o) ELSE o.told
  <2>1. o.ok \in BOOLEAN /\ o.told \in {"simulated", "deferred", "failed", Nothing}
    BY <1>2 DEF Outcomes
  <2>2. told \in Told
    BY <2>1 DEF Attached, Told, Nothing
  <2> HIDE DEF told
  <2>3. call' = [call EXCEPT ![h] = [@ EXCEPT !.at = "answer", !.answer = "result",
                                              !.text = Blank, !.ok = o.ok, !.told = told]]
    BY <1>2 DEF Result, told
  <2> QED BY <2>1, <2>2, <2>3, CallType
<1> QED BY <1>1, <1>2

\* Every notice is sent with a text of its own (server.py 210-252, notifier.py
\* 34-97, cron.py 36-60, guardian.py 37-66).
LEMMA WarnBegins ==
    ASSUME TypeOK, NEW h \in Handlers, NEW n \in Notices, Warn(h, n)
    PROVE  \E text \in Text, carded \in BOOLEAN : Begin(h, n, text, carded)
<1>1. \A t \in CallerTexts \cup Details : t \in Text
  BY DEF Details
<1>2. CASE Notify(h, n)
  BY <1>1, <1>2, NoticeType DEF Notify
<1>3. CASE NotifyText(h, n)
  BY <1>1, <1>3, EnsureType DEF NotifyText
<1>4. CASE CronFailure(h, n)
  BY <1>1, <1>4, EnsureType, NoticeType, SanitizedType DEF CronFailure, CronFailureCard
<1>5. CASE CronRecovery(h, n)
  BY <1>1, <1>5, EnsureType, NoticeType, SanitizedType DEF CronRecovery, RecoveryCard
<1>6. CASE Incident(h, n)
  BY <1>1, <1>6, EnsureType, NoticeType, SanitizedType DEF Incident, IncidentCard
<1>7. CASE GuardianRecovery(h, n)
  BY <1>1, <1>7, EnsureType, NoticeType, SanitizedType DEF GuardianRecovery, RecoveryCard
<1>8. CASE SessionMessage(h, n)
  <2>1. PICK given \in CallerTexts :
            Begin(h, n, [given EXCEPT !.size = Min({@, config.limit})], FALSE)
    BY <1>8 DEF SessionMessage
  <2>2. given \in Text /\ given.size \in Nat /\ config.limit \in Nat
    BY <1>1 DEF TypeOK, Configs, Text
  <2>3. [given EXCEPT !.size = Min({given.size, config.limit})] \in Text
    BY <2>2, MinType, SizedType
  <2> QED BY <2>1, <2>3
<1> QED BY <1>2, <1>3, <1>4, <1>5, <1>6, <1>7, <1>8 DEF Warn

\* Every step keeps the types.
LEMMA TypeStep == IInv /\ [Next]_vars => TypeOK'
<1> SUFFICES ASSUME TypeOK, \A h \in Handlers : Stage(h), [Next]_vars PROVE TypeOK'
  BY DEF IInv
<1> DEFINE T ==
      /\ config' \in Configs
      /\ store' \in [Events -> {"unknown", "processing", "succeeded", "failed"}]
      /\ call' \in [Handlers -> Call]
      /\ wechat' \in [Events -> [tries : 0 .. MaxTries, acked : BOOLEAN]]
      /\ message' \in [Messages -> Msg]
<1>a. /\ config \in Configs
      /\ store \in [Events -> {"unknown", "processing", "succeeded", "failed"}]
      /\ call \in [Handlers -> Call]
      /\ wechat \in [Events -> [tries : 0 .. MaxTries, acked : BOOLEAN]]
      /\ message \in [Messages -> Msg]
  BY TypeAgain
<1>b. config.mode \in Modes /\ config.limit \in Nat
  BY <1>a DEF Configs
<1>0. ASSUME T PROVE TypeOK'
  BY <1>0 DEF TypeOK, Msg
<1>1. ASSUME NEW h \in Handlers, NEW e \in Events, Callback(h, e) PROVE T
  <2>1. wechat[e].tries + 1 \in 0 .. MaxTries
    BY <1>1, <1>a DEF Callback
  <2>2. wechat' \in [Events -> [tries : 0 .. MaxTries, acked : BOOLEAN]]
    BY <1>1, <1>a, <2>1 DEF Callback
  <2>3. wechat'[e].tries \in 0 .. MaxTries
    BY <2>2
  <2>4. [Idle EXCEPT !.at = "claim", !.of = e, !.try = wechat'[e].tries] \in Call
    BY <2>3, IdleType, ZenonT(60) DEF Call, Steps, Messages
  <2> QED BY <1>1, <1>a, <2>2, <2>4 DEF Callback
<1>2. ASSUME NEW h \in Handlers, Claim(h) PROVE T
  <2>1. [call[h] EXCEPT !.at = "ask"] \in Call
    BY <1>a, CallType, ZenonT(60) DEF Steps
  <2>2. \A answer \in {"duplicate", "error"} :
            [call[h] EXCEPT !.at = "answer", !.answer = answer, !.text = Blank] \in Call
    BY <1>a, CallType, ZenonT(60) DEF Answers
  <2>3. call' \in [Handlers -> Call]
    BY <1>2, <1>a, <2>1, <2>2 DEF Claim, Say, GoTo
  <2>4. store' \in [Events -> {"unknown", "processing", "succeeded", "failed"}]
    BY <1>2, <1>a DEF Claim
  <2>5. message' \in [Messages -> Msg]
    BY <1>2, <1>a DEF Claim, Msg
  <2>6. config' = config /\ wechat' = wechat
    BY <1>2 DEF Claim
  <2> QED BY <1>a, <2>3, <2>4, <2>5, <2>6
<1>3. ASSUME NEW h \in Handlers, AskHermes(h) PROVE T
  <2>1. \A r \in Responses : FormatReply(r.ok, r.text, r.urgent, config.limit) \in Text
    BY <1>b, ReplyType DEF Response
  <2>2. \A t \in Text : [call[h] EXCEPT !.at = "send", !.attempt = 1, !.text = t] \in Call
    BY <1>a, CallType, ZenonT(60)
  <2>3. [call[h] EXCEPT !.at = "abort"] \in Call
    BY <1>a, CallType, ZenonT(60) DEF Steps
  <2>4. CASE GoTo(h, "abort")
    BY <1>3, <1>a, <2>3, <2>4 DEF AskHermes, GoTo
  <2>5. CASE ~GoTo(h, "abort")
    <3>1. PICK r \in Responses :
            call' = [call EXCEPT ![h] =
                [@ EXCEPT !.at = "send", !.attempt = 1,
                          !.text = FormatReply(r.ok, r.text, r.urgent, config.limit)]]
      BY <1>3, <2>5 DEF AskHermes
    <3>2. call' \in [Handlers -> Call]
      BY <1>a, <2>1, <2>2, <3>1
    <3>3. UNCHANGED <<config, store, wechat, message>>
      BY <1>3 DEF AskHermes
    <3> QED BY <1>a, <3>2, <3>3
  <2> QED BY <2>4, <2>5
<1>4. ASSUME NEW h \in Handlers, Send(h) PROVE T
  <2> DEFINE c == call[h]
  <2>1. PICK o \in Held \cup Attempts(config.mode) \cup Raised(config.mode) :
          /\ message' = [message EXCEPT ![c.of] = Moved(@, o.place, o.told = "raised")]
          /\ CASE c.of \in Notices -> Result(h, o)
               [] c.of \in Events /\ Repeats(o, c.attempt) ->
                    call' = [call EXCEPT ![h].attempt = @ + 1]
               [] c.of \in Events /\ ~Repeats(o, c.attempt) ->
                    call' = [call EXCEPT ![h] =
                        [@ EXCEPT !.ok = o.ok, !.text = Blank, !.at =
                            IF o.told = "raised" THEN "abort" ELSE "note"]]
    BY <1>4 DEF Send
  <2>2. o \in Outcomes
    BY <1>b, OutcomeFacts
  <2>3. message' \in [Messages -> Msg]
    <3>1. /\ o.place \in {"simulated", "queue", "refused", "user", Nothing}
          /\ (o.told = "raised") \in BOOLEAN
      BY <2>2 DEF Outcomes
    <3>2. \A msg \in Msg : Moved(msg, o.place, o.told = "raised") \in Msg
      BY <3>1, MovedFacts DEF Follows
    <3> QED BY <1>a, <2>1, <3>2
  <2>4. CASE c.of \in Notices
    BY <1>a, <1>4, <2>1, <2>2, <2>3, <2>4, ResultType DEF Send
  <2>5. CASE c.of \in Events /\ Repeats(o, c.attempt)
    <3>1. c \in Call /\ c.attempt + 1 \in 0 .. RetryAttempts
      BY <1>a, <2>5 DEF Repeats, Call
    <3>2. [c EXCEPT !.attempt = c.attempt + 1] \in Call
      BY <3>1 DEF Call
    <3>3. call' = [call EXCEPT ![h] = [c EXCEPT !.attempt = c.attempt + 1]]
      BY <2>1, <2>5
    <3> QED BY <1>4, <1>a, <2>3, <3>2, <3>3 DEF Send
  <2>6. CASE c.of \in Events /\ ~Repeats(o, c.attempt)
    <3>1. \A at \in {"abort", "note"} :
              [c EXCEPT !.ok = o.ok, !.text = Blank, !.at = at] \in Call
      BY <1>a, <2>2, CallType, ZenonT(60) DEF Outcomes, Steps
    <3>2. PICK at \in {"abort", "note"} :
              call' = [call EXCEPT ![h] =
                            [c EXCEPT !.ok = o.ok, !.text = Blank, !.at = at]]
      BY <2>1, <2>6
    <3>3. call' \in [Handlers -> Call]
      BY <1>a, <3>1, <3>2
    <3>4. UNCHANGED <<config, store, wechat>>
      BY <1>4 DEF Send
    <3> QED BY <1>a, <2>3, <3>3, <3>4, SMTT(60)
  <2>7. c.of \in Notices \cup Events
    BY <1>4 DEF Send, Stage, Messages
  <2> QED BY <2>4, <2>5, <2>6, <2>7
<1>5. ASSUME NEW h \in Handlers, Note(h) PROVE T
  <2>1. /\ [call[h] EXCEPT !.at = "abort"] \in Call
        /\ \A answer \in {"reply", "json"} :
              [call[h] EXCEPT !.at = "answer", !.answer = answer, !.text = Blank] \in Call
    BY <1>a, CallType, ZenonT(60) DEF Steps, Answers
  <2>2. call' \in [Handlers -> Call]
    <3>1. PICK answer \in {"reply", "json"} : Say(h, answer) \/ GoTo(h, "abort")
      BY <1>5, Zenon DEF Note
    <3> QED BY <1>a, <2>1, <3>1 DEF Say, GoTo
  <2>3. store' \in [Events -> {"unknown", "processing", "succeeded", "failed"}]
    BY <1>5, <1>a DEF Note
  <2>4. UNCHANGED <<config, wechat, message>>
    BY <1>5, SMTT(60) DEF Note
  <2> QED BY <1>a, <2>2, <2>3, <2>4, SMTT(60)
<1>6. ASSUME NEW h \in Handlers, Abort(h) PROVE T
  <2>1. [call[h] EXCEPT !.at = "answer", !.answer = "error", !.text = Blank] \in Call
    BY <1>a, CallType, ZenonT(60) DEF Answers
  <2>2. call' \in [Handlers -> Call]
    BY <1>6, <1>a, <2>1 DEF Abort, Say
  <2>3. store' \in [Events -> {"unknown", "processing", "succeeded", "failed"}]
    BY <1>6, <1>a DEF Abort
  <2>4. UNCHANGED <<config, wechat, message>>
    BY <1>6 DEF Abort
  <2> QED BY <1>a, <2>2, <2>3, <2>4
<1>7. ASSUME NEW h \in Handlers, Answer(h) PROVE T
  <2>1. call' \in [Handlers -> Call]
    BY <1>7, <1>a, IdleType DEF Answer
  <2>2. wechat' \in [Events -> [tries : 0 .. MaxTries, acked : BOOLEAN]]
    <3>1. CASE UNCHANGED wechat
      BY <1>a, <3>1
    <3>2. CASE wechat' = [wechat EXCEPT ![call[h].of].acked = TRUE]
      BY <1>a, <3>2, ZenonT(60)
    <3> QED BY <1>7, <3>1, <3>2 DEF Answer
  <2>3. message' \in [Messages -> Msg]
    <3>1. \A m \in Messages :
            [message[m] EXCEPT !.been = message[m].been \cup Shown(call[h].answer)] \in Msg
      BY <1>a DEF Msg, Places, Shown
    <3>2. CASE UNCHANGED message
      BY <1>a, <3>2
    <3>3. CASE message' = [message EXCEPT ![call[h].of].been = @ \cup Shown(call[h].answer)]
      BY <1>a, <3>1, <3>3
    <3> QED BY <1>7, <3>2, <3>3 DEF Answer
  <2>4. UNCHANGED <<config, store>>
    BY <1>7 DEF Answer
  <2> QED BY <1>a, <2>1, <2>2, <2>3, <2>4
<1>8. ASSUME NEW h \in Handlers, NEW n \in Notices, NEW text \in Text,
             NEW carded \in BOOLEAN, Begin(h, n, text, carded)
      PROVE  T
  <2>1. [Idle EXCEPT !.at = "send", !.of = n, !.attempt = 1, !.text = text,
                     !.carded = carded] \in Call
    <3>1. 1 \in 0 .. RetryAttempts /\ n \in Messages \cup {Nobody}
      BY DEF Messages
    <3> QED BY <3>1, IdleType DEF Call, Steps
  <2>2. call' \in [Handlers -> Call]
    BY <1>8, <1>a, <2>1 DEF Begin
  <2>3. message' \in [Messages -> Msg]
    <3>1. [message[n] EXCEPT !.spare = 1] \in Msg
      BY <1>a DEF Msg, Messages
    <3> QED BY <1>8, <1>a, <3>1 DEF Begin
  <2>4. UNCHANGED <<config, store, wechat>>
    BY <1>8 DEF Begin
  <2> QED BY <1>a, <2>2, <2>3, <2>4
<1>9. ASSUME NEW h \in Handlers, NEW m \in Messages, Flush(h, m) PROVE T
  <2>1. [Idle EXCEPT !.at = "flush", !.of = m, !.carded = TRUE] \in Call
    BY IdleType DEF Call, Steps
  <2>2. call' \in [Handlers -> Call]
    BY <1>9, <1>a, <2>1 DEF Flush
  <2>3. message' \in [Messages -> Msg]
    <3>1. message[m].waiting - 1 \in Nat /\ message[m].spare + 1 \in Int
      BY <1>9, <1>a DEF Flush, Msg
    <3>2. [message[m] EXCEPT !.waiting = message[m].waiting - 1,
                             !.spare = message[m].spare + 1] \in Msg
      <4> DEFINE waiting == message[m].waiting - 1
                 spare == message[m].spare + 1
      <4>1. message[m] \in Msg /\ waiting \in Nat /\ spare \in Int
        BY <1>a, <3>1
      <4> HIDE DEF waiting, spare
      <4>2. [message[m] EXCEPT !.waiting = waiting, !.spare = spare] \in Msg
        BY <4>1 DEF Msg
      <4> QED BY <4>2 DEF waiting, spare
    <3> QED BY <1>9, <1>a, <3>2 DEF Flush
  <2>4. UNCHANGED <<config, store, wechat>>
    BY <1>9 DEF Flush
  <2> QED BY <1>a, <2>2, <2>3, <2>4
<1>10. ASSUME NEW h \in Handlers, SendQueued(h) PROVE T
  <2>1. PICK o \in Attempts(config.mode) \cup Raised(config.mode) :
          /\ message' = [message EXCEPT ![call[h].of] = Flushed(@, o)]
          /\ Result(h, o)
    BY <1>10 DEF SendQueued
  <2>2. o \in Outcomes
    BY <1>b, OutcomeFacts
  <2>3. message' \in [Messages -> Msg]
    BY <1>a, <1>b, <2>1, FlushedFacts
  <2>4. UNCHANGED <<config, store, wechat>>
    BY <1>10 DEF SendQueued
  <2> QED BY <1>a, <2>1, <2>2, <2>3, <2>4, ResultType
<1>11. ASSUME NEW m \in Messages, Forget(m) PROVE T
  <2>1. message' \in [Messages -> Msg]
    BY <1>11, <1>a DEF Forget, Msg
  <2> QED BY <1>11, <1>a, <2>1 DEF Forget
<1>12. ASSUME Restart PROVE T
  <2>1. call' \in [Handlers -> Call]
    BY <1>12, IdleType DEF Restart
  <2>2. store' \in [Events -> {"unknown", "processing", "succeeded", "failed"}]
    BY <1>12, <1>a DEF Restart
  <2>3. UNCHANGED <<config, wechat, message>>
    BY <1>12 DEF Restart
  <2> QED BY <1>a, <2>1, <2>2, <2>3
<1>13. ASSUME UNCHANGED vars PROVE T
  <2>1. UNCHANGED <<config, store, call, wechat, message>>
    BY <1>13 DEF vars
  <2> QED BY <1>a, <2>1
<1>14. ASSUME NEW h \in Handlers, NEW n \in Notices, Warn(h, n) PROVE T
  BY <1>8, <1>14, WarnBegins
<1> HIDE DEF T
<1> QED BY <1>0, <1>1, <1>2, <1>3, <1>4, <1>5, <1>6, <1>7, <1>9, <1>10, <1>11, <1>12,
           <1>13, <1>14 DEF Next, Handle

-----------------------------------------------------------------------------
(* What a step of one handler leaves to the others *)

Only(h) == \A g \in Handlers \ {h} : call'[g] = call[g]

\* Nothing is taken back of where a message has been.
Grows == \A m \in Messages : message[m].been \subseteq message'[m].been

LEMMA Others ==
    ASSUME NEW h \in Handlers, \A g \in Handlers : Stage(g), Only(h), Grows, Stage(h)'
    PROVE  \A g \in Handlers : Stage(g)'
<1> SUFFICES ASSUME NEW g \in Handlers \ {h} PROVE Stage(g)'
  OBVIOUS
<1>1. call'[g] = call[g] /\ Stage(g)
  BY DEF Only
<1>2. \A m \in Messages : Delivered(m) => Delivered(m)'
  BY DEF Grows, Delivered
<1>3. \A m \in Messages : Truthful(call[g], message[m].been)
                             => Truthful(call[g], message'[m].been)
  BY DEF Grows, Truthful
<1> QED BY <1>1, <1>2, <1>3 DEF Stage, Messages

\* The handlers at work on a message stay covered by its spare copies.
LEMMA Covers ==
    ASSUME NEW h \in Handlers, NEW m \in Messages, TypeOK, TypeOK', Only(h), Covered(m),
           \/ h \notin Working(m)' /\ message'[m].spare >= message[m].spare
           \/ h \in Working(m) /\ message'[m].spare >= message[m].spare
           \/ h \in Working(m) /\ h \notin Working(m)'
                /\ message'[m].spare >= message[m].spare - 1
           \/ message'[m].spare >= message[m].spare + 1
    PROVE  Covered(m)'
<1> DEFINE W == Working(m)
           V == Working(m)'
           s == message[m].spare
           t == message'[m].spare
<1>1. /\ W \subseteq Handlers /\ V \subseteq W \cup {h}
      /\ s \in Int /\ t \in Int /\ Cardinality(W) <= s
  BY DEF Working, Only, Covered, TypeOK
<1> HIDE DEF W, V, s, t
<1>2. /\ IsFiniteSet(W) /\ Cardinality(W) \in Nat
      /\ IsFiniteSet(W \cup {h}) /\ Cardinality(W \cup {h}) <= Cardinality(W) + 1
      /\ h \in W => Cardinality(W \ {h}) = Cardinality(W) - 1
  <2>1. IsFiniteSet(W)
    BY <1>1, FS_Subset
  <2>2. Cardinality(W) \in Nat
    BY <2>1, FS_CardinalityType
  <2>3. IsFiniteSet(W \cup {h}) /\ Cardinality(W \cup {h}) <= Cardinality(W) + 1
    <3>1. Cardinality(W \cup {h}) = IF h \in W THEN Cardinality(W) ELSE Cardinality(W) + 1
      BY <2>1, FS_AddElement
    <3> QED BY <2>1, <2>2, <3>1, FS_AddElement
  <2>4. h \in W => Cardinality(W \ {h}) = Cardinality(W) - 1
    BY <2>1, <2>2, FS_RemoveElement
  <2> QED BY <2>1, <2>2, <2>3, <2>4
<1>3. \A U : IsFiniteSet(U) /\ V \subseteq U
               => IsFiniteSet(V) /\ Cardinality(V) <= Cardinality(U)
  BY FS_Subset
<1>4. Cardinality(V) \in Nat /\ Cardinality(V) <= Cardinality(W) + 1
  BY <1>1, <1>2, <1>3, FS_CardinalityType
<1>5. V \subseteq W => Cardinality(V) <= Cardinality(W)
  BY <1>2, <1>3
<1>6. h \in W /\ h \notin V => Cardinality(V) <= Cardinality(W) - 1
  <2> SUFFICES ASSUME h \in W, h \notin V PROVE Cardinality(V) <= Cardinality(W) - 1
    OBVIOUS
  <2>1. V \subseteq W \ {h} /\ IsFiniteSet(W \ {h})
    BY <1>1, <1>2, FS_Subset
  <2> QED BY <2>1, <1>2, <1>3
<1>7. \/ V \subseteq W /\ t >= s
      \/ h \in W /\ h \notin V /\ t >= s - 1
      \/ t >= s + 1
  BY <1>1 DEF W, V, s, t
<1>8. Cardinality(V) <= t
  <2>1. Cardinality(W) \in Nat /\ Cardinality(V) \in Nat
    BY <1>2, <1>4
  <2> QED BY <1>1, <1>4, <1>5, <1>6, <1>7, <2>1
<1> QED BY <1>8 DEF Covered, V, t

Waits(m) == message[m].waiting > 0 => Delivered(m)

\* The rest of the invariant, and what follows when messages stay as they are.
Rest ==
    /\ \A g \in Handlers : Stage(g)
    /\ \A m \in Messages : Covered(m) /\ Waits(m)
    /\ \A e \in Events : Known(e)

LEMMA Same ==
    ASSUME NEW h \in Handlers, IInv, TypeOK', Only(h), UNCHANGED message, Stage(h)',
           \A m \in Messages : h \in Working(m)' => h \in Working(m),
           \A e \in Events : Known(e)'
    PROVE  Rest'
<1>1. Grows
  BY DEF Grows
<1>2. \A g \in Handlers : Stage(g)'
  BY <1>1, Others DEF IInv
<1>3. ASSUME NEW m \in Messages PROVE Covered(m)' /\ Waits(m)'
  <2>1. message'[m].spare = message[m].spare /\ message[m].spare \in Int
    BY DEF IInv, TypeOK
  <2>2. Covered(m)'
    BY <2>1, Covers DEF IInv
  <2>3. Waits(m)'
    BY DEF IInv, Waits, Delivered
  <2> QED BY <2>2, <2>3
<1> QED BY <1>2, <1>3 DEF Rest

\* ... and when one does not.
LEMMA Changed ==
    ASSUME NEW h \in Handlers, NEW m \in Messages, IInv, TypeOK', Only(h), Stage(h)',
           \A n \in Messages \ {m} : message'[n] = message[n] /\ h \notin Working(n)',
           message[m].been \subseteq message'[m].been, Covered(m)', Waits(m)',
           UNCHANGED wechat,
           \A e \in Events : store'[e] = "succeeded" => store[e] = "succeeded"
    PROVE  Rest'
<1>1. Grows
  BY DEF Grows
<1>2. \A g \in Handlers : Stage(g)'
  BY <1>1, Others DEF IInv
<1>3. ASSUME NEW n \in Messages \ {m} PROVE Covered(n)' /\ Waits(n)'
  <2>1. message'[n].spare = message[n].spare /\ message[n].spare \in Int
    BY DEF IInv, TypeOK
  <2>2. Covered(n)'
    BY <2>1, Covers DEF IInv
  <2>3. Waits(n)'
    BY DEF IInv, Waits, Delivered
  <2> QED BY <2>2, <2>3
<1>4. ASSUME NEW e \in Events PROVE Known(e)'
  BY <1>1 DEF IInv, Known, Grows, Delivered, Messages
<1> QED BY <1>2, <1>3, <1>4 DEF Rest

-----------------------------------------------------------------------------
(* The steps *)

LEMMA CallbackStep ==
    ASSUME IInv, TypeOK', NEW h \in Handlers, NEW e \in Events, Callback(h, e)
    PROVE  Rest'
<1>1. /\ call'[h].at = "claim" /\ call'[h].of = e /\ call'[h].answer = Nothing
      /\ Only(h) /\ UNCHANGED <<store, message>>
      /\ \A f \in Events : wechat'[f].acked = wechat[f].acked
  BY DEF Callback, Idle, Only, IInv, TypeOK
<1>2. Stage(h)'
  BY <1>1 DEF Stage, Nothing
<1>3. \A m \in Messages : h \notin Working(m)'
  BY <1>1 DEF Working
<1>4. \A f \in Events : Known(f)'
  BY <1>1 DEF IInv, Known, Delivered
<1> QED BY <1>1, <1>2, <1>3, <1>4, Same

\* What Say leaves of a call.
LEMMA SayFacts ==
    ASSUME call \in [Handlers -> Call], NEW h \in Handlers, NEW answer, Say(h, answer)
    PROVE  /\ Only(h) /\ call'[h].at = "answer" /\ call'[h].answer = answer
           /\ call'[h].of = call[h].of /\ call'[h].try = call[h].try
BY DEF Say, Only, Call

LEMMA GoToFacts ==
    ASSUME call \in [Handlers -> Call], NEW h \in Handlers, NEW step, GoTo(h, step)
    PROVE  /\ Only(h) /\ call'[h].at = step /\ call'[h].answer = call[h].answer
           /\ call'[h].of = call[h].of /\ call'[h].ok = call[h].ok
           /\ call'[h].told = call[h].told
BY DEF GoTo, Only, Call

\* A call that ends with an error, or with the answer that goes with it.
LEMMA SayStage ==
    ASSUME IInv, NEW h \in Handlers, NEW answer \in {"reply", "json", "duplicate", "error"},
           Say(h, answer), call[h].of \in Events,
           answer = "duplicate" => Delivered(call[h].of)'
    PROVE  Stage(h)' /\ \A m \in Messages : h \notin Working(m)'
<1>1. /\ call'[h].at = "answer" /\ call'[h].answer = answer
      /\ call'[h].of = call[h].of
  BY SayFacts DEF IInv, TypeOK
<1> QED BY <1>1 DEF Stage, Working, Nothing

LEMMA ClaimStep ==
    ASSUME IInv, TypeOK', NEW h \in Handlers, Claim(h)
    PROVE  Rest'
<1>0. PICK e \in Events : call[h].of = e
  BY DEF Claim, IInv, Stage
<1>1. /\ call \in [Handlers -> Call] /\ message \in [Messages -> Msg]
      /\ store \in [Events -> {"unknown", "processing", "succeeded", "failed"}]
      /\ call[h].at = "claim" /\ call[h].of = e /\ e \in Messages
      /\ call[h].answer = Nothing /\ UNCHANGED wechat
  BY <1>0, TypeAgain DEF Claim, IInv, Stage, Messages
<1>2. CASE /\ UNCHANGED <<store, message>>
           /\ Say(h, "error") \/ (IsDuplicate(e) /\ Say(h, "duplicate"))
  <2>1. Stage(h)' /\ Only(h) /\ \A m \in Messages : h \notin Working(m)'
    <3>1. IsDuplicate(e) => Delivered(e)'
      BY <1>1, <1>2 DEF IsDuplicate, IInv, Known, Delivered
    <3> QED BY <1>1, <1>2, <3>1, SayStage, SayFacts
  <2>2. \A f \in Events : Known(f)'
    BY <1>1, <1>2 DEF IInv, Known, Delivered
  <2> QED BY <1>2, <2>1, <2>2, Same
<1>3. CASE /\ store' = [store EXCEPT ![e] = "processing"]
           /\ message' = [message EXCEPT ![e].spare = @ + 1]
           /\ GoTo(h, "ask")
  <2>1. /\ Only(h) /\ call'[h].at = "ask" /\ call'[h].of = e
        /\ call'[h].answer = Nothing
    BY <1>1, <1>3, GoToFacts
  <2>2. /\ message'[e].been = message[e].been /\ message'[e].waiting = message[e].waiting
        /\ message'[e].spare = message[e].spare + 1
        /\ \A n \in Messages \ {e} : message'[n] = message[n]
    BY <1>1, <1>3 DEF Msg
  <2>3. Stage(h)'
    BY <1>1, <2>1 DEF Stage, Nothing
  <2>4. \A n \in Messages \ {e} : h \notin Working(n)'
    BY <2>1 DEF Working
  <2>5. Covered(e)'
    BY <1>1, <2>1, <2>2, Covers DEF IInv, Msg
  <2>6. Waits(e)'
    BY <1>1, <2>2 DEF IInv, Waits, Delivered
  <2>7. \A f \in Events : store'[f] = "succeeded" => store[f] = "succeeded"
    BY <1>1, <1>3
  <2>8. message[e].been \subseteq message'[e].been /\ UNCHANGED wechat
    BY <1>1, <2>2
  <2> QED BY <1>1, <2>1, <2>2, <2>3, <2>4, <2>5, <2>6, <2>7, <2>8, Changed
<1> QED BY <1>0, <1>1, <1>2, <1>3 DEF Claim

LEMMA AskStep ==
    ASSUME IInv, TypeOK', NEW h \in Handlers, AskHermes(h)
    PROVE  Rest'
<1>1. /\ call \in [Handlers -> Call] /\ call[h].at = "ask" /\ call[h].of \in Events
      /\ call[h].answer = Nothing /\ UNCHANGED <<store, wechat, message>>
  BY DEF AskHermes, IInv, TypeOK, Stage
<1>2. /\ Only(h) /\ call'[h].at \in {"send", "abort"} /\ call'[h].of = call[h].of
      /\ call'[h].answer = Nothing
  <2>1. CASE GoTo(h, "abort")
    BY <1>1, <2>1, GoToFacts
  <2>2. CASE \E r \in Responses :
               call' = [call EXCEPT ![h] =
                [@ EXCEPT !.at = "send", !.attempt = 1,
                          !.text = FormatReply(r.ok, r.text, r.urgent, config.limit)]]
    BY <1>1, <2>2 DEF Only, Call
  <2> QED BY <2>1, <2>2 DEF AskHermes
<1>3. Stage(h)'
  BY <1>1, <1>2 DEF Stage, Messages, Nothing
<1>4. \A m \in Messages : h \in Working(m)' => h \in Working(m)
  BY <1>1, <1>2 DEF Working
<1>5. \A f \in Events : Known(f)'
  BY <1>1 DEF IInv, Known, Delivered
<1> QED BY <1>1, <1>2, <1>3, <1>4, <1>5, Same

LEMMA NoteStep ==
    ASSUME IInv, TypeOK', NEW h \in Handlers, Note(h)
    PROVE  Rest'
<1>0. PICK e \in Events : call[h].of = e
  BY DEF Note, IInv, Stage
<1>1. /\ call \in [Handlers -> Call] /\ call[h].at = "note"
      /\ store \in [Events -> {"unknown", "processing", "succeeded", "failed"}]
      /\ call[h].answer = Nothing /\ UNCHANGED <<wechat, message>>
      /\ call[h].ok => Delivered(e)
  BY <1>0 DEF Note, IInv, TypeOK, Stage
<1>2. /\ Only(h) /\ Stage(h)' /\ \A m \in Messages : h \notin Working(m)'
  <2>1. CASE GoTo(h, "abort")
    <3>1. /\ Only(h) /\ call'[h].at = "abort" /\ call'[h].of = e
          /\ call'[h].answer = Nothing
      BY <1>0, <1>1, <2>1, GoToFacts
    <3> QED BY <3>1 DEF Stage, Working, Nothing
  <2>2. CASE \E answer \in {"reply", "json"} : Say(h, answer)
    BY <1>0, <1>1, <2>2, SayStage, SayFacts
  <2> QED BY <2>1, <2>2 DEF Note
<1>3. \A f \in Events : store'[f] = "succeeded" => store[f] = "succeeded" \/ Delivered(f)
  BY <1>0, <1>1 DEF Note
<1>4. \A f \in Events : Known(f)'
  BY <1>1, <1>3 DEF IInv, Known, Delivered
<1> QED BY <1>1, <1>2, <1>4, Same

LEMMA AbortStep ==
    ASSUME IInv, TypeOK', NEW h \in Handlers, Abort(h)
    PROVE  Rest'
<1>1. /\ call \in [Handlers -> Call] /\ call[h].of \in Events
      /\ store \in [Events -> {"unknown", "processing", "succeeded", "failed"}]
      /\ Say(h, "error") /\ UNCHANGED <<wechat, message>>
  BY DEF Abort, IInv, TypeOK, Stage
<1>2. /\ Only(h) /\ Stage(h)' /\ \A m \in Messages : h \notin Working(m)'
  BY <1>1, SayStage, SayFacts
<1>3. \A f \in Events : store'[f] = "succeeded" => store[f] = "succeeded"
  BY <1>1 DEF Abort
<1>4. \A f \in Events : Known(f)'
  BY <1>1, <1>3 DEF IInv, Known, Delivered
<1> QED BY <1>1, <1>2, <1>4, Same

\* The call of h ends with what send() says of m.
LEMMA ResultStage ==
    ASSUME call \in [Handlers -> Call], NEW h \in Handlers, NEW m \in Messages,
           call[h].of = m, NEW o \in Outcomes, Result(h, o),
           o.ok => o.told # "raised" /\ o.place # Nothing,
           o.told = Nothing => o.ok /\ o.place = "user",
           o.told = "simulated" => o.ok /\ o.place = "simulated",
           o.told = "deferred" => o.ok /\ o.place \in {"queue", "refused"},
           o.told \in {"failed", "raised"} => ~o.ok,
           o.ok /\ o.place # Nothing => o.place \in message'[m].been,
           m \in Events => Delivered(m)'
    PROVE  Only(h) /\ Stage(h)' /\ \A n \in Messages : h \notin Working(n)'
<1>1. CASE o.told = "raised"
  <2>1. Say(h, "error")
    BY <1>1 DEF Result
  <2>2. /\ Only(h) /\ call'[h].at = "answer" /\ call'[h].answer = "error"
        /\ call'[h].of = m
    BY <2>1, SayFacts
  <2> QED BY <2>2 DEF Stage, Working
<1>2. CASE o.told # "raised"
  <2> DEFINE told == IF call[h].carded THEN Attached(o) ELSE o.told
  <2>1. /\ Only(h) /\ call'[h].at = "answer" /\ call'[h].answer = "result"
        /\ call'[h].of = m /\ call'[h].ok = o.ok /\ call'[h].told = told
    <3>1. call' = [call EXCEPT ![h] = [@ EXCEPT !.at = "answer", !.answer = "result",
                                                !.text = Blank, !.ok = o.ok,
                                                !.told = told]]
      BY <1>2 DEF Result
    <3> HIDE DEF told
    <3> QED BY <3>1 DEF Only, Call
  <2>2. o.ok \in BOOLEAN /\ o.told \in {"simulated", "deferred", "failed", Nothing}
    BY <1>2 DEF Outcomes
  <2>3. /\ told = Nothing => o.ok /\ "user" \in message'[m].been
        /\ told = "failed" => ~o.ok
        /\ told = "simulated" => "simulated" \in message'[m].been
        /\ told \in {"in_queue", "deferred"}
              => message'[m].been \cap {"queue", "refused"} # {}
        /\ told \in {Nothing, "failed", "simulated", "in_queue", "deferred"}
    BY <2>2 DEF Attached, Nothing
  <2> HIDE DEF told
  <2>4. Truthful(call'[h], message'[m].been)
    BY <2>1, <2>3 DEF Truthful, Nothing
  <2> QED BY <2>1, <2>4 DEF Stage, Working
<1> QED BY <1>1, <1>2

LEMMA SendStep ==
    ASSUME IInv, TypeOK', NEW h \in Handlers, Send(h)
    PROVE  Rest'
<1>0. PICK m \in Messages : call[h].of = m
  BY DEF Send, IInv, Stage
<1>1. /\ call \in [Handlers -> Call] /\ message \in [Messages -> Msg]
      /\ call[h] \in Call /\ call[h].at = "send" /\ call[h].answer = Nothing
      /\ config.mode \in Modes
      /\ UNCHANGED <<store, wechat>>
  BY TypeAgain DEF Send, IInv, Stage, Configs
<1>2. PICK o \in Held \cup Attempts(config.mode) \cup Raised(config.mode) :
        /\ message' = [message EXCEPT ![m] = Moved(@, o.place, o.told = "raised")]
        /\ CASE m \in Notices -> Result(h, o)
             [] m \in Events /\ Repeats(o, call[h].attempt) ->
                  call' = [call EXCEPT ![h].attempt = @ + 1]
             [] m \in Events /\ ~Repeats(o, call[h].attempt) ->
                  call' = [call EXCEPT ![h] =
                      [@ EXCEPT !.ok = o.ok, !.text = Blank, !.at =
                          IF o.told = "raised" THEN "abort" ELSE "note"]]
  BY <1>0 DEF Send
<1>3. /\ o \in Outcomes
      /\ o.ok => o.told # "raised" /\ o.place # Nothing
      /\ o.told = Nothing => o.ok /\ o.place = "user"
      /\ o.told = "simulated" => o.ok /\ o.place = "simulated"
      /\ o.told = "deferred" => o.ok /\ o.place \in {"queue", "refused"}
      /\ o.told \in {"failed", "raised"} => ~o.ok /\ o.place \in {"user", Nothing}
      /\ o.ok \in BOOLEAN /\ o.place \in {"simulated", "queue", "refused", "user", Nothing}
  BY <1>1, OutcomeFacts DEF Outcomes
<1> DEFINE unsure == o.told = "raised"
           next == Moved(message[m], o.place, unsure)
<1>4. /\ message'[m] = next /\ \A n \in Messages \ {m} : message'[n] = message[n]
  BY <1>1, <1>2
<1>5. /\ message[m].been \subseteq next.been
      /\ o.place # Nothing => o.place \in next.been
      /\ next.waiting > 0 => message[m].waiting > 0 \/ next.been \ {"answered", "json"} # {}
      /\ next.spare >= message[m].spare - 1
      /\ unsure /\ o.place \in {"user", Nothing} => next.spare = message[m].spare
  <2>1. message[m] \in Msg /\ unsure \in BOOLEAN
    BY <1>1
  <2>2. o.place \in {"simulated", "queue", "refused", "user", Nothing}
    BY <1>3
  <2> HIDE DEF unsure
  <2>3. Follows(message[m], o.place, unsure, next)
    BY <2>1, <2>2, MovedFacts
  <2> HIDE DEF next
  <2> QED BY <2>3 DEF Follows
<1>6. o.ok => next.been \ {"answered", "json"} # {}
  BY <1>3, <1>5
<1> HIDE DEF next, unsure
<1>7. Waits(m)'
  BY <1>4, <1>5 DEF IInv, Waits, Delivered
<1>8. m \in Notices \/ m \in Events
  BY DEF Messages
<1>9. /\ Only(h) /\ Stage(h)' /\ (\A n \in Messages \ {m} : h \notin Working(n)')
      /\ h \notin Working(m)' \/ unsure
  <2>1. CASE m \in Notices
    <3>1. m \notin Events
      BY <2>1
    <3> QED BY <1>0, <1>1, <1>2, <1>3, <1>4, <1>5, <2>1, <3>1, ResultStage
  <2>2. CASE m \in Events /\ Repeats(o, call[h].attempt)
    <3>1. call' = [call EXCEPT ![h].attempt = @ + 1]
      BY <1>2, <2>2
    <3>2. /\ Only(h) /\ call'[h].at = "send" /\ call'[h].of = m
          /\ call'[h].answer = Nothing
      BY <1>0, <1>1, <3>1 DEF Only, Call
    <3>3. unsure
      BY <2>2 DEF Repeats, unsure
    <3> QED BY <3>2, <3>3 DEF Stage, Working, Nothing
  <2>3. CASE m \in Events /\ ~Repeats(o, call[h].attempt)
    <3>1. PICK at \in {"abort", "note"} :
            call' = [call EXCEPT ![h] = [@ EXCEPT !.ok = o.ok, !.text = Blank, !.at = at]]
      BY <1>2, <2>3
    <3>2. /\ Only(h) /\ call'[h].at \in {"abort", "note"} /\ call'[h].of = m
          /\ call'[h].answer = Nothing /\ call'[h].ok = o.ok
      BY <1>0, <1>1, <3>1 DEF Only, Call
    <3>3. o.ok => Delivered(m)'
      BY <1>4, <1>6 DEF Delivered
    <3> QED BY <2>3, <3>2, <3>3 DEF Stage, Working, Nothing
  <2> QED BY <1>8, <2>1, <2>2, <2>3
<1>10. Covered(m)'
  <2>1. h \in Working(m)
    BY <1>0, <1>1 DEF Working
  <2>2. message'[m].spare >= message[m].spare - 1
    BY <1>4, <1>5
  <2>3. message[m].spare \in Int /\ (unsure => message'[m].spare >= message[m].spare)
    BY <1>1, <1>3, <1>4, <1>5 DEF Msg, unsure
  <2> QED BY <1>9, <2>1, <2>2, <2>3, Covers DEF IInv
<1>11. message[m].been \subseteq message'[m].been
  BY <1>4, <1>5
<1>12. /\ UNCHANGED wechat
       /\ \A e \in Events : store'[e] = "succeeded" => store[e] = "succeeded"
  BY <1>1
<1> QED BY <1>4, <1>7, <1>9, <1>10, <1>11, <1>12, Changed

LEMMA SendQueuedStep ==
    ASSUME IInv, TypeOK', NEW h \in Handlers, SendQueued(h)
    PROVE  Rest'
<1>0. PICK m \in Messages : call[h].of = m
  BY DEF SendQueued, IInv, Stage
<1>1. /\ call \in [Handlers -> Call] /\ message \in [Messages -> Msg]
      /\ call[h].at = "flush" /\ Delivered(m) /\ config.mode \in Modes
      /\ UNCHANGED <<store, wechat>>
  BY <1>0, TypeAgain DEF SendQueued, IInv, Stage, Configs
<1>2. PICK o \in Attempts(config.mode) \cup Raised(config.mode) :
        message' = [message EXCEPT ![m] = Flushed(@, o)] /\ Result(h, o)
  BY <1>0 DEF SendQueued
<1>3. /\ o \in Outcomes
      /\ o.ok => o.told # "raised" /\ o.place # Nothing
      /\ o.told = Nothing => o.ok /\ o.place = "user"
      /\ o.told = "simulated" => o.ok /\ o.place = "simulated"
      /\ o.told = "deferred" => o.ok /\ o.place \in {"queue", "refused"}
      /\ o.told \in {"failed", "raised"} => ~o.ok
  BY <1>1, OutcomeFacts
<1> DEFINE next == Flushed(message[m], o)
<1>4. /\ message'[m] = next /\ \A n \in Messages \ {m} : message'[n] = message[n]
  BY <1>1, <1>2
<1>5. /\ message[m].been \subseteq next.been
      /\ o.ok /\ o.place # Nothing => o.place \in next.been
      /\ next.waiting > 0 => message[m].waiting > 0 \/ next.been \ {"answered", "json"} # {}
      /\ next.spare >= message[m].spare - 1
  BY <1>1, FlushedFacts
<1> HIDE DEF next
<1>6. Delivered(m)' /\ Waits(m)'
  BY <1>1, <1>4, <1>5 DEF Waits, Delivered
<1>7. Only(h) /\ Stage(h)' /\ \A n \in Messages : h \notin Working(n)'
  BY <1>0, <1>1, <1>2, <1>3, <1>4, <1>5, <1>6, ResultStage
<1>8. Covered(m)'
  <2>1. h \in Working(m)
    BY <1>0, <1>1 DEF Working
  <2> QED BY <1>4, <1>5, <1>7, <2>1, Covers DEF IInv
<1>9. message[m].been \subseteq message'[m].been
  BY <1>4, <1>5
<1>10. /\ UNCHANGED wechat
       /\ \A e \in Events : store'[e] = "succeeded" => store[e] = "succeeded"
  BY <1>1
<1> QED BY <1>4, <1>6, <1>7, <1>8, <1>9, <1>10, Changed

LEMMA BeginStep ==
    ASSUME IInv, TypeOK', NEW h \in Handlers, NEW n \in Notices, NEW text, NEW carded,
           Begin(h, n, text, carded)
    PROVE  Rest'
<1>1. /\ call \in [Handlers -> Call] /\ message \in [Messages -> Msg] /\ n \in Messages
      /\ UNCHANGED <<store, wechat>>
  BY TypeAgain DEF Begin, IInv, Messages
<1>2. /\ Only(h) /\ call'[h].at = "send" /\ call'[h].of = n /\ call'[h].answer = Nothing
  BY <1>1 DEF Begin, Only, Idle
<1>3. /\ message'[n].been = message[n].been /\ message'[n].waiting = message[n].waiting
      /\ message[n].spare = 0 /\ message'[n].spare = 1
      /\ \A m \in Messages \ {n} : message'[m] = message[m]
  BY <1>1 DEF Begin, Unsent, Msg
<1>4. Stage(h)'
  BY <1>1, <1>2 DEF Stage, Nothing
<1>5. \A m \in Messages \ {n} : h \notin Working(m)'
  BY <1>2 DEF Working
<1>6. Covered(n)'
  BY <1>1, <1>2, <1>3, Covers DEF IInv
<1>7. Waits(n)'
  BY <1>1, <1>3 DEF IInv, Waits, Delivered
<1>8. /\ message[n].been \subseteq message'[n].been /\ UNCHANGED wechat
      /\ \A e \in Events : store'[e] = "succeeded" => store[e] = "succeeded"
  BY <1>1, <1>3
<1> QED BY <1>1, <1>2, <1>3, <1>4, <1>5, <1>6, <1>7, <1>8, Changed

LEMMA FlushStep ==
    ASSUME IInv, TypeOK', NEW h \in Handlers, NEW m \in Messages, Flush(h, m)
    PROVE  Rest'
<1>1. /\ call \in [Handlers -> Call] /\ message \in [Messages -> Msg]
      /\ Delivered(m) /\ UNCHANGED <<store, wechat>>
  BY TypeAgain DEF Flush, IInv
<1>2. /\ Only(h) /\ call'[h].at = "flush" /\ call'[h].of = m /\ call'[h].answer = Nothing
  BY <1>1 DEF Flush, Only, Idle
<1>3. /\ message'[m].been = message[m].been
      /\ message'[m].spare = message[m].spare + 1
      /\ \A n \in Messages \ {m} : message'[n] = message[n]
  BY <1>1 DEF Flush, Msg
<1>4. Delivered(m)'
  BY <1>1, <1>3 DEF Delivered
<1>5. Stage(h)' /\ Waits(m)'
  BY <1>2, <1>4 DEF Stage, Waits, Nothing
<1>6. \A n \in Messages \ {m} : h \notin Working(n)'
  BY <1>2 DEF Working
<1>7. Covered(m)'
  BY <1>1, <1>2, <1>3, Covers DEF IInv, Msg
<1>8. /\ message[m].been \subseteq message'[m].been /\ UNCHANGED wechat
      /\ \A e \in Events : store'[e] = "succeeded" => store[e] = "succeeded"
  BY <1>1, <1>3
<1> QED BY <1>2, <1>3, <1>5, <1>6, <1>7, <1>8, Changed

LEMMA AnswerStep ==
    ASSUME IInv, TypeOK', NEW h \in Handlers, Answer(h)
    PROVE  Rest'
<1>1. /\ call \in [Handlers -> Call] /\ message \in [Messages -> Msg]
      /\ wechat \in [Events -> [tries : 0 .. MaxTries, acked : BOOLEAN]]
      /\ call[h].at = "answer" /\ UNCHANGED store
  BY TypeAgain DEF Answer, IInv
<1>2. /\ Only(h) /\ call'[h].at = "idle" /\ call'[h].of = Nobody
      /\ call'[h].answer = Nothing
  BY <1>1 DEF Answer, Only, Idle
<1>3. Stage(h)'
  BY <1>2 DEF Stage, Nothing
<1>4. \A m \in Messages : h \notin Working(m)'
  BY <1>2 DEF Working
<1>5. CASE UNCHANGED <<wechat, message>>
  <2>1. \A e \in Events : Known(e)'
    BY <1>1, <1>5 DEF IInv, Known, Delivered
  <2> QED BY <1>2, <1>3, <1>4, <1>5, <2>1, Same
<1>6. CASE ~UNCHANGED <<wechat, message>>
  <2>1. PICK e \in Events : call[h].of = e
    BY <1>6 DEF Answer
  <2>2. /\ wechat' = [wechat EXCEPT ![e].acked = TRUE]
        /\ message' = [message EXCEPT ![e].been = @ \cup Shown(call[h].answer)]
        /\ call[h].answer # "error"
    BY <1>6, <2>1 DEF Answer
  <2>3. /\ e \in Messages
        /\ \A m \in Messages : /\ message'[m].spare = message[m].spare
                               /\ message'[m].waiting = message[m].waiting
                               /\ message[m].been \subseteq message'[m].been
    BY <1>1, <2>2 DEF Msg, Messages
  <2>4. message'[e].been # {}
    <3>1. CASE call[h].answer \in {"reply", "json"}
      <4>1. Shown(call[h].answer) # {}
        BY <3>1 DEF Shown
      <4> QED BY <1>1, <2>2, <2>3, <4>1 DEF Msg
    <3>2. CASE call[h].answer \notin {"reply", "json"}
      <4>1. Delivered(e)
        BY <1>1, <2>1, <2>2, <3>2 DEF IInv, Stage
      <4> QED BY <2>3, <4>1 DEF Delivered
    <3> QED BY <3>1, <3>2
  <2>5. Grows
    BY <2>3 DEF Grows
  <2>6. \A g \in Handlers : Stage(g)'
    BY <1>2, <1>3, <2>5, Others DEF IInv
  <2>7. ASSUME NEW m \in Messages PROVE Covered(m)' /\ Waits(m)'
    <3>1. message[m].spare \in Int
      BY <1>1 DEF Msg
    <3>2. Covered(m)'
      BY <1>2, <1>4, <2>3, <3>1, Covers DEF IInv
    <3>3. Waits(m)'
      BY <2>3 DEF IInv, Waits, Delivered
    <3> QED BY <3>2, <3>3
  <2>8. ASSUME NEW f \in Events PROVE Known(f)'
    <3>1. f \in Messages /\ message[f].been \subseteq message'[f].been
      BY <2>3 DEF Messages
    <3>2. wechat'[f].acked => wechat[f].acked \/ f = e
      BY <1>1, <2>2
    <3> QED BY <1>1, <2>4, <3>1, <3>2 DEF IInv, Known, Delivered
  <2> QED BY <2>6, <2>7, <2>8 DEF Rest
<1> QED BY <1>5, <1>6

LEMMA ForgetStep ==
    ASSUME IInv, TypeOK', NEW m \in Messages, Forget(m)
    PROVE  Rest'
<1>1. /\ message \in [Messages -> Msg] /\ UNCHANGED <<store, call, wechat>>
  BY TypeAgain DEF Forget, IInv
<1>2. \A n \in Messages : /\ message'[n].spare = message[n].spare
                          /\ message'[n].been = message[n].been
                          /\ message'[n].waiting > 0 => message[n].waiting > 0
  BY <1>1 DEF Forget, Msg
<1>3. \A g \in Handlers : Stage(g)'
  BY <1>1, <1>2 DEF IInv, Stage, Truthful, Delivered, Messages
<1>4. \A n \in Messages : Working(n)' = Working(n)
  BY <1>1 DEF Working
<1>5. \A n \in Messages : Covered(n)'
  BY <1>2, <1>4 DEF IInv, Covered
<1>6. \A n \in Messages : Waits(n)'
  BY <1>2 DEF IInv, Waits, Delivered
<1>7. \A e \in Events : Known(e)'
  BY <1>1, <1>2 DEF IInv, Known, Delivered, Messages
<1> QED BY <1>3, <1>5, <1>6, <1>7 DEF Rest

\* The spare copies of the calls that are cut short are never used.
LEMMA RestartStep ==
    ASSUME IInv, TypeOK', Restart
    PROVE  Rest'
<1>1. UNCHANGED <<wechat, message>> /\ \A g \in Handlers : call'[g] = Idle
  BY DEF Restart
<1>2. \A g \in Handlers : Stage(g)'
  BY <1>1 DEF Stage, Idle, Nothing
<1>3. ASSUME NEW m \in Messages PROVE Covered(m)' /\ Waits(m)'
  <2>1. Working(m)' = {} /\ Working(m) \subseteq Handlers
    BY <1>1 DEF Working, Idle
  <2>2. Cardinality(Working(m)') = 0 /\ Cardinality(Working(m)) \in Nat
    BY <2>1, FS_EmptySet, FS_Subset, FS_CardinalityType
  <2>3. message[m].spare \in Int /\ message'[m] = message[m]
    BY <1>1 DEF IInv, TypeOK
  <2>4. Covered(m)'
    BY <2>2, <2>3 DEF IInv, Covered
  <2>5. Waits(m)'
    BY <2>3 DEF IInv, Waits, Delivered
  <2> QED BY <2>4, <2>5
<1>4. ASSUME NEW e \in Events PROVE Known(e)'
  <2>1. store'[e] = "succeeded" => store[e] = "succeeded"
    BY DEF Restart
  <2> QED BY <1>1, <2>1 DEF IInv, Known, Delivered
<1> QED BY <1>2, <1>3, <1>4 DEF Rest

LEMMA StutterStep == IInv /\ UNCHANGED vars => Rest'
<1> SUFFICES ASSUME IInv, UNCHANGED vars PROVE Rest'
  OBVIOUS
<1>1. UNCHANGED <<config, store, call, wechat, message>>
  BY DEF vars
<1>2. \A g \in Handlers : Stage(g)'
  BY <1>1 DEF IInv, Stage, Truthful, Delivered
<1>3. \A m \in Messages : Covered(m)' /\ Waits(m)'
  BY <1>1 DEF IInv, Covered, Working, Waits, Delivered
<1>4. \A e \in Events : Known(e)'
  BY <1>1 DEF IInv, Known, Delivered
<1> QED BY <1>2, <1>3, <1>4 DEF Rest

-----------------------------------------------------------------------------
(* The invariant holds *)

LEMMA InitInv == Init => IInv
<1> SUFFICES ASSUME Init PROVE IInv
  OBVIOUS
<1>1. TypeOK
  BY IdleType, TypeAgain DEF Init
<1>2. /\ \A h \in Handlers : call[h] = Idle
      /\ \A m \in Messages : message[m] = Unsent
  BY DEF Init
<1>3. \A h \in Handlers : Stage(h)
  BY <1>2 DEF Stage, Idle, Nothing
<1>4. ASSUME NEW m \in Messages
      PROVE  Covered(m) /\ (message[m].waiting > 0 => Delivered(m))
  <2>1. Working(m) = {}
    BY <1>2 DEF Working, Idle
  <2>2. message[m].spare = 0 /\ message[m].waiting = 0
    BY <1>2 DEF Unsent
  <2> QED BY <2>1, <2>2, FS_EmptySet DEF Covered
<1>5. \A e \in Events : Known(e)
  BY DEF Init, Known
<1> QED BY <1>1, <1>3, <1>4, <1>5 DEF IInv

LEMMA InvStep == IInv /\ [Next]_vars => IInv'
<1> SUFFICES ASSUME IInv, [Next]_vars PROVE IInv'
  OBVIOUS
<1>1. TypeOK'
  BY TypeStep
<1>2. ASSUME NEW h \in Handlers, NEW n \in Notices, Warn(h, n) PROVE Rest'
  <2>1. TypeOK
    BY DEF IInv
  <2>2. PICK text \in Text, carded \in BOOLEAN : Begin(h, n, text, carded)
    BY <1>2, <2>1, WarnBegins
  <2> QED BY <1>1, <2>2, BeginStep
<1>3. ASSUME NEW h \in Handlers, Handle(h) PROVE Rest'
  BY <1>1, <1>3, ClaimStep, AskStep, SendStep, NoteStep, AbortStep, AnswerStep DEF Handle
<1>4. CASE UNCHANGED vars
  BY <1>1, <1>4, StutterStep DEF IInv, Rest, Waits
<1>5. CASE Next
  <2>1. Rest'
    BY <1>1, <1>2, <1>3, <1>5, CallbackStep, FlushStep, SendQueuedStep, ForgetStep,
       RestartStep DEF Next
  <2> QED BY <1>1, <2>1 DEF IInv, Rest, Waits
<1> QED BY <1>4, <1>5

\* The invariant rests on what each handler has in hand: a decision to send is
\* used by one call at most, and a result is of a message that has been there.
THEOREM Invariant == Spec => []IInv
BY InitInv, InvStep, PTL DEF Spec

\* Whatever is called, in whatever order, with whatever outcome of a delivery,
\* the state has its types.
THEOREM TypeCorrect == Spec => []TypeOK
<1>1. IInv => TypeOK
  BY DEF IInv
<1> QED BY <1>1, Invariant, PTL

\* What a caller is told of a message, and the store of an event, is so.
THEOREM TruthCorrect == Spec => []ToldWhatHappened
<1>1. IInv => ToldWhatHappened
  BY DEF IInv, Known, Delivered, Stage, Truthful, ToldWhatHappened
<1> QED BY <1>1, Invariant, PTL

\* No message is sent or queued more often than it was decided to, retries,
\* flushes and restarts included.
THEOREM CopiesCorrect == Spec => []CopiesAreEarned
<1>1. IInv => CopiesAreEarned
  <2> SUFFICES ASSUME IInv, NEW m \in Messages PROVE message[m].spare >= 0
    BY DEF CopiesAreEarned
  <2>1. Working(m) \subseteq Handlers /\ message[m].spare \in Int
    BY DEF IInv, TypeOK, Working
  <2>2. Cardinality(Working(m)) \in Nat
    BY <2>1, FS_Subset, FS_CardinalityType
  <2> QED BY <2>1, <2>2 DEF IInv, Covered
<1> QED BY <1>1, Invariant, PTL

-----------------------------------------------------------------------------
(* What is shown *)

\* What a caller may pass: no card, or one that is recognized.
Recognized(t) == t.cards <= 1 /\ (t.cards = 1 <=> LooksLikeCard(t))

\* What Hermes may answer: no card, or a reply that the bridge made.
Repeatable(r) ==
    \/ r.text.cards = 0
    \/ r.ok /\ r.text.cards = 1 /\ LooksLikeReply(r.text)

OneCard(t) == LooksLikeCard(t) /\ t.cards = 1 /\ ~t.raw

Fits(t, limit) ==
    /\ t.size <= limit \/ limit < NoticeSize(t.urgent)
    /\ LooksLikeReply(t) => FormatReply(TRUE, t, FALSE, limit) = t

LEMMA CardLooks ==
    ASSUME NEW severity, NEW body \in Text, body.cards = 0
    PROVE  OneCard(NoticeCard(severity, body))
<1> DEFINE card == NoticeCard(severity, body)
<1>1. /\ card.label = "current" /\ card.cards = body.cards + 1 /\ card.raw = FALSE
      /\ card.icon = SeverityIcon(severity)
      /\ \E n : card.divider = Divider(n)
  BY DEF NoticeCard, Card
<1>2. SeverityIcon(severity) \in Icons
  <2>1. SeverityIcon(severity) \in {SeverityIcon(s) : s \in Severities}
    BY DEF SeverityIcon, Severities
  <2> QED BY <2>1 DEF Icons
<1>3. card.divider > 0
  BY <1>1 DEF Divider
<1>4. card = NoticeCard(severity, body)
  BY DEF card
<1> HIDE DEF card
<1>5. OneCard(card)
  BY <1>1, <1>2, <1>3 DEF OneCard, LooksLikeCard
<1> QED BY <1>4, <1>5

\* What is cleaned is what it was, but for the raw error; nothing is left of
\* what was empty.
LEMMA CleanLooks ==
    ASSUME NEW t \in Text, Recognized(t)
    PROVE  /\ Sanitized(t) \in Text /\ Recognized(Sanitized(t)) /\ ~Sanitized(t).raw
           /\ t.cards = 0 => Sanitized(t).cards = 0
<1>1. Sanitized(t) \in Text
  BY SanitizedType
<1>2. CASE t.size = 0
  BY <1>1, <1>2 DEF Sanitized, Plain, Recognized, LooksLikeCard
<1>3. CASE t.size # 0
  <2>1. /\ Sanitized(t).cards = t.cards /\ Sanitized(t).icon = t.icon
        /\ Sanitized(t).heading = t.heading /\ Sanitized(t).label = t.label
        /\ Sanitized(t).divider = t.divider /\ Sanitized(t).raw = FALSE
    BY <1>3 DEF Sanitized, Text
  <2> QED BY <1>1, <2>1 DEF Recognized, LooksLikeCard
<1> QED BY <1>2, <1>3

LEMMA EnsureLooks ==
    ASSUME NEW severity, NEW t \in Text, Recognized(t)
    PROVE  OneCard(EnsureCard(t, severity))
<1> DEFINE clean == Sanitized(t)
<1>1. clean \in Text /\ Recognized(clean) /\ ~clean.raw
  BY CleanLooks
<1>2. EnsureCard(t, severity) =
         IF LooksLikeCard(clean) THEN clean ELSE NoticeCard(severity, clean)
  BY DEF EnsureCard, clean
<1> HIDE DEF clean
<1>3. CASE LooksLikeCard(clean)
  BY <1>1, <1>2, <1>3 DEF OneCard, Recognized
<1>4. CASE ~LooksLikeCard(clean)
  <2>1. clean.cards = 0
    BY <1>1, <1>4 DEF Recognized, Text
  <2> QED BY <1>1, <1>2, <1>4, <2>1, CardLooks
<1> QED BY <1>3, <1>4

\* A card with a detail in it is kept as it is.
LEMMA DetailLooks ==
    ASSUME NEW severity, NEW other, NEW t \in Text, Recognized(t), t.cards = 0
    PROVE  OneCard(EnsureCard(NoticeCard(severity, Sanitized(t)), other))
<1>1. Sanitized(t) \in Text /\ Sanitized(t).cards = 0
  BY CleanLooks
<1>2. NoticeCard(severity, Sanitized(t)) \in Text
  BY <1>1, NoticeType
<1>3. Recognized(NoticeCard(severity, Sanitized(t)))
  BY <1>1, CardLooks DEF Recognized, OneCard
<1> QED BY <1>2, <1>3, EnsureLooks

LEMMA WarnLooks ==
    ASSUME \A t \in CallerTexts : Recognized(t),
           TypeOK, NEW h \in Handlers, NEW n \in Notices, Warn(h, n)
    PROVE  \E text \in Text, carded \in BOOLEAN :
              Begin(h, n, text, carded) /\ (carded => OneCard(text))
<1>1. \A t \in CallerTexts : t \in Text /\ Recognized(t)
  OBVIOUS
<1>2. \A t \in Details : t \in Text /\ Recognized(t) /\ t.cards = 0
  BY <1>1 DEF Details
<1>3. CASE Notify(h, n)
  BY <1>2, <1>3, NoticeType, CardLooks DEF Notify
<1>4. CASE NotifyText(h, n)
  BY <1>1, <1>4, EnsureType, EnsureLooks DEF NotifyText
<1>5. CASE CronFailure(h, n)
  BY <1>2, <1>5, EnsureType, NoticeType, SanitizedType, DetailLooks
  DEF CronFailure, CronFailureCard
<1>6. CASE CronRecovery(h, n)
  BY <1>2, <1>6, EnsureType, NoticeType, SanitizedType, DetailLooks
  DEF CronRecovery, RecoveryCard
<1>7. CASE Incident(h, n)
  BY <1>2, <1>7, EnsureType, NoticeType, SanitizedType, DetailLooks
  DEF Incident, IncidentCard
<1>8. CASE GuardianRecovery(h, n)
  BY <1>2, <1>8, EnsureType, NoticeType, SanitizedType, DetailLooks
  DEF GuardianRecovery, RecoveryCard
<1>9. CASE SessionMessage(h, n)
  <2>1. PICK given \in CallerTexts :
            Begin(h, n, [given EXCEPT !.size = Min({@, config.limit})], FALSE)
    BY <1>9 DEF SessionMessage
  <2>2. given \in Text /\ given.size \in Nat /\ config.limit \in Nat
    BY <1>1 DEF TypeOK, Configs, Text
  <2>3. [given EXCEPT !.size = Min({given.size, config.limit})] \in Text
    BY <2>2, MinType, SizedType
  <2> QED BY <2>1, <2>3
<1> QED BY <1>3, <1>4, <1>5, <1>6, <1>7, <1>8, <1>9 DEF Warn

\* A text that was made to fit has as many cards as before or none, is no longer
\* than the limit, and fits again.
LEMMA FitFits ==
    ASSUME NEW t \in Text, t.size > 0, NEW limit \in Nat \ {0}, NEW urgent \in BOOLEAN
    PROVE  LET text == Fit(t, limit, urgent)
           IN  Fits(text, limit) /\ text.cards <= t.cards
<1> DEFINE text == Fit(t, limit, urgent)
           allowed == Max({0, limit - NoticeSize(urgent)})
<1>1. NoticeSize(urgent) \in Nat \ {0}
  BY DEF NoticeSize
<1>2. /\ allowed \in Nat
      /\ limit >= NoticeSize(urgent) => allowed + NoticeSize(urgent) = limit
      /\ limit <= NoticeSize(urgent) => allowed = 0
  <2>1. CASE limit - NoticeSize(urgent) >= 0
    <3>1. \A x : x = CHOOSE y \in {0, limit - NoticeSize(urgent)} :
                        \A z \in {0, limit - NoticeSize(urgent)} : y >= z
                 => x = limit - NoticeSize(urgent)
      BY <1>1, <2>1
    <3> QED BY <1>1, <2>1, <3>1 DEF Max
  <2>2. CASE limit - NoticeSize(urgent) < 0
    <3>1. \A x : x = CHOOSE y \in {0, limit - NoticeSize(urgent)} :
                        \A z \in {0, limit - NoticeSize(urgent)} : y >= z
                 => x = 0
      BY <1>1, <2>2
    <3> QED BY <1>1, <2>2, <3>1 DEF Max
  <2> QED BY <1>1, <2>1, <2>2
<1>3. t.cards \in Nat /\ t.size \in Nat /\ t.raw \in BOOLEAN
  BY DEF Text
<1>4. /\ t.size <= limit => text = t
      /\ t.size > limit /\ allowed < HeadSize =>
            text = Plain(allowed + NoticeSize(urgent), allowed, urgent, t.raw)
      /\ t.size > limit /\ ~(allowed < HeadSize) =>
            text = [t EXCEPT !.size = allowed + NoticeSize(urgent)]
  <2>1. limit > 0 /\ ~(limit <= 0) /\ (t.size > limit <=> ~(t.size <= limit))
    BY <1>3
  <2> QED BY <2>1, Zenon DEF Fit, text, allowed
<1> SUFFICES Fits(text, limit) /\ text.cards <= t.cards
  BY DEF text
<1> HIDE DEF text, allowed
<1>5. ASSUME NEW x \in Text, NEW u \in BOOLEAN, x.size <= limit
      PROVE  Fit(x, limit, u) = x
  <2>1. limit > 0 /\ ~(limit <= 0) /\ ~(x.size > limit)
    BY <1>5 DEF Text
  <2> QED BY <1>5, <2>1, Zenon DEF Fit
<1>6. ASSUME text \in Text, 0 < text.size, text.size <= limit
      PROVE  Fits(text, limit)
  <2>1. text.urgent \in BOOLEAN
    BY <1>6 DEF Text
  <2>2. ASSUME LooksLikeReply(text)
        PROVE  FormatReply(TRUE, text, FALSE, limit) = Fit(text, limit, text.urgent)
    <3>1. text.size # 0 /\ (text.urgent \/ FALSE) = text.urgent
      BY <1>6, <2>1
    <3> QED BY <2>2, <3>1, Zenon DEF FormatReply
  <2> QED BY <1>5, <1>6, <2>1, <2>2 DEF Fits
<1>7. CASE t.size <= limit
  BY <1>3, <1>4, <1>6, <1>7
<1>8. CASE t.size > limit /\ allowed < HeadSize
  <2>1. /\ text.size = allowed + NoticeSize(urgent) /\ text.urgent = urgent
        /\ text.cards = 0 /\ text.divider = 0
    BY <1>4, <1>8 DEF Plain
  <2> QED BY <1>1, <1>2, <1>3, <2>1 DEF Fits, LooksLikeReply
<1>9. CASE t.size > limit /\ ~(allowed < HeadSize)
  <2>1. text = [t EXCEPT !.size = allowed + NoticeSize(urgent)]
    BY <1>4, <1>9
  <2>2. text \in Text /\ text.size = limit /\ text.cards = t.cards
    BY <1>1, <1>2, <1>3, <1>9, <2>1, SizedType DEF HeadSize, Text
  <2> QED BY <1>3, <1>6, <2>2
<1> QED BY <1>2, <1>3, <1>7, <1>8, <1>9

LEMMA ReplyFacts ==
    ASSUME NEW r \in Response, NEW limit \in Nat \ {0}
    PROVE  LET text == FormatReply(r.ok, r.text, r.urgent, limit)
           IN  Fits(text, limit) /\ (Repeatable(r) => text.cards <= 1)
<1> DEFINE said   == IF r.text.size = 0 THEN Plain(25, 25, FALSE, FALSE) ELSE r.text
           urgent == said.urgent \/ r.urgent
           detail == [said EXCEPT !.size = DetailSize(said)]
<1>1. r.ok \in BOOLEAN /\ r.urgent \in BOOLEAN /\ r.text \in Text
  BY DEF Response
<1>2. said \in Text /\ said.size > 0 /\ said.cards <= r.text.cards
  BY <1>1, PlainType DEF Plain, Text
<1>3. LooksLikeReply(r.text) /\ r.text.size # 0 => LooksLikeReply(said)
  OBVIOUS
<1>4. r.text.size = 0 => said.cards = 0
  BY DEF Plain
<1>5. r.text.size # 0 => said = r.text
  OBVIOUS
<1> HIDE DEF said
<1>6. /\ urgent \in BOOLEAN /\ said.size \in Nat /\ said.first \in Nat
      /\ said.cards \in Nat /\ said.bare \in Nat
  BY <1>1, <1>2 DEF Text
<1>7. DetailSize(said) \in Nat /\ SummarySize(said) \in Nat
  BY <1>6 DEF DetailSize, SummarySize
<1>8. detail \in Text /\ detail.cards = said.cards
  BY <1>2, <1>7, SizedType DEF Text
<1> HIDE DEF urgent, detail
<1>9. ASSUME NEW s \in {0, SummarySize(said)}, NEW x \in Headings,
             NEW b \in {said, detail}, NEW u \in BOOLEAN
      PROVE  /\ ReplyCard(x, u, s, b) \in Text /\ ReplyCard(x, u, s, b).size > 0
             /\ ReplyCard(x, u, s, b).cards = said.cards + 1
  <2>1. b \in Text /\ b.cards = said.cards /\ s \in Nat
    BY <1>2, <1>7, <1>8
  <2>2. ReplyCard(x, u, s, b) \in Text
    BY <2>1, CardType DEF ReplyCard, Labels
  <2>3. Sanitized(b).size \in Nat
    BY <2>1, SanitizedType DEF Text
  <2>4. /\ ReplyCard(x, u, s, b).size = 60 + s + Sanitized(b).size
        /\ ReplyCard(x, u, s, b).cards = b.cards + 1
    BY DEF ReplyCard, Card, Wording
  <2> QED BY <2>1, <2>2, <2>3, <2>4
<1>10. FormatReply(r.ok, r.text, r.urgent, limit) =
         CASE ~r.ok -> Fit(ReplyCard("trouble", TRUE, 0, said), limit, TRUE)
           [] r.ok /\ LooksLikeReply(said) -> Fit(said, limit, urgent)
           [] OTHER -> Fit(ReplyCard(IF urgent THEN "confirm_safety" ELSE "conclusion",
                                     urgent, SummarySize(said), detail), limit, urgent)
  BY DEF FormatReply, said, urgent, detail
<1>11. CASE ~r.ok
  <2> DEFINE card == ReplyCard("trouble", TRUE, 0, said)
             text == Fit(card, limit, TRUE)
  <2>1. card \in Text /\ card.size > 0 /\ card.cards = said.cards + 1
    BY <1>9 DEF Headings
  <2>2. FormatReply(r.ok, r.text, r.urgent, limit) = text
    BY <1>10, <1>11
  <2>3. Repeatable(r) => said.cards = 0
    BY <1>4, <1>5, <1>11 DEF Repeatable
  <2> HIDE DEF card
  <2>4. Fits(text, limit) /\ text.cards <= card.cards
    BY <2>1, FitFits
  <2>5. text \in Text
    BY <2>1, FitType
  <2>6. text.cards \in Nat /\ card.cards \in Nat
    BY <2>1, <2>5 DEF Text
  <2> HIDE DEF text
  <2> QED BY <1>6, <2>1, <2>2, <2>3, <2>4, <2>6
<1>12. CASE r.ok /\ LooksLikeReply(said)
  <2>1. FormatReply(r.ok, r.text, r.urgent, limit) = Fit(said, limit, urgent)
    BY <1>10, <1>12
  <2>2. Repeatable(r) => said.cards <= 1
    BY <1>4, <1>5 DEF Repeatable
  <2>3. Fits(Fit(said, limit, urgent), limit)
        /\ Fit(said, limit, urgent).cards <= said.cards
    BY <1>2, <1>6, FitFits
  <2>4. Fit(said, limit, urgent) \in Text
    BY <1>2, <1>6, FitType
  <2> QED BY <1>6, <2>1, <2>2, <2>3, <2>4 DEF Text
<1>13. CASE r.ok /\ ~LooksLikeReply(said)
  <2> DEFINE card == ReplyCard(IF urgent THEN "confirm_safety" ELSE "conclusion",
                               urgent, SummarySize(said), detail)
  <2>1. card \in Text /\ card.size > 0 /\ card.cards = said.cards + 1
    BY <1>6, <1>9 DEF Headings
  <2>2. FormatReply(r.ok, r.text, r.urgent, limit) = Fit(card, limit, urgent)
    BY <1>10, <1>13
  <2>3. Repeatable(r) => said.cards = 0
    BY <1>4, <1>5, <1>13 DEF Repeatable
  <2> HIDE DEF card
  <2>4. Fits(Fit(card, limit, urgent), limit)
        /\ Fit(card, limit, urgent).cards <= card.cards
    BY <1>6, <2>1, FitFits
  <2>5. Fit(card, limit, urgent) \in Text
    BY <1>6, <2>1, FitType
  <2>6. Fit(card, limit, urgent).cards \in Nat /\ card.cards \in Nat
    BY <2>1, <2>5 DEF Text
  <2> QED BY <1>6, <2>1, <2>2, <2>3, <2>4, <2>6
<1> QED BY <1>1, <1>11, <1>12, <1>13

LEMMA ResultAnswers ==
    ASSUME TypeOK, NEW h \in Handlers, NEW o, Result(h, o)
    PROVE  Only(h) /\ call'[h].at = "answer" /\ call'[h].answer # "json"
<1>1. call \in [Handlers -> Call]
  BY TypeAgain
<1>2. CASE o.told = "raised"
  BY <1>1, <1>2, SayFacts DEF Result
<1>3. CASE o.told # "raised"
  <2>1. \E ok, told :
           call' = [call EXCEPT ![h] = [@ EXCEPT !.at = "answer", !.answer = "result",
                                                 !.text = Blank, !.ok = ok, !.told = told]]
    BY <1>3, ZenonT(60) DEF Result
  <2> QED BY <1>1, <2>1 DEF Only, Call
<1> QED BY <1>2, <1>3

\* send() ends the call of a notice; that of a callback goes on.
LEMMA SendCases ==
    ASSUME IInv, NEW h \in Handlers, Send(h)
    PROVE  /\ Only(h) /\ call[h].at = "send"
           /\ \/ call'[h].at \in {"abort", "note"}
              \/ call'[h].at = "answer" /\ call'[h].answer # "json"
              \/ /\ call'[h].of = call[h].of /\ call'[h].text = call[h].text
                 /\ call'[h].carded = call[h].carded /\ call'[h].at = "send"
<1>1. call \in [Handlers -> Call] /\ call[h].at = "send"
  BY TypeAgain DEF IInv, Send
<1>2. call[h].of \in Events \cup Notices
  BY <1>1 DEF IInv, Stage, Messages
<1>3. \/ \E o : Result(h, o)
      \/ call' = [call EXCEPT ![h].attempt = @ + 1]
      \/ \E ok : \E at \in {"abort", "note"} :
            call' = [call EXCEPT ![h] = [@ EXCEPT !.ok = ok, !.text = Blank, !.at = at]]
  <2>1. PICK o : CASE call[h].of \in Notices -> Result(h, o)
                   [] call[h].of \in Events /\ Repeats(o, call[h].attempt) ->
                        call' = [call EXCEPT ![h].attempt = @ + 1]
                   [] call[h].of \in Events /\ ~Repeats(o, call[h].attempt) ->
                        call' = [call EXCEPT ![h] =
                            [@ EXCEPT !.ok = o.ok, !.text = Blank, !.at =
                                IF o.told = "raised" THEN "abort" ELSE "note"]]
    BY Zenon DEF Send
  <2>2. call[h].of \in Notices => call[h].of \notin Events
    OBVIOUS
  <2>3. \/ Result(h, o)
        \/ call' = [call EXCEPT ![h].attempt = @ + 1]
        \/ call' = [call EXCEPT ![h] =
               [@ EXCEPT !.ok = o.ok, !.text = Blank, !.at =
                             IF o.told = "raised" THEN "abort" ELSE "note"]]
    BY <1>2, <2>1, <2>2, Zenon
  <2>4. (IF o.told = "raised" THEN "abort" ELSE "note") \in {"abort", "note"}
    OBVIOUS
  <2> QED BY <2>3, <2>4, Zenon
<1>4. ASSUME NEW o, Result(h, o)
      PROVE  Only(h) /\ call'[h].at = "answer" /\ call'[h].answer # "json"
  BY <1>4, ResultAnswers DEF IInv
<1>5. ASSUME call' = [call EXCEPT ![h].attempt = @ + 1]
      PROVE  /\ Only(h) /\ call'[h].of = call[h].of /\ call'[h].text = call[h].text
             /\ call'[h].carded = call[h].carded /\ call'[h].at = "send"
  BY <1>1, <1>5, SMTT(60) DEF Only, Call
<1>6. ASSUME NEW ok, NEW at \in {"abort", "note"},
             call' = [call EXCEPT ![h] = [@ EXCEPT !.ok = ok, !.text = Blank, !.at = at]]
      PROVE  Only(h) /\ call'[h].at \in {"abort", "note"}
  BY <1>1, <1>6 DEF Only, Call
<1> QED BY <1>1, <1>3, <1>4, <1>5, <1>6

\* A step moves one handler, or ends all calls.
LEMMA OneMoves ==
    ASSUME IInv, [Next]_vars, NEW h \in Handlers
    PROVE  \/ call'[h] = call[h] \/ call'[h] = Idle
           \/ \E e \in Events : Callback(h, e)
           \/ \E n \in Notices : Warn(h, n)
           \/ \E m \in Messages : Flush(h, m)
           \/ Handle(h) \/ SendQueued(h)
<1>1. TypeOK /\ call \in [Handlers -> Call]
  BY TypeAgain DEF IInv
<1>2. CASE UNCHANGED vars
  BY <1>2 DEF vars
<1>3. ASSUME NEW g \in Handlers, g # h, NEW e \in Events, Callback(g, e)
      PROVE  call'[h] = call[h]
  BY <1>1, <1>3 DEF Callback
<1>4. ASSUME NEW g \in Handlers, g # h, NEW n \in Notices, Warn(g, n)
      PROVE  call'[h] = call[h]
  <2>1. PICK text \in Text, carded \in BOOLEAN : Begin(g, n, text, carded)
    BY <1>1, <1>4, WarnBegins
  <2> QED BY <1>1, <1>4, <2>1 DEF Begin
<1>5. ASSUME NEW g \in Handlers, g # h, NEW m \in Messages, Flush(g, m)
      PROVE  call'[h] = call[h]
  BY <1>1, <1>5 DEF Flush
<1>6. ASSUME NEW g \in Handlers, g # h, Claim(g) \/ Abort(g) \/ Note(g)
      PROVE  call'[h] = call[h]
  BY <1>1, <1>6 DEF Claim, Abort, Note, Say, GoTo
<1>7. ASSUME NEW g \in Handlers, g # h, AskHermes(g) \/ Answer(g)
      PROVE  call'[h] = call[h]
  BY <1>1, <1>7 DEF AskHermes, Answer, GoTo
<1>8. ASSUME NEW g \in Handlers, g # h, NEW o, Result(g, o)
      PROVE  call'[h] = call[h]
  BY <1>1, <1>8, ResultAnswers DEF Only
<1>9. ASSUME NEW g \in Handlers, g # h, Send(g)
      PROVE  call'[h] = call[h]
  BY <1>9, SendCases DEF Only
<1>10. ASSUME NEW g \in Handlers, g # h, SendQueued(g)
       PROVE  call'[h] = call[h]
  BY <1>8, <1>10 DEF SendQueued
<1>11. CASE \E m \in Messages : Forget(m)
  BY <1>11 DEF Forget
<1>12. CASE Restart
  BY <1>12 DEF Restart
<1> QED
  BY <1>2, <1>3, <1>4, <1>5, <1>6, <1>7, <1>9, <1>10, <1>11, <1>12 DEF Next, Handle

LEMMA ConfigStays == IInv /\ [Next]_vars => config' = config
<1> SUFFICES ASSUME IInv, [Next]_vars PROVE config' = config
  OBVIOUS
<1>1. ASSUME NEW h \in Handlers, NEW n \in Notices, Warn(h, n) PROVE config' = config
  <2>1. TypeOK
    BY DEF IInv
  <2>2. PICK text \in Text, carded \in BOOLEAN : Begin(h, n, text, carded)
    BY <1>1, <2>1, WarnBegins
  <2> QED BY <2>2 DEF Begin
<1> QED
  BY <1>1, ZenonT(60)
  DEF Next, vars, Callback, Flush, Handle, Claim, AskHermes, Send, Note, Abort, Answer,
      SendQueued, Forget, Restart

\* A text is sent that was sent before, that Hermes answered, or that a caller
\* passed.
LEMMA SendsWhat ==
    ASSUME IInv, [Next]_vars, NEW h \in Handlers, call'[h].at = "send"
    PROVE  \/ /\ call[h].at = "send" /\ call'[h].of = call[h].of
              /\ call'[h].text = call[h].text /\ call'[h].carded = call[h].carded
           \/ /\ call[h].at = "ask" /\ call'[h].of = call[h].of
              /\ call'[h].carded = call[h].carded
              /\ \E r \in Responses :
                    call'[h].text = FormatReply(r.ok, r.text, r.urgent, config.limit)
           \/ \E n \in Notices : Warn(h, n)
<1>1. TypeOK /\ call \in [Handlers -> Call]
  BY TypeAgain DEF IInv
<1>2. call'[h] # Idle
  BY DEF Idle
<1>3. ASSUME NEW e \in Events, Callback(h, e) PROVE FALSE
  BY <1>1, <1>3 DEF Callback, Idle
<1>4. ASSUME NEW m \in Messages, Flush(h, m) PROVE FALSE
  BY <1>1, <1>4 DEF Flush, Idle
<1>5. ~SendQueued(h)
  BY <1>1, ResultAnswers DEF SendQueued
<1>6. ~Claim(h) /\ ~Note(h) /\ ~Abort(h) /\ ~Answer(h)
  <2>1. \A answer : ~Say(h, answer)
    BY <1>1, SayFacts
  <2>2. \A step : GoTo(h, step) => step = "send"
    BY <1>1, GoToFacts
  <2> QED BY <1>1, <1>2, <2>1, <2>2 DEF Claim, Note, Abort, Answer
<1>7. ASSUME AskHermes(h)
      PROVE  /\ call[h].at = "ask" /\ call'[h].of = call[h].of
             /\ call'[h].carded = call[h].carded
             /\ \E r \in Responses :
                   call'[h].text = FormatReply(r.ok, r.text, r.urgent, config.limit)
  <2>1. ~GoTo(h, "abort")
    BY <1>1, GoToFacts
  <2>2. PICK r \in Responses :
           call' = [call EXCEPT ![h] =
                [@ EXCEPT !.at = "send", !.attempt = 1,
                          !.text = FormatReply(r.ok, r.text, r.urgent, config.limit)]]
    BY <1>7, <2>1 DEF AskHermes
  <2>3. call[h].at = "ask"
    BY <1>7 DEF AskHermes
  <2> QED BY <1>1, <2>2, <2>3 DEF Call
<1>8. ASSUME Send(h)
      PROVE  /\ call[h].at = "send" /\ call'[h].of = call[h].of
             /\ call'[h].text = call[h].text /\ call'[h].carded = call[h].carded
  BY <1>8, SendCases
<1>9. Handle(h) => Send(h) \/ AskHermes(h)
  BY <1>6 DEF Handle
<1>10. \/ call'[h] = call[h] \/ Handle(h) \/ \E n \in Notices : Warn(h, n)
  BY <1>2, <1>3, <1>4, <1>5, OneMoves
<1> QED BY <1>7, <1>8, <1>9, <1>10

\* Calls of the callback carry no card of the notifier's.
Uncarded ==
    \A h \in Handlers : call[h].at \in {"claim", "ask"} => ~call[h].carded

LEMMA UncardedStep ==
    ASSUME IInv, Uncarded, [Next]_vars
    PROVE  Uncarded'
<1> SUFFICES ASSUME NEW h \in Handlers, call'[h].at \in {"claim", "ask"}
             PROVE  ~call'[h].carded
  BY DEF Uncarded
<1>1. TypeOK /\ call \in [Handlers -> Call]
  BY TypeAgain DEF IInv
<1>2. CASE call'[h] = call[h]
  BY <1>2 DEF Uncarded
<1>3. CASE call'[h] = Idle
  BY <1>3 DEF Idle
<1>4. ASSUME NEW e \in Events, Callback(h, e) PROVE ~call'[h].carded
  BY <1>1, <1>4 DEF Callback, Idle
<1>5. ASSUME NEW n \in Notices, Warn(h, n) PROVE FALSE
  <2>1. PICK text \in Text, carded \in BOOLEAN : Begin(h, n, text, carded)
    BY <1>1, <1>5, WarnBegins
  <2> QED BY <1>1, <2>1 DEF Begin, Idle
<1>6. ASSUME NEW m \in Messages, Flush(h, m) PROVE FALSE
  BY <1>1, <1>6 DEF Flush, Idle
<1>7. ~SendQueued(h)
  BY <1>1, ResultAnswers DEF SendQueued
<1>8. \A answer : ~Say(h, answer)
  BY <1>1, SayFacts
<1>9. ~Note(h) /\ ~Abort(h)
  <2>1. ~GoTo(h, "abort")
    BY <1>1, GoToFacts
  <2> QED BY <1>8, <2>1 DEF Note, Abort
<1>10. ~AskHermes(h)
  <2>1. ~GoTo(h, "abort")
    BY <1>1, GoToFacts
  <2>2. AskHermes(h) => \E text :
           call' = [call EXCEPT ![h] =
                        [@ EXCEPT !.at = "send", !.attempt = 1, !.text = text]]
    BY <2>1, Zenon DEF AskHermes
  <2> QED BY <1>1, <2>2, ZenonT(60) DEF Call
<1>11. ~Send(h)
  BY SendCases
<1>12. ASSUME Claim(h) PROVE ~call'[h].carded
  <2>1. GoTo(h, "ask") /\ call[h].at = "claim"
    BY <1>8, <1>12 DEF Claim
  <2>2. call'[h].carded = call[h].carded
    BY <1>1, <2>1 DEF GoTo, Call
  <2> QED BY <2>1, <2>2 DEF Uncarded
<1>13. ASSUME Answer(h) PROVE ~call'[h].carded
  BY <1>1, <1>13 DEF Answer, Idle
<1> QED
  BY <1>2, <1>3, <1>4, <1>5, <1>6, <1>7, <1>9, <1>10, <1>11, <1>12, <1>13, OneMoves
  DEF Handle

\* Whatever text a caller passes that has no card in it but one that is
\* recognized, the notifier sends one card that shows no raw error (notifier.py
\* 34-97, cron.py 36-60, guardian.py 37-66).
THEOREM NoticeCorrect ==
    (\A t \in CallerTexts : Recognized(t)) => (Spec => []NoticeIsOneCard)
<1> SUFFICES ASSUME \A t \in CallerTexts : Recognized(t)
             PROVE  Spec => []NoticeIsOneCard
  OBVIOUS
<1> DEFINE NInv == Uncarded /\ NoticeIsOneCard
<1>1. Init => NInv
  BY DEF Init, Uncarded, NoticeIsOneCard, Idle
<1>2. IInv /\ NInv /\ [Next]_vars => NInv'
  <2> SUFFICES ASSUME IInv, Uncarded, NoticeIsOneCard, [Next]_vars
               PROVE  Uncarded' /\ NoticeIsOneCard'
    OBVIOUS
  <2>1. TypeOK
    BY DEF IInv
  <2>2. Uncarded'
    BY UncardedStep
  <2>3. ASSUME NEW h \in Handlers, call'[h].at = "send", call'[h].carded
        PROVE  OneCard(call'[h].text)
    <3>1. ASSUME NEW n \in Notices, Warn(h, n) PROVE OneCard(call'[h].text)
      <4>1. PICK text \in Text, carded \in BOOLEAN :
                Begin(h, n, text, carded) /\ (carded => OneCard(text))
        BY <2>1, <3>1, WarnLooks
      <4>2. call'[h].text = text /\ call'[h].carded = carded
        BY <2>1, <4>1, TypeAgain DEF Begin, Idle
      <4> QED BY <2>3, <4>1, <4>2
    <3>2. CASE call[h].at = "send" /\ call'[h].text = call[h].text
               /\ call'[h].carded = call[h].carded
      BY <2>3, <3>2 DEF NoticeIsOneCard, OneCard
    <3>3. CASE call[h].at = "ask" /\ call'[h].carded = call[h].carded
      BY <2>3, <3>3 DEF Uncarded
    <3> QED BY <2>3, <3>1, <3>2, <3>3, SendsWhat
  <2>4. NoticeIsOneCard'
    BY <2>3 DEF NoticeIsOneCard, OneCard
  <2> QED BY <2>2, <2>4
<1>3. NInv => NoticeIsOneCard
  OBVIOUS
<1> QED BY <1>1, <1>2, <1>3, Invariant, PTL DEF Spec

\* A reply to a user is no longer than the limit, with the notice that it was
\* cut, is in one card at most, and is left alone when it is formatted again
\* (formatter.py 47-84, 153-160), unless Hermes answers with cards of another
\* make.
THEOREM ReplyCorrect ==
    (\A r \in Responses : Repeatable(r)) => (Spec => []ReplyFits)
<1> SUFFICES ASSUME \A r \in Responses : Repeatable(r)
             PROVE  Spec => []ReplyFits
  OBVIOUS
<1> DEFINE Good(t, limit) == Fits(t, limit) /\ t.cards <= 1
<1>1. Init => ReplyFits
  BY DEF Init, ReplyFits, Idle
<1>2. IInv /\ ReplyFits /\ [Next]_vars => ReplyFits'
  <2> SUFFICES ASSUME IInv, ReplyFits, [Next]_vars
               PROVE  ReplyFits'
    OBVIOUS
  <2>1. TypeOK
    BY DEF IInv
  <2>2. config' = config /\ config.limit \in Nat \ {0}
    BY <2>1, ConfigStays DEF TypeOK, Configs
  <2>3. ASSUME NEW h \in Handlers, call'[h].at = "send", call'[h].of \in Events
        PROVE  Good(call'[h].text, config.limit)
    <3>1. ASSUME NEW n \in Notices, Warn(h, n) PROVE FALSE
      <4>1. PICK text \in Text, carded \in BOOLEAN : Begin(h, n, text, carded)
        BY <2>1, <3>1, WarnBegins
      <4>2. call'[h].of = n
        BY <2>1, <4>1, TypeAgain DEF Begin, Idle
      <4> QED BY <2>3, <4>2
    <3>2. CASE call[h].at = "send" /\ call'[h].of = call[h].of
               /\ call'[h].text = call[h].text
      BY <2>3, <3>2 DEF ReplyFits, Fits
    <3>3. ASSUME NEW r \in Responses,
                 call'[h].text = FormatReply(r.ok, r.text, r.urgent, config.limit)
          PROVE  Good(call'[h].text, config.limit)
      BY <2>2, <3>3, ReplyFacts
    <3> QED BY <2>3, <3>1, <3>2, <3>3, SendsWhat
  <2> QED BY <2>2, <2>3 DEF ReplyFits, Fits
<1> QED BY <1>1, <1>2, Invariant, PTL DEF Spec

-----------------------------------------------------------------------------
(* What an acknowledgement is worth *)

\* Only the reply to a callback that does not name both sides goes into JSON.
JsonOnly ==
    /\ \A e \in config.named : "json" \notin message[e].been
    /\ \A h \in Handlers : call[h].answer = "json" => call[h].of \notin config.named

\* An answer in JSON was there, or is made by Note.
LEMMA JsonComes ==
    ASSUME IInv, [Next]_vars, NEW h \in Handlers, call'[h].answer = "json"
    PROVE  \/ call'[h] = call[h]
           \/ call'[h].of = call[h].of /\ call[h].of \notin config.named
<1>1. TypeOK /\ call \in [Handlers -> Call]
  BY TypeAgain DEF IInv
<1>2. call'[h].at = "answer" /\ call'[h] # Idle
  <2>1. IInv'
    BY InvStep
  <2>2. call'[h].at # "answer" => call'[h].answer = Nothing
    BY <2>1 DEF IInv, Stage
  <2> QED BY <2>2 DEF Idle, Nothing
<1>3. ASSUME NEW e \in Events, Callback(h, e) PROVE FALSE
  BY <1>1, <1>2, <1>3 DEF Callback, Idle
<1>4. ASSUME NEW n \in Notices, Warn(h, n) PROVE FALSE
  <2>1. PICK text \in Text, carded \in BOOLEAN : Begin(h, n, text, carded)
    BY <1>1, <1>4, WarnBegins
  <2> QED BY <1>1, <1>2, <2>1 DEF Begin, Idle
<1>5. ASSUME NEW m \in Messages, Flush(h, m) PROVE FALSE
  BY <1>1, <1>2, <1>5 DEF Flush, Idle
<1>6. ~SendQueued(h) /\ ~Send(h)
  BY <1>1, <1>2, ResultAnswers, SendCases DEF SendQueued
<1>7. \A step : GoTo(h, step) => step = "answer"
  BY <1>1, <1>2, GoToFacts
<1>8. \A answer : Say(h, answer) => answer = "json" /\ call'[h].of = call[h].of
  BY <1>1, SayFacts
<1>9. ~Claim(h) /\ ~Abort(h) /\ ~Answer(h)
  BY <1>1, <1>2, <1>7, <1>8 DEF Claim, Abort, Answer
<1>10. ~AskHermes(h)
  <2>1. AskHermes(h) => \E text :
           call' = [call EXCEPT ![h] =
                        [@ EXCEPT !.at = "send", !.attempt = 1, !.text = text]]
    BY <1>7, Zenon DEF AskHermes
  <2> QED BY <1>1, <1>2, <2>1, ZenonT(60) DEF Call
<1>11. ASSUME Note(h) PROVE call'[h].of = call[h].of /\ call[h].of \notin config.named
  BY <1>7, <1>8, <1>11 DEF Note
<1> QED BY <1>2, <1>3, <1>4, <1>5, <1>6, <1>9, <1>10, <1>11, OneMoves DEF Handle

\* A reply gets into JSON by such an answer.
LEMMA JsonReaches ==
    ASSUME IInv, [Next]_vars, NEW m \in Messages, "json" \in message'[m].been
    PROVE  \/ "json" \in message[m].been
           \/ \E h \in Handlers : call[h].answer = "json" /\ call[h].of = m
<1>1. TypeOK /\ message \in [Messages -> Msg] /\ config.mode \in Modes
  BY TypeAgain DEF IInv, Configs
<1>2. \A n \in Messages : message[n] \in Msg
  BY <1>1
<1>3. ASSUME message'[m].been = message[m].been PROVE "json" \in message[m].been
  BY <1>3
<1>4. ASSUME NEW h \in Handlers, NEW n \in Notices, Warn(h, n)
      PROVE  message'[m].been = message[m].been
  <2>1. PICK text \in Text, carded \in BOOLEAN : Begin(h, n, text, carded)
    BY <1>1, <1>4, WarnBegins
  <2> QED BY <1>1, <2>1 DEF Begin, Msg
<1>5. ASSUME NEW h \in Handlers, Claim(h)
      PROVE  message'[m].been = message[m].been
  BY <1>1, <1>5 DEF Claim, Msg
<1>6. ASSUME NEW h \in Handlers, NEW n \in Messages, Flush(h, n)
      PROVE  message'[m].been = message[m].been
  BY <1>1, <1>6 DEF Flush, Msg
<1>7. ASSUME NEW n \in Messages, Forget(n)
      PROVE  message'[m].been = message[m].been
  BY <1>1, <1>7 DEF Forget, Msg
<1>8. ASSUME NEW h \in Handlers, Send(h) PROVE "json" \in message[m].been
  <2>1. PICK o \in Held \cup Attempts(config.mode) \cup Raised(config.mode) :
           message' = [message EXCEPT
                         ![call[h].of] = Moved(@, o.place, o.told = "raised")]
    BY <1>8, Zenon DEF Send
  <2>2. o.place \in {"simulated", "queue", "refused", "user", Nothing}
    BY <1>1, OutcomeFacts DEF Outcomes
  <2>3. Moved(message[m], o.place, o.told = "raised").been
            \subseteq message[m].been \cup {o.place}
    <3>1. (o.told = "raised") \in BOOLEAN
      OBVIOUS
    <3> QED BY <1>2, <2>2, <3>1, MovedFacts DEF Follows
  <2>4. \/ message'[m] = message[m]
        \/ message'[m] = Moved(message[m], o.place, o.told = "raised")
    BY <1>1, <2>1, Zenon
  <2> HIDE DEF Moved
  <2>5. o.place # "json"
    BY <2>2 DEF Nothing
  <2> QED BY <2>3, <2>4, <2>5
<1>9. ASSUME NEW h \in Handlers, SendQueued(h) PROVE "json" \in message[m].been
  <2>1. PICK o \in Attempts(config.mode) \cup Raised(config.mode) :
           message' = [message EXCEPT ![call[h].of] = Flushed(@, o)]
    BY <1>9, Zenon DEF SendQueued
  <2>2. o.place # "json"
    BY <1>1, OutcomeFacts DEF Outcomes, Nothing
  <2>3. Flushed(message[m], o).been \subseteq message[m].been \cup {o.place, "queue"}
    BY <1>1, <1>2, FlushedFacts, ZenonT(60)
  <2>4. message'[m] = message[m] \/ message'[m] = Flushed(message[m], o)
    BY <1>1, <2>1, Zenon
  <2> QED BY <2>2, <2>3, <2>4
<1>10. ASSUME NEW h \in Handlers, Answer(h)
       PROVE  \/ "json" \in message[m].been
              \/ call[h].answer = "json" /\ call[h].of = m
  <2>1. CASE UNCHANGED message
    BY <2>1
  <2>2. CASE message' = [message EXCEPT ![call[h].of].been = @ \cup Shown(call[h].answer)]
    <3>1. CASE call[h].of = m
      <4>1. message'[m].been = message[m].been \cup Shown(call[h].answer)
        BY <1>1, <2>2, <3>1 DEF Msg
      <4>2. "json" \in Shown(call[h].answer) => call[h].answer = "json"
        BY DEF Shown
      <4> QED BY <3>1, <4>1, <4>2
    <3>2. CASE call[h].of # m
      BY <1>1, <2>2, <3>2
    <3> QED BY <3>1, <3>2
  <2> QED BY <1>10, <2>1, <2>2 DEF Answer
<1>11. ASSUME UNCHANGED message PROVE "json" \in message[m].been
  BY <1>11
<1>12. Next \/ UNCHANGED message
  BY DEF vars
<1>13. ASSUME NEW h \in Handlers, AskHermes(h) \/ Note(h) \/ Abort(h) PROVE UNCHANGED message
  BY <1>13 DEF AskHermes, Note, Abort
<1>14. ASSUME NEW h \in Handlers, NEW e \in Events, Callback(h, e) PROVE UNCHANGED message
  BY <1>14 DEF Callback
<1>15. Restart => UNCHANGED message
  BY DEF Restart
<1> QED
  BY <1>3, <1>4, <1>5, <1>6, <1>7, <1>8, <1>9, <1>10, <1>11, <1>12, <1>13, <1>14, <1>15
  DEF Next, Handle

\* WeChat is answered without an error only for a message whose reply it was shown,
\* or was sent, queued or simulated, but for the two ways out: a full queue that
\* refused it, and an answer in JSON to a callback that does not name both sides
\* (server.py 108-132, sender.py 59-75).
THEOREM AcknowledgedCorrect == Spec => []AcknowledgedIsSettled
<1>1. Init => JsonOnly
  BY DEF Init, JsonOnly, Idle, Unsent, Configs, Messages, Nothing
<1>2. IInv /\ JsonOnly /\ [Next]_vars => JsonOnly'
  <2> SUFFICES ASSUME IInv, JsonOnly, [Next]_vars PROVE JsonOnly'
    OBVIOUS
  <2>1. config' = config /\ config.named \subseteq Messages
    BY ConfigStays DEF IInv, TypeOK, Configs, Messages
  <2>2. ASSUME NEW e \in config.named PROVE "json" \notin message'[e].been
    BY <2>1, <2>2, JsonReaches DEF JsonOnly
  <2>3. ASSUME NEW h \in Handlers, call'[h].answer = "json"
        PROVE  call'[h].of \notin config.named
    BY <2>3, JsonComes DEF JsonOnly
  <2> QED BY <2>1, <2>2, <2>3 DEF JsonOnly
<1>3. IInv /\ JsonOnly => AcknowledgedIsSettled
  <2> SUFFICES ASSUME IInv, JsonOnly, NEW e \in Events, wechat[e].acked
               PROVE  \/ HasReply(e)
                      \/ "refused" \in message[e].been
                      \/ e \notin config.named /\ "json" \in message[e].been
    BY DEF AcknowledgedIsSettled
  <2>1. message[e].been # {} /\ message[e].been \subseteq Places
    BY DEF IInv, Known, TypeOK, Messages
  <2>2. e \in config.named => "json" \notin message[e].been
    BY DEF JsonOnly
  <2> QED BY <2>1, <2>2 DEF HasReply, Places
<1> QED BY <1>1, <1>2, <1>3, Invariant, PTL DEF Spec

=============================================================================
