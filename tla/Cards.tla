-------------------------------- MODULE Cards --------------------------------
(***************************************************************************)
(* The texts the bridge shows: the card template and its recognizers       *)
(* (bridge/runtime/friendly_card.py) and the formatting of a reply         *)
(* (bridge/wechat/formatter.py).  A text is what the recognizers look at,  *)
(* its length, the cards it is wrapped in, and whether it shows a raw      *)
(* error; the wording is left out, but for its length.                     *)
(***************************************************************************)
EXTENDS Integers, FiniteSetsExt

Severities == {"info", "progress", "success", "warning", "error", "critical"}

\* Errors and what is critical share an icon.
SeverityIcon(severity) ==
    CASE severity = "info"     -> "decision"
      [] severity = "progress" -> "progress"
      [] severity = "success"  -> "success"
      [] severity = "warning"  -> "warning"
      [] OTHER                 -> "safety"

Icons == {SeverityIcon(s) : s \in Severities}
Headings == {"conclusion", "confirm_safety", "received", "trouble", "other"}
Labels == {"current", "conclusion", "safety"}
Nothing == "none"

Text == [urgent : BOOLEAN, raw : BOOLEAN, size : Nat, cards : Nat,
         icon : Icons \cup {Nothing}, heading : Headings \cup {Nothing},
         label : Labels \cup {Nothing}, divider : {0, 12, 16, 20, 24},
         first : Nat,   \* the length of its first line
         bare : Nat]    \* the other lines with no bullet or mark of their own

Plain(size, first, urgent, raw) ==
    [urgent |-> urgent, raw |-> raw, size |-> size, cards |-> 0, icon |-> Nothing,
     heading |-> Nothing, label |-> Nothing, divider |-> 0, first |-> first,
     bare |-> 0]

Blank == Plain(0, 0, FALSE, FALSE)

-----------------------------------------------------------------------------
(* The template *)

\* Lengths of what every card says, and of what precedes its summary.
Wording == 60
HeadSize == 40

\* The longest piece of text a card shows.
PieceLimit == 1800

\* The parts' lengths are those the caller passed.
Divider(total) ==
    CASE total <= 80           -> 12
      [] total \in 81 .. 180  -> 16
      [] total \in 181 .. 360 -> 20
      [] OTHER                 -> 24

Sanitized(text) ==
    IF text.size = 0 THEN Plain(6, 6, FALSE, FALSE)
    ELSE [text EXCEPT !.size = Min({@, PieceLimit}), !.raw = FALSE]

\* The summary's length is added where the summary is not a set phrase.
Card(severity, heading, label, summary, body) ==
    [urgent |-> body.urgent, raw |-> FALSE,
     size |-> Wording + summary + Sanitized(body).size, cards |-> body.cards + 1,
     icon |-> SeverityIcon(severity), heading |-> heading, label |-> label,
     divider |-> Divider(Wording + summary + body.size), first |-> 10,
     bare |-> body.bare]

NoticeCard(severity, body) == Card(severity, "other", "current", 0, body)

CronFailureCard(reason) == NoticeCard("warning", Sanitized(reason))

\* A job, or what Guardian watches, is well again.
RecoveryCard(detail) == NoticeCard("success", Sanitized(detail))

IncidentCard(state, reason) ==
    NoticeCard(IF state \in {"down", "failed", "critical"} THEN "critical" ELSE "warning",
               Sanitized(reason))

ReplyCard(heading, urgent, summary, body) ==
    Card(IF urgent THEN "critical" ELSE "info", heading,
         IF urgent THEN "safety" ELSE "conclusion", summary, body)

-----------------------------------------------------------------------------
(* The recognizers *)

\* The label over an urgent reply's summary is not among those looked for, the
\* heading of most is; the longest divider counts as a label.
LooksLikeCard(text) ==
    /\ text.divider > 0
    /\ text.icon \in Icons
    /\ \/ text.label \in {"current", "conclusion"}
       \/ text.icon = "decision" /\ text.heading = "conclusion"
       \/ text.icon = "safety" /\ text.heading = "confirm_safety"
       \/ text.divider = 24

ReplyTitles == {<<"decision", "conclusion">>, <<"safety", "confirm_safety">>,
                <<"progress", "received">>, <<"safety", "trouble">>}

LooksLikeReply(text) ==
    <<text.icon, text.heading>> \in ReplyTitles /\ text.divider > 0

\* Mutant: a text that is a card already goes out as the caller gave it.
EnsureCard_AsGiven(text, severity) ==
    IF LooksLikeCard(text) THEN text ELSE NoticeCard(severity, text)
EnsureCard(text, severity) ==
    LET clean == Sanitized(text)
    IN  IF LooksLikeCard(clean) THEN clean ELSE NoticeCard(severity, clean)

-----------------------------------------------------------------------------
(* Replies *)

NoticeSize(urgent) == IF urgent THEN 35 ELSE 25

\* Mutant: the text is cut at the limit and the notice comes on top.
Fit_OnTop(text, limit, urgent) ==
    IF text.size <= limit THEN text
    ELSE [text EXCEPT !.size = limit + NoticeSize(urgent)]

\* What is left of a card that is cut within its head is no card.
Fit(text, limit, urgent) ==
    LET allowed == Max({0, limit - NoticeSize(urgent)})
        cut == allowed + NoticeSize(urgent)
    IN  CASE limit <= 0                      -> Blank
          [] limit > 0 /\ text.size <= limit -> text
          [] limit > 0 /\ text.size > limit /\ allowed < HeadSize ->
                Plain(cut, allowed, urgent, text.raw)
          [] OTHER                           -> [text EXCEPT !.size = cut]

\* The first line is the summary; the detail is the other lines, the bare ones
\* with a bullet put before them, or, of a text of one line, that line if the
\* summary cut it, or a set phrase.
SummarySize(text) == IF text.first <= 120 THEN text.first ELSE 118
DetailSize(text) ==
    CASE text.size > text.first                      -> text.size - text.first + 2 * text.bare
      [] text.size <= text.first /\ text.first > 120 -> text.first
      [] OTHER                                       -> 40

\* What Hermes answered: ok, with a text, or the error.
FormatReply(ok, text, urgentQuestion, limit) ==
    LET said   == IF text.size = 0 THEN Plain(25, 25, FALSE, FALSE) ELSE text
        urgent == said.urgent \/ urgentQuestion
        detail == [said EXCEPT !.size = DetailSize(said)]
    IN  CASE ~ok -> Fit(ReplyCard("trouble", TRUE, 0, said), limit, TRUE)
          [] ok /\ LooksLikeReply(said) -> Fit(said, limit, urgent)
          [] OTHER -> Fit(ReplyCard(IF urgent THEN "confirm_safety" ELSE "conclusion",
                                    urgent, SummarySize(said), detail), limit, urgent)

=============================================================================
