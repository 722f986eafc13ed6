------------------------------- MODULE MCService -------------------------------
(* An instance of Service for TLC. *)
EXTENDS Service, TLC

MCModes == {"dry_run", "missing", "transport"}

\* Short and long, with a raw error, and cards made earlier.
MCCallerTexts == {Plain(30, 30, FALSE, FALSE), Plain(2500, 200, FALSE, TRUE),
                  NoticeCard("info", Plain(30, 30, FALSE, FALSE)),
                  Untidy(NoticeCard("error", Plain(2500, 30, FALSE, FALSE)))}

\* An error, nothing, a long text, an urgent question, and a reply made earlier,
\* under a lower limit.  With the limit of the run, 70, an urgent reply is cut within
\* the head of its card, another after it, and the last one fits.
MCResponses ==
    {Said(Plain(90, 90, FALSE, TRUE), FALSE, FALSE),
     Said(Blank, TRUE, FALSE),
     Said([Plain(900, 200, FALSE, FALSE) EXCEPT !.bare = 3], TRUE, FALSE),
     Said(Plain(20, 20, FALSE, FALSE), TRUE, TRUE),
     Said(Fit(ReplyCard("conclusion", FALSE, 20, Plain(400, 90, FALSE, FALSE)), 66, FALSE),
          TRUE, FALSE)}

Alike == Permutations(Handlers)

=============================================================================
