--------------------------- MODULE OfficialTransport ---------------------------
(***************************************************************************)
(* OfficialAccountTextTransport (bridge/wechat/official.py): the threads   *)
(* of a server share one transport and with it the cached access token and *)
(* its expiry, two attributes that are read and written without a lock.    *)
(*                                                                         *)
(* What matters of a token is until when WeChat accepts it.  WeChat counts  *)
(* a token's life from when it issues it, the transport from when the call *)
(* began; and a token that is issued cuts short the life of those before   *)
(* it, in the cache or in hand, of which the transport is not told.        *)
(***************************************************************************)
EXTENDS Integers

CONSTANTS
    Threads,
    Lifetime,       \* expires_in: for how long WeChat accepts a token
    Overlap,        \* for how long it does when it has issued another
    Margin,         \* the 60 seconds taken off it
    MinCache,       \* the 60 seconds a token is cached at least
    MaxCall,        \* the longest call: its two requests have timeouts
    MaxNow,         \* bound: the clock stops here
    NoToken

ASSUME TransportAssumption ==
    /\ Lifetime \in Nat /\ Margin \in Nat /\ MaxCall \in Nat
    /\ MinCache \in Nat \ {0}

\* Until when WeChat accepts a token, whether that was cut short, and (history)
\* whether no call was left to replace it in the cache then.
Token == [until : Nat, cut : BOOLEAN, stale : BOOLEAN]

ASSUME NoTokenAssumption == NoToken \notin Token

\* What the 60 seconds have to cover: two calls, one after the other began.
ASSUME MarginAssumption == 2 * MaxCall <= Margin

\* A token lives longer than what is taken off and added to it: 7200 seconds.
ASSUME LifetimeAssumption == Margin + MinCache <= Lifetime

\* A token outlives, by two calls, the one that is issued after it: five minutes.
ASSUME OverlapAssumption == Overlap \in Nat /\ 2 * MaxCall < Overlap

VARIABLES
    now,
    token,      \* _access_token
    expires_at, \* _access_token_expires_at
    call        \* thread -> its call: where it is, its reading of the clock and
                \* the token it has got

vars == <<now, token, expires_at, call>>

Steps == {"idle", "look", "take", "fetch", "token", "expiry", "post"}

Call == [at : Steps, began : Nat, token : Token \cup {NoToken}]

TypeOK ==
    /\ now \in Nat
    /\ token \in Token \cup {NoToken}
    /\ expires_at \in Nat
    /\ call \in [Threads -> Call]

Idle == [at |-> "idle", began |-> 0, token |-> NoToken]

Init ==
    /\ now = 0
    /\ token = NoToken
    /\ expires_at = 0
    /\ call = [t \in Threads |-> Idle]

-----------------------------------------------------------------------------

At(t, step) == call[t].at = step

Goto(t, step) == call' = [call EXCEPT ![t].at = step]

Begin(t) ==
    /\ At(t, "idle")
    /\ call' = [call EXCEPT ![t] = [Idle EXCEPT !.at = "look", !.began = now]]
    /\ UNCHANGED <<now, token, expires_at>>

IsCached(t) == token # NoToken /\ call[t].began < expires_at

Look(t) ==
    /\ At(t, "look")
    /\ Goto(t, IF IsCached(t) THEN "take" ELSE "fetch")
    /\ UNCHANGED <<now, token, expires_at>>

\* The token is read a second time, and may be another one by now.
Take(t) ==
    /\ At(t, "take")
    /\ call' = [call EXCEPT ![t].at = "post", ![t].token = token]
    /\ UNCHANGED <<now, token, expires_at>>

Fresh == [until |-> now + Lifetime, cut |-> FALSE, stale |-> FALSE]

\* What becomes of a token when another is issued.
Withdrawn(k) ==
    IF k = NoToken \/ k.until <= now + Overlap THEN k
    ELSE [k EXCEPT !.until = now + Overlap, !.cut = TRUE]

\* A token that was cut short and is in the cache to stay.
Stale(k) == IF k = NoToken THEN k ELSE [k EXCEPT !.stale = k.cut]

\* WeChat issues a token some time after the clock was read.
Fetch(t) ==
    /\ At(t, "fetch")
    /\ call' = [u \in Threads |->
                    IF u = t THEN [call[t] EXCEPT !.at = "token", !.token = Fresh]
                    ELSE [call[u] EXCEPT !.token = Withdrawn(@)]]
    /\ token' = Withdrawn(token)
    /\ UNCHANGED <<now, expires_at>>

\* WeChat issues a token that does not get here: the answer is lost, or it is for
\* another process, which has a cache of its own.
IssueElsewhere ==
    /\ call' = [u \in Threads |-> [call[u] EXCEPT !.token = Withdrawn(@)]]
    /\ token' = Stale(Withdrawn(token))
    /\ UNCHANGED <<now, expires_at>>

\* No answer, no JSON object or no token in it: the call reports a failure.
FetchFails(t) ==
    /\ At(t, "fetch")
    /\ call' = [call EXCEPT ![t] = Idle]
    /\ UNCHANGED <<now, token, expires_at>>

StoreToken(t) ==
    /\ At(t, "token")
    /\ token' = Stale(call[t].token)
    /\ Goto(t, "expiry")
    /\ UNCHANGED <<now, expires_at>>

\* Mutants: the operands are swapped and the least time is forgotten; nothing is
\* taken off.
CacheFor_NoMargin == IF MinCache > Lifetime THEN MinCache ELSE Lifetime
CacheFor_Swapped == Margin - Lifetime
CacheFor == IF MinCache > Lifetime - Margin THEN MinCache ELSE Lifetime - Margin

StoreExpiry(t) ==
    /\ At(t, "expiry")
    /\ expires_at' = call[t].began + CacheFor
    /\ Goto(t, "post")
    /\ UNCHANGED <<now, token>>

\* The message goes out with the token; any answer, and none, ends the call.
Post(t) ==
    /\ At(t, "post")
    /\ call' = [call EXCEPT ![t] = Idle]
    /\ UNCHANGED <<now, token, expires_at>>

\* No call lasts longer than MaxCall.
Tick ==
    /\ now < MaxNow
    /\ \A t \in Threads : ~At(t, "idle") => now < call[t].began + MaxCall
    /\ now' = now + 1
    /\ UNCHANGED <<token, expires_at, call>>

Step(t) ==
    \/ Begin(t) \/ Look(t) \/ Take(t)
    \/ Fetch(t) \/ FetchFails(t) \/ StoreToken(t) \/ StoreExpiry(t)
    \/ Post(t)

Next == (\E t \in Threads : Step(t)) \/ IssueElsewhere \/ Tick

Spec == Init /\ [][Next]_vars

-----------------------------------------------------------------------------
(* Property *)

\* WeChat accepts the token of every message that goes out, although threads
\* refresh the cache at once and one's token may stand there with another's
\* expiry (69-87): the margin makes up for what the two are apart and for the
\* time between the look at the cache and the request.  There is one exception:
\* a token that another, issued later, had cut short before it was stored, or
\* whose successor never got here.
TokenIsAccepted ==
    \A t \in Threads : At(t, "post") =>
        LET k == call[t].token
        IN  k # NoToken /\ (now < k.until \/ k.stale)

=============================================================================
