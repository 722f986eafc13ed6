------------------------ MODULE OfficialTransportProofs ------------------------
(***************************************************************************)
(* TokenIsAccepted holds for any number of threads, any lifetime of a      *)
(* token, any margin that covers two calls and any overlap that does.      *)
(***************************************************************************)
EXTENDS OfficialTransport, TLAPS

USE TransportAssumption, NoTokenAssumption, MarginAssumption, LifetimeAssumption,
    OverlapAssumption

\* The cached expiry, whoever wrote it, is at most one call too late for the
\* cached token, whoever wrote that; and it was counted from a time now past.  A
\* cached token that was cut short, and is not stale, is about to be replaced.
Replaced(until) ==
    \E u \in Threads : At(u, "token") /\ call[u].began + Overlap <= until

CacheIsSound ==
    /\ expires_at + Margin <= now + Lifetime
    /\ token = NoToken => expires_at = 0
    /\ token # NoToken /\ ~token.cut => expires_at + Margin <= token.until + MaxCall
    /\ token # NoToken /\ token.cut /\ ~token.stale => Replaced(token.until)

\* A call is young.
Young(t) == ~At(t, "idle") => /\ call[t].began <= now
                              /\ now <= call[t].began + MaxCall

\* A token counts from its fetch, or lasts for the overlap since it was cut short;
\* before the expiry is written the cached one may have been replaced, by one that
\* is at most a call older.
Fetched(t) ==
    /\ At(t, "token") \/ At(t, "expiry") =>
            /\ call[t].token # NoToken
            /\ IF call[t].token.cut THEN call[t].began + Overlap <= call[t].token.until
               ELSE call[t].began + Lifetime <= call[t].token.until
    /\ At(t, "expiry") =>
            /\ token # NoToken
            /\ ~token.cut => call[t].began + Lifetime <= token.until + MaxCall

\* What a thread takes from the cache, and what it posts with, outlives its call.
Outlives(t) ==
    /\ At(t, "take") =>
            token # NoToken /\ (~token.cut => call[t].began + MaxCall < token.until)
    /\ At(t, "post") =>
            /\ call[t].token # NoToken
            /\ call[t].token.stale \/ call[t].began + MaxCall < call[t].token.until

Sound(t) == Young(t) /\ Fetched(t) /\ Outlives(t)

IInv ==
    /\ TypeOK
    /\ CacheIsSound
    /\ \A t \in Threads : Sound(t)

-----------------------------------------------------------------------------
(* Types *)

LEMMA CacheForValue == CacheFor \in Nat /\ CacheFor = Lifetime - Margin
BY DEF CacheFor

LEMMA InitIInv == Init => IInv
BY DEF Init, IInv, TypeOK, Call, Steps, Idle, Sound, Young, At, Fetched, CacheIsSound,
   Outlives

\* What is left of a token when another is issued.
LEMMA WithdrawnFacts ==
    ASSUME now \in Nat, NEW k \in Token \cup {NoToken}
    PROVE  /\ Withdrawn(k) \in Token \cup {NoToken}
           /\ Withdrawn(k) = NoToken <=> k = NoToken
           /\ k # NoToken =>
                /\ Withdrawn(k).stale = k.stale
                /\ \/ Withdrawn(k) = k
                   \/ Withdrawn(k).cut /\ Withdrawn(k).until = now + Overlap
<1>1. CASE k = NoToken \/ k.until <= now + Overlap
  BY <1>1 DEF Withdrawn
<1>2. CASE ~(k = NoToken \/ k.until <= now + Overlap)
  <2>1. Withdrawn(k) = [k EXCEPT !.until = now + Overlap, !.cut = TRUE]
    BY <1>2 DEF Withdrawn
  <2>2. k \in Token /\ now + Overlap \in Nat
    BY <1>2
  <2> QED BY <1>2, <2>1, <2>2 DEF Token
<1> QED BY <1>1, <1>2

\* What is stored of a token.
LEMMA StaleFacts ==
    ASSUME NEW k \in Token
    PROVE  /\ Stale(k) \in Token
           /\ Stale(k).until = k.until /\ Stale(k).cut = k.cut /\ Stale(k).stale = k.cut
BY DEF Stale, Token

LEMMA FreshFacts ==
    ASSUME now \in Nat
    PROVE  Fresh \in Token /\ ~Fresh.cut /\ Fresh.until = now + Lifetime
BY DEF Fresh, Token

LEMMA TypeStep == TypeOK /\ [Next]_vars => TypeOK'
<1> SUFFICES ASSUME TypeOK, [Next]_vars PROVE TypeOK'
    OBVIOUS
<1> USE DEF TypeOK, Call, Steps, Idle, At, Goto
<1>1. ASSUME NEW t \in Threads, Begin(t) PROVE TypeOK'
    BY <1>1 DEF Begin
<1>2. ASSUME NEW t \in Threads, Look(t) PROVE TypeOK'
    BY <1>2 DEF Look
<1>3. ASSUME NEW t \in Threads, Take(t) PROVE TypeOK'
    BY <1>3, ZenonT(60) DEF Take
<1>4. ASSUME NEW t \in Threads, Fetch(t) PROVE TypeOK'
  <2>1. /\ [call[t] EXCEPT !.at = "token", !.token = Fresh] \in Call
        /\ \A u \in Threads : [call[u] EXCEPT !.token = Withdrawn(@)] \in Call
    <3>1. \A k \in Token \cup {NoToken} : Withdrawn(k) \in Token \cup {NoToken}
      BY WithdrawnFacts
    <3>2. Fresh \in Token
      BY FreshFacts
    <3> HIDE DEF TypeOK
    <3> QED BY <3>1, <3>2 DEF TypeOK
  <2>2. Withdrawn(token) \in Token \cup {NoToken}
    BY WithdrawnFacts
  <2> QED
    BY <1>4, <2>1, <2>2 DEF Fetch
<1>5. ASSUME NEW t \in Threads, FetchFails(t) PROVE TypeOK'
    BY <1>5 DEF FetchFails
<1>6. ASSUME NEW t \in Threads, StoreToken(t) PROVE TypeOK'
  <2>1. Stale(call[t].token) \in Token \cup {NoToken}
    BY StaleFacts DEF Stale
  <2> QED BY <1>6, <2>1 DEF StoreToken
<1>7. ASSUME NEW t \in Threads, StoreExpiry(t) PROVE TypeOK'
    BY <1>7, CacheForValue DEF StoreExpiry
<1>8. ASSUME NEW t \in Threads, Post(t) PROVE TypeOK'
    BY <1>8 DEF Post
<1>9. CASE Tick
    BY <1>9 DEF Tick
<1>10. CASE IssueElsewhere
  <2>1. \A u \in Threads : [call[u] EXCEPT !.token = Withdrawn(@)] \in Call
    BY WithdrawnFacts
  <2>2. Stale(Withdrawn(token)) \in Token \cup {NoToken}
    BY WithdrawnFacts, StaleFacts DEF Stale
  <2> QED
    BY <1>10, <2>1, <2>2 DEF IssueElsewhere
<1>11. CASE UNCHANGED vars
    BY <1>11 DEF vars
<1> QED
    BY <1>1, <1>2, <1>3, <1>4, <1>5, <1>6, <1>7, <1>8, <1>9, <1>10, <1>11 DEF Next, Step

-----------------------------------------------------------------------------
(* Steps *)

\* A step that leaves the cache alone leaves those alone that do not move.
LEMMA Bystander ==
    ASSUME IInv, NEW u \in Threads, call'[u] = call[u], UNCHANGED <<now, token>>
    PROVE  Sound(u)'
BY DEF IInv, Sound, Young, Fetched, Outlives, At

\* A cache that stays is sound while those that fetched a token stay where they are.
LEMMA CacheStays ==
    ASSUME IInv, UNCHANGED <<now, token, expires_at>>,
           \A u \in Threads : At(u, "token") => call'[u] = call[u]
    PROVE  CacheIsSound'
BY DEF IInv, CacheIsSound, Replaced, At

LEMMA LookStep ==
    ASSUME IInv, TypeOK', NEW t \in Threads,
           Begin(t) \/ Look(t) \/ Take(t) \/ FetchFails(t) \/ Post(t)
    PROVE  CacheIsSound' /\ \A u \in Threads : Sound(u)'
<1>1. /\ UNCHANGED <<now, token, expires_at>> /\ ~At(t, "token")
      /\ \A u \in Threads \ {t} : call'[u] = call[u]
  BY DEF Begin, Look, Take, FetchFails, Post, Goto, At, IInv, TypeOK
<1>2. CacheIsSound'
  BY <1>1, CacheStays
<1>3. ASSUME NEW u \in Threads, u # t PROVE Sound(u)'
  BY <1>1, <1>3, Bystander
<1>4. /\ call \in [Threads -> Call] /\ now \in Nat /\ expires_at \in Nat
      /\ token \in Token \cup {NoToken} /\ call[t] \in Call /\ call[t].began \in Nat
      /\ Young(t) /\ Fetched(t) /\ Outlives(t)
  BY DEF IInv, TypeOK, Sound, Call
<1>5. token # NoToken => token.until \in Nat /\ token.cut \in BOOLEAN
  BY <1>4 DEF Token
<1>6. ASSUME Begin(t) PROVE Sound(t)'
  BY <1>4, <1>6 DEF Begin, Idle, Sound, Young, Fetched, Outlives, At
<1>7. ASSUME Look(t) PROVE Sound(t)'
  <2>1. /\ call'[t].began = call[t].began /\ call'[t].at \in {"take", "fetch"}
        /\ call'[t].at = "take" => IsCached(t)
        /\ ~At(t, "idle")
    BY <1>4, <1>7 DEF Look, Goto, At, Call
  <2>2. CASE IsCached(t)
    <3>1. token # NoToken /\ call[t].began < expires_at
      BY <2>2 DEF IsCached
    <3>2. ~token.cut => call[t].began + MaxCall < token.until
      BY <1>4, <1>5, <3>1 DEF IInv, CacheIsSound
    <3> QED BY <1>1, <1>4, <2>1, <3>1, <3>2 DEF Sound, Young, Fetched, Outlives, At
  <2>3. CASE ~IsCached(t)
    BY <1>1, <1>4, <2>1, <2>3 DEF Sound, Young, Fetched, Outlives, At
  <2> QED BY <2>2, <2>3
<1>8. ASSUME Take(t) PROVE Sound(t)'
  <2>1. /\ call'[t].began = call[t].began /\ call'[t].at = "post"
        /\ call'[t].token = token /\ At(t, "take")
    BY <1>4, <1>8 DEF Take, At, Call
  <2>2. token # NoToken /\ (~token.cut => call[t].began + MaxCall < token.until)
        /\ call[t].began <= now /\ now <= call[t].began + MaxCall
    BY <1>4, <2>1 DEF Outlives, Young, At
  <2>3. CASE token.cut /\ ~token.stale
    <3>1. PICK u \in Threads : At(u, "token") /\ call[u].began + Overlap <= token.until
      BY <2>2, <2>3 DEF IInv, CacheIsSound, Replaced
    <3>2. call[u].began \in Nat /\ now <= call[u].began + MaxCall
      BY <3>1 DEF IInv, TypeOK, Call, Sound, Young, At
    <3>3. call[t].began + MaxCall < token.until
      BY <1>4, <1>5, <2>2, <3>1, <3>2
    <3> QED BY <1>1, <2>1, <2>2, <3>3 DEF Sound, Young, Fetched, Outlives, At
  <2>4. CASE ~(token.cut /\ ~token.stale)
    BY <1>1, <1>5, <2>1, <2>2, <2>4 DEF Sound, Young, Fetched, Outlives, At
  <2> QED BY <2>3, <2>4
<1>9. ASSUME FetchFails(t) \/ Post(t) PROVE Sound(t)'
  BY <1>4, <1>9 DEF FetchFails, Post, Idle, Sound, Young, Fetched, Outlives, At
<1> QED BY <1>2, <1>3, <1>6, <1>7, <1>8, <1>9

\* A token that is issued leaves those that are not to have it sound.
LEMMA Withdraws ==
    ASSUME IInv, NEW u \in Threads, UNCHANGED now,
           call'[u] = [call[u] EXCEPT !.token = Withdrawn(@)],
           token' = Withdrawn(token) \/ token' = Stale(Withdrawn(token))
    PROVE  Sound(u)'
<1>1. /\ now \in Nat /\ call[u] \in Call /\ call[u].began \in Nat
      /\ call[u].token \in Token \cup {NoToken}
      /\ token \in Token \cup {NoToken}
      /\ Young(u) /\ Fetched(u) /\ Outlives(u)
  BY DEF IInv, TypeOK, Sound, Call
<1> DEFINE k == call[u].token
           w == Withdrawn(k)
<1>2. call'[u].at = call[u].at /\ call'[u].began = call[u].began /\ call'[u].token = w
  BY <1>1 DEF Call
<1>3. /\ w \in Token \cup {NoToken} /\ (w = NoToken <=> k = NoToken)
      /\ k # NoToken => /\ w.stale = k.stale
                        /\ w = k \/ (w.cut /\ w.until = now + Overlap)
  <2>1. k \in Token \cup {NoToken} /\ now \in Nat
    BY <1>1
  <2>2. w = Withdrawn(k)
    OBVIOUS
  <2> HIDE DEF k, w
  <2> QED BY <2>1, <2>2, WithdrawnFacts
<1>4. /\ token' = NoToken <=> token = NoToken
      /\ token # NoToken /\ ~token'.cut => ~token.cut /\ token'.until = token.until
  <2> DEFINE v == Withdrawn(token)
  <2>1. /\ v \in Token \cup {NoToken} /\ (v = NoToken <=> token = NoToken)
        /\ token # NoToken => v = token \/ v.cut
    BY <1>1, WithdrawnFacts
  <2> HIDE DEF v
  <2>2. CASE v = NoToken
    BY <2>1, <2>2 DEF Stale, v
  <2>3. CASE v # NoToken
    <3>1. /\ Stale(v) \in Token /\ Stale(v).until = v.until /\ Stale(v).cut = v.cut
      BY <2>1, <2>3, StaleFacts
    <3>2. token' = v \/ token' = Stale(v)
      BY DEF v
    <3> QED BY <2>1, <2>3, <3>1, <3>2
  <2> QED BY <2>2, <2>3
<1>5. k # NoToken => k.until \in Nat /\ k.cut \in BOOLEAN
  BY <1>1 DEF Token
<1> HIDE DEF k, w
<1>6. Young(u)'
  BY <1>1, <1>2 DEF Young, At
<1>7. ~At(u, "idle") => call[u].began <= now /\ now <= call[u].began + MaxCall
  BY <1>1 DEF Young
<1>8. Fetched(u)'
  <2>1. At(u, "token") \/ At(u, "expiry") =>
            /\ k # NoToken
            /\ IF k.cut THEN call[u].began + Overlap <= k.until
               ELSE call[u].began + Lifetime <= k.until
    BY <1>1 DEF Fetched, k
  <2>2. At(u, "token") \/ At(u, "expiry") =>
            /\ w # NoToken
            /\ IF w.cut THEN call[u].began + Overlap <= w.until
               ELSE call[u].began + Lifetime <= w.until
    BY <1>1, <1>3, <1>5, <1>7, <2>1 DEF At
  <2>3. At(u, "expiry") =>
            /\ token' # NoToken
            /\ ~token'.cut => call[u].began + Lifetime <= token'.until + MaxCall
    BY <1>1, <1>4 DEF Fetched
  <2> QED BY <1>2, <2>2, <2>3 DEF Fetched, At
<1>9. Outlives(u)'
  <2>1. At(u, "post") => k # NoToken /\ (k.stale \/ call[u].began + MaxCall < k.until)
    BY <1>1 DEF Outlives, k
  <2>2. At(u, "post") => w # NoToken /\ (w.stale \/ call[u].began + MaxCall < w.until)
    BY <1>1, <1>3, <1>5, <1>7, <2>1 DEF At
  <2>3. At(u, "take") =>
            token' # NoToken /\ (~token'.cut => call[u].began + MaxCall < token'.until)
    BY <1>1, <1>4 DEF Outlives
  <2> QED BY <1>2, <2>2, <2>3 DEF Outlives, At
<1> QED BY <1>6, <1>8, <1>9 DEF Sound

LEMMA FetchStep ==
    ASSUME IInv, TypeOK', NEW t \in Threads, Fetch(t)
    PROVE  CacheIsSound' /\ \A u \in Threads : Sound(u)'
<1>1. /\ now \in Nat /\ call[t] \in Call /\ call[t].began \in Nat
      /\ token \in Token \cup {NoToken} /\ expires_at \in Nat
      /\ Young(t) /\ CacheIsSound
      /\ UNCHANGED <<now, expires_at>> /\ token' = Withdrawn(token) /\ At(t, "fetch")
  BY DEF IInv, TypeOK, Sound, Call, Fetch
<1>2. call'[t].at = "token" /\ call'[t].began = call[t].began /\ call'[t].token = Fresh
  BY <1>1 DEF Fetch, Call
<1>3. \A u \in Threads \ {t} : call'[u] = [call[u] EXCEPT !.token = Withdrawn(@)]
  BY DEF Fetch
<1>4. call[t].began <= now /\ now <= call[t].began + MaxCall
  BY <1>1 DEF Young, At
<1>5. Sound(t)'
  <2>1. Fresh \in Token /\ ~Fresh.cut /\ Fresh.until = now + Lifetime
    BY <1>1, FreshFacts
  <2> QED BY <1>1, <1>2, <1>4, <2>1 DEF Sound, Young, Fetched, Outlives, At
<1>6. ASSUME NEW u \in Threads, u # t PROVE Sound(u)'
  BY <1>1, <1>3, <1>6, Withdraws
<1>7. CacheIsSound'
  <2>1. /\ token' = NoToken <=> token = NoToken
        /\ token # NoToken => \/ token' = token
                              \/ token'.cut /\ token'.until = now + Overlap
    BY <1>1, WithdrawnFacts
  <2>2. ASSUME token' # NoToken, token'.cut, ~token'.stale PROVE Replaced(token.until)'
    <3>1. CASE token' = token
      <4>1. PICK u \in Threads : At(u, "token") /\ call[u].began + Overlap <= token.until
        BY <1>1, <2>2, <3>1 DEF CacheIsSound, Replaced
      <4>2. u # t
        BY <1>1, <4>1 DEF At
      <4>3. call'[u].at = call[u].at /\ call'[u].began = call[u].began
        BY <1>3, <4>2 DEF IInv, TypeOK, Call
      <4> QED BY <3>1, <4>1, <4>3 DEF Replaced, At
    <3>2. CASE token'.until = now + Overlap
      BY <1>1, <1>2, <1>4, <3>2 DEF Replaced, At
    <3> QED BY <2>1, <2>2, <3>1, <3>2
  <2> QED BY <1>1, <2>1, <2>2 DEF CacheIsSound
<1> QED BY <1>5, <1>6, <1>7

LEMMA ElsewhereStep ==
    ASSUME IInv, TypeOK', IssueElsewhere
    PROVE  CacheIsSound' /\ \A u \in Threads : Sound(u)'
<1>1. /\ now \in Nat /\ token \in Token \cup {NoToken} /\ expires_at \in Nat
      /\ CacheIsSound
      /\ UNCHANGED <<now, expires_at>> /\ token' = Stale(Withdrawn(token))
  BY DEF IInv, TypeOK, IssueElsewhere
<1>2. ASSUME NEW u \in Threads PROVE Sound(u)'
  <2>1. call'[u] = [call[u] EXCEPT !.token = Withdrawn(@)]
    BY DEF IssueElsewhere
  <2> QED BY <1>1, <2>1, Withdraws
<1>3. CacheIsSound'
  <2> DEFINE v == Withdrawn(token)
  <2>1. /\ v \in Token \cup {NoToken} /\ (v = NoToken <=> token = NoToken)
        /\ token # NoToken => v = token \/ v.cut
    BY <1>1, WithdrawnFacts
  <2>2. token' = Stale(v)
    BY <1>1
  <2> HIDE DEF v
  <2>3. CASE v = NoToken
    BY <1>1, <2>1, <2>2, <2>3 DEF CacheIsSound, Stale
  <2>4. CASE v # NoToken
    <3>1. /\ token' \in Token /\ token'.until = v.until /\ token'.cut = v.cut
          /\ token'.stale = v.cut
      BY <2>1, <2>2, <2>4, StaleFacts
    <3> QED BY <1>1, <2>1, <2>4, <3>1 DEF CacheIsSound
  <2> QED BY <2>3, <2>4
<1> QED BY <1>2, <1>3

LEMMA StoreTokenStep ==
    ASSUME IInv, TypeOK', NEW t \in Threads, StoreToken(t)
    PROVE  CacheIsSound' /\ \A u \in Threads : Sound(u)'
<1> DEFINE k == call[t].token
<1>1. /\ now \in Nat /\ call \in [Threads -> Call] /\ call[t].began \in Nat
      /\ expires_at \in Nat /\ Young(t) /\ Fetched(t) /\ CacheIsSound
      /\ UNCHANGED <<now, expires_at>> /\ At(t, "token") /\ token' = Stale(k)
      /\ k \in Token
  BY DEF IInv, TypeOK, Sound, Call, StoreToken, Fetched
<1>2. /\ call'[t].at = "expiry" /\ call'[t].began = call[t].began /\ call'[t].token = k
      /\ \A u \in Threads \ {t} : call'[u] = call[u]
  BY <1>1 DEF StoreToken, Goto, Call
<1>3. call[t].began <= now /\ now <= call[t].began + MaxCall
  BY <1>1 DEF Young, At
<1>4. IF k.cut THEN call[t].began + Overlap <= k.until
      ELSE call[t].began + Lifetime <= k.until
  BY <1>1 DEF Fetched
<1>5. /\ k.until \in Nat /\ k.cut \in BOOLEAN
      /\ token' \in Token /\ token' # NoToken /\ token'.until = k.until
      /\ token'.cut = k.cut /\ token'.stale = k.cut
  BY <1>1, StaleFacts DEF Token
<1> HIDE DEF k
<1>6. ~token'.cut => now + Lifetime <= token'.until + MaxCall
  BY <1>1, <1>3, <1>4, <1>5
<1>7. CacheIsSound'
  BY <1>1, <1>5, <1>6 DEF CacheIsSound
<1>8. Sound(t)'
  BY <1>1, <1>2, <1>3, <1>4, <1>5, <1>6 DEF Sound, Young, Fetched, Outlives, At
<1>9. ASSUME NEW u \in Threads, u # t PROVE Sound(u)'
  <2>1. call'[u] = call[u] /\ call[u] \in Call /\ call[u].began \in Nat
        /\ Young(u) /\ Fetched(u) /\ Outlives(u)
    BY <1>1, <1>2, <1>9 DEF IInv, Sound, Call
  <2>2. ~At(u, "idle") => /\ call[u].began <= now
                          /\ ~token'.cut => /\ call[u].began + Lifetime <= token'.until + MaxCall
                                            /\ call[u].began + MaxCall < token'.until
    BY <1>1, <1>5, <1>6, <2>1 DEF Young
  <2> QED BY <1>1, <1>5, <2>1, <2>2 DEF Sound, Young, Fetched, Outlives, At
<1> QED BY <1>7, <1>8, <1>9

LEMMA StoreExpiryStep ==
    ASSUME IInv, TypeOK', NEW t \in Threads, StoreExpiry(t)
    PROVE  CacheIsSound' /\ \A u \in Threads : Sound(u)'
<1>1. /\ now \in Nat /\ call \in [Threads -> Call] /\ call[t].began \in Nat
      /\ Young(t) /\ Fetched(t) /\ CacheIsSound
      /\ UNCHANGED <<now, token>> /\ At(t, "expiry")
      /\ expires_at' = call[t].began + CacheFor
      /\ token \in Token /\ call[t].token \in Token
  BY DEF IInv, TypeOK, Sound, Call, StoreExpiry, Fetched
<1>2. /\ call'[t].at = "post" /\ call'[t].began = call[t].began
      /\ call'[t].token = call[t].token
      /\ \A u \in Threads \ {t} : call'[u] = call[u]
  BY <1>1 DEF StoreExpiry, Goto, Call
<1>3. call[t].began <= now /\ now <= call[t].began + MaxCall
  BY <1>1 DEF Young, At
<1>4. /\ token.until \in Nat /\ call[t].token.until \in Nat /\ token # NoToken
      /\ call[t].token.cut \in BOOLEAN
  BY <1>1 DEF Token
<1>5. CacheIsSound'
  <2>1. expires_at' + Margin = call[t].began + Lifetime
    BY <1>1, CacheForValue
  <2>2. ~token.cut => call[t].began + Lifetime <= token.until + MaxCall
    BY <1>1 DEF Fetched
  <2>3. Replaced(token.until) => Replaced(token.until)'
    <3>1. ASSUME NEW u \in Threads, At(u, "token") PROVE call'[u] = call[u]
      BY <1>1, <1>2, <3>1 DEF At
    <3> QED BY <1>1, <3>1 DEF Replaced, At
  <2> QED BY <1>1, <1>3, <1>4, <2>1, <2>2, <2>3 DEF CacheIsSound
<1>6. Sound(t)'
  <2>1. IF call[t].token.cut THEN call[t].began + Overlap <= call[t].token.until
        ELSE call[t].began + Lifetime <= call[t].token.until
    BY <1>1 DEF Fetched
  <2>2. call[t].began + MaxCall < call[t].token.until
    BY <1>1, <1>4, <2>1
  <2> QED BY <1>1, <1>2, <1>3, <2>2 DEF Sound, Young, Fetched, Outlives, At
<1>7. ASSUME NEW u \in Threads, u # t PROVE Sound(u)'
  BY <1>1, <1>2, <1>7, Bystander
<1> QED BY <1>5, <1>6, <1>7

LEMMA TickStep ==
    ASSUME IInv, TypeOK', Tick
    PROVE  CacheIsSound' /\ \A u \in Threads : Sound(u)'
<1>1. /\ UNCHANGED <<token, expires_at, call>> /\ now' = now + 1
      /\ now \in Nat /\ expires_at \in Nat
      /\ \A t \in Threads : ~At(t, "idle") => now < call[t].began + MaxCall
  BY DEF Tick, IInv, TypeOK
<1>2. CacheIsSound'
  BY <1>1 DEF IInv, CacheIsSound, Replaced, At
<1>3. ASSUME NEW u \in Threads PROVE Sound(u)'
  <2>1. call[u].began \in Nat /\ Young(u) /\ Fetched(u) /\ Outlives(u)
    BY DEF IInv, TypeOK, Call, Sound
  <2>2. Young(u)'
    BY <1>1, <2>1 DEF Young, At
  <2>3. Fetched(u)' /\ Outlives(u)'
    BY <1>1, <2>1 DEF Fetched, Outlives, At
  <2> QED BY <2>2, <2>3 DEF Sound
<1> QED BY <1>2, <1>3

LEMMA NextIInv == IInv /\ [Next]_vars => IInv'
<1> SUFFICES ASSUME IInv, [Next]_vars PROVE IInv'
  OBVIOUS
<1>1. TypeOK'
  BY TypeStep DEF IInv
<1>2. CASE Next
  BY <1>1, <1>2, LookStep, FetchStep, StoreTokenStep, StoreExpiryStep, TickStep,
     ElsewhereStep DEF Next, Step, IInv
<1>3. CASE UNCHANGED vars
  <2>1. UNCHANGED <<now, token, expires_at, call>>
    BY <1>3 DEF vars
  <2>2. \A u \in Threads : call'[u] = call[u]
    BY <2>1
  <2> QED BY <1>1, <2>1, <2>2, CacheStays, Bystander DEF IInv
<1> QED BY <1>2, <1>3

\* The types of the transport's state, through any race of its threads.
THEOREM TypeCorrect == Spec => []TypeOK
<1>1. Init => TypeOK
    BY InitIInv DEF IInv
<1> QED
    BY <1>1, TypeStep, PTL DEF Spec

\* No message goes out with a token WeChat no longer accepts, whatever the
\* threads that refresh the cache at once write over each other (69-87), but for
\* one that was cut short and is in the cache to stay.
THEOREM TokensAccepted == Spec => []TokenIsAccepted
<1>1. IInv => TokenIsAccepted
  <2> SUFFICES ASSUME IInv, NEW t \in Threads, At(t, "post")
               PROVE  /\ call[t].token # NoToken
                      /\ now < call[t].token.until \/ call[t].token.stale
    BY DEF TokenIsAccepted
  <2>1. /\ call[t].began \in Nat /\ now \in Nat /\ Young(t) /\ Outlives(t)
        /\ call[t].token \in Token \cup {NoToken}
    BY DEF IInv, TypeOK, Call, Sound
  <2>2. call[t].token # NoToken => call[t].token.until \in Nat
    BY <2>1 DEF Token
  <2> QED BY <2>1, <2>2 DEF Young, Outlives, At
<1> QED
    BY <1>1, InitIInv, NextIInv, PTL DEF Spec

=============================================================================
