---------------------------- MODULE InstallerProofs ----------------------------
(***************************************************************************)
(* What TLAPS proves of Installer, for any wrappers and any number of      *)
(* installers: that a wrapper once written out is as it was written, or    *)
(* known to have changed, so that the manifest vouches for it, and that    *)
(* nobody else's wrapper is overwritten unforced once it has been seen.    *)
(***************************************************************************)
EXTENDS Installer, TLAPS

\* The wrapper is as an installer wrote it, or has been changed since.
Accounted(w) == files[w] = "ours" \/ w \in changed

\* What each installer has written so far, the wrapper in hand, and what the
\* manifest stands for.
WrittenInv ==
    /\ \A i \in Installers :
          /\ job[i].at \in {"wrappers", "truncate", "fill"} /\ job[i].ok
                => \A w \in Wrappers \ job[i].todo : Accounted(w)
          /\ job[i].at \in {"manifest", "list"} => \A w \in Wrappers : Accounted(w)
          /\ job[i].at = "fill" => \A w \in job[i].wrapper : Accounted(w)
    /\ manifest = "current" => \A w \in Wrappers : Accounted(w)

IInv == TypeOK /\ WrittenInv

-----------------------------------------------------------------------------

\* A run with other wrappers to do is still a run: after a refusal, and after a
\* wrapper was filled.
LEMMA RefusedJob ==
    ASSUME NEW j \in Job, NEW rest \in SUBSET Wrappers
    PROVE  [j EXCEPT !.todo = rest, !.ok = FALSE] \in Job
  BY DEF Job

LEMMA FilledJob ==
    ASSUME NEW j \in Job, NEW rest \in SUBSET Wrappers, NEW next,
           next = [j EXCEPT !.at = "wrappers", !.todo = rest,
                            !.wrapper = {}, !.stale = FALSE]
    PROVE  /\ next \in Job
           /\ next.at = "wrappers" /\ next.ok = j.ok
           /\ next.todo = rest /\ next.wrapper = {}
  BY DEF Job, Steps

\* Every step keeps the types (installer.py 40-111).
LEMMA TypeStep == TypeOK /\ [Next]_vars => TypeOK'
<1> SUFFICES ASSUME TypeOK, [Next]_vars PROVE TypeOK'
  OBVIOUS
<1> USE DEF TypeOK, Contents, Manifests, Configs, Job, Steps
<1>0. Idle \in Job
  BY DEF Idle
<1>a. ASSUME NEW ws, NEW others PROVE Surprised(ws, others) \in [Installers -> Job]
  BY ZenonT(60) DEF Surprised
<1>1. ASSUME NEW i \in Installers, Step(i) PROVE TypeOK'
  <2>1. ASSUME NEW force \in BOOLEAN, Start(i, force) PROVE TypeOK'
    BY <2>1, <1>0 DEF Start, Idle
  <2>2. CASE CheckConfig(i)
    <3>1. CASE Ended(i)
      BY <2>2, <1>0, <3>1 DEF CheckConfig, Ended
    <3>2. CASE job' = [job EXCEPT ![i].at = "target"]
      BY <2>2, <3>2 DEF CheckConfig
    <3> QED BY <2>2, <3>1, <3>2 DEF CheckConfig
  <2>3. CASE CheckTarget(i)
    <3>1. CASE Ended(i)
      BY <2>3, <1>0, <3>1 DEF CheckTarget, Ended
    <3>2. CASE job' = [job EXCEPT ![i] =
                            [@ EXCEPT !.at = "wrappers", !.todo = Wrappers]]
      BY <2>3, <3>2, ZenonT(90) DEF CheckTarget
    <3> QED BY <2>3, <3>1, <3>2 DEF CheckTarget
  <2>4. ASSUME NEW w \in Wrappers, Refuse(i, w) PROVE TypeOK'
    <3> DEFINE next == [job[i] EXCEPT !.todo = job[i].todo \ {w}, !.ok = FALSE]
    <3>1. next \in Job
      <4>1. job[i] \in Job
        OBVIOUS
      <4>2. job[i].todo \ {w} \in SUBSET Wrappers
        BY <4>1
      <4> QED BY <4>1, <4>2, RefusedJob
    <3>2. job' = [job EXCEPT ![i] = next]
      BY <2>4 DEF Refuse
    <3>3. job' \in [Installers -> Job]
      <4> HIDE DEF next
      <4> QED BY <3>1, <3>2
    <3> QED BY <2>4, <3>3 DEF Refuse
  <2>5. ASSUME NEW w \in Wrappers, Accept(i, w) PROVE TypeOK'
    <3> DEFINE next == [job[i] EXCEPT !.at = "truncate", !.wrapper = {w},
                                       !.stale = FALSE]
    <3>1. next \in Job
      OBVIOUS
    <3>2. job' = [job EXCEPT ![i] = next]
      BY <2>5 DEF Accept
    <3>3. job' \in [Installers -> Job]
      <4> HIDE DEF next
      <4> QED BY <3>1, <3>2
    <3> QED BY <2>5, <3>3 DEF Accept
  <2>6. CASE Truncate(i)
    <3> DEFINE others == Surprised(job[i].wrapper, Installers \ {i})
    <3>1. others \in [Installers -> Job]
      BY <1>a
    <3>2. job' = [others EXCEPT ![i].at = "fill"]
      BY <2>6 DEF Truncate
    <3>3. job' \in [Installers -> Job]
      <4> HIDE DEF others
      <4> QED BY <3>1, <3>2, ZenonT(120)
    <3> QED BY <2>6, <3>3 DEF Truncate
  <2>7. CASE Fill(i)
    <3>1. PICK w \in job[i].wrapper, c \in Contents :
             /\ files' = [files EXCEPT ![w] = c]
             /\ changed' = IF c = "ours" THEN changed \ {w} ELSE changed
             /\ job' = [Surprised({w}, Installers \ {i})
                          EXCEPT ![i] =
                       [@ EXCEPT !.at = "wrappers", !.todo = job[i].todo \ {w},
                                 !.wrapper = {}, !.stale = FALSE]]
      BY <2>7 DEF Fill
    <3> DEFINE others == Surprised({w}, Installers \ {i})
    <3> DEFINE next == [others[i] EXCEPT !.at = "wrappers", !.todo = job[i].todo \ {w},
                                          !.wrapper = {}, !.stale = FALSE]
    <3>2. others \in [Installers -> Job]
      BY <1>a
    <3>3. next \in Job
      <4>1. others[i] \in Job
        <5> HIDE DEF others
        <5> QED BY <3>2
      <4>2. job[i].todo \ {w} \in SUBSET Wrappers
        OBVIOUS
      <4> HIDE DEF others
      <4> QED BY <4>1, <4>2, FilledJob
    <3>4. job' = [others EXCEPT ![i] = next]
      BY <3>1
    <3>5. job' \in [Installers -> Job]
      <4> HIDE DEF others, next
      <4> QED BY <3>2, <3>3, <3>4
    <3> QED BY <2>7, <3>1, <3>5 DEF Fill
  <2>8. CASE Conclude(i)
    BY <2>8, <1>0 DEF Conclude, Ended
  <2>9. CASE TruncateManifest(i)
    BY <2>9 DEF TruncateManifest
  <2>10. CASE FillManifest(i)
    BY <2>10, <1>0 DEF FillManifest, Ended
  <2>11. CASE Crash(i)
    BY <2>11, <1>0 DEF Crash, Ended
  <2> QED BY <1>1, <2>1, <2>2, <2>3, <2>4, <2>5, <2>6, <2>7, <2>8, <2>9, <2>10,
             <2>11 DEF Step
<1>2. ASSUME NEW w \in Wrappers, EditWrapper(w) PROVE TypeOK'
  BY <1>2, <1>a DEF EditWrapper
<1>3. CASE EditConfig
  BY <1>3 DEF EditConfig
<1>4. CASE UNCHANGED vars
  BY <1>4 DEF vars
<1> QED BY <1>1, <1>2, <1>3, <1>4 DEF Next

\* The jobs of the others keep all but the mark that they are out of date.
LEMMA SurprisedKeeps ==
    ASSUME TypeOK, NEW ws, NEW others, NEW i \in Installers
    PROVE  LET j == Surprised(ws, others)[i]
           IN  /\ j.at = job[i].at /\ j.ok = job[i].ok
               /\ j.todo = job[i].todo /\ j.wrapper = job[i].wrapper
  BY DEF Surprised, TypeOK, Job

\* A wrapper that is accounted for stays so, through every step of anybody.
LEMMA AccountedStays ==
    ASSUME TypeOK, [Next]_vars, NEW w \in Wrappers, Accounted(w)
    PROVE  Accounted(w)'
<1> USE DEF Accounted
<1>1. ASSUME NEW i \in Installers, Step(i) PROVE Accounted(w)'
  <2>1. CASE Truncate(i)
    BY <2>1 DEF Truncate, TypeOK
  <2>2. CASE Fill(i)
    BY <2>2 DEF Fill, Filled, TypeOK
  <2>3. CASE ~Truncate(i) /\ ~Fill(i)
    BY <1>1, <2>3 DEF Step, Start, CheckConfig, CheckTarget, Refuse, Accept,
       Conclude, TruncateManifest, FillManifest, Crash
  <2> QED BY <2>1, <2>2, <2>3
<1>2. ASSUME NEW v \in Wrappers, EditWrapper(v) PROVE Accounted(w)'
  BY <1>2 DEF EditWrapper, TypeOK
<1>3. CASE EditConfig
  BY <1>3 DEF EditConfig
<1>4. CASE UNCHANGED vars
  BY <1>4 DEF vars
<1> QED BY <1>1, <1>2, <1>3, <1>4 DEF Next

-----------------------------------------------------------------------------

\* In no run so far, and by no manifest, is a wrapper taken for written out that
\* is not accounted for: each installer adds only what it has just written.
LEMMA WrittenStep == IInv /\ [Next]_vars => WrittenInv'
<1> SUFFICES ASSUME IInv, [Next]_vars PROVE WrittenInv'
  OBVIOUS
<1>0. TypeOK /\ TypeOK'
  BY TypeStep DEF IInv
<1>a. \A w \in Wrappers : Accounted(w) => Accounted(w)'
  BY <1>0, AccountedStays
<1> USE DEF IInv, WrittenInv
<1>b. ASSUME UNCHANGED <<job, manifest>> PROVE WrittenInv'
  BY <1>0, <1>a, <1>b DEF TypeOK, Job
<1>c. ASSUME NEW ws, NEW others, job' = Surprised(ws, others), UNCHANGED manifest
      PROVE  WrittenInv'
  <2>1. \A i \in Installers :
           /\ job'[i].at = job[i].at /\ job'[i].ok = job[i].ok
           /\ job'[i].todo = job[i].todo /\ job'[i].wrapper = job[i].wrapper
    BY <1>0, <1>c, SurprisedKeeps
  <2> QED BY <1>0, <1>a, <1>c, <2>1 DEF TypeOK, Job
<1>1. ASSUME NEW i \in Installers, Step(i) PROVE WrittenInv'
  \* The jobs of the others count for what they counted before.
  <2> DEFINE Kept == \A j \in Installers \ {i} :
                /\ job'[j].at = job[j].at /\ job'[j].ok = job[j].ok
                /\ job'[j].todo = job[j].todo /\ job'[j].wrapper = job[j].wrapper
             Own == /\ job'[i].at \in {"wrappers", "truncate", "fill"} /\ job'[i].ok
                          => \A w \in Wrappers \ job'[i].todo : Accounted(w)'
                    /\ job'[i].at \in {"manifest", "list"}
                          => \A w \in Wrappers : Accounted(w)'
                    /\ job'[i].at = "fill" => \A w \in job'[i].wrapper : Accounted(w)'
  <2>a. ASSUME Kept, Own, manifest' = "current" => \A w \in Wrappers : Accounted(w)'
        PROVE  WrittenInv'
    <3>1. ASSUME NEW j \in Installers \ {i}
          PROVE  /\ job'[j].at \in {"wrappers", "truncate", "fill"} /\ job'[j].ok
                       => \A w \in Wrappers \ job'[j].todo : Accounted(w)'
                 /\ job'[j].at \in {"manifest", "list"}
                       => \A w \in Wrappers : Accounted(w)'
                 /\ job'[j].at = "fill" => \A w \in job'[j].wrapper : Accounted(w)'
      <4>1. /\ job'[j].at = job[j].at /\ job'[j].ok = job[j].ok
            /\ job'[j].todo = job[j].todo /\ job'[j].wrapper = job[j].wrapper
        BY <2>a, <3>1
      <4>2. job[j].wrapper \subseteq Wrappers
        BY <1>0 DEF TypeOK, Job
      <4> QED BY <4>1, <4>2, <1>a
    <3> QED BY <2>a, <3>1
  <2>b. ASSUME UNCHANGED manifest PROVE manifest' = "current" => \A w \in Wrappers : Accounted(w)'
    BY <2>b, <1>a
  <2>1. ASSUME NEW force \in BOOLEAN, Start(i, force) PROVE WrittenInv'
    <3>1. Kept /\ Own
      BY <1>0, <2>1 DEF Start, Idle, TypeOK
    <3> QED BY <2>1, <2>a, <2>b, <3>1 DEF Start
  <2>c. ASSUME Ended(i) PROVE Kept /\ Own
    BY <1>0, <2>c DEF Ended, Idle, TypeOK
  <2>2. CASE CheckConfig(i)
    <3>1. Kept /\ Own
      <4>1. CASE Ended(i)
        BY <4>1, <2>c
      <4>2. CASE job' = [job EXCEPT ![i].at = "target"]
        BY <1>0, <4>2 DEF TypeOK, Job
      <4> QED BY <2>2, <4>1, <4>2 DEF CheckConfig
    <3> QED BY <2>2, <2>a, <2>b, <3>1 DEF CheckConfig
  <2>3. CASE CheckTarget(i)
    <3>1. Kept /\ Own
      <4>1. CASE Ended(i)
        BY <4>1, <2>c
      <4>2. CASE job' = [job EXCEPT ![i] =
                            [@ EXCEPT !.at = "wrappers", !.todo = Wrappers]]
        BY <1>0, <4>2 DEF TypeOK, Job
      <4> QED BY <2>3, <4>1, <4>2 DEF CheckTarget
    <3> QED BY <2>3, <2>a, <2>b, <3>1 DEF CheckTarget
  <2>4. ASSUME NEW w \in Wrappers, Refuse(i, w) PROVE WrittenInv'
    <3>1. Kept /\ Own
      BY <1>0, <1>a, <2>4 DEF Refuse, At, TypeOK, Job
    <3> QED BY <2>4, <2>a, <2>b, <3>1 DEF Refuse
  <2>5. ASSUME NEW w \in Wrappers, Accept(i, w) PROVE WrittenInv'
    <3>1. Kept /\ Own
      BY <1>0, <1>a, <2>5, SMTT(60) DEF Accept, At, TypeOK, Job
    <3> QED BY <2>5, <2>a, <2>b, <3>1 DEF Accept
  <2>6. CASE Truncate(i)
    <3> DEFINE others == Surprised(job[i].wrapper, Installers \ {i})
    <3>1. \A j \in Installers :
             /\ others[j].at = job[j].at /\ others[j].ok = job[j].ok
             /\ others[j].todo = job[j].todo /\ others[j].wrapper = job[j].wrapper
      BY <1>0, SurprisedKeeps
    <3>2. others \in [Installers -> Job]
      BY <1>0, ZenonT(60) DEF Surprised, TypeOK, Job
    <3>3. job' = [others EXCEPT ![i].at = "fill"]
      BY <2>6 DEF Truncate
    <3>4. /\ Kept
          /\ job'[i].at = "fill" /\ job'[i].ok = job[i].ok
          /\ job'[i].todo = job[i].todo /\ job'[i].wrapper = job[i].wrapper
      <4> HIDE DEF others
      <4> QED BY <3>1, <3>2, <3>3 DEF Job
    <3>5. \A w \in job[i].wrapper : Accounted(w)'
      BY <2>6 DEF Truncate, Accounted
    <3>6. Own
      BY <1>a, <2>6, <3>4, <3>5 DEF Truncate, At
    <3> QED BY <2>6, <2>a, <2>b, <3>4, <3>6 DEF Truncate
  <2>7. CASE Fill(i)
    <3>1. PICK w \in job[i].wrapper, c \in Contents :
             /\ c \in Filled(files[w])
             /\ files' = [files EXCEPT ![w] = c]
             /\ job' = [Surprised({w}, Installers \ {i})
                          EXCEPT ![i] =
                       [@ EXCEPT !.at = "wrappers", !.todo = job[i].todo \ {w},
                                 !.wrapper = {}, !.stale = FALSE]]
      BY <2>7 DEF Fill
    <3> DEFINE others == Surprised({w}, Installers \ {i})
    <3>2. \A j \in Installers :
             /\ others[j].at = job[j].at /\ others[j].ok = job[j].ok
             /\ others[j].todo = job[j].todo /\ others[j].wrapper = job[j].wrapper
      BY <1>0, SurprisedKeeps
    <3>3. others \in [Installers -> Job]
      BY <1>0, ZenonT(60) DEF Surprised, TypeOK, Job
    <3>4. /\ Kept
          /\ job'[i].at = "wrappers" /\ job'[i].ok = job[i].ok
          /\ job'[i].todo = job[i].todo \ {w} /\ job'[i].wrapper = {}
      <4> DEFINE next == [others[i] EXCEPT !.at = "wrappers", !.todo = job[i].todo \ {w},
                                            !.wrapper = {}, !.stale = FALSE]
      <4>1. job' = [others EXCEPT ![i] = next]
        BY <3>1
      <4>2. /\ next.at = "wrappers" /\ next.ok = others[i].ok
            /\ next.todo = job[i].todo \ {w} /\ next.wrapper = {}
        <5>1. others[i] \in Job
          <6> HIDE DEF others
          <6> QED BY <3>3
        <5>2. job[i].todo \ {w} \in SUBSET Wrappers
          BY <1>0 DEF TypeOK, Job
        <5> HIDE DEF others
        <5> QED BY <5>1, <5>2, FilledJob DEF Job, Steps
      <4> HIDE DEF others, next
      <4> QED BY <3>2, <3>3, <4>1, <4>2
    <3>5. Accounted(w)'
      <4>1. w \in Wrappers /\ Accounted(w)
        BY <1>0, <2>7 DEF Fill, At, TypeOK, Job
      <4> QED BY <4>1, <1>a
    <3>6. Own
      BY <1>a, <2>7, <3>4, <3>5 DEF Fill, At
    <3> QED BY <2>7, <2>a, <2>b, <3>4, <3>6 DEF Fill
  <2>8. CASE Conclude(i)
    <3>1. Kept /\ Own
      <4>1. CASE Ended(i)
        BY <4>1, <2>c
      <4>2. CASE job[i].ok /\ job' = [job EXCEPT ![i].at = "manifest"]
        BY <1>0, <1>a, <2>8, <4>2 DEF Conclude, At, TypeOK, Job
      <4> QED BY <2>8, <4>1, <4>2 DEF Conclude
    <3> QED BY <2>8, <2>a, <2>b, <3>1 DEF Conclude
  <2>9. CASE TruncateManifest(i)
    <3>1. Kept /\ Own
      BY <1>0, <1>a, <2>9 DEF TruncateManifest, At, TypeOK, Job
    <3> QED BY <2>9, <2>a, <3>1 DEF TruncateManifest
  <2>10. CASE FillManifest(i)
    <3>1. Kept /\ Own
      BY <2>10, <2>c DEF FillManifest
    <3>2. \A w \in Wrappers : Accounted(w)'
      BY <1>a, <2>10 DEF FillManifest, At
    <3> QED BY <2>a, <3>1, <3>2
  <2>11. CASE Crash(i)
    <3>1. Kept /\ Own
      BY <2>11, <2>c DEF Crash
    <3> QED BY <2>11, <2>a, <2>b, <3>1 DEF Crash
  <2> QED BY <1>1, <2>1, <2>2, <2>3, <2>4, <2>5, <2>6, <2>7, <2>8, <2>9, <2>10,
             <2>11 DEF Step
<1>2. ASSUME NEW w \in Wrappers, EditWrapper(w) PROVE WrittenInv'
  BY <1>2, <1>c DEF EditWrapper
<1>3. CASE EditConfig
  BY <1>3, <1>b DEF EditConfig
<1>4. CASE UNCHANGED vars
  BY <1>4, <1>b DEF vars
<1> QED BY <1>1, <1>2, <1>3, <1>4 DEF Next

\* In the beginning nobody has written anything.
LEMMA InitInv == Init => IInv
  BY DEF Init, IInv, TypeOK, WrittenInv, Idle, Job, Steps, Contents, Manifests,
     Configs

\* The inductive invariant holds in every state.
THEOREM Invariance == Spec => []IInv
<1>1. IInv /\ [Next]_vars => IInv'
  BY TypeStep, WrittenStep DEF IInv
<1> QED BY InitInv, <1>1, PTL DEF Spec

\* The installer's files, manifest and runs keep their types.
THEOREM TypeCorrect == Spec => []TypeOK
<1>1. IInv => TypeOK
  BY DEF IInv
<1> QED BY Invariance, <1>1, PTL

\* What verifies under this version's manifest was installed whole: each wrapper
\* is as it was written, or has been edited or cut short since, for any number of
\* wrappers and of installers that run beside each other and die anywhere.
THEOREM InstalledWhole == Spec => []VerifiedIsInstalled
<1>1. IInv => VerifiedIsInstalled
  BY DEF IInv, WrittenInv, Accounted, VerifiedIsInstalled
<1> QED BY Invariance, <1>1, PTL

-----------------------------------------------------------------------------
(* The look before the write *)

\* Who is about to write a wrapper has seen that it may, or has been overtaken.
LookedAt(i) ==
    job[i].at = "truncate" =>
        \A w \in job[i].wrapper :
            files[w] \in {"absent", "ours"} \/ job[i].force \/ job[i].stale

\* Somebody else changes some wrappers: who is about to write one is overtaken.
LEMMA OvertakenLooked ==
    ASSUME TypeOK, NEW i \in Installers, LookedAt(i), NEW ws, NEW others, i \in others,
           job'[i] = Surprised(ws, others)[i],
           \A w \in Wrappers \ ws : files'[w] = files[w]
    PROVE  LookedAt(i)'
<1>1. job[i] \in Job
  BY DEF TypeOK
<1>2. CASE job[i].wrapper \cap ws # {}
  <2>1. job'[i] = [job[i] EXCEPT !.stale = TRUE]
    BY <1>2 DEF Surprised
  <2>2. job'[i].stale
    BY <1>1, <2>1 DEF Job
  <2> QED BY <2>2 DEF LookedAt
<1>3. CASE job[i].wrapper \cap ws = {}
  <2>1. job'[i] = job[i]
    BY <1>3 DEF Surprised
  <2>2. \A w \in job[i].wrapper : files'[w] = files[w]
    BY <1>1, <1>3 DEF Job
  <2> QED BY <2>1, <2>2 DEF LookedAt
<1> QED BY <1>2, <1>3

LEMMA LookedStep ==
    ASSUME TypeOK, \A i \in Installers : LookedAt(i), [Next]_vars
    PROVE  \A i \in Installers : LookedAt(i)'
<1>a. ASSUME NEW i \in Installers, job'[i] = job[i], files' = files PROVE LookedAt(i)'
  BY <1>a DEF LookedAt
<1>b. ASSUME NEW i \in Installers, job'[i].at # "truncate" PROVE LookedAt(i)'
  BY <1>b DEF LookedAt
<1>1. ASSUME NEW k \in Installers, Step(k), NEW i \in Installers PROVE LookedAt(i)'
  <2>1. CASE \/ \E force \in BOOLEAN : Start(k, force)
             \/ CheckConfig(k) \/ CheckTarget(k)
             \/ Conclude(k) \/ TruncateManifest(k) \/ FillManifest(k) \/ Crash(k)
    <3> DEFINE Elsewhere == /\ i # k => job'[i] = job[i]
                            /\ i = k => job'[i].at # "truncate"
    <3>1. files' = files
      BY <2>1 DEF Start, CheckConfig, CheckTarget, Conclude, TruncateManifest,
                  FillManifest, Crash
    <3>2. ASSUME Ended(k) PROVE Elsewhere
      BY <3>2 DEF Ended, Idle, TypeOK
    <3>3. ASSUME \/ job' = [job EXCEPT ![k].at = "target"]
                 \/ job' = [job EXCEPT ![k].at = "manifest"]
                 \/ job' = [job EXCEPT ![k].at = "list"]
          PROVE  Elsewhere
      BY <3>3 DEF TypeOK, Job
    <3>4. ASSUME NEW force \in BOOLEAN, Start(k, force) PROVE Elsewhere
      BY <3>4 DEF Start, Idle, TypeOK
    <3>5. ASSUME CheckTarget(k) PROVE Elsewhere
      <4>1. CASE job' = [job EXCEPT ![k] = [@ EXCEPT !.at = "wrappers", !.todo = Wrappers]]
        BY <4>1 DEF TypeOK, Job
      <4> QED BY <3>2, <3>5, <4>1 DEF CheckTarget
    <3>6. Elsewhere
      <4> HIDE DEF Elsewhere
      <4> QED BY <2>1, <3>2, <3>3, <3>4, <3>5
              DEF CheckConfig, Conclude, TruncateManifest, FillManifest, Crash
    <3> QED BY <1>a, <1>b, <3>1, <3>6
  <2>2. ASSUME NEW w \in Wrappers, Refuse(k, w) PROVE LookedAt(i)'
    <3>1. files' = files /\ (i # k => job'[i] = job[i])
      BY <2>2 DEF Refuse, TypeOK
    <3>2. i = k => job'[i].at = "wrappers"
      BY <2>2 DEF Refuse, At, TypeOK, Job
    <3> QED BY <1>a, <1>b, <3>1, <3>2
  <2>3. ASSUME NEW w \in Wrappers, Accept(k, w) PROVE LookedAt(i)'
    <3>1. files' = files /\ (i # k => job'[i] = job[i])
      BY <2>3 DEF Accept, TypeOK
    <3>2. i = k => job'[i].wrapper = {w} /\ job'[i].force = job[i].force
      BY <2>3 DEF Accept, TypeOK, Job
    <3>3. files[w] \in {"absent", "ours"} \/ job[k].force
      BY <2>3 DEF Accept, Refuses
    <3>4. i = k => LookedAt(i)'
      BY <3>1, <3>2, <3>3 DEF LookedAt
    <3> QED BY <1>a, <3>1, <3>4
  <2>4. CASE Truncate(k)
    <3>1. job[k] \in Job
      BY DEF TypeOK
    <3>2. /\ \A w \in Wrappers \ job[k].wrapper : files'[w] = files[w]
          /\ job' = [Surprised(job[k].wrapper, Installers \ {k}) EXCEPT ![k].at = "fill"]
      BY <2>4 DEF Truncate
    <3>3. i # k => job'[i] = Surprised(job[k].wrapper, Installers \ {k})[i]
      BY <3>2 DEF Surprised
    <3>4. Surprised(job[k].wrapper, Installers \ {k})[k] = job[k]
      BY DEF Surprised
    <3>5. job'[k].at = "fill"
      BY <3>1, <3>2, <3>4 DEF Surprised, Job
    <3> QED BY <1>b, <3>2, <3>3, <3>5, OvertakenLooked
  <2>5. CASE Fill(k)
    <3>1. PICK w \in job[k].wrapper, c \in Contents :
             /\ files' = [files EXCEPT ![w] = c]
             /\ job' = [Surprised({w}, Installers \ {k}) EXCEPT ![k] =
                           [@ EXCEPT !.at = "wrappers", !.todo = job[k].todo \ {w},
                                     !.wrapper = {}, !.stale = FALSE]]
      BY <2>5 DEF Fill
    <3>2. \A v \in Wrappers \ {w} : files'[v] = files[v]
      BY <3>1 DEF TypeOK
    <3>3. i # k => job'[i] = Surprised({w}, Installers \ {k})[i]
      BY <3>1 DEF Surprised
    <3>4. Surprised({w}, Installers \ {k})[k] = job[k]
      BY DEF Surprised
    <3>5. job'[k].at = "wrappers"
      BY <3>1, <3>4 DEF Surprised, TypeOK, Job
    <3> QED BY <1>b, <3>2, <3>3, <3>5, OvertakenLooked
  <2> QED BY <1>1, <2>1, <2>2, <2>3, <2>4, <2>5 DEF Step
<1>2. ASSUME NEW v \in Wrappers, EditWrapper(v), NEW i \in Installers PROVE LookedAt(i)'
  <2>1. /\ \A w \in Wrappers \ {v} : files'[w] = files[w]
        /\ job' = Surprised({v}, Installers)
    BY <1>2 DEF EditWrapper, TypeOK
  <2> QED BY <2>1, OvertakenLooked
<1>3. ASSUME EditConfig \/ UNCHANGED vars, NEW i \in Installers PROVE LookedAt(i)'
  BY <1>a, <1>3 DEF EditConfig, vars
<1> QED BY <1>1, <1>2, <1>3 DEF Next

\* What is not the installer's own is overwritten only by force, or when it came
\* after the look (installer.py 90-94), whoever else installs or edits meanwhile.
THEOREM ForeignKept == Spec => ForeignSurvives
<1>1. Init => \A i \in Installers : LookedAt(i)
  BY DEF Init, Idle, LookedAt
<1>2. TypeOK /\ (\A i \in Installers : LookedAt(i)) /\ [Next]_vars =>
         (\A i \in Installers : LookedAt(i))'
  BY LookedStep
<1>3. (\A i \in Installers : LookedAt(i)) =>
         [ \A i \in Installers, w \in Wrappers :
             Truncate(i) /\ w \in job[i].wrapper /\ files[w] \in {"foreign", "torn"}
                => job[i].force \/ job[i].stale ]_vars
  BY DEF LookedAt, Truncate, At
<1> QED BY <1>1, <1>2, <1>3, TypeCorrect, PTL DEF Spec, ForeignSurvives

=============================================================================
