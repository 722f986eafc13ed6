------------------------------- MODULE Installer -------------------------------
(***************************************************************************)
(* The Hermes-native installer and its verifier (installer.py, verifier.py *)
(* and manifest.py under bridge/integrations/hermes_native): wrapper files *)
(* written one by one into a Hermes home, and then a manifest of them.     *)
(*                                                                         *)
(* Nothing locks the home: installers may run beside each other, the user  *)
(* may edit, remove or replace a wrapper or the bridge's configuration at  *)
(* any time, and an installer may die, or be left through an OSError, at   *)
(* any step.  Path.write_text() truncates the file and then fills it: two  *)
(* steps, and a file that is "torn" in between.                            *)
(***************************************************************************)

CONSTANTS
    Installers,
    Wrappers        \* the files of WRAPPERS; no step depends on their order

VARIABLES
    files,      \* wrapper -> what is at its path
    manifest,   \* integration.json; "older" is one of an older bridge version
    config,     \* the bridge's configuration file
    job,        \* installer -> its run of install_hermes_native()
    changed     \* history: wrappers edited or truncated since they were last
                \* written out by an installer

vars == <<files, manifest, config, job, changed>>

\* "ours" is this version's content, "foreign" anything else: the user's own, or
\* what an older version wrote.
Contents  == {"absent", "ours", "foreign", "torn"}
Manifests == {"absent", "older", "current", "torn"}
Configs   == {"absent", "unloadable", "good"}

Steps == {"idle", "config", "target", "wrappers", "truncate", "fill",
          "manifest", "list"}

\* `wrapper` holds the one being written; `stale` is history: somebody changed
\* that wrapper after the installer looked at it.
Job == [at : Steps, force : BOOLEAN, todo : SUBSET Wrappers, ok : BOOLEAN,
        wrapper : SUBSET Wrappers, stale : BOOLEAN]

TypeOK ==
    /\ files \in [Wrappers -> Contents]
    /\ manifest \in Manifests
    /\ config \in Configs
    /\ job \in [Installers -> Job]
    /\ changed \subseteq Wrappers

Idle == [at |-> "idle", force |-> FALSE, todo |-> {}, ok |-> TRUE,
         wrapper |-> {}, stale |-> FALSE]

\* A home without an installation, which may hold files of these names, or one
\* with the installation of an older version.
Init ==
    /\ \/ manifest = "absent" /\ files \in [Wrappers -> {"absent", "foreign"}]
       \/ manifest = "older" /\ files = [w \in Wrappers |-> "foreign"]
    /\ config \in Configs
    /\ job = [i \in Installers |-> Idle]
    /\ changed = {}

-----------------------------------------------------------------------------
(* install_hermes_native() *)

At(i, step) == job[i].at = step

Ended(i) == job' = [job EXCEPT ![i] = Idle]

Start(i, force) ==
    /\ At(i, "idle")
    /\ job' = [job EXCEPT ![i] = [Idle EXCEPT !.at = "config", !.force = force]]
    /\ UNCHANGED <<files, manifest, config, changed>>

\* A missing configuration is reported, one that does not load raises.
CheckConfig(i) ==
    /\ At(i, "config")
    /\ IF config = "good" THEN job' = [job EXCEPT ![i].at = "target"] ELSE Ended(i)
    /\ UNCHANGED <<files, manifest, config, changed>>

\* A blank target id ends the run as well.
CheckTarget(i) ==
    /\ At(i, "target")
    /\ \/ Ended(i)
       \/ job' = [job EXCEPT ![i] = [@ EXCEPT !.at = "wrappers", !.todo = Wrappers]]
    /\ UNCHANGED <<files, manifest, config, changed>>

\* _write_file() leaves alone what is there and is not its own, unless forced.
\* Mutant: the forced are refused and the others are not.
Refuses_Inverted(i, w) == files[w] \notin {"absent", "ours"} /\ job[i].force
Refuses(i, w) == files[w] \notin {"absent", "ours"} /\ ~job[i].force

\* The loop goes on after a refusal; the report will not be ok.
\* Mutant: the last wrapper's check stands for all.
Refuse_Forgets(i, w) ==
    /\ At(i, "wrappers")
    /\ w \in job[i].todo
    /\ Refuses(i, w)
    /\ job' = [job EXCEPT ![i] = [@ EXCEPT !.todo = job[i].todo \ {w},
                                            !.ok = (job[i].todo # {w})]]
    /\ UNCHANGED <<files, manifest, config, changed>>

Refuse(i, w) ==
    /\ At(i, "wrappers")
    /\ w \in job[i].todo
    /\ Refuses(i, w)
    /\ job' = [job EXCEPT ![i] =
                    [@ EXCEPT !.todo = job[i].todo \ {w}, !.ok = FALSE]]
    /\ UNCHANGED <<files, manifest, config, changed>>

\* What is already as it should be is written again all the same.
Accept(i, w) ==
    /\ At(i, "wrappers")
    /\ w \in job[i].todo
    /\ ~Refuses(i, w)
    /\ job' = [job EXCEPT ![i] = [@ EXCEPT !.at = "truncate", !.wrapper = {w},
                                            !.stale = FALSE]]
    /\ UNCHANGED <<files, manifest, config, changed>>

\* The jobs of the others, who may be about to write one of the wrappers ws.
Surprised(ws, others) ==
    [i \in Installers |->
        IF i \in others /\ job[i].wrapper \cap ws # {}
        THEN [job[i] EXCEPT !.stale = TRUE] ELSE job[i]]

Truncate(i) ==
    /\ At(i, "truncate")
    /\ files' = [w \in Wrappers |-> IF w \in job[i].wrapper THEN "torn" ELSE files[w]]
    /\ changed' = changed \cup job[i].wrapper
    /\ job' = [Surprised(job[i].wrapper, Installers \ {i}) EXCEPT ![i].at = "fill"]
    /\ UNCHANGED <<manifest, config>>

\* What the write leaves there.  Who edited or removed the file since it was
\* truncated may win, or get a mixture.
Filled(c) == IF c \in {"torn", "ours"} THEN {"ours"} ELSE {"ours", "torn", c}

Fill(i) ==
    /\ At(i, "fill")
    /\ \E w \in job[i].wrapper, c \in Contents :
          /\ c \in Filled(files[w])
          /\ files' = [files EXCEPT ![w] = c]
          /\ changed' = IF c = "ours" THEN changed \ {w} ELSE changed
          /\ job' = [Surprised({w}, Installers \ {i}) EXCEPT ![i] =
                        [@ EXCEPT !.at = "wrappers", !.todo = job[i].todo \ {w},
                                  !.wrapper = {}, !.stale = FALSE]]
    /\ UNCHANGED <<manifest, config>>

\* After the loop: no manifest unless every check was passed.
Conclude(i) ==
    /\ At(i, "wrappers")
    /\ job[i].todo = {}
    /\ IF job[i].ok THEN job' = [job EXCEPT ![i].at = "manifest"] ELSE Ended(i)
    /\ UNCHANGED <<files, manifest, config, changed>>

TruncateManifest(i) ==
    /\ At(i, "manifest")
    /\ manifest' = "torn"
    /\ job' = [job EXCEPT ![i].at = "list"]
    /\ UNCHANGED <<files, config, changed>>

\* Mutant: the manifest is taken for complete when it is opened.
FillManifest_Misspelt(i) ==
    /\ At(i, "list")
    /\ manifest' = "complete"
    /\ Ended(i)
    /\ UNCHANGED <<files, config, changed>>

FillManifest(i) ==
    /\ At(i, "list")
    /\ manifest' = "current"
    /\ Ended(i)
    /\ UNCHANGED <<files, config, changed>>

-----------------------------------------------------------------------------
(* The environment *)

Crash(i) ==
    /\ ~At(i, "idle")
    /\ Ended(i)
    /\ UNCHANGED <<files, manifest, config, changed>>

EditWrapper(w) ==
    /\ files' \in {[files EXCEPT ![w] = c] : c \in {"absent", "foreign"}}
    /\ changed' = changed \cup {w}
    /\ job' = Surprised({w}, Installers)
    /\ UNCHANGED <<manifest, config>>

EditConfig ==
    /\ config' \in Configs
    /\ UNCHANGED <<files, manifest, job, changed>>

Step(i) ==
    \/ \E force \in BOOLEAN : Start(i, force)
    \/ CheckConfig(i) \/ CheckTarget(i)
    \/ \E w \in Wrappers : Refuse(i, w) \/ Accept(i, w)
    \/ Truncate(i) \/ Fill(i)
    \/ Conclude(i) \/ TruncateManifest(i) \/ FillManifest(i)
    \/ Crash(i)

Next ==
    \/ \E i \in Installers : Step(i)
    \/ \E w \in Wrappers : EditWrapper(w)
    \/ EditConfig

Spec == Init /\ [][Next]_vars

-----------------------------------------------------------------------------
(* verify_hermes_native() and properties *)

\* A manifest that is torn does not parse; of the wrappers only their existence
\* is looked at.
Verifies ==
    /\ manifest \in {"older", "current"}
    /\ config = "good"
    /\ \A w \in Wrappers : files[w] # "absent"

\* verify_hermes_native() answers for an installation that was made whole: what it
\* finds under this version's manifest is what an installer wrote there, save for
\* wrappers that were edited, or cut short by a later run, since.  However runs
\* interleave, one that was interrupted or refused a wrapper never passes for an
\* installation.
VerifiedIsInstalled ==
    Verifies /\ manifest = "current" =>
        \A w \in Wrappers : files[w] = "ours" \/ w \in changed

\* What is not the installer's own stays, until somebody forces it or it came
\* after the look.  A wrapper torn by an installer that died counts as
\* somebody's: no later run repairs it unforced.
ForeignSurvives ==
    [][ \A i \in Installers, w \in Wrappers :
          Truncate(i) /\ w \in job[i].wrapper /\ files[w] \in {"foreign", "torn"}
             => job[i].force \/ job[i].stale ]_vars

=============================================================================
