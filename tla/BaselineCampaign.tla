--------------------------- MODULE BaselineCampaign ---------------------------
(***************************************************************************)
(* The baseline campaigns (src/scripts/eval_baselines_fuzzing.sh and       *)
(* src/scripts/compact_baseline_results.py): one invocation starts a tmux  *)
(* session per baseline and liboqs version, waits for all of them and      *)
(* writes a summary.                                                       *)
(*                                                                         *)
(* The launcher of a session builds an image and a target, fuzzes, and in  *)
(* "compact" mode ends with the compaction of its results: the evidence    *)
(* (crashes, hangs) is kept, the build tree and the corpora are removed.   *)
(* cryptoTesting leaves its evidence in the build tree, from where it is   *)
(* copied first; the other baselines leave it where it stays.              *)
(*                                                                         *)
(* Steps fail, status files are not written, an operator kills sessions,   *)
(* and a fuzzing container may live on after its docker client was killed  *)
(* (fault "detach"): with its session, or by the time limit of the         *)
(* cryptoTesting campaigns.                                                *)
(***************************************************************************)
EXTENDS Naturals, SequencesExt

CONSTANTS
    Campaigns,     \* CAMPAIGN_IDS, a sequence
    Baseline,      \* BASELINE_BY_ID
    Crashes,       \* crash and hang artifacts the fuzzers of a campaign may write
    SaveModes,     \* values of --result-save-mode considered
    Absent,        \* a status file that does not exist
    Faults         \* the faults the environment may produce, per campaign

FaultKinds == {"start", "write", "kill", "detach", "compact"}
Baselines == {"libFuzzer", "cryptofuzz", "CLFuzz", "cryptoTesting"}
Ids == ToSet(Campaigns)

ASSUME BaselineAssumption ==
    /\ Campaigns \in Seq(Ids) /\ Campaigns # <<>>
    /\ \A i, j \in DOMAIN Campaigns : Campaigns[i] = Campaigns[j] => i = j
    /\ Baseline \in [Ids -> Baselines]
    /\ DOMAIN Crashes = Ids
    /\ SaveModes \subseteq {"compact", "all"}
    /\ Faults \in [Ids -> SUBSET FaultKinds]

VARIABLES
    saveMode,    \* RESULT_SAVE_MODE
    pc,          \* the script: "idle", "starting", "reading", "asking", "summing" or "exited"
    at,          \* the campaign the script's loop is at
    remaining,   \* some session of this sweep still runs
    startFailed, \* START_FAILURE
    rows,        \* the result column of summary.tsv, "none" before
    exit,        \* the exit status of the script, "none" while it runs
    session,     \* the tmux sessions that live
    stage,       \* the launcher, per campaign
    kemFailed,   \* libFuzzer campaigns with a KEM_STATUS other than 0
    result,      \* RESULT of the launcher, and with it its FINAL_STATUS
    doc,         \* the status file: Absent or its state and result
    summary,     \* the run summary: "none", "whole" or "torn"
    build,       \* the build tree: "none", "whole", "broken" or "gone"
    inBuild,     \* evidence in the build tree
    kept,        \* evidence in the run tree, which compaction leaves
    manifest,    \* compaction_manifest.json: "none", "skipped" or "completed"
    found,       \* history: the evidence found
    passed,      \* history: the fuzz stages that ended with 0 or by their time limit
    cut,         \* history: campaigns killed, or with a lost write, in or after compaction
    outlived     \* history: campaigns with a container that outlived its client

script == <<pc, at, remaining, startFailed, rows, exit>>
disk == <<summary, build, inBuild, kept, manifest>>
history == <<found, passed, cut, outlived>>
vars == <<saveMode, script, session, stage, kemFailed, result, doc, disk, history>>

Good == {"completed", "timed-out"}
Bad == {"docker-build-failed", "target-build-failed", "fuzzing-failed", "compaction-failed"}
Results == Good \cup Bad

FuzzStages == {"kem", "sig", "run"}
CompactionStages == {"copying", "removing", "recording", "skipping"}

Status(state, r) == [state |-> state, result |-> r]

\* Status files an earlier invocation, whole or interrupted, may have left.
Leftovers == {Status("running", "none"), Status("finished", "completed")}

Init ==
    /\ saveMode \in SaveModes
    /\ pc = "idle" /\ at = 1 /\ remaining = FALSE /\ startFailed = FALSE
    /\ rows = [c \in Ids |-> "none"] /\ exit = "none"
    /\ session = {}
    /\ stage = [c \in Ids |-> "none"]
    /\ kemFailed = {}
    /\ result = [c \in Ids |-> "none"]
    /\ doc \in [Ids -> {Absent} \cup Leftovers]
    /\ \E s \in {"none", "whole"}, m \in {"none", "completed"} :
         summary = [c \in Ids |-> s] /\ manifest = [c \in Ids |-> m]
    /\ build = [c \in Ids |-> "none"]
    /\ inBuild = [c \in Ids |-> {}] /\ kept = [c \in Ids |-> {}]
    /\ found = [c \in Ids |-> {}]
    /\ passed = [c \in Ids |-> {}]
    /\ cut = {} /\ outlived = {}

-----------------------------------------------------------------------------
(* The launcher: builds and fuzzers.                                       *)

\* write_status replaces the file by rename; a write that fails leaves it as
\* it was and is not noticed (set +e).  The result goes with every write.
WriteStatus(c, state, r) ==
    \/ doc' = [doc EXCEPT ![c] = Status(state, r)] /\ UNCHANGED cut
    \/ /\ "write" \in Faults[c]
       /\ cut' = IF r = "none" THEN cut ELSE cut \cup {c}
       /\ UNCHANGED doc

\* A new phase begins with its status.
Enter(c, s) == stage' = [stage EXCEPT ![c] = s] /\ WriteStatus(c, "running", "none")

\* COMPACTION_ELIGIBLE: the campaign came to its fuzzers.
Eligible(c) == stage[c] \in FuzzStages

\* finish_campaign up to the start of the compaction, which runs with the
\* result in the status file already.
Finish(c, r) ==
    /\ result' = [result EXCEPT ![c] = r]
    /\ IF saveMode = "compact"
       THEN IF Eligible(c)
            THEN stage' = [stage EXCEPT ![c] = "copying"] /\ WriteStatus(c, "running", r)
            ELSE stage' = [stage EXCEPT ![c] = "skipping"] /\ WriteStatus(c, "skipped", r)
       ELSE stage' = [stage EXCEPT ![c] = "finishing"] /\ UNCHANGED <<doc, cut>>

Start(c) ==
    /\ stage[c] = "new"
    /\ Enter(c, "docker-build")
    /\ UNCHANGED <<saveMode, script, session, kemFailed, result, disk, found, passed, outlived>>

\* cryptoTesting builds its target when it runs.
ImageBuilt(c) ==
    /\ stage[c] = "docker-build"
    /\ IF Baseline[c] = "cryptoTesting"
       THEN Enter(c, "run") /\ build' = [build EXCEPT ![c] = "whole"]
       ELSE Enter(c, "target-build") /\ UNCHANGED build
    /\ UNCHANGED <<saveMode, script, session, kemFailed, result, summary, inBuild, kept,
                   manifest, found, passed, outlived>>

TargetBuilt(c) ==
    /\ stage[c] = "target-build"
    /\ Enter(c, IF Baseline[c] = "libFuzzer" THEN "kem" ELSE "run")
    /\ build' = [build EXCEPT ![c] = "whole"]
    /\ UNCHANGED <<saveMode, script, session, kemFailed, result, summary, inBuild, kept,
                   manifest, found, passed, outlived>>

\* A target build that fails leaves a tree to look at.
BuildFails(c) ==
    /\ \/ stage[c] = "docker-build" /\ Finish(c, "docker-build-failed") /\ UNCHANGED build
       \/ /\ stage[c] = "target-build" /\ Finish(c, "target-build-failed")
          /\ build' = [build EXCEPT ![c] = "whole"]
    /\ UNCHANGED <<saveMode, script, session, kemFailed, summary, inBuild, kept, manifest,
                   found, passed, outlived>>

\* A fuzzer writes an artifact: into the build tree (AFL, cryptoTesting) or
\* into the crashes of the run tree.  A container nobody waits for goes on.
Find(c, x) ==
    /\ stage[c] \in FuzzStages \/ c \in outlived
    /\ x \notin found[c]
    /\ IF Baseline[c] = "cryptoTesting"
       THEN /\ build[c] # "gone"
            /\ inBuild' = [inBuild EXCEPT ![c] = @ \cup {x}] /\ UNCHANGED kept
       ELSE kept' = [kept EXCEPT ![c] = @ \cup {x}] /\ UNCHANGED inBuild
    /\ found' = [found EXCEPT ![c] = @ \cup {x}]
    /\ UNCHANGED <<saveMode, script, session, stage, kemFailed, result, doc, summary, build,
                   manifest, passed, cut, outlived>>

HasRunSummary(c) == Baseline[c] # "cryptoTesting"

\* A run script writes its summary whatever the status, but one that fails may
\* have failed before or while it did (set -e).
RunEnds(c, ok) ==
    /\ passed' = IF ok THEN [passed EXCEPT ![c] = @ \cup {stage[c]}] ELSE passed
    /\ \/ /\ HasRunSummary(c)
          /\ \E s \in IF ok THEN {"whole"} ELSE {"whole", "torn"} :
               summary' = [summary EXCEPT ![c] = s]
       \/ (~HasRunSummary(c) \/ ~ok) /\ UNCHANGED summary

KemEnds(c) ==
    /\ stage[c] = "kem"
    /\ \E ok \in BOOLEAN :
         RunEnds(c, ok) /\ kemFailed' = IF ok THEN kemFailed ELSE kemFailed \cup {c}
    /\ Enter(c, "sig")
    /\ UNCHANGED <<saveMode, script, session, result, build, inBuild, kept, manifest, found,
                   outlived>>

\* Mutant: the status of the SIG target alone decides.
FuzzResultOfSig(c, ok) == IF ok THEN "completed" ELSE "fuzzing-failed"

\* FUZZ_STATUS
FuzzResult(c, ok) == IF ok /\ c \notin kemFailed THEN "completed" ELSE "fuzzing-failed"

FuzzingEnds(c) ==
    /\ stage[c] \in {"sig", "run"}
    /\ \E ok \in BOOLEAN : RunEnds(c, ok) /\ Finish(c, FuzzResult(c, ok))
    /\ UNCHANGED <<saveMode, script, session, kemFailed, build, inBuild, kept, manifest, found,
                   outlived>>

\* timeout ends the run of cryptoTesting; its container may not notice.
FuzzingTimesOut(c) ==
    /\ stage[c] = "run" /\ Baseline[c] = "cryptoTesting"
    /\ RunEnds(c, TRUE) /\ Finish(c, "timed-out")
    /\ \/ UNCHANGED outlived
       \/ "detach" \in Faults[c] /\ outlived' = outlived \cup {c}
    /\ UNCHANGED <<saveMode, script, session, kemFailed, build, inBuild, kept, manifest, found>>

-----------------------------------------------------------------------------
(* The launcher: compaction and end.                                       *)

\* copy_crypto_testing_artifacts, a file at a time.
CopyArtifact(c, x) ==
    /\ stage[c] = "copying" /\ x \in inBuild[c] \ kept[c]
    /\ kept' = [kept EXCEPT ![c] = @ \cup {x}]
    /\ UNCHANGED <<saveMode, script, session, stage, kemFailed, result, doc, summary, build,
                   inBuild, manifest, history>>

\* Mutant: the removal does not wait for the copies.
NothingToCopy(c) == TRUE

\* The evidence in the build tree is copied; the other baselines have none there.
AllCopied(c) == inBuild[c] \subseteq kept[c]

StartRemoval(c) ==
    /\ stage[c] = "copying" /\ AllCopied(c)
    /\ stage' = [stage EXCEPT ![c] = "removing"]
    /\ UNCHANGED <<saveMode, script, session, kemFailed, result, doc, disk, history>>

\* remove_path: corpora, unused artifacts and the build tree.
RemoveBuild(c) ==
    /\ stage[c] = "removing"
    /\ build' = [build EXCEPT ![c] = "gone"]
    /\ inBuild' = [inBuild EXCEPT ![c] = {}]
    /\ stage' = [stage EXCEPT ![c] = "recording"]
    /\ UNCHANGED <<saveMode, script, session, kemFailed, result, doc, summary, kept, manifest,
                   history>>

\* Mutant: a failed compaction leaves the result as it is.
CompactedResultKept(c, ok) == result[c]

\* A failed compaction fails a campaign that had not failed yet.
CompactedResult(c, ok) == IF ~ok /\ result[c] \in Good THEN "compaction-failed" ELSE result[c]

CompactionEnds(c, ok) ==
    /\ stage' = [stage EXCEPT ![c] = "finishing"]
    /\ result' = [result EXCEPT ![c] = CompactedResult(c, ok)]

\* update_summaries, then write_manifest; or write_skipped_manifest.
\* cryptoTesting gets the summary it did not have; one that cannot be read is
\* left as it is.
RecordCompaction(c) ==
    /\ \/ /\ stage[c] = "recording"
          /\ summary' = IF ~HasRunSummary(c) /\ summary[c] = "none"
                        THEN [summary EXCEPT ![c] = "whole"] ELSE summary
          /\ manifest' = [manifest EXCEPT ![c] = "completed"]
       \/ /\ stage[c] = "skipping"
          /\ manifest' = [manifest EXCEPT ![c] = "skipped"]
          /\ UNCHANGED summary
    /\ CompactionEnds(c, TRUE)
    /\ UNCHANGED <<saveMode, script, session, kemFailed, doc, build, inBuild, kept, history>>

\* What a launcher cut short leaves: some of the tree removed, a summary cut
\* while the run wrote it or the compaction rewrote it in place.  A cut manifest
\* is as good as none.
CutShort(c) ==
    /\ \/ /\ stage[c] = "removing"
          /\ build' = [build EXCEPT ![c] = "broken"]
          /\ \E left \in SUBSET inBuild[c] : inBuild' = [inBuild EXCEPT ![c] = left]
       \/ stage[c] # "removing" /\ UNCHANGED <<build, inBuild>>
    /\ \/ /\ stage[c] = "recording" \/ (stage[c] \in FuzzStages /\ HasRunSummary(c))
          /\ summary' = [summary EXCEPT ![c] = "torn"]
       \/ UNCHANGED summary

CompactionFails(c) ==
    /\ "compact" \in Faults[c] /\ stage[c] \in CompactionStages
    /\ CutShort(c)
    /\ CompactionEnds(c, FALSE)
    /\ UNCHANGED <<saveMode, script, session, kemFailed, doc, kept, manifest, history>>

WriteFinished(c) ==
    /\ stage[c] = "finishing"
    /\ WriteStatus(c, "finished", result[c])
    /\ stage' = [stage EXCEPT ![c] = "ended"]
    /\ UNCHANGED <<saveMode, script, session, kemFailed, result, disk, found, passed, outlived>>

\* The session ends with its launcher.
LauncherExits(c) ==
    /\ stage[c] = "ended" /\ c \in session
    /\ session' = session \ {c}
    /\ UNCHANGED <<saveMode, script, stage, kemFailed, result, doc, disk, history>>

LauncherStep(c) ==
    \/ Start(c) \/ ImageBuilt(c) \/ TargetBuilt(c) \/ BuildFails(c)
    \/ KemEnds(c) \/ FuzzingEnds(c) \/ FuzzingTimesOut(c)
    \/ \E x \in Crashes[c] : CopyArtifact(c, x)
    \/ StartRemoval(c) \/ RemoveBuild(c) \/ RecordCompaction(c) \/ CompactionFails(c)
    \/ WriteFinished(c) \/ LauncherExits(c)

\* The operator or the machine ends a session and the launcher in it.
KillSession(c) ==
    /\ "kill" \in Faults[c] /\ c \in session /\ stage[c] # "ended"
    /\ session' = session \ {c}
    /\ CutShort(c)
    /\ stage' = [stage EXCEPT ![c] = "ended"]
    /\ cut' = IF result[c] = "none" THEN cut ELSE cut \cup {c}
    /\ \/ UNCHANGED outlived
       \/ "detach" \in Faults[c] /\ stage[c] \in FuzzStages /\ outlived' = outlived \cup {c}
    /\ UNCHANGED <<saveMode, script, kemFailed, result, doc, kept, manifest, found, passed>>

-----------------------------------------------------------------------------
(* The script.                                                             *)

Campaign == Campaigns[at]
AtEnd == at = Len(Campaigns)
Others == <<saveMode, session, stage, kemFailed, result, doc, disk, history>>

\* Mutant: results of an earlier invocation are left where they are.
ArchiveNothing == UNCHANGED <<doc, summary, manifest>>

\* archive_existing_eval_root: the whole output tree is moved away.
ArchiveExistingEvalRoot ==
    /\ doc' = [c \in Ids |-> Absent]
    /\ summary' = [c \in Ids |-> "none"]
    /\ manifest' = [c \in Ids |-> "none"]

\* The script starts; with a live session it would have refused (exit 2).
Invoke ==
    /\ pc = "idle"
    /\ pc' = "starting"
    /\ ArchiveExistingEvalRoot
    /\ UNCHANGED <<saveMode, at, remaining, startFailed, rows, exit, session, stage, kemFailed,
                   result, build, inBuild, kept, history>>

\* The next campaign of a loop, or the step after it.
Advance(loop, after) ==
    IF AtEnd THEN at' = 1 /\ pc' = after ELSE at' = at + 1 /\ pc' = loop

StartSession ==
    /\ pc = "starting"
    /\ \/ /\ session' = session \cup {Campaign}
          /\ stage' = [stage EXCEPT ![Campaign] = "new"]
          /\ UNCHANGED startFailed
       \/ "start" \in Faults[Campaign] /\ startFailed' = TRUE /\ UNCHANGED <<session, stage>>
    /\ Advance("starting", "reading")
    /\ UNCHANGED <<saveMode, remaining, rows, exit, kemFailed, result, doc, disk, history>>

\* The end of a sweep: another one while a session remains.
NextCampaign(still) ==
    /\ Advance("reading", IF still THEN "reading" ELSE "summing")
    /\ remaining' = (still /\ ~AtEnd)

StatusFileFinished(c) == doc[c] # Absent /\ doc[c].state = "finished"

\* A finished launcher has nothing left to do: its session is killed.
ReadFinished ==
    /\ pc = "reading" /\ StatusFileFinished(Campaign)
    /\ session' = session \ {Campaign}
    /\ NextCampaign(remaining)
    /\ UNCHANGED <<saveMode, startFailed, rows, exit, stage, kemFailed, result, doc, disk, history>>

ReadUnfinished ==
    /\ pc = "reading" /\ ~StatusFileFinished(Campaign)
    /\ pc' = "asking"
    /\ UNCHANGED <<at, remaining, startFailed, rows, exit, Others>>

\* Mutant: only a finished status ends the wait.
StillRunningUnlessFinished(c) == TRUE

\* tmux has-session
StillRunning(c) == c \in session

AskSession ==
    /\ pc = "asking"
    /\ NextCampaign(remaining \/ StillRunning(Campaign))
    /\ UNCHANGED <<startFailed, rows, exit, Others>>

\* The row of a campaign: its result, unless a status or the run summary is missing.
Row(c) ==
    CASE doc[c] = Absent \/ doc[c].result = "none" -> "missing-status"
      [] doc[c] # Absent /\ doc[c].result \in Good /\ Baseline[c] # "cryptoTesting"
           /\ summary[c] = "none" -> "missing-summary"
      [] OTHER -> doc[c].result

Summarise ==
    /\ pc = "summing"
    /\ rows' = [rows EXCEPT ![Campaign] = Row(Campaign)]
    /\ Advance("summing", "exited")
    /\ exit' = IF ~AtEnd THEN "none"
               ELSE IF startFailed \/ \E c \in Ids : rows'[c] \notin Good THEN "failed" ELSE "ok"
    /\ UNCHANGED <<remaining, startFailed, Others>>

ScriptStep == StartSession \/ ReadFinished \/ ReadUnfinished \/ AskSession \/ Summarise

Next ==
    \/ Invoke \/ ScriptStep
    \/ \E c \in Ids :
         LauncherStep(c) \/ KillSession(c) \/ \E x \in Crashes[c] : Find(c, x)

Spec == Init /\ [][Next]_vars

\* The script and the launchers run on: -max_total_time and timeout end the
\* fuzzers; that images and targets are built some time is assumed.
FairSpec ==
    /\ Spec
    /\ WF_vars(ScriptStep)
    /\ WF_vars(\E c \in Ids : LauncherStep(c))

-----------------------------------------------------------------------------
\* No false success: if the script exits with 0, every fuzzer of every campaign
\* of this invocation ended well or used up its time, whatever was killed, not
\* written or left behind by an earlier invocation (lines 463-647, 940-960).
SuccessIsReal ==
    exit = "ok" =>
        \A c \in Ids : passed[c] = IF Baseline[c] = "libFuzzer" THEN {"kem", "sig"} ELSE {"run"}

\* Success in compact mode means compacted: unless a launcher died, or lost a
\* status write, after its fuzzers had ended, an exit with 0 comes with every
\* build tree removed, a manifest that says so and whole run summaries
\* (finish_campaign: a failed compaction fails the campaign).
CompactedUnlessCut ==
    (exit = "ok" /\ saveMode = "compact") =>
        \A c \in Ids \ cut :
            build[c] = "gone" /\ manifest[c] = "completed" /\ summary[c] = "whole"

\* Compaction loses no evidence: at every step of it, and wherever it fails or
\* dies, what the fuzzers found is in the run tree or still in the build tree
\* (the copy comes before the removal), unless a container outlived its client
\* and wrote behind the compaction's back.
EvidenceKept == \A c \in Ids \ outlived : found[c] = inBuild[c] \cup kept[c]

\* The wait ends: whatever dies or is never written, the script comes to its
\* summary.
ScriptEnds == (pc = "starting") ~> (pc = "exited")
=============================================================================
