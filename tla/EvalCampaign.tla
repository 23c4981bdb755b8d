----------------------------- MODULE EvalCampaign -----------------------------
(***************************************************************************)
(* The evaluation script (src/scripts/pqcfuzz_eval.sh): one invocation     *)
(* starts a tmux session per liboqs version, waits for all of them and     *)
(* writes a summary.                                                       *)
(*                                                                         *)
(* A session runs a launcher on the host, which runs the same launcher     *)
(* again in a Docker container; both, and only they, write the status      *)
(* file of their campaign.  The container builds, fuzzes KEM and SIG and   *)
(* writes a run summary for each.  The script reads the status files and   *)
(* asks tmux which sessions live.                                          *)
(*                                                                         *)
(* Anything can be cut short: an operator kills a session, a container is  *)
(* killed, a write fails; an earlier invocation, whole or interrupted, has *)
(* left its files.                                                         *)
(* Docker decides whether a container dies with the client that started    *)
(* it; the fault "detach" lets it live on.                                 *)
(***************************************************************************)
EXTENDS Naturals, SequencesExt

CONSTANTS
    Campaigns,      \* CAMPAIGN_IDS, a sequence
    NoSig,          \* campaigns whose liboqs version has no fuzzable SIG target
    Absent,         \* a status file that does not exist
    Faults          \* the faults the environment may produce, per campaign

FaultKinds == {"start", "write", "kill", "detach"}
Ids == ToSet(Campaigns)

ASSUME EvalAssumption ==
    /\ Campaigns \in Seq(Ids) /\ Campaigns # <<>>
    /\ \A i, j \in DOMAIN Campaigns : Campaigns[i] = Campaigns[j] => i = j
    /\ NoSig \subseteq Ids
    /\ Faults \in [Ids -> SUBSET FaultKinds]

VARIABLES
    pc,          \* the script: "idle", "starting", "reading", "asking", "summing",
                 \* "reporting" or "exited"
    at,          \* the campaign the script's loop is at
    remaining,   \* some session of this sweep still runs
    startFailed, \* START_FAILURE
    rows,        \* the result column of summary.tsv, "none" before
    overall,     \* some row has a nonzero aggregate status
    exit,        \* the exit status of the script, "none" while it runs
    session,     \* the tmux sessions that live
    host,        \* the launcher on the host, per campaign
    container,   \* the launcher in the container, per campaign
    kemFailed,   \* KEM_STATUS of the container is not 0
    doc,         \* the status file: Absent or its state, result and final status
    summaries,   \* the run summaries on disk
    passed,      \* history: the fuzz targets that ended with status 0
    outlived     \* history: campaigns with a container that outlived its client

script == <<pc, at, remaining, startFailed, rows, overall, exit>>
vars == <<script, session, host, container, kemFailed, doc, summaries, passed, outlived>>

Targets == {"kem", "sig"}
Stages == {"liboqs", "pqcfuzz"} \cup Targets

\* What finish_campaign is called with.
Results == {"completed", "fuzzing-failed", "docker-build-failed", "docker-run-failed",
            "liboqs-build-failed", "pqcfuzz-build-failed"}

\* The campaign's container is alive: in a stage, or about to finish with a result.
Running(c) == container[c] \in Stages \cup Results

Status(state, result) == [state |-> state, result |-> result, ok |-> result = "completed"]

\* Status files an earlier invocation, whole or interrupted, may have left.
Leftovers == {Status("running", "none")} \cup {Status("finished", r) : r \in Results}

Init ==
    /\ pc = "idle" /\ at = 1 /\ remaining = FALSE /\ startFailed = FALSE
    /\ rows = [c \in Ids |-> "none"] /\ overall = FALSE /\ exit = "none"
    /\ session = {}
    /\ host = [c \in Ids |-> "none"]
    /\ container = [c \in Ids |-> "none"]
    /\ kemFailed = [c \in Ids |-> FALSE]
    /\ doc \in [Ids -> {Absent} \cup Leftovers]
    /\ summaries \in [Ids -> SUBSET Targets]
    /\ passed = [c \in Ids |-> {}]
    /\ outlived = {}

-----------------------------------------------------------------------------
(* The status file.                                                        *)

\* write_status replaces the file by rename; a write that fails leaves it as
\* it was and is not noticed (set +e).
WriteStatus(c, state, result) ==
    \/ doc' = [doc EXCEPT ![c] = Status(state, result)]
    \/ "write" \in Faults[c] /\ UNCHANGED doc

WriteRunning(c) == WriteStatus(c, "running", "none")
\* finish_campaign
WriteFinished(c, result) == WriteStatus(c, "finished", result)

\* status_file_finished, read_status_fields
StatusFileFinished(c) == doc[c] # Absent /\ doc[c].state = "finished"

-----------------------------------------------------------------------------
(* A session ends, and with it its launcher; the container may live on.    *)

SessionEnds(c) == session' = session \ {c} /\ host' = [host EXCEPT ![c] = "done"]

ContainerMayDie(c) ==
    \/ /\ container' = IF Running(c) THEN [container EXCEPT ![c] = "failed"] ELSE container
       /\ UNCHANGED outlived
    \/ /\ "detach" \in Faults[c] /\ Running(c)
       /\ outlived' = outlived \cup {c}
       /\ UNCHANGED container

\* The operator or the machine ends a session.
KillSession(c) ==
    /\ "kill" \in Faults[c] /\ c \in session
    /\ SessionEnds(c) /\ ContainerMayDie(c)
    /\ UNCHANGED <<script, kemFailed, doc, summaries, passed>>

-----------------------------------------------------------------------------
(* The launcher on the host.                                               *)

HostStarts(c) ==
    /\ host[c] = "new"
    /\ WriteRunning(c)
    /\ host' = [host EXCEPT ![c] = "building"]
    /\ UNCHANGED <<script, session, container, kemFailed, summaries, passed, outlived>>

HostBuildFails(c) ==
    /\ host[c] = "building"
    /\ WriteFinished(c, "docker-build-failed")
    /\ SessionEnds(c)
    /\ UNCHANGED <<script, container, kemFailed, summaries, passed, outlived>>

\* The image is built: the status, then docker run.
HostRunsContainer(c) ==
    /\ host[c] = "building"
    /\ WriteRunning(c)
    /\ host' = [host EXCEPT ![c] = "waiting"]
    /\ container' = [container EXCEPT ![c] = "new"]
    /\ UNCHANGED <<script, session, kemFailed, summaries, passed, outlived>>

\* docker run cannot start the container, or its client loses a running one
\* (and finds the status file unfinished).
HostLosesContainer(c) ==
    /\ host[c] = "waiting"
    /\ \/ container[c] = "new" /\ container' = [container EXCEPT ![c] = "failed"] /\ UNCHANGED <<host, outlived>>
       \/ /\ "detach" \in Faults[c] /\ Running(c) /\ ~StatusFileFinished(c)
          /\ outlived' = outlived \cup {c}
          /\ host' = [host EXCEPT ![c] = "docker-run-failed"]
          /\ UNCHANGED container
    /\ UNCHANGED <<script, session, kemFailed, doc, summaries, passed>>

\* Mutant: the host does not look whether the container finished its campaign.
HostTrustsNot(c) == FALSE

\* After docker run the host leaves a finished status file as it is ...
HostTrusts(c) == StatusFileFinished(c)

HostLeaves(c) ==
    /\ host[c] = "waiting" /\ container[c] \in {"succeeded", "failed"} /\ HostTrusts(c)
    /\ SessionEnds(c)
    /\ UNCHANGED <<script, container, kemFailed, doc, summaries, passed, outlived>>

\* ... and finishes the campaign itself otherwise, in a later step.
HostDecides(c) ==
    /\ host[c] = "waiting" /\ container[c] \in {"succeeded", "failed"} /\ ~HostTrusts(c)
    /\ host' = [host EXCEPT ![c] = IF container[c] = "succeeded" THEN "completed" ELSE "docker-run-failed"]
    /\ UNCHANGED <<script, session, container, kemFailed, doc, summaries, passed, outlived>>

HostFinishes(c) ==
    /\ host[c] \in {"completed", "docker-run-failed"}
    /\ WriteFinished(c, host[c])
    /\ SessionEnds(c)
    /\ UNCHANGED <<script, container, kemFailed, summaries, passed, outlived>>

HostStep(c) ==
    \/ HostStarts(c) \/ HostBuildFails(c) \/ HostRunsContainer(c)
    \/ HostLeaves(c) \/ HostDecides(c) \/ HostFinishes(c)

-----------------------------------------------------------------------------
(* The launcher in the container.                                          *)

ContainerGoes(c, stage) == container' = [container EXCEPT ![c] = stage]

\* A build begins with its status: container start, or a liboqs build done.
ContainerBuilds(c) ==
    /\ \/ container[c] = "new" /\ host[c] = "waiting" /\ ContainerGoes(c, "liboqs")
       \/ container[c] = "liboqs" /\ ContainerGoes(c, "pqcfuzz")
       \/ container[c] = "pqcfuzz" /\ ContainerGoes(c, "kem")
    /\ WriteRunning(c)
    /\ UNCHANGED <<script, session, host, kemFailed, summaries, passed, outlived>>

ContainerBuildFails(c) ==
    /\ container[c] \in {"liboqs", "pqcfuzz"}
    /\ ContainerGoes(c, IF container[c] = "liboqs" THEN "liboqs-build-failed" ELSE "pqcfuzz-build-failed")
    /\ UNCHANGED <<script, session, host, kemFailed, doc, summaries, passed, outlived>>

\* write_run_summary and write_skip_summary; a write that fails is not noticed.
WriteRunSummary(c, target) ==
    \/ summaries' = [summaries EXCEPT ![c] = @ \cup {target}]
    \/ "write" \in Faults[c] /\ UNCHANGED summaries

\* run_fuzzer and skip_fuzzer: a run summary is written whatever the status.
RunFuzzer(c, target, ok) ==
    /\ passed' = IF ok THEN [passed EXCEPT ![c] = @ \cup {target}] ELSE passed
    /\ WriteRunSummary(c, target)

\* Of the two compilations of build_pqcfuzz only the second decides: a KEM
\* fuzzer that was not built is one that fails when it is started.
KemEnds(c) ==
    /\ container[c] = "kem"
    /\ \E ok \in BOOLEAN :
         RunFuzzer(c, "kem", ok) /\ kemFailed' = [kemFailed EXCEPT ![c] = ~ok]
    /\ ContainerGoes(c, "sig")
    /\ WriteRunning(c)
    /\ UNCHANGED <<script, session, host, outlived>>

\* Mutant: the status of the SIG target alone decides.
FuzzResultOfSig(failed, ok) == IF ok THEN "completed" ELSE "fuzzing-failed"

FuzzResult(failed, ok) == IF ok /\ ~failed THEN "completed" ELSE "fuzzing-failed"

\* skip_fuzzer always succeeds.
SigEnds(c) ==
    /\ container[c] = "sig"
    /\ \E ok \in (IF c \in NoSig THEN {TRUE} ELSE BOOLEAN) :
         RunFuzzer(c, "sig", ok) /\ ContainerGoes(c, FuzzResult(kemFailed[c], ok))
    /\ UNCHANGED <<script, session, host, kemFailed, doc, outlived>>

ContainerFinishes(c) ==
    /\ container[c] \in Results
    /\ WriteFinished(c, container[c])
    /\ ContainerGoes(c, IF container[c] = "completed" THEN "succeeded" ELSE "failed")
    /\ UNCHANGED <<script, session, host, kemFailed, summaries, passed, outlived>>

\* The container is killed: memory, docker kill, the machine.
ContainerKilled(c) ==
    /\ "kill" \in Faults[c] /\ Running(c)
    /\ ContainerGoes(c, "failed")
    /\ UNCHANGED <<script, session, host, kemFailed, doc, summaries, passed, outlived>>

ContainerStep(c) ==
    \/ ContainerBuilds(c) \/ ContainerBuildFails(c) \/ KemEnds(c) \/ SigEnds(c)
    \/ ContainerFinishes(c)

-----------------------------------------------------------------------------
(* The script.                                                             *)

Campaign == Campaigns[at]
AtEnd == at = Len(Campaigns)
Others == <<session, host, container, kemFailed, doc, summaries, passed, outlived>>

\* Mutant: results of an earlier invocation are left where they are.
ArchiveNothing == UNCHANGED <<doc, summaries>>

\* archive_existing_eval_root: the whole output tree is moved away.
ArchiveExistingEvalRoot ==
    /\ doc' = [c \in Ids |-> Absent]
    /\ summaries' = [c \in Ids |-> {}]

\* The script starts.  With a live session it would have refused (exit 2); of
\* containers it does not ask: that no old one still runs is an assumption.
Invoke ==
    /\ pc = "idle"
    /\ pc' = "starting"
    /\ ArchiveExistingEvalRoot
    /\ UNCHANGED <<at, remaining, startFailed, rows, overall, exit, session, host, container,
                   kemFailed, passed, outlived>>

\* The next campaign of a loop, or the step after it.
Advance(loop, after) ==
    IF AtEnd THEN at' = 1 /\ pc' = after ELSE at' = at + 1 /\ pc' = loop

StartSession ==
    /\ pc = "starting"
    /\ \/ /\ session' = session \cup {Campaign}
          /\ host' = [host EXCEPT ![Campaign] = "new"]
          /\ UNCHANGED startFailed
       \/ "start" \in Faults[Campaign] /\ startFailed' = TRUE /\ UNCHANGED <<session, host>>
    /\ Advance("starting", "reading")
    /\ UNCHANGED <<remaining, rows, overall, exit, container, kemFailed, doc,
                   summaries, passed, outlived>>

\* The end of a sweep: another one while a session remains.
NextCampaign(still) ==
    /\ Advance("reading", IF still THEN "reading" ELSE "summing")
    /\ remaining' = (still /\ ~AtEnd)

\* The status file says finished: the session is not needed any more.
ReadFinished ==
    /\ pc = "reading" /\ StatusFileFinished(Campaign)
    /\ IF Campaign \in session THEN SessionEnds(Campaign) /\ ContainerMayDie(Campaign)
       ELSE UNCHANGED <<session, host, container, outlived>>
    /\ NextCampaign(remaining)
    /\ UNCHANGED <<startFailed, rows, overall, exit, kemFailed, doc, summaries, passed>>

ReadUnfinished ==
    /\ pc = "reading" /\ ~StatusFileFinished(Campaign)
    /\ pc' = "asking"
    /\ UNCHANGED <<at, remaining, startFailed, rows, overall, exit, Others>>

\* Mutants: only a finished status ends the wait; a dead session of one
\* campaign ends the wait for all.
StillRunningUnlessFinished(c) == TRUE
StillRunningUnlessStatus(c) == c \in session /\ doc[c] = Absent

\* tmux has-session
StillRunning(c) == c \in session

AskSession ==
    /\ pc = "asking"
    /\ NextCampaign(remaining \/ StillRunning(Campaign))
    /\ UNCHANGED <<startFailed, rows, overall, exit, Others>>

\* The row of a campaign: its result, unless a status or a run summary is missing.
Row(c) ==
    CASE doc[c] = Absent \/ doc[c].result = "none" -> "missing-status"
      [] doc[c] # Absent /\ doc[c].ok /\ summaries[c] # Targets -> "missing-run-summary"
      [] OTHER -> doc[c].result

Summarise ==
    /\ pc = "summing"
    /\ rows' = [rows EXCEPT ![Campaign] = Row(Campaign)]
    /\ overall' = (overall \/ Row(Campaign) # "completed")
    /\ Advance("summing", "reporting")
    /\ UNCHANGED <<remaining, startFailed, exit, Others>>

\* The finding reports; the exit status is 0 if nothing at all failed.
Report ==
    /\ pc = "reporting"
    /\ pc' = "exited"
    /\ \E reportFails \in BOOLEAN :
         exit' = IF overall \/ startFailed \/ reportFails THEN "failed" ELSE "ok"
    /\ UNCHANGED <<at, remaining, startFailed, rows, overall, Others>>

ScriptStep ==
    StartSession \/ ReadFinished \/ ReadUnfinished \/ AskSession \/ Summarise \/ Report

Next ==
    \/ Invoke \/ ScriptStep
    \/ \E c \in Ids :
         HostStep(c) \/ ContainerStep(c) \/ HostLosesContainer(c) \/ ContainerKilled(c) \/ KillSession(c)

Spec == Init /\ [][Next]_vars

\* The script, the launchers and the containers run on: the fuzzers end by
\* -max_total_time and timeout; that the image and the two builds end is
\* assumed, nothing limits them.
FairSpec ==
    /\ Spec
    /\ WF_vars(ScriptStep)
    /\ \A c \in Ids : WF_vars(HostStep(c)) /\ WF_vars(ContainerStep(c))

-----------------------------------------------------------------------------
DocStates ==
    {Absent} \cup [state : {"running", "finished"}, result : Results \cup {"none"}, ok : BOOLEAN]

HostStates == {"none", "new", "building", "waiting", "completed", "docker-run-failed", "done"}
ContainerStates == Stages \cup Results \cup {"none", "new", "succeeded", "failed"}

TypeOK ==
    /\ pc \in {"idle", "starting", "reading", "asking", "summing", "reporting", "exited"}
    /\ at \in 1 .. Len(Campaigns)
    /\ remaining \in BOOLEAN /\ startFailed \in BOOLEAN /\ overall \in BOOLEAN
    /\ rows \in [Ids -> Results \cup {"none", "missing-status", "missing-run-summary"}]
    /\ exit \in {"none", "ok", "failed"}
    /\ session \subseteq Ids
    /\ host \in [Ids -> HostStates]
    /\ \A c \in Ids : c \in session <=> host[c] \notin {"none", "done"}
    /\ container \in [Ids -> ContainerStates]
    /\ kemFailed \in [Ids -> BOOLEAN]
    /\ doc \in [Ids -> DocStates]
    /\ summaries \in [Ids -> SUBSET Targets]
    /\ passed \in [Ids -> SUBSET Targets]
    /\ outlived \subseteq Ids

\* No false success: if the script exits with 0 then in every campaign of this
\* very invocation both fuzz targets ended well, whatever was killed, lost,
\* left behind by an earlier invocation or not written.
SuccessIsReal == exit = "ok" => \A c \in Ids : passed[c] = Targets

\* The summary is final: once it is written no campaign goes on, and its rows
\* are what the status files and run summaries say then and later, unless a
\* container outlived its client.
SummaryIsFinal ==
    exit # "none" => \A c \in Ids \ outlived : c \notin session /\ rows[c] = Row(c)

\* The container has the last word: a finished status file is never rewritten
\* by the other launcher (status_file_finished), unless a container outlived
\* its client.
FinishedIsFinal ==
    [][\A c \in Ids \ outlived :
         pc # "idle" /\ StatusFileFinished(c) => doc'[c] = doc[c]]_vars

\* The wait ends: whatever dies or is never written, the script comes to its
\* summary.
ScriptEnds == (pc = "starting") ~> (pc = "exited")
=============================================================================
