------------------------ MODULE BaselineCampaignProofs ------------------------
(***************************************************************************)
(* Proofs about BaselineCampaign for any number of campaigns, any crash    *)
(* files and any faults: exit status 0 is only said of campaigns whose     *)
(* fuzzers ended well, compaction loses no evidence, and success in        *)
(* compact mode means compacted.                                           *)
(***************************************************************************)
EXTENDS BaselineCampaign, TLAPS

-----------------------------------------------------------------------------
(* Types. *)

Stages == {"none", "new", "docker-build", "target-build", "finishing", "ended"}
             \cup FuzzStages \cup CompactionStages
DocStates == {Absent} \cup [state : {"running", "skipped", "finished"},
                            result : Results \cup {"none"}]
RowStates == Results \cup {"none", "missing-status", "missing-summary"}
Summaries == {"none", "whole", "torn"}
AllCrashes == UNION {Crashes[c] : c \in Ids}

ScriptTypes ==
    /\ pc \in {"idle", "starting", "reading", "asking", "summing", "exited"}
    /\ at \in 1 .. Len(Campaigns)
    /\ remaining \in BOOLEAN /\ startFailed \in BOOLEAN
    /\ rows \in [Ids -> RowStates]
    /\ exit \in {"none", "ok", "failed"}

LauncherTypes ==
    /\ session \subseteq Ids /\ cut \subseteq Ids /\ outlived \subseteq Ids
    /\ stage \in [Ids -> Stages]
    /\ kemFailed \subseteq Ids
    /\ result \in [Ids -> Results \cup {"none"}]
    /\ doc \in [Ids -> DocStates]
    /\ passed \in [Ids -> SUBSET FuzzStages]

DiskTypes ==
    /\ summary \in [Ids -> Summaries]
    /\ build \in [Ids -> {"none", "whole", "broken", "gone"}]
    /\ inBuild \in [Ids -> SUBSET AllCrashes]
    /\ kept \in [Ids -> SUBSET AllCrashes]
    /\ manifest \in [Ids -> {"none", "skipped", "completed"}]
    /\ found \in [Ids -> SUBSET AllCrashes]

TypeInv == ScriptTypes /\ LauncherTypes /\ DiskTypes

\* The campaign a loop of the script is at is one of the campaigns.
LEMMA CampaignInIds ==
    ASSUME at \in 1 .. Len(Campaigns)
    PROVE  Campaign \in Ids
BY BaselineAssumption DEF Campaign, Ids, ToSet

\* Every campaign has a place in the sequence.
LEMMA PlaceOfCampaign ==
    \A c \in Ids : \E i \in 1 .. Len(Campaigns) : Campaigns[i] = c
BY BaselineAssumption DEF Ids, ToSet

LEMMA CampaignsCounted == Len(Campaigns) \in Nat \ {0}
BY BaselineAssumption

\* Loops stay within the campaigns.
LEMMA AdvanceType ==
    ASSUME at \in 1 .. Len(Campaigns), NEW loop, NEW after, Advance(loop, after)
    PROVE  at' \in 1 .. Len(Campaigns) /\ pc' \in {loop, after}
BY CampaignsCounted DEF Advance, AtEnd

\* A sweep goes on, starts over or comes to the summary.
LEMMA NextCampaignType ==
    ASSUME at \in 1 .. Len(Campaigns), NEW still \in BOOLEAN, NextCampaign(still)
    PROVE  /\ at' \in 1 .. Len(Campaigns) /\ pc' \in {"reading", "summing"}
           /\ remaining' \in BOOLEAN
<1>1. at' \in 1 .. Len(Campaigns) /\ pc' \in {"reading", IF still THEN "reading" ELSE "summing"}
  BY AdvanceType DEF NextCampaign
<1>2. remaining' \in BOOLEAN
  BY DEF NextCampaign
<1> QED
  BY <1>1, <1>2

LEMMA CrashesKnown == \A c \in Ids : Crashes[c] \subseteq AllCrashes
BY DEF AllCrashes

\* A row is a result or says what is missing.
LEMMA RowType ==
    ASSUME doc \in [Ids -> DocStates], NEW c \in Ids
    PROVE  Row(c) \in RowStates
<1>1. doc[c] # Absent => doc[c].result \in Results \cup {"none"}
  BY DEF DocStates
<1> QED
  BY <1>1 DEF Row, RowStates

LEMMA StatusType ==
    ASSUME NEW state \in {"running", "skipped", "finished"}, NEW r \in Results \cup {"none"}
    PROVE  /\ Status(state, r) \in DocStates
           /\ Status(state, r).state = state /\ Status(state, r).result = r
BY DEF Status, DocStates

\* A write of a status file, done or lost, changes that campaign's alone, and
\* what is lost after the fuzzers have ended is remembered.
LEMMA WriteEffect ==
    ASSUME LauncherTypes, NEW c \in Ids, NEW state \in {"running", "skipped", "finished"},
           NEW r \in Results \cup {"none"}, WriteStatus(c, state, r)
    PROVE  /\ doc' \in [Ids -> DocStates] /\ cut' \subseteq Ids /\ cut \subseteq cut'
           /\ \A d \in Ids : d # c => doc'[d] = doc[d]
           /\ doc'[c] = Status(state, r) \/ (doc'[c] = doc[c] /\ (r = "none" \/ c \in cut'))
BY StatusType DEF WriteStatus, LauncherTypes

\* A new phase has a running status without a result.
LEMMA EnterEffect ==
    ASSUME LauncherTypes, NEW c \in Ids, NEW s \in Stages, Enter(c, s)
    PROVE  /\ stage' \in [Ids -> Stages] /\ stage'[c] = s
           /\ \A d \in Ids : d # c => stage'[d] = stage[d] /\ doc'[d] = doc[d]
           /\ doc' \in [Ids -> DocStates] /\ cut' \subseteq Ids /\ cut \subseteq cut'
           /\ doc'[c] = Status("running", "none") \/ doc'[c] = doc[c]
BY WriteEffect DEF Enter, LauncherTypes

\* A result goes into the status file before the compaction, or after none.
LEMMA FinishEffect ==
    ASSUME LauncherTypes, NEW c \in Ids, NEW r \in Results, Finish(c, r)
    PROVE  /\ stage' \in [Ids -> Stages] /\ result' = [result EXCEPT ![c] = r]
           /\ stage'[c] = IF saveMode # "compact" THEN "finishing"
                          ELSE IF stage[c] \in FuzzStages THEN "copying" ELSE "skipping"
           /\ \A d \in Ids : d # c => stage'[d] = stage[d] /\ doc'[d] = doc[d]
           /\ doc' \in [Ids -> DocStates] /\ cut' \subseteq Ids /\ cut \subseteq cut'
           /\ \/ doc'[c] = doc[c] /\ (saveMode = "compact" => c \in cut')
              \/ saveMode = "compact" /\ \E state \in {"running", "skipped"} : doc'[c] = Status(state, r)
<1>1. r \in Results \cup {"none"} /\ r # "none"
  BY DEF Results, Good, Bad
<1>2. {"finishing", "copying", "skipping"} \subseteq Stages
  BY DEF Stages, CompactionStages
<1>3. CASE saveMode # "compact"
  BY <1>2, <1>3 DEF Finish, LauncherTypes
<1>4. CASE saveMode = "compact" /\ stage[c] \in FuzzStages
  BY <1>1, <1>2, <1>4, WriteEffect DEF Finish, Eligible, LauncherTypes
<1>5. CASE saveMode = "compact" /\ stage[c] \notin FuzzStages
  BY <1>1, <1>2, <1>5, WriteEffect DEF Finish, Eligible, LauncherTypes
<1> QED
  BY <1>3, <1>4, <1>5

\* A fuzzer that ends adds to what passed, and may leave its summary.
LEMMA RunEffect ==
    ASSUME LauncherTypes, DiskTypes, NEW c \in Ids, stage[c] \in FuzzStages,
           NEW ok \in BOOLEAN, RunEnds(c, ok)
    PROVE  /\ passed' \in [Ids -> SUBSET FuzzStages] /\ summary' \in [Ids -> Summaries]
           /\ \A d \in Ids : d # c => passed'[d] = passed[d] /\ summary'[d] = summary[d]
           /\ passed'[c] = IF ok THEN passed[c] \cup {stage[c]} ELSE passed[c]
           /\ ok /\ HasRunSummary(c) => summary'[c] = "whole"
           /\ ~HasRunSummary(c) => summary'[c] = summary[c]
<1>1. passed' \in [Ids -> SUBSET FuzzStages]
  BY DEF RunEnds, LauncherTypes
<1>2. /\ \A d \in Ids : d # c => passed'[d] = passed[d]
      /\ passed'[c] = IF ok THEN passed[c] \cup {stage[c]} ELSE passed[c]
  BY DEF RunEnds, LauncherTypes
<1>3. CASE UNCHANGED summary /\ (~HasRunSummary(c) \/ ~ok)
  BY <1>1, <1>2, <1>3 DEF DiskTypes
<1>4. CASE HasRunSummary(c) /\ \E s \in IF ok THEN {"whole"} ELSE {"whole", "torn"} :
                                   summary' = [summary EXCEPT ![c] = s]
  <2>1. PICK s \in {"whole", "torn"} : summary' = [summary EXCEPT ![c] = s] /\ (ok => s = "whole")
    BY <1>4
  <2>2. summary' \in [Ids -> Summaries] /\ summary'[c] = s
    BY <2>1 DEF DiskTypes, Summaries
  <2>3. \A d \in Ids : d # c => summary'[d] = summary[d]
    BY <2>1 DEF DiskTypes
  <2> QED
    BY <1>1, <1>2, <1>4, <2>1, <2>2, <2>3
<1> QED
  BY <1>3, <1>4 DEF RunEnds

\* What is cut short is cut in the disk of that campaign.
LEMMA CutEffect ==
    ASSUME DiskTypes, NEW c \in Ids, CutShort(c)
    PROVE  /\ build' \in [Ids -> {"none", "whole", "broken", "gone"}]
           /\ inBuild' \in [Ids -> SUBSET AllCrashes] /\ summary' \in [Ids -> Summaries]
           /\ \A d \in Ids : d # c => UNCHANGED <<build[d], inBuild[d], summary[d]>>
           /\ inBuild'[c] \subseteq inBuild[c]
           /\ stage[c] # "removing" => inBuild'[c] = inBuild[c]
<1>1. CASE stage[c] = "removing"
  <2>1. PICK left \in SUBSET inBuild[c] : inBuild' = [inBuild EXCEPT ![c] = left]
    BY <1>1 DEF CutShort
  <2>2. left \in SUBSET AllCrashes
    BY <2>1 DEF DiskTypes
  <2>3. inBuild' \in [Ids -> SUBSET AllCrashes]
    BY <2>1, <2>2 DEF DiskTypes
  <2> QED
    BY <1>1, <2>1, <2>3 DEF CutShort, DiskTypes, Summaries
<1>2. CASE stage[c] # "removing"
  BY <1>2 DEF CutShort, DiskTypes, Summaries
<1> QED
  BY <1>1, <1>2

\* The launchers, what befalls them, and their fuzzers, by campaign.
LauncherMoves(c) == LauncherStep(c) \/ KillSession(c) \/ \E x \in Crashes[c] : Find(c, x)

\* They leave the script's variables alone.
LEMMA LauncherLeavesScript ==
    ASSUME NEW c \in Ids, LauncherMoves(c)
    PROVE  UNCHANGED <<saveMode, script>>
BY DEF LauncherMoves, LauncherStep, Start, ImageBuilt, TargetBuilt, BuildFails, KemEnds, FuzzingEnds,
       FuzzingTimesOut, CopyArtifact, StartRemoval, RemoveBuild, RecordCompaction, CompactionFails,
       WriteFinished, LauncherExits, KillSession, Find, script

LEMMA StageNames ==
    /\ {"new", "docker-build", "target-build", "finishing", "ended", "kem", "sig", "run",
        "copying", "removing", "recording", "skipping"} \subseteq Stages
    /\ {"kem", "sig", "run"} = FuzzStages
    /\ {"completed", "timed-out", "docker-build-failed", "target-build-failed", "fuzzing-failed",
        "compaction-failed"} = Results
    /\ "none" \notin Results /\ "none" \notin Good
BY DEF Stages, FuzzStages, CompactionStages, Results, Good, Bad

\* A launcher keeps the types of its variables.
LEMMA LauncherType ==
    ASSUME TypeInv, NEW c \in Ids, LauncherMoves(c)
    PROVE  LauncherTypes' /\ DiskTypes'
<1> USE StageNames DEF TypeInv
<1>1. CASE Start(c)
  BY <1>1, EnterEffect DEF Start, disk, script, LauncherTypes, DiskTypes
<1>2. CASE ImageBuilt(c)
  BY <1>2, EnterEffect DEF ImageBuilt, disk, script, LauncherTypes, DiskTypes
<1>3. CASE TargetBuilt(c)
  BY <1>3, EnterEffect DEF TargetBuilt, disk, script, LauncherTypes, DiskTypes
<1>4. CASE BuildFails(c)
  BY <1>4, FinishEffect DEF BuildFails, disk, script, LauncherTypes, DiskTypes
<1>5. CASE KemEnds(c)
  <2>1. PICK ok \in BOOLEAN : RunEnds(c, ok)
    BY <1>5 DEF KemEnds
  <2>2. passed' \in [Ids -> SUBSET FuzzStages] /\ summary' \in [Ids -> Summaries]
    BY <1>5, <2>1, RunEffect DEF KemEnds
  <2>3. /\ stage' \in [Ids -> Stages] /\ doc' \in [Ids -> DocStates]
        /\ cut' \subseteq Ids
    BY <1>5, EnterEffect DEF KemEnds
  <2> QED
    BY <1>5, <2>2, <2>3 DEF KemEnds, disk, script, LauncherTypes, DiskTypes
<1>6. CASE FuzzingEnds(c)
  <2>1. PICK ok \in BOOLEAN : RunEnds(c, ok) /\ Finish(c, FuzzResult(c, ok))
    BY <1>6 DEF FuzzingEnds
  <2>2. FuzzResult(c, ok) \in Results
    BY DEF FuzzResult
  <2>3. stage[c] \in FuzzStages
    BY <1>6 DEF FuzzingEnds
  <2>4. passed' \in [Ids -> SUBSET FuzzStages] /\ summary' \in [Ids -> Summaries]
    BY <2>1, <2>3, RunEffect
  <2>5. stage' \in [Ids -> Stages] /\ doc' \in [Ids -> DocStates] /\ cut' \subseteq Ids
    BY <2>1, <2>2, FinishEffect
  <2>6. result' \in [Ids -> Results \cup {"none"}]
    BY <2>1, <2>2 DEF Finish, LauncherTypes
  <2> QED
    BY <1>6, <2>4, <2>5, <2>6 DEF FuzzingEnds, LauncherTypes, DiskTypes
<1>7. CASE FuzzingTimesOut(c)
  <2>1. RunEnds(c, TRUE) /\ Finish(c, "timed-out") /\ stage[c] \in FuzzStages
    BY <1>7 DEF FuzzingTimesOut
  <2>2. passed' \in [Ids -> SUBSET FuzzStages] /\ summary' \in [Ids -> Summaries]
    BY <2>1, RunEffect
  <2>3. stage' \in [Ids -> Stages] /\ doc' \in [Ids -> DocStates] /\ cut' \subseteq Ids
    BY <2>1, FinishEffect
  <2>4. result' \in [Ids -> Results \cup {"none"}]
    BY <2>1 DEF Finish, LauncherTypes
  <2> QED
    BY <1>7, <2>2, <2>3, <2>4 DEF FuzzingTimesOut, LauncherTypes, DiskTypes
<1>8. ASSUME NEW x \in Crashes[c], CopyArtifact(c, x)
      PROVE  LauncherTypes' /\ DiskTypes'
  BY <1>8, CrashesKnown DEF CopyArtifact, history, script, LauncherTypes, DiskTypes
<1>9. CASE StartRemoval(c)
  BY <1>9 DEF StartRemoval, disk, history, script, LauncherTypes, DiskTypes
<1>10. CASE RemoveBuild(c)
  BY <1>10 DEF RemoveBuild, history, script, LauncherTypes, DiskTypes
<1>11. CASE RecordCompaction(c)
  BY <1>11 DEF RecordCompaction, CompactionEnds, CompactedResult, history, script, LauncherTypes,
               DiskTypes, Summaries
<1>12. CASE CompactionFails(c)
  BY <1>12, CutEffect DEF CompactionFails, CompactionEnds, CompactedResult, history, script,
               LauncherTypes, DiskTypes
<1>13. CASE WriteFinished(c)
  <2>1. result[c] \in Results \cup {"none"}
    BY DEF LauncherTypes
  <2> QED
    BY <1>13, <2>1, WriteEffect DEF WriteFinished, disk, script, LauncherTypes, DiskTypes
<1>14. CASE LauncherExits(c)
  BY <1>14 DEF LauncherExits, disk, history, script, LauncherTypes, DiskTypes
<1>15. CASE KillSession(c)
  BY <1>15, CutEffect DEF KillSession, script, LauncherTypes, DiskTypes
<1>16. ASSUME NEW x \in Crashes[c], Find(c, x)
       PROVE  LauncherTypes' /\ DiskTypes'
  BY <1>16, CrashesKnown DEF Find, script, LauncherTypes, DiskTypes
<1> QED
  BY <1>1, <1>2, <1>3, <1>4, <1>5, <1>6, <1>7, <1>8, <1>9, <1>10, <1>11, <1>12, <1>13, <1>14, <1>15,
     <1>16
     DEF LauncherMoves, LauncherStep

\* Types of the variables are kept by every step.
LEMMA TypeStep == TypeInv /\ [Next]_vars => TypeInv'
<1> SUFFICES ASSUME TypeInv, [Next]_vars PROVE TypeInv'
  OBVIOUS
<1>1. ASSUME NEW c \in Ids, LauncherMoves(c) PROVE TypeInv'
  BY <1>1, LauncherType, LauncherLeavesScript DEF TypeInv, ScriptTypes, script
<1> USE DEF TypeInv, ScriptTypes, LauncherTypes, DiskTypes
<1>2. CASE Invoke
  BY <1>2 DEF Invoke, ArchiveExistingEvalRoot, history, DocStates, Summaries
<1>3. CASE StartSession
  <2>1. at' \in 1 .. Len(Campaigns) /\ pc' \in {"starting", "reading"} /\ Campaign \in Ids
    BY <1>3, AdvanceType, CampaignInIds DEF StartSession
  <2>2. startFailed' \in BOOLEAN
    BY <1>3 DEF StartSession
  <2>3. session' \subseteq Ids /\ stage' \in [Ids -> Stages]
    <3>1. "new" \in Stages
      BY DEF Stages
    <3> QED
      BY <1>3, <2>1, <3>1 DEF StartSession
  <2> QED
    BY <1>3, <2>1, <2>2, <2>3 DEF StartSession, disk, history
<1>4. CASE ReadFinished
  <2>1. NextCampaign(remaining) /\ session' \subseteq session
    BY <1>4 DEF ReadFinished
  <2>2. at' \in 1 .. Len(Campaigns) /\ pc' \in {"reading", "summing"} /\ remaining' \in BOOLEAN
    BY <2>1, NextCampaignType
  <2>3. ScriptTypes'
    BY <1>4, <2>2 DEF ReadFinished
  <2>4. LauncherTypes' /\ DiskTypes'
    BY <1>4, <2>1 DEF ReadFinished, disk, history
  <2> QED
    BY <2>3, <2>4
<1>5. CASE ReadUnfinished
  BY <1>5 DEF ReadUnfinished, Others, disk, history
<1>6. CASE AskSession
  <2>1. (remaining \/ StillRunning(Campaign)) \in BOOLEAN
    BY DEF StillRunning
  <2> QED
    BY <1>6, <2>1, NextCampaignType DEF AskSession, Others, disk, history
<1>7. CASE Summarise
  BY <1>7, AdvanceType, CampaignInIds, RowType DEF Summarise, Others, disk, history
<1>8. CASE UNCHANGED vars
  BY <1>8 DEF vars, script, disk, history
<1> QED
  BY <1>1, <1>2, <1>3, <1>4, <1>5, <1>6, <1>7, <1>8 DEF Next, ScriptStep, LauncherMoves

LEMMA TypeInit == Init => TypeInv
<1> SUFFICES ASSUME Init PROVE TypeInv
  OBVIOUS
<1>1. {Absent} \cup Leftovers \subseteq DocStates
  BY StatusType DEF Leftovers, DocStates, Results, Good
<1>2. doc \in [Ids -> DocStates]
  BY <1>1 DEF Init
<1>3. LauncherTypes
  BY <1>2 DEF Init, LauncherTypes, Stages
<1>4. ScriptTypes
  <2>1. at \in 1 .. Len(Campaigns)
    BY CampaignsCounted DEF Init
  <2>2. remaining \in BOOLEAN /\ startFailed \in BOOLEAN
    BY DEF Init
  <2> QED
    BY <2>1, <2>2 DEF Init, ScriptTypes, RowStates
<1>5. PICK s \in {"none", "whole"}, m \in {"none", "completed"} :
         summary = [c \in Ids |-> s] /\ manifest = [c \in Ids |-> m]
  BY DEF Init
<1>6. DiskTypes
  BY <1>5 DEF Init, DiskTypes, Summaries
<1> QED
  BY <1>3, <1>4, <1>6 DEF TypeInv

\* Every variable of the script, the launchers and the disk keeps to its values.
THEOREM TypeCorrect == Spec => []TypeInv
BY TypeInit, TypeStep, PTL DEF Spec

-----------------------------------------------------------------------------
(* A campaign's launcher changes nothing of another campaign.              *)

Untouched(d) ==
    /\ UNCHANGED <<stage[d], result[d], doc[d], passed[d], summary[d], build[d], inBuild[d],
                   kept[d], manifest[d], found[d]>>
    /\ d \in session' <=> d \in session
    /\ d \in kemFailed' <=> d \in kemFailed
    /\ d \in cut' <=> d \in cut
    /\ d \in outlived' <=> d \in outlived

LEMMA OthersUntouched ==
    ASSUME TypeInv, NEW c \in Ids, LauncherMoves(c), NEW d \in Ids, d # c
    PROVE  Untouched(d)
<1> USE DEF TypeInv, LauncherTypes, DiskTypes, Untouched, WriteStatus
<1>1. CASE Start(c)
  BY <1>1 DEF Start, disk, Enter
<1>2. CASE ImageBuilt(c)
  BY <1>2 DEF ImageBuilt, Enter
<1>3. CASE TargetBuilt(c)
  BY <1>3 DEF TargetBuilt, Enter
<1>4. CASE BuildFails(c)
  BY <1>4 DEF BuildFails, Finish
<1>5. CASE KemEnds(c)
  BY <1>5 DEF KemEnds, Enter, RunEnds
<1>6. CASE FuzzingEnds(c)
  <2>1. PICK ok \in BOOLEAN : RunEnds(c, ok) /\ Finish(c, FuzzResult(c, ok))
    BY <1>6 DEF FuzzingEnds
  <2> QED
    BY <1>6, <2>1 DEF FuzzingEnds, RunEnds, Finish
<1>7. CASE FuzzingTimesOut(c)
  BY <1>7 DEF FuzzingTimesOut, Finish, RunEnds
<1>8. ASSUME NEW x \in Crashes[c], CopyArtifact(c, x) PROVE Untouched(d)
  BY <1>8 DEF CopyArtifact, history
<1>9. CASE StartRemoval(c)
  BY <1>9 DEF StartRemoval, disk, history
<1>10. CASE RemoveBuild(c)
  BY <1>10 DEF RemoveBuild, history
<1>11. CASE RecordCompaction(c)
  BY <1>11 DEF RecordCompaction, CompactionEnds, history
<1>12. CASE CompactionFails(c)
  BY <1>12, CutEffect DEF CompactionFails, CompactionEnds, history
<1>13. CASE WriteFinished(c)
  BY <1>13 DEF WriteFinished, disk
<1>14. CASE LauncherExits(c)
  BY <1>14 DEF LauncherExits, disk, history
<1>15. CASE KillSession(c)
  BY <1>15, CutEffect DEF KillSession
<1>16. ASSUME NEW x \in Crashes[c], Find(c, x) PROVE Untouched(d)
  BY <1>16 DEF Find
<1> QED
  BY <1>1, <1>2, <1>3, <1>4, <1>5, <1>6, <1>7, <1>8, <1>9, <1>10, <1>11, <1>12,
     <1>13, <1>14, <1>15, <1>16
     DEF LauncherMoves, LauncherStep

-----------------------------------------------------------------------------
(* Evidence is kept: it is copied before the build tree is removed.        *)

EvidenceInv(c) ==
    c \notin outlived =>
        /\ found[c] = inBuild[c] \cup kept[c]
        /\ stage[c] = "removing" => inBuild[c] \subseteq kept[c]

LEMMA EvidenceMove ==
    ASSUME TypeInv, NEW c \in Ids, LauncherMoves(c), EvidenceInv(c)
    PROVE  EvidenceInv(c)'
<1> USE StageNames DEF TypeInv, LauncherTypes, DiskTypes, EvidenceInv
<1>1. CASE Start(c)
  BY <1>1, EnterEffect DEF Start, disk
<1>2. CASE ImageBuilt(c)
  BY <1>2, EnterEffect DEF ImageBuilt
<1>3. CASE TargetBuilt(c)
  BY <1>3, EnterEffect DEF TargetBuilt
<1>4. CASE BuildFails(c)
  BY <1>4, FinishEffect DEF BuildFails
<1>5. CASE KemEnds(c)
  BY <1>5, EnterEffect DEF KemEnds
<1>6. CASE FuzzingEnds(c)
  <2>1. PICK ok \in BOOLEAN : Finish(c, FuzzResult(c, ok))
    BY <1>6 DEF FuzzingEnds
  <2> QED
    BY <1>6, <2>1, FinishEffect DEF FuzzingEnds, FuzzResult
<1>7. CASE FuzzingTimesOut(c)
  BY <1>7, FinishEffect DEF FuzzingTimesOut
<1>8. ASSUME NEW x \in Crashes[c], CopyArtifact(c, x) PROVE EvidenceInv(c)'
  BY <1>8 DEF CopyArtifact, history
<1>9. CASE StartRemoval(c)
  BY <1>9 DEF StartRemoval, AllCopied, disk, history
<1>10. CASE RemoveBuild(c)
  BY <1>10 DEF RemoveBuild, history
<1>11. CASE RecordCompaction(c)
  BY <1>11 DEF RecordCompaction, CompactionEnds, history
<1>12. CASE CompactionFails(c)
  BY <1>12, CutEffect DEF CompactionFails, CompactionEnds, history
<1>13. CASE WriteFinished(c)
  BY <1>13 DEF WriteFinished, disk
<1>14. CASE LauncherExits(c)
  BY <1>14 DEF LauncherExits, disk, history
<1>15. CASE KillSession(c)
  BY <1>15, CutEffect DEF KillSession
<1>16. ASSUME NEW x \in Crashes[c], Find(c, x) PROVE EvidenceInv(c)'
  BY <1>16 DEF Find
<1> QED
  BY <1>1, <1>2, <1>3, <1>4, <1>5, <1>6, <1>7, <1>8, <1>9, <1>10, <1>11, <1>12,
     <1>13, <1>14, <1>15, <1>16
     DEF LauncherMoves, LauncherStep

LEMMA EvidenceStep ==
    ASSUME TypeInv, \A c \in Ids : EvidenceInv(c), [Next]_vars, NEW d \in Ids
    PROVE  EvidenceInv(d)'
<1>1. ASSUME NEW c \in Ids, LauncherMoves(c) PROVE EvidenceInv(d)'
  <2>1. CASE c = d
    BY <1>1, <2>1, EvidenceMove
  <2>2. CASE c # d
    BY <1>1, <2>2, OthersUntouched DEF Untouched, EvidenceInv
  <2> QED
    BY <2>1, <2>2
<1>2. CASE Invoke
  BY <1>2 DEF Invoke, EvidenceInv, history
<1>3. CASE StartSession
  BY <1>3, CampaignInIds DEF StartSession, EvidenceInv, disk, history, TypeInv, ScriptTypes, LauncherTypes
<1>4. CASE ReadFinished
  BY <1>4 DEF ReadFinished, EvidenceInv, disk, history
<1>5. CASE ReadUnfinished \/ AskSession \/ Summarise
  BY <1>5 DEF ReadUnfinished, AskSession, Summarise, Others, EvidenceInv, disk, history
<1>6. CASE UNCHANGED vars
  BY <1>6 DEF vars, EvidenceInv, disk, history
<1> QED
  BY <1>1, <1>2, <1>3, <1>4, <1>5, <1>6 DEF Next, ScriptStep, LauncherMoves

AllEvidence == \A c \in Ids : EvidenceInv(c)

\* Compaction loses no evidence, wherever it fails or dies: unless a container
\* outlived its client, what the fuzzers of a campaign found is in the run
\* tree or still in the build tree.
THEOREM KeptEvidence == Spec => []EvidenceKept
<1>1. Init => AllEvidence
  BY DEF Init, AllEvidence, EvidenceInv
<1>2. TypeInv /\ AllEvidence /\ [Next]_vars => AllEvidence'
  BY EvidenceStep DEF AllEvidence
<1>3. AllEvidence => EvidenceKept
  BY DEF AllEvidence, EvidenceInv, EvidenceKept
<1> QED
  BY <1>1, <1>2, <1>3, TypeInit, TypeStep, PTL DEF Spec

-----------------------------------------------------------------------------
(* Success is real, and compacted.  Of each campaign: what its launcher    *)
(* has seen, where it is, and what its status file may say.                *)

Needed(c) == IF Baseline[c] = "libFuzzer" THEN {"kem", "sig"} ELSE {"run"}
Fuzzed(c) == passed[c] = Needed(c)

Early == {"none", "new", "docker-build", "target-build"} \cup FuzzStages
Over(c) == stage[c] \in {"none", "ended"}

Summarised(c) == Baseline[c] = "cryptoTesting" \/ summary[c] # "none"
Compacted(c) ==
    /\ build[c] = "gone" /\ manifest[c] = "completed"
    /\ Summarised(c) => summary[c] = "whole"

SeenInv(c) ==
    /\ stage[c] \in {"kem", "sig"} => Baseline[c] = "libFuzzer"
    /\ stage[c] = "run" => Baseline[c] # "libFuzzer"
    /\ passed[c] \subseteq Needed(c)
    /\ stage[c] = "sig" /\ c \notin kemFailed => "kem" \in passed[c]
    /\ result[c] \in Good => Fuzzed(c)

StageInv(c) ==
    /\ stage[c] \in Early => result[c] = "none"
    /\ stage[c] \in CompactionStages \cup {"finishing"} => result[c] # "none"
    /\ stage[c] = "skipping" => result[c] \notin Good
    /\ stage[c] = "recording" => build[c] = "gone"
    /\ stage[c] = "finishing" /\ saveMode = "compact" /\ result[c] \in Good => Compacted(c)
    /\ pc # "idle" /\ stage[c] \in Early /\ ~HasRunSummary(c) => summary[c] # "torn"
    /\ stage[c] \in CompactionStages /\ result[c] \in Good => summary[c] # "torn"
    /\ stage[c] = "none" => c \notin session
    /\ ~Over(c) => c \in session

\* A file that an earlier invocation left says nothing of this one.
FileInv(c) ==
    pc # "idle" /\ doc[c] # Absent =>
        /\ doc[c].state = "finished" => stage[c] = "ended"
        /\ result[c] = "none" => doc[c].result = "none"
        /\ doc[c].result \in Good => Fuzzed(c)
        /\ stage[c] = "ended" /\ saveMode = "compact" /\ c \notin cut /\ doc[c].result \in Good =>
               Compacted(c)

CampaignInv(c) == SeenInv(c) /\ StageInv(c) /\ FileInv(c)

\* The fuzzer of the stage is what passed, if it did.
LEMMA RanAs ==
    ASSUME TypeInv, NEW c \in Ids, stage[c] \in {"kem", "sig", "run"},
           NEW ok \in BOOLEAN, RunEnds(c, ok)
    PROVE  passed'[c] = IF ok THEN passed[c] \cup {stage[c]} ELSE passed[c]
<1>1. stage[c] \in FuzzStages
  BY StageNames
<1>2. LauncherTypes /\ DiskTypes
  BY DEF TypeInv
<1> QED
  BY <1>1, <1>2, RunEffect

\* What a run leaves for a summary: a whole one if it ended well, and none
\* where the baseline has none.
LEMMA SummaryAs ==
    ASSUME TypeInv, NEW c \in Ids, stage[c] \in {"kem", "sig", "run"},
           NEW ok \in BOOLEAN, RunEnds(c, ok)
    PROVE  /\ ok /\ HasRunSummary(c) => summary'[c] = "whole"
           /\ ~HasRunSummary(c) => summary'[c] = summary[c]
<1>1. stage[c] \in FuzzStages
  BY StageNames
<1>2. LauncherTypes /\ DiskTypes
  BY DEF TypeInv
<1> QED
  BY <1>1, <1>2, RunEffect

\* Launchers have seen what they claim.
LEMMA SeenMove ==
    ASSUME TypeInv, NEW c \in Ids, LauncherMoves(c), SeenInv(c), StageInv(c)
    PROVE  SeenInv(c)'
<1> USE StageNames DEF TypeInv, LauncherTypes, DiskTypes, SeenInv, Needed, Fuzzed
<1>1. CASE Start(c)
  BY <1>1, EnterEffect DEF Start, disk
<1>2. CASE ImageBuilt(c)
  BY <1>2, EnterEffect DEF ImageBuilt
<1>3. CASE TargetBuilt(c)
  BY <1>3, EnterEffect DEF TargetBuilt
<1>4. CASE BuildFails(c)
  <2>1. PICK r \in {"docker-build-failed", "target-build-failed"} : Finish(c, r)
    BY <1>4 DEF BuildFails
  <2>2. result'[c] = r /\ stage'[c] \in {"finishing", "copying", "skipping"}
    BY <2>1, FinishEffect
  <2> QED
    BY <1>4, <2>1, <2>2 DEF BuildFails, Good
<1>5. CASE KemEnds(c)
  <2>1. PICK ok \in BOOLEAN :
           RunEnds(c, ok) /\ kemFailed' = IF ok THEN kemFailed ELSE kemFailed \cup {c}
    BY <1>5 DEF KemEnds
  <2>2. stage[c] = "kem" /\ stage'[c] = "sig" /\ UNCHANGED result
    BY <1>5, EnterEffect DEF KemEnds
  <2>3. passed'[c] = IF ok THEN passed[c] \cup {"kem"} ELSE passed[c]
    BY <2>1, <2>2, RanAs
  <2> QED
    BY <2>1, <2>2, <2>3, StageNames DEF Early, Good
<1>6. CASE FuzzingEnds(c)
  <2>1. PICK ok \in BOOLEAN : RunEnds(c, ok) /\ Finish(c, FuzzResult(c, ok))
    BY <1>6 DEF FuzzingEnds
  <2>2. stage[c] \in {"sig", "run"} /\ UNCHANGED kemFailed
    BY <1>6 DEF FuzzingEnds
  <2>3. FuzzResult(c, ok) \in Results
    BY DEF FuzzResult
  <2>4. passed'[c] = IF ok THEN passed[c] \cup {stage[c]} ELSE passed[c]
    BY <2>1, <2>2, RanAs
  <2>5. result'[c] = FuzzResult(c, ok) /\ stage'[c] \in {"finishing", "copying", "skipping"}
    BY <2>1, <2>3, FinishEffect
  <2>6. result'[c] \in Good => ok /\ c \notin kemFailed
    BY <2>5 DEF FuzzResult, Good
  <2>7. passed'[c] \subseteq Needed(c)
    BY <2>2, <2>4
  <2>8. ASSUME result'[c] \in Good PROVE Fuzzed(c)'
    <3>1. CASE stage[c] = "sig"
      <4>1. Needed(c) = {"kem", "sig"} /\ "kem" \in passed[c]
        BY <2>6, <2>8, <3>1
      <4>2. passed'[c] = passed[c] \cup {"sig"}
        BY <2>4, <2>6, <2>8, <3>1
      <4> QED
        BY <2>7, <4>1, <4>2
    <3>2. CASE stage[c] = "run"
      <4>1. Needed(c) = {"run"}
        BY <3>2
      <4>2. passed'[c] = passed[c] \cup {"run"}
        BY <2>4, <2>6, <2>8, <3>2
      <4> QED
        BY <2>7, <4>1, <4>2
    <3> QED
      BY <2>2, <3>1, <3>2
  <2> QED
    BY <2>5, <2>7, <2>8
<1>7. CASE FuzzingTimesOut(c)
  <2>1. RunEnds(c, TRUE) /\ Finish(c, "timed-out") /\ stage[c] = "run" /\ UNCHANGED kemFailed
    BY <1>7 DEF FuzzingTimesOut
  <2>2. passed'[c] = passed[c] \cup {"run"}
    BY <2>1, RunEffect
  <2>3. stage'[c] \in {"finishing", "copying", "skipping"}
    BY <2>1, FinishEffect
  <2> QED
    BY <2>1, <2>2, <2>3
<1>8. ASSUME NEW x \in Crashes[c], CopyArtifact(c, x) PROVE SeenInv(c)'
  BY <1>8 DEF CopyArtifact, history
<1>9. CASE StartRemoval(c)
  BY <1>9 DEF StartRemoval, disk, history
<1>10. CASE RemoveBuild(c)
  BY <1>10 DEF RemoveBuild, history
<1>11. CASE RecordCompaction(c)
  BY <1>11 DEF RecordCompaction, CompactionEnds, CompactedResult, Good, Bad, history
<1>12. CASE CompactionFails(c)
  BY <1>12, CutEffect DEF CompactionFails, CompactionEnds, CompactedResult, CompactionStages, Good, Bad, history
<1>13. CASE WriteFinished(c)
  BY <1>13, WriteEffect, StatusType DEF WriteFinished, disk
<1>14. CASE LauncherExits(c)
  BY <1>14 DEF LauncherExits, disk, history
<1>15. CASE KillSession(c)
  BY <1>15, CutEffect DEF KillSession
<1>16. ASSUME NEW x \in Crashes[c], Find(c, x) PROVE SeenInv(c)'
  BY <1>16 DEF Find
<1> QED
  BY <1>1, <1>2, <1>3, <1>4, <1>5, <1>6, <1>7, <1>8, <1>9, <1>10, <1>11, <1>12,
     <1>13, <1>14, <1>15, <1>16
     DEF LauncherMoves, LauncherStep


\* Where a launcher is tells whether there is a result and what is compacted.
LEMMA StageMove ==
    ASSUME TypeInv, NEW c \in Ids, LauncherMoves(c), StageInv(c), pc # "idle" \/ c \notin session
    PROVE  StageInv(c)'
<1> USE StageNames DEF TypeInv, LauncherTypes, DiskTypes, StageInv, Early, Over, Compacted, Summarised,
        CompactionStages, HasRunSummary
<1>0. saveMode' = saveMode /\ pc' = pc
  BY LauncherLeavesScript DEF script
<1> USE <1>0
<1>1. CASE Start(c)
  BY <1>1, EnterEffect DEF Start, disk
<1>2. CASE ImageBuilt(c)
  BY <1>2, EnterEffect DEF ImageBuilt
<1>3. CASE TargetBuilt(c)
  BY <1>3, EnterEffect DEF TargetBuilt
<1>4. CASE BuildFails(c)
  <2>1. PICK r \in {"docker-build-failed", "target-build-failed"} : Finish(c, r)
    BY <1>4 DEF BuildFails
  <2>2. /\ result'[c] = r /\ stage[c] \in {"docker-build", "target-build"}
        /\ stage'[c] = IF saveMode # "compact" THEN "finishing" ELSE "skipping"
    BY <1>4, <2>1, FinishEffect DEF BuildFails
  <2> QED
    BY <1>4, <2>2 DEF BuildFails, Good
<1>5. CASE KemEnds(c)
  <2>1. PICK ok \in BOOLEAN : RunEnds(c, ok)
    BY <1>5 DEF KemEnds
  <2>2. stage[c] = "kem" /\ (~HasRunSummary(c) => summary'[c] = summary[c])
    BY <1>5, <2>1, SummaryAs DEF KemEnds
  <2> QED
    BY <1>5, <2>2, EnterEffect DEF KemEnds
<1>6. CASE FuzzingEnds(c)
  <2>1. PICK ok \in BOOLEAN : RunEnds(c, ok) /\ Finish(c, FuzzResult(c, ok))
    BY <1>6 DEF FuzzingEnds
  <2>2. FuzzResult(c, ok) \in Results /\ stage[c] \in {"sig", "run"}
    BY <1>6 DEF FuzzResult, FuzzingEnds
  <2>3. /\ result'[c] = FuzzResult(c, ok)
        /\ stage'[c] = IF saveMode # "compact" THEN "finishing" ELSE "copying"
    BY <2>1, <2>2, FinishEffect
  <2>4. result'[c] \in Good => ok
    BY <2>3 DEF FuzzResult, Good
  <2>5. result'[c] \in Good => summary'[c] # "torn"
    <3>1. pc # "idle"
      BY <2>2
    <3>2. /\ ok /\ HasRunSummary(c) => summary'[c] = "whole"
          /\ ~HasRunSummary(c) => summary'[c] = summary[c]
      BY <2>1, <2>2, SummaryAs
    <3> QED
      BY <2>2, <2>4, <3>1, <3>2
  <2> QED
    BY <1>6, <2>2, <2>3, <2>5 DEF FuzzingEnds
<1>7. CASE FuzzingTimesOut(c)
  <2>1. RunEnds(c, TRUE) /\ Finish(c, "timed-out") /\ stage[c] = "run"
    BY <1>7 DEF FuzzingTimesOut
  <2>2. /\ result'[c] \in Results
        /\ stage'[c] = IF saveMode # "compact" THEN "finishing" ELSE "copying"
    BY <2>1, FinishEffect
  <2>3. summary'[c] # "torn"
    <3>1. pc # "idle"
      BY <2>1
    <3>2. ~HasRunSummary(c) /\ summary'[c] = summary[c]
      BY <1>7, <2>1, SummaryAs DEF FuzzingTimesOut
    <3> QED
      BY <2>1, <3>1, <3>2
  <2> QED
    BY <1>7, <2>1, <2>2, <2>3 DEF FuzzingTimesOut
<1>8. ASSUME NEW x \in Crashes[c], CopyArtifact(c, x) PROVE StageInv(c)'
  BY <1>8 DEF CopyArtifact, history
<1>9. CASE StartRemoval(c)
  BY <1>9 DEF StartRemoval, disk, history
<1>10. CASE RemoveBuild(c)
  BY <1>10 DEF RemoveBuild, history
<1>11. CASE RecordCompaction(c)
  <2>1. stage'[c] = "finishing" /\ result'[c] = result[c] /\ UNCHANGED <<session, build>>
    BY <1>11 DEF RecordCompaction, CompactionEnds, CompactedResult
  <2>2. ASSUME result[c] \in Good PROVE Compacted(c)'
    <3>1. stage[c] = "recording" /\ build[c] = "gone" /\ summary[c] \in {"none", "whole"}
      BY <1>11, <2>2 DEF RecordCompaction, Summaries
    <3>2. manifest'[c] = "completed"
      BY <1>11, <3>1 DEF RecordCompaction
    <3>3. summary'[c] = IF ~HasRunSummary(c) /\ summary[c] = "none" THEN "whole" ELSE summary[c]
      BY <1>11, <3>1 DEF RecordCompaction
    <3> QED
      BY <2>1, <3>1, <3>2, <3>3
  <2> QED
    BY <1>11, <2>1, <2>2 DEF RecordCompaction
<1>12. CASE CompactionFails(c)
  BY <1>12, CutEffect DEF CompactionFails, CompactionEnds, CompactedResult, CompactionStages, Good, Bad, history
<1>13. CASE WriteFinished(c)
  BY <1>13, WriteEffect, StatusType DEF WriteFinished, disk
<1>14. CASE LauncherExits(c)
  BY <1>14 DEF LauncherExits, disk, history
<1>15. CASE KillSession(c)
  BY <1>15, CutEffect DEF KillSession
<1>16. ASSUME NEW x \in Crashes[c], Find(c, x) PROVE StageInv(c)'
  BY <1>16 DEF Find
<1> QED
  BY <1>1, <1>2, <1>3, <1>4, <1>5, <1>6, <1>7, <1>8, <1>9, <1>10, <1>11, <1>12,
     <1>13, <1>14, <1>15, <1>16
     DEF LauncherMoves, LauncherStep

\* What passed stays passed.
LEMMA PassedGrows ==
    ASSUME TypeInv, NEW c \in Ids, LauncherMoves(c)
    PROVE  passed[c] \subseteq passed'[c]
BY DEF TypeInv, LauncherTypes, LauncherMoves, LauncherStep, Start, ImageBuilt, TargetBuilt, BuildFails,
       KemEnds, FuzzingEnds, FuzzingTimesOut, RunEnds, CopyArtifact, StartRemoval, RemoveBuild,
       RecordCompaction, CompactionFails, WriteFinished, LauncherExits, KillSession, Find, history

\* A status file says what its launcher has seen, and is finished at its end.
LEMMA FileMove ==
    ASSUME TypeInv, NEW c \in Ids, LauncherMoves(c), CampaignInv(c), pc # "idle"
    PROVE  FileInv(c)'
<1>0. /\ SeenInv(c) /\ StageInv(c) /\ FileInv(c) /\ SeenInv(c)'
      /\ saveMode' = saveMode /\ pc' = pc
  BY SeenMove, LauncherLeavesScript DEF CampaignInv, script
<1>a. Fuzzed(c) => Fuzzed(c)'
  <2>1. passed[c] \subseteq passed'[c]
    BY PassedGrows
  <2> QED
    BY <1>0, <2>1 DEF SeenInv, Fuzzed
<1>b. result'[c] \in Good => Fuzzed(c)'
  BY <1>0 DEF SeenInv
<1> USE <1>0, <1>a, <1>b, StageNames DEF TypeInv, LauncherTypes, DiskTypes, StageInv, FileInv, Early,
        Over, Compacted, Summarised, CompactionStages
<1>1. CASE Start(c)
  BY <1>1, EnterEffect, StatusType DEF Start, disk
<1>2. CASE ImageBuilt(c)
  BY <1>2, EnterEffect, StatusType DEF ImageBuilt
<1>3. CASE TargetBuilt(c)
  BY <1>3, EnterEffect, StatusType DEF TargetBuilt
<1>4. CASE BuildFails(c)
  <2>1. PICK r \in {"docker-build-failed", "target-build-failed"} : Finish(c, r)
    BY <1>4 DEF BuildFails
  <2>2. r \in Results /\ r \notin Good /\ r # "none"
    BY <2>1 DEF Good
  <2> QED
    BY <1>4, <2>1, <2>2, FinishEffect, StatusType DEF BuildFails
<1>5. CASE KemEnds(c)
  BY <1>5, EnterEffect, StatusType DEF KemEnds
<1>6. CASE FuzzingEnds(c)
  <2>1. PICK ok \in BOOLEAN : Finish(c, FuzzResult(c, ok))
    BY <1>6 DEF FuzzingEnds
  <2>2. FuzzResult(c, ok) \in Results /\ result'[c] = FuzzResult(c, ok) /\ result'[c] # "none"
    BY <2>1 DEF FuzzResult, Finish
  <2> QED
    BY <1>6, <2>1, <2>2, FinishEffect, StatusType DEF FuzzingEnds
<1>7. CASE FuzzingTimesOut(c)
  <2>1. Finish(c, "timed-out") /\ stage[c] = "run" /\ result'[c] = "timed-out"
    BY <1>7, FinishEffect DEF FuzzingTimesOut
  <2> QED
    BY <1>7, <2>1, FinishEffect, StatusType DEF FuzzingTimesOut
<1>8. ASSUME NEW x \in Crashes[c], CopyArtifact(c, x) PROVE FileInv(c)'
  BY <1>8 DEF CopyArtifact, history
<1>9. CASE StartRemoval(c)
  BY <1>9 DEF StartRemoval, disk, history
<1>10. CASE RemoveBuild(c)
  BY <1>10 DEF RemoveBuild, history
<1>11. CASE RecordCompaction(c)
  BY <1>11 DEF RecordCompaction, CompactionEnds, CompactedResult, Good, Bad, history
<1>12. CASE CompactionFails(c)
  BY <1>12, CutEffect DEF CompactionFails, CompactionEnds, CompactedResult, CompactionStages, Good, Bad, history
<1>13. CASE WriteFinished(c)
  BY <1>13, WriteEffect, StatusType DEF WriteFinished, disk
<1>14. CASE LauncherExits(c)
  BY <1>14 DEF LauncherExits, disk, history
<1>15. CASE KillSession(c)
  <2>1. UNCHANGED <<doc, result, passed>> /\ stage[c] # "ended"
    BY <1>15 DEF KillSession
  <2>2. stage'[c] = "ended" /\ (result[c] # "none" => c \in cut')
    BY <1>15 DEF KillSession
  <2> QED
    BY <2>1, <2>2
<1>16. ASSUME NEW x \in Crashes[c], Find(c, x) PROVE FileInv(c)'
  BY <1>16 DEF Find
<1> QED
  BY <1>1, <1>2, <1>3, <1>4, <1>5, <1>6, <1>7, <1>8, <1>9, <1>10, <1>11, <1>12,
     <1>13, <1>14, <1>15, <1>16
     DEF LauncherMoves, LauncherStep

-----------------------------------------------------------------------------
(* The script: it comes to its summary when every launcher is over.        *)

Published(c) == doc[c] # Absent /\ doc[c].result \in Good /\ Summarised(c)

ScriptInv ==
    /\ pc = "idle" => \A c \in Ids : stage[c] = "none"
    /\ pc = "starting" => \A i \in at .. Len(Campaigns) : stage[Campaigns[i]] = "none"
    /\ pc \in {"reading", "asking"} /\ ~remaining => \A i \in 1 .. (at - 1) : Over(Campaigns[i])
    /\ pc \in {"summing", "exited"} => \A c \in Ids : Over(c)
    /\ \A c \in Ids : rows[c] \in Good => pc \in {"summing", "exited"} /\ Published(c)
    /\ exit = "ok" => pc = "exited" /\ \A c \in Ids : rows[c] \in Good

BaselineInv == TypeInv /\ (\A c \in Ids : CampaignInv(c)) /\ ScriptInv

\* A launcher that has not begun or is over leaves its files alone.
LEMMA OverStays ==
    ASSUME TypeInv, NEW c \in Ids, LauncherMoves(c), NEW d \in Ids, Over(d), StageInv(d)
    PROVE  UNCHANGED <<stage[d], doc[d], summary[d]>>
<1>1. CASE c # d
  BY <1>1, OthersUntouched DEF Untouched
<1>2. CASE c = d
  <2>1. stage[c] \notin FuzzStages \cup CompactionStages \cup
                            {"new", "docker-build", "target-build", "finishing"}
    BY <1>2 DEF Over, FuzzStages, CompactionStages
  <2>2. ~KillSession(c)
    BY <1>2 DEF KillSession, Over, StageInv
  <2>3. LauncherExits(c) \/ \E x \in Crashes[c] : Find(c, x)
    BY <2>1, <2>2
       DEF LauncherMoves, LauncherStep, Start, ImageBuilt, TargetBuilt, BuildFails, KemEnds, FuzzingEnds,
           FuzzingTimesOut, CopyArtifact, StartRemoval, RemoveBuild, RecordCompaction, CompactionFails,
           WriteFinished, FuzzStages, CompactionStages
  <2> QED
    BY <1>2, <2>3 DEF LauncherExits, Find, disk
<1> QED
  BY <1>1, <1>2

\* Of a finished status file, and of a session that is gone, the launcher is over.
LEMMA OverKnown ==
    ASSUME NEW c \in Ids, CampaignInv(c), pc # "idle", StatusFileFinished(c) \/ c \notin session
    PROVE  Over(c)
BY DEF CampaignInv, StageInv, FileInv, StatusFileFinished, Over

LEMMA CampaignStep ==
    ASSUME BaselineInv, [Next]_vars, NEW d \in Ids
    PROVE  CampaignInv(d)'
<1>0. CampaignInv(d) /\ SeenInv(d) /\ StageInv(d) /\ FileInv(d) /\ TypeInv
  BY DEF BaselineInv, CampaignInv
<1>1. ASSUME NEW c \in Ids, LauncherMoves(c) PROVE CampaignInv(d)'
  <2>1. CASE c = d
    <3>1. pc # "idle" \/ c \notin session
      BY <2>1, <1>0 DEF BaselineInv, ScriptInv, StageInv
    <3>2. SeenInv(d)' /\ StageInv(d)'
      BY <1>0, <1>1, <2>1, <3>1, SeenMove, StageMove
    <3>3. CASE pc # "idle"
      BY <1>0, <1>1, <2>1, <3>2, <3>3, FileMove DEF CampaignInv
    <3>4. CASE pc = "idle"
      BY <1>1, <3>2, <3>4, LauncherLeavesScript DEF CampaignInv, FileInv, script
    <3> QED
      BY <3>3, <3>4
  <2>2. CASE c # d
    <3>1. Untouched(d) /\ saveMode' = saveMode /\ pc' = pc
      BY <1>0, <1>1, <2>2, OthersUntouched, LauncherLeavesScript DEF script
    <3> QED
      BY <1>0, <3>1
         DEF Untouched, CampaignInv, SeenInv, StageInv, FileInv, Fuzzed, Over, Compacted, Summarised
  <2> QED
    BY <2>1, <2>2
<1> USE <1>0 DEF CampaignInv, SeenInv, StageInv, FileInv, Fuzzed, Over, Compacted, Summarised
<1>2. CASE Invoke
  <2>1. stage[d] = "none"
    BY <1>2 DEF Invoke, BaselineInv, ScriptInv
  <2>2. doc'[d] = Absent /\ summary'[d] = "none"
    BY <1>2 DEF Invoke, ArchiveExistingEvalRoot
  <2> QED
    BY <1>2, <2>1, <2>2 DEF Invoke, CompactionStages, history
<1>3. CASE StartSession
  <2>1. Campaign \in Ids /\ stage[Campaign] = "none"
    BY <1>3, CampaignInIds, CampaignsCounted
       DEF StartSession, TypeInv, ScriptTypes, BaselineInv, ScriptInv, Campaign
  <2>2. stage'[d] = stage[d] \/ (d = Campaign /\ stage'[d] = "new" /\ d \in session')
    BY <1>3, <2>1 DEF StartSession, TypeInv, LauncherTypes
  <2>3. stage'[d] = stage[d] => (d \in session' <=> d \in session) \/ d = Campaign
    BY <1>3 DEF StartSession
  <2>4. stage'[d] = stage[d] /\ d = Campaign => d \notin session'
    BY <1>3, <2>1 DEF StartSession, TypeInv, LauncherTypes
  <2>5. UNCHANGED <<saveMode, result, doc, kemFailed, passed, cut, summary, build, manifest>> /\ pc # "idle"
    BY <1>3 DEF StartSession, disk, history
  <2>6. CASE stage'[d] = stage[d]
    BY <2>1, <2>3, <2>4, <2>5, <2>6
  <2>7. CASE d = Campaign /\ stage'[d] = "new" /\ d \in session'
    BY <2>1, <2>5, <2>7 DEF Early, CompactionStages
  <2> QED
    BY <2>2, <2>6, <2>7
<1>4. CASE ReadFinished
  <2>1. Campaign \in Ids
    BY CampaignInIds DEF TypeInv, ScriptTypes
  <2>2. Over(Campaign)
    BY <1>4, <2>1, OverKnown DEF ReadFinished, BaselineInv
  <2>3. UNCHANGED <<saveMode, stage, result, doc, kemFailed, passed, cut, summary, build, manifest>>
    BY <1>4 DEF ReadFinished, disk, history
  <2>4. session' = session \ {Campaign} /\ pc # "idle"
    BY <1>4 DEF ReadFinished
  <2> QED
    BY <2>2, <2>3, <2>4
<1>5. CASE ReadUnfinished \/ AskSession \/ Summarise
  <2>1. UNCHANGED Others /\ pc # "idle"
    BY <1>5 DEF ReadUnfinished, AskSession, Summarise
  <2> QED
    BY <2>1 DEF Others, disk, history
<1>6. CASE UNCHANGED vars
  BY <1>6 DEF vars, script, disk, history
<1> QED
  BY <1>1, <1>2, <1>3, <1>4, <1>5, <1>6 DEF Next, ScriptStep, LauncherMoves

\* The step to the next campaign of a sweep, or to the summary.
LEMMA SweepStep ==
    ASSUME ScriptInv, pc \in {"reading", "asking"}, at \in 1 .. Len(Campaigns), Len(Campaigns) \in Nat,
           NEW still \in BOOLEAN, NextCampaign(still), UNCHANGED <<exit, rows, stage>>,
           ~still => \A i \in 1 .. at : Over(Campaigns[i]),
           ~still /\ AtEnd => \A c \in Ids : Over(c)
    PROVE  ScriptInv'
<1>0. exit # "ok" /\ \A c \in Ids : rows[c] \notin Good
  BY DEF ScriptInv
<1> USE <1>0 DEF ScriptInv, Over
<1>1. CASE AtEnd /\ still
  BY <1>1 DEF NextCampaign, Advance
<1>2. CASE AtEnd /\ ~still
  BY <1>2 DEF NextCampaign, Advance
<1>3. CASE ~AtEnd
  BY <1>3 DEF NextCampaign, Advance
<1> QED
  BY <1>1, <1>2, <1>3

LEMMA ScriptStepKeeps ==
    ASSUME BaselineInv, [Next]_vars
    PROVE  ScriptInv'
<1>0. TypeInv /\ ScriptInv /\ at \in 1 .. Len(Campaigns) /\ Len(Campaigns) \in Nat
  BY CampaignsCounted DEF BaselineInv, TypeInv, ScriptTypes
<1>1. \A i \in 1 .. Len(Campaigns) : Campaigns[i] \in Ids
  BY BaselineAssumption DEF Ids, ToSet
<1>2. \A c \in Ids : CampaignInv(c) /\ StageInv(c) /\ FileInv(c)
  BY DEF BaselineInv, CampaignInv
<1>3. ASSUME NEW c \in Ids, LauncherMoves(c) PROVE ScriptInv'
  <2>1. UNCHANGED script
    BY <1>3, LauncherLeavesScript
  <2>2. \A d \in Ids : Over(d) => UNCHANGED <<stage[d], doc[d], summary[d]>>
    BY <1>0, <1>2, <1>3, OverStays
  <2>3. \A d \in Ids : Over(d) => Over(d)' /\ (Published(d) => Published(d)')
    BY <2>2 DEF Over, Published, Summarised
  <2>4. \A d \in Ids : stage[d] = "none" => stage'[d] = "none"
    BY <2>2 DEF Over
  <2> QED
    BY <1>0, <1>1, <2>1, <2>3, <2>4 DEF ScriptInv, script
<1>4. CASE Invoke
  BY <1>0, <1>1, <1>4 DEF Invoke, ScriptInv
<1>5. CASE StartSession
  <2>1. \A i \in (at + 1) .. Len(Campaigns) : stage'[Campaigns[i]] = "none"
    BY <1>0, <1>1, <1>5, BaselineAssumption
       DEF StartSession, ScriptInv, Campaign, TypeInv, LauncherTypes
  <2>2. UNCHANGED <<rows, exit>> /\ pc = "starting"
    BY <1>5 DEF StartSession
  <2> QED
    BY <1>0, <1>5, <2>1, <2>2 DEF StartSession, ScriptInv, Advance
<1>6. CASE ReadFinished
  <2>1. Over(Campaign) /\ pc = "reading"
    BY <1>0, <1>2, <1>6, CampaignInIds, OverKnown DEF ReadFinished
  <2>2. ~remaining => \A i \in 1 .. at : Over(Campaigns[i])
    BY <1>0, <2>1 DEF ScriptInv, Campaign
  <2>3. AtEnd /\ ~remaining => \A c \in Ids : Over(c)
    BY <2>2, PlaceOfCampaign DEF AtEnd
  <2>4. remaining \in BOOLEAN
    BY <1>0 DEF TypeInv, ScriptTypes
  <2> QED
    BY <1>0, <1>6, <2>1, <2>2, <2>3, <2>4, SweepStep DEF ReadFinished
<1>7. CASE ReadUnfinished
  BY <1>0, <1>7 DEF ReadUnfinished, Others, ScriptInv, Over, Published, Summarised, disk
<1>8. CASE AskSession
  <2>1. Campaign \notin session => Over(Campaign)
    BY <1>0, <1>2, <1>8, CampaignInIds, OverKnown DEF AskSession
  <2>2. ~(remaining \/ StillRunning(Campaign)) => \A i \in 1 .. at : Over(Campaigns[i])
    BY <1>0, <1>8, <2>1 DEF ScriptInv, Campaign, StillRunning, AskSession
  <2>3. AtEnd /\ ~(remaining \/ StillRunning(Campaign)) => \A c \in Ids : Over(c)
    BY <2>2, PlaceOfCampaign DEF AtEnd
  <2>4. (remaining \/ StillRunning(Campaign)) \in BOOLEAN
    BY <1>0 DEF TypeInv, ScriptTypes, StillRunning
  <2>5. pc = "asking" /\ UNCHANGED <<exit, rows, stage>>
    BY <1>8 DEF AskSession, Others
  <2> QED
    BY <1>0, <1>8, <2>2, <2>3, <2>4, <2>5, SweepStep DEF AskSession
<1>9. CASE Summarise
  <2>1. UNCHANGED <<stage, doc, summary>> /\ pc = "summing" /\ pc' \in {"summing", "exited"}
    BY <1>9 DEF Summarise, Others, disk, Advance
  <2>2. \A c \in Ids : Over(c)' /\ (Published(c) => Published(c)')
    BY <1>0, <2>1 DEF ScriptInv, Over, Published, Summarised
  <2>3. Campaign \in Ids /\ (Row(Campaign) \in Good => Published(Campaign))
    <3>1. Campaign \in Ids
      BY <1>0, CampaignInIds
    <3> QED
      BY <3>1 DEF Row, Published, Summarised, Good
  <2>4. \A c \in Ids : rows'[c] \in Good => Published(c)'
    BY <1>0, <1>9, <2>2, <2>3 DEF Summarise, ScriptInv, TypeInv, ScriptTypes
  <2>5. exit' = "ok" => pc' = "exited" /\ \A c \in Ids : rows'[c] \in Good
    BY <1>9 DEF Summarise, Advance
  <2> QED
    BY <2>1, <2>2, <2>4, <2>5 DEF ScriptInv
<1>10. CASE UNCHANGED vars
  BY <1>0, <1>10 DEF vars, script, disk, ScriptInv, Over, Published, Summarised
<1> QED
  BY <1>3, <1>4, <1>5, <1>6, <1>7, <1>8, <1>9, <1>10 DEF Next, ScriptStep, LauncherMoves

LEMMA BaselineInvStep == BaselineInv /\ [Next]_vars => BaselineInv'
<1> SUFFICES ASSUME BaselineInv, [Next]_vars PROVE BaselineInv'
  OBVIOUS
<1>1. TypeInv'
  BY TypeStep DEF BaselineInv
<1>2. \A c \in Ids : CampaignInv(c)'
  BY CampaignStep
<1>3. ScriptInv'
  BY ScriptStepKeeps
<1> QED
  BY <1>1, <1>2, <1>3 DEF BaselineInv

LEMMA BaselineInvInit == Init => BaselineInv
<1> SUFFICES ASSUME Init PROVE BaselineInv
  OBVIOUS
<1>1. TypeInv
  BY TypeInit
<1>2. ASSUME NEW c \in Ids PROVE CampaignInv(c)
  BY <1>2 DEF Init, CampaignInv, SeenInv, StageInv, FileInv, Over, CompactionStages, Good
<1>3. ScriptInv
  BY DEF Init, ScriptInv, Good
<1> QED
  BY <1>1, <1>2, <1>3 DEF BaselineInv

\* An exit with 0 comes with a published success of every campaign.
LEMMA OkMeans ==
    ASSUME BaselineInv, exit = "ok", NEW c \in Ids
    PROVE  Fuzzed(c) /\ (saveMode = "compact" /\ c \notin cut => Compacted(c) /\ Summarised(c))
<1>1. pc = "exited" /\ Over(c) /\ Published(c)
  BY DEF BaselineInv, ScriptInv
<1>2. StageInv(c) /\ FileInv(c)
  BY DEF BaselineInv, CampaignInv
<1>3. stage[c] = "ended"
  BY <1>1, <1>2, StageNames DEF StageInv, FileInv, Published, Over, Early
<1> QED
  BY <1>1, <1>2, <1>3 DEF FileInv, Published

\* No false success: if the script exits with 0, every fuzzer of every
\* campaign of this invocation ended well or used up its time, whatever was
\* killed, not written or left behind.
THEOREM SuccessReal == Spec => []SuccessIsReal
<1>1. BaselineInv => SuccessIsReal
  BY OkMeans DEF SuccessIsReal, Fuzzed, Needed
<1> QED
  BY <1>1, BaselineInvInit, BaselineInvStep, PTL DEF Spec

\* Success in compact mode means compacted, unless a launcher died, or lost a
\* write of its status, after its fuzzers had ended.
THEOREM SuccessCompacted == Spec => []CompactedUnlessCut
<1>1. BaselineInv => CompactedUnlessCut
  BY OkMeans DEF CompactedUnlessCut, Compacted
<1> QED
  BY <1>1, BaselineInvInit, BaselineInvStep, PTL DEF Spec
=============================================================================
