-------------------------- MODULE EvalCampaignProofs --------------------------
(***************************************************************************)
(* Proofs about EvalCampaign for any number of campaigns and any faults:   *)
(* exit status 0 is only said of campaigns that passed, and unless a       *)
(* container outlived its client, no finished status file is rewritten and *)
(* no campaign goes on after its row.                                      *)
(***************************************************************************)
EXTENDS EvalCampaign, TLAPS

-----------------------------------------------------------------------------
(* Types. *)

\* The campaign a loop of the script is at is one of the campaigns.
LEMMA CampaignInIds ==
    ASSUME at \in 1 .. Len(Campaigns)
    PROVE  Campaign \in Ids
BY EvalAssumption DEF Campaign, Ids, ToSet

\* Every campaign has a place in the sequence.
LEMMA PlaceOfCampaign ==
    \A c \in Ids : \E i \in 1 .. Len(Campaigns) : Campaigns[i] = c
BY EvalAssumption DEF Ids, ToSet

LEMMA CampaignsCounted == Len(Campaigns) \in Nat \ {0}
BY EvalAssumption

\* Loops stay within the campaigns.
LEMMA AdvanceType ==
    ASSUME at \in 1 .. Len(Campaigns), NEW loop, NEW after, Advance(loop, after)
    PROVE  at' \in 1 .. Len(Campaigns) /\ pc' \in {loop, after}
BY CampaignsCounted DEF Advance, AtEnd

\* What a launcher writes into a status file is a status.
LEMMA StatusType ==
    ASSUME NEW state \in {"running", "finished"}, NEW result \in Results \cup {"none"}
    PROVE  Status(state, result) \in DocStates
BY DEF Status, DocStates

\* A write of the status file, done or lost, changes that campaign's alone.
LEMMA WriteType ==
    ASSUME doc \in [Ids -> DocStates], NEW c \in Ids, NEW state \in {"running", "finished"},
           NEW result \in Results \cup {"none"}, WriteStatus(c, state, result)
    PROVE  /\ doc' \in [Ids -> DocStates]
           /\ \A d \in Ids : d # c => doc'[d] = doc[d]
           /\ doc'[c] = doc[c] \/ doc'[c] = Status(state, result)
BY StatusType DEF WriteStatus

\* Values the launchers take.
LEMMA Values ==
    /\ Results \subseteq ContainerStates /\ Stages \subseteq ContainerStates
    /\ {"none", "new", "succeeded", "failed"} \subseteq ContainerStates
    /\ {"completed", "docker-run-failed", "docker-build-failed"} \subseteq Results
    /\ Absent \in DocStates
BY DEF ContainerStates, Results, DocStates

\* The end of a session keeps the types.
LEMMA EndType ==
    ASSUME host \in [Ids -> HostStates], session \subseteq Ids, NEW c \in Ids, SessionEnds(c),
           \A d \in Ids : d \in session <=> host[d] \notin {"none", "done"}
    PROVE  /\ host' \in [Ids -> HostStates] /\ session' \subseteq Ids
           /\ \A d \in Ids : d \in session' <=> host'[d] \notin {"none", "done"}
BY DEF SessionEnds, HostStates

LEMMA DieType ==
    ASSUME container \in [Ids -> ContainerStates], outlived \subseteq Ids, NEW c \in Ids,
           ContainerMayDie(c)
    PROVE  container' \in [Ids -> ContainerStates] /\ outlived' \subseteq Ids
BY DEF ContainerMayDie, ContainerStates

\* A row is a result or says what is missing.
LEMMA RowType ==
    ASSUME doc \in [Ids -> DocStates], NEW c \in Ids
    PROVE  Row(c) \in Results \cup {"missing-status", "missing-run-summary"}
<1>1. doc[c] # Absent => doc[c].result \in Results \cup {"none"}
  BY DEF DocStates
<1> QED
  BY <1>1 DEF Row

\* Types of the variables are kept by every step.
LEMMA TypeStep == TypeOK /\ [Next]_vars => TypeOK'
<1> SUFFICES ASSUME TypeOK, [Next]_vars
             PROVE  TypeOK'
  OBVIOUS
<1> USE DEF TypeOK, script, Others
<1>1. CASE Invoke
  BY <1>1, Values DEF Invoke, ArchiveExistingEvalRoot
<1>2. CASE StartSession
  BY <1>2, AdvanceType, CampaignInIds DEF StartSession, HostStates
<1>3. CASE ReadFinished
  BY <1>3, AdvanceType, CampaignInIds, EndType, DieType DEF ReadFinished, NextCampaign
<1>4. CASE ReadUnfinished
  BY <1>4 DEF ReadUnfinished
<1>5. CASE AskSession
  BY <1>5, AdvanceType DEF AskSession, NextCampaign
<1>6. CASE Summarise
  BY <1>6, AdvanceType, CampaignInIds, RowType DEF Summarise
<1>7. CASE Report
  BY <1>7 DEF Report
<1>8. ASSUME NEW c \in Ids, HostStep(c) \/ ContainerStep(c) \/ HostLosesContainer(c)
                             \/ ContainerKilled(c) \/ KillSession(c)
      PROVE  TypeOK'
  <2>1. CASE HostStarts(c)
    BY <1>8, <2>1, WriteType DEF HostStarts, WriteRunning, HostStates
  <2>2. CASE HostBuildFails(c)
    BY <1>8, <2>2, WriteType, EndType, Values DEF HostBuildFails, WriteFinished
  <2>3. CASE HostRunsContainer(c)
    BY <1>8, <2>3, WriteType, Values DEF HostRunsContainer, WriteRunning, HostStates
  <2>4. CASE HostLeaves(c)
    BY <1>8, <2>4, EndType DEF HostLeaves
  <2>5. CASE HostDecides(c)
    BY <1>8, <2>5 DEF HostDecides, HostStates
  <2>6. CASE HostFinishes(c)
    BY <1>8, <2>6, WriteType, EndType, Values DEF HostFinishes, WriteFinished
  <2>7. CASE ContainerBuilds(c)
    BY <1>8, <2>7, WriteType, Values
       DEF ContainerBuilds, WriteRunning, ContainerGoes, ContainerStates, Stages, Targets
  <2>8. CASE ContainerBuildFails(c)
    BY <1>8, <2>8, Values DEF ContainerBuildFails, ContainerGoes, ContainerStates, Results
  <2>9. CASE KemEnds(c)
    BY <1>8, <2>9, WriteType, Values
       DEF KemEnds, RunFuzzer, WriteRunSummary, WriteRunning, ContainerGoes, ContainerStates, Stages, Targets
  <2>10. CASE SigEnds(c)
    BY <1>8, <2>10, Values
       DEF SigEnds, RunFuzzer, WriteRunSummary, FuzzResult, ContainerGoes, ContainerStates, Results, Targets
  <2>11. CASE ContainerFinishes(c)
    BY <1>8, <2>11, WriteType, Values DEF ContainerFinishes, WriteFinished, ContainerGoes
  <2>12. CASE HostLosesContainer(c)
    BY <1>8, <2>12, Values DEF HostLosesContainer, HostStates
  <2>13. CASE ContainerKilled(c)
    BY <1>8, <2>13, Values DEF ContainerKilled, ContainerGoes
  <2>14. CASE KillSession(c)
    BY <1>8, <2>14, EndType, DieType DEF KillSession
  <2> QED
    BY <1>8, <2>1, <2>2, <2>3, <2>4, <2>5, <2>6, <2>7, <2>8, <2>9, <2>10,
       <2>11, <2>12, <2>13, <2>14
       DEF HostStep, ContainerStep
<1>9. CASE UNCHANGED vars
  BY <1>9 DEF vars
<1> QED
  BY <1>1, <1>2, <1>3, <1>4, <1>5, <1>6, <1>7, <1>8, <1>9 DEF Next, ScriptStep

LEMMA TypeInit == Init => TypeOK
<1> SUFFICES ASSUME Init PROVE TypeOK
  OBVIOUS
<1>1. {Absent} \cup Leftovers \subseteq DocStates
  BY StatusType DEF Leftovers, DocStates
<1>2. doc \in [Ids -> DocStates]
  BY <1>1 DEF Init
<1>3. at \in 1 .. Len(Campaigns)
  BY CampaignsCounted DEF Init
<1>4. remaining \in BOOLEAN /\ startFailed \in BOOLEAN /\ overall \in BOOLEAN
  BY DEF Init
<1>5. /\ rows \in [Ids -> Results \cup {"none", "missing-status", "missing-run-summary"}]
      /\ container \in [Ids -> ContainerStates] /\ kemFailed \in [Ids -> BOOLEAN]
      /\ passed \in [Ids -> SUBSET Targets]
  BY Values DEF Init
<1>6. host \in [Ids -> HostStates] /\ \A c \in Ids : c \in session <=> host[c] \notin {"none", "done"}
  BY DEF Init, HostStates
<1> QED
  BY <1>2, <1>3, <1>4, <1>5, <1>6 DEF Init, TypeOK

\* Every variable of the script, the launchers, the containers and the files
\* keeps to its values; the host's launcher runs while its session lives.
THEOREM TypeCorrect == Spec => []TypeOK
BY TypeInit, TypeStep, PTL DEF Spec

-----------------------------------------------------------------------------
(* Success is real.  The claim "completed" travels from the container to   *)
(* its exit status, to the host, to the status file, to a row and to the   *)
(* exit status of the script; at every place it is true.                   *)

Good(c) == passed[c] = Targets

LauncherClaims(c) ==
    /\ container[c] \in {"completed", "succeeded"} => Good(c)
    /\ container[c] = "sig" /\ ~kemFailed[c] => "kem" \in passed[c]
    /\ host[c] = "completed" => Good(c)

\* Before the archive the files may claim what an earlier invocation did.
FileClaims(c) ==
    pc # "idle" /\ doc[c] # Absent /\ doc[c].result = "completed" => Good(c)

ScriptClaims ==
    /\ pc \in {"idle", "starting", "reading", "asking"} => ~overall
    /\ pc = "summing" /\ ~overall => \A i \in 1 .. (at - 1) : Good(Campaigns[i])
    /\ pc = "reporting" /\ ~overall => \A c \in Ids : Good(c)
    /\ pc # "exited" => exit = "none"

Claims ==
    /\ \A c \in Ids : LauncherClaims(c) /\ FileClaims(c)
    /\ ScriptClaims

SuccessInv == TypeOK /\ Claims /\ SuccessIsReal

\* Launchers only claim what they have seen.
LEMMA LauncherClaimsStep ==
    ASSUME TypeOK, [Next]_vars, \A c \in Ids : LauncherClaims(c)
    PROVE  \A c \in Ids : LauncherClaims(c)' /\ passed[c] \subseteq passed'[c]
<1> USE DEF TypeOK, script, Others, LauncherClaims, Good
<1>1. CASE Invoke
  BY <1>1 DEF Invoke
<1>2. CASE StartSession
  BY <1>2, CampaignInIds DEF StartSession
<1>3. CASE ReadFinished
  BY <1>3, CampaignInIds DEF ReadFinished, SessionEnds, ContainerMayDie
<1>4. CASE ReadUnfinished
  BY <1>4 DEF ReadUnfinished
<1>5. CASE AskSession
  BY <1>5 DEF AskSession
<1>6. CASE Summarise
  BY <1>6 DEF Summarise
<1>7. CASE Report
  BY <1>7 DEF Report
<1>8. ASSUME NEW c \in Ids, HostStep(c) \/ ContainerStep(c) \/ HostLosesContainer(c)
                             \/ ContainerKilled(c) \/ KillSession(c)
      PROVE  \A d \in Ids : LauncherClaims(d)' /\ passed[d] \subseteq passed'[d]
  <2>1. CASE HostStarts(c)
    BY <1>8, <2>1 DEF HostStarts
  <2>2. CASE HostBuildFails(c)
    BY <1>8, <2>2 DEF HostBuildFails, SessionEnds
  <2>3. CASE HostRunsContainer(c)
    BY <1>8, <2>3 DEF HostRunsContainer
  <2>4. CASE HostLeaves(c)
    BY <1>8, <2>4 DEF HostLeaves, SessionEnds
  <2>5. CASE HostDecides(c)
    BY <1>8, <2>5 DEF HostDecides
  <2>6. CASE HostFinishes(c)
    BY <1>8, <2>6 DEF HostFinishes, SessionEnds
  <2>7. CASE ContainerBuilds(c)
    BY <1>8, <2>7 DEF ContainerBuilds, ContainerGoes
  <2>8. CASE ContainerBuildFails(c)
    BY <1>8, <2>8 DEF ContainerBuildFails, ContainerGoes
  <2>9. CASE KemEnds(c)
    <3>1. PICK ok \in BOOLEAN : RunFuzzer(c, "kem", ok) /\ kemFailed' = [kemFailed EXCEPT ![c] = ~ok]
      BY <2>9 DEF KemEnds
    <3>2. \A d \in Ids : passed[d] \subseteq passed'[d] /\ (d # c => kemFailed'[d] = kemFailed[d])
      BY <3>1, <1>8 DEF RunFuzzer
    <3>3. ~kemFailed'[c] => "kem" \in passed'[c]
      BY <3>1, <1>8 DEF RunFuzzer
    <3>4. passed' \in [Ids -> SUBSET Targets]
      BY <3>1, <1>8 DEF RunFuzzer, Targets
    <3>5. \A d \in Ids : Good(d) => Good(d)'
      BY <3>2, <3>4
    <3> QED
      BY <1>8, <2>9, <3>2, <3>3, <3>5 DEF KemEnds, ContainerGoes
  <2>10. CASE SigEnds(c)
    BY <1>8, <2>10 DEF SigEnds, RunFuzzer, FuzzResult, ContainerGoes, Targets
  <2>11. CASE ContainerFinishes(c)
    BY <1>8, <2>11 DEF ContainerFinishes, ContainerGoes
  <2>12. CASE HostLosesContainer(c)
    BY <1>8, <2>12 DEF HostLosesContainer
  <2>13. CASE ContainerKilled(c)
    BY <1>8, <2>13 DEF ContainerKilled, ContainerGoes
  <2>14. CASE KillSession(c)
    BY <1>8, <2>14 DEF KillSession, SessionEnds, ContainerMayDie
  <2> QED
    BY <1>8, <2>1, <2>2, <2>3, <2>4, <2>5, <2>6, <2>7, <2>8, <2>9, <2>10,
       <2>11, <2>12, <2>13, <2>14
       DEF HostStep, ContainerStep
<1>9. CASE UNCHANGED vars
  BY <1>9 DEF vars
<1> QED
  BY <1>1, <1>2, <1>3, <1>4, <1>5, <1>6, <1>7, <1>8, <1>9 DEF Next, ScriptStep

LEMMA StatusResult ==
    ASSUME NEW state, NEW result
    PROVE  Status(state, result).result = result
BY DEF Status

LEMMA GoodStays ==
    ASSUME TypeOK, [Next]_vars, \A c \in Ids : LauncherClaims(c)
    PROVE  \A c \in Ids : Good(c) => Good(c)'
<1>1. TypeOK' /\ \A c \in Ids : passed[c] \subseteq passed'[c]
  BY TypeStep, LauncherClaimsStep
<1> QED
  BY <1>1 DEF TypeOK, Good

\* A status file only says what its writer claims.
LEMMA FileClaimsStep ==
    ASSUME TypeOK, [Next]_vars, \A c \in Ids : LauncherClaims(c) /\ FileClaims(c)
    PROVE  \A c \in Ids : FileClaims(c)'
<1>1. \A c \in Ids : Good(c) => Good(c)'
  BY GoodStays
<1> USE <1>1 DEF TypeOK, script, Others, FileClaims
<1>2. CASE Invoke
  BY <1>2 DEF Invoke, ArchiveExistingEvalRoot
<1>3. CASE StartSession
  BY <1>3 DEF StartSession
<1>4. CASE ReadFinished
  BY <1>4 DEF ReadFinished
<1>5. CASE ReadUnfinished
  BY <1>5 DEF ReadUnfinished
<1>6. CASE AskSession
  BY <1>6 DEF AskSession
<1>7. CASE Summarise
  BY <1>7 DEF Summarise
<1>8. CASE Report
  BY <1>8 DEF Report
<1>9. ASSUME NEW c \in Ids, HostStep(c) \/ ContainerStep(c) \/ HostLosesContainer(c)
                             \/ ContainerKilled(c) \/ KillSession(c)
      PROVE  \A d \in Ids : FileClaims(d)'
  <2>1. CASE HostStarts(c)
    BY <1>9, <2>1, WriteType, StatusResult, Values DEF HostStarts, WriteRunning
  <2>2. CASE HostBuildFails(c)
    BY <1>9, <2>2, WriteType, StatusResult, Values DEF HostBuildFails, WriteFinished
  <2>3. CASE HostRunsContainer(c)
    BY <1>9, <2>3, WriteType, StatusResult, Values DEF HostRunsContainer, WriteRunning
  <2>4. CASE HostLeaves(c)
    BY <1>9, <2>4 DEF HostLeaves
  <2>5. CASE HostDecides(c)
    BY <1>9, <2>5 DEF HostDecides
  <2>6. CASE HostFinishes(c)
    BY <1>9, <2>6, WriteType, StatusResult, Values DEF HostFinishes, WriteFinished, LauncherClaims
  <2>7. CASE ContainerBuilds(c)
    BY <1>9, <2>7, WriteType, StatusResult, Values DEF ContainerBuilds, WriteRunning
  <2>8. CASE ContainerBuildFails(c)
    BY <1>9, <2>8 DEF ContainerBuildFails
  <2>9. CASE KemEnds(c)
    BY <1>9, <2>9, WriteType, StatusResult, Values DEF KemEnds, WriteRunning
  <2>10. CASE SigEnds(c)
    BY <1>9, <2>10 DEF SigEnds
  <2>11. CASE ContainerFinishes(c)
    BY <1>9, <2>11, WriteType, StatusResult, Values
       DEF ContainerFinishes, WriteFinished, LauncherClaims
  <2>12. CASE HostLosesContainer(c)
    BY <1>9, <2>12 DEF HostLosesContainer
  <2>13. CASE ContainerKilled(c)
    BY <1>9, <2>13 DEF ContainerKilled
  <2>14. CASE KillSession(c)
    BY <1>9, <2>14 DEF KillSession
  <2> QED
    BY <1>9, <2>1, <2>2, <2>3, <2>4, <2>5, <2>6, <2>7, <2>8, <2>9, <2>10,
       <2>11, <2>12, <2>13, <2>14
       DEF HostStep, ContainerStep
<1>10. CASE UNCHANGED vars
  BY <1>10 DEF vars
<1> QED
  BY <1>2, <1>3, <1>4, <1>5, <1>6, <1>7, <1>8, <1>9, <1>10 DEF Next, ScriptStep

\* A row says "completed" only of a campaign that passed.
LEMMA RowClaim ==
    ASSUME NEW c \in Ids, pc # "idle", FileClaims(c), Row(c) = "completed"
    PROVE  Good(c)
<1>1. doc[c] # Absent /\ doc[c].result = "completed"
  BY DEF Row
<1> QED
  BY <1>1 DEF FileClaims

\* The launchers and what happens to them leave the script's variables alone.
LEMMA LauncherLeavesScript ==
    ASSUME NEW c \in Ids, HostStep(c) \/ ContainerStep(c) \/ HostLosesContainer(c)
                             \/ ContainerKilled(c) \/ KillSession(c)
    PROVE  UNCHANGED script
BY
   DEF HostStep, HostStarts, HostBuildFails, HostRunsContainer, HostLeaves, HostDecides, HostFinishes,
       ContainerStep, ContainerBuilds, ContainerBuildFails, KemEnds, SigEnds, ContainerFinishes,
       HostLosesContainer, ContainerKilled, KillSession, script

\* The script adds the rows up and says what they say.
LEMMA ScriptClaimsStep ==
    ASSUME TypeOK, [Next]_vars, Claims, SuccessIsReal
    PROVE  ScriptClaims' /\ SuccessIsReal'
<1>1. \A c \in Ids : Good(c) => Good(c)'
  BY GoodStays DEF Claims
<1>2. SuccessIsReal <=> (exit = "ok" => \A c \in Ids : Good(c))
  BY DEF SuccessIsReal, Good
<1>3. SuccessIsReal' <=> (exit' = "ok" => \A c \in Ids : Good(c)')
  BY DEF SuccessIsReal, Good
<1>4. \A i \in 1 .. Len(Campaigns) : Campaigns[i] \in Ids
  BY EvalAssumption DEF Ids, ToSet
<1>5. at \in 1 .. Len(Campaigns) /\ overall \in BOOLEAN /\ Len(Campaigns) \in Nat
  BY CampaignsCounted DEF TypeOK
<1> USE <1>1, <1>2, <1>3, <1>4, <1>5 DEF Claims, ScriptClaims
<1>6. CASE UNCHANGED script
  BY <1>6 DEF script
<1>7. CASE Invoke \/ StartSession \/ ReadFinished \/ ReadUnfinished \/ AskSession
  <2>1. CASE Invoke
    BY <2>1 DEF Invoke
  <2>2. CASE StartSession
    BY <2>2 DEF StartSession, Advance
  <2>3. CASE ReadFinished
    BY <2>3 DEF ReadFinished, NextCampaign, Advance
  <2>4. CASE ReadUnfinished
    BY <2>4 DEF ReadUnfinished
  <2>5. CASE AskSession
    BY <2>5 DEF AskSession, NextCampaign, Advance
  <2> QED
    BY <1>7, <2>1, <2>2, <2>3, <2>4, <2>5
<1>8. CASE Summarise
  <2>1. overall' \/ Good(Campaign)
    BY <1>8, CampaignInIds, RowClaim DEF Summarise
  <2>2. ~overall' => ~overall /\ \A j \in 1 .. at : Good(Campaigns[j])'
    BY <1>8, <2>1 DEF Summarise, Campaign
  <2>3. CASE AtEnd
    <3>1. ~overall' => \A c \in Ids : Good(c)'
      BY <2>2, <2>3, PlaceOfCampaign DEF AtEnd
    <3> QED
      BY <1>8, <2>3, <3>1 DEF Summarise, Advance
  <2>4. CASE ~AtEnd
    BY <1>8, <2>2, <2>4 DEF Summarise, Advance
  <2> QED
    BY <2>3, <2>4
<1>9. CASE Report
  BY <1>9 DEF Report
<1> QED
  BY <1>6, <1>7, <1>8, <1>9, LauncherLeavesScript DEF Next, ScriptStep, vars

LEMMA SuccessInvInit == Init => SuccessInv
BY TypeInit DEF Init, SuccessInv, Claims, LauncherClaims, FileClaims, ScriptClaims, SuccessIsReal

LEMMA SuccessInvStep == SuccessInv /\ [Next]_vars => SuccessInv'
BY TypeStep, LauncherClaimsStep, FileClaimsStep, ScriptClaimsStep DEF SuccessInv, Claims

\* No false success, for any campaigns and any faults: exit status 0 means
\* that in every campaign of this invocation both fuzz targets ended well.
THEOREM SuccessReal == Spec => []SuccessIsReal
<1>1. SuccessInv => SuccessIsReal
  BY DEF SuccessInv
<1> QED
  BY <1>1, SuccessInvInit, SuccessInvStep, PTL DEF Spec

-----------------------------------------------------------------------------
(* Finished is final.  A launcher writes while nobody has finished the     *)
(* campaign: the host before its container runs or after it ended without  *)
(* a word, the container while it runs.                                    *)

\* The launchers of a campaign whose container did not outlive its client.
OneSpeaks(c) ==
    /\ host[c] \in {"none", "new", "building"} => ~StatusFileFinished(c) /\ ~Running(c)
    /\ Running(c) => host[c] = "waiting" /\ ~StatusFileFinished(c)
    /\ host[c] = "waiting" => container[c] # "none" /\ (container[c] = "new" => ~StatusFileFinished(c))
    /\ host[c] \in {"completed", "docker-run-failed"} =>
         ~StatusFileFinished(c) /\ container[c] \in {"succeeded", "failed"}

\* Campaigns whose session the script has not started.
NotStarted ==
    /\ pc = "idle" => at = 1 /\ \A c \in Ids : host[c] = "none" /\ container[c] = "none"
    /\ pc = "starting" => \A i \in at .. Len(Campaigns) : host[Campaigns[i]] = "none"

FinishedInv ==
    /\ TypeOK /\ NotStarted
    /\ pc # "idle" => \A c \in Ids \ outlived : OneSpeaks(c)

\* A write leaves the other campaigns' files alone, and its own finished only
\* if it was or is to be.
LEMMA WriteFinality ==
    ASSUME TypeOK, NEW c \in Ids, NEW state \in {"running", "finished"},
           NEW result \in Results \cup {"none"}, WriteStatus(c, state, result)
    PROVE  /\ \A d \in Ids : d # c => (StatusFileFinished(d)' <=> StatusFileFinished(d))
           /\ StatusFileFinished(c)' => StatusFileFinished(c) \/ state = "finished"
<1>1. /\ \A d \in Ids : d # c => doc'[d] = doc[d]
      /\ doc'[c] = doc[c] \/ doc'[c] = Status(state, result)
  BY WriteType DEF TypeOK
<1> QED
  BY <1>1 DEF StatusFileFinished, Status

LEMMA CampaignNotStarted ==
    ASSUME TypeOK, NotStarted, pc = "starting"
    PROVE  host[Campaign] = "none"
BY CampaignsCounted DEF TypeOK, NotStarted, Campaign

\* Sessions start in the order of the campaigns, one each.
LEMMA NotStartedStep ==
    ASSUME TypeOK, NotStarted, [Next]_vars
    PROVE  NotStarted'
<1>1. \A i \in 1 .. Len(Campaigns) : Campaigns[i] \in Ids
  BY EvalAssumption DEF Ids, ToSet
<1>2. \A i, j \in 1 .. Len(Campaigns) : Campaigns[i] = Campaigns[j] => i = j
  BY EvalAssumption
<1>3. at \in 1 .. Len(Campaigns) /\ Len(Campaigns) \in Nat /\ host \in [Ids -> HostStates]
  BY CampaignsCounted DEF TypeOK
<1>4. \A c \in session : host[c] # "none" /\ c \in Ids
  BY DEF TypeOK
<1> USE <1>1, <1>2, <1>3, <1>4 DEF NotStarted, script, Others
<1>5. CASE Invoke
  BY <1>5 DEF Invoke
<1>6. CASE StartSession
  BY <1>6, CampaignInIds DEF StartSession, Advance, Campaign
<1>7. CASE ReadFinished
  BY <1>7 DEF ReadFinished, NextCampaign, Advance
<1>8. CASE ReadUnfinished
  BY <1>8 DEF ReadUnfinished
<1>9. CASE AskSession
  BY <1>9 DEF AskSession, NextCampaign, Advance
<1>10. CASE Summarise
  BY <1>10 DEF Summarise, Advance
<1>11. CASE Report
  BY <1>11 DEF Report
<1>12. ASSUME NEW c \in Ids, HostStep(c) \/ ContainerStep(c) \/ HostLosesContainer(c)
                             \/ ContainerKilled(c) \/ KillSession(c)
      PROVE  NotStarted'
  <2>1. CASE HostStarts(c)
    BY <1>12, <2>1 DEF HostStarts, SessionEnds, ContainerGoes, Running, Stages, Targets, Results
  <2>2. CASE HostBuildFails(c)
    BY <1>12, <2>2
       DEF HostBuildFails, SessionEnds, ContainerGoes, Running, Stages, Targets, Results
  <2>3. CASE HostRunsContainer(c)
    BY <1>12, <2>3
       DEF HostRunsContainer, SessionEnds, ContainerGoes, Running, Stages, Targets, Results
  <2>4. CASE HostLeaves(c)
    BY <1>12, <2>4 DEF HostLeaves, SessionEnds, ContainerGoes, Running, Stages, Targets, Results
  <2>5. CASE HostDecides(c)
    BY <1>12, <2>5 DEF HostDecides, SessionEnds, ContainerGoes, Running, Stages, Targets, Results
  <2>6. CASE HostFinishes(c)
    BY <1>12, <2>6 DEF HostFinishes, SessionEnds, ContainerGoes, Running, Stages, Targets, Results
  <2>7. CASE ContainerBuilds(c)
    BY <1>12, <2>7
       DEF ContainerBuilds, SessionEnds, ContainerGoes, Running, Stages, Targets, Results
  <2>8. CASE ContainerBuildFails(c)
    BY <1>12, <2>8
       DEF ContainerBuildFails, SessionEnds, ContainerGoes, Running, Stages, Targets, Results
  <2>9. CASE KemEnds(c)
    BY <1>12, <2>9 DEF KemEnds, SessionEnds, ContainerGoes, Running, Stages, Targets, Results
  <2>10. CASE SigEnds(c)
    BY <1>12, <2>10 DEF SigEnds, SessionEnds, ContainerGoes, Running, Stages, Targets, Results
  <2>11. CASE ContainerFinishes(c)
    BY <1>12, <2>11
       DEF ContainerFinishes, SessionEnds, ContainerGoes, Running, Stages, Targets, Results
  <2>12. CASE HostLosesContainer(c)
    BY <1>12, <2>12
       DEF HostLosesContainer, SessionEnds, ContainerGoes, Running, Stages, Targets, Results
  <2>13. CASE ContainerKilled(c)
    BY <1>12, <2>13
       DEF ContainerKilled, SessionEnds, ContainerGoes, Running, Stages, Targets, Results
  <2>14. CASE KillSession(c)
    BY <1>12, <2>14 DEF KillSession, SessionEnds, ContainerGoes, Running, Stages, Targets, Results
  <2> QED
    BY <1>12, <2>1, <2>2, <2>3, <2>4, <2>5, <2>6, <2>7, <2>8, <2>9, <2>10,
       <2>11, <2>12, <2>13, <2>14
       DEF HostStep, ContainerStep
<1>13. CASE UNCHANGED vars
  BY <1>13 DEF vars
<1> QED
  BY <1>5, <1>6, <1>7, <1>8, <1>9, <1>10, <1>11, <1>12, <1>13 DEF Next, ScriptStep

\* The two launchers of a campaign speak one after the other.
LEMMA OneSpeaksStep ==
    ASSUME FinishedInv, [Next]_vars
    PROVE  pc' # "idle" => \A c \in Ids \ outlived' : OneSpeaks(c)'
<1> USE DEF FinishedInv, TypeOK, script, Others, OneSpeaks
<1>1. CASE Invoke
  <2>1. \A c \in Ids : ~StatusFileFinished(c)'
    BY <1>1 DEF Invoke, ArchiveExistingEvalRoot, StatusFileFinished
  <2>2. \A c \in Ids : host'[c] = "none" /\ container'[c] = "none"
    BY <1>1 DEF Invoke, NotStarted
  <2>3. \A c \in Ids : ~Running(c)'
    BY <2>2 DEF Running, Results, Stages, Targets
  <2> QED
    BY <2>1, <2>2, <2>3
<1>2. CASE StartSession
  BY <1>2, CampaignInIds, CampaignNotStarted DEF StartSession, StatusFileFinished, Running
<1>3. CASE ReadFinished
  BY <1>3, CampaignInIds
     DEF ReadFinished, SessionEnds, ContainerMayDie, StatusFileFinished, Running, Results, Stages, Targets
<1>4. CASE ReadUnfinished
  BY <1>4 DEF ReadUnfinished, StatusFileFinished, Running
<1>5. CASE AskSession
  BY <1>5 DEF AskSession, StatusFileFinished, Running
<1>6. CASE Summarise
  BY <1>6 DEF Summarise, StatusFileFinished, Running
<1>7. CASE Report
  BY <1>7 DEF Report, StatusFileFinished, Running
<1>8. ASSUME NEW c \in Ids, HostStep(c) \/ ContainerStep(c) \/ HostLosesContainer(c)
                             \/ ContainerKilled(c) \/ KillSession(c)
      PROVE  pc' # "idle" => \A d \in Ids \ outlived' : OneSpeaks(d)'
  <2>1. CASE HostStarts(c)
    BY <1>8, <2>1, WriteFinality, Values DEF HostStarts, WriteRunning, Running
  <2>2. CASE HostBuildFails(c)
    BY <1>8, <2>2, WriteFinality, Values DEF HostBuildFails, WriteFinished, SessionEnds, Running
  <2>3. CASE HostRunsContainer(c)
    BY <1>8, <2>3, WriteFinality, Values
       DEF HostRunsContainer, WriteRunning, Running, Results, Stages, Targets
  <2>4. CASE HostLeaves(c)
    BY <1>8, <2>4
       DEF HostLeaves, SessionEnds, StatusFileFinished, Running, Results, Stages, Targets
  <2>5. CASE HostDecides(c)
    BY <1>8, <2>5
       DEF HostDecides, HostTrusts, StatusFileFinished, Running, Results, Stages, Targets
  <2>6. CASE HostFinishes(c)
    BY <1>8, <2>6, WriteFinality, Values
       DEF HostFinishes, WriteFinished, SessionEnds, Running, Results, Stages, Targets
  <2>7. CASE ContainerBuilds(c)
    BY <1>8, <2>7, WriteFinality, Values
       DEF ContainerBuilds, WriteRunning, ContainerGoes, Running, Results, Stages, Targets
  <2>8. CASE ContainerBuildFails(c)
    BY <1>8, <2>8
       DEF ContainerBuildFails, ContainerGoes, StatusFileFinished, Running, Results, Stages, Targets
  <2>9. CASE KemEnds(c)
    BY <1>8, <2>9, WriteFinality, Values
       DEF KemEnds, WriteRunning, ContainerGoes, Running, Results, Stages, Targets
  <2>10. CASE SigEnds(c)
    BY <1>8, <2>10
       DEF SigEnds, FuzzResult, ContainerGoes, StatusFileFinished, Running, Results, Stages, Targets
  <2>11. CASE ContainerFinishes(c)
    BY <1>8, <2>11, WriteFinality, Values
       DEF ContainerFinishes, WriteFinished, ContainerGoes, Running, Results, Stages, Targets
  <2>12. CASE HostLosesContainer(c)
    BY <1>8, <2>12 DEF HostLosesContainer, StatusFileFinished, Running, Results, Stages, Targets
  <2>13. CASE ContainerKilled(c)
    BY <1>8, <2>13
       DEF ContainerKilled, ContainerGoes, StatusFileFinished, Running, Results, Stages, Targets
  <2>14. CASE KillSession(c)
    BY <1>8, <2>14
       DEF KillSession, SessionEnds, ContainerMayDie, StatusFileFinished, Running, Results, Stages, Targets
  <2> QED
    BY <1>8, <2>1, <2>2, <2>3, <2>4, <2>5, <2>6, <2>7, <2>8, <2>9, <2>10,
       <2>11, <2>12, <2>13, <2>14
       DEF HostStep, ContainerStep
<1>9. CASE UNCHANGED vars
  BY <1>9 DEF vars, StatusFileFinished, Running
<1> QED
  BY <1>1, <1>2, <1>3, <1>4, <1>5, <1>6, <1>7, <1>8, <1>9 DEF Next, ScriptStep

LEMMA FinishedInvInit == Init => FinishedInv
BY TypeInit DEF Init, FinishedInv, NotStarted

LEMMA FinishedInvStep == FinishedInv /\ [Next]_vars => FinishedInv'
BY TypeStep, NotStartedStep, OneSpeaksStep DEF FinishedInv

\* Nobody who writes does so over a finished status.
LEMMA FinishedStays ==
    ASSUME FinishedInv, [Next]_vars
    PROVE  \A c \in Ids \ outlived : pc # "idle" /\ StatusFileFinished(c) => doc'[c] = doc[c]
<1> USE DEF FinishedInv, TypeOK, script, Others, OneSpeaks
<1>1. CASE Invoke
  BY <1>1 DEF Invoke
<1>2. CASE StartSession
  BY <1>2 DEF StartSession
<1>3. CASE ReadFinished
  BY <1>3 DEF ReadFinished
<1>4. CASE ReadUnfinished
  BY <1>4 DEF ReadUnfinished
<1>5. CASE AskSession
  BY <1>5 DEF AskSession
<1>6. CASE Summarise
  BY <1>6 DEF Summarise
<1>7. CASE Report
  BY <1>7 DEF Report
<1>8. ASSUME NEW c \in Ids, HostStep(c) \/ ContainerStep(c) \/ HostLosesContainer(c)
                             \/ ContainerKilled(c) \/ KillSession(c)
      PROVE  \A d \in Ids \ outlived : pc # "idle" /\ StatusFileFinished(d) => doc'[d] = doc[d]
  <2>1. CASE HostStarts(c)
    BY <1>8, <2>1, WriteType DEF HostStarts, WriteRunning
  <2>2. CASE HostBuildFails(c)
    BY <1>8, <2>2, WriteType, Values DEF HostBuildFails, WriteFinished
  <2>3. CASE HostRunsContainer(c)
    BY <1>8, <2>3, WriteType DEF HostRunsContainer, WriteRunning
  <2>4. CASE HostLeaves(c)
    BY <1>8, <2>4 DEF HostLeaves
  <2>5. CASE HostDecides(c)
    BY <1>8, <2>5 DEF HostDecides
  <2>6. CASE HostFinishes(c)
    BY <1>8, <2>6, WriteType, Values DEF HostFinishes, WriteFinished
  <2>7. CASE ContainerBuilds(c)
    BY <1>8, <2>7, WriteType, Values DEF ContainerBuilds, WriteRunning, Running, Stages, Targets
  <2>8. CASE ContainerBuildFails(c)
    BY <1>8, <2>8 DEF ContainerBuildFails
  <2>9. CASE KemEnds(c)
    BY <1>8, <2>9, WriteType, Values DEF KemEnds, WriteRunning, Running, Stages, Targets
  <2>10. CASE SigEnds(c)
    BY <1>8, <2>10 DEF SigEnds
  <2>11. CASE ContainerFinishes(c)
    BY <1>8, <2>11, WriteType DEF ContainerFinishes, WriteFinished, Running
  <2>12. CASE HostLosesContainer(c)
    BY <1>8, <2>12 DEF HostLosesContainer
  <2>13. CASE ContainerKilled(c)
    BY <1>8, <2>13 DEF ContainerKilled
  <2>14. CASE KillSession(c)
    BY <1>8, <2>14 DEF KillSession
  <2> QED
    BY <1>8, <2>1, <2>2, <2>3, <2>4, <2>5, <2>6, <2>7, <2>8, <2>9, <2>10,
       <2>11, <2>12, <2>13, <2>14
       DEF HostStep, ContainerStep
<1>9. CASE UNCHANGED vars
  BY <1>9 DEF vars
<1> QED
  BY <1>1, <1>2, <1>3, <1>4, <1>5, <1>6, <1>7, <1>8, <1>9 DEF Next, ScriptStep

\* A finished status file is never rewritten, for any campaigns and any faults,
\* unless a container outlived its client.
THEOREM FinishedFinal == Spec => FinishedIsFinal
<1>1. FinishedInv /\ [Next]_vars =>
        [\A c \in Ids \ outlived : pc # "idle" /\ StatusFileFinished(c) => doc'[c] = doc[c]]_vars
  BY FinishedStays
<1> QED
  BY <1>1, FinishedInvInit, FinishedInvStep, PTL DEF Spec, FinishedIsFinal

-----------------------------------------------------------------------------
(* The summary is final.  A sweep without a session left ends the wait, no *)
(* session starts later, and the launchers of a dead session are silent.   *)

SummaryInv ==
    /\ pc \in {"reading", "asking"} /\ ~remaining =>
         \A i \in 1 .. (at - 1) : Campaigns[i] \notin session
    /\ pc \in {"summing", "reporting", "exited"} => session = {}
    /\ pc = "summing" =>
         \A i \in 1 .. (at - 1) : Campaigns[i] \notin outlived => rows[Campaigns[i]] = Row(Campaigns[i])
    /\ pc \in {"reporting", "exited"} => \A c \in Ids \ outlived : rows[c] = Row(c)
    /\ pc # "exited" => exit = "none"

\* A campaign whose session is gone is over, unless its container lives on.
LEMMA DeadIsSilent ==
    ASSUME FinishedInv, [Next]_vars, pc \notin {"idle", "starting"}
    PROVE  /\ session' \subseteq session /\ outlived \subseteq outlived'
           /\ \A c \in Ids \ outlived : c \notin session => Row(c)' = Row(c)
<1> SUFFICES /\ session' \subseteq session /\ outlived \subseteq outlived'
             /\ \A c \in Ids \ outlived : c \notin session =>
                    doc'[c] = doc[c] /\ summaries'[c] = summaries[c]
  BY DEF Row
<1> USE DEF FinishedInv, TypeOK, script, Others, OneSpeaks
<1>1. CASE ScriptStep
  BY <1>1 DEF ScriptStep, StartSession, ReadFinished, SessionEnds, ContainerMayDie, ReadUnfinished,
              AskSession, Summarise, Report
<1>2. ASSUME NEW c \in Ids, HostStep(c) \/ ContainerStep(c) \/ HostLosesContainer(c)
                             \/ ContainerKilled(c) \/ KillSession(c)
      PROVE  /\ session' \subseteq session /\ outlived \subseteq outlived'
             /\ \A d \in Ids \ outlived : d \notin session =>
                    doc'[d] = doc[d] /\ summaries'[d] = summaries[d]
  <2>1. CASE HostStarts(c)
    BY <1>2, <2>1, WriteType DEF HostStarts, WriteRunning
  <2>2. CASE HostBuildFails(c)
    BY <1>2, <2>2, WriteType, Values DEF HostBuildFails, WriteFinished, SessionEnds
  <2>3. CASE HostRunsContainer(c)
    BY <1>2, <2>3, WriteType DEF HostRunsContainer, WriteRunning
  <2>4. CASE HostLeaves(c)
    BY <1>2, <2>4 DEF HostLeaves, SessionEnds
  <2>5. CASE HostDecides(c)
    BY <1>2, <2>5 DEF HostDecides
  <2>6. CASE HostFinishes(c)
    BY <1>2, <2>6, WriteType, Values DEF HostFinishes, WriteFinished, SessionEnds
  <2>7. CASE ContainerBuilds(c)
    BY <1>2, <2>7, WriteType DEF ContainerBuilds, WriteRunning, Running, Stages, Targets
  <2>8. CASE ContainerBuildFails(c)
    BY <1>2, <2>8 DEF ContainerBuildFails
  <2>9. CASE KemEnds(c)
    BY <1>2, <2>9, WriteType
       DEF KemEnds, WriteRunning, RunFuzzer, WriteRunSummary, Running, Stages, Targets
  <2>10. CASE SigEnds(c)
    BY <1>2, <2>10 DEF SigEnds, RunFuzzer, WriteRunSummary, Running, Stages, Targets
  <2>11. CASE ContainerFinishes(c)
    BY <1>2, <2>11, WriteType DEF ContainerFinishes, WriteFinished, Running
  <2>12. CASE HostLosesContainer(c)
    BY <1>2, <2>12 DEF HostLosesContainer
  <2>13. CASE ContainerKilled(c)
    BY <1>2, <2>13 DEF ContainerKilled
  <2>14. CASE KillSession(c)
    BY <1>2, <2>14 DEF KillSession, SessionEnds, ContainerMayDie
  <2> QED
    BY <1>2, <2>1, <2>2, <2>3, <2>4, <2>5, <2>6, <2>7, <2>8, <2>9, <2>10,
       <2>11, <2>12, <2>13, <2>14
       DEF HostStep, ContainerStep
<1>3. CASE UNCHANGED vars
  BY <1>3 DEF vars
<1> QED
  BY <1>1, <1>2, <1>3 DEF Next, Invoke

\* The step to the next campaign of a sweep, or to the summary.
LEMMA SweepStep ==
    ASSUME SummaryInv, pc \in {"reading", "asking"}, at \in 1 .. Len(Campaigns), Len(Campaigns) \in Nat,
           NEW still \in BOOLEAN, NextCampaign(still), exit' = exit,
           ~still => \A i \in 1 .. at : Campaigns[i] \notin session',
           ~still /\ AtEnd => session' = {}
    PROVE  SummaryInv'
<1>1. CASE AtEnd /\ still
  BY <1>1 DEF SummaryInv, NextCampaign, Advance
<1>2. CASE AtEnd /\ ~still
  BY <1>2 DEF SummaryInv, NextCampaign, Advance
<1>3. CASE ~AtEnd
  BY <1>3 DEF SummaryInv, NextCampaign, Advance
<1> QED
  BY <1>1, <1>2, <1>3

LEMMA SummaryStep == FinishedInv /\ SummaryInv /\ [Next]_vars => SummaryInv'
<1> SUFFICES ASSUME FinishedInv, SummaryInv, [Next]_vars PROVE SummaryInv'
  OBVIOUS
<1>1. \A i \in 1 .. Len(Campaigns) : Campaigns[i] \in Ids
  BY EvalAssumption DEF Ids, ToSet
<1>2. /\ at \in 1 .. Len(Campaigns) /\ Len(Campaigns) \in Nat /\ session \subseteq Ids
      /\ rows \in [Ids -> Results \cup {"none", "missing-status", "missing-run-summary"}]
  BY CampaignsCounted DEF FinishedInv, TypeOK
<1>3. pc \notin {"idle", "starting"} =>
        /\ session' \subseteq session /\ outlived \subseteq outlived'
        /\ \A c \in Ids \ outlived : c \notin session => Row(c)' = Row(c)
  BY DeadIsSilent
<1> USE <1>1, <1>2 DEF SummaryInv, script
<1>4. CASE UNCHANGED script
  BY <1>3, <1>4 DEF script
<1>5. CASE Invoke
  BY <1>5 DEF Invoke
<1>6. CASE StartSession
  BY <1>6 DEF StartSession, Advance
<1>7. CASE ReadFinished
  <2>1. Campaign \notin session'
    BY <1>7 DEF ReadFinished, SessionEnds
  <2>2. ~remaining => \A i \in 1 .. at : Campaigns[i] \notin session'
    BY <1>3, <1>7, <2>1 DEF ReadFinished, Campaign
  <2>3. AtEnd /\ ~remaining => session' = {}
    BY <1>3, <1>7, <2>2, PlaceOfCampaign DEF AtEnd, ReadFinished
  <2> QED
    BY <1>7, <2>2, <2>3, SweepStep DEF ReadFinished, FinishedInv, TypeOK
<1>8. CASE ReadUnfinished
  BY <1>8 DEF ReadUnfinished, Others
<1>9. CASE AskSession
  <2>1. ~(remaining \/ StillRunning(Campaign)) => \A i \in 1 .. at : Campaigns[i] \notin session'
    BY <1>9 DEF AskSession, Campaign, StillRunning, Others
  <2>2. AtEnd /\ ~(remaining \/ StillRunning(Campaign)) => session' = {}
    BY <1>3, <1>9, <2>1, PlaceOfCampaign DEF AtEnd, AskSession
  <2>3. (remaining \/ StillRunning(Campaign)) \in BOOLEAN
    BY DEF FinishedInv, TypeOK, StillRunning
  <2> QED
    BY <1>9, <2>1, <2>2, <2>3, SweepStep DEF AskSession, StillRunning
<1>10. CASE Summarise
  <2>1. \A c \in Ids : Row(c)' = Row(c)
    BY <1>10 DEF Summarise, Others, Row
  <2>2. UNCHANGED <<session, outlived, exit>> /\ pc = "summing"
    BY <1>10 DEF Summarise, Others
  <2>3. \A i \in 1 .. at : Campaigns[i] \notin outlived => rows'[Campaigns[i]] = Row(Campaigns[i])
    BY <1>10, <2>2 DEF Summarise, Campaign
  <2>4. AtEnd => \A c \in Ids \ outlived : rows'[c] = Row(c)
    BY <2>3, PlaceOfCampaign DEF AtEnd
  <2> QED
    BY <1>10, <2>1, <2>2, <2>3, <2>4 DEF Summarise, Advance, AtEnd
<1>11. CASE Report
  BY <1>11, <1>3 DEF Report, Others
<1> QED
  BY <1>4, <1>5, <1>6, <1>7, <1>8, <1>9, <1>10, <1>11, LauncherLeavesScript DEF Next, ScriptStep, vars

\* Once the script has written its summary no campaign goes on, and the rows
\* stay what the status files and run summaries say.
THEOREM SummaryFinal == Spec => []SummaryIsFinal
<1>1. Init => SummaryInv
  BY DEF Init, SummaryInv
<1>2. SummaryInv => SummaryIsFinal
  BY DEF SummaryInv, SummaryIsFinal
<1> QED
  BY <1>1, <1>2, FinishedInvInit, FinishedInvStep, SummaryStep, PTL DEF Spec
=============================================================================
