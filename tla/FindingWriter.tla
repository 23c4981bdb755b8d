---------------------------- MODULE FindingWriter ----------------------------
(***************************************************************************)
(* The finding writer of a fuzzer process                                  *)
(* (src/src/triage/finding_writer.cc).                                     *)
(*                                                                         *)
(* WriteFindingArtifacts is called once for every input whose oracle       *)
(* reports a finding.  In "grouped" mode it keeps, per group of equal      *)
(* findings, a hit counter and a bounded number of exemplar artifact       *)
(* directories; the counters of a result directory are published in        *)
(* finding_counts.tsv on a group's first hit, on every FlushInterval-th    *)
(* hit of a group, and by an atexit handler.  In "all" mode every finding  *)
(* gets a directory and nothing is counted.                                *)
(*                                                                         *)
(* The mutex of the writer makes one call exclude every other, so a call   *)
(* is a sequence of disk steps of one thread; what can interfere is a      *)
(* failing disk operation, the death of the process (a libFuzzer crash or  *)
(* timeout ends in _Exit: no atexit handler runs) and a later process that *)
(* is given the same result directory.                                     *)
(***************************************************************************)
EXTENDS Naturals, FiniteSets

CONSTANTS
    Keys,           \* record keys: a result directory and a group key
    Dirs,           \* result directories
    DirOf,          \* the result directory of a record key
    Inputs,         \* structured inputs that raise findings
    Base,           \* the suffix-free artifact name (record.finding_id)
    Absent, Torn,   \* contents of a file: none; open for writing or cut short
    NoCall, NoDir,  \* nothing is being reported; nothing is being flushed
    SaveModes,      \* the values of PQCFUZZ_FINDING_SAVE_MODE considered
    MaxExemplars,   \* PQCFUZZ_MAX_FINDING_EXEMPLARS_PER_GROUP
    FlushInterval,  \* kCounterFlushInterval
    Faults,         \* the failures the environment may produce
    MaxHits,        \* bounds on the hits of the groups in one process
    MaxRestarts     \* bound on the processes given the result directories

FaultKinds == {"artifact", "counter", "short", "crash"}

ASSUME ConstantsAssumption ==
    /\ DirOf \in [Keys -> Dirs]
    /\ Base \notin Inputs
    /\ Absent \notin Inputs /\ Torn \notin Inputs /\ Absent # Torn
    /\ NoCall \notin [key : Keys, input : Inputs, id : Inputs \cup {Base}]
    /\ NoDir \notin Dirs
    /\ SaveModes \subseteq {"grouped", "all"}
    /\ MaxExemplars \in Nat
    /\ FlushInterval \in Nat \ {0}
    /\ Faults \subseteq FaultKinds
    /\ MaxHits \in [Keys -> Nat]
    /\ MaxRestarts \in Nat

\* The files of an artifact directory in the order they are written:
\* 1 structured_input.bin and its neighbours, 2 oracle_trace.json and the
\* minimized seed, 3 finding.json, 4 the poc directory.
LastFile == 4
FileNo == 1 .. LastFile

ArtifactNames == Inputs \cup {Base}
Calls == [key : Keys, input : Inputs, id : ArtifactNames]

VARIABLES
    saveMode,    \* PQCFUZZ_FINDING_SAVE_MODE, the same in every process
    mode,        \* "running", "exiting" (atexit), "exited" or "crashed"
    pc,          \* the next disk step: "mkdir", "file", "tmp", "rename"; "idle" between calls
    call,        \* the finding being reported
    pos,         \* the artifact file the call writes next
    flushing,    \* the result directory whose counters are being written
    todo,        \* result directories the atexit handler has not flushed yet
    registered,  \* ExitFlushRegistered()
    count,       \* CounterRecord::count
    exemplars,   \* CounterRecord::exemplars
    files,       \* the artifact directories on disk, by record key and name
    made,        \* the artifact directories created so far
    tmp,         \* finding_counts.tsv.tmp: "none", "full" or "torn"
    tmpRows,     \* the counts in a full finding_counts.tsv.tmp
    torn,        \* result directories whose finding_counts.tsv is cut short
    rows,        \* the counts in finding_counts.tsv, 0 for a group without a row
    restarts,    \* processes started after the first one
    stuck        \* history: groups that lost a due flush since their last publication

memory  == <<saveMode, registered, count, exemplars>>
counter == <<tmp, tmpRows, torn, rows>>
artifacts == <<files, made>>
vars == <<saveMode, mode, pc, call, pos, flushing, todo, registered, count, exemplars,
          files, made, tmp, tmpRows, torn, rows, restarts, stuck>>

KeysOf(d) == {k \in Keys : DirOf[k] = d}

Init ==
    /\ saveMode \in SaveModes
    /\ mode = "running" /\ pc = "idle"
    /\ call = NoCall /\ pos = 1
    /\ flushing = NoDir /\ todo = {}
    /\ registered = FALSE
    /\ count = [k \in Keys |-> 0]
    /\ exemplars = [k \in Keys |-> 0]
    /\ files = [d \in Keys \X ArtifactNames |-> [f \in FileNo |-> Absent]]
    /\ made = {}
    /\ tmp = [d \in Dirs |-> "none"]
    /\ tmpRows = [k \in Keys |-> 0]
    /\ torn = {}
    /\ rows = [k \in Keys |-> 0]
    /\ restarts = 0
    /\ stuck = {}

-----------------------------------------------------------------------------
\* Mutant: the flush on a group's first hit is forgotten.
FlushDueNotOnFirst(k) == count[k] % FlushInterval = 0

\* record.count == 1 || record.count % kCounterFlushInterval == 0
FlushDue(k) == count[k] = 1 \/ count[k] % FlushInterval = 0

\* Mutants: the exemplar bound is off by one; a hit that owes a flush
\* publishes first and skips its exemplar.
ShouldWriteOneMore(k) == exemplars[k] <= MaxExemplars
ShouldWriteUnlessDue(k) == exemplars[k] < MaxExemplars /\ ~FlushDue(k)'

ShouldWriteExemplar(k) == exemplars[k] < MaxExemplars

\* Mutant: every later exemplar of a group gets the same suffix.
SharedExemplarName(k, i) == IF exemplars[k] > 0 THEN CHOOSE j \in Inputs : TRUE ELSE Base

\* finding_id, with the hash of the input for every exemplar but the first.
ExemplarName(k, i) == IF exemplars[k] > 0 THEN i ELSE Base

\* Mutant: the exit handler is never registered.
NeverRegistered == FALSE

\* std::atexit(FlushAllFindingCounts), once per process.
ExitFlushRegistered == TRUE

ReturnToCaller ==
    /\ pc' = "idle" /\ call' = NoCall /\ pos' = 1 /\ flushing' = NoDir

\* A call that returns false skips the flush it owed.
FailCall ==
    /\ ReturnToCaller
    /\ stuck' = IF saveMode = "grouped" /\ FlushDue(call.key)
                THEN stuck \cup {call.key} ELSE stuck

StartExemplar(k, i, n) ==
    /\ pc' = "mkdir"
    /\ call' = [key |-> k, input |-> i, id |-> n]
    /\ UNCHANGED <<pos, flushing>>

StartFlush(d) == pc' = "tmp" /\ flushing' = d

\* Mutant: the directory is named by the group alone, not by the input.
ReportAllNamedByGroup(k, i) ==
    /\ saveMode = "all"
    /\ mode = "running" /\ pc = "idle"
    /\ StartExemplar(k, i, CHOOSE j \in Inputs : TRUE)
    /\ UNCHANGED <<mode, todo, memory, artifacts, counter, restarts, stuck>>

\* "all" mode: a directory per input, nothing counted and no exit handler.
ReportAll(k, i) ==
    /\ saveMode = "all"
    /\ mode = "running" /\ pc = "idle"
    /\ StartExemplar(k, i, i)
    /\ UNCHANGED <<mode, todo, memory, artifacts, counter, restarts, stuck>>

\* "grouped" mode: count the hit, then write an exemplar or go to the flush.
ReportGrouped(k, i) ==
    /\ saveMode = "grouped"
    /\ mode = "running" /\ pc = "idle"
    /\ count[k] < MaxHits[k]
    /\ registered' = ExitFlushRegistered
    /\ count' = [count EXCEPT ![k] = @ + 1]
    /\ \/ /\ ShouldWriteExemplar(k)
          /\ StartExemplar(k, i, ExemplarName(k, i))
       \/ /\ ~ShouldWriteExemplar(k) /\ FlushDue(k)'
          /\ StartFlush(DirOf[k])
          /\ call' = [key |-> k, input |-> i, id |-> Base]
          /\ UNCHANGED pos
       \/ /\ ~ShouldWriteExemplar(k) /\ ~FlushDue(k)'
          /\ UNCHANGED <<pc, call, pos, flushing>>
    /\ UNCHANGED <<saveMode, mode, todo, exemplars, artifacts, counter, restarts, stuck>>

-----------------------------------------------------------------------------
\* Mutant: the exemplar counts as soon as its directory exists.
MakeArtifactDirCounted ==
    /\ mode = "running" /\ pc = "mkdir"
    /\ pc' = "file" /\ pos' = 1
    /\ made' = made \cup {<<call.key, call.id>>}
    /\ exemplars' = [exemplars EXCEPT ![call.key] = @ + 1]
    /\ UNCHANGED <<saveMode, mode, call, flushing, todo, registered, count, files, counter,
                   restarts, stuck>>

\* WriteArtifactDirectory: create_directories(dir / "poc").
MakeArtifactDir ==
    /\ mode = "running" /\ pc = "mkdir"
    /\ pc' = "file" /\ pos' = 1
    /\ made' = made \cup {<<call.key, call.id>>}
    /\ UNCHANGED <<mode, call, flushing, todo, memory, files, counter, restarts, stuck>>

\* The directory itself may have been made when its poc directory fails.
MakeArtifactDirFails ==
    /\ "artifact" \in Faults
    /\ mode = "running" /\ pc = "mkdir"
    /\ FailCall
    /\ made' \in {made, made \cup {<<call.key, call.id>>}}
    /\ UNCHANGED <<mode, todo, memory, files, counter, restarts>>

PutFile(content) ==
    files' = [files EXCEPT ![<<call.key, call.id>>][pos] = content] /\ UNCHANGED made

\* One file is written; WriteText and WriteBinary look at the stream only
\* before they write, so a short write goes on like a complete one.
WriteNextFile ==
    /\ mode = "running" /\ pc = "file" /\ pos < LastFile
    /\ \/ PutFile(call.input)
       \/ "short" \in Faults /\ PutFile(Torn)
    /\ pos' = pos + 1
    /\ UNCHANGED <<mode, pc, call, flushing, todo, memory, counter, restarts, stuck>>

\* The last file: the exemplar is counted and the flush decided.
WriteLastFile ==
    /\ mode = "running" /\ pc = "file" /\ pos = LastFile
    /\ \/ PutFile(call.input)
       \/ "short" \in Faults /\ PutFile(Torn)
    /\ exemplars' = IF saveMode = "grouped"
                    THEN [exemplars EXCEPT ![call.key] = @ + 1] ELSE exemplars
    /\ \/ /\ saveMode = "grouped" /\ FlushDue(call.key)
          /\ StartFlush(DirOf[call.key])
          /\ pos' = 1
          /\ UNCHANGED call
       \/ /\ ~(saveMode = "grouped" /\ FlushDue(call.key))
          /\ ReturnToCaller
    /\ UNCHANGED <<saveMode, mode, todo, registered, count, counter, restarts, stuck>>

WriteFileFails ==
    /\ "artifact" \in Faults
    /\ mode = "running" /\ pc = "file"
    /\ FailCall
    /\ UNCHANGED <<mode, todo, memory, artifacts, counter, restarts>>

-----------------------------------------------------------------------------
\* Mutant: the flush writes only the row of the finding being reported.
WriteCounterTmpOneRow ==
    /\ pc = "tmp"
    /\ pc' = "rename"
    /\ tmp' = [tmp EXCEPT ![flushing] = "full"]
    /\ tmpRows' = [k \in Keys |-> IF call # NoCall /\ call.key = k THEN count[k] ELSE 0]
    /\ UNCHANGED <<mode, call, pos, flushing, todo, memory, artifacts, torn, rows, restarts, stuck>>

\* FlushFindingCountsForResultDir: every record of the result directory goes
\* to finding_counts.tsv.tmp, which then replaces finding_counts.tsv.
WriteCounterTmp ==
    /\ pc = "tmp"
    /\ pc' = "rename"
    /\ \/ /\ tmp' = [tmp EXCEPT ![flushing] = "full"]
          /\ tmpRows' = [k \in Keys |-> IF DirOf[k] = flushing THEN count[k] ELSE tmpRows[k]]
       \/ /\ "short" \in Faults
          /\ tmp' = [tmp EXCEPT ![flushing] = "torn"]
          /\ tmpRows' = [k \in Keys |-> IF DirOf[k] = flushing THEN 0 ELSE tmpRows[k]]
    /\ UNCHANGED <<mode, call, pos, flushing, todo, memory, artifacts, torn, rows, restarts, stuck>>

\* After a flush: a call returns, the exit handler goes on to the next directory.
RenameCounter ==
    /\ pc = "rename"
    /\ rows' = [k \in Keys |-> IF DirOf[k] = flushing THEN tmpRows[k] ELSE rows[k]]
    /\ torn' = IF tmp[flushing] = "torn" THEN torn \cup {flushing} ELSE torn \ {flushing}
    /\ tmp' = [tmp EXCEPT ![flushing] = "none"]
    /\ tmpRows' = [k \in Keys |-> IF DirOf[k] = flushing THEN 0 ELSE tmpRows[k]]
    /\ stuck' = stuck \ KeysOf(flushing)
    /\ ReturnToCaller
    /\ UNCHANGED <<mode, todo, memory, artifacts, restarts>>

\* create_directories, the open of the tmp file or the rename fails.  A call
\* returns false; the exit handler ignores the result.
FlushFails ==
    /\ "counter" \in Faults
    /\ pc \in {"tmp", "rename"}
    /\ IF mode = "running" THEN FailCall ELSE ReturnToCaller /\ UNCHANGED stuck
    /\ UNCHANGED <<mode, todo, memory, artifacts, counter, restarts>>

-----------------------------------------------------------------------------
\* Mutant: the exit handler flushes only one result directory.
ExitOneDir ==
    /\ mode = "running" /\ pc = "idle"
    /\ mode' = "exiting"
    /\ todo' = IF \E k \in Keys : count[k] > 0
               THEN {DirOf[CHOOSE k \in Keys : count[k] > 0]} ELSE {}
    /\ UNCHANGED <<pc, call, pos, flushing, memory, artifacts, counter, restarts, stuck>>

\* libFuzzer reaches -max_total_time and calls exit: FlushAllFindingCounts
\* runs if a grouped report has registered it.
Exit ==
    /\ mode = "running" /\ pc = "idle"
    /\ mode' = "exiting"
    /\ todo' = IF registered THEN {DirOf[k] : k \in {j \in Keys : count[j] > 0}} ELSE {}
    /\ UNCHANGED <<pc, call, pos, flushing, memory, artifacts, counter, restarts, stuck>>

ExitFlush(d) ==
    /\ mode = "exiting" /\ pc = "idle"
    /\ d \in todo
    /\ todo' = todo \ {d}
    /\ StartFlush(d)
    /\ UNCHANGED <<mode, call, pos, memory, artifacts, counter, restarts, stuck>>

ExitDone ==
    /\ mode = "exiting" /\ pc = "idle" /\ todo = {}
    /\ mode' = "exited"
    /\ UNCHANGED <<pc, call, pos, flushing, todo, memory, artifacts, counter, restarts, stuck>>

\* The process dies (_Exit, a signal).  A file that was open for writing is
\* left truncated; the counters in memory are gone.
Crash ==
    /\ "crash" \in Faults
    /\ mode \in {"running", "exiting"}
    /\ mode' = "crashed"
    /\ ReturnToCaller /\ todo' = {}
    /\ \/ pc = "file" /\ PutFile(Torn) /\ UNCHANGED <<tmp, tmpRows>>
       \/ /\ pc = "tmp"
          /\ tmp' = [tmp EXCEPT ![flushing] = "torn"]
          /\ tmpRows' = [k \in Keys |-> IF DirOf[k] = flushing THEN 0 ELSE tmpRows[k]]
          /\ UNCHANGED artifacts
       \/ UNCHANGED <<artifacts, tmp, tmpRows>>
    /\ UNCHANGED <<memory, torn, rows, restarts, stuck>>

\* A later fuzzer process is given the same result directories.
Restart ==
    /\ mode \in {"exited", "crashed"}
    /\ restarts < MaxRestarts
    /\ restarts' = restarts + 1
    /\ mode' = "running"
    /\ ReturnToCaller /\ todo' = {}
    /\ registered' = FALSE
    /\ count' = [k \in Keys |-> 0]
    /\ exemplars' = [k \in Keys |-> 0]
    /\ stuck' = {}
    /\ UNCHANGED <<saveMode, artifacts, counter>>

CallStep ==
    \/ MakeArtifactDir \/ MakeArtifactDirFails
    \/ WriteNextFile \/ WriteLastFile \/ WriteFileFails
    \/ WriteCounterTmp \/ RenameCounter \/ FlushFails

ExitStep == Exit \/ ExitDone \/ \E d \in Dirs : ExitFlush(d)

Next ==
    \/ \E k \in Keys, i \in Inputs : ReportAll(k, i) \/ ReportGrouped(k, i)
    \/ CallStep
    \/ ExitStep
    \/ Crash
    \/ Restart

Spec == Init /\ [][Next]_vars

\* A call and the exit handler run to their end, and -max_total_time ends the
\* fuzzing loop at some point between two inputs (strong fairness: an endless
\* supply of findings cannot keep the process from exiting).
FairSpec ==
    /\ Spec
    /\ WF_vars(CallStep)
    /\ SF_vars(Exit)
    /\ WF_vars(ExitDone \/ \E d \in Dirs : ExitFlush(d))

-----------------------------------------------------------------------------
TypeOK ==
    /\ saveMode \in SaveModes
    /\ mode \in {"running", "exiting", "exited", "crashed"}
    /\ pc \in {"idle", "mkdir", "file", "tmp", "rename"}
    /\ call \in Calls \cup {NoCall}
    /\ pos \in FileNo
    /\ flushing \in Dirs \cup {NoDir}
    /\ todo \subseteq Dirs
    /\ registered \in BOOLEAN
    /\ count \in [Keys -> Nat]
    /\ exemplars \in [Keys -> Nat]
    /\ files \in [Keys \X ArtifactNames -> [FileNo -> Inputs \cup {Absent, Torn}]]
    /\ made \subseteq Keys \X ArtifactNames
    /\ tmp \in [Dirs -> {"none", "full", "torn"}]
    /\ tmpRows \in [Keys -> Nat]
    /\ torn \subseteq Dirs
    /\ rows \in [Keys -> Nat]
    /\ restarts \in Nat
    /\ stuck \subseteq Keys

\* What a crash can take away.  As long as the process runs and no due flush
\* of a group was lost, the published count of a group that was hit trails the
\* hits by less than FlushInterval, and never runs ahead of them - whatever
\* the table held before this process started (the flush on the first hit,
\* on every FlushInterval-th and after a failed call, lines 503-522).
LossBounded ==
    (mode = "running" /\ pc = "idle") =>
        \A k \in Keys \ stuck :
            (count[k] > 0 /\ DirOf[k] \notin torn) =>
                rows[k] >= 1 /\ rows[k] <= count[k] /\ count[k] - rows[k] < FlushInterval

\* A normal exit publishes the exact counters of every group that was hit,
\* however many flushes failed before, unless a flush of the exit handler
\* itself could not be written (FlushAllFindingCounts, lines 444-455).
ExitPublishesAll ==
    (mode = "exited" /\ Faults \cap {"counter", "short"} = {}) =>
        \A k \in Keys : count[k] > 0 => rows[k] = count[k]

\* The rename makes the table all or nothing: no crash, failed open or failed
\* rename, at any step, leaves a cut finding_counts.tsv behind as long as no
\* write is short (WriteTextAtomic, lines 264-285).
TableNeverTorn == "short" \notin Faults => torn = {}

\* A published row leads to evidence: if artifact directories can be written,
\* the exemplar directory its path names holds every file, also after crashes
\* and in rows another process published (the exemplar is written before the
\* flush that publishes its row, lines 505-522).
RowHasExemplar ==
    (saveMode = "grouped" /\ MaxExemplars > 0 /\ "artifact" \notin Faults) =>
        \A k \in Keys : rows[k] > 0 =>
            \A f \in FileNo : files[<<k, Base>>][f] # Absent

\* The first exemplar of a group is evidence for one input: once it counts as
\* written, all its files stem from the same input and no later finding of
\* the group, in this process, writes into it (lines 506-509).
FirstExemplarIntact ==
    (mode \in {"running", "exiting", "exited"} /\ "short" \notin Faults) =>
        \A k \in Keys : exemplars[k] > 0 =>
            \E i \in Inputs : \A f \in FileNo : files[<<k, Base>>][f] = i

\* A suffixed exemplar (and every directory of the "all" mode) only ever holds
\* files of the input its name is the hash of, even when it is rewritten.
NamedExemplarIntact ==
    \A k \in Keys, i \in Inputs : \A f \in FileNo :
        files[<<k, i>>][f] \in {i, Absent, Torn}

\* The retention bound: however often processes die and start over, each adds
\* at most MaxExemplars directories with a finding.json for a group, the first
\* of which is the one the others share (lines 504-513).
ExemplarsBounded ==
    (saveMode = "grouped" /\ MaxExemplars > 0 /\ "artifact" \notin Faults) =>
        \A k \in Keys :
            Cardinality({n \in ArtifactNames : files[<<k, n>>][3] # Absent})
                <= 1 + (MaxExemplars - 1) * (restarts + 1)

\* The published tables implement FindingCounts: every change of a table is an
\* exact snapshot of this process's counters for the whole result directory.
Counts == INSTANCE FindingCounts WITH hits <- count, published <- rows
CountsSpec == Counts!Spec

\* A report returns TRUE with a due flush only if the counters are on disk
\* (the failure of a counter write is propagated).
CounterFailurePropagates ==
    (mode = "running" /\ pc = "idle") =>
        \A k \in Keys : (count[k] > 0 /\ k \notin stuck) => DirOf[k] \notin torn

\* Every group that is hit is eventually counted in the table, when nothing
\* but artifact writes can fail: the exit handler makes up for skipped flushes.
EventuallyCounted ==
    \A k \in Keys : (count[k] > 0) ~> (count[k] > 0 /\ rows[k] = count[k])
=============================================================================
