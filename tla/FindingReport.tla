---------------------------- MODULE FindingReport ----------------------------
(***************************************************************************)
(* The reports over the result directories of the finding writer           *)
(* (src/src/reporting/write_report.py, summarize_findings.py).             *)
(*                                                                         *)
(* A report reads the disk and writes nothing there, so it is a function   *)
(* of the writer's disk.  The "fast-summary" mode believes the counter     *)
(* table of a result directory that has one and counts artifact            *)
(* directories elsewhere; the other modes count finding.json files.        *)
(***************************************************************************)
EXTENDS FindingWriter

\* counter_files_for_roots.  A table has a row for every counted group of its
\* directory; of a cut one nothing is assumed to be readable.
CounterFiles == {d \in Dirs : d \in torn \/ \E k \in KeysOf(d) : rows[k] > 0}

\* iter_result_artifact_dirs, iter_result_finding_files, per group
ArtifactDirs(k) == {n \in ArtifactNames : <<k, n>> \in made}
FindingFiles(k) == {n \in ArtifactDirs(k) : files[<<k, n>>][3] # Absent}

\* Mutant: directories are counted beside the table.
FastCountBoth(k) ==
    IF DirOf[k] \in CounterFiles THEN rows[k] + Cardinality(ArtifactDirs(k))
    ELSE Cardinality(ArtifactDirs(k))

\* write_fast_summary_reports: the count of a group.  (Counted directories are
\* summed up by version, primitive and class, which are coarser than groups.)
FastCount(k) ==
    IF DirOf[k] \in CounterFiles THEN rows[k] ELSE Cardinality(ArtifactDirs(k))

\* write_reports, modes "full" and "summary-only"
FullCount(k) == Cardinality(FindingFiles(k))

-----------------------------------------------------------------------------
\* A fuzzing session that ended normally is reported exactly: every group of
\* this process with its hits - whatever artifact writes failed on the way,
\* in which directory, with or without an exemplar left - unless a flush of the
\* exit handler failed.
FastReportExact ==
    (mode = "exited" /\ saveMode = "grouped" /\ restarts = 0
        /\ Faults \cap {"counter", "short"} = {}) =>
        \A k \in Keys : FastCount(k) = count[k]

\* What a crash can hide from the fast report: at every step of a first
\* process, a group with a finding.json is in the report - although a table
\* hides every directory without a row - unless it is the group being reported
\* or one that lost its due flush to a failure, or a short write cut the table.
CrashHidesOnlyTheCall ==
    (restarts = 0 /\ mode # "crashed" /\ "short" \notin Faults) =>
        \A k \in Keys \ stuck :
            (FullCount(k) > 0 /\ FastCount(k) = 0) => call # NoCall /\ call.key = k
=============================================================================
