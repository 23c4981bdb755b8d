------------------------------- MODULE Replay --------------------------------
(***************************************************************************)
(* Replaying one input (src/src/replay/replay_one.py) with the native      *)
(* oracle binary it runs (src/src/replay/replay_oracle.cc).                *)
(*                                                                         *)
(* All replays of an input under one job share an artifact directory,      *)
(* replay_<digest of the input>.  A replay removes the oracle trace of its *)
(* predecessor, runs the native binary with a timeout, decides what the    *)
(* run meant from the trace file, the exit status and the timeout, writes  *)
(* that verdict as the trace and, if it classifies as a finding, writes    *)
(* finding.json.  The native binary may fail early, crash, be stopped by a *)
(* sanitizer, or hang, at any point of its own run; a replay may be        *)
(* interrupted (with the native binary) between any two steps and started  *)
(* again.  Replays of one input run one after the other.                   *)
(***************************************************************************)
EXTENDS ClassifyTrace, FiniteSets

CONSTANTS
    Replays,       \* the replays of the input, in any order
    NativeTraces,  \* traces the native oracle may come to
    Absent         \* a file that does not exist

VARIABLES
    step,      \* per replay: its progress through replay()
    native,    \* per replay: the progress of its native process
    rc,        \* per replay: how the native process ended
    noisy,     \* per replay: stderr holds a sanitizer report
    verdict,   \* per replay: the trace it decided on, Absent before
    traceFile, \* oracle_trace.json: Absent or [by, trace], trace = Absent while cut
    findingFile, \* finding.json: Absent or [by, class]
    written    \* history, per replay: the trace its native process completed

vars == <<step, native, rc, noisy, verdict, traceFile, findingFile, written>>

\* rc: the exit statuses of exit_codes.h and what ends a process from outside.
ExitStatuses == {"none", "ok", "violation", "hang", "crash", "invalid", "signal", "sanitizer"}

ClassOnly(class) ==
    [findings |-> <<class>>, finding_class |-> "none", statuses |-> {},
     expected |-> "none", observed |-> "none", failed |-> FALSE]

NoFindingTrace ==
    [findings |-> <<>>, finding_class |-> "none", statuses |-> {},
     expected |-> "none", observed |-> "none", failed |-> FALSE]

Init ==
    /\ step = [r \in Replays |-> "new"]
    /\ native = [r \in Replays |-> "none"]
    /\ rc = [r \in Replays |-> "none"]
    /\ noisy = [r \in Replays |-> FALSE]
    /\ verdict = [r \in Replays |-> Absent]
    /\ written = [r \in Replays |-> Absent]
    /\ traceFile = Absent
    /\ findingFile = Absent

Active(r) == step[r] \in {"prepared", "waiting", "collected", "decided"}

Goto(r, s) == step' = [step EXCEPT ![r] = s]

-----------------------------------------------------------------------------
\* Mutant: the trace of an earlier replay is left in place.
PrepareKeepingTrace(r) ==
    /\ step[r] = "new" /\ \A q \in Replays : ~Active(q)
    /\ Goto(r, "prepared")
    /\ UNCHANGED <<native, rc, noisy, verdict, traceFile, findingFile, written>>

\* The artifact directory is created, the input and its configuration are
\* written (the same bytes on every replay) and an old trace is removed.
\* A finding.json of an earlier replay stays.
Prepare(r) ==
    /\ step[r] = "new" /\ \A q \in Replays : ~Active(q)
    /\ Goto(r, "prepared")
    /\ traceFile' = Absent
    /\ UNCHANGED <<native, rc, noisy, verdict, findingFile, written>>

Spawn(r) ==
    /\ step[r] = "prepared"
    /\ Goto(r, "waiting")
    /\ native' = [native EXCEPT ![r] = "running"]
    /\ UNCHANGED <<rc, noisy, verdict, traceFile, findingFile, written>>

-----------------------------------------------------------------------------
(* The native process of replay r (main of replay_oracle.cc).             *)

EndNative(r, status) ==
    /\ native' = [native EXCEPT ![r] = "exited"]
    /\ rc' = [rc EXCEPT ![r] = status]

\* Arguments, input, envelope, algorithm or the opening of the trace is refused.
NativeRefuses(r) ==
    /\ native[r] = "running"
    /\ EndNative(r, "invalid")
    /\ UNCHANGED <<step, noisy, verdict, traceFile, findingFile, written>>

\* The oracle has run; the trace file is opened, which truncates it.
NativeOpensTrace(r) ==
    /\ native[r] = "running"
    /\ native' = [native EXCEPT ![r] = "opened"]
    /\ traceFile' = [by |-> r, trace |-> Absent]
    /\ UNCHANGED <<step, rc, noisy, verdict, findingFile, written>>

NativeWritesTrace(r) ==
    /\ native[r] = "opened"
    /\ native' = [native EXCEPT ![r] = "wrote"]
    /\ \E t \in NativeTraces :
         /\ traceFile' = [by |-> r, trace |-> t]
         /\ written' = [written EXCEPT ![r] = t]
    /\ UNCHANGED <<step, rc, noisy, verdict, findingFile>>

\* findings.empty() ? kExitNoFinding : kExitCryptoOracleViolation
NativeReturns(r) ==
    /\ native[r] = "wrote"
    /\ EndNative(r, IF written[r].findings = <<>> THEN "ok" ELSE "violation")
    /\ UNCHANGED <<step, noisy, verdict, traceFile, findingFile, written>>

\* A signal, or a sanitizer that reports and exits.
NativeDies(r) ==
    /\ native[r] \in {"running", "opened", "wrote"}
    /\ \E status \in {"signal", "sanitizer"} :
         /\ EndNative(r, status)
         /\ noisy' = [noisy EXCEPT ![r] = status = "sanitizer"]
    /\ UNCHANGED <<step, verdict, traceFile, findingFile, written>>

\* A binary given by --replay-bin that isolates its worker and reports 71, 72
\* or a plain 0 without a trace.
NativeReports(r) ==
    /\ native[r] = "running"
    /\ \E status \in {"ok", "hang", "crash"} : EndNative(r, status)
    /\ UNCHANGED <<step, noisy, verdict, traceFile, findingFile, written>>

NativeStep(r) ==
    \/ NativeRefuses(r) \/ NativeOpensTrace(r) \/ NativeWritesTrace(r)
    \/ NativeReturns(r) \/ NativeDies(r) \/ NativeReports(r)

-----------------------------------------------------------------------------
\* synthesize_trace: a sanitizer report in stderr overrides the class.
Synthesize(r, class) == ClassOnly(IF noisy[r] THEN "memory_safety" ELSE class)

\* subprocess.run returns; the output and the status are saved.
Collect(r) ==
    /\ step[r] = "waiting" /\ native[r] = "exited"
    /\ Goto(r, "collected")
    /\ UNCHANGED <<native, rc, noisy, verdict, traceFile, findingFile, written>>

\* Mutant: the timeout only covers a process that has not opened its trace.
TimeoutBeforeTrace(r) ==
    /\ step[r] = "waiting" /\ native[r] = "running"
    /\ Goto(r, "collected")
    /\ EndNative(r, "hang")
    /\ verdict' = [verdict EXCEPT ![r] = Synthesize(r, "hang")]
    /\ UNCHANGED <<noisy, traceFile, findingFile, written>>

\* subprocess.TimeoutExpired: the native process has been killed and reaped;
\* whatever it wrote, and even if it ended just then, the verdict is a hang.
Timeout(r) ==
    /\ step[r] = "waiting"
    /\ Goto(r, "collected")
    /\ EndNative(r, "hang")
    /\ verdict' = [verdict EXCEPT ![r] = Synthesize(r, "hang")]
    /\ UNCHANGED <<noisy, traceFile, findingFile, written>>

\* Mutant: a run without a trace is taken for a run without a finding unless it
\* was ended by a signal.
MissingTraceLenient(r) ==
    IF rc[r] = "signal" THEN Synthesize(r, "crash") ELSE NoFindingTrace

\* The verdict on a run that left no trace (lines 468-499).
MissingTrace(r) ==
    CASE rc[r] = "hang" -> Synthesize(r, "hang")
      [] rc[r] = "ok" -> NoFindingTrace
      [] OTHER -> Synthesize(r, "crash")

\* The verdict becomes the trace file.
Decide(r) ==
    /\ step[r] = "collected"
    /\ ~(verdict[r] = Absent /\ traceFile # Absent /\ traceFile.trace = Absent)
    /\ LET t == IF verdict[r] # Absent THEN verdict[r]
                ELSE IF traceFile = Absent THEN MissingTrace(r) ELSE traceFile.trace
       IN  /\ verdict' = [verdict EXCEPT ![r] = t]
           /\ traceFile' = [by |-> r, trace |-> t]
    /\ Goto(r, "decided")
    /\ UNCHANGED <<native, rc, noisy, findingFile, written>>

\* load_trace: a trace that is cut is not JSON; the replay ends in ReplayError.
RejectCutTrace(r) ==
    /\ step[r] = "collected"
    /\ verdict[r] = Absent /\ traceFile # Absent /\ traceFile.trace = Absent
    /\ Goto(r, "failed")
    /\ UNCHANGED <<native, rc, noisy, verdict, traceFile, findingFile, written>>

\* Mutant: a finding.json that exists is kept.
PublishOnce(r) ==
    /\ step[r] = "decided"
    /\ Goto(r, "done")
    /\ LET class == Classify(verdict[r])
       IN  findingFile' = IF class = "none" \/ findingFile # Absent
                          THEN findingFile ELSE [by |-> r, class |-> class]
    /\ UNCHANGED <<native, rc, noisy, verdict, traceFile, written>>
\* maybe_write_finding: finding.json (and the poc directory) for a trace that
\* classifies; without a class the directory is left as it is.
Publish(r) ==
    /\ step[r] = "decided"
    /\ Goto(r, "done")
    /\ LET class == Classify(verdict[r])
       IN  findingFile' = IF class = "none" THEN findingFile ELSE [by |-> r, class |-> class]
    /\ UNCHANGED <<native, rc, noisy, verdict, traceFile, written>>

\* The operator interrupts a replay; its native process dies with it.
Interrupt(r) ==
    /\ Active(r)
    /\ Goto(r, "interrupted")
    /\ native' = [native EXCEPT ![r] = IF @ = "none" THEN @ ELSE "exited"]
    /\ UNCHANGED <<rc, noisy, verdict, traceFile, findingFile, written>>

DriverStep(r) ==
    \/ Spawn(r) \/ Collect(r) \/ Timeout(r)
    \/ Decide(r) \/ RejectCutTrace(r) \/ Publish(r)

Next == \E r \in Replays : Prepare(r) \/ DriverStep(r) \/ NativeStep(r) \/ Interrupt(r)

Spec == Init /\ [][Next]_vars

\* The driver runs to its end and its timeout expires; nothing is assumed of
\* the native process, which may hang anywhere, nor that replays are started.
FairSpec == Spec /\ \A r \in Replays : WF_vars(DriverStep(r))

-----------------------------------------------------------------------------
Traces == NativeTraces \cup {NoFindingTrace}
            \cup {ClassOnly(c) : c \in {"crash", "hang", "memory_safety"}}

\* No file is neither a trace nor a file that holds one.
ASSUME AbsentAssumption ==
    /\ Absent \notin Traces
    /\ Absent \notin [by : Replays, trace : Traces \cup {Absent}]

TypeOK ==
    /\ step \in [Replays -> {"new", "prepared", "waiting", "collected", "decided",
                             "done", "failed", "interrupted"}]
    /\ native \in [Replays -> {"none", "running", "opened", "wrote", "exited"}]
    /\ rc \in [Replays -> ExitStatuses]
    /\ noisy \in [Replays -> BOOLEAN]
    /\ verdict \in [Replays -> Traces \cup {Absent}]
    /\ written \in [Replays -> NativeTraces \cup {Absent}]
    /\ traceFile \in [by : Replays, trace : Traces \cup {Absent}] \cup {Absent}
    /\ findingFile \in [by : Replays, class : {Classify(t) : t \in Traces}] \cup {Absent}

\* A replay never takes over a trace it did not produce: what earlier replays
\* left in the shared directory, finished, failed or interrupted at any step,
\* is not in its verdict (lines 425-427).
VerdictIsOwn ==
    \A r \in Replays : step[r] \in {"decided", "done"} =>
        \/ verdict[r] = written[r]
        \/ verdict[r] \in {NoFindingTrace} \cup
                          {ClassOnly(c) : c \in {"crash", "hang", "memory_safety"}}
              /\ (written[r] = Absent \/ rc[r] = "hang")

\* What "no finding" takes (lines 466-499): a process that completed its trace
\* must not have timed out and its trace must say so, and one that completed none
\* must have exited with 0.  A process that crashes, hangs, is refused or is cut
\* off before its trace is complete is never reported clean.  One that dies after
\* it has completed a clean trace is: a complete trace is believed, whatever the
\* exit status and stderr say.
CleanIsEarned ==
    \A r \in Replays : (step[r] = "done" /\ Classify(verdict[r]) = "none") =>
        /\ rc[r] # "hang"
        /\ written[r] # Absent => Classify(written[r]) = "none"
        /\ written[r] = Absent => rc[r] = "ok"

\* A finished replay whose verdict is a finding has published it: the trace and
\* finding.json are this replay's and agree (lines 500-501), until the next
\* replay starts.
FindingPublished ==
    \A r \in Replays :
        (step[r] = "done" /\ Classify(verdict[r]) # "none" /\ traceFile # Absent
           /\ traceFile.by = r) =>
            /\ traceFile.trace = verdict[r]
            /\ findingFile = [by |-> r, class |-> Classify(verdict[r])]

\* Whatever the native process does, a replay that was begun ends.
ReplayEnds ==
    \A r \in Replays : (step[r] = "prepared") ~> (step[r] \in {"done", "failed", "interrupted"})
=============================================================================
