----------------------------- MODULE ReplayProofs -----------------------------
(***************************************************************************)
(* Proofs about Replay for any number of replays of an input and whatever  *)
(* traces the native oracle may write: the types, that a verdict is the    *)
(* replay's own, that "no finding" is earned, and that a finding is        *)
(* published.                                                              *)
(*                                                                         *)
(* The argument: at most one replay is active, so that from the moment it  *)
(* has prepared the directory the trace file is absent or its own, and     *)
(* holds exactly what its native process has completed.                    *)
(***************************************************************************)
EXTENDS Replay, TLAPS

Synthesized == {ClassOnly(c) : c \in {"crash", "hang", "memory_safety"}}

\* What synthesize_trace makes up is never taken for a run without a finding.
LEMMA SynthesizedIsFinding ==
    ASSUME NEW t \in Synthesized
    PROVE  Classify(t) # "none"
<1>1. PICK c \in {"crash", "hang", "memory_safety"} : t = ClassOnly(c)
  BY DEF Synthesized
<1> DEFINE known == {i \in DOMAIN t.findings : t.findings[i] \in FindingClasses}
           first == CHOOSE i \in known : \A k \in known : i <= k
<1>2. t.findings = <<c>>
  BY <1>1 DEF ClassOnly
<1>3. known = {1}
  BY <1>2 DEF FindingClasses
<1>4. t.findings[first] = c
  BY <1>2, <1>3
<1>5. Classify(t) = t.findings[first]
  BY <1>3 DEF Classify
<1> QED
  BY <1>4, <1>5

LEMMA SynthesizeType ==
    ASSUME NEW r, NEW class \in {"crash", "hang"}
    PROVE  Synthesize(r, class) \in Synthesized
BY DEF Synthesize, Synthesized

LEMMA TracesParts ==
    /\ Synthesized \subseteq Traces /\ NativeTraces \subseteq Traces
    /\ NoFindingTrace \in Traces /\ Absent \notin Traces
BY AbsentAssumption DEF Traces, Synthesized

LEMMA MissingTraceType ==
    ASSUME NEW r
    PROVE  /\ MissingTrace(r) \in Synthesized \cup {NoFindingTrace}
           /\ rc[r] # "ok" => MissingTrace(r) \in Synthesized
<1>1. Synthesize(r, "hang") \in Synthesized /\ Synthesize(r, "crash") \in Synthesized
  BY SynthesizeType
<1> QED
  BY <1>1 DEF MissingTrace

-----------------------------------------------------------------------------
(* The inductive invariant. *)

\* At most one replay is active, and only its native process runs.
OneActive ==
    /\ \A q, r \in Replays : Active(q) /\ Active(r) => q = r
    /\ \A r \in Replays : native[r] \in {"running", "opened", "wrote"} => step[r] = "waiting"

\* What a replay has before its verdict.
Progress(r) ==
    /\ step[r] \in {"new", "prepared"} => native[r] = "none" /\ written[r] = Absent
    /\ step[r] = "waiting" => native[r] # "none"
    /\ native[r] # "exited" => rc[r] = "none"
    /\ step[r] \in {"new", "prepared", "waiting"} => verdict[r] = Absent
    /\ step[r] = "collected" =>
         verdict[r] = Absent \/ (verdict[r] \in Synthesized /\ rc[r] = "hang")

\* The trace file of the active replay is its own: it holds what its native
\* process has completed, and then its verdict.
OwnTrace(r) ==
    /\ Active(r) /\ traceFile # Absent => traceFile.by = r
    /\ step[r] \in {"prepared", "waiting", "collected"} =>
         written[r] = IF traceFile = Absent THEN Absent ELSE traceFile.trace
    /\ step[r] = "prepared" \/ native[r] = "running" => traceFile = Absent
    /\ native[r] = "opened" => written[r] = Absent
    /\ native[r] = "wrote" => written[r] # Absent
    /\ step[r] \in {"waiting", "collected"} /\ verdict[r] = Absent /\ traceFile # Absent => rc[r] # "hang"
    /\ step[r] = "decided" => traceFile = [by |-> r, trace |-> verdict[r]]

\* What a verdict says once it is made.
Decided(r) ==
    step[r] \in {"decided", "done"} =>
        \/ verdict[r] = written[r] /\ written[r] # Absent /\ rc[r] # "hang"
        \/ verdict[r] \in Synthesized /\ (written[r] = Absent \/ rc[r] = "hang")
        \/ verdict[r] = NoFindingTrace /\ rc[r] = "ok" /\ written[r] = Absent

Published(r) ==
    step[r] = "done" /\ Classify(verdict[r]) # "none" /\ traceFile # Absent /\ traceFile.by = r =>
        /\ traceFile.trace = verdict[r]
        /\ findingFile = [by |-> r, class |-> Classify(verdict[r])]

ReplayInv ==
    /\ TypeOK
    /\ OneActive
    /\ \A r \in Replays : Progress(r) /\ OwnTrace(r) /\ Decided(r) /\ Published(r)

LEMMA InitInv == Init => ReplayInv
BY DEF Init, ReplayInv, TypeOK, OneActive, Progress, OwnTrace, Decided, Published, Active,
       ExitStatuses

-----------------------------------------------------------------------------
(* Every step keeps the invariant. *)

\* The verdict of Decide: one synthesized, or what the native process has
\* completed, or "no finding" of a process that ended with 0.
LEMMA DecideValue ==
    ASSUME NEW r \in Replays, TypeOK, Progress(r), OwnTrace(r), Decide(r)
    PROVE  \E t \in Traces :
             /\ verdict' = [verdict EXCEPT ![r] = t]
             /\ traceFile' = [by |-> r, trace |-> t]
             /\ \/ t = written[r] /\ written[r] # Absent /\ rc[r] # "hang"
                \/ t \in Synthesized /\ (written[r] = Absent \/ rc[r] = "hang")
                \/ t = NoFindingTrace /\ rc[r] = "ok" /\ written[r] = Absent
<1> DEFINE t == IF verdict[r] # Absent THEN verdict[r]
                ELSE IF traceFile = Absent THEN MissingTrace(r) ELSE traceFile.trace
<1>1. /\ verdict' = [verdict EXCEPT ![r] = t]
      /\ traceFile' = [by |-> r, trace |-> t]
      /\ step[r] = "collected"
      /\ ~(verdict[r] = Absent /\ traceFile # Absent /\ traceFile.trace = Absent)
  BY DEF Decide
<1>2. CASE verdict[r] # Absent
  <2>1. t = verdict[r] /\ verdict[r] \in Synthesized /\ rc[r] = "hang"
    BY <1>1, <1>2 DEF Progress
  <2> HIDE DEF t
  <2> QED
    BY <1>1, <2>1, TracesParts
<1>3. CASE verdict[r] = Absent /\ traceFile = Absent
  <2>1. t = MissingTrace(r) /\ written[r] = Absent
    BY <1>1, <1>3 DEF OwnTrace
  <2> HIDE DEF t
  <2> QED
    BY <1>1, <2>1, MissingTraceType, TracesParts
<1>4. CASE verdict[r] = Absent /\ traceFile # Absent
  <2>1. t = traceFile.trace /\ t = written[r] /\ t # Absent /\ rc[r] # "hang"
    BY <1>1, <1>4 DEF OwnTrace
  <2>2. t \in Traces
    BY <2>1, TracesParts DEF TypeOK
  <2> HIDE DEF t
  <2> QED
    BY <1>1, <2>1, <2>2
<1> QED
  BY <1>2, <1>3, <1>4

LEMMA StepType == ReplayInv /\ [Next]_vars => TypeOK'
<1> SUFFICES ASSUME ReplayInv, [Next]_vars
             PROVE  TypeOK'
  OBVIOUS
<1> USE TracesParts DEF ReplayInv, TypeOK, Goto, EndNative, ExitStatuses
<1>1. ASSUME NEW r \in Replays, Prepare(r) PROVE TypeOK'
  BY <1>1 DEF Prepare
<1>2. ASSUME NEW r \in Replays, Spawn(r) PROVE TypeOK'
  BY <1>2 DEF Spawn
<1>3. ASSUME NEW r \in Replays, NativeRefuses(r) PROVE TypeOK'
  BY <1>3 DEF NativeRefuses
<1>4. ASSUME NEW r \in Replays, NativeOpensTrace(r) PROVE TypeOK'
  BY <1>4 DEF NativeOpensTrace
<1>5. ASSUME NEW r \in Replays, NativeWritesTrace(r) PROVE TypeOK'
  BY <1>5 DEF NativeWritesTrace
<1>6. ASSUME NEW r \in Replays, NativeReturns(r) PROVE TypeOK'
  BY <1>6 DEF NativeReturns
<1>7. ASSUME NEW r \in Replays, NativeDies(r) PROVE TypeOK'
  BY <1>7 DEF NativeDies
<1>8. ASSUME NEW r \in Replays, NativeReports(r) PROVE TypeOK'
  BY <1>8 DEF NativeReports
<1>9. ASSUME NEW r \in Replays, Collect(r) PROVE TypeOK'
  BY <1>9 DEF Collect
<1>10. ASSUME NEW r \in Replays, Timeout(r) PROVE TypeOK'
  <2>1. Synthesize(r, "hang") \in Traces
    BY SynthesizeType, TracesParts
  <2> QED
    BY <1>10, <2>1 DEF Timeout
<1>11. ASSUME NEW r \in Replays, Decide(r) PROVE TypeOK'
  <2>1. PICK t \in Traces : verdict' = [verdict EXCEPT ![r] = t] /\ traceFile' = [by |-> r, trace |-> t]
    BY <1>11, DecideValue DEF ReplayInv
  <2> QED
    BY <1>11, <2>1 DEF Decide
<1>12. ASSUME NEW r \in Replays, RejectCutTrace(r) PROVE TypeOK'
  BY <1>12 DEF RejectCutTrace
<1>13. ASSUME NEW r \in Replays, Publish(r) PROVE TypeOK'
  <2>1. verdict[r] \in Traces
    BY <1>13 DEF Publish, Decided
  <2>2. findingFile' \in {findingFile, [by |-> r, class |-> Classify(verdict[r])]}
    BY <1>13 DEF Publish
  <2> QED
    BY <1>13, <2>1, <2>2 DEF Publish
<1>14. ASSUME NEW r \in Replays, Interrupt(r) PROVE TypeOK'
  BY <1>14 DEF Interrupt
<1>15. CASE UNCHANGED vars
  BY <1>15 DEF vars
<1> QED
  BY <1>1, <1>2, <1>3, <1>4, <1>5, <1>6, <1>7, <1>8, <1>9, <1>10, <1>11, <1>12, <1>13, <1>14,
      <1>15 DEF Next, DriverStep, NativeStep

LEMMA StepOneActive == ReplayInv /\ [Next]_vars => OneActive'
<1> SUFFICES ASSUME ReplayInv, [Next]_vars
             PROVE  OneActive'
  OBVIOUS
<1> USE DEF ReplayInv, TypeOK, OneActive, Active, Goto, EndNative
<1>1. ASSUME NEW r \in Replays, Prepare(r) PROVE OneActive'
  BY <1>1 DEF Prepare
<1>2. ASSUME NEW r \in Replays, Spawn(r) PROVE OneActive'
  BY <1>2 DEF Spawn
<1>3. ASSUME NEW r \in Replays, NativeRefuses(r) PROVE OneActive'
  BY <1>3 DEF NativeRefuses
<1>4. ASSUME NEW r \in Replays, NativeOpensTrace(r) PROVE OneActive'
  BY <1>4 DEF NativeOpensTrace
<1>5. ASSUME NEW r \in Replays, NativeWritesTrace(r) PROVE OneActive'
  BY <1>5 DEF NativeWritesTrace
<1>6. ASSUME NEW r \in Replays, NativeReturns(r) PROVE OneActive'
  BY <1>6 DEF NativeReturns
<1>7. ASSUME NEW r \in Replays, NativeDies(r) PROVE OneActive'
  BY <1>7 DEF NativeDies
<1>8. ASSUME NEW r \in Replays, NativeReports(r) PROVE OneActive'
  BY <1>8 DEF NativeReports
<1>9. ASSUME NEW r \in Replays, Collect(r) PROVE OneActive'
  BY <1>9 DEF Collect
<1>10. ASSUME NEW r \in Replays, Timeout(r) PROVE OneActive'
  BY <1>10 DEF Timeout
<1>11. ASSUME NEW r \in Replays, Decide(r) PROVE OneActive'
  BY <1>11 DEF Decide
<1>12. ASSUME NEW r \in Replays, RejectCutTrace(r) PROVE OneActive'
  BY <1>12 DEF RejectCutTrace
<1>13. ASSUME NEW r \in Replays, Publish(r) PROVE OneActive'
  BY <1>13 DEF Publish
<1>14. ASSUME NEW r \in Replays, Interrupt(r) PROVE OneActive'
  BY <1>14 DEF Interrupt
<1>15. CASE UNCHANGED vars
  BY <1>15 DEF vars
<1> QED
  BY <1>1, <1>2, <1>3, <1>4, <1>5, <1>6, <1>7, <1>8, <1>9, <1>10, <1>11, <1>12, <1>13, <1>14,
      <1>15 DEF Next, DriverStep, NativeStep

LEMMA StepProgress == ReplayInv /\ [Next]_vars => \A q \in Replays : Progress(q)'
<1> SUFFICES ASSUME ReplayInv, [Next]_vars, NEW q \in Replays
             PROVE  Progress(q)'
  OBVIOUS
<1> USE DEF ReplayInv, TypeOK, OneActive, Active, Goto, EndNative, Progress
<1>1. ASSUME NEW r \in Replays, Prepare(r) PROVE Progress(q)'
  BY <1>1 DEF Prepare
<1>2. ASSUME NEW r \in Replays, Spawn(r) PROVE Progress(q)'
  BY <1>2 DEF Spawn
<1>3. ASSUME NEW r \in Replays, NativeRefuses(r) PROVE Progress(q)'
  BY <1>3 DEF NativeRefuses
<1>4. ASSUME NEW r \in Replays, NativeOpensTrace(r) PROVE Progress(q)'
  BY <1>4 DEF NativeOpensTrace
<1>5. ASSUME NEW r \in Replays, NativeWritesTrace(r) PROVE Progress(q)'
  BY <1>5 DEF NativeWritesTrace
<1>6. ASSUME NEW r \in Replays, NativeReturns(r) PROVE Progress(q)'
  BY <1>6 DEF NativeReturns
<1>7. ASSUME NEW r \in Replays, NativeDies(r) PROVE Progress(q)'
  BY <1>7 DEF NativeDies
<1>8. ASSUME NEW r \in Replays, NativeReports(r) PROVE Progress(q)'
  BY <1>8 DEF NativeReports
<1>9. ASSUME NEW r \in Replays, Collect(r) PROVE Progress(q)'
  BY <1>9 DEF Collect
<1>10. ASSUME NEW r \in Replays, Timeout(r) PROVE Progress(q)'
  <2>1. Synthesize(r, "hang") \in Synthesized
    BY SynthesizeType
  <2> QED
    BY <1>10, <2>1 DEF Timeout
<1>11. ASSUME NEW r \in Replays, Decide(r) PROVE Progress(q)'
  <2>1. PICK t \in Traces :
          /\ verdict' = [verdict EXCEPT ![r] = t]
          /\ traceFile' = [by |-> r, trace |-> t]
          /\ \/ t = written[r] /\ written[r] # Absent /\ rc[r] # "hang"
             \/ t \in Synthesized /\ (written[r] = Absent \/ rc[r] = "hang")
             \/ t = NoFindingTrace /\ rc[r] = "ok" /\ written[r] = Absent
    BY <1>11, DecideValue
  <2>2. step' = [step EXCEPT ![r] = "decided"] /\ step[r] = "collected"
        /\ UNCHANGED <<native, rc, noisy, findingFile, written>>
    BY <1>11 DEF Decide
  <2> QED
    BY <2>1, <2>2
<1>12. ASSUME NEW r \in Replays, RejectCutTrace(r) PROVE Progress(q)'
  BY <1>12 DEF RejectCutTrace
<1>13. ASSUME NEW r \in Replays, Publish(r) PROVE Progress(q)'
  BY <1>13 DEF Publish
<1>14. ASSUME NEW r \in Replays, Interrupt(r) PROVE Progress(q)'
  BY <1>14 DEF Interrupt
<1>15. CASE UNCHANGED vars
  BY <1>15 DEF vars
<1> QED
  BY <1>1, <1>2, <1>3, <1>4, <1>5, <1>6, <1>7, <1>8, <1>9, <1>10, <1>11, <1>12, <1>13, <1>14,
      <1>15 DEF Next, DriverStep, NativeStep

LEMMA StepOwnTrace == ReplayInv /\ [Next]_vars => \A q \in Replays : OwnTrace(q)'
<1> SUFFICES ASSUME ReplayInv, [Next]_vars, NEW q \in Replays
             PROVE  OwnTrace(q)'
  OBVIOUS
<1> USE AbsentAssumption
<1> USE DEF ReplayInv, TypeOK, OneActive, Active, Goto, EndNative, Progress, OwnTrace
<1>1. ASSUME NEW r \in Replays, Prepare(r) PROVE OwnTrace(q)'
  BY <1>1 DEF Prepare
<1>2. ASSUME NEW r \in Replays, Spawn(r) PROVE OwnTrace(q)'
  BY <1>2 DEF Spawn
<1>3. ASSUME NEW r \in Replays, NativeRefuses(r) PROVE OwnTrace(q)'
  BY <1>3 DEF NativeRefuses
<1>4. ASSUME NEW r \in Replays, NativeOpensTrace(r) PROVE OwnTrace(q)'
  BY <1>4 DEF NativeOpensTrace
<1>5. ASSUME NEW r \in Replays, NativeWritesTrace(r) PROVE OwnTrace(q)'
  <2>1. PICK t \in NativeTraces : traceFile' = [by |-> r, trace |-> t] /\ written' = [written EXCEPT ![r] = t]
    BY <1>5 DEF NativeWritesTrace
  <2>2. t # Absent /\ traceFile' # Absent
    BY <2>1, TracesParts
  <2> QED
    BY <1>5, <2>1, <2>2 DEF NativeWritesTrace
<1>6. ASSUME NEW r \in Replays, NativeReturns(r) PROVE OwnTrace(q)'
  BY <1>6 DEF NativeReturns
<1>7. ASSUME NEW r \in Replays, NativeDies(r) PROVE OwnTrace(q)'
  BY <1>7 DEF NativeDies
<1>8. ASSUME NEW r \in Replays, NativeReports(r) PROVE OwnTrace(q)'
  BY <1>8 DEF NativeReports
<1>9. ASSUME NEW r \in Replays, Collect(r) PROVE OwnTrace(q)'
  BY <1>9 DEF Collect
<1>10. ASSUME NEW r \in Replays, Timeout(r) PROVE OwnTrace(q)'
  <2>1. Synthesize(r, "hang") \in Synthesized /\ Synthesize(r, "hang") # Absent
    BY SynthesizeType, TracesParts
  <2> QED
    BY <1>10, <2>1 DEF Timeout
<1>11. ASSUME NEW r \in Replays, Decide(r) PROVE OwnTrace(q)'
  <2>1. PICK t \in Traces :
          /\ verdict' = [verdict EXCEPT ![r] = t]
          /\ traceFile' = [by |-> r, trace |-> t]
          /\ \/ t = written[r] /\ written[r] # Absent /\ rc[r] # "hang"
             \/ t \in Synthesized /\ (written[r] = Absent \/ rc[r] = "hang")
             \/ t = NoFindingTrace /\ rc[r] = "ok" /\ written[r] = Absent
    BY <1>11, DecideValue
  <2>2. step' = [step EXCEPT ![r] = "decided"] /\ step[r] = "collected"
        /\ UNCHANGED <<native, rc, noisy, findingFile, written>>
    BY <1>11 DEF Decide
  <2> QED
    BY <2>1, <2>2
<1>12. ASSUME NEW r \in Replays, RejectCutTrace(r) PROVE OwnTrace(q)'
  BY <1>12 DEF RejectCutTrace
<1>13. ASSUME NEW r \in Replays, Publish(r) PROVE OwnTrace(q)'
  BY <1>13 DEF Publish
<1>14. ASSUME NEW r \in Replays, Interrupt(r) PROVE OwnTrace(q)'
  BY <1>14 DEF Interrupt
<1>15. CASE UNCHANGED vars
  BY <1>15 DEF vars
<1> QED
  BY <1>1, <1>2, <1>3, <1>4, <1>5, <1>6, <1>7, <1>8, <1>9, <1>10, <1>11, <1>12, <1>13, <1>14,
      <1>15 DEF Next, DriverStep, NativeStep

LEMMA StepDecided == ReplayInv /\ [Next]_vars => \A q \in Replays : Decided(q)'
<1> SUFFICES ASSUME ReplayInv, [Next]_vars, NEW q \in Replays
             PROVE  Decided(q)'
  OBVIOUS
<1> USE DEF ReplayInv, TypeOK, OneActive, Active, Goto, EndNative, Progress, Decided
<1>1. ASSUME NEW r \in Replays, Prepare(r) PROVE Decided(q)'
  BY <1>1 DEF Prepare
<1>2. ASSUME NEW r \in Replays, Spawn(r) PROVE Decided(q)'
  BY <1>2 DEF Spawn
<1>3. ASSUME NEW r \in Replays, NativeRefuses(r) PROVE Decided(q)'
  BY <1>3 DEF NativeRefuses
<1>4. ASSUME NEW r \in Replays, NativeOpensTrace(r) PROVE Decided(q)'
  BY <1>4 DEF NativeOpensTrace
<1>5. ASSUME NEW r \in Replays, NativeWritesTrace(r) PROVE Decided(q)'
  BY <1>5 DEF NativeWritesTrace
<1>6. ASSUME NEW r \in Replays, NativeReturns(r) PROVE Decided(q)'
  BY <1>6 DEF NativeReturns
<1>7. ASSUME NEW r \in Replays, NativeDies(r) PROVE Decided(q)'
  BY <1>7 DEF NativeDies
<1>8. ASSUME NEW r \in Replays, NativeReports(r) PROVE Decided(q)'
  BY <1>8 DEF NativeReports
<1>9. ASSUME NEW r \in Replays, Collect(r) PROVE Decided(q)'
  BY <1>9 DEF Collect
<1>10. ASSUME NEW r \in Replays, Timeout(r) PROVE Decided(q)'
  BY <1>10 DEF Timeout
<1>11. ASSUME NEW r \in Replays, Decide(r) PROVE Decided(q)'
  <2>1. PICK t \in Traces :
          /\ verdict' = [verdict EXCEPT ![r] = t]
          /\ traceFile' = [by |-> r, trace |-> t]
          /\ \/ t = written[r] /\ written[r] # Absent /\ rc[r] # "hang"
             \/ t \in Synthesized /\ (written[r] = Absent \/ rc[r] = "hang")
             \/ t = NoFindingTrace /\ rc[r] = "ok" /\ written[r] = Absent
    BY <1>11, DecideValue
  <2>2. step' = [step EXCEPT ![r] = "decided"] /\ step[r] = "collected"
        /\ UNCHANGED <<native, rc, noisy, findingFile, written>>
    BY <1>11 DEF Decide
  <2> QED
    BY <2>1, <2>2
<1>12. ASSUME NEW r \in Replays, RejectCutTrace(r) PROVE Decided(q)'
  BY <1>12 DEF RejectCutTrace
<1>13. ASSUME NEW r \in Replays, Publish(r) PROVE Decided(q)'
  BY <1>13 DEF Publish
<1>14. ASSUME NEW r \in Replays, Interrupt(r) PROVE Decided(q)'
  BY <1>14 DEF Interrupt
<1>15. CASE UNCHANGED vars
  BY <1>15 DEF vars
<1> QED
  BY <1>1, <1>2, <1>3, <1>4, <1>5, <1>6, <1>7, <1>8, <1>9, <1>10, <1>11, <1>12, <1>13, <1>14,
      <1>15 DEF Next, DriverStep, NativeStep

LEMMA StepPublished == ReplayInv /\ [Next]_vars => \A q \in Replays : Published(q)'
<1> SUFFICES ASSUME ReplayInv, [Next]_vars, NEW q \in Replays
             PROVE  Published(q)'
  OBVIOUS
<1> USE DEF ReplayInv, TypeOK, OneActive, Active, Goto, EndNative, OwnTrace, Published
<1>1. ASSUME NEW r \in Replays, Prepare(r) PROVE Published(q)'
  BY <1>1 DEF Prepare
<1>2. ASSUME NEW r \in Replays, Spawn(r) PROVE Published(q)'
  BY <1>2 DEF Spawn
<1>3. ASSUME NEW r \in Replays, NativeRefuses(r) PROVE Published(q)'
  BY <1>3 DEF NativeRefuses
<1>4. ASSUME NEW r \in Replays, NativeOpensTrace(r) PROVE Published(q)'
  BY <1>4 DEF NativeOpensTrace
<1>5. ASSUME NEW r \in Replays, NativeWritesTrace(r) PROVE Published(q)'
  BY <1>5 DEF NativeWritesTrace
<1>6. ASSUME NEW r \in Replays, NativeReturns(r) PROVE Published(q)'
  BY <1>6 DEF NativeReturns
<1>7. ASSUME NEW r \in Replays, NativeDies(r) PROVE Published(q)'
  BY <1>7 DEF NativeDies
<1>8. ASSUME NEW r \in Replays, NativeReports(r) PROVE Published(q)'
  BY <1>8 DEF NativeReports
<1>9. ASSUME NEW r \in Replays, Collect(r) PROVE Published(q)'
  BY <1>9 DEF Collect
<1>10. ASSUME NEW r \in Replays, Timeout(r) PROVE Published(q)'
  BY <1>10 DEF Timeout
<1>11. ASSUME NEW r \in Replays, Decide(r) PROVE Published(q)'
  <2>1. PICK t \in Traces :
          /\ verdict' = [verdict EXCEPT ![r] = t]
          /\ traceFile' = [by |-> r, trace |-> t]
          /\ \/ t = written[r] /\ written[r] # Absent /\ rc[r] # "hang"
             \/ t \in Synthesized /\ (written[r] = Absent \/ rc[r] = "hang")
             \/ t = NoFindingTrace /\ rc[r] = "ok" /\ written[r] = Absent
    BY <1>11, DecideValue
  <2>2. step' = [step EXCEPT ![r] = "decided"] /\ step[r] = "collected"
        /\ UNCHANGED <<native, rc, noisy, findingFile, written>>
    BY <1>11 DEF Decide
  <2> QED
    BY <2>1, <2>2
<1>12. ASSUME NEW r \in Replays, RejectCutTrace(r) PROVE Published(q)'
  BY <1>12 DEF RejectCutTrace
<1>13. ASSUME NEW r \in Replays, Publish(r) PROVE Published(q)'
  BY <1>13 DEF Publish
<1>14. ASSUME NEW r \in Replays, Interrupt(r) PROVE Published(q)'
  BY <1>14 DEF Interrupt
<1>15. CASE UNCHANGED vars
  BY <1>15 DEF vars
<1> QED
  BY <1>1, <1>2, <1>3, <1>4, <1>5, <1>6, <1>7, <1>8, <1>9, <1>10, <1>11, <1>12, <1>13, <1>14,
      <1>15 DEF Next, DriverStep, NativeStep

\* The invariant holds in every state.
THEOREM Invariance == Spec => []ReplayInv
<1>1. Init => ReplayInv
  BY InitInv
<1>2. ReplayInv /\ [Next]_vars => ReplayInv'
  BY StepType, StepOneActive, StepProgress, StepOwnTrace, StepDecided, StepPublished DEF ReplayInv
<1> QED
  BY <1>1, <1>2, PTL DEF Spec

-----------------------------------------------------------------------------
(* What it gives. *)

\* Every file and every verdict is of its type, whatever the native processes
\* leave behind.
THEOREM TypeCorrect == Spec => []TypeOK
<1>1. ReplayInv => TypeOK
  BY DEF ReplayInv
<1> QED
  BY <1>1, Invariance, PTL

\* A replay decides (replay_one.py, lines 466-500) on what its own native
\* process did; nothing that earlier replays left enters its verdict.
THEOREM OwnVerdict == Spec => []VerdictIsOwn
<1>1. ReplayInv => VerdictIsOwn
  BY DEF ReplayInv, Decided, VerdictIsOwn, Synthesized
<1> QED
  BY <1>1, Invariance, PTL

\* "No finding" takes a run without a timeout and a complete trace that says so
\* or, without a complete trace, the exit status 0.
THEOREM EarnedClean == Spec => []CleanIsEarned
<1>1. ReplayInv => CleanIsEarned
  BY SynthesizedIsFinding DEF ReplayInv, Decided, CleanIsEarned
<1> QED
  BY <1>1, Invariance, PTL

\* maybe_write_finding leaves trace and finding.json in agreement when a
\* replay with a finding ends.
THEOREM PublishedFinding == Spec => []FindingPublished
<1>1. ReplayInv => FindingPublished
  BY DEF ReplayInv, Published, FindingPublished
<1> QED
  BY <1>1, Invariance, PTL
=============================================================================
