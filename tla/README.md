# Verification of PQCFuzz

PQCFuzz is a differential and metamorphic fuzzer for post-quantum libraries
(liboqs, PQClean). This directory holds TLA+ modules that model its core logic,
TLC configurations that check them on small instances, and TLAPS proofs of what
holds for every choice of the constants. Paths below are relative to the
repository; line numbers are in `PROJECT.json`, which maps every definition to
the code it translates.

## 1. The system

A *job* names an algorithm, two implementations (or one, for metamorphic oracles)
and what may be exchanged between them. A libFuzzer process built for a job turns
each input into an *envelope* (oracle, seed, message, mutation), runs one oracle and
hands a trace with findings to the *finding writer*. A finding can be *replayed*,
classified and *reported*. Two shell scripts run whole *campaigns* of builds and
fuzzing sessions in parallel, one for PQCFuzz and one for the baselines it is
compared with.

```
 pairs -> jobs -> [fuzzer: envelope -> oracle executor -> finding writer] -> report
                                          |  adapters, tapes     |
                                          v                      v
                                       mutators        replay -> classifier
 pqcfuzz_eval.sh, eval_baselines_fuzzing.sh: sessions, containers, status files
```

### Inventory

**Finding writer** (`src/triage/finding_writer.cc`).
State: a map of counter records per result directory and group, whether the exit
handler is registered; on disk the artifact directories, `finding_counts.tsv` and its
`.tmp`. Operations: report a finding in "all" or "grouped" mode, write an exemplar
directory, flush a directory's counters, the `atexit` flush. It is called by the
fuzzers, one call at a time under a mutex, and by nothing else. Hard: a call is a
series of disk operations each of which may fail or be the last thing the process
does; the counters live in memory; a later process may be given the same directories.
Correct means: a bounded loss of hits, a table that is never cut and always a
snapshot, rows that lead to evidence, and a bounded number of exemplars.

**Reporting** (`src/reporting`). No state; reads the writer's directories. The
fast report believes a table and then ignores every directory beside it; the full
report reads every `finding.json`. Correct means that the two views of one disk do
not lose a group.

**Replay** (`src/replay/replay_one.py`, `replay_oracle.cc`). State: the artifact
directory of an input, shared by all of its replays (trace, `finding.json`), and a
native process under a timeout. Operations: prepare, run, collect, decide, publish.
Hard: the native process fails, crashes or hangs anywhere in its own two-step write
of the trace; a replay is interrupted anywhere; files of earlier replays remain.
Correct means that a verdict is this replay's own and that "no finding" is earned.

**Trace classification** (`src/triage/classify_finding.py`). A pure function from
a trace to a finding class, used by replay and expected to agree with the class the
native code files a finding under.

**Differential oracles** (`src/oracles/oracle_executor.cc`, `oracle_spec.cc`).
State: one input's subtests, their calls and findings. Each subtest is a sequence of
adapter calls, any of which may fail; negative subtests mutate one field in between.
Correct means: no material crosses between implementations against the contract, no
silent pass, no false alarm on a correct pair.

**Metamorphic oracles** (`metamorphic_executor.cc`, `metamorphic_spec.cc`,
`metamorphic_observation.cc`, `mutators/maul.cc`). State: one input's calls and two
observations, and, across inputs, the randomness hook that liboqs keeps once it has
been installed. Correct means that a verdict compares two real calls that differ in
one field and says whether the target ignores that field.

**Randomness tapes** (`adapters/rng_control.cc`, `liboqs/rng_control.cc`,
`pqclean/randombytes_override.cc`). State: a thread-local stack of byte tapes with their
offsets, the scope objects that pushed them, and whether liboqs has been hooked, which
is for good. Operations: open and close a scope, draw bytes. Hard: the interface lets scopes
nest and refuses an empty tape (the executors open one scope at a time, with a tape of 256
bytes), draws come in pieces of any length from two libraries. Correct means
that a tape is one stream of bytes however it is read, that under a scope nothing else
is read, and that different tapes can be told apart.

**Adapters** (`adapters/liboqs`, `adapters/pqclean`, `adapter_registry.cc`). Stateless
wrappers that turn library results into statuses.

**Mutators and layouts** (`src/mutators`). Pure functions of a plan (a byte string) and
a field. Plan bytes, the envelope's algorithm and the length of the adapter's buffer are
independent of each other. Correct means that a mutation stays in its region and that
an operation that has to change a field does.

**Pairs and jobs** (`src/pairing`, `src/jobs`, `eval/build_one.sh`,
`eval/clean_workspace.sh`). State: the job files, their configurations, `jobs.json`, the
built fuzzers and replay programs. Operations: generate the jobs of one family and suite
file by file, build one, build those of a campaign, clean. Hard: generations share a
directory and can be cut short; a fuzzer remembers the job as it was when it was built,
a replay uses the file as it is now. Correct means that a build runs the job it was
built from.

**Fuzzer entry points, envelope format, native replay arguments** (`src/fuzzers`,
`mutators/envelope.cc`, `replay/replay_oracle.cc`). Stateless: parse an envelope, put an
experiment together from macros or arguments, run it. Fuzzer and replay do so by code of
their own. Correct means that a replay repeats the experiment of its finding.

**Evaluation campaigns** (`scripts/pqcfuzz_eval.sh`). State: tmux sessions, one
launcher per campaign on the host and one in its container, a status file that both
write, run summaries, the rows of the summary. The script polls. Hard: everything
runs at once and anything may be killed, not written, or left over from before.
Correct means that exit status 0 is earned, the summary is final and is reached.

**Baseline campaigns** (`scripts/eval_baselines_fuzzing.sh`,
`compact_baseline_results.py`). As above, and after fuzzing the results are
compacted: evidence is moved, build trees are removed. Correct means in addition that
no step of it loses evidence.

**Isolated worker**, **deadline** and the **oracle specification loader**: called by
nothing. The vendored baselines, the library download, schemas and the other `eval/*.sh`
wrappers hold no logic of their own.

The hazards of this code, each at its line with the properties that would notice it,
are listed in `PROJECT.json`.

## 2. Modules

| Module | Models | Runs |
| --- | --- | --- |
| `FindingCounts` | abstract: a published table is at any time a snapshot of the counters of its directory | refined by `FindingWriter` |
| `FindingWriter` | the writer with its failures, crash and restart | `finding_writer_*` |
| `FindingReport` | extends the writer: what the two report modes count on its disk | `finding_writer_exit`, `_faults` |
| `ClassifyTrace` | the classifier, a pure function | used by `Replay` and `OracleExecutor` |
| `Replay` | a sequence of replays with their native processes | `replay_sequence` |
| `OracleExecutor` | differential oracles, one input | `oracle_*` |
| `MetamorphicExecutor` | metamorphic oracles, input after input | `metamorphic_verdicts` |
| `TapeStream` | abstract: a stack of streams, each determined by its tape | refined by `RngTape` |
| `RngTape` | scopes, tapes, hooks and draws byte by byte | `rng_tapes` |
| `FieldMutation` | layouts and mutators, pure functions | used by `InputPath` |
| `InputPath` | jobs, builds, envelopes, and a finding with its replay | `input_path` |
| `EvalCampaign` | the evaluation script, its launchers and containers | `eval_campaigns` |
| `BaselineCampaign` | the baseline script, its launchers and the compaction | `baseline_campaigns` |
| `FindingWriterProofs` | theorems about `FindingWriter` and `FindingReport` | |
| `InputPathProofs` | theorems about `FieldMutation` and `InputPath` | |
| the other `*Proofs` | theorems about the module of that name | |
| `MC*` | instances for TLC | |

Composition: `FindingReport` reads the state of `FindingWriter`; `Replay` and
`OracleExecutor` share `ClassifyTrace`, by which the native producer of findings is
compared with the Python consumer of its traces; `InputPath` puts job generation, builds,
fuzzers and replay together and takes what a check mutates from `FieldMutation`.
`FindingWriter` implements `FindingCounts` and `RngTape` implements `TapeStream`.

### How the models correspond to the code

*FindingWriter.* `count` and `exemplars` are the `CounterRecord`s; `registered` is
`ExitFlushRegistered()`. `pc` is the disk operation a call is at: `mkdir`
(`create_directories`), `file` (four groups of files in the order they are written),
`tmp` and `rename` (`WriteTextAtomic`). `ReportGrouped` and `ReportAll` are the two
entry branches of `WriteFindingArtifacts`; each failing operation is an action that
returns early as the code does, and the history variable `stuck` holds the groups
whose due flush was skipped that way. A short write (`"short"`) is taken for success
by the code, and so by the model. `Crash` may strike at every step and leaves an open
file cut; `Restart` starts a process with empty memory over the same disk. The mutex
makes calls exclusive, so there is one call at a time. The first exemplar is named
without, the later ones with the digest of the input (`ExemplarName`); digests are
taken to be injective.

*FindingReport.* `FastCount` and `FullCount` are the counts the two modes give for a
group. `CounterFiles` are the directories with a table.

*Replay.* `step` is the progress of a driver through `replay()`, `native` that of its
process (`running`, `opened` the trace, `wrote` it, `exited`), `rc` how it ended.
`Decide` follows the cases of the driver in order: timeout, a complete trace, a missing
or unreadable one with each exit status and with a sanitizer report on stderr.

*OracleExecutor.* A subtest is a record of who generates, who makes and who uses; each
adapter call is one step whose status (and, for shared secrets, equality) the adapter
chooses freely. `field` is what became of the mutated field: `changed`, `shorter`,
`longer`, `empty`, or `same` for a mutation without effect. `deviations` is a history
variable: how answers departed from those of a correct implementation.

*MetamorphicExecutor.* The output of a correct call is the set of its inputs; a target
that ignores a field leaves it out. The randomness of a call is that of the tape, or
`fresh`, or the fixed pattern of the liboqs hook once `hooked`.

*RngTape.* `tapes` is `g_tapes` and `scopes` the `ScopedRngOverride` objects alive.
`Source` says where a library draws from; `FillByte` is one iteration of the loop of
`FillFromActiveTape`, with `offset` as the code leaves it. `served` and `log` are history:
what a tape has handed out while it was open, and what popped tapes had. The refinement
forgets offset and hook and keeps `served`.

*FieldMutation.* A mutator is a function from a plan and a length to a record of where
and how it writes and what length it leaves. The bytes a field held are abstracted to
whether they already were what is written (`same` in `Altered`). The tables are those of
the layouts, with all parameter sets.

*InputPath.* `gen` is a run of `generate_jobs.py`, which writes its jobs one by one and
then the list; `jobFile`, `configs`, `listed`, `fuzzer` and `replayBin` are the files, where
a fuzzer is what was compiled into it (`Fields` and `TabRead` are the path of a job through
`build_one.sh` into macros). `Fuzzed` and `ReplayedAs` are the experiments put together by
a fuzzer and by a replay, `Checks` the subtests an experiment makes; `ran` of `replayed`
says whether the replay got as far as running one. What libraries answer is left open, so
each executed input may be a finding. The job files of the two suites have different names
in the model; in the code they have unless a pair's id is that of a single target
(`job_<algorithm>_<runtime>_single_target`). A campaign's job has the name of neither.

*EvalCampaign, BaselineCampaign.* `pc` is the script's main loop with the read of a
status file and the question to tmux as separate steps; `host`, `container` and `stage`
are the launchers; `doc` is the status file. Killing a session ends its launcher;
the fault `detach` lets a container outlive its docker client. `Leftovers` in the
initial states stand for whatever an earlier invocation left in the files this one
uses. In `BaselineCampaign` each move and removal of the compaction is a step;
`inBuild` and `kept` say where the evidence is.

## 3. Runs: what each asks, its bounds and what it shows

Every property of a passing run has a mutant: an operator beside the definition that
changes it as a plausible bug would (a dropped guard, a forgotten flush, a swapped
order). With the mutant in place of the definition TLC finds the property violated.

**finding_writer_faults** (0.8 million states). Two groups in one result directory, two
inputs, one exemplar each, flush interval 2, up to three hits of one group and one of the
other per process, one restart; artifact and counter writes fail and the process dies at
any step. `LossBounded`: as long as no due flush of a group was lost, its published count
trails its hits by less than the flush interval. `FirstExemplarIntact`: the first
exemplar of a group stems from one input although retries write into one directory.
`CountsSpec`: the writer implements `FindingCounts`. `CrashHidesOnlyTheCall`: a table hides
directories without a row, yet at no step of a first process is a group with evidence
missing from the fast report, unless it is the one being reported or one whose flush
failed. Interval 2 with three hits lets a group be on, before and after a due flush; a
second group in the directory, with one hit, is the least with which one group's flush
publishes another's count; one restart is enough to meet a disk another process left.

**finding_writer_exemplars** (1.5 million states). Both save modes, one group, three
inputs, two exemplars, short writes, crashes, one restart. There is one group here: that
the row another group's flush publishes has its exemplar too is left to the theorem
`RowEvidence`.
`RowHasExemplar`: a published row leads to a complete exemplar. `ExemplarsBounded`: the
number of retained directories is bounded also across restarts; artifact writes do not fail
in this run, so a directory that a failed attempt leaves behind is not counted.
`NamedExemplarIntact`: a directory named after an input holds that input only. Three inputs are one more than
the exemplars retained.

**finding_writer_exit** (44 thousand states, with fairness). Two directories, failing
artifact writes. `ExitPublishesAll` and `FastReportExact`: after a normal exit table and
fast report hold the exact hits of every group, whatever flushes were skipped on the
way. `EventuallyCounted`: every group that is hit is eventually published with its
current count.

**replay_sequence** (29 thousand states, with fairness). Two replays of one input and
four kinds of traces. `VerdictIsOwn`, `FindingPublished`, `ReplayEnds`. `CleanIsEarned`: a
replay that timed out, or whose native process ended badly before its trace was complete,
is never reported clean. A process that dies after it completed a clean trace is: the code
does not look at the exit status then (see below), and the property says no more.
Only two files carry over from one replay to the next and the second replay overwrites
or removes both or leaves what the first one left, so two replays meet every state of
the directory.

**oracle_verdicts** (0.4 million states). Every oracle, every exchange contract, missing
adapters, adapters without contexts, every status at every call and every effect of a
mutation; a signature that was lengthened may still be within the maximum or beyond it. `ExchangeWithinContract`: no call hands an adapter material of the other one
against the contract. `HonestPairIsCleared`: a correct pair is not reported.
`DeviationIsReported`: a crash, a hang, a refusal of what is valid and an acceptance of
what was changed are. `PassNeedsEvidence`: a subtest that passes has really used its
ciphertext or signature. `ClassifierAgrees`: the Python classifier files a trace under
the class the native code gave it. The number of calls and subtests is the code's own,
so nothing is bounded here but the set of values.

**metamorphic_verdicts** (0.6 million states). All thirteen oracles and an unknown one,
input after input, on targets that work, ignore any one field, lack any API or fail at
any call (crashes and timeouts among it), from both libraries. `OneFieldExperiment`: the two
observations that are compared are of two calls that were really made, to one API, on inputs
that differ in the oracle's field. A call need not have succeeded to be compared, and fresh
randomness may differ besides. `SensitiveTargetIsCleared`
and `IgnoredFieldIsReported`: what is reported is what the target ignores. Between inputs
only the hook remains, so the state space is closed under any number of inputs.

**rng_tapes** (1.3 million states). Tapes of no, one and two bytes that agree, differ early
and differ late, repeating and not, two nested scopes, draws of up to three bytes by both
libraries. `ScopesBalanced`: the stack holds as many tapes as there are scopes alive that were not
refused, and its n-th tape is that of the n-th such scope. `DrawsUnderTape`: under a scope both libraries draw from its tape. `StreamSpec`:
`RngTape` implements `TapeStream`. `DrawsIdentifyTape`: equal tapes give equal bytes, and
different ones of one length different bytes once they are read to the end. Three bytes
are one more than the longest tape, so that a tape starts over; two popped tapes are what
a comparison needs.

**input_path** (0.5 million states). A file of four pairs of all families and one that
changes the contract of the first, three generations or builds in any order, every
generation cut at any file; 31 envelopes that parsers, dispatch and replay treat
differently and 96 that sweep the operations of all mutators. `JobPerPair`: a listed job has its
file. `BuildFollowsJob`: a fuzzer that compiles runs the adapters and the contract of the
job it was built from. `OwnFindingReplays`: a finding is only refused by replay if its
envelope has another algorithm than its job or something was cleaned away.
`ReplayRepeatsFinding`: a replay under the same job makes the checks of the finding with
the same inputs. `MutationConfined`, `SureOperationsAlter`: every operation stays in its
region, and flips, cuts and appended bytes change their field. Two generations and a
build are the least with which a fuzzer is older than its job file.

**eval_campaigns** (0.3 million states, with fairness). Two campaigns, one without a SIG
target, over every leftover; sessions, containers and clients die, starts, status writes
and the report fail, where the faults are divided between the campaigns.
`SuccessIsReal`: exit 0 only if both fuzz targets of every campaign of this invocation
ended well. `SummaryIsFinal`: no campaign goes on after the summary and its rows are what
the files say. `FinishedIsFinal`: no launcher overwrites the other's verdict.
`ScriptEnds`: the wait ends. Campaigns share only the script, so two show every way in
which one can end, fail or linger while the loop is at the other.

**baseline_campaigns** (0.8 million states, with fairness). A libFuzzer campaign (two
targets) and a cryptoTesting one (a time limit, evidence in the build tree, one crash
file), both save modes, each with the faults that concern it; a launcher that is cut may
leave a torn run summary. `SuccessIsReal` and
`ScriptEnds` as above. `EvidenceKept`: at every step of the compaction, and wherever it
fails or is killed, a crash that was found is in the run tree or the build tree.
`CompactedUnlessCut`: success in compact mode means compacted.

Two runs show a disagreement between the code and what a test or a specification of
the repository says; each checks that one statement and TLC refutes it:

| Run | Statement | What happens |
| --- | --- | --- |
| `finding_writer_short_write` | a counter write that fails makes the report fail | `WriteText` looks at the stream only after opening it; a short write replaces the table by a cut one and the report returns true |
| `oracle_unsupported` | `api_unsupported_is_not_failure` | a subtest is skipped only if every call is unsupported; key generation works without contexts, so the trace gets a finding |

### Observed beside the runs

Writer, replay and reports:

- A replay without a finding leaves the `finding.json` of an earlier one
  (`replay_one.py:383`, `:425`), although `pqcfuzz_worker_test.py:126` expects none.
- A crash or sanitizer report after a complete trace is not looked at by replay
  (`replay_one.py:466-501`); `CleanIsEarned` excepts exactly this.
- A second process with the same result directory replaces the first one's table.
- `kem_pair_fuzzer.cc:144` ignores the result of the writer.

Oracles, tapes and mutations:

- A bad-randomness oracle whose plan begins with an odd byte runs both calls on one tape
  (`metamorphic_executor.cc:321`, `:333`) and reports every deterministic target.
- The public-key metamorphic oracles compare two encapsulations with fresh randomness;
  a target that ignores its key is only reported while the liboqs hook is installed.
- A mutation may leave a field as it was; a negative oracle then reports a correct
  pair. Verdict properties are stated for effective mutations, `SureOperationsAlter`
  says which ones always are. The OID oracle with a cut at position 0 is one more case.
- The SLH-DSA layout has 67 WOTS chains whatever the parameter set, so that for n = 16
  and 24 (8 of 12 sets) the region `XMSS_AUTH_PATH` is empty and the mutation named after
  it (`oracle_spec.cc:139`) works on the whole signature. The ML-DSA hint region is 96
  bytes in all sets. A plan reaches the first 256 bytes of a region only.

Jobs, builds and replays:

- `build_one.sh:57` reads tab-separated fields; the empty right side of a metamorphic job
  is dropped, later macros stay empty and the fuzzer does not compile.
- Metamorphic jobs are named after algorithm and runtime; two pairs of one algorithm
  share a job file. `jobs.json` has the jobs of the last family only.
- A fuzzer does not compare the algorithm of an envelope with its job's; replay does, and
  refuses such a finding. A finding of the OID oracle, or of an SLH-DSA oracle under an
  ML-DSA job, is replayed as a local round trip, as the oracle is not one of the job's.
- The replay command of a campaign's exemplars names a job file
  (`pqcfuzz_eval_*.json`, `pqcfuzz_eval.sh:29`) that nothing writes.
- `clean_workspace.sh` removes the configurations and keeps the jobs: after it and a new
  build a replay ends at `replay_one.py:423`.
- The seeds under `tests/seeds` are JSON, which the fuzzers do not parse.

Campaigns:

- The host's `finish_campaign` replaces the container's step statuses by empty ones.
- The baseline's status file already has its final status 0 while the compaction runs;
  a launcher killed there counts as a success. `CompactedUnlessCut` leaves it out.
- A cryptoTesting container that outlives its time limit may write into the build tree
  behind the compaction's back; `EvidenceKept` leaves it out.

## 4. Fairness

Safety properties are checked under `Init /\ [][Next]_vars`. Liveness assumes:

- *FindingWriter*: a call that has begun proceeds (weak fairness of its steps, which are
  sequential code), the exit handler proceeds, and libFuzzer leaves its loop some time
  between two inputs (strong fairness of `Exit`: `-max_total_time` expires although
  findings keep coming). Nothing makes findings happen.
- *Replay*: the driver proceeds, which includes that its timeout expires. Nothing is
  assumed of the native process, which may hang anywhere.
- *EvalCampaign, BaselineCampaign*: script and launchers proceed; fuzzers end by
  `-max_total_time` or `timeout`. That docker images and targets are built some time is
  an assumption: nothing in the scripts limits them. Kills and faults are never fair.

## 5. Proofs

Everything here holds for every value of the constants that satisfies the named
assumptions, which TLC evaluates in the runs. `ConstantsAssumption`, `OraclesAssumption`,
`EvalAssumption`, `BaselineAssumption`, `TapesAssumption`, `AbsentAssumption`,
`MetamorphicAssumption` and `InputsAssumption` say what the constants are: numbers, subsets
of the names the code knows, one value that is none of the others. Two say more.
`PairsAssumption`: in a pair file the ids are distinct, and a pair is `Configured`: its
family has jobs, its contract is a set of the known flags, and its adapters have names
that are not empty and are registered with the pair's algorithm.
`validate_pair` and `load_pair_alg` refuse a file otherwise, except that the registration is
compiled in and the file is expected to name what is registered. `CampaignAssumption` says
the same of the jobs the campaign script compiles in.

Every invariant the passing runs check is the subject of a theorem. An `IInv` named below
was first checked by TLC as an invariant of the run.

*FindingWriterProofs.* `TypeCorrect`: `TypeOK` with `ControlOK`, which says what a
program counter implies about the call and the flush in progress and without which the
types of the next step do not follow. `TableAtomic` and `TablesAreSnapshots` rest on
`SnapshotInv`: at the rename the tmp file is complete and equals the counters. The second
one shows that every step is a step of `FindingCounts` or leaves its variables alone.
`BoundedLoss` rests on `LossInv`: for a group that owes no flush, the published count
misses no multiple of the interval (`rows >= 1` and `count - rows <= count % FlushInterval`).
`LossBounded` alone is not inductive, as a count one short of the interval would grow
out of bound without the remainder; the arithmetic of the remainder is in `ModStep`.
`ExitPublishes` rests on `ExitInv`: every counted group has registered the exit handler,
and while it runs is published, being published or still to do (`Settled`).

The exemplar theorems share one lemma, `FilesStep`: a step changes at most the next file
of the call in progress. `NamedExemplar` follows with what a call may write where
(`NamedInv`). `FirstExemplar` needs that a call writes into the first directory only
while the group counts no exemplar (`FirstControl`) and that the files it has written so far
are its input's (`WrittenFiles`). `RowEvidence` rests on `RowInv`: a row, whole or on its
way, and a counted exemplar each come with a complete first directory.
`ExemplarsRetained` rests on `RetentionInv`: the named directories with a `finding.json`
are at most `MaxExemplars - 1` for each earlier process, which is taken to have used all
its room, and those this process has used.

Of the reports, `FastReport` adds `FirstProcessInv`: in a first process nothing is
on disk, or on its way to it, of a group that was not hit. With `ExitPublishes` every
table is then exact, and a directory without a table has no artifact directories.
`CrashHides` rests on `HiddenInv`: where there is a table, a group with a counted exemplar
is in it unless its call is on its way to the flush or has lost it.

*ReplayProofs.* `OwnVerdict`, `EarnedClean` and `PublishedFinding` follow from one
invariant: at most one replay is active and only its native process runs (`OneActive`);
from the moment the old trace is removed the trace file is absent or this replay's own and
holds what the process has completed (`OwnTrace`); what a verdict says once it is made is
`Decided`.

*OracleExecutorProofs.* The invariant types every sequence by what the contract permits:
subtests to do (`PermittedSubtests`), calls made (`PermittedCalls`) and finished subtests.
`PlanPermitted` shows it of the plans, `CallPermitted` and `HandoverPermitted` of each
call, and `ExchangesPermitted` follows. `EvidencePasses` adds that every kind of verdict
asks for the third call.
`HonestCleared`, `DeviationsReported` and `ClassesAgree` speak of the findings, which the
code appends subtest by subtest. Their `IInv` speaks of subtests instead: each recorded
deviation has its witness in a verdict, finished or the one the running calls will lead to
(`Witnessed`); without a deviation no verdict on an effective mutation is a finding
(`Cleared`); a negative subtest is the left adapter's alone (`Shape`); at the end nothing is
to do and the findings are those of the verdicts, in order (`Reported`). `ReportFindings`
leads back: the findings are none exactly if all verdicts are silent, and have a class
exactly if some verdict does. `HonestCleared` and `DeviationsReported` are about inputs
whose mutations changed their fields (section 3), as the properties are.

*MetamorphicExecutorProofs.* The `IInv` of `OneField` goes along the stages of the executor:
which calls have been made where, and that from the comparison on either nothing was
supported or the last two calls are the observations, the first on the inputs of the
experiment and the second on those with the oracle's field changed (`Compared`).
`Answered` says that each recorded answer is one the target gives to these arguments;
`SensitiveCleared` and `IgnoredReported` compare the two answers.

*RngTapeProofs.* The invariant ties the offset of a tape to the number of bytes drawn from
it (`Positioned`), which makes each byte the one `TapeStream` has at that place
(`FromStream`, `Refinement`), for tapes of any length, any nesting and any division into
draws. `TapesTold` compares two
streams read to the end; `UnderTape` says nothing else is read under a scope. `Balanced`
counts the active scopes up to each place of the stack (`Active`): opening a scope adds one
at the end, closing the last one removes it, and no other count changes.

*InputPathProofs.* First the mutators, as functions without a specification: a mutation
stays in its region for any bytes, plan and region (`RegionMutationConfined`,
`SignatureMutationConfined`, `CiphertextMutationConfined`, `MaulConfined`), and the layouts
of ML-DSA and SLH-DSA cover a signature of any length without a gap, whatever the
parameters (`MlDsaLayoutCovers`, `SlhDsaLayoutCovers`).

Then `InputPath`. Its `IInv` says of the files that what is in them was made by a
generation or a build and of a finding that its fuzzer accepts its input (`FilesInv`);
of a generation in progress that the jobs it has written are in their files, or a later
one of the same id is (`GenInv`); and of `jobs.json` the same of all its jobs, until the
next generation starts (`ListInv`). The last two are what `JobsHaveFiles` needs: the list
is written after the files, and a generation that was cut leaves it stale.
That a fuzzer is `Built` needs a lemma about the tabs: a line without empty fields is read
as it was written (`FullLineIsRead`), and one with gaps never yields a fuzzer that compiles
(`GapsAreLost`). `BuildsFollowJobs` follows, and with the lengths and operations of an
experiment of such a fuzzer (`Sound`) also `MutationsConfined` and `SureOperations`.
`OwnReplays` and `ReplayRepeats` compare `Fuzzed` with `ReplayedAs` field by field, case by
case of suite and oracle; the one action they are about is `ReplayFinding`, every other one
leaves `replayed` empty.

*EvalCampaignProofs.* `SuccessReal` follows the claim "completed" from the container to
its exit status, the host, the status file, the row and the exit status of the script:
`LauncherClaims`, `FileClaims` and `ScriptClaims` say that it is true at each place. Before
the archive a leftover file may claim anything, hence `pc # "idle"` in `FileClaims`.
`FinishedFinal` rests on `OneSpeaks`: at any moment at most one launcher of a campaign may
still write; and on `NotStarted`, by which a session starts once. `SummaryFinal` combines
it with the sweeps: once no session is left none starts again (`SummaryInv`), and a
campaign without a session is silent (`DeadIsSilent`).

*BaselineCampaignProofs.* `KeptEvidence` needs one fact beyond itself: in the removal
everything in the build tree is already copied. `SuccessReal` and `SuccessCompacted` share
an invariant per campaign, of what its launcher has seen (`SeenInv`), where it is
(`StageInv`) and what its status file may say (`FileInv`), and one of the script
(`ScriptInv`): the summary begins when every launcher is over, and one that is over leaves
its files alone (`OverStays`), so that a row is still true when the script exits. During the
compaction the run summary of a campaign that ended well is whole or absent, never torn (a
part of `StageInv`), so that the recording finds a summary it can update.

Inductions over data. Findings are a `FlattenSeq`, jobs and fields a selection from a
sequence; what such a function computes is shown by way of a set of numbers: the places up
to which it holds contain 0 and with n also n + 1, so that they are all (`SetInduction`,
from the least number of a set, which the library's theorem on well-founded relations
yields). `Selected` stands for the loop with a filter that the code writes, in a form that
can be proved about.

Only model-checked are the liveness properties `EventuallyCounted`, `ReplayEnds` and
`ScriptEnds` of both campaigns: they rest on fairness, which is out of the prover's reach.
The theorems about the two refinements leave fairness out as well.

## 6. Assumptions and what is left out

- Digests (FNV-1a, SHA-256) are injective; files of equal name have equal content only
  where the code writes equal content.
- A new invocation of a campaign script meets no container of an earlier one: the scripts
  ask tmux, not Docker. Within an invocation such containers are modelled.
- Replays of one input run one after the other, as everything in the repository does.
- A compaction finds the build tree of its target: `copy_crypto_testing_artifacts` returns
  silently without one (`compact_baseline_results.py:164-165`). The names of artifacts are
  abstracted.
- Names, JSON and logging are abstracted. In the two oracle modules a mutated field is
  one of the few things a mutation can make of it; `FieldMutation` has the bytes, and
  `RngTape` the bytes of a tape.
- Not modelled: the oracle specification loader and the isolated worker (called by
  nothing), the schemas and reproducer scaffolding, the remaining wrappers under `eval/`,
  the building of libraries, the tests, and the libraries under test, which the oracles
  see through the statuses of their calls.
- Not modelled: the vendored baselines under `baselines/` (cryptofuzz, CLFuzz and others).
  They are third-party programs with their bundled dependencies, which the baseline
  script runs in containers and sees by exit status and artifacts. They are by far the
  largest part of the repository's lines, so the modelled share of all lines stays small,
  although most of the project's own logic is modelled.

## 7. Plan

Written, in this order: the writer (the component with the most to lose), replay, the two
oracle executors, the two campaign scripts, the reports, the tapes, field mutations, the
path of an input, and the proofs above. Next:

1. A composition of oracle, writer and report: a deviation of an adapter is in the report
   of the session unless a write failed or the process died.
2. An abstract specification of a campaign (started, ended, summarised) that both
   scripts implement.
3. The step of such a composition as theorems: what `OracleExecutor` reports
   (`DeviationsReported`) is what `FindingWriter` is asked to count.
