------------------------------ MODULE InputPath ------------------------------
(***************************************************************************)
(* The way of an input: jobs/generate_jobs.py turns a pair file into job   *)
(* files, eval/build_one.sh (or a campaign of scripts/pqcfuzz_eval.sh)     *)
(* compiles fuzzers, a fuzzer parses an envelope, picks the subtests of    *)
(* its oracle and mutates a field, and replay/replay_one.py runs the       *)
(* envelope of a finding again under the job file as it is then.           *)
(*                                                                         *)
(* One finding and one replay are followed; what the libraries answer is   *)
(* left open, so every input that is executed may give a finding.          *)
(***************************************************************************)
EXTENDS FieldMutation, FiniteSets

CONSTANTS
    PairFiles,      \* the enabled pairs of a file, in the order of their ids
    Runtime,        \* --target-runtime of metamorphic jobs
    Registry,       \* implementation -> algorithm (adapter_registry.cc)
    CampaignJobs,   \* the jobs the campaigns compile in, by primitive
    Inputs,         \* envelopes offered to the fuzzers
    MaxCommands,    \* bound: generations and builds
    None, Torn      \* no file; a file whose write was cut

VARIABLES
    gen,            \* generate_jobs.py: phase, its jobs, those not yet written
    commands,       \* how many generations and builds there were
    jobFile,        \* workspace/jobs/<id>.json
    configs,        \* the jobs with a generated_config.json in workspace/tmp
    listed,         \* workspace/jobs/jobs.json
    fuzzer,         \* what is compiled into workspace/build/<id>/fuzzer
    replayBin,      \* the jobs with a replay_oracle
    finding,        \* the finding followed: its job, fuzzer and envelope
    replayed        \* what its replay did

vars == <<gen, commands, jobFile, configs, listed, fuzzer, replayBin, finding, replayed>>

-----------------------------------------------------------------------------
\* Algorithms, oracles and jobs.

Families == {"ML-KEM", "ML-DSA", "SLH-DSA"}
Family(a) == CASE a \in DOMAIN MlKemParams -> "ML-KEM"
               [] a \in DOMAIN MlDsaParams -> "ML-DSA"
               [] a \in DOMAIN SlhDsaParams -> "SLH-DSA"
               [] OTHER -> "none"
Primitive(a) == IF Family(a) = "ML-KEM" THEN "kem" ELSE "sig"

FipsOracles ==
    [f \in Families |->
        CASE f = "ML-KEM" -> <<"mlkem_local_roundtrip", "mlkem_cross_exchange_roundtrip",
                               "mlkem_tampered_ciphertext_implicit_rejection">>
          [] f = "ML-DSA" -> <<"mldsa_local_sign_verify", "mldsa_cross_verify",
                               "mldsa_mutated_signature_negative", "mldsa_mutated_message_negative",
                               "mldsa_mutated_context_negative">>
          [] f = "SLH-DSA" -> <<"slhdsa_local_sign_verify", "slhdsa_cross_verify",
                                "slhdsa_mutated_signature_negative", "slhdsa_mutated_message_negative",
                                "slhdsa_mutated_context_negative">>]

MetamorphicOracles ==
    [p \in {"kem", "sig"} |->
        IF p = "kem"
        THEN <<"kem_decaps_c", "kem_decaps_sk", "kem_encaps_badrng", "kem_encaps_pk_0",
               "kem_encaps_pk", "kem_keygen_badrng">>
        ELSE <<"sig_keygen_badrng", "sig_sign_badrng", "sig_sign_m", "sig_sign_sk",
               "sig_verify_m", "sig_verify_sig", "sig_verify_pk">>]

In(x, seq) == \E i \in DOMAIN seq : seq[i] = x

Empty == ""
Absent == [project |-> Empty, implementation |-> Empty]

Job(id, suite, algorithm, oracles, left, right, contract) ==
    [id |-> id, suite |-> suite, algorithm |-> algorithm, oracles |-> oracles,
     left |-> left, right |-> right, contract |-> contract]

\* Mutant: fips jobs are named after the algorithm too.
FipsJobByAlgorithm(pair) ==
    Job(<<"job", pair.algorithm>>, "fips", pair.algorithm, FipsOracles[Family(pair.algorithm)],
        pair.left, pair.right, pair.contract)

FipsJob(pair) ==
    Job(<<"job", pair.id>>, "fips", pair.algorithm, FipsOracles[Family(pair.algorithm)],
        pair.left, pair.right, pair.contract)

\* The job of a single target: named after algorithm and runtime, without a
\* second adapter.
MetamorphicJob(pair) ==
    Job(<<"job", pair.algorithm, Runtime>>, "metamorphic", pair.algorithm,
        MetamorphicOracles[Primitive(pair.algorithm)],
        IF pair.left.project = Runtime THEN pair.left ELSE pair.right, Absent, {})

\* What seq holds at the chosen positions, in its order.
Selected(seq, chosen) ==
    LET upTo[i \in 0..Len(seq)] ==
            IF i = 0 THEN <<>>
            ELSE IF i \in chosen THEN Append(upTo[i - 1], seq[i]) ELSE upTo[i - 1]
    IN  upTo[Len(seq)]

JobsOf(file, family, suite) ==
    LET hasRuntime(pair) == Runtime \in {pair.left.project, pair.right.project}
        pairs == Selected(file, {i \in DOMAIN file :
                     Family(file[i].algorithm) = family /\ (suite = "fips" \/ hasRuntime(file[i]))})
    IN  [i \in DOMAIN pairs |-> IF suite = "fips" THEN FipsJob(pairs[i]) ELSE MetamorphicJob(pairs[i])]

Suites == {"fips", "metamorphic"}
JobIds ==
    LET pairs == UNION {{file[i] : i \in DOMAIN file} : file \in PairFiles}
    IN  UNION {{FipsJob(p).id, MetamorphicJob(p).id} : p \in pairs}
CampaignIds == {CampaignJobs[p].id : p \in {"kem", "sig"}}

Flags == <<"public_key_exchange", "ciphertext_exchange", "secret_key_exchange",
           "secret_key_format_compatible", "signature_exchange">>

-----------------------------------------------------------------------------
\* What load_pair_alg lets through and the registry knows, and what is
\* written into the script of the campaigns.  None and Torn are no jobs.

AdapterOf(adapter, algorithm) ==
    /\ adapter = [project |-> adapter.project, implementation |-> adapter.implementation]
    /\ adapter.project # Empty /\ adapter.implementation # Empty
    /\ Registry[adapter.implementation] = algorithm

Configured(algorithm, left, right, contract) ==
    /\ Family(algorithm) \in Families
    /\ AdapterOf(left, algorithm) /\ AdapterOf(right, algorithm)
    /\ contract \subseteq {Flags[i] : i \in DOMAIN Flags}

ASSUME PairsAssumption ==
    \A file \in PairFiles :
        /\ file \in Seq({file[i] : i \in DOMAIN file})
        /\ \A i, k \in DOMAIN file : file[i].id = file[k].id => i = k
        /\ \A i \in DOMAIN file :
               Configured(file[i].algorithm, file[i].left, file[i].right, file[i].contract)

ASSUME CampaignAssumption ==
    \A p \in {"kem", "sig"} :
        LET job == CampaignJobs[p] IN
        /\ job = Job(job.id, job.suite, job.algorithm, job.oracles, job.left, job.right, job.contract)
        /\ Configured(job.algorithm, job.left, job.right, job.contract)
        /\ job.id \notin JobIds
        /\ \A suite \in Suites : [job EXCEPT !.suite = suite] # None

ASSUME InputsAssumption ==
    \A e \in Inputs : e.plan \in Plans /\ e.message \in Nat /\ e.extra \in Nat

Idle == [phase |-> "idle", jobs |-> <<>>, todo |-> <<>>]

Init ==
    /\ gen = Idle /\ commands = 0
    /\ jobFile = [j \in JobIds |-> None] /\ configs = {} /\ listed = <<>>
    /\ fuzzer = [j \in JobIds \cup CampaignIds |-> None] /\ replayBin = {}
    /\ finding = None /\ replayed = None

-----------------------------------------------------------------------------
\* generate_jobs.py: the jobs of one family, each with its configuration
\* first, then jobs.json.

Generate(file, family, suite) ==
    /\ gen.phase # "writing" /\ commands < MaxCommands
    /\ LET jobs == JobsOf(file, family, suite)
       IN  gen' = [phase |-> "writing", jobs |-> jobs, todo |-> jobs]
    /\ commands' = commands + 1
    /\ UNCHANGED <<jobFile, configs, listed, fuzzer, replayBin, finding, replayed>>

WriteJob ==
    /\ gen.phase = "writing" /\ gen.todo # <<>>
    /\ configs' = configs \cup {Head(gen.todo).id}
    /\ jobFile' = [jobFile EXCEPT ![Head(gen.todo).id] = Head(gen.todo)]
    /\ gen' = [gen EXCEPT !.todo = Tail(gen.todo)]
    /\ UNCHANGED <<commands, listed, fuzzer, replayBin, finding, replayed>>

WriteSummary ==
    /\ gen.phase = "writing" /\ gen.todo = <<>>
    /\ listed' = gen.jobs
    /\ gen' = Idle
    /\ UNCHANGED <<commands, jobFile, configs, fuzzer, replayBin, finding, replayed>>

\* The process is killed, before or while it writes a job file.
Interrupt ==
    /\ gen.phase = "writing" /\ gen.todo # <<>>
    /\ gen' = [Idle EXCEPT !.phase = "interrupted"]
    /\ \/ UNCHANGED <<jobFile, configs>>
       \/ /\ configs' = configs \cup {Head(gen.todo).id}
          /\ jobFile' = [jobFile EXCEPT ![Head(gen.todo).id] = Torn]
    /\ UNCHANGED <<commands, listed, fuzzer, replayBin, finding, replayed>>

-----------------------------------------------------------------------------
\* build_one.sh: the job's fields are printed with tabs between them and read
\* back into macros.

Fields(job) ==
    <<job.left.project, job.left.implementation, job.right.project, job.right.implementation>>
    \o [i \in DOMAIN Flags |-> IF Flags[i] \in job.contract THEN "1" ELSE "0"]

\* read with tabs in IFS takes several of them for one: an empty field is
\* lost and the last macros stay empty.
TabRead(fields) ==
    LET kept == Selected(fields, {i \in DOMAIN fields : fields[i] # Empty})
    IN  [i \in DOMAIN fields |-> IF i \in DOMAIN kept THEN kept[i] ELSE Empty]

\* Mutant: a macro without a value counts as its default.
CompilesAlways(job, macros) == TRUE

\* The fuzzers compare these macros with 0, which needs a value.
Compiles(job, macros) ==
    \A i \in (IF Primitive(job.algorithm) = "kem" THEN 5..8 ELSE {5, 9}) : macros[i] # Empty

Fuzzer(job, macros) ==
    [job |-> job.id, suite |-> job.suite, primitive |-> Primitive(job.algorithm),
     left |-> [project |-> macros[1], implementation |-> macros[2]],
     right |-> [project |-> macros[3], implementation |-> macros[4]],
     contract |-> {Flags[i] : i \in {k \in DOMAIN Flags : macros[k + 4] = "1"}},
     from |-> job]

\* The fuzzer is compiled before replay_oracle; the build may end between.
Build(j) ==
    /\ commands < MaxCommands
    /\ jobFile[j] \notin {None, Torn}
    /\ LET macros == TabRead(Fields(jobFile[j]))
       IN  /\ Compiles(jobFile[j], macros)
           /\ fuzzer' = [fuzzer EXCEPT ![j] = Fuzzer(jobFile[j], macros)]
    /\ replayBin' \in {replayBin, replayBin \cup {j}}
    /\ commands' = commands + 1
    /\ UNCHANGED <<gen, jobFile, configs, listed, finding, replayed>>

\* build_pqcfuzz of a campaign: the macros are in the script, a job file is
\* not written.
BuildCampaign(primitive, suite) ==
    LET job == [CampaignJobs[primitive] EXCEPT !.suite = suite]
    IN  /\ commands < MaxCommands
        /\ fuzzer' = [fuzzer EXCEPT ![job.id] = Fuzzer(job, Fields(job))]
        /\ commands' = commands + 1
        /\ UNCHANGED <<gen, jobFile, configs, listed, replayBin, finding, replayed>>

\* clean_workspace.sh keeps the job files alone; campaigns have their own
\* workspace.
Clean ==
    /\ \E j \in JobIds : fuzzer[j] # None
    /\ fuzzer' = [j \in DOMAIN fuzzer |-> IF j \in JobIds THEN None ELSE fuzzer[j]]
    /\ replayBin' = {} /\ configs' = {}
    /\ finding' = IF finding # None /\ finding.fuzzer.job \in JobIds THEN None ELSE finding
    /\ UNCHANGED <<gen, commands, jobFile, listed, replayed>>

-----------------------------------------------------------------------------
\* Envelopes: format, whole (the lengths add up), version, algorithm, oracle,
\* the lengths of message and extra, and the mutation plan.  The enum values
\* 0 and those without a name are "zero" and "unnamed".

ParsesNatively(e) ==
    /\ e.format = "binary" /\ e.whole /\ e.version = 1
    /\ e.algorithm # "zero" /\ e.oracle # "zero"

OracleName(e) == IF e.oracle = "unnamed" THEN "unknown" ELSE e.oracle

\* What the executor is told: by the fuzzer from its macros and the envelope,
\* by replay_oracle from its arguments and the envelope.
Experiment(suite, primitive, left, right, contract, oracle, e) ==
    [suite |-> suite, primitive |-> primitive, left |-> left, right |-> right,
     contract |-> contract, oracle |-> oracle, algorithm |-> e.algorithm,
     message |-> IF primitive = "kem" THEN 0 ELSE IF e.message = 0 THEN 7 ELSE e.message,
     context |-> IF primitive = "kem" THEN 0 ELSE Less(e.extra, 255),
     plan |-> e.plan]

KemChecks(x) ==
    CASE x.oracle = "mlkem_tampered_ciphertext_implicit_rejection" -> {"ciphertext"}
      [] x.oracle = "mlkem_cross_exchange_roundtrip" ->
             {c \in {"encaps", "decaps"} :
                 IF c = "encaps" THEN {"public_key_exchange", "ciphertext_exchange"} \subseteq x.contract
                 ELSE {"ciphertext_exchange", "secret_key_exchange",
                       "secret_key_format_compatible"} \subseteq x.contract}
      [] OTHER -> {"local"}

\* An oracle of SLH-DSA makes the experiment one of SLH-DSA here, though the
\* mutators go by the algorithm.
SigChecks(x) ==
    LET slh == Family(x.algorithm) = "SLH-DSA" \/ In(x.oracle, FipsOracles["SLH-DSA"])
                 \/ x.oracle = "slhdsa_bad_randomness_sanity"
        oracles == FipsOracles[IF slh THEN "SLH-DSA" ELSE "ML-DSA"]
    IN  CASE x.oracle = oracles[2] ->
                 IF {"public_key_exchange", "signature_exchange"} \subseteq x.contract THEN {"cross"} ELSE {}
          [] x.oracle = oracles[3] -> {"signature"}
          [] x.oracle = oracles[4] -> {"message"}
          [] x.oracle = oracles[5] -> {"context"}
          [] ~slh /\ x.oracle = "mldsa_oid_field_mutation_sanity" -> {"oid"}
          [] OTHER -> {"local"}

Checks(x) ==
    CASE x.suite = "fips" /\ x.primitive = "kem" -> KemChecks(x)
      [] x.suite = "fips" /\ x.primitive = "sig" -> SigChecks(x)
      [] x.suite = "metamorphic" ->
             IF In(x.oracle, MetamorphicOracles[x.primitive]) THEN {x.oracle} ELSE {"unknown_oracle"}

\* LLVMFuzzerTestOneInput: the algorithm of the envelope has to be one of the
\* fuzzer's primitive, and nothing compares it with the job's.
Fuzzed(f, e) == Experiment(f.suite, f.primitive, f.left, f.right, f.contract, OracleName(e), e)
Accepts(f, e) ==
    ParsesNatively(e) /\ Family(e.algorithm) # "none" /\ Primitive(e.algorithm) = f.primitive

Fuzz(j, e) ==
    /\ fuzzer[j] # None /\ finding = None
    /\ Accepts(fuzzer[j], e) /\ Checks(Fuzzed(fuzzer[j], e)) # {}
    /\ finding' = [fuzzer |-> fuzzer[j], input |-> e]
    /\ UNCHANGED <<gen, commands, jobFile, configs, listed, fuzzer, replayBin, replayed>>

-----------------------------------------------------------------------------
\* Mutant: an oracle of the envelope that is the first of the job is taken
\* for one that is not the job's.
SelectedOracleOff(job, e) ==
    IF In(OracleName(e), Tail(job.oracles)) THEN job.oracles[2] ELSE job.oracles[1]

SelectedOracle(job, e) ==
    IF In(OracleName(e), job.oracles) THEN OracleName(e) ELSE job.oracles[1]

\* Mutant: an oracle that is not the job's is refused.
ReplaysOwnOracles(j, e) ==
    /\ jobFile[j].algorithm = e.algorithm /\ j \in replayBin /\ j \in configs
    /\ In(OracleName(e), jobFile[j].oracles)

\* replay_one.py up to the native call, which parses the envelope again.
Replays(j, e) ==
    jobFile[j].algorithm = e.algorithm /\ j \in replayBin /\ j \in configs

ReplayedAs(job, e) ==
    Experiment(job.suite, Primitive(job.algorithm), job.left, job.right, job.contract,
               SelectedOracle(job, e), e)

\* The replay command of a finding names the job file of its job, which a
\* campaign does not have.
Replay ==
    /\ finding # None
    /\ LET j == finding.fuzzer.job
           e == finding.input
           job == IF j \in JobIds THEN jobFile[j] ELSE None
           runs == job \notin {None, Torn} /\ Replays(j, e)
       IN  replayed' = [job |-> job, built |-> j \in replayBin, config |-> j \in configs, ran |-> runs,
                        experiment |-> IF runs THEN ReplayedAs(job, e) ELSE None]
    /\ UNCHANGED <<gen, commands, jobFile, configs, listed, fuzzer, replayBin, finding>>

Next ==
    /\ replayed = None
    /\ \/ \E file \in PairFiles, family \in Families, suite \in Suites : Generate(file, family, suite)
       \/ WriteJob
       \/ WriteSummary
       \/ Interrupt
       \/ \E j \in JobIds : Build(j)
       \/ \E primitive \in {"kem", "sig"}, suite \in Suites : BuildCampaign(primitive, suite)
       \/ Clean
       \/ \E j \in DOMAIN fuzzer, e \in Inputs : Fuzz(j, e)
       \/ Replay

Spec == Init /\ [][Next]_vars

-----------------------------------------------------------------------------
\* The mutation a check makes: the regions are those of the envelope's
\* algorithm, the buffer comes from the adapter.

MetamorphicFields ==
    [oracle \in {"kem_decaps_c", "kem_decaps_sk", "kem_encaps_pk", "sig_sign_m", "sig_sign_sk",
                 "sig_verify_m", "sig_verify_sig", "sig_verify_pk"} |->
        CASE oracle = "kem_decaps_c" -> "ct"
          [] oracle \in {"kem_decaps_sk", "sig_sign_sk"} -> "sk"
          [] oracle \in {"kem_encaps_pk", "sig_verify_pk"} -> "pk"
          [] oracle = "sig_verify_sig" -> "sig"
          [] OTHER -> "message"]

ParamsOf(a) == CASE Family(a) = "ML-KEM" -> MlKemParams[a]
                 [] Family(a) = "ML-DSA" -> MlDsaParams[a]
                 [] Family(a) = "SLH-DSA" -> SlhDsaParams[a]

MutatingChecks == {"ciphertext", "signature", "message", "context", "oid"} \cup DOMAIN MetamorphicFields

\* MutateMlDsa and MutateSlhDsa for a field that is one region.
MutateWhole(x, name, size) ==
    IF Family(x.algorithm) = "SLH-DSA" THEN MutateSlhDsa(SingleRegion(name, size), x.plan, size)
    ELSE MutateMlDsa(SingleRegion(name, size), x.plan, size)

MutationOf(check, x) ==
    LET adapter == ParamsOf(Registry[x.left.implementation])
    IN  CASE check = "ciphertext" -> MutateCiphertext(MlKemParams[x.algorithm], x.plan, adapter.ct)
          [] check = "signature" /\ Family(x.algorithm) = "SLH-DSA" ->
                 MutateSlhDsa(SlhDsaSignatureRegions(SlhDsaParams[x.algorithm], adapter.sig), x.plan, adapter.sig)
          [] check = "signature" /\ Family(x.algorithm) = "ML-DSA" ->
                 MutateMlDsa(MlDsaSignatureRegions(adapter.sig), x.plan, adapter.sig)
          [] check = "message" -> MutateWhole(x, "message", x.message)
          [] check = "context" -> MutateWhole(x, "ctx", x.context)
          [] check = "oid" -> MutateMlDsa(SingleRegion("oid", 5), x.plan, 5)
          [] OTHER -> Maul(x.plan, IF MetamorphicFields[check] = "message" THEN x.message
                                   ELSE adapter[MetamorphicFields[check]])

-----------------------------------------------------------------------------
\* Every job jobs.json lists has its file, once a generation is complete;
\* only metamorphic jobs of one algorithm share one, and then the last has it.
JobPerPair ==
    gen.phase = "idle" =>
        \A i \in DOMAIN listed :
            \/ jobFile[listed[i].id] = listed[i]
            \/ /\ listed[i].suite = "metamorphic"
               /\ \E k \in DOMAIN listed : k > i /\ listed[k].algorithm = listed[i].algorithm

\* A fuzzer that build_one.sh could compile runs the adapters and the exchange
\* contract of the job it was built from.
BuildFollowsJob ==
    \A j \in DOMAIN fuzzer : fuzzer[j] # None =>
        LET f == fuzzer[j] IN
        /\ f.left = f.from.left /\ f.right = f.from.right /\ f.contract = f.from.contract
        /\ f.job = f.from.id

\* The replay of a finding under the job its fuzzer was built from is only
\* refused if the envelope is of another algorithm than the job, or if the
\* build or the configuration is missing.
OwnFindingReplays ==
    replayed # None /\ ~replayed.ran /\ replayed.job = finding.fuzzer.from =>
        \/ ~replayed.built \/ ~replayed.config
        \/ finding.input.algorithm # replayed.job.algorithm

\* A replay under the job the fuzzer was built from makes the checks of the
\* finding, with the same adapters, contract, algorithm, message, context and
\* plan.  Only an oracle that is not the job's may be replaced, and then by
\* the job's first.
ReplayRepeatsFinding ==
    replayed # None /\ replayed.ran /\ replayed.job = finding.fuzzer.from =>
        LET found == Fuzzed(finding.fuzzer, finding.input)
            again == replayed.experiment
        IN  /\ [found EXCEPT !.oracle = Empty] = [again EXCEPT !.oracle = Empty]
            /\ \/ Checks(found) = Checks(again)
               \/ ~In(found.oracle, replayed.job.oracles) /\ Checks(again) = {"local"}

\* A mutation stays in the field and in the region it names, whatever the
\* plan, also where the envelope's algorithm is not the adapter's.
MutationConfined ==
    finding # None =>
        LET x == Fuzzed(finding.fuzzer, finding.input)
        IN  \A check \in Checks(x) \cap MutatingChecks : Confined(MutationOf(check, x))

\* Whether the executor's second call gets something else; a mutated object
\* identifier is appended to the context.
Effective(check, m, same) == IF check = "oid" THEN m.after > 0 ELSE Altered(m, same)

\* An experiment on a changed field has one: bit flips, cuts and appended
\* bytes change every field that is not empty, if the envelope's algorithm is
\* the adapter's.  (A cut may leave nothing of the object identifier, and
\* then the context is the signed one.)
SureOperationsAlter ==
    finding # None =>
        LET x == Fuzzed(finding.fuzzer, finding.input)
        IN  x.algorithm = Registry[x.left.implementation] =>
            \A check \in Checks(x) \cap MutatingChecks :
                LET m == MutationOf(check, x)
                    sure == m.how \in {"flip", "push"} \/ (m.how = "cut" /\ check # "oid")
                IN  m.before > 0 => m.how # "skip" /\ (sure => Effective(check, m, TRUE))
=============================================================================
