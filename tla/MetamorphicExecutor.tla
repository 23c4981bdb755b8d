-------------------------- MODULE MetamorphicExecutor --------------------------
(***************************************************************************)
(* The single-target metamorphic oracles                                   *)
(* (src/src/oracles/metamorphic_executor.cc): a process that runs one      *)
(* fuzzer input after the other against one adapter, the target.           *)
(*                                                                         *)
(* An oracle makes the calls it needs to get a key pair and a ciphertext   *)
(* or a signature, then compares two calls, the baseline and the mutated   *)
(* one, that are meant to differ in one field.  All thirteen specified     *)
(* relations are EXPECT_DIFFERENT.  What an oracle must tell is whether    *)
(* the target ignores its field.                                           *)
(*                                                                         *)
(* Values are symbolic.  A correct call's output is the set of its inputs; *)
(* a target that ignores a field leaves that field out.  A mutated field   *)
(* is "orig" (a mutation without effect), "changed", "shorter" or          *)
(* "longer".  Randomness is "seeded" or "zero" under a tape; outside it is *)
(* fresh at every call, except that the hook liboqs is given with the      *)
(* first tape stays for the life of the process and repeats one pattern    *)
(* (rng_control.cc).                                                       *)
(***************************************************************************)
EXTENDS Naturals, Sequences, FiniteSets

CONSTANTS
    Oracles,      \* oracles an input may name
    Targets,      \* the adapters, records of provider, missing, ignores, unseedable
    FaultStatuses \* statuses of calls that go wrong

Fields == {"rng", "public_key", "secret_key", "ciphertext", "message", "signature"}
Apis == {"keygen", "encaps", "decaps", "sign", "verify"}
Statuses == {"OK", "REJECT", "INVALID_INPUT", "CRASH", "TIMEOUT", "API_UNSUPPORTED"}

\* kSpecs: the field of every oracle.
FieldOf ==
    [kem_decaps_c |-> "ciphertext", kem_decaps_sk |-> "secret_key",
     kem_encaps_badrng |-> "rng", kem_encaps_pk_0 |-> "public_key",
     kem_encaps_pk |-> "public_key", kem_keygen_badrng |-> "rng",
     sig_keygen_badrng |-> "rng", sig_sign_badrng |-> "rng", sig_sign_m |-> "message",
     sig_sign_sk |-> "secret_key", sig_verify_m |-> "message",
     sig_verify_sig |-> "signature", sig_verify_pk |-> "public_key"]

Known == DOMAIN FieldOf
KemOracles == {"kem_decaps_c", "kem_decaps_sk", "kem_encaps_badrng", "kem_encaps_pk_0",
               "kem_encaps_pk", "kem_keygen_badrng"}
KeygenBadRng == {"kem_keygen_badrng", "sig_keygen_badrng"}
BadRng == KeygenBadRng \cup {"kem_encaps_badrng", "sig_sign_badrng"}
\* The setup's own product is the baseline.
SetupIsBaseline == {"kem_encaps_pk", "kem_encaps_pk_0", "sig_sign_m", "sig_sign_sk"}

ASSUME MetamorphicAssumption ==
    /\ Oracles \subseteq Known \cup {"unknown"}
    /\ Targets \subseteq [provider : {"liboqs", "pqclean"}, missing : SUBSET Apis,
                          ignores : Fields \cup {"nothing"}, unseedable : BOOLEAN]
    /\ FaultStatuses \subseteq Statuses \ {"OK"}

VARIABLES
    target,   \* the adapter of the process
    hooked,   \* liboqs's generator has been replaced by the process
    oracle,   \* the input: its oracle and the first byte of its mutation
    op,
    stage,    \* progress through the executor
    calls,    \* the calls of the input
    baseline, \* observations: a status, bytes and the call they come from
    mutated,
    observed, \* the trace: relation, subtest skipped or failed, findings
    skipped,
    failed,
    findings

input == <<oracle, op>>
trace == <<observed, skipped, failed, findings>>
vars == <<target, hooked, input, stage, calls, baseline, mutated, trace>>

Blank == {<<"blank", "">>}
Empty == {<<"empty", "">>}

\* A default Observation.
Default == [call |-> 0, status |-> "INVALID_INPUT", bytes |-> Empty]
Unsupported == [call |-> 0, status |-> "API_UNSUPPORTED", bytes |-> Empty]

Init ==
    /\ target \in Targets /\ hooked = FALSE
    /\ oracle = "none" /\ op = 0
    /\ stage = "idle" /\ calls = <<>>
    /\ baseline = Default /\ mutated = Default
    /\ observed = "none" /\ skipped = FALSE /\ failed = FALSE /\ findings = <<>>

-----------------------------------------------------------------------------
(* Calls of the target.                                                    *)

Inputs ==
    [keygen |-> {"rng"}, encaps |-> {"rng", "public_key"},
     decaps |-> {"ciphertext", "secret_key"}, sign |-> {"rng", "message", "secret_key"},
     verify |-> {"signature", "message", "public_key"}]

\* The randomness of a call without a tape.
FreeRng ==
    IF target.provider = "liboqs" /\ hooked THEN "pattern"
    ELSE [n \in 1..4 |-> CASE n = 1 -> "fresh1" [] n = 2 -> "fresh2" [] n = 3 -> "fresh3"
                           [] OTHER -> "fresh4"][Len(calls) + 1]

Args(api, rng) == [f \in Inputs[api] |-> IF f = "rng" THEN rng ELSE "orig"]

Resized == {"shorter", "longer"}
\* Lengths the executor itself refuses.
WrongLength(api, args) ==
    \E f \in {"public_key", "secret_key", "ciphertext"} \cap Inputs[api] : args[f] \in Resized
\* A longer signature may still fit into sig_max_len.
MayNotFit(api, args) == api = "verify" /\ args["signature"] = "longer"

\* The result of a verification is a flag, which is false when it was not made.
NoOutput(api) == IF api = "verify" THEN {<<"rejected", "">>} ELSE Empty

Refused(api) == [status |-> "INVALID_INPUT", out |-> NoOutput(api), fault |-> FALSE]
Missing(api) == [status |-> "API_UNSUPPORTED", out |-> NoOutput(api), fault |-> TRUE]

Effective(args) == {<<f, args[f]>> : f \in DOMAIN args \ {target.ignores}}

Verified(args) ==
    IF \A p \in Effective(args) : p[2] = "orig"
    THEN [status |-> "OK", out |-> {<<"accepted", "">>}, fault |-> FALSE]
    ELSE [status |-> "REJECT", out |-> {<<"rejected", "">>}, fault |-> FALSE]

Computed(api, args) ==
    IF api = "verify" THEN Verified(args)
    ELSE [status |-> "OK", out |-> Effective(args), fault |-> FALSE]

\* A call that goes wrong leaves its buffers blank or partly written.
Faults(api) ==
    [status : FaultStatuses, fault : {TRUE},
     out : IF api = "verify" THEN {NoOutput(api)} ELSE {Blank, {<<"partial", "">>}}]

Results(api, args) ==
    CASE api \in target.missing -> {Missing(api)}
      [] api \notin target.missing /\ WrongLength(api, args) -> {Refused(api)}
      [] OTHER -> {Computed(api, args)} \cup Faults(api)
                  \cup (IF MayNotFit(api, args) THEN {Refused(api)} ELSE {})

Observe(n, r) == [call |-> n, status |-> r.status, bytes |-> r.out]

Call(api, args, r) ==
    calls' = Append(calls, [api |-> api, args |-> args, status |-> r.status, out |-> r.out, fault |-> r.fault])

-----------------------------------------------------------------------------
\* The fuzzer's next input, in the same process as the ones before.
TakeInput ==
    /\ stage = "idle"
    /\ oracle' \in Oracles /\ op' \in 0..7
    /\ stage' = "start"
    /\ UNCHANGED <<target, hooked, calls, baseline, mutated, trace>>

\* An oracle of the other primitive, or none: reported as unsupported at once.
UnknownOracle ==
    /\ stage = "start" /\ oracle \notin Known
    /\ stage' = "done"
    /\ findings' = <<"unsupported">>
    /\ UNCHANGED <<target, hooked, input, calls, baseline, mutated, observed, skipped, failed>>

\* Mutant: a setup call that fails is not told from one that succeeds.
AfterSetupUnchecked(r, next) ==
    stage' = (IF r.status = "OK" THEN next ELSE "compare") /\ UNCHANGED <<baseline, mutated>>

\* What a setup call that did not succeed means for the verdict.
AfterSetup(r, next) ==
    CASE r.status = "OK" -> stage' = next /\ UNCHANGED <<baseline, mutated>>
      [] r.status = "API_UNSUPPORTED" ->
           /\ stage' = "compare"
           /\ baseline' = Observe(Len(calls) + 1, [r EXCEPT !.out = Empty])
           /\ mutated' = baseline'
      [] OTHER -> stage' = "setup failed" /\ UNCHANGED <<baseline, mutated>>

SetupKeygen ==
    /\ stage = "start" /\ oracle \in Known \ KeygenBadRng
    /\ LET args == Args("keygen", FreeRng)
       IN \E r \in Results("keygen", args) :
            Call("keygen", args, r) /\ AfterSetup(r, "keyed")
    /\ UNCHANGED <<target, hooked, input, trace>>

MakeApi == IF oracle \in KemOracles THEN "encaps" ELSE "sign"

\* The ciphertext or signature the compared calls need.
SetupMake ==
    /\ stage = "keyed" /\ oracle \notin BadRng
    /\ LET args == Args(MakeApi, FreeRng)
       IN \E r \in Results(MakeApi, args) :
            Call(MakeApi, args, r) /\ AfterSetup(r, "made")
    /\ UNCHANGED <<target, hooked, input, trace>>

\* sig_sign_badrng on a target that signs deterministically and takes no seed.
SignNotSeedable ==
    /\ stage = "keyed" /\ oracle = "sig_sign_badrng" /\ target.unseedable
    /\ stage' = "compare" /\ baseline' = Unsupported /\ mutated' = Unsupported
    /\ UNCHANGED <<target, hooked, input, calls, trace>>

ComparedApi ==
    CASE oracle \in KeygenBadRng -> "keygen"
      [] oracle \in {"kem_encaps_badrng", "kem_encaps_pk", "kem_encaps_pk_0"} -> "encaps"
      [] oracle \in {"kem_decaps_c", "kem_decaps_sk"} -> "decaps"
      [] oracle \in {"sig_sign_badrng", "sig_sign_m", "sig_sign_sk"} -> "sign"
      [] OTHER -> "verify"

\* The baseline of a bad-randomness oracle, under its own tape.
BaselineUnderTape ==
    /\ oracle \in BadRng
    /\ \/ stage = "start" /\ oracle \in KeygenBadRng
       \/ stage = "keyed" /\ oracle \notin KeygenBadRng
    /\ ~(oracle = "sig_sign_badrng" /\ target.unseedable)
    /\ LET args == Args(ComparedApi, "seeded")
       IN \E r \in Results(ComparedApi, args) :
            /\ Call(ComparedApi, args, r)
            /\ baseline' = Observe(Len(calls) + 1, r)
    /\ stage' = "again" /\ hooked' = TRUE
    /\ UNCHANGED <<target, input, mutated, trace>>

\* The baseline of a decapsulation or verification oracle.
Baseline ==
    /\ stage = "made" /\ oracle \notin SetupIsBaseline
    /\ LET args == Args(ComparedApi, FreeRng)
       IN \E r \in Results(ComparedApi, args) :
            /\ Call(ComparedApi, args, r)
            /\ baseline' = Observe(Len(calls) + 1, r)
    /\ stage' = "again"
    /\ UNCHANGED <<target, hooked, input, mutated, trace>>

-----------------------------------------------------------------------------
\* The mutated tape is all zero, or, with reused_seed, the baseline's own.
MutatedRng == IF op % 2 = 1 THEN "seeded" ELSE "zero"

\* MaulBytes on a field that is not empty; kem_encaps_pk_0 writes zeros.
Mauled ==
    CASE oracle = "kem_encaps_pk_0" -> {"orig", "changed"}
      [] oracle # "kem_encaps_pk_0" /\ op = 0 -> {"changed"}
      [] oracle # "kem_encaps_pk_0" /\ op = 4 -> {"shorter"}
      [] oracle # "kem_encaps_pk_0" /\ op = 5 -> {"longer"}
      [] OTHER -> {"orig", "changed"}

\* Mutant: the mutated call of kem_decaps_sk decapsulates the mauled bytes as ciphertext too.
MutatedArgsTwice(v) ==
    IF oracle \in BadRng THEN Args(ComparedApi, v)
    ELSE [f \in Inputs[ComparedApi] |-> IF f = "rng" THEN FreeRng ELSE v]

MutatedArgs(v) ==
    IF oracle \in BadRng THEN Args(ComparedApi, v)
    ELSE [Args(ComparedApi, FreeRng) EXCEPT ![FieldOf[oracle]] = v]

\* The mutated call and, where the setup's product is the baseline, that too.
Mutated ==
    /\ stage = "again" \/ (stage = "made" /\ oracle \in SetupIsBaseline)
    /\ \E v \in IF oracle \in BadRng THEN {MutatedRng} ELSE Mauled :
       \E r \in Results(ComparedApi, MutatedArgs(v)) :
         /\ Call(ComparedApi, MutatedArgs(v), r)
         /\ mutated' = Observe(Len(calls) + 1, r)
    /\ baseline' = IF stage = "again" THEN baseline ELSE Observe(Len(calls), calls[Len(calls)])
    /\ stage' = "compare"
    /\ UNCHANGED <<target, hooked, input, trace>>

-----------------------------------------------------------------------------
\* Mutant: only the statuses are compared.
CompareStatusOnly(a, b) ==
    IF "API_UNSUPPORTED" \in {a.status, b.status} THEN "OBSERVED_UNSUPPORTED"
    ELSE IF a.status = b.status THEN "OBSERVED_EQUAL" ELSE "OBSERVED_DIFFERENT"

CompareObservations(a, b) ==
    LET either == {a.status, b.status}
    IN  CASE "CRASH" \in either -> "OBSERVED_CRASH"
          [] "CRASH" \notin either /\ "TIMEOUT" \in either -> "OBSERVED_HANG"
          [] either \cap {"CRASH", "TIMEOUT"} = {} /\ "API_UNSUPPORTED" \in either -> "OBSERVED_UNSUPPORTED"
          [] OTHER -> IF a.status = b.status /\ a.bytes = b.bytes THEN "OBSERVED_EQUAL" ELSE "OBSERVED_DIFFERENT"

\* Mutant: equal observations are not a finding.
FindingClassForNoEqual(relation) ==
    CASE relation = "OBSERVED_CRASH" -> <<"crash">>
      [] relation = "OBSERVED_HANG" -> <<"hang">>
      [] relation = "OBSERVED_UNSUPPORTED" -> <<"unsupported">>
      [] OTHER -> <<>>

FindingClassFor(relation) ==
    CASE relation = "OBSERVED_CRASH" -> <<"crash">>
      [] relation = "OBSERVED_HANG" -> <<"hang">>
      [] relation = "OBSERVED_UNSUPPORTED" -> <<"unsupported">>
      [] relation = "OBSERVED_EQUAL" -> <<"malleability">>
      [] OTHER -> <<>>

FinalizeTrace ==
    /\ stage = "compare"
    /\ stage' = "done"
    /\ observed' = CompareObservations(baseline, mutated)
    /\ findings' = FindingClassFor(observed')
    /\ skipped' = (findings' = <<"unsupported">>)
    /\ failed' = (findings' \notin {<<>>, <<"unsupported">>})
    /\ UNCHANGED <<target, hooked, input, calls, baseline, mutated>>

FinalizeSetupFailure ==
    /\ stage = "setup failed"
    /\ stage' = "done"
    /\ observed' = "OBSERVED_SETUP_FAILED" /\ skipped' = TRUE
    /\ UNCHANGED <<target, hooked, input, calls, baseline, mutated, failed, findings>>

\* The trace is handed over and the process waits for its next input.
Return ==
    /\ stage = "done"
    /\ oracle' = "none" /\ op' = 0
    /\ stage' = "idle" /\ calls' = <<>> /\ baseline' = Default /\ mutated' = Default
    /\ observed' = "none" /\ skipped' = FALSE /\ failed' = FALSE /\ findings' = <<>>
    /\ UNCHANGED <<target, hooked>>

Next ==
    \/ TakeInput \/ UnknownOracle \/ SetupKeygen \/ SetupMake \/ SignNotSeedable \/ BaselineUnderTape
    \/ Baseline \/ Mutated \/ FinalizeTrace \/ FinalizeSetupFailure \/ Return

Spec == Init /\ [][Next]_vars

-----------------------------------------------------------------------------
Done == stage = "done"
Healthy == target.missing = {} /\ ~target.unseedable /\ \A i \in DOMAIN calls : ~calls[i].fault
Verdict == Done /\ observed \in {"OBSERVED_EQUAL", "OBSERVED_DIFFERENT"}
BaseCall == calls[baseline.call]
MutCall == calls[mutated.call]
Differing == {f \in DOMAIN BaseCall.args : BaseCall.args[f] # MutCall.args[f]}

\* The fields a pair of compared calls may differ in.  Encapsulation and
\* signing draw their own randomness unless a tape or the hook fixes it.
MayDiffer ==
    {FieldOf[oracle]} \cup
    (IF oracle \in SetupIsBaseline /\ ~(target.provider = "liboqs" /\ hooked) THEN {"rng"} ELSE {})

\* A verdict of equal or different is about two calls that were really made,
\* to the same API, on inputs that differ in the oracle's field only: never
\* about default observations, one call twice or a second changed field.
OneFieldExperiment ==
    Verdict =>
        /\ baseline.call # 0 /\ mutated.call # 0 /\ baseline.call # mutated.call
        /\ BaseCall.api = MutCall.api
        /\ Differing \subseteq MayDiffer

\* No false alarm: a target that does not ignore the oracle's field, whose
\* calls all work, is not reported once the mutation changes something.
SensitiveTargetIsCleared ==
    Verdict /\ Healthy /\ target.ignores # FieldOf[oracle] /\ FieldOf[oracle] \in Differing
        => findings = <<>>

\* No missed flaw: a target that ignores the oracle's field is reported when
\* nothing else distinguishes the compared calls.
IgnoredFieldIsReported ==
    Verdict /\ Healthy /\ target.ignores = FieldOf[oracle] /\ Differing \subseteq {FieldOf[oracle]}
            /\ ~(\E f \in Differing : MutCall.args[f] \in Resized)
        => findings = <<"malleability">>
=============================================================================
