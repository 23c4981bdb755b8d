---------------------------- MODULE OracleExecutor ----------------------------
(***************************************************************************)
(* The differential oracles (src/src/oracles/oracle_executor.cc): what     *)
(* ExecuteKemOracle and ExecuteSigOracle do with one fuzzer input.         *)
(*                                                                         *)
(* An oracle is a sequence of subtests.  A subtest generates a key pair    *)
(* with one adapter (keyer), makes a ciphertext or a signature with        *)
(* another (maker) and uses it with a third (user): a decapsulation or a   *)
(* verification; a negative subtest mutates one field in between.  Each    *)
(* call is a step whose answer the adapter chooses; a call that fails ends *)
(* its subtest.  After the last subtest the failures become findings.      *)
(*                                                                         *)
(* Data is abstract.  A shared secret is compared with the one of the      *)
(* encapsulation, "same" or "other".  A mutated field is what the mutators *)
(* can make of it: "same" (a mutation without effect), "changed",          *)
(* "shorter", "longer" or "empty".  The two adapters of a pair agree on    *)
(* the algorithm and so on every length.                                   *)
(***************************************************************************)
EXTENDS ClassifyTrace, SequencesExt

CONSTANTS
    Oracles,      \* the oracles an input may name
    Contracts,    \* the exchange contracts of the pairs, sets of permissions
    CallStatuses  \* the statuses an adapter's call may return

Labels == {"left", "right"}
Apis == {"keygen", "encaps", "decaps", "sign", "verify"}
Permissions == {"public_key_exchange", "ciphertext_exchange", "secret_key_exchange",
                "secret_key_format_compatible", "signature_exchange"}
Statuses == {"OK", "REJECT", "INVALID_INPUT", "CRASH", "TIMEOUT", "API_UNSUPPORTED"}

KemOracles == {"kem_local", "kem_cross", "kem_tampered", "kem_bad_randomness"}
SigOracles == {"sig_local", "sig_cross", "sig_signature", "sig_message", "sig_context",
               "sig_oid", "sig_bad_randomness"}
BadRandomness == {"kem_bad_randomness", "sig_bad_randomness"}

ASSUME OraclesAssumption ==
    /\ Oracles \subseteq KemOracles \cup SigOracles
    /\ Contracts \subseteq SUBSET Permissions
    /\ CallStatuses \subseteq Statuses

VARIABLES
    oracle,    \* the oracle of the input
    contract,  \* the permissions of the pair
    missing,   \* adapters the registry does not know, null pointers
    noContext, \* adapters with supports_context = 0
    context,   \* the context string of the input: "empty" or "some"
    todo,      \* subtests still to finish; the first one is running
    calls,     \* calls of the running subtest
    field,     \* what became of the field the running subtest mutates, "intact" before
    subtests,  \* finished subtests
    findings,  \* the findings of the trace, a sequence of classes
    done,
    deviations \* history: how the adapters' answers departed from a correct one

config == <<oracle, contract, missing, noContext, context>>
vars == <<config, todo, calls, field, subtests, findings, done, deviations>>

-----------------------------------------------------------------------------
Subtest(kind, keyer, maker, user) ==
    [kind |-> kind, keyer |-> keyer, maker |-> maker, user |-> user]

NegativeKinds == {"tampered", "signature", "message", "context", "oid"}
KemKinds == {"roundtrip", "tampered"}

Both(kind) == <<Subtest(kind, "left", "left", "left"), Subtest(kind, "right", "right", "right")>>

\* Mutant: the contract's word on secret keys is not asked.
CrossDecapsAllowedMissingFormat(c) ==
    {"ciphertext_exchange", "secret_key_exchange"} \subseteq c

CrossEncapsAllowed(c) == {"public_key_exchange", "ciphertext_exchange"} \subseteq c
CrossDecapsAllowed(c) ==
    {"ciphertext_exchange", "secret_key_exchange", "secret_key_format_compatible"} \subseteq c
\* Mutant: the public key crosses with the signature.
CrossVerifyAllowedSignatureOnly(c) == "signature_exchange" \in c

CrossVerifyAllowed(c) == {"public_key_exchange", "signature_exchange"} \subseteq c

KemCross(c) ==
    (IF CrossEncapsAllowed(c)
     THEN <<Subtest("roundtrip", "left", "right", "left"), Subtest("roundtrip", "right", "left", "right")>>
     ELSE <<>>)
    \o
    (IF CrossDecapsAllowed(c)
     THEN <<Subtest("roundtrip", "left", "left", "right"), Subtest("roundtrip", "right", "right", "left")>>
     ELSE <<>>)

SigCross(c) ==
    IF CrossVerifyAllowed(c)
    THEN <<Subtest("sigverify", "left", "left", "right"), Subtest("sigverify", "right", "right", "left")>>
    ELSE <<>>

\* An oracle of another family falls through to the local subtests, as the
\* bad-randomness oracles do.
Plan(o, c) ==
    CASE o = "kem_cross" -> KemCross(c)
      [] o = "kem_tampered" -> <<Subtest("tampered", "left", "left", "left")>>
      [] o \in {"kem_local", "kem_bad_randomness"} -> Both("roundtrip")
      [] o = "sig_cross" -> SigCross(c)
      [] o = "sig_signature" -> <<Subtest("signature", "left", "left", "left")>>
      [] o = "sig_message" -> <<Subtest("message", "left", "left", "left")>>
      [] o = "sig_context" -> <<Subtest("context", "left", "left", "left")>>
      [] o = "sig_oid" -> <<Subtest("oid", "left", "left", "left")>>
      [] OTHER -> Both("sigverify")

Init ==
    /\ oracle \in Oracles
    /\ contract \in Contracts
    /\ missing \in SUBSET Labels
    /\ IF oracle \in KemOracles THEN noContext = {} /\ context = "empty"
       ELSE noContext \in SUBSET Labels /\ context \in {"empty", "some"}
    /\ todo = Plan(oracle, contract)
    /\ calls = <<>> /\ field = "intact"
    /\ subtests = <<>> /\ findings = <<>> /\ done = FALSE
    /\ deviations = {}

-----------------------------------------------------------------------------
(* The calls of the running subtest.                                       *)

Running == Head(todo)
IsKem == Running.kind \in KemKinds
\* The running subtest made exactly n calls and all succeeded.
Succeeded(n) == todo # <<>> /\ Len(calls) = n /\ \A i \in 1..n : calls[i].status = "OK"

\* How an answer departs from the one a correct adapter gives.
Departure(status, right) ==
    IF status = right THEN {}
    ELSE {CASE status = "CRASH" -> "crashed"
            [] status = "TIMEOUT" -> "hung"
            [] status = "API_UNSUPPORTED" -> "unsupported"
            [] status = "OK" -> "accepted"
            [] OTHER -> IF right = "OK" THEN "refused" ELSE "none"} \ {"none"}

\* What an adapter may answer: a null pointer or a missing function is
\* unsupported, and a context is refused by an adapter without contexts.
Answers(a, ctx) ==
    CASE a \in missing -> {"API_UNSUPPORTED"}
      [] a \notin missing /\ a \in noContext /\ ctx # "empty" -> {"API_UNSUPPORTED"}
      [] OTHER -> CallStatuses

\* uses: the material that goes into the call, with the adapter it comes from.
Record(a, api, status, out, uses) ==
    calls' = Append(calls, [adapter |-> a, api |-> api, status |-> status, out |-> out, uses |-> uses])

Keygen ==
    /\ Succeeded(0)
    /\ \E s \in Answers(Running.keyer, "empty") :
         /\ Record(Running.keyer, "keygen", s, "none", {})
         /\ deviations' = deviations \cup Departure(s, "OK")
    /\ UNCHANGED <<config, todo, field, subtests, findings, done>>

\* Encaps with the key owner's public key.
Encaps ==
    /\ Succeeded(1) /\ IsKem
    /\ \E s \in Answers(Running.maker, "empty") :
         /\ Record(Running.maker, "encaps", s, "none", {<<"public_key", Running.keyer>>})
         /\ deviations' = deviations \cup Departure(s, "OK")
    /\ UNCHANGED <<config, todo, field, subtests, findings, done>>

\* SigSign: a signature longer than sig_max_len becomes INVALID_INPUT.
Sign ==
    /\ Succeeded(1) /\ ~IsKem
    /\ LET right == IF context # "empty" /\ Running.maker \in noContext THEN "API_UNSUPPORTED" ELSE "OK"
       IN \E s \in Answers(Running.maker, context) \cup
                (IF "OK" \in Answers(Running.maker, context) THEN {"INVALID_INPUT"} ELSE {}) :
            /\ Record(Running.maker, "sign", s, "none", {<<"secret_key", Running.keyer>>})
            /\ deviations' = deviations \cup Departure(s, right)
    /\ UNCHANGED <<config, todo, field, subtests, findings, done>>

-----------------------------------------------------------------------------
(* What a mutation plan can make of a field: some operations (set a byte   *)
(* to the value it has, xor with zero) leave it as it was.  An empty       *)
(* buffer is given one byte first, which a truncation may take off again.  *)

MutatedCiphertexts == {"same", "changed", "shorter", "longer"}
MutatedSignatures == {"same", "changed", "shorter", "longer"}
MutatedMessages == {"same", "changed"}
MutatedContexts == IF context = "empty" THEN {"same", "changed"} ELSE {"same", "changed", "empty", "longer"}
\* The oid goes behind the context; truncated to nothing it changes nothing.
OidContexts == {"same", "changed", "longer"}

Mutations ==
    CASE Running.kind = "tampered" -> MutatedCiphertexts
      [] Running.kind = "signature" -> MutatedSignatures
      [] Running.kind = "message" -> MutatedMessages
      [] Running.kind = "context" -> MutatedContexts
      [] Running.kind = "oid" -> OidContexts

Mutate ==
    /\ Succeeded(2) /\ Running.kind \in NegativeKinds /\ field = "intact"
    /\ field' \in Mutations
    /\ UNCHANGED <<config, todo, calls, subtests, findings, done, deviations>>

ReadyToUse == Succeeded(2) /\ (Running.kind \in NegativeKinds => field # "intact")

DecapsUses == {<<"ciphertext", Running.maker>>, <<"secret_key", Running.keyer>>}
VerifyUses == {<<"signature", Running.maker>>, <<"public_key", Running.keyer>>}

Intact == field \in {"intact", "same"}

\* A correct decapsulation returns the secret of an intact ciphertext only.
DecapsDeparture(status, out) ==
    IF status # "OK" THEN Departure(status, IF Intact THEN "OK" ELSE "REJECT")
    ELSE CASE Intact /\ out = "other" -> {"refused"}
           [] ~Intact /\ out = "same" -> {"accepted"}
           [] OTHER -> {}

\* Decaps: a ciphertext of another length is refused before the adapter.
Decaps ==
    /\ ReadyToUse /\ IsKem
    /\ LET wrongLength == field \in {"shorter", "longer"} /\ Running.user \notin missing
       IN \E s \in IF wrongLength THEN {"INVALID_INPUT"} ELSE Answers(Running.user, "empty") :
          \E out \in IF s = "OK" THEN {"same", "other"} ELSE {"none"} :
            /\ Record(Running.user, "decaps", s, out, DecapsUses)
            /\ deviations' = deviations \cup DecapsDeparture(s, out)
    /\ UNCHANGED <<config, todo, field, subtests, findings, done>>

\* The context the verification is given.
VerifyContext ==
    CASE Running.kind = "context" /\ field # "same" -> IF field = "empty" THEN "empty" ELSE "some"
      [] Running.kind = "oid" /\ field # "same" -> "some"
      [] OTHER -> context

\* SigVerify: a context that is too long is refused before the adapter is
\* asked, and so is a signature beyond sig_max_len, which a longer one need not be.
VerifyAnswers ==
    LET asked == Answers(Running.user, VerifyContext)
    IN  IF field # "longer" \/ Running.user \in missing THEN asked
        ELSE {"INVALID_INPUT"} \cup (IF Running.kind = "signature" THEN asked ELSE {})

Verify ==
    /\ ReadyToUse /\ ~IsKem
    /\ LET right == CASE VerifyContext # "empty" /\ Running.user \in noContext -> "API_UNSUPPORTED"
                      [] OTHER -> IF Intact THEN "OK" ELSE "REJECT"
       IN \E s \in VerifyAnswers :
            /\ Record(Running.user, "verify", s, "none", VerifyUses)
            /\ deviations' = deviations \cup Departure(s, right)
    /\ UNCHANGED <<config, todo, field, subtests, findings, done>>

-----------------------------------------------------------------------------
(* The verdict on the running subtest.                                     *)

UnsupportedOnly(cs) == cs # <<>> /\ \A i \in DOMAIN cs : cs[i].status = "API_UNSUPPORTED"
Used(cs) == Len(cs) = 3

\* FinalizeRoundtrip, FinalizeVerifyTrue and SigNegative without a signature.
Skipped(cs) == UnsupportedOnly(cs)

RoundtripPassed(cs) == Used(cs) /\ cs[3].status = "OK" /\ cs[3].out = "same"
VerifyPassed(cs) == Used(cs) /\ cs[3].status = "OK"

\* Mutant: implicit rejection is not accepted as a rejection.
TamperedPassedRejectOnly(cs) == Used(cs) /\ cs[3].status \in {"REJECT", "INVALID_INPUT"}

\* Mutant: a subtest that made no ciphertext passes.
TamperedPassedUnconstructed(cs) == Used(cs) => cs[3].status # "OK" \/ cs[3].out = "other"

TamperedPassed(cs) ==
    /\ Used(cs)
    /\ \/ cs[3].status \in {"REJECT", "INVALID_INPUT"}
       \/ cs[3].status = "OK" /\ cs[3].out = "other"

\* Mutant: an unsupported context is never a legal outcome.
LegalNegativeStatusStrict(kind, s) == s \in {"REJECT", "INVALID_INPUT"}

LegalNegativeStatus(kind, s) ==
    \/ s \in {"REJECT", "INVALID_INPUT"}
    \/ s = "API_UNSUPPORTED" /\ kind \in {"context", "oid"} /\ "left" \in noContext \ missing

\* Mutant: a negative subtest without a signature counts as rejected.
NegativePassedUnconstructed(kind, cs) == Used(cs) => LegalNegativeStatus(kind, cs[3].status)

NegativePassed(kind, cs) == Used(cs) /\ LegalNegativeStatus(kind, cs[3].status)

Passed(kind, cs) ==
    CASE kind = "roundtrip" -> RoundtripPassed(cs)
      [] kind = "tampered" -> TamperedPassed(cs)
      [] kind = "sigverify" -> VerifyPassed(cs)
      [] OTHER -> NegativePassed(kind, cs)

\* TamperedCiphertext skips when only its last call is unsupported.
SkippedSubtest(kind, cs) ==
    Skipped(cs) \/ (kind = "tampered" /\ Used(cs) /\ cs[3].status = "API_UNSUPPORTED")

FinishSubtest ==
    /\ todo # <<>> /\ calls # <<>>
    /\ Used(calls) \/ calls[Len(calls)].status # "OK"
    /\ LET skipped == SkippedSubtest(Running.kind, calls)
       IN subtests' = Append(subtests,
            [kind |-> Running.kind, calls |-> calls, field |-> field, skipped |-> skipped,
             passed |-> skipped \/ Passed(Running.kind, calls)])
    /\ todo' = Tail(todo) /\ calls' = <<>> /\ field' = "intact"
    /\ UNCHANGED <<config, findings, done, deviations>>

-----------------------------------------------------------------------------
(* AddFindingsForFailures, AddSigFindingsForFailures.                      *)

CallFinding(status) ==
    CASE status = "CRASH" -> <<"memory_safety">>
      [] status = "TIMEOUT" -> <<"timeout">>
      [] OTHER -> <<>>

\* Mutant: a class the classifier does not know.
FailureClassRenamed(kind) == "semantic_mismatch"

FailureClass(kind) ==
    IF kind \in {"tampered", "signature", "message", "context"}
    THEN "potential_crypto_vuln" ELSE "confirmed_semantic_bug"

\* Mutant: only the failed subtests' own finding is reported, not their calls.
FindingsOfVerdictOnly(t) ==
    IF t.passed THEN <<>> ELSE <<FailureClass(t.kind)>>

FindingsOf(t) ==
    FlattenSeq([i \in DOMAIN t.calls |-> CallFinding(t.calls[i].status)])
    \o (IF t.passed THEN <<>> ELSE <<FailureClass(t.kind)>>)

Report ==
    /\ todo = <<>> /\ ~done
    /\ done' = TRUE
    /\ findings' = FlattenSeq([i \in DOMAIN subtests |-> FindingsOf(subtests[i])])
    /\ UNCHANGED <<config, todo, calls, field, subtests, deviations>>

Next == Keygen \/ Encaps \/ Sign \/ Mutate \/ Decaps \/ Verify \/ FinishSubtest \/ Report

Spec == Init /\ [][Next]_vars

-----------------------------------------------------------------------------
\* The trace as the classifier reads it; the fips suite states no relation.
Trace ==
    [findings |-> findings, finding_class |-> "none",
     statuses |-> UNION {{t.calls[i].status : i \in DOMAIN t.calls} : t \in {subtests[j] : j \in DOMAIN subtests}},
     expected |-> "none", observed |-> "none",
     failed |-> \E j \in DOMAIN subtests : ~subtests[j].passed]

CallType == [adapter : Labels, api : Apis, status : Statuses, out : {"none", "same", "other"},
             uses : SUBSET ({"public_key", "secret_key", "ciphertext", "signature"} \X Labels)]

\* Type invariant: at most three calls, none left over when all subtests are
\* finished, and no finding before the report.
TypeOK ==
    /\ oracle \in Oracles /\ contract \in Contracts
    /\ missing \subseteq Labels /\ noContext \subseteq Labels
    /\ context \in {"empty", "some"}
    /\ calls \in Seq(CallType) /\ Len(calls) <= 3
    /\ field \in {"intact", "same", "changed", "shorter", "longer", "empty"}
    /\ todo = <<>> => calls = <<>> /\ field = "intact"
    /\ done \in BOOLEAN /\ (~done => findings = <<>>)
    /\ deviations \subseteq {"crashed", "hung", "unsupported", "accepted", "refused"}

CallsMade == {calls[i] : i \in DOMAIN calls} \cup
             UNION {{t.calls[i] : i \in DOMAIN t.calls} : t \in {subtests[j] : j \in DOMAIN subtests}}

\* What the contract must permit before material reaches the other adapter.
NeededFor(material) ==
    CASE material = "public_key" -> {"public_key_exchange"}
      [] material = "ciphertext" -> {"ciphertext_exchange"}
      [] material = "signature" -> {"signature_exchange"}
      [] material = "secret_key" -> {"secret_key_exchange", "secret_key_format_compatible"}

\* No call ever hands an adapter a key, a ciphertext or a signature of the
\* other one unless the pair's exchange contract permits that kind of
\* material (ExecuteKemOracle, ExecuteSigOracle).
ExchangeWithinContract ==
    \A c \in CallsMade : \A u \in c.uses : u[2] # c.adapter => NeededFor(u[1]) \subseteq contract

EffectiveMutations == \A j \in DOMAIN subtests : subtests[j].field # "same"
ContextsUnderstood == context = "empty" \/ noContext = {}

\* No false alarm: if every call of a pair answered as a correct adapter
\* does, every mutation changed its field and a context was only given to
\* adapters that know contexts, then nothing is reported.
HonestPairIsCleared ==
    done /\ deviations = {} /\ EffectiveMutations /\ ContextsUnderstood => findings = <<>>

\* No silent pass: a crash, a hang, a refusal of what is valid and an
\* acceptance of what was changed each end up in the findings, under the
\* class a reader looks for.
DeviationIsReported ==
    done /\ EffectiveMutations =>
        LET reported == {findings[i] : i \in DOMAIN findings}
        IN  /\ "crashed" \in deviations => "memory_safety" \in reported
            /\ "hung" \in deviations => "timeout" \in reported
            /\ "refused" \in deviations => findings # <<>>
            /\ "accepted" \in deviations =>
                 (IF oracle = "sig_oid" THEN "confirmed_semantic_bug" ELSE "potential_crypto_vuln") \in reported

\* A subtest that passes without being skipped has really used its
\* ciphertext or signature: no early failure counts as a rejection.
PassNeedsEvidence ==
    \A j \in DOMAIN subtests : subtests[j].passed /\ ~subtests[j].skipped => Used(subtests[j].calls)

\* The Python classifier agrees with the native code: a trace without
\* findings is no finding, and one with findings gets the class the native
\* code put first (classify_trace; FindingWriter files by that class).
ClassifierAgrees ==
    done => Classify(Trace) = IF findings = <<>> THEN "none" ELSE Head(findings)

\* "api_unsupported_is_not_failure" (oracle_spec.cc) for the oracles that
\* state it: if all that happened is that an API was not supported, nothing
\* is reported.
ApiUnsupportedIsNotFailure ==
    done /\ oracle \in BadRandomness \cup {"sig_oid"} /\ EffectiveMutations /\
    (\A c \in CallsMade : c.status \in {"OK", "API_UNSUPPORTED"}) /\ deviations \subseteq {"unsupported"}
        => findings = <<>>
=============================================================================
