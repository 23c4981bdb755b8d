----------------------------- MODULE MCInputPath -----------------------------
(* A pair file of four pairs and one with another contract for the first, the *)
(* inputs that tell the paths apart and every operation of a plan.           *)
EXTENDS InputPath

Adapter(project, implementation) == [project |-> project, implementation |-> implementation]
MCRegistry ==
    [i \in {"oqs768", "clean768", "oqs44", "clean44", "oqs128s", "clean128s"} |->
        CASE i \in {"oqs768", "clean768"} -> "ML-KEM-768"
          [] i \in {"oqs44", "clean44"} -> "ML-DSA-44"
          [] OTHER -> "SLH-DSA-SHA2-128s"]

Pair(id, algorithm, left, right, contract) ==
    [id |-> id, algorithm |-> algorithm, left |-> left, right |-> right, contract |-> contract]

KemA(contract) == Pair("a", "ML-KEM-768", Adapter("liboqs", "oqs768"), Adapter("pqclean", "clean768"), contract)
KemB == Pair("b", "ML-KEM-768", Adapter("pqclean", "clean768"), Adapter("liboqs", "oqs768"), {})
Dsa == Pair("c", "ML-DSA-44", Adapter("liboqs", "oqs44"), Adapter("pqclean", "clean44"),
            {"public_key_exchange", "signature_exchange"})
Slh == Pair("d", "SLH-DSA-SHA2-128s", Adapter("pqclean", "clean128s"), Adapter("liboqs", "oqs128s"), {})

PairFilesDef ==
    {<<KemA({"public_key_exchange", "ciphertext_exchange"}), KemB, Dsa, Slh>>,
     <<KemA({"ciphertext_exchange", "secret_key_exchange", "secret_key_format_compatible"})>>}

CampaignJob(primitive, algorithm, left, right, contract) ==
    Job(<<"pqcfuzz_eval", primitive>>, "fips", algorithm, <<>>, left, right, contract)
CampaignJobsDef ==
    [p \in {"kem", "sig"} |->
        IF p = "kem"
        THEN CampaignJob(p, "ML-KEM-768", Adapter("liboqs", "oqs768"), Adapter("pqclean", "clean768"),
                         {"public_key_exchange", "ciphertext_exchange"})
        ELSE CampaignJob(p, "ML-DSA-44", Adapter("liboqs", "oqs44"), Adapter("pqclean", "clean44"),
                         {"public_key_exchange", "signature_exchange"})]

Envelope(algorithm, oracle, plan) ==
    [format |-> "binary", whole |-> TRUE, version |-> 1, algorithm |-> algorithm, oracle |-> oracle,
     message |-> 0, extra |-> 2, plan |-> plan]

Algorithms == {"ML-KEM-768", "ML-DSA-44", "SLH-DSA-SHA2-128s"}

\* What parsers, dispatch and replay tell apart.
Headers ==
    {Envelope(a, o, <<>>) : a \in Algorithms,
        o \in {"unnamed", "mldsa_oid_field_mutation_sanity", "slhdsa_mutated_signature_negative",
               "mlkem_cross_exchange_roundtrip", "mldsa_cross_verify", "mldsa_local_sign_verify",
               "kem_decaps_sk"}}
    \cup {Envelope(a, "mlkem_tampered_ciphertext_implicit_rejection", <<>>) :
              a \in {"ML-KEM-512", "ML-KEM-1024", "unnamed", "zero"}}
    \cup {[Envelope("ML-KEM-768", "mlkem_local_roundtrip", <<>>) EXCEPT !.version = 2],
          [Envelope("ML-KEM-768", "mlkem_local_roundtrip", <<>>) EXCEPT !.whole = FALSE],
          [Envelope("ML-KEM-768", "mlkem_local_roundtrip", <<>>) EXCEPT !.format = "json"],
          [Envelope("ML-KEM-768", "zero", <<>>) EXCEPT !.extra = 0],
          [Envelope("ML-DSA-44", "mldsa_mutated_context_negative", <<5>>) EXCEPT !.extra = 0],
          [Envelope("ML-DSA-44", "mldsa_mutated_context_negative", <<4, 0, 254>>) EXCEPT !.extra = 300]}

\* Every operation, at the first position of the first region and at the last
\* one a plan reaches of the second.
PlansDef == {<<op, at, 255 * at, 1>> : op \in 0..11, at \in {0, 1}}
Sweep ==
    {Envelope("ML-KEM-768", "mlkem_tampered_ciphertext_implicit_rejection", plan) : plan \in PlansDef}
    \cup {Envelope("ML-DSA-44", o, plan) : o \in {"mldsa_mutated_signature_negative", "sig_verify_sig"},
                                          plan \in PlansDef}
    \cup {Envelope("SLH-DSA-SHA2-128s", "slhdsa_mutated_signature_negative", plan) : plan \in PlansDef}

InputsDef == Headers \cup Sweep
==============================================================================
