---------------------------- MODULE ClassifyTrace ----------------------------
(***************************************************************************)
(* The classifier of oracle traces                                         *)
(* (src/src/triage/classify_finding.py), shared by the replay driver and   *)
(* by the modules that check what the oracles report.  A trace is a record *)
(* of what the classifier looks at:                                        *)
(*   findings       the sequence of the finding classes in the trace       *)
(*   finding_class  the top-level class of a metamorphic trace, or "none"  *)
(*   statuses       the statuses of all adapter calls of all subtests      *)
(*   expected, observed  the relation of a metamorphic trace, or "none"    *)
(*   failed         some subtest did not pass                              *)
(***************************************************************************)
EXTENDS Naturals, Sequences

FindingClasses ==
    {"malleability", "non_malleability", "crash", "hang", "unsupported",
     "confirmed_semantic_bug", "potential_crypto_vuln", "memory_safety", "ub",
     "timeout", "api_policy_difference"}

\* classify_trace: the first finding with a known class decides, then the
\* top-level class, the call statuses, the relation and the subtests.
Classify(trace) ==
    LET known == {i \in DOMAIN trace.findings : trace.findings[i] \in FindingClasses}
        relation == <<trace.expected, trace.observed>>
    IN  CASE known # {} -> trace.findings[CHOOSE i \in known : \A k \in known : i <= k]
          [] known = {} /\ trace.finding_class \in FindingClasses -> trace.finding_class
          [] OTHER ->
               CASE "CRASH" \in trace.statuses -> "memory_safety"
                 [] "CRASH" \notin trace.statuses /\ "TIMEOUT" \in trace.statuses -> "hang"
                 [] OTHER ->
                      CASE relation = <<"EXPECT_DIFFERENT", "OBSERVED_EQUAL">> -> "malleability"
                        [] relation = <<"EXPECT_EQUAL", "OBSERVED_DIFFERENT">> -> "non_malleability"
                        [] OTHER -> IF trace.failed THEN "confirmed_semantic_bug" ELSE "none"
=============================================================================
