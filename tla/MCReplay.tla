------------------------------- MODULE MCReplay -------------------------------
(* Instances of Replay for TLC. *)
EXTENDS Replay

\* A passing trace, a metamorphic finding, a finding of the FIPS suite and the
\* finding of an unsupported oracle.
SomeTraces ==
    {NoFindingTrace,
     [findings |-> <<"malleability">>, finding_class |-> "malleability", statuses |-> {"OK"},
      expected |-> "EXPECT_DIFFERENT", observed |-> "OBSERVED_EQUAL", failed |-> TRUE],
     [findings |-> <<"potential_crypto_vuln", "confirmed_semantic_bug">>,
      finding_class |-> "none", statuses |-> {"OK", "REJECT"},
      expected |-> "none", observed |-> "none", failed |-> TRUE],
     [findings |-> <<"unsupported">>, finding_class |-> "unsupported",
      statuses |-> {"API_UNSUPPORTED"}, expected |-> "EXPECT_DIFFERENT",
      observed |-> "none", failed |-> FALSE]}
=============================================================================
