------------------------- MODULE MCMetamorphicExecutor -------------------------
(* Instances of MetamorphicExecutor for TLC. *)
EXTENDS MetamorphicExecutor

AllOracles == Known \cup {"unknown"}

Target(provider, missing, ignores, unseedable) ==
    [provider |-> provider, missing |-> missing, ignores |-> ignores, unseedable |-> unseedable]

\* A target that works or ignores one field, from either library.
WorkingTargets == {Target(p, {}, f, FALSE) : p \in {"liboqs", "pqclean"}, f \in Fields \cup {"nothing"}}

\* Targets that lack one API, every API (a null pointer) or seeded signing.
PartialTargets ==
    {Target("pqclean", m, "nothing", FALSE) : m \in {{a} : a \in Apis} \cup {Apis}}
    \cup {Target("pqclean", {}, "nothing", TRUE)}

AllTargets == WorkingTargets \cup PartialTargets
=============================================================================
