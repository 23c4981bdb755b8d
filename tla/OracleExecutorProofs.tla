------------------------- MODULE OracleExecutorProofs -------------------------
(***************************************************************************)
(* Proofs about OracleExecutor for every set of oracles and contracts and  *)
(* every answer of the adapters: the types; that no key, ciphertext or     *)
(* signature crosses to the other adapter against the pair's contract;     *)
(* that correct adapters are never reported and deviating ones always are; *)
(* and that the Python classifier reads the report as it was meant.        *)
(*                                                                         *)
(* The exchanges: the plan of an oracle holds only subtests whose          *)
(* exchanges the contract permits, a call hands over only what its subtest *)
(* says, and finished subtests keep their calls.                           *)
(*                                                                         *)
(* The verdicts: a call that departs from the correct answer ends its      *)
(* subtest, so every deviation is shown by a verdict, and without          *)
(* deviations every verdict is a silent one (Witnessed and Cleared).  What *)
(* the verdicts show, FlattenSeq gathers in the report.                    *)
(***************************************************************************)
EXTENDS OracleExecutor, Naturals, TLAPS, WellFoundedInduction

Kinds == KemKinds \cup {"sigverify", "signature", "message", "context", "oid"}
SubtestType == [kind : Kinds, keyer : Labels, maker : Labels, user : Labels]

\* The exchanges of a subtest that cross from one adapter to the other.
Crossing(t) ==
    IF t.kind \in KemKinds
    THEN {<<"public_key", t.keyer, t.maker>>, <<"ciphertext", t.maker, t.user>>,
          <<"secret_key", t.keyer, t.user>>}
    ELSE {<<"secret_key", t.keyer, t.maker>>, <<"signature", t.maker, t.user>>,
          <<"public_key", t.keyer, t.user>>}

PermittedSubtests(c) ==
    {t \in SubtestType : \A x \in Crossing(t) : x[2] # x[3] => NeededFor(x[1]) \subseteq c}

PermittedCalls(c) ==
    {r \in CallType : \A u \in r.uses : u[2] # r.adapter => NeededFor(u[1]) \subseteq c}

FieldStates == {"intact", "same", "changed", "shorter", "longer", "empty"}

FinishedType(c) ==
    [kind : Kinds, calls : Seq(PermittedCalls(c)), field : FieldStates,
     skipped : BOOLEAN, passed : BOOLEAN]

TypeInv ==
    /\ oracle \in Oracles /\ contract \in Contracts
    /\ missing \subseteq Labels /\ noContext \subseteq Labels
    /\ context \in {"empty", "some"}
    /\ todo \in Seq(PermittedSubtests(contract))
    /\ calls \in Seq(PermittedCalls(contract)) /\ Len(calls) <= 3
    /\ field \in FieldStates
    /\ todo = <<>> => calls = <<>> /\ field = "intact"
    /\ subtests \in Seq(FinishedType(contract))
    /\ done \in BOOLEAN /\ (~done => findings = <<>>)
    /\ deviations \subseteq {"crashed", "hung", "unsupported", "accepted", "refused"}

-----------------------------------------------------------------------------
(* The plans. *)

\* A subtest of one adapter alone exchanges nothing.
LEMMA LocalSubtestPermitted ==
    ASSUME NEW c, NEW k \in Kinds, NEW a \in Labels
    PROVE  Subtest(k, a, a, a) \in PermittedSubtests(c)
BY DEF Subtest, PermittedSubtests, SubtestType, Crossing

LEMMA CrossKemPermitted ==
    ASSUME NEW c, NEW a \in Labels, NEW b \in Labels
    PROVE  /\ CrossEncapsAllowed(c) => Subtest("roundtrip", a, b, a) \in PermittedSubtests(c)
           /\ CrossDecapsAllowed(c) => Subtest("roundtrip", a, a, b) \in PermittedSubtests(c)
<1> USE DEF Subtest, PermittedSubtests, SubtestType, Crossing, Kinds, KemKinds, NeededFor
<1>1. ASSUME CrossEncapsAllowed(c) PROVE Subtest("roundtrip", a, b, a) \in PermittedSubtests(c)
  BY <1>1 DEF CrossEncapsAllowed
<1>2. ASSUME CrossDecapsAllowed(c) PROVE Subtest("roundtrip", a, a, b) \in PermittedSubtests(c)
  BY <1>2 DEF CrossDecapsAllowed
<1> QED
  BY <1>1, <1>2

LEMMA CrossSigPermitted ==
    ASSUME NEW c, NEW a \in Labels, NEW b \in Labels, CrossVerifyAllowed(c)
    PROVE  Subtest("sigverify", a, a, b) \in PermittedSubtests(c)
BY DEF CrossVerifyAllowed, Subtest, PermittedSubtests, SubtestType, Crossing, Kinds, KemKinds,
       NeededFor

\* No plan holds a subtest with an exchange the contract forbids.
LEMMA PlanPermitted ==
    ASSUME NEW o, NEW c
    PROVE  Plan(o, c) \in Seq(PermittedSubtests(c))
<1> DEFINE P == PermittedSubtests(c)
<1>1. \A k \in Kinds : \A a \in Labels : Subtest(k, a, a, a) \in P
  BY LocalSubtestPermitted
<1>2. Both("roundtrip") \in Seq(P) /\ Both("sigverify") \in Seq(P)
  BY <1>1 DEF Both, Kinds, KemKinds, Labels
<1>3. KemCross(c) \in Seq(P)
  <2>1. CASE CrossEncapsAllowed(c) /\ CrossDecapsAllowed(c)
    <3>1. /\ Subtest("roundtrip", "left", "right", "left") \in P
          /\ Subtest("roundtrip", "right", "left", "right") \in P
          /\ Subtest("roundtrip", "left", "left", "right") \in P
          /\ Subtest("roundtrip", "right", "right", "left") \in P
      BY <2>1, CrossKemPermitted DEF Labels
    <3> QED
      BY <2>1, <3>1 DEF KemCross
  <2>2. CASE CrossEncapsAllowed(c) /\ ~CrossDecapsAllowed(c)
    <3>1. /\ Subtest("roundtrip", "left", "right", "left") \in P
          /\ Subtest("roundtrip", "right", "left", "right") \in P
      BY <2>2, CrossKemPermitted DEF Labels
    <3> QED
      BY <2>2, <3>1 DEF KemCross
  <2>3. CASE ~CrossEncapsAllowed(c) /\ CrossDecapsAllowed(c)
    <3>1. /\ Subtest("roundtrip", "left", "left", "right") \in P
          /\ Subtest("roundtrip", "right", "right", "left") \in P
      BY <2>3, CrossKemPermitted DEF Labels
    <3> QED
      BY <2>3, <3>1 DEF KemCross
  <2>4. CASE ~CrossEncapsAllowed(c) /\ ~CrossDecapsAllowed(c)
    BY <2>4 DEF KemCross
  <2> QED
    BY <2>1, <2>2, <2>3, <2>4
<1>4. SigCross(c) \in Seq(P)
  <2>1. CASE CrossVerifyAllowed(c)
    <3>1. /\ Subtest("sigverify", "left", "left", "right") \in P
          /\ Subtest("sigverify", "right", "right", "left") \in P
      BY <2>1, CrossSigPermitted DEF Labels
    <3> QED
      BY <2>1, <3>1 DEF SigCross
  <2> QED
    BY <2>1 DEF SigCross
<1>5. \A k \in Kinds : <<Subtest(k, "left", "left", "left")>> \in Seq(P)
  BY <1>1 DEF Labels
<1>6. {"tampered", "signature", "message", "context", "oid"} \subseteq Kinds
  BY DEF Kinds, KemKinds
<1> HIDE DEF P
<1> QED
  BY <1>2, <1>3, <1>4, <1>5, <1>6 DEF Plan, P

-----------------------------------------------------------------------------
(* Initial states and steps. *)

LEMMA TypeInit == Init => TypeInv
<1> SUFFICES ASSUME Init PROVE TypeInv
  OBVIOUS
<1>1. todo \in Seq(PermittedSubtests(contract))
  BY PlanPermitted DEF Init
<1>2. noContext \subseteq Labels /\ context \in {"empty", "some"} /\ missing \subseteq Labels
  BY DEF Init
<1>3. calls \in Seq(PermittedCalls(contract)) /\ Len(calls) <= 3 /\ calls = <<>>
  BY DEF Init
<1>4. subtests \in Seq(FinishedType(contract))
  BY DEF Init
<1>5. field = "intact" /\ done = FALSE /\ findings = <<>> /\ deviations = {}
      /\ oracle \in Oracles /\ contract \in Contracts
  BY DEF Init
<1> QED
  BY <1>1, <1>2, <1>3, <1>4, <1>5 DEF TypeInv, FieldStates

LEMMA AnswersAreStatuses ==
    ASSUME NEW a, NEW x
    PROVE  Answers(a, x) \subseteq Statuses
BY OraclesAssumption DEF Answers, Statuses

LEMMA DepartureType ==
    ASSUME NEW s, NEW r
    PROVE  Departure(s, r) \subseteq {"crashed", "hung", "unsupported", "accepted", "refused"}
BY DEF Departure

LEMMA DecapsDepartureType ==
    ASSUME NEW s, NEW o
    PROVE  DecapsDeparture(s, o) \subseteq {"crashed", "hung", "unsupported", "accepted", "refused"}
BY DepartureType DEF DecapsDeparture

\* A running subtest is one the contract permits.
LEMMA RunningPermitted ==
    ASSUME TypeInv, todo # <<>>
    PROVE  Running \in PermittedSubtests(contract)
BY DEF TypeInv, Running

\* A recorded call that hands over only permitted material keeps the calls typed.
LEMMA AppendCallType ==
    ASSUME TypeInv, Len(calls) <= 2, NEW r \in PermittedCalls(contract),
           calls' = Append(calls, r)
    PROVE  calls' \in Seq(PermittedCalls(contract)) /\ Len(calls') <= 3
BY DEF TypeInv

\* What a permitted subtest hands over is permitted.
LEMMA HandoverPermitted ==
    ASSUME NEW c, NEW t \in PermittedSubtests(c), NEW material, NEW from, NEW to,
           <<material, from, to>> \in Crossing(t), from # to
    PROVE  NeededFor(material) \subseteq c
<1>1. \A x \in Crossing(t) : x[2] # x[3] => NeededFor(x[1]) \subseteq c
  BY DEF PermittedSubtests
<1> QED
  BY <1>1

Materials == {"public_key", "secret_key", "ciphertext", "signature"}

LEMMA CallPermitted ==
    ASSUME NEW c, NEW a \in Labels, NEW api \in Apis, NEW s \in Statuses,
           NEW out \in {"none", "same", "other"}, NEW uses \in SUBSET (Materials \X Labels),
           \A u \in uses : u[2] # a => NeededFor(u[1]) \subseteq c
    PROVE  [adapter |-> a, api |-> api, status |-> s, out |-> out, uses |-> uses]
               \in PermittedCalls(c)
BY DEF PermittedCalls, CallType, Materials

LEMMA TypeStep == TypeInv /\ [Next]_vars => TypeInv'
<1> SUFFICES ASSUME TypeInv, [Next]_vars PROVE TypeInv'
  OBVIOUS
<1>1. CASE Keygen
  <2>1. todo # <<>> /\ Len(calls) = 0
    BY <1>1 DEF Keygen, Succeeded
  <2>2. PICK s \in Answers(Running.keyer, "empty") :
          /\ Record(Running.keyer, "keygen", s, "none", {})
          /\ deviations' = deviations \cup Departure(s, "OK")
    BY <1>1 DEF Keygen
  <2>3. [adapter |-> Running.keyer, api |-> "keygen", status |-> s, out |-> "none", uses |-> {}]
          \in PermittedCalls(contract)
    BY <2>1, RunningPermitted, AnswersAreStatuses
    DEF PermittedCalls, CallType, Apis, PermittedSubtests, SubtestType
  <2>4. calls' \in Seq(PermittedCalls(contract)) /\ Len(calls') <= 3
    BY <2>1, <2>2, <2>3, AppendCallType DEF Record
  <2> QED
    BY <1>1, <2>1, <2>2, <2>4, DepartureType DEF Keygen, TypeInv, config
<1>2. CASE Encaps
  <2>1. todo # <<>> /\ Len(calls) = 1 /\ Running.kind \in KemKinds
    BY <1>2 DEF Encaps, Succeeded, IsKem
  <2>2. PICK s \in Answers(Running.maker, "empty") :
          /\ Record(Running.maker, "encaps", s, "none", {<<"public_key", Running.keyer>>})
          /\ deviations' = deviations \cup Departure(s, "OK")
    BY <1>2 DEF Encaps
  <2>3. [adapter |-> Running.maker, api |-> "encaps", status |-> s, out |-> "none",
         uses |-> {<<"public_key", Running.keyer>>}] \in PermittedCalls(contract)
    <3>1. Running \in PermittedSubtests(contract) /\ Running \in SubtestType
      BY <2>1, RunningPermitted DEF PermittedSubtests
    <3>2. Running.keyer # Running.maker => NeededFor("public_key") \subseteq contract
      BY <2>1, <3>1, HandoverPermitted DEF Crossing
    <3>3. Running.maker \in Labels /\ Running.keyer \in Labels
      BY <3>1 DEF SubtestType
    <3> QED
      BY <3>2, <3>3, CallPermitted, AnswersAreStatuses DEF Apis, Materials
  <2>4. calls' \in Seq(PermittedCalls(contract)) /\ Len(calls') <= 3
    BY <2>1, <2>2, <2>3, AppendCallType DEF Record
  <2> QED
    BY <1>2, <2>1, <2>2, <2>4, DepartureType DEF Encaps, TypeInv, config
<1>3. CASE Sign
  <2>1. todo # <<>> /\ Len(calls) = 1 /\ Running.kind \notin KemKinds
    BY <1>3 DEF Sign, Succeeded, IsKem
  <2>2. PICK s \in Statuses, r \in Statuses :
          /\ Record(Running.maker, "sign", s, "none", {<<"secret_key", Running.keyer>>})
          /\ deviations' = deviations \cup Departure(s, r)
    BY <1>3, AnswersAreStatuses DEF Sign, Statuses
  <2>3. [adapter |-> Running.maker, api |-> "sign", status |-> s, out |-> "none",
         uses |-> {<<"secret_key", Running.keyer>>}] \in PermittedCalls(contract)
    <3>1. Running \in PermittedSubtests(contract) /\ Running \in SubtestType
      BY <2>1, RunningPermitted DEF PermittedSubtests
    <3>2. Running.keyer # Running.maker => NeededFor("secret_key") \subseteq contract
      BY <2>1, <3>1, HandoverPermitted DEF Crossing
    <3>3. Running.maker \in Labels /\ Running.keyer \in Labels
      BY <3>1 DEF SubtestType
    <3> QED
      BY <3>2, <3>3, CallPermitted DEF Apis, Materials
  <2>4. calls' \in Seq(PermittedCalls(contract)) /\ Len(calls') <= 3
    BY <2>1, <2>2, <2>3, AppendCallType DEF Record
  <2> QED
    BY <1>3, <2>1, <2>2, <2>4, DepartureType DEF Sign, TypeInv, config
<1>4. CASE Mutate
  <2>1. todo # <<>> /\ field' \in FieldStates
    BY <1>4 DEF Mutate, Succeeded, Mutations, NegativeKinds, MutatedCiphertexts,
       MutatedSignatures, MutatedMessages, MutatedContexts, OidContexts, FieldStates
  <2> QED
    BY <1>4, <2>1 DEF Mutate, TypeInv, config
<1>5. CASE Decaps
  <2>1. todo # <<>> /\ Len(calls) = 2 /\ Running.kind \in KemKinds
    BY <1>5 DEF Decaps, ReadyToUse, Succeeded, IsKem
  <2>2. PICK s \in Statuses, out \in {"none", "same", "other"} :
          /\ Record(Running.user, "decaps", s, out, DecapsUses)
          /\ deviations' = deviations \cup DecapsDeparture(s, out)
    BY <1>5, AnswersAreStatuses DEF Decaps, Statuses
  <2>3. [adapter |-> Running.user, api |-> "decaps", status |-> s, out |-> out,
         uses |-> DecapsUses] \in PermittedCalls(contract)
    <3>1. Running \in PermittedSubtests(contract) /\ Running \in SubtestType
      BY <2>1, RunningPermitted DEF PermittedSubtests
    <3>2. Running.maker # Running.user => NeededFor("ciphertext") \subseteq contract
      BY <2>1, <3>1, HandoverPermitted DEF Crossing
    <3>3. Running.keyer # Running.user => NeededFor("secret_key") \subseteq contract
      BY <2>1, <3>1, HandoverPermitted DEF Crossing
    <3>4. Running.maker \in Labels /\ Running.keyer \in Labels /\ Running.user \in Labels
      BY <3>1 DEF SubtestType
    <3>5. DecapsUses \in SUBSET (Materials \X Labels)
      BY <3>4 DEF DecapsUses, Materials
    <3>6. \A u \in DecapsUses : u[2] # Running.user => NeededFor(u[1]) \subseteq contract
      BY <3>2, <3>3 DEF DecapsUses
    <3> QED
      BY <3>4, <3>5, <3>6, CallPermitted DEF Apis
  <2>4. calls' \in Seq(PermittedCalls(contract)) /\ Len(calls') <= 3
    BY <2>1, <2>2, <2>3, AppendCallType DEF Record
  <2> QED
    BY <1>5, <2>1, <2>2, <2>4, DecapsDepartureType DEF Decaps, TypeInv, config
<1>6. CASE Verify
  <2>1. todo # <<>> /\ Len(calls) = 2 /\ Running.kind \notin KemKinds
    BY <1>6 DEF Verify, ReadyToUse, Succeeded, IsKem
  <2>2. PICK s \in Statuses, r \in Statuses :
          /\ Record(Running.user, "verify", s, "none", VerifyUses)
          /\ deviations' = deviations \cup Departure(s, r)
    BY <1>6, AnswersAreStatuses DEF Verify, VerifyAnswers, Statuses
  <2>3. [adapter |-> Running.user, api |-> "verify", status |-> s, out |-> "none",
         uses |-> VerifyUses] \in PermittedCalls(contract)
    <3>1. Running \in PermittedSubtests(contract) /\ Running \in SubtestType
      BY <2>1, RunningPermitted DEF PermittedSubtests
    <3>2. Running.maker # Running.user => NeededFor("signature") \subseteq contract
      BY <2>1, <3>1, HandoverPermitted DEF Crossing
    <3>3. Running.keyer # Running.user => NeededFor("public_key") \subseteq contract
      BY <2>1, <3>1, HandoverPermitted DEF Crossing
    <3>4. Running.maker \in Labels /\ Running.keyer \in Labels /\ Running.user \in Labels
      BY <3>1 DEF SubtestType
    <3>5. VerifyUses \in SUBSET (Materials \X Labels)
      BY <3>4 DEF VerifyUses, Materials
    <3>6. \A u \in VerifyUses : u[2] # Running.user => NeededFor(u[1]) \subseteq contract
      BY <3>2, <3>3 DEF VerifyUses
    <3> QED
      BY <3>4, <3>5, <3>6, CallPermitted DEF Apis
  <2>4. calls' \in Seq(PermittedCalls(contract)) /\ Len(calls') <= 3
    BY <2>1, <2>2, <2>3, AppendCallType DEF Record
  <2> QED
    BY <1>6, <2>1, <2>2, <2>4, DepartureType DEF Verify, TypeInv, config
<1>7. CASE FinishSubtest
  <2>1. todo # <<>> /\ todo' \in Seq(PermittedSubtests(contract))
    BY <1>7 DEF FinishSubtest, TypeInv
  <2>2. PICK k \in Kinds, b \in BOOLEAN, p \in BOOLEAN :
          subtests' = Append(subtests, [kind |-> k, calls |-> calls, field |-> field,
                                        skipped |-> b, passed |-> p])
    <3>1. Running.kind \in Kinds
      BY <2>1, RunningPermitted DEF PermittedSubtests, SubtestType
    <3>2. SkippedSubtest(Running.kind, calls) \in BOOLEAN
      BY DEF SkippedSubtest, Skipped, UnsupportedOnly
    <3>3. (SkippedSubtest(Running.kind, calls) \/ Passed(Running.kind, calls)) \in BOOLEAN
      OBVIOUS
    <3> QED
      BY <1>7, <3>1, <3>2, <3>3 DEF FinishSubtest
  <2>3. subtests' \in Seq(FinishedType(contract))
    BY <2>2 DEF FinishedType, TypeInv
  <2>4. calls' = <<>> /\ calls' \in Seq(PermittedCalls(contract)) /\ Len(calls') <= 3
    BY <1>7 DEF FinishSubtest
  <2> QED
    BY <1>7, <2>1, <2>3, <2>4 DEF FinishSubtest, TypeInv, config, FieldStates
<1>8. CASE Report
  BY <1>8 DEF Report, TypeInv, config
<1>9. CASE UNCHANGED vars
  BY <1>9 DEF vars, config, TypeInv
<1> QED
  BY <1>1, <1>2, <1>3, <1>4, <1>5, <1>6, <1>7, <1>8, <1>9 DEF Next

-----------------------------------------------------------------------------
\* The variables keep their types, for every set of oracles, contracts and
\* answers.
THEOREM TypeCorrect == Spec => []TypeOK
<1>1. TypeInv => TypeOK
  BY DEF TypeInv, TypeOK, FieldStates, PermittedCalls
<1> QED
  BY <1>1, TypeInit, TypeStep, PTL DEF Spec

\* No call of any oracle, whatever the adapters answer and the mutations do,
\* hands an adapter material of the other one against the pair's contract.
THEOREM ExchangesPermitted == Spec => []ExchangeWithinContract
<1>1. TypeInv => ExchangeWithinContract
  <2> SUFFICES ASSUME TypeInv, NEW c \in CallsMade PROVE c \in PermittedCalls(contract)
    BY DEF ExchangeWithinContract, PermittedCalls
  <2>1. CASE \E i \in DOMAIN calls : c = calls[i]
    BY <2>1 DEF TypeInv
  <2>2. CASE \E j \in DOMAIN subtests : \E i \in DOMAIN subtests[j].calls : c = subtests[j].calls[i]
    <3>1. PICK j \in DOMAIN subtests : \E i \in DOMAIN subtests[j].calls : c = subtests[j].calls[i]
      BY <2>2
    <3>2. subtests[j] \in FinishedType(contract)
      BY <3>1 DEF TypeInv
    <3>3. subtests[j].calls \in Seq(PermittedCalls(contract))
      BY <3>2 DEF FinishedType
    <3> QED
      BY <3>1, <3>3
  <2> QED
    BY <2>1, <2>2 DEF CallsMade
<1> QED
  BY <1>1, TypeInit, TypeStep, PTL DEF Spec

-----------------------------------------------------------------------------
(* A pass rests on evidence.  Only FinishSubtest decides, by the calls it  *)
(* puts on record, so that the two cannot come apart later.                *)

Evident(t) == t.passed /\ ~t.skipped => Used(t.calls)
AllEvident == \A j \in DOMAIN subtests : Evident(subtests[j])

\* Whatever the kind of a subtest, its verdict asks for the third call.
LEMMA PassedUsed ==
    ASSUME NEW kind, NEW cs, Passed(kind, cs)
    PROVE  Used(cs)
BY DEF Passed, RoundtripPassed, TamperedPassed, VerifyPassed, NegativePassed

LEMMA EvidentStep == TypeInv /\ AllEvident /\ [Next]_vars => AllEvident'
<1> SUFFICES ASSUME TypeInv, AllEvident, [Next]_vars PROVE AllEvident'
  OBVIOUS
<1>1. CASE FinishSubtest
  <2> DEFINE skipped == SkippedSubtest(Running.kind, calls)
             t == [kind |-> Running.kind, calls |-> calls, field |-> field, skipped |-> skipped,
                   passed |-> skipped \/ Passed(Running.kind, calls)]
  <2>1. subtests' = Append(subtests, t)
    BY <1>1 DEF FinishSubtest
  <2>2. t.passed = (t.skipped \/ Passed(Running.kind, t.calls))
    OBVIOUS
  <2>3. Evident(t)
    BY <2>2, PassedUsed DEF Evident
  <2> HIDE DEF t
  <2> QED
    BY <2>1, <2>3 DEF AllEvident, TypeInv
<1>2. CASE UNCHANGED subtests
  BY <1>2 DEF AllEvident
<1> QED
  BY <1>1, <1>2 DEF Next, Keygen, Encaps, Sign, Mutate, Decaps, Verify, Report, vars

\* No silent pass: whatever fails on the way, a subtest that passes without
\* being skipped has made all of its calls, up to the one that uses its
\* ciphertext or signature.
THEOREM EvidencePasses == Spec => []PassNeedsEvidence
<1>1. Init => AllEvident
  BY DEF Init, AllEvident
<1>2. AllEvident => PassNeedsEvidence
  BY DEF AllEvident, Evident, PassNeedsEvidence
<1> QED
  BY <1>1, <1>2, TypeInit, TypeStep, EvidentStep, PTL DEF Spec
-----------------------------------------------------------------------------
(* What deviations leave behind.  A subtest is over when it made all its   *)
(* calls or its last one failed, and FinishSubtest will record exactly the *)
(* verdict below.  So the verdicts are the finished subtests and the one   *)
(* that is over, and a call that departs from the correct answer is always *)
(* the last one of its subtest.                                            *)

Over(cs) == cs # <<>> /\ (Used(cs) \/ cs[Len(cs)].status # "OK")

Verdict(kind, cs, f) ==
    [kind |-> kind, calls |-> cs, field |-> f, skipped |-> SkippedSubtest(kind, cs),
     passed |-> SkippedSubtest(kind, cs) \/ Passed(kind, cs)]

Finished == {subtests[j] : j \in DOMAIN subtests}
Ended == todo # <<>> /\ Over(calls)
RunningVerdict == Verdict(Running.kind, calls, field)
Verdicts == Finished \cup (IF Ended THEN {RunningVerdict} ELSE {})

HasStatus(t, s) == \E i \in DOMAIN t.calls : t.calls[i].status = s

\* The kind changes a field, and it is the one the oracle is about.
NegativeOf(o, kind) == kind \in NegativeKinds /\ (kind = "oid" <=> o = "sig_oid")

\* What deviation d leaves in verdict t.
Witness(o, d, t) ==
    /\ d = "crashed" => HasStatus(t, "CRASH")
    /\ d = "hung" => HasStatus(t, "TIMEOUT")
    /\ d = "refused" => t.field = "same" \/ ~t.passed
    /\ d = "accepted" => ~t.passed /\ NegativeOf(o, t.kind)

Silent(t) == t.passed /\ ~HasStatus(t, "CRASH") /\ ~HasStatus(t, "TIMEOUT")

\* Verdict t fits deviations D: it shows each of them, and nothing else.
Fits(o, D, t) ==
    /\ \A d \in D : Witness(o, d, t)
    /\ D = {} /\ ContextsUnderstood => t.field = "same" \/ Silent(t)

Witnessed == \A d \in deviations : \E t \in Verdicts : Witness(oracle, d, t)
Cleared ==
    deviations = {} /\ ContextsUnderstood => \A t \in Verdicts : t.field = "same" \/ Silent(t)

\* A negative subtest is the left adapter's alone.
Planned(o, t) ==
    t.kind \in NegativeKinds =>
        NegativeOf(o, t.kind) /\ t.keyer = "left" /\ t.maker = "left" /\ t.user = "left"

Shape ==
    /\ \A i \in DOMAIN todo : Planned(oracle, todo[i])
    /\ todo # <<>> /\ field # "intact" => Running.kind \in NegativeKinds
    /\ todo # <<>> /\ calls # <<>> /\ calls[1].status = "OK" => Running.keyer \notin missing

Reported ==
    done => /\ todo = <<>>
            /\ findings = FlattenSeq([i \in DOMAIN subtests |-> FindingsOf(subtests[i])])

IInv == TypeInv /\ Shape /\ Witnessed /\ Cleared /\ Reported

-----------------------------------------------------------------------------
(* The verdicts on calls. *)

\* Calls of which only the last may have failed.
Progressed(cs, n, s) ==
    /\ cs \in Seq(CallType) /\ Len(cs) = n /\ cs[n].status = s
    /\ \A i \in 1..n-1 : cs[i].status = "OK"

LEMMA ProgressedStatuses ==
    ASSUME NEW cs, NEW n \in 1..3, NEW s \in Statuses, Progressed(cs, n, s), NEW kind, NEW f
    PROVE  /\ n = 3 \/ s # "OK" <=> Over(cs)
           /\ \A x : x # "OK" => (HasStatus(Verdict(kind, cs, f), x) <=> x = s)
           /\ s # "API_UNSUPPORTED" => ~Skipped(cs)
           /\ n = 3 => ~Skipped(cs)
<1>1. /\ cs # <<>> /\ DOMAIN cs = 1..n /\ n \in DOMAIN cs /\ Len(cs) = n /\ cs[n].status = s
      /\ \A i \in DOMAIN cs : i # n => cs[i].status = "OK"
  BY DEF Progressed
<1>2. n = 3 \/ s # "OK" <=> Over(cs)
  BY <1>1 DEF Over, Used
<1>3. \A x : x # "OK" => (HasStatus(Verdict(kind, cs, f), x) <=> x = s)
  <2>1. Verdict(kind, cs, f).calls = cs
    BY DEF Verdict
  <2> QED
    BY <1>1, <2>1 DEF HasStatus
<1>4. s # "API_UNSUPPORTED" => ~Skipped(cs)
  BY <1>1 DEF Skipped, UnsupportedOnly
<1>5. n = 3 => ~Skipped(cs)
  BY <1>1 DEF Skipped, UnsupportedOnly
<1> QED
  BY <1>2, <1>3, <1>4, <1>5

\* A subtest that fails on its way to the third call: whatever it failed
\* with shows, and what succeeded leaves nothing.
LEMMA EarlyVerdict ==
    ASSUME NEW cs, NEW n \in 1..2, NEW s \in Statuses, Progressed(cs, n, s),
           NEW kind, NEW f, NEW o
    PROVE  /\ Departure(s, "OK") = {} <=> ~Over(cs)
           /\ Over(cs) => Fits(o, Departure(s, "OK"), Verdict(kind, cs, f))
<1>1. /\ s # "OK" <=> Over(cs)
      /\ \A x : x # "OK" => (HasStatus(Verdict(kind, cs, f), x) <=> x = s)
      /\ s # "API_UNSUPPORTED" => ~Skipped(cs)
  BY ProgressedStatuses
<1>2. ~Used(cs)
  BY DEF Used, Progressed
<1>3. ~Passed(kind, cs)
  BY <1>2, PassedUsed
<1>4. s # "API_UNSUPPORTED" => ~Verdict(kind, cs, f).passed
  BY <1>1, <1>2, <1>3 DEF Verdict, SkippedSubtest
<1>5. Departure(s, "OK") = {} <=> s = "OK"
  BY DEF Departure, Statuses
<1>6. ASSUME NEW d \in Departure(s, "OK")
      PROVE  Witness(o, d, Verdict(kind, cs, f))
  <2>1. /\ d = "crashed" => s = "CRASH"
        /\ d = "hung" => s = "TIMEOUT"
        /\ d = "refused" => s # "API_UNSUPPORTED"
        /\ d # "accepted"
    BY <1>6 DEF Departure, Statuses
  <2> QED
    BY <1>1, <1>4, <2>1 DEF Witness
<1> QED
  BY <1>1, <1>5, <1>6 DEF Fits

\* The verdict on a decapsulation.
LEMMA DecapsVerdict ==
    ASSUME NEW cs, NEW s \in Statuses, Progressed(cs, 3, s), NEW kind \in KemKinds, NEW o,
           NEW out, cs[3].out = out, s = "OK" => out \in {"same", "other"},
           kind = "roundtrip" => field = "intact",
           kind = "tampered" => field # "intact" /\ NegativeOf(o, kind)
    PROVE  Fits(o, DecapsDeparture(s, out), Verdict(kind, cs, field))
<1> DEFINE t == Verdict(kind, cs, field)
<1>1. /\ \A x : x # "OK" => (HasStatus(t, x) <=> x = s)
      /\ ~Skipped(cs)
  BY ProgressedStatuses
<1>2. Used(cs) /\ cs[3].status = s
  BY DEF Progressed, Used
<1>3. t.field = field /\ t.kind = kind
      /\ t.passed = (SkippedSubtest(kind, cs) \/ Passed(kind, cs))
  BY DEF Verdict
<1>4. kind = "roundtrip" => (t.passed <=> s = "OK" /\ out = "same")
  BY <1>1, <1>2, <1>3 DEF SkippedSubtest, Passed, RoundtripPassed
<1>5. kind = "tampered" =>
        (t.passed <=> s \in {"REJECT", "INVALID_INPUT", "API_UNSUPPORTED"} \/ (s = "OK" /\ out = "other"))
  BY <1>1, <1>2, <1>3 DEF SkippedSubtest, Passed, TamperedPassed
<1>6. kind = "roundtrip" \/ kind = "tampered"
  BY DEF KemKinds
<1> HIDE DEF t
<1>7. ASSUME s # "OK" PROVE Fits(o, DecapsDeparture(s, out), t)
  <2>1. DecapsDeparture(s, out) = Departure(s, IF Intact THEN "OK" ELSE "REJECT")
    BY <1>7 DEF DecapsDeparture
  <2>2. ASSUME NEW d \in DecapsDeparture(s, out) PROVE Witness(o, d, t)
    <3>1. /\ d = "crashed" => s = "CRASH"
          /\ d = "hung" => s = "TIMEOUT"
          /\ d = "refused" => Intact /\ s # "API_UNSUPPORTED"
          /\ d # "accepted"
      BY <1>7, <2>1, <2>2 DEF Departure, Statuses
    <3>2. d = "refused" => field = "same" \/ ~t.passed
      BY <1>4, <1>5, <1>6, <1>7, <3>1 DEF Intact
    <3> QED
      BY <1>1, <1>3, <3>1, <3>2 DEF Witness
  <2>3. ASSUME DecapsDeparture(s, out) = {} PROVE Silent(t)
    <3>1. ~Intact /\ s \in {"REJECT", "INVALID_INPUT"}
      BY <1>7, <2>1, <2>3 DEF Departure, Statuses
    <3>2. t.passed
      BY <1>4, <1>5, <1>6, <3>1 DEF Intact
    <3> QED
      BY <1>1, <3>1, <3>2 DEF Silent
  <2> QED
    BY <1>3, <2>2, <2>3 DEF Fits
<1>8. ASSUME s = "OK" PROVE Fits(o, DecapsDeparture(s, out), t)
  <2>1. ASSUME NEW d \in DecapsDeparture(s, out) PROVE Witness(o, d, t)
    <3>1. \/ d = "refused" /\ Intact /\ out = "other"
          \/ d = "accepted" /\ ~Intact /\ out = "same"
      BY <1>8, <2>1 DEF DecapsDeparture
    <3>2. d = "refused" => field = "same" \/ ~t.passed
      BY <1>4, <1>6, <3>1 DEF Intact
    <3>3. d = "accepted" => ~t.passed /\ kind = "tampered"
      BY <1>4, <1>5, <1>6, <1>8, <3>1 DEF Intact
    <3> QED
      BY <1>3, <3>1, <3>2, <3>3 DEF Witness
  <2>2. ASSUME DecapsDeparture(s, out) = {} PROVE field = "same" \/ Silent(t)
    <3>1. \/ Intact /\ out = "same"
          \/ ~Intact /\ out = "other"
      BY <1>8, <2>2 DEF DecapsDeparture
    <3>2. field = "same" \/ t.passed
      BY <1>4, <1>5, <1>6, <1>8, <3>1 DEF Intact
    <3> QED
      BY <1>1, <1>8, <3>2 DEF Silent
  <2> QED
    BY <1>3, <2>1, <2>2 DEF Fits
<1> QED
  BY <1>7, <1>8 DEF t

\* What a verification has to answer.
VerifyRight(ctx, user) ==
    IF ctx # "empty" /\ user \in noContext THEN "API_UNSUPPORTED"
    ELSE IF Intact THEN "OK" ELSE "REJECT"

\* What holds of the third call of a signature subtest.
VerifySetting(o, kind, user, ctx, s) ==
    /\ kind \in {"sigverify", "signature", "message", "context", "oid"}
    /\ kind = "sigverify" => field = "intact"
    /\ kind # "sigverify" =>
         field # "intact" /\ NegativeOf(o, kind) /\ user = "left" /\ user \notin missing
    /\ ctx = context \/ (field # "same" /\ kind \in {"context", "oid"})
    /\ ctx # "empty" /\ user \in noContext => s \in {"API_UNSUPPORTED", "INVALID_INPUT"}

\* The verdict on a verification.
LEMMA VerifyVerdict ==
    ASSUME NEW cs, NEW s \in Statuses, Progressed(cs, 3, s),
           NEW o, NEW kind, NEW user, NEW ctx, VerifySetting(o, kind, user, ctx, s)
    PROVE  Fits(o, Departure(s, VerifyRight(ctx, user)), Verdict(kind, cs, field))
<1> DEFINE t == Verdict(kind, cs, field)
           right == VerifyRight(ctx, user)
<1> USE DEF VerifySetting
<1>1. /\ \A x : x # "OK" => (HasStatus(t, x) <=> x = s)
      /\ ~Skipped(cs)
  BY ProgressedStatuses
<1>2. Used(cs) /\ cs[3].status = s
  BY DEF Progressed, Used
<1>3. t.field = field /\ t.kind = kind /\ t.passed = (SkippedSubtest(kind, cs) \/ Passed(kind, cs))
  BY DEF Verdict
<1>4. kind = "sigverify" => (t.passed <=> s = "OK")
  BY <1>1, <1>2, <1>3 DEF SkippedSubtest, Passed, VerifyPassed
<1>5. kind # "sigverify" => (t.passed <=> LegalNegativeStatus(kind, s))
  BY <1>1, <1>2, <1>3 DEF SkippedSubtest, Passed, NegativePassed
<1> HIDE DEF t
<1>6. ASSUME NEW d \in Departure(s, right) PROVE Witness(o, d, t)
  <2>1. /\ d = "crashed" => s = "CRASH"
        /\ d = "hung" => s = "TIMEOUT"
        /\ d = "refused" => s \in {"REJECT", "INVALID_INPUT"} /\ right = "OK"
        /\ d = "accepted" => s = "OK" /\ right # "OK"
    BY <1>6 DEF Departure, Statuses
  <2>2. d = "refused" => field = "same" \/ ~t.passed
    <3>1. d = "refused" => Intact
      BY <2>1 DEF VerifyRight
    <3> QED
      BY <1>4, <2>1, <3>1 DEF Intact
  <2>3. d = "accepted" => ~t.passed /\ NegativeOf(o, kind)
    <3>1. d = "accepted" => ~Intact
      BY <2>1 DEF VerifyRight
    <3>2. d = "accepted" => kind # "sigverify"
      BY <3>1 DEF Intact
    <3> QED
      BY <1>5, <2>1, <3>2 DEF LegalNegativeStatus
  <2> QED
    BY <1>1, <1>3, <2>1, <2>2, <2>3 DEF Witness
<1>7. ASSUME Departure(s, right) = {}, ContextsUnderstood PROVE field = "same" \/ Silent(t)
  <2>1. \/ s = right
        \/ s \in {"REJECT", "INVALID_INPUT"} /\ right # "OK"
    BY <1>7 DEF Departure, Statuses
  <2>2. CASE right = "OK"
    <3>1. s = "OK" /\ Intact
      BY <2>1, <2>2 DEF VerifyRight
    <3> QED
      BY <1>1, <1>4, <3>1 DEF Silent, Intact
  <2>3. CASE right = "REJECT"
    <3>1. ~Intact /\ s \in {"REJECT", "INVALID_INPUT"}
      BY <2>1, <2>3 DEF VerifyRight
    <3>2. t.passed
      BY <1>5, <3>1 DEF Intact, LegalNegativeStatus
    <3> QED
      BY <1>1, <3>1, <3>2 DEF Silent
  <2>4. CASE right = "API_UNSUPPORTED"
    <3>1. ctx # "empty" /\ user \in noContext
      BY <2>4 DEF VerifyRight
    <3>2. kind \in {"context", "oid"} /\ field # "same"
      BY <1>7, <3>1 DEF ContextsUnderstood
    <3>3. s \in {"API_UNSUPPORTED", "INVALID_INPUT", "REJECT"}
      BY <2>1, <2>4
    <3>4. t.passed
      BY <1>5, <3>1, <3>2, <3>3 DEF LegalNegativeStatus
    <3> QED
      BY <1>1, <3>3, <3>4 DEF Silent
  <2> QED
    BY <2>2, <2>3, <2>4 DEF VerifyRight
<1>8. Fits(o, Departure(s, right), t)
  BY <1>3, <1>6, <1>7 DEF Fits
<1> QED
  BY <1>8 DEF t

-----------------------------------------------------------------------------
(* The plan and the adapters, step by step. *)

PlannedSubtests(o) == {t \in SubtestType : Planned(o, t)}

\* Every plan's negative subtests are of the kind its oracle is about.
LEMMA PlanPlanned ==
    ASSUME NEW o, NEW c
    PROVE  \A i \in DOMAIN Plan(o, c) : Planned(o, Plan(o, c)[i])
<1> DEFINE P == PlannedSubtests(o)
<1>1. \A k \in {"roundtrip", "sigverify"} : \A a, b, u \in Labels : Subtest(k, a, b, u) \in P
  BY DEF Subtest, PlannedSubtests, Planned, SubtestType, Kinds, KemKinds, NegativeKinds
<1>2. \A k \in NegativeKinds :
        (k = "oid" <=> o = "sig_oid") => Subtest(k, "left", "left", "left") \in P
  BY DEF Subtest, PlannedSubtests, Planned, NegativeOf, SubtestType, Kinds, KemKinds,
         NegativeKinds, Labels
<1>3. "left" \in Labels /\ "right" \in Labels
  BY DEF Labels
<1> HIDE DEF P
<1>4. Both("roundtrip") \in Seq(P) /\ Both("sigverify") \in Seq(P)
  BY <1>1, <1>3 DEF Both
<1>5. KemCross(c) \in Seq(P)
  <2> DEFINE encaps == IF CrossEncapsAllowed(c)
                       THEN <<Subtest("roundtrip", "left", "right", "left"),
                              Subtest("roundtrip", "right", "left", "right")>> ELSE <<>>
             decaps == IF CrossDecapsAllowed(c)
                       THEN <<Subtest("roundtrip", "left", "left", "right"),
                              Subtest("roundtrip", "right", "right", "left")>> ELSE <<>>
  <2>1. encaps \in Seq(P) /\ decaps \in Seq(P)
    BY <1>1, <1>3
  <2>2. KemCross(c) = encaps \o decaps
    BY DEF KemCross
  <2> HIDE DEF encaps, decaps
  <2> QED
    BY <2>1, <2>2
<1>6. SigCross(c) \in Seq(P)
  BY <1>1, <1>3 DEF SigCross
<1>7. /\ o = "kem_tampered" => <<Subtest("tampered", "left", "left", "left")>> \in Seq(P)
      /\ o = "sig_signature" => <<Subtest("signature", "left", "left", "left")>> \in Seq(P)
      /\ o = "sig_message" => <<Subtest("message", "left", "left", "left")>> \in Seq(P)
      /\ o = "sig_context" => <<Subtest("context", "left", "left", "left")>> \in Seq(P)
      /\ o = "sig_oid" => <<Subtest("oid", "left", "left", "left")>> \in Seq(P)
  BY <1>2 DEF NegativeKinds
<1>8. Plan(o, c) \in Seq(P)
  BY <1>4, <1>5, <1>6, <1>7 DEF Plan
<1> QED
  BY <1>8 DEF P, PlannedSubtests

\* An adapter that is not there never succeeds.
LEMMA MissingNeverSucceeds ==
    ASSUME NEW a, NEW x, "OK" \in Answers(a, x)
    PROVE  a \notin missing
BY DEF Answers

LEMMA ShapeStep == TypeInv /\ Shape /\ [Next]_vars => Shape'
<1> SUFFICES ASSUME TypeInv, Shape, [Next]_vars PROVE Shape'
  OBVIOUS
<1>1. CASE Keygen
  <2>1. PICK s \in Answers(Running.keyer, "empty") : Record(Running.keyer, "keygen", s, "none", {})
    BY <1>1 DEF Keygen
  <2>2. calls = <<>>
    BY <1>1 DEF Keygen, Succeeded, TypeInv
  <2>3. calls'[1].status = s
    BY <2>1, <2>2 DEF Record
  <2>4. calls'[1].status = "OK" => Running.keyer \notin missing
    BY <2>1, <2>3, MissingNeverSucceeds
  <2> QED
    BY <1>1, <2>4 DEF Keygen, Shape, Running, config
<1>2. CASE /\ UNCHANGED <<config, todo, field>> /\ calls # <<>>
           /\ \E r : calls' = Append(calls, r)
  <2>1. calls'[1] = calls[1]
    BY <1>2 DEF TypeInv
  <2> QED
    BY <1>2, <2>1 DEF Shape, Running, config
<1>3. CASE Mutate
  BY <1>3 DEF Mutate, Shape, Running, config
<1>4. CASE FinishSubtest
  <2>1. todo # <<>> /\ todo' = Tail(todo) /\ calls' = <<>> /\ field' = "intact" /\ UNCHANGED config
    BY <1>4 DEF FinishSubtest
  <2>2. \A i \in DOMAIN todo' : i + 1 \in DOMAIN todo /\ todo'[i] = todo[i + 1]
    BY <2>1 DEF TypeInv
  <2> QED
    BY <2>1, <2>2 DEF Shape, config
<1>5. CASE Report
  BY <1>5 DEF Report, Shape, Running, config
<1>6. CASE UNCHANGED vars
  BY <1>6 DEF vars, Shape, Running, config
<1>7. CASE Encaps
  <2>1. Len(calls) = 1 /\ calls # <<>>
    <3>1. Succeeded(1)
      BY <1>7 DEF Encaps
    <3>2. Len(calls) = 1
      BY <3>1 DEF Succeeded
    <3> QED
      BY <3>2
  <2>2. \E r : calls' = Append(calls, r)
    BY <1>7 DEF Encaps, Record
  <2> QED
    BY <1>2, <1>7, <2>1, <2>2 DEF Encaps
<1>8. CASE Sign
  <2>1. Len(calls) = 1 /\ calls # <<>>
    BY <1>8 DEF Sign, Succeeded, TypeInv
  <2>2. \E r : calls' = Append(calls, r)
    BY <1>8 DEF Sign, Record
  <2> QED
    BY <1>2, <1>8, <2>1, <2>2 DEF Sign
<1>9. CASE Decaps
  <2>1. Len(calls) = 2 /\ calls # <<>>
    BY <1>9 DEF Decaps, ReadyToUse, Succeeded, TypeInv
  <2>2. \E r : calls' = Append(calls, r)
    BY <1>9 DEF Decaps, Record
  <2> QED
    BY <1>2, <1>9, <2>1, <2>2 DEF Decaps
<1>10. CASE Verify
  <2>1. Len(calls) = 2 /\ calls # <<>>
    <3>1. Succeeded(2)
      BY <1>10 DEF Verify, ReadyToUse
    <3>2. Len(calls) = 2
      BY <3>1 DEF Succeeded
    <3> QED
      BY <3>2
  <2>2. \E r : calls' = Append(calls, r)
    BY <1>10 DEF Verify, Record
  <2> QED
    BY <1>2, <1>10, <2>1, <2>2 DEF Verify
<1> QED
  BY <1>1, <1>3, <1>4, <1>5, <1>6, <1>7, <1>8, <1>9, <1>10 DEF Next

-----------------------------------------------------------------------------
(* The verdicts, step by step. *)

Accounted == Witnessed /\ Cleared

\* While all calls succeed and one is left, the running subtest has no verdict.
LEMMA NotEnded ==
    ASSUME TypeInv, NEW n \in 0..2, Succeeded(n)
    PROVE  Verdicts = Finished
<1>1. ~Over(calls)
  <2>1. Len(calls) = n /\ \A i \in 1..n : calls[i].status = "OK"
    BY DEF Succeeded
  <2>2. calls # <<>> => calls[Len(calls)].status = "OK"
    BY <2>1 DEF TypeInv
  <2>3. ~Used(calls)
    BY <2>1 DEF Used
  <2> QED
    BY <2>2, <2>3 DEF Over
<1> QED
  BY <1>1 DEF Verdicts, Ended

\* A call with status s is recorded after n calls that succeeded.
LEMMA CallProgress ==
    ASSUME TypeInv, TypeInv', NEW n \in 0..2, Succeeded(n),
           NEW a, NEW api, NEW s, NEW out, NEW uses, Record(a, api, s, out, uses)
    PROVE  Progressed(calls', n + 1, s) /\ calls'[n + 1].out = out
<1>1. calls' = Append(calls, [adapter |-> a, api |-> api, status |-> s, out |-> out, uses |-> uses])
  BY DEF Record
<1>2. Len(calls) = n /\ \A i \in 1..n : calls[i].status = "OK"
  BY DEF Succeeded
<1>3. calls \in Seq(CallType) /\ calls' \in Seq(CallType)
  BY DEF TypeInv, PermittedCalls
<1>4. Len(calls') = n + 1 /\ calls'[n + 1].status = s /\ calls'[n + 1].out = out
  BY <1>1, <1>2, <1>3
<1>5. \A i \in 1..(n + 1) - 1 : i \in 1..n /\ calls'[i] = calls[i]
  BY <1>1, <1>2, <1>3
<1> QED
  BY <1>2, <1>3, <1>4, <1>5 DEF Progressed

\* The verdict after a call, in terms of the state before it.
LEMMA VerdictAfter ==
    ASSUME UNCHANGED <<config, todo, field>>
    PROVE  RunningVerdict' = Verdict(Running.kind, calls', field)
BY DEF config, RunningVerdict, Verdict, Running, SkippedSubtest, Skipped, UnsupportedOnly, Passed,
       RoundtripPassed, TamperedPassed, VerifyPassed, NegativePassed, LegalNegativeStatus, Used

\* If a call accounts for the deviations it adds, all are accounted for.
LEMMA CallAccounted ==
    ASSUME TypeInv, Accounted, NEW n \in 0..2, Succeeded(n),
           UNCHANGED <<config, todo, field, subtests, findings, done>>,
           NEW D, deviations' = deviations \cup D,
           D # {} => Over(calls'),
           Over(calls') => Fits(oracle, D, Verdict(Running.kind, calls', field))
    PROVE  Accounted'
<1> DEFINE t == Verdict(Running.kind, calls', field)
<1>1. Verdicts = Finished /\ todo # <<>>
  BY NotEnded DEF Succeeded
<1>2. Finished' = Finished
  BY DEF Finished
<1>3. Over(calls)' = Over(calls')
  BY DEF Over, Used
<1>4. RunningVerdict' = t
  BY VerdictAfter
<1>5. Verdicts' = Finished \cup (IF Over(calls') THEN {t} ELSE {})
  BY <1>1, <1>2, <1>3, <1>4 DEF Verdicts, Ended
<1>6. oracle' = oracle /\ ContextsUnderstood' = ContextsUnderstood
  BY DEF config, ContextsUnderstood
<1>8. ASSUME NEW d \in deviations' PROVE \E v \in Verdicts' : Witness(oracle, d, v)
  <2>1. CASE d \in deviations
    <3>1. \E v \in Finished : Witness(oracle, d, v)
      BY <1>1, <2>1 DEF Accounted, Witnessed
    <3> QED
      BY <1>5, <3>1
  <2>2. CASE d \in D
    BY <1>5, <2>2 DEF Fits
  <2> QED
    BY <1>8, <2>1, <2>2
<1>9. ASSUME deviations' = {}, ContextsUnderstood, NEW v \in Verdicts'
      PROVE  v.field = "same" \/ Silent(v)
  <2>1. deviations = {} /\ D = {}
    BY <1>9
  <2>2. CASE v \in Finished
    BY <1>1, <1>9, <2>1, <2>2 DEF Accounted, Cleared
  <2>3. CASE v = t /\ Over(calls')
    BY <1>9, <2>1, <2>3 DEF Fits
  <2> HIDE DEF t
  <2> QED
    BY <1>5, <1>9, <2>2, <2>3
<1>10. Witnessed'
  <2>1. \A d, v : Witness(oracle, d, v)' = Witness(oracle, d, v)
    BY <1>6 DEF Witness, HasStatus, NegativeOf
  <2> QED
    BY <1>6, <1>8, <2>1 DEF Witnessed, Witness, HasStatus, NegativeOf
<1>11. Cleared'
  BY <1>6, <1>9 DEF Cleared, Silent, HasStatus
<1> QED
  BY <1>10, <1>11 DEF Accounted

LEMMA RunningPlanned ==
    ASSUME TypeInv, Shape, NEW n \in 0..2, Succeeded(n)
    PROVE  Running \in SubtestType /\ Planned(oracle, Running) /\ todo # <<>>
<1>1. todo # <<>> /\ 1 \in DOMAIN todo /\ Running = todo[1]
  BY DEF Succeeded, TypeInv, Running
<1> QED
  BY <1>1, RunningPermitted DEF Shape, PermittedSubtests

LEMMA AccountedStep ==
    ASSUME TypeInv, TypeInv', Shape, Accounted, [Next]_vars
    PROVE  Accounted'
<1>1. CASE Keygen
  <2>1. PICK s \in Answers(Running.keyer, "empty") :
          /\ Record(Running.keyer, "keygen", s, "none", {})
          /\ deviations' = deviations \cup Departure(s, "OK")
    BY <1>1 DEF Keygen
  <2>2. Succeeded(0) /\ UNCHANGED <<config, todo, field, subtests, findings, done>>
    BY <1>1 DEF Keygen
  <2>3. s \in Statuses
    BY AnswersAreStatuses
  <2>4. Progressed(calls', 1, s)
    BY <2>1, <2>2, CallProgress
  <2>5. /\ Departure(s, "OK") = {} <=> ~Over(calls')
        /\ Over(calls') => Fits(oracle, Departure(s, "OK"), Verdict(Running.kind, calls', field))
    BY <2>3, <2>4, EarlyVerdict
  <2> QED
    BY <2>1, <2>2, <2>5, CallAccounted
<1>2. CASE Encaps
  <2>1. PICK s \in Answers(Running.maker, "empty") :
          /\ Record(Running.maker, "encaps", s, "none", {<<"public_key", Running.keyer>>})
          /\ deviations' = deviations \cup Departure(s, "OK")
    BY <1>2 DEF Encaps
  <2>2. Succeeded(1) /\ UNCHANGED <<config, todo, field, subtests, findings, done>>
    BY <1>2 DEF Encaps
  <2>3. s \in Statuses
    BY AnswersAreStatuses
  <2>4. Progressed(calls', 2, s)
    BY <2>1, <2>2, CallProgress
  <2>5. /\ Departure(s, "OK") = {} <=> ~Over(calls')
        /\ Over(calls') => Fits(oracle, Departure(s, "OK"), Verdict(Running.kind, calls', field))
    BY <2>3, <2>4, EarlyVerdict
  <2> QED
    BY <2>1, <2>2, <2>5, CallAccounted
<1>3. CASE Sign
  <2> DEFINE foreign == context # "empty" /\ Running.maker \in noContext
             right == IF foreign THEN "API_UNSUPPORTED" ELSE "OK"
  <2>1. PICK s \in Answers(Running.maker, context) \cup
               (IF "OK" \in Answers(Running.maker, context) THEN {"INVALID_INPUT"} ELSE {}) :
          /\ Record(Running.maker, "sign", s, "none", {<<"secret_key", Running.keyer>>})
          /\ deviations' = deviations \cup Departure(s, right)
    BY <1>3 DEF Sign
  <2>2. Succeeded(1) /\ UNCHANGED <<config, todo, field, subtests, findings, done>>
    BY <1>3 DEF Sign
  <2>3. s \in Statuses
    BY AnswersAreStatuses DEF Statuses
  <2>4. Progressed(calls', 2, s)
    BY <2>1, <2>2, CallProgress
  <2>5. CASE ~foreign
    <3>1. /\ Departure(s, right) = {} <=> ~Over(calls')
          /\ Over(calls') => Fits(oracle, Departure(s, right), Verdict(Running.kind, calls', field))
      BY <2>3, <2>4, <2>5, EarlyVerdict
    <3> HIDE DEF right, foreign
    <3> QED
      BY <2>1, <2>2, <3>1, CallAccounted
  <2>6. CASE foreign
    <3>1. s = "API_UNSUPPORTED"
      BY <2>1, <2>6 DEF Answers
    <3>2. Departure(s, right) = {}
      BY <2>6, <3>1 DEF Departure
    <3>3. ~ContextsUnderstood
      BY <2>6 DEF ContextsUnderstood
    <3> HIDE DEF right, foreign
    <3>4. Fits(oracle, Departure(s, right), Verdict(Running.kind, calls', field))
      BY <3>2, <3>3 DEF Fits
    <3> QED
      BY <2>1, <2>2, <3>2, <3>4, CallAccounted
  <2> QED
    BY <2>5, <2>6
<1>4. CASE Mutate
  <2>1. Succeeded(2) /\ UNCHANGED <<config, todo, calls, subtests, deviations>>
    BY <1>4 DEF Mutate
  <2>2. Verdicts = Finished /\ Finished' = Finished /\ ~Ended
    BY <2>1, NotEnded DEF Finished, Ended, Succeeded, Over, Used
  <2>3. ~Ended'
    BY <2>1, <2>2 DEF Ended, Over, Used
  <2>4. Verdicts' = Finished
    BY <2>2, <2>3 DEF Verdicts
  <2> QED
    BY <2>1, <2>2, <2>4 DEF Accounted, Witnessed, Cleared, Witness, HasStatus, NegativeOf, Silent,
       ContextsUnderstood, config
<1>5. CASE Decaps
  <2> DEFINE wrongLength == field \in {"shorter", "longer"} /\ Running.user \notin missing
  <2>1. PICK s \in IF wrongLength THEN {"INVALID_INPUT"} ELSE Answers(Running.user, "empty") :
          \E out \in IF s = "OK" THEN {"same", "other"} ELSE {"none"} :
            /\ Record(Running.user, "decaps", s, out, DecapsUses)
            /\ deviations' = deviations \cup DecapsDeparture(s, out)
    BY <1>5 DEF Decaps
  <2>2. PICK out \in IF s = "OK" THEN {"same", "other"} ELSE {"none"} :
            /\ Record(Running.user, "decaps", s, out, DecapsUses)
            /\ deviations' = deviations \cup DecapsDeparture(s, out)
    BY <2>1
  <2>3. Succeeded(2) /\ UNCHANGED <<config, todo, field, subtests, findings, done>>
    BY <1>5 DEF Decaps, ReadyToUse
  <2>4. s \in Statuses
    BY <2>1, AnswersAreStatuses DEF Statuses
  <2>5. Progressed(calls', 3, s) /\ calls'[3].out = out
    BY <2>2, <2>3, CallProgress
  <2>6. Running.kind \in KemKinds
    BY <1>5 DEF Decaps, IsKem
  <2>7. Planned(oracle, Running) /\ todo # <<>>
    BY <2>3, RunningPlanned
  <2>8. /\ Running.kind = "roundtrip" => field = "intact"
        /\ Running.kind = "tampered" => field # "intact" /\ NegativeOf(oracle, Running.kind)
    BY <1>5, <2>7 DEF Decaps, ReadyToUse, Shape, Planned, NegativeKinds
  <2>9. Over(calls')
    BY <2>4, <2>5, ProgressedStatuses
  <2> QED
    BY <2>2, <2>3, <2>4, <2>5, <2>6, <2>8, <2>9, DecapsVerdict, CallAccounted
<1>6. CASE Verify
  <2> DEFINE kind == Running.kind
             user == Running.user
             ctx == VerifyContext
             right == VerifyRight(ctx, user)
  <2>1. PICK s \in VerifyAnswers :
            /\ Record(user, "verify", s, "none", VerifyUses)
            /\ deviations' = deviations \cup Departure(s, right)
    BY <1>6 DEF Verify, VerifyRight
  <2>2. Succeeded(2) /\ UNCHANGED <<config, todo, field, subtests, findings, done>>
    BY <1>6 DEF Verify, ReadyToUse
  <2>3. s \in Statuses
    BY <2>1, AnswersAreStatuses DEF VerifyAnswers, Statuses
  <2>4. Progressed(calls', 3, s)
    BY <2>1, <2>2, CallProgress
  <2>5. Running \in SubtestType /\ Planned(oracle, Running) /\ todo # <<>>
    BY <2>2, RunningPlanned
  <2>6. kind \in {"sigverify", "signature", "message", "context", "oid"}
    BY <1>6, <2>5 DEF Verify, IsKem, SubtestType, Kinds
  <2>7. kind = "sigverify" => field = "intact"
    BY <2>5 DEF Shape, NegativeKinds
  <2>8. kind # "sigverify" => field # "intact" /\ NegativeOf(oracle, kind) /\ user = "left"
    BY <1>6, <2>5, <2>6 DEF Verify, ReadyToUse, Planned, NegativeKinds
  <2>9. kind # "sigverify" => user \notin missing
    <3>1. calls # <<>> /\ calls[1].status = "OK"
      BY <2>2 DEF Succeeded
    <3>2. Running.keyer \notin missing
      BY <2>5, <3>1 DEF Shape
    <3> QED
      BY <2>5, <2>6, <3>2 DEF Planned, NegativeKinds
  <2>10. ctx = context \/ (field # "same" /\ kind \in {"context", "oid"})
    BY DEF VerifyContext
  <2>11. ctx # "empty" /\ user \in noContext => s \in {"API_UNSUPPORTED", "INVALID_INPUT"}
    BY <2>1 DEF VerifyAnswers, Answers
  <2>12. Over(calls')
    BY <2>3, <2>4, ProgressedStatuses
  <2> HIDE DEF kind, user, ctx
  <2>13. VerifySetting(oracle, kind, user, ctx, s)
    BY <2>6, <2>7, <2>8, <2>9, <2>10, <2>11 DEF VerifySetting
  <2>14. Fits(oracle, Departure(s, right), Verdict(kind, calls', field))
    BY <2>3, <2>4, <2>13, VerifyVerdict
  <2> HIDE DEF right
  <2> QED
    BY <2>1, <2>2, <2>12, <2>14, CallAccounted DEF kind
<1>7. CASE FinishSubtest
  <2>1. Ended
    BY <1>7 DEF FinishSubtest, Ended, Over
  <2>2. subtests' = Append(subtests, RunningVerdict)
    BY <1>7 DEF FinishSubtest, RunningVerdict, Verdict
  <2>3. Finished' = Finished \cup {RunningVerdict}
    <3> DEFINE n == Len(subtests)
    <3>1. DOMAIN subtests = 1..n /\ DOMAIN subtests' = 1..n+1 /\ n \in Nat
      BY <2>2 DEF TypeInv
    <3>2. subtests'[n + 1] = RunningVerdict /\ \A j \in 1..n : subtests'[j] = subtests[j]
      BY <2>2 DEF TypeInv
    <3> HIDE DEF n
    <3> QED
      BY <3>1, <3>2 DEF Finished
  <2>4. ~Ended'
    BY <1>7 DEF FinishSubtest, Ended, Over
  <2>5. Verdicts' = Verdicts
    BY <2>1, <2>3, <2>4 DEF Verdicts
  <2> QED
    BY <1>7, <2>5 DEF FinishSubtest, Accounted, Witnessed, Cleared, Witness, HasStatus, NegativeOf,
       Silent, ContextsUnderstood, config
<1>8. CASE UNCHANGED <<config, todo, calls, field, subtests, deviations>>
  <2>1. Verdicts' = Verdicts
    <3>1. RunningVerdict' = RunningVerdict
      BY <1>8, VerdictAfter DEF RunningVerdict
    <3> QED
      BY <1>8, <3>1 DEF Verdicts, Finished, Ended, Over, Used
  <2> QED
    BY <1>8, <2>1 DEF Accounted, Witnessed, Cleared, Witness, HasStatus, NegativeOf, Silent,
       ContextsUnderstood, config
<1> QED
  BY <1>1, <1>2, <1>3, <1>4, <1>5, <1>6, <1>7, <1>8 DEF Next, Report, vars

LEMMA ReportedStep == TypeInv /\ Reported /\ [Next]_vars => Reported'
<1> SUFFICES ASSUME TypeInv, Reported, [Next]_vars PROVE Reported'
  OBVIOUS
<1>1. CASE Report
  <2>1. \A t : FindingsOf(t)' = FindingsOf(t)
    BY DEF FindingsOf, CallFinding, FailureClass
  <2> QED
    BY <1>1, <2>1 DEF Report, Reported, FindingsOf, CallFinding, FailureClass
<1>2. CASE UNCHANGED <<todo, subtests, findings, done>>
  BY <1>2 DEF Reported, FindingsOf, CallFinding, FailureClass
<1>3. CASE todo # <<>> /\ done' = done
  BY <1>3 DEF Reported
<1> QED
  BY <1>1, <1>2, <1>3 DEF Next, Keygen, Encaps, Sign, Mutate, Decaps, Verify, FinishSubtest, vars,
     Succeeded, ReadyToUse

\* The invariant of the verdicts, from the initial states on.
LEMMA IInvariant == Spec => []IInv
<1>1. Init => IInv
  <2> SUFFICES ASSUME Init PROVE IInv
    OBVIOUS
  <2>1. Verdicts = {} /\ deviations = {}
    BY DEF Init, Verdicts, Finished, Ended, Over
  <2>2. Shape
    BY PlanPlanned DEF Init, Shape
  <2>3. Witnessed /\ Cleared
    BY <2>1 DEF Witnessed, Cleared
  <2>4. Reported
    BY DEF Init, Reported
  <2> QED
    BY <2>2, <2>3, <2>4, TypeInit DEF IInv
<1>2. IInv /\ [Next]_vars => IInv'
  BY TypeStep, ShapeStep, AccountedStep, ReportedStep DEF IInv, Accounted
<1> QED
  BY <1>1, <1>2, PTL DEF Spec

-----------------------------------------------------------------------------
(* FlattenSeq, by induction over the sequence of sequences.  The library's *)
(* induction theorems take an operator as a parameter; a set of naturals   *)
(* and a least element outside of it do the same.                          *)

LEMMA LeastNat ==
    ASSUME NEW T, T \subseteq Nat, T # {}
    PROVE  \E n \in T : \A m \in T : ~(m < n)
<1> DEFINE R == {p \in Nat \X Nat : p[1] < p[2]}
<1>1. IsWellFoundedOn(R, Nat)
  BY NatLessThanWellFounded DEF OpToRel
<1>2. \E x \in T : \A y \in T : ~(<<y, x>> \in R)
  <2> HIDE DEF R
  <2> QED BY <1>1, WFMin
<1>3. \A x \in T : \A y \in T : ~(<<y, x>> \in R) => ~(y < x)
  OBVIOUS
<1> QED
  BY <1>2, <1>3

\* A set of naturals that holds 0 and the successor of what it holds is Nat.
LEMMA SetInduction ==
    ASSUME NEW T, 0 \in T, \A n \in Nat : n \in T => n + 1 \in T
    PROVE  Nat \subseteq T
<1> SUFFICES ASSUME Nat \ T # {} PROVE FALSE
  OBVIOUS
<1>1. PICK n \in Nat \ T : \A m \in Nat \ T : ~(m < n)
  BY LeastNat
<1>2. n # 0 /\ n - 1 \in Nat /\ n - 1 < n
  BY <1>1
<1> QED
  BY <1>1, <1>2

\* f holds the prefixes of ss, flattened.
FlatPrefixes(f, ss, n) == f = [i \in 1..n |-> IF i = 1 THEN ss[i] ELSE f[i-1] \o ss[i]]

LEMMA PrefixesExist ==
    ASSUME NEW ss
    PROVE  \A n \in Nat : \E f : FlatPrefixes(f, ss, n)
<1> DEFINE T == {n \in Nat : \E f : FlatPrefixes(f, ss, n)}
<1>1. 0 \in T
  <2> DEFINE e == [i \in 1..0 |-> ss[i]]
  <2>1. FlatPrefixes(e, ss, 0)
    BY DEF FlatPrefixes
  <2> QED
    BY <2>1
<1>2. ASSUME NEW n \in Nat, n \in T PROVE n + 1 \in T
  <2>1. PICK f : FlatPrefixes(f, ss, n)
    BY <1>2
  <2> DEFINE g == [i \in 1..n+1 |-> IF i <= n THEN f[i] ELSE IF i = 1 THEN ss[i] ELSE f[i-1] \o ss[i]]
  <2>2. ASSUME NEW i \in 1..n+1 PROVE g[i] = IF i = 1 THEN ss[i] ELSE g[i-1] \o ss[i]
    <3>1. CASE i <= n
      <4>1. i \in 1..n /\ (i # 1 => i - 1 \in 1..n+1 /\ i - 1 <= n)
        BY <3>1
      <4>2. g[i] = f[i] /\ (i # 1 => g[i-1] = f[i-1])
        BY <4>1
      <4> QED
        BY <2>1, <4>1, <4>2 DEF FlatPrefixes
    <3>2. CASE i = n + 1
      <4>1. ~(i <= n) /\ (i # 1 => i - 1 \in 1..n+1 /\ i - 1 <= n)
        BY <3>2
      <4> QED
        BY <4>1
    <3> QED
      BY <3>1, <3>2
  <2>3. FlatPrefixes(g, ss, n + 1)
    BY <2>2 DEF FlatPrefixes
  <2> QED
    BY <2>3
<1> HIDE DEF T
<1>3. Nat \subseteq T
  BY <1>1, <1>2, SetInduction
<1> QED
  BY <1>3 DEF T

LEMMA FlattenIsPrefix ==
    ASSUME NEW S, NEW ss \in Seq(S), Len(ss) # 0
    PROVE  \E f : FlatPrefixes(f, ss, Len(ss)) /\ FlattenSeq(ss) = f[Len(ss)]
<1>1. \E f : FlatPrefixes(f, ss, Len(ss))
  BY PrefixesExist
<1> DEFINE g == CHOOSE f : FlatPrefixes(f, ss, Len(ss))
<1>2. FlatPrefixes(g, ss, Len(ss))
  BY <1>1
<1>3. FlattenSeq(ss) = g[Len(ss)]
  BY DEF FlattenSeq, FlatPrefixes
<1> QED
  BY <1>2, <1>3

Elements(s) == {s[k] : k \in 1..Len(s)}

\* s is a sequence over S that holds all of the first n sequences of ss, and
\* nothing if those are empty.
Gathers(s, S, ss, n) ==
    /\ s \in Seq(S)
    /\ \A i \in 1..n : Elements(ss[i]) \subseteq Elements(s)
    /\ (\A i \in 1..n : ss[i] = <<>>) => s = <<>>

LEMMA ConcatElements ==
    ASSUME NEW S, NEW s \in Seq(S), NEW t \in Seq(S)
    PROVE  /\ s \o t \in Seq(S)
           /\ Elements(s) \subseteq Elements(s \o t) /\ Elements(t) \subseteq Elements(s \o t)
           /\ s = <<>> /\ t = <<>> => s \o t = <<>>
<1>1. /\ s \o t \in Seq(S) /\ Len(s \o t) = Len(s) + Len(t)
      /\ Len(s) \in Nat /\ Len(t) \in Nat
      /\ \A k \in 1..Len(s) : (s \o t)[k] = s[k]
      /\ \A k \in 1..Len(t) : (s \o t)[Len(s) + k] = t[k]
  OBVIOUS
<1>2. ASSUME NEW k \in 1..Len(s) PROVE s[k] \in Elements(s \o t)
  <2>1. k \in 1..Len(s \o t) /\ (s \o t)[k] = s[k]
    BY <1>1
  <2> QED
    BY <2>1 DEF Elements
<1>3. ASSUME NEW k \in 1..Len(t) PROVE t[k] \in Elements(s \o t)
  <2>1. Len(s) + k \in 1..Len(s \o t) /\ (s \o t)[Len(s) + k] = t[k]
    BY <1>1
  <2> QED
    BY <2>1 DEF Elements
<1>4. s = <<>> /\ t = <<>> => s \o t = <<>>
  BY <1>1
<1> QED
  BY <1>1, <1>2, <1>3, <1>4 DEF Elements

LEMMA PrefixGathers ==
    ASSUME NEW S, NEW ss \in Seq(Seq(S)), NEW f, FlatPrefixes(f, ss, Len(ss)), Len(ss) # 0
    PROVE  Gathers(f[Len(ss)], S, ss, Len(ss))
<1> DEFINE n == Len(ss)
<1>1. n \in Nat /\ n # 0 /\ \A i \in 1..n : ss[i] \in Seq(S)
  OBVIOUS
<1>2. \A i \in 1..n : f[i] = IF i = 1 THEN ss[i] ELSE f[i-1] \o ss[i]
  BY DEF FlatPrefixes
<1> HIDE DEF n
<1> DEFINE T == {m \in Nat : m + 1 <= n => Gathers(f[m + 1], S, ss, m + 1)}
<1>3. 0 \in T
  <2>1. f[1] = ss[1] /\ ss[1] \in Seq(S) /\ \A i \in 1..1 : i = 1
    BY <1>1, <1>2
  <2> QED
    BY <2>1 DEF Gathers
<1>4. ASSUME NEW m \in Nat, m \in T PROVE m + 1 \in T
  <2> SUFFICES ASSUME m + 2 <= n PROVE Gathers(f[m + 2], S, ss, m + 2)
    BY DEF T
  <2>1. Gathers(f[m + 1], S, ss, m + 1)
    BY <1>1, <1>4
  <2>2. f[m + 2] = f[m + 1] \o ss[m + 2] /\ ss[m + 2] \in Seq(S)
    <3>1. m + 2 \in 1..n /\ m + 2 # 1 /\ (m + 2) - 1 = m + 1
      BY <1>1
    <3> QED
      BY <1>1, <1>2, <3>1
  <2> DEFINE s == f[m + 1]
             t == ss[m + 2]
  <2>3. s \in Seq(S) /\ t \in Seq(S) /\ f[m + 2] = s \o t
    BY <2>1, <2>2 DEF Gathers
  <2>4. /\ f[m + 2] \in Seq(S) /\ Elements(s) \subseteq Elements(f[m + 2])
        /\ Elements(t) \subseteq Elements(f[m + 2])
        /\ s = <<>> /\ t = <<>> => f[m + 2] = <<>>
    <3> HIDE DEF s, t
    <3> QED
      BY <2>3, ConcatElements
  <2>5. \A i \in 1..m+2 : i \in 1..m+1 \/ i = m + 2
    OBVIOUS
  <2>6. \A i \in 1..m+2 : Elements(ss[i]) \subseteq Elements(f[m + 2])
    BY <2>1, <2>4, <2>5 DEF Gathers
  <2>7. ASSUME \A i \in 1..m+2 : ss[i] = <<>> PROVE f[m + 2] = <<>>
    <3>1. m + 2 \in 1..m+2 /\ \A i \in 1..m+1 : i \in 1..m+2
      OBVIOUS
    <3>2. s = <<>> /\ t = <<>>
      BY <2>1, <2>7, <3>1 DEF Gathers
    <3> QED
      BY <2>4, <3>2
  <2> QED
    BY <2>4, <2>6, <2>7 DEF Gathers
<1> HIDE DEF T
<1>5. n - 1 \in T
  <2>1. Nat \subseteq T
    BY <1>3, <1>4, SetInduction
  <2> QED
    BY <1>1, <2>1
<1> QED
  BY <1>1, <1>5 DEF T, n

LEMMA FlattenGathers ==
    ASSUME NEW S, NEW ss \in Seq(Seq(S))
    PROVE  Gathers(FlattenSeq(ss), S, ss, Len(ss))
<1>1. CASE Len(ss) = 0
  <2>1. FlattenSeq(ss) = <<>>
    BY <1>1 DEF FlattenSeq
  <2> QED
    BY <1>1, <2>1 DEF Gathers
<1>2. CASE Len(ss) # 0
  BY <1>2, FlattenIsPrefix, PrefixGathers
<1> QED
  BY <1>1, <1>2

-----------------------------------------------------------------------------
(* From verdicts to findings. *)

LEMMA CallFindingType ==
    ASSUME NEW s
    PROVE  /\ CallFinding(s) \in Seq(FindingClasses)
           /\ s = "CRASH" => Elements(CallFinding(s)) = {"memory_safety"}
           /\ s = "TIMEOUT" => Elements(CallFinding(s)) = {"timeout"}
           /\ CallFinding(s) = <<>> <=> s \notin {"CRASH", "TIMEOUT"}
<1>1. "memory_safety" \in FindingClasses /\ "timeout" \in FindingClasses
  BY DEF FindingClasses
<1>2. Elements(<<"memory_safety">>) = {"memory_safety"} /\ Elements(<<"timeout">>) = {"timeout"}
  BY DEF Elements
<1>3. CASE s = "CRASH"
  BY <1>1, <1>2, <1>3 DEF CallFinding
<1>4. CASE s = "TIMEOUT"
  BY <1>1, <1>2, <1>4 DEF CallFinding
<1>5. CASE s \notin {"CRASH", "TIMEOUT"}
  BY <1>5 DEF CallFinding
<1> QED
  BY <1>3, <1>4, <1>5

LEMMA NoElements ==
    ASSUME NEW S, NEW s \in Seq(S), Elements(s) = {}
    PROVE  s = <<>>
<1>1. Len(s) \in Nat /\ (Len(s) # 0 => 1 \in 1..Len(s))
  OBVIOUS
<1>2. Len(s) = 0
  BY <1>1 DEF Elements
<1> QED
  BY <1>2

\* The findings of a finished subtest name all that its verdict shows, and a
\* silent one has none.
LEMMA VerdictFindings ==
    ASSUME NEW c, NEW t \in FinishedType(c)
    PROVE  /\ FindingsOf(t) \in Seq(FindingClasses)
           /\ HasStatus(t, "CRASH") => "memory_safety" \in Elements(FindingsOf(t))
           /\ HasStatus(t, "TIMEOUT") => "timeout" \in Elements(FindingsOf(t))
           /\ ~t.passed => FailureClass(t.kind) \in Elements(FindingsOf(t))
           /\ FindingsOf(t) = <<>> <=> Silent(t)
<1> DEFINE n == Len(t.calls)
           ss == [i \in DOMAIN t.calls |-> CallFinding(t.calls[i].status)]
           flat == FlattenSeq(ss)
           own == IF t.passed THEN <<>> ELSE <<FailureClass(t.kind)>>
<1>1. t.calls \in Seq(PermittedCalls(c)) /\ n \in Nat /\ DOMAIN t.calls = 1..n
  BY DEF FinishedType
<1>2. ss \in Seq(Seq(FindingClasses)) /\ Len(ss) = n
  BY <1>1, CallFindingType
<1>3. \A i \in 1..n : ss[i] = CallFinding(t.calls[i].status)
  BY <1>1
<1>4. FindingsOf(t) = flat \o own
  BY DEF FindingsOf
<1> HIDE DEF ss
<1>5. Gathers(flat, FindingClasses, ss, n)
  BY <1>2, FlattenGathers
<1>6. flat \in Seq(FindingClasses) /\ \A i \in 1..n : Elements(ss[i]) \subseteq Elements(flat)
  BY <1>5 DEF Gathers
<1>7. own \in Seq(FindingClasses)
  <2>1. FailureClass(t.kind) \in FindingClasses
    BY DEF FailureClass, FindingClasses
  <2> QED
    BY <2>1
<1>8. ~t.passed => Elements(own) = {FailureClass(t.kind)} /\ own # <<>>
  BY DEF Elements
<1>9. t.passed => own = <<>>
  OBVIOUS
<1> HIDE DEF flat, own, n
<1>10. /\ flat \o own \in Seq(FindingClasses)
       /\ Elements(flat) \subseteq Elements(flat \o own)
       /\ Elements(own) \subseteq Elements(flat \o own)
       /\ flat = <<>> /\ own = <<>> => flat \o own = <<>>
  BY <1>6, <1>7, ConcatElements
<1>11. \A s : HasStatus(t, s) <=> \E i \in 1..n : t.calls[i].status = s
  BY <1>1 DEF HasStatus
<1>12. ASSUME HasStatus(t, "CRASH") PROVE "memory_safety" \in Elements(FindingsOf(t))
  <2>1. PICK i \in 1..n : t.calls[i].status = "CRASH"
    BY <1>11, <1>12
  <2>2. Elements(ss[i]) = {"memory_safety"}
    BY <1>3, <2>1, CallFindingType
  <2> QED
    BY <1>4, <1>6, <1>10, <2>2
<1>13. ASSUME HasStatus(t, "TIMEOUT") PROVE "timeout" \in Elements(FindingsOf(t))
  <2>1. PICK i \in 1..n : t.calls[i].status = "TIMEOUT"
    BY <1>11, <1>13
  <2>2. Elements(ss[i]) = {"timeout"}
    BY <1>3, <2>1, CallFindingType
  <2> QED
    BY <1>4, <1>6, <1>10, <2>2
<1>14. ~t.passed => FailureClass(t.kind) \in Elements(FindingsOf(t))
  BY <1>4, <1>8, <1>10
<1>15. ASSUME Silent(t) PROVE FindingsOf(t) = <<>>
  <2>1. \A i \in 1..n : ss[i] = <<>>
    BY <1>3, <1>11, <1>15, CallFindingType DEF Silent
  <2>2. flat = <<>> /\ own = <<>>
    BY <1>5, <1>9, <1>15, <2>1 DEF Gathers, Silent
  <2> QED
    BY <1>4, <1>10, <2>2
<1>16. ASSUME FindingsOf(t) = <<>> PROVE Silent(t)
  <2>1. Elements(FindingsOf(t)) = {}
    BY <1>16 DEF Elements
  <2> QED
    BY <1>12, <1>13, <1>14, <2>1 DEF Silent
<1> QED
  BY <1>4, <1>10, <1>12, <1>13, <1>14, <1>15, <1>16

\* The report holds the findings of all verdicts.
LEMMA ReportFindings ==
    ASSUME TypeInv, Reported, done
    PROVE  /\ findings \in Seq(FindingClasses) /\ Verdicts = Finished
           /\ \A t \in Finished : /\ t \in FinishedType(contract)
                                  /\ Elements(FindingsOf(t)) \subseteq Elements(findings)
           /\ findings = <<>> <=> \A t \in Finished : Silent(t)
<1> DEFINE n == Len(subtests)
           ss == [i \in DOMAIN subtests |-> FindingsOf(subtests[i])]
<1>1. n \in Nat /\ DOMAIN subtests = 1..n /\ \A i \in 1..n : subtests[i] \in FinishedType(contract)
  BY DEF TypeInv
<1>2. ss \in Seq(Seq(FindingClasses)) /\ Len(ss) = n
  BY <1>1, VerdictFindings
<1>3. \A i \in 1..n : ss[i] = FindingsOf(subtests[i])
  BY <1>1
<1>4. findings = FlattenSeq(ss) /\ todo = <<>>
  BY DEF Reported
<1> HIDE DEF ss
<1>5. Gathers(findings, FindingClasses, ss, n)
  BY <1>2, <1>4, FlattenGathers
<1> HIDE DEF n
<1>6. Finished = {subtests[i] : i \in 1..n} /\ Verdicts = Finished
  BY <1>1, <1>4 DEF Finished, Verdicts, Ended
<1>7. findings \in Seq(FindingClasses)
      /\ \A i \in 1..n : Elements(FindingsOf(subtests[i])) \subseteq Elements(findings)
  BY <1>3, <1>5 DEF Gathers
<1>8. ASSUME \A t \in Finished : Silent(t) PROVE findings = <<>>
  <2>1. \A i \in 1..n : ss[i] = <<>>
    BY <1>1, <1>3, <1>6, <1>8, VerdictFindings
  <2> QED
    BY <1>5, <2>1 DEF Gathers
<1>9. ASSUME findings = <<>>, NEW t \in Finished PROVE Silent(t)
  <2>1. PICK i \in 1..n : t = subtests[i]
    BY <1>6
  <2>2. Elements(FindingsOf(t)) = {}
    BY <1>7, <1>9, <2>1 DEF Elements
  <2>3. FindingsOf(t) \in Seq(FindingClasses)
    BY <1>1, <2>1, VerdictFindings
  <2>4. FindingsOf(t) = <<>>
    BY <2>2, <2>3, NoElements
  <2> QED
    BY <1>1, <2>1, <2>4, VerdictFindings
<1> QED
  BY <1>1, <1>6, <1>7, <1>8, <1>9

\* No false alarm, for every oracle and contract: adapters that always answer
\* correctly are not reported when each mutation changed its field.
THEOREM HonestCleared == Spec => []HonestPairIsCleared
<1>1. IInv => HonestPairIsCleared
  <2> SUFFICES ASSUME IInv, done, deviations = {}, EffectiveMutations, ContextsUnderstood
               PROVE  findings = <<>>
    BY DEF HonestPairIsCleared
  <2>1. Verdicts = Finished /\ (findings = <<>> <=> \A t \in Finished : Silent(t))
    BY ReportFindings DEF IInv
  <2>2. \A t \in Finished : t.field # "same"
    BY DEF EffectiveMutations, Finished
  <2> QED
    BY <2>1, <2>2 DEF IInv, Cleared
<1> QED
  BY <1>1, IInvariant, PTL

\* No silent pass, for every oracle and contract: when each mutation changed
\* its field, each kind of deviation an adapter was caught in is in the
\* findings under its class.
THEOREM DeviationsReported == Spec => []DeviationIsReported
<1>1. IInv => DeviationIsReported
  <2> SUFFICES ASSUME IInv, done, EffectiveMutations PROVE DeviationIsReported
    BY DEF DeviationIsReported
  <2> DEFINE reported == {findings[i] : i \in DOMAIN findings}
  <2>1. findings \in Seq(FindingClasses) /\ Verdicts = Finished
    BY ReportFindings DEF IInv
  <2>2. Elements(findings) = reported
    BY <2>1 DEF Elements
  <2> HIDE DEF reported
  <2>3. ASSUME NEW d \in deviations
        PROVE  \E t \in Finished : /\ Witness(oracle, d, t) /\ t \in FinishedType(contract)
                                   /\ t.field # "same"
                                   /\ Elements(FindingsOf(t)) \subseteq reported
    <3>1. PICK t \in Finished : Witness(oracle, d, t)
      BY <2>1, <2>3 DEF IInv, Witnessed
    <3>2. t.field # "same"
      BY <3>1 DEF EffectiveMutations, Finished
    <3>3. t \in FinishedType(contract) /\ Elements(FindingsOf(t)) \subseteq reported
      BY <2>2, <3>1, ReportFindings DEF IInv
    <3> QED
      BY <3>1, <3>2, <3>3
  <2>4. ASSUME "crashed" \in deviations PROVE "memory_safety" \in reported
    BY <2>3, <2>4, VerdictFindings DEF Witness
  <2>5. ASSUME "hung" \in deviations PROVE "timeout" \in reported
    BY <2>3, <2>5, VerdictFindings DEF Witness
  <2>6. ASSUME "refused" \in deviations PROVE findings # <<>>
    <3>1. PICK t \in Finished : Witness(oracle, "refused", t) /\ t.field # "same"
      BY <2>3, <2>6
    <3>2. ~Silent(t)
      BY <3>1 DEF Witness, Silent
    <3> QED
      BY <3>2, ReportFindings DEF IInv
  <2>7. ASSUME "accepted" \in deviations
        PROVE  (IF oracle = "sig_oid" THEN "confirmed_semantic_bug" ELSE "potential_crypto_vuln")
                   \in reported
    <3>1. PICK t \in Finished :
            /\ Witness(oracle, "accepted", t) /\ t \in FinishedType(contract)
            /\ Elements(FindingsOf(t)) \subseteq reported
      BY <2>3, <2>7
    <3>2. ~t.passed /\ NegativeOf(oracle, t.kind)
      BY <3>1 DEF Witness
    <3>3. FailureClass(t.kind) =
            IF oracle = "sig_oid" THEN "confirmed_semantic_bug" ELSE "potential_crypto_vuln"
      BY <3>2 DEF NegativeOf, NegativeKinds, FailureClass
    <3>4. FailureClass(t.kind) \in Elements(FindingsOf(t))
      BY <3>1, <3>2, VerdictFindings
    <3> QED
      BY <3>1, <3>3, <3>4
  <2> QED
    BY <2>4, <2>5, <2>6, <2>7 DEF DeviationIsReported, reported
<1> QED
  BY <1>1, IInvariant, PTL

\* The Python classifier and the native code agree on every trace: no
\* finding is a finding to neither, and of several the first one's class is
\* the trace's.
THEOREM ClassesAgree == Spec => []ClassifierAgrees
<1>1. IInv => ClassifierAgrees
  <2> SUFFICES ASSUME IInv, done
               PROVE  Classify(Trace) = IF findings = <<>> THEN "none" ELSE Head(findings)
    BY DEF ClassifierAgrees
  <2> DEFINE known == {i \in DOMAIN findings : findings[i] \in FindingClasses}
             status == UNION {{t.calls[i].status : i \in DOMAIN t.calls} :
                                t \in {subtests[j] : j \in DOMAIN subtests}}
  <2>1. findings \in Seq(FindingClasses)
        /\ (findings = <<>> <=> \A t \in Finished : Silent(t))
    BY ReportFindings DEF IInv
  <2>2. /\ Trace.findings = findings /\ Trace.finding_class = "none"
        /\ Trace.expected = "none" /\ Trace.observed = "none" /\ Trace.statuses = status
        /\ Trace.failed = \E j \in DOMAIN subtests : ~subtests[j].passed
    BY DEF Trace
  <2>3. CASE findings = <<>>
    <3>1. known = {}
      BY <2>3
    <3>2. \A t \in Finished : Silent(t)
      BY <2>1, <2>3
    <3>3. "CRASH" \notin status /\ "TIMEOUT" \notin status
      BY <3>2 DEF Silent, HasStatus, Finished
    <3>4. ~Trace.failed
      BY <2>2, <3>2 DEF Silent, Finished
    <3>5. "none" \notin FindingClasses
      BY DEF FindingClasses
    <3> HIDE DEF status
    <3> QED
      BY <2>2, <2>3, <3>1, <3>3, <3>4, <3>5 DEF Classify
  <2>4. CASE findings # <<>>
    <3>1. known = DOMAIN findings /\ DOMAIN findings = 1..Len(findings) /\ 1 \in known
      <4>1. /\ DOMAIN findings = 1..Len(findings) /\ Len(findings) \in Nat /\ Len(findings) # 0
            /\ \A i \in 1..Len(findings) : findings[i] \in FindingClasses
        BY <2>1, <2>4
      <4> QED
        BY <4>1
    <3> DEFINE first == CHOOSE i \in known : \A k \in known : i <= k
    <3>2. first = 1
      <4>1. \A k \in known : 1 <= k
        BY <3>1
      <4>2. first \in known /\ first <= 1
        BY <3>1, <4>1
      <4> QED
        BY <3>1, <4>2
    <3>3. Classify(Trace) = findings[first]
      BY <2>2, <3>1 DEF Classify
    <3> QED
      BY <2>1, <2>4, <3>2, <3>3
  <2> QED
    BY <2>3, <2>4
<1> QED
  BY <1>1, IInvariant, PTL
=============================================================================
