----------------------- MODULE MetamorphicExecutorProofs -----------------------
(***************************************************************************)
(* Proofs about MetamorphicExecutor for every set of oracles, targets and  *)
(* ways a call can fail: a verdict is about one changed field, a target    *)
(* that reads the field is not reported, and one that ignores it is.       *)
(*                                                                         *)
(* The argument: the compared calls are the last two of the input, the     *)
(* first of them is made on unchanged fields, the second on fields of      *)
(* which only the oracle's may have changed (the control of the executor,  *)
(* ExperimentInv), and every call returns what the target's semantics      *)
(* allows (Answered).  What follows is about two such calls alone.         *)
(***************************************************************************)
EXTENDS MetamorphicExecutor, TLAPS

Marks ==
    {"orig", "changed", "shorter", "longer", "seeded", "zero", "pattern",
     "fresh1", "fresh2", "fresh3", "fresh4"}
Tags == Fields \cup {"blank", "empty", "partial", "accepted", "rejected"}
Bytes == SUBSET (Tags \X (Marks \cup {""}))

CallType ==
    [api : Apis, args : UNION {[Inputs[a] -> Marks] : a \in Apis}, status : Statuses,
     out : Bytes, fault : BOOLEAN]

Stages == {"idle", "start", "keyed", "made", "again", "compare", "setup failed", "done"}

TypeInv ==
    /\ target \in Targets /\ hooked \in BOOLEAN
    /\ oracle \in Oracles \cup {"none"} /\ op \in 0..7
    /\ stage \in Stages
    /\ calls \in Seq(CallType) /\ Len(calls) <= 4

\* The generator liboqs is left with repeats itself.
FixedRng == target.provider = "liboqs" /\ hooked

\* A call to the compared API on unchanged fields.
Plain(c) ==
    /\ c.api = ComparedApi /\ DOMAIN c.args = Inputs[ComparedApi]
    /\ \A f \in Inputs[ComparedApi] \ {"rng"} : c.args[f] = "orig"
    /\ ("rng" \in Inputs[ComparedApi] /\ oracle \notin BadRng /\ FixedRng) => c.args["rng"] = "pattern"

\* One of which the oracle's field alone has changed.
OneChanged(c) ==
    /\ c.api = ComparedApi /\ DOMAIN c.args = Inputs[ComparedApi]
    /\ \A f \in Inputs[ComparedApi] \ {"rng", FieldOf[oracle]} : c.args[f] = "orig"
    /\ ("rng" \in Inputs[ComparedApi] /\ oracle \notin BadRng /\ FixedRng) => c.args["rng"] = "pattern"

Last(n) == calls[Len(calls) - n]

NotSupported == baseline.status = "API_UNSUPPORTED" /\ mutated = baseline

\* The observations are those of the last two calls.
Compared ==
    /\ oracle \in Known /\ Len(calls) >= 2
    /\ Plain(Last(1)) /\ baseline = Observe(Len(calls) - 1, Last(1))
    /\ OneChanged(Last(0)) /\ mutated = Observe(Len(calls), Last(0))

ExperimentInv ==
    /\ stage # "idle" => oracle \in Oracles
    /\ stage \in {"idle", "start"} => calls = <<>>
    /\ stage = "keyed" => oracle \in Known \ KeygenBadRng /\ Len(calls) = 1
    /\ stage = "made" => /\ oracle \in Known \ BadRng /\ Len(calls) = 2
                         /\ oracle \in SetupIsBaseline => Plain(Last(0))
    /\ stage = "again" => /\ oracle \in Known \ SetupIsBaseline /\ 1 <= Len(calls) /\ Len(calls) <= 3
                          /\ Plain(Last(0)) /\ baseline = Observe(Len(calls), Last(0))
    /\ stage = "compare" => NotSupported \/ Compared
    /\ stage # "done" => observed = "none"
    /\ stage = "done" =>
         \/ observed \in {"none", "OBSERVED_SETUP_FAILED"}
         \/ /\ NotSupported \/ Compared
            /\ observed = CompareObservations(baseline, mutated)
            /\ findings = FindingClassFor(observed)

Answer(c) == [status |-> c.status, out |-> c.out, fault |-> c.fault]
Answered == \A i \in DOMAIN calls : Answer(calls[i]) \in Results(calls[i].api, calls[i].args)

IInv == TypeInv /\ ExperimentInv /\ Answered

-----------------------------------------------------------------------------
(* The oracles' fields and APIs. *)

LEMMA FieldFacts ==
    ASSUME NEW o \in Known
    PROVE  FieldOf[o] \in Fields /\ (o \in BadRng => FieldOf[o] = "rng")
BY DEF Known, FieldOf, Fields, BadRng, KeygenBadRng

\* The compared API of an oracle takes the oracle's field.
LEMMA ComparedFacts ==
    ASSUME oracle \in Known
    PROVE  /\ ComparedApi \in Apis
           /\ FieldOf[oracle] \in Inputs[ComparedApi]
           /\ oracle \notin BadRng \cup SetupIsBaseline => "rng" \notin Inputs[ComparedApi]
BY DEF Known, FieldOf, ComparedApi, Inputs, Apis, BadRng, KeygenBadRng, SetupIsBaseline

\* The setup of an oracle whose setup is its baseline calls the compared API.
LEMMA SetupFacts ==
    ASSUME oracle \in Known
    PROVE  /\ MakeApi \in Apis
           /\ oracle \in SetupIsBaseline => MakeApi = ComparedApi
           /\ oracle \in SetupIsBaseline => oracle \notin BadRng
BY DEF Known, FieldOf, ComparedApi, MakeApi, KemOracles, Apis, BadRng, KeygenBadRng, SetupIsBaseline

LEMMA ArgsFacts ==
    ASSUME NEW api \in Apis, NEW rng
    PROVE  /\ DOMAIN Args(api, rng) = Inputs[api]
           /\ \A f \in Inputs[api] : Args(api, rng)[f] = IF f = "rng" THEN rng ELSE "orig"
           /\ rng \in Marks => Args(api, rng) \in [Inputs[api] -> Marks]
BY DEF Args, Marks

LEMMA FreeRngFacts ==
    ASSUME TypeInv, Len(calls) <= 3
    PROVE  FreeRng \in Marks /\ (FixedRng => FreeRng = "pattern")
<1>1. Len(calls) + 1 \in 1..4
  BY DEF TypeInv
<1> QED
  BY <1>1 DEF FreeRng, FixedRng, Marks

-----------------------------------------------------------------------------
(* What a call records. *)

LEMMA EffectiveType ==
    ASSUME NEW api \in Apis, NEW args \in [Inputs[api] -> Marks]
    PROVE  Effective(args) \in Bytes
<1>1. Inputs[api] \subseteq Fields
  BY DEF Apis, Inputs, Fields
<1>2. \A f \in DOMAIN args : <<f, args[f]>> \in Tags \X (Marks \cup {""})
  BY <1>1 DEF Tags
<1>3. Effective(args) \subseteq Tags \X (Marks \cup {""})
  BY <1>2 DEF Effective
<1> QED
  BY <1>3 DEF Bytes

LEMMA ConstantsType ==
    /\ Blank \in Bytes /\ Empty \in Bytes
    /\ \A t \in Tags : {<<t, "">>} \in Bytes
<1>1. \A t \in Tags : <<t, "">> \in Tags \X (Marks \cup {""})
  OBVIOUS
<1>2. \A t \in Tags : {<<t, "">>} \in Bytes
  BY <1>1 DEF Bytes
<1>3. "blank" \in Tags /\ "empty" \in Tags
  BY DEF Tags
<1> QED
  BY <1>2, <1>3 DEF Blank, Empty

LEMMA ComputedType ==
    ASSUME NEW api \in Apis, NEW args \in [Inputs[api] -> Marks]
    PROVE  Computed(api, args) \in [status : Statuses, out : Bytes, fault : BOOLEAN]
<1>1. Verified(args) \in [status : Statuses, out : Bytes, fault : BOOLEAN]
  BY ConstantsType DEF Verified, Statuses, Tags
<1> QED
  BY <1>1, EffectiveType DEF Computed, Statuses

LEMMA FaultsType ==
    ASSUME NEW api, NEW x \in Faults(api)
    PROVE  x \in [status : Statuses, out : Bytes, fault : BOOLEAN] /\ x.fault = TRUE
<1> DEFINE Outs == IF api = "verify" THEN {NoOutput(api)} ELSE {Blank, {<<"partial", "">>}}
<1>1. \A s \in FaultStatuses : s \in Statuses
  BY MetamorphicAssumption
<1>2. Outs \subseteq Bytes
  <2>1. NoOutput(api) \in Bytes /\ {<<"partial", "">>} \in Bytes /\ Blank \in Bytes
    BY ConstantsType DEF Tags, NoOutput
  <2> QED
    BY <2>1
<1>3. Faults(api) = [status : FaultStatuses, fault : {TRUE}, out : Outs]
  BY DEF Faults
<1> HIDE DEF Outs
<1>4. x.status \in Statuses /\ x.out \in Bytes
  BY <1>1, <1>2, <1>3
<1>5. x.fault = TRUE
  <2> DEFINE Yes == {TRUE}
  <2>1. x \in [status : FaultStatuses, fault : Yes, out : Outs]
    BY <1>3
  <2> HIDE DEF Yes
  <2>2. x.fault \in Yes
    BY <2>1
  <2> QED
    BY <2>2, Zenon DEF Yes
<1>6. x = [status |-> x.status, out |-> x.out, fault |-> x.fault]
  BY <1>3
<1> QED
  BY <1>4, <1>5, <1>6

LEMMA ResultsType ==
    ASSUME NEW api \in Apis, NEW args \in [Inputs[api] -> Marks], NEW r \in Results(api, args)
    PROVE  r \in [status : Statuses, out : Bytes, fault : BOOLEAN]
<1> DEFINE R == [status : Statuses, out : Bytes, fault : BOOLEAN]
<1>1. NoOutput(api) \in Bytes
  BY ConstantsType DEF NoOutput, Tags
<1>2. Missing(api) \in R /\ Refused(api) \in R
  BY <1>1 DEF Missing, Refused, Statuses
<1>3. Computed(api, args) \in R /\ \A x \in Faults(api) : x \in R
  BY ComputedType, FaultsType
<1> HIDE DEF R
<1>4. r \in {Missing(api)} \/ r \in {Refused(api)} \/ r = Computed(api, args) \/ r \in Faults(api)
  BY DEF Results
<1> QED
  BY <1>2, <1>3, <1>4 DEF R

RecordOf(api, args, r) ==
    [api |-> api, args |-> args, status |-> r.status, out |-> r.out, fault |-> r.fault]

\* What a call may return depends on the target alone.
LEMMA TargetFixesResults ==
    ASSUME target' = target
    PROVE  \A a, x : Results(a, x)' = Results(a, x)
<1> SUFFICES ASSUME NEW a, NEW x PROVE Results(a, x)' = Results(a, x)
  OBVIOUS
<1>1. Effective(x)' = Effective(x)
  BY DEF Effective
<1>2. Verified(x)' = Verified(x)
  BY <1>1 DEF Verified
<1>3. Computed(a, x)' = Computed(a, x)
  BY <1>1, <1>2 DEF Computed
<1>4. /\ WrongLength(a, x)' = WrongLength(a, x) /\ MayNotFit(a, x)' = MayNotFit(a, x)
      /\ Faults(a)' = Faults(a)
  BY DEF WrongLength, MayNotFit, Faults, Blank, NoOutput
<1> QED
  BY <1>3, <1>4 DEF Results, Missing, Refused, NoOutput

LEMMA CallEffect ==
    ASSUME TypeInv, Answered, Len(calls) <= 3, target' = target,
           NEW api \in Apis, NEW args \in [Inputs[api] -> Marks],
           NEW r \in Results(api, args), Call(api, args, r)
    PROVE  /\ calls' \in Seq(CallType) /\ Len(calls') = Len(calls) + 1 /\ Len(calls) \in 0..3
           /\ calls'[Len(calls) + 1] = RecordOf(api, args, r)
           /\ \A i \in 1..Len(calls) : calls'[i] = calls[i]
           /\ Answered'
<1> DEFINE c == RecordOf(api, args, r)
<1>1. r \in [status : Statuses, out : Bytes, fault : BOOLEAN]
  BY ResultsType
<1>2. c \in CallType
  BY <1>1 DEF CallType, RecordOf
<1>3. calls' = Append(calls, c) /\ calls \in Seq(CallType)
  BY DEF Call, RecordOf, TypeInv
<1>4. Answer(c) = r
  BY <1>1 DEF Answer, RecordOf
<1>5. c.api = api /\ c.args = args
  BY DEF RecordOf
<1> HIDE DEF c
<1>6. /\ calls' \in Seq(CallType) /\ Len(calls') = Len(calls) + 1 /\ Len(calls) \in 0..3
      /\ calls'[Len(calls) + 1] = c
      /\ \A i \in 1..Len(calls) : calls'[i] = calls[i]
      /\ DOMAIN calls' = 1..(Len(calls) + 1) /\ DOMAIN calls = 1..Len(calls)
  <2>1. Len(calls) \in Nat /\ DOMAIN calls = 1..Len(calls)
    BY <1>3
  <2>2. calls' \in Seq(CallType) /\ Len(calls') = Len(calls) + 1
    BY <1>2, <1>3
  <2>3. DOMAIN calls' = 1..(Len(calls) + 1)
    BY <2>2
  <2>4. calls'[Len(calls) + 1] = c
    BY <1>2, <1>3
  <2>5. \A i \in 1..Len(calls) : calls'[i] = calls[i]
    BY <1>2, <1>3
  <2> QED
    BY <2>1, <2>2, <2>3, <2>4, <2>5
<1>7. ASSUME NEW i \in DOMAIN calls' PROVE Answer(calls'[i]) \in Results(calls'[i].api, calls'[i].args)
  <2>1. CASE i = Len(calls) + 1
    BY <2>1, <1>4, <1>5, <1>6
  <2>2. CASE i \in DOMAIN calls
    BY <2>2, <1>6 DEF Answered
  <2> QED
    BY <1>6, <2>1, <2>2
<1>8. \A a, x : Results(a, x)' = Results(a, x)
  BY TargetFixesResults
<1>9. \A x : Answer(x)' = Answer(x)
  BY DEF Answer
<1>10. Answered'
  BY <1>7, <1>8, <1>9 DEF Answered
<1> QED
  BY <1>6, <1>10 DEF c

-----------------------------------------------------------------------------
(* The steps. *)

LEMMA InitInv == Init => IInv
<1> SUFFICES ASSUME Init PROVE IInv
  OBVIOUS
<1>1. TypeInv
  <2>1. target \in Targets /\ hooked \in BOOLEAN
    BY DEF Init
  <2>2. oracle \in Oracles \cup {"none"} /\ op \in 0..7 /\ stage \in Stages
    BY DEF Init, Stages
  <2>3. calls \in Seq(CallType) /\ Len(calls) <= 4
    BY DEF Init
  <2> QED
    BY <2>1, <2>2, <2>3 DEF TypeInv
<1>2. ExperimentInv
  BY DEF Init, ExperimentInv
<1>3. Answered
  BY DEF Init, Answered
<1> QED
  BY <1>1, <1>2, <1>3 DEF IInv

\* A setup call of the current input, and what follows it.
LEMMA SetupStep ==
    ASSUME IInv, Len(calls) <= 3, oracle \in Known, oracle \in Oracles, stage # "done",
           NEW api \in Apis, NEW r \in Results(api, Args(api, FreeRng)),
           Call(api, Args(api, FreeRng), r),
           NEW next \in {"keyed", "made"}, AfterSetup(r, next),
           next = "keyed" => oracle \notin KeygenBadRng /\ Len(calls) = 0,
           next = "made" => oracle \notin BadRng /\ Len(calls) = 1
                            /\ (oracle \in SetupIsBaseline => api = ComparedApi),
           UNCHANGED <<target, hooked, input, trace>>
    PROVE  IInv'
<1> DEFINE args == Args(api, FreeRng)
<1>1. UNCHANGED <<target, hooked, oracle, op, observed, skipped, failed, findings>>
  BY DEF input, trace
<1>2. TypeInv /\ ExperimentInv /\ Answered
  BY DEF IInv
<1>3. FreeRng \in Marks /\ (FixedRng => FreeRng = "pattern")
  BY <1>2, FreeRngFacts
<1>4. args \in [Inputs[api] -> Marks] /\ DOMAIN args = Inputs[api]
      /\ \A f \in Inputs[api] : args[f] = IF f = "rng" THEN FreeRng ELSE "orig"
  BY <1>3, ArgsFacts
<1> HIDE DEF args
<1>5. Call(api, args, r) /\ r \in Results(api, args)
  BY DEF args
<1>6. /\ calls' \in Seq(CallType) /\ Len(calls') = Len(calls) + 1 /\ Len(calls) \in 0..3
      /\ calls'[Len(calls) + 1] = RecordOf(api, args, r)
      /\ \A i \in 1..Len(calls) : calls'[i] = calls[i]
      /\ Answered'
  BY <1>1, <1>2, <1>4, <1>5, CallEffect
<1>7. stage' \in {next, "compare", "setup failed"}
  BY DEF AfterSetup
<1>8. TypeInv'
  <2>1. target' \in Targets /\ hooked' \in BOOLEAN
    BY <1>1, <1>2, Zenon DEF TypeInv
  <2>2. oracle' \in Oracles \cup {"none"} /\ op' \in 0..7
    BY <1>1, <1>2 DEF TypeInv
  <2>3. stage' \in Stages
    BY <1>7 DEF Stages
  <2>4. calls' \in Seq(CallType) /\ Len(calls') <= 4
    BY <1>6
  <2> QED
    BY <2>1, <2>2, <2>3, <2>4 DEF TypeInv
<1>9. stage' = "compare" => NotSupported'
  BY DEF AfterSetup, NotSupported, Observe
<1>10. ASSUME stage' = "made", oracle \in SetupIsBaseline PROVE Plain(Last(0))'
  <2>1. api = ComparedApi /\ next = "made"
    BY <1>7, <1>10
  <2>2. Last(0)' = RecordOf(api, args, r)
    BY <1>6 DEF Last
  <2>3. Last(0)'.api = api /\ Last(0)'.args = args
    BY <2>2 DEF RecordOf
  <2>4. ComparedApi' = ComparedApi /\ FixedRng' = FixedRng
    BY <1>1 DEF ComparedApi, FixedRng
  <2> QED
    BY <1>1, <1>3, <1>4, <2>1, <2>3, <2>4 DEF Plain
<1>11. observed' = "none"
  BY <1>1, <1>2 DEF ExperimentInv
<1>12. ExperimentInv'
  <2>1. stage' # "idle" /\ stage' # "start" /\ stage' # "again" /\ stage' # "done"
    BY <1>7
  <2>2. stage' = "keyed" => oracle' \in Known \ KeygenBadRng /\ Len(calls') = 1
    BY <1>1, <1>6, <1>7
  <2>3. stage' = "made" => oracle' \in Known \ BadRng /\ Len(calls') = 2
    BY <1>1, <1>6, <1>7
  <2>4. oracle' \in Oracles
    BY <1>1
  <2> QED
    BY <1>1, <1>9, <1>10, <1>11, <2>1, <2>2, <2>3, <2>4 DEF ExperimentInv
<1> QED
  BY <1>6, <1>8, <1>12 DEF IInv

LEMMA SetupKeygenStep == IInv /\ SetupKeygen => IInv'
<1> SUFFICES ASSUME IInv, SetupKeygen PROVE IInv'
  OBVIOUS
<1>1. stage = "start" /\ oracle \in Known \ KeygenBadRng /\ UNCHANGED <<target, hooked, input, trace>>
  BY DEF SetupKeygen
<1>2. PICK r \in Results("keygen", Args("keygen", FreeRng)) :
        Call("keygen", Args("keygen", FreeRng), r) /\ AfterSetup(r, "keyed")
  BY DEF SetupKeygen
<1>3. calls = <<>> /\ oracle \in Oracles
  BY <1>1 DEF IInv, ExperimentInv
<1>4. Len(calls) = 0 /\ "keygen" \in Apis
  BY <1>3 DEF Apis
<1> QED
  BY <1>1, <1>2, <1>3, <1>4, SetupStep

LEMMA SetupMakeStep == IInv /\ SetupMake => IInv'
<1> SUFFICES ASSUME IInv, SetupMake PROVE IInv'
  OBVIOUS
<1>1. stage = "keyed" /\ oracle \notin BadRng /\ UNCHANGED <<target, hooked, input, trace>>
  BY DEF SetupMake
<1>2. PICK r \in Results(MakeApi, Args(MakeApi, FreeRng)) :
        Call(MakeApi, Args(MakeApi, FreeRng), r) /\ AfterSetup(r, "made")
  BY DEF SetupMake
<1>3. Len(calls) = 1 /\ oracle \in Oracles /\ oracle \in Known
  BY <1>1 DEF IInv, ExperimentInv
<1>4. MakeApi \in Apis /\ (oracle \in SetupIsBaseline => MakeApi = ComparedApi)
  BY <1>3, SetupFacts
<1> QED
  BY <1>1, <1>2, <1>3, <1>4, SetupStep

\* The arguments of the mutated call.
LEMMA MutatedArgsFacts ==
    ASSUME TypeInv, Len(calls) <= 3, oracle \in Known, NEW v \in Marks
    PROVE  /\ MutatedArgs(v) \in [Inputs[ComparedApi] -> Marks]
           /\ \A f \in Inputs[ComparedApi] \ {"rng", FieldOf[oracle]} : MutatedArgs(v)[f] = "orig"
           /\ ("rng" \in Inputs[ComparedApi] /\ oracle \notin BadRng /\ FixedRng) =>
                  (FieldOf[oracle] = "rng" \/ MutatedArgs(v)["rng"] = "pattern")
<1>1. ComparedApi \in Apis /\ FieldOf[oracle] \in Inputs[ComparedApi]
      /\ (oracle \in BadRng => FieldOf[oracle] = "rng")
  BY ComparedFacts, FieldFacts
<1>2. FreeRng \in Marks /\ (FixedRng => FreeRng = "pattern")
  BY FreeRngFacts
<1>3. CASE oracle \in BadRng
  <2>1. MutatedArgs(v) = Args(ComparedApi, v)
    BY <1>3 DEF MutatedArgs
  <2> QED
    BY <1>1, <1>3, <2>1, ArgsFacts
<1>4. CASE oracle \notin BadRng
  <2> DEFINE free == Args(ComparedApi, FreeRng)
  <2>1. MutatedArgs(v) = [free EXCEPT ![FieldOf[oracle]] = v]
    BY <1>4 DEF MutatedArgs
  <2>2. /\ free \in [Inputs[ComparedApi] -> Marks]
        /\ \A f \in Inputs[ComparedApi] : free[f] = IF f = "rng" THEN FreeRng ELSE "orig"
    BY <1>1, <1>2, ArgsFacts
  <2> HIDE DEF free
  <2> QED
    BY <1>1, <1>2, <1>4, <2>1, <2>2
<1> QED
  BY <1>3, <1>4

\* No oracle but those of bad randomness mutates the randomness.
LEMMA FieldIsNotRng ==
    ASSUME oracle \in Known, oracle \notin BadRng
    PROVE  FieldOf[oracle] # "rng"
BY DEF Known, FieldOf, BadRng, KeygenBadRng

\* The call recorded last.
LEMMA LastRecord ==
    ASSUME TypeInv, Answered, Len(calls) <= 3, oracle \in Known, target' = target,
           NEW args \in [Inputs[ComparedApi] -> Marks], NEW r \in Results(ComparedApi, args),
           Call(ComparedApi, args, r)
    PROVE  /\ calls' \in Seq(CallType) /\ Len(calls') = Len(calls) + 1 /\ Len(calls) \in 0..3
           /\ Answered'
           /\ calls'[Len(calls')].api = ComparedApi
           /\ calls'[Len(calls')].args = args
           /\ Observe(Len(calls) + 1, r) = Observe(Len(calls'), calls'[Len(calls')])
           /\ \A i \in 1..Len(calls) : calls'[i] = calls[i]
<1>1. ComparedApi \in Apis
  BY ComparedFacts
<1>2. /\ calls' \in Seq(CallType) /\ Len(calls') = Len(calls) + 1 /\ Len(calls) \in 0..3
      /\ calls'[Len(calls) + 1] = RecordOf(ComparedApi, args, r)
      /\ \A i \in 1..Len(calls) : calls'[i] = calls[i]
      /\ Answered'
  BY <1>1, CallEffect
<1>3. calls'[Len(calls')] = RecordOf(ComparedApi, args, r)
  BY <1>2
<1> HIDE DEF RecordOf
<1>4. LET c == RecordOf(ComparedApi, args, r)
      IN  c.api = ComparedApi /\ c.args = args /\ c.status = r.status /\ c.out = r.out
  BY DEF RecordOf
<1> QED
  BY <1>2, <1>3, <1>4 DEF Observe

\* A baseline call on unchanged fields.
LEMMA BaselineCallStep ==
    ASSUME IInv, oracle \in Known \ SetupIsBaseline, oracle \in Oracles, Len(calls) <= 2,
           stage # "done", stage' = "again",
           NEW rng \in Marks, oracle \in BadRng \/ rng = FreeRng,
           NEW r \in Results(ComparedApi, Args(ComparedApi, rng)),
           Call(ComparedApi, Args(ComparedApi, rng), r), baseline' = Observe(Len(calls) + 1, r),
           oracle \in BadRng \/ hooked' = hooked, hooked' \in BOOLEAN,
           UNCHANGED <<target, input, mutated, trace>>
    PROVE  IInv'
<1> DEFINE args == Args(ComparedApi, rng)
<1>1. UNCHANGED <<target, oracle, op, observed, skipped, failed, findings>>
  BY DEF input, trace
<1>2. TypeInv /\ ExperimentInv /\ Answered
  BY DEF IInv
<1>3. ComparedApi \in Apis /\ (oracle \notin BadRng => "rng" \notin Inputs[ComparedApi])
  BY ComparedFacts
<1>4. args \in [Inputs[ComparedApi] -> Marks] /\ DOMAIN args = Inputs[ComparedApi]
      /\ \A f \in Inputs[ComparedApi] : args[f] = IF f = "rng" THEN rng ELSE "orig"
  BY <1>3, ArgsFacts
<1> HIDE DEF args
<1>5. Call(ComparedApi, args, r) /\ r \in Results(ComparedApi, args)
  BY DEF args
<1>6. /\ calls' \in Seq(CallType) /\ Len(calls') = Len(calls) + 1 /\ Len(calls) \in 0..3
      /\ Answered'
      /\ calls'[Len(calls')].api = ComparedApi
      /\ calls'[Len(calls')].args = args
      /\ baseline' = Observe(Len(calls'), calls'[Len(calls')])
  BY <1>1, <1>2, <1>4, <1>5, LastRecord
<1>7. TypeInv'
  <2>1. target' \in Targets /\ hooked' \in BOOLEAN
    BY <1>1, <1>2, Zenon DEF TypeInv
  <2>2. oracle' \in Oracles \cup {"none"} /\ op' \in 0..7 /\ stage' \in Stages
    BY <1>1, <1>2 DEF TypeInv, Stages
  <2>3. calls' \in Seq(CallType) /\ Len(calls') <= 4
    BY <1>6
  <2> QED
    BY <2>1, <2>2, <2>3 DEF TypeInv
<1>8. Last(0)' = calls'[Len(calls')]
  BY <1>6 DEF Last
<1>9. ComparedApi' = ComparedApi
  BY <1>1 DEF ComparedApi
<1>10. Plain(Last(0))'
  BY <1>1, <1>3, <1>4, <1>6, <1>8, <1>9 DEF Plain
<1>11. ExperimentInv'
  <2>1. oracle' \in Known \ SetupIsBaseline /\ oracle' \in Oracles /\ 1 <= Len(calls') /\ Len(calls') <= 3
    BY <1>1, <1>6
  <2>2. baseline' = Observe(Len(calls), Last(0))'
    BY <1>6, <1>8 DEF Observe
  <2>3. observed' = "none"
    BY <1>1, <1>2 DEF ExperimentInv
  <2> QED
    BY <1>10, <2>1, <2>2, <2>3 DEF ExperimentInv
<1> QED
  BY <1>6, <1>7, <1>11 DEF IInv

LEMMA BaselineUnderTapeStep == IInv /\ BaselineUnderTape => IInv'
<1> SUFFICES ASSUME IInv, BaselineUnderTape PROVE IInv'
  OBVIOUS
<1>1. /\ oracle \in BadRng /\ stage \in {"start", "keyed"} /\ stage' = "again" /\ hooked' = TRUE
      /\ UNCHANGED <<target, input, mutated, trace>>
  BY DEF BaselineUnderTape
<1>2. PICK r \in Results(ComparedApi, Args(ComparedApi, "seeded")) :
        /\ Call(ComparedApi, Args(ComparedApi, "seeded"), r)
        /\ baseline' = Observe(Len(calls) + 1, r)
  BY DEF BaselineUnderTape
<1>3. oracle \in Oracles /\ Len(calls) <= 2
  <2>1. oracle \in Oracles
    BY <1>1 DEF IInv, ExperimentInv
  <2>2. CASE stage = "start"
    BY <2>1, <2>2 DEF IInv, ExperimentInv
  <2>3. CASE stage = "keyed"
    <3>1. Len(calls) = 1
      BY <2>3 DEF IInv, ExperimentInv
    <3> QED
      BY <2>1, <3>1
  <2> QED
    BY <1>1, <2>2, <2>3
<1>4. oracle \in Known \ SetupIsBaseline
  BY <1>1 DEF Known, FieldOf, BadRng, KeygenBadRng, SetupIsBaseline
<1>5. "seeded" \in Marks /\ hooked' \in BOOLEAN /\ stage # "done"
  BY <1>1 DEF Marks
<1> QED
  BY <1>1, <1>2, <1>3, <1>4, <1>5, BaselineCallStep

LEMMA BaselineStep == IInv /\ Baseline => IInv'
<1> SUFFICES ASSUME IInv, Baseline PROVE IInv'
  OBVIOUS
<1>1. /\ stage = "made" /\ oracle \notin SetupIsBaseline /\ stage' = "again" /\ hooked' = hooked
      /\ UNCHANGED <<target, input, mutated, trace>>
  BY DEF Baseline
<1>2. PICK r \in Results(ComparedApi, Args(ComparedApi, FreeRng)) :
        /\ Call(ComparedApi, Args(ComparedApi, FreeRng), r)
        /\ baseline' = Observe(Len(calls) + 1, r)
  BY DEF Baseline
<1>3. oracle \in Oracles /\ Len(calls) = 2 /\ oracle \in Known \ SetupIsBaseline
  BY <1>1 DEF IInv, ExperimentInv
<1>4. FreeRng \in Marks
  BY <1>3, FreeRngFacts DEF IInv
<1>5. hooked' \in BOOLEAN
  BY <1>1, Zenon DEF IInv, TypeInv
<1> QED
  BY <1>1, <1>2, <1>3, <1>4, <1>5, BaselineCallStep

LEMMA MutatedStep == IInv /\ Mutated => IInv'
<1> SUFFICES ASSUME IInv, Mutated PROVE IInv'
  OBVIOUS
<1>1. UNCHANGED <<target, hooked, oracle, op, observed, skipped, failed, findings>> /\ stage' = "compare"
  BY DEF Mutated, input, trace
<1>2. TypeInv /\ ExperimentInv /\ Answered
  BY DEF IInv
<1>3. stage = "again" \/ (stage = "made" /\ oracle \in SetupIsBaseline)
  BY DEF Mutated
<1>4. oracle \in Known /\ oracle \in Oracles /\ 1 <= Len(calls) /\ Len(calls) <= 3 /\ Plain(Last(0))
  <2>1. CASE stage = "again"
    BY <1>2, <2>1 DEF ExperimentInv
  <2>2. CASE stage = "made" /\ oracle \in SetupIsBaseline
    <3>1. Len(calls) = 2
      BY <1>2, <2>2 DEF ExperimentInv
    <3> QED
      BY <1>2, <2>2, <3>1 DEF ExperimentInv
  <2> QED
    BY <1>3, <2>1, <2>2
<1>17. 1 <= Len(calls) /\ Len(calls) <= 3
  BY <1>4
<1>18. Len(calls) <= 3
  BY <1>17
<1>16. PICK v \in Marks : \E r \in Results(ComparedApi, MutatedArgs(v)) :
         Call(ComparedApi, MutatedArgs(v), r) /\ mutated' = Observe(Len(calls) + 1, r)
  <2>1. MutatedRng \in Marks /\ Mauled \subseteq Marks
    BY DEF MutatedRng, Mauled, Marks
  <2> QED
    BY <2>1 DEF Mutated
<1>5. PICK r \in Results(ComparedApi, MutatedArgs(v)) :
        Call(ComparedApi, MutatedArgs(v), r) /\ mutated' = Observe(Len(calls) + 1, r)
  BY <1>16
<1>6. baseline' = Observe(Len(calls), Last(0))
  <2>1. CASE stage = "again"
    BY <1>2, <2>1 DEF Mutated, ExperimentInv
  <2>2. CASE stage = "made"
    BY <2>2 DEF Mutated, Last
  <2> QED
    BY <1>3, <2>1, <2>2
<1>7. /\ MutatedArgs(v) \in [Inputs[ComparedApi] -> Marks]
      /\ \A f \in Inputs[ComparedApi] \ {"rng", FieldOf[oracle]} : MutatedArgs(v)[f] = "orig"
      /\ ("rng" \in Inputs[ComparedApi] /\ oracle \notin BadRng /\ FixedRng) =>
             MutatedArgs(v)["rng"] = "pattern"
  <2>2. oracle \notin BadRng => FieldOf[oracle] # "rng"
    BY <1>4, FieldIsNotRng
  <2> QED
    BY <1>2, <1>4, <1>16, <1>18, <2>2, MutatedArgsFacts
<1> DEFINE args == MutatedArgs(v)
<1> HIDE DEF args
<1>8. /\ calls' \in Seq(CallType) /\ Len(calls') = Len(calls) + 1 /\ Len(calls) \in 0..3
      /\ Answered'
      /\ calls'[Len(calls')].api = ComparedApi
      /\ calls'[Len(calls')].args = args
      /\ mutated' = Observe(Len(calls'), calls'[Len(calls')])
      /\ \A i \in 1..Len(calls) : calls'[i] = calls[i]
  <2>2. args \in [Inputs[ComparedApi] -> Marks] /\ r \in Results(ComparedApi, args)
        /\ Call(ComparedApi, args, r)
    BY <1>5, <1>7 DEF args
  <2> QED
    BY <1>1, <1>2, <1>4, <1>5, <1>18, <2>2, LastRecord
<1>9. TypeInv'
  <2>1. target' \in Targets /\ hooked' \in BOOLEAN
    BY <1>1, <1>2, Zenon DEF TypeInv
  <2>2. oracle' \in Oracles \cup {"none"} /\ op' \in 0..7 /\ stage' \in Stages
    BY <1>1, <1>2 DEF TypeInv, Stages
  <2>3. calls' \in Seq(CallType) /\ Len(calls') <= 4
    BY <1>8
  <2> QED
    BY <2>1, <2>2, <2>3 DEF TypeInv
<1>10. Last(0)' = calls'[Len(calls')] /\ Last(1)' = Last(0)
  BY <1>4, <1>8 DEF Last
<1>11. ComparedApi' = ComparedApi /\ FixedRng' = FixedRng
  BY <1>1 DEF ComparedApi, FixedRng
<1>12. Plain(Last(1))'
  BY <1>1, <1>4, <1>10, <1>11 DEF Plain
<1>13. OneChanged(Last(0))'
  BY <1>1, <1>7, <1>8, <1>10, <1>11 DEF OneChanged, args
<1>14. Compared'
  <2>1. Len(calls') >= 2 /\ Len(calls') - 1 = Len(calls)
    <3>1. Len(calls') = Len(calls) + 1 /\ 1 <= Len(calls) /\ Len(calls) <= 3
      BY <1>4, <1>8
    <3> QED
      BY <3>1
  <2>2. baseline' = Observe(Len(calls) - 1, Last(1))'
    BY <1>6, <1>10, <2>1 DEF Observe
  <2>3. mutated' = Observe(Len(calls), Last(0))'
    BY <1>8, <1>10 DEF Observe
  <2> QED
    BY <1>1, <1>4, <1>12, <1>13, <2>1, <2>2, <2>3 DEF Compared
<1>15. ExperimentInv'
  <2>1. observed' = "none" /\ oracle' \in Oracles
    BY <1>1, <1>2, <1>3, <1>4 DEF ExperimentInv
  <2> QED
    BY <1>1, <1>14, <2>1 DEF ExperimentInv
<1> QED
  BY <1>8, <1>9, <1>15 DEF IInv

\* The steps that make no call.
LEMMA QuietStep ==
    ASSUME IInv, UNCHANGED <<target, hooked>>, oracle' \in Oracles \cup {"none"}, op' \in 0..7,
           stage' \in Stages, calls' = calls \/ calls' = <<>>
    PROVE  TypeInv' /\ Answered'
<1>1. TypeInv /\ Answered
  BY DEF IInv
<1>2. TypeInv'
  <2>1. target' \in Targets /\ hooked' \in BOOLEAN
    BY <1>1, Zenon DEF TypeInv
  <2>2. calls' \in Seq(CallType) /\ Len(calls') <= 4
    <3>1. CASE calls' = calls
      BY <1>1, <3>1 DEF TypeInv
    <3>2. CASE calls' = <<>>
      BY <3>2
    <3> QED
      BY <3>1, <3>2
  <2> QED
    BY <2>1, <2>2 DEF TypeInv
<1>3. \A a, x : Results(a, x)' = Results(a, x)
  BY TargetFixesResults
<1>4. ASSUME NEW i \in DOMAIN calls' PROVE Answer(calls'[i]) \in Results(calls'[i].api, calls'[i].args)
  <2>1. calls' # <<>>
    BY <1>4
  <2> QED
    BY <1>1, <1>4, <2>1 DEF Answered
<1>5. \A x : Answer(x)' = Answer(x)
  BY DEF Answer
<1> QED
  BY <1>2, <1>3, <1>4, <1>5 DEF Answered

LEMMA QuietExperiment ==
    ASSUME IInv, UnknownOracle \/ SignNotSeedable \/ FinalizeTrace \/ FinalizeSetupFailure \/ Return \/ TakeInput
    PROVE  ExperimentInv'
<1>1. ExperimentInv
  BY DEF IInv
<1>2. CASE UnknownOracle
  <2>1. stage' = "done" /\ observed' = observed /\ stage = "start" /\ oracle' = oracle
    BY <1>2 DEF UnknownOracle, input
  <2> QED
    BY <1>1, <2>1 DEF ExperimentInv
<1>3. CASE SignNotSeedable
  <2>1. stage' = "compare" /\ observed' = observed /\ stage = "keyed" /\ oracle' = oracle
    BY <1>3 DEF SignNotSeedable, input, trace
  <2>2. NotSupported'
    BY <1>3 DEF SignNotSeedable, NotSupported, Unsupported
  <2> QED
    BY <1>1, <2>1, <2>2 DEF ExperimentInv
<1>4. CASE FinalizeTrace
  <2>1. /\ stage' = "done" /\ stage = "compare"
        /\ UNCHANGED <<target, hooked, oracle, calls, baseline, mutated>>
        /\ observed' = CompareObservations(baseline, mutated)
        /\ findings' = FindingClassFor(observed')
    BY <1>4 DEF FinalizeTrace, input
  <2>2. NotSupported \/ Compared
    BY <1>1, <2>1 DEF ExperimentInv
  <2>3. NotSupported' \/ Compared'
    BY <2>1, <2>2 DEF NotSupported, Compared, Plain, OneChanged, Last, Observe, ComparedApi, FixedRng
  <2>4. observed' = CompareObservations(baseline, mutated)' /\ findings' = FindingClassFor(observed)'
    BY <2>1 DEF CompareObservations, FindingClassFor
  <2>5. oracle' \in Oracles
    BY <1>1, <2>1 DEF ExperimentInv
  <2> QED
    BY <2>1, <2>3, <2>4, <2>5 DEF ExperimentInv
<1>5. CASE FinalizeSetupFailure
  <2>1. stage' = "done" /\ observed' = "OBSERVED_SETUP_FAILED" /\ stage = "setup failed" /\ oracle' = oracle
    BY <1>5 DEF FinalizeSetupFailure, input
  <2> QED
    BY <1>1, <2>1 DEF ExperimentInv
<1>6. CASE Return
  <2>1. stage' = "idle" /\ observed' = "none" /\ calls' = <<>>
    BY <1>6 DEF Return
  <2> QED
    BY <2>1 DEF ExperimentInv
<1>7. CASE TakeInput
  <2>1. stage' = "start" /\ observed' = observed /\ stage = "idle" /\ oracle' \in Oracles /\ calls' = calls
    BY <1>7 DEF TakeInput, trace
  <2> QED
    BY <1>1, <2>1 DEF ExperimentInv
<1> QED
  BY <1>2, <1>3, <1>4, <1>5, <1>6, <1>7

LEMMA QuietInv ==
    ASSUME IInv, UnknownOracle \/ SignNotSeedable \/ FinalizeTrace \/ FinalizeSetupFailure \/ Return \/ TakeInput
    PROVE  IInv'
<1>1. TypeInv
  BY DEF IInv
<1>2. oracle \in Oracles \cup {"none"} /\ op \in 0..7 /\ 0 \in 0..7
  BY <1>1 DEF TypeInv
<1>3. UNCHANGED <<target, hooked>>
  BY DEF UnknownOracle, SignNotSeedable, FinalizeTrace, FinalizeSetupFailure, Return, TakeInput
<1>4. stage' \in Stages
  BY DEF UnknownOracle, SignNotSeedable, FinalizeTrace, FinalizeSetupFailure, Return, TakeInput, Stages
<1>5. calls' = calls \/ calls' = <<>>
  BY DEF UnknownOracle, SignNotSeedable, FinalizeTrace, FinalizeSetupFailure, Return, TakeInput
<1>6. oracle' \in Oracles \cup {"none"} /\ op' \in 0..7
  BY <1>2 DEF UnknownOracle, SignNotSeedable, FinalizeTrace, FinalizeSetupFailure, Return, TakeInput, input
<1>7. TypeInv' /\ Answered'
  BY <1>3, <1>4, <1>5, <1>6, QuietStep
<1> QED
  BY <1>7, QuietExperiment DEF IInv

LEMMA StutterInv ==
    ASSUME IInv, UNCHANGED vars
    PROVE  IInv'
<1>1. UNCHANGED <<target, hooked, oracle, op, stage, calls, baseline, mutated, observed, skipped,
                  failed, findings>>
  BY DEF vars, input, trace
<1>2. TypeInv' /\ Answered'
  <2>1. oracle' \in Oracles \cup {"none"} /\ op' \in 0..7 /\ stage' \in Stages
    BY <1>1 DEF IInv, TypeInv
  <2> QED
    BY <1>1, <2>1, QuietStep
<1>3. ExperimentInv'
  BY <1>1 DEF IInv, ExperimentInv, NotSupported, Compared, Plain, OneChanged, Last, Observe,
              ComparedApi, FixedRng, CompareObservations, FindingClassFor
<1> QED
  BY <1>2, <1>3 DEF IInv

LEMMA NextInv == IInv /\ [Next]_vars => IInv'
BY SetupKeygenStep, SetupMakeStep, BaselineUnderTapeStep, BaselineStep, MutatedStep, QuietInv,
   StutterInv DEF Next

\* The executor's control and the target's answers, at every step of every
\* input.
THEOREM Invariance == Spec => []IInv
BY InitInv, NextInv, PTL DEF Spec

-----------------------------------------------------------------------------
(* The properties. *)

LEMMA VerdictFacts ==
    ASSUME IInv, Verdict
    PROVE  /\ oracle \in Known /\ Plain(BaseCall) /\ OneChanged(MutCall)
           /\ baseline.call # 0 /\ mutated.call # 0 /\ baseline.call # mutated.call
           /\ baseline.call \in DOMAIN calls /\ mutated.call \in DOMAIN calls
           /\ baseline.status = BaseCall.status /\ baseline.bytes = BaseCall.out
           /\ mutated.status = MutCall.status /\ mutated.bytes = MutCall.out
           /\ observed = CompareObservations(baseline, mutated)
           /\ findings = FindingClassFor(observed)
<1>1. /\ NotSupported \/ Compared
      /\ observed = CompareObservations(baseline, mutated)
      /\ findings = FindingClassFor(observed)
  BY DEF IInv, ExperimentInv, Verdict, Done
<1>2. ~NotSupported
  <2> SUFFICES ASSUME NotSupported PROVE FALSE
    OBVIOUS
  <2>1. baseline.status = "API_UNSUPPORTED" /\ mutated.status = "API_UNSUPPORTED"
    BY DEF NotSupported
  <2>2. observed = "OBSERVED_UNSUPPORTED"
    BY <1>1, <2>1 DEF CompareObservations
  <2> QED
    BY <2>2 DEF Verdict
<1>3. /\ oracle \in Known /\ Len(calls) >= 2
      /\ Plain(Last(1)) /\ baseline = Observe(Len(calls) - 1, Last(1))
      /\ OneChanged(Last(0)) /\ mutated = Observe(Len(calls), Last(0))
  BY <1>1, <1>2 DEF Compared
<1>4. Len(calls) \in Nat /\ DOMAIN calls = 1..Len(calls)
  BY DEF IInv, TypeInv
<1> DEFINE n == Len(calls)
<1>5. /\ baseline.call = n - 1 /\ baseline.status = Last(1).status /\ baseline.bytes = Last(1).out
      /\ mutated.call = n /\ mutated.status = Last(0).status /\ mutated.bytes = Last(0).out
  BY <1>3 DEF Observe
<1>6. Last(1) = calls[n - 1] /\ Last(0) = calls[n]
  BY <1>4 DEF Last
<1>7. BaseCall = Last(1) /\ MutCall = Last(0)
  BY <1>5, <1>6 DEF BaseCall, MutCall
<1>8. n \in Nat /\ n >= 2 /\ DOMAIN calls = 1..n
  BY <1>3, <1>4
<1> HIDE DEF n
<1>9. n - 1 # 0 /\ n # 0 /\ n - 1 # n /\ n - 1 \in 1..n /\ n \in 1..n
  BY <1>8
<1> QED
  BY <1>1, <1>3, <1>5, <1>7, <1>8, <1>9

\* The compared calls differ in the oracle's field, or in randomness the
\* oracle does not control.
LEMMA DifferingFacts ==
    ASSUME oracle \in Known, NEW b, Plain(b), NEW m, OneChanged(m),
           NEW f \in DOMAIN b.args, b.args[f] # m.args[f]
    PROVE  f \in MayDiffer
<1>1. f \in Inputs[ComparedApi] /\ (oracle \in BadRng => FieldOf[oracle] = "rng")
  BY FieldFacts DEF Plain
<1>2. CASE f = FieldOf[oracle]
  BY <1>2 DEF MayDiffer
<1>3. CASE f # FieldOf[oracle] /\ f = "rng"
  <2>1. oracle \notin BadRng
    BY <1>1, <1>3
  <2>2. oracle \in SetupIsBaseline
    BY <1>1, <1>3, <2>1, ComparedFacts
  <2>3. ~FixedRng
    BY <1>1, <1>3, <2>1 DEF Plain, OneChanged
  <2> QED
    BY <1>3, <2>2, <2>3 DEF MayDiffer, FixedRng
<1>4. CASE f # FieldOf[oracle] /\ f # "rng"
  BY <1>1, <1>4 DEF Plain, OneChanged
<1> QED
  BY <1>2, <1>3, <1>4

\* A verdict of equal or different is about two calls that were really made,
\* to one API, on inputs that differ in the oracle's field alone (or in
\* randomness nothing fixes).
THEOREM OneField == Spec => []OneFieldExperiment
<1>1. IInv => OneFieldExperiment
  <2> SUFFICES ASSUME IInv, Verdict
               PROVE  /\ baseline.call # 0 /\ mutated.call # 0 /\ baseline.call # mutated.call
                      /\ BaseCall.api = MutCall.api
                      /\ Differing \subseteq MayDiffer
    BY DEF OneFieldExperiment
  <2>1. /\ oracle \in Known /\ Plain(BaseCall) /\ OneChanged(MutCall)
        /\ baseline.call # 0 /\ mutated.call # 0 /\ baseline.call # mutated.call
    BY VerdictFacts
  <2>2. BaseCall.api = MutCall.api
    BY <2>1 DEF Plain, OneChanged
  <2>3. \A f \in DOMAIN BaseCall.args : BaseCall.args[f] # MutCall.args[f] => f \in MayDiffer
    BY <2>1, DifferingFacts
  <2> QED
    BY <2>1, <2>2, <2>3 DEF Differing
<1> QED
  BY <1>1, Invariance, PTL

\* What a call of a target that has every API and does not fail returned.
LEMMA HealthyCall ==
    ASSUME IInv, Healthy, NEW i \in DOMAIN calls
    PROVE  LET c == calls[i]
           IN  \/ /\ WrongLength(c.api, c.args) \/ MayNotFit(c.api, c.args)
                  /\ c.status = "INVALID_INPUT"
               \/ /\ ~WrongLength(c.api, c.args)
                  /\ c.status = Computed(c.api, c.args).status /\ c.out = Computed(c.api, c.args).out
<1> DEFINE c == calls[i]
<1>1. Answer(c) \in Results(c.api, c.args) /\ ~c.fault /\ target.missing = {}
  BY DEF IInv, Answered, Healthy
<1> HIDE DEF c
<1>2. Answer(c).status = c.status /\ Answer(c).out = c.out /\ Answer(c).fault = c.fault
  BY DEF Answer
<1>3. CASE WrongLength(c.api, c.args)
  <2>1. Answer(c) = Refused(c.api)
    BY <1>1, <1>3 DEF Results
  <2> QED
    BY <1>2, <1>3, <2>1 DEF Refused, c
<1>4. CASE ~WrongLength(c.api, c.args)
  <2>1. Answer(c) \notin Faults(c.api)
    <3>1. \A x \in Faults(c.api) : x.fault = TRUE
      BY FaultsType
    <3> QED
      BY <1>1, <1>2, <3>1, Zenon
  <2>2. CASE Answer(c) = Computed(c.api, c.args)
    BY <1>2, <1>4, <2>2 DEF c
  <2>3. CASE MayNotFit(c.api, c.args) /\ Answer(c) = Refused(c.api)
    BY <1>2, <2>3 DEF Refused, c
  <2> QED
    BY <1>1, <1>4, <2>1, <2>2, <2>3 DEF Results
<1> QED
  BY <1>3, <1>4

\* A working target computes what it is asked on unchanged fields.
LEMMA PlainCall ==
    ASSUME IInv, Healthy, oracle \in Known, NEW i \in DOMAIN calls, Plain(calls[i])
    PROVE  /\ calls[i].status = "OK"
           /\ calls[i].out = Computed(ComparedApi, calls[i].args).out
<1> DEFINE c == calls[i]
<1>1. /\ c.api = ComparedApi /\ DOMAIN c.args = Inputs[ComparedApi]
      /\ \A f \in Inputs[ComparedApi] \ {"rng"} : c.args[f] = "orig"
  BY DEF Plain
<1>2. ComparedApi \in Apis
  BY ComparedFacts
<1> HIDE DEF c
<1>3. ~WrongLength(ComparedApi, c.args)
  BY <1>1 DEF WrongLength, Resized
<1>4. ~MayNotFit(ComparedApi, c.args)
  BY <1>1 DEF MayNotFit, Inputs
<1>5. c.status = Computed(ComparedApi, c.args).status /\ c.out = Computed(ComparedApi, c.args).out
  BY <1>1, <1>3, <1>4, HealthyCall DEF c
<1>6. Computed(ComparedApi, c.args).status = "OK"
  <2>1. CASE ComparedApi = "verify"
    <3>1. \A f \in DOMAIN c.args : c.args[f] = "orig"
      BY <1>1, <2>1 DEF Inputs
    <3>2. \A p \in Effective(c.args) : p[2] = "orig"
      BY <3>1 DEF Effective
    <3> QED
      BY <2>1, <3>2 DEF Computed, Verified
  <2>2. CASE ComparedApi # "verify"
    BY <2>2 DEF Computed
  <2> QED
    BY <2>1, <2>2
<1> QED
  BY <1>5, <1>6 DEF c

LEMMA ComputedStatus ==
    ASSUME NEW api, NEW args
    PROVE  Computed(api, args).status \in {"OK", "REJECT"}
BY DEF Computed, Verified

LEMMA CompareValue ==
    ASSUME NEW a, NEW b, a.status = "OK", b.status \in {"OK", "REJECT", "INVALID_INPUT"}
    PROVE  CompareObservations(a, b) =
             IF a.status = b.status /\ a.bytes = b.bytes THEN "OBSERVED_EQUAL" ELSE "OBSERVED_DIFFERENT"
BY DEF CompareObservations

\* A target that works and reads the oracle's field is not reported once the
\* mutation has changed that field: no false alarm.
THEOREM SensitiveCleared == Spec => []SensitiveTargetIsCleared
<1>1. IInv => SensitiveTargetIsCleared
  <2> SUFFICES ASSUME IInv, Verdict, Healthy, target.ignores # FieldOf[oracle],
                      FieldOf[oracle] \in Differing
               PROVE  findings = <<>>
    BY DEF SensitiveTargetIsCleared
  <2> DEFINE b == BaseCall
             m == MutCall
             F == FieldOf[oracle]
  <2>1. /\ oracle \in Known /\ Plain(b) /\ OneChanged(m)
        /\ baseline.call \in DOMAIN calls /\ mutated.call \in DOMAIN calls
        /\ baseline.status = b.status /\ baseline.bytes = b.out
        /\ mutated.status = m.status /\ mutated.bytes = m.out
        /\ observed = CompareObservations(baseline, mutated)
        /\ findings = FindingClassFor(observed)
    BY VerdictFacts
  <2>2. F \in DOMAIN b.args /\ b.args[F] # m.args[F]
    BY DEF Differing
  <2>3. b.status = "OK" /\ b.out = Computed(ComparedApi, b.args).out
    BY <2>1, PlainCall DEF BaseCall
  <2>4. \/ m.status = "INVALID_INPUT"
        \/ /\ m.status = Computed(ComparedApi, m.args).status
           /\ m.out = Computed(ComparedApi, m.args).out
    <3>1. m.api = ComparedApi
      BY <2>1 DEF OneChanged
    <3> QED
      BY <2>1, <3>1, HealthyCall DEF MutCall
  <2>5. /\ DOMAIN b.args = Inputs[ComparedApi] /\ DOMAIN m.args = Inputs[ComparedApi]
        /\ F # "rng" => b.args[F] = "orig"
    BY <2>1, <2>2 DEF Plain, OneChanged
  <2> HIDE DEF b, m, F
  <2>6. F # target.ignores
    BY DEF F
  <2>7. <<F, m.args[F]>> \in Effective(m.args) /\ <<F, b.args[F]>> \in Effective(b.args)
    BY <2>2, <2>5, <2>6 DEF Effective
  <2>8. <<F, b.args[F]>> \notin Effective(m.args)
    BY <2>2 DEF Effective
  <2>9. ~(baseline.status = mutated.status /\ baseline.bytes = mutated.bytes)
    <3>1. CASE m.status = "INVALID_INPUT"
      BY <2>1, <2>3, <3>1
    <3>2. CASE m.status = Computed(ComparedApi, m.args).status /\ m.out = Computed(ComparedApi, m.args).out
      <4>1. CASE ComparedApi = "verify"
        <5>1. F # "rng"
          BY <2>2, <2>5, <4>1 DEF Inputs
        <5>2. m.args[F] # "orig"
          BY <2>2, <2>5, <5>1
        <5>3. m.status = "REJECT"
          BY <2>7, <3>2, <4>1, <5>2 DEF Computed, Verified
        <5> QED
          BY <2>1, <2>3, <5>3
      <4>2. CASE ComparedApi # "verify"
        <5>1. b.out = Effective(b.args) /\ m.out = Effective(m.args)
          BY <2>3, <3>2, <4>2 DEF Computed
        <5> QED
          BY <2>1, <2>7, <2>8, <5>1
      <4> QED
        BY <4>1, <4>2
    <3> QED
      BY <2>4, <3>1, <3>2
  <2>10. mutated.status \in {"OK", "REJECT", "INVALID_INPUT"}
    BY <2>1, <2>4, ComputedStatus
  <2>11. observed = "OBSERVED_DIFFERENT"
    BY <2>1, <2>3, <2>9, <2>10, CompareValue
  <2> QED
    BY <2>1, <2>11 DEF FindingClassFor
<1> QED
  BY <1>1, Invariance, PTL

\* A working target that ignores the oracle's field is reported when nothing
\* else distinguishes the compared calls: no missed flaw.
THEOREM IgnoredReported == Spec => []IgnoredFieldIsReported
<1>1. IInv => IgnoredFieldIsReported
  <2> SUFFICES ASSUME IInv, Verdict, Healthy, target.ignores = FieldOf[oracle],
                      Differing \subseteq {FieldOf[oracle]},
                      ~(\E f \in Differing : MutCall.args[f] \in Resized)
               PROVE  findings = <<"malleability">>
    BY DEF IgnoredFieldIsReported
  <2> DEFINE b == BaseCall
             m == MutCall
             F == FieldOf[oracle]
  <2>1. /\ oracle \in Known /\ Plain(b) /\ OneChanged(m)
        /\ baseline.call \in DOMAIN calls /\ mutated.call \in DOMAIN calls
        /\ baseline.status = b.status /\ baseline.bytes = b.out
        /\ mutated.status = m.status /\ mutated.bytes = m.out
        /\ observed = CompareObservations(baseline, mutated)
        /\ findings = FindingClassFor(observed)
    BY VerdictFacts
  <2>2. b.status = "OK" /\ b.out = Computed(ComparedApi, b.args).out
    BY <2>1, PlainCall DEF BaseCall
  <2>3. /\ m.api = ComparedApi /\ DOMAIN m.args = Inputs[ComparedApi]
        /\ DOMAIN b.args = Inputs[ComparedApi]
        /\ \A f \in Inputs[ComparedApi] \ {"rng"} : b.args[f] = "orig"
    BY <2>1 DEF OneChanged, Plain
  <2>4. \A f \in Inputs[ComparedApi] : f # F => b.args[f] = m.args[f]
    BY <2>3 DEF Differing
  <2>5. \A f \in Inputs[ComparedApi] \ {"rng"} : m.args[f] \notin Resized
    <3> SUFFICES ASSUME NEW f \in Inputs[ComparedApi] \ {"rng"}, m.args[f] \in Resized PROVE FALSE
      OBVIOUS
    <3>1. b.args[f] # m.args[f]
      BY <2>3 DEF Resized
    <3> QED
      BY <2>3, <3>1 DEF Differing
  <2>6. ~WrongLength(ComparedApi, m.args) /\ ~MayNotFit(ComparedApi, m.args)
    <3>1. ~WrongLength(ComparedApi, m.args)
      BY <2>5 DEF WrongLength
    <3>2. ~MayNotFit(ComparedApi, m.args)
      BY <2>5 DEF MayNotFit, Inputs, Resized
    <3> QED
      BY <3>1, <3>2
  <2>7. m.status = Computed(ComparedApi, m.args).status /\ m.out = Computed(ComparedApi, m.args).out
    BY <2>1, <2>3, <2>6, HealthyCall DEF MutCall
  <2>8. Effective(m.args) = Effective(b.args)
    <3>1. target.ignores = F
      OBVIOUS
    <3> HIDE DEF b, m, F
    <3> QED
      BY <2>3, <2>4, <3>1 DEF Effective
  <2>9. Computed(ComparedApi, m.args) = Computed(ComparedApi, b.args)
    BY <2>8 DEF Computed, Verified
  <2>10. Computed(ComparedApi, b.args).status = "OK"
    <3>1. CASE ComparedApi = "verify"
      <4>1. \A f \in DOMAIN b.args : b.args[f] = "orig"
        BY <2>3, <3>1 DEF Inputs
      <4>2. \A p \in Effective(b.args) : p[2] = "orig"
        BY <4>1 DEF Effective
      <4> QED
        BY <3>1, <4>2 DEF Computed, Verified
    <3>2. CASE ComparedApi # "verify"
      BY <3>2 DEF Computed
    <3> QED
      BY <3>1, <3>2
  <2>11. mutated.status = "OK" /\ mutated.bytes = baseline.bytes
    BY <2>1, <2>2, <2>7, <2>9, <2>10
  <2>12. observed = "OBSERVED_EQUAL"
    BY <2>1, <2>2, <2>11, CompareValue
  <2> QED
    BY <2>1, <2>12 DEF FindingClassFor
<1> QED
  BY <1>1, Invariance, PTL
=============================================================================
