---------------------------- MODULE FieldMutation -----------------------------
(***************************************************************************)
(* What a mutation plan does to a field: the layouts and mutators of       *)
(* ML-KEM, ML-DSA and SLH-DSA and the generic one of the metamorphic       *)
(* oracles (src/mutators).  A field is known by its length, and the bytes  *)
(* a mutation overwrites by what they held before.                         *)
(*                                                                         *)
(* A plan is a sequence of bytes; what it is too short for has a fallback. *)
(***************************************************************************)
EXTENDS Integers, Sequences

Bytes == 0..255
Plans == Seq(Bytes)

PlanByte(plan, index, fallback) == IF index < Len(plan) THEN plan[index + 1] ELSE fallback

Less(a, b) == IF a < b THEN a ELSE b
Larger(a, b) == IF a > b THEN a ELSE b

-----------------------------------------------------------------------------
\* The parameter tables of the layouts: what the mutators and the lengths of
\* the fields need of them.

KemRow(pk, sk, ct, k, du, dv) == [pk |-> pk, sk |-> sk, ct |-> ct, k |-> k, du |-> du, dv |-> dv]
MlKemParams ==
    [a \in {"ML-KEM-512", "ML-KEM-768", "ML-KEM-1024"} |->
        CASE a = "ML-KEM-512" -> KemRow(800, 1632, 768, 2, 10, 4)
          [] a = "ML-KEM-768" -> KemRow(1184, 2400, 1088, 3, 10, 4)
          [] a = "ML-KEM-1024" -> KemRow(1568, 3168, 1568, 4, 11, 5)]

DsaRow(pk, sk, sig) == [pk |-> pk, sk |-> sk, sig |-> sig]
MlDsaParams ==
    [a \in {"ML-DSA-44", "ML-DSA-65", "ML-DSA-87"} |->
        CASE a = "ML-DSA-44" -> DsaRow(1312, 2560, 2420)
          [] a = "ML-DSA-65" -> DsaRow(1952, 4032, 3309)
          [] a = "ML-DSA-87" -> DsaRow(2592, 4896, 4627)]

SlhRow(n, sig, d, a, k) ==
    [pk |-> 2 * n, sk |-> 4 * n, sig |-> sig, n |-> n, d |-> d, a |-> a, k |-> k]
SlhDsaParams ==
    [a \in {"SLH-DSA-SHA2-128s", "SLH-DSA-SHAKE-128s", "SLH-DSA-SHA2-128f", "SLH-DSA-SHAKE-128f",
            "SLH-DSA-SHA2-192s", "SLH-DSA-SHAKE-192s", "SLH-DSA-SHA2-192f", "SLH-DSA-SHAKE-192f",
            "SLH-DSA-SHA2-256s", "SLH-DSA-SHAKE-256s", "SLH-DSA-SHA2-256f", "SLH-DSA-SHAKE-256f"} |->
        CASE a \in {"SLH-DSA-SHA2-128s", "SLH-DSA-SHAKE-128s"} -> SlhRow(16, 7856, 7, 12, 14)
          [] a \in {"SLH-DSA-SHA2-128f", "SLH-DSA-SHAKE-128f"} -> SlhRow(16, 17088, 22, 6, 33)
          [] a \in {"SLH-DSA-SHA2-192s", "SLH-DSA-SHAKE-192s"} -> SlhRow(24, 16224, 7, 14, 17)
          [] a \in {"SLH-DSA-SHA2-192f", "SLH-DSA-SHAKE-192f"} -> SlhRow(24, 35664, 22, 8, 33)
          [] a \in {"SLH-DSA-SHA2-256s", "SLH-DSA-SHAKE-256s"} -> SlhRow(32, 29792, 8, 14, 22)
          [] a \in {"SLH-DSA-SHA2-256f", "SLH-DSA-SHAKE-256f"} -> SlhRow(32, 49856, 17, 9, 35)]

-----------------------------------------------------------------------------
\* Layouts.

Region(name, offset, length) == [name |-> name, offset |-> offset, length |-> length]

\* Mutant: the second part is looked for behind the whole ciphertext.
CiphertextRegionsLate(p) ==
    <<Region("ciphertext.u", 0, 32 * p.du * p.k),
      Region("ciphertext.v", 32 * (p.du * p.k + p.dv), 32 * p.dv)>>

CiphertextRegions(p) ==
    <<Region("ciphertext.u", 0, 32 * p.du * p.k),
      Region("ciphertext.v", 32 * p.du * p.k, 32 * p.dv)>>

MlDsaSignatureRegions(size) ==
    LET c == Less(32, size)
        h == Less(96, size - c)
        z == size - c - h
    IN  <<Region("signature.c", 0, c), Region("signature.z", c, z), Region("signature.h", c + z, h)>>

SlhDsaSignatureRegions(p, size) ==
    LET r == Less(p.n, size)
        fors == Less(p.k * (p.a + 1) * p.n, size - r)
        sight == size - r - fors
        wots == Less(67 * p.n * p.d, sight)
    IN  <<Region("signature.R", 0, r),
          Region("signature.SIGFORS", r, fors),
          Region("signature.SIGHT", r + fors, sight),
          Region("signature.WOTS", r + fors, wots),
          Region("signature.XMSS_AUTH_PATH", r + fors + wots, sight - wots)>>

SingleRegion(name, size) == <<Region(name, 0, size)>>

-----------------------------------------------------------------------------
(***************************************************************************)
(* A mutation of a field of length before: the region it is about, how the *)
(* bytes offset..offset+length-1 are overwritten (or that the field is cut *)
(* at offset, a byte is appended there, or nothing is done), the byte it   *)
(* is done with and the length after.                                      *)
(***************************************************************************)
Mutation(region, how, offset, length, value, before, after) ==
    [region |-> region, how |-> how, offset |-> offset, length |-> length,
     value |-> value, before |-> before, after |-> after]

\* The operations on one byte.  Those beyond the first six of ML-DSA and
\* SLH-DSA, named after a region or a field, flip a bit like the first.
ByteOperation(op) == IF op \in 1..3 THEN <<"xor", "zero", "ones">>[op] ELSE "flip"

\* ApplyMutationToRegions of ml_kem_mutator.cc.
MutateCiphertext(p, plan, size) ==
    LET regions == CiphertextRegions(p)
        op == PlanByte(plan, 0, 0) % 8
        region == regions[(PlanByte(plan, 1, 0) % 2) + 1]
        span == Less(region.length, size - region.offset)
        at == region.offset + (PlanByte(plan, 2, 0) % span)
        Did(how, offset, length, after) ==
            Mutation(region, how, offset, length, PlanByte(plan, 3, 165), size, after)
    IN  IF region.offset >= size \/ region.length = 0 THEN Did("skip", region.offset, 0, size)
        ELSE CASE op < 4 -> Did(ByteOperation(op), at, 1, size)
               [] op = 4 -> Did("cut", at, 0, at)
               [] op = 5 -> Did("push", size, 1, size + 1)
               [] op = 6 -> Did("xor", region.offset, span, size)
               [] op = 7 -> Did("zero", region.offset, span, size)

\* The region a plan picks for a buffer that is not empty; one that is empty
\* or outside becomes the whole buffer.
PickedRegion(regions, ops, named, plan, buffer) ==
    LET op == PlanByte(plan, 0, 0) % ops
        index == IF op \in DOMAIN named THEN named[op] ELSE PlanByte(plan, 1, 0)
        picked == regions[(index % Len(regions)) + 1]
    IN  IF picked.length = 0 \/ picked.offset >= buffer THEN Region("whole", 0, buffer) ELSE picked

\* Mutant: the position is not taken modulo the length of the region.
PositionUnbounded(region, plan, buffer) == Less(region.offset + PlanByte(plan, 2, 0), buffer - 1)

Position(region, plan, buffer) ==
    LET span == Larger(Less(region.length, buffer - region.offset), 1)
    IN  Less(region.offset + (PlanByte(plan, 2, 0) % span), buffer - 1)

\* ApplyRegionMutation of ml_dsa_mutator.cc and slh_dsa_mutator.cc, which
\* differ in their operations: there are ops of them and named gives the
\* index of the region an operation is named after.  An empty field gets a
\* byte first.
MutateRegion(regions, ops, named, plan, size) ==
    LET op == PlanByte(plan, 0, 0) % ops
        buffer == Larger(size, 1)
        region == PickedRegion(regions, ops, named, plan, buffer)
        at == Position(region, plan, buffer)
        Did(how, offset, length, after) ==
            Mutation(region, how, offset, length, PlanByte(plan, 3, 165), size, after)
    IN  CASE op = 4 -> Did("cut", at, 0, at)
          [] op = 5 -> Did("push", buffer, 1, buffer + 1)
          [] OTHER -> Did(ByteOperation(op), at, 1, buffer)

MlDsaNamed == [op \in 6..8 |-> op - 6]
SlhDsaNamed == [op \in 6..10 |-> op - 6]

MutateMlDsa(regions, plan, size) == MutateRegion(regions, 11, MlDsaNamed, plan, size)
MutateSlhDsa(regions, plan, size) == MutateRegion(regions, 12, SlhDsaNamed, plan, size)

\* MaulBytes of maul.cc has no regions, so the plan's second byte is the
\* position and the third the value.  An empty field is skipped unless it is
\* appended to or filled with the plan.
Maul(plan, size) ==
    LET op == PlanByte(plan, 0, 0) % 8
        at == IF size = 0 THEN 0 ELSE PlanByte(plan, 1, 0) % size
        Did(how, offset, length, after) ==
            Mutation(Region("whole", 0, size), how, offset, length, PlanByte(plan, 2, 165), size, after)
    IN  CASE size = 0 /\ op \notin {5, 7} -> Did("skip", 0, 0, size)
          [] size > 0 /\ op < 4 -> Did(ByteOperation(op), at, 1, size)
          [] size > 0 /\ op = 4 -> Did("cut", at, 0, at)
          [] op = 5 -> Did("push", size, 1, size + 1)
          [] size > 0 /\ op = 6 -> Did("zero", 0, size, size)
          [] op = 7 -> Did("fill", 0, size, size)

-----------------------------------------------------------------------------
\* Whether the field is another one afterwards; same says that the bytes
\* already held what they are set to.
Altered(m, same) ==
    \/ m.after # m.before
    \/ /\ m.length > 0
       /\ \/ m.how = "flip"
          \/ m.how = "xor" /\ m.value # 0
          \/ m.how \in {"zero", "ones", "fill"} /\ ~same

\* A mutation stays inside the field and inside the region it names.  Only
\* an empty field is given a byte before it is mutated.
Confined(m) ==
    LET field == IF m.before = 0 /\ m.how # "push" THEN m.after ELSE m.before
    IN  /\ m.how = "skip" => m.after = m.before /\ m.length = 0
        /\ m.how = "cut" => m.after = m.offset /\ m.after >= m.region.offset
        /\ m.how = "push" => m.offset + 1 = m.after
        /\ m.how \notin {"skip", "cut", "push"} =>
               /\ m.after = field
               /\ m.region.offset <= m.offset
               /\ m.offset + m.length <= Less(field, m.region.offset + m.region.length)
=============================================================================
