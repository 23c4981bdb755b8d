--------------------------- MODULE InputPathProofs ----------------------------
(***************************************************************************)
(* What the mutators do for every plan, every length of a field and every  *)
(* layout, proved of the operators of FieldMutation, and on top of it the  *)
(* safety of InputPath: from pair files to a replayed finding.             *)
(***************************************************************************)
EXTENDS InputPath, TLAPS, WellFoundedInduction

IsRegion(region) == region.offset \in Nat /\ region.length \in Nat
IsLayout(regions) ==
    /\ Len(regions) \in Nat /\ Len(regions) > 0 /\ DOMAIN regions = 1..Len(regions)
    /\ \A i \in DOMAIN regions : IsRegion(regions[i])

LEMMA PlanByteIsNat ==
    ASSUME NEW plan \in Plans, NEW i \in Nat, NEW f \in Nat
    PROVE  PlanByte(plan, i, f) \in Nat
  <1>1. plan \in Seq(Bytes)
    BY DEF Plans
  <1>2. CASE i < Len(plan)
    <2>1. i + 1 \in 1..Len(plan)
      BY <1>1, <1>2
    <2>2. plan[i + 1] \in Bytes
      BY <1>1, <2>1
    <2>3. plan[i + 1] \in Nat
      BY <2>2 DEF Bytes
    <2> QED
      BY <1>2, <2>3 DEF PlanByte
  <1>3. CASE ~(i < Len(plan))
    BY <1>3 DEF PlanByte
  <1> QED
    BY <1>2, <1>3

LEMMA Remainder ==
    ASSUME NEW a \in Nat, NEW n \in Nat, n > 0
    PROVE  a % n \in Nat /\ a % n < n
  OBVIOUS

\* The region a mutation of ML-DSA or SLH-DSA works on is not empty and
\* starts inside the buffer.
LEMMA PickedIsInside ==
    ASSUME NEW regions, IsLayout(regions),
           NEW ops \in Nat, ops > 0, NEW named, \A op \in DOMAIN named : named[op] \in Nat,
           NEW plan \in Plans, NEW buffer \in Nat, buffer > 0
    PROVE  LET region == PickedRegion(regions, ops, named, plan, buffer)
           IN  IsRegion(region) /\ region.length > 0 /\ region.offset < buffer
  <1> DEFINE op == PlanByte(plan, 0, 0) % ops
             index == IF op \in DOMAIN named THEN named[op] ELSE PlanByte(plan, 1, 0)
             count == Len(regions)
             at == index % count
             picked == regions[at + 1]
  <1>1. PlanByte(plan, 1, 0) \in Nat
    BY PlanByteIsNat
  <1>2. index \in Nat
    BY <1>1
  <1>3. count \in Nat /\ count > 0 /\ DOMAIN regions = 1..count
    BY DEF IsLayout
  <1>4. at \in Nat /\ at < count
    <2> HIDE DEF index, count
    <2> QED BY <1>2, <1>3, Remainder
  <1>5. IsRegion(picked)
    <2> HIDE DEF at, count
    <2>1. at + 1 \in DOMAIN regions
      BY <1>3, <1>4
    <2> QED
      BY <2>1 DEF IsLayout
  <1>6. IsRegion(Region("whole", 0, buffer))
    BY DEF Region, IsRegion
  <1>7. PickedRegion(regions, ops, named, plan, buffer)
          = IF picked.length = 0 \/ picked.offset >= buffer THEN Region("whole", 0, buffer) ELSE picked
    BY DEF PickedRegion
  <1> HIDE DEF picked
  <1> QED
    BY <1>5, <1>6, <1>7 DEF Region, IsRegion

\* The position is one of the region and of the buffer.
LEMMA PositionIsInside ==
    ASSUME NEW region, IsRegion(region), NEW plan \in Plans, NEW buffer \in Nat,
           region.length > 0, region.offset < buffer
    PROVE  LET at == Position(region, plan, buffer)
           IN  /\ at \in Nat /\ at < buffer
               /\ region.offset <= at /\ at < region.offset + region.length
  <1> DEFINE byte == PlanByte(plan, 2, 0)
             span == Larger(Less(region.length, buffer - region.offset), 1)
             relative == byte % span
  <1>1. byte \in Nat
    BY PlanByteIsNat
  <1>2. /\ span \in Nat /\ span > 0
        /\ span <= region.length /\ span <= buffer - region.offset
    BY DEF IsRegion, Larger, Less
  <1>3. relative \in Nat /\ relative < span
    <2> HIDE DEF byte, span
    <2> QED BY <1>1, <1>2, Remainder
  <1>4. Position(region, plan, buffer) = Less(region.offset + relative, buffer - 1)
    BY DEF Position
  <1> HIDE DEF relative, span
  <1> QED
    BY <1>2, <1>3, <1>4 DEF IsRegion, Less

\* ApplyRegionMutation of ml_dsa_mutator.cc and slh_dsa_mutator.cc writes, cuts
\* and appends only inside the buffer and the region it names, for every
\* layout, plan and length.
THEOREM RegionMutationConfined ==
    ASSUME NEW regions, IsLayout(regions),
           NEW ops \in Nat, ops > 0, NEW named, \A op \in DOMAIN named : named[op] \in Nat,
           NEW plan \in Plans, NEW size \in Nat
    PROVE  Confined(MutateRegion(regions, ops, named, plan, size))
  <1> DEFINE op == PlanByte(plan, 0, 0) % ops
             buffer == Larger(size, 1)
             region == PickedRegion(regions, ops, named, plan, buffer)
             at == Position(region, plan, buffer)
             value == PlanByte(plan, 3, 165)
             m == MutateRegion(regions, ops, named, plan, size)
  <1>1. /\ buffer \in Nat /\ buffer > 0
        /\ size = 0 => buffer = 1
        /\ size > 0 => buffer = size
    BY DEF Larger
  <1>2. IsRegion(region) /\ region.length > 0 /\ region.offset < buffer
    <2> HIDE DEF buffer
    <2> QED BY <1>1, PickedIsInside
  <1>3. /\ at \in Nat /\ at < buffer
        /\ region.offset <= at /\ at < region.offset + region.length
    <2> HIDE DEF buffer, region
    <2> QED BY <1>1, <1>2, PositionIsInside
  <1>4. m = CASE op = 4 -> Mutation(region, "cut", at, 0, value, size, at)
              [] op = 5 -> Mutation(region, "push", buffer, 1, value, size, buffer + 1)
              [] OTHER -> Mutation(region, ByteOperation(op), at, 1, value, size, buffer)
    BY DEF MutateRegion
  <1>5. ByteOperation(op) \in {"flip", "xor", "zero", "ones"}
    BY DEF ByteOperation
  <1> HIDE DEF op, buffer, region, at, value, m
  <1>6. op = 4 => Confined(m)
    <2> SUFFICES ASSUME op = 4 PROVE Confined(m)
      OBVIOUS
    <2>1. m = Mutation(region, "cut", at, 0, value, size, at)
      BY <1>4
    <2> QED
      BY <1>1, <1>2, <1>3, <2>1 DEF Confined, Mutation, IsRegion, Less
  <1>7. op = 5 => Confined(m)
    <2> SUFFICES ASSUME op = 5 PROVE Confined(m)
      OBVIOUS
    <2>1. m = Mutation(region, "push", buffer, 1, value, size, buffer + 1)
      BY <1>4
    <2> QED
      BY <1>1, <1>2, <1>3, <2>1 DEF Confined, Mutation, IsRegion, Less
  <1>8. op # 4 /\ op # 5 => Confined(m)
    <2> SUFFICES ASSUME op # 4, op # 5 PROVE Confined(m)
      OBVIOUS
    <2>1. m = Mutation(region, ByteOperation(op), at, 1, value, size, buffer)
      BY <1>4
    <2> QED
      BY <1>1, <1>2, <1>3, <1>5, <2>1 DEF Confined, Mutation, IsRegion, Less
  <1>9. Confined(m)
    BY <1>6, <1>7, <1>8
  <1> QED
    BY <1>9 DEF m

-----------------------------------------------------------------------------
\* The layouts cut a signature of any length into regions that follow one
\* another without a gap and end where the signature does.
THEOREM MlDsaLayoutCovers ==
    ASSUME NEW size \in Nat
    PROVE  LET regions == MlDsaSignatureRegions(size)
           IN  /\ IsLayout(regions)
               /\ regions[1].offset = 0
               /\ regions[2].offset = regions[1].offset + regions[1].length
               /\ regions[3].offset = regions[2].offset + regions[2].length
               /\ regions[3].offset + regions[3].length = size
  <1> DEFINE c == Less(32, size)
             h == Less(96, size - c)
             z == size - c - h
             regions == MlDsaSignatureRegions(size)
  <1>1. c \in Nat /\ h \in Nat /\ z \in Nat /\ c + z + h = size
    BY DEF Less
  <1>2. regions = <<Region("signature.c", 0, c), Region("signature.z", c, z), Region("signature.h", c + z, h)>>
    BY DEF MlDsaSignatureRegions
  <1> HIDE DEF c, h, z, regions
  <1>3. IsRegion(Region("signature.c", 0, c)) /\ IsRegion(Region("signature.z", c, z))
        /\ IsRegion(Region("signature.h", c + z, h))
    BY <1>1 DEF IsRegion, Region
  <1>4. IsLayout(regions)
    BY <1>2, <1>3 DEF IsLayout
  <1>5. /\ regions[1].offset = 0
        /\ regions[2].offset = regions[1].offset + regions[1].length
        /\ regions[3].offset = regions[2].offset + regions[2].length
        /\ regions[3].offset + regions[3].length = size
    BY <1>1, <1>2 DEF Region
  <1> QED
    BY <1>4, <1>5 DEF regions

\* So do those of SLH-DSA, whose WOTS and XMSS_AUTH_PATH divide SIGHT.
THEOREM SlhDsaLayoutCovers ==
    ASSUME NEW p, p.n \in Nat, p.d \in Nat, p.a \in Nat, p.k \in Nat, NEW size \in Nat
    PROVE  LET regions == SlhDsaSignatureRegions(p, size)
           IN  /\ IsLayout(regions)
               /\ regions[1].offset = 0
               /\ regions[2].offset = regions[1].offset + regions[1].length
               /\ regions[3].offset = regions[2].offset + regions[2].length
               /\ regions[3].offset + regions[3].length = size
               /\ regions[4].offset = regions[3].offset
               /\ regions[5].offset = regions[4].offset + regions[4].length
               /\ regions[5].offset + regions[5].length = size
  <1> DEFINE forsSize == p.k * (p.a + 1) * p.n
             wotsSize == 67 * p.n * p.d
             r == Less(p.n, size)
             fors == Less(forsSize, size - r)
             sight == size - r - fors
             wots == Less(wotsSize, sight)
             regions == SlhDsaSignatureRegions(p, size)
  <1>1. forsSize \in Nat /\ wotsSize \in Nat
    OBVIOUS
  <1>2. regions = <<Region("signature.R", 0, r), Region("signature.SIGFORS", r, fors),
                    Region("signature.SIGHT", r + fors, sight), Region("signature.WOTS", r + fors, wots),
                    Region("signature.XMSS_AUTH_PATH", r + fors + wots, sight - wots)>>
    BY DEF SlhDsaSignatureRegions
  <1> HIDE DEF forsSize, wotsSize, regions
  <1>3. /\ r \in Nat /\ fors \in Nat /\ sight \in Nat /\ wots \in Nat /\ sight - wots \in Nat
        /\ r + fors + sight = size
    BY <1>1 DEF Less
  <1> HIDE DEF r, fors, sight, wots
  <1>4. /\ IsRegion(Region("signature.R", 0, r)) /\ IsRegion(Region("signature.SIGFORS", r, fors))
        /\ IsRegion(Region("signature.SIGHT", r + fors, sight))
        /\ IsRegion(Region("signature.WOTS", r + fors, wots))
        /\ IsRegion(Region("signature.XMSS_AUTH_PATH", r + fors + wots, sight - wots))
    BY <1>3 DEF IsRegion, Region
  <1>5. IsLayout(regions)
    BY <1>2, <1>4 DEF IsLayout
  <1>6. /\ regions[1].offset = 0
        /\ regions[2].offset = regions[1].offset + regions[1].length
        /\ regions[3].offset = regions[2].offset + regions[2].length
        /\ regions[3].offset + regions[3].length = size
    BY <1>2, <1>3 DEF Region
  <1>7. /\ regions[4].offset = regions[3].offset
        /\ regions[5].offset = regions[4].offset + regions[4].length
        /\ regions[5].offset + regions[5].length = size
    BY <1>2, <1>3 DEF Region
  <1> QED
    BY <1>5, <1>6, <1>7 DEF regions

\* Every mutation of a signature stays in the signature and in its region,
\* with the layout of its scheme, for every plan and length, also a length
\* that is not the one of the parameter set.
THEOREM SignatureMutationConfined ==
    ASSUME NEW plan \in Plans, NEW size \in Nat
    PROVE  /\ Confined(MutateMlDsa(MlDsaSignatureRegions(size), plan, size))
           /\ \A p : p.n \in Nat /\ p.d \in Nat /\ p.a \in Nat /\ p.k \in Nat =>
                  Confined(MutateSlhDsa(SlhDsaSignatureRegions(p, size), plan, size))
  <1>1. \A op \in DOMAIN MlDsaNamed : MlDsaNamed[op] \in Nat
    BY DEF MlDsaNamed
  <1>2. \A op \in DOMAIN SlhDsaNamed : SlhDsaNamed[op] \in Nat
    BY DEF SlhDsaNamed
  <1>3. Confined(MutateMlDsa(MlDsaSignatureRegions(size), plan, size))
    <2>1. IsLayout(MlDsaSignatureRegions(size))
      BY MlDsaLayoutCovers
    <2> QED
      BY <1>1, <2>1, RegionMutationConfined DEF MutateMlDsa
  <1>4. ASSUME NEW p, p.n \in Nat, p.d \in Nat, p.a \in Nat, p.k \in Nat
        PROVE  Confined(MutateSlhDsa(SlhDsaSignatureRegions(p, size), plan, size))
    <2>1. IsLayout(SlhDsaSignatureRegions(p, size))
      BY <1>4, SlhDsaLayoutCovers
    <2> QED
      BY <1>2, <2>1, RegionMutationConfined DEF MutateSlhDsa
  <1> QED
    BY <1>3, <1>4

-----------------------------------------------------------------------------
\* ApplyMutationToRegions of ml_kem_mutator.cc stays in the ciphertext and in
\* the part it picked, also for a ciphertext of another parameter set's length.
THEOREM CiphertextMutationConfined ==
    ASSUME NEW p, p.k \in Nat, p.du \in Nat, p.dv \in Nat, NEW plan \in Plans, NEW size \in Nat
    PROVE  Confined(MutateCiphertext(p, plan, size))
  <1> DEFINE u == 32 * p.du * p.k
             v == 32 * p.dv
             regions == CiphertextRegions(p)
             op == PlanByte(plan, 0, 0) % 8
             pick == PlanByte(plan, 1, 0) % 2
             region == regions[pick + 1]
             span == Less(region.length, size - region.offset)
             byte == PlanByte(plan, 2, 0)
             relative == byte % span
             at == region.offset + relative
             value == PlanByte(plan, 3, 165)
             m == MutateCiphertext(p, plan, size)
  <1>1. u \in Nat /\ v \in Nat
    OBVIOUS
  <1>2. regions = <<Region("ciphertext.u", 0, u), Region("ciphertext.v", u, v)>>
    BY DEF CiphertextRegions
  <1>3. pick \in {0, 1}
    <2>1. PlanByte(plan, 1, 0) \in Nat
      BY PlanByteIsNat
    <2> QED
      BY <2>1
  <1>4. IsRegion(region)
    <2> HIDE DEF u, v, regions, pick
    <2>1. region = Region("ciphertext.u", 0, u) \/ region = Region("ciphertext.v", u, v)
      BY <1>2, <1>3
    <2> QED
      BY <1>1, <2>1 DEF Region, IsRegion
  <1>5. op \in 0..7
    <2>1. PlanByte(plan, 0, 0) \in Nat
      BY PlanByteIsNat
    <2> QED
      BY <2>1
  <1>6. byte \in Nat
    BY PlanByteIsNat
  <1>7. m = IF region.offset >= size \/ region.length = 0
            THEN Mutation(region, "skip", region.offset, 0, value, size, size)
            ELSE CASE op < 4 -> Mutation(region, ByteOperation(op), at, 1, value, size, size)
                   [] op = 4 -> Mutation(region, "cut", at, 0, value, size, at)
                   [] op = 5 -> Mutation(region, "push", size, 1, value, size, size + 1)
                   [] op = 6 -> Mutation(region, "xor", region.offset, span, value, size, size)
                   [] op = 7 -> Mutation(region, "zero", region.offset, span, value, size, size)
    BY DEF MutateCiphertext
  <1> HIDE DEF op, region, byte, value, m
  <1>8. CASE region.offset >= size \/ region.length = 0
    <2>1. m = Mutation(region, "skip", region.offset, 0, value, size, size)
      BY <1>7, <1>8
    <2>2. Confined(m)
      BY <2>1 DEF Confined, Mutation
    <2> QED
      BY <2>2 DEF m
  <1>9. CASE ~(region.offset >= size \/ region.length = 0)
    <2>1. /\ span \in Nat /\ span > 0
          /\ span <= region.length /\ span <= size - region.offset
      BY <1>4, <1>9 DEF IsRegion, Less
    <2>2. relative \in Nat /\ relative < span
      <3> HIDE DEF span
      <3> QED BY <1>6, <2>1, Remainder
    <2> HIDE DEF span, relative
    <2>3. /\ at \in Nat /\ at < size
          /\ region.offset <= at /\ at < region.offset + region.length
      BY <1>4, <2>1, <2>2 DEF IsRegion
    <2> HIDE DEF at
    <2>4. op < 4 => Confined(m)
      <3> SUFFICES ASSUME op < 4 PROVE Confined(m)
        OBVIOUS
      <3>1. m = Mutation(region, ByteOperation(op), at, 1, value, size, size)
        BY <1>7, <1>9
      <3>2. ByteOperation(op) \in {"flip", "xor", "zero", "ones"}
        BY DEF ByteOperation
      <3> QED
        BY <1>4, <2>3, <3>1, <3>2 DEF Confined, Mutation, IsRegion, Less
    <2>5. op = 4 => Confined(m)
      <3> SUFFICES ASSUME op = 4 PROVE Confined(m)
        OBVIOUS
      <3>1. m = Mutation(region, "cut", at, 0, value, size, at)
        BY <1>7, <1>9
      <3> QED
        BY <1>4, <2>3, <3>1 DEF Confined, Mutation, IsRegion
    <2>6. op = 5 => Confined(m)
      <3> SUFFICES ASSUME op = 5 PROVE Confined(m)
        OBVIOUS
      <3>1. m = Mutation(region, "push", size, 1, value, size, size + 1)
        BY <1>7, <1>9
      <3> QED
        BY <3>1 DEF Confined, Mutation
    <2>7. op \in {6, 7} => Confined(m)
      <3> SUFFICES ASSUME op \in {6, 7} PROVE Confined(m)
        OBVIOUS
      <3>1. \E how \in {"xor", "zero"} :
                m = Mutation(region, how, region.offset, span, value, size, size)
        BY <1>7, <1>9
      <3> QED
        BY <1>4, <1>9, <2>1, <3>1 DEF Confined, Mutation, IsRegion, Less
    <2>8. Confined(m)
      BY <1>5, <2>4, <2>5, <2>6, <2>7
    <2> QED
      BY <2>8 DEF m
  <1> QED
    BY <1>8, <1>9

\* MaulBytes stays in the field, for every plan and length.
THEOREM MaulConfined ==
    ASSUME NEW plan \in Plans, NEW size \in Nat
    PROVE  Confined(Maul(plan, size))
  <1> DEFINE op == PlanByte(plan, 0, 0) % 8
             byte == PlanByte(plan, 1, 0)
             at == IF size = 0 THEN 0 ELSE byte % size
             value == PlanByte(plan, 2, 165)
             whole == Region("whole", 0, size)
             m == Maul(plan, size)
  <1>1. op \in 0..7
    <2>1. PlanByte(plan, 0, 0) \in Nat
      BY PlanByteIsNat
    <2> QED
      BY <2>1
  <1>2. byte \in Nat
    BY PlanByteIsNat
  <1>3. at \in Nat /\ (size > 0 => at < size)
    <2> HIDE DEF byte
    <2> QED BY <1>2, Remainder
  <1>4. m = CASE size = 0 /\ op \notin {5, 7} -> Mutation(whole, "skip", 0, 0, value, size, size)
              [] size > 0 /\ op < 4 -> Mutation(whole, ByteOperation(op), at, 1, value, size, size)
              [] size > 0 /\ op = 4 -> Mutation(whole, "cut", at, 0, value, size, at)
              [] op = 5 -> Mutation(whole, "push", size, 1, value, size, size + 1)
              [] size > 0 /\ op = 6 -> Mutation(whole, "zero", 0, size, value, size, size)
              [] op = 7 -> Mutation(whole, "fill", 0, size, value, size, size)
    BY DEF Maul
  <1>5. whole.offset = 0 /\ whole.length = size
    BY DEF Region
  <1> HIDE DEF op, byte, at, value, whole, m
  <1>6. size = 0 /\ op \notin {5, 7} => Confined(m)
    <2> SUFFICES ASSUME size = 0 /\ op \notin {5, 7} PROVE Confined(m)
      OBVIOUS
    <2>1. m = Mutation(whole, "skip", 0, 0, value, size, size)
      BY <1>4
    <2> QED
      BY <2>1 DEF Confined, Mutation
  <1>7. size > 0 /\ op < 4 => Confined(m)
    <2> SUFFICES ASSUME size > 0, op < 4 PROVE Confined(m)
      OBVIOUS
    <2>1. m = Mutation(whole, ByteOperation(op), at, 1, value, size, size)
      BY <1>4
    <2>2. ByteOperation(op) \in {"flip", "xor", "zero", "ones"}
      BY DEF ByteOperation
    <2> QED
      BY <1>3, <1>5, <2>1, <2>2 DEF Confined, Mutation, Less
  <1>8. size > 0 /\ op = 4 => Confined(m)
    <2> SUFFICES ASSUME size > 0, op = 4 PROVE Confined(m)
      OBVIOUS
    <2>1. m = Mutation(whole, "cut", at, 0, value, size, at)
      BY <1>4
    <2> QED
      BY <1>3, <1>5, <2>1 DEF Confined, Mutation
  <1>9. op = 5 => Confined(m)
    <2> SUFFICES ASSUME op = 5 PROVE Confined(m)
      OBVIOUS
    <2>1. m = Mutation(whole, "push", size, 1, value, size, size + 1)
      BY <1>4
    <2> QED
      BY <2>1 DEF Confined, Mutation
  <1>10. size > 0 /\ op = 6 => Confined(m)
    <2> SUFFICES ASSUME size > 0, op = 6 PROVE Confined(m)
      OBVIOUS
    <2>1. m = Mutation(whole, "zero", 0, size, value, size, size)
      BY <1>4
    <2> QED
      BY <1>5, <2>1 DEF Confined, Mutation, Less
  <1>11. op = 7 => Confined(m)
    <2> SUFFICES ASSUME op = 7 PROVE Confined(m)
      OBVIOUS
    <2>1. m = Mutation(whole, "fill", 0, size, value, size, size)
      BY <1>4
    <2> QED
      BY <1>5, <2>1 DEF Confined, Mutation, Less
  <1>12. Confined(m)
    BY <1>1, <1>6, <1>7, <1>8, <1>9, <1>10, <1>11
  <1> QED
    BY <1>12 DEF m

-----------------------------------------------------------------------------
\* A mutation that is made, and whose flips, cuts and appended bytes leave
\* another field behind; only a cut may leave none.
Works(m) ==
    /\ m.how # "skip"
    /\ m.how \in {"flip", "push", "cut"} => Altered(m, TRUE)
    /\ m.how \in {"flip", "push"} => m.after > 0

\* ApplyRegionMutation does to a field that is not empty what the plan says,
\* whichever region the plan names.
LEMMA RegionMutationWorks ==
    ASSUME NEW regions, IsLayout(regions),
           NEW ops \in Nat, ops > 0, NEW named, \A op \in DOMAIN named : named[op] \in Nat,
           NEW plan \in Plans, NEW size \in Nat, size > 0
    PROVE  Works(MutateRegion(regions, ops, named, plan, size))
  <1> DEFINE op == PlanByte(plan, 0, 0) % ops
             buffer == Larger(size, 1)
             region == PickedRegion(regions, ops, named, plan, buffer)
             at == Position(region, plan, buffer)
             value == PlanByte(plan, 3, 165)
             m == MutateRegion(regions, ops, named, plan, size)
  <1>1. buffer = size
    BY DEF Larger
  <1>2. at \in Nat /\ at < size
    <2>1. IsRegion(region) /\ region.length > 0 /\ region.offset < buffer
      <3> HIDE DEF buffer
      <3> QED BY <1>1, PickedIsInside
    <2> HIDE DEF buffer, region
    <2> QED
      BY <1>1, <2>1, PositionIsInside
  <1>3. m = CASE op = 4 -> Mutation(region, "cut", at, 0, value, size, at)
              [] op = 5 -> Mutation(region, "push", buffer, 1, value, size, buffer + 1)
              [] OTHER -> Mutation(region, ByteOperation(op), at, 1, value, size, buffer)
    BY DEF MutateRegion
  <1>4. ByteOperation(op) \in {"flip", "xor", "zero", "ones"}
    BY DEF ByteOperation
  <1> HIDE DEF op, buffer, region, at, value, m
  <1>5. op = 4 => Works(m)
    <2> SUFFICES ASSUME op = 4 PROVE Works(m)
      OBVIOUS
    <2>1. m = Mutation(region, "cut", at, 0, value, size, at)
      BY <1>3
    <2> QED
      BY <1>2, <2>1 DEF Works, Altered, Mutation
  <1>6. op = 5 => Works(m)
    <2> SUFFICES ASSUME op = 5 PROVE Works(m)
      OBVIOUS
    <2>1. m = Mutation(region, "push", buffer, 1, value, size, buffer + 1)
      BY <1>3
    <2> QED
      BY <1>1, <2>1 DEF Works, Altered, Mutation
  <1>7. op # 4 /\ op # 5 => Works(m)
    <2> SUFFICES ASSUME op # 4, op # 5 PROVE Works(m)
      OBVIOUS
    <2>1. m = Mutation(region, ByteOperation(op), at, 1, value, size, buffer)
      BY <1>3
    <2> QED
      BY <1>1, <1>4, <2>1 DEF Works, Altered, Mutation
  <1>8. Works(m)
    BY <1>5, <1>6, <1>7
  <1> QED
    BY <1>8 DEF m

\* ApplyMutationToRegions of ml_kem_mutator.cc does what the plan says to a
\* ciphertext that both parts of the layout lie in.
LEMMA CiphertextMutationWorks ==
    ASSUME NEW p, p.k \in Nat, p.du \in Nat, p.dv \in Nat, NEW plan \in Plans, NEW size \in Nat,
           32 * p.du * p.k > 0, 32 * p.dv > 0, 32 * p.du * p.k < size
    PROVE  Works(MutateCiphertext(p, plan, size))
  <1> DEFINE u == 32 * p.du * p.k
             v == 32 * p.dv
             regions == CiphertextRegions(p)
             op == PlanByte(plan, 0, 0) % 8
             pick == PlanByte(plan, 1, 0) % 2
             region == regions[pick + 1]
             span == Less(region.length, size - region.offset)
             byte == PlanByte(plan, 2, 0)
             relative == byte % span
             at == region.offset + relative
             value == PlanByte(plan, 3, 165)
             m == MutateCiphertext(p, plan, size)
  <1>1. u \in Nat /\ v \in Nat /\ u > 0 /\ v > 0 /\ u < size
    OBVIOUS
  <1>2. regions = <<Region("ciphertext.u", 0, u), Region("ciphertext.v", u, v)>>
    BY DEF CiphertextRegions
  <1>3. pick \in {0, 1}
    <2>1. PlanByte(plan, 1, 0) \in Nat
      BY PlanByteIsNat
    <2> QED
      BY <2>1
  <1>4. IsRegion(region) /\ region.length > 0 /\ region.offset < size
    <2> HIDE DEF u, v, regions, pick
    <2>1. region = Region("ciphertext.u", 0, u) \/ region = Region("ciphertext.v", u, v)
      BY <1>2, <1>3
    <2> QED
      BY <1>1, <2>1 DEF Region, IsRegion
  <1>5. op \in 0..7
    <2>1. PlanByte(plan, 0, 0) \in Nat
      BY PlanByteIsNat
    <2> QED
      BY <2>1
  <1>6. byte \in Nat
    BY PlanByteIsNat
  <1>7. m = IF region.offset >= size \/ region.length = 0
            THEN Mutation(region, "skip", region.offset, 0, value, size, size)
            ELSE CASE op < 4 -> Mutation(region, ByteOperation(op), at, 1, value, size, size)
                   [] op = 4 -> Mutation(region, "cut", at, 0, value, size, at)
                   [] op = 5 -> Mutation(region, "push", size, 1, value, size, size + 1)
                   [] op = 6 -> Mutation(region, "xor", region.offset, span, value, size, size)
                   [] op = 7 -> Mutation(region, "zero", region.offset, span, value, size, size)
    BY DEF MutateCiphertext
  <1>8. at \in Nat /\ at < size
    <2> HIDE DEF region, byte
    <2>1. span \in Nat /\ span > 0 /\ span <= size - region.offset
      BY <1>4 DEF IsRegion, Less
    <2>2. relative \in Nat /\ relative < span
      <3> HIDE DEF span
      <3> QED BY <1>6, <2>1, Remainder
    <2> HIDE DEF span, relative
    <2> QED
      BY <1>4, <2>1, <2>2 DEF IsRegion
  <1> HIDE DEF op, region, at, value, m, span
  <1>9. ~(region.offset >= size \/ region.length = 0)
    BY <1>4 DEF IsRegion
  <1>10. op < 4 => Works(m)
    <2> SUFFICES ASSUME op < 4 PROVE Works(m)
      OBVIOUS
    <2>1. m = Mutation(region, ByteOperation(op), at, 1, value, size, size)
      BY <1>7, <1>9
    <2>2. ByteOperation(op) \in {"flip", "xor", "zero", "ones"}
      BY DEF ByteOperation
    <2> QED
      BY <1>1, <2>1, <2>2 DEF Works, Altered, Mutation
  <1>11. op = 4 => Works(m)
    <2> SUFFICES ASSUME op = 4 PROVE Works(m)
      OBVIOUS
    <2>1. m = Mutation(region, "cut", at, 0, value, size, at)
      BY <1>7, <1>9
    <2> QED
      BY <1>8, <2>1 DEF Works, Altered, Mutation
  <1>12. op = 5 => Works(m)
    <2> SUFFICES ASSUME op = 5 PROVE Works(m)
      OBVIOUS
    <2>1. m = Mutation(region, "push", size, 1, value, size, size + 1)
      BY <1>7, <1>9
    <2> QED
      BY <2>1 DEF Works, Altered, Mutation
  <1>13. op \in {6, 7} => Works(m)
    <2> SUFFICES ASSUME op \in {6, 7} PROVE Works(m)
      OBVIOUS
    <2>1. PICK how \in {"xor", "zero"} :
              m = Mutation(region, how, region.offset, span, value, size, size)
      BY <1>7, <1>9
    <2>2. m.how = how
      BY <2>1 DEF Mutation
    <2> QED
      BY <2>2 DEF Works
  <1>14. Works(m)
    BY <1>5, <1>10, <1>11, <1>12, <1>13
  <1> QED
    BY <1>14 DEF m

\* So does MaulBytes to a field that is not empty.
LEMMA MaulWorks ==
    ASSUME NEW plan \in Plans, NEW size \in Nat, size > 0
    PROVE  Works(Maul(plan, size))
  <1> DEFINE op == PlanByte(plan, 0, 0) % 8
             byte == PlanByte(plan, 1, 0)
             at == IF size = 0 THEN 0 ELSE byte % size
             value == PlanByte(plan, 2, 165)
             whole == Region("whole", 0, size)
             m == Maul(plan, size)
  <1>1. op \in 0..7
    <2>1. PlanByte(plan, 0, 0) \in Nat
      BY PlanByteIsNat
    <2> QED
      BY <2>1
  <1>2. byte \in Nat
    BY PlanByteIsNat
  <1>3. at \in Nat /\ at < size
    <2> HIDE DEF byte
    <2> QED BY <1>2, Remainder
  <1>4. m = CASE size = 0 /\ op \notin {5, 7} -> Mutation(whole, "skip", 0, 0, value, size, size)
              [] size > 0 /\ op < 4 -> Mutation(whole, ByteOperation(op), at, 1, value, size, size)
              [] size > 0 /\ op = 4 -> Mutation(whole, "cut", at, 0, value, size, at)
              [] op = 5 -> Mutation(whole, "push", size, 1, value, size, size + 1)
              [] size > 0 /\ op = 6 -> Mutation(whole, "zero", 0, size, value, size, size)
              [] op = 7 -> Mutation(whole, "fill", 0, size, value, size, size)
    BY DEF Maul
  <1> HIDE DEF op, byte, at, value, whole, m
  <1>5. op < 4 => Works(m)
    <2> SUFFICES ASSUME op < 4 PROVE Works(m)
      OBVIOUS
    <2>1. m = Mutation(whole, ByteOperation(op), at, 1, value, size, size)
      BY <1>4
    <2>2. ByteOperation(op) \in {"flip", "xor", "zero", "ones"}
      BY DEF ByteOperation
    <2> QED
      BY <2>1, <2>2 DEF Works, Altered, Mutation
  <1>6. op = 4 => Works(m)
    <2> SUFFICES ASSUME op = 4 PROVE Works(m)
      OBVIOUS
    <2>1. m = Mutation(whole, "cut", at, 0, value, size, at)
      BY <1>4
    <2> QED
      BY <1>3, <2>1 DEF Works, Altered, Mutation
  <1>7. op = 5 => Works(m)
    <2> SUFFICES ASSUME op = 5 PROVE Works(m)
      OBVIOUS
    <2>1. m = Mutation(whole, "push", size, 1, value, size, size + 1)
      BY <1>4
    <2> QED
      BY <2>1 DEF Works, Altered, Mutation
  <1>8. op \in {6, 7} => Works(m)
    <2> SUFFICES ASSUME op \in {6, 7} PROVE Works(m)
      OBVIOUS
    <2>1. PICK how \in {"zero", "fill"} : m = Mutation(whole, how, 0, size, value, size, size)
      BY <1>4
    <2>2. m.how = how
      BY <2>1 DEF Mutation
    <2> QED
      BY <2>2 DEF Works
  <1>9. Works(m)
    BY <1>1, <1>5, <1>6, <1>7, <1>8
  <1> QED
    BY <1>9 DEF m

\* The field a mutation is made of is the one it is given.
LEMMA BeforeIsSize ==
    ASSUME NEW plan \in Plans, NEW size \in Nat
    PROVE  /\ Maul(plan, size).before = size
           /\ \A p : MutateCiphertext(p, plan, size).before = size
           /\ \A regions, ops, named : MutateRegion(regions, ops, named, plan, size).before = size
<1>1. PlanByte(plan, 0, 0) % 8 \in 0..7
  <2>1. PlanByte(plan, 0, 0) \in Nat
    BY PlanByteIsNat
  <2> QED
    BY <2>1
<1>2. Maul(plan, size).before = size
  BY <1>1 DEF Maul, Mutation
<1>3. ASSUME NEW p PROVE MutateCiphertext(p, plan, size).before = size
  BY <1>1 DEF MutateCiphertext, Mutation
<1>4. ASSUME NEW regions, NEW ops, NEW named
      PROVE MutateRegion(regions, ops, named, plan, size).before = size
  BY DEF MutateRegion, Mutation
<1> QED
  BY <1>2, <1>3, <1>4

\* A set of naturals has a least one, and so induction over one works.
LEMMA LeastNat ==
    ASSUME NEW T, T \subseteq Nat, T # {}
    PROVE  \E n \in T : \A m \in T : ~(m < n)
<1> DEFINE R == {p \in Nat \X Nat : p[1] < p[2]}
<1>1. IsWellFoundedOn(R, Nat)
  BY NatLessThanWellFounded DEF OpToRel
<1>2. \E x \in T : \A y \in T : ~(<<y, x>> \in R)
  <2> HIDE DEF R
  <2> QED BY <1>1, WFMin
<1>3. \A x \in T : \A y \in T : ~(<<y, x>> \in R) => ~(y < x)
  OBVIOUS
<1> QED
  BY <1>2, <1>3

\* A set of naturals that holds 0 and the successor of what it holds is Nat.
LEMMA SetInduction ==
    ASSUME NEW T, 0 \in T, \A n \in Nat : n \in T => n + 1 \in T
    PROVE  Nat \subseteq T
<1> SUFFICES ASSUME Nat \ T # {} PROVE FALSE
  OBVIOUS
<1>1. PICK n \in Nat \ T : \A m \in Nat \ T : ~(m < n)
  BY LeastNat
<1>2. n # 0 /\ n - 1 \in Nat /\ n - 1 < n
  BY <1>1
<1> QED
  BY <1>1, <1>2

\* f holds what is selected of the prefixes of seq.
UpTo(f, seq, chosen, n) ==
    f = [i \in 0..n |->
            IF i = 0 THEN <<>>
            ELSE IF i \in chosen THEN Append(f[i - 1], seq[i]) ELSE f[i - 1]]

LEMMA UpToExists ==
    ASSUME NEW seq, NEW chosen
    PROVE  \A n \in Nat : \E f : UpTo(f, seq, chosen, n)
<1> DEFINE T == {n \in Nat : \E f : UpTo(f, seq, chosen, n)}
<1>1. 0 \in T
  <2> DEFINE e == [i \in 0..0 |-> <<>>]
  <2>1. UpTo(e, seq, chosen, 0)
    BY DEF UpTo
  <2> QED
    BY <2>1
<1>2. ASSUME NEW n \in Nat, n \in T PROVE n + 1 \in T
  <2>1. PICK f : UpTo(f, seq, chosen, n)
    BY <1>2
  <2> DEFINE g == [i \in 0..n+1 |->
                     IF i <= n THEN f[i]
                     ELSE IF i \in chosen THEN Append(f[i - 1], seq[i]) ELSE f[i - 1]]
  <2>2. ASSUME NEW i \in 0..n+1
        PROVE  g[i] = IF i = 0 THEN <<>>
                      ELSE IF i \in chosen THEN Append(g[i - 1], seq[i]) ELSE g[i - 1]
    <3>1. CASE i <= n
      <4>1. i \in 0..n /\ (i # 0 => i - 1 \in 0..n+1 /\ i - 1 <= n)
        BY <3>1
      <4>2. g[i] = f[i] /\ (i # 0 => g[i - 1] = f[i - 1])
        BY <4>1
      <4>3. f[i] = IF i = 0 THEN <<>>
                   ELSE IF i \in chosen THEN Append(f[i - 1], seq[i]) ELSE f[i - 1]
        BY <2>1, <4>1 DEF UpTo
      <4> QED
        BY <4>1, <4>2, <4>3
    <3>2. CASE i = n + 1
      <4>1. ~(i <= n) /\ i # 0 /\ i - 1 \in 0..n+1 /\ i - 1 <= n
        BY <3>2
      <4> QED
        BY <4>1
    <3> QED
      BY <3>1, <3>2
  <2>3. UpTo(g, seq, chosen, n + 1)
    BY <2>2 DEF UpTo
  <2> QED
    BY <2>3
<1> HIDE DEF T
<1>3. Nat \subseteq T
  BY <1>1, <1>2, SetInduction
<1> QED
  BY <1>3 DEF T

LEMMA SelectedIsUpTo ==
    ASSUME NEW seq, NEW chosen, Len(seq) \in Nat
    PROVE  \E f : UpTo(f, seq, chosen, Len(seq)) /\ Selected(seq, chosen) = f[Len(seq)]
<1>1. \E f : UpTo(f, seq, chosen, Len(seq))
  BY UpToExists
<1> DEFINE g == CHOOSE f : UpTo(f, seq, chosen, Len(seq))
<1>2. UpTo(g, seq, chosen, Len(seq))
  BY <1>1
<1>3. Selected(seq, chosen) = g[Len(seq)]
  BY DEF Selected, UpTo
<1> QED
  BY <1>2, <1>3

\* r holds, each once, elements of seq at the chosen positions up to n.
Picks(r, S, seq, chosen, n) ==
    /\ r \in Seq(S)
    /\ \A k \in DOMAIN r : \E q \in 1..n : q \in chosen /\ r[k] = seq[q]
    /\ \A k, m \in DOMAIN r : r[k] = r[m] => k = m

\* What is selected of a sequence without repetitions has none, and comes from
\* the chosen positions.
LEMMA SelectedPicks ==
    ASSUME NEW S, NEW seq \in Seq(S), NEW chosen,
           \A i, k \in DOMAIN seq : seq[i] = seq[k] => i = k
    PROVE  Picks(Selected(seq, chosen), S, seq, chosen, Len(seq))
<1> DEFINE n == Len(seq)
<1>1. PICK f : UpTo(f, seq, chosen, n) /\ Selected(seq, chosen) = f[n]
  BY SelectedIsUpTo
<1>2. n \in Nat /\ DOMAIN seq = 1..n /\ \A i \in 1..n : seq[i] \in S
  OBVIOUS
<1> HIDE DEF n
<1>3. \A i \in 0..n : f[i] = IF i = 0 THEN <<>>
                             ELSE IF i \in chosen THEN Append(f[i - 1], seq[i]) ELSE f[i - 1]
  BY <1>1 DEF UpTo
<1> DEFINE T == {i \in Nat : i <= n => Picks(f[i], S, seq, chosen, i)}
<1>4. 0 \in T
  <2>1. f[0] = <<>>
    <3>1. 0 \in 0..n
      BY <1>2
    <3> QED
      BY <1>3, <3>1
  <2>2. <<>> \in Seq(S) /\ DOMAIN <<>> = {}
    OBVIOUS
  <2>3. Picks(<<>>, S, seq, chosen, 0)
    BY <2>2 DEF Picks
  <2> QED
    BY <2>1, <2>3
<1>5. ASSUME NEW i \in Nat, i \in T PROVE i + 1 \in T
  <2> SUFFICES ASSUME i + 1 <= n PROVE Picks(f[i + 1], S, seq, chosen, i + 1)
    BY DEF T
  <2> DEFINE r == f[i]
             x == seq[i + 1]
  <2>1. Picks(r, S, seq, chosen, i)
    BY <1>2, <1>5
  <2>2. f[i + 1] = IF i + 1 \in chosen THEN Append(r, x) ELSE r
    <3>1. i + 1 \in 0..n /\ i + 1 # 0 /\ (i + 1) - 1 = i
      BY <1>2
    <3> QED
      BY <1>3, <3>1
  <2>3. x \in S /\ \A q \in 1..i : seq[q] # x
    <3>1. i + 1 \in 1..n /\ \A q \in 1..i : q \in 1..n /\ q # i + 1
      BY <1>2
    <3> QED
      BY <1>2, <3>1
  <2> HIDE DEF r, x
  <2>4. CASE i + 1 \notin chosen
    <3>1. f[i + 1] = r /\ \A q \in 1..i : q \in 1..i+1
      BY <2>2, <2>4
    <3> QED
      BY <2>1, <3>1 DEF Picks
  <2>5. CASE i + 1 \in chosen
    <3> DEFINE l == Len(r)
               s == Append(r, x)
    <3>1. /\ r \in Seq(S) /\ l \in Nat /\ DOMAIN r = 1..l
          /\ \A k \in 1..l : \E q \in 1..i : q \in chosen /\ r[k] = seq[q]
          /\ \A k, m \in 1..l : r[k] = r[m] => k = m
      BY <2>1 DEF Picks
    <3>2. /\ s \in Seq(S) /\ DOMAIN s = 1..l+1 /\ s[l + 1] = x
          /\ \A k \in 1..l : s[k] = r[k]
      BY <2>3, <3>1
    <3> HIDE DEF s, l
    <3>3. \A k \in 1..l+1 : k \in 1..l \/ k = l + 1
      BY <3>1
    <3>4. \A k \in 1..l : s[k] # x
      BY <2>3, <3>1, <3>2
    <3>5. ASSUME NEW k \in DOMAIN s PROVE \E q \in 1..i+1 : q \in chosen /\ s[k] = seq[q]
      <4>1. CASE k \in 1..l
        <5>1. \A q \in 1..i : q \in 1..i+1
          OBVIOUS
        <5> QED
          BY <3>1, <3>2, <4>1, <5>1
      <4>2. CASE k = l + 1
        <5>1. i + 1 \in 1..i+1
          OBVIOUS
        <5> QED
          BY <2>5, <3>2, <4>2, <5>1 DEF x
      <4> QED
        BY <3>2, <3>3, <3>5, <4>1, <4>2
    <3>6. ASSUME NEW k \in DOMAIN s, NEW m \in DOMAIN s, s[k] = s[m] PROVE k = m
      <4>1. k \in 1..l \/ k = l + 1
        BY <3>2, <3>3, <3>6
      <4>2. m \in 1..l \/ m = l + 1
        BY <3>2, <3>3, <3>6
      <4> QED
        BY <3>1, <3>2, <3>4, <3>6, <4>1, <4>2
    <3>7. f[i + 1] = s
      BY <2>2, <2>5 DEF s
    <3> QED
      BY <3>2, <3>5, <3>6, <3>7 DEF Picks
  <2> QED
    BY <2>4, <2>5
<1> HIDE DEF T
<1>6. n \in T
  <2>1. Nat \subseteq T
    BY <1>4, <1>5, SetInduction
  <2> QED
    BY <1>2, <2>1
<1> QED
  BY <1>1, <1>2, <1>6 DEF T, n

-----------------------------------------------------------------------------
\* The nine fields of a job line.

Nine(f, S) == f = [i \in 1..9 |-> f[i]] /\ Len(f) = 9 /\ \A i \in 1..9 : f[i] \in S

LEMMA NineUpTo ==
    ASSUME NEW S, NEW f, Nine(f, S), NEW chosen
    PROVE  \E pre : /\ Selected(f, chosen) = pre[9] /\ pre[0] = <<>>
                  /\ \A i \in 1..9 : pre[i] = IF i \in chosen THEN Append(pre[i - 1], f[i]) ELSE pre[i - 1]
<1>1. PICK pre : UpTo(pre, f, chosen, 9) /\ Selected(f, chosen) = pre[9]
  <2>1. Len(f) = 9 /\ Len(f) \in Nat
    BY DEF Nine
  <2> QED
    BY <2>1, SelectedIsUpTo
<1>2. pre[0] = <<>> /\ \A i \in 1..9 : pre[i] = IF i \in chosen THEN Append(pre[i - 1], f[i]) ELSE pre[i - 1]
  <2>1. \A i \in 0..9 : pre[i] = IF i = 0 THEN <<>>
                                 ELSE IF i \in chosen THEN Append(pre[i - 1], f[i]) ELSE pre[i - 1]
    BY <1>1 DEF UpTo
  <2>2. 0 \in 0..9 /\ \A i \in 1..9 : i \in 0..9 /\ i # 0
    OBVIOUS
  <2> QED
    BY <2>1, <2>2
<1> QED
  BY <1>1, <1>2

\* A line without an empty field is read as it was printed.
LEMMA FullLineIsRead ==
    ASSUME NEW S, NEW f, Nine(f, S), \A i \in 1..9 : f[i] # Empty
    PROVE  TabRead(f) = f
<1> DEFINE chosen == {i \in DOMAIN f : f[i] # Empty}
           kept == Selected(f, chosen)
<1>1. chosen = 1..9
  BY DEF Nine
<1>2. PICK pre : /\ kept = pre[9] /\ pre[0] = <<>>
               /\ \A i \in 1..9 : pre[i] = IF i \in chosen THEN Append(pre[i - 1], f[i]) ELSE pre[i - 1]
  <2> HIDE DEF chosen
  <2> QED BY NineUpTo
<1>3. TabRead(f) = [i \in DOMAIN f |-> IF i \in DOMAIN kept THEN kept[i] ELSE Empty]
  BY DEF TabRead
<1> HIDE DEF chosen, kept
<1> DEFINE T == {i \in Nat : i <= 9 =>
                    pre[i] \in Seq(S) /\ Len(pre[i]) = i /\ \A k \in 1..i : pre[i][k] = f[k]}
<1>4. 0 \in T
  <2>1. pre[0] \in Seq(S) /\ Len(pre[0]) = 0
    BY <1>2
  <2> QED
    BY <2>1
<1>5. ASSUME NEW i \in Nat, i \in T PROVE i + 1 \in T
  <2> SUFFICES ASSUME i + 1 <= 9
               PROVE  /\ pre[i + 1] \in Seq(S) /\ Len(pre[i + 1]) = i + 1
                      /\ \A k \in 1..i+1 : pre[i + 1][k] = f[k]
    BY DEF T
  <2>1. pre[i] \in Seq(S) /\ Len(pre[i]) = i /\ \A k \in 1..i : pre[i][k] = f[k]
    BY <1>5
  <2>2. i + 1 \in 1..9 /\ (i + 1) - 1 = i
    OBVIOUS
  <2>3. pre[i + 1] = Append(pre[i], f[i + 1]) /\ f[i + 1] \in S
    BY <1>1, <1>2, <2>2 DEF Nine
  <2> QED
    BY <2>1, <2>3
<1> HIDE DEF T
<1>6. 9 \in T
  <2>1. Nat \subseteq T
    BY <1>4, <1>5, SetInduction
  <2> QED
    BY <2>1
<1>7. DOMAIN kept = 1..9 /\ \A k \in 1..9 : kept[k] = f[k]
  BY <1>2, <1>6 DEF T
<1>8. TabRead(f) = [i \in 1..9 |-> f[i]]
  BY <1>3, <1>7 DEF Nine
<1> QED
  BY <1>8 DEF Nine
\* A line with two empty fields leaves the last two macros empty.
LEMMA GapsAreLost ==
    ASSUME NEW S, NEW f, Nine(f, S), f[3] = Empty, f[4] = Empty
    PROVE  TabRead(f)[8] = Empty /\ TabRead(f)[9] = Empty
<1> DEFINE chosen == {i \in DOMAIN f : f[i] # Empty}
           kept == Selected(f, chosen)
<1>1. 3 \notin chosen /\ 4 \notin chosen
  OBVIOUS
<1>2. PICK pre : /\ kept = pre[9] /\ pre[0] = <<>>
               /\ \A i \in 1..9 : pre[i] = IF i \in chosen THEN Append(pre[i - 1], f[i]) ELSE pre[i - 1]
  <2> HIDE DEF chosen
  <2> QED BY NineUpTo
<1>3. TabRead(f) = [i \in DOMAIN f |-> IF i \in DOMAIN kept THEN kept[i] ELSE Empty]
  BY DEF TabRead
<1> HIDE DEF chosen, kept
<1>4. ASSUME NEW i \in 1..9, NEW l \in Nat, pre[i - 1] \in Seq(S), Len(pre[i - 1]) <= l
      PROVE  /\ pre[i] \in Seq(S) /\ Len(pre[i]) <= l + 1
             /\ i \notin chosen => Len(pre[i]) <= l
  <2>1. f[i] \in S
    BY DEF Nine
  <2>2. pre[i] = IF i \in chosen THEN Append(pre[i - 1], f[i]) ELSE pre[i - 1]
    BY <1>2
  <2> QED
    BY <1>4, <2>1, <2>2
<1>5. pre[0] \in Seq(S) /\ Len(pre[0]) <= 0
  BY <1>2
<1>6. pre[1] \in Seq(S) /\ Len(pre[1]) <= 1
  BY <1>4, <1>5
<1>7. pre[2] \in Seq(S) /\ Len(pre[2]) <= 2
  BY <1>4, <1>6
<1>8. pre[3] \in Seq(S) /\ Len(pre[3]) <= 2
  BY <1>1, <1>4, <1>7
<1>9. pre[4] \in Seq(S) /\ Len(pre[4]) <= 2
  BY <1>1, <1>4, <1>8
<1>10. pre[5] \in Seq(S) /\ Len(pre[5]) <= 3
  BY <1>4, <1>9
<1>11. pre[6] \in Seq(S) /\ Len(pre[6]) <= 4
  BY <1>4, <1>10
<1>12. pre[7] \in Seq(S) /\ Len(pre[7]) <= 5
  BY <1>4, <1>11
<1>13. pre[8] \in Seq(S) /\ Len(pre[8]) <= 6
  BY <1>4, <1>12
<1>14. pre[9] \in Seq(S) /\ Len(pre[9]) <= 7
  BY <1>4, <1>13
<1>15. 8 \notin DOMAIN kept /\ 9 \notin DOMAIN kept
  BY <1>2, <1>14
<1>16. 8 \in DOMAIN f /\ 9 \in DOMAIN f
  BY DEF Nine
<1> QED
  BY <1>3, <1>15, <1>16

-----------------------------------------------------------------------------
\* Algorithms and their parameters.

LEMMA FamilyDomains ==
    ASSUME NEW a
    PROVE  /\ Family(a) = "ML-KEM" <=> a \in DOMAIN MlKemParams
           /\ Family(a) = "ML-DSA" <=> a \in DOMAIN MlDsaParams
           /\ Family(a) = "SLH-DSA" <=> a \in DOMAIN SlhDsaParams
<1>1. /\ DOMAIN MlKemParams \cap DOMAIN MlDsaParams = {}
      /\ DOMAIN MlKemParams \cap DOMAIN SlhDsaParams = {}
      /\ DOMAIN MlDsaParams \cap DOMAIN SlhDsaParams = {}
  BY DEF MlKemParams, MlDsaParams, SlhDsaParams
<1> QED
  BY <1>1 DEF Family

LEMMA PrimitiveOfFamily ==
    ASSUME NEW a, Family(a) \in Families
    PROVE  /\ Primitive(a) \in {"kem", "sig"}
           /\ Primitive(a) = "kem" <=> Family(a) = "ML-KEM"
           /\ Primitive(a) = "sig" <=> Family(a) \in {"ML-DSA", "SLH-DSA"}
  BY DEF Families, Primitive

\* The ciphertexts of a parameter set are as long as the layout, and both of
\* its parts have bytes.
LEMMA KemRows ==
    ASSUME NEW a \in DOMAIN MlKemParams
    PROVE  LET p == MlKemParams[a] IN
           /\ p.k \in Nat /\ p.du \in Nat /\ p.dv \in Nat
           /\ p.pk \in Nat /\ p.sk \in Nat /\ p.ct \in Nat
           /\ 32 * p.du * p.k > 0 /\ 32 * p.dv > 0 /\ 32 * p.du * p.k < p.ct
<1>1. CASE a = "ML-KEM-512"
  <2>1. MlKemParams[a] = KemRow(800, 1632, 768, 2, 10, 4)
    BY <1>1 DEF MlKemParams
  <2> QED
    BY <2>1 DEF KemRow
<1>2. CASE a = "ML-KEM-768"
  <2>1. MlKemParams[a] = KemRow(1184, 2400, 1088, 3, 10, 4)
    BY <1>2 DEF MlKemParams
  <2> QED
    BY <2>1 DEF KemRow
<1>3. CASE a = "ML-KEM-1024"
  <2>1. MlKemParams[a] = KemRow(1568, 3168, 1568, 4, 11, 5)
    BY <1>3 DEF MlKemParams
  <2> QED
    BY <2>1 DEF KemRow
<1> QED
  BY <1>1, <1>2, <1>3 DEF MlKemParams

LEMMA DsaRows ==
    ASSUME NEW a \in DOMAIN MlDsaParams
    PROVE  LET p == MlDsaParams[a] IN p.pk \in Nat /\ p.sk \in Nat /\ p.sig \in Nat
<1>1. CASE a = "ML-DSA-44"
  <2>1. MlDsaParams[a] = DsaRow(1312, 2560, 2420)
    BY <1>1 DEF MlDsaParams
  <2> QED
    BY <2>1 DEF DsaRow
<1>2. CASE a = "ML-DSA-65"
  <2>1. MlDsaParams[a] = DsaRow(1952, 4032, 3309)
    BY <1>2 DEF MlDsaParams
  <2> QED
    BY <2>1 DEF DsaRow
<1>3. CASE a = "ML-DSA-87"
  <2>1. MlDsaParams[a] = DsaRow(2592, 4896, 4627)
    BY <1>3 DEF MlDsaParams
  <2> QED
    BY <2>1 DEF DsaRow
<1> QED
  BY <1>1, <1>2, <1>3 DEF MlDsaParams

LEMMA SlhRows ==
    ASSUME NEW a \in DOMAIN SlhDsaParams
    PROVE  LET p == SlhDsaParams[a] IN
           /\ p.n \in Nat /\ p.d \in Nat /\ p.a \in Nat /\ p.k \in Nat
           /\ p.pk \in Nat /\ p.sk \in Nat /\ p.sig \in Nat
<1> DEFINE row == SlhDsaParams[a]
<1>1. \/ row = SlhRow(16, 7856, 7, 12, 14) \/ row = SlhRow(16, 17088, 22, 6, 33)
      \/ row = SlhRow(24, 16224, 7, 14, 17) \/ row = SlhRow(24, 35664, 22, 8, 33)
      \/ row = SlhRow(32, 29792, 8, 14, 22) \/ row = SlhRow(32, 49856, 17, 9, 35)
  BY DEF SlhDsaParams
<1> HIDE DEF row
<1> DEFINE typed == /\ row.n \in Nat /\ row.d \in Nat /\ row.a \in Nat /\ row.k \in Nat
                    /\ row.pk \in Nat /\ row.sk \in Nat /\ row.sig \in Nat
<1>2. row = SlhRow(16, 7856, 7, 12, 14) => typed
  BY DEF SlhRow
<1>3. row = SlhRow(16, 17088, 22, 6, 33) => typed
  BY DEF SlhRow
<1>4. row = SlhRow(24, 16224, 7, 14, 17) => typed
  BY DEF SlhRow
<1>5. row = SlhRow(24, 35664, 22, 8, 33) => typed
  BY DEF SlhRow
<1>6. row = SlhRow(32, 29792, 8, 14, 22) => typed
  BY DEF SlhRow
<1>7. row = SlhRow(32, 49856, 17, 9, 35) => typed
  BY DEF SlhRow
<1>8. typed
  BY <1>1, <1>2, <1>3, <1>4, <1>5, <1>6, <1>7
<1> QED
  BY <1>8 DEF row

\* The lengths an adapter's fields have.
LEMMA AdapterLengths ==
    ASSUME NEW a, Family(a) \in Families
    PROVE  /\ ParamsOf(a).pk \in Nat /\ ParamsOf(a).sk \in Nat
           /\ Primitive(a) = "kem" => ParamsOf(a) = MlKemParams[a] /\ ParamsOf(a).ct \in Nat
           /\ Primitive(a) = "sig" => ParamsOf(a).sig \in Nat
<1>1. CASE Family(a) = "ML-KEM"
  <2>1. ParamsOf(a) = MlKemParams[a] /\ a \in DOMAIN MlKemParams /\ Primitive(a) = "kem"
    BY <1>1, FamilyDomains DEF ParamsOf, Primitive
  <2> QED
    BY <2>1, KemRows
<1>2. CASE Family(a) = "ML-DSA"
  <2>1. ParamsOf(a) = MlDsaParams[a] /\ a \in DOMAIN MlDsaParams /\ Primitive(a) = "sig"
    BY <1>2, FamilyDomains DEF ParamsOf, Primitive
  <2> QED
    BY <2>1, DsaRows
<1>3. CASE Family(a) = "SLH-DSA"
  <2>1. ParamsOf(a) = SlhDsaParams[a] /\ a \in DOMAIN SlhDsaParams /\ Primitive(a) = "sig"
    BY <1>3, FamilyDomains DEF ParamsOf, Primitive
  <2> QED
    BY <2>1, SlhRows
<1> QED
  BY <1>1, <1>2, <1>3 DEF Families

-----------------------------------------------------------------------------
\* What an executor is told: of one primitive throughout.
Sound(x) ==
    /\ x.suite \in Suites
    /\ x.primitive \in {"kem", "sig"}
    /\ Family(x.algorithm) \in Families /\ Primitive(x.algorithm) = x.primitive
    /\ LET own == Registry[x.left.implementation]
       IN  Family(own) \in Families /\ Primitive(own) = x.primitive
    /\ x.message \in Nat /\ x.context \in Nat /\ x.plan \in Plans

KemFields == {"kem_decaps_c", "kem_decaps_sk", "kem_encaps_pk"}
SigFields == {"sig_sign_m", "sig_sign_sk", "sig_verify_m", "sig_verify_sig", "sig_verify_pk"}

\* The checks that mutate, by what they mutate.
LEMMA ChecksByField ==
    ASSUME NEW x, Sound(x), NEW check, check \in Checks(x), check \in MutatingChecks
    PROVE  \/ check = "ciphertext" /\ x.primitive = "kem"
           \/ check \in {"signature", "message", "context", "oid"} /\ x.primitive = "sig"
           \/ check \in KemFields /\ x.primitive = "kem"
           \/ check \in SigFields /\ x.primitive = "sig"
<1>1. /\ check \in {"ciphertext", "signature", "message", "context", "oid"} \cup KemFields \cup SigFields
  BY DEF MutatingChecks, MetamorphicFields, KemFields, SigFields
<1>2. CASE x.suite = "fips" /\ x.primitive = "kem"
  <2>1. Checks(x) = KemChecks(x)
    BY <1>2 DEF Checks
  <2>2. check \in {"ciphertext", "encaps", "decaps", "local"}
    BY <2>1 DEF KemChecks
  <2> QED
    BY <1>1, <1>2, <2>2 DEF KemFields, SigFields
<1>3. CASE x.suite = "fips" /\ x.primitive = "sig"
  <2>1. Checks(x) = SigChecks(x)
    BY <1>3 DEF Checks
  <2>2. check \in {"cross", "signature", "message", "context", "oid", "local"}
    BY <2>1 DEF SigChecks
  <2> QED
    BY <1>1, <1>3, <2>2 DEF KemFields, SigFields
<1>4. CASE x.suite = "metamorphic"
  <2>1. Checks(x) = IF In(x.oracle, MetamorphicOracles[x.primitive]) THEN {x.oracle} ELSE {"unknown_oracle"}
    BY <1>4 DEF Checks
  <2>2. check # "unknown_oracle"
    BY <1>1 DEF KemFields, SigFields
  <2>3. check = x.oracle /\ In(check, MetamorphicOracles[x.primitive])
    BY <2>1, <2>2
  <2>4. CASE x.primitive = "kem"
    <3>1. MetamorphicOracles[x.primitive] =
              <<"kem_decaps_c", "kem_decaps_sk", "kem_encaps_badrng", "kem_encaps_pk_0",
                "kem_encaps_pk", "kem_keygen_badrng">>
      BY <2>4 DEF MetamorphicOracles
    <3>2. check \in {"kem_decaps_c", "kem_decaps_sk", "kem_encaps_badrng", "kem_encaps_pk_0",
                     "kem_encaps_pk", "kem_keygen_badrng"}
      BY <2>3, <3>1 DEF In
    <3> QED
      BY <1>1, <2>4, <3>2 DEF KemFields, SigFields
  <2>5. CASE x.primitive = "sig"
    <3>1. MetamorphicOracles[x.primitive] =
              <<"sig_keygen_badrng", "sig_sign_badrng", "sig_sign_m", "sig_sign_sk",
                "sig_verify_m", "sig_verify_sig", "sig_verify_pk">>
      BY <2>5 DEF MetamorphicOracles
    <3>2. check \in {"sig_keygen_badrng", "sig_sign_badrng", "sig_sign_m", "sig_sign_sk",
                     "sig_verify_m", "sig_verify_sig", "sig_verify_pk"}
      BY <2>3, <3>1 DEF In
    <3> QED
      BY <1>1, <2>5, <3>2 DEF KemFields, SigFields
  <2> QED
    BY <2>4, <2>5 DEF Sound
<1> QED
  BY <1>2, <1>3, <1>4 DEF Sound, Suites

\* The mutation of an experiment is one of a mutator's, of a field that has
\* the length size.
Mauled(m, plan, size) == m = Maul(plan, size)
RegionMutated(m, plan, size) ==
    \E regions, ops, named :
        /\ IsLayout(regions) /\ ops \in Nat /\ ops > 0 /\ \A op \in DOMAIN named : named[op] \in Nat
        /\ m = MutateRegion(regions, ops, named, plan, size)
CiphertextMutated(m, plan, size) ==
    \E p : /\ p.k \in Nat /\ p.du \in Nat /\ p.dv \in Nat
           /\ m = MutateCiphertext(p, plan, size)

LEMMA SignatureRegionMutated ==
    ASSUME NEW regions, IsLayout(regions), NEW plan, NEW size
    PROVE  /\ RegionMutated(MutateMlDsa(regions, plan, size), plan, size)
           /\ RegionMutated(MutateSlhDsa(regions, plan, size), plan, size)
<1>1. \A op \in DOMAIN MlDsaNamed : MlDsaNamed[op] \in Nat
  BY DEF MlDsaNamed
<1>2. \A op \in DOMAIN SlhDsaNamed : SlhDsaNamed[op] \in Nat
  BY DEF SlhDsaNamed
<1>3. MutateMlDsa(regions, plan, size) = MutateRegion(regions, 11, MlDsaNamed, plan, size)
  BY DEF MutateMlDsa
<1>4. MutateSlhDsa(regions, plan, size) = MutateRegion(regions, 12, SlhDsaNamed, plan, size)
  BY DEF MutateSlhDsa
<1>5. RegionMutated(MutateMlDsa(regions, plan, size), plan, size)
  BY <1>1, <1>3 DEF RegionMutated
<1>6. RegionMutated(MutateSlhDsa(regions, plan, size), plan, size)
  BY <1>2, <1>4 DEF RegionMutated
<1> QED
  BY <1>5, <1>6

LEMMA SingleIsLayout ==
    ASSUME NEW name, NEW size \in Nat
    PROVE  IsLayout(SingleRegion(name, size))
<1>1. IsRegion(Region(name, 0, size))
  BY DEF IsRegion, Region
<1> QED
  BY <1>1 DEF IsLayout, SingleRegion

LEMMA MutationOfIs ==
    ASSUME NEW x, Sound(x), NEW check, check \in Checks(x), check \in MutatingChecks
    PROVE  LET m == MutationOf(check, x) IN
           \E size \in Nat :
               \/ Mauled(m, x.plan, size) /\ check # "oid"
               \/ RegionMutated(m, x.plan, size)
               \/ check = "ciphertext" /\ CiphertextMutated(m, x.plan, size)
<1> DEFINE own == Registry[x.left.implementation]
           adapter == ParamsOf(own)
           m == MutationOf(check, x)
<1>1. /\ Family(own) \in Families /\ Primitive(own) = x.primitive
      /\ Family(x.algorithm) \in Families /\ Primitive(x.algorithm) = x.primitive
      /\ x.message \in Nat /\ x.context \in Nat
  BY DEF Sound
<1>2. /\ adapter.pk \in Nat /\ adapter.sk \in Nat
      /\ x.primitive = "kem" => adapter.ct \in Nat
      /\ x.primitive = "sig" => adapter.sig \in Nat
  <2> HIDE DEF own
  <2> QED BY <1>1, AdapterLengths
<1>3. m = CASE check = "ciphertext" -> MutateCiphertext(MlKemParams[x.algorithm], x.plan, adapter.ct)
          [] check = "signature" /\ Family(x.algorithm) = "SLH-DSA" ->
                 MutateSlhDsa(SlhDsaSignatureRegions(SlhDsaParams[x.algorithm], adapter.sig), x.plan, adapter.sig)
          [] check = "signature" /\ Family(x.algorithm) = "ML-DSA" ->
                 MutateMlDsa(MlDsaSignatureRegions(adapter.sig), x.plan, adapter.sig)
          [] check = "message" -> MutateWhole(x, "message", x.message)
          [] check = "context" -> MutateWhole(x, "ctx", x.context)
          [] check = "oid" -> MutateMlDsa(SingleRegion("oid", 5), x.plan, 5)
          [] OTHER -> Maul(x.plan, IF MetamorphicFields[check] = "message" THEN x.message
                                   ELSE adapter[MetamorphicFields[check]])
  BY DEF MutationOf
<1> HIDE DEF own, adapter, m
<1>4. ASSUME NEW name, NEW size \in Nat PROVE RegionMutated(MutateWhole(x, name, size), x.plan, size)
  <2>1. IsLayout(SingleRegion(name, size))
    BY SingleIsLayout
  <2> QED
    BY <2>1, SignatureRegionMutated DEF MutateWhole
<1>5. CASE check = "ciphertext" /\ x.primitive = "kem"
  <2>1. m = MutateCiphertext(MlKemParams[x.algorithm], x.plan, adapter.ct)
    BY <1>3, <1>5
  <2>2. x.algorithm \in DOMAIN MlKemParams
    BY <1>1, <1>5, PrimitiveOfFamily, FamilyDomains
  <2>3. CiphertextMutated(m, x.plan, adapter.ct)
    BY <2>1, <2>2, KemRows DEF CiphertextMutated
  <2> QED
    BY <1>2, <1>5, <2>3 DEF m
<1>6. CASE check = "signature" /\ x.primitive = "sig"
  <2>1. adapter.sig \in Nat
    BY <1>2, <1>6
  <2>2. Family(x.algorithm) \in {"ML-DSA", "SLH-DSA"}
    BY <1>1, <1>6, PrimitiveOfFamily
  <2>3. CASE Family(x.algorithm) = "ML-DSA"
    <3>1. m = MutateMlDsa(MlDsaSignatureRegions(adapter.sig), x.plan, adapter.sig)
      BY <1>3, <1>6, <2>3
    <3>2. IsLayout(MlDsaSignatureRegions(adapter.sig))
      BY <2>1, MlDsaLayoutCovers
    <3> QED
      BY <2>1, <3>1, <3>2, SignatureRegionMutated DEF m
  <2>4. CASE Family(x.algorithm) = "SLH-DSA"
    <3>1. m = MutateSlhDsa(SlhDsaSignatureRegions(SlhDsaParams[x.algorithm], adapter.sig), x.plan, adapter.sig)
      BY <1>3, <1>6, <2>4
    <3>2. x.algorithm \in DOMAIN SlhDsaParams
      BY <2>4, FamilyDomains
    <3>3. IsLayout(SlhDsaSignatureRegions(SlhDsaParams[x.algorithm], adapter.sig))
      BY <2>1, <3>2, SlhRows, SlhDsaLayoutCovers
    <3> QED
      BY <2>1, <3>1, <3>3, SignatureRegionMutated DEF m
  <2> QED
    BY <2>2, <2>3, <2>4
<1>7. CASE check = "message"
  <2>1. m = MutateWhole(x, "message", x.message)
    BY <1>3, <1>7
  <2> QED
    BY <1>1, <1>4, <2>1 DEF m
<1>8. CASE check = "context"
  <2>1. m = MutateWhole(x, "ctx", x.context)
    BY <1>3, <1>8
  <2> QED
    BY <1>1, <1>4, <2>1 DEF m
<1>9. CASE check = "oid"
  <2>1. m = MutateMlDsa(SingleRegion("oid", 5), x.plan, 5)
    BY <1>3, <1>9
  <2>2. RegionMutated(m, x.plan, 5)
    BY <2>1, SingleIsLayout, SignatureRegionMutated
  <2>3. 5 \in Nat
    OBVIOUS
  <2> QED
    BY <2>2, <2>3 DEF m
<1>10. CASE (check \in KemFields /\ x.primitive = "kem") \/ (check \in SigFields /\ x.primitive = "sig")
  <2> DEFINE size == IF MetamorphicFields[check] = "message" THEN x.message
                     ELSE adapter[MetamorphicFields[check]]
  <2>1. check \notin {"ciphertext", "signature", "message", "context", "oid"}
    BY <1>10 DEF KemFields, SigFields
  <2>2. m = Maul(x.plan, size)
    BY <1>3, <2>1
  <2>3. \/ MetamorphicFields[check] \in {"pk", "sk", "message"}
        \/ MetamorphicFields[check] = "ct" /\ x.primitive = "kem"
        \/ MetamorphicFields[check] = "sig" /\ x.primitive = "sig"
    BY <1>10 DEF KemFields, SigFields, MetamorphicFields
  <2>4. size \in Nat
    BY <1>1, <1>2, <2>3
  <2> HIDE DEF size
  <2> QED
    BY <2>1, <2>2, <2>4 DEF Mauled, m
<1>11. \/ check = "ciphertext" /\ x.primitive = "kem"
       \/ check \in {"signature", "message", "context", "oid"} /\ x.primitive = "sig"
       \/ check \in KemFields /\ x.primitive = "kem"
       \/ check \in SigFields /\ x.primitive = "sig"
  BY ChecksByField
<1> QED
  BY <1>5, <1>6, <1>7, <1>8, <1>9, <1>10, <1>11

\* Whatever is mutated, the mutation is confined.
LEMMA SoundConfined ==
    ASSUME NEW x, Sound(x), NEW check, check \in Checks(x), check \in MutatingChecks
    PROVE  Confined(MutationOf(check, x))
<1> DEFINE m == MutationOf(check, x)
<1>1. x.plan \in Plans
  BY DEF Sound
<1>2. PICK size \in Nat : \/ Mauled(m, x.plan, size)
                          \/ RegionMutated(m, x.plan, size)
                          \/ CiphertextMutated(m, x.plan, size)
  BY MutationOfIs
<1> HIDE DEF m
<1>3. CASE Mauled(m, x.plan, size)
  BY <1>1, <1>3, MaulConfined DEF Mauled, m
<1>4. CASE RegionMutated(m, x.plan, size)
  <2>1. PICK regions, ops, named :
            /\ IsLayout(regions) /\ ops \in Nat /\ ops > 0 /\ \A op \in DOMAIN named : named[op] \in Nat
            /\ m = MutateRegion(regions, ops, named, x.plan, size)
    BY <1>4 DEF RegionMutated
  <2>2. Confined(MutateRegion(regions, ops, named, x.plan, size))
    BY <1>1, <2>1, RegionMutationConfined
  <2> QED
    BY <2>1, <2>2 DEF m
<1>5. CASE CiphertextMutated(m, x.plan, size)
  <2>1. PICK p : /\ p.k \in Nat /\ p.du \in Nat /\ p.dv \in Nat
                 /\ m = MutateCiphertext(p, x.plan, size)
    BY <1>5 DEF CiphertextMutated
  <2>2. Confined(MutateCiphertext(p, x.plan, size))
    BY <1>1, <2>1, CiphertextMutationConfined
  <2> QED
    BY <2>1, <2>2 DEF m
<1> QED
  BY <1>2, <1>3, <1>4, <1>5

\* With the adapter's algorithm in the envelope every mutation of a field that
\* is not empty is one that works.
LEMMA SoundWorks ==
    ASSUME NEW x, Sound(x), x.algorithm = Registry[x.left.implementation],
           NEW check, check \in Checks(x), check \in MutatingChecks, MutationOf(check, x).before > 0
    PROVE  Works(MutationOf(check, x))
<1> DEFINE m == MutationOf(check, x)
<1>1. x.plan \in Plans
  BY DEF Sound
<1>2. PICK size \in Nat : \/ Mauled(m, x.plan, size)
                          \/ RegionMutated(m, x.plan, size)
                          \/ check = "ciphertext" /\ CiphertextMutated(m, x.plan, size)
  BY MutationOfIs
<1>3. m.before > 0
  OBVIOUS
<1> HIDE DEF m
<1>4. CASE Mauled(m, x.plan, size)
  <2>1. m = Maul(x.plan, size) /\ size > 0
    BY <1>1, <1>3, <1>4, BeforeIsSize DEF Mauled
  <2> QED
    BY <1>1, <2>1, MaulWorks DEF m
<1>5. CASE RegionMutated(m, x.plan, size)
  <2>1. PICK regions, ops, named :
            /\ IsLayout(regions) /\ ops \in Nat /\ ops > 0 /\ \A op \in DOMAIN named : named[op] \in Nat
            /\ m = MutateRegion(regions, ops, named, x.plan, size)
    BY <1>5 DEF RegionMutated
  <2>2. size > 0
    BY <1>1, <1>3, <2>1, BeforeIsSize
  <2>3. Works(MutateRegion(regions, ops, named, x.plan, size))
    BY <1>1, <2>1, <2>2, RegionMutationWorks
  <2> QED
    BY <2>1, <2>3 DEF m
<1>6. CASE check = "ciphertext"
  <2> DEFINE p == MlKemParams[x.algorithm]
  <2>1. x.primitive = "kem"
    BY <1>6, ChecksByField DEF KemFields, SigFields
  <2>2. /\ x.algorithm \in DOMAIN MlKemParams
        /\ ParamsOf(x.algorithm) = p
    BY <2>1, PrimitiveOfFamily, FamilyDomains, AdapterLengths DEF Sound
  <2>3. m = MutateCiphertext(p, x.plan, p.ct)
    BY <1>6, <2>2 DEF m, MutationOf
  <2>4. /\ p.k \in Nat /\ p.du \in Nat /\ p.dv \in Nat /\ p.ct \in Nat
        /\ 32 * p.du * p.k > 0 /\ 32 * p.dv > 0 /\ 32 * p.du * p.k < p.ct
    BY <2>2, KemRows
  <2> HIDE DEF p
  <2>5. Works(MutateCiphertext(p, x.plan, p.ct))
    BY <1>1, <2>4, CiphertextMutationWorks
  <2> QED
    BY <2>3, <2>5 DEF m
<1> QED
  BY <1>2, <1>4, <1>5, <1>6

-----------------------------------------------------------------------------
\* The jobs there are.

Pairs == UNION {{file[i] : i \in DOMAIN file} : file \in PairFiles}
FipsJobs == {FipsJob(pair) : pair \in Pairs}
MetamorphicJobs == {MetamorphicJob(pair) : pair \in Pairs}
JobSet == FipsJobs \cup MetamorphicJobs

IsCampaign(job) ==
    \E primitive \in {"kem", "sig"}, suite \in Suites :
        job = [CampaignJobs[primitive] EXCEPT !.suite = suite]

ConfiguredJob(job) == Configured(job.algorithm, job.left, job.right, job.contract)

LEMMA PairsAreConfigured ==
    ASSUME NEW pair \in Pairs
    PROVE  Configured(pair.algorithm, pair.left, pair.right, pair.contract)
<1>1. PICK file \in PairFiles : pair \in {file[i] : i \in DOMAIN file}
  BY DEF Pairs
<1>2. PICK i \in DOMAIN file : pair = file[i]
  BY <1>1
<1> QED
  BY <1>1, <1>2, PairsAssumption DEF PairsAssumption

LEMMA JobsHaveIds ==
    ASSUME NEW job \in JobSet
    PROVE  job.id \in JobIds
<1>1. JobIds = UNION {{FipsJob(p).id, MetamorphicJob(p).id} : p \in Pairs}
  BY DEF JobIds, Pairs
<1>2. PICK pair \in Pairs : job = FipsJob(pair) \/ job = MetamorphicJob(pair)
  BY DEF JobSet, FipsJobs, MetamorphicJobs
<1>3. job.id \in {FipsJob(pair).id, MetamorphicJob(pair).id}
  BY <1>2
<1> QED
  BY <1>1, <1>3

LEMMA FipsJobFacts ==
    ASSUME NEW job \in FipsJobs
    PROVE  /\ ConfiguredJob(job) /\ job.id \in JobIds
           /\ job.suite = "fips" /\ job.oracles = FipsOracles[Family(job.algorithm)]
<1>1. PICK pair \in Pairs : job = FipsJob(pair)
  BY DEF FipsJobs
<1>2. /\ job.algorithm = pair.algorithm /\ job.left = pair.left /\ job.right = pair.right
      /\ job.contract = pair.contract /\ job.suite = "fips"
      /\ job.oracles = FipsOracles[Family(pair.algorithm)]
  BY <1>1 DEF FipsJob, Job
<1>3. ConfiguredJob(job)
  BY <1>2, PairsAreConfigured DEF ConfiguredJob
<1> QED
  BY <1>2, <1>3, JobsHaveIds DEF JobSet

LEMMA CampaignFacts ==
    ASSUME NEW job, IsCampaign(job)
    PROVE  /\ ConfiguredJob(job) /\ job.id \notin JobIds /\ job.id \in CampaignIds
           /\ job.suite \in Suites /\ job # None
<1>1. PICK p \in {"kem", "sig"}, suite \in Suites : job = [CampaignJobs[p] EXCEPT !.suite = suite]
  BY DEF IsCampaign
<1> DEFINE c == CampaignJobs[p]
<1>2. /\ c = Job(c.id, c.suite, c.algorithm, c.oracles, c.left, c.right, c.contract)
      /\ Configured(c.algorithm, c.left, c.right, c.contract)
      /\ c.id \notin JobIds
      /\ job # None
  BY <1>1, CampaignAssumption DEF CampaignAssumption
<1>3. c.id \in CampaignIds
  BY DEF CampaignIds
<1> HIDE DEF c
<1>4. c = [id |-> c.id, suite |-> c.suite, algorithm |-> c.algorithm, oracles |-> c.oracles,
           left |-> c.left, right |-> c.right, contract |-> c.contract]
  BY <1>2 DEF Job
<1>5. job = [c EXCEPT !.suite = suite]
  BY <1>1 DEF c
<1>6. /\ job.id = c.id /\ job.algorithm = c.algorithm /\ job.left = c.left /\ job.right = c.right
      /\ job.contract = c.contract /\ job.suite = suite
  BY <1>4, <1>5
<1> QED
  BY <1>2, <1>3, <1>6 DEF ConfiguredJob

-----------------------------------------------------------------------------
\* What is printed of a job, and what a build makes of it.

Printed(job) == {job.left.project, job.left.implementation, job.right.project,
                 job.right.implementation, "1", "0"}

\* c is a, of length m, and b, of length n, behind it.
IsJoined(c, S, a, m, b, n) ==
    /\ c \in Seq(S) /\ Len(c) = m + n
    /\ \A k \in 1..m : c[k] = a[k]
    /\ \A k \in 1..n : c[m + k] = b[k]

LEMMA Joined ==
    ASSUME NEW S, NEW a \in Seq(S), NEW b \in Seq(S)
    PROVE  IsJoined(a \o b, S, a, Len(a), b, Len(b))
  BY DEF IsJoined

LEMMA Elements ==
    ASSUME NEW S, NEW f \in Seq(S)
    PROVE  /\ DOMAIN f = 1..Len(f) /\ f = [i \in 1..Len(f) |-> f[i]]
           /\ \A i \in 1..Len(f) : f[i] \in S
  OBVIOUS

LEMMA FieldsOfJob ==
    ASSUME NEW job
    PROVE  LET f == Fields(job) IN
           /\ Nine(f, Printed(job))
           /\ f[1] = job.left.project /\ f[2] = job.left.implementation
           /\ f[3] = job.right.project /\ f[4] = job.right.implementation
           /\ \A k \in DOMAIN Flags : f[k + 4] = IF Flags[k] \in job.contract THEN "1" ELSE "0"
<1> DEFINE names == <<job.left.project, job.left.implementation, job.right.project, job.right.implementation>>
           flags == [i \in DOMAIN Flags |-> IF Flags[i] \in job.contract THEN "1" ELSE "0"]
           f == Fields(job)
           S == Printed(job)
<1>1. DOMAIN Flags = 1..5
  BY DEF Flags
<1>2. names \in Seq(S) /\ Len(names) = 4
  BY DEF Printed
<1>3. flags \in Seq(S) /\ Len(flags) = 5
  <2>1. flags \in [1..5 -> S]
    BY <1>1 DEF Printed
  <2> QED
    BY <2>1
<1>4. f = names \o flags
  BY DEF Fields
<1>5. /\ names[1] = job.left.project /\ names[2] = job.left.implementation
      /\ names[3] = job.right.project /\ names[4] = job.right.implementation
  OBVIOUS
<1>6. \A k \in 1..5 : flags[k] = IF Flags[k] \in job.contract THEN "1" ELSE "0"
  BY <1>1
<1> HIDE DEF names, flags, f, S
<1>7. /\ f \in Seq(S) /\ Len(f) = 4 + 5
      /\ \A k \in 1..4 : f[k] = names[k]
      /\ \A k \in 1..5 : f[4 + k] = flags[k]
  <2>1. IsJoined(names \o flags, S, names, Len(names), flags, Len(flags))
    BY <1>2, <1>3, Joined
  <2>2. IsJoined(f, S, names, 4, flags, 5)
    BY <1>2, <1>3, <1>4, <2>1
  <2> QED
    BY <2>2 DEF IsJoined
<1>8. Len(f) = 9
  BY <1>7
<1>9. Nine(f, S)
  <2>1. f = [i \in 1..Len(f) |-> f[i]] /\ \A i \in 1..Len(f) : f[i] \in S
    BY <1>7, Elements
  <2> QED
    BY <1>8, <2>1 DEF Nine
<1>10. /\ f[1] = job.left.project /\ f[2] = job.left.implementation
       /\ f[3] = job.right.project /\ f[4] = job.right.implementation
  BY <1>5, <1>7
<1>11. \A k \in DOMAIN Flags : f[k + 4] = IF Flags[k] \in job.contract THEN "1" ELSE "0"
  BY <1>1, <1>6, <1>7
<1> QED
  BY <1>9, <1>10, <1>11 DEF f, S

\* The values of a permission are not empty.
LEMMA DigitsAreNotEmpty == "1" # Empty /\ "0" # Empty
  BY Zenon DEF Empty

\* The job of two adapters is read back as it was printed.
LEMMA ConfiguredIsRead ==
    ASSUME NEW job, ConfiguredJob(job)
    PROVE  TabRead(Fields(job)) = Fields(job)
<1> DEFINE f == Fields(job)
<1>1. /\ Nine(f, Printed(job))
      /\ f[1] = job.left.project /\ f[2] = job.left.implementation
      /\ f[3] = job.right.project /\ f[4] = job.right.implementation
      /\ \A k \in DOMAIN Flags : f[k + 4] = IF Flags[k] \in job.contract THEN "1" ELSE "0"
  BY FieldsOfJob
<1>2. /\ job.left.project # Empty /\ job.left.implementation # Empty
      /\ job.right.project # Empty /\ job.right.implementation # Empty
  BY DEF ConfiguredJob, Configured, AdapterOf
<1>3. DOMAIN Flags = 1..5
  BY DEF Flags
<1> HIDE DEF f
<1>4. ASSUME NEW i \in 1..9 PROVE f[i] # Empty
  <2>1. CASE i \in 1..4
    BY <1>1, <1>2, <2>1
  <2>2. CASE i \in 5..9
    <3>1. i - 4 \in 1..5 /\ (i - 4) + 4 = i
      BY <2>2
    <3>2. f[i] = "1" \/ f[i] = "0"
      BY <1>1, <1>3, <3>1
    <3> QED
      BY <3>2, DigitsAreNotEmpty
  <2> QED
    BY <2>1, <2>2
<1>5. TabRead(f) = f
  BY <1>1, <1>4, FullLineIsRead
<1> QED
  BY <1>5 DEF f

\* The job of a single target is not compiled.
LEMMA MetamorphicDoesNotCompile ==
    ASSUME NEW job \in MetamorphicJobs
    PROVE  ~Compiles(job, TabRead(Fields(job)))
<1> DEFINE f == Fields(job)
<1>1. PICK pair \in Pairs : job = MetamorphicJob(pair)
  BY DEF MetamorphicJobs
<1>2. job.right = Absent
  BY <1>1 DEF MetamorphicJob, Job
<1>3. job.right.project = Empty /\ job.right.implementation = Empty
  BY <1>2 DEF Absent
<1>4. Nine(f, Printed(job)) /\ f[3] = Empty /\ f[4] = Empty
  BY <1>3, FieldsOfJob
<1>5. TabRead(f)[8] = Empty /\ TabRead(f)[9] = Empty
  <2> HIDE DEF f
  <2> QED BY <1>4, GapsAreLost
<1>6. 8 \in 5..8 /\ 9 \in {5, 9}
  OBVIOUS
<1> HIDE DEF f
<1>7. ~Compiles(job, TabRead(f))
  BY <1>5, <1>6 DEF Compiles
<1> QED
  BY <1>7 DEF f

\* A fuzzer that was compiled, from a job of two adapters or in a campaign.
Built(f) ==
    /\ f = Fuzzer(f.from, Fields(f.from))
    /\ f.from \in FipsJobs \ {None, Torn} \/ IsCampaign(f.from)

LEMMA BuiltFacts ==
    ASSUME NEW f, Built(f)
    PROVE  /\ f.job = f.from.id /\ f.suite = f.from.suite
           /\ f.primitive = Primitive(f.from.algorithm)
           /\ f.left = f.from.left /\ f.right = f.from.right /\ f.contract = f.from.contract
           /\ ConfiguredJob(f.from) /\ f.suite \in Suites
<1> DEFINE job == f.from
           m == Fields(job)
<1>1. ConfiguredJob(job) /\ job.suite \in Suites
  BY FipsJobFacts, CampaignFacts DEF Built, Suites
<1>2. /\ m[1] = job.left.project /\ m[2] = job.left.implementation
      /\ m[3] = job.right.project /\ m[4] = job.right.implementation
      /\ \A k \in DOMAIN Flags : m[k + 4] = IF Flags[k] \in job.contract THEN "1" ELSE "0"
  BY FieldsOfJob
<1>3. f = Fuzzer(job, m)
  BY DEF Built
<1> HIDE DEF m
<1>4. /\ f.job = job.id /\ f.suite = job.suite /\ f.primitive = Primitive(job.algorithm)
      /\ f.left = [project |-> m[1], implementation |-> m[2]]
      /\ f.right = [project |-> m[3], implementation |-> m[4]]
      /\ f.contract = {Flags[i] : i \in {k \in DOMAIN Flags : m[k + 4] = "1"}}
  BY <1>3 DEF Fuzzer
<1>5. /\ job.left = [project |-> job.left.project, implementation |-> job.left.implementation]
      /\ job.right = [project |-> job.right.project, implementation |-> job.right.implementation]
      /\ job.contract \subseteq {Flags[i] : i \in DOMAIN Flags}
  BY <1>1 DEF ConfiguredJob, Configured, AdapterOf
<1>6. f.contract = job.contract
  <2>1. \A k \in DOMAIN Flags : m[k + 4] = "1" <=> Flags[k] \in job.contract
    BY <1>2
  <2>2. {k \in DOMAIN Flags : m[k + 4] = "1"} = {k \in DOMAIN Flags : Flags[k] \in job.contract}
    BY <2>1
  <2>3. {Flags[i] : i \in {k \in DOMAIN Flags : Flags[k] \in job.contract}} = job.contract
    BY <1>5
  <2> QED
    BY <1>4, <2>2, <2>3
<1> QED
  BY <1>1, <1>2, <1>4, <1>5, <1>6

\* A finding a fuzzer may make.
Found(fd) ==
    /\ fd.input \in Inputs /\ Built(fd.fuzzer) /\ Accepts(fd.fuzzer, fd.input)

LEMMA FoundIsSound ==
    ASSUME NEW fd, Found(fd)
    PROVE  Sound(Fuzzed(fd.fuzzer, fd.input))
<1> DEFINE f == fd.fuzzer
           e == fd.input
           x == Fuzzed(f, e)
<1>1. e \in Inputs /\ Built(f) /\ Accepts(f, e)
  BY DEF Found
<1>2. e.plan \in Plans /\ e.message \in Nat /\ e.extra \in Nat
  BY <1>1, InputsAssumption DEF InputsAssumption
<1>3. /\ f.primitive = Primitive(f.from.algorithm) /\ f.left = f.from.left /\ f.suite \in Suites
      /\ ConfiguredJob(f.from)
  BY <1>1, BuiltFacts
<1>4. /\ x.suite = f.suite /\ x.primitive = f.primitive /\ x.left = f.left
      /\ x.algorithm = e.algorithm /\ x.plan = e.plan
      /\ x.message = IF f.primitive = "kem" THEN 0 ELSE IF e.message = 0 THEN 7 ELSE e.message
      /\ x.context = IF f.primitive = "kem" THEN 0 ELSE Less(e.extra, 255)
  BY DEF Fuzzed, Experiment
<1> HIDE DEF x, f, e
<1>5. /\ Family(f.from.algorithm) \in Families
      /\ Registry[f.from.left.implementation] = f.from.algorithm
  BY <1>3 DEF ConfiguredJob, Configured, AdapterOf
<1>6. Family(e.algorithm) \in Families /\ Primitive(e.algorithm) = f.primitive
  <2>1. Family(e.algorithm) # "none" /\ Primitive(e.algorithm) = f.primitive
    BY <1>1 DEF Accepts
  <2> QED
    BY <2>1 DEF Family, Families
<1>7. f.primitive \in {"kem", "sig"}
  BY <1>3, <1>5, PrimitiveOfFamily
<1>8. x.message \in Nat /\ x.context \in Nat
  BY <1>2, <1>4 DEF Less
<1>9. Sound(x)
  BY <1>2, <1>3, <1>4, <1>5, <1>6, <1>7, <1>8 DEF Sound
<1> QED
  BY <1>9 DEF x, f, e

-----------------------------------------------------------------------------
(***************************************************************************)
(* The inductive invariant.  Of the files: what is in them was made by a   *)
(* generation or a build.  Of a generation that runs: the jobs it has      *)
(* written are in their files, or a later one of the same id is.  Of the   *)
(* list: the same of all its jobs, until the next generation starts.       *)
(***************************************************************************)

\* Jobs of which only those of one algorithm's single target share an id.
JobList(jobs) ==
    /\ jobs \in Seq(JobSet)
    /\ \A i, k \in DOMAIN jobs :
           jobs[i].id = jobs[k].id =>
               i = k \/ (jobs[i].suite = "metamorphic" /\ jobs[k].algorithm = jobs[i].algorithm)

Kept(files, jobs, n) ==
    \A i \in 1..n :
        files[jobs[i].id] = jobs[i] \/ \E k \in 1..n : k > i /\ jobs[k].id = jobs[i].id

Written(files, jobs, todo) ==
    /\ JobList(jobs)
    /\ Len(todo) <= Len(jobs)
    /\ \A i \in 1..Len(todo) : todo[i] = jobs[Len(jobs) - Len(todo) + i]
    /\ Kept(files, jobs, Len(jobs) - Len(todo))

FilesInv(files, bins, fd) ==
    /\ files \in [JobIds -> JobSet \cup {None, Torn}]
    /\ DOMAIN bins = JobIds \cup CampaignIds
    /\ \A j \in DOMAIN bins : bins[j] # None => Built(bins[j])
    /\ fd # None => Found(fd)

GenInv(g, files) ==
    /\ g \in [phase : {"idle", "writing", "interrupted"}, jobs : Seq(JobSet), todo : Seq(JobSet)]
    /\ g.phase = "writing" => Written(files, g.jobs, g.todo)

ListInv(g, ls, files) ==
    g.phase = "idle" => JobList(ls) /\ Kept(files, ls, Len(ls))

IInv ==
    /\ FilesInv(jobFile, fuzzer, finding)
    /\ GenInv(gen, jobFile)
    /\ ListInv(gen, listed, jobFile)

\* The jobs of a generation are a list of jobs.
LEMMA JobsOfIsJobList ==
    ASSUME NEW file \in PairFiles, NEW family \in Families, NEW suite \in Suites
    PROVE  JobList(JobsOf(file, family, suite))
<1> DEFINE S == {file[i] : i \in DOMAIN file}
           chosen == {i \in DOMAIN file :
                        Family(file[i].algorithm) = family
                        /\ (suite = "fips" \/ Runtime \in {file[i].left.project, file[i].right.project})}
           pairs == Selected(file, chosen)
           jobs == JobsOf(file, family, suite)
<1>1. file \in Seq(S) /\ \A i, k \in DOMAIN file : file[i].id = file[k].id => i = k
  BY PairsAssumption DEF PairsAssumption
<1>2. S \subseteq Pairs
  BY DEF Pairs
<1>3. jobs = [i \in DOMAIN pairs |-> IF suite = "fips" THEN FipsJob(pairs[i]) ELSE MetamorphicJob(pairs[i])]
  BY DEF JobsOf
<1> HIDE DEF S, chosen
<1>4. \A i, k \in DOMAIN file : file[i] = file[k] => i = k
  BY <1>1
<1>5. Picks(pairs, S, file, chosen, Len(file))
  BY <1>1, <1>4, SelectedPicks
<1> HIDE DEF pairs, jobs
<1>6. /\ pairs \in Seq(S) /\ \A k, m \in DOMAIN pairs : pairs[k] = pairs[m] => k = m
      /\ \A k \in DOMAIN pairs : \E q \in 1..Len(file) : pairs[k] = file[q]
  BY <1>5 DEF Picks
<1>7. DOMAIN file = 1..Len(file)
  BY <1>1
<1>8. DOMAIN pairs = 1..Len(pairs) /\ Len(pairs) \in Nat /\ \A k \in DOMAIN pairs : pairs[k] \in Pairs
  BY <1>2, <1>6
<1>9. ASSUME NEW k \in DOMAIN pairs PROVE jobs[k] \in JobSet
  BY <1>3, <1>8 DEF JobSet, FipsJobs, MetamorphicJobs
<1>10. jobs \in Seq(JobSet) /\ DOMAIN jobs = DOMAIN pairs
  <2>1. DOMAIN jobs = DOMAIN pairs /\ jobs = [i \in 1..Len(pairs) |-> jobs[i]]
    BY <1>3, <1>8
  <2>2. jobs \in [1..Len(pairs) -> JobSet]
    BY <1>8, <1>9, <2>1
  <2> QED
    BY <1>8, <2>1, <2>2
<1>11. ASSUME NEW i \in DOMAIN pairs, NEW k \in DOMAIN pairs, jobs[i].id = jobs[k].id
       PROVE  i = k \/ (jobs[i].suite = "metamorphic" /\ jobs[k].algorithm = jobs[i].algorithm)
  <2>1. CASE suite = "fips"
    <3>1. jobs[i] = FipsJob(pairs[i]) /\ jobs[k] = FipsJob(pairs[k])
      BY <1>3, <2>1
    <3>2. <<"job", pairs[i].id>> = <<"job", pairs[k].id>>
      BY <1>11, <3>1 DEF FipsJob, Job
    <3>3. pairs[i].id = pairs[k].id
      BY <3>2
    <3>4. PICK q \in 1..Len(file) : pairs[i] = file[q]
      BY <1>6
    <3>5. PICK r \in 1..Len(file) : pairs[k] = file[r]
      BY <1>6
    <3>6. q = r
      BY <1>1, <1>7, <3>3, <3>4, <3>5
    <3> QED
      BY <1>6, <3>4, <3>5, <3>6
  <2>2. CASE suite = "metamorphic"
    <3>1. jobs[i] = MetamorphicJob(pairs[i]) /\ jobs[k] = MetamorphicJob(pairs[k])
      BY <1>3, <2>2
    <3>2. /\ jobs[i].id = <<"job", pairs[i].algorithm, Runtime>> /\ jobs[i].suite = "metamorphic"
          /\ jobs[i].algorithm = pairs[i].algorithm
      BY <3>1 DEF MetamorphicJob, Job
    <3>3. /\ jobs[k].id = <<"job", pairs[k].algorithm, Runtime>>
          /\ jobs[k].algorithm = pairs[k].algorithm
      BY <3>1 DEF MetamorphicJob, Job
    <3>4. pairs[i].algorithm = pairs[k].algorithm
      <4>1. <<"job", pairs[i].algorithm, Runtime>> = <<"job", pairs[k].algorithm, Runtime>>
        BY <1>11, <3>2, <3>3
      <4> QED
        BY <4>1
    <3> QED
      BY <3>2, <3>3, <3>4
  <2> QED
    BY <2>1, <2>2 DEF Suites
<1>12. JobList(jobs)
  BY <1>10, <1>11 DEF JobList
<1> QED
  BY <1>12 DEF jobs

LEMMA EmptyList ==
    ASSUME NEW files
    PROVE  <<>> \in Seq(JobSet) /\ Len(<<>>) = 0 /\ JobList(<<>>) /\ Kept(files, <<>>, 0)
<1>1. <<>> \in Seq(JobSet) /\ Len(<<>>) = 0 /\ DOMAIN <<>> = {}
  OBVIOUS
<1>2. 1..0 = {}
  OBVIOUS
<1> QED
  BY <1>1, <1>2 DEF JobList, Kept

\* Nothing of a list is written when it is made.
LEMMA StartsWritten ==
    ASSUME NEW files, NEW jobs, JobList(jobs)
    PROVE  Written(files, jobs, jobs)
<1>1. Len(jobs) \in Nat
  BY DEF JobList
<1>2. Len(jobs) - Len(jobs) = 0 /\ Len(jobs) <= Len(jobs) /\ 1..0 = {}
  BY <1>1
<1>3. \A i \in 1..Len(jobs) : jobs[i] = jobs[Len(jobs) - Len(jobs) + i]
  BY <1>1, <1>2
<1>4. Kept(files, jobs, 0)
  BY <1>2 DEF Kept
<1> QED
  BY <1>2, <1>3, <1>4 DEF Written

\* Writing the next job keeps those before, or replaces one by a later one.
LEMMA WritesNext ==
    ASSUME NEW files \in [JobIds -> JobSet \cup {None, Torn}], NEW jobs,
           NEW todo \in Seq(JobSet), todo # <<>>, Written(files, jobs, todo)
    PROVE  /\ Head(todo) \in JobSet /\ Tail(todo) \in Seq(JobSet)
           /\ Written([files EXCEPT ![Head(todo).id] = Head(todo)], jobs, Tail(todo))
<1> DEFINE t == Len(todo)
           l == Len(jobs)
           d == l - t
           job == Head(todo)
           rest == Tail(todo)
           next == [files EXCEPT ![job.id] = job]
<1>1. /\ JobList(jobs) /\ t <= l /\ Kept(files, jobs, d)
      /\ \A i \in 1..t : todo[i] = jobs[d + i]
  BY DEF Written
<1>2. jobs \in Seq(JobSet) /\ l \in Nat
  BY <1>1 DEF JobList
<1>3. /\ t \in Nat /\ t > 0 /\ job = todo[1] /\ job \in JobSet /\ rest \in Seq(JobSet)
      /\ Len(rest) = t - 1
  OBVIOUS
<1>4. \A i \in 1..(t - 1) : rest[i] = todo[i + 1]
  BY <1>3
<1>5. job.id \in JobIds
  BY <1>3, JobsHaveIds
<1>6. \A k \in 1..l : jobs[k] \in JobSet /\ jobs[k].id \in JobIds
  BY <1>2, JobsHaveIds
<1> HIDE DEF t, l, job, rest
<1>7. d \in Nat /\ d + 1 <= l /\ l - Len(rest) = d + 1
  BY <1>1, <1>2, <1>3
<1>8. job = jobs[d + 1]
  <2>1. 1 \in 1..t
    BY <1>3
  <2> QED
    BY <1>1, <1>3, <2>1
<1>9. next[job.id] = job /\ \A j \in JobIds : j # job.id => next[j] = files[j]
  BY <1>5
<1> HIDE DEF next, d
<1>10. Kept(next, jobs, d + 1)
  <2> SUFFICES ASSUME NEW i \in 1..d+1
               PROVE  \/ next[jobs[i].id] = jobs[i]
                      \/ \E k \in 1..d+1 : k > i /\ jobs[k].id = jobs[i].id
    BY DEF Kept
  <2>1. d + 1 \in 1..d+1 /\ i \in 1..l /\ \A k \in 1..d : k \in 1..d+1
    BY <1>2, <1>7
  <2>2. CASE i = d + 1
    BY <1>8, <1>9, <2>2
  <2>3. CASE i # d + 1
    <3>1. i \in 1..d /\ d + 1 > i
      BY <1>7, <2>3
    <3>2. CASE jobs[i].id = job.id
      BY <1>8, <2>1, <3>1, <3>2
    <3>3. CASE jobs[i].id # job.id
      <4>1. next[jobs[i].id] = files[jobs[i].id]
        BY <1>6, <1>9, <2>1, <3>3
      <4>2. \/ files[jobs[i].id] = jobs[i]
            \/ \E k \in 1..d : k > i /\ jobs[k].id = jobs[i].id
        BY <1>1, <3>1 DEF Kept
      <4> QED
        BY <2>1, <4>1, <4>2
    <3> QED
      BY <3>2, <3>3
  <2> QED
    BY <2>2, <2>3
<1>11. \A i \in 1..Len(rest) : rest[i] = jobs[d + 1 + i]
  <2> SUFFICES ASSUME NEW i \in 1..Len(rest) PROVE rest[i] = jobs[d + 1 + i]
    OBVIOUS
  <2>1. i \in 1..(t - 1) /\ i + 1 \in 1..t /\ d + (i + 1) = d + 1 + i
    BY <1>3, <1>7
  <2> QED
    BY <1>1, <1>4, <2>1
<1>12. Len(rest) <= l
  BY <1>1, <1>2, <1>3
<1>13. Written(next, jobs, rest)
  <2>1. JobList(jobs) /\ Len(rest) <= Len(jobs) /\ Len(jobs) - Len(rest) = d + 1
    BY <1>1, <1>7, <1>12 DEF l
  <2> QED
    BY <1>10, <1>11, <2>1 DEF Written
<1> QED
  BY <1>3, <1>13 DEF next, job, rest

-----------------------------------------------------------------------------
\* Each action preserves the invariant.

LEMMA InitInv ==
    ASSUME Init PROVE IInv
<1>1. JobList(<<>>) /\ Kept(jobFile, <<>>, Len(<<>>)) /\ <<>> \in Seq(JobSet)
  BY EmptyList
<1>2. gen = [phase |-> "idle", jobs |-> <<>>, todo |-> <<>>] /\ listed = <<>>
  BY DEF Init, Idle
<1>3. GenInv(gen, jobFile)
  BY <1>1, <1>2 DEF GenInv
<1>4. ListInv(gen, listed, jobFile)
  BY <1>1, <1>2 DEF ListInv
<1>5. FilesInv(jobFile, fuzzer, finding)
  <2>1. /\ jobFile \in [JobIds -> JobSet \cup {None, Torn}] /\ finding = None
        /\ fuzzer = [j \in JobIds \cup CampaignIds |-> None]
    BY DEF Init
  <2> QED
    BY <2>1 DEF FilesInv
<1> QED
  BY <1>3, <1>4, <1>5 DEF IInv

LEMMA GenerateInv ==
    ASSUME IInv, NEW file \in PairFiles, NEW family \in Families, NEW suite \in Suites,
           Generate(file, family, suite)
    PROVE  IInv'
<1> DEFINE jobs == JobsOf(file, family, suite)
<1>1. /\ gen' = [phase |-> "writing", jobs |-> jobs, todo |-> jobs]
      /\ UNCHANGED <<jobFile, fuzzer, finding, listed>>
  BY DEF Generate
<1>2. JobList(jobs)
  BY JobsOfIsJobList
<1> HIDE DEF jobs
<1>3. Written(jobFile, jobs, jobs) /\ jobs \in Seq(JobSet)
  BY <1>2, StartsWritten DEF JobList
<1>4. GenInv(gen', jobFile')
  BY <1>1, <1>3 DEF GenInv
<1>5. ListInv(gen', listed', jobFile')
  BY <1>1 DEF ListInv
<1>6. FilesInv(jobFile', fuzzer', finding')
  BY <1>1 DEF IInv
<1> QED
  BY <1>4, <1>5, <1>6 DEF IInv

LEMMA WriteJobInv ==
    ASSUME IInv, WriteJob
    PROVE  IInv'
<1> DEFINE job == Head(gen.todo)
           next == [jobFile EXCEPT ![job.id] = job]
<1>1. /\ gen.phase = "writing" /\ gen.todo # <<>>
      /\ jobFile' = next /\ gen' = [gen EXCEPT !.todo = Tail(gen.todo)]
      /\ UNCHANGED <<fuzzer, finding, listed>>
  BY DEF WriteJob
<1>2. /\ gen \in [phase : {"idle", "writing", "interrupted"}, jobs : Seq(JobSet), todo : Seq(JobSet)]
      /\ Written(jobFile, gen.jobs, gen.todo)
      /\ jobFile \in [JobIds -> JobSet \cup {None, Torn}]
  BY <1>1 DEF IInv, GenInv, FilesInv
<1>3. gen.todo \in Seq(JobSet)
  BY <1>2
<1>4. job \in JobSet /\ Tail(gen.todo) \in Seq(JobSet) /\ Written(next, gen.jobs, Tail(gen.todo))
  BY <1>1, <1>2, <1>3, WritesNext
<1>5. next \in [JobIds -> JobSet \cup {None, Torn}]
  <2>1. job \in JobSet
    BY <1>4
  <2> HIDE DEF job
  <2> QED
    BY <1>2, <2>1
<1> HIDE DEF next, job
<1>6. gen' = [phase |-> "writing", jobs |-> gen.jobs, todo |-> Tail(gen.todo)] /\ gen.jobs \in Seq(JobSet)
  BY <1>1, <1>2
<1>7. GenInv(gen', jobFile')
  BY <1>1, <1>4, <1>6 DEF GenInv
<1>8. ListInv(gen', listed', jobFile')
  BY <1>6 DEF ListInv
<1>9. FilesInv(jobFile', fuzzer', finding')
  BY <1>1, <1>5 DEF IInv, FilesInv
<1> QED
  BY <1>7, <1>8, <1>9 DEF IInv

LEMMA WriteSummaryInv ==
    ASSUME IInv, WriteSummary
    PROVE  IInv'
<1>1. /\ gen.phase = "writing" /\ gen.todo = <<>> /\ listed' = gen.jobs
      /\ gen' = [phase |-> "idle", jobs |-> <<>>, todo |-> <<>>]
      /\ UNCHANGED <<jobFile, fuzzer, finding>>
  BY DEF WriteSummary, Idle
<1>2. Written(jobFile, gen.jobs, gen.todo)
  BY <1>1 DEF IInv, GenInv
<1>3. JobList(gen.jobs) /\ Kept(jobFile, gen.jobs, Len(gen.jobs) - Len(gen.todo)) /\ Len(gen.jobs) \in Nat
  <2>1. JobList(gen.jobs) /\ Kept(jobFile, gen.jobs, Len(gen.jobs) - Len(gen.todo))
    BY <1>2 DEF Written
  <2>2. gen.jobs \in Seq(JobSet)
    BY <2>1 DEF JobList
  <2>3. Len(gen.jobs) \in Nat
    BY <2>2
  <2> QED
    BY <2>1, <2>3
<1>4. Len(gen.todo) = 0 /\ Len(gen.jobs) - 0 = Len(gen.jobs)
  BY <1>1, <1>3, EmptyList
<1>5. ListInv(gen', listed', jobFile')
  BY <1>1, <1>3, <1>4 DEF ListInv
<1>6. <<>> \in Seq(JobSet)
  BY EmptyList
<1>7. GenInv(gen', jobFile')
  BY <1>1, <1>6 DEF GenInv
<1>8. FilesInv(jobFile', fuzzer', finding')
  BY <1>1 DEF IInv
<1> QED
  BY <1>5, <1>7, <1>8 DEF IInv

LEMMA InterruptInv ==
    ASSUME IInv, Interrupt
    PROVE  IInv'
<1> DEFINE id == Head(gen.todo).id
<1>1. /\ gen' = [phase |-> "interrupted", jobs |-> <<>>, todo |-> <<>>]
      /\ jobFile' = jobFile \/ jobFile' = [jobFile EXCEPT ![id] = Torn]
      /\ UNCHANGED <<fuzzer, finding, listed>>
  BY DEF Interrupt, Idle
<1>2. jobFile \in [JobIds -> JobSet \cup {None, Torn}]
  BY DEF IInv, FilesInv
<1> HIDE DEF id
<1>3. jobFile' \in [JobIds -> JobSet \cup {None, Torn}]
  BY <1>1, <1>2
<1>4. <<>> \in Seq(JobSet)
  BY EmptyList
<1>5. GenInv(gen', jobFile')
  BY <1>1, <1>4 DEF GenInv
<1>6. ListInv(gen', listed', jobFile')
  BY <1>1 DEF ListInv
<1>7. FilesInv(jobFile', fuzzer', finding')
  BY <1>1, <1>3 DEF IInv, FilesInv
<1> QED
  BY <1>5, <1>6, <1>7 DEF IInv

\* Only jobs of two adapters get through the compiler.
LEMMA BuildInv ==
    ASSUME IInv, NEW j \in JobIds, Build(j)
    PROVE  IInv'
<1> DEFINE job == jobFile[j]
           f == Fuzzer(job, TabRead(Fields(job)))
<1>1. /\ job \notin {None, Torn} /\ Compiles(job, TabRead(Fields(job)))
      /\ fuzzer' = [fuzzer EXCEPT ![j] = f]
      /\ UNCHANGED <<gen, jobFile, listed, finding>>
  BY DEF Build
<1>2. FilesInv(jobFile, fuzzer, finding)
  BY DEF IInv
<1>3. job \in FipsJobs \ {None, Torn}
  <2>1. job \in JobSet
    BY <1>1, <1>2 DEF FilesInv
  <2>2. job \notin MetamorphicJobs
    BY <1>1, MetamorphicDoesNotCompile
  <2> QED
    BY <1>1, <2>1, <2>2 DEF JobSet
<1>4. Built(f)
  <2>1. TabRead(Fields(job)) = Fields(job)
    BY <1>3, FipsJobFacts, ConfiguredIsRead
  <2> HIDE DEF job
  <2>2. f = Fuzzer(job, Fields(job)) /\ f.from = job
    BY <2>1 DEF Fuzzer
  <2> HIDE DEF f
  <2> QED
    BY <1>3, <2>2 DEF Built
<1> HIDE DEF f, job
<1>5. FilesInv(jobFile', fuzzer', finding')
  BY <1>1, <1>2, <1>4 DEF FilesInv
<1>6. GenInv(gen', jobFile') /\ ListInv(gen', listed', jobFile')
  BY <1>1 DEF IInv
<1> QED
  BY <1>5, <1>6 DEF IInv

LEMMA BuildCampaignInv ==
    ASSUME IInv, NEW primitive \in {"kem", "sig"}, NEW suite \in Suites,
           BuildCampaign(primitive, suite)
    PROVE  IInv'
<1> DEFINE job == [CampaignJobs[primitive] EXCEPT !.suite = suite]
           f == Fuzzer(job, Fields(job))
<1>1. /\ fuzzer' = [fuzzer EXCEPT ![job.id] = f]
      /\ UNCHANGED <<gen, jobFile, listed, finding>>
  BY DEF BuildCampaign
<1>2. FilesInv(jobFile, fuzzer, finding)
  BY DEF IInv
<1>3. IsCampaign(job)
  BY DEF IsCampaign
<1> HIDE DEF job
<1>4. Built(f)
  <2>1. f.from = job
    BY DEF Fuzzer
  <2> HIDE DEF f
  <2>2. f = Fuzzer(job, Fields(job))
    BY DEF f
  <2> QED
    BY <1>3, <2>1, <2>2 DEF Built
<1> HIDE DEF f
<1>5. FilesInv(jobFile', fuzzer', finding')
  BY <1>1, <1>2, <1>4 DEF FilesInv
<1>6. GenInv(gen', jobFile') /\ ListInv(gen', listed', jobFile')
  BY <1>1 DEF IInv
<1> QED
  BY <1>5, <1>6 DEF IInv

LEMMA CleanInv ==
    ASSUME IInv, Clean
    PROVE  IInv'
<1>1. /\ fuzzer' = [j \in DOMAIN fuzzer |-> IF j \in JobIds THEN None ELSE fuzzer[j]]
      /\ finding' = None \/ finding' = finding
      /\ UNCHANGED <<gen, jobFile, listed>>
  BY DEF Clean
<1>2. FilesInv(jobFile', fuzzer', finding')
  BY <1>1 DEF IInv, FilesInv
<1>3. GenInv(gen', jobFile') /\ ListInv(gen', listed', jobFile')
  BY <1>1 DEF IInv
<1> QED
  BY <1>2, <1>3 DEF IInv

LEMMA FuzzInv ==
    ASSUME IInv, NEW j \in DOMAIN fuzzer, NEW e \in Inputs, Fuzz(j, e)
    PROVE  IInv'
<1>1. /\ fuzzer[j] # None /\ Accepts(fuzzer[j], e)
      /\ finding' = [fuzzer |-> fuzzer[j], input |-> e]
      /\ UNCHANGED <<gen, jobFile, listed, fuzzer>>
  BY DEF Fuzz
<1>2. Built(fuzzer[j])
  BY <1>1 DEF IInv, FilesInv
<1>3. Found(finding')
  BY <1>1, <1>2 DEF Found
<1>4. FilesInv(jobFile', fuzzer', finding')
  BY <1>1, <1>3 DEF IInv, FilesInv
<1>5. GenInv(gen', jobFile') /\ ListInv(gen', listed', jobFile')
  BY <1>1 DEF IInv
<1> QED
  BY <1>4, <1>5 DEF IInv

LEMMA NextInv ==
    ASSUME IInv, [Next]_vars PROVE IInv'
<1>1. CASE UNCHANGED <<gen, jobFile, listed, fuzzer, finding>>
  BY <1>1 DEF IInv
<1>2. CASE Next
  <2>1. ASSUME NEW file \in PairFiles, NEW family \in Families, NEW suite \in Suites,
               Generate(file, family, suite)
        PROVE  IInv'
    BY <2>1, GenerateInv
  <2>2. CASE WriteJob
    BY <2>2, WriteJobInv
  <2>3. CASE WriteSummary
    BY <2>3, WriteSummaryInv
  <2>4. CASE Interrupt
    BY <2>4, InterruptInv
  <2>5. ASSUME NEW j \in JobIds, Build(j) PROVE IInv'
    BY <2>5, BuildInv
  <2>6. ASSUME NEW primitive \in {"kem", "sig"}, NEW suite \in Suites, BuildCampaign(primitive, suite)
        PROVE  IInv'
    BY <2>6, BuildCampaignInv
  <2>7. CASE Clean
    BY <2>7, CleanInv
  <2>8. ASSUME NEW j \in DOMAIN fuzzer, NEW e \in Inputs, Fuzz(j, e) PROVE IInv'
    BY <2>8, FuzzInv
  <2>9. CASE Replay
    <3>1. UNCHANGED <<gen, jobFile, listed, fuzzer, finding>>
      BY <2>9 DEF Replay
    <3> QED
      BY <1>1, <3>1
  <2> QED
    BY <1>2, <2>1, <2>2, <2>3, <2>4, <2>5, <2>6, <2>7, <2>8, <2>9 DEF Next
<1>3. CASE UNCHANGED vars
  BY <1>1, <1>3 DEF vars
<1> QED
  BY <1>2, <1>3

\* Every file of a generation is one of its jobs or torn, every fuzzer runs a
\* job, every finding is one that its fuzzer accepts, and the jobs a
\* generation has written are in their files, for any pairs, any runtime and
\* any sequence of generations, interruptions, builds and cleanings.
THEOREM Invariance == Spec => []IInv
<1>1. Init => IInv
  BY InitInv
<1>2. IInv /\ [Next]_vars => IInv'
  BY NextInv
<1> QED
  BY <1>1, <1>2, PTL DEF Spec

-----------------------------------------------------------------------------
\* jobs.json lists, when a generation is complete, jobs that have their files,
\* or that a later job of the same single target replaced, however many
\* generations were interrupted before.
THEOREM JobsHaveFiles == Spec => []JobPerPair
<1>1. ASSUME IInv PROVE JobPerPair
  <2> SUFFICES ASSUME gen.phase = "idle", NEW i \in DOMAIN listed
               PROVE  \/ jobFile[listed[i].id] = listed[i]
                      \/ /\ listed[i].suite = "metamorphic"
                         /\ \E k \in DOMAIN listed : k > i /\ listed[k].algorithm = listed[i].algorithm
    BY DEF JobPerPair
  <2>1. JobList(listed) /\ Kept(jobFile, listed, Len(listed))
    BY <1>1 DEF IInv, ListInv
  <2>2. DOMAIN listed = 1..Len(listed) /\ Len(listed) \in Nat
    <3>1. listed \in Seq(JobSet)
      BY <2>1 DEF JobList
    <3> QED
      BY <3>1
  <2>3. CASE \E k \in 1..Len(listed) : k > i /\ listed[k].id = listed[i].id
    <3>1. PICK k \in 1..Len(listed) : k > i /\ listed[k].id = listed[i].id
      BY <2>3
    <3>2. k # i
      BY <2>2, <3>1
    <3>3. listed[i].suite = "metamorphic" /\ listed[k].algorithm = listed[i].algorithm
      BY <2>1, <2>2, <3>1, <3>2 DEF JobList
    <3> QED
      BY <2>2, <3>1, <3>3
  <2> QED
    BY <2>1, <2>2, <2>3 DEF Kept
<1>2. IInv => JobPerPair
  BY <1>1
<1> QED
  BY <1>2, Invariance, PTL

\* Whatever build_one.sh reads back between the tabs, a fuzzer it could
\* compile has the adapters and the contract of its job, and so has one of a
\* campaign.
THEOREM BuildsFollowJobs == Spec => []BuildFollowsJob
<1>1. ASSUME IInv PROVE BuildFollowsJob
  <2> SUFFICES ASSUME NEW j \in DOMAIN fuzzer, fuzzer[j] # None
               PROVE  LET f == fuzzer[j] IN
                      /\ f.left = f.from.left /\ f.right = f.from.right /\ f.contract = f.from.contract
                      /\ f.job = f.from.id
    BY DEF BuildFollowsJob
  <2>1. Built(fuzzer[j])
    BY <1>1 DEF IInv, FilesInv
  <2> QED
    BY <2>1, BuiltFacts
<1>2. IInv => BuildFollowsJob
  BY <1>1
<1> QED
  BY <1>2, Invariance, PTL

\* No mutation an executor makes leaves the field or the region it names,
\* whatever the plan, the lengths, the adapters and the algorithm the envelope
\* claims.
THEOREM MutationsConfined == Spec => []MutationConfined
<1>1. ASSUME IInv PROVE MutationConfined
  <2> SUFFICES ASSUME finding # None,
                      NEW check \in Checks(Fuzzed(finding.fuzzer, finding.input)) \cap MutatingChecks
               PROVE  Confined(MutationOf(check, Fuzzed(finding.fuzzer, finding.input)))
    BY DEF MutationConfined
  <2>1. Found(finding)
    BY <1>1 DEF IInv, FilesInv
  <2>2. Sound(Fuzzed(finding.fuzzer, finding.input))
    BY <2>1, FoundIsSound
  <2> QED
    BY <2>2, SoundConfined
<1>2. IInv => MutationConfined
  BY <1>1
<1> QED
  BY <1>2, Invariance, PTL

\* The bit flips, cuts and appended bytes of a negative oracle change every
\* field that is not empty, for every plan, length and parameter set.
THEOREM SureOperations == Spec => []SureOperationsAlter
<1>1. ASSUME IInv PROVE SureOperationsAlter
  <2> DEFINE x == Fuzzed(finding.fuzzer, finding.input)
  <2> SUFFICES ASSUME finding # None, x.algorithm = Registry[x.left.implementation],
                      NEW check \in Checks(x) \cap MutatingChecks,
                      MutationOf(check, x).before > 0
               PROVE  LET m == MutationOf(check, x)
                          sure == m.how \in {"flip", "push"} \/ (m.how = "cut" /\ check # "oid")
                      IN  m.how # "skip" /\ (sure => Effective(check, m, TRUE))
    BY DEF SureOperationsAlter
  <2>1. Sound(x)
    BY <1>1, FoundIsSound DEF IInv, FilesInv
  <2> HIDE DEF x
  <2>2. Works(MutationOf(check, x))
    BY <2>1, SoundWorks
  <2> QED
    BY <2>2 DEF Works, Effective
<1>2. IInv => SureOperationsAlter
  BY <1>1
<1> QED
  BY <1>2, Invariance, PTL

-----------------------------------------------------------------------------
\* The step of a replay.

\* Where a fuzzer's job is the one in the file, it was not built in a
\* campaign.
LEMMA ReplayedJob ==
    ASSUME IInv, Replay, replayed'.job = finding.fuzzer.from, finding # None
    PROVE  LET j == finding.fuzzer.job
           IN  /\ j \in JobIds /\ finding.fuzzer.from \in FipsJobs
               /\ jobFile[j] = finding.fuzzer.from /\ jobFile[j] \notin {None, Torn}
<1> DEFINE f == finding.fuzzer
<1>1. Built(f)
  BY DEF IInv, FilesInv, Found
<1>2. f.job = f.from.id
  BY <1>1, BuiltFacts
<1>3. replayed'.job = IF f.job \in JobIds THEN jobFile[f.job] ELSE None
  BY DEF Replay
<1> HIDE DEF f
<1>4. f.from \in FipsJobs \ {None, Torn}
  <2> SUFFICES ASSUME IsCampaign(f.from) PROVE FALSE
    BY <1>1 DEF Built
  <2>1. f.from.id \notin JobIds /\ f.from # None
    BY CampaignFacts
  <2>2. replayed'.job = f.from
    BY DEF f
  <2> QED
    BY <1>2, <1>3, <2>1, <2>2
<1>5. f.job \in JobIds
  BY <1>2, <1>4, FipsJobFacts
<1>6. jobFile[f.job] = f.from
  BY <1>3, <1>5 DEF f
<1> QED
  BY <1>4, <1>5, <1>6 DEF f

\* Only a replay changes what was replayed, and it is the last step.
LEMMA OnlyReplay ==
    ASSUME Next
    PROVE  Replay \/ replayed' = None
<1>1. replayed = None
  BY DEF Next
<1>2. Replay \/ replayed' = replayed
  BY DEF Next, Generate, WriteJob, WriteSummary, Interrupt, Build, BuildCampaign, Clean, Fuzz
<1> QED
  BY <1>1, <1>2

\* What a replay under the fuzzer's own job records.
LEMMA ReplayedRecord ==
    ASSUME IInv, Replay, replayed'.job = finding.fuzzer.from
    PROVE  LET j == finding.fuzzer.job
               e == finding.input
               job == finding.fuzzer.from
           IN  /\ Found(finding) /\ job \in FipsJobs /\ finding' = finding
               /\ replayed'.built = (j \in replayBin) /\ replayed'.config = (j \in configs)
               /\ replayed'.ran = (job.algorithm = e.algorithm /\ j \in replayBin /\ j \in configs)
               /\ replayed'.ran => replayed'.experiment = ReplayedAs(job, e)
<1> DEFINE j == finding.fuzzer.job
           e == finding.input
           job == IF j \in JobIds THEN jobFile[j] ELSE None
           runs == job \notin {None, Torn} /\ Replays(j, e)
<1>1. /\ finding # None /\ finding' = finding
      /\ replayed' = [job |-> job, built |-> j \in replayBin, config |-> j \in configs, ran |-> runs,
                      experiment |-> IF runs THEN ReplayedAs(job, e) ELSE None]
  BY DEF Replay
<1>2. Found(finding)
  BY <1>1 DEF IInv, FilesInv
<1>3. /\ j \in JobIds /\ finding.fuzzer.from \in FipsJobs
      /\ jobFile[j] = finding.fuzzer.from /\ jobFile[j] \notin {None, Torn}
  BY <1>1, ReplayedJob
<1>4. job = finding.fuzzer.from /\ job \notin {None, Torn}
  BY <1>3
<1>5. runs = (job.algorithm = e.algorithm /\ j \in replayBin /\ j \in configs)
  BY <1>3, <1>4 DEF Replays
<1> HIDE DEF job, runs
<1>6. /\ replayed'.built = (j \in replayBin) /\ replayed'.config = (j \in configs)
      /\ replayed'.ran = runs /\ replayed'.experiment = IF runs THEN ReplayedAs(job, e) ELSE None
  BY <1>1
<1>7. replayed'.ran => replayed'.experiment = ReplayedAs(finding.fuzzer.from, e)
  BY <1>4, <1>6
<1>8. replayed'.ran = (finding.fuzzer.from.algorithm = e.algorithm /\ j \in replayBin /\ j \in configs)
  BY <1>4, <1>5, <1>6
<1> QED
  BY <1>1, <1>2, <1>3, <1>6, <1>7, <1>8

LEMMA OwnStep ==
    ASSUME IInv, OwnFindingReplays, [Next]_vars
    PROVE  OwnFindingReplays'
<1>1. CASE UNCHANGED vars
  BY <1>1 DEF OwnFindingReplays, vars
<1>2. CASE replayed' = None
  BY <1>2 DEF OwnFindingReplays
<1>3. CASE Replay
  <2> SUFFICES ASSUME ~replayed'.ran, replayed'.job = finding'.fuzzer.from
               PROVE  \/ ~replayed'.built \/ ~replayed'.config
                      \/ finding'.input.algorithm # replayed'.job.algorithm
    BY DEF OwnFindingReplays
  <2>1. finding' = finding
    BY <1>3 DEF Replay
  <2>2. replayed'.job = finding.fuzzer.from
    BY <2>1
  <2>3. /\ replayed'.built = (finding.fuzzer.job \in replayBin)
        /\ replayed'.config = (finding.fuzzer.job \in configs)
        /\ replayed'.ran = (/\ finding.fuzzer.from.algorithm = finding.input.algorithm
                            /\ finding.fuzzer.job \in replayBin /\ finding.fuzzer.job \in configs)
    BY <1>3, <2>2, ReplayedRecord
  <2> QED
    BY <2>1, <2>2, <2>3
<1> QED
  BY <1>1, <1>2, <1>3, OnlyReplay

\* A replay under the job the fuzzer was built from runs whenever the build,
\* the configuration and the algorithm are there, also for an oracle that is
\* not the job's.
THEOREM OwnReplays == Spec => []OwnFindingReplays
<1>1. Init => OwnFindingReplays
  BY DEF Init, OwnFindingReplays
<1>2. IInv /\ OwnFindingReplays /\ [Next]_vars => OwnFindingReplays'
  BY OwnStep
<1> QED
  BY <1>1, <1>2, Invariance, PTL DEF Spec

\* The first oracle of a job makes the local check.
LEMMA FirstIsLocal ==
    ASSUME NEW a, Family(a) \in Families, NEW x, x.suite = "fips", x.primitive = Primitive(a),
           x.algorithm = a, x.oracle = FipsOracles[Family(a)][1]
    PROVE  Checks(x) = {"local"}
<1>1. CASE Family(a) = "ML-KEM"
  <2>1. x.primitive = "kem" /\ x.oracle = "mlkem_local_roundtrip"
    BY <1>1 DEF Primitive, FipsOracles, Families
  <2>2. Checks(x) = KemChecks(x)
    BY <2>1 DEF Checks
  <2> QED
    BY <2>1, <2>2 DEF KemChecks
<1>2. CASE Family(a) = "ML-DSA"
  <2>1. x.primitive = "sig" /\ x.oracle = "mldsa_local_sign_verify"
    BY <1>2 DEF Primitive, FipsOracles, Families
  <2>2. Checks(x) = SigChecks(x)
    BY <2>1 DEF Checks
  <2>3. FipsOracles["ML-DSA"] = <<"mldsa_local_sign_verify", "mldsa_cross_verify",
                               "mldsa_mutated_signature_negative", "mldsa_mutated_message_negative",
                               "mldsa_mutated_context_negative">>
    BY DEF FipsOracles, Families
  <2>4. FipsOracles["SLH-DSA"] = <<"slhdsa_local_sign_verify", "slhdsa_cross_verify",
                                "slhdsa_mutated_signature_negative", "slhdsa_mutated_message_negative",
                                "slhdsa_mutated_context_negative">>
    BY DEF FipsOracles, Families
  <2>5. ~In(x.oracle, FipsOracles["SLH-DSA"])
    BY <2>1, <2>4 DEF In
  <2> QED
    BY <1>2, <2>1, <2>2, <2>3, <2>5 DEF SigChecks
<1>3. CASE Family(a) = "SLH-DSA"
  <2>1. x.primitive = "sig" /\ x.oracle = "slhdsa_local_sign_verify"
    BY <1>3 DEF Primitive, FipsOracles, Families
  <2>2. Checks(x) = SigChecks(x)
    BY <2>1 DEF Checks
  <2>3. FipsOracles["SLH-DSA"] = <<"slhdsa_local_sign_verify", "slhdsa_cross_verify",
                                "slhdsa_mutated_signature_negative", "slhdsa_mutated_message_negative",
                                "slhdsa_mutated_context_negative">>
    BY DEF FipsOracles, Families
  <2> QED
    BY <1>3, <2>1, <2>2, <2>3 DEF SigChecks
<1> QED
  BY <1>1, <1>2, <1>3 DEF Families

\* The checks depend on the record only.
LEMMA SameExperiment ==
    ASSUME NEW f, Built(f), NEW e
    PROVE  ReplayedAs(f.from, e) = Experiment(f.suite, f.primitive, f.left, f.right, f.contract,
                                              SelectedOracle(f.from, e), e)
<1>1. /\ f.suite = f.from.suite /\ f.primitive = Primitive(f.from.algorithm)
      /\ f.left = f.from.left /\ f.right = f.from.right /\ f.contract = f.from.contract
  BY BuiltFacts
<1> QED
  BY <1>1 DEF ReplayedAs

LEMMA RepeatStep ==
    ASSUME IInv, ReplayRepeatsFinding, [Next]_vars
    PROVE  ReplayRepeatsFinding'
<1>1. CASE UNCHANGED vars
  BY <1>1 DEF ReplayRepeatsFinding, vars
<1>2. CASE replayed' = None
  BY <1>2 DEF ReplayRepeatsFinding
<1>3. CASE Replay
  <2> DEFINE f == finding.fuzzer
             e == finding.input
             job == f.from
             found == Fuzzed(f, e)
             again == replayed'.experiment
  <2>1. finding' = finding
    BY <1>3 DEF Replay
  <2> SUFFICES ASSUME replayed'.ran, replayed'.job = job
               PROVE  /\ [found EXCEPT !.oracle = Empty] = [again EXCEPT !.oracle = Empty]
                      /\ \/ Checks(found) = Checks(again)
                         \/ ~In(found.oracle, replayed'.job.oracles) /\ Checks(again) = {"local"}
    BY <2>1 DEF ReplayRepeatsFinding
  <2>2. Found(finding) /\ job \in FipsJobs /\ again = ReplayedAs(job, e) /\ job.algorithm = e.algorithm
    BY <1>3, ReplayedRecord
  <2>3. Built(f)
    BY <2>2 DEF Found
  <2> DEFINE old == OracleName(e)
             new == SelectedOracle(job, e)
             Told(o) == Experiment(f.suite, f.primitive, f.left, f.right, f.contract, o, e)
  <2>4. found = Told(old)
    BY DEF Fuzzed
  <2>5. again = Told(new)
    BY <2>2, <2>3, SameExperiment
  <2>6. \A o : /\ Told(o).oracle = o /\ Told(o).suite = f.suite /\ Told(o).primitive = f.primitive
               /\ Told(o).algorithm = e.algorithm
    BY DEF Experiment
  <2>7. [found EXCEPT !.oracle = Empty] = [again EXCEPT !.oracle = Empty]
    <3> HIDE DEF found, again
    <3>1. [Told(old) EXCEPT !.oracle = Empty] = [Told(new) EXCEPT !.oracle = Empty]
      BY DEF Experiment
    <3> QED
      BY <2>4, <2>5, <3>1
  <2>8. new = IF In(old, job.oracles) THEN old ELSE job.oracles[1]
    BY DEF SelectedOracle
  <2>9. CASE In(old, job.oracles)
    <3>1. again = found
      BY <2>4, <2>5, <2>8, <2>9
    <3> QED
      BY <2>7, <3>1
  <2>10. CASE ~In(old, job.oracles)
    <3>1. /\ job.suite = "fips" /\ job.oracles = FipsOracles[Family(job.algorithm)]
          /\ Family(job.algorithm) \in Families
      BY <2>2, FipsJobFacts DEF ConfiguredJob, Configured
    <3>2. f.suite = job.suite /\ f.primitive = Primitive(job.algorithm)
      BY <2>3, BuiltFacts
    <3>3. /\ again.oracle = FipsOracles[Family(job.algorithm)][1] /\ again.suite = "fips"
          /\ again.primitive = Primitive(job.algorithm) /\ again.algorithm = job.algorithm
      BY <2>2, <2>5, <2>6, <2>8, <2>10, <3>1, <3>2
    <3>4. Checks(again) = {"local"}
      <4> HIDE DEF again, job
      <4> QED BY <3>1, <3>3, FirstIsLocal
    <3>5. found.oracle = old
      BY <2>4, <2>6
    <3> QED
      BY <2>7, <2>10, <3>4, <3>5
  <2> QED
    BY <2>9, <2>10
<1> QED
  BY <1>1, <1>2, <1>3, OnlyReplay

\* A replay under the fuzzer's job is the finding's experiment in everything
\* but an oracle that is not the job's, for any pairs, envelopes and commands
\* between.
THEOREM ReplayRepeats == Spec => []ReplayRepeatsFinding
<1>1. Init => ReplayRepeatsFinding
  BY DEF Init, ReplayRepeatsFinding
<1>2. IInv /\ ReplayRepeatsFinding /\ [Next]_vars => ReplayRepeatsFinding'
  BY RepeatStep
<1> QED
  BY <1>1, <1>2, Invariance, PTL DEF Spec
=============================================================================
