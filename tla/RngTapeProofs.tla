--------------------------- MODULE RngTapeProofs ----------------------------
(***************************************************************************)
(* The stack of tapes implements the stack of streams, for every set of    *)
(* tapes and every bound, and draws identify their tape.                   *)
(***************************************************************************)
EXTENDS RngTape, SequenceTheorems, FiniteSetTheorems, TLAPS

-----------------------------------------------------------------------------
LEMMA Division ==
    ASSUME NEW c \in Nat, NEW n \in Nat \ {0}
    PROVE  c \div n \in Nat /\ c % n \in 0 .. n - 1 /\ c = n * (c \div n) + (c % n)
BY SMT

LEMMA RemainderOf ==
    ASSUME NEW n \in Nat \ {0}, NEW q \in Nat, NEW r \in 0 .. n - 1
    PROVE  (n * q + r) % n = r
BY SMT

\* The remainder of the next number.
LEMMA ModSucc ==
    ASSUME NEW c \in Nat, NEW n \in Nat \ {0}
    PROVE  /\ c % n \in 0 .. n - 1
           /\ (c + 1) % n = IF (c % n) + 1 = n THEN 0 ELSE (c % n) + 1
<1> DEFINE q == c \div n
           r == c % n
<1>1. q \in Nat /\ r \in 0 .. n - 1 /\ c = n * q + r
  BY Division
<1> HIDE DEF q, r
<1>2. n * q \in Nat
  BY <1>1
<1>3. CASE r + 1 < n
  <2>1. c + 1 = n * q + (r + 1)
    BY <1>1, <1>2
  <2>2. (n * q + (r + 1)) % n = r + 1
    BY <1>1, <1>3, RemainderOf
  <2> QED
    BY <1>1, <1>3, <2>1, <2>2 DEF r
<1>4. CASE r + 1 = n
  <2>1. c + 1 = n * (q + 1) + 0
    BY <1>1, <1>2, <1>4
  <2>2. (n * (q + 1) + 0) % n = 0
    BY <1>1, RemainderOf
  <2> QED
    BY <1>1, <1>4, <2>1, <2>2 DEF r
<1> QED
  BY <1>1, <1>3, <1>4 DEF r

\* A position inside the tape is its own remainder.
LEMMA ModSmall ==
    ASSUME NEW c \in Nat, NEW n \in Nat, c < n
    PROVE  c % n = c
BY SMT

-----------------------------------------------------------------------------
\* Where a tape stands: its offset is the remainder of what it has served, and
\* the end of the tape is only left with the next byte.
Positioned(f) ==
    /\ f.data # <<>>
    /\ f.offset \in 0 .. Len(f.data)
    /\ f.repeat => Len(f.served) % Len(f.data) = IF f.offset < Len(f.data) THEN f.offset ELSE 0
    /\ ~f.repeat => IF f.offset < Len(f.data) THEN Len(f.served) = f.offset
                    ELSE Len(f.served) >= Len(f.data)

\* What a tape has served is the beginning of its stream.
FromStream(t, served) ==
    \A j \in 1 .. Len(served) : served[j] = Streams!StreamByte(t, j - 1)

FrameOK(f) == Positioned(f) /\ TapeOf(f) \in Tapes /\ FromStream(TapeOf(f), f.served)

TapesInv == \A k \in 1 .. Len(tapes) : FrameOK(tapes[k])

LogInv ==
    \A l \in log : /\ l.tape \in Tapes /\ l.tape.data # <<>>
                   /\ l.served \in Seq(Nat) /\ FromStream(l.tape, l.served)

DrawInv ==
    /\ (tapes # <<>> /\ "liboqs" \in Libraries) => hooked
    /\ (draw # NoDraw /\ draw.source = "tape") => tapes # <<>>
    /\ DrawsUnderTape

Inv == TypeOK /\ TapesInv /\ LogInv /\ DrawInv

-----------------------------------------------------------------------------
\* One byte: the tape stays in position and serves the next byte of its stream.
LEMMA FilledOK ==
    ASSUME NEW f \in Frames, FrameOK(f)
    PROVE  /\ Filled(f) \in Frames /\ FrameOK(Filled(f))
           /\ TapeOf(Filled(f)) = TapeOf(f)
           /\ Filled(f).served =
                  Append(f.served, Streams!StreamByte(TapeOf(f), Len(f.served)))
<1> DEFINE L == Len(f.data)
           n == Len(f.served)
           m == n % L
           at == f.offset
           o == StartOver(f)
           b == ByteAt(f, o)
           g == Filled(f)
<1>1. /\ L \in Nat \ {0} /\ n \in Nat /\ at \in 0 .. L
      /\ f.repeat \in BOOLEAN /\ f.data \in Seq(Nat) /\ f.served \in Seq(Nat)
      /\ f.repeat => m = IF at < L THEN at ELSE 0
      /\ ~f.repeat => IF at < L THEN n = at ELSE n >= L
  BY DEF Frames, FrameOK, Positioned
<1>2. o = IF f.repeat /\ at >= L THEN 0 ELSE at
  BY DEF StartOver
<1>3. /\ g = [data |-> f.data, repeat |-> f.repeat,
              offset |-> IF o < L THEN o + 1 ELSE at, served |-> Append(f.served, b)]
      /\ b \in Nat
  <2>1. b \in Nat
    <3> HIDE DEF o
    <3> QED
      BY <1>1, <1>2 DEF ByteAt
  <2> QED
    BY <2>1, Zenon DEF Filled
<1>4. /\ g \in Frames /\ TapeOf(g) = TapeOf(f) /\ g.served = Append(f.served, b)
      /\ g.data = f.data /\ g.repeat = f.repeat
      /\ g.offset = IF o < L THEN o + 1 ELSE at
      /\ Len(g.served) = n + 1
  <2> HIDE DEF o, b, g
  <2>1. (IF o < L THEN o + 1 ELSE at) \in Nat
    BY <1>1, <1>2
  <2>2. /\ TapeOf(g) = TapeOf(f) /\ g.served = Append(f.served, b)
        /\ g.data = f.data /\ g.repeat = f.repeat
        /\ g.offset = IF o < L THEN o + 1 ELSE at
    BY <1>3 DEF TapeOf
  <2>3. Append(f.served, b) \in Seq(Nat) /\ Len(Append(f.served, b)) = n + 1
    BY <1>1, <1>3
  <2>4. g \in Frames
    BY <1>1, <1>3, <2>1, <2>3 DEF Frames
  <2> QED
    BY <2>2, <2>3, <2>4
<1>5. b = Streams!StreamByte(TapeOf(f), n) /\ Positioned(g)
  <2>1. m \in 0 .. L - 1 /\ (n + 1) % L = IF m + 1 = L THEN 0 ELSE m + 1
    <3> HIDE DEF L, n
    <3> QED
      BY <1>1, ModSucc
  <2>2. Streams!StreamByte(TapeOf(f), n) = IF f.repeat THEN f.data[m + 1]
                                           ELSE IF n < L THEN f.data[n + 1] ELSE 0
    BY DEF Streams!StreamByte, TapeOf
  <2>0. b = IF o < L THEN f.data[o + 1] ELSE 0
    BY DEF ByteAt
  <2>3. Positioned(g) <=> /\ g.offset \in 0 .. L
                          /\ f.repeat => (n + 1) % L = IF g.offset < L THEN g.offset ELSE 0
                          /\ ~f.repeat => IF g.offset < L THEN n + 1 = g.offset
                                          ELSE n + 1 >= L
    <3>1. f.data # <<>>
      BY <1>1
    <3> HIDE DEF g, o, b, m
    <3>2. Positioned(g) <=>
              /\ f.data # <<>>
              /\ g.offset \in 0 .. L
              /\ f.repeat => Len(g.served) % L = IF g.offset < L THEN g.offset ELSE 0
              /\ ~f.repeat => IF g.offset < L THEN Len(g.served) = g.offset
                              ELSE Len(g.served) >= L
      BY <1>4, Zenon DEF Positioned
    <3> QED
      BY <1>4, <3>1, <3>2, Zenon
  <2> DEFINE next == (n + 1) % L
  <2> HIDE DEF L, n, m, at, o, b, g, next
  <2>4. CASE f.repeat
    BY <1>1, <1>2, <1>4, <2>0, <2>1, <2>2, <2>3, <2>4 DEF next
  <2>5. CASE ~f.repeat
    BY <1>1, <1>2, <1>4, <2>0, <2>2, <2>3, <2>5
  <2> QED
    BY <1>1, <2>4, <2>5
<1>6. FromStream(TapeOf(g), g.served)
  <2>1. SUFFICES ASSUME NEW j \in 1 .. Len(g.served)
                 PROVE  g.served[j] = Streams!StreamByte(TapeOf(f), j - 1)
    BY <1>4 DEF FromStream
  <2> HIDE DEF b, g
  <2>2. CASE j = n + 1
    BY <1>1, <1>3, <1>4, <1>5, <2>2
  <2>3. CASE j # n + 1
    <3>1. j \in 1 .. n /\ g.served[j] = f.served[j]
      BY <1>1, <1>3, <1>4, <2>1, <2>3
    <3> QED
      BY <3>1 DEF FrameOK, FromStream
  <2> QED
    BY <2>2, <2>3
<1> QED
  BY <1>4, <1>5, <1>6 DEF FrameOK

LEMMA FrameOfTape ==
    ASSUME NEW t \in Tapes, t.data # <<>>
    PROVE  Frame(t) \in Frames /\ FrameOK(Frame(t)) /\ TapeOf(Frame(t)) = t
<1>1. /\ t.data \in Seq(Nat) /\ t.repeat \in BOOLEAN
      /\ t = [data |-> t.data, repeat |-> t.repeat]
  BY TapesAssumption
<1>2. /\ Frame(t).data = t.data /\ Frame(t).repeat = t.repeat
      /\ Frame(t).offset = 0 /\ Frame(t).served = <<>>
  BY <1>1 DEF Frame
<1>3. Frame(t) \in Frames
  BY <1>1 DEF Frame, Frames
<1>4. TapeOf(Frame(t)) = t
  BY <1>1, <1>2, Zenon DEF TapeOf
<1>5. Len(t.data) \in Nat \ {0}
  BY <1>1
<1>6. 0 % Len(t.data) = 0
  <2> DEFINE L == Len(t.data)
  <2>1. L \in Nat /\ 0 < L
    BY <1>5
  <2> HIDE DEF L
  <2>2. 0 % L = 0
    BY <2>1, ModSmall
  <2> QED
    BY <2>2 DEF L
<1>7. Positioned(Frame(t))
  BY <1>1, <1>2, <1>5, <1>6 DEF Positioned
<1>8. FromStream(t, <<>>)
  BY DEF FromStream
<1> QED
  BY <1>2, <1>3, <1>4, <1>7, <1>8 DEF FrameOK

LEMMA PopLemma ==
    ASSUME NEW S, NEW s \in Seq(S), s # <<>>
    PROVE  /\ Pop(s) \in Seq(S) /\ Len(Pop(s)) = Len(s) - 1 /\ Top(s) \in S
           /\ \A k \in 1 .. Len(s) - 1 : Pop(s)[k] = s[k]
<1> DEFINE n == Len(s)
           r == Pop(s)
<1>1. n \in Nat \ {0} /\ \A i \in 1 .. n - 1 : s[i] \in S
  OBVIOUS
<1>2. /\ r \in Seq(S)
      /\ Len(r) = IF 1 <= n - 1 THEN (n - 1) - 1 + 1 ELSE 0
      /\ \A k \in 1 .. (n - 1) - 1 + 1 : r[k] = s[1 + k - 1]
  <2>1. 1 \in Int /\ n - 1 \in Int
    BY <1>1
  <2> QED
    BY <1>1, <2>1, SubSeqProperties DEF Pop
<1>3. Top(s) \in S
  BY <1>1 DEF Top
<1> HIDE DEF n, r
<1>4. Len(r) = n - 1 /\ \A k \in 1 .. n - 1 : r[k] = s[k]
  <2>1. (n - 1) - 1 + 1 = n - 1 /\ \A k \in 1 .. n - 1 : 1 + k - 1 = k
    BY <1>1
  <2>2. \A k \in 1 .. n - 1 : r[k] = s[1 + k - 1]
    BY <1>2, <2>1
  <2>3. Len(r) = n - 1
    BY <1>1, <1>2
  <2> QED
    BY <2>1, <2>2, <2>3
<1> QED
  BY <1>2, <1>3, <1>4 DEF n, r

LEMMA ReplaceTop ==
    ASSUME NEW S, NEW s \in Seq(S), s # <<>>, NEW x \in S, NEW r,
           r = [s EXCEPT ![Len(s)] = x]
    PROVE  /\ Len(s) \in Nat \ {0} /\ r \in Seq(S) /\ Len(r) = Len(s) /\ r[Len(s)] = x
           /\ \A k \in 1 .. Len(s) : k # Len(s) => r[k] = s[k]
OBVIOUS

LEMMA InitInv == Init => Inv
<1> SUFFICES ASSUME Init PROVE Inv
  OBVIOUS
<1>1. TypeOK
  <2>1. <<>> \in Seq(Frames) /\ <<>> \in Seq([tape : Tapes, active : BOOLEAN])
    OBVIOUS
  <2> QED
    BY <2>1, Zenon DEF Init, TypeOK
<1>2. TapesInv
  BY DEF Init, TapesInv
<1>3. LogInv /\ DrawInv
  BY DEF Init, LogInv, DrawInv, DrawsUnderTape
<1> QED
  BY <1>1, <1>2, <1>3 DEF Inv

LEMMA EnterStep ==
    ASSUME Inv, NEW t \in Tapes, EnterScope(t)
    PROVE  Inv'
<1>1. scopes' \in Seq([tape : Tapes, active : BOOLEAN])
  BY DEF Inv, TypeOK, EnterScope
<1>2. UNCHANGED <<draw, log>> /\ draw = NoDraw
  BY DEF EnterScope
<1>3. LogInv'
  BY <1>2 DEF Inv, LogInv
<1>4. CASE PushTape(t)
  <2>1. Frame(t) \in Frames /\ FrameOK(Frame(t))
    BY <1>4, FrameOfTape DEF PushTape
  <2>2. tapes \in Seq(Frames) /\ tapes' = Append(tapes, Frame(t))
    BY <1>4 DEF PushTape, Inv, TypeOK
  <2>3. tapes' \in Seq(Frames)
    BY <2>1, <2>2
  <2>4. TapesInv'
    <3>1. SUFFICES ASSUME NEW k \in 1 .. Len(tapes') PROVE FrameOK(tapes'[k])
      BY DEF TapesInv
    <3>2. CASE k = Len(tapes) + 1
      BY <2>1, <2>2, <3>2
    <3>3. CASE k # Len(tapes) + 1
      <4>1. k \in 1 .. Len(tapes) /\ tapes'[k] = tapes[k]
        BY <2>1, <2>2, <3>3
      <4> QED
        BY <4>1 DEF Inv, TapesInv
    <3> QED
      BY <3>2, <3>3
  <2>5. hooked' \in BOOLEAN /\ ("liboqs" \in Libraries => hooked')
    BY <1>4 DEF PushTape, Inv, TypeOK
  <2> QED
    BY <1>1, <1>2, <1>3, <2>3, <2>4, <2>5 DEF Inv, TypeOK, DrawInv, DrawsUnderTape
<1>5. CASE t.data = <<>> /\ UNCHANGED <<tapes, hooked>>
  BY <1>1, <1>2, <1>3, <1>5 DEF Inv, TypeOK, TapesInv, DrawInv, DrawsUnderTape
<1> QED
  BY <1>4, <1>5 DEF EnterScope

LEMMA LeaveStep ==
    ASSUME Inv, LeaveScope
    PROVE  Inv'
<1>1. scopes' \in Seq([tape : Tapes, active : BOOLEAN])
  BY PopLemma DEF Inv, TypeOK, LeaveScope
<1>2. UNCHANGED <<hooked, draw>> /\ draw = NoDraw
  BY DEF LeaveScope
<1>3. CASE UNCHANGED <<tapes, log>>
  BY <1>1, <1>2, <1>3 DEF Inv, TypeOK, TapesInv, LogInv, DrawInv, DrawsUnderTape
<1>4. CASE tapes # <<>> /\ PopTape
  <2>1. tapes \in Seq(Frames) /\ tapes' = Pop(tapes) /\ Len(tapes) \in Nat \ {0}
    BY <1>4 DEF PopTape, Inv, TypeOK
  <2>2. /\ tapes' \in Seq(Frames) /\ Len(tapes') = Len(tapes) - 1 /\ Top(tapes) \in Frames
        /\ \A k \in 1 .. Len(tapes) - 1 : tapes'[k] = tapes[k]
    BY <1>4, <2>1, PopLemma
  <2>3. TapesInv'
    BY <2>1, <2>2 DEF Inv, TapesInv
  <2>4. FrameOK(Top(tapes))
    BY <2>1 DEF Inv, TapesInv, Top
  <2>5. LogInv'
    <3>1. SUFFICES ASSUME NEW l \in log'
                   PROVE  /\ l.tape \in Tapes /\ l.tape.data # <<>>
                          /\ l.served \in Seq(Nat) /\ FromStream(l.tape, l.served)
      BY DEF LogInv
    <3>2. CASE l \in log
      BY <3>2 DEF Inv, LogInv
    <3>3. CASE l = [tape |-> TapeOf(Top(tapes)), served |-> Top(tapes).served]
      <4>1. l.tape = TapeOf(Top(tapes)) /\ l.served = Top(tapes).served
        BY <3>3
      <4>2. l.tape.data = Top(tapes).data
        BY <4>1 DEF TapeOf
      <4> QED
        BY <2>2, <2>4, <4>1, <4>2 DEF FrameOK, Positioned, Frames
    <3> QED
      BY <1>4, <3>2, <3>3 DEF PopTape
  <2> QED
    BY <1>1, <1>2, <2>2, <2>3, <2>5 DEF Inv, TypeOK, DrawInv, DrawsUnderTape
<1> QED
  BY <1>3, <1>4 DEF LeaveScope, PopTape

LEMMA BeginStep ==
    ASSUME Inv, NEW library \in Libraries, NEW n \in 0 .. MaxServed, BeginDraw(library, n)
    PROVE  Inv'
<1>1. UNCHANGED <<tapes, scopes, hooked, log>>
  BY DEF BeginDraw
<1>2. /\ draw' = [library |-> library, source |-> Source(library), left |-> n]
      /\ draw'.source = Source(library)
  BY DEF BeginDraw
<1>3. library = "liboqs" \/ library = "pqclean"
  BY TapesAssumption
<1>4. /\ Source(library) \in {"system", "tape", "pattern", "counter"}
      /\ Source(library) = "tape" => tapes # <<>>
      /\ tapes # <<>> => Source(library) = "tape"
  <2>1. CASE library = "liboqs"
    BY <2>1 DEF Source, Inv, DrawInv, TypeOK
  <2>2. CASE library = "pqclean"
    BY <2>2 DEF Source
  <2> QED
    BY <1>3, <2>1, <2>2
<1>5. TypeOK'
  BY <1>1, <1>2, <1>4 DEF Inv, TypeOK
<1> QED
  BY <1>1, <1>2, <1>4, <1>5 DEF Inv, TapesInv, LogInv, DrawInv, DrawsUnderTape

LEMMA FillStep ==
    ASSUME Inv, FillByte
    PROVE  Inv'
<1>1. /\ draw # NoDraw /\ draw.left \in Nat /\ draw.left > 0 /\ draw.left \in 0 .. MaxServed
      /\ draw \in [library : Libraries, left : 0 .. MaxServed,
                   source : {"system", "tape", "pattern", "counter"}]
  BY DEF FillByte, Inv, TypeOK
<1>2. /\ draw' \in [library : Libraries, left : 0 .. MaxServed,
                    source : {"system", "tape", "pattern", "counter"}]
      /\ draw'.source = draw.source
  BY <1>1, TapesAssumption DEF FillByte
<1>3. UNCHANGED <<scopes, hooked, log>>
  BY DEF FillByte
<1>4. CASE draw.source # "tape"
  <2>1. tapes' = tapes
    BY <1>4 DEF FillByte
  <2> QED
    BY <1>1, <1>2, <1>3, <2>1 DEF Inv, TypeOK, TapesInv, LogInv, DrawInv, DrawsUnderTape
<1>5. CASE draw.source = "tape"
  <2>1. /\ tapes \in Seq(Frames) /\ Len(tapes) \in Nat \ {0}
        /\ tapes' = [tapes EXCEPT ![Len(tapes)] = Filled(Top(tapes))]
    BY <1>1, <1>5 DEF FillByte, Inv, TypeOK, DrawInv
  <2>2. Top(tapes) \in Frames /\ FrameOK(Top(tapes))
    BY <2>1 DEF Inv, TapesInv, Top
  <2>3. Filled(Top(tapes)) \in Frames /\ FrameOK(Filled(Top(tapes)))
    BY <2>2, FilledOK
  <2>4. /\ tapes' \in Seq(Frames) /\ Len(tapes') = Len(tapes)
        /\ tapes'[Len(tapes)] = Filled(Top(tapes))
        /\ \A k \in 1 .. Len(tapes) : k # Len(tapes) => tapes'[k] = tapes[k]
    BY <2>1, <2>3, ReplaceTop
  <2>5. TapesInv'
    BY <2>3, <2>4 DEF Inv, TapesInv
  <2> QED
    BY <1>1, <1>2, <1>3, <1>5, <2>1, <2>4, <2>5
       DEF Inv, TypeOK, LogInv, DrawInv, DrawsUnderTape
<1> QED
  BY <1>4, <1>5

LEMMA NextInv == Inv /\ [Next]_vars => Inv'
<1> SUFFICES ASSUME Inv, [Next]_vars PROVE Inv'
  OBVIOUS
<1>1. CASE EndDraw
  BY <1>1 DEF EndDraw, Inv, TypeOK, TapesInv, LogInv, DrawInv, DrawsUnderTape
<1>2. CASE UNCHANGED vars
  BY <1>2 DEF vars, Inv, TypeOK, TapesInv, LogInv, DrawInv, DrawsUnderTape
<1> QED
  BY <1>1, <1>2, EnterStep, LeaveStep, BeginStep, FillStep DEF Next

\* Types of the tapes, scopes and draws, for any tapes and bounds; the part of
\* Inv that says where each tape stands is what makes it inductive.
THEOREM Invariance == Spec => []Inv
<1> QED
  BY InitInv, NextInv, PTL DEF Spec

\* No library draws from anywhere but the active tape, however scopes are
\* nested and whichever of them were refused.
THEOREM UnderTape == Spec => []DrawsUnderTape
<1>1. Inv => DrawsUnderTape
  BY DEF Inv, DrawInv
<1> QED
  BY <1>1, Invariance, PTL

-----------------------------------------------------------------------------
(* The scopes and their tapes.                                             *)

LEMMA ActiveNext ==
    ASSUME NEW s, NEW n \in Nat
    PROVE  /\ Active(s, n) \in Nat
           /\ Active(s, n + 1) = Active(s, n) + IF s[n + 1].active THEN 1 ELSE 0
<1> DEFINE A(k) == {i \in 1 .. k : s[i].active}
<1>1. IsFiniteSet(A(n)) /\ Cardinality(A(n)) \in Nat
  <2>1. IsFiniteSet(1 .. n)
    BY FS_Interval
  <2>2. A(n) \subseteq 1 .. n
    OBVIOUS
  <2> QED
    BY <2>1, <2>2, FS_Subset, FS_CardinalityType
<1>2. n + 1 \notin A(n)
  OBVIOUS
<1>3. CASE s[n + 1].active
  <2>1. A(n + 1) = A(n) \cup {n + 1}
    BY <1>3
  <2> HIDE DEF A
  <2>2. Cardinality(A(n + 1)) = Cardinality(A(n)) + 1
    BY <1>1, <1>2, <2>1, FS_AddElement
  <2> QED
    BY <1>1, <1>3, <2>2 DEF Active, A
<1>4. CASE ~s[n + 1].active
  <2>1. A(n + 1) = A(n)
    BY <1>4
  <2> HIDE DEF A
  <2>2. Cardinality(A(n + 1)) = Cardinality(A(n)) + 0
    BY <1>1, <2>1
  <2> QED
    BY <1>1, <1>4, <2>2 DEF Active, A
<1> QED
  BY <1>3, <1>4, <1>1 DEF Active

LEMMA ActiveUpTo ==
    ASSUME NEW s, NEW n \in Nat, NEW i \in 1 .. n
    PROVE  /\ Active(s, i) \in Nat /\ Active(s, n) \in Nat
           /\ Active(s, i) <= Active(s, n)
           /\ s[i].active => 1 <= Active(s, i)
<1> DEFINE A(k) == {j \in 1 .. k : s[j].active}
<1>1. i \in Nat /\ i - 1 \in Nat /\ (i - 1) + 1 = i
  OBVIOUS
<1>2. IsFiniteSet(A(n))
  <2>1. IsFiniteSet(1 .. n) /\ A(n) \subseteq 1 .. n
    BY FS_Interval
  <2> QED
    BY <2>1, FS_Subset
<1>3. A(i) \subseteq A(n)
  OBVIOUS
<1>4. Cardinality(A(i)) <= Cardinality(A(n))
  <2> HIDE DEF A
  <2> QED
    BY <1>2, <1>3, FS_Subset
<1>5. s[i].active => 1 <= Active(s, i)
  BY <1>1, ActiveNext
<1> QED
  BY <1>1, <1>4, <1>5, ActiveNext DEF Active

\* The count looks at the first n scopes only.
LEMMA ActiveSame ==
    ASSUME NEW s, NEW t, NEW n \in Nat, \A i \in 1 .. n : s[i] = t[i]
    PROVE  Active(s, n) = Active(t, n)
<1>1. {i \in 1 .. n : s[i].active} = {i \in 1 .. n : t[i].active}
  OBVIOUS
<1> QED
  BY <1>1 DEF Active

LEMMA EnterBalanced ==
    ASSUME Inv, ScopesBalanced, NEW t \in Tapes, EnterScope(t)
    PROVE  ScopesBalanced'
<1> DEFINE n == Len(scopes)
           m == Len(tapes)
           new == [tape |-> t, active |-> t.data # <<>>]
<1>1. /\ n \in Nat /\ DOMAIN scopes = 1 .. n /\ scopes' = Append(scopes, new)
      /\ Len(scopes') = n + 1 /\ DOMAIN scopes' = 1 .. n + 1 /\ scopes'[n + 1] = new
      /\ \A i \in 1 .. n : scopes'[i] = scopes[i]
  BY DEF EnterScope, Inv, TypeOK
<1>2. m \in Nat /\ m = Active(scopes, n)
  BY ActiveNext, <1>1 DEF ScopesBalanced
<1>3. \A i \in 1 .. n : Active(scopes', i) = Active(scopes, i)
  <2>1. SUFFICES ASSUME NEW i \in 1 .. n PROVE Active(scopes', i) = Active(scopes, i)
    OBVIOUS
  <2>2. i \in Nat /\ \A j \in 1 .. i : scopes'[j] = scopes[j]
    BY <1>1
  <2> QED
    BY <2>2, ActiveSame
<1>4. Active(scopes', n) = Active(scopes, n)
  BY <1>1, ActiveSame
<1>5. Active(scopes', n + 1) = m + IF new.active THEN 1 ELSE 0
  <2> HIDE DEF n, m, new
  <2>1. Active(scopes', n + 1) = Active(scopes', n) + IF scopes'[n + 1].active THEN 1 ELSE 0
    BY <1>1, ActiveNext
  <2> QED
    BY <1>1, <1>2, <1>4, <2>1
<1>6. \A i \in 1 .. n : scopes[i].active =>
        /\ Active(scopes, i) \in 1 .. m
        /\ TapeOf(tapes[Active(scopes, i)]) = scopes[i].tape
  BY <1>1, <1>2, ActiveUpTo DEF ScopesBalanced
<1>7. CASE PushTape(t)
  <2>1. new.active /\ new.tape = t
    BY <1>7 DEF PushTape
  <2>2. /\ Len(tapes') = m + 1 /\ tapes'[m + 1] = Frame(t)
        /\ \A k \in 1 .. m : tapes'[k] = tapes[k]
    BY <1>7 DEF PushTape, Inv, TypeOK
  <2>3. TapeOf(Frame(t)) = t
    BY <1>7, FrameOfTape DEF PushTape
  <2> HIDE DEF n, m, new
  <2>4. ASSUME NEW i \in 1 .. n + 1, scopes'[i].active
        PROVE  TapeOf(tapes'[Active(scopes', i)]) = scopes'[i].tape
    <3>1. CASE i = n + 1
      BY <1>1, <1>5, <2>1, <2>2, <2>3, <3>1
    <3>2. CASE i \in 1 .. n
      BY <1>1, <1>3, <1>6, <2>2, <2>4, <3>2
    <3> QED
      BY <1>1, <3>1, <3>2
  <2>5. Len(tapes') = Active(scopes', Len(scopes'))
    BY <1>1, <1>2, <1>5, <2>1, <2>2
  <2> QED
    BY <1>1, <2>4, <2>5 DEF ScopesBalanced, Active, TapeOf
<1>8. CASE t.data = <<>> /\ UNCHANGED <<tapes, hooked>>
  <2>1. ~new.active
    BY <1>8
  <2> HIDE DEF n, m, new
  <2>2. ASSUME NEW i \in 1 .. n + 1, scopes'[i].active
        PROVE  TapeOf(tapes'[Active(scopes', i)]) = scopes'[i].tape
    <3>1. i \in 1 .. n
      BY <1>1, <2>1, <2>2
    <3> QED
      BY <1>1, <1>3, <1>6, <1>8, <2>2, <3>1
  <2>3. Len(tapes') = Active(scopes', Len(scopes'))
    <3>1. Len(tapes') = m
      BY <1>8 DEF m
    <3> QED
      BY <1>1, <1>2, <1>5, <2>1, <3>1
  <2> QED
    BY <1>1, <2>2, <2>3 DEF ScopesBalanced, Active, TapeOf
<1> QED
  BY <1>7, <1>8 DEF EnterScope

LEMMA LeaveBalanced ==
    ASSUME Inv, ScopesBalanced, LeaveScope
    PROVE  ScopesBalanced'
<1> DEFINE n == Len(scopes) - 1
           m == Len(tapes)
<1>1. /\ n \in Nat /\ Len(scopes) = n + 1 /\ DOMAIN scopes = 1 .. n + 1
      /\ scopes # <<>> /\ Top(scopes) = scopes[n + 1]
  BY DEF LeaveScope, Inv, TypeOK, Top
<1>2. /\ Len(scopes') = n /\ DOMAIN scopes' = 1 .. n
      /\ \A i \in 1 .. n : scopes'[i] = scopes[i]
  <2>1. scopes' = Pop(scopes) /\ scopes \in Seq([tape : Tapes, active : BOOLEAN])
    BY DEF LeaveScope, Inv, TypeOK
  <2>2. /\ Len(scopes') = Len(scopes) - 1
        /\ \A k \in 1 .. Len(scopes) - 1 : scopes'[k] = scopes[k]
    BY <1>1, <2>1, PopLemma
  <2>3. scopes' \in Seq([tape : Tapes, active : BOOLEAN])
    BY <1>1, <2>1, PopLemma
  <2> QED
    BY <2>2, <2>3
<1>3. m \in Nat /\ m = Active(scopes, n) + IF Top(scopes).active THEN 1 ELSE 0
  <2>1. m = Active(scopes, n + 1)
    BY <1>1 DEF ScopesBalanced
  <2> HIDE DEF n, m
  <2>2. /\ Active(scopes, n) \in Nat
        /\ Active(scopes, n + 1) = Active(scopes, n) + IF scopes[n + 1].active THEN 1 ELSE 0
    BY <1>1, ActiveNext
  <2> QED
    BY <1>1, <2>1, <2>2
<1>4. \A i \in 1 .. n : Active(scopes', i) = Active(scopes, i)
  <2>1. SUFFICES ASSUME NEW i \in 1 .. n PROVE Active(scopes', i) = Active(scopes, i)
    OBVIOUS
  <2>2. i \in Nat /\ \A j \in 1 .. i : scopes'[j] = scopes[j]
    BY <1>1, <1>2
  <2> QED
    BY <2>2, ActiveSame
<1>5. Active(scopes', n) = Active(scopes, n) /\ Active(scopes, n) \in Nat
  BY <1>1, <1>2, ActiveSame, ActiveNext
<1>6. \A i \in 1 .. n : scopes[i].active =>
        /\ Active(scopes, i) \in 1 .. Active(scopes, n)
        /\ TapeOf(tapes[Active(scopes, i)]) = scopes[i].tape
  BY <1>1, ActiveUpTo DEF ScopesBalanced
<1>7. /\ Len(tapes') = Active(scopes, n)
      /\ \A k \in 1 .. Active(scopes, n) : tapes'[k] = tapes[k]
  <2>1. CASE Top(scopes).active
    <3>1. m = Active(scopes, n) + 1
      BY <1>3, <2>1
    <3>2. tapes # <<>> /\ tapes \in Seq(Frames)
      BY <1>5, <3>1 DEF Inv, TypeOK
    <3>3. tapes' = Pop(tapes)
      BY <2>1, <3>2 DEF LeaveScope, PopTape
    <3>4. Len(tapes') = m - 1 /\ \A k \in 1 .. m - 1 : tapes'[k] = tapes[k]
      BY <3>2, <3>3, PopLemma
    <3>5. m - 1 = Active(scopes, n)
      BY <1>5, <3>1
    <3> QED
      BY <3>4, <3>5
  <2>2. CASE ~Top(scopes).active
    <3>1. tapes' = tapes /\ m = Active(scopes, n)
      BY <1>3, <1>5, <2>2 DEF LeaveScope
    <3> QED
      BY <3>1
  <2> QED
    BY <2>1, <2>2
<1> HIDE DEF n, m
<1>8. ASSUME NEW i \in 1 .. n, scopes'[i].active
      PROVE  TapeOf(tapes'[Active(scopes', i)]) = scopes'[i].tape
  BY <1>2, <1>4, <1>6, <1>7, <1>8
<1>9. Len(tapes') = Active(scopes', Len(scopes'))
  BY <1>2, <1>5, <1>7
<1> QED
  BY <1>2, <1>8, <1>9 DEF ScopesBalanced, Active, TapeOf

LEMMA FillBalanced ==
    ASSUME Inv, ScopesBalanced, FillByte
    PROVE  ScopesBalanced'
<1>1. scopes' = scopes
  BY DEF FillByte
<1>2. Len(tapes') = Len(tapes) /\ \A k \in 1 .. Len(tapes) : TapeOf(tapes'[k]) = TapeOf(tapes[k])
  <2>1. CASE draw.source = "tape"
    <3>1. /\ tapes \in Seq(Frames) /\ Len(tapes) \in Nat \ {0} /\ tapes # <<>>
          /\ tapes' = [tapes EXCEPT ![Len(tapes)] = Filled(Top(tapes))]
      BY <2>1 DEF FillByte, Inv, TypeOK, DrawInv
    <3>2. Top(tapes) \in Frames /\ FrameOK(Top(tapes)) /\ Top(tapes) = tapes[Len(tapes)]
      BY <3>1 DEF Inv, TapesInv, Top
    <3>3. Filled(Top(tapes)) \in Frames /\ TapeOf(Filled(Top(tapes))) = TapeOf(Top(tapes))
      BY <3>2, FilledOK
    <3>4. /\ Len(tapes') = Len(tapes) /\ tapes'[Len(tapes)] = Filled(Top(tapes))
          /\ \A k \in 1 .. Len(tapes) : k # Len(tapes) => tapes'[k] = tapes[k]
      BY <3>1, <3>3, ReplaceTop
    <3> QED
      BY <3>2, <3>3, <3>4
  <2>2. CASE draw.source # "tape"
    BY <2>2 DEF FillByte
  <2> QED
    BY <2>1, <2>2
<1>3. \A i \in DOMAIN scopes : scopes[i].active => Active(scopes, i) \in 1 .. Len(tapes)
  <2>1. DOMAIN scopes = 1 .. Len(scopes) /\ Len(scopes) \in Nat
    BY DEF Inv, TypeOK
  <2> QED
    BY <2>1, ActiveUpTo DEF ScopesBalanced
<1>4. \A k : TapeOf(tapes[k])' = TapeOf(tapes'[k])
  BY DEF TapeOf
<1>5. \A i \in DOMAIN scopes : scopes[i].active =>
        TapeOf(tapes'[Active(scopes, i)]) = scopes[i].tape
  BY <1>2, <1>3 DEF ScopesBalanced
<1>6. Len(tapes') = Active(scopes, Len(scopes))
  BY <1>2 DEF ScopesBalanced
<1> QED
  BY <1>1, <1>5, <1>6 DEF ScopesBalanced, Active, TapeOf

\* The tapes on the stack are those of the active scopes, one for one, for
\* every set of tapes and every nesting, refused tapes included.
THEOREM Balanced == Spec => []ScopesBalanced
<1>1. Init => ScopesBalanced
  <2> SUFFICES ASSUME Init PROVE ScopesBalanced
    OBVIOUS
  <2>1. tapes = <<>> /\ scopes = <<>>
    BY DEF Init
  <2>2. {i \in 1 .. 0 : scopes[i].active} = {}
    OBVIOUS
  <2>3. Active(scopes, 0) = 0
    BY <2>2, FS_EmptySet DEF Active
  <2> QED
    BY <2>1, <2>3 DEF ScopesBalanced
<1>2. Inv /\ ScopesBalanced /\ [Next]_vars => ScopesBalanced'
  <2> SUFFICES ASSUME Inv, ScopesBalanced, [Next]_vars PROVE ScopesBalanced'
    OBVIOUS
  <2>1. CASE UNCHANGED <<tapes, scopes>>
    BY <2>1 DEF ScopesBalanced, Active, TapeOf
  <2> QED
    BY <2>1, EnterBalanced, LeaveBalanced, FillBalanced DEF Next, BeginDraw, EndDraw, vars
<1> QED
  BY <1>1, <1>2, Invariance, PTL DEF Spec

-----------------------------------------------------------------------------
(* The refinement.                                                         *)

StreamOf(f) == [tape |-> TapeOf(f), served |-> f.served]
StreamsOf(s) == [k \in DOMAIN s |-> StreamOf(s[k])]
AnyStream == {StreamOf(f) : f \in Frames}

LEMMA OpenStreams == openStreams = StreamsOf(tapes) /\ openStreams' = StreamsOf(tapes')
BY DEF openStreams, StreamsOf, StreamOf

LEMMA StreamsLen ==
    ASSUME NEW s \in Seq(Frames)
    PROVE  /\ StreamsOf(s) \in Seq(AnyStream) /\ Len(s) \in Nat
           /\ Len(StreamsOf(s)) = Len(s) /\ DOMAIN StreamsOf(s) = 1 .. Len(s)
           /\ \A k \in 1 .. Len(s) : StreamsOf(s)[k] = StreamOf(s[k])
<1>1. DOMAIN s = 1 .. Len(s) /\ Len(s) \in Nat /\ \A k \in 1 .. Len(s) : s[k] \in Frames
  OBVIOUS
<1>2. \A k \in 1 .. Len(s) : StreamOf(s[k]) \in AnyStream
  BY <1>1 DEF AnyStream
<1> QED
  BY <1>1, <1>2 DEF StreamsOf

\* Equal sequences.
LEMMA SameSeq ==
    ASSUME NEW S, NEW s \in Seq(S), NEW t \in Seq(S), Len(s) = Len(t),
           \A k \in 1 .. Len(s) : s[k] = t[k]
    PROVE  s = t
OBVIOUS

LEMMA PushRefines ==
    ASSUME tapes \in Seq(Frames), NEW t \in Tapes, t.data # <<>>,
           tapes' = Append(tapes, Frame(t))
    PROVE  Streams!Open(t)
<1> DEFINE x == [tape |-> t, served |-> <<>>]
           new == Append(StreamsOf(tapes), x)
<1>1. Frame(t) \in Frames /\ StreamOf(Frame(t)) = x
  BY FrameOfTape DEF StreamOf, Frame
<1>2. x \in AnyStream
  BY <1>1 DEF AnyStream
<1>3. /\ tapes' \in Seq(Frames) /\ Len(tapes') = Len(tapes) + 1 /\ Len(tapes) \in Nat
      /\ tapes'[Len(tapes) + 1] = Frame(t)
      /\ \A k \in 1 .. Len(tapes) : tapes'[k] = tapes[k]
  BY <1>1
<1>4. /\ StreamsOf(tapes') \in Seq(AnyStream) /\ Len(StreamsOf(tapes')) = Len(tapes) + 1
      /\ \A k \in 1 .. Len(tapes) + 1 : StreamsOf(tapes')[k] = StreamOf(tapes'[k])
  BY <1>3, StreamsLen
<1>5. /\ new \in Seq(AnyStream) /\ Len(new) = Len(tapes) + 1 /\ new[Len(tapes) + 1] = x
      /\ \A k \in 1 .. Len(tapes) : new[k] = StreamOf(tapes[k])
  <2>1. /\ StreamsOf(tapes) \in Seq(AnyStream) /\ Len(StreamsOf(tapes)) = Len(tapes)
        /\ \A k \in 1 .. Len(tapes) : StreamsOf(tapes)[k] = StreamOf(tapes[k])
    BY StreamsLen
  <2> HIDE DEF x
  <2> QED
    BY <1>2, <1>3, <2>1
<1> HIDE DEF new, x
<1>6. \A k \in 1 .. Len(tapes) + 1 : StreamsOf(tapes')[k] = new[k]
  BY <1>1, <1>3, <1>4, <1>5
<1>7. StreamsOf(tapes') = new
  BY <1>4, <1>5, <1>6, SameSeq
<1> QED
  BY <1>7, OpenStreams DEF Streams!Open, new, x

LEMMA PopRefines ==
    ASSUME tapes \in Seq(Frames), tapes # <<>>, tapes' = Pop(tapes)
    PROVE  Streams!Close
<1> DEFINE s == StreamsOf(tapes)
<1>1. /\ s \in Seq(AnyStream) /\ Len(s) = Len(tapes) /\ Len(tapes) \in Nat \ {0}
      /\ \A k \in 1 .. Len(tapes) : s[k] = StreamOf(tapes[k])
  BY StreamsLen
<1>2. /\ tapes' \in Seq(Frames) /\ Len(tapes') = Len(tapes) - 1
      /\ \A k \in 1 .. Len(tapes) - 1 : tapes'[k] = tapes[k]
  BY PopLemma
<1>3. /\ StreamsOf(tapes') \in Seq(AnyStream) /\ Len(StreamsOf(tapes')) = Len(tapes) - 1
      /\ \A k \in 1 .. Len(tapes) - 1 : StreamsOf(tapes')[k] = StreamOf(tapes'[k])
  BY <1>2, StreamsLen
<1> HIDE DEF s
<1>4. s # <<>>
  BY <1>1
<1>5. /\ Pop(s) \in Seq(AnyStream) /\ Len(Pop(s)) = Len(tapes) - 1
      /\ \A k \in 1 .. Len(tapes) - 1 : Pop(s)[k] = s[k]
  BY <1>1, <1>4, PopLemma
<1>6. \A k \in 1 .. Len(tapes) - 1 : StreamsOf(tapes')[k] = Pop(s)[k]
  BY <1>1, <1>2, <1>3, <1>5
<1>7. StreamsOf(tapes') = Pop(s)
  BY <1>3, <1>5, <1>6, SameSeq
<1> QED
  BY <1>4, <1>7, OpenStreams DEF Streams!Close, Pop, s

LEMMA FillRefines ==
    ASSUME tapes \in Seq(Frames), tapes # <<>>, FrameOK(Top(tapes)),
           tapes' = [tapes EXCEPT ![Len(tapes)] = Filled(Top(tapes))]
    PROVE  Streams!Read
<1> DEFINE s == StreamsOf(tapes)
           f == Top(tapes)
           n == Len(tapes)
           x == [tape |-> TapeOf(f),
                 served |-> Append(f.served, Streams!StreamByte(TapeOf(f), Len(f.served)))]
           new == [s EXCEPT ![n] = x]
<1>1. /\ s \in Seq(AnyStream) /\ Len(s) = n /\ n \in Nat \ {0} /\ DOMAIN s = 1 .. n
      /\ \A k \in 1 .. n : s[k] = StreamOf(tapes[k])
  BY StreamsLen
<1>2. f \in Frames /\ f = tapes[n]
  BY DEF Top
<1>3. Filled(f) \in Frames /\ StreamOf(Filled(f)) = x
  BY <1>2, FilledOK DEF StreamOf
<1>4. x \in AnyStream
  BY <1>3 DEF AnyStream
<1>5. /\ tapes' \in Seq(Frames) /\ Len(tapes') = n /\ tapes'[n] = Filled(f)
      /\ \A k \in 1 .. n : k # n => tapes'[k] = tapes[k]
  BY <1>3, ReplaceTop
<1>6. /\ StreamsOf(tapes') \in Seq(AnyStream) /\ Len(StreamsOf(tapes')) = n
      /\ \A k \in 1 .. n : StreamsOf(tapes')[k] = StreamOf(tapes'[k])
  BY <1>5, StreamsLen
<1>7. s # <<>> /\ s[n] = StreamOf(f)
  BY <1>1, <1>2
<1>8. /\ new \in Seq(AnyStream) /\ Len(new) = n /\ new[n] = x
      /\ \A k \in 1 .. n : k # n => new[k] = s[k]
  <2>1. Len(s) = n
    BY <1>1
  <2>2. new = [s EXCEPT ![Len(s)] = x]
    BY <2>1, Zenon
  <2> HIDE DEF s, x, new, n
  <2>3. /\ new \in Seq(AnyStream) /\ Len(new) = Len(s) /\ new[Len(s)] = x
        /\ \A k \in 1 .. Len(s) : k # Len(s) => new[k] = s[k]
    BY <1>1, <1>4, <1>7, <2>2, ReplaceTop
  <2> QED
    BY <2>1, <2>3
<1>9. \A k \in 1 .. n : StreamsOf(tapes')[k] = new[k]
  <2>1. SUFFICES ASSUME NEW k \in 1 .. n PROVE StreamsOf(tapes')[k] = new[k]
    OBVIOUS
  <2> HIDE DEF s, x, new, f, n
  <2>2. CASE k = n
    BY <1>3, <1>5, <1>6, <1>8, <2>2
  <2>3. CASE k # n
    BY <1>1, <1>5, <1>6, <1>8, <2>3
  <2> QED
    BY <2>2, <2>3
<1>10. StreamsOf(tapes') = new
  <2> HIDE DEF new
  <2> QED
    BY <1>6, <1>8, <1>9, SameSeq
<1>11. /\ Streams!Top(s) = StreamOf(f) /\ Len(s) = n
       /\ StreamOf(f).tape = TapeOf(f) /\ StreamOf(f).served = f.served
  BY <1>1, <1>7 DEF Streams!Top, StreamOf
<1>12. openStreams = s /\ openStreams' = new
  BY <1>10, OpenStreams
<1> HIDE DEF s, f, n
<1> QED
  BY <1>7, <1>11, <1>12, Zenon DEF Streams!Read, new, x

\* Every step of the stack of tapes is a step of the stack of streams or
\* leaves the streams alone.
LEMMA StepRefines ==
    ASSUME Inv, [Next]_vars
    PROVE  [Streams!Next]_openStreams
<1>1. tapes \in Seq(Frames)
  BY DEF Inv, TypeOK
<1>2. CASE UNCHANGED tapes
  BY <1>2 DEF openStreams
<1>3. ASSUME NEW t \in Tapes, EnterScope(t)
      PROVE  [Streams!Next]_openStreams
  <2>1. CASE PushTape(t)
    <3>1. Streams!Open(t)
      BY <1>1, <2>1, PushRefines DEF PushTape
    <3>2. t \in Streams!Usable
      BY <2>1 DEF PushTape, Streams!Usable
    <3> QED
      BY <3>1, <3>2 DEF Streams!Next
  <2> QED
    BY <1>2, <1>3, <2>1 DEF EnterScope
<1>4. CASE LeaveScope
  <2>1. CASE tapes # <<>> /\ PopTape
    BY <1>1, <2>1, PopRefines DEF PopTape, Streams!Next
  <2> QED
    BY <1>2, <1>4, <2>1 DEF LeaveScope, PopTape
<1>5. CASE FillByte
  <2>1. CASE draw.source = "tape"
    <3>1. /\ tapes # <<>>
          /\ tapes' = [tapes EXCEPT ![Len(tapes)] = Filled(Top(tapes))]
      BY <1>5, <2>1 DEF FillByte, Inv, DrawInv
    <3>2. FrameOK(Top(tapes))
      <4>1. Len(tapes) \in 1 .. Len(tapes)
        BY <1>1, <3>1
      <4> QED
        BY <4>1 DEF Inv, TapesInv, Top
    <3> QED
      BY <1>1, <3>1, <3>2, FillRefines DEF Streams!Next
  <2> QED
    BY <1>2, <1>5, <2>1 DEF FillByte
<1> QED
  BY <1>2, <1>3, <1>4, <1>5 DEF Next, BeginDraw, EndDraw, vars

\* The stack of tapes implements the stack of streams for all tapes, all
\* nestings of scopes and all divisions of the bytes into draws.
THEOREM Refinement == Spec => StreamSpec
<1>1. Init => Streams!Init
  BY DEF Init, Streams!Init, openStreams
<1> QED
  BY <1>1, StepRefines, Invariance, PTL DEF Spec, StreamSpec, Streams!Spec

-----------------------------------------------------------------------------
\* Draws under one tape agree, draws under different tapes of one length
\* differ once both have been read to the end.
THEOREM TapesTold == Spec => []DrawsIdentifyTape
<1>1. ASSUME Inv PROVE DrawsIdentifyTape
  <2>1. \A h \in History : /\ h.served \in Seq(Nat) /\ FromStream(h.tape, h.served)
                           /\ h.tape \in Tapes /\ h.tape.data # <<>>
    <3>1. SUFFICES ASSUME NEW h \in History
                   PROVE  /\ h.served \in Seq(Nat) /\ FromStream(h.tape, h.served)
                          /\ h.tape \in Tapes /\ h.tape.data # <<>>
      OBVIOUS
    <3>2. CASE h \in log
      BY <1>1, <3>2 DEF Inv, LogInv
    <3>3. ASSUME NEW k \in DOMAIN tapes, h = openStreams[k]
          PROVE  /\ h.served \in Seq(Nat) /\ FromStream(h.tape, h.served)
                 /\ h.tape \in Tapes /\ h.tape.data # <<>>
      <4>1. k \in 1 .. Len(tapes) /\ tapes[k] \in Frames
        BY <1>1 DEF Inv, TypeOK
      <4>2. FrameOK(tapes[k])
        BY <1>1, <4>1 DEF Inv, TapesInv
      <4>3. /\ h.tape = TapeOf(tapes[k]) /\ h.served = tapes[k].served
            /\ h.tape.data = tapes[k].data
        BY <3>3 DEF openStreams, TapeOf
      <4> QED
        BY <4>1, <4>2, <4>3 DEF FrameOK, Positioned, Frames
    <3> QED
      BY <3>1, <3>2, <3>3 DEF History
  <2>2. SUFFICES ASSUME NEW a \in History, NEW b \in History
                 PROVE  /\ a.tape = b.tape =>
                              \A i \in DOMAIN a.served \cap DOMAIN b.served :
                                  a.served[i] = b.served[i]
                        /\ (/\ a.tape # b.tape /\ a.tape.repeat = b.tape.repeat
                            /\ Len(a.tape.data) = Len(b.tape.data)
                            /\ Len(a.served) >= Len(a.tape.data)
                            /\ Len(b.served) >= Len(b.tape.data)) =>
                              \E i \in DOMAIN a.served \cap DOMAIN b.served :
                                  a.served[i] # b.served[i]
    BY DEF DrawsIdentifyTape
  <2>3. /\ DOMAIN a.served = 1 .. Len(a.served) /\ Len(a.served) \in Nat
        /\ DOMAIN b.served = 1 .. Len(b.served) /\ Len(b.served) \in Nat
    BY <2>1
  <2>4. ASSUME a.tape = b.tape, NEW i \in DOMAIN a.served \cap DOMAIN b.served
        PROVE  a.served[i] = b.served[i]
    BY <2>1, <2>3, <2>4 DEF FromStream
  <2>5. ASSUME a.tape # b.tape, a.tape.repeat = b.tape.repeat,
               Len(a.tape.data) = Len(b.tape.data),
               Len(a.served) >= Len(a.tape.data), Len(b.served) >= Len(b.tape.data)
        PROVE  \E i \in DOMAIN a.served \cap DOMAIN b.served : a.served[i] # b.served[i]
    <3>1. /\ a.tape.data \in Seq(Nat) /\ b.tape.data \in Seq(Nat)
          /\ a.tape = [data |-> a.tape.data, repeat |-> a.tape.repeat]
          /\ b.tape = [data |-> b.tape.data, repeat |-> b.tape.repeat]
      BY <2>1, TapesAssumption
    <3>2. a.tape.data # b.tape.data
      BY <2>5, <3>1
    <3>3. PICK i \in 1 .. Len(a.tape.data) : a.tape.data[i] # b.tape.data[i]
      BY <2>5, <3>1, <3>2, SameSeq
    <3>4. i \in Nat /\ i - 1 \in Nat /\ i \in 1 .. Len(a.served) /\ i \in 1 .. Len(b.served)
      <4> DEFINE L == Len(a.tape.data)
                 la == Len(a.served)
                 lb == Len(b.served)
      <4>1. L \in Nat /\ la \in Nat /\ lb \in Nat /\ la >= L /\ lb >= L /\ i \in 1 .. L
        BY <2>3, <2>5, <3>1
      <4> HIDE DEF L, la, lb
      <4>2. i \in Nat /\ i - 1 \in Nat /\ i \in 1 .. la /\ i \in 1 .. lb
        BY <4>1
      <4> QED
        BY <4>2 DEF la, lb
    <3>5. /\ Streams!StreamByte(a.tape, i - 1) = a.tape.data[i]
          /\ Streams!StreamByte(b.tape, i - 1) = b.tape.data[i]
      <4> DEFINE L == Len(a.tape.data)
      <4>1. L \in Nat /\ i - 1 < L /\ (i - 1) + 1 = i
        BY <3>1, <3>3, <3>4
      <4>2. (i - 1) % L = i - 1
        <5> HIDE DEF L
        <5> QED
          BY <3>4, <4>1, ModSmall
      <4> QED
        BY <2>5, <4>1, <4>2 DEF Streams!StreamByte
    <3>6. a.served[i] # b.served[i]
      BY <2>1, <3>3, <3>4, <3>5 DEF FromStream
    <3> QED
      BY <2>3, <3>4, <3>6
  <2> QED
    BY <2>4, <2>5
<1> QED
  BY <1>1, Invariance, PTL
=============================================================================
