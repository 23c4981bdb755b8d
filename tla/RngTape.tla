------------------------------ MODULE RngTape -------------------------------
(***************************************************************************)
(* Control of the randomness of the libraries under test:                  *)
(* src/adapters/rng_control.cc, the hook of liboqs and the randombytes of  *)
(* PQClean.  Scopes push tapes on a stack that belongs to the fuzzing      *)
(* thread, the libraries draw bytes in calls of any length, and one byte   *)
(* of a draw is one step.                                                  *)
(***************************************************************************)
EXTENDS Integers, Sequences, FiniteSets

CONSTANTS
    Tapes,          \* [data : sequences of bytes, repeat : BOOLEAN]
    Libraries,      \* the libraries that are linked
    MaxScopes,      \* bound: nested ScopedRngOverride objects
    MaxServed,      \* bound: bytes one tape hands out
    MaxLogged       \* bound: popped tapes that are remembered

ASSUME TapesAssumption ==
    /\ \A t \in Tapes : t.data \in Seq(Nat) /\ t.repeat \in BOOLEAN
    /\ \A t \in Tapes : t = [data |-> t.data, repeat |-> t.repeat]
    /\ Libraries \subseteq {"liboqs", "pqclean"}
    /\ MaxServed \in Nat /\ MaxLogged \in Nat

VARIABLES
    tapes,      \* g_tapes: [data, offset, repeat] and, for the history, served
    scopes,     \* the ScopedRngOverride objects alive: tape and active_
    hooked,     \* OQS_randombytes_custom_algorithm has been called
    draw,       \* the draw in progress: its library, source and bytes to go
    log         \* history: what the tapes popped so far had handed out

vars == <<tapes, scopes, hooked, draw, log>>

NoDraw == [library |-> "none", source |-> "none", left |-> 0]

Top(s) == s[Len(s)]
Pop(s) == SubSeq(s, 1, Len(s) - 1)

Init ==
    /\ tapes = <<>> /\ scopes = <<>>
    /\ hooked = FALSE
    /\ draw = NoDraw
    /\ log = {}

-----------------------------------------------------------------------------
Frames == [data : Seq(Nat), offset : Nat, repeat : BOOLEAN, served : Seq(Nat)]

\* TapeOf forgets the position, Frame is a tape as it is pushed.
TapeOf(f) == [data |-> f.data, repeat |-> f.repeat]
Frame(t) == [data |-> t.data, offset |-> 0, repeat |-> t.repeat, served |-> <<>>]

\* Mutant: pushing a tape leaves liboqs with its own generator.
PushTapeNoHook(t) ==
    /\ t.data # <<>>
    /\ tapes' = Append(tapes, Frame(t))
    /\ hooked' = hooked

\* pqcfuzz_rng_push_tape: a tape without data is refused, any other one is
\* copied, and the hook is installed where liboqs is linked.
PushTape(t) ==
    /\ t.data # <<>>
    /\ tapes' = Append(tapes, Frame(t))
    /\ hooked' = (hooked \/ "liboqs" \in Libraries)

\* pqcfuzz_rng_pop_tape.
PopTape ==
    IF tapes = <<>> THEN UNCHANGED <<tapes, log>>
    ELSE /\ tapes' = Pop(tapes)
         /\ log' = log \cup {[tape |-> TapeOf(Top(tapes)), served |-> Top(tapes).served]}

\* The constructor of ScopedRngOverride.
EnterScope(t) ==
    /\ draw = NoDraw
    /\ Len(scopes) < MaxScopes
    /\ \/ PushTape(t)
       \/ t.data = <<>> /\ UNCHANGED <<tapes, hooked>>
    /\ scopes' = Append(scopes, [tape |-> t, active |-> t.data # <<>>])
    /\ UNCHANGED <<draw, log>>

\* Mutant: the destructor pops whether or not its push succeeded.
LeaveScopeAlways ==
    /\ draw = NoDraw
    /\ scopes # <<>> /\ Cardinality(log) < MaxLogged
    /\ PopTape
    /\ scopes' = Pop(scopes)
    /\ UNCHANGED <<hooked, draw>>

\* The destructor of ScopedRngOverride.
LeaveScope ==
    /\ draw = NoDraw
    /\ scopes # <<>> /\ Cardinality(log) < MaxLogged
    /\ IF Top(scopes).active THEN PopTape ELSE UNCHANGED <<tapes, log>>
    /\ scopes' = Pop(scopes)
    /\ UNCHANGED <<hooked, draw>>

\* Where a draw gets its bytes.  liboqs asks the system until it is hooked;
\* both hooks ask for the active tape first, and without one liboqs repeats a
\* fixed pattern in every call and PQClean goes on with a counter.
Source(library) ==
    CASE library = "liboqs" /\ ~hooked -> "system"
      [] (library = "pqclean" \/ hooked) /\ tapes # <<>> -> "tape"
      [] library = "liboqs" /\ hooked /\ tapes = <<>> -> "pattern"
      [] library = "pqclean" /\ tapes = <<>> -> "counter"

BeginDraw(library, n) ==
    /\ draw = NoDraw
    /\ tapes # <<>> => Len(Top(tapes).served) + n <= MaxServed
    /\ draw' = [library |-> library, source |-> Source(library), left |-> n]
    /\ UNCHANGED <<tapes, scopes, hooked, log>>

\* Mutant: at its end a tape starts over at its second byte.
StartOverLate(f) == IF f.repeat /\ f.offset >= Len(f.data) /\ Len(f.data) > 1 THEN 1 ELSE f.offset

\* FillFromActiveTape, one iteration: at its end a repeating tape starts over.
StartOver(f) == IF f.repeat /\ f.offset >= Len(f.data) THEN 0 ELSE f.offset

\* A tape that does not repeat gives zeros behind its end.
ByteAt(f, o) == IF o < Len(f.data) THEN f.data[o + 1] ELSE 0

\* Mutant: the offset only moves when a tape starts over.
FilledSticky(f) ==
    [data |-> f.data, repeat |-> f.repeat, offset |-> StartOver(f),
     served |-> Append(f.served, ByteAt(f, StartOver(f)))]

Filled(f) ==
    [data |-> f.data, repeat |-> f.repeat,
     offset |-> IF StartOver(f) < Len(f.data) THEN StartOver(f) + 1 ELSE f.offset,
     served |-> Append(f.served, ByteAt(f, StartOver(f)))]

FillByte ==
    /\ draw # NoDraw /\ draw.left > 0
    /\ draw' = [draw EXCEPT !.left = @ - 1]
    /\ tapes' = IF draw.source = "tape"
                THEN [tapes EXCEPT ![Len(tapes)] = Filled(Top(tapes))] ELSE tapes
    /\ UNCHANGED <<scopes, hooked, log>>

EndDraw ==
    /\ draw # NoDraw /\ draw.left = 0
    /\ draw' = NoDraw
    /\ UNCHANGED <<tapes, scopes, hooked, log>>

Next ==
    \/ \E t \in Tapes : EnterScope(t)
    \/ LeaveScope
    \/ \E library \in Libraries, n \in 0 .. MaxServed : BeginDraw(library, n)
    \/ FillByte
    \/ EndDraw

Spec == Init /\ [][Next]_vars

-----------------------------------------------------------------------------
TypeOK ==
    /\ tapes \in Seq(Frames)
    /\ scopes \in Seq([tape : Tapes, active : BOOLEAN])
    /\ hooked \in BOOLEAN
    /\ draw = NoDraw \/
       draw \in [library : Libraries, left : 0 .. MaxServed,
                source : {"system", "tape", "pattern", "counter"}]

\* The stack of tapes implements a stack of streams: whatever the lengths of
\* the draws, the library that draws and the scopes opened and closed in
\* between, each tape goes on where it was left (FillFromActiveTape).
openStreams == [k \in DOMAIN tapes |->
                   [tape |-> TapeOf(tapes[k]), served |-> tapes[k].served]]
Streams == INSTANCE TapeStream WITH streams <- openStreams
StreamSpec == Streams!Spec

\* How many of the first n scopes are active.
Active(s, n) == Cardinality({i \in 1 .. n : s[i].active})

\* The tapes on the stack are those of the scopes alive, in their order: the
\* scope of a refused tape neither leaves a tape behind nor takes away the one
\* of the scope around it (active_ in the destructor).
ScopesBalanced ==
    /\ Len(tapes) = Active(scopes, Len(scopes))
    /\ \A i \in DOMAIN scopes :
         scopes[i].active => TapeOf(tapes[Active(scopes, i)]) = scopes[i].tape

\* While a scope is active no library draws from anywhere but its tape: liboqs
\* has been hooked by then, whichever scope came first.
DrawsUnderTape == (draw # NoDraw /\ tapes # <<>>) => draw.source = "tape"

History == log \cup {openStreams[k] : k \in DOMAIN tapes}

\* What the bad-randomness oracles and every replay rest on: draws under the
\* same tape give the same bytes, and draws under different tapes of one length
\* give different bytes once each has been read to its end.  (A tape that is
\* shorter than another one, or is not read to the place where they differ, may
\* give the same bytes.)
DrawsIdentifyTape ==
    \A a, b \in History :
        /\ a.tape = b.tape =>
              \A i \in DOMAIN a.served \cap DOMAIN b.served : a.served[i] = b.served[i]
        /\ (/\ a.tape # b.tape /\ a.tape.repeat = b.tape.repeat
            /\ Len(a.tape.data) = Len(b.tape.data)
            /\ Len(a.served) >= Len(a.tape.data) /\ Len(b.served) >= Len(b.tape.data)) =>
              \E i \in DOMAIN a.served \cap DOMAIN b.served : a.served[i] # b.served[i]
=============================================================================
