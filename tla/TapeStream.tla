----------------------------- MODULE TapeStream -----------------------------
(***************************************************************************)
(* What a randomness tape promises: a stack of streams, and the bytes a    *)
(* stream hands out depend on its tape and on how many it has handed out,  *)
(* not on how they were asked for nor on the streams opened meanwhile.     *)
(***************************************************************************)
EXTENDS Integers, Sequences

CONSTANT Tapes      \* records of the data of a tape and whether it repeats

VARIABLE streams    \* the open streams, the innermost last

Usable == {t \in Tapes : t.data # <<>>}

\* The byte at position n (from 0) of the endless stream a tape stands for.
StreamByte(t, n) ==
    IF t.repeat THEN t.data[(n % Len(t.data)) + 1]
    ELSE IF n < Len(t.data) THEN t.data[n + 1] ELSE 0

Top(s) == s[Len(s)]

Open(t) == streams' = Append(streams, [tape |-> t, served |-> <<>>])

Close == streams # <<>> /\ streams' = SubSeq(streams, 1, Len(streams) - 1)

Read ==
    /\ streams # <<>>
    /\ LET s == Top(streams) IN
       streams' = [streams EXCEPT ![Len(streams)] =
                       [tape |-> s.tape,
                        served |-> Append(s.served, StreamByte(s.tape, Len(s.served)))]]

Init == streams = <<>>

Next == (\E t \in Usable : Open(t)) \/ Close \/ Read

Spec == Init /\ [][Next]_streams
=============================================================================
