---------------------------- MODULE FindingCounts ----------------------------
(***************************************************************************)
(* What finding_counts.tsv promises its reader (the report generator):     *)
(* whenever the table of a result directory changes, it becomes an exact   *)
(* copy of the hit counters that one process holds at that moment for all  *)
(* groups of that directory.  A reader never sees a mixture of an old and  *)
(* a new table, a count that never was, or a group missing that the same   *)
(* process had already counted.                                            *)
(***************************************************************************)
EXTENDS Naturals

CONSTANTS Keys, Dirs, DirOf

VARIABLES hits, published

Init ==
    /\ hits = [k \in Keys |-> 0]
    /\ published = [k \in Keys |-> 0]

\* A finding of group k is reported.
Hit(k) ==
    /\ hits' = [hits EXCEPT ![k] = @ + 1]
    /\ UNCHANGED published

\* The table of result directory d is replaced.
Publish(d) ==
    /\ published' = [k \in Keys |-> IF DirOf[k] = d THEN hits[k] ELSE published[k]]
    /\ UNCHANGED hits

\* A new process takes over with empty counters.
TakeOver ==
    /\ hits' = [k \in Keys |-> 0]
    /\ UNCHANGED published

Next == (\E k \in Keys : Hit(k)) \/ (\E d \in Dirs : Publish(d)) \/ TakeOver

Spec == Init /\ [][Next]_<<hits, published>>
=============================================================================
