------------------------- MODULE FindingWriterProofs -------------------------
(***************************************************************************)
(* Proofs about FindingWriter, and about the reports over what it leaves   *)
(* on the disk (FindingReport), for all constants: any number of groups,   *)
(* result directories, inputs, hits and restarts, any flush interval and   *)
(* any combination of failures.                                            *)
(***************************************************************************)
EXTENDS FindingReport, Integers, FiniteSetTheorems, FunctionTheorems, TLAPS

-----------------------------------------------------------------------------
(* Arithmetic of the flush interval. *)

LEMMA ModRange ==
    ASSUME NEW c \in Nat, NEW n \in Nat \ {0}
    PROVE  c % n \in 0 .. n - 1
BY SMT

LEMMA DivMod ==
    ASSUME NEW c \in Nat, NEW n \in Nat \ {0}
    PROVE  c = n * (c \div n) + (c % n) /\ c \div n \in Nat
BY SMT

LEMMA ModOfSum ==
    ASSUME NEW n \in Nat \ {0}, NEW q \in Nat, NEW r \in 0 .. n - 1
    PROVE  (n * q + r) % n = r
BY SMT

\* Between two multiples of the interval the remainder grows with the count.
LEMMA ModStep ==
    ASSUME NEW c \in Nat, NEW n \in Nat \ {0}, (c + 1) % n # 0
    PROVE  (c + 1) % n = (c % n) + 1
<1> DEFINE q == c \div n
           r == c % n
<1>1. q \in Nat /\ r \in 0 .. n - 1 /\ c = n * q + r
  BY DivMod, ModRange
<1> HIDE DEF q, r
<1>2. n * q \in Nat
  BY <1>1
<1>3. CASE r + 1 < n
  <2>1. r + 1 \in 0 .. n - 1
    BY <1>1, <1>3
  <2>2. (n * q + (r + 1)) % n = r + 1
    BY <2>1, <1>1, ModOfSum
  <2>3. c + 1 = n * q + (r + 1)
    BY <1>1, <1>2
  <2> QED
    BY <2>2, <2>3 DEF r
<1>4. CASE r + 1 = n
  <2>1. c + 1 = n * (q + 1) + 0
    BY <1>1, <1>2, <1>4
  <2>2. (n * (q + 1) + 0) % n = 0
    BY <1>1, ModOfSum
  <2> QED
    BY <2>1, <2>2
<1> QED
  BY <1>1, <1>3, <1>4

-----------------------------------------------------------------------------
(* Types, with what the program counter says about the call in progress. *)

ControlOK ==
    /\ pc \in {"mkdir", "file"} => call \in Calls /\ mode = "running"
    /\ pc \in {"tmp", "rename"} =>
         flushing \in Dirs /\ mode \in {"running", "exiting"}
    /\ (pc \in {"tmp", "rename"} /\ mode = "running") =>
         call \in Calls /\ DirOf[call.key] = flushing
    /\ saveMode = "all" => count = [k \in Keys |-> 0]

TypeInv == TypeOK /\ ControlOK

LEMMA TypeInit == Init => TypeInv
<1> SUFFICES ASSUME Init PROVE TypeInv
  OBVIOUS
<1>1. saveMode \in SaveModes /\ registered \in BOOLEAN /\ mode = "running" /\ pc = "idle"
  BY DEF Init
<1>2. call \in Calls \cup {NoCall} /\ pos \in FileNo /\ flushing \in Dirs \cup {NoDir}
  BY DEF Init, FileNo, LastFile
<1>3. /\ count \in [Keys -> Nat] /\ exemplars \in [Keys -> Nat]
      /\ tmpRows \in [Keys -> Nat] /\ rows \in [Keys -> Nat]
      /\ tmp \in [Dirs -> {"none", "full", "torn"}]
  BY DEF Init
<1>4. files \in [Keys \X ArtifactNames -> [FileNo -> Inputs \cup {Absent, Torn}]] /\ made = {}
  BY DEF Init
<1>5. todo \subseteq Dirs /\ torn \subseteq Dirs /\ stuck \subseteq Keys /\ restarts \in Nat
  BY DEF Init
<1>6. saveMode = "all" => count = [k \in Keys |-> 0]
  BY DEF Init
<1> QED
  BY <1>1, <1>2, <1>3, <1>4, <1>5, <1>6 DEF TypeInv, TypeOK, ControlOK

LEMMA PutFileType ==
    ASSUME TypeOK, call \in Calls, NEW c \in Inputs \cup {Absent, Torn}, PutFile(c)
    PROVE  /\ files' \in [Keys \X ArtifactNames -> [FileNo -> Inputs \cup {Absent, Torn}]]
           /\ made' = made
BY DEF TypeOK, Calls, PutFile

LEMMA TypeStep == TypeInv /\ [Next]_vars => TypeInv'
<1> SUFFICES ASSUME TypeInv, [Next]_vars PROVE TypeInv'
  OBVIOUS
<1> USE ConstantsAssumption DEF TypeInv, TypeOK, ControlOK, FileNo, LastFile, Calls,
        ArtifactNames, memory, counter, artifacts
<1>1. ASSUME NEW k \in Keys, NEW i \in Inputs, ReportAll(k, i) PROVE TypeInv'
  BY <1>1 DEF ReportAll, StartExemplar
<1>2. ASSUME NEW k \in Keys, NEW i \in Inputs, ReportGrouped(k, i) PROVE TypeInv'
  BY <1>2 DEF ReportGrouped, StartExemplar, StartFlush, ExitFlushRegistered, ExemplarName
<1>3. CASE MakeArtifactDir
  BY <1>3 DEF MakeArtifactDir
<1>4. CASE MakeArtifactDirFails
  BY <1>4 DEF MakeArtifactDirFails, FailCall, ReturnToCaller
<1>5. CASE WriteNextFile
  <2>1. /\ files' \in [Keys \X ArtifactNames -> [FileNo -> Inputs \cup {Absent, Torn}]]
        /\ made' = made
    BY <1>5, PutFileType DEF WriteNextFile
  <2> QED
    BY <1>5, <2>1 DEF WriteNextFile
<1>6. CASE WriteLastFile
  <2>1. /\ files' \in [Keys \X ArtifactNames -> [FileNo -> Inputs \cup {Absent, Torn}]]
        /\ made' = made
    BY <1>6, PutFileType DEF WriteLastFile
  <2> QED
    BY <1>6, <2>1 DEF WriteLastFile, StartFlush, ReturnToCaller
<1>7. CASE WriteFileFails
  BY <1>7 DEF WriteFileFails, FailCall, ReturnToCaller
<1>8. CASE WriteCounterTmp
  BY <1>8 DEF WriteCounterTmp
<1>9. CASE RenameCounter
  BY <1>9 DEF RenameCounter, ReturnToCaller, KeysOf
<1>10. CASE FlushFails
  BY <1>10 DEF FlushFails, FailCall, ReturnToCaller
<1>11. CASE Exit
  BY <1>11 DEF Exit
<1>12. CASE ExitDone
  BY <1>12 DEF ExitDone
<1>13. ASSUME NEW d \in Dirs, ExitFlush(d) PROVE TypeInv'
  BY <1>13 DEF ExitFlush, StartFlush
<1>14. CASE Crash
  <2>1. /\ files' \in [Keys \X ArtifactNames -> [FileNo -> Inputs \cup {Absent, Torn}]]
        /\ made' = made
    BY <1>14, PutFileType DEF Crash
  <2>2. /\ tmp' \in [Dirs -> {"none", "full", "torn"}]
        /\ tmpRows' \in [Keys -> Nat]
    BY <1>14 DEF Crash
  <2>3. /\ mode' = "crashed" /\ pc' = "idle" /\ call' = NoCall /\ pos' = 1
        /\ flushing' = NoDir /\ todo' = {}
    BY <1>14 DEF Crash, ReturnToCaller
  <2>4. UNCHANGED <<saveMode, registered, count, exemplars, torn, rows, restarts, stuck>>
    BY <1>14 DEF Crash
  <2> QED
    BY <2>1, <2>2, <2>3, <2>4
<1>15. CASE Restart
  <2>1. registered' \in BOOLEAN /\ count' = [k \in Keys |-> 0]
    BY <1>15 DEF Restart
  <2>2. exemplars' \in [Keys -> Nat]
    BY <1>15 DEF Restart
  <2> QED
    BY <1>15, <2>1, <2>2 DEF Restart, ReturnToCaller
<1>16. CASE UNCHANGED vars
  BY <1>16 DEF vars
<1> QED
  BY <1>1, <1>2, <1>3, <1>4, <1>5, <1>6, <1>7, <1>8, <1>9, <1>10, <1>11, <1>12,
     <1>13, <1>14, <1>15, <1>16 DEF Next, CallStep, ExitStep

\* The variables keep their types and a call in progress is what the program
\* counter says, for every choice of constants.
THEOREM TypeCorrect == Spec => []TypeInv
BY TypeInit, TypeStep, PTL DEF Spec

-----------------------------------------------------------------------------
(* The table is a snapshot of the counters. *)

SnapshotInv ==
    /\ (pc = "rename" /\ tmp[flushing] = "full") =>
         \A k \in Keys : DirOf[k] = flushing => tmpRows[k] = count[k]
    /\ pc = "rename" => tmp[flushing] \in {"full", "torn"}
    /\ "short" \notin Faults =>
         torn = {} /\ (pc = "rename" => tmp[flushing] = "full")

TableInv == TypeInv /\ SnapshotInv

LEMMA SnapshotStep == TypeInv /\ SnapshotInv /\ [Next]_vars => SnapshotInv'
<1> SUFFICES ASSUME TypeInv, SnapshotInv, [Next]_vars PROVE SnapshotInv'
  OBVIOUS
<1> USE DEF SnapshotInv, TypeInv, TypeOK, ControlOK, memory, counter, artifacts
<1>1. ASSUME NEW k \in Keys, NEW i \in Inputs, ReportAll(k, i) \/ ReportGrouped(k, i)
      PROVE  SnapshotInv'
  BY <1>1 DEF ReportAll, ReportGrouped, StartExemplar, StartFlush
<1>2. CASE MakeArtifactDir
  BY <1>2 DEF MakeArtifactDir
<1>3. CASE MakeArtifactDirFails \/ WriteFileFails
  BY <1>3 DEF MakeArtifactDirFails, WriteFileFails, FailCall, ReturnToCaller
<1>4. CASE WriteNextFile
  BY <1>4 DEF WriteNextFile
<1>5. CASE WriteLastFile
  BY <1>5 DEF WriteLastFile, StartFlush, ReturnToCaller
<1>6. CASE WriteCounterTmp
  BY <1>6 DEF WriteCounterTmp
<1>7. CASE RenameCounter
  BY <1>7 DEF RenameCounter, ReturnToCaller
<1>8. CASE FlushFails
  BY <1>8 DEF FlushFails, FailCall, ReturnToCaller
<1>9. CASE Exit \/ ExitDone
  BY <1>9 DEF Exit, ExitDone
<1>10. ASSUME NEW d \in Dirs, ExitFlush(d) PROVE SnapshotInv'
  BY <1>10 DEF ExitFlush, StartFlush
<1>11. CASE Crash
  BY <1>11 DEF Crash, ReturnToCaller
<1>12. CASE Restart
  BY <1>12 DEF Restart, ReturnToCaller
<1>13. CASE UNCHANGED vars
  BY <1>13 DEF vars
<1> QED
  BY <1>1, <1>2, <1>3, <1>4, <1>5, <1>6, <1>7, <1>8, <1>9, <1>10, <1>11, <1>12, <1>13
  DEF Next, CallStep, ExitStep

LEMMA TableInvariant == Spec => []TableInv
<1>1. Init => TableInv
  BY TypeInit DEF Init, TableInv, SnapshotInv
<1>2. TableInv /\ [Next]_vars => TableInv'
  BY TypeStep, SnapshotStep DEF TableInv
<1> QED
  BY <1>1, <1>2, PTL DEF Spec

\* WriteTextAtomic: a torn finding_counts.tsv needs a short write; no crash and
\* no failing open or rename produces one, at any step.
THEOREM TableAtomic == Spec => []TableNeverTorn
<1>1. TableInv => TableNeverTorn
  BY DEF TableInv, SnapshotInv, TableNeverTorn
<1> QED
  BY <1>1, TableInvariant, PTL

\* Every step of the writer is a step of FindingCounts or leaves its variables
\* alone, so the tables implement the snapshot promise.
LEMMA CountsStep ==
    ASSUME "short" \notin Faults
    PROVE  TableInv /\ [Next]_vars => [Counts!Next]_<<count, rows>>
<1> SUFFICES ASSUME TableInv, [Next]_vars PROVE [Counts!Next]_<<count, rows>>
  OBVIOUS
<1> USE DEF TableInv, TypeInv, TypeOK, memory, counter, artifacts
<1>1. ASSUME NEW k \in Keys, NEW i \in Inputs, ReportGrouped(k, i)
      PROVE  Counts!Hit(k)
  BY <1>1 DEF ReportGrouped, Counts!Hit
<1>2. CASE RenameCounter
  <2>1. flushing \in Dirs /\ \A k \in Keys : DirOf[k] = flushing => tmpRows[k] = count[k]
    BY <1>2 DEF RenameCounter, SnapshotInv, ControlOK
  <2>2. Counts!Publish(flushing)
    BY <1>2, <2>1 DEF RenameCounter, Counts!Publish
  <2> QED
    BY <2>1, <2>2 DEF Counts!Next
<1>3. CASE Restart
  BY <1>3 DEF Restart, Counts!Next, Counts!TakeOver
<1>4. ASSUME NEW k \in Keys, NEW i \in Inputs, ReportAll(k, i)
      PROVE  UNCHANGED <<count, rows>>
  BY <1>4 DEF ReportAll
<1>5. CASE MakeArtifactDir \/ MakeArtifactDirFails \/ WriteNextFile \/ WriteLastFile
           \/ WriteFileFails \/ WriteCounterTmp \/ FlushFails
  BY <1>5 DEF MakeArtifactDir, MakeArtifactDirFails, WriteNextFile, WriteLastFile,
              WriteFileFails, WriteCounterTmp, FlushFails
<1>6. CASE Exit \/ ExitDone \/ Crash
  BY <1>6 DEF Exit, ExitDone, Crash
<1>7. ASSUME NEW d \in Dirs, ExitFlush(d) PROVE UNCHANGED <<count, rows>>
  BY <1>7 DEF ExitFlush
<1>8. CASE UNCHANGED vars
  BY <1>8 DEF vars
<1> QED
  BY <1>1, <1>2, <1>3, <1>4, <1>5, <1>6, <1>7, <1>8 DEF Next, CallStep, ExitStep, Counts!Next

\* Without short writes the published tables refine FindingCounts.
THEOREM TablesAreSnapshots ==
    ASSUME "short" \notin Faults
    PROVE  Spec => CountsSpec
<1>1. Init => Counts!Init
  BY DEF Init, Counts!Init
<1>2. TableInv /\ [Next]_vars => [Counts!Next]_<<count, rows>>
  BY CountsStep
<1> QED
  BY <1>1, <1>2, TableInvariant, PTL DEF Spec, CountsSpec, Counts!Spec

-----------------------------------------------------------------------------
(* What a crash can take away. *)

\* The published count misses no multiple of the interval.
Lag(k) ==
    /\ rows[k] >= 1 /\ rows[k] <= count[k]
    /\ count[k] - rows[k] <= count[k] % FlushInterval

\* The call in progress still owes the flush of group k.
Owed(k) == pc # "idle" /\ call.key = k /\ FlushDue(k)

LossInv ==
    mode = "running" =>
        \A k \in Keys \ stuck :
            (count[k] > 0 /\ DirOf[k] \notin torn /\ ~Owed(k)) => Lag(k)

LEMMA LossStep == TableInv /\ LossInv /\ [Next]_vars => LossInv'
<1> SUFFICES ASSUME TableInv, LossInv, [Next]_vars, mode' = "running",
                    NEW k \in Keys, k \notin stuck', count'[k] > 0,
                    DirOf[k] \notin torn', ~Owed(k)'
             PROVE  Lag(k)'
  BY DEF LossInv
<1> USE ConstantsAssumption DEF TableInv, TypeInv, TypeOK, ControlOK, memory, counter, artifacts,
    FlushDue
<1>1. ASSUME NEW j \in Keys, NEW i \in Inputs, ReportAll(j, i) PROVE Lag(k)'
  BY <1>1 DEF ReportAll
<1>2. ASSUME NEW j \in Keys, NEW i \in Inputs, ReportGrouped(j, i) PROVE Lag(k)'
  <2>1. /\ mode = "running" /\ pc = "idle" /\ k \notin stuck /\ DirOf[k] \notin torn
        /\ count' = [count EXCEPT ![j] = @ + 1] /\ rows' = rows
    BY <1>2 DEF ReportGrouped
  <2>2. CASE j # k
    <3>1. count'[k] = count[k]
      BY <2>1, <2>2
    <3> QED
      BY <2>1, <3>1 DEF LossInv, Owed, Lag
  <2>3. CASE j = k
    <3>1. count'[k] = count[k] + 1
      BY <2>1, <2>3
    <3>2. ~FlushDue(k)'
      <4>1. SUFFICES ASSUME FlushDue(k)' PROVE pc' # "idle" /\ call'.key = k
        BY DEF Owed
      <4> QED
        BY <1>2, <2>3, <4>1 DEF ReportGrouped, StartExemplar, StartFlush
    <3>3. count[k] > 0 /\ (count[k] + 1) % FlushInterval # 0
      BY <3>1, <3>2
    <3>4. (count[k] + 1) % FlushInterval = (count[k] % FlushInterval) + 1
      BY <3>3, ModStep
    <3>5. Lag(k)
      BY <2>1, <3>3 DEF LossInv, Owed
    <3>6. /\ count[k] \in Nat /\ rows[k] \in Nat /\ FlushInterval \in Nat \ {0}
          /\ count[k] % FlushInterval \in 0 .. FlushInterval - 1
      BY ModRange
    <3> QED
      BY ONLY <2>1, <3>1, <3>4, <3>5, <3>6 DEF Lag
  <2> QED
    BY <2>2, <2>3
<1>3. CASE MakeArtifactDir \/ WriteNextFile
  BY <1>3 DEF MakeArtifactDir, WriteNextFile, LossInv, Owed, Lag
<1>4. CASE MakeArtifactDirFails \/ WriteFileFails
  <2>1. /\ UNCHANGED <<count, rows, torn>> /\ mode = "running" /\ call \in Calls
        /\ pc # "idle" /\ FailCall
    BY <1>4 DEF MakeArtifactDirFails, WriteFileFails
  <2>2. saveMode = "grouped"
    BY <2>1
  <2>3. k \notin stuck /\ ~Owed(k)
    BY <2>1, <2>2 DEF FailCall, Owed
  <2> QED
    BY <2>1, <2>3 DEF LossInv, Lag
<1>5. CASE WriteLastFile
  <2>1. /\ UNCHANGED <<count, rows, torn, stuck>> /\ mode = "running"
        /\ call \in Calls /\ pc # "idle"
    BY <1>5 DEF WriteLastFile
  <2>2. saveMode = "grouped"
    BY <2>1
  <2>3. ~Owed(k)
    BY <1>5, <2>1, <2>2 DEF WriteLastFile, Owed, StartFlush, ReturnToCaller
  <2> QED
    BY <2>1, <2>3 DEF LossInv, Lag
<1>6. CASE WriteCounterTmp
  BY <1>6 DEF WriteCounterTmp, LossInv, Owed, Lag
<1>7. CASE RenameCounter
  <2>1. CASE DirOf[k] = flushing
    <3>1. tmp[flushing] = "full"
      BY <1>7, <2>1 DEF RenameCounter, SnapshotInv
    <3>2. rows'[k] = count[k] /\ count' = count
      BY <1>7, <2>1, <3>1 DEF RenameCounter, SnapshotInv
    <3>3. count[k] % FlushInterval \in Nat
      BY ModRange
    <3> QED
      BY <3>2, <3>3 DEF Lag
  <2>2. CASE DirOf[k] # flushing
    <3>1. /\ rows'[k] = rows[k] /\ count' = count /\ k \notin stuck
          /\ DirOf[k] \notin torn /\ mode = "running" /\ pc = "rename"
      BY <1>7, <2>2 DEF RenameCounter, KeysOf
    <3>2. call.key # k
      BY <2>2, <3>1
    <3>3. ~Owed(k)
      BY <3>2 DEF Owed
    <3> QED
      BY <3>1, <3>3 DEF LossInv, Lag
  <2> QED
    BY <2>1, <2>2
<1>8. CASE FlushFails
  <2>1. /\ UNCHANGED <<count, rows, torn>> /\ mode = "running" /\ call \in Calls
        /\ pc # "idle" /\ FailCall
    BY <1>8 DEF FlushFails
  <2>2. saveMode = "grouped"
    BY <2>1
  <2>3. k \notin stuck /\ ~Owed(k)
    BY <2>1, <2>2 DEF FailCall, Owed
  <2> QED
    BY <2>1, <2>3 DEF LossInv, Lag
<1>9. CASE Exit \/ ExitDone \/ Crash
  BY <1>9 DEF Exit, ExitDone, Crash
<1>10. ASSUME NEW d \in Dirs, ExitFlush(d) PROVE Lag(k)'
  BY <1>10 DEF ExitFlush
<1>11. CASE Restart
  BY <1>11 DEF Restart
<1>12. CASE UNCHANGED vars
  BY <1>12 DEF vars, LossInv, Owed, Lag
<1> QED
  BY <1>1, <1>2, <1>3, <1>4, <1>5, <1>6, <1>7, <1>8, <1>9, <1>10, <1>11, <1>12
  DEF Next, CallStep, ExitStep

\* A crash between two inputs loses fewer than FlushInterval hits of every group
\* that lost no due flush, whatever failed, crashed or was restarted before.
THEOREM BoundedLoss == Spec => []LossBounded
<1>1. Init => LossInv
  BY DEF Init, LossInv
<1>2. TableInv /\ LossInv /\ [Next]_vars => LossInv'
  BY LossStep
<1>3. TableInv /\ LossInv => LossBounded
  <2> SUFFICES ASSUME TableInv, LossInv, mode = "running", pc = "idle",
                      NEW k \in Keys \ stuck, count[k] > 0, DirOf[k] \notin torn
               PROVE  rows[k] >= 1 /\ rows[k] <= count[k]
                        /\ count[k] - rows[k] < FlushInterval
    BY DEF LossBounded
  <2>1. Lag(k)
    BY DEF LossInv, Owed
  <2>2. count[k] \in Nat /\ rows[k] \in Nat /\ FlushInterval \in Nat \ {0}
    BY ConstantsAssumption DEF TableInv, TypeInv, TypeOK
  <2>3. count[k] % FlushInterval \in 0 .. FlushInterval - 1
    BY <2>2, ModRange
  <2> QED
    BY <2>1, <2>2, <2>3 DEF Lag
<1> QED
  BY <1>1, <1>2, <1>3, TableInvariant, PTL DEF Spec

-----------------------------------------------------------------------------
(* What a normal exit publishes. *)

\* A counted group is published, being published or still to do.
Settled(k) ==
    \/ DirOf[k] \in todo
    \/ pc \in {"tmp", "rename"} /\ flushing = DirOf[k]
    \/ rows[k] = count[k]

ExitInv ==
    /\ mode = "running" => \A k \in Keys : count[k] > 0 => registered
    /\ mode = "exiting" => \A k \in Keys : count[k] > 0 => Settled(k)
    /\ mode = "exited" => pc = "idle" /\ \A k \in Keys : count[k] > 0 => rows[k] = count[k]

LEMMA ExitStepKeeps ==
    ASSUME Faults \cap {"counter", "short"} = {}
    PROVE  TableInv /\ ExitInv /\ [Next]_vars => ExitInv'
<1> SUFFICES ASSUME TableInv, ExitInv, [Next]_vars PROVE ExitInv'
  OBVIOUS
<1> USE DEF ExitInv, TableInv, TypeInv, TypeOK, ControlOK, memory, counter, artifacts
<1>1. ASSUME NEW k \in Keys, NEW i \in Inputs, ReportAll(k, i) PROVE ExitInv'
  BY <1>1 DEF ReportAll
<1>2. ASSUME NEW k \in Keys, NEW i \in Inputs, ReportGrouped(k, i) PROVE ExitInv'
  BY <1>2 DEF ReportGrouped, ExitFlushRegistered
<1>3. CASE MakeArtifactDir \/ MakeArtifactDirFails \/ WriteNextFile \/ WriteLastFile \/ WriteFileFails
  BY <1>3 DEF MakeArtifactDir, MakeArtifactDirFails, WriteNextFile, WriteLastFile, WriteFileFails
<1>4. CASE WriteCounterTmp
  BY <1>4 DEF WriteCounterTmp, Settled
<1>5. CASE RenameCounter
  <2>1. /\ mode \in {"running", "exiting"} /\ mode' = mode
        /\ UNCHANGED <<count, registered, todo>>
    BY <1>5 DEF RenameCounter
  <2>2. \A k \in Keys : DirOf[k] = flushing => rows'[k] = count[k]
    BY <1>5 DEF RenameCounter, SnapshotInv
  <2>3. \A k \in Keys : DirOf[k] # flushing => rows'[k] = rows[k]
    BY <1>5 DEF RenameCounter
  <2> QED
    BY <2>1, <2>2, <2>3 DEF Settled
<1>6. CASE FlushFails
  BY <1>6 DEF FlushFails
<1>7. CASE Exit
  <2>1. ASSUME NEW k \in Keys, count[k] > 0 PROVE DirOf[k] \in todo'
    BY <1>7, <2>1 DEF Exit
  <2> QED
    BY <1>7, <2>1 DEF Exit, Settled
<1>8. CASE ExitDone
  BY <1>8 DEF ExitDone, Settled
<1>9. ASSUME NEW d \in Dirs, ExitFlush(d) PROVE ExitInv'
  BY <1>9 DEF ExitFlush, StartFlush, Settled
<1>10. CASE Crash
  BY <1>10 DEF Crash
<1>11. CASE Restart
  BY <1>11 DEF Restart
<1>12. CASE UNCHANGED vars
  BY <1>12 DEF vars, Settled
<1> QED
  BY <1>1, <1>2, <1>3, <1>4, <1>5, <1>6, <1>7, <1>8, <1>9, <1>10, <1>11, <1>12
  DEF Next, CallStep, ExitStep

\* A normal exit publishes the exact counters of every group that was hit,
\* whatever artifact writes failed and whatever crashed before, if counter
\* writes work.
THEOREM ExitPublishes == Spec => []ExitPublishesAll
<1>1. CASE Faults \cap {"counter", "short"} = {}
  <2>1. Init => ExitInv
    BY DEF Init, ExitInv
  <2>2. TableInv /\ ExitInv /\ [Next]_vars => ExitInv'
    BY <1>1, ExitStepKeeps
  <2>3. ExitInv => ExitPublishesAll
    BY DEF ExitInv, ExitPublishesAll
  <2> QED
    BY <2>1, <2>2, <2>3, TableInvariant, PTL DEF Spec
<1>2. CASE Faults \cap {"counter", "short"} # {}
  <2>1. ExitPublishesAll
    BY <1>2 DEF ExitPublishesAll
  <2> QED
    BY <2>1, PTL
<1> QED
  BY <1>1, <1>2

-----------------------------------------------------------------------------
(* The exemplars. *)

\* Writing a file changes that file of the call's directory alone.
LEMMA PutFileAt ==
    ASSUME TypeInv, call \in Calls, NEW c, PutFile(c),
           NEW k \in Keys, NEW n \in ArtifactNames, NEW f \in FileNo
    PROVE  files'[<<k, n>>][f] = IF k = call.key /\ n = call.id /\ f = pos THEN c ELSE files[<<k, n>>][f]
BY DEF TypeInv, TypeOK, Calls, PutFile

\* What a step may do to a file of an exemplar directory: nothing, or it is
\* the next file of the call, which gets the call's input or is cut.
FilesStep ==
    \A k \in Keys, n \in ArtifactNames, f \in FileNo :
        \/ files'[<<k, n>>][f] = files[<<k, n>>][f]
        \/ /\ pc = "file" /\ k = call.key /\ n = call.id /\ f = pos
           /\ \/ files'[<<k, n>>][f] = call.input
              \/ files'[<<k, n>>][f] = Torn /\ ("short" \in Faults \/ mode' = "crashed")

LEMMA FilesStepped == TypeInv /\ [Next]_vars => FilesStep
<1> SUFFICES ASSUME TypeInv, [Next]_vars PROVE FilesStep
  OBVIOUS
<1>1. CASE UNCHANGED files
  BY <1>1 DEF FilesStep
<1>2. ASSUME NEW c, PutFile(c), pc = "file",
             c = call.input \/ (c = Torn /\ ("short" \in Faults \/ mode' = "crashed"))
      PROVE  FilesStep
  <2>1. call \in Calls
    BY <1>2 DEF TypeInv, ControlOK
  <2>2. ASSUME NEW k \in Keys, NEW n \in ArtifactNames, NEW f \in FileNo
        PROVE  files'[<<k, n>>][f] = IF k = call.key /\ n = call.id /\ f = pos THEN c ELSE files[<<k, n>>][f]
    BY <1>2, <2>1, PutFileAt
  <2> QED
    BY <1>2, <2>2 DEF FilesStep
<1>3. CASE WriteNextFile \/ WriteLastFile
  BY <1>2, <1>3 DEF WriteNextFile, WriteLastFile
<1>4. CASE Crash
  BY <1>1, <1>2, <1>4 DEF Crash, artifacts
<1>5. CASE ~(WriteNextFile \/ WriteLastFile \/ Crash)
  <2>1. UNCHANGED files
    BY <1>5 DEF Next, CallStep, ExitStep, vars, artifacts, ReportAll, ReportGrouped,
        MakeArtifactDir, MakeArtifactDirFails, WriteFileFails, WriteCounterTmp, RenameCounter,
        FlushFails, Exit, ExitDone,
          ExitFlush, Restart
  <2> QED
    BY <1>1, <2>1
<1> QED
  BY <1>3, <1>4, <1>5

\* A directory is the first one of its group or named after the call's input.
NamedInv ==
    /\ pc \in {"mkdir", "file"} => call.id \in {Base, call.input}
    /\ NamedExemplarIntact

LEMMA NamedStep == TypeInv /\ NamedInv /\ [Next]_vars => NamedInv'
<1> SUFFICES ASSUME TypeInv, NamedInv, [Next]_vars PROVE NamedInv'
  OBVIOUS
<1>1. NamedExemplarIntact'
  <2>1. ASSUME NEW k \in Keys, NEW i \in Inputs, NEW f \in FileNo
        PROVE  files'[<<k, i>>][f] \in {i, Absent, Torn}
    <3>1. files[<<k, i>>][f] \in {i, Absent, Torn} /\ i \in ArtifactNames /\ i # Base
      BY ConstantsAssumption DEF NamedInv, NamedExemplarIntact, ArtifactNames
    <3> QED
      BY <3>1, FilesStepped DEF FilesStep, NamedInv
  <2> QED
    BY <2>1 DEF NamedExemplarIntact
<1>2. (pc \in {"mkdir", "file"} => call.id \in {Base, call.input})'
  <2> USE DEF NamedInv
  <2>1. CASE pc' \in {"mkdir", "file"} /\ pc = "idle"
    BY <2>1 DEF Next, CallStep, ExitStep, vars, ReportAll, ReportGrouped, MakeArtifactDir,
        MakeArtifactDirFails, WriteNextFile, WriteLastFile, WriteFileFails, WriteCounterTmp,
        RenameCounter, FlushFails, Exit, ExitDone,
          ExitFlush, Crash, Restart, StartExemplar, StartFlush, ExemplarName, ReturnToCaller
  <2>2. CASE pc' \in {"mkdir", "file"} /\ pc # "idle"
    BY <2>2 DEF Next, CallStep, ExitStep, vars, ReportAll, ReportGrouped, MakeArtifactDir,
        MakeArtifactDirFails, WriteNextFile, WriteLastFile, WriteFileFails, WriteCounterTmp,
        RenameCounter, FlushFails, Exit, ExitDone,
          ExitFlush, Crash, Restart, FailCall, StartFlush, ReturnToCaller
  <2> QED
    BY <2>1, <2>2
<1> QED
  BY <1>1, <1>2 DEF NamedInv

\* The first exemplar is written while the group has none; "all" mode counts none.
FirstControl ==
    /\ pc \in {"mkdir", "file"} => (call.id = Base <=> exemplars[call.key] = 0 /\ saveMode = "grouped")
    /\ pc \in {"mkdir", "file"} /\ saveMode = "grouped" => exemplars[call.key] < MaxExemplars
    /\ saveMode = "all" => exemplars = [k \in Keys |-> 0]

LEMMA FirstControlStep == TypeInv /\ FirstControl /\ [Next]_vars => FirstControl'
<1> SUFFICES ASSUME TypeInv, FirstControl, [Next]_vars PROVE FirstControl'
  OBVIOUS
<1> USE ConstantsAssumption DEF TypeInv, TypeOK, ControlOK, FirstControl, Calls, ArtifactNames,
    FileNo, LastFile, memory, counter, artifacts
<1>1. ASSUME NEW k \in Keys, NEW i \in Inputs, ReportAll(k, i) PROVE FirstControl'
  BY <1>1 DEF ReportAll, StartExemplar
<1>2. ASSUME NEW k \in Keys, NEW i \in Inputs, ReportGrouped(k, i) PROVE FirstControl'
  BY <1>2 DEF ReportGrouped, StartExemplar, StartFlush, ExemplarName, ShouldWriteExemplar
<1>3. CASE MakeArtifactDir
  BY <1>3 DEF MakeArtifactDir
<1>4. CASE MakeArtifactDirFails
  BY <1>4 DEF MakeArtifactDirFails, FailCall, ReturnToCaller
<1>5. CASE WriteNextFile
  BY <1>5 DEF WriteNextFile
<1>6. CASE WriteLastFile
  BY <1>6 DEF WriteLastFile, StartFlush, ReturnToCaller
<1>7. CASE WriteFileFails
  BY <1>7 DEF WriteFileFails, FailCall, ReturnToCaller
<1>8. CASE WriteCounterTmp
  BY <1>8 DEF WriteCounterTmp
<1>9. CASE RenameCounter
  BY <1>9 DEF RenameCounter, ReturnToCaller
<1>10. CASE FlushFails
  BY <1>10 DEF FlushFails, FailCall, ReturnToCaller
<1>11. CASE Exit
  BY <1>11 DEF Exit
<1>12. CASE ExitDone
  BY <1>12 DEF ExitDone
<1>13. ASSUME NEW d \in Dirs, ExitFlush(d) PROVE FirstControl'
  BY <1>13 DEF ExitFlush, StartFlush
<1>14. CASE Crash
  BY <1>14 DEF Crash, ReturnToCaller
<1>15. CASE Restart
  BY <1>15 DEF Restart, ReturnToCaller
<1>16. CASE UNCHANGED vars
  BY <1>16 DEF vars
<1> QED
  BY <1>1, <1>2, <1>3, <1>4, <1>5, <1>6, <1>7, <1>8, <1>9, <1>10, <1>11, <1>12, <1>13, <1>14,
      <1>15, <1>16 DEF Next, CallStep, ExitStep

\* The files before the call's next one stem from its input or were cut.
WrittenFiles ==
    pc = "file" =>
        \A f \in FileNo : f < pos =>
            \/ files[<<call.key, call.id>>][f] = call.input
            \/ "short" \in Faults /\ files[<<call.key, call.id>>][f] = Torn

LEMMA WrittenFilesStep == TypeInv /\ WrittenFiles /\ [Next]_vars => WrittenFiles'
<1> SUFFICES ASSUME TypeInv, WrittenFiles, [Next]_vars, pc' = "file"
             PROVE  \A f \in FileNo : f < pos' =>
                        \/ files'[<<call'.key, call'.id>>][f] = call'.input
                        \/ "short" \in Faults /\ files'[<<call'.key, call'.id>>][f] = Torn
  BY DEF WrittenFiles
<1>1. CASE pc # "file"
  <2>1. pos' = 1
    BY <1>1 DEF Next, CallStep, ExitStep, vars, ReportAll, ReportGrouped, MakeArtifactDir,
        MakeArtifactDirFails, WriteNextFile, WriteLastFile, WriteFileFails, WriteCounterTmp,
        RenameCounter, FlushFails, Exit, ExitDone,
          ExitFlush, Crash, Restart, StartExemplar, StartFlush, FailCall, ReturnToCaller
  <2> QED
    BY <2>1 DEF FileNo, LastFile
<1>2. CASE pc = "file"
  <2>1. \/ WriteNextFile
        \/ UNCHANGED <<call, pos, files>>
    BY <1>2 DEF Next, CallStep, ExitStep, vars, ReportAll, ReportGrouped, MakeArtifactDir,
        MakeArtifactDirFails, WriteNextFile, WriteLastFile, WriteFileFails, WriteCounterTmp,
        RenameCounter, FlushFails, Exit, ExitDone,
          ExitFlush, Crash, Restart, StartExemplar, StartFlush, FailCall, ReturnToCaller
  <2>2. CASE UNCHANGED <<call, pos, files>>
    BY <1>2, <2>2 DEF WrittenFiles
  <2>3. CASE WriteNextFile
    <3>1. PICK c : /\ PutFile(c) /\ (c = call.input \/ ("short" \in Faults /\ c = Torn))
                   /\ call \in Calls /\ UNCHANGED call /\ pos \in Nat /\ pos' = pos + 1
      BY <1>2, <2>3 DEF WriteNextFile, TypeInv, TypeOK, ControlOK, FileNo, LastFile
    <3>2. call.key \in Keys /\ call.id \in ArtifactNames
      BY <3>1 DEF Calls
    <3>3. ASSUME NEW f \in FileNo
          PROVE  files'[<<call.key, call.id>>][f] = IF f = pos THEN c ELSE files[<<call.key, call.id>>][f]
      BY <3>1, <3>2, PutFileAt
    <3> QED
      BY <1>2, <3>1, <3>3 DEF WrittenFiles, FileNo
  <2> QED
    BY <2>1, <2>2, <2>3
<1> QED
  BY <1>1, <1>2

LEMMA FirstExemplarStep ==
    TypeInv /\ FirstControl /\ WrittenFiles /\ FirstExemplarIntact /\ [Next]_vars => FirstExemplarIntact'
<1> SUFFICES ASSUME TypeInv, FirstControl, WrittenFiles, FirstExemplarIntact, [Next]_vars,
                    mode' \in {"running", "exiting", "exited"}, "short" \notin Faults,
                    NEW k \in Keys, exemplars'[k] > 0
             PROVE  \E i \in Inputs : \A f \in FileNo : files'[<<k, Base>>][f] = i
  BY DEF FirstExemplarIntact
<1>0. Base \in ArtifactNames
  BY DEF ArtifactNames
<1>1. CASE exemplars[k] > 0
  <2>1. mode \in {"running", "exiting", "exited"}
    BY DEF Next, CallStep, ExitStep, vars, ReportAll, ReportGrouped, MakeArtifactDir,
        MakeArtifactDirFails, WriteNextFile, WriteLastFile, WriteFileFails, WriteCounterTmp,
        RenameCounter, FlushFails, Exit, ExitDone,
          ExitFlush, Crash, Restart, TypeInv, TypeOK
  <2>2. PICK i \in Inputs : \A f \in FileNo : files[<<k, Base>>][f] = i
    BY <1>1, <2>1 DEF FirstExemplarIntact
  <2>3. ASSUME NEW f \in FileNo PROVE files'[<<k, Base>>][f] = files[<<k, Base>>][f]
    <3>1. ~(pc = "file" /\ k = call.key /\ Base = call.id)
      BY <1>1 DEF FirstControl
    <3> QED
      BY <1>0, <3>1, FilesStepped DEF FilesStep
  <2> QED
    BY <2>2, <2>3
<1>2. CASE ~(exemplars[k] > 0)
  <2>1. WriteLastFile /\ k = call.key /\ saveMode = "grouped" /\ exemplars[k] = 0
    BY <1>2 DEF Next, CallStep, ExitStep, vars, memory, ReportAll, ReportGrouped, MakeArtifactDir,
        MakeArtifactDirFails, WriteNextFile, WriteLastFile, WriteFileFails, WriteCounterTmp,
        RenameCounter, FlushFails, Exit, ExitDone,
          ExitFlush, Crash, Restart, TypeInv, TypeOK
  <2>2. call \in Calls /\ PutFile(call.input) /\ pc = "file" /\ pos = LastFile
    BY <2>1 DEF WriteLastFile, TypeInv, ControlOK
  <2>3. call.id = Base
    BY <2>1, <2>2 DEF FirstControl
  <2>4. ASSUME NEW f \in FileNo PROVE files'[<<k, Base>>][f] = call.input
    <3>1. files'[<<k, Base>>][f] = IF f = pos THEN call.input ELSE files[<<k, Base>>][f]
      BY <1>0, <2>1, <2>2, <2>3, PutFileAt
    <3>2. f # pos => f < pos
      BY <2>2 DEF FileNo, LastFile
    <3> QED
      BY <2>1, <2>2, <2>3, <3>1, <3>2 DEF WrittenFiles
  <2> QED
    BY <2>2, <2>4 DEF Calls
<1> QED
  BY <1>1, <1>2

\* A published row, or one on its way to the table, belongs to a group whose
\* first exemplar is complete; so does a counted exemplar, and a group that is
\* hit has one unless it is being written.
Complete(k) == \A f \in FileNo : files[<<k, Base>>][f] # Absent
RowInv ==
    saveMode = "grouped" /\ MaxExemplars > 0 /\ "artifact" \notin Faults =>
        \A k \in Keys :
            /\ rows[k] > 0 \/ tmpRows[k] > 0 \/ exemplars[k] > 0 => Complete(k)
            /\ mode # "crashed" /\ count[k] > 0 =>
                   exemplars[k] > 0 \/ (pc \in {"mkdir", "file"} /\ call.key = k)

LEMMA CompleteStep ==
    ASSUME TypeInv, [Next]_vars, NEW k \in Keys, Complete(k)
    PROVE  Complete(k)'
<1> SUFFICES ASSUME NEW f \in FileNo PROVE files'[<<k, Base>>][f] # Absent
  BY DEF Complete
<1>1. files[<<k, Base>>][f] # Absent /\ Base \in ArtifactNames
  BY DEF Complete, ArtifactNames
<1>2. pc = "file" => call.input # Absent /\ Torn # Absent
  BY ConstantsAssumption DEF TypeInv, ControlOK, Calls
<1> QED
  BY <1>1, <1>2, FilesStepped DEF FilesStep

LEMMA RowStep == TypeInv /\ FirstControl /\ WrittenFiles /\ RowInv /\ [Next]_vars => RowInv'
<1> SUFFICES ASSUME TypeInv, FirstControl, WrittenFiles, RowInv, [Next]_vars,
                    saveMode' = "grouped", MaxExemplars > 0, "artifact" \notin Faults, NEW k \in Keys
             PROVE  /\ rows'[k] > 0 \/ tmpRows'[k] > 0 \/ exemplars'[k] > 0 => Complete(k)'
                    /\ mode' # "crashed" /\ count'[k] > 0 =>
                           exemplars'[k] > 0 \/ (pc' \in {"mkdir", "file"} /\ call'.key = k)
  BY DEF RowInv
<1>1. saveMode = "grouped"
  BY DEF Next, CallStep, ExitStep, vars, memory, artifacts, counter, ReportAll, ReportGrouped,
      MakeArtifactDir, MakeArtifactDirFails, WriteNextFile, WriteLastFile, WriteFileFails,
      WriteCounterTmp,
          RenameCounter, FlushFails, Exit, ExitDone, ExitFlush, Crash, Restart
<1>2. /\ rows[k] > 0 \/ tmpRows[k] > 0 \/ exemplars[k] > 0 => Complete(k)
      /\ mode # "crashed" /\ count[k] > 0 =>
             exemplars[k] > 0 \/ (pc \in {"mkdir", "file"} /\ call.key = k)
  BY <1>1 DEF RowInv
<1>3. rows'[k] > 0 \/ tmpRows'[k] > 0 \/ exemplars'[k] > 0 => Complete(k)'
  <2> SUFFICES ASSUME rows'[k] > 0 \/ tmpRows'[k] > 0 \/ exemplars'[k] > 0
               PROVE  Complete(k)'
    OBVIOUS
  <2>1. CASE rows[k] > 0 \/ tmpRows[k] > 0 \/ exemplars[k] > 0
    BY <1>2, <2>1, CompleteStep
  <2>2. CASE ~(rows[k] > 0 \/ tmpRows[k] > 0 \/ exemplars[k] > 0)
    <3>1. \/ WriteCounterTmp /\ count[k] > 0
          \/ WriteLastFile /\ k = call.key /\ exemplars[k] = 0
      BY <2>2, ConstantsAssumption DEF TypeInv, TypeOK, ControlOK, Next, CallStep, ExitStep, vars,
          memory, artifacts, counter, ReportAll, ReportGrouped, MakeArtifactDir,
          MakeArtifactDirFails, WriteNextFile, WriteLastFile, WriteFileFails, WriteCounterTmp,
          RenameCounter, FlushFails, Exit, ExitDone, ExitFlush, Crash, Restart
    <3>2. CASE WriteCounterTmp /\ count[k] > 0
      <4>1. pc = "tmp" /\ mode # "crashed"
        BY <3>2 DEF WriteCounterTmp, TypeInv, ControlOK
      <4> QED
        BY <1>2, <2>2, <3>2, <4>1
    <3>3. CASE WriteLastFile /\ k = call.key /\ exemplars[k] = 0
      <4>1. call \in Calls /\ pc = "file" /\ pos = LastFile
        BY <3>3 DEF WriteLastFile, TypeInv, ControlOK
      <4>2. PICK c : PutFile(c) /\ (c = call.input \/ c = Torn)
        BY <3>3 DEF WriteLastFile
      <4>3. call.id = Base /\ Base \in ArtifactNames
        BY <1>1, <3>3, <4>1 DEF FirstControl, ArtifactNames
      <4>4. call.input # Absent /\ Torn # Absent
        BY <4>1, ConstantsAssumption DEF Calls
      <4>5. ASSUME NEW f \in FileNo PROVE files'[<<k, Base>>][f] # Absent
        <5>1. files'[<<k, Base>>][f] = IF f = pos THEN c ELSE files[<<k, Base>>][f]
          BY <3>3, <4>1, <4>2, <4>3, PutFileAt
        <5>2. f # pos => f < pos
          BY <4>1 DEF FileNo, LastFile
        <5> QED
          BY <3>3, <4>1, <4>2, <4>3, <4>4, <5>1, <5>2 DEF WrittenFiles
      <4> QED
        BY <4>5 DEF Complete
    <3> QED
      BY <3>1, <3>2, <3>3
  <2> QED
    BY <2>1, <2>2
<1>4. mode' # "crashed" /\ count'[k] > 0 =>
        exemplars'[k] > 0 \/ (pc' \in {"mkdir", "file"} /\ call'.key = k)
  <2> SUFFICES ASSUME mode' # "crashed", count'[k] > 0
               PROVE  exemplars'[k] > 0 \/ (pc' \in {"mkdir", "file"} /\ call'.key = k)
    OBVIOUS
  <2> USE DEF TypeInv, TypeOK, ControlOK
  <2>1. CASE UNCHANGED vars
    BY <1>2, <2>1 DEF vars
  <2>2. ASSUME NEW j \in Keys, NEW i \in Inputs, ReportAll(j, i) \/ ReportGrouped(j, i)
        PROVE  exemplars'[k] > 0 \/ (pc' \in {"mkdir", "file"} /\ call'.key = k)
    BY <1>1, <1>2, <2>2 DEF ReportAll, ReportGrouped, StartExemplar, ShouldWriteExemplar, memory
  <2>3. CASE CallStep
    BY <1>1, <1>2, <2>3 DEF CallStep, MakeArtifactDir, MakeArtifactDirFails, WriteNextFile,
        WriteLastFile, WriteFileFails, WriteCounterTmp, RenameCounter, FlushFails, memory
  <2>4. CASE ExitStep \/ Crash \/ Restart
    BY <1>1, <1>2, <2>4 DEF ExitStep, Exit, ExitDone, ExitFlush, Crash, Restart, memory
  <2> QED
    BY <2>1, <2>2, <2>3, <2>4 DEF Next
<1> QED
  BY <1>3, <1>4

\* The named exemplars of a group that hold a finding.json.  Each process has
\* room for one less than MaxExemplars; what it used of it is its counted
\* exemplars but the first and the one that is being written.
Named(k) == {n \in Inputs : files[<<k, n>>][3] # Absent}
Writing(k) == pc = "file" /\ call.key = k /\ call.id # Base
Used(k) ==
    IF mode = "crashed" THEN MaxExemplars - 1
    ELSE (IF exemplars[k] > 0 THEN exemplars[k] - 1 ELSE 0) + (IF Writing(k) /\ pos > 3 THEN 1 ELSE 0)
RetentionInv ==
    saveMode = "grouped" /\ MaxExemplars > 0 /\ "artifact" \notin Faults =>
        \A k \in Keys :
            /\ exemplars[k] <= MaxExemplars
            /\ IsFiniteSet(Named(k))
            /\ Cardinality(Named(k)) <= (MaxExemplars - 1) * restarts + Used(k)

\* Only writing its finding.json adds a directory, and it uses room up.
LEMMA NamedGrows ==
    ASSUME TypeInv, FirstControl, [Next]_vars, NEW k \in Keys, Named(k)' # Named(k)
    PROVE  /\ Named(k)' = Named(k) \cup {call.id} /\ Writing(k) /\ pos = 3
           /\ WriteNextFile \/ Crash
<1> USE DEF FileNo, LastFile
<1>1. Torn # Absent /\ Inputs \subseteq ArtifactNames /\ Base \notin Inputs
  BY ConstantsAssumption DEF ArtifactNames
<1>2. PICK n \in Inputs : files'[<<k, n>>][3] # files[<<k, n>>][3]
  BY DEF Named
<1>3. /\ pc = "file" /\ k = call.key /\ n = call.id /\ pos = 3
      /\ files'[<<k, n>>][3] \in {call.input, Torn}
  BY <1>1, <1>2, FilesStepped DEF FilesStep
<1>4. call.input # Absent
  BY <1>3, ConstantsAssumption DEF TypeInv, ControlOK, Calls
<1>5. \A m \in Inputs \ {n} : files'[<<k, m>>][3] = files[<<k, m>>][3]
  BY <1>1, <1>3, FilesStepped DEF FilesStep
<1>6. Named(k)' = Named(k) \cup {call.id} /\ Writing(k)
  BY <1>1, <1>2, <1>3, <1>4, <1>5 DEF Named, Writing
<1>7. WriteNextFile \/ Crash
  BY <1>2, <1>3 DEF Next, CallStep, ExitStep, vars, memory, artifacts, counter, ReportAll,
      ReportGrouped, MakeArtifactDir, MakeArtifactDirFails, WriteNextFile, WriteLastFile,
      WriteFileFails, WriteCounterTmp,
          RenameCounter, FlushFails, Exit, ExitDone, ExitFlush, Crash, Restart
<1> QED
  BY <1>3, <1>6, <1>7

\* A step does not free room before the next process starts.
LEMMA UsedStep ==
    ASSUME TypeInv, FirstControl, [Next]_vars, NEW k \in Keys, exemplars[k] <= MaxExemplars,
           saveMode = "grouped", MaxExemplars > 0, "artifact" \notin Faults
    PROVE  /\ exemplars'[k] <= MaxExemplars /\ Used(k) \in Nat /\ Used(k)' \in Nat
           /\ ~Restart => restarts' = restarts /\ Used(k) <= Used(k)'
           /\ Restart => restarts' = restarts + 1 /\ Used(k) <= MaxExemplars - 1
           /\ (WriteNextFile \/ Crash) /\ Writing(k) /\ pos = 3 => Used(k) + 1 <= Used(k)'
<1> USE ConstantsAssumption DEF TypeInv, TypeOK, ControlOK, FirstControl, Calls, Used, Writing,
    FileNo, LastFile,
        memory, counter, artifacts
<1>1. Used(k) \in Nat /\ (exemplars[k] = MaxExemplars => ~Writing(k))
  OBVIOUS
<1>2. CASE Restart
  BY <1>2 DEF Restart, ReturnToCaller, WriteNextFile, Crash
<1>3. CASE WriteNextFile
  BY <1>3 DEF WriteNextFile, Restart
<1>4. CASE Crash
  BY <1>4 DEF Crash, ReturnToCaller, Restart
<1>5. CASE WriteLastFile
  BY <1>5 DEF WriteLastFile, StartFlush, ReturnToCaller, Restart, WriteNextFile, Crash
<1>6. CASE ~(Restart \/ WriteNextFile \/ Crash \/ WriteLastFile)
  <2>1. mode' # "crashed" \/ mode = "crashed"
    BY <1>6 DEF Next, CallStep, ExitStep, vars, ReportAll, ReportGrouped, MakeArtifactDir,
        MakeArtifactDirFails, WriteFileFails, WriteCounterTmp, RenameCounter, FlushFails, Exit,
        ExitDone, ExitFlush
  <2> QED
    BY <1>6 DEF Next, CallStep, ExitStep, vars, ReportAll, ReportGrouped, MakeArtifactDir,
        MakeArtifactDirFails, WriteFileFails, WriteCounterTmp, RenameCounter, FlushFails, Exit,
        ExitDone, ExitFlush, StartExemplar,
          StartFlush, FailCall, ReturnToCaller
<1> QED
  BY <1>2, <1>3, <1>4, <1>5, <1>6

LEMMA RetentionStep == TypeInv /\ FirstControl /\ RetentionInv /\ [Next]_vars => RetentionInv'
<1> SUFFICES ASSUME TypeInv, FirstControl, RetentionInv, [Next]_vars,
                    saveMode' = "grouped", MaxExemplars > 0, "artifact" \notin Faults, NEW k \in Keys
             PROVE  /\ exemplars'[k] <= MaxExemplars
                    /\ IsFiniteSet(Named(k)')
                    /\ Cardinality(Named(k)') <= (MaxExemplars - 1) * restarts' + Used(k)'
  BY DEF RetentionInv
<1>1. saveMode = "grouped"
  BY DEF Next, CallStep, ExitStep, vars, memory, artifacts, counter, ReportAll, ReportGrouped,
      MakeArtifactDir, MakeArtifactDirFails, WriteNextFile, WriteLastFile, WriteFileFails,
      WriteCounterTmp,
          RenameCounter, FlushFails, Exit, ExitDone, ExitFlush, Crash, Restart
<1> DEFINE room == (MaxExemplars - 1) * restarts
           size == Cardinality(Named(k))
<1>2. exemplars[k] <= MaxExemplars /\ IsFiniteSet(Named(k)) /\ size <= room + Used(k)
  BY <1>1 DEF RetentionInv
<1>3. restarts \in Nat /\ MaxExemplars - 1 \in Nat /\ size \in Nat
  BY <1>2, FS_CardinalityType, ConstantsAssumption DEF TypeInv, TypeOK
<1>4. room \in Nat /\ (MaxExemplars - 1) * (restarts + 1) = room + (MaxExemplars - 1)
  BY <1>3
<1>5. /\ exemplars'[k] <= MaxExemplars /\ Used(k) \in Nat /\ Used(k)' \in Nat
      /\ ~Restart => restarts' = restarts /\ Used(k) <= Used(k)'
      /\ Restart => restarts' = restarts + 1 /\ Used(k) <= MaxExemplars - 1
      /\ (WriteNextFile \/ Crash) /\ Writing(k) /\ pos = 3 => Used(k) + 1 <= Used(k)'
  BY <1>1, <1>2, UsedStep
<1>6. (MaxExemplars - 1) * restarts' = IF Restart THEN room + (MaxExemplars - 1) ELSE room
  BY <1>4, <1>5
<1> HIDE DEF room, size
<1>7. CASE Named(k)' = Named(k)
  <2>1. IsFiniteSet(Named(k)') /\ Cardinality(Named(k)') = size
    BY <1>2, <1>7 DEF size
  <2>2. room + Used(k) <= (IF Restart THEN room + (MaxExemplars - 1) ELSE room) + Used(k)'
    BY <1>3, <1>4, <1>5
  <2> QED
    BY <1>2, <1>3, <1>4, <1>5, <1>6, <2>1, <2>2
<1>8. CASE Named(k)' # Named(k)
  <2>1. /\ Named(k)' = Named(k) \cup {call.id} /\ Used(k) + 1 <= Used(k)'
        /\ WriteNextFile \/ Crash
    BY <1>5, <1>8, NamedGrows
  <2>2. ~Restart
    BY <2>1 DEF WriteNextFile, Crash, Restart, TypeInv, TypeOK
  <2>3. IsFiniteSet(Named(k)') /\ Cardinality(Named(k)') <= size + 1 /\ Cardinality(Named(k)') \in Nat
    <3>1. /\ IsFiniteSet(Named(k) \cup {call.id})
          /\ Cardinality(Named(k) \cup {call.id}) = IF call.id \in Named(k) THEN size ELSE size + 1
      BY <1>2, FS_AddElement DEF size
    <3> QED
      BY <1>3, <2>1, <3>1
  <2> QED
    BY <1>2, <1>3, <1>4, <1>5, <1>6, <2>1, <2>2, <2>3
<1> QED
  BY <1>7, <1>8

LEMMA RetentionBounds == TypeInv /\ FirstControl /\ RetentionInv => ExemplarsBounded
<1> SUFFICES ASSUME TypeInv, FirstControl, RetentionInv,
                    saveMode = "grouped", MaxExemplars > 0, "artifact" \notin Faults, NEW k \in Keys
             PROVE  Cardinality({n \in ArtifactNames : files[<<k, n>>][3] # Absent})
                       <= 1 + (MaxExemplars - 1) * (restarts + 1)
  BY DEF ExemplarsBounded
<1> DEFINE held == {n \in ArtifactNames : files[<<k, n>>][3] # Absent}
           room == (MaxExemplars - 1) * restarts
           size == Cardinality(Named(k))
<1>1. exemplars[k] <= MaxExemplars /\ IsFiniteSet(Named(k)) /\ size <= room + Used(k)
  BY DEF RetentionInv
<1>2. Used(k) \in Nat /\ Used(k) <= MaxExemplars - 1
  <2>1. Writing(k) => exemplars[k] # 0 /\ exemplars[k] < MaxExemplars
    BY DEF FirstControl, Writing, TypeInv, ControlOK
  <2>2. exemplars[k] \in Nat /\ MaxExemplars \in Nat
    BY ConstantsAssumption DEF TypeInv, TypeOK
  <2> QED
    BY <1>1, <2>1, <2>2 DEF Used
<1>3. restarts \in Nat /\ MaxExemplars - 1 \in Nat /\ size \in Nat
  BY <1>1, FS_CardinalityType, ConstantsAssumption DEF TypeInv, TypeOK
<1>4. room \in Nat /\ (MaxExemplars - 1) * (restarts + 1) = room + (MaxExemplars - 1)
  BY <1>3
<1>5. /\ IsFiniteSet(Named(k) \cup {Base}) /\ Cardinality(Named(k) \cup {Base}) \in Nat
      /\ Cardinality(Named(k) \cup {Base}) <= size + 1
  <2>1. /\ IsFiniteSet(Named(k) \cup {Base})
        /\ Cardinality(Named(k) \cup {Base}) = IF Base \in Named(k) THEN size ELSE size + 1
    BY <1>1, FS_AddElement
  <2> QED
    BY <1>3, <2>1
<1>6. held \in SUBSET (Named(k) \cup {Base})
  BY DEF Named, ArtifactNames
<1>7. Cardinality(held) <= Cardinality(Named(k) \cup {Base}) /\ Cardinality(held) \in Nat
  BY <1>5, <1>6, FS_Subset, FS_CardinalityType
<1> HIDE DEF held, room, size
<1>8. Cardinality(held) <= 1 + (room + (MaxExemplars - 1))
  BY <1>1, <1>2, <1>3, <1>4, <1>5, <1>7
<1>9. Cardinality(held) <= 1 + (MaxExemplars - 1) * (restarts + 1)
  BY <1>4, <1>8
<1> QED
  BY <1>9 DEF held

-----------------------------------------------------------------------------
(* The exemplar properties hold of the specification. *)

ExemplarInv == NamedInv /\ FirstControl /\ WrittenFiles /\ FirstExemplarIntact /\ RowInv /\ RetentionInv

LEMMA ExemplarInit == Init => ExemplarInv
<1> SUFFICES ASSUME Init PROVE ExemplarInv
  OBVIOUS
<1>1. /\ pc = "idle" /\ exemplars = [k \in Keys |-> 0] /\ count = [k \in Keys |-> 0]
      /\ rows = [k \in Keys |-> 0] /\ tmpRows = [k \in Keys |-> 0]
      /\ restarts = 0 /\ mode = "running"
  BY DEF Init
<1>2. \A k \in Keys, n \in ArtifactNames, f \in FileNo : files[<<k, n>>][f] = Absent
  BY DEF Init
<1>3. NamedInv
  BY <1>1, <1>2 DEF NamedInv, NamedExemplarIntact, ArtifactNames
<1>4. FirstControl /\ WrittenFiles /\ FirstExemplarIntact /\ RowInv
  BY <1>1 DEF FirstControl, WrittenFiles, FirstExemplarIntact, RowInv
<1>5. RetentionInv
  <2> SUFFICES ASSUME MaxExemplars > 0, NEW k \in Keys
               PROVE  /\ exemplars[k] <= MaxExemplars
                      /\ IsFiniteSet(Named(k))
                      /\ Cardinality(Named(k)) <= (MaxExemplars - 1) * restarts + Used(k)
    BY DEF RetentionInv
  <2>1. Named(k) = {}
    BY <1>2 DEF Named, ArtifactNames, FileNo, LastFile
  <2>2. IsFiniteSet(Named(k)) /\ Cardinality(Named(k)) = 0
    BY <2>1, FS_EmptySet
  <2>3. MaxExemplars \in Nat /\ exemplars[k] = 0
    BY <1>1, ConstantsAssumption
  <2>4. Used(k) = 0
    BY <1>1, <2>3 DEF Used, Writing
  <2>5. (MaxExemplars - 1) * restarts = 0
    BY <1>1, <2>3
  <2> QED
    BY <2>2, <2>3, <2>4, <2>5
<1> QED
  BY <1>3, <1>4, <1>5 DEF ExemplarInv

LEMMA ExemplarInvariant == Spec => [](TypeInv /\ ExemplarInv)
<1>1. TypeInv /\ ExemplarInv /\ [Next]_vars => ExemplarInv'
  BY NamedStep, FirstControlStep, WrittenFilesStep, FirstExemplarStep, RowStep, RetentionStep DEF
      ExemplarInv
<1>2. TypeInv /\ [Next]_vars => TypeInv'
  BY TypeStep
<1> QED
  BY <1>1, <1>2, TypeInit, ExemplarInit, PTL DEF Spec

\* A suffixed exemplar holds files of the input its name stands for and of no
\* other, also when a later process writes into it again.
THEOREM NamedExemplar == Spec => []NamedExemplarIntact
<1>1. ExemplarInv => NamedExemplarIntact
  BY DEF ExemplarInv, NamedInv
<1> QED
  BY <1>1, ExemplarInvariant, PTL

\* Without short writes the first exemplar of a group that counts one is made
\* of one input's files, whatever is reported after it.
THEOREM FirstExemplar == Spec => []FirstExemplarIntact
<1>1. ExemplarInv => FirstExemplarIntact
  BY DEF ExemplarInv
<1> QED
  BY <1>1, ExemplarInvariant, PTL

\* If artifact directories can be written, a published row leads to a complete
\* first exemplar: through crashes, failed flushes and later processes.
THEOREM RowEvidence == Spec => []RowHasExemplar
<1>1. TypeInv /\ ExemplarInv => RowHasExemplar
  BY DEF ExemplarInv, RowInv, RowHasExemplar, Complete
<1> QED
  BY <1>1, ExemplarInvariant, PTL

\* The retention bound: each process adds at most MaxExemplars directories
\* with a finding.json to a group, and all share the first one.
THEOREM ExemplarsRetained == Spec => []ExemplarsBounded
<1>1. TypeInv /\ ExemplarInv => ExemplarsBounded
  BY RetentionBounds DEF ExemplarInv
<1> QED
  BY <1>1, ExemplarInvariant, PTL

-----------------------------------------------------------------------------
(* What the fast report says after a normal exit, and what a crash may     *)
(* hide from it.                                                           *)

\* In the first process nothing is on disk, or on its way to it, of a group
\* that was not hit.
FirstProcessInv ==
    (restarts = 0 /\ saveMode = "grouped") =>
        /\ \A k \in Keys : rows[k] > 0 => count[k] > 0
        /\ \A k \in Keys : tmpRows[k] > 0 => count[k] > 0
        /\ \A k \in Keys : \A n \in ArtifactNames : <<k, n>> \in made => count[k] > 0
        /\ pc \in {"mkdir", "file"} => count[call.key] > 0

LEMMA FirstProcessStep ==
    TypeInv /\ FirstProcessInv /\ [Next]_vars => FirstProcessInv'
<1> SUFFICES ASSUME TypeInv, FirstProcessInv, [Next]_vars, restarts' = 0, saveMode' = "grouped"
             PROVE  FirstProcessInv'
  BY DEF FirstProcessInv
<1> USE DEF FirstProcessInv, TypeInv, TypeOK, ControlOK, memory, counter, artifacts
<1>1. ASSUME NEW k \in Keys, NEW i \in Inputs, ReportAll(k, i) PROVE FirstProcessInv'
  BY <1>1 DEF ReportAll
<1>2. ASSUME NEW k \in Keys, NEW i \in Inputs, ReportGrouped(k, i) PROVE FirstProcessInv'
  <2>1. count' = [count EXCEPT ![k] = @ + 1] /\ UNCHANGED <<rows, tmpRows, made, restarts, saveMode>>
    BY <1>2 DEF ReportGrouped
  <2>2. \A j \in Keys : count[j] > 0 => count'[j] > 0
    BY <2>1
  <2>3. count'[k] > 0
    BY <2>1
  <2>4. pc' \in {"mkdir", "file"} => call'.key = k
    BY <1>2 DEF ReportGrouped, StartExemplar, StartFlush
  <2> QED
    BY <2>1, <2>2, <2>3, <2>4
<1>3. CASE MakeArtifactDir \/ MakeArtifactDirFails
  <2>1. /\ made' \subseteq made \cup {<<call.key, call.id>>} /\ pc = "mkdir"
        /\ UNCHANGED <<count, rows, tmpRows, restarts, saveMode>>
        /\ pc' \in {"mkdir", "file"} => call' = call
    BY <1>3 DEF MakeArtifactDir, MakeArtifactDirFails, FailCall, ReturnToCaller
  <2> QED
    BY <2>1
<1>4. CASE WriteNextFile \/ WriteLastFile \/ WriteFileFails
  BY <1>4 DEF WriteNextFile, WriteLastFile, WriteFileFails, PutFile, FailCall, ReturnToCaller,
              StartFlush
<1>5. CASE WriteCounterTmp
  BY <1>5 DEF WriteCounterTmp
<1>6. CASE RenameCounter \/ FlushFails
  BY <1>6 DEF RenameCounter, FlushFails, FailCall, ReturnToCaller
<1>7. CASE Exit \/ ExitDone
  BY <1>7 DEF Exit, ExitDone
<1>8. ASSUME NEW d \in Dirs, ExitFlush(d) PROVE FirstProcessInv'
  BY <1>8 DEF ExitFlush, StartFlush
<1>9. CASE Crash
  <2>1. /\ made' = made /\ pc' = "idle" /\ UNCHANGED <<count, rows, restarts, saveMode>>
        /\ \A k \in Keys : tmpRows'[k] \in {0, tmpRows[k]}
    BY <1>9 DEF Crash, ReturnToCaller, PutFile
  <2> QED
    BY <2>1
<1>10. CASE Restart
  BY <1>10 DEF Restart
<1>11. CASE UNCHANGED vars
  BY <1>11 DEF vars
<1> QED
  BY <1>1, <1>2, <1>3, <1>4, <1>5, <1>6, <1>7, <1>8, <1>9, <1>10, <1>11
  DEF Next, CallStep, ExitStep

\* After a normal exit of the first process the fast report has every group
\* with its exact hits, if counter writes work: tables are exact, and where
\* there is none nothing was hit and no directory made.
THEOREM FastReport == Spec => []FastReportExact
<1>1. Init => FirstProcessInv
  BY DEF Init, FirstProcessInv
<1>2. TypeInv /\ FirstProcessInv /\ [Next]_vars => FirstProcessInv'
  BY FirstProcessStep
<1>3. TableInv /\ FirstProcessInv /\ ExitPublishesAll => FastReportExact
  <2> SUFFICES ASSUME TableInv, FirstProcessInv, ExitPublishesAll, mode = "exited",
                      saveMode = "grouped", restarts = 0,
                      Faults \cap {"counter", "short"} = {}, NEW k \in Keys
               PROVE  FastCount(k) = count[k]
    BY DEF FastReportExact
  <2> USE DEF TableInv, TypeInv, TypeOK
  <2>1. rows[k] = count[k]
    BY DEF FirstProcessInv, ExitPublishesAll
  <2>2. CASE DirOf[k] \in CounterFiles
    BY <2>1, <2>2 DEF FastCount
  <2>3. CASE DirOf[k] \notin CounterFiles
    <3>1. count[k] = 0
      BY <2>1, <2>3, ConstantsAssumption DEF CounterFiles, KeysOf, ConstantsAssumption
    <3>2. ArtifactDirs(k) = {}
      BY <3>1 DEF FirstProcessInv, ArtifactDirs
    <3> QED
      BY <2>3, <3>1, <3>2, FS_EmptySet DEF FastCount
  <2> QED
    BY <2>2, <2>3
<1> QED
  BY <1>1, <1>2, <1>3, TypeCorrect, TableInvariant, ExitPublishes, PTL DEF Spec

-----------------------------------------------------------------------------
(* What a crash can hide. *)

\* Call in progress that owes group k its flush.
Reported(k) == call # NoCall /\ call.key = k /\ FlushDue(k)

\* In the first process a counted group is in the table unless its call owes
\* the flush or lost it.  "all" mode has no table.
HiddenInv ==
    /\ pc = "idle" \/ mode # "running" => call = NoCall
    /\ saveMode = "all" => \A k \in Keys : rows[k] = 0
    /\ (restarts = 0 /\ mode # "crashed") =>
           \A k \in Keys \ stuck : count[k] > 0 /\ ~Reported(k) => rows[k] > 0

LEMMA HiddenStep ==
    ASSUME "short" \notin Faults
    PROVE  TableInv /\ HiddenInv /\ [Next]_vars => HiddenInv'
<1> SUFFICES ASSUME TableInv, HiddenInv, [Next]_vars PROVE HiddenInv'
  OBVIOUS
<1> USE ConstantsAssumption DEF HiddenInv, TableInv, TypeInv, TypeOK, ControlOK, memory, counter, artifacts
<1>1. ASSUME NEW k \in Keys, NEW i \in Inputs, ReportAll(k, i) PROVE HiddenInv'
  BY <1>1 DEF ReportAll, StartExemplar
<1>2. ASSUME NEW k \in Keys, NEW i \in Inputs, ReportGrouped(k, i) PROVE HiddenInv'
  <2>1. /\ count' = [count EXCEPT ![k] = @ + 1] /\ pc = "idle" /\ mode = "running"
        /\ UNCHANGED <<rows, restarts, saveMode, stuck, mode>> /\ saveMode = "grouped"
    BY <1>2 DEF ReportGrouped
  <2>2. \/ call' = call /\ pc' = "idle" /\ ~FlushDue(k)'
        \/ call' # NoCall /\ call'.key = k /\ pc' # "idle"
    BY <1>2 DEF ReportGrouped, StartExemplar, StartFlush, ExemplarName, ArtifactNames
  <2>3. call = NoCall
    BY <2>1
  <2>4. ASSUME NEW j \in Keys \ stuck, restarts = 0, count'[j] > 0, ~Reported(j)' PROVE rows'[j] > 0
    <3>1. ~Reported(j)
      BY <2>3 DEF Reported
    <3>2. count[j] > 0
      BY <2>1, <2>2, <2>4 DEF Reported, FlushDue
    <3> QED
      BY <2>1, <2>4, <3>1, <3>2
  <2> QED
    BY <2>1, <2>2, <2>3, <2>4
<1>3. CASE MakeArtifactDir \/ WriteNextFile
  BY <1>3 DEF MakeArtifactDir, WriteNextFile, Reported, FlushDue
<1>4. CASE MakeArtifactDirFails \/ WriteFileFails
  BY <1>4 DEF MakeArtifactDirFails, WriteFileFails, FailCall, ReturnToCaller, Reported, FlushDue
<1>5. CASE WriteLastFile
  BY <1>5 DEF WriteLastFile, StartFlush, ReturnToCaller, Reported, FlushDue
<1>6. CASE WriteCounterTmp
  BY <1>6 DEF WriteCounterTmp, Reported, FlushDue
<1>7. CASE RenameCounter
  <2>1. /\ pc = "rename" /\ call' = NoCall /\ pc' = "idle"
        /\ rows' = [k \in Keys |-> IF DirOf[k] = flushing THEN tmpRows[k] ELSE rows[k]]
        /\ stuck' = stuck \ KeysOf(flushing)
        /\ UNCHANGED <<count, restarts, saveMode, mode>>
    BY <1>7 DEF RenameCounter, ReturnToCaller
  <2>2. \A k \in Keys : DirOf[k] = flushing => tmpRows[k] = count[k]
    BY <2>1 DEF SnapshotInv
  <2>3. \A k \in Keys : DirOf[k] # flushing => ~Reported(k)
    BY <2>1 DEF Reported
  <2>4. ASSUME NEW k \in Keys \ stuck', restarts = 0, mode # "crashed", count[k] > 0 PROVE rows'[k] > 0
    BY <2>1, <2>2, <2>3, <2>4 DEF KeysOf
  <2> QED
    BY <2>1, <2>2, <2>4
<1>8. CASE FlushFails
  BY <1>8 DEF FlushFails, FailCall, ReturnToCaller, Reported, FlushDue
<1>9. CASE Exit \/ ExitDone
  BY <1>9 DEF Exit, ExitDone, Reported, FlushDue
<1>10. ASSUME NEW d \in Dirs, ExitFlush(d) PROVE HiddenInv'
  BY <1>10 DEF ExitFlush, StartFlush, Reported, FlushDue
<1>11. CASE Crash
  BY <1>11 DEF Crash, ReturnToCaller
<1>12. CASE Restart
  BY <1>12 DEF Restart, ReturnToCaller
<1>13. CASE UNCHANGED vars
  BY <1>13 DEF vars, Reported, FlushDue
<1> QED
  BY <1>1, <1>2, <1>3, <1>4, <1>5, <1>6, <1>7, <1>8, <1>9, <1>10, <1>11, <1>12, <1>13
  DEF Next, CallStep, ExitStep

\* A process creates one directory after the other.
FiniteMade == IsFiniteSet(made)

LEMMA FiniteStep == FiniteMade /\ [Next]_vars => FiniteMade'
<1> SUFFICES ASSUME IsFiniteSet(made), [Next]_vars PROVE IsFiniteSet(made')
  BY DEF FiniteMade
<1>1. made' \in {made, made \cup {<<call.key, call.id>>}}
  BY DEF Next, CallStep, ExitStep, vars, artifacts, ReportAll, ReportGrouped, MakeArtifactDir,
         MakeArtifactDirFails, WriteNextFile, WriteLastFile, WriteFileFails, WriteCounterTmp,
         RenameCounter, FlushFails, Exit, ExitDone, ExitFlush, Crash, Restart, PutFile
<1>2. IsFiniteSet(made \cup {<<call.key, call.id>>})
  BY FS_AddElement
<1> QED
  BY <1>1, <1>2

LEMMA ArtifactDirsFinite ==
    ASSUME TypeInv, IsFiniteSet(made), NEW k \in Keys
    PROVE  IsFiniteSet(ArtifactDirs(k))
<1> DEFINE own == {d \in made : d[1] = k}
           name == [d \in own |-> d[2]]
<1>1. IsFiniteSet(own)
  BY FS_Subset
<1>2. name \in [own -> ArtifactDirs(k)]
  BY DEF ArtifactDirs, TypeInv, TypeOK
<1>3. \A n \in ArtifactDirs(k) : \E d \in own : name[d] = n
  <2>1. ASSUME NEW n \in ArtifactDirs(k) PROVE <<k, n>> \in own /\ name[<<k, n>>] = n
    BY DEF ArtifactDirs
  <2> QED
    BY <2>1
<1>4. name \in Surjection(own, ArtifactDirs(k))
  BY <1>2, <1>3, Fun_IsSurj
<1> QED
  BY <1>1, <1>4, FS_Surjection

\* In the first process, at every step, the fast report misses no group with a
\* finding.json but the one being reported and those that lost a due flush.
THEOREM CrashHides == Spec => []CrashHidesOnlyTheCall
<1>1. CASE "short" \notin Faults
  <2>1. Init => HiddenInv /\ FirstProcessInv /\ FiniteMade
    BY FS_EmptySet DEF Init, HiddenInv, FirstProcessInv, FiniteMade
  <2>2. TableInv /\ HiddenInv /\ [Next]_vars => HiddenInv'
    BY <1>1, HiddenStep
  <2>3. TypeInv /\ FirstProcessInv /\ [Next]_vars => FirstProcessInv'
    BY FirstProcessStep
  <2>4. TableInv /\ HiddenInv /\ FirstProcessInv /\ FiniteMade => CrashHidesOnlyTheCall
    <3> SUFFICES ASSUME TableInv, HiddenInv, FirstProcessInv, IsFiniteSet(made),
                        restarts = 0, mode # "crashed", NEW k \in Keys \ stuck,
                        FullCount(k) > 0, FastCount(k) = 0
                 PROVE  call # NoCall /\ call.key = k
      BY <1>1 DEF CrashHidesOnlyTheCall, FiniteMade
    <3>1. ArtifactDirs(k) # {}
      <4>1. FindingFiles(k) # {}
        BY FS_EmptySet DEF FullCount
      <4> QED
        BY <4>1 DEF FindingFiles
    <3>2. Cardinality(ArtifactDirs(k)) # 0
      BY <3>1, ArtifactDirsFinite, FS_EmptySet DEF TableInv
    <3>3. DirOf[k] \in CounterFiles /\ rows[k] = 0
      BY <3>2 DEF FastCount
    <3>4. saveMode = "grouped"
      <4>1. PICK j \in Keys : rows[j] > 0
        BY <1>1, <3>3 DEF CounterFiles, KeysOf, TableInv, SnapshotInv
      <4>2. saveMode \in {"grouped", "all"}
        BY ConstantsAssumption DEF TableInv, TypeInv, TypeOK
      <4> QED
        BY <4>1, <4>2 DEF HiddenInv
    <3>5. count[k] > 0
      BY <3>1, <3>4 DEF FirstProcessInv, ArtifactDirs
    <3> QED
      BY <3>3, <3>5 DEF HiddenInv, Reported
  <2> QED
    BY <2>1, <2>2, <2>3, <2>4, TypeCorrect, TableInvariant, FiniteStep, PTL DEF Spec
<1>2. CASE "short" \in Faults
  <2>1. CrashHidesOnlyTheCall
    BY <1>2 DEF CrashHidesOnlyTheCall
  <2> QED
    BY <2>1, PTL
<1> QED
  BY <1>1, <1>2
=============================================================================
