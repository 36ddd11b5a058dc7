------------------------ MODULE DlqRetryWorkerProofs ------------------------
(***************************************************************************)
(* The DLQ retry worker for any number of workers, whose runs may overlap, *)
(* and of rows: no row is lost, runs are reported truly, and what goes     *)
(* wrong between overlapping runs is confined to the rows they share.      *)
(***************************************************************************)
EXTENDS DlqRetryWorker, FiniteSetTheorems, TLAPS

(***************************************************************************)
(* A batch without a row, with one more row, or of rows just read, is one. *)
(***************************************************************************)
LEMMA BatchOps ==
  /\ Nothing \in Batches
  /\ \A f \in Batches, i \in Items : Without(f, i) \in Batches
  /\ \A f \in Batches, i \in Items, n \in Attempts : With(f, i, n) \in Batches
  /\ \A f \in Batches : DOMAIN f \subseteq Items /\ \A i \in DOMAIN f : f[i] \in Attempts
<1>1. ASSUME NEW f \in Batches
      PROVE  /\ f = [i \in DOMAIN f |-> f[i]]
             /\ DOMAIN f \subseteq Items
             /\ \A i \in DOMAIN f : f[i] \in Attempts
  BY DEF Batches
<1>2. Nothing \in Batches
  <2>1. Nothing \in [{} -> Attempts]
    BY DEF Nothing
  <2> QED
    BY <2>1 DEF Batches
<1>3. ASSUME NEW f \in Batches, NEW i \in Items PROVE Without(f, i) \in Batches
  <2>1. Without(f, i) \in [DOMAIN f \ {i} -> Attempts]
    BY <1>1 DEF Without, Restrict
  <2> QED
    BY <1>1, <2>1 DEF Batches
<1>4. ASSUME NEW f \in Batches, NEW i \in Items, NEW n \in Attempts
      PROVE  With(f, i, n) \in Batches
  <2>1. With(f, i, n) \in [DOMAIN f \cup {i} -> Attempts]
    BY <1>1 DEF With
  <2>2. DOMAIN f \cup {i} \in SUBSET Items
    BY <1>1
  <2> QED
    BY <2>1, <2>2 DEF Batches
<1> QED
  BY <1>1, <1>2, <1>3, <1>4

LEMMA BumpTyped == \A n \in Attempts : Bump(n) \in Attempts /\ n <= Bump(n)
BY DlqAssumption DEF Attempts, Bump

LEMMA TypeStep == TypeOK /\ [Next]_vars => TypeOK'
<1> SUFFICES ASSUME TypeOK, [Next]_vars PROVE TypeOK'
  OBVIOUS
<1> USE DEF TypeOK, Goto, rows, work, report
<1>1. CASE Enqueue
  <2>1. 0 \in Attempts
    BY DlqAssumption DEF Attempts
  <2>2. arrived + 1 \in 0..NumItems
    BY <1>1, DlqAssumption DEF Enqueue
  <2> QED
    BY <1>1, <2>1, <2>2 DEF Enqueue
<1>2. ASSUME NEW w \in Workers, Begin(w) PROVE TypeOK'
  <2> DEFINE batch == Oldest(Present, BatchSize)
  <2>1. batch \in SUBSET Items /\ batch \subseteq Present
    BY DEF Oldest, Present
  <2>2. [i \in batch |-> dlq[i]] \in Batches
    <3>1. [i \in batch |-> dlq[i]] \in [batch -> Attempts]
      BY <2>1 DEF Present
    <3> QED
      BY <2>1, <3>1 DEF Batches
  <2>3. /\ pc[w] = "idle"
        /\ todo' = [todo EXCEPT ![w] = [i \in batch |-> dlq[i]]]
        /\ pc' = [pc EXCEPT ![w] = "items"]
        /\ UNCHANGED <<arrived, dlq, resolved, written, deleted, counted, credited, troubles>>
    BY <1>2 DEF Begin, batch
  <2>4. shared' \in [Workers -> SUBSET Items]
    BY <1>2, <2>1 DEF Begin, batch
  <2> HIDE DEF batch
  <2>5. todo' \in [Workers -> Batches]
    BY <2>2, <2>3
  <2>6. \A q \in Workers : pc'[q] # "items" => pc[q] # "items" /\ q # w
    BY <2>3
  <2>7. \A q \in Workers : q # w => todo'[q] = todo[q] /\ shared'[q] = shared[q] \cup (batch \cap Batch(q))
    BY <1>2, <2>3 DEF Begin, batch
  <2>8. \A q \in Workers : pc[q] # "items" => Batch(q) = {}
    BY DEF Batch, Nothing
  <2>9. \A q \in Workers : pc'[q] # "items" =>
          todo'[q] = Nothing /\ written'[q] = Nothing /\ deleted'[q] = {} /\ shared'[q] = {}
    BY <2>3, <2>6, <2>7, <2>8
  <2> QED
    BY <2>3, <2>4, <2>5, <2>9
<1>5. ASSUME NEW w \in Workers, NEW i \in Items, WriteAttempts(w, i), pc[w] = "items",
             Current(w, i)
      PROVE  TypeOK'
  <2>1. todo[w][i] \in Attempts
    BY <1>5, BatchOps DEF Current
  <2>2. With(written[w], i, Bump(todo[w][i])) \in Batches /\ Without(todo[w], i) \in Batches
    BY <2>1, BumpTyped, BatchOps
  <2> QED
    BY <1>5, <2>2 DEF WriteAttempts
<1>6. ASSUME NEW w \in Workers, GiveUp(w) PROVE TypeOK'
  BY <1>5, <1>6 DEF GiveUp
<1>7. ASSUME NEW w \in Workers, FailItem(w) PROVE TypeOK'
  <2>1. PICK i \in Flaky :
          pc[w] = "items" /\ Current(w, i) /\ WriteAttempts(w, i)
    BY <1>7 DEF FailItem
  <2>2. i \in Items
    BY <2>1, BatchOps DEF Current
  <2> QED
    BY <1>5, <2>1, <2>2
<1>8. ASSUME NEW w \in Workers, Succeed(w) PROVE TypeOK'
  BY <1>8, BatchOps DEF Succeed
<1>9. ASSUME NEW w \in Workers, Commit(w) PROVE TypeOK'
  <2>1. \A i \in DOMAIN written[w] : written[w][i] \in Attempts
    BY BatchOps
  <2> QED
    BY <1>9, <2>1, BatchOps DEF Commit, Forget
<1>10. ASSUME NEW w \in Workers, RunDies(w) PROVE TypeOK'
  BY <1>10, BatchOps, DlqAssumption DEF RunDies, Forget
<1>11. ASSUME NEW w \in Workers, Record(w) PROVE TypeOK'
  BY <1>11 DEF Record
<1>12. ASSUME NEW w \in Workers, Crash(w) PROVE TypeOK'
  BY <1>12, BatchOps, DlqAssumption DEF Crash, Forget
<1>13. CASE UNCHANGED vars
  BY <1>13 DEF vars
<1> QED
  BY <1>1, <1>2, <1>6, <1>7, <1>8, <1>9, <1>10, <1>11, <1>12, <1>13 DEF Next, Work

(***************************************************************************)
(* Type correctness: however runs fail and crash, a run outside its batch  *)
(* has no uncommitted work.                                                *)
(***************************************************************************)
THEOREM DlqTypesHold == Spec => []TypeOK
<1>1. Init => TypeOK
  BY BatchOps, DlqAssumption DEF Init, TypeOK, Attempts
<1> QED
  BY <1>1, TypeStep, PTL DEF Spec

(***************************************************************************)
(* What the rows' accounting rests on: a session only works on rows that   *)
(* have been inserted.                                                     *)
(***************************************************************************)
KnownRows == \A w \in Workers : Batch(w) \subseteq 1..arrived

(***************************************************************************)
(* The steps of a session between its SELECT and its end: one row of the   *)
(* batch is written or deleted, and stays in the batch.                    *)
(***************************************************************************)
Delete(w, i) ==
  /\ deleted' = [deleted EXCEPT ![w] = @ \cup {i}]
  /\ todo' = [todo EXCEPT ![w] = Without(@, i)]
  /\ UNCHANGED <<rows, pc, written, shared, report, troubles>>

Handles(w, i) ==
  \/ WriteAttempts(w, i)
  \/ todo[w][i] < MaxAttempts /\ Delete(w, i)

LEMMA RowHandled ==
  ASSUME TypeOK, NEW w \in Workers, GiveUp(w) \/ FailItem(w) \/ Succeed(w)
  PROVE  \E i \in Items : i \in DOMAIN todo[w] /\ Handles(w, i)
<1>1. CASE GiveUp(w) \/ FailItem(w)
  <2>1. PICK i : Current(w, i) /\ WriteAttempts(w, i)
    BY <1>1 DEF GiveUp, FailItem
  <2>2. i \in Items /\ i \in DOMAIN todo[w]
    BY <2>1, BatchOps DEF Current, TypeOK
  <2> QED
    BY <2>1, <2>2 DEF Handles
<1>2. CASE Succeed(w)
  <2>1. PICK i \in Items :
          /\ Current(w, i)
          /\ todo[w][i] < MaxAttempts
          /\ deleted' = [deleted EXCEPT ![w] = @ \cup {i}]
          /\ todo' = [todo EXCEPT ![w] = Without(@, i)]
    BY <1>2 DEF Succeed
  <2> QED
    BY <1>2, <2>1 DEF Succeed, Current, Handles, Delete
<1> QED
  BY <1>1, <1>2

LEMMA SessionStep ==
  ASSUME TypeOK, NEW w \in Workers, NEW i \in DOMAIN todo[w], Handles(w, i)
  PROVE  /\ UNCHANGED <<arrived, dlq, resolved, pc, shared, counted, credited>>
         /\ \A q \in Workers : Batch(q)' = Batch(q)
<1> USE DEF TypeOK, rows, report, Batch
<1>1. DOMAIN Without(todo[w], i) = DOMAIN todo[w] \ {i}
  BY DEF Without, Restrict
<1>2. \A n : DOMAIN With(written[w], i, n) = DOMAIN written[w] \cup {i}
  BY DEF With
<1>3. CASE WriteAttempts(w, i)
  <2>1. /\ DOMAIN todo'[w] = DOMAIN todo[w] \ {i}
        /\ DOMAIN written'[w] = DOMAIN written[w] \cup {i}
        /\ deleted' = deleted
        /\ \A q \in Workers \ {w} : todo'[q] = todo[q] /\ written'[q] = written[q]
    BY <1>1, <1>2, <1>3 DEF WriteAttempts
  <2>2. Batch(w)' = Batch(w)
    BY <2>1
  <2>3. \A q \in Workers \ {w} : Batch(q)' = Batch(q)
    BY <2>1
  <2> QED
    BY <1>3, <2>2, <2>3 DEF WriteAttempts
<1>4. CASE Delete(w, i)
  <2>1. /\ DOMAIN todo'[w] = DOMAIN todo[w] \ {i}
        /\ deleted'[w] = deleted[w] \cup {i}
        /\ written' = written
        /\ \A q \in Workers \ {w} : todo'[q] = todo[q] /\ deleted'[q] = deleted[q]
    BY <1>1, <1>4 DEF Delete
  <2>2. Batch(w)' = Batch(w)
    BY <2>1
  <2>3. \A q \in Workers \ {w} : Batch(q)' = Batch(q)
    BY <2>1
  <2> QED
    BY <1>4, <2>2, <2>3 DEF Delete
<1> QED
  BY <1>3, <1>4 DEF Handles

(***************************************************************************)
(* A session that ends has no batch any more; the others keep theirs.      *)
(***************************************************************************)
LEMMA SessionEnds ==
  ASSUME TypeOK, NEW w \in Workers, Forget(w)
  PROVE  /\ Batch(w)' = {}
         /\ \A q \in Workers \ {w} :
              /\ Batch(q)' = Batch(q)
              /\ todo'[q] = todo[q] /\ written'[q] = written[q]
              /\ deleted'[q] = deleted[q] /\ shared'[q] = shared[q]
BY DEF TypeOK, Forget, Batch, Nothing

(***************************************************************************)
(* A session that begins has the rows it has read, and knows, as the       *)
(* others do, which of them they have in common.                           *)
(***************************************************************************)
LEMMA SessionBegins ==
  ASSUME TypeOK, NEW w \in Workers, Begin(w)
  PROVE  /\ UNCHANGED <<arrived, dlq, resolved, written, deleted, counted, credited>>
         /\ Batch(w) = {} /\ Batch(w)' \subseteq Present
         /\ \A i \in DOMAIN todo'[w] : todo'[w][i] = dlq[i]
         /\ written'[w] = Nothing /\ deleted'[w] = {}
         /\ \A q \in Workers \ {w} :
              /\ Batch(q)' = Batch(q) /\ todo'[q] = todo[q]
              /\ shared'[q] = shared[q] \cup (Batch(w)' \cap Batch(q))
              /\ Batch(w)' \cap Batch(q) \subseteq shared'[w]
<1> DEFINE batch == Oldest(Present, BatchSize)
<1>1. batch \subseteq Present
  BY DEF Oldest
<1>2. /\ todo'[w] = [i \in batch |-> dlq[i]]
      /\ written'[w] = Nothing /\ deleted'[w] = {}
      /\ \A q \in Workers \ {w} :
           todo'[q] = todo[q] /\ written'[q] = written[q] /\ deleted'[q] = deleted[q]
      /\ UNCHANGED <<arrived, dlq, resolved, written, deleted, counted, credited>>
  BY DEF Begin, TypeOK, rows, report
<1>3. /\ shared'[w] = batch \cap UNION {Batch(r) : r \in Workers}
      /\ \A q \in Workers \ {w} : shared'[q] = shared[q] \cup (batch \cap Batch(q))
  BY DEF Begin
<1> HIDE DEF batch
<1>4. Batch(w)' = batch
  BY <1>2 DEF Batch, Nothing
<1>5. Batch(w) = {}
  BY DEF Batch, Nothing, Begin, TypeOK
<1>6. \A q \in Workers \ {w} : Batch(q)' = Batch(q)
  BY <1>2 DEF Batch
<1> QED
  BY <1>1, <1>2, <1>3, <1>4, <1>5, <1>6

(***************************************************************************)
(* A commit writes the session's attempts to the rows that are left.       *)
(***************************************************************************)
LEMMA CommitWrites ==
  ASSUME TypeOK, NEW w \in Workers, Commit(w), NEW i \in Items
  PROVE  /\ dlq'[i] = NULL <=> i \in deleted[w] \/ dlq[i] = NULL
         /\ dlq'[i] # NULL => dlq'[i] = IF i \in DOMAIN written[w] THEN written[w][i] ELSE dlq[i]
         /\ resolved'[i] = resolved[i] + IF i \in deleted[w] THEN 1 ELSE 0
         /\ i \in DOMAIN written[w] => written[w][i] \in Nat
<1>1. i \in DOMAIN written[w] => written[w][i] \in Nat
  BY BatchOps, DlqAssumption DEF TypeOK, Attempts
<1> QED
  BY <1>1, DlqAssumption DEF Commit

LEMMA RowsStep ==
  TypeOK /\ KnownRows /\ RowsAccountedFor /\ [Next]_vars => KnownRows' /\ RowsAccountedFor'
<1> SUFFICES ASSUME TypeOK, KnownRows, RowsAccountedFor, [Next]_vars PROVE KnownRows' /\ RowsAccountedFor'
  OBVIOUS
<1> USE DEF rows, work, report
<1>1. CASE Enqueue
  <2>1. 1..arrived \subseteq 1..arrived' /\ arrived + 1 \in Items
    BY <1>1, DlqAssumption DEF Enqueue, TypeOK, Items
  <2>2. KnownRows'
    BY <1>1, <2>1 DEF Enqueue, KnownRows, Batch
  <2>3. \A i \in Items : i # arrived + 1 => dlq'[i] = dlq[i]
    BY <1>1 DEF Enqueue, TypeOK
  <2>4. dlq'[arrived + 1] # NULL
    BY <1>1, <2>1, DlqAssumption DEF Enqueue, TypeOK
  <2>5. \A i \in Items : (i <= arrived' <=> i <= arrived \/ i = arrived + 1)
                          /\ (i > arrived <=> ~(i <= arrived))
    BY <1>1, DlqAssumption DEF Enqueue, TypeOK, Items
  <2>6. RowsAccountedFor'
    <3> SUFFICES ASSUME NEW i \in Items
                 PROVE  /\ i > arrived' => dlq'[i] = NULL /\ resolved'[i] = 0
                        /\ i <= arrived' => (dlq'[i] = NULL <=> resolved'[i] > 0)
      BY DEF RowsAccountedFor
    <3>1. resolved' = resolved
      BY <1>1 DEF Enqueue
    <3>2. CASE i = arrived + 1
      <4>1. resolved[i] = 0 /\ i <= arrived' /\ ~(i > arrived')
        BY <1>1, <3>2, DlqAssumption DEF RowsAccountedFor, Enqueue, TypeOK, Items
      <4> QED
        BY <2>4, <3>1, <3>2, <4>1
    <3>3. CASE i # arrived + 1
      <4>1. i > arrived' => i > arrived
        BY <1>1, DlqAssumption DEF Enqueue, TypeOK, Items
      <4> QED
        BY <2>3, <2>5, <3>1, <3>3, <4>1 DEF RowsAccountedFor
    <3> QED
      BY <3>2, <3>3
  <2> QED
    BY <2>2, <2>6
<1>2. ASSUME NEW w \in Workers, Begin(w) PROVE KnownRows' /\ RowsAccountedFor'
  <2>1. Present \subseteq 1..arrived
    BY DlqAssumption DEF Present, RowsAccountedFor, Items, TypeOK
  <2>2. KnownRows'
    BY <1>2, <2>1, SessionBegins DEF KnownRows
  <2> QED
    BY <1>2, <2>2, SessionBegins DEF RowsAccountedFor
<1>3. ASSUME NEW w \in Workers, GiveUp(w) \/ FailItem(w) \/ Succeed(w)
      PROVE  KnownRows' /\ RowsAccountedFor'
  <2>1. /\ UNCHANGED <<arrived, dlq, resolved>>
        /\ \A q \in Workers : Batch(q)' = Batch(q)
    BY <1>3, RowHandled, SessionStep
  <2> QED
    BY <2>1 DEF KnownRows, RowsAccountedFor
<1>4. ASSUME NEW w \in Workers, Commit(w) PROVE KnownRows' /\ RowsAccountedFor'
  <2>1. arrived' = arrived /\ Forget(w)
    BY <1>4 DEF Commit
  <2>2. KnownRows'
    BY <2>1, SessionEnds DEF KnownRows
  <2>3. deleted[w] \subseteq 1..arrived
    BY DEF KnownRows, Batch
  <2>4. ASSUME NEW i \in Items, i \in deleted[w]
        PROVE  i <= arrived /\ ~(i > arrived) /\ dlq'[i] = NULL /\ resolved'[i] > 0
    BY <1>4, <2>3, <2>4, CommitWrites DEF TypeOK
  <2>5. ASSUME NEW i \in Items, i \notin deleted[w]
        PROVE  (dlq'[i] = NULL <=> dlq[i] = NULL) /\ resolved'[i] = resolved[i]
    BY <1>4, <2>5, CommitWrites DEF TypeOK
  <2>6. RowsAccountedFor'
    BY <2>1, <2>4, <2>5 DEF RowsAccountedFor
  <2> QED
    BY <2>2, <2>6
<1>5. ASSUME NEW w \in Workers, RunDies(w) \/ Crash(w)
      PROVE  KnownRows' /\ RowsAccountedFor'
  <2>1. Forget(w) /\ UNCHANGED <<arrived, dlq, resolved>>
    BY <1>5 DEF RunDies, Crash
  <2>2. KnownRows'
    BY <2>1, SessionEnds DEF KnownRows
  <2> QED
    BY <2>1, <2>2 DEF RowsAccountedFor
<1>6. CASE (\E w \in Workers : Record(w)) \/ UNCHANGED vars
  BY <1>6 DEF Record, vars, KnownRows, RowsAccountedFor, Batch
<1> QED
  BY <1>1, <1>2, <1>3, <1>4, <1>5, <1>6 DEF Next, Work

(***************************************************************************)
(* No row is lost and none is resolved in part, however runs overlap, for  *)
(* any queue, batch and number of failures: the DELETE, the profile and    *)
(* the log row are one commit (run_dlq_once, process_dlq_item).            *)
(***************************************************************************)
THEOREM NoRowIsLost == Spec => []RowsAccountedFor
<1>1. Init => KnownRows /\ RowsAccountedFor
  BY DlqAssumption DEF Init, KnownRows, RowsAccountedFor, Items, Nothing, Batch
<1> QED
  BY <1>1, RowsStep, DlqTypesHold, PTL DEF Spec

----------------------------------------------------------------------------
(***************************************************************************)
(* The runs that have committed row i and are about to report it.          *)
(***************************************************************************)
Reporting(i) == {w \in Workers : i \in counted[w]}

(***************************************************************************)
(* The invariant behind true reports: each success that is recorded or     *)
(* about to be has a resolution of its own.                                *)
(***************************************************************************)
ReportsBacked ==
  \A i \in Items :
    /\ IsFiniteSet(Reporting(i))
    /\ credited[i] + Cardinality(Reporting(i)) <= resolved[i]

LEMMA ReportsStep ==
  ASSUME TypeOK, ReportsBacked, [Next]_vars
  PROVE  ReportsBacked'
<1> USE DEF TypeOK
<1>1. \A i \in Items : Cardinality(Reporting(i)) \in Nat
  BY FS_CardinalityType DEF ReportsBacked
<1>2. ASSUME UNCHANGED <<counted, credited, resolved>> PROVE ReportsBacked'
  BY <1>2 DEF ReportsBacked, Reporting
<1>3. ASSUME NEW w \in Workers, Commit(w) PROVE ReportsBacked'
  <2> SUFFICES ASSUME NEW i \in Items
               PROVE  /\ IsFiniteSet(Reporting(i))'
                      /\ credited'[i] + Cardinality(Reporting(i))' <= resolved'[i]
    BY DEF ReportsBacked
  <2>1. /\ counted' = [counted EXCEPT ![w] = deleted[w]] /\ credited' = credited
        /\ counted[w] = {}
    BY <1>3 DEF Commit
  <2>2. w \notin Reporting(i)
    BY <2>1 DEF Reporting
  <2>3. CASE i \in deleted[w]
    <3>1. Reporting(i)' = Reporting(i) \cup {w}
      BY <2>1, <2>3 DEF Reporting
    <3>2. IsFiniteSet(Reporting(i)') /\ Cardinality(Reporting(i)') = Cardinality(Reporting(i)) + 1
      BY <2>2, <3>1, FS_AddElement DEF ReportsBacked
    <3>3. resolved'[i] = resolved[i] + 1
      BY <1>3, <2>3, CommitWrites
    <3> QED
      BY <1>1, <2>1, <3>2, <3>3 DEF ReportsBacked
  <2>4. CASE i \notin deleted[w]
    <3>1. Reporting(i)' = Reporting(i)
      BY <2>1, <2>4 DEF Reporting
    <3>2. resolved'[i] = resolved[i]
      BY <1>3, <2>4, CommitWrites
    <3> QED
      BY <2>1, <3>1, <3>2 DEF ReportsBacked
  <2> QED
    BY <2>3, <2>4
<1>4. ASSUME NEW w \in Workers, Record(w) \/ Crash(w) PROVE ReportsBacked'
  <2> SUFFICES ASSUME NEW i \in Items
               PROVE  /\ IsFiniteSet(Reporting(i))'
                      /\ credited'[i] + Cardinality(Reporting(i))' <= resolved'[i]
    BY DEF ReportsBacked
  <2>1. /\ counted' = [counted EXCEPT ![w] = {}]
        /\ resolved' = resolved
        /\ \/ credited'[i] = credited[i]
           \/ i \in counted[w] /\ credited'[i] = credited[i] + 1
    BY <1>4 DEF Record, Crash, rows
  <2>2. CASE i \in counted[w]
    <3>1. Reporting(i)' = Reporting(i) \ {w} /\ w \in Reporting(i)
      BY <2>1, <2>2 DEF Reporting
    <3>2. IsFiniteSet(Reporting(i)') /\ Cardinality(Reporting(i)') = Cardinality(Reporting(i)) - 1
      BY <3>1, FS_RemoveElement DEF ReportsBacked
    <3> QED
      BY <1>1, <2>1, <3>2 DEF ReportsBacked
  <2>3. CASE i \notin counted[w]
    <3>1. Reporting(i)' = Reporting(i)
      BY <2>1, <2>3 DEF Reporting
    <3> QED
      BY <2>1, <2>3, <3>1 DEF ReportsBacked
  <2> QED
    BY <2>2, <2>3
<1>5. ASSUME NEW w \in Workers, Begin(w) PROVE ReportsBacked'
  BY <1>2, <1>5, SessionBegins
<1>6. ASSUME NEW w \in Workers, GiveUp(w) \/ FailItem(w) \/ Succeed(w) PROVE ReportsBacked'
  <2>1. UNCHANGED <<counted, credited, resolved>>
    BY <1>6, RowHandled, SessionStep
  <2> QED
    BY <1>2, <2>1
<1>7. CASE Enqueue \/ (\E w \in Workers : RunDies(w)) \/ UNCHANGED vars
  BY <1>2, <1>7 DEF Enqueue, RunDies, vars, rows, report
<1> QED
  BY <1>3, <1>4, <1>5, <1>6, <1>7 DEF Next, Work

(***************************************************************************)
(* worker_runs claims no success the queue does not show, for any number   *)
(* of overlapping runs: a run counts a row only while its batch can still  *)
(* be rolled back, and reports it in a later transaction of its own.       *)
(***************************************************************************)
THEOREM RunsAreReportedTruly == Spec => []RunsDontOverclaim
<1>1. Init => ReportsBacked
  <2> SUFFICES ASSUME Init, NEW i \in Items
               PROVE  /\ IsFiniteSet(Reporting(i))
                      /\ credited[i] + Cardinality(Reporting(i)) <= resolved[i]
    BY DEF ReportsBacked
  <2>1. Reporting(i) = {}
    BY DEF Init, Reporting
  <2> QED
    BY <2>1, FS_EmptySet DEF Init
<1>2. TypeOK /\ ReportsBacked => RunsDontOverclaim
  <2> SUFFICES ASSUME TypeOK, ReportsBacked, NEW i \in Items
               PROVE  credited[i] <= resolved[i]
    BY DEF RunsDontOverclaim
  <2>1. Cardinality(Reporting(i)) \in Nat
    BY FS_CardinalityType DEF ReportsBacked
  <2> QED
    BY <2>1 DEF ReportsBacked, TypeOK
<1>3. TypeOK /\ ReportsBacked /\ [Next]_vars => ReportsBacked'
  BY ReportsStep
<1> QED
  BY <1>1, <1>2, <1>3, DlqTypesHold, PTL DEF Spec

----------------------------------------------------------------------------
(***************************************************************************)
(* What a session knows.  Rows that two sessions have in their batches are *)
(* shared by both; and of a row that it shares with nobody a session has   *)
(* read what the queue still holds, so that what it is going to commit is  *)
(* one attempt more, or the resolution of a row with attempts left.        *)
(***************************************************************************)
OverlapsAreShared ==
  \A w, q \in Workers : w # q => Batch(w) \cap Batch(q) \subseteq shared[w]

StillCurrent(w, i) ==
  /\ dlq[i] # NULL
  /\ i \in DOMAIN todo[w] => dlq[i] = todo[w][i]
  /\ i \in DOMAIN written[w] => dlq[i] <= written[w][i]
  /\ i \in deleted[w] => dlq[i] < MaxAttempts

OwnRowsAreCurrent ==
  \A w \in Workers : \A i \in Batch(w) \ shared[w] : StillCurrent(w, i)

LEMMA OverlapStep ==
  ASSUME TypeOK, OverlapsAreShared, [Next]_vars
  PROVE  OverlapsAreShared'
<1>1. ASSUME NEW w \in Workers, Begin(w) PROVE OverlapsAreShared'
  BY <1>1, SessionBegins DEF OverlapsAreShared
<1>2. ASSUME NEW w \in Workers, GiveUp(w) \/ FailItem(w) \/ Succeed(w)
      PROVE  OverlapsAreShared'
  <2>1. shared' = shared /\ \A q \in Workers : Batch(q)' = Batch(q)
    BY <1>2, RowHandled, SessionStep
  <2> QED
    BY <2>1 DEF OverlapsAreShared
<1>3. ASSUME NEW w \in Workers, Commit(w) \/ RunDies(w) \/ Crash(w)
      PROVE  OverlapsAreShared'
  <2>1. Forget(w)
    BY <1>3 DEF Commit, RunDies, Crash
  <2> QED
    BY <2>1, SessionEnds DEF OverlapsAreShared
<1>4. CASE Enqueue \/ (\E w \in Workers : Record(w)) \/ UNCHANGED vars
  BY <1>4 DEF Enqueue, Record, vars, work, OverlapsAreShared, Batch
<1> QED
  BY <1>1, <1>2, <1>3, <1>4 DEF Next, Work

(***************************************************************************)
(* OwnRowsAreCurrent is kept: only a commit changes the queue, and a row   *)
(* that another session has too is shared.                                 *)
(***************************************************************************)
LEMMA CurrentStep ==
  ASSUME TypeOK, KnownRows, OverlapsAreShared, OwnRowsAreCurrent, [Next]_vars
  PROVE  OwnRowsAreCurrent'
<1>1. CASE Enqueue
  <2>1. /\ \A i \in Items : i # arrived + 1 => dlq'[i] = dlq[i]
        /\ UNCHANGED <<todo, written, deleted, shared>>
    BY <1>1 DEF Enqueue, TypeOK, work
  <2>2. \A w \in Workers : \A i \in Batch(w) : i \in Items /\ i # arrived + 1
    BY DlqAssumption DEF KnownRows, TypeOK, Items
  <2> QED
    BY <2>1, <2>2 DEF OwnRowsAreCurrent, StillCurrent, Batch
<1>2. ASSUME NEW w \in Workers, Begin(w) PROVE OwnRowsAreCurrent'
  <2> SUFFICES ASSUME NEW q \in Workers, NEW i \in Batch(q)', i \notin shared'[q]
               PROVE  StillCurrent(q, i)'
    BY DEF OwnRowsAreCurrent
  <2>1. CASE q = w
    <3>1. dlq[i] # NULL /\ i \notin DOMAIN Nothing
      BY <1>2, <2>1, SessionBegins DEF Present, Nothing
    <3> QED
      BY <1>2, <2>1, <3>1, SessionBegins DEF StillCurrent
  <2>2. CASE q # w
    <3>1. i \in Batch(q) /\ i \notin shared[q]
      BY <1>2, <2>2, SessionBegins
    <3>2. StillCurrent(q, i)
      BY <3>1 DEF OwnRowsAreCurrent
    <3> QED
      BY <1>2, <2>2, <3>2, SessionBegins DEF StillCurrent
  <2> QED
    BY <2>1, <2>2
<1>3. ASSUME NEW w \in Workers, GiveUp(w) \/ FailItem(w) \/ Succeed(w)
      PROVE  OwnRowsAreCurrent'
  <2>1. PICK i \in Items : i \in DOMAIN todo[w] /\ Handles(w, i)
    BY <1>3, RowHandled
  <2>2. /\ UNCHANGED <<dlq, shared>>
        /\ \A q \in Workers : Batch(q)' = Batch(q)
    BY <2>1, SessionStep
  <2> SUFFICES ASSUME NEW q \in Workers, NEW j \in Batch(q), j \notin shared[q]
               PROVE  StillCurrent(q, j)'
    BY <2>2 DEF OwnRowsAreCurrent
  <2>3. StillCurrent(q, j)
    BY DEF OwnRowsAreCurrent
  <2>4. \/ todo'[q] = todo[q] /\ written'[q] = written[q] /\ deleted'[q] = deleted[q]
        \/ q = w
    BY <2>1 DEF Handles, WriteAttempts, Delete, TypeOK
  <2>5. CASE q = w
    <3>1. /\ j \in DOMAIN todo'[w] => j \in DOMAIN todo[w] /\ todo'[w][j] = todo[w][j]
          /\ j # i =>
               /\ j \in DOMAIN written'[w] =>
                    j \in DOMAIN written[w] /\ written'[w][j] = written[w][j]
               /\ j \in deleted'[w] => j \in deleted[w]
      BY <2>1 DEF Handles, WriteAttempts, Delete, With, Without, Restrict, TypeOK
    <3>2. CASE j # i
      BY <2>2, <2>3, <2>5, <3>1, <3>2 DEF StillCurrent
    <3>3. CASE j = i
      <4>1. dlq[i] = todo[w][i] /\ todo[w][i] \in Attempts
        BY <2>1, <2>3, <2>5, <3>3, BatchOps DEF StillCurrent, TypeOK
      <4>2. CASE WriteAttempts(w, i)
        <5>1. written'[w][i] = Bump(todo[w][i]) /\ deleted' = deleted
          BY <4>2 DEF WriteAttempts, With, TypeOK
        <5>2. dlq[i] <= written'[w][i]
          BY <4>1, <5>1, BumpTyped
        <5> QED
          BY <2>2, <2>3, <2>5, <3>1, <3>3, <5>1, <5>2 DEF StillCurrent
      <4>3. CASE todo[w][i] < MaxAttempts /\ Delete(w, i)
        <5>1. written' = written
          BY <4>3 DEF Delete
        <5> QED
          BY <2>2, <2>3, <2>5, <3>1, <3>3, <4>1, <4>3, <5>1 DEF StillCurrent
      <4> QED
        BY <2>1, <4>2, <4>3 DEF Handles
    <3> QED
      BY <3>2, <3>3
  <2>6. CASE q # w
    BY <2>2, <2>3, <2>4, <2>6 DEF StillCurrent
  <2> QED
    BY <2>5, <2>6
<1>4. ASSUME NEW w \in Workers, Commit(w) \/ RunDies(w) \/ Crash(w)
      PROVE  OwnRowsAreCurrent'
  <2>1. Forget(w)
    BY <1>4 DEF Commit, RunDies, Crash
  <2> SUFFICES ASSUME NEW q \in Workers, NEW i \in Batch(q)', i \notin shared'[q]
               PROVE  StillCurrent(q, i)'
    BY DEF OwnRowsAreCurrent
  <2>2. q # w /\ i \in Batch(q) /\ i \notin shared[q]
    BY <2>1, SessionEnds
  <2>3. StillCurrent(q, i) /\ i \notin Batch(w) /\ i \in Items
    BY <2>2, BatchOps DEF OwnRowsAreCurrent, OverlapsAreShared, Batch, TypeOK
  <2>4. dlq'[i] = dlq[i]
    <3>1. CASE Commit(w)
      BY <2>3, <3>1 DEF Batch, Commit, StillCurrent
    <3>2. CASE RunDies(w) \/ Crash(w)
      BY <3>2 DEF RunDies, Crash, rows
    <3> QED
      BY <1>4, <3>1, <3>2
  <2> QED
    BY <2>1, <2>2, <2>3, <2>4, SessionEnds DEF StillCurrent
<1>5. CASE (\E w \in Workers : Record(w)) \/ UNCHANGED vars
  BY <1>5 DEF Record, vars, rows, work, OwnRowsAreCurrent, StillCurrent, Batch
<1> QED
  BY <1>1, <1>2, <1>3, <1>4, <1>5 DEF Next, Work

SessionsSound ==
  /\ TypeOK /\ KnownRows /\ RowsAccountedFor
  /\ OverlapsAreShared /\ OwnRowsAreCurrent

LEMMA SessionsStaySound == Spec => []SessionsSound
<1>1. Init => SessionsSound
  <2> SUFFICES ASSUME Init PROVE SessionsSound
    OBVIOUS
  <2>1. TypeOK
    BY BatchOps, DlqAssumption DEF Init, TypeOK, Attempts
  <2>2. KnownRows /\ RowsAccountedFor
    BY DlqAssumption DEF Init, KnownRows, RowsAccountedFor, Items, Nothing, Batch
  <2>3. \A w \in Workers : Batch(w) = {}
    BY DEF Init, Batch, Nothing
  <2> QED
    BY <2>1, <2>2, <2>3 DEF SessionsSound, OverlapsAreShared, OwnRowsAreCurrent
<1>2. SessionsSound /\ [Next]_vars => SessionsSound'
  BY TypeStep, RowsStep, OverlapStep, CurrentStep DEF SessionsSound
<1> QED
  BY <1>1, <1>2, PTL DEF Spec

(***************************************************************************)
(* What a step can do to a row, unless it commits a run that has shared    *)
(* the row with another.                                                   *)
(***************************************************************************)
LEMMA Unshared ==
  ASSUME SessionsSound, [Next]_vars, NEW i \in Items, ~CommitsShared(i)
  PROVE  /\ dlq[i] # NULL /\ dlq'[i] # NULL => dlq[i] <= dlq'[i]
         /\ resolved'[i] # resolved[i] =>
              resolved[i] = 0 /\ dlq[i] # NULL /\ dlq[i] < MaxAttempts
<1> USE DEF SessionsSound
<1>1. dlq[i] # NULL => dlq[i] \in Nat
  BY DlqAssumption DEF TypeOK, Attempts
<1>2. CASE UNCHANGED <<dlq, resolved>>
  BY <1>1, <1>2
<1>3. CASE Enqueue
  <2>1. dlq[arrived + 1] = NULL
    BY <1>3, DlqAssumption DEF Enqueue, RowsAccountedFor, TypeOK, Items
  <2>2. i # arrived + 1 => dlq'[i] = dlq[i]
    BY <1>3 DEF Enqueue, TypeOK
  <2> QED
    BY <1>1, <1>3, <2>1, <2>2 DEF Enqueue
<1>4. ASSUME NEW w \in Workers, Commit(w)
      PROVE  /\ dlq[i] # NULL /\ dlq'[i] # NULL => dlq[i] <= dlq'[i]
             /\ resolved'[i] # resolved[i] =>
                  resolved[i] = 0 /\ dlq[i] # NULL /\ dlq[i] < MaxAttempts
  <2>1. pc[w] = "items" /\ pc'[w] = "record"
    BY <1>4 DEF Commit, Goto, TypeOK
  <2>2. i \notin shared[w]
    BY <2>1 DEF CommitsShared
  <2>3. i \in Batch(w) => StillCurrent(w, i)
    BY <2>2 DEF OwnRowsAreCurrent
  <2>4. dlq[i] # NULL => resolved[i] = 0
    BY DlqAssumption DEF RowsAccountedFor, TypeOK, Items
  <2>5. resolved'[i] # resolved[i] => i \in deleted[w]
    BY <1>4, CommitWrites DEF TypeOK
  <2> QED
    BY <1>1, <1>4, <2>3, <2>4, <2>5, CommitWrites DEF StillCurrent, Batch
<1>5. ASSUME NEW w \in Workers, Begin(w) \/ GiveUp(w) \/ FailItem(w) \/ Succeed(w)
      PROVE  UNCHANGED <<dlq, resolved>>
  BY <1>5, SessionBegins, RowHandled, SessionStep
<1>6. ASSUME NEW w \in Workers, RunDies(w) \/ Record(w) \/ Crash(w)
      PROVE  UNCHANGED <<dlq, resolved>>
  BY <1>6 DEF RunDies, Record, Crash, rows
<1>7. CASE UNCHANGED vars
  BY <1>2, <1>7 DEF vars, rows
<1> QED
  BY <1>2, <1>3, <1>4, <1>5, <1>6, <1>7 DEF Next, Work

(***************************************************************************)
(* A row is resolved again only by a run that has had it together with     *)
(* another run: what "Redis locking" would prevent, and no process takes,  *)
(* happens to those rows only.                                             *)
(***************************************************************************)
THEOREM UnsharedRowsResolvedOnce == Spec => ResolvedAgainOnlyIfShared
<1>1. SessionsSound /\ [Next]_vars =>
        [\A i \in Items :
           resolved[i] > 0 /\ resolved'[i] # resolved[i] => CommitsShared(i)]_vars
  BY Unshared
<1> QED
  BY <1>1, SessionsStaySound, PTL DEF Spec, ResolvedAgainOnlyIfShared

(***************************************************************************)
(* Attempts are only incremented but for such a run, although they are     *)
(* written from what was read when the run began.                          *)
(***************************************************************************)
THEOREM UnsharedAttemptsOnlyGrow == Spec => AttemptsDropOnlyIfShared
<1>1. SessionsSound /\ [Next]_vars =>
        [\A i \in Items :
           dlq[i] # NULL /\ dlq'[i] # NULL => dlq[i] <= dlq'[i] \/ CommitsShared(i)]_vars
  BY Unshared
<1> QED
  BY <1>1, SessionsStaySound, PTL DEF Spec, AttemptsDropOnlyIfShared

(***************************************************************************)
(* A row that has used up its attempts is resolved only by such a run.     *)
(***************************************************************************)
THEOREM UnsharedRowsAreGivenUp == Spec => RevivedOnlyIfShared
<1>1. SessionsSound /\ [Next]_vars =>
        [\A i \in Items :
           dlq[i] # NULL /\ dlq[i] >= MaxAttempts =>
             resolved'[i] = resolved[i] \/ CommitsShared(i)]_vars
  <2> SUFFICES ASSUME SessionsSound, [Next]_vars, NEW i \in Items,
                      dlq[i] # NULL, dlq[i] >= MaxAttempts, ~CommitsShared(i)
               PROVE  resolved'[i] = resolved[i]
    OBVIOUS
  <2>1. dlq[i] \in Nat
    BY DlqAssumption DEF SessionsSound, TypeOK, Attempts
  <2> QED
    BY <2>1, Unshared, DlqAssumption
<1> QED
  BY <1>1, SessionsStaySound, PTL DEF Spec, RevivedOnlyIfShared
=============================================================================
