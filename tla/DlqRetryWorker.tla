--------------------------- MODULE DlqRetryWorker ---------------------------
(***************************************************************************)
(* Worker processes that retry the rows of profile_dlq                     *)
(* (app/tasks/dlq_retry_worker.py: run_dlq_once, _run_once_with_lock,      *)
(* _worker_loop; process_dlq_item of app/services/profile_service.py).     *)
(*                                                                         *)
(* A run reads the oldest rows once, works through them in one database    *)
(* transaction and commits at the end.  Nothing keeps runs from            *)
(* overlapping: a process that runs them has bound redis_client to None    *)
(* when it imported the module, so _acquire_lock grants and _release_lock  *)
(* returns, and `--once` does not even ask.  Row locks make overlapping    *)
(* runs wait for each other's writes; the attempts they write were read    *)
(* before.                                                                 *)
(***************************************************************************)
EXTENDS Naturals, FiniteSets, Functions

CONSTANTS
  Workers,       \* worker processes: a process has one run at a time
  NumItems,      \* rows that are ever inserted; a row's number is its age rank
  BatchSize,     \* PROFILE_DLQ_BATCH_SIZE
  MaxAttempts,   \* PROFILE_DLQ_MAX_ATTEMPTS
  Flaky,         \* rows that process_dlq_item may fail on, once or always
  AttemptsCap,   \* bound of the model: attempts stop counting here
  MaxTroubles,   \* bound of the model: runs that die, crashes
  NULL

ASSUME DlqAssumption ==
  /\ NumItems \in Nat /\ BatchSize \in Nat \ {0} /\ MaxAttempts \in Nat
  /\ AttemptsCap \in Nat /\ MaxAttempts < AttemptsCap
  /\ NULL \notin Nat
  /\ MaxTroubles \in Nat

Items == 1..NumItems

VARIABLES
  arrived,    \* how many rows have been inserted so far
  dlq,        \* dlq[i]: attempts of row i, NULL when there is no such row
  resolved,   \* resolved[i]: dlq_processed rows in the log (and profiles) for i
  pc,         \* pc[w]: where worker w is
  todo,       \* todo[w]: rows of the batch not yet looked at, with the attempts read
  written,    \* written[w]: attempts written and not committed
  deleted,    \* deleted[w]: rows processed and deleted, not committed
  counted,    \* counted[w]: committed rows among items_succeeded, not yet recorded
  credited,   \* credited[i]: records in worker_runs whose items_succeeded counts row i
  shared,     \* history, shared[w]: rows of w's batch that another run has had in
              \* its own since w read them
  troubles    \* dead runs and crashes so far

rows == <<arrived, dlq, resolved>>
work == <<todo, written, deleted, shared>>
report == <<counted, credited>>
vars == <<rows, pc, work, report, troubles>>

Nothing == [i \in {} |-> 0]

Init ==
  /\ arrived = 0
  /\ dlq = [i \in Items |-> NULL]
  /\ resolved = [i \in Items |-> 0]
  /\ pc = [w \in Workers |-> "idle"]
  /\ todo = [w \in Workers |-> Nothing]
  /\ written = [w \in Workers |-> Nothing]
  /\ deleted = [w \in Workers |-> {}]
  /\ shared = [w \in Workers |-> {}]
  /\ counted = [w \in Workers |-> {}]
  /\ credited = [i \in Items |-> 0]
  /\ troubles = 0

Goto(w, p) == pc' = [pc EXCEPT ![w] = p]

Bump(n) == IF n < AttemptsCap THEN n + 1 ELSE n

Present == {i \in Items : dlq[i] # NULL}

\* ORDER BY created_at LIMIT n
Oldest(S, n) == {i \in S : Cardinality({j \in S : j < i}) < n}

Without(f, i) == Restrict(f, DOMAIN f \ {i})
With(f, i, n) == [j \in DOMAIN f \cup {i} |-> IF j = i THEN n ELSE f[j]]

\* The row the loop of run_dlq_once is at.
Current(w, i) == i \in DOMAIN todo[w] /\ \A j \in DOMAIN todo[w] : i <= j

\* An uncommitted write of another session on an existing row makes writers wait.
Free(w, i) ==
  dlq[i] # NULL =>
    \A q \in Workers \ {w} : i \notin DOMAIN written[q] \cup deleted[q]

----------------------------------------------------------------------------
\* A row is inserted (by match_transactions as written, or by an operator).
Enqueue ==
  /\ arrived < NumItems
  /\ arrived' = arrived + 1
  /\ dlq' = [dlq EXCEPT ![arrived + 1] = 0]
  /\ UNCHANGED <<resolved, pc, work, report, troubles>>

\* The rows of the batch of w's session.
Batch(w) == DOMAIN todo[w] \cup DOMAIN written[w] \cup deleted[w]

\* The start of a run and its SELECT.
Begin(w) ==
  /\ pc[w] = "idle"
  /\ LET batch == Oldest(Present, BatchSize) IN
       /\ todo' = [todo EXCEPT ![w] = [i \in batch |-> dlq[i]]]
       /\ shared' = [q \in Workers |->
                       IF q = w THEN batch \cap UNION {Batch(r) : r \in Workers}
                       ELSE shared[q] \cup (batch \cap Batch(q))]
  /\ Goto(w, "items")
  /\ UNCHANGED <<rows, written, deleted, report, troubles>>

\* The row is done with; its new attempts are those read, plus one.
MutWriteAttempts(w, i) ==
  /\ written' = [written EXCEPT ![w] = With(@, i, 1)]
  /\ todo' = [todo EXCEPT ![w] = Without(@, i)]
  /\ UNCHANGED <<rows, pc, deleted, shared, report, troubles>>
WriteAttempts(w, i) ==
  /\ written' = [written EXCEPT ![w] = With(@, i, Bump(todo[w][i]))]
  /\ todo' = [todo EXCEPT ![w] = Without(@, i)]
  /\ UNCHANGED <<rows, pc, deleted, shared, report, troubles>>

\* A row that has used up its attempts is only counted on.
MutGiveUp(w) ==
  /\ pc[w] = "items"
  /\ \E i \in Items :
       /\ Current(w, i)
       /\ todo[w][i] >= MaxAttempts
       /\ Free(w, i)
       /\ written' = [written EXCEPT ![w] = With(@, i, 0)]
       /\ todo' = [todo EXCEPT ![w] = Without(@, i)]
  /\ UNCHANGED <<rows, pc, deleted, shared, report, troubles>>
GiveUp(w) ==
  /\ pc[w] = "items"
  /\ \E i \in Items :
       /\ Current(w, i)
       /\ todo[w][i] >= MaxAttempts
       /\ Free(w, i)
       /\ WriteAttempts(w, i)

\* process_dlq_item returns False.
FailItem(w) ==
  /\ pc[w] = "items"
  /\ \E i \in Flaky :
       /\ Current(w, i)
       /\ todo[w][i] < MaxAttempts
       /\ Free(w, i)
       /\ WriteAttempts(w, i)

\* process_dlq_item creates a profile and deletes the row; the worker logs it.
MutSucceed(w) ==
  /\ pc[w] = "items"
  /\ \E i \in Items :
       /\ Current(w, i)
       /\ Free(w, i)
       /\ deleted' = [deleted EXCEPT ![w] = @ \cup {i}]
       /\ todo' = [todo EXCEPT ![w] = Without(@, i)]
  /\ UNCHANGED <<rows, pc, written, shared, report, troubles>>
Succeed(w) ==
  /\ pc[w] = "items"
  /\ \E i \in Items :
       /\ Current(w, i)
       /\ todo[w][i] < MaxAttempts
       /\ Free(w, i)
       /\ deleted' = [deleted EXCEPT ![w] = @ \cup {i}]
       /\ todo' = [todo EXCEPT ![w] = Without(@, i)]
  /\ UNCHANGED <<rows, pc, written, shared, report, troubles>>

\* Uncommitted work is gone.
Forget(w) ==
  /\ todo' = [todo EXCEPT ![w] = Nothing]
  /\ written' = [written EXCEPT ![w] = Nothing]
  /\ deleted' = [deleted EXCEPT ![w] = {}]
  /\ shared' = [shared EXCEPT ![w] = {}]

\* The commit at the end of the batch.  A row another run has deleted in the
\* meantime stays deleted; its log row and profile are written all the same.
MutCommit(w) ==
  /\ pc[w] = "items"
  /\ todo[w] = Nothing
  /\ dlq' = [i \in Items |->
               IF i \in DOMAIN written[w] /\ dlq[i] # NULL THEN written[w][i] ELSE dlq[i]]
  /\ resolved' = [i \in Items |-> resolved[i] + IF i \in deleted[w] THEN 1 ELSE 0]
  /\ counted' = [counted EXCEPT ![w] = deleted[w]]
  /\ Forget(w)
  /\ Goto(w, "record")
  /\ UNCHANGED <<arrived, credited, troubles>>
Commit(w) ==
  /\ pc[w] = "items"
  /\ todo[w] = Nothing
  /\ dlq' = [i \in Items |->
               IF i \in deleted[w] \/ dlq[i] = NULL THEN NULL
               ELSE IF i \in DOMAIN written[w] THEN written[w][i] ELSE dlq[i]]
  /\ resolved' = [i \in Items |-> resolved[i] + IF i \in deleted[w] THEN 1 ELSE 0]
  /\ counted' = [counted EXCEPT ![w] = deleted[w]]
  /\ Forget(w)
  /\ Goto(w, "record")
  /\ UNCHANGED <<arrived, credited, troubles>>

\* A statement fails inside the batch: the session refuses the UPDATE of the
\* handler too, so the exception leaves run_dlq_once, the batch is rolled back and
\* the run gets no record.
MutRunDies(w) ==
  /\ pc[w] = "items"
  /\ troubles < MaxTroubles
  /\ troubles' = troubles + 1
  /\ counted' = [counted EXCEPT ![w] = deleted[w]]
  /\ Forget(w)
  /\ Goto(w, "record")
  /\ UNCHANGED <<rows, credited>>
RunDies(w) ==
  /\ pc[w] = "items"
  /\ troubles < MaxTroubles
  /\ troubles' = troubles + 1
  /\ Forget(w)
  /\ Goto(w, "idle")
  /\ UNCHANGED <<rows, report>>

\* record_worker_run in a session of its own, or the failure to do so.
MutRecord(w) ==
  /\ pc[w] = "record"
  /\ credited' = [i \in Items |-> credited[i] + IF i \in counted[w] THEN 1 ELSE 0]
  /\ Goto(w, "idle")
  /\ UNCHANGED <<rows, work, counted, troubles>>
Record(w) ==
  /\ pc[w] = "record"
  /\ \/ credited' = [i \in Items |-> credited[i] + IF i \in counted[w] THEN 1 ELSE 0]
     \/ UNCHANGED credited
  /\ counted' = [counted EXCEPT ![w] = {}]
  /\ Goto(w, "idle")
  /\ UNCHANGED <<rows, work, troubles>>

\* The process dies and is restarted; its session is gone.
Crash(w) ==
  /\ pc[w] # "idle"
  /\ troubles < MaxTroubles
  /\ troubles' = troubles + 1
  /\ Forget(w)
  /\ counted' = [counted EXCEPT ![w] = {}]
  /\ Goto(w, "idle")
  /\ UNCHANGED <<rows, credited>>

Work(w) ==
  \/ Begin(w)
  \/ GiveUp(w) \/ FailItem(w) \/ Succeed(w)
  \/ Commit(w) \/ Record(w)

Next ==
  \/ Enqueue
  \/ \E w \in Workers : Work(w) \/ RunDies(w) \/ Crash(w)

Spec == Init /\ [][Next]_vars

\* Worker processes are restarted and loop for ever.
FairSpec ==
  /\ Spec
  /\ \A w \in Workers : WF_vars(Work(w))

----------------------------------------------------------------------------
Attempts == 0..AttemptsCap

\* Rows with a number of attempts each.
Batches == UNION {[S -> Attempts] : S \in SUBSET Items}

(***************************************************************************)
(* Types; and a session holds nothing outside the batch of its run: every  *)
(* way out of run_dlq_once closes it.                                      *)
(***************************************************************************)
TypeOK ==
  /\ arrived \in 0..NumItems
  /\ dlq \in [Items -> Attempts \cup {NULL}]
  /\ resolved \in [Items -> Nat]
  /\ pc \in [Workers -> {"idle", "items", "record"}]
  /\ todo \in [Workers -> Batches]
  /\ written \in [Workers -> Batches]
  /\ deleted \in [Workers -> SUBSET Items]
  /\ shared \in [Workers -> SUBSET Items]
  /\ counted \in [Workers -> SUBSET Items]
  /\ credited \in [Items -> Nat]
  /\ troubles \in 0..MaxTroubles
  /\ \A w \in Workers :
       /\ pc[w] # "items" =>
            /\ todo[w] = Nothing
            /\ written[w] = Nothing
            /\ deleted[w] = {}
            /\ shared[w] = {}
       /\ pc[w] # "record" => counted[w] = {}

(***************************************************************************)
(* No row is lost and none is resolved in part: a row that has been        *)
(* inserted is either still there or was processed (profile, log row and   *)
(* DELETE commit together), across rollbacks and crashes.                  *)
(***************************************************************************)
RowsAccountedFor ==
  \A i \in Items :
    /\ i > arrived => dlq[i] = NULL /\ resolved[i] = 0
    /\ i <= arrived => (dlq[i] = NULL <=> resolved[i] > 0)

(***************************************************************************)
(* worker_runs never claims more than the queue shows: the successes a run *)
(* has counted are recorded when their rows are gone for good, whatever    *)
(* statement failed or process died in between.                            *)
(***************************************************************************)
RunsDontOverclaim == \A i \in Items : credited[i] <= resolved[i]

\* The step is the commit of a run that has shared row i with another.
CommitsShared(i) ==
  \E w \in Workers : i \in shared[w] /\ pc[w] = "items" /\ pc'[w] = "record"

(***************************************************************************)
(* The missing lock, first: a row that has been resolved is resolved again *)
(* (another profile, another log row) only by a run that had it in its     *)
(* batch together with another run.                                        *)
(***************************************************************************)
ResolvedAgainOnlyIfShared ==
  [][\A i \in Items :
       resolved[i] > 0 /\ resolved'[i] # resolved[i] => CommitsShared(i)]_vars

(***************************************************************************)
(* Second: attempts go down only by the commit of such a run, which writes *)
(* one more than it had read before the other wrote.  Alone, a run "either *)
(* resolves them or increments attempts".                                  *)
(***************************************************************************)
AttemptsDropOnlyIfShared ==
  [][\A i \in Items :
       dlq[i] # NULL /\ dlq'[i] # NULL => dlq[i] <= dlq'[i] \/ CommitsShared(i)]_vars

(***************************************************************************)
(* Third: a row that has used up its attempts is processed only by such a  *)
(* run, which had read it before the other used up the last one.           *)
(***************************************************************************)
RevivedOnlyIfShared ==
  [][\A i \in Items :
       dlq[i] # NULL /\ dlq[i] >= MaxAttempts =>
         resolved'[i] = resolved[i] \/ CommitsShared(i)]_vars

(***************************************************************************)
(* "retries entries in `profile_dlq` and either resolves them or           *)
(* increments attempts": every row is looked at sooner or later.           *)
(***************************************************************************)
EveryRowRetried ==
  \A i \in Items : (arrived >= i) ~> (dlq[i] = NULL \/ dlq[i] > 0)

(***************************************************************************)
(* Every row is settled: resolved, or tried MaxAttempts times.  Rows whose *)
(* attempts are used up stay first in the order, so this needs a batch     *)
(* larger than their number.                                               *)
(***************************************************************************)
EveryRowSettled ==
  \A i \in Items : (arrived >= i) ~> (dlq[i] = NULL \/ dlq[i] >= MaxAttempts)
=============================================================================
