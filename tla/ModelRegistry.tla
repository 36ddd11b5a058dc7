--------------------------- MODULE ModelRegistry ---------------------------
(***************************************************************************)
(* Concurrent calls on the versions of one model                           *)
(* (app/services/model_registry_service.py behind                          *)
(* app/api/routes/model_registry.py, tools/promote_model.py and            *)
(* app/ml/retrain_job.py), each in a database transaction of its own.      *)
(*                                                                         *)
(* promote_model deactivates every version with one bulk UPDATE before it  *)
(* activates its own.  run_retrain, which every API process schedules for  *)
(* the same minute, trains a model into a file named after the second it   *)
(* starts in and registers that second as the version.  The migrations     *)
(* create no unique constraint on version.  The columns of a rollback (its *)
(* time and its reason) are one here: `reason`.  An UPDATE that must wait  *)
(* for rows waits for all of them in one step: PostgreSQL serves the       *)
(* waiters of a row in order, and a cycle of waits ends in an error, which *)
(* Abort covers.                                                           *)
(***************************************************************************)
EXTENDS OrmRow

CONSTANTS
  Calls,      \* calls of the registry
  Requests,   \* what they ask for: [op, version]; a retrain's is its second
  Ids,        \* primary keys of model_versions
  NULL

VARIABLES
  req,     \* req[c]: what call c asks for
  pc,      \* pc[c]: the statement it executes next
  sess,    \* sess[c]: its session
  answer,  \* answer[c]: what its caller got
  rows,    \* table model_versions: NULL or a row for every id
  files    \* files[v]: which retrain wrote the artifact of version v last

vars == <<req, pc, sess, answer, rows, files>>

\* read: the artifact a retrain has evaluated and hashed.
Blank == [id |-> NULL, row |-> NULL, now |-> NULL, held |-> {},
          read |-> NULL]

Versions == {q.version : q \in Requests}

Init ==
  /\ req \in [Calls -> Requests]
  /\ pc = [c \in Calls |-> "start"]
  /\ sess = [c \in Calls |-> Blank]
  /\ answer = [c \in Calls |-> "none"]
  /\ rows = [i \in Ids |-> NULL]
  /\ files = [v \in Versions |-> NULL]

Registered == {i \in Ids : rows[i] # NULL}
Matching(v) == {i \in Registered : rows[i].version = v}

\* The row is locked by another call's uncommitted UPDATE or INSERT.
Locked(c, i) == \E d \in Calls \ {c} : i \in sess[d].held

Goto(c, p) == pc' = [pc EXCEPT ![c] = p] /\ UNCHANGED <<req, answer, rows, files>>

MutAnswer(c, status) ==
  /\ pc' = [pc EXCEPT ![c] = "done"]
  /\ answer' = [answer EXCEPT ![c] = status]
  /\ UNCHANGED <<req, sess, files>>
Answer(c, status) ==
  /\ pc' = [pc EXCEPT ![c] = "done"]
  /\ answer' = [answer EXCEPT ![c] = status]
  /\ sess' = [sess EXCEPT ![c] = Blank]
  /\ UNCHANGED <<req, files>>

----------------------------------------------------------------------------
\* run_retrain, first half: train() writes the artifact, whoever else has or will.
Train(c) ==
  /\ pc[c] = "start"
  /\ req[c].op = "retrain"
  /\ files' = [files EXCEPT ![req[c].version] = c]
  /\ pc' = [pc EXCEPT ![c] = "evaluate"]
  /\ UNCHANGED <<req, sess, answer, rows>>

\* Evaluation, validation and hash of the artifact as it is now.
Evaluate(c) ==
  /\ pc[c] = "evaluate"
  /\ sess' = [sess EXCEPT ![c].read = files[req[c].version]]
  /\ Goto(c, "register")

\* Without a database URL the job, or app/ml/retrain.py run by hand, ends with an artifact
\* nobody has registered.
KeepLocal(c) ==
  /\ pc[c] = "register"
  /\ Answer(c, "local")
  /\ UNCHANGED rows

\* register_model_version, for the route or for a retrain that has its metrics:
\* INSERT of an inactive candidate under the next id.
MutRegister(c) ==
  /\ pc[c] = "start"
  /\ req[c].op \in {"register", "retrain"}
  /\ \E i \in Ids :
       /\ rows[i] = NULL
       /\ ~Locked(c, i)
       /\ sess' = [sess EXCEPT ![c].id = i, ![c].held = {i}, ![c].now =
            [version |-> req[c].version, is_active |-> FALSE, reason |-> FALSE,
             status |-> "candidate",
             artifact |-> IF req[c].op = "retrain" THEN c ELSE NULL]]
  /\ Goto(c, "commit")
Register(c) ==
  /\ \/ pc[c] = "start" /\ req[c].op = "register"
     \/ pc[c] = "register"
  /\ \E i \in Ids :
       /\ rows[i] = NULL
       /\ ~Locked(c, i)
       /\ sess' = [sess EXCEPT ![c].id = i, ![c].held = {i}, ![c].now =
            [version |-> req[c].version, is_active |-> FALSE, reason |-> FALSE,
             status |-> "candidate", artifact |-> sess[c].read]]
  /\ Goto(c, "commit")

\* The SELECT by version; two rows of one version raise MultipleResultsFound.
Select(c) ==
  LET found == Matching(req[c].version)
  IN /\ pc[c] = "start"
     /\ req[c].op \in {"promote", "rollback"}
     /\ \/ /\ found = {}
           /\ Answer(c, "missing")
           /\ UNCHANGED rows
        \/ /\ \E i, j \in found : i # j
           /\ Answer(c, "error")
           /\ UNCHANGED rows
        \/ \E i \in found :
             /\ found = {i}
             /\ sess' = [sess EXCEPT ![c].id = i, ![c].row = rows[i],
                                     ![c].now = rows[i]]
             /\ Goto(c, req[c].op)

\* promote_model: the bulk UPDATE locks every version committed by now, and the
\* session takes its values over for the row it has loaded; then its own row is
\* activated.
MutPromote(c) ==
  /\ pc[c] = "promote"
  /\ \A i \in Registered : rows[i].is_active \/ i = sess[c].id => ~Locked(c, i)
  /\ sess' = [sess EXCEPT
       ![c].held = {i \in Registered : rows[i].is_active \/ i = sess[c].id},
       ![c].row = [@ EXCEPT !.is_active = FALSE, !.status = "candidate"],
       ![c].now = [@ EXCEPT !.is_active = TRUE, !.status = "active",
                            !.reason = FALSE]]
  /\ Goto(c, "commit")
Promote(c) ==
  /\ pc[c] = "promote"
  /\ \A i \in Registered : ~Locked(c, i)
  /\ sess' = [sess EXCEPT
       ![c].held = Registered,
       ![c].row = [@ EXCEPT !.is_active = FALSE, !.status = "candidate"],
       ![c].now = [@ EXCEPT !.is_active = TRUE, !.status = "active",
                            !.reason = FALSE]]
  /\ Goto(c, "commit")

\* rollback_model: the flush waits for the row and writes the changed columns.
Rollback(c) ==
  /\ pc[c] = "rollback"
  /\ ~Locked(c, sess[c].id)
  /\ sess' = [sess EXCEPT
       ![c].held = {sess[c].id},
       ![c].now = [@ EXCEPT !.is_active = FALSE, !.status = "rolled_back",
                            !.reason = TRUE]]
  /\ Goto(c, "commit")

\* What the call's statements make of the row of id i.
AfterCall(c, i) ==
  LET s == sess[c]
      base == IF req[c].op = "promote"
                THEN [rows[i] EXCEPT !.is_active = FALSE, !.status = "candidate"]
                ELSE rows[i]
  IN IF s.row = NULL THEN s.now
     ELSE IF i = s.id THEN Flushed(base, s.row, s.now) ELSE base

\* get_db, or the job itself, commits when the handler has returned.
Commit(c) ==
  /\ pc[c] = "commit"
  /\ rows' = [i \in Ids |-> IF i \in sess[c].held THEN AfterCall(c, i) ELSE rows[i]]
  /\ Answer(c, "ok")

\* A statement, the connection or the training fails, or the process dies: the
\* transaction is rolled back, a file that is written stays.
Abort(c) ==
  /\ pc[c] # "done"
  /\ Answer(c, "error")
  /\ UNCHANGED rows

Step(c) ==
  \/ Train(c) \/ Evaluate(c) \/ KeepLocal(c)
  \/ Register(c) \/ Select(c) \/ Promote(c) \/ Rollback(c) \/ Commit(c)

Finished == (\A c \in Calls : pc[c] = "done") /\ UNCHANGED vars

Next == (\E c \in Calls : Step(c) \/ Abort(c)) \/ Finished

Spec == Init /\ [][Next]_vars

----------------------------------------------------------------------------
Rows == [version: Versions, is_active: BOOLEAN,
         status: {"candidate", "active", "rolled_back"}, reason: BOOLEAN,
         artifact: Calls \cup {NULL}]

\* NULL is no call and no row.
ASSUME RegistryAssumption == NULL \notin Calls /\ NULL \notin Rows

(***************************************************************************)
(* Types; and a call holds row locks only until it is answered, failed     *)
(* calls included.                                                         *)
(***************************************************************************)
TypeOK ==
  /\ req \in [Calls -> Requests]
  /\ pc \in [Calls -> {"start", "evaluate", "register", "promote", "rollback",
                       "commit", "done"}]
  /\ sess \in [Calls -> [id: Ids \cup {NULL}, row: Rows \cup {NULL},
                         now: Rows \cup {NULL}, held: SUBSET Ids,
                         read: Calls \cup {NULL}]]
  /\ answer \in [Calls -> {"none", "ok", "local", "missing", "error"}]
  /\ rows \in [Ids -> Rows \cup {NULL}]
  /\ files \in [Versions -> Calls \cup {NULL}]
  /\ \A c \in Calls : pc[c] # "commit" => sess[c].held = {}

(***************************************************************************)
(* At most one version is active, and at most one has the status "active", *)
(* however promotions, rollbacks and registrations overlap: nothing but    *)
(* the row locks of promote_model's bulk UPDATE keeps two promotions       *)
(* apart.                                                                  *)
(***************************************************************************)
OneActive ==
  \A i, j \in Registered :
    \/ i = j
    \/ /\ ~(rows[i].is_active /\ rows[j].is_active)
       /\ ~(rows[i].status = "active" /\ rows[j].status = "active")

Retrains(v) == {c \in Calls : req[c].op = "retrain" /\ req[c].version = v}

(***************************************************************************)
(* A version that run_retrain has registered has its artifact, and when no *)
(* other retrain started in the same second, its metrics and its hash are  *)
(* of that artifact, whatever fails and is promoted or rolled back since.  *)
(***************************************************************************)
RetrainedHasArtifact ==
  \A i \in Registered : rows[i].artifact # NULL =>
    /\ files[rows[i].version] # NULL
    /\ \A c \in Retrains(rows[i].version) :
         Retrains(rows[i].version) = {c} => rows[i].artifact = files[rows[i].version]
=============================================================================
