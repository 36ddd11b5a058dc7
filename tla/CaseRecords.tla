---------------------------- MODULE CaseRecords ----------------------------
(***************************************************************************)
(* The records analysts work on, and the requests that create and edit     *)
(* them: entities (app/services/entity_service.py), alerts                 *)
(* (app/api/routes/alerts.py) and profiles with their aliases              *)
(* (app/services/profile_service.py).  Every request has a session of its  *)
(* own: it loads a row, assigns attributes, flushes, reads the row back    *)
(* and is committed by get_db (app/db/session.py).  Under PostgreSQL's     *)
(* READ COMMITTED every SELECT sees what is committed when it runs, and an *)
(* UPDATE waits for the row and holds it until the end of the transaction. *)
(*                                                                         *)
(* A profile's three JSON lists are read and written alike: they are one   *)
(* here, linked_entities.                                                  *)
(***************************************************************************)
EXTENDS FiniteSets, Naturals, OrmRow

CONSTANTS
  Requests,   \* calls of the API
  Workloads,  \* what they may ask for together: functions from Requests to operations,
              \* records with a kind and the id of a row
  Stored,     \* Stored[id]: the rows there are at first
  NULL

VARIABLES
  op,        \* op[r]: what request r asks for; a new row's id is the one it draws
  pc,        \* pc[r]: where it is
  sess,      \* sess[r]: its session
  rows,      \* rows[id]: the committed rows of entities, alerts and profiles
  aliases,   \* table profile_aliases: how many rows for <<profile, entity>>
  answer     \* answer[r]: how its handler and its transaction end

vars == <<op, pc, sess, rows, aliases, answer>>

\* loaded: the row as read; now: with the assignments; cols: the columns the flush
\* writes; held: rows it has locked, <<id>> or, of an alias, <<profile, entity>>;
\* seen: the row read back; add: a new alias; drop: the aliases a merge has loaded
\* with the profile it deletes.
NoSession == [loaded |-> NULL, now |-> NULL, cols |-> {}, held |-> {},
              seen |-> NULL, add |-> FALSE, drop |-> {}]

Profiles(table) == {i \in DOMAIN table : "linked_entities" \in DOMAIN table[i]}

EntityOps == {"create", "flag", "update", "score"}
AlertOps == {"assign", "resolve"}
ProfileOps == {"profile", "link", "merge"}

\* The profiles the merges of a workload delete, and all that it names.
Others(w) == {w[r].other : r \in {q \in Requests : w[q].kind = "merge"}}

ProfileIds(w) ==
  Others(w) \cup {w[r].id : r \in {q \in Requests : w[q].kind \in ProfileOps}}

\* Entities, alerts and profiles are tables of their own: no id is in two of them, and
\* what a profile lists are entities.  A new row's id is none that a merge names, which
\* the caller has from an earlier answer, and no merge here is of a profile with itself.
ASSUME CaseAssumption ==
  /\ \A p \in Profiles(Stored) :
       Stored[p].linked_entities \subseteq DOMAIN Stored \ Profiles(Stored)
  /\ \A w \in Workloads :
       /\ DOMAIN Stored \cap ProfileIds(w) \subseteq Profiles(Stored)
       /\ \A r \in Requests :
            /\ w[r].kind \in EntityOps \cup AlertOps \cup ProfileOps
            /\ w[r].kind \notin ProfileOps => w[r].id \notin ProfileIds(w) \cup Profiles(Stored)
            /\ w[r].kind = "create" => "linked_entities" \notin DOMAIN w[r].row
            /\ w[r].kind \in {"create", "profile"} => w[r].id \notin Others(w)
            /\ w[r].kind \in {"link", "profile"} => w[r].entity \notin ProfileIds(w)
            /\ w[r].kind = "merge" => w[r].other # w[r].id

Init ==
  /\ op \in Workloads
  /\ pc = [r \in Requests |-> "load"]
  /\ sess = [r \in Requests |-> NoSession]
  /\ rows = Stored
  /\ aliases = [l \in UNION {{p} \X Stored[p].linked_entities : p \in Profiles(Stored)} |-> 1]
  /\ answer = [r \in Requests |-> "none"]

Goto(r, p) == pc' = [pc EXCEPT ![r] = p]

\* The request inserts the row it is about.
Creates(r) == op[r].kind \in {"create", "profile"}

Aliases(p, e) == IF <<p, e>> \in DOMAIN aliases THEN aliases[<<p, e>>] ELSE 0

AliasesOf(p) == {l \in DOMAIN aliases : l[1] = p}

----------------------------------------------------------------------------
\* What each handler assigns to the row it has loaded.
Flag(o, row) ==
  [row EXCEPT !.kyc_status = "REVIEW_REQUIRED", !.edd_required = TRUE,
              !.typology_matches = @ \cup {o.reason}]

Update(o, row) ==
  [c \in DOMAIN row |-> IF c \in DOMAIN o.fields THEN o.fields[c] ELSE row[c]]

Score(o, row) == [row EXCEPT !.risk_score = o.score]

Assign(o, row) == [row EXCEPT !.assigned_to = o.to, !.status = "IN_REVIEW"]

Resolve(o, row) ==
  [row EXCEPT !.resolution = o.resolution, !.status = "CLOSED",
              !.sar_required = IF o.sar = NULL THEN @ ELSE o.sar]

LinkEntity(o, row) == [row EXCEPT !.linked_entities = @ \cup {o.entity}]

\* A merge assigns when it has the other profile too (LoadOther).
Edited(o, row) ==
  CASE o.kind = "flag"    -> Flag(o, row)
    [] o.kind = "update"  -> Update(o, row)
    [] o.kind = "score"   -> Score(o, row)
    [] o.kind = "assign"  -> Assign(o, row)
    [] o.kind = "resolve" -> Resolve(o, row)
    [] o.kind = "link"    -> LinkEntity(o, row)
    [] o.kind = "merge"   -> row

\* The row create_entity and create_profile_from_entity insert.
NewRow(o) ==
  IF o.kind = "create" THEN o.row ELSE [linked_entities |-> {o.entity}]

\* The columns a request of each kind is about.
Names(o) ==
  CASE o.kind = "flag"    -> {"kyc_status", "edd_required", "typology_matches"}
    [] o.kind = "update"  -> DOMAIN o.fields
    [] o.kind = "score"   -> {"risk_score"}
    [] o.kind = "assign"  -> {"assigned_to", "status"}
    [] o.kind = "resolve" -> {"resolution", "status", "sar_required"}
    [] o.kind \in {"link", "merge"} -> {"linked_entities"}
    [] o.kind \in {"create", "profile"} -> {}

----------------------------------------------------------------------------
EntityNeeded(r) == IF op[r].kind \in {"link", "profile"} THEN {op[r].entity} ELSE {}

RowNeeded(r) == IF Creates(r) THEN {} ELSE {op[r].id}

\* 404: the row, the entity to link or the profile to merge does not exist.
Missing(r) ==
  /\ \/ pc[r] = "load" /\ ~(EntityNeeded(r) \cup RowNeeded(r) \subseteq DOMAIN rows)
     \/ pc[r] = "other" /\ op[r].other \notin DOMAIN rows
  /\ answer' = [answer EXCEPT ![r] = "missing"]
  /\ sess' = [sess EXCEPT ![r] = NoSession]
  /\ Goto(r, "done")
  /\ UNCHANGED <<op, rows, aliases>>

\* list(set(...)) may reorder the list, in which case the column is written although
\* it holds the same ids.
Flushable(row, now, kind) ==
  {Dirty(row, now)} \cup
  IF kind \in {"link", "merge"} THEN {{"linked_entities"}} ELSE {}

\* The SELECT and the assignments.
MutLoad(r) ==
  /\ pc[r] = "load"
  /\ ~Creates(r)
  /\ EntityNeeded(r) \cup RowNeeded(r) \subseteq DOMAIN rows
  /\ LET row == rows[op[r].id]
         now == Edited(op[r], row)
     IN sess' = [sess EXCEPT ![r].loaded = row, ![r].now = now,
                             ![r].cols = DOMAIN row]
  /\ Goto(r, IF op[r].kind = "merge" THEN "other" ELSE "flush")
  /\ UNCHANGED <<op, rows, aliases, answer>>
Load(r) ==
  /\ pc[r] = "load"
  /\ ~Creates(r)
  /\ EntityNeeded(r) \cup RowNeeded(r) \subseteq DOMAIN rows
  /\ LET row == rows[op[r].id]
         now == Edited(op[r], row)
     IN \E cols \in Flushable(row, now, op[r].kind) :
          sess' = [sess EXCEPT ![r].loaded = row, ![r].now = now, ![r].cols = cols]
  /\ Goto(r, IF op[r].kind = "merge" THEN "other" ELSE "flush")
  /\ UNCHANGED <<op, rows, aliases, answer>>

\* create_entity and create_profile_from_entity make a row under a random id.
Prepare(r) ==
  /\ pc[r] = "load"
  /\ Creates(r)
  /\ EntityNeeded(r) \subseteq DOMAIN rows
  /\ sess' = [sess EXCEPT ![r].now = NewRow(op[r]), ![r].cols = DOMAIN NewRow(op[r])]
  /\ Goto(r, "flush")
  /\ UNCHANGED <<op, rows, aliases, answer>>

\* merge_profiles loads the other profile (a merge of a profile with itself only reads
\* it and is no request here).
LoadOther(r) ==
  /\ pc[r] = "other"
  /\ op[r].other \in DOMAIN rows
  /\ LET row == sess[r].loaded
         now == [row EXCEPT !.linked_entities = @ \cup rows[op[r].other].linked_entities]
     IN \E cols \in Flushable(row, now, "merge") :
          sess' = [sess EXCEPT ![r].now = now, ![r].cols = cols]
  /\ Goto(r, "collect")
  /\ UNCHANGED <<op, rows, aliases, answer>>

\* selectinload: the aliases of the other profile, in a SELECT of their own.
Collect(r) ==
  /\ pc[r] = "collect"
  /\ sess' = [sess EXCEPT ![r].drop = AliasesOf(op[r].other)]
  /\ Goto(r, "flush")
  /\ UNCHANGED <<op, rows, aliases, answer>>

----------------------------------------------------------------------------
\* Entities and alerts always get a new time stamp, a profile only when its list
\* has changed: otherwise there is no UPDATE and no lock.
MustWrite(r) == op[r].kind \notin {"link", "merge"} \/ sess[r].cols # {}

\* The rows the flush writes: the request's own and the aliases a merge moves.
Targets(r) == (IF MustWrite(r) THEN {<<op[r].id>>} ELSE {}) \cup sess[r].drop

\* No other session has uncommitted writes on these rows.
Free(r, S) == \A q \in Requests \ {r} : sess[q].held \cap S = {}

\* An INSERT finds its id free, an UPDATE the rows it is for, a moved alias its new
\* profile.
Fits(r) ==
  /\ Creates(r) => op[r].id \notin DOMAIN rows
  /\ ~Creates(r) /\ Targets(r) # {} => op[r].id \in DOMAIN rows
  /\ sess[r].drop \subseteq DOMAIN aliases

AfterFlush(r) ==
  CASE op[r].kind \in {"link", "profile"} -> "alias"
    [] op[r].kind = "merge" -> "lock"
    [] op[r].kind \in AlertOps -> "commit"
    [] OTHER -> "refresh"

\* A session that has deleted profile p and not committed.
Deleting(p) ==
  \E q \in Requests : op[q].kind = "merge" /\ op[q].other = p
                        /\ pc[q] \in {"refresh", "commit"}

\* The flush of the service, the autoflush before the SELECT of the alias, or, for
\* an alert, the flush of the commit.  An alias can move to a profile that stays.
Flush(r) ==
  /\ pc[r] = "flush"
  /\ Free(r, Targets(r))
  /\ sess[r].drop # {} => ~Deleting(op[r].id)
  /\ Fits(r)
  /\ sess' = [sess EXCEPT ![r].held = Targets(r)]
  /\ Goto(r, AfterFlush(r))
  /\ UNCHANGED <<op, rows, aliases, answer>>

\* "idempotent: check for existing alias": with two of them scalar_one_or_none
\* raises, which counts as none.  A new profile's alias is not looked for.
MutSelectAlias(r) ==
  /\ pc[r] = "alias"
  /\ sess' = [sess EXCEPT ![r].add =
       Creates(r) \/ op[r].entity \notin sess[r].loaded.linked_entities]
  /\ Goto(r, "refresh")
  /\ UNCHANGED <<op, rows, aliases, answer>>
SelectAlias(r) ==
  /\ pc[r] = "alias"
  /\ sess' = [sess EXCEPT ![r].add =
       Creates(r) \/ Aliases(op[r].id, op[r].entity) # 1]
  /\ Goto(r, "refresh")
  /\ UNCHANGED <<op, rows, aliases, answer>>

\* "UPDATE profiles SET id = id" takes the lock of the row that is to be deleted.
LockOther(r) ==
  /\ pc[r] = "lock"
  /\ Free(r, {<<op[r].other>>})
  /\ sess' = [sess EXCEPT ![r].held =
                @ \cup IF op[r].other \in DOMAIN rows THEN {<<op[r].other>>} ELSE {}]
  /\ Goto(r, "delete")
  /\ UNCHANGED <<op, rows, aliases, answer>>

\* db.delete(other) deletes the loaded aliases with it, also the ones just moved
\* (cascade "all, delete").  The foreign key of profile_aliases makes it wait for
\* an alias that is being inserted or moved, and fail for one that was not loaded.
Referenced(p) ==
  \E q \in Requests :
    /\ op[q].id = p
    /\ \/ sess[q].add /\ pc[q] = "commit"
       \/ sess[q].drop # {} /\ pc[q] \in {"lock", "delete", "refresh", "commit"}

Unloaded(r) == AliasesOf(op[r].other) \ sess[r].drop

DeleteOther(r) ==
  /\ pc[r] = "delete"
  /\ ~Referenced(op[r].other)
  /\ Unloaded(r) = {}
  /\ Goto(r, "refresh")
  /\ UNCHANGED <<op, sess, rows, aliases, answer>>

\* The flush of a new alias, which checks its profile; then db.refresh reads the row
\* back: the committed one with this session's own writes.
RowStays(r) == Creates(r) \/ op[r].id \in DOMAIN rows

MutRefresh(r) ==
  /\ pc[r] = "refresh"
  /\ sess[r].add => ~Deleting(op[r].id)
  /\ RowStays(r)
  /\ sess' = [sess EXCEPT ![r].seen = sess[r].now]
  /\ Goto(r, "commit")
  /\ UNCHANGED <<op, rows, aliases, answer>>
Refresh(r) ==
  /\ pc[r] = "refresh"
  /\ sess[r].add => ~Deleting(op[r].id)
  /\ RowStays(r)
  /\ sess' = [sess EXCEPT ![r].seen =
                IF Creates(r) THEN sess[r].now
                ELSE Written(rows[op[r].id], sess[r].now, sess[r].cols)]
  /\ Goto(r, "commit")
  /\ UNCHANGED <<op, rows, aliases, answer>>

\* The next statement waits for another session to commit or to roll back.
Waits(r) ==
  \/ pc[r] = "flush" /\ (~Free(r, Targets(r)) \/ (sess[r].drop # {} /\ Deleting(op[r].id)))
  \/ pc[r] = "lock" /\ ~Free(r, {<<op[r].other>>})
  \/ pc[r] = "delete" /\ Referenced(op[r].other)
  \/ pc[r] = "refresh" /\ sess[r].add /\ Deleting(op[r].id)

Removed(r) == IF op[r].kind = "merge" THEN {op[r].other} ELSE {}

Added(r) == IF Creates(r) THEN {op[r].id} ELSE {}

\* The commit of get_db.
MutCommit(r) ==
  /\ pc[r] = "commit"
  /\ rows' = [i \in (DOMAIN rows \cup Added(r)) \ Removed(r) |->
               IF i \in Added(r) THEN sess[r].now
               ELSE IF i = op[r].id THEN Written(rows[i], sess[r].now, sess[r].cols)
               ELSE rows[i]]
  /\ answer' = [answer EXCEPT ![r] = "ok"]
  /\ Goto(r, "done")
  /\ UNCHANGED <<op, sess, aliases>>
Commit(r) ==
  /\ pc[r] = "commit"
  /\ rows' = [i \in (DOMAIN rows \cup Added(r)) \ Removed(r) |->
               IF i \in Added(r) THEN sess[r].now
               ELSE IF i = op[r].id THEN Written(rows[i], sess[r].now, sess[r].cols)
               ELSE rows[i]]
  /\ aliases' =
       LET new == IF sess[r].add THEN {<<op[r].id, op[r].entity>>} ELSE {}
           left == {l \in DOMAIN aliases : l[1] \notin Removed(r)}
       IN [l \in left \cup new |->
             Aliases(l[1], l[2]) + IF l \in new THEN 1 ELSE 0]
  /\ sess' = [sess EXCEPT ![r] = NoSession]
  /\ answer' = [answer EXCEPT ![r] = "ok"]
  /\ Goto(r, "done")
  /\ UNCHANGED op

\* A statement that fails rolls the transaction back: a taken id, a row that is gone,
\* an alias that was not loaded, a deadlock that the database ends, a lost connection.
Abort(r) ==
  /\ pc[r] # "done"
  /\ sess' = [sess EXCEPT ![r] = NoSession]
  /\ answer' = [answer EXCEPT ![r] = "error"]
  /\ Goto(r, "done")
  /\ UNCHANGED <<op, rows, aliases>>

\* What a handler does with its session before get_db commits.
Handler(r) ==
  \/ Missing(r) \/ Load(r) \/ Prepare(r) \/ LoadOther(r) \/ Collect(r) \/ Flush(r)
  \/ SelectAlias(r) \/ LockOther(r) \/ DeleteOther(r) \/ Refresh(r)

----------------------------------------------------------------------------
\* Request r is committed by this step.
Commits(r) == answer[r] = "none" /\ answer'[r] = "ok"

\* Profiles other ones have been merged into.
Absorbing == {op[r].id : r \in {q \in Requests : op[q].kind = "merge" /\ answer[q] = "ok"}}

(***************************************************************************)
(* Types; only a request between its flush and its end holds a row, and no *)
(* row is held twice.                                                      *)
(***************************************************************************)
TypeOK ==
  /\ pc \in [Requests -> {"load", "other", "collect", "flush", "alias", "lock",
                          "delete", "refresh", "commit", "done"}]
  /\ answer \in [Requests -> {"none", "ok", "missing", "error"}]
  /\ \A l \in DOMAIN aliases : l[1] \in Profiles(rows) /\ l[2] \in DOMAIN rows
  /\ \A r \in Requests :
       pc[r] \in {"load", "other", "collect", "flush", "done"} => sess[r].held = {}
  /\ \A q, r \in Requests : sess[q].held \cap sess[r].held # {} => q = r

(***************************************************************************)
(* Requests that overlap on one row never undo each other's columns:       *)
(* scoring an entity or changing its contacts leaves the review flag a     *)
(* colleague has just set (flag_entity, update_entity, update_risk_scores; *)
(* assign_alert and resolve_alert likewise).  A new row takes no row's     *)
(* place, whatever id is drawn, and a merge removes one profile only.      *)
(***************************************************************************)
NoCollateralWrites ==
  [][\A r \in Requests : Commits(r) =>
       /\ DOMAIN rows \ DOMAIN rows' \subseteq Removed(r)
       /\ \A i \in DOMAIN rows \cap DOMAIN rows' : rows'[i] # rows[i] =>
            /\ i = op[r].id
            /\ \A c \in DOMAIN rows[i] \ Names(op[r]) : rows'[i][c] = rows[i][c]]_vars

(***************************************************************************)
(* What create_entity, flag_entity and update_entity answer is the row     *)
(* they commit, even when other requests have written it since they loaded *)
(* it: the flush takes the row before refresh reads it.                    *)
(***************************************************************************)
AnswersAreTrue ==
  [][\A r \in Requests :
       Commits(r) /\ op[r].kind \in EntityOps => rows'[op[r].id] = sess[r].seen]_vars

(***************************************************************************)
(* "idempotent: check for existing alias" (profile_service.py): however    *)
(* requests to link one entity overlap, fail and are repeated, it gets one *)
(* alias in a profile, and every linked entity has its alias: as long as   *)
(* no merge, which deletes aliases, went into the profile.                 *)
(***************************************************************************)
OneAliasPerLink ==
  \A p \in Profiles(rows) \ Absorbing :
    /\ \A e \in rows[p].linked_entities : Aliases(p, e) = 1
    /\ \A l \in AliasesOf(p) : aliases[l] = 1

(***************************************************************************)
(* "add entity id to linked_entities if missing", "Merge aliases and       *)
(* linked entities/accounts" (profile_service.py): an entity whose link    *)
(* was confirmed is a linked entity of that profile, or of the one it was  *)
(* merged into.                                                            *)
(***************************************************************************)
LinksAreKept ==
  \A r \in Requests : op[r].kind = "link" /\ answer[r] = "ok" =>
    \E p \in Profiles(rows) :
      /\ op[r].entity \in rows[p].linked_entities
      /\ \/ p = op[r].id
         \/ \E q \in Requests : /\ op[q].kind = "merge" /\ answer[q] = "ok"
                                /\ op[q].other = op[r].id /\ op[q].id = p
=============================================================================
