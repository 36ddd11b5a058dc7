------------------------- MODULE TransactionService -------------------------
(***************************************************************************)
(* Concurrent calls of create_transaction                                  *)
(* (app/services/transaction_service.py), each in an AsyncSession and a    *)
(* database transaction of its own at READ COMMITTED, and POST             *)
(* /transactions/ (app/api/routes/transactions.py) in front of it.         *)
(*                                                                         *)
(* Every await is a step.  What a session has flushed but not committed is *)
(* in sess[r]; other sessions see the tables only, and wait where          *)
(* PostgreSQL makes them wait: for the holder of a row lock, and for an    *)
(* uncommitted INSERT of the same unique value.                            *)
(***************************************************************************)
EXTENDS RulesEngine, OrmRow

CONSTANTS
  Requests,        \* calls of the service
  Inputs,          \* request bodies: [route, key, entity, txn]
  Stripped,        \* Stripped[k]: an idempotency_key after strip()
  Entities,        \* ids of the rows of table entities, to which no column refers
                   \* by a foreign key
  TxnIds,          \* what generate_txn_id can return on one day
  AlertIds,        \* what generate_alert_id can return on one day
  Probabilities,   \* what predict_ml_score can return, in percent
  NULL

\* Bodies are what TransactionCreate lets through (schemas/transaction.py); no id is
\* NULL.
ASSUME ServiceAssumption ==
  /\ \A i \in Inputs : i.route \in BOOLEAN /\ i.txn \in Payload
  /\ Probabilities \subseteq 0..100
  /\ NULL \notin TxnIds \cup AlertIds

VARIABLES
  req,        \* req[r]: the body of call r
  pc,         \* pc[r]: the statement call r executes next
  sess,       \* sess[r]: its session
  answer,     \* answer[r]: what its caller got
  txns,       \* table transactions: NULL or a row for every id
  alerts,     \* table alerts
  failures,   \* table scoring_failures: the transaction ids of its rows
  entities    \* table entities

tables == <<txns, alerts, failures, entities>>
vars == <<req, pc, sess, answer, txns, alerts, failures, entities>>

\* _canonicalize_txn_key: a given key is stripped; without one (or with an empty
\* one) the whole body is hashed, which collides for equal bodies only: for bodies
\* spelt alike, since 100 and 100.0 are two Decimals to json.dumps.
IdemKey(i) == IF i.key # NULL THEN <<Stripped[i.key]>> ELSE <<i.entity, i.txn>>

Keys == {IdemKey(i) : i \in Inputs}

NoAnswer == [status |-> "none", txn |-> NULL]

\* A session: the transaction it works on, whether it inserted it, the loaded and
\* the current values of the two rows it edits, the rows it has written (and so
\* holds the locks of), the pending scoring failure and alert, and the locals of
\* create_transaction.
Blank ==
  [id |-> NULL, fresh |-> FALSE, txn |-> NULL, txnNow |-> NULL,
   ent |-> NULL, entNow |-> NULL, held |-> {}, failed |-> FALSE,
   ensemble |-> 0, final_alert |-> FALSE, alert |-> NULL, alertRow |-> NULL]

Init ==
  /\ req \in [Requests -> Inputs]
  /\ pc = [r \in Requests |-> IF req[r].route THEN "posted" ELSE "begin"]
  /\ sess = [r \in Requests |-> Blank]
  /\ answer = [r \in Requests |-> NoAnswer]
  /\ txns = [t \in TxnIds |-> NULL]
  /\ alerts = [a \in AlertIds |-> NULL]
  /\ failures = {}
  /\ entities = [e \in Entities |-> [risk_score |-> 0, risk_tier |-> "LOW"]]

----------------------------------------------------------------------------
\* The locks the database keeps for uncommitted writes.
HoldsTxn(q, t) == sess[q].id = t /\ "txn" \in sess[q].held
HoldsEntity(q, e) == "entity" \in sess[q].held /\ sess[q].txnNow.entity = e
HoldsAlert(q, a) == "alert" \in sess[q].held /\ sess[q].alert = a

\* An uncommitted row of table transactions with this unique key.
HoldsKey(q, k) == sess[q].fresh /\ "txn" \in sess[q].held /\ sess[q].txnNow.key = k

Others(r) == Requests \ {r}

Stored(t) == txns[t] # NULL
KeyTaken(k) == \E t \in TxnIds : Stored(t) /\ txns[t].key = k

\* The call ends: its session is closed, the caller has its answer.
MutAnswer(r, status, t) ==
  /\ pc' = [pc EXCEPT ![r] = "done"]
  /\ answer' = [answer EXCEPT ![r] = [status |-> status, txn |-> t]]
  /\ UNCHANGED <<req, sess>>
Answer(r, status, t) ==
  /\ pc' = [pc EXCEPT ![r] = "done"]
  /\ answer' = [answer EXCEPT ![r] = [status |-> status, txn |-> t]]
  /\ sess' = [sess EXCEPT ![r] = Blank]
  /\ UNCHANGED req

\* The exception that leaves `async with db.begin()` rolls everything back.
Fail(r) == Answer(r, "error", NULL) /\ UNCHANGED tables

\* Control moves to statement p, nothing is committed.
Goto(r, p) ==
  /\ pc' = [pc EXCEPT ![r] = p]
  /\ UNCHANGED <<req, answer, txns, alerts, failures, entities>>

----------------------------------------------------------------------------
\* The route reads the entity first, which opens a transaction on the session.
VerifyEntity(r) ==
  /\ pc[r] = "posted"
  /\ IF req[r].entity \in Entities
       THEN Goto(r, "begin") /\ UNCHANGED sess
       ELSE Answer(r, "missing", NULL) /\ UNCHANGED tables

\* db.begin() on a session that has already begun raises InvalidRequestError.
BeginRefused(r) ==
  /\ pc[r] = "begin"
  /\ req[r].route
  /\ Fail(r)

\* SELECT by key: the existing row becomes the session's, or the new row gets its
\* random id.
Lookup(r) ==
  /\ pc[r] = "begin"
  /\ ~req[r].route
  /\ LET k == IdemKey(req[r])
     IN \/ /\ \E t \in TxnIds :
                /\ Stored(t) /\ txns[t].key = k
                /\ sess' = [sess EXCEPT ![r].id = t, ![r].txn = txns[t],
                                        ![r].txnNow = txns[t]]
           /\ Goto(r, "score")
        \/ /\ ~KeyTaken(k)
           /\ \E t \in TxnIds :
                sess' = [sess EXCEPT ![r].id = t, ![r].fresh = TRUE,
                  ![r].txnNow =
                    [key |-> k, entity |-> req[r].entity, body |-> req[r].txn,
                     risk_score |-> RuleScore(req[r].txn), ml_score |-> 0,
                     is_flagged |-> FlagReasons(req[r].txn) # {}]]
           /\ Goto(r, "insert")

MutInsertRejected(r) ==
  /\ pc[r] = "insert"
  /\ Stored(sess[r].id)
  /\ Fail(r)
\* The INSERT is refused: primary key or unique idempotency_key.
InsertRejected(r) ==
  /\ pc[r] = "insert"
  /\ Stored(sess[r].id) \/ KeyTaken(sess[r].txnNow.key)
  /\ Fail(r)

\* The INSERT succeeds once no other transaction holds the id or the key.
MutInsert(r) ==
  /\ pc[r] = "insert"
  /\ ~Stored(sess[r].id)
  /\ ~\E q \in Others(r) : HoldsTxn(q, sess[r].id)
  /\ sess' = [sess EXCEPT ![r].held = @ \cup {"txn"}]
  /\ Goto(r, "score")
Insert(r) ==
  /\ pc[r] = "insert"
  /\ ~Stored(sess[r].id)
  /\ ~KeyTaken(sess[r].txnNow.key)
  /\ ~\E q \in Others(r) :
        HoldsTxn(q, sess[r].id) \/ HoldsKey(q, sess[r].txnNow.key)
  /\ sess' = [sess EXCEPT ![r].held = @ \cup {"txn"}]
  /\ Goto(r, "score")

----------------------------------------------------------------------------
\* get_entity: None for the id of no row, as a direct call of the service can give.
EntityRow(e) == IF e \in Entities THEN entities[e] ELSE NULL

\* What both branches assign once a transaction is scored: the row's is_flagged
\* and ml_score, the score and tier of the entity it found, and the decision to
\* alert.
Decided(s, e, ml, rule_score, ensemble, scorer_alert, flags, failed) ==
  [s EXCEPT !.txnNow = [@ EXCEPT !.risk_score = rule_score, !.ml_score = ml,
                                 !.is_flagged = scorer_alert],
            !.ent = e,
            !.entNow = [risk_score |-> ensemble, risk_tier |-> RiskTier(ensemble)],
            !.failed = failed,
            !.ensemble = ensemble,
            !.final_alert = NeedsAlert(scorer_alert, ensemble, flags)]

\* get_entity and score_txn on the stored row; the rules run on the request's
\* body, which in the retry branch need not be the stored one.
MutScore(r) ==
  /\ pc[r] = "score"
  /\ \E ml \in Probabilities :
       LET stored == sess[r].txnNow.body
       IN sess' = [sess EXCEPT ![r] =
            Decided(@, EntityRow(@.txnNow.entity), ml, RuleScore(req[r].txn),
                    Ensemble(ScorerRuleScore(stored), ml), ScorerAlert(stored, ml),
                    FlagReasons(stored), FALSE)]
  /\ Goto(r, "flush_txn")
Score(r) ==
  /\ pc[r] = "score"
  /\ \E ml \in Probabilities :
       LET stored == sess[r].txnNow.body
       IN sess' = [sess EXCEPT ![r] =
            Decided(@, EntityRow(@.txnNow.entity), ml, RuleScore(req[r].txn),
                    Ensemble(ScorerRuleScore(stored), ml), ScorerAlert(stored, ml),
                    FlagReasons(req[r].txn), FALSE)]
  /\ Goto(r, "flush_txn")

\* Scoring raises.  A new transaction is kept, unflagged, with a row in
\* scoring_failures and the rules' share of the ensemble; the retry branch has no
\* handler.
ScoreFails(r) ==
  /\ pc[r] = "score"
  /\ \/ /\ sess[r].fresh
        /\ LET rule_score == RuleScore(req[r].txn)
           IN sess' = [sess EXCEPT ![r] =
                Decided(@, EntityRow(@.txnNow.entity), 0, rule_score,
                        Ensemble(rule_score, 0), FALSE, FlagReasons(req[r].txn), TRUE)]
        /\ Goto(r, "flush_txn")
     \/ ~sess[r].fresh /\ Fail(r)

\* The SELECT in update_risk_scores flushes the transaction row first; with a
\* changed column that is an UPDATE, which waits for the row's lock.
FlushTxn(r) ==
  /\ pc[r] = "flush_txn"
  /\ IF sess[r].fresh \/ Dirty(sess[r].txn, sess[r].txnNow) = {}
       THEN UNCHANGED sess
       ELSE /\ ~\E q \in Others(r) : HoldsTxn(q, sess[r].id)
            /\ sess' = [sess EXCEPT ![r].held = @ \cup {"txn"}]
  /\ Goto(r, "flush_entity")

\* update_risk_scores returns None when there is no entity.  Otherwise it changes
\* updated_at at least, so its UPDATE is always emitted and holds the entity's row
\* until the transaction ends.
FlushEntity(r) ==
  /\ pc[r] = "flush_entity"
  /\ \/ /\ sess[r].ent = NULL
        /\ UNCHANGED sess
     \/ /\ sess[r].ent # NULL
        /\ ~\E q \in Others(r) : HoldsEntity(q, sess[r].txnNow.entity)
        /\ sess' = [sess EXCEPT ![r].held = @ \cup {"entity"}]
  /\ Goto(r, "alert")

\* A flush or a SELECT of update_risk_scores fails in the branch of a new
\* transaction, where `except Exception: pass` swallows it.  The database has
\* dropped the transaction: the SELECT for an alert raises, but with none to make
\* the block ends, its commit of the dead transaction is no error, and the caller
\* is given a transaction that is not stored.
UpdateFails(r) ==
  /\ pc[r] \in {"flush_txn", "flush_entity"}
  /\ sess[r].fresh
  /\ ~sess[r].final_alert
  /\ Answer(r, "ok", sess[r].id)
  /\ UNCHANGED tables

----------------------------------------------------------------------------
\* _ensure_alert_for_transaction looks for an alert of the transaction and, when
\* there is none, draws the id of a new one.
MutSelectAlert(r) ==
  /\ pc[r] = "alert"
  /\ \/ /\ ~sess[r].final_alert
        /\ UNCHANGED sess
        /\ Goto(r, "commit")
     \/ /\ sess[r].final_alert
        /\ \E a \in AlertIds : sess' = [sess EXCEPT ![r].alert = a]
        /\ Goto(r, "insert_alert")
SelectAlert(r) ==
  LET known == \E a \in AlertIds : alerts[a] # NULL /\ alerts[a].txn = sess[r].id
  IN /\ pc[r] = "alert"
     /\ \/ /\ ~sess[r].final_alert \/ known
           /\ UNCHANGED sess
           /\ Goto(r, "commit")
        \/ /\ sess[r].final_alert /\ ~known
           /\ \E a \in AlertIds : sess' = [sess EXCEPT ![r].alert = a]
           /\ Goto(r, "insert_alert")

AlertRejected(r) ==
  /\ pc[r] = "insert_alert"
  /\ alerts[sess[r].alert] # NULL
  /\ Fail(r)

MutInsertAlert(r) ==
  /\ pc[r] = "insert_alert"
  /\ alerts[sess[r].alert] = NULL
  /\ ~\E q \in Others(r) : HoldsAlert(q, sess[r].alert)
  /\ sess' = [sess EXCEPT
       ![r].held = @ \cup {"alert"},
       ![r].alertRow =
         [txn |-> sess[r].id, entity |-> req[r].entity,
          severity |-> Severity(sess[r].ensemble), generated_by |-> "both"]]
  /\ Goto(r, "commit")
InsertAlert(r) ==
  /\ pc[r] = "insert_alert"
  /\ alerts[sess[r].alert] = NULL
  /\ ~\E q \in Others(r) : HoldsAlert(q, sess[r].alert)
  /\ sess' = [sess EXCEPT
       ![r].held = @ \cup {"alert"},
       ![r].alertRow =
         [txn |-> sess[r].id, entity |-> sess[r].txnNow.entity,
          severity |-> Severity(sess[r].ensemble),
          generated_by |-> GeneratedBy(sess[r].txnNow.is_flagged,
                                       FlagReasons(req[r].txn))]]
  /\ Goto(r, "commit")

----------------------------------------------------------------------------
\* The end of `async with db.begin()`: everything the session wrote becomes
\* visible at once.
MutCommit(r) ==
  LET s == sess[r]
  IN /\ pc[r] = "commit"
     /\ txns' = [txns EXCEPT ![s.id] =
                   IF s.fresh THEN s.txnNow ELSE Flushed(@, s.txn, s.txnNow)]
     /\ entities' = IF s.ent = NULL THEN entities
                     ELSE [entities EXCEPT ![s.txnNow.entity] =
                             Flushed(@, s.ent, s.entNow)]
     /\ failures' = IF s.failed THEN failures \cup {s.id} ELSE failures
     /\ UNCHANGED alerts
     /\ Answer(r, "ok", s.id)
Commit(r) ==
  LET s == sess[r]
  IN /\ pc[r] = "commit"
     /\ txns' = [txns EXCEPT ![s.id] =
                   IF s.fresh THEN s.txnNow ELSE Flushed(@, s.txn, s.txnNow)]
     /\ entities' = IF s.ent = NULL THEN entities
                     ELSE [entities EXCEPT ![s.txnNow.entity] =
                             Flushed(@, s.ent, s.entNow)]
     /\ failures' = IF s.failed THEN failures \cup {s.id} ELSE failures
     /\ alerts' = IF s.alert = NULL THEN alerts
                                    ELSE [alerts EXCEPT ![s.alert] = s.alertRow]
     /\ Answer(r, "ok", s.id)

\* The process dies or the client disconnects while the transaction is open, or a
\* statement fails and the exception leaves the block (at once, or, swallowed by
\* the handler above, at the next statement): the database forgets it.
Abort(r) ==
  /\ pc[r] \notin {"posted", "begin", "done"}
  /\ Fail(r)

Step(r) ==
  \/ VerifyEntity(r) \/ BeginRefused(r) \/ Lookup(r)
  \/ InsertRejected(r) \/ Insert(r)
  \/ Score(r) \/ ScoreFails(r) \/ FlushTxn(r) \/ FlushEntity(r)
  \/ SelectAlert(r) \/ AlertRejected(r) \/ InsertAlert(r)
  \/ Commit(r)

\* Every call has been answered.
Finished == (\A r \in Requests : pc[r] = "done") /\ UNCHANGED vars

Next == (\E r \in Requests : Step(r) \/ UpdateFails(r) \/ Abort(r)) \/ Finished

\* The event loop and the database go on with every call that can go on; nothing
\* obliges one to fail.
Fairness == \A r \in Requests : WF_vars(Step(r))

Spec == Init /\ [][Next]_vars
FairSpec == Spec /\ Fairness

----------------------------------------------------------------------------
Rows == [key: Keys, entity: {i.entity : i \in Inputs}, body: {i.txn : i \in Inputs},
         risk_score: Nat, ml_score: Nat, is_flagged: BOOLEAN]
Tiers == {"LOW", "MEDIUM", "HIGH", "CRITICAL"}
EntityRows == [risk_score: Nat, risk_tier: Tiers]
AlertRows == [txn: TxnIds, entity: {i.entity : i \in Inputs}, severity: Tiers,
              generated_by: {"rules", "scorer", "both"}]
Sessions ==
  [id: TxnIds \cup {NULL}, fresh: BOOLEAN,
   txn: Rows \cup {NULL}, txnNow: Rows \cup {NULL},
   ent: EntityRows \cup {NULL}, entNow: EntityRows \cup {NULL},
   held: SUBSET {"txn", "entity", "alert"}, failed: BOOLEAN,
   ensemble: Nat, final_alert: BOOLEAN,
   alert: AlertIds \cup {NULL}, alertRow: AlertRows \cup {NULL}]

\* NULL is not a row.
ASSUME NullAssumption == NULL \notin Rows \cup EntityRows \cup AlertRows

(***************************************************************************)
(* Every variable has its type, and no session survives its call: a call   *)
(* that has not opened a transaction or has been answered holds nothing    *)
(* (create_transaction's `async with db.begin()`, get_db's finally).       *)
(***************************************************************************)
TypeOK ==
  /\ req \in [Requests -> Inputs]
  /\ pc \in [Requests -> {"posted", "begin", "insert", "score", "flush_txn",
                          "flush_entity", "alert", "insert_alert", "commit", "done"}]
  /\ sess \in [Requests -> Sessions]
  /\ answer \in [Requests -> [status: {"none", "ok", "missing", "error"},
                              txn: TxnIds \cup {NULL}]]
  /\ txns \in [TxnIds -> Rows \cup {NULL}]
  /\ alerts \in [AlertIds -> AlertRows \cup {NULL}]
  /\ failures \subseteq TxnIds
  /\ entities \in [Entities -> EntityRows]
  /\ \A r \in Requests : pc[r] \in {"posted", "begin", "done"} => sess[r] = Blank

AlertsOf(t) == {a \in AlertIds : alerts[a] # NULL /\ alerts[a].txn = t}

(***************************************************************************)
(* Idempotency (test_transaction_alert_integration.py: "re-insert same     *)
(* idempotency should not create duplicate"): one row per key, whatever    *)
(* calls with that key overlap.  The lookup alone does not give it: two    *)
(* calls can both find nothing.                                            *)
(***************************************************************************)
OneRowPerKey ==
  \A t, u \in TxnIds :
    Stored(t) /\ Stored(u) /\ txns[t].key = txns[u].key => t = u

(***************************************************************************)
(* A transaction never has two alerts, although alerts.transaction_id is   *)
(* not unique and _ensure_alert_for_transaction looks before it inserts.   *)
(* A call that finds the transaction unalerted has just changed a column   *)
(* of its row, and the lock of that row keeps two such calls apart.  (The  *)
(* entity's lock would not: the entity need not exist.)                    *)
(***************************************************************************)
OneAlertPerTransaction ==
  \A a, b \in AlertIds :
    alerts[a] # NULL /\ alerts[b] # NULL /\ alerts[a].txn = alerts[b].txn => a = b

(***************************************************************************)
(* No suspicious transaction is stored without an alert: whichever of the  *)
(* rules (reasons) and the scorer (is_flagged) called it suspicious, in    *)
(* whichever call, and whatever aborted in between.                        *)
(***************************************************************************)
SuspiciousHasAlert ==
  \A t \in TxnIds :
    Stored(t) /\ (txns[t].is_flagged \/ FlagReasons(txns[t].body) # {})
      => AlertsOf(t) # {}

(***************************************************************************)
(* An alert or a scoring failure names a stored transaction, and the alert *)
(* is filed under that transaction's entity, although neither column is a  *)
(* foreign key to transactions.                                            *)
(***************************************************************************)
NoOrphans ==
  /\ \A a \in AlertIds :
       alerts[a] # NULL =>
         Stored(alerts[a].txn) /\ alerts[a].entity = txns[alerts[a].txn].entity
  /\ \A t \in failures : Stored(t)

(***************************************************************************)
(* Every call is answered: the waits for rows and unique values never form *)
(* a cycle and never outlast their holders.                                *)
(***************************************************************************)
AllAnswered == \A r \in Requests : <>(answer[r].status # "none")

----------------------------------------------------------------------------
\* The promise of the service, and the tables as its ledger.
Ledger == INSTANCE IdempotentLedger WITH
  KeyOf <- [i \in Inputs |-> IdemKey(i)],
  Suspicious <- {i \in Inputs : FlagReasons(i.txn) # {}},
  book <- {[key |-> txns[t].key, txn |-> t] : t \in {u \in TxnIds : Stored(u)}},
  alerted <- {t \in TxnIds : AlertsOf(t) # {}}

(***************************************************************************)
(* create_transaction implements the idempotent ledger: however its steps  *)
(* interleave and abort, each call takes effect in one step, the commit,   *)
(* and books, replays or refuses as if it ran alone.                       *)
(***************************************************************************)
ImplementsLedger == Ledger!Spec
=============================================================================
