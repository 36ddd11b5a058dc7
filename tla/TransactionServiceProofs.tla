---------------------- MODULE TransactionServiceProofs ----------------------
(***************************************************************************)
(* TransactionService for any number of calls, keys, entities and ids.     *)
(*                                                                         *)
(* The type invariant is not inductive by itself: what a session must hold *)
(* depends on where its call is (SessionOK).  That no key is stored twice  *)
(* rests on the uncommitted rows: a row that is inserted but not committed *)
(* has a key and an id that nobody has stored (NewRowsAreNew) or inserted  *)
(* (NewRowsDiffer), and a row that was found is still there (FoundRows).   *)
(* What the alerts rest on is said where they begin (AlertInv); the last   *)
(* part proves that the service implements IdempotentLedger.               *)
(***************************************************************************)
EXTENDS TransactionService, RulesEngineProofs

Busy == {"insert", "score", "flush_txn", "flush_entity", "alert", "insert_alert",
         "commit"}
Inserted == Busy \ {"insert"}
Scored == Inserted \ {"score"}

SessionOK(s, p) ==
  /\ p \in Busy => s.id \in TxnIds /\ s.txnNow \in Rows /\ (s.fresh \/ s.txn \in Rows)
  /\ p \in Inserted /\ s.fresh => "txn" \in s.held
  /\ p = "insert" => s.fresh /\ s.held = {}
  /\ p \in Scored => s.ent \in EntityRows \cup {NULL} /\ s.entNow \in EntityRows
  /\ p \in Busy \ {"insert_alert", "commit"} => s.alert = NULL
  /\ p = "insert_alert" => s.alert \in AlertIds
  /\ p = "commit" /\ s.alert # NULL => s.alertRow \in AlertRows

SessionsOK == \A r \in Requests : SessionOK(sess[r], pc[r])

FoundRows ==
  \A r \in Requests : pc[r] \in Busy /\ ~sess[r].fresh =>
    /\ Stored(sess[r].id)
    /\ txns[sess[r].id].key = sess[r].txn.key
    /\ sess[r].txnNow.key = sess[r].txn.key

\* The calls with an inserted, uncommitted row.
Inserting(r) == pc[r] \in Inserted /\ sess[r].fresh

NewRowsAreNew ==
  \A r \in Requests : Inserting(r) =>
    ~Stored(sess[r].id) /\ ~KeyTaken(sess[r].txnNow.key)

NewRowsDiffer ==
  \A q, r \in Requests : q # r /\ Inserting(q) /\ Inserting(r) =>
    sess[q].id # sess[r].id /\ sess[q].txnNow.key # sess[r].txnNow.key

TypeInv == TypeOK /\ SessionsOK

KeyInv == FoundRows /\ NewRowsAreNew /\ NewRowsDiffer /\ OneRowPerKey

----------------------------------------------------------------------------
Outside == {"posted", "begin", "done"}
Statuses == [status: {"none", "ok", "missing", "error"}, txn: TxnIds \cup {NULL}]

(***************************************************************************)
(* A step of a call moves its own counter and session only, and keeps the  *)
(* types if the new session suits the new place.                           *)
(***************************************************************************)
LEMMA OneSessionMoves ==
  ASSUME TypeInv,
         NEW r \in Requests, NEW s \in Sessions, NEW p \in Busy \cup Outside,
         sess' = [sess EXCEPT ![r] = s], pc' = [pc EXCEPT ![r] = p],
         SessionOK(s, p), p \in Outside => s = Blank,
         req' = req, answer' \in [Requests -> Statuses],
         txns' \in [TxnIds -> Rows \cup {NULL}],
         alerts' \in [AlertIds -> AlertRows \cup {NULL}],
         failures' \subseteq TxnIds, entities' \in [Entities -> EntityRows]
  PROVE  TypeInv'
<1>1. sess \in [Requests -> Sessions] /\ pc \in [Requests -> Busy \cup Outside]
  BY DEF TypeInv, TypeOK, Busy, Outside
<1>2. /\ sess' \in [Requests -> Sessions] /\ pc' \in [Requests -> Busy \cup Outside]
      /\ sess'[r] = s /\ pc'[r] = p
      /\ \A q \in Requests \ {r} : sess'[q] = sess[q] /\ pc'[q] = pc[q]
  BY <1>1
<1>3. SessionsOK'
  <2> SUFFICES ASSUME NEW q \in Requests PROVE SessionOK(sess'[q], pc'[q])
    BY DEF SessionsOK, SessionOK
  <2> QED
    BY <1>2 DEF TypeInv, SessionsOK
<1>4. \A q \in Requests : pc'[q] \in Outside => sess'[q] = Blank
  BY <1>2 DEF TypeInv, TypeOK, Outside
<1>5. TypeOK'
  BY <1>2, <1>4 DEF TypeInv, TypeOK, Busy, Outside, Statuses
<1> QED
  BY <1>3, <1>5 DEF TypeInv

LEMMA GotoKeepsTypes ==
  ASSUME TypeInv,
         NEW r \in Requests, NEW s \in Sessions, NEW p \in Busy \cup {"begin"},
         sess' = [sess EXCEPT ![r] = s], Goto(r, p),
         SessionOK(s, p), p = "begin" => s = Blank
  PROVE  TypeInv'
<1>1. p \in Busy \cup Outside /\ (p \in Outside => s = Blank)
  BY DEF Busy, Outside
<1>2. TypeOK
  BY DEF TypeInv
<1> QED
  BY <1>1, <1>2, OneSessionMoves DEF Goto, TypeOK, Statuses

LEMMA BlankIsSession ==
  Blank \in Sessions /\ SessionOK(Blank, "done") /\ SessionOK(Blank, "begin")
BY DEF Blank, Sessions, SessionOK, Busy, Inserted, Scored

LEMMA AnswerKeepsTypes ==
  ASSUME TypeInv,
         NEW r \in Requests, NEW status \in {"ok", "missing", "error"},
         NEW t \in TxnIds \cup {NULL},
         Answer(r, status, t),
         txns' \in [TxnIds -> Rows \cup {NULL}],
         alerts' \in [AlertIds -> AlertRows \cup {NULL}],
         failures' \subseteq TxnIds, entities' \in [Entities -> EntityRows]
  PROVE  TypeInv'
<1>1. answer' \in [Requests -> Statuses]
  BY DEF Answer, TypeInv, TypeOK, Statuses
<1>2. "done" \in Busy \cup Outside
  BY DEF Outside
<1> QED
  BY <1>1, <1>2, BlankIsSession, OneSessionMoves DEF Answer

LEMMA FailKeepsTypes ==
  ASSUME TypeInv, NEW r \in Requests, NEW status \in {"missing", "error"},
         Answer(r, status, NULL), UNCHANGED tables
  PROVE  TypeInv'
BY AnswerKeepsTypes DEF tables, TypeInv, TypeOK

----------------------------------------------------------------------------
(***************************************************************************)
(* The assignments of a scoring branch make a session of one: the id, the  *)
(* loaded row and the locks stay, the rows keep their keys, entities and   *)
(* bodies.  Suspicion, of the scorer or of the rules, is a call for alert. *)
(***************************************************************************)
Rates(s, d) ==
  /\ d \in Sessions /\ d.txnNow \in Rows
  /\ d.txnNow.key = s.txnNow.key /\ d.txnNow.entity = s.txnNow.entity
  /\ d.txnNow.body = s.txnNow.body
  /\ d.ent \in EntityRows \cup {NULL} /\ d.entNow \in EntityRows
  /\ d.id = s.id /\ d.fresh = s.fresh /\ d.txn = s.txn
  /\ d.held = s.held /\ d.alert = s.alert

Concludes(d, score, n, suspicious, flags, failed) ==
  /\ d.failed = failed
  /\ d.txnNow.risk_score = score /\ d.txnNow.is_flagged = suspicious
  /\ d.final_alert = NeedsAlert(suspicious, n, flags)

LEMMA DecidedIsSession ==
  ASSUME NEW s \in Sessions, s.txnNow \in Rows, NEW e \in EntityRows \cup {NULL},
         NEW ml \in Nat,
         NEW score \in Nat, NEW n \in Nat, NEW suspicious \in BOOLEAN, NEW flags,
         NEW failed \in BOOLEAN
  PROVE  /\ Rates(s, Decided(s, e, ml, score, n, suspicious, flags, failed))
         /\ Concludes(Decided(s, e, ml, score, n, suspicious, flags, failed),
                      score, n, suspicious, flags, failed)
<1> DEFINE d == Decided(s, e, ml, score, n, suspicious, flags, failed)
<1>1. PICK final \in BOOLEAN : final = NeedsAlert(suspicious, n, flags)
  BY DEF NeedsAlert
<1> DEFINE row == [s.txnNow EXCEPT !.risk_score = score, !.ml_score = ml,
                                   !.is_flagged = suspicious]
<1>2. PICK t \in Rows : t = s.txnNow
  OBVIOUS
<1>3. row = [t EXCEPT !.risk_score = score, !.ml_score = ml, !.is_flagged = suspicious]
  BY <1>2
<1> HIDE DEF row
<1>4. /\ row \in Rows /\ row.key = s.txnNow.key /\ row.entity = s.txnNow.entity
      /\ row.body = s.txnNow.body
      /\ row.risk_score = score /\ row.is_flagged = suspicious
  <2>1. /\ row \in Rows /\ row.key = t.key /\ row.entity = t.entity
        /\ row.body = t.body
        /\ row.risk_score = score /\ row.is_flagged = suspicious
    BY <1>3 DEF Rows
  <2> QED
    BY <1>2, <2>1
<1>5. PICK rated : rated = [risk_score |-> n, risk_tier |-> RiskTier(n)]
  OBVIOUS
<1>6. rated \in EntityRows
  BY <1>5, TiersAreTiers DEF EntityRows, Tiers
<1>7. d = [s EXCEPT !.txnNow = row, !.ent = e, !.entNow = rated, !.failed = failed,
                    !.ensemble = n, !.final_alert = final]
  BY <1>1, <1>5 DEF Decided, row
<1>8. s = [id |-> s.id, fresh |-> s.fresh, txn |-> s.txn, txnNow |-> s.txnNow,
           ent |-> s.ent, entNow |-> s.entNow, held |-> s.held, failed |-> s.failed,
           ensemble |-> s.ensemble, final_alert |-> s.final_alert,
           alert |-> s.alert, alertRow |-> s.alertRow]
  BY DEF Sessions
<1> HIDE DEF d
<1>9. d = [id |-> s.id, fresh |-> s.fresh, txn |-> s.txn, txnNow |-> row,
           ent |-> e, entNow |-> rated, held |-> s.held, failed |-> failed,
           ensemble |-> n, final_alert |-> final,
           alert |-> s.alert, alertRow |-> s.alertRow]
  BY <1>7, <1>8
<1>10. d \in Sessions
  BY <1>4, <1>6, <1>9 DEF Sessions
<1>11. d.txnNow = row /\ d.ent = e /\ d.entNow = rated
  BY <1>9
<1>12. /\ d.id = s.id /\ d.fresh = s.fresh /\ d.txn = s.txn
       /\ d.held = s.held /\ d.alert = s.alert
  BY <1>9
<1>13. Rates(s, d)
  BY <1>4, <1>6, <1>10, <1>11, <1>12 DEF Rates
<1>14. d.failed = failed /\ d.final_alert = final
  BY <1>9
<1> QED
  BY <1>1, <1>4, <1>11, <1>13, <1>14 DEF d, Concludes

----------------------------------------------------------------------------
(***************************************************************************)
(* Each step keeps the types.  The steps of create_transaction up to the   *)
(* INSERT: the session is filled in.                                       *)
(***************************************************************************)
LEMMA VerifyEntityKeepsTypes ==
  ASSUME TypeInv, NEW r \in Requests, VerifyEntity(r)
  PROVE  TypeInv'
<1>1. CASE req[r].entity \in Entities
  <2>1. Goto(r, "begin") /\ sess' = sess
    BY <1>1 DEF VerifyEntity
  <2>2. sess[r] = Blank /\ sess \in [Requests -> Sessions]
    BY DEF VerifyEntity, TypeInv, TypeOK
  <2>3. sess' = [sess EXCEPT ![r] = Blank]
    BY <2>1, <2>2
  <2> QED
    BY <2>1, <2>3, BlankIsSession, GotoKeepsTypes
<1>2. CASE req[r].entity \notin Entities
  BY <1>2, FailKeepsTypes DEF VerifyEntity
<1> QED
  BY <1>1, <1>2

LEMMA LookupKeepsTypes ==
  ASSUME TypeInv, NEW r \in Requests, Lookup(r)
  PROVE  TypeInv'
<1> USE DEF TypeInv, TypeOK
<1>1. sess[r] = Blank /\ sess \in [Requests -> Sessions]
  BY DEF Lookup
<1>2. CASE \E t \in TxnIds :
             /\ Stored(t)
             /\ sess' = [sess EXCEPT ![r].id = t, ![r].txn = txns[t],
                                     ![r].txnNow = txns[t]]
             /\ Goto(r, "score")
  <2>1. PICK t \in TxnIds :
             /\ Stored(t)
             /\ sess' = [sess EXCEPT ![r].id = t, ![r].txn = txns[t],
                                     ![r].txnNow = txns[t]]
             /\ Goto(r, "score")
    BY <1>2
  <2> DEFINE s == [Blank EXCEPT !.id = t, !.txn = txns[t], !.txnNow = txns[t]]
  <2>2. sess' = [sess EXCEPT ![r] = s]
    BY <1>1, <2>1
  <2>3. txns[t] \in Rows
    BY <2>1 DEF Stored
  <2>4. s \in Sessions /\ SessionOK(s, "score")
    BY <2>3 DEF Blank, Sessions, SessionOK, Busy, Inserted, Scored
  <2> HIDE DEF s
  <2> QED
    BY <2>1, <2>2, <2>4, GotoKeepsTypes DEF Busy
<1>3. CASE \E t \in TxnIds :
             /\ sess' = [sess EXCEPT ![r].id = t, ![r].fresh = TRUE,
                  ![r].txnNow =
                    [key |-> IdemKey(req[r]), entity |-> req[r].entity,
                     body |-> req[r].txn, risk_score |-> RuleScore(req[r].txn),
                     ml_score |-> 0, is_flagged |-> FlagReasons(req[r].txn) # {}]]
             /\ Goto(r, "insert")
  <2> DEFINE row == [key |-> IdemKey(req[r]), entity |-> req[r].entity,
                     body |-> req[r].txn, risk_score |-> RuleScore(req[r].txn),
                     ml_score |-> 0, is_flagged |-> FlagReasons(req[r].txn) # {}]
  <2>1. PICK t \in TxnIds :
             /\ sess' = [sess EXCEPT ![r].id = t, ![r].fresh = TRUE, ![r].txnNow = row]
             /\ Goto(r, "insert")
    BY <1>3
  <2> DEFINE s == [Blank EXCEPT !.id = t, !.fresh = TRUE, !.txnNow = row]
  <2>2. sess' = [sess EXCEPT ![r] = s]
    BY <1>1, <2>1
  <2>3. row \in Rows
    <3>1. req[r] \in Inputs /\ req[r].txn \in Payload
      BY ServiceAssumption
    <3>2. RuleScore(req[r].txn) \in 0..100
      BY <3>1, ScoresAreNat
    <3> QED
      BY <3>1, <3>2 DEF Rows, Keys
  <2>4. s \in Sessions /\ SessionOK(s, "insert")
    <3> HIDE DEF row
    <3> QED
      BY <2>3 DEF Blank, Sessions, SessionOK, Busy, Inserted, Scored
  <2> HIDE DEF s
  <2> QED
    BY <2>1, <2>2, <2>4, GotoKeepsTypes DEF Busy
<1> QED
  BY <1>2, <1>3 DEF Lookup

LEMMA InsertKeepsTypes ==
  ASSUME TypeInv, NEW r \in Requests, Insert(r)
  PROVE  TypeInv'
<1> DEFINE s == [sess[r] EXCEPT !.held = @ \cup {"txn"}]
<1>1. sess[r] \in Sessions /\ SessionOK(sess[r], "insert")
  BY DEF TypeInv, TypeOK, SessionsOK, Insert
<1>2. sess' = [sess EXCEPT ![r] = s] /\ Goto(r, "score")
  BY DEF Insert
<1>3. s \in Sessions /\ SessionOK(s, "score")
  BY <1>1 DEF Sessions, SessionOK, Busy, Inserted, Scored, Insert
<1> HIDE DEF s
<1> QED
  BY <1>2, <1>3, GotoKeepsTypes DEF Busy

(***************************************************************************)
(* Scoring and the flushes.  ScoredAs(r, x): call r is scored, its session *)
(* becomes x, which works on the same rows under the same key and calls    *)
(* for an alert when it must; a retry does so only if its row shows why.   *)
(***************************************************************************)
\* The scores stored with a transaction call for an alert.
Hit(row) == row.is_flagged \/ row.risk_score > 0

ScoredAs(r, x) ==
  /\ pc[r] = "score"
  /\ sess' = [sess EXCEPT ![r] = x] /\ Goto(r, "flush_txn")
  /\ x \in Sessions /\ SessionOK(x, "flush_txn")
  /\ x.id = sess[r].id /\ x.fresh = sess[r].fresh /\ x.txn = sess[r].txn
  /\ x.held = sess[r].held
  /\ x.txnNow.key = sess[r].txnNow.key
  /\ x.txnNow.entity = sess[r].txnNow.entity /\ x.txnNow.body = sess[r].txnNow.body
  /\ x.failed => x.fresh
  /\ Hit(x.txnNow) \/ FlagReasons(req[r].txn) # {} => x.final_alert
  /\ x.final_alert /\ ~x.fresh => Hit(x.txnNow)

(***************************************************************************)
(* run_rules gives points exactly to what it has a reason for, and the     *)
(* scorer's answer says "alert" whenever its ensemble is over the          *)
(* threshold.                                                              *)
(***************************************************************************)
LEMMA ScoreIsHit ==
  ASSUME NEW t \in Payload
  PROVE  RuleScore(t) > 0 <=> FlagReasons(t) # {}
<1>1. /\ RuleScore(t) \in 0..100
      /\ RulePoints(t, HighRiskCountries) = 0 <=> FlagReasons(t) = {}
      /\ RuleScore(t) = RulePoints(t, HighRiskCountries)
  BY ScoresAreNat, PointsMeanReasons DEF FlagReasons
<1> QED
  BY <1>1

LEMMA EntityRowIsRow ==
  ASSUME TypeInv, NEW e
  PROVE  EntityRow(e) \in EntityRows \cup {NULL}
BY DEF TypeInv, TypeOK, EntityRow

LEMMA ScoreDecides ==
  ASSUME TypeInv, NEW r \in Requests, Score(r)
  PROVE  \E x : ScoredAs(r, x)
<1>1. /\ sess[r] \in Sessions /\ SessionOK(sess[r], "score") /\ req[r] \in Inputs
  BY DEF TypeInv, TypeOK, SessionsOK, Score
<1>2. sess[r].txnNow \in Rows
  BY <1>1 DEF SessionOK, Busy, Inserted
<1> DEFINE stored == sess[r].txnNow.body
           e == EntityRow(sess[r].txnNow.entity)
           score == RuleScore(req[r].txn)
           n(ml) == Ensemble(ScorerRuleScore(stored), ml)
           suspicious(ml) == ScorerAlert(stored, ml)
           flags == FlagReasons(req[r].txn)
           d(ml) == Decided(sess[r], e, ml, score, n(ml), suspicious(ml), flags, FALSE)
<1>3. PICK ml \in Probabilities :
         sess' = [sess EXCEPT ![r] = d(ml)] /\ Goto(r, "flush_txn")
  BY DEF Score
<1>4. /\ ml \in Nat /\ req[r].txn \in Payload /\ stored \in Payload
      /\ e \in EntityRows \cup {NULL}
  BY <1>1, <1>2, ServiceAssumption, EntityRowIsRow DEF Rows
<1>5. score \in Nat /\ ScorerRuleScore(stored) \in Nat
  <2>1. score \in 0..100 /\ ScorerRuleScore(stored) \in 0..100
    BY <1>4, ScoresAreNat
  <2> HIDE DEF score
  <2> QED
    BY <2>1
<1>6. n(ml) \in Nat
  BY <1>4, <1>5, EnsembleIsNat
<1>7. suspicious(ml) \in BOOLEAN
  BY DEF ScorerAlert
<1>14. /\ score > 0 <=> flags # {}
       /\ NeedsAlert(suspicious(ml), n(ml), flags) <=> suspicious(ml) \/ flags # {}
  BY <1>4, ScoreIsHit DEF NeedsAlert, ShouldGenerateAlert, ScorerAlert
<1> HIDE DEF e, score, n, suspicious, flags
<1>8. PICK failed \in BOOLEAN : failed = FALSE
  OBVIOUS
<1>9. PICK x : x = Decided(sess[r], e, ml, score, n(ml), suspicious(ml), flags, failed)
  OBVIOUS
<1>10. sess' = [sess EXCEPT ![r] = x]
  BY <1>3, <1>8, <1>9
<1>11. Rates(sess[r], x) /\ Concludes(x, score, n(ml), suspicious(ml), flags, failed)
  <2>1. PICK k \in Nat, b \in BOOLEAN : k = n(ml) /\ b = suspicious(ml)
    BY <1>6, <1>7
  <2> DEFINE y == Decided(sess[r], e, ml, score, k, b, flags, failed)
  <2>2. Rates(sess[r], y) /\ Concludes(y, score, k, b, flags, failed)
    BY <1>1, <1>2, <1>4, <1>5, DecidedIsSession
  <2>3. x = y
    BY <1>9, <2>1
  <2> HIDE DEF y
  <2> QED
    BY <2>1, <2>2, <2>3
<1>12. SessionOK(x, "flush_txn")
  BY <1>1, <1>2, <1>11 DEF Rates, SessionOK, Busy, Inserted, Scored
<1>13. /\ Hit(x.txnNow) \/ flags # {} <=> x.final_alert
       /\ x.failed = FALSE
  BY <1>8, <1>14, <1>11 DEF Concludes, Hit
<1> QED
  BY <1>3, <1>10, <1>11, <1>12, <1>13, <1>14 DEF ScoredAs, Rates, Concludes, Score, Hit, flags

LEMMA ScoreFailsDecides ==
  ASSUME TypeInv, NEW r \in Requests, ScoreFails(r)
  PROVE  Fail(r) \/ \E x : ScoredAs(r, x)
<1>1. CASE ~sess[r].fresh
  BY <1>1 DEF ScoreFails
<1>2. CASE sess[r].fresh
  <2>1. /\ sess[r] \in Sessions /\ SessionOK(sess[r], "score") /\ req[r] \in Inputs
    BY DEF TypeInv, TypeOK, SessionsOK, ScoreFails
  <2>2. sess[r].txnNow \in Rows
    BY <2>1 DEF SessionOK, Busy, Inserted
  <2> DEFINE e == EntityRow(sess[r].txnNow.entity)
             score == RuleScore(req[r].txn)
             n == Ensemble(score, 0)
             flags == FlagReasons(req[r].txn)
  <2>3. /\ sess' = [sess EXCEPT ![r] = Decided(sess[r], e, 0, score, n, FALSE, flags, TRUE)]
        /\ Goto(r, "flush_txn")
    BY <1>2 DEF ScoreFails
  <2>4. req[r].txn \in Payload /\ e \in EntityRows \cup {NULL}
    BY <2>1, <2>2, ServiceAssumption, EntityRowIsRow
  <2>5. score \in Nat /\ 0 \in Nat
    <3>1. score \in 0..100
      BY <2>4, ScoresAreNat
    <3> HIDE DEF score
    <3> QED
      BY <3>1
  <2>6. n \in Nat
    <3> HIDE DEF score
    <3> QED
      BY <2>5, EnsembleIsNat
  <2>15. score > 0 <=> flags # {}
    BY <2>4, ScoreIsHit
  <2> HIDE DEF e, score, n, flags
  <2>7. PICK suspicious \in BOOLEAN, failed \in BOOLEAN : ~suspicious /\ failed
    OBVIOUS
  <2>8. suspicious = FALSE /\ failed = TRUE
    BY <2>7
  <2>9. PICK x : x = Decided(sess[r], e, 0, score, n, suspicious, flags, failed)
    OBVIOUS
  <2>10. sess' = [sess EXCEPT ![r] = x]
    BY <2>3, <2>8, <2>9
  <2>11. Rates(sess[r], x) /\ Concludes(x, score, n, suspicious, flags, failed)
    <3> DEFINE y == Decided(sess[r], e, 0, score, n, suspicious, flags, failed)
    <3>1. Rates(sess[r], y) /\ Concludes(y, score, n, suspicious, flags, failed)
      BY <2>1, <2>2, <2>4, <2>5, <2>6, DecidedIsSession
    <3> QED
      BY <2>9, <3>1
  <2>12. SessionOK(x, "flush_txn")
    BY <2>1, <2>2, <2>11 DEF Rates, SessionOK, Busy, Inserted, Scored
  <2>13. x.fresh
    BY <1>2, <2>11 DEF Rates
  <2>14. Hit(x.txnNow) \/ flags # {} => x.final_alert
    BY <2>15, <2>8, <2>11 DEF Concludes, Hit, NeedsAlert, ShouldGenerateAlert
  <2> QED
    BY <2>3, <2>10, <2>11, <2>12, <2>13, <2>14 DEF ScoredAs, Rates, Concludes, ScoreFails, flags
<1> QED
  BY <1>1, <1>2

LEMMA ScoreKeepsTypes ==
  ASSUME TypeInv, NEW r \in Requests, NEW x, ScoredAs(r, x)
  PROVE  TypeInv'
BY GotoKeepsTypes DEF ScoredAs, Busy

LEMMA FlushTxnKeepsTypes ==
  ASSUME TypeInv, NEW r \in Requests, FlushTxn(r)
  PROVE  TypeInv'
<1>1. sess \in [Requests -> Sessions] /\ SessionOK(sess[r], "flush_txn")
  BY DEF TypeInv, TypeOK, SessionsOK, FlushTxn
<1> DEFINE s == [sess[r] EXCEPT !.held = @ \cup {"txn"}]
<1>2. /\ sess' = [sess EXCEPT ![r] = sess[r]] \/ sess' = [sess EXCEPT ![r] = s]
      /\ Goto(r, "flush_entity")
  BY <1>1 DEF FlushTxn
<1>3. s \in Sessions /\ SessionOK(s, "flush_entity")
  BY <1>1 DEF Sessions, SessionOK, Busy, Inserted, Scored
<1>4. sess[r] \in Sessions /\ SessionOK(sess[r], "flush_entity")
  BY <1>1 DEF SessionOK, Busy, Inserted, Scored
<1> HIDE DEF s
<1> QED
  BY <1>2, <1>3, <1>4, GotoKeepsTypes DEF Busy

LEMMA FlushEntityKeepsTypes ==
  ASSUME TypeInv, NEW r \in Requests, FlushEntity(r)
  PROVE  TypeInv'
<1>1. sess \in [Requests -> Sessions] /\ SessionOK(sess[r], "flush_entity")
  BY DEF TypeInv, TypeOK, SessionsOK, FlushEntity
<1> DEFINE s == [sess[r] EXCEPT !.held = @ \cup {"entity"}]
<1>2. /\ sess' = [sess EXCEPT ![r] = sess[r]] \/ sess' = [sess EXCEPT ![r] = s]
      /\ Goto(r, "alert")
  BY <1>1 DEF FlushEntity
<1>3. s \in Sessions /\ SessionOK(s, "alert")
  BY <1>1 DEF Sessions, SessionOK, Busy, Inserted, Scored
<1>4. sess[r] \in Sessions /\ SessionOK(sess[r], "alert")
  BY <1>1 DEF SessionOK, Busy, Inserted, Scored
<1> HIDE DEF s
<1> QED
  BY <1>2, <1>3, <1>4, GotoKeepsTypes DEF Busy

LEMMA UpdateFailsKeepsTypes ==
  ASSUME TypeInv, NEW r \in Requests, UpdateFails(r)
  PROVE  TypeInv'
<1>1. sess[r].id \in TxnIds
  BY DEF TypeInv, SessionsOK, SessionOK, UpdateFails, Busy
<1> QED
  BY <1>1, AnswerKeepsTypes DEF UpdateFails, tables, TypeInv, TypeOK

(***************************************************************************)
(* The alert.                                                              *)
(***************************************************************************)
LEMMA SelectAlertKeepsTypes ==
  ASSUME TypeInv, NEW r \in Requests, SelectAlert(r)
  PROVE  TypeInv'
<1>1. sess \in [Requests -> Sessions] /\ SessionOK(sess[r], "alert")
  BY DEF TypeInv, TypeOK, SessionsOK, SelectAlert
<1>2. CASE sess' = sess /\ Goto(r, "commit")
  <2>1. sess' = [sess EXCEPT ![r] = sess[r]]
    BY <1>1, <1>2
  <2>2. sess[r] \in Sessions /\ SessionOK(sess[r], "commit")
    BY <1>1 DEF SessionOK, Busy, Inserted, Scored
  <2> QED
    BY <1>2, <2>1, <2>2, GotoKeepsTypes DEF Busy
<1>3. CASE (\E a \in AlertIds : sess' = [sess EXCEPT ![r].alert = a])
           /\ Goto(r, "insert_alert")
  <2>1. PICK a \in AlertIds : sess' = [sess EXCEPT ![r].alert = a]
    BY <1>3
  <2> DEFINE s == [sess[r] EXCEPT !.alert = a]
  <2>2. sess' = [sess EXCEPT ![r] = s]
    BY <2>1
  <2>3. s \in Sessions /\ SessionOK(s, "insert_alert")
    BY <1>1 DEF Sessions, SessionOK, Busy, Inserted, Scored
  <2> HIDE DEF s
  <2> QED
    BY <1>3, <2>2, <2>3, GotoKeepsTypes DEF Busy
<1> QED
  BY <1>2, <1>3 DEF SelectAlert

LEMMA InsertAlertKeepsTypes ==
  ASSUME TypeInv, NEW r \in Requests, InsertAlert(r)
  PROVE  TypeInv'
<1>1. sess \in [Requests -> Sessions] /\ SessionOK(sess[r], "insert_alert")
  BY DEF TypeInv, TypeOK, SessionsOK, InsertAlert
<1> DEFINE row == [txn |-> sess[r].id, entity |-> sess[r].txnNow.entity,
                   severity |-> Severity(sess[r].ensemble),
                   generated_by |-> GeneratedBy(sess[r].txnNow.is_flagged,
                                                FlagReasons(req[r].txn))]
           s == [sess[r] EXCEPT !.held = @ \cup {"alert"}, !.alertRow = row]
<1>2. sess' = [sess EXCEPT ![r] = s] /\ Goto(r, "commit")
  BY DEF InsertAlert
<1>3. row \in AlertRows
  <2>1. sess[r].id \in TxnIds /\ sess[r].txnNow.entity \in {i.entity : i \in Inputs}
    <3>1. sess[r].id \in TxnIds /\ sess[r].txnNow \in Rows
      BY <1>1 DEF SessionOK, Busy
    <3> QED
      BY <3>1 DEF Rows
  <2>2. Severity(sess[r].ensemble) \in Tiers
    <3>1. sess[r].ensemble \in Nat
      BY <1>1 DEF Sessions
    <3> QED
      BY <3>1, TiersAreTiers DEF Tiers
  <2>3. GeneratedBy(sess[r].txnNow.is_flagged, FlagReasons(req[r].txn))
           \in {"rules", "scorer", "both"}
    BY DEF GeneratedBy
  <2> QED
    BY <2>1, <2>2, <2>3 DEF AlertRows
<1> HIDE DEF row
<1>4. s \in Sessions /\ SessionOK(s, "commit")
  <2>1. PICK u \in Sessions : u = sess[r] /\ SessionOK(u, "insert_alert")
    BY <1>1
  <2>2. s = [u EXCEPT !.held = @ \cup {"alert"}, !.alertRow = row]
    BY <2>1
  <2> HIDE DEF s
  <2>3. s \in Sessions
    BY <1>3, <2>2 DEF Sessions
  <2>4. SessionOK(s, "commit")
    BY <1>3, <2>1, <2>2 DEF Sessions, SessionOK, Busy, Inserted, Scored
  <2> QED
    BY <2>3, <2>4
<1> HIDE DEF s
<1> QED
  BY <1>2, <1>4, GotoKeepsTypes DEF Busy

(***************************************************************************)
(* The UPDATE of a flush: a row that keeps the columns the session did not *)
(* change, its key among them.                                             *)
(***************************************************************************)
LEMMA FlushedEntity ==
  ASSUME NEW row \in EntityRows, NEW loaded \in EntityRows, NEW now \in EntityRows
  PROVE  Flushed(row, loaded, now) \in EntityRows
BY DEF EntityRows, Flushed, Written, Dirty

LEMMA FlushedTxn ==
  ASSUME NEW row \in Rows, NEW loaded \in Rows, NEW now \in Rows,
         now.key = loaded.key
  PROVE  /\ Flushed(row, loaded, now) \in Rows
         /\ Flushed(row, loaded, now).key = row.key
BY DEF Rows, Flushed, Written, Dirty

\* What COMMIT makes of the call's transaction.
Committed(r) ==
  IF sess[r].fresh THEN sess[r].txnNow
                   ELSE Flushed(txns[sess[r].id], sess[r].txn, sess[r].txnNow)

LEMMA CommittedIsRow ==
  ASSUME TypeInv, FoundRows, NEW r \in Requests, pc[r] = "commit"
  PROVE  /\ sess[r].id \in TxnIds
         /\ Committed(r) \in Rows
         /\ sess[r].fresh => Committed(r).key = sess[r].txnNow.key
         /\ ~sess[r].fresh => Committed(r).key = txns[sess[r].id].key
<1>1. sess[r] \in Sessions /\ SessionOK(sess[r], "commit")
  BY DEF TypeInv, TypeOK, SessionsOK
<1>2. sess[r].id \in TxnIds /\ sess[r].txnNow \in Rows
  BY <1>1 DEF SessionOK, Busy
<1>3. CASE sess[r].fresh
  BY <1>2, <1>3 DEF Committed
<1>4. CASE ~sess[r].fresh
  <2>1. /\ Stored(sess[r].id) /\ sess[r].txn \in Rows
        /\ sess[r].txnNow.key = sess[r].txn.key
    BY <1>1, <1>4 DEF FoundRows, SessionOK, Busy
  <2>2. txns[sess[r].id] \in Rows
    BY <1>2, <2>1 DEF TypeInv, TypeOK, Stored
  <2> QED
    BY <1>2, <1>4, <2>1, <2>2, FlushedTxn DEF Committed
<1> QED
  BY <1>3, <1>4

LEMMA CommitKeepsTypes ==
  ASSUME TypeInv, FoundRows, NEW r \in Requests, Commit(r)
  PROVE  TypeInv'
<1>1. /\ pc[r] = "commit" /\ Answer(r, "ok", sess[r].id)
      /\ txns' = [txns EXCEPT ![sess[r].id] = Committed(r)]
      /\ entities' = IF sess[r].ent = NULL THEN entities
                      ELSE [entities EXCEPT ![sess[r].txnNow.entity] =
                              Flushed(@, sess[r].ent, sess[r].entNow)]
      /\ failures' = IF sess[r].failed THEN failures \cup {sess[r].id} ELSE failures
      /\ alerts' = IF sess[r].alert = NULL THEN alerts
                   ELSE [alerts EXCEPT ![sess[r].alert] = sess[r].alertRow]
  BY DEF Commit, Committed
<1>2. sess[r] \in Sessions /\ SessionOK(sess[r], "commit")
  BY <1>1 DEF TypeInv, TypeOK, SessionsOK
<1>3. sess[r].id \in TxnIds /\ Committed(r) \in Rows
  BY <1>1, CommittedIsRow
<1>4. txns' \in [TxnIds -> Rows \cup {NULL}]
  BY <1>1, <1>3 DEF TypeInv, TypeOK
<1>5. entities' \in [Entities -> EntityRows]
  <2>1. CASE sess[r].ent = NULL
    BY <1>1, <2>1 DEF TypeInv, TypeOK
  <2>2. CASE sess[r].ent # NULL
    <3>1. sess[r].ent \in EntityRows /\ sess[r].entNow \in EntityRows
      BY <1>1, <1>2, <2>2 DEF SessionOK, Scored, Inserted, Busy
    <3>2. entities \in [Entities -> EntityRows]
      BY DEF TypeInv, TypeOK
    <3>3. \A e \in Entities :
             Flushed(entities[e], sess[r].ent, sess[r].entNow) \in EntityRows
      BY <3>1, <3>2, FlushedEntity
    <3> QED
      BY <1>1, <2>2, <3>2, <3>3
  <2> QED
    BY <2>1, <2>2
<1>6. alerts' \in [AlertIds -> AlertRows \cup {NULL}]
  BY <1>1, <1>2 DEF TypeInv, TypeOK, SessionOK, Sessions
<1>7. failures' \subseteq TxnIds
  BY <1>1, <1>3 DEF TypeInv, TypeOK
<1> QED
  BY <1>1, <1>3, <1>4, <1>5, <1>6, <1>7, AnswerKeepsTypes

LEMMA StepKeepsTypes ==
  ASSUME TypeInv, FoundRows, [Next]_vars
  PROVE  TypeInv'
<1>1. CASE UNCHANGED vars
  BY <1>1 DEF vars, TypeInv, TypeOK, SessionsOK, SessionOK
<1>2. CASE Finished
  BY <1>1, <1>2 DEF Finished
<1>3. ASSUME NEW r \in Requests, Step(r) PROVE TypeInv'
  <2>1. CASE VerifyEntity(r)
    BY <2>1, VerifyEntityKeepsTypes
  <2>2. CASE BeginRefused(r)
    BY <2>2, FailKeepsTypes DEF BeginRefused, Fail
  <2>3. CASE Lookup(r)
    BY <2>3, LookupKeepsTypes
  <2>4. CASE InsertRejected(r)
    BY <2>4, FailKeepsTypes DEF InsertRejected, Fail
  <2>5. CASE Insert(r)
    BY <2>5, InsertKeepsTypes
  <2>6. CASE Score(r)
    BY <2>6, ScoreDecides, ScoreKeepsTypes
  <2>7. CASE ScoreFails(r)
    BY <2>7, ScoreFailsDecides, ScoreKeepsTypes, FailKeepsTypes DEF Fail
  <2>8. CASE FlushTxn(r)
    BY <2>8, FlushTxnKeepsTypes
  <2>9. CASE FlushEntity(r)
    BY <2>9, FlushEntityKeepsTypes
  <2>10. CASE SelectAlert(r)
    BY <2>10, SelectAlertKeepsTypes
  <2>11. CASE AlertRejected(r)
    BY <2>11, FailKeepsTypes DEF AlertRejected, Fail
  <2>12. CASE InsertAlert(r)
    BY <2>12, InsertAlertKeepsTypes
  <2>13. CASE Commit(r)
    BY <2>13, CommitKeepsTypes
  <2> QED
    BY <1>3, <2>1, <2>2, <2>3, <2>4, <2>5, <2>6, <2>7, <2>8, <2>9, <2>10, <2>11,
       <2>12, <2>13 DEF Step
<1>4. ASSUME NEW r \in Requests, UpdateFails(r) \/ Abort(r) PROVE TypeInv'
  BY <1>4, UpdateFailsKeepsTypes, FailKeepsTypes DEF Abort, Fail
<1> QED
  BY <1>1, <1>2, <1>3, <1>4 DEF Next

----------------------------------------------------------------------------
(***************************************************************************)
(* Each step keeps the keys apart.  Only four kinds of step matter: one    *)
(* that leaves the row the call works on as it is, one that ends the call  *)
(* without a commit, the INSERT, and the COMMIT.                           *)
(***************************************************************************)
SameRow(r) ==
  /\ sess'[r].id = sess[r].id /\ sess'[r].fresh = sess[r].fresh
  /\ sess'[r].txn = sess[r].txn /\ sess'[r].txnNow.key = sess[r].txnNow.key

OthersStay(r) ==
  \A q \in Requests \ {r} : sess'[q] = sess[q] /\ pc'[q] = pc[q]

LEMMA SameRowKeepsKeys ==
  ASSUME KeyInv, NEW r \in Requests, pc[r] \in Inserted, pc'[r] \in Inserted,
         SameRow(r), OthersStay(r), txns' = txns
  PROVE  KeyInv'
<1>1. \A q \in Requests :
         /\ (pc'[q] \in Inserted) = (pc[q] \in Inserted)
         /\ (pc'[q] \in Busy) = (pc[q] \in Busy)
         /\ sess'[q].id = sess[q].id /\ sess'[q].fresh = sess[q].fresh
         /\ sess'[q].txn = sess[q].txn
         /\ sess'[q].txnNow.key = sess[q].txnNow.key
  BY DEF SameRow, OthersStay, Inserted
<1>2. FoundRows'
  BY <1>1 DEF KeyInv, FoundRows, Stored
<1>3. NewRowsAreNew'
  BY <1>1 DEF KeyInv, NewRowsAreNew, Inserting, Stored, KeyTaken
<1>4. NewRowsDiffer'
  BY <1>1 DEF KeyInv, NewRowsDiffer, Inserting
<1>5. OneRowPerKey'
  BY DEF KeyInv, OneRowPerKey, Stored
<1> QED
  BY <1>2, <1>3, <1>4, <1>5 DEF KeyInv

LEMMA EndKeepsKeys ==
  ASSUME KeyInv, NEW r \in Requests, pc'[r] \in Outside, OthersStay(r), txns' = txns
  PROVE  KeyInv'
<1>1. pc'[r] \notin Busy /\ pc'[r] \notin Inserted
  BY DEF Outside, Inserted, Busy
<1>2. FoundRows'
  BY <1>1 DEF KeyInv, FoundRows, Stored, OthersStay
<1>3. NewRowsAreNew'
  BY <1>1 DEF KeyInv, NewRowsAreNew, Inserting, Stored, KeyTaken, OthersStay
<1>4. NewRowsDiffer'
  BY <1>1 DEF KeyInv, NewRowsDiffer, Inserting, OthersStay
<1>5. OneRowPerKey'
  BY DEF KeyInv, OneRowPerKey, Stored
<1> QED
  BY <1>2, <1>3, <1>4, <1>5 DEF KeyInv

LEMMA FailKeepsKeys ==
  ASSUME TypeOK, KeyInv, NEW r \in Requests, Fail(r)
  PROVE  KeyInv'
<1>1. pc'[r] = "done" /\ OthersStay(r) /\ txns' = txns
  BY DEF Fail, Answer, tables, OthersStay, TypeOK
<1> QED
  BY <1>1, EndKeepsKeys DEF Outside

LEMMA UpdateFailsKeepsKeys ==
  ASSUME TypeOK, KeyInv, NEW r \in Requests, UpdateFails(r)
  PROVE  KeyInv'
<1>1. pc'[r] = "done" /\ OthersStay(r) /\ txns' = txns
  BY DEF UpdateFails, Answer, tables, OthersStay, TypeOK
<1> QED
  BY <1>1, EndKeepsKeys DEF Outside

LEMMA LookupKeepsKeys ==
  ASSUME TypeOK, KeyInv, NEW r \in Requests, Lookup(r)
  PROVE  KeyInv'
<1>1. sess[r] = Blank /\ OthersStay(r) /\ txns' = txns
  BY DEF Lookup, Goto, TypeOK, OthersStay
<1>2. /\ pc'[r] \in Busy
      /\ ~sess'[r].fresh =>
           /\ Stored(sess'[r].id) /\ txns[sess'[r].id].key = sess'[r].txn.key
           /\ sess'[r].txnNow.key = sess'[r].txn.key
      /\ sess'[r].fresh => pc'[r] = "insert"
  <2>1. CASE \E t \in TxnIds :
               /\ Stored(t)
               /\ sess' = [sess EXCEPT ![r].id = t, ![r].txn = txns[t],
                                       ![r].txnNow = txns[t]]
               /\ Goto(r, "score")
    <3>1. PICK t \in TxnIds :
               /\ Stored(t)
               /\ sess' = [sess EXCEPT ![r].id = t, ![r].txn = txns[t],
                                       ![r].txnNow = txns[t]]
               /\ Goto(r, "score")
      BY <2>1
    <3> DEFINE s == [Blank EXCEPT !.id = t, !.txn = txns[t], !.txnNow = txns[t]]
    <3>2. sess'[r] = s
      BY <1>1, <3>1 DEF TypeOK
    <3>3. s.id = t /\ s.txn = txns[t] /\ s.txnNow = txns[t] /\ s.fresh = FALSE
      BY DEF Blank
    <3>4. pc'[r] = "score"
      BY <3>1 DEF Goto, TypeOK
    <3> HIDE DEF s
    <3> QED
      BY <3>1, <3>2, <3>3, <3>4 DEF Busy
  <2>2. CASE \E t \in TxnIds : \E row :
               /\ sess' = [sess EXCEPT ![r].id = t, ![r].fresh = TRUE, ![r].txnNow = row]
               /\ Goto(r, "insert")
    <3>0. PICK t \in TxnIds : \E row :
               /\ sess' = [sess EXCEPT ![r].id = t, ![r].fresh = TRUE, ![r].txnNow = row]
               /\ Goto(r, "insert")
      BY <2>2
    <3>1. PICK row :
               /\ sess' = [sess EXCEPT ![r].id = t, ![r].fresh = TRUE, ![r].txnNow = row]
               /\ Goto(r, "insert")
      BY <3>0
    <3> DEFINE s == [Blank EXCEPT !.id = t, !.fresh = TRUE, !.txnNow = row]
    <3>2. sess'[r] = s
      BY <1>1, <3>1 DEF TypeOK
    <3>3. s.fresh = TRUE
      BY DEF Blank
    <3>4. pc'[r] = "insert"
      BY <3>1 DEF Goto, TypeOK
    <3> HIDE DEF s
    <3> QED
      BY <3>2, <3>3, <3>4 DEF Busy
  <2> QED
    BY <2>1, <2>2 DEF Lookup
<1>3. ~Inserting(r)'
  BY <1>2 DEF Inserting, Inserted
<1>4. FoundRows'
  BY <1>1, <1>2 DEF KeyInv, FoundRows, Stored, OthersStay
<1>5. NewRowsAreNew'
  BY <1>1, <1>3 DEF KeyInv, NewRowsAreNew, Inserting, Stored, KeyTaken, OthersStay
<1>6. NewRowsDiffer'
  BY <1>1, <1>3 DEF KeyInv, NewRowsDiffer, Inserting, OthersStay
<1>7. OneRowPerKey'
  BY <1>1 DEF KeyInv, OneRowPerKey, Stored
<1> QED
  BY <1>4, <1>5, <1>6, <1>7 DEF KeyInv

LEMMA InsertKeepsKeys ==
  ASSUME TypeInv, KeyInv, NEW r \in Requests, Insert(r)
  PROVE  KeyInv'
<1>1. sess \in [Requests -> Sessions] /\ pc \in [Requests -> Busy \cup Outside]
  BY DEF TypeInv, TypeOK, Busy, Outside
<1>2. sess[r] \in Sessions /\ SessionOK(sess[r], "insert")
  BY <1>1 DEF TypeInv, SessionsOK, Insert
<1>3. /\ SameRow(r) /\ OthersStay(r) /\ txns' = txns
      /\ pc[r] = "insert" /\ pc'[r] = "score"
  BY <1>1, <1>2 DEF Insert, Goto, SameRow, OthersStay, Sessions
<1>4. sess[r].fresh /\ ~Stored(sess[r].id) /\ ~KeyTaken(sess[r].txnNow.key)
  BY <1>2 DEF Insert, SessionOK
<1>5. \A q \in Requests \ {r} : Inserting(q) =>
         sess[q].id # sess[r].id /\ sess[q].txnNow.key # sess[r].txnNow.key
  <2> SUFFICES ASSUME NEW q \in Requests \ {r}, Inserting(q)
               PROVE  sess[q].id # sess[r].id /\ sess[q].txnNow.key # sess[r].txnNow.key
    OBVIOUS
  <2>1. "txn" \in sess[q].held
    BY DEF TypeInv, SessionsOK, SessionOK, Inserting
  <2> QED
    BY <2>1 DEF Insert, HoldsTxn, HoldsKey, Others, Inserting
<1>6. FoundRows'
  BY <1>3, <1>4 DEF KeyInv, FoundRows, SameRow, OthersStay, Stored
<1>7. NewRowsAreNew'
  BY <1>3, <1>4 DEF KeyInv, NewRowsAreNew, Inserting, SameRow, OthersStay, Stored, KeyTaken
<1>8. NewRowsDiffer'
  BY <1>3, <1>4, <1>5 DEF KeyInv, NewRowsDiffer, Inserting, SameRow, OthersStay
<1>9. OneRowPerKey'
  BY <1>3 DEF KeyInv, OneRowPerKey, Stored
<1> QED
  BY <1>6, <1>7, <1>8, <1>9 DEF KeyInv

LEMMA CommitKeepsKeys ==
  ASSUME TypeInv, KeyInv, NEW r \in Requests, Commit(r)
  PROVE  KeyInv'
<1>1. /\ pc[r] = "commit" /\ Answer(r, "ok", sess[r].id)
      /\ txns' = [txns EXCEPT ![sess[r].id] = Committed(r)]
  BY DEF Commit, Committed
<1>2. pc'[r] = "done" /\ OthersStay(r)
  BY <1>1 DEF Answer, OthersStay, TypeInv, TypeOK
<1>3. txns \in [TxnIds -> Rows \cup {NULL}]
  BY DEF TypeInv, TypeOK
<1>0. PICK t : t = sess[r].id
  OBVIOUS
<1>4. /\ t \in TxnIds /\ Committed(r) \in Rows /\ Committed(r) # NULL
      /\ sess[r].fresh => Committed(r).key = sess[r].txnNow.key
      /\ ~sess[r].fresh => Committed(r).key = txns[t].key
  BY <1>0, <1>1, CommittedIsRow, NullAssumption DEF KeyInv
<1>5. /\ sess[r].fresh => ~Stored(t) /\ ~KeyTaken(sess[r].txnNow.key)
      /\ ~sess[r].fresh => Stored(t)
  BY <1>0, <1>1 DEF KeyInv, NewRowsAreNew, Inserting, Inserted, Busy, FoundRows
<1>6. /\ Stored(t)' /\ txns'[t] = Committed(r)
      /\ \A u \in TxnIds \ {t} : txns'[u] = txns[u]
  BY <1>0, <1>1, <1>3, <1>4 DEF Stored
<1>7. \A u \in TxnIds : Stored(u) => Stored(u)' /\ txns'[u].key = txns[u].key
  BY <1>4, <1>5, <1>6 DEF Stored
<1>8. FoundRows'
  <2> SUFFICES ASSUME NEW q \in Requests, pc'[q] \in Busy, ~sess'[q].fresh
               PROVE  /\ Stored(sess[q].id)'
                      /\ txns'[sess'[q].id].key = sess'[q].txn.key
                      /\ sess'[q].txnNow.key = sess'[q].txn.key
    BY DEF FoundRows, Stored
  <2>1. q # r /\ sess'[q] = sess[q] /\ pc'[q] = pc[q]
    BY <1>2 DEF OthersStay, Busy
  <2>2. sess[q].id \in TxnIds
    BY <2>1 DEF TypeInv, SessionsOK, SessionOK
  <2> QED
    BY <1>7, <2>1, <2>2 DEF KeyInv, FoundRows, Stored
<1>9. NewRowsAreNew'
  <2> SUFFICES ASSUME NEW q \in Requests, Inserting(q)'
               PROVE  ~Stored(sess[q].id)' /\ ~KeyTaken(sess[q].txnNow.key)'
    BY DEF NewRowsAreNew, Stored, KeyTaken
  <2>1. q # r /\ sess'[q] = sess[q] /\ Inserting(q)
    BY <1>2 DEF OthersStay, Inserting, Inserted, Busy
  <2>2. ~Stored(sess[q].id) /\ ~KeyTaken(sess[q].txnNow.key)
    BY <2>1 DEF KeyInv, NewRowsAreNew
  <2>3. /\ sess[q].id \in TxnIds
        /\ sess[q].id # t
        /\ Committed(r).key # sess[q].txnNow.key
    <3>1. sess[q].id \in TxnIds
      BY <2>1 DEF TypeInv, SessionsOK, SessionOK, Inserting, Inserted
    <3>2. CASE sess[r].fresh
      BY <1>0, <1>1, <1>4, <2>1, <3>1, <3>2 DEF KeyInv, NewRowsDiffer, Inserting, Inserted, Busy
    <3>3. CASE ~sess[r].fresh
      BY <1>4, <1>5, <2>2, <3>1, <3>3 DEF KeyTaken
    <3> QED
      BY <3>2, <3>3
  <2> QED
    BY <1>6, <2>1, <2>2, <2>3 DEF Stored, KeyTaken
<1>10. NewRowsDiffer'
  BY <1>2 DEF KeyInv, NewRowsDiffer, Inserting, OthersStay, Inserted, Busy
<1>11. OneRowPerKey'
  <2> SUFFICES ASSUME NEW u \in TxnIds, NEW v \in TxnIds, Stored(u)', Stored(v)',
                      txns'[u].key = txns'[v].key
               PROVE  u = v
    BY DEF OneRowPerKey, Stored
  <2>1. CASE u # t /\ v # t
    BY <1>6, <2>1 DEF KeyInv, OneRowPerKey, Stored
  <2>2. ASSUME NEW w \in TxnIds, w # t, Stored(w)', txns'[w].key = txns'[t].key
        PROVE  FALSE
    <3>1. Stored(w) /\ txns[w].key = Committed(r).key
      BY <1>6, <2>2 DEF Stored
    <3>2. CASE sess[r].fresh
      BY <1>4, <1>5, <3>1, <3>2 DEF KeyTaken
    <3>3. CASE ~sess[r].fresh
      BY <1>4, <1>5, <2>2, <3>1, <3>3 DEF KeyInv, OneRowPerKey
    <3> QED
      BY <3>2, <3>3
  <2> QED
    BY <2>1, <2>2
<1> QED
  BY <1>8, <1>9, <1>10, <1>11 DEF KeyInv

LEMMA QuietStepKeepsKeys ==
  ASSUME TypeInv, KeyInv, NEW r \in Requests,
         \/ \E x : ScoredAs(r, x)
         \/ FlushTxn(r) \/ FlushEntity(r) \/ SelectAlert(r) \/ InsertAlert(r)
  PROVE  KeyInv'
<1>1. /\ sess \in [Requests -> Sessions] /\ sess[r] \in Sessions
      /\ pc \in [Requests -> Busy \cup Outside]
  BY DEF TypeInv, TypeOK, Busy, Outside
<1>2. CASE \E x : ScoredAs(r, x)
  <2>1. /\ SameRow(r) /\ OthersStay(r) /\ txns' = txns
        /\ pc[r] = "score" /\ pc'[r] = "flush_txn"
    BY <1>1, <1>2 DEF ScoredAs, Goto, SameRow, OthersStay
  <2> QED
    BY <2>1, SameRowKeepsKeys DEF Inserted, Busy
<1>3. CASE FlushTxn(r)
  <2>1. /\ SameRow(r) /\ OthersStay(r) /\ txns' = txns
        /\ pc[r] = "flush_txn" /\ pc'[r] = "flush_entity"
    BY <1>1, <1>3 DEF FlushTxn, Goto, SameRow, OthersStay, Sessions
  <2> QED
    BY <2>1, SameRowKeepsKeys DEF Inserted, Busy
<1>4. CASE FlushEntity(r)
  <2>1. /\ SameRow(r) /\ OthersStay(r) /\ txns' = txns
        /\ pc[r] = "flush_entity" /\ pc'[r] = "alert"
    BY <1>1, <1>4 DEF FlushEntity, Goto, SameRow, OthersStay, Sessions
  <2> QED
    BY <2>1, SameRowKeepsKeys DEF Inserted, Busy
<1>5. CASE SelectAlert(r)
  <2>1. /\ SameRow(r) /\ OthersStay(r) /\ txns' = txns
        /\ pc[r] = "alert" /\ pc'[r] \in {"insert_alert", "commit"}
    BY <1>1, <1>5 DEF SelectAlert, Goto, SameRow, OthersStay, Sessions
  <2> QED
    BY <2>1, SameRowKeepsKeys DEF Inserted, Busy
<1>6. CASE InsertAlert(r)
  <2>1. /\ SameRow(r) /\ OthersStay(r) /\ txns' = txns
        /\ pc[r] = "insert_alert" /\ pc'[r] = "commit"
    BY <1>1, <1>6 DEF InsertAlert, Goto, SameRow, OthersStay, Sessions
  <2> QED
    BY <2>1, SameRowKeepsKeys DEF Inserted, Busy
<1> QED
  BY <1>2, <1>3, <1>4, <1>5, <1>6

LEMMA StepKeepsKeys ==
  ASSUME TypeInv, KeyInv, [Next]_vars
  PROVE  KeyInv'
<1>1. TypeOK
  BY DEF TypeInv
<1>2. CASE UNCHANGED vars
  BY <1>2 DEF vars, KeyInv, FoundRows, NewRowsAreNew, NewRowsDiffer, OneRowPerKey,
              Inserting, Stored, KeyTaken
<1>3. CASE Finished
  BY <1>2, <1>3 DEF Finished
<1>4. ASSUME NEW r \in Requests, Step(r) PROVE KeyInv'
  <2>1. CASE VerifyEntity(r)
    <3>1. CASE Answer(r, "missing", NULL) /\ UNCHANGED tables
      <4>1. pc'[r] = "done" /\ OthersStay(r) /\ txns' = txns
        BY <1>1, <3>1 DEF Answer, tables, OthersStay, TypeOK
      <4> QED
        BY <4>1, EndKeepsKeys DEF Outside
    <3>2. CASE Goto(r, "begin") /\ UNCHANGED sess
      <4>1. pc'[r] = "begin" /\ OthersStay(r) /\ txns' = txns
        BY <1>1, <3>2 DEF Goto, OthersStay, TypeOK
      <4> QED
        BY <4>1, EndKeepsKeys DEF Outside
    <3> QED
      BY <2>1, <3>1, <3>2 DEF VerifyEntity
  <2>2. CASE BeginRefused(r) \/ InsertRejected(r) \/ AlertRejected(r)
    BY <1>1, <2>2, FailKeepsKeys DEF BeginRefused, InsertRejected, AlertRejected
  <2>3. CASE Lookup(r)
    BY <1>1, <2>3, LookupKeepsKeys
  <2>4. CASE Insert(r)
    BY <2>4, InsertKeepsKeys
  <2>5. CASE Score(r)
    BY <2>5, ScoreDecides, QuietStepKeepsKeys
  <2>6. CASE ScoreFails(r)
    BY <1>1, <2>6, ScoreFailsDecides, QuietStepKeepsKeys, FailKeepsKeys
  <2>7. CASE FlushTxn(r) \/ FlushEntity(r) \/ SelectAlert(r) \/ InsertAlert(r)
    BY <2>7, QuietStepKeepsKeys
  <2>8. CASE Commit(r)
    BY <2>8, CommitKeepsKeys
  <2> QED
    BY <1>4, <2>1, <2>2, <2>3, <2>4, <2>5, <2>6, <2>7, <2>8 DEF Step
<1>5. ASSUME NEW r \in Requests, UpdateFails(r) \/ Abort(r) PROVE KeyInv'
  BY <1>1, <1>5, UpdateFailsKeepsKeys, FailKeepsKeys DEF Abort
<1> QED
  BY <1>2, <1>3, <1>4, <1>5 DEF Next

----------------------------------------------------------------------------
(***************************************************************************)
(* Alerts.  What makes the look for an alert and the INSERT of one atomic  *)
(* is the lock of the transaction's row, taken before: a call that will    *)
(* insert an alert (Writing) holds it, and no two calls hold one row       *)
(* (Apart).  A new row is locked since its INSERT.  A call that found its  *)
(* row asks for an alert only if the scores it stores show why (Asked);    *)
(* were they loaded so, there would be an alert (LoadedAlerted), so they   *)
(* have changed, and the flush has locked the row (LockHeld).  Hence an    *)
(* alert that was not there when the call looked is not there when it      *)
(* commits (AlertNew), and whatever is suspicious in the row it commits    *)
(* has called for one (Alarmed).                                           *)
(***************************************************************************)
Alerted(t) == \E a \in AlertIds : alerts[a] # NULL /\ alerts[a].txn = t

\* The stored form of suspicion: the scores of a row mean an alert.
ScoredHasAlert == \A t \in TxnIds : Stored(t) /\ Hit(txns[t]) => Alerted(t)

Unanswered(r) == pc[r] # "done" => answer[r].status = "none"

\* The row a call works on is its own, or the stored one but for the scores.
OwnRow(r) == pc[r] \in Busy =>
  /\ sess[r].txnNow.key = IdemKey(req[r])
  /\ sess[r].fresh => sess[r].txnNow.body = req[r].txn
  /\ ~sess[r].fresh =>
       /\ ~sess[r].failed
       /\ sess[r].txnNow.body = sess[r].txn.body
       /\ sess[r].txnNow.entity = sess[r].txn.entity
       /\ txns[sess[r].id].body = sess[r].txn.body
       /\ txns[sess[r].id].entity = sess[r].txn.entity

LoadedAlerted(r) ==
  pc[r] \in Busy /\ ~sess[r].fresh /\ Hit(sess[r].txn) => Alerted(sess[r].id)

Alarmed(r) ==
  pc[r] \in Scored /\ (Hit(sess[r].txnNow) \/ FlagReasons(req[r].txn) # {})
    => sess[r].final_alert

Asked(r) ==
  pc[r] \in Scored /\ sess[r].final_alert /\ ~sess[r].fresh => Hit(sess[r].txnNow)

WorkSound(r) ==
  Unanswered(r) /\ OwnRow(r) /\ LoadedAlerted(r) /\ Alarmed(r) /\ Asked(r)

\* A call that ends without a new alert has found one, or needs none.
AlertKnown(r) ==
  pc[r] = "commit" /\ sess[r].final_alert /\ sess[r].alert = NULL => Alerted(sess[r].id)

\* The calls with an inserted, uncommitted alert.
Alerting(r) == pc[r] = "commit" /\ sess[r].alert # NULL

\* The calls that have inserted an alert, or will unless they find one.
Writing(r) ==
  \/ /\ pc[r] \in {"flush_entity", "alert"}
     /\ sess[r].final_alert /\ ~Alerted(sess[r].id)
  \/ pc[r] = "insert_alert"
  \/ Alerting(r)

LockHeld(r) == Writing(r) => "txn" \in sess[r].held

AlertNew(r) == pc[r] = "insert_alert" \/ Alerting(r) => ~Alerted(sess[r].id)

AlertWritten(r) == Alerting(r) =>
  /\ sess[r].alertRow.txn = sess[r].id
  /\ sess[r].alertRow.entity = sess[r].txnNow.entity
  /\ alerts[sess[r].alert] = NULL
  /\ "alert" \in sess[r].held

CallSound(r) ==
  WorkSound(r) /\ LockHeld(r) /\ AlertKnown(r) /\ AlertNew(r) /\ AlertWritten(r)

Apart(q, r) ==
  /\ "txn" \in sess[q].held /\ "txn" \in sess[r].held => sess[q].id # sess[r].id
  /\ Alerting(q) /\ Alerting(r) => sess[q].alert # sess[r].alert

CallsSound == \A r \in Requests : CallSound(r)

CallsApart == \A q, r \in Requests : q # r => Apart(q, r)

AlertInv ==
  /\ CallsSound /\ CallsApart /\ ScoredHasAlert
  /\ OneAlertPerTransaction /\ SuspiciousHasAlert /\ NoOrphans

(***************************************************************************)
(* A step that moves one call and no table.                                *)
(***************************************************************************)
LEMMA OneCallMoves ==
  ASSUME AlertInv, NEW r \in Requests, OthersStay(r),
         UNCHANGED <<req, txns, alerts, failures>>,
         \A q \in Requests \ {r} : answer'[q] = answer[q],
         CallSound(r)', \A q \in Requests \ {r} : Apart(q, r)'
  PROVE  AlertInv'
<1>1. CallsSound'
  <2> SUFFICES ASSUME NEW q \in Requests \ {r} PROVE CallSound(q)'
    BY DEF CallsSound, CallSound, WorkSound, Unanswered, OwnRow, LoadedAlerted, Alarmed,
           Asked, LockHeld, Writing, AlertKnown, AlertNew, AlertWritten, Alerting, Alerted
  <2>1. CallSound(q) /\ sess'[q] = sess[q] /\ pc'[q] = pc[q] /\ answer'[q] = answer[q]
    BY DEF AlertInv, CallsSound, OthersStay
  <2> QED
    BY <2>1 DEF CallSound, WorkSound, Unanswered, OwnRow, LoadedAlerted, Alarmed, Asked,
                LockHeld, Writing, AlertKnown, AlertNew, AlertWritten, Alerting, Alerted
<1>2. CallsApart'
  <2> SUFFICES ASSUME NEW p \in Requests, NEW q \in Requests, p # q PROVE Apart(p, q)'
    BY DEF CallsApart, Apart, Alerting
  <2>1. CASE p # r /\ q # r
    BY <2>1 DEF AlertInv, CallsApart, Apart, Alerting, OthersStay
  <2>2. CASE q = r
    BY <2>2
  <2>3. CASE p = r
    <3>1. Apart(q, p)'
      BY <2>3
    <3> QED
      BY <3>1 DEF Apart
  <2> QED
    BY <2>1, <2>2, <2>3
<1>3. (OneAlertPerTransaction /\ SuspiciousHasAlert /\ NoOrphans)'
  BY DEF AlertInv, OneAlertPerTransaction, SuspiciousHasAlert, NoOrphans, AlertsOf, Stored
<1>4. ScoredHasAlert'
  BY DEF AlertInv, ScoredHasAlert, Stored, Alerted
<1> QED
  BY <1>1, <1>2, <1>3, <1>4 DEF AlertInv

\* A call without a lock of its transaction, and one that takes none, cannot clash.
LEMMA UnlockedIsApart ==
  ASSUME NEW r \in Requests, pc'[r] # "commit", "txn" \notin sess'[r].held
  PROVE  \A q \in Requests : Apart(q, r)'
BY DEF Apart, Alerting

LEMMA StaysApart ==
  ASSUME AlertInv, NEW r \in Requests, OthersStay(r), sess'[r].id = sess[r].id,
         "txn" \in sess'[r].held => "txn" \in sess[r].held, ~Alerting(r)'
  PROVE  \A q \in Requests \ {r} : Apart(q, r)'
BY DEF AlertInv, CallsApart, Apart, OthersStay

LEMMA EndKeepsAlerts ==
  ASSUME AlertInv, NEW r \in Requests, OthersStay(r), sess'[r] = Blank,
         UNCHANGED <<req, txns, alerts, failures>>,
         \A q \in Requests \ {r} : answer'[q] = answer[q],
         \/ pc'[r] = "done"
         \/ pc[r] # "done" /\ pc'[r] = "begin" /\ answer'[r] = answer[r]
  PROVE  AlertInv'
<1>1. /\ pc'[r] \notin Busy /\ pc'[r] \notin Scored /\ pc'[r] # "commit"
      /\ "txn" \notin sess'[r].held
  BY DEF Busy, Scored, Inserted, Blank
<1>2. CallSound(r)'
  BY <1>1 DEF AlertInv, CallsSound, CallSound, WorkSound, Unanswered, OwnRow,
              LoadedAlerted, Alarmed, Asked, LockHeld, Writing, AlertKnown, AlertNew,
              AlertWritten, Alerting
<1> QED
  BY <1>1, <1>2, UnlockedIsApart, OneCallMoves

LEMMA AnswerKeepsAlerts ==
  ASSUME TypeOK, AlertInv, NEW r \in Requests, NEW status, NEW t,
         Answer(r, status, t), UNCHANGED tables
  PROVE  AlertInv'
<1>1. /\ pc'[r] = "done" /\ OthersStay(r) /\ UNCHANGED <<req, txns, alerts, failures>>
      /\ \A q \in Requests \ {r} : answer'[q] = answer[q]
      /\ sess'[r] = Blank
  BY DEF Answer, tables, OthersStay, TypeOK
<1> QED
  BY <1>1, EndKeepsAlerts

LEMMA LookupKeepsAlerts ==
  ASSUME TypeOK, AlertInv, NEW r \in Requests, Lookup(r)
  PROVE  AlertInv'
<1>1. /\ sess[r] = Blank /\ OthersStay(r) /\ pc[r] = "begin"
      /\ UNCHANGED <<req, answer, txns, alerts, failures>>
  BY DEF Lookup, Goto, TypeOK, OthersStay
<1>2. /\ OwnRow(r)' /\ LoadedAlerted(r)' /\ pc'[r] \in {"insert", "score"}
      /\ sess'[r].held = {}
  <2>1. CASE \E t \in TxnIds :
               /\ Stored(t) /\ txns[t].key = IdemKey(req[r])
               /\ sess' = [sess EXCEPT ![r].id = t, ![r].txn = txns[t],
                                       ![r].txnNow = txns[t]]
               /\ Goto(r, "score")
    <3>1. PICK t \in TxnIds :
               /\ Stored(t) /\ txns[t].key = IdemKey(req[r])
               /\ sess' = [sess EXCEPT ![r].id = t, ![r].txn = txns[t],
                                       ![r].txnNow = txns[t]]
               /\ Goto(r, "score")
      BY <2>1
    <3> DEFINE s == [Blank EXCEPT !.id = t, !.txn = txns[t], !.txnNow = txns[t]]
    <3>2. sess'[r] = s /\ pc'[r] = "score"
      BY <1>1, <3>1 DEF TypeOK, Goto
    <3>3. /\ s.id = t /\ s.txn = txns[t] /\ s.txnNow = txns[t]
          /\ s.fresh = FALSE /\ s.failed = FALSE /\ s.held = {}
      BY DEF Blank
    <3> HIDE DEF s
    <3>4. Hit(txns[t]) => Alerted(t)
      BY <3>1 DEF AlertInv, ScoredHasAlert
    <3>5. OwnRow(r)'
      BY <1>1, <3>1, <3>2, <3>3 DEF OwnRow
    <3>6. LoadedAlerted(r)'
      BY <1>1, <3>2, <3>3, <3>4 DEF LoadedAlerted, Alerted
    <3> QED
      BY <3>2, <3>3, <3>5, <3>6
  <2>2. CASE \E t \in TxnIds :
               /\ sess' = [sess EXCEPT ![r].id = t, ![r].fresh = TRUE,
                    ![r].txnNow =
                      [key |-> IdemKey(req[r]), entity |-> req[r].entity,
                       body |-> req[r].txn, risk_score |-> RuleScore(req[r].txn),
                       ml_score |-> 0, is_flagged |-> FlagReasons(req[r].txn) # {}]]
               /\ Goto(r, "insert")
    <3> DEFINE row == [key |-> IdemKey(req[r]), entity |-> req[r].entity,
                       body |-> req[r].txn, risk_score |-> RuleScore(req[r].txn),
                       ml_score |-> 0, is_flagged |-> FlagReasons(req[r].txn) # {}]
    <3>1. PICK t \in TxnIds :
               /\ sess' = [sess EXCEPT ![r].id = t, ![r].fresh = TRUE, ![r].txnNow = row]
               /\ Goto(r, "insert")
      BY <2>2
    <3>2. row.key = IdemKey(req[r]) /\ row.body = req[r].txn
      OBVIOUS
    <3> HIDE DEF row
    <3> DEFINE s == [Blank EXCEPT !.id = t, !.fresh = TRUE, !.txnNow = row]
    <3>3. sess'[r] = s /\ pc'[r] = "insert"
      BY <1>1, <3>1 DEF TypeOK, Goto
    <3>4. s.txnNow = row /\ s.fresh = TRUE /\ s.held = {}
      BY DEF Blank
    <3> HIDE DEF s
    <3> QED
      BY <1>1, <3>2, <3>3, <3>4 DEF OwnRow, LoadedAlerted
  <2> QED
    BY <2>1, <2>2 DEF Lookup
<1>3. CallSound(r)'
  <2>1. /\ pc'[r] \notin Scored
        /\ pc'[r] \notin {"flush_entity", "alert", "insert_alert", "commit"}
    BY <1>2 DEF Scored, Inserted
  <2>2. Unanswered(r)'
    BY <1>1 DEF AlertInv, CallsSound, CallSound, WorkSound, Unanswered
  <2> QED
    BY <1>2, <2>1, <2>2 DEF CallSound, WorkSound, Alarmed, Asked, LockHeld, Writing,
                            AlertKnown, AlertNew, AlertWritten, Alerting
<1> QED
  BY <1>1, <1>2, <1>3, UnlockedIsApart, OneCallMoves

\* The step leaves the call's work on its transaction as it is.
SameWork(r) ==
  /\ SameRow(r) /\ sess'[r].txnNow = sess[r].txnNow
  /\ sess'[r].failed = sess[r].failed /\ sess'[r].final_alert = sess[r].final_alert

LEMMA LockKeepsWork ==
  ASSUME TypeOK, NEW r \in Requests, NEW h, NEW p,
         sess' = [sess EXCEPT ![r].held = @ \cup h] \/ sess' = sess, Goto(r, p)
  PROVE  /\ SameWork(r) /\ OthersStay(r) /\ sess'[r].alert = sess[r].alert
         /\ pc'[r] = p /\ UNCHANGED <<req, answer, txns, alerts, failures>>
<1>1. sess \in [Requests -> Sessions] /\ pc'[r] = p /\ OthersStay(r)
      /\ UNCHANGED <<req, answer, txns, alerts, failures>>
  BY DEF TypeOK, Goto, OthersStay
<1> QED
  BY <1>1 DEF SameWork, SameRow, Sessions

LEMMA SameWorkIsSound ==
  ASSUME NEW r \in Requests, CallSound(r), SameWork(r),
         UNCHANGED <<req, answer, txns, alerts>>,
         pc[r] \in Busy, pc'[r] \in Busy, pc'[r] \in Scored => pc[r] \in Scored
  PROVE  WorkSound(r)'
<1>1. pc[r] # "done" /\ WorkSound(r)
  BY DEF Busy, CallSound
<1>2. Unanswered(r)'
  BY <1>1 DEF WorkSound, Unanswered
<1>3. OwnRow(r)'
  BY <1>1 DEF WorkSound, OwnRow, SameWork, SameRow
<1>4. LoadedAlerted(r)'
  BY <1>1 DEF WorkSound, LoadedAlerted, Alerted, SameWork, SameRow
<1>5. Alarmed(r)' /\ Asked(r)'
  BY <1>1 DEF WorkSound, Alarmed, Asked, SameWork, SameRow
<1> QED
  BY <1>2, <1>3, <1>4, <1>5 DEF WorkSound

LEMMA InsertKeepsAlerts ==
  ASSUME TypeInv, AlertInv, NEW r \in Requests, Insert(r)
  PROVE  AlertInv'
<1>1. TypeOK /\ CallSound(r) /\ sess[r] \in Sessions
  BY DEF TypeInv, TypeOK, AlertInv, CallsSound
<1>2. /\ SameWork(r) /\ OthersStay(r) /\ UNCHANGED <<req, answer, txns, alerts, failures>>
      /\ pc[r] = "insert" /\ pc'[r] = "score"
  BY <1>1, LockKeepsWork DEF Insert
<1>3. WorkSound(r)'
  BY <1>1, <1>2, SameWorkIsSound DEF Busy, Inserted, Scored
<1>4. CallSound(r)'
  BY <1>2, <1>3 DEF CallSound, LockHeld, Writing, AlertKnown, AlertNew, AlertWritten,
                    Alerting
<1>5. ASSUME NEW q \in Requests \ {r} PROVE Apart(q, r)'
  <2>1. ~HoldsTxn(q, sess[r].id) /\ sess'[q] = sess[q] /\ sess'[r].id = sess[r].id
    BY <1>2 DEF Insert, Others, OthersStay, SameWork, SameRow
  <2> QED
    BY <1>2, <2>1 DEF HoldsTxn, Apart, Alerting
<1> QED
  BY <1>2, <1>4, <1>5, OneCallMoves

(***************************************************************************)
(* The flush of a found row: it emits no UPDATE only if no score has       *)
(* changed, and then an alert that the scores call for is there.           *)
(***************************************************************************)
LEMMA FlushTxnLocks ==
  ASSUME TypeInv, AlertInv, NEW r \in Requests, FlushTxn(r), sess[r].final_alert
  PROVE  "txn" \in sess'[r].held \/ Alerted(sess[r].id)
<1>1. /\ sess \in [Requests -> Sessions] /\ sess[r] \in Sessions
      /\ SessionOK(sess[r], "flush_txn") /\ WorkSound(r) /\ pc[r] = "flush_txn"
  BY DEF TypeInv, TypeOK, SessionsOK, AlertInv, CallsSound, CallSound, FlushTxn
<1>2. pc[r] \in Busy /\ pc[r] \in Scored
  BY <1>1 DEF Busy, Inserted, Scored
<1>3. CASE sess[r].fresh
  BY <1>1, <1>3 DEF SessionOK, FlushTxn, Inserted, Busy
<1>4. CASE ~sess[r].fresh /\ Dirty(sess[r].txn, sess[r].txnNow) = {}
  <2>1. sess[r].txn \in Rows /\ sess[r].txnNow \in Rows
    BY <1>1, <1>4 DEF SessionOK, Busy
  <2>2. PICK loaded \in Rows, now \in Rows : loaded = sess[r].txn /\ now = sess[r].txnNow
    BY <2>1
  <2>3. now.is_flagged = loaded.is_flagged /\ now.risk_score = loaded.risk_score
    <3>1. \A c \in DOMAIN now : now[c] = loaded[c]
      BY <1>4, <2>2 DEF Dirty
    <3> QED
      BY <3>1 DEF Rows
  <2>4. Hit(sess[r].txnNow)
    BY <1>1, <1>2, <1>4 DEF WorkSound, Asked
  <2> QED
    BY <1>1, <1>2, <1>4, <2>2, <2>3, <2>4 DEF WorkSound, LoadedAlerted, Hit
<1>5. CASE ~sess[r].fresh /\ Dirty(sess[r].txn, sess[r].txnNow) # {}
  <2>1. sess'[r] = [sess[r] EXCEPT !.held = @ \cup {"txn"}]
    BY <1>1, <1>5 DEF FlushTxn
  <2> QED
    BY <1>1, <2>1 DEF Sessions
<1> QED
  BY <1>3, <1>4, <1>5

LEMMA FlushTxnKeepsAlerts ==
  ASSUME TypeInv, AlertInv, NEW r \in Requests, FlushTxn(r)
  PROVE  AlertInv'
<1>1. TypeOK /\ CallSound(r) /\ sess[r] \in Sessions
  BY DEF TypeInv, TypeOK, AlertInv, CallsSound
<1>2. /\ SameWork(r) /\ OthersStay(r) /\ UNCHANGED <<req, answer, txns, alerts, failures>>
      /\ pc[r] = "flush_txn" /\ pc'[r] = "flush_entity"
  BY <1>1, LockKeepsWork DEF FlushTxn
<1>3. WorkSound(r)'
  BY <1>1, <1>2, SameWorkIsSound DEF Busy, Inserted, Scored
<1>4. LockHeld(r)'
  <2>1. sess'[r].id = sess[r].id /\ sess'[r].final_alert = sess[r].final_alert
    BY <1>2 DEF SameWork, SameRow
  <2> QED
    BY <1>2, <2>1, FlushTxnLocks DEF LockHeld, Writing, Alerting, Alerted
<1>5. CallSound(r)'
  BY <1>2, <1>3, <1>4 DEF CallSound, AlertKnown, AlertNew, AlertWritten, Alerting
<1>6. ASSUME NEW q \in Requests \ {r} PROVE Apart(q, r)'
  <2>1. sess'[q] = sess[q] /\ sess'[r].id = sess[r].id /\ ~Alerting(r)'
    BY <1>2 DEF OthersStay, SameWork, SameRow, Alerting
  <2>2. sess'[r].held = sess[r].held \/ ~HoldsTxn(q, sess[r].id)
    BY DEF FlushTxn, Others
  <2>3. CASE sess'[r].held = sess[r].held
    BY <1>2, <2>1, <2>3, StaysApart
  <2>4. CASE ~HoldsTxn(q, sess[r].id)
    BY <2>1, <2>4 DEF HoldsTxn, Apart
  <2> QED
    BY <2>2, <2>3, <2>4
<1> QED
  BY <1>2, <1>5, <1>6, OneCallMoves

LEMMA ScoreKeepsAlerts ==
  ASSUME TypeInv, AlertInv, NEW r \in Requests, NEW x, ScoredAs(r, x)
  PROVE  AlertInv'
<1>1. WorkSound(r)
  BY DEF AlertInv, CallsSound, CallSound
<1>2. /\ sess'[r] = x /\ OthersStay(r) /\ UNCHANGED <<req, answer, txns, alerts, failures>>
      /\ pc[r] = "score" /\ pc'[r] = "flush_txn"
  BY DEF ScoredAs, Goto, TypeInv, TypeOK, OthersStay
<1>3. pc[r] \in Busy
  BY <1>2 DEF Busy
<1>4. WorkSound(r)'
  <2>1. OwnRow(r)'
    BY <1>1, <1>2, <1>3 DEF WorkSound, OwnRow, ScoredAs
  <2>2. LoadedAlerted(r)'
    BY <1>1, <1>2, <1>3 DEF WorkSound, LoadedAlerted, Alerted, ScoredAs
  <2>3. Alarmed(r)' /\ Asked(r)' /\ Unanswered(r)'
    BY <1>1, <1>2 DEF WorkSound, Alarmed, Asked, Unanswered, ScoredAs
  <2> QED
    BY <2>1, <2>2, <2>3 DEF WorkSound
<1>5. CallSound(r)'
  BY <1>2, <1>4 DEF CallSound, LockHeld, Writing, AlertKnown, AlertNew, AlertWritten,
                    Alerting
<1>6. \A q \in Requests \ {r} : Apart(q, r)'
  BY <1>2, StaysApart DEF ScoredAs, Alerting
<1> QED
  BY <1>2, <1>5, <1>6, OneCallMoves

LEMMA FlushEntityKeepsAlerts ==
  ASSUME TypeInv, AlertInv, NEW r \in Requests, FlushEntity(r)
  PROVE  AlertInv'
<1>1. TypeOK /\ CallSound(r) /\ sess[r] \in Sessions /\ sess \in [Requests -> Sessions]
  BY DEF TypeInv, TypeOK, AlertInv, CallsSound
<1>2. /\ SameWork(r) /\ OthersStay(r) /\ UNCHANGED <<req, answer, txns, alerts, failures>>
      /\ pc[r] = "flush_entity" /\ pc'[r] = "alert"
  BY <1>1, LockKeepsWork DEF FlushEntity
<1>3. WorkSound(r)'
  BY <1>1, <1>2, SameWorkIsSound DEF Busy, Inserted, Scored
<1>4. "txn" \in sess'[r].held <=> "txn" \in sess[r].held
  <2>1. sess'[r] = sess[r] \/ sess'[r] = [sess[r] EXCEPT !.held = @ \cup {"entity"}]
    BY <1>1 DEF FlushEntity
  <2> QED
    BY <1>1, <2>1 DEF Sessions
<1>5. LockHeld(r)'
  BY <1>1, <1>2, <1>4 DEF CallSound, LockHeld, Writing, Alerting, Alerted, SameWork, SameRow
<1>6. CallSound(r)'
  BY <1>2, <1>3, <1>5 DEF CallSound, AlertKnown, AlertNew, AlertWritten, Alerting
<1>7. \A q \in Requests \ {r} : Apart(q, r)'
  BY <1>2, <1>4, StaysApart DEF Alerting, SameWork, SameRow
<1> QED
  BY <1>2, <1>6, <1>7, OneCallMoves

LEMMA SelectAlertKeepsAlerts ==
  ASSUME TypeInv, AlertInv, NEW r \in Requests, SelectAlert(r)
  PROVE  AlertInv'
<1>1. /\ TypeOK /\ CallSound(r) /\ sess[r] \in Sessions /\ pc[r] = "alert"
      /\ sess[r].alert = NULL
  <2>1. sess[r] \in Sessions /\ SessionOK(sess[r], "alert")
    BY DEF TypeInv, TypeOK, SessionsOK, SelectAlert
  <2> QED
    BY <2>1 DEF TypeInv, AlertInv, CallsSound, SelectAlert, SessionOK, Busy
<1>2. CASE /\ ~sess[r].final_alert \/ Alerted(sess[r].id)
           /\ sess' = sess /\ Goto(r, "commit")
  <2>1. /\ SameWork(r) /\ OthersStay(r) /\ UNCHANGED <<req, answer, txns, alerts, failures>>
        /\ pc'[r] = "commit" /\ sess'[r].alert = NULL
    BY <1>1, <1>2, LockKeepsWork
  <2>2. WorkSound(r)'
    BY <1>1, <2>1, SameWorkIsSound DEF Busy, Inserted, Scored
  <2>3. CallSound(r)'
    BY <1>1, <1>2, <2>1, <2>2 DEF CallSound, LockHeld, Writing, AlertKnown, AlertNew,
                                  AlertWritten, Alerting, Alerted
  <2>4. \A q \in Requests \ {r} : Apart(q, r)'
    BY <1>2, <2>1, StaysApart DEF Alerting
  <2> QED
    BY <2>1, <2>3, <2>4, OneCallMoves
<1>3. CASE /\ sess[r].final_alert /\ ~Alerted(sess[r].id) /\ Goto(r, "insert_alert")
           /\ \E a \in AlertIds : sess' = [sess EXCEPT ![r].alert = a]
  <2>1. PICK a \in AlertIds : sess' = [sess EXCEPT ![r].alert = a]
    BY <1>3
  <2>2. sess'[r] = [sess[r] EXCEPT !.alert = a]
    BY <1>1, <2>1 DEF TypeOK
  <2>3. SameWork(r) /\ sess'[r].held = sess[r].held
    BY <1>1, <2>2 DEF SameWork, SameRow, Sessions
  <2>4. /\ OthersStay(r) /\ UNCHANGED <<req, answer, txns, alerts, failures>>
        /\ pc'[r] = "insert_alert"
    BY <1>1, <1>3, <2>1 DEF Goto, TypeOK, OthersStay
  <2>5. WorkSound(r)'
    BY <1>1, <2>3, <2>4, SameWorkIsSound DEF Busy, Inserted, Scored
  <2>6. CallSound(r)'
    BY <1>1, <1>3, <2>3, <2>4, <2>5
       DEF CallSound, LockHeld, Writing, AlertKnown, AlertNew, AlertWritten, Alerting,
           Alerted, SameWork, SameRow
  <2>7. \A q \in Requests \ {r} : Apart(q, r)'
    BY <2>3, <2>4, StaysApart DEF Alerting, SameWork, SameRow
  <2> QED
    BY <2>4, <2>6, <2>7, OneCallMoves
<1> QED
  BY <1>2, <1>3 DEF SelectAlert, Alerted

LEMMA InsertAlertKeepsAlerts ==
  ASSUME TypeInv, AlertInv, NEW r \in Requests, InsertAlert(r)
  PROVE  AlertInv'
<1>1. /\ TypeOK /\ CallSound(r) /\ sess[r] \in Sessions /\ pc[r] = "insert_alert"
      /\ sess[r].alert \in AlertIds
  <2>1. sess[r] \in Sessions /\ SessionOK(sess[r], "insert_alert")
    BY DEF TypeInv, TypeOK, SessionsOK, InsertAlert
  <2> QED
    BY <2>1 DEF TypeInv, AlertInv, CallsSound, InsertAlert, SessionOK
<1> DEFINE row == [txn |-> sess[r].id, entity |-> sess[r].txnNow.entity,
                   severity |-> Severity(sess[r].ensemble),
                   generated_by |-> GeneratedBy(sess[r].txnNow.is_flagged,
                                                FlagReasons(req[r].txn))]
<1>2. /\ sess' = [sess EXCEPT ![r].held = @ \cup {"alert"}, ![r].alertRow = row]
      /\ row.txn = sess[r].id /\ row.entity = sess[r].txnNow.entity
  BY DEF InsertAlert
<1> HIDE DEF row
<1>3. sess'[r] = [sess[r] EXCEPT !.held = @ \cup {"alert"}, !.alertRow = row]
  BY <1>1, <1>2 DEF TypeOK
<1>4. /\ SameWork(r) /\ sess'[r].alert = sess[r].alert /\ sess'[r].alertRow = row
      /\ sess'[r].held = sess[r].held \cup {"alert"}
  BY <1>1, <1>3 DEF SameWork, SameRow, Sessions
<1>5. /\ OthersStay(r) /\ UNCHANGED <<req, answer, txns, alerts, failures>>
      /\ pc'[r] = "commit" /\ alerts[sess[r].alert] = NULL
  BY <1>1, <1>2 DEF InsertAlert, Goto, TypeOK, OthersStay
<1>6. WorkSound(r)'
  BY <1>1, <1>4, <1>5, SameWorkIsSound DEF Busy, Inserted, Scored
<1>7. sess'[r].alert # NULL
  BY <1>1, <1>4, ServiceAssumption
<1>8. CallSound(r)'
  <2>1. LockHeld(r)'
    BY <1>1, <1>4, <1>5 DEF CallSound, LockHeld, Writing
  <2>2. AlertKnown(r)' /\ AlertNew(r)'
    BY <1>1, <1>4, <1>5, <1>7 DEF CallSound, AlertKnown, AlertNew, Alerted, SameWork, SameRow
  <2>3. AlertWritten(r)'
    BY <1>2, <1>4, <1>5 DEF AlertWritten, SameWork, SameRow
  <2> QED
    BY <1>6, <2>1, <2>2, <2>3 DEF CallSound
<1>9. ASSUME NEW q \in Requests \ {r} PROVE Apart(q, r)'
  <2>1. AlertWritten(q) /\ ~HoldsAlert(q, sess[r].alert) /\ Apart(q, r)
    BY DEF AlertInv, CallsSound, CallSound, CallsApart, InsertAlert, Others
  <2>2. sess'[q] = sess[q] /\ pc'[q] = pc[q]
    BY <1>5 DEF OthersStay
  <2>3. Alerting(q)' => sess'[q].alert # sess'[r].alert
    BY <1>4, <2>1, <2>2 DEF Alerting, AlertWritten, HoldsAlert
  <2> QED
    BY <1>4, <2>1, <2>2, <2>3 DEF Apart, SameWork, SameRow
<1> QED
  BY <1>5, <1>8, <1>9, OneCallMoves

(***************************************************************************)
(* COMMIT.  A committed row keeps the entity and the body it was stored    *)
(* with; it is suspicious only if it was or if the call has found it so.   *)
(***************************************************************************)
LEMMA FlushedKeeps ==
  ASSUME NEW row \in Rows, NEW loaded \in Rows, NEW now \in Rows,
         now.entity = loaded.entity, now.body = loaded.body
  PROVE  /\ Flushed(row, loaded, now).entity = row.entity
         /\ Flushed(row, loaded, now).body = row.body
         /\ Flushed(row, loaded, now).is_flagged \in {row.is_flagged, now.is_flagged}
         /\ Flushed(row, loaded, now).risk_score \in {row.risk_score, now.risk_score}
BY DEF Rows, Flushed, Written, Dirty

\* What COMMIT does, t being the call's transaction.
Commits(r, t) ==
  /\ t = sess[r].id /\ t \in TxnIds /\ pc[r] = "commit" /\ pc'[r] = "done"
  /\ OthersStay(r) /\ req' = req /\ \A q \in Requests \ {r} : answer'[q] = answer[q]
  /\ Stored(t)'
  /\ sess[r].fresh => ~Stored(t)
  /\ ~sess[r].fresh => Stored(t)
  /\ \A u \in TxnIds \ {t} : txns'[u] = txns[u]
  /\ ~sess[r].fresh =>
       /\ txns'[t].entity = txns[t].entity /\ txns'[t].body = txns[t].body
       /\ txns'[t].is_flagged \in {txns[t].is_flagged, sess[r].txnNow.is_flagged}
       /\ txns'[t].risk_score \in {txns[t].risk_score, sess[r].txnNow.risk_score}
  /\ sess[r].fresh => txns'[t] = sess[r].txnNow
  /\ txns'[t].entity = sess[r].txnNow.entity

LEMMA CommitCommits ==
  ASSUME TypeInv, KeyInv, AlertInv, NEW r \in Requests, Commit(r),
         NEW t, t = sess[r].id
  PROVE  Commits(r, t)
<1>1. /\ pc[r] = "commit" /\ Answer(r, "ok", sess[r].id)
      /\ txns' = [txns EXCEPT ![sess[r].id] = Committed(r)]
  BY DEF Commit, Committed
<1>2. /\ pc'[r] = "done" /\ OthersStay(r) /\ req' = req
      /\ \A q \in Requests \ {r} : answer'[q] = answer[q]
  BY <1>1 DEF Answer, OthersStay, TypeInv, TypeOK
<1>3. txns \in [TxnIds -> Rows \cup {NULL}]
  BY DEF TypeInv, TypeOK
<1>4. t = sess[r].id
  OBVIOUS
<1>5. t \in TxnIds /\ Committed(r) \in Rows /\ Committed(r) # NULL
  BY <1>1, <1>4, CommittedIsRow, NullAssumption DEF KeyInv
<1>6. /\ Stored(t)' /\ txns'[t] = Committed(r)
      /\ \A u \in TxnIds \ {t} : txns'[u] = txns[u]
  BY <1>1, <1>3, <1>4, <1>5 DEF Stored
<1>7. /\ sess[r].fresh => ~Stored(t)
      /\ ~sess[r].fresh => Stored(t)
  BY <1>1, <1>4 DEF KeyInv, NewRowsAreNew, Inserting, Inserted, Busy, FoundRows
<1>8. CASE sess[r].fresh
  <2>1. txns'[t] = sess[r].txnNow
    BY <1>6, <1>8 DEF Committed
  <2> QED
    BY <1>1, <1>2, <1>4, <1>5, <1>6, <1>7, <1>8, <2>1 DEF Commits
<1>9. CASE ~sess[r].fresh
  <2>1. SessionOK(sess[r], "commit") /\ OwnRow(r)
    BY <1>1 DEF TypeInv, SessionsOK, AlertInv, CallsSound, CallSound, WorkSound
  <2>2. sess[r].txn \in Rows /\ sess[r].txnNow \in Rows /\ txns[t] \in Rows
    BY <1>3, <1>5, <1>7, <1>9, <2>1 DEF SessionOK, Busy, Stored
  <2>3. /\ sess[r].txnNow.entity = sess[r].txn.entity
        /\ sess[r].txnNow.body = sess[r].txn.body
        /\ txns[t].entity = sess[r].txn.entity
    BY <1>1, <1>4, <1>9, <2>1 DEF OwnRow, Busy
  <2>4. txns'[t] = Flushed(txns[t], sess[r].txn, sess[r].txnNow)
    BY <1>4, <1>6, <1>9 DEF Committed
  <2>5. /\ txns'[t].entity = txns[t].entity /\ txns'[t].body = txns[t].body
        /\ txns'[t].is_flagged \in {txns[t].is_flagged, sess[r].txnNow.is_flagged}
        /\ txns'[t].risk_score \in {txns[t].risk_score, sess[r].txnNow.risk_score}
    BY <2>2, <2>3, <2>4, FlushedKeeps
  <2> QED
    BY <1>1, <1>2, <1>4, <1>5, <1>6, <1>7, <1>9, <2>3, <2>5 DEF Commits
<1> QED
  BY <1>8, <1>9

\* What COMMIT does to alerts: those there are stay, and the call's is added.
LEMMA CommitAlerts ==
  ASSUME TypeInv, AlertInv, NEW r \in Requests, Commit(r)
  PROVE  /\ \A a \in AlertIds : alerts[a] # NULL => alerts'[a] = alerts[a]
         /\ \A a \in AlertIds : alerts'[a] # alerts[a] => Alerting(r) /\ a = sess[r].alert
         /\ Alerting(r) => /\ sess[r].alert \in AlertIds
                           /\ alerts'[sess[r].alert] = sess[r].alertRow
                           /\ sess[r].alertRow # NULL
                           /\ sess[r].alertRow.txn = sess[r].id
                           /\ sess[r].alertRow.entity = sess[r].txnNow.entity
<1>1. pc[r] = "commit" /\ alerts \in [AlertIds -> AlertRows \cup {NULL}]
  BY DEF Commit, TypeInv, TypeOK
<1>2. CASE sess[r].alert = NULL
  BY <1>1, <1>2 DEF Commit, Alerting
<1>3. CASE sess[r].alert # NULL
  <2>1. sess[r] \in Sessions /\ SessionOK(sess[r], "commit") /\ AlertWritten(r)
    BY <1>1 DEF TypeInv, TypeOK, SessionsOK, AlertInv, CallsSound, CallSound
  <2>2. sess[r].alert \in AlertIds /\ sess[r].alertRow \in AlertRows
    <3>1. sess[r].alert \in AlertIds \cup {NULL}
      BY <2>1 DEF Sessions
    <3> QED
      BY <1>3, <2>1, <3>1 DEF SessionOK
  <2>3. alerts' = [alerts EXCEPT ![sess[r].alert] = sess[r].alertRow]
    BY <1>3 DEF Commit
  <2> QED
    BY <1>1, <1>3, <2>1, <2>2, <2>3, NullAssumption DEF Alerting, AlertWritten
<1> QED
  BY <1>2, <1>3

LEMMA CommitKeepsCalls ==
  ASSUME TypeInv, KeyInv, AlertInv, NEW r \in Requests, Commit(r)
  PROVE  (CallsSound /\ CallsApart)'
<1>0. PICK t : t = sess[r].id
  OBVIOUS
<1>1. Commits(r, t)
  BY <1>0, CommitCommits
<1>2. pc'[r] \notin Busy /\ pc'[r] \notin Scored /\ sess'[r].held = {}
  <2>1. sess'[r] = Blank
    BY DEF Commit, Answer, TypeInv, TypeOK
  <2> QED
    BY <1>1, <2>1 DEF Commits, Busy, Scored, Inserted, Blank
<1>3. CallSound(r)'
  BY <1>1, <1>2 DEF Commits, CallSound, WorkSound, Unanswered, OwnRow, LoadedAlerted,
                    Alarmed, Asked, LockHeld, Writing, AlertKnown, AlertNew, AlertWritten,
                    Alerting
<1>4. ASSUME NEW q \in Requests \ {r} PROVE CallSound(q)'
  <2>1. /\ sess'[q] = sess[q] /\ pc'[q] = pc[q] /\ req'[q] = req[q]
        /\ answer'[q] = answer[q] /\ CallSound(q)
    BY <1>1 DEF Commits, OthersStay, AlertInv, CallsSound
  <2>0. \A u : Alerted(u) => Alerted(u)'
    BY CommitAlerts DEF Alerted
  <2>2. (Unanswered(q) /\ LoadedAlerted(q) /\ Alarmed(q) /\ Asked(q) /\ LockHeld(q))'
    <3>1. (Unanswered(q) /\ Alarmed(q) /\ Asked(q))'
      BY <2>1 DEF CallSound, WorkSound, Unanswered, Alarmed, Asked
    <3>2. LoadedAlerted(q)'
      BY <2>0, <2>1 DEF CallSound, WorkSound, LoadedAlerted, Alerted
    <3>3. LockHeld(q)'
      BY <2>0, <2>1 DEF CallSound, LockHeld, Writing, Alerting, Alerted
    <3> QED
      BY <3>1, <3>2, <3>3
  <2>3. OwnRow(q)'
    <3>1. pc[q] \in Busy /\ ~sess[q].fresh => Stored(sess[q].id) /\ sess[q].id \in TxnIds
      BY DEF KeyInv, FoundRows, TypeInv, SessionsOK, SessionOK
    <3>2. \A u \in TxnIds : Stored(u) =>
             txns'[u].entity = txns[u].entity /\ txns'[u].body = txns[u].body
      BY <1>1 DEF Commits
    <3>3. OwnRow(q)
      BY <2>1 DEF CallSound, WorkSound
    <3> QED
      BY <2>1, <3>1, <3>2, <3>3 DEF OwnRow, IdemKey
  <2>4. AlertKnown(q)'
    BY <2>0, <2>1 DEF CallSound, AlertKnown, Alerted
  <2>5. AlertNew(q)'
    <3>1. SUFFICES ASSUME pc[q] = "insert_alert" \/ Alerting(q) PROVE ~Alerted(sess[q].id)'
      BY <2>1 DEF AlertNew, Alerting, Alerted
    <3>2. ~Alerted(sess[q].id)
      BY <2>1, <3>1 DEF CallSound, AlertNew
    <3>3. CASE ~Alerting(r)
      BY <2>1, <3>2, <3>3, CommitAlerts DEF Alerted
    <3>4. CASE Alerting(r)
      <4>1. LockHeld(q) /\ LockHeld(r) /\ Apart(q, r)
        BY DEF AlertInv, CallsSound, CallSound, CallsApart
      <4>2. sess[q].id # t
        BY <1>0, <3>1, <3>4, <4>1 DEF LockHeld, Writing, Apart
      <4>3. \A a \in AlertIds : alerts'[a] = alerts[a] \/ alerts'[a].txn = t
        BY <1>0, CommitAlerts
      <4> QED
        BY <2>1, <3>2, <4>2, <4>3 DEF Alerted
    <3> QED
      BY <3>3, <3>4
  <2>6. AlertWritten(q)'
    <3>1. SUFFICES ASSUME Alerting(q) PROVE AlertWritten(q)'
      BY <2>1 DEF AlertWritten, Alerting
    <3>2. AlertWritten(q) /\ sess[q].alert \in AlertIds
      <4>1. sess[q].alert \in AlertIds \cup {NULL}
        BY DEF TypeInv, TypeOK, Sessions
      <4> QED
        BY <2>1, <3>1, <4>1 DEF CallSound, Alerting
    <3>3. Alerting(r) => sess[q].alert # sess[r].alert
      BY <3>1 DEF AlertInv, CallsApart, Apart
    <3>4. alerts'[sess[q].alert] = alerts[sess[q].alert]
      BY <3>2, <3>3, CommitAlerts
    <3> QED
      BY <2>1, <3>1, <3>2, <3>4 DEF AlertWritten, Alerting
  <2> QED
    BY <2>2, <2>3, <2>4, <2>5, <2>6 DEF CallSound, WorkSound
<1>5. CallsApart'
  BY <1>1, <1>2 DEF Commits, OthersStay, AlertInv, CallsApart, Apart, Alerting
<1> QED
  BY <1>3, <1>4, <1>5 DEF CallsSound

LEMMA CommitKeepsTables ==
  ASSUME TypeInv, KeyInv, AlertInv, NEW r \in Requests, Commit(r)
  PROVE  (ScoredHasAlert /\ OneAlertPerTransaction /\ SuspiciousHasAlert /\ NoOrphans)'
<1>0. PICK t : t = sess[r].id
  OBVIOUS
<1>1. Commits(r, t) /\ CallSound(r)
  BY <1>0, CommitCommits DEF AlertInv, CallsSound
<1>2. alerts \in [AlertIds -> AlertRows \cup {NULL}]
  BY DEF TypeInv, TypeOK
<1>3. OneAlertPerTransaction'
  <2> SUFFICES ASSUME NEW a \in AlertIds, NEW b \in AlertIds, alerts'[a] # NULL,
                      alerts'[b] # NULL, alerts'[a].txn = alerts'[b].txn
               PROVE  a = b
    BY DEF OneAlertPerTransaction
  <2>1. ASSUME NEW c \in AlertIds, NEW d \in AlertIds, alerts'[c] # alerts[c],
               alerts'[d] = alerts[d], alerts'[d] # NULL, alerts'[c].txn = alerts'[d].txn
        PROVE  FALSE
    <3>1. Alerting(r) /\ alerts'[c].txn = t
      BY <1>0, <2>1, CommitAlerts
    <3>2. ~Alerted(t)
      BY <1>0, <1>1, <3>1 DEF CallSound, AlertNew
    <3> QED
      BY <2>1, <3>1, <3>2 DEF Alerted
  <2>2. CASE alerts'[a] = alerts[a] /\ alerts'[b] = alerts[b]
    BY <2>2 DEF AlertInv, OneAlertPerTransaction
  <2>3. CASE alerts'[a] # alerts[a] /\ alerts'[b] # alerts[b]
    BY <2>3, CommitAlerts
  <2> QED
    BY <2>1, <2>2, <2>3
<1>4. /\ \A u : Alerted(u) => Alerted(u)'
      /\ sess[r].final_alert => Alerted(t)'
  <2>1. \A u : Alerted(u) => Alerted(u)'
    BY CommitAlerts DEF Alerted
  <2>2. ASSUME sess[r].final_alert PROVE Alerted(t)'
    <3>1. pc[r] = "commit"
      BY <1>1 DEF Commits
    <3>2. CASE Alerting(r)
      BY <1>0, <3>2, CommitAlerts DEF Alerted
    <3>3. CASE ~Alerting(r)
      BY <1>0, <1>1, <2>1, <2>2, <3>1, <3>3 DEF CallSound, AlertKnown, Alerting
    <3> QED
      BY <3>2, <3>3
  <2> QED
    BY <2>1, <2>2
<1>5. /\ WorkSound(r) /\ pc[r] \in Scored /\ pc[r] \in Busy
      /\ Hit(sess[r].txnNow) \/ FlagReasons(req[r].txn) # {} => sess[r].final_alert
  BY <1>1 DEF Commits, CallSound, WorkSound, Alarmed, Scored, Inserted, Busy
<1>6. ScoredHasAlert'
  <2> SUFFICES ASSUME NEW u \in TxnIds, Stored(u)', Hit(txns'[u]) PROVE Alerted(u)'
    BY DEF ScoredHasAlert, Stored, Hit
  <2>1. Stored(u) /\ Hit(txns[u]) => Alerted(u)
    BY DEF AlertInv, ScoredHasAlert
  <2>2. CASE u # t
    BY <1>1, <1>4, <2>1, <2>2 DEF Commits, Stored
  <2>3. CASE u = t /\ sess[r].fresh
    BY <1>1, <1>4, <1>5, <2>3 DEF Commits
  <2>4. CASE u = t /\ ~sess[r].fresh
    BY <1>1, <1>4, <1>5, <2>1, <2>4 DEF Commits, Hit
  <2> QED
    BY <2>2, <2>3, <2>4
<1>7. SuspiciousHasAlert'
  <2> SUFFICES ASSUME NEW u \in TxnIds, Stored(u)',
                      txns'[u].is_flagged \/ FlagReasons(txns'[u].body) # {}
               PROVE  Alerted(u)'
    BY DEF SuspiciousHasAlert, AlertsOf, Alerted, Stored
  <2>1. Stored(u) /\ (txns[u].is_flagged \/ FlagReasons(txns[u].body) # {}) => Alerted(u)
    BY DEF AlertInv, SuspiciousHasAlert, AlertsOf, Alerted
  <2>2. CASE u # t
    BY <1>1, <1>4, <2>1, <2>2 DEF Commits, Stored
  <2>3. CASE u = t /\ sess[r].fresh
    <3>1. txns'[u] = sess[r].txnNow /\ sess[r].txnNow.body = req[r].txn
      BY <1>1, <1>5, <2>3 DEF Commits, WorkSound, OwnRow
    <3> QED
      BY <1>4, <1>5, <2>3, <3>1 DEF Hit
  <2>4. CASE u = t /\ ~sess[r].fresh
    BY <1>1, <1>4, <1>5, <2>1, <2>4 DEF Commits, Hit
  <2> QED
    BY <2>2, <2>3, <2>4
<1>8. NoOrphans'
  <2>1. \A u \in TxnIds : Stored(u) => Stored(u)' /\ txns'[u].entity = txns[u].entity
    BY <1>1 DEF Commits, Stored
  <2>2. Stored(t)' /\ txns'[t].entity = sess[r].txnNow.entity
    BY <1>1 DEF Commits
  <2>3. ASSUME NEW a \in AlertIds, alerts'[a] # NULL
        PROVE  Stored(alerts[a].txn)' /\ alerts'[a].entity = txns'[alerts'[a].txn].entity
    <3>1. CASE alerts'[a] = alerts[a]
      <4>1. alerts[a].txn \in TxnIds
        BY <1>2, <2>3, <3>1 DEF AlertRows
      <4>2. Stored(alerts[a].txn) /\ alerts[a].entity = txns[alerts[a].txn].entity
        BY <2>3, <3>1 DEF AlertInv, NoOrphans
      <4> QED
        BY <2>1, <3>1, <4>1, <4>2 DEF Stored
    <3>2. CASE alerts'[a] # alerts[a]
      <4>1. alerts'[a].txn = t /\ alerts'[a].entity = sess[r].txnNow.entity
        BY <1>0, <3>2, CommitAlerts
      <4> QED
        BY <2>2, <4>1 DEF Stored
    <3> QED
      BY <3>1, <3>2
  <2>4. ASSUME NEW u \in failures' PROVE Stored(u)'
    <3>1. u \in failures \/ u = t
      BY <1>0, <2>4 DEF Commit
    <3>2. failures \subseteq TxnIds
      BY DEF TypeInv, TypeOK
    <3> QED
      BY <2>1, <2>2, <3>1, <3>2 DEF AlertInv, NoOrphans, Stored
  <2> QED
    BY <2>3, <2>4 DEF NoOrphans, Stored
<1> QED
  BY <1>3, <1>6, <1>7, <1>8

LEMMA StepKeepsAlerts ==
  ASSUME TypeInv, KeyInv, AlertInv, [Next]_vars
  PROVE  AlertInv'
<1>1. TypeOK
  BY DEF TypeInv
<1>2. CASE UNCHANGED vars
  <2>1. CallsSound'
    BY <1>2 DEF vars, AlertInv, CallsSound, CallSound, WorkSound, Unanswered, OwnRow,
                LoadedAlerted, Alarmed, Asked, LockHeld, Writing, AlertKnown, AlertNew,
                AlertWritten, Alerting, Alerted
  <2>2. CallsApart'
    BY <1>2 DEF vars, AlertInv, CallsApart, Apart, Alerting
  <2>3. (ScoredHasAlert /\ OneAlertPerTransaction /\ SuspiciousHasAlert /\ NoOrphans)'
    BY <1>2 DEF vars, AlertInv, ScoredHasAlert, OneAlertPerTransaction, SuspiciousHasAlert,
                NoOrphans, AlertsOf, Alerted, Stored
  <2> QED
    BY <2>1, <2>2, <2>3 DEF AlertInv
<1>3. CASE Finished
  BY <1>2, <1>3 DEF Finished
<1>4. ASSUME NEW r \in Requests, Step(r) PROVE AlertInv'
  <2>1. CASE VerifyEntity(r)
    <3>1. CASE Answer(r, "missing", NULL) /\ UNCHANGED tables
      BY <1>1, <3>1, AnswerKeepsAlerts
    <3>2. CASE Goto(r, "begin") /\ UNCHANGED sess
      <4>1. /\ pc[r] # "done" /\ pc'[r] = "begin" /\ OthersStay(r) /\ sess'[r] = Blank
            /\ UNCHANGED <<req, answer, txns, alerts, failures>>
        BY <1>1, <2>1, <3>2 DEF VerifyEntity, Goto, OthersStay, TypeOK
      <4> QED
        BY <4>1, EndKeepsAlerts
    <3> QED
      BY <2>1, <3>1, <3>2 DEF VerifyEntity
  <2>2. CASE BeginRefused(r) \/ InsertRejected(r) \/ AlertRejected(r)
    BY <1>1, <2>2, AnswerKeepsAlerts DEF BeginRefused, InsertRejected, AlertRejected, Fail
  <2>3. CASE Lookup(r)
    BY <1>1, <2>3, LookupKeepsAlerts
  <2>4. CASE Insert(r) \/ FlushTxn(r)
    BY <2>4, InsertKeepsAlerts, FlushTxnKeepsAlerts
  <2>5. CASE Score(r)
    BY <2>5, ScoreDecides, ScoreKeepsAlerts
  <2>6. CASE ScoreFails(r)
    BY <1>1, <2>6, ScoreFailsDecides, ScoreKeepsAlerts, AnswerKeepsAlerts DEF Fail
  <2>7. CASE FlushEntity(r)
    BY <2>7, FlushEntityKeepsAlerts
  <2>8. CASE SelectAlert(r)
    BY <2>8, SelectAlertKeepsAlerts
  <2>9. CASE InsertAlert(r)
    BY <2>9, InsertAlertKeepsAlerts
  <2>10. CASE Commit(r)
    BY <2>10, CommitKeepsCalls, CommitKeepsTables DEF AlertInv
  <2> QED
    BY <1>4, <2>1, <2>2, <2>3, <2>4, <2>5, <2>6, <2>7, <2>8, <2>9, <2>10 DEF Step
<1>5. ASSUME NEW r \in Requests, UpdateFails(r) \/ Abort(r) PROVE AlertInv'
  BY <1>1, <1>5, AnswerKeepsAlerts DEF UpdateFails, Abort, Fail
<1> QED
  BY <1>2, <1>3, <1>4, <1>5 DEF Next

----------------------------------------------------------------------------
LEMMA InitIsSound == Init => TypeInv /\ KeyInv
<1> SUFFICES ASSUME Init PROVE TypeInv /\ KeyInv
  OBVIOUS
<1>1. \A r \in Requests : pc[r] \in {"posted", "begin"} /\ sess[r] = Blank
  BY DEF Init
<1>2. TypeOK
  <2>1. [risk_score |-> 0, risk_tier |-> "LOW"] \in EntityRows
    BY DEF EntityRows, Tiers
  <2>2. NoAnswer \in [status: {"none", "ok", "missing", "error"},
                      txn: TxnIds \cup {NULL}]
    BY DEF NoAnswer
  <2> QED
    BY <1>1, <2>1, <2>2, BlankIsSession DEF Init, TypeOK
<1>3. SessionsOK
  BY <1>1 DEF SessionsOK, SessionOK, Busy, Inserted, Scored
<1>4. \A t \in TxnIds : ~Stored(t)
  BY DEF Init, Stored
<1>5. OneRowPerKey
  BY <1>4 DEF OneRowPerKey
<1>6. FoundRows /\ NewRowsAreNew /\ NewRowsDiffer
  BY <1>1 DEF FoundRows, NewRowsAreNew, NewRowsDiffer, Inserting, Inserted, Busy
<1> QED
  BY <1>2, <1>3, <1>5, <1>6 DEF TypeInv, KeyInv

LEMMA ServiceInvariant == Spec => [](TypeInv /\ KeyInv)
<1>1. (TypeInv /\ KeyInv) /\ [Next]_vars => (TypeInv /\ KeyInv)'
  <2>1. KeyInv => FoundRows
    BY DEF KeyInv
  <2> QED
    BY <2>1, StepKeepsTypes, StepKeepsKeys
<1> QED
  BY <1>1, InitIsSound, PTL DEF Spec

(***************************************************************************)
(* The tables, the sessions and the answers of create_transaction always   *)
(* have their types, and a call that has not begun or has been answered    *)
(* has no session, however many calls, ids and entities there are.         *)
(***************************************************************************)
THEOREM ServiceTypesHold == Spec => []TypeOK
<1>1. TypeInv /\ KeyInv => TypeOK
  BY DEF TypeInv
<1> QED
  BY <1>1, ServiceInvariant, PTL

(***************************************************************************)
(* Idempotency of create_transaction: at no time are two transactions      *)
(* stored under one key, whatever calls overlap, fail or are retried.      *)
(***************************************************************************)
THEOREM KeysAreUnique == Spec => []OneRowPerKey
<1>1. TypeInv /\ KeyInv => OneRowPerKey
  BY DEF KeyInv
<1> QED
  BY <1>1, ServiceInvariant, PTL

LEMMA AlertsStartSound == Init => AlertInv
<1> SUFFICES ASSUME Init PROVE AlertInv
  OBVIOUS
<1>1. \A r \in Requests : /\ pc[r] \in {"posted", "begin"} /\ answer[r] = NoAnswer
                          /\ pc[r] \notin Busy /\ pc[r] \notin Scored /\ sess[r].held = {}
  BY DEF Init, Busy, Scored, Inserted, Blank
<1>2. \A r \in Requests : CallSound(r)
  BY <1>1 DEF NoAnswer, CallSound, WorkSound, Unanswered, OwnRow, LoadedAlerted, Alarmed,
              Asked, LockHeld, Writing, AlertKnown, AlertNew, AlertWritten, Alerting
<1>3. CallsApart
  BY <1>1 DEF CallsApart, Apart, Alerting
<1>4. ScoredHasAlert /\ OneAlertPerTransaction /\ SuspiciousHasAlert /\ NoOrphans
  <2>1. /\ \A t \in TxnIds : ~Stored(t)
        /\ \A a \in AlertIds : alerts[a] = NULL
        /\ failures = {}
    BY DEF Init, Stored
  <2> QED
    BY <2>1 DEF ScoredHasAlert, OneAlertPerTransaction, SuspiciousHasAlert, NoOrphans
<1> QED
  BY <1>2, <1>3, <1>4 DEF AlertInv, CallsSound

ServiceInv == TypeInv /\ KeyInv /\ AlertInv

LEMMA ServiceStaysSound == Spec => []ServiceInv
<1>1. AlertInv /\ (TypeInv /\ KeyInv) /\ [Next]_vars => AlertInv'
  BY StepKeepsAlerts
<1>2. TypeInv /\ KeyInv /\ AlertInv => ServiceInv
  BY DEF ServiceInv
<1> QED
  BY <1>1, <1>2, AlertsStartSound, ServiceInvariant, PTL DEF Spec

(***************************************************************************)
(* However many calls race for one transaction, retry it or abort, it      *)
(* never has two alerts.                                                   *)
(***************************************************************************)
THEOREM AlertsAreUnique == Spec => []OneAlertPerTransaction
<1>1. ServiceInv => OneAlertPerTransaction
  BY DEF ServiceInv, AlertInv
<1> QED
  BY <1>1, ServiceStaysSound, PTL

(***************************************************************************)
(* No transaction that the rules or the scorer called suspicious is stored *)
(* without an alert, whatever bodies come under its key later.             *)
(***************************************************************************)
THEOREM SuspicionIsAlerted == Spec => []SuspiciousHasAlert
<1>1. ServiceInv => SuspiciousHasAlert
  BY DEF ServiceInv, AlertInv
<1> QED
  BY <1>1, ServiceStaysSound, PTL

(***************************************************************************)
(* Every alert and every scoring failure names a stored transaction, and   *)
(* an alert is filed under that transaction's entity.                      *)
(***************************************************************************)
THEOREM NothingIsOrphaned == Spec => []NoOrphans
<1>1. ServiceInv => NoOrphans
  BY DEF ServiceInv, AlertInv
<1> QED
  BY <1>1, ServiceStaysSound, PTL

----------------------------------------------------------------------------
(***************************************************************************)
(* The refinement.  Under the mapping of TransactionService the COMMIT of  *)
(* a new row is Book, that of a found row Replay, the failure that         *)
(* update_risk_scores swallows Lose, any other end of a call Refuse, and   *)
(* every other step leaves the ledger alone.                               *)
(***************************************************************************)
booked == {[key |-> txns[t].key, txn |-> t] : t \in {u \in TxnIds : Stored(u)}}
alerted == {t \in TxnIds : AlertsOf(t) # {}}
ledger == <<req, booked, alerted, answer>>

LEMMA InitImplements == Init => Ledger!Init
<1> SUFFICES ASSUME Init PROVE Ledger!Init
  OBVIOUS
<1>1. \A t \in TxnIds : ~Stored(t) /\ AlertsOf(t) = {}
  BY DEF Init, Stored, AlertsOf
<1>2. booked = {} /\ alerted = {}
  BY <1>1 DEF booked, alerted
<1>3. DOMAIN [i \in Inputs |-> IdemKey(i)] = Inputs
  OBVIOUS
<1> QED
  BY <1>2, <1>3 DEF Init, NoAnswer, Ledger!Init, booked, alerted

LEMMA FailRefuses ==
  ASSUME TypeOK, AlertInv, NEW r \in Requests, pc[r] # "done",
         NEW status \in {"error", "missing"}, Answer(r, status, NULL), UNCHANGED tables
  PROVE  Ledger!Refuse(r)
<1>1. answer[r].status = "none"
  BY DEF AlertInv, CallsSound, CallSound, WorkSound, Unanswered
<1>2. booked' = booked /\ alerted' = alerted /\ req' = req
  BY DEF tables, booked, alerted, AlertsOf, Stored, Answer
<1>3. answer' = [answer EXCEPT ![r] = [status |-> status, txn |-> NULL]]
  BY DEF Answer
<1> QED
  BY <1>1, <1>2, <1>3 DEF Ledger!Refuse, Ledger!Pending, booked, alerted

LEMMA UpdateFailsLoses ==
  ASSUME ServiceInv, NEW r \in Requests, UpdateFails(r)
  PROVE  Ledger!Lose(r)
<1>1. PICK t : t = sess[r].id
  OBVIOUS
<1>2. /\ pc[r] # "done" /\ pc[r] \in Busy /\ pc[r] \in Inserted /\ pc[r] \in Scored
      /\ sess[r].fresh /\ ~sess[r].final_alert
  BY DEF UpdateFails, Scored, Inserted, Busy
<1>3. WorkSound(r) /\ SessionOK(sess[r], pc[r]) /\ req[r] \in Inputs
  BY DEF ServiceInv, AlertInv, CallsSound, CallSound, TypeInv, TypeOK, SessionsOK
<1>4. /\ t \in TxnIds /\ ~Stored(t) /\ ~KeyTaken(IdemKey(req[r]))
      /\ FlagReasons(req[r].txn) = {} /\ answer[r].status = "none"
  <2>1. sess[r].txnNow.key = IdemKey(req[r]) /\ answer[r].status = "none"
    BY <1>2, <1>3 DEF WorkSound, OwnRow, Unanswered
  <2>2. FlagReasons(req[r].txn) = {}
    BY <1>2, <1>3 DEF WorkSound, Alarmed
  <2>3. ~Stored(t) /\ ~KeyTaken(sess[r].txnNow.key)
    BY <1>1, <1>2 DEF ServiceInv, KeyInv, NewRowsAreNew, Inserting
  <2> QED
    BY <1>1, <1>2, <1>3, <2>1, <2>2, <2>3 DEF SessionOK
<1>5. \A e \in booked : e.key # IdemKey(req[r]) /\ e.txn # t
  BY <1>4 DEF booked, KeyTaken
<1>6. /\ answer' = [answer EXCEPT ![r] = [status |-> "ok", txn |-> t]]
      /\ req' = req /\ booked' = booked /\ alerted' = alerted
  BY <1>1 DEF UpdateFails, Answer, tables, booked, alerted, AlertsOf, Stored
<1>7. [i \in Inputs |-> IdemKey(i)][req[r]] = IdemKey(req[r])
  BY <1>3
<1>8. req[r] \notin {i \in Inputs : FlagReasons(i.txn) # {}}
  BY <1>4
<1> QED
  BY <1>4, <1>5, <1>6, <1>7, <1>8 DEF Ledger!Lose, Ledger!Pending, booked, alerted

LEMMA CommitServes ==
  ASSUME ServiceInv, NEW r \in Requests, Commit(r)
  PROVE  Ledger!Book(r) \/ Ledger!Replay(r)
<1>1. PICK t : t = sess[r].id
  OBVIOUS
<1>2. Commits(r, t) /\ CallSound(r)
  BY <1>1, CommitCommits DEF ServiceInv, AlertInv, CallsSound
<1>3. /\ t \in TxnIds /\ pc[r] = "commit" /\ pc[r] \in Busy /\ pc[r] \in Inserted
      /\ pc[r] \in Scored /\ req[r] \in Inputs
  BY <1>2 DEF Commits, Busy, Inserted, Scored, ServiceInv, TypeInv, TypeOK
<1>4. [i \in Inputs |-> IdemKey(i)][req[r]] = IdemKey(req[r])
  BY <1>3
<1>5. Ledger!Serve(r, t)
  <2>1. answer[r].status = "none"
    BY <1>2, <1>3 DEF CallSound, WorkSound, Unanswered
  <2>2. answer' = [answer EXCEPT ![r] = [status |-> "ok", txn |-> t]] /\ req' = req
    BY <1>1 DEF Commit, Answer
  <2>3. alerted' \in {alerted, alerted \cup {t}}
    <3>1. \A u \in TxnIds : Alerted(u) => Alerted(u)'
      BY CommitAlerts DEF Alerted, ServiceInv
    <3>2. \A u \in TxnIds \ {t} : Alerted(u)' => Alerted(u)
      BY <1>1, CommitAlerts DEF Alerted, ServiceInv
    <3>3. /\ alerted = {u \in TxnIds : Alerted(u)}
          /\ alerted' = {u \in TxnIds : Alerted(u)'}
      BY DEF alerted, AlertsOf, Alerted
    <3> QED
      BY <1>3, <3>1, <3>2, <3>3
  <2>4. ASSUME FlagReasons(req[r].txn) # {} PROVE t \in alerted'
    <3>1. sess[r].final_alert
      BY <1>2, <1>3, <2>4 DEF CallSound, WorkSound, Alarmed
    <3>2. Alerted(t)'
      <4>1. CASE Alerting(r)
        BY <1>1, <4>1, CommitAlerts DEF Alerted, ServiceInv
      <4>2. CASE ~Alerting(r)
        <5>1. Alerted(t)
          BY <1>1, <1>2, <1>3, <3>1, <4>2 DEF CallSound, AlertKnown, Alerting
        <5> QED
          BY <5>1, CommitAlerts DEF Alerted, ServiceInv
      <4> QED
        BY <4>1, <4>2
    <3> QED
      BY <1>3, <3>2 DEF alerted, AlertsOf, Alerted
  <2> QED
    BY <2>1, <2>2, <2>3, <2>4 DEF Ledger!Serve, Ledger!Pending, alerted
<1>6. CASE sess[r].fresh
  <2>1. txns'[t].key = IdemKey(req[r])
    BY <1>2, <1>3, <1>6 DEF Commits, CallSound, WorkSound, OwnRow
  <2>2. ~Stored(t) /\ ~KeyTaken(IdemKey(req[r]))
    <3>1. sess[r].txnNow.key = IdemKey(req[r])
      BY <1>2, <1>3 DEF CallSound, WorkSound, OwnRow
    <3> QED
      BY <1>1, <1>3, <1>6, <3>1 DEF ServiceInv, KeyInv, NewRowsAreNew, Inserting
  <2>3. booked' = booked \cup {[key |-> IdemKey(req[r]), txn |-> t]}
    <3>1. {u \in TxnIds : Stored(u)'} = {u \in TxnIds : Stored(u)} \cup {t}
      BY <1>2, <1>3 DEF Commits, Stored
    <3>2. \A u \in TxnIds : Stored(u) => txns'[u].key = txns[u].key
      BY <1>2, <2>2 DEF Commits
    <3> QED
      BY <2>1, <3>1, <3>2 DEF booked
  <2>4. \A e \in booked : e.key # IdemKey(req[r]) /\ e.txn # t
    BY <2>2 DEF booked, KeyTaken
  <2>5. Ledger!Book(r)
    BY <1>3, <1>4, <1>5, <2>3, <2>4 DEF Ledger!Book, booked
  <2> QED
    BY <2>5
<1>7. CASE ~sess[r].fresh
  <2>1. Stored(t) /\ txns[t].key = IdemKey(req[r])
    BY <1>1, <1>2, <1>3, <1>7 DEF ServiceInv, KeyInv, FoundRows, CallSound, WorkSound, OwnRow
  <2>2. \A u \in TxnIds : /\ Stored(u)' <=> Stored(u)
                          /\ Stored(u) => txns'[u].key = txns[u].key
    <3>1. txns'[t].key = txns[t].key
      <4>1. Commit(r) => txns' = [txns EXCEPT ![sess[r].id] = Committed(r)]
        BY DEF Commit, Committed
      <4>2. Committed(r).key = txns[t].key
        BY <1>1, <1>3, <1>7, CommittedIsRow DEF ServiceInv, KeyInv
      <4> QED
        BY <1>1, <1>3, <4>1, <4>2 DEF ServiceInv, TypeInv, TypeOK
    <3> QED
      BY <1>2, <2>1, <3>1 DEF Commits, Stored
  <2>3. booked' = booked
    BY <2>2 DEF booked
  <2>4. PICK e : e = [key |-> txns[t].key, txn |-> t]
    OBVIOUS
  <2>5. e \in booked /\ e.key = IdemKey(req[r]) /\ e.txn = t
    BY <1>3, <2>1, <2>4 DEF booked
  <2>6. Ledger!Serve(r, e.txn)
    BY <1>5, <2>5
  <2>7. Ledger!Replay(r)
    BY <1>4, <2>3, <2>5, <2>6 DEF Ledger!Replay, booked
  <2> QED
    BY <2>7
<1> QED
  BY <1>6, <1>7

LEMMA StepImplements ==
  ASSUME ServiceInv, [Next]_vars
  PROVE  [Ledger!Next]_ledger
<1>1. TypeOK /\ AlertInv /\ TypeInv
  BY DEF ServiceInv, TypeInv
<1>2. ASSUME UNCHANGED <<req, answer, txns, alerts>> PROVE UNCHANGED ledger
  BY <1>2 DEF ledger, booked, alerted, AlertsOf, Stored
<1>3. ASSUME NEW r \in Requests, Ledger!Book(r) \/ Ledger!Replay(r) \/ Ledger!Lose(r)
                                      \/ Ledger!Refuse(r)
      PROVE  Ledger!Next
  BY <1>3 DEF Ledger!Next
<1>4. ASSUME NEW r \in Requests, Step(r) PROVE Ledger!Next \/ UNCHANGED ledger
  <2>1. CASE VerifyEntity(r)
    <3>1. CASE Goto(r, "begin")
      BY <1>2, <3>1 DEF Goto
    <3>2. CASE Answer(r, "missing", NULL) /\ UNCHANGED tables
      BY <1>1, <1>3, <2>1, <3>2, FailRefuses DEF VerifyEntity
    <3> QED
      BY <2>1, <3>1, <3>2 DEF VerifyEntity
  <2>2. CASE BeginRefused(r) \/ InsertRejected(r) \/ AlertRejected(r)
    <3>1. pc[r] # "done" /\ Answer(r, "error", NULL) /\ UNCHANGED tables
      BY <2>2 DEF BeginRefused, InsertRejected, AlertRejected, Fail
    <3> QED
      BY <1>1, <1>3, <3>1, FailRefuses
  <2>3. CASE Lookup(r)
    BY <1>2, <2>3 DEF Lookup, Goto
  <2>4. CASE Insert(r) \/ Score(r) \/ FlushTxn(r) \/ FlushEntity(r) \/ InsertAlert(r)
    BY <1>2, <2>4 DEF Insert, Score, FlushTxn, FlushEntity, InsertAlert, Goto
  <2>5. CASE SelectAlert(r)
    BY <1>2, <2>5 DEF SelectAlert, Goto
  <2>6. CASE ScoreFails(r)
    <3>1. CASE Fail(r)
      BY <1>1, <1>3, <2>6, <3>1, FailRefuses DEF ScoreFails, Fail
    <3>2. CASE Goto(r, "flush_txn")
      BY <1>2, <3>2 DEF Goto
    <3> QED
      BY <2>6, <3>1, <3>2 DEF ScoreFails
  <2>7. CASE Commit(r)
    BY <1>3, <2>7, CommitServes
  <2> QED
    BY <1>4, <2>1, <2>2, <2>3, <2>4, <2>5, <2>6, <2>7 DEF Step
<1>5. ASSUME NEW r \in Requests, UpdateFails(r) \/ Abort(r) PROVE Ledger!Next
  BY <1>1, <1>3, <1>5, UpdateFailsLoses, FailRefuses DEF Abort, Fail
<1>6. CASE Finished \/ UNCHANGED vars
  BY <1>2, <1>6 DEF Finished, vars
<1> QED
  BY <1>4, <1>5, <1>6 DEF Next

(***************************************************************************)
(* create_transaction implements the idempotent ledger: for any number of  *)
(* calls, bodies, keys and ids, every behaviour of the service is one of   *)
(* IdempotentLedger, in which a call is booked, replayed, lost or refused  *)
(* in one step, and only an unsuspicious first call can be lost.           *)
(***************************************************************************)
THEOREM ServiceImplementsLedger == Spec => ImplementsLedger
<1>1. ServiceInv /\ [Next]_vars => [Ledger!Next]_ledger
  BY StepImplements
<1> QED
  BY <1>1, InitImplements, ServiceStaysSound, PTL
     DEF Spec, ImplementsLedger, Ledger!Spec, ledger, booked, alerted
=============================================================================
