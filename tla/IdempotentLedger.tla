-------------------------- MODULE IdempotentLedger --------------------------
(***************************************************************************)
(* What callers of create_transaction can count on, with no database in    *)
(* it: a call either fails and leaves no trace, or is booked in one step   *)
(* under its key.  The first call under a key makes the entry, every later *)
(* one is given the same entry, and a suspicious call leaves the entry     *)
(* alerted.  What they cannot count on is that an entry they were given    *)
(* exists: a first call that is not suspicious may be lost.                *)
(***************************************************************************)
CONSTANTS
  Requests,    \* calls
  TxnIds,      \* names of entries
  KeyOf,       \* KeyOf[i]: the key of the request body i
  Suspicious,  \* the request bodies that must leave an alert
  NULL

VARIABLES
  req,       \* req[r]: the body of call r
  book,      \* the entries: a set of [key, txn]
  alerted,   \* the entries that have an alert
  answer     \* answer[r]: [status, txn]

Pending(r) == answer[r].status = "none"

Init ==
  /\ req \in [Requests -> DOMAIN KeyOf]
  /\ book = {}
  /\ alerted = {}
  /\ answer = [r \in Requests |-> [status |-> "none", txn |-> NULL]]

\* Call r is answered with the entry t, which may gain its alert.
Serve(r, t) ==
  /\ Pending(r)
  /\ alerted' \in {alerted, alerted \cup {t}}
  /\ req[r] \in Suspicious => t \in alerted'
  /\ answer' = [answer EXCEPT ![r] = [status |-> "ok", txn |-> t]]
  /\ UNCHANGED req

Book(r) ==
  /\ \A e \in book : e.key # KeyOf[req[r]]
  /\ \E t \in TxnIds :
       /\ \A e \in book : e.txn # t
       /\ book' = book \cup {[key |-> KeyOf[req[r]], txn |-> t]}
       /\ Serve(r, t)

Replay(r) ==
  /\ \E e \in book : e.key = KeyOf[req[r]] /\ Serve(r, e.txn)
  /\ UNCHANGED book

\* Call r is given an entry that was never made (the exception swallowed around
\* update_risk_scores): it would have been the first under its key, and was clean.
Lose(r) ==
  /\ Pending(r)
  /\ req[r] \notin Suspicious
  /\ \A e \in book : e.key # KeyOf[req[r]]
  /\ \E t \in TxnIds :
       /\ \A e \in book : e.txn # t
       /\ answer' = [answer EXCEPT ![r] = [status |-> "ok", txn |-> t]]
  /\ UNCHANGED <<req, book, alerted>>

Refuse(r) ==
  /\ Pending(r)
  /\ \E status \in {"error", "missing"} :
       answer' = [answer EXCEPT ![r] = [status |-> status, txn |-> NULL]]
  /\ UNCHANGED <<req, book, alerted>>

Next == \E r \in Requests : Book(r) \/ Replay(r) \/ Lose(r) \/ Refuse(r)

Spec == Init /\ [][Next]_<<req, book, alerted, answer>>
=============================================================================
