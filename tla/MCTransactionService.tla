----------------------- MODULE MCTransactionService -----------------------
(***************************************************************************)
(* Small instances of TransactionService.  Two spellings of one key, two   *)
(* bodies under it, a body whose country only run_rules knows ("CU"), one  *)
(* that is clean unless the model says otherwise, and probabilities on     *)
(* both sides of the threshold (13 -> 7.8 points, 90 -> 54 points).        *)
(***************************************************************************)
EXTENDS TransactionService, SequencesExt

CONSTANTS r1, r2, r3, t1, t2, a1, a2

\* Tenths of a unit; 9999.9 stands for the amounts below 10000 whose double is 10000.
MCAsFloat == [a \in {1000, 99999} |-> IF a = 99999 THEN 100000 ELSE a]

Structuring == [amount |-> 99999, txn_type |-> "cash_deposit", country |-> "US",
                name |-> TRUE]
Cuban == [amount |-> 1000, txn_type |-> "pos", country |-> "CU", name |-> TRUE]
Clean == [amount |-> 1000, txn_type |-> "pos", country |-> "US", name |-> TRUE]

Body(route, key, entity, txn) ==
  [route |-> route, key |-> key, entity |-> entity, txn |-> txn]

MCStripped == [k \in {"K", " K"} |-> "K"]
MCEntities == {"E1"}
MCProbabilities == {13, 90}

\* Calls that meet on one key and on one entity, a keyless one, and two of the route.
\* E9 is no entity: the route refuses it and the service does not, so that two calls
\* can retry its transaction with no entity's row to wait for.
Bodies ==
  <<Body(TRUE, "K", "E1", Clean), Body(TRUE, "K", "E9", Clean),
    Body(FALSE, "K", "E1", Structuring), Body(FALSE, " K", "E9", Clean),
    Body(FALSE, NULL, "E1", Cuban)>>
MCInputs == ToSet(Bodies)

\* Requests are interchangeable: it is enough to start with sorted bodies.
Place(b) == CHOOSE i \in DOMAIN Bodies : Bodies[i] = b
SortedInit ==
  Init /\ Place(req[r1]) <= Place(req[r2]) /\ Place(req[r2]) <= Place(req[r3])
SortedSpec == SortedInit /\ [][Next]_vars /\ Fairness
=============================================================================
