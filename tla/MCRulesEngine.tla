--------------------------- MODULE MCRulesEngine ---------------------------
(***************************************************************************)
(* Every combination of rule conditions: amounts sit at and around every   *)
(* constant of the rules, countries are in both, one or none of the two    *)
(* country lists, probabilities lie around the threshold and the tiers,    *)
(* inflows are none, usual, and below 0, where the fallback may overflow.  *)
(*                                                                         *)
(* A unit has three parts, and the doubles are the whole units up to       *)
(* 60000, where they become so sparse that some round numbers are missing  *)
(* and others are the nearest to a number that is not round.               *)
(***************************************************************************)
EXTENDS ModelScoring

MCUnit == 3

Whole == {1, 1000, 4999, 5000, 5001, 6000, 8999, 9000, 9001, 9999, 10000, 10001,
          49999, 50000, 50001}

MCAmounts ==
  {3 * n : n \in Whole} \cup {3 * n + 1 : n \in {5000, 6000, 9000, 9999, 10000, 50000}}
    \cup {3 * n - 1 : n \in {5000, 6000, 9000, 9999, 10000, 50000}}
    \cup {3 * 61000, 3 * 63000 + 2}

MCAsFloat ==
  [a \in MCAmounts |-> IF a < 3 * 60000 THEN 3 * ((a + 1) \div 3)
                                        ELSE 7 * ((a + 3) \div 7)]

MCPayloads == [amount: MCAmounts, txn_type: {"cash_deposit", "wire_out", "pos"},
               country: {"US", "IR", "CU"}, name: BOOLEAN]

MCProbabilities == {0, 13, 14, 49, 50, 66, 67, 100}

MCExpected == {0, 3000, -3}
=============================================================================
