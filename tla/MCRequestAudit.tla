--------------------------- MODULE MCRequestAudit ---------------------------
(***************************************************************************)
(* Requests that overlap on one entity, one alert and two profiles that    *)
(* are linked to one entity each: every kind of request, several of each   *)
(* where they collide, one that names an entity ("G") that does not exist  *)
(* and one with a wrong key.  Three at a time and two connections: the     *)
(* third has to wait for one, and a record for a second one.               *)
(***************************************************************************)
EXTENDS RequestAudit, TLC

CONSTANTS r1, r2, r3

NewEntity == [kyc_status |-> "PENDING", edd_required |-> FALSE,
              typology_matches |-> {}, risk_score |-> 0, employer |-> "new"]

MCStored ==
  [i \in {"E", "F", "H", "A", "P", "Q"} |->
     CASE i \in {"E", "F", "H"} -> [NewEntity EXCEPT !.kyc_status = "ACTIVE"]
       [] i = "A" -> [status |-> "OPEN", assigned_to |-> NULL, resolution |-> NULL,
                      sar_required |-> FALSE]
       [] i = "P" -> [linked_entities |-> {"E"}]
       [] i = "Q" -> [linked_entities |-> {"F"}]]

\* Two new entities may draw one id, or a stored one's.
EntityRequests ==
  {[kind |-> "create", id |-> i, row |-> NewEntity] : i \in {"N", "E"}} \cup
  {[kind |-> "flag", id |-> "E", reason |-> "structuring"],
   [kind |-> "update", id |-> "E", fields |-> [kyc_status |-> "ACTIVE"]],
   [kind |-> "update", id |-> "E", fields |-> [employer |-> "old"]],
   [kind |-> "score", id |-> "E", score |-> 60]}

AlertRequests ==
  {[kind |-> "assign", id |-> "A", to |-> "ann"],
   [kind |-> "resolve", id |-> "A", resolution |-> "false_positive", sar |-> NULL],
   [kind |-> "resolve", id |-> "A", resolution |-> "fraud", sar |-> TRUE]}

LinkRequests ==
  {[kind |-> "link", id |-> "P", entity |-> e] : e \in {"E", "H", "G"}} \cup
  {[kind |-> "link", id |-> "Q", entity |-> "H"]}

\* In both directions.
MergeRequests ==
  {[kind |-> "merge", id |-> "P", other |-> "Q"], [kind |-> "merge", id |-> "Q", other |-> "P"]}

ProfileRequests ==
  {[kind |-> "profile", id |-> "R", entity |-> "H"]} \cup LinkRequests \cup MergeRequests

WithKey(ops, k) == {o @@ [key |-> k] : o \in ops}

\* Requests of different groups meet in the pool only, where all are alike.
MCWorkloads ==
  [Requests -> WithKey(EntityRequests, "right")] \cup
  [Requests -> WithKey(ProfileRequests, "right")] \cup
  [Requests -> WithKey(AlertRequests, "right") \cup
               WithKey({[kind |-> "assign", id |-> "A", to |-> "bob"]}, "wrong")]

\* Links and a merge, of which LinksAreKept needs two requests.
LinkWorkloads ==
  [Requests -> WithKey(LinkRequests \cup MergeRequests \cup
                       {[kind |-> "link", id |-> "P", entity |-> "F"]}, "right")]

AlertWorkloads == [Requests -> WithKey(AlertRequests, "right")]

Symmetry == Permutations(Requests)
=============================================================================
