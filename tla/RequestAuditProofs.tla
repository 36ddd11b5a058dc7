------------------------- MODULE RequestAuditProofs -------------------------
(***************************************************************************)
(* The middleware around any number of requests, with any operations, rows *)
(* and faults, and in either order of answer and commit: its records and   *)
(* answers are true, and the pool of connections is never exceeded.  What  *)
(* the requests commit: only their own columns and rows, the rows they     *)
(* answer, one alias per link.  With the commit before the answer, every   *)
(* change has its record and requests do not wait for each other in a      *)
(* circle.                                                                 *)
(***************************************************************************)
EXTENDS RequestAudit, FiniteSetTheorems, TLAPS

Places == {"load", "other", "collect", "flush", "alias", "lock", "delete", "refresh",
           "commit", "done"}

\* What the proofs need of the types.
Typed ==
  /\ pc \in [Requests -> Places]
  /\ answer \in [Requests -> {"none", "ok", "missing", "error"}]
  /\ stage \in [Requests -> {"arrive", "handler", "audit", "insert", "answer", "exit", "done"}]
  /\ status \in [Requests -> {"none", "refused", "ok", "missing", "error"}]
  /\ log \in [Requests -> {"none", "success", "failure"}]
  /\ told \subseteq Requests
  /\ lost \subseteq Requests

\* Where request r's session can still change, its response says so.
Ordered(r) ==
  /\ stage[r] = "arrive" => pc[r] = "load"
  /\ stage[r] \in {"arrive", "handler"} =>
       status[r] = "none" /\ log[r] = "none" /\ answer[r] = "none" /\ r \notin told
  /\ stage[r] \in {"audit", "insert", "answer"} /\ pc[r] = "commit" =>
       status[r] = "ok" /\ answerFirst
  /\ stage[r] = "exit" => status[r] = "ok" /\ answerFirst
  /\ status[r] # "ok" => answer[r] # "ok"
  /\ status[r] = "ok" =>
       answer[r] = "ok" \/ (answerFirst /\ answer[r] \in {"none", "error"})
  /\ log[r] = "success" => status[r] = "ok"
  /\ log[r] = "failure" => status[r] # "ok"

InOrder == \A r \in Requests : Ordered(r)

(***************************************************************************)
(* A step of a handler moves its own request only, and answers it only     *)
(* when it ends it with a 404.                                             *)
(***************************************************************************)
LEMMA HandlerStep ==
  ASSUME Typed, NEW r \in Requests, Handler(r)
  PROVE  /\ UNCHANGED <<op, rows, aliases>>
         /\ \E p \in Places : pc' = [pc EXCEPT ![r] = p]
         /\ \/ UNCHANGED answer
            \/ answer' = [answer EXCEPT ![r] = "missing"] /\ pc'[r] = "done"
<1> USE DEF Typed, Places, Goto
<1>1. CASE Missing(r)
  BY <1>1 DEF Missing
<1>2. CASE Load(r)
  BY <1>2 DEF Load
<1>3. CASE Prepare(r)
  BY <1>3 DEF Prepare
<1>4. CASE LoadOther(r) \/ Collect(r)
  BY <1>4 DEF LoadOther, Collect
<1>5. CASE Flush(r)
  <2>1. AfterFlush(r) \in Places
    BY DEF AfterFlush
  <2> QED
    BY <1>5, <2>1 DEF Flush
<1>6. CASE SelectAlias(r) \/ LockOther(r) \/ DeleteOther(r) \/ Refresh(r)
  BY <1>6 DEF SelectAlias, LockOther, DeleteOther, Refresh
<1> QED
  BY <1>1, <1>2, <1>3, <1>4, <1>5, <1>6 DEF Handler

(***************************************************************************)
(* The end of a transaction.                                               *)
(***************************************************************************)
LEMMA EndStep ==
  ASSUME NEW r \in Requests, Commit(r) \/ Abort(r)
  PROVE  /\ UNCHANGED op
         /\ pc' = [pc EXCEPT ![r] = "done"]
         /\ answer' = [answer EXCEPT ![r] = IF Commit(r) THEN "ok" ELSE "error"]
BY DEF Commit, Abort, Goto

LEMMA InOrderInit == AuditInit => Typed /\ InOrder
BY DEF AuditInit, Init, Typed, Places, InOrder, Ordered

(***************************************************************************)
(* Every action keeps the types: the middleware's own, then those that     *)
(* move the session as well.                                               *)
(***************************************************************************)
LEMMA TypedStep == Typed /\ [AuditNext]_allVars => Typed'
<1> SUFFICES ASSUME Typed, [AuditNext]_allVars PROVE Typed'
  OBVIOUS
<1> USE DEF Typed, MoveTo
<1>1. ASSUME NEW r \in Requests,
             \/ Admit(r) \/ Refuse(r) \/ Respond(r) \/ TakeConnection(r) \/ Record(r)
             \/ LoseRecord(r) \/ PoolTimeout(r) \/ Answer(r)
      PROVE  Typed'
  BY <1>1 DEF Admit, Refuse, Respond, TakeConnection, Record, LoseRecord, PoolTimeout,
              Answer, vars
<1>2. ASSUME NEW r \in Requests, Handle(r) PROVE Typed'
  <2>1. pc' \in [Requests -> Places]
        /\ answer' \in [Requests -> {"none", "ok", "missing", "error"}]
    BY <1>2, HandlerStep, EndStep DEF Handle, Places
  <2> QED
    BY <1>2, <2>1 DEF Handle
<1>3. ASSUME NEW r \in Requests, Exit(r) PROVE Typed'
  <2>1. pc' \in [Requests -> Places]
        /\ answer' \in [Requests -> {"none", "ok", "missing", "error"}]
    BY <1>3, EndStep DEF Exit, Places
  <2> QED
    BY <1>3, <2>1 DEF Exit
<1>4. CASE Crash
  BY <1>4 DEF Crash, Places
<1>5. CASE AllServed \/ UNCHANGED allVars
  BY <1>5 DEF AllServed, allVars, vars, middleware
<1> QED
  BY <1>1, <1>2, <1>3, <1>4, <1>5 DEF AuditNext, Serve

(***************************************************************************)
(* A step for request r leaves what Ordered says of the others alone.      *)
(***************************************************************************)
LEMMA OthersKeepOrder ==
  ASSUME InOrder, NEW r \in Requests, Ordered(r)',
         UNCHANGED answerFirst,
         \A q \in Requests \ {r} :
           /\ stage'[q] = stage[q] /\ pc'[q] = pc[q] /\ status'[q] = status[q]
           /\ log'[q] = log[q] /\ answer'[q] = answer[q]
           /\ (q \in told' <=> q \in told)
  PROVE  InOrder'
BY DEF InOrder, Ordered

LEMMA InOrderStep == Typed /\ InOrder /\ [AuditNext]_allVars => InOrder'
<1> SUFFICES ASSUME Typed, InOrder, [AuditNext]_allVars PROVE InOrder'
  OBVIOUS
<1> USE DEF MoveTo
<1>1. ASSUME NEW r \in Requests,
             \/ Admit(r) \/ Refuse(r) \/ Respond(r) \/ TakeConnection(r) \/ Record(r)
             \/ LoseRecord(r) \/ PoolTimeout(r) \/ Answer(r)
      PROVE  InOrder'
  <2>1. Ordered(r)'
    BY <1>1 DEF Admit, Refuse, Respond, TakeConnection, Record, LoseRecord, PoolTimeout,
                Answer, vars, Typed, InOrder, Ordered
  <2>2. UNCHANGED <<answerFirst, vars>>
    BY <1>1 DEF Admit, Refuse, Respond, TakeConnection, Record, LoseRecord, PoolTimeout,
                Answer
  <2>3. \A q \in Requests \ {r} :
          /\ stage'[q] = stage[q] /\ status'[q] = status[q] /\ log'[q] = log[q]
          /\ (q \in told' <=> q \in told)
    BY <1>1 DEF Admit, Refuse, Respond, TakeConnection, Record, LoseRecord, PoolTimeout,
                Answer, Typed
  <2> QED
    BY <2>1, <2>2, <2>3, OthersKeepOrder DEF vars
<1>2. ASSUME NEW r \in Requests, Handle(r) PROVE InOrder'
  <2>1. \E p \in Places : pc' = [pc EXCEPT ![r] = p]
    BY <1>2, HandlerStep, EndStep DEF Handle, Places
  <2>2. \/ UNCHANGED answer
        \/ answer' = [answer EXCEPT ![r] = "missing"] /\ pc'[r] = "done"
        \/ answer' = [answer EXCEPT ![r] = "ok"] /\ pc'[r] = "done"
        \/ answer' = [answer EXCEPT ![r] = "error"] /\ pc'[r] = "done"
    BY <1>2, HandlerStep, EndStep DEF Handle, Typed
  <2>3. status[r] = "none" /\ log[r] = "none" /\ answer[r] = "none" /\ r \notin told
    BY <1>2 DEF Handle, InOrder, Ordered
  <2>4. Ordered(r)'
    BY <1>2, <2>1, <2>2, <2>3 DEF Handle, Ordered, Typed
  <2> QED
    BY <1>2, <2>1, <2>2, <2>4, OthersKeepOrder DEF Handle, Typed
<1>3. ASSUME NEW r \in Requests, Exit(r) PROVE InOrder'
  <2>1. pc' = [pc EXCEPT ![r] = "done"]
        /\ \E a \in {"ok", "error"} : answer' = [answer EXCEPT ![r] = a]
    BY <1>3, EndStep DEF Exit
  <2>2. Ordered(r)'
    BY <1>3, <2>1 DEF Exit, InOrder, Ordered, Typed
  <2> QED
    BY <1>3, <2>1, <2>2, OthersKeepOrder DEF Exit, Typed
<1>4. CASE Crash
  BY <1>4 DEF Crash, InOrder, Ordered, Typed
<1>5. CASE AllServed \/ UNCHANGED allVars
  BY <1>5 DEF AllServed, allVars, vars, middleware, InOrder, Ordered
<1> QED
  BY <1>1, <1>2, <1>3, <1>4, <1>5 DEF AuditNext, Serve

(***************************************************************************)
(* What audit_logs records and what the client was told is what became of  *)
(* the request, however requests overlap, fail and lose their records      *)
(* (auth_and_audit_middleware, get_db).                                    *)
(***************************************************************************)
THEOREM RecordsAreAlwaysTrue == AuditSpec => []RecordsAreTrue
<1>1. Typed /\ InOrder /\ [AuditNext]_allVars => (Typed /\ InOrder)'
  BY TypedStep, InOrderStep
<1>2. InOrder => RecordsAreTrue
  BY DEF InOrder, Ordered, RecordsAreTrue
<1> QED
  BY <1>1, <1>2, InOrderInit, PTL DEF AuditSpec

----------------------------------------------------------------------------
LEMMA ConnectionsOf ==
  ASSUME NEW C, NEW I, NEW D, NEW J, IsFiniteSet(C), IsFiniteSet(I),
         D \subseteq C, J \subseteq I
  PROVE  Cardinality(D) + Cardinality(J) <= Cardinality(C) + Cardinality(I)
BY FS_Subset, FS_CardinalityType

LEMMA OneMore ==
  ASSUME NEW C, NEW D, NEW r, IsFiniteSet(C), D \subseteq C \cup {r}
  PROVE  IsFiniteSet(D) /\ Cardinality(D) <= Cardinality(C) + 1
<1>1. IsFiniteSet(C \cup {r}) /\ Cardinality(C \cup {r}) <= Cardinality(C) + 1
  <2>1. IsFiniteSet(C \cup {r})
        /\ Cardinality(C \cup {r}) =
             IF r \in C THEN Cardinality(C) ELSE Cardinality(C) + 1
    BY FS_AddElement, ZenonT(30)
  <2>2. Cardinality(C) \in Nat
    BY FS_CardinalityType
  <2> QED
    BY <2>1, <2>2
<1>2. /\ IsFiniteSet(D)
      /\ Cardinality(D) <= Cardinality(C \cup {r})
      /\ Cardinality(D) \in Nat
      /\ Cardinality(C) \in Nat
      /\ Cardinality(C \cup {r}) \in Nat
  BY <1>1, FS_Subset, FS_CardinalityType
<1> QED
  BY <1>1, <1>2

Holders == {r \in Requests : Connected(r)}

Inserters == {r \in Requests : stage[r] = "insert"}

(***************************************************************************)
(* A step takes a connection only when there is one: the first statement   *)
(* of a handler, and the record.                                           *)
(***************************************************************************)
LEMMA PoolStep ==
  ASSUME Typed, Connections <= Pool, [AuditNext]_allVars
  PROVE  Connections' <= Pool
<1> USE DEF MoveTo
<1>0. IsFiniteSet(Holders) /\ IsFiniteSet(Inserters)
      /\ Cardinality(Holders) \in Nat /\ Cardinality(Inserters) \in Nat
      /\ Connections = Cardinality(Holders) + Cardinality(Inserters)
      /\ Connections' = Cardinality(Holders') + Cardinality(Inserters')
  BY PoolAssumption, FS_Subset, FS_CardinalityType DEF Holders, Inserters, Connections
<1>1. ASSUME Holders' \subseteq Holders, Inserters' \subseteq Inserters
      PROVE  Connections' <= Pool
  <2>1. /\ Cardinality(Holders') \in Nat /\ Cardinality(Inserters') \in Nat
        /\ Cardinality(Holders') + Cardinality(Inserters')
             <= Cardinality(Holders) + Cardinality(Inserters)
    BY <1>0, <1>1, ConnectionsOf, FS_Subset, FS_CardinalityType
  <2> QED
    BY <1>0, <2>1, PoolAssumption
<1>2. ASSUME NEW r, Connections < Pool,
             \/ Holders' \subseteq Holders \cup {r} /\ Inserters' \subseteq Inserters
             \/ Holders' \subseteq Holders /\ Inserters' \subseteq Inserters \cup {r}
      PROVE  Connections' <= Pool
  <2>1. /\ Cardinality(Holders') \in Nat
        /\ Cardinality(Inserters') \in Nat
        /\ \/ /\ Cardinality(Holders') <= Cardinality(Holders) + 1
              /\ Cardinality(Inserters') <= Cardinality(Inserters)
           \/ /\ Cardinality(Holders') <= Cardinality(Holders)
              /\ Cardinality(Inserters') <= Cardinality(Inserters) + 1
    BY <1>0, <1>2, OneMore, FS_Subset, FS_CardinalityType
  <2> QED
    BY <1>0, <1>2, <2>1, PoolAssumption
<1>3. ASSUME NEW r \in Requests, op' = op, NEW p, pc' = [pc EXCEPT ![r] = p]
      PROVE  Holders' \subseteq Holders \cup {r}
  BY <1>3 DEF Holders, Connected, Begins, Typed
<1>4. ASSUME NEW r \in Requests, Connected(r)' => Connected(r),
             op' = op, NEW p, pc' = [pc EXCEPT ![r] = p]
      PROVE  Holders' \subseteq Holders
  BY <1>4 DEF Holders, Connected, Begins, Typed
<1>5. ASSUME NEW r \in Requests,
             \/ Admit(r) \/ Refuse(r) \/ Respond(r) \/ Record(r)
             \/ LoseRecord(r) \/ PoolTimeout(r) \/ Answer(r)
      PROVE  Holders' = Holders /\ Inserters' \subseteq Inserters
  BY <1>5 DEF Admit, Refuse, Respond, Record, LoseRecord, PoolTimeout, Answer, vars,
              Holders, Connected, Begins, Inserters, Typed
<1>6. ASSUME NEW r \in Requests, TakeConnection(r) PROVE Connections' <= Pool
  <2>1. Holders' = Holders /\ Inserters' \subseteq Inserters \cup {r} /\ Connections < Pool
    BY <1>6 DEF TakeConnection, vars, Holders, Connected, Begins, Inserters, Typed
  <2> QED
    BY <1>2, <2>1
<1>7. ASSUME NEW r \in Requests, Handle(r) PROVE Connections' <= Pool
  <2>1. Inserters' \subseteq Inserters
    BY <1>7 DEF Handle, Inserters, Typed
  <2>2. CASE Commit(r) \/ Abort(r)
    <3>1. op' = op /\ pc' = [pc EXCEPT ![r] = "done"] /\ ~Connected(r)'
      BY <2>2, EndStep DEF Connected, Typed
    <3> QED
      BY <1>1, <1>4, <2>1, <3>1
  <2>3. CASE Handler(r) /\ Begins(r)
    <3>1. PICK p \in Places : pc' = [pc EXCEPT ![r] = p]
      BY <2>3, HandlerStep
    <3>2. op' = op
      BY <2>3, HandlerStep
    <3>3. Holders' \subseteq Holders \cup {r}
      BY <1>3, <3>1, <3>2
    <3>4. CASE Connections < Pool
      BY <1>2, <2>1, <3>3, <3>4
    <3> QED
      BY <1>7, <2>2, <2>3, <3>4 DEF Handle
  <2>4. CASE Handler(r) /\ ~Begins(r)
    <3>0. op' = op
      BY <2>4, HandlerStep
    <3>1. PICK p \in Places : pc' = [pc EXCEPT ![r] = p]
      BY <2>4, HandlerStep
    <3>2. Connected(r)' => Connected(r)
      <4>1. CASE pc[r] = "load"
        <5>1. op[r].kind = "create"
          BY <2>4, <4>1 DEF Begins
        <5>2. Missing(r) \/ Prepare(r)
          BY <2>4, <4>1, <5>1
          DEF Handler, Load, Creates, LoadOther, Collect, Flush, SelectAlias, LockOther,
              DeleteOther, Refresh
        <5> QED
          BY <3>0, <3>1, <5>1, <5>2 DEF Missing, Prepare, Goto, Connected, Begins, Typed
      <4>2. CASE pc[r] = "done"
        BY <2>4, <4>2
        DEF Handler, Missing, Load, Prepare, LoadOther, Collect, Flush, SelectAlias,
            LockOther, DeleteOther, Refresh
      <4> QED
        BY <2>4, <4>1, <4>2 DEF Connected
    <3> QED
      BY <1>1, <1>4, <2>1, <3>0, <3>1, <3>2
  <2> QED
    BY <1>7, <2>2, <2>3, <2>4 DEF Handle
<1>8. ASSUME NEW r \in Requests, Exit(r) PROVE Connections' <= Pool
  <2>1. op' = op /\ pc' = [pc EXCEPT ![r] = "done"] /\ ~Connected(r)'
    BY <1>8, EndStep DEF Exit, Connected, Typed
  <2>2. Inserters' \subseteq Inserters
    BY <1>8 DEF Exit, Inserters, Typed
  <2> QED
    BY <1>1, <1>4, <2>1, <2>2
<1>9. ASSUME Crash PROVE Connections' <= Pool
  <2>1. Holders' = {} /\ Inserters' = {}
    BY <1>9 DEF Crash, Holders, Connected, Inserters
  <2> QED
    BY <1>1, <2>1
<1>10. ASSUME AllServed \/ UNCHANGED allVars PROVE Connections' <= Pool
  BY <1>10 DEF AllServed, allVars, vars, middleware, Connections, Connected, Begins
<1> QED
  BY <1>1, <1>5, <1>6, <1>7, <1>8, <1>9, <1>10 DEF AuditNext, Serve

(***************************************************************************)
(* Types, and the pool's bound: sessions and records together never hold   *)
(* more connections than there are.                                        *)
(***************************************************************************)
THEOREM AuditTypesHold == AuditSpec => []AuditTypeOK
<1>1. AuditInit => Connections <= Pool
  <2> SUFFICES ASSUME AuditInit PROVE Connections <= Pool
    OBVIOUS
  <2>1. {r \in Requests : Connected(r)} = {} /\ {r \in Requests : stage[r] = "insert"} = {}
    BY DEF AuditInit, Init, Connected, Begins
  <2> QED
    BY <2>1, FS_EmptySet, PoolAssumption DEF Connections
<1>2. Typed /\ Connections <= Pool => AuditTypeOK
  BY DEF Typed, AuditTypeOK
<1>3. Typed /\ Connections <= Pool /\ [AuditNext]_allVars => (Typed /\ Connections <= Pool)'
  BY TypedStep, PoolStep
<1> QED
  BY <1>1, <1>2, <1>3, InOrderInit, PTL DEF AuditSpec

----------------------------------------------------------------------------
\* A request that is over for the middleware is over for get_db, unless it was refused
\* or get_db commits after the answer; who got so far without a record has lost it.
Served(r) ==
  /\ stage[r] \in {"audit", "insert", "answer"} =>
       pc[r] \in {"load", "done"} \/ (pc[r] = "commit" /\ answerFirst)
  /\ stage[r] = "done" => pc[r] \in {"load", "done"}
  /\ stage[r] \in {"answer", "done"} /\ ~answerFirst => log[r] # "none" \/ r \in lost
  /\ r \in told => stage[r] \in {"exit", "done"}

AllInPlace == \A r \in Requests : Served(r)

(***************************************************************************)
(* A step for request r leaves what Served says of the others alone.       *)
(***************************************************************************)
LEMMA OthersStayServed ==
  ASSUME AllInPlace, NEW r \in Requests, Served(r)',
         UNCHANGED answerFirst,
         \A q \in Requests \ {r} :
           /\ stage'[q] = stage[q] /\ pc'[q] = pc[q] /\ log'[q] = log[q]
           /\ (q \in told' <=> q \in told) /\ (q \in lost => q \in lost')
  PROVE  AllInPlace'
BY DEF AllInPlace, Served

(***************************************************************************)
(* Only in the order that answers first does a request wait for the pool   *)
(* with a connection in its hands, so only then does the pool time out.    *)
(***************************************************************************)
LEMMA ServedStep == Typed /\ InOrder /\ AllInPlace /\ [AuditNext]_allVars => AllInPlace'
<1> SUFFICES ASSUME Typed, InOrder, AllInPlace, [AuditNext]_allVars PROVE AllInPlace'
  OBVIOUS
<1> USE DEF MoveTo
<1>1. ASSUME NEW r \in Requests,
             \/ Admit(r) \/ Refuse(r) \/ Respond(r) \/ TakeConnection(r) \/ Record(r)
             \/ LoseRecord(r) \/ Answer(r)
      PROVE  AllInPlace'
  <2>1. Served(r)'
    BY <1>1 DEF Admit, Refuse, Respond, TakeConnection, Record, LoseRecord, Answer, vars,
                Typed, InOrder, Ordered, AllInPlace, Served
  <2>2. UNCHANGED <<answerFirst, vars>>
    BY <1>1 DEF Admit, Refuse, Respond, TakeConnection, Record, LoseRecord, Answer
  <2>3. \A q \in Requests \ {r} :
          /\ stage'[q] = stage[q] /\ log'[q] = log[q]
          /\ (q \in told' <=> q \in told) /\ (q \in lost => q \in lost')
    BY <1>1 DEF Admit, Refuse, Respond, TakeConnection, Record, LoseRecord, Answer, Typed
  <2> QED
    BY <2>1, <2>2, <2>3, OthersStayServed DEF vars
<1>2. ASSUME NEW r \in Requests, PoolTimeout(r) PROVE AllInPlace'
  <2>1. answerFirst
    <3>1. PICK q \in Requests : Connected(q) /\ stage[q] = "audit"
      BY <1>2 DEF PoolTimeout
    <3> QED
      BY <3>1 DEF Connected, AllInPlace, Served
  <2>2. Served(r)'
    BY <1>2, <2>1 DEF PoolTimeout, vars, Typed, InOrder, Ordered, AllInPlace, Served
  <2>3. \A q \in Requests \ {r} : stage'[q] = stage[q]
    BY <1>2 DEF PoolTimeout, Typed
  <2> QED
    BY <1>2, <2>2, <2>3, OthersStayServed DEF PoolTimeout, vars
<1>3. ASSUME NEW r \in Requests, Handle(r) \/ Exit(r) PROVE AllInPlace'
  <2>1. \E p \in Places : pc' = [pc EXCEPT ![r] = p]
    BY <1>3, HandlerStep, EndStep DEF Handle, Exit, Places
  <2>2. Served(r)'
    <3>1. CASE Handle(r)
      BY <3>1, <2>1 DEF Handle, Typed, InOrder, Ordered, AllInPlace, Served
    <3>2. CASE Exit(r)
      <4>1. pc' = [pc EXCEPT ![r] = "done"] /\ answerFirst
        BY <3>2, EndStep DEF Exit, InOrder, Ordered
      <4> QED
        BY <3>2, <4>1 DEF Exit, Typed, Served
    <3> QED
      BY <1>3, <3>1, <3>2
  <2> QED
    BY <1>3, <2>1, <2>2, OthersStayServed DEF Handle, Exit, Typed
<1>4. CASE Crash
  BY <1>4 DEF Crash, AllInPlace, Served
<1>5. CASE AllServed \/ UNCHANGED allVars
  BY <1>5 DEF AllServed, allVars, vars, middleware, AllInPlace, Served
<1> QED
  BY <1>1, <1>2, <1>3, <1>4, <1>5 DEF AuditNext, Serve

(***************************************************************************)
(* When get_db commits before the response is made, everybody who was      *)
(* answered and every change is on record, however small the pool and      *)
(* whatever is asked (auth_and_audit_middleware).                          *)
(***************************************************************************)
THEOREM CommitsAreAlwaysAudited == AuditSpec => []CommitsAreAudited
<1>1. AuditInit => AllInPlace
  BY DEF AuditInit, Init, AllInPlace, Served
<1>2. InOrder /\ AllInPlace => CommitsAreAudited
  BY DEF InOrder, Ordered, AllInPlace, Served, CommitsAreAudited, TrafficIsAudited
<1>3. Typed /\ InOrder /\ AllInPlace /\ [AuditNext]_allVars
        => (Typed /\ InOrder /\ AllInPlace)'
  BY TypedStep, InOrderStep, ServedStep
<1> QED
  BY <1>1, <1>2, <1>3, InOrderInit, PTL DEF AuditSpec

----------------------------------------------------------------------------
\* The requests' transactions by themselves, whatever the middleware adds.
Moves(r) == Handler(r) \/ Commit(r) \/ Abort(r)

Halts ==
  /\ pc' = [r \in Requests |-> "done"]
  /\ sess' = [r \in Requests |-> NoSession]
  /\ answer' = [r \in Requests |-> IF answer[r] = "none" THEN "error" ELSE answer[r]]
  /\ UNCHANGED <<op, rows, aliases>>

CaseNext == (\E r \in Requests : Moves(r)) \/ Halts

LEMMA CaseSteps == [AuditNext]_allVars => [CaseNext]_vars
BY DEF AuditNext, Serve, Admit, Refuse, Handle, Respond, TakeConnection, Record, LoseRecord,
       PoolTimeout, Answer, Exit, Crash, AllServed, allVars, CaseNext, Moves, Halts

CaseTypes ==
  /\ op \in Workloads
  /\ pc \in [Requests -> Places]
  /\ answer \in [Requests -> {"none", "ok", "missing", "error"}]
  /\ DOMAIN sess = Requests
  /\ \A r \in Requests : DOMAIN sess[r] = DOMAIN NoSession

PastFlush(r) == pc[r] \in {"alias", "lock", "delete", "refresh", "commit"}

\* Which requests get where, and what their sessions hold there.
Keeps(r) ==
  /\ answer[r] = "none" => pc[r] # "done"
  /\ pc[r] # "done" => answer[r] = "none"
  /\ pc[r] \in {"load", "done"} => sess[r] = NoSession
  /\ pc[r] \in {"other", "collect", "lock", "delete"} => op[r].kind = "merge"
  /\ pc[r] = "alias" => op[r].kind \in {"link", "profile"}

\* The locks it has: its own row, if the flush writes it, and what a merge takes.
Locks(r) ==
  /\ PastFlush(r) => Targets(r) \subseteq sess[r].held
  /\ sess[r].held # {} => PastFlush(r)
  /\ \A x \in sess[r].held :
       x \in Targets(r) \/ (op[r].kind = "merge" /\ pc[r] # "lock" /\ x = <<op[r].other>>)
  /\ \A x \in sess[r].drop : \E p, e : x = <<p, e>>
  /\ sess[r].drop # {} => op[r].kind = "merge"

\* What it is going to write.
Writes(r) ==
  /\ sess[r].add \in BOOLEAN
  /\ sess[r].add => pc[r] \in {"refresh", "commit"} /\ op[r].kind \in {"link", "profile"}
  /\ Creates(r) /\ pc[r] \notin {"load", "done"} =>
       sess[r].now = NewRow(op[r]) /\ sess[r].cols = DOMAIN NewRow(op[r])
  /\ ~Creates(r) => sess[r].cols \subseteq Names(op[r])

SessionsKept == \A r \in Requests : Keeps(r) /\ Locks(r) /\ Writes(r)

RowsApart == \A q, r \in Requests : sess[q].held \cap sess[r].held # {} => q = r

AliasesArePairs == \A l \in DOMAIN aliases : \E p, e : l = <<p, e>>

(***************************************************************************)
(* A step of one request leaves the others where they are.                 *)
(***************************************************************************)
LEMMA OneMoves ==
  ASSUME CaseTypes, NEW r \in Requests, Moves(r)
  PROVE  /\ CaseTypes'
         /\ op' = op
         /\ \A q \in Requests \ {r} :
              sess'[q] = sess[q] /\ pc'[q] = pc[q] /\ answer'[q] = answer[q]
<1> USE DEF CaseTypes, NoSession, Places, Goto
<1>1. CASE Missing(r)
  BY <1>1 DEF Missing
<1>2. CASE Load(r)
  BY <1>2 DEF Load
<1>3. CASE Prepare(r)
  BY <1>3 DEF Prepare
<1>4. CASE LoadOther(r)
  BY <1>4 DEF LoadOther
<1>5. CASE Collect(r)
  BY <1>5 DEF Collect
<1>6. CASE Flush(r)
  <2>1. AfterFlush(r) \in Places
    BY DEF AfterFlush
  <2> QED
    BY <1>6, <2>1 DEF Flush
<1>7. CASE SelectAlias(r)
  BY <1>7 DEF SelectAlias
<1>8. CASE LockOther(r)
  BY <1>8 DEF LockOther
<1>9. CASE DeleteOther(r)
  BY <1>9 DEF DeleteOther
<1>10. CASE Refresh(r)
  BY <1>10 DEF Refresh
<1>11. CASE Commit(r)
  BY <1>11 DEF Commit
<1>12. CASE Abort(r)
  BY <1>12 DEF Abort
<1> QED
  BY <1>1, <1>2, <1>3, <1>4, <1>5, <1>6, <1>7, <1>8, <1>9, <1>10, <1>11, <1>12
  DEF Moves, Handler

(***************************************************************************)
(* What a request flushes are columns it is about.                         *)
(***************************************************************************)
LEMMA EditsAreNamed ==
  ASSUME NEW o, NEW row, o.kind \in (EntityOps \cup AlertOps \cup ProfileOps) \ {"create", "profile"},
         NEW cols \in Flushable(row, Edited(o, row), o.kind)
  PROVE  cols \subseteq Names(o)
<1>1. CASE o.kind = "flag"
  BY <1>1 DEF Flushable, Dirty, Edited, Flag, Names
<1>2. CASE o.kind = "update"
  BY <1>2 DEF Flushable, Dirty, Edited, Update, Names
<1>3. CASE o.kind = "score"
  BY <1>3 DEF Flushable, Dirty, Edited, Score, Names
<1>4. CASE o.kind = "assign"
  BY <1>4 DEF Flushable, Dirty, Edited, Assign, Names
<1>5. CASE o.kind = "resolve"
  BY <1>5 DEF Flushable, Dirty, Edited, Resolve, Names
<1>6. CASE o.kind = "link"
  BY <1>6 DEF Flushable, Dirty, Edited, LinkEntity, Names
<1>7. CASE o.kind = "merge"
  BY <1>7 DEF Flushable, Dirty, Edited, Names
<1> QED
  BY <1>1, <1>2, <1>3, <1>4, <1>5, <1>6, <1>7 DEF EntityOps, AlertOps, ProfileOps

(***************************************************************************)
(* Every action keeps what its own request holds in order.                 *)
(***************************************************************************)
LEMMA MoverKeeps ==
  ASSUME CaseTypes, SessionsKept, AliasesArePairs, NEW r \in Requests, Moves(r)
  PROVE  Keeps(r)' /\ Locks(r)' /\ Writes(r)'
<1>0. op[r].kind \in EntityOps \cup AlertOps \cup ProfileOps
  BY CaseAssumption DEF CaseTypes
<1>a. Keeps(r) /\ Locks(r) /\ Writes(r)
  BY DEF SessionsKept
<1> USE DEF CaseTypes, NoSession, Goto, Keeps, Locks, Writes, PastFlush, Targets, MustWrite,
            Creates
<1>1. CASE Missing(r) \/ Commit(r) \/ Abort(r)
  <2>1. sess'[r] = NoSession /\ pc'[r] = "done" /\ answer'[r] # "none"
    BY <1>1 DEF Missing, Commit, Abort
  <2> QED
    BY <2>1
<1>2. CASE Load(r)
  <2>1. PICK cols \in Flushable(rows[op[r].id], Edited(op[r], rows[op[r].id]), op[r].kind) :
          sess' = [sess EXCEPT ![r].loaded = rows[op[r].id],
                               ![r].now = Edited(op[r], rows[op[r].id]), ![r].cols = cols]
    BY <1>2 DEF Load
  <2>2. cols \subseteq Names(op[r])
    BY <1>0, <1>2, <2>1, EditsAreNamed DEF Load
  <2> QED
    BY <1>a, <1>2, <2>1, <2>2 DEF Load
<1>3. CASE Prepare(r)
  BY <1>a, <1>3 DEF Prepare
<1>4. CASE LoadOther(r)
  <2>1. PICK now : \E cols \in Flushable(sess[r].loaded, now, "merge") :
               /\ now = [sess[r].loaded EXCEPT
                           !.linked_entities = @ \cup rows[op[r].other].linked_entities]
               /\ sess' = [sess EXCEPT ![r].now = now, ![r].cols = cols]
    BY <1>4 DEF LoadOther
  <2>2. PICK cols \in Flushable(sess[r].loaded, now, "merge") :
               sess' = [sess EXCEPT ![r].now = now, ![r].cols = cols]
    BY <2>1
  <2>3. op[r].kind = "merge"
    BY <1>a, <1>4 DEF LoadOther
  <2>4. cols \subseteq Names(op[r])
    BY <2>1, <2>2, <2>3 DEF Flushable, Dirty, Names
  <2> QED
    BY <1>a, <1>4, <2>2, <2>3, <2>4 DEF LoadOther
<1>5. CASE Collect(r)
  BY <1>a, <1>5 DEF Collect, AliasesOf, AliasesArePairs
<1>6. CASE Flush(r)
  <2>1. AfterFlush(r) \in {"alias", "lock", "commit", "refresh"}
        /\ (AfterFlush(r) = "alias" => op[r].kind \in {"link", "profile"})
        /\ (AfterFlush(r) = "lock" => op[r].kind = "merge")
    BY DEF AfterFlush
  <2> QED
    BY <1>a, <1>6, <2>1 DEF Flush
<1>7. CASE SelectAlias(r)
  <2>1. PICK a \in BOOLEAN : sess' = [sess EXCEPT ![r].add = a]
    BY <1>7 DEF SelectAlias
  <2> QED
    BY <1>a, <1>7, <2>1 DEF SelectAlias
<1>8. CASE LockOther(r)
  BY <1>a, <1>8 DEF LockOther
<1>9. CASE DeleteOther(r)
  BY <1>a, <1>9 DEF DeleteOther
<1>10. CASE Refresh(r)
  BY <1>a, <1>10 DEF Refresh
<1> QED
  BY <1>1, <1>2, <1>3, <1>4, <1>5, <1>6, <1>7, <1>8, <1>9, <1>10 DEF Moves, Handler

LEMMA OthersKeep ==
  ASSUME SessionsKept, op' = op, NEW r \in Requests, Keeps(r)' /\ Locks(r)' /\ Writes(r)',
         \A q \in Requests \ {r} :
              sess'[q] = sess[q] /\ pc'[q] = pc[q] /\ answer'[q] = answer[q]
  PROVE  SessionsKept'
BY DEF SessionsKept, Keeps, Locks, Writes, PastFlush, Targets, MustWrite, Creates

(***************************************************************************)
(* A row is taken only when no other session has it.                       *)
(***************************************************************************)
LEMMA RowsStayApart ==
  ASSUME CaseTypes, SessionsKept, RowsApart, NEW r \in Requests, Moves(r)
  PROVE  RowsApart'
<1>1. \A q \in Requests \ {r} : sess'[q] = sess[q]
  BY OneMoves
<1> USE DEF CaseTypes, NoSession
<1>2. CASE Flush(r)
  <2>1. sess'[r].held = Targets(r) /\ Free(r, Targets(r))
    BY <1>2 DEF Flush
  <2> QED
    BY <1>1, <2>1 DEF RowsApart, Free
<1>3. CASE LockOther(r)
  <2>1. sess'[r].held \subseteq sess[r].held \cup {<<op[r].other>>}
        /\ Free(r, {<<op[r].other>>})
    BY <1>3 DEF LockOther
  <2> QED
    BY <1>1, <2>1 DEF RowsApart, Free
<1>4. CASE ~Flush(r) /\ ~LockOther(r)
  <2>1. sess'[r].held \subseteq sess[r].held
    BY <1>4 DEF Moves, Handler, Missing, Load, Prepare, LoadOther, Collect, SelectAlias,
                DeleteOther, Refresh, Commit, Abort
  <2> QED
    BY <1>1, <2>1 DEF RowsApart
<1> QED
  BY <1>2, <1>3, <1>4

LEMMA AliasesStayPairs ==
  ASSUME AliasesArePairs, NEW r \in Requests, Moves(r)
  PROVE  AliasesArePairs'
<1>1. CASE Commit(r)
  BY <1>1 DEF Commit, AliasesArePairs
<1>2. CASE Abort(r)
  BY <1>2 DEF Abort, AliasesArePairs
<1>3. CASE Handler(r)
  BY <1>3 DEF Handler, Missing, Load, Prepare, LoadOther, Collect, Flush, SelectAlias,
              LockOther, DeleteOther, Refresh, AliasesArePairs
<1> QED
  BY <1>1, <1>2, <1>3 DEF Moves

Sound == CaseTypes /\ SessionsKept /\ RowsApart /\ AliasesArePairs

LEMMA SoundInit == Init => Sound
<1> SUFFICES ASSUME Init PROVE Sound
  OBVIOUS
<1>1. CaseTypes
  BY DEF Init, CaseTypes, NoSession, Places
<1>2. SessionsKept
  BY DEF Init, NoSession, SessionsKept, Keeps, Locks, Writes, PastFlush, Creates
<1>3. RowsApart
  BY DEF Init, NoSession, RowsApart
<1>4. AliasesArePairs
  BY DEF Init, AliasesArePairs
<1> QED
  BY <1>1, <1>2, <1>3, <1>4 DEF Sound

LEMMA SoundStep == Sound /\ [CaseNext]_vars => Sound'
<1> SUFFICES ASSUME Sound, [CaseNext]_vars PROVE Sound'
  OBVIOUS
<1>1. ASSUME NEW r \in Requests, Moves(r) PROVE Sound'
  <2>1. SessionsKept'
    BY <1>1, OneMoves, MoverKeeps, OthersKeep DEF Sound
  <2> QED
    BY <1>1, <2>1, OneMoves, RowsStayApart, AliasesStayPairs DEF Sound
<1>2. CASE Halts
  <2>1. CaseTypes'
    BY <1>2 DEF Halts, Sound, CaseTypes, Places
  <2>2. SessionsKept'
    BY <1>2 DEF Halts, NoSession, SessionsKept, Keeps, Locks, Writes, PastFlush, Creates,
                Sound, CaseTypes
  <2>3. RowsApart' /\ AliasesArePairs'
    BY <1>2 DEF Halts, NoSession, Sound, RowsApart, AliasesArePairs
  <2> QED
    BY <2>1, <2>2, <2>3 DEF Sound
<1>3. CASE UNCHANGED vars
  BY <1>3 DEF vars, Sound, CaseTypes, SessionsKept, Keeps, Locks, Writes, PastFlush, Targets,
              MustWrite, Creates, RowsApart, AliasesArePairs
<1> QED
  BY <1>1, <1>2, <1>3 DEF CaseNext

----------------------------------------------------------------------------
\* A row that is being created is not there yet; what an edit of an entity has read back
\* is the committed row with its own columns.
Owns(r) ==
  /\ Creates(r) /\ PastFlush(r) => op[r].id \notin DOMAIN rows
  /\ pc[r] = "commit" /\ op[r].kind \in EntityOps =>
       /\ Creates(r) => sess[r].seen = sess[r].now
       /\ ~Creates(r) => /\ op[r].id \in DOMAIN rows
                         /\ sess[r].seen = Written(rows[op[r].id], sess[r].now, sess[r].cols)

RowsOwned == \A r \in Requests : Owns(r)

(***************************************************************************)
(* Two requests past their flush that both write their row have different  *)
(* rows.                                                                   *)
(***************************************************************************)
LEMMA WritersHaveOwnRows ==
  ASSUME Sound, NEW q \in Requests, NEW r \in Requests,
         PastFlush(q), PastFlush(r), MustWrite(q), MustWrite(r), op[q].id = op[r].id
  PROVE  q = r
<1>1. <<op[r].id>> \in Targets(q) /\ <<op[r].id>> \in Targets(r)
  BY DEF Targets
<1>2. Locks(q) /\ Locks(r)
  BY DEF Sound, SessionsKept
<1>3. <<op[r].id>> \in sess[q].held \cap sess[r].held
  BY <1>1, <1>2 DEF Locks
<1> QED
  BY <1>3 DEF Sound, RowsApart

(***************************************************************************)
(* What a commit does to the table: it adds its row, or removes the other  *)
(* profile and writes its own row.                                         *)
(***************************************************************************)
LEMMA CommitOnRows ==
  ASSUME NEW r \in Requests, Commit(r)
  PROVE  /\ PastFlush(r)
         /\ DOMAIN rows' = (DOMAIN rows \cup Added(r)) \ Removed(r)
         /\ \A i \in DOMAIN rows' :
              /\ i \in Added(r) => rows'[i] = sess[r].now
              /\ i \notin Added(r) /\ i = op[r].id =>
                   rows'[i] = Written(rows[i], sess[r].now, sess[r].cols)
              /\ i \notin Added(r) /\ i # op[r].id => rows'[i] = rows[i]
BY DEF Commit, PastFlush, Added

LEMMA RowsChangeInCommits ==
  ASSUME NEW r \in Requests, Moves(r), ~Commit(r)
  PROVE  UNCHANGED <<op, rows, aliases>>
BY DEF Moves, Handler, Missing, Load, Prepare, LoadOther, Collect, Flush, SelectAlias,
       LockOther, DeleteOther, Refresh, Abort

LEMMA MoverOwns ==
  ASSUME Sound, RowsOwned, NEW r \in Requests, Moves(r)
  PROVE  Owns(r)'
<1> USE DEF Sound, CaseTypes, NoSession, Goto, Owns, PastFlush, Creates
<1>0. Owns(r)
  BY DEF RowsOwned
<1>1. CASE Missing(r) \/ Load(r) \/ Prepare(r) \/ LoadOther(r) \/ Collect(r) \/ Commit(r)
           \/ Abort(r)
  <2>1. pc'[r] \in {"other", "collect", "flush", "done"}
    BY <1>1 DEF Missing, Load, Prepare, LoadOther, Collect, Commit, Abort
  <2> QED
    BY <2>1
<1>2. CASE Flush(r)
  <2>1. AfterFlush(r) = "commit" => op[r].kind \notin EntityOps
    BY DEF AfterFlush, EntityOps, AlertOps
  <2> QED
    BY <1>2, <2>1 DEF Flush, Fits
<1>3. CASE SelectAlias(r)
  BY <1>0, <1>3 DEF SelectAlias
<1>4. CASE LockOther(r)
  BY <1>0, <1>4 DEF LockOther
<1>5. CASE DeleteOther(r)
  BY <1>0, <1>5 DEF DeleteOther
<1>6. CASE Refresh(r)
  BY <1>0, <1>6 DEF Refresh, RowStays
<1> QED
  BY <1>1, <1>2, <1>3, <1>4, <1>5, <1>6 DEF Moves, Handler

LEMMA OthersOwn ==
  ASSUME Sound, RowsOwned, NEW r \in Requests, Moves(r), NEW q \in Requests \ {r}
  PROVE  Owns(q)'
<1>0. op' = op /\ sess'[q] = sess[q] /\ pc'[q] = pc[q]
  BY OneMoves DEF Sound
<1>1. CASE ~Commit(r)
  BY <1>0, <1>1, RowsChangeInCommits DEF RowsOwned, Owns, PastFlush, Creates
<1>2. CASE Commit(r)
  <2>1. ASSUME Creates(q), PastFlush(q) PROVE op[q].id \notin DOMAIN rows'
    <3>1. SUFFICES ASSUME op[q].id \in Added(r) PROVE FALSE
      BY <1>2, <2>1, CommitOnRows DEF RowsOwned, Owns
    <3> QED
      BY <1>2, <2>1, <3>1, CommitOnRows, WritersHaveOwnRows DEF Added, Creates, MustWrite
  <2>2. ASSUME ~Creates(q), pc[q] = "commit", op[q].kind \in EntityOps
        PROVE  op[q].id \in DOMAIN rows' /\ rows'[op[q].id] = rows[op[q].id]
    <3>1. op[q].id \in DOMAIN rows
      BY <2>2 DEF RowsOwned, Owns
    <3>2. op[q].kind \notin ProfileOps
      BY <2>2 DEF EntityOps, ProfileOps
    <3>3. op[q].id \notin ProfileIds(op) /\ op[r].kind \in EntityOps \cup AlertOps \cup ProfileOps
      BY <3>2, CaseAssumption DEF Sound, CaseTypes
    <3>4. op[q].id \notin Removed(r)
      BY <3>3 DEF Removed, ProfileIds, Others
    <3>5. op[q].id # op[r].id
      <4>1. CASE op[r].kind \in ProfileOps
        BY <3>3, <4>1 DEF ProfileIds
      <4>2. CASE op[r].kind \notin ProfileOps
        BY <1>2, <2>2, <3>2, <4>2, CommitOnRows, WritersHaveOwnRows
        DEF MustWrite, ProfileOps, PastFlush
      <4> QED
        BY <4>1, <4>2
    <3> QED
      BY <1>2, <3>1, <3>4, <3>5, CommitOnRows DEF Added
  <2> QED
    BY <1>0, <2>1, <2>2 DEF RowsOwned, Owns, PastFlush, Creates
<1> QED
  BY <1>1, <1>2

LEMMA RowsOwnedStep == Sound /\ RowsOwned /\ [CaseNext]_vars => RowsOwned'
<1> SUFFICES ASSUME Sound, RowsOwned, [CaseNext]_vars PROVE RowsOwned'
  OBVIOUS
<1>1. ASSUME NEW r \in Requests, Moves(r) PROVE RowsOwned'
  BY <1>1, MoverOwns, OthersOwn DEF RowsOwned
<1>2. CASE Halts
  BY <1>2 DEF Halts, RowsOwned, Owns, PastFlush
<1>3. CASE UNCHANGED vars
  BY <1>3 DEF vars, RowsOwned, Owns, PastFlush, Creates
<1> QED
  BY <1>1, <1>2, <1>3 DEF CaseNext

LEMMA RowsOwnedInit == Init => RowsOwned
BY DEF Init, RowsOwned, Owns, PastFlush

LEMMA CommitsAreCommits ==
  ASSUME Sound, [CaseNext]_vars, NEW r \in Requests, Commits(r)
  PROVE  Commit(r)
<1>1. CASE Halts
  BY <1>1 DEF Halts, Commits
<1>2. CASE UNCHANGED vars
  BY <1>2 DEF vars, Commits
<1>3. ASSUME NEW q \in Requests, Moves(q) PROVE Commit(r)
  <2>1. q = r
    BY <1>3, OneMoves DEF Sound, Commits
  <2>2. SUFFICES ASSUME ~Commit(r) PROVE FALSE
    OBVIOUS
  <2>3. UNCHANGED answer \/ answer'[r] \in {"missing", "error"}
    BY <1>3, <2>1, <2>2
    DEF Moves, Handler, Missing, Load, Prepare, LoadOther, Collect, Flush, SelectAlias,
        LockOther, DeleteOther, Refresh, Abort, Sound, CaseTypes
  <2> QED
    BY <2>3 DEF Commits
<1> QED
  BY <1>1, <1>2, <1>3 DEF CaseNext

LEMMA CommitWritesOwnColumns ==
  ASSUME Sound, RowsOwned, NEW r \in Requests, Commit(r),
         NEW i \in DOMAIN rows \cap DOMAIN rows', rows'[i] # rows[i]
  PROVE  /\ i = op[r].id
         /\ \A c \in DOMAIN rows[i] \ Names(op[r]) : rows'[i][c] = rows[i][c]
<1>1. i \notin Added(r)
  BY CommitOnRows DEF RowsOwned, Owns, Added
<1>2. i = op[r].id /\ ~Creates(r)
  BY <1>1, CommitOnRows DEF Added
<1>3. sess[r].cols \subseteq Names(op[r])
  BY <1>2 DEF Sound, SessionsKept, Writes
<1>4. rows'[i] = Written(rows[i], sess[r].now, sess[r].cols)
  BY <1>1, <1>2, CommitOnRows
<1> QED
  BY <1>2, <1>3, <1>4 DEF Written

LEMMA SoundAlways == AuditSpec => [](Sound /\ RowsOwned)
<1>1. Sound /\ RowsOwned /\ [AuditNext]_allVars => (Sound /\ RowsOwned)'
  BY CaseSteps, SoundStep, RowsOwnedStep
<1>2. AuditInit => Sound /\ RowsOwned
  BY SoundInit, RowsOwnedInit DEF AuditInit
<1> QED
  BY <1>1, <1>2, PTL DEF AuditSpec

(***************************************************************************)
(* An edit commits the columns it is about and no other, an insert takes   *)
(* no row's place, a merge removes one profile: whatever rows there are    *)
(* and whatever requests overlap (update_entity, flag_entity,              *)
(* update_risk_scores, assign_alert, resolve_alert, create_entity,         *)
(* link_entity_to_profile, merge_profiles).                                *)
(***************************************************************************)
THEOREM NoWriteIsCollateral == AuditSpec => NoCollateralWrites
<1>1. ASSUME Sound, RowsOwned, [AuditNext]_allVars
      PROVE  [\A r \in Requests : Commits(r) =>
                /\ DOMAIN rows \ DOMAIN rows' \subseteq Removed(r)
                /\ \A i \in DOMAIN rows \cap DOMAIN rows' : rows'[i] # rows[i] =>
                     /\ i = op[r].id
                     /\ \A c \in DOMAIN rows[i] \ Names(op[r]) : rows'[i][c] = rows[i][c]]_vars
  BY <1>1, CaseSteps, CommitsAreCommits, CommitOnRows, CommitWritesOwnColumns
<1> QED
  BY <1>1, SoundAlways, PTL DEF AuditSpec, NoCollateralWrites

(***************************************************************************)
(* The row that create_entity, flag_entity, update_entity and              *)
(* update_risk_scores answer is the row they commit.                       *)
(***************************************************************************)
THEOREM AnswersAreAlwaysTrue == AuditSpec => AnswersAreTrue
<1>1. ASSUME Sound, RowsOwned, NEW r \in Requests, Commit(r), op[r].kind \in EntityOps
      PROVE  rows'[op[r].id] = sess[r].seen
  <2>1. pc[r] = "commit"
    BY <1>1 DEF Commit
  <2>2. Removed(r) = {}
    BY <1>1 DEF Removed, EntityOps
  <2>3. CASE Creates(r)
    BY <1>1, <2>1, <2>2, <2>3, CommitOnRows DEF Added, RowsOwned, Owns
  <2>4. CASE ~Creates(r)
    BY <1>1, <2>1, <2>2, <2>4, CommitOnRows DEF Added, RowsOwned, Owns
  <2> QED
    BY <2>3, <2>4
<1>2. ASSUME Sound, RowsOwned, [AuditNext]_allVars
      PROVE  [\A r \in Requests :
                Commits(r) /\ op[r].kind \in EntityOps => rows'[op[r].id] = sess[r].seen]_vars
  BY <1>1, <1>2, CaseSteps, CommitsAreCommits
<1> QED
  BY <1>2, SoundAlways, PTL DEF AuditSpec, AnswersAreTrue

----------------------------------------------------------------------------
\* Which rows are profiles, and that each alias has its profile and its entity.
TablesMatch ==
  /\ \A i \in DOMAIN rows \cap ProfileIds(op) : i \in Profiles(rows)
  /\ \A r \in Requests : op[r].kind \notin ProfileOps => op[r].id \notin Profiles(rows)
  /\ \A l \in DOMAIN aliases :
       l[1] \in Profiles(rows) /\ l[2] \in DOMAIN rows /\ l[2] \notin Others(op)

\* The entity a request links stays; so does, once the alias is flushed, the profile.
Linkable(r) ==
  /\ op[r].kind \in {"link", "profile"} /\ pc[r] \notin {"load", "done"} =>
       op[r].entity \in DOMAIN rows
  /\ sess[r].add /\ pc[r] = "commit" => RowStays(r) /\ ~Deleting(op[r].id)

AllLinkable == \A r \in Requests : Linkable(r)

(***************************************************************************)
(* A deletion starts where no alias of the profile is being inserted.      *)
(***************************************************************************)
LEMMA DeletionsStart ==
  ASSUME Sound, NEW r \in Requests, Moves(r), NEW p, Deleting(p)'
  PROVE  Deleting(p) \/ (DeleteOther(r) /\ op[r].other = p)
<1>0. Keeps(r) /\ op' = op
  BY OneMoves DEF Sound, SessionsKept
<1>1. PICK q \in Requests : op[q].kind = "merge" /\ op[q].other = p
                              /\ pc'[q] \in {"refresh", "commit"}
  BY <1>0 DEF Deleting
<1>2. CASE q # r
  BY <1>1, <1>2, OneMoves DEF Sound, Deleting
<1>3. CASE q = r
  <2> USE DEF Goto, Sound, CaseTypes
  <2>1. CASE Missing(r) \/ Load(r) \/ Prepare(r) \/ LoadOther(r) \/ Collect(r) \/ LockOther(r)
             \/ Commit(r) \/ Abort(r)
    BY <1>1, <1>3, <2>1
    DEF Missing, Load, Prepare, LoadOther, Collect, LockOther, Commit, Abort
  <2>2. CASE Flush(r)
    <3>1. AfterFlush(r) = "lock"
      BY <1>1, <1>3 DEF AfterFlush, AlertOps
    <3> QED
      BY <1>1, <1>3, <2>2, <3>1 DEF Flush
  <2>3. CASE SelectAlias(r)
    BY <1>0, <1>1, <1>3, <2>3 DEF SelectAlias, Keeps
  <2>4. CASE Refresh(r)
    BY <1>1, <1>3, <2>4 DEF Refresh, Deleting
  <2> QED
    BY <1>1, <1>3, <2>1, <2>2, <2>3, <2>4 DEF Moves, Handler
<1> QED
  BY <1>2, <1>3

LEMMA OnlyProfilesGo ==
  ASSUME NEW r \in Requests
  PROVE  Removed(r) \subseteq Others(op)
BY DEF Removed, Others

(***************************************************************************)
(* A commit leaves the rows there are with the columns they have, and adds *)
(* a new one of the kind the request creates.                              *)
(***************************************************************************)
LEMMA RowsKeepShape ==
  ASSUME Sound, RowsOwned, NEW r \in Requests, Commit(r), NEW i \in DOMAIN rows'
  PROVE  /\ i \in DOMAIN rows => DOMAIN rows'[i] = DOMAIN rows[i]
         /\ i \notin DOMAIN rows => Creates(r) /\ i = op[r].id /\ rows'[i] = NewRow(op[r])
<1>1. CASE i \in DOMAIN rows
  <2>1. i \notin Added(r)
    BY <1>1, CommitOnRows DEF RowsOwned, Owns, Added
  <2>2. rows'[i] = rows[i] \/ rows'[i] = Written(rows[i], sess[r].now, sess[r].cols)
    BY <2>1, CommitOnRows
  <2>3. DOMAIN Written(rows[i], sess[r].now, sess[r].cols) = DOMAIN rows[i]
    BY DEF Written
  <2> QED
    BY <1>1, <2>2, <2>3
<1>2. CASE i \notin DOMAIN rows
  <2>1. i \in Added(r)
    BY <1>2, CommitOnRows
  <2>2. pc[r] = "commit"
    BY DEF Commit
  <2> QED
    BY <1>2, <2>1, <2>2, CommitOnRows DEF Added, Sound, SessionsKept, Writes
<1> QED
  BY <1>1, <1>2

LEMMA KindsKnown ==
  ASSUME Sound, NEW r \in Requests
  PROVE  /\ op[r].kind \in EntityOps \cup AlertOps \cup ProfileOps
         /\ op[r].kind \notin ProfileOps => op[r].id \notin ProfileIds(op)
         /\ op[r].kind \in ProfileOps => op[r].id \in ProfileIds(op)
         /\ op[r].kind = "create" => "linked_entities" \notin DOMAIN op[r].row
         /\ Creates(r) => op[r].id \notin Others(op)
         /\ op[r].kind \in {"link", "profile"} =>
              op[r].entity \notin ProfileIds(op) /\ op[r].entity \notin Others(op)
BY CaseAssumption DEF Sound, CaseTypes, Creates, ProfileIds

LEMMA TablesMatchStep ==
  ASSUME Sound, RowsOwned, TablesMatch, AllLinkable, NEW r \in Requests, Moves(r)
  PROVE  TablesMatch'
<1>0. op' = op
  BY OneMoves DEF Sound
<1>1. CASE ~Commit(r)
  BY <1>1, RowsChangeInCommits DEF TablesMatch, Profiles
<1>2. CASE Commit(r)
  <2>1. ASSUME NEW i \in DOMAIN rows' \cap ProfileIds(op) PROVE i \in Profiles(rows')
    <3>1. CASE i \in DOMAIN rows
      BY <1>2, <3>1, RowsKeepShape DEF TablesMatch, Profiles
    <3>2. CASE i \notin DOMAIN rows
      <4>1. op[r].kind = "profile" /\ rows'[i] = NewRow(op[r])
        BY <1>2, <3>2, RowsKeepShape, KindsKnown DEF Creates, ProfileOps
      <4> QED
        BY <4>1 DEF NewRow, Profiles
    <3> QED
      BY <3>1, <3>2
  <2>2. ASSUME NEW q \in Requests, op[q].kind \notin ProfileOps, op[q].id \in Profiles(rows')
        PROVE  FALSE
    <3>1. CASE op[q].id \in DOMAIN rows
      BY <1>2, <2>2, <3>1, RowsKeepShape DEF TablesMatch, Profiles
    <3>2. CASE op[q].id \notin DOMAIN rows
      <4>1. Creates(r) /\ op[q].id = op[r].id /\ rows'[op[q].id] = NewRow(op[r])
        BY <1>2, <2>2, <3>2, RowsKeepShape DEF Profiles
      <4>2. op[r].kind = "create"
        BY <2>2, <4>1, KindsKnown DEF Creates, ProfileOps
      <4> QED
        BY <2>2, <4>1, <4>2, KindsKnown DEF NewRow, Profiles
    <3> QED
      BY <3>1, <3>2
  <2>3. ASSUME NEW l \in DOMAIN aliases'
        PROVE  l[1] \in Profiles(rows') /\ l[2] \in DOMAIN rows' /\ l[2] \notin Others(op)
    <3>1. CASE l \in DOMAIN aliases /\ l[1] \notin Removed(r)
      <4>1. l[1] \in Profiles(rows) /\ l[2] \in DOMAIN rows /\ l[2] \notin Others(op)
        BY <3>1 DEF TablesMatch
      <4>2. l[1] \in DOMAIN rows' /\ l[2] \in DOMAIN rows'
        BY <1>2, <3>1, <4>1, CommitOnRows, OnlyProfilesGo DEF Profiles
      <4> QED
        BY <1>2, <4>1, <4>2, RowsKeepShape DEF Profiles
    <3>2. CASE sess[r].add /\ l = <<op[r].id, op[r].entity>>
      <4>1. pc[r] = "commit"
        BY <1>2 DEF Commit
      <4>2. op[r].kind \in {"link", "profile"}
        BY <3>2 DEF Sound, SessionsKept, Writes
      <4>3. Removed(r) = {}
        BY <4>2 DEF Removed
      <4>4. op[r].entity \in DOMAIN rows' /\ op[r].entity \notin Others(op)
        BY <1>2, <4>1, <4>2, <4>3, KindsKnown, CommitOnRows DEF AllLinkable, Linkable
      <4>5. op[r].id \in DOMAIN rows'
        BY <1>2, <3>2, <4>1, <4>3, CommitOnRows DEF AllLinkable, Linkable, RowStays, Added
      <4>6. op[r].id \in ProfileIds(op)
        BY <4>2, KindsKnown DEF ProfileOps
      <4> QED
        BY <2>1, <3>2, <4>4, <4>5, <4>6
    <3> QED
      BY <1>2, <3>1, <3>2 DEF Commit
  <2> QED
    BY <1>0, <2>1, <2>2, <2>3 DEF TablesMatch
<1> QED
  BY <1>1, <1>2

LEMMA OthersLinkable ==
  ASSUME Sound, AllLinkable, NEW r \in Requests, Moves(r), NEW q \in Requests \ {r}
  PROVE  Linkable(q)'
<1>0. op' = op /\ sess'[q] = sess[q] /\ pc'[q] = pc[q] /\ Linkable(q)
  BY OneMoves DEF Sound, AllLinkable
<1>1. ASSUME op[q].kind \in {"link", "profile"}, pc[q] \notin {"load", "done"}
      PROVE  op[q].entity \in DOMAIN rows'
  <2>1. op[q].entity \in DOMAIN rows /\ op[q].entity \notin Removed(r)
    BY <1>0, <1>1, KindsKnown, OnlyProfilesGo DEF Linkable
  <2> QED
    BY <2>1, CommitOnRows, RowsChangeInCommits
<1>2. ASSUME sess[q].add, pc[q] = "commit"
      PROVE  RowStays(q)' /\ ~Deleting(op[q].id)'
  <2>1. RowStays(q) /\ ~Deleting(op[q].id)
    BY <1>0, <1>2 DEF Linkable
  <2>2. ~Deleting(op[q].id)'
    <3> DEFINE p == op[q].id
    <3>1. ~(DeleteOther(r) /\ op[r].other = p)
      BY <1>2 DEF DeleteOther, Referenced
    <3>2. ~Deleting(p)
      BY <2>1
    <3>3. PICK t : t = p
      OBVIOUS
    <3>4. ~Deleting(t)'
      BY <3>1, <3>2, <3>3, DeletionsStart
    <3> QED
      BY <1>0, <3>3, <3>4 DEF Deleting
  <2>3. Commit(r) => op[q].id \notin Removed(r)
    BY <2>1 DEF Removed, Deleting, Commit
  <2>4. RowStays(q)'
    BY <1>0, <2>1, <2>3, CommitOnRows, RowsChangeInCommits DEF RowStays, Creates
  <2> QED
    BY <2>2, <2>4
<1> QED
  BY <1>0, <1>1, <1>2 DEF Linkable

LEMMA MoverLinkable ==
  ASSUME Sound, AllLinkable, NEW r \in Requests, Moves(r)
  PROVE  Linkable(r)'
<1>0. op' = op /\ Linkable(r) /\ Keeps(r) /\ Writes(r)
  BY OneMoves DEF Sound, AllLinkable, SessionsKept
<1> USE DEF Goto, Sound, CaseTypes, NoSession
<1>1. CASE Missing(r) \/ Commit(r) \/ Abort(r)
  <2>1. pc'[r] = "done"
    BY <1>1 DEF Missing, Commit, Abort
  <2> QED
    BY <2>1 DEF Linkable
<1>2. CASE Load(r) \/ Prepare(r)
  <2>1. EntityNeeded(r) \subseteq DOMAIN rows' /\ pc'[r] # "commit"
    BY <1>2 DEF Load, Prepare
  <2> QED
    BY <1>0, <2>1 DEF Linkable, EntityNeeded
<1>3. CASE LoadOther(r) \/ Collect(r) \/ LockOther(r) \/ DeleteOther(r)
  <2>1. op[r].kind = "merge" /\ pc'[r] # "commit"
    BY <1>0, <1>3 DEF LoadOther, Collect, LockOther, DeleteOther, Keeps
  <2> QED
    BY <1>0, <2>1 DEF Linkable
<1>4. CASE Flush(r)
  <2>1. ~sess'[r].add /\ pc[r] = "flush" /\ rows' = rows
    BY <1>0, <1>4 DEF Flush, Writes
  <2> QED
    BY <1>0, <2>1 DEF Linkable
<1>5. CASE SelectAlias(r)
  <2>1. pc'[r] = "refresh" /\ pc[r] = "alias" /\ rows' = rows
    BY <1>5 DEF SelectAlias
  <2> QED
    BY <1>0, <2>1 DEF Linkable
<1>6. CASE Refresh(r)
  <2>1. /\ pc[r] = "refresh" /\ rows' = rows /\ RowStays(r)
        /\ sess'[r].add = sess[r].add /\ (sess[r].add => ~Deleting(op[r].id))
    BY <1>6 DEF Refresh
  <2>2. PICK t : t = op[r].id
    OBVIOUS
  <2>3. sess[r].add => ~Deleting(t)'
    BY <1>6, <2>1, <2>2, DeletionsStart DEF DeleteOther
  <2>4. sess[r].add => ~Deleting(op[r].id)'
    BY <1>0, <2>2, <2>3 DEF Deleting
  <2> QED
    BY <1>0, <2>1, <2>4 DEF Linkable, RowStays, Creates
<1> QED
  BY <1>1, <1>2, <1>3, <1>4, <1>5, <1>6 DEF Moves, Handler

Matched == Sound /\ RowsOwned /\ TablesMatch /\ AllLinkable

LEMMA MatchedInit == Init => Matched
<1> SUFFICES ASSUME Init PROVE Matched
  OBVIOUS
<1>1. op \in Workloads /\ rows = Stored
  BY DEF Init
<1>2. TablesMatch
  <2>1. ASSUME NEW l \in DOMAIN aliases
        PROVE  l[1] \in Profiles(rows) /\ l[2] \in DOMAIN rows /\ l[2] \notin Others(op)
    <3>1. PICK p \in Profiles(Stored) : l \in {p} \X Stored[p].linked_entities
      BY DEF Init
    <3>2. l[1] = p /\ l[2] \in DOMAIN Stored \ Profiles(Stored)
      BY <3>1, CaseAssumption
    <3> QED
      BY <1>1, <3>2, CaseAssumption DEF ProfileIds
  <2> QED
    BY <1>1, <2>1, CaseAssumption DEF TablesMatch
<1>3. AllLinkable
  BY DEF Init, AllLinkable, Linkable
<1> QED
  BY <1>2, <1>3, SoundInit, RowsOwnedInit DEF Matched

LEMMA MatchedStep == Matched /\ [CaseNext]_vars => Matched'
<1> SUFFICES ASSUME Matched, [CaseNext]_vars PROVE Matched'
  OBVIOUS
<1>0. Sound' /\ RowsOwned'
  BY SoundStep, RowsOwnedStep DEF Matched
<1>1. ASSUME NEW r \in Requests, Moves(r) PROVE TablesMatch' /\ AllLinkable'
  BY <1>1, TablesMatchStep, MoverLinkable, OthersLinkable DEF Matched, AllLinkable
<1>2. CASE Halts
  <2>1. TablesMatch'
    BY <1>2 DEF Halts, Matched, TablesMatch, Profiles
  <2>2. AllLinkable'
    BY <1>2 DEF Halts, NoSession, AllLinkable, Linkable
  <2> QED
    BY <1>0, <2>1, <2>2 DEF Matched
<1>3. CASE UNCHANGED vars
  <2>1. TablesMatch'
    BY <1>3 DEF vars, Matched, TablesMatch, Profiles
  <2>2. AllLinkable'
    BY <1>3 DEF vars, Matched, AllLinkable, Linkable, RowStays, Creates, Deleting
  <2> QED
    BY <1>0, <2>1, <2>2 DEF Matched
<1> QED
  BY <1>0, <1>1, <1>2, <1>3 DEF CaseNext, Matched

(***************************************************************************)
(* A row is held between the flush and the end only, by one request; no    *)
(* alias is without its profile or its entity, whatever merges delete.     *)
(***************************************************************************)
THEOREM RecordTypesHold == AuditSpec => []TypeOK
<1>1. Matched => TypeOK
  <2> SUFFICES ASSUME Matched PROVE TypeOK
    OBVIOUS
  <2>1. pc \in [Requests -> Places] /\ answer \in [Requests -> {"none", "ok", "missing", "error"}]
    BY DEF Matched, Sound, CaseTypes
  <2>2. \A r \in Requests :
          pc[r] \in {"load", "other", "collect", "flush", "done"} => sess[r].held = {}
    BY DEF Matched, Sound, SessionsKept, Locks, PastFlush
  <2> QED
    BY <2>1, <2>2 DEF TypeOK, Places, Matched, Sound, RowsApart, TablesMatch
<1>2. Matched /\ [AuditNext]_allVars => Matched'
  BY CaseSteps, MatchedStep
<1> QED
  BY <1>1, <1>2, MatchedInit, PTL DEF AuditSpec, AuditInit

----------------------------------------------------------------------------
\* Profile p was merged into another one.
Gone(p) == \E q \in Requests : op[q].kind = "merge" /\ answer[q] = "ok" /\ op[q].other = p

GoneForGood == \A p : Gone(p) => p \notin DOMAIN rows

\* How a request that links writes the list.
Lists(r) ==
  /\ op[r].kind = "link" /\ pc[r] \notin {"load", "done"} =>
       /\ sess[r].now.linked_entities = sess[r].loaded.linked_entities \cup {op[r].entity}
       /\ sess[r].cols = {} => op[r].entity \in sess[r].loaded.linked_entities
  /\ op[r].kind = "profile" /\ pc[r] \in {"refresh", "commit"} => sess[r].add

AllList == \A r \in Requests : Lists(r)

\* What it has loaded has its aliases; after its SELECT it knows whether it has to add
\* its own.
Linked(r) ==
  op[r].kind = "link" /\ pc[r] \notin {"load", "done"} /\ ~Gone(op[r].id) =>
    /\ op[r].id \in DOMAIN rows
    /\ op[r].id \notin Absorbing =>
         /\ \A e \in sess[r].loaded.linked_entities : Aliases(op[r].id, e) = 1
         /\ pc[r] \in {"refresh", "commit"} =>
              /\ sess[r].add => Aliases(op[r].id, op[r].entity) = 0
              /\ ~sess[r].add => Aliases(op[r].id, op[r].entity) = 1

AllLinked == \A r \in Requests : Linked(r)

AliasesCount == \A l \in DOMAIN aliases : aliases[l] \in Nat \ {0}

OncePer(p) ==
  \A e : /\ Aliases(p, e) \in {0, 1}
         /\ e \in rows[p].linked_entities => Aliases(p, e) = 1

AllOnce == \A p \in Profiles(rows) \ Absorbing : OncePer(p)

LEMMA MoverLists ==
  ASSUME Matched, AllList, NEW r \in Requests, Moves(r)
  PROVE  Lists(r)'
<1>0. /\ op' = op /\ Lists(r) /\ Keeps(r) /\ Writes(r)
      /\ op[r].kind \in EntityOps \cup AlertOps \cup ProfileOps
  BY OneMoves, KindsKnown DEF Matched, AllList, Sound, SessionsKept
<1> USE DEF Goto, Matched, Sound, CaseTypes, NoSession
<1>1. CASE Missing(r) \/ Commit(r) \/ Abort(r)
  <2>1. pc'[r] = "done"
    BY <1>1 DEF Missing, Commit, Abort
  <2> QED
    BY <2>1 DEF Lists
<1>2. CASE Load(r)
  <2>1. pc'[r] \in {"other", "flush"}
    BY <1>2 DEF Load
  <2>2. ASSUME op[r].kind = "link"
        PROVE  /\ sess'[r].now.linked_entities
                    = sess'[r].loaded.linked_entities \cup {op[r].entity}
               /\ sess'[r].cols = {} => op[r].entity \in sess'[r].loaded.linked_entities
    <3>1. op[r].id \in Profiles(rows)
      BY <1>2, <2>2, KindsKnown DEF Load, RowNeeded, TablesMatch, ProfileOps
    <3>2. PICK row : row = rows[op[r].id]
      OBVIOUS
    <3>3. PICK now : now = LinkEntity(op[r], row)
      OBVIOUS
    <3>4. /\ "linked_entities" \in DOMAIN row
          /\ now.linked_entities = row.linked_entities \cup {op[r].entity}
          /\ "linked_entities" \in DOMAIN now
      BY <3>1, <3>2, <3>3 DEF LinkEntity, Profiles
    <3>5. sess'[r].loaded = row /\ sess'[r].now = now
          /\ sess'[r].cols \in {Dirty(row, now), {"linked_entities"}}
      BY <1>2, <2>2, <3>2, <3>3 DEF Load, Edited, Flushable
    <3>6. Dirty(row, now) = {} => now.linked_entities = row.linked_entities
      BY <3>4 DEF Dirty
    <3> QED
      BY <3>4, <3>5, <3>6
  <2> QED
    BY <1>0, <2>1, <2>2 DEF Lists
<1>3. CASE Prepare(r)
  <2>1. op[r].kind # "link" /\ pc'[r] = "flush"
    BY <1>3 DEF Prepare, Creates
  <2> QED
    BY <1>0, <2>1 DEF Lists
<1>4. CASE LoadOther(r) \/ Collect(r) \/ LockOther(r) \/ DeleteOther(r)
  <2>1. op[r].kind = "merge"
    BY <1>0, <1>4 DEF LoadOther, Collect, LockOther, DeleteOther, Keeps
  <2> QED
    BY <1>0, <2>1 DEF Lists
<1>5. CASE Flush(r)
  <2>1. op[r].kind = "profile" => AfterFlush(r) = "alias"
    BY DEF AfterFlush, AlertOps
  <2>2. /\ pc[r] = "flush" /\ pc'[r] = AfterFlush(r)
        /\ sess'[r].now = sess[r].now /\ sess'[r].loaded = sess[r].loaded
        /\ sess'[r].cols = sess[r].cols
    BY <1>5 DEF Flush
  <2> QED
    BY <1>0, <2>1, <2>2 DEF Lists
<1>6. CASE SelectAlias(r)
  <2>1. /\ pc[r] = "alias" /\ pc'[r] = "refresh"
        /\ sess'[r].now = sess[r].now /\ sess'[r].loaded = sess[r].loaded
        /\ sess'[r].cols = sess[r].cols
        /\ Creates(r) => sess'[r].add
    BY <1>6 DEF SelectAlias
  <2> QED
    BY <1>0, <2>1 DEF Lists, Creates
<1>7. CASE Refresh(r)
  <2>1. /\ pc[r] = "refresh" /\ pc'[r] = "commit"
        /\ sess'[r].now = sess[r].now /\ sess'[r].loaded = sess[r].loaded
        /\ sess'[r].cols = sess[r].cols /\ sess'[r].add = sess[r].add
    BY <1>7 DEF Refresh
  <2> QED
    BY <1>0, <2>1 DEF Lists
<1> QED
  BY <1>1, <1>2, <1>3, <1>4, <1>5, <1>6, <1>7 DEF Moves, Handler

LEMMA AllListStep == Matched /\ AllList /\ [CaseNext]_vars => AllList'
<1> SUFFICES ASSUME Matched, AllList, [CaseNext]_vars PROVE AllList'
  OBVIOUS
<1>1. ASSUME NEW r \in Requests, Moves(r) PROVE AllList'
  <2>1. ASSUME NEW q \in Requests \ {r} PROVE Lists(q)'
    BY <1>1, OneMoves DEF Matched, Sound, AllList, Lists
  <2> QED
    BY <1>1, <2>1, MoverLists DEF AllList
<1>2. CASE Halts
  BY <1>2 DEF Halts, AllList, Lists
<1>3. CASE UNCHANGED vars
  BY <1>3 DEF vars, AllList, Lists
<1> QED
  BY <1>1, <1>2, <1>3 DEF CaseNext

Once == Matched /\ AllList /\ AliasesCount /\ GoneForGood /\ AllLinked /\ AllOnce

(***************************************************************************)
(* What is answered "ok" stays so, and only a commit adds to it.           *)
(***************************************************************************)
LEMMA AnswersStay ==
  ASSUME Sound, NEW r \in Requests, Moves(r)
  PROVE  /\ op' = op
         /\ \A q \in Requests : answer[q] = "ok" => answer'[q] = "ok"
         /\ \A q \in Requests : answer'[q] = "ok" => answer[q] = "ok" \/ (q = r /\ Commit(r))
         /\ Absorbing \subseteq Absorbing'
         /\ \A p : Gone(p) => \E q \in Requests :
                       op'[q].kind = "merge" /\ answer'[q] = "ok" /\ op'[q].other = p
<1>1. op' = op /\ \A q \in Requests \ {r} : answer'[q] = answer[q]
  BY OneMoves DEF Sound
<1>2. answer[r] # "ok"
  BY DEF Sound, SessionsKept, Keeps, Moves, Handler, Missing, Load, Prepare, LoadOther,
         Collect, Flush, SelectAlias, LockOther, DeleteOther, Refresh, Commit, Abort
<1>3. Commit(r) \/ answer'[r] # "ok"
  BY <1>2 DEF Moves, Handler, Missing, Load, Prepare, LoadOther,
         Collect, Flush, SelectAlias, LockOther, DeleteOther, Refresh, Abort, Sound, CaseTypes
<1> QED
  BY <1>1, <1>2, <1>3 DEF Absorbing, Gone

(***************************************************************************)
(* What a commit does to the aliases: it adds one, or removes those of the *)
(* other profile.                                                          *)
(***************************************************************************)
Adding(r, p, e) == sess[r].add /\ p = op[r].id /\ e = op[r].entity

LEMMA CommitOnAliases ==
  ASSUME AliasesArePairs, AliasesCount, NEW r \in Requests, Commit(r), NEW p, NEW e
  PROVE  /\ p \notin Removed(r) /\ ~Adding(r, p, e) => Aliases(p, e)' = Aliases(p, e)
         /\ p \notin Removed(r) /\ Adding(r, p, e) => Aliases(p, e)' = Aliases(p, e) + 1
<1> DEFINE new == IF sess[r].add THEN {<<op[r].id, op[r].entity>>} ELSE {}
           left == {l \in DOMAIN aliases : l[1] \notin Removed(r)}
<1>1. aliases' = [l \in left \cup new |-> Aliases(l[1], l[2]) + IF l \in new THEN 1 ELSE 0]
  BY DEF Commit
<1>2. <<p, e>> \in new <=> Adding(r, p, e)
  BY DEF Adding
<1>3. p \notin Removed(r) => (<<p, e>> \in left <=> <<p, e>> \in DOMAIN aliases)
  OBVIOUS
<1>4. Aliases(p, e) \in Nat
  BY DEF Aliases, AliasesCount
<1>5. Aliases(p, e)' = IF <<p, e>> \in left \cup new
                       THEN Aliases(p, e) + (IF <<p, e>> \in new THEN 1 ELSE 0) ELSE 0
  <2>1. Aliases(p, e)' = IF <<p, e>> \in DOMAIN aliases' THEN aliases'[<<p, e>>] ELSE 0
    BY DEF Aliases
  <2> HIDE DEF left, new
  <2>2. DOMAIN aliases' = left \cup new
    BY <1>1
  <2>3. <<p, e>> \in left \cup new =>
          aliases'[<<p, e>>] = Aliases(p, e) + IF <<p, e>> \in new THEN 1 ELSE 0
    BY <1>1
  <2> QED
    BY <2>1, <2>2, <2>3
<1> HIDE DEF left, new
<1>6. <<p, e>> \notin DOMAIN aliases => Aliases(p, e) = 0
  BY DEF Aliases
<1> QED
  BY <1>2, <1>3, <1>4, <1>5, <1>6

LEMMA AliasesCountStep ==
  ASSUME Matched, AliasesCount, NEW r \in Requests, Moves(r)
  PROVE  AliasesCount'
<1>1. CASE ~Commit(r)
  BY <1>1, RowsChangeInCommits DEF AliasesCount
<1>2. CASE Commit(r)
  <2> SUFFICES ASSUME NEW l \in DOMAIN aliases' PROVE aliases'[l] \in Nat \ {0}
    BY DEF AliasesCount
  <2>1. AliasesArePairs'
    BY AliasesStayPairs DEF Matched, Sound
  <2>2. PICK p, e : l = <<p, e>>
    BY <2>1 DEF AliasesArePairs
  <2>3. Aliases(p, e) \in Nat
    BY DEF Aliases, AliasesCount
  <2>4. CASE l \in DOMAIN aliases /\ p \notin Removed(r)
    <3>1. Aliases(p, e) # 0
      BY <2>2, <2>4 DEF Aliases, AliasesCount
    <3>2. aliases'[l] \in {Aliases(p, e), Aliases(p, e) + 1}
      BY <1>2, <2>2, <2>3 DEF Commit
    <3> QED
      BY <2>3, <3>1, <3>2
  <2>5. CASE ~(l \in DOMAIN aliases /\ p \notin Removed(r))
    <3>1. aliases'[l] = Aliases(p, e) + 1
      BY <1>2, <2>2, <2>5 DEF Commit
    <3> QED
      BY <2>3, <3>1
  <2> QED
    BY <2>4, <2>5
<1> QED
  BY <1>1, <1>2

LEMMA GoneStep ==
  ASSUME Matched, GoneForGood, NEW r \in Requests, Moves(r)
  PROVE  GoneForGood'
<1> SUFFICES ASSUME NEW p, Gone(p)' PROVE p \notin DOMAIN rows'
  BY DEF GoneForGood
<1>1. PICK q \in Requests : op[q].kind = "merge" /\ answer'[q] = "ok" /\ op[q].other = p
  BY AnswersStay DEF Matched, Gone
<1>2. CASE answer[q] = "ok"
  <2>1. p \notin DOMAIN rows /\ p \in Others(op)
    BY <1>1, <1>2 DEF GoneForGood, Gone, Others
  <2>2. p \notin Added(r)
    BY <2>1, KindsKnown DEF Matched, Added
  <2> QED
    BY <2>1, <2>2, CommitOnRows, RowsChangeInCommits
<1>3. CASE answer[q] # "ok"
  <2>1. q = r /\ Commit(r)
    BY <1>1, <1>3, AnswersStay DEF Matched
  <2> QED
    BY <1>1, <2>1, CommitOnRows DEF Removed
<1> QED
  BY <1>2, <1>3

(***************************************************************************)
(* Who adds an alias to a profile that nothing was merged into adds the    *)
(* first one for its entity.                                               *)
(***************************************************************************)
LEMMA AddsTheFirst ==
  ASSUME Once, NEW r \in Requests, Commit(r), NEW p, NEW e, Adding(r, p, e),
         p \in DOMAIN rows, p \notin Absorbing
  PROVE  Aliases(p, e) = 0 /\ op[r].kind = "link" /\ sess[r].cols # {}
<1>1. pc[r] = "commit" /\ p = op[r].id /\ e = op[r].entity /\ sess[r].add
  BY DEF Commit, Adding
<1>2. op[r].kind \in {"link", "profile"}
  BY <1>1 DEF Once, Matched, Sound, SessionsKept, Writes
<1>3. op[r].kind = "link"
  BY <1>1, <1>2 DEF Once, Matched, RowsOwned, Owns, Creates, PastFlush
<1>4. ~Gone(p)
  BY DEF Once, GoneForGood
<1>5. Linked(r) /\ Lists(r)
  BY DEF Once, AllLinked, AllList
<1>6. Aliases(p, e) = 0
  BY <1>1, <1>3, <1>4, <1>5 DEF Linked
<1>7. e \notin sess[r].loaded.linked_entities
  BY <1>1, <1>3, <1>4, <1>5, <1>6 DEF Linked
<1> QED
  BY <1>1, <1>3, <1>5, <1>6, <1>7 DEF Lists

LEMMA OthersLinked ==
  ASSUME Once, NEW r \in Requests, Moves(r), NEW q \in Requests \ {r}
  PROVE  Linked(q)'
<1>p. PICK p : p = op[q].id
  OBVIOUS
<1>f. PICK f : f = op[q].entity
  OBVIOUS
<1> USE <1>p, <1>f
<1>0. op' = op /\ sess'[q] = sess[q] /\ pc'[q] = pc[q]
  BY OneMoves DEF Once, Matched, Sound
<1>1. CASE ~(op[q].kind = "link" /\ pc[q] \notin {"load", "done"} /\ ~Gone(p))
  BY <1>0, <1>1, AnswersStay DEF Once, Matched, Linked, Gone
<1>2. CASE op[q].kind = "link" /\ pc[q] \notin {"load", "done"} /\ ~Gone(p) /\ ~Commit(r)
  <2>1. rows' = rows /\ aliases' = aliases
    BY <1>2, RowsChangeInCommits
  <2>2. Linked(q)
    BY DEF Once, AllLinked
  <2> QED
    BY <1>0, <1>2, <2>1, <2>2, AnswersStay DEF Once, Matched, Linked, Aliases
<1>3. CASE op[q].kind = "link" /\ pc[q] \notin {"load", "done"} /\ ~Gone(p) /\ Commit(r)
  <2>1. SUFFICES ASSUME ~Gone(p)' PROVE Linked(q)'
    BY <1>0 DEF Linked, Gone
  <2>2. Linked(q) /\ Lists(q)
    BY DEF Once, AllLinked, AllList
  <2>3. p \in DOMAIN rows
    BY <1>3, <2>2 DEF Linked
  <2>4. p \notin Removed(r)
    BY <1>0, <1>3, <2>1 DEF Removed, Gone, Commit, Once, Matched, Sound, CaseTypes
  <2>5. p \in DOMAIN rows'
    BY <1>3, <2>3, <2>4, CommitOnRows
  <2>6. ASSUME p \notin Absorbing, NEW e \in sess[q].loaded.linked_entities
        PROVE  Aliases(p, e)' = 1
    <3>1. Aliases(p, e) = 1
      BY <1>3, <2>2, <2>6 DEF Linked
    <3>2. ~Adding(r, p, e)
      BY <1>3, <2>3, <2>6, <3>1, AddsTheFirst
    <3> QED
      BY <1>3, <2>4, <3>1, <3>2, CommitOnAliases DEF Once, Matched, Sound
  <2>7. ASSUME p \notin Absorbing, pc[q] \in {"refresh", "commit"}
        PROVE  /\ sess[q].add => Aliases(p, f)' = 0
               /\ ~sess[q].add => Aliases(p, f)' = 1
    <3>1. /\ sess[q].add => Aliases(p, f) = 0
          /\ ~sess[q].add => Aliases(p, f) = 1
      BY <1>3, <2>2, <2>7 DEF Linked
    <3>2. ~Adding(r, p, f)
      <4>1. SUFFICES ASSUME Adding(r, p, f) PROVE FALSE
        OBVIOUS
      <4>2. Aliases(p, f) = 0 /\ op[r].kind = "link" /\ sess[r].cols # {}
        BY <1>3, <2>3, <2>7, <4>1, AddsTheFirst
      <4>3. sess[q].cols # {}
        BY <1>3, <2>2, <2>7, <4>2 DEF Lists, Linked
      <4>4. PastFlush(q) /\ PastFlush(r) /\ MustWrite(q) /\ MustWrite(r)
        BY <1>3, <2>7, <4>2, <4>3, CommitOnRows DEF PastFlush, MustWrite
      <4> QED
        BY <4>1, <4>4, WritersHaveOwnRows DEF Once, Matched, Adding
    <3> QED
      BY <1>3, <2>4, <3>1, <3>2, CommitOnAliases DEF Once, Matched, Sound
  <2>8. p \notin Absorbing' => p \notin Absorbing
    BY AnswersStay DEF Once, Matched
  <2> QED
    BY <1>0, <2>5, <2>6, <2>7, <2>8 DEF Linked, Aliases
<1> QED
  BY <1>1, <1>2, <1>3

LEMMA MoverLinked ==
  ASSUME Once, NEW r \in Requests, Moves(r)
  PROVE  Linked(r)'
<1>0. op' = op /\ Linked(r) /\ Keeps(r)
  BY OneMoves DEF Once, Matched, Sound, SessionsKept, AllLinked
<1>a. Gone(op[r].id) => Gone(op[r].id)'
  BY <1>0, AnswersStay DEF Once, Matched, Gone
<1>b. op[r].id \notin Absorbing' => op[r].id \notin Absorbing
  BY AnswersStay DEF Once, Matched
<1> USE DEF Goto, Once, Matched, Sound, CaseTypes, NoSession
<1>1. CASE Missing(r) \/ Commit(r) \/ Abort(r)
  <2>1. pc'[r] = "done"
    BY <1>1 DEF Missing, Commit, Abort
  <2> QED
    BY <2>1 DEF Linked
<1>2. CASE Load(r)
  <2>1. /\ pc'[r] \notin {"refresh", "commit"} /\ rows' = rows /\ aliases' = aliases
        /\ sess'[r].loaded = rows[op[r].id] /\ op[r].id \in DOMAIN rows
    BY <1>2 DEF Load, RowNeeded
  <2>2. ASSUME op[r].kind = "link", op[r].id \notin Absorbing
        PROVE  \A e \in rows[op[r].id].linked_entities : Aliases(op[r].id, e) = 1
    <3>1. op[r].id \in Profiles(rows)
      BY <2>1, <2>2, KindsKnown DEF TablesMatch, ProfileOps
    <3> QED
      BY <2>2, <3>1 DEF AllOnce, OncePer
  <2> QED
    BY <1>0, <1>b, <2>1, <2>2 DEF Linked, Aliases
<1>3. CASE Prepare(r) \/ LoadOther(r) \/ Collect(r) \/ LockOther(r) \/ DeleteOther(r)
  <2>1. op[r].kind # "link"
    BY <1>0, <1>3 DEF Prepare, Creates, LoadOther, Collect, LockOther, DeleteOther, Keeps
  <2> QED
    BY <1>0, <2>1 DEF Linked
<1>4. CASE Flush(r)
  <2>1. /\ op[r].kind = "link" => AfterFlush(r) = "alias"
        /\ pc[r] = "flush" /\ pc'[r] = AfterFlush(r)
        /\ sess'[r].loaded = sess[r].loaded /\ rows' = rows /\ aliases' = aliases
    BY <1>4 DEF Flush, AfterFlush, AlertOps
  <2> QED
    BY <1>0, <1>a, <1>b, <2>1 DEF Linked, Aliases
<1>5. CASE SelectAlias(r)
  <2>1. /\ pc[r] = "alias" /\ pc'[r] = "refresh"
        /\ sess'[r].loaded = sess[r].loaded /\ rows' = rows /\ aliases' = aliases
    BY <1>5 DEF SelectAlias
  <2>2. ASSUME op[r].kind = "link"
        PROVE  /\ sess'[r].add => Aliases(op[r].id, op[r].entity) # 1
               /\ ~sess'[r].add => Aliases(op[r].id, op[r].entity) = 1
    <3>1. sess' = [sess EXCEPT ![r].add = Aliases(op[r].id, op[r].entity) # 1]
      BY <1>5, <2>2 DEF SelectAlias, Creates
    <3> QED
      BY <3>1
  <2>3. ASSUME op[r].kind = "link", op[r].id \in DOMAIN rows, op[r].id \notin Absorbing
        PROVE  Aliases(op[r].id, op[r].entity) \in {0, 1}
    <3>1. op[r].id \in Profiles(rows)
      BY <2>3, KindsKnown DEF TablesMatch, ProfileOps
    <3> QED
      BY <2>3, <3>1 DEF AllOnce, OncePer
  <2> QED
    BY <1>0, <1>a, <1>b, <2>1, <2>2, <2>3 DEF Linked, Aliases
<1>6. CASE Refresh(r)
  <2>1. /\ pc[r] = "refresh" /\ pc'[r] = "commit" /\ sess'[r].add = sess[r].add
        /\ sess'[r].loaded = sess[r].loaded /\ rows' = rows /\ aliases' = aliases
    BY <1>6 DEF Refresh
  <2> QED
    BY <1>0, <1>a, <1>b, <2>1 DEF Linked, Aliases
<1> QED
  BY <1>1, <1>2, <1>3, <1>4, <1>5, <1>6 DEF Moves, Handler

LEMMA OncePerProfile ==
  ASSUME Once, NEW r \in Requests, Commit(r), NEW p \in Profiles(rows'), p \notin Absorbing',
         NEW e
  PROVE  /\ Aliases(p, e)' \in {0, 1}
         /\ e \in rows'[p].linked_entities => Aliases(p, e)' = 1
<1>0. Moves(r) /\ pc[r] = "commit" /\ p \in DOMAIN rows' /\ p \notin Removed(r)
  BY CommitOnRows DEF Moves, Commit, Profiles
<1>1. CASE p \in DOMAIN rows
  <2>1. p \notin Absorbing
    BY <1>0, AnswersStay DEF Once, Matched
  <2>2. p \in Profiles(rows)
    BY <1>0, <1>1, RowsKeepShape DEF Once, Matched, Profiles
  <2>3. Aliases(p, e) \in {0, 1} /\ (e \in rows[p].linked_entities => Aliases(p, e) = 1)
    BY <2>1, <2>2 DEF Once, AllOnce, OncePer
  <2>4. Aliases(p, e)' \in {0, 1} /\ (Aliases(p, e) = 1 => Aliases(p, e)' = 1)
        /\ (Adding(r, p, e) => Aliases(p, e)' = 1)
    <3>1. Adding(r, p, e) => Aliases(p, e) = 0
      BY <1>1, <2>1, AddsTheFirst
    <3> QED
      BY <1>0, <2>3, <3>1, CommitOnAliases DEF Once, Matched, Sound
  <2>5. p \notin Added(r)
    BY <1>0, <1>1 DEF Once, Matched, RowsOwned, Owns, PastFlush, Added
  <2>6. CASE p # op[r].id
    BY <1>0, <2>3, <2>4, <2>5, <2>6, CommitOnRows
  <2>7. CASE p = op[r].id
    <3>1. op[r].kind \in ProfileOps
      BY <2>2, <2>7 DEF Once, Matched, TablesMatch
    <3>2. op[r].kind # "merge"
      <4>1. SUFFICES ASSUME op[r].kind = "merge" PROVE p \in Absorbing'
        BY <1>0
      <4>2. op' = op /\ answer'[r] = "ok"
        BY DEF Commit, Once, Matched, Sound, CaseTypes
      <4> QED
        BY <2>7, <4>1, <4>2 DEF Absorbing
    <3>3. op[r].kind = "link"
      BY <2>5, <2>7, <3>1, <3>2 DEF ProfileOps, Added, Creates
    <3>4. ~Gone(p)
      BY <1>1 DEF Once, GoneForGood
    <3>5. /\ \A x \in sess[r].loaded.linked_entities : Aliases(p, x) = 1
          /\ ~sess[r].add => Aliases(p, op[r].entity) = 1
          /\ sess[r].now.linked_entities
               = sess[r].loaded.linked_entities \cup {op[r].entity}
      BY <1>0, <2>1, <2>7, <3>3, <3>4 DEF Once, AllLinked, Linked, AllList, Lists
    <3>6. ASSUME e \in sess[r].now.linked_entities PROVE Aliases(p, e)' = 1
      <4>1. CASE e \in sess[r].loaded.linked_entities
        BY <2>4, <3>5, <4>1
      <4>2. CASE e = op[r].entity /\ ~sess[r].add
        BY <2>4, <3>5, <4>2
      <4>3. CASE e = op[r].entity /\ sess[r].add
        BY <2>4, <2>7, <4>3 DEF Adding
      <4> QED
        BY <3>5, <3>6, <4>1, <4>2, <4>3
    <3>7. rows'[p].linked_entities \in {sess[r].now.linked_entities, rows[p].linked_entities}
      <4>1. rows'[p] = Written(rows[p], sess[r].now, sess[r].cols)
        BY <1>0, <2>5, <2>7, CommitOnRows
      <4>2. "linked_entities" \in DOMAIN rows[p]
        BY <2>2 DEF Profiles
      <4> QED
        BY <4>1, <4>2 DEF Written
    <3> QED
      BY <2>3, <2>4, <3>6, <3>7
  <2> QED
    BY <2>6, <2>7
<1>2. CASE p \notin DOMAIN rows
  <2>1. Creates(r) /\ p = op[r].id /\ rows'[p] = NewRow(op[r])
    BY <1>0, <1>2, RowsKeepShape DEF Once, Matched
  <2>2. op[r].kind = "profile" /\ rows'[p].linked_entities = {op[r].entity}
    BY <2>1, KindsKnown DEF Once, Matched, Creates, NewRow, Profiles
  <2>3. sess[r].add
    BY <1>0, <2>2 DEF Once, AllList, Lists
  <2>4. Aliases(p, e) = 0
    BY <1>2 DEF Once, Matched, TablesMatch, Profiles, Aliases
  <2>5. Adding(r, p, e) <=> e = op[r].entity
    BY <2>1, <2>3 DEF Adding
  <2> QED
    BY <1>0, <2>2, <2>4, <2>5, CommitOnAliases DEF Once, Matched, Sound
<1> QED
  BY <1>1, <1>2

LEMMA AllOnceStep ==
  ASSUME Once, NEW r \in Requests, Moves(r)
  PROVE  AllOnce'
<1>1. CASE Commit(r)
  BY <1>1, OncePerProfile DEF AllOnce, OncePer, Profiles
<1>2. CASE ~Commit(r)
  <2>1. rows' = rows /\ aliases' = aliases
    BY <1>2, RowsChangeInCommits
  <2>2. Absorbing \subseteq Absorbing'
    BY AnswersStay DEF Once, Matched
  <2> QED
    BY <2>1, <2>2 DEF Once, AllOnce, OncePer, Aliases, Profiles
<1> QED
  BY <1>1, <1>2

LEMMA OnceStep == Once /\ [CaseNext]_vars => Once'
<1> SUFFICES ASSUME Once, [CaseNext]_vars PROVE Once'
  OBVIOUS
<1>0. Matched' /\ AllList'
  BY MatchedStep, AllListStep DEF Once
<1>1. ASSUME NEW r \in Requests, Moves(r) PROVE Once'
  <2>1. AliasesCount' /\ GoneForGood' /\ AllOnce'
    BY <1>1, AliasesCountStep, GoneStep, AllOnceStep DEF Once
  <2>2. AllLinked'
    BY <1>1, MoverLinked, OthersLinked DEF AllLinked
  <2> QED
    BY <1>0, <2>1, <2>2 DEF Once
<1>2. CASE Halts
  <2>1. \A q \in Requests : answer'[q] = "ok" <=> answer[q] = "ok"
    BY <1>2 DEF Halts, Once, Matched, Sound, CaseTypes
  <2>2. AllLinked'
    BY <1>2 DEF Halts, AllLinked, Linked
  <2>3. AliasesCount' /\ GoneForGood' /\ AllOnce'
    BY <1>2, <2>1 DEF Halts, Once, AliasesCount, GoneForGood, Gone, AllOnce, OncePer, Absorbing,
                      Profiles, Aliases
  <2> QED
    BY <1>0, <2>2, <2>3 DEF Once
<1>3. CASE UNCHANGED vars
  <2>1. AliasesCount' /\ GoneForGood' /\ AllOnce'
    BY <1>3 DEF vars, Once, AliasesCount, GoneForGood, Gone, AllOnce, OncePer, Absorbing,
                Profiles, Aliases
  <2>2. AllLinked'
    BY <1>3 DEF vars, Once, AllLinked, Linked, Gone, Absorbing, Aliases
  <2> QED
    BY <1>0, <2>1, <2>2 DEF Once
<1> QED
  BY <1>1, <1>2, <1>3 DEF CaseNext

LEMMA OnceInit == Init => Once
<1> SUFFICES ASSUME Init PROVE Once
  OBVIOUS
<1>1. rows = Stored /\ answer = [r \in Requests |-> "none"] /\ pc = [r \in Requests |-> "load"]
      /\ aliases = [l \in UNION {{p} \X Stored[p].linked_entities : p \in Profiles(Stored)} |-> 1]
  BY DEF Init
<1>2. AllList /\ AllLinked
  BY <1>1 DEF AllList, Lists, AllLinked, Linked
<1>3. AliasesCount
  BY <1>1 DEF AliasesCount
<1>4. GoneForGood
  BY <1>1 DEF GoneForGood, Gone
<1>5. AllOnce
  <2> SUFFICES ASSUME NEW p \in Profiles(Stored), NEW e
               PROVE  /\ Aliases(p, e) \in {0, 1}
                      /\ e \in Stored[p].linked_entities => Aliases(p, e) = 1
    BY <1>1 DEF AllOnce, OncePer
  <2>1. e \in Stored[p].linked_entities => <<p, e>> \in DOMAIN aliases
    BY <1>1
  <2>2. <<p, e>> \in DOMAIN aliases => aliases[<<p, e>>] = 1
    BY <1>1
  <2> QED
    BY <2>1, <2>2 DEF Aliases
<1> QED
  BY <1>2, <1>3, <1>4, <1>5, MatchedInit DEF Once

(***************************************************************************)
(* "idempotent: check for existing alias": whatever requests overlap, fail *)
(* and are repeated, in a profile that nothing was merged into every       *)
(* linked entity has one alias (link_entity_to_profile,                    *)
(* create_profile_from_entity).                                            *)
(***************************************************************************)
THEOREM LinksHaveOneAlias == AuditSpec => []OneAliasPerLink
<1>1. Once => OneAliasPerLink
  <2> SUFFICES ASSUME Once, NEW p \in Profiles(rows) \ Absorbing
               PROVE  /\ \A e \in rows[p].linked_entities : Aliases(p, e) = 1
                      /\ \A l \in AliasesOf(p) : aliases[l] = 1
    BY DEF OneAliasPerLink
  <2>1. OncePer(p)
    BY DEF Once, AllOnce
  <2>2. ASSUME NEW l \in AliasesOf(p) PROVE aliases[l] = 1
    <3>1. PICK e : l = <<p, e>>
      BY DEF AliasesOf, Once, Matched, Sound, AliasesArePairs
    <3>2. Aliases(p, e) = aliases[l] /\ aliases[l] # 0
      BY <3>1 DEF AliasesOf, Aliases, Once, AliasesCount
    <3> QED
      BY <2>1, <3>2 DEF OncePer
  <2> QED
    BY <2>1, <2>2 DEF OncePer
<1>2. Once /\ [AuditNext]_allVars => Once'
  BY CaseSteps, OnceStep
<1> QED
  BY <1>1, <1>2, OnceInit, PTL DEF AuditSpec, AuditInit

----------------------------------------------------------------------------
\* Request r is in its handler and needs no other request for its next step.
Unblocked(r) == stage[r] = "handler" /\ ~Begins(r) /\ ~Waits(r)

LEMMA UnblockedGoesOn ==
  ASSUME NEW r \in Requests, Unblocked(r)
  PROVE  CanGoOn(r)
BY DEF Unblocked, CanGoOn

LEMMA PastFlushBegun ==
  ASSUME NEW r \in Requests, PastFlush(r)
  PROVE  ~Begins(r) /\ pc[r] # "flush"
BY DEF PastFlush, Begins

(***************************************************************************)
(* Who is in the last part of a transaction waits for those only that are  *)
(* further: a commit for nobody, a new alias for a deletion, a deletion    *)
(* for an alias, unless that is moved by a merge that waits as well.       *)
(***************************************************************************)
LEMMA EndsComeFree ==
  ASSUME Sound, ~MergesCross, \A q \in Requests : PastFlush(q) => stage[q] = "handler",
         NEW r \in Requests, pc[r] \in {"alias", "delete", "refresh", "commit"}
  PROVE  \E q \in Requests : Unblocked(q)
<1>0. \A q \in Requests : PastFlush(q) => stage[q] = "handler" /\ ~Begins(q)
  BY PastFlushBegun
<1>1. \A q \in Requests : pc[q] \in {"alias", "commit"} => Unblocked(q)
  BY <1>0 DEF PastFlush, Unblocked, Waits
<1>2. \A q \in Requests : op[q].kind = "merge" /\ pc[q] \in {"refresh", "commit"} => Unblocked(q)
  BY <1>0 DEF PastFlush, Unblocked, Waits, Sound, SessionsKept, Writes
<1>3. CASE pc[r] = "refresh"
  <2>1. CASE sess[r].add /\ Deleting(op[r].id)
    BY <1>2, <2>1 DEF Deleting
  <2>2. CASE ~(sess[r].add /\ Deleting(op[r].id))
    BY <1>0, <1>3, <2>2 DEF PastFlush, Unblocked, Waits
  <2> QED
    BY <2>1, <2>2
<1>4. CASE pc[r] = "delete"
  <2>1. CASE Referenced(op[r].other)
    <3>1. PICK q \in Requests :
                 /\ op[q].id = op[r].other
                 /\ \/ pc[q] = "commit"
                    \/ sess[q].drop # {} /\ pc[q] \in {"lock", "delete", "refresh", "commit"}
      BY <2>1 DEF Referenced
    <3>2. pc[q] \notin {"lock", "delete"}
      BY <1>4, <3>1 DEF MergesCross
    <3>3. sess[q].drop # {} => op[q].kind = "merge"
      BY DEF Sound, SessionsKept, Locks
    <3> QED
      BY <1>1, <1>2, <3>1, <3>2, <3>3
  <2>2. CASE ~Referenced(op[r].other)
    BY <1>0, <1>4, <2>2 DEF PastFlush, Unblocked, Waits
  <2> QED
    BY <2>1, <2>2
<1> QED
  BY <1>1, <1>3, <1>4

(***************************************************************************)
(* A merge waits for the other profile's row, which an edit of it has, or  *)
(* a merge that deletes it too: the one that comes free, unless it is a    *)
(* merge into that profile that waits like this one.                       *)
(***************************************************************************)
LEMMA LocksComeFree ==
  ASSUME Sound, ~MergesCross, \A q \in Requests : PastFlush(q) => stage[q] = "handler",
         NEW r \in Requests, PastFlush(r)
  PROVE  \E q \in Requests : Unblocked(q)
<1>1. CASE pc[r] # "lock"
  BY <1>1, EndsComeFree DEF PastFlush
<1>2. CASE pc[r] = "lock" /\ Free(r, {<<op[r].other>>})
  BY <1>2 DEF PastFlush, Unblocked, Begins, Waits
<1>3. CASE pc[r] = "lock" /\ ~Free(r, {<<op[r].other>>})
  <2>1. PICK q \in Requests \ {r} : <<op[r].other>> \in sess[q].held
    BY <1>3 DEF Free
  <2>2. PastFlush(q) /\ Locks(q)
    BY <2>1 DEF Sound, SessionsKept, Locks
  <2>3. CASE pc[q] # "lock"
    BY <2>2, <2>3, EndsComeFree DEF PastFlush
  <2>4. CASE pc[q] = "lock"
    <3>1. <<op[r].other>> \in Targets(q)
      BY <2>1, <2>2, <2>4 DEF Locks
    <3>2. <<op[r].other>> \notin sess[q].drop
      <4>1. ASSUME NEW p, NEW e, <<op[r].other>> = <<p, e>> PROVE FALSE
        BY <4>1
      <4> QED
        BY <2>2, <4>1 DEF Locks
    <3>3. op[q].id = op[r].other
      BY <3>1, <3>2 DEF Targets
    <3> QED
      BY <1>3, <2>4, <3>3 DEF MergesCross
  <2> QED
    BY <2>3, <2>4
<1> QED
  BY <1>1, <1>2, <1>3

(***************************************************************************)
(* Who has a connection is in its handler, and so one of those can go on.  *)
(***************************************************************************)
LEMMA ConnectedComeFree ==
  ASSUME Sound, ~MergesCross, \A q \in Requests : Connected(q) => stage[q] = "handler",
         NEW r \in Requests, Connected(r)
  PROVE  \E q \in Requests : Unblocked(q)
<1>1. \A q \in Requests : PastFlush(q) => stage[q] = "handler"
  BY PastFlushBegun DEF PastFlush, Connected
<1>2. CASE PastFlush(r)
  BY <1>1, <1>2, LocksComeFree
<1>3. CASE pc[r] \in {"other", "collect"}
  BY <1>3 DEF Connected, Unblocked, Waits
<1>4. CASE pc[r] = "flush" /\ Free(r, Targets(r))
  <2>1. CASE Deleting(op[r].id)
    BY <1>1, <2>1, LocksComeFree DEF Deleting, PastFlush
  <2>2. CASE ~Deleting(op[r].id)
    BY <1>4, <2>2 DEF Connected, Unblocked, Waits
  <2> QED
    BY <2>1, <2>2
<1>5. CASE pc[r] = "flush" /\ ~Free(r, Targets(r))
  <2>1. PICK q \in Requests \ {r} : sess[q].held # {}
    BY <1>5 DEF Free
  <2>2. PastFlush(q)
    BY <2>1 DEF Sound, SessionsKept, Locks
  <2> QED
    BY <1>1, <2>2, LocksComeFree
<1> QED
  BY <1>2, <1>3, <1>4, <1>5 DEF Connected, PastFlush, Sound, CaseTypes, Places

(***************************************************************************)
(* The pool is taken by nobody unless somebody has a connection.           *)
(***************************************************************************)
LEMMA PoolIsTaken ==
  ASSUME \A q \in Requests : ~Connected(q) /\ stage[q] # "insert"
  PROVE  Connections < Pool
<1>1. {q \in Requests : Connected(q)} = {} /\ {q \in Requests : stage[q] = "insert"} = {}
  OBVIOUS
<1> QED
  BY <1>1, FS_EmptySet, PoolAssumption DEF Connections

(***************************************************************************)
(* When get_db commits before the response is made, requests do not come   *)
(* to wait for each other, whatever they ask for and however small the     *)
(* pool is, except for merges that cross.                                  *)
(***************************************************************************)
THEOREM SomeoneAlwaysGoesOn == AuditSpec => []SomeoneGoesOn
<1>1. Typed /\ InOrder /\ AllInPlace /\ Sound => SomeoneGoesOn
  <2> SUFFICES ASSUME Typed, InOrder, AllInPlace, Sound, ~answerFirst, ~MergesCross,
                      NEW r \in Requests, stage[r] # "done"
               PROVE  \E q \in Requests : CanGoOn(q)
    BY DEF SomeoneGoesOn
  <2>1. \A q \in Requests : Connected(q) => stage[q] = "handler"
    BY DEF Typed, InOrder, Ordered, AllInPlace, Served, Connected
  <2>2. CASE \E q \in Requests : Connected(q)
    BY <2>1, <2>2, ConnectedComeFree, UnblockedGoesOn
  <2>3. CASE \E q \in Requests : stage[q] = "insert"
    BY <2>3 DEF CanGoOn
  <2>4. CASE \A q \in Requests : ~Connected(q) /\ stage[q] # "insert"
    <3>1. Connections < Pool
      BY <2>4, PoolIsTaken
    <3>2. CASE stage[r] = "handler"
      <4>1. pc[r] # "done"
        BY <3>2 DEF InOrder, Ordered, Sound, SessionsKept, Keeps
      <4>2. Begins(r) \/ pc[r] = "load"
        BY <2>4, <4>1 DEF Connected
      <4>3. ~Begins(r) => ~Waits(r)
        BY <4>2 DEF Waits
      <4> QED
        BY <3>1, <3>2, <4>3 DEF CanGoOn
    <3>3. CASE stage[r] # "handler"
      BY <3>1, <3>3 DEF CanGoOn
    <3> QED
      BY <3>2, <3>3
  <2> QED
    BY <2>2, <2>3, <2>4
<1>2. AuditInit => Typed /\ InOrder /\ AllInPlace
  BY InOrderInit DEF AuditInit, Init, AllInPlace, Served
<1>3. Typed /\ InOrder /\ AllInPlace /\ [AuditNext]_allVars
        => (Typed /\ InOrder /\ AllInPlace)'
  BY TypedStep, InOrderStep, ServedStep
<1> QED
  BY <1>1, <1>2, <1>3, SoundAlways, PTL DEF AuditSpec
=============================================================================
