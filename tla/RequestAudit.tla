---------------------------- MODULE RequestAudit ----------------------------
(***************************************************************************)
(* A request from its arrival to its answer: the middleware of app/main.py *)
(* checks the API key, calls the handler (CaseRecords) and writes a record *)
(* of the call to audit_logs, in a transaction and on a connection of its  *)
(* own, before it returns the answer.  get_db, the handler's dependency,   *)
(* commits the handler's transaction and gives its connection back.        *)
(*                                                                         *)
(* When that happens is up to FastAPI, whose version requirements.txt      *)
(* leaves open: from 0.106 to 0.117 before the response is made, in other  *)
(* versions after it is sent; and Starlette's middleware holds the body    *)
(* back until call_next's caller, which writes the record, has returned.   *)
(***************************************************************************)
EXTENDS CaseRecords

CONSTANTS
  Orders,      \* the orders FastAPI may have: TRUE if the answer goes before the commit
  Pool,        \* connections to the database there can be at a time
  ApiKey,      \* settings.AUTH_API_KEY, NULL when it is blank
  MaxFaults    \* bound on records that fail and on crashes

VARIABLES
  answerFirst, \* the order this installation has
  stage,       \* stage[r]: where the middleware is with request r
  status,      \* status[r]: the response it has for it
  log,         \* log[r]: the record of r in audit_logs
  told,        \* the requests that were answered
  lost,        \* the requests whose record a fault took
  faults       \* how many faults there were

middleware == <<answerFirst, stage, status, log, told, lost, faults>>

allVars == <<vars, middleware>>

ASSUME PoolAssumption == Pool \in Nat \ {0} /\ IsFiniteSet(Requests)

AuditInit ==
  /\ Init
  /\ answerFirst \in Orders
  /\ stage = [r \in Requests |-> "arrive"]
  /\ status = [r \in Requests |-> "none"]
  /\ log = [r \in Requests |-> "none"]
  /\ told = {}
  /\ lost = {}
  /\ faults = 0

MoveTo(r, s) == stage' = [stage EXCEPT ![r] = s]

----------------------------------------------------------------------------
\* validate_api_key: without a configured key everybody may call.
Admitted(o) == ApiKey = NULL \/ o.key = ApiKey

\* The next statement of the handler is the first of its session, which takes a
\* connection from the pool (create_entity looks for nothing before its INSERT).
Begins(r) ==
  pc[r] = IF op[r].kind = "create" THEN "flush" ELSE "load"

\* The handler's session has a connection: from its first statement until get_db
\* commits, rolls back and closes.
MutConnected(r) == ~Begins(r) /\ pc[r] # "load" /\ stage[r] # "done"
Connected(r) == ~Begins(r) /\ pc[r] \notin {"load", "done"}

Connections ==
  Cardinality({r \in Requests : Connected(r)})
    + Cardinality({r \in Requests : stage[r] = "insert"})

\* What a request does next needs no other one to end first.
CanGoOn(r) ==
  CASE stage[r] = "handler" -> IF Begins(r) THEN Connections < Pool ELSE ~Waits(r)
    [] stage[r] = "audit" -> Connections < Pool
    [] OTHER -> stage[r] # "done"

----------------------------------------------------------------------------
Admit(r) ==
  /\ stage[r] = "arrive"
  /\ Admitted(op[r])
  /\ MoveTo(r, "handler")
  /\ UNCHANGED <<vars, answerFirst, status, log, told, lost, faults>>

\* 401; the record is written under the action "auth_failed".
MutRefuse(r) ==
  /\ stage[r] = "arrive"
  /\ ~Admitted(op[r])
  /\ status' = [status EXCEPT ![r] = "refused"]
  /\ MoveTo(r, "answer")
  /\ UNCHANGED <<vars, answerFirst, log, told, lost, faults>>
Refuse(r) ==
  /\ stage[r] = "arrive"
  /\ ~Admitted(op[r])
  /\ status' = [status EXCEPT ![r] = "refused"]
  /\ MoveTo(r, "audit")
  /\ UNCHANGED <<vars, answerFirst, log, told, lost, faults>>

\* A step of the handler, or of get_db before the response is made.  A transaction
\* that fails is an exception: it passes through the middleware, which writes a
\* record of status 500 and raises it again.
Handle(r) ==
  /\ stage[r] = "handler"
  /\ \/ Handler(r) /\ (Begins(r) => Connections < Pool)
     \/ Commit(r) /\ ~answerFirst
     \/ Abort(r)
  /\ status' = [status EXCEPT ![r] = answer'[r]]
  /\ MoveTo(r, IF pc'[r] = "done" THEN "audit" ELSE "handler")
  /\ UNCHANGED <<answerFirst, log, told, lost, faults>>

\* The response is made and get_db has not committed yet.
Respond(r) ==
  /\ answerFirst
  /\ stage[r] = "handler"
  /\ pc[r] = "commit"
  /\ status' = [status EXCEPT ![r] = "ok"]
  /\ MoveTo(r, "audit")
  /\ UNCHANGED <<vars, answerFirst, log, told, lost, faults>>

\* record_audit_event in AsyncSessionLocal.begin().
MutTakeConnection(r) ==
  /\ stage[r] = "audit"
  /\ MoveTo(r, "insert")
  /\ UNCHANGED <<vars, answerFirst, status, log, told, lost, faults>>
TakeConnection(r) ==
  /\ stage[r] = "audit"
  /\ Connections < Pool
  /\ MoveTo(r, "insert")
  /\ UNCHANGED <<vars, answerFirst, status, log, told, lost, faults>>

MutRecord(r) ==
  /\ stage[r] = "insert"
  /\ log' = [log EXCEPT ![r] = IF status[r] # "refused" THEN "success" ELSE "failure"]
  /\ MoveTo(r, "answer")
  /\ UNCHANGED <<vars, answerFirst, status, told, lost, faults>>
Record(r) ==
  /\ stage[r] = "insert"
  /\ log' = [log EXCEPT ![r] = IF status[r] = "ok" THEN "success" ELSE "failure"]
  /\ MoveTo(r, "answer")
  /\ UNCHANGED <<vars, answerFirst, status, told, lost, faults>>

\* "except Exception: pass": the database refuses the record.
LoseRecord(r) ==
  /\ faults < MaxFaults
  /\ stage[r] = "insert"
  /\ faults' = faults + 1
  /\ lost' = lost \cup {r}
  /\ MoveTo(r, "answer")
  /\ UNCHANGED <<vars, answerFirst, status, log, told>>

\* The pool gives up after its timeout, which passes only when nobody who has a
\* connection can go on, and when one of them waits for the pool (of sessions that wait
\* for each other's rows only, the database ends one long before); that exception is
\* swallowed as well.
PoolTimeout(r) ==
  /\ stage[r] = "audit"
  /\ Connections >= Pool
  /\ \A q \in Requests : Connected(q) \/ stage[q] = "insert" => ~CanGoOn(q)
  /\ \E q \in Requests : Connected(q) /\ stage[q] = "audit"
  /\ MoveTo(r, "answer")
  /\ UNCHANGED <<vars, answerFirst, status, log, told, lost, faults>>

\* The response goes to the client.
Answer(r) ==
  /\ stage[r] = "answer"
  /\ told' = told \cup {r}
  /\ MoveTo(r, IF pc[r] = "commit" THEN "exit" ELSE "done")
  /\ UNCHANGED <<vars, answerFirst, status, log, lost, faults>>

\* get_db goes on after the response is sent.
Exit(r) ==
  /\ stage[r] = "exit"
  /\ Commit(r) \/ Abort(r)
  /\ MoveTo(r, "done")
  /\ UNCHANGED <<answerFirst, status, log, told, lost, faults>>

\* The process is killed: its transactions are rolled back, its clients get nothing.
Crash ==
  LET open == {r \in Requests : stage[r] # "done"} IN
  /\ faults < MaxFaults
  /\ open # {}
  /\ faults' = faults + 1
  /\ stage' = [r \in Requests |-> "done"]
  /\ pc' = [r \in Requests |-> "done"]
  /\ sess' = [r \in Requests |-> NoSession]
  /\ answer' = [r \in Requests |->
                 IF answer[r] = "none" THEN "error" ELSE answer[r]]
  /\ lost' = lost \cup {r \in open : log[r] = "none"}
  /\ UNCHANGED <<op, rows, aliases, answerFirst, status, log, told>>

Serve(r) ==
  \/ Admit(r) \/ Refuse(r) \/ Handle(r) \/ Respond(r) \/ TakeConnection(r) \/ Record(r)
  \/ LoseRecord(r) \/ PoolTimeout(r) \/ Answer(r) \/ Exit(r)

AllServed == (\A r \in Requests : stage[r] = "done") /\ UNCHANGED allVars

AuditNext == (\E r \in Requests : Serve(r)) \/ Crash \/ AllServed

AuditSpec == AuditInit /\ [][AuditNext]_allVars

----------------------------------------------------------------------------
(***************************************************************************)
(* Types; the pool is never exceeded, and a session's connection goes back *)
(* with the end of its transaction.                                        *)
(***************************************************************************)
AuditTypeOK ==
  /\ stage \in [Requests -> {"arrive", "handler", "audit", "insert", "answer", "exit", "done"}]
  /\ status \in [Requests -> {"none", "refused", "ok", "missing", "error"}]
  /\ log \in [Requests -> {"none", "success", "failure"}]
  /\ told \subseteq Requests
  /\ lost \subseteq Requests
  /\ Connections <= Pool

(***************************************************************************)
(* The record in audit_logs and the status the client was told say what    *)
(* became of the request: a success is committed and stays so, a failure   *)
(* changed nothing.  When the answer goes before the commit, a success may *)
(* still be a commit to come or one that failed.                           *)
(***************************************************************************)
RecordsAreTrue ==
  \A r \in Requests :
    /\ log[r] = "failure" \/ (r \in told /\ status[r] # "ok") => answer[r] # "ok"
    /\ log[r] = "success" \/ (r \in told /\ status[r] = "ok") =>
         answer[r] = "ok" \/ (answerFirst /\ answer[r] \in {"none", "error"})

(***************************************************************************)
(* "Audit records are written to `audit_logs` for authenticated API        *)
(* traffic." (README.md): who was answered, or has changed a row, is on    *)
(* record, unless a fault took the record.                                 *)
(***************************************************************************)
TrafficIsAudited ==
  \A r \in Requests \ lost :
    r \in told \/ (answer[r] = "ok" /\ stage[r] = "done") => log[r] # "none"

(***************************************************************************)
(* The same when get_db commits before the response is made, with any      *)
(* number of connections.                                                  *)
(***************************************************************************)
CommitsAreAudited == ~answerFirst => TrafficIsAudited

(***************************************************************************)
(* When get_db commits before the response is made, requests never come to *)
(* wait for each other's rows and connections all at once: as long as one  *)
(* is open, one of them can go on without any other, so neither the pool's *)
(* nor the database's deadlock timeout is ever needed; except where a      *)
(* merge waits for the profile that another merge, which waits too, merges *)
(* into: merges in opposite directions do wait for each other.             *)
(***************************************************************************)
MergesCross ==
  \E q, r \in Requests :
    {pc[q], pc[r]} \subseteq {"lock", "delete"} /\ op[q].other = op[r].id

SomeoneGoesOn ==
  ~answerFirst /\ ~MergesCross /\ (\E r \in Requests : stage[r] # "done") =>
    \E r \in Requests : CanGoOn(r)
=============================================================================
