------------------------ MODULE ModelRegistryProofs ------------------------
(***************************************************************************)
(* Any number of calls on any number of versions: the row locks of         *)
(* promote_model's bulk UPDATE leave one version active, and a retrained   *)
(* version has its artifact.                                               *)
(***************************************************************************)
EXTENDS ModelRegistry, TLAPS

\* Neither active nor called so.
Quiet(row) == ~row.is_active /\ row.status # "active"

\* The columns no call changes.
SameModel(a, b) == a.version = b.version /\ a.artifact = b.artifact

Inserts(c) ==
  /\ req[c].op # "promote"
  /\ sess[c].row = NULL
  /\ sess[c].now \in Rows
  /\ Quiet(sess[c].now)

Updates(c) ==
  /\ sess[c].row \in Rows
  /\ sess[c].now \in Rows
  /\ SameModel(sess[c].row, sess[c].now)
  /\ sess[c].id \in Registered
  /\ sess[c].held \subseteq Registered

Promotes(c) ==
  /\ req[c].op = "promote"
  /\ Updates(c)
  /\ sess[c].id \in sess[c].held
  /\ Quiet(sess[c].row)
  /\ sess[c].now.is_active
  /\ sess[c].now.status = "active"

RollsBack(c) ==
  /\ req[c].op = "rollback"
  /\ Updates(c)
  /\ Quiet(sess[c].now)

\* What a session holds at each statement of its call.
Prepared(c) ==
  /\ pc[c] \in {"evaluate", "register"} => req[c].op = "retrain"
  /\ pc[c] \in {"start", "evaluate", "register"} => sess[c].row = NULL
  /\ pc[c] \in {"promote", "rollback"} => req[c].op = pc[c] /\ Updates(c)
  /\ pc[c] = "commit" => Inserts(c) \/ Promotes(c) \/ RollsBack(c)

AllPrepared == \A c \in Calls : Prepared(c)

LEMMA StartsTyped == Init => TypeOK /\ AllPrepared
BY DEF Init, TypeOK, AllPrepared, Prepared, Blank, Versions

Sessions == [id: Ids \cup {NULL}, row: Rows \cup {NULL}, now: Rows \cup {NULL},
             held: SUBSET Ids, read: Calls \cup {NULL}]

\* One session moves to another statement.
LEMMA SessionMoves ==
  ASSUME TypeOK, NEW c \in Calls, NEW s \in Sessions, sess' = [sess EXCEPT ![c] = s],
         NEW p \in {"evaluate", "register", "promote", "rollback", "commit"},
         Goto(c, p), p # "commit" => s.held = {}
  PROVE  TypeOK'
BY DEF Goto, TypeOK, Sessions

LEMMA RequestsHaveVersions ==
  ASSUME TypeOK, NEW c \in Calls
  PROVE  req[c].version \in Versions
BY DEF TypeOK, Versions

(***************************************************************************)
(* What a commit makes of a row: an INSERT a quiet one, a promotion a      *)
(* quiet one of every row but its own, and a rollback makes none active.   *)
(***************************************************************************)
LEMMA RowAfterCall ==
  ASSUME TypeOK, NEW c \in Calls, Prepared(c), pc[c] = "commit", NEW i \in sess[c].held
  PROVE  /\ AfterCall(c, i) \in Rows
         /\ Inserts(c) => AfterCall(c, i) = sess[c].now
         /\ ~Inserts(c) => rows[i] \in Rows /\ SameModel(AfterCall(c, i), rows[i])
         /\ Promotes(c) /\ i # sess[c].id => Quiet(AfterCall(c, i))
         /\ RollsBack(c) =>
              /\ AfterCall(c, i).is_active => rows[i].is_active
              /\ AfterCall(c, i).status = "active" => rows[i].status = "active"
<1>1. CASE Inserts(c)
  BY <1>1, RegistryAssumption DEF Inserts, AfterCall, Promotes, RollsBack, Updates
<1>2. CASE Promotes(c)
  <2>1. sess[c].row # NULL /\ sess[c].row \in Rows /\ sess[c].now \in Rows
        /\ SameModel(sess[c].row, sess[c].now)
    BY <1>2, RegistryAssumption DEF Promotes, Updates
  <2>2. rows[i] \in Rows
    BY <1>2 DEF Promotes, Updates, Registered, TypeOK
  <2> DEFINE base == [rows[i] EXCEPT !.is_active = FALSE, !.status = "candidate"]
  <2>3. base \in Rows /\ Quiet(base) /\ SameModel(base, rows[i])
    BY <2>2 DEF Rows, Quiet, SameModel
  <2>4. AfterCall(c, i) = IF i = sess[c].id
                            THEN Flushed(base, sess[c].row, sess[c].now) ELSE base
    BY <1>2, <2>1 DEF AfterCall, Promotes
  <2>5. /\ Flushed(base, sess[c].row, sess[c].now) \in Rows
        /\ SameModel(Flushed(base, sess[c].row, sess[c].now), rows[i])
    BY <2>1, <2>3 DEF Flushed, Written, Dirty, Rows, SameModel
  <2>6. ~Inserts(c) /\ ~RollsBack(c)
    BY <1>2 DEF Promotes, Inserts, RollsBack
  <2> QED
    BY <2>2, <2>3, <2>4, <2>5, <2>6
<1>3. CASE RollsBack(c)
  <2>1. sess[c].row # NULL /\ sess[c].row \in Rows /\ sess[c].now \in Rows
        /\ SameModel(sess[c].row, sess[c].now) /\ Quiet(sess[c].now)
    BY <1>3, RegistryAssumption DEF RollsBack, Updates
  <2>2. rows[i] \in Rows
    BY <1>3 DEF RollsBack, Updates, Registered, TypeOK
  <2>3. AfterCall(c, i) = IF i = sess[c].id
                            THEN Flushed(rows[i], sess[c].row, sess[c].now) ELSE rows[i]
    BY <1>3, <2>1 DEF AfterCall, RollsBack
  <2> DEFINE f == Flushed(rows[i], sess[c].row, sess[c].now)
  <2>4. /\ f \in Rows
        /\ SameModel(f, rows[i])
        /\ f.is_active => rows[i].is_active
        /\ f.status = "active" => rows[i].status = "active"
    BY <2>1, <2>2 DEF Flushed, Written, Dirty, Rows, SameModel, Quiet
  <2>5. ~Inserts(c) /\ ~Promotes(c)
    BY <1>3, <2>1 DEF Promotes, Inserts, RollsBack
  <2> QED
    BY <2>2, <2>3, <2>4, <2>5 DEF SameModel
<1> QED
  BY <1>1, <1>2, <1>3 DEF Prepared

(***************************************************************************)
(* No version is ever deleted.                                             *)
(***************************************************************************)
LEMMA CommitKeepsVersions ==
  ASSUME TypeOK, AllPrepared, NEW c \in Calls, Commit(c)
  PROVE  /\ rows' \in [Ids -> Rows \cup {NULL}]
         /\ Registered \subseteq Registered'
         /\ \A i \in Ids :
              rows'[i] = IF i \in sess[c].held THEN AfterCall(c, i) ELSE rows[i]
<1>1. \A i \in sess[c].held : i \in Ids /\ AfterCall(c, i) \in Rows
  BY RowAfterCall DEF Commit, AllPrepared, TypeOK
<1> QED
  BY <1>1, RegistryAssumption DEF Commit, Registered, TypeOK

(***************************************************************************)
(* A step of a call leaves what is prepared in other sessions alone.       *)
(***************************************************************************)
LEMMA OthersStayPrepared ==
  ASSUME AllPrepared, NEW c \in Calls, Prepared(c)', UNCHANGED req,
         Registered \subseteq Registered',
         \A d \in Calls \ {c} : pc'[d] = pc[d] /\ sess'[d] = sess[d]
  PROVE  AllPrepared'
BY DEF AllPrepared, Prepared, Inserts, Promotes, RollsBack, Updates

LEMMA PreparedStep == TypeOK /\ AllPrepared /\ [Next]_vars => (TypeOK /\ AllPrepared)'
<1> SUFFICES ASSUME TypeOK, AllPrepared, [Next]_vars PROVE (TypeOK /\ AllPrepared)'
  OBVIOUS
<1>1. ASSUME NEW c \in Calls, Train(c) PROVE (TypeOK /\ AllPrepared)'
  <2>1. TypeOK'
    BY <1>1, RequestsHaveVersions DEF Train, TypeOK
  <2>2. Prepared(c)'
    BY <1>1 DEF Train, TypeOK, AllPrepared, Prepared
  <2> QED
    BY <1>1, <2>1, <2>2, OthersStayPrepared DEF Train, TypeOK, Registered
<1>2. ASSUME NEW c \in Calls, Evaluate(c) PROVE (TypeOK /\ AllPrepared)'
  <2>1. TypeOK'
    BY <1>2, RequestsHaveVersions DEF Evaluate, Goto, TypeOK
  <2>2. Prepared(c)'
    BY <1>2 DEF Evaluate, Goto, TypeOK, AllPrepared, Prepared
  <2> QED
    BY <1>2, <2>1, <2>2, OthersStayPrepared DEF Evaluate, Goto, TypeOK, Registered
<1>3. ASSUME NEW c \in Calls, NEW a \in {"ok", "local", "missing", "error"}, Answer(c, a),
             rows' \in [Ids -> Rows \cup {NULL}], Registered \subseteq Registered'
      PROVE  (TypeOK /\ AllPrepared)'
  <2>1. TypeOK'
    BY <1>3 DEF Answer, Blank, TypeOK
  <2>2. Prepared(c)'
    BY <1>3 DEF Answer, TypeOK, Prepared
  <2> QED
    BY <1>3, <2>1, <2>2, OthersStayPrepared DEF Answer, TypeOK
<1>4. ASSUME NEW c \in Calls, KeepLocal(c) \/ Abort(c) PROVE (TypeOK /\ AllPrepared)'
  BY <1>3, <1>4 DEF KeepLocal, Abort, TypeOK, Registered
<1>5. ASSUME NEW c \in Calls, Register(c) PROVE (TypeOK /\ AllPrepared)'
  <2>1. PICK i \in Ids :
          sess' = [sess EXCEPT ![c].id = i, ![c].held = {i}, ![c].now =
            [version |-> req[c].version, is_active |-> FALSE, reason |-> FALSE,
             status |-> "candidate", artifact |-> sess[c].read]]
    BY <1>5 DEF Register
  <2>2. sess'[c].now \in Rows /\ Quiet(sess'[c].now)
    BY <2>1, RequestsHaveVersions DEF Rows, Quiet, TypeOK
  <2>3. TypeOK'
    <3> DEFINE new == [version |-> req[c].version, is_active |-> FALSE, reason |-> FALSE,
                       status |-> "candidate", artifact |-> sess[c].read]
               s == [sess[c] EXCEPT !.id = i, !.held = {i}, !.now = new]
    <3>1. sess' = [sess EXCEPT ![c] = s] /\ sess'[c].now = new
      BY <2>1 DEF TypeOK
    <3>2. s \in Sessions
      <4>1. sess[c] \in Sessions
        BY DEF TypeOK, Sessions
      <4>2. new \in Rows
        BY <2>2, <3>1
      <4> QED
        BY <4>1, <4>2 DEF Sessions
    <3> QED
      BY <1>5, <3>1, <3>2, SessionMoves DEF Register
  <2>4. Prepared(c)'
    BY <1>5, <2>1, <2>2 DEF Register, Goto, TypeOK, AllPrepared, Prepared, Inserts
  <2> QED
    BY <1>5, <2>1, <2>3, <2>4, OthersStayPrepared DEF Register, Goto, TypeOK, Registered
<1>6. ASSUME NEW c \in Calls, Select(c) PROVE (TypeOK /\ AllPrepared)'
  <2>1. CASE (Answer(c, "missing") \/ Answer(c, "error")) /\ UNCHANGED rows
    BY <1>3, <2>1 DEF TypeOK, Registered
  <2>2. CASE \E i \in Matching(req[c].version) :
               /\ sess' = [sess EXCEPT ![c].id = i, ![c].row = rows[i], ![c].now = rows[i]]
               /\ Goto(c, req[c].op)
    <3>1. PICK i \in Registered :
               /\ sess' = [sess EXCEPT ![c].id = i, ![c].row = rows[i], ![c].now = rows[i]]
               /\ Goto(c, req[c].op)
      BY <2>2 DEF Matching
    <3>2. rows[i] \in Rows /\ i \in Ids
      BY DEF Registered, TypeOK
    <3>3. req[c].op \in {"promote", "rollback"} /\ sess[c].held = {}
      BY <1>6 DEF Select, TypeOK
    <3>4. TypeOK'
      <4> DEFINE s == [sess[c] EXCEPT !.id = i, !.row = rows[i], !.now = rows[i]]
      <4>1. sess' = [sess EXCEPT ![c] = s]
        BY <3>1 DEF TypeOK
      <4>2. s \in Sessions /\ s.held = {}
        <5>1. sess[c] \in Sessions
          BY DEF TypeOK, Sessions
        <5> QED
          BY <3>2, <3>3, <5>1 DEF Sessions
      <4> QED
        BY <3>1, <3>3, <4>1, <4>2, SessionMoves
    <3>5. Prepared(c)'
      BY <3>1, <3>2, <3>3 DEF Goto, TypeOK, Prepared, Updates, SameModel, Registered
    <3> QED
      BY <3>1, <3>4, <3>5, OthersStayPrepared DEF Goto, TypeOK, Registered
  <2> QED
    BY <1>6, <2>1, <2>2 DEF Select
<1>7. ASSUME NEW c \in Calls, Promote(c) \/ Rollback(c) PROVE (TypeOK /\ AllPrepared)'
  <2>1. sess[c].row \in Rows /\ sess[c].now \in Rows /\ SameModel(sess[c].row, sess[c].now)
        /\ sess[c].id \in Registered /\ req[c].op = pc[c]
    BY <1>7 DEF Promote, Rollback, AllPrepared, Prepared, Updates
  <2>2. PICK h \in SUBSET Registered, row \in Rows, now \in Rows :
          /\ sess' = [sess EXCEPT ![c] =
                       [sess[c] EXCEPT !.held = h, !.row = row, !.now = now]]
          /\ SameModel(row, now)
          /\ \/ /\ req[c].op = "promote" /\ sess[c].id \in h /\ Quiet(row)
                /\ now.is_active /\ now.status = "active"
             \/ req[c].op = "rollback" /\ Quiet(now)
    <3>1. CASE Promote(c)
      <4> DEFINE row == [sess[c].row EXCEPT !.is_active = FALSE, !.status = "candidate"]
                 now == [sess[c].now EXCEPT !.is_active = TRUE, !.status = "active",
                                            !.reason = FALSE]
      <4>1. row \in Rows /\ now \in Rows /\ SameModel(row, now) /\ Quiet(row)
            /\ now.is_active /\ now.status = "active"
        BY <2>1 DEF Rows, SameModel, Quiet
      <4>2. sess' = [sess EXCEPT ![c] =
                      [sess[c] EXCEPT !.held = Registered, !.row = row, !.now = now]]
        BY <3>1 DEF Promote, TypeOK
      <4> QED
        BY <2>1, <3>1, <4>1, <4>2 DEF Promote
    <3>2. CASE Rollback(c)
      <4> DEFINE now == [sess[c].now EXCEPT !.is_active = FALSE, !.status = "rolled_back",
                                            !.reason = TRUE]
      <4>1. now \in Rows /\ SameModel(sess[c].row, now) /\ Quiet(now)
        BY <2>1 DEF Rows, SameModel, Quiet
      <4>2. sess' = [sess EXCEPT ![c] =
                      [sess[c] EXCEPT !.held = {sess[c].id}, !.row = sess[c].row, !.now = now]]
        BY <3>2 DEF Rollback, TypeOK
      <4> QED
        BY <2>1, <3>2, <4>1, <4>2 DEF Rollback
    <3> QED
      BY <1>7, <3>1, <3>2
  <2> DEFINE s == [sess[c] EXCEPT !.held = h, !.row = row, !.now = now]
  <2>3. s \in Sessions /\ sess[c] \in Sessions
    <3>1. sess[c] \in Sessions /\ h \in SUBSET Ids
      BY DEF Registered, TypeOK, Sessions
    <3> QED
      BY <3>1 DEF Sessions
  <2>4. Goto(c, "commit")
    BY <1>7 DEF Promote, Rollback
  <2>5. TypeOK'
    BY <2>2, <2>3, <2>4, SessionMoves
  <2>6. sess'[c].row = row /\ sess'[c].now = now /\ sess'[c].held = h
        /\ sess'[c].id = sess[c].id /\ pc'[c] = "commit" /\ UNCHANGED <<req, rows>>
    BY <2>2, <2>3, <2>4 DEF Goto, TypeOK, Sessions
  <2>7. Prepared(c)'
    BY <2>1, <2>2, <2>6 DEF Prepared, Promotes, RollsBack, Updates, Registered
  <2> QED
    BY <1>7, <2>5, <2>7, OthersStayPrepared DEF Promote, Rollback, Goto, TypeOK, Registered
<1>8. ASSUME NEW c \in Calls, Commit(c) PROVE (TypeOK /\ AllPrepared)'
  BY <1>3, <1>8, CommitKeepsVersions DEF Commit
<1>9. CASE Finished \/ UNCHANGED vars
  BY <1>9 DEF Finished, vars, TypeOK, AllPrepared, Prepared, Inserts, Promotes, RollsBack,
              Updates, Registered
<1> QED
  BY <1>1, <1>2, <1>4, <1>5, <1>6, <1>7, <1>8, <1>9 DEF Next, Step

(***************************************************************************)
(* The variables of the registry have their types, and only a call that is *)
(* about to commit holds rows, for any calls and versions.                 *)
(***************************************************************************)
THEOREM RegistryTypesHold == Spec => []TypeOK
<1> QED
  BY StartsTyped, PreparedStep, PTL DEF Spec

----------------------------------------------------------------------------
Promoting(c) == pc[c] = "commit" /\ req[c].op = "promote"

\* A promotion that is about to commit is the only one, and what it does not hold is quiet.
Exclusive(c) ==
  Promoting(c) =>
    /\ \A i \in Registered \ sess[c].held : Quiet(rows[i])
    /\ \A d \in Calls \ {c} : ~Promoting(d)

AllExclusive == \A c \in Calls : Exclusive(c)

(***************************************************************************)
(* A step that stores nothing and does not end the bulk UPDATE.            *)
(***************************************************************************)
LEMMA ExclusionKept ==
  ASSUME OneActive, AllExclusive, NEW c \in Calls, ~Promoting(c)', UNCHANGED <<req, rows>>,
         \A d \in Calls \ {c} : pc'[d] = pc[d] /\ sess'[d] = sess[d]
  PROVE  (OneActive /\ AllExclusive)'
BY DEF OneActive, AllExclusive, Exclusive, Promoting, Registered, Quiet

(***************************************************************************)
(* The bulk UPDATE waits for every row another promotion holds.            *)
(***************************************************************************)
LEMMA PromoteExcludes ==
  ASSUME TypeOK, AllPrepared, OneActive, AllExclusive, NEW c \in Calls, Promote(c)
  PROVE  (OneActive /\ AllExclusive)'
<1>1. OneActive'
  BY DEF Promote, Goto, OneActive, Registered
<1>2. ASSUME NEW d \in Calls \ {c}, Promoting(d) PROVE FALSE
  <2>1. Promotes(d)
    BY <1>2 DEF AllPrepared, Prepared, Promoting, Inserts, RollsBack
  <2>2. sess[d].id \in Registered /\ Locked(c, sess[d].id)
    BY <2>1 DEF Promotes, Updates, Locked
  <2> QED
    BY <2>2 DEF Promote
<1>3. sess'[c].held = Registered' /\ req' = req
      /\ \A d \in Calls \ {c} : pc'[d] = pc[d]
  <2>1. sess[c] \in Sessions /\ sess \in [Calls -> Sessions] /\ Registered' = Registered
        /\ UNCHANGED req /\ pc' = [pc EXCEPT ![c] = "commit"]
    BY DEF Promote, Goto, TypeOK, Registered, Sessions
  <2>2. sess'[c].held = Registered
    BY <2>1 DEF Promote, Sessions
  <2> QED
    BY <2>1, <2>2 DEF TypeOK
<1>4. \A d \in Calls \ {c} : ~Promoting(d)'
  BY <1>2, <1>3 DEF Promoting
<1> QED
  BY <1>1, <1>3, <1>4 DEF AllExclusive, Exclusive

LEMMA CommitExcludes ==
  ASSUME TypeOK, AllPrepared, OneActive, AllExclusive, NEW c \in Calls, Commit(c)
  PROVE  (OneActive /\ AllExclusive)'
<1>1. /\ pc[c] = "commit" /\ Prepared(c) /\ pc'[c] = "done" /\ req' = req
      /\ \A d \in Calls \ {c} : pc'[d] = pc[d] /\ sess'[d] = sess[d]
  BY DEF Commit, Answer, AllPrepared, TypeOK
<1>2. \A i \in Registered' :
        /\ i \in Ids
        /\ i \in sess[c].held => rows'[i] = AfterCall(c, i)
        /\ i \notin sess[c].held => rows'[i] = rows[i] /\ i \in Registered
  BY CommitKeepsVersions DEF Registered
<1>3. CASE Promotes(c)
  <2>1. Promoting(c)
    BY <1>1, <1>3 DEF Promoting, Promotes
  <2>2. ASSUME NEW i \in Registered', i # sess[c].id PROVE Quiet(rows'[i])
    <3>1. CASE i \in sess[c].held
      BY <1>1, <1>2, <1>3, <2>2, <3>1, RowAfterCall
    <3>2. CASE i \notin sess[c].held
      BY <1>2, <2>1, <3>2 DEF AllExclusive, Exclusive
    <3> QED
      BY <3>1, <3>2
  <2>3. \A d \in Calls : ~Promoting(d)'
    BY <1>1, <2>1 DEF AllExclusive, Exclusive, Promoting
  <2> QED
    BY <2>2, <2>3 DEF OneActive, AllExclusive, Exclusive, Quiet
<1>4. CASE Inserts(c) \/ RollsBack(c)
  <2>1. ASSUME NEW i \in Registered'
        PROVE  \/ Quiet(rows'[i])
               \/ /\ i \in Registered
                  /\ rows'[i].is_active => rows[i].is_active
                  /\ rows'[i].status = "active" => rows[i].status = "active"
    <3>1. CASE i \notin sess[c].held
      BY <1>2, <3>1
    <3>2. CASE i \in sess[c].held /\ Inserts(c)
      <4>1. rows'[i] = sess[c].now
        BY <1>1, <1>2, <3>2, RowAfterCall
      <4> QED
        BY <3>2, <4>1 DEF Inserts
    <3>3. CASE i \in sess[c].held /\ RollsBack(c)
      BY <1>1, <1>2, <3>3, RowAfterCall DEF RollsBack, Updates
    <3> QED
      BY <1>4, <3>1, <3>2, <3>3
  <2>2. OneActive'
    BY <2>1 DEF OneActive, Quiet
  <2>3. ASSUME NEW d \in Calls, Promoting(d)' PROVE Exclusive(d)'
    <3>1. d # c /\ Promoting(d) /\ sess'[d] = sess[d]
      BY <1>1, <2>3 DEF Promoting
    <3>2. \A i \in Registered' \ sess'[d].held : Quiet(rows'[i])
      BY <2>1, <3>1 DEF AllExclusive, Exclusive, Quiet
    <3>3. \A e \in Calls \ {d} : ~Promoting(e)'
      BY <1>1, <3>1 DEF AllExclusive, Exclusive, Promoting
    <3> QED
      BY <3>2, <3>3 DEF Exclusive
  <2> QED
    BY <2>2, <2>3 DEF AllExclusive, Exclusive
<1> QED
  BY <1>1, <1>3, <1>4 DEF Prepared

LEMMA ExclusionStep ==
  TypeOK /\ AllPrepared /\ OneActive /\ AllExclusive /\ [Next]_vars
    => (OneActive /\ AllExclusive)'
<1> SUFFICES ASSUME TypeOK, AllPrepared, OneActive, AllExclusive, [Next]_vars
             PROVE  (OneActive /\ AllExclusive)'
  OBVIOUS
<1>1. ASSUME NEW c \in Calls,
             Train(c) \/ Evaluate(c) \/ KeepLocal(c) \/ Register(c) \/ Select(c) \/ Rollback(c)
               \/ Abort(c)
      PROVE  (OneActive /\ AllExclusive)'
  <2>1. /\ UNCHANGED <<req, rows>>
        /\ \A d \in Calls \ {c} : pc'[d] = pc[d] /\ sess'[d] = sess[d]
    BY <1>1 DEF Train, Evaluate, KeepLocal, Register, Select, Rollback, Abort, Goto, Answer, TypeOK
  <2>2. ~Promoting(c)'
    BY <1>1, <2>1 DEF Train, Evaluate, KeepLocal, Register, Select, Rollback, Abort, Goto, Answer,
                      TypeOK, AllPrepared, Prepared, Promoting
  <2> QED
    BY <2>1, <2>2, ExclusionKept
<1>2. CASE Finished \/ UNCHANGED vars
  BY <1>2 DEF Finished, vars, OneActive, AllExclusive, Exclusive, Promoting, Registered
<1> QED
  BY <1>1, <1>2, PromoteExcludes, CommitExcludes DEF Next, Step

(***************************************************************************)
(* At most one version of the model is active, for any number of calls,    *)
(* versions and failures (promote_model, rollback_model,                   *)
(* register_model_version, run_retrain).                                   *)
(***************************************************************************)
THEOREM OneVersionIsActive == Spec => []OneActive
<1>1. Init => OneActive /\ AllExclusive
  BY DEF Init, OneActive, AllExclusive, Exclusive, Promoting, Registered
<1> QED
  BY <1>1, StartsTyped, PreparedStep, ExclusionStep, PTL DEF Spec

----------------------------------------------------------------------------
\* A retrain of version v has written and evaluated its artifact.
Trained(c, v) == c \in Retrains(v) /\ files[v] # NULL

Backed(row) == row.artifact # NULL => Trained(row.artifact, row.version)

FilesTrained == \A v \in Versions : files[v] # NULL => files[v] \in Retrains(v)

RowsBacked == \A i \in Registered : Backed(rows[i])

Evaluated(c) ==
  /\ pc[c] = "evaluate" => files[req[c].version] # NULL
  /\ sess[c].read # NULL => Trained(sess[c].read, req[c].version)
  /\ pc[c] = "commit" /\ Inserts(c) => Backed(sess[c].now)

AllEvaluated == \A c \in Calls : Evaluated(c)

Backing == FilesTrained /\ RowsBacked /\ AllEvaluated

\* A file that is written stays: what was backed is backed.
LEMMA StaysTrained ==
  ASSUME TypeOK, UNCHANGED req, UNCHANGED files \/ \E c \in Calls : Train(c),
         NEW c, NEW v \in Versions, Trained(c, v)
  PROVE  Trained(c, v)'
<1>1. Retrains(v)' = Retrains(v)
  BY DEF Retrains
<1>2. files'[v] # NULL
  BY RegistryAssumption DEF Trained, Train, TypeOK
<1> QED
  BY <1>1, <1>2 DEF Trained

LEMMA BackingKept ==
  ASSUME TypeOK, AllPrepared, Backing, NEW c \in Calls, Evaluated(c)', UNCHANGED <<req, rows>>,
         UNCHANGED files \/ Train(c),
         \A d \in Calls \ {c} : pc'[d] = pc[d] /\ sess'[d] = sess[d]
  PROVE  (RowsBacked /\ AllEvaluated)'
<1>1. RowsBacked'
  <2>1. SUFFICES ASSUME NEW i \in Registered, rows[i].artifact # NULL
                 PROVE  Trained(rows[i].artifact, rows[i].version)'
    BY DEF RowsBacked, Backed, Registered
  <2>2. rows[i].version \in Versions
    BY DEF TypeOK, Registered, Rows
  <2>3. Trained(rows[i].artifact, rows[i].version)
    BY <2>1 DEF Backing, RowsBacked, Backed
  <2>4. \A a : \A v \in Versions : Trained(a, v) => Trained(a, v)'
    BY StaysTrained
  <2> QED
    BY <2>2, <2>3, <2>4 DEF Trained, Retrains
<1>2. ASSUME NEW d \in Calls \ {c} PROVE Evaluated(d)'
  <2>1. /\ pc'[d] = pc[d] /\ sess'[d] = sess[d] /\ req' = req /\ Evaluated(d)
        /\ req[d].version \in Versions
        /\ Inserts(d)' => Inserts(d)
    BY <1>2, RequestsHaveVersions DEF Backing, AllEvaluated, Inserts
  <2>2. files[req[d].version] # NULL => files'[req[d].version] # NULL
    BY <2>1, RegistryAssumption DEF Train, TypeOK
  <2>3. sess[d].read # NULL => Trained(sess[d].read, req[d].version)'
    BY <2>1, <2>2 DEF Evaluated, Trained, Retrains
  <2>4. ASSUME pc[d] = "commit", Inserts(d), sess[d].now.artifact # NULL
        PROVE  Trained(sess[d].now.artifact, sess[d].now.version)'
    <3>1. sess[d].now.version \in Versions
      BY <2>4 DEF Inserts, Rows
    <3>2. Trained(sess[d].now.artifact, sess[d].now.version)
      BY <2>1, <2>4 DEF Evaluated, Backed
    <3>3. files'[sess[d].now.version] # NULL
      BY <3>1, <3>2, RegistryAssumption DEF Trained, Train, TypeOK
    <3> QED
      BY <2>1, <3>2, <3>3 DEF Trained, Retrains
  <2> QED
    BY <2>1, <2>2, <2>3, <2>4 DEF Evaluated, Backed, Trained, Retrains
<1> QED
  BY <1>1, <1>2 DEF AllEvaluated

LEMMA BackingStep ==
  TypeOK /\ AllPrepared /\ Backing /\ [Next]_vars => Backing'
<1> SUFFICES ASSUME TypeOK, AllPrepared, Backing, [Next]_vars PROVE Backing'
  OBVIOUS
<1>1. ASSUME NEW c \in Calls, Train(c) PROVE Backing'
  <2>1. c \in Retrains(req[c].version) /\ files' = [files EXCEPT ![req[c].version] = c]
        /\ req[c].version \in Versions /\ UNCHANGED <<req, rows, sess>>
        /\ pc' = [pc EXCEPT ![c] = "evaluate"] /\ pc[c] = "start"
    BY <1>1, RequestsHaveVersions DEF Train, Retrains
  <2>2. FilesTrained'
    BY <2>1, RegistryAssumption DEF Backing, FilesTrained, Retrains, TypeOK
  <2>3. Evaluated(c)'
    <3>1. pc'[c] = "evaluate" /\ files'[req[c].version] # NULL
      BY <2>1, RegistryAssumption DEF TypeOK
    <3>2. sess[c].read # NULL => Trained(sess[c].read, req[c].version)
      BY DEF Backing, AllEvaluated, Evaluated
    <3> QED
      BY <2>1, <3>1, <3>2 DEF Evaluated, Trained, Retrains
  <2>4. (RowsBacked /\ AllEvaluated)'
    BY <1>1, <2>1, <2>3, BackingKept DEF TypeOK
  <2> QED
    BY <2>2, <2>4 DEF Backing
<1>2. ASSUME NEW c \in Calls, UNCHANGED <<req, rows, files>>, Evaluated(c)',
             \A d \in Calls \ {c} : pc'[d] = pc[d] /\ sess'[d] = sess[d]
      PROVE  Backing'
  BY <1>2, BackingKept DEF Backing, FilesTrained, Retrains
<1>3. ASSUME NEW c \in Calls, Evaluate(c) PROVE Backing'
  <2>1. UNCHANGED <<req, rows, files>> /\ pc[c] = "evaluate" /\ pc'[c] = "register"
        /\ sess' = [sess EXCEPT ![c].read = files[req[c].version]]
        /\ \A d \in Calls \ {c} : pc'[d] = pc[d] /\ sess'[d] = sess[d]
    BY <1>3 DEF Evaluate, Goto, TypeOK
  <2>2. sess'[c].read = files[req[c].version]
    BY <2>1 DEF TypeOK
  <2>3. Trained(files[req[c].version], req[c].version)
    BY <2>1, RequestsHaveVersions DEF Backing, AllEvaluated, Evaluated, FilesTrained, Trained
  <2>4. Evaluated(c)'
    BY <2>1, <2>2, <2>3 DEF Evaluated, Trained, Retrains
  <2> QED
    BY <1>2, <2>1, <2>4
<1>4. ASSUME NEW c \in Calls, NEW a, Answer(c, a), UNCHANGED rows PROVE Backing'
  BY <1>2, <1>4 DEF Answer, Blank, Evaluated, TypeOK
<1>5. ASSUME NEW c \in Calls, Register(c) PROVE Backing'
  <2>1. UNCHANGED <<req, rows, files>> /\ pc'[c] = "commit"
        /\ \A d \in Calls \ {c} : pc'[d] = pc[d] /\ sess'[d] = sess[d]
    BY <1>5 DEF Register, Goto, TypeOK
  <2>2. /\ sess'[c].read = sess[c].read
        /\ sess'[c].now.version = req[c].version
        /\ sess'[c].now.artifact = sess[c].read
    BY <1>5 DEF Register, TypeOK
  <2>3. sess[c].read # NULL => Trained(sess[c].read, req[c].version)
    BY DEF Backing, AllEvaluated, Evaluated
  <2>4. Evaluated(c)'
    BY <2>1, <2>2, <2>3 DEF Evaluated, Backed, Trained, Retrains
  <2> QED
    BY <1>2, <2>1, <2>4
<1>6. ASSUME NEW c \in Calls, UNCHANGED <<req, rows, files>>, ~Inserts(c)',
             sess'[c].read = sess[c].read, pc'[c] # "evaluate",
             \A d \in Calls \ {c} : pc'[d] = pc[d] /\ sess'[d] = sess[d]
      PROVE  Backing'
  <2>1. sess[c].read # NULL => Trained(sess[c].read, req[c].version)
    BY DEF Backing, AllEvaluated, Evaluated
  <2>2. Evaluated(c)'
    BY <1>6, <2>1 DEF Evaluated, Trained, Retrains
  <2> QED
    BY <1>2, <1>6, <2>2
<1>7. ASSUME NEW c \in Calls, Select(c) PROVE Backing'
  <2>1. CASE \E i \in Matching(req[c].version) :
               /\ sess' = [sess EXCEPT ![c].id = i, ![c].row = rows[i], ![c].now = rows[i]]
               /\ Goto(c, req[c].op)
    <3>1. PICK i \in Registered :
               /\ sess' = [sess EXCEPT ![c].id = i, ![c].row = rows[i], ![c].now = rows[i]]
               /\ Goto(c, req[c].op)
      BY <2>1 DEF Matching
    <3>2. sess'[c].row = rows[i] /\ rows[i] # NULL /\ sess'[c].read = sess[c].read
      <4>1. sess \in [Calls -> Sessions]
        BY DEF TypeOK, Sessions
      <4> QED
        BY <3>1, <4>1 DEF Registered, Sessions
    <3>3. UNCHANGED <<req, rows, files>> /\ pc'[c] # "evaluate"
          /\ \A d \in Calls \ {c} : pc'[d] = pc[d] /\ sess'[d] = sess[d]
      BY <1>7, <3>1 DEF Select, Goto, TypeOK
    <3> QED
      BY <1>6, <3>2, <3>3 DEF Inserts
  <2> QED
    BY <1>4, <1>7, <2>1 DEF Select
<1>8. ASSUME NEW c \in Calls, Promote(c) \/ Rollback(c) PROVE Backing'
  <2>1. sess[c].row \in Rows /\ sess[c] \in Sessions
    BY <1>8 DEF Promote, Rollback, AllPrepared, Prepared, Updates, TypeOK, Sessions
  <2>2. UNCHANGED <<req, rows, files>> /\ pc'[c] = "commit"
        /\ \A d \in Calls \ {c} : pc'[d] = pc[d] /\ sess'[d] = sess[d]
    BY <1>8 DEF Promote, Rollback, Goto, TypeOK
  <2>3. sess'[c].read = sess[c].read
    BY <1>8 DEF Promote, Rollback, TypeOK
  <2>4. sess'[c].row = [sess[c].row EXCEPT !.is_active = FALSE, !.status = "candidate"]
        \/ sess'[c].row = sess[c].row
    BY <1>8 DEF Promote, Rollback, TypeOK
  <2>5. sess'[c].row \in Rows
    BY <2>1, <2>4 DEF Rows
  <2> QED
    BY <1>6, <2>2, <2>3, <2>5, RegistryAssumption DEF Inserts
<1>9. ASSUME NEW c \in Calls, Commit(c) PROVE Backing'
  <2>1. /\ pc[c] = "commit" /\ Prepared(c) /\ UNCHANGED <<req, files>>
        /\ pc'[c] = "done" /\ sess'[c] = Blank
        /\ \A d \in Calls \ {c} : pc'[d] = pc[d] /\ sess'[d] = sess[d]
    BY <1>9 DEF Commit, Answer, AllPrepared, TypeOK
  <2>2. ASSUME NEW i \in Registered' PROVE Backed(rows'[i])
    <3>1. CASE i \in sess[c].held /\ Inserts(c)
      <4>1. rows'[i] = sess[c].now
        BY <1>9, <2>1, <3>1, CommitKeepsVersions, RowAfterCall DEF Registered
      <4> QED
        BY <2>1, <3>1, <4>1 DEF Backing, AllEvaluated, Evaluated
    <3>2. CASE ~(i \in sess[c].held /\ Inserts(c))
      <4>1. i \in Registered /\ SameModel(rows'[i], rows[i])
        BY <1>9, <2>1, <3>2, CommitKeepsVersions, RowAfterCall, RegistryAssumption
        DEF Registered, SameModel
      <4> QED
        BY <4>1 DEF Backing, RowsBacked, Backed, SameModel
    <3> QED
      BY <3>1, <3>2
  <2>3. RowsBacked'
    BY <2>1, <2>2 DEF RowsBacked, Backed, Trained, Retrains
  <2>4. AllEvaluated'
    BY <2>1 DEF Backing, AllEvaluated, Evaluated, Blank, Inserts, Backed, Trained, Retrains
  <2>5. FilesTrained'
    BY <2>1 DEF Backing, FilesTrained, Retrains
  <2> QED
    BY <2>3, <2>4, <2>5 DEF Backing
<1>10. CASE Finished \/ UNCHANGED vars
  BY <1>10 DEF Finished, vars, Backing, FilesTrained, RowsBacked, AllEvaluated, Evaluated,
               Inserts, Backed, Trained, Retrains, Registered
<1> QED
  BY <1>1, <1>3, <1>4, <1>5, <1>7, <1>8, <1>9, <1>10 DEF Next, Step, KeepLocal, Abort

(***************************************************************************)
(* A registered version has the artifact run_retrain wrote, the one it has *)
(* evaluated when no other retrain started in the same second, for any     *)
(* number of calls (run_retrain, promote_model, rollback_model).           *)
(***************************************************************************)
THEOREM RetrainedVersionsHaveArtifacts == Spec => []RetrainedHasArtifact
<1>1. Init => Backing
  BY DEF Init, Blank, Backing, FilesTrained, RowsBacked, AllEvaluated, Evaluated, Registered
<1>2. TypeOK /\ Backing => RetrainedHasArtifact
  <2>1. SUFFICES ASSUME TypeOK, Backing, NEW i \in Registered, rows[i].artifact # NULL
                 PROVE  /\ files[rows[i].version] # NULL
                        /\ \A c \in Retrains(rows[i].version) :
                             Retrains(rows[i].version) = {c} =>
                               rows[i].artifact = files[rows[i].version]
    BY DEF RetrainedHasArtifact
  <2>2. rows[i].version \in Versions
    <3>1. rows[i] \in Rows
      BY <2>1 DEF TypeOK, Registered
    <3> QED
      BY <3>1 DEF Rows
  <2>3. files[rows[i].version] # NULL /\ rows[i].artifact \in Retrains(rows[i].version)
        /\ files[rows[i].version] \in Retrains(rows[i].version)
    BY <2>1, <2>2 DEF Backing, RowsBacked, Backed, Trained, FilesTrained
  <2> QED
    BY <2>3
<1> QED
  BY <1>1, <1>2, StartsTyped, PreparedStep, BackingStep, PTL DEF Spec

=============================================================================
