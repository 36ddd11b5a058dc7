------------------------ MODULE ProfileWorkerProofs ------------------------
(***************************************************************************)
(* The profile worker for any number of runs and entities, whichever of    *)
(* them have a Redis client and whichever outlast their lease: its types,  *)
(* the atomicity of bootstrap_profiles, and what the lock is worth to the  *)
(* runs that take it.                                                      *)
(***************************************************************************)
EXTENDS ProfileWorker, TLAPS

(***************************************************************************)
(* The lock only ever holds an owner or nothing (SET NX EX, GET, DELETE,   *)
(* expiry).                                                                *)
(***************************************************************************)
LEMMA LockTyped ==
  ASSUME NEW o \in Owners, lock \in Owners \cup {NULL},
         Acquire(o) \/ Refused(o) \/ Delete \/ Expire(Alive) \/ UNCHANGED lock
  PROVE  lock' \in Owners \cup {NULL}
BY DEF Acquire, Refused, Delete, Expire

(***************************************************************************)
(* Type correctness: however runs fail, time out, crash and overlap, a run *)
(* outside its ingest cycle has no uncommitted profile.                    *)
(***************************************************************************)
THEOREM TypesHold == Spec => []TypeOK
<1>1. Init => TypeOK
  <2> SUFFICES ASSUME Init PROVE TypeOK
    OBVIOUS
  <2> USE DEF Init
  <2>1. /\ pc \in [Owners -> {"new", "ingest", "match", "record", "release", "delete",
                           "done"}]
        /\ made \in [Owners -> SUBSET Entities]
        /\ status \in [Owners -> {"success", "timeout", "failed"}]
        /\ profiles \in [Entities -> Nat]
    OBVIOUS
  <2>2. \A o \in Owners : made[o] = {}
    OBVIOUS
  <2> QED
    BY <2>1, <2>2 DEF TypeOK
<1>2. TypeOK /\ [Next]_vars => TypeOK'
  <2> SUFFICES ASSUME TypeOK, [Next]_vars PROVE TypeOK'
    OBVIOUS
  <2> USE DEF TypeOK, Goto, Ends
  <2>1. ASSUME NEW o \in Owners, Start(o) PROVE TypeOK'
    BY <2>1, LockTyped DEF Start
  <2>2. ASSUME NEW o \in Owners, Skip(o) PROVE TypeOK'
    BY <2>2, LockTyped DEF Skip
  <2>3. ASSUME NEW o \in Owners, BootstrapEntity(o) PROVE TypeOK'
    BY <2>3 DEF BootstrapEntity, CreateProfile
  <2>4. ASSUME NEW o \in Owners, CommitBootstrap(o) PROVE TypeOK'
    BY <2>4 DEF CommitBootstrap
  <2>5. ASSUME NEW o \in Owners, Match(o) PROVE TypeOK'
    BY <2>5 DEF Match
  <2>6. ASSUME NEW o \in Owners, IngestFails(o) PROVE TypeOK'
    BY <2>6 DEF IngestFails
  <2>7. ASSUME NEW o \in Owners, Timeout(o) PROVE TypeOK'
    BY <2>7 DEF Timeout
  <2>8. ASSUME NEW o \in Owners, Record(o) PROVE TypeOK'
    BY <2>8 DEF Record, RunRow
  <2>9. ASSUME NEW o \in Owners, ReadLock(o) PROVE TypeOK'
    BY <2>9 DEF ReadLock
  <2>10. ASSUME NEW o \in Owners, DeleteLock(o) PROVE TypeOK'
    BY <2>10, LockTyped DEF DeleteLock
  <2>11. ASSUME NEW o \in Owners, ReleaseFails(o) PROVE TypeOK'
    BY <2>11 DEF ReleaseFails
  <2>12. ASSUME NEW o \in Owners, Crash(o) PROVE TypeOK'
    BY <2>12 DEF Crash
  <2>13. CASE LockExpires
    BY <2>13 DEF LockExpires, Expire
  <2>14. CASE UNCHANGED vars
    BY <2>14 DEF vars
  <2> QED
    BY <2>1, <2>2, <2>3, <2>4, <2>5, <2>6, <2>7, <2>8, <2>9, <2>10, <2>11,
       <2>12, <2>13, <2>14
    DEF Next, Step, Trouble, Finished
<1> QED
  BY <1>1, <1>2, PTL DEF Spec

(***************************************************************************)
(* bootstrap_profiles is all or nothing for any batch of entities: only    *)
(* its one commit writes profiles, and it writes them for the whole batch. *)
(***************************************************************************)
THEOREM BootstrapIsAtomic == Spec => []BootstrapAtomic
<1>1. Init => BootstrapAtomic
  BY DEF Init, BootstrapAtomic
<1>2. TypeOK /\ BootstrapAtomic /\ [Next]_vars => BootstrapAtomic'
  <2> SUFFICES ASSUME TypeOK, BootstrapAtomic, [Next]_vars PROVE BootstrapAtomic'
    OBVIOUS
  <2>1. ASSUME NEW o \in Owners, CommitBootstrap(o) PROVE BootstrapAtomic'
    BY <2>1 DEF CommitBootstrap, BootstrapAtomic
  <2>2. ASSUME NEW o \in Owners, Step(o), ~CommitBootstrap(o) PROVE UNCHANGED profiles
    BY <2>2 DEF Step, Start, BootstrapEntity, Match, Record, ReadLock, DeleteLock
  <2>3. ASSUME NEW o \in Owners, Trouble(o) PROVE UNCHANGED profiles
    BY <2>3 DEF Trouble, Skip, IngestFails, Timeout, ReleaseFails, Crash
  <2>4. CASE LockExpires \/ UNCHANGED vars \/ Finished
    BY <2>4 DEF LockExpires, vars, Finished, BootstrapAtomic
  <2>5. ASSUME UNCHANGED profiles PROVE BootstrapAtomic'
    BY <2>5 DEF BootstrapAtomic
  <2> QED
    BY <2>1, <2>2, <2>3, <2>4, <2>5 DEF Next
<1> QED
  BY <1>1, <1>2, TypesHold, PTL DEF Spec

----------------------------------------------------------------------------
(***************************************************************************)
(* The inductive invariant behind the lock.  Unless a lease has lapsed,    *)
(* the key names every guarded run, from its Start to its DELETE, so that  *)
(* the DELETE takes no key but its own; a lapse is remembered only as long *)
(* as guarded runs are left; and neither the key nor a DELETE belongs to a *)
(* run without a client.                                                   *)
(***************************************************************************)
KeySound ==
  /\ ~lapsed => \A o \in Guarded : lock = o
  /\ lapsed => Guarded # {}
  /\ lock \in Connected \cup {NULL}
  /\ \A o \in Owners : pc[o] = "delete" => o \in Connected

(***************************************************************************)
(* A step that leaves run o past the lock, or outside it, leaves the       *)
(* guarded runs alone.                                                     *)
(***************************************************************************)
LEMMA SameGuarded ==
  ASSUME TypeOK, NEW o \in Owners, NEW p,
         pc' = [pc EXCEPT ![o] = p],
         Running(o) <=> p \in {"ingest", "match", "record", "release", "delete"}
  PROVE  Guarded' = Guarded
BY DEF TypeOK, Guarded, Alive, Running

(***************************************************************************)
(* The end of a run takes it, and nobody else, out of the guarded runs.    *)
(***************************************************************************)
LEMMA EndedGuarded ==
  ASSUME TypeOK, NEW o \in Owners, Ends(o)
  PROVE  /\ Guarded' = Guarded \ {o}
         /\ lapsed' = (lapsed /\ Guarded' # {})
BY DEF TypeOK, Guarded, Alive, Running, Ends

(***************************************************************************)
(* A run that takes the lock joins the guarded runs; a run without a       *)
(* client does not.                                                        *)
(***************************************************************************)
LEMMA StartedGuarded ==
  ASSUME TypeOK, NEW o \in Owners, Start(o)
  PROVE  /\ o \notin Guarded
         /\ Guarded' = IF o \in Connected THEN Guarded \cup {o} ELSE Guarded
         /\ UNCHANGED lapsed
BY DEF TypeOK, Guarded, Alive, Running, Start, Goto

(***************************************************************************)
(* The steps of a run between its Start and its end.                       *)
(***************************************************************************)
Inside(o) ==
  \/ BootstrapEntity(o) \/ CommitBootstrap(o) \/ Match(o) \/ IngestFails(o)
  \/ Timeout(o) \/ Record(o) \/ (ReadLock(o) /\ ReadsOwn(o))

LEMMA InsideIsQuiet ==
  ASSUME TypeOK, NEW o \in Owners, Inside(o)
  PROVE  /\ UNCHANGED <<lock, lapsed>>
         /\ Guarded' = Guarded
         /\ \A q \in Owners : pc'[q] = "delete" => pc[q] = "delete" \/ ReadsOwn(q)
<1>1. CASE BootstrapEntity(o)
  BY <1>1 DEF BootstrapEntity, Guarded, Alive, Running
<1>2. CASE CommitBootstrap(o) \/ Match(o)
  BY <1>2, SameGuarded DEF TypeOK, CommitBootstrap, Match, Goto, Running
<1>3. CASE IngestFails(o) \/ Timeout(o)
  BY <1>3, SameGuarded DEF TypeOK, IngestFails, Timeout, Goto, Working, Running
<1>4. CASE Record(o) \/ (ReadLock(o) /\ ReadsOwn(o))
  BY <1>4, SameGuarded DEF TypeOK, Record, ReadLock, Goto, Running
<1> QED
  BY <1>1, <1>2, <1>3, <1>4 DEF Inside

(***************************************************************************)
(* The ways out of a run.                                                  *)
(***************************************************************************)
Out(o) ==
  \/ ReadLock(o) /\ ~ReadsOwn(o)
  \/ DeleteLock(o) \/ ReleaseFails(o) \/ Crash(o)

LEMMA OutEnds ==
  ASSUME NEW o \in Owners, Out(o)
  PROVE  /\ Running(o) /\ Ends(o)
         /\ UNCHANGED lock \/ (pc[o] = "delete" /\ lock' = NULL)
BY DEF Out, ReadLock, DeleteLock, Delete, ReleaseFails, Crash, Running

(***************************************************************************)
(* Every step of the worker is one of these.                               *)
(***************************************************************************)
LEMMA StepsOfRuns ==
  ASSUME [Next]_vars
  PROVE  \/ \E o \in Owners : Start(o) \/ Skip(o) \/ Inside(o) \/ Out(o)
         \/ LockExpires \/ UNCHANGED vars
BY DEF Next, Step, Trouble, Finished, Inside, Out

(***************************************************************************)
(* KeySound is kept by every step: a crash or a failed release leaves a    *)
(* key that names nobody alive, a refused SET may do so too, and a key     *)
(* that expires under a live run is a lapse.                               *)
(***************************************************************************)
LEMMA KeyKept ==
  ASSUME TypeOK, KeySound, [Next]_vars
  PROVE  KeySound'
<1> USE DEF KeySound
<1>1. ASSUME NEW o \in Owners, Start(o) PROVE KeySound'
  <2>1. \A q \in Owners : pc'[q] = "delete" => pc[q] = "delete"
    BY <1>1 DEF Start, Goto, TypeOK
  <2>2. CASE o \in Connected
    <3>1. lock = NULL /\ lock' = o
      BY <1>1, <2>2 DEF Start, Acquire
    <3>2. ~lapsed => Guarded = {}
      BY <3>1, LockAssumption DEF Guarded
    <3> QED
      BY <1>1, <2>1, <2>2, <3>1, <3>2, StartedGuarded
  <2>3. CASE o \notin Connected
    <3>1. UNCHANGED lock
      BY <1>1, <2>3 DEF Start, Acquire
    <3> QED
      BY <1>1, <2>1, <2>3, <3>1, StartedGuarded
  <2> QED
    BY <2>2, <2>3
<1>2. ASSUME NEW o \in Owners, Skip(o) PROVE KeySound'
  <2>1. Guarded' = Guarded /\ UNCHANGED lapsed
    BY <1>2, SameGuarded DEF Skip, Goto, Running
  <2>2. \A q \in Owners : pc'[q] = "delete" => pc[q] = "delete"
    BY <1>2 DEF Skip, Goto, TypeOK
  <2>3. lock' \in Connected \cup {NULL} /\ (lock' = lock \/ lock = NULL)
    BY <1>2 DEF Skip, Refused
  <2>4. lock = NULL /\ ~lapsed => Guarded = {}
    BY LockAssumption DEF Guarded
  <2> QED
    BY <2>1, <2>2, <2>3, <2>4
<1>3. ASSUME NEW o \in Owners, Inside(o) PROVE KeySound'
  <2>1. \A q \in Owners : ReadsOwn(q) => q \in Connected
    BY DEF ReadsOwn
  <2> QED
    BY <1>3, <2>1, InsideIsQuiet
<1>4. ASSUME NEW o \in Owners, Out(o) PROVE KeySound'
  <2>1. Ends(o) /\ Running(o)
    BY <1>4, OutEnds
  <2>2. Guarded' = Guarded \ {o} /\ lapsed' = (lapsed /\ Guarded' # {})
    BY <2>1, EndedGuarded
  <2>3. \A q \in Owners : pc'[q] = "delete" => pc[q] = "delete"
    BY <2>1 DEF Ends, TypeOK
  <2>4. UNCHANGED lock \/ (o \in Guarded /\ lock' = NULL)
    BY <1>4, <2>1, OutEnds DEF Guarded, Alive
  <2>5. CASE lapsed
    BY <2>2, <2>3, <2>4, <2>5
  <2>6. CASE ~lapsed
    BY <2>2, <2>3, <2>4, <2>6
  <2> QED
    BY <2>5, <2>6
<1>5. CASE LockExpires
  <2>1. lock' = NULL /\ lapsed' = (lapsed \/ lock \in Alive) /\ UNCHANGED pc
    BY <1>5 DEF LockExpires, Expire
  <2>2. Guarded' = Guarded
    BY <2>1 DEF Guarded, Alive, Running
  <2>3. lock \in Alive => lock \in Guarded
    BY LockAssumption DEF Guarded, Alive
  <2>4. ~lapsed' => Guarded = {}
    BY <2>1 DEF Guarded
  <2>5. lapsed' => Guarded # {}
    BY <2>1, <2>3
  <2> QED
    BY <2>1, <2>2, <2>4, <2>5
<1>6. CASE UNCHANGED vars
  BY <1>6 DEF vars, Guarded, Alive, Running
<1> QED
  BY <1>1, <1>2, <1>3, <1>4, <1>5, <1>6, StepsOfRuns

LEMMA KeyInvariant == Spec => []KeySound
<1>1. Init => KeySound
  BY DEF Init, KeySound, Guarded, Alive, Running
<1>2. TypeOK /\ KeySound /\ [Next]_vars => KeySound'
  BY KeyKept
<1> QED
  BY <1>1, <1>2, TypesHold, PTL DEF Spec

(***************************************************************************)
(* Two runs that take the lock overlap only after a lease has lapsed, with *)
(* guarded runs under way ever since.                                      *)
(***************************************************************************)
AloneUnlessLapsed == ~lapsed => \A o, q \in Guarded : o = q

(***************************************************************************)
(* "Redis distributed lock to ensure a single runner across instances"     *)
(* (profile_worker.py): it does so among the runs that take it, through    *)
(* crashes, refusals and failed releases, until a lease lapses.            *)
(***************************************************************************)
THEOREM MutualExclusion == Spec => []AloneUnlessLapsed
<1>1. KeySound => AloneUnlessLapsed
  BY DEF KeySound, AloneUnlessLapsed
<1> QED
  BY <1>1, KeyInvariant, PTL

(***************************************************************************)
(* run_once implements the single runner with a lease, whatever the runs   *)
(* are: the Start of a run that takes the lock is its beginning, each of   *)
(* its ways out (release, failed release, crash) its end, a key that       *)
(* expires under it a lapse; everything else, the runs without a client    *)
(* included, changes nothing the abstract specification sees.              *)
(***************************************************************************)
THEOREM SingleRunnerRefined == Spec => ImplementsSingleRunner
<1>1. Init => Single!Init
  BY DEF Init, Single!Init, Guarded, Alive, Running
<1>2. TypeOK /\ KeySound /\ [Next]_vars => [Single!Next]_<<Guarded, lapsed>>
  <2> SUFFICES ASSUME TypeOK, KeySound, [Next]_vars
               PROVE  Single!Next \/ (Guarded' = Guarded /\ lapsed' = lapsed)
    OBVIOUS
  <2>1. ASSUME NEW o \in Owners, Start(o)
        PROVE  Single!Next \/ (Guarded' = Guarded /\ lapsed' = lapsed)
    <3>1. CASE o \in Connected
      <4>1. ~lapsed => Guarded = {}
        BY <2>1, <3>1, LockAssumption DEF Start, Acquire, KeySound, Guarded
      <4>2. lapsed \in BOOLEAN
        BY DEF TypeOK
      <4>3. Single!Begin(o)
        BY <2>1, <3>1, <4>1, <4>2, StartedGuarded DEF Single!Begin
      <4> QED
        BY <4>3 DEF Single!Next
    <3>2. CASE o \notin Connected
      BY <2>1, <3>2, StartedGuarded
    <3> QED
      BY <3>1, <3>2
  <2>2. ASSUME NEW o \in Owners, Skip(o)
        PROVE  Guarded' = Guarded /\ lapsed' = lapsed
    BY <2>2, SameGuarded DEF Skip, Goto, Running
  <2>3. ASSUME NEW o \in Owners, Inside(o)
        PROVE  Guarded' = Guarded /\ lapsed' = lapsed
    BY <2>3, InsideIsQuiet
  <2>4. ASSUME NEW o \in Owners, Out(o)
        PROVE  Single!Next \/ (Guarded' = Guarded /\ lapsed' = lapsed)
    <3>1. Guarded' = Guarded \ {o} /\ lapsed' = (lapsed /\ Guarded' # {})
      BY <2>4, OutEnds, EndedGuarded
    <3>2. CASE o \in Guarded
      BY <3>1, <3>2 DEF Single!Next, Single!End
    <3>3. CASE o \notin Guarded
      <4>1. Guarded' = Guarded
        BY <3>1, <3>3
      <4>2. lapsed \in BOOLEAN /\ (lapsed => Guarded # {})
        BY DEF TypeOK, KeySound
      <4> QED
        BY <3>1, <4>1, <4>2
    <3> QED
      BY <3>2, <3>3
  <2>5. CASE LockExpires
    <3>1. /\ lock \in Alive => lock \in Outlasting
          /\ lapsed' = (lapsed \/ lock \in Alive)
          /\ UNCHANGED pc
      BY <2>5 DEF LockExpires, Expire
    <3>2. Guarded' = Guarded
      BY <3>1 DEF Guarded, Alive, Running
    <3>3. CASE lock \in Alive
      <4>1. lock \in Guarded \cap Outlasting
        BY <3>1, <3>3, LockAssumption DEF KeySound, Guarded, Alive
      <4> QED
        BY <3>1, <3>2, <3>3, <4>1 DEF Single!Next, Single!Lapse
    <3>4. CASE lock \notin Alive
      BY <3>1, <3>2, <3>4 DEF TypeOK
    <3> QED
      BY <3>3, <3>4
  <2>6. CASE UNCHANGED vars
    BY <2>6 DEF vars, Guarded, Alive, Running
  <2> QED
    BY <2>1, <2>2, <2>3, <2>4, <2>5, <2>6, StepsOfRuns
<1> QED
  BY <1>1, <1>2, KeyInvariant, TypesHold, PTL
  DEF Spec, ImplementsSingleRunner, Single!Spec
=============================================================================
