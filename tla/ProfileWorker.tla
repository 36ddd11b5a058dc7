--------------------------- MODULE ProfileWorker ---------------------------
(***************************************************************************)
(* Runs of the profile worker (app/tasks/profile_worker.py: run_once and   *)
(* _run_ingest_cycle; app/ingest/link_profiles.py: bootstrap_profiles;     *)
(* app/services/profile_service.py: create_profile_from_entity).  A run is *)
(* an owner of the lock.  The loop of a worker process and `--once` start  *)
(* runs that have a max_runtime but no Redis client: they are Timed and    *)
(* not Connected.  POST /profiles/trigger starts runs in the API process,  *)
(* which imports the module after connect_redis: they are Connected and    *)
(* not Timed, and may go on for longer than the lease of the lock.         *)
(*                                                                         *)
(* The contacts lookup and the selection of match_transactions compare a   *)
(* column with `is True`, which Python evaluates to False: neither selects *)
(* a row.  So bootstrap creates a profile for every entity it reads, and   *)
(* matching changes nothing.                                               *)
(***************************************************************************)
EXTENDS Naturals, RedisLock

CONSTANTS
  Entities,   \* ids of the rows of table entities that the batch selects
  Timed       \* the runs with a max_runtime

VARIABLES
  pc,         \* pc[o]: where run o is
  made,       \* made[o]: the entities it has created a profile for, uncommitted
  status,     \* status[o]: the status it is going to record
  profiles,   \* profiles[e]: how many profiles link entity e
  runs,       \* table worker_runs: a set of [run, status]
  lapsed      \* history: a lease has run out under a live run, and some run that
              \* takes the lock has been under way ever since

vars == <<lock, pc, made, status, profiles, runs, lapsed>>

Running(o) == pc[o] \in {"ingest", "match", "record", "release", "delete"}
Working(o) == pc[o] \in {"ingest", "match"}
Alive == {o \in Owners : Running(o)}

\* The live runs that the lock is there for.
Guarded == Alive \cap Connected

Init ==
  /\ lock = NULL
  /\ pc = [o \in Owners |-> "new"]
  /\ made = [o \in Owners |-> {}]
  /\ status = [o \in Owners |-> "success"]
  /\ profiles = [e \in Entities |-> 0]
  /\ runs = {}
  /\ lapsed = FALSE

Goto(o, p) == pc' = [pc EXCEPT ![o] = p] /\ UNCHANGED lapsed

\* Run o is over; when no guarded run is left, a lapse is history.
Ends(o) ==
  /\ pc' = [pc EXCEPT ![o] = "done"]
  /\ lapsed' = (lapsed /\ Guarded \ {o} # {})

----------------------------------------------------------------------------
Start(o) ==
  /\ pc[o] = "new"
  /\ Acquire(o)
  /\ Goto(o, "ingest")
  /\ UNCHANGED <<made, status, profiles, runs>>

Skip(o) ==
  /\ pc[o] = "new"
  /\ Refused(o)
  /\ Goto(o, "done")
  /\ UNCHANGED <<made, status, profiles, runs>>

\* find_profiles_by_entity_contacts: the entities it compares contacts with, and
\* those of them that have a contact in common with e and a profile.
Candidates == {e \in Entities : FALSE}
FindProfiles(e) == {f \in Candidates : profiles[f] > 0}

\* create_profile_from_entity: the profile and its alias are flushed.
CreateProfile(o, e) == made' = [made EXCEPT ![o] = @ \cup {e}]

\* One iteration of bootstrap_profiles.
MutBootstrapEntity(o) ==
  /\ pc[o] = "ingest"
  /\ \E e \in Entities \ made[o] :
       /\ FindProfiles(e) = {}
       /\ CreateProfile(o, e)
       /\ profiles' = [profiles EXCEPT ![e] = @ + 1]
  /\ UNCHANGED <<lock, pc, status, runs, lapsed>>
BootstrapEntity(o) ==
  /\ pc[o] = "ingest"
  /\ \E e \in Entities \ made[o] : FindProfiles(e) = {} /\ CreateProfile(o, e)
  /\ UNCHANGED <<lock, pc, status, profiles, runs, lapsed>>

\* The one commit of bootstrap_profiles.
CommitBootstrap(o) ==
  /\ pc[o] = "ingest"
  /\ made[o] = Entities
  /\ profiles' = [e \in Entities |-> profiles[e] + 1]
  /\ made' = [made EXCEPT ![o] = {}]
  /\ Goto(o, "match")
  /\ UNCHANGED <<lock, status, runs>>

\* match_transactions selects no transaction.
Match(o) ==
  /\ pc[o] = "match"
  /\ Goto(o, "record")
  /\ UNCHANGED <<lock, made, status, profiles, runs>>

\* An exception inside the cycle: the session rolls back, _run_ingest_cycle logs
\* it and returns, so run_once never learns of it.
MutIngestFails(o) ==
  /\ Working(o)
  /\ Goto(o, "record")
  /\ UNCHANGED <<lock, made, status, profiles, runs>>
IngestFails(o) ==
  /\ Working(o)
  /\ made' = [made EXCEPT ![o] = {}]
  /\ Goto(o, "record")
  /\ UNCHANGED <<lock, status, profiles, runs>>

\* wait_for cancels the cycle, whose session rolls back.
Timeout(o) ==
  /\ Working(o)
  /\ o \in Timed
  /\ made' = [made EXCEPT ![o] = {}]
  /\ status' = [status EXCEPT ![o] = "timeout"]
  /\ Goto(o, "record")
  /\ UNCHANGED <<lock, profiles, runs>>

\* record_worker_run
RunRow(o) == [run |-> o, status |-> status[o]]

\* The finally block: the run is recorded in a session of its own, or that fails
\* and only a counter knows.
Record(o) ==
  /\ pc[o] = "record"
  /\ runs' \in {runs, runs \cup {RunRow(o)}}
  /\ Goto(o, "release")
  /\ UNCHANGED <<lock, made, status, profiles>>

\* GET: goes on to the DELETE only when the key is still its own.
ReadLock(o) ==
  /\ pc[o] = "release"
  /\ IF ReadsOwn(o) THEN Goto(o, "delete") ELSE Ends(o)
  /\ UNCHANGED <<lock, made, status, profiles, runs>>

DeleteLock(o) ==
  /\ pc[o] = "delete"
  /\ Delete
  /\ Ends(o)
  /\ UNCHANGED <<made, status, profiles, runs>>

\* Redis raises in _release_lock: the key stays until it expires.
ReleaseFails(o) ==
  /\ pc[o] \in {"release", "delete"}
  /\ o \in Connected
  /\ Ends(o)
  /\ UNCHANGED <<lock, made, status, profiles, runs>>

\* The process dies: nothing is recorded and nothing released.
Crash(o) ==
  /\ Running(o)
  /\ made' = [made EXCEPT ![o] = {}]
  /\ Ends(o)
  /\ UNCHANGED <<lock, status, profiles, runs>>

MutLockExpires ==
  /\ Expire(Alive)
  /\ lock \in Alive
  /\ lapsed' = TRUE
  /\ UNCHANGED <<pc, made, status, profiles, runs>>
LockExpires ==
  /\ Expire(Alive)
  /\ lapsed' = (lapsed \/ lock \in Alive)
  /\ UNCHANGED <<pc, made, status, profiles, runs>>

Step(o) ==
  \/ Start(o)
  \/ BootstrapEntity(o) \/ CommitBootstrap(o) \/ Match(o)
  \/ Record(o) \/ ReadLock(o) \/ DeleteLock(o)

Trouble(o) == Skip(o) \/ IngestFails(o) \/ Timeout(o) \/ ReleaseFails(o) \/ Crash(o)

Finished ==
  (\A o \in Owners : pc[o] = "done") /\ UNCHANGED vars

Next ==
  \/ \E o \in Owners : Step(o) \/ Trouble(o)
  \/ LockExpires
  \/ Finished

Spec == Init /\ [][Next]_vars

\* The event loops go on with their runs, and Redis drops an expired key.
FairSpec ==
  Spec /\ (\A o \in Owners : WF_vars(Step(o))) /\ WF_vars(LockExpires)

----------------------------------------------------------------------------
(***************************************************************************)
(* Types; and a run that has left its ingest cycle, by whichever way, has  *)
(* no uncommitted profile any more.                                        *)
(***************************************************************************)
TypeOK ==
  /\ lock \in Owners \cup {NULL}
  /\ pc \in [Owners -> {"new", "ingest", "match", "record", "release", "delete",
                        "done"}]
  /\ made \in [Owners -> SUBSET Entities]
  /\ status \in [Owners -> {"success", "timeout", "failed"}]
  /\ profiles \in [Entities -> Nat]
  /\ runs \subseteq [run: Owners, status: {"success", "timeout", "failed"}]
  /\ lapsed \in BOOLEAN
  /\ \A o \in Owners : pc[o] # "ingest" => made[o] = {}

(***************************************************************************)
(* "Redis distributed lock to ensure a single runner across instances"     *)
(* (profile_worker.py): two runs never overlap, from acquiring the lock to *)
(* the DELETE that gives it back.                                          *)
(***************************************************************************)
OneRunAtATime == \A o, q \in Alive : o = q

(***************************************************************************)
(* bootstrap_profiles is all or nothing: whenever a run is timed out,      *)
(* crashes or fails halfway, the entities of the batch have gained the     *)
(* same number of profiles.                                                *)
(***************************************************************************)
BootstrapAtomic == \A e, f \in Entities : profiles[e] = profiles[f]

(***************************************************************************)
(* A dead or disconnected owner does not keep the others out for ever: the *)
(* key is always free again later.                                         *)
(***************************************************************************)
LockComesFree == []<>LockFree

\* The lock, seen through the runs that it guards.
Single == INSTANCE SingleRunner WITH running <- Guarded

(***************************************************************************)
(* run_once implements what a lock with a lease can promise: runs that     *)
(* take it exclude each other, through crashes, refusals and failed        *)
(* releases, unless a lease has run out under one of them.  After that,    *)
(* the DELETE that follows a late GET can take the key of another run, so  *)
(* that even two runs well within their leases overlap; and all is well    *)
(* again once every run has ended.                                         *)
(***************************************************************************)
ImplementsSingleRunner == Single!Spec
=============================================================================
