----------------------------- MODULE RedisLock -----------------------------
(***************************************************************************)
(* The lock both workers take around a run: _acquire_lock and              *)
(* _release_lock of app/tasks/profile_worker.py and                        *)
(* app/tasks/dlq_retry_worker.py, on one Redis key with a time to live.    *)
(*                                                                         *)
(* Each module binds `redis_client` when it is imported.  In a process     *)
(* that never calls connect_redis, or calls it later, the name stays None: *)
(* such an owner is not in Connected, is always granted the lock and never *)
(* touches the key.  No process that runs DLQ batches is connected, which  *)
(* is why DlqRetryWorker has no lock.                                      *)
(***************************************************************************)
CONSTANTS
  Owners,       \* owner ids (a uuid per run)
  Connected,    \* the owners whose process has a Redis client
  Outlasting,   \* the owners that may go on after the time to live is over
  NULL

ASSUME LockAssumption ==
  /\ Connected \subseteq Owners
  /\ Outlasting \subseteq Owners
  /\ NULL \notin Owners

VARIABLE lock   \* the value of the key, NULL when there is none

LockFree == lock = NULL

\* _acquire_lock returns True: SET NX EX succeeded, or there is no client.
MutAcquire(o) == lock' = IF o \in Connected THEN o ELSE lock
Acquire(o) ==
  \/ o \notin Connected /\ UNCHANGED lock
  \/ o \in Connected /\ lock = NULL /\ lock' = o

\* _acquire_lock returns False: the key exists, or Redis raised, before or after
\* it had set the key.
Refused(o) ==
  /\ o \in Connected
  /\ lock' \in IF lock = NULL THEN {NULL, o} ELSE {lock}

\* _release_lock, first command: GET tells whether the key is still the owner's.
ReadsOwn(o) == o \in Connected /\ lock = o

\* _release_lock, second command: DELETE, whoever owns the key by now.
Delete == lock' = NULL

\* The time to live is over.  TTLs are chosen so that no live run outlasts its
\* own, those in Outlasting excepted.
Expire(alive) ==
  /\ lock # NULL
  /\ lock \in alive => lock \in Outlasting
  /\ lock' = NULL
=============================================================================
