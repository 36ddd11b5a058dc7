--------------------------- MODULE WorkerProcess ---------------------------
(***************************************************************************)
(* The worker processes around the runs: app/tasks/worker_entrypoint.py    *)
(* (main, run_profile_worker, run_dlq_worker) with start_worker,           *)
(* _worker_loop and stop_worker of the two workers.  A process has one     *)
(* thread: the main coroutine, which installs the SIGTERM/SIGINT handler,  *)
(* starts the loop task and waits, and the loop task, which advances only  *)
(* while main is suspended.  The entry point never calls connect_redis, so *)
(* its processes are not in Connected: they take no key and wait for none. *)
(* What a process with a client would do is kept as a parameter.  What     *)
(* happens inside a run is the matter of ProfileWorker and DlqRetryWorker. *)
(***************************************************************************)
EXTENDS Naturals, RedisLock

CONSTANTS
  MaxLaunches    \* bound: starts of one process by its supervisor

ASSUME LaunchAssumption == MaxLaunches \in Nat

VARIABLES
  main,       \* main[w]: where the main coroutine of process w is
  loop,       \* loop[w]: where its loop task, or its only run, is
  event,      \* event[w]: the module's _stop_event
  asked,      \* the processes whose handler has run: the local stop_event is set
  launches,   \* launches[w]: how often w has been started
  orphans     \* the owners whose key was left behind by a kill or by Redis

vars == <<lock, main, loop, event, asked, launches, orphans>>

MainStates == {"down", "booting", "armed", "waiting", "awaiting", "once"}
LoopStates == {"none", "created", "asking", "run", "release", "delete",
               "sleep", "done"}

Locked(w) == loop[w] \in {"run", "release", "delete"}
Holders == {w \in Owners : Locked(w)}

\* The loop has begun and nobody has asked it to stop.
Looping(w) == event[w] = "clear" /\ w \notin asked

Init ==
  /\ lock = NULL
  /\ main = [w \in Owners |-> "down"]
  /\ loop = [w \in Owners |-> "none"]
  /\ event = [w \in Owners |-> "none"]
  /\ asked = {}
  /\ launches = [w \in Owners |-> 0]
  /\ orphans = {}

MainGoto(w, p) == main' = [main EXCEPT ![w] = p]
LoopGoto(w, p) == loop' = [loop EXCEPT ![w] = p]

----------------------------------------------------------------------------
\* The supervisor starts the process (Restart=always).
Launch(w) ==
  /\ main[w] = "down"
  /\ launches[w] < MaxLaunches
  /\ launches' = [launches EXCEPT ![w] = @ + 1]
  /\ MainGoto(w, "booting")
  /\ UNCHANGED <<lock, loop, event, asked, orphans>>

\* The handler is installed and start_worker creates the task, in one go.
Arm(w) ==
  /\ main[w] = "booting"
  /\ MainGoto(w, "armed")
  /\ LoopGoto(w, "created")
  /\ UNCHANGED <<lock, event, asked, launches, orphans>>

\* `--once` of the profile worker: one run, no handler, no loop.  (That of the DLQ
\* worker does not ask for the lock.)
RunOnce(w) ==
  /\ main[w] = "booting"
  /\ MainGoto(w, "once")
  /\ LoopGoto(w, "asking")
  /\ UNCHANGED <<lock, event, asked, launches, orphans>>

\* A signal runs the handler; the local stop_event stays set.
Signal(w) ==
  /\ main[w] \in {"armed", "waiting", "awaiting"}
  /\ asked' = asked \cup {w}
  /\ UNCHANGED <<lock, main, loop, event, launches, orphans>>

\* `await stop_event.wait()` suspends main unless the event is already set.
Wait(w) ==
  /\ main[w] = "armed"
  /\ w \notin asked
  /\ MainGoto(w, "waiting")
  /\ UNCHANGED <<lock, loop, event, asked, launches, orphans>>

\* stop_worker: sets the module's event if there is one, then awaits the task.
\* Main comes here without a pause when the signal was early; woken from its wait
\* it comes after the first step of the loop task, which was ready before it.
MutStopWorker(w) ==
  /\ main[w] = "armed" \/ (main[w] = "waiting" /\ loop[w] # "created")
  /\ w \in asked
  /\ UNCHANGED event
  /\ MainGoto(w, "awaiting")
  /\ UNCHANGED <<lock, loop, asked, launches, orphans>>
StopWorker(w) ==
  /\ main[w] = "armed" \/ (main[w] = "waiting" /\ loop[w] # "created")
  /\ w \in asked
  /\ event' = [event EXCEPT ![w] = IF @ = "none" THEN @ ELSE "set"]
  /\ MainGoto(w, "awaiting")
  /\ UNCHANGED <<lock, loop, asked, launches, orphans>>

\* What is left of a process that has ended: its key, if it still has one.
Gone(w) ==
  /\ MainGoto(w, "down")
  /\ LoopGoto(w, "none")
  /\ event' = [event EXCEPT ![w] = "none"]
  /\ asked' = asked \ {w}
  /\ UNCHANGED <<lock, launches>>

\* The awaited task, or the only run, is over and main returns.
Exit(w) ==
  /\ main[w] \in {"awaiting", "once"}
  /\ loop[w] = "done"
  /\ Gone(w)
  /\ UNCHANGED orphans

\* SIGKILL, an OOM kill, or a signal that meets no handler.
MutKill(w) ==
  /\ main[w] # "down"
  /\ MainGoto(w, "down")
  /\ LoopGoto(w, "none")
  /\ orphans' = IF lock = w THEN orphans \cup {w} ELSE orphans
  /\ UNCHANGED <<lock, event, asked, launches>>
Kill(w) ==
  /\ main[w] # "down"
  /\ Gone(w)
  /\ orphans' = IF lock = w THEN orphans \cup {w} ELSE orphans

----------------------------------------------------------------------------
Suspended(w) == main[w] \in {"waiting", "awaiting", "once"}

\* What follows a run, or an attempt that was refused.
AfterRun(w) == LoopGoto(w, IF main[w] = "once" THEN "done" ELSE "sleep")

\* The first step of _worker_loop makes a new _stop_event and finds it clear.
LoopBegins(w) ==
  /\ loop[w] = "created"
  /\ Suspended(w)
  /\ event' = [event EXCEPT ![w] = "clear"]
  /\ LoopGoto(w, "asking")
  /\ UNCHANGED <<lock, main, asked, launches, orphans>>

GetLock(w) ==
  /\ loop[w] = "asking"
  /\ Acquire(w)
  /\ LoopGoto(w, "run")
  /\ UNCHANGED <<main, event, asked, launches, orphans>>

\* The key is taken or Redis raised, possibly after it had set the key.
Skip(w) ==
  /\ loop[w] = "asking"
  /\ Refused(w)
  /\ orphans' = IF lock' # lock THEN orphans \cup {w} ELSE orphans
  /\ AfterRun(w)
  /\ UNCHANGED <<main, event, asked, launches>>

MutRunEnds(w) ==
  /\ loop[w] = "run"
  /\ AfterRun(w)
  /\ UNCHANGED <<lock, main, event, asked, launches, orphans>>
RunEnds(w) ==
  /\ loop[w] = "run"
  /\ LoopGoto(w, "release")
  /\ UNCHANGED <<lock, main, event, asked, launches, orphans>>

ReadLock(w) ==
  /\ loop[w] = "release"
  /\ IF ReadsOwn(w) THEN LoopGoto(w, "delete") ELSE AfterRun(w)
  /\ UNCHANGED <<lock, main, event, asked, launches, orphans>>

DeleteLock(w) ==
  /\ loop[w] = "delete"
  /\ Delete
  /\ AfterRun(w)
  /\ UNCHANGED <<main, event, asked, launches, orphans>>

\* Redis raises in _release_lock.
ReleaseFails(w) ==
  /\ loop[w] \in {"release", "delete"}
  /\ w \in Connected
  /\ orphans' = orphans \cup {w}
  /\ AfterRun(w)
  /\ UNCHANGED <<lock, main, event, asked, launches>>

\* wait_for(_stop_event.wait(), interval) returns or times out; either way the
\* loop looks at the event next.
MutSleepOver(w) ==
  /\ loop[w] = "sleep"
  /\ LoopGoto(w, "asking")
  /\ UNCHANGED <<lock, main, event, asked, launches, orphans>>
SleepOver(w) ==
  /\ loop[w] = "sleep"
  /\ LoopGoto(w, IF event[w] = "set" THEN "done" ELSE "asking")
  /\ UNCHANGED <<lock, main, event, asked, launches, orphans>>

MutKeyExpires ==
  /\ Expire(Holders)
  /\ orphans = {}
  /\ UNCHANGED <<main, loop, event, asked, launches, orphans>>
KeyExpires ==
  /\ Expire(Holders)
  /\ orphans' = orphans \ {lock}
  /\ UNCHANGED <<main, loop, event, asked, launches>>

----------------------------------------------------------------------------
MainStep(w) == Arm(w) \/ Wait(w) \/ StopWorker(w) \/ Exit(w)
LoopStep(w) ==
  \/ LoopBegins(w) \/ GetLock(w) \/ Skip(w) \/ RunEnds(w) \/ ReadLock(w)
  \/ DeleteLock(w) \/ ReleaseFails(w) \/ SleepOver(w)
Outside(w) == Launch(w) \/ RunOnce(w) \/ Signal(w) \/ Kill(w)

AllDown == (\A w \in Owners : main[w] = "down") /\ UNCHANGED vars

Next ==
  \/ \E w \in Owners : MainStep(w) \/ LoopStep(w) \/ Outside(w)
  \/ KeyExpires
  \/ AllDown

Spec == Init /\ [][Next]_vars

\* The event loop of a process runs what is ready, a run ends, Redis drops an
\* expired key and does not refuse a free one for ever.  Nothing is assumed of
\* signals, kills and restarts.
Fairness ==
  /\ \A w \in Owners : WF_vars(MainStep(w)) /\ WF_vars(LoopStep(w))
  /\ \A w \in Owners : SF_vars(GetLock(w))
  /\ WF_vars(KeyExpires)

FairSpec == Spec /\ Fairness

----------------------------------------------------------------------------
(***************************************************************************)
(* Types; and a process that is down or booting has nothing in memory, so  *)
(* that a restarted one begins afresh.                                     *)
(***************************************************************************)
TypeOK ==
  /\ lock \in Owners \cup {NULL}
  /\ main \in [Owners -> MainStates]
  /\ loop \in [Owners -> LoopStates]
  /\ event \in [Owners -> {"none", "clear", "set"}]
  /\ asked \subseteq Owners
  /\ launches \in [Owners -> 0..MaxLaunches]
  /\ orphans \subseteq Owners
  /\ \A w \in Owners : main[w] \in {"down", "booting"} =>
       loop[w] = "none" /\ event[w] = "none" /\ w \notin asked

(***************************************************************************)
(* A process that exits by itself, on a signal or after `--once`, leaves   *)
(* no key behind for the others to wait for: only a kill or a failing      *)
(* Redis does.                                                             *)
(***************************************************************************)
KeyIsAccountedFor ==
  lock # NULL => lock \in Holders \cup orphans

(***************************************************************************)
(* A signal that finds main waiting ends the process, whatever the loop is *)
(* doing and whoever holds the lock: stop_worker reaches the loop's own    *)
(* event, and the loop looks at it after every run and every sleep.        *)
(***************************************************************************)
StopEndsLoop ==
  \A w \in Owners : w \in asked /\ main[w] = "waiting" ~> main[w] = "down"

(***************************************************************************)
(* Work goes on: as long as some loop is up and not asked to stop, some    *)
(* process gets the lock again, in spite of keys left by killed processes. *)
(***************************************************************************)
WorkGoesOn ==
  (\E w \in Owners : Looping(w))
    ~> (Holders # {} \/ \A w \in Owners : ~Looping(w))

(***************************************************************************)
(* "safe shutdown" (profile_worker.py): a process whose handler has run    *)
(* ends.                                                                   *)
(***************************************************************************)
SignalEndsProcess == \A w \in Owners : w \in asked ~> main[w] = "down"
=============================================================================
