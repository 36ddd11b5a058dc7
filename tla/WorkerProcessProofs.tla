------------------------ MODULE WorkerProcessProofs ------------------------
(***************************************************************************)
(* The fleet of worker processes for any number of processes and restarts: *)
(* its types, and that a process which exits by itself leaves no key       *)
(* behind, whichever of them have a Redis client.                          *)
(***************************************************************************)
EXTENDS WorkerProcess, TLAPS

(***************************************************************************)
(* Type correctness, and a restarted process begins afresh: every way to   *)
(* end clears the process's memory.                                        *)
(***************************************************************************)
THEOREM FleetTypesHold == Spec => []TypeOK
<1>1. Init => TypeOK
  BY LaunchAssumption DEF Init, TypeOK, MainStates, LoopStates
<1>2. TypeOK /\ [Next]_vars => TypeOK'
  <2> SUFFICES ASSUME TypeOK, [Next]_vars PROVE TypeOK'
    OBVIOUS
  <2> USE LaunchAssumption
      DEF TypeOK, MainStates, LoopStates, MainGoto, LoopGoto, Gone, AfterRun
  <2>1. ASSUME NEW w \in Owners, Launch(w) PROVE TypeOK'
    BY <2>1 DEF Launch
  <2>2. ASSUME NEW w \in Owners, Arm(w) \/ RunOnce(w) PROVE TypeOK'
    BY <2>2 DEF Arm, RunOnce
  <2>3. ASSUME NEW w \in Owners, Signal(w) \/ Wait(w) PROVE TypeOK'
    BY <2>3 DEF Signal, Wait
  <2>4. ASSUME NEW w \in Owners, StopWorker(w) PROVE TypeOK'
    BY <2>4 DEF StopWorker
  <2>5. ASSUME NEW w \in Owners, Exit(w) PROVE TypeOK'
    BY <2>5 DEF Exit
  <2>6. ASSUME NEW w \in Owners, Kill(w) PROVE TypeOK'
    BY <2>6 DEF Kill
  <2>7. ASSUME NEW w \in Owners, LoopBegins(w) PROVE TypeOK'
    BY <2>7 DEF LoopBegins, Suspended
  <2>8. ASSUME NEW w \in Owners, GetLock(w) PROVE TypeOK'
    BY <2>8 DEF GetLock, Acquire
  <2>9. ASSUME NEW w \in Owners, Skip(w) PROVE TypeOK'
    BY <2>9 DEF Skip, Refused
  <2>10. ASSUME NEW w \in Owners, RunEnds(w) \/ ReadLock(w) PROVE TypeOK'
    BY <2>10 DEF RunEnds, ReadLock
  <2>11. ASSUME NEW w \in Owners, DeleteLock(w) PROVE TypeOK'
    BY <2>11 DEF DeleteLock, Delete
  <2>12. ASSUME NEW w \in Owners, ReleaseFails(w) \/ SleepOver(w) PROVE TypeOK'
    BY <2>12 DEF ReleaseFails, SleepOver
  <2>13. CASE KeyExpires
    BY <2>13 DEF KeyExpires, Expire
  <2>14. CASE UNCHANGED vars
    BY <2>14 DEF vars
  <2> QED
    BY <2>1, <2>2, <2>3, <2>4, <2>5, <2>6, <2>7, <2>8, <2>9, <2>10, <2>11,
       <2>12, <2>13, <2>14
    DEF Next, MainStep, LoopStep, Outside, AllDown
<1> QED
  BY <1>1, <1>2, PTL DEF Spec

----------------------------------------------------------------------------
\* Only a process with a client ever writes the key.
KeyOfConnected == lock \in Connected \cup {NULL}

(***************************************************************************)
(* A key is the key of a run that is past the lock, or was left by a kill  *)
(* or by Redis: no step of a process that runs to its end leaves one.      *)
(* Inductive together with KeyOfConnected: the owner that skips the DELETE *)
(* because it has no client never had a key.                               *)
(***************************************************************************)
THEOREM ExitLeavesNoKey == Spec => []KeyIsAccountedFor
<1> DEFINE IInv == KeyOfConnected /\ KeyIsAccountedFor
<1>1. Init => IInv
  BY DEF Init, KeyOfConnected, KeyIsAccountedFor
<1>2. TypeOK /\ IInv /\ [Next]_vars => IInv'
  <2> SUFFICES ASSUME TypeOK, IInv, [Next]_vars PROVE IInv'
    OBVIOUS
  <2> USE LockAssumption
      DEF TypeOK, KeyOfConnected, KeyIsAccountedFor, Holders, Locked, MainGoto,
          LoopGoto, Gone, AfterRun
  <2>1. ASSUME NEW w \in Owners, MainStep(w) PROVE IInv'
    BY <2>1 DEF MainStep, Arm, Wait, StopWorker, Exit
  <2>2. ASSUME NEW w \in Owners, Launch(w) \/ RunOnce(w) \/ Signal(w) PROVE IInv'
    BY <2>2 DEF Launch, RunOnce, Signal
  <2>3. ASSUME NEW w \in Owners, Kill(w) PROVE IInv'
    BY <2>3 DEF Kill
  <2>4. ASSUME NEW w \in Owners, LoopBegins(w) \/ RunEnds(w) \/ SleepOver(w)
        PROVE IInv'
    BY <2>4 DEF LoopBegins, RunEnds, SleepOver
  <2>5. ASSUME NEW w \in Owners, GetLock(w) PROVE IInv'
    BY <2>5 DEF GetLock, Acquire
  <2>6. ASSUME NEW w \in Owners, Skip(w) PROVE IInv'
    BY <2>6 DEF Skip, Refused
  <2>7. ASSUME NEW w \in Owners, ReadLock(w) PROVE IInv'
    BY <2>7 DEF ReadLock, ReadsOwn
  <2>8. ASSUME NEW w \in Owners, DeleteLock(w) PROVE IInv'
    BY <2>8 DEF DeleteLock, Delete
  <2>9. ASSUME NEW w \in Owners, ReleaseFails(w) PROVE IInv'
    BY <2>9 DEF ReleaseFails
  <2>10. CASE KeyExpires
    BY <2>10 DEF KeyExpires, Expire
  <2>11. CASE UNCHANGED vars
    BY <2>11 DEF vars
  <2> QED
    BY <2>1, <2>2, <2>3, <2>4, <2>5, <2>6, <2>7, <2>8, <2>9, <2>10, <2>11
    DEF Next, LoopStep, Outside, AllDown
<1> QED
  BY <1>1, <1>2, FleetTypesHold, PTL DEF Spec
=============================================================================
