---------------------------- MODULE SingleRunner ----------------------------
(***************************************************************************)
(* "Redis distributed lock to ensure a single runner across instances"     *)
(* (app/tasks/profile_worker.py), as far as a lease can ensure it: runs    *)
(* begin and end, one at a time, unless a lease has lapsed under one of    *)
(* them since they last had all ended.                                     *)
(***************************************************************************)
CONSTANTS
  Owners,
  Outlasting   \* the owners that may outlast their lease

VARIABLES
  running,   \* the owners that are running
  lapsed     \* a lease has lapsed

Init == running = {} /\ lapsed = FALSE

Begin(o) ==
  /\ running = {} \/ (lapsed /\ o \notin running)
  /\ running' = running \cup {o}
  /\ UNCHANGED lapsed

End(o) ==
  /\ o \in running
  /\ running' = running \ {o}
  /\ lapsed' = (lapsed /\ running' # {})

Lapse ==
  /\ running \cap Outlasting # {}
  /\ lapsed' = TRUE
  /\ UNCHANGED running

Next == (\E o \in Owners : Begin(o) \/ End(o)) \/ Lapse

Spec == Init /\ [][Next]_<<running, lapsed>>
=============================================================================
