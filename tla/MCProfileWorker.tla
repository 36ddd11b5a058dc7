-------------------------- MODULE MCProfileWorker --------------------------
(***************************************************************************)
(* Runs of the profile worker on two entities: three triggered in the API  *)
(* process, one of which outlasts its lease, and one of a worker process.  *)
(***************************************************************************)
EXTENDS ProfileWorker

CONSTANTS o1, o2, o3, o4, e1, e2
=============================================================================
