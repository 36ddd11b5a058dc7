-------------------------- MODULE MCWorkerProcess --------------------------
(***************************************************************************)
(* Two processes of one kind, each started at most three times: w2         *)
(* without a Redis client, as the entry point starts them, w1 with one.    *)
(***************************************************************************)
EXTENDS WorkerProcess

CONSTANTS w1, w2
=============================================================================
