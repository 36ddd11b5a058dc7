-------------------------- MODULE MCDlqRetryWorker --------------------------
(***************************************************************************)
(* Worker processes and the rows they retry, of which the oldest may fail  *)
(* (Flaky) until it is given up.                                           *)
(***************************************************************************)
EXTENDS DlqRetryWorker

CONSTANTS w1, w2
=============================================================================
