------------------------ MODULE MCNbRestExecutorPool ------------------------
(* The pool with four callers and three executors: every caller can be     *)
(* refused, and the stack can hold any permutation of the executors.       *)
EXTENDS NbRestExecutorPool

CONSTANTS t1, t2, t3, t4

MCThreads == {t1, t2, t3, t4}
MCHttpConnectionMax == 3
=============================================================================
