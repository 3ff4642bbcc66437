----------------------------- MODULE MCWorkerPool -----------------------------
EXTENDS WorkerPool

(* Unsorted on purpose, so that the final sort has work to do.             *)
FourPaths == <<4, 2, 3, 1>>

===============================================================================
