--------------------------- MODULE MCWorkerLoop ---------------------------
(* Instance of WorkerLoop for TLC. *)
EXTENDS WorkerLoop
=============================================================================
