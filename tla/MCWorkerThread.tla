--------------------------- MODULE MCWorkerThread ---------------------------
(* Instances of WorkerThread for TLC. *)
EXTENDS WorkerThread

AllFaults == {"alloc", "send", "card", "disk"}
=============================================================================
