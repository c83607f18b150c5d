----------------------------- MODULE MCWorkerPool -----------------------------
(* Instances of WorkerPool for TLC: configurations differ in worker_concurrency and *)
(* in the fields the pool does not use.                                             *)
EXTENDS WorkerPool, TLC

Config(n, other) == [worker_concurrency |-> n, other |-> other]

MCAnyField == {Config(1, "a"), Config(2, "a"), Config(2, "b")}
MCThreeSizes == {Config(1, "a"), Config(2, "a"), Config(3, "a")}

=============================================================================
