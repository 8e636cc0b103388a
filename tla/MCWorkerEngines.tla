-------------------------- MODULE MCWorkerEngines --------------------------
(* io_uring with the groups of MCIoUring; parallel_pread with sectors of   *)
(* 3, sizes below two minimal blocks, sizes that give two and three        *)
(* blocks, with and without rounding, and sizes whose rounded blocks leave *)
(* the last one short or empty.                                            *)
EXTENDS WorkerEngines, MCIoUring

MCSizes == {3 * k : k \in 0 .. 13}
=============================================================================
