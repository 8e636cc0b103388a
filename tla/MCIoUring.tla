----------------------------- MODULE MCIoUring -----------------------------
(* A group of two sub-reads that outlast Submit and one of a single        *)
(* sub-read that need not.                                                 *)
EXTENDS IoUring

MCSubreads == [g \in {"g0", "g1"} |-> IF g = "g0" THEN 2 ELSE 1]
=============================================================================
