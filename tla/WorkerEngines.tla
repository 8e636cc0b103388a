--------------------------- MODULE WorkerEngines ---------------------------
(***************************************************************************)
(* The two ways in which WeightChunkPrefetcher reads a group, of which one *)
(* is chosen before the worker starts.  StartWorker dispatches on          *)
(* io_engine_type_: either the two threads of IoUring run, or the single   *)
(* worker whose reads are those of ParallelPread.                          *)
(***************************************************************************)
EXTENDS IoUring, ParallelPread

VARIABLE engine   (* io_engine_type_                                       *)

enginesVars == <<engine, uringVars, preadVars>>

EnginesInit == engine = "NONE" /\ UringInit /\ PreadInit

(* main configures the engine once, before the plan is loaded.             *)
ConfigureIOEngine(mode) ==
  /\ engine = "NONE"
  /\ engine' = mode
  /\ UNCHANGED <<uringVars, preadVars>>

StartIoUringWorker ==
  /\ engine = "io_uring" /\ UringNext
  /\ UNCHANGED <<engine, preadVars>>

StartParallelPreadWorker ==
  /\ engine = "parallel_pread" /\ PreadNext
  /\ UNCHANGED <<engine, uringVars>>

EnginesNext ==
  \/ \E mode \in {"io_uring", "parallel_pread"} : ConfigureIOEngine(mode)
  \/ StartIoUringWorker
  \/ StartParallelPreadWorker

(* The threads of the engine and the kernel go on, the client need not.    *)
EnginesSpec ==
  /\ EnginesInit
  /\ [][EnginesNext]_enginesVars
  /\ WF_uringVars(ClientStep) /\ WF_uringVars(SubmissionStep)
  /\ WF_uringVars(CompletionStep) /\ WF_uringVars(KernelStep)

-----------------------------------------------------------------------------

(* Both engines' state has its types, whichever runs.                      *)
EnginesTypeOK ==
  /\ engine \in {"NONE", "io_uring", "parallel_pread"}
  /\ UringTypeOK
  /\ PreadTypeOK
=============================================================================
