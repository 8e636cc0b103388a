------------------------- MODULE ProfiledGeneration -------------------------
(***************************************************************************)
(* A generation under the phase profiler.  ScopeEventHandler fires a probe *)
(* when a scope is entered and when it is left, so these steps of the      *)
(* generation are steps of the profiler too; threads read, and the         *)
(* collector works, at any time.  A failed check exits without leaving the *)
(* scope it is in, and the gate stays open.                                *)
(***************************************************************************)
EXTENDS GenerationLoop, PhaseProfiler

allVars == <<genVars, profVars>>

ProfiledInit == GenerationInit /\ ProfilerInit

InScope == pc \in {"setUp", "prefill", "prefilled", "decode", "sampled"}

EnterScope == ScopeEntered /\ \E c \in Cpus : trace_phase_start(c)

LeaveScope == ScopeLeft /\ \E c \in Cpus : trace_phase_end(c)

RunProgram == OtherStep /\ UNCHANGED profVars

RunThreads == ~Ended /\ ThreadStep /\ UNCHANGED genVars

Collect == CollectorStep /\ UNCHANGED genVars

Finished == Ended /\ UNCHANGED allVars

ProfiledNext ==
  EnterScope \/ LeaveScope \/ RunProgram \/ RunThreads \/ Collect \/ Finished

ProfiledSpec == ProfiledInit /\ [][ProfiledNext]_allVars

-----------------------------------------------------------------------------

(* The gate is open just within a scope, unless the program exits in it.   *)
ProfiledTypeOK ==
  /\ GenerationTypeOK
  /\ ProfilerTypeOK
  /\ pc # "aborted" => (gate <=> InScope)
=============================================================================
