--------------------------- MODULE MmapInference ---------------------------
(***************************************************************************)
(* What weight streaming must not be told apart from: inference with the   *)
(* whole weight cache file mapped (ProviderMode::DEBUG_MMAP).  One prefill *)
(* invocation, then decode invocations up to the limit or a stop token;    *)
(* every operator sees its own weights as they are in the file.            *)
(***************************************************************************)
EXTENDS PrefetchPlan

CONSTANT DecodeSteps   (* decode_steps of the generation loop              *)

ASSUME DecodeStepsAssumption == DecodeSteps \in Nat \ {0}

VARIABLES
  generating,   (* FALSE once the loop has ended                           *)
  mode,         (* prefetch_mode_                                          *)
  step,         (* decode invocations finished                             *)
  pos,          (* the operator to run, a position in ModeChunks           *)
  weights       (* what the operator that ran last saw, sector by sector   *)

mmapVars == <<generating, mode, step, pos, weights>>

chunk == ModeChunks[mode][pos]

(* The sectors of a chunk in the file; a sector is named by its position.  *)
FileWeights(c) == [k \in 1 .. ChunkLen[c] |-> ChunkAt[c] + k - 1]

MmapInit ==
  /\ generating = TRUE
  /\ mode = "PREFILL"
  /\ step = 0
  /\ pos = 1
  /\ weights = <<>>

(* The next operator of the invocation.                                    *)
NextOperator ==
  /\ pos < Len(ModeChunks[mode])
  /\ pos' = pos + 1
  /\ UNCHANGED <<generating, mode, step>>

(* UpdatePrefetcherMode(DECODE), then the first decode invocation.         *)
EnterDecode ==
  /\ pos = Len(ModeChunks[mode]) /\ mode = "PREFILL"
  /\ mode' = "DECODE"
  /\ pos' = 1
  /\ UNCHANGED <<generating, step>>

NextToken ==
  /\ pos = Len(ModeChunks[mode]) /\ mode = "DECODE" /\ step + 1 < DecodeSteps
  /\ step' = step + 1
  /\ pos' = 1
  /\ UNCHANGED <<generating, mode>>

(* The limit is reached, or the sampled token is the stop token.           *)
EndGeneration ==
  /\ pos = Len(ModeChunks[mode]) /\ mode = "DECODE"
  /\ generating' = FALSE
  /\ UNCHANGED <<mode, step, pos>>

Advance == NextOperator \/ EnterDecode \/ NextToken \/ EndGeneration

MmapOperator ==
  /\ generating
  /\ weights' = FileWeights(chunk)
  /\ Advance

MmapSpec == MmapInit /\ [][MmapOperator]_mmapVars
=============================================================================
