--------------------------- MODULE ChunkRecording ---------------------------
(***************************************************************************)
(* The warm-up of cmt_generator: every weight the delegate asks for, or an *)
(* operator is about to use, is given the next chunk_index once, and each  *)
(* use in a mode's single invocation is written to the metadata table.     *)
(*                                                                         *)
(* The model uses its weights in one order; PREFILL stops before the end   *)
(* of it (its last layer computes no logits), DECODE uses all of them, as  *)
(* in the table kept in tools/model_prefetch_planner.                      *)
(***************************************************************************)
EXTENDS BufferSlots, Sequences

CONSTANTS
  Models,       (* the models that may be recorded                         *)
  BaseOffset    (* GetMMapBaseOffset                                       *)

Modes == {"PREFILL", "DECODE"}

(* Offset and size of a weight in the weight cache; no two share an offset. *)
Weight == [at : Nat, len : Nat \ {0}]
Model == {m \in [weights : Seq(Weight), prefill : Nat] :
            /\ m.prefill <= Len(m.weights)
            /\ \A i, j \in 1 .. Len(m.weights) : m.weights[i].at = m.weights[j].at => i = j}

ASSUME RecordingAssumption == Models \subseteq Model /\ BaseOffset \in Nat /\ Alignment # 0

VARIABLES
  model,        (* the model at hand                                       *)
  record,       (* offset_to_chunk_info_                                   *)
  recordIndex,  (* record_chunk_index_                                     *)
  written,      (* the chunks written so far, per mode                     *)
  bufferSize,   (* weight_chunk_buffer_size_ of the writer                 *)
  lastSize,     (* last_chunk_aligned_size_                                *)
  mode,         (* the prefetcher's mode                                   *)
  next,         (* the weight that mode uses next                          *)
  stage         (* how far cmt_generator is                                *)

recordVars == <<model, record, recordIndex, written, bufferSize, lastSize, mode, next, stage>>

NoModel == [weights |-> <<>>, prefill |-> 0]
Uses(m) == IF m = "PREFILL" THEN model.prefill ELSE Len(model.weights)
Larger(a, b) == IF a >= b THEN a ELSE b

(* aligned_offset of the chunk at an offset, and its aligned_size.         *)
SectorOf(at) == ((BaseOffset + at) \div Alignment) * Alignment
AlignedSize(w) == AlignTo(w.len + (BaseOffset + w.at - SectorOf(w.at)))

ChunkFor(w, number) == [index |-> number, at |-> w.at, len |-> w.len, size |-> AlignedSize(w)]

RecordingInit ==
  /\ model = NoModel
  /\ record = << >> /\ recordIndex = 0
  /\ written = [m \in Modes |-> <<>>]
  /\ bufferSize = 0 /\ lastSize = [m \in Modes |-> 0]
  /\ mode = "PREFILL" /\ next = 1
  /\ stage = "idle"

StartWarmUp(m) ==
  /\ stage = "idle"
  /\ model' = m
  /\ stage' = "prepare"
  /\ UNCHANGED <<record, recordIndex, written, bufferSize, lastSize, mode, next>>

(* Mutant: a weight that is known already takes another number.            *)
RecordEveryAccess(w) ==
  /\ record' = [a \in DOMAIN record \cup {w.at} |->
                  IF a \in DOMAIN record THEN record[a] ELSE ChunkFor(w, recordIndex)]
  /\ recordIndex' = recordIndex + 1

RecordChunkAccess(w) ==
  IF w.at \in DOMAIN record
  THEN UNCHANGED <<record, recordIndex>>
  ELSE /\ record' = [a \in DOMAIN record \cup {w.at} |->
                       IF a = w.at THEN ChunkFor(w, recordIndex) ELSE record[a]]
       /\ recordIndex' = recordIndex + 1

(* The delegate asks for the address of a weight of the runner at hand.    *)
OffsetToAddr ==
  /\ stage = "prepare"
  /\ next <= Uses(mode)
  /\ RecordChunkAccess(model.weights[next])
  /\ next' = next + 1
  /\ UNCHANGED <<model, written, bufferSize, lastSize, mode, stage>>

(* GetDecodeRunner follows GetPrefillRunner.                               *)
PrepareDecode ==
  /\ stage = "prepare" /\ mode = "PREFILL" /\ next > Uses(mode)
  /\ mode' = "DECODE" /\ next' = 1
  /\ UNCHANGED <<model, record, recordIndex, written, bufferSize, lastSize, stage>>

(* Whether the delegate asks before the weights are used is its affair, so *)
(* the invocations may begin with any number of them recorded.             *)
InvokePrefillRunner ==
  /\ stage = "prepare"
  /\ mode' = "PREFILL" /\ next' = 1
  /\ stage' = "invoke"
  /\ UNCHANGED <<model, record, recordIndex, written, bufferSize, lastSize>>

(* Mutant: a pair of consecutive chunks is not looked at.                  *)
WriteSingle(chunk) ==
  /\ written' = [written EXCEPT ![mode] = Append(@, chunk)]
  /\ bufferSize' = Larger(bufferSize, chunk.size)
  /\ lastSize' = [lastSize EXCEPT ![mode] = chunk.size]

(* The buffer must hold each chunk beside the one before it in its mode.   *)
WriteChunkInfo(chunk) ==
  /\ written' = [written EXCEPT ![mode] = Append(@, chunk)]
  /\ bufferSize' = Larger(bufferSize,
                          IF lastSize[mode] > 0 THEN lastSize[mode] + chunk.size ELSE chunk.size)
  /\ lastSize' = [lastSize EXCEPT ![mode] = chunk.size]

(* HandlePreRunWarmUpPreInvoke                                             *)
PreInvoke ==
  /\ stage = "invoke"
  /\ next <= Uses(mode)
  /\ LET w == model.weights[next] IN
       /\ RecordChunkAccess(w)
       /\ WriteChunkInfo(record'[w.at])
  /\ next' = next + 1
  /\ UNCHANGED <<model, mode, stage>>

InvokeDecodeRunner ==
  /\ stage = "invoke" /\ mode = "PREFILL" /\ next > Uses(mode)
  /\ mode' = "DECODE" /\ next' = 1
  /\ UNCHANGED <<model, record, recordIndex, written, bufferSize, lastSize, stage>>

Finalize ==
  /\ stage = "invoke" /\ mode = "DECODE" /\ next > Uses(mode)
  /\ stage' = "written"
  /\ UNCHANGED <<model, record, recordIndex, written, bufferSize, lastSize, mode, next>>

RecordingStep ==
  \/ OffsetToAddr \/ PrepareDecode
  \/ InvokePrefillRunner \/ PreInvoke \/ InvokeDecodeRunner
  \/ Finalize

RecordingNext == RecordingStep \/ \E m \in Models : StartWarmUp(m)

RecordingSpec == RecordingInit /\ [][RecordingNext]_recordVars

-----------------------------------------------------------------------------

RecordedChunk == [index : Nat, at : Nat, len : Nat \ {0}, size : Nat \ {0}]

RecordingTypeOK ==
  /\ model \in Model
  /\ DOMAIN record \subseteq Nat
  /\ \A a \in DOMAIN record : record[a] \in RecordedChunk
  /\ recordIndex \in Nat
  /\ written \in [Modes -> Seq(RecordedChunk)]
  /\ bufferSize \in Nat
  /\ lastSize \in [Modes -> Nat]
  /\ mode \in Modes /\ next \in Nat \ {0}
  /\ stage \in {"idle", "prepare", "invoke", "written"}

(* In the list of either mode a chunk's index is its position, although    *)
(* the numbers are dealt out to both modes together and in the order in    *)
(* which weights are first seen: WeightChunkPrefetcher relies on it when   *)
(* it uses a position in the mode's vector as a chunk_index                *)
(* (weight_chunk_prefetcher.cc:797).                                       *)
IndexIsPosition ==
  \A m \in Modes : \A i \in 1 .. Len(written[m]) :
    written[m][i].index = i - 1 /\ written[m][i].at = model.weights[i].at

(* The recorded buffer size holds every chunk, and every two consecutive   *)
(* chunks of a mode side by side (weight_chunk_controller_utils.cc:74-84). *)
RecordedSizeHoldsPairs ==
  \A m \in Modes :
    /\ \A i \in 1 .. Len(written[m]) : written[m][i].size <= bufferSize
    /\ \A i \in 1 .. Len(written[m]) - 1 :
         written[m][i].size + written[m][i + 1].size <= bufferSize
=============================================================================
