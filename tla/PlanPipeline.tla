---------------------------- MODULE PlanPipeline ----------------------------
(***************************************************************************)
(* From the recorded chunks to the slots of the runtime: cmt_generator     *)
(* writes the metadata table, the planner turns it into a plan file,       *)
(* JsonPrefetchPlanLoader and SetPrefetchPlan derive from it what the      *)
(* controller lays its slots out by.                                       *)
(*                                                                         *)
(* The parts are programs of their own that hand files to each other; what *)
(* a part takes for granted must have been made true by one before it.     *)
(* Tables may also come from elsewhere (the planner's test builds its own), *)
(* and so may plan files.                                                  *)
(***************************************************************************)
EXTENDS ChunkRecording, Rechunk, FiniteSetsExt

pipelineVars == <<vars, recordVars, planVars>>

PipelineInit == Init /\ RecordingInit /\ PlannerInit

-----------------------------------------------------------------------------
(* The metadata table and the plan file.                                   *)

(* sort_chunk_list: the sort is stable, a chunk comes after those of lower *)
(* chunk_index and the ones of its own that stand before it.               *)
Place(list, j) ==
  Cardinality({i \in DOMAIN list : \/ list[i].index < list[j].index
                                   \/ list[i].index = list[j].index /\ i <= j})

InIndexOrder(list) == [p \in DOMAIN list |-> list[CHOOSE j \in DOMAIN list : Place(list, j) = p]]

(* weight_chunks has a key for each mode something was written for.        *)
RecordedTable ==
  LET listed(m) == IF written[m] = <<>> THEN <<>> ELSE <<InIndexOrder(written[m])>> IN
  [limit |-> bufferSize, lists |-> listed("PREFILL") \o listed("DECODE")]

(* The entries of a mode in the plan file: group after group.              *)
Entries(m) ==
  LET upTo[k \in 0 .. Len(planned[m])] ==
        IF k = 0 THEN <<>> ELSE upTo[k - 1] \o planned[m][k].members
      positions == upTo[Len(planned[m])]
  IN  [i \in DOMAIN positions |-> table.lists[m][positions[i]]]

Member(m, k, j) == table.lists[m][planned[m][k].members[j]]

(* BuildModeChunkPlan: total_aligned_size is at least the extent from the  *)
(* first chunk of the group to the end of the one that reaches furthest.   *)
RelativeOffset(m, k, j) ==
  LET start == SectorOf(Member(m, k, 1).at) IN
  IF SectorOf(Member(m, k, j).at) >= start THEN SectorOf(Member(m, k, j).at) - start ELSE 0

TotalAlignedSize(m, k) ==
  Max({planned[m][k].size}
      \cup {RelativeOffset(m, k, j) + Member(m, k, j).size : j \in DOMAIN planned[m][k].members})

(* Mutant: every chunk and group for itself.                               *)
LargestAlone ==
  Max({table.limit}
      \cup (UNION {{Entries(m)[i].size : i \in DOMAIN Entries(m)} : m \in DOMAIN planned})
      \cup (UNION {{planned[m][k].size : k \in DOMAIN planned[m]} : m \in DOMAIN planned}))

(* DeriveWeightChunkBufferSize, from the totals that the file states.      *)
DerivedSize ==
  LET pairs(list) == {list[i].size + list[i + 1].size : i \in 1 .. Len(list) - 1} IN
  Max({table.limit}
      \cup (UNION {{Entries(m)[i].size : i \in DOMAIN Entries(m)} : m \in DOMAIN planned})
      \cup (UNION {pairs(Entries(m)) : m \in DOMAIN planned})
      \cup (UNION {{planned[m][k].size : k \in DOMAIN planned[m]} : m \in DOMAIN planned}))

(* The plan as the controller sees it.                                     *)
PlanFile ==
  [request |-> DerivedSize,
   groups |-> UNION {{[index |-> k - 1, size |-> TotalAlignedSize(m, k)] : k \in DOMAIN planned[m]}
                     : m \in DOMAIN planned}]

(* index_to_chunks_: the first chunk seen under an index stays, those of   *)
(* PREFILL come first.                                                     *)
Holders(m, i) == {p \in DOMAIN Entries(m) : Entries(m)[p].index = i}

IndexToChunks(i) ==
  LET modes == {m \in DOMAIN planned : Holders(m, i) # {}} IN
  IF modes = {} THEN {} ELSE {Entries(Min(modes))[Min(Holders(Min(modes), i))]}

(* LookupChunkInfoByOffset: the position of the offset in the mode's       *)
(* entries serves as the index.  Empty when nothing is found.              *)
LookupChunkInfoByOffset(m, at) ==
  LET positions == {p \in DOMAIN Entries(m) : Entries(m)[p].at = at} IN
  IF positions = {} THEN {} ELSE IndexToChunks(Min(positions) - 1)

-----------------------------------------------------------------------------

Record ==
  /\ loaded = NoPlan /\ pc = "idle"
  /\ RecordingNext
  /\ UNCHANGED <<vars, planVars>>

(* prefetch_planner.py reads the table that was recorded, or another.      *)
StartPlanner ==
  /\ loaded = NoPlan
  /\ \/ stage = "written" /\ LoadTable(RecordedTable)
     \/ stage = "idle" /\ \E t \in Tables : LoadTable(t)
  /\ UNCHANGED <<vars, recordVars>>

RunPlanner == PlannerStep /\ UNCHANGED <<vars, recordVars>>

(* The text generator is given the planner's file, or another.             *)
StartGenerator ==
  /\ \/ pc = "done" /\ Load(PlanFile)
     \/ pc = "idle" /\ stage = "idle" /\ \E plan \in Plans : Load(plan)
  /\ UNCHANGED <<recordVars, planVars>>

Generate == Runtime /\ UNCHANGED <<recordVars, planVars>>

PipelineNext == Record \/ StartPlanner \/ RunPlanner \/ StartGenerator \/ Generate

PipelineSpec == PipelineInit /\ [][PipelineNext]_pipelineVars /\ WF_pipelineVars(RunPlanner)

-----------------------------------------------------------------------------

(* A plan file is there; loading it does not change it.                    *)
PlanReady == pc = "done" /\ loaded = NoPlan

(* A table of the form that recordings have: a chunk has the number of its *)
(* place and the size of the sectors it lies in, no two of a list share an *)
(* offset, and the modes use the weights in one order.                     *)
InRecordedForm(t) ==
  \A m, n \in DOMAIN t.lists : \A i \in DOMAIN t.lists[m], j \in DOMAIN t.lists[n] :
    LET c == t.lists[m][i]
        d == t.lists[n][j] IN
    /\ c.index = i - 1 /\ c.size = AlignedSize(c)
    /\ c.at = d.at <=> i = j
    /\ i = j => c = d

TablesInRecordedForm == \A t \in Tables : InRecordedForm(t)

(* The operator that is about to use a weight is given that weight's       *)
(* chunk, although a position in one mode's entries is used as an index    *)
(* into a table that both modes fill                                       *)
(* (weight_chunk_controller_utils.cc:607, weight_chunk_prefetcher.cc:797). *)
LookupFindsOwnChunk ==
  PlanReady =>
    \A m \in DOMAIN planned : \A i \in DOMAIN table.lists[m] :
      LookupChunkInfoByOffset(m, table.lists[m][i].at) = {table.lists[m][i]}

(* A recorded table states a buffer size that needs no correction when the *)
(* plan is loaded, however the planner groups its chunks: the warning      *)
(* "weight_chunk_buffer_size from metadata is smaller than derived maximum *)
(* requirement" is for other tables (weight_chunk_controller_utils.cc:503). *)
MetadataSizeSuffices ==
  PlanReady /\ stage = "written" => DerivedSize = bufferSize

(* Beside a group of the planned file in the active slot there is always   *)
(* room for the next group of its mode, so that ScheduleNextGroup does not *)
(* give up for want of room (weight_chunk_controller.cc:341-351).          *)
NextGroupHasRoom ==
  pc = "done" /\ capacity > 0 =>
    \A m \in DOMAIN planned : \A k \in 1 .. Len(planned[m]) - 1 :
      slots[active].index = k - 1 /\ slots[active].size = TotalAlignedSize(m, k)
        => ComputeInactiveSlotOffset(TotalAlignedSize(m, k + 1)) # NoOffset
=============================================================================
