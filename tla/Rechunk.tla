------------------------------ MODULE Rechunk ------------------------------
(***************************************************************************)
(* The prefetch planner.  SimplePlanningStrategy makes every chunk a group; *)
(* RechunkPlanningStrategy, which is greedy, cuts the ordered chunks of    *)
(* each mode into the groups that become the plan's io_order.              *)
(*                                                                         *)
(* A chunk is what the planner looks at: its chunk_index and aligned size, *)
(* and where its weights lie in the model file.  A group lists its members *)
(* by position and carries the sum that sum_chunk_aligned_size returns.    *)
(* Time estimates are data: the planner may stop at any chunk on their     *)
(* account.                                                                *)
(***************************************************************************)
EXTENDS Naturals, Sequences

CONSTANT Tables   (* the metadata tables that may be planned for           *)

(* A table: weight_chunk_buffer_size of its metadata, and the chunk lists  *)
(* of its modes as sort_chunk_list returns them.                           *)
Chunk == [index : Nat, at : Nat, len : Nat \ {0}, size : Nat \ {0}]
Table == [limit : Nat, lists : Seq(Seq(Chunk))]

ASSUME RechunkAssumption == Tables \subseteq Table

VARIABLES
  table,      (* the context: max_buffer_size and the sorted lists         *)
  chunks,     (* the list of the mode being planned                        *)
  index,      (* the next chunk                                            *)
  compute,    (* compute_chunk_group                                       *)
  prefetch,   (* prefetch_chunk_group                                      *)
  groups,     (* committed_chunk_groups                                    *)
  planned,    (* plan_entries: the groups of the modes done so far         *)
  pc          (* the loop the planner is in                                *)

planVars == <<table, chunks, index, compute, prefetch, groups, planned, pc>>

NoTable == [limit |-> 0, lists |-> <<>>]
Group == [members : Seq(Nat \ {0}), size : Nat]
NoGroup == [members |-> <<>>, size |-> 0]

With(group, i) ==
  [members |-> Append(group.members, i), size |-> group.size + chunks[i].size]

First(group) == group.members[1]
Last(group) == group.members[Len(group.members)]

PlannerInit ==
  /\ table = NoTable
  /\ chunks = <<>> /\ index = 1
  /\ compute = NoGroup /\ prefetch = NoGroup
  /\ groups = <<>> /\ planned = <<>>
  /\ pc = "idle"

(* load_cmt, build_context and create_strategy.                            *)
LoadTable(t) ==
  /\ pc = "idle"
  /\ table' = t
  /\ pc' = "validate"
  /\ UNCHANGED <<chunks, index, compute, prefetch, groups, planned>>

(* A positive limit, and no chunk of any mode exceeds it.                  *)
ChunksValid ==
  /\ table.limit > 0
  /\ \A m \in DOMAIN table.lists :
       \A i \in DOMAIN table.lists[m] : table.lists[m][i].size <= table.limit

(* _validate_chunks, or create_strategy before it, raises.                 *)
RejectTable ==
  /\ pc = "validate"
  /\ ~ChunksValid
  /\ pc' = "raised"
  /\ UNCHANGED <<table, chunks, index, compute, prefetch, groups, planned>>

AcceptTable ==
  /\ pc = "validate"
  /\ ChunksValid
  /\ pc' = "mode"
  /\ UNCHANGED <<table, chunks, index, compute, prefetch, groups, planned>>

(* Mutant: the groups of the mode before are still there.                  *)
NextModeKeepingGroups ==
  /\ pc = "mode" /\ Len(planned) < Len(table.lists)
  /\ chunks' = table.lists[Len(planned) + 1]
  /\ index' = 1
  /\ compute' = NoGroup /\ prefetch' = NoGroup
  /\ pc' = "begin"
  /\ UNCHANGED <<table, groups, planned>>

(* create_strategy("simple"), whose build validates nothing.                *)
SimpleStrategy ==
  /\ pc = "validate"
  /\ pc' = "simple"
  /\ UNCHANGED <<table, chunks, index, compute, prefetch, groups, planned>>

OneByOne(list) == [i \in DOMAIN list |-> [members |-> <<i>>, size |-> list[i].size]]

AddSingleChunks ==
  /\ pc = "simple" /\ Len(planned) < Len(table.lists)
  /\ planned' = Append(planned, OneByOne(table.lists[Len(planned) + 1]))
  /\ UNCHANGED <<table, chunks, index, compute, prefetch, groups, pc>>

(* _rechunk_mode is called for the next mode.                              *)
NextMode ==
  /\ pc = "mode" /\ Len(planned) < Len(table.lists)
  /\ chunks' = table.lists[Len(planned) + 1]
  /\ index' = 1
  /\ compute' = NoGroup /\ prefetch' = NoGroup
  /\ groups' = <<>>
  /\ pc' = "begin"
  /\ UNCHANGED <<table, planned>>

(* The first chunk is the first compute group; no chunks, no groups.       *)
Begin ==
  /\ pc = "begin"
  /\ IF chunks = <<>>
     THEN pc' = "listed" /\ UNCHANGED <<index, compute>>
     ELSE pc' = "outer" /\ compute' = With(NoGroup, 1) /\ index' = 2
  /\ UNCHANGED <<table, chunks, prefetch, groups, planned>>

MoreChunks == index <= Len(chunks)

StartPrefetchGroup ==
  /\ pc = "outer" /\ MoreChunks
  /\ prefetch' = NoGroup
  /\ pc' = "inner"
  /\ UNCHANGED <<table, chunks, index, compute, groups, planned>>

EndsAt(i) == chunks[i].at + chunks[i].len

(* Mutant: only the head of a group is compared.                           *)
ContiguousHead(candidate) ==
  prefetch.members = <<>> => chunks[candidate].at = EndsAt(Last(compute))

(* _check_chunk_contiguity, in the model file.                             *)
Contiguous(candidate) ==
  LET last == IF prefetch.members # <<>> THEN Last(prefetch) ELSE Last(compute)
  IN  chunks[candidate].at = EndsAt(last)

NextSize(candidate) ==
  IF candidate + 1 <= Len(chunks) THEN chunks[candidate + 1].size ELSE 0

(* Mutant: the head of the group after the next one is not reserved.       *)
ReservedWithoutNext(candidate) ==
  compute.size + prefetch.size + chunks[candidate].size

(* prefetch_reserved_buffer_size                                           *)
Reserved(candidate) ==
  compute.size + prefetch.size + chunks[candidate].size + NextSize(candidate)

IncludeCandidate ==
  /\ pc = "inner" /\ MoreChunks
  /\ Contiguous(index)
  /\ Reserved(index) <= table.limit
  /\ prefetch' = With(prefetch, index)
  /\ index' = index + 1
  /\ UNCHANGED <<table, chunks, compute, groups, planned, pc>>

(* The inner loop ends at the end of the list or at a break.  The one on   *)
(* the I/O estimate may come at any candidate, so nothing is asked here.   *)
CommitComputeGroup ==
  /\ pc = "inner" /\ prefetch.members # <<>>
  /\ groups' = Append(groups, compute)
  /\ compute' = prefetch
  /\ pc' = "outer"
  /\ UNCHANGED <<table, chunks, index, prefetch, planned>>

(* Mutant: the loop goes on as if something had been included.             *)
ForceNothing ==
  /\ pc = "inner" /\ prefetch.members = <<>>
  /\ pc' = "outer"
  /\ UNCHANGED <<table, chunks, index, compute, prefetch, groups, planned>>

(* Nothing was included: the candidate has to open a group of its own.     *)
ForceGroup ==
  /\ pc = "inner" /\ prefetch.members = <<>>
  /\ groups' = Append(groups, compute)
  /\ IF MoreChunks
     THEN compute' = With(NoGroup, index) /\ index' = index + 1
     ELSE compute' = NoGroup /\ UNCHANGED index
  /\ pc' = "outer"
  /\ UNCHANGED <<table, chunks, prefetch, planned>>

CommitLastGroup ==
  /\ pc = "outer" /\ ~MoreChunks
  /\ groups' = IF compute.members # <<>> THEN Append(groups, compute) ELSE groups
  /\ pc' = "listed"
  /\ UNCHANGED <<table, chunks, index, compute, prefetch, planned>>

(* build files every chunk under its group's number.                       *)
AddEntries ==
  /\ pc = "listed"
  /\ planned' = Append(planned, groups)
  /\ pc' = "mode"
  /\ UNCHANGED <<table, chunks, index, compute, prefetch, groups>>

SavePlan ==
  /\ pc \in {"mode", "simple"} /\ Len(planned) = Len(table.lists)
  /\ pc' = "done"
  /\ UNCHANGED <<table, chunks, index, compute, prefetch, groups, planned>>

PlannerStep ==
  \/ RejectTable \/ AcceptTable
  \/ SimpleStrategy \/ AddSingleChunks
  \/ NextMode \/ Begin
  \/ StartPrefetchGroup \/ IncludeCandidate
  \/ CommitComputeGroup \/ ForceGroup \/ CommitLastGroup
  \/ AddEntries \/ SavePlan

Planned == pc \in {"done", "raised"} /\ UNCHANGED planVars

PlannerNext == PlannerStep \/ (\E t \in Tables : LoadTable(t)) \/ Planned

PlannerSpec == PlannerInit /\ [][PlannerNext]_planVars /\ WF_planVars(PlannerStep)

-----------------------------------------------------------------------------

PlannerTypeOK ==
  /\ table \in Table
  /\ chunks \in Seq(Chunk)
  /\ index \in Nat \ {0}
  /\ compute \in Group /\ prefetch \in Group
  /\ groups \in Seq(Group)
  /\ planned \in Seq(Seq(Group))
  /\ pc \in {"idle", "validate", "raised", "simple", "mode", "begin", "outer", "inner", "listed", "done"}

Consecutive(group) ==
  \A j \in 1 .. Len(group.members) - 1 : group.members[j + 1] = group.members[j] + 1

Tiles(plan, list) ==
  /\ \A k \in DOMAIN plan : plan[k].members # <<>> /\ Consecutive(plan[k])
  /\ \A k \in 1 .. Len(plan) - 1 : First(plan[k + 1]) = Last(plan[k]) + 1
  /\ plan # <<>> => First(plan[1]) = 1
  /\ IF plan # <<>> THEN Last(plan[Len(plan)]) = Len(list) ELSE list = <<>>

(* The plan of a mode holds every chunk once, in the order of chunk_index: *)
(* groups are runs of the list, each begins where the one before it ends,  *)
(* and together they reach from the first chunk to the last, whatever was  *)
(* planned before (stratgey_rechunk.py:42-48, 117-231,                     *)
(* strategy_simple.py:15-24).                                              *)
PlanTilesTheList == \A m \in DOMAIN planned : Tiles(planned[m], table.lists[m])

(* "chunks grouped together maintain contiguity in their original data     *)
(* layout" (stratgey_rechunk.py:86-87): the runtime reads a group as one   *)
(* extent, so a gap would be read along and take room in the buffer.       *)
ContiguousGroup(list, group) ==
  \A j \in 1 .. Len(group.members) - 1 :
    list[group.members[j + 1]].at = list[group.members[j]].at + list[group.members[j]].len

GroupsContiguous ==
  \A m \in DOMAIN planned :
    \A k \in DOMAIN planned[m] : ContiguousGroup(table.lists[m], planned[m][k])

(* What the runtime allocates: DeriveWeightChunkBufferSize takes at least  *)
(* the metadata's size and the sum of any two consecutive chunks.          *)
FitsRuntimeBuffer(list, bytes) ==
  \/ bytes <= table.limit
  \/ \E i \in 1 .. Len(list) - 1 : bytes <= list[i].size + list[i + 1].size

(* Two groups that follow each other fit into the runtime's buffer side by *)
(* side, also the groups that the planner was forced to open beyond its    *)
(* own limit (stratgey_rechunk.py:170-187, 204-216): ScheduleNextGroup     *)
(* finds room for the next group while the present one computes.           *)
NeighboursFit ==
  \A m \in DOMAIN planned :
    \A k \in 1 .. Len(planned[m]) - 1 :
      FitsRuntimeBuffer(table.lists[m], planned[m][k].size + planned[m][k + 1].size)

(* The planner comes to an end: "we must forcibly start a new group ... to *)
(* avoid infinite loop" (stratgey_rechunk.py:204-205).                     *)
PlanningEnds == pc = "validate" ~> pc \in {"done", "raised"}
=============================================================================
