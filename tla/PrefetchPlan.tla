---------------------------- MODULE PrefetchPlan ----------------------------
(***************************************************************************)
(* A loaded prefetch plan: for each mode the chunk groups in I/O order,    *)
(* where their chunks lie in the weight cache file, and what the runtime   *)
(* derives from that.  All lengths are in sectors.                         *)
(*                                                                         *)
(* Constant operators only.  A chunk is named by its chunk_index, which    *)
(* both modes share, and stands for the sectors that hold its weights.     *)
(***************************************************************************)
EXTENDS Naturals, SequencesExt, FiniteSetsExt

CONSTANTS
  Chunks,        (* chunk indices                                          *)
  ChunkAt,       (* aligned_offset of a chunk                              *)
  ChunkLen,      (* aligned_size of a chunk                                *)
  Plan,          (* per mode, the groups: a sequence of chunk sequences    *)
  StatedTotal,   (* total_aligned_size of each group in the plan file, or 0 *)
  MetadataSize   (* weight_chunk_buffer_size of the plan file, or 0        *)

Modes == {"PREFILL", "DECODE"}

ASSUME PlanAssumption ==
  /\ ChunkAt \in [Chunks -> Nat]
  /\ ChunkLen \in [Chunks -> Nat \ {0}]
  /\ Plan \in [Modes -> Seq(Seq(Chunks))]
  /\ \A m \in Modes : Plan[m] # <<>> /\ \A i \in 1 .. Len(Plan[m]) : Plan[m][i] # <<>>
  /\ StatedTotal \in [Modes -> Seq(Nat)]
  /\ \A m \in Modes : Len(StatedTotal[m]) = Len(Plan[m])
  /\ MetadataSize \in Nat

(* Group indices start at 0 and are contiguous: SetPrefetchPlan renumbers. *)
GroupsOf(m) == [mode : {m}, index : 0 .. Len(Plan[m]) - 1]
Groups == UNION {GroupsOf(m) : m \in Modes}
ChunksOf == [g \in Groups |-> Plan[g.mode][g.index + 1]]

(* BuildModeChunkPlan: a group starts where its first chunk does.          *)
StartOf(g) == ChunkAt[Head(ChunksOf[g])]

(* Mutants: the operands swapped; every chunk at its group's start.        *)
RelativeOffsetSwapped(g, c) == StartOf(g) - ChunkAt[c]
RelativeOffsetZero(g, c) == 0

RelativeOffset(g, c) == IF ChunkAt[c] >= StartOf(g) THEN ChunkAt[c] - StartOf(g) ELSE 0

(* The size of a group is the one that the file states; if none is stated, *)
(* or too little, it is how far the chunks reach from the group's start.   *)
Stated(g) == StatedTotal[g.mode][g.index + 1]
MaxExtent(g) == Max({RelativeOffset(g, c) + ChunkLen[c] : c \in Range(ChunksOf[g])})
TotalAlignedSize == [g \in Groups |-> IF Stated(g) < MaxExtent(g) THEN MaxExtent(g) ELSE Stated(g)]

(* The chunks of a mode, in the order of weight_chunks.                    *)
ModeChunks == [m \in Modes |-> FlattenSeq(Plan[m])]

(* group_per_mode of a chunk: the last group that names it.                *)
GroupPerMode(m, c) ==
  CHOOSE g \in GroupsOf(m) :
    /\ c \in Range(ChunksOf[g])
    /\ \A h \in GroupsOf(m) : c \in Range(ChunksOf[h]) => h.index <= g.index

(* After its last group PREFILL hands over to DECODE, which starts again.  *)
GetNextChunkGroup(g) ==
  IF g.index + 1 < Len(Plan[g.mode])
  THEN [g EXCEPT !.index = @ + 1]
  ELSE [mode |-> "DECODE", index |-> 0]

(* DeriveWeightChunkBufferSize: two consecutive chunks, or one group by    *)
(* its stated total, must fit; a larger size in the metadata prevails.     *)
ChunkPairs(m) ==
  {ChunkLen[ModeChunks[m][i]] + ChunkLen[ModeChunks[m][i + 1]] : i \in 1 .. Len(ModeChunks[m]) - 1}

WeightChunkBufferSize ==
  Max({MetadataSize}
      \cup {ChunkLen[c] : c \in UNION {Range(ModeChunks[m]) : m \in Modes}}
      \cup (UNION {ChunkPairs(m) : m \in Modes})
      \cup {Stated(g) : g \in Groups})

-----------------------------------------------------------------------------

(* The file states of every group at least what its chunks take, as the    *)
(* planner's files do.  The buffer's size is derived before BuildModeChunkPlan *)
(* corrects a total: of other files a group can be larger than the buffer. *)
TotalsStated == \A g \in Groups : MaxExtent(g) <= Stated(g)

(* A plan in which double buffering works out: a mode's operators run      *)
(* through its groups in order and name every chunk once; ...              *)
EachChunkOnce ==
  \A m \in Modes : \A i, j \in 1 .. Len(Plan[m]) :
    \A k \in 1 .. Len(Plan[m][i]), l \in 1 .. Len(Plan[m][j]) :
      Plan[m][i][k] = Plan[m][j][l] => i = j /\ k = l

(* ... there are more groups than slots, in each mode; ...                 *)
MoreGroupsThanSlots == \A m \in Modes : Len(Plan[m]) >= 3

(* ... a group and the one that is read while it computes fit side by side *)
(* and share no chunk; ...                                                 *)
NextGroupFits ==
  \A g \in Groups :
    TotalAlignedSize[g] + TotalAlignedSize[GetNextChunkGroup(g)] <= WeightChunkBufferSize
NextGroupApart ==
  \A g \in Groups : Range(ChunksOf[g]) \cap Range(ChunksOf[GetNextChunkGroup(g)]) = {}

(* ... and the first chunk of a group is the one that comes first in the   *)
(* file.                                                                   *)
FirstChunkLeads == \A g \in Groups : \A c \in Range(ChunksOf[g]) : ChunkAt[c] >= StartOf(g)

DoubleBuffered ==
  EachChunkOnce /\ MoreGroupsThanSlots /\ NextGroupFits /\ NextGroupApart /\ FirstChunkLeads
=============================================================================
