------------------------- MODULE MCWeightStreaming -------------------------
(* Plans of four chunks.  Chunks 0 and 1 share the sector between them, as *)
(* chunks do that do not end on a sector boundary.                         *)
EXTENDS SlotHandover

MCChunkAt == [c \in 0 .. 3 |-> <<0, 1, 3, 4>>[c + 1]]
MCChunkLen == [c \in 0 .. 3 |-> <<2, 2, 1, 2>>[c + 1]]

(* Three groups in each mode, cut differently.                             *)
MCThreeGroups ==
  [m \in Modes |-> IF m = "PREFILL" THEN <<<<0, 1>>, <<2>>, <<3>>>>
                   ELSE <<<<0>>, <<1, 2>>, <<3>>>>]

(* As many prefill groups as the buffer has slots.                         *)
MCTwoPrefillGroups ==
  [m \in Modes |-> IF m = "PREFILL" THEN <<<<0, 1>>, <<2, 3>>>>
                   ELSE <<<<0>>, <<1, 2>>, <<3>>>>]

(* One chunk per group, as the simple planning strategy cuts, the largest  *)
(* chunks first and last.                                                  *)
MCWideAt == [c \in 0 .. 2 |-> <<0, 3, 4>>[c + 1]]
MCWideLen == [c \in 0 .. 2 |-> <<3, 1, 3>>[c + 1]]
MCOneChunkGroups == [m \in Modes |-> <<<<0>>, <<1>>, <<2>>>>]

(* Decode groups that reach further than the prefill groups: the last but  *)
(* one of PREFILL holds the chunk of the second of DECODE.                 *)
MCEvenAt == [c \in 0 .. 4 |-> c]
MCEvenLen == [c \in 0 .. 4 |-> 1]
MCLongDecodeGroups ==
  [m \in Modes |-> IF m = "PREFILL" THEN <<<<0>>, <<1>>, <<2>>, <<3>>, <<4>>>>
                   ELSE <<<<0, 1, 2>>, <<3>>, <<4>>>>]

(* The planner states the sum of its chunks' aligned sizes as the size of  *)
(* a group, the shared sectors of MCChunkAt twice.                         *)
MCStatedTotal ==
  [m \in Modes |->
     [i \in DOMAIN Plan[m] |->
        FoldSeq(LAMBDA c, total : ChunkLen[c] + total, 0, Plan[m][i])]]

ASSUME PlannerStatesTotals == TotalsStated

(* The plans the theorems about double buffering speak of.                 *)
ASSUME PlanIsDoubleBuffered ==
  DoubleBuffered <=> Plan \in {MCThreeGroups, MCLongDecodeGroups}
=============================================================================
