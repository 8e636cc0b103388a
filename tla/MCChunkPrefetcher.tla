------------------------- MODULE MCChunkPrefetcher -------------------------
(* Two groups of one mode, one of them with two chunks.                    *)
EXTENDS ChunkPrefetcher

MCGroups == {"g0", "g1"}
MCChunksOf == [g \in MCGroups |-> IF g = "g0" THEN <<0, 1>> ELSE <<2>>]
=============================================================================
