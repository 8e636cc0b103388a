--------------------------- MODULE ParallelPread ---------------------------
(***************************************************************************)
(* ExecuteParallelPread: one read of a chunk group, cut into blocks that   *)
(* start at multiples of the direct I/O alignment and are read by threads  *)
(* of their own, which finish in any order.  ChunkPrefetcher and           *)
(* WeightStreaming take its promise for one step: either everything was    *)
(* read, or the read failed.                                               *)
(***************************************************************************)
EXTENDS Integers

CONSTANTS
  Sizes,         (* total_aligned_size of the groups that may be read      *)
  SectorSize,    (* sector size the chunks were aligned to                 *)
  Alignment,     (* kDirectIOAlignment                                     *)
  MinBlockSize,  (* pread_min_block_size_                                  *)
  MaxThreads     (* pread_max_threads_                                     *)

(* A group is made of chunks of whole sectors.  There are fewer threads    *)
(* than bytes in a sector: the defaults are 4 threads, 4096 bytes.         *)
ASSUME PreadAssumption ==
  /\ SectorSize \in Nat \ {0}
  /\ Sizes \subseteq Nat
  /\ \A s \in Sizes : s % SectorSize = 0
  /\ Alignment \in Nat \ {0}
  /\ Alignment % SectorSize = 0
  /\ MinBlockSize \in Nat \ {0}
  /\ MaxThreads \in 1 .. SectorSize

VARIABLES
  pc,        (* "idle", "single", "launch" or "join"                       *)
  size,      (* the requested size                                         *)
  nextBlock, (* loop index: block to launch next                           *)
  reading,   (* blocks whose thread has not returned                       *)
  allOk,     (* no block that returned was short                           *)
  filled,    (* bytes of the buffer, relative to its start, that were read *)
  result     (* what the last call returned, "none" during a call          *)

preadVars == <<pc, size, nextBlock, reading, allOk, filled, result>>

NumThreads == IF MaxThreads <= size \div MinBlockSize THEN MaxThreads ELSE size \div MinBlockSize

(* Mutants: the share of a thread as it is; rounded down.                  *)
ShareUnaligned == size \div NumThreads
ShareRoundedDown == ((size \div NumThreads) \div Alignment) * Alignment

(* A thread's share of the bytes, rounded up to the alignment.             *)
BaseBlockSize ==
  LET share == size \div NumThreads IN
  IF share % Alignment # 0
  THEN ((share + Alignment - 1) \div Alignment) * Alignment
  ELSE share

BlockOffset(i) == i * BaseBlockSize

(* Mutant: the last block is not clamped.                                  *)
BlockEndUnclamped(i) == BlockOffset(i) + BaseBlockSize

BlockEnd(i) ==
  IF BlockOffset(i) + BaseBlockSize > size THEN size ELSE BlockOffset(i) + BaseBlockSize

Bytes(from, to) == from .. to - 1
Block(i) == Bytes(BlockOffset(i), BlockEnd(i))

PreadInit ==
  /\ pc = "idle"
  /\ size = 0
  /\ nextBlock = 0
  /\ reading = {}
  /\ allOk = TRUE
  /\ filled = {}
  /\ result = "none"

(* A request of no bytes is refused; a small one is read by the caller.    *)
ExecuteParallelPread(s) ==
  /\ pc = "idle"
  /\ size' = s
  /\ nextBlock' = 0 /\ reading' = {} /\ allOk' = TRUE /\ filled' = {}
  /\ IF s = 0
     THEN pc' = "idle" /\ result' = "failed"
     ELSE pc' = (IF s < MinBlockSize * 2 THEN "single" ELSE "launch") /\ result' = "none"

(* pread returns the bytes it read from the front, none on an error.       *)
ReadSingle(got) ==
  /\ pc = "single"
  /\ filled' = Bytes(0, got)
  /\ result' = IF got > 0 /\ got = size THEN "ok" ELSE "failed"
  /\ pc' = "idle"
  /\ UNCHANGED <<size, nextBlock, reading, allOk>>

(* Starts the thread of the next block, unless rounding up has left        *)
(* nothing for it.                                                         *)
LaunchBlock ==
  /\ pc = "launch"
  /\ nextBlock < NumThreads
  /\ reading' = IF BlockOffset(nextBlock) >= size THEN reading ELSE reading \cup {nextBlock}
  /\ nextBlock' = nextBlock + 1
  /\ UNCHANGED <<pc, size, allOk, filled, result>>

AllLaunched ==
  /\ pc = "launch"
  /\ nextBlock >= NumThreads
  /\ pc' = "join"
  /\ UNCHANGED <<size, nextBlock, reading, allOk, filled, result>>

ReadBlock(i, got) ==
  /\ i \in reading
  /\ reading' = reading \ {i}
  /\ filled' = filled \cup Bytes(BlockOffset(i), BlockOffset(i) + got)
  /\ allOk' = (allOk /\ got > 0 /\ got = BlockEnd(i) - BlockOffset(i))
  /\ UNCHANGED <<pc, size, nextBlock, result>>

(* All futures have been waited for.                                       *)
JoinBlocks ==
  /\ pc = "join"
  /\ reading = {}
  /\ pc' = "idle"
  /\ result' = IF allOk THEN "ok" ELSE "failed"
  /\ UNCHANGED <<size, nextBlock, reading, allOk, filled>>

(* A read returns everything asked for, less, or nothing.                  *)
Got(length) == {0, length - 1, length}

PreadNext ==
  \/ \E s \in Sizes : ExecuteParallelPread(s)
  \/ \E got \in Got(size) : ReadSingle(got)
  \/ LaunchBlock
  \/ AllLaunched
  \/ \E i \in reading : \E got \in Got(BlockEnd(i) - BlockOffset(i)) : ReadBlock(i, got)
  \/ JoinBlocks

PreadSpec == PreadInit /\ [][PreadNext]_preadVars

-----------------------------------------------------------------------------

(* The call's and its threads' locals.                                     *)
PreadTypeOK ==
  /\ pc \in {"idle", "single", "launch", "join"}
  /\ size \in Sizes \cup {0}
  /\ nextBlock \in Nat
  /\ reading \subseteq 0 .. nextBlock - 1
  /\ allOk \in BOOLEAN
  /\ filled \subseteq Nat
  /\ result \in {"none", "ok", "failed"}

(* A read that succeeds has read every byte: rounding the blocks up,       *)
(* skipping empty ones and clamping the last one leave no gap              *)
(* (prefetcher.cc:414-450).                                                *)
SuccessIsComplete == result = "ok" => filled = Bytes(0, size)

(* No byte past the group is written: the other slot begins there.         *)
ReadsStayInRange == filled \subseteq Bytes(0, size)

(* Threads that read at the same time write to different bytes, and every  *)
(* one starts at an aligned offset, as O_DIRECT demands                    *)
(* (prefetcher.cc:416-423).                                                *)
ConcurrentBlocksApart ==
  \A i, j \in reading :
    /\ BlockOffset(i) % Alignment = 0
    /\ i # j => Block(i) \cap Block(j) = {}

(* Why a success is complete: a block that was launched is being read, or  *)
(* was read in full, or the call will fail.                                *)
LaunchedBlocksCovered ==
  pc \in {"launch", "join"} =>
    /\ size >= MinBlockSize * 2
    /\ \A i \in reading : BlockOffset(i) < size
    /\ allOk => \A i \in 0 .. nextBlock - 1 : i \in reading \/ Block(i) \subseteq filled
    /\ pc = "join" => nextBlock >= NumThreads
=============================================================================
