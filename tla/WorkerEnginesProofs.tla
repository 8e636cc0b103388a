------------------------ MODULE WorkerEnginesProofs ------------------------
(***************************************************************************)
(* The two ways of reading a group.                                        *)
(*                                                                         *)
(* parallel_pread: the blocks of a read tile it, for every size, sector    *)
(* size, alignment, minimal block and number of threads, and a read that   *)
(* returns true has filled every byte of its target and none past it.      *)
(*                                                                         *)
(* io_uring: for any groups, sub-reads, ring and number of submissions     *)
(* outstanding, no read is lost or counted twice, a job is in one place,   *)
(* and a group is reported as read just if it was, provided that no        *)
(* io_uring_submit fails and a request that may end before Submit returns  *)
(* fits into the ring.                                                     *)
(***************************************************************************)
EXTENDS WorkerEngines, SequenceTheorems, FiniteSetTheorems, FunctionTheorems, TLAPS

-----------------------------------------------------------------------------
(* parallel_pread.                                                         *)

(* The quotient and remainder of a natural number.                         *)
LEMMA Division ==
  ASSUME NEW a \in Nat \ {0}, NEW x \in Nat
  PROVE  /\ x \div a \in Nat
         /\ x % a \in 0 .. a - 1
         /\ x = a * (x \div a) + (x % a)
<1> DEFINE q == x \div a
           r == x % a
<1>1. q \in Nat /\ r \in 0 .. a - 1 /\ x = a * q + r
  OBVIOUS
<1>2. QED
  BY <1>1

(* A quotient without remainder.                                           *)
LEMMA ExactDivision ==
  ASSUME NEW a \in Nat \ {0}, NEW x \in Nat, x % a = 0
  PROVE  \E k \in Nat : x = a * k
<1> DEFINE q == x \div a
<1>1. q \in Nat /\ x = a * q + (x % a)
  BY Division
<1>2. x = a * q
  <2>1. a * q \in Nat
    BY <1>1
  <2>2. QED
    BY <1>1, <2>1
<1>3. QED
  BY <1>1, <1>2

(* Rounding up, as the code does it.                                       *)
LEMMA RoundingUp ==
  ASSUME NEW a \in Nat \ {0}, NEW s \in Nat
  PROVE  LET up == ((s + a - 1) \div a) * a IN up \in Nat /\ up >= s /\ up % a = 0
<1> DEFINE n == (s + a - 1) \div a
           r == (s + a - 1) % a
<1>1. n \in Nat /\ r \in 0 .. a - 1 /\ s + a - 1 = a * n + r
  OBVIOUS
<1>2. n * a = a * n
  BY <1>1
<1>3. a * n >= s
  BY <1>1
<1>4. (n * a) % a = 0
  BY <1>1
<1>5. QED
  BY <1>1, <1>2, <1>3, <1>4

(* A multiple of b is a multiple of what divides b.                        *)
LEMMA MultipleOfMultiple ==
  ASSUME NEW a \in Nat \ {0}, NEW b \in Nat \ {0}, NEW x \in Nat, b % a = 0, x % b = 0
  PROVE  x % a = 0
<1>1. PICK k \in Nat : b = a * k
  BY ExactDivision
<1>2. PICK m \in Nat : x = b * m
  BY ExactDivision
<1>3. x = a * (k * m) /\ k * m \in Nat
  BY <1>1, <1>2
<1>4. QED
  BY <1>3

(* The remainder left by fewer threads than a sector has bytes is 0 when   *)
(* what they read is made of whole sectors.                                *)
LEMMA NoRemainder ==
  ASSUME NEW a \in Nat \ {0}, NEW s \in Nat, NEW n \in 1 .. a,
         s % a = 0, (s \div n) % a = 0
  PROVE  s = n * (s \div n)
<1> DEFINE q == s \div n
           r == s % n
<1>1. q \in Nat /\ r \in 0 .. n - 1 /\ s = n * q + r
  OBVIOUS
<1>2. PICK k \in Nat : s = a * k
  BY ExactDivision
<1>3. PICK m \in Nat : q = a * m
  BY <1>1, ExactDivision
<1>4. r = a * (k - n * m)
  <2>1. n * (a * m) = a * (n * m)
    OBVIOUS
  <2>2. r = a * k - a * (n * m)
    BY <1>1, <1>2, <1>3, <2>1
  <2>3. QED
    BY <2>2
<1>5. k - n * m = 0
  <2> DEFINE d == k - n * m
  <2>1. d \in Int /\ a * d >= 0 /\ a * d < a
    BY <1>1, <1>4
  <2>2. QED
    BY <2>1
<1>6. QED
  BY <1>1, <1>4, <1>5

(* The blocks of a read that is cut at all reach to its end.               *)
LEMMA BlocksReachTheEnd ==
  ASSUME size \in Sizes, size >= MinBlockSize * 2
  PROVE  /\ NumThreads \in 1 .. SectorSize
         /\ BaseBlockSize \in Nat \ {0}
         /\ BaseBlockSize % Alignment = 0
         /\ NumThreads * BaseBlockSize >= size
<1>1. /\ SectorSize \in Nat \ {0} /\ Alignment \in Nat \ {0} /\ MinBlockSize \in Nat \ {0}
      /\ size \in Nat /\ size % SectorSize = 0 /\ Alignment % SectorSize = 0
      /\ MaxThreads \in 1 .. SectorSize
  BY PreadAssumption
<1>2. size \div MinBlockSize \in Nat /\ size \div MinBlockSize >= 2
  <2> DEFINE d == size \div MinBlockSize
           r == size % MinBlockSize
  <2>1. d \in Nat /\ size < MinBlockSize * d + MinBlockSize
    <3>1. d \in Nat /\ r \in 0 .. MinBlockSize - 1 /\ size = MinBlockSize * d + r
      BY <1>1, Division
    <3>2. MinBlockSize * d \in Nat
      BY <1>1, <3>1
    <3>3. QED
      BY <1>1, <3>1, <3>2
  <2>2. SUFFICES ASSUME d <= 1 PROVE FALSE
    BY <2>1
  <2>3. MinBlockSize * d <= MinBlockSize
    BY <1>1, <2>1, <2>2
  <2>4. QED
    BY <1>1, <2>1, <2>3
<1>3. NumThreads \in 1 .. SectorSize /\ NumThreads <= size \div MinBlockSize
  BY <1>1, <1>2 DEF NumThreads
<1>4. size \div MinBlockSize <= size
  BY <1>1
<1> DEFINE share == size \div NumThreads
<1>5. share \in Nat /\ share > 0 /\ size = NumThreads * share + (size % NumThreads)
      /\ size % NumThreads \in 0 .. NumThreads - 1
  <2>1. NumThreads \in Nat \ {0} /\ NumThreads <= size
    BY <1>1, <1>2, <1>3, <1>4
  <2>2. share \in Nat /\ size = NumThreads * share + (size % NumThreads)
        /\ size % NumThreads \in 0 .. NumThreads - 1
    BY <1>1, <2>1, Division
  <2>3. share # 0
    <3>1. SUFFICES ASSUME share = 0 PROVE FALSE
      OBVIOUS
    <3>2. NumThreads * share = 0
      BY <2>1, <3>1
    <3>3. QED
      BY <1>1, <2>1, <2>2, <3>2
  <2>4. QED
    BY <2>2, <2>3
<1>6. CASE share % Alignment = 0
  <2>1. BaseBlockSize = share
    BY <1>6 DEF BaseBlockSize
  <2>2. share % SectorSize = 0
    BY <1>1, <1>5, <1>6, MultipleOfMultiple
  <2>3. size = NumThreads * share
    BY <1>1, <1>3, <2>2, NoRemainder
  <2>4. QED
    BY <1>3, <1>5, <1>6, <2>1, <2>3, <1>1
<1>7. CASE share % Alignment # 0
  <2>1. BaseBlockSize = ((share + Alignment - 1) \div Alignment) * Alignment
    BY <1>7 DEF BaseBlockSize
  <2>2. BaseBlockSize \in Nat /\ BaseBlockSize >= share /\ BaseBlockSize % Alignment = 0
    BY <1>1, <1>5, <2>1, RoundingUp
  <2>3. BaseBlockSize >= share + 1
    BY <1>5, <1>7, <2>2
  <2>4. NumThreads * BaseBlockSize >= NumThreads * (share + 1)
    BY <1>3, <1>5, <2>2, <2>3
  <2>5. NumThreads * (share + 1) = NumThreads * share + NumThreads
    BY <1>3, <1>5
  <2>6. QED
    BY <1>1, <1>3, <1>5, <2>2, <2>3, <2>4, <2>5
<1>8. QED
  BY <1>6, <1>7

(* Every byte of the read is in the block that its position divided by the *)
(* block size names; the blocks do not overlap.                            *)
THEOREM BlocksTileTheRead ==
  ASSUME size \in Sizes, size >= MinBlockSize * 2
  PROVE  /\ \A b \in Bytes(0, size) : \E i \in 0 .. NumThreads - 1 : b \in Block(i)
         /\ \A i, j \in Nat : i # j => Block(i) \cap Block(j) = {}
         /\ \A i \in Nat : Block(i) \subseteq Bytes(0, size)
         /\ \A i \in Nat : BlockOffset(i) \in Nat /\ BlockOffset(i) % Alignment = 0
<1> DEFINE base == BaseBlockSize
<1>1. /\ NumThreads \in Nat /\ base \in Nat \ {0} /\ base % Alignment = 0
      /\ NumThreads * base >= size /\ size \in Nat /\ Alignment \in Nat \ {0}
  BY BlocksReachTheEnd, PreadAssumption
<1>2. ASSUME NEW i \in Nat
      PROVE  /\ BlockOffset(i) = i * base /\ BlockOffset(i) \in Nat
             /\ BlockEnd(i) \in Nat /\ BlockEnd(i) <= size
             /\ BlockEnd(i) <= (i + 1) * base
             /\ size >= (i + 1) * base => BlockEnd(i) = (i + 1) * base
             /\ size < (i + 1) * base => BlockEnd(i) = size
  <2>1. (i + 1) * base = i * base + base /\ i * base \in Nat
    BY <1>1
  <2>2. QED
    BY <1>1, <2>1 DEF BlockOffset, BlockEnd
<1>3. ASSUME NEW b \in Bytes(0, size)
      PROVE  \E i \in 0 .. NumThreads - 1 : b \in Block(i)
  <2> DEFINE i == b \div base
  <2>1. b \in Nat /\ b < size
    BY <1>1 DEF Bytes
  <2>2. i \in Nat /\ i * base <= b /\ b < (i + 1) * base
    BY <1>1, <2>1
  <2>3. i < NumThreads
    <3>1. SUFFICES ASSUME i >= NumThreads PROVE FALSE
      BY <1>1, <2>2
    <3>2. i * base >= NumThreads * base
      BY <1>1, <2>2, <3>1
    <3>3. QED
      BY <1>1, <2>1, <2>2, <3>2
  <2> HIDE DEF i
  <2>4. BlockOffset(i) <= b /\ b < BlockEnd(i)
    <3>1. BlockOffset(i) = i * base /\ BlockOffset(i) \in Nat /\ BlockEnd(i) \in Nat
      BY <1>2, <2>2
    <3>2. BlockEnd(i) = (i + 1) * base \/ BlockEnd(i) = size
      <4>1. (i + 1) * base \in Nat
        BY <1>1, <2>2
      <4>2. QED
        BY <1>1, <1>2, <2>2, <4>1
    <3>3. QED
      BY <2>1, <2>2, <3>1, <3>2
  <2>5. b \in Block(i)
    BY <1>2, <2>1, <2>2, <2>4 DEF Block, Bytes
  <2>6. i \in 0 .. NumThreads - 1
    BY <1>1, <2>2, <2>3
  <2>7. QED
    BY <2>5, <2>6
<1>4. ASSUME NEW i \in Nat, NEW j \in Nat, i < j
      PROVE  Block(i) \cap Block(j) = {}
  <2>1. (i + 1) * base <= j * base
    BY <1>1, <1>4
  <2>2. BlockEnd(i) <= BlockOffset(j)
    <3>1. BlockEnd(i) <= (i + 1) * base /\ BlockEnd(i) \in Nat
      BY <1>2
    <3>2. BlockOffset(j) = j * base /\ BlockOffset(j) \in Nat
      BY <1>2
    <3>3. (i + 1) * base \in Nat
      BY <1>1
    <3>4. QED
      BY <2>1, <3>1, <3>2, <3>3
  <2>3. QED
    BY <1>2, <2>2 DEF Block, Bytes
<1>5. \A i, j \in Nat : i # j => Block(i) \cap Block(j) = {}
  <2>1. ASSUME NEW i \in Nat, NEW j \in Nat, i # j PROVE i < j \/ j < i
    BY <2>1
  <2>2. QED
    BY <1>4, <2>1
<1>6. \A i \in Nat : Block(i) \subseteq Bytes(0, size)
  <2>1. ASSUME NEW i \in Nat PROVE BlockOffset(i) \in Nat /\ BlockEnd(i) \in Nat /\ BlockEnd(i) <= size
    BY <1>2
  <2>2. QED
    BY <1>1, <2>1 DEF Block, Bytes
<1>7. \A i \in Nat : BlockOffset(i) \in Nat /\ BlockOffset(i) % Alignment = 0
  <2>1. ASSUME NEW i \in Nat PROVE (i * base) % Alignment = 0
    <3>1. (i * base) % base = 0 /\ i * base \in Nat
      BY <1>1
    <3>2. QED
      BY <1>1, <3>1, MultipleOfMultiple
  <2>2. QED
    BY <1>2, <2>1
<1>8. QED
  BY <1>3, <1>5, <1>6, <1>7

-----------------------------------------------------------------------------

(* Blocks are read only inside a call that was cut; a call that has not    *)
(* returned has no result, and asks for something.                         *)
CallInv ==
  /\ pc \notin {"launch", "join"} => reading = {}
  /\ pc # "idle" => result = "none" /\ size \in Sizes /\ size > 0

PreadInv ==
  /\ PreadTypeOK
  /\ CallInv
  /\ LaunchedBlocksCovered
  /\ ReadsStayInRange
  /\ SuccessIsComplete

(* The invariant of parallel_pread holds initially.                        *)
LEMMA PreadInvInit == PreadInit => PreadInv
BY DEF PreadInit, PreadInv, PreadTypeOK, CallInv, LaunchedBlocksCovered, ReadsStayInRange,
       SuccessIsComplete, Bytes

(* The cutting depends on the size alone.                                  *)
LEMMA SameSizeSameBlocks ==
  ASSUME size' = size
  PROVE  /\ NumThreads' = NumThreads
         /\ \A i : BlockOffset(i)' = BlockOffset(i)
         /\ \A i : BlockEnd(i)' = BlockEnd(i)
         /\ \A i : Block(i)' = Block(i)
BY DEF NumThreads, BaseBlockSize, BlockOffset, BlockEnd, Block, Bytes

(* Launching a thread gives it a block of its own.                         *)
LEMMA LaunchPreserves == PreadInv /\ LaunchBlock => PreadInv'
<1> SUFFICES ASSUME PreadInv, LaunchBlock PROVE PreadInv'
  OBVIOUS
<1> USE DEF PreadInv, LaunchBlock
<1>1. /\ PreadTypeOK /\ CallInv /\ pc = "launch" /\ pc' = pc /\ size' = size
      /\ allOk' = allOk /\ filled' = filled /\ result' = result
      /\ nextBlock' = nextBlock + 1 /\ nextBlock \in Nat
      /\ reading' \in {reading, reading \cup {nextBlock}}
  BY DEF PreadTypeOK
<1>2. PreadTypeOK'
  <2>1. reading' \subseteq 0 .. nextBlock' - 1
    BY <1>1 DEF PreadTypeOK
  <2>2. QED
    BY <1>1, <2>1 DEF PreadTypeOK
<1>3. CallInv'
  BY <1>1 DEF CallInv
<1>4. ReadsStayInRange' /\ SuccessIsComplete'
  BY <1>1 DEF ReadsStayInRange, SuccessIsComplete, Bytes
<1>5. LaunchedBlocksCovered'
  <2>1. size >= MinBlockSize * 2 /\ size \in Sizes
    BY <1>1 DEF LaunchedBlocksCovered, CallInv
  <2>2. /\ BlockOffset(nextBlock) \in Nat
        /\ Block(nextBlock) \subseteq Bytes(0, size)
    BY <1>1, <2>1, BlocksTileTheRead
  <2>3. size \in Nat
    BY <2>1, PreadAssumption
  <2>4. BlockOffset(nextBlock) >= size => Block(nextBlock) = {}
    BY <2>2, <2>3 DEF Block, Bytes
  <2>5. \A i \in reading' : BlockOffset(i)' < size'
    <3>1. \A i \in reading : BlockOffset(i) < size
      BY <1>1 DEF LaunchedBlocksCovered
    <3>2. nextBlock \in reading' => nextBlock \in reading \/ BlockOffset(nextBlock) < size
      BY <2>2, <2>3
    <3>3. QED
      BY <1>1, <3>1, <3>2, SameSizeSameBlocks
  <2>6. ASSUME allOk, NEW i \in 0 .. nextBlock
        PROVE  i \in reading' \/ Block(i) \subseteq filled
    <3>1. CASE i = nextBlock
      BY <2>4, <3>1
    <3>2. CASE i # nextBlock
      <4>1. i \in 0 .. nextBlock - 1
        BY <1>1, <3>2
      <4>2. QED
        BY <1>1, <2>6, <4>1 DEF LaunchedBlocksCovered
    <3>3. QED
      BY <3>1, <3>2
  <2>7. 0 .. nextBlock' - 1 = 0 .. nextBlock
    BY <1>1
  <2>8. QED
    BY <1>1, <2>1, <2>5, <2>6, <2>7, SameSizeSameBlocks DEF LaunchedBlocksCovered
<1>6. QED
  BY <1>2, <1>3, <1>4, <1>5

(* A pread of a thread keeps the invariant, whatever it returns.           *)
LEMMA ReadPreserves ==
  ASSUME NEW i \in reading, NEW got \in Got(BlockEnd(i) - BlockOffset(i))
  PROVE  PreadInv /\ ReadBlock(i, got) => PreadInv'
<1> SUFFICES ASSUME PreadInv, ReadBlock(i, got) PROVE PreadInv'
  OBVIOUS
<1> USE DEF PreadInv, ReadBlock
<1>1. /\ PreadTypeOK /\ CallInv /\ pc' = pc /\ size' = size /\ nextBlock' = nextBlock
      /\ result' = result /\ reading' = reading \ {i}
      /\ filled' = filled \cup Bytes(BlockOffset(i), BlockOffset(i) + got)
  OBVIOUS
<1>2. pc \in {"launch", "join"} /\ result = "none" /\ size \in Sizes
  BY DEF CallInv
<1>3. size >= MinBlockSize * 2 /\ BlockOffset(i) < size
  BY <1>2 DEF LaunchedBlocksCovered
<1>4. i \in Nat /\ size \in Nat
  BY <1>2, PreadAssumption DEF PreadTypeOK
<1>5. /\ BlockOffset(i) \in Nat /\ BlockEnd(i) \in Nat
      /\ BlockOffset(i) < BlockEnd(i) /\ BlockEnd(i) <= size
  <2>1. BlockOffset(i) \in Nat
    BY <1>2, <1>3, <1>4, BlocksTileTheRead
  <2>2. BaseBlockSize \in Nat \ {0}
    BY <1>2, <1>3, BlocksReachTheEnd
  <2>3. QED
    BY <1>3, <1>4, <2>1, <2>2 DEF BlockEnd
<1>6. got \in Nat /\ BlockOffset(i) + got <= BlockEnd(i)
  BY <1>5 DEF Got
<1>7. Bytes(BlockOffset(i), BlockOffset(i) + got) \subseteq Bytes(0, size)
  BY <1>4, <1>5, <1>6 DEF Bytes
<1>8. PreadTypeOK'
  <2>1. Bytes(0, size) \subseteq Nat
    BY <1>4 DEF Bytes
  <2>2. allOk' \in BOOLEAN
    BY DEF PreadTypeOK
  <2>3. QED
    BY <1>1, <1>7, <2>1, <2>2 DEF PreadTypeOK
<1>9. CallInv'
  BY <1>1, <1>2 DEF CallInv
<1>10. ReadsStayInRange'
  <2>1. Bytes(0, size)' = Bytes(0, size)
    BY <1>1 DEF Bytes
  <2>2. QED
    BY <1>1, <1>7, <2>1 DEF ReadsStayInRange
<1>11. SuccessIsComplete'
  BY <1>1, <1>2 DEF SuccessIsComplete
<1>12. LaunchedBlocksCovered'
  <2>1. ASSUME allOk' PROVE allOk /\ Block(i) \subseteq filled'
    <3>1. allOk /\ got = BlockEnd(i) - BlockOffset(i)
      BY <2>1
    <3>2. BlockOffset(i) + got = BlockEnd(i)
      BY <1>5, <3>1
    <3>3. QED
      BY <1>1, <3>1, <3>2 DEF Block
  <2>2. ASSUME allOk', NEW j \in 0 .. nextBlock - 1
        PROVE  j \in reading' \/ Block(j) \subseteq filled'
    <3>1. j \in reading \/ Block(j) \subseteq filled
      BY <1>2, <2>1, <2>2 DEF LaunchedBlocksCovered
    <3>2. QED
      BY <1>1, <2>1, <2>2, <3>1
  <2>3. \A j \in reading' : BlockOffset(j) < size
    BY <1>1, <1>2 DEF LaunchedBlocksCovered
  <2>4. pc = "join" => nextBlock >= NumThreads
    BY <1>2 DEF LaunchedBlocksCovered
  <2>5. QED
    BY <1>1, <1>3, <2>2, <2>3, <2>4, SameSizeSameBlocks DEF LaunchedBlocksCovered
<1>13. QED
  BY <1>8, <1>9, <1>10, <1>11, <1>12

(* The join returns true only for a complete read.                         *)
LEMMA JoinPreserves == PreadInv /\ JoinBlocks => PreadInv'
<1> SUFFICES ASSUME PreadInv, JoinBlocks PROVE PreadInv'
  OBVIOUS
<1> USE DEF PreadInv, JoinBlocks
<1>1. allOk => Bytes(0, size) \subseteq filled
  <2>1. /\ size \in Sizes /\ size >= MinBlockSize * 2 /\ nextBlock >= NumThreads
        /\ nextBlock \in Nat
    BY DEF LaunchedBlocksCovered, CallInv, PreadTypeOK
  <2>2. NumThreads \in Nat
    BY <2>1, BlocksReachTheEnd, PreadAssumption
  <2>3. allOk => \A i \in 0 .. nextBlock - 1 : Block(i) \subseteq filled
    BY DEF LaunchedBlocksCovered
  <2>4. 0 .. NumThreads - 1 \subseteq 0 .. nextBlock - 1
    BY <2>1, <2>2
  <2>5. \A b \in Bytes(0, size) : \E i \in 0 .. NumThreads - 1 : b \in Block(i)
    BY <2>1, BlocksTileTheRead
  <2>6. QED
    BY <2>3, <2>4, <2>5
<1>2. Bytes(0, size)' = Bytes(0, size)
  BY DEF Bytes
<1>3. SuccessIsComplete'
  BY <1>1, <1>2 DEF SuccessIsComplete, ReadsStayInRange
<1>4. PreadTypeOK' /\ CallInv' /\ LaunchedBlocksCovered' /\ ReadsStayInRange'
  BY <1>2 DEF PreadTypeOK, CallInv, LaunchedBlocksCovered, ReadsStayInRange
<1>5. QED
  BY <1>3, <1>4

(* Every step keeps the invariant.                                         *)
LEMMA PreadInvNext == PreadInv /\ [PreadNext]_preadVars => PreadInv'
<1> SUFFICES ASSUME PreadInv, [PreadNext]_preadVars PROVE PreadInv'
  OBVIOUS
<1>1. ASSUME NEW s \in Sizes, ExecuteParallelPread(s) PROVE PreadInv'
  <2>1. s \in Nat /\ MinBlockSize \in Nat \ {0}
    BY PreadAssumption
  <2>2. PreadTypeOK' /\ CallInv'
    BY <1>1, <2>1 DEF PreadInv, PreadTypeOK, CallInv, ExecuteParallelPread
  <2>3. LaunchedBlocksCovered'
    BY <1>1, <2>1 DEF LaunchedBlocksCovered, ExecuteParallelPread
  <2>4. ReadsStayInRange' /\ SuccessIsComplete'
    BY <1>1, <2>1 DEF ReadsStayInRange, SuccessIsComplete, ExecuteParallelPread
  <2>5. QED
    BY <2>2, <2>3, <2>4 DEF PreadInv
<1>2. ASSUME NEW got \in Got(size), ReadSingle(got) PROVE PreadInv'
  <2>1. size \in Nat /\ size > 0
    BY <1>2, PreadAssumption DEF ReadSingle, PreadInv, CallInv
  <2>2. got \in Nat /\ got <= size
    BY <2>1 DEF Got
  <2>3. Bytes(0, got) \subseteq Bytes(0, size) /\ Bytes(0, size) \subseteq Nat
    BY <2>1, <2>2 DEF Bytes
  <2>4. Bytes(0, size)' = Bytes(0, size)
    BY <1>2 DEF ReadSingle, Bytes
  <2>5. PreadTypeOK' /\ CallInv'
    BY <1>2, <2>3 DEF PreadInv, PreadTypeOK, CallInv, ReadSingle
  <2>6. LaunchedBlocksCovered'
    BY <1>2 DEF LaunchedBlocksCovered, ReadSingle
  <2>7. ReadsStayInRange' /\ SuccessIsComplete'
    BY <1>2, <2>3, <2>4 DEF ReadsStayInRange, SuccessIsComplete, ReadSingle
  <2>8. QED
    BY <2>5, <2>6, <2>7 DEF PreadInv
<1>3. CASE LaunchBlock
  BY <1>3, LaunchPreserves
<1>4. CASE AllLaunched
  <2>1. size' = size /\ reading' = reading /\ nextBlock' = nextBlock /\ allOk' = allOk
        /\ filled' = filled /\ result' = result /\ nextBlock >= NumThreads
        /\ pc = "launch" /\ pc' = "join"
    BY <1>4 DEF AllLaunched
  <2>2. PreadTypeOK' /\ CallInv'
    BY <2>1 DEF PreadInv, PreadTypeOK, CallInv
  <2>3. LaunchedBlocksCovered'
    BY <2>1, SameSizeSameBlocks DEF PreadInv, LaunchedBlocksCovered
  <2>4. ReadsStayInRange' /\ SuccessIsComplete'
    BY <2>1 DEF PreadInv, ReadsStayInRange, SuccessIsComplete, Bytes
  <2>5. QED
    BY <2>2, <2>3, <2>4 DEF PreadInv
<1>5. ASSUME NEW i \in reading, NEW got \in Got(BlockEnd(i) - BlockOffset(i)), ReadBlock(i, got)
      PROVE  PreadInv'
  BY <1>5, ReadPreserves
<1>6. CASE JoinBlocks
  BY <1>6, JoinPreserves
<1>7. CASE UNCHANGED preadVars
  <2>1. size' = size /\ reading' = reading /\ nextBlock' = nextBlock /\ allOk' = allOk
        /\ filled' = filled /\ result' = result /\ pc' = pc
    BY <1>7 DEF preadVars
  <2>2. PreadTypeOK' /\ CallInv'
    BY <2>1 DEF PreadInv, PreadTypeOK, CallInv
  <2>3. LaunchedBlocksCovered'
    BY <2>1, SameSizeSameBlocks DEF PreadInv, LaunchedBlocksCovered
  <2>4. ReadsStayInRange' /\ SuccessIsComplete'
    BY <2>1 DEF PreadInv, ReadsStayInRange, SuccessIsComplete, Bytes
  <2>5. QED
    BY <2>2, <2>3, <2>4 DEF PreadInv
<1>8. QED
  BY <1>1, <1>2, <1>3, <1>4, <1>5, <1>6, <1>7 DEF PreadNext

(* The invariant holds for all behaviours.                                 *)
LEMMA PreadInvAlways == PreadSpec => []PreadInv
BY PreadInvInit, PreadInvNext, PTL DEF PreadSpec

(* ExecuteParallelPread returns true only when every byte it was asked for *)
(* is in the buffer, whatever the sizes, alignment and thread count.       *)
THEOREM SuccessfulReadsAreComplete == PreadSpec => []SuccessIsComplete
<1>1. PreadInv => SuccessIsComplete
  BY DEF PreadInv
<1>2. QED
  BY <1>1, PreadInvAlways, PTL

(* It never writes a byte outside the range of the request.                *)
THEOREM NothingReadOutside == PreadSpec => []ReadsStayInRange
<1>1. PreadInv => ReadsStayInRange
  BY DEF PreadInv
<1>2. QED
  BY <1>1, PreadInvAlways, PTL

(* The threads reading at one time write to different bytes, from aligned  *)
(* offsets.                                                                *)
THEOREM ThreadsReadApart == PreadSpec => []ConcurrentBlocksApart
<1>1. PreadInv => ConcurrentBlocksApart
  <2>1. SUFFICES ASSUME PreadInv, reading # {} PROVE ConcurrentBlocksApart
    BY DEF ConcurrentBlocksApart
  <2>2. reading \subseteq Nat
    BY <2>1 DEF PreadInv, PreadTypeOK
  <2>3. size \in Sizes /\ size >= MinBlockSize * 2
    BY <2>1 DEF PreadInv, CallInv, LaunchedBlocksCovered
  <2>4. QED
    BY <2>2, <2>3, BlocksTileTheRead DEF ConcurrentBlocksApart
<1>2. QED
  BY <1>1, PreadInvAlways, PTL

-----------------------------------------------------------------------------
(* Counting the elements of a sequence that are in a set.                  *)

CountIn(s, E) == Cardinality({i \in 1 .. Len(s) : s[i] \in E})

(* A count is a natural number, at most the length, and 0 just if no       *)
(* element is counted.                                                     *)
LEMMA CountType ==
  ASSUME NEW S, NEW s \in Seq(S), NEW E
  PROVE  /\ IsFiniteSet({i \in 1 .. Len(s) : s[i] \in E})
         /\ CountIn(s, E) \in 0 .. Len(s)
         /\ CountIn(s, E) = 0 <=> \A i \in 1 .. Len(s) : s[i] \notin E
<1> DEFINE I == {i \in 1 .. Len(s) : s[i] \in E}
<1>1. Len(s) \in Nat
  BY LenProperties
<1>2. IsFiniteSet(1 .. Len(s)) /\ Cardinality(1 .. Len(s)) = Len(s)
  BY <1>1, FS_Interval
<1>3. I \in SUBSET (1 .. Len(s))
  OBVIOUS
<1>4. IsFiniteSet(I) /\ Cardinality(I) <= Len(s)
  <2> HIDE DEF I
  <2> QED BY <1>2, <1>3, FS_Subset
<1>5. Cardinality(I) \in Nat
  BY <1>4, FS_CardinalityType
<1>6. Cardinality(I) = 0 <=> I = {}
  BY <1>4, FS_EmptySet
<1>7. I = {} <=> \A i \in 1 .. Len(s) : s[i] \notin E
  OBVIOUS
<1>8. QED
  <2>1. CountIn(s, E) = Cardinality(I)
    BY DEF CountIn
  <2> HIDE DEF I
  <2>2. CountIn(s, E) \in 0 .. Len(s)
    BY <1>1, <1>4, <1>5, <2>1
  <2>3. QED
    BY <1>4, <1>6, <1>7, <2>1, <2>2 DEF I

(* Nothing is counted in the empty sequence.                               *)
LEMMA CountEmpty == ASSUME NEW E PROVE CountIn(<<>>, E) = 0
<1>1. {i \in 1 .. Len(<<>>) : <<>>[i] \in E} = {}
  OBVIOUS
<1>2. QED
  BY <1>1, FS_EmptySet DEF CountIn

(* Counts of a concatenation add up.                                       *)
LEMMA CountConcat ==
  ASSUME NEW S, NEW s \in Seq(S), NEW t \in Seq(S), NEW E
  PROVE  CountIn(s \o t, E) = CountIn(s, E) + CountIn(t, E)
<1> DEFINE A == {i \in 1 .. Len(s) : s[i] \in E}
           B == {i \in 1 .. Len(t) : t[i] \in E}
           C == {j \in Len(s) + 1 .. Len(s) + Len(t) : t[j - Len(s)] \in E}
           f == [i \in B |-> Len(s) + i]
<1>1. Len(s) \in Nat /\ Len(t) \in Nat
  BY LenProperties
<1>2. IsFiniteSet(A) /\ IsFiniteSet(B)
  BY CountType
<1>3. f \in Bijection(B, C)
  <2>1. f \in [B -> C]
    <3>1. ASSUME NEW i \in B PROVE Len(s) + i \in C
      <4>1. i \in Nat /\ i >= 1 /\ i <= Len(t) /\ t[i] \in E
        BY <1>1
      <4>2. (Len(s) + i) - Len(s) = i
        BY <1>1, <4>1
      <4>3. QED
        BY <1>1, <4>1, <4>2
    <3>2. QED
      BY <3>1
  <2>2. \A i, j \in B : f[i] = f[j] => i = j
    BY <1>1
  <2>3. ASSUME NEW j \in C PROVE \E i \in B : f[i] = j
    <3>1. j - Len(s) \in B /\ Len(s) + (j - Len(s)) = j
      BY <1>1
    <3>2. f[j - Len(s)] = j
      BY <3>1
    <3>3. QED
      BY <3>1, <3>2
  <2>4. QED
    <3> HIDE DEF B, C, f
    <3> QED BY <2>1, <2>2, <2>3, Fun_IsBij
<1>4. IsFiniteSet(C) /\ Cardinality(C) = Cardinality(B)
  <2> HIDE DEF B, C, f
  <2> QED BY <1>2, <1>3, FS_Bijection DEF ExistsBijection
<1>5. A \cap C = {}
  BY <1>1
<1>6. {i \in 1 .. Len(s \o t) : (s \o t)[i] \in E} = A \cup C
  <2>1. Len(s \o t) = Len(s) + Len(t)
    BY ConcatProperties
  <2>2. \A i \in 1 .. Len(s) + Len(t) :
           (s \o t)[i] = IF i <= Len(s) THEN s[i] ELSE t[i - Len(s)]
    BY ConcatProperties
  <2>3. QED
    BY <1>1, <2>1, <2>2
<1>7. Cardinality(A \cup C) = Cardinality(A) + Cardinality(C)
  <2>1. Cardinality(A) \in Nat /\ Cardinality(C) \in Nat
    BY <1>2, <1>4, FS_CardinalityType
  <2>2. Cardinality(A \cap C) = 0
    BY <1>5, FS_EmptySet
  <2>3. Cardinality(A \cup C) = Cardinality(A) + Cardinality(C) - Cardinality(A \cap C)
    <3> HIDE DEF A, C
    <3> QED BY <1>2, <1>4, FS_Union
  <2>4. QED
    BY <2>1, <2>2, <2>3
<1>8. QED
  BY <1>4, <1>6, <1>7 DEF CountIn

(* The count in a sequence of one element.                                 *)
LEMMA CountSingle ==
  ASSUME NEW x, NEW E
  PROVE  CountIn(<<x>>, E) = IF x \in E THEN 1 ELSE 0
<1>1. {i \in 1 .. Len(<<x>>) : <<x>>[i] \in E} = IF x \in E THEN {1} ELSE {}
  OBVIOUS
<1>2. Cardinality({1}) = 1 /\ Cardinality({}) = 0
  BY FS_Singleton, FS_EmptySet
<1>3. QED
  BY <1>1, <1>2 DEF CountIn

(* What appending an element adds to a count.                              *)
LEMMA CountAppend ==
  ASSUME NEW S, NEW s \in Seq(S), NEW x \in S, NEW E
  PROVE  CountIn(Append(s, x), E) = CountIn(s, E) + (IF x \in E THEN 1 ELSE 0)
<1>1. Append(s, x) = s \o <<x>> /\ <<x>> \in Seq(S)
  BY AppendIsConcat
<1>2. CountIn(s \o <<x>>, E) = CountIn(s, E) + CountIn(<<x>>, E)
  BY <1>1, CountConcat
<1>3. CountIn(<<x>>, E) = IF x \in E THEN 1 ELSE 0
  BY CountSingle
<1>4. QED
  BY <1>1, <1>2, <1>3

(* What removing one element takes from a count.                           *)
LEMMA CountRemove ==
  ASSUME NEW S, NEW s \in Seq(S), NEW i \in 1 .. Len(s), NEW E
  PROVE  /\ RemoveAt(s, i) \in Seq(S)
         /\ s[i] \in S
         /\ CountIn(s, E) = CountIn(RemoveAt(s, i), E) + (IF s[i] \in E THEN 1 ELSE 0)
<1> DEFINE a == SubSeq(s, 1, i - 1)
           b == SubSeq(s, i + 1, Len(s))
<1>1. Len(s) \in Nat /\ i \in Nat /\ 1 <= i /\ i <= Len(s)
  BY LenProperties
<1>2. s[i] \in S
  BY <1>1, ElementOfSeq
<1>3. a \in Seq(S) /\ b \in Seq(S)
  BY <1>1
<1>4. <<s[i]>> \in Seq(S)
  BY <1>2
<1>5. Len(a) = i - 1 /\ \A k \in 1 .. i - 1 : a[k] = s[k]
  BY <1>1
<1>6. Len(b) = Len(s) - i /\ \A k \in 1 .. Len(s) - i : b[k] = s[i + k]
  BY <1>1
<1>7. s = (a \o <<s[i]>>) \o b
  <2> DEFINE u == (a \o <<s[i]>>) \o b
             v == a \o <<s[i]>>
  <2>1. v \in Seq(S) /\ Len(v) = i /\ \A k \in 1 .. i : v[k] = s[k]
    <3> HIDE DEF a, b
    <3> QED BY <1>1, <1>3, <1>4, <1>5
  <2>2. u \in Seq(S) /\ Len(u) = Len(s)
    <3> HIDE DEF a, b, v
    <3>1. v \o b \in Seq(S) /\ Len(v \o b) = Len(v) + Len(b)
      BY <1>3, <2>1, ConcatProperties
    <3>2. QED
      BY <1>1, <1>6, <2>1, <3>1 DEF v
  <2>3. \A k \in 1 .. Len(s) : u[k] = s[k]
    <3> HIDE DEF a, b, v
    <3>1. \A k \in 1 .. Len(v) + Len(b) : (v \o b)[k] = IF k <= Len(v) THEN v[k] ELSE b[k - Len(v)]
      BY <1>3, <2>1, ConcatProperties
    <3>2. ASSUME NEW k \in 1 .. Len(s), ~(k <= i) PROVE b[k - i] = s[k]
      <4>1. k - i \in 1 .. Len(s) - i /\ i + (k - i) = k
        BY <1>1, <3>2
      <4>2. QED
        BY <1>6, <4>1
    <3>3. QED
      BY <1>1, <1>6, <2>1, <3>1, <3>2 DEF v
  <2>4. s = u
    <3> HIDE DEF u
    <3> QED BY <2>2, <2>3, SeqEqual
  <2>5. QED
    BY <2>4
<1>8. RemoveAt(s, i) = a \o b
  BY DEF RemoveAt
<1>9. a \o b \in Seq(S) /\ a \o <<s[i]>> \in Seq(S)
  <2> HIDE DEF a, b
  <2> QED BY <1>3, <1>4, ConcatProperties
<1>10. CountIn((a \o <<s[i]>>) \o b, E) = CountIn(a \o <<s[i]>>, E) + CountIn(b, E)
  <2> HIDE DEF a, b
  <2> QED BY <1>3, <1>9, CountConcat
<1>11. CountIn(a \o <<s[i]>>, E) = CountIn(a, E) + (IF s[i] \in E THEN 1 ELSE 0)
  <2>1. CountIn(<<s[i]>>, E) = IF s[i] \in E THEN 1 ELSE 0
    BY CountSingle
  <2>2. CountIn(a \o <<s[i]>>, E) = CountIn(a, E) + CountIn(<<s[i]>>, E)
    <3> HIDE DEF a, b
    <3> QED BY <1>3, <1>4, CountConcat
  <2>3. QED
    BY <2>1, <2>2
<1>12. CountIn(a \o b, E) = CountIn(a, E) + CountIn(b, E)
  <2> HIDE DEF a, b
  <2> QED BY <1>3, CountConcat
<1>13. CountIn(a, E) \in Nat /\ CountIn(b, E) \in Nat
  <2>1. Len(a) \in Nat /\ Len(b) \in Nat
    BY <1>1, <1>5, <1>6
  <2>2. CountIn(a, E) \in 0 .. Len(a) /\ CountIn(b, E) \in 0 .. Len(b)
    <3> HIDE DEF a, b
    <3> QED BY <1>3, CountType
  <2> HIDE DEF a, b
  <2> QED BY <2>1, <2>2
<1>14. CountIn(s, E) = CountIn((a \o <<s[i]>>) \o b, E)
  BY <1>7
<1>15. CountIn(RemoveAt(s, i), E) = CountIn(a, E) + CountIn(b, E)
  BY <1>8, <1>12
<1>16. CountIn(s, E) = CountIn(a, E) + (IF s[i] \in E THEN 1 ELSE 0) + CountIn(b, E)
  BY <1>10, <1>11, <1>14
<1>17. CountIn(s, E) = CountIn(RemoveAt(s, i), E) + (IF s[i] \in E THEN 1 ELSE 0)
  <2> HIDE DEF a, b
  <2> QED BY <1>13, <1>15, <1>16
<1>18. RemoveAt(s, i) \in Seq(S)
  BY <1>8, <1>9
<1>19. QED
  BY <1>2, <1>17, <1>18

(* What removing the head takes from a count.                              *)
LEMMA CountTail ==
  ASSUME NEW S, NEW s \in Seq(S), s # <<>>, NEW E
  PROVE  /\ Tail(s) \in Seq(S)
         /\ Head(s) \in S
         /\ CountIn(s, E) = CountIn(Tail(s), E) + (IF Head(s) \in E THEN 1 ELSE 0)
<1>1. Len(s) \in Nat /\ Len(s) # 0
  BY LenProperties, EmptySeq
<1>2. Head(s) = s[1] /\ Head(s) \in S /\ Tail(s) \in Seq(S)
  BY <1>1, HeadTailProperties
<1>3. s = <<Head(s)>> \o Tail(s) /\ <<Head(s)>> \in Seq(S)
  BY <1>1, <1>2
<1>4. CountIn(<<Head(s)>> \o Tail(s), E) = CountIn(<<Head(s)>>, E) + CountIn(Tail(s), E)
  BY <1>2, <1>3, CountConcat
<1>5. CountIn(Tail(s), E) \in 0 .. Len(Tail(s)) /\ Len(Tail(s)) \in Nat
  BY <1>2, CountType, LenProperties
<1>6. CountIn(<<Head(s)>>, E) = IF Head(s) \in E THEN 1 ELSE 0
  BY CountSingle
<1>7. CountIn(s, E) = CountIn(<<Head(s)>>, E) + CountIn(Tail(s), E)
  BY Zenon, <1>3, <1>4
<1>8. QED
  BY <1>2, <1>5, <1>6, <1>7

-----------------------------------------------------------------------------
(* Types of the io_uring engine.                                           *)

Requests == [epoch : 1 .. 2^16 - 1, pending : Nat, completed : Nat, error : BOOLEAN]
Reports == [group : Groups, ok : BOOLEAN]
Cqes == [group : Groups, epoch : 0 .. 2^16 - 1, res : {-1, 0, 1}]

InflightOK == DOMAIN inflight \subseteq Groups /\ \A g \in DOMAIN inflight : inflight[g] \in Requests

(* Handling a read, as HandleCqe does, leaves a request of the same type.  *)
LEMMA CountReadType ==
  ASSUME NEW state \in Requests, NEW res \in {-1, 0, 1}
  PROVE  LET new == CountRead(state, res) IN
         /\ new \in Requests
         /\ new.epoch = state.epoch
         /\ new.pending = IF state.pending > 0 THEN state.pending - 1 ELSE 0
         /\ new.completed = IF res = 1 THEN state.completed + 1 ELSE state.completed
         /\ new.error = (state.error \/ res = -1)
<1> DEFINE pending == IF state.pending > 0 THEN state.pending - 1 ELSE 0
           completed == IF res > 0 THEN state.completed + res ELSE state.completed
           error == state.error \/ res < 0
           new == [epoch |-> state.epoch, pending |-> pending,
                   completed |-> completed, error |-> error]
<1>1. /\ state.epoch \in 1 .. 2^16 - 1 /\ state.pending \in Nat
      /\ state.completed \in Nat /\ state.error \in BOOLEAN
      /\ state = [epoch |-> state.epoch, pending |-> state.pending,
                  completed |-> state.completed, error |-> state.error]
  BY Zenon DEF Requests
<1>2. CountRead(state, res) = new
  <2>1. CountRead(state, res) = [[[state EXCEPT !.pending = pending]
                                    EXCEPT !.completed = completed] EXCEPT !.error = error]
    BY <1>1 DEF CountRead
  <2> HIDE DEF pending, completed, error
  <2>2. QED
    BY Zenon, <1>1, <2>1
<1>3. pending \in Nat /\ error \in BOOLEAN /\ error = (state.error \/ res = -1)
  BY <1>1
<1>4. completed \in Nat /\ completed = IF res = 1 THEN state.completed + 1 ELSE state.completed
  BY <1>1
<1>5. new \in Requests
  <2> HIDE DEF pending, completed, error
  <2> QED BY Zenon, <1>1, <1>3, <1>4 DEF Requests
<1>6. /\ new.epoch = state.epoch /\ new.pending = pending
      /\ new.completed = completed /\ new.error = error
  <2> HIDE DEF pending, completed, error
  <2> QED OBVIOUS
<1>7. QED
  <2> HIDE DEF new
  <2> QED BY <1>2, <1>3, <1>4, <1>5, <1>6

(* Raising the pending count of a group leaves requests.                   *)
LEMMA AddPendingType ==
  ASSUME NEW state \in Requests
  PROVE  LET new == [state EXCEPT !.pending = @ + 1] IN
         /\ new \in Requests
         /\ new.epoch = state.epoch /\ new.pending = state.pending + 1
         /\ new.completed = state.completed /\ new.error = state.error
<1>1. /\ state.epoch \in 1 .. 2^16 - 1 /\ state.pending \in Nat
      /\ state.completed \in Nat /\ state.error \in BOOLEAN
      /\ state = [epoch |-> state.epoch, pending |-> state.pending,
                  completed |-> state.completed, error |-> state.error]
  BY Zenon DEF Requests
<1> DEFINE pending == state.pending + 1
           new == [epoch |-> state.epoch, pending |-> pending,
                   completed |-> state.completed, error |-> state.error]
<1>2. [state EXCEPT !.pending = pending] = new
  <2> HIDE DEF pending
  <2> QED BY <1>1
<1>3. pending \in Nat
  BY <1>1
<1>4. new \in Requests
  <2> HIDE DEF pending
  <2> QED BY Zenon, <1>1, <1>3 DEF Requests
<1>5. /\ new.epoch = state.epoch /\ new.pending = pending
      /\ new.completed = state.completed /\ new.error = state.error
  <2> HIDE DEF pending
  <2> QED OBVIOUS
<1>6. QED
  <2> HIDE DEF new
  <2> QED BY <1>2, <1>4, <1>5

(* Taking the head of the completion ring keeps the types of requests and  *)
(* reports.                                                                *)
LEMMA CollectTypes ==
  ASSUME UringTypeOK, CollectOne
  PROVE  /\ InflightOK'
         /\ reports' \in Seq(Reports)
         /\ cq' \in Seq(Cqes)
<1> DEFINE cqe == Head(cq)
           g == cqe.group
           state == CountRead(inflight[g], cqe.res)
<1>1. cqe \in Cqes /\ cq' \in Seq(Cqes)
  BY Zenon, HeadTailProperties DEF CollectOne, UringTypeOK, Cqes
<1>2. InflightOK /\ reports \in Seq(Reports)
  BY Zenon DEF InflightOK, UringTypeOK, Requests, Reports
<1>3. CASE g \notin DOMAIN inflight \/ inflight[g].epoch # cqe.epoch
  <2>1. inflight' = inflight /\ reports' = reports
    BY <1>3 DEF CollectOne, ProcessCqe, engineVars
  <2>2. QED
    BY <1>1, <1>2, <2>1 DEF InflightOK
<1>4. CASE ~(g \notin DOMAIN inflight \/ inflight[g].epoch # cqe.epoch)
  <2>1. g \in Groups /\ cqe.res \in {-1, 0, 1}
    BY Zenon, <1>1 DEF Cqes
  <2>2. state \in Requests
    BY <1>2, <1>4, <2>1, CountReadType DEF InflightOK
  <2>3. CASE state.pending = 0
    <3>1. inflight' = Without(g) /\ reports' = Append(reports, Report(g, state))
      BY <1>4, <2>3 DEF CollectOne, ProcessCqe
    <3>2. Report(g, state) \in Reports
      BY Zenon, <2>1, <2>2 DEF Report, Reports, Requests
    <3>3. InflightOK'
      BY <1>2, <3>1 DEF InflightOK, Without, Restrict
    <3>4. reports' \in Seq(Reports)
      <4> HIDE DEF g, state
      <4> QED BY <1>2, <3>1, <3>2, AppendProperties
    <3>5. QED
      BY <1>1, <3>3, <3>4
  <2>4. CASE state.pending # 0
    <3>1. inflight' = [inflight EXCEPT ![g] = state] /\ reports' = reports
      BY <1>4, <2>4 DEF CollectOne, ProcessCqe
    <3>2. InflightOK'
      <4> HIDE DEF g, state
      <4> QED BY <1>2, <1>4, <2>2, <3>1 DEF InflightOK
    <3>3. QED
      BY <1>1, <1>2, <3>1, <3>2
  <2>5. QED
    BY <2>3, <2>4
<1>5. QED
  BY <1>3, <1>4

(* The types of the state, one by one.                                     *)
LEMMA TypeFacts ==
  ASSUME UringTypeOK
  PROVE  /\ claimed \subseteq Groups /\ queue \in Seq(Groups)
         /\ sjob \in Groups /\ sub \in Nat
         /\ InflightOK
         /\ reports \in Seq(Reports) /\ batch \in Seq(Reports)
         /\ sq \in Seq(Tags) /\ kernel \in Seq(Tags) /\ cq \in Seq(Cqes)
         /\ Len(sq) \in Nat /\ Len(sq) <= RingDepth
         /\ failures \in Nat
         /\ \A g \in DOMAIN inflight :
              /\ g \in Groups /\ inflight[g] \in Requests
              /\ inflight[g].epoch \in Nat
              /\ inflight[g].epoch \in 1 .. 2^16 - 1 /\ inflight[g].pending \in Nat
              /\ inflight[g].completed \in Nat /\ inflight[g].error \in BOOLEAN
<1>1. DOMAIN inflight \subseteq Groups /\ \A g \in DOMAIN inflight : inflight[g] \in Requests
  BY Zenon DEF UringTypeOK, Requests
<1>2. \A g \in DOMAIN inflight :
        /\ inflight[g].epoch \in 1 .. 2^16 - 1 /\ inflight[g].pending \in Nat
        /\ inflight[g].completed \in Nat /\ inflight[g].error \in BOOLEAN
  BY Zenon, <1>1 DEF Requests
<1>3. \A e \in 1 .. 2^16 - 1 : e \in Nat
  OBVIOUS
<1>4. sq \in Seq(Tags) /\ Len(sq) <= RingDepth
  BY Zenon DEF UringTypeOK
<1>5. Len(sq) \in Nat
  BY <1>4, LenProperties
<1>6. failures \in Nat
  <2>1. failures \in 0 .. MaxFailures
    BY Zenon DEF UringTypeOK
  <2>2. QED
    BY <2>1, IoUringAssumption
<1>7. /\ claimed \subseteq Groups /\ queue \in Seq(Groups) /\ sjob \in Groups /\ sub \in Nat
      /\ reports \in Seq(Reports) /\ batch \in Seq(Reports)
      /\ kernel \in Seq(Tags) /\ cq \in Seq(Cqes)
  BY Zenon DEF UringTypeOK, Reports, Cqes
<1>8. QED
  BY Zenon, <1>1, <1>2, <1>3, <1>4, <1>5, <1>6, <1>7 DEF InflightOK

(* The engine is initialised with its types.                               *)
LEMMA UringTypeInit == UringInit => UringTypeOK
<1> SUFFICES ASSUME UringInit PROVE UringTypeOK
  OBVIOUS
<1>1. NoJob \in Groups
  BY IoUringAssumption DEF NoJob
<1>2. \A S : <<>> \in Seq(S)
  BY EmptySeq
<1>3. DOMAIN inflight = {} /\ Len(sq) = 0
  BY DEF UringInit
<1>4. RingDepth \in Nat /\ failures \in 0 .. MaxFailures
  BY IoUringAssumption DEF UringInit
<1>5. QED
  BY <1>1, <1>2, <1>3, <1>4 DEF UringInit, UringTypeOK, SubmitPcs

(* Every step of the engine keeps the types.                               *)
LEMMA UringTypeStep == UringTypeOK /\ [UringNext]_uringVars => UringTypeOK'
<1> SUFFICES ASSUME UringTypeOK, [UringNext]_uringVars PROVE UringTypeOK'
  OBVIOUS
<1> USE DEF clientVars, threadVars, engineVars, ringVars, SubmitPcs
<1>t. /\ Subreads \in [Groups -> Nat \ {0}] /\ RingDepth \in Nat \ {0} /\ MaxFailures \in Nat
      /\ \A S : <<>> \in Seq(S)
      /\ sjob \in Groups /\ sub \in Nat /\ InflightOK
      /\ sq \in Seq(Tags) /\ Len(sq) \in Nat /\ Len(sq) <= RingDepth
      /\ \A g \in DOMAIN inflight : inflight[g].epoch \in 1 .. 2^16 - 1 /\ inflight[g].epoch \in Nat
  BY IoUringAssumption, EmptySeq, TypeFacts
<1>1. ASSUME NEW g \in Groups, Enqueue(g) PROVE UringTypeOK'
  <2>1. Append(queue, g) \in Seq(Groups)
    BY Zenon, AppendProperties DEF UringTypeOK
  <2>2. QED
    BY Zenon, <1>1, <2>1 DEF UringTypeOK, Enqueue
<1>2. CASE StopWorker
  BY Zenon, <1>2 DEF StopWorker, UringTypeOK
<1>3. CASE ClearQueue
  BY Zenon, <1>3, <1>t DEF ClearQueue, UringTypeOK
<1>4. CASE JoinAndShutdown
  <2>1. DOMAIN inflight' = {} /\ Len(sq') <= RingDepth
    BY <1>4, <1>t DEF JoinAndShutdown
  <2>2. QED
    BY Zenon, <1>4, <1>t, <2>1 DEF JoinAndShutdown, UringTypeOK
<1>5. CASE TakeJob
  <2>1. Head(queue) \in Groups /\ Tail(queue) \in Seq(Groups)
    BY Zenon, <1>5, HeadTailProperties DEF UringTypeOK, TakeJob
  <2>2. QED
    BY Zenon, <1>5, <2>1 DEF TakeJob, UringTypeOK
<1>6. CASE SubmissionExit
  BY Zenon, <1>6 DEF SubmissionExit, UringTypeOK
<1>7. CASE SubmitBegin
  <2>1. NextEpoch(sjob) \in 1 .. 2^16 - 1
    <3>1. \A e \in Nat : (e + 1) % 2^16 \in 0 .. 2^16 - 1 /\ 1 \in 1 .. 2^16 - 1
      OBVIOUS
    <3>2. \A e \in 0 .. 2^16 - 1 : (IF e = 0 THEN 1 ELSE e) \in 1 .. 2^16 - 1
      OBVIOUS
    <3>3. QED
      BY <1>t, <3>1, <3>2 DEF NextEpoch
  <2>2. /\ DOMAIN inflight' = DOMAIN inflight \cup {sjob}
        /\ \A h \in DOMAIN inflight' : inflight'[h] =
             IF h = sjob
             THEN [epoch |-> NextEpoch(sjob), pending |-> 0, completed |-> 0, error |-> FALSE]
             ELSE inflight[h]
    BY <1>7 DEF SubmitBegin
  <2>3. InflightOK'
    <3>1. [epoch |-> NextEpoch(sjob), pending |-> 0, completed |-> 0, error |-> FALSE] \in Requests
      BY Zenon, <2>1 DEF Requests
    <3>2. QED
      BY <1>t, <2>2, <3>1 DEF InflightOK
  <2>4. landed' \in [Groups -> SUBSET Nat] /\ spc' = "prepare" /\ sub' = 0
    BY Zenon, <1>7 DEF UringTypeOK, SubmitBegin
  <2>5. QED
    BY Zenon, <1>7, <2>3, <2>4 DEF UringTypeOK, SubmitBegin, InflightOK, Requests
<1>8. CASE PrepareRead
  <2>1. PICK e \in (IF Dangling THEN {0, 1} ELSE {inflight[sjob].epoch}) :
           sq' = Append(sq, [group |-> sjob, epoch |-> e, sub |-> sub])
    BY Zenon, <1>8 DEF PrepareRead
  <2>2. e \in 0 .. 2^16 - 1
    BY <1>t, <2>1 DEF Dangling
  <2>3. [group |-> sjob, epoch |-> e, sub |-> sub] \in Tags
    BY Zenon, <2>2 DEF UringTypeOK, Tags
  <2>4. sq' \in Seq(Tags) /\ Len(sq') = Len(sq) + 1 /\ Len(sq) \in Nat
    <3> HIDE DEF Tags
    <3> DEFINE tag == [group |-> sjob, epoch |-> e, sub |-> sub]
    <3>1. tag \in Tags /\ sq' = Append(sq, tag)
      BY <2>1, <2>3
    <3> HIDE DEF tag
    <3>2. QED
      BY <1>t, <3>1, AppendProperties
  <2>5. InflightOK'
    <3>1. CASE Dangling
      BY <1>8, <1>t, <3>1 DEF PrepareRead, InflightOK
    <3>2. CASE ~Dangling
      <4> DEFINE new == [inflight[sjob] EXCEPT !.pending = @ + 1]
      <4>1. sjob \in DOMAIN inflight /\ inflight[sjob] \in Requests
        BY <1>t, <3>2 DEF Dangling, InflightOK
      <4>2. new \in Requests
        BY <4>1, AddPendingType
      <4>3. inflight' = [inflight EXCEPT ![sjob] = new]
        BY <1>8, <3>2 DEF PrepareRead
      <4> HIDE DEF new
      <4>4. QED
        BY <1>t, <4>1, <4>2, <4>3 DEF InflightOK
    <3>3. QED
      BY <3>1, <3>2
  <2>6. sub' \in Nat /\ Len(sq') <= RingDepth
    BY <1>8, <1>t, <2>4 DEF PrepareRead
  <2>7. QED
    BY Zenon, <1>8, <2>4, <2>5, <2>6 DEF PrepareRead, UringTypeOK, InflightOK, Requests
<1>h. ASSUME HandOver PROVE kernel' \in Seq(Tags) /\ sq' \in Seq(Tags) /\ Len(sq') <= RingDepth /\ cq' = cq
  <2>1. kernel \o sq \in Seq(Tags)
    BY Zenon, ConcatProperties DEF UringTypeOK
  <2>2. sq' = <<>> /\ Len(<<>>) = 0
    BY <1>h DEF HandOver
  <2>3. QED
    BY <1>h, <1>t, <2>1, <2>2 DEF HandOver
<1>r. ASSUME Refuse PROVE InflightOK' /\ spc' = "requeue"
  BY Zenon, <1>r DEF Refuse, Without, Restrict, UringTypeOK, InflightOK, Requests
<1>9. CASE SubmitFullRing
  BY Zenon, <1>9, <1>h DEF SubmitFullRing, UringTypeOK
<1>10. CASE CollectFull
  BY Zenon, <1>10, CollectTypes DEF CollectFull, CollectOne, UringTypeOK, InflightOK, Requests, Reports, Cqes
<1>11. CASE ContinueRequest
  BY Zenon, <1>11 DEF ContinueRequest, UringTypeOK
<1>12. CASE SubmitRequest
  <2>1. CASE SpoiltRequest
    BY Zenon, <1>12, <2>1, <1>r DEF SubmitRequest, UringTypeOK, InflightOK, Requests
  <2>2. CASE ~SpoiltRequest
    BY Zenon, <1>12, <2>2, <1>h DEF SubmitRequest, UringTypeOK
  <2>3. QED
    BY <2>1, <2>2
<1>13. CASE SubmitFails
  <2>1. failures' \in 0 .. MaxFailures
    <3>1. failures \in 0 .. MaxFailures /\ failures < MaxFailures /\ failures' = failures + 1
      BY Zenon, <1>13 DEF SubmitFails, UringTypeOK
    <3>2. QED
      BY <1>t, <3>1
  <2>2. QED
    BY Zenon, <1>13, <2>1, <1>r DEF SubmitFails, UringTypeOK, InflightOK, Requests
<1>14. CASE CollectAfterSubmit
  BY Zenon, <1>14, CollectTypes DEF CollectAfterSubmit, CollectOne, UringTypeOK, InflightOK, Requests, Reports, Cqes
<1>15. CASE SubmitReturn
  BY Zenon, <1>15 DEF SubmitReturn, UringTypeOK
<1>16. CASE Requeue
  <2>1. <<sjob>> \o queue \in Seq(Groups)
    <3>1. <<sjob>> \in Seq(Groups) /\ queue \in Seq(Groups)
      BY <1>t, TypeFacts
    <3>2. QED
      BY <3>1, ConcatProperties
  <2>2. QED
    BY Zenon, <1>16, <2>1 DEF Requeue, UringTypeOK
<1>17. CASE CompletionExit
  BY Zenon, <1>17 DEF CompletionExit, UringTypeOK
<1>18. CASE SeePending
  BY Zenon, <1>18 DEF SeePending, UringTypeOK
<1>19. CASE DrainCompletions
  BY Zenon, <1>19 DEF DrainCompletions, UringTypeOK
<1>20. CASE DrainOne
  BY Zenon, <1>20, CollectTypes DEF DrainOne, CollectOne, UringTypeOK, InflightOK, Requests, Reports, Cqes
<1>21. CASE DrainReturn
  BY Zenon, <1>21, <1>t DEF DrainReturn, UringTypeOK
<1>22. CASE MarkJobCompleted
  <2>1. Tail(batch) \in Seq([group : Groups, ok : BOOLEAN])
    BY Zenon, <1>22, HeadTailProperties DEF UringTypeOK, MarkJobCompleted
  <2>2. QED
    BY Zenon, <1>22, <2>1 DEF MarkJobCompleted, UringTypeOK
<1>23. CASE NextRound
  BY Zenon, <1>23 DEF NextRound, UringTypeOK
<1>24. ASSUME NEW i \in 1 .. Len(kernel), NEW res \in {-1, 0, 1}, EndRead(i, res) PROVE UringTypeOK'
  <2>1. kernel[i] \in Tags /\ RemoveAt(kernel, i) \in Seq(Tags)
    BY Zenon, CountRemove DEF UringTypeOK
  <2>2. [group |-> kernel[i].group, epoch |-> kernel[i].epoch, res |-> res] \in Cqes
    BY Zenon, <2>1 DEF Tags, Cqes
  <2>3. cq' \in Seq(Cqes)
    BY Zenon, <1>24, <2>2, AppendProperties DEF EndRead, UringTypeOK, Cqes
  <2>4. landed' \in [Groups -> SUBSET Nat]
    BY Zenon, <1>24, <2>1 DEF EndRead, UringTypeOK, Tags
  <2>5. QED
    BY Zenon, <1>24, <2>1, <2>3, <2>4 DEF EndRead, UringTypeOK, Cqes
<1>25. CASE UNCHANGED uringVars
  BY Zenon, <1>25 DEF uringVars, UringTypeOK
<1>26. QED
  BY <1>1, <1>2, <1>3, <1>4, <1>5, <1>6, <1>7, <1>8, <1>9, <1>10, <1>11, <1>12, <1>13, <1>14,
     <1>15, <1>16, <1>17, <1>18, <1>19, <1>20, <1>21, <1>22, <1>23, <1>24, <1>25
     DEF UringNext, ClientStep, SubmissionStep, CompletionStep, KernelStep, Stopped

-----------------------------------------------------------------------------
(* The invariant of the io_uring engine, as long as no submission fails.   *)

(* The entries of one group are a count.                                   *)
LEMMA HowManyIs ==
  ASSUME NEW S, NEW s \in Seq(S), NEW g
  PROVE  HowMany(s, g) = CountIn(s, {x \in S : x.group = g})
<1>1. \A i \in 1 .. Len(s) : s[i] \in S
  BY ElementOfSeq
<1>2. {i \in 1 .. Len(s) : s[i].group = g} = {i \in 1 .. Len(s) : s[i] \in {x \in S : x.group = g}}
  BY <1>1
<1>3. QED
  BY <1>2 DEF HowMany, CountIn

(* The number of entries of a group is natural, and 0 just if it has none. *)
LEMMA HowManyType ==
  ASSUME NEW S, NEW s \in Seq(S), NEW g
  PROVE  /\ HowMany(s, g) \in Nat
         /\ HowMany(s, g) = 0 <=> \A i \in 1 .. Len(s) : s[i].group # g
         /\ HowMany(<<>>, g) = 0
<1> DEFINE E == {x \in S : x.group = g}
<1>1. \A i \in 1 .. Len(s) : s[i] \in S
  BY ElementOfSeq
<1>2. CountIn(s, E) \in 0 .. Len(s) /\ Len(s) \in Nat
  <2> HIDE DEF E
  <2> QED BY CountType, LenProperties
<1>3. CountIn(s, E) = 0 <=> \A i \in 1 .. Len(s) : s[i] \notin E
  <2> HIDE DEF E
  <2> QED BY CountType
<1>4. HowMany(s, g) = CountIn(s, E)
  BY HowManyIs
<1>5. HowMany(<<>>, g) = 0
  <2>1. {i \in 1 .. Len(<<>>) : <<>>[i].group = g} = {}
    OBVIOUS
  <2>2. QED
    BY <2>1, FS_EmptySet DEF HowMany
<1>6. HowMany(s, g) \in Nat
  <2> HIDE DEF E
  <2> QED BY <1>2, <1>4
<1>7. QED
  BY <1>1, <1>3, <1>4, <1>5, <1>6

(* What appending adds to the entries of a group.                          *)
LEMMA HowManyAppend ==
  ASSUME NEW S, NEW s \in Seq(S), NEW x \in S, NEW g
  PROVE  HowMany(Append(s, x), g) = HowMany(s, g) + (IF x.group = g THEN 1 ELSE 0)
<1> DEFINE E == {y \in S : y.group = g}
<1>1. Append(s, x) \in Seq(S)
  BY AppendProperties
<1>2. HowMany(s, g) = CountIn(s, E) /\ HowMany(Append(s, x), g) = CountIn(Append(s, x), E)
  BY <1>1, HowManyIs
<1>3. CountIn(Append(s, x), E) = CountIn(s, E) + (IF x \in E THEN 1 ELSE 0)
  <2> HIDE DEF E
  <2> QED BY CountAppend
<1>4. QED
  BY <1>2, <1>3

(* The entries of a group in a concatenation.                              *)
LEMMA HowManyConcat ==
  ASSUME NEW S, NEW s \in Seq(S), NEW t \in Seq(S), NEW g
  PROVE  HowMany(s \o t, g) = HowMany(s, g) + HowMany(t, g)
<1> DEFINE E == {y \in S : y.group = g}
<1>1. s \o t \in Seq(S)
  BY ConcatProperties
<1>2. /\ HowMany(s, g) = CountIn(s, E) /\ HowMany(t, g) = CountIn(t, E)
      /\ HowMany(s \o t, g) = CountIn(s \o t, E)
  BY <1>1, HowManyIs
<1>3. CountIn(s \o t, E) = CountIn(s, E) + CountIn(t, E)
  <2> HIDE DEF E
  <2> QED BY CountConcat
<1>4. QED
  BY <1>2, <1>3

(* What removing the head takes from the entries of a group.               *)
LEMMA HowManyTail ==
  ASSUME NEW S, NEW s \in Seq(S), s # <<>>, NEW g
  PROVE  HowMany(s, g) = HowMany(Tail(s), g) + (IF Head(s).group = g THEN 1 ELSE 0)
<1> DEFINE E == {y \in S : y.group = g}
<1>1. /\ Tail(s) \in Seq(S) /\ Head(s) \in S
      /\ CountIn(s, E) = CountIn(Tail(s), E) + (IF Head(s) \in E THEN 1 ELSE 0)
  <2> HIDE DEF E
  <2> QED BY CountTail
<1>2. HowMany(s, g) = CountIn(s, E)
  BY HowManyIs
<1>3. Tail(s) \in Seq(S)
  <2> HIDE DEF E
  <2> QED BY <1>1
<1>4. HowMany(Tail(s), g) = CountIn(Tail(s), E)
  BY <1>3, HowManyIs
<1>5. QED
  BY <1>1, <1>2, <1>4

(* What removing any one entry takes from the entries of a group.          *)
LEMMA HowManyRemove ==
  ASSUME NEW S, NEW s \in Seq(S), NEW i \in 1 .. Len(s), NEW g
  PROVE  HowMany(s, g) = HowMany(RemoveAt(s, i), g) + (IF s[i].group = g THEN 1 ELSE 0)
<1> DEFINE E == {y \in S : y.group = g}
<1>1. /\ RemoveAt(s, i) \in Seq(S) /\ s[i] \in S
      /\ CountIn(s, E) = CountIn(RemoveAt(s, i), E) + (IF s[i] \in E THEN 1 ELSE 0)
  <2> HIDE DEF E
  <2> QED BY CountRemove
<1>2. HowMany(s, g) = CountIn(s, E) /\ HowMany(RemoveAt(s, i), g) = CountIn(RemoveAt(s, i), E)
  BY <1>1, HowManyIs
<1>3. QED
  BY <1>1, <1>2

-----------------------------------------------------------------------------

(* The requests whose reads may end before Submit returns fit into the     *)
(* ring: nothing of theirs is collected while they are still being cut.    *)
PromptFits == \A g \in Prompt : Subreads[g] <= RingDepth

(* The entries of one sub-read; the completions of a group that read in    *)
(* full.                                                                   *)
OfSub(g, k) == {t \in Tags : t.group = g /\ t.sub = k}
InFull(g) == {c \in Cqes : c.group = g /\ c.res = 1}

(* What a request waits for is in the ring exactly once.                   *)
Owed(g) == HowMany(sq, g) + HowMany(kernel, g) + HowMany(cq, g)
RingInv == \A g \in Groups : Owed(g) = IF g \in DOMAIN inflight THEN inflight[g].pending ELSE 0

(* Nothing of an earlier session or of a refused request is left.          *)
EpochsInv ==
  /\ \A g \in DOMAIN inflight : inflight[g].epoch = 1
  /\ \A i \in 1 .. Len(sq) : sq[i].epoch = 1
  /\ \A i \in 1 .. Len(kernel) : kernel[i].epoch = 1
  /\ \A i \in 1 .. Len(cq) : cq[i].epoch = 1

(* The submission thread cuts a request.                                   *)
Cutting == spc \in {"prepare", "full"}

(* While a request is cut, what was prepared is pending: none of it has    *)
(* been collected.                                                         *)
SubmitInv ==
  /\ spc # "requeue"
  /\ spc = "submit" => sjob \notin DOMAIN inflight
  /\ spc # "prepare" => sq = <<>>
  /\ spc = "prepare" => Len(sq) <= sub
  /\ Cutting =>
       /\ sjob \in DOMAIN inflight /\ sub <= Subreads[sjob]
       /\ inflight[sjob].pending = sub
       /\ HowMany(cq, sjob) = 0
       /\ sjob \in Prompt => HowMany(kernel, sjob) = 0

(* The sub-reads of a request prepared so far.                             *)
Prepared(g) == IF Cutting /\ sjob = g THEN sub ELSE Subreads[g]

(* Where a sub-read may be: prepared, with the kernel, or in the buffer.   *)
CopiesOf(g, k) ==
  CountIn(sq, OfSub(g, k)) + CountIn(kernel, OfSub(g, k)) + (IF k \in landed[g] THEN 1 ELSE 0)

(* What has arrived in the buffer is what the request counted and what the *)
(* completion ring still holds; no sub-read is in two places.              *)
LandedGroup(g) ==
  /\ inflight[g].completed + inflight[g].pending + (IF inflight[g].error THEN 1 ELSE 0)
       <= Prepared(g)
  /\ IsFiniteSet(landed[g]) /\ landed[g] \subseteq 0 .. Subreads[g] - 1
  /\ Cardinality(landed[g]) = inflight[g].completed + CountIn(cq, InFull(g))
  /\ \A k \in Nat : CopiesOf(g, k) <= IF k < Prepared(g) THEN 1 ELSE 0

LandedInv == \A g \in DOMAIN inflight : LandedGroup(g)

(* Only a drain that returned has reports to mark.                         *)
BatchInv == cpc # "mark" => batch = <<>>

(* The places of a job that are not reports.                               *)
InQueue(g) == CountIn(queue, {g})
Held(g) ==
  IF spc \in {"submit", "prepare", "full", "requeue"} /\ sjob = g THEN 1
  ELSE IF g \in DOMAIN inflight THEN 1 ELSE 0

(* A job is in one place, as long as its group is claimed.                 *)
PlaceInv ==
  \A g \in Groups :
    /\ Places(g) <= 1
    /\ Places(g) = 1 => g \in claimed
    /\ client = "running" /\ g \in claimed => Places(g) = 1

(* A report says ok just if every sub-read has landed.                     *)
ReportInv ==
  /\ \A i \in 1 .. Len(reports) : reports[i].ok <=> landed[reports[i].group] = 0 .. Subreads[reports[i].group] - 1
  /\ \A i \in 1 .. Len(batch) : batch[i].ok <=> landed[batch[i].group] = 0 .. Subreads[batch[i].group] - 1

(* All of it, which holds as long as no io_uring_submit has failed.        *)
CleanInv ==
  /\ RingInv /\ EpochsInv /\ SubmitInv /\ LandedInv /\ BatchInv /\ PlaceInv /\ ReportInv

UringInv == UringTypeOK /\ (Clean => CleanInv)

(* The number of places of a job as a sum of counts.                       *)
LEMMA PlacesAre ==
  ASSUME UringTypeOK, NEW g \in Groups
  PROVE  /\ Places(g) = InQueue(g) + Held(g) + HowMany(reports, g) + HowMany(batch, g)
         /\ InQueue(g) \in Nat /\ Held(g) \in {0, 1}
         /\ HowMany(reports, g) \in Nat /\ HowMany(batch, g) \in Nat
         /\ g \in DOMAIN inflight => Held(g) = 1
<1>1. queue \in Seq(Groups) /\ reports \in Seq(Reports) /\ batch \in Seq(Reports)
  BY TypeFacts
<1>2. {i \in 1 .. Len(queue) : queue[i] = g} = {i \in 1 .. Len(queue) : queue[i] \in {g}}
  OBVIOUS
<1>3. InQueue(g) \in 0 .. Len(queue) /\ Len(queue) \in Nat
  BY <1>1, CountType, LenProperties DEF InQueue
<1>4. HowMany(reports, g) \in Nat /\ HowMany(batch, g) \in Nat
  BY <1>1, HowManyType
<1>5. InQueue(g) \in Nat
  BY <1>3
<1>6. Held(g) \in {0, 1} /\ (g \in DOMAIN inflight => Held(g) = 1)
  BY DEF Held
<1>7. Places(g) = InQueue(g) + Held(g) + HowMany(reports, g) + HowMany(batch, g)
  BY <1>2 DEF Places, InQueue, Held, CountIn
<1>8. QED
  BY <1>4, <1>5, <1>6, <1>7

(* A group in flight is nowhere else.                                      *)
LEMMA InflightAlone ==
  ASSUME UringTypeOK, PlaceInv, NEW g \in DOMAIN inflight
  PROVE  /\ g \in Groups /\ InQueue(g) = 0
         /\ \A i \in 1 .. Len(reports) : reports[i].group # g
         /\ \A i \in 1 .. Len(batch) : batch[i].group # g
         /\ spc = "submit" => sjob # g \/ Places(g) = 1
<1>1. g \in Groups /\ reports \in Seq(Reports) /\ batch \in Seq(Reports)
  BY TypeFacts
<1>2. Places(g) <= 1
  BY <1>1 DEF PlaceInv
<1>3. HowMany(reports, g) = 0 /\ HowMany(batch, g) = 0 /\ InQueue(g) = 0 /\ Places(g) = 1
  BY <1>1, <1>2, PlacesAre
<1>4. QED
  BY <1>1, <1>3, HowManyType

(* What the ring owes a group is a natural number.                         *)
LEMMA OwedType ==
  ASSUME UringTypeOK, NEW g
  PROVE  /\ HowMany(sq, g) \in Nat /\ HowMany(kernel, g) \in Nat /\ HowMany(cq, g) \in Nat
         /\ Owed(g) \in Nat
<1>1. sq \in Seq(Tags) /\ kernel \in Seq(Tags) /\ cq \in Seq(Cqes)
  BY TypeFacts
<1>2. HowMany(sq, g) \in Nat /\ HowMany(kernel, g) \in Nat /\ HowMany(cq, g) \in Nat
  BY <1>1, HowManyType
<1>3. QED
  BY <1>2 DEF Owed

(* What the ring holds belongs to groups in flight.                        *)
LEMMA OwedInflight ==
  ASSUME UringTypeOK, RingInv
  PROVE  /\ \A g \in Groups : g \notin DOMAIN inflight =>
              HowMany(sq, g) = 0 /\ HowMany(kernel, g) = 0 /\ HowMany(cq, g) = 0
         /\ \A i \in 1 .. Len(kernel) : kernel[i].group \in DOMAIN inflight
         /\ \A i \in 1 .. Len(cq) : cq[i].group \in DOMAIN inflight /\ inflight[cq[i].group].pending > 0
<1>1. sq \in Seq(Tags) /\ kernel \in Seq(Tags) /\ cq \in Seq(Cqes)
  BY TypeFacts
<1>2. \A g \in Groups : g \notin DOMAIN inflight =>
         HowMany(sq, g) = 0 /\ HowMany(kernel, g) = 0 /\ HowMany(cq, g) = 0
  BY OwedType DEF RingInv, Owed
<1>3. ASSUME NEW i \in 1 .. Len(kernel) PROVE kernel[i].group \in DOMAIN inflight
  <2>1. kernel[i].group \in Groups
    <3>1. kernel[i] \in Tags
      BY <1>1, ElementOfSeq
    <3>2. QED
      BY Zenon, <3>1 DEF Tags
  <2>2. HowMany(kernel, kernel[i].group) # 0
    BY <1>1, HowManyType
  <2>3. QED
    BY <1>2, <2>1, <2>2
<1>4. ASSUME NEW i \in 1 .. Len(cq)
      PROVE cq[i].group \in DOMAIN inflight /\ inflight[cq[i].group].pending > 0
  <2>1. cq[i].group \in Groups
    <3>1. cq[i] \in Cqes
      BY <1>1, ElementOfSeq
    <3>2. QED
      BY Zenon, <3>1 DEF Cqes
  <2>2. HowMany(cq, cq[i].group) # 0
    BY <1>1, HowManyType
  <2>3. cq[i].group \in DOMAIN inflight
    BY <1>2, <2>1, <2>2
  <2>4. Owed(cq[i].group) > 0
    BY <2>2, OwedType DEF Owed
  <2>5. QED
    BY <2>1, <2>3, <2>4 DEF RingInv
<1>5. QED
  BY <1>2, <1>3, <1>4

-----------------------------------------------------------------------------
(* The inference thread and the queue.                                     *)

(* The sum of counts, for all groups.                                      *)
LEMMA PlacesSum ==
  UringTypeOK => \A g \in Groups :
    Places(g) = InQueue(g) + Held(g) + HowMany(reports, g) + HowMany(batch, g)
BY PlacesAre

(* The same in the next state.                                             *)
LEMMA PlacesSumNext ==
  UringTypeOK' => \A g \in Groups :
    Places(g)' = InQueue(g)' + Held(g)' + HowMany(reports', g) + HowMany(batch', g)
<1>1. (UringTypeOK => \A g \in Groups :
        Places(g) = InQueue(g) + Held(g) + HowMany(reports, g) + HowMany(batch, g))'
  BY PlacesSum, PTL
<1>2. \A g \in Groups : /\ HowMany(reports, g)' = HowMany(reports', g)
                        /\ HowMany(batch, g)' = HowMany(batch', g)
  BY DEF HowMany
<1>3. QED
  BY <1>1, <1>2

(* How often a group is queued, in the next state.                         *)
LEMMA InQueueNext ==
  ASSUME queue' \in Seq(Groups)
  PROVE  \A h : InQueue(h)' = CountIn(queue', {h}) /\ InQueue(h)' \in Nat
<1>1. \A h : CountIn(queue', {h}) \in Nat
  <2>1. Len(queue') \in Nat
    BY LenProperties
  <2>2. ASSUME NEW h PROVE CountIn(queue', {h}) \in 0 .. Len(queue')
    BY CountType
  <2>3. QED
    BY <2>1, <2>2
<1>2. \A h : InQueue(h)' = CountIn(queue', {h})
  BY DEF InQueue, CountIn
<1>3. QED
  BY <1>1, <1>2

(* A step that moves no job keeps each in one place.                       *)
LEMMA PlacesSame ==
  ASSUME PlaceInv, UNCHANGED claimed, client' = "running" => client = "running",
         \A g \in Groups : Places(g)' = Places(g)
  PROVE  PlaceInv'
BY DEF PlaceInv

(* A step that leaves the ring alone keeps its invariant.                  *)
LEMMA RingSame ==
  ASSUME RingInv, EpochsInv, UNCHANGED <<inflight, sq, kernel, cq>>
  PROVE  RingInv' /\ EpochsInv'
BY DEF RingInv, EpochsInv, Owed, HowMany

(* A step that leaves the ring and the buffers alone keeps what has        *)
(* landed.                                                                 *)
LEMMA LandedSame ==
  ASSUME LandedInv, UNCHANGED <<inflight, sq, kernel, cq, landed>>,
         \A g \in DOMAIN inflight : Prepared(g)' = Prepared(g)
  PROVE  LandedInv'
<1> SUFFICES ASSUME NEW g \in DOMAIN inflight PROVE LandedGroup(g)'
  BY DEF LandedInv
<1>1. \A k \in Nat : CopiesOf(g, k)' = CopiesOf(g, k)
  BY DEF CopiesOf, CountIn
<1>2. CountIn(cq, InFull(g))' = CountIn(cq, InFull(g))
  BY DEF CountIn
<1>3. LandedGroup(g)
  BY DEF LandedInv
<1>4. QED
  BY <1>1, <1>2, <1>3 DEF LandedGroup

(* A step that reports nothing and touches no buffer keeps the reports     *)
(* true.                                                                   *)
LEMMA ReportSame ==
  ASSUME ReportInv, UNCHANGED <<reports, batch, landed>>
  PROVE  ReportInv'
BY DEF ReportInv

(* Steps that move only a thread.                                          *)
LEMMA ThreadFrame ==
  ASSUME CleanInv, UringTypeOK, UringTypeOK',
         UNCHANGED <<inflight, sq, kernel, cq, landed, claimed, queue, reports, batch, sjob, sub>>,
         client' = "running" => client = "running",
         cpc' # "mark" => cpc # "mark" \/ batch = <<>>,
         \/ spc' = spc
         \/ spc \in {"take", "collect", "off"} /\ spc' \in {"take", "collect", "off"}
         \/ spc = "full" /\ spc' = "prepare"
  PROVE  CleanInv'
<1> USE DEF CleanInv
<1>1. Cutting' = Cutting
  BY DEF Cutting
<1>2. \A g : Prepared(g)' = Prepared(g)
  BY <1>1 DEF Prepared
<1>3. \A g : Held(g)' = Held(g) /\ InQueue(g)' = InQueue(g)
  BY DEF Held, InQueue, CountIn
<1>4. \A g \in Groups : Places(g)' = Places(g)
  BY <1>3, PlacesSum, PlacesSumNext
<1>5. SubmitInv'
  <2>1. sub \in Nat /\ Len(<<>>) = 0
    BY TypeFacts
  <2>2. \A g : HowMany(cq, g)' = HowMany(cq, g) /\ HowMany(kernel, g)' = HowMany(kernel, g)
    BY DEF HowMany
  <2>3. QED
    BY <1>1, <2>1, <2>2 DEF SubmitInv
<1>6. QED
  BY <1>2, <1>4, <1>5, PlacesSame, RingSame, LandedSame, ReportSame DEF BatchInv

(* Submit to the worker: the group enters the queue and is in no other     *)
(* place.                                                                  *)
LEMMA EnqueueClean ==
  ASSUME CleanInv, UringTypeOK, UringTypeOK', NEW g \in Groups, Enqueue(g)
  PROVE  CleanInv'
<1> USE DEF CleanInv, Enqueue, threadVars, engineVars, ringVars
<1>1. Cutting' = Cutting /\ \A h : Prepared(h)' = Prepared(h)
  BY DEF Prepared, Cutting
<1>2. \A h : Held(h)' = Held(h)
  BY DEF Held
<1>3. \A h \in Groups : InQueue(h)' = InQueue(h) + IF h = g THEN 1 ELSE 0
  <2>1. queue \in Seq(Groups) /\ queue' = Append(queue, g)
    BY TypeFacts
  <2>2. \A h \in Groups : CountIn(queue', {h}) = CountIn(queue, {h}) + IF g \in {h} THEN 1 ELSE 0
    BY <2>1, CountAppend
  <2>3. \A h : InQueue(h)' = CountIn(queue', {h})
    BY DEF InQueue, CountIn
  <2>4. QED
    BY <2>2, <2>3 DEF InQueue
<1>4. \A h \in Groups : Places(h) \in Nat /\ Places(h)' = Places(h) + IF h = g THEN 1 ELSE 0
  <2>1. ASSUME NEW h \in Groups
        PROVE  Places(h) \in Nat /\ Places(h)' = Places(h) + IF h = g THEN 1 ELSE 0
    <3>1. /\ Places(h)' = InQueue(h)' + Held(h)' + HowMany(reports, h) + HowMany(batch, h)
          /\ Places(h) = InQueue(h) + Held(h) + HowMany(reports, h) + HowMany(batch, h)
          /\ InQueue(h) \in Nat /\ Held(h) \in {0, 1}
          /\ HowMany(reports, h) \in Nat /\ HowMany(batch, h) \in Nat
      BY PlacesAre, PlacesSumNext
    <3>2. Held(h)' = Held(h) /\ InQueue(h)' = InQueue(h) + IF h = g THEN 1 ELSE 0
      BY <1>2, <1>3
    <3>3. QED
      BY <3>1, <3>2
  <2>2. QED
    BY <2>1
<1>5. PlaceInv'
  <2>1. Places(g) # 1 /\ Places(g) <= 1
    BY DEF PlaceInv
  <2>2. Places(g) = 0
    BY <1>4, <2>1
  <2>3. QED
    BY <1>4, <2>2 DEF PlaceInv
<1>6. SubmitInv'
  BY <1>1 DEF SubmitInv, HowMany
<1>7. QED
  BY <1>1, <1>5, <1>6, RingSame, LandedSame, ReportSame DEF BatchInv

(* StopWorker empties the queue.                                           *)
LEMMA ClearQueueClean ==
  ASSUME CleanInv, UringTypeOK, UringTypeOK', ClearQueue
  PROVE  CleanInv'
<1> USE DEF CleanInv, ClearQueue, threadVars, engineVars, ringVars
<1>1. Cutting' = Cutting /\ \A h : Prepared(h)' = Prepared(h)
  BY DEF Prepared, Cutting
<1>2. \A h : Held(h)' = Held(h) /\ InQueue(h)' = 0
  <2>1. queue' = <<>>
    OBVIOUS
  <2>2. \A h : CountIn(<<>>, {h}) = 0
    BY CountEmpty
  <2>3. \A h : InQueue(h)' = CountIn(queue', {h})
    BY DEF InQueue, CountIn
  <2>4. QED
    BY <2>1, <2>2, <2>3 DEF Held
<1>3. PlaceInv'
  <2>1. ASSUME NEW h \in Groups
        PROVE  Places(h)' <= 1 /\ (Places(h)' = 1 => h \in claimed)
    <3>1. /\ Places(h)' = InQueue(h)' + Held(h)' + HowMany(reports, h) + HowMany(batch, h)
          /\ Places(h) = InQueue(h) + Held(h) + HowMany(reports, h) + HowMany(batch, h)
          /\ InQueue(h) \in Nat /\ Held(h) \in {0, 1}
          /\ HowMany(reports, h) \in Nat /\ HowMany(batch, h) \in Nat
      BY PlacesAre, PlacesSumNext
    <3>2. Places(h) <= 1 /\ (Places(h) = 1 => h \in claimed)
      BY DEF PlaceInv
    <3>3. QED
      BY <1>2, <3>1, <3>2
  <2>2. client' # "running" /\ claimed' = claimed
    BY DEF clientVars
  <2>3. QED
    BY <2>1, <2>2 DEF PlaceInv
<1>4. SubmitInv'
  BY <1>1 DEF SubmitInv, HowMany
<1>5. QED
  BY <1>1, <1>3, <1>4, RingSame, LandedSame, ReportSame DEF BatchInv

(* The join of the threads ends a session with nothing in flight.          *)
LEMMA JoinClean ==
  ASSUME CleanInv, UringTypeOK, UringTypeOK', JoinAndShutdown
  PROVE  CleanInv'
<1> USE DEF CleanInv, JoinAndShutdown, threadVars
<1>1. /\ inflight' = <<>> /\ reports' = <<>> /\ sq' = <<>> /\ kernel' = <<>> /\ cq' = <<>>
      /\ spc = "off" /\ spc' = "off" /\ cpc' = cpc /\ batch' = batch /\ queue' = queue
      /\ claimed' = claimed /\ client' = "off" /\ sjob' = sjob /\ landed' = landed
  BY DEF engineVars, ringVars
<1>2. DOMAIN inflight' = {}
  BY <1>1
<1>3. \A h \in Groups : HowMany(<<>>, h) = 0
  BY HowManyType, EmptySeq
<1>4. RingInv' /\ EpochsInv' /\ SubmitInv' /\ LandedInv' /\ BatchInv'
  <2>1. RingInv'
    <3>1. \A h \in Groups : Owed(h)' = HowMany(sq', h) + HowMany(kernel', h) + HowMany(cq', h)
      BY DEF Owed, HowMany
    <3>2. QED
      BY <1>1, <1>2, <1>3, <3>1 DEF RingInv
  <2>2. EpochsInv' /\ LandedInv'
    BY <1>1, <1>2 DEF EpochsInv, LandedInv
  <2>3. SubmitInv' /\ BatchInv'
    BY <1>1 DEF SubmitInv, BatchInv, Cutting
  <2>4. QED
    BY <2>1, <2>2, <2>3
<1>5. ReportInv'
  BY <1>1 DEF ReportInv
<1>6. PlaceInv'
  <2>1. ASSUME NEW h \in Groups
        PROVE  Places(h)' <= 1 /\ (Places(h)' = 1 => h \in claimed)
    <3>1. /\ Places(h)' = InQueue(h)' + Held(h)' + HowMany(reports', h) + HowMany(batch', h)
          /\ Places(h) = InQueue(h) + Held(h) + HowMany(reports, h) + HowMany(batch, h)
          /\ InQueue(h) \in Nat /\ Held(h) \in {0, 1}
          /\ HowMany(reports, h) \in Nat /\ HowMany(batch, h) \in Nat
      BY PlacesAre, PlacesSumNext
    <3>2. InQueue(h)' = InQueue(h) /\ Held(h)' = 0
      BY <1>1, <1>2 DEF InQueue, CountIn, Held
    <3>3. Places(h) <= 1 /\ (Places(h) = 1 => h \in claimed)
      BY DEF PlaceInv
    <3>4. Places(h)' = InQueue(h) + HowMany(batch, h)
      BY <1>1, <1>3, <3>1, <3>2
    <3>5. QED
      BY <3>1, <3>3, <3>4
  <2>2. QED
    BY <1>1, <2>1 DEF PlaceInv
<1>7. QED
  BY <1>4, <1>5, <1>6

(* The submission thread takes the head of the queue.                      *)
LEMMA TakeClean ==
  ASSUME CleanInv, UringTypeOK, UringTypeOK', TakeJob
  PROVE  CleanInv'
<1> USE DEF CleanInv
<1>1. /\ UNCHANGED <<inflight, sq, kernel, cq, landed, claimed, client, reports, batch, sub, cpc>>
      /\ spc = "take" /\ spc' = "submit" /\ queue # <<>> /\ sjob' = Head(queue) /\ queue' = Tail(queue)
  BY DEF TakeJob, clientVars, engineVars, ringVars
<1>2. queue \in Seq(Groups) /\ Head(queue) \in Groups
  BY <1>1, TypeFacts, HeadTailProperties
<1>3. \A h \in Groups : InQueue(h) = InQueue(h)' + IF h = sjob' THEN 1 ELSE 0
  <2>1. \A h \in Groups : CountIn(queue, {h}) = CountIn(Tail(queue), {h}) + IF Head(queue) \in {h} THEN 1 ELSE 0
    BY <1>1, <1>2, CountTail
  <2>2. \A h : InQueue(h)' = CountIn(queue', {h})
    BY DEF InQueue, CountIn
  <2>3. QED
    BY <1>1, <2>1, <2>2 DEF InQueue
<1>4. sjob' \notin DOMAIN inflight
  <2>1. SUFFICES ASSUME sjob' \in DOMAIN inflight PROVE FALSE
    OBVIOUS
  <2>2. InQueue(sjob') = 0
    BY <2>1, InflightAlone
  <2>3. \A h : InQueue(h)' \in Nat
    BY <1>1, <1>2, HeadTailProperties, InQueueNext
  <2>4. QED
    BY <1>1, <1>2, <1>3, <2>2, <2>3
<1>5. \A h \in Groups : Held(h)' = Held(h) + IF h = sjob' THEN 1 ELSE 0
  BY <1>1, <1>4 DEF Held
<1>6. \A h \in Groups : Places(h)' = Places(h)
  <2>1. ASSUME NEW h \in Groups PROVE Places(h)' = Places(h)
    <3>1. /\ Places(h)' = InQueue(h)' + Held(h)' + HowMany(reports, h) + HowMany(batch, h)
          /\ Places(h) = InQueue(h) + Held(h) + HowMany(reports, h) + HowMany(batch, h)
          /\ InQueue(h) \in Nat /\ Held(h) \in {0, 1}
          /\ HowMany(reports, h) \in Nat /\ HowMany(batch, h) \in Nat
      BY <1>1, PlacesAre, PlacesSumNext
    <3>2. InQueue(h)' = InQueue(h) - IF h = sjob' THEN 1 ELSE 0
      <4>1. InQueue(h)' \in Nat
        BY <1>1, <1>2, HeadTailProperties, InQueueNext
      <4>2. QED
        BY <1>3, <3>1, <4>1
    <3>3. QED
      BY <1>5, <3>1, <3>2
  <2>2. QED
    BY <2>1
<1>7. \A h : Prepared(h)' = Prepared(h)
  BY <1>1 DEF Prepared, Cutting
<1>8. SubmitInv'
  BY <1>1, <1>4 DEF SubmitInv, Cutting
<1>9. PlaceInv'
  BY <1>1, <1>6, PlacesSame
<1>10. RingInv' /\ EpochsInv' /\ ReportInv'
  BY <1>1, RingSame, ReportSame
<1>11. LandedInv'
  BY <1>1, <1>7, LandedSame
<1>12. QED
  BY <1>1, <1>8, <1>9, <1>10, <1>11 DEF BatchInv

-----------------------------------------------------------------------------
(* The submission thread.                                                  *)

(* A group with no entries owes none.                                      *)
LEMMA NoneToCount ==
  ASSUME UringTypeOK, NEW g
  PROVE  /\ HowMany(sq, g) = 0 => \A k : CountIn(sq, OfSub(g, k)) = 0
         /\ HowMany(kernel, g) = 0 => \A k : CountIn(kernel, OfSub(g, k)) = 0
         /\ HowMany(cq, g) = 0 => CountIn(cq, InFull(g)) = 0
<1>1. sq \in Seq(Tags) /\ kernel \in Seq(Tags) /\ cq \in Seq(Cqes)
  BY TypeFacts
<1>2. ASSUME HowMany(sq, g) = 0, NEW k PROVE CountIn(sq, OfSub(g, k)) = 0
  <2>1. \A i \in 1 .. Len(sq) : sq[i].group # g
    BY <1>1, <1>2, HowManyType
  <2>2. \A i \in 1 .. Len(sq) : sq[i] \notin OfSub(g, k)
    BY <2>1 DEF OfSub
  <2>3. QED
    BY <1>1, <2>2, CountType
<1>3. ASSUME HowMany(kernel, g) = 0, NEW k PROVE CountIn(kernel, OfSub(g, k)) = 0
  <2>1. \A i \in 1 .. Len(kernel) : kernel[i].group # g
    BY <1>1, <1>3, HowManyType
  <2>2. \A i \in 1 .. Len(kernel) : kernel[i] \notin OfSub(g, k)
    BY <2>1 DEF OfSub
  <2>3. QED
    BY <1>1, <2>2, CountType
<1>4. ASSUME HowMany(cq, g) = 0 PROVE CountIn(cq, InFull(g)) = 0
  <2>1. \A i \in 1 .. Len(cq) : cq[i].group # g
    BY <1>1, <1>4, HowManyType
  <2>2. \A i \in 1 .. Len(cq) : cq[i] \notin InFull(g)
    BY <2>1 DEF InFull
  <2>3. QED
    BY <1>1, <2>2, CountType
<1>5. QED
  BY <1>2, <1>3, <1>4

(* The number of copies of a sub-read is natural.                          *)
LEMMA CopiesType ==
  ASSUME UringTypeOK, NEW g, NEW k
  PROVE  /\ CountIn(sq, OfSub(g, k)) \in Nat /\ CountIn(kernel, OfSub(g, k)) \in Nat
         /\ CountIn(cq, InFull(g)) \in Nat /\ CopiesOf(g, k) \in Nat
<1>1. sq \in Seq(Tags) /\ kernel \in Seq(Tags) /\ cq \in Seq(Cqes)
  BY TypeFacts
<1>2. \A S : \A s \in Seq(S) : \A E : CountIn(s, E) \in Nat
  <2>1. ASSUME NEW S, NEW s \in Seq(S), NEW E PROVE CountIn(s, E) \in Nat
    <3>1. CountIn(s, E) \in 0 .. Len(s) /\ Len(s) \in Nat
      BY CountType, LenProperties
    <3>2. QED
      BY <3>1
  <2>2. QED
    BY <2>1
<1>3. /\ CountIn(sq, OfSub(g, k)) \in Nat /\ CountIn(kernel, OfSub(g, k)) \in Nat
      /\ CountIn(cq, InFull(g)) \in Nat
  BY <1>1, <1>2
<1>4. QED
  BY <1>3 DEF CopiesOf

(* SubmitInternal enters the request of a group that is not in flight.     *)
LEMMA BeginClean ==
  ASSUME CleanInv, UringTypeOK, UringTypeOK', SubmitBegin
  PROVE  CleanInv'
<1> USE DEF CleanInv
<1>1. /\ UNCHANGED <<client, claimed, queue, sjob, cpc, batch, reports, sq, kernel, cq>>
      /\ spc = "submit" /\ spc' = "prepare" /\ sub' = 0
      /\ landed' = [landed EXCEPT ![sjob] = {}]
      /\ sjob \in Groups /\ sjob \notin DOMAIN inflight /\ sq = <<>>
  BY TypeFacts DEF SubmitBegin, clientVars, ringVars, SubmitInv
<1>2. NextEpoch(sjob) = 1
  BY <1>1 DEF NextEpoch
<1>3. /\ DOMAIN inflight' = DOMAIN inflight \cup {sjob}
      /\ inflight'[sjob] = [epoch |-> 1, pending |-> 0, completed |-> 0, error |-> FALSE]
      /\ \A h \in DOMAIN inflight : h # sjob /\ inflight'[h] = inflight[h]
  BY <1>1, <1>2 DEF SubmitBegin
<1>4. /\ HowMany(sq, sjob) = 0 /\ HowMany(kernel, sjob) = 0 /\ HowMany(cq, sjob) = 0
  BY <1>1, OwedInflight
<1>5. RingInv'
  <2>1. \A h \in Groups : Owed(h)' = Owed(h)
    BY <1>1 DEF Owed, HowMany
  <2>2. Owed(sjob) = 0
    BY <1>4 DEF Owed
  <2>3. QED
    BY <1>3, <2>1, <2>2 DEF RingInv
<1>6. EpochsInv'
  BY <1>1, <1>3 DEF EpochsInv
<1>7. SubmitInv'
  <2>1. Len(<<>>) = 0 /\ Subreads[sjob] \in Nat
    BY <1>1, IoUringAssumption
  <2>2. HowMany(cq, sjob)' = 0 /\ HowMany(kernel, sjob)' = 0
    BY <1>1, <1>4 DEF HowMany
  <2>3. QED
    BY <1>1, <1>3, <2>1, <2>2 DEF SubmitInv, Cutting
<1>8. LandedInv'
  <2>1. landed'[sjob] = {} /\ \A h \in Groups : h # sjob => landed'[h] = landed[h]
    BY Zenon, <1>1 DEF UringTypeOK
  <2>2. Prepared(sjob)' = 0 /\ \A h \in DOMAIN inflight : Prepared(h)' = Prepared(h)
    BY <1>1 DEF Prepared, Cutting
  <2>3. ASSUME NEW h \in DOMAIN inflight PROVE LandedGroup(h)'
    <3>1. h # sjob /\ inflight'[h] = inflight[h] /\ landed'[h] = landed[h] /\ LandedGroup(h)
      BY <1>3, <2>1, TypeFacts DEF LandedInv
    <3>2. \A k \in Nat : CopiesOf(h, k)' = CopiesOf(h, k)
      BY <1>1, <3>1 DEF CopiesOf, CountIn
    <3>3. CountIn(cq, InFull(h))' = CountIn(cq, InFull(h))
      BY <1>1 DEF CountIn
    <3>4. QED
      BY <2>2, <3>1, <3>2, <3>3 DEF LandedGroup
  <2>4. ASSUME NEW h \in Groups, h = sjob PROVE LandedGroup(h)'
    <3>1. CountIn(cq, InFull(h))' = 0
      BY <1>1, <1>4, <2>4, NoneToCount DEF CountIn
    <3>2. \A k \in Nat : CopiesOf(h, k)' = 0
      <4>1. \A k : CountIn(sq, OfSub(h, k)) = 0 /\ CountIn(kernel, OfSub(h, k)) = 0
        BY <1>4, <2>4, NoneToCount
      <4>2. \A k : CopiesOf(h, k)' = CountIn(sq, OfSub(h, k)) + CountIn(kernel, OfSub(h, k))
                                       + (IF k \in {} THEN 1 ELSE 0)
        BY <1>1, <2>1, <2>4 DEF CopiesOf, CountIn
      <4>3. QED
        BY <4>1, <4>2
    <3>3. IsFiniteSet({}) /\ Cardinality({}) = 0
      BY FS_EmptySet
    <3>4. Prepared(h)' = 0 /\ landed'[h] = {}
      BY <1>1, <2>1, <2>2, <2>4
    <3>5. /\ inflight'[h].completed = 0 /\ inflight'[h].pending = 0 /\ inflight'[h].error = FALSE
      BY <1>3, <2>4
    <3>6. QED
      BY <3>1, <3>2, <3>3, <3>4, <3>5 DEF LandedGroup
  <2>5. QED
    BY <1>1, <1>3, <2>3, <2>4 DEF LandedInv
<1>9. \A h \in Groups : Held(h)' = Held(h) /\ InQueue(h)' = InQueue(h)
  BY <1>1, <1>3 DEF Held, InQueue, CountIn
<1>10. PlaceInv'
  <2>1. \A h \in Groups : Places(h)' = Places(h)
    BY <1>1, <1>9, PlacesSum, PlacesSumNext
  <2>2. QED
    BY <1>1, <2>1, PlacesSame
<1>11. ReportInv'
  <2>1. Held(sjob) = 1 /\ Places(sjob) <= 1
    BY <1>1 DEF Held, PlaceInv
  <2>2. HowMany(reports, sjob) = 0 /\ HowMany(batch, sjob) = 0
    BY <1>1, <2>1, PlacesAre
  <2>3. reports \in Seq(Reports) /\ batch \in Seq(Reports)
    BY TypeFacts
  <2>4. /\ \A i \in 1 .. Len(reports) : reports[i].group \in Groups /\ reports[i].group # sjob
        /\ \A i \in 1 .. Len(batch) : batch[i].group \in Groups /\ batch[i].group # sjob
    <3>1. \A i \in 1 .. Len(reports) : reports[i] \in Reports
      BY <2>3, ElementOfSeq
    <3>2. \A i \in 1 .. Len(batch) : batch[i] \in Reports
      BY <2>3, ElementOfSeq
    <3>3. QED
      BY <2>2, <2>3, <3>1, <3>2, HowManyType DEF Reports
  <2>5. \A h \in Groups : h # sjob => landed'[h] = landed[h]
    BY Zenon, <1>1 DEF UringTypeOK
  <2>6. QED
    BY <1>1, <2>4, <2>5 DEF ReportInv
<1>12. QED
  BY <1>1, <1>5, <1>6, <1>7, <1>8, <1>10, <1>11 DEF BatchInv

(* A sub-read is prepared: one more entry, one more pending.               *)
LEMMA PrepareClean ==
  ASSUME CleanInv, UringTypeOK, UringTypeOK', PrepareRead
  PROVE  CleanInv'
<1> USE DEF CleanInv
<1> DEFINE tag == [group |-> sjob, epoch |-> 1, sub |-> sub]
<1>1. /\ UNCHANGED <<client, claimed, queue, spc, sjob, cpc, batch, reports, kernel, cq, landed>>
      /\ spc = "prepare" /\ sub' = sub + 1 /\ sub < Subreads[sjob]
      /\ Cutting /\ sub \in Nat /\ sjob \in Groups /\ Subreads[sjob] \in Nat
  <2>1. Subreads[sjob] \in Nat /\ sub \in Nat /\ sjob \in Groups
    BY TypeFacts, IoUringAssumption
  <2>2. QED
    BY <2>1 DEF PrepareRead, clientVars, Cutting
<1>2. sjob \in DOMAIN inflight /\ inflight[sjob].epoch = 1 /\ inflight[sjob].pending = sub
  BY <1>1 DEF SubmitInv, EpochsInv
<1>3. /\ sq' = Append(sq, tag)
      /\ inflight' = [inflight EXCEPT ![sjob].pending = @ + 1]
  BY <1>2 DEF PrepareRead, Dangling
<1>4. tag \in Tags /\ sq \in Seq(Tags) /\ Len(sq) \in Nat
  <2>1. 1 \in 0 .. 2^16 - 1
    OBVIOUS
  <2>2. tag \in Tags
    BY <1>1, <2>1 DEF Tags
  <2>3. QED
    BY <2>2, TypeFacts
<1>5. /\ DOMAIN inflight' = DOMAIN inflight
      /\ inflight'[sjob].epoch = 1 /\ inflight'[sjob].pending = sub + 1
      /\ inflight'[sjob].completed = inflight[sjob].completed
      /\ inflight'[sjob].error = inflight[sjob].error
      /\ \A h \in DOMAIN inflight : h # sjob => inflight'[h] = inflight[h]
  <2>1. inflight[sjob] \in Requests
    BY <1>2, TypeFacts
  <2> DEFINE new == [inflight[sjob] EXCEPT !.pending = @ + 1]
  <2>2. /\ new.epoch = inflight[sjob].epoch /\ new.pending = inflight[sjob].pending + 1
        /\ new.completed = inflight[sjob].completed /\ new.error = inflight[sjob].error
    BY <2>1, AddPendingType
  <2>3. inflight' = [inflight EXCEPT ![sjob] = new]
    BY <1>3
  <2> HIDE DEF new
  <2>4. QED
    BY <1>2, <2>2, <2>3
<1>6. Len(sq') = Len(sq) + 1 /\ \A i \in 1 .. Len(sq) : sq'[i] = sq[i]
  <2> HIDE DEF tag
  <2> QED BY <1>3, <1>4, AppendProperties
<1>7. \A h \in Groups : HowMany(sq', h) = HowMany(sq, h) + (IF h = sjob THEN 1 ELSE 0)
  <2>1. \A h \in Groups : HowMany(Append(sq, tag), h) = HowMany(sq, h) + (IF tag.group = h THEN 1 ELSE 0)
    <3> HIDE DEF tag
    <3> QED BY <1>4, HowManyAppend
  <2>2. QED
    BY <1>3, <2>1
<1>8. \A h \in Groups, k \in Nat :
        CountIn(sq', OfSub(h, k)) = CountIn(sq, OfSub(h, k)) + (IF h = sjob /\ k = sub THEN 1 ELSE 0)
  <2>1. \A h \in Groups, k \in Nat :
          CountIn(Append(sq, tag), OfSub(h, k)) = CountIn(sq, OfSub(h, k)) + (IF tag \in OfSub(h, k) THEN 1 ELSE 0)
    <3> HIDE DEF tag
    <3> QED BY <1>4, CountAppend
  <2>2. \A h \in Groups, k \in Nat : tag \in OfSub(h, k) <=> h = sjob /\ k = sub
    BY <1>4 DEF OfSub
  <2>3. QED
    BY <1>3, <2>1, <2>2
<1>9. RingInv'
  <2>1. \A h \in Groups : Owed(h)' = HowMany(sq', h) + HowMany(kernel, h) + HowMany(cq, h)
    BY <1>1 DEF Owed, HowMany
  <2>2. \A h \in Groups : Owed(h)' = Owed(h) + (IF h = sjob THEN 1 ELSE 0)
    <3>1. ASSUME NEW h \in Groups PROVE Owed(h)' = Owed(h) + (IF h = sjob THEN 1 ELSE 0)
      BY <1>7, <2>1, OwedType DEF Owed
    <3>2. QED
      BY <3>1
  <2>3. ASSUME NEW h \in Groups
        PROVE  Owed(h)' = IF h \in DOMAIN inflight' THEN inflight'[h].pending ELSE 0
    <3>1. Owed(h) = IF h \in DOMAIN inflight THEN inflight[h].pending ELSE 0
      BY DEF RingInv
    <3>2. Owed(h)' = Owed(h) + (IF h = sjob THEN 1 ELSE 0)
      BY <2>2
    <3>3. CASE h = sjob
      BY <1>1, <1>2, <1>5, <3>1, <3>2, <3>3
    <3>4. CASE h # sjob
      <4>1. Owed(h) \in Nat
        BY OwedType
      <4>2. Owed(h)' = Owed(h)
        BY <3>2, <3>4, <4>1
      <4>3. QED
        BY <1>5, <3>1, <3>4, <4>2
    <3>5. QED
      BY <3>3, <3>4
  <2>4. QED
    BY <2>3 DEF RingInv
<1>10. EpochsInv'
  <2>1. \A i \in 1 .. Len(sq') : sq'[i].epoch = 1
    <3>1. sq'[Len(sq) + 1] = tag
      <4> HIDE DEF tag
      <4> QED BY <1>3, <1>4, AppendProperties
    <3>2. QED
      BY <1>4, <1>6, <3>1 DEF EpochsInv
  <2>2. \A h \in DOMAIN inflight' : inflight'[h].epoch = 1
    BY <1>5 DEF EpochsInv
  <2>3. QED
    BY <1>1, <2>1, <2>2 DEF EpochsInv
<1>11. SubmitInv'
  <2>1. HowMany(cq, sjob)' = HowMany(cq, sjob) /\ HowMany(kernel, sjob)' = HowMany(kernel, sjob)
    BY <1>1 DEF HowMany
  <2>2. Len(sq') <= sub' /\ sub' <= Subreads[sjob]
    BY <1>1, <1>4, <1>6 DEF SubmitInv
  <2>3. QED
    BY <1>1, <1>2, <1>5, <2>1, <2>2 DEF SubmitInv, Cutting
<1>12. LandedInv'
  <2>1. Prepared(sjob) = sub /\ Prepared(sjob)' = sub + 1
        /\ \A h \in Groups : h # sjob => Prepared(h)' = Prepared(h)
    BY <1>1 DEF Prepared, Cutting
  <2>2. \A h \in Groups, k \in Nat :
          CopiesOf(h, k) \in Nat /\ CopiesOf(h, k)' = CopiesOf(h, k) + (IF h = sjob /\ k = sub THEN 1 ELSE 0)
    <3>1. ASSUME NEW h \in Groups, NEW k \in Nat
          PROVE  CopiesOf(h, k) \in Nat /\ CopiesOf(h, k)' = CopiesOf(h, k) + (IF h = sjob /\ k = sub THEN 1 ELSE 0)
      <4>1. CopiesOf(h, k)' = CountIn(sq', OfSub(h, k)) + CountIn(kernel, OfSub(h, k)) + (IF k \in landed[h] THEN 1 ELSE 0)
        BY <1>1 DEF CopiesOf, CountIn
      <4>2. CountIn(sq, OfSub(h, k)) \in Nat /\ CountIn(kernel, OfSub(h, k)) \in Nat /\ CopiesOf(h, k) \in Nat
        BY CopiesType
      <4>3. QED
        BY <1>8, <4>1, <4>2 DEF CopiesOf
    <3>2. QED
      BY <3>1
  <2>3. \A h : CountIn(cq, InFull(h))' = CountIn(cq, InFull(h))
    BY <1>1 DEF CountIn
  <2>4. ASSUME NEW h \in DOMAIN inflight PROVE LandedGroup(h)'
    <3>1. LandedGroup(h) /\ h \in Groups
      BY TypeFacts DEF LandedInv
    <3>2. CASE h # sjob
      BY <1>1, <1>5, <2>1, <2>2, <2>3, <3>1, <3>2 DEF LandedGroup
    <3>3. CASE h = sjob
      <4>1. inflight'[h].completed + inflight'[h].pending + (IF inflight'[h].error THEN 1 ELSE 0) <= sub + 1
        BY <1>2, <1>5, <2>1, <3>1, <3>3, TypeFacts DEF LandedGroup
      <4>2. \A k \in Nat : CopiesOf(h, k)' <= IF k < sub + 1 THEN 1 ELSE 0
        BY <1>1, <2>1, <2>2, <3>1, <3>3 DEF LandedGroup
      <4>3. QED
        BY <1>1, <1>5, <2>1, <2>3, <3>1, <3>3, <4>1, <4>2 DEF LandedGroup
    <3>4. QED
      BY <3>2, <3>3
  <2>5. QED
    BY <1>5, <2>4 DEF LandedInv
<1>13. PlaceInv'
  <2>1. \A h \in Groups : Held(h)' = Held(h) /\ InQueue(h)' = InQueue(h)
    BY <1>1, <1>5 DEF Held, InQueue, CountIn
  <2>2. \A h \in Groups : Places(h)' = Places(h)
    BY <1>1, <2>1, PlacesSum, PlacesSumNext
  <2>3. QED
    BY <1>1, <2>2, PlacesSame
<1>14. QED
  BY <1>1, <1>9, <1>10, <1>11, <1>12, <1>13, ReportSame DEF BatchInv

(* io_uring_submit: what is counted moves, and nothing is lost.            *)
LEMMA HandOverClean ==
  ASSUME RingInv, EpochsInv, LandedInv, UringTypeOK, HandOver, UNCHANGED <<inflight, landed>>,
         \A g \in DOMAIN inflight : Prepared(g)' = Prepared(g)
  PROVE  RingInv' /\ EpochsInv' /\ LandedInv'
<1>1. sq \in Seq(Tags) /\ kernel \in Seq(Tags) /\ kernel' = kernel \o sq /\ sq' = <<>> /\ cq' = cq
  BY TypeFacts DEF HandOver
<1>2. \A g \in Groups : HowMany(sq', g) = 0 /\ HowMany(kernel', g) = HowMany(kernel, g) + HowMany(sq, g)
  BY <1>1, HowManyType, HowManyConcat
<1>3. RingInv'
  <2>1. \A g \in Groups : Owed(g)' = HowMany(sq', g) + HowMany(kernel', g) + HowMany(cq, g)
    BY <1>1 DEF Owed, HowMany
  <2>2. \A g \in Groups : Owed(g)' = Owed(g)
    <3>1. ASSUME NEW g \in Groups PROVE Owed(g)' = Owed(g)
      BY <1>2, <2>1, OwedType DEF Owed
    <3>2. QED
      BY <3>1
  <2>3. QED
    BY <2>2 DEF RingInv
<1>4. EpochsInv'
  <2>1. /\ Len(kernel') = Len(kernel) + Len(sq)
        /\ \A i \in 1 .. Len(kernel) + Len(sq) :
             kernel'[i] = IF i <= Len(kernel) THEN kernel[i] ELSE sq[i - Len(kernel)]
    BY <1>1, ConcatProperties
  <2>2. Len(kernel) \in Nat /\ Len(sq) \in Nat /\ Len(<<>>) = 0
    BY <1>1, LenProperties
  <2>3. \A i \in 1 .. Len(kernel') : kernel'[i].epoch = 1
    <3>1. ASSUME NEW i \in 1 .. Len(kernel') PROVE kernel'[i].epoch = 1
      <4>1. CASE i <= Len(kernel)
        <5>1. i \in 1 .. Len(kernel)
          BY <2>1, <2>2, <4>1
        <5>2. QED
          BY <2>1, <4>1, <5>1 DEF EpochsInv
      <4>2. CASE ~(i <= Len(kernel))
        <5>1. i - Len(kernel) \in 1 .. Len(sq)
          BY <2>1, <2>2, <4>2
        <5>2. kernel'[i] = sq[i - Len(kernel)]
          BY <2>1, <2>2, <4>2
        <5>3. QED
          BY <5>1, <5>2 DEF EpochsInv
      <4>3. QED
        BY <4>1, <4>2
    <3>2. QED
      BY <3>1
  <2>4. QED
    BY <1>1, <2>2, <2>3 DEF EpochsInv
<1>5. LandedInv'
  <2>1. ASSUME NEW g \in DOMAIN inflight PROVE LandedGroup(g)'
    <3>1. LandedGroup(g)
      BY <2>1 DEF LandedInv
    <3>2. \A k \in Nat : CopiesOf(g, k)' = CopiesOf(g, k)
      <4>1. ASSUME NEW k \in Nat PROVE CopiesOf(g, k)' = CopiesOf(g, k)
        <5>1. /\ CountIn(kernel', OfSub(g, k)) = CountIn(kernel, OfSub(g, k)) + CountIn(sq, OfSub(g, k))
              /\ CountIn(sq', OfSub(g, k)) = 0
          BY <1>1, CountConcat, CountEmpty
        <5>2. CopiesOf(g, k)' = CountIn(sq', OfSub(g, k)) + CountIn(kernel', OfSub(g, k)) + (IF k \in landed[g] THEN 1 ELSE 0)
          BY DEF CopiesOf, CountIn
        <5>3. CountIn(kernel, OfSub(g, k)) \in Nat /\ CountIn(sq, OfSub(g, k)) \in Nat
          BY CopiesType
        <5>4. QED
          BY <5>1, <5>2, <5>3 DEF CopiesOf
      <4>2. QED
        BY <4>1
    <3>3. CountIn(cq, InFull(g))' = CountIn(cq, InFull(g))
      BY <1>1 DEF CountIn
    <3>4. QED
      BY <3>1, <3>2, <3>3 DEF LandedGroup
  <2>2. QED
    BY <2>1 DEF LandedInv
<1>6. QED
  BY <1>3, <1>4, <1>5

(* The ring is full: its entries are handed over and completions are       *)
(* collected.                                                              *)
LEMMA FullRingClean ==
  ASSUME PromptFits, CleanInv, UringTypeOK, UringTypeOK', SubmitFullRing
  PROVE  CleanInv'
<1> USE DEF CleanInv
<1>1. /\ UNCHANGED <<client, claimed, queue, sjob, sub, cpc, batch, inflight, reports, landed>>
      /\ spc = "prepare" /\ spc' = "full" /\ HandOver
      /\ Len(sq) = RingDepth /\ sub < Subreads[sjob]
  BY DEF SubmitFullRing, clientVars, engineVars
<1>2. Cutting /\ Cutting' /\ \A h : Prepared(h)' = Prepared(h)
  BY <1>1 DEF Cutting, Prepared
<1>3. sjob \notin Prompt
  <2>1. RingDepth <= sub /\ sub \in Nat /\ RingDepth \in Nat /\ Subreads[sjob] \in Nat
    BY <1>1, TypeFacts, IoUringAssumption DEF SubmitInv
  <2>2. QED
    BY <1>1, <2>1 DEF PromptFits
<1>4. SubmitInv'
  <2>1. HowMany(cq, sjob)' = HowMany(cq, sjob) /\ sq' = <<>>
    BY <1>1 DEF HandOver, HowMany
  <2>2. QED
    BY <1>1, <1>2, <1>3, <2>1 DEF SubmitInv
<1>5. PlaceInv'
  <2>1. \A h \in Groups : Held(h)' = Held(h) /\ InQueue(h)' = InQueue(h)
    BY <1>1 DEF Held, InQueue, CountIn
  <2>2. \A h \in Groups : Places(h)' = Places(h)
    BY <1>1, <2>1, PlacesSum, PlacesSumNext
  <2>3. QED
    BY <1>1, <2>2, PlacesSame
<1>6. QED
  BY <1>1, <1>2, <1>4, <1>5, HandOverClean, ReportSame DEF BatchInv

(* All sub-reads prepared: the last entries are handed over.               *)
LEMMA RequestClean ==
  ASSUME CleanInv, UringTypeOK, UringTypeOK', SubmitRequest
  PROVE  CleanInv'
<1> USE DEF CleanInv
<1>1. /\ UNCHANGED <<client, claimed, queue, sjob, sub, cpc, batch, reports, landed>>
      /\ spc = "prepare" /\ sub = Subreads[sjob] /\ Cutting /\ sjob \in Groups
  BY TypeFacts DEF SubmitRequest, clientVars, Cutting
<1>2. /\ sjob \in DOMAIN inflight /\ inflight[sjob].pending = sub
      /\ Subreads[sjob] \in Nat /\ Subreads[sjob] > 0
  BY <1>1, IoUringAssumption DEF SubmitInv
<1>3. ~inflight[sjob].error
  <2>1. Prepared(sjob) = sub /\ LandedGroup(sjob)
    BY <1>1, <1>2 DEF Prepared, LandedInv
  <2>2. QED
    BY <1>1, <1>2, <2>1, TypeFacts DEF LandedGroup
<1>4. HandOver /\ spc' = "collect" /\ inflight' = inflight
  <2>1. ~SpoiltRequest
    BY <1>1, <1>2, <1>3 DEF SpoiltRequest
  <2>2. QED
    BY <2>1 DEF SubmitRequest
<1>5. ~Cutting' /\ \A h : Prepared(h)' = Prepared(h)
  BY <1>1, <1>4 DEF Cutting, Prepared
<1>6. SubmitInv'
  BY <1>4, <1>5 DEF SubmitInv, HandOver
<1>7. PlaceInv'
  <2>1. \A h \in Groups : Held(h)' = Held(h) /\ InQueue(h)' = InQueue(h)
    BY <1>1, <1>2, <1>4 DEF Held, InQueue, CountIn
  <2>2. \A h \in Groups : Places(h)' = Places(h)
    BY <1>1, <2>1, PlacesSum, PlacesSumNext
  <2>3. QED
    BY <1>1, <2>2, PlacesSame
<1>8. QED
  BY <1>1, <1>4, <1>5, <1>6, <1>7, HandOverClean, ReportSame DEF BatchInv

-----------------------------------------------------------------------------
(* Taking a completion.                                                    *)

(* An interval that is all among the first n numbers has at most n.        *)
LEMMA FullInterval ==
  ASSUME NEW n \in Nat, NEW S \in SUBSET (0 .. n - 1), IsFiniteSet(S)
  PROVE  Cardinality(S) = n <=> S = 0 .. n - 1
<1>1. IsFiniteSet(0 .. n - 1) /\ Cardinality(0 .. n - 1) = n
  BY FS_Interval
<1>2. Cardinality(S) = Cardinality(0 .. n - 1) => S = 0 .. n - 1
  BY <1>1, FS_Subset
<1>3. QED
  BY <1>1, <1>2

(* The completion at the head of the ring is of a group in flight.         *)
LEMMA HeadFacts ==
  ASSUME CleanInv, UringTypeOK, cq # <<>>
  PROVE  LET c == Head(cq) IN
         /\ c \in Cqes /\ c.group \in DOMAIN inflight /\ c.group \in Groups
         /\ c.epoch = 1 /\ inflight[c.group].epoch = 1
         /\ inflight[c.group].pending > 0
         /\ spc \in {"submit", "prepare", "full", "requeue"} => sjob # c.group
<1> USE DEF CleanInv
<1>1. cq \in Seq(Cqes) /\ Len(cq) \in Nat /\ Len(cq) # 0
  <2>1. cq \in Seq(Cqes)
    BY TypeFacts
  <2>2. QED
    BY <2>1, LenProperties, EmptySeq
<1>2. 1 \in 1 .. Len(cq) /\ Head(cq) = cq[1] /\ cq[1] \in Cqes
  BY <1>1, ElementOfSeq
<1>3. /\ cq[1].group \in DOMAIN inflight /\ inflight[cq[1].group].pending > 0
      /\ cq[1].group \in Groups
  BY <1>2, OwedInflight, TypeFacts
<1>4. cq[1].epoch = 1 /\ inflight[cq[1].group].epoch = 1
  BY <1>2, <1>3 DEF EpochsInv
<1>5. spc \in {"prepare", "full"} => sjob # cq[1].group
  <2>1. HowMany(cq, cq[1].group) # 0
    BY <1>1, <1>2, HowManyType
  <2>2. QED
    BY <2>1 DEF SubmitInv, Cutting
<1>6. spc = "submit" => sjob # cq[1].group
  BY <1>3 DEF SubmitInv
<1>7. QED
  BY <1>2, <1>3, <1>4, <1>5, <1>6 DEF SubmitInv

(* A group owed nothing has no entry anywhere.                             *)
LEMMA Ended ==
  UringTypeOK => \A h \in Groups :
    /\ HowMany(cq, h) \in Nat /\ CountIn(cq, InFull(h)) \in Nat
    /\ HowMany(cq, h) = 0 => CountIn(cq, InFull(h)) = 0
BY OwedType, NoneToCount, CopiesType

(* The same in the next state.                                             *)
LEMMA EndedNext ==
  UringTypeOK' => \A h \in Groups :
    /\ HowMany(cq', h) \in Nat /\ CountIn(cq', InFull(h)) \in Nat
    /\ HowMany(cq', h) = 0 => CountIn(cq', InFull(h)) = 0
<1>1. (UringTypeOK => \A h \in Groups :
         /\ HowMany(cq, h) \in Nat /\ CountIn(cq, InFull(h)) \in Nat
         /\ HowMany(cq, h) = 0 => CountIn(cq, InFull(h)) = 0)'
  BY Ended, PTL
<1>2. \A h : HowMany(cq, h)' = HowMany(cq', h) /\ CountIn(cq, InFull(h))' = CountIn(cq', InFull(h))
  BY DEF HowMany, CountIn
<1>3. QED
  BY <1>1, <1>2

(* HandleCqe: a completion leaves the ring and its request counts one      *)
(* less; the request that ends is reported.                                *)
LEMMA CollectClean ==
  ASSUME CleanInv, UringTypeOK, UringTypeOK', CollectOne,
         UNCHANGED <<client, claimed, queue, spc, sjob, sub, batch, landed>>,
         cpc' # "mark" => cpc # "mark"
  PROVE  CleanInv'
<1> USE DEF CleanInv
<1> DEFINE c == Head(cq)
           g == c.group
           old == inflight[g]
           new == CountRead(old, c.res)
           n == Subreads[g]
<1>1. cq # <<>> /\ cq' = Tail(cq) /\ UNCHANGED <<sq, kernel>> /\ ProcessCqe(c)
  BY DEF CollectOne
<1>2. /\ c \in Cqes /\ g \in DOMAIN inflight /\ g \in Groups /\ c.epoch = 1 /\ old.epoch = 1
      /\ old.pending > 0
      /\ spc \in {"submit", "prepare", "full", "requeue"} => sjob # g
  BY <1>1, HeadFacts
<1>3. /\ c.res \in {-1, 0, 1} /\ old \in Requests /\ old.pending \in Nat /\ old.completed \in Nat
      /\ old.error \in BOOLEAN
  <2>1. c.res \in {-1, 0, 1}
    BY Zenon, <1>2 DEF Cqes
  <2>2. QED
    BY <1>2, <2>1, TypeFacts
<1>4. /\ new.epoch = 1 /\ new.pending = old.pending - 1
      /\ new.completed = IF c.res = 1 THEN old.completed + 1 ELSE old.completed
      /\ new.error = (old.error \/ c.res = -1)
  <2> HIDE DEF c
  <2> QED BY <1>2, <1>3, CountReadType
<1>5. cq \in Seq(Cqes) /\ sq \in Seq(Tags) /\ kernel \in Seq(Tags)
  BY TypeFacts
<1>6. \A h \in Groups : HowMany(cq, h) = HowMany(cq', h) + (IF h = g THEN 1 ELSE 0)
  <2>1. \A h : HowMany(cq, h) = HowMany(Tail(cq), h) + (IF Head(cq).group = h THEN 1 ELSE 0)
    BY <1>1, <1>5, HowManyTail
  <2>2. QED
    BY <1>1, <2>1
<1>7. \A h \in Groups : CountIn(cq, InFull(h)) = CountIn(cq', InFull(h))
                                                + (IF h = g /\ c.res = 1 THEN 1 ELSE 0)
  <2>1. \A h : CountIn(cq, InFull(h)) = CountIn(Tail(cq), InFull(h)) + (IF c \in InFull(h) THEN 1 ELSE 0)
    BY <1>1, <1>5, CountTail
  <2>2. \A h : c \in InFull(h) <=> h = g /\ c.res = 1
    BY <1>2 DEF InFull
  <2>3. QED
    BY <1>1, <2>1, <2>2
<1>8. cq' \in Seq(Cqes) /\ Len(cq) \in Nat /\ \A i \in 1 .. Len(cq') : i + 1 \in 1 .. Len(cq) /\ cq'[i] = cq[i + 1]
  <2>1. cq' \in Seq(Cqes) /\ Len(cq') = Len(cq) - 1 /\ \A i \in 1 .. Len(cq') : cq'[i] = cq[i + 1]
    BY <1>1, <1>5, HeadTailProperties
  <2>2. Len(cq) \in Nat
    BY <1>5, LenProperties
  <2>3. QED
    BY <2>1, <2>2
<1>9. \A h \in Groups :
        /\ HowMany(cq', h) \in Nat /\ CountIn(cq', InFull(h)) \in Nat
        /\ HowMany(cq', h) = 0 => CountIn(cq', InFull(h)) = 0
  BY EndedNext
<1>10. Cutting' = Cutting /\ (\A h : Prepared(h)' = Prepared(h)) /\ Prepared(g) = n
  BY <1>2 DEF Cutting, Prepared
<1>11. \A h \in Groups : Owed(h)' = Owed(h) - (IF h = g THEN 1 ELSE 0)
  <2>1. \A h : Owed(h)' = HowMany(sq, h) + HowMany(kernel, h) + HowMany(cq', h)
    BY <1>1 DEF Owed, HowMany
  <2>2. ASSUME NEW h \in Groups PROVE Owed(h)' = Owed(h) - (IF h = g THEN 1 ELSE 0)
    BY <1>6, <1>9, <2>1, OwedType DEF Owed
  <2>3. QED
    BY <2>2
<1>12. \A h, k : CopiesOf(h, k)' = CopiesOf(h, k)
  BY <1>1 DEF CopiesOf, CountIn
<1>13. \A h : CountIn(cq, InFull(h))' = CountIn(cq', InFull(h))
  BY DEF CountIn
<1>14. SubmitInv' /\ BatchInv'
  <2>1. HowMany(cq, sjob) = 0 => HowMany(cq', sjob) = 0
    <3>1. sjob \in Groups
      BY TypeFacts
    <3>2. HowMany(cq', sjob) \in Nat
      BY <1>9, <3>1
    <3>3. HowMany(cq, sjob) = HowMany(cq', sjob) + (IF sjob = g THEN 1 ELSE 0)
      BY <1>6, <3>1
    <3> HIDE DEF g
    <3>4. QED
      BY <3>2, <3>3
  <2>2. HowMany(cq, sjob)' = HowMany(cq', sjob) /\ HowMany(kernel, sjob)' = HowMany(kernel, sjob)
    BY <1>1 DEF HowMany
  <2>3. Cutting => sjob \in DOMAIN inflight' /\ inflight'[sjob] = inflight[sjob]
    <3>1. Cutting => sjob # g /\ sjob \in DOMAIN inflight
      BY <1>2 DEF Cutting, SubmitInv
    <3>2. \A h \in DOMAIN inflight : h # g => h \in DOMAIN inflight' /\ inflight'[h] = inflight[h]
      BY <1>1, <1>2 DEF ProcessCqe, Without, Restrict, engineVars
    <3>3. QED
      BY <3>1, <3>2
  <2>4. DOMAIN inflight' \subseteq DOMAIN inflight
    BY <1>1, <1>2 DEF ProcessCqe, Without, Restrict, engineVars
  <2>5. SubmitInv'
    BY <1>1, <1>10, <2>1, <2>2, <2>3, <2>4 DEF SubmitInv
  <2>6. QED
    BY <2>5 DEF BatchInv
<1>15. LandedGroup(g) /\ Owed(g) = old.pending
  BY <1>2 DEF LandedInv, RingInv
<1>16. ASSUME NEW h \in DOMAIN inflight, h # g, inflight'[h] = inflight[h] PROVE LandedGroup(h)'
  <2>1. LandedGroup(h) /\ h \in Groups
    BY <1>16, TypeFacts DEF LandedInv
  <2>2. CountIn(cq', InFull(h)) = CountIn(cq, InFull(h))
    BY <1>7, <1>9, <1>16, <2>1
  <2>3. QED
    BY <1>10, <1>12, <1>13, <1>16, <2>1, <2>2 DEF LandedGroup
<1>17. UNCHANGED <<queue, sjob, spc>> /\ \A h : InQueue(h)' = InQueue(h)
  BY DEF InQueue, CountIn
<1>18. CASE new.pending = 0
  <2>1. inflight' = Without(g) /\ reports' = Append(reports, Report(g, new))
    <3> HIDE DEF c
    <3> QED BY <1>1, <1>2, <1>18 DEF ProcessCqe
  <2>2. DOMAIN inflight' = DOMAIN inflight \ {g} /\ \A h \in DOMAIN inflight' : inflight'[h] = inflight[h]
    BY <2>1 DEF Without, Restrict
  <2>3. RingInv'
    <3>1. ASSUME NEW h \in Groups
          PROVE  Owed(h)' = IF h \in DOMAIN inflight' THEN inflight'[h].pending ELSE 0
      <4>1. CASE h = g
        BY <1>3, <1>4, <1>11, <1>15, <1>18, <2>2, <4>1
      <4>2. CASE h # g
        <5>1. Owed(h) \in Nat
          BY OwedType
        <5>2. Owed(h)' = Owed(h)
          BY <1>11, <4>2, <5>1
        <5>3. QED
          BY <2>2, <4>2, <5>2 DEF RingInv
      <4>3. QED
        BY <4>1, <4>2
    <3>2. QED
      BY <3>1 DEF RingInv
  <2>4. EpochsInv'
    BY <1>1, <1>8, <2>2 DEF EpochsInv
  <2>5. LandedInv'
    BY <1>16, <2>2 DEF LandedInv
  <2>6. new.completed = n /\ ~new.error <=> landed[g] = 0 .. n - 1
    <3>1. HowMany(cq', g) = 0
      <4>1. PICK h \in Groups : h = g
        BY <1>2
      <4>2. Owed(h)' = 0
        <5>1. Owed(h)' = Owed(h) - 1 /\ Owed(h) = old.pending
          BY <1>11, <1>15, <4>1
        <5>2. QED
          BY <1>3, <1>4, <1>18, <5>1
      <4>3. Owed(h)' = HowMany(sq, h) + HowMany(kernel, h) + HowMany(cq', h)
        BY <1>1 DEF Owed, HowMany
      <4>4. HowMany(sq, h) \in Nat /\ HowMany(kernel, h) \in Nat /\ HowMany(cq', h) \in Nat
        BY <1>9, OwedType
      <4>5. HowMany(cq', h) = 0
        BY <4>2, <4>3, <4>4
      <4>6. QED
        BY <4>1, <4>5
    <3>2. CountIn(cq', InFull(g)) = 0
      BY <1>2, <1>9, <3>1
    <3>3. CountIn(cq, InFull(g)) = IF c.res = 1 THEN 1 ELSE 0
      BY <1>2, <1>7, <3>2
    <3>4. Cardinality(landed[g]) = new.completed
      BY <1>3, <1>4, <1>15, <3>3 DEF LandedGroup
    <3>5. old.completed + old.pending + (IF old.error THEN 1 ELSE 0) <= n
      BY <1>10, <1>15 DEF LandedGroup
    <3>6. n \in Nat /\ landed[g] \in SUBSET (0 .. n - 1) /\ IsFiniteSet(landed[g])
      BY <1>2, <1>15, IoUringAssumption DEF LandedGroup
    <3>7. landed[g] = 0 .. n - 1 <=> new.completed = n
      <4> HIDE DEF n
      <4> QED BY <3>4, <3>6, FullInterval
    <3>8. new.completed = n => ~new.error
      <4> HIDE DEF new, old, n, c
      <4> QED BY <1>3, <1>4, <1>18, <3>5, <3>6
    <3>9. QED
      BY <3>7, <3>8
  <2>7. reports \in Seq(Reports) /\ Report(g, new) \in Reports /\ Len(reports) \in Nat
    <3>1. new.error \in BOOLEAN
      BY <1>3, <1>4
    <3>2. Report(g, new) \in Reports
      BY <1>2, <3>1 DEF Report, Reports
    <3>3. reports \in Seq(Reports) /\ Len(reports) \in Nat
      BY TypeFacts, LenProperties
    <3>4. QED
      BY <3>2, <3>3
  <2>8. /\ Len(reports') = Len(reports) + 1
        /\ \A i \in 1 .. Len(reports) : reports'[i] = reports[i]
        /\ reports'[Len(reports) + 1] = Report(g, new)
    <3> DEFINE r == Report(g, new)
    <3>1. r \in Reports /\ reports' = Append(reports, r)
      BY <2>1, <2>7
    <3> HIDE DEF r
    <3>2. /\ Len(reports') = Len(reports) + 1
          /\ \A i \in 1 .. Len(reports) : reports'[i] = reports[i]
          /\ reports'[Len(reports) + 1] = r
      BY <2>7, <3>1, AppendProperties
    <3>3. QED
      BY <3>2 DEF r
  <2>9. ReportInv'
    <3>1. /\ Report(g, new).group = g
          /\ Report(g, new).ok <=> landed[g] = 0 .. n - 1
      BY <2>6 DEF Report
    <3>2. ASSUME NEW i \in 1 .. Len(reports')
          PROVE  reports'[i].ok <=> landed[reports'[i].group] = 0 .. Subreads[reports'[i].group] - 1
      <4>1. CASE i \in 1 .. Len(reports)
        BY <2>8, <4>1 DEF ReportInv
      <4>2. CASE i \notin 1 .. Len(reports)
        <5>1. i = Len(reports) + 1
          BY <2>7, <2>8, <4>2
        <5>2. reports'[i] = Report(g, new)
          BY <2>8, <5>1
        <5>3. QED
          BY <3>1, <5>2
      <4>3. QED
        BY <4>1, <4>2
    <3>3. QED
      BY <3>2 DEF ReportInv
  <2>10. \A h \in Groups : HowMany(reports', h) = HowMany(reports, h) + (IF h = g THEN 1 ELSE 0)
    <3> DEFINE r == Report(g, new)
    <3>1. r \in Reports /\ reports' = Append(reports, r) /\ r.group = g
      BY <2>1, <2>7 DEF Report
    <3> HIDE DEF r, g
    <3>2. \A h : HowMany(Append(reports, r), h) = HowMany(reports, h) + (IF r.group = h THEN 1 ELSE 0)
      BY <2>7, <3>1, HowManyAppend
    <3>3. QED
      BY <3>1, <3>2
  <2>11. \A h \in Groups : Held(h) = Held(h)' + (IF h = g THEN 1 ELSE 0)
    BY <1>2, <2>2 DEF Held
  <2>12. PlaceInv'
    <3>1. ASSUME NEW h \in Groups PROVE Places(h)' = Places(h)
      <4>1. /\ Places(h)' = InQueue(h)' + Held(h)' + HowMany(reports', h) + HowMany(batch', h)
            /\ Places(h) = InQueue(h) + Held(h) + HowMany(reports, h) + HowMany(batch, h)
            /\ InQueue(h) \in Nat /\ Held(h) \in {0, 1}
            /\ HowMany(reports, h) \in Nat /\ HowMany(batch, h) \in Nat
        BY PlacesAre, PlacesSumNext
      <4>2. Held(h)' \in {0, 1}
        BY DEF Held
      <4>3. QED
        BY <1>17, <2>10, <2>11, <4>1, <4>2
    <3>2. QED
      BY <3>1, PlacesSame
  <2>13. QED
    BY <1>14, <2>3, <2>4, <2>5, <2>9, <2>12
<1>19. CASE new.pending # 0
  <2>1. inflight' = [inflight EXCEPT ![g] = new] /\ reports' = reports
    <3> HIDE DEF c
    <3> QED BY <1>1, <1>2, <1>19 DEF ProcessCqe
  <2>2. DOMAIN inflight' = DOMAIN inflight /\ inflight'[g] = new
        /\ \A h \in DOMAIN inflight : h # g => inflight'[h] = inflight[h]
    <3> HIDE DEF new, g
    <3> QED BY <1>2, <2>1
  <2>3. RingInv'
    <3>1. ASSUME NEW h \in Groups
          PROVE  Owed(h)' = IF h \in DOMAIN inflight' THEN inflight'[h].pending ELSE 0
      <4>1. CASE h = g
        BY <1>2, <1>3, <1>4, <1>11, <1>15, <2>2, <4>1
      <4>2. CASE h # g
        <5>1. Owed(h) \in Nat
          BY OwedType
        <5>2. Owed(h)' = Owed(h)
          BY <1>11, <4>2, <5>1
        <5>3. QED
          BY <2>2, <4>2, <5>2 DEF RingInv
      <4>3. QED
        BY <4>1, <4>2
    <3>2. QED
      BY <3>1 DEF RingInv
  <2>4. EpochsInv'
    <3>1. \A h \in DOMAIN inflight' : inflight'[h].epoch = 1
      BY <1>4, <2>2 DEF EpochsInv
    <3>2. QED
      BY <1>1, <1>8, <3>1 DEF EpochsInv
  <2>5. LandedGroup(g)
    BY <1>15
  <2>6. ASSUME NEW h \in DOMAIN inflight, h = g PROVE LandedGroup(h)'
    <3>1. inflight'[h] = new /\ h \in Groups
      BY <1>2, <2>2, <2>6
    <3>2. new.completed + new.pending + (IF new.error THEN 1 ELSE 0) <= Prepared(h)
      <4>1. old.completed + old.pending + (IF old.error THEN 1 ELSE 0) <= n /\ n \in Nat
        BY <1>2, <1>10, <1>15, IoUringAssumption DEF LandedGroup
      <4>2. new.completed + new.pending + (IF new.error THEN 1 ELSE 0) <= n
        <5> HIDE DEF new, old, n, c
        <5> QED BY <1>3, <1>4, <4>1
      <4>3. QED
        BY <1>10, <2>6, <4>2
    <3>3. Cardinality(landed[h]) = new.completed + CountIn(cq', InFull(h))
      <4>1. Cardinality(landed[h]) = old.completed + CountIn(cq, InFull(h))
        BY <1>15, <2>6 DEF LandedGroup
      <4>2. CountIn(cq, InFull(h)) = CountIn(cq', InFull(h)) + (IF c.res = 1 THEN 1 ELSE 0)
        BY <1>7, <2>6, <3>1
      <4>3. CountIn(cq', InFull(h)) \in Nat
        BY <1>9, <3>1
      <4>4. QED
        <5> HIDE DEF new, old, n, c
        <5> QED BY <1>3, <1>4, <4>1, <4>2, <4>3
    <3>4. QED
      BY <1>10, <1>12, <1>13, <1>15, <2>6, <3>1, <3>2, <3>3 DEF LandedGroup
  <2>7. LandedInv'
    BY <1>16, <2>2, <2>6 DEF LandedInv
  <2>8. PlaceInv'
    <3>1. \A h \in Groups : Held(h)' = Held(h)
      BY <2>2 DEF Held
    <3>2. \A h \in Groups : Places(h)' = Places(h)
      BY <1>17, <2>1, <3>1, PlacesSum, PlacesSumNext
    <3>3. QED
      BY <3>2, PlacesSame
  <2>9. ReportInv'
    BY <2>1, ReportSame
  <2>10. QED
    BY <1>14, <2>3, <2>4, <2>7, <2>8, <2>9
<1>20. QED
  BY <1>18, <1>19

-----------------------------------------------------------------------------
(* The completion thread and the kernel.                                   *)

(* DrainCompletions hands over what it has gathered.                       *)
LEMMA DrainReturnClean ==
  ASSUME CleanInv, UringTypeOK, UringTypeOK', DrainReturn
  PROVE  CleanInv'
<1> USE DEF CleanInv
<1>1. /\ UNCHANGED <<client, claimed, queue, spc, sjob, sub, inflight, sq, kernel, cq, landed>>
      /\ cpc = "peek" /\ cpc' = "mark" /\ batch = <<>> /\ batch' = reports /\ reports' = <<>>
  BY DEF DrainReturn, clientVars, ringVars, BatchInv
<1>2. \A h : Prepared(h)' = Prepared(h) /\ Held(h)' = Held(h) /\ InQueue(h)' = InQueue(h)
  BY <1>1 DEF Prepared, Cutting, Held, InQueue, CountIn
<1>3. \A h \in Groups : Places(h)' = Places(h)
  <2>1. \A h : HowMany(<<>>, h) = 0
    BY HowManyType, EmptySeq
  <2>2. ASSUME NEW h \in Groups PROVE Places(h)' = Places(h)
    <3>1. /\ Places(h)' = InQueue(h)' + Held(h)' + HowMany(reports', h) + HowMany(batch', h)
          /\ Places(h) = InQueue(h) + Held(h) + HowMany(reports, h) + HowMany(batch, h)
          /\ InQueue(h) \in Nat /\ Held(h) \in {0, 1} /\ HowMany(reports, h) \in Nat
      BY PlacesAre, PlacesSumNext
    <3>2. HowMany(reports', h) = 0 /\ HowMany(batch', h) = HowMany(reports, h) /\ HowMany(batch, h) = 0
      BY <1>1, <2>1
    <3>3. QED
      BY <1>2, <3>1, <3>2
  <2>3. QED
    BY <2>2
<1>4. SubmitInv'
  BY <1>1 DEF SubmitInv, Cutting, HowMany
<1>5. ReportInv'
  BY <1>1 DEF ReportInv
<1>6. QED
  BY <1>1, <1>2, <1>3, <1>4, <1>5, PlacesSame, RingSame, LandedSame DEF BatchInv

(* The completion thread marks a reported group and forgets it.            *)
LEMMA MarkClean ==
  ASSUME CleanInv, UringTypeOK, UringTypeOK', MarkJobCompleted
  PROVE  CleanInv'
<1> USE DEF CleanInv
<1> DEFINE g == Head(batch).group
<1>1. /\ UNCHANGED <<client, queue, spc, sjob, sub, cpc, inflight, reports, sq, kernel, cq, landed>>
      /\ cpc = "mark" /\ batch # <<>> /\ batch' = Tail(batch) /\ claimed' = claimed \ {g}
  BY DEF MarkJobCompleted, engineVars, ringVars
<1>2. batch \in Seq(Reports) /\ batch' \in Seq(Reports) /\ Len(batch) \in Nat
      /\ Len(batch') = Len(batch) - 1 /\ \A i \in 1 .. Len(batch') : batch'[i] = batch[i + 1]
  BY <1>1, TypeFacts, HeadTailProperties, LenProperties
<1>3. \A h : Prepared(h)' = Prepared(h) /\ Held(h)' = Held(h) /\ InQueue(h)' = InQueue(h)
  BY <1>1 DEF Prepared, Cutting, Held, InQueue, CountIn
<1>4. \A h \in Groups : Places(h)' = Places(h) - (IF h = g THEN 1 ELSE 0) /\ Places(h) \in Nat /\ Places(h)' \in Nat
  <2>1. \A h : HowMany(batch, h) = HowMany(batch', h) + (IF g = h THEN 1 ELSE 0)
    BY <1>1, <1>2, HowManyTail
  <2>2. \A h : HowMany(batch', h) \in Nat
    BY <1>2, HowManyType
  <2>3. ASSUME NEW h \in Groups
        PROVE  Places(h)' = Places(h) - (IF h = g THEN 1 ELSE 0) /\ Places(h) \in Nat /\ Places(h)' \in Nat
    <3>1. /\ Places(h)' = InQueue(h)' + Held(h)' + HowMany(reports', h) + HowMany(batch', h)
          /\ Places(h) = InQueue(h) + Held(h) + HowMany(reports, h) + HowMany(batch, h)
          /\ InQueue(h) \in Nat /\ Held(h) \in {0, 1} /\ HowMany(reports, h) \in Nat
          /\ HowMany(batch, h) \in Nat
      BY PlacesAre, PlacesSumNext
    <3>2. /\ HowMany(batch, h) = HowMany(batch', h) + (IF g = h THEN 1 ELSE 0)
          /\ HowMany(batch', h) \in Nat /\ reports' = reports
          /\ Held(h)' = Held(h) /\ InQueue(h)' = InQueue(h)
      BY <1>1, <1>3, <2>1, <2>2
    <3> HIDE DEF g
    <3>3. QED
      BY <3>1, <3>2
  <2>4. QED
    BY <2>3
<1>5. PlaceInv'
  <2>1. ASSUME NEW h \in Groups
        PROVE  /\ Places(h)' <= 1
               /\ Places(h)' = 1 => h \in claimed'
               /\ client' = "running" /\ h \in claimed' => Places(h)' = 1
    <3>1. /\ Places(h) <= 1 /\ (Places(h) = 1 => h \in claimed)
          /\ (client = "running" /\ h \in claimed => Places(h) = 1)
      BY DEF PlaceInv
    <3>2. CASE h = g
      <4>1. Places(h)' = 0
        BY <1>4, <3>1, <3>2
      <4>2. QED
        BY <1>1, <3>2, <4>1
    <3>3. CASE h # g
      <4>1. Places(h)' = Places(h)
        BY <1>4, <3>3
      <4>2. QED
        BY <1>1, <3>1, <3>3, <4>1
    <3>4. QED
      BY <3>2, <3>3
  <2>2. QED
    BY <2>1 DEF PlaceInv
<1>6. SubmitInv'
  BY <1>1 DEF SubmitInv, Cutting, HowMany
<1>7. ReportInv'
  <2>1. \A i \in 1 .. Len(batch') : i + 1 \in 1 .. Len(batch) /\ batch'[i] = batch[i + 1]
    BY <1>2
  <2>2. QED
    BY <1>1, <2>1 DEF ReportInv
<1>8. QED
  BY <1>1, <1>3, <1>5, <1>6, <1>7, RingSame, LandedSame DEF BatchInv

(* The kernel ends a read, in full, short or in error.                     *)
LEMMA EndReadClean ==
  ASSUME CleanInv, UringTypeOK, UringTypeOK',
         NEW i \in 1 .. Len(kernel), NEW res \in {-1, 0, 1}, EndRead(i, res)
  PROVE  CleanInv'
<1> USE DEF CleanInv
<1> DEFINE g == kernel[i].group
           k == kernel[i].sub
           cqe == [group |-> g, epoch |-> kernel[i].epoch, res |-> res]
<1>1. /\ UNCHANGED <<client, claimed, queue, spc, sjob, sub, cpc, batch, inflight, reports, sq>>
      /\ cq' = Append(cq, cqe) /\ kernel' = RemoveAt(kernel, i)
      /\ landed' = IF res = 1 THEN [landed EXCEPT ![g] = @ \cup {k}] ELSE landed
  BY DEF EndRead, clientVars, threadVars, engineVars
<1>2. /\ sq \in Seq(Tags) /\ kernel \in Seq(Tags) /\ cq \in Seq(Cqes) /\ Len(kernel) \in Nat
      /\ kernel[i] \in Tags /\ kernel' \in Seq(Tags)
  <2>1. sq \in Seq(Tags) /\ kernel \in Seq(Tags) /\ cq \in Seq(Cqes)
    BY TypeFacts
  <2>2. QED
    BY <1>1, <2>1, CountRemove, LenProperties
<1>3. /\ g \in Groups /\ k \in Nat /\ kernel[i].epoch = 1
      /\ g \in DOMAIN inflight /\ cqe \in Cqes
  <2>1. g \in Groups /\ k \in Nat /\ kernel[i].epoch \in 0 .. 2^16 - 1
    BY Zenon, <1>2 DEF Tags
  <2>2. cqe \in Cqes
    BY Zenon, <2>1 DEF Cqes
  <2>3. QED
    BY <2>1, <2>2, OwedInflight DEF EpochsInv
<1>4. Cutting => sjob # g
  <2>1. HowMany(kernel, g) # 0
    BY <1>2, HowManyType
  <2>2. Cutting => g \in Prompt
    BY DEF EndRead, EngineLocked, SubmitPcs, Cutting
  <2>3. QED
    BY <2>1, <2>2 DEF SubmitInv
<1>5. (\A h : Prepared(h)' = Prepared(h)) /\ Prepared(g) = Subreads[g]
  BY <1>1, <1>4 DEF Prepared, Cutting
<1>6. \A h \in Groups : /\ HowMany(kernel, h) = HowMany(kernel', h) + (IF h = g THEN 1 ELSE 0)
                        /\ HowMany(cq', h) = HowMany(cq, h) + (IF h = g THEN 1 ELSE 0)
                        /\ HowMany(kernel', h) \in Nat
  <2>1. \A h : HowMany(kernel, h) = HowMany(RemoveAt(kernel, i), h) + (IF g = h THEN 1 ELSE 0)
    BY <1>2, HowManyRemove
  <2>2. \A h : HowMany(Append(cq, cqe), h) = HowMany(cq, h) + (IF cqe.group = h THEN 1 ELSE 0)
    <3> HIDE DEF cqe
    <3> QED BY <1>2, <1>3, HowManyAppend
  <2>3. \A h : HowMany(kernel', h) \in Nat
    BY <1>2, HowManyType
  <2>4. cqe.group = g
    OBVIOUS
  <2>5. QED
    <3> HIDE DEF cqe
    <3> QED BY <1>1, <2>1, <2>2, <2>3, <2>4
<1>7. \A h \in Groups : Owed(h)' = Owed(h)
  <2>1. \A h : Owed(h)' = HowMany(sq, h) + HowMany(kernel', h) + HowMany(cq', h)
    BY <1>1 DEF Owed, HowMany
  <2>2. ASSUME NEW h \in Groups PROVE Owed(h)' = Owed(h)
    BY <1>6, <2>1, OwedType DEF Owed
  <2>3. QED
    BY <2>2
<1>8. RingInv'
  BY <1>1, <1>7 DEF RingInv
<1>9. EpochsInv'
  <2>1. \A j \in 1 .. Len(kernel') : kernel'[j].epoch = 1
    <3>1. \A j \in 1 .. Len(kernel) : kernel[j] \notin {t \in Tags : t.epoch # 1}
      BY DEF EpochsInv
    <3>2. CountIn(kernel, {t \in Tags : t.epoch # 1}) = 0
      BY <1>2, <3>1, CountType
    <3>3. CountIn(kernel, {t \in Tags : t.epoch # 1}) = CountIn(kernel', {t \in Tags : t.epoch # 1})
              + (IF kernel[i] \in {t \in Tags : t.epoch # 1} THEN 1 ELSE 0)
      BY <1>1, <1>2, CountRemove
    <3>4. CountIn(kernel', {t \in Tags : t.epoch # 1}) = 0
      <4>1. CountIn(kernel', {t \in Tags : t.epoch # 1}) \in 0 .. Len(kernel') /\ Len(kernel') \in Nat
        BY <1>2, CountType, LenProperties
      <4>2. QED
        BY <1>3, <3>2, <3>3, <4>1
    <3>5. \A j \in 1 .. Len(kernel') : kernel'[j] \notin {t \in Tags : t.epoch # 1}
      BY <1>2, <3>4, CountType
    <3>6. QED
      BY <1>2, <3>5, ElementOfSeq
  <2>2. \A j \in 1 .. Len(cq') : cq'[j].epoch = 1
    <3>1. /\ Len(cq) \in Nat /\ Len(cq') = Len(cq) + 1 /\ cq'[Len(cq) + 1] = cqe
          /\ \A j \in 1 .. Len(cq) : cq'[j] = cq[j]
      <4> HIDE DEF cqe
      <4> QED BY <1>1, <1>2, <1>3, AppendProperties, LenProperties
    <3>2. QED
      BY <1>3, <3>1 DEF EpochsInv
  <2>3. QED
    BY <1>1, <2>1, <2>2 DEF EpochsInv
<1>10. SubmitInv'
  <2>1. sjob \in Groups
    BY TypeFacts
  <2>2. Cutting => HowMany(cq', sjob) = HowMany(cq, sjob) /\ HowMany(kernel', sjob) = HowMany(kernel, sjob)
    <3>1. SUFFICES ASSUME Cutting
                   PROVE  HowMany(cq', sjob) = HowMany(cq, sjob) /\ HowMany(kernel', sjob) = HowMany(kernel, sjob)
      OBVIOUS
    <3>2. sjob # g
      BY <1>4, <3>1
    <3>3. /\ HowMany(kernel, sjob) = HowMany(kernel', sjob) + 0
          /\ HowMany(cq', sjob) = HowMany(cq, sjob) + 0
          /\ HowMany(kernel', sjob) \in Nat /\ HowMany(cq, sjob) \in Nat
      BY <1>6, <2>1, <3>2, OwedType
    <3>4. QED
      BY <3>3
  <2>3. HowMany(cq, sjob)' = HowMany(cq', sjob) /\ HowMany(kernel, sjob)' = HowMany(kernel', sjob)
    BY <1>1 DEF HowMany
  <2>4. QED
    BY <1>1, <2>2, <2>3 DEF SubmitInv, Cutting
<1>11. landed \in [Groups -> SUBSET Nat] /\ (res # 1 => landed' = landed)
       /\ (res = 1 => landed'[g] = landed[g] \cup {k} /\ \A h \in Groups : h # g => landed'[h] = landed[h])
  BY Zenon, <1>1, <1>3 DEF UringTypeOK
<1>12. \A h \in Groups, m \in Nat :
         /\ CountIn(kernel, OfSub(h, m)) = CountIn(kernel', OfSub(h, m)) + (IF h = g /\ m = k THEN 1 ELSE 0)
         /\ CountIn(kernel', OfSub(h, m)) \in Nat
  <2>1. ASSUME NEW h \in Groups, NEW m \in Nat
        PROVE  /\ CountIn(kernel, OfSub(h, m)) = CountIn(kernel', OfSub(h, m)) + (IF h = g /\ m = k THEN 1 ELSE 0)
               /\ CountIn(kernel', OfSub(h, m)) \in Nat
    <3>1. CountIn(kernel, OfSub(h, m)) = CountIn(kernel', OfSub(h, m)) + (IF kernel[i] \in OfSub(h, m) THEN 1 ELSE 0)
      BY <1>1, <1>2, CountRemove
    <3>2. kernel[i] \in OfSub(h, m) <=> h = g /\ m = k
      BY <1>2 DEF OfSub
    <3>3. CountIn(kernel', OfSub(h, m)) \in 0 .. Len(kernel') /\ Len(kernel') \in Nat
      BY <1>2, CountType, LenProperties
    <3>4. QED
      BY <3>1, <3>2, <3>3
  <2>2. QED
    BY <2>1
<1>13. \A h \in Groups : CountIn(cq', InFull(h)) = CountIn(cq, InFull(h)) + (IF h = g /\ res = 1 THEN 1 ELSE 0)
  <2>1. \A h : CountIn(Append(cq, cqe), InFull(h)) = CountIn(cq, InFull(h)) + (IF cqe \in InFull(h) THEN 1 ELSE 0)
    <3> HIDE DEF cqe
    <3> QED BY <1>2, <1>3, CountAppend
  <2>2. \A h : cqe \in InFull(h) <=> h = g /\ res = 1
    BY <1>3 DEF InFull
  <2>3. QED
    BY <1>1, <2>1, <2>2
<1>14. \A h, m : CopiesOf(h, m)' = CountIn(sq, OfSub(h, m)) + CountIn(kernel', OfSub(h, m))
                                   + (IF m \in landed'[h] THEN 1 ELSE 0)
  BY <1>1 DEF CopiesOf, CountIn
<1>15. \A h : CountIn(cq, InFull(h))' = CountIn(cq', InFull(h))
  BY DEF CountIn
<1>16. LandedGroup(g) /\ CopiesOf(g, k) <= IF k < Subreads[g] THEN 1 ELSE 0
  BY <1>3, <1>5 DEF LandedInv, LandedGroup
<1>17. k < Subreads[g] /\ k \notin landed[g]
  <2>1. CountIn(kernel, OfSub(g, k)) >= 1
    BY <1>3, <1>12
  <2>2. CountIn(sq, OfSub(g, k)) \in Nat /\ CountIn(kernel, OfSub(g, k)) \in Nat
    BY CopiesType
  <2>3. CountIn(sq, OfSub(g, k)) + CountIn(kernel, OfSub(g, k)) + (IF k \in landed[g] THEN 1 ELSE 0)
          <= IF k < Subreads[g] THEN 1 ELSE 0
    BY <1>16 DEF CopiesOf
  <2> HIDE DEF g, k
  <2>4. QED
    BY <2>1, <2>2, <2>3
<1>18. LandedInv'
  <2>1. ASSUME NEW h \in DOMAIN inflight PROVE LandedGroup(h)'
    <3>1. LandedGroup(h) /\ h \in Groups
      BY TypeFacts DEF LandedInv
    <3>2. \A m \in Nat : CopiesOf(h, m)' <= CopiesOf(h, m)
      <4>1. ASSUME NEW m \in Nat PROVE CopiesOf(h, m)' <= CopiesOf(h, m)
        <5>1. /\ CountIn(kernel, OfSub(h, m)) = CountIn(kernel', OfSub(h, m)) + (IF h = g /\ m = k THEN 1 ELSE 0)
              /\ CountIn(kernel', OfSub(h, m)) \in Nat /\ CountIn(sq, OfSub(h, m)) \in Nat
          BY <1>12, <3>1, CopiesType
        <5>2. (IF m \in landed'[h] THEN 1 ELSE 0) <= (IF m \in landed[h] THEN 1 ELSE 0) + (IF h = g /\ m = k THEN 1 ELSE 0)
          <6>1. m \in landed'[h] => m \in landed[h] \/ (h = g /\ m = k)
            BY <1>11, <3>1
          <6>2. QED
            <7> HIDE DEF g, k
            <7> QED BY <6>1
        <5>3. CopiesOf(h, m)' = CountIn(sq, OfSub(h, m)) + CountIn(kernel', OfSub(h, m)) + (IF m \in landed'[h] THEN 1 ELSE 0)
          BY <1>14
        <5> HIDE DEF g, k
        <5>4. QED
          BY <5>1, <5>2, <5>3 DEF CopiesOf
      <4>2. QED
        BY <4>1
    <3>3. \A m \in Nat : CopiesOf(h, m)' <= IF m < Prepared(h)' THEN 1 ELSE 0
      <4>1. ASSUME NEW m \in Nat PROVE CopiesOf(h, m)' <= IF m < Prepared(h)' THEN 1 ELSE 0
        <5>1. CopiesOf(h, m)' <= CopiesOf(h, m) /\ CopiesOf(h, m) <= IF m < Prepared(h) THEN 1 ELSE 0
          BY <3>1, <3>2 DEF LandedGroup
        <5>2. CopiesOf(h, m) \in Nat /\ Prepared(h)' = Prepared(h)
          BY <1>5, CopiesType
        <5>3. CopiesOf(h, m)' \in Int
          <6>1. CountIn(sq, OfSub(h, m)) \in Nat /\ CountIn(kernel', OfSub(h, m)) \in Nat
            BY <1>12, <3>1, CopiesType
          <6>2. QED
            BY <1>14, <6>1
        <5>4. QED
          BY <5>1, <5>2, <5>3
      <4>2. QED
        BY <4>1
    <3>4. /\ IsFiniteSet(landed'[h]) /\ landed'[h] \subseteq 0 .. Subreads[h] - 1
          /\ Cardinality(landed'[h]) = inflight[h].completed + CountIn(cq', InFull(h))
      <4>1. /\ IsFiniteSet(landed[h]) /\ landed[h] \subseteq 0 .. Subreads[h] - 1
            /\ Cardinality(landed[h]) = inflight[h].completed + CountIn(cq, InFull(h))
            /\ CountIn(cq, InFull(h)) \in Nat /\ inflight[h].completed \in Nat /\ Subreads[h] \in Nat
        BY <3>1, CopiesType, TypeFacts, IoUringAssumption DEF LandedGroup
      <4>2. CASE ~(h = g /\ res = 1)
        <5>1. landed'[h] = landed[h]
          BY <1>11, <3>1, <4>2
        <5>2. CountIn(cq', InFull(h)) = CountIn(cq, InFull(h))
          BY <1>13, <3>1, <4>1, <4>2
        <5>3. QED
          BY <4>1, <5>1, <5>2
      <4>3. CASE h = g /\ res = 1
        <5>1. landed'[h] = landed[h] \cup {k} /\ k \notin landed[h] /\ k \in 0 .. Subreads[h] - 1
          BY <1>3, <1>11, <1>17, <4>1, <4>3
        <5>2. IsFiniteSet(landed'[h]) /\ Cardinality(landed'[h]) = Cardinality(landed[h]) + 1
          <6>1. /\ IsFiniteSet(landed[h] \cup {k})
                /\ Cardinality(landed[h] \cup {k}) = IF k \in landed[h] THEN Cardinality(landed[h])
                                                     ELSE Cardinality(landed[h]) + 1
            BY <4>1, FS_AddElement
          <6> HIDE DEF k
          <6>2. QED
            BY <5>1, <6>1
        <5>3. CountIn(cq', InFull(h)) = CountIn(cq, InFull(h)) + 1
          BY <1>13, <3>1, <4>3
        <5>4. landed'[h] \subseteq 0 .. Subreads[h] - 1
          <6> HIDE DEF k
          <6> QED BY <4>1, <5>1
        <5>5. Cardinality(landed'[h]) = inflight[h].completed + CountIn(cq', InFull(h))
          BY <4>1, <5>2, <5>3
        <5>6. QED
          BY <5>2, <5>4, <5>5
      <4>4. QED
        BY <4>2, <4>3
    <3>5. QED
      BY <1>1, <1>5, <1>15, <3>1, <3>3, <3>4 DEF LandedGroup
  <2>2. QED
    BY <1>1, <2>1 DEF LandedInv
<1>19. ReportInv'
  <2>1. /\ \A j \in 1 .. Len(reports) : reports[j].group # g
        /\ \A j \in 1 .. Len(batch) : batch[j].group # g
    BY <1>3, InflightAlone
  <2>2. reports \in Seq(Reports) /\ batch \in Seq(Reports)
    BY TypeFacts
  <2>3. /\ \A j \in 1 .. Len(reports) : reports[j].group \in Groups
        /\ \A j \in 1 .. Len(batch) : batch[j].group \in Groups
    <3>1. \A j \in 1 .. Len(reports) : reports[j] \in Reports
      BY <2>2, ElementOfSeq
    <3>2. \A j \in 1 .. Len(batch) : batch[j] \in Reports
      BY <2>2, ElementOfSeq
    <3>3. QED
      BY <3>1, <3>2 DEF Reports
  <2>4. \A h \in Groups : h # g => landed'[h] = landed[h]
    BY <1>11
  <2>5. QED
    BY <1>1, <2>1, <2>3, <2>4 DEF ReportInv
<1>20. PlaceInv'
  <2>1. \A h \in Groups : Held(h)' = Held(h) /\ InQueue(h)' = InQueue(h)
    BY <1>1 DEF Held, InQueue, CountIn
  <2>2. \A h \in Groups : Places(h)' = Places(h)
    BY <1>1, <2>1, PlacesSum, PlacesSumNext
  <2>3. QED
    BY <1>1, <2>2, PlacesSame
<1>21. QED
  BY <1>1, <1>8, <1>9, <1>10, <1>18, <1>19, <1>20 DEF BatchInv

-----------------------------------------------------------------------------
(* All steps.                                                              *)

(* The invariant holds initially.                                          *)
LEMMA UringInvInit == UringInit => UringInv
<1> SUFFICES ASSUME UringInit PROVE CleanInv
  BY UringTypeInit DEF UringInv
<1> USE DEF UringInit
<1>1. UringTypeOK /\ DOMAIN inflight = {}
  BY UringTypeInit
<1>2. \A h : HowMany(<<>>, h) = 0 /\ CountIn(<<>>, {h}) = 0
  BY HowManyType, EmptySeq, CountEmpty
<1>3. RingInv
  <2>1. \A h : Owed(h) = 0
    BY <1>2 DEF Owed
  <2>2. QED
    BY <1>1, <2>1 DEF RingInv
<1>4. EpochsInv /\ LandedInv /\ SubmitInv /\ BatchInv /\ ReportInv
  BY <1>1 DEF EpochsInv, LandedInv, SubmitInv, Cutting, BatchInv, ReportInv
<1>5. PlaceInv
  <2>1. ASSUME NEW h \in Groups PROVE Places(h) = 0
    <3>1. InQueue(h) = 0 /\ HowMany(reports, h) = 0 /\ HowMany(batch, h) = 0 /\ Held(h) = 0
      BY <1>1, <1>2 DEF InQueue, Held
    <3>2. QED
      BY <1>1, <3>1, PlacesSum
  <2>2. QED
    BY <2>1 DEF PlaceInv
<1>6. QED
  BY <1>3, <1>4, <1>5 DEF CleanInv

(* Every step keeps the invariant.                                         *)
LEMMA UringInvNext ==
  ASSUME PromptFits
  PROVE  UringInv /\ [UringNext]_uringVars => UringInv'
<1> SUFFICES ASSUME UringInv, [UringNext]_uringVars PROVE UringInv'
  OBVIOUS
<1>1. UringTypeOK /\ UringTypeOK'
  BY UringTypeStep DEF UringInv
<1>2. SUFFICES ASSUME Clean' PROVE CleanInv'
  BY <1>1 DEF UringInv
<1>3. Clean
  <2>1. failures \in Nat /\ (failures' = failures \/ failures' = failures + 1)
    <3>1. failures \in Nat
      BY <1>1, TypeFacts
    <3>2. ASSUME UringNext PROVE failures' = failures \/ failures' = failures + 1
      BY <3>2 DEF UringNext, Enqueue, StopWorker, ClientStep, ClearQueue, JoinAndShutdown,
           SubmissionStep, TakeJob, SubmissionExit, SubmitBegin, PrepareRead, SubmitFullRing,
           CollectFull, ContinueRequest, SubmitRequest, SubmitFails, CollectAfterSubmit, SubmitReturn,
           Requeue, CompletionStep, CompletionExit, SeePending, DrainCompletions, DrainOne,
           DrainReturn, MarkJobCompleted, NextRound, KernelStep, EndRead, Stopped, uringVars
    <3>3. QED
      BY <3>1, <3>2 DEF uringVars
  <2>2. QED
    BY <1>2, <2>1 DEF Clean
<1>4. CleanInv
  BY <1>3 DEF UringInv
<1> USE DEF clientVars, threadVars, engineVars, ringVars
<1>5. ASSUME NEW g \in Groups, Enqueue(g) PROVE CleanInv'
  BY <1>1, <1>4, <1>5, EnqueueClean
<1>6. CASE StopWorker
  BY <1>1, <1>4, <1>6, ThreadFrame DEF StopWorker
<1>7. CASE ClientStep
  BY <1>1, <1>4, <1>7, ClearQueueClean, JoinClean DEF ClientStep
<1>8. CASE SubmissionStep
  <2>1. CASE TakeJob
    BY <1>1, <1>4, <2>1, TakeClean
  <2>2. CASE SubmissionExit
    BY <1>1, <1>4, <2>2, ThreadFrame DEF SubmissionExit
  <2>3. CASE SubmitBegin
    BY <1>1, <1>4, <2>3, BeginClean
  <2>4. CASE PrepareRead
    BY <1>1, <1>4, <2>4, PrepareClean
  <2>5. CASE SubmitFullRing
    BY <1>1, <1>4, <2>5, FullRingClean
  <2>6. CASE CollectFull
    BY <1>1, <1>4, <2>6, CollectClean DEF CollectFull
  <2>7. CASE ContinueRequest
    BY <1>1, <1>4, <2>7, ThreadFrame DEF ContinueRequest
  <2>8. CASE SubmitRequest
    BY <1>1, <1>4, <2>8, RequestClean
  <2>9. CASE SubmitFails
    <3>1. failures \in Nat /\ failures' = failures + 1
      BY <1>1, <2>9, TypeFacts DEF SubmitFails
    <3>2. QED
      BY <1>2, <3>1 DEF Clean
  <2>10. CASE CollectAfterSubmit
    BY <1>1, <1>4, <2>10, CollectClean DEF CollectAfterSubmit
  <2>11. CASE SubmitReturn
    BY <1>1, <1>4, <2>11, ThreadFrame DEF SubmitReturn
  <2>12. CASE Requeue
    BY <1>4, <2>12 DEF Requeue, CleanInv, SubmitInv
  <2>13. QED
    BY <1>8, <2>1, <2>2, <2>3, <2>4, <2>5, <2>6, <2>7, <2>8, <2>9, <2>10, <2>11, <2>12 DEF SubmissionStep
<1>9. CASE CompletionStep
  <2>1. CASE CompletionExit \/ SeePending \/ DrainCompletions \/ NextRound
    BY <1>1, <1>4, <2>1, ThreadFrame DEF CompletionExit, SeePending, DrainCompletions, NextRound
  <2>2. CASE DrainOne
    BY <1>1, <1>4, <2>2, CollectClean DEF DrainOne
  <2>3. CASE DrainReturn
    BY <1>1, <1>4, <2>3, DrainReturnClean
  <2>4. CASE MarkJobCompleted
    BY <1>1, <1>4, <2>4, MarkClean
  <2>5. QED
    BY <1>9, <2>1, <2>2, <2>3, <2>4 DEF CompletionStep
<1>10. CASE KernelStep
  BY <1>1, <1>4, <1>10, EndReadClean DEF KernelStep
<1>11. CASE UNCHANGED uringVars
  BY <1>1, <1>4, <1>11, ThreadFrame DEF uringVars
<1>12. QED
  BY <1>5, <1>6, <1>7, <1>8, <1>9, <1>10, <1>11 DEF UringNext, Stopped

-----------------------------------------------------------------------------
(* One read outstanding.                                                   *)

EngineInv ==
  /\ IsFiniteSet(claimed) /\ Cardinality(claimed) <= MaxOutstanding
  /\ Clean /\ MaxOutstanding = 1 /\ cpc \in {"drain", "wait", "peek"} =>
       /\ ~EngineLocked /\ spc # "submit"
       /\ HasPending \/ reports # <<>>

(* At most one group is claimed.                                           *)
LEMMA OneClaimed ==
  ASSUME IsFiniteSet(claimed), Cardinality(claimed) <= 1, NEW g \in claimed, NEW h \in claimed
  PROVE  g = h
<1>1. Cardinality(claimed) \in Nat
  BY FS_CardinalityType
<1>2. Cardinality(claimed) # 0
  BY FS_EmptySet
<1>3. Cardinality(claimed) = 1
  BY <1>1, <1>2
<1>4. \E x : claimed = {x}
  BY <1>3, FS_Singleton
<1>5. QED
  BY <1>4

(* While the engine holds a job no other one is queued or being submitted. *)
LEMMA EngineHasTheJob ==
  ASSUME UringTypeOK, CleanInv, IsFiniteSet(claimed), Cardinality(claimed) <= 1,
         HasPending \/ reports # <<>>
  PROVE  /\ spc \in {"take", "submit", "collect", "off"} => queue = <<>>
         /\ spc # "submit"
<1> USE DEF CleanInv
<1>0. reports \in Seq(Reports) /\ queue \in Seq(Groups) /\ sjob \in Groups
  BY TypeFacts
<1>1. PICK g \in Groups : g \in DOMAIN inflight \/ HowMany(reports, g) > 0
  <2>1. CASE HasPending
    BY <2>1, TypeFacts DEF HasPending
  <2>2. CASE reports # <<>>
    <3>1. Len(reports) \in Nat /\ Len(reports) # 0
      BY <1>0, <2>2, LenProperties, EmptySeq
    <3>2. reports[1] \in Reports /\ 1 \in 1 .. Len(reports)
      BY <1>0, <3>1, ElementOfSeq
    <3>3. HowMany(reports, reports[1].group) # 0 /\ HowMany(reports, reports[1].group) \in Nat
      BY <1>0, <3>2, HowManyType
    <3>4. reports[1].group \in Groups
      BY <3>2 DEF Reports
    <3>5. QED
      BY <3>3, <3>4
  <2>3. QED
    BY <2>1, <2>2
<1>2. /\ Places(g) = InQueue(g) + Held(g) + HowMany(reports, g) + HowMany(batch, g)
      /\ InQueue(g) \in Nat /\ Held(g) \in {0, 1}
      /\ HowMany(reports, g) \in Nat /\ HowMany(batch, g) \in Nat
      /\ g \in DOMAIN inflight => Held(g) = 1
  BY PlacesAre
<1>3. Places(g) = 1 /\ g \in claimed
  BY <1>1, <1>2 DEF PlaceInv
<1>4. \A h \in Groups : h # g => Places(h) = 0 /\ Places(h) = InQueue(h) + Held(h) + HowMany(reports, h) + HowMany(batch, h)
  <2>1. ASSUME NEW h \in Groups, h # g
        PROVE  Places(h) = 0 /\ Places(h) = InQueue(h) + Held(h) + HowMany(reports, h) + HowMany(batch, h)
    <3>1. /\ Places(h) = InQueue(h) + Held(h) + HowMany(reports, h) + HowMany(batch, h)
          /\ InQueue(h) \in Nat /\ Held(h) \in {0, 1}
          /\ HowMany(reports, h) \in Nat /\ HowMany(batch, h) \in Nat
      BY PlacesAre
    <3>2. Places(h) # 1
      BY <1>3, <2>1, OneClaimed DEF PlaceInv
    <3>3. Places(h) <= 1
      BY DEF PlaceInv
    <3>4. QED
      BY <3>1, <3>2, <3>3
  <2>2. QED
    BY <2>1
<1>5. \A h \in Groups : InQueue(h) = 0
  <2>1. InQueue(g) = 0
    BY <1>1, <1>2, <1>3
  <2>2. ASSUME NEW h \in Groups, h # g PROVE InQueue(h) = 0
    <3>1. InQueue(h) \in Nat /\ Held(h) \in {0, 1} /\ HowMany(reports, h) \in Nat /\ HowMany(batch, h) \in Nat
      BY PlacesAre
    <3>2. QED
      BY <1>4, <2>2, <3>1
  <2>3. QED
    BY <2>1, <2>2
<1>6. queue = <<>>
  <2>1. SUFFICES ASSUME queue # <<>> PROVE FALSE
    OBVIOUS
  <2>2. Len(queue) \in Nat /\ Len(queue) # 0
    BY <1>0, <2>1, LenProperties, EmptySeq
  <2>3. queue[1] \in Groups /\ 1 \in 1 .. Len(queue)
    BY <1>0, <2>2, ElementOfSeq
  <2>4. CountIn(queue, {queue[1]}) # 0
    BY <1>0, <2>3, CountType
  <2>5. QED
    BY <1>5, <2>3, <2>4 DEF InQueue
<1>7. spc # "submit"
  <2>1. SUFFICES ASSUME spc = "submit" PROVE FALSE
    OBVIOUS
  <2>2. Held(sjob) = 1
    BY <2>1 DEF Held
  <2>3. sjob = g
    <3>1. ASSUME sjob # g PROVE FALSE
      <4>1. InQueue(sjob) \in Nat /\ HowMany(reports, sjob) \in Nat /\ HowMany(batch, sjob) \in Nat
        BY <1>0, PlacesAre
      <4>2. QED
        BY <1>0, <1>4, <2>2, <3>1, <4>1
    <3>2. QED
      BY <3>1
  <2>4. g \notin DOMAIN inflight
    BY <2>1, <2>3 DEF SubmitInv
  <2>5. QED
    BY <1>1, <1>2, <1>3, <2>2, <2>3, <2>4
<1>8. QED
  BY <1>6, <1>7

(* Initially no thread is in the engine.                                   *)
LEMMA EngineInvInit == UringInit => EngineInv
<1> SUFFICES ASSUME UringInit PROVE EngineInv
  OBVIOUS
<1>1. claimed = {} /\ cpc = "check" /\ MaxOutstanding \in Nat
  BY IoUringAssumption DEF UringInit
<1>2. IsFiniteSet({}) /\ Cardinality({}) = 0
  BY FS_EmptySet
<1>3. QED
  BY <1>1, <1>2 DEF EngineInv

(* Taking a completion leaves the engine with something to hand over. *)
LEMMA CollectKeepsWork ==
  ASSUME CollectOne, HasPending \/ reports # <<>>, UringTypeOK
  PROVE  HasPending' \/ reports' # <<>>
<1> DEFINE c == Head(cq)
           g == c.group
           new == CountRead(inflight[g], c.res)
<1>1. ProcessCqe(c)
  BY DEF CollectOne
<1>2. CASE g \notin DOMAIN inflight \/ inflight[g].epoch # c.epoch
  BY <1>1, <1>2 DEF ProcessCqe, engineVars, HasPending
<1>3. CASE ~(g \notin DOMAIN inflight \/ inflight[g].epoch # c.epoch)
  <2>1. CASE new.pending = 0
    <3>1. reports' = Append(reports, Report(g, new))
      BY <1>1, <1>3, <2>1 DEF ProcessCqe
    <3>2. reports \in Seq(Reports) /\ Len(reports) \in Nat
      BY TypeFacts, LenProperties
    <3>3. Len(reports') = Len(reports) + 1
      <4> HIDE DEF g, new
      <4> QED BY <3>1, <3>2
    <3>4. reports' # <<>>
      BY <3>2, <3>3
    <3>5. QED
      BY <3>4
  <2>2. CASE new.pending # 0
    <3>1. inflight' = [inflight EXCEPT ![g] = new]
      BY <1>1, <1>3, <2>2 DEF ProcessCqe
    <3>2. DOMAIN inflight' = DOMAIN inflight
      BY <3>1
    <3>3. QED
      BY <1>3, <3>2 DEF HasPending
  <2>3. QED
    BY <2>1, <2>2
<1>4. QED
  BY <1>2, <1>3

(* Every step keeps the two threads out of each other's way.               *)
LEMMA EngineInvNext ==
  UringInv /\ EngineInv /\ [UringNext]_uringVars => EngineInv'
<1> SUFFICES ASSUME UringInv, EngineInv, [UringNext]_uringVars PROVE EngineInv'
  OBVIOUS
<1> USE DEF clientVars, threadVars, engineVars, ringVars, SubmitPcs, EngineLocked
<1>1. UringTypeOK /\ failures \in Nat /\ MaxOutstanding \in Nat
  BY TypeFacts, IoUringAssumption DEF UringInv
<1>2. /\ IsFiniteSet(claimed) /\ Cardinality(claimed) <= MaxOutstanding
      /\ Cardinality(claimed) \in Nat
  BY FS_CardinalityType DEF EngineInv
(* What the step must keep while the completion thread uses the engine. *)
<1> DEFINE Using == cpc \in {"drain", "wait", "peek"}
           Quiet == ~EngineLocked /\ spc # "submit" /\ (HasPending \/ reports # <<>>)
<1>3. ASSUME Clean, MaxOutstanding = 1, Using
      PROVE  /\ Quiet /\ CleanInv
             /\ queue = <<>> \/ spc = "requeue"
  <2>1. Quiet /\ CleanInv
    BY <1>3 DEF UringInv, EngineInv
  <2>2. spc \in {"take", "submit", "collect", "off"} => queue = <<>>
    BY <1>1, <1>2, <1>3, <2>1, EngineHasTheJob
  <2>3. QED
    BY Zenon, <1>1, <2>1, <2>2 DEF UringTypeOK
<1>4. SUFFICES /\ IsFiniteSet(claimed') /\ Cardinality(claimed') <= MaxOutstanding
               /\ Clean' /\ MaxOutstanding = 1 /\ Using' => Clean /\ Quiet'
  BY DEF EngineInv
<1>5. ASSUME NEW g \in Groups, Enqueue(g)
      PROVE  /\ IsFiniteSet(claimed') /\ Cardinality(claimed') <= MaxOutstanding
             /\ Clean' /\ MaxOutstanding = 1 /\ Using' => Clean /\ Quiet'
  <2>1. claimed' = claimed \cup {g} /\ Cardinality(claimed) < MaxOutstanding
    BY <1>5 DEF Enqueue
  <2>2. IsFiniteSet(claimed') /\ Cardinality(claimed') <= MaxOutstanding
    BY <1>1, <1>2, <2>1, FS_AddElement
  <2>3. QED
    BY <1>3, <1>5, <2>2 DEF Enqueue, Clean, HasPending
<1>6. CASE MarkJobCompleted
  <2>1. claimed' \in SUBSET claimed
    BY <1>6 DEF MarkJobCompleted
  <2>2. IsFiniteSet(claimed') /\ Cardinality(claimed') <= Cardinality(claimed)
    BY <1>2, <2>1, FS_Subset
  <2>3. Cardinality(claimed') \in Nat
    BY <2>2, FS_CardinalityType
  <2>4. ~Using'
    BY <1>6 DEF MarkJobCompleted
  <2>5. QED
    BY <1>1, <1>2, <2>2, <2>3, <2>4
<1>7. CASE ~MarkJobCompleted /\ \A g \in Groups : ~Enqueue(g)
  <2>1. claimed' = claimed
    BY <1>7 DEF UringNext, StopWorker, ClientStep, ClearQueue, JoinAndShutdown,
       SubmissionStep, TakeJob, SubmissionExit, SubmitBegin, PrepareRead, SubmitFullRing,
       CollectFull, ContinueRequest, SubmitRequest, SubmitFails, CollectAfterSubmit, SubmitReturn,
       Requeue, CompletionStep, CompletionExit, SeePending, DrainCompletions, DrainOne,
       DrainReturn, NextRound, KernelStep, EndRead, Stopped, uringVars
  <2>2. SUFFICES ASSUME Clean', MaxOutstanding = 1, Using' PROVE Clean /\ Quiet'
    BY <1>2, <2>1
  <2>3. CASE StopWorker \/ ClearQueue \/ UNCHANGED uringVars
    BY <1>3, <2>2, <2>3 DEF StopWorker, ClearQueue, uringVars, Clean, HasPending
  <2>4. CASE JoinAndShutdown
    BY <2>2, <2>4 DEF JoinAndShutdown
  <2>5. CASE TakeJob \/ SubmitBegin \/ PrepareRead \/ SubmitFullRing \/ CollectFull
               \/ ContinueRequest \/ SubmitRequest \/ CollectAfterSubmit \/ Requeue
    <3>1. Clean /\ Using
      BY <2>2, <2>5 DEF TakeJob, SubmitBegin, PrepareRead, SubmitFullRing, CollectFull,
         ContinueRequest, SubmitRequest, CollectAfterSubmit, Requeue, Clean
    <3>2. Quiet /\ queue = <<>> /\ spc # "requeue"
      BY <1>3, <2>2, <3>1 DEF CleanInv, SubmitInv
    <3>3. FALSE
      BY <2>5, <3>2 DEF TakeJob, SubmitBegin, PrepareRead, SubmitFullRing, CollectFull,
         ContinueRequest, SubmitRequest, CollectAfterSubmit, Requeue
    <3>4. QED
      BY <3>3
  <2>6. CASE SubmitFails
    BY <1>1, <2>2, <2>6 DEF SubmitFails, Clean
  <2>7. CASE SubmissionExit \/ SubmitReturn
    BY <1>3, <2>2, <2>7 DEF SubmissionExit, SubmitReturn, Clean, HasPending
  <2>8. CASE CompletionExit \/ DrainReturn \/ NextRound
    BY <2>2, <2>8 DEF CompletionExit, DrainReturn, NextRound
  <2>9. CASE SeePending
    <3>1. Clean /\ ~EngineLocked /\ HasPending /\ UNCHANGED <<spc, inflight>>
      BY <2>2, <2>9 DEF SeePending, Clean
    <3>2. CleanInv
      BY <3>1 DEF UringInv
    <3>3. spc # "submit"
      BY <1>1, <1>2, <2>2, <3>1, <3>2, EngineHasTheJob
    <3>4. QED
      BY <3>1, <3>3 DEF HasPending
  <2>10. CASE DrainCompletions
    BY <1>3, <2>2, <2>10 DEF DrainCompletions, Clean, HasPending
  <2>11. CASE DrainOne
    <3>1. Clean /\ Using /\ CollectOne /\ spc' = spc
      BY <2>2, <2>11 DEF DrainOne, Clean
    <3>2. QED
      BY <1>1, <1>3, <2>2, <3>1, CollectKeepsWork
  <2>12. CASE KernelStep
    BY <1>3, <2>2, <2>12 DEF KernelStep, EndRead, Clean, HasPending
  <2>13. QED
    BY <1>7, <2>3, <2>4, <2>5, <2>6, <2>7, <2>8, <2>9, <2>10, <2>11, <2>12
       DEF UringNext, ClientStep, SubmissionStep, CompletionStep, Stopped
<1>8. QED
  BY <1>5, <1>6, <1>7

-----------------------------------------------------------------------------

(* The invariant says what the runs check.                                 *)
LEMMA InvIsProperties ==
  UringInv /\ EngineInv =>
    /\ UringTypeOK /\ PendingMatchesRing /\ ReportedIsRead /\ JobInOnePlace
    /\ (MaxOutstanding = 1 => EngineUsedByOne)
<1> SUFFICES ASSUME UringInv, EngineInv
             PROVE  /\ UringTypeOK /\ PendingMatchesRing /\ ReportedIsRead /\ JobInOnePlace
                    /\ (MaxOutstanding = 1 => EngineUsedByOne)
  OBVIOUS
<1>1. UringTypeOK
  BY DEF UringInv
<1>2. PendingMatchesRing
  BY DEF UringInv, CleanInv, RingInv, Owed, PendingMatchesRing
<1>3. JobInOnePlace
  BY DEF UringInv, CleanInv, PlaceInv, JobInOnePlace
<1>4. ReportedIsRead
  <2>1. SUFFICES ASSUME Clean, NEW r \in ToSet(reports) \cup ToSet(batch)
                 PROVE  r.ok <=> landed[r.group] = 0 .. Subreads[r.group] - 1
    BY DEF ReportedIsRead
  <2>2. DOMAIN reports = 1 .. Len(reports) /\ DOMAIN batch = 1 .. Len(batch)
    BY <1>1, TypeFacts
  <2>3. QED
    BY <2>1, <2>2 DEF UringInv, CleanInv, ReportInv, ToSet
<1>5. MaxOutstanding = 1 => EngineUsedByOne
  BY DEF EngineInv, EngineUsedByOne
<1>6. QED
  BY <1>1, <1>2, <1>3, <1>4, <1>5

-----------------------------------------------------------------------------
(* Both engines.                                                           *)

EnginesTypeInv == engine \in {"NONE", "io_uring", "parallel_pread"} /\ UringTypeOK /\ PreadInv

(* The types of both engines, for all behaviours of the worker.            *)
LEMMA EnginesTypeAlways == EnginesSpec => []EnginesTypeInv
<1>1. EnginesInit => EnginesTypeInv
  BY UringTypeInit, PreadInvInit DEF EnginesInit, EnginesTypeInv
<1>2. EnginesTypeInv /\ [EnginesNext]_enginesVars => EnginesTypeInv'
  <2> SUFFICES ASSUME EnginesTypeInv, [EnginesNext]_enginesVars PROVE EnginesTypeInv'
    OBVIOUS
  <2>1. [UringNext]_uringVars /\ [PreadNext]_preadVars
    BY DEF EnginesNext, ConfigureIOEngine, StartIoUringWorker, StartParallelPreadWorker, enginesVars
  <2>2. engine' \in {"NONE", "io_uring", "parallel_pread"}
    BY DEF EnginesTypeInv, EnginesNext, ConfigureIOEngine, StartIoUringWorker,
           StartParallelPreadWorker, enginesVars
  <2>3. QED
    BY <2>1, <2>2, UringTypeStep, PreadInvNext DEF EnginesTypeInv
<1>3. QED
  BY <1>1, <1>2, PTL DEF EnginesSpec

(* The invariant of io_uring, for all behaviours of the worker.            *)
LEMMA UringInvAlways ==
  ASSUME PromptFits
  PROVE  EnginesSpec => [](UringInv /\ EngineInv)
<1>1. EnginesInit => UringInv /\ EngineInv
  BY UringInvInit, EngineInvInit DEF EnginesInit
<1>2. UringInv /\ EngineInv /\ [EnginesNext]_enginesVars => UringInv' /\ EngineInv'
  <2>1. [EnginesNext]_enginesVars => [UringNext]_uringVars
    BY DEF EnginesNext, ConfigureIOEngine, StartIoUringWorker, StartParallelPreadWorker, enginesVars
  <2>2. QED
    BY <2>1, UringInvNext, EngineInvNext
<1>3. QED
  BY <1>1, <1>2, PTL DEF EnginesSpec

(* The state of either engine keeps its types, whatever fails: a ring      *)
(* holds no more entries than it has, and counts do not go below 0.        *)
THEOREM EnginesTypeCorrect == EnginesSpec => []EnginesTypeOK
<1>1. EnginesTypeInv => EnginesTypeOK
  BY DEF EnginesTypeInv, EnginesTypeOK, PreadInv
<1>2. QED
  BY <1>1, EnginesTypeAlways, PTL

(* What a request waits for is what the ring owes it, over all             *)
(* interleavings of the two threads and the kernel.                        *)
THEOREM NoReadLostOrCountedTwice ==
  ASSUME PromptFits
  PROVE  EnginesSpec => []PendingMatchesRing
<1>1. UringInv /\ EngineInv => PendingMatchesRing
  BY InvIsProperties
<1>2. QED
  BY <1>1, UringInvAlways, PTL

(* A report of success means that every sub-read of the group arrived in   *)
(* full since it was last submitted, and such a group is never reported    *)
(* as failed.                                                              *)
THEOREM ReportsAreTrue ==
  ASSUME PromptFits
  PROVE  EnginesSpec => []ReportedIsRead
<1>1. UringInv /\ EngineInv => ReportedIsRead
  BY InvIsProperties
<1>2. QED
  BY <1>1, UringInvAlways, PTL

(* A job that was submitted is neither lost nor duplicated between the     *)
(* queue, the two threads and the engine.                                  *)
THEOREM JobsKeepOnePlace ==
  ASSUME PromptFits
  PROVE  EnginesSpec => []JobInOnePlace
<1>1. UringInv /\ EngineInv => JobInOnePlace
  BY InvIsProperties
<1>2. QED
  BY <1>1, UringInvAlways, PTL

(* DrainCompletions takes no lock, yet it never runs together with Submit  *)
(* when one group is outstanding at a time, as the controller keeps it.    *)
THEOREM UnlockedDrainIsAlone ==
  ASSUME PromptFits, MaxOutstanding = 1
  PROVE  EnginesSpec => []EngineUsedByOne
<1>1. UringInv /\ EngineInv => EngineUsedByOne
  BY InvIsProperties
<1>2. QED
  BY <1>1, UringInvAlways, PTL
=============================================================================
