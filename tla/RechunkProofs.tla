--------------------------- MODULE RechunkProofs ---------------------------
(***************************************************************************)
(* Whatever the chunks, the buffer and the time estimates are, either      *)
(* strategy cuts the list into consecutive, contiguous runs, of which      *)
(* neighbours fit into the runtime's buffer together.                      *)
(*                                                                         *)
(* The lemmas are about a list, a group and a sequence of groups, so that  *)
(* they serve before and after a step alike.                               *)
(***************************************************************************)
EXTENDS Rechunk, NumberFacts

Positions(list) == 1 .. Len(list)

(* A group that is a non-empty, contiguous run of the list.                *)
Run(list, g) ==
  /\ g \in Group
  /\ g.members # <<>>
  /\ \A j \in 1 .. Len(g.members) : g.members[j] \in Positions(list)
  /\ \A j \in 1 .. Len(g.members) - 1 :
       /\ g.members[j + 1] = g.members[j] + 1
       /\ list[g.members[j + 1]].at = list[g.members[j]].at + list[g.members[j]].len

Fits(limit, list, bytes) ==
  \/ bytes <= limit
  \/ \E i \in 1 .. Len(list) - 1 : bytes <= list[i].size + list[i + 1].size

Follows(limit, list, g, h) == First(h) = Last(g) + 1 /\ Fits(limit, list, g.size + h.size)

(* Groups that tile the list from its first chunk on.                      *)
Chain(limit, list, seq) ==
  /\ seq \in Seq(Group)
  /\ \A k \in 1 .. Len(seq) : Run(list, seq[k])
  /\ \A k \in 1 .. Len(seq) - 1 : Follows(limit, list, seq[k], seq[k + 1])
  /\ seq # <<>> => First(seq[1]) = 1

(* g may be appended to the committed groups.                              *)
MayFollow(limit, list, seq, g) ==
  IF seq = <<>> THEN First(g) = 1 ELSE Follows(limit, list, seq[Len(seq)], g)

(* The group g ends before position i, whose chunk fits beside it.         *)
RoomForNext(limit, list, g, i) ==
  /\ Last(g) = i - 1
  /\ i <= Len(list) => Fits(limit, list, g.size + list[i].size)

(* The groups of a whole list.                                             *)
Complete(limit, list, plan) ==
  /\ Chain(limit, list, plan)
  /\ IF plan # <<>> THEN Last(plan[Len(plan)]) = Len(list) ELSE list = <<>>

-----------------------------------------------------------------------------

(* What appending does.                                                    *)
LEMMA Appended ==
  ASSUME NEW S, NEW seq \in Seq(S), NEW e \in S
  PROVE  /\ Append(seq, e) \in Seq(S)
         /\ Len(seq) \in Nat /\ Len(Append(seq, e)) = Len(seq) + 1
         /\ Append(seq, e)[Len(seq) + 1] = e
         /\ \A j \in 1 .. Len(seq) : Append(seq, e)[j] = seq[j]
OBVIOUS

(* What a position of a list holds.                                        *)
LEMMA ChunkFields ==
  ASSUME NEW list \in Seq(Chunk), NEW i \in Positions(list)
  PROVE  /\ i \in Nat \ {0} /\ i <= Len(list)
         /\ list[i].size \in Nat /\ list[i].at \in Nat /\ list[i].len \in Nat
<1>1. list[i] \in Chunk /\ i \in Nat \ {0} /\ i <= Len(list)
  BY DEF Positions
<1>2. QED
  BY <1>1 DEF Chunk

(* A single chunk is a run, and the pair it forms with the next chunk is   *)
(* one that the runtime's buffer is derived from.                          *)
LEMMA SingleRun ==
  ASSUME NEW limit, NEW list \in Seq(Chunk), NEW i \in Positions(list),
         NEW g, g = [members |-> Append(<<>>, i), size |-> 0 + list[i].size]
  PROVE  Run(list, g) /\ First(g) = i /\ g.size = list[i].size
         /\ RoomForNext(limit, list, g, i + 1)
<1>1. list[i].size \in Nat /\ i \in Nat \ {0}
  BY ChunkFields
<1>2. g.members = <<i>> /\ g.size = list[i].size
  BY <1>1
<1>3. g \in Group
  BY <1>1 DEF Group
<1>4. Run(list, g)
  BY <1>2, <1>3 DEF Run
<1>5. First(g) = i /\ Last(g) = i
  BY <1>2 DEF First, Last
<1>6. ASSUME i + 1 <= Len(list)
      PROVE  Fits(limit, list, g.size + list[i + 1].size)
  <2>1. i \in 1 .. Len(list) - 1
    BY <1>1, <1>6
  <2>2. list[i + 1].size \in Nat
    BY <1>1, <1>6, ChunkFields DEF Positions
  <2>3. g.size + list[i + 1].size <= list[i].size + list[i + 1].size
    BY <1>1, <1>2, <2>2
  <2>4. QED
    BY <2>1, <2>3 DEF Fits
<1>7. QED
  BY <1>1, <1>2, <1>4, <1>5, <1>6 DEF RoomForNext

(* The chunk that comes next, if it is contiguous, extends a run.          *)
LEMMA ExtendedRun ==
  ASSUME NEW list \in Seq(Chunk), NEW g, Run(list, g),
         NEW i \in Positions(list), Last(g) = i - 1,
         list[i].at = list[Last(g)].at + list[Last(g)].len,
         NEW h, h = [members |-> Append(g.members, i), size |-> g.size + list[i].size]
  PROVE  Run(list, h) /\ First(h) = First(g) /\ Last(h) = i
<1>1. /\ list[i].size \in Nat /\ i \in Nat \ {0}
      /\ g.members \in Seq(Nat \ {0}) /\ g.size \in Nat /\ g.members # <<>>
  BY ChunkFields DEF Run, Group
<1>2. /\ h.members \in Seq(Nat \ {0}) /\ Len(h.members) = Len(g.members) + 1
      /\ h.members[Len(h.members)] = i
      /\ \A j \in 1 .. Len(g.members) : h.members[j] = g.members[j]
      /\ Len(g.members) \in Nat \ {0} /\ h.members # <<>>
  <2>1. h.members = Append(g.members, i) /\ Len(g.members) # 0
    BY <1>1
  <2>2. /\ Append(g.members, i) \in Seq(Nat \ {0})
        /\ Len(g.members) \in Nat /\ Len(Append(g.members, i)) = Len(g.members) + 1
        /\ Append(g.members, i)[Len(g.members) + 1] = i
        /\ \A j \in 1 .. Len(g.members) : Append(g.members, i)[j] = g.members[j]
    BY ONLY <1>1, Appended
  <2>3. /\ h.members \in Seq(Nat \ {0}) /\ Len(h.members) = Len(g.members) + 1
        /\ h.members[Len(g.members) + 1] = i
        /\ \A j \in 1 .. Len(g.members) : h.members[j] = g.members[j]
    BY ONLY <2>1, <2>2
  <2>4. h.members # <<>>
    BY ONLY <2>2, <2>3
  <2>5. QED
    BY ONLY <2>1, <2>2, <2>3, <2>4
<1>3. h \in Group
  BY <1>1, <1>2 DEF Group
<1>4. ASSUME NEW j \in 1 .. Len(h.members)
      PROVE  h.members[j] \in Positions(list)
  <2>1. CASE j = Len(h.members)
    BY <1>2, <2>1
  <2>2. CASE j # Len(h.members)
    BY <1>2, <2>2 DEF Run
  <2>3. QED
    BY <2>1, <2>2
<1>5. ASSUME NEW j \in 1 .. Len(h.members) - 1
      PROVE  /\ h.members[j + 1] = h.members[j] + 1
             /\ list[h.members[j + 1]].at = list[h.members[j]].at + list[h.members[j]].len
  <2>1. CASE j = Len(g.members)
    <3>1. h.members[j] = Last(g) /\ h.members[j + 1] = i
      BY <1>2, <2>1 DEF Last
    <3>2. h.members[j + 1] = h.members[j] + 1
      <4>1. Last(g) = i - 1 /\ i \in Nat
        BY <1>1
      <4>2. QED
        BY ONLY <3>1, <4>1
    <3>3. QED
      BY <3>1, <3>2
  <2>2. CASE j # Len(g.members)
    <3>1. j \in 1 .. Len(g.members) - 1 /\ j + 1 \in 1 .. Len(g.members)
      BY <1>2, <2>2
    <3>2. h.members[j] = g.members[j] /\ h.members[j + 1] = g.members[j + 1]
      BY <1>2, <3>1
    <3>3. QED
      BY <3>1, <3>2 DEF Run
  <2>3. QED
    BY <2>1, <2>2
<1>6. Run(list, h)
  BY <1>2, <1>3, <1>4, <1>5 DEF Run
<1>7. QED
  BY <1>2, <1>6 DEF First, Last

(* A run that comes next extends the committed groups.                     *)
LEMMA ChainGrows ==
  ASSUME NEW limit, NEW list, NEW seq, Chain(limit, list, seq),
         NEW g, Run(list, g), MayFollow(limit, list, seq, g)
  PROVE  /\ Chain(limit, list, Append(seq, g))
         /\ Append(seq, g) # <<>>
         /\ Append(seq, g)[Len(Append(seq, g))] = g
<1> DEFINE more == Append(seq, g)
<1>1. /\ seq \in Seq(Group) /\ g \in Group
      /\ more \in Seq(Group) /\ Len(more) = Len(seq) + 1 /\ Len(seq) \in Nat
      /\ more[Len(more)] = g /\ more # <<>>
      /\ \A k \in 1 .. Len(seq) : more[k] = seq[k]
  BY DEF Chain, Run
<1>2. ASSUME NEW k \in 1 .. Len(more) PROVE Run(list, more[k])
  <2>1. CASE k = Len(more)
    BY <1>1, <2>1
  <2>2. CASE k # Len(more)
    <3>1. k \in 1 .. Len(seq) /\ more[k] = seq[k]
      BY <1>1, <2>2
    <3>2. QED
      BY <3>1 DEF Chain
  <2>3. QED
    BY <2>1, <2>2
<1>3. ASSUME NEW k \in 1 .. Len(more) - 1 PROVE Follows(limit, list, more[k], more[k + 1])
  <2>1. CASE k = Len(seq)
    <3>1. seq # <<>> /\ more[k] = seq[Len(seq)] /\ more[k + 1] = g
      BY <1>1, <2>1
    <3>2. QED
      BY <3>1 DEF MayFollow
  <2>2. CASE k # Len(seq)
    <3>1. k \in 1 .. Len(seq) - 1 /\ more[k] = seq[k] /\ more[k + 1] = seq[k + 1]
      BY <1>1, <2>2
    <3>2. QED
      BY <3>1 DEF Chain
  <2>3. QED
    BY <2>1, <2>2
<1>4. First(more[1]) = 1
  <2>1. CASE seq = <<>>
    BY <1>1, <2>1 DEF MayFollow
  <2>2. CASE seq # <<>>
    <3>1. 1 \in 1 .. Len(seq) /\ more[1] = seq[1]
      BY <1>1, <2>2
    <3>2. QED
      BY <2>2, <3>1 DEF Chain
  <2>3. QED
    BY <2>1, <2>2
<1>5. QED
  BY <1>1, <1>2, <1>3, <1>4 DEF Chain

-----------------------------------------------------------------------------

Started == pc \in {"outer", "inner"}

(* While nothing is prefetched the next chunk is sure to fit beside the    *)
(* compute group; afterwards the check reserved room for one chunk more.   *)
PrefetchInv ==
  IF prefetch.members = <<>>
  THEN prefetch = NoGroup /\ MoreChunks /\ RoomForNext(table.limit, chunks, compute, index)
  ELSE /\ Run(chunks, prefetch)
       /\ First(prefetch) = Last(compute) + 1 /\ Last(prefetch) = index - 1
       /\ compute.size + prefetch.size + NextSize(index - 1) <= table.limit

(* The planner is at work on the list after those it has planned.          *)
AtList == pc \in {"begin", "outer", "inner", "listed"}

(* The modes that are planned, and the list at hand.                       *)
ModesInv ==
  /\ Len(planned) <= Len(table.lists)
  /\ \A m \in 1 .. Len(planned) : Complete(table.limit, table.lists[m], planned[m])
  /\ AtList => /\ Len(planned) + 1 <= Len(table.lists)
               /\ chunks = table.lists[Len(planned) + 1]
  /\ pc = "idle" => planned = <<>>

(* The inductive invariant.                                                *)
PlanInv ==
  /\ PlannerTypeOK
  /\ ModesInv
  /\ AtList => Chain(table.limit, chunks, groups)
  /\ pc = "begin" => groups = <<>> /\ prefetch = NoGroup
  /\ Started => /\ Run(chunks, compute) /\ MayFollow(table.limit, chunks, groups, compute)
                /\ index <= Len(chunks) + 1
  /\ pc = "outer" => RoomForNext(table.limit, chunks, compute, index)
  /\ pc = "inner" => PrefetchInv
  /\ pc = "listed" => Complete(table.limit, chunks, groups)

(* The modes planned so far stay as they are in every step but NextMode,   *)
(* AddEntries and LoadTable.                                               *)
LEMMA ModesUntouched ==
  ASSUME PlanInv, AtList, table' = table, chunks' = chunks, planned' = planned, pc' # "idle"
  PROVE  ModesInv'
  BY DEF PlanInv, ModesInv, AtList

LEMMA InitPlan == PlannerInit => PlanInv
<1> SUFFICES ASSUME PlannerInit PROVE PlanInv
  OBVIOUS
<1>1. PlannerTypeOK
  BY DEF PlannerInit, PlannerTypeOK, Group, NoGroup, Table, NoTable
<1>2. ModesInv
  BY DEF PlannerInit, ModesInv, AtList, NoTable
<1>3. QED
  BY <1>1, <1>2 DEF PlannerInit, PlanInv, Started, AtList

(* A table is loaded and judged before anything is planned.                *)
LEMMA LoadKeepsPlan ==
  ASSUME PlanInv, NEW t \in Table, LoadTable(t) PROVE PlanInv'
<1>1. /\ table' = t /\ pc = "idle" /\ pc' = "validate"
      /\ chunks' = chunks /\ index' = index /\ compute' = compute
      /\ prefetch' = prefetch /\ groups' = groups /\ planned' = planned
  BY DEF LoadTable
<1>2. planned = <<>> /\ Len(t.lists) \in Nat
  BY <1>1 DEF PlanInv, ModesInv, Table
<1>3. PlannerTypeOK'
  BY <1>1 DEF PlanInv, PlannerTypeOK
<1>4. ModesInv'
  BY <1>1, <1>2 DEF ModesInv, AtList
<1>5. QED
  BY <1>1, <1>3, <1>4 DEF PlanInv, Started, AtList

LEMMA JudgeKeepsPlan ==
  PlanInv /\ (RejectTable \/ AcceptTable \/ SimpleStrategy \/ SavePlan) => PlanInv'
<1> SUFFICES ASSUME PlanInv, RejectTable \/ AcceptTable \/ SimpleStrategy \/ SavePlan
             PROVE  PlanInv'
  OBVIOUS
<1>1. /\ table' = table /\ pc' \in {"raised", "mode", "simple", "done"}
      /\ chunks' = chunks /\ index' = index /\ compute' = compute
      /\ prefetch' = prefetch /\ groups' = groups /\ planned' = planned
  BY DEF RejectTable, AcceptTable, SimpleStrategy, SavePlan
<1>2. PlannerTypeOK' /\ ModesInv'
  BY <1>1 DEF PlanInv, PlannerTypeOK, ModesInv, AtList
<1>3. QED
  BY <1>1, <1>2 DEF PlanInv, Started, AtList

(* Chunks one by one are runs that follow each other, and two of them fit. *)
LEMMA SinglesComplete ==
  ASSUME NEW limit, NEW list \in Seq(Chunk)
  PROVE  Complete(limit, list, OneByOne(list)) /\ OneByOne(list) \in Seq(Group)
<1> DEFINE plan == OneByOne(list)
<1>1. /\ Len(list) \in Nat /\ DOMAIN list = 1 .. Len(list)
      /\ \A i \in 1 .. Len(list) : plan[i] = [members |-> <<i>>, size |-> list[i].size]
  BY DEF OneByOne
<1>2. ASSUME NEW i \in 1 .. Len(list)
      PROVE  /\ Run(list, plan[i]) /\ First(plan[i]) = i /\ Last(plan[i]) = i
             /\ plan[i].size = list[i].size /\ RoomForNext(limit, list, plan[i], i + 1)
  <2>1. list[i].size \in Nat /\ i \in Nat \ {0} /\ i \in Positions(list)
    BY ChunkFields DEF Positions
  <2>2. Append(<<>>, i) = <<i>> /\ 0 + list[i].size = list[i].size
    BY <2>1
  <2>3. plan[i] = [members |-> Append(<<>>, i), size |-> 0 + list[i].size]
    BY <1>1, <2>2
  <2>4. /\ Run(list, plan[i]) /\ First(plan[i]) = i
        /\ plan[i].size = list[i].size /\ RoomForNext(limit, list, plan[i], i + 1)
    BY ONLY <2>1, <2>3, SingleRun, list \in Seq(Chunk)
  <2>5. Last(plan[i]) = i
    <3>1. plan[i].members = Append(<<>>, i)
      BY ONLY <2>3
    <3>2. Len(<<i>>) = 1 /\ <<i>>[1] = i
      OBVIOUS
    <3>3. QED
      BY <2>2, <3>1, <3>2 DEF Last
  <2>6. QED
    BY <2>4, <2>5
<1>3. plan \in Seq(Group) /\ Len(plan) = Len(list)
  <2>1. \A i \in 1 .. Len(list) : plan[i] \in Group
    BY <1>2 DEF Run
  <2>2. plan = [i \in 1 .. Len(list) |-> plan[i]]
    BY <1>1 DEF OneByOne
  <2>3. plan \in [1 .. Len(list) -> Group]
    BY <2>1, <2>2
  <2>4. QED
    BY <1>1, <2>3
<1>4. ASSUME NEW k \in 1 .. Len(plan) - 1 PROVE Follows(limit, list, plan[k], plan[k + 1])
  <2>1. k \in 1 .. Len(list) /\ k + 1 \in 1 .. Len(list) /\ k + 1 <= Len(list)
    BY <1>1, <1>3
  <2>2. First(plan[k + 1]) = Last(plan[k]) + 1
    BY <1>2, <2>1
  <2>3. Fits(limit, list, plan[k].size + list[k + 1].size) /\ plan[k + 1].size = list[k + 1].size
    BY <1>2, <2>1 DEF RoomForNext
  <2>4. QED
    BY <2>2, <2>3 DEF Follows
<1>5. plan # <<>> => First(plan[1]) = 1 /\ Last(plan[Len(plan)]) = Len(list)
  <2>1. ASSUME plan # <<>> PROVE 1 \in 1 .. Len(list) /\ Len(list) \in 1 .. Len(list)
    BY <1>1, <1>3, <2>1
  <2>2. QED
    BY <1>2, <1>3, <2>1
<1>6. plan = <<>> => list = <<>>
  BY <1>1, <1>3
<1>7. Chain(limit, list, plan)
  BY <1>2, <1>3, <1>4, <1>5 DEF Chain
<1>8. QED
  BY <1>3, <1>5, <1>6, <1>7 DEF Complete

LEMMA SimpleKeepsPlan == PlanInv /\ AddSingleChunks => PlanInv'
<1> SUFFICES ASSUME PlanInv, AddSingleChunks PROVE PlanInv'
  OBVIOUS
<1> DEFINE list == table.lists[Len(planned) + 1]
<1>1. /\ table' = table /\ chunks' = chunks /\ index' = index /\ compute' = compute
      /\ prefetch' = prefetch /\ groups' = groups
      /\ planned' = Append(planned, OneByOne(list))
      /\ pc = "simple" /\ pc' = "simple" /\ Len(planned) < Len(table.lists)
  BY DEF AddSingleChunks
<1>2. /\ planned \in Seq(Seq(Group)) /\ Len(planned) \in Nat /\ ModesInv
      /\ table.lists \in Seq(Seq(Chunk)) /\ Len(table.lists) \in Nat
  BY DEF PlanInv, PlannerTypeOK, Table
<1>3. list \in Seq(Chunk)
  BY <1>1, <1>2
<1>4. Complete(table.limit, list, OneByOne(list)) /\ OneByOne(list) \in Seq(Group)
  BY <1>3, SinglesComplete
<1>5. /\ planned' \in Seq(Seq(Group)) /\ Len(planned') = Len(planned) + 1
      /\ planned'[Len(planned) + 1] = OneByOne(list)
      /\ \A m \in 1 .. Len(planned) : planned'[m] = planned[m]
  BY ONLY <1>1, <1>2, <1>4, Appended
<1>6. PlannerTypeOK'
  BY <1>1, <1>5 DEF PlanInv, PlannerTypeOK
<1>7. ASSUME NEW m \in 1 .. Len(planned')
      PROVE  Complete(table'.limit, table'.lists[m], planned'[m])
  <2>1. CASE m = Len(planned) + 1
    BY <1>1, <1>4, <1>5, <2>1
  <2>2. CASE m # Len(planned) + 1
    <3>1. m \in 1 .. Len(planned) /\ planned'[m] = planned[m]
      BY <1>2, <1>5, <2>2
    <3>2. QED
      BY <1>1, <1>2, <3>1 DEF ModesInv
  <2>3. QED
    BY <2>1, <2>2
<1>8. ModesInv'
  BY <1>1, <1>2, <1>5, <1>7 DEF ModesInv, AtList
<1>9. QED
  BY <1>1, <1>6, <1>8 DEF PlanInv, Started, AtList

LEMMA NextModeKeepsPlan == PlanInv /\ NextMode => PlanInv'
<1> SUFFICES ASSUME PlanInv, NextMode PROVE PlanInv'
  OBVIOUS
<1>1. /\ table' = table /\ planned' = planned /\ groups' = <<>>
      /\ chunks' = table.lists[Len(planned) + 1] /\ index' = 1
      /\ compute' = NoGroup /\ prefetch' = NoGroup /\ pc' = "begin"
      /\ Len(planned) < Len(table.lists)
  BY DEF NextMode
<1>2. /\ table \in Table /\ table.lists \in Seq(Seq(Chunk)) /\ planned \in Seq(Seq(Group))
      /\ Len(planned) \in Nat /\ Len(table.lists) \in Nat
  BY DEF PlanInv, PlannerTypeOK, Table
<1>3. Len(planned) + 1 \in 1 .. Len(table.lists) /\ chunks' \in Seq(Chunk)
  BY <1>1, <1>2
<1>4. PlannerTypeOK'
  BY <1>1, <1>2, <1>3 DEF PlannerTypeOK, Group, NoGroup
<1>5. ModesInv'
  BY <1>1, <1>2, <1>3 DEF PlanInv, ModesInv, AtList
<1>6. Chain(table'.limit, chunks', groups')
  BY <1>1 DEF Chain
<1>7. QED
  BY <1>1, <1>4, <1>5, <1>6 DEF PlanInv, Started, AtList

LEMMA BeginKeepsPlan == PlanInv /\ Begin => PlanInv'
<1> SUFFICES ASSUME PlanInv, Begin PROVE PlanInv'
  OBVIOUS
<1>1. /\ chunks' = chunks /\ groups' = groups /\ prefetch' = prefetch
      /\ table' = table /\ planned' = planned /\ pc = "begin" /\ AtList
      /\ groups = <<>> /\ prefetch = NoGroup
      /\ chunks \in Seq(Chunk) /\ PlannerTypeOK /\ Chain(table.limit, chunks, groups)
  BY DEF PlanInv, Begin, PlannerTypeOK, AtList
<1>2. CASE chunks = <<>>
  <2>1. pc' = "listed" /\ index' = index /\ compute' = compute
    BY <1>2 DEF Begin
  <2>2. PlannerTypeOK'
    BY <1>1, <2>1 DEF PlannerTypeOK
  <2>3. ModesInv'
    BY <1>1, <2>1, ModesUntouched
  <2>4. Complete(table'.limit, chunks', groups')
    BY <1>1, <1>2 DEF Complete
  <2>5. QED
    BY <1>1, <2>1, <2>2, <2>3, <2>4 DEF PlanInv, Started, Complete
<1>3. CASE chunks # <<>>
  <2>1. /\ pc' = "outer" /\ index' = 2
        /\ compute' = [members |-> Append(<<>>, 1), size |-> 0 + chunks[1].size]
    BY <1>3 DEF Begin, With, NoGroup
  <2>2. 1 \in Positions(chunks) /\ Len(chunks) \in Nat
    BY <1>1, <1>3 DEF Positions
  <2>3. /\ Run(chunks, compute') /\ First(compute') = 1
        /\ RoomForNext(table.limit, chunks, compute', 1 + 1)
    BY <1>1, <2>1, <2>2, SingleRun
  <2>4. PlannerTypeOK'
    BY <1>1, <2>1, <2>3 DEF PlannerTypeOK, Run
  <2>5. MayFollow(table'.limit, chunks', groups', compute')
    BY <1>1, <2>3 DEF MayFollow
  <2>6. index' <= Len(chunks') + 1
    BY <1>1, <2>1, <2>2 DEF Positions
  <2>7. RoomForNext(table'.limit, chunks', compute', index')
    BY <1>1, <2>1, <2>3
  <2>8. ModesInv'
    BY <1>1, <2>1, ModesUntouched
  <2>9. QED
    BY <1>1, <2>1, <2>3, <2>4, <2>5, <2>6, <2>7, <2>8 DEF PlanInv, Started
<1>4. QED
  BY <1>2, <1>3

LEMMA StartKeepsPlan == PlanInv /\ StartPrefetchGroup => PlanInv'
<1> SUFFICES ASSUME PlanInv, StartPrefetchGroup PROVE PlanInv'
  OBVIOUS
<1>1. /\ chunks' = chunks /\ groups' = groups /\ compute' = compute /\ index' = index
      /\ prefetch' = NoGroup /\ pc = "outer" /\ pc' = "inner" /\ MoreChunks
      /\ table' = table /\ planned' = planned /\ AtList
  BY DEF StartPrefetchGroup, AtList
<1>2. PlannerTypeOK'
  BY <1>1 DEF PlanInv, PlannerTypeOK, Group, NoGroup
<1>3. RoomForNext(table.limit, chunks, compute, index) /\ index <= Len(chunks) + 1
  BY <1>1 DEF PlanInv, Started
<1>4. PrefetchInv'
  BY <1>1, <1>3 DEF PrefetchInv, NoGroup, MoreChunks
<1>5. ModesInv'
  BY <1>1, ModesUntouched
<1>6. QED
  BY <1>1, <1>2, <1>3, <1>4, <1>5 DEF PlanInv, Started

LEMMA IncludeKeepsPlan == PlanInv /\ IncludeCandidate => PlanInv'
<1> SUFFICES ASSUME PlanInv, IncludeCandidate PROVE PlanInv'
  OBVIOUS
<1>1. /\ chunks' = chunks /\ groups' = groups /\ compute' = compute /\ index' = index + 1
      /\ pc = "inner" /\ pc' = "inner" /\ index <= Len(chunks)
      /\ table' = table /\ planned' = planned /\ AtList
      /\ prefetch' = [members |-> Append(prefetch.members, index),
                      size |-> prefetch.size + chunks[index].size]
      /\ compute.size + prefetch.size + chunks[index].size + NextSize(index) <= table.limit
  BY DEF IncludeCandidate, MoreChunks, With, Reserved, AtList
<1>2. /\ chunks \in Seq(Chunk) /\ index \in Nat \ {0} /\ Len(chunks) \in Nat
      /\ PlannerTypeOK /\ compute.size \in Nat
      /\ prefetch.size \in Nat
      /\ Run(chunks, compute) /\ PrefetchInv /\ Chain(table.limit, chunks, groups)
      /\ MayFollow(table.limit, chunks, groups, compute)
  BY <1>1 DEF PlanInv, PlannerTypeOK, Group, Started
<1>3. index \in Positions(chunks) /\ chunks[index].size \in Nat
  BY <1>1, <1>2, ChunkFields DEF Positions
<1>4. /\ Run(chunks, prefetch')
      /\ First(prefetch') = Last(compute) + 1 /\ Last(prefetch') = index
  <2>1. CASE prefetch.members = <<>>
    <3>1. /\ prefetch' = [members |-> Append(<<>>, index), size |-> 0 + chunks[index].size]
          /\ RoomForNext(table.limit, chunks, compute, index)
      BY <1>1, <1>2, <2>1 DEF PrefetchInv, NoGroup
    <3>2. /\ Run(chunks, prefetch') /\ First(prefetch') = index
          /\ RoomForNext(table.limit, chunks, prefetch', index + 1)
      BY <1>2, <1>3, <3>1, SingleRun
    <3>3. Last(compute) = index - 1 /\ Last(prefetch') = (index + 1) - 1
      BY <3>1, <3>2 DEF RoomForNext
    <3>4. QED
      BY <1>2, <3>2, <3>3
  <2>2. CASE prefetch.members # <<>>
    <3>1. /\ Run(chunks, prefetch) /\ Last(prefetch) = index - 1
          /\ First(prefetch) = Last(compute) + 1
      BY <1>2, <2>2 DEF PrefetchInv
    <3>2. chunks[index].at = chunks[Last(prefetch)].at + chunks[Last(prefetch)].len
      BY <2>2 DEF IncludeCandidate, Contiguous, EndsAt
    <3>3. /\ chunks \in Seq(Chunk) /\ index \in Positions(chunks)
          /\ prefetch' = [members |-> Append(prefetch.members, index),
                          size |-> prefetch.size + chunks[index].size]
      BY <1>1, <1>2, <1>3
    <3>4. Run(chunks, prefetch') /\ First(prefetch') = First(prefetch) /\ Last(prefetch') = index
      BY ONLY <3>1, <3>2, <3>3, ExtendedRun
    <3>5. QED
      BY <3>1, <3>4
  <2>3. QED
    BY <2>1, <2>2
<1>5. prefetch'.members # <<>> /\ prefetch' \in Group
  BY <1>4 DEF Run
<1>6. compute.size + prefetch'.size + NextSize(index) <= table.limit
  <2>1. prefetch'.size = prefetch.size + chunks[index].size
    BY <1>1
  <2>2. compute.size + (prefetch.size + chunks[index].size) = compute.size + prefetch.size + chunks[index].size
    BY <1>2, <1>3
  <2>3. QED
    BY <1>1, <2>1, <2>2
<1>7. NextSize(index - 1)' = NextSize(index)
  <2>1. index' - 1 = index
    BY <1>1, <1>2
  <2>2. QED
    BY <1>1, <2>1 DEF NextSize
<1>8. PrefetchInv'
  BY <1>1, <1>2, <1>4, <1>5, <1>6, <1>7 DEF PrefetchInv
<1>9. PlannerTypeOK'
  BY <1>1, <1>2, <1>5 DEF PlannerTypeOK
<1>10. index' <= Len(chunks') + 1
  BY <1>1, <1>2
<1>11. ModesInv'
  BY <1>1, ModesUntouched
<1>12. QED
  BY <1>1, <1>2, <1>8, <1>9, <1>10, <1>11 DEF PlanInv, Started

LEMMA CommitKeepsPlan == PlanInv /\ CommitComputeGroup => PlanInv'
<1> SUFFICES ASSUME PlanInv, CommitComputeGroup PROVE PlanInv'
  OBVIOUS
<1>1. /\ chunks' = chunks /\ index' = index /\ prefetch' = prefetch
      /\ groups' = Append(groups, compute) /\ compute' = prefetch
      /\ pc = "inner" /\ pc' = "outer" /\ prefetch.members # <<>>
      /\ table' = table /\ planned' = planned /\ AtList
  BY DEF CommitComputeGroup, AtList
<1>2. /\ chunks \in Seq(Chunk) /\ index \in Nat \ {0}
      /\ PlannerTypeOK /\ prefetch.size \in Nat /\ compute.size \in Nat
      /\ Run(chunks, compute) /\ Chain(table.limit, chunks, groups) /\ MayFollow(table.limit, chunks, groups, compute)
      /\ index <= Len(chunks) + 1 /\ PrefetchInv /\ table.limit \in Nat
  BY <1>1 DEF PlanInv, PlannerTypeOK, Group, Started, Table
<1>3. /\ Run(chunks, prefetch)
      /\ First(prefetch) = Last(compute) + 1 /\ Last(prefetch) = index - 1
      /\ compute.size + prefetch.size + NextSize(index - 1) <= table.limit
  BY <1>1, <1>2 DEF PrefetchInv
<1>4. /\ Chain(table.limit, chunks, groups') /\ groups' # <<>> /\ groups'[Len(groups')] = compute
  BY <1>1, <1>2, ChainGrows
<1>5. /\ NextSize(index - 1) \in Nat
      /\ index <= Len(chunks) => NextSize(index - 1) = chunks[index].size
  <2>1. (index - 1) + 1 = index /\ Len(chunks) \in Nat
    BY <1>2
  <2>2. index <= Len(chunks) => chunks[index].size \in Nat
    BY <1>2, <2>1, ChunkFields DEF Positions
  <2>3. QED
    BY <2>1, <2>2 DEF NextSize
<1>6. MayFollow(table.limit, chunks, groups', prefetch)
  <2>1. compute.size + prefetch.size <= table.limit
    BY <1>2, <1>3, <1>5
  <2>2. Fits(table.limit, chunks, compute.size + prefetch.size)
    BY <2>1 DEF Fits
  <2>3. QED
    BY <1>3, <1>4, <2>2 DEF MayFollow, Follows
<1>7. RoomForNext(table.limit, chunks, prefetch, index)
  <2>1. ASSUME index <= Len(chunks)
        PROVE  Fits(table.limit, chunks, prefetch.size + chunks[index].size)
    <3>1. prefetch.size + chunks[index].size <= table.limit
      BY <1>2, <1>3, <1>5, <2>1
    <3>2. QED
      BY <3>1 DEF Fits
  <2>2. QED
    BY <1>3, <2>1 DEF RoomForNext
<1>8. PlannerTypeOK'
  BY <1>1, <1>2, <1>4 DEF PlannerTypeOK, Chain
<1>9. ModesInv'
  BY <1>1, ModesUntouched
<1>10. QED
  BY <1>1, <1>2, <1>3, <1>4, <1>6, <1>7, <1>8, <1>9 DEF PlanInv, Started

LEMMA ForceKeepsPlan == PlanInv /\ ForceGroup => PlanInv'
<1> SUFFICES ASSUME PlanInv, ForceGroup PROVE PlanInv'
  OBVIOUS
<1>1. /\ chunks' = chunks /\ prefetch' = prefetch
      /\ groups' = Append(groups, compute)
      /\ pc = "inner" /\ pc' = "outer" /\ prefetch.members = <<>>
      /\ table' = table /\ planned' = planned /\ AtList
  BY DEF ForceGroup, AtList
<1>2. /\ chunks \in Seq(Chunk) /\ Len(chunks) \in Nat /\ index \in Nat \ {0}
      /\ PlannerTypeOK
      /\ Run(chunks, compute) /\ Chain(table.limit, chunks, groups) /\ MayFollow(table.limit, chunks, groups, compute)
      /\ MoreChunks /\ RoomForNext(table.limit, chunks, compute, index)
  BY <1>1 DEF PlanInv, PlannerTypeOK, Started, PrefetchInv
<1>3. /\ index' = index + 1
      /\ compute' = [members |-> Append(<<>>, index), size |-> 0 + chunks[index].size]
  BY <1>2 DEF ForceGroup, With, NoGroup
<1>4. index \in Positions(chunks) /\ index <= Len(chunks)
  BY <1>2 DEF Positions, MoreChunks
<1>5. /\ Run(chunks, compute') /\ First(compute') = index
      /\ compute'.size = chunks[index].size /\ RoomForNext(table.limit, chunks, compute', index + 1)
  BY <1>2, <1>3, <1>4, SingleRun
<1>6. /\ Chain(table.limit, chunks, groups') /\ groups' # <<>> /\ groups'[Len(groups')] = compute
  BY <1>1, <1>2, ChainGrows
<1>7. MayFollow(table.limit, chunks, groups', compute')
  <2>1. Last(compute) = index - 1 /\ Fits(table.limit, chunks, compute.size + compute'.size)
    BY <1>2, <1>4, <1>5 DEF RoomForNext
  <2>2. First(compute') = Last(compute) + 1
    BY <1>2, <1>5, <2>1
  <2>3. QED
    BY <1>6, <2>1, <2>2 DEF MayFollow, Follows
<1>8. PlannerTypeOK'
  BY <1>1, <1>2, <1>3, <1>5, <1>6 DEF PlannerTypeOK, Chain, Run
<1>9. index' <= Len(chunks') + 1
  BY <1>1, <1>2, <1>3, <1>4
<1>10. ModesInv'
  BY <1>1, ModesUntouched
<1>11. QED
  BY <1>1, <1>3, <1>5, <1>6, <1>7, <1>8, <1>9, <1>10 DEF PlanInv, Started

LEMMA LastKeepsPlan == PlanInv /\ CommitLastGroup => PlanInv'
<1> SUFFICES ASSUME PlanInv, CommitLastGroup PROVE PlanInv'
  OBVIOUS
<1>1. /\ chunks' = chunks /\ index' = index /\ prefetch' = prefetch /\ compute' = compute
      /\ pc = "outer" /\ pc' = "listed" /\ ~MoreChunks
      /\ table' = table /\ planned' = planned /\ AtList
  BY DEF CommitLastGroup, AtList
<1>2. /\ chunks \in Seq(Chunk) /\ Len(chunks) \in Nat /\ index \in Nat \ {0}
      /\ Run(chunks, compute) /\ Chain(table.limit, chunks, groups)
      /\ MayFollow(table.limit, chunks, groups, compute)
      /\ index <= Len(chunks) + 1 /\ Last(compute) = index - 1
  BY <1>1 DEF PlanInv, PlannerTypeOK, Started, RoomForNext
<1>3. groups' = Append(groups, compute)
  BY <1>2 DEF CommitLastGroup, Run
<1>4. /\ Chain(table.limit, chunks, groups') /\ groups' # <<>>
      /\ groups'[Len(groups')] = compute
  BY <1>2, <1>3, ChainGrows
<1>5. Last(compute) = Len(chunks)
  BY <1>1, <1>2 DEF MoreChunks
<1>6. Complete(table'.limit, chunks', groups')
  BY <1>1, <1>4, <1>5 DEF Complete
<1>7. PlannerTypeOK'
  BY <1>1, <1>4 DEF PlanInv, PlannerTypeOK, Chain
<1>8. ModesInv'
  BY <1>1, ModesUntouched
<1>9. QED
  BY <1>1, <1>6, <1>7, <1>8 DEF PlanInv, Started, Complete

(* The groups of the list at hand join those of the modes before.          *)
LEMMA AddKeepsPlan == PlanInv /\ AddEntries => PlanInv'
<1> SUFFICES ASSUME PlanInv, AddEntries PROVE PlanInv'
  OBVIOUS
<1>1. /\ table' = table /\ chunks' = chunks /\ index' = index /\ compute' = compute
      /\ prefetch' = prefetch /\ groups' = groups
      /\ planned' = Append(planned, groups)
      /\ pc = "listed" /\ pc' = "mode" /\ AtList
  BY DEF AddEntries, AtList
<1>2. /\ planned \in Seq(Seq(Group)) /\ groups \in Seq(Group)
      /\ Len(planned) \in Nat /\ ModesInv
      /\ Complete(table.limit, chunks, groups)
  BY <1>1 DEF PlanInv, PlannerTypeOK
<1>3. /\ planned' \in Seq(Seq(Group)) /\ Len(planned') = Len(planned) + 1
      /\ planned'[Len(planned) + 1] = groups
      /\ \A m \in 1 .. Len(planned) : planned'[m] = planned[m]
  <2>1. /\ Append(planned, groups) \in Seq(Seq(Group))
        /\ Len(Append(planned, groups)) = Len(planned) + 1
        /\ Append(planned, groups)[Len(planned) + 1] = groups
        /\ \A m \in 1 .. Len(planned) : Append(planned, groups)[m] = planned[m]
    BY ONLY <1>2, Appended
  <2>2. QED
    BY ONLY <1>1, <2>1
<1>4. PlannerTypeOK'
  BY <1>1, <1>3 DEF PlanInv, PlannerTypeOK
<1>5. ASSUME NEW m \in 1 .. Len(planned')
      PROVE  Complete(table'.limit, table'.lists[m], planned'[m])
  <2>1. CASE m = Len(planned) + 1
    <3>1. table.lists[m] = chunks /\ planned'[m] = groups
      BY <1>1, <1>2, <1>3, <2>1 DEF ModesInv
    <3>2. QED
      BY <1>1, <1>2, <3>1
  <2>2. CASE m # Len(planned) + 1
    <3>1. m \in 1 .. Len(planned) /\ planned'[m] = planned[m]
      BY <1>2, <1>3, <2>2
    <3>2. QED
      BY <1>1, <1>2, <3>1 DEF ModesInv
  <2>3. QED
    BY <2>1, <2>2
<1>6. ModesInv'
  BY <1>1, <1>2, <1>3, <1>5 DEF ModesInv, AtList
<1>7. QED
  BY <1>1, <1>4, <1>6 DEF PlanInv, Started, AtList

LEMMA StandingStillKeepsPlan == PlanInv /\ (Planned \/ UNCHANGED planVars) => PlanInv'
<1> SUFFICES ASSUME PlanInv, Planned \/ UNCHANGED planVars PROVE PlanInv'
  OBVIOUS
<1>1. /\ table' = table /\ chunks' = chunks /\ index' = index /\ compute' = compute
      /\ prefetch' = prefetch /\ groups' = groups /\ planned' = planned /\ pc' = pc
  BY DEF Planned, planVars
<1>2. QED
  BY <1>1 DEF PlanInv, PlannerTypeOK, ModesInv, AtList, Started, PrefetchInv, MoreChunks,
              NextSize

(* Every step of the planner's own keeps the invariant, whatever the table *)
(* is: the modules that let it work on a table of theirs use this.         *)
LEMMA PlannerStepKeepsPlan == PlanInv /\ PlannerStep => PlanInv'
  BY JudgeKeepsPlan, SimpleKeepsPlan, NextModeKeepsPlan, BeginKeepsPlan, StartKeepsPlan, IncludeKeepsPlan,
     CommitKeepsPlan, ForceKeepsPlan, LastKeepsPlan, AddKeepsPlan DEF PlannerStep

THEOREM PlanInvariant == PlannerSpec => []PlanInv
<1>1. PlanInv /\ [PlannerNext]_planVars => PlanInv'
  <2> SUFFICES ASSUME PlanInv, [PlannerNext]_planVars PROVE PlanInv'
    OBVIOUS
  <2>1. ASSUME NEW t \in Tables, LoadTable(t) PROVE PlanInv'
    BY <2>1, RechunkAssumption, LoadKeepsPlan
  <2>2. QED
    BY <2>1, PlannerStepKeepsPlan, StandingStillKeepsPlan DEF PlannerNext
<1>2. QED
  BY InitPlan, <1>1, PTL DEF PlannerSpec

-----------------------------------------------------------------------------

(* Variables, lists and groups keep their types.                           *)
THEOREM PlannerTypeCorrect == PlannerSpec => []PlannerTypeOK
<1>1. PlanInv => PlannerTypeOK
  BY DEF PlanInv
<1>2. QED
  BY PlanInvariant, <1>1, PTL

(* What the invariant says of a planned mode.                              *)
LEMMA PlannedMode ==
  ASSUME PlanInv, NEW m \in DOMAIN planned
  PROVE  /\ planned[m] \in Seq(Group)
         /\ Chain(table.limit, table.lists[m], planned[m])
         /\ IF planned[m] # <<>> THEN Last(planned[m][Len(planned[m])]) = Len(table.lists[m])
            ELSE table.lists[m] = <<>>
<1>1. planned \in Seq(Seq(Group)) /\ m \in 1 .. Len(planned)
  BY DEF PlanInv, PlannerTypeOK
<1>2. Complete(table.limit, table.lists[m], planned[m])
  BY <1>1 DEF PlanInv, ModesInv
<1>3. QED
  BY <1>2 DEF Complete, Chain

LEMMA ContiguousFromInv == PlanInv => GroupsContiguous
<1> SUFFICES ASSUME PlanInv, NEW m \in DOMAIN planned, NEW k \in DOMAIN planned[m]
             PROVE  ContiguousGroup(table.lists[m], planned[m][k])
  BY DEF GroupsContiguous
<1>1. Run(table.lists[m], planned[m][k])
  BY PlannedMode DEF Chain
<1>2. QED
  BY <1>1 DEF Run, ContiguousGroup

LEMMA NeighboursFromInv == PlanInv => NeighboursFit
<1> SUFFICES ASSUME PlanInv, NEW m \in DOMAIN planned, NEW k \in 1 .. Len(planned[m]) - 1
             PROVE  FitsRuntimeBuffer(table.lists[m],
                                      planned[m][k].size + planned[m][k + 1].size)
  BY DEF NeighboursFit
<1>1. Follows(table.limit, table.lists[m], planned[m][k], planned[m][k + 1])
  BY PlannedMode DEF Chain
<1>2. QED
  BY <1>1 DEF Follows, Fits, FitsRuntimeBuffer

LEMMA TilesFromInv == PlanInv => PlanTilesTheList
<1> SUFFICES ASSUME PlanInv, NEW m \in DOMAIN planned
             PROVE  Tiles(planned[m], table.lists[m])
  BY DEF PlanTilesTheList
<1> DEFINE plan == planned[m]
<1>1. plan \in Seq(Group) /\ DOMAIN plan = 1 .. Len(plan)
  BY PlannedMode
<1>2. ASSUME NEW k \in DOMAIN plan PROVE plan[k].members # <<>> /\ Consecutive(plan[k])
  <2>1. Run(table.lists[m], plan[k])
    BY <1>1, PlannedMode DEF Chain
  <2>2. QED
    BY <2>1 DEF Run, Consecutive
<1>3. \A k \in 1 .. Len(plan) - 1 : First(plan[k + 1]) = Last(plan[k]) + 1
  BY PlannedMode DEF Chain, Follows
<1>4. plan # <<>> => First(plan[1]) = 1
  BY PlannedMode DEF Chain
<1>5. IF plan # <<>> THEN Last(plan[Len(plan)]) = Len(table.lists[m])
      ELSE table.lists[m] = <<>>
  BY PlannedMode
<1>6. QED
  BY <1>2, <1>3, <1>4, <1>5 DEF Tiles

(* Every group is contiguous in the model file, so that it is one read of  *)
(* its own chunks only.                                                    *)
THEOREM PlannedGroupsAreContiguous == PlannerSpec => []GroupsContiguous
  BY PlanInvariant, ContiguousFromInv, PTL

(* Neighbouring groups fit into the runtime's buffer together, whatever    *)
(* the chunk sizes are and wherever the planner stops.                     *)
THEOREM PlannedNeighboursFit == PlannerSpec => []NeighboursFit
  BY PlanInvariant, NeighboursFromInv, PTL

(* The plan of a mode holds every chunk of its list once and in order.     *)
THEOREM PlanIsComplete == PlannerSpec => []PlanTilesTheList
  BY PlanInvariant, TilesFromInv, PTL

-----------------------------------------------------------------------------

(* What the groups of a chain hold together: the positions of the list, in *)
(* their order.                                                            *)

(* A run names the positions from its first one on without a gap.          *)
LEMMA RunIsInterval ==
  ASSUME NEW list, NEW g, Run(list, g)
  PROVE  /\ g.members \in Seq(Nat \ {0}) /\ Len(g.members) \in Nat \ {0}
         /\ First(g) \in Nat \ {0} /\ Last(g) = First(g) + Len(g.members) - 1
         /\ \A j \in 1 .. Len(g.members) : g.members[j] = First(g) + j - 1
<1> DEFINE s == g.members
           Bad == {j \in 1 .. Len(s) : s[j] # First(g) + j - 1}
<1>1. s \in Seq(Nat \ {0}) /\ s # <<>>
  BY DEF Run, Group
<1>2. Len(s) \in Nat \ {0} /\ First(g) = s[1] /\ Last(g) = s[Len(s)] /\ s[1] \in Nat \ {0}
  BY <1>1 DEF First, Last
<1>3. \A j \in 1 .. Len(s) - 1 : s[j + 1] = s[j] + 1
  BY DEF Run
<1>4. Bad = {}
  <2> SUFFICES ASSUME Bad # {} PROVE FALSE
    OBVIOUS
  <2>1. Bad \in SUBSET Nat /\ \A j \in Bad : j \in 1 .. Len(s) /\ s[j] # First(g) + j - 1
    BY <1>2
  <2>2. \A j \in 1 .. Len(s) : j \notin Bad => s[j] = First(g) + j - 1
    OBVIOUS
  <2> HIDE DEF Bad
  <2>3. PICK j \in Bad : \A i \in Bad : j <= i
    BY <2>1, LeastNatural
  <2>4. j \in 1 .. Len(s) /\ j # 1 /\ j \in Nat
    BY <1>2, <2>1, <2>3
  <2>5. j - 1 \in 1 .. Len(s) - 1 /\ j - 1 \in 1 .. Len(s) /\ ~(j <= j - 1)
    BY <1>2, <2>4
  <2>6. s[j - 1] = First(g) + (j - 1) - 1
    BY <2>2, <2>3, <2>5
  <2>7. s[j] = s[j - 1] + 1
    <3>1. (j - 1) + 1 = j
      BY <2>4
    <3>2. QED
      BY <1>3, <2>5, <3>1
  <2>8. s[j] = First(g) + j - 1
    BY <1>2, <2>4, <2>6, <2>7
  <2>9. QED
    BY <2>1, <2>3, <2>8
<1>5. \A j \in 1 .. Len(s) : s[j] = First(g) + j - 1
  BY <1>4
<1>6. Last(g) = First(g) + Len(s) - 1
  BY <1>2, <1>5
<1>7. QED
  BY <1>1, <1>2, <1>5, <1>6

UpTo(n) == [i \in 1 .. n |-> i]

LEMMA UpToGrows ==
  ASSUME NEW a \in Nat, NEW s \in Seq(Nat), \A j \in 1 .. Len(s) : s[j] = a + j
  PROVE  UpTo(a) \o s = UpTo(a + Len(s)) /\ UpTo(a) \in Seq(Nat) /\ Len(UpTo(a)) = a
<1>1. UpTo(a) \in Seq(Nat) /\ Len(UpTo(a)) = a /\ \A i \in 1 .. a : UpTo(a)[i] = i
  BY DEF UpTo
<1> HIDE DEF UpTo
<1>2. /\ Len(s) \in Nat
      /\ UpTo(a) \o s = [i \in 1 .. a + Len(s) |-> (UpTo(a) \o s)[i]]
      /\ \A i \in 1 .. a : (UpTo(a) \o s)[i] = UpTo(a)[i]
      /\ \A i \in 1 .. Len(s) : (UpTo(a) \o s)[a + i] = s[i]
  <2> DEFINE b == UpTo(a)
  <2> HIDE DEF b
  <2>1. b \in Seq(Nat) /\ Len(b) = a /\ s \in Seq(Nat)
    BY <1>1 DEF b
  <2>2. /\ Len(s) \in Nat /\ b \o s \in Seq(Nat) /\ Len(b \o s) = Len(b) + Len(s)
        /\ \A i \in 1 .. Len(b) : (b \o s)[i] = b[i]
        /\ \A i \in 1 .. Len(s) : (b \o s)[Len(b) + i] = s[i]
    BY ONLY <2>1
  <2> DEFINE u == b \o s
  <2> HIDE DEF u
  <2>3. u \in Seq(Nat) /\ Len(u) = a + Len(s)
    BY <2>1, <2>2 DEF u
  <2>4. u = [i \in 1 .. a + Len(s) |-> u[i]]
    BY <2>3
  <2>5. QED
    BY <2>1, <2>2, <2>4 DEF b, u
<1>3. ASSUME NEW i \in 1 .. a + Len(s) PROVE (UpTo(a) \o s)[i] = i
  <2>1. CASE i <= a
    BY <1>1, <1>2, <2>1
  <2>2. CASE ~(i <= a)
    <3>1. i - a \in 1 .. Len(s) /\ a + (i - a) = i
      BY <1>2, <2>2
    <3>2. (UpTo(a) \o s)[a + (i - a)] = s[i - a] /\ s[i - a] = a + (i - a)
      BY <1>2, <3>1
    <3>3. QED
      BY <3>1, <3>2
  <2>3. QED
    BY <2>1, <2>2
<1>5. UpTo(a) \o s = UpTo(a + Len(s))
  BY <1>2, <1>3 DEF UpTo
<1>6. QED
  BY <1>1, <1>5

(* Where the first k groups of a chain end.                                *)
EndOf(plan, k) == IF k = 0 THEN 0 ELSE Last(plan[k])

(* A group begins where the one before it ends.                            *)
LEMMA GroupExtent ==
  ASSUME NEW limit, NEW list, NEW plan, Chain(limit, list, plan), NEW k \in 1 .. Len(plan)
  PROVE  /\ Len(plan) \in Nat /\ k \in Nat \ {0} /\ k <= Len(plan)
         /\ plan[k].members \in Seq(Nat \ {0}) /\ Len(plan[k].members) \in Nat \ {0}
         /\ EndOf(plan, k - 1) \in Nat
         /\ EndOf(plan, k) = EndOf(plan, k - 1) + Len(plan[k].members)
         /\ \A j \in 1 .. Len(plan[k].members) : plan[k].members[j] = EndOf(plan, k - 1) + j
<1>1. plan \in Seq(Group) /\ Len(plan) \in Nat /\ k \in Nat \ {0} /\ k <= Len(plan)
  BY DEF Chain
<1>2. \A l \in 1 .. Len(plan) :
        /\ plan[l].members \in Seq(Nat \ {0}) /\ Len(plan[l].members) \in Nat \ {0}
        /\ First(plan[l]) \in Nat \ {0} /\ Last(plan[l]) = First(plan[l]) + Len(plan[l].members) - 1
        /\ \A j \in 1 .. Len(plan[l].members) : plan[l].members[j] = First(plan[l]) + j - 1
  <2> SUFFICES ASSUME NEW l \in 1 .. Len(plan)
               PROVE  /\ plan[l].members \in Seq(Nat \ {0}) /\ Len(plan[l].members) \in Nat \ {0}
                      /\ First(plan[l]) \in Nat \ {0}
                      /\ Last(plan[l]) = First(plan[l]) + Len(plan[l].members) - 1
                      /\ \A j \in 1 .. Len(plan[l].members) :
                           plan[l].members[j] = First(plan[l]) + j - 1
    OBVIOUS
  <2>1. Run(list, plan[l])
    BY DEF Chain
  <2>2. QED
    BY <2>1, RunIsInterval
<1>3. First(plan[k]) = EndOf(plan, k - 1) + 1 /\ EndOf(plan, k - 1) \in Nat
  <2>1. CASE k = 1
    <3>1. plan # <<>>
      BY <1>1
    <3>2. QED
      BY <1>1, <2>1, <3>1 DEF Chain, EndOf
  <2>2. CASE k # 1
    <3>1. k - 1 \in 1 .. Len(plan) - 1 /\ k - 1 \in 1 .. Len(plan) /\ (k - 1) + 1 = k
      BY <1>1, <2>2
    <3>2. Follows(limit, list, plan[k - 1], plan[k])
      BY <3>1 DEF Chain
    <3>3. Last(plan[k - 1]) \in Nat
      <4>1. /\ Len(plan[k - 1].members) \in Nat \ {0} /\ First(plan[k - 1]) \in Nat \ {0}
            /\ Last(plan[k - 1]) = First(plan[k - 1]) + Len(plan[k - 1].members) - 1
        BY <1>2, <3>1
      <4>2. QED
        BY <4>1
    <3>4. QED
      BY <3>1, <3>2, <3>3 DEF Follows, EndOf
  <2>3. QED
    BY <2>1, <2>2
<1> DEFINE a == EndOf(plan, k - 1)
           s == plan[k].members
<1>4. s \in Seq(Nat \ {0}) /\ Len(s) \in Nat \ {0} /\ \A j \in 1 .. Len(s) : s[j] = a + j
  <2>1. /\ s \in Seq(Nat \ {0}) /\ Len(s) \in Nat \ {0}
        /\ \A j \in 1 .. Len(s) : s[j] = First(plan[k]) + j - 1
    BY <1>2
  <2>2. First(plan[k]) = a + 1 /\ a \in Nat
    BY <1>3
  <2> HIDE DEF a, s
  <2>3. \A j \in 1 .. Len(s) : s[j] = a + j
    BY <2>1, <2>2
  <2>4. QED
    BY <2>1, <2>3
<1>5. EndOf(plan, k) = a + Len(s)
  <2>1. Last(plan[k]) = First(plan[k]) + Len(s) - 1 /\ Len(s) \in Nat
    BY <1>2
  <2>2. First(plan[k]) = a + 1 /\ a \in Nat
    BY <1>3
  <2> HIDE DEF a, s
  <2>3. Last(plan[k]) = a + Len(s)
    BY <2>1, <2>2
  <2>4. QED
    BY <1>1, <2>3 DEF EndOf
<1>6. QED
  BY <1>1, <1>3, <1>4, <1>5

(* The members of the next group carry on.                                 *)
LEMMA GroupCarriesOn ==
  ASSUME NEW limit, NEW list, NEW plan, Chain(limit, list, plan), NEW k \in 1 .. Len(plan)
  PROVE  UpTo(EndOf(plan, k - 1)) \o plan[k].members = UpTo(EndOf(plan, k))
<1> DEFINE a == EndOf(plan, k - 1)
           s == plan[k].members
<1>1. /\ a \in Nat /\ s \in Seq(Nat) /\ EndOf(plan, k) = a + Len(s)
      /\ \A j \in 1 .. Len(s) : s[j] = a + j
  <2>1. s \in Seq(Nat \ {0})
    BY GroupExtent
  <2>2. s \in Seq(Nat)
    BY <2>1
  <2>3. QED
    BY <2>2, GroupExtent
<1> HIDE DEF a, s
<1>2. UpTo(a) \o s = UpTo(a + Len(s))
  BY <1>1, UpToGrows
<1>3. QED
  BY <1>1, <1>2 DEF a, s

(* Of two groups the later one names later positions.                      *)
LEMMA EndsGrow ==
  ASSUME NEW limit, NEW list, NEW plan, Chain(limit, list, plan),
         NEW i \in 0 .. Len(plan), NEW j \in 0 .. Len(plan), i <= j
  PROVE  EndOf(plan, i) \in Nat /\ EndOf(plan, j) \in Nat /\ EndOf(plan, i) <= EndOf(plan, j)
<1>1. Len(plan) \in Nat
  BY DEF Chain
<1>2. \A k \in 0 .. Len(plan) : EndOf(plan, k) \in Nat
  <2> SUFFICES ASSUME NEW k \in 0 .. Len(plan) PROVE EndOf(plan, k) \in Nat
    OBVIOUS
  <2>1. CASE k = 0
    BY <2>1 DEF EndOf
  <2>2. CASE k # 0
    <3>1. k \in 1 .. Len(plan)
      BY <1>1, <2>2
    <3>2. /\ EndOf(plan, k - 1) \in Nat /\ Len(plan[k].members) \in Nat
          /\ EndOf(plan, k) = EndOf(plan, k - 1) + Len(plan[k].members)
      BY <3>1, GroupExtent
    <3>3. QED
      BY <3>2
  <2>3. QED
    BY <2>1, <2>2
<1>3. \A k \in 1 .. Len(plan) : EndOf(plan, k - 1) <= EndOf(plan, k)
  <2> SUFFICES ASSUME NEW k \in 1 .. Len(plan) PROVE EndOf(plan, k - 1) <= EndOf(plan, k)
    OBVIOUS
  <2>1. /\ EndOf(plan, k - 1) \in Nat /\ Len(plan[k].members) \in Nat
        /\ EndOf(plan, k) = EndOf(plan, k - 1) + Len(plan[k].members)
    BY GroupExtent
  <2>2. QED
    BY <2>1
<1> DEFINE Lower == {k \in i .. Len(plan) : ~(EndOf(plan, i) <= EndOf(plan, k))}
<1>4. /\ i \in Nat /\ j \in Nat /\ Lower \in SUBSET Nat
      /\ \A k \in Lower : k \in i .. Len(plan) /\ ~(EndOf(plan, i) <= EndOf(plan, k))
      /\ \A k \in i .. Len(plan) : k \notin Lower => EndOf(plan, i) <= EndOf(plan, k)
  BY <1>1
<1> HIDE DEF Lower
<1>5. Lower = {}
  <2> SUFFICES ASSUME Lower # {} PROVE FALSE
    OBVIOUS
  <2>1. PICK k \in Lower : \A l \in Lower : k <= l
    BY <1>4, LeastNatural
  <2>2. k \in i .. Len(plan) /\ k \in Nat /\ k # i
    BY <1>1, <1>2, <1>4
  <2>3. /\ k - 1 \in i .. Len(plan) /\ k \in 1 .. Len(plan) /\ ~(k <= k - 1)
        /\ k \in 0 .. Len(plan) /\ k - 1 \in 0 .. Len(plan)
    BY <1>1, <1>4, <2>2
  <2>4. EndOf(plan, i) <= EndOf(plan, k - 1)
    BY <1>4, <2>1, <2>3
  <2>5. EndOf(plan, k - 1) <= EndOf(plan, k)
    BY <1>3, <2>3
  <2>6. EndOf(plan, i) \in Nat /\ EndOf(plan, k - 1) \in Nat /\ EndOf(plan, k) \in Nat
    BY <1>2, <2>3
  <2>7. EndOf(plan, i) <= EndOf(plan, k)
    BY ONLY <2>4, <2>5, <2>6
  <2>8. QED
    BY <1>4, <2>1, <2>7
<1>6. j \in i .. Len(plan)
  BY <1>1, <1>4
<1>7. QED
  BY <1>2, <1>4, <1>5, <1>6

(* A member lies in the interval of its group.                             *)
LEMMA MemberLies ==
  ASSUME NEW limit, NEW list, NEW plan, Chain(limit, list, plan),
         NEW k \in 1 .. Len(plan), NEW p \in 1 .. Len(plan[k].members)
  PROVE  /\ plan[k].members[p] = EndOf(plan, k - 1) + p
         /\ plan[k].members[p] \in Nat
         /\ EndOf(plan, k - 1) < plan[k].members[p] /\ plan[k].members[p] <= EndOf(plan, k)
<1> DEFINE a == EndOf(plan, k - 1)
           e == EndOf(plan, k)
           s == plan[k].members
<1>1. a \in Nat /\ Len(s) \in Nat /\ e = a + Len(s) /\ s[p] = a + p
  BY GroupExtent
<1>2. p \in 1 .. Len(s)
  OBVIOUS
<1> HIDE DEF a, e, s
<1>3. s[p] = a + p /\ s[p] \in Nat /\ a < s[p] /\ s[p] <= e
  BY ONLY <1>1, <1>2
<1>4. QED
  BY <1>3 DEF a, e, s

(* No position is named twice.                                             *)
LEMMA NamedOnce ==
  ASSUME NEW limit, NEW list, NEW plan, Chain(limit, list, plan),
         NEW i \in 1 .. Len(plan), NEW j \in 1 .. Len(plan),
         NEW k \in 1 .. Len(plan[i].members), NEW l \in 1 .. Len(plan[j].members),
         plan[i].members[k] = plan[j].members[l]
  PROVE  i = j /\ k = l
<1>1. \A g, h \in 1 .. Len(plan) :
        \A p \in 1 .. Len(plan[g].members), q \in 1 .. Len(plan[h].members) :
          g < h => plan[g].members[p] # plan[h].members[q]
  <2> SUFFICES ASSUME NEW g \in 1 .. Len(plan), NEW h \in 1 .. Len(plan), g < h,
                      NEW p \in 1 .. Len(plan[g].members), NEW q \in 1 .. Len(plan[h].members)
               PROVE  plan[g].members[p] # plan[h].members[q]
    OBVIOUS
  <2>1. Len(plan) \in Nat
    BY DEF Chain
  <2>2. g \in 0 .. Len(plan) /\ h - 1 \in 0 .. Len(plan) /\ g <= h - 1
    BY <2>1
  <2>3. EndOf(plan, g) \in Nat /\ EndOf(plan, h - 1) \in Nat /\ EndOf(plan, g) <= EndOf(plan, h - 1)
    BY <2>2, EndsGrow
  <2>4. plan[g].members[p] <= EndOf(plan, g)
    BY MemberLies
  <2>5. EndOf(plan, h - 1) < plan[h].members[q]
    BY MemberLies
  <2>6. SUFFICES ASSUME plan[g].members[p] = plan[h].members[q] PROVE FALSE
    OBVIOUS
  <2>7. EndOf(plan, h - 1) < plan[g].members[p]
    BY <2>5, <2>6
  <2>8. plan[g].members[p] \in Nat
    BY MemberLies
  <2>9. QED
    BY ONLY <2>3, <2>4, <2>7, <2>8
<1>2. i = j
  <2>1. i \in Nat /\ j \in Nat
    BY GroupExtent
  <2>2. ~(i < j) /\ ~(j < i)
    BY <1>1
  <2>3. QED
    BY ONLY <2>1, <2>2
<1>3. plan[i].members[k] = EndOf(plan, i - 1) + k
  BY MemberLies
<1>4. plan[i].members[l] = EndOf(plan, i - 1) + l /\ l \in 1 .. Len(plan[i].members)
  BY <1>2, MemberLies
<1>5. EndOf(plan, i - 1) \in Nat /\ Len(plan[i].members) \in Nat
  BY GroupExtent
<1>6. EndOf(plan, i - 1) + k = EndOf(plan, i - 1) + l
  BY <1>2, <1>3, <1>4
<1>7. k \in Nat /\ l \in Nat
  BY <1>4, <1>5
<1>8. k = l
  BY ONLY <1>5, <1>6, <1>7
<1>9. QED
  BY <1>2, <1>8

(* What the groups of a chain hold together, by the recursion of Entries.  *)
MembersUpTo(plan, f) ==
  f = [k \in 0 .. Len(plan) |-> IF k = 0 THEN <<>> ELSE f[k - 1] \o plan[k].members]

LEMMA MembersAreIntervals ==
  ASSUME NEW limit, NEW list, NEW plan, Chain(limit, list, plan)
  PROVE  /\ \E f : MembersUpTo(plan, f)
         /\ \A f : MembersUpTo(plan, f) => f[Len(plan)] = UpTo(EndOf(plan, Len(plan)))
<1> DEFINE n == Len(plan)
<1>1. n \in Nat
  BY DEF Chain
<1>2. UpTo(EndOf(plan, 0)) = <<>>
  BY DEF UpTo, EndOf
<1>3. \A k \in 1 .. n : UpTo(EndOf(plan, k - 1)) \o plan[k].members = UpTo(EndOf(plan, k))
  BY GroupCarriesOn
<1>4. \E f : MembersUpTo(plan, f)
  <2> DEFINE f == [k \in 0 .. n |-> UpTo(EndOf(plan, k))]
  <2>1. \A k \in 0 .. n : k = 0 => f[k] = <<>>
    BY <1>1, <1>2
  <2>2. \A k \in 0 .. n : k # 0 => f[k] = f[k - 1] \o plan[k].members
    <3> SUFFICES ASSUME NEW k \in 0 .. n, k # 0
                 PROVE  f[k] = f[k - 1] \o plan[k].members
      OBVIOUS
    <3>1. k \in 1 .. n /\ k - 1 \in 0 .. n
      BY <1>1
    <3>2. f[k] = UpTo(EndOf(plan, k)) /\ f[k - 1] = UpTo(EndOf(plan, k - 1))
      BY <3>1
    <3>3. QED
      BY <1>3, <3>1, <3>2
  <2>3. f = [k \in 0 .. n |-> f[k]]
    OBVIOUS
  <2> HIDE DEF f
  <2>4. f = [k \in 0 .. n |-> IF k = 0 THEN <<>> ELSE f[k - 1] \o plan[k].members]
    BY <2>1, <2>2, <2>3
  <2>5. QED
    BY <2>4 DEF MembersUpTo
<1>5. ASSUME NEW f, MembersUpTo(plan, f) PROVE f[n] = UpTo(EndOf(plan, n))
  <2>1. \A k \in 0 .. n : f[k] = IF k = 0 THEN <<>> ELSE f[k - 1] \o plan[k].members
    BY <1>5 DEF MembersUpTo
  <2> DEFINE Wrong == {k \in 0 .. n : f[k] # UpTo(EndOf(plan, k))}
  <2>2. /\ Wrong \in SUBSET Nat
        /\ \A k \in Wrong : k \in 0 .. n /\ f[k] # UpTo(EndOf(plan, k))
        /\ \A k \in 0 .. n : k \notin Wrong => f[k] = UpTo(EndOf(plan, k))
    BY <1>1
  <2> HIDE DEF Wrong
  <2>3. Wrong = {}
    <3> SUFFICES ASSUME Wrong # {} PROVE FALSE
      OBVIOUS
    <3>1. PICK k \in Wrong : \A j \in Wrong : k <= j
      BY <2>2, LeastNatural
    <3>2. k \in 0 .. n /\ k \in Nat /\ k # 0
      BY <1>2, <2>1, <2>2
    <3>3. k - 1 \in 0 .. n /\ k \in 1 .. n /\ ~(k <= k - 1)
      BY <1>1, <3>2
    <3>4. f[k - 1] = UpTo(EndOf(plan, k - 1))
      BY <2>2, <3>1, <3>3
    <3>5. f[k] = f[k - 1] \o plan[k].members
      BY <2>1, <3>2
    <3>6. QED
      BY <1>3, <2>2, <3>3, <3>4, <3>5
  <2>4. n \in 0 .. n
    BY <1>1
  <2>5. QED
    BY <2>2, <2>3, <2>4
<1>6. QED
  BY <1>4, <1>5
=============================================================================
