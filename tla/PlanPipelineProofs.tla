------------------------- MODULE PlanPipelineProofs -------------------------
(***************************************************************************)
(* From the first weight that is recorded to the slots of the runtime, for *)
(* every model, sector size, table and plan, in four parts:                *)
(*                                                                         *)
(*   - the slot layout is safe for every set of groups, every group size   *)
(*     and every sequence of loads, and within the buffer if the request   *)
(*     of the plan that is loaded holds each of its groups;                *)
(*   - the recorded lists are what the loader takes them for: a chunk's    *)
(*     index is its position, and the buffer size holds each two           *)
(*     consecutive chunks;                                                 *)
(*   - a group of the planner covers the sectors that it will be read into *)
(*     and is within the limit or within a chunk;                          *)
(*   - so the file that the planner makes of a recorded table finds its    *)
(*     chunks, its buffer size and its room in the runtime.                *)
(*                                                                         *)
(* The planner's own invariant is proved in RechunkProofs.                 *)
(***************************************************************************)
EXTENDS PlanPipeline, RechunkProofs

(* The slots that the controller lays out.                                 *)

(* AlignTo never shrinks a request.                                        *)
LEMMA AlignToGrows ==
  ASSUME NEW value \in Nat
  PROVE  AlignTo(value) \in Nat /\ AlignTo(value) >= value
<1>1. CASE Alignment = 0
  BY <1>1 DEF AlignTo
<1>2. CASE Alignment # 0
  <2>1. Alignment \in Nat /\ Alignment > 0
    BY <1>2, BufferSlotsAssumption
  <2>2. (value % Alignment) \in 0 .. (Alignment - 1)
    BY <2>1
  <2>3. QED
    BY <2>1, <2>2 DEF AlignTo
<1>3. QED
  BY <1>1, <1>2

(* What is left of the buffer once a plan is loaded.                       *)
RequestHeld == capacity > 0 => loaded.request <= capacity

(* The inductive invariant of the proofs: IndInv, and a buffer as large as *)
(* was asked for, without which the first prefetch would overrun it.       *)
Inv == IndInv /\ RequestHeld

LEMMA LoadedGroupTyped ==
  ASSUME Inv, NEW g \in loaded.groups
  PROVE  g \in SlotGroup /\ g.index \in Nat /\ g.size \in Nat
<1>1. loaded \in SlotPlan \/ loaded.groups = {}
  BY DEF Inv, IndInv, TypeOK, NoPlan
<1>2. QED
  BY <1>1 DEF SlotPlan, SlotGroup

(* A placed offset keeps clear of the active slot and of the buffer's end. *)
LEMMA PlacementIsClear ==
  ASSUME Inv, NEW extent \in Nat,
         ComputeInactiveSlotOffset(extent) # NoOffset
  PROVE  LET offset == ComputeInactiveSlotOffset(extent)
             held == slots[active] IN
         /\ offset \in Nat
         /\ capacity > 0
         /\ offset + extent <= capacity
         /\ offset = 0 \/ offset = capacity - extent
         /\ \/ held.size = 0
            \/ held.offset + held.size <= offset
            \/ offset + extent <= held.offset
<1>1. /\ capacity \in Nat
      /\ slots[active].offset \in Nat
      /\ slots[active].size \in Nat
      /\ slots[active].index \in Nat \cup {NoIndex}
      /\ active \in Slots
  BY DEF Inv, IndInv, TypeOK, Slot
<1>2. capacity > 0 =>
        slots[active].offset = 0 \/ slots[active].offset = capacity - slots[active].size
  BY <1>1 DEF Inv, IndInv, SlotsAtAnEnd
<1>3. QED
  BY <1>1, <1>2 DEF ComputeInactiveSlotOffset, NoOffset

LEMMA InitInv == Init => Inv
  BY DEF Init, NoPlan, Inv, IndInv, RequestHeld, TypeOK, SlotsInBuffer, WithinBuffer,
         SlotsAtAnEnd, OtherSlotFree, SlotsApart, EmptySlots, EmptySlot, Slots, Slot, NoIndex, inactive

(* A load starts over from two empty slots.                                *)
LEMMA LoadKeepsInv ==
  ASSUME Inv, NEW plan \in SlotPlan, Load(plan)
  PROVE  Inv'
<1>1. capacity \in Nat
  BY DEF Inv, IndInv, TypeOK
<1>2. /\ slots' = EmptySlots
      /\ active' = 0
      /\ pending' = TRUE
      /\ loaded' = plan
  BY DEF Load, LoadPrefetchPlan, LoadWithoutMemory
<1>3. plan.request \in Nat /\ AlignTo(plan.request) \in Nat /\ AlignTo(plan.request) >= plan.request
  BY AlignToGrows DEF SlotPlan
<1>4. /\ capacity' \in Nat
      /\ capacity' = 0 \/ capacity' >= plan.request
  BY <1>1, <1>3 DEF Load, LoadPrefetchPlan, LoadWithoutMemory
<1>5. RequestHeld' /\ IndInv'
  BY <1>2, <1>3, <1>4 DEF RequestHeld, IndInv, TypeOK, SlotsInBuffer, WithinBuffer, SlotsAtAnEnd,
                    OtherSlotFree, SlotsApart, EmptySlots, EmptySlot, Slots, Slot, NoIndex, inactive
<1>6. QED
  BY <1>5 DEF Inv

LEMMA ReleaseKeepsInv ==
  ASSUME Inv, ReleaseWeightChunkBuffer
  PROVE  Inv'
<1>1. pending \in BOOLEAN /\ loaded \in SlotPlan \cup {NoPlan}
  BY DEF Inv, IndInv, TypeOK
<1>2. /\ capacity' = 0
      /\ slots' = EmptySlots
      /\ active' = 0
      /\ pending' = pending
      /\ loaded' = loaded
  BY DEF ReleaseWeightChunkBuffer
<1>3. QED
  BY <1>1, <1>2 DEF Inv, RequestHeld, IndInv, TypeOK, SlotsInBuffer, WithinBuffer, SlotsAtAnEnd,
                    OtherSlotFree, SlotsApart, EmptySlots, EmptySlot, Slots, Slot,
                    NoIndex, inactive

LEMMA InitialPrefetchKeepsInv ==
  ASSUME Inv, NEW g \in loaded.groups, InitialPrefetch(g)
  PROVE  Inv'
<1> DEFINE s == [offset |-> 0, size |-> g.size, index |-> g.index]
<1>1. /\ slots \in [Slots -> Slot]
      /\ active \in Slots
      /\ capacity \in Nat
      /\ pending
      /\ slots' = [slots EXCEPT ![active] = s]
      /\ pending' \in BOOLEAN
      /\ capacity' = capacity
      /\ loaded' = loaded /\ loaded \in SlotPlan \cup {NoPlan}
      /\ active' = active
  BY DEF Inv, IndInv, TypeOK, InitialPrefetch
<1>2. s \in Slot /\ s.offset = 0 /\ s.size = g.size /\ g.size \in Nat
  BY LoadedGroupTyped DEF Slot
<1>3. TypeOK'
  BY <1>1, <1>2 DEF TypeOK, Slots
<1>4. /\ slots'[active] = s
      /\ slots'[1 - active] = slots[1 - active]
      /\ slots[1 - active].size = 0
  BY <1>1 DEF Inv, IndInv, OtherSlotFree, inactive, Slots
<1>5. capacity > 0 /\ HoldsEachGroup(loaded) => g.size <= capacity
  <2>1. g.size <= loaded.request \/ ~HoldsEachGroup(loaded)
    BY DEF HoldsEachGroup
  <2>2. loaded.request \in Nat
    BY <1>1 DEF SlotPlan, NoPlan
  <2>3. QED
    BY <1>1, <1>2, <2>1, <2>2 DEF Inv, RequestHeld
<1>6. \A i \in Slots : i = active \/ i = 1 - active
  BY <1>1 DEF Slots
<1>7. SlotsInBuffer' /\ SlotsAtAnEnd'
  BY <1>1, <1>2, <1>4, <1>5, <1>6 DEF Inv, IndInv, SlotsInBuffer, WithinBuffer, SlotsAtAnEnd,
     HoldsEachGroup
<1>8. OtherSlotFree' /\ SlotsApart'
  BY <1>1, <1>4 DEF OtherSlotFree, SlotsApart, inactive, Slots
<1>9. QED
  BY <1>1, <1>3, <1>7, <1>8 DEF Inv, IndInv, RequestHeld

LEMMA SwitchKeepsInv ==
  ASSUME Inv, NEW g \in loaded.groups, SwitchActiveBufferIndex(g)
  PROVE  Inv'
  BY DEF Inv, IndInv, RequestHeld, TypeOK, SlotsInBuffer, WithinBuffer, SlotsAtAnEnd, OtherSlotFree,
         SlotsApart, SwitchActiveBufferIndex, inactive, Slots

(* The step the layout rule is about: the inactive slot is replaced by one *)
(* that PlacementIsClear keeps off the active slot, or emptied.            *)
LEMMA ScheduleKeepsInv ==
  ASSUME Inv, NEW g \in loaded.groups, NEW accepted \in BOOLEAN, ScheduleNextGroup(g, accepted)
  PROVE  Inv'
<1> DEFINE offset == ComputeInactiveSlotOffset(g.size)
           s == IF accepted
                THEN [offset |-> offset, size |-> g.size, index |-> g.index]
                ELSE EmptySlot
<1>1. /\ slots \in [Slots -> Slot]
      /\ active \in Slots
      /\ capacity \in Nat
      /\ ~pending /\ ~pending'
      /\ slots' = [slots EXCEPT ![1 - active] = s]
      /\ capacity' = capacity
      /\ loaded' = loaded /\ loaded \in SlotPlan \cup {NoPlan}
      /\ active' = active
      /\ pending' \in BOOLEAN
  BY DEF Inv, IndInv, TypeOK, ScheduleNextGroup, inactive
<1>2. /\ g.size \in Nat /\ g.index \in Nat
      /\ offset # NoOffset
  BY LoadedGroupTyped DEF ScheduleNextGroup
<1>3. /\ offset \in Nat
      /\ capacity > 0
      /\ offset + g.size <= capacity
      /\ offset = 0 \/ offset = capacity - g.size
      /\ \/ slots[active].size = 0
         \/ slots[active].offset + slots[active].size <= offset
         \/ offset + g.size <= slots[active].offset
  BY <1>2, PlacementIsClear
<1>4. /\ s \in Slot
      /\ s.offset + s.size <= capacity
      /\ s.offset = 0 \/ s.offset = capacity - s.size
      /\ \/ s.size = 0
         \/ slots[active].size = 0
         \/ slots[active].offset + slots[active].size <= s.offset
         \/ s.offset + s.size <= slots[active].offset
  BY <1>1, <1>2, <1>3 DEF Slot, EmptySlot, NoIndex
<1>5. /\ slots'[1 - active] = s
      /\ slots'[active] = slots[active]
      /\ 1 - active \in Slots
      /\ 1 - (1 - active) = active
  BY <1>1 DEF Slots
<1>6. TypeOK'
  <2> HIDE DEF s
  <2>1. slots' \in [Slots -> Slot]
    BY <1>1, <1>4, <1>5
  <2>2. QED
    BY <1>1, <2>1 DEF TypeOK
<1>7. \A i \in Slots : i = active \/ i = 1 - active
  BY <1>1 DEF Slots
<1>8. SlotsInBuffer' /\ SlotsAtAnEnd'
  BY <1>1, <1>4, <1>5, <1>7 DEF Inv, IndInv, SlotsInBuffer, WithinBuffer, SlotsAtAnEnd,
     HoldsEachGroup
<1>9. OtherSlotFree' /\ SlotsApart'
  BY <1>1, <1>4, <1>5 DEF OtherSlotFree, SlotsApart
<1>10. QED
  BY <1>1, <1>6, <1>8, <1>9 DEF Inv, IndInv, RequestHeld

LEMMA RuntimeKeepsInv == Inv /\ Runtime => Inv'
<1> SUFFICES ASSUME Inv, Runtime PROVE Inv'
  OBVIOUS
<1>1. ASSUME NEW g \in loaded.groups, InitialPrefetch(g) PROVE Inv'
  BY <1>1, InitialPrefetchKeepsInv
<1>2. ASSUME NEW g \in loaded.groups, SwitchActiveBufferIndex(g) PROVE Inv'
  BY <1>2, SwitchKeepsInv
<1>3. ASSUME NEW g \in loaded.groups, NEW accepted \in BOOLEAN, ScheduleNextGroup(g, accepted)
      PROVE Inv'
  BY <1>3, ScheduleKeepsInv
<1>4. CASE ReleaseWeightChunkBuffer
  BY <1>4, ReleaseKeepsInv
<1>5. QED
  BY <1>1, <1>2, <1>3, <1>4 DEF Runtime

LEMMA NextKeepsInv == Inv /\ [Next]_vars => Inv'
<1> SUFFICES ASSUME Inv, [Next]_vars PROVE Inv'
  OBVIOUS
<1>1. ASSUME NEW plan \in Plans, Load(plan) PROVE Inv'
  BY <1>1, LoadKeepsInv, BufferSlotsAssumption
<1>2. CASE Runtime
  BY <1>2, RuntimeKeepsInv
<1>3. CASE UNCHANGED vars
  BY <1>3 DEF vars, Inv, IndInv, RequestHeld, TypeOK, SlotsInBuffer, WithinBuffer, SlotsAtAnEnd,
              OtherSlotFree, SlotsApart, inactive
<1>4. QED
  BY <1>1, <1>2, <1>3 DEF Next

(* Bounds that keep two slots apart leave them no byte in common.          *)
LEMMA ApartIsDisjoint == TypeOK /\ SlotsApart => SlotsDisjoint
<1> SUFFICES ASSUME TypeOK, SlotsApart PROVE SlotsDisjoint
  OBVIOUS
<1>1. \A i \in Slots : slots[i].offset \in Nat /\ slots[i].size \in Nat
  BY DEF TypeOK, Slot
<1>2. /\ slots[0].offset \in Nat /\ slots[0].size \in Nat
      /\ slots[1].offset \in Nat /\ slots[1].size \in Nat
  BY <1>1 DEF Slots
<1>3. \/ slots[0].size = 0 \/ slots[1].size = 0
      \/ slots[0].offset + slots[0].size <= slots[1].offset
      \/ slots[1].offset + slots[1].size <= slots[0].offset
  BY DEF SlotsApart, Slots
<1>4. QED
  BY <1>2, <1>3 DEF SlotsDisjoint, TypeOK

(* The controller's variables keep their types.                            *)
THEOREM TypeCorrect == Spec => []TypeOK
<1>1. Inv => TypeOK
  BY DEF Inv, IndInv
<1>2. QED
  BY InitInv, NextKeepsInv, <1>1, PTL DEF Spec

(* A slot never reaches past the end of the weight buffer, whatever the    *)
(* order in which plans are loaded, while the plan that is loaded asked    *)
(* for a buffer that holds each of its groups.  Nothing is taken for       *)
(* granted of the plans before it, whose buffer may be used again          *)
(* (controller.cc:364, 557-577).                                           *)
THEOREM SlotsStayInBuffer == Spec => []SlotsInBuffer
<1>1. Inv => SlotsInBuffer
  BY DEF Inv, IndInv
<1>2. QED
  BY InitInv, NextKeepsInv, <1>1, PTL DEF Spec

(* The slot being filled never overlaps the slot operators read from,      *)
(* whatever the plans and their sizes (ComputeInactiveSlotOffset).         *)
THEOREM SlotsStayDisjoint == Spec => []SlotsDisjoint
<1>1. Inv => SlotsDisjoint
  BY ApartIsDisjoint DEF Inv, IndInv
<1>2. QED
  BY InitInv, NextKeepsInv, <1>1, PTL DEF Spec

-----------------------------------------------------------------------------

(* The recording.                                                          *)

(* The chunk that the i-th weight of a model is to get.                    *)
ChunkAt(mo, i) == ChunkFor(mo.weights[i], i - 1)

(* The weights recorded so far are the first n, each with its chunk.       *)
RecordHolds(mo, rec, n) ==
  /\ n <= Len(mo.weights)
  /\ DOMAIN rec = {mo.weights[i].at : i \in 1 .. n}
  /\ \A i \in 1 .. n : rec[mo.weights[i].at] = ChunkAt(mo, i)

(* A mode's list is made of the chunks of the first weights.               *)
ListHolds(mo, list) ==
  /\ Len(list) <= Len(mo.weights)
  /\ \A i \in 1 .. Len(list) : list[i] = ChunkAt(mo, i)

(* A size holds each chunk of a list and each two consecutive ones.        *)
SizeHolds(size, list) ==
  /\ \A i \in 1 .. Len(list) : list[i].size <= size
  /\ \A i \in 1 .. Len(list) - 1 : list[i].size + list[i + 1].size <= size

LastOf(list, last) == IF list = <<>> THEN last = 0 ELSE last = list[Len(list)].size

(* The inductive invariant: everybody walks along the same order, so the   *)
(* next weight is known already or is the first that is not.               *)
RecordingInv ==
  /\ RecordingTypeOK
  /\ RecordHolds(model, record, recordIndex)
  /\ stage = "idle" => /\ model = NoModel /\ mode = "PREFILL" /\ next = 1
  /\ stage \in {"idle", "prepare"} => \A m \in Modes : written[m] = <<>>
  /\ next <= recordIndex + 1 /\ next <= Uses(mode) + 1
  /\ stage = "invoke" => Len(written[mode]) = next - 1
  /\ stage = "invoke" /\ mode = "PREFILL" => written["DECODE"] = <<>>
  /\ \A m \in Modes : /\ ListHolds(model, written[m])
                      /\ SizeHolds(bufferSize, written[m])
                      /\ LastOf(written[m], lastSize[m])

-----------------------------------------------------------------------------

LEMMA LargerIsMax ==
  ASSUME NEW a \in Nat, NEW b \in Nat
  PROVE  Larger(a, b) \in Nat /\ a <= Larger(a, b) /\ b <= Larger(a, b)
BY DEF Larger

(* A chunk has the type that the table declares: its aligned size covers   *)
(* the weight and so is not zero.                                          *)
LEMMA ChunkTyped ==
  ASSUME NEW w \in Weight, NEW n \in Nat
  PROVE  ChunkFor(w, n) \in RecordedChunk
<1> USE RecordingAssumption, BufferSlotsAssumption
<1>1. w.at \in Nat /\ w.len \in Nat \ {0}
  BY DEF Weight
<1>2. Alignment \in Nat \ {0} /\ BaseOffset + w.at \in Nat
  BY <1>1
<1>3. ASSUME NEW s \in Nat \ {0}, NEW a \in Nat
      PROVE  (a \div s) * s \in Nat /\ (a \div s) * s <= a
  OBVIOUS
<1>4. SectorOf(w.at) \in Nat /\ SectorOf(w.at) <= BaseOffset + w.at
  BY <1>2, <1>3 DEF SectorOf
<1>5. w.len + (BaseOffset + w.at - SectorOf(w.at)) \in Nat \ {0}
  BY <1>1, <1>2, <1>4
<1>6. ASSUME NEW v \in Nat \ {0} PROVE AlignTo(v) \in Nat \ {0}
  <2>1. v % Alignment \in 0 .. Alignment - 1
    BY <1>2
  <2>2. QED
    BY <1>2, <2>1 DEF AlignTo
<1>7. AlignedSize(w) \in Nat \ {0}
  BY <1>5, <1>6 DEF AlignedSize
<1>8. QED
  BY <1>1, <1>7 DEF ChunkFor, RecordedChunk

LEMMA WeightTyped ==
  ASSUME NEW mo \in Model, NEW i \in 1 .. Len(mo.weights)
  PROVE  mo.weights[i] \in Weight /\ mo.weights[i].at \in Nat
<1>1. mo.weights \in Seq(Weight)
  BY DEF Model
<1>2. mo.weights[i] \in Weight
  BY <1>1
<1>3. QED
  BY <1>2 DEF Weight

(* After an access to the next weight the record covers it.                *)
LEMMA AccessRecords ==
  ASSUME RecordingInv, next <= Uses(mode), RecordChunkAccess(model.weights[next])
  PROVE  /\ DOMAIN record' \subseteq Nat
         /\ \A a \in DOMAIN record' : record'[a] \in RecordedChunk
         /\ recordIndex' \in Nat /\ next + 1 <= recordIndex' + 1
         /\ RecordHolds(model, record', recordIndex')
         /\ next \in 1 .. Len(model.weights)
         /\ record'[model.weights[next].at] = ChunkAt(model, next)
<1> DEFINE w == model.weights[next]
<1>1. /\ model \in Model /\ model.weights \in Seq(Weight) /\ Len(model.weights) \in Nat
      /\ model.prefill \in Nat /\ model.prefill <= Len(model.weights)
      /\ next \in Nat \ {0} /\ recordIndex \in Nat /\ mode \in Modes
      /\ next <= recordIndex + 1 /\ RecordHolds(model, record, recordIndex)
      /\ DOMAIN record \subseteq Nat /\ \A a \in DOMAIN record : record[a] \in RecordedChunk
  BY DEF RecordingInv, RecordingTypeOK, Model
<1>2. next \in 1 .. Len(model.weights)
  BY <1>1 DEF Uses, Modes
<1>3. w \in Weight /\ w.at \in Nat
  BY <1>1, <1>2, WeightTyped
<1>4. \A i, j \in 1 .. Len(model.weights) : model.weights[i].at = model.weights[j].at => i = j
  BY <1>1 DEF Model
<1>5. CASE w.at \in DOMAIN record
  <2>1. record' = record /\ recordIndex' = recordIndex
    BY <1>5 DEF RecordChunkAccess
  <2>2. PICK i \in 1 .. recordIndex : model.weights[i].at = w.at
    BY <1>1, <1>5 DEF RecordHolds
  <2>3. i \in 1 .. Len(model.weights) /\ i = next
    BY <1>1, <1>2, <1>4, <2>2 DEF RecordHolds
  <2>4. next <= recordIndex /\ record[w.at] = ChunkAt(model, next)
    BY <1>1, <2>2, <2>3 DEF RecordHolds
  <2>5. QED
    BY <1>1, <1>2, <2>1, <2>4
<1>6. CASE w.at \notin DOMAIN record
  <2>1. /\ record' = [a \in DOMAIN record \cup {w.at} |->
                        IF a = w.at THEN ChunkFor(w, recordIndex) ELSE record[a]]
        /\ recordIndex' = recordIndex + 1
    BY <1>6 DEF RecordChunkAccess
  <2>2. next = recordIndex + 1
    <3>1. ASSUME next <= recordIndex PROVE FALSE
      BY <1>1, <1>2, <1>6, <3>1 DEF RecordHolds
    <3>2. QED
      BY <1>1, <3>1
  <2>3. ChunkFor(w, recordIndex) = ChunkAt(model, next) /\ ChunkFor(w, recordIndex) \in RecordedChunk
    BY <1>1, <1>3, <2>2, ChunkTyped DEF ChunkAt
  <2>4. /\ DOMAIN record' = DOMAIN record \cup {w.at}
        /\ record'[w.at] = ChunkAt(model, next)
        /\ \A a \in DOMAIN record : record'[a] = record[a]
    BY <1>6, <2>1, <2>3
  <2>5. DOMAIN record' \subseteq Nat /\ \A a \in DOMAIN record' : record'[a] \in RecordedChunk
    BY <1>1, <1>3, <2>3, <2>4
  <2>6. DOMAIN record' = {model.weights[i].at : i \in 1 .. recordIndex'}
    <3>1. 1 .. recordIndex' = (1 .. recordIndex) \cup {next}
      BY <1>1, <2>1, <2>2
    <3>2. QED
      BY <1>1, <2>4, <3>1 DEF RecordHolds
  <2>7. ASSUME NEW i \in 1 .. recordIndex'
        PROVE  record'[model.weights[i].at] = ChunkAt(model, i)
    <3>1. CASE i = next
      BY <2>4, <3>1
    <3>2. CASE i # next
      <4>1. i \in 1 .. recordIndex
        BY <1>1, <2>1, <2>2, <3>2
      <4>2. model.weights[i].at \in DOMAIN record /\ record[model.weights[i].at] = ChunkAt(model, i)
        BY <1>1, <4>1 DEF RecordHolds
      <4>3. QED
        BY <2>4, <4>2
    <3>3. QED
      BY <3>1, <3>2
  <2>8. recordIndex' = next /\ recordIndex' <= Len(model.weights)
    BY <1>2, <2>1, <2>2
  <2>9. RecordHolds(model, record', recordIndex')
    BY <2>6, <2>7, <2>8 DEF RecordHolds
  <2>10. recordIndex' \in Nat /\ next + 1 <= recordIndex' + 1
    BY <1>1, <2>8
  <2>11. QED
    BY <1>2, <2>4, <2>5, <2>9, <2>10
<1>7. QED
  BY <1>5, <1>6

(* Appending the next chunk to a list, and what the writer's size becomes. *)
LEMMA WriterGrows ==
  ASSUME NEW mo \in Model, NEW list \in Seq(RecordedChunk), NEW size \in Nat, NEW last \in Nat,
         ListHolds(mo, list), SizeHolds(size, list), LastOf(list, last),
         Len(list) + 1 <= Len(mo.weights),
         NEW c \in RecordedChunk, c = ChunkAt(mo, Len(list) + 1),
         NEW more, more = Larger(size, IF last > 0 THEN last + c.size ELSE c.size)
  PROVE  /\ Append(list, c) \in Seq(RecordedChunk) /\ Len(Append(list, c)) = Len(list) + 1
         /\ more \in Nat /\ size <= more
         /\ ListHolds(mo, Append(list, c)) /\ SizeHolds(more, Append(list, c))
         /\ c.size \in Nat /\ LastOf(Append(list, c), c.size)
<1> DEFINE new == Append(list, c)
<1>1. /\ new \in Seq(RecordedChunk) /\ Len(list) \in Nat /\ Len(new) = Len(list) + 1
      /\ new[Len(list) + 1] = c /\ \A i \in 1 .. Len(list) : new[i] = list[i]
  OBVIOUS
<1>2. c.size \in Nat \ {0} /\ \A i \in 1 .. Len(list) : list[i].size \in Nat \ {0}
  <2>1. \A i \in 1 .. Len(list) : list[i] \in RecordedChunk
    OBVIOUS
  <2>2. QED
    BY <2>1 DEF RecordedChunk
<1>3. /\ more \in Nat /\ size <= more /\ c.size <= more
      /\ last > 0 => last + c.size <= more
  <2> DEFINE needed == IF last > 0 THEN last + c.size ELSE c.size
  <2>1. needed \in Nat /\ c.size <= needed /\ (last > 0 => needed = last + c.size)
    BY <1>2
  <2>2. more = Larger(size, needed)
    OBVIOUS
  <2> HIDE DEF needed
  <2>3. more \in Nat /\ size <= more /\ needed <= more
    BY <2>1, <2>2, LargerIsMax
  <2>4. QED
    BY <1>2, <2>1, <2>3
<1>4. ListHolds(mo, new)
  <2>1. ASSUME NEW i \in 1 .. Len(new) PROVE new[i] = ChunkAt(mo, i)
    <3>1. CASE i = Len(list) + 1
      BY <1>1, <3>1
    <3>2. CASE i # Len(list) + 1
      <4>1. i \in 1 .. Len(list) /\ new[i] = list[i]
        BY <1>1, <3>2
      <4>2. QED
        BY <4>1 DEF ListHolds
    <3>3. QED
      BY <3>1, <3>2
  <2>2. QED
    BY <1>1, <2>1 DEF ListHolds
<1>5. SizeHolds(more, new)
  <2>1. ASSUME NEW i \in 1 .. Len(new) PROVE new[i].size <= more
    <3>1. CASE i = Len(list) + 1
      BY <1>1, <1>3, <3>1
    <3>2. CASE i # Len(list) + 1
      <4>1. i \in 1 .. Len(list) /\ new[i] = list[i] /\ list[i].size \in Nat
        BY <1>1, <1>2, <3>2
      <4>2. list[i].size <= size
        BY <4>1 DEF SizeHolds
      <4>3. QED
        BY <1>3, <4>1, <4>2
    <3>3. QED
      BY <3>1, <3>2
  <2>2. ASSUME NEW i \in 1 .. Len(new) - 1 PROVE new[i].size + new[i + 1].size <= more
    <3>1. CASE i = Len(list)
      <4>1. new[i] = list[Len(list)] /\ new[i + 1] = c /\ list # <<>>
        BY <1>1, <3>1
      <4>2. last = list[Len(list)].size /\ last > 0
        BY <1>1, <1>2, <3>1, <4>1 DEF LastOf
      <4>3. QED
        BY <1>3, <4>1, <4>2
    <3>2. CASE i # Len(list)
      <4>1. /\ i \in 1 .. Len(list) - 1 /\ i + 1 \in 1 .. Len(list)
            /\ new[i] = list[i] /\ new[i + 1] = list[i + 1]
            /\ list[i].size \in Nat /\ list[i + 1].size \in Nat
        BY <1>1, <1>2, <3>2
      <4>2. list[i].size + list[i + 1].size <= size
        BY <4>1 DEF SizeHolds
      <4>3. QED
        BY <1>3, <4>1, <4>2
    <3>3. QED
      BY <3>1, <3>2
  <2>3. QED
    BY <2>1, <2>2 DEF SizeHolds
<1>6. LastOf(new, c.size)
  BY <1>1 DEF LastOf
<1>7. QED
  BY <1>1, <1>2, <1>3, <1>4, <1>5, <1>6

-----------------------------------------------------------------------------

LEMMA InitRecording == RecordingInit => RecordingInv
<1> SUFFICES ASSUME RecordingInit PROVE RecordingInv
  OBVIOUS
<1>1. /\ model = NoModel /\ model \in Model /\ Len(model.weights) = 0 /\ Uses(mode) = 0
      /\ record = <<>> /\ recordIndex = 0 /\ written = [m \in Modes |-> <<>>]
      /\ bufferSize = 0 /\ lastSize = [m \in Modes |-> 0]
      /\ mode = "PREFILL" /\ next = 1 /\ stage = "idle" /\ DOMAIN record = {}
  BY DEF RecordingInit, NoModel, Model, Uses
<1>2. RecordingTypeOK
  BY <1>1 DEF RecordingTypeOK, Modes
<1>3. RecordHolds(model, record, recordIndex)
  BY <1>1 DEF RecordHolds
<1>4. \A m \in Modes : written[m] = <<>> /\ lastSize[m] = 0
  BY <1>1
<1>5. \A m \in Modes : /\ ListHolds(model, written[m]) /\ SizeHolds(bufferSize, written[m])
                       /\ LastOf(written[m], lastSize[m])
  BY <1>1, <1>4 DEF ListHolds, SizeHolds, LastOf
<1>6. QED
  BY <1>1, <1>2, <1>3, <1>4, <1>5 DEF RecordingInv

LEMMA StartKeepsRecording ==
  ASSUME RecordingInv, NEW mo \in Models, StartWarmUp(mo) PROVE RecordingInv'
<1>1. /\ stage = "idle" /\ model' = mo /\ stage' = "prepare" /\ mo \in Model
      /\ record' = record /\ recordIndex' = recordIndex /\ written' = written
      /\ bufferSize' = bufferSize /\ lastSize' = lastSize /\ mode' = mode /\ next' = next
  BY RecordingAssumption DEF StartWarmUp
<1>2. /\ model = NoModel /\ mode = "PREFILL" /\ next = 1 /\ RecordingTypeOK
      /\ \A m \in Modes : written[m] = <<>>
      /\ RecordHolds(model, record, recordIndex) /\ recordIndex \in Nat
      /\ \A m \in Modes : LastOf(written[m], lastSize[m])
  BY <1>1 DEF RecordingInv, RecordingTypeOK
<1>3. recordIndex = 0
  BY <1>2 DEF RecordHolds, NoModel
<1>4. mo.weights \in Seq(Weight) /\ Len(mo.weights) \in Nat /\ mo.prefill \in Nat
  BY <1>1 DEF Model
<1>5. RecordingTypeOK'
  BY <1>1, <1>2 DEF RecordingTypeOK
<1>6. RecordHolds(mo, record, recordIndex)
  BY <1>2, <1>3, <1>4 DEF RecordHolds
<1>7. next <= Uses(mode)' + 1
  BY <1>1, <1>2, <1>4 DEF Uses
<1>8. \A m \in Modes : ListHolds(mo, written[m]) /\ SizeHolds(bufferSize, written[m])
  BY <1>2, <1>4 DEF ListHolds, SizeHolds
<1>9. QED
  BY <1>1, <1>2, <1>3, <1>5, <1>6, <1>7, <1>8 DEF RecordingInv

LEMMA AddressKeepsRecording == RecordingInv /\ OffsetToAddr => RecordingInv'
<1> SUFFICES ASSUME RecordingInv, OffsetToAddr PROVE RecordingInv'
  OBVIOUS
<1>1. /\ stage = "prepare" /\ next <= Uses(mode) /\ next' = next + 1
      /\ RecordChunkAccess(model.weights[next])
      /\ model' = model /\ written' = written /\ bufferSize' = bufferSize
      /\ lastSize' = lastSize /\ mode' = mode /\ stage' = stage
  BY DEF OffsetToAddr
<1>2. /\ DOMAIN record' \subseteq Nat /\ \A a \in DOMAIN record' : record'[a] \in RecordedChunk
      /\ recordIndex' \in Nat /\ next + 1 <= recordIndex' + 1
      /\ RecordHolds(model, record', recordIndex')
  BY <1>1, AccessRecords
<1>3. next \in Nat \ {0} /\ next' <= Uses(mode)' + 1
  BY <1>1 DEF RecordingInv, RecordingTypeOK, Uses, Model
<1>4. RecordingTypeOK'
  BY <1>1, <1>2, <1>3 DEF RecordingInv, RecordingTypeOK
<1>5. next' <= recordIndex' + 1 /\ next' <= Uses(mode)' + 1
  BY <1>1, <1>2, <1>3
<1>6. QED
  BY <1>1, <1>2, <1>4, <1>5 DEF RecordingInv

(* A mode's walk begins anew.                                              *)
LEMMA TurnKeepsRecording ==
  RecordingInv /\ (PrepareDecode \/ InvokePrefillRunner \/ InvokeDecodeRunner) => RecordingInv'
<1> SUFFICES ASSUME RecordingInv, PrepareDecode \/ InvokePrefillRunner \/ InvokeDecodeRunner
             PROVE  RecordingInv'
  OBVIOUS
<1>1. /\ model' = model /\ written' = written /\ bufferSize' = bufferSize
      /\ record' = record /\ recordIndex' = recordIndex /\ lastSize' = lastSize
      /\ mode' \in Modes /\ next' = 1
  BY DEF PrepareDecode, InvokePrefillRunner, InvokeDecodeRunner, Modes
<1>2. /\ RecordingTypeOK /\ recordIndex \in Nat /\ model.prefill \in Nat
      /\ Len(model.weights) \in Nat
  BY DEF RecordingInv, RecordingTypeOK, Model
<1>3. next' <= recordIndex' + 1 /\ next' <= Uses(mode)' + 1
  BY <1>1, <1>2 DEF Uses
<1>4. /\ stage' \in {"prepare", "invoke"}
      /\ stage' = "prepare" => stage = "prepare"
      /\ stage' = "invoke" => Len(written[mode']) = 0
      /\ stage' = "invoke" /\ mode' = "PREFILL" => written["DECODE"] = <<>>
  BY DEF PrepareDecode, InvokePrefillRunner, InvokeDecodeRunner, RecordingInv, Modes
<1>5. RecordingTypeOK'
  BY <1>1, <1>2, <1>4 DEF RecordingTypeOK
<1>6. QED
  BY <1>1, <1>3, <1>4, <1>5 DEF RecordingInv

LEMMA FinalizeKeepsRecording == RecordingInv /\ (Finalize \/ UNCHANGED recordVars) => RecordingInv'
<1> SUFFICES ASSUME RecordingInv, Finalize \/ UNCHANGED recordVars PROVE RecordingInv'
  OBVIOUS
<1>1. /\ model' = model /\ written' = written /\ bufferSize' = bufferSize
      /\ record' = record /\ recordIndex' = recordIndex /\ lastSize' = lastSize
      /\ mode' = mode /\ next' = next /\ stage' \in {stage, "written"}
  BY DEF Finalize, recordVars
<1>2. Uses(mode)' = Uses(mode) /\ RecordingTypeOK'
  BY <1>1 DEF Uses, RecordingInv, RecordingTypeOK
<1>3. QED
  BY <1>1, <1>2 DEF RecordingInv

LEMMA UseKeepsRecording == RecordingInv /\ PreInvoke => RecordingInv'
<1> SUFFICES ASSUME RecordingInv, PreInvoke PROVE RecordingInv'
  OBVIOUS
<1> DEFINE list == written[mode]
           c == record'[model.weights[next].at]
<1>1. /\ stage = "invoke" /\ next <= Uses(mode) /\ next' = next + 1
      /\ RecordChunkAccess(model.weights[next])
      /\ written' = [written EXCEPT ![mode] = Append(list, c)]
      /\ bufferSize' = Larger(bufferSize, IF lastSize[mode] > 0 THEN lastSize[mode] + c.size ELSE c.size)
      /\ lastSize' = [lastSize EXCEPT ![mode] = c.size]
      /\ model' = model /\ mode' = mode /\ stage' = stage
  BY DEF PreInvoke, WriteChunkInfo
<1>2. /\ DOMAIN record' \subseteq Nat /\ \A a \in DOMAIN record' : record'[a] \in RecordedChunk
      /\ recordIndex' \in Nat /\ next + 1 <= recordIndex' + 1
      /\ RecordHolds(model, record', recordIndex')
      /\ next \in 1 .. Len(model.weights) /\ c = ChunkAt(model, next)
  BY <1>1, AccessRecords
<1>3. /\ RecordingTypeOK /\ model \in Model /\ mode \in Modes /\ next \in Nat \ {0}
      /\ written \in [Modes -> Seq(RecordedChunk)] /\ lastSize \in [Modes -> Nat]
      /\ bufferSize \in Nat /\ list \in Seq(RecordedChunk) /\ lastSize[mode] \in Nat
      /\ Len(list) = next - 1 /\ Len(model.weights) \in Nat
      /\ \A m \in Modes : /\ ListHolds(model, written[m]) /\ SizeHolds(bufferSize, written[m])
                          /\ LastOf(written[m], lastSize[m])
  BY <1>1 DEF RecordingInv, RecordingTypeOK, Model
<1>4. c \in RecordedChunk
  <2>1. model.weights[next] \in Weight
    BY <1>2, <1>3, WeightTyped
  <2>2. next - 1 \in Nat
    BY <1>3
  <2>3. QED
    BY <1>2, <2>1, <2>2, ChunkTyped DEF ChunkAt
<1>5. /\ Append(list, c) \in Seq(RecordedChunk) /\ Len(Append(list, c)) = next
      /\ bufferSize' \in Nat /\ bufferSize <= bufferSize'
      /\ ListHolds(model, Append(list, c)) /\ SizeHolds(bufferSize', Append(list, c))
      /\ c.size \in Nat /\ LastOf(Append(list, c), c.size)
  <2>1. /\ c = ChunkAt(model, Len(list) + 1) /\ Len(list) + 1 <= Len(model.weights)
        /\ (Len(list) + 1) = next
    BY <1>2, <1>3
  <2>2. ListHolds(model, list) /\ SizeHolds(bufferSize, list) /\ LastOf(list, lastSize[mode])
    BY <1>3
  <2> DEFINE size == lastSize[mode]
  <2>3. /\ model \in Model /\ list \in Seq(RecordedChunk) /\ bufferSize \in Nat /\ size \in Nat
        /\ ListHolds(model, list) /\ SizeHolds(bufferSize, list) /\ LastOf(list, size)
        /\ Len(list) + 1 <= Len(model.weights) /\ c = ChunkAt(model, Len(list) + 1)
        /\ bufferSize' = Larger(bufferSize, IF size > 0 THEN size + c.size ELSE c.size)
    BY <1>1, <1>3, <2>1, <2>2
  <2> HIDE DEF list, c, size
  <2>4. /\ Append(list, c) \in Seq(RecordedChunk) /\ Len(Append(list, c)) = Len(list) + 1
        /\ bufferSize' \in Nat /\ bufferSize <= bufferSize'
        /\ ListHolds(model, Append(list, c)) /\ SizeHolds(bufferSize', Append(list, c))
        /\ c.size \in Nat /\ LastOf(Append(list, c), c.size)
    BY ONLY <1>4, <2>3, WriterGrows
  <2>5. QED
    BY <2>1, <2>4
<1>6. /\ written'[mode] = Append(list, c) /\ lastSize'[mode] = c.size
      /\ \A m \in Modes : m # mode => written'[m] = written[m] /\ lastSize'[m] = lastSize[m]
  BY <1>1, <1>3
<1>7. written' \in [Modes -> Seq(RecordedChunk)] /\ lastSize' \in [Modes -> Nat]
  BY <1>1, <1>3, <1>5
<1>8. RecordingTypeOK'
  <2>1. model' \in Model /\ mode' \in Modes /\ next' \in Nat \ {0}
    BY ONLY <1>1, <1>3
  <2>2. stage' \in {"idle", "prepare", "invoke", "written"}
    BY ONLY <1>1
  <2>3. QED
    BY ONLY <1>2, <1>5, <1>7, <2>1, <2>2 DEF RecordingTypeOK
<1>9. ASSUME NEW m \in Modes
      PROVE  /\ ListHolds(model, written'[m]) /\ SizeHolds(bufferSize', written'[m])
             /\ LastOf(written'[m], lastSize'[m])
  <2>1. CASE m = mode
    BY <1>5, <1>6, <2>1
  <2>2. CASE m # mode
    <3>1. /\ written'[m] = written[m] /\ lastSize'[m] = lastSize[m]
          /\ written[m] \in Seq(RecordedChunk) /\ SizeHolds(bufferSize, written[m])
          /\ Len(written[m]) \in Nat
      BY <1>3, <1>6, <2>2
    <3>2. \A i \in 1 .. Len(written[m]) : written[m][i].size \in Nat
      <4>1. \A i \in 1 .. Len(written[m]) : written[m][i] \in RecordedChunk
        BY <3>1
      <4>2. QED
        BY <4>1 DEF RecordedChunk
    <3>3. \A i \in 1 .. Len(written[m]) : written[m][i].size <= bufferSize'
      <4>1. \A i \in 1 .. Len(written[m]) : written[m][i].size <= bufferSize
        BY <3>1 DEF SizeHolds
      <4>2. QED
        BY <1>3, <1>5, <3>2, <4>1
    <3>4. ASSUME NEW i \in 1 .. Len(written[m]) - 1
          PROVE  written[m][i].size + written[m][i + 1].size <= bufferSize'
      <4>1. written[m][i].size + written[m][i + 1].size <= bufferSize
        BY <3>1 DEF SizeHolds
      <4>2. i \in 1 .. Len(written[m]) /\ i + 1 \in 1 .. Len(written[m])
        BY <3>1
      <4>3. written[m][i].size \in Nat /\ written[m][i + 1].size \in Nat
        BY <3>2, <4>2
      <4>4. QED
        BY <1>3, <1>5, <4>1, <4>3
    <3>5. SizeHolds(bufferSize', written[m])
      BY <3>3, <3>4 DEF SizeHolds
    <3>6. QED
      BY <1>3, <3>1, <3>5
  <2>3. QED
    BY <2>1, <2>2
<1>10. next' <= recordIndex' + 1 /\ Len(written'[mode]) = next' - 1
  <2>1. next \in Nat /\ next' = next + 1 /\ next' <= recordIndex' + 1
    BY <1>1, <1>2, <1>3
  <2>2. Len(written'[mode]) = next
    BY <1>5, <1>6
  <2> HIDE DEF list, c
  <2>3. Len(written'[mode]) = next' - 1
    BY <2>1, <2>2
  <2>4. QED
    BY <2>1, <2>3
<1>11. mode = "PREFILL" => written'["DECODE"] = <<>>
  BY <1>1, <1>6 DEF RecordingInv, Modes
<1>12. next' <= Uses(mode)' + 1
  BY <1>1, <1>3 DEF Uses, Model
<1>13. QED
  BY <1>1, <1>2, <1>8, <1>9, <1>10, <1>11, <1>12 DEF RecordingInv

THEOREM RecordingInvariant == RecordingSpec => []RecordingInv
<1>1. RecordingInv /\ [RecordingNext]_recordVars => RecordingInv'
  BY StartKeepsRecording, AddressKeepsRecording, TurnKeepsRecording, FinalizeKeepsRecording,
     UseKeepsRecording DEF RecordingNext, RecordingStep
<1>2. QED
  BY InitRecording, <1>1, PTL DEF RecordingSpec

-----------------------------------------------------------------------------

(* The table that cmt_generator writes lists the chunks of each mode in    *)
(* the order of their indices, from 0 and without a gap.                   *)
THEOREM RecordedIndicesArePositions == RecordingSpec => []IndexIsPosition
<1>1. RecordingInv => IndexIsPosition
  <2> SUFFICES ASSUME RecordingInv, NEW m \in Modes, NEW i \in 1 .. Len(written[m])
               PROVE  written[m][i].index = i - 1 /\ written[m][i].at = model.weights[i].at
    BY DEF IndexIsPosition
  <2>1. written[m][i] = ChunkAt(model, i)
    BY DEF RecordingInv, ListHolds
  <2>2. QED
    BY <2>1 DEF ChunkAt, ChunkFor
<1>2. QED
  BY RecordingInvariant, <1>1, PTL

(* The buffer size that it states holds every chunk, and every two         *)
(* consecutive chunks of a mode.                                           *)
THEOREM RecordedSizeIsEnough == RecordingSpec => []RecordedSizeHoldsPairs
<1>1. RecordingInv => RecordedSizeHoldsPairs
  BY DEF RecordingInv, SizeHolds, RecordedSizeHoldsPairs
<1>2. QED
  BY RecordingInvariant, <1>1, PTL

-----------------------------------------------------------------------------

(* The table that a recording hands over.                                  *)

(* Sorting a list that is in order leaves it as it is.                     *)
LEMMA SortedStays ==
  ASSUME NEW list \in Seq(Chunk), \A i \in 1 .. Len(list) : list[i].index = i - 1
  PROVE  InIndexOrder(list) = list
<1>1. Len(list) \in Nat /\ DOMAIN list = 1 .. Len(list) /\ list = [p \in 1 .. Len(list) |-> list[p]]
  OBVIOUS
<1>2. ASSUME NEW j \in 1 .. Len(list) PROVE Place(list, j) = j
  <2>1. {i \in DOMAIN list : \/ list[i].index < list[j].index
                             \/ list[i].index = list[j].index /\ i <= j} = 1 .. j
    <3>1. \A i \in 1 .. Len(list) :
            (list[i].index < list[j].index \/ (list[i].index = list[j].index /\ i <= j)) <=> i <= j
      <4>1. list[j].index = j - 1
        OBVIOUS
      <4> SUFFICES ASSUME NEW i \in 1 .. Len(list)
                   PROVE  (list[i].index < list[j].index \/ (list[i].index = list[j].index /\ i <= j)) <=> i <= j
        OBVIOUS
      <4>2. list[i].index = i - 1
        OBVIOUS
      <4>3. QED
        BY <1>1, <4>1, <4>2
    <3>2. \A i : i \in 1 .. j <=> i \in 1 .. Len(list) /\ i <= j
      BY <1>1
    <3>3. QED
      BY <1>1, <3>1, <3>2
  <2>2. Cardinality(1 .. j) = j
    BY <1>1, FS_Interval
  <2>3. QED
    BY <2>1, <2>2 DEF Place
<1>3. \A p \in 1 .. Len(list) : (CHOOSE j \in DOMAIN list : Place(list, j) = p) = p
  BY <1>1, <1>2
<1>4. InIndexOrder(list) = [p \in 1 .. Len(list) |-> list[p]]
  BY <1>1, <1>3 DEF InIndexOrder
<1>5. QED
  BY <1>1, <1>4

(* The recorded list of a mode, with the form that it has.                 *)
LEMMA WrittenForm ==
  ASSUME RecordingInv, NEW m \in Modes
  PROVE  /\ written[m] \in Seq(Chunk) /\ InIndexOrder(written[m]) = written[m]
         /\ Len(written[m]) <= Len(model.weights) /\ Len(written[m]) \in Nat
         /\ \A i \in 1 .. Len(written[m]) : written[m][i] = ChunkAt(model, i)
<1>1. written[m] \in Seq(RecordedChunk) /\ ListHolds(model, written[m])
  BY DEF RecordingInv, RecordingTypeOK
<1>2. written[m] \in Seq(Chunk)
  BY <1>1 DEF RecordedChunk, Chunk
<1>3. \A i \in 1 .. Len(written[m]) : written[m][i].index = i - 1
  <2>1. \A i \in 1 .. Len(written[m]) : written[m][i] = ChunkAt(model, i)
    BY <1>1 DEF ListHolds
  <2>2. \A i : ChunkAt(model, i).index = i - 1
    BY DEF ChunkAt, ChunkFor
  <2>3. QED
    BY <2>1, <2>2
<1>4. QED
  BY <1>1, <1>2, <1>3, SortedStays DEF ListHolds

(* A recorded table has a list for each mode that was written to.          *)
LEMMA RecordedLists ==
  ASSUME RecordingInv
  PROVE  /\ RecordedTable \in Table /\ RecordedTable.limit = bufferSize
         /\ \A k \in DOMAIN RecordedTable.lists :
              \E m \in Modes : RecordedTable.lists[k] = written[m]
<1> DEFINE listed(m) == IF written[m] = <<>> THEN <<>> ELSE <<InIndexOrder(written[m])>>
           both == listed("PREFILL") \o listed("DECODE")
<1>1. "PREFILL" \in Modes /\ "DECODE" \in Modes
  BY DEF Modes
<1>2. \A m \in Modes : /\ listed(m) \in Seq(Seq(Chunk))
                       /\ \A k \in 1 .. Len(listed(m)) : listed(m)[k] = written[m]
  <2> SUFFICES ASSUME NEW m \in Modes
               PROVE  /\ listed(m) \in Seq(Seq(Chunk))
                      /\ \A k \in 1 .. Len(listed(m)) : listed(m)[k] = written[m]
    OBVIOUS
  <2>1. written[m] \in Seq(Chunk) /\ InIndexOrder(written[m]) = written[m]
    BY WrittenForm
  <2>2. QED
    BY <2>1
<1>3. RecordedTable = [limit |-> bufferSize, lists |-> both]
  BY DEF RecordedTable
<1> HIDE DEF listed
<1>4. /\ both \in Seq(Seq(Chunk)) /\ DOMAIN both = 1 .. Len(both)
      /\ Len(listed("PREFILL")) \in Nat /\ Len(listed("DECODE")) \in Nat
      /\ Len(both) = Len(listed("PREFILL")) + Len(listed("DECODE"))
  BY <1>1, <1>2
<1>5. ASSUME NEW k \in DOMAIN both PROVE \E m \in Modes : both[k] = written[m]
  <2>1. CASE k <= Len(listed("PREFILL"))
    <3>1. k \in 1 .. Len(listed("PREFILL"))
      BY <1>4, <2>1
    <3>2. both[k] = listed("PREFILL")[k]
      BY <1>1, <1>2, <3>1
    <3>3. QED
      BY <1>1, <1>2, <3>1, <3>2
  <2>2. CASE ~(k <= Len(listed("PREFILL")))
    <3>1. k - Len(listed("PREFILL")) \in 1 .. Len(listed("DECODE"))
      BY <1>4, <2>2
    <3>2. both[k] = listed("DECODE")[k - Len(listed("PREFILL"))]
      BY <1>1, <1>2, <1>4, <2>2
    <3>3. QED
      BY <1>1, <1>2, <3>1, <3>2
  <2>3. QED
    BY <2>1, <2>2
<1>6. bufferSize \in Nat
  BY DEF RecordingInv, RecordingTypeOK
<1>7. QED
  BY <1>3, <1>4, <1>5, <1>6 DEF Table

(* A recorded table is in the form that the planner and the loader rely on.*)
LEMMA RecordedTableInForm ==
  ASSUME RecordingInv
  PROVE  InRecordedForm(RecordedTable)
<1> SUFFICES ASSUME NEW k \in DOMAIN RecordedTable.lists, NEW l \in DOMAIN RecordedTable.lists,
                    NEW i \in DOMAIN RecordedTable.lists[k],
                    NEW j \in DOMAIN RecordedTable.lists[l]
             PROVE  LET c == RecordedTable.lists[k][i]
                        d == RecordedTable.lists[l][j] IN
                    /\ c.index = i - 1 /\ c.size = AlignedSize(c)
                    /\ c.at = d.at <=> i = j
                    /\ i = j => c = d
  BY DEF InRecordedForm
<1>1. PICK m \in Modes : RecordedTable.lists[k] = written[m]
  BY RecordedLists
<1>2. PICK n \in Modes : RecordedTable.lists[l] = written[n]
  BY RecordedLists
<1>3. /\ i \in 1 .. Len(model.weights) /\ RecordedTable.lists[k][i] = ChunkAt(model, i)
      /\ j \in 1 .. Len(model.weights) /\ RecordedTable.lists[l][j] = ChunkAt(model, j)
  <2>1. model.weights \in Seq(Weight)
    BY DEF RecordingInv, RecordingTypeOK, Model
  <2>2. i \in 1 .. Len(written[m]) /\ j \in 1 .. Len(written[n])
    BY <1>1, <1>2, WrittenForm
  <2>3. i <= Len(model.weights) /\ j <= Len(model.weights) /\ Len(model.weights) \in Nat
    BY <2>1, <2>2, WrittenForm
  <2>4. QED
    BY <1>1, <1>2, <2>2, <2>3, WrittenForm
<1>4. model.weights[i].at = model.weights[j].at => i = j
  BY <1>3 DEF RecordingInv, RecordingTypeOK, Model
<1>5. /\ ChunkAt(model, i).at = model.weights[i].at /\ ChunkAt(model, j).at = model.weights[j].at
      /\ ChunkAt(model, i).index = i - 1 /\ ChunkAt(model, i).len = model.weights[i].len
      /\ ChunkAt(model, i).size = AlignedSize(model.weights[i])
  BY DEF ChunkAt, ChunkFor
<1>6. AlignedSize(ChunkAt(model, i)) = AlignedSize(model.weights[i])
  BY <1>5 DEF AlignedSize
<1>7. QED
  BY <1>3, <1>4, <1>5, <1>6

-----------------------------------------------------------------------------

(* The sizes of the planner's groups.                                      *)

SizedList(list) == \A i \in 1 .. Len(list) : list[i].size = AlignedSize(list[i])

(* A group is within the planner's limit or no larger than a chunk, and,   *)
(* if the chunks' sizes are those of their sectors, its size covers the    *)
(* sectors from its first chunk on.                                        *)
Snug(limit, list, g) ==
  /\ g.size <= limit \/ \E i \in Positions(list) : g.size <= list[i].size
  /\ SizedList(list) =>
       \A j \in 1 .. Len(g.members) :
         LET c == list[g.members[j]] IN
         /\ c.size <= g.size
         /\ SectorOf(c.at) + c.size <= SectorOf(list[g.members[1]].at) + g.size

AllSnug(limit, list, seq) == \A k \in 1 .. Len(seq) : Snug(limit, list, seq[k])

(* The sectors of a chunk reach to where the next byte's sector begins.    *)
LEMMA SectorsCover ==
  ASSUME NEW c \in Chunk
  PROVE  /\ SectorOf(c.at) \in Nat /\ SectorOf(c.at + c.len) \in Nat
         /\ c.size = AlignedSize(c) => SectorOf(c.at + c.len) <= SectorOf(c.at) + c.size
<1> USE RecordingAssumption, BufferSlotsAssumption
<1>1. c.at \in Nat /\ c.len \in Nat \ {0} /\ c.size \in Nat
  BY DEF Chunk
<1>2. Alignment \in Nat \ {0} /\ BaseOffset \in Nat
  OBVIOUS
<1>3. ASSUME NEW s \in Nat \ {0}, NEW a \in Nat
      PROVE  (a \div s) * s \in Nat /\ (a \div s) * s <= a
  OBVIOUS
<1>4. /\ SectorOf(c.at) \in Nat /\ SectorOf(c.at) <= BaseOffset + c.at
      /\ SectorOf(c.at + c.len) \in Nat
      /\ SectorOf(c.at + c.len) <= BaseOffset + (c.at + c.len)
  <2>1. ASSUME NEW x \in Nat PROVE SectorOf(x) \in Nat /\ SectorOf(x) <= BaseOffset + x
    <3>1. BaseOffset + x \in Nat
      BY <1>2
    <3>2. /\ ((BaseOffset + x) \div Alignment) * Alignment \in Nat
          /\ ((BaseOffset + x) \div Alignment) * Alignment <= BaseOffset + x
      BY ONLY <1>2, <1>3, <3>1
    <3>3. QED
      BY <3>2 DEF SectorOf
  <2>2. c.at + c.len \in Nat
    BY <1>1
  <2>3. QED
    BY <1>1, <2>1, <2>2
<1>5. ASSUME c.size = AlignedSize(c)
      PROVE  c.len + (BaseOffset + c.at - SectorOf(c.at)) <= c.size
  <2>1. c.len + (BaseOffset + c.at - SectorOf(c.at)) \in Nat
    BY <1>1, <1>2, <1>4
  <2>2. AlignTo(c.len + (BaseOffset + c.at - SectorOf(c.at)))
          >= c.len + (BaseOffset + c.at - SectorOf(c.at))
    BY <2>1, AlignToGrows
  <2>3. c.size = AlignTo(c.len + (BaseOffset + c.at - SectorOf(c.at)))
    BY <1>5 DEF AlignedSize
  <2> DEFINE need == c.len + (BaseOffset + c.at - SectorOf(c.at))
  <2>4. c.size >= need /\ need \in Nat
    BY <2>1, <2>2, <2>3
  <2> HIDE DEF need
  <2>5. need <= c.size
    BY <1>1, <2>4
  <2>6. QED
    BY <2>5 DEF need
<1>6. ASSUME c.size = AlignedSize(c)
      PROVE  SectorOf(c.at + c.len) <= SectorOf(c.at) + c.size
  <2>1. c.len + (BaseOffset + c.at - SectorOf(c.at)) <= c.size
    BY <1>5, <1>6
  <2>2. QED
    BY <1>1, <1>2, <1>4, <2>1
<1>7. QED
  BY <1>4, <1>6

LEMMA SingleSnug ==
  ASSUME NEW limit, NEW list \in Seq(Chunk), NEW i \in Positions(list),
         NEW g, g = [members |-> Append(<<>>, i), size |-> 0 + list[i].size]
  PROVE  Snug(limit, list, g)
<1>1. list[i] \in Chunk /\ list[i].size \in Nat
  BY ChunkFields DEF Positions
<1>2. g.members = <<i>> /\ g.size = list[i].size /\ Len(g.members) = 1 /\ g.members[1] = i
  BY <1>1
<1>3. SectorOf(list[i].at) \in Nat
  BY <1>1, SectorsCover
<1>4. \A j \in 1 .. Len(g.members) : g.members[j] = i
  BY <1>2
<1>5. QED
  BY <1>1, <1>2, <1>3, <1>4 DEF Snug

LEMMA BoundMoves ==
  ASSUME NEW a \in Nat, NEW b \in Nat, NEW c \in Nat, NEW f \in Nat, a <= b + c
  PROVE  a <= b + (c + f) /\ a + f <= b + (c + f)
OBVIOUS

LEMMA BoundStays ==
  ASSUME NEW p \in Nat, NEW s \in Nat, NEW b \in Nat, NEW c \in Nat, NEW f \in Nat,
         s <= c, p + s <= b + c
  PROVE  s <= c + f /\ p + s <= b + (c + f)
OBVIOUS

LEMMA ExtendedSnug ==
  ASSUME NEW limit, NEW list \in Seq(Chunk), NEW g, Run(list, g), Snug(limit, list, g),
         NEW i \in Positions(list),
         list[i].at = list[Last(g)].at + list[Last(g)].len,
         NEW h, h = [members |-> Append(g.members, i), size |-> g.size + list[i].size],
         h.size <= limit
  PROVE  Snug(limit, list, h)
<1>1. /\ g.members \in Seq(Nat \ {0}) /\ g.size \in Nat /\ Len(g.members) \in Nat \ {0}
      /\ \A j \in 1 .. Len(g.members) : g.members[j] \in Positions(list)
      /\ list[i] \in Chunk /\ list[i].size \in Nat /\ i \in Nat \ {0}
  BY ChunkFields DEF Run, Group, Positions
<1>2. /\ Append(g.members, i) \in Seq(Nat \ {0})
      /\ Len(Append(g.members, i)) = Len(g.members) + 1
      /\ Append(g.members, i)[Len(g.members) + 1] = i
      /\ \A j \in 1 .. Len(g.members) : Append(g.members, i)[j] = g.members[j]
  BY ONLY <1>1, Appended
<1>3. /\ Len(h.members) = Len(g.members) + 1 /\ h.members[Len(g.members) + 1] = i
      /\ \A j \in 1 .. Len(g.members) : h.members[j] = g.members[j]
      /\ h.size = g.size + list[i].size /\ h.members[1] = g.members[1]
  <2>1. h.members = Append(g.members, i) /\ h.size = g.size + list[i].size
    OBVIOUS
  <2>2. 1 \in 1 .. Len(g.members)
    BY <1>1
  <2>3. QED
    BY ONLY <1>2, <2>1, <2>2
<1>4. /\ 1 \in 1 .. Len(g.members) /\ Len(g.members) \in 1 .. Len(g.members)
      /\ Last(g) = g.members[Len(g.members)]
      /\ \A j \in 1 .. Len(g.members) : list[g.members[j]] \in Chunk
      /\ g.size \in Nat /\ list[i].size \in Nat
  <2>1. \A k \in Positions(list) : list[k] \in Chunk
    BY DEF Positions
  <2>2. 1 \in 1 .. Len(g.members) /\ Len(g.members) \in 1 .. Len(g.members)
    BY <1>1
  <2>3. Last(g) = g.members[Len(g.members)]
    BY DEF Last
  <2>4. QED
    BY ONLY <1>1, <2>1, <2>2, <2>3
<1>5. ASSUME SizedList(list), NEW j \in 1 .. Len(h.members)
      PROVE  LET c == list[h.members[j]] IN
             /\ c.size <= h.size
             /\ SectorOf(c.at) + c.size <= SectorOf(list[h.members[1]].at) + h.size
  <2> DEFINE start == SectorOf(list[g.members[1]].at)
             sector(k) == SectorOf(list[g.members[k]].at)
             size(k) == list[g.members[k]].size
  <2>1. /\ start \in Nat
        /\ \A k \in 1 .. Len(g.members) :
             /\ size(k) \in Nat /\ sector(k) \in Nat
             /\ size(k) <= g.size /\ sector(k) + size(k) <= start + g.size
    <3>1. \A k \in 1 .. Len(g.members) : size(k) \in Nat /\ sector(k) \in Nat
      BY <1>4, SectorsCover DEF Chunk
    <3>2. start = sector(1)
      OBVIOUS
    <3>3. \A k \in 1 .. Len(g.members) : size(k) <= g.size /\ sector(k) + size(k) <= start + g.size
      BY <1>5 DEF Snug
    <3> HIDE DEF start, sector, size
    <3>4. QED
      BY <1>4, <3>1, <3>2, <3>3
  <2>2. CASE j = Len(g.members) + 1
    <3> DEFINE l == list[Last(g)]
               here == SectorOf(list[i].at)
               n == Len(g.members)
    <3>1. l = list[g.members[n]] /\ l \in Chunk /\ l.size = size(n) /\ SectorOf(l.at) = sector(n)
      BY <1>4
    <3>2. l.size = AlignedSize(l)
      <4>1. g.members[n] \in 1 .. Len(list)
        BY <1>1, <1>4 DEF Positions
      <4>2. QED
        BY <1>5, <3>1, <4>1 DEF SizedList
    <3>3. list[i].at = l.at + l.len
      OBVIOUS
    <3>4. here <= sector(n) + size(n) /\ here \in Nat
      <4>1. SectorOf(l.at + l.len) <= SectorOf(l.at) + l.size /\ SectorOf(l.at + l.len) \in Nat
        BY <3>1, <3>2, SectorsCover
      <4>2. QED
        BY <3>1, <3>3, <4>1
    <3>5. /\ sector(n) + size(n) <= start + g.size /\ sector(n) \in Nat /\ size(n) \in Nat
          /\ start \in Nat
      BY <1>4, <2>1
    <3> HIDE DEF start, here, sector, size
    <3>6. here + list[i].size <= start + (g.size + list[i].size)
      <4>1. here <= start + g.size
        BY <1>4, <3>4, <3>5
      <4>2. QED
        BY <1>4, <3>4, <3>5, <4>1, BoundMoves
    <3>7. list[i].size <= g.size + list[i].size
      BY <1>1
    <3>8. QED
      BY <1>3, <2>2, <3>6, <3>7 DEF start, here
  <2>3. CASE j # Len(g.members) + 1
    <3>1. j \in 1 .. Len(g.members) /\ h.members[j] = g.members[j]
      BY <1>1, <1>3, <2>3
    <3>2. /\ size(j) \in Nat /\ sector(j) \in Nat /\ start \in Nat
          /\ size(j) <= g.size /\ sector(j) + size(j) <= start + g.size
      BY <2>1, <3>1
    <3> HIDE DEF start, sector, size
    <3>3. size(j) <= g.size + list[i].size /\ sector(j) + size(j) <= start + (g.size + list[i].size)
      BY ONLY <1>4, <3>2, BoundStays
    <3>4. QED
      BY <1>3, <3>1, <3>3 DEF start, sector, size
  <2>4. QED
    BY <2>2, <2>3
<1>6. QED
  BY <1>5 DEF Snug

LEMMA SnugAppended ==
  ASSUME NEW limit, NEW list, NEW seq \in Seq(Group), AllSnug(limit, list, seq),
         NEW g \in Group, Snug(limit, list, g)
  PROVE  AllSnug(limit, list, Append(seq, g))
<1>1. /\ Len(seq) \in Nat /\ Len(Append(seq, g)) = Len(seq) + 1
      /\ Append(seq, g)[Len(seq) + 1] = g
      /\ \A j \in 1 .. Len(seq) : Append(seq, g)[j] = seq[j]
  BY Appended
<1>2. SUFFICES ASSUME NEW k \in 1 .. Len(Append(seq, g)) PROVE Snug(limit, list, Append(seq, g)[k])
  BY DEF AllSnug
<1>3. CASE k = Len(seq) + 1
  BY <1>1, <1>3
<1>4. CASE k # Len(seq) + 1
  <2>1. k \in 1 .. Len(seq)
    BY <1>1, <1>4
  <2>2. QED
    BY <1>1, <2>1 DEF AllSnug
<1>5. QED
  BY <1>3, <1>4

LEMMA SinglesSnug ==
  ASSUME NEW limit, NEW list \in Seq(Chunk)
  PROVE  AllSnug(limit, list, OneByOne(list))
<1>1. SUFFICES ASSUME NEW k \in 1 .. Len(OneByOne(list)) PROVE Snug(limit, list, OneByOne(list)[k])
  BY DEF AllSnug
<1>2. k \in Positions(list) /\ DOMAIN list = 1 .. Len(list)
  <2>1. OneByOne(list) \in Seq(Group) /\ DOMAIN OneByOne(list) = DOMAIN list
    BY SinglesComplete DEF OneByOne
  <2>2. QED
    BY <2>1 DEF Positions
<1>3. OneByOne(list)[k] = [members |-> <<k>>, size |-> list[k].size]
  BY <1>2 DEF OneByOne, Positions
<1>4. Append(<<>>, k) = <<k>> /\ 0 + list[k].size = list[k].size
  BY <1>2, ChunkFields
<1>5. OneByOne(list)[k] = [members |-> Append(<<>>, k), size |-> 0 + list[k].size]
  BY <1>3, <1>4
<1>6. QED
  BY ONLY <1>2, <1>5, SingleSnug, list \in Seq(Chunk)

(* The groups that are being made and those that are made are snug.        *)
SnugInv ==
  /\ Started => Snug(table.limit, chunks, compute)
  /\ pc = "inner" /\ prefetch.members # <<>> => Snug(table.limit, chunks, prefetch)
  /\ AtList => AllSnug(table.limit, chunks, groups)
  /\ \A m \in 1 .. Len(planned) : AllSnug(table.limit, table.lists[m], planned[m])

LEMMA InitSnug == PlannerInit => SnugInv
  BY DEF PlannerInit, SnugInv, Started, AtList

LEMMA LoadKeepsSnug ==
  ASSUME PlanInv, NEW t, LoadTable(t) PROVE SnugInv'
<1>1. pc = "idle" /\ planned = <<>> /\ planned' = planned /\ pc' = "validate"
  BY DEF LoadTable, PlanInv, ModesInv
<1>2. QED
  BY <1>1 DEF SnugInv, Started, AtList

(* The planned modes are left alone.                                       *)
LEMMA JudgeKeepsSnug ==
  ASSUME SnugInv, UNCHANGED <<table, planned>>, pc' \notin {"begin", "outer", "inner", "listed"}
  PROVE  SnugInv'
  BY DEF SnugInv, Started, AtList

LEMMA UnchangedKeepsSnug == SnugInv /\ UNCHANGED planVars => SnugInv'
  BY DEF SnugInv, Started, AtList, planVars

LEMMA NextModeKeepsSnug == SnugInv /\ NextMode => SnugInv'
<1> SUFFICES ASSUME SnugInv, NextMode PROVE SnugInv'
  OBVIOUS
<1>1. table' = table /\ planned' = planned /\ groups' = <<>> /\ pc' = "begin"
  BY DEF NextMode
<1>2. AllSnug(table'.limit, chunks', groups')
  BY <1>1 DEF AllSnug
<1>3. QED
  BY <1>1, <1>2 DEF SnugInv, Started

(* A mode's groups join those of the modes before it.                      *)
LEMMA ModeKeepsSnug ==
  ASSUME PlanInv, SnugInv, NEW plan \in Seq(Group), planned' = Append(planned, plan),
         table' = table, pc' \in {"simple", "mode"},
         Len(planned) + 1 <= Len(table.lists),
         AllSnug(table.limit, table.lists[Len(planned) + 1], plan)
  PROVE  SnugInv'
<1>1. planned \in Seq(Seq(Group))
  BY DEF PlanInv, PlannerTypeOK
<1>2. /\ Len(planned) \in Nat /\ Len(planned') = Len(planned) + 1
      /\ planned'[Len(planned) + 1] = plan
      /\ \A m \in 1 .. Len(planned) : planned'[m] = planned[m]
  BY ONLY <1>1, plan \in Seq(Group), planned' = Append(planned, plan), Appended
<1>3. ASSUME NEW m \in 1 .. Len(planned')
      PROVE  AllSnug(table'.limit, table'.lists[m], planned'[m])
  <2>1. CASE m = Len(planned) + 1
    BY <1>2, <2>1
  <2>2. CASE m # Len(planned) + 1
    <3>1. m \in 1 .. Len(planned)
      BY <1>2, <2>2
    <3>2. QED
      BY <1>2, <3>1 DEF SnugInv
  <2>3. QED
    BY <2>1, <2>2
<1>4. QED
  BY <1>3 DEF SnugInv, Started, AtList

LEMMA SimpleKeepsSnug == PlanInv /\ SnugInv /\ AddSingleChunks => SnugInv'
<1> SUFFICES ASSUME PlanInv, SnugInv, AddSingleChunks PROVE SnugInv'
  OBVIOUS
<1> DEFINE list == table.lists[Len(planned) + 1]
<1>1. /\ table' = table /\ planned' = Append(planned, OneByOne(list))
      /\ pc' = "simple" /\ Len(planned) < Len(table.lists)
  BY DEF AddSingleChunks
<1>2. /\ Len(planned) \in Nat /\ table.lists \in Seq(Seq(Chunk)) /\ Len(table.lists) \in Nat
  BY DEF PlanInv, PlannerTypeOK, Table
<1>3. list \in Seq(Chunk) /\ Len(planned) + 1 <= Len(table.lists)
  BY <1>1, <1>2
<1>4. AllSnug(table.limit, list, OneByOne(list)) /\ OneByOne(list) \in Seq(Group)
  BY <1>3, SinglesSnug, SinglesComplete
<1>5. QED
  BY <1>1, <1>3, <1>4, ModeKeepsSnug

LEMMA AddKeepsSnug == PlanInv /\ SnugInv /\ AddEntries => SnugInv'
<1> SUFFICES ASSUME PlanInv, SnugInv, AddEntries PROVE SnugInv'
  OBVIOUS
<1>1. /\ table' = table /\ planned' = Append(planned, groups) /\ pc' = "mode" /\ AtList
  BY DEF AddEntries, AtList
<1>2. /\ groups \in Seq(Group) /\ Len(planned) + 1 <= Len(table.lists)
      /\ chunks = table.lists[Len(planned) + 1]
  BY <1>1 DEF PlanInv, PlannerTypeOK, ModesInv
<1>3. AllSnug(table.limit, table.lists[Len(planned) + 1], groups)
  BY <1>1, <1>2 DEF SnugInv
<1>4. QED
  BY <1>1, <1>2, <1>3, ModeKeepsSnug

LEMMA BeginKeepsSnug == PlanInv /\ SnugInv /\ Begin => SnugInv'
<1> SUFFICES ASSUME PlanInv, SnugInv, Begin PROVE SnugInv'
  OBVIOUS
<1>1. /\ table' = table /\ planned' = planned /\ chunks' = chunks /\ groups' = groups
      /\ pc = "begin" /\ AtList /\ pc' \in {"listed", "outer"}
      /\ chunks \in Seq(Chunk)
  BY DEF Begin, AtList, PlanInv, PlannerTypeOK
<1>2. ASSUME pc' = "outer" PROVE Snug(table.limit, chunks, compute')
  <2>1. chunks # <<>> /\ compute' = [members |-> Append(<<>>, 1), size |-> 0 + chunks[1].size]
    BY <1>2 DEF Begin, With, NoGroup
  <2>2. 1 \in Positions(chunks)
    BY <1>1, <2>1 DEF Positions
  <2>3. QED
    BY <1>1, <2>1, <2>2, SingleSnug
<1>3. QED
  BY <1>1, <1>2 DEF SnugInv, Started

LEMMA StartKeepsSnug == SnugInv /\ StartPrefetchGroup => SnugInv'
<1> SUFFICES ASSUME SnugInv, StartPrefetchGroup PROVE SnugInv'
  OBVIOUS
<1>1. /\ table' = table /\ planned' = planned /\ chunks' = chunks /\ groups' = groups
      /\ compute' = compute /\ prefetch'.members = <<>>
      /\ pc = "outer" /\ pc' = "inner" /\ AtList /\ Started
  BY DEF StartPrefetchGroup, AtList, Started, NoGroup
<1>2. QED
  BY <1>1 DEF SnugInv

LEMMA IncludeKeepsSnug == PlanInv /\ SnugInv /\ IncludeCandidate => SnugInv'
<1> SUFFICES ASSUME PlanInv, SnugInv, IncludeCandidate PROVE SnugInv'
  OBVIOUS
<1>1. /\ table' = table /\ planned' = planned /\ chunks' = chunks /\ groups' = groups
      /\ compute' = compute /\ pc = "inner" /\ pc' = "inner" /\ AtList /\ Started
      /\ prefetch' = [members |-> Append(prefetch.members, index),
                      size |-> prefetch.size + chunks[index].size]
      /\ compute.size + prefetch.size + chunks[index].size + NextSize(index) <= table.limit
      /\ index <= Len(chunks)
  BY DEF IncludeCandidate, AtList, Started, MoreChunks, With, Reserved
<1>2. /\ chunks \in Seq(Chunk) /\ index \in Nat \ {0} /\ Len(chunks) \in Nat
      /\ table.limit \in Nat /\ compute.size \in Nat /\ prefetch.size \in Nat
      /\ PrefetchInv
  BY <1>1 DEF PlanInv, PlannerTypeOK, Table, Group
<1>3. index \in Positions(chunks) /\ chunks[index].size \in Nat
  BY <1>1, <1>2, ChunkFields DEF Positions
<1>4. NextSize(index) \in Nat
  <2>1. index + 1 <= Len(chunks) => chunks[index + 1].size \in Nat
    BY <1>2, ChunkFields DEF Positions
  <2>2. QED
    BY <2>1 DEF NextSize
<1>5. prefetch.size + chunks[index].size <= table.limit
  BY <1>1, <1>2, <1>3, <1>4
<1>6. Snug(table.limit, chunks, prefetch')
  <2>1. CASE prefetch.members = <<>>
    <3>1. prefetch' = [members |-> Append(<<>>, index), size |-> 0 + chunks[index].size]
      BY <1>1, <1>2, <2>1 DEF PrefetchInv, NoGroup
    <3>2. QED
      BY <1>2, <1>3, <3>1, SingleSnug
  <2>2. CASE prefetch.members # <<>>
    <3>1. /\ Run(chunks, prefetch) /\ Snug(table.limit, chunks, prefetch)
      BY <1>1, <1>2, <2>2 DEF PrefetchInv, SnugInv
    <3>2. chunks[index].at = chunks[Last(prefetch)].at + chunks[Last(prefetch)].len
      BY <2>2 DEF IncludeCandidate, Contiguous, EndsAt
    <3>3. prefetch'.size <= table.limit
      BY <1>1, <1>5
    <3>4. QED
      BY ONLY <1>1, <1>2, <1>3, <3>1, <3>2, <3>3, ExtendedSnug
  <2>3. QED
    BY <2>1, <2>2
<1>7. QED
  BY <1>1, <1>6 DEF SnugInv

(* The three steps that commit the compute group.                          *)
LEMMA CommitKeepsSnug ==
  PlanInv /\ SnugInv /\ (CommitComputeGroup \/ ForceGroup \/ CommitLastGroup) => SnugInv'
<1> SUFFICES ASSUME PlanInv, SnugInv, CommitComputeGroup \/ ForceGroup \/ CommitLastGroup
             PROVE  SnugInv'
  OBVIOUS
<1>1. /\ table' = table /\ planned' = planned /\ chunks' = chunks
      /\ pc \in {"outer", "inner"} /\ AtList /\ Started /\ pc' \in {"outer", "listed"}
  BY DEF CommitComputeGroup, ForceGroup, CommitLastGroup, AtList, Started
<1>2. /\ chunks \in Seq(Chunk) /\ groups \in Seq(Group) /\ compute \in Group
      /\ index \in Nat \ {0} /\ Len(chunks) \in Nat
      /\ Snug(table.limit, chunks, compute) /\ AllSnug(table.limit, chunks, groups)
  BY <1>1 DEF PlanInv, PlannerTypeOK, SnugInv
<1>3. groups' \in {groups, Append(groups, compute)}
  BY DEF CommitComputeGroup, ForceGroup, CommitLastGroup
<1>4. AllSnug(table.limit, chunks, groups')
  BY <1>2, <1>3, SnugAppended
<1>5. ASSUME pc' = "outer" PROVE Snug(table.limit, chunks, compute')
  <2>1. CASE CommitComputeGroup
    BY <2>1 DEF CommitComputeGroup, SnugInv
  <2>2. CASE ForceGroup
    <3>1. MoreChunks
      BY <2>2 DEF ForceGroup, PlanInv, PrefetchInv
    <3>2. compute' = [members |-> Append(<<>>, index), size |-> 0 + chunks[index].size]
      BY <2>2, <3>1 DEF ForceGroup, With, NoGroup
    <3>3. index \in Positions(chunks)
      BY <1>2, <3>1 DEF MoreChunks, Positions
    <3>4. QED
      BY <1>2, <3>2, <3>3, SingleSnug
  <2>3. CASE CommitLastGroup
    BY <1>5, <2>3 DEF CommitLastGroup
  <2>4. QED
    BY <2>1, <2>2, <2>3
<1>6. QED
  BY <1>1, <1>4, <1>5 DEF SnugInv, Started

LEMMA PlannerStepKeepsSnug == PlanInv /\ SnugInv /\ PlannerStep => SnugInv'
<1> SUFFICES ASSUME PlanInv, SnugInv, PlannerStep PROVE SnugInv'
  OBVIOUS
<1>1. CASE RejectTable \/ AcceptTable \/ SimpleStrategy \/ SavePlan
  <2>1. /\ UNCHANGED <<table, planned>> /\ pc' \notin {"begin", "outer", "inner", "listed"}
    BY <1>1 DEF RejectTable, AcceptTable, SimpleStrategy, SavePlan
  <2>2. QED
    BY <2>1, JudgeKeepsSnug
<1>2. QED
  BY <1>1, NextModeKeepsSnug, SimpleKeepsSnug, AddKeepsSnug, BeginKeepsSnug, StartKeepsSnug,
     IncludeKeepsSnug, CommitKeepsSnug DEF PlannerStep

-----------------------------------------------------------------------------

(* The file that the planner writes, and the buffer it asks for.           *)

(* The entries that the plan file has for a mode are the chunks of the     *)
(* table in their order.                                                   *)
LEMMA EntriesAreTheList ==
  ASSUME PlanInv, NEW m \in DOMAIN planned
  PROVE  /\ Entries(m) = table.lists[m] /\ m \in DOMAIN table.lists
         /\ table.lists[m] \in Seq(Chunk) /\ table.limit \in Nat
<1> DEFINE plan == planned[m]
           list == table.lists[m]
           upTo == CHOOSE f : MembersUpTo(plan, f)
<1>1. /\ Chain(table.limit, list, plan)
      /\ IF plan # <<>> THEN Last(plan[Len(plan)]) = Len(list) ELSE list = <<>>
      /\ plan \in Seq(Group)
  BY PlannedMode
<1>2. m \in DOMAIN table.lists /\ list \in Seq(Chunk) /\ table.limit \in Nat
  <2>1. /\ planned \in Seq(Seq(Group)) /\ table.lists \in Seq(Seq(Chunk))
        /\ Len(planned) <= Len(table.lists) /\ table.limit \in Nat
    BY DEF PlanInv, PlannerTypeOK, ModesInv, Table
  <2>2. m \in 1 .. Len(table.lists)
    BY <2>1
  <2>3. QED
    BY <2>1, <2>2
<1>3. MembersUpTo(plan, upTo) /\ upTo[Len(plan)] = UpTo(EndOf(plan, Len(plan)))
  <2>1. \E f : MembersUpTo(plan, f)
    BY <1>1, MembersAreIntervals
  <2>2. MembersUpTo(plan, upTo)
    BY <2>1
  <2>3. QED
    BY <1>1, <2>2, MembersAreIntervals
<1>4. EndOf(plan, Len(plan)) = Len(list)
  <2>1. CASE plan = <<>>
    BY <1>1, <2>1 DEF EndOf
  <2>2. CASE plan # <<>>
    <3>1. Len(plan) # 0
      BY <1>1, <2>2
    <3>2. QED
      BY <1>1, <2>2, <3>1 DEF EndOf
  <2>3. QED
    BY <2>1, <2>2
<1>5. Entries(m) = [i \in DOMAIN upTo[Len(plan)] |-> list[upTo[Len(plan)][i]]]
  BY DEF Entries, MembersUpTo
<1>6. upTo[Len(plan)] = UpTo(Len(list))
  BY <1>3, <1>4
<1> HIDE DEF upTo
<1>7. Entries(m) = [i \in 1 .. Len(list) |-> list[i]]
  <2>1. DOMAIN UpTo(Len(list)) = 1 .. Len(list) /\ \A i \in 1 .. Len(list) : UpTo(Len(list))[i] = i
    BY DEF UpTo
  <2>2. QED
    BY <1>5, <1>6, <2>1
<1>8. list = [i \in 1 .. Len(list) |-> list[i]]
  BY <1>2
<1>9. QED
  BY <1>2, <1>7, <1>8

(* What the plan and the form of the table say of a group.                 *)
LEMMA PlannedGroup ==
  ASSUME PlanInv, SnugInv, NEW m \in DOMAIN planned, NEW k \in DOMAIN planned[m]
  PROVE  /\ Run(table.lists[m], planned[m][k]) /\ Snug(table.limit, table.lists[m], planned[m][k])
         /\ planned[m][k] \in Group /\ planned[m][k].size \in Nat
         /\ k \in 1 .. Len(planned[m])
         /\ InRecordedForm(table) => SizedList(table.lists[m])
<1>1. planned \in Seq(Seq(Group)) /\ m \in 1 .. Len(planned) /\ k \in 1 .. Len(planned[m])
  BY DEF PlanInv, PlannerTypeOK
<1>2. Run(table.lists[m], planned[m][k])
  BY <1>1, PlannedMode DEF Chain
<1>3. Snug(table.limit, table.lists[m], planned[m][k])
  BY <1>1 DEF SnugInv, AllSnug
<1>4. InRecordedForm(table) => SizedList(table.lists[m])
  <2>1. m \in DOMAIN table.lists /\ table.lists[m] \in Seq(Chunk)
    BY EntriesAreTheList
  <2>2. QED
    BY <2>1 DEF InRecordedForm, SizedList, Positions
<1>5. QED
  BY <1>1, <1>2, <1>3, <1>4 DEF Run, Group

LEMMA Within ==
  ASSUME NEW a \in Nat, NEW b \in Nat, NEW s \in Nat, NEW g \in Nat, a + s <= b + g, s <= g,
         NEW d, d = IF a >= b THEN a - b ELSE 0
  PROVE  d + s \in Nat /\ d + s <= g
OBVIOUS

(* A group of a recorded table reaches no further than the sum that the    *)
(* planner has of it, so the correction of BuildModeChunkPlan is idle.     *)
LEMMA TotalIsSize ==
  ASSUME PlanInv, SnugInv, InRecordedForm(table),
         NEW m \in DOMAIN planned, NEW k \in DOMAIN planned[m]
  PROVE  TotalAlignedSize(m, k) = planned[m][k].size /\ planned[m][k].size \in Nat
<1> DEFINE list == table.lists[m]
           g == planned[m][k]
           Reach(j) == RelativeOffset(m, k, j) + Member(m, k, j).size
           all == {g.size} \cup {Reach(j) : j \in DOMAIN g.members}
<1>1. /\ Run(list, g) /\ Snug(table.limit, list, g) /\ SizedList(list)
      /\ g.size \in Nat /\ list \in Seq(Chunk)
  BY PlannedGroup, EntriesAreTheList
<1>2. /\ g.members \in Seq(Nat \ {0}) /\ DOMAIN g.members = 1 .. Len(g.members)
      /\ 1 \in 1 .. Len(g.members)
      /\ \A j \in 1 .. Len(g.members) : g.members[j] \in Positions(list)
  BY <1>1 DEF Run, Group
<1>3. ASSUME NEW j \in DOMAIN g.members PROVE Reach(j) \in Nat /\ Reach(j) <= g.size
  <2> DEFINE c == list[g.members[j]]
             f == list[g.members[1]]
  <2>1. j \in 1 .. Len(g.members)
    BY <1>2
  <2>2. c.size <= g.size /\ SectorOf(c.at) + c.size <= SectorOf(f.at) + g.size
    BY <1>1, <2>1 DEF Snug
  <2>3. c \in Chunk /\ f \in Chunk
    BY <1>1, <1>2, <2>1 DEF Positions
  <2>4. SectorOf(c.at) \in Nat /\ SectorOf(f.at) \in Nat /\ c.size \in Nat
    BY <2>3, SectorsCover DEF Chunk
  <2>5. Member(m, k, j) = c /\ Member(m, k, 1) = f
    BY DEF Member
  <2>6. RelativeOffset(m, k, j)
          = IF SectorOf(c.at) >= SectorOf(f.at) THEN SectorOf(c.at) - SectorOf(f.at) ELSE 0
    BY <2>5 DEF RelativeOffset
  <2> HIDE DEF c, f
  <2>7. RelativeOffset(m, k, j) + c.size \in Nat /\ RelativeOffset(m, k, j) + c.size <= g.size
    BY <1>1, <2>2, <2>4, <2>6, Within
  <2>8. QED
    BY <2>5, <2>7
<1>4. TotalAlignedSize(m, k) = Max(all)
  BY DEF TotalAlignedSize
<1> HIDE DEF Reach, g
<1>5. all \in SUBSET Nat /\ g.size \in all /\ \A x \in all : x <= g.size
  BY <1>1, <1>3
<1> HIDE DEF all
<1>6. Max(all) = g.size
  BY <1>5, MaxIs
<1>7. QED
  BY <1>1, <1>4, <1>6 DEF g

-----------------------------------------------------------------------------

(* The sizes that DerivedSize is the greatest of.                          *)
Sizes(seq) == {seq[i].size : i \in DOMAIN seq}
Pairs(list) == {list[i].size + list[i + 1].size : i \in 1 .. Len(list) - 1}
Required ==
  {table.limit}
    \cup (UNION {Sizes(Entries(m)) : m \in DOMAIN planned})
    \cup (UNION {Pairs(Entries(m)) : m \in DOMAIN planned})
    \cup (UNION {Sizes(planned[m]) : m \in DOMAIN planned})

LEMMA DerivedIsMax == DerivedSize = Max(Required)
  BY DEF DerivedSize, Required, Sizes, Pairs

LEMMA SizesFinite ==
  ASSUME NEW n \in Nat, NEW seq, DOMAIN seq = 1 .. n
  PROVE  IsFiniteSet(Sizes(seq))
<1> DEFINE f == [i \in 1 .. n |-> seq[i].size]
<1>1. IsFiniteSet(Range(f))
  BY FiniteRange
<1>2. Sizes(seq) = Range(f)
  BY DEF Sizes, Range
<1>3. QED
  BY <1>1, <1>2

LEMMA PairsFinite ==
  ASSUME NEW list \in Seq(Chunk)
  PROVE  IsFiniteSet(Pairs(list))
<1>1. CASE list = <<>>
  <2>1. Pairs(list) = {}
    BY <1>1 DEF Pairs
  <2>2. QED
    BY <2>1, FS_EmptySet
<1>2. CASE list # <<>>
  <2> DEFINE f == [i \in 1 .. Len(list) - 1 |-> list[i].size + list[i + 1].size]
  <2>1. Len(list) - 1 \in Nat
    BY <1>2
  <2>2. IsFiniteSet(Range(f))
    BY <2>1, FiniteRange
  <2>3. Pairs(list) = Range(f)
    BY DEF Pairs, Range
  <2>4. QED
    BY <2>2, <2>3
<1>3. QED
  BY <1>1, <1>2

(* A union over the modes is finite if every mode's set is.                *)
LEMMA FiniteUnion ==
  ASSUME NEW n \in Nat, NEW f, DOMAIN f = 1 .. n, \A m \in 1 .. n : IsFiniteSet(f[m])
  PROVE  IsFiniteSet(UNION {f[m] : m \in 1 .. n})
<1>1. IsFiniteSet(Range(f))
  BY FiniteRange
<1>2. \A T \in Range(f) : IsFiniteSet(T)
  BY DEF Range
<1>3. Range(f) = {f[m] : m \in 1 .. n}
  BY DEF Range
<1>4. QED
  BY <1>1, <1>2, <1>3, FS_UNION

(* Every size that is required is a number, and there are finitely many.   *)
LEMMA RequiredSizes ==
  ASSUME PlanInv
  PROVE  IsFiniteSet(Required) /\ Required \in SUBSET Nat /\ table.limit \in Required
<1> DEFINE n == Len(planned)
<1>1. planned \in Seq(Seq(Group)) /\ n \in Nat /\ DOMAIN planned = 1 .. n
  BY DEF PlanInv, PlannerTypeOK
<1>2. table \in Table /\ table.limit \in Nat
  BY DEF PlanInv, PlannerTypeOK, Table
<1>3. \A m \in 1 .. n : Entries(m) \in Seq(Chunk) /\ planned[m] \in Seq(Group)
  <2> SUFFICES ASSUME NEW m \in 1 .. n
               PROVE  Entries(m) \in Seq(Chunk) /\ planned[m] \in Seq(Group)
    OBVIOUS
  <2>1. m \in DOMAIN planned
    BY <1>1
  <2>2. planned[m] \in Seq(Group)
    BY <1>1
  <2>3. QED
    BY <2>1, <2>2, EntriesAreTheList
<1> HIDE DEF n
<1>4. \A m \in 1 .. n : /\ IsFiniteSet(Sizes(Entries(m))) /\ IsFiniteSet(Pairs(Entries(m)))
                        /\ IsFiniteSet(Sizes(planned[m]))
  <2> SUFFICES ASSUME NEW m \in 1 .. n
               PROVE  /\ IsFiniteSet(Sizes(Entries(m))) /\ IsFiniteSet(Pairs(Entries(m)))
                      /\ IsFiniteSet(Sizes(planned[m]))
    OBVIOUS
  <2>1. Entries(m) \in Seq(Chunk) /\ planned[m] \in Seq(Group)
    BY <1>3
  <2>2. /\ Len(Entries(m)) \in Nat /\ DOMAIN Entries(m) = 1 .. Len(Entries(m))
        /\ Len(planned[m]) \in Nat /\ DOMAIN planned[m] = 1 .. Len(planned[m])
    BY <2>1
  <2>3. QED
    BY <2>1, <2>2, SizesFinite, PairsFinite
<1> DEFINE a == [m \in 1 .. n |-> Sizes(Entries(m))]
           b == [m \in 1 .. n |-> Pairs(Entries(m))]
           c == [m \in 1 .. n |-> Sizes(planned[m])]
<1>5. /\ IsFiniteSet(UNION {a[m] : m \in 1 .. n}) /\ IsFiniteSet(UNION {b[m] : m \in 1 .. n})
      /\ IsFiniteSet(UNION {c[m] : m \in 1 .. n})
  <2>1. IsFiniteSet(UNION {a[m] : m \in 1 .. n})
    <3>1. DOMAIN a = 1 .. n /\ \A m \in 1 .. n : IsFiniteSet(a[m])
      BY <1>4
    <3> HIDE DEF a
    <3>2. QED
      BY <1>1, <3>1, FiniteUnion
  <2>2. IsFiniteSet(UNION {b[m] : m \in 1 .. n})
    <3>1. DOMAIN b = 1 .. n /\ \A m \in 1 .. n : IsFiniteSet(b[m])
      BY <1>4
    <3> HIDE DEF b
    <3>2. QED
      BY <1>1, <3>1, FiniteUnion
  <2>3. IsFiniteSet(UNION {c[m] : m \in 1 .. n})
    <3>1. DOMAIN c = 1 .. n /\ \A m \in 1 .. n : IsFiniteSet(c[m])
      BY <1>4
    <3> HIDE DEF c
    <3>2. QED
      BY <1>1, <3>1, FiniteUnion
  <2>4. QED
    BY <2>1, <2>2, <2>3
<1>6. Required = {table.limit} \cup (UNION {a[m] : m \in 1 .. n})
                   \cup (UNION {b[m] : m \in 1 .. n}) \cup (UNION {c[m] : m \in 1 .. n})
  <2>1. /\ {a[m] : m \in 1 .. n} = {Sizes(Entries(m)) : m \in DOMAIN planned}
        /\ {b[m] : m \in 1 .. n} = {Pairs(Entries(m)) : m \in DOMAIN planned}
        /\ {c[m] : m \in 1 .. n} = {Sizes(planned[m]) : m \in DOMAIN planned}
    BY <1>1
  <2> HIDE DEF a, b, c
  <2>2. QED
    BY <2>1 DEF Required
<1>7. IsFiniteSet(Required)
  <2> HIDE DEF a, b, c
  <2>1. IsFiniteSet({table.limit})
    BY FS_Singleton
  <2>2. QED
    BY <1>5, <1>6, <2>1, FS_Union
<1>8. ASSUME NEW m \in 1 .. n
      PROVE  /\ Sizes(Entries(m)) \subseteq Nat /\ Pairs(Entries(m)) \subseteq Nat
             /\ Sizes(planned[m]) \subseteq Nat
  <2>1. Entries(m) \in Seq(Chunk) /\ planned[m] \in Seq(Group)
    BY <1>3
  <2>2. /\ \A i \in 1 .. Len(Entries(m)) : Entries(m)[i].size \in Nat
        /\ \A i \in 1 .. Len(planned[m]) : planned[m][i].size \in Nat
        /\ Len(Entries(m)) \in Nat /\ DOMAIN Entries(m) = 1 .. Len(Entries(m))
        /\ DOMAIN planned[m] = 1 .. Len(planned[m])
    <3>1. \A s \in Seq(Chunk) : /\ \A i \in 1 .. Len(s) : s[i].size \in Nat
                                /\ Len(s) \in Nat /\ DOMAIN s = 1 .. Len(s)
      <4> SUFFICES ASSUME NEW s \in Seq(Chunk)
                   PROVE  /\ \A i \in 1 .. Len(s) : s[i].size \in Nat
                          /\ Len(s) \in Nat /\ DOMAIN s = 1 .. Len(s)
        OBVIOUS
      <4>1. /\ \A i \in 1 .. Len(s) : s[i] \in Chunk
            /\ Len(s) \in Nat /\ DOMAIN s = 1 .. Len(s)
        OBVIOUS
      <4>2. QED
        BY <4>1 DEF Chunk
    <3>2. \A s \in Seq(Group) : /\ \A i \in 1 .. Len(s) : s[i].size \in Nat
                                /\ DOMAIN s = 1 .. Len(s)
      <4> SUFFICES ASSUME NEW s \in Seq(Group)
                   PROVE  (\A i \in 1 .. Len(s) : s[i].size \in Nat) /\ DOMAIN s = 1 .. Len(s)
        OBVIOUS
      <4>1. (\A i \in 1 .. Len(s) : s[i] \in Group) /\ DOMAIN s = 1 .. Len(s)
        OBVIOUS
      <4>2. QED
        BY <4>1 DEF Group
    <3>3. QED
      BY <2>1, <3>1, <3>2
  <2>3. \A i \in 1 .. Len(Entries(m)) - 1 : i \in 1 .. Len(Entries(m)) /\ i + 1 \in 1 .. Len(Entries(m))
    BY <2>2
  <2>4. QED
    BY <2>2, <2>3 DEF Sizes, Pairs
<1>9. Required \in SUBSET Nat
  BY <1>1, <1>2, <1>8 DEF Required
<1>10. QED
  BY <1>7, <1>9 DEF Required

(* The derived size is at least each size that is required, and is one.    *)
LEMMA DerivedHoldsAll ==
  ASSUME PlanInv
  PROVE  DerivedSize \in Nat /\ DerivedSize \in Required /\ \A x \in Required : x <= DerivedSize
<1>1. Max(Required) \in Required /\ \A x \in Required : x <= Max(Required)
  BY RequiredSizes, MaxIsGreatest
<1>2. QED
  BY <1>1, RequiredSizes, DerivedIsMax

(* The chunk of a place has its number, and whoever else has the number or *)
(* the offset is that chunk.                                               *)
LEMMA PlacesInForm ==
  ASSUME PlanInv, InRecordedForm(table),
         NEW m \in DOMAIN planned, NEW i \in DOMAIN table.lists[m], NEW n \in DOMAIN planned
  PROVE  /\ i \in Nat \ {0}
         /\ \A p \in DOMAIN Entries(m) : Entries(m)[p].at = table.lists[m][i].at <=> p = i
         /\ \A p \in DOMAIN Entries(n) : Entries(n)[p].index = i - 1 <=> p = i
         /\ \A p \in DOMAIN Entries(n) : p = i => Entries(n)[p] = table.lists[m][i]
<1>1. /\ Entries(m) = table.lists[m] /\ m \in DOMAIN table.lists
      /\ Entries(n) = table.lists[n] /\ n \in DOMAIN table.lists
      /\ table.lists[m] \in Seq(Chunk) /\ table.lists[n] \in Seq(Chunk)
  BY EntriesAreTheList
<1>2. i \in Nat \ {0} /\ \A p \in DOMAIN table.lists[n] : p \in Nat
  BY <1>1
<1>3. \A p \in DOMAIN table.lists[n] :
        table.lists[n][p].index = p - 1 /\ (p = i => table.lists[n][p] = table.lists[m][i])
  BY <1>1 DEF InRecordedForm
<1>4. \A p \in DOMAIN table.lists[m] : table.lists[m][p].at = table.lists[m][i].at <=> p = i
  BY <1>1 DEF InRecordedForm
<1>5. ASSUME NEW p \in DOMAIN table.lists[n] PROVE table.lists[n][p].index = i - 1 <=> p = i
  <2>1. table.lists[n][p].index = p - 1 /\ p \in Nat
    BY <1>2, <1>3
  <2>2. p - 1 = i - 1 <=> p = i
    BY ONLY <1>2, <2>1
  <2>3. QED
    BY <2>1, <2>2
<1>6. QED
  BY <1>1, <1>2, <1>3, <1>4, <1>5

LEMMA PositionsKnown ==
  ASSUME PlanInv, NEW m \in DOMAIN planned
  PROVE  DOMAIN Entries(m) \subseteq Nat /\ DOMAIN Entries(m) = DOMAIN table.lists[m]
<1>1. Entries(m) = table.lists[m] /\ table.lists[m] \in Seq(Chunk)
  BY EntriesAreTheList
<1>2. QED
  BY <1>1

(* What LookupFindsOwnChunk says of one place.                             *)
LEMMA LookupIsRight ==
  ASSUME PlanInv, InRecordedForm(table),
         NEW m \in DOMAIN planned, NEW i \in DOMAIN table.lists[m]
  PROVE  LookupChunkInfoByOffset(m, table.lists[m][i].at) = {table.lists[m][i]}
<1> DEFINE chunk == table.lists[m][i]
           modes == {n \in DOMAIN planned : Holders(n, i - 1) # {}}
<1>1. /\ i \in Nat \ {0} /\ DOMAIN Entries(m) = DOMAIN table.lists[m]
      /\ \A p \in DOMAIN Entries(m) : Entries(m)[p].at = chunk.at <=> p = i
  BY PlacesInForm, PositionsKnown
<1>2. {p \in DOMAIN Entries(m) : Entries(m)[p].at = chunk.at} = {i}
  BY <1>1
<1>3. Min({i}) = i
  <2>1. {i} \in SUBSET Nat /\ {i} # {}
    BY <1>1
  <2>2. Min({i}) \in {i}
    BY <2>1, MinIsLeast
  <2>3. QED
    BY <2>2
<1>4. \A n \in DOMAIN planned :
        Holders(n, i - 1) # {} => Holders(n, i - 1) = {i} /\ Entries(n)[i] = chunk
  <2> SUFFICES ASSUME NEW n \in DOMAIN planned, Holders(n, i - 1) # {}
               PROVE  Holders(n, i - 1) = {i} /\ Entries(n)[i] = chunk
    OBVIOUS
  <2>1. /\ \A p \in DOMAIN Entries(n) : Entries(n)[p].index = i - 1 <=> p = i
        /\ \A p \in DOMAIN Entries(n) : p = i => Entries(n)[p] = chunk
    BY PlacesInForm
  <2>2. Holders(n, i - 1) = {p \in DOMAIN Entries(n) : p = i}
    BY <2>1 DEF Holders
  <2>3. QED
    BY <2>1, <2>2
<1>5. Min(modes) \in modes
  <2>1. m \in modes
    <3>1. i \in Holders(m, i - 1)
      BY <1>1, PlacesInForm DEF Holders
    <3>2. QED
      BY <3>1
  <2>2. modes \in SUBSET Nat
    <3>1. planned \in Seq(Seq(Group))
      BY DEF PlanInv, PlannerTypeOK
    <3>2. DOMAIN planned \subseteq Nat
      BY <3>1
    <3>3. QED
      BY <3>2
  <2> HIDE DEF modes
  <2>3. QED
    BY <2>1, <2>2, MinIsLeast
<1>6. /\ modes # {} /\ Holders(Min(modes), i - 1) = {i}
      /\ Entries(Min(modes))[i] = chunk
  BY <1>4, <1>5
<1>7. IndexToChunks(i - 1) = {chunk}
  <2>1. IndexToChunks(i - 1)
          = IF modes = {} THEN {} ELSE {Entries(Min(modes))[Min(Holders(Min(modes), i - 1))]}
    BY DEF IndexToChunks
  <2> HIDE DEF modes, chunk
  <2>2. QED
    BY <1>3, <1>6, <2>1
<1>8. LookupChunkInfoByOffset(m, chunk.at) = IndexToChunks(Min({i}) - 1)
  BY <1>2 DEF LookupChunkInfoByOffset
<1>9. QED
  BY <1>3, <1>7, <1>8

(* Without a correction: every group is within the limit or within a chunk.*)
LEMMA RecordedSizeIsDerived ==
  ASSUME RecordingInv, PlanInv, SnugInv, table = RecordedTable
  PROVE  DerivedSize = bufferSize
<1>1. table.limit = bufferSize /\ bufferSize \in Nat /\ planned \in Seq(Seq(Group))
  BY RecordedLists DEF RecordingInv, RecordingTypeOK, PlanInv, PlannerTypeOK
<1>2. \A m \in DOMAIN planned : SizeHolds(bufferSize, table.lists[m])
  <2> SUFFICES ASSUME NEW m \in DOMAIN planned PROVE SizeHolds(bufferSize, table.lists[m])
    OBVIOUS
  <2>1. m \in DOMAIN table.lists
    BY EntriesAreTheList
  <2>2. PICK mo \in Modes : table.lists[m] = written[mo]
    BY <2>1, RecordedLists
  <2>3. QED
    BY <2>2 DEF RecordingInv
<1>3. ASSUME NEW m \in DOMAIN planned
      PROVE  /\ \A x \in Sizes(Entries(m)) : x <= bufferSize
             /\ \A x \in Pairs(Entries(m)) : x <= bufferSize
             /\ \A x \in Sizes(planned[m]) : x <= bufferSize
  <2>1. /\ Entries(m) = table.lists[m] /\ table.lists[m] \in Seq(Chunk)
        /\ DOMAIN table.lists[m] = 1 .. Len(table.lists[m])
    BY EntriesAreTheList
  <2>2. SizeHolds(bufferSize, table.lists[m])
    BY <1>2
  <2>3. ASSUME NEW k \in DOMAIN planned[m] PROVE planned[m][k].size <= bufferSize
    <3>1. /\ Snug(table.limit, table.lists[m], planned[m][k]) /\ planned[m][k].size \in Nat
      BY PlannedGroup
    <3>2. CASE planned[m][k].size <= table.limit
      BY <1>1, <3>2
    <3>3. CASE \E i \in Positions(table.lists[m]) : planned[m][k].size <= table.lists[m][i].size
      <4>1. PICK i \in Positions(table.lists[m]) : planned[m][k].size <= table.lists[m][i].size
        BY <3>3
      <4>2. table.lists[m][i].size <= bufferSize /\ table.lists[m][i].size \in Nat
        BY <2>1, <2>2, ChunkFields DEF SizeHolds, Positions
      <4>3. QED
        BY ONLY <1>1, <3>1, <4>1, <4>2
    <3>4. QED
      BY <3>1, <3>2, <3>3 DEF Snug
  <2>4. QED
    BY <2>1, <2>2, <2>3 DEF SizeHolds, Sizes, Pairs
<1>4. \A x \in Required : x <= bufferSize
  BY <1>1, <1>3 DEF Required
<1>5. Required \in SUBSET Nat /\ bufferSize \in Required
  BY <1>1, RequiredSizes
<1>6. Max(Required) = bufferSize
  BY <1>4, <1>5, MaxIs
<1>7. QED
  BY <1>6, DerivedIsMax

(* Every planned group, and any two neighbours together.                   *)
LEMMA DerivedHoldsGroups ==
  ASSUME PlanInv, NEW m \in DOMAIN planned
  PROVE  /\ \A k \in DOMAIN planned[m] : planned[m][k].size <= DerivedSize
         /\ \A k \in 1 .. Len(planned[m]) - 1 :
              planned[m][k].size + planned[m][k + 1].size <= DerivedSize
<1>1. ASSUME NEW k \in DOMAIN planned[m] PROVE planned[m][k].size <= DerivedSize
  <2>1. planned[m][k].size \in Required
    BY DEF Required, Sizes
  <2>2. QED
    BY <2>1, DerivedHoldsAll
<1>2. ASSUME NEW k \in 1 .. Len(planned[m]) - 1
      PROVE  planned[m][k].size + planned[m][k + 1].size <= DerivedSize
  <2> DEFINE list == table.lists[m]
             both == planned[m][k].size + planned[m][k + 1].size
  <2>1. Fits(table.limit, list, both)
    BY PlannedMode DEF Chain, Follows
  <2>2. Entries(m) = list /\ list \in Seq(Chunk) /\ table.limit \in Nat
    BY EntriesAreTheList
  <2>3. both \in Nat
    <3>1. planned[m] \in Seq(Group)
      BY PlannedMode
    <3>2. k \in 1 .. Len(planned[m]) /\ k + 1 \in 1 .. Len(planned[m])
      BY <3>1
    <3>3. planned[m][k] \in Group /\ planned[m][k + 1] \in Group
      BY <3>1, <3>2
    <3>4. QED
      BY <3>3 DEF Group
  <2> HIDE DEF both
  <2>4. \E x \in Required : both <= x
    <3>1. CASE both <= table.limit
      BY <3>1, RequiredSizes
    <3>2. CASE \E i \in 1 .. Len(list) - 1 : both <= list[i].size + list[i + 1].size
      <4>1. PICK i \in 1 .. Len(list) - 1 : both <= list[i].size + list[i + 1].size
        BY <3>2
      <4>2. list[i].size + list[i + 1].size \in Pairs(Entries(m))
        BY <2>2 DEF Pairs
      <4>3. list[i].size + list[i + 1].size \in Required
        BY <4>2 DEF Required
      <4>4. QED
        BY <4>1, <4>3
    <3>3. QED
      BY <2>1, <3>1, <3>2 DEF Fits
  <2>5. PICK x \in Required : both <= x
    BY <2>4
  <2>6. x <= DerivedSize /\ x \in Nat /\ DerivedSize \in Nat
    BY DerivedHoldsAll, RequiredSizes
  <2>7. both <= DerivedSize
    BY <2>3, <2>5, <2>6
  <2>8. QED
    BY <2>7 DEF both
<1>3. QED
  BY <1>1, <1>2

-----------------------------------------------------------------------------

(* The programs one after the other.                                       *)

(* The table that is being planned, or has been, is the one that was       *)
(* recorded, or there was no recording and it came from elsewhere.         *)
HandedOver ==
  pc # "idle" => \/ stage = "written" /\ table = RecordedTable
                 \/ stage = "idle" /\ table \in Tables

(* The buffer that the planned file is loaded into holds any two groups    *)
(* that follow each other.                                                 *)
NeighboursHeld ==
  pc = "done" /\ capacity > 0 =>
    \A m \in DOMAIN planned : \A k \in 1 .. Len(planned[m]) - 1 :
      planned[m][k].size + planned[m][k + 1].size <= capacity

(* The inductive invariant of the pipeline: those of the recorder and of   *)
(* the planner, what the one hands to the other, and that no buffer is     *)
(* there before the planned file is loaded, unless another one was.        *)
PipelineInv ==
  /\ RecordingInv /\ PlanInv /\ SnugInv
  /\ HandedOver /\ NeighboursHeld
  /\ capacity \in Nat
  /\ pc \notin {"idle", "done"} => loaded = NoPlan
  /\ pc # "done" /\ loaded = NoPlan => capacity = 0

LEMMA InitPipeline == PipelineInit => PipelineInv
<1> SUFFICES ASSUME PipelineInit PROVE PipelineInv
  OBVIOUS
<1>1. RecordingInv /\ PlanInv /\ SnugInv
  BY InitRecording, InitPlan, InitSnug DEF PipelineInit
<1>2. pc = "idle" /\ capacity = 0
  BY DEF PipelineInit, Init, PlannerInit
<1>3. QED
  BY <1>1, <1>2 DEF PipelineInv, HandedOver, NeighboursHeld

LEMMA RecordingKept == RecordingInv /\ (RecordingNext \/ UNCHANGED recordVars) => RecordingInv'
  BY StartKeepsRecording, AddressKeepsRecording, TurnKeepsRecording, FinalizeKeepsRecording,
     UseKeepsRecording DEF RecordingNext, RecordingStep

(* The recorder and the planner stand still while the generator runs.      *)
LEMMA PartsStandStill ==
  ASSUME PipelineInv, UNCHANGED <<recordVars, planVars>>
  PROVE  /\ RecordingInv' /\ PlanInv' /\ SnugInv' /\ HandedOver'
         /\ pc' = pc /\ planned' = planned /\ table' = table /\ stage' = stage
<1>1. UNCHANGED recordVars /\ UNCHANGED planVars
  OBVIOUS
<1>2. RecordingInv' /\ PlanInv' /\ SnugInv'
  BY <1>1, RecordingKept, StandingStillKeepsPlan, UnchangedKeepsSnug DEF PipelineInv
<1>3. /\ pc' = pc /\ planned' = planned /\ table' = table /\ stage' = stage
      /\ written' = written /\ bufferSize' = bufferSize
  BY <1>1 DEF recordVars, planVars
<1>4. HandedOver'
  BY <1>3 DEF PipelineInv, HandedOver, RecordedTable
<1>5. QED
  BY <1>2, <1>3, <1>4

LEMMA RecordKeepsPipeline == PipelineInv /\ Record => PipelineInv'
<1> SUFFICES ASSUME PipelineInv, Record PROVE PipelineInv'
  OBVIOUS
<1>1. UNCHANGED planVars /\ RecordingNext
  BY DEF Record
<1>2. RecordingInv' /\ PlanInv' /\ SnugInv'
  BY <1>1, RecordingKept, StandingStillKeepsPlan, UnchangedKeepsSnug DEF PipelineInv
<1>3. pc' = "idle" /\ capacity' = 0
  BY DEF Record, PipelineInv, vars, planVars
<1>4. QED
  BY <1>2, <1>3 DEF PipelineInv, HandedOver, NeighboursHeld

LEMMA StartPlannerKeepsPipeline == PipelineInv /\ StartPlanner => PipelineInv'
<1> SUFFICES ASSUME PipelineInv, StartPlanner PROVE PipelineInv'
  OBVIOUS
<1>1. /\ UNCHANGED recordVars /\ loaded = NoPlan /\ loaded' = loaded /\ capacity' = capacity
      /\ stage' = stage /\ written' = written /\ bufferSize' = bufferSize
  BY DEF StartPlanner, recordVars, vars
<1>2. PICK t \in Table : LoadTable(t) /\ \/ stage = "written" /\ t = RecordedTable
                                         \/ stage = "idle" /\ t \in Tables
  <2>1. RecordedTable \in Table
    BY RecordedLists DEF PipelineInv
  <2>2. QED
    BY <2>1, RechunkAssumption DEF StartPlanner
<1>3. pc = "idle" /\ pc' = "validate" /\ table' = t
  BY <1>2 DEF LoadTable
<1>4. RecordingInv' /\ PlanInv' /\ SnugInv'
  BY <1>1, <1>2, RecordingKept, LoadKeepsPlan, LoadKeepsSnug DEF PipelineInv
<1>5. HandedOver'
  BY <1>1, <1>2, <1>3 DEF HandedOver, RecordedTable
<1>6. capacity' = 0
  BY <1>1, <1>3 DEF PipelineInv
<1>7. QED
  BY <1>1, <1>3, <1>4, <1>5, <1>6 DEF PipelineInv, NeighboursHeld

(* A step of the planner reads on in the table that it has.                *)
LEMMA PlannerAtWork ==
  ASSUME PlannerStep PROVE table' = table /\ pc \notin {"idle", "done"} /\ pc' # "idle"
  BY DEF PlannerStep, RejectTable, AcceptTable, SimpleStrategy, AddSingleChunks, NextMode, Begin,
         StartPrefetchGroup, IncludeCandidate, CommitComputeGroup, ForceGroup, CommitLastGroup,
         AddEntries, SavePlan

LEMMA RunPlannerKeepsPipeline == PipelineInv /\ RunPlanner => PipelineInv'
<1> SUFFICES ASSUME PipelineInv, RunPlanner PROVE PipelineInv'
  OBVIOUS
<1>1. /\ PlannerStep /\ UNCHANGED recordVars /\ loaded' = loaded /\ capacity' = capacity
      /\ stage' = stage /\ written' = written /\ bufferSize' = bufferSize
  BY DEF RunPlanner, recordVars, vars
<1>2. table' = table /\ pc \notin {"idle", "done"} /\ pc' # "idle"
  BY <1>1, PlannerAtWork
<1>3. RecordingInv' /\ PlanInv' /\ SnugInv'
  BY <1>1, RecordingKept, PlannerStepKeepsPlan, PlannerStepKeepsSnug DEF PipelineInv
<1>4. HandedOver'
  BY <1>1, <1>2 DEF PipelineInv, HandedOver, RecordedTable
<1>5. loaded' = NoPlan /\ capacity' = 0
  BY <1>1, <1>2 DEF PipelineInv
<1>6. QED
  BY <1>2, <1>3, <1>4, <1>5 DEF PipelineInv, NeighboursHeld

(* The buffer is at least as large as the plan asks for, or is not there.  *)
LEMMA LoadedCapacity ==
  ASSUME capacity \in Nat, NEW plan, plan.request \in Nat, Load(plan)
  PROVE  /\ capacity' \in Nat /\ loaded' = plan
         /\ capacity' > 0 => plan.request <= capacity'
<1>1. AlignTo(plan.request) \in Nat /\ AlignTo(plan.request) >= plan.request
  BY AlignToGrows
<1>2. QED
  BY <1>1 DEF Load, LoadPrefetchPlan, LoadWithoutMemory

LEMMA StartGeneratorKeepsPipeline == PipelineInv /\ StartGenerator => PipelineInv'
<1> SUFFICES ASSUME PipelineInv, StartGenerator PROVE PipelineInv'
  OBVIOUS
<1>1. UNCHANGED <<recordVars, planVars>>
  BY DEF StartGenerator
<1>2. /\ RecordingInv' /\ PlanInv' /\ SnugInv' /\ HandedOver'
      /\ pc' = pc /\ planned' = planned /\ table' = table
  BY <1>1, PartsStandStill
<1>3. PlanInv /\ capacity \in Nat
  BY DEF PipelineInv
<1>4. CASE pc = "done" /\ Load(PlanFile)
  <2>1. PlanFile.request = DerivedSize /\ DerivedSize \in Nat
    BY <1>3, DerivedHoldsAll DEF PlanFile
  <2>2. capacity' \in Nat /\ (capacity' > 0 => DerivedSize <= capacity')
    BY <1>3, <1>4, <2>1, LoadedCapacity
  <2>3. ASSUME capacity' > 0, NEW m \in DOMAIN planned, NEW k \in 1 .. Len(planned[m]) - 1
        PROVE  planned[m][k].size + planned[m][k + 1].size <= capacity'
    <3>1. planned[m][k].size + planned[m][k + 1].size <= DerivedSize
      BY <1>3, DerivedHoldsGroups
    <3>2. planned[m][k].size + planned[m][k + 1].size \in Nat
      <4>1. planned[m] \in Seq(Group)
        BY <1>3, PlannedMode
      <4>2. k \in 1 .. Len(planned[m]) /\ k + 1 \in 1 .. Len(planned[m])
        BY <4>1
      <4>3. planned[m][k] \in Group /\ planned[m][k + 1] \in Group
        BY <4>1, <4>2
      <4>4. QED
        BY <4>3 DEF Group
    <3>3. QED
      BY ONLY <2>1, <2>2, <2>3, <3>1, <3>2
  <2>4. NeighboursHeld'
    BY <1>2, <2>3 DEF NeighboursHeld
  <2>5. QED
    BY <1>2, <1>4, <2>2, <2>4 DEF PipelineInv
<1>5. CASE pc = "idle" /\ \E plan \in Plans : Load(plan)
  <2>1. PICK plan \in Plans : Load(plan)
    BY <1>5
  <2>2. plan.request \in Nat /\ plan # NoPlan
    BY BufferSlotsAssumption DEF SlotPlan, NoPlan
  <2>3. capacity' \in Nat /\ loaded' # NoPlan
    BY <1>3, <2>1, <2>2, LoadedCapacity
  <2>4. QED
    BY <1>2, <1>5, <2>3 DEF PipelineInv, NeighboursHeld
<1>6. QED
  BY <1>4, <1>5 DEF StartGenerator

LEMMA GenerateKeepsPipeline == PipelineInv /\ (Generate \/ UNCHANGED pipelineVars) => PipelineInv'
<1> SUFFICES ASSUME PipelineInv, Generate \/ UNCHANGED pipelineVars PROVE PipelineInv'
  OBVIOUS
<1>1. UNCHANGED <<recordVars, planVars>>
  BY DEF Generate, pipelineVars
<1>2. /\ RecordingInv' /\ PlanInv' /\ SnugInv' /\ HandedOver'
      /\ pc' = pc /\ planned' = planned /\ table' = table
  BY <1>1, PartsStandStill
<1>3. loaded' = loaded /\ capacity' \in {0, capacity}
  BY DEF Generate, Runtime, ReleaseWeightChunkBuffer, InitialPrefetch, SwitchActiveBufferIndex,
         ScheduleNextGroup, pipelineVars, vars
<1>4. QED
  BY <1>2, <1>3 DEF PipelineInv, NeighboursHeld

(* What is recorded, planned and laid out stays in step in every run of    *)
(* the three programs after each other.                                    *)
THEOREM PipelineInvariant == PipelineSpec => []PipelineInv
<1>1. PipelineInv /\ [PipelineNext]_pipelineVars => PipelineInv'
  BY RecordKeepsPipeline, StartPlannerKeepsPipeline, RunPlannerKeepsPipeline,
     StartGeneratorKeepsPipeline, GenerateKeepsPipeline DEF PipelineNext
<1>2. QED
  BY InitPipeline, <1>1, PTL DEF PipelineSpec

(* The metadata size that the recorder writes is the one that the runtime  *)
(* derives from the plan, whatever the model and however it is planned.    *)
THEOREM RecordedSizeNeedsNoCorrection == PipelineSpec => []MetadataSizeSuffices
<1>1. PipelineInv => MetadataSizeSuffices
  <2> SUFFICES ASSUME PipelineInv, pc = "done", stage = "written"
               PROVE  DerivedSize = bufferSize
    BY DEF MetadataSizeSuffices, PlanReady
  <2>1. table = RecordedTable
    BY DEF PipelineInv, HandedOver
  <2>2. QED
    BY <2>1, RecordedSizeIsDerived DEF PipelineInv
<1>2. QED
  BY PipelineInvariant, <1>1, PTL

(* The table of a plan is in the form that recordings have, if those from  *)
(* elsewhere are.                                                          *)
LEMMA PlannedTableInForm ==
  ASSUME TablesInRecordedForm, PipelineInv, pc # "idle"
  PROVE  InRecordedForm(table)
<1>1. CASE table = RecordedTable
  BY <1>1, RecordedTableInForm DEF PipelineInv
<1>2. CASE table \in Tables
  BY <1>2 DEF TablesInRecordedForm
<1>3. QED
  BY <1>1, <1>2 DEF PipelineInv, HandedOver

(* An operator's weight is found under its offset in either mode.          *)
THEOREM LookupsFindTheirChunk ==
  ASSUME TablesInRecordedForm PROVE PipelineSpec => []LookupFindsOwnChunk
<1>1. PipelineInv => LookupFindsOwnChunk
  <2> SUFFICES ASSUME PipelineInv, pc = "done",
                      NEW m \in DOMAIN planned, NEW i \in DOMAIN table.lists[m]
               PROVE  LookupChunkInfoByOffset(m, table.lists[m][i].at) = {table.lists[m][i]}
    BY DEF LookupFindsOwnChunk, PlanReady
  <2>1. InRecordedForm(table)
    BY PlannedTableInForm
  <2>2. QED
    BY <2>1, LookupIsRight DEF PipelineInv
<1>2. QED
  BY PipelineInvariant, <1>1, PTL

(* What the slots rely on is true of the file that the planner writes: it  *)
(* asks for a buffer that holds each of its groups.                        *)
LEMMA PlanFileHoldsGroups ==
  ASSUME PlanInv, SnugInv, InRecordedForm(table)
  PROVE  PlanFile \in SlotPlan \cup {NoPlan} /\ HoldsEachGroup(PlanFile)
<1>1. DerivedSize \in Nat
  BY DerivedHoldsAll
<1>2. ASSUME NEW g \in PlanFile.groups PROVE g \in SlotGroup /\ g.size <= DerivedSize
  <2>1. PICK m \in DOMAIN planned : \E k \in DOMAIN planned[m] :
               g = [index |-> k - 1, size |-> TotalAlignedSize(m, k)]
    BY <1>2 DEF PlanFile
  <2>2. PICK k \in DOMAIN planned[m] : g = [index |-> k - 1, size |-> TotalAlignedSize(m, k)]
    BY <2>1
  <2>3. TotalAlignedSize(m, k) = planned[m][k].size /\ planned[m][k].size \in Nat
    BY TotalIsSize
  <2>4. k - 1 \in Nat
    <3>1. k \in 1 .. Len(planned[m]) /\ planned[m] \in Seq(Group)
      BY PlannedGroup, PlannedMode
    <3>2. QED
      BY <3>1
  <2>5. planned[m][k].size <= DerivedSize
    BY DerivedHoldsGroups
  <2>6. QED
    BY <2>2, <2>3, <2>4, <2>5 DEF SlotGroup
<1>3. PlanFile = [request |-> DerivedSize, groups |-> PlanFile.groups]
  BY DEF PlanFile
<1>4. HoldsEachGroup(PlanFile)
  BY <1>2, <1>3 DEF HoldsEachGroup
<1>5. CASE DerivedSize # 0
  BY <1>1, <1>2, <1>3, <1>4, <1>5 DEF SlotPlan
<1>6. CASE DerivedSize = 0
  <2> SUFFICES PlanFile.groups = {}
    BY <1>3, <1>4, <1>6 DEF NoPlan
  <2> SUFFICES ASSUME NEW m \in DOMAIN planned, NEW k \in DOMAIN planned[m] PROVE FALSE
    BY DEF PlanFile
  <2> DEFINE list == table.lists[m]
             i == planned[m][k].members[1]
  <2>1. /\ Run(list, planned[m][k]) /\ list \in Seq(Chunk) /\ Entries(m) = list
    BY PlannedGroup, EntriesAreTheList
  <2>2. i \in Positions(list)
    BY <2>1 DEF Run, Group
  <2>3. list[i].size \in Nat \ {0} /\ list[i].size \in Required
    <3>1. list[i] \in Chunk /\ i \in DOMAIN list
      BY <2>1, <2>2 DEF Positions
    <3> HIDE DEF list, i
    <3>2. list[i].size \in Sizes(list)
      BY <3>1 DEF Sizes
    <3>3. list[i].size \in Required
      BY <2>1, <3>2 DEF Required
    <3>4. QED
      BY <3>1, <3>3 DEF Chunk
  <2>4. list[i].size <= DerivedSize
    BY <2>3, DerivedHoldsAll
  <2>5. QED
    BY <1>6, <2>3, <2>4
<1>7. QED
  BY <1>4, <1>5, <1>6

(* The other slot has room for the group that follows.                     *)
THEOREM NextGroupAlwaysFits ==
  ASSUME TablesInRecordedForm PROVE PipelineSpec => []NextGroupHasRoom
<1>1. PipelineInv => NextGroupHasRoom
  <2> SUFFICES ASSUME PipelineInv, pc = "done", capacity > 0,
                      NEW m \in DOMAIN planned, NEW k \in 1 .. Len(planned[m]) - 1,
                      slots[active].size = TotalAlignedSize(m, k)
               PROVE  ComputeInactiveSlotOffset(TotalAlignedSize(m, k + 1)) # NoOffset
    BY DEF NextGroupHasRoom
  <2>1. InRecordedForm(table) /\ PlanInv /\ SnugInv /\ capacity \in Nat
    BY PlannedTableInForm DEF PipelineInv
  <2>2. k \in DOMAIN planned[m] /\ k + 1 \in DOMAIN planned[m]
    <3>1. planned[m] \in Seq(Group)
      BY <2>1, PlannedMode
    <3>2. QED
      BY <3>1
  <2>3. /\ TotalAlignedSize(m, k) = planned[m][k].size /\ planned[m][k].size \in Nat
        /\ TotalAlignedSize(m, k + 1) = planned[m][k + 1].size /\ planned[m][k + 1].size \in Nat
    BY <2>1, <2>2, TotalIsSize
  <2>4. planned[m][k].size + planned[m][k + 1].size <= capacity
    BY DEF PipelineInv, NeighboursHeld
  <2>5. ASSUME NEW a \in Nat, NEW b \in Nat, slots[active].size = a, a + b <= capacity
        PROVE  ComputeInactiveSlotOffset(b) # NoOffset
    BY <2>1, <2>5 DEF ComputeInactiveSlotOffset, NoOffset
  <2>6. QED
    BY <2>3, <2>4, <2>5
<1>2. QED
  BY PipelineInvariant, <1>1, PTL

(* The plan of a model without weights asks for no buffer.                 *)
LEMMA LoadNothingKeepsInv ==
  ASSUME Inv, Load(NoPlan) PROVE Inv'
<1>1. capacity \in Nat
  BY DEF Inv, IndInv, TypeOK
<1>2. AlignTo(0) \in Nat /\ NoPlan.request = 0 /\ NoPlan.groups = {}
  BY AlignToGrows DEF NoPlan
<1>3. /\ slots' = EmptySlots /\ active' = 0 /\ pending' = TRUE /\ loaded' = NoPlan
      /\ capacity' \in Nat
  BY <1>1, <1>2 DEF Load, LoadPrefetchPlan, LoadWithoutMemory
<1>4. RequestHeld'
  BY <1>2, <1>3 DEF RequestHeld, NoPlan
<1>5. IndInv'
  BY <1>3 DEF IndInv, TypeOK, SlotsInBuffer, WithinBuffer, SlotsAtAnEnd, OtherSlotFree,
              SlotsApart, EmptySlots, EmptySlot, Slots, Slot, NoIndex, inactive
<1>6. QED
  BY <1>4, <1>5 DEF Inv

(* The slots keep their layout under the planner's own file.               *)
LEMMA PipelineKeepsInv ==
  ASSUME TablesInRecordedForm, PipelineInv, Inv, [PipelineNext]_pipelineVars
  PROVE  Inv'
<1>1. CASE UNCHANGED vars
  BY <1>1, NextKeepsInv
<1>2. CASE Generate
  BY <1>2, RuntimeKeepsInv DEF Generate
<1>3. CASE StartGenerator
  <2>1. ASSUME pc = "done", Load(PlanFile) PROVE Inv'
    <3>1. PlanFile \in SlotPlan \cup {NoPlan}
      BY <2>1, PlannedTableInForm, PlanFileHoldsGroups DEF PipelineInv
    <3>2. QED
      BY <2>1, <3>1, LoadKeepsInv, LoadNothingKeepsInv
  <2>2. ASSUME NEW plan \in Plans, Load(plan) PROVE Inv'
    BY <2>2, LoadKeepsInv, BufferSlotsAssumption
  <2>3. QED
    BY <1>3, <2>1, <2>2 DEF StartGenerator
<1>4. QED
  BY <1>1, <1>2, <1>3 DEF PipelineNext, Record, StartPlanner, RunPlanner, pipelineVars

LEMMA PipelineSlots ==
  ASSUME TablesInRecordedForm PROVE PipelineSpec => []Inv
<1>1. PipelineInit => Inv
  BY InitInv DEF PipelineInit
<1>2. PipelineInv /\ Inv /\ [PipelineNext]_pipelineVars => Inv'
  BY PipelineKeepsInv
<1>3. QED
  BY PipelineInvariant, <1>1, <1>2, PTL DEF PipelineSpec

(* What is loaded once there is a planned file, or nothing is.             *)
LoadedFits == pc = "done" => HoldsEachGroup(loaded)

LEMMA PlannedFileIsLoaded ==
  ASSUME TablesInRecordedForm PROVE PipelineSpec => []LoadedFits
<1>1. PipelineInit => LoadedFits
  BY DEF PipelineInit, PlannerInit, LoadedFits
<1>2. ASSUME PipelineInv, LoadedFits, [PipelineNext]_pipelineVars PROVE LoadedFits'
  <2>1. CASE Record \/ StartPlanner
    BY <2>1 DEF Record, StartPlanner, LoadTable, LoadedFits, planVars
  <2>2. CASE RunPlanner
    <3>1. loaded' = NoPlan
      BY <1>2, <2>2, PlannerAtWork DEF RunPlanner, PipelineInv, vars
    <3>2. QED
      BY <3>1 DEF LoadedFits, HoldsEachGroup, NoPlan
  <2>3. CASE StartGenerator
    <3>1. pc' = pc
      BY <2>3 DEF StartGenerator, planVars
    <3>2. ASSUME pc = "done", Load(PlanFile) PROVE HoldsEachGroup(loaded')
      <4>1. HoldsEachGroup(PlanFile)
        BY <1>2, <3>2, PlannedTableInForm, PlanFileHoldsGroups DEF PipelineInv
      <4>2. loaded' = PlanFile
        BY <3>2 DEF Load, LoadPrefetchPlan, LoadWithoutMemory
      <4>3. QED
        BY <4>1, <4>2
    <3>3. QED
      BY <2>3, <3>1, <3>2 DEF StartGenerator, LoadedFits, HoldsEachGroup
  <2>4. CASE Generate \/ UNCHANGED pipelineVars
    <3>1. loaded' = loaded /\ pc' = pc
      BY <2>4 DEF Generate, Runtime, ReleaseWeightChunkBuffer, InitialPrefetch,
                  SwitchActiveBufferIndex, ScheduleNextGroup, pipelineVars, planVars, vars
    <3>2. QED
      BY <1>2, <3>1 DEF LoadedFits, HoldsEachGroup
  <2>5. QED
    BY <1>2, <2>1, <2>2, <2>3, <2>4 DEF PipelineNext
<1>3. QED
  BY PipelineInvariant, <1>1, <1>2, PTL DEF PipelineSpec

(* No slot reaches past the buffer that was allocated for a planned file,  *)
(* whose totals are those that the buffer was sized by                     *)
(* (weight_chunk_controller_utils.cc:489-496, 666-685).                    *)
THEOREM PlannedSlotsStayInBuffer ==
  ASSUME TablesInRecordedForm
  PROVE  PipelineSpec => [](SlotsInBuffer /\ (pc = "done" /\ capacity > 0 => WithinBuffer))
<1>1. Inv /\ LoadedFits => SlotsInBuffer /\ (pc = "done" /\ capacity > 0 => WithinBuffer)
  BY DEF Inv, IndInv, LoadedFits, SlotsInBuffer
<1>2. QED
  BY PipelineSlots, PlannedFileIsLoaded, <1>1, PTL

(* The group that is read in never lands on the one that is in use.        *)
THEOREM PlannedSlotsStayDisjoint ==
  ASSUME TablesInRecordedForm PROVE PipelineSpec => []SlotsDisjoint
<1>1. Inv => SlotsDisjoint
  BY ApartIsDisjoint DEF Inv, IndInv
<1>2. QED
  BY PipelineSlots, <1>1, PTL

(* Of a recorded table, too, the plan is complete, its groups are          *)
(* contiguous and neighbours fit together.                                 *)
THEOREM PlansOfRecordings ==
  PipelineSpec => [](PlanTilesTheList /\ GroupsContiguous /\ NeighboursFit)
<1>1. PipelineInv => PlanTilesTheList /\ GroupsContiguous /\ NeighboursFit
  BY TilesFromInv, ContiguousFromInv, NeighboursFromInv DEF PipelineInv
<1>2. QED
  BY PipelineInvariant, <1>1, PTL

(* What double buffering asks of a mode's own groups, EachChunkOnce and    *)
(* FirstChunkLeads of PrefetchPlan, said of the groups that are planned.   *)
MembersOnce(plan) ==
  \A i, j \in DOMAIN plan : \A k \in DOMAIN plan[i].members, l \in DOMAIN plan[j].members :
    plan[i].members[k] = plan[j].members[l] => i = j /\ k = l

FirstMemberLeads(m, k) ==
  \A j \in DOMAIN planned[m][k].members :
    SectorOf(Member(m, k, 1).at) <= SectorOf(Member(m, k, j).at)

(* A chunk further on in the file does not begin in a sector before.       *)
LEMMA SectorsInOrder ==
  ASSUME NEW x \in Nat, NEW y \in Nat, x <= y
  PROVE  SectorOf(x) <= SectorOf(y)
<1>1. ASSUME NEW s \in Nat \ {0}, NEW a \in Nat, NEW b \in Nat, a <= b
      PROVE  (a \div s) * s <= (b \div s) * s
  <2>1. PICK p \in Nat : p = a \div s
    BY <1>1
  <2>2. PICK q \in Nat : q = b \div s
    BY <1>1
  <2>3. p * s \in Nat /\ p * s <= a /\ q * s \in Nat /\ b < q * s + s
    <3>1. a = s * (a \div s) + (a % s) /\ a % s \in 0 .. s - 1
      BY ONLY <1>1
    <3>2. b = s * (b \div s) + (b % s) /\ b % s \in 0 .. s - 1
      BY ONLY <1>1
    <3>3. QED
      BY <1>1, <2>1, <2>2, <3>1, <3>2
  <2>4. CASE p <= q
    <3>1. p * s <= q * s
      BY <1>1, <2>4
    <3>2. QED
      BY <2>1, <2>2, <3>1
  <2>5. CASE q + 1 <= p
    <3>1. q * s + s <= p * s
      BY <1>1, <2>5
    <3>2. QED
      BY <1>1, <2>3, <3>1
  <2>6. QED
    BY <2>1, <2>2, <2>4, <2>5
<1>2. /\ Alignment \in Nat \ {0} /\ BaseOffset + x \in Nat /\ BaseOffset + y \in Nat
      /\ BaseOffset + x <= BaseOffset + y
  BY RecordingAssumption, BufferSlotsAssumption
<1>3. QED
  BY ONLY <1>1, <1>2 DEF SectorOf

(* A run of the list goes forward in the file.                             *)
LEMMA RunsForward ==
  ASSUME NEW list \in Seq(Chunk), NEW g, Run(list, g), NEW j \in 1 .. Len(g.members)
  PROVE  /\ 1 \in 1 .. Len(g.members)
         /\ list[g.members[1]].at \in Nat /\ list[g.members[j]].at \in Nat
         /\ list[g.members[1]].at <= list[g.members[j]].at
<1> DEFINE At(l) == list[g.members[l]].at
           Back == {l \in 1 .. Len(g.members) : ~(At(1) <= At(l))}
<1>1. Len(g.members) \in Nat \ {0}
  BY RunIsInterval
<1>2. \A l \in 1 .. Len(g.members) : At(l) \in Nat /\ list[g.members[l]].len \in Nat
  <2> SUFFICES ASSUME NEW l \in 1 .. Len(g.members)
               PROVE  At(l) \in Nat /\ list[g.members[l]].len \in Nat
    OBVIOUS
  <2>1. g.members[l] \in 1 .. Len(list)
    BY DEF Run, Positions
  <2>2. list[g.members[l]] \in Chunk
    BY <2>1
  <2>3. QED
    BY <2>2 DEF Chunk
<1>3. \A l \in 1 .. Len(g.members) - 1 : At(l + 1) = At(l) + list[g.members[l]].len
  BY DEF Run
<1>4. Back \in SUBSET Nat /\ \A l \in Back : l \in 1 .. Len(g.members) /\ ~(At(1) <= At(l))
  BY <1>1
<1>5. \A l \in 1 .. Len(g.members) : l \notin Back => At(1) <= At(l)
  OBVIOUS
<1>6. Back = {}
  <2> SUFFICES ASSUME Back # {} PROVE FALSE
    OBVIOUS
  <2> HIDE DEF Back
  <2>1. PICK l \in Back : \A i \in Back : l <= i
    BY <1>4, LeastNatural
  <2>2. l \in 1 .. Len(g.members) /\ ~(At(1) <= At(l))
    BY <1>4
  <2>3. l # 1
    <3>1. 1 \in 1 .. Len(g.members)
      BY <1>1
    <3> DEFINE one == At(1)
    <3>2. one \in Nat
      BY <1>2, <3>1
    <3> HIDE DEF one
    <3>3. one <= one
      BY <3>2
    <3>4. QED
      BY <2>2, <3>3 DEF one
  <2>4. /\ l - 1 \in 1 .. Len(g.members) - 1 /\ l - 1 \in 1 .. Len(g.members) /\ ~(l <= l - 1)
        /\ (l - 1) + 1 = l /\ 1 \in 1 .. Len(g.members)
    BY ONLY <1>1, <2>2, <2>3
  <2>5. At(1) <= At(l - 1)
    BY <1>5, <2>1, <2>4
  <2>6. At(l) = At(l - 1) + list[g.members[l - 1]].len
    BY <1>3, <2>4
  <2>7. At(1) \in Nat /\ At(l - 1) \in Nat /\ list[g.members[l - 1]].len \in Nat
    BY <1>2, <2>4
  <2> HIDE DEF At
  <2>8. QED
    BY ONLY <2>2, <2>5, <2>6, <2>7
<1>7. 1 \in 1 .. Len(g.members)
  BY <1>1
<1>8. QED
  BY <1>2, <1>5, <1>6, <1>7

(* The groups of a mode of the planner's file name no chunk twice, and the *)
(* chunk that a group's buffer offsets count from lies first in the file:  *)
(* two of the assumptions under which the controller's streaming is        *)
(* correct hold of every plan that is made of a recording or a table       *)
(* (stratgey_rechunk.py:143, 207).                                         *)
THEOREM PlannedGroupsAreDoubleBuffered ==
  PipelineSpec => [](\A m \in DOMAIN planned :
                       /\ MembersOnce(planned[m])
                       /\ \A k \in DOMAIN planned[m] : FirstMemberLeads(m, k))
<1> DEFINE Ordered == \A m \in DOMAIN planned :
                        /\ MembersOnce(planned[m])
                        /\ \A k \in DOMAIN planned[m] : FirstMemberLeads(m, k)
<1>1. ASSUME PlanInv, SnugInv, NEW m \in DOMAIN planned PROVE MembersOnce(planned[m])
  <2>1. planned[m] \in Seq(Group) /\ Chain(table.limit, table.lists[m], planned[m])
    BY <1>1, PlannedMode
  <2> DEFINE plan == planned[m]
  <2> SUFFICES ASSUME NEW i \in DOMAIN plan, NEW j \in DOMAIN plan,
                      NEW k \in DOMAIN plan[i].members, NEW l \in DOMAIN plan[j].members,
                      plan[i].members[k] = plan[j].members[l]
               PROVE  i = j /\ k = l
    BY DEF MembersOnce
  <2>2. i \in 1 .. Len(plan) /\ j \in 1 .. Len(plan)
    BY <2>1
  <2>3. k \in 1 .. Len(plan[i].members) /\ l \in 1 .. Len(plan[j].members)
    <3>1. plan[i].members \in Seq(Nat \ {0}) /\ plan[j].members \in Seq(Nat \ {0})
      BY <2>1, <2>2, GroupExtent
    <3>2. QED
      BY <3>1
  <2> HIDE DEF plan
  <2>4. QED
    BY <2>1, <2>2, <2>3, NamedOnce DEF plan
<1>2. ASSUME PlanInv, SnugInv, NEW m \in DOMAIN planned, NEW k \in DOMAIN planned[m]
      PROVE  FirstMemberLeads(m, k)
  <2> DEFINE list == table.lists[m]
             g == planned[m][k]
  <2>1. Run(list, g) /\ list \in Seq(Chunk)
    BY <1>2, PlannedGroup, EntriesAreTheList
  <2> SUFFICES ASSUME NEW j \in DOMAIN g.members
               PROVE  SectorOf(list[g.members[1]].at) <= SectorOf(list[g.members[j]].at)
    BY DEF FirstMemberLeads, Member
  <2>2. j \in 1 .. Len(g.members)
    <3>1. g.members \in Seq(Nat \ {0})
      BY <2>1, RunIsInterval
    <3>2. QED
      BY <3>1
  <2> HIDE DEF list, g
  <2>3. QED
    BY <2>1, <2>2, RunsForward, SectorsInOrder
<1>3. PipelineInv => Ordered
  BY <1>1, <1>2 DEF PipelineInv
<1>4. QED
  BY PipelineInvariant, <1>3, PTL
=============================================================================
