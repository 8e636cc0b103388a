---------------------------- MODULE BufferSlots ----------------------------
(***************************************************************************)
(* The two slots that WeightChunkController lays out in one weight buffer. *)
(*                                                                         *)
(* Both slots share the base address of a single allocation.  The slot     *)
(* that feeds the running operators is the active one; the other receives  *)
(* the next chunk group.  A group is placed at the front of the buffer or  *)
(* flush against its end, whichever leaves the active slot alone.          *)
(*                                                                         *)
(* The module knows nothing of threads or of what the slots contain: only  *)
(* where they are.  WeightStreaming implements it.                         *)
(***************************************************************************)
EXTENDS Integers

CONSTANTS
  Plans,      (* the plans that may be loaded                              *)
  Alignment   (* sector size of the direct I/O buffer                      *)

(* What the layout knows of a group, group_index and total_aligned_size,   *)
(* and of a plan: weight_chunk_buffer_size and the groups of both modes,   *)
(* whose indices are unique within one mode only.                          *)
SlotGroup == [index : Nat, size : Nat]
SlotPlan == [request : Nat \ {0}, groups : SUBSET SlotGroup]

(* The buffer that a plan asks for holds each of its groups.  The loader    *)
(* derives the request from the totals in the file and corrects a total    *)
(* that is missing or too small only afterwards, so this is true of files  *)
(* that state their totals, and not checked of others.                     *)
HoldsEachGroup(plan) == \A g \in plan.groups : g.size <= plan.request

ASSUME BufferSlotsAssumption ==
  /\ Plans \subseteq SlotPlan
  /\ Alignment \in Nat

VARIABLES
  loaded,     (* the plan that SetPrefetchPlan was called with             *)
  capacity,   (* weight_chunk_buffer_capacity_, 0 when nothing is allocated *)
  slots,      (* buffer_slots_                                             *)
  active,     (* active_weight_chunk_buffer_index_                         *)
  pending     (* initial_prefetch_pending_                                 *)

vars == <<loaded, capacity, slots, active, pending>>

Slots == {0, 1}
NoIndex == -1     (* numeric_limits<size_t>::max() in a slot's group_index  *)
NoOffset == -1    (* the same sentinel as an offset                         *)

Slot == [offset : Nat, size : Nat, index : Nat \cup {NoIndex}]
EmptySlot == [offset |-> 0, size |-> 0, index |-> NoIndex]
EmptySlots == [i \in Slots |-> EmptySlot]
NoPlan == [request |-> 0, groups |-> {}]

inactive == 1 - active

AlignTo(value) ==
  IF Alignment = 0 \/ (value % Alignment) = 0
  THEN value
  ELSE value + (Alignment - (value % Alignment))

(* Mutant: forgets the size of the active slot.                            *)
OffsetIgnoringActive(next) ==
  LET held == slots[active] IN
  IF capacity = 0 \/ next > capacity THEN NoOffset
  ELSE IF held.size > 0 /\ held.offset = 0 THEN capacity - next
  ELSE 0

(* Mutant: always the front of the buffer.                                 *)
OffsetAtFront(next) ==
  IF capacity = 0 \/ slots[active].size + next > capacity THEN NoOffset ELSE 0

(* Where the next group goes, given what the active slot occupies.         *)
ComputeInactiveSlotOffset(next) ==
  LET held == slots[active]
      fits == IF held.size = 0 THEN next <= capacity
              ELSE held.size + next <= capacity
  IN  IF capacity = 0 \/ ~fits THEN NoOffset
      ELSE IF held.size > 0 /\ held.offset = 0 THEN capacity - next
      ELSE 0

-----------------------------------------------------------------------------

Init ==
  /\ loaded = NoPlan
  /\ capacity = 0
  /\ slots = EmptySlots
  /\ active = 0
  /\ pending = TRUE

(* Mutant: any buffer that is there is reused.                             *)
LoadIntoOldBuffer(plan) ==
  /\ loaded' = plan
  /\ capacity' = IF capacity > 0 THEN capacity ELSE AlignTo(plan.request)
  /\ slots' = EmptySlots
  /\ active' = 0
  /\ pending' = TRUE

(* LoadPrefetchPlan with AllocWeightChunkBuffer inlined: a sufficient      *)
(* buffer is reused as it is, otherwise it is freed and replaced.          *)
LoadPrefetchPlan(plan) ==
  LET aligned == AlignTo(plan.request) IN
  /\ loaded' = plan
  /\ capacity' = IF capacity >= aligned THEN capacity ELSE aligned
  /\ slots' = EmptySlots
  /\ active' = 0
  /\ pending' = TRUE

(* The same when posix_memalign fails: the old buffer is already gone, the *)
(* plan is set all the same.                                               *)
LoadWithoutMemory(plan) ==
  /\ capacity < AlignTo(plan.request)
  /\ loaded' = plan
  /\ capacity' = 0
  /\ slots' = EmptySlots
  /\ active' = 0
  /\ pending' = TRUE

(* First operator after a load: its group fills the active slot at once.   *)
(* Without a buffer Submit refuses the request and the fill stays pending. *)
InitialPrefetch(g) ==
  /\ pending
  /\ slots' = [slots EXCEPT ![active] = [offset |-> 0, size |-> g.size, index |-> g.index]]
  /\ pending' \in IF capacity = 0 THEN {TRUE} ELSE BOOLEAN
  /\ UNCHANGED <<loaded, capacity, active>>

(* An operator of a group the active slot is not tagged with.              *)
SwitchActiveBufferIndex(g) ==
  /\ ~pending
  /\ slots[active].index # g.index
  /\ active' = inactive
  /\ UNCHANGED <<loaded, capacity, slots, pending>>

(* ScheduleNextGroup up to a Submit that accepts, or that refuses: then    *)
(* the target slot is reset.  Its early returns change nothing.            *)
ScheduleNextGroup(g, accepted) ==
  LET offset == ComputeInactiveSlotOffset(g.size) IN
  /\ ~pending
  /\ offset # NoOffset
  /\ slots[inactive].index # g.index
  /\ slots' = [slots EXCEPT ![inactive] =
                 IF accepted
                 THEN [offset |-> offset, size |-> g.size, index |-> g.index]
                 ELSE EmptySlot]
  /\ UNCHANGED <<loaded, capacity, active, pending>>

(* Only the program's end releases the buffer without loading another plan.*)
ReleaseWeightChunkBuffer ==
  /\ capacity' = 0
  /\ slots' = EmptySlots
  /\ active' = 0
  /\ UNCHANGED <<loaded, pending>>

Runtime ==
  \/ ReleaseWeightChunkBuffer
  \/ \E g \in loaded.groups : InitialPrefetch(g)
  \/ \E g \in loaded.groups : SwitchActiveBufferIndex(g)
  \/ \E g \in loaded.groups, accepted \in BOOLEAN : ScheduleNextGroup(g, accepted)

Load(plan) == LoadPrefetchPlan(plan) \/ LoadWithoutMemory(plan)

Next == Runtime \/ \E plan \in Plans : Load(plan)

Spec == Init /\ [][Next]_vars

-----------------------------------------------------------------------------

(* The variables hold values of the types the controller declares.         *)
TypeOK ==
  /\ loaded \in SlotPlan \cup {NoPlan}
  /\ capacity \in Nat
  /\ slots \in [Slots -> Slot]
  /\ active \in Slots
  /\ pending \in BOOLEAN

(* No slot reaches past the end of the allocation it is carved from, so a  *)
(* read into a slot never writes outside the buffer (controller.cc:364),   *)
(* while a plan is loaded whose request holds each of its groups: the      *)
(* first fill checks nothing (controller.cc:557-577).                      *)
WithinBuffer == \A i \in Slots : slots[i].offset + slots[i].size <= capacity
SlotsInBuffer == capacity > 0 /\ HoldsEachGroup(loaded) => WithinBuffer

(* The two slots never share a byte: the group being read in never lands   *)
(* on weights an operator of the active group still uses                   *)
(* (ComputeInactiveSlotOffset), whatever the plans and the order of loads, *)
(* switches, refused and accepted schedules.                               *)
SlotsDisjoint ==
  LET Bytes(i) == {b \in 0 .. capacity + slots[i].offset + slots[i].size :
                     slots[i].offset <= b /\ b < slots[i].offset + slots[i].size}
  IN  Bytes(0) \cap Bytes(1) = {}

(* Every slot sits at the front of the buffer or flush with its end.  The  *)
(* placement rule only looks at whether the active offset is zero, so it   *)
(* is right only because of this.                                          *)
SlotsAtAnEnd ==
  capacity > 0 => \A i \in Slots :
    slots[i].offset = 0 \/ slots[i].offset = capacity - slots[i].size

(* Until the first group is accepted the other slot holds nothing.         *)
OtherSlotFree ==
  pending => slots[inactive].size = 0

(* What the proofs carry: the conjunction is inductive, and disjointness   *)
(* is stated by bounds.                                                    *)
SlotsApart ==
  \/ \E i \in Slots : slots[i].size = 0
  \/ \E i \in Slots : slots[i].offset + slots[i].size <= slots[1 - i].offset

IndInv ==
  /\ TypeOK
  /\ SlotsInBuffer
  /\ SlotsAtAnEnd
  /\ OtherSlotFree
  /\ SlotsApart
=============================================================================
