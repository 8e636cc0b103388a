---------------------------- MODULE SlotHandover ----------------------------
(***************************************************************************)
(* How the two slots of the buffer change hands, as an inductive invariant *)
(* of WeightStreaming for plans in which double buffering works out        *)
(* (DoubleBuffered of PrefetchPlan) and reads that do not fail.  TLC can   *)
(* check Handover on any such plan; WeightStreamingProofs proves it.       *)
(***************************************************************************)
EXTENDS WeightStreaming

(* Where the inference thread is in a call of the prefetcher.              *)
SubmitPcs == {"lookup", "insert", "cas", "flag", "unready", "push"}
StopPcs == {"stop", "clear", "wake", "join"}
WaitPcs == {"pred", "block", "blocked"}
ClaimedPcs == {"flag", "unready", "push"}

(* The operator at hand is the first of its group.                         *)
first == chunk = Head(ChunksOf[group])

(* Until the first operator of a group has had the next group scheduled,   *)
(* the group whose read was asked for last is its own; then the next one.  *)
Entering == first /\ cpc \in {"load", "op", "filled", "wait", "schedule"}
Due == IF Entering THEN group ELSE next
DueSlot == IF first /\ cpc \in {"filled", "wait", "schedule"} THEN active ELSE 1 - active
DueJob == [group |-> Due, dest |-> slots[DueSlot].offset]

(* That read is being submitted, queued or under way.                      *)
Coming == mpc \in SubmitPcs \/ queue # <<>> \/ wpc = "read"

(* Where the inference thread can be in a call, and when a wait is over.   *)
CallInv ==
  /\ mpc # "idle" =>
       \/ mpc \in SubmitPcs \cup {"notify"} /\ first /\ cpc \in {"filled", "compute"}
       \/ mpc \in WaitPcs /\ cpc = "wait" /\ mchunk = chunk
       \/ mpc \in StopPcs /\ cpc = "release"
  /\ cpc \in {"filled", "schedule"} => first
  /\ cpc = "load" => pending
  /\ pending => first /\ cpc \in {"load", "op"} /\ slots = Layout!EmptySlots
  /\ fdOpen = (cpc \notin {"stop", "release", "done"})
  /\ generating = (cpc \notin {"close", "stop", "release", "done"})
  /\ cpc = "wait" /\ mpc = "idle" => mret

(* There is one job at most, of the group that is due, to its slot; and    *)
(* none once the group's first wait is over.                               *)
JobsInv ==
  /\ queue \in {<<>>, <<DueJob>>}
  /\ wpc = "read" => wjob = DueJob /\ queue = <<>>
  /\ mpc \in SubmitPcs => marg = DueJob /\ queue = <<>> /\ wpc # "read"
  /\ pending \/ cpc = "schedule" \/ (first /\ cpc = "wait" /\ mpc = "idle") => ~Coming

(* The worker marks the group that is due, or still the one before it.     *)
MarkInv ==
  wpc \in MarkPcs =>
    /\ ~pending
    /\ \/ wjob.group = Due /\ ~Coming
       \/ GetNextChunkGroup(wjob.group) = Due /\ (Coming \/ cpc = "release")

(* A group's flag is set only while the prefetcher has a job of it.        *)
BusyInv ==
  cpc \notin {"release", "done"} => \A g \in Groups : groupBusy[g] =>
     (mpc \in ClaimedPcs /\ marg.group = g) \/ Queued(g) \/ Reading(g) \/ Marking(g)

Record(s, g) == slots[s].index = g.index /\ slots[s].size = TotalAlignedSize[g]
AtAnEnd(s) == slots[s].offset = 0 \/ slots[s].offset = WeightChunkBufferSize - slots[s].size
Apart ==
  \/ slots[0].offset + slots[0].size <= slots[1].offset
  \/ slots[1].offset + slots[1].size <= slots[0].offset

(* One slot is that of the group that is due, the other that of the group  *)
(* whose operators compute, or it is about to be used again.               *)
SlotInv ==
  ~pending /\ cpc # "done" =>
    /\ Record(DueSlot, Due) /\ AtAnEnd(DueSlot)
    /\ ~Entering => Record(active, group) /\ AtAnEnd(active) /\ Apart
    /\ Entering /\ cpc = "op" => slots[active].index # group.index /\ slots[active].index # next.index
    /\ Entering /\ cpc # "op" => slots[1 - active].index # next.index

(* Slot s holds what the file holds of group g.                            *)
Held(s, g) ==
  /\ \A b \in Extent(g, slots[s].offset) : buf[b] = StartOf(g) + b - slots[s].offset
  /\ \A c \in ChunkSet(g) : lastRead[c] = "ok"

ContentInv ==
  fdOpen =>
    /\ wpc \in MarkPcs => wok
    /\ ~pending /\ ~Coming => Held(DueSlot, Due)
    /\ ~Entering => Held(active, group)

PtrInv ==
  cpc \in {"schedule", "compute"} =>
    ptr[mode][chunk] = slots[active].offset + RelativeOffset(group, chunk)

(* The buffer's two slots change hands as the pre-invoke hook means them   *)
(* to: while the group in one of them computes, whole and as in the file,  *)
(* at most one job exists, of the group that is next and to the other slot,*)
(* and an operator's pointer leads into the slot of its own group          *)
(* (controller.cc:316-424, 535-601).                                       *)
Handover == CallInv /\ JobsInv /\ MarkInv /\ BusyInv /\ SlotInv /\ ContentInv /\ PtrInv
=============================================================================
