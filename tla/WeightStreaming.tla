-------------------------- MODULE WeightStreaming --------------------------
(***************************************************************************)
(* WeightChunkController driving WeightChunkPrefetcher through a whole     *)
(* generation: every operator's pre-invoke hook makes the buffer slot of   *)
(* its chunk group the active one, waits for its chunk, points its weights *)
(* into the slot, and, on the first chunk of a group, has the next group   *)
(* read into the other slot while the operators of this one compute.       *)
(*                                                                         *)
(* The inference thread is in a call of the prefetcher while mpc # "idle"; *)
(* cpc says what the controller does when that call returns.  The members  *)
(* of the controller belong to the inference thread alone, so a handler's  *)
(* steps between two calls of the prefetcher are one action.               *)
(***************************************************************************)
EXTENDS Integers, MmapInference

CONSTANT MayFail       (* TRUE if a read of the open file may fail          *)

VARIABLES
  capacity, slots, active, pending,           (* of the controller, see BufferSlots *)
  ptr,         (* offset_to_weights_ptr_, as offsets into the buffer       *)
  cpc,         (* where the controller is                                  *)
  buf,         (* the file sector each sector of the buffer holds          *)
  fdOpen       (* the direct I/O descriptor is open                        *)

VARIABLES
  running, stopReq, queue, groupStates, groupBusy, inFlight, ready, success,
  mpc, marg, mchunk, mk, mret, wpc, wjob, wk, wok, lastRead   (* see ChunkPrefetcher *)

Null == -1
BufferSectors == 0 .. WeightChunkBufferSize - 1

INSTANCE ChunkPrefetcher WITH Dests <- BufferSectors, NoDest <- Null

(* What the slot layout knows of a group and of the plan.                  *)
slot(g) == [index |-> g.index, size |-> TotalAlignedSize[g]]
ThePlan == [request |-> WeightChunkBufferSize, groups |-> {slot(g) : g \in Groups}]
NothingLoaded == [request |-> 0, groups |-> {}]

Layout == INSTANCE BufferSlots WITH
  Plans <- {ThePlan}, Alignment <- 1,
  loaded <- IF cpc = "load" THEN NothingLoaded ELSE ThePlan

controllerVars == <<capacity, slots, active, pending, ptr, cpc, fdOpen>>
ioVars == <<running, stopReq, queue, groupStates, groupBusy, inFlight, ready, success,
            mpc, marg, mchunk, mk, mret, wpc, wjob, wk, wok, lastRead>>
streamVars == <<mmapVars, controllerVars, buf, ioVars>>

ControllerPcs == {"load", "op", "filled", "wait", "schedule", "compute",
                  "close", "stop", "release", "done"}

group == GroupPerMode(mode, chunk)
Blank == -1        (* zeroed, overwritten in part, or read in part         *)

(* The sectors a read of group g to offset d writes.                       *)
Extent(g, d) == d .. d + TotalAlignedSize[g] - 1

(* Weights an operator sees through its pointer; nothing is known of what  *)
(* lies past the buffer.                                                   *)
Seen ==
  [k \in 1 .. ChunkLen[chunk] |->
     LET b == ptr[mode][chunk] + k - 1 IN IF b \in BufferSectors THEN buf[b] ELSE Blank]

StreamInit ==
  /\ MmapInit
  /\ PrefetcherInit
  /\ cpc = "load"
  /\ Layout!Init
  /\ ptr = [m \in Modes |-> [c \in Chunks |-> 0]]
  /\ buf = [b \in BufferSectors |-> Blank]
  /\ fdOpen = TRUE

-----------------------------------------------------------------------------

(* The plan is loaded, the buffer allocated and zeroed, the worker started.*)
(* XNNPACK then takes the address of slot 0 for every weight.              *)
Load ==
  /\ cpc = "load" /\ cpc' = "op"
  /\ Layout!LoadPrefetchPlan(ThePlan)
  /\ StartWorker
  /\ UNCHANGED <<mmapVars, ptr, buf, fdOpen>>

(* GetWeightChunkBufferAddr.                                               *)
BufferAddr(offset) == IF offset >= capacity THEN Null ELSE offset

(* The very first pre-invoke: its group is read into the active slot.      *)
FillActiveSlot ==
  /\ cpc = "op" /\ pending
  /\ IF BufferAddr(0) = Null
     THEN pending' = TRUE /\ cpc' = "compute"
     ELSE pending' = FALSE /\ cpc' = "filled"
  /\ Layout!InitialPrefetch(slot(group))
  /\ Submit(group, BufferAddr(0))
  /\ UNCHANGED <<mmapVars, ptr, buf, fdOpen>>

AwaitFill ==
  /\ cpc = "filled"
  /\ WaitReady(chunk)
  /\ cpc' = "wait"
  /\ UNCHANGED <<mmapVars, capacity, slots, active, pending, ptr, buf, fdOpen>>

(* Mutant: never switches.                                                 *)
PreInvokeNoSwitch ==
  /\ cpc = "op" /\ ~pending
  /\ WaitReady(chunk)
  /\ cpc' = "wait"
  /\ UNCHANGED <<mmapVars, capacity, slots, active, pending, ptr, buf, fdOpen>>

(* Mutant: relies on the group having been read since it was scheduled.    *)
PreInvokeNoWait ==
  /\ cpc = "op" /\ ~pending
  /\ active' = IF slots[active].index = group.index THEN active ELSE 1 - active
  /\ cpc' = "wait"
  /\ UNCHANGED <<mmapVars, capacity, slots, pending, ptr, buf, fdOpen, ioVars>>

(* Any later pre-invoke: if the active slot is not tagged with the group's *)
(* index the other slot becomes active, whatever that one holds.           *)
PreInvoke ==
  /\ cpc = "op" /\ ~pending
  /\ active' = IF slots[active].index = group.index THEN active ELSE 1 - active
  /\ WaitReady(chunk)
  /\ cpc' = "wait"
  /\ UNCHANGED <<mmapVars, capacity, slots, pending, ptr, buf, fdOpen>>

(* The hook gives up, its result is dropped, the operator runs.            *)
WaitFailed ==
  /\ cpc = "wait" /\ mpc = "idle" /\ ~mret
  /\ cpc' = "compute"
  /\ UNCHANGED <<mmapVars, capacity, slots, active, pending, ptr, buf, fdOpen, ioVars>>

UpdateWeightsPointer ==
  /\ cpc = "wait" /\ mpc = "idle" /\ mret
  /\ ptr' = [ptr EXCEPT ![mode][chunk] = slots[active].offset + RelativeOffset(group, chunk)]
  /\ cpc' = IF chunk = Head(ChunksOf[group]) THEN "schedule" ELSE "compute"
  /\ UNCHANGED <<mmapVars, capacity, slots, active, pending, buf, fdOpen, ioVars>>

next == GetNextChunkGroup(group)
nextOffset == Layout!ComputeInactiveSlotOffset(TotalAlignedSize[next])

(* ScheduleNextGroup returns early: this is the only group, the next one   *)
(* does not fit beside it, or the other slot has its tag already.          *)
NothingToSchedule ==
  /\ cpc = "schedule"
  /\ \/ next = group
     \/ nextOffset = Layout!NoOffset
     \/ slots[1 - active].index = next.index
  /\ cpc' = "compute"
  /\ UNCHANGED <<mmapVars, capacity, slots, active, pending, ptr, buf, fdOpen, ioVars>>

(* Mutant: describes the next group in the slot that is in use.            *)
ScheduleIntoActiveSlot ==
  /\ cpc = "schedule"
  /\ next # group /\ nextOffset # Layout!NoOffset
  /\ slots' = [slots EXCEPT ![active] =
       [offset |-> nextOffset, size |-> TotalAlignedSize[next], index |-> next.index]]
  /\ Submit(next, nextOffset)
  /\ cpc' = "compute"
  /\ UNCHANGED <<mmapVars, capacity, active, pending, ptr, buf, fdOpen>>

ScheduleNextGroup ==
  /\ cpc = "schedule"
  /\ next # group
  /\ cpc' = "compute"
  /\ Layout!ScheduleNextGroup(slot(next), BufferAddr(nextOffset) # Null)
  /\ Submit(next, BufferAddr(nextOffset))
  /\ UNCHANGED <<mmapVars, ptr, buf, fdOpen>>

(* The operator is done with the weights its pointer led to.               *)
FinishOperator ==
  /\ cpc = "compute" /\ mpc = "idle"
  /\ weights' = Seen
  /\ Advance
  /\ cpc' = IF generating' THEN "op" ELSE "close"
  /\ UNCHANGED <<capacity, slots, active, pending, ptr, buf, fdOpen, ioVars>>

(* End of the program: the descriptor is closed with a read perhaps still  *)
(* under way, then ~WeightChunkController stops the worker and frees.      *)
CloseDirectIOFileDescriptor ==
  /\ cpc = "close"
  /\ fdOpen' = FALSE
  /\ cpc' = "stop"
  /\ UNCHANGED <<mmapVars, capacity, slots, active, pending, ptr, buf, ioVars>>

(* Mutant: frees the buffer without stopping the worker.                   *)
DestroyWithoutStop ==
  /\ cpc = "stop"
  /\ cpc' = "release"
  /\ UNCHANGED <<mmapVars, capacity, slots, active, pending, ptr, buf, fdOpen, ioVars>>

DestroyController ==
  /\ cpc = "stop"
  /\ StopWorker
  /\ cpc' = "release"
  /\ UNCHANGED <<mmapVars, capacity, slots, active, pending, ptr, buf, fdOpen>>

ReleaseWeightChunkBuffer ==
  /\ cpc = "release" /\ mpc = "idle"
  /\ cpc' = "done"
  /\ Layout!ReleaseWeightChunkBuffer
  /\ UNCHANGED <<mmapVars, ptr, buf, fdOpen, ioVars>>

-----------------------------------------------------------------------------
(* Steps inside the prefetcher and their effect on the buffer.             *)

(* From the moment the worker has a job the sectors it reads to may change.*)
TakeJob ==
  /\ WorkerTake
  /\ buf' = [b \in BufferSectors |->
               IF b \in Extent(wjob'.group, wjob'.dest) THEN Blank ELSE buf[b]]
  /\ UNCHANGED <<mmapVars, controllerVars>>

(* A read of a descriptor that was closed under it succeeds or fails.      *)
ReadJob(ok) ==
  /\ WorkerRead(ok)
  /\ buf' = [b \in BufferSectors |->
               IF ok /\ b \in Extent(wjob.group, wjob.dest)
               THEN StartOf(wjob.group) + b - wjob.dest ELSE buf[b]]
  /\ UNCHANGED <<mmapVars, controllerVars>>

ReadOutcomes == IF fdOpen /\ ~MayFail THEN {TRUE} ELSE BOOLEAN

PrefetcherStep ==
  /\ MainStep \/ WorkerIdleStep \/ MarkStep \/ SpuriousWakeup
  /\ UNCHANGED <<mmapVars, controllerVars, buf>>

ControllerStep ==
  \/ Load \/ FillActiveSlot \/ AwaitFill \/ PreInvoke
  \/ WaitFailed \/ UpdateWeightsPointer \/ NothingToSchedule \/ ScheduleNextGroup
  \/ FinishOperator
  \/ CloseDirectIOFileDescriptor \/ DestroyController \/ ReleaseWeightChunkBuffer

Finished == cpc = "done" /\ UNCHANGED streamVars

StreamNext ==
  \/ ControllerStep
  \/ PrefetcherStep
  \/ TakeJob
  \/ \E ok \in ReadOutcomes : ReadJob(ok)
  \/ Finished

StreamSpec ==
  /\ StreamInit
  /\ [][StreamNext]_streamVars
  /\ WF_streamVars(ControllerStep)
  /\ PrefetcherFairness

-----------------------------------------------------------------------------

(* The controller's members and the buffer; the prefetcher's are typed by  *)
(* PrefetcherTypeOK.                                                       *)
StreamTypeOK ==
  /\ PrefetcherTypeOK
  /\ Layout!TypeOK
  /\ generating \in BOOLEAN /\ fdOpen \in BOOLEAN
  /\ mode \in Modes
  /\ step \in 0 .. DecodeSteps - 1
  /\ pos \in 1 .. Len(ModeChunks[mode])
  /\ ptr \in [Modes -> [Chunks -> Nat]]
  /\ cpc \in ControllerPcs
  /\ buf \in [BufferSectors -> Nat \cup {Blank}]

Computing == cpc = "compute" /\ mpc = "idle"

(* While an operator computes, the buffer holds its own weights where its  *)
(* pointer leads.  The hook checks a slot's group_index and a chunk's      *)
(* ready flag; neither says what the slot contains (controller.cc:548-584).*)
ComputesOwnWeights == Computing => Seen = FileWeights(chunk)

(* "Ensure active buffer slot matches current group" (controller.cc:545):  *)
(* an operator computes out of a slot tagged with its own group.           *)
ActiveSlotMatchesGroup == Computing => slots[active].index = group.index

(* Groups of the two modes share chunks and their flags.  A wait is still  *)
(* answered for the latest submission of its chunk only: no read of the    *)
(* chunk is outstanding in either mode (prefetcher.cc:913-919, 942-951).   *)
WaitAnswersForAllModes ==
  [][mpc = "pred" /\ mpc' = "idle"
       => ~Outstanding(mchunk) /\ mret' = (lastRead[mchunk] = "ok")]_ioVars

(* A read that is queued or under way never writes where the operator that *)
(* computes has its weights, so no read races with a kernel                *)
(* (controller.cc:396-424).                                                *)
NoReadUnderCompute ==
  Computing =>
    LET used == {ptr[mode][chunk] + k : k \in 0 .. ChunkLen[chunk] - 1} IN
    /\ \A i \in 1 .. Len(queue) : Extent(queue[i].group, queue[i].dest) \cap used = {}
    /\ wpc = "read" => Extent(wjob.group, wjob.dest) \cap used = {}

(* Submit's "Already in flight" answer is never the controller's: there it *)
(* would tag a slot that no read is going to fill (prefetcher.cc:905-911). *)
SubmitNeverDropped == mpc = "cas" => ~groupBusy[marg.group]

(* At most one group is queued or being read: the hook waits for a chunk   *)
(* of each group before it schedules the next one.  It is all that keeps   *)
(* the two io_uring threads out of each other's way (see EngineUsedByOne   *)
(* of IoUring; prefetcher.cc:269-314).                                     *)
OneReadOutstanding == Len(queue) + (IF wpc = "read" THEN 1 ELSE 0) <= 1

(* A read that is queued or under way writes inside the buffer as it is    *)
(* now allocated.  The engine checks nothing of a request but trusts the   *)
(* slot; and the buffer is freed only once no read into it is left,        *)
(* because the destructor joins the worker first (prefetcher.cc:280,       *)
(* controller.cc:30-35, 341-364).  It holds of plans whose file states the *)
(* groups' totals (TotalsStated), as the planner's do: of others the first *)
(* fill checks nothing (controller.cc:557-577), and a group can be larger  *)
(* than the buffer (utils.cc:489-496 before 674-685).                      *)
JobsInBuffer ==
  LET Inside(job) == Extent(job.group, job.dest) \subseteq 0 .. capacity - 1 IN
  /\ \A i \in 1 .. Len(queue) : Inside(queue[i])
  /\ wpc = "read" => Inside(wjob)

(* The layout of the slots is the one BufferSlots promises.                *)
LayoutSpec == Layout!Spec

(* Generation ends, whatever the reads return, unless the inference thread *)
(* is left blocked on a chunk that is ready (see ReadyWaiterReturns of     *)
(* ChunkPrefetcher): no other step waits for ever.                         *)
GenerationEnds ==
  \/ <>(cpc = "done")
  \/ <>[](mpc = "blocked" /\ ready[mchunk])
=============================================================================
