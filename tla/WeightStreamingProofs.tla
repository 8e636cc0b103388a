----------------------- MODULE WeightStreamingProofs -----------------------
(***************************************************************************)
(* What holds of WeightStreaming for every value of its constants.         *)
(*                                                                         *)
(* 1. For every plan, buffer size and outcome of the reads: the controller *)
(*    lays its slots out as BufferSlots promises; and if the plan file     *)
(*    states its totals, whatever the controller has queued for the worker *)
(*    stays inside the buffer, to the very end.                            *)
(* 2. For every plan likewise: the controller is a client of the           *)
(*    prefetcher as ChunkPrefetcher describes them, so what was proved     *)
(*    there holds here; and every variable keeps its type.                 *)
(* 3. For plans in which double buffering works out, with reads that do    *)
(*    not fail: the slots change hands as SlotHandover says, so an         *)
(*    operator computes on its own weights, and streaming implements       *)
(*    MmapInference.                                                       *)
(***************************************************************************)
EXTENDS SlotHandover, PrefetchPlanProofs

(* The jobs that stay inside the buffer of the plan, if its groups do.     *)
FittingJobs ==
  {job \in [group : Groups, dest : BufferSectors] :
     EachGroupFits => job.dest + TotalAlignedSize[job.group] <= WeightChunkBufferSize}

(* The inductive invariant, in four parts: there is always an operator to  *)
(* run; the slots have sizes, and the buffer is there while the plan is;   *)
Running ==
  /\ mode \in Modes
  /\ pos \in 1 .. Len(ModeChunks[mode])
  /\ cpc \in ControllerPcs

Buffered ==
  /\ slots \in [{0, 1} -> Layout!Slot]
  /\ active \in {0, 1}
  /\ capacity = IF cpc \in {"load", "done"} THEN 0 ELSE WeightChunkBufferSize

(* whatever was submitted fits;                                            *)
JobsFit ==
  /\ mpc \in SubmitPcs => marg \in FittingJobs
  /\ queue \in Seq(FittingJobs)
  /\ wpc = "read" => wjob \in FittingJobs

(* and the worker has been stopped, and its queue emptied, before the      *)
(* buffer goes.                                                            *)
StopFirst ==
  LET Quiet == mpc = "idle" /\ queue = <<>> /\ wpc = "off" IN
  /\ cpc \in {"load", "done"} => Quiet
  /\ mpc \in StopPcs => cpc = "release"
  /\ cpc = "release" =>
       \/ mpc \in {"stop", "clear"}
       \/ mpc \in {"wake", "join"} /\ queue = <<>>
       \/ Quiet

StreamInv == Running /\ Buffered /\ JobsFit /\ StopFirst

-----------------------------------------------------------------------------

LEMMA BufferSizeTyped ==
  WeightChunkBufferSize \in Nat /\ WeightChunkBufferSize > 0
BY BufferHoldsStated

(* The group of the operator that runs, and the one to schedule after it.  *)
LEMMA GroupsAtHand ==
  ASSUME Running
  PROVE  /\ group \in Groups /\ next \in Groups
         /\ TotalAlignedSize[group] \in Nat /\ TotalAlignedSize[next] \in Nat \ {0}
         /\ EachGroupFits => TotalAlignedSize[group] <= WeightChunkBufferSize
<1>1. group \in Groups
  BY HookFindsItsGroup DEF Running, group, chunk
<1>2. next \in Groups
  BY <1>1, NextGroupTyped DEF next
<1>3. QED
  BY <1>1, <1>2, GroupSizeTyped DEF EachGroupFits

(* The place chosen for the next group lies inside the buffer.             *)
LEMMA PlacedInside ==
  ASSUME Running, Buffered, cpc \notin {"load", "done"}, nextOffset # Layout!NoOffset
  PROVE  [group |-> next, dest |-> nextOffset] \in FittingJobs
<1> DEFINE held == slots[active].size
           size == TotalAlignedSize[next]
<1>1. held \in Nat /\ size \in Nat \ {0} /\ next \in Groups
  BY GroupsAtHand DEF Buffered, Layout!Slot
<1>2. capacity = WeightChunkBufferSize /\ capacity \in Nat
  BY BufferSizeTyped DEF Buffered
<1>3. nextOffset \in Nat /\ nextOffset + size <= capacity
  BY <1>1, <1>2 DEF nextOffset, Layout!ComputeInactiveSlotOffset, Layout!NoOffset
<1>4. nextOffset \in BufferSectors
  BY <1>1, <1>2, <1>3 DEF BufferSectors
<1>5. QED
  BY <1>1, <1>2, <1>3, <1>4 DEF FittingJobs

LEMMA InitStream == StreamInit => StreamInv /\ Layout!Init
<1> SUFFICES ASSUME StreamInit PROVE StreamInv /\ Layout!Init
  OBVIOUS
<1>1. mode = "PREFILL" /\ pos = 1 /\ cpc = "load"
  BY DEF StreamInit, MmapInit
<1>2. Running
  BY <1>1, ModeHasChunks DEF Running, Modes, ControllerPcs
<1>3. Layout!Init
  BY DEF StreamInit
<1>4. Buffered
  BY <1>1, <1>3 DEF Buffered, Layout!Init, Layout!EmptySlots, Layout!EmptySlot, Layout!Slots,
                    Layout!Slot, Layout!NoIndex
<1>5. mpc = "idle" /\ queue = <<>> /\ wpc = "off"
  BY DEF StreamInit, PrefetcherInit
<1>6. JobsFit /\ StopFirst
  BY <1>1, <1>5 DEF JobsFit, StopFirst, SubmitPcs, StopPcs
<1>7. QED
  BY <1>2, <1>3, <1>4, <1>6 DEF StreamInv

-----------------------------------------------------------------------------

(* Between loading and release the inference thread is in no stop.         *)
Generating == cpc \in ControllerPcs \ {"load", "release", "done"}

Calling ==
  \/ \E c \in Chunks : WaitReady(c)
  \/ \E g \in Groups, d \in Nat \cup {Null} : Submit(g, d)
  \/ UNCHANGED ioVars

LEMMA SubmitFits ==
  ASSUME JobsFit, NEW g, NEW d, Submit(g, d), d # Null => [group |-> g, dest |-> d] \in FittingJobs
  PROVE  JobsFit'
BY DEF Submit, Return, worker, JobsFit, SubmitPcs

LEMMA OtherCallsFit ==
  ASSUME JobsFit, \/ StartWorker \/ StopWorker \/ \E c \in Chunks : WaitReady(c)
                  \/ UNCHANGED ioVars
  PROVE  JobsFit'
BY DEF StartWorker, StopWorker, WaitReady, Goto, client, worker, ioVars, JobsFit, SubmitPcs

LEMMA CallsBeforeStop ==
  ASSUME StopFirst, Generating, Generating', Calling
  PROVE  StopFirst'
BY DEF Calling, WaitReady, Submit, Return, ioVars, StopFirst, Generating, StopPcs

(* What an action does that leaves the slots alone.                        *)
LEMMA SlotsUntouched ==
  ASSUME Buffered, Generating, Generating', UNCHANGED <<capacity, slots, active, pending>>
  PROVE  Buffered' /\ UNCHANGED Layout!vars
BY DEF Buffered, Generating, Layout!vars

LEMMA LoadKeeps ==
  ASSUME StreamInv, Load
  PROVE  StreamInv' /\ Layout!Next
<1>1. /\ cpc = "load" /\ cpc' = "op" /\ UNCHANGED <<mode, pos>>
      /\ Layout!LoadPrefetchPlan(ThePlan) /\ StartWorker
  BY DEF Load, mmapVars
<1>2. Layout!Next
  BY <1>1 DEF Layout!Next, Layout!Load
<1>3. Running'
  BY <1>1 DEF StreamInv, Running, ControllerPcs
<1>4. Layout!AlignTo(WeightChunkBufferSize) = WeightChunkBufferSize
  BY BufferSizeTyped DEF Layout!AlignTo
<1>5. Buffered'
  <2>1. capacity = 0 /\ ThePlan.request = WeightChunkBufferSize
    BY <1>1 DEF StreamInv, Buffered, ThePlan
  <2>2. /\ capacity' = WeightChunkBufferSize
        /\ slots' = Layout!EmptySlots /\ active' = 0
    BY <1>1, <1>4, <2>1, BufferSizeTyped DEF Layout!LoadPrefetchPlan
  <2>3. QED
    BY <1>1, <2>2 DEF Buffered, Layout!EmptySlots, Layout!EmptySlot, Layout!Slots, Layout!Slot,
                      Layout!NoIndex
<1>6. JobsFit'
  BY <1>1, OtherCallsFit DEF StreamInv
<1>7. StopFirst'
  BY <1>1 DEF StreamInv, StopFirst, StartWorker, StopPcs, client
<1>8. QED
  BY <1>2, <1>3, <1>5, <1>6, <1>7 DEF StreamInv

LEMMA FillKeeps ==
  ASSUME StreamInv, FillActiveSlot
  PROVE  StreamInv' /\ Layout!Next
<1> DEFINE d == BufferAddr(0)
<1>1. /\ cpc = "op" /\ cpc' \in {"compute", "filled"} /\ UNCHANGED <<mode, pos>>
      /\ Layout!InitialPrefetch(slot(group)) /\ Submit(group, d)
  BY DEF FillActiveSlot, mmapVars
<1>2. /\ group \in Groups /\ TotalAlignedSize[group] \in Nat
      /\ EachGroupFits => TotalAlignedSize[group] <= WeightChunkBufferSize
  BY GroupsAtHand DEF StreamInv
<1>3. Layout!Next
  <2>1. slot(group) \in ThePlan.groups
    BY <1>2 DEF ThePlan
  <2>2. QED
    BY <1>1, <2>1 DEF Layout!Next, Layout!Runtime
<1>4. Running' /\ Generating /\ Generating'
  BY <1>1 DEF StreamInv, Running, Generating, ControllerPcs
<1>5. Buffered'
  <2>1. slot(group).index \in Nat /\ slot(group).size \in Nat
    BY <1>2, GroupTyped DEF slot
  <2>2. [offset |-> 0, size |-> slot(group).size, index |-> slot(group).index] \in Layout!Slot
    BY <2>1 DEF Layout!Slot
  <2>3. QED
    BY <1>1, <1>4, <2>2 DEF StreamInv, Buffered, Generating, Layout!InitialPrefetch
<1>6. d \in {0, Null}
  BY DEF BufferAddr
<1>7. [group |-> group, dest |-> 0] \in FittingJobs
  BY <1>2, BufferSizeTyped DEF FittingJobs, BufferSectors
<1>8. JobsFit'
  BY <1>1, <1>6, <1>7, SubmitFits DEF StreamInv
<1>9. StopFirst'
  BY <1>1, <1>2, <1>4, <1>6, CallsBeforeStop DEF StreamInv, Calling
<1>10. QED
  BY <1>3, <1>4, <1>5, <1>8, <1>9 DEF StreamInv

LEMMA ScheduleKeeps ==
  ASSUME StreamInv, ScheduleNextGroup
  PROVE  StreamInv' /\ Layout!Next
<1> DEFINE d == BufferAddr(nextOffset)
<1>1. /\ cpc = "schedule" /\ cpc' = "compute" /\ UNCHANGED <<mode, pos>>
      /\ Layout!ScheduleNextGroup(slot(next), d # Null) /\ Submit(next, d)
  BY DEF ScheduleNextGroup, mmapVars
<1>2. next \in Groups /\ TotalAlignedSize[next] \in Nat
  BY GroupsAtHand DEF StreamInv
<1>3. slot(next).size = TotalAlignedSize[next] /\ slot(next).index = next.index
      /\ next.index \in Nat
  BY <1>2, GroupTyped DEF slot
<1>4. nextOffset # Layout!NoOffset
  BY <1>1, <1>3 DEF Layout!ScheduleNextGroup, nextOffset
<1>5. [group |-> next, dest |-> nextOffset] \in FittingJobs /\ nextOffset \in Nat
  <2>1. [group |-> next, dest |-> nextOffset] \in FittingJobs
    BY <1>1, <1>4, PlacedInside DEF StreamInv
  <2>2. QED
    BY <2>1 DEF FittingJobs, BufferSectors
<1>6. Layout!Next
  <2>1. slot(next) \in ThePlan.groups
    BY <1>2 DEF ThePlan
  <2>2. (d # Null) \in BOOLEAN
    OBVIOUS
  <2>3. QED
    BY <1>1, <2>1, <2>2 DEF Layout!Next, Layout!Runtime
<1>7. Running' /\ Generating /\ Generating'
  BY <1>1 DEF StreamInv, Running, Generating, ControllerPcs
<1>8. Buffered'
  <2> DEFINE s == IF d # Null
                  THEN [offset |-> nextOffset, size |-> slot(next).size, index |-> slot(next).index]
                  ELSE Layout!EmptySlot
  <2>1. s \in Layout!Slot
    BY <1>2, <1>3, <1>5 DEF Layout!Slot, Layout!EmptySlot, Layout!NoIndex
  <2>2. slots' = [slots EXCEPT ![1 - active] = s] /\ UNCHANGED <<capacity, active>>
    BY <1>1, <1>3 DEF Layout!ScheduleNextGroup, Layout!inactive, nextOffset
  <2> HIDE DEF s
  <2>3. QED
    BY <1>7, <2>1, <2>2 DEF StreamInv, Buffered, Generating
<1>9. d \in {nextOffset, Null}
  BY DEF BufferAddr
<1>10. JobsFit'
  BY <1>1, <1>5, <1>9, SubmitFits DEF StreamInv
<1>11. StopFirst'
  BY <1>1, <1>2, <1>5, <1>7, <1>9, CallsBeforeStop DEF StreamInv, Calling
<1>12. QED
  BY <1>6, <1>7, <1>8, <1>10, <1>11 DEF StreamInv

LEMMA PreInvokeKeeps ==
  ASSUME StreamInv, PreInvoke
  PROVE  StreamInv' /\ [Layout!Next]_(Layout!vars)
<1>1. /\ cpc = "op" /\ cpc' = "wait" /\ ~pending
      /\ UNCHANGED <<mode, pos, capacity, slots, pending>>
      /\ WaitReady(chunk)
      /\ active' = IF slots[active].index = group.index THEN active ELSE 1 - active
  BY DEF PreInvoke, mmapVars
<1>2. group \in Groups /\ chunk \in Chunks
  BY GroupsAtHand, HookFindsItsGroup DEF StreamInv, Running, chunk
<1>3. Running' /\ Generating /\ Generating'
  BY <1>1 DEF StreamInv, Running, Generating, ControllerPcs
<1>4. Buffered'
  BY <1>1, <1>3 DEF StreamInv, Buffered, Generating
<1>5. JobsFit' /\ StopFirst'
  BY <1>1, <1>2, <1>3, OtherCallsFit, CallsBeforeStop DEF StreamInv, Calling
<1>6. [Layout!Next]_(Layout!vars)
  <2>1. CASE slots[active].index = group.index
    BY <1>1, <2>1 DEF Layout!vars
  <2>2. CASE slots[active].index # group.index
    <3>1. slot(group) \in ThePlan.groups /\ slot(group).index = group.index
      BY <1>2 DEF ThePlan, slot
    <3>2. Layout!SwitchActiveBufferIndex(slot(group))
      BY <1>1, <2>2, <3>1 DEF Layout!SwitchActiveBufferIndex, Layout!inactive
    <3>3. QED
      BY <1>1, <3>1, <3>2 DEF Layout!Next, Layout!Runtime
  <2>3. QED
    BY <2>1, <2>2
<1>7. QED
  BY <1>3, <1>4, <1>5, <1>6 DEF StreamInv

(* The steps of the controller that leave slots and jobs as they are.      *)
LEMMA OtherStepsKeep ==
  ASSUME StreamInv,
         \/ AwaitFill \/ WaitFailed \/ UpdateWeightsPointer \/ NothingToSchedule
         \/ FinishOperator \/ CloseDirectIOFileDescriptor
  PROVE  StreamInv' /\ UNCHANGED Layout!vars
<1>1. cpc \in {"filled", "wait", "schedule", "compute", "close"}
      /\ cpc' \in {"wait", "schedule", "compute", "op", "close", "stop"}
      /\ UNCHANGED <<capacity, slots, active, pending>>
  BY DEF AwaitFill, WaitFailed, UpdateWeightsPointer, NothingToSchedule, FinishOperator,
         CloseDirectIOFileDescriptor
<1>2. WaitReady(chunk) \/ UNCHANGED ioVars
  BY DEF AwaitFill, WaitFailed, UpdateWeightsPointer, NothingToSchedule, FinishOperator,
         CloseDirectIOFileDescriptor
<1>3. Generating /\ Generating'
  BY <1>1 DEF Generating, ControllerPcs
<1>4. mode' \in Modes /\ pos' \in 1 .. Len(ModeChunks[mode'])
  <2>1. CASE UNCHANGED mmapVars
    BY <2>1 DEF mmapVars, StreamInv, Running
  <2>2. CASE Advance
    <3>1. mode \in Modes /\ pos \in 1 .. Len(ModeChunks[mode])
      BY DEF StreamInv, Running
    <3>2. Len(ModeChunks[mode]) \in Nat /\ Len(ModeChunks["DECODE"]) \in Nat \ {0}
      BY <3>1, ModeHasChunks DEF Modes
    <3>3. CASE NextOperator
      BY <3>1, <3>2, <3>3 DEF NextOperator
    <3>4. CASE EnterDecode
      BY <3>2, <3>4 DEF EnterDecode, Modes
    <3>5. CASE NextToken
      BY <3>2, <3>5 DEF NextToken, Modes
    <3>6. CASE EndGeneration
      BY <3>1, <3>6 DEF EndGeneration
    <3>7. QED
      BY <2>2, <3>3, <3>4, <3>5, <3>6 DEF Advance
  <2>3. QED
    BY <2>1, <2>2 DEF AwaitFill, WaitFailed, UpdateWeightsPointer, NothingToSchedule,
                      FinishOperator, CloseDirectIOFileDescriptor
<1>5. Running'
  BY <1>1, <1>4 DEF Running, ControllerPcs
<1>6. Buffered' /\ UNCHANGED Layout!vars
  BY <1>1, <1>3, SlotsUntouched DEF StreamInv
<1>7. chunk \in Chunks
  BY HookFindsItsGroup DEF StreamInv, Running, chunk
<1>8. JobsFit' /\ StopFirst'
  BY <1>2, <1>3, <1>7, OtherCallsFit, CallsBeforeStop DEF StreamInv, Calling
<1>9. QED
  BY <1>5, <1>6, <1>8 DEF StreamInv

LEMMA DestroyKeeps ==
  ASSUME StreamInv, DestroyController
  PROVE  StreamInv' /\ UNCHANGED Layout!vars
<1>1. /\ cpc = "stop" /\ cpc' = "release" /\ StopWorker
      /\ UNCHANGED <<mode, pos, capacity, slots, active, pending>>
  BY DEF DestroyController, mmapVars
<1>2. Running'
  BY <1>1 DEF StreamInv, Running, ControllerPcs
<1>3. Buffered' /\ UNCHANGED Layout!vars
  BY <1>1 DEF StreamInv, Buffered, Layout!vars
<1>4. JobsFit'
  BY <1>1, OtherCallsFit DEF StreamInv
<1>5. StopFirst'
  BY <1>1 DEF StreamInv, StopFirst, StopWorker, Goto, worker, StopPcs
<1>6. QED
  BY <1>2, <1>3, <1>4, <1>5 DEF StreamInv

LEMMA ReleaseKeeps ==
  ASSUME StreamInv, ReleaseWeightChunkBuffer
  PROVE  StreamInv' /\ Layout!Next
<1>1. /\ cpc = "release" /\ mpc = "idle" /\ cpc' = "done"
      /\ Layout!ReleaseWeightChunkBuffer
      /\ UNCHANGED <<mode, pos>> /\ UNCHANGED ioVars
  BY DEF ReleaseWeightChunkBuffer, mmapVars
<1>2. Running'
  BY <1>1 DEF StreamInv, Running, ControllerPcs
<1>3. Layout!Next
  BY <1>1 DEF Layout!Next, Layout!Runtime
<1>4. Buffered'
  BY <1>1 DEF Buffered, Layout!ReleaseWeightChunkBuffer, Layout!EmptySlots, Layout!EmptySlot,
              Layout!Slots, Layout!Slot, Layout!NoIndex
<1>5. JobsFit'
  BY <1>1, OtherCallsFit DEF StreamInv
<1>6. StopFirst'
  BY <1>1 DEF StreamInv, StopFirst, ioVars, StopPcs
<1>7. QED
  BY <1>2, <1>3, <1>4, <1>5, <1>6 DEF StreamInv

-----------------------------------------------------------------------------

(* Inside the prefetcher a job is handed on as it is.                      *)
LEMMA JobsHandedOn ==
  ASSUME JobsFit, MainStep \/ WorkerIdleStep \/ MarkStep \/ SpuriousWakeup \/ WorkerTake
  PROVE  JobsFit'
<1>1. CASE SubmitLookup \/ SubmitInsert \/ SubmitClaim \/ SubmitSetInFlight \/ SubmitClearReady
  BY <1>1 DEF JobsFit, SubmitPcs, SubmitLookup, SubmitInsert, SubmitClaim, SubmitSetInFlight,
              SubmitClearReady, Goto, Return, worker
<1>2. CASE SubmitPush
  <2>1. mpc = "push" /\ mpc' = "notify" /\ queue' = Append(queue, marg) /\ UNCHANGED <<wpc, wjob>>
    BY <1>2 DEF SubmitPush, Goto, worker
  <2>2. marg \in FittingJobs /\ queue \in Seq(FittingJobs)
    BY <2>1 DEF JobsFit, SubmitPcs
  <2>3. queue' \in Seq(FittingJobs)
    BY <2>1, <2>2
  <2>4. QED
    BY <2>1, <2>3 DEF JobsFit, SubmitPcs
<1>3. CASE SubmitNotify \/ WaitCheck \/ WaitBlock \/ SpuriousWakeup
  BY <1>3 DEF JobsFit, SubmitPcs, SubmitNotify, WakeWorker, WaitCheck, WaitBlock, SpuriousWakeup,
              WaitSpuriousWakeup, WorkerSpuriousWakeup, Goto, Return, worker, client
<1>4. CASE StopRequest \/ StopClearQueue \/ StopNotify \/ StopJoin
  <2>1. <<>> \in Seq(FittingJobs)
    OBVIOUS
  <2>2. UNCHANGED wjob /\ (wpc' = "read" => wpc = "read") /\ mpc' \notin SubmitPcs
    BY <1>4 DEF SubmitPcs, StopRequest, StopClearQueue, StopNotify, StopJoin, WakeWorker, Goto,
                Return, worker
  <2>3. queue' = <<>> \/ UNCHANGED queue
    BY <1>4 DEF StopRequest, StopClearQueue, StopNotify, StopJoin
  <2>4. QED
    BY <2>1, <2>2, <2>3 DEF JobsFit
<1>5. CASE WorkerIdleStep
  BY <1>5 DEF JobsFit, WorkerIdleStep, WorkerExit, WorkerFindsNothing, WorkerBlock, client
<1>6. CASE MarkStep
  BY <1>6 DEF JobsFit, SubmitPcs, MarkStep, MarkSuccess, MarkReady, MarkNotInFlight, MarkNotify,
              MarkGroup, client
<1>7. CASE WorkerTake
  <2>1. queue \in Seq(FittingJobs) /\ queue # <<>>
    BY <1>7 DEF JobsFit, WorkerTake
  <2>2. Head(queue) \in FittingJobs /\ Tail(queue) \in Seq(FittingJobs)
    BY <2>1
  <2>3. QED
    BY <1>7, <2>2 DEF JobsFit, WorkerTake, client
<1>8. QED
  BY <1>1, <1>2, <1>3, <1>4, <1>5, <1>6, <1>7 DEF MainStep

(* The queue stays empty and the worker off once StopWorker has seen to it.*)
LEMMA StopRunsItsCourse ==
  ASSUME StopFirst, UNCHANGED cpc, cpc \in ControllerPcs,
         \/ MainStep \/ WorkerIdleStep \/ MarkStep \/ SpuriousWakeup \/ WorkerTake
         \/ \E ok \in BOOLEAN : WorkerRead(ok)
  PROVE  StopFirst'
<1>1. CASE SubmitLookup \/ SubmitInsert \/ SubmitClaim \/ SubmitSetInFlight \/ SubmitClearReady
           \/ SubmitPush \/ SubmitNotify \/ WaitCheck \/ WaitBlock \/ WaitSpuriousWakeup
  BY <1>1 DEF StopFirst, StopPcs, SubmitLookup, SubmitInsert, SubmitClaim, SubmitSetInFlight,
              SubmitClearReady, SubmitPush, SubmitNotify, WaitCheck, WaitBlock,
              WaitSpuriousWakeup, Goto, Return
<1>2. CASE StopRequest \/ StopClearQueue \/ StopNotify \/ StopJoin
  BY <1>2 DEF StopFirst, StopPcs, StopRequest, StopClearQueue, StopNotify, StopJoin, Goto, Return,
              worker
<1>3. CASE WorkerIdleStep \/ WorkerSpuriousWakeup \/ WorkerTake \/ \E ok \in BOOLEAN : WorkerRead(ok)
  BY <1>3 DEF StopFirst, StopPcs, WorkerIdleStep, WorkerExit, WorkerFindsNothing, WorkerBlock,
              WorkerSpuriousWakeup, WorkerTake, WorkerRead, client
<1>4. CASE MarkStep
  BY <1>4 DEF StopFirst, StopPcs, MarkStep, MarkSuccess, MarkReady, MarkNotInFlight, MarkNotify,
              MarkGroup, client
<1>5. QED
  BY <1>1, <1>2, <1>3, <1>4 DEF MainStep, SpuriousWakeup

LEMMA PrefetcherKeeps ==
  ASSUME StreamInv, PrefetcherStep \/ TakeJob \/ \E ok \in ReadOutcomes : ReadJob(ok)
  PROVE  StreamInv' /\ UNCHANGED Layout!vars
<1>1. UNCHANGED <<mode, pos, cpc, capacity, slots, active, pending>>
  BY DEF PrefetcherStep, TakeJob, ReadJob, mmapVars, controllerVars
<1>2. Running' /\ Buffered' /\ UNCHANGED Layout!vars
  BY <1>1 DEF StreamInv, Running, Buffered, Layout!vars
<1>3. \/ MainStep \/ WorkerIdleStep \/ MarkStep \/ SpuriousWakeup \/ WorkerTake
      \/ \E ok \in BOOLEAN : WorkerRead(ok)
  BY DEF PrefetcherStep, TakeJob, ReadJob, ReadOutcomes
<1>4. JobsFit'
  <2>1. CASE \E ok \in BOOLEAN : WorkerRead(ok)
    BY <2>1 DEF StreamInv, JobsFit, WorkerRead, client
  <2>2. QED
    BY <1>3, <2>1, JobsHandedOn DEF StreamInv
<1>5. StopFirst'
  BY <1>1, <1>3, StopRunsItsCourse DEF StreamInv, Running
<1>6. QED
  BY <1>2, <1>4, <1>5 DEF StreamInv

LEMMA StreamNextKeeps ==
  ASSUME StreamInv, [StreamNext]_streamVars
  PROVE  StreamInv' /\ [Layout!Next]_(Layout!vars)
<1>1. CASE UNCHANGED streamVars
  <2>1. UNCHANGED <<mode, pos, cpc, capacity, slots, active, pending, mpc, marg, queue, wpc, wjob>>
    BY <1>1 DEF streamVars, mmapVars, controllerVars, ioVars
  <2>2. StreamInv'
    BY <2>1 DEF StreamInv, Running, Buffered, JobsFit, StopFirst
  <2>3. UNCHANGED Layout!vars
    BY <2>1 DEF Layout!vars
  <2>4. QED
    BY <2>2, <2>3
<1>2. CASE PrefetcherStep \/ TakeJob \/ \E ok \in ReadOutcomes : ReadJob(ok)
  BY <1>2, PrefetcherKeeps
<1>3. CASE ControllerStep
  BY <1>3, LoadKeeps, FillKeeps, PreInvokeKeeps, ScheduleKeeps, OtherStepsKeep, DestroyKeeps,
     ReleaseKeeps DEF ControllerStep
<1>4. QED
  BY <1>1, <1>2, <1>3 DEF StreamNext, Finished

-----------------------------------------------------------------------------

(* The controller's slots are laid out as BufferSlots promises, whatever   *)
(* the plan, the hooks' waits and the reads: every step of the streaming   *)
(* runtime is a step of the layout or leaves it alone (controller.cc:      *)
(* 341-424).                                                               *)
THEOREM StreamImplementsLayout == StreamSpec => LayoutSpec
<1>1. StreamInv /\ [StreamNext]_streamVars => StreamInv' /\ [Layout!Next]_(Layout!vars)
  BY StreamNextKeeps
<1>2. QED
  BY InitStream, <1>1, PTL DEF StreamSpec, LayoutSpec, Layout!Spec

(* No read that is queued or under way writes outside the buffer as it is  *)
(* allocated then, for every plan whose file states at least what the      *)
(* chunks of a group take; the buffer is freed only after the last read    *)
(* (prefetcher.cc:280, controller.cc:30-35, 341-364, 557-577).             *)
THEOREM ReadsStayInBuffer ==
  ASSUME TotalsStated
  PROVE  StreamSpec => []JobsInBuffer
<1>0. EachGroupFits
  BY StatedGroupsFit
<1>1. StreamInv /\ [StreamNext]_streamVars => StreamInv'
  BY StreamNextKeeps
<1>2. StreamInv => JobsInBuffer
  <2> SUFFICES ASSUME StreamInv PROVE JobsInBuffer
    OBVIOUS
  <2>1. CASE cpc \in {"load", "done"}
    BY <2>1 DEF StreamInv, StopFirst, JobsInBuffer
  <2>2. CASE cpc \notin {"load", "done"}
    <3>1. capacity = WeightChunkBufferSize
      BY <2>2 DEF StreamInv, Buffered
    <3>2. \A job \in FittingJobs : Extent(job.group, job.dest) \subseteq 0 .. capacity - 1
      <4> SUFFICES ASSUME NEW job \in FittingJobs
                   PROVE  Extent(job.group, job.dest) \subseteq 0 .. capacity - 1
        OBVIOUS
      <4>1. /\ job.group \in Groups /\ job.dest \in Nat
            /\ job.dest + TotalAlignedSize[job.group] <= capacity
        BY <1>0, <3>1 DEF FittingJobs, BufferSectors
      <4>2. TotalAlignedSize[job.group] \in Nat /\ capacity \in Nat
        BY <3>1, <4>1, GroupSizeTyped, BufferSizeTyped
      <4>3. QED
        BY <4>1, <4>2 DEF Extent
    <3>3. /\ \A i \in 1 .. Len(queue) : queue[i] \in FittingJobs
          /\ wpc = "read" => wjob \in FittingJobs
      BY SequenceFacts DEF StreamInv, JobsFit
    <3>4. QED
      BY <3>2, <3>3 DEF JobsInBuffer
  <2>3. QED
    BY <2>1, <2>2
<1>3. QED
  BY InitStream, <1>1, <1>2, PTL DEF StreamSpec

-----------------------------------------------------------------------------

Prefetcher == INSTANCE ChunkPrefetcherProofs WITH
  Dests <- BufferSectors, NoDest <- Null, MayFail <- TRUE

(* The worker runs between loading and the end.                            *)
WorkerRuns == running = (cpc \notin {"load", "release", "done"})

(* The types of what is the controller's alone.                            *)
MembersTyped ==
  /\ generating \in BOOLEAN /\ fdOpen \in BOOLEAN /\ pending \in BOOLEAN
  /\ step \in 0 .. DecodeSteps - 1
  /\ ptr \in [Modes -> [Chunks -> Nat]]
  /\ buf \in [BufferSectors -> Nat \cup {Blank}]

(* The constants of the instance meet the prefetcher's assumption.         *)
LEMMA PrefetcherConstants == Prefetcher!PrefetcherAssumption
<1>1. WeightChunkBufferSize \in Nat \ {0}
  BY BufferHoldsStated
<1>2. "DECODE" \in Modes
  BY DEF Modes
<1>3. Len(ModeChunks["DECODE"]) \in Nat \ {0}
  BY <1>2, ModeHasChunks
<1>4. 1 \in 1 .. Len(ModeChunks["DECODE"])
  BY <1>3
<1>5. Groups # {} /\ Chunks # {}
  BY <1>2, <1>4, HookFindsItsGroup
<1>6. 0 \in BufferSectors /\ Null \notin BufferSectors
  BY <1>1 DEF BufferSectors, Null
<1>7. ASSUME NEW g \in Groups
      PROVE  ChunksOf[g] \in Seq(Chunks) /\ Len(ChunksOf[g]) > 0
  <2>1. ChunksOf[g] \in Seq(Chunks) /\ Len(ChunksOf[g]) \in Nat \ {0}
    BY GroupTyped
  <2>2. QED
    BY <2>1
<1>8. ChunksOf \in [Groups -> Seq(Chunks)]
  <2>1. ChunksOf = [g \in Groups |-> ChunksOf[g]]
    BY DEF ChunksOf
  <2>2. QED
    BY <1>7, <2>1
<1>9. QED
  BY <1>5, <1>6, <1>7, <1>8 DEF Prefetcher!PrefetcherAssumption

(* WeightStreaming starts as the prefetcher does.                          *)
LEMMA InitIsPrefetcherInit == PrefetcherInit => Prefetcher!PrefetcherInit
  BY DEF PrefetcherInit, Prefetcher!PrefetcherInit, NoJob, Prefetcher!NoJob, NoChunk, Prefetcher!NoChunk

(* An action of the prefetcher is the same one wherever it is used.        *)
LEMMA MainStepsAreSteps ==
  ASSUME MainStep \/ SpuriousWakeup
  PROVE  Prefetcher!MainStep \/ Prefetcher!SpuriousWakeup
<1> USE DEF flags, client, worker, Prefetcher!flags, Prefetcher!client, Prefetcher!worker,
            Goto, Prefetcher!Goto
<1>1. \A value : Return(value) => Prefetcher!Return(value)
  BY DEF Return, Prefetcher!Return, NoJob, Prefetcher!NoJob, NoChunk, Prefetcher!NoChunk
<1>2. CASE SubmitLookup \/ SubmitInsert
  BY <1>2 DEF SubmitLookup, SubmitInsert, Prefetcher!SubmitLookup, Prefetcher!SubmitInsert,
              Prefetcher!MainStep
<1>3. CASE SubmitClaim
  BY <1>1, <1>3 DEF SubmitClaim, Prefetcher!SubmitClaim, Prefetcher!MainStep
<1>4. CASE SubmitSetInFlight \/ SubmitClearReady
  BY <1>4 DEF SubmitSetInFlight, SubmitClearReady, Prefetcher!SubmitSetInFlight,
              Prefetcher!SubmitClearReady, Prefetcher!MainStep
<1>5. CASE SubmitPush
  BY <1>5 DEF SubmitPush, Prefetcher!SubmitPush, QueueMutexFree, Prefetcher!QueueMutexFree,
              Prefetcher!MainStep
<1>6. CASE SubmitNotify
  BY <1>1, <1>6 DEF SubmitNotify, Prefetcher!SubmitNotify, WakeWorker, Prefetcher!WakeWorker,
              Prefetcher!MainStep
<1>7. CASE WaitCheck
  BY <1>1, <1>7 DEF WaitCheck, Prefetcher!WaitCheck, Prefetcher!MainStep
<1>8. CASE WaitBlock \/ StopRequest
  BY <1>8 DEF WaitBlock, StopRequest, Prefetcher!WaitBlock, Prefetcher!StopRequest,
              Prefetcher!MainStep
<1>9. CASE StopClearQueue \/ StopNotify
  BY <1>9 DEF StopClearQueue, StopNotify, Prefetcher!StopClearQueue, Prefetcher!StopNotify,
              QueueMutexFree, Prefetcher!QueueMutexFree, WakeWorker, Prefetcher!WakeWorker,
              Prefetcher!MainStep
<1>10. CASE StopJoin
  BY <1>1, <1>10 DEF StopJoin, Prefetcher!StopJoin, Prefetcher!MainStep
<1>11. CASE SpuriousWakeup
  BY <1>11 DEF SpuriousWakeup, WaitSpuriousWakeup, WorkerSpuriousWakeup, Prefetcher!SpuriousWakeup,
               Prefetcher!WaitSpuriousWakeup, Prefetcher!WorkerSpuriousWakeup
<1>12. QED
  BY <1>2, <1>3, <1>4, <1>5, <1>6, <1>7, <1>8, <1>9, <1>10, <1>11 DEF MainStep

(* So is one of the worker.                                                *)
LEMMA WorkerStepsAreSteps ==
  ASSUME WorkerTake \/ WorkerIdleStep \/ MarkStep \/ \E ok \in BOOLEAN : WorkerRead(ok)
  PROVE  Prefetcher!WorkerStep
<1> USE DEF flags, client, worker, Prefetcher!flags, Prefetcher!client, Prefetcher!worker
<1>1. CASE WorkerTake
  BY <1>1 DEF WorkerTake, Prefetcher!WorkerTake, Prefetcher!WorkerStep
<1>2. CASE WorkerIdleStep
  BY <1>2 DEF WorkerIdleStep, WorkerExit, WorkerFindsNothing, WorkerBlock,
              Prefetcher!WorkerIdleStep, Prefetcher!WorkerExit, Prefetcher!WorkerFindsNothing,
              Prefetcher!WorkerBlock, Prefetcher!WorkerStep
<1>3. CASE MarkStep
  <2> USE DEF wchunk, Prefetcher!wchunk
  <2>1. CASE MarkSuccess
    BY <2>1 DEF MarkSuccess, Prefetcher!MarkSuccess, HoldsMutex, Prefetcher!HoldsMutex,
                Prefetcher!MarkStep, Prefetcher!WorkerStep
  <2>2. CASE MarkReady \/ MarkNotInFlight
    BY <2>2 DEF MarkReady, MarkNotInFlight, Prefetcher!MarkReady, Prefetcher!MarkNotInFlight,
                Prefetcher!MarkStep, Prefetcher!WorkerStep
  <2>3. CASE MarkNotify
    BY <2>3 DEF MarkNotify, Prefetcher!MarkNotify, Prefetcher!MarkStep, Prefetcher!WorkerStep
  <2>4. CASE MarkGroup
    BY <2>4 DEF MarkGroup, Prefetcher!MarkGroup, NoJob, Prefetcher!NoJob, Prefetcher!MarkStep,
                Prefetcher!WorkerStep
  <2>5. QED
    BY <1>3, <2>1, <2>2, <2>3, <2>4 DEF MarkStep
<1>4. ASSUME NEW ok \in BOOLEAN, WorkerRead(ok)
      PROVE  Prefetcher!WorkerStep
  <2>1. Prefetcher!WorkerRead(ok)
    BY <1>4 DEF WorkerRead, Prefetcher!WorkerRead, ChunkSet, Prefetcher!ChunkSet
  <2>2. ok \in {TRUE, ~TRUE}
    OBVIOUS
  <2>3. QED
    BY <2>1, <2>2 DEF Prefetcher!WorkerStep
<1>5. QED
  BY <1>1, <1>2, <1>3, <1>4

(* A call of the controller is a call of the interface, made while the     *)
(* worker runs.                                                            *)
LEMMA CallsAreCalls ==
  /\ \A g \in Groups, d \in BufferSectors \cup {Null} : running /\ Submit(g, d) => Prefetcher!Call
  /\ \A c \in Chunks : running /\ WaitReady(c) => Prefetcher!Call
  /\ StartWorker \/ StopWorker => Prefetcher!Call
<1> USE DEF flags, client, worker, Prefetcher!flags, Prefetcher!client, Prefetcher!worker
<1>1. \A g, d : Submit(g, d) => Prefetcher!Submit(g, d)
  BY DEF Submit, Prefetcher!Submit, Return, Prefetcher!Return, NoJob, Prefetcher!NoJob, NoChunk,
         Prefetcher!NoChunk
<1>2. \A c : WaitReady(c) => Prefetcher!WaitReady(c)
  BY DEF WaitReady, Prefetcher!WaitReady
<1>3. StartWorker => Prefetcher!StartWorker
  BY DEF StartWorker, Prefetcher!StartWorker
<1>4. StopWorker => Prefetcher!StopWorker
  BY DEF StopWorker, Prefetcher!StopWorker, Goto, Prefetcher!Goto
<1>5. QED
  BY <1>1, <1>2, <1>3, <1>4 DEF Prefetcher!Call

(* Where an action of the controller has a group read to.                  *)
LEMMA PlacesAreSectors ==
  ASSUME StreamInv, FillActiveSlot \/ ScheduleNextGroup
  PROVE  \E g \in Groups, d \in BufferSectors \cup {Null} : Submit(g, d)
<1>1. CASE FillActiveSlot
  <2>1. 0 \in BufferSectors
    BY BufferSizeTyped DEF BufferSectors
  <2>2. BufferAddr(0) \in BufferSectors \cup {Null}
    BY <2>1 DEF BufferAddr
  <2>3. group \in Groups
    BY GroupsAtHand DEF StreamInv
  <2>4. QED
    BY <1>1, <2>2, <2>3 DEF FillActiveSlot
<1>2. CASE ScheduleNextGroup
  <2>1. cpc = "schedule" /\ next \in Groups
    BY <1>2, GroupsAtHand DEF ScheduleNextGroup, StreamInv
  <2>2. nextOffset # Layout!NoOffset
    BY <1>2 DEF ScheduleNextGroup, Layout!ScheduleNextGroup, nextOffset, slot
  <2>3. [group |-> next, dest |-> nextOffset] \in FittingJobs
    BY <2>1, <2>2, PlacedInside DEF StreamInv
  <2>4. BufferAddr(nextOffset) \in BufferSectors \cup {Null}
    BY <2>3 DEF FittingJobs, BufferAddr
  <2>5. QED
    BY <1>2, <2>1, <2>4 DEF ScheduleNextGroup
<1>3. QED
  BY <1>1, <1>2

(* The controller uses the interface as it is meant to be used.            *)
LEMMA StreamStepIsPrefetcherStep ==
  ASSUME StreamInv, WorkerRuns, [StreamNext]_streamVars
  PROVE  [Prefetcher!PrefetcherNext]_(Prefetcher!prefetcherVars)
<1>1. CASE UNCHANGED ioVars
  BY <1>1 DEF ioVars, Prefetcher!prefetcherVars, Prefetcher!flags, Prefetcher!client,
              Prefetcher!worker
<1>2. CASE UNCHANGED streamVars
  BY <1>1, <1>2 DEF streamVars
<1>3. CASE Load \/ DestroyController
  BY <1>3, CallsAreCalls DEF Load, DestroyController, Prefetcher!PrefetcherNext
<1>4. CASE FillActiveSlot \/ ScheduleNextGroup
  <2>1. running
    BY <1>4 DEF WorkerRuns, FillActiveSlot, ScheduleNextGroup
  <2>2. QED
    BY <1>4, <2>1, PlacesAreSectors, CallsAreCalls DEF Prefetcher!PrefetcherNext
<1>5. CASE AwaitFill \/ PreInvoke
  <2>1. running /\ WaitReady(chunk)
    BY <1>5 DEF WorkerRuns, AwaitFill, PreInvoke
  <2>2. chunk \in Chunks
    BY HookFindsItsGroup DEF StreamInv, Running, chunk
  <2>3. QED
    BY <2>1, <2>2, CallsAreCalls DEF Prefetcher!PrefetcherNext
<1>6. CASE \/ WaitFailed \/ UpdateWeightsPointer \/ NothingToSchedule \/ FinishOperator
           \/ CloseDirectIOFileDescriptor \/ ReleaseWeightChunkBuffer \/ Finished
  BY <1>1, <1>6 DEF WaitFailed, UpdateWeightsPointer, NothingToSchedule, FinishOperator,
                    CloseDirectIOFileDescriptor, ReleaseWeightChunkBuffer, Finished, streamVars
<1>7. CASE PrefetcherStep \/ TakeJob
  BY <1>7, MainStepsAreSteps, WorkerStepsAreSteps
     DEF PrefetcherStep, TakeJob, Prefetcher!PrefetcherNext
<1>8. CASE \E ok \in ReadOutcomes : ReadJob(ok)
  <2>1. \E ok \in BOOLEAN : WorkerRead(ok)
    BY <1>8 DEF ReadOutcomes, ReadJob
  <2>2. QED
    BY <2>1, WorkerStepsAreSteps DEF Prefetcher!PrefetcherNext
<1>9. QED
  BY <1>2, <1>3, <1>4, <1>5, <1>6, <1>7, <1>8 DEF StreamNext, ControllerStep

(* StartWorker is called once, on loading, and StopWorker once, at the     *)
(* end.                                                                    *)
LEMMA WorkerKeepsRunning ==
  ASSUME WorkerRuns, [StreamNext]_streamVars
  PROVE  WorkerRuns'
<1>1. CASE Load \/ DestroyController
  BY <1>1 DEF Load, DestroyController, StartWorker, StopWorker, WorkerRuns
<1>2. CASE \/ FillActiveSlot \/ AwaitFill \/ PreInvoke \/ WaitFailed \/ UpdateWeightsPointer
           \/ NothingToSchedule \/ ScheduleNextGroup \/ FinishOperator
           \/ CloseDirectIOFileDescriptor \/ ReleaseWeightChunkBuffer
  BY <1>2 DEF FillActiveSlot, AwaitFill, PreInvoke, WaitFailed, UpdateWeightsPointer,
              NothingToSchedule, ScheduleNextGroup, FinishOperator, CloseDirectIOFileDescriptor,
              ReleaseWeightChunkBuffer, Submit, WaitReady, ioVars, WorkerRuns
<1>3. CASE PrefetcherStep
  BY <1>3 DEF PrefetcherStep, controllerVars, MainStep, MarkStep, WorkerIdleStep, SpuriousWakeup,
    SubmitLookup, SubmitInsert, SubmitClaim, SubmitSetInFlight, SubmitClearReady, SubmitPush,
    SubmitNotify, WaitCheck, WaitBlock, StopRequest, StopClearQueue, StopNotify, StopJoin,
    MarkSuccess, MarkReady, MarkNotInFlight, MarkNotify, MarkGroup, WorkerExit, WorkerFindsNothing,
    WorkerBlock, WaitSpuriousWakeup, WorkerSpuriousWakeup, WorkerRuns
<1>4. CASE TakeJob \/ \E ok \in ReadOutcomes : ReadJob(ok)
  BY <1>4 DEF TakeJob, ReadJob, controllerVars, WorkerTake, WorkerRead, WorkerRuns
<1>5. CASE UNCHANGED streamVars
  BY <1>5 DEF streamVars, controllerVars, ioVars, WorkerRuns
<1>6. QED
  BY <1>1, <1>2, <1>3, <1>4, <1>5 DEF StreamNext, ControllerStep, Finished

(* The invariant of every plan and every outcome of the reads.             *)
LEMMA StreamInvariant == StreamSpec => [](StreamInv /\ WorkerRuns)
<1>1. StreamInit => WorkerRuns
  BY DEF StreamInit, PrefetcherInit, WorkerRuns
<1>2. StreamInv /\ WorkerRuns /\ [StreamNext]_streamVars => (StreamInv /\ WorkerRuns)'
  BY StreamNextKeeps, WorkerKeepsRunning
<1>3. QED
  BY InitStream, <1>1, <1>2, PTL DEF StreamSpec

(* The controller is a client of the prefetcher like any other: whatever   *)
(* was proved of it for every use of its interface holds here.             *)
PrefetcherBehaviour ==
  Prefetcher!PrefetcherInit /\ [][Prefetcher!PrefetcherNext]_(Prefetcher!prefetcherVars)

(* The controller uses WeightChunkPrefetcher as its interface is meant to  *)
(* be used, so every behaviour of it is one of ChunkPrefetcher: calls one  *)
(* at a time, Submit and WaitReady between StartWorker and StopWorker only *)
(* (controller.cc:30-35, 145-200, 316-394, 535-601).                       *)
THEOREM StreamUsesPrefetcher == StreamSpec => PrefetcherBehaviour
<1>1. StreamInit => Prefetcher!PrefetcherInit
  BY InitIsPrefetcherInit DEF StreamInit
<1>2. StreamInv /\ WorkerRuns /\ [StreamNext]_streamVars
        => [Prefetcher!PrefetcherNext]_(Prefetcher!prefetcherVars)
  BY StreamStepIsPrefetcherStep
<1>3. QED
  BY <1>1, <1>2, StreamInvariant, PTL DEF StreamSpec, PrefetcherBehaviour

(* What was proved of the prefetcher for every use holds here.             *)
LEMMA StreamTypes == StreamSpec => [](Prefetcher!TypeInv /\ Prefetcher!ClaimInv)
<1>1. Prefetcher!PrefetcherInit => Prefetcher!TypeInv /\ Prefetcher!ClaimInv
  BY PrefetcherConstants, Prefetcher!InitTypes, Prefetcher!InitClaims
<1>2. Prefetcher!TypeInv /\ Prefetcher!ClaimInv
      /\ [Prefetcher!PrefetcherNext]_(Prefetcher!prefetcherVars)
        => (Prefetcher!TypeInv /\ Prefetcher!ClaimInv)'
  BY PrefetcherConstants, Prefetcher!StepTypes, Prefetcher!StepClaims
<1>3. QED
  BY <1>1, <1>2, StreamUsesPrefetcher, PTL DEF PrefetcherBehaviour

(* Loading and scheduling change the slots alone.                          *)
LEMMA LoadKeepsMembers ==
  ASSUME MembersTyped, Load \/ FillActiveSlot \/ ScheduleNextGroup \/ ReleaseWeightChunkBuffer
  PROVE  MembersTyped'
<1>1. UNCHANGED <<generating, fdOpen, step, ptr, buf>>
  BY DEF Load, FillActiveSlot, ScheduleNextGroup, ReleaseWeightChunkBuffer, mmapVars
<1>2. pending' \in BOOLEAN
  BY DEF MembersTyped, Load, FillActiveSlot, ScheduleNextGroup, ReleaseWeightChunkBuffer,
         Layout!LoadPrefetchPlan, Layout!ScheduleNextGroup, Layout!ReleaseWeightChunkBuffer
<1>3. QED
  BY <1>1, <1>2 DEF MembersTyped

(* The new pointer is an offset that is not negative.                      *)
LEMMA PointerKeepsMembers ==
  ASSUME StreamInv, MembersTyped, UpdateWeightsPointer
  PROVE  MembersTyped'
<1>1. ptr' = [ptr EXCEPT ![mode][chunk] = slots[active].offset + RelativeOffset(group, chunk)]
      /\ UNCHANGED <<generating, fdOpen, pending, step, buf>>
  BY DEF UpdateWeightsPointer, mmapVars
<1>2. slots[active].offset \in Nat
  BY DEF StreamInv, Buffered, Layout!Slot
<1>3. group \in Groups /\ chunk \in Chunks /\ mode \in Modes
  BY GroupsAtHand, HookFindsItsGroup DEF StreamInv, Running, chunk
<1>4. RelativeOffset(group, chunk) \in Nat
  <2>1. ChunksOf[group] \in Seq(Chunks) /\ Len(ChunksOf[group]) \in Nat \ {0}
    BY <1>3, GroupTyped
  <2>2. Head(ChunksOf[group]) \in Chunks
    BY <2>1
  <2>3. StartOf(group) \in Nat /\ ChunkAt[chunk] \in Nat
    BY <1>3, <2>2, PlanAssumption DEF StartOf
  <2>4. QED
    BY <2>3 DEF RelativeOffset
<1> DEFINE v == slots[active].offset + RelativeOffset(group, chunk)
<1>5. v \in Nat
  BY <1>2, <1>4
<1> HIDE DEF v
<1>6. ptr' = [ptr EXCEPT ![mode][chunk] = v]
  BY <1>1 DEF v
<1>7. ptr' \in [Modes -> [Chunks -> Nat]]
  BY <1>3, <1>5, <1>6 DEF MembersTyped
<1>8. QED
  BY <1>1, <1>7 DEF MembersTyped

(* The other steps of the controller.                                      *)
LEMMA AdvanceKeepsMembers ==
  ASSUME MembersTyped,
         \/ FinishOperator \/ CloseDirectIOFileDescriptor \/ AwaitFill \/ PreInvoke \/ WaitFailed
         \/ NothingToSchedule \/ DestroyController \/ PrefetcherStep \/ UNCHANGED streamVars
  PROVE  MembersTyped'
<1>1. UNCHANGED <<pending, ptr, buf>> /\ fdOpen' \in BOOLEAN
  BY DEF FinishOperator, CloseDirectIOFileDescriptor, AwaitFill, PreInvoke, WaitFailed,
         NothingToSchedule, DestroyController, PrefetcherStep, streamVars, controllerVars, MembersTyped
<1>2. Advance \/ UNCHANGED <<generating, step>>
  BY DEF FinishOperator, CloseDirectIOFileDescriptor, AwaitFill, PreInvoke, WaitFailed,
         NothingToSchedule, DestroyController, PrefetcherStep, streamVars, mmapVars
<1>3. generating' \in BOOLEAN /\ step' \in 0 .. DecodeSteps - 1
  <2>1. step \in 0 .. DecodeSteps - 1 /\ DecodeSteps \in Nat \ {0} /\ generating \in BOOLEAN
    BY DecodeStepsAssumption DEF MembersTyped
  <2>2. CASE UNCHANGED step
    BY <1>2, <2>1, <2>2 DEF Advance, NextOperator, EnterDecode, NextToken, EndGeneration
  <2>3. CASE step' = step + 1 /\ step + 1 < DecodeSteps /\ UNCHANGED generating
    BY <2>1, <2>3
  <2>4. QED
    BY <1>2, <2>2, <2>3 DEF Advance, NextOperator, EnterDecode, NextToken, EndGeneration
<1>4. QED
  BY <1>1, <1>3 DEF MembersTyped

(* What a read brings are sectors of the file.                             *)
LEMMA ReadKeepsMembers ==
  ASSUME StreamInv, MembersTyped, TakeJob \/ \E ok \in ReadOutcomes : ReadJob(ok)
  PROVE  MembersTyped'
<1>1. UNCHANGED <<generating, fdOpen, pending, step, ptr>>
  BY DEF TakeJob, ReadJob, mmapVars, controllerVars
<1>2. CASE TakeJob
  <2>1. buf' \in [BufferSectors -> Nat \cup {Blank}]
    BY <1>2 DEF TakeJob, MembersTyped
  <2>2. QED
    BY <1>1, <2>1 DEF MembersTyped
<1>3. ASSUME NEW ok \in ReadOutcomes, ReadJob(ok)
      PROVE  MembersTyped'
  <2>1. wjob \in FittingJobs
    BY <1>3 DEF ReadJob, WorkerRead, StreamInv, JobsFit
  <2>2. wjob.group \in Groups /\ wjob.dest \in Nat
    BY <2>1 DEF FittingJobs, BufferSectors
  <2>3. ChunksOf[wjob.group] \in Seq(Chunks) /\ Len(ChunksOf[wjob.group]) \in Nat \ {0}
    BY <2>2, GroupTyped
  <2>4. StartOf(wjob.group) \in Nat
    BY <2>3, PlanAssumption DEF StartOf
  <2>5. TotalAlignedSize[wjob.group] \in Nat
    BY <2>2, GroupSizeTyped
  <2>6. \A b \in Extent(wjob.group, wjob.dest) : StartOf(wjob.group) + b - wjob.dest \in Nat
    BY <2>2, <2>4, <2>5 DEF Extent
  <2>7. buf' \in [BufferSectors -> Nat \cup {Blank}]
    BY <1>3, <2>6 DEF ReadJob, MembersTyped
  <2>8. QED
    BY <1>1, <2>7 DEF MembersTyped
<1>4. QED
  BY <1>2, <1>3

(* The members of the controller have their types.                         *)
LEMMA StreamMembers == StreamSpec => []MembersTyped
<1>1. StreamInit => MembersTyped
  <2> SUFFICES ASSUME StreamInit PROVE MembersTyped
    OBVIOUS
  <2>1. pending = TRUE /\ step = 0 /\ generating = TRUE /\ fdOpen = TRUE
    BY DEF StreamInit, MmapInit, Layout!Init
  <2>2. ptr \in [Modes -> [Chunks -> Nat]] /\ buf \in [BufferSectors -> Nat \cup {Blank}]
    BY DEF StreamInit
  <2>3. QED
    BY <2>1, <2>2, DecodeStepsAssumption DEF MembersTyped
<1>2. StreamInv /\ MembersTyped /\ [StreamNext]_streamVars => MembersTyped'
  BY LoadKeepsMembers, PointerKeepsMembers, AdvanceKeepsMembers, ReadKeepsMembers
     DEF StreamNext, ControllerStep, Finished
<1>3. QED
  BY <1>1, <1>2, StreamInvariant, PTL DEF StreamSpec

(* Every member of the controller, the prefetcher and the engine keeps its *)
(* type, and the buffer holds sectors of the file or nothing known.        *)
THEOREM StreamTypeCorrect == StreamSpec => []StreamTypeOK
<1>1. StreamInv /\ MembersTyped /\ Prefetcher!TypeInv => StreamTypeOK
  <2> SUFFICES ASSUME StreamInv, MembersTyped, Prefetcher!TypeInv PROVE StreamTypeOK
    OBVIOUS
  <2>1. PrefetcherTypeOK
    BY DEF Prefetcher!TypeInv, Prefetcher!PrefetcherTypeOK, PrefetcherTypeOK, Job, Prefetcher!Job,
           MainPcs, Prefetcher!MainPcs, WorkerPcs, Prefetcher!WorkerPcs, MarkPcs,
           Prefetcher!MarkPcs, Outcomes, Prefetcher!Outcomes
  <2>2. Layout!TypeOK
    <3>1. ASSUME NEW g \in Groups PROVE slot(g) \in Layout!SlotGroup
      BY GroupTyped, GroupSizeTyped DEF slot, Layout!SlotGroup
    <3>2. ThePlan \in Layout!SlotPlan
      BY <3>1, BufferSizeTyped DEF ThePlan, Layout!SlotPlan
    <3>3. NothingLoaded = Layout!NoPlan
      BY DEF NothingLoaded, Layout!NoPlan
    <3>4. capacity \in Nat
      BY BufferSizeTyped DEF StreamInv, Buffered
    <3>5. QED
      BY <3>2, <3>3, <3>4 DEF Layout!TypeOK, StreamInv, Buffered, Layout!Slots, MembersTyped
  <2>3. QED
    BY <2>1, <2>2 DEF StreamTypeOK, StreamInv, Running, MembersTyped
<1>2. QED
  BY <1>1, StreamInvariant, StreamMembers, StreamTypes, PTL

-----------------------------------------------------------------------------

(* What holds of every plan.                                               *)
Basics ==
  /\ StreamInv /\ WorkerRuns /\ MembersTyped
  /\ Prefetcher!TypeInv /\ Prefetcher!ClaimInv

LEMMA ChunkSetIsRange ==
  ASSUME NEW g \in Groups
  PROVE  ChunkSet(g) = Range(ChunksOf[g])
<1>1. ChunksOf[g] \in Seq(Chunks)
  BY GroupTyped
<1>2. DOMAIN ChunksOf[g] = 1 .. Len(ChunksOf[g])
  BY <1>1, SequenceFacts
<1>3. QED
  BY <1>2 DEF ChunkSet, Range

(* The operator at hand, its group and the next one.                       *)
LEMMA AtHand ==
  ASSUME MoreGroupsThanSlots, Basics
  PROVE  /\ mode \in Modes /\ pos \in 1 .. Len(ModeChunks[mode])
         /\ group \in Groups /\ next \in Groups /\ Due \in Groups
         /\ chunk \in Chunks /\ chunk \in ChunkSet(group) /\ chunk \in Range(ChunksOf[group])
         /\ next # group /\ next.index # group.index
         /\ GetNextChunkGroup(next).index # group.index
         /\ \A g \in Groups : GetNextChunkGroup(g) # g
         /\ active \in {0, 1} /\ DueSlot \in {0, 1} /\ 1 - active # active /\ 1 - (1 - active) = active
<1>1. mode \in Modes /\ pos \in 1 .. Len(ModeChunks[mode]) /\ active \in {0, 1}
  BY DEF Basics, StreamInv, Running, Buffered
<1>2. group \in Groups /\ chunk \in Chunks /\ chunk \in Range(ChunksOf[group])
  BY <1>1, HookFindsItsGroup DEF group, chunk
<1>3. next = GetNextChunkGroup(group)
  BY DEF next
<1>4. next \in Groups /\ next # group /\ next.index # group.index
      /\ GetNextChunkGroup(next).index # group.index
  BY <1>2, <1>3, IndicesDiffer
<1>5. \A g \in Groups : GetNextChunkGroup(g) # g
  BY IndicesDiffer
<1>6. DueSlot \in {0, 1} /\ 1 - active # active /\ 1 - (1 - active) = active
  BY <1>1 DEF DueSlot
<1>7. QED
  BY <1>1, <1>2, <1>4, <1>5, <1>6, ChunkSetIsRange DEF Due

(* A step inside the prefetcher changes nothing of what is at hand.        *)
LEMMA ViewKept ==
  ASSUME UNCHANGED <<mmapVars, controllerVars>>
  PROVE  /\ UNCHANGED <<generating, mode, step, pos, weights>>
         /\ UNCHANGED <<capacity, slots, active, pending, ptr, cpc, fdOpen>>
         /\ UNCHANGED <<chunk, group, next, first, Entering, Due, DueSlot, DueJob>>
<1>1. /\ UNCHANGED <<generating, mode, step, pos, weights>>
      /\ UNCHANGED <<capacity, slots, active, pending, ptr, cpc, fdOpen>>
  BY DEF mmapVars, controllerVars
<1>2. UNCHANGED <<chunk, group>>
  BY <1>1 DEF chunk, group
<1>3. UNCHANGED <<next, first, Entering>>
  BY <1>1, <1>2 DEF next, first, Entering
<1>4. UNCHANGED <<Due, DueSlot>>
  BY <1>1, <1>2, <1>3 DEF Due, DueSlot
<1>5. UNCHANGED DueJob
  BY <1>1, <1>4 DEF DueJob
<1>6. QED
  BY <1>1, <1>2, <1>3, <1>4, <1>5

(* Sizes of groups and the place of the buffer's slots.                    *)
LEMMA SizesAtHand ==
  ASSUME MoreGroupsThanSlots, Basics
  PROVE  /\ \A g \in Groups : TotalAlignedSize[g] \in Nat \ {0}
         /\ WeightChunkBufferSize \in Nat \ {0}
         /\ slots \in [{0, 1} -> Layout!Slot]
         /\ \A s \in {0, 1} : slots[s].offset \in Nat /\ slots[s].size \in Nat
<1>1. slots \in [{0, 1} -> Layout!Slot]
  BY DEF Basics, StreamInv, Buffered
<1>2. \A s \in {0, 1} : slots[s].offset \in Nat /\ slots[s].size \in Nat
  BY <1>1 DEF Layout!Slot
<1>3. QED
  BY <1>1, <1>2, GroupSizeTyped, BufferHoldsStated

Moves == CallInv /\ JobsInv /\ MarkInv /\ BusyInv

(* Submit between its lookup and its push.                                 *)
LEMMA SubmitMoves ==
  ASSUME Moves, UNCHANGED <<mmapVars, controllerVars>>,
         SubmitLookup \/ SubmitInsert \/ SubmitSetInFlight \/ SubmitClearReady
  PROVE  Moves' /\ (Coming' <=> Coming)
<1>1. /\ mpc \in SubmitPcs /\ mpc' \in SubmitPcs
      /\ mpc' \in ClaimedPcs <=> mpc \in ClaimedPcs
      /\ UNCHANGED <<marg, queue, wpc, wjob, groupBusy>>
  BY DEF SubmitLookup, SubmitInsert, SubmitSetInFlight, SubmitClearReady, Goto, SubmitPcs, ClaimedPcs,
         flags, worker
<1>2. /\ UNCHANGED <<generating, capacity, slots, active, pending, cpc, fdOpen>>
      /\ UNCHANGED <<chunk, first, Due, DueJob>>
  BY ViewKept
<1>3. mpc # "idle" /\ mpc' # "idle" /\ mpc \notin StopPcs \cup WaitPcs
  BY <1>1 DEF SubmitPcs, StopPcs, WaitPcs
<1>4. CallInv'
  BY <1>1, <1>2, <1>3 DEF Moves, CallInv
<1>5. (Coming' <=> Coming) /\ Coming
  BY <1>1 DEF Coming
<1>6. JobsInv'
  BY <1>1, <1>2, <1>3, <1>5 DEF Moves, JobsInv
<1>7. MarkInv'
  BY <1>1, <1>2, <1>5 DEF Moves, MarkInv
<1>8. BusyInv'
  BY <1>1, <1>2 DEF Moves, BusyInv, Queued, Reading, Marking
<1>9. QED
  BY <1>4, <1>5, <1>6, <1>7, <1>8 DEF Moves

(* The group to be submitted is not in flight: its last job is over.       *)
LEMMA ClaimNeverFails ==
  ASSUME MoreGroupsThanSlots, Basics, Moves, mpc = "cas"
  PROVE  ~groupBusy[marg.group]
<1>1. /\ mpc \in SubmitPcs /\ mpc \notin ClaimedPcs /\ mpc # "idle"
      /\ mpc \notin WaitPcs \cup StopPcs
  BY DEF SubmitPcs, ClaimedPcs, WaitPcs, StopPcs
<1>2. /\ marg = DueJob /\ queue = <<>> /\ wpc # "read" /\ marg.group = Due
  BY <1>1 DEF Moves, JobsInv, DueJob
<1>3. Due \in Groups /\ \A g \in Groups : GetNextChunkGroup(g) # g
  BY AtHand
<1>4. cpc \notin {"release", "done"} /\ Coming
  BY <1>1 DEF Moves, CallInv, Coming
<1>5. ~Queued(Due) /\ ~Reading(Due)
  BY <1>2 DEF Queued, Reading
<1>6. ~Marking(Due)
  BY <1>3, <1>4 DEF Moves, MarkInv, Marking
<1>7. QED
  BY <1>1, <1>2, <1>3, <1>4, <1>5, <1>6 DEF Moves, BusyInv

(* Submit's compare-and-swap, which succeeds.                              *)
LEMMA ClaimMoves ==
  ASSUME MoreGroupsThanSlots, Basics, Moves, UNCHANGED <<mmapVars, controllerVars>>, SubmitClaim
  PROVE  Moves' /\ (Coming' <=> Coming)
<1>1. mpc = "cas" /\ ~groupBusy[marg.group]
  BY ClaimNeverFails DEF SubmitClaim
<1>2. /\ mpc' = "flag" /\ groupBusy' = [groupBusy EXCEPT ![marg.group] = TRUE]
      /\ UNCHANGED <<marg, queue, wpc, wjob>>
  BY <1>1 DEF SubmitClaim, Goto, worker
<1>3. /\ UNCHANGED <<generating, capacity, slots, active, pending, cpc, fdOpen>>
      /\ UNCHANGED <<chunk, first, Due, DueJob>>
  BY ViewKept
<1>4. /\ mpc \in SubmitPcs /\ mpc' \in SubmitPcs /\ mpc \notin ClaimedPcs /\ mpc' \in ClaimedPcs
      /\ mpc # "idle" /\ mpc' # "idle" /\ mpc \notin StopPcs \cup WaitPcs
  BY <1>1, <1>2 DEF SubmitPcs, ClaimedPcs, StopPcs, WaitPcs
<1>5. CallInv'
  BY <1>3, <1>4 DEF Moves, CallInv
<1>6. (Coming' <=> Coming) /\ Coming
  BY <1>2, <1>4 DEF Coming
<1>7. JobsInv'
  BY <1>2, <1>3, <1>4, <1>6 DEF Moves, JobsInv
<1>8. MarkInv'
  BY <1>2, <1>3, <1>6 DEF Moves, MarkInv
<1>9. BusyInv'
  <2> SUFFICES ASSUME cpc' \notin {"release", "done"}, NEW g \in Groups, groupBusy'[g]
               PROVE  (mpc' \in ClaimedPcs /\ marg'.group = g)
                      \/ Queued(g)' \/ Reading(g)' \/ Marking(g)'
    BY DEF BusyInv
  <2>1. groupBusy \in [Groups -> BOOLEAN]
    BY DEF Basics, Prefetcher!TypeInv, Prefetcher!PrefetcherTypeOK
  <2>2. g = marg.group \/ groupBusy[g]
    BY <1>2, <2>1
  <2>3. QED
    BY <1>2, <1>3, <1>4, <2>2 DEF Moves, BusyInv, Queued, Reading, Marking
<1>10. QED
  BY <1>5, <1>6, <1>7, <1>8, <1>9 DEF Moves

(* Submit's push: the job that was being submitted is queued.              *)
LEMMA PushMoves ==
  ASSUME Moves, UNCHANGED <<mmapVars, controllerVars>>, SubmitPush
  PROVE  Moves' /\ (Coming' <=> Coming)
<1>1. /\ mpc = "push" /\ mpc' = "notify" /\ queue' = Append(queue, marg)
      /\ UNCHANGED <<marg, wpc, wjob, groupBusy>>
  BY DEF SubmitPush, Goto, worker, flags
<1>2. /\ UNCHANGED <<generating, capacity, slots, active, pending, cpc, fdOpen>>
      /\ UNCHANGED <<chunk, first, Due, DueJob>>
  BY ViewKept
<1>3. /\ mpc \in SubmitPcs /\ mpc' \notin SubmitPcs /\ mpc' \notin ClaimedPcs
      /\ mpc # "idle" /\ mpc' # "idle" /\ mpc \notin StopPcs \cup WaitPcs
  BY <1>1 DEF SubmitPcs, ClaimedPcs, StopPcs, WaitPcs
<1>4. CallInv'
  BY <1>1, <1>2, <1>3 DEF Moves, CallInv
<1>5. marg = DueJob /\ queue = <<>> /\ wpc # "read"
  BY <1>3 DEF Moves, JobsInv
<1>6. queue' = <<DueJob>> /\ queue' # <<>>
  BY <1>1, <1>5
<1>7. Coming /\ Coming'
  BY <1>3, <1>6 DEF Coming
<1>8. JobsInv'
  BY <1>1, <1>2, <1>3, <1>5, <1>6, <1>7 DEF Moves, JobsInv
<1>9. MarkInv'
  BY <1>1, <1>2, <1>7 DEF Moves, MarkInv
<1>10. BusyInv'
  <2>1. Queued(marg.group)'
    <3>1. Len(queue') = 1 /\ queue'[1] = marg
      BY <1>5, <1>6
    <3>2. QED
      BY <1>1, <3>1 DEF Queued
  <2>2. \A g : Queued(g) => FALSE
    BY <1>5 DEF Queued
  <2>3. QED
    BY <1>1, <1>2, <2>1, <2>2 DEF Moves, BusyInv, Reading, Marking
<1>11. QED
  BY <1>4, <1>7, <1>8, <1>9, <1>10 DEF Moves

(* The end of a call, and steps of a wait that go on waiting.              *)
LEMMA WaitingMoves ==
  ASSUME Moves, UNCHANGED <<mmapVars, controllerVars>>,
         \/ SubmitNotify \/ WaitBlock \/ SpuriousWakeup
         \/ WaitCheck /\ ~(ready[mchunk] \/ ~inFlight[mchunk])
  PROVE  Moves' /\ (Coming' <=> Coming)
<1>1. /\ mpc \in {"notify"} \cup WaitPcs \/ mpc' = mpc
      /\ mpc = "notify" => mpc' \in {"idle", "notify"}
      /\ mpc \in WaitPcs => mpc' \in WaitPcs /\ mchunk' = mchunk
      /\ mpc' = mpc => UNCHANGED <<marg, mchunk, mret>>
  <2>1. CASE SubmitNotify
    BY <2>1 DEF SubmitNotify, Return, WaitPcs
  <2>2. CASE WorkerSpuriousWakeup
    BY <2>2 DEF WorkerSpuriousWakeup, client
  <2>3. QED
    BY <2>1, <2>2 DEF WaitBlock, SpuriousWakeup, WaitSpuriousWakeup, WaitCheck, Goto, WaitPcs
<1>2. /\ UNCHANGED <<queue, wjob, groupBusy>>
      /\ wpc' = "read" <=> wpc = "read"
      /\ wpc' \in MarkPcs <=> wpc \in MarkPcs
  BY DEF SubmitNotify, WaitBlock, SpuriousWakeup, WaitSpuriousWakeup, WorkerSpuriousWakeup, WaitCheck,
         WakeWorker, flags, worker, MarkPcs
<1>3. /\ UNCHANGED <<generating, capacity, slots, active, pending, cpc, fdOpen>>
      /\ UNCHANGED <<chunk, first, Due, DueJob>>
  BY ViewKept
<1>4. /\ mpc' \in SubmitPcs <=> mpc \in SubmitPcs
      /\ mpc' \in SubmitPcs => UNCHANGED marg
      /\ mpc' \in ClaimedPcs <=> mpc \in ClaimedPcs
  BY <1>1 DEF SubmitPcs, ClaimedPcs, WaitPcs
<1>5. \A p \in WaitPcs : p # "idle" /\ p \notin SubmitPcs \cup StopPcs
  BY DEF SubmitPcs, StopPcs, WaitPcs
<1>6. "notify" \notin SubmitPcs \cup StopPcs \cup WaitPcs
  BY DEF SubmitPcs, StopPcs, WaitPcs
<1>7. CallInv'
  <2>1. CASE mpc = "notify" /\ mpc' = "idle"
    BY <1>1, <1>3, <1>6, <2>1 DEF Moves, CallInv
  <2>2. CASE mpc \in WaitPcs
    BY <1>1, <1>3, <1>5, <2>2 DEF Moves, CallInv
  <2>3. CASE mpc' = mpc
    BY <1>1, <1>3, <2>3 DEF Moves, CallInv
  <2>4. QED
    BY <1>1, <2>1, <2>2, <2>3
<1>8. Coming' <=> Coming
  BY <1>2, <1>4 DEF Coming
<1>9. JobsInv'
  <2>1. first /\ cpc = "wait" /\ mpc' = "idle" => mpc = "idle"
    BY <1>1, <1>5 DEF Moves, CallInv
  <2>2. QED
    BY <1>2, <1>3, <1>4, <1>8, <2>1 DEF Moves, JobsInv
<1>10. MarkInv'
  BY <1>2, <1>3, <1>8 DEF Moves, MarkInv
<1>11. BusyInv'
  <2>1. ClaimedPcs \subseteq SubmitPcs
    BY DEF ClaimedPcs, SubmitPcs
  <2>2. QED
    BY <1>2, <1>3, <1>4, <2>1 DEF Moves, BusyInv, Queued, Reading, Marking
<1>12. QED
  BY <1>7, <1>8, <1>9, <1>10, <1>11 DEF Moves

(* A wait is answered when its chunk's group has been read, and read well. *)
LEMMA AnswerIsGood ==
  ASSUME MoreGroupsThanSlots, Basics, Moves, ContentInv, Prefetcher!FreshInv,
         mpc = "pred", ~Prefetcher!Awaited(mchunk)
  PROVE  success[mchunk] /\ (first => ~Coming)
<1>1. cpc = "wait" /\ mchunk = chunk /\ fdOpen /\ ~pending /\ mpc \notin SubmitPcs
  BY DEF WaitPcs, SubmitPcs, StopPcs, Moves, CallInv
<1>2. /\ group \in Groups /\ chunk \in Chunks /\ chunk \in ChunkSet(group) /\ DueSlot \in {0, 1}
  BY AtHand
<1>3. /\ ~Prefetcher!Outstanding(chunk)
      /\ success[chunk] = (lastRead[chunk] = "ok")
  BY <1>1, <1>2 DEF Prefetcher!FreshInv
<1>4. first => Entering /\ Due = group
  BY <1>1 DEF Entering, Due
<1>5. chunk \in Prefetcher!ChunkSet(group)
  BY <1>2 DEF ChunkSet, Prefetcher!ChunkSet
<1>6. first => ~Coming
  <2> SUFFICES ASSUME first, Coming PROVE FALSE
    OBVIOUS
  <2>1. CASE queue # <<>>
    <3>1. queue = <<DueJob>>
      BY <2>1 DEF Moves, JobsInv
    <3>2. Len(queue) = 1 /\ queue[1].group = group
      BY <1>4, <3>1 DEF DueJob
    <3>3. Prefetcher!Queued(group)
      BY <3>2 DEF Prefetcher!Queued
    <3>4. QED
      BY <1>2, <1>3, <1>5, <3>3 DEF Prefetcher!Outstanding
  <2>2. CASE wpc = "read"
    <3>1. wjob.group = group
      BY <1>4, <2>2 DEF Moves, JobsInv, DueJob
    <3>2. Prefetcher!Reading(group)
      BY <2>2, <3>1 DEF Prefetcher!Reading
    <3>3. QED
      BY <1>2, <1>3, <1>5, <3>2 DEF Prefetcher!Outstanding
  <2>3. QED
    BY <1>1, <2>1, <2>2 DEF Coming
<1>7. lastRead[chunk] = "ok"
  <2>1. CASE first
    BY <1>1, <1>2, <1>4, <1>6, <2>1 DEF ContentInv, Held
  <2>2. CASE ~first
    BY <1>1, <1>2, <2>2 DEF ContentInv, Held, Entering
  <2>3. QED
    BY <2>1, <2>2
<1>8. QED
  BY <1>1, <1>3, <1>6, <1>7

(* A wait that is answered.                                                *)
LEMMA AnswerMoves ==
  ASSUME MoreGroupsThanSlots, Basics, Moves, ContentInv, Prefetcher!FreshInv,
         UNCHANGED <<mmapVars, controllerVars>>,
         WaitCheck, ready[mchunk] \/ ~inFlight[mchunk]
  PROVE  Moves' /\ (Coming' <=> Coming)
<1>1. /\ mpc = "pred" /\ mpc' = "idle" /\ mret' = success[mchunk]
      /\ UNCHANGED <<queue, wpc, wjob, groupBusy>>
  BY DEF WaitCheck, Return, worker, flags
<1>2. success[mchunk] /\ (first => ~Coming)
  BY <1>1, AnswerIsGood DEF Prefetcher!Awaited
<1>3. /\ UNCHANGED <<generating, capacity, slots, active, pending, cpc, fdOpen>>
      /\ UNCHANGED <<chunk, first, Due, DueJob>>
  BY ViewKept
<1>4. /\ mpc \notin SubmitPcs /\ mpc \notin ClaimedPcs /\ mpc' \notin SubmitPcs /\ mpc' \notin ClaimedPcs
      /\ mpc # "idle" /\ mpc \notin StopPcs
  BY <1>1 DEF SubmitPcs, ClaimedPcs, StopPcs
<1>5. CallInv'
  BY <1>1, <1>2, <1>3, <1>4 DEF Moves, CallInv
<1>6. Coming' <=> Coming
  BY <1>1, <1>4 DEF Coming
<1>7. JobsInv'
  <2>1. ~pending /\ cpc = "wait"
    BY <1>1 DEF Moves, CallInv, SubmitPcs, StopPcs
  <2>2. QED
    BY <1>1, <1>2, <1>3, <1>4, <1>6, <2>1 DEF Moves, JobsInv
<1>8. MarkInv'
  BY <1>1, <1>3, <1>6 DEF Moves, MarkInv
<1>9. BusyInv'
  BY <1>1, <1>3, <1>4 DEF Moves, BusyInv, Queued, Reading, Marking
<1>10. QED
  BY <1>5, <1>6, <1>7, <1>8, <1>9 DEF Moves

(* StopWorker, which only the destructor calls.                            *)
LEMMA StopMoves ==
  ASSUME Moves, UNCHANGED <<mmapVars, controllerVars>>,
         StopRequest \/ StopClearQueue \/ StopNotify \/ StopJoin
  PROVE  Moves' /\ cpc = "release"
<1>1. /\ mpc \in StopPcs /\ mpc' \in StopPcs \cup {"idle"}
      /\ queue' \in {queue, <<>>} /\ UNCHANGED wjob
      /\ wpc' = "read" <=> wpc = "read"
      /\ wpc' \in MarkPcs <=> wpc \in MarkPcs
  BY DEF StopRequest, StopClearQueue, StopNotify, StopJoin, WakeWorker, Goto, Return, worker, StopPcs,
         MarkPcs
<1>2. /\ UNCHANGED <<generating, capacity, slots, active, pending, cpc, fdOpen>>
      /\ UNCHANGED <<chunk, first, Due, DueJob>>
  BY ViewKept
<1>3. \A p \in StopPcs \cup {"idle"} : p \notin SubmitPcs \cup WaitPcs \cup {"notify"}
  BY DEF SubmitPcs, StopPcs, WaitPcs
<1>4. cpc = "release" /\ ~pending
  BY <1>1, <1>3 DEF Moves, CallInv, StopPcs
<1>5. CallInv'
  BY <1>1, <1>2, <1>3, <1>4 DEF Moves, CallInv
<1>6. JobsInv'
  BY <1>1, <1>2, <1>3, <1>4 DEF Moves, JobsInv
<1>7. MarkInv'
  <2>1. mpc \notin SubmitPcs /\ mpc' \notin SubmitPcs
    BY <1>1, <1>3
  <2>2. Coming' => Coming
    BY <1>1, <2>1 DEF Coming
  <2>3. QED
    BY <1>1, <1>2, <1>4, <2>2 DEF Moves, MarkInv
<1>8. BusyInv'
  BY <1>2, <1>4 DEF BusyInv
<1>9. QED
  BY <1>4, <1>5, <1>6, <1>7, <1>8 DEF Moves

-----------------------------------------------------------------------------

(* Steps of the worker leave the inference thread's calls alone, except    *)
(* that MarkNotify may wake a wait.                                        *)
LEMMA WorkerLeavesCalls ==
  ASSUME CallInv, UNCHANGED <<mmapVars, controllerVars>>,
         \/ UNCHANGED client
         \/ mpc = "blocked" /\ mpc' = "pred" /\ UNCHANGED <<marg, mchunk, mk, mret>>
  PROVE  CallInv'
<1>1. /\ UNCHANGED <<generating, capacity, slots, active, pending, cpc, fdOpen>>
      /\ UNCHANGED <<chunk, first>>
  BY ViewKept
<1>2. CASE UNCHANGED client
  BY <1>1, <1>2 DEF client, CallInv
<1>3. CASE mpc = "blocked" /\ mpc' = "pred" /\ UNCHANGED <<marg, mchunk, mk, mret>>
  BY <1>1, <1>3 DEF CallInv, SubmitPcs, WaitPcs, StopPcs
<1>4. QED
  BY <1>2, <1>3

(* The worker takes the job that is due.                                   *)
LEMMA TakeMoves ==
  ASSUME Moves, UNCHANGED <<mmapVars, controllerVars>>, WorkerTake
  PROVE  Moves' /\ Coming /\ Coming' /\ wjob' = DueJob
<1>1. /\ wpc = "check" /\ wpc' = "read" /\ queue # <<>> /\ wjob' = Head(queue) /\ queue' = Tail(queue)
      /\ UNCHANGED groupBusy /\ UNCHANGED client
  BY DEF WorkerTake, flags
<1>2. queue = <<DueJob>>
  BY <1>1 DEF Moves, JobsInv
<1>3. wjob' = DueJob /\ queue' = <<>>
  BY <1>1, <1>2
<1>4. CallInv'
  BY <1>1, WorkerLeavesCalls DEF Moves
<1>5. /\ UNCHANGED <<mpc, marg, pending, cpc>> /\ UNCHANGED <<first, Due, DueJob>>
  BY <1>1, ViewKept DEF client
<1>6. Coming /\ Coming'
  BY <1>1 DEF Coming
<1>7. JobsInv'
  BY <1>1, <1>3, <1>5, <1>6 DEF Moves, JobsInv
<1>8. MarkInv'
  BY <1>1 DEF MarkInv, MarkPcs
<1>9. BusyInv'
  <2>1. \A g : Queued(g) => Reading(g)'
    <3>1. Len(queue) = 1 /\ queue[1] = wjob'
      BY <1>2, <1>3
    <3>2. QED
      BY <1>1, <3>1 DEF Queued, Reading
  <2>2. \A g : ~Reading(g) /\ ~Marking(g)
    BY <1>1 DEF Reading, Marking, MarkPcs
  <2>3. QED
    BY <1>1, <1>5, <2>1, <2>2 DEF Moves, BusyInv
<1>10. QED
  BY <1>3, <1>4, <1>6, <1>7, <1>8, <1>9 DEF Moves

(* The worker finds nothing, blocks, wakes or leaves.                      *)
LEMMA IdleMoves ==
  ASSUME Moves, UNCHANGED <<mmapVars, controllerVars>>, WorkerIdleStep
  PROVE  Moves' /\ (Coming' <=> Coming)
<1>1. /\ wpc # "read" /\ wpc' # "read" /\ wpc \notin MarkPcs /\ wpc' \notin MarkPcs
      /\ UNCHANGED <<queue, groupBusy>> /\ UNCHANGED client
  BY DEF WorkerIdleStep, WorkerExit, WorkerFindsNothing, WorkerBlock, flags, MarkPcs
<1>2. CallInv'
  BY <1>1, WorkerLeavesCalls DEF Moves
<1>3. /\ UNCHANGED <<mpc, marg, pending, cpc>> /\ UNCHANGED <<first, Due, DueJob>>
  BY <1>1, ViewKept DEF client
<1>4. Coming' <=> Coming
  BY <1>1, <1>3 DEF Coming
<1>5. JobsInv' /\ MarkInv'
  BY <1>1, <1>3, <1>4 DEF Moves, JobsInv, MarkInv
<1>6. BusyInv'
  BY <1>1, <1>3 DEF Moves, BusyInv, Queued, Reading, Marking
<1>7. QED
  BY <1>2, <1>4, <1>5, <1>6 DEF Moves

(* The read returns: nothing is coming any more.                           *)
LEMMA ReadMoves ==
  ASSUME Moves, UNCHANGED <<mmapVars, controllerVars>>, NEW ok, WorkerRead(ok)
  PROVE  Moves' /\ Coming /\ ~Coming' /\ wjob = DueJob
<1>1. /\ wpc = "read" /\ wpc' = "mark" /\ UNCHANGED <<queue, wjob, groupBusy>> /\ UNCHANGED client
  BY DEF WorkerRead, flags
<1>2. wjob = DueJob /\ queue = <<>> /\ mpc \notin SubmitPcs /\ wjob.group = Due
  BY <1>1 DEF Moves, JobsInv, DueJob
<1>3. CallInv'
  BY <1>1, WorkerLeavesCalls DEF Moves
<1>4. /\ UNCHANGED <<mpc, marg, pending, cpc>> /\ UNCHANGED <<first, Due, DueJob>>
  BY <1>1, ViewKept DEF client
<1>5. Coming /\ ~Coming'
  BY <1>1, <1>2, <1>4 DEF Coming
<1>6. JobsInv'
  BY <1>1, <1>2, <1>4, <1>5 DEF Moves, JobsInv
<1>7. MarkInv'
  <2>1. ~pending
    BY <1>5 DEF Moves, JobsInv
  <2>2. QED
    BY <1>1, <1>2, <1>4, <1>5, <2>1 DEF MarkInv
<1>8. BusyInv'
  <2>1. \A g : Reading(g) => Marking(g)'
    BY <1>1 DEF Reading, Marking, MarkPcs
  <2>2. \A g : ~Queued(g) /\ ~Marking(g)
    BY <1>1, <1>2 DEF Queued, Marking, MarkPcs
  <2>3. QED
    BY <1>1, <1>4, <2>1, <2>2 DEF Moves, BusyInv
<1>9. QED
  BY <1>2, <1>3, <1>5, <1>6, <1>7, <1>8 DEF Moves

(* MarkJobCompleted.                                                       *)
LEMMA MarkMoves ==
  ASSUME Basics, Moves, UNCHANGED <<mmapVars, controllerVars>>, MarkStep
  PROVE  Moves' /\ (Coming' <=> Coming)
<1>1. /\ wpc \in MarkPcs /\ wpc # "read" /\ wpc' # "read" /\ UNCHANGED <<queue, marg>>
      /\ wpc' \in MarkPcs => UNCHANGED <<wjob, groupBusy>>
      /\ wpc' \notin MarkPcs => groupBusy' = [groupBusy EXCEPT ![wjob.group] = FALSE]
  BY DEF MarkStep, MarkSuccess, MarkReady, MarkNotInFlight, MarkNotify, MarkGroup, MarkPcs, client,
         flags
<1>2. UNCHANGED client \/ (mpc = "blocked" /\ mpc' = "pred" /\ UNCHANGED <<marg, mchunk, mk, mret>>)
  BY DEF MarkStep, MarkSuccess, MarkReady, MarkNotInFlight, MarkNotify, MarkGroup, client
<1>3. CallInv'
  BY <1>2, WorkerLeavesCalls DEF Moves
<1>4. /\ mpc' \in SubmitPcs <=> mpc \in SubmitPcs
      /\ mpc' \in ClaimedPcs <=> mpc \in ClaimedPcs
      /\ mpc' = "idle" <=> mpc = "idle"
  BY <1>2 DEF SubmitPcs, ClaimedPcs, client
<1>5. /\ UNCHANGED <<pending, cpc>> /\ UNCHANGED <<first, Due, DueJob>>
  BY ViewKept
<1>6. Coming' <=> Coming
  BY <1>1, <1>4 DEF Coming
<1>7. JobsInv'
  BY <1>1, <1>4, <1>5, <1>6 DEF Moves, JobsInv
<1>8. MarkInv'
  BY <1>1, <1>5, <1>6 DEF Moves, MarkInv
<1>9. BusyInv'
  <2>1. CASE wpc' \in MarkPcs
    BY <1>1, <1>4, <1>5, <2>1 DEF Moves, BusyInv, Queued, Reading, Marking
  <2>2. CASE wpc' \notin MarkPcs
    <3>1. groupBusy \in [Groups -> BOOLEAN]
      BY DEF Basics, Prefetcher!TypeInv, Prefetcher!PrefetcherTypeOK
    <3>2. \A g \in Groups : groupBusy'[g] => groupBusy[g] /\ ~Marking(g) /\ ~Reading(g)
      BY <1>1, <2>2, <3>1 DEF Marking, Reading
    <3>3. QED
      BY <1>1, <1>4, <1>5, <3>2 DEF Moves, BusyInv, Queued
  <2>3. QED
    BY <2>1, <2>2
<1>10. QED
  BY <1>3, <1>6, <1>7, <1>8, <1>9 DEF Moves

(* The group that is marked shares no chunk with one that is on its way.   *)
LEMMA MarkedIsApart ==
  ASSUME DoubleBuffered, Basics, Moves
  PROVE  Prefetcher!MarkedApart
<1> SUFFICES ASSUME wpc \in MarkPcs, NEW g \in Groups,
                    Prefetcher!Queued(g) \/ (mpc \in ClaimedPcs /\ marg.group = g)
             PROVE  Prefetcher!ChunkSet(g) \cap Prefetcher!ChunkSet(wjob.group) = {}
  BY DEF Prefetcher!MarkedApart, Prefetcher!MarkPcs, MarkPcs, ClaimedPcs
<1>1. g = Due /\ Coming
  <2>1. CASE Prefetcher!Queued(g)
    <3>1. queue # <<>>
      BY <2>1 DEF Prefetcher!Queued
    <3>2. queue = <<DueJob>>
      BY <3>1 DEF Moves, JobsInv
    <3>3. Len(queue) = 1 /\ queue[1] = DueJob
      BY <3>2
    <3>4. QED
      BY <2>1, <3>1, <3>3 DEF Prefetcher!Queued, DueJob, Coming
  <2>2. CASE mpc \in ClaimedPcs /\ marg.group = g
    <3>1. mpc \in SubmitPcs
      BY <2>2 DEF ClaimedPcs, SubmitPcs
    <3>2. QED
      BY <2>2, <3>1 DEF Moves, JobsInv, DueJob, Coming
  <2>3. QED
    BY <2>1, <2>2
<1>2. GetNextChunkGroup(wjob.group) = g
  BY <1>1 DEF Moves, MarkInv
<1>3. wjob.group \in Groups
  BY DEF Basics, Prefetcher!TypeInv, Prefetcher!PrefetcherTypeOK, Prefetcher!Job
<1>4. Range(ChunksOf[wjob.group]) \cap Range(ChunksOf[g]) = {}
  BY <1>2, <1>3 DEF DoubleBuffered, NextGroupApart
<1>5. ChunkSet(g) \cap ChunkSet(wjob.group) = {}
  BY <1>3, <1>4, ChunkSetIsRange
<1>6. QED
  BY <1>5 DEF ChunkSet, Prefetcher!ChunkSet

(* A slot with a group's record has room for it in the buffer ...          *)
LEMMA SlotInside ==
  ASSUME MoreGroupsThanSlots, EachGroupFits, Basics,
         NEW s \in {0, 1}, NEW g \in Groups, Record(s, g), AtAnEnd(s)
  PROVE  Extent(g, slots[s].offset) \subseteq BufferSectors
<1> DEFINE o == slots[s].offset
           t == TotalAlignedSize[g]
           w == WeightChunkBufferSize
<1>1. o \in Nat /\ t \in Nat \ {0} /\ w \in Nat \ {0} /\ t <= w /\ slots[s].size = t
  BY SizesAtHand DEF Record, EachGroupFits
<1>2. o = 0 \/ o = w - t
  BY <1>1 DEF AtAnEnd
<1> HIDE DEF o, t, w
<1>3. o .. o + t - 1 \subseteq 0 .. w - 1
  BY <1>1, <1>2
<1>4. QED
  BY <1>3 DEF Extent, BufferSectors, o, t, w

(* ... and shares no sector of it with the other slot.                     *)
LEMMA SlotsDoNotMeet ==
  ASSUME MoreGroupsThanSlots, Basics, Record(active, group), Record(1 - active, next), Apart
  PROVE  Extent(next, slots[1 - active].offset) \cap Extent(group, slots[active].offset) = {}
<1> DEFINE o == slots[active].offset
           p == slots[1 - active].offset
           t == TotalAlignedSize[group]
           u == TotalAlignedSize[next]
<1>1. active \in {0, 1} /\ 1 - active \in {0, 1} /\ group \in Groups /\ next \in Groups
  BY AtHand
<1>2. o \in Nat /\ p \in Nat /\ t \in Nat /\ u \in Nat
      /\ slots[active].size = t /\ slots[1 - active].size = u
  BY <1>1, SizesAtHand DEF Record
<1>3. o + t <= p \/ p + u <= o
  <2>1. CASE active = 0
    BY <1>2, <2>1 DEF Apart
  <2>2. CASE active = 1
    BY <1>2, <2>2 DEF Apart
  <2>3. QED
    BY <1>1, <2>1, <2>2
<1> HIDE DEF o, p, t, u
<1>4. (p .. p + u - 1) \cap (o .. o + t - 1) = {}
  BY <1>2, <1>3
<1>5. QED
  BY <1>4 DEF Extent, o, p, t, u

(* While an operator runs, a read goes to the slot it does not use.        *)
LEMMA ActiveIsSafe ==
  ASSUME MoreGroupsThanSlots, EachGroupFits, Basics, CallInv, SlotInv, fdOpen, ~Entering
  PROVE  /\ Due = next /\ DueSlot = 1 - active /\ ~pending
         /\ Record(active, group) /\ Record(1 - active, next)
         /\ Extent(group, slots[active].offset) \subseteq BufferSectors
         /\ Extent(Due, slots[DueSlot].offset) \cap Extent(group, slots[active].offset) = {}
<1>1. Due = next /\ DueSlot = 1 - active
  BY DEF Due, DueSlot, Entering
<1>2. ~pending /\ cpc # "done"
  BY DEF CallInv, Entering
<1>3. Record(active, group) /\ Record(1 - active, next) /\ AtAnEnd(active) /\ Apart
  BY <1>1, <1>2 DEF SlotInv
<1>4. active \in {0, 1} /\ group \in Groups
  BY AtHand
<1>5. QED
  BY <1>1, <1>2, <1>3, <1>4, SlotInside, SlotsDoNotMeet

(* Steps that change neither the buffer nor what is coming.                *)
LEMMA QuietContent ==
  ASSUME ContentInv, UNCHANGED <<mmapVars, controllerVars, buf>>,
         fdOpen => UNCHANGED lastRead /\ (Coming' <=> Coming),
         wpc' \in MarkPcs => wpc \in MarkPcs /\ wok' = wok
  PROVE  ContentInv'
<1>1. UNCHANGED <<slots, active, pending, fdOpen>> /\ UNCHANGED <<group, Entering, Due, DueSlot>>
  BY ViewKept
<1>2. fdOpen => UNCHANGED <<Held(DueSlot, Due), Held(active, group)>>
  BY <1>1 DEF Held
<1>3. QED
  BY <1>1, <1>2 DEF ContentInv

(* The sectors that become unknown are not those of the active slot.       *)
LEMMA TakeContent ==
  ASSUME MoreGroupsThanSlots, EachGroupFits, Basics, Moves, SlotInv, ContentInv, TakeJob
  PROVE  ContentInv'
<1>1. /\ UNCHANGED <<mmapVars, controllerVars>> /\ WorkerTake
      /\ buf' = [b \in BufferSectors |->
                   IF b \in Extent(wjob'.group, wjob'.dest) THEN Blank ELSE buf[b]]
  BY DEF TakeJob
<1>2. Coming' /\ wjob' = DueJob
  BY <1>1, TakeMoves
<1>3. UNCHANGED <<slots, active, pending, fdOpen>> /\ UNCHANGED <<group, Entering, Due, DueSlot>>
  BY <1>1, ViewKept
<1>4. wpc' \notin MarkPcs /\ UNCHANGED lastRead
  BY <1>1 DEF WorkerTake, MarkPcs
<1>5. ASSUME fdOpen, ~Entering PROVE Held(active, group)'
  <2>1. Held(active, group)
    BY <1>5 DEF ContentInv
  <2>2. /\ Extent(group, slots[active].offset) \subseteq BufferSectors
        /\ Extent(Due, slots[DueSlot].offset) \cap Extent(group, slots[active].offset) = {}
    BY <1>5, ActiveIsSafe DEF Moves
  <2>3. \A b \in Extent(group, slots[active].offset) : buf'[b] = buf[b]
    BY <1>1, <1>2, <2>2 DEF DueJob
  <2>4. QED
    BY <1>3, <1>4, <2>1, <2>3 DEF Held
<1>6. QED
  BY <1>2, <1>3, <1>4, <1>5 DEF ContentInv

(* The sectors that are read are those the due slot is described by.       *)
LEMMA ReadContent ==
  ASSUME MoreGroupsThanSlots, EachGroupFits, ~MayFail, Basics, Moves, SlotInv, ContentInv,
         NEW ok \in ReadOutcomes, ReadJob(ok)
  PROVE  ContentInv'
<1>1. /\ UNCHANGED <<mmapVars, controllerVars>> /\ WorkerRead(ok)
      /\ buf' = [b \in BufferSectors |->
                   IF ok /\ b \in Extent(wjob.group, wjob.dest)
                   THEN StartOf(wjob.group) + b - wjob.dest ELSE buf[b]]
  BY DEF ReadJob
<1>2. ~Coming' /\ wjob = DueJob /\ wpc = "read"
  BY <1>1, ReadMoves DEF WorkerRead
<1>3. UNCHANGED <<slots, active, pending, fdOpen>> /\ UNCHANGED <<group, Entering, Due, DueSlot>>
  BY <1>1, ViewKept
<1> SUFFICES ASSUME fdOpen PROVE ContentInv'
  BY <1>3 DEF ContentInv
<1>4. ok = TRUE
  BY DEF ReadOutcomes
<1>5. /\ wok' = TRUE
      /\ lastRead' = [c \in Chunks |-> IF c \in ChunkSet(Due) THEN "ok" ELSE lastRead[c]]
  BY <1>1, <1>2, <1>4 DEF WorkerRead, DueJob
<1>6. buf' = [b \in BufferSectors |->
                IF b \in Extent(Due, slots[DueSlot].offset)
                THEN StartOf(Due) + b - slots[DueSlot].offset ELSE buf[b]]
  BY <1>1, <1>2, <1>4 DEF DueJob
<1>7. \A g \in Groups : ChunkSet(g) \subseteq Chunks
  <2>1. \A g \in Groups : ChunksOf[g] \in Seq(Chunks)
    BY GroupTyped
  <2>2. QED
    BY <2>1, SequenceFacts DEF ChunkSet
<1>8. Due \in Groups /\ group \in Groups
  BY AtHand
<1>9. Held(DueSlot, Due)'
  <2>1. Extent(Due, slots[DueSlot].offset) \subseteq BufferSectors
    <3>1. wjob \in FittingJobs /\ wjob.group = Due /\ wjob.dest = slots[DueSlot].offset
      BY <1>2 DEF Basics, StreamInv, JobsFit, DueJob
    <3>2. TotalAlignedSize[Due] \in Nat /\ WeightChunkBufferSize \in Nat
      BY <1>8, SizesAtHand
    <3>3. QED
      BY <3>1, <3>2 DEF FittingJobs, Extent, BufferSectors
  <2>2. \A b \in Extent(Due, slots[DueSlot].offset) :
          buf'[b] = StartOf(Due) + b - slots[DueSlot].offset
    BY <1>6, <2>1
  <2>3. \A c \in ChunkSet(Due) : lastRead'[c] = "ok"
    BY <1>5, <1>7, <1>8
  <2>4. QED
    BY <1>3, <2>2, <2>3 DEF Held
<1>10. ASSUME ~Entering PROVE Held(active, group)'
  <2>1. Held(active, group)
    BY <1>10 DEF ContentInv
  <2>2. /\ Extent(group, slots[active].offset) \subseteq BufferSectors
        /\ Extent(Due, slots[DueSlot].offset) \cap Extent(group, slots[active].offset) = {}
    BY <1>10, ActiveIsSafe DEF Moves
  <2>3. \A b \in Extent(group, slots[active].offset) : buf'[b] = buf[b]
    BY <1>6, <2>2
  <2>4. \A c \in ChunkSet(group) : lastRead'[c] = "ok"
    BY <1>5, <1>7, <1>8, <2>1 DEF Held
  <2>5. QED
    BY <1>3, <2>1, <2>3, <2>4 DEF Held
<1>11. QED
  BY <1>3, <1>5, <1>9, <1>10 DEF ContentInv

(* Every step inside the prefetcher keeps the handover as it is.           *)
LEMMA PrefetcherHandsOver ==
  ASSUME MoreGroupsThanSlots, EachGroupFits, ~MayFail, Basics, Handover, Prefetcher!FreshInv,
         PrefetcherStep \/ TakeJob \/ \E ok \in ReadOutcomes : ReadJob(ok)
  PROVE  Handover'
<1>1. Moves /\ SlotInv /\ ContentInv /\ PtrInv
  BY DEF Handover, Moves
<1>2. UNCHANGED <<mmapVars, controllerVars>>
  BY DEF PrefetcherStep, TakeJob, ReadJob
<1>3. SlotInv' /\ PtrInv'
  <2>1. /\ UNCHANGED <<mode, slots, active, pending, ptr, cpc>>
        /\ UNCHANGED <<chunk, group, next, Entering, Due, DueSlot>>
    BY <1>2, ViewKept
  <2>2. QED
    BY <1>1, <2>1 DEF SlotInv, Record, AtAnEnd, Apart, PtrInv
<1>4. CASE PrefetcherStep
  <2>1. UNCHANGED buf
    BY <1>4 DEF PrefetcherStep
  <2>2. wpc' \in MarkPcs => wpc \in MarkPcs /\ wok' = wok
    BY <1>4 DEF PrefetcherStep, MainStep, MarkStep, WorkerIdleStep, SpuriousWakeup,
    SubmitLookup, SubmitInsert, SubmitClaim, SubmitSetInFlight, SubmitClearReady, SubmitPush,
    SubmitNotify, WaitCheck, WaitBlock, StopRequest, StopClearQueue, StopNotify, StopJoin, WakeWorker,
    MarkSuccess, MarkReady, MarkNotInFlight, MarkNotify, MarkGroup, WorkerExit, WorkerFindsNothing,
    WorkerBlock, WaitSpuriousWakeup, WorkerSpuriousWakeup, MarkPcs, worker
  <2>3. UNCHANGED lastRead \/ StopJoin
    BY <1>4 DEF PrefetcherStep, MainStep, MarkStep, WorkerIdleStep, SpuriousWakeup,
    SubmitLookup, SubmitInsert, SubmitClaim, SubmitSetInFlight, SubmitClearReady, SubmitPush,
    SubmitNotify, WaitCheck, WaitBlock, StopRequest, StopClearQueue, StopNotify,
    MarkSuccess, MarkReady, MarkNotInFlight, MarkNotify, MarkGroup, WorkerExit, WorkerFindsNothing,
    WorkerBlock, WaitSpuriousWakeup, WorkerSpuriousWakeup
  <2>4. Moves' /\ ((Coming' <=> Coming) \/ cpc = "release")
    <3>1. CASE StopRequest \/ StopClearQueue \/ StopNotify \/ StopJoin
      BY <1>1, <1>2, <3>1, StopMoves
    <3>2. CASE WaitCheck
      BY <1>1, <1>2, <3>2, AnswerMoves, WaitingMoves
    <3>3. CASE WorkerIdleStep \/ MarkStep
      BY <1>1, <1>2, <3>3, IdleMoves, MarkMoves
    <3>4. CASE SubmitLookup \/ SubmitInsert \/ SubmitClaim \/ SubmitSetInFlight \/ SubmitClearReady
               \/ SubmitPush
      BY <1>1, <1>2, <3>4, SubmitMoves, ClaimMoves, PushMoves
    <3>5. CASE SubmitNotify \/ WaitBlock \/ SpuriousWakeup
      BY <1>1, <1>2, <3>5, WaitingMoves
    <3>6. QED
      BY <1>4, <3>1, <3>2, <3>3, <3>4, <3>5 DEF PrefetcherStep, MainStep
  <2>5. fdOpen => UNCHANGED lastRead /\ (Coming' <=> Coming)
    <3>1. StopJoin => cpc = "release"
      BY <1>1, <1>2, StopMoves
    <3>2. fdOpen => cpc # "release"
      BY <1>1 DEF Moves, CallInv
    <3>3. QED
      BY <2>3, <2>4, <3>1, <3>2
  <2>6. ContentInv'
    BY <1>1, <1>2, <2>1, <2>2, <2>5, QuietContent
  <2>7. QED
    BY <1>3, <2>4, <2>6 DEF Handover, Moves
<1>5. CASE TakeJob
  <2>1. Moves'
    BY <1>1, <1>2, <1>5, TakeMoves DEF TakeJob
  <2>2. ContentInv'
    BY <1>1, <1>5, TakeContent
  <2>3. QED
    BY <1>3, <2>1, <2>2 DEF Handover, Moves
<1>6. ASSUME NEW ok \in ReadOutcomes, ReadJob(ok) PROVE Handover'
  <2>1. Moves'
    BY <1>1, <1>2, <1>6, ReadMoves DEF ReadJob
  <2>2. ContentInv'
    BY <1>1, <1>6, ReadContent
  <2>3. QED
    BY <1>3, <2>1, <2>2 DEF Handover, Moves
<1>7. QED
  BY <1>4, <1>5, <1>6

(* Where the operator after this one stands.                               *)
LEMMA WhatComesNext ==
  ASSUME DoubleBuffered, Basics, Advance
  PROVE  \/ generating' = generating /\ group' = group /\ ~first'
         \/ generating' = generating /\ group' = next /\ first'
         \/ generating' = FALSE /\ UNCHANGED <<mode, pos>>
<1>1. mode \in Modes /\ pos \in 1 .. Len(ModeChunks[mode]) /\ Len(ModeChunks[mode]) \in Nat
  <2>1. mode \in Modes /\ pos \in 1 .. Len(ModeChunks[mode])
    BY DEF Basics, StreamInv, Running
  <2>2. QED
    BY <2>1, ModeHasChunks
<1>2. EachChunkOnce
  BY DEF DoubleBuffered
<1>3. CASE NextOperator
  <2>1. pos < Len(ModeChunks[mode]) /\ pos' = pos + 1 /\ UNCHANGED <<generating, mode>>
    BY <1>3 DEF NextOperator
  <2>2. chunk' = ModeChunks[mode][pos + 1]
    BY <2>1 DEF chunk
  <2>3. group' = GroupPerMode(mode, chunk')
    BY <2>1 DEF group
  <2>4. \/ group' = group /\ chunk' # Head(ChunksOf[group])
        \/ group' = GetNextChunkGroup(group) /\ chunk' = Head(ChunksOf[group'])
    BY <1>1, <1>2, <2>1, <2>2, <2>3, OperatorsFollowGroups DEF chunk, group
  <2>5. QED
    BY <2>1, <2>4 DEF first, next
<1>4. CASE EnterDecode \/ NextToken
  <2>1. /\ pos = Len(ModeChunks[mode]) /\ pos' = 1 /\ mode' = "DECODE" /\ UNCHANGED generating
    BY <1>4 DEF EnterDecode, NextToken
  <2>2. group.mode = mode /\ group.index + 1 = Len(Plan[mode])
    BY <1>1, <1>2, <2>1, OperatorsFollowGroups DEF chunk, group
  <2>3. next = [mode |-> "DECODE", index |-> 0]
    <3>1. Len(Plan[mode]) \in Nat
      BY <1>1, PlanTyped
    <3>2. ~(group.index + 1 < Len(Plan[group.mode]))
      BY <2>2, <3>1
    <3>3. QED
      BY <3>2 DEF next, GetNextChunkGroup
  <2>4. "DECODE" \in Modes
    BY DEF Modes
  <2>5. 1 \in 1 .. Len(ModeChunks["DECODE"])
    BY <2>4, ModeHasChunks
  <2>6. chunk' = ModeChunks["DECODE"][1] /\ group' = GroupPerMode("DECODE", ModeChunks["DECODE"][1])
    BY <2>1 DEF chunk, group
  <2>7. group'.mode = "DECODE" /\ group'.index = 0 /\ chunk' = Head(ChunksOf[group'])
    BY <1>2, <2>4, <2>5, <2>6, OperatorsFollowGroups
  <2>8. group' \in Groups
    BY <2>4, <2>5, <2>6, HookFindsItsGroup
  <2>9. group' = [mode |-> "DECODE", index |-> 0]
    <3>1. \E m \in Modes : group' \in GroupsOf(m)
      BY <2>8 DEF Groups
    <3>2. QED
      BY <2>7, <3>1 DEF GroupsOf
  <2>10. QED
    BY <2>1, <2>3, <2>7, <2>9 DEF first
<1>5. CASE EndGeneration
  BY <1>5 DEF EndGeneration
<1>6. QED
  BY <1>3, <1>4, <1>5 DEF Advance

(* The very first operator is the first of its group.                      *)
LEMMA StartsFirst ==
  ASSUME EachChunkOnce, mode = "PREFILL", pos = 1
  PROVE  first
<1>1. "PREFILL" \in Modes
  BY DEF Modes
<1>2. 1 \in 1 .. Len(ModeChunks["PREFILL"])
  BY <1>1, ModeHasChunks
<1>3. QED
  BY <1>1, <1>2, OperatorsFollowGroups DEF first, group, chunk

(* Before loading nothing is claimed of any slot.                          *)
LEMMA InitHandsOver ==
  ASSUME DoubleBuffered, StreamInit
  PROVE  Handover
<1>1. /\ mode = "PREFILL" /\ pos = 1 /\ generating = TRUE /\ cpc = "load" /\ fdOpen = TRUE
      /\ pending = TRUE /\ slots = Layout!EmptySlots
      /\ mpc = "idle" /\ queue = <<>> /\ wpc = "off" /\ groupBusy = [g \in Groups |-> FALSE]
  BY DEF StreamInit, MmapInit, Layout!Init, PrefetcherInit
<1>2. first
  BY <1>1, StartsFirst DEF DoubleBuffered
<1>3. Entering /\ ~Coming /\ wpc \notin MarkPcs /\ wpc # "read" /\ mpc \notin SubmitPcs
  BY <1>1, <1>2 DEF Entering, Coming, MarkPcs, SubmitPcs
<1>4. CallInv
  BY <1>1, <1>2 DEF CallInv
<1>5. JobsInv /\ MarkInv
  BY <1>1, <1>3 DEF JobsInv, MarkInv
<1>6. BusyInv
  BY <1>1 DEF BusyInv
<1>7. SlotInv /\ ContentInv /\ PtrInv
  BY <1>1, <1>3 DEF SlotInv, ContentInv, PtrInv
<1>8. QED
  BY <1>4, <1>5, <1>6, <1>7 DEF Handover

-----------------------------------------------------------------------------

(* A group's flag is as it was if the inference thread starts or ends a    *)
(* call.                                                                   *)
LEMMA BusyFrame ==
  ASSUME BusyInv, UNCHANGED <<groupBusy, queue, wjob>>,
         mpc \notin ClaimedPcs,
         cpc' \notin {"release", "done"} => cpc \notin {"release", "done"},
         wpc' = wpc \/ (wpc \notin MarkPcs /\ wpc # "read")
  PROVE  BusyInv'
BY DEF BusyInv, Queued, Reading, Marking

(* Loading starts the worker and describes slot 0.                         *)
LEMMA LoadHandsOver ==
  ASSUME DoubleBuffered, Basics, Handover, Load
  PROVE  Handover'
<1>1. /\ cpc = "load" /\ cpc' = "op" /\ pending' = TRUE /\ slots' = Layout!EmptySlots
      /\ UNCHANGED <<generating, mode, pos, fdOpen>>
      /\ wpc' = "check" /\ UNCHANGED <<queue, groupBusy, wjob>> /\ UNCHANGED client
  BY DEF Load, Layout!LoadPrefetchPlan, StartWorker, mmapVars, flags
<1>2. mpc = "idle" /\ queue = <<>> /\ wpc = "off"
  BY <1>1 DEF Basics, StreamInv, StopFirst
<1>3. UNCHANGED <<mpc, marg, mchunk, mret>>
  BY <1>1 DEF client
<1>4. first /\ generating /\ fdOpen
  BY <1>1 DEF Handover, CallInv
<1>5. UNCHANGED <<chunk, group, first>>
  BY <1>1 DEF chunk, group, first
<1>6. Entering' /\ ~Coming' /\ wpc' \notin MarkPcs
  BY <1>1, <1>2, <1>3, <1>4, <1>5 DEF Entering, Coming, MarkPcs, SubmitPcs
<1>7. CallInv'
  BY <1>1, <1>2, <1>3, <1>4, <1>5 DEF CallInv
<1>8. JobsInv' /\ MarkInv'
  BY <1>1, <1>2, <1>6 DEF JobsInv, MarkInv, Coming
<1>9. BusyInv'
  BY <1>1, <1>2, BusyFrame DEF Handover, ClaimedPcs, MarkPcs
<1>10. SlotInv' /\ ContentInv' /\ PtrInv'
  BY <1>1, <1>6 DEF SlotInv, ContentInv, PtrInv
<1>11. QED
  BY <1>7, <1>8, <1>9, <1>10 DEF Handover

(* What a call of Submit that is accepted changes.                         *)
LEMMA SubmitAccepted ==
  ASSUME NEW g, NEW d, d # Null, Submit(g, d)
  PROVE  /\ mpc = "idle" /\ mpc' = "lookup" /\ marg' = [group |-> g, dest |-> d]
         /\ UNCHANGED <<mchunk, mret, queue, groupBusy, wpc, wjob, wok, lastRead>>
         /\ mpc' \in SubmitPcs /\ mpc \notin SubmitPcs \cup ClaimedPcs /\ mpc' # "idle" /\ Coming'
BY DEF Submit, flags, worker, SubmitPcs, ClaimedPcs, Coming

(* The first pre-invoke asks for its own group, into the active slot.      *)
LEMMA FillHandsOver ==
  ASSUME DoubleBuffered, Basics, Handover, FillActiveSlot
  PROVE  Handover'
<1>1. cpc = "op" /\ pending /\ UNCHANGED <<generating, mode, pos, fdOpen, buf, capacity, active>>
  BY DEF FillActiveSlot, mmapVars, Layout!InitialPrefetch
<1>2. BufferAddr(0) = 0 /\ 0 # Null
  <2>1. capacity = WeightChunkBufferSize /\ WeightChunkBufferSize > 0
    BY <1>1, BufferSizeTyped DEF Basics, StreamInv, Buffered
  <2>2. ~(0 >= capacity)
    BY <2>1, BufferSizeTyped
  <2>3. QED
    BY <2>2 DEF BufferAddr, Null
<1>3. /\ cpc' = "filled" /\ pending' = FALSE /\ Submit(group, 0)
      /\ slots' = [slots EXCEPT ![active] =
                     [offset |-> 0, size |-> TotalAlignedSize[group], index |-> group.index]]
  BY <1>2 DEF FillActiveSlot, Layout!InitialPrefetch, slot
<1>4. /\ mpc = "idle" /\ mpc' = "lookup" /\ marg' = [group |-> group, dest |-> 0]
      /\ UNCHANGED <<mchunk, mret, queue, groupBusy, wpc, wjob, wok, lastRead>>
      /\ mpc' \in SubmitPcs /\ mpc \notin SubmitPcs \cup ClaimedPcs /\ mpc' # "idle" /\ Coming'
  BY <1>2, <1>3, SubmitAccepted
<1>5. first /\ slots = Layout!EmptySlots /\ generating /\ fdOpen /\ ~Coming /\ wpc \notin MarkPcs
  BY <1>1 DEF Handover, CallInv, JobsInv, MarkInv
<1>6. UNCHANGED <<chunk, group, next, first>>
  BY <1>1 DEF chunk, group, next, first
<1>7. Entering' /\ Due' = group /\ DueSlot' = active
  BY <1>1, <1>3, <1>5, <1>6 DEF Entering, Due, DueSlot
<1>8. active \in {0, 1} /\ 1 - active \in {0, 1} /\ 1 - active # active /\ group \in Groups /\ next \in Groups
  BY AtHand DEF DoubleBuffered
<1>9. slots'[active] = [offset |-> 0, size |-> TotalAlignedSize[group], index |-> group.index]
      /\ slots'[1 - active] = Layout!EmptySlot
  BY <1>3, <1>5, <1>8 DEF Layout!EmptySlots, Layout!Slots
<1>10. marg' = DueJob'
  BY <1>4, <1>7, <1>9 DEF DueJob
<1>11. CallInv'
  BY <1>1, <1>3, <1>4, <1>5, <1>6 DEF CallInv
<1>12. JobsInv'
  BY <1>3, <1>4, <1>5, <1>10 DEF JobsInv, Coming
<1>13. MarkInv' /\ PtrInv'
  BY <1>3, <1>4, <1>5 DEF MarkInv, PtrInv
<1>14. BusyInv'
  BY <1>1, <1>3, <1>4, BusyFrame DEF Handover
<1>15. SlotInv'
  <2>1. next.index \in Nat
    BY <1>8, GroupTyped
  <2>2. Layout!EmptySlot.index # next.index
    BY <2>1 DEF Layout!EmptySlot, Layout!NoIndex
  <2>3. slots'[DueSlot'].index = group.index /\ slots'[DueSlot'].size = TotalAlignedSize[group]
        /\ slots'[DueSlot'].offset = 0 /\ slots'[1 - active'].index # next.index
    BY <1>1, <1>7, <1>9, <2>2
  <2>4. QED
    BY <1>3, <1>6, <1>7, <2>3 DEF SlotInv, Record, AtAnEnd
<1>16. ContentInv'
  BY <1>4, <1>5, <1>7 DEF ContentInv
<1>17. QED
  BY <1>11, <1>12, <1>13, <1>14, <1>15, <1>16 DEF Handover

(* Not a call of Submit: no job comes or goes, and the worker does nothing.*)
JobsUntouched ==
  /\ UNCHANGED <<marg, queue, groupBusy, wpc, wjob, wok, lastRead, buf>>
  /\ mpc \notin SubmitPcs \cup ClaimedPcs /\ mpc' \notin SubmitPcs \cup ClaimedPcs

(* WaitReady and StopWorker change no job.                                 *)
LEMMA CallsLeaveJobs ==
  /\ \A c : WaitReady(c) /\ UNCHANGED buf =>
       JobsUntouched /\ mpc = "idle" /\ mpc' = "pred" /\ mchunk' = c /\ mpc' \in WaitPcs
  /\ StopWorker /\ UNCHANGED buf => JobsUntouched /\ mpc = "idle" /\ mpc' = "stop" /\ mpc' \in StopPcs
  /\ mpc = "idle" /\ UNCHANGED ioVars /\ UNCHANGED buf =>
       JobsUntouched /\ UNCHANGED <<mpc, mchunk, mret>>
BY DEF WaitReady, StopWorker, Goto, ioVars, JobsUntouched, flags, worker, SubmitPcs, ClaimedPcs, WaitPcs,
       StopPcs

(* The wait for the very first group.                                      *)
LEMMA AwaitHandsOver ==
  ASSUME DoubleBuffered, Basics, Handover, AwaitFill
  PROVE  Handover'
<1>1. /\ cpc = "filled" /\ cpc' = "wait" /\ WaitReady(chunk)
      /\ UNCHANGED <<generating, mode, pos, slots, active, pending, fdOpen, buf>>
  BY DEF AwaitFill, mmapVars
<1>2. JobsUntouched /\ mpc = "idle" /\ mpc' = "pred" /\ mchunk' = chunk /\ mpc' \in WaitPcs
  BY <1>1, CallsLeaveJobs
<1>3. UNCHANGED <<chunk, group, next, first>> /\ first /\ ~pending
  BY <1>1 DEF chunk, group, next, first, Handover, CallInv
<1>4. Entering /\ UNCHANGED <<Entering, Due, DueSlot>>
  BY <1>1, <1>3 DEF Entering, Due, DueSlot
<1>5. UNCHANGED DueJob /\ (Coming' <=> Coming)
  BY <1>1, <1>2, <1>4 DEF DueJob, Coming, JobsUntouched
<1>6. CallInv'
  BY <1>1, <1>2, <1>3 DEF Handover, CallInv
<1>7. JobsInv'
  BY <1>1, <1>2, <1>3, <1>5 DEF Handover, JobsInv, JobsUntouched
<1>8. MarkInv' /\ PtrInv'
  BY <1>1, <1>2, <1>4, <1>5 DEF Handover, MarkInv, PtrInv, JobsUntouched
<1>9. BusyInv'
  BY <1>1, <1>2, BusyFrame DEF Handover, JobsUntouched
<1>10. SlotInv'
  BY <1>1, <1>3, <1>4 DEF Handover, SlotInv, Record, AtAnEnd, Apart
<1>11. ContentInv'
  BY <1>1, <1>2, <1>4, <1>5 DEF Handover, ContentInv, Held, JobsUntouched
<1>12. QED
  BY <1>6, <1>7, <1>8, <1>9, <1>10, <1>11 DEF Handover

(* The hook switches to the slot of the operator's group, and only then.   *)
LEMMA PreInvokeHandsOver ==
  ASSUME DoubleBuffered, Basics, Handover, PreInvoke
  PROVE  Handover'
<1>1. /\ cpc = "op" /\ cpc' = "wait" /\ ~pending /\ WaitReady(chunk)
      /\ active' = IF slots[active].index = group.index THEN active ELSE 1 - active
      /\ UNCHANGED <<generating, mode, pos, slots, pending, fdOpen, buf>>
  BY DEF PreInvoke, mmapVars
<1>2. JobsUntouched /\ mpc = "idle" /\ mpc' = "pred" /\ mchunk' = chunk /\ mpc' \in WaitPcs
  BY <1>1, CallsLeaveJobs
<1>3. UNCHANGED <<chunk, group, next, first>>
  BY <1>1 DEF chunk, group, next, first
<1>4. UNCHANGED <<Entering, Due>> /\ (Entering <=> first)
  BY <1>1, <1>3 DEF Entering, Due
<1>5. active \in {0, 1} /\ 1 - (1 - active) = active
  BY AtHand DEF DoubleBuffered
<1>6. /\ first => active' = 1 - active
      /\ ~first => active' = active
  BY <1>1, <1>4 DEF Handover, SlotInv, Record
<1>7. UNCHANGED DueSlot /\ DueSlot = 1 - active
  BY <1>1, <1>3, <1>6 DEF DueSlot
<1>8. UNCHANGED DueJob /\ (Coming' <=> Coming)
  BY <1>1, <1>2, <1>4, <1>7 DEF DueJob, Coming, JobsUntouched
<1>9. CallInv'
  BY <1>1, <1>2, <1>3 DEF Handover, CallInv
<1>10. JobsInv'
  BY <1>1, <1>2, <1>3, <1>8 DEF Handover, JobsInv, JobsUntouched
<1>11. MarkInv' /\ PtrInv'
  BY <1>1, <1>2, <1>4, <1>8 DEF Handover, MarkInv, PtrInv, JobsUntouched
<1>12. BusyInv'
  BY <1>1, <1>2, BusyFrame DEF Handover, JobsUntouched
<1>13. SlotInv'
  <2>1. CASE first
    <3>1. slots[active].index # next.index /\ Record(DueSlot, Due) /\ AtAnEnd(DueSlot) /\ Entering
      BY <1>1, <1>4, <2>1 DEF Handover, SlotInv
    <3>2. 1 - active' = active
      BY <1>5, <1>6, <2>1
    <3>3. QED
      BY <1>1, <1>3, <1>4, <1>7, <3>1, <3>2 DEF SlotInv, Record, AtAnEnd
  <2>2. CASE ~first
    BY <1>1, <1>3, <1>4, <1>6, <1>7, <2>2 DEF Handover, SlotInv, Record, AtAnEnd, Apart
  <2>3. QED
    BY <2>1, <2>2
<1>14. ContentInv'
  BY <1>1, <1>2, <1>3, <1>4, <1>6, <1>7, <1>8 DEF Handover, ContentInv, Held, JobsUntouched
<1>15. QED
  BY <1>9, <1>10, <1>11, <1>12, <1>13, <1>14 DEF Handover

(* The wait is over and the chunk is where the slot says.                  *)
LEMMA PointerHandsOver ==
  ASSUME DoubleBuffered, Basics, Handover, UpdateWeightsPointer
  PROVE  Handover'
<1>1. /\ cpc = "wait" /\ mpc = "idle"
      /\ ptr' = [ptr EXCEPT ![mode][chunk] = slots[active].offset + RelativeOffset(group, chunk)]
      /\ cpc' = IF first THEN "schedule" ELSE "compute"
      /\ UNCHANGED <<generating, mode, pos, slots, active, pending, fdOpen, buf>> /\ UNCHANGED ioVars
  BY DEF UpdateWeightsPointer, mmapVars, first
<1>2. JobsUntouched /\ UNCHANGED <<mpc, mchunk, mret>>
  BY <1>1, CallsLeaveJobs
<1>3. UNCHANGED <<chunk, group, next, first>> /\ ~pending
  BY <1>1 DEF chunk, group, next, first, Handover, CallInv
<1>4. UNCHANGED <<Entering, Due, DueSlot>> /\ (Entering <=> first)
  BY <1>1, <1>3 DEF Entering, Due, DueSlot
<1>5. UNCHANGED DueJob /\ (Coming' <=> Coming)
  BY <1>1, <1>2, <1>4 DEF DueJob, Coming, JobsUntouched
<1>6. CallInv'
  BY <1>1, <1>2, <1>3 DEF Handover, CallInv
<1>7. JobsInv'
  BY <1>1, <1>2, <1>3, <1>5 DEF Handover, JobsInv, JobsUntouched
<1>8. MarkInv'
  BY <1>1, <1>2, <1>4, <1>5 DEF Handover, MarkInv, JobsUntouched
<1>9. BusyInv'
  BY <1>1, <1>2, BusyFrame DEF Handover, JobsUntouched
<1>10. SlotInv'
  BY <1>1, <1>3, <1>4 DEF Handover, SlotInv, Record, AtAnEnd, Apart
<1>11. ContentInv'
  BY <1>1, <1>2, <1>3, <1>4, <1>5 DEF Handover, ContentInv, Held, JobsUntouched
<1>12. PtrInv'
  <2>1. mode \in Modes /\ chunk \in Chunks
    BY AtHand DEF DoubleBuffered
  <2>2. ptr \in [Modes -> [Chunks -> Nat]]
    BY DEF Basics, MembersTyped
  <2>3. ptr'[mode][chunk] = slots[active].offset + RelativeOffset(group, chunk)
    BY <1>1, <2>1, <2>2
  <2>4. QED
    BY <1>1, <1>3, <2>3 DEF PtrInv
<1>13. QED
  BY <1>6, <1>7, <1>8, <1>9, <1>10, <1>11, <1>12 DEF Handover

(* With neighbours that fit side by side there is always a place for the   *)
(* next group, at the end of the buffer that the active slot leaves free.  *)
LEMMA PlaceForNext ==
  ASSUME DoubleBuffered, Basics, Handover, cpc = "schedule"
  PROVE  /\ ~pending /\ Entering /\ Due = group /\ DueSlot = active /\ ~Coming
         /\ Record(active, group) /\ AtAnEnd(active) /\ slots[1 - active].index # next.index
         /\ nextOffset \in Nat /\ nextOffset # Layout!NoOffset /\ BufferAddr(nextOffset) = nextOffset
         /\ nextOffset # Null
         /\ nextOffset = 0 \/ nextOffset = WeightChunkBufferSize - TotalAlignedSize[next]
         /\ \/ slots[active].offset + slots[active].size <= nextOffset
            \/ nextOffset + TotalAlignedSize[next] <= slots[active].offset
<1> DEFINE t == TotalAlignedSize[group]
           u == TotalAlignedSize[next]
           w == WeightChunkBufferSize
           o == slots[active].offset
<1>1. first /\ ~pending /\ ~Coming
  BY DEF Handover, CallInv, JobsInv
<1>2. Entering /\ Due = group /\ DueSlot = active
  BY <1>1 DEF Entering, Due, DueSlot
<1>3. Record(active, group) /\ AtAnEnd(active) /\ slots[1 - active].index # next.index
  BY <1>1, <1>2 DEF Handover, SlotInv
<1>4. active \in {0, 1} /\ group \in Groups /\ next \in Groups
  BY AtHand DEF DoubleBuffered
<1>5. /\ t \in Nat \ {0} /\ u \in Nat \ {0} /\ w \in Nat \ {0} /\ o \in Nat
      /\ slots[active].size = t /\ t <= w /\ u <= w
  BY <1>3, <1>4, SizesAtHand, NeighboursFitAlone DEF DoubleBuffered, EachGroupFits, Record
<1>6. t + u <= w
  BY <1>4 DEF DoubleBuffered, NextGroupFits, next
<1>7. capacity = w
  BY DEF Basics, StreamInv, Buffered
<1>8. o = 0 \/ o = w - t
  BY <1>3, <1>5 DEF AtAnEnd
<1>9. nextOffset = IF o = 0 THEN w - u ELSE 0
  <2>1. nextOffset = Layout!ComputeInactiveSlotOffset(u)
    BY DEF nextOffset
  <2> HIDE DEF t, u, w, o
  <2>2. QED
    BY <1>5, <1>6, <1>7, <2>1 DEF Layout!ComputeInactiveSlotOffset, o
<1> HIDE DEF t, u, w, o
<1>10. /\ nextOffset \in Nat /\ nextOffset < w /\ (nextOffset = 0 \/ nextOffset = w - u)
       /\ o + t <= nextOffset \/ nextOffset + u <= o
  BY <1>5, <1>6, <1>8, <1>9
<1>11. BufferAddr(nextOffset) = nextOffset
  BY <1>5, <1>7, <1>10 DEF BufferAddr
<1>12. nextOffset # Layout!NoOffset /\ nextOffset # Null
  BY <1>10 DEF Layout!NoOffset, Null
<1>13. QED
  BY <1>1, <1>2, <1>3, <1>5, <1>10, <1>11, <1>12 DEF t, u, w, o

(* None of ScheduleNextGroup's early returns is taken, and no wait fails.  *)
LEMMA AlwaysSomethingToSchedule ==
  ASSUME DoubleBuffered, Basics, Handover
  PROVE  ~NothingToSchedule /\ ~WaitFailed
<1>1. next # group
  BY AtHand DEF DoubleBuffered
<1>2. ~NothingToSchedule
  BY <1>1, PlaceForNext DEF NothingToSchedule
<1>3. ~WaitFailed
  BY DEF WaitFailed, Handover, CallInv
<1>4. QED
  BY <1>2, <1>3

(* The next group is described in the other slot and asked for.            *)
LEMMA ScheduleHandsOver ==
  ASSUME DoubleBuffered, Basics, Handover, ScheduleNextGroup
  PROVE  Handover'
<1>1. /\ cpc = "schedule" /\ cpc' = "compute"
      /\ Layout!ScheduleNextGroup(slot(next), BufferAddr(nextOffset) # Null)
      /\ Submit(next, BufferAddr(nextOffset))
      /\ UNCHANGED <<generating, mode, pos, ptr, buf, fdOpen>>
  BY DEF ScheduleNextGroup, mmapVars
<1>2. /\ ~pending /\ Entering /\ Due = group /\ DueSlot = active /\ ~Coming
      /\ Record(active, group) /\ AtAnEnd(active) /\ slots[1 - active].index # next.index
      /\ nextOffset \in Nat /\ BufferAddr(nextOffset) = nextOffset /\ nextOffset # Null
      /\ nextOffset = 0 \/ nextOffset = WeightChunkBufferSize - TotalAlignedSize[next]
      /\ \/ slots[active].offset + slots[active].size <= nextOffset
         \/ nextOffset + TotalAlignedSize[next] <= slots[active].offset
  BY <1>1, PlaceForNext
<1>3. active \in {0, 1} /\ 1 - active \in {0, 1} /\ 1 - active # active /\ group \in Groups
      /\ 1 - (1 - active) = active
  BY AtHand DEF DoubleBuffered
<1>4. /\ UNCHANGED <<active, pending>>
      /\ slots' = [slots EXCEPT ![1 - active] =
                     [offset |-> nextOffset, size |-> TotalAlignedSize[next], index |-> next.index]]
  <2>1. slot(next).size = TotalAlignedSize[next] /\ slot(next).index = next.index
    BY DEF slot
  <2>2. QED
    BY <1>1, <1>2, <2>1 DEF Layout!ScheduleNextGroup, Layout!inactive, nextOffset
<1>5. /\ slots'[1 - active] = [offset |-> nextOffset, size |-> TotalAlignedSize[next], index |-> next.index]
      /\ slots'[active] = slots[active]
  <2>1. slots \in [{0, 1} -> Layout!Slot]
    BY SizesAtHand DEF DoubleBuffered
  <2>2. QED
    BY <1>3, <1>4, <2>1
<1>6. /\ mpc = "idle" /\ mpc' = "lookup" /\ marg' = [group |-> next, dest |-> nextOffset]
      /\ UNCHANGED <<mchunk, mret, queue, groupBusy, wpc, wjob, wok, lastRead>>
      /\ mpc' \in SubmitPcs /\ mpc \notin SubmitPcs \cup ClaimedPcs /\ mpc' # "idle" /\ Coming'
  BY <1>1, <1>2, SubmitAccepted
<1>7. UNCHANGED <<chunk, group, next, first>> /\ first
  BY <1>1 DEF chunk, group, next, first, Handover, CallInv
<1>8. ~Entering' /\ Due' = next /\ DueSlot' = 1 - active
  BY <1>1, <1>4, <1>7 DEF Entering, Due, DueSlot
<1>9. marg' = DueJob'
  BY <1>5, <1>6, <1>8 DEF DueJob
<1>10. CallInv'
  BY <1>1, <1>2, <1>4, <1>6, <1>7 DEF Handover, CallInv
<1>11. JobsInv'
  BY <1>1, <1>2, <1>4, <1>6, <1>9 DEF JobsInv, Coming
<1>12. MarkInv'
  BY <1>2, <1>4, <1>6, <1>8, <1>1 DEF Handover, MarkInv, next
<1>13. BusyInv'
  BY <1>1, <1>6, BusyFrame DEF Handover
<1>14. SlotInv'
  <2>1. Record(DueSlot, Due)' /\ AtAnEnd(DueSlot)'
    BY <1>2, <1>4, <1>5, <1>8 DEF Record, AtAnEnd
  <2>2. Record(active, group)' /\ AtAnEnd(active)'
    BY <1>2, <1>4, <1>5, <1>7 DEF Record, AtAnEnd
  <2>3. Apart'
    BY <1>2, <1>3, <1>5 DEF Apart
  <2>4. QED
    BY <1>8, <2>1, <2>2, <2>3 DEF SlotInv
<1>15. ContentInv'
  <2>1. fdOpen => Held(active, group)
    BY <1>2 DEF Handover, ContentInv
  <2>2. fdOpen => Held(active, group)'
    BY <1>1, <1>4, <1>5, <1>6, <1>7, <2>1 DEF Held
  <2>3. QED
    BY <1>1, <1>6, <2>2 DEF Handover, ContentInv
<1>16. PtrInv'
  BY <1>1, <1>4, <1>5, <1>7 DEF Handover, PtrInv
<1>17. QED
  BY <1>10, <1>11, <1>12, <1>13, <1>14, <1>15, <1>16 DEF Handover

(* The next operator is of the same group, or the first of the next one.   *)
LEMMA FinishHandsOver ==
  ASSUME DoubleBuffered, Basics, Handover, FinishOperator
  PROVE  Handover'
<1>1. /\ cpc = "compute" /\ mpc = "idle" /\ Advance
      /\ cpc' = IF generating' THEN "op" ELSE "close"
      /\ UNCHANGED <<slots, active, pending, fdOpen, buf>> /\ UNCHANGED ioVars
  BY DEF FinishOperator
<1>2. JobsUntouched /\ UNCHANGED <<mpc, mchunk, mret>>
  BY <1>1, CallsLeaveJobs
<1>3. ~pending /\ generating = TRUE /\ fdOpen
  BY <1>1 DEF Handover, CallInv
<1>4. ~Entering /\ Due = next /\ DueSlot = 1 - active
  BY <1>1 DEF Entering, Due, DueSlot
<1>5. Record(1 - active, next) /\ AtAnEnd(1 - active) /\ Record(active, group) /\ AtAnEnd(active) /\ Apart
  BY <1>1, <1>3, <1>4 DEF Handover, SlotInv
<1>6. /\ cpc' \in {"op", "close"} /\ (cpc' = "op" <=> generating') /\ generating' \in BOOLEAN
  <2>1. generating' \in BOOLEAN
    BY <1>3, <1>1, WhatComesNext
  <2>2. QED
    BY <1>1, <2>1
<1>7. Due' = Due /\ DueSlot' = DueSlot
  <2>1. DueSlot' = DueSlot
    BY <1>1, <1>4, <1>6 DEF DueSlot
  <2>2. CASE group' = group /\ ~first'
    <3>1. ~Entering' /\ next' = next
      BY <2>2 DEF Entering, next
    <3>2. QED
      BY <1>4, <2>1, <3>1 DEF Due
  <2>3. CASE generating' = generating /\ group' = next /\ first'
    <3>1. Entering'
      BY <1>3, <1>6, <2>3 DEF Entering
    <3>2. QED
      BY <1>4, <2>1, <2>3, <3>1 DEF Due
  <2>4. CASE generating' = FALSE /\ UNCHANGED <<mode, pos>>
    <3>1. UNCHANGED <<chunk, group, next>>
      BY <2>4 DEF chunk, group, next
    <3>2. ~Entering'
      BY <1>6, <2>4 DEF Entering
    <3>3. QED
      BY <1>4, <2>1, <3>1, <3>2 DEF Due
  <2>5. QED
    BY <1>1, <2>2, <2>3, <2>4, WhatComesNext
<1>8. UNCHANGED DueJob /\ (Coming' <=> Coming)
  BY <1>1, <1>2, <1>7 DEF DueJob, Coming, JobsUntouched
<1>9. CallInv'
  BY <1>1, <1>2, <1>3, <1>6 DEF CallInv
<1>10. JobsInv'
  BY <1>1, <1>2, <1>3, <1>6, <1>8 DEF Handover, JobsInv, JobsUntouched
<1>11. MarkInv'
  BY <1>1, <1>2, <1>6, <1>7, <1>8 DEF Handover, MarkInv, JobsUntouched
<1>12. BusyInv'
  BY <1>1, <1>2, <1>6, BusyFrame DEF Handover, JobsUntouched
<1>13. ~Entering' => group' = group
  <2>1. CASE generating' = generating /\ group' = next /\ first'
    BY <1>3, <1>6, <2>1 DEF Entering
  <2>2. CASE generating' = FALSE /\ UNCHANGED <<mode, pos>>
    BY <2>2 DEF group, chunk
  <2>3. QED
    BY <1>1, <2>1, <2>2, WhatComesNext
<1>14. Entering' => group' = next /\ next' = GetNextChunkGroup(next)
  <2>1. Entering' => cpc' = "op" /\ first'
    BY <1>6 DEF Entering
  <2>2. QED
    BY <1>1, <1>3, <1>6, <2>1, WhatComesNext DEF next
<1>15. SlotInv'
  <2>1. next.index # group.index /\ GetNextChunkGroup(next).index # group.index
    BY AtHand DEF DoubleBuffered
  <2>2. Record(DueSlot, Due)' /\ AtAnEnd(DueSlot)'
    BY <1>1, <1>4, <1>5, <1>7 DEF Record, AtAnEnd
  <2>3. ~Entering' => Record(active, group)' /\ AtAnEnd(active)' /\ Apart'
    BY <1>1, <1>5, <1>13 DEF Record, AtAnEnd, Apart
  <2>4. Entering' => cpc' = "op" /\ slots'[active'].index # group'.index /\ slots'[active'].index # next'.index
    <3>1. slots[active].index = group.index
      BY <1>5 DEF Record
    <3>2. QED
      BY <1>1, <1>6, <1>14, <2>1, <3>1 DEF Entering
  <2>5. QED
    BY <2>2, <2>3, <2>4 DEF SlotInv
<1>16. ContentInv'
  <2>1. Held(DueSlot, Due)' <=> Held(DueSlot, Due)
    BY <1>1, <1>2, <1>7 DEF Held, JobsUntouched
  <2>2. ~Entering' => Held(active, group)'
    <3>1. Held(active, group)
      BY <1>3, <1>4 DEF Handover, ContentInv
    <3>2. QED
      BY <1>1, <1>2, <1>13, <3>1 DEF Held, JobsUntouched
  <2>3. QED
    BY <1>1, <1>2, <1>8, <2>1, <2>2 DEF Handover, ContentInv, JobsUntouched
<1>17. PtrInv'
  BY <1>6 DEF PtrInv
<1>18. QED
  BY <1>9, <1>10, <1>11, <1>12, <1>15, <1>16, <1>17 DEF Handover

(* After the last operator: the descriptor is closed, the worker stopped,  *)
(* the buffer freed.                                                       *)
LEMMA EndHandsOver ==
  ASSUME DoubleBuffered, Basics, Handover, CloseDirectIOFileDescriptor \/ DestroyController
  PROVE  Handover'
<1>1. /\ cpc \in {"close", "stop"} /\ cpc' \in {"stop", "release"} /\ fdOpen' = FALSE
      /\ UNCHANGED <<generating, mode, pos, slots, active, pending, buf>>
  BY DEF CloseDirectIOFileDescriptor, DestroyController, mmapVars, Handover, CallInv
<1>2. mpc = "idle"
  BY <1>1, SMT DEF Handover, CallInv
<1>3. JobsUntouched /\ (mpc' = "idle" \/ (mpc' \in StopPcs /\ cpc' = "release"))
  BY <1>1, <1>2, CallsLeaveJobs DEF CloseDirectIOFileDescriptor, DestroyController
<1>4. ~pending /\ generating = FALSE
  BY <1>1 DEF Handover, CallInv
<1>5. UNCHANGED <<chunk, group, next, first>>
  BY <1>1 DEF chunk, group, next, first
<1>6. ~Entering /\ UNCHANGED <<Entering, Due, DueSlot>>
  BY <1>1, <1>5 DEF Entering, Due, DueSlot
<1>7. UNCHANGED DueJob /\ (Coming' <=> Coming)
  BY <1>1, <1>3, <1>6 DEF DueJob, Coming, JobsUntouched
<1>8. CallInv'
  BY <1>1, <1>3, <1>4 DEF CallInv
<1>9. JobsInv'
  BY <1>1, <1>3, <1>4, <1>7 DEF Handover, JobsInv, JobsUntouched
<1>10. MarkInv'
  BY <1>1, <1>3, <1>6, <1>7 DEF Handover, MarkInv, JobsUntouched
<1>11. BusyInv'
  BY <1>1, <1>3, BusyFrame DEF Handover, JobsUntouched
<1>12. SlotInv'
  BY <1>1, <1>4, <1>5, <1>6 DEF Handover, SlotInv, Record, AtAnEnd, Apart
<1>13. ContentInv' /\ PtrInv'
  BY <1>1 DEF ContentInv, PtrInv
<1>14. QED
  BY <1>8, <1>9, <1>10, <1>11, <1>12, <1>13 DEF Handover

(* The buffer is freed.                                                    *)
LEMMA ReleaseHandsOver ==
  ASSUME DoubleBuffered, Basics, Handover, ReleaseWeightChunkBuffer
  PROVE  Handover'
<1>1. /\ cpc = "release" /\ cpc' = "done" /\ mpc = "idle"
      /\ UNCHANGED <<generating, mode, pos, pending, fdOpen, buf>> /\ UNCHANGED ioVars
  BY DEF ReleaseWeightChunkBuffer, Layout!ReleaseWeightChunkBuffer, mmapVars
<1>2. JobsUntouched /\ UNCHANGED <<mpc, mchunk, mret>>
  BY <1>1, CallsLeaveJobs
<1>3. queue = <<>> /\ wpc = "off"
  BY <1>1 DEF Basics, StreamInv, StopFirst, StopPcs
<1>4. ~pending /\ generating = FALSE /\ fdOpen = FALSE
  BY <1>1 DEF Handover, CallInv
<1>5. CallInv'
  BY <1>1, <1>2, <1>4 DEF CallInv
<1>6. JobsInv' /\ MarkInv'
  BY <1>1, <1>2, <1>3, <1>4 DEF JobsInv, MarkInv, MarkPcs, JobsUntouched
<1>7. BusyInv' /\ SlotInv' /\ ContentInv' /\ PtrInv'
  BY <1>1, <1>4 DEF BusyInv, SlotInv, ContentInv, PtrInv
<1>8. QED
  BY <1>5, <1>6, <1>7 DEF Handover

(* Every step of the system hands the slots over.                          *)
LEMMA StepHandsOver ==
  ASSUME DoubleBuffered, ~MayFail, Basics, Handover, Prefetcher!FreshInv, [StreamNext]_streamVars
  PROVE  Handover'
<1>1. CASE Load \/ FillActiveSlot \/ AwaitFill \/ PreInvoke \/ WaitFailed
  BY <1>1, LoadHandsOver, FillHandsOver, AwaitHandsOver, PreInvokeHandsOver,
     AlwaysSomethingToSchedule
<1>2. CASE UpdateWeightsPointer \/ NothingToSchedule \/ ScheduleNextGroup \/ FinishOperator
  BY <1>2, PointerHandsOver, AlwaysSomethingToSchedule, ScheduleHandsOver, FinishHandsOver
<1>3. CASE CloseDirectIOFileDescriptor \/ DestroyController \/ ReleaseWeightChunkBuffer
  BY <1>3, EndHandsOver, ReleaseHandsOver
<1>4. CASE PrefetcherStep \/ TakeJob \/ \E ok \in ReadOutcomes : ReadJob(ok)
  BY <1>4, PrefetcherHandsOver, NeighboursFitAlone DEF DoubleBuffered
<1>5. CASE UNCHANGED streamVars
  <2>1. UNCHANGED <<mmapVars, controllerVars, buf, mpc, marg, mchunk, mret, queue, groupBusy>>
        /\ UNCHANGED <<wpc, wjob, wok, lastRead>>
    BY <1>5 DEF streamVars, ioVars
  <2>2. /\ UNCHANGED <<generating, pos, mode, slots, active, pending, ptr, cpc, fdOpen>>
        /\ UNCHANGED <<chunk, group, next, first, Entering, Due, DueSlot, DueJob>>
    BY <2>1, ViewKept
  <2>3. UNCHANGED Coming
    BY <2>1 DEF Coming
  <2>4. CallInv' /\ JobsInv'
    BY <2>1, <2>2, <2>3 DEF Handover, CallInv, JobsInv
  <2>5. MarkInv' /\ BusyInv'
    BY <2>1, <2>2, <2>3 DEF Handover, MarkInv, BusyInv, Queued, Reading, Marking
  <2>6. SlotInv' /\ PtrInv'
    BY <2>1, <2>2, <2>3 DEF Handover, SlotInv, PtrInv, Record, AtAnEnd, Apart
  <2>7. ContentInv'
    BY <2>1, <2>2, <2>3 DEF Handover, ContentInv, Held
  <2>8. QED
    BY <2>4, <2>5, <2>6, <2>7 DEF Handover
<1>6. QED
  BY <1>1, <1>2, <1>3, <1>4, <1>5 DEF StreamNext, ControllerStep, Finished

(* A group that is marked is not next to one that is being submitted, so   *)
(* the flags stay fresh although other groups share its chunks.            *)
LEMMA StepKeepsFresh ==
  ASSUME DoubleBuffered, Basics, Handover, Prefetcher!FreshInv, [StreamNext]_streamVars
  PROVE  Prefetcher!FreshInv'
<1>1. Prefetcher!MarkedApart
  BY MarkedIsApart DEF Handover, Moves
<1>2. [Prefetcher!PrefetcherNext]_(Prefetcher!prefetcherVars)
  BY StreamStepIsPrefetcherStep DEF Basics
<1>3. QED
  BY <1>1, <1>2, PrefetcherConstants, Prefetcher!StepFresh DEF Basics

(* What the steps rely on holds throughout.                                *)
LEMMA StreamBasics == StreamSpec => []Basics
<1>1. StreamInv /\ WorkerRuns /\ MembersTyped /\ Prefetcher!TypeInv /\ Prefetcher!ClaimInv => Basics
  BY DEF Basics
<1>2. QED
  BY <1>1, StreamInvariant, StreamMembers, StreamTypes, PTL

(* In a plan with more groups than slots, each fitting beside the next,    *)
(* and with reads that succeed, the slots change hands as the hook         *)
(* intends: what is queued or under way is the group that is due, to the   *)
(* slot that is not in use, and the slot in use holds its group whole      *)
(* (controller.cc:316-424, 535-601).                                       *)
THEOREM SlotsAreHandedOver ==
  ASSUME DoubleBuffered, ~MayFail
  PROVE  StreamSpec => [](Basics /\ Handover /\ Prefetcher!FreshInv)
<1>1. StreamInit => Handover /\ Prefetcher!FreshInv
  <2>1. StreamInit => Prefetcher!FreshInv
    BY InitIsPrefetcherInit, PrefetcherConstants, Prefetcher!InitFresh DEF StreamInit
  <2>2. QED
    BY <2>1, InitHandsOver
<1>2. Basics /\ Handover /\ Prefetcher!FreshInv /\ [StreamNext]_streamVars
        => (Handover /\ Prefetcher!FreshInv)'
  BY StepHandsOver, StepKeepsFresh
<1>3. QED
  BY <1>1, <1>2, StreamBasics, PTL DEF StreamSpec

(* The hook waits for a chunk of each group before it schedules the next,  *)
(* so at most one group is queued or being read (prefetcher.cc:269-314).   *)
THEOREM OneReadAtATime ==
  ASSUME DoubleBuffered, ~MayFail
  PROVE  StreamSpec => []OneReadOutstanding
<1>1. Handover => OneReadOutstanding
  <2> SUFFICES ASSUME Handover PROVE OneReadOutstanding
    OBVIOUS
  <2>1. CASE queue = <<>>
    <3>1. Len(queue) = 0
      BY <2>1
    <3>2. QED
      BY <3>1 DEF OneReadOutstanding
  <2>2. CASE queue = <<DueJob>>
    <3>1. Len(queue) = 1 /\ queue # <<>>
      BY <2>2
    <3>2. wpc # "read"
      BY <3>1 DEF Handover, JobsInv
    <3>3. QED
      BY <3>1, <3>2 DEF OneReadOutstanding
  <2>3. QED
    BY <2>1, <2>2 DEF Handover, JobsInv
<1>2. QED
  BY <1>1, SlotsAreHandedOver, PTL

(* Submit's "Already in flight" answer is never the controller's: by the   *)
(* time a group is scheduled again its last job has been marked done       *)
(* (prefetcher.cc:905-911).                                                *)
THEOREM SubmissionsAreAccepted ==
  ASSUME DoubleBuffered, ~MayFail
  PROVE  StreamSpec => []SubmitNeverDropped
<1>1. Basics /\ Handover => SubmitNeverDropped
  BY ClaimNeverFails DEF Handover, Moves, SubmitNeverDropped, DoubleBuffered
<1>2. QED
  BY <1>1, SlotsAreHandedOver, PTL

(* Though the groups of PREFILL and DECODE share chunks, and chunks their  *)
(* flags, a wait is answered for the latest submission of its chunk in     *)
(* either mode (prefetcher.cc:913-919, 942-951).                           *)
THEOREM WaitsAreAnsweredFresh ==
  ASSUME DoubleBuffered, ~MayFail
  PROVE  StreamSpec => WaitAnswersForAllModes
<1>1. Basics /\ Handover /\ Prefetcher!FreshInv /\ [StreamNext]_streamVars
        => [mpc = "pred" /\ mpc' = "idle"
              => ~Outstanding(mchunk) /\ mret' = (lastRead[mchunk] = "ok")]_ioVars
  <2> SUFFICES ASSUME Basics, Prefetcher!FreshInv, [StreamNext]_streamVars,
                      mpc = "pred", mpc' = "idle"
               PROVE  ~Outstanding(mchunk) /\ mret' = (lastRead[mchunk] = "ok")
    OBVIOUS
  <2>1. [Prefetcher!PrefetcherNext]_(Prefetcher!prefetcherVars)
    BY StreamStepIsPrefetcherStep DEF Basics
  <2>2. ~Prefetcher!Outstanding(mchunk) /\ mret' = (lastRead[mchunk] = "ok")
    BY <2>1, PrefetcherConstants, Prefetcher!AnswerIsFresh DEF Basics
  <2>3. QED
    BY <2>2 DEF Outstanding, Queued, Reading, ChunkSet, Prefetcher!Outstanding, Prefetcher!Queued,
                Prefetcher!Reading, Prefetcher!ChunkSet
<1>2. QED
  BY <1>1, SlotsAreHandedOver, PTL DEF StreamSpec, WaitAnswersForAllModes

(* Where an operator finds its weights while it computes.                  *)
LEMMA PointerInSlot ==
  ASSUME DoubleBuffered, Basics, Handover, cpc = "compute"
  PROVE  /\ fdOpen /\ ~Entering
         /\ ChunkLen[chunk] \in Nat \ {0} /\ slots[active].offset \in Nat
         /\ ptr[mode][chunk] \in Nat
         /\ ptr[mode][chunk] - slots[active].offset \in Nat
         /\ StartOf(group) + (ptr[mode][chunk] - slots[active].offset) = ChunkAt[chunk]
         /\ \A k \in 1 .. ChunkLen[chunk] :
              /\ ptr[mode][chunk] + k - 1 \in Extent(group, slots[active].offset)
              /\ StartOf(group) + (ptr[mode][chunk] + k - 1) - slots[active].offset
                   = ChunkAt[chunk] + k - 1
<1> DEFINE r == RelativeOffset(group, chunk)
           o == slots[active].offset
           p == ptr[mode][chunk]
           t == TotalAlignedSize[group]
           l == ChunkLen[chunk]
           a == ChunkAt[chunk]
           s == StartOf(group)
<1>1. fdOpen /\ ~Entering /\ p = o + r
  BY DEF Handover, CallInv, PtrInv, Entering
<1>2. MoreGroupsThanSlots /\ FirstChunkLeads
  BY DEF DoubleBuffered
<1>3. group \in Groups /\ chunk \in Chunks /\ chunk \in Range(ChunksOf[group]) /\ active \in {0, 1}
  BY <1>2, AtHand
<1>4. r \in Nat /\ s \in Nat /\ s + r = a /\ r + l <= t
  BY <1>2, <1>3, ChunkInsideGroup
<1>5. o \in Nat /\ t \in Nat
  BY <1>2, <1>3, SizesAtHand
<1>6. l \in Nat \ {0} /\ a \in Nat
  BY <1>3, PlanAssumption
<1>7. Extent(group, o) = o .. o + t - 1
  BY DEF Extent
<1> HIDE DEF r, o, p, t, l, a, s
<1>8. \A k \in 1 .. l : p + k - 1 \in o .. o + t - 1 /\ s + (p + k - 1) - o = a + k - 1
  BY <1>1, <1>4, <1>5, <1>6
<1>9. p \in Nat /\ p - o \in Nat /\ s + (p - o) = a
  BY <1>1, <1>4, <1>5, <1>6
<1>10. QED
  BY <1>1, <1>5, <1>6, <1>7, <1>8, <1>9 DEF r, o, p, t, l, a, s

LEMMA ComputingSees ==
  ASSUME DoubleBuffered, Basics, Handover
  PROVE  ComputesOwnWeights
<1> SUFFICES ASSUME cpc = "compute" PROVE Seen = FileWeights(chunk)
  BY DEF ComputesOwnWeights, Computing
<1>1. fdOpen /\ ~Entering
  BY PointerInSlot
<1>2. Held(active, group)
  BY <1>1 DEF Handover, ContentInv
<1>3. Extent(group, slots[active].offset) \subseteq BufferSectors
  BY <1>1, ActiveIsSafe, NeighboursFitAlone DEF Handover, DoubleBuffered
<1>4. ASSUME NEW k \in 1 .. ChunkLen[chunk]
      PROVE  LET b == ptr[mode][chunk] + k - 1
             IN  b \in BufferSectors /\ buf[b] = ChunkAt[chunk] + k - 1
  <2> DEFINE b == ptr[mode][chunk] + k - 1
             o == slots[active].offset
  <2>1. b \in Extent(group, o) /\ StartOf(group) + b - o = ChunkAt[chunk] + k - 1
    BY PointerInSlot
  <2>2. buf[b] = StartOf(group) + b - o
    BY <1>2, <2>1 DEF Held
  <2>3. QED
    BY <1>3, <2>1, <2>2
<1>5. QED
  BY <1>4 DEF Seen, FileWeights

(* Where its pointer leads, an operator finds its own weights, all of      *)
(* them, for as long as it computes: a tag and a ready flag are enough to  *)
(* tell what a slot contains (controller.cc:548-584).                      *)
THEOREM OperatorsComputeOnTheirWeights ==
  ASSUME DoubleBuffered, ~MayFail
  PROVE  StreamSpec => []ComputesOwnWeights
<1>1. Basics /\ Handover => ComputesOwnWeights
  BY ComputingSees
<1>2. QED
  BY <1>1, SlotsAreHandedOver, PTL

(* No read that is queued or under way writes where the operator that      *)
(* computes has its weights (controller.cc:396-424).                       *)
THEOREM ReadsAvoidCompute ==
  ASSUME DoubleBuffered, ~MayFail
  PROVE  StreamSpec => []NoReadUnderCompute
<1>1. Basics /\ Handover => NoReadUnderCompute
  <2> SUFFICES ASSUME Basics, Handover, cpc = "compute" PROVE NoReadUnderCompute
    BY DEF NoReadUnderCompute, Computing
  <2> DEFINE used == {ptr[mode][chunk] + k : k \in 0 .. ChunkLen[chunk] - 1}
             e == Extent(group, slots[active].offset)
  <2>1. fdOpen /\ ~Entering /\ ChunkLen[chunk] \in Nat \ {0} /\ ptr[mode][chunk] \in Nat
        /\ \A k \in 1 .. ChunkLen[chunk] : ptr[mode][chunk] + k - 1 \in e
    BY PointerInSlot
  <2>2. Extent(Due, slots[DueSlot].offset) \cap e = {}
    BY <2>1, ActiveIsSafe, NeighboursFitAlone DEF Handover, DoubleBuffered
  <2>3. used \subseteq e
    <3> SUFFICES ASSUME NEW k \in 0 .. ChunkLen[chunk] - 1 PROVE ptr[mode][chunk] + k \in e
      OBVIOUS
    <3> HIDE DEF e
    <3>1. k + 1 \in 1 .. ChunkLen[chunk] /\ ptr[mode][chunk] + (k + 1) - 1 = ptr[mode][chunk] + k
      BY <2>1
    <3>2. QED
      BY <2>1, <3>1
  <2>4. Extent(DueJob.group, DueJob.dest) \cap used = {}
    BY <2>2, <2>3 DEF DueJob
  <2>5. \A i \in 1 .. Len(queue) : queue[i] = DueJob
    BY DEF Handover, JobsInv
  <2>6. wpc = "read" => wjob = DueJob
    BY DEF Handover, JobsInv
  <2>7. QED
    BY <2>4, <2>5, <2>6 DEF NoReadUnderCompute
<1>2. QED
  BY <1>1, SlotsAreHandedOver, PTL

(* Streaming the weights through two slots cannot be told from mapping the *)
(* whole file: every operator that finishes is the next one of             *)
(* MmapInference and has seen the same weights.                            *)
THEOREM StreamingRefinesMmap ==
  ASSUME DoubleBuffered, ~MayFail
  PROVE  StreamSpec => MmapSpec
<1>1. StreamInit => MmapInit
  BY DEF StreamInit
<1>2. Basics /\ Handover /\ [StreamNext]_streamVars => [MmapOperator]_mmapVars
  <2> SUFFICES ASSUME Basics, Handover, [StreamNext]_streamVars PROVE [MmapOperator]_mmapVars
    OBVIOUS
  <2>1. CASE FinishOperator
    <3>1. cpc = "compute" /\ mpc = "idle" /\ weights' = Seen /\ Advance
      BY <2>1 DEF FinishOperator
    <3>2. generating
      BY <3>1 DEF Handover, CallInv
    <3>3. Seen = FileWeights(chunk)
      BY <3>1, ComputingSees DEF ComputesOwnWeights, Computing
    <3>4. QED
      BY <3>1, <3>2, <3>3 DEF MmapOperator
  <2>2. CASE ~FinishOperator
    <3>1. CASE ControllerStep
      BY <2>2, <3>1
         DEF ControllerStep, Load, FillActiveSlot, AwaitFill, PreInvoke, WaitFailed,
             UpdateWeightsPointer, NothingToSchedule, ScheduleNextGroup,
             CloseDirectIOFileDescriptor, DestroyController, ReleaseWeightChunkBuffer
    <3>2. CASE PrefetcherStep \/ TakeJob \/ \E ok \in ReadOutcomes : ReadJob(ok)
      BY <3>2 DEF PrefetcherStep, TakeJob, ReadJob
    <3>3. CASE UNCHANGED streamVars
      BY <3>3 DEF streamVars
    <3>4. QED
      BY <3>1, <3>2, <3>3 DEF StreamNext, Finished
  <2>3. QED
    BY <2>1, <2>2
<1>3. QED
  BY <1>1, <1>2, SlotsAreHandedOver, PTL DEF StreamSpec, MmapSpec
=============================================================================
