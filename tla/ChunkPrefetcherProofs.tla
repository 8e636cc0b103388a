----------------------- MODULE ChunkPrefetcherProofs -----------------------
(***************************************************************************)
(* The two threads of the prefetcher keep their types, admit one job per   *)
(* group at a time, and answer waits freshly, for any groups, chunks and   *)
(* destinations and any use of the interface.                              *)
(***************************************************************************)
EXTENDS ChunkPrefetcher, SequenceTheorems, TLAPS

(* A thread's position in a group is the first one wherever it is not      *)
(* going through a group, and there is no worker unless one was started or *)
(* is being stopped.                                                       *)
LocalsInv ==
  /\ mpc \notin {"flag", "unready", "push", "notify"} => mk = 1
  /\ wpc \notin MarkPcs => wk = 1
  /\ ~running /\ mpc \notin {"stop", "clear", "wake", "join"} => wpc = "off"

TypeInv == PrefetcherTypeOK /\ LocalsInv

(* What the constants' assumption says of one group.                       *)
LEMMA GroupHasChunks ==
  ASSUME NEW g \in Groups
  PROVE  /\ ChunksOf[g] \in Seq(Chunks)
         /\ Len(ChunksOf[g]) \in Nat
         /\ 1 \in 1 .. Len(ChunksOf[g])
         /\ \A k \in 1 .. Len(ChunksOf[g]) : ChunksOf[g][k] \in Chunks
<1>1. ChunksOf[g] \in Seq(Chunks) /\ Len(ChunksOf[g]) > 0
  BY PrefetcherAssumption
<1>2. QED
  BY <1>1, ElementOfSeq, LenProperties

LEMMA NoJobType == NoJob \in Job /\ NoChunk \in Chunks
  BY PrefetcherAssumption DEF NoJob, NoChunk, Job

LEMMA InitTypes == PrefetcherInit => TypeInv
<1>1. NoJob \in Job /\ NoChunk \in Chunks
  BY NoJobType
<1>2. NoJob.group \in Groups
  BY <1>1 DEF Job
<1>3. 1 \in 1 .. Len(ChunksOf[NoJob.group])
  BY <1>2, GroupHasChunks
<1>4. << >> \in Seq(Job)
  BY EmptySeq
<1>5. QED
  BY <1>1, <1>3, <1>4 DEF PrefetcherInit, TypeInv, PrefetcherTypeOK, LocalsInv, MainPcs,
                    WorkerPcs, MarkPcs, Outcomes

(* Returning from a call or staying put leaves well-typed locals.          *)
LEMMA ReturnTypes ==
  ASSUME NEW value \in BOOLEAN, Return(value)
  PROVE  /\ mpc' \in MainPcs /\ marg' \in Job /\ mchunk' \in Chunks
         /\ mk' \in 1 .. Len(ChunksOf[marg'.group]) /\ mk' = 1
         /\ mret' \in BOOLEAN
<1>1. NoJob \in Job /\ NoChunk \in Chunks /\ NoJob.group \in Groups
  BY NoJobType DEF Job
<1>2. QED
  BY <1>1, GroupHasChunks DEF Return, MainPcs

(* Calls of the interface keep the types.                                  *)
LEMMA CallTypes ==
  ASSUME TypeInv, Call
  PROVE  TypeInv'
<1> USE DEF TypeInv, PrefetcherTypeOK, LocalsInv, MainPcs, WorkerPcs, MarkPcs,
            flags, client, worker
<1>1. ASSUME NEW g \in Groups, NEW d \in Dests \cup {NoDest}, Submit(g, d)
      PROVE  TypeInv'
  <2>1. CASE d = NoDest
    <3>1. Return(FALSE)
      BY <1>1, <2>1 DEF Submit
    <3>2. mpc = "idle" /\ mpc' = "idle"
      BY <1>1, <3>1 DEF Submit, Return
    <3>3. UNCHANGED <<running, stopReq, queue, groupStates, groupBusy, inFlight, ready,
                      success, wpc, wjob, wk, wok, lastRead>>
      BY <1>1 DEF Submit
    <3>4. QED
      BY <3>1, <3>2, <3>3, ReturnTypes
  <2>2. CASE d # NoDest
    <3>1. [group |-> g, dest |-> d] \in Job
      BY <2>2 DEF Job
    <3>2. QED
      BY <1>1, <2>2, <3>1, GroupHasChunks DEF Submit
  <2>3. QED
    BY <2>1, <2>2
<1>2. ASSUME NEW c \in Chunks, WaitReady(c)
      PROVE  TypeInv'
  BY <1>2 DEF WaitReady
<1>3. CASE StartWorker
  BY <1>3 DEF StartWorker
<1>4. CASE StopWorker
  BY <1>4 DEF StopWorker, Goto
<1>5. QED
  BY <1>1, <1>2, <1>3, <1>4 DEF Call

(* So do the steps of the inference thread inside a call.                  *)
LEMMA MainTypes ==
  ASSUME TypeInv, MainStep
  PROVE  TypeInv'
<1> USE DEF TypeInv, PrefetcherTypeOK, LocalsInv, MainPcs, WorkerPcs, MarkPcs,
            flags, client, worker
<1>0. marg.group \in Groups
  BY DEF Job
<1>1. CASE SubmitLookup
  BY <1>1 DEF SubmitLookup, Goto
<1>2. CASE SubmitInsert
  BY <1>0, <1>2 DEF SubmitInsert, Goto
<1>3. CASE SubmitClaim
  <2>1. CASE groupBusy[marg.group]
    <3>1. Return(TRUE) /\ UNCHANGED groupBusy
      BY <1>3, <2>1 DEF SubmitClaim
    <3>2. QED
      BY <1>3, <3>1, ReturnTypes DEF SubmitClaim
  <2>2. CASE ~groupBusy[marg.group]
    BY <1>0, <1>3, <2>2 DEF SubmitClaim, Goto
  <2>3. QED
    BY <2>1, <2>2
<1>4. CASE SubmitSetInFlight
  BY <1>4 DEF SubmitSetInFlight, Goto
<1>5. CASE SubmitClearReady
  <2>1. Len(ChunksOf[marg.group]) \in Nat
    BY <1>0, GroupHasChunks
  <2>2. CASE mk < Len(ChunksOf[marg.group])
    <3>1. mk + 1 \in 1 .. Len(ChunksOf[marg.group])
      BY <2>1, <2>2
    <3>2. QED
      BY <1>5, <2>2, <3>1 DEF SubmitClearReady
  <2>3. CASE ~(mk < Len(ChunksOf[marg.group]))
    BY <1>5, <2>3 DEF SubmitClearReady, Goto
  <2>4. QED
    BY <2>2, <2>3
<1>6. CASE SubmitPush
  <2>1. Append(queue, marg) \in Seq(Job)
    BY AppendProperties
  <2>2. QED
    BY <1>6, <2>1 DEF SubmitPush, Goto
<1>7. CASE SubmitNotify
  BY <1>7, ReturnTypes DEF SubmitNotify, WakeWorker, Return
<1>8. CASE WaitCheck
  BY <1>8, ReturnTypes DEF WaitCheck, Goto, Return
<1>9. CASE WaitBlock
  BY <1>9 DEF WaitBlock, Goto
<1>10. CASE StopRequest
  BY <1>10 DEF StopRequest, Goto
<1>11. CASE StopClearQueue
  <2>1. << >> \in Seq(Job)
    BY EmptySeq
  <2>2. QED
    BY <1>11, <2>1 DEF StopClearQueue, Goto
<1>12. CASE StopNotify
  BY <1>12 DEF StopNotify, WakeWorker, Goto
<1>13. CASE StopJoin
  BY <1>13, ReturnTypes DEF StopJoin, Return, Outcomes
<1>14. QED
  BY <1>1, <1>2, <1>3, <1>4, <1>5, <1>6, <1>7, <1>8, <1>9, <1>10, <1>11, <1>12, <1>13
     DEF MainStep

(* And the steps of the worker, and spurious wakeups of either thread.     *)
LEMMA WorkerTypes ==
  ASSUME TypeInv, WorkerStep \/ SpuriousWakeup
  PROVE  TypeInv'
<1> USE DEF TypeInv, PrefetcherTypeOK, LocalsInv, MainPcs, WorkerPcs, MarkPcs,
            flags, client, worker
<1>0. wjob.group \in Groups /\ wchunk \in Chunks /\ Len(ChunksOf[wjob.group]) \in Nat
  <2>1. wjob.group \in Groups
    BY DEF Job
  <2>2. QED
    BY <2>1, GroupHasChunks DEF wchunk
<1>1. CASE WorkerTake
  <2>1. Head(queue) \in Job /\ Tail(queue) \in Seq(Job)
    BY <1>1, HeadTailProperties DEF WorkerTake
  <2>2. 1 \in 1 .. Len(ChunksOf[Head(queue).group])
    BY <2>1, GroupHasChunks DEF Job
  <2>3. QED
    BY <1>1, <2>1, <2>2 DEF WorkerTake
<1>2. CASE WorkerIdleStep
  BY <1>2 DEF WorkerIdleStep, WorkerExit, WorkerFindsNothing, WorkerBlock
<1>3. ASSUME NEW ok \in {TRUE, ~MayFail}, WorkerRead(ok)
      PROVE  TypeInv'
  <2>1. ok \in BOOLEAN
    BY PrefetcherAssumption
  <2>2. QED
    BY <1>3, <2>1 DEF WorkerRead, Outcomes
<1>4. CASE MarkSuccess
  BY <1>0, <1>4 DEF MarkSuccess
<1>5. CASE MarkReady
  BY <1>0, <1>5 DEF MarkReady
<1>6. CASE MarkNotInFlight
  BY <1>0, <1>6 DEF MarkNotInFlight
<1>7. CASE MarkNotify
  BY <1>0, <1>7 DEF MarkNotify
<1>8. CASE MarkGroup
  <2>1. NoJob \in Job /\ 1 \in 1 .. Len(ChunksOf[NoJob.group])
    BY NoJobType, GroupHasChunks DEF Job
  <2>2. QED
    BY <1>0, <1>8, <2>1 DEF MarkGroup
<1>9. CASE SpuriousWakeup
  BY <1>9 DEF SpuriousWakeup, WaitSpuriousWakeup, WorkerSpuriousWakeup, Goto
<1>10. QED
  BY <1>1, <1>2, <1>3, <1>4, <1>5, <1>6, <1>7, <1>8, <1>9 DEF WorkerStep, MarkStep

LEMMA StepTypes == TypeInv /\ [PrefetcherNext]_prefetcherVars => TypeInv'
<1>1. ASSUME TypeInv, UNCHANGED prefetcherVars
      PROVE  TypeInv'
  BY <1>1 DEF TypeInv, PrefetcherTypeOK, LocalsInv, prefetcherVars, flags, client, worker
<1>2. QED
  BY <1>1, CallTypes, MainTypes, WorkerTypes DEF PrefetcherNext

LEMMA SpecTypes == PrefetcherSpec => []TypeInv
<1>1. QED
  BY InitTypes, StepTypes, PTL DEF PrefetcherSpec

(* Every member and every local of the two threads keeps its type; in      *)
(* particular MarkJobCompleted and Submit never run past the chunks of a   *)
(* group.                                                                  *)
THEOREM PrefetcherTypeCorrect == PrefetcherSpec => []PrefetcherTypeOK
<1>1. TypeInv => PrefetcherTypeOK
  BY DEF TypeInv
<1>2. QED
  BY <1>1, SpecTypes, PTL

-----------------------------------------------------------------------------
(* One job of a group at a time.                                           *)

(* What the end and the front of the queue do to the groups queued.        *)
LEMMA PushedJob ==
  ASSUME TypeInv, NEW job \in Job, queue' = Append(queue, job)
  PROVE  /\ \A g \in Groups : Queued(g)' => Queued(g) \/ g = job.group
         /\ QueuedOnce /\ ~Queued(job.group) => QueuedOnce'
<1>1. queue \in Seq(Job) /\ Len(queue) \in Nat
  BY LenProperties DEF TypeInv, PrefetcherTypeOK
<1>2. /\ Len(queue') = Len(queue) + 1
      /\ \A i \in 1 .. Len(queue) : queue'[i] = queue[i]
      /\ queue'[Len(queue) + 1] = job
  BY <1>1, AppendProperties
<1>3. \A g \in Groups : Queued(g)' => Queued(g) \/ g = job.group
  BY <1>1, <1>2 DEF Queued
<1>4. ASSUME QueuedOnce, ~Queued(job.group), NEW i \in 1 .. Len(queue'), NEW j \in 1 .. Len(queue'), i # j
      PROVE  queue'[i].group # queue'[j].group
  BY <1>1, <1>2, <1>4 DEF QueuedOnce, Queued
<1>5. QED
  BY <1>3, <1>4 DEF QueuedOnce

LEMMA TakenJob ==
  ASSUME TypeInv, queue # << >>, queue' = Tail(queue)
  PROVE  /\ Head(queue) \in Job
         /\ Queued(Head(queue).group)
         /\ \A g \in Groups : Queued(g)' => Queued(g)
         /\ QueuedOnce => QueuedOnce' /\ \A g \in Groups : Queued(g)' => g # Head(queue).group
<1>1. queue \in Seq(Job) /\ Len(queue) \in Nat /\ Len(queue) > 0
  BY LenProperties, EmptySeq DEF TypeInv, PrefetcherTypeOK
<1>2. /\ Head(queue) \in Job
      /\ Len(queue') = Len(queue) - 1
      /\ \A i \in 1 .. Len(queue') : queue'[i] = queue[i + 1]
  BY <1>1, HeadTailProperties
<1>3. Head(queue) = queue[1]
  BY <1>1
<1>4. Queued(Head(queue).group)
  BY <1>1, <1>3 DEF Queued
<1>5. \A g \in Groups : Queued(g)' => Queued(g)
  <2>1. ASSUME NEW i \in 1 .. Len(queue') PROVE i + 1 \in 1 .. Len(queue) /\ queue'[i] = queue[i + 1]
    BY <1>1, <1>2
  <2>2. QED
    BY <2>1 DEF Queued
<1>6. ASSUME QueuedOnce PROVE QueuedOnce' /\ \A g \in Groups : Queued(g)' => g # Head(queue).group
  <2>1. ASSUME NEW i \in 1 .. Len(queue'), NEW j \in 1 .. Len(queue'), i # j
        PROVE  queue'[i].group # queue'[j].group
    BY <1>1, <1>2, <1>6, <2>1 DEF QueuedOnce
  <2>2. ASSUME NEW i \in 1 .. Len(queue')
        PROVE  queue'[i].group # Head(queue).group
    <3>1. i + 1 \in 1 .. Len(queue) /\ 1 \in 1 .. Len(queue) /\ i + 1 # 1
      BY <1>1, <1>2
    <3>2. queue[i + 1].group # queue[1].group
      BY <1>6, <3>1 DEF QueuedOnce
    <3>3. QED
      BY <1>2, <1>3, <3>2
  <2>3. QED
    BY <2>1, <2>2 DEF QueuedOnce, Queued
<1>7. QED
  BY <1>2, <1>4, <1>5, <1>6

LEMMA InitClaims == PrefetcherInit => ClaimInv
  BY EmptySeq DEF PrefetcherInit, ClaimInv, OneJobPerGroup, QueuedOnce, Queued, Reading, Marking, MarkPcs

(* Steps that move no job, claim no group and do not cross the push of a   *)
(* submission or the clearing of the queue.                                *)
LEMMA ClaimFrame ==
  ASSUME ClaimInv, UNCHANGED <<queue, groupBusy, wjob>>,
         wpc' = "read" => wpc = "read",
         wpc' \in MarkPcs => wpc \in MarkPcs,
         mpc' \in {"flag", "unready", "push"} => mpc \in {"flag", "unready", "push"} /\ marg' = marg,
         mpc' \in {"wake", "join"} => mpc \in {"wake", "join"}
  PROVE  ClaimInv'
<1>1. QueuedOnce' /\ \A g : Queued(g)' <=> Queued(g)
  BY DEF ClaimInv, OneJobPerGroup, QueuedOnce, Queued
<1>2. \A g : (Reading(g)' => Reading(g)) /\ (Marking(g)' => Marking(g))
  BY DEF Reading, Marking
<1>3. QED
  BY <1>1, <1>2 DEF ClaimInv, OneJobPerGroup

LEMMA CallClaims ==
  ASSUME TypeInv, ClaimInv, Call
  PROVE  ClaimInv'
<1> USE DEF flags, client, worker, MarkPcs
<1>1. ASSUME NEW g \in Groups, NEW d \in Dests \cup {NoDest}, Submit(g, d)
      PROVE  ClaimInv'
  BY <1>1, ClaimFrame DEF Submit, Return
<1>2. ASSUME NEW c \in Chunks, WaitReady(c)
      PROVE  ClaimInv'
  BY <1>2, ClaimFrame DEF WaitReady
<1>3. CASE StartWorker
  BY <1>3, ClaimFrame DEF StartWorker
<1>4. CASE StopWorker
  BY <1>4, ClaimFrame DEF StopWorker, Goto
<1>5. QED
  BY <1>1, <1>2, <1>3, <1>4 DEF Call

LEMMA MainClaims ==
  ASSUME TypeInv, ClaimInv, MainStep
  PROVE  ClaimInv'
<1> USE DEF flags, client, worker, MarkPcs
<1>0. marg \in Job /\ marg.group \in Groups /\ groupBusy \in [Groups -> BOOLEAN]
  BY DEF TypeInv, PrefetcherTypeOK, Job
<1>1. CASE SubmitLookup \/ SubmitInsert
  BY <1>1, ClaimFrame DEF SubmitLookup, SubmitInsert, Goto
<1>2. CASE SubmitClaim
  <2>1. CASE groupBusy[marg.group]
    BY <1>2, <2>1, ClaimFrame DEF SubmitClaim, Return
  <2>2. CASE ~groupBusy[marg.group]
    <3>1. /\ groupBusy' = [groupBusy EXCEPT ![marg.group] = TRUE]
          /\ mpc' = "flag" /\ UNCHANGED <<queue, marg, wpc, wjob>>
      BY <1>2, <2>2 DEF SubmitClaim, Goto
    <3>2. QueuedOnce' = QueuedOnce
      BY <3>1 DEF QueuedOnce
    <3>3. \A g : Queued(g)' = Queued(g) /\ Reading(g)' = Reading(g) /\ Marking(g)' = Marking(g)
      BY <3>1 DEF Queued, Reading, Marking
    <3>4. ~Queued(marg.group) /\ ~Reading(marg.group) /\ ~Marking(marg.group)
      BY <1>0, <2>2 DEF ClaimInv
    <3>5. QED
      BY <1>0, <3>1, <3>2, <3>3, <3>4 DEF ClaimInv, OneJobPerGroup
  <2>3. QED
    BY <2>1, <2>2
<1>3. CASE SubmitSetInFlight \/ SubmitClearReady
  BY <1>3, ClaimFrame DEF SubmitSetInFlight, SubmitClearReady, Goto
<1>4. CASE SubmitPush
  <2>1. /\ queue' = Append(queue, marg) /\ mpc = "push" /\ mpc' = "notify"
        /\ UNCHANGED <<groupBusy, wpc, wjob>>
    BY <1>4 DEF SubmitPush, Goto
  <2>2. /\ groupBusy[marg.group]
        /\ ~Queued(marg.group) /\ ~Reading(marg.group) /\ ~Marking(marg.group)
    BY <2>1 DEF ClaimInv
  <2>3. \A g : Reading(g)' = Reading(g) /\ Marking(g)' = Marking(g)
    BY <2>1 DEF Reading, Marking
  <2>4. /\ QueuedOnce'
        /\ \A g \in Groups : Queued(g)' => Queued(g) \/ g = marg.group
    BY <1>0, <2>1, <2>2, PushedJob DEF ClaimInv, OneJobPerGroup
  <2>5. QED
    BY <2>1, <2>2, <2>3, <2>4 DEF ClaimInv, OneJobPerGroup
<1>5. CASE SubmitNotify
  BY <1>5, ClaimFrame DEF SubmitNotify, WakeWorker, Return
<1>6. CASE WaitCheck \/ WaitBlock \/ StopRequest
  BY <1>6, ClaimFrame DEF WaitCheck, WaitBlock, StopRequest, Return, Goto
<1>7. CASE StopClearQueue
  <2>1. queue' = << >> /\ mpc' = "wake" /\ UNCHANGED <<groupBusy, wpc, wjob>>
    BY <1>7 DEF StopClearQueue, Goto
  <2>2. QueuedOnce' /\ \A g : ~Queued(g)'
    BY <2>1 DEF QueuedOnce, Queued
  <2>3. \A g : Reading(g)' = Reading(g) /\ Marking(g)' = Marking(g)
    BY <2>1 DEF Reading, Marking
  <2>4. QED
    BY <2>1, <2>2, <2>3 DEF ClaimInv, OneJobPerGroup
<1>8. CASE StopNotify
  BY <1>8, ClaimFrame DEF StopNotify, WakeWorker, Goto
<1>9. CASE StopJoin
  BY <1>9, ClaimFrame DEF StopJoin, Return
<1>10. QED
  BY <1>1, <1>2, <1>3, <1>4, <1>5, <1>6, <1>7, <1>8, <1>9 DEF MainStep

LEMMA WorkerClaims ==
  ASSUME TypeInv, ClaimInv, WorkerStep \/ SpuriousWakeup
  PROVE  ClaimInv'
<1> USE DEF flags, client, worker
<1>0. wjob \in Job /\ wjob.group \in Groups /\ groupBusy \in [Groups -> BOOLEAN]
  BY DEF TypeInv, PrefetcherTypeOK, Job
<1>1. CASE WorkerTake
  <2>1. /\ queue # << >> /\ queue' = Tail(queue) /\ wpc' = "read" /\ wjob' = Head(queue)
        /\ UNCHANGED <<groupBusy, mpc, marg>>
    BY <1>1 DEF WorkerTake
  <2>2. /\ Queued(Head(queue).group) /\ Head(queue).group \in Groups
        /\ \A g \in Groups : Queued(g)' => Queued(g)
        /\ QueuedOnce' /\ \A g \in Groups : Queued(g)' => g # Head(queue).group
    BY <2>1, TakenJob DEF ClaimInv, OneJobPerGroup, Job
  <2>3. \A g : ~Marking(g)' /\ (Reading(g)' <=> g = Head(queue).group)
    BY <2>1 DEF Reading, Marking, MarkPcs
  <2>4. mpc \notin {"wake", "join"}
    BY <2>1 DEF ClaimInv
  <2>5. mpc \in {"flag", "unready", "push"} => marg.group # Head(queue).group
    BY <2>2 DEF ClaimInv
  <2>6. marg.group \in Groups
    BY DEF TypeInv, PrefetcherTypeOK, Job
  <2>7. QED
    BY <2>1, <2>2, <2>3, <2>4, <2>5, <2>6 DEF ClaimInv, OneJobPerGroup
<1>2. CASE WorkerIdleStep
  BY <1>2, ClaimFrame DEF WorkerIdleStep, WorkerExit, WorkerFindsNothing, WorkerBlock, MarkPcs
<1>3. ASSUME NEW ok \in {TRUE, ~MayFail}, WorkerRead(ok)
      PROVE  ClaimInv'
  <2>1. wpc = "read" /\ wpc' = "mark" /\ UNCHANGED <<queue, groupBusy, mpc, marg, wjob>>
    BY <1>3 DEF WorkerRead
  <2>2. QueuedOnce' = QueuedOnce /\ \A g : Queued(g)' = Queued(g)
    BY <2>1 DEF QueuedOnce, Queued
  <2>3. \A g : ~Reading(g)' /\ (Marking(g)' <=> Reading(g))
    BY <2>1 DEF Reading, Marking, MarkPcs
  <2>4. QED
    BY <2>1, <2>2, <2>3 DEF ClaimInv, OneJobPerGroup
<1>4. CASE MarkSuccess \/ MarkReady \/ MarkNotInFlight
  BY <1>4, ClaimFrame DEF MarkSuccess, MarkReady, MarkNotInFlight, MarkPcs
<1>5. CASE MarkNotify
  BY <1>5, ClaimFrame DEF MarkNotify, MarkPcs
<1>6. CASE MarkGroup
  <2>1. /\ wpc = "group" /\ wpc' = "check" /\ UNCHANGED <<queue, mpc, marg>>
        /\ groupBusy' = [groupBusy EXCEPT ![wjob.group] = FALSE]
    BY <1>6 DEF MarkGroup
  <2>2. QueuedOnce' = QueuedOnce /\ \A g : Queued(g)' = Queued(g)
    BY <2>1 DEF QueuedOnce, Queued
  <2>3. Marking(wjob.group) /\ \A g : ~Reading(g)' /\ ~Marking(g)'
    BY <2>1 DEF Reading, Marking, MarkPcs
  <2>4. ~Queued(wjob.group) /\ (mpc \in {"flag", "unready", "push"} => marg.group # wjob.group)
    BY <1>0, <2>3 DEF ClaimInv, OneJobPerGroup
  <2>5. marg.group \in Groups
    BY DEF TypeInv, PrefetcherTypeOK, Job
  <2>6. QED
    BY <1>0, <2>1, <2>2, <2>3, <2>4, <2>5 DEF ClaimInv, OneJobPerGroup
<1>7. CASE SpuriousWakeup
  BY <1>7, ClaimFrame DEF SpuriousWakeup, WaitSpuriousWakeup, WorkerSpuriousWakeup, Goto, MarkPcs
<1>8. QED
  BY <1>1, <1>2, <1>3, <1>4, <1>5, <1>6, <1>7 DEF WorkerStep, MarkStep

LEMMA StepClaims == TypeInv /\ ClaimInv /\ [PrefetcherNext]_prefetcherVars => ClaimInv'
<1>1. ASSUME ClaimInv, UNCHANGED prefetcherVars
      PROVE  ClaimInv'
  BY <1>1, ClaimFrame DEF prefetcherVars, flags, client, worker
<1>2. QED
  BY <1>1, CallClaims, MainClaims, WorkerClaims DEF PrefetcherNext

LEMMA SpecClaims == PrefetcherSpec => []ClaimInv
<1>1. QED
  BY SpecTypes, InitClaims, StepClaims, PTL DEF PrefetcherSpec

(* However requests, stops and restarts follow one another, a group has at *)
(* most one job: no two reads of it are ever queued or under way, so no    *)
(* slot is written by two of them (Submit's compare-exchange).             *)
THEOREM GroupClaimIsExclusive == PrefetcherSpec => []OneJobPerGroup
<1>1. ClaimInv => OneJobPerGroup
  BY DEF ClaimInv
<1>2. QED
  BY <1>1, SpecClaims, PTL

-----------------------------------------------------------------------------
(* Fresh answers.  From here on no two groups share a chunk, as the groups *)
(* of one mode do not.                                                     *)

LEMMA InitFresh == PrefetcherInit => FreshInv
<1> SUFFICES ASSUME PrefetcherInit PROVE FreshInv
  OBVIOUS
<1>1. \A c \in Chunks : ~Outstanding(c)
  BY EmptySeq DEF PrefetcherInit, Outstanding, Queued, Reading
<1>2. QED
  BY <1>1 DEF PrefetcherInit, FreshInv, MarkPcs

(* Steps that write no flag of a chunk, submit nothing and mark nothing.   *)
LEMMA FreshFrame ==
  ASSUME FreshInv, UNCHANGED <<queue, inFlight, ready, success, wjob, wk, wok, lastRead>>,
         wpc' = "read" => wpc = "read",
         wpc' \in MarkPcs => wpc' = wpc,
         mpc' \in {"flag", "unready", "push"} => mpc' = mpc /\ UNCHANGED <<marg, mk>>
  PROVE  FreshInv'
<1>1. \A c : Outstanding(c)' => Outstanding(c)
  BY DEF Outstanding, Queued, Reading
<1>2. \A c : Awaited(c)' <=> Awaited(c)
  BY DEF Awaited
<1>3. wchunk' = wchunk
  BY DEF wchunk
<1>4. wpc' \in {"markReady", "markDone"} => wpc' = wpc
  BY DEF MarkPcs
<1>5. QED
  BY <1>1, <1>2, <1>3, <1>4 DEF FreshInv

LEMMA CallFresh ==
  ASSUME FreshInv, Call
  PROVE  FreshInv'
<1> USE DEF flags, client, worker, MarkPcs
<1>1. ASSUME NEW g \in Groups, NEW d \in Dests \cup {NoDest}, Submit(g, d)
      PROVE  FreshInv'
  BY <1>1, FreshFrame DEF Submit, Return
<1>2. ASSUME NEW c \in Chunks, WaitReady(c)
      PROVE  FreshInv'
  BY <1>2, FreshFrame DEF WaitReady
<1>3. CASE StartWorker
  BY <1>3, FreshFrame DEF StartWorker
<1>4. CASE StopWorker
  BY <1>4, FreshFrame DEF StopWorker, Goto
<1>5. QED
  BY <1>1, <1>2, <1>3, <1>4 DEF Call

(* The submission's loop over the chunks, and the push after it.           *)
LEMMA SubmitFresh ==
  ASSUME TypeInv, ClaimInv, FreshInv, SubmitClaim \/ SubmitSetInFlight \/ SubmitClearReady \/ SubmitPush
  PROVE  FreshInv'
<1> USE DEF flags, client, worker
<1>0. /\ marg \in Job /\ marg.group \in Groups
      /\ Len(ChunksOf[marg.group]) \in Nat /\ mk \in 1 .. Len(ChunksOf[marg.group])
      /\ \A k \in 1 .. Len(ChunksOf[marg.group]) : ChunksOf[marg.group][k] \in Chunks
      /\ inFlight \in [Chunks -> BOOLEAN] /\ ready \in [Chunks -> BOOLEAN]
  BY GroupHasChunks DEF TypeInv, PrefetcherTypeOK, Job
<1>1. CASE SubmitClaim
  <2>1. /\ mpc = "cas" /\ mpc' \in {"idle", "flag"} /\ (mpc' = "flag" => mk' = mk)
        /\ UNCHANGED <<queue, inFlight, ready, success, wpc, wjob, wk, wok, lastRead>>
    BY <1>1 DEF SubmitClaim, Return, Goto
  <2>2. mpc' = "flag" => mk' = 1
    BY <2>1 DEF TypeInv, LocalsInv
  <2>3. wchunk' = wchunk
    BY <2>1 DEF wchunk
  <2>4. \A c : (Outstanding(c)' <=> Outstanding(c)) /\ (Awaited(c)' <=> Awaited(c))
    BY <2>1 DEF Outstanding, Queued, Reading, Awaited
  <2>5. QED
    BY <2>1, <2>2, <2>3, <2>4 DEF FreshInv
<1>2. CASE SubmitSetInFlight
  <2>1. /\ mpc = "flag" /\ mpc' = "unready"
        /\ inFlight' = [inFlight EXCEPT ![ChunksOf[marg.group][mk]] = TRUE]
        /\ UNCHANGED <<queue, ready, success, wpc, wjob, wk, wok, lastRead, marg, mk>>
    BY <1>2 DEF SubmitSetInFlight, Goto
  <2>2. wchunk' = wchunk
    BY <2>1 DEF wchunk
  <2>3. \A c : Outstanding(c)' <=> Outstanding(c)
    BY <2>1 DEF Outstanding, Queued, Reading
  <2>4. \A c \in Chunks : Awaited(c) => Awaited(c)'
    BY <1>0, <2>1 DEF Awaited
  <2>5. inFlight'[ChunksOf[marg.group][mk]]
    BY <1>0, <2>1
  <2>6. \A k \in 1 .. mk - 1 : Awaited(ChunksOf[marg.group][k])'
    <3>1. ASSUME NEW k \in 1 .. mk - 1 PROVE ChunksOf[marg.group][k] \in Chunks
      BY <1>0
    <3>2. \A k \in 1 .. mk - 1 : Awaited(ChunksOf[marg.group][k])
      BY <2>1 DEF FreshInv
    <3>3. QED
      BY <1>0, <2>1, <3>1, <3>2 DEF Awaited
  <2>7. QED
    BY <2>1, <2>2, <2>3, <2>4, <2>5, <2>6 DEF FreshInv
<1>3. CASE SubmitClearReady
  <2>0. ChunksOf[marg.group][mk] \in Chunks
    BY <1>0
  <2>1. /\ mpc = "unready" /\ marg' = marg
        /\ ready' = [ready EXCEPT ![ChunksOf[marg.group][mk]] = FALSE]
        /\ \/ mk < Len(ChunksOf[marg.group]) /\ mpc' = "flag" /\ mk' = mk + 1
           \/ ~(mk < Len(ChunksOf[marg.group])) /\ mpc' = "push" /\ mk' = mk
        /\ UNCHANGED <<queue, inFlight, success, wpc, wjob, wk, wok, lastRead>>
    BY <1>3 DEF SubmitClearReady, Goto
  <2>2. wchunk' = wchunk
    BY <2>1 DEF wchunk
  <2>3. \A c : Outstanding(c)' <=> Outstanding(c)
    BY <2>1 DEF Outstanding, Queued, Reading
  <2>4. \A c \in Chunks : Awaited(c) => Awaited(c)'
    BY <1>0, <2>1 DEF Awaited
  <2>5. \A k \in 1 .. mk : Awaited(ChunksOf[marg.group][k])'
    <3>1. inFlight[ChunksOf[marg.group][mk]] /\ \A k \in 1 .. mk - 1 : Awaited(ChunksOf[marg.group][k])
      BY <2>1 DEF FreshInv
    <3>2. ASSUME NEW k \in 1 .. mk
          PROVE  inFlight'[ChunksOf[marg.group][k]] /\ ~ready'[ChunksOf[marg.group][k]]
      <4>1. CASE k = mk
        BY <2>0, <1>0, <2>1, <3>1, <4>1
      <4>2. CASE k # mk
        <5>1. k \in 1 .. mk - 1 /\ ChunksOf[marg.group][k] \in Chunks
          BY <1>0, <4>2
        <5>2. QED
          BY <1>0, <2>1, <3>1, <5>1 DEF Awaited
      <4>3. QED
        BY <4>1, <4>2
    <3>3. QED
      BY <1>0, <2>1, <3>2 DEF Awaited
  <2>6. mpc' = "flag" => \A k \in 1 .. mk' - 1 : Awaited(ChunksOf[marg.group][k])'
    BY <1>0, <2>1, <2>5
  <2>7. mpc' = "push" => \A c \in ChunkSet(marg.group) : Awaited(c)'
    <3>1. mpc' = "push" => mk = Len(ChunksOf[marg.group])
      BY <1>0, <2>1
    <3>2. QED
      BY <2>1, <2>5, <3>1 DEF ChunkSet, Awaited
  <2>8. mpc' # "unready"
    BY <2>1
  <2>9. QED
    BY <2>1, <2>2, <2>3, <2>4, <2>6, <2>7, <2>8 DEF FreshInv, Awaited, ChunkSet
<1>4. CASE SubmitPush
  <2>1. /\ mpc = "push" /\ mpc' = "notify" /\ queue' = Append(queue, marg)
        /\ UNCHANGED <<inFlight, ready, success, wpc, wjob, wk, wok, lastRead>>
    BY <1>4 DEF SubmitPush, Goto
  <2>2. wchunk' = wchunk
    BY <2>1 DEF wchunk
  <2>3. \A g \in Groups : Queued(g)' => Queued(g) \/ g = marg.group
    BY <1>0, <2>1, PushedJob
  <2>4. \A c : Outstanding(c)' => Outstanding(c) \/ c \in ChunkSet(marg.group)
    BY <2>1, <2>3 DEF Outstanding, Reading
  <2>5. \A c : Awaited(c)' <=> Awaited(c)
    BY <2>1 DEF Awaited
  <2>6. QED
    BY <2>1, <2>2, <2>4, <2>5 DEF FreshInv
<1>5. QED
  BY <1>1, <1>2, <1>3, <1>4

LEMMA MainFresh ==
  ASSUME TypeInv, ClaimInv, FreshInv, MainStep
  PROVE  FreshInv'
<1> USE DEF flags, client, worker
<1>1. CASE SubmitLookup \/ SubmitInsert
  BY <1>1, FreshFrame DEF SubmitLookup, SubmitInsert, Goto
<1>2. CASE SubmitClaim \/ SubmitSetInFlight \/ SubmitClearReady \/ SubmitPush
  BY <1>2, SubmitFresh
<1>3. CASE SubmitNotify
  BY <1>3, FreshFrame DEF SubmitNotify, WakeWorker, Return, MarkPcs
<1>4. CASE WaitCheck \/ WaitBlock \/ StopRequest
  BY <1>4, FreshFrame DEF WaitCheck, WaitBlock, StopRequest, Return, Goto
<1>5. CASE StopClearQueue
  <2>1. /\ mpc' = "wake" /\ queue' = << >>
        /\ UNCHANGED <<inFlight, ready, success, wpc, wjob, wk, wok, lastRead>>
    BY <1>5 DEF StopClearQueue, Goto
  <2>2. wchunk' = wchunk
    BY <2>1 DEF wchunk
  <2>3. \A c : (Outstanding(c)' => Outstanding(c)) /\ (Awaited(c)' <=> Awaited(c))
    BY <2>1 DEF Outstanding, Queued, Reading, Awaited
  <2>4. QED
    BY <2>1, <2>2, <2>3 DEF FreshInv
<1>6. CASE StopNotify
  BY <1>6, FreshFrame DEF StopNotify, WakeWorker, Goto, MarkPcs
<1>7. CASE StopJoin
  <2>1. /\ mpc = "join" /\ mpc' = "idle" /\ wpc = "off" /\ wpc' = "off" /\ queue' = queue
        /\ success' = [c \in Chunks |-> FALSE] /\ lastRead' = [c \in Chunks |-> "none"]
    BY <1>7 DEF StopJoin, Return
  <2>2. queue' = << >>
    BY <2>1 DEF ClaimInv
  <2>3. \A c : ~Outstanding(c)'
    BY <2>1, <2>2 DEF Outstanding, Queued, Reading
  <2>4. QED
    BY <2>1, <2>3 DEF FreshInv, MarkPcs
<1>8. QED
  BY <1>1, <1>2, <1>3, <1>4, <1>5, <1>6, <1>7 DEF MainStep

(* The group that is being marked shares no chunk with a group that is     *)
(* queued or being submitted.                                              *)
MarkedApart ==
  wpc \in MarkPcs =>
    \A g \in Groups :
      /\ g # wjob.group
      /\ Queued(g) \/ (mpc \in {"flag", "unready", "push"} /\ marg.group = g)
      => ChunkSet(g) \cap ChunkSet(wjob.group) = {}

LEMMA DisjointGroupsApart ==
  ASSUME GroupsDisjoint, TypeInv
  PROVE  MarkedApart
BY DEF TypeInv, PrefetcherTypeOK, Job, GroupsDisjoint, MarkedApart

(* MarkJobCompleted writes the flags of a chunk that no other job, queued  *)
(* or being submitted, has anything to do with.                            *)
LEMMA MarkedChunkIsAlone ==
  ASSUME MarkedApart, TypeInv, ClaimInv, wpc \in MarkPcs
  PROVE  /\ wchunk \in Chunks
         /\ wchunk \in ChunkSet(wjob.group)
         /\ ~Outstanding(wchunk)
         /\ mpc \in {"flag", "unready", "push"} => wchunk \notin ChunkSet(marg.group)
<1>1. /\ wjob.group \in Groups /\ marg.group \in Groups
      /\ wk \in 1 .. Len(ChunksOf[wjob.group])
  BY DEF TypeInv, PrefetcherTypeOK, Job
<1>2. wchunk \in Chunks /\ wchunk \in ChunkSet(wjob.group)
  BY <1>1, GroupHasChunks DEF wchunk, ChunkSet
<1>3. Marking(wjob.group) /\ \A g : ~Reading(g)
  BY DEF Marking, Reading, MarkPcs
<1>4. ~Queued(wjob.group)
  BY <1>1, <1>3 DEF ClaimInv, OneJobPerGroup
<1>5. \A g \in Groups : Queued(g) => wchunk \notin ChunkSet(g)
  BY <1>2, <1>4 DEF MarkedApart
<1>6. ~Outstanding(wchunk)
  BY <1>3, <1>5 DEF Outstanding
<1>7. mpc \in {"flag", "unready", "push"} => marg.group # wjob.group
  BY <1>3 DEF ClaimInv
<1>8. mpc \in {"flag", "unready", "push"} => wchunk \notin ChunkSet(marg.group)
  BY <1>1, <1>2, <1>7 DEF MarkedApart
<1>9. QED
  BY <1>2, <1>6, <1>8

LEMMA MarkFresh ==
  ASSUME MarkedApart, TypeInv, ClaimInv, FreshInv, MarkSuccess \/ MarkReady \/ MarkNotInFlight
  PROVE  FreshInv'
<1> USE DEF flags, client, worker
<1>1. wpc \in {"mark", "markReady", "markDone"}
  BY DEF MarkSuccess, MarkReady, MarkNotInFlight
<1>2. /\ wpc' \in {"markReady", "markDone", "markNotify"}
      /\ UNCHANGED <<queue, mpc, marg, mk, wjob, wk, wok, lastRead>>
  BY DEF MarkSuccess, MarkReady, MarkNotInFlight
<1>3. /\ wchunk \in Chunks /\ wchunk \in ChunkSet(wjob.group) /\ ~Outstanding(wchunk)
      /\ mpc \in {"flag", "unready", "push"} => wchunk \notin ChunkSet(marg.group)
  BY <1>1, MarkedChunkIsAlone DEF MarkPcs
<1>4. /\ inFlight \in [Chunks -> BOOLEAN] /\ ready \in [Chunks -> BOOLEAN]
      /\ success \in [Chunks -> BOOLEAN] /\ wok \in BOOLEAN
      /\ marg.group \in Groups /\ mk \in 1 .. Len(ChunksOf[marg.group]) /\ Len(ChunksOf[marg.group]) \in Nat
  BY GroupHasChunks DEF TypeInv, PrefetcherTypeOK, Job
<1>5. \A c \in Chunks : c # wchunk => /\ inFlight'[c] = inFlight[c] /\ ready'[c] = ready[c]
                          /\ success'[c] = success[c]
  BY <1>3, <1>4 DEF MarkSuccess, MarkReady, MarkNotInFlight
<1>6. \A c \in Chunks : c # wchunk => (Awaited(c)' <=> Awaited(c))
  BY <1>5 DEF Awaited
<1>7. success'[wchunk] = wok
  BY <1>3, <1>4 DEF MarkSuccess, MarkReady, MarkNotInFlight, FreshInv
<1>8. lastRead'[wchunk] = IF wok THEN "ok" ELSE "failed"
  BY <1>1, <1>2, <1>3 DEF FreshInv, MarkPcs
<1>9. wchunk' = wchunk
  BY <1>2 DEF wchunk
<1>10. \A c : Outstanding(c)' => Outstanding(c) /\ c # wchunk
  BY <1>1, <1>2, <1>3 DEF Outstanding, Queued, Reading
<1>11. \A c \in Chunks : Outstanding(c)' => Awaited(c)'
  BY <1>6, <1>10 DEF FreshInv
<1>12. mpc \in {"flag", "unready", "push"} =>
         \A k \in 1 .. Len(ChunksOf[marg.group]) :
           ChunksOf[marg.group][k] \in Chunks \ {wchunk}
  BY <1>3, <1>4, GroupHasChunks DEF ChunkSet
<1>13. mpc' \in {"flag", "unready"} => \A k \in 1 .. mk' - 1 : Awaited(ChunksOf[marg.group][k])'
  <2> SUFFICES ASSUME mpc \in {"flag", "unready"}, NEW k \in 1 .. mk - 1
               PROVE  Awaited(ChunksOf[marg.group][k])'
    BY <1>2
  <2>1. k \in 1 .. Len(ChunksOf[marg.group])
    BY <1>4
  <2>2. Awaited(ChunksOf[marg.group][k]) /\ ChunksOf[marg.group][k] \in Chunks \ {wchunk}
    BY <1>12, <2>1 DEF FreshInv
  <2>3. QED
    BY <1>2, <1>5, <2>2 DEF Awaited
<1>14. mpc' = "unready" => inFlight'[ChunksOf[marg.group][mk]]
  BY <1>2, <1>4, <1>5, <1>12 DEF FreshInv
<1>15. mpc' = "push" => \A c \in ChunkSet(marg.group) : Awaited(c)'
  <2>1. mpc = "push" => ChunkSet(marg.group) \subseteq Chunks \ {wchunk}
    BY <1>12 DEF ChunkSet
  <2>2. QED
    BY <1>2, <1>6, <2>1 DEF FreshInv
<1>16. \A c \in ChunkSet(wjob.group) : lastRead'[c] = IF wok' THEN "ok" ELSE "failed"
  BY <1>1, <1>2 DEF FreshInv, MarkPcs
<1>17. \A c \in Chunks : ~Awaited(c)' => success'[c] = (lastRead'[c] = "ok")
  <2>1. ASSUME NEW c \in Chunks, ~Awaited(c)' PROVE success'[c] = (lastRead'[c] = "ok")
    <3>1. CASE c = wchunk
      BY <1>4, <1>7, <1>8, <3>1
    <3>2. CASE c # wchunk
      BY <1>2, <1>5, <1>6, <2>1, <3>2 DEF FreshInv
    <3>3. QED
      BY <3>1, <3>2
  <2>2. QED
    BY <2>1
<1>18. (wpc \in {"markReady", "markDone"} => success[wchunk] = wok)'
  BY <1>2, <1>7, <1>9
<1>19. (mpc = "unready" => inFlight[ChunksOf[marg.group][mk]])'
  BY <1>2, <1>14
<1>20. (mpc = "push" => \A c \in ChunkSet(marg.group) : Awaited(c))'
  BY <1>2, <1>15
<1>21. (wpc \in MarkPcs =>
         \A c \in ChunkSet(wjob.group) : lastRead[c] = IF wok THEN "ok" ELSE "failed")'
  BY <1>2, <1>16
<1>22. QED
  BY <1>11, <1>13, <1>17, <1>18, <1>19, <1>20, <1>21 DEF FreshInv

LEMMA WorkerFresh ==
  ASSUME MarkedApart, TypeInv, ClaimInv, FreshInv, WorkerStep \/ SpuriousWakeup
  PROVE  FreshInv'
<1> USE DEF flags, client, worker
<1>1. CASE WorkerTake
  <2>1. /\ queue # << >> /\ queue' = Tail(queue) /\ wpc' = "read" /\ wjob' = Head(queue)
        /\ UNCHANGED <<inFlight, ready, success, mpc, marg, mk, lastRead>>
    BY <1>1 DEF WorkerTake
  <2>2. /\ Queued(Head(queue).group)
        /\ \A g \in Groups : Queued(g)' => Queued(g)
    BY <2>1, TakenJob
  <2>3. \A g : Reading(g)' => g = Head(queue).group
    BY <2>1 DEF Reading
  <2>4. \A c : Outstanding(c)' => Outstanding(c)
    BY <2>2, <2>3 DEF Outstanding
  <2>5. \A c : Awaited(c)' <=> Awaited(c)
    BY <2>1 DEF Awaited
  <2>6. QED
    BY <2>1, <2>4, <2>5 DEF FreshInv, MarkPcs
<1>2. CASE WorkerIdleStep
  BY <1>2, FreshFrame DEF WorkerIdleStep, WorkerExit, WorkerFindsNothing, WorkerBlock, MarkPcs
<1>3. ASSUME NEW ok \in {TRUE, ~MayFail}, WorkerRead(ok)
      PROVE  FreshInv'
  <2>1. /\ wpc = "read" /\ wpc' = "mark" /\ wok' = ok
        /\ lastRead' = [c \in Chunks |-> IF c \in ChunkSet(wjob.group)
                                         THEN IF ok THEN "ok" ELSE "failed" ELSE lastRead[c]]
        /\ UNCHANGED <<queue, inFlight, ready, success, mpc, marg, mk, wjob>>
    BY <1>3 DEF WorkerRead
  <2>2. wjob.group \in Groups /\ ChunkSet(wjob.group) \subseteq Chunks
    BY GroupHasChunks DEF TypeInv, PrefetcherTypeOK, Job, ChunkSet
  <2>3. \A c : (Outstanding(c)' => Outstanding(c)) /\ (Awaited(c)' <=> Awaited(c))
    BY <2>1 DEF Outstanding, Queued, Reading, Awaited
  <2>4. \A c \in ChunkSet(wjob.group) : Awaited(c)
    BY <2>1, <2>2 DEF FreshInv, Outstanding, Reading
  <2>5. \A c \in Chunks : ~Awaited(c) => lastRead'[c] = lastRead[c]
    BY <2>1, <2>4
  <2>6. (\A c \in ChunkSet(wjob.group) : lastRead[c] = IF wok THEN "ok" ELSE "failed")'
    BY <2>1, <2>2
  <2>7. QED
    BY <2>1, <2>3, <2>5, <2>6 DEF FreshInv, MarkPcs
<1>4. CASE MarkSuccess \/ MarkReady \/ MarkNotInFlight
  BY <1>4, MarkFresh
<1>5. CASE MarkNotify
  <2>1. /\ wpc = "markNotify" /\ wpc' \in {"mark", "group"}
        /\ mpc' \in {"flag", "unready", "push"} => mpc' = mpc
        /\ UNCHANGED <<queue, inFlight, ready, success, marg, mk, wjob, wok, lastRead>>
    BY <1>5 DEF MarkNotify
  <2>2. \A c : (Outstanding(c)' => Outstanding(c)) /\ (Awaited(c)' <=> Awaited(c))
    BY <2>1 DEF Outstanding, Queued, Reading, Awaited
  <2>3. QED
    BY <2>1, <2>2 DEF FreshInv, MarkPcs
<1>6. CASE MarkGroup
  <2>1. /\ wpc = "group" /\ wpc' = "check"
        /\ UNCHANGED <<queue, inFlight, ready, success, mpc, marg, mk, lastRead>>
    BY <1>6 DEF MarkGroup
  <2>2. \A c : (Outstanding(c)' => Outstanding(c)) /\ (Awaited(c)' <=> Awaited(c))
    BY <2>1 DEF Outstanding, Queued, Reading, Awaited
  <2>3. QED
    BY <2>1, <2>2 DEF FreshInv, MarkPcs
<1>7. CASE SpuriousWakeup
  BY <1>7, FreshFrame DEF SpuriousWakeup, WaitSpuriousWakeup, WorkerSpuriousWakeup, Goto, MarkPcs
<1>8. QED
  BY <1>1, <1>2, <1>3, <1>4, <1>5, <1>6, <1>7 DEF WorkerStep, MarkStep

LEMMA StepFresh ==
  TypeInv /\ ClaimInv /\ MarkedApart /\ FreshInv /\ [PrefetcherNext]_prefetcherVars => FreshInv'
<1>1. ASSUME FreshInv, UNCHANGED prefetcherVars
      PROVE  FreshInv'
  BY <1>1, FreshFrame DEF prefetcherVars, flags, client, worker
<1>2. QED
  BY <1>1, CallFresh, MainFresh, WorkerFresh DEF PrefetcherNext

(* The only step that answers a wait.                                      *)
LEMMA AnswerIsFresh ==
  ASSUME TypeInv, FreshInv, [PrefetcherNext]_prefetcherVars, mpc = "pred", mpc' = "idle"
  PROVE  ~Outstanding(mchunk) /\ mret' = (lastRead[mchunk] = "ok")
<1>1. WaitCheck
  BY DEF PrefetcherNext, prefetcherVars, Call, MainStep, WorkerStep, WorkerIdleStep, MarkStep, SpuriousWakeup,
         Submit, WaitReady, StartWorker, StopWorker, SubmitLookup, SubmitInsert, SubmitClaim,
         SubmitSetInFlight, SubmitClearReady, SubmitPush, SubmitNotify, WaitBlock,
         StopRequest, StopClearQueue, StopNotify, StopJoin,
         WorkerTake, WorkerExit, WorkerFindsNothing, WorkerBlock, WorkerRead,
         MarkSuccess, MarkReady, MarkNotInFlight, MarkNotify, MarkGroup,
         WaitSpuriousWakeup, WorkerSpuriousWakeup, client
<1>2. ~Awaited(mchunk) /\ mret' = success[mchunk]
  BY <1>1 DEF WaitCheck, Return, Goto, Awaited
<1>3. mchunk \in Chunks
  BY DEF TypeInv, PrefetcherTypeOK
<1>4. QED
  BY <1>2, <1>3 DEF FreshInv

(* For groups that share no chunk: a chunk no wait may block on holds the  *)
(* outcome of its last read, and no read of it is outstanding.             *)
THEOREM FreshFlags ==
  ASSUME GroupsDisjoint
  PROVE  PrefetcherSpec => []FreshInv
<1>1. PrefetcherInit => FreshInv
  BY InitFresh
<1>2. TypeInv /\ ClaimInv /\ FreshInv /\ [PrefetcherNext]_prefetcherVars => FreshInv'
  BY StepFresh, DisjointGroupsApart
<1>3. QED
  BY <1>1, <1>2, SpecTypes, SpecClaims, PTL DEF PrefetcherSpec

(* For groups that share no chunk: WaitReady never answers while a read of *)
(* its chunk is queued or under way, and answers with the outcome of the   *)
(* last one (WaitReady, Submit and MarkJobCompleted together).             *)
THEOREM WaitAnswersFresh ==
  ASSUME GroupsDisjoint
  PROVE  PrefetcherSpec => FreshResult
<1>1. PrefetcherSpec => []FreshInv
  BY FreshFlags
<1>2. TypeInv /\ FreshInv /\ [PrefetcherNext]_prefetcherVars
        => [mpc = "pred" /\ mpc' = "idle"
             => /\ ~Outstanding(mchunk)
                /\ mret' = (lastRead[mchunk] = "ok")]_prefetcherVars
  BY AnswerIsFresh
<1>3. QED
  BY <1>1, <1>2, SpecTypes, PTL DEF PrefetcherSpec, FreshResult
=============================================================================
