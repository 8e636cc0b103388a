-------------------------- MODULE ChunkPrefetcher --------------------------
(***************************************************************************)
(* WeightChunkPrefetcher with the parallel_pread engine: the inference     *)
(* thread submits chunk groups and waits for single chunks, a worker       *)
(* thread reads the groups and marks their chunks.                         *)
(*                                                                         *)
(* One action is one access to shared state.  The two condition variables  *)
(* are modelled as they work: a wait evaluates its predicate holding the   *)
(* mutex and then, in a second step, releases the mutex and blocks; a      *)
(* notification wakes only a thread that has blocked; a blocked thread may *)
(* wake up without one.  queue_mutex_ is held by the worker exactly in     *)
(* pc "block", the mutex of chunk c by the inference thread exactly in     *)
(* HoldsMutex(c); every other critical section is a single action.         *)
(***************************************************************************)
EXTENDS Naturals, Sequences, FiniteSets

CONSTANTS
  Groups,      (* the chunk groups of the loaded plans                     *)
  Chunks,      (* chunk indices                                            *)
  ChunksOf,    (* chunk_indices of a group, in file order                  *)
  Dests,       (* buffer addresses a group can be read to                  *)
  NoDest,      (* nullptr                                                  *)
  MayFail      (* TRUE if pread may fail or come up short                  *)

ASSUME PrefetcherAssumption ==
  /\ Groups # {} /\ Chunks # {} /\ Dests # {}
  /\ ChunksOf \in [Groups -> Seq(Chunks)]
  /\ \A g \in Groups : Len(ChunksOf[g]) > 0
  /\ NoDest \notin Dests
  /\ MayFail \in BOOLEAN

ChunkSet(g) == {ChunksOf[g][k] : k \in 1 .. Len(ChunksOf[g])}

VARIABLES
  running,     (* io_worker_running_                                       *)
  stopReq,     (* io_worker_stop_requested_                                *)
  queue,       (* io_job_queue_                                            *)
  groupStates, (* keys of index_to_group_io_states_: empty after loading   *)
  groupBusy,   (* ChunkGroupIOState::in_flight                             *)
  inFlight,    (* ChunkIOState::in_flight                                  *)
  ready,       (* ChunkIOState::ready                                      *)
  success,     (* ChunkIOState::success                                    *)
  mpc,         (* where the inference thread is inside a call, else "idle" *)
  marg,        (* the job it submits                                       *)
  mchunk,      (* the chunk it waits for                                   *)
  mk,          (* its position in the group's chunks                       *)
  mret,        (* what its last call returned                              *)
  wpc,         (* where the worker thread is                               *)
  wjob,        (* the job it took                                          *)
  wk,          (* its position in the job's chunks                         *)
  wok,         (* outcome of the job's read                                *)
  lastRead     (* history: outcome of the last finished read of a chunk    *)

flags == <<groupStates, groupBusy, inFlight, ready, success>>
client == <<mpc, marg, mchunk, mk, mret>>
worker == <<wpc, wjob, wk, wok>>
prefetcherVars == <<running, stopReq, queue, flags, client, worker, lastRead>>

Job == [group : Groups, dest : Dests]
Outcomes == {"none", "ok", "failed"}

MainPcs == {"idle", "lookup", "insert", "cas", "flag", "unready", "push", "notify", "pred", "block",
            "blocked", "stop", "clear", "wake", "join"}
MarkPcs == {"mark", "markReady", "markDone", "markNotify", "group"}
WorkerPcs == {"off", "check", "block", "waiting", "read"} \cup MarkPcs

(* Values of locals that are out of scope.                                 *)
NoJob == [group |-> CHOOSE g \in Groups : TRUE, dest |-> CHOOSE d \in Dests : TRUE]
NoChunk == CHOOSE c \in Chunks : TRUE

HoldsMutex(c) == mchunk = c /\ mpc \in {"pred", "block"}
QueueMutexFree == wpc # "block"

PrefetcherInit ==
  /\ running = FALSE
  /\ stopReq = FALSE
  /\ queue = <<>>
  /\ groupStates = {}
  /\ groupBusy = [g \in Groups |-> FALSE]
  /\ inFlight = [c \in Chunks |-> FALSE]
  /\ ready = [c \in Chunks |-> FALSE]
  /\ success = [c \in Chunks |-> FALSE]
  /\ mpc = "idle"
  /\ marg = NoJob
  /\ mchunk = NoChunk
  /\ mk = 1
  /\ mret = FALSE
  /\ wpc = "off"
  /\ wjob = NoJob
  /\ wk = 1
  /\ wok = FALSE
  /\ lastRead = [c \in Chunks |-> "none"]

-----------------------------------------------------------------------------
(* Calls of the inference thread.                                          *)

Return(value) ==
  /\ mpc' = "idle"
  /\ mret' = value
  /\ marg' = NoJob
  /\ mchunk' = NoChunk
  /\ mk' = 1

Goto(pc) ==
  /\ mpc' = pc
  /\ UNCHANGED <<marg, mchunk, mk, mret>>

(* Submit refuses a request without a buffer; else it looks the group up.  *)
Submit(g, d) ==
  /\ mpc = "idle"
  /\ IF d = NoDest
     THEN Return(FALSE)
     ELSE /\ mpc' = "lookup"
          /\ marg' = [group |-> g, dest |-> d]
          /\ UNCHANGED <<mchunk, mk, mret>>
  /\ UNCHANGED <<running, stopReq, queue, flags, worker, lastRead>>

(* GetChunkGroupIOState.  SetPrefetchPlan allocates the states of all      *)
(* groups and then clears them again (ResetRuntimeState), so the first     *)
(* submission of a group still inserts into the map.                       *)
SubmitLookup ==
  /\ mpc = "lookup"
  /\ Goto(IF marg.group \in groupStates THEN "cas" ELSE "insert")
  /\ UNCHANGED <<running, stopReq, queue, flags, worker, lastRead>>

SubmitInsert ==
  /\ mpc = "insert"
  /\ groupStates' = groupStates \cup {marg.group}
  /\ Goto("cas")
  /\ UNCHANGED <<running, stopReq, queue, groupBusy, inFlight, ready, success, worker, lastRead>>

(* Mutant: sets the flag without looking at it.                            *)
ClaimUnconditionally ==
  /\ mpc = "cas"
  /\ Goto("flag") /\ groupBusy' = [groupBusy EXCEPT ![marg.group] = TRUE]
  /\ UNCHANGED <<running, stopReq, queue, groupStates, inFlight, ready, success, worker, lastRead>>

(* compare_exchange on the group: if it fails, "Already in flight".        *)
SubmitClaim ==
  /\ mpc = "cas"
  /\ IF groupBusy[marg.group]
     THEN Return(TRUE) /\ UNCHANGED groupBusy
     ELSE Goto("flag") /\ groupBusy' = [groupBusy EXCEPT ![marg.group] = TRUE]
  /\ UNCHANGED <<running, stopReq, queue, groupStates, inFlight, ready, success, worker, lastRead>>

SubmitSetInFlight ==
  /\ mpc = "flag"
  /\ inFlight' = [inFlight EXCEPT ![ChunksOf[marg.group][mk]] = TRUE]
  /\ Goto("unready")
  /\ UNCHANGED <<running, stopReq, queue, groupStates, groupBusy, ready, success, worker, lastRead>>

(* Mutant: leaves ready as the last read of the chunk left it.             *)
KeepReady ==
  /\ mpc = "unready"
  /\ IF mk < Len(ChunksOf[marg.group])
     THEN mpc' = "flag" /\ mk' = mk + 1 /\ UNCHANGED <<marg, mchunk, mret>>
     ELSE Goto("push")
  /\ UNCHANGED <<running, stopReq, queue, flags, worker, lastRead>>

SubmitClearReady ==
  /\ mpc = "unready"
  /\ ready' = [ready EXCEPT ![ChunksOf[marg.group][mk]] = FALSE]
  /\ IF mk < Len(ChunksOf[marg.group])
     THEN mpc' = "flag" /\ mk' = mk + 1 /\ UNCHANGED <<marg, mchunk, mret>>
     ELSE Goto("push")
  /\ UNCHANGED <<running, stopReq, queue, groupStates, groupBusy, inFlight, success, worker, lastRead>>

SubmitPush ==
  /\ mpc = "push"
  /\ QueueMutexFree
  /\ queue' = Append(queue, marg)
  /\ Goto("notify")
  /\ UNCHANGED <<running, stopReq, flags, worker, lastRead>>

WakeWorker == wpc' = IF wpc = "waiting" THEN "check" ELSE wpc

(* Mutant: no notify_one.                                                  *)
SubmitSilently ==
  /\ mpc = "notify"
  /\ Return(TRUE)
  /\ UNCHANGED <<running, stopReq, queue, flags, worker, lastRead>>

SubmitNotify ==
  /\ mpc = "notify"
  /\ WakeWorker
  /\ Return(TRUE)
  /\ UNCHANGED <<running, stopReq, queue, flags, wjob, wk, wok, lastRead>>

(* WaitReady locks the chunk's mutex ...                                   *)
WaitReady(c) ==
  /\ mpc = "idle"
  /\ mpc' = "pred"
  /\ mchunk' = c
  /\ UNCHANGED <<marg, mk, mret>>
  /\ UNCHANGED <<running, stopReq, queue, flags, worker, lastRead>>

(* ... evaluates the predicate and returns success if it holds ...         *)
WaitCheck ==
  /\ mpc = "pred"
  /\ IF ready[mchunk] \/ ~inFlight[mchunk]
     THEN Return(success[mchunk])
     ELSE Goto("block")
  /\ UNCHANGED <<running, stopReq, queue, flags, worker, lastRead>>

(* ... or gives the mutex up and blocks until a wakeup, maybe a spurious   *)
(* one.                                                                    *)
WaitBlock ==
  /\ mpc = "block"
  /\ Goto("blocked")
  /\ UNCHANGED <<running, stopReq, queue, flags, worker, lastRead>>

WaitSpuriousWakeup ==
  /\ mpc = "blocked"
  /\ Goto("pred")
  /\ UNCHANGED <<running, stopReq, queue, flags, worker, lastRead>>

StartWorker ==
  /\ mpc = "idle"
  /\ ~running
  /\ running' = TRUE
  /\ stopReq' = FALSE
  /\ wpc' = "check"
  /\ UNCHANGED <<queue, flags, client, wjob, wk, wok, lastRead>>

StopWorker ==
  /\ mpc = "idle"
  /\ running
  /\ running' = FALSE
  /\ Goto("stop")
  /\ UNCHANGED <<stopReq, queue, flags, worker, lastRead>>

StopRequest ==
  /\ mpc = "stop"
  /\ stopReq' = TRUE
  /\ Goto("clear")
  /\ UNCHANGED <<running, queue, flags, worker, lastRead>>

StopClearQueue ==
  /\ mpc = "clear"
  /\ QueueMutexFree
  /\ queue' = <<>>
  /\ Goto("wake")
  /\ UNCHANGED <<running, stopReq, flags, worker, lastRead>>

(* Mutant: no notify_all.                                                  *)
StopSilently ==
  /\ mpc = "wake"
  /\ Goto("join")
  /\ UNCHANGED <<running, stopReq, queue, flags, worker, lastRead>>

StopNotify ==
  /\ mpc = "wake"
  /\ WakeWorker
  /\ Goto("join")
  /\ UNCHANGED <<running, stopReq, queue, flags, wjob, wk, wok, lastRead>>

(* The join, then ResetChunkStates: group flags keep their values.         *)
StopJoin ==
  /\ mpc = "join"
  /\ wpc = "off"
  /\ stopReq' = FALSE
  /\ inFlight' = [c \in Chunks |-> FALSE]
  /\ ready' = [c \in Chunks |-> FALSE]
  /\ success' = [c \in Chunks |-> FALSE]
  /\ lastRead' = [c \in Chunks |-> "none"]
  /\ Return(FALSE)
  /\ UNCHANGED <<running, queue, groupStates, groupBusy, worker>>

-----------------------------------------------------------------------------
(* The worker: RunParallelPreadWorkerLoop and MarkJobCompleted.            *)

(* Evaluates the wait's predicate under queue_mutex_, then the exit test.  *)
WorkerTake ==
  /\ wpc = "check"
  /\ queue # <<>>
  /\ wpc' = "read"
  /\ wjob' = Head(queue)
  /\ queue' = Tail(queue)
  /\ UNCHANGED <<running, stopReq, flags, client, wk, wok, lastRead>>

WorkerExit ==
  /\ wpc = "check"
  /\ queue = <<>> /\ stopReq
  /\ wpc' = "off"
  /\ UNCHANGED <<running, stopReq, queue, flags, client, wjob, wk, wok, lastRead>>

WorkerFindsNothing ==
  /\ wpc = "check"
  /\ queue = <<>> /\ ~stopReq
  /\ wpc' = "block"
  /\ UNCHANGED <<running, stopReq, queue, flags, client, wjob, wk, wok, lastRead>>

WorkerBlock ==
  /\ wpc = "block"
  /\ wpc' = "waiting"
  /\ UNCHANGED <<running, stopReq, queue, flags, client, wjob, wk, wok, lastRead>>

WorkerSpuriousWakeup ==
  /\ wpc = "waiting"
  /\ wpc' = "check"
  /\ UNCHANGED <<running, stopReq, queue, flags, client, wjob, wk, wok, lastRead>>

(* ExecuteParallelPread returns: every block read in full, or not.         *)
WorkerRead(ok) ==
  /\ wpc = "read"
  /\ wpc' = "mark"
  /\ wok' = ok
  /\ lastRead' = [c \in Chunks |-> IF c \in ChunkSet(wjob.group)
                                   THEN IF ok THEN "ok" ELSE "failed"
                                   ELSE lastRead[c]]
  /\ UNCHANGED <<running, stopReq, queue, flags, client, wjob, wk>>

wchunk == ChunksOf[wjob.group][wk]

MarkSuccess ==
  /\ wpc = "mark"
  /\ ~HoldsMutex(wchunk)
  /\ success' = [success EXCEPT ![wchunk] = wok]
  /\ wpc' = "markReady"
  /\ UNCHANGED <<running, stopReq, queue, groupStates, groupBusy, inFlight, ready, client, wjob, wk, wok, lastRead>>

MarkReady ==
  /\ wpc = "markReady"
  /\ ready' = [ready EXCEPT ![wchunk] = TRUE]
  /\ wpc' = "markDone"
  /\ UNCHANGED <<running, stopReq, queue, groupStates, groupBusy, inFlight, success, client, wjob, wk, wok, lastRead>>

MarkNotInFlight ==
  /\ wpc = "markDone"
  /\ inFlight' = [inFlight EXCEPT ![wchunk] = FALSE]
  /\ wpc' = "markNotify"
  /\ UNCHANGED <<running, stopReq, queue, groupStates, groupBusy, ready, success, client, wjob, wk, wok, lastRead>>

(* Mutant: one chunk too many.                                             *)
NotifyPastTheEnd ==
  /\ wpc = "markNotify"
  /\ mpc' = IF mpc = "blocked" /\ mchunk = wchunk THEN "pred" ELSE mpc
  /\ IF wk <= Len(ChunksOf[wjob.group])
     THEN wpc' = "mark" /\ wk' = wk + 1
     ELSE wpc' = "group" /\ UNCHANGED wk
  /\ UNCHANGED <<running, stopReq, queue, flags, marg, mchunk, mk, mret, wjob, wok, lastRead>>

(* notify_all reaches the inference thread only if it has blocked.         *)
MarkNotify ==
  /\ wpc = "markNotify"
  /\ mpc' = IF mpc = "blocked" /\ mchunk = wchunk THEN "pred" ELSE mpc
  /\ IF wk < Len(ChunksOf[wjob.group])
     THEN wpc' = "mark" /\ wk' = wk + 1
     ELSE wpc' = "group" /\ UNCHANGED wk
  /\ UNCHANGED <<running, stopReq, queue, flags, marg, mchunk, mk, mret, wjob, wok, lastRead>>

(* Mutant: forgets the group's flag.                                       *)
MarkNoGroup ==
  /\ wpc = "group"
  /\ wpc' = "check"
  /\ wjob' = NoJob /\ wk' = 1 /\ wok' = FALSE
  /\ UNCHANGED <<running, stopReq, queue, flags, client, lastRead>>

MarkGroup ==
  /\ wpc = "group"
  /\ groupBusy' = [groupBusy EXCEPT ![wjob.group] = FALSE]
  /\ wpc' = "check"
  /\ wjob' = NoJob /\ wk' = 1 /\ wok' = FALSE
  /\ UNCHANGED <<running, stopReq, queue, groupStates, inFlight, ready, success, client, lastRead>>

-----------------------------------------------------------------------------

(* The inference thread inside a call, and the worker, apart from spurious *)
(* wakeups.                                                                *)
MainStep ==
  \/ SubmitLookup \/ SubmitInsert \/ SubmitClaim \/ SubmitSetInFlight
  \/ SubmitClearReady \/ SubmitPush \/ SubmitNotify
  \/ WaitCheck \/ WaitBlock
  \/ StopRequest \/ StopClearQueue \/ StopNotify \/ StopJoin

MarkStep == MarkSuccess \/ MarkReady \/ MarkNotInFlight \/ MarkNotify \/ MarkGroup

WorkerIdleStep == WorkerExit \/ WorkerFindsNothing \/ WorkerBlock

WorkerStep ==
  \/ WorkerTake \/ WorkerIdleStep
  \/ \E ok \in {TRUE, ~MayFail} : WorkerRead(ok)
  \/ MarkStep

SpuriousWakeup == WaitSpuriousWakeup \/ WorkerSpuriousWakeup

(* Any use of the interface: requests and waits while the worker runs, in  *)
(* any order, and any number of stops and restarts.                        *)
Call ==
  \/ /\ running
     /\ \/ \E g \in Groups, d \in Dests \cup {NoDest} : Submit(g, d)
        \/ \E c \in Chunks : WaitReady(c)
  \/ StartWorker
  \/ StopWorker

PrefetcherNext == Call \/ MainStep \/ WorkerStep \/ SpuriousWakeup

(* Both threads are scheduled, and a thread that asks for a mutex which is *)
(* free again and again gets it in the end (the strong fairness: the other *)
(* side may take and release it on every spurious wakeup).  Calls and      *)
(* spurious wakeups need not happen.                                       *)
PrefetcherFairness ==
  /\ WF_prefetcherVars(MainStep)
  /\ WF_prefetcherVars(WorkerStep)
  /\ SF_prefetcherVars(SubmitPush)
  /\ SF_prefetcherVars(StopClearQueue)
  /\ SF_prefetcherVars(MarkSuccess)

PrefetcherSpec ==
  PrefetcherInit /\ [][PrefetcherNext]_prefetcherVars /\ PrefetcherFairness

-----------------------------------------------------------------------------

(* The types of WeightChunkPrefetcher's members and of the threads' locals.*)
PrefetcherTypeOK ==
  /\ running \in BOOLEAN /\ stopReq \in BOOLEAN
  /\ queue \in Seq(Job)
  /\ groupStates \subseteq Groups
  /\ groupBusy \in [Groups -> BOOLEAN]
  /\ inFlight \in [Chunks -> BOOLEAN]
  /\ ready \in [Chunks -> BOOLEAN]
  /\ success \in [Chunks -> BOOLEAN]
  /\ mpc \in MainPcs
  /\ marg \in Job
  /\ mchunk \in Chunks
  /\ mk \in 1 .. Len(ChunksOf[marg.group])
  /\ mret \in BOOLEAN
  /\ wpc \in WorkerPcs
  /\ wjob \in Job
  /\ wk \in 1 .. Len(ChunksOf[wjob.group])
  /\ wok \in BOOLEAN
  /\ lastRead \in [Chunks -> Outcomes]

Queued(g) == \E i \in 1 .. Len(queue) : queue[i].group = g
Reading(g) == wpc = "read" /\ wjob.group = g
Marking(g) == wpc \in MarkPcs /\ wjob.group = g

(* A read that covers c is still to come or under way.                     *)
Outstanding(c) == \E g \in Groups : c \in ChunkSet(g) /\ (Queued(g) \/ Reading(g))

(* WaitReady answers for the latest submission of its chunk: it never      *)
(* returns while a read of the chunk is queued or under way, and what it   *)
(* returns is the outcome of the last read.  Submit clears ready before    *)
(* it queues, MarkJobCompleted writes success before ready                 *)
(* (prefetcher.cc:748-753, 913-931).                                       *)
FreshResult ==
  [][mpc = "pred" /\ mpc' = "idle"
       => /\ ~Outstanding(mchunk)
          /\ mret' = (lastRead[mchunk] = "ok")]_prefetcherVars

QueuedOnce == \A i, j \in 1 .. Len(queue) : i # j => queue[i].group # queue[j].group

(* The compare-exchange on the group admits one job of a group at a time:  *)
(* it is never queued twice, nor queued while the worker still has it.     *)
OneJobPerGroup ==
  /\ QueuedOnce
  /\ \A g \in Groups : Queued(g) => ~Reading(g) /\ ~Marking(g)

(* The groups of one mode share no chunk; a group of PREFILL and one of     *)
(* DECODE may.                                                             *)
GroupsDisjoint ==
  \A g, h \in Groups : g # h => ChunkSet(g) \cap ChunkSet(h) = {}

(* Why that is so, and why FreshResult holds.  A group's flag is set as    *)
(* long as a job of it exists, so a submission that wins the flag is alone *)
(* with the group's chunks ...                                             *)
ClaimInv ==
  /\ OneJobPerGroup
  /\ \A g \in Groups : Queued(g) \/ Reading(g) \/ Marking(g) => groupBusy[g]
  /\ mpc \in {"flag", "unready", "push"} =>
       /\ groupBusy[marg.group]
       /\ ~Queued(marg.group) /\ ~Reading(marg.group) /\ ~Marking(marg.group)
  /\ mpc \in {"wake", "join"} => queue = <<>>

Awaited(c) == inFlight[c] /\ ~ready[c]

(* ... and a chunk that no wait may block on has the success of its last   *)
(* read (holds if GroupsDisjoint).                                         *)
FreshInv ==
  /\ \A c \in Chunks : Outstanding(c) => Awaited(c)
  /\ mpc \in {"flag", "unready"} => \A k \in 1 .. mk - 1 : Awaited(ChunksOf[marg.group][k])
  /\ mpc = "unready" => inFlight[ChunksOf[marg.group][mk]]
  /\ mpc = "push" => \A c \in ChunkSet(marg.group) : Awaited(c)
  /\ wpc \in MarkPcs =>
       \A c \in ChunkSet(wjob.group) : lastRead[c] = IF wok THEN "ok" ELSE "failed"
  /\ wpc \in {"markReady", "markDone"} => success[wchunk] = wok
  /\ \A c \in Chunks : ~Awaited(c) => success[c] = (lastRead[c] = "ok")

(* StopWorker comes back: the worker leaves its loop even if the stop      *)
(* request falls between its predicate and its wait (prefetcher.cc:152-164)*)
StopReturns == mpc = "stop" ~> mpc = "idle"

(* Every job leaves the queue, read by the worker or dropped by a stop.    *)
JobsLeaveQueue == \A g \in Groups : Queued(g) ~> ~Queued(g)

(* "WaitReady returns immediately if already ready" (controller.cc:579).   *)
ReadyWaiterReturns == (mpc = "blocked" /\ ready[mchunk]) ~> mpc # "blocked"

(* "index_to_group_io_states_ is not modified after PreallocateIOStates()"  *)
(* (prefetcher.cc:660): the worker's lookup of a group state, which takes  *)
(* no lock for that reason, never meets an insertion into the map.         *)
GroupLookupUnraced == ~(mpc = "insert" /\ wpc = "group")
=============================================================================
