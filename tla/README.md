# Verification of on-device weight streaming

This directory holds TLA+ specifications of `flash-slim`, the C++ runtime that
runs a language model whose weights do not fit in memory: the weights are cut
into chunks, chunks are bundled into groups, and while the operators of one
group compute, the next group is read from flash into the other half of a small
buffer. The specifications say what this double buffering promises, and how the
controller and the I/O threads keep (or fail to keep) the promise. They cover
the way to it as well: the program that records the chunks, the planner that
groups them, the loader of its plan, and around it the generation loop and the
phase profiler that observes it.

Abbreviations: `controller.cc`, `prefetcher.cc`, `io_engine.cc`, `utils.cc` stand
for `src/flash-slim/weight_chunk_controller.cc`, `weight_chunk_prefetcher.cc`,
`weight_chunk_io_engine.cc`, `weight_chunk_controller_utils.cc`; `main.cc` for
`text_generator_main.cc`; `generator.cc` for `cmt_generator.cc`; `rechunk.py`
for `src/tools/model_prefetch_planner/planning/stratgey_rechunk.py`.

## 1. The system

| component | state it keeps | operations | correct when |
|---|---|---|---|
| weight chunk controller (`controller.cc/.h`) | one allocation, two slots `{offset, size, group_index}`, active index, `initial_prefetch_pending_`, address of every operator's weight pointer | load a plan and allocate, pre-invoke hook (switch slot, wait, set pointer, schedule the next group), release | the slots never share a byte; an operator sees its own weights, as they are in the file; no read writes under a running kernel |
| weight chunk prefetcher (`prefetcher.cc/.h`) | job queue, per-chunk `ready / in_flight / success`, per-group `in_flight`, worker threads | `Submit`, `WaitReady`, `StartWorker`, `StopWorker`, worker loops | one job per group at a time; a wait is answered for the latest submission, and is answered; a stop returns; no lost job |
| parallel pread (`prefetcher.cc:376-482`) | none | cut a read into aligned blocks, read them in threads | the blocks cover each byte once, stay in range, stay aligned |
| io_uring engine (`io_engine.cc/.h`) | ring, `inflight_` entries, collected completions | submit, collect, drain | every accepted request is reported once, with the right outcome |
| prefetch plan and loader (`utils.cc`) | chunks and groups per mode, buffer size | parse, derive the buffer size, build group offsets | consecutive groups fit in the buffer; relative offsets address the chunk inside its group |
| chunk metadata generator (`generator.cc`, `controller.cc:250-280, 471-490`, writer in `utils.cc:20-151`) | chunk per weight offset, next `chunk_index`, chunks written per mode, buffer size | record a weight, write a chunk, finalize the table | numbers are positions in the list of each mode; the size holds every pair of neighbours |
| planner (`tools/model_prefetch_planner`) | plan under construction | load and validate a table, greedy grouping or one group per chunk, save | groups are contiguous, in order, complete, and neighbours fit; planning ends |
| text generation program (`main.cc`) | mode, decode step, prompt, KV position, next token | choose a prefill signature, prefill, decode loop, shutdown | the mode follows the invocations; the cache holds the text and is not overrun; the worker is joined before the buffer is freed |
| phase profiler (`tools/ebpf/bpfc_profile_phase.c`, `profile_phase.py`; `ScopeEventHandler` in `profiler.cc`) | phase gate, counters per thread, event buffers per CPU; in the collector the last start | probes at phases and reads; pair events, add up and delete counters | no read is counted twice; an undisturbed phase is reported exactly |
| sampler, timers and reports, operator profiler, plots, build scripts, vendored JSON | – | – | not part of the above |

Interactions. The *inference thread* runs the program, the interpreter and, from
every fully connected operator, the controller's pre-invoke hook. The hook calls
`Submit` (which shares flags and the queue with the worker) and `WaitReady`
(which blocks on a chunk's condition variable). The *worker thread* takes jobs,
writes into the shared allocation, and publishes results in the chunk flags.
There are two mutexes that matter (the queue's, and one per chunk) and a number
of atomics that are written without either.

Apart from that the programs hand files to each other: `cmt_generator` writes the
metadata table, the planner reads it and writes the plan, the text generator
loads the plan. The kernel probes of the profiler run in whichever thread enters
a phase or a read, while the collector, another process, polls their buffers and
reads and deletes their counters.

What is hard: the two threads share flags without a common lock; `ready` is
never reset except by the next submission; a slot is recognised by a number
that two modes share; every failure of the hook is dropped (`controller.cc:648`)
and the operator runs regardless; shutdown closes the descriptor before it
joins the worker; positions, indices and sizes of the plan are right only if
three programs agree about them; the profiler's counters change under the
collector's hands. `PROJECT.json` lists these hazards with their lines and the
properties that cover them.

## 2. Modules

| module | models | kind |
|---|---|---|
| `BufferSlots` | the two slots in one allocation, for one plan after the other: load, allocation failure, first fill, switch, schedule, release | abstract layout specification, proved about |
| `ChunkPrefetcher` | the prefetcher's two threads, one shared access per action | detailed specification |
| `ChunkPrefetcherProofs` | theorems about it | TLAPS |
| `PrefetchPlan` | a loaded plan: groups, offsets, stated and corrected totals, derived buffer size, order of groups; what makes a plan fit for double buffering | constant operators |
| `PrefetchPlanProofs` | theorems about it | TLAPS |
| `MmapInference` | inference with all weights mapped | abstract specification of the whole system |
| `WeightStreaming` | controller and prefetcher together through one generation | composition; implements `BufferSlots` and `MmapInference` |
| `SlotHandover` | the inductive invariant by which the slots change hands in `WeightStreaming` | definitions, for TLC and for the proof |
| `WeightStreamingProofs` | theorems about `WeightStreaming` | TLAPS |
| `ParallelPread` | how a group read is cut into blocks, and the threads that read them | detailed specification of one step of `ChunkPrefetcher` |
| `IoUring` | the submission and completion threads, `WeightChunkIOEngine`, and the ring with the kernel behind it | detailed specification |
| `WorkerEngines` | `ConfigureIOEngine` and `StartWorker`'s dispatch: `IoUring` or `ParallelPread` | composition of the two engines |
| `WorkerEnginesProofs` | theorems about `ParallelPread`, `IoUring` and the two together | TLAPS |
| `ChunkRecording` | the warm-up of `cmt_generator`: chunk numbers, the metadata writer | state machine, extends `BufferSlots` for the rounding to sectors |
| `Rechunk` | the planner: both strategies, over all modes of a table | state machine of the planner's loops |
| `RechunkProofs` | theorems about it | TLAPS |
| `PlanPipeline` | recording, planner, loader and slot layout, one after the other | composition of `ChunkRecording`, `Rechunk` and `BufferSlots` |
| `PlanPipelineProofs` | theorems about `BufferSlots`, `ChunkRecording` and the pipeline they form with `Rechunk` | TLAPS |
| `NumberFacts` | facts about least and greatest elements that the proofs of plans use | TLAPS |
| `GenerationLoop` | prompt, prefill signature, positions of the KV cache, decoding loop | state machine of `__run_main` |
| `PhaseProfiler` | probes at phases and reads, event buffers, the collector | detailed specification, actions only |
| `ProfiledGeneration` | a generation whose scopes fire the probes | composition of `GenerationLoop` and `PhaseProfiler` |
| `ProfiledGenerationProofs` | theorems about `GenerationLoop`, `PhaseProfiler` and the two together | TLAPS |
| `MC*` | constants for TLC | instances |

### Correspondence

`BufferSlots`: `capacity`, `slots`, `active`, `pending` are
`weight_chunk_buffer_capacity_`, `buffer_slots_`,
`active_weight_chunk_buffer_index_`, `initial_prefetch_pending_`. The sentinel
`numeric_limits<size_t>::max()` is -1. Sizes are in abstract units. `loaded` is
the plan that `SetPrefetchPlan` was called with: the size it asks for and its
groups, each an index and a size; the modes' groups form one set, since the
layout asks for nothing else. A plan may have a group larger than the size it asks
for (`HoldsEachGroup` says that it has none): a file that does not state its
groups' totals makes such a plan.
`ScheduleNextGroup(g, accepted)` writes the target slot, then tags it or empties
it, depending on what `Submit` says.

`ChunkPrefetcher`: `mpc` and `wpc` are the program counters of the inference and
worker threads. A condition-variable wait is two steps (test under the mutex;
release and block), so a notification between a test and a block is lost
exactly where the C++ loses it. Two loads in one wait predicate (`ready ||
!in_flight`) are one step: since the worker sets `ready` before it clears
`in_flight`, loads that straddle its stores yield a value the predicate also has
just before or just after. `lastRead` is a history variable (the outcome of the
chunk's last finished read). Descriptors and buffer indices do not decide
anything beyond "refused" and are folded into the `NoDest` request.

`PrefetchPlan`: `StatedTotal` is what the plan file says of each group's
`total_aligned_size`, 0 if it says nothing. `WeightChunkBufferSize` is derived from
these numbers as they are, as in `DeriveWeightChunkBufferSize` (`utils.cc:489-496`);
`TotalAlignedSize` is what `BuildModeChunkPlan` makes of them later
(`utils.cc:666-685`), at least as much as the chunks take. `TotalsStated` says that
nothing had to be corrected. The planner states the sum of the chunks' aligned
sizes, and so do the plans of the runs (`MCStatedTotal`).

`WeightStreaming`: `cpc` says where the hook is; the members of the controller
belong to the inference thread, so all of a handler between two calls of the
prefetcher is one action. `buf[b]` is the file sector that buffer sector `b`
holds: taking a job blanks the target extent, a complete read fills it, a failed
read leaves it blank (its content is undetermined). `ptr` is the
per-mode weight pointer. XNNPACK reads weights through the pointer; the operator
is one action, `FinishOperator`, and `NoReadUnderCompute` forbids that a read
overlaps it. `offset_adjust`, the distance of a weight from its sector, is
constant per chunk and left out. Plans list their chunks in `chunk_index` order,
from 0, as the generator writes them. After the descriptor is closed a read may
succeed (it was already issued) or fail.

`IoUring`: `spc` and `cpc` say where the submission and the completion thread
are. `engine_mutex_` has no variable: the submission thread holds it at
`SubmitPcs`, the completion thread only inside one action (`SeePending`,
`CompletionExit`), and `DrainCompletions` does not take it. `inflight` and
`reports` are `inflight_` and `pending_completions_`; a read is prepared in `sq`,
under way in `kernel`, ended in `cq`. The length of a read is counted in
sub-reads: a result is 1 (in full), 0 (short) or -1 (error). `Submit` keeps a
reference to its entry of `inflight_` over calls that may erase it; `Dangling` is
that state, and the epoch then read is any. `Prompt` names the groups whose
reads may end before `Submit` returns; `landed` and `failures` are history. The
queue and `MarkJobCompleted` are single steps here, since `ChunkPrefetcher`
models them in detail, and the worker is not restarted. `io_uring_submit` takes
the whole ring or nothing.

`WorkerEngines`: the engine is chosen once, before the worker starts, so the
composition is a choice followed by the steps of one engine.

`ChunkRecording`: `record`, `recordIndex`, `bufferSize`, `lastSize` are
`offset_to_chunk_info_`, `record_chunk_index_`, `weight_chunk_buffer_size_` and
`last_chunk_aligned_size_`; `written` is `weight_chunks` per mode. The delegate
asks for the addresses of a runner's weights before they are used; the source
does not say when (that is XNNPACK's affair), so the model lets the invocations
begin with any number of weights recorded. A model uses its weights in one
order, PREFILL an initial part of them, and every weight once per invocation.
That is what the recorded table kept in the repository
(`weight_chunks_metadata_table.json`) shows: the 136 chunks of PREFILL are the
first 136 of DECODE's 141, and the first weight lies behind all others in the
file. It is an assumption, and it is needed: were a weight skipped by PREFILL in
the middle of the order, the ones behind it would have a position in PREFILL's
list that is not their `chunk_index`, and `LookupChunkInfoByOffset`, which takes
one for the other (`utils.cc:607`, `prefetcher.cc:797`), would find another
chunk.

`Rechunk`: `index` (from 1), `compute`, `prefetch` and `groups` are the locals of
`_rechunk_mode`, `pc` the loop it is in, `planned` the groups of the modes done
so far. A group carries the sum of its aligned sizes and the positions of its
members; tables are a constant, any set of records of a limit and lists of
chunks. The I/O-time check depends on measurements, so the inner loop may end at
any candidate. `SimpleStrategy` validates nothing, as in the code.

`PlanPipeline`: the parts keep their own variables and run one after the other.
`RecordedTable` is the file between generator and planner; `Entries`,
`TotalAlignedSize`, `DerivedSize` and `PlanFile` are what the loader makes of the
planner's file; `IndexToChunks` and `LookupChunkInfoByOffset` what the prefetcher
makes of that. Tables and plan files from elsewhere may be used instead.

`GenerationLoop`: the scopes before the prefill, "Load_Model" to
"Prepare_Input_Tensor" (`main.cc:178-311`), are `EnterSetUp` and `LeaveSetUp`,
`SetUpScopes` of them; what they load and build is left out but for
`GetPrefillRunner`, which is called in the last but one. `CheckFails` is a
`MINIMAL_CHECK` that exits, in the middle of a scope or between two. `cache` is the function from KV cache slots to the tokens whose
keys and values they hold. The program fills the rest of the prefill input with
token 0 at position 0; what the network does with these entries is not in the
source, and the model takes them to leave no mark on slots that count. A stop token ends the loop
before it is printed. Tokens are opaque, the sampler may answer any.

`PhaseProfiler`: a timestamp is the number of the phase it was taken in; `gate`,
`events`, `rwstat` are the maps `phase_ts_pid`, the perf buffers and `rwstat`.
The collector reads key by key, then deletes key by key, and each such step is an
action of its own. `inRead` is where a thread is; `phase`, `reads`, `happened`
and `quiet` are history. `ProfiledGeneration` lets a step that enters or leaves a
scope (`ScopeEntered`, `ScopeLeft`) happen together with the probe it fires. A
check that fails within a scope leaves it without a probe, and the gate open.
`quiet` is set for a phase by four conditions: the collector had handled every
event when the phase began; it had handled every earlier one when the phase ended,
and no read was under way then; it made the record before the next phase began; and
*no counter was left in the map when the phase began*. The last does not follow
from the others: an end that is polled before its start, from the buffer of another
CPU, is dropped and its counters stay (`profile_phase.py:425-428`), to be reported
with the next phase.

`Mutant` operators (each next to the definition it imitates) are plausible bugs;
they are never used by a specification. Each shows that the property named for
it in `PROJECT.json` notices that bug.

## 3. Runs

| run | question | bounds and why they suffice |
|---|---|---|
| `prefetcher` | one job per group (`OneJobPerGroup`); no answer from before the latest submission (`FreshResult`); stop returns; jobs leave the queue | two groups without a common chunk (`FreshResult` is about such groups, see section 5), one of two chunks so that marking is not atomic; queue length is limited by the claim, so nothing is cut off |
| `prefetcher_lost_wakeup` | does a wait on a ready chunk return? **No** | same instance |
| `streaming` | is a generation the same as with mapped weights (`MmapSpec`, `ComputesOwnWeights`)? Do reads stay out of a kernel's way (`NoReadUnderCompute`), is one group outstanding at a time (`OneReadOutstanding`), no submission dropped (`SubmitNeverDropped`), every wait answered for the latest submission in either mode (`WaitAnswersForAllModes`)? | three groups per mode, differently cut, overlapping sectors, two decode steps so that groups wrap around, and reads that do not fail |
| `streaming_faults` | clean shutdown and abstract layout (`LayoutSpec`), reads that stay in the allocation, which is there as long as the worker may run (`JobsInBuffer`), termination with failing reads (`GenerationEnds`) | same plan, `MayFail` |
| `group_state_race` | is the unlocked group lookup safe? **No** | same plan |
| `two_prefill_groups` | the same as `streaming` with as many prefill groups as slots. **No** | smallest such plan |
| `wrap_misfit` | the same when the last and first groups do not fit together. **No** | smallest such plan |
| `io_engines` | io_uring: is each accepted request reported once, with the right outcome, and marked; do the joins return? parallel_pread: is a successful read complete, in range, and read by threads that do not overlap? | io_uring: one group of two slow sub-reads in a ring of one entry, so that the ring fills while a request is cut up, and one prompt group of one sub-read; one group outstanding, as `OneReadOutstanding` (checked by `streaming`, proved in `WeightStreamingProofs`) shows of the controller; one failing `io_uring_submit`. parallel_pread: sizes up to 13 sectors of 3 bytes, alignment 6, minimal block 4, at most 3 threads: a single read, two and three threads, shares that are aligned and not, a short last block, a block left empty; each thread may read all, one byte less, or nothing, in any order |
| `io_uring_unseen_completion` | can the completion thread see what `Submit` accepted? **No** | same ring without failures |
| `planning` | does an operator find its own chunk after recording, planning and loading; is the recorded buffer size enough; do the groups tile the lists, without gaps, and do neighbours fit; is there room for the next group in the slots, and do the slots stay inside and apart under any sequence of operations; does the planner end? | models of up to four weights of 1 or 4 bytes in sectors of 2, with a base offset of 1, so that weights are unaligned, share sectors and span several, the first weight in front or at the end of the file; PREFILL uses none of them or all but the last. Tables from elsewhere of up to five chunks with or without a gap and limits from 0 to 14: rejected ones, forced groups after single chunks and after longer groups, pairs that exceed the limit. Plans from elsewhere with groups that share an index across modes, sizes that fit together and that do not, a group larger than what its plan asks for, both outcomes of allocation and submission, one load after the other |
| `generation` | does every decoding step see exactly the text so far, and stay in the cache? Is a read reported twice, is an undisturbed phase reported exactly? | prompts of one token, that leave a signature room, that fill it, that exceed it by one, and one that no signature takes; signatures of 2 and 3, a cache of 3 and so generations that end at the stop token, at the limit, at the end of the cache, or abort; two set-up scopes of the program's eight, the one that chooses the signature and one more; two reading threads, two CPUs whose buffers are polled in any order and hold up to two events together: an end polled before its start, and a start that takes the place of one whose end still waits; two reads, of one thread or of both, so that one may cross the end of a phase while the other crosses the deletion of its entry or is not met by the collector |
| `prompt_edge` | is the whole prompt fed to the model? **No** | signatures of 2 and 4 tokens, prompts of one to seven |

The properties of `streaming` hold for plans without the defects of the
violation runs and for reads that succeed (`DoubleBuffered` and `~MayFail`, see
section 5; `MCWeightStreaming` states, as an assumption that TLC evaluates, which
of its plans are `DoubleBuffered`). With two prefill groups a second read can be
outstanding, and the I/O engine is then used by two threads at a time. After a
failed read the hook gives up for that operator and schedules nothing, so the
inference thread may get two groups ahead of one that is still being marked. To
see what becomes of that, give `Streaming.cfg` the plan `MCLongDecodeGroups` (with
`MCEvenAt`, `MCEvenLen` and five chunks), `MetadataSize = 6` and `MayFail = TRUE`: the
last PREFILL group but one holds the chunk of the second DECODE group, both are
under way at once, and TLC finds `WaitAnswersForAllModes`, `SubmitNeverDropped` and
`NoReadUnderCompute` violated.

`PendingMatchesRing`, `ReportedIsRead`, `JobInOnePlace` and
`EngineUsedByOne` are stated for prompt groups that fit the ring (`PromptFits`, see
section 5; true of the run), and as long as `io_uring_submit` has not failed: after a
failure the prepared sub-reads stay in the ring, the entry is erased, the retry
begins at epoch 1 again, and completions of the first attempt count for the
second. `StopReturns` is claimed, and checked, with such failures.

A decode step repeats the state of the step before it except for `step`, so two
steps show the first pass, the wrap-around and the end. `planning` lets the
slots go through all histories of a plan's groups, not only those a generation
takes; `streaming` shows that generations follow it. `MaxReads` and `MaxEvents` are
the bounds of `generation` that cut behaviours off: a read leaves the state of a
thread as it was, apart from the counts, and more events only wait behind others.
The theorems about the profiler hold for any values of both.

Deadlock is checked in all passing runs and most others (`prompt_edge` is about
`GenerationLoop` alone, which stops at the end of the program); where a program
has finished the specification stutters by an action of its own (`Finished`,
`Stopped`).

## 4. Fairness

- `WF(MainStep)`, `WF(WorkerStep)`, `WF(ControllerStep)`: both threads are
  ordinary OS threads and are scheduled while they can run.
- `SF(SubmitPush)`, `SF(StopClearQueue)`, `SF(MarkSuccess)`: these lock a mutex
  which the other thread may take and release on each spurious wakeup. A mutex
  that is free again and again is obtained in the end.
- `WF` on each of `ClientStep`, `SubmissionStep`, `CompletionStep` and
  `KernelStep` of `IoUring`: three OS threads, and a kernel that ends every read
  at last. `MaxFailures` bounds how often `io_uring_submit` fails in a row, since
  a request that always fails is tried for ever.
- `WF(PlannerStep)`, in `PlanPipeline` `WF(RunPlanner)`: the planner is one
  sequential loop. The other parts of the pipeline need no fairness, as nothing
  is claimed to happen there.
- `ProfiledGeneration` states none: how often a collector polls is nobody's
  promise, and both of its profiler properties are about what is reported, not
  when.
- No fairness for calls of the interface or for spurious wakeups. The standard
  allows the latter and promises none, so a lost wakeup is final; `GenerationEnds`
  therefore excepts that one behaviour, which `prefetcher_lost_wakeup` exhibits.

## 5. Proofs

`ChunkPrefetcherProofs` proves, for any groups, chunks and destinations:

- `PrefetcherTypeCorrect`, the types of both threads' state;
- `GroupClaimIsExclusive`: at most one job of a group is ever pushed, queued,
  read or marked. It needs that the group's `in_flight` flag is set exactly as
  long as such a job exists, which is `ClaimInv`;
- `FreshFlags` and `WaitAnswersFresh`, under the hypothesis `GroupsDisjoint`: no
  chunk belongs to two groups. A chunk whose flags say done has no outstanding
  read, and `success` is the outcome of its last one (`FreshInv`), so `WaitReady`
  never answers with the outcome of an earlier submission. Plans of the planner
  satisfy the hypothesis; the code does not check it. Without it two jobs can
  hold the same chunk, and the flags belong to whichever marks last.

`WorkerEnginesProofs` has three parts. Of `parallel_pread` it proves, for every set of sizes made of whole sectors,
sector size, alignment that is a multiple of it, minimal block and thread count
of at most `SectorSize` (`PreadAssumption`; the defaults are 4 threads and 4096
bytes), that the blocks tile the read (`BlocksTileTheRead`), and from that
`SuccessfulReadsAreComplete`, `NothingReadOutside` and `ThreadsReadApart`. The
bound on threads is needed: the share is rounded *down* by the division and
rounded up only if it is unaligned, so an aligned share drops the remainder of
the division. When sizes are whole sectors and there are no more threads than
bytes in a sector, that remainder is 0 (lemma `NoRemainder`).

Of io_uring it proves, for any groups, sub-reads, ring size and bound on the
groups outstanding, `PendingMatchesRing` (`NoReadLostOrCountedTwice`),
`ReportedIsRead` (`ReportsAreTrue`) and `JobInOnePlace` (`JobsKeepOnePlace`), and
`EngineUsedByOne` (`UnlockedDrainIsAlone`) with one group outstanding; and the
types of both engines together, with no condition (`EnginesTypeCorrect`). The
first four are about the time before an `io_uring_submit` fails, as in section 3.
Their hypothesis `PromptFits` says that a group whose reads may end before
`Submit` returns has no more sub-reads than the ring has entries. It is needed:
otherwise `SubmitInternal` collects, in the middle of cutting a request up, the
completions of all it has handed over so far, and reports the request as failed
(hazard at `io_engine.cc:211`). The invariant `CleanInv` says that what a request
waits for is in the ring once (`RingInv`), that no sub-read is prepared, under way
or landed twice (`LandedInv`), that a request that is being cut has had none of its
completions taken (`SubmitInv`), that all entries are of the first epoch
(`EpochsInv`), and that a job has one place (`PlaceInv`).

`RechunkProofs` proves, for any metadata tables and both strategies, that the
planner's variables keep their types (`PlannerTypeCorrect`), and that its groups are contiguous (`PlannedGroupsAreContiguous`), hold every chunk
once and in order (`PlanIsComplete`), and fit into the runtime's buffer next to
their neighbours (`PlannedNeighboursFit`). The invariant `PlanInv` says why the
last holds although the planner forces groups open beyond its limit: after every
inclusion there is room for one chunk more (the "next head" of the reservation),
so a group that was prefetched always fits with the chunk behind it; and a group
of one chunk fits because the runtime's buffer holds any two consecutive chunks
(`DeriveWeightChunkBufferSize`); that is also why the simple strategy, which
reserves nothing, is safe. A contiguous group spans no more than the sum of
its aligned sizes, which is what the controller compares.

`PlanPipelineProofs` has four parts.

The slot layout. For all plans, loaded in any order, and sector sizes, it proves
`TypeCorrect`, that the slots share no byte (`SlotsStayDisjoint`: `SlotsDisjoint`),
and that they stay in the buffer as long as the loaded plan asks for at least the
size of each of its groups (`SlotsStayInBuffer`: `SlotsInBuffer`, with the
condition `HoldsEachGroup(loaded)`). The condition is needed, and is on the plan
that is loaded, not on those before it: the first fill looks at no capacity
(`controller.cc:557-577`). The loader does not see to it, since it derives the size
from the totals in the file and corrects a missing or understated total
afterwards; for the planner's files it is proved below. Disjointness is not
inductive: the placement tests only whether the active offset is 0, and would be
wrong for a slot in the middle of the buffer. The invariant `IndInv` adds that every
slot sits at the front or flush with the end, and that the active slot is filled
once the first fill is done; with `RequestHeld` (an allocated buffer has the size
the plan asked for) it is inductive. `SlotsInBuffer` says nothing while there is no
allocation, as after one that failed.

The recording. For any models of the kind described in section 2, base offset and
sector size, the index of a recorded chunk is its position
(`RecordedIndicesArePositions`) and the recorded size holds every chunk and every
two neighbours (`RecordedSizeIsEnough`). Neither is inductive. The invariant
`RecordingInv` is that everybody walks along one order: the record holds the first
`recordIndex` weights, each numbered by its place, every list is an initial part of
it, and the next weight of a mode is known already or is the first that is not.

The sizes of groups. `SnugInv` is a second invariant of the planner, relative to
`PlanInv`: the sum that the planner keeps of a group covers the sectors from the
group's first chunk to the end of each of its chunks, because the sectors of a
chunk reach to where the sectors of the chunk behind it begin; and it is within the
limit, or the group is a single chunk.

The pipeline. `PipelineInv` joins the invariants of the parts with what one program
hands to the next: the table that is planned has the form of recordings or is one
from elsewhere, and what the recording promised of its size is true of it
(`HandedOver`); and the buffer that is allocated for the planner's file holds
neighbouring groups (`NeighboursHeld`). From it follow, for every model, table,
base offset, sector size and strategy:

- `PlansOfRecordings`: what is proved of the planner for tables that are given to it
  holds of those that a recording hands over;
- `PlannedGroupsAreDoubleBuffered`: a mode's groups name no chunk twice, and the
  chunk from which a group's buffer offsets are counted lies first in the file,
  which are `EachChunkOnce` and `FirstChunkLeads` of `PrefetchPlan`, assumptions
  under which the theorems about streaming hold;
- `RecordedSizeNeedsNoCorrection` (`MetadataSizeSuffices`): the size that
  `DeriveWeightChunkBufferSize` derives from the file is the recorded one;
- `LookupsFindTheirChunk` (`LookupFindsOwnChunk`), `NextGroupAlwaysFits`
  (`NextGroupHasRoom`), and that slots stay apart and, once the planner's file is
  loaded, in the buffer without a condition (`PlannedSlotsStayDisjoint`,
  `PlannedSlotsStayInBuffer`: the file's totals are those the buffer was sized by).

Those of the last item have the hypothesis `TablesInRecordedForm`: tables that were *not*
recorded, which the planner also accepts, have the form of recordings (a chunk has
the number of its place and the size of its sectors, no two share an offset, the
modes use the weights in one order). That recorded tables have it is proved
(`RecordedTableInForm`); the module `MCPlanPipeline` assumes it of its own tables,
so TLC evaluates it on every run. The loader does not check it, and without it the
position in one mode's entries need not be the index in the other's.
The computed parts of the loader are handled by lemmas that say what they are
worth: the entries in the file are the mode's list (`EntriesAreTheList`), a group's
total is the planner's sum, so that the correction of `BuildModeChunkPlan` never
applies (`TotalIsSize`), and the derived size is the greatest element of a finite
set (`DerivedHoldsAll`).

`ProfiledGenerationProofs` proves of the loop, for any vocabulary, prompts, signatures, cache
size and limits allowed by `GenerationAssumption` (prompts are not empty, no
signature is longer than the cache), `GenerationTypeCorrect`,
`EveryStepSeesTheText` and `GenerationStaysInCache`, for any number of set-up scopes
of at least two. The invariant `GenInv` ties
the loop's counters together: the position is the last of the used prompt plus
the steps done, which is how many tokens were printed, and the limit on the
steps leaves the last slot of the cache free, so that a step is never told a
position behind it.

Of the loop under the profiler it proves that profiling changes nothing
(`ProfilingChangesNothing`: the composition implements `GenerationLoop`, so the
theorems about that hold of it), the types (`ProfiledTypeCorrect`), and, for any
threads, CPUs, bounds, prompts and signatures and any interleaving of the collector's
key-by-key passes with the probes, `NoReadCountedTwice` (`ReadsAreCountedOnce`)
and `QuietPhaseIsExact` (`QuietPhasesAreExact`). The invariant counts what the
counters hold and the collector has not read out (`Uncollected`): together with
what is reported and what the current pass has summed it is at most the number of
reads that have ended (`CountedInv`). A phase that nothing disturbs passes through
four stages (`Underway`, `AtEnd`, `Captured`, `Recorded`), in each of which it is
known which events the perf buffers hold; up to its record, what was summed and
what is still to be collected is what happened in the phase (`QuietInv`).

`PrefetchPlanProofs` proves, for any plan allowed by `PlanAssumption` (both modes
have groups, groups have chunks, chunks have a length), that the hook finds a
group that holds its chunk (`HookFindsItsGroup`). It proves of plans that name each
chunk once (`EachChunkOnce`) that the operators of a mode run through its groups in
order (`OperatorsFollowGroups`): the next operator is in the same group and not its
first, or the first of the group `GetNextChunkGroup` names; this is what makes the
next group the one worth reading. These rest on `Max` of a finite set
of numbers being its greatest element and on what flattening a sequence of
sequences yields; where induction is needed it is by the least counterexample.

`WeightStreamingProofs` proves, for any such plan, any number of decode steps and
reads that may fail or not, that the streaming runtime implements the layout
(`StreamImplementsLayout`: `LayoutSpec`), and, for plans whose file states its
totals (`TotalsStated`), that what it queued stays inside the buffer until none is
left (`ReadsStayInBuffer`: `JobsInBuffer`). Of a file that does not, the first group
can be larger than the buffer it is read into (hazard at `utils.cc:674`). The invariant
`StreamInv` has four parts. `Running`: the position is one of the mode's list, so
there is a group to look up. `Buffered`: the buffer has the derived size from
loading to release. `JobsFit`: a submitted job fits, because the first fill goes
to the front of a buffer that holds every group whose total is stated, and a later
one to the offset the placement rule found room at; it is then handed from thread
to thread unchanged.
`StopFirst`: the stop empties the queue and the worker has left before the
controller frees the buffer. For the same plans it proves
that the controller is a client of the prefetcher as `ChunkPrefetcher` describes
them (`StreamUsesPrefetcher`), which carries the invariants proved there over to
here, and that everything keeps its type (`StreamTypeCorrect`).

What an operator sees depends on the plan (findings 3 and 4). The other
theorems of `WeightStreamingProofs` are about plans that are `DoubleBuffered` and
reads that do not fail, with any number and size of chunks, groups and steps:
`OneReadAtATime` (`OneReadOutstanding`), `SubmissionsAreAccepted`
(`SubmitNeverDropped`), `WaitsAreAnsweredFresh` (`WaitAnswersForAllModes`),
`ReadsAvoidCompute` (`NoReadUnderCompute`), `OperatorsComputeOnTheirWeights`
(`ComputesOwnWeights`), and `StreamingRefinesMmap`: streaming implements
`MmapInference`, every step of it a step of that or a stutter (`MmapSpec`). A plan
is `DoubleBuffered` if

- a mode names each chunk once (`EachChunkOnce`), as the recorder and the planner
  see to (`RecordedIndicesArePositions`, `PlannedGroupsAreDoubleBuffered`);
- each mode has at least three groups (`MoreGroupsThanSlots`); `two_prefill_groups`
  has two and is otherwise such a plan;
- a group fits beside the next one (`NextGroupFits`), also beyond the end of a
  mode, where the planner does not look; `wrap_misfit` violates just this;
- a group shares no chunk with the next one (`NextGroupApart`), which is about the
  last group of a mode and the first of DECODE;
- the first chunk of a group comes first in the file (`FirstChunkLeads`), as in
  lists that are sorted by offset, and in all that the planner makes
  (`PlannedGroupsAreDoubleBuffered`); otherwise `RelativeOffset` is cut off at 0.

That reads must not fail is shown by the plan `MCLongDecodeGroups` (section 3), which
is `DoubleBuffered`.

The invariant is `Handover` of `SlotHandover` (`SlotsAreHandedOver`), which
`streaming` checks as well. At any time one group is *due*: the
operator's own until the first operator of a group has had the next one
scheduled, from then on the next one. `JobsInv`: there is at most one job, of the
group that is due, to the slot that is due, and none once the group has been
waited for. `SlotInv`: that slot has the tag, the size and an end of the buffer
as its place; the other one is the group's that computes, and the two do not
overlap. `ContentInv`: the slot of the group that computes holds the file's sectors,
and so does the slot that is due when its job has ended. `MarkInv` and `BusyInv`:
the worker marks the group that is due or the one before it, and only a group with
a job is flagged, so the compare-and-swap of `Submit` succeeds. `CallInv` and
`PtrInv` tie the hook's place and the weight pointer to these. The argument is a
circle that only an invariant over both threads closes: an answer of `WaitReady` is
trusted because flags are fresh (`FreshInv`); flags are fresh, although groups of
the two modes share chunks, because the group being marked is next to the one
being submitted and shares none with it (`MarkedIsApart`, which replaces
`GroupsDisjoint` here); and they are next to each other because the hook waited.

Only model-checked: everything temporal (liveness is beyond the prover). Every
safety property that a passing run checks is also proved.

## 6. Findings

1. Lost wakeup (`prefetcher.cc:748-754` against `937-947`): `ready` and
   `in_flight` change and `notify_all` runs outside the chunk's mutex.
2. Data race on `index_to_group_io_states_` (`prefetcher.cc:538-541, 660-676, 758`):
   the preallocated states are cleared at once, so first submissions insert while
   the worker looks up.
3. Two prefill groups: a slot's tag does not name its mode; the first decode
   group is taken for the first prefill group.
4. Last and first group do not fit together: `ScheduleNextGroup` fails, the
   result is dropped, and the hook switches to a slot of another group.
   (`PlannedNeighboursFit` is about neighbours within a mode; nobody checks this
   pair.)
5. Unseen completion (`io_engine.cc:130` against `prefetcher.cc:302-313`): if the
   reads end before `Submit` returns, `Submit` collects them itself, nothing is in
   flight any more, and the completion thread does not drain what was collected
   until another group is submitted, which the waiting inference thread never
   does. `SlowReadsAreMarked` therefore speaks of the other groups.
6. Prompt edge (`main.cc:331` against the comment at 337): the signature is
   chosen for the prompt without its last token, but the used length is capped by
   the signature. A prompt one token longer than the signature is accepted, and
   its last token never reaches the model. `ContextIsText` is therefore about the
   text that is used.
## 7. Not modelled, and what is left

Not modelled, part by part:

- generation program: what the set-up scopes load and build, sampling, logits and the repetition-penalty set (numeric;
  the sampler may answer any token), flags, metrics, an empty prompt without a
  start token (undefined behaviour before the loop begins), LoRA (no caller loads
  one);
- `cmt_generator`: the profiling invocations after the warm-up, which only
  measure, and its aborts, which leave no table behind;
- planner: the estimators and the profiling logs they read, abstracted to a free
  choice of where a group ends; malformed JSON;
- controller: the profiling hook around operators without streamed weights;
- prefetcher: CPU affinity of its threads;
- io_uring engine: set-up of the ring, `Reset` (no caller), malformed requests;
- profilers: the probes at writes and page faults have the form of those at reads
  and would double the model without a new interleaving; block I/O, scheduling and
  the intervals behind the wall-time estimate, whose truncation at the end of a
  phase is listed as a hazard; the operator profiler, timers and reports;
- plots, power analysis, the node dumper and build scripts, offline tools without
  state; the vendored JSON library (four fifths of the lines of code under
  `src/flash-slim`), third-party code.

What is left:

1. A prefetcher that is stopped and started again with a group in flight
   (`AllocWeightChunkBuffer` does both; the program loads its one plan before the
   first request, so nothing is in flight then), and requests that the engine
   refuses for good.
2. Proofs: planner and streaming are not one specification. Of what streaming
   assumes of a plan, `PlanPipelineProofs` proves of the planner's file that a mode
   names each chunk once, that a group's first chunk leads and that neighbours
   within a mode fit. That a mode has three groups, and that the last group of
   PREFILL and the first of DECODE fit side by side and share no chunk, no program
   checks; the runs `two_prefill_groups` and `wrap_misfit` show
   what happens without it.
