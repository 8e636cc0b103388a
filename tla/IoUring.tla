------------------------------ MODULE IoUring ------------------------------
(***************************************************************************)
(* The io_uring engine: a submission thread takes jobs from the queue and  *)
(* cuts each into sub-reads of the ring, a completion thread waits for the *)
(* ring and marks the groups, and both call WeightChunkIOEngine.           *)
(*                                                                         *)
(* engine_mutex_ is held by the submission thread in SubmitPcs, and by the *)
(* completion thread only within one action; DrainCompletions runs without *)
(* it.  An engine call is cut where it makes a system call or looks at the *)
(* ring, since the kernel works meanwhile.  The queue and MarkJobCompleted *)
(* are modelled in detail by ChunkPrefetcher and are single steps here.    *)
(***************************************************************************)
EXTENDS Integers, FiniteSets, SequencesExt

CONSTANTS
  Groups,          (* what EncodeRangeId names                             *)
  Subreads,        (* number of sub-reads a group is cut into              *)
  RingDepth,       (* entries of the submission ring                       *)
  MaxOutstanding,  (* groups the client has submitted at one time          *)
  Prompt,          (* groups whose reads may end before Submit returns     *)
  MaxFailures      (* errors that io_uring_submit returns at most: bound   *)

ASSUME IoUringAssumption ==
  /\ Groups # {} /\ Prompt \subseteq Groups
  /\ Subreads \in [Groups -> Nat \ {0}]
  /\ RingDepth \in Nat \ {0} /\ MaxOutstanding \in Nat \ {0}
  /\ MaxFailures \in Nat

VARIABLES
  client,      (* "running", then where StopWorker is                      *)
  claimed,     (* groups that are submitted and not marked                 *)
  queue,       (* io_job_queue_                                            *)
  spc, sjob,   (* the submission thread, and its job                       *)
  sub,         (* sub_index                                                *)
  cpc, batch,  (* the completion thread, and its completions               *)
  inflight,    (* inflight_                                                *)
  reports,     (* pending_completions_                                     *)
  sq, kernel, cq,  (* reads prepared, under way, and ended                 *)
  landed,      (* history: sub-reads of the last request that were in full *)
  failures     (* history: how often io_uring_submit failed                *)

clientVars == <<client, claimed>>
threadVars == <<spc, sjob, sub, cpc, batch>>
engineVars == <<inflight, reports>>
ringVars == <<sq, kernel, cq>>
uringVars == <<clientVars, queue, threadVars, engineVars, ringVars, landed, failures>>

SubmitPcs == {"prepare", "full", "collect"}
EngineLocked == spc \in SubmitPcs
HasPending == DOMAIN inflight # {}
StopRequested == client \in {"stopping", "joining"}
NoJob == CHOOSE g \in Groups : TRUE

UringInit ==
  /\ client = "running" /\ claimed = {}
  /\ queue = <<>>
  /\ spc = "take" /\ sjob = NoJob /\ sub = 0
  /\ cpc = "check" /\ batch = <<>>
  /\ inflight = <<>> /\ reports = <<>>
  /\ sq = <<>> /\ kernel = <<>> /\ cq = <<>>
  /\ landed = [g \in Groups |-> {}]
  /\ failures = 0

-----------------------------------------------------------------------------
(* The inference thread.                                                   *)

(* WeightChunkPrefetcher::Submit, of a group that is not claimed.          *)
Enqueue(g) ==
  /\ client = "running"
  /\ g \notin claimed /\ Cardinality(claimed) < MaxOutstanding
  /\ claimed' = claimed \cup {g}
  /\ queue' = Append(queue, g)
  /\ UNCHANGED <<client, threadVars, engineVars, ringVars, landed, failures>>

StopWorker ==
  /\ client = "running"
  /\ client' = "stopping"
  /\ UNCHANGED <<claimed, queue, threadVars, engineVars, ringVars, landed, failures>>

ClearQueue ==
  /\ client = "stopping"
  /\ client' = "joining"
  /\ queue' = <<>>
  /\ UNCHANGED <<claimed, threadVars, engineVars, ringVars, landed, failures>>

(* The joins, and the engine's Shutdown, which closes the ring.            *)
JoinAndShutdown ==
  /\ client = "joining" /\ spc = "off" /\ cpc = "off"
  /\ client' = "off"
  /\ inflight' = <<>> /\ reports' = <<>>
  /\ sq' = <<>> /\ kernel' = <<>> /\ cq' = <<>>
  /\ UNCHANGED <<claimed, queue, threadVars, landed, failures>>

-----------------------------------------------------------------------------
(* ProcessCqe.                                                             *)

Without(g) == Restrict(inflight, DOMAIN inflight \ {g})

(* Mutants: adds up bytes but forgets errors and short reads; reports a    *)
(* group without erasing it; counts down past 0.                           *)
CountAnyRead(state, res) ==
  [state EXCEPT !.pending = IF @ > 0 THEN @ - 1 ELSE 0, !.completed = @ + 1]
CountUnguarded(state, res) ==
  [state EXCEPT !.pending = @ - 1, !.completed = IF res > 0 THEN @ + res ELSE @,
                !.error = @ \/ res < 0]

(* A sub-read of res bytes, in units of its length, or with an error.      *)
CountRead(state, res) ==
  [state EXCEPT !.pending = IF @ > 0 THEN @ - 1 ELSE 0,
                !.completed = IF res > 0 THEN @ + res ELSE @,
                !.error = @ \/ res < 0]

Report(g, state) == [group |-> g, ok |-> ~state.error /\ state.completed = Subreads[g]]

ReportWithoutErase(cqe) ==
  LET g == cqe.group IN
  IF g \notin DOMAIN inflight \/ inflight[g].epoch # cqe.epoch
  THEN UNCHANGED engineVars
  ELSE LET state == CountRead(inflight[g], cqe.res) IN
       /\ inflight' = [inflight EXCEPT ![g] = state]
       /\ reports' = IF state.pending = 0 THEN Append(reports, Report(g, state)) ELSE reports

(* A completion is dropped when its tag names no request of this epoch.    *)
ProcessCqe(cqe) ==
  LET g == cqe.group IN
  IF g \notin DOMAIN inflight \/ inflight[g].epoch # cqe.epoch
  THEN UNCHANGED engineVars
  ELSE LET state == CountRead(inflight[g], cqe.res) IN
       IF state.pending = 0
       THEN inflight' = Without(g) /\ reports' = Append(reports, Report(g, state))
       ELSE inflight' = [inflight EXCEPT ![g] = state] /\ UNCHANGED reports

(* One turn of the loop of CollectCompletions.                             *)
CollectOne ==
  /\ cq # <<>>
  /\ ProcessCqe(Head(cq))
  /\ cq' = Tail(cq)
  /\ UNCHANGED <<sq, kernel>>

-----------------------------------------------------------------------------
(* The submission thread: RunIoUringSubmissionLoop and Submit.             *)

TakeJob ==
  /\ spc = "take" /\ queue # <<>>
  /\ sjob' = Head(queue) /\ queue' = Tail(queue)
  /\ spc' = "submit"
  /\ UNCHANGED <<clientVars, sub, cpc, batch, engineVars, ringVars, landed, failures>>

SubmissionExit ==
  /\ spc = "take" /\ queue = <<>> /\ StopRequested
  /\ spc' = "off"
  /\ UNCHANGED <<clientVars, queue, sjob, sub, cpc, batch, engineVars, ringVars, landed, failures>>

NextEpoch(g) ==
  LET e == IF g \in DOMAIN inflight THEN (inflight[g].epoch + 1) % 2^16 ELSE 1
  IN IF e = 0 THEN 1 ELSE e

(* The entry of the request is made, and its epoch counted up, if it was   *)
(* there already.                                                          *)
SubmitBegin ==
  /\ spc = "submit"
  /\ inflight' = [h \in DOMAIN inflight \cup {sjob} |->
       IF h = sjob
       THEN [epoch |-> NextEpoch(sjob), pending |-> 0, completed |-> 0, error |-> FALSE]
       ELSE inflight[h]]
  /\ landed' = [landed EXCEPT ![sjob] = {}]
  /\ sub' = 0
  /\ spc' = "prepare"
  /\ UNCHANGED <<clientVars, queue, sjob, cpc, batch, reports, ringVars, failures>>

(* The reference that Submit holds to its entry dangles once a completion  *)
(* that it collected has erased the entry.                                 *)
Dangling == sjob \notin DOMAIN inflight

(* Mutant: the sub-read is not counted.                                    *)
PrepareUncounted ==
  /\ spc = "prepare" /\ sub < Subreads[sjob] /\ Len(sq) < RingDepth
  /\ \E e \in (IF Dangling THEN {0, 1} ELSE {inflight[sjob].epoch}) :
       sq' = Append(sq, [group |-> sjob, epoch |-> e, sub |-> sub])
  /\ sub' = sub + 1
  /\ UNCHANGED <<clientVars, queue, spc, sjob, cpc, batch, engineVars, kernel, cq, landed, failures>>

PrepareRead ==
  /\ spc = "prepare" /\ sub < Subreads[sjob] /\ Len(sq) < RingDepth
  /\ \E e \in (IF Dangling THEN {0, 1} ELSE {inflight[sjob].epoch}) :
       sq' = Append(sq, [group |-> sjob, epoch |-> e, sub |-> sub])
  /\ inflight' = IF Dangling THEN inflight ELSE [inflight EXCEPT ![sjob].pending = @ + 1]
  /\ sub' = sub + 1
  /\ UNCHANGED <<clientVars, queue, spc, sjob, cpc, batch, reports, kernel, cq, landed, failures>>

(* io_uring_submit hands over the whole submission ring.                   *)
HandOver ==
  /\ kernel' = kernel \o sq
  /\ sq' = <<>>
  /\ UNCHANGED cq

(* Submit returns false; what it prepared stays in the ring.               *)
Refuse ==
  /\ inflight' = Without(sjob)
  /\ spc' = "requeue"

(* The ring is full before the request is cut up: it is handed over, and   *)
(* what has ended is collected.                                            *)
SubmitFullRing ==
  /\ spc = "prepare" /\ sub < Subreads[sjob] /\ Len(sq) = RingDepth
  /\ HandOver
  /\ spc' = "full"
  /\ UNCHANGED <<clientVars, queue, sjob, sub, cpc, batch, engineVars, landed, failures>>

CollectFull ==
  /\ spc = "full"
  /\ CollectOne
  /\ UNCHANGED <<clientVars, queue, threadVars, landed, failures>>

ContinueRequest ==
  /\ spc = "full" /\ cq = <<>>
  /\ spc' = "prepare"
  /\ UNCHANGED <<clientVars, queue, sjob, sub, cpc, batch, engineVars, ringVars, landed, failures>>

(* All sub-reads are prepared.  If some of them were collected meanwhile   *)
(* and failed, or all were, the request is refused; through a dangling     *)
(* reference at least the last sub-read still counts as pending.           *)
SpoiltRequest == ~Dangling /\ (inflight[sjob].pending = 0 \/ inflight[sjob].error)

SubmitRequest ==
  /\ spc = "prepare" /\ sub = Subreads[sjob]
  /\ IF SpoiltRequest
     THEN Refuse /\ UNCHANGED ringVars
     ELSE HandOver /\ spc' = "collect" /\ UNCHANGED inflight
  /\ UNCHANGED <<clientVars, queue, sjob, sub, cpc, batch, reports, landed, failures>>

(* io_uring_submit fails, at either place, and hands nothing over.         *)
SubmitFails ==
  /\ failures < MaxFailures
  /\ spc = "prepare"
  /\ IF sub < Subreads[sjob] THEN Len(sq) = RingDepth ELSE ~SpoiltRequest
  /\ Refuse
  /\ failures' = failures + 1
  /\ UNCHANGED <<clientVars, queue, sjob, sub, cpc, batch, reports, ringVars, landed>>

CollectAfterSubmit ==
  /\ spc = "collect"
  /\ CollectOne
  /\ UNCHANGED <<clientVars, queue, threadVars, landed, failures>>

SubmitReturn ==
  /\ spc = "collect" /\ cq = <<>>
  /\ spc' = "take"
  /\ UNCHANGED <<clientVars, queue, sjob, sub, cpc, batch, engineVars, ringVars, landed, failures>>

(* A refused job is tried again, first of all.                             *)
Requeue ==
  /\ spc = "requeue"
  /\ queue' = <<sjob>> \o queue
  /\ spc' = "take"
  /\ UNCHANGED <<clientVars, sjob, sub, cpc, batch, engineVars, ringVars, landed, failures>>

-----------------------------------------------------------------------------
(* The completion thread: RunIoUringCompletionLoop.                        *)

MayExit == StopRequested /\ queue = <<>> /\ ~HasPending

(* Mutant: the exit waits for completions nobody will take.                *)
ExitWhenDelivered ==
  /\ cpc = "check" /\ ~EngineLocked
  /\ MayExit /\ reports = <<>>
  /\ cpc' = "off"
  /\ UNCHANGED <<clientVars, queue, spc, sjob, sub, batch, engineVars, ringVars, landed, failures>>

(* After at most 5 ms, with the engine locked.                             *)
CompletionExit ==
  /\ cpc = "check" /\ ~EngineLocked
  /\ MayExit
  /\ cpc' = "off"
  /\ UNCHANGED <<clientVars, queue, spc, sjob, sub, batch, engineVars, ringVars, landed, failures>>

(* Mutant: HasPending is asked without the lock.                           *)
SeePendingUnlocked ==
  /\ cpc = "check"
  /\ HasPending
  /\ cpc' = "drain"
  /\ UNCHANGED <<clientVars, queue, spc, sjob, sub, batch, engineVars, ringVars, landed, failures>>

SeePending ==
  /\ cpc = "check" /\ ~EngineLocked
  /\ HasPending
  /\ cpc' = "drain"
  /\ UNCHANGED <<clientVars, queue, spc, sjob, sub, batch, engineVars, ringVars, landed, failures>>

(* DrainCompletions, unlocked: waits for one event unless it has some.     *)
DrainCompletions ==
  /\ cpc = "drain"
  /\ cpc' = IF reports = <<>> /\ HasPending THEN "wait" ELSE "peek"
  /\ UNCHANGED <<clientVars, queue, spc, sjob, sub, batch, engineVars, ringVars, landed, failures>>

DrainOne ==
  /\ cpc \in {"wait", "peek"}
  /\ CollectOne
  /\ cpc' = "peek"
  /\ UNCHANGED <<clientVars, queue, spc, sjob, sub, batch, landed, failures>>

DrainReturn ==
  /\ cpc = "peek" /\ cq = <<>>
  /\ batch' = reports /\ reports' = <<>>
  /\ cpc' = "mark"
  /\ UNCHANGED <<clientVars, queue, spc, sjob, sub, inflight, ringVars, landed, failures>>

(* Mutant: a failed read is not marked.                                    *)
MarkOnlySuccess ==
  /\ cpc = "mark" /\ batch # <<>>
  /\ claimed' = IF Head(batch).ok THEN claimed \ {Head(batch).group} ELSE claimed
  /\ batch' = Tail(batch)
  /\ UNCHANGED <<client, queue, spc, sjob, sub, cpc, engineVars, ringVars, landed, failures>>

MarkJobCompleted ==
  /\ cpc = "mark" /\ batch # <<>>
  /\ claimed' = claimed \ {Head(batch).group}
  /\ batch' = Tail(batch)
  /\ UNCHANGED <<client, queue, spc, sjob, sub, cpc, engineVars, ringVars, landed, failures>>

NextRound ==
  /\ cpc = "mark" /\ batch = <<>>
  /\ cpc' = "check"
  /\ UNCHANGED <<clientVars, queue, spc, sjob, sub, batch, engineVars, ringVars, landed, failures>>

-----------------------------------------------------------------------------
(* The kernel ends the reads in any order, in full, short or with an error.*)

EndRead(i, res) ==
  /\ EngineLocked => kernel[i].group \in Prompt
  /\ cq' = Append(cq, [group |-> kernel[i].group, epoch |-> kernel[i].epoch, res |-> res])
  /\ kernel' = RemoveAt(kernel, i)
  /\ landed' = IF res = 1
               THEN [landed EXCEPT ![kernel[i].group] = @ \cup {kernel[i].sub}] ELSE landed
  /\ UNCHANGED <<clientVars, queue, threadVars, engineVars, sq, failures>>

ClientStep == ClearQueue \/ JoinAndShutdown

SubmissionStep ==
  \/ TakeJob \/ SubmissionExit \/ SubmitBegin
  \/ PrepareRead \/ SubmitFullRing \/ CollectFull \/ ContinueRequest
  \/ SubmitRequest \/ SubmitFails
  \/ CollectAfterSubmit \/ SubmitReturn \/ Requeue

CompletionStep ==
  \/ CompletionExit \/ SeePending
  \/ DrainCompletions \/ DrainOne \/ DrainReturn
  \/ MarkJobCompleted \/ NextRound

KernelStep == \E i \in 1 .. Len(kernel) : \E res \in {-1, 0, 1} : EndRead(i, res)

Stopped == client = "off" /\ UNCHANGED uringVars

UringNext ==
  \/ \E g \in Groups : Enqueue(g)
  \/ StopWorker
  \/ ClientStep \/ SubmissionStep \/ CompletionStep \/ KernelStep
  \/ Stopped

UringSpec ==
  /\ UringInit
  /\ [][UringNext]_uringVars
  /\ WF_uringVars(ClientStep) /\ WF_uringVars(SubmissionStep)
  /\ WF_uringVars(CompletionStep) /\ WF_uringVars(KernelStep)

-----------------------------------------------------------------------------

Tags == [group : Groups, epoch : 0 .. 2^16 - 1, sub : Nat]

UringTypeOK ==
  /\ client \in {"running", "stopping", "joining", "off"}
  /\ claimed \subseteq Groups
  /\ queue \in Seq(Groups)
  /\ spc \in {"take", "submit", "requeue", "off"} \cup SubmitPcs
  /\ sjob \in Groups /\ sub \in Nat
  /\ cpc \in {"check", "drain", "wait", "peek", "mark", "off"}
  /\ DOMAIN inflight \subseteq Groups
  /\ \A g \in DOMAIN inflight :
       inflight[g] \in [epoch : 1 .. 2^16 - 1, pending : Nat, completed : Nat, error : BOOLEAN]
  /\ reports \in Seq([group : Groups, ok : BOOLEAN])
  /\ batch \in Seq([group : Groups, ok : BOOLEAN])
  /\ sq \in Seq(Tags) /\ kernel \in Seq(Tags) /\ Len(sq) <= RingDepth
  /\ cq \in Seq([group : Groups, epoch : 0 .. 2^16 - 1, res : {-1, 0, 1}])
  /\ landed \in [Groups -> SUBSET Nat] /\ failures \in 0 .. MaxFailures

(* Two conditions of the next four properties: io_uring_submit has not     *)
(* failed, which Clean states, and a group whose reads may end before      *)
(* Submit returns has no more sub-reads than the ring has entries, which   *)
(* the constants must see to: other requests are reported as failed while  *)
(* they are being cut (io_engine.cc:211-225).                              *)
Clean == failures = 0

HowMany(seq, g) == Cardinality({i \in 1 .. Len(seq) : seq[i].group = g})

(* No read is lost or counted twice: as long as io_uring_submit does not   *)
(* fail, and if a group whose reads may end before Submit returns has no   *)
(* more sub-reads than the ring has entries, a request waits for just the  *)
(* completions the ring still owes it, and the ring owes nothing to a      *)
(* request that is not in flight (io_engine.cc:182-306).                   *)
PendingMatchesRing ==
  Clean => \A g \in Groups :
    LET owed == HowMany(sq, g) + HowMany(kernel, g) + HowMany(cq, g) IN
    owed = IF g \in DOMAIN inflight THEN inflight[g].pending ELSE 0

(* A group is reported as read just if all of its sub-reads were, in full, *)
(* since it was last submitted, under the same two conditions              *)
(* (io_engine.cc:286-305).                                                 *)
ReportedIsRead ==
  Clean => \A r \in ToSet(reports) \cup ToSet(batch) :
    r.ok <=> landed[r.group] = 0 .. Subreads[r.group] - 1

(* A job is in the queue, with the submission thread, in flight, or        *)
(* reported, in one place only; a claimed group's job is in one of them    *)
(* unless a stop cleared the queue (prefetcher.cc:229-339).                *)
Places(g) ==
  Cardinality({i \in 1 .. Len(queue) : queue[i] = g})
  + (IF spc \in {"submit", "prepare", "full", "requeue"} /\ sjob = g THEN 1
     ELSE IF g \in DOMAIN inflight THEN 1 ELSE 0)
  + HowMany(reports, g) + HowMany(batch, g)

JobInOnePlace ==
  Clean => \A g \in Groups :
    /\ Places(g) <= 1
    /\ Places(g) = 1 => g \in claimed
    /\ client = "running" /\ g \in claimed => Places(g) = 1

(* engine_mutex_ "protects io_engine_ operations" (prefetcher.h:261) but   *)
(* DrainCompletions does not take it.  The engine is still used by one     *)
(* thread at a time if one group is outstanding at a time.                 *)
EngineUsedByOne == Clean => ~(EngineLocked /\ cpc \in {"drain", "wait", "peek"})

(* "ensure inflight_ is updated BEFORE returning" (io_engine.cc:238): the  *)
(* completion thread can see what Submit has accepted, until it has taken  *)
(* the completion.                                                         *)
AcceptedIsVisible == cpc = "check" /\ ~EngineLocked /\ reports # <<>> => HasPending

(* A group whose reads outlast the call of Submit is marked in the end,    *)
(* or the worker is stopped, or io_uring_submit failed                     *)
(* (prefetcher.cc:229-339).                                                *)
SlowReadsAreMarked ==
  \A g \in Groups \ Prompt :
    g \in claimed ~> g \notin claimed \/ client # "running" \/ ~Clean

(* StopWorker returns, also from amid submissions that fail and reads that *)
(* were collected early (prefetcher.cc:147-174).                           *)
StopReturns == client = "stopping" ~> client = "off"
=============================================================================
