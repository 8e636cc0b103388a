---------------------------- MODULE PhaseProfiler ----------------------------
(***************************************************************************)
(* The eBPF phase profiler: probes that run in the kernel when the         *)
(* profiled program enters or leaves a phase and when its threads enter or *)
(* leave the read system call, and the Python collector that handles the   *)
(* phase events later and reads the counters out of the rwstat map.        *)
(*                                                                         *)
(* Reads stand for all that is counted in the same way: write, and         *)
(* handle_mm_fault, are gated at their entry and counted at their exit by  *)
(* the same code.  A timestamp is the number of the phase it was taken in. *)
(***************************************************************************)
EXTENDS Integers, SequencesExt, Functions

CONSTANTS
  Threads,    (* threads of the profiled program that read                 *)
  Cpus,       (* CPUs the program's main thread may run on                 *)
  MaxReads,   (* number of reads: bound                                    *)
  MaxEvents   (* events in the CPUs' buffers at a time: bound              *)

ASSUME ProfilerAssumption ==
  /\ Cpus # {} /\ MaxReads \in Nat /\ MaxEvents \in Nat

VARIABLES
  gate,       (* phase_ts_pid has the program                              *)
  events,     (* perf buffer of each CPU                                   *)
  rwstat,     (* of some threads: completed reads, and whether one began   *)
  inRead,     (* of the threads in a read: the phase that saw it begin, 0  *)
              (* if it began outside of phases                             *)
  collector,  (* "poll", or how far the capture of a record is             *)
  lastStart,  (* last_start_ns, 0 when there is none                       *)
  capture,    (* the phase being captured, and the start it is paired with *)
  todo, kept, (* keys still to be read, and keys read and not deleted      *)
  total,      (* reads added up                                            *)
  reported, last,  (* phase_raw_records: the sum of its reads, the last one*)
  phase,      (* history: phases begun                                     *)
  reads,      (* history: reads begun, and gated ones ended                *)
  happened,   (* history: reads begun and ended within the current phase   *)
  quiet       (* history: nothing disturbed the current phase              *)

kernelVars == <<gate, events, rwstat>>
recordVars == <<reported, last>>
collectorVars == <<collector, lastStart, capture, todo, kept, total, recordVars>>
historyVars == <<phase, reads, happened, quiet>>
profVars == <<kernelVars, inRead, collectorVars, historyVars>>

NoCapture == [phase |-> 0, start |-> 0]
NoRecord == [phase |-> 0, start |-> 0, reads |-> 0, exact |-> FALSE, happened |-> 0]

ProfilerInit ==
  /\ gate = FALSE
  /\ events = [c \in Cpus |-> <<>>]
  /\ rwstat = <<>>
  /\ inRead = <<>>
  /\ collector = "poll" /\ lastStart = 0 /\ capture = NoCapture
  /\ todo = {} /\ kept = {} /\ total = 0 /\ reported = 0 /\ last = NoRecord
  /\ phase = 0 /\ reads = [begun |-> 0, ended |-> 0] /\ happened = 0 /\ quiet = FALSE

(* The collector has handled every event there was.                        *)
KeepsUp == collector = "poll" /\ \A c \in Cpus : events[c] = <<>>

-----------------------------------------------------------------------------
(* Probes in the main thread, which runs on CPU c.  A phase is quiet if it *)
(* begins and ends while the collector keeps up, begins without counters   *)
(* of earlier reads in the map, and ends without a read under way.         *)

Sent(c, event) ==
  /\ MapThenSumSet(LAMBDA d : Len(events[d]), Cpus) < MaxEvents
  /\ events' = [events EXCEPT ![c] = Append(@, event)]

trace_phase_start(c) ==
  /\ gate' = TRUE
  /\ phase' = phase + 1
  /\ Sent(c, [kind |-> "start", phase |-> phase + 1])
  /\ happened' = 0
  /\ quiet' = (KeepsUp /\ rwstat = <<>>)
  /\ UNCHANGED <<rwstat, inRead, collectorVars, reads>>

(* Mutant: the gate is left open.                                          *)
trace_phase_end_open(c) ==
  /\ Sent(c, [kind |-> "end", phase |-> phase])
  /\ quiet' = (quiet /\ KeepsUp /\ \A t \in DOMAIN inRead : inRead[t] # phase)
  /\ UNCHANGED <<gate, rwstat, inRead, collectorVars, phase, reads, happened>>

trace_phase_end(c) ==
  /\ gate' = FALSE
  /\ Sent(c, [kind |-> "end", phase |-> phase])
  /\ quiet' = (quiet /\ KeepsUp /\ \A t \in DOMAIN inRead : inRead[t] # phase)
  /\ UNCHANGED <<rwstat, inRead, collectorVars, phase, reads, happened>>

-----------------------------------------------------------------------------
(* Probes at a thread's read; one that begins outside of phases is not     *)
(* looked at.                                                              *)

Entry(count, began) == [count |-> count, began |-> began]
Count(t) == IF t \in DOMAIN rwstat THEN rwstat[t].count ELSE 0

WithEntry(t, entry) ==
  [u \in DOMAIN rwstat \cup {t} |-> IF u = t THEN entry ELSE rwstat[u]]

(* Mutant: the entry is made anew at every read.                           *)
BegunAfresh(t) == Entry(0, TRUE)

Begun(t) == Entry(Count(t), TRUE)

sys_enter_read(t) ==
  /\ t \notin DOMAIN inRead
  /\ reads.begun < MaxReads
  /\ reads' = [reads EXCEPT !.begun = @ + 1]
  /\ inRead' = [u \in DOMAIN inRead \cup {t} |->
                  IF u # t THEN inRead[u] ELSE IF gate THEN phase ELSE 0]
  /\ rwstat' = IF gate THEN WithEntry(t, Begun(t)) ELSE rwstat
  /\ UNCHANGED <<gate, events, collectorVars, phase, happened, quiet>>

Counted(t) == Entry(Count(t) + 1, FALSE)

(* Counted if the read's beginning was seen and the collector has not      *)
(* deleted the entry since.                                                *)
sys_exit_read(t) ==
  /\ t \in DOMAIN inRead
  /\ inRead' = Restrict(inRead, DOMAIN inRead \ {t})
  /\ rwstat' = IF t \in DOMAIN rwstat /\ rwstat[t].began THEN WithEntry(t, Counted(t)) ELSE rwstat
  /\ reads' = [reads EXCEPT !.ended = IF inRead[t] # 0 THEN @ + 1 ELSE @]
  /\ happened' = IF gate /\ inRead[t] = phase THEN happened + 1 ELSE happened
  /\ UNCHANGED <<gate, events, collectorVars, phase, quiet>>

-----------------------------------------------------------------------------
(* The collector.                                                          *)

(* on_phase_event, up to the capture.  The buffers of the CPUs are polled  *)
(* in any order; an end without a start is only counted.                   *)
on_phase_event(c) ==
  /\ collector = "poll" /\ events[c] # <<>>
  /\ events' = [events EXCEPT ![c] = Tail(@)]
  /\ LET e == Head(events[c]) IN
     IF e.kind = "start"
     THEN lastStart' = e.phase /\ UNCHANGED <<collector, capture, todo>>
     ELSE /\ lastStart' = 0
          /\ IF lastStart = 0
             THEN UNCHANGED <<collector, capture, todo>>
             ELSE /\ capture' = [phase |-> e.phase, start |-> lastStart]
                  /\ collector' = "sum"
                  /\ todo' = DOMAIN rwstat
  /\ UNCHANGED <<gate, rwstat, inRead, kept, total, recordVars, historyVars>>

(* _read_stat_generic, key by key while the probes go on: first all values *)
(* are added up (keys that are new need not be met), then the keys are     *)
(* deleted.                                                                *)
SumKey(t) ==
  /\ collector = "sum" /\ t \in DOMAIN rwstat \ kept
  /\ total' = total + Count(t)
  /\ todo' = todo \ {t} /\ kept' = kept \cup {t}
  /\ UNCHANGED <<kernelVars, inRead, collector, lastStart, capture, recordVars, historyVars>>

SumDone ==
  /\ collector = "sum" /\ todo = {}
  /\ collector' = "delete"
  /\ UNCHANGED <<kernelVars, inRead, lastStart, capture, todo, kept, total, recordVars, historyVars>>

(* Mutant: the keys are kept.                                              *)
KeepKey(t) ==
  /\ collector = "delete" /\ t \in kept
  /\ kept' = kept \ {t}
  /\ UNCHANGED <<kernelVars, inRead, collector, lastStart, capture, todo, total, recordVars, historyVars>>

DeleteKey(t) ==
  /\ collector = "delete" /\ t \in kept
  /\ rwstat' = Restrict(rwstat, DOMAIN rwstat \ {t})
  /\ kept' = kept \ {t}
  /\ UNCHANGED <<gate, events, inRead, collector, lastStart, capture, todo, total, recordVars, historyVars>>

(* exact and happened are history.                                         *)
AppendRecord ==
  /\ collector = "delete" /\ kept = {}
  /\ last' = [phase |-> capture.phase, start |-> capture.start, reads |-> total,
              exact |-> quiet /\ capture.phase = phase, happened |-> happened]
  /\ reported' = reported + total
  /\ total' = 0 /\ capture' = NoCapture
  /\ collector' = "poll"
  /\ UNCHANGED <<kernelVars, inRead, lastStart, todo, kept, historyVars>>

CollectorStep ==
  \/ \E c \in Cpus : on_phase_event(c)
  \/ \E t \in Threads : SumKey(t) \/ DeleteKey(t)
  \/ SumDone
  \/ AppendRecord

ThreadStep == \E t \in Threads : sys_enter_read(t) \/ sys_exit_read(t)

-----------------------------------------------------------------------------

ProfilerTypeOK ==
  /\ gate \in BOOLEAN /\ quiet \in BOOLEAN
  /\ events \in [Cpus -> Seq([kind : {"start", "end"}, phase : Nat])]
  /\ DOMAIN rwstat \subseteq Threads
  /\ \A t \in DOMAIN rwstat : rwstat[t] \in [count : Nat, began : BOOLEAN]
  /\ DOMAIN inRead \subseteq Threads /\ \A t \in DOMAIN inRead : inRead[t] \in 0 .. phase
  /\ collector \in {"poll", "sum", "delete"}
  /\ todo \subseteq Threads /\ kept \subseteq DOMAIN rwstat
  /\ lastStart \in 0 .. phase /\ capture \in [phase : 0 .. phase, start : 0 .. phase]

(* The collector reads and deletes the counters while the probes update    *)
(* them, and attributes what it finds to the phase whose end it handles.   *)
(* Reads may be lost by that, but none is counted twice, over all records  *)
(* (profile_phase.py:194-234, bpfc_profile_phase.c:265-298).               *)
NoReadCountedTwice == reported + total <= reads.ended

(* A phase's record is right, and paired with its own start, under four    *)
(* conditions: no read was under way when the phase ended; the collector   *)
(* had handled all earlier events when it began and when it ended; it      *)
(* handled its end before the next one began; and no counter of earlier    *)
(* reads was left in the map when it began.  The last one is not implied:  *)
(* an end that is polled before its start is dropped, and the counters of  *)
(* its phase stay for the next record (profile_phase.py:425-428).  "When a *)
(* phase ends all I/O that concerns it is taken to have ended"             *)
(* (profile_phase.py:398-401, 416-446).                                    *)
QuietPhaseIsExact ==
  last.exact => last.start = last.phase /\ last.reads = last.happened
=============================================================================
