---------------------- MODULE ProfiledGenerationProofs ----------------------
(***************************************************************************)
(* The phase profiler, for any threads and CPUs, under any generation:     *)
(* no read is reported twice, and an undisturbed phase is reported         *)
(* exactly.  What is counted and not read out yet is a finite set of       *)
(* reads, and a phase that nothing disturbs passes through four stages.    *)
(*                                                                         *)
(* The generation, for every vocabulary, prompt, set of signatures, cache  *)
(* size and limit: each step sees just the text so far, and none leaves    *)
(* the cache.  The loop's counters are tied together: the position is the  *)
(* last of the used prompt plus the steps done, which is also how many     *)
(* tokens were printed, and the limit on the steps leaves a slot at the    *)
(* end unused.                                                             *)
(***************************************************************************)
EXTENDS ProfiledGeneration, FiniteSetTheorems, SequenceTheorems, TLAPS

-----------------------------------------------------------------------------
(* The invariant of the profiler.                                          *)

(* Reads that are counted and not yet read out by the collector, one by    *)
(* one.                                                                    *)
ReadsOf(stat, keys) == {r \in keys \X (Nat \ {0}) : r[2] <= stat[r[1]].count}
Uncollected == ReadsOf(rwstat, DOMAIN rwstat \ kept)

(* No event is of a phase that has not begun.                              *)
EventsInv == \A c \in Cpus : \A i \in 1 .. Len(events[c]) : events[c][i].phase <= phase

(* What the collector holds while it polls.                                *)
CollectorInv == collector = "poll" => kept = {} /\ total = 0

(* A read whose beginning is recorded is under way, and will be counted    *)
(* among those that began within a phase.                                  *)
BegunInv ==
  /\ phase \in Nat /\ (gate => phase # 0)
  /\ \A t \in DOMAIN rwstat : rwstat[t].began => t \in DOMAIN inRead /\ inRead[t] # 0

(* What is or may still be reported has ended.                             *)
CountedInv ==
  /\ total \in Nat /\ reported \in Nat /\ happened \in Nat
  /\ reads \in [begun : Nat, ended : Nat]
  /\ IsFiniteSet(Uncollected)
  /\ reported + total + Cardinality(Uncollected) <= reads.ended

(* The gate is open within the scopes.                                     *)
GateInv == pc # "aborted" => (gate <=> InScope)

(* Nothing, or one event of the current phase, is in the perf buffers.     *)
NoEvent == \A c \in Cpus : events[c] = <<>>
OneEvent(kind) ==
  \E c \in Cpus :
    /\ events[c] = <<[kind |-> kind, phase |-> phase]>>
    /\ \A d \in Cpus \ {c} : events[d] = <<>>

(* The stages of a phase that nothing disturbs: it is under way, its end   *)
(* is not handled yet, it is captured, and its record is made.             *)
Underway ==
  /\ gate /\ collector = "poll"
  /\ OneEvent("start") \/ (NoEvent /\ lastStart = phase)
  /\ \A t \in DOMAIN inRead : inRead[t] = phase => t \in DOMAIN rwstat /\ rwstat[t].began
  /\ \A t \in DOMAIN rwstat : rwstat[t].began => t \in DOMAIN inRead /\ inRead[t] = phase
NobodyReads == ~gate /\ \A t \in DOMAIN rwstat : ~rwstat[t].began
AtEnd == NobodyReads /\ collector = "poll" /\ OneEvent("end") /\ lastStart = phase /\ phase # 0
Captured ==
  /\ NobodyReads /\ NoEvent
  /\ capture = [phase |-> phase, start |-> phase]
  /\ \/ collector = "sum" /\ todo = DOMAIN rwstat \ kept
     \/ collector = "delete" /\ kept = DOMAIN rwstat
Recorded == ~gate /\ collector = "poll" /\ NoEvent /\ DOMAIN rwstat = {}

(* Up to its record, what a quiet phase counted is what happened in it.    *)
QuietInv ==
  quiet =>
    \/ Recorded
    \/ /\ Underway \/ AtEnd \/ Captured
       /\ total + Cardinality(Uncollected) = happened

(* The inductive invariant, but for the gate.                              *)
BaseInv == ProfilerTypeOK /\ EventsInv /\ CollectorInv /\ BegunInv /\ CountedInv
ProfInv == BaseInv /\ QuietInv /\ QuietPhaseIsExact

-----------------------------------------------------------------------------
(* Sets of reads.                                                          *)

(* Counters that are the same stand for the same reads.                    *)
LEMMA SameReads ==
  ASSUME NEW f, NEW g, NEW K, \A t \in K : g[t].count = f[t].count
  PROVE  ReadsOf(g, K) = ReadsOf(f, K)
BY DEF ReadsOf

(* A counter that starts at 0 stands for no reads.                         *)
LEMMA FreshCounter ==
  ASSUME NEW f, NEW g, NEW K, NEW t, g[t].count = 0, \A u \in K : g[u].count = f[u].count
  PROVE  ReadsOf(g, K \cup {t}) = ReadsOf(f, K)
<1>1. \A r \in ReadsOf(g, K \cup {t}) : r \in ReadsOf(f, K)
  BY DEF ReadsOf
<1>2. \A r \in ReadsOf(f, K) : r \in ReadsOf(g, K \cup {t})
  BY DEF ReadsOf
<1> QED
  BY <1>1, <1>2

(* No counters, no reads.                                                  *)
LEMMA NoReads == ASSUME NEW f PROVE IsFiniteSet(ReadsOf(f, {})) /\ Cardinality(ReadsOf(f, {})) = 0
<1>1. ReadsOf(f, {}) = {}
  BY DEF ReadsOf
<1> QED
  BY <1>1, FS_EmptySet

(* Counting a read adds one.                                               *)
LEMMA OneMoreRead ==
  ASSUME NEW f, NEW g, NEW K, NEW t \in K, f[t].count \in Nat, g[t].count = f[t].count + 1,
         \A u \in K \ {t} : g[u].count = f[u].count, IsFiniteSet(ReadsOf(f, K))
  PROVE  /\ IsFiniteSet(ReadsOf(g, K))
         /\ Cardinality(ReadsOf(g, K)) = Cardinality(ReadsOf(f, K)) + 1
<1> DEFINE r == <<t, f[t].count + 1>>
<1>1. r \notin ReadsOf(f, K)
  BY DEF ReadsOf
<1>2. ReadsOf(g, K) = ReadsOf(f, K) \cup {r}
  <2>1. \A x \in ReadsOf(g, K) : x \in ReadsOf(f, K) \cup {r}
    <3> SUFFICES ASSUME NEW x \in ReadsOf(g, K) PROVE x \in ReadsOf(f, K) \cup {r}
      OBVIOUS
    <3>1. /\ x \in K \X (Nat \ {0}) /\ x[2] <= g[x[1]].count
          /\ x = <<x[1], x[2]>> /\ x[1] \in K /\ x[2] \in Nat \ {0}
      BY DEF ReadsOf
    <3>2. CASE x[1] = t
      <4>1. x[2] <= f[t].count \/ x[2] = f[t].count + 1
        BY <3>1, <3>2
      <4> QED
        BY <3>1, <3>2, <4>1 DEF ReadsOf
    <3>3. CASE x[1] # t
      BY <3>1, <3>3 DEF ReadsOf
    <3> QED
      BY <3>2, <3>3
  <2>2. r \in ReadsOf(g, K)
    BY DEF ReadsOf
  <2>3. \A x \in ReadsOf(f, K) : x \in ReadsOf(g, K)
    <3> SUFFICES ASSUME NEW x \in ReadsOf(f, K) PROVE x \in ReadsOf(g, K)
      OBVIOUS
    <3>1. x \in K \X (Nat \ {0}) /\ x[2] <= f[x[1]].count /\ x[1] \in K /\ x[2] \in Nat
      BY DEF ReadsOf
    <3>2. x[2] <= g[x[1]].count
      BY <3>1
    <3> QED
      BY <3>1, <3>2 DEF ReadsOf
  <2> QED
    BY <2>1, <2>2, <2>3
<1>3. /\ IsFiniteSet(ReadsOf(f, K) \cup {r})
      /\ Cardinality(ReadsOf(f, K) \cup {r}) = Cardinality(ReadsOf(f, K)) + 1
  BY <1>1, FS_AddElement
<1> QED
  BY <1>2, <1>3

(* Reading a counter out takes its reads.                                  *)
LEMMA ReadOut ==
  ASSUME NEW f, NEW K, NEW t \in K, f[t].count \in Nat, IsFiniteSet(ReadsOf(f, K))
  PROVE  /\ IsFiniteSet(ReadsOf(f, K \ {t}))
         /\ Cardinality(ReadsOf(f, K)) = Cardinality(ReadsOf(f, K \ {t})) + f[t].count
<1> DEFINE n == f[t].count
           A == ReadsOf(f, K \ {t})
           B == {t} \X (1 .. n)
<1>1. ReadsOf(f, K) = A \cup B
  <2>1. \A x \in ReadsOf(f, K) : x \in A \cup B
    <3> SUFFICES ASSUME NEW x \in ReadsOf(f, K) PROVE x \in A \cup B
      OBVIOUS
    <3>1. /\ x \in K \X (Nat \ {0}) /\ x[2] <= f[x[1]].count
          /\ x = <<x[1], x[2]>> /\ x[1] \in K /\ x[2] \in Nat \ {0}
      BY DEF ReadsOf
    <3>2. x[1] = t => x[2] \in 1 .. n
      BY <3>1
    <3> QED
      BY <3>1, <3>2 DEF ReadsOf
  <2>2. \A x \in A : x \in ReadsOf(f, K)
    BY DEF ReadsOf
  <2>3. \A x \in B : x \in ReadsOf(f, K)
    BY DEF ReadsOf
  <2> QED
    BY <2>1, <2>2, <2>3
<1>2. A \cap B = {}
  BY DEF ReadsOf
<1>3. IsFiniteSet(A) /\ IsFiniteSet(B)
  BY <1>1, FS_Subset
<1>4. Cardinality(B) = n
  <2>1. IsFiniteSet(1 .. n) /\ Cardinality(1 .. n) = n
    <3>1. n \in Nat
      OBVIOUS
    <3> HIDE DEF n
    <3>2. Cardinality(1 .. n) = IF 1 > n THEN 0 ELSE n - 1 + 1
      BY <3>1, FS_Interval
    <3> QED
      BY <3>1, <3>2, FS_Interval
  <2>2. IsFiniteSet({t}) /\ Cardinality({t}) = 1
    BY FS_Singleton
  <2>3. Cardinality({t} \X (1 .. n)) = Cardinality({t}) * Cardinality(1 .. n)
    BY <2>1, <2>2, FS_Product
  <2> QED
    BY <2>1, <2>2, <2>3
<1>5. Cardinality(A) \in Nat /\ Cardinality(A \cap B) = 0
  BY <1>2, <1>3, FS_CardinalityType, FS_EmptySet
<1> HIDE DEF A, B
<1>6. Cardinality(A \cup B) = Cardinality(A) + Cardinality(B) - Cardinality(A \cap B)
  BY <1>3, FS_Union
<1>7. Cardinality(A \cup B) = Cardinality(A) + n
  BY <1>4, <1>5, <1>6
<1> QED
  BY <1>1, <1>3, <1>7 DEF A

-----------------------------------------------------------------------------
(* Types, events and the gate.                                             *)

Event == [kind : {"start", "end"}, phase : Nat]

(* Sending an event of the current phase.                                  *)
LEMMA SendTypes ==
  ASSUME ProfilerTypeOK, EventsInv, NEW c \in Cpus, NEW kind \in {"start", "end"},
         phase \in Nat, phase' \in Nat, phase <= phase',
         events' = [events EXCEPT ![c] = Append(@, [kind |-> kind, phase |-> phase'])]
  PROVE  events' \in [Cpus -> Seq(Event)] /\ EventsInv'
<1> DEFINE e == [kind |-> kind, phase |-> phase']
<1>1. events \in [Cpus -> Seq(Event)] /\ e \in Event
  BY DEF ProfilerTypeOK, Event
<1>2. \A d \in Cpus : events[d] \in Seq(Event) /\ Len(events[d]) \in Nat
  BY <1>1
<1>e. events' = [events EXCEPT ![c] = Append(@, e)] /\ e.phase = phase'
  OBVIOUS
<1> HIDE DEF e
<1>3. \A d \in Cpus : events'[d] = IF d = c THEN Append(events[c], e) ELSE events[d]
  BY <1>1, <1>e
<1>4. Append(events[c], e) \in Seq(Event)
  BY <1>1, <1>2, AppendProperties
<1>5. events' \in [Cpus -> Seq(Event)]
  BY <1>1, <1>e, <1>2, <1>4
<1>6. ASSUME NEW d \in Cpus, NEW i \in 1 .. Len(events'[d])
      PROVE  events'[d][i].phase <= phase'
  <2>1. CASE d # c
    <3>1. events'[d] = events[d]
      BY <1>3, <2>1
    <3>0. i \in 1 .. Len(events[d])
      BY <3>1
    <3>2. events[d][i] \in Event /\ events[d][i].phase <= phase
      BY <3>0, <1>2 DEF EventsInv
    <3>3. events[d][i].phase \in Nat
      BY <3>2 DEF Event
    <3> QED
      BY <3>1, <3>2, <3>3
  <2>2. CASE d = c
    <3>1. /\ events'[d] = Append(events[c], e) /\ Len(events'[d]) = Len(events[c]) + 1
          /\ \A j \in 1 .. Len(events[c]) : Append(events[c], e)[j] = events[c][j]
          /\ Append(events[c], e)[Len(events[c]) + 1] = e
      <4>1. events[c] \in Seq(Event) /\ e \in Event
        BY <1>1, <1>2
      <4>2. /\ Len(Append(events[c], e)) = Len(events[c]) + 1
            /\ \A j \in 1 .. Len(events[c]) : Append(events[c], e)[j] = events[c][j]
            /\ Append(events[c], e)[Len(events[c]) + 1] = e
        BY <4>1, AppendProperties
      <4> QED
        BY <1>3, <2>2, <4>2
    <3>2. CASE i = Len(events[c]) + 1
      BY <3>1, <3>2, <1>e
    <3>3. CASE i # Len(events[c]) + 1
      <4>1. i \in 1 .. Len(events[c])
        BY <3>1, <3>3, <1>2
      <4>2. events[c][i] \in Event /\ events[c][i].phase <= phase
        BY <4>1, <1>2 DEF EventsInv
      <4>3. events[c][i].phase \in Nat
        BY <4>2 DEF Event
      <4> QED
        BY <3>1, <4>1, <4>2, <4>3
    <3> QED
      BY <3>2, <3>3
  <2> QED
    BY <2>1, <2>2
<1> QED
  BY <1>5, <1>6 DEF EventsInv

(* Taking an event.                                                        *)
LEMMA TakeTypes ==
  ASSUME ProfilerTypeOK, EventsInv, NEW c \in Cpus, events[c] # <<>>, phase' = phase,
         events' = [events EXCEPT ![c] = Tail(@)]
  PROVE  /\ events' \in [Cpus -> Seq(Event)] /\ EventsInv'
         /\ Head(events[c]) \in Event /\ Head(events[c]).phase <= phase
<1>1. events \in [Cpus -> Seq(Event)]
  BY DEF ProfilerTypeOK, Event
<1>2. \A d \in Cpus : events[d] \in Seq(Event) /\ Len(events[d]) \in Nat
  BY <1>1
<1>3. \A d \in Cpus : events'[d] = IF d = c THEN Tail(events[c]) ELSE events[d]
  BY <1>1
<1>4. /\ Tail(events[c]) \in Seq(Event) /\ Len(Tail(events[c])) = Len(events[c]) - 1
      /\ \A i \in 1 .. Len(events[c]) - 1 : Tail(events[c])[i] = events[c][i + 1]
      /\ Head(events[c]) = events[c][1] /\ Len(events[c]) > 0
  BY <1>1, <1>2, HeadTailProperties
<1>5. events' \in [Cpus -> Seq(Event)]
  BY <1>1, <1>2, <1>4
<1>6. EventsInv'
  <2> SUFFICES ASSUME NEW d \in Cpus, NEW i \in 1 .. Len(events'[d])
               PROVE  events'[d][i].phase <= phase
    BY DEF EventsInv
  <2>1. CASE d # c
    BY <1>3, <2>1 DEF EventsInv
  <2>2. CASE d = c
    <3>0. events'[d] = Tail(events[c]) /\ i \in 1 .. Len(Tail(events[c]))
      BY <1>3, <2>2
    <3>1. i \in 1 .. Len(events[c]) - 1 /\ i + 1 \in 1 .. Len(events[c])
      BY <1>2, <1>4, <3>0
    <3>2. Tail(events[c])[i] = events[c][i + 1]
      BY <1>4, <3>1
    <3> QED
      BY <3>0, <3>1, <3>2 DEF EventsInv
  <2> QED
    BY <2>1, <2>2
<1>7. Head(events[c]) \in Event /\ Head(events[c]).phase <= phase
  BY <1>2, <1>4 DEF EventsInv
<1> QED
  BY <1>5, <1>6, <1>7

-----------------------------------------------------------------------------
(* What holds of every phase.                                              *)

Stat == [count : Nat, began : BOOLEAN]

(* The entry a probe leaves.                                               *)
LEMMA EntryTypes ==
  ASSUME ProfilerTypeOK, NEW t \in Threads, NEW entry \in Stat
  PROVE  /\ DOMAIN WithEntry(t, entry) = DOMAIN rwstat \cup {t}
         /\ \A u \in DOMAIN rwstat \cup {t} :
              WithEntry(t, entry)[u] = IF u = t THEN entry ELSE rwstat[u]
         /\ \A u \in DOMAIN rwstat \cup {t} : WithEntry(t, entry)[u] \in Stat
         /\ Count(t) \in Nat
BY DEF WithEntry, ProfilerTypeOK, Stat, Count

(* Uncollected reads when neither the entries nor the keys change.         *)
LEMMA UncollectedSame ==
  ASSUME UNCHANGED <<rwstat, kept>>
  PROVE  Uncollected' = Uncollected
BY DEF Uncollected

(* A phase starts.                                                         *)
LEMMA StartKeepsBase ==
  ASSUME BaseInv, NEW c \in Cpus, trace_phase_start(c)
  PROVE  BaseInv'
<1> USE DEF BaseInv
<1>1. /\ phase \in Nat /\ phase' = phase + 1 /\ gate' = TRUE
      /\ UNCHANGED <<rwstat, inRead, collector, lastStart, capture, todo, kept, total, reported,
                     last, reads>>
      /\ happened' = 0 /\ quiet' \in BOOLEAN
  BY DEF trace_phase_start, Sent, BegunInv, collectorVars, recordVars, KeepsUp
<1>2. events' \in [Cpus -> Seq(Event)] /\ EventsInv'
  <2>1. events' = [events EXCEPT ![c] = Append(@, [kind |-> "start", phase |-> phase'])]
    BY <1>1 DEF trace_phase_start, Sent
  <2>2. phase' \in Nat /\ phase <= phase' /\ "start" \in {"start", "end"}
    BY <1>1
  <2> QED
    BY <1>1, <2>1, <2>2, SendTypes
<1>3. /\ \A t \in DOMAIN inRead : inRead[t] \in 0 .. phase'
      /\ lastStart \in 0 .. phase' /\ capture \in [phase : 0 .. phase', start : 0 .. phase']
  BY <1>1 DEF ProfilerTypeOK
<1>4. ProfilerTypeOK'
  BY <1>1, <1>2, <1>3 DEF ProfilerTypeOK, Event
<1>5. Uncollected' = Uncollected
  BY <1>1, UncollectedSame
<1>6. CollectorInv' /\ BegunInv' /\ CountedInv'
  BY <1>1, <1>5 DEF CollectorInv, BegunInv, CountedInv
<1> QED
  BY <1>2, <1>4, <1>6

(* A phase ends.                                                           *)
LEMMA EndKeepsBase ==
  ASSUME BaseInv, NEW c \in Cpus, trace_phase_end(c)
  PROVE  BaseInv'
<1> USE DEF BaseInv
<1>1. /\ phase \in Nat /\ phase' = phase /\ gate' = FALSE
      /\ UNCHANGED <<rwstat, inRead, collector, lastStart, capture, todo, kept, total, reported,
                     last, reads, happened>>
      /\ quiet' \in BOOLEAN
  BY DEF trace_phase_end, Sent, BegunInv, collectorVars, recordVars, KeepsUp
<1>2. events' \in [Cpus -> Seq(Event)] /\ EventsInv'
  <2>1. events' = [events EXCEPT ![c] = Append(@, [kind |-> "end", phase |-> phase'])]
    BY <1>1 DEF trace_phase_end, Sent
  <2>2. phase' \in Nat /\ phase <= phase' /\ "end" \in {"start", "end"}
    BY <1>1
  <2> QED
    BY <1>1, <2>1, <2>2, SendTypes
<1>4. ProfilerTypeOK'
  BY <1>1, <1>2 DEF ProfilerTypeOK, Event
<1>5. Uncollected' = Uncollected
  BY <1>1, UncollectedSame
<1>6. CollectorInv' /\ BegunInv' /\ CountedInv'
  BY <1>1, <1>5 DEF CollectorInv, BegunInv, CountedInv
<1> QED
  BY <1>2, <1>4, <1>6

(* A read that begins counts nothing yet.                                  *)
LEMMA EnterUncollected ==
  ASSUME ProfilerTypeOK, NEW t \in Threads, sys_enter_read(t)
  PROVE  Uncollected' = Uncollected
<1>1. kept' = kept /\ kept \subseteq DOMAIN rwstat
  BY DEF sys_enter_read, collectorVars, ProfilerTypeOK
<1>2. CASE ~gate
  BY <1>1, <1>2, UncollectedSame DEF sys_enter_read
<1>3. CASE gate
  <2> DEFINE K == DOMAIN rwstat \ kept
  <2>1. Count(t) \in Nat /\ Begun(t) = [count |-> Count(t), began |-> TRUE] /\ Begun(t) \in Stat
    BY EntryTypes DEF Begun, Entry, Stat, ProfilerTypeOK, Count
  <2>2. /\ rwstat' = WithEntry(t, Begun(t))
        /\ DOMAIN rwstat' = DOMAIN rwstat \cup {t}
        /\ \A u \in DOMAIN rwstat \cup {t} : rwstat'[u] = IF u = t THEN Begun(t) ELSE rwstat[u]
    BY <1>3, <2>1, EntryTypes DEF sys_enter_read
  <2>3. \A u \in K : rwstat'[u].count = rwstat[u].count
    <3> SUFFICES ASSUME NEW u \in K PROVE rwstat'[u].count = rwstat[u].count
      OBVIOUS
    <3>1. rwstat'[u] = IF u = t THEN Begun(t) ELSE rwstat[u]
      BY <2>2
    <3>2. u = t => Begun(t).count = rwstat[u].count
      BY <2>1 DEF Count
    <3> QED
      BY <3>1, <3>2
  <2>4. CASE t \in DOMAIN rwstat
    <3>1. DOMAIN rwstat' \ kept' = K
      BY <1>1, <2>2, <2>4
    <3>2. ReadsOf(rwstat', K) = ReadsOf(rwstat, K)
      BY <2>3, SameReads
    <3> QED
      BY <3>1, <3>2 DEF Uncollected, ReadsOf
  <2>5. CASE t \notin DOMAIN rwstat
    <3>1. DOMAIN rwstat' \ kept' = K \cup {t}
      BY <1>1, <2>2, <2>5
    <3>2. rwstat'[t].count = 0
      BY <2>1, <2>2, <2>5 DEF Count
    <3>3. ReadsOf(rwstat', K \cup {t}) = ReadsOf(rwstat, K)
      BY <2>3, <3>2, FreshCounter
    <3> QED
      BY <3>1, <3>3 DEF Uncollected, ReadsOf
  <2> QED
    BY <2>4, <2>5
<1> QED
  BY <1>2, <1>3

(* The entries after a read began.                                         *)
LEMMA EnterStat ==
  ASSUME ProfilerTypeOK, NEW t \in Threads, sys_enter_read(t)
  PROVE  /\ DOMAIN rwstat \subseteq DOMAIN rwstat' /\ DOMAIN rwstat' \subseteq DOMAIN rwstat \cup {t}
         /\ \A u \in DOMAIN rwstat' :
              /\ rwstat'[u] \in Stat
              /\ rwstat'[u].began => (u \in DOMAIN rwstat /\ rwstat[u].began) \/ (gate /\ u = t)
<1>1. Begun(t) \in Stat
  BY EntryTypes DEF Begun, Entry, Stat, ProfilerTypeOK, Count
<1>2. CASE gate
  <2>1. /\ rwstat' = WithEntry(t, Begun(t))
        /\ DOMAIN rwstat' = DOMAIN rwstat \cup {t}
        /\ \A u \in DOMAIN rwstat \cup {t} :
             rwstat'[u] \in Stat /\ rwstat'[u] = IF u = t THEN Begun(t) ELSE rwstat[u]
    BY <1>1, <1>2, EntryTypes DEF sys_enter_read
  <2>2. ASSUME NEW u \in DOMAIN rwstat', rwstat'[u].began, u # t
        PROVE  u \in DOMAIN rwstat /\ rwstat[u].began
    BY <2>1, <2>2
  <2> QED
    BY <1>2, <2>1, <2>2
<1>3. CASE ~gate
  <2>1. rwstat' = rwstat
    BY <1>3 DEF sys_enter_read
  <2>2. \A u \in DOMAIN rwstat : rwstat[u] \in Stat
    BY DEF ProfilerTypeOK, Stat
  <2> QED
    BY <2>1, <2>2
<1> QED
  BY <1>2, <1>3

(* A read begins.                                                          *)
LEMMA EnterKeepsBase ==
  ASSUME BaseInv, NEW t \in Threads, sys_enter_read(t)
  PROVE  BaseInv'
<1> USE DEF BaseInv
<1>1. /\ phase \in Nat
      /\ UNCHANGED <<gate, events, collector, lastStart, capture, todo, kept, total, reported,
                     last, phase, happened, quiet>>
      /\ reads' = [reads EXCEPT !.begun = @ + 1]
      /\ t \notin DOMAIN inRead /\ DOMAIN inRead' = DOMAIN inRead \cup {t}
      /\ \A u \in DOMAIN inRead : inRead'[u] = inRead[u]
      /\ inRead'[t] = IF gate THEN phase ELSE 0
  BY DEF sys_enter_read, collectorVars, recordVars, BegunInv
<1>2. /\ DOMAIN rwstat \subseteq DOMAIN rwstat' /\ DOMAIN rwstat' \subseteq DOMAIN rwstat \cup {t}
      /\ \A u \in DOMAIN rwstat' :
           /\ rwstat'[u] \in Stat
           /\ rwstat'[u].began => (u \in DOMAIN rwstat /\ rwstat[u].began) \/ (gate /\ u = t)
  BY EnterStat
<1>3. ProfilerTypeOK'
  <2>1. DOMAIN inRead' \subseteq Threads /\ \A u \in DOMAIN inRead' : inRead'[u] \in 0 .. phase'
    BY <1>1 DEF ProfilerTypeOK
  <2>2. DOMAIN rwstat' \subseteq Threads /\ kept' \subseteq DOMAIN rwstat'
    BY <1>1, <1>2 DEF ProfilerTypeOK
  <2> QED
    BY <1>1, <1>2, <2>1, <2>2 DEF ProfilerTypeOK, Stat
<1>4. EventsInv' /\ CollectorInv'
  BY <1>1 DEF EventsInv, CollectorInv
<1>5. BegunInv'
  BY <1>1, <1>2 DEF BegunInv
<1>6. Uncollected' = Uncollected
  BY EnterUncollected
<1>7. reads' \in [begun : Nat, ended : Nat] /\ reads'.ended = reads.ended
  BY <1>1 DEF CountedInv
<1>8. CountedInv'
  BY <1>1, <1>6, <1>7 DEF CountedInv
<1> QED
  BY <1>3, <1>4, <1>5, <1>8

(* What the end of a read does to the entries, and to what they stand for. *)
LEMMA ExitStat ==
  ASSUME BaseInv, NEW t \in Threads, sys_exit_read(t)
  PROVE  LET counted == t \in DOMAIN rwstat /\ rwstat[t].began IN
         /\ DOMAIN rwstat' = DOMAIN rwstat
         /\ \A u \in DOMAIN rwstat :
              /\ rwstat'[u] \in Stat
              /\ rwstat'[u].began => u # t /\ rwstat[u].began
              /\ u # t => rwstat'[u] = rwstat[u]
         /\ ~counted => rwstat' = rwstat
         /\ IsFiniteSet(Uncollected')
         /\ Cardinality(Uncollected') \in Nat /\ Cardinality(Uncollected) \in Nat
         /\ Cardinality(Uncollected') =
              Cardinality(Uncollected) + IF counted /\ t \notin kept THEN 1 ELSE 0
<1> DEFINE counted == t \in DOMAIN rwstat /\ rwstat[t].began
           K == DOMAIN rwstat \ kept
<1>1. ProfilerTypeOK /\ kept' = kept /\ IsFiniteSet(Uncollected)
  BY DEF BaseInv, sys_exit_read, collectorVars, CountedInv
<1>2. \A u \in DOMAIN rwstat : rwstat[u] \in Stat
  BY <1>1 DEF ProfilerTypeOK, Stat
<1>3. CASE ~counted
  <2>1. rwstat' = rwstat
    BY <1>3 DEF sys_exit_read
  <2>2. Uncollected' = Uncollected
    BY <1>1, <2>1, UncollectedSame
  <2>3. \A u \in DOMAIN rwstat : rwstat[u].began => u # t
    BY <1>3
  <2> QED
    BY <1>1, <1>2, <1>3, <2>1, <2>2, <2>3, FS_CardinalityType
<1>4. CASE counted
  <2>1. /\ Count(t) = rwstat[t].count /\ rwstat[t].count \in Nat
        /\ Counted(t) = [count |-> rwstat[t].count + 1, began |-> FALSE] /\ Counted(t) \in Stat
    BY <1>2, <1>4 DEF Count, Counted, Entry, Stat
  <2>2. DOMAIN rwstat \cup {t} = DOMAIN rwstat /\ rwstat' = WithEntry(t, Counted(t))
    BY <1>4 DEF sys_exit_read
  <2>3. /\ DOMAIN rwstat' = DOMAIN rwstat
        /\ \A u \in DOMAIN rwstat :
             rwstat'[u] \in Stat /\ rwstat'[u] = IF u = t THEN Counted(t) ELSE rwstat[u]
    BY <1>1, <2>1, <2>2, EntryTypes
  <2>4. \A u \in DOMAIN rwstat : rwstat'[u].began => u # t /\ rwstat[u].began
    BY <2>1, <2>3
  <2>5. Uncollected' = ReadsOf(rwstat', K) /\ Uncollected = ReadsOf(rwstat, K)
    BY <1>1, <2>3 DEF Uncollected
  <2>6. \A u \in K \ {t} : rwstat'[u].count = rwstat[u].count
    BY <2>3
  <2>7. rwstat'[t].count = rwstat[t].count + 1
    BY <1>4, <2>1, <2>3
  <2>8. CASE t \in kept
    <3>1. \A u \in K : rwstat'[u].count = rwstat[u].count
      BY <2>6, <2>8
    <3>2. ReadsOf(rwstat', K) = ReadsOf(rwstat, K)
      BY <3>1, SameReads
    <3>3. Cardinality(Uncollected) \in Nat /\ Uncollected' = Uncollected
      BY <1>1, <2>5, <3>2, FS_CardinalityType
    <3> QED
      BY <1>1, <1>4, <2>3, <2>4, <2>8, <3>3
  <2>9. CASE t \notin kept
    <3>1. t \in K
      BY <1>4, <2>9
    <3>2. /\ IsFiniteSet(ReadsOf(rwstat', K))
          /\ Cardinality(ReadsOf(rwstat', K)) = Cardinality(ReadsOf(rwstat, K)) + 1
      BY <1>1, <2>1, <2>5, <2>6, <2>7, <3>1, OneMoreRead
    <3>3. Cardinality(Uncollected) \in Nat /\ Cardinality(Uncollected') = Cardinality(Uncollected) + 1
      BY <1>1, <2>5, <3>2, FS_CardinalityType
    <3> QED
      BY <1>4, <2>3, <2>4, <2>5, <2>9, <3>2, <3>3
  <2> QED
    BY <2>8, <2>9
<1> QED
  BY <1>3, <1>4

(* A read ends: what it adds to the counters it adds to the reads ended.   *)
LEMMA ExitKeepsBase ==
  ASSUME BaseInv, NEW t \in Threads, sys_exit_read(t)
  PROVE  BaseInv'
<1>1. /\ UNCHANGED <<gate, events, collector, lastStart, capture, todo, kept, total, reported,
                     last, phase, quiet>>
      /\ reads' = [reads EXCEPT !.ended = IF inRead[t] # 0 THEN @ + 1 ELSE @]
      /\ happened' = IF gate /\ inRead[t] = phase THEN happened + 1 ELSE happened
      /\ DOMAIN inRead' = DOMAIN inRead \ {t}
      /\ \A u \in DOMAIN inRead' : inRead'[u] = inRead[u]
  BY DEF sys_exit_read, collectorVars, recordVars, Restrict
<1>2. ProfilerTypeOK /\ EventsInv /\ CollectorInv /\ BegunInv /\ CountedInv
  BY DEF BaseInv
<1>3. /\ DOMAIN rwstat' = DOMAIN rwstat
      /\ \A u \in DOMAIN rwstat :
           rwstat'[u] \in Stat /\ (rwstat'[u].began => u # t /\ rwstat[u].began)
  BY ExitStat
<1>4. ProfilerTypeOK'
  <2>1. \A u \in DOMAIN inRead' : inRead'[u] \in 0 .. phase' /\ u \in Threads
    BY <1>1, <1>2 DEF ProfilerTypeOK
  <2>2. /\ DOMAIN rwstat' \subseteq Threads /\ kept' \subseteq DOMAIN rwstat'
        /\ \A u \in DOMAIN rwstat' : rwstat'[u] \in [count : Nat, began : BOOLEAN]
    BY <1>1, <1>2, <1>3 DEF ProfilerTypeOK, Stat
  <2> QED
    BY <1>1, <1>2, <2>1, <2>2 DEF ProfilerTypeOK
<1>5. EventsInv' /\ CollectorInv'
  BY <1>1, <1>2 DEF EventsInv, CollectorInv
<1>6. BegunInv'
  BY <1>1, <1>2, <1>3 DEF BegunInv
<1>7. /\ reads' \in [begun : Nat, ended : Nat]
      /\ reads'.ended = IF inRead[t] # 0 THEN reads.ended + 1 ELSE reads.ended
      /\ happened' \in Nat
  BY <1>1, <1>2 DEF CountedInv
<1>8. t \in DOMAIN rwstat /\ rwstat[t].began => inRead[t] # 0
  BY <1>2 DEF BegunInv
<1>9. /\ IsFiniteSet(Uncollected')
      /\ Cardinality(Uncollected') \in Nat /\ Cardinality(Uncollected) \in Nat
      /\ Cardinality(Uncollected') <= Cardinality(Uncollected) + 1
      /\ inRead[t] = 0 => Cardinality(Uncollected') = Cardinality(Uncollected)
  BY <1>8, ExitStat
<1>10. CountedInv'
  BY <1>1, <1>2, <1>7, <1>9 DEF CountedInv
<1> QED
  BY <1>4, <1>5, <1>6, <1>10 DEF BaseInv

(* An event is handled.                                                    *)
LEMMA EventKeepsBase ==
  ASSUME BaseInv, NEW c \in Cpus, on_phase_event(c)
  PROVE  BaseInv'
<1>1. ProfilerTypeOK /\ EventsInv /\ CollectorInv /\ BegunInv /\ CountedInv
  BY DEF BaseInv
<1>2. /\ UNCHANGED <<gate, rwstat, inRead, kept, total, reported, last, phase, reads, happened,
                     quiet>>
      /\ collector = "poll" /\ events[c] # <<>> /\ events' = [events EXCEPT ![c] = Tail(@)]
  BY DEF on_phase_event, recordVars, historyVars
<1>3. events' \in [Cpus -> Seq(Event)] /\ EventsInv'
  BY <1>1, <1>2, TakeTypes
<1>4. Head(events[c]).phase \in 0 .. phase
  <2>1. Head(events[c]) \in Event /\ Head(events[c]).phase <= phase
    BY <1>1, <1>2, TakeTypes
  <2>2. phase \in Nat
    BY <1>1 DEF BegunInv
  <2> QED
    BY <2>1, <2>2 DEF Event
<1>5. /\ collector' \in {"poll", "sum"} /\ lastStart' \in 0 .. phase
      /\ capture' \in [phase : 0 .. phase, start : 0 .. phase] /\ todo' \subseteq Threads
  <2>1. phase \in Nat
    BY <1>1 DEF BegunInv
  <2> QED
    BY <1>1, <1>2, <1>4, <2>1 DEF on_phase_event, ProfilerTypeOK
<1>6. ProfilerTypeOK'
  BY <1>1, <1>2, <1>3, <1>5 DEF ProfilerTypeOK, Event
<1>7. Uncollected' = Uncollected
  BY <1>2, UncollectedSame
<1>8. CollectorInv' /\ BegunInv' /\ CountedInv'
  BY <1>1, <1>2, <1>7 DEF CollectorInv, BegunInv, CountedInv
<1> QED
  BY <1>3, <1>6, <1>8 DEF BaseInv

(* A key that is read out: its reads are added up.                         *)
LEMMA SumFacts ==
  ASSUME BaseInv, NEW t \in Threads, SumKey(t)
  PROVE  /\ Count(t) \in Nat /\ total' = total + Count(t)
         /\ IsFiniteSet(Uncollected')
         /\ Cardinality(Uncollected) \in Nat /\ Cardinality(Uncollected') \in Nat
         /\ Cardinality(Uncollected) = Cardinality(Uncollected') + Count(t)
<1> DEFINE K == DOMAIN rwstat \ kept
<1>1. t \in K /\ rwstat' = rwstat /\ kept' = kept \cup {t} /\ total' = total + Count(t)
  BY DEF SumKey, kernelVars
<1>2. Count(t) = rwstat[t].count /\ rwstat[t].count \in Nat
  BY <1>1 DEF Count, BaseInv, ProfilerTypeOK
<1>3. Uncollected = ReadsOf(rwstat, K) /\ Uncollected' = ReadsOf(rwstat, K \ {t})
  <2>1. DOMAIN rwstat' \ kept' = K \ {t}
    BY <1>1
  <2> QED
    BY <1>1, <2>1 DEF Uncollected
<1>4. IsFiniteSet(Uncollected)
  BY DEF BaseInv, CountedInv
<1>5. /\ IsFiniteSet(ReadsOf(rwstat, K \ {t}))
      /\ Cardinality(ReadsOf(rwstat, K)) = Cardinality(ReadsOf(rwstat, K \ {t})) + rwstat[t].count
  BY <1>1, <1>2, <1>3, <1>4, ReadOut
<1> QED
  BY <1>1, <1>2, <1>3, <1>4, <1>5, FS_CardinalityType

(* A key is read out.                                                      *)
LEMMA SumKeepsBase ==
  ASSUME BaseInv, NEW t \in Threads, SumKey(t)
  PROVE  BaseInv'
<1>1. ProfilerTypeOK /\ EventsInv /\ CollectorInv /\ BegunInv /\ CountedInv
  BY DEF BaseInv
<1>2. /\ UNCHANGED <<gate, events, rwstat, inRead, collector, lastStart, capture, reported, last,
                     phase, reads, happened, quiet>>
      /\ collector = "sum" /\ t \in DOMAIN rwstat
      /\ todo' = todo \ {t} /\ kept' = kept \cup {t}
  BY DEF SumKey, kernelVars, recordVars, historyVars
<1>3. ProfilerTypeOK'
  BY <1>1, <1>2 DEF ProfilerTypeOK
<1>4. EventsInv' /\ CollectorInv' /\ BegunInv'
  BY <1>1, <1>2 DEF EventsInv, CollectorInv, BegunInv
<1>5. CountedInv'
  BY <1>1, <1>2, SumFacts DEF CountedInv
<1> QED
  BY <1>3, <1>4, <1>5 DEF BaseInv

(* All keys are read out.                                                  *)
LEMMA SumDoneKeepsBase ==
  ASSUME BaseInv, SumDone
  PROVE  BaseInv'
<1>1. ProfilerTypeOK /\ EventsInv /\ CollectorInv /\ BegunInv /\ CountedInv
  BY DEF BaseInv
<1>2. /\ UNCHANGED <<gate, events, rwstat, inRead, lastStart, capture, todo, kept, total, reported,
                     last, phase, reads, happened, quiet>>
      /\ collector' = "delete"
  BY DEF SumDone, kernelVars, recordVars, historyVars
<1>3. Uncollected' = Uncollected
  BY <1>2, UncollectedSame
<1> QED
  BY <1>1, <1>2, <1>3
     DEF BaseInv, ProfilerTypeOK, EventsInv, CollectorInv, BegunInv, CountedInv

(* A key that is deleted was read out: no other reads are lost.            *)
LEMMA DeleteFacts ==
  ASSUME BaseInv, NEW t \in Threads, DeleteKey(t)
  PROVE  /\ DOMAIN rwstat' = DOMAIN rwstat \ {t} /\ kept' = kept \ {t}
         /\ \A u \in DOMAIN rwstat' : rwstat'[u] = rwstat[u]
         /\ Uncollected' = Uncollected
<1> DEFINE K == DOMAIN rwstat \ kept
<1>1. /\ rwstat' = [u \in DOMAIN rwstat \ {t} |-> rwstat[u]] /\ t \in kept /\ kept' = kept \ {t}
  BY DEF DeleteKey, Restrict
<1>2. DOMAIN rwstat' = DOMAIN rwstat \ {t} /\ \A u \in DOMAIN rwstat' : rwstat'[u] = rwstat[u]
  BY <1>1
<1>3. DOMAIN rwstat' \ kept' = K
  BY <1>1, <1>2
<1>4. ReadsOf(rwstat', K) = ReadsOf(rwstat, K)
  BY <1>2, <1>3, SameReads
<1>5. Uncollected' = ReadsOf(rwstat', K)
  BY <1>3 DEF Uncollected
<1> QED
  BY <1>1, <1>2, <1>4, <1>5 DEF Uncollected

(* A key is deleted.                                                       *)
LEMMA DeleteKeepsBase ==
  ASSUME BaseInv, NEW t \in Threads, DeleteKey(t)
  PROVE  BaseInv'
<1>1. ProfilerTypeOK /\ EventsInv /\ CollectorInv /\ BegunInv /\ CountedInv
  BY DEF BaseInv
<1>2. /\ UNCHANGED <<gate, events, inRead, collector, lastStart, capture, todo, total, reported,
                     last, phase, reads, happened, quiet>>
      /\ collector = "delete"
  BY DEF DeleteKey, recordVars, historyVars
<1>3. ProfilerTypeOK'
  <2>1. /\ DOMAIN rwstat' \subseteq Threads /\ kept' \subseteq DOMAIN rwstat'
        /\ \A u \in DOMAIN rwstat' : rwstat'[u] \in [count : Nat, began : BOOLEAN]
    BY <1>1, DeleteFacts DEF ProfilerTypeOK
  <2> QED
    BY <1>1, <1>2, <2>1 DEF ProfilerTypeOK
<1>4. EventsInv' /\ CollectorInv'
  BY <1>1, <1>2 DEF EventsInv, CollectorInv
<1>5. BegunInv'
  BY <1>1, <1>2, DeleteFacts DEF BegunInv
<1>6. CountedInv'
  BY <1>1, <1>2, DeleteFacts DEF CountedInv
<1> QED
  BY <1>3, <1>4, <1>5, <1>6 DEF BaseInv

(* The record is made.                                                     *)
LEMMA AppendKeepsBase ==
  ASSUME BaseInv, AppendRecord
  PROVE  BaseInv'
<1>1. ProfilerTypeOK /\ EventsInv /\ CollectorInv /\ BegunInv /\ CountedInv
  BY DEF BaseInv
<1>2. /\ UNCHANGED <<gate, events, rwstat, inRead, lastStart, todo, kept, phase, reads, happened,
                     quiet>>
      /\ collector' = "poll" /\ kept = {} /\ total' = 0 /\ reported' = reported + total
      /\ capture' = [phase |-> 0, start |-> 0]
  BY DEF AppendRecord, NoCapture, kernelVars, historyVars
<1>3. ProfilerTypeOK'
  <2>1. phase \in Nat
    BY <1>1 DEF BegunInv
  <2>2. capture' \in [phase : 0 .. phase', start : 0 .. phase']
    BY <1>2, <2>1
  <2> QED
    BY <1>1, <1>2, <2>2 DEF ProfilerTypeOK
<1>4. Uncollected' = Uncollected
  BY <1>2, UncollectedSame
<1>5. EventsInv' /\ CollectorInv' /\ BegunInv'
  BY <1>1, <1>2 DEF EventsInv, CollectorInv, BegunInv
<1>6. CountedInv'
  BY <1>1, <1>2, <1>4, FS_CardinalityType DEF CountedInv
<1> QED
  BY <1>3, <1>5, <1>6 DEF BaseInv

(* Steps that leave the profiler alone.                                    *)
LEMMA StutterKeepsBase ==
  ASSUME BaseInv, UNCHANGED profVars
  PROVE  BaseInv'
<1>1. ProfilerTypeOK /\ EventsInv /\ CollectorInv /\ BegunInv /\ CountedInv
  BY DEF BaseInv
<1>2. UNCHANGED <<gate, events, rwstat, inRead, collector, lastStart, capture, todo, kept, total,
                  reported, last, phase, reads, happened, quiet>>
  BY DEF profVars, kernelVars, collectorVars, recordVars, historyVars
<1>3. Uncollected' = Uncollected
  BY <1>2, UncollectedSame
<1> QED
  BY <1>1, <1>2, <1>3
     DEF BaseInv, ProfilerTypeOK, EventsInv, CollectorInv, BegunInv, CountedInv

-----------------------------------------------------------------------------
(* A phase that nothing disturbs.                                          *)

(* A buffer that was empty holds just the event appended.                  *)
LEMMA OneAppended == ASSUME NEW e PROVE Append(<<>>, e) = <<e>>
OBVIOUS

(* A phase that starts after everything was handled begins undisturbed.    *)
LEMMA StartKeepsQuiet ==
  ASSUME ProfInv, NEW c \in Cpus, trace_phase_start(c)
  PROVE  QuietInv' /\ QuietPhaseIsExact'
<1>1. /\ phase \in Nat /\ ProfilerTypeOK /\ CollectorInv
      /\ \A t \in DOMAIN inRead : inRead[t] \in 0 .. phase
  BY DEF ProfInv, BaseInv, BegunInv, ProfilerTypeOK
<1>2. /\ gate' = TRUE /\ phase' = phase + 1 /\ happened' = 0
      /\ quiet' <=> KeepsUp /\ rwstat = <<>>
      /\ UNCHANGED <<rwstat, inRead, collector, kept, total, last>>
      /\ events' = [events EXCEPT ![c] = Append(@, [kind |-> "start", phase |-> phase'])]
  BY DEF trace_phase_start, Sent, collectorVars, recordVars
<1>3. QuietPhaseIsExact'
  BY <1>2 DEF ProfInv, QuietPhaseIsExact
<1>4. ASSUME quiet' PROVE Underway' /\ total' + Cardinality(Uncollected') = happened'
  <2>1. /\ collector = "poll" /\ \A d \in Cpus : events[d] = <<>>
        /\ DOMAIN rwstat = {} /\ kept = {} /\ total = 0
    BY <1>1, <1>2, <1>4 DEF KeepsUp, CollectorInv
  <2>2. events \in [Cpus -> Seq(Event)]
    BY <1>1 DEF ProfilerTypeOK, Event
  <2>3. events'[c] = <<[kind |-> "start", phase |-> phase']>> /\ \A d \in Cpus \ {c} : events'[d] = <<>>
    <3> DEFINE e == [kind |-> "start", phase |-> phase']
    <3>1. events' = [events EXCEPT ![c] = Append(@, e)]
      BY <1>2
    <3> HIDE DEF e
    <3>2. \A d \in Cpus : events'[d] = IF d = c THEN Append(<<>>, e) ELSE <<>>
      BY <2>1, <2>2, <3>1
    <3>3. Append(<<>>, e) = <<e>>
      BY OneAppended
    <3> QED
      BY <3>2, <3>3 DEF e
  <2>4. OneEvent("start")'
    BY <2>3 DEF OneEvent
  <2>5. \A t \in DOMAIN inRead' : inRead'[t] # phase'
    BY <1>1, <1>2
  <2>6. Underway'
    BY <1>2, <2>1, <2>4, <2>5 DEF Underway
  <2>7. Uncollected' = ReadsOf(rwstat', {})
    BY <1>2, <2>1 DEF Uncollected
  <2>8. Cardinality(Uncollected') = 0
    BY <2>7, NoReads
  <2> QED
    BY <1>2, <2>1, <2>6, <2>8
<1> QED
  BY <1>3, <1>4 DEF QuietInv

(* A phase ends undisturbed.                                               *)
LEMMA EndKeepsQuiet ==
  ASSUME ProfInv, gate, NEW c \in Cpus, trace_phase_end(c)
  PROVE  QuietInv' /\ QuietPhaseIsExact'
<1>1. phase # 0 /\ ProfilerTypeOK
  BY DEF ProfInv, BaseInv, BegunInv
<1>2. /\ gate' = FALSE
      /\ quiet' <=> quiet /\ KeepsUp /\ \A t \in DOMAIN inRead : inRead[t] # phase
      /\ UNCHANGED <<rwstat, inRead, collector, lastStart, kept, total, last, phase, happened>>
      /\ events' = [events EXCEPT ![c] = Append(@, [kind |-> "end", phase |-> phase])]
  BY DEF trace_phase_end, Sent, collectorVars, recordVars
<1>3. QuietPhaseIsExact'
  BY <1>2 DEF ProfInv, QuietPhaseIsExact
<1>4. ASSUME quiet' PROVE AtEnd' /\ total' + Cardinality(Uncollected') = happened'
  <2>1. /\ Underway /\ total + Cardinality(Uncollected) = happened
    BY <1>2, <1>4 DEF ProfInv, QuietInv, Recorded, AtEnd, Captured, NobodyReads
  <2>2. \A d \in Cpus : events[d] = <<>>
    BY <1>2, <1>4 DEF KeepsUp
  <2>3. lastStart = phase
    BY <2>1, <2>2 DEF Underway, OneEvent
  <2>4. events \in [Cpus -> Seq(Event)]
    BY <1>1 DEF ProfilerTypeOK, Event
  <2>5. events'[c] = <<[kind |-> "end", phase |-> phase']>> /\ \A d \in Cpus \ {c} : events'[d] = <<>>
    <3> DEFINE e == [kind |-> "end", phase |-> phase']
    <3>1. events' = [events EXCEPT ![c] = Append(@, e)]
      BY <1>2
    <3> HIDE DEF e
    <3>2. \A d \in Cpus : events'[d] = IF d = c THEN Append(<<>>, e) ELSE <<>>
      BY <2>2, <2>4, <3>1
    <3>3. Append(<<>>, e) = <<e>>
      BY OneAppended
    <3> QED
      BY <3>2, <3>3 DEF e
  <2>6. OneEvent("end")'
    BY <2>5 DEF OneEvent
  <2>7. \A t \in DOMAIN rwstat : ~rwstat[t].began
    BY <1>2, <1>4, <2>1 DEF Underway
  <2>8. AtEnd'
    BY <1>1, <1>2, <2>1, <2>3, <2>6, <2>7 DEF AtEnd, NobodyReads, Underway
  <2>9. Uncollected' = Uncollected
    BY <1>2, UncollectedSame
  <2> QED
    BY <1>2, <2>1, <2>8, <2>9
<1> QED
  BY <1>3, <1>4 DEF QuietInv

(* Steps that neither send nor take events.                                *)
LEMMA EventsSame ==
  ASSUME UNCHANGED <<events, phase>>
  PROVE  (NoEvent' <=> NoEvent) /\ \A k : OneEvent(k)' <=> OneEvent(k)
BY DEF NoEvent, OneEvent

(* A read that begins in the phase is recorded, others are not looked at.  *)
LEMMA EnterKeepsQuiet ==
  ASSUME ProfInv, NEW t \in Threads, sys_enter_read(t)
  PROVE  QuietInv' /\ QuietPhaseIsExact'
<1>1. ProfilerTypeOK
  BY DEF ProfInv, BaseInv
<1>2. /\ UNCHANGED <<gate, events, collector, lastStart, capture, todo, kept, total, last, phase,
                     happened, quiet>>
      /\ t \notin DOMAIN inRead /\ DOMAIN inRead' = DOMAIN inRead \cup {t}
      /\ \A u \in DOMAIN inRead : inRead'[u] = inRead[u]
      /\ inRead'[t] = IF gate THEN phase ELSE 0
      /\ ~gate => rwstat' = rwstat
  BY DEF sys_enter_read, collectorVars, recordVars
<1>3. QuietPhaseIsExact'
  BY <1>2 DEF ProfInv, QuietPhaseIsExact
<1>4. (NoEvent' <=> NoEvent) /\ (OneEvent("start")' <=> OneEvent("start"))
      /\ (OneEvent("end")' <=> OneEvent("end"))
  BY <1>2, EventsSame
<1>5. Uncollected' = Uncollected
  BY <1>1, EnterUncollected
<1>6. Recorded => Recorded'
  BY <1>2, <1>4 DEF Recorded
<1>7. AtEnd => AtEnd'
  BY <1>2, <1>4 DEF AtEnd, NobodyReads
<1>8. Captured => Captured'
  BY <1>2, <1>4 DEF Captured, NobodyReads
<1>9. ASSUME Underway PROVE Underway'
  <2>1. gate /\ rwstat' = WithEntry(t, Begun(t)) /\ Begun(t).began /\ Begun(t) \in Stat
    <3>1. Begun(t) \in Stat
      BY <1>1, EntryTypes DEF Begun, Entry, Stat, ProfilerTypeOK, Count
    <3> QED
      BY <1>9, <3>1 DEF Underway, sys_enter_read, Begun, Entry
  <2>2. /\ DOMAIN rwstat' = DOMAIN rwstat \cup {t}
        /\ \A u \in DOMAIN rwstat \cup {t} : rwstat'[u] = IF u = t THEN Begun(t) ELSE rwstat[u]
    BY <2>1 DEF WithEntry
  <2>3. ASSUME NEW u \in DOMAIN inRead', inRead'[u] = phase'
        PROVE  u \in DOMAIN rwstat' /\ rwstat'[u].began
    BY <1>2, <1>9, <2>1, <2>2, <2>3 DEF Underway
  <2>4. ASSUME NEW u \in DOMAIN rwstat', rwstat'[u].began
        PROVE  u \in DOMAIN inRead' /\ inRead'[u] = phase'
    BY <1>2, <1>9, <2>1, <2>2, <2>4 DEF Underway
  <2>5. OneEvent("start")' \/ (NoEvent' /\ lastStart' = phase')
    BY <1>2, <1>4, <1>9 DEF Underway
  <2> QED
    BY <1>2, <1>9, <2>3, <2>4, <2>5 DEF Underway
<1> QED
  BY <1>2, <1>3, <1>5, <1>6, <1>7, <1>8, <1>9 DEF ProfInv, QuietInv

(* A read is counted just if it happened within the phase.                 *)
LEMMA ExitKeepsQuiet ==
  ASSUME ProfInv, NEW t \in Threads, sys_exit_read(t)
  PROVE  QuietInv' /\ QuietPhaseIsExact'
<1>1. ProfilerTypeOK /\ BaseInv /\ CollectorInv /\ BegunInv
  BY DEF ProfInv, BaseInv
<1>2. /\ UNCHANGED <<gate, events, collector, lastStart, capture, todo, kept, total, last, phase, quiet>>
      /\ happened' = IF gate /\ inRead[t] = phase THEN happened + 1 ELSE happened
      /\ t \in DOMAIN inRead /\ DOMAIN inRead' = DOMAIN inRead \ {t}
      /\ \A u \in DOMAIN inRead' : inRead'[u] = inRead[u]
  BY DEF sys_exit_read, collectorVars, recordVars, Restrict
<1>3. QuietPhaseIsExact'
  BY <1>2 DEF ProfInv, QuietPhaseIsExact
<1>4. (NoEvent' <=> NoEvent) /\ (OneEvent("start")' <=> OneEvent("start"))
      /\ (OneEvent("end")' <=> OneEvent("end"))
  BY <1>2, EventsSame
<1> DEFINE counted == t \in DOMAIN rwstat /\ rwstat[t].began
<1>5. /\ DOMAIN rwstat' = DOMAIN rwstat
      /\ \A u \in DOMAIN rwstat :
           /\ rwstat'[u].began => u # t /\ rwstat[u].began
           /\ u # t => rwstat'[u] = rwstat[u]
      /\ Cardinality(Uncollected') \in Nat /\ Cardinality(Uncollected) \in Nat
      /\ ~counted => rwstat' = rwstat
      /\ Cardinality(Uncollected') =
           Cardinality(Uncollected) + IF counted /\ t \notin kept THEN 1 ELSE 0
  BY <1>1, ExitStat
<1>6. Recorded => Recorded'
  BY <1>2, <1>4, <1>5 DEF Recorded
<1>7. ASSUME AtEnd \/ Captured, total + Cardinality(Uncollected) = happened
      PROVE  (AtEnd' \/ Captured') /\ total' + Cardinality(Uncollected') = happened'
  <2>1. ~counted /\ ~gate
    BY <1>7 DEF AtEnd, Captured, NobodyReads
  <2>2. rwstat' = rwstat /\ happened' = happened
        /\ Cardinality(Uncollected') = Cardinality(Uncollected)
    BY <1>2, <1>5, <2>1
  <2>3. AtEnd => AtEnd'
    BY <1>2, <1>4, <2>2 DEF AtEnd, NobodyReads
  <2>4. Captured => Captured'
    BY <1>2, <1>4, <2>2 DEF Captured, NobodyReads
  <2> QED
    BY <1>2, <1>7, <2>2, <2>3, <2>4
<1>8. ASSUME Underway, total + Cardinality(Uncollected) = happened
      PROVE  Underway' /\ total' + Cardinality(Uncollected') = happened'
  <2>1. /\ gate /\ kept = {} /\ total = 0
        /\ counted <=> inRead[t] = phase
    BY <1>1, <1>2, <1>8 DEF Underway, CollectorInv
  <2>2. total' + Cardinality(Uncollected') = happened'
    BY <1>2, <1>5, <1>8, <2>1
  <2>3. ASSUME NEW u \in DOMAIN inRead', inRead'[u] = phase'
        PROVE  u \in DOMAIN rwstat' /\ rwstat'[u].began
    BY <1>2, <1>5, <1>8, <2>3 DEF Underway
  <2>4. ASSUME NEW u \in DOMAIN rwstat', rwstat'[u].began
        PROVE  u \in DOMAIN inRead' /\ inRead'[u] = phase'
    BY <1>2, <1>5, <1>8, <2>4 DEF Underway
  <2>5. OneEvent("start")' \/ (NoEvent' /\ lastStart' = phase')
    BY <1>2, <1>4, <1>8 DEF Underway
  <2>6. Underway'
    BY <1>2, <1>8, <2>3, <2>4, <2>5 DEF Underway
  <2> QED
    BY <2>2, <2>6
<1> QED
  BY <1>2, <1>3, <1>6, <1>7, <1>8 DEF ProfInv, QuietInv

(* A buffer with one event is empty when it is taken.                      *)
LEMMA OneTaken == ASSUME NEW e PROVE Head(<<e>>) = e /\ Tail(<<e>>) = <<>>
OBVIOUS

(* An event is handled: the start is noted, the end begins the capture.    *)
LEMMA EventKeepsQuiet ==
  ASSUME ProfInv, NEW c \in Cpus, on_phase_event(c)
  PROVE  QuietInv' /\ QuietPhaseIsExact'
<1>1. ProfilerTypeOK /\ CollectorInv
  BY DEF ProfInv, BaseInv
<1>2. /\ UNCHANGED <<gate, rwstat, inRead, kept, total, last, phase, happened, quiet>>
      /\ collector = "poll" /\ events[c] # <<>> /\ events' = [events EXCEPT ![c] = Tail(@)]
  BY DEF on_phase_event, recordVars, historyVars
<1>3. QuietPhaseIsExact'
  BY <1>2 DEF ProfInv, QuietPhaseIsExact
<1>4. Uncollected' = Uncollected
  BY <1>2, UncollectedSame
<1>5. ~NoEvent
  BY <1>2 DEF NoEvent
<1>6. \A kind : OneEvent(kind) =>
        NoEvent' /\ Head(events[c]).kind = kind /\ Head(events[c]).phase = phase
  <2> SUFFICES ASSUME NEW kind, OneEvent(kind)
               PROVE  NoEvent' /\ Head(events[c]).kind = kind /\ Head(events[c]).phase = phase
    OBVIOUS
  <2> DEFINE e == [kind |-> kind, phase |-> phase]
  <2>1. events[c] = <<e>> /\ \A d \in Cpus \ {c} : events[d] = <<>>
    BY <1>2 DEF OneEvent
  <2>2. events \in [Cpus -> Seq(Event)]
    BY <1>1 DEF ProfilerTypeOK, Event
  <2>3. Head(<<e>>) = e /\ Tail(<<e>>) = <<>>
    <3> HIDE DEF e
    <3> QED
      BY OneTaken
  <2>4. \A d \in Cpus : events'[d] = <<>>
    BY <1>2, <2>1, <2>2, <2>3
  <2> QED
    BY <2>1, <2>3, <2>4 DEF NoEvent
<1>7. ASSUME Underway PROVE Underway'
  <2>1. OneEvent("start")
    BY <1>5, <1>7 DEF Underway
  <2>2. NoEvent' /\ lastStart' = phase /\ collector' = collector
    BY <1>6, <2>1 DEF on_phase_event
  <2> QED
    BY <1>2, <1>7, <2>2 DEF Underway
<1>8. ASSUME AtEnd PROVE Captured'
  <2>1. OneEvent("end") /\ lastStart = phase /\ phase # 0
    BY <1>8 DEF AtEnd
  <2>2. /\ NoEvent' /\ collector' = "sum" /\ todo' = DOMAIN rwstat
        /\ capture' = [phase |-> phase, start |-> phase]
    BY <1>6, <2>1 DEF on_phase_event
  <2>3. kept = {}
    BY <1>1, <1>2 DEF CollectorInv
  <2> QED
    BY <1>2, <1>8, <2>2, <2>3 DEF AtEnd, Captured, NobodyReads
<1>9. ~Captured /\ ~Recorded
  BY <1>2, <1>5 DEF Captured, Recorded
<1> QED
  BY <1>2, <1>3, <1>4, <1>7, <1>8, <1>9 DEF ProfInv, QuietInv

(* The captured phase's keys are read out one by one.                      *)
LEMMA SumKeepsQuiet ==
  ASSUME ProfInv, NEW t \in Threads, SumKey(t)
  PROVE  QuietInv' /\ QuietPhaseIsExact'
<1>1. BaseInv /\ CountedInv
  BY DEF ProfInv, BaseInv
<1>2. /\ UNCHANGED <<gate, events, rwstat, inRead, collector, lastStart, capture, last, phase,
                     happened, quiet>>
      /\ collector = "sum" /\ todo' = todo \ {t} /\ kept' = kept \cup {t}
  BY DEF SumKey, kernelVars, recordVars, historyVars
<1>3. QuietPhaseIsExact'
  BY <1>2 DEF ProfInv, QuietPhaseIsExact
<1>4. total \in Nat /\ total' + Cardinality(Uncollected') = total + Cardinality(Uncollected)
  <2>1. /\ Count(t) \in Nat /\ total' = total + Count(t)
        /\ Cardinality(Uncollected) \in Nat /\ Cardinality(Uncollected') \in Nat
        /\ Cardinality(Uncollected) = Cardinality(Uncollected') + Count(t)
    BY <1>1, SumFacts
  <2>2. total \in Nat
    BY <1>1 DEF CountedInv
  <2> QED
    BY <2>1, <2>2
<1>5. NoEvent' <=> NoEvent
  BY <1>2, EventsSame
<1>6. Captured => Captured'
  BY <1>2, <1>5 DEF Captured, NobodyReads
<1>7. ~Underway /\ ~AtEnd /\ ~Recorded
  BY <1>2 DEF Underway, AtEnd, Recorded
<1> QED
  BY <1>2, <1>3, <1>4, <1>6, <1>7 DEF ProfInv, QuietInv

(* All keys have been read out when the loop ends.                         *)
LEMMA SumDoneKeepsQuiet ==
  ASSUME ProfInv, SumDone
  PROVE  QuietInv' /\ QuietPhaseIsExact'
<1>1. ProfilerTypeOK
  BY DEF ProfInv, BaseInv
<1>2. /\ UNCHANGED <<gate, events, rwstat, inRead, lastStart, capture, todo, kept, total, last,
                     phase, happened, quiet>>
      /\ collector = "sum" /\ todo = {} /\ collector' = "delete"
  BY DEF SumDone, kernelVars, recordVars, historyVars
<1>3. QuietPhaseIsExact'
  BY <1>2 DEF ProfInv, QuietPhaseIsExact
<1>4. Uncollected' = Uncollected
  BY <1>2, UncollectedSame
<1>5. NoEvent' <=> NoEvent
  BY <1>2, EventsSame
<1>6. ASSUME Captured PROVE Captured'
  <2>1. kept = DOMAIN rwstat
    BY <1>1, <1>2, <1>6 DEF Captured, ProfilerTypeOK
  <2> QED
    BY <1>2, <1>5, <1>6, <2>1 DEF Captured, NobodyReads
<1>7. ~Underway /\ ~AtEnd /\ ~Recorded
  BY <1>2 DEF Underway, AtEnd, Recorded
<1> QED
  BY <1>2, <1>3, <1>4, <1>6, <1>7 DEF ProfInv, QuietInv

(* The keys read out are deleted one by one.                               *)
LEMMA DeleteKeepsQuiet ==
  ASSUME ProfInv, NEW t \in Threads, DeleteKey(t)
  PROVE  QuietInv' /\ QuietPhaseIsExact'
<1>1. /\ UNCHANGED <<gate, events, inRead, collector, lastStart, capture, todo, total, last,
                     phase, happened, quiet>>
      /\ collector = "delete"
  BY DEF DeleteKey, recordVars, historyVars
<1>2. /\ DOMAIN rwstat' = DOMAIN rwstat \ {t} /\ kept' = kept \ {t}
      /\ \A u \in DOMAIN rwstat' : rwstat'[u] = rwstat[u]
      /\ Uncollected' = Uncollected
  BY DeleteFacts DEF ProfInv
<1>3. QuietPhaseIsExact'
  BY <1>1 DEF ProfInv, QuietPhaseIsExact
<1>4. NoEvent' <=> NoEvent
  BY <1>1, EventsSame
<1>5. Captured => Captured'
  BY <1>1, <1>2, <1>4 DEF Captured, NobodyReads
<1>6. ~Underway /\ ~AtEnd /\ ~Recorded
  BY <1>1 DEF Underway, AtEnd, Recorded
<1> QED
  BY <1>1, <1>2, <1>3, <1>5, <1>6 DEF ProfInv, QuietInv

(* The record of an undisturbed phase is exact.                            *)
LEMMA AppendKeepsQuiet ==
  ASSUME ProfInv, AppendRecord
  PROVE  QuietInv' /\ QuietPhaseIsExact'
<1>1. CountedInv
  BY DEF ProfInv, BaseInv
<1>2. /\ UNCHANGED <<gate, events, rwstat, inRead, lastStart, todo, kept, phase, happened, quiet>>
      /\ collector = "delete" /\ kept = {} /\ collector' = "poll"
      /\ last' = [phase |-> capture.phase, start |-> capture.start, reads |-> total,
                  exact |-> quiet /\ capture.phase = phase, happened |-> happened]
  BY DEF AppendRecord, kernelVars, historyVars
<1>3. ASSUME quiet
      PROVE  /\ Captured /\ DOMAIN rwstat = {}
             /\ total + Cardinality(Uncollected) = happened
  <2>1. Captured /\ total + Cardinality(Uncollected) = happened
    BY <1>2, <1>3 DEF ProfInv, QuietInv, Underway, AtEnd, Recorded
  <2>2. DOMAIN rwstat = {}
    BY <1>2, <2>1 DEF Captured
  <2> QED
    BY <2>1, <2>2
<1>4. NoEvent' <=> NoEvent
  BY <1>2, EventsSame
<1>5. QuietInv'
  <2> SUFFICES ASSUME quiet' PROVE Recorded'
    BY DEF QuietInv
  <2> QED
    BY <1>2, <1>3, <1>4 DEF Captured, NobodyReads, Recorded
<1>6. QuietPhaseIsExact'
  <2> SUFFICES ASSUME quiet PROVE last'.start = last'.phase /\ last'.reads = last'.happened
    BY <1>2 DEF QuietPhaseIsExact
  <2>1. Uncollected = ReadsOf(rwstat, {})
    BY <1>2, <1>3 DEF Uncollected
  <2>2. total = happened
    BY <1>1, <1>3, <2>1, NoReads DEF CountedInv
  <2>3. capture.start = capture.phase
    BY <1>3 DEF Captured
  <2> QED
    BY <1>2, <2>2, <2>3
<1> QED
  BY <1>5, <1>6

(* Steps that leave the profiler alone.                                    *)
LEMMA StutterKeepsQuiet ==
  ASSUME ProfInv, UNCHANGED profVars
  PROVE  QuietInv' /\ QuietPhaseIsExact'
<1>1. UNCHANGED <<gate, events, rwstat, inRead, collector, lastStart, capture, todo, kept, total,
                  reported, last, phase, reads, happened, quiet>>
  BY DEF profVars, kernelVars, collectorVars, recordVars, historyVars
<1>2. Uncollected' = Uncollected
  BY <1>1, UncollectedSame
<1>3. (NoEvent' <=> NoEvent) /\ (OneEvent("start")' <=> OneEvent("start"))
      /\ (OneEvent("end")' <=> OneEvent("end"))
  BY <1>1, EventsSame
<1>4. /\ Underway => Underway'
      /\ AtEnd => AtEnd'
      /\ Captured => Captured'
      /\ Recorded => Recorded'
  BY <1>1, <1>3 DEF Underway, AtEnd, Captured, Recorded, NobodyReads
<1> QED
  BY <1>1, <1>2, <1>4 DEF ProfInv, QuietInv, QuietPhaseIsExact

-----------------------------------------------------------------------------
(* A generation under the profiler.                                        *)

(* Initially nothing is counted.                                           *)
LEMMA ProfInvInit == ProfiledInit => ProfInv /\ GateInv
<1> SUFFICES ASSUME ProfilerInit, pc = "prepare" PROVE ProfInv /\ GateInv
  BY DEF ProfiledInit, GenerationInit
<1> USE DEF ProfilerInit
<1>1. DOMAIN rwstat = {} /\ DOMAIN inRead = {}
  OBVIOUS
<1>2. events \in [Cpus -> Seq([kind : {"start", "end"}, phase : Nat])] /\ EventsInv
  BY DEF EventsInv
<1>3. ProfilerTypeOK
  <2>1. gate \in BOOLEAN /\ quiet \in BOOLEAN
    OBVIOUS
  <2>2. capture \in [phase : 0 .. phase, start : 0 .. phase] /\ lastStart \in 0 .. phase
    BY DEF NoCapture
  <2>3. \A t : t \notin DOMAIN rwstat /\ t \notin DOMAIN inRead
    BY <1>1
  <2>4. collector \in {"poll", "sum", "delete"} /\ todo = {} /\ kept = {}
    OBVIOUS
  <2> HIDE DEF ProfilerInit
  <2> QED
    BY <1>2, <2>1, <2>2, <2>3, <2>4 DEF ProfilerTypeOK
<1>4. CollectorInv /\ BegunInv
  BY <1>1 DEF CollectorInv, BegunInv
<1>5. Uncollected = ReadsOf(rwstat, {})
  BY <1>1 DEF Uncollected
<1>6. CountedInv
  BY <1>5, NoReads DEF CountedInv
<1>7. QuietInv /\ QuietPhaseIsExact /\ GateInv
  BY DEF QuietInv, QuietPhaseIsExact, NoRecord, GateInv, InScope
<1> QED
  BY <1>2, <1>3, <1>4, <1>6, <1>7 DEF ProfInv, BaseInv

(* Every step keeps the invariant.                                         *)
LEMMA ProfInvStep ==
  ProfInv /\ GateInv /\ [ProfiledNext]_allVars => ProfInv' /\ GateInv'
<1> SUFFICES ASSUME ProfInv, GateInv, [ProfiledNext]_allVars PROVE ProfInv' /\ GateInv'
  OBVIOUS
<1>b. BaseInv
  BY DEF ProfInv
<1>1. ASSUME EnterScope PROVE ProfInv' /\ GateInv'
  <2>1. PICK c \in Cpus : trace_phase_start(c)
    BY <1>1 DEF EnterScope
  <2>2. GateInv'
    BY <1>1, <2>1
       DEF EnterScope, ScopeEntered, EnterSetUp, EnterPrefill, EnterDecode, GateInv, InScope,
           trace_phase_start
  <2> QED
    BY <1>b, <2>1, <2>2, StartKeepsBase, StartKeepsQuiet DEF ProfInv
<1>2. ASSUME LeaveScope PROVE ProfInv' /\ GateInv'
  <2>1. PICK c \in Cpus : trace_phase_end(c)
    BY <1>2 DEF LeaveScope
  <2>2. gate
    BY <1>2 DEF LeaveScope, ScopeLeft, LeaveSetUp, LeavePrefill, LeaveDecode, GateInv, InScope
  <2>3. pc' \in {"prepare", "ready", "loop", "aborted", "off"}
    BY <1>2 DEF LeaveScope, ScopeLeft, LeaveSetUp, LeavePrefill, LeaveDecode
  <2>4. GateInv'
    BY <2>1, <2>3 DEF GateInv, InScope, trace_phase_end
  <2> QED
    BY <1>b, <2>1, <2>2, <2>4, EndKeepsBase, EndKeepsQuiet DEF ProfInv
<1>3. ASSUME RunProgram PROVE ProfInv' /\ GateInv'
  <2>1. UNCHANGED profVars /\ gate' = gate
    BY <1>3 DEF RunProgram, profVars, kernelVars
  <2>2. GateInv'
    BY <1>3, <2>1 DEF RunProgram, OtherStep, GetPrefillRunner, CheckFails, EndDecoding,
       InvokePrefill, InvokeDecode, GateInv, InScope
  <2> QED
    BY <1>b, <2>1, <2>2, StutterKeepsBase, StutterKeepsQuiet DEF ProfInv
<1>4. ASSUME RunThreads PROVE ProfInv' /\ GateInv'
  <2>1. PICK t \in Threads : sys_enter_read(t) \/ sys_exit_read(t)
    BY <1>4 DEF RunThreads, ThreadStep
  <2>2. GateInv'
    BY <1>4, <2>1 DEF RunThreads, genVars, GateInv, InScope, sys_enter_read, sys_exit_read
  <2> QED
    BY <1>b, <2>1, <2>2, EnterKeepsBase, EnterKeepsQuiet, ExitKeepsBase, ExitKeepsQuiet DEF ProfInv
<1>5. ASSUME Collect PROVE ProfInv' /\ GateInv'
  <2>1. pc' = pc /\ CollectorStep
    BY <1>5 DEF Collect, genVars
  <2>2. ASSUME NEW c \in Cpus, on_phase_event(c) PROVE ProfInv' /\ GateInv'
    <3>1. GateInv'
      BY <2>1, <2>2 DEF GateInv, InScope, on_phase_event
    <3> QED
      BY <1>b, <2>2, <3>1, EventKeepsBase, EventKeepsQuiet DEF ProfInv
  <2>3. ASSUME NEW t \in Threads, SumKey(t) PROVE ProfInv' /\ GateInv'
    <3>1. GateInv'
      BY <2>1, <2>3 DEF GateInv, InScope, SumKey, kernelVars
    <3> QED
      BY <1>b, <2>3, <3>1, SumKeepsBase, SumKeepsQuiet DEF ProfInv
  <2>4. ASSUME NEW t \in Threads, DeleteKey(t) PROVE ProfInv' /\ GateInv'
    <3>1. GateInv'
      BY <2>1, <2>4 DEF GateInv, InScope, DeleteKey
    <3> QED
      BY <1>b, <2>4, <3>1, DeleteKeepsBase, DeleteKeepsQuiet DEF ProfInv
  <2>5. ASSUME SumDone PROVE ProfInv' /\ GateInv'
    <3>1. GateInv'
      BY <2>1, <2>5 DEF GateInv, InScope, SumDone, kernelVars
    <3> QED
      BY <1>b, <2>5, <3>1, SumDoneKeepsBase, SumDoneKeepsQuiet DEF ProfInv
  <2>6. ASSUME AppendRecord PROVE ProfInv' /\ GateInv'
    <3>1. GateInv'
      BY <2>1, <2>6 DEF GateInv, InScope, AppendRecord, kernelVars
    <3> QED
      BY <1>b, <2>6, <3>1, AppendKeepsBase, AppendKeepsQuiet DEF ProfInv
  <2> QED
    BY <2>1, <2>2, <2>3, <2>4, <2>5, <2>6 DEF CollectorStep
<1>6. ASSUME UNCHANGED allVars PROVE ProfInv' /\ GateInv'
  <2>1. UNCHANGED profVars /\ gate' = gate /\ pc' = pc
    BY <1>6 DEF allVars, genVars, profVars, kernelVars
  <2>2. GateInv'
    BY <2>1 DEF GateInv, InScope
  <2> QED
    BY <1>b, <2>1, <2>2, StutterKeepsBase, StutterKeepsQuiet DEF ProfInv
<1> QED
  BY <1>1, <1>2, <1>3, <1>4, <1>5, <1>6 DEF ProfiledNext, Finished

(* The invariant holds for all behaviours.                                 *)
LEMMA ProfAlways == ProfiledSpec => [](ProfInv /\ GateInv)
BY ProfInvInit, ProfInvStep, PTL DEF ProfiledSpec

-----------------------------------------------------------------------------
(* The generation.                                                         *)

Looping == pc \in {"loop", "decode", "sampled"}

(* What a slot of the cache must hold.                                     *)
TextAt(p) == IF p < PrefillSeqSize THEN prompt[p + 1] ELSE output[p + 1 - PrefillSeqSize]

CacheHolds(n) ==
  /\ DOMAIN cache = 0 .. n - 1
  /\ \A p \in 0 .. n - 1 : cache[p] = TextAt(p)

Chosen ==
  pc # "aborted" =>
    /\ IF pc \in {"prepare", "setUp"} THEN setUp < SetUpScopes ELSE setUp = SetUpScopes
    /\ setUp >= SetUpScopes - 1 => maxSeqSize \in SeqSizes

Untouched == pc \in {"prepare", "setUp", "ready", "prefill", "prefilled"} => output = <<>> /\ step = 0

Prefilled == pc = "prefilled" => CacheHolds(PrefillSeqSize - 1)

Counters ==
  Looping =>
    /\ step = Len(output)
    /\ nextPosition = PrefillSeqSize - 1 + step
    /\ decodeSteps <= KvCacheMax - PrefillSeqSize
    /\ step <= decodeSteps
    /\ pc # "loop" => step < decodeSteps

Fed ==
  /\ Looping => nextToken \in Tokens
  /\ pc \in {"loop", "decode"} => CacheHolds(nextPosition) /\ nextToken = TextAt(nextPosition)
  /\ pc = "sampled" => CacheHolds(nextPosition + 1)

InSlots == DOMAIN cache \subseteq Slots

(* The inductive invariant.                                                *)
GenInv ==
  /\ GenerationTypeOK
  /\ Chosen /\ Untouched /\ Prefilled /\ Counters /\ Fed /\ InSlots

USE GenerationAssumption DEF GenerationAssumption

(* The used part of the prompt is neither empty nor longer than the cache  *)
(* or the prompt.                                                          *)
LEMMA UsedPrompt ==
  ASSUME GenerationTypeOK, maxSeqSize \in SeqSizes
  PROVE  /\ PrefillSeqSize \in 1 .. KvCacheMax
         /\ PrefillSeqSize <= Len(prompt)
         /\ prompt \in Seq(Tokens) /\ Len(prompt) \in Nat \ {0}
<1>1. prompt \in Seq(Tokens) /\ prompt # <<>>
  BY DEF GenerationTypeOK
<1>2. Len(prompt) \in Nat \ {0}
  BY <1>1
<1>3. maxSeqSize \in 1 .. KvCacheMax
  OBVIOUS
<1> QED
  BY <1>1, <1>2, <1>3 DEF PrefillSeqSize

(* The text's length, and its tokens one by one.                           *)
LEMMA TextTokens ==
  ASSUME GenerationTypeOK, maxSeqSize \in SeqSizes
  PROVE  /\ Len(Text) = PrefillSeqSize + Len(output)
         /\ \A p \in 0 .. Len(Text) - 1 : Text[p + 1] = TextAt(p)
<1> DEFINE used == SubSeq(prompt, 1, PrefillSeqSize)
<1>1. /\ PrefillSeqSize \in Nat \ {0} /\ PrefillSeqSize <= Len(prompt)
      /\ prompt \in Seq(Tokens)
  BY UsedPrompt
<1>2. output \in Seq(Tokens)
  BY DEF GenerationTypeOK
<1>3. /\ used \in Seq(Tokens) /\ Len(used) = PrefillSeqSize
      /\ \A i \in 1 .. PrefillSeqSize : used[i] = prompt[i]
  BY <1>1
<1> HIDE DEF used
<1>4. /\ Len(used \o output) = PrefillSeqSize + Len(output)
      /\ \A i \in 1 .. Len(used \o output) :
           (used \o output)[i] = IF i <= PrefillSeqSize THEN used[i] ELSE output[i - PrefillSeqSize]
  BY <1>1, <1>2, <1>3
<1>5. Text = used \o output
  BY DEF Text, used
<1>6. ASSUME NEW p \in 0 .. Len(Text) - 1
      PROVE  Text[p + 1] = TextAt(p)
  <2>1. p \in Nat /\ p + 1 \in 1 .. Len(used \o output)
    BY <1>2, <1>1, <1>4, <1>5
  <2> DEFINE q == p + 1
  <2>a. q \in 1 .. Len(used \o output)
    BY <2>1
  <2> HIDE DEF q
  <2>b. (used \o output)[q] = IF q <= PrefillSeqSize THEN used[q] ELSE output[q - PrefillSeqSize]
    BY ONLY <2>a, <1>4
  <2>2. Text[p + 1] = IF p + 1 <= PrefillSeqSize THEN used[p + 1]
                      ELSE output[p + 1 - PrefillSeqSize]
    <3>1. Text[q] = (used \o output)[q]
      BY <1>5
    <3> QED
      BY <2>1, <2>b, <3>1, <1>1, <1>2 DEF q
  <2>3. p + 1 <= PrefillSeqSize <=> p < PrefillSeqSize
    BY <2>1, <1>1
  <2>4. p < PrefillSeqSize => used[p + 1] = prompt[p + 1]
    BY <2>1, <1>1, <1>3
  <2> QED
    BY <2>2, <2>3, <2>4 DEF TextAt
<1> QED
  BY <1>4, <1>5, <1>6

(* Steps that leave the input and the output alone move nothing in the     *)
(* text.                                                                   *)
LEMMA SameText ==
  ASSUME UNCHANGED <<inputVars, output>>
  PROVE  PrefillSeqSize' = PrefillSeqSize /\ \A p : TextAt(p)' = TextAt(p)
BY DEF inputVars, PrefillSeqSize, TextAt

(* The invariant of the generation holds initially.                        *)
LEMMA GenInit == GenerationInit => GenInv
BY DEF GenerationInit, GenInv, GenerationTypeOK, Chosen, Untouched, Prefilled, Counters, Fed,
       InSlots, Looping

(* The scopes of the set-up, in which a signature is chosen.               *)
LEMMA StepSetUp ==
  ASSUME GenInv, EnterSetUp \/ LeaveSetUp \/ \E s \in SeqSizes : GetPrefillRunner(s)
  PROVE  GenInv'
<1> USE DEF GenInv, GenerationTypeOK, Chosen, Untouched, Prefilled, Counters, Fed, InSlots,
            Looping, loopVars, inputVars
<1>1. CASE EnterSetUp
  BY <1>1 DEF EnterSetUp
<1>2. CASE LeaveSetUp
  <2>1. setUp' \in 0 .. SetUpScopes /\ (setUp' >= SetUpScopes - 1 => maxSeqSize \in SeqSizes)
    <3>1. setUp \in Nat /\ setUp < SetUpScopes /\ setUp' = setUp + 1 /\ maxSeqSize \in SeqSizes \cup {0}
      BY <1>2 DEF LeaveSetUp
    <3>2. setUp = SetUpScopes - 2 => maxSeqSize \in SeqSizes
      BY <1>2, <3>1 DEF LeaveSetUp, InPrepareSignatureRunners
    <3>3. setUp >= SetUpScopes - 1 => maxSeqSize \in SeqSizes
      BY <1>2 DEF LeaveSetUp
    <3> QED
      BY ONLY <3>1, <3>2, <3>3, GenerationAssumption DEF GenerationAssumption
  <2> QED
    BY <1>2, <2>1 DEF LeaveSetUp
<1>3. ASSUME NEW s \in SeqSizes, GetPrefillRunner(s) PROVE GenInv'
  BY <1>3 DEF GetPrefillRunner, InPrepareSignatureRunners, IsBest, Candidates
<1> QED
  BY <1>1, <1>2, <1>3

(* The program exits.                                                      *)
LEMMA StepCheckFails ==
  ASSUME GenInv, CheckFails
  PROVE  GenInv'
BY DEF GenInv, CheckFails, GenerationTypeOK, Chosen, Untouched, Prefilled, Counters, Fed,
       InSlots, Looping, inputVars, loopVars

(* The prefill scope is entered.                                           *)
LEMMA StepEnterPrefill ==
  ASSUME GenInv, EnterPrefill
  PROVE  GenInv'
BY DEF GenInv, EnterPrefill, GenerationTypeOK, Chosen, Untouched, Prefilled, Counters, Fed,
       InSlots, Looping, inputVars, loopVars

(* The prefill fills the cache.                                            *)
LEMMA StepInvokePrefill ==
  ASSUME GenInv, InvokePrefill
  PROVE  GenInv'
<1>1. maxSeqSize \in SeqSizes
  BY DEF GenInv, Chosen, InvokePrefill
<1>2. /\ PrefillSeqSize \in 1 .. KvCacheMax /\ PrefillSeqSize <= Len(prompt)
      /\ prompt \in Seq(Tokens) /\ Len(prompt) \in Nat
  BY <1>1, UsedPrompt DEF GenInv
<1>3. PrefillSeqSize' = PrefillSeqSize /\ \A p : TextAt(p)' = TextAt(p)
  BY SameText DEF InvokePrefill, inputVars
<1>4. /\ DOMAIN cache' = 0 .. PrefillSeqSize - 2
      /\ \A p \in 0 .. PrefillSeqSize - 2 : cache'[p] = prompt[p + 1]
  BY DEF InvokePrefill
<1>5. \A p \in 0 .. PrefillSeqSize - 2 : prompt[p + 1] \in Tokens /\ TextAt(p) = prompt[p + 1]
  BY <1>2 DEF TextAt
<1>6. GenerationTypeOK'
  BY <1>2, <1>4, <1>5 DEF GenInv, GenerationTypeOK, InvokePrefill, inputVars, loopVars
<1>7. CacheHolds(PrefillSeqSize - 1)'
  BY <1>2, <1>3, <1>4, <1>5 DEF CacheHolds
<1>8. InSlots'
  BY <1>2, <1>4 DEF InSlots, Slots
<1> QED
  BY <1>6, <1>7, <1>8
     DEF GenInv, InvokePrefill, Chosen, Untouched, Prefilled, Counters, Fed, Looping, inputVars,
         loopVars

(* The loop is set up.                                                     *)
LEMMA StepLeavePrefill ==
  ASSUME GenInv, LeavePrefill
  PROVE  GenInv'
<1>1. maxSeqSize \in SeqSizes
  BY DEF GenInv, Chosen, LeavePrefill
<1>2. /\ PrefillSeqSize \in 1 .. KvCacheMax /\ PrefillSeqSize <= Len(prompt)
      /\ prompt \in Seq(Tokens) /\ Len(prompt) \in Nat
  BY <1>1, UsedPrompt DEF GenInv
<1>3. PrefillSeqSize' = PrefillSeqSize /\ \A p : TextAt(p)' = TextAt(p)
  BY SameText DEF LeavePrefill, inputVars
<1>4. output = <<>> /\ step = 0 /\ CacheHolds(PrefillSeqSize - 1)
  BY DEF GenInv, LeavePrefill, Untouched, Prefilled
<1>5. /\ nextPosition' = PrefillSeqSize - 1 /\ nextPosition' \in Nat
      /\ nextToken' = TextAt(nextPosition') /\ nextToken' \in Tokens
  BY <1>2 DEF LeavePrefill, TextAt
<1>6. StepsLeft \in Int /\ StepsLeft <= KvCacheMax - PrefillSeqSize
  BY <1>2 DEF StepsLeft, AtMost, MaxDecodeSteps, GenInv, GenerationTypeOK
<1>7. GenerationTypeOK'
  BY <1>4, <1>5, <1>6 DEF GenInv, GenerationTypeOK, LeavePrefill, inputVars
<1>8. Counters'
  BY <1>2, <1>3, <1>4, <1>5, <1>6 DEF Counters, Looping, LeavePrefill
<1>9. Fed'
  <2>1. CacheHolds(nextPosition)'
    BY <1>2, <1>3, <1>4, <1>5 DEF CacheHolds, LeavePrefill
  <2>2. nextToken' = TextAt(nextPosition)'
    BY <1>5, <1>3 DEF TextAt
  <2> QED
    BY <2>1, <2>2, <1>5 DEF Fed, LeavePrefill
<1> QED
  BY <1>7, <1>8, <1>9
     DEF GenInv, LeavePrefill, Chosen, Untouched, Prefilled, InSlots, inputVars

(* A decode scope is entered.                                              *)
LEMMA StepEnterDecode ==
  ASSUME GenInv, EnterDecode
  PROVE  GenInv'
<1>1. PrefillSeqSize' = PrefillSeqSize /\ \A p : TextAt(p)' = TextAt(p)
  BY SameText DEF EnterDecode, inputVars
<1>2. GenerationTypeOK'
  BY DEF GenInv, GenerationTypeOK, EnterDecode, inputVars, loopVars
<1>3. Counters'
  BY <1>1 DEF GenInv, Counters, Looping, EnterDecode, loopVars
<1>4. Fed'
  <2>1. CacheHolds(nextPosition)' <=> CacheHolds(nextPosition)
    BY <1>1 DEF CacheHolds, EnterDecode, loopVars
  <2>2. TextAt(nextPosition)' = TextAt(nextPosition)
    BY DEF TextAt, PrefillSeqSize, EnterDecode, loopVars, inputVars
  <2> QED
    BY <2>1, <2>2 DEF GenInv, Fed, Looping, EnterDecode, loopVars
<1> QED
  BY <1>2, <1>3, <1>4
     DEF GenInv, EnterDecode, Chosen, Untouched, Prefilled, InSlots, inputVars, loopVars

(* A decoding step fills one slot.                                         *)
LEMMA StepInvokeDecode ==
  ASSUME GenInv, NEW t \in Tokens, InvokeDecode(t)
  PROVE  GenInv'
<1>1. PrefillSeqSize' = PrefillSeqSize /\ \A p : TextAt(p)' = TextAt(p)
  BY SameText DEF InvokeDecode, inputVars
<1>2. maxSeqSize \in SeqSizes
  BY DEF GenInv, Chosen, InvokeDecode
<1>3. PrefillSeqSize \in 1 .. KvCacheMax
  BY <1>2, UsedPrompt DEF GenInv
<1>4. /\ nextPosition \in Nat /\ decodeSteps \in Int /\ step \in Nat
      /\ nextPosition = PrefillSeqSize - 1 + step /\ step < decodeSteps
      /\ decodeSteps <= KvCacheMax - PrefillSeqSize
      /\ CacheHolds(nextPosition) /\ nextToken = TextAt(nextPosition)
  BY DEF GenInv, GenerationTypeOK, Counters, Looping, Fed, InvokeDecode
<1>5. nextToken \in Tokens \cup {0}
  BY DEF GenInv, GenerationTypeOK
<1>6. /\ DOMAIN cache' = 0 .. nextPosition
      /\ \A p \in 0 .. nextPosition : cache'[p] = TextAt(p)
  BY <1>4 DEF CacheHolds, InvokeDecode
<1>7. CacheHolds(nextPosition + 1)'
  BY <1>1, <1>4, <1>6 DEF CacheHolds, InvokeDecode
<1>8. nextToken \in Tokens
  BY DEF GenInv, InvokeDecode, Fed, Looping
<1>9. GenerationTypeOK'
  BY <1>4, <1>6, <1>8 DEF GenInv, GenerationTypeOK, InvokeDecode, CacheHolds, inputVars
<1>10. InSlots'
  BY <1>3, <1>4, <1>6 DEF InSlots, Slots
<1>11. Counters'
  BY <1>1 DEF GenInv, Counters, Looping, InvokeDecode
<1> QED
  BY <1>7, <1>9, <1>10, <1>11
     DEF GenInv, InvokeDecode, Chosen, Untouched, Prefilled, Fed, inputVars, Looping

(* The sampled token is appended, or ends the text.                        *)
LEMMA StepLeaveDecode ==
  ASSUME GenInv, LeaveDecode
  PROVE  GenInv'
<1>1. PrefillSeqSize' = PrefillSeqSize /\ prompt' = prompt
  BY DEF PrefillSeqSize, LeaveDecode, inputVars
<1>2. maxSeqSize \in SeqSizes
  BY DEF GenInv, Chosen, LeaveDecode
<1>3. PrefillSeqSize \in 1 .. KvCacheMax
  BY <1>2, UsedPrompt DEF GenInv
<1>4. /\ nextPosition \in Nat /\ decodeSteps \in Int /\ step \in Nat
      /\ step = Len(output)
      /\ nextPosition = PrefillSeqSize - 1 + step /\ step < decodeSteps
      /\ decodeSteps <= KvCacheMax - PrefillSeqSize
      /\ output \in Seq(Tokens) /\ nextToken \in Tokens
      /\ CacheHolds(nextPosition + 1)
  BY DEF GenInv, GenerationTypeOK, Counters, Looping, Fed, LeaveDecode
<1>5. CASE nextToken = StopToken
  <2>1. GenerationTypeOK'
    BY <1>5 DEF GenInv, GenerationTypeOK, LeaveDecode, inputVars
  <2> QED
    BY <2>1, <1>5
       DEF GenInv, LeaveDecode, Chosen, Untouched, Prefilled, Counters, Fed, InSlots, Looping,
           inputVars
<1>6. CASE nextToken # StopToken
  <2>1. /\ output' = Append(output, nextToken) /\ nextPosition' = nextPosition + 1
        /\ step' = step + 1 /\ pc' = "loop" /\ nextToken' = nextToken
        /\ decodeSteps' = decodeSteps /\ cache' = cache
    BY <1>6 DEF LeaveDecode
  <2>2. /\ output' \in Seq(Tokens) /\ Len(output') = step + 1
        /\ output'[step + 1] = nextToken
        /\ \A i \in 1 .. step : output'[i] = output[i]
    BY <1>4, <2>1
  <2>3. GenerationTypeOK'
    BY <1>4, <2>1, <2>2 DEF GenInv, GenerationTypeOK, LeaveDecode, inputVars
  <2>4. Counters'
    <3>1. PrefillSeqSize \in Nat /\ KvCacheMax \in Nat
      BY <1>3
    <3>2. /\ step' = Len(output') /\ step' <= decodeSteps'
          /\ nextPosition' = PrefillSeqSize' - 1 + step'
          /\ decodeSteps' <= KvCacheMax - PrefillSeqSize'
      BY ONLY <1>1, <1>4, <2>1, <2>2, <3>1
    <3> QED
      BY ONLY <3>2, <2>1 DEF Counters
  <2>5. ASSUME NEW p \in 0 .. nextPosition
        PROVE  TextAt(p)' = TextAt(p)
    <3>1. p < PrefillSeqSize \/ p + 1 - PrefillSeqSize \in 1 .. step
      BY <1>3, <1>4
    <3>2. p + 1 - PrefillSeqSize \in 1 .. step =>
            output'[p + 1 - PrefillSeqSize] = output[p + 1 - PrefillSeqSize]
      BY <2>2
    <3> QED
      BY <3>1, <3>2, <1>1 DEF TextAt
  <2>6. CacheHolds(nextPosition)'
    BY <1>4, <2>1, <2>5 DEF CacheHolds
  <2>7. TextAt(nextPosition)' = nextToken
    <3>1. /\ ~(nextPosition' < PrefillSeqSize') /\ nextPosition' + 1 - PrefillSeqSize' = step + 1
      BY <1>1, <1>3, <1>4, <2>1
    <3> QED
      BY <3>1, <2>2 DEF TextAt
  <2>8. Fed'
    BY <1>4, <2>1, <2>6, <2>7 DEF Fed, Looping
  <2> QED
    BY <2>1, <2>3, <2>4, <2>8
       DEF GenInv, LeaveDecode, Chosen, Untouched, Prefilled, InSlots, inputVars
<1> QED
  BY <1>5, <1>6

(* The limit is reached.                                                   *)
LEMMA StepEndDecoding ==
  ASSUME GenInv, EndDecoding
  PROVE  GenInv'
BY DEF GenInv, EndDecoding, GenerationTypeOK, Chosen, Untouched, Prefilled, Counters, Fed,
       InSlots, Looping, inputVars, loopVars

(* Steps that leave the generation alone.                                  *)
LEMMA StepStutter ==
  ASSUME GenInv, UNCHANGED genVars
  PROVE  GenInv'
BY DEF GenInv, genVars, inputVars, loopVars, GenerationTypeOK, Chosen, Untouched, Prefilled,
       Counters, Fed, InSlots, Looping, CacheHolds, TextAt, PrefillSeqSize

(* Every step keeps the invariant.                                         *)
LEMMA GenStep == GenInv /\ [GenerationNext]_genVars => GenInv'
<1> SUFFICES ASSUME GenInv, [GenerationNext]_genVars PROVE GenInv'
  OBVIOUS
<1>1. CASE ScopeEntered
  BY <1>1, StepSetUp, StepEnterPrefill, StepEnterDecode DEF ScopeEntered
<1>2. CASE ScopeLeft
  BY <1>2, StepSetUp, StepLeavePrefill, StepLeaveDecode DEF ScopeLeft
<1>3. CASE OtherStep
  BY <1>3, StepSetUp, StepInvokePrefill, StepInvokeDecode, StepEndDecoding, StepCheckFails
     DEF OtherStep
<1>4. CASE UNCHANGED genVars
  BY <1>4, StepStutter
<1> QED
  BY <1>1, <1>2, <1>3, <1>4 DEF GenerationNext

(* The invariant holds for all behaviours.                                 *)
LEMMA GenAlways == GenerationSpec => []GenInv
BY GenInit, GenStep, PTL DEF GenerationSpec

(* The program's variables keep their types.                               *)
THEOREM GenerationTypeCorrect == GenerationSpec => []GenerationTypeOK
<1>1. GenInv => GenerationTypeOK
  BY DEF GenInv
<1> QED
  BY <1>1, GenAlways, PTL

(* Before every step the cache holds the text but for its last token,      *)
(* which is what the step is given, at its own position                    *)
(* (text_generator_main.cc:331-461).                                       *)
THEOREM EveryStepSeesTheText == GenerationSpec => []ContextIsText
<1>1. GenInv => ContextIsText
  <2> SUFFICES ASSUME GenInv, pc \in {"loop", "decode"}
               PROVE  /\ nextPosition + 1 = Len(Text)
                      /\ DOMAIN cache = 0 .. nextPosition - 1
                      /\ \A p \in DOMAIN cache : cache[p] = Text[p + 1]
                      /\ nextToken = Text[nextPosition + 1]
    BY DEF ContextIsText
  <2>1. /\ GenerationTypeOK /\ maxSeqSize \in SeqSizes
    BY DEF GenInv, Chosen
  <2>2. /\ nextPosition \in Nat /\ step \in Nat /\ step = Len(output)
        /\ nextPosition = PrefillSeqSize - 1 + step
        /\ CacheHolds(nextPosition) /\ nextToken = TextAt(nextPosition)
    BY DEF GenInv, GenerationTypeOK, Counters, Looping, Fed
  <2>3. PrefillSeqSize \in Nat
    BY <2>1, UsedPrompt
  <2>4. /\ Len(Text) = nextPosition + 1
        /\ \A p \in 0 .. nextPosition : Text[p + 1] = TextAt(p)
    BY <2>1, <2>2, <2>3, TextTokens
  <2> QED
    BY <2>2, <2>4 DEF CacheHolds
<1> QED
  BY <1>1, GenAlways, PTL

(* No position past the end of the cache is ever written or handed to the  *)
(* model (text_generator_main.cc:376, 410).                                *)
THEOREM GenerationStaysInCache == GenerationSpec => []StaysInCache
<1>1. GenInv => StaysInCache
  <2> SUFFICES ASSUME GenInv PROVE StaysInCache
    OBVIOUS
  <2>1. ASSUME pc = "decode" PROVE nextPosition \in Slots
    <3>1. /\ GenerationTypeOK /\ maxSeqSize \in SeqSizes
      BY <2>1 DEF GenInv, Chosen
    <3>2. PrefillSeqSize \in 1 .. KvCacheMax
      BY <3>1, UsedPrompt
    <3>3. /\ nextPosition \in Nat /\ step \in Nat /\ decodeSteps \in Int
          /\ nextPosition = PrefillSeqSize - 1 + step /\ step < decodeSteps
          /\ decodeSteps <= KvCacheMax - PrefillSeqSize
      BY <2>1 DEF GenInv, GenerationTypeOK, Counters, Looping
    <3> QED
      BY <3>2, <3>3 DEF Slots
  <2> QED
    BY <2>1 DEF GenInv, StaysInCache, InSlots
<1> QED
  BY <1>1, GenAlways, PTL

-----------------------------------------------------------------------------
(* Theorems about a generation under the profiler.                         *)

(* The profiler changes nothing: a profiled generation is a generation.    *)
THEOREM ProfilingChangesNothing == ProfiledSpec => GenerationSpec
<1>1. ProfiledInit => GenerationInit
  BY DEF ProfiledInit
<1>2. [ProfiledNext]_allVars => [GenerationNext]_genVars
  BY DEF ProfiledNext, allVars, EnterScope, LeaveScope, RunProgram, RunThreads, Collect, Finished,
         GenerationNext
<1> QED
  BY <1>1, <1>2, PTL DEF ProfiledSpec, GenerationSpec

(* Generation and profiler keep their types, and the gate is open just     *)
(* within a scope.                                                         *)
THEOREM ProfiledTypeCorrect == ProfiledSpec => []ProfiledTypeOK
<1>1. GenerationTypeOK /\ ProfInv /\ GateInv => ProfiledTypeOK
  BY DEF ProfInv, BaseInv, GateInv, InScope, ProfiledTypeOK
<1> QED
  BY <1>1, ProfAlways, ProfilingChangesNothing, GenerationTypeCorrect, PTL

(* Over all records no read is counted twice, however the collector's      *)
(* passes over the counters interleave with the probes.                    *)
THEOREM ReadsAreCountedOnce == ProfiledSpec => []NoReadCountedTwice
<1>1. ProfInv => NoReadCountedTwice
  <2> SUFFICES ASSUME CountedInv PROVE NoReadCountedTwice
    BY DEF ProfInv, BaseInv
  <2>1. Cardinality(Uncollected) \in Nat
    BY FS_CardinalityType DEF CountedInv
  <2> QED
    BY <2>1 DEF CountedInv, NoReadCountedTwice
<1> QED
  BY <1>1, ProfAlways, PTL

(* The record of a phase that began and ended with the collector keeping   *)
(* up, with no counter left from before and no read under way at its end,  *)
(* is paired with its own start and has all reads of the phase, and no     *)
(* others (profile_phase.py:382-446).                                      *)
THEOREM QuietPhasesAreExact == ProfiledSpec => []QuietPhaseIsExact
<1>1. ProfInv => QuietPhaseIsExact
  BY DEF ProfInv
<1> QED
  BY <1>1, ProfAlways, PTL
=============================================================================
