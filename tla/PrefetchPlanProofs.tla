------------------------- MODULE PrefetchPlanProofs -------------------------
(***************************************************************************)
(* What a plan's derived quantities are good for, whatever the plan: the   *)
(* hook finds a group for every chunk it is called for, groups have a      *)
(* length, and the buffer holds each of them.                              *)
(*                                                                         *)
(* Induction is by the least counterexample.                               *)
(***************************************************************************)
EXTENDS PrefetchPlan, NumberFacts, FiniteSetTheorems, TLAPS

LEMMA SequenceFacts ==
  ASSUME NEW S, NEW s \in Seq(S)
  PROVE  /\ Len(s) \in Nat /\ DOMAIN s = 1 .. Len(s)
         /\ \A i \in 1 .. Len(s) : s[i] \in S
         /\ s # <<>> => Len(s) \in Nat \ {0}
OBVIOUS

LEMMA OtherElementType ==
  ASSUME NEW S, NEW T, NEW s \in Seq(S), \A i \in 1 .. Len(s) : s[i] \in T
  PROVE  s \in Seq(T)
OBVIOUS

LEMMA NonEmptyTail ==
  ASSUME NEW S, NEW s \in Seq(S), NEW t \in Seq(S), Len(t) # 0
  PROVE  s \o t # <<>>
<1>1. Len(s \o t) = Len(s) + Len(t) /\ Len(s) \in Nat /\ Len(t) \in Nat
  OBVIOUS
<1>2. Len(s \o t) # 0
  BY <1>1
<1>3. QED
  BY <1>2

(* FlattenSeq's recursive function, on the first n sequences.              *)
Flattened(seqs, f, i) == IF i = 1 THEN seqs[i] ELSE f[i - 1] \o seqs[i]

FlattensUpTo(S, seqs, n, f) ==
  f \in [1 .. n -> Seq(S)] /\ \A i \in 1 .. n : f[i] = Flattened(seqs, f, i)

LEMMA FlattenExtends ==
  ASSUME NEW S, NEW seqs \in Seq(Seq(S)), NEW n \in 1 .. Len(seqs),
         n # 1 => \E f : FlattensUpTo(S, seqs, n - 1, f)
  PROVE  \E f : FlattensUpTo(S, seqs, n, f)
<1>1. seqs[n] \in Seq(S) /\ n \in Nat
  OBVIOUS
<1>2. CASE n = 1
  <2> DEFINE g == [i \in 1 .. 1 |-> seqs[1]]
  <2>1. g \in [1 .. 1 -> Seq(S)] /\ g[1] = seqs[1]
    BY <1>1, <1>2
  <2> HIDE DEF g
  <2>2. FlattensUpTo(S, seqs, 1, g)
    BY <2>1 DEF FlattensUpTo, Flattened
  <2>3. QED
    BY <2>2, <1>2
<1>3. CASE n # 1
  <2>1. PICK f : FlattensUpTo(S, seqs, n - 1, f)
    BY <1>3
  <2>2. f[n - 1] \in Seq(S)
    BY <2>1, <1>1, <1>3 DEF FlattensUpTo
  <2> DEFINE g == [i \in 1 .. n |-> IF i = n THEN f[n - 1] \o seqs[n] ELSE f[i]]
  <2>3. f[n - 1] \o seqs[n] \in Seq(S)
    BY <2>2, <1>1
  <2>4. \A i \in 1 .. n : i # n => i \in 1 .. n - 1 /\ g[i] = f[i] /\ f[i] \in Seq(S)
    BY <2>1, <1>1 DEF FlattensUpTo
  <2>5. g[n] = f[n - 1] \o seqs[n] /\ g[n - 1] = f[n - 1]
    <3>1. n \in 1 .. n /\ n - 1 \in 1 .. n /\ n - 1 # n
      BY <1>1, <1>3
    <3>2. QED
      BY <3>1
  <2>6. g \in [1 .. n -> Seq(S)]
    <3>1. \A i \in 1 .. n : (IF i = n THEN f[n - 1] \o seqs[n] ELSE f[i]) \in Seq(S)
      BY <2>3, <2>4
    <3>2. QED
      BY <3>1
  <2>7. ASSUME NEW i \in 1 .. n PROVE g[i] = Flattened(seqs, g, i)
    <3>1. CASE i = n
      BY <3>1, <1>3, <2>5 DEF Flattened
    <3>2. CASE i # n
      <4>1. i \in 1 .. n - 1 /\ g[i] = f[i]
        BY <3>2, <2>4
      <4>2. f[i] = Flattened(seqs, f, i)
        BY <4>1, <2>1 DEF FlattensUpTo
      <4>3. i # 1 => i - 1 \in 1 .. n /\ i - 1 # n
        BY <4>1, <1>1
      <4>4. i # 1 => g[i - 1] = f[i - 1]
        BY <4>3, <2>4
      <4>5. QED
        BY <4>1, <4>2, <4>4 DEF Flattened
    <3>3. QED
      BY <3>1, <3>2
  <2>8. FlattensUpTo(S, seqs, n, g)
    BY <2>6, <2>7 DEF FlattensUpTo
  <2>9. QED
    BY <2>8
<1>4. QED
  BY <1>2, <1>3

LEMMA FlattenExists ==
  ASSUME NEW S, NEW seqs \in Seq(Seq(S)), NEW n \in 1 .. Len(seqs)
  PROVE  \E f : FlattensUpTo(S, seqs, n, f)
<1> DEFINE Fails(k) == ~\E f : FlattensUpTo(S, seqs, k, f)
           Bad == {k \in 1 .. Len(seqs) : Fails(k)}
<1>1. Bad \in SUBSET Nat
  OBVIOUS
<1>2. \A k \in 1 .. Len(seqs) : k \notin Bad => ~Fails(k)
  OBVIOUS
<1>3. \A k \in Bad : k \in 1 .. Len(seqs) /\ Fails(k)
  OBVIOUS
<1>4. \A k \in 1 .. Len(seqs) : (k # 1 => ~Fails(k - 1)) => ~Fails(k)
  BY FlattenExtends
<1> HIDE DEF Fails, Bad
<1>5. Bad = {}
  <2> SUFFICES ASSUME Bad # {} PROVE FALSE
    OBVIOUS
  <2>1. PICK k \in Bad : \A j \in Bad : k <= j
    BY <1>1, LeastNatural
  <2>2. k \in 1 .. Len(seqs) /\ k \in Nat /\ Fails(k)
    BY <1>1, <1>3
  <2>3. ASSUME k # 1 PROVE ~Fails(k - 1)
    <3>1. k - 1 \in 1 .. Len(seqs) /\ ~(k <= k - 1)
      BY <2>2, <2>3
    <3>2. QED
      BY <3>1, <2>1, <1>2
  <2>4. QED
    BY <2>2, <2>3, <1>4
<1>6. ~Fails(n)
  BY <1>2, <1>5
<1>7. QED
  BY <1>6 DEF Fails

(* FlattenSeq unfolds to that function.                                    *)
LEMMA FlattenUnfolds ==
  ASSUME NEW S, NEW seqs \in Seq(Seq(S)), seqs # <<>>
  PROVE  \E f : FlattensUpTo(S, seqs, Len(seqs), f) /\ FlattenSeq(seqs) = f[Len(seqs)]
<1> DEFINE n == Len(seqs)
           Flattens(f) == f = [i \in 1 .. n |-> IF i = 1 THEN seqs[i] ELSE f[i - 1] \o seqs[i]]
           flatten == CHOOSE f : Flattens(f)
<1>1. n \in Nat \ {0} /\ \A i \in 1 .. n : seqs[i] \in Seq(S)
  OBVIOUS
<1>2. FlattenSeq(seqs) = flatten[n]
  BY <1>1 DEF FlattenSeq
<1>3. \E f : Flattens(f)
  <2>0. n \in 1 .. Len(seqs)
    BY <1>1
  <2>1. PICK f : FlattensUpTo(S, seqs, n, f)
    <3> HIDE DEF n, Flattens, flatten
    <3>1. QED
      BY ONLY <2>0, seqs \in Seq(Seq(S)), FlattenExists
  <2>2. f = [i \in 1 .. n |-> f[i]]
    BY <2>1 DEF FlattensUpTo
  <2>3. \A i \in 1 .. n : f[i] = IF i = 1 THEN seqs[i] ELSE f[i - 1] \o seqs[i]
    BY <2>1 DEF FlattensUpTo, Flattened
  <2>4. Flattens(f)
    BY <2>2, <2>3
  <2>5. QED
    BY <2>4
<1>4. Flattens(flatten)
  <2> HIDE DEF Flattens
  <2>1. QED
    BY <1>3
<1> HIDE DEF flatten, n
<1>5. \A i \in 1 .. n : flatten[i] = IF i = 1 THEN seqs[i] ELSE flatten[i - 1] \o seqs[i]
  BY <1>4
<1> HIDE DEF Flattens
<1> DEFINE Wrong == {i \in 1 .. n : flatten[i] \notin Seq(S)}
<1>6. /\ Wrong \in SUBSET Nat
      /\ \A i \in Wrong : i \in 1 .. n /\ flatten[i] \notin Seq(S)
      /\ \A i \in 1 .. n : i \notin Wrong => flatten[i] \in Seq(S)
  BY <1>1
<1> HIDE DEF Wrong
<1>7. Wrong = {}
  <2> SUFFICES ASSUME Wrong # {} PROVE FALSE
    OBVIOUS
  <2>1. PICK i \in Wrong : \A j \in Wrong : i <= j
    BY <1>6, LeastNatural
  <2>2. i \in 1 .. n /\ i \in Nat /\ flatten[i] \notin Seq(S)
    BY <1>6
  <2>3. i # 1
    BY <2>2, <1>1, <1>5
  <2>4. i - 1 \in 1 .. n /\ ~(i <= i - 1)
    BY <2>2, <2>3, <1>1
  <2>5. flatten[i - 1] \in Seq(S) /\ seqs[i] \in Seq(S)
    BY <2>1, <2>2, <2>4, <1>1, <1>6
  <2>6. flatten[i] = flatten[i - 1] \o seqs[i]
    BY <2>2, <2>3, <1>5
  <2>7. QED
    BY <2>2, <2>5, <2>6
<1>8. flatten = [i \in 1 .. n |-> flatten[i]] /\ \A i \in 1 .. n : flatten[i] \in Seq(S)
  BY <1>4, <1>6, <1>7 DEF Flattens
<1>9. flatten \in [1 .. n -> Seq(S)]
  BY <1>8
<1>10. FlattensUpTo(S, seqs, n, flatten)
  BY <1>5, <1>9 DEF FlattensUpTo, Flattened
<1>11. QED
  BY <1>2, <1>10 DEF n

(* A flattened sequence has elements of its parts only, and has elements   *)
(* if its parts do.                                                        *)
LEMMA FlattenTyped ==
  ASSUME NEW S, NEW seqs \in Seq(Seq(S)), seqs # <<>>
  PROVE  /\ FlattenSeq(seqs) \in Seq(S)
         /\ (\A i \in 1 .. Len(seqs) : seqs[i] # <<>>) => FlattenSeq(seqs) # <<>>
<1> DEFINE n == Len(seqs)
<1>1. n \in Nat \ {0} /\ \A i \in 1 .. n : seqs[i] \in Seq(S)
  OBVIOUS
<1>2. PICK f : FlattensUpTo(S, seqs, n, f) /\ FlattenSeq(seqs) = f[n]
  BY FlattenUnfolds
<1> HIDE DEF n
<1>3. /\ f \in [1 .. n -> Seq(S)]
      /\ \A i \in 1 .. n : f[i] = IF i = 1 THEN seqs[i] ELSE f[i - 1] \o seqs[i]
  BY <1>2 DEF FlattensUpTo, Flattened
<1>4. n \in 1 .. n /\ (n # 1 => n - 1 \in 1 .. n)
  BY <1>1
<1>5. ASSUME seqs[n] # <<>> PROVE f[n] # <<>>
  <2>1. CASE n = 1
    BY <2>1, <1>3, <1>4, <1>5
  <2>2. CASE n # 1
    <3>1. f[n - 1] \in Seq(S) /\ seqs[n] \in Seq(S)
      BY <2>2, <1>1, <1>3, <1>4
    <3>2. f[n] = f[n - 1] \o seqs[n]
      BY <2>2, <1>3, <1>4
    <3>3. Len(seqs[n]) \in Nat \ {0} /\ Len(f[n - 1]) \in Nat
      BY <3>1, <1>5, SequenceFacts
    <3>4. QED
      BY <3>1, <3>2, <3>3, NonEmptyTail
  <2>3. QED
    BY <2>1, <2>2
<1>6. QED
  BY <1>2, <1>3, <1>4, <1>5 DEF n

(* The element at position p of a flattened sequence is the k-th of the    *)
(* i-th part, and the one after it is the next of that part or, if there   *)
(* is none, the first of the next part.                                    *)
StandsAt(seqs, n, s, p, i, k) ==
  /\ s[p] = seqs[i][k]
  /\ p = 1 => i = 1 /\ k = 1
  /\ k < Len(seqs[i]) => p < Len(s) /\ s[p + 1] = seqs[i][k + 1]
  /\ k = Len(seqs[i]) /\ i < n => p < Len(s) /\ s[p + 1] = seqs[i + 1][1]
  /\ k = Len(seqs[i]) /\ i = n => p = Len(s)

Walks(seqs, n, s) ==
  \A p \in 1 .. Len(s) : \E i \in 1 .. n : \E k \in 1 .. Len(seqs[i]) :
    StandsAt(seqs, n, s, p, i, k)

LEMMA OnePartWalks ==
  ASSUME NEW S, NEW seqs \in Seq(Seq(S)), seqs # <<>>
  PROVE  Walks(seqs, 1, seqs[1])
<1>1. Len(seqs[1]) \in Nat /\ 1 \in 1 .. 1
  OBVIOUS
<1>2. ASSUME NEW p \in 1 .. Len(seqs[1]) PROVE StandsAt(seqs, 1, seqs[1], p, 1, p)
  BY <1>1 DEF StandsAt
<1>3. QED
  BY <1>1, <1>2 DEF Walks

LEMMA NextPartWalks ==
  ASSUME NEW S, NEW seqs \in Seq(Seq(S)), NEW n \in 1 .. Len(seqs), n # 1,
         \A i \in 1 .. Len(seqs) : seqs[i] # <<>>,
         NEW s \in Seq(S), s # <<>>, Walks(seqs, n - 1, s)
  PROVE  Walks(seqs, n, s \o seqs[n])
<1> DEFINE t == seqs[n]
           L == Len(s)
           both == s \o t
<1>1. n \in Nat /\ n - 1 \in Nat /\ t \in Seq(S) /\ L \in Nat \ {0} /\ Len(t) \in Nat \ {0}
  BY SequenceFacts
<1>2. /\ Len(both) = L + Len(t)
      /\ \A q \in 1 .. L : both[q] = s[q]
      /\ \A k \in 1 .. Len(t) : both[L + k] = t[k]
  BY <1>1
<1> HIDE DEF both, L, t
<1>3. ASSUME NEW p \in 1 .. L
      PROVE  \E i \in 1 .. n : \E k \in 1 .. Len(seqs[i]) : StandsAt(seqs, n, both, p, i, k)
  <2>1. PICK i \in 1 .. n - 1 : \E k \in 1 .. Len(seqs[i]) : StandsAt(seqs, n - 1, s, p, i, k)
    BY <1>3 DEF Walks, L
  <2>2. PICK k \in 1 .. Len(seqs[i]) : StandsAt(seqs, n - 1, s, p, i, k)
    BY <2>1
  <2>3. i \in 1 .. n /\ i \in Nat /\ Len(seqs[i]) \in Nat
    BY <1>1
  <2>4. p < L => p + 1 \in 1 .. L
    BY <1>1
  <2>5. /\ s[p] = seqs[i][k] /\ (p = 1 => i = 1 /\ k = 1)
        /\ k < Len(seqs[i]) => p < L /\ s[p + 1] = seqs[i][k + 1]
        /\ k = Len(seqs[i]) /\ i < n - 1 => p < L /\ s[p + 1] = seqs[i + 1][1]
        /\ k = Len(seqs[i]) /\ i = n - 1 => p = L
    BY <2>2 DEF StandsAt, L
  <2>6. k < Len(seqs[i]) => p < Len(both) /\ both[p + 1] = seqs[i][k + 1]
    BY <1>1, <1>2, <2>4, <2>5
  <2>7. k = Len(seqs[i]) /\ i < n => p < Len(both) /\ both[p + 1] = seqs[i + 1][1]
    <3>1. CASE i < n - 1
      BY <1>1, <1>2, <2>4, <2>5, <3>1
    <3>2. CASE i = n - 1 /\ k = Len(seqs[i])
      <4>1. p = L /\ i + 1 = n /\ 1 \in 1 .. Len(t)
        BY <1>1, <2>5, <3>2
      <4>2. both[p + 1] = seqs[i + 1][1]
        BY <1>2, <4>1 DEF t
      <4>3. QED
        BY <1>1, <1>2, <4>1, <4>2
    <3>3. QED
      BY <2>3, <1>1, <3>1, <3>2
  <2>8. ~(i = n)
    BY <1>1
  <2>9. StandsAt(seqs, n, both, p, i, k)
    BY <1>2, <2>5, <2>6, <2>7, <2>8 DEF StandsAt
  <2>10. QED
    BY <2>3, <2>9
<1>4. ASSUME NEW k \in 1 .. Len(t)
      PROVE  StandsAt(seqs, n, both, L + k, n, k)
  <2>1. both[L + k] = t[k] /\ L + k # 1
    BY <1>1, <1>2
  <2>2. k < Len(t) => L + k < Len(both) /\ both[(L + k) + 1] = t[k + 1]
    <3>1. k < Len(t) => k + 1 \in 1 .. Len(t) /\ (L + k) + 1 = L + (k + 1)
      BY <1>1
    <3>2. QED
      BY <1>1, <1>2, <3>1
  <2>3. k = Len(t) => L + k = Len(both)
    BY <1>1, <1>2
  <2>4. ~(n < n)
    BY <1>1
  <2>5. QED
    BY <2>1, <2>2, <2>3, <2>4 DEF StandsAt, t
<1>5. ASSUME NEW p \in 1 .. Len(both), p \notin 1 .. L
      PROVE  \E i \in 1 .. n : \E k \in 1 .. Len(seqs[i]) : StandsAt(seqs, n, both, p, i, k)
  <2>1. p - L \in 1 .. Len(t) /\ p = L + (p - L) /\ n \in 1 .. n
    BY <1>1, <1>2, <1>5
  <2>2. StandsAt(seqs, n, both, p, n, p - L)
    BY <1>4, <2>1
  <2>3. QED
    BY <2>1, <2>2 DEF t
<1>6. QED
  BY <1>3, <1>5 DEF Walks, both, t

LEMMA FlattenWalks ==
  ASSUME NEW S, NEW seqs \in Seq(Seq(S)), seqs # <<>>,
         \A i \in 1 .. Len(seqs) : seqs[i] # <<>>
  PROVE  Walks(seqs, Len(seqs), FlattenSeq(seqs))
<1> DEFINE n == Len(seqs)
<1>1. n \in Nat \ {0} /\ \A i \in 1 .. n : seqs[i] \in Seq(S)
  OBVIOUS
<1>2. PICK f : FlattensUpTo(S, seqs, n, f) /\ FlattenSeq(seqs) = f[n]
  BY FlattenUnfolds
<1>3. /\ f \in [1 .. n -> Seq(S)]
      /\ \A i \in 1 .. n : f[i] = IF i = 1 THEN seqs[i] ELSE f[i - 1] \o seqs[i]
  BY <1>2 DEF FlattensUpTo, Flattened
<1> DEFINE Good(i) == f[i] # <<>> /\ Walks(seqs, i, f[i])
           Bad == {i \in 1 .. n : ~Good(i)}
<1>4. /\ Bad \in SUBSET Nat
      /\ \A i \in Bad : i \in 1 .. n /\ ~Good(i)
      /\ \A i \in 1 .. n : i \notin Bad => Good(i)
  BY <1>1
<1>5. Good(1)
  <2>1. 1 \in 1 .. n
    BY <1>1
  <2>2. f[1] = seqs[1]
    BY <1>3, <2>1
  <2>3. QED
    BY <2>1, <2>2, OnePartWalks
<1>6. ASSUME NEW i \in 1 .. n, i # 1, Good(i - 1) PROVE Good(i)
  <2>1. i - 1 \in 1 .. n /\ i \in 1 .. Len(seqs)
    BY <1>1, <1>6
  <2>2. f[i] = f[i - 1] \o seqs[i] /\ f[i - 1] \in Seq(S) /\ seqs[i] \in Seq(S)
    BY <1>1, <1>3, <1>6, <2>1
  <2>3. Walks(seqs, i, f[i])
    BY <1>6, <2>1, <2>2, NextPartWalks
  <2>4. Len(seqs[i]) # 0
    BY <2>1, <2>2, SequenceFacts
  <2>5. f[i] # <<>>
    BY <2>2, <2>4, NonEmptyTail
  <2>6. QED
    BY <2>3, <2>5
<1> HIDE DEF Good, Bad, n
<1>7. Bad = {}
  <2> SUFFICES ASSUME Bad # {} PROVE FALSE
    OBVIOUS
  <2>1. PICK i \in Bad : \A j \in Bad : i <= j
    BY <1>4, LeastNatural
  <2>2. i \in 1 .. n /\ ~Good(i)
    BY <1>4
  <2>3. i # 1
    BY <1>5, <2>2
  <2>4. i - 1 \in 1 .. n /\ ~(i <= i - 1)
    BY <1>1, <2>2, <2>3
  <2>5. Good(i - 1)
    BY <1>4, <2>1, <2>4
  <2>6. QED
    BY <1>6, <2>2, <2>3, <2>5
<1>8. n \in 1 .. n
  BY <1>1
<1>9. Good(n)
  BY <1>4, <1>7, <1>8
<1>10. QED
  BY <1>2, <1>9 DEF Good, n

-----------------------------------------------------------------------------

(* The chunks that a mode's groups name.                                   *)
Named(m) == UNION {Range(Plan[m][i]) : i \in 1 .. Len(Plan[m])}

LEMMA PlanTyped ==
  ASSUME NEW m \in Modes
  PROVE  /\ Plan[m] \in Seq(Seq(Chunks)) /\ Len(Plan[m]) \in Nat \ {0}
         /\ \A i \in 1 .. Len(Plan[m]) :
              Plan[m][i] \in Seq(Chunks) /\ Len(Plan[m][i]) \in Nat \ {0}
<1>1. Plan[m] \in Seq(Seq(Chunks)) /\ Plan[m] # <<>>
  BY PlanAssumption
<1>2. ASSUME NEW i \in 1 .. Len(Plan[m])
      PROVE  Plan[m][i] \in Seq(Chunks) /\ Len(Plan[m][i]) \in Nat \ {0}
  <2>1. Plan[m][i] \in Seq(Chunks) /\ Plan[m][i] # <<>>
    BY <1>1, PlanAssumption
  <2>2. QED
    BY <2>1, SequenceFacts
<1>3. Len(Plan[m]) \in Nat \ {0}
  BY <1>1, SequenceFacts
<1>4. QED
  BY <1>1, <1>2, <1>3

(* A group of a plan, and its chunks.                                      *)
LEMMA GroupTyped ==
  ASSUME NEW g \in Groups
  PROVE  /\ g.mode \in Modes /\ g.index \in Nat /\ g.index + 1 \in 1 .. Len(Plan[g.mode])
         /\ g \in GroupsOf(g.mode)
         /\ ChunksOf[g] = Plan[g.mode][g.index + 1]
         /\ ChunksOf[g] \in Seq(Chunks) /\ Len(ChunksOf[g]) \in Nat \ {0}
<1>1. PICK m \in Modes : g \in GroupsOf(m)
  BY DEF Groups
<1>2. g.mode = m /\ g.index \in 0 .. Len(Plan[m]) - 1
  BY <1>1 DEF GroupsOf
<1>3. Len(Plan[m]) \in Nat
  BY PlanTyped
<1>4. g.index + 1 \in 1 .. Len(Plan[g.mode]) /\ g.index \in Nat
  BY <1>2, <1>3
<1>5. ChunksOf[g] = Plan[g.mode][g.index + 1]
  BY DEF ChunksOf
<1>6. QED
  BY <1>1, <1>2, <1>4, <1>5, PlanTyped

LEMMA ModeChunksNamed ==
  ASSUME NEW m \in Modes
  PROVE  ModeChunks[m] \in Seq(Named(m))
<1>1. /\ Plan[m] \in Seq(Seq(Chunks)) /\ Plan[m] # <<>>
      /\ \A i \in 1 .. Len(Plan[m]) : Plan[m][i] \in Seq(Chunks)
  BY PlanTyped
<1>2. ASSUME NEW i \in 1 .. Len(Plan[m]) PROVE Plan[m][i] \in Seq(Named(m))
  <2>1. Plan[m][i] \in Seq(Chunks) /\ DOMAIN Plan[m][i] = 1 .. Len(Plan[m][i])
    BY <1>1, SequenceFacts
  <2>2. \A j \in 1 .. Len(Plan[m][i]) : Plan[m][i][j] \in Named(m)
    BY <2>1 DEF Named, Range
  <2>3. QED
    BY <2>1, <2>2, OtherElementType
<1>3. Plan[m] \in Seq(Seq(Named(m)))
  BY <1>1, <1>2, OtherElementType
<1>4. FlattenSeq(Plan[m]) \in Seq(Named(m))
  BY <1>1, <1>3, FlattenTyped
<1>5. QED
  BY <1>4 DEF ModeChunks

(* A mode has an operator to begin with.                                   *)
LEMMA ModeHasChunks ==
  ASSUME NEW m \in Modes
  PROVE  Len(ModeChunks[m]) \in Nat \ {0}
<1>1. /\ Plan[m] \in Seq(Seq(Chunks)) /\ Plan[m] # <<>>
      /\ \A i \in 1 .. Len(Plan[m]) : Plan[m][i] # <<>>
  BY PlanAssumption
<1>2. ModeChunks[m] \in Seq(Chunks) /\ ModeChunks[m] # <<>>
  BY <1>1, FlattenTyped DEF ModeChunks
<1>3. QED
  BY <1>2, SequenceFacts

(* The pre-invoke hook finds a group of the running mode that names its    *)
(* chunk, at every place in the mode's list (prefetcher.cc:559-622): the   *)
(* last such group.                                                        *)
THEOREM HookFindsItsGroup ==
  ASSUME NEW m \in Modes, NEW i \in 1 .. Len(ModeChunks[m])
  PROVE  /\ GroupPerMode(m, ModeChunks[m][i]) \in Groups
         /\ ModeChunks[m][i] \in Chunks
         /\ ModeChunks[m][i] \in Range(ChunksOf[GroupPerMode(m, ModeChunks[m][i])])
<1> DEFINE c == ModeChunks[m][i]
           at(k) == [mode |-> m, index |-> k]
           Naming == {k \in 0 .. Len(Plan[m]) - 1 : c \in Range(Plan[m][k + 1])}
<1>1. c \in Named(m)
  BY ModeChunksNamed, SequenceFacts
<1> HIDE DEF c
<1>2. PICK j \in 1 .. Len(Plan[m]) : c \in Range(Plan[m][j])
  BY <1>1 DEF Named
<1>3. Len(Plan[m]) \in Nat \ {0}
  BY PlanTyped
<1>4. j - 1 \in 0 .. Len(Plan[m]) - 1 /\ (j - 1) + 1 = j
  BY <1>3
<1>5. j - 1 \in Naming
  BY <1>2, <1>4
<1>6. Naming \in SUBSET Nat /\ IsFiniteSet(Naming)
  <2>1. Naming \in SUBSET (0 .. Len(Plan[m]) - 1)
    OBVIOUS
  <2>2. IsFiniteSet(0 .. Len(Plan[m]) - 1)
    BY <1>3, FS_Interval
  <2>3. QED
    BY <2>1, <2>2, <1>3, FS_Subset
<1>7. Max(Naming) \in Naming /\ \A k \in Naming : k <= Max(Naming)
  <2> HIDE DEF Naming
  <2>1. QED
    BY <1>5, <1>6, MaxIsGreatest
<1> DEFINE last == Max(Naming)
<1>8. last \in Naming /\ \A k \in Naming : k <= last
  BY <1>7
<1> HIDE DEF last
<1>9. \A g \in GroupsOf(m) :
        /\ g \in Groups /\ g = at(g.index) /\ g.index \in 0 .. Len(Plan[m]) - 1
        /\ ChunksOf[g] = Plan[m][g.index + 1]
  BY DEF GroupsOf, Groups, ChunksOf
<1>10. at(last) \in GroupsOf(m) /\ at(last).index = last
  BY <1>8 DEF GroupsOf
<1>11. c \in Range(ChunksOf[at(last)])
  BY <1>8, <1>9, <1>10
<1>12. ASSUME NEW h \in GroupsOf(m), c \in Range(ChunksOf[h]) PROVE h.index <= at(last).index
  BY <1>8, <1>9, <1>10, <1>12
<1>13. /\ GroupPerMode(m, c) \in GroupsOf(m)
       /\ c \in Range(ChunksOf[GroupPerMode(m, c)])
  <2> HIDE DEF at
  <2>1. QED
    BY <1>10, <1>11, <1>12 DEF GroupPerMode
<1>14. c \in Chunks
  <2>1. Plan[m][j] \in Seq(Chunks)
    BY PlanTyped
  <2>2. DOMAIN Plan[m][j] = 1 .. Len(Plan[m][j]) /\ \A k \in 1 .. Len(Plan[m][j]) : Plan[m][j][k] \in Chunks
    BY <2>1, SequenceFacts
  <2>3. QED
    BY <1>2, <2>2 DEF Range
<1>15. QED
  BY <1>9, <1>13, <1>14 DEF c

(* The group to schedule is one of the plan's.                             *)
LEMMA NextGroupTyped ==
  ASSUME NEW g \in Groups
  PROVE  GetNextChunkGroup(g) \in Groups
<1>1. /\ g.mode \in Modes /\ g.index \in Nat /\ g \in GroupsOf(g.mode)
      /\ Len(Plan[g.mode]) \in Nat
  BY GroupTyped, PlanTyped
<1>2. CASE g.index + 1 < Len(Plan[g.mode])
  <2>1. [g EXCEPT !.index = @ + 1] \in GroupsOf(g.mode)
    BY <1>1, <1>2 DEF GroupsOf
  <2>2. QED
    BY <1>1, <1>2, <2>1 DEF GetNextChunkGroup, Groups
<1>3. CASE ~(g.index + 1 < Len(Plan[g.mode]))
  <2>1. "DECODE" \in Modes
    BY DEF Modes
  <2>2. Len(Plan["DECODE"]) \in Nat \ {0}
    BY <2>1, PlanTyped
  <2>3. [mode |-> "DECODE", index |-> 0] \in GroupsOf("DECODE")
    BY <2>2 DEF GroupsOf
  <2>4. QED
    BY <1>3, <2>1, <2>3 DEF GetNextChunkGroup, Groups
<1>4. QED
  BY <1>2, <1>3

-----------------------------------------------------------------------------

(* The total that the file states, and how far a group's chunks reach.     *)
LEMMA StatedTyped ==
  ASSUME NEW g \in Groups
  PROVE  Stated(g) \in Nat
<1>1. g.mode \in Modes /\ g.index + 1 \in 1 .. Len(Plan[g.mode])
  BY GroupTyped
<1>2. StatedTotal[g.mode] \in Seq(Nat) /\ Len(StatedTotal[g.mode]) = Len(Plan[g.mode])
  BY <1>1, PlanAssumption
<1>3. QED
  BY <1>1, <1>2 DEF Stated

LEMMA OffsetTyped ==
  ASSUME NEW g \in Groups, NEW c \in Range(ChunksOf[g])
  PROVE  /\ c \in Chunks /\ StartOf(g) \in Nat /\ ChunkAt[c] \in Nat
         /\ RelativeOffset(g, c) \in Nat /\ ChunkLen[c] \in Nat \ {0}
<1> DEFINE s == ChunksOf[g]
<1>1. s \in Seq(Chunks) /\ Len(s) \in Nat \ {0}
  BY GroupTyped
<1>2. DOMAIN s = 1 .. Len(s) /\ \A i \in 1 .. Len(s) : s[i] \in Chunks
  BY <1>1, SequenceFacts
<1>3. Head(s) \in Chunks
  BY <1>1
<1>4. c \in Chunks
  BY <1>2 DEF Range
<1>5. StartOf(g) \in Nat /\ ChunkAt[c] \in Nat /\ ChunkLen[c] \in Nat \ {0}
  BY <1>3, <1>4, PlanAssumption DEF StartOf
<1>6. QED
  BY <1>4, <1>5 DEF RelativeOffset

LEMMA ExtentTyped ==
  ASSUME NEW g \in Groups
  PROVE  /\ MaxExtent(g) \in Nat \ {0}
         /\ \A c \in Range(ChunksOf[g]) : RelativeOffset(g, c) + ChunkLen[c] <= MaxExtent(g)
<1> DEFINE s == ChunksOf[g]
           end(c) == RelativeOffset(g, c) + ChunkLen[c]
           ends == [i \in 1 .. Len(s) |-> end(s[i])]
           Ends == {end(c) : c \in Range(s)}
<1>1. Len(s) \in Nat \ {0} /\ DOMAIN s = 1 .. Len(s)
  <2>1. s \in Seq(Chunks) /\ Len(s) \in Nat \ {0}
    BY GroupTyped
  <2>2. QED
    BY <2>1
<1>2. \A c \in Range(s) : end(c) \in Nat \ {0}
  BY OffsetTyped
<1>3. MaxExtent(g) = Max(Ends)
  BY DEF MaxExtent
<1>4. Ends = Range(ends)
  BY <1>1 DEF Range
<1>5. \A c \in Range(s) : end(c) \in Ends
  OBVIOUS
<1>6. Ends \in SUBSET (Nat \ {0})
  BY <1>2
<1>7. s[1] \in Range(s)
  BY <1>1 DEF Range
<1>8. IsFiniteSet(Ends)
  BY <1>1, <1>4, FiniteRange
<1>9. Ends \in SUBSET Nat /\ Ends # {}
  BY <1>5, <1>6, <1>7
<1> HIDE DEF end, Ends
<1>10. Max(Ends) \in Ends /\ \A x \in Ends : x <= Max(Ends)
  BY <1>8, <1>9, MaxIsGreatest
<1>11. Max(Ends) \in Nat \ {0} /\ \A c \in Range(s) : end(c) <= Max(Ends)
  BY <1>5, <1>6, <1>10
<1>12. QED
  BY <1>3, <1>11 DEF end

LEMMA GroupSizeTyped ==
  ASSUME NEW g \in Groups
  PROVE  /\ TotalAlignedSize[g] \in Nat \ {0}
         /\ MaxExtent(g) <= TotalAlignedSize[g]
         /\ TotalsStated => TotalAlignedSize[g] = Stated(g)
<1>1. Stated(g) \in Nat /\ MaxExtent(g) \in Nat \ {0}
  BY StatedTyped, ExtentTyped
<1>2. TotalAlignedSize[g] = IF Stated(g) < MaxExtent(g) THEN MaxExtent(g) ELSE Stated(g)
  BY DEF TotalAlignedSize
<1>3. TotalsStated => MaxExtent(g) <= Stated(g)
  BY DEF TotalsStated
<1>4. QED
  BY <1>1, <1>2, <1>3

(* The sets whose maximum is the size of the buffer.                       *)
LEMMA ChunkSizesFinite ==
  ASSUME NEW m \in Modes
  PROVE  /\ {ChunkLen[c] : c \in Range(ModeChunks[m])} \in SUBSET Nat
         /\ IsFiniteSet({ChunkLen[c] : c \in Range(ModeChunks[m])})
         /\ ChunkPairs(m) \in SUBSET Nat /\ IsFiniteSet(ChunkPairs(m))
<1> DEFINE s == ModeChunks[m]
           lens == [i \in 1 .. Len(s) |-> ChunkLen[s[i]]]
           pairs == [i \in 1 .. Len(s) - 1 |-> ChunkLen[s[i]] + ChunkLen[s[i + 1]]]
<1>1. s \in Seq(Chunks)
  <2>1. Plan[m] \in Seq(Seq(Chunks)) /\ Plan[m] # <<>>
    BY PlanAssumption
  <2>2. QED
    BY <2>1, FlattenTyped DEF ModeChunks
<1> HIDE DEF s
<1>2. Len(s) \in Nat /\ DOMAIN s = 1 .. Len(s) /\ \A i \in 1 .. Len(s) : s[i] \in Chunks
  BY <1>1, SequenceFacts
<1>3. \A i \in 1 .. Len(s) : ChunkLen[s[i]] \in Nat
  BY <1>2, PlanAssumption
<1>4. {ChunkLen[c] : c \in Range(s)} = Range(lens)
  BY <1>2 DEF Range
<1>5. IsFiniteSet(Range(lens)) /\ Range(lens) \in SUBSET Nat
  <2>1. DOMAIN lens = 1 .. Len(s) /\ \A i \in 1 .. Len(s) : lens[i] \in Nat
    BY <1>3
  <2> HIDE DEF lens
  <2>2. IsFiniteSet(Range(lens))
    BY <1>2, <2>1, FiniteRange
  <2>3. QED
    BY <2>1, <2>2 DEF Range
<1>6. ChunkPairs(m) = Range(pairs)
  BY DEF ChunkPairs, Range, s
<1>7. IsFiniteSet(Range(pairs)) /\ Range(pairs) \in SUBSET Nat
  <2>1. \A i \in 1 .. Len(s) - 1 : i \in 1 .. Len(s) /\ i + 1 \in 1 .. Len(s)
    BY <1>2
  <2>2. DOMAIN pairs = 1 .. Len(s) - 1 /\ \A i \in 1 .. Len(s) - 1 : pairs[i] \in Nat
    BY <1>3, <2>1
  <2> HIDE DEF pairs
  <2>3. IsFiniteSet(Range(pairs))
    <3>1. CASE Len(s) = 0
      <4>1. Range(pairs) = {}
        BY <3>1, <2>2 DEF Range
      <4>2. QED
        BY <4>1, FS_EmptySet
    <3>2. CASE Len(s) # 0
      <4>1. Len(s) - 1 \in Nat
        BY <3>2, <1>2
      <4>2. QED
        BY <4>1, <2>2, FiniteRange
    <3>3. QED
      BY <3>1, <3>2
  <2>4. QED
    BY <2>2, <2>3 DEF Range
<1>8. QED
  BY <1>4, <1>5, <1>6, <1>7 DEF s

LEMMA GroupsFinite == IsFiniteSet(Groups)
<1>1. ASSUME NEW m \in Modes PROVE IsFiniteSet(GroupsOf(m))
  <2> DEFINE n == Len(Plan[m])
             at == [k \in 1 .. n |-> [mode |-> m, index |-> k - 1]]
  <2>1. n \in Nat
    BY PlanTyped
  <2> HIDE DEF n
  <2>2. IsFiniteSet(Range(at))
    <3>1. DOMAIN at = 1 .. n
      OBVIOUS
    <3> HIDE DEF at
    <3>2. QED
      BY <3>1, <2>1, FiniteRange
  <2>3. GroupsOf(m) \subseteq Range(at)
    <3> SUFFICES ASSUME NEW g \in GroupsOf(m) PROVE g \in Range(at)
      OBVIOUS
    <3>1. g = [mode |-> m, index |-> g.index] /\ g.index \in 0 .. n - 1
      BY DEF GroupsOf, n
    <3>2. g.index + 1 \in 1 .. n /\ (g.index + 1) - 1 = g.index
      BY <3>1, <2>1
    <3>3. at[g.index + 1] = g
      BY <3>1, <3>2
    <3>4. QED
      BY <3>2, <3>3 DEF Range
  <2>4. QED
    BY <2>2, <2>3, FS_Subset
<1>2. Groups = GroupsOf("PREFILL") \cup GroupsOf("DECODE")
  BY DEF Groups, Modes
<1>3. QED
  BY <1>1, <1>2, FS_Union DEF Modes

(* The buffer is sized for any one group by its stated total, and for any  *)
(* one chunk.                                                              *)
LEMMA BufferHoldsStated ==
  /\ WeightChunkBufferSize \in Nat \ {0}
  /\ \A g \in Groups : Stated(g) <= WeightChunkBufferSize
<1> DEFINE Lens(m) == {ChunkLen[c] : c \in Range(ModeChunks[m])}
           AllLens == {ChunkLen[c] : c \in UNION {Range(ModeChunks[m]) : m \in Modes}}
           AllPairs == UNION {ChunkPairs(m) : m \in Modes}
           Totals == {Stated(g) : g \in Groups}
           Sizes == {MetadataSize} \cup AllLens \cup AllPairs \cup Totals
           first == ModeChunks["DECODE"][1]
<1>1. AllLens = Lens("PREFILL") \cup Lens("DECODE")
  BY DEF Modes
<1>2. AllPairs = ChunkPairs("PREFILL") \cup ChunkPairs("DECODE")
  BY DEF Modes
<1>3. IsFiniteSet(AllLens) /\ AllLens \in SUBSET Nat
  <2>1. \A m \in Modes : Lens(m) \in SUBSET Nat /\ IsFiniteSet(Lens(m))
    BY ChunkSizesFinite
  <2> HIDE DEF AllLens, Lens
  <2>2. QED
    BY <1>1, <2>1, FS_Union DEF Modes
<1>4. IsFiniteSet(AllPairs) /\ AllPairs \in SUBSET Nat
  <2>1. \A m \in Modes : ChunkPairs(m) \in SUBSET Nat /\ IsFiniteSet(ChunkPairs(m))
    BY ChunkSizesFinite
  <2> HIDE DEF AllPairs
  <2>2. QED
    BY <1>2, <2>1, FS_Union DEF Modes
<1>5. IsFiniteSet(Totals) /\ Totals \in SUBSET Nat
  <2> DEFINE total == [g \in Groups |-> Stated(g)]
  <2>1. total \in Surjection(Groups, Totals)
    BY DEF Surjection
  <2>2. IsFiniteSet(Totals)
    BY <2>1, GroupsFinite, FS_Surjection
  <2>3. QED
    BY <2>2, StatedTyped
<1>6. IsFiniteSet(Sizes) /\ Sizes \in SUBSET Nat
  <2>1. IsFiniteSet({MetadataSize}) /\ MetadataSize \in Nat
    BY FS_Singleton, PlanAssumption
  <2> HIDE DEF AllLens, AllPairs, Totals
  <2>2. IsFiniteSet({MetadataSize} \cup AllLens)
    BY <2>1, <1>3, FS_Union
  <2>3. IsFiniteSet(({MetadataSize} \cup AllLens) \cup AllPairs)
    BY <2>2, <1>4, FS_Union
  <2>4. IsFiniteSet(Sizes)
    BY <2>3, <1>5, FS_Union
  <2>5. QED
    BY <2>1, <2>4, <1>3, <1>4, <1>5
<1>7. \A g \in Groups : Stated(g) \in Sizes
  OBVIOUS
<1>8. ChunkLen[first] \in Sizes /\ ChunkLen[first] \in Nat \ {0}
  <2>1. "DECODE" \in Modes
    BY DEF Modes
  <2>2. Len(ModeChunks["DECODE"]) \in Nat \ {0} /\ ModeChunks["DECODE"] \in Seq(Named("DECODE"))
    BY <2>1, ModeHasChunks, ModeChunksNamed
  <2>3. DOMAIN ModeChunks["DECODE"] = 1 .. Len(ModeChunks["DECODE"])
    BY <2>2
  <2>4. first \in Range(ModeChunks["DECODE"])
    BY <2>2, <2>3 DEF Range
  <2>5. first \in Chunks
    BY <2>1, <2>2, HookFindsItsGroup
  <2>6. QED
    BY <2>1, <2>4, <2>5, PlanAssumption
<1>9. WeightChunkBufferSize = Max(Sizes)
  BY DEF WeightChunkBufferSize
<1> HIDE DEF Sizes, first
<1>10. Max(Sizes) \in Sizes /\ \A x \in Sizes : x <= Max(Sizes)
  BY <1>6, <1>8, MaxIsGreatest
<1>11. Max(Sizes) \in Nat /\ ChunkLen[first] <= Max(Sizes)
  BY <1>6, <1>8, <1>10
<1>12. Max(Sizes) \in Nat \ {0}
  BY <1>8, <1>11
<1>13. QED
  BY <1>7, <1>9, <1>10, <1>12

(* No group is larger than the buffer ...                                  *)
EachGroupFits == \A g \in Groups : TotalAlignedSize[g] <= WeightChunkBufferSize

(* ... if the file states its totals; if each group fits beside the next,  *)
(* the more so.                                                            *)
LEMMA StatedGroupsFit == TotalsStated => EachGroupFits
BY BufferHoldsStated, GroupSizeTyped DEF EachGroupFits

LEMMA NeighboursFitAlone == NextGroupFits => EachGroupFits
<1> SUFFICES ASSUME NextGroupFits, NEW g \in Groups
             PROVE  TotalAlignedSize[g] <= WeightChunkBufferSize
  BY DEF EachGroupFits
<1> DEFINE h == GetNextChunkGroup(g)
<1>1. h \in Groups
  BY NextGroupTyped
<1>2. /\ TotalAlignedSize[g] \in Nat /\ TotalAlignedSize[h] \in Nat
      /\ WeightChunkBufferSize \in Nat
  BY <1>1, GroupSizeTyped, BufferHoldsStated
<1>3. TotalAlignedSize[g] + TotalAlignedSize[h] <= WeightChunkBufferSize
  BY DEF NextGroupFits
<1>4. QED
  BY <1>2, <1>3

-----------------------------------------------------------------------------

(* A chunk belongs to the only group that names it.                        *)
LEMMA GroupOfPart ==
  ASSUME EachChunkOnce, NEW m \in Modes, NEW i \in 1 .. Len(Plan[m]),
         NEW k \in 1 .. Len(Plan[m][i])
  PROVE  /\ GroupPerMode(m, Plan[m][i][k]) = [mode |-> m, index |-> i - 1]
         /\ [mode |-> m, index |-> i - 1] \in GroupsOf(m)
         /\ ChunksOf[[mode |-> m, index |-> i - 1]] = Plan[m][i]
<1> DEFINE c == Plan[m][i][k]
           g == [mode |-> m, index |-> i - 1]
<1>1. Len(Plan[m]) \in Nat /\ i \in Nat /\ (i - 1) + 1 = i /\ i - 1 \in 0 .. Len(Plan[m]) - 1
  BY PlanTyped
<1>2. g \in GroupsOf(m)
  BY <1>1 DEF GroupsOf
<1>3. ASSUME NEW h \in GroupsOf(m)
      PROVE  /\ h \in Groups /\ h.index \in Nat /\ h.index + 1 \in 1 .. Len(Plan[m])
             /\ ChunksOf[h] = Plan[m][h.index + 1]
             /\ h = [mode |-> m, index |-> h.index]
             /\ Range(ChunksOf[h]) = {Plan[m][h.index + 1][l] : l \in 1 .. Len(Plan[m][h.index + 1])}
  <2>1. h \in Groups /\ h.mode = m /\ h = [mode |-> m, index |-> h.index]
    BY DEF Groups, GroupsOf
  <2>2. h.index \in Nat /\ h.index + 1 \in 1 .. Len(Plan[m]) /\ ChunksOf[h] = Plan[m][h.index + 1]
        /\ ChunksOf[h] \in Seq(Chunks)
    BY <2>1, GroupTyped
  <2>3. DOMAIN ChunksOf[h] = 1 .. Len(ChunksOf[h])
    BY <2>2, SequenceFacts
  <2>4. QED
    BY <2>1, <2>2, <2>3 DEF Range
<1>4. c \in Range(ChunksOf[g]) /\ ChunksOf[g] = Plan[m][i]
  BY <1>1, <1>2, <1>3
<1>5. ASSUME NEW h \in GroupsOf(m), c \in Range(ChunksOf[h]) PROVE h = g
  <2>1. PICK l \in 1 .. Len(Plan[m][h.index + 1]) : c = Plan[m][h.index + 1][l]
    <3> DEFINE t == Plan[m][h.index + 1]
    <3>1. Range(ChunksOf[h]) = {t[l] : l \in 1 .. Len(t)}
      BY <1>3
    <3> HIDE DEF t, c
    <3>2. \E l \in 1 .. Len(t) : c = t[l]
      BY <1>5, <3>1
    <3>3. QED
      BY <3>2 DEF t
  <2>2. h.index + 1 = i
    BY <1>3, <2>1 DEF EachChunkOnce
  <2>3. h.index = i - 1 /\ h = [mode |-> m, index |-> h.index]
    BY <1>3, <2>2
  <2>4. QED
    BY <2>3
<1>6. g.index <= g.index
  BY <1>1
<1> HIDE DEF c, g
<1>7. GroupPerMode(m, c) = g
  <2>1. \A h \in GroupsOf(m) : c \in Range(ChunksOf[h]) => h.index <= g.index
    BY <1>5, <1>6
  <2>2. \A h \in GroupsOf(m) :
          (c \in Range(ChunksOf[h]) /\ \A x \in GroupsOf(m) : c \in Range(ChunksOf[x]) => x.index <= h.index)
            <=> h = g
    BY <1>2, <1>4, <1>5, <2>1
  <2>3. QED
    BY <1>2, <2>2 DEF GroupPerMode
<1>8. QED
  BY <1>2, <1>4, <1>7 DEF c, g

(* The operators of a mode come group by group: each is followed by one of *)
(* the same group that is not its first, or by the first of the next.      *)
THEOREM OperatorsFollowGroups ==
  ASSUME EachChunkOnce, NEW m \in Modes, NEW p \in 1 .. Len(ModeChunks[m])
  PROVE  LET c == ModeChunks[m][p]
             d == ModeChunks[m][p + 1]
             g == GroupPerMode(m, c)
             h == GroupPerMode(m, d)
         IN  /\ g.mode = m
             /\ p = 1 => g.index = 0 /\ c = Head(ChunksOf[g])
             /\ p < Len(ModeChunks[m]) =>
                  \/ h = g /\ d # Head(ChunksOf[g])
                  \/ g.index + 1 < Len(Plan[m]) /\ h = GetNextChunkGroup(g) /\ d = Head(ChunksOf[h])
             /\ p = Len(ModeChunks[m]) => g.index + 1 = Len(Plan[m])
<1> DEFINE n == Len(Plan[m])
           s == ModeChunks[m]
           at(i) == [mode |-> m, index |-> i - 1]
<1>1. /\ Plan[m] \in Seq(Seq(Chunks)) /\ Plan[m] # <<>> /\ n \in Nat \ {0}
      /\ \A i \in 1 .. n : /\ Plan[m][i] \in Seq(Chunks) /\ Plan[m][i] # <<>>
                           /\ Len(Plan[m][i]) \in Nat \ {0} /\ Head(Plan[m][i]) = Plan[m][i][1]
  <2>1. \A i \in 1 .. n : Plan[m][i] \in Seq(Chunks) /\ Len(Plan[m][i]) \in Nat \ {0}
    BY PlanTyped
  <2>2. QED
    BY <2>1, PlanTyped, PlanAssumption
<1>2. Walks(Plan[m], n, s)
  BY <1>1, FlattenWalks DEF ModeChunks
<1>3. PICK i \in 1 .. n : \E k \in 1 .. Len(Plan[m][i]) : StandsAt(Plan[m], n, s, p, i, k)
  BY <1>2 DEF Walks
<1>4. PICK k \in 1 .. Len(Plan[m][i]) : StandsAt(Plan[m], n, s, p, i, k)
  BY <1>3
<1>5. /\ s[p] = Plan[m][i][k]
      /\ p = 1 => i = 1 /\ k = 1
      /\ k < Len(Plan[m][i]) => p < Len(s) /\ s[p + 1] = Plan[m][i][k + 1]
      /\ k = Len(Plan[m][i]) /\ i < n => p < Len(s) /\ s[p + 1] = Plan[m][i + 1][1]
      /\ k = Len(Plan[m][i]) /\ i = n => p = Len(s)
  BY <1>4 DEF StandsAt
<1>6. \A j \in 1 .. n : \A l \in 1 .. Len(Plan[m][j]) :
        GroupPerMode(m, Plan[m][j][l]) = at(j) /\ ChunksOf[at(j)] = Plan[m][j]
  BY GroupOfPart
<1>7. \A j : at(j).mode = m /\ at(j).index = j - 1
  OBVIOUS
<1>8. i \in Nat /\ k \in Nat /\ Len(Plan[m][i]) \in Nat \ {0} /\ p \in Nat /\ i <= n /\ k <= Len(Plan[m][i])
  BY <1>1
<1>9. GroupPerMode(m, s[p]) = at(i) /\ ChunksOf[at(i)] = Plan[m][i]
  BY <1>5, <1>6
<1>10. p < Len(s) =>
         \/ GroupPerMode(m, s[p + 1]) = at(i) /\ s[p + 1] # Head(ChunksOf[at(i)])
         \/ /\ i < n /\ GroupPerMode(m, s[p + 1]) = at(i + 1)
            /\ s[p + 1] = Head(ChunksOf[at(i + 1)])
  <2>1. CASE k < Len(Plan[m][i])
    <3>1. k + 1 \in 1 .. Len(Plan[m][i]) /\ 1 \in 1 .. Len(Plan[m][i]) /\ k + 1 # 1
      BY <1>8, <2>1
    <3>2. Plan[m][i][k + 1] # Plan[m][i][1]
      <4>1. \A a, b \in 1 .. Len(Plan[m][i]) : Plan[m][i][a] = Plan[m][i][b] => a = b
        <5> SUFFICES ASSUME NEW a \in 1 .. Len(Plan[m][i]), NEW b \in 1 .. Len(Plan[m][i]),
                            Plan[m][i][a] = Plan[m][i][b]
                     PROVE  a = b
          OBVIOUS
        <5>1. i \in 1 .. Len(Plan[m])
          OBVIOUS
        <5>2. QED
          BY <5>1, Zenon DEF EachChunkOnce
      <4>2. QED
        BY <3>1, <4>1
    <3>3. QED
      BY <1>1, <1>5, <1>6, <1>9, <2>1, <3>1, <3>2
  <2>2. CASE k = Len(Plan[m][i]) /\ i < n
    <3>1. i + 1 \in 1 .. n
      BY <1>1, <1>8, <2>2
    <3>2. 1 \in 1 .. Len(Plan[m][i + 1])
      BY <1>1, <3>1
    <3>3. QED
      BY <1>1, <1>5, <1>6, <2>2, <3>1, <3>2
  <2>3. CASE k = Len(Plan[m][i]) /\ i = n
    <3>1. p = Len(s) /\ Len(s) \in Nat
      BY <1>5, <2>3, ModeHasChunks
    <3>2. QED
      BY <3>1
  <2>4. QED
    BY <1>1, <1>8, <2>1, <2>2, <2>3
<1>11. p = Len(s) => i = n
  <2>1. Len(s) \in Nat
    BY ModeHasChunks
  <2>2. QED
    BY <1>1, <1>5, <1>8, <2>1
<1>12. i < n => at(i + 1) = GetNextChunkGroup(at(i)) /\ at(i).index + 1 < n
  <2> SUFFICES ASSUME i < n PROVE at(i + 1) = GetNextChunkGroup(at(i)) /\ at(i).index + 1 < n
    OBVIOUS
  <2>1. at(i).index + 1 = i /\ (i + 1) - 1 = i /\ at(i).mode = m
    BY <1>8
  <2>2. GetNextChunkGroup(at(i)) = [at(i) EXCEPT !.index = @ + 1]
    BY <2>1 DEF GetNextChunkGroup
  <2>3. QED
    BY <2>1, <2>2
<1>13. p = 1 => s[p] = Head(ChunksOf[at(i)]) /\ at(i).index = 0
  BY <1>1, <1>5, <1>7, <1>9
<1>14. p = Len(s) => at(i).index + 1 = n
  BY <1>7, <1>8, <1>11
<1> HIDE DEF at, n
<1>15. QED
  BY <1>7, <1>9, <1>10, <1>12, <1>13, <1>14 DEF n

(* With more groups than slots, neither the next group nor the one after   *)
(* it has the index of this one.                                           *)
LEMMA IndicesDiffer ==
  ASSUME MoreGroupsThanSlots, NEW g \in Groups
  PROVE  LET h == GetNextChunkGroup(g) IN
         /\ h \in Groups /\ h.index # g.index /\ h # g
         /\ GetNextChunkGroup(h).index # g.index
<1> DEFINE h == GetNextChunkGroup(g)
           i == GetNextChunkGroup(h)
<1>1. h \in Groups
  BY NextGroupTyped
<1>2. \A x \in Groups :
        /\ x.index \in Nat /\ Len(Plan[x.mode]) \in Nat /\ Len(Plan[x.mode]) >= 3
        /\ x.index + 1 <= Len(Plan[x.mode])
  BY GroupTyped, PlanTyped DEF MoreGroupsThanSlots
<1>3. \A x \in Groups :
        \/ GetNextChunkGroup(x).index = x.index + 1
        \/ GetNextChunkGroup(x).index = 0 /\ x.index >= 2
  <2> SUFFICES ASSUME NEW x \in Groups
               PROVE  \/ GetNextChunkGroup(x).index = x.index + 1
                      \/ GetNextChunkGroup(x).index = 0 /\ x.index >= 2
    OBVIOUS
  <2>1. CASE x.index + 1 < Len(Plan[x.mode])
    <3>1. GetNextChunkGroup(x) = [x EXCEPT !.index = @ + 1]
      BY <2>1 DEF GetNextChunkGroup
    <3>2. \E m \in Modes : x \in GroupsOf(m)
      BY DEF Groups
    <3>3. QED
      BY <3>1, <3>2 DEF GroupsOf
  <2>2. CASE ~(x.index + 1 < Len(Plan[x.mode]))
    <3>1. GetNextChunkGroup(x).index = 0
      BY <2>2 DEF GetNextChunkGroup
    <3>2. QED
      BY <1>2, <2>2, <3>1
  <2>3. QED
    BY <2>1, <2>2
<1>4. g.index \in Nat
  BY <1>2
<1>5. h.index = g.index + 1 \/ (h.index = 0 /\ g.index >= 2)
  BY <1>3
<1>6. i.index = h.index + 1 \/ (i.index = 0 /\ h.index >= 2)
  BY <1>1, <1>3
<1>7. h.index # g.index /\ i.index # g.index
  BY <1>4, <1>5, <1>6
<1>8. QED
  BY <1>1, <1>7

(* A group's sectors include those of each of its chunks.                  *)
LEMMA ChunkInsideGroup ==
  ASSUME FirstChunkLeads, NEW g \in Groups, NEW c \in Range(ChunksOf[g])
  PROVE  /\ RelativeOffset(g, c) \in Nat /\ StartOf(g) \in Nat
         /\ StartOf(g) + RelativeOffset(g, c) = ChunkAt[c]
         /\ RelativeOffset(g, c) + ChunkLen[c] <= TotalAlignedSize[g]
<1>1. /\ StartOf(g) \in Nat /\ ChunkAt[c] \in Nat
      /\ RelativeOffset(g, c) \in Nat /\ ChunkLen[c] \in Nat
  BY OffsetTyped
<1>2. ChunkAt[c] >= StartOf(g)
  BY DEF FirstChunkLeads
<1>3. RelativeOffset(g, c) = ChunkAt[c] - StartOf(g)
  BY <1>2 DEF RelativeOffset
<1>4. RelativeOffset(g, c) + ChunkLen[c] <= MaxExtent(g) /\ MaxExtent(g) \in Nat
  BY ExtentTyped
<1>5. MaxExtent(g) <= TotalAlignedSize[g] /\ TotalAlignedSize[g] \in Nat
  BY GroupSizeTyped
<1>6. QED
  BY <1>1, <1>2, <1>3, <1>4, <1>5
=============================================================================
