--------------------------- MODULE MCPlanPipeline ---------------------------
(* Models of up to four weights in sectors of two bytes, laid out one      *)
(* after the other or with the first one behind all others, as in the      *)
(* recorded table of the repository; tables of one mode with gaps and with *)
(* limits that the recording would not have stated; plan files with odd    *)
(* sizes.                                                                  *)
EXTENDS PlanPipeline

Sizes == {1, 4}

(* Weights of these lengths in a row, a gap of a sector after those in     *)
(* gaps; with prelude the first one comes last in the file.                *)
Laid(lens, gaps, prelude) ==
  LET before[i \in 1 .. Len(lens) + 1] ==
        IF i = 1 THEN 0 ELSE before[i - 1] + lens[i - 1] + IF i - 1 \in gaps THEN 2 ELSE 0
  IN  [i \in DOMAIN lens |->
         [at |-> IF prelude /\ i = 1 THEN before[Len(lens) + 1] ELSE before[i], len |-> lens[i]]]

MCModels ==
  UNION {{[weights |-> Laid(lens, {}, prelude), prefill |-> p] :
            lens \in [1 .. n -> Sizes], prelude \in {FALSE, n > 1}, p \in {0, n - 1} \cap Nat}
         : n \in 0 .. 4}

ChunkList(weights) ==
  [i \in DOMAIN weights |-> ChunkFor(weights[i], i - 1)]

MCTables ==
  {[limit |-> limit, lists |-> <<ChunkList(Laid(lens, gaps, FALSE))>>] :
     limit \in {0, 6, 10, 14},
     lens \in UNION {[1 .. n -> Sizes] : n \in 0 .. 5},
     gaps \in {{}, {2}}}

(* What the theorems about tables made elsewhere ask for.                  *)
ASSUME TablesAreInForm == TablesInRecordedForm

(* Groups of which two fit together and groups that fill the buffer alone; *)
(* two of them, of different modes, share an index.  The last plan is from *)
(* a file that did not state its totals: a group exceeds the request.      *)
MCPlans ==
  {[request |-> request,
    groups |-> {[index |-> 0, size |-> 1], [index |-> 1, size |-> 3],
                [index |-> 0, size |-> request], [index |-> 1, size |-> 2]}] : request \in {5, 6, 7}}
  \cup {[request |-> 3, groups |-> {[index |-> 0, size |-> 6], [index |-> 1, size |-> 2]}]}
=============================================================================
