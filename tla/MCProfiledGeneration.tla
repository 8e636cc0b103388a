------------------------ MODULE MCProfiledGeneration ------------------------
(* Prompts that leave a prefill signature of 2 or 3 tokens room, that fill *)
(* it, that exceed it by their last token, and one no signature takes.     *)
EXTENDS ProfiledGeneration, TLC

MCStepsFlags == {-1, 0}
MCPrompts == {<<1>>, <<9, 1>>, <<1, 9, 9>>, <<9, 1, 9, 1>>, <<1, 9, 9, 1, 9>>}

Symmetry == Permutations(Threads) \cup Permutations(Cpus)
=============================================================================
