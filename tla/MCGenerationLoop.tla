-------------------------- MODULE MCGenerationLoop --------------------------
(* Prompts of one to seven tokens for signatures of 2 and 4 tokens.        *)
EXTENDS GenerationLoop

MCStepsFlags == {-1, 0, 2}
MCPrompts == {<<1>>, <<9, 1>>, <<1, 9, 9>>, <<9, 1, 9, 1>>, <<1, 9, 9, 1, 9>>,
              <<9, 9, 1, 9, 1, 1>>, <<1, 1, 9, 1, 9, 9, 1>>}
=============================================================================
