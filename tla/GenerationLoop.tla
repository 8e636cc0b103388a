--------------------------- MODULE GenerationLoop ---------------------------
(***************************************************************************)
(* The text generation program: how a prompt and the tokens sampled after  *)
(* it get into the KV cache.  A prefill signature takes all but the last   *)
(* token of the prompt at once, the decode signature takes one token per   *)
(* step, and every step is told its position by the program.               *)
(*                                                                         *)
(* The cache is modelled by the slots that later steps attend to: an entry *)
(* of the prefill input that is only padding leaves no mark.  What the     *)
(* sampler answers is not modelled: any token may come.  What the program  *)
(* sets up before the prefill is modelled by the scopes it does it in, and *)
(* by the choice of a signature, made in the last but one of them.         *)
(***************************************************************************)
EXTENDS Integers, Sequences

CONSTANTS
  Tokens,        (* the vocabulary                                         *)
  StopToken,     (* stop_token_id; -1, which is no token, if there is none *)
  Prompts,       (* encoded prompts, the start token included              *)
  SetUpScopes,   (* scopes before the prefill, "Load_Model" to             *)
                 (* "Prepare_Input_Tensor": 8 in the program               *)
  SeqSizes,      (* sequence lengths of the model's prefill signatures     *)
  KvCacheMax,    (* kv_cache_max_size                                      *)
  StepsFlags     (* values of the flag max_decode_steps                    *)

(* An empty prompt is not admitted: the program reads before its start.    *)
(* No prefill signature of a model is longer than its cache.               *)
ASSUME GenerationAssumption ==
  /\ Prompts \subseteq Seq(Tokens) \ {<<>>}
  /\ KvCacheMax \in Nat \ {0}
  /\ SeqSizes \subseteq 1 .. KvCacheMax
  /\ StepsFlags \subseteq Int
  /\ SetUpScopes \in Nat \ {0, 1}

VARIABLES
  pc,            (* where __run_main is                                    *)
  prompt,        (* prompt_tokens                                          *)
  stepsFlag,     (* max_decode_steps                                       *)
  setUp,         (* set-up scopes that are done                            *)
  maxSeqSize,    (* max_seq_size, of the chosen prefill signature, 0 before*)
  cache,         (* KV cache: the token whose keys and values a slot holds *)
  nextToken,     (* next_token_id                                          *)
  nextPosition,  (* next_position                                          *)
  decodeSteps,   (* decode_steps                                           *)
  step,          (* the loop's i                                           *)
  output         (* the tokens printed so far                              *)

inputVars == <<prompt, stepsFlag, setUp, maxSeqSize>>
loopVars == <<nextToken, nextPosition, decodeSteps, step>>
genVars == <<pc, inputVars, cache, loopVars, output>>

Slots == 0 .. KvCacheMax - 1

GenerationInit ==
  /\ pc = "prepare"
  /\ prompt \in Prompts /\ stepsFlag \in StepsFlags
  /\ setUp = 0 /\ maxSeqSize = 0
  /\ cache = <<>>
  /\ nextToken = 0 /\ nextPosition = 0 /\ decodeSteps = 0 /\ step = 0
  /\ output = <<>>

(* A scope of the set-up is entered.                                       *)
EnterSetUp ==
  /\ pc = "prepare"
  /\ pc' = "setUp"
  /\ UNCHANGED <<inputVars, cache, loopVars, output>>

(* The signatures that hold the tokens before the prompt's last one, and   *)
(* of these the shortest.                                                  *)
Candidates == {s \in SeqSizes : Len(prompt) - 1 <= s}
IsBest(s) == s \in Candidates /\ \A t \in Candidates : s <= t

InPrepareSignatureRunners == pc = "setUp" /\ setUp = SetUpScopes - 2

(* Within "Prepare_Signature_Runners".                                     *)
GetPrefillRunner(s) ==
  /\ InPrepareSignatureRunners /\ maxSeqSize = 0
  /\ IsBest(s)
  /\ maxSeqSize' = s
  /\ UNCHANGED <<pc, prompt, stepsFlag, setUp, cache, loopVars, output>>

LeaveSetUp ==
  /\ pc = "setUp"
  /\ InPrepareSignatureRunners => maxSeqSize # 0
  /\ setUp' = setUp + 1
  /\ pc' = IF setUp' = SetUpScopes THEN "ready" ELSE "prepare"
  /\ UNCHANGED <<prompt, stepsFlag, maxSeqSize, cache, loopVars, output>>

(* A MINIMAL_CHECK fails: between two set-up scopes or within one (the one *)
(* for a signature that holds the prompt must, if there is none), after    *)
(* the prefill, or within a decoding step.  The process exits where it is. *)
CheckFails ==
  /\ pc \in {"prepare", "setUp", "decode", "sampled"} \/ (pc = "loop" /\ step = 0)
  /\ pc' = "aborted"
  /\ UNCHANGED <<inputVars, cache, loopVars, output>>

PrefillSeqSize == IF Len(prompt) <= maxSeqSize THEN Len(prompt) ELSE maxSeqSize

(* The scope "Prefill" is entered.                                         *)
EnterPrefill ==
  /\ pc = "ready"
  /\ pc' = "prefill"
  /\ UNCHANGED <<inputVars, cache, loopVars, output>>

(* tokens and input_pos have all but the last token, then padding.         *)
InvokePrefill ==
  /\ pc = "prefill"
  /\ cache' = [p \in 0 .. PrefillSeqSize - 2 |-> prompt[p + 1]]
  /\ pc' = "prefilled"
  /\ UNCHANGED <<inputVars, loopVars, output>>

AtMost(a, b) == IF a <= b THEN a ELSE b

MaxDecodeSteps == IF stepsFlag = -1 THEN KvCacheMax ELSE stepsFlag

(* Mutant: what the prompt takes of the cache is forgotten.                *)
StepsOfEmptyCache == AtMost(MaxDecodeSteps, KvCacheMax)

StepsLeft == AtMost(MaxDecodeSteps, KvCacheMax - PrefillSeqSize)

(* Mutant: starts behind the last token.                                   *)
LeavePrefillTooFar ==
  /\ pc = "prefilled"
  /\ nextToken' = prompt[PrefillSeqSize]
  /\ nextPosition' = PrefillSeqSize
  /\ decodeSteps' = StepsLeft
  /\ pc' = IF decodeSteps' > 0 THEN "loop" ELSE "aborted"
  /\ UNCHANGED <<inputVars, cache, step, output>>

(* The scope is left; the loop starts with the last token that fits.       *)
LeavePrefill ==
  /\ pc = "prefilled"
  /\ nextToken' = prompt[PrefillSeqSize]
  /\ nextPosition' = PrefillSeqSize - 1
  /\ decodeSteps' = StepsLeft
  /\ pc' = IF decodeSteps' > 0 THEN "loop" ELSE "aborted"
  /\ UNCHANGED <<inputVars, cache, step, output>>

(* The scope "Decode_i" is entered.                                        *)
EnterDecode ==
  /\ pc = "loop" /\ step < decodeSteps
  /\ pc' = "decode"
  /\ UNCHANGED <<inputVars, cache, loopVars, output>>

(* The step at nextPosition, and the token sampled from its logits.        *)
InvokeDecode(sampled) ==
  /\ pc = "decode"
  /\ cache' = [p \in DOMAIN cache \cup {nextPosition} |->
                 IF p = nextPosition THEN nextToken ELSE cache[p]]
  /\ nextToken' = sampled
  /\ pc' = "sampled"
  /\ UNCHANGED <<inputVars, nextPosition, decodeSteps, step, output>>

(* The scope is left; a stop token is neither printed nor fed back.        *)
LeaveDecode ==
  /\ pc = "sampled"
  /\ IF nextToken = StopToken
     THEN pc' = "off" /\ UNCHANGED <<output, nextPosition, step>>
     ELSE /\ output' = Append(output, nextToken)
          /\ nextPosition' = nextPosition + 1
          /\ step' = step + 1
          /\ pc' = "loop"
  /\ UNCHANGED <<inputVars, cache, nextToken, decodeSteps>>

EndDecoding ==
  /\ pc = "loop" /\ step >= decodeSteps
  /\ pc' = "off"
  /\ UNCHANGED <<inputVars, cache, loopVars, output>>

Ended == pc \in {"off", "aborted"}

(* Scopes are entered, scopes are left, and what happens between that.     *)
ScopeEntered == EnterSetUp \/ EnterPrefill \/ EnterDecode
ScopeLeft == LeaveSetUp \/ LeavePrefill \/ LeaveDecode
OtherStep ==
  \/ \E s \in SeqSizes : GetPrefillRunner(s)
  \/ InvokePrefill
  \/ \E t \in Tokens : InvokeDecode(t)
  \/ EndDecoding
  \/ CheckFails

GenerationNext == ScopeEntered \/ ScopeLeft \/ OtherStep

GenerationSpec == GenerationInit /\ [][GenerationNext]_genVars

-----------------------------------------------------------------------------

GenerationTypeOK ==
  /\ pc \in {"prepare", "setUp", "ready", "prefill", "prefilled", "loop", "decode",
             "sampled", "off", "aborted"}
  /\ prompt \in Prompts /\ stepsFlag \in StepsFlags
  /\ setUp \in 0 .. SetUpScopes
  /\ maxSeqSize \in SeqSizes \cup {0}
  /\ DOMAIN cache \subseteq Nat /\ \A p \in DOMAIN cache : cache[p] \in Tokens
  /\ nextToken \in Tokens \cup {0} /\ nextPosition \in Nat
  /\ decodeSteps \in Int /\ step \in Nat
  /\ output \in Seq(Tokens)

(* The prompt as far as it is used, followed by what was printed.          *)
Text == SubSeq(prompt, 1, PrefillSeqSize) \o output

(* A step sees the text and nothing else: before every invocation the      *)
(* cache holds all tokens of the text but the last, each in its own slot,  *)
(* without gap and none twice, and the last is what is fed in              *)
(* (text_generator_main.cc:331-342, 374-375, 395-461).                     *)
ContextIsText ==
  pc \in {"loop", "decode"} =>
    /\ nextPosition + 1 = Len(Text)
    /\ DOMAIN cache = 0 .. nextPosition - 1
    /\ \A p \in DOMAIN cache : cache[p] = Text[p + 1]
    /\ nextToken = Text[nextPosition + 1]

(* No step is given a position past the end of the cache, whatever the     *)
(* length of the prompt and the limit asked for                            *)
(* (text_generator_main.cc:376, 410).                                      *)
StaysInCache ==
  /\ DOMAIN cache \subseteq Slots
  /\ pc = "decode" => nextPosition \in Slots

(* "Prefill uses all but the last token from the prompt"                   *)
(* (text_generator_main.cc:337): the decoding loop starts with the last.   *)
PromptIsComplete == pc = "loop" /\ step = 0 => nextPosition + 1 = Len(prompt)
=============================================================================
