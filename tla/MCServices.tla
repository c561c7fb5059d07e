----------------------------- MODULE MCServices -----------------------------
(***************************************************************************)
(* One run over the components that share no state with each other.  A     *)
(* behaviour is one component's, picked at the start, and the others stand *)
(* still: what holds of every behaviour here holds of each component's.    *)
(***************************************************************************)
EXTENDS Accounts, ReportGeneration, MemoryReview, SkillSync, ProviderConfigs,
        ContextEngine, MCCompletion, Evaluation, TLC

VARIABLE active

vars == <<accountsVars, reportVars, memoryVars, skillVars, providerVars, contextVars,
          completionVars, evaluationVars, active>>

(* What an evaluation case of the run may expect.                          *)
MCExpectations ==
  LET Check(op, value) == [field |-> "f", op |-> op, value |-> value]
  IN {{}, {Check("required", {})}, {Check("contains", {}), Check("equals", {"w"})}}

(* The requests of every component are the same three model values, so     *)
(* that one small group of permutations serves them all.                   *)
Symmetry == Permutations(Calls)

(* A component that stands still has one initial state.                    *)
Init ==
  /\ active \in {"accounts", "report", "memory", "skills", "providers", "context",
                 "completion", "evaluation"}
  /\ InitAccounts /\ InitReport /\ InitMemory /\ InitContext /\ InitCompletion /\ InitEvaluation
  /\ InitSkills /\ InitProviders
  /\ active # "skills" => disk = [i \in Packs |-> NoDirectory]
  /\ active # "providers" => secret

AccountsStep ==
  /\ active = "accounts"
  /\ NextAccounts
  /\ UNCHANGED <<reportVars, memoryVars, skillVars, providerVars, contextVars,
                 completionVars, evaluationVars, active>>

ReportStep ==
  /\ active = "report"
  /\ NextReport
  /\ UNCHANGED <<accountsVars, memoryVars, skillVars, providerVars, contextVars,
                 completionVars, evaluationVars, active>>

MemoryStep ==
  /\ active = "memory"
  /\ NextMemory
  /\ UNCHANGED <<accountsVars, reportVars, skillVars, providerVars, contextVars,
                 completionVars, evaluationVars, active>>

SkillsStep ==
  /\ active = "skills"
  /\ NextSkills
  /\ UNCHANGED <<accountsVars, reportVars, memoryVars, providerVars, contextVars,
                 completionVars, evaluationVars, active>>

ProvidersStep ==
  /\ active = "providers"
  /\ NextProviders
  /\ UNCHANGED <<accountsVars, reportVars, memoryVars, skillVars, contextVars,
                 completionVars, evaluationVars, active>>

ContextStep ==
  /\ active = "context"
  /\ NextContext
  /\ UNCHANGED <<accountsVars, reportVars, memoryVars, skillVars, providerVars,
                 completionVars, evaluationVars, active>>

CompletionStep ==
  /\ active = "completion"
  /\ NextCompletion
  /\ UNCHANGED <<accountsVars, reportVars, memoryVars, skillVars, providerVars, contextVars,
                 evaluationVars, active>>

EvaluationStep ==
  /\ active = "evaluation"
  /\ NextEvaluation
  /\ UNCHANGED <<accountsVars, reportVars, memoryVars, skillVars, providerVars, contextVars,
                 completionVars, active>>

Next ==
  \/ AccountsStep \/ ReportStep \/ MemoryStep \/ SkillsStep
  \/ ProvidersStep \/ ContextStep \/ CompletionStep \/ EvaluationStep

Spec == Init /\ [][Next]_vars
=============================================================================
