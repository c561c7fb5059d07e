-------------------------- MODULE MCAnswerPipeline --------------------------
(***************************************************************************)
(* Instances of AnswerPipeline for TLC.                                    *)
(***************************************************************************)
EXTENDS AnswerPipeline, TLC

Symmetry == Permutations(Turns) \cup Permutations(Answers)
              \cup Permutations(Workers) \cup Permutations(Handlers)
=============================================================================
