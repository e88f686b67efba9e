----------------------------- MODULE AnswerKeys -----------------------------
(***************************************************************************)
(* The answer keys of the five question types and the rules they must      *)
(* meet (packages/domain/src/exam/answer-key.ts), used when a key is set,  *)
(* when a workbook is imported and when an answer is marked.               *)
(*                                                                         *)
(* A key is a record of its kind.  Weights and accepted values are finite  *)
(* integers: the checks for a non-finite number cannot fail here.          *)
(***************************************************************************)
EXTENDS Integers, FiniteSets

CONSTANT NoWeight  \* an option row without a weight, a numeric row without a value

SingleKey(option) == [kind |-> "single_choice", option |-> option]
WeightedKey(weights) == [kind |-> "weighted_choice", weights |-> weights]
MultipleKey(options) == [kind |-> "multiple_choice", options |-> options]
TrueFalseKey(expected) == [kind |-> "true_false", expected |-> expected]
NumericKey(value, tolerance) == [kind |-> "numeric", value |-> value, tolerance |-> tolerance]

(* codes: the option or statement codes the version really has. *)
Covers(answers, codes) == DOMAIN answers # {} /\ DOMAIN answers = codes

ValidAnswerKey(type, key, codes) ==
  /\ key.kind = type
  /\ key.kind = "single_choice" => key.option \in codes
  /\ key.kind = "weighted_choice" => Covers(key.weights, codes)
  /\ key.kind = "multiple_choice" => key.options # {} /\ key.options \subseteq codes
  /\ key.kind = "true_false" => Covers(key.expected, codes)
  /\ key.kind = "numeric" => key.tolerance >= 0
=============================================================================
