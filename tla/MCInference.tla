---------------------------- MODULE MCInference ----------------------------
(* Requests and logits for the run of Inference.                             *)
EXTENDS Inference

Ask(kind, header, options) == [kind |-> kind, header |-> header, options |-> options]

\* Short and long headers; options below, at and above every cut; each bucket of k.
SomeQuestions ==
  {Ask("choice", 2, <<1, 1>>), Ask("choice", 40, <<80, 80>>), Ask("choice", 9, <<3, 0, 60>>),
   Ask("score", 8, <<5, 4, 3, 2, 1>>), Ask("score", 30, [j \in 1..6 |-> j]), Ask("choice", 1, [j \in 1..11 |-> 6]),
   Ask("noul", 12, <<1, 1>>)}

\* Each kind has overrides, and each bucket is once overridden and once not.
SomeTables == {{<<"choice", "2">>, <<"choice", "11+">>, <<"score", "3-5">>, <<"noul", "6-10">>},
               {<<"choice", "3-5">>, <<"score", "6-10">>, <<"noul", "2">>, <<"score", "11+">>}}

\* The first is the greatest, or the last two are, or the last is; or all are equal.
Finite(k) == {[j \in 1..k |-> IF j \in P THEN 1 ELSE 0] : P \in {{}, {1}, {k - 1, k}, {k}}}

\* Or the last, which is padding for a question with fewer options, is no number.
Broken(k) == {[j \in 1..k |-> IF j = k THEN v ELSE 1] : v \in {NonFinite, Large}}

SomeLogits == [k \in 2..11 |-> Finite(k) \cup Broken(k)]

\* Answers do not depend on the budgets: at every budget the batch is collated, and at
\* the default one the model is run on it.
RunOnce == pc = "run" => budget = [max |-> 1024, head |-> 256] /\ state = 1
=============================================================================
