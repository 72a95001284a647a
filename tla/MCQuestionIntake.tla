-------------------------- MODULE MCQuestionIntake --------------------------
(* QuestionIntake with two similar texts, t1 and t2, which fit under one   *)
(* limit and not under the other, and a text t3 that fits under none.      *)
EXTENDS QuestionIntake, TLC

CONSTANTS t1, t2, t3

MCSimilar ==
  {<<t, t>> : t \in Text} \cup {<<t1, t2>>, <<t2, t1>>}

MCLength == [t \in Text |-> IF t = t3 THEN 2 ELSE 1]

Symmetry ==
  Permutations(Session) \cup Permutations(Worker) \cup Permutations(SetId)
  \cup Permutations({t1, t2})
=============================================================================
