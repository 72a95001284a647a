---------------------------- MODULE QuestionLife ----------------------------
(***************************************************************************)
(* What the assignment flow promises of questions and assignments, without *)
(* requests, transactions, timers, goroutines and crashes: AssignmentFlow  *)
(* is shown to implement this specification.                               *)
(*                                                                         *)
(* A question is scored once, on one set of replies, its basis; only the   *)
(* replies of the basis are scored, each with what the basis gives it.     *)
(* The specification says what may happen, and not that it does: a reply   *)
(* may stay without a score.                                               *)
(***************************************************************************)
EXTENDS Scoring

CONSTANTS Worker, Question, AId,
          Most  \* the greatest number of required answers

VARIABLES qstat, qauthor, qres,
          basis,  \* [Question -> the replies it was scored on]
          st, aq, aw, reply, ares

vars == <<qstat, qauthor, qres, basis, st, aq, aw, reply, ares>>

Rows(q) == {a \in AId : st[a] # "none" /\ aq[a] = q}

Active(q) == {a \in Rows(q) : st[a] \in {"claimed", "replied"}}

Claims(w) == {a \in AId : st[a] = "claimed" /\ aw[a] = w}

\* Nothing has been submitted or assigned.
Init ==
  /\ \A q \in Question : qstat[q] = "absent" /\ basis[q] = {}
  /\ \A a \in AId : st[a] = "none"

\* A question appears.
Submit(q, w) ==
  /\ qstat[q] = "absent"
  /\ qstat' = [qstat EXCEPT ![q] = "submitted"]
  /\ qauthor' = [qauthor EXCEPT ![q] = w]
  /\ UNCHANGED <<qres, basis, st, aq, aw, reply, ares>>

\* A worker gets a question of somebody else, while it has room for one more;
\* the claim the worker had ends.
Assign(a, q, w) ==
  /\ st[a] = "none" /\ qstat[q] # "absent" /\ qauthor[q] # w
  /\ Cardinality(Active(q) \ Claims(w)) < Most
  /\ st' = [b \in AId |-> CASE b = a -> "claimed"
                            [] b \in Claims(w) -> "timed-out"
                            [] OTHER -> st[b]]
  /\ aq' = [aq EXCEPT ![a] = q]
  /\ aw' = [aw EXCEPT ![a] = w]
  /\ UNCHANGED <<qstat, qauthor, qres, basis, reply, ares>>

\* A claim is not answered in time ...
Expire(a) ==
  /\ st[a] = "claimed"
  /\ st' = [st EXCEPT ![a] = "timed-out"]
  /\ UNCHANGED <<qstat, qauthor, qres, basis, aq, aw, reply, ares>>

\* ... or it is answered.
Answers(a, r) ==
  /\ st[a] = "claimed"
  /\ st' = [st EXCEPT ![a] = "replied"]
  /\ reply' = [reply EXCEPT ![a] = r]
  /\ UNCHANGED <<qstat, qauthor, qres, basis, aq, aw, ares>>

RepliesOf(S) == [a \in S |-> reply[a]]

\* A question is scored on replies it has, at least one and no more than may be
\* required.
Score(q, S) ==
  /\ qstat[q] = "submitted"
  /\ \A a \in S : st[a] = "replied"
  /\ Cardinality(S) \in 1 .. Most
  /\ qstat' = [qstat EXCEPT ![q] = "scored"]
  /\ qres' = [qres EXCEPT ![q] = QuestionerScore(RepliesOf(S))]
  /\ basis' = [basis EXCEPT ![q] = S]
  /\ UNCHANGED <<qauthor, st, aq, aw, reply, ares>>

\* A reply of the basis gets its score.
Award(a) ==
  /\ st[a] = "replied" /\ a \in basis[aq[a]]
  /\ st' = [st EXCEPT ![a] = "scored"]
  /\ ares' = [ares EXCEPT ![a] = AnswererScore(RepliesOf(basis[aq[a]]), a)]
  /\ UNCHANGED <<qstat, qauthor, qres, basis, aq, aw, reply>>

Next ==
  \/ \E q \in Question :
       \/ \E w \in Worker : Submit(q, w) \/ \E a \in AId : Assign(a, q, w)
       \/ \E S \in SUBSET Rows(q) : Score(q, S)
  \/ \E a \in AId : Expire(a) \/ Award(a) \/ \E r \in Reply : Answers(a, r)

Spec == Init /\ [][Next]_vars
=============================================================================
