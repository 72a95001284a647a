---------------------------- MODULE ScoringRound ----------------------------
(***************************************************************************)
(* The replies to one question as they arrive, one per assignment, and     *)
(* what ScoreQuestion would make of them at every number of replies: the   *)
(* reward rules of internal/service/scoring.go over every combination of   *)
(* replies up to MaxReplies.                                               *)
(***************************************************************************)
EXTENDS Scoring, Sums

CONSTANT MaxReplies  \* bound: the replies a question collects

ASSUME MaxRepliesAssumption == MaxReplies \in Nat

VARIABLE replies  \* assignment 1, 2, ... |-> its reply, in the order of arrival

Arrived == Cardinality(DOMAIN replies)

RoundInit == replies = [a \in {} |-> Invalid]

\* SetAssignmentReply of the next assignment.
ReplyArrives(v) ==
  /\ Arrived < MaxReplies
  /\ replies' = [a \in DOMAIN replies \cup {Arrived + 1} |->
                   IF a \in DOMAIN replies THEN replies[a] ELSE v]

RoundNext == \E v \in Reply : ReplyArrives(v)

RoundSpec == RoundInit /\ [][RoundNext]_replies
----------------------------------------------------------------------------
\* replies, had assignment a said v.
Had(a, v) == [replies EXCEPT ![a] = v]

\* The reference answer is every answerer's best reply, whatever the others
\* say: had the worker given it, neither share nor score would be lower.
TruthDominates ==
  \A a \in DOMAIN replies :
    LET now == AnswererScore(replies, a)
        truth == AnswererScore(Had(a, Reference), a)
    IN truth.share >= now.share /\ truth.score >= now.score

\* The questioner earns most from a question that one worker can answer: the
\* first correct reply raises the share and the score, every further one
\* raises neither.
HardButSolvable ==
  \A a \in DOMAIN replies \ Correct(replies) :
    LET now == QuestionerScore(replies)
        more == QuestionerScore(Had(a, Reference))
    IN IF Correct(replies) = {}
         THEN more.share > now.share /\ more.score > now.score
         ELSE more.share <= now.share /\ more.score <= now.score

\* What the answer columns of the question's assignments add up to.
PaidOut ==
  SumOver([a \in DOMAIN replies |-> AnswererScore(replies, a).share], DOMAIN replies)

\* The answer pool of a question is paid out once: the stored shares of its
\* answerers add up to the whole, but for what rounding to four digits costs,
\* less than one unit each; of up to five answerers never to more.
PoolPaidOnce ==
  DOMAIN replies # {} =>
    /\ PaidOut > Whole - Arrived /\ PaidOut < Whole + Arrived
    /\ Arrived <= 5 => PaidOut <= Whole
=============================================================================
