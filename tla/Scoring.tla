------------------------------ MODULE Scoring ------------------------------
(***************************************************************************)
(* The pure part of ScoringService.ScoreQuestion                           *)
(* (internal/service/scoring.go): from the replies a question collected to *)
(* the questioner's score and share and to every answerer's score and      *)
(* share.                                                                  *)
(*                                                                         *)
(* A set of replies is a function r from assignments to Reply.  A reply is *)
(* Invalid (reply_valid = false, whatever the text) or the answer given    *)
(* (reply_valid = true).  checkAnswer compares with the question's         *)
(* reference answer for equality.                                          *)
(*                                                                         *)
(* Shares are the values the database keeps: NUMERIC(5,4) columns, that is *)
(* whole ten-thousandths, rounded half up.                                 *)
(***************************************************************************)
EXTENDS Integers, FiniteSets

CONSTANTS Answer,     \* the answer texts a worker may submit
          Reference,  \* the question's own answer
          Invalid     \* the judgement "this question is not valid"

ASSUME ReplyAssumption == Reference \in Answer /\ Invalid \notin Answer

Reply == Answer \cup {Invalid}

\* One whole reward pool, in units of the NUMERIC(5,4) column.
Whole == 10000

\* Mutant: shares are rounded up.
EqualShareCeiling(n) == (Whole + n - 1) \div n

\* 1/n as NUMERIC(5,4) stores it: n assignments share a pool equally.
EqualShare(n) == (2 * Whole + n) \div (2 * n)
----------------------------------------------------------------------------
(* Classification of the replies. *)

Correct(r)      == {a \in DOMAIN r : r[a] = Reference}
JudgedInvalid(r) == {a \in DOMAIN r : r[a] = Invalid}
Wrong(r)        == DOMAIN r \ (Correct(r) \cup JudgedInvalid(r))

\* The replies that say the same as a's: one entry of the groups map.
Group(r, a) == {b \in DOMAIN r : r[b] = r[a]}

\* The members of the largest group, or of all of them when several tie.
Winners(r) ==
  {a \in DOMAIN r :
     \A b \in DOMAIN r : Cardinality(Group(r, b)) <= Cardinality(Group(r, a))}
----------------------------------------------------------------------------
(* The three cases. *)

\* Mutant: the first row of the table is missing.
questionerCase3ScoreShifted(nCorrect) ==
  CASE nCorrect = 1 -> [score |-> 2, share |-> 1000]
    [] nCorrect = 2 -> [score |-> 5, share |-> 9000]
    [] nCorrect = 3 -> [score |-> 4, share |-> 7000]
    [] nCorrect = 4 -> [score |-> 3, share |-> 5000]
    [] OTHER        -> [score |-> 2, share |-> 1000]

questionerCase3Score(nCorrect) ==
  CASE nCorrect = 1 -> [score |-> 5, share |-> Whole]
    [] nCorrect = 2 -> [score |-> 5, share |-> 9000]
    [] nCorrect = 3 -> [score |-> 4, share |-> 7000]
    [] nCorrect = 4 -> [score |-> 3, share |-> 5000]
    [] OTHER        -> [score |-> 2, share |-> 1000]

\* What the questioner gets for the replies r.
QuestionerScore(r) ==
  CASE Correct(r) # {} -> questionerCase3Score(Cardinality(Correct(r)))
    [] JudgedInvalid(r) = DOMAIN r -> [score |-> 0, share |-> 0]
    [] OTHER -> [score |-> 1, share |-> 1000]

\* Mutant: the largest group is paid even when a reply is correct.
PaidByMajority(r) ==
  IF JudgedInvalid(r) = DOMAIN r THEN DOMAIN r ELSE Winners(r)

\* The assignments that share the answer pool of the question.
Paid(r) ==
  CASE Correct(r) # {} -> Correct(r)
    [] JudgedInvalid(r) = DOMAIN r -> DOMAIN r
    [] OTHER -> Winners(r)

\* What the answerer of assignment a gets: a score, and a part of the pool.
AnswererScore(r, a) ==
  [score |-> CASE a \in Paid(r) -> 5
               [] Correct(r) # {} /\ a \in Wrong(r) -> 3
               [] OTHER -> 2,
   share |-> IF a \in Paid(r) THEN EqualShare(Cardinality(Paid(r))) ELSE 0]

\* The values the column score can hold.
Scores == 0 .. 5
=============================================================================
