---------------------------- MODULE RewardProofs ----------------------------
(***************************************************************************)
(* Proofs about the rewards: Scoring and ScoringRound, what a question     *)
(* pays for its replies, then Payout and PayoutDay, what Settle pays for   *)
(* an epoch; for every number of replies, questions, workers, assignments  *)
(* and required answers, and for every pool and minimum of tasks.          *)
(***************************************************************************)
EXTENDS ScoringRound, PayoutDay, SumProofs

\* The replies have come in one after the other.
Arrivals ==
  /\ \E n \in 0 .. MaxReplies : DOMAIN replies = 1 .. n
  /\ replies \in [DOMAIN replies -> Reply]
----------------------------------------------------------------------------
(* Arithmetic. *)

\* What the division of a share rounds: at most half a unit, up or down.
LEMMA ShareBounds ==
  ASSUME NEW n \in Nat \ {0}
  PROVE  /\ EqualShare(n) \in Nat
         /\ 2 * (n * EqualShare(n)) <= 2 * Whole + n
         /\ 2 * (n * EqualShare(n)) + n > 2 * Whole
<1> DEFINE m == 2 * n
           c == EqualShare(n)
<1>1. m \in Nat \ {0} /\ 2 * Whole + n \in Nat
  BY DEF Whole
<1>2. c = (2 * Whole + n) \div m
  BY DEF EqualShare
<1> HIDE DEF m, c
<1>3. c \in Nat /\ m * c <= 2 * Whole + n /\ 2 * Whole + n < m * c + m
  BY <1>1, <1>2 DEF Whole
<1>4. m * c = 2 * (n * c)
  BY <1>3 DEF m
<1> QED
  BY <1>3, <1>4 DEF m, c, Whole

\* Nobody gets more than who gets all.
LEMMA ShareOfOne ==
  ASSUME NEW n \in Nat \ {0}
  PROVE  EqualShare(n) <= EqualShare(1) /\ EqualShare(1) = Whole
<1>1. EqualShare(1) = Whole
  BY DEF EqualShare, Whole
<1> DEFINE c == EqualShare(n)
<1>2. c \in Nat /\ 2 * (n * c) <= 2 * Whole + n
  BY ShareBounds
<1> HIDE DEF c
<1>3. CASE c > Whole
  <2>1. PICK d \in Nat : c = Whole + 1 + d
    BY <1>2, <1>3 DEF Whole
  <2>2. n * c = n * Whole + n + n * d /\ n * d \in Nat
    BY <2>1 DEF Whole
  <2>3. n * Whole >= Whole
    BY DEF Whole
  <2> QED
    BY <1>2, <2>2, <2>3 DEF Whole
<1> QED
  BY <1>1, <1>2, <1>3 DEF c, Whole

\* Among natural numbers there is a smallest.
LEMMA SmallestNat ==
  ASSUME NEW P \in SUBSET Nat, P # {}
  PROVE  \E k \in P : \A j \in P : k <= j
<1>1. PICK k \in P : \A j \in P : ~(<<j, k>> \in OpToRel(<, Nat))
  BY NatLessThanWellFounded, WFMin
<1>2. ASSUME NEW j \in P PROVE k <= j
  <2>1. OpToRel(<, Nat) = {ss \in Nat \X Nat : ss[1] < ss[2]}
    BY DEF OpToRel
  <2>2. <<j, k>> \in Nat \X Nat /\ <<j, k>>[1] = j /\ <<j, k>>[2] = k
    OBVIOUS
  <2>3. ~(j < k)
    BY <1>1, <2>1, <2>2
  <2> QED
    BY <2>3
<1> QED
  BY <1>2
----------------------------------------------------------------------------
(* The rules. *)

\* Questions have finitely many replies.
LEMMA RepliesFinite ==
  ASSUME Arrivals
  PROVE  /\ IsFiniteSet(DOMAIN replies) /\ Cardinality(DOMAIN replies) \in Nat
         /\ \A S \in SUBSET DOMAIN replies :
              /\ IsFiniteSet(S) /\ Cardinality(S) \in Nat
              /\ Cardinality(S) <= Cardinality(DOMAIN replies)
              /\ S # {} => Cardinality(S) # 0
<1>1. PICK n \in Nat : DOMAIN replies = 1 .. n
  BY MaxRepliesAssumption DEF Arrivals
<1>2. IsFiniteSet(DOMAIN replies)
  BY <1>1, FS_Interval
<1>3. ASSUME NEW S \in SUBSET DOMAIN replies
      PROVE  /\ IsFiniteSet(S) /\ Cardinality(S) \in Nat
             /\ Cardinality(S) <= Cardinality(DOMAIN replies)
             /\ S # {} => Cardinality(S) # 0
  BY <1>2, FS_Subset, FS_CardinalityType, FS_EmptySet
<1> QED
  BY <1>2, <1>3, FS_CardinalityType

\* Somebody has the largest group.
LEMMA WinnersExist ==
  ASSUME Arrivals, DOMAIN replies # {}
  PROVE  Winners(replies) # {}
<1> DEFINE size(a) == Cardinality(Group(replies, a))
           N == Cardinality(DOMAIN replies)
           P == {k \in Nat : \E a \in DOMAIN replies : size(a) = N - k}
<1>1. ASSUME NEW a \in DOMAIN replies PROVE size(a) \in Nat /\ size(a) <= N
  <2>1. Group(replies, a) \in SUBSET DOMAIN replies
    BY DEF Group
  <2> QED
    BY <2>1, RepliesFinite
<1>2. N \in Nat
  BY RepliesFinite
<1> HIDE DEF size, N
<1>3. P # {}
  <2>1. PICK a \in DOMAIN replies : TRUE
    OBVIOUS
  <2>2. N - size(a) \in Nat /\ size(a) = N - (N - size(a))
    BY <1>1, <1>2
  <2> QED
    BY <2>2
<1>4. PICK k \in P : \A j \in P : k <= j
  <2>1. P \in SUBSET Nat
    OBVIOUS
  <2> HIDE DEF P
  <2> QED
    BY <1>3, <2>1, SmallestNat
<1>5. PICK a \in DOMAIN replies : size(a) = N - k
  OBVIOUS
<1>6. ASSUME NEW b \in DOMAIN replies PROVE size(b) <= size(a)
  <2>1. N - size(b) \in P
    BY <1>1, <1>2
  <2>2. k <= N - size(b) /\ k \in Nat
    BY <1>4, <2>1
  <2> QED
    BY <1>1, <1>2, <1>5, <2>2
<1>7. a \in Winners(replies)
  BY <1>6 DEF Winners, size
<1> QED
  BY <1>7

\* The three cases exclude each other: a correct reply judges nothing invalid.
LEMMA CorrectCase ==
  ASSUME NEW r, Correct(r) # {}
  PROVE  /\ JudgedInvalid(r) # DOMAIN r /\ Paid(r) = Correct(r)
         /\ QuestionerScore(r) = questionerCase3Score(Cardinality(Correct(r)))
<1>1. JudgedInvalid(r) # DOMAIN r
  BY ReplyAssumption DEF Correct, JudgedInvalid
<1> QED
  BY <1>1 DEF Paid, QuestionerScore

\* Somebody is always paid, and only who has replied.
LEMMA PaidExist ==
  ASSUME Arrivals
  PROVE  /\ Paid(replies) \in SUBSET DOMAIN replies
         /\ DOMAIN replies # {} => Paid(replies) # {}
<1>1. CASE Correct(replies) # {}
  BY <1>1, CorrectCase DEF Correct
<1>2. CASE Correct(replies) = {} /\ JudgedInvalid(replies) = DOMAIN replies
  BY <1>2 DEF Paid
<1>3. CASE Correct(replies) = {} /\ JudgedInvalid(replies) # DOMAIN replies
  <2>1. Paid(replies) = Winners(replies)
    BY <1>3 DEF Paid
  <2>2. Winners(replies) \in SUBSET DOMAIN replies
    BY DEF Winners
  <2> QED
    BY <2>1, <2>2, WinnersExist
<1> QED
  BY <1>1, <1>2, <1>3

\* What changes if one more reply is correct.
LEMMA HadTruth ==
  ASSUME Arrivals, NEW a \in DOMAIN replies
  PROVE  /\ DOMAIN Had(a, Reference) = DOMAIN replies
         /\ Correct(Had(a, Reference)) = Correct(replies) \cup {a}
         /\ Correct(replies) \in SUBSET DOMAIN replies
         /\ Paid(Had(a, Reference)) = Correct(replies) \cup {a}
<1>1. /\ DOMAIN Had(a, Reference) = DOMAIN replies
      /\ \A b \in DOMAIN replies :
           Had(a, Reference)[b] = IF b = a THEN Reference ELSE replies[b]
  BY DEF Had, Arrivals
<1>2. Correct(Had(a, Reference)) = Correct(replies) \cup {a}
  BY <1>1 DEF Correct
<1>3. Correct(replies) \in SUBSET DOMAIN replies
  BY DEF Correct
<1>4. Correct(Had(a, Reference)) # {}
  BY <1>2
<1> QED
  BY <1>1, <1>2, <1>3, <1>4, CorrectCase

\* The scores and shares an answerer gets.
LEMMA AnswererIs ==
  ASSUME NEW r, NEW a
  PROVE  /\ AnswererScore(r, a).score \in {2, 3, 5}
         /\ a \in Paid(r) => /\ AnswererScore(r, a).score = 5
                             /\ AnswererScore(r, a).share = EqualShare(Cardinality(Paid(r)))
         /\ a \notin Paid(r) => AnswererScore(r, a).share = 0
<1>1. a \in Paid(r) => ~(Correct(r) # {} /\ a \in Wrong(r))
  BY CorrectCase DEF Wrong
<1> QED
  BY <1>1 DEF AnswererScore

\* The reference answer is the best reply.
LEMMA TruthBest ==
  ASSUME Arrivals PROVE TruthDominates
<1> SUFFICES ASSUME NEW a \in DOMAIN replies
             PROVE  /\ AnswererScore(Had(a, Reference), a).share
                         >= AnswererScore(replies, a).share
                    /\ AnswererScore(Had(a, Reference), a).score
                         >= AnswererScore(replies, a).score
  BY DEF TruthDominates
<1> DEFINE r == Had(a, Reference)
           C == Correct(replies)
           n == Cardinality(C \cup {a})
<1>1. Paid(r) = C \cup {a} /\ C \cup {a} \in SUBSET DOMAIN replies
  BY HadTruth
<1>2. n \in Nat \ {0}
  BY <1>1, RepliesFinite
<1>3. AnswererScore(r, a).score = 5 /\ AnswererScore(r, a).share = EqualShare(n)
  BY <1>1, AnswererIs
<1>4. AnswererScore(replies, a).score \in {2, 3, 5}
  BY AnswererIs
<1>5. EqualShare(n) \in Nat
  BY <1>2, ShareBounds
<1> HIDE DEF r, n
<1>6. EqualShare(n) >= AnswererScore(replies, a).share
  <2>1. CASE a \notin Paid(replies)
    BY <1>5, <2>1, AnswererIs
  <2>2. CASE a \in Paid(replies) /\ C # {}
    <3>1. Paid(replies) = C
      BY <2>2, CorrectCase
    <3>2. C \cup {a} = C
      BY <2>2, <3>1
    <3>3. AnswererScore(replies, a).share = EqualShare(n)
      BY <2>2, <3>1, <3>2, AnswererIs DEF n
    <3> QED
      BY <1>5, <3>3
  <2>3. CASE a \in Paid(replies) /\ C = {}
    <3> DEFINE m == Cardinality(Paid(replies))
    <3>1. m \in Nat \ {0}
      BY <2>3, PaidExist, RepliesFinite
    <3>2. AnswererScore(replies, a).share = EqualShare(m)
      BY <2>3, AnswererIs
    <3>3. n = 1
      BY <2>3, FS_Singleton, {} \cup {a} = {a} DEF n
    <3> HIDE DEF m
    <3>4. EqualShare(m) <= EqualShare(1) /\ EqualShare(m) \in Nat
      BY <3>1, ShareOfOne, ShareBounds
    <3> QED
      BY <1>5, <3>2, <3>3, <3>4
  <2> QED
    BY <2>1, <2>2, <2>3
<1>7. AnswererScore(replies, a).share \in Nat
  <2>1. CASE a \notin Paid(replies)
    BY <2>1, AnswererIs
  <2>2. CASE a \in Paid(replies)
    <3> DEFINE m == Cardinality(Paid(replies))
    <3>1. m \in Nat \ {0}
      BY <2>2, PaidExist, RepliesFinite
    <3>2. AnswererScore(replies, a).share = EqualShare(m)
      BY <2>2, AnswererIs
    <3> HIDE DEF m
    <3> QED
      BY <3>1, <3>2, ShareBounds
  <2> QED
    BY <2>1, <2>2
<1> QED
  BY <1>3, <1>4, <1>5, <1>6, <1>7 DEF r

\* What the questioner gets for n correct replies.
LEMMA TableFalls ==
  ASSUME NEW n \in Nat \ {0}
  PROVE  /\ questionerCase3Score(n + 1).share <= questionerCase3Score(n).share
         /\ questionerCase3Score(n + 1).score <= questionerCase3Score(n).score
         /\ questionerCase3Score(1) = [score |-> 5, share |-> Whole]
<1>1. questionerCase3Score(1) = [score |-> 5, share |-> Whole]
  BY DEF questionerCase3Score
<1>2. CASE n \in {1, 2, 3, 4}
  BY <1>2 DEF questionerCase3Score, Whole
<1>3. CASE n > 4
  BY <1>3 DEF questionerCase3Score
<1> QED
  BY <1>1, <1>2, <1>3

\* A hard question that can be solved pays most.
LEMMA HardPays ==
  ASSUME Arrivals PROVE HardButSolvable
<1> SUFFICES ASSUME NEW a \in DOMAIN replies \ Correct(replies)
             PROVE  IF Correct(replies) = {}
                      THEN /\ QuestionerScore(Had(a, Reference)).share
                                > QuestionerScore(replies).share
                           /\ QuestionerScore(Had(a, Reference)).score
                                > QuestionerScore(replies).score
                      ELSE /\ QuestionerScore(Had(a, Reference)).share
                                <= QuestionerScore(replies).share
                           /\ QuestionerScore(Had(a, Reference)).score
                                <= QuestionerScore(replies).score
  BY DEF HardButSolvable
<1> DEFINE C == Correct(replies)
           n == Cardinality(C)
<1>1. /\ Correct(Had(a, Reference)) = C \cup {a} /\ C \in SUBSET DOMAIN replies
      /\ a \notin C
  BY HadTruth
<1>2. n \in Nat /\ IsFiniteSet(C) /\ (C # {} => n # 0)
  BY <1>1, RepliesFinite
<1>3. Cardinality(C \cup {a}) = n + 1
  BY <1>1, <1>2, FS_AddElement
<1> HIDE DEF C, n
<1>4. QuestionerScore(Had(a, Reference)) = questionerCase3Score(n + 1)
  BY <1>1, <1>3, CorrectCase
<1>5. CASE C = {}
  <2>1. n = 0
    BY <1>5, FS_EmptySet DEF n
  <2>2. QuestionerScore(replies) \in {[score |-> 0, share |-> 0], [score |-> 1, share |-> 1000]}
    BY <1>5 DEF QuestionerScore, C
  <2>3. QuestionerScore(Had(a, Reference)) = [score |-> 5, share |-> Whole]
    BY <1>4, <2>1 DEF questionerCase3Score
  <2> QED
    BY <1>5, <2>2, <2>3 DEF C, Whole
<1>6. CASE C # {}
  <2>1. QuestionerScore(replies) = questionerCase3Score(n)
    BY <1>6, CorrectCase DEF C, n
  <2> QED
    BY <1>2, <1>4, <1>6, <2>1, TableFalls DEF C
<1> QED
  BY <1>5, <1>6

\* Up to five shares never round to more than the pool.
LEMMA FewShares ==
  ASSUME NEW m \in 1 .. 5
  PROVE  EqualShare(m) * m <= Whole
<1>1. /\ EqualShare(1) = 10000 /\ EqualShare(2) = 5000 /\ EqualShare(3) = 3333
      /\ EqualShare(4) = 2500 /\ EqualShare(5) = 2000
  BY DEF EqualShare, Whole
<1>2. m = 1 \/ m = 2 \/ m = 3 \/ m = 4 \/ m = 5
  OBVIOUS
<1> QED
  BY <1>1, <1>2 DEF Whole

\* The shares of the paid add up to the pool.
LEMMA PoolPaid ==
  ASSUME Arrivals PROVE PoolPaidOnce
<1> SUFFICES ASSUME DOMAIN replies # {}
             PROVE  /\ PaidOut > Whole - Arrived /\ PaidOut < Whole + Arrived
                    /\ Arrived <= 5 => PaidOut <= Whole
  BY DEF PoolPaidOnce
<1> DEFINE A == Paid(replies)
           m == Cardinality(A)
           c == EqualShare(m)
           F == [a \in DOMAIN replies |-> AnswererScore(replies, a).share]
<1>1. A \in SUBSET DOMAIN replies /\ A # {}
  BY PaidExist
<1>2. m \in Nat \ {0} /\ m <= Arrived /\ Arrived \in Nat
  BY <1>1, RepliesFinite DEF Arrived
<1>3. \A a \in DOMAIN replies : F[a] = IF a \in A THEN c ELSE 0
  BY AnswererIs
<1>4. PaidOut = SumOver(F, DOMAIN replies)
  BY DEF PaidOut
<1> HIDE DEF A, F, c
<1>5. c \in Nat /\ 2 * (m * c) <= 2 * Whole + m /\ 2 * (m * c) + m > 2 * Whole
  <2> HIDE DEF m
  <2> QED
    BY <1>2, ShareBounds DEF c
<1>6. PaidOut = c * m
  BY <1>1, <1>3, <1>4, <1>5, RepliesFinite, SumEqual
<1>7. Arrived <= 5 => c * m <= Whole
  <2> HIDE DEF m
  <2>1. Arrived <= 5 => m \in 1 .. 5
    BY <1>2
  <2> QED
    BY <2>1, FewShares DEF c
<1> HIDE DEF m
<1>8. c * m = m * c /\ m * c \in Nat
  BY <1>2, <1>5
<1> QED
  BY <1>2, <1>5, <1>6, <1>7, <1>8 DEF Whole
----------------------------------------------------------------------------
(* The invariant. *)

\* No reply has arrived at the start.
LEMMA RoundInitInv == RoundInit => Arrivals
<1> SUFFICES ASSUME RoundInit PROVE Arrivals
  OBVIOUS
<1>1. DOMAIN replies = {} /\ replies \in [DOMAIN replies -> Reply]
  BY DEF RoundInit
<1>2. 0 \in 0 .. MaxReplies /\ 1 .. 0 = {}
  BY MaxRepliesAssumption
<1> QED
  BY <1>1, <1>2 DEF Arrivals

\* The next reply takes the next number.
LEMMA RoundNextInv == Arrivals /\ [RoundNext]_replies => Arrivals'
<1> SUFFICES ASSUME Arrivals, RoundNext PROVE Arrivals'
  BY DEF Arrivals
<1>1. PICK v \in Reply : ReplyArrives(v)
  BY DEF RoundNext
<1>2. PICK n \in 0 .. MaxReplies : DOMAIN replies = 1 .. n
  BY DEF Arrivals
<1>3. n \in Nat
  BY <1>2, MaxRepliesAssumption
<1>4. Cardinality(1 .. n) = n
  BY <1>3, FS_Interval
<1>5. Arrived = n /\ n < MaxReplies
  BY <1>1, <1>2, <1>4 DEF Arrived, ReplyArrives
<1>6. DOMAIN replies' = 1 .. (n + 1)
  <2>1. DOMAIN replies' = 1 .. n \cup {n + 1}
    BY <1>1, <1>2, <1>5 DEF ReplyArrives
  <2> QED
    BY <1>3, <2>1
<1>7. n + 1 \in 0 .. MaxReplies
  BY <1>3, <1>5, MaxRepliesAssumption
<1>8. replies' \in [DOMAIN replies' -> Reply]
  <2>1. \A a \in DOMAIN replies : replies[a] \in Reply
    BY DEF Arrivals
  <2> QED
    BY <1>1, <2>1 DEF ReplyArrives
<1> QED
  BY <1>6, <1>7, <1>8 DEF Arrivals

\* The invariant holds always.
LEMMA AlwaysRound == RoundSpec => []Arrivals
  BY RoundInitInv, RoundNextInv, PTL DEF RoundSpec
----------------------------------------------------------------------------
(* The theorems. *)

\* Whatever the others reply, and however many of them, no reply gives a worker
\* more than the reference answer (the three cases of ScoreQuestion).
THEOREM TruthIsBest == RoundSpec => []TruthDominates
  BY TruthBest, AlwaysRound, PTL

\* The first correct reply raises what the questioner earns, no further one
\* does (questionerCase3Score against the cases without a correct reply).
THEOREM HardQuestionsPay == RoundSpec => []HardButSolvable
  BY HardPays, AlwaysRound, PTL

\* The stored answer shares of a question add up to one pool, but for rounding
\* (the NUMERIC(5,4) columns SetAssignmentScore writes).
THEOREM PoolIsPaidOnce == RoundSpec => []PoolPaidOnce
  BY PoolPaid, AlwaysRound, PTL
----------------------------------------------------------------------------
(* An epoch. *)

\* Only finitely many assignments have been closed.
Inv == IsFiniteSet(DOMAIN closed)

\* What Settle relies on in the rows it lists, and all that the computation
\* needs: scores and shares in range, and nothing for a time-out.
Listed(ask, ans) ==
  /\ IsFiniteSet(DOMAIN ask) /\ IsFiniteSet(DOMAIN ans) /\ DOMAIN ask # {}
  /\ \A q \in DOMAIN ask : ask[q].score \in 0 .. 5 /\ ask[q].share \in 0 .. Whole
  /\ \A a \in DOMAIN ans :
       /\ ans[a].q \in DOMAIN ask /\ ans[a].status \in {"scored", "timed-out"}
       /\ ans[a].score \in 0 .. 5 /\ ans[a].share \in Nat
       /\ ans[a].status = "timed-out" => ans[a].score = 0 /\ ans[a].share = 0
----------------------------------------------------------------------------
(* The scoring rules. *)

\* Only who has replied is paid.
LEMMA PaidReplied == ASSUME NEW r PROVE Paid(r) \in SUBSET DOMAIN r
<1>1. CASE Correct(r) # {}
  BY <1>1, CorrectCase DEF Correct
<1>2. CASE Correct(r) = {} /\ JudgedInvalid(r) = DOMAIN r
  BY <1>2 DEF Paid
<1>3. CASE Correct(r) = {} /\ JudgedInvalid(r) # DOMAIN r
  BY <1>3 DEF Paid, Winners
<1> QED
  BY <1>1, <1>2, <1>3

\* What a questioner can get.
LEMMA QuestionerRange ==
  ASSUME NEW r
  PROVE  /\ QuestionerScore(r).score \in 0 .. 5
         /\ QuestionerScore(r).share \in 0 .. Whole
<1>1. CASE Correct(r) # {}
  <2> DEFINE n == Cardinality(Correct(r))
  <2>1. QuestionerScore(r) = questionerCase3Score(n)
    BY <1>1, CorrectCase
  <2> HIDE DEF n
  <2>2. /\ questionerCase3Score(n).score \in {5, 4, 3, 2}
        /\ questionerCase3Score(n).share \in {Whole, 9000, 7000, 5000, 1000}
    <3>1. CASE n = 1
      BY <3>1 DEF questionerCase3Score
    <3>2. CASE n = 2
      BY <3>2 DEF questionerCase3Score
    <3>3. CASE n = 3
      BY <3>3 DEF questionerCase3Score
    <3>4. CASE n = 4
      BY <3>4 DEF questionerCase3Score
    <3>5. CASE n # 1 /\ n # 2 /\ n # 3 /\ n # 4
      BY <3>5 DEF questionerCase3Score
    <3> QED
      BY <3>1, <3>2, <3>3, <3>4, <3>5
  <2>3. PICK x, y : x = QuestionerScore(r).score /\ y = QuestionerScore(r).share
    OBVIOUS
  <2>4. x \in {5, 4, 3, 2} /\ y \in {Whole, 9000, 7000, 5000, 1000}
    BY <2>1, <2>2, <2>3
  <2>5. x \in 0 .. 5 /\ y \in 0 .. Whole
    BY <2>4 DEF Whole
  <2> QED
    BY <2>3, <2>5
<1>2. CASE Correct(r) = {}
  <2>1. CASE JudgedInvalid(r) = DOMAIN r
    <3>1. QuestionerScore(r) = [score |-> 0, share |-> 0]
      BY <1>2, <2>1 DEF QuestionerScore
    <3> QED
      BY <3>1 DEF Whole
  <2>2. CASE JudgedInvalid(r) # DOMAIN r
    <3>1. QuestionerScore(r) = [score |-> 1, share |-> 1000]
      BY <1>2, <2>2 DEF QuestionerScore
    <3> QED
      BY <3>1 DEF Whole
  <2> QED
    BY <2>1, <2>2
<1> QED
  BY <1>1, <1>2

\* What an answerer can get.
LEMMA AnswererRange ==
  ASSUME NEW r, NEW a
  PROVE  /\ AnswererScore(r, a).score \in 0 .. 5
         /\ AnswererScore(r, a).share =
              IF a \in Paid(r) THEN EqualShare(Cardinality(Paid(r))) ELSE 0
<1>1. a \in Paid(r) => ~(Correct(r) # {} /\ a \in Wrong(r))
  BY CorrectCase DEF Wrong
<1> QED
  BY <1>1 DEF AnswererScore

\* The shares of up to five answerers do not add up to more than the pool.
LEMMA SharesFit ==
  ASSUME NEW r, IsFiniteSet(DOMAIN r),
         NEW F, \A a \in DOMAIN r : F[a] = AnswererScore(r, a).share
  PROVE  /\ \A a \in DOMAIN r : F[a] \in Nat
         /\ Cardinality(DOMAIN r) <= 5 => SumOver(F, DOMAIN r) <= Whole
<1> DEFINE A == Paid(r)
           n == Cardinality(A)
           c == EqualShare(n)
<1>1. /\ A \in SUBSET DOMAIN r /\ IsFiniteSet(A) /\ n \in Nat
      /\ n <= Cardinality(DOMAIN r) /\ (A # {} => n # 0)
  BY PaidReplied, FS_Subset, FS_CardinalityType, FS_EmptySet
<1>2. \A a \in DOMAIN r : F[a] = IF a \in A THEN c ELSE 0
  BY AnswererRange
<1>3. Cardinality(DOMAIN r) \in Nat
  BY FS_CardinalityType
<1>4. CASE A = {}
  <2>1. \A a \in DOMAIN r \ {} : F[a] = 0
    BY <1>2, <1>4
  <2>2. SumOver(F, DOMAIN r) = SumOver(F, {})
    BY <2>1, SumZeros
  <2> QED
    BY <2>1, <2>2, SumEmpty DEF Whole
<1>5. CASE A # {}
  <2>1. c \in Nat
    BY <1>1, <1>5, ShareBounds
  <2> HIDE DEF A, c
  <2>2. SumOver(F, DOMAIN r) = c * n
    BY <1>1, <1>2, <2>1, SumEqual
  <2>3. Cardinality(DOMAIN r) <= 5 => n \in 1 .. 5
    BY <1>1, <1>3, <1>5
  <2> QED
    BY <1>2, <2>1, <2>2, <2>3, FewShares DEF c
<1> QED
  BY <1>4, <1>5
----------------------------------------------------------------------------
(* Arithmetic. *)

\* Products grow with their factors.
LEMMA MulMono ==
  ASSUME NEW a \in Nat, NEW b \in Nat, NEW c \in Nat, a <= b
  PROVE  a * c <= b * c /\ c * a <= c * b /\ a * c \in Nat /\ b * c \in Nat
<1>1. PICK d \in Nat : b = a + d
  <2>1. b - a \in Nat /\ b = a + (b - a)
    OBVIOUS
  <2> QED
    BY <2>1
<1>2. b * c = a * c + d * c /\ d * c \in Nat /\ a * c \in Nat
  BY <1>1
<1>3. c * a = a * c /\ c * b = b * c
  OBVIOUS
<1> QED
  BY <1>2, <1>3

\* The integer quotient.
LEMMA DivIs ==
  ASSUME NEW x \in Nat, NEW d \in Nat \ {0}
  PROVE  /\ x \div d \in Nat /\ d * (x \div d) <= x /\ x < d * (x \div d) + d
         /\ \A k \in Nat : d * k <= x => k <= x \div d
         /\ \A k \in Nat : x < d * k + d => x \div d <= k
<1> DEFINE q == x \div d
<1>1. q \in Nat /\ d * q <= x /\ x < d * q + d
  OBVIOUS
<1> HIDE DEF q
<1>2. ASSUME NEW k \in Nat, d * k <= x PROVE k <= q
  <2>1. CASE q + 1 <= k
    <3>1. d * (q + 1) <= d * k /\ d * (q + 1) = d * q + d
      BY <1>1, <2>1, MulMono
    <3>2. d * q \in Nat /\ d * k \in Nat
      BY <1>1
    <3> QED
      BY <1>1, <1>2, <3>1, <3>2
  <2> QED
    BY <1>1, <2>1
<1>3. ASSUME NEW k \in Nat, x < d * k + d PROVE q <= k
  <2>1. CASE k + 1 <= q
    <3>1. d * (k + 1) <= d * q /\ d * (k + 1) = d * k + d
      BY <1>1, <2>1, MulMono
    <3>2. d * q \in Nat /\ d * k \in Nat
      BY <1>1
    <3> QED
      BY <1>1, <1>3, <3>1, <3>2
  <2> QED
    BY <1>1, <2>1
<1> QED
  BY <1>1, <1>2, <1>3 DEF q

\* Quotients grow with the dividend.
LEMMA DivMono ==
  ASSUME NEW x \in Nat, NEW y \in Nat, x <= y, NEW d \in Nat \ {0}
  PROVE  x \div d <= y \div d
<1> DEFINE q == x \div d
<1>1. q \in Nat /\ d * q <= x
  BY DivIs
<1> HIDE DEF q
<1>2. d * q \in Nat
  BY <1>1
<1>3. d * q <= y
  BY <1>1, <1>2
<1>4. q <= y \div d
  BY <1>1, <1>3, DivIs
<1> QED
  BY <1>4 DEF q

\* What truncation to units costs.
LEMMA PartIs ==
  ASSUME NEW pool \in Nat, NEW share \in Nat
  PROVE  /\ Part(pool, share) \in Nat
         /\ Whole * Part(pool, share) <= pool * share
         /\ pool * share <= Whole * Part(pool, share) + (Whole - 1)
         /\ share <= Whole => Part(pool, share) <= pool
         /\ share = 0 => Part(pool, share) = 0
<1> DEFINE x == pool * share
           q == x \div Whole
<1>1. x \in Nat /\ Whole \in Nat \ {0}
  BY DEF Whole
<1>2. Part(pool, share) = q
  BY DEF Part
<1>3. q \in Nat /\ Whole * q <= x /\ x < Whole * q + Whole
  <2> HIDE DEF x
  <2> QED
    BY <1>1, DivIs
<1> HIDE DEF q
<1>4. ASSUME share <= Whole PROVE q <= pool
  <2>1. x <= pool * Whole
    BY <1>1, <1>4, MulMono
  <2> HIDE DEF x
  <2> QED
    BY <1>1, <1>3, <2>1 DEF Whole
<1>5. ASSUME share = 0 PROVE q = 0
  <2>1. x = 0
    BY <1>5
  <2> HIDE DEF x
  <2> QED
    BY <1>3, <2>1 DEF Whole
<1>6. x <= Whole * q + (Whole - 1)
  <2> HIDE DEF x
  <2> QED
    BY <1>1, <1>3 DEF Whole
<1> QED
  BY <1>2, <1>3, <1>4, <1>5, <1>6

\* The pools of the questions are natural numbers, and all of them together no
\* more than the epoch's.
LEMMA PoolsFit ==
  ASSUME NEW ask, IsFiniteSet(DOMAIN ask), DOMAIN ask # {}
  PROVE  /\ BaseReward(ask) \in Nat /\ AskPool(ask) \in Nat /\ AnsPool(ask) \in Nat
         /\ AskPool(ask) + AnsPool(ask) = BaseReward(ask)
         /\ Cardinality(DOMAIN ask) \in Nat \ {0}
         /\ Cardinality(DOMAIN ask) * BaseReward(ask) <= TotalReward
<1> DEFINE n == Cardinality(DOMAIN ask)
           base == TotalReward \div n
<1>1. n \in Nat \ {0}
  BY FS_CardinalityType, FS_EmptySet
<1>2. BaseReward(ask) = base
  BY DEF BaseReward
<1> HIDE DEF n
<1>3. base \in Nat /\ n * base <= TotalReward
  BY <1>1, DivIs, PayoutAssumption
<1> HIDE DEF base
<1>4. base \div 3 \in Nat /\ base - base \div 3 \in Nat
      /\ base \div 3 + (base - base \div 3) = base
  BY <1>3
<1> QED
  BY <1>1, <1>2, <1>3, <1>4 DEF n, AskPool, AnsPool
----------------------------------------------------------------------------
(* One worker's row. *)

\* The tasks of a worker are finitely many of those listed.
LEMMA WorkerRows ==
  ASSUME NEW ask, NEW ans, Listed(ask, ans), NEW w
  PROVE  /\ Asked(ask, w) \in SUBSET DOMAIN ask /\ IsFiniteSet(Asked(ask, w))
         /\ Answered(ask, ans, w) \in SUBSET DOMAIN ans
         /\ IsFiniteSet(Answered(ask, ans, w))
         /\ ScoredAnswers(ask, ans, w) \in SUBSET Answered(ask, ans, w)
         /\ IsFiniteSet(ScoredAnswers(ask, ans, w))
         /\ Cardinality(Asked(ask, w)) \in Nat /\ Cardinality(Answered(ask, ans, w)) \in Nat
         /\ Cardinality(ScoredAnswers(ask, ans, w)) \in Nat
<1>1. Asked(ask, w) \in SUBSET DOMAIN ask /\ Answered(ask, ans, w) \in SUBSET DOMAIN ans
      /\ ScoredAnswers(ask, ans, w) \in SUBSET Answered(ask, ans, w)
  BY DEF Asked, Answered, ScoredAnswers
<1>2. IsFiniteSet(Asked(ask, w)) /\ IsFiniteSet(Answered(ask, ans, w))
  BY <1>1, FS_Subset DEF Listed
<1>3. IsFiniteSet(ScoredAnswers(ask, ans, w))
  BY <1>1, <1>2, FS_Subset
<1> QED
  BY <1>1, <1>2, <1>3, FS_CardinalityType

\* The columns are natural numbers; a time-out has nothing in them.
LEMMA Columns ==
  ASSUME NEW ask, NEW ans, Listed(ask, ans), NEW pool \in Nat
  PROVE  /\ \A q \in DOMAIN ask :
              /\ ScoreOf(ask)[q] \in Nat /\ ScoreOf(ask)[q] <= 5
              /\ ShareOf(ask)[q] \in Nat /\ ShareOf(ask)[q] = ask[q].share
              /\ Parts(pool, ask)[q] = Part(pool, ShareOf(ask)[q])
              /\ Parts(pool, ask)[q] \in Nat /\ Parts(pool, ask)[q] <= pool
         /\ \A a \in DOMAIN ans :
              /\ ScoreOf(ans)[a] \in Nat /\ ScoreOf(ans)[a] <= 5
              /\ ShareOf(ans)[a] \in Nat /\ ShareOf(ans)[a] = ans[a].share
              /\ Parts(pool, ans)[a] = Part(pool, ShareOf(ans)[a])
              /\ Parts(pool, ans)[a] \in Nat
              /\ ans[a].status # "scored" =>
                   /\ ScoreOf(ans)[a] = 0 /\ ShareOf(ans)[a] = 0
                   /\ Parts(pool, ans)[a] = 0
<1>1. ASSUME NEW q \in DOMAIN ask
      PROVE  /\ ScoreOf(ask)[q] \in Nat /\ ScoreOf(ask)[q] <= 5
             /\ ShareOf(ask)[q] \in Nat /\ ShareOf(ask)[q] = ask[q].share
             /\ Parts(pool, ask)[q] = Part(pool, ShareOf(ask)[q])
             /\ Parts(pool, ask)[q] \in Nat /\ Parts(pool, ask)[q] <= pool
  <2>1. ask[q].score \in 0 .. 5 /\ ask[q].share \in Nat /\ ask[q].share <= Whole
    <3>1. ask[q].score \in 0 .. 5 /\ ask[q].share \in 0 .. Whole
      BY DEF Listed
    <3>2. \A n \in 0 .. Whole : n \in Nat /\ n <= Whole
      BY DEF Whole
    <3> QED
      BY <3>1, <3>2
  <2>2. /\ ScoreOf(ask)[q] = ask[q].score /\ ShareOf(ask)[q] = ask[q].share
        /\ Parts(pool, ask)[q] = Part(pool, ask[q].share)
    BY DEF ScoreOf, ShareOf, Parts
  <2>3. Part(pool, ask[q].share) \in Nat /\ Part(pool, ask[q].share) <= pool
    BY <2>1, PartIs
  <2> QED
    BY <2>1, <2>2, <2>3
<1>2. ASSUME NEW a \in DOMAIN ans
      PROVE  /\ ScoreOf(ans)[a] \in Nat /\ ScoreOf(ans)[a] <= 5
             /\ ShareOf(ans)[a] \in Nat /\ ShareOf(ans)[a] = ans[a].share
             /\ Parts(pool, ans)[a] = Part(pool, ShareOf(ans)[a])
             /\ Parts(pool, ans)[a] \in Nat
             /\ ans[a].status # "scored" =>
                  /\ ScoreOf(ans)[a] = 0 /\ ShareOf(ans)[a] = 0
                  /\ Parts(pool, ans)[a] = 0
  <2>1. /\ ans[a].score \in 0 .. 5 /\ ans[a].share \in Nat
        /\ ans[a].status # "scored" => ans[a].score = 0 /\ ans[a].share = 0
    BY DEF Listed
  <2>2. /\ ScoreOf(ans)[a] = ans[a].score /\ ShareOf(ans)[a] = ans[a].share
        /\ Parts(pool, ans)[a] = Part(pool, ans[a].share)
    BY DEF ScoreOf, ShareOf, Parts
  <2>3. Part(pool, ans[a].share) \in Nat /\ (ans[a].share = 0 => Part(pool, ans[a].share) = 0)
    BY <2>1, PartIs
  <2> QED
    BY <2>1, <2>2, <2>3
<1> QED
  BY <1>1, <1>2

\* No average exceeds five.
LEMMA ScoreSums ==
  ASSUME NEW ask, NEW ans, Listed(ask, ans), NEW w
  PROVE  /\ AskSum(ask, w) \in Nat /\ AskSum(ask, w) <= 5 * Cardinality(Asked(ask, w))
         /\ AnsSum(ask, ans, w) \in Nat
         /\ AnsSum(ask, ans, w) <= 5 * Cardinality(Answered(ask, ans, w))
<1> DEFINE A == Asked(ask, w)
           B == Answered(ask, ans, w)
           F == ScoreOf(ask)
           G == ScoreOf(ans)
<1>1. /\ A \in SUBSET DOMAIN ask /\ IsFiniteSet(A) /\ B \in SUBSET DOMAIN ans
      /\ IsFiniteSet(B) /\ Cardinality(A) \in Nat /\ Cardinality(B) \in Nat
  BY WorkerRows
<1>2. (\A q \in A : F[q] \in Nat /\ F[q] <= 5) /\ (\A a \in B : G[a] \in Nat /\ G[a] <= 5)
  <2>1. 0 \in Nat
    OBVIOUS
  <2> QED
    BY <1>1, <2>1, Columns
<1>3. AskSum(ask, w) = SumOver(F, A) /\ AnsSum(ask, ans, w) = SumOver(G, B)
  BY DEF AskSum, AnsSum
<1> HIDE DEF A, B, F, G
<1>4. SumOver(F, A) \in Nat /\ SumOver(G, B) \in Nat
  BY <1>1, <1>2, SumType
<1>5. 1 * SumOver(F, A) <= 0 * SumOver(F, A) + 5 * Cardinality(A)
  <2>1. \A q \in A : F[q] \in Nat /\ 1 * F[q] <= 0 * F[q] + 5
    BY <1>2
  <2> QED
    BY <1>1, <2>1, SumBound
<1>6. 1 * SumOver(G, B) <= 0 * SumOver(G, B) + 5 * Cardinality(B)
  <2>1. \A a \in B : G[a] \in Nat /\ 1 * G[a] <= 0 * G[a] + 5
    BY <1>2
  <2> QED
    BY <1>1, <2>1, SumBound
<1> QED
  BY <1>1, <1>3, <1>4, <1>5, <1>6 DEF A, B

\* The composite score is a fraction of at most one.
LEMMA CompositeIs ==
  ASSUME NEW ask, NEW ans, Listed(ask, ans), NEW w
  PROVE  \E n, m \in Nat \ {0} :
           /\ n = AtLeastOne(Cardinality(Asked(ask, w)))
           /\ m = AtLeastOne(Cardinality(Answered(ask, ans, w)))
           /\ Composite(ask, ans, w).num = AskSum(ask, w) * m + AnsSum(ask, ans, w) * n
           /\ Composite(ask, ans, w).den = 10 * n * m
           /\ AskSum(ask, w) <= 5 * n /\ AnsSum(ask, ans, w) <= 5 * m
           /\ Composite(ask, ans, w).num \in Nat
           /\ Composite(ask, ans, w).den \in Nat \ {0}
           /\ Composite(ask, ans, w).num <= Composite(ask, ans, w).den
<1> DEFINE n == AtLeastOne(Cardinality(Asked(ask, w)))
           m == AtLeastOne(Cardinality(Answered(ask, ans, w)))
           S == AskSum(ask, w)
           T == AnsSum(ask, ans, w)
           c == Composite(ask, ans, w)
<1>1. n \in Nat \ {0} /\ m \in Nat \ {0} /\ S \in Nat /\ T \in Nat
      /\ S <= 5 * n /\ T <= 5 * m
  BY WorkerRows, ScoreSums DEF AtLeastOne
<1>2. c.num = S * m + T * n /\ c.den = 10 * n * m
  BY DEF Composite
<1> HIDE DEF n, m, S, T, c
<1>3. S * m <= (5 * n) * m /\ S * m \in Nat
  BY <1>1, MulMono
<1>4. T * n <= (5 * m) * n /\ T * n \in Nat
  BY <1>1, MulMono
<1>5. PICK k \in Nat \ {0} : k = n * m
  BY <1>1
<1>6. (5 * n) * m = 5 * k /\ (5 * m) * n = 5 * k /\ 10 * n * m = 10 * k
  BY <1>1, <1>5
<1>7. S * m + T * n \in Nat /\ S * m + T * n <= 10 * k
  BY <1>3, <1>4, <1>6
<1>8. c.num \in Nat /\ c.den \in Nat \ {0} /\ c.num <= c.den
  BY <1>2, <1>6, <1>7
<1> QED
  BY <1>1, <1>2, <1>8 DEF n, m, S, T, c

\* What a worker is paid for, before the composite score.
LEMMA RawSums ==
  ASSUME NEW ask, NEW ans, Listed(ask, ans), NEW w
  PROVE  /\ SumOver(Parts(AskPool(ask), ask), Asked(ask, w)) \in Nat
         /\ SumOver(Parts(AnsPool(ask), ans), Answered(ask, ans, w)) \in Nat
         /\ RawReward(ask, ans, w) \in Nat
<1>1. AskPool(ask) \in Nat /\ AnsPool(ask) \in Nat
  BY PoolsFit DEF Listed
<1>2. (\A q \in Asked(ask, w) : Parts(AskPool(ask), ask)[q] \in Nat)
      /\ IsFiniteSet(Asked(ask, w))
  BY <1>1, WorkerRows, Columns
<1>3. (\A a \in Answered(ask, ans, w) : Parts(AnsPool(ask), ans)[a] \in Nat)
      /\ IsFiniteSet(Answered(ask, ans, w))
  BY <1>1, WorkerRows, Columns
<1>4. /\ SumOver(Parts(AskPool(ask), ask), Asked(ask, w)) \in Nat
      /\ SumOver(Parts(AnsPool(ask), ans), Answered(ask, ans, w)) \in Nat
  BY <1>2, <1>3, SumType
<1> QED
  BY <1>4 DEF RawReward

\* A fraction of at most one makes nothing larger.
LEMMA FractionOf ==
  ASSUME NEW raw \in Nat, NEW num \in Nat, NEW den \in Nat \ {0}, num <= den
  PROVE  (raw * num) \div den \in Nat /\ (raw * num) \div den <= raw
<1> DEFINE x == raw * num
<1>1. x \in Nat /\ x <= den * raw /\ den * raw \in Nat
  <2>1. raw * num <= raw * den /\ raw * num \in Nat
    BY MulMono
  <2>2. raw * den = den * raw /\ den * raw \in Nat
    OBVIOUS
  <2> QED
    BY <2>1, <2>2
<1> HIDE DEF x
<1>2. x < den * raw + den
  BY <1>1
<1>3. x \div den \in Nat /\ x \div den <= raw
  BY <1>1, <1>2, DivIs
<1> QED
  BY <1>3 DEF x

\* No worker's final reward exceeds the raw reward.
LEMMA FinalIs ==
  ASSUME NEW ask, NEW ans, Listed(ask, ans), NEW w
  PROVE  FinalReward(ask, ans, w) \in Nat /\ FinalReward(ask, ans, w) <= RawReward(ask, ans, w)
<1> DEFINE c == Composite(ask, ans, w)
           raw == RawReward(ask, ans, w)
<1>1. raw \in Nat /\ c.num \in Nat /\ c.den \in Nat \ {0} /\ c.num <= c.den
  BY RawSums, CompositeIs
<1>2. FinalReward(ask, ans, w) \in {(raw * c.num) \div c.den, 0}
  BY DEF FinalReward
<1> HIDE DEF c, raw
<1>3. (raw * c.num) \div c.den \in Nat /\ (raw * c.num) \div c.den <= raw
  BY <1>1, FractionOf
<1> QED
  BY <1>1, <1>2, <1>3 DEF raw
----------------------------------------------------------------------------
(* Benchmarks. *)

\* With a threshold above one half, good questions alone do not reach it.
LEMMA AlsoAnswers ==
  ASSUME NEW ask, NEW ans, Listed(ask, ans), BenchmarkMinScore > 5,
         NEW q \in Benchmarks(ask, ans)
  PROVE  \E a \in ScoredAnswers(ask, ans, ask[q].by) : ans[a].score > 0
<1>w. PICK w : w = ask[q].by
  OBVIOUS
<1> DEFINE c == Composite(ask, ans, w)
           S == AskSum(ask, w)
           T == AnsSum(ask, ans, w)
           B == Answered(ask, ans, w)
<1>1. 10 * c.num >= BenchmarkMinScore * c.den
  BY <1>w DEF Benchmarks
<1>2. PICK n \in Nat \ {0}, m \in Nat \ {0} :
        /\ c.num = S * m + T * n /\ c.den = 10 * n * m /\ S <= 5 * n
        /\ c.num \in Nat /\ c.den \in Nat \ {0}
  BY CompositeIs
<1>3. S \in Nat /\ T \in Nat
  BY ScoreSums
<1>4. T = SumOver(ScoreOf(ans), B)
  BY DEF AnsSum
<1> HIDE DEF c, S, T
<1>5. 6 * c.den <= BenchmarkMinScore * c.den
  <2>1. BenchmarkMinScore \in Nat /\ 6 <= BenchmarkMinScore
    BY PayoutAssumption
  <2> QED
    BY <1>2, <2>1, MulMono
<1>6. PICK k \in Nat \ {0} : k = n * m
  BY <1>2
<1>7. S * m <= 5 * k /\ S * m \in Nat /\ c.den = 10 * k /\ T * n \in Nat
  <2>1. S * m <= (5 * n) * m /\ S * m \in Nat
    BY <1>2, <1>3, MulMono
  <2>2. (5 * n) * m = 5 * k /\ 10 * n * m = 10 * k
    BY <1>6
  <2> QED
    BY <1>2, <1>3, <2>1, <2>2
<1>8. BenchmarkMinScore * c.den \in Nat
  BY <1>2, PayoutAssumption
<1>9. T * n >= k
  BY <1>1, <1>2, <1>5, <1>7, <1>8
<1>10. T > 0
  <2>1. CASE T = 0
    BY <1>9, <2>1
  <2> QED
    BY <1>3, <2>1
<1>11. 0 \in Nat /\ B \in SUBSET DOMAIN ans /\ IsFiniteSet(B)
  BY WorkerRows
<1>12. \A a \in B : /\ ScoreOf(ans)[a] \in Nat
                    /\ ans[a].status # "scored" => ScoreOf(ans)[a] = 0
                    /\ ScoreOf(ans)[a] = ans[a].score
  BY <1>11, Columns DEF ScoreOf
<1> HIDE DEF B
<1>13. PICK a \in B : ScoreOf(ans)[a] > 0
  BY <1>4, <1>10, <1>11, <1>12, SumPositive
<1>14. ans[a].status = "scored" /\ ans[a].score > 0
  BY <1>12, <1>13
<1>15. a \in ScoredAnswers(ask, ans, w)
  BY <1>13, <1>14 DEF ScoredAnswers, B
<1> QED
  BY <1>w, <1>14, <1>15
----------------------------------------------------------------------------
(* Time-outs. *)

\* An average over fewer tasks is no lower, of the same sum: n tasks instead of
\* m, next to k questions.
LEMMA FewerTasks ==
  ASSUME NEW raw \in Nat, NEW S \in Nat, NEW T \in Nat,
         NEW k \in Nat \ {0}, NEW n \in Nat \ {0}, NEW m \in Nat \ {0}, n <= m
  PROVE  (raw * (S * m + T * k)) \div (10 * k * m)
           <= (raw * (S * n + T * k)) \div (10 * k * n)
<1> DEFINE x == raw * (S * m + T * k)
           y == raw * (S * n + T * k)
           d == 10 * k * m
           e == 10 * k * n
           z == x \div d
<1>1. /\ x \in Nat /\ y \in Nat /\ d \in Nat \ {0} /\ e \in Nat \ {0}
      /\ e * m = d * n
  <2>1. d \in Nat /\ e \in Nat /\ S * m + T * k \in Nat /\ S * n + T * k \in Nat
    OBVIOUS
  <2>2. k * m \in Nat \ {0} /\ k * n \in Nat \ {0}
    OBVIOUS
  <2>3. d = 10 * (k * m) /\ e = 10 * (k * n)
    OBVIOUS
  <2>4. e * m = d * n
    OBVIOUS
  <2> QED
    BY <2>1, <2>2, <2>3, <2>4
\* Both dividends, over the common denominator.
<1>2. x * n <= y * m
  <2>1. PICK u \in Nat, v \in Nat : u = raw * S /\ v = raw * (T * k)
    OBVIOUS
  <2>2. x = u * m + v /\ y = u * n + v
    BY <2>1
  <2>3. x * n = (u * m) * n + v * n /\ y * m = (u * n) * m + v * m
    BY <2>2
  <2>4. (u * m) * n = (u * n) * m /\ (u * m) * n \in Nat
    OBVIOUS
  <2>5. v * n <= v * m /\ v * n \in Nat /\ v * m \in Nat
    BY MulMono
  <2> QED
    BY <2>3, <2>4, <2>5
<1> HIDE DEF x, y, d, e
<1>3. z \in Nat /\ d * z <= x
  BY <1>1, DivIs
<1> HIDE DEF z
<1>4. (d * z) * n <= x * n /\ (d * z) * n \in Nat /\ x * n \in Nat
  <2>1. d * z \in Nat
    BY <1>1, <1>3
  <2> QED
    BY <1>1, <1>3, <2>1, MulMono
<1>5. (e * z) * m <= y * m
  <2>1. (e * z) * m = (e * m) * z /\ (d * z) * n = (d * n) * z
    BY <1>1, <1>3
  <2>2. y * m \in Nat
    BY <1>1
  <2>3. (e * z) * m = (d * z) * n
    BY <1>1, <2>1
  <2> QED
    BY <1>2, <1>4, <2>2, <2>3
<1>6. e * z <= y
  <2>1. e * z \in Nat
    BY <1>1, <1>3
  <2>2. CASE y + 1 <= e * z
    <3>1. (y + 1) * m <= (e * z) * m
      BY <1>1, <2>1, <2>2, MulMono
    <3>2. (y + 1) * m = y * m + m /\ y * m \in Nat
      BY <1>1
    <3>3. (e * z) * m \in Nat
      BY <2>1
    <3> QED
      BY <1>5, <3>1, <3>2, <3>3
  <2> QED
    BY <1>1, <2>1, <2>2
<1>7. z <= y \div e
  BY <1>1, <1>3, <1>6, DivIs
<1> QED
  BY <1>7 DEF x, y, d, e, z

\* A worker's row, had one of its time-outs not been.
LEMMA LessTimeout ==
  ASSUME NEW ask, NEW ans, Listed(ask, ans),
         NEW a \in DOMAIN ans, ans[a].status = "timed-out",
         NEW less, less = [b \in DOMAIN ans \ {a} |-> ans[b]]
  PROVE  /\ Listed(ask, less)
         /\ Answered(ask, less, ans[a].by) = Answered(ask, ans, ans[a].by) \ {a}
         /\ a \in Answered(ask, ans, ans[a].by)
         /\ ScoredTasks(ask, less, ans[a].by) = ScoredTasks(ask, ans, ans[a].by)
         /\ AnsSum(ask, less, ans[a].by) = AnsSum(ask, ans, ans[a].by)
         /\ RawReward(ask, less, ans[a].by) = RawReward(ask, ans, ans[a].by)
<1>w. PICK w : w = ans[a].by
  OBVIOUS
<1> DEFINE B == Answered(ask, ans, w)
           C == B \ {a}
<1>1. DOMAIN less = DOMAIN ans \ {a} /\ \A b \in DOMAIN less : less[b] = ans[b]
  OBVIOUS
<1>2. Listed(ask, less)
  <2>1. IsFiniteSet(DOMAIN less)
    BY <1>1, FS_Subset DEF Listed
  <2> QED
    BY <1>1, <2>1 DEF Listed
<1>3. Answered(ask, less, w) = C /\ a \in B
  BY <1>1, <1>w DEF Answered, Listed
<1>4. ScoredAnswers(ask, less, w) = ScoredAnswers(ask, ans, w)
  <2>1. \A b \in C : less[b] = ans[b]
    BY <1>1 DEF Answered
  <2>2. ScoredAnswers(ask, less, w) = {b \in C : ans[b].status = "scored"}
    BY <1>3, <2>1 DEF ScoredAnswers
  <2>3. ScoredAnswers(ask, ans, w) = {b \in B : ans[b].status = "scored"}
    BY DEF ScoredAnswers
  <2> HIDE DEF B
  <2> QED
    BY <2>2, <2>3
<1>5. B \in SUBSET DOMAIN ans /\ IsFiniteSet(B) /\ IsFiniteSet(C) /\ C \in SUBSET DOMAIN less
  BY <1>1, WorkerRows, FS_Subset
<1>6. AnsPool(ask) \in Nat
  BY PoolsFit DEF Listed
<1> DEFINE pool == AnsPool(ask)
<1>7. \A b \in B : /\ ScoreOf(ans)[b] \in Nat /\ Parts(pool, ans)[b] \in Nat
                   /\ b \in B \ C => ScoreOf(ans)[b] = 0 /\ Parts(pool, ans)[b] = 0
  BY <1>5, <1>6, Columns
<1>8. \A b \in C : /\ ScoreOf(less)[b] = ScoreOf(ans)[b]
                   /\ Parts(pool, less)[b] = Parts(pool, ans)[b]
  BY <1>1, <1>5 DEF ScoreOf, Parts
<1>9. C \in SUBSET B
  OBVIOUS
<1> HIDE DEF B, C, pool
<1>10. SumOver(ScoreOf(less), C) = SumOver(ScoreOf(ans), B)
  <2>1. SumOver(ScoreOf(less), C) = SumOver(ScoreOf(ans), C)
    BY <1>5, <1>8, SumSame
  <2>2. SumOver(ScoreOf(ans), B) = SumOver(ScoreOf(ans), C)
    BY <1>5, <1>7, <1>9, SumZeros
  <2> QED
    BY <2>1, <2>2
<1>11. SumOver(Parts(pool, less), C) = SumOver(Parts(pool, ans), B)
  <2>1. SumOver(Parts(pool, less), C) = SumOver(Parts(pool, ans), C)
    BY <1>5, <1>8, SumSame
  <2>2. SumOver(Parts(pool, ans), B) = SumOver(Parts(pool, ans), C)
    BY <1>5, <1>7, <1>9, SumZeros
  <2> QED
    BY <2>1, <2>2
<1>12. ScoredTasks(ask, less, w) = ScoredTasks(ask, ans, w)
  BY <1>4 DEF ScoredTasks
<1>13. AnsSum(ask, less, w) = AnsSum(ask, ans, w)
  BY <1>3, <1>10 DEF AnsSum, B
<1>14. RawReward(ask, less, w) = RawReward(ask, ans, w)
  BY <1>3, <1>11 DEF RawReward, B, pool
<1> QED
  BY <1>w, <1>2, <1>3, <1>12, <1>13, <1>14 DEF B, C

\* The time-out has only lowered the composite score.
LEMMA TimeoutCosts ==
  ASSUME NEW ask, NEW ans, Listed(ask, ans),
         NEW a \in DOMAIN ans, ans[a].status = "timed-out",
         NEW less, less = [b \in DOMAIN ans \ {a} |-> ans[b]]
  PROVE  FinalReward(ask, ans, ans[a].by) <= FinalReward(ask, less, ans[a].by)
<1>w. PICK w : w = ans[a].by
  OBVIOUS
<1>1. /\ Listed(ask, less) /\ Answered(ask, less, w) = Answered(ask, ans, w) \ {a}
      /\ a \in Answered(ask, ans, w)
      /\ ScoredTasks(ask, less, w) = ScoredTasks(ask, ans, w)
      /\ AnsSum(ask, less, w) = AnsSum(ask, ans, w)
      /\ RawReward(ask, less, w) = RawReward(ask, ans, w)
  BY <1>w, LessTimeout
<1> DEFINE S == AskSum(ask, w)
           T == AnsSum(ask, ans, w)
           raw == RawReward(ask, ans, w)
<1>2. PICK k \in Nat \ {0}, m \in Nat \ {0} :
        /\ k = AtLeastOne(Cardinality(Asked(ask, w)))
        /\ m = AtLeastOne(Cardinality(Answered(ask, ans, w)))
        /\ Composite(ask, ans, w).num = S * m + T * k
        /\ Composite(ask, ans, w).den = 10 * k * m
  BY CompositeIs
<1>3. PICK n \in Nat \ {0} :
        /\ n = AtLeastOne(Cardinality(Answered(ask, less, w)))
        /\ Composite(ask, less, w).num = S * n + T * k
        /\ Composite(ask, less, w).den = 10 * k * n
  BY <1>1, <1>2, CompositeIs
<1>4. n <= m
  <2> DEFINE B == Answered(ask, ans, w)
  <2>1. IsFiniteSet(B) /\ Cardinality(B) \in Nat
    BY WorkerRows
  <2>2. Cardinality(B \ {a}) = Cardinality(B) - 1
    BY <1>1, <2>1, FS_RemoveElement
  <2>3. Cardinality(B \ {a}) \in Nat
    BY <2>1, FS_RemoveElement, FS_CardinalityType
  <2> QED
    BY <1>1, <1>2, <1>3, <2>1, <2>2, <2>3 DEF AtLeastOne
<1>5. raw \in Nat /\ S \in Nat /\ T \in Nat
  BY RawSums, ScoreSums
<1>6. (raw * (S * m + T * k)) \div (10 * k * m) <= (raw * (S * n + T * k)) \div (10 * k * n)
  <2> HIDE DEF raw, S, T
  <2> QED
    BY <1>4, <1>5, FewerTasks
<1>7. CASE ScoredTasks(ask, ans, w) >= MinTasks
  <2>1. FinalReward(ask, ans, w) = (raw * (S * m + T * k)) \div (10 * k * m)
    BY <1>2, <1>7 DEF FinalReward
  <2>2. FinalReward(ask, less, w) = (raw * (S * n + T * k)) \div (10 * k * n)
    BY <1>1, <1>3, <1>7 DEF FinalReward
  <2> QED
    BY <1>w, <1>6, <2>1, <2>2
<1>8. CASE ~(ScoredTasks(ask, ans, w) >= MinTasks)
  BY <1>w, <1>1, <1>8 DEF FinalReward
<1> QED
  BY <1>7, <1>8
----------------------------------------------------------------------------
(* The pool. *)

\* The workers with a row are finitely many.
LEMMA MinersFinite ==
  ASSUME NEW ask, NEW ans, Listed(ask, ans)
  PROVE  /\ IsFiniteSet(Miners(ask, ans))
         /\ \A q \in DOMAIN ask : ask[q].by \in Miners(ask, ans)
         /\ \A a \in DOMAIN ans : ans[a].by \in Miners(ask, ans)
<1> DEFINE f == [q \in DOMAIN ask |-> ask[q].by]
           g == [a \in DOMAIN ans |-> ans[a].by]
           X == {f[q] : q \in DOMAIN ask}
           Y == {g[a] : a \in DOMAIN ans}
<1>1. f \in Surjection(DOMAIN ask, X) /\ g \in Surjection(DOMAIN ans, Y)
  BY DEF Surjection
<1>2. IsFiniteSet(DOMAIN ask) /\ IsFiniteSet(DOMAIN ans)
  BY DEF Listed
<1>3. Miners(ask, ans) = X \cup Y
  BY DEF Miners, Listed
<1> HIDE DEF f, g, X, Y
<1>4. IsFiniteSet(X) /\ IsFiniteSet(Y)
  BY <1>1, <1>2, FS_Surjection
<1>5. IsFiniteSet(X \cup Y)
  BY <1>4, FS_Union
<1> QED
  BY <1>3, <1>5 DEF f, g, X, Y

\* The questioners get no more than the questions' pools.
LEMMA AskPoolHolds ==
  ASSUME NEW ask, NEW ans, Listed(ask, ans), NEW H,
         \A w \in Miners(ask, ans) : H[w] = SumOver(Parts(AskPool(ask), ask), Asked(ask, w))
  PROVE  /\ SumOver(H, Miners(ask, ans)) \in Nat
         /\ SumOver(H, Miners(ask, ans)) <= AskPool(ask) * Cardinality(DOMAIN ask)
<1> DEFINE pool == AskPool(ask)
           F == Parts(pool, ask)
           W == DOMAIN ask
           M == Miners(ask, ans)
           key == [q \in W |-> ask[q].by]
<1>1. pool \in Nat /\ Cardinality(W) \in Nat
  BY PoolsFit DEF Listed
<1>2. IsFiniteSet(W) /\ IsFiniteSet(M) /\ \A q \in W : key[q] \in M
  BY MinersFinite DEF Listed
<1>3. \A q \in W : F[q] \in Nat /\ F[q] <= pool
  BY <1>1, Columns
<1>4. \A w \in M : H[w] = SumOver(F, RowsAt(W, key, w))
  <2> SUFFICES ASSUME NEW w \in M PROVE H[w] = SumOver(F, RowsAt(W, key, w))
    OBVIOUS
  <2>1. Asked(ask, w) = RowsAt(W, key, w)
    BY DEF Asked, RowsAt
  <2> QED
    BY <2>1
<1> HIDE DEF pool, F, W, M, key
<1>5. SumOver(H, M) = SumOver(F, W)
  BY <1>2, <1>3, <1>4, SumByKey
<1>6. SumOver(F, W) \in Nat
  BY <1>2, <1>3, SumType
<1>7. 1 * SumOver(F, W) <= 0 * SumOver(F, W) + pool * Cardinality(W)
  <2>1. \A q \in W : F[q] \in Nat /\ 1 * F[q] <= 0 * F[q] + pool
    BY <1>1, <1>3
  <2> QED
    BY <1>1, <1>2, <2>1, SumBound
<1>8. pool * Cardinality(W) \in Nat
  BY <1>1
<1>9. SumOver(F, W) <= pool * Cardinality(W)
  BY <1>6, <1>7, <1>8
<1> QED
  BY <1>5, <1>6, <1>9 DEF pool, W, M

\* The answerers of one question get no more than its answer pool.
LEMMA OneQuestion ==
  ASSUME NEW pool \in Nat, NEW ans, NEW A \in SUBSET DOMAIN ans, IsFiniteSet(A),
         \A a \in A : /\ ShareOf(ans)[a] \in Nat /\ Parts(pool, ans)[a] \in Nat
                      /\ Parts(pool, ans)[a] = Part(pool, ShareOf(ans)[a]),
         SumOver(ShareOf(ans), A) <= Whole
  PROVE  SumOver(Parts(pool, ans), A) \in Nat /\ SumOver(Parts(pool, ans), A) <= pool
<1> DEFINE F == Parts(pool, ans)
           G == ShareOf(ans)
           f == SumOver(F, A)
           g == SumOver(G, A)
<1>1. \A a \in A : F[a] \in Nat /\ G[a] \in Nat /\ Whole * F[a] <= pool * G[a] + 0
  <2> SUFFICES ASSUME NEW a \in A PROVE Whole * F[a] <= pool * G[a] + 0
    OBVIOUS
  <2>1. Whole * F[a] <= pool * G[a]
    BY PartIs
  <2>2. pool * G[a] \in Nat
    OBVIOUS
  <2> QED
    BY <2>1, <2>2
<1>2. g <= Whole
  OBVIOUS
<1> HIDE DEF F, G
<1>3. f \in Nat /\ g \in Nat
  BY <1>1, SumType
<1>4. Whole * f <= pool * g + 0 * Cardinality(A)
  <2>1. Whole \in Nat /\ 0 \in Nat
    BY DEF Whole
  <2> QED
    BY <1>1, <2>1, SumBound
<1>5. Cardinality(A) \in Nat
  BY FS_CardinalityType
<1> HIDE DEF f, g
<1>6. pool * g <= pool * Whole /\ pool * g \in Nat
  <2>1. Whole \in Nat
    BY DEF Whole
  <2>2. g * pool <= Whole * pool /\ pool * g <= pool * Whole
    BY <1>2, <1>3, <2>1, MulMono
  <2> QED
    BY <1>3, <2>2
<1>7. f <= pool
  BY <1>3, <1>4, <1>5, <1>6 DEF Whole
<1> QED
  BY <1>3, <1>7 DEF f, F

\* The shares that the answerers of each question have add up to at most one.
Fitting(ask, ans) ==
  \A q \in DOMAIN ask :
    SumOver(ShareOf(ans), {a \in DOMAIN ans : ans[a].q = q}) <= Whole

\* The answerers get no more than the questions' answer pools.
LEMMA AnsPoolHolds ==
  ASSUME NEW ask, NEW ans, Listed(ask, ans), Fitting(ask, ans), NEW H,
         \A w \in Miners(ask, ans) :
           H[w] = SumOver(Parts(AnsPool(ask), ans), Answered(ask, ans, w))
  PROVE  /\ SumOver(H, Miners(ask, ans)) \in Nat
         /\ SumOver(H, Miners(ask, ans)) <= AnsPool(ask) * Cardinality(DOMAIN ask)
<1> DEFINE pool == AnsPool(ask)
           F == Parts(pool, ans)
           W == DOMAIN ans
           Q == DOMAIN ask
           M == Miners(ask, ans)
           by == [a \in W |-> ans[a].by]
           to == [a \in W |-> ans[a].q]
           G == [q \in Q |-> SumOver(F, RowsAt(W, to, q))]
<1>1. pool \in Nat /\ Cardinality(Q) \in Nat
  BY PoolsFit DEF Listed
<1>2. /\ IsFiniteSet(W) /\ IsFiniteSet(Q) /\ IsFiniteSet(M)
      /\ \A a \in W : by[a] \in M /\ to[a] \in Q
  BY MinersFinite DEF Listed
<1>3. \A a \in W : /\ F[a] \in Nat /\ ShareOf(ans)[a] \in Nat
                   /\ F[a] = Part(pool, ShareOf(ans)[a])
  BY <1>1, Columns
<1>4. \A w \in M : H[w] = SumOver(F, RowsAt(W, by, w))
  <2> SUFFICES ASSUME NEW w \in M PROVE H[w] = SumOver(F, RowsAt(W, by, w))
    OBVIOUS
  <2>1. Answered(ask, ans, w) = RowsAt(W, by, w)
    BY DEF Answered, RowsAt, Listed
  <2> QED
    BY <2>1
<1>5. \A q \in Q : G[q] \in Nat /\ G[q] <= pool
  <2> SUFFICES ASSUME NEW q \in Q PROVE G[q] \in Nat /\ G[q] <= pool
    OBVIOUS
  <2> DEFINE A == RowsAt(W, to, q)
  <2>1. A = {a \in DOMAIN ans : ans[a].q = q} /\ A \in SUBSET DOMAIN ans
    BY DEF RowsAt
  <2>2. IsFiniteSet(A)
    BY <1>2, <2>1, FS_Subset
  <2>3. SumOver(ShareOf(ans), A) <= Whole
    BY <2>1 DEF Fitting
  <2> HIDE DEF A
  <2>4. \A a \in A : /\ ShareOf(ans)[a] \in Nat /\ F[a] \in Nat
                     /\ F[a] = Part(pool, ShareOf(ans)[a])
    BY <1>3, <2>1
  <2>5. SumOver(F, A) \in Nat /\ SumOver(F, A) <= pool
    BY <1>1, <2>1, <2>2, <2>3, <2>4, OneQuestion
  <2> QED
    BY <2>5 DEF A
<1>6. \A q \in Q : G[q] = SumOver(F, RowsAt(W, to, q))
  OBVIOUS
<1> HIDE DEF pool, F, W, Q, M, by, to, G
<1>7. SumOver(H, M) = SumOver(F, W)
  BY <1>2, <1>3, <1>4, SumByKey
<1>8. SumOver(G, Q) = SumOver(F, W)
  BY <1>2, <1>3, <1>6, SumByKey
<1>9. SumOver(G, Q) \in Nat
  BY <1>2, <1>5, SumType
<1>10. 1 * SumOver(G, Q) <= 0 * SumOver(G, Q) + pool * Cardinality(Q)
  <2>1. \A q \in Q : G[q] \in Nat /\ 1 * G[q] <= 0 * G[q] + pool
    BY <1>1, <1>5
  <2> QED
    BY <1>1, <1>2, <2>1, SumBound
<1>11. pool * Cardinality(Q) \in Nat
  BY <1>1
<1>12. SumOver(G, Q) <= pool * Cardinality(Q)
  BY <1>9, <1>10, <1>11
<1> QED
  BY <1>7, <1>8, <1>9, <1>12 DEF pool, Q, M

\* The raw rewards of all workers together stay within the epoch's pool.
LEMMA PoolHolds ==
  ASSUME NEW ask, NEW ans, Listed(ask, ans), Fitting(ask, ans), NEW paid,
         \A w \in Miners(ask, ans) : paid[w] = RawReward(ask, ans, w)
  PROVE  SumOver(paid, Miners(ask, ans)) <= TotalReward
<1> DEFINE M == Miners(ask, ans)
           F == [w \in M |-> SumOver(Parts(AskPool(ask), ask), Asked(ask, w))]
           G == [w \in M |-> SumOver(Parts(AnsPool(ask), ans), Answered(ask, ans, w))]
           n == Cardinality(DOMAIN ask)
<1>1. \A w \in M : F[w] \in Nat /\ G[w] \in Nat /\ paid[w] = F[w] + G[w]
  BY RawSums DEF RawReward
<1>2. IsFiniteSet(M)
  BY MinersFinite
<1>3. SumOver(F, M) \in Nat /\ SumOver(F, M) <= AskPool(ask) * n
  BY AskPoolHolds
<1>4. SumOver(G, M) \in Nat /\ SumOver(G, M) <= AnsPool(ask) * n
  BY AnsPoolHolds
<1> HIDE DEF M, F, G
<1>5. SumOver(paid, M) = SumOver(F, M) + SumOver(G, M)
  BY <1>1, <1>2, SumPlus
<1>6. PICK p \in Nat, r \in Nat : /\ p = AskPool(ask) /\ r = AnsPool(ask)
                                  /\ p + r = BaseReward(ask)
  BY PoolsFit DEF Listed
<1>7. n \in Nat /\ n * (p + r) <= TotalReward
  BY <1>6, PoolsFit DEF Listed
<1> HIDE DEF n
<1>8. n * (p + r) = p * n + r * n /\ p * n \in Nat /\ r * n \in Nat
  BY <1>7
<1>9. SumOver(paid, M) <= TotalReward
  BY <1>3, <1>4, <1>5, <1>6, <1>7, <1>8, PayoutAssumption
<1> QED
  BY <1>9 DEF M
----------------------------------------------------------------------------
(* The estimate. *)

\* Quotients fall with the divisor.
LEMMA DivAnti ==
  ASSUME NEW x \in Nat, NEW d \in Nat \ {0}, NEW e \in Nat \ {0}, d <= e
  PROVE  x \div e <= x \div d
<1> DEFINE q == x \div e
<1>1. q \in Nat /\ e * q <= x
  BY DivIs
<1> HIDE DEF q
<1>2. d * q <= e * q /\ d * q \in Nat /\ e * q \in Nat
  BY <1>1, MulMono
<1>3. d * q <= x
  BY <1>1, <1>2
<1>4. q <= x \div d
  BY <1>1, <1>3, DivIs
<1> QED
  BY <1>4 DEF q

\* The extrapolated day has at least the questions there are, and at its end
\* no others.
LEMMA TotalIs ==
  ASSUME NEW ask, IsFiniteSet(DOMAIN ask), DOMAIN ask # {}, NEW elapsed \in 1 .. DayParts
  PROVE  /\ EstimatedTotal(ask, elapsed) \in Nat \ {0}
         /\ Cardinality(DOMAIN ask) <= EstimatedTotal(ask, elapsed)
         /\ elapsed = DayParts => EstimatedTotal(ask, elapsed) = Cardinality(DOMAIN ask)
<1> DEFINE n == Cardinality(DOMAIN ask)
           x == n * DayParts
           E == x \div elapsed
<1>1. n \in Nat \ {0}
  BY PoolsFit
<1>2. DayParts \in Nat \ {0} /\ elapsed \in Nat \ {0} /\ elapsed <= DayParts
  BY PayoutAssumption
<1>3. EstimatedTotal(ask, elapsed) = E
  BY DEF EstimatedTotal
<1> HIDE DEF n
<1>4. x \in Nat /\ elapsed * n <= x
  <2>1. elapsed * n <= DayParts * n
    BY <1>1, <1>2, MulMono
  <2>2. DayParts * n = x /\ x \in Nat
    BY <1>1, <1>2
  <2> QED
    BY <2>1, <2>2
<1>5. elapsed = DayParts => x < elapsed * n + elapsed
  <2>1. DayParts * n = x /\ x \in Nat
    BY <1>1, <1>2
  <2> QED
    BY <1>2, <2>1
<1> HIDE DEF x
<1>6. E \in Nat /\ n <= E /\ (elapsed = DayParts => E <= n)
  BY <1>1, <1>2, <1>4, <1>5, DivIs
<1> HIDE DEF E
<1> QED
  BY <1>1, <1>3, <1>6 DEF n

\* The part of a sum, and the sum of the parts: truncated once, or each time.
LEMMA PartOfSum ==
  ASSUME NEW pool \in Nat, NEW low \in Nat, low <= pool,
         NEW rows, NEW A \in SUBSET DOMAIN rows, IsFiniteSet(A),
         \A a \in A : /\ ShareOf(rows)[a] \in Nat /\ Parts(pool, rows)[a] \in Nat
                      /\ Parts(pool, rows)[a] = Part(pool, ShareOf(rows)[a])
  PROVE  /\ Part(low, SumOver(ShareOf(rows), A)) \in Nat
         /\ Part(low, SumOver(ShareOf(rows), A))
              <= SumOver(Parts(pool, rows), A) + Cardinality(A)
         /\ SumOver(Parts(pool, rows), A) <= Part(pool, SumOver(ShareOf(rows), A))
<1> DEFINE F == Parts(pool, rows)
           G == ShareOf(rows)
           f == SumOver(F, A)
           g == SumOver(G, A)
           k == Cardinality(A)
           p == Part(low, g)
<1>1. \A a \in A : /\ F[a] \in Nat /\ G[a] \in Nat
                   /\ Whole * F[a] <= pool * G[a] + 0
                   /\ pool * G[a] <= Whole * F[a] + (Whole - 1)
  <2> SUFFICES ASSUME NEW a \in A
               PROVE  /\ Whole * F[a] <= pool * G[a] + 0
                      /\ pool * G[a] <= Whole * F[a] + (Whole - 1)
    OBVIOUS
  <2>1. Whole * F[a] <= pool * G[a] /\ pool * G[a] <= Whole * F[a] + (Whole - 1)
    BY PartIs
  <2>2. pool * G[a] \in Nat
    OBVIOUS
  <2> QED
    BY <2>1, <2>2
<1>2. Whole \in Nat /\ 0 \in Nat /\ Whole - 1 \in Nat
  BY DEF Whole
<1> HIDE DEF F, G
<1>3. f \in Nat /\ g \in Nat /\ k \in Nat
  BY <1>1, SumType, FS_CardinalityType
<1>4. Whole * f <= pool * g + 0 * k
  BY <1>1, <1>2, SumBound
<1>5. pool * g <= Whole * f + (Whole - 1) * k
  BY <1>1, <1>2, SumBound
<1> HIDE DEF f, g, k
<1>6. p \in Nat /\ Whole * p <= low * g
  BY <1>3, PartIs
<1> HIDE DEF p
<1>7. low * g <= pool * g /\ low * g \in Nat /\ pool * g \in Nat
  BY <1>3, MulMono
<1>8. Whole * p <= Whole * f + (Whole - 1) * k
  BY <1>3, <1>5, <1>6, <1>7 DEF Whole
<1>9. p <= f + k
  BY <1>3, <1>6, <1>8 DEF Whole
<1>10. f <= Part(pool, g)
  <2> DEFINE x == pool * g
  <2>1. Whole * f <= x
    BY <1>3, <1>4, <1>7
  <2>2. x \in Nat /\ Whole \in Nat \ {0}
    BY <1>7 DEF Whole
  <2>3. Part(pool, g) = x \div Whole
    BY DEF Part
  <2> HIDE DEF x
  <2>4. f <= x \div Whole
    BY <1>3, <2>1, <2>2, DivIs
  <2> QED
    BY <2>3, <2>4
<1> QED
  BY <1>6, <1>9, <1>10 DEF f, g, k, p, F, G

\* A fraction of at most one of t units more is at most t units more.
LEMMA FractionMore ==
  ASSUME NEW raw \in Nat, NEW more \in Nat, NEW t \in Nat,
         NEW num \in Nat, NEW den \in Nat \ {0}, num <= den
  PROVE  /\ more <= raw + t => (more * num) \div den <= (raw * num) \div den + t
         /\ raw <= more => (raw * num) \div den <= (more * num) \div den
<1> DEFINE x == raw * num
           y == more * num
           q == x \div den
<1>1. x \in Nat /\ y \in Nat
  OBVIOUS
<1>2. ASSUME more <= raw + t PROVE y <= x + den * t
  <2>1. more * num <= (raw + t) * num
    BY <1>2, MulMono
  <2>2. (raw + t) * num = x + t * num
    OBVIOUS
  <2>3. t * num <= t * den /\ t * num \in Nat /\ t * den = den * t
    BY MulMono
  <2>4. den * t \in Nat
    OBVIOUS
  <2> QED
    BY <1>1, <2>1, <2>2, <2>3, <2>4
<1>3. ASSUME raw <= more PROVE x <= y
  BY <1>3, MulMono
<1> HIDE DEF x, y
<1>4. q \in Nat /\ x < den * q + den
  BY <1>1, DivIs
<1>5. ASSUME more <= raw + t PROVE y \div den <= q + t
  <2> HIDE DEF q
  <2>1. den * (q + t) = den * q + den * t /\ den * q \in Nat /\ den * t \in Nat
    BY <1>4
  <2>2. y < den * (q + t) + den
    BY <1>1, <1>2, <1>4, <1>5, <2>1
  <2>3. q + t \in Nat
    BY <1>4
  <2> QED
    BY <1>1, <2>2, <2>3, DivIs
<1>6. ASSUME raw <= more PROVE q <= y \div den
  BY <1>1, <1>3, <1>6, DivMono
<1> QED
  BY <1>5, <1>6 DEF x, y, q

\* The estimate before the composite score.
EstimatedRaw(ask, ans, w, base) ==
  Part(base \div 3, SumOver(ShareOf(ask), Asked(ask, w)))
    + Part(base - base \div 3, SumOver(ShareOf(ans), ScoredAnswers(ask, ans, w)))

\* It exceeds the raw reward by less than a unit for each task, and with the
\* same pools it is not lower.
LEMMA EstimatedRawIs ==
  ASSUME NEW ask, NEW ans, Listed(ask, ans), NEW w,
         NEW base \in Nat, base <= BaseReward(ask)
  PROVE  /\ EstimatedRaw(ask, ans, w, base) \in Nat
         /\ EstimatedRaw(ask, ans, w, base)
              <= RawReward(ask, ans, w) + ScoredTasks(ask, ans, w)
         /\ base = BaseReward(ask) =>
              RawReward(ask, ans, w) <= EstimatedRaw(ask, ans, w, base)
<1> DEFINE p == AskPool(ask)
           r == AnsPool(ask)
           u == base \div 3
           v == base - base \div 3
           A == Asked(ask, w)
           B == ScoredAnswers(ask, ans, w)
           C == Answered(ask, ans, w)
           f == SumOver(Parts(p, ask), A)
           g == SumOver(Parts(r, ans), B)
<1>1. /\ p \in Nat /\ r \in Nat /\ u \in Nat /\ v \in Nat /\ u <= p /\ v <= r
      /\ base = BaseReward(ask) => u = p /\ v = r
  <2>1. PICK b \in Nat : b = BaseReward(ask) /\ p = b \div 3 /\ r = b - b \div 3
    BY PoolsFit DEF Listed, AskPool, AnsPool
  <2> QED
    BY <2>1
<1>2. /\ A \in SUBSET DOMAIN ask /\ IsFiniteSet(A) /\ Cardinality(A) \in Nat
      /\ B \in SUBSET C /\ C \in SUBSET DOMAIN ans /\ IsFiniteSet(C)
      /\ IsFiniteSet(B) /\ Cardinality(B) \in Nat
  BY WorkerRows
<1>3. \A a \in C : /\ ShareOf(ans)[a] \in Nat /\ Parts(r, ans)[a] \in Nat
                   /\ Parts(r, ans)[a] = Part(r, ShareOf(ans)[a])
                   /\ a \notin B => Parts(r, ans)[a] = 0
  BY <1>1, <1>2, Columns DEF ScoredAnswers
<1>4. \A q \in A : /\ ShareOf(ask)[q] \in Nat /\ Parts(p, ask)[q] \in Nat
                   /\ Parts(p, ask)[q] = Part(p, ShareOf(ask)[q])
  BY <1>1, <1>2, Columns
<1>5. SumOver(Parts(r, ans), C) = g
  <2> HIDE DEF B, C, r
  <2> QED
    BY <1>2, <1>3, SumZeros
<1>6. RawReward(ask, ans, w) = f + g
  BY <1>5 DEF RawReward
<1>7. ScoredTasks(ask, ans, w) = Cardinality(A) + Cardinality(B)
  BY DEF ScoredTasks
<1>8. EstimatedRaw(ask, ans, w, base)
        = Part(u, SumOver(ShareOf(ask), A)) + Part(v, SumOver(ShareOf(ans), B))
  BY DEF EstimatedRaw
<1>9. f \in Nat /\ g \in Nat
  <2> HIDE DEF A, B, C, p, r
  <2> QED
    BY <1>2, <1>3, <1>4, SumType
<1> HIDE DEF A, B, C, p, r, u, v
<1>10. /\ Part(u, SumOver(ShareOf(ask), A)) \in Nat
       /\ Part(u, SumOver(ShareOf(ask), A)) <= f + Cardinality(A)
       /\ f <= Part(p, SumOver(ShareOf(ask), A))
  BY <1>1, <1>2, <1>4, PartOfSum
<1>11. /\ Part(v, SumOver(ShareOf(ans), B)) \in Nat
       /\ Part(v, SumOver(ShareOf(ans), B)) <= g + Cardinality(B)
       /\ g <= Part(r, SumOver(ShareOf(ans), B))
  <2>1. B \in SUBSET DOMAIN ans /\ \A a \in B :
          /\ ShareOf(ans)[a] \in Nat /\ Parts(r, ans)[a] \in Nat
          /\ Parts(r, ans)[a] = Part(r, ShareOf(ans)[a])
    BY <1>2, <1>3
  <2> QED
    BY <1>1, <1>2, <2>1, PartOfSum
<1> HIDE DEF f, g
<1>12. ASSUME base = BaseReward(ask)
       PROVE  RawReward(ask, ans, w) <= EstimatedRaw(ask, ans, w, base)
  <2>1. u = p /\ v = r
    BY <1>1, <1>12
  <2> QED
    BY <1>6, <1>8, <1>9, <1>10, <1>11, <2>1
<1> QED
  BY <1>2, <1>6, <1>7, <1>8, <1>9, <1>10, <1>11, <1>12

\* The aggregates of the query are those of the settlement.
LEMMA EstimateIs ==
  ASSUME NEW ask, NEW ans, Listed(ask, ans), NEW w, NEW elapsed,
         NEW base, base = TotalReward \div EstimatedTotal(ask, elapsed)
  PROVE  EstimatedReward(ask, ans, w, elapsed) =
           IF ScoredTasks(ask, ans, w) >= MinTasks
             THEN (EstimatedRaw(ask, ans, w, base) * Composite(ask, ans, w).num)
                    \div Composite(ask, ans, w).den
             ELSE 0
<1> DEFINE t == Today(ask, ans, w)
           B == ScoredAnswers(ask, ans, w)
           C == Answered(ask, ans, w)
<1>1. /\ t.asked = Cardinality(Asked(ask, w)) /\ t.askScore = AskSum(ask, w)
      /\ t.askShare = SumOver(ShareOf(ask), Asked(ask, w))
      /\ t.answered = Cardinality(B) /\ t.timedOut = Cardinality(C \ B)
      /\ t.ansScore = AnsSum(ask, ans, w) /\ t.ansShare = SumOver(ShareOf(ans), B)
  BY DEF Today
<1>2. Cardinality(B) + Cardinality(C \ B) = Cardinality(C)
  <2>1. IsFiniteSet(C) /\ IsFiniteSet(B) /\ B \in SUBSET C
    BY WorkerRows
  <2> DEFINE D == C \ B
  <2> HIDE DEF B, C
  <2>2. IsFiniteSet(D) /\ B \cap D = {} /\ B \cup D = C
    BY <2>1, FS_Subset
  <2> HIDE DEF D
  <2>3. Cardinality(B \cup D) = Cardinality(B) + Cardinality(D) - Cardinality(B \cap D)
    BY <2>1, <2>2, FS_Union
  <2>4. Cardinality(B \cap D) = 0 /\ Cardinality(B) \in Nat /\ Cardinality(D) \in Nat
    BY <2>1, <2>2, FS_EmptySet, FS_CardinalityType
  <2>5. PICK x, y, z : x = Cardinality(B) /\ y = Cardinality(D) /\ z = Cardinality(C)
    OBVIOUS
  <2>6. z = Cardinality(B \cup D)
    BY <2>2, <2>5, Zenon
  <2>7. z = x + y - 0 /\ x \in Nat /\ y \in Nat
    BY <2>3, <2>4, <2>5, <2>6
  <2>8. Cardinality(C) = Cardinality(B) + Cardinality(D)
    BY <2>5, <2>7
  <2> QED
    BY <2>8 DEF D
<1>3. AnswerAverage(t).n = Cardinality(C) /\ AnswerAverage(t).sum = AnsSum(ask, ans, w)
  BY <1>1, <1>2 DEF AnswerAverage
<1>4. ScoredTasks(ask, ans, w) = t.asked + t.answered
  BY <1>1 DEF ScoredTasks
<1>5. Composite(ask, ans, w) =
        [num |-> t.askScore * AtLeastOne(AnswerAverage(t).n)
                   + AnswerAverage(t).sum * AtLeastOne(t.asked),
         den |-> 10 * AtLeastOne(t.asked) * AtLeastOne(AnswerAverage(t).n)]
  BY <1>1, <1>3 DEF Composite
<1>6. EstimatedRaw(ask, ans, w, base)
        = Part(base \div 3, t.askShare) + Part(base - base \div 3, t.ansShare)
  BY <1>1 DEF EstimatedRaw
<1>7. DOMAIN ask # {}
  BY DEF Listed
<1> QED
  BY <1>4, <1>5, <1>6, <1>7 DEF EstimatedReward

\* What a worker is told is what the settlement pays, or little more.
LEMMA EstimateHolds ==
  ASSUME NEW ask, NEW ans, Listed(ask, ans), NEW w, NEW elapsed \in 1 .. DayParts
  PROVE  /\ EstimatedReward(ask, ans, w, elapsed)
              <= FinalReward(ask, ans, w) + ScoredTasks(ask, ans, w)
         /\ elapsed = DayParts =>
              EstimatedReward(ask, ans, w, elapsed) >= FinalReward(ask, ans, w)
<1> DEFINE E == EstimatedTotal(ask, elapsed)
           n == Cardinality(DOMAIN ask)
           c == Composite(ask, ans, w)
           raw == RawReward(ask, ans, w)
           t == ScoredTasks(ask, ans, w)
<1>1. n \in Nat \ {0} /\ E \in Nat \ {0} /\ n <= E /\ (elapsed = DayParts => E = n)
  BY PoolsFit, TotalIs DEF Listed
<1>2. PICK base : base = TotalReward \div E
  OBVIOUS
<1>3. base \in Nat /\ base <= BaseReward(ask) /\ (elapsed = DayParts => base = BaseReward(ask))
  <2>1. BaseReward(ask) = TotalReward \div n
    BY DEF BaseReward
  <2>2. TotalReward \in Nat
    BY PayoutAssumption
  <2> HIDE DEF E, n
  <2>3. TotalReward \div E \in Nat
    BY <1>1, <2>2, DivIs
  <2>4. TotalReward \div E <= TotalReward \div n
    BY <1>1, <2>2, DivAnti
  <2> QED
    BY <1>1, <1>2, <2>1, <2>3, <2>4
<1>4. PICK more \in Nat : /\ more = EstimatedRaw(ask, ans, w, base) /\ more <= raw + t
                          /\ elapsed = DayParts => raw <= more
  BY <1>3, EstimatedRawIs
<1>5. raw \in Nat /\ t \in Nat /\ c.num \in Nat /\ c.den \in Nat \ {0} /\ c.num <= c.den
  BY RawSums, CompositeIs, WorkerRows DEF ScoredTasks
<1>6. EstimatedReward(ask, ans, w, elapsed)
        = IF t >= MinTasks THEN (more * c.num) \div c.den ELSE 0
  BY <1>2, <1>4, EstimateIs
<1>7. FinalReward(ask, ans, w) = IF t >= MinTasks THEN (raw * c.num) \div c.den ELSE 0
  BY DEF FinalReward
<1> HIDE DEF c, raw, t
<1>8. /\ (more * c.num) \div c.den <= (raw * c.num) \div c.den + t
      /\ elapsed = DayParts => (raw * c.num) \div c.den <= (more * c.num) \div c.den
  BY <1>4, <1>5, FractionMore
<1>9. (raw * c.num) \div c.den \in Nat /\ (more * c.num) \div c.den \in Nat
  BY <1>4, <1>5, FractionOf
<1> QED
  BY <1>5, <1>6, <1>7, <1>8, <1>9 DEF t
----------------------------------------------------------------------------
(* The rows of the epoch. *)

\* The replies to a question are finitely many.
LEMMA RepliersFinite ==
  ASSUME Inv, NEW q
  PROVE  /\ IsFiniteSet(Repliers(q)) /\ Repliers(q) \in SUBSET DOMAIN closed
         /\ DOMAIN RepliesTo(q) = Repliers(q)
  BY FS_Subset DEF Inv, Repliers, RepliesTo

\* The scored questions are finitely many: each has been answered.
LEMMA ScoredFinite == ASSUME Inv PROVE IsFiniteSet(Scored)
<1> DEFINE D == DOMAIN closed
           f == [a \in D |-> a[1]]
           X == {f[a] : a \in D}
<1>1. f \in Surjection(D, X) /\ IsFiniteSet(D)
  BY DEF Surjection, Inv
<1>2. ASSUME NEW q \in Scored PROVE q \in X
  <2>1. Repliers(q) # {}
    BY <1>2, FS_EmptySet, RequiredAssumption DEF Scored
  <2> QED
    BY <2>1 DEF Repliers
<1>3. Scored \in SUBSET X
  BY <1>2
<1> HIDE DEF f, X, D
<1>4. IsFiniteSet(X)
  BY <1>1, FS_Surjection
<1> QED
  BY <1>3, <1>4, FS_Subset

\* One row of the answers.
LEMMA RowIs ==
  ASSUME Inv, NEW a \in DOMAIN Ans
  PROVE  /\ a \in DOMAIN closed /\ a[1] \in Scored /\ Ans[a].q = a[1]
         /\ Ans[a].status = IF closed[a] = None THEN "timed-out" ELSE "scored"
         /\ Ans[a].score \in 0 .. 5 /\ Ans[a].share \in Nat
         /\ closed[a] = None => Ans[a].score = 0 /\ Ans[a].share = 0
         /\ closed[a] # None => Ans[a].share = AnswererScore(RepliesTo(a[1]), a).share
<1>1. a \in DOMAIN closed /\ a[1] \in Scored /\ Ans[a] = Row(a)
  BY DEF Ans
<1>2. /\ Ans[a].q = a[1]
      /\ Ans[a].status = IF closed[a] = None THEN "timed-out" ELSE "scored"
  BY <1>1 DEF Row
<1>3. CASE closed[a] = None
  <2>1. Ans[a].score = 0 /\ Ans[a].share = 0
    BY <1>1, <1>3 DEF Row
  <2> QED
    BY <1>1, <1>2, <1>3, <2>1
<1>4. CASE closed[a] # None
  <2> DEFINE r == RepliesTo(a[1])
             got == AnswererScore(r, a)
  <2>1. Ans[a].score = got.score /\ Ans[a].share = got.share
    BY <1>1, <1>4 DEF Row
  <2>2. a \in DOMAIN r /\ IsFiniteSet(DOMAIN r)
    BY <1>1, <1>4, RepliersFinite DEF Repliers
  <2>3. got.score \in 0 .. 5
    BY AnswererRange
  <2>4. got.share \in Nat
    <3> DEFINE F == [b \in DOMAIN r |-> AnswererScore(r, b).share]
    <3>1. \A b \in DOMAIN r : F[b] = AnswererScore(r, b).share
      OBVIOUS
    <3> HIDE DEF F
    <3>2. \A b \in DOMAIN r : F[b] \in Nat
      BY <2>2, <3>1, SharesFit
    <3> QED
      BY <2>2, <3>1, <3>2
  <2> QED
    BY <1>1, <1>2, <1>4, <2>1, <2>3, <2>4
<1> QED
  BY <1>3, <1>4

\* As soon as a question is scored, the rows are as Settle expects them.
LEMMA RowsListed == ASSUME Inv, Scored # {} PROVE Listed(Ask, Ans)
<1>1. DOMAIN Ask = Scored /\ DOMAIN Ans \in SUBSET DOMAIN closed
  BY DEF Ask, Ans
<1>2. IsFiniteSet(DOMAIN Ask) /\ IsFiniteSet(DOMAIN Ans)
  BY <1>1, ScoredFinite, FS_Subset DEF Inv
<1>3. ASSUME NEW q \in DOMAIN Ask
      PROVE  Ask[q].score \in 0 .. 5 /\ Ask[q].share \in 0 .. Whole
  <2>1. /\ Ask[q].score = QuestionerScore(RepliesTo(q)).score
        /\ Ask[q].share = QuestionerScore(RepliesTo(q)).share
    BY <1>1, <1>3 DEF Ask
  <2> QED
    BY <2>1, QuestionerRange
<1>4. ASSUME NEW a \in DOMAIN Ans
      PROVE  /\ Ans[a].q \in DOMAIN Ask /\ Ans[a].status \in {"scored", "timed-out"}
             /\ Ans[a].score \in 0 .. 5 /\ Ans[a].share \in Nat
             /\ Ans[a].status = "timed-out" => Ans[a].score = 0 /\ Ans[a].share = 0
  BY <1>1, <1>4, RowIs
<1> QED
  BY <1>1, <1>2, <1>3, <1>4 DEF Listed

\* With up to five required answers the shares of a question fit its pool.
LEMMA RowsFitting == ASSUME Inv, Required <= 5 PROVE Fitting(Ask, Ans)
<1> SUFFICES ASSUME NEW q \in DOMAIN Ask
             PROVE  SumOver(ShareOf(Ans), {a \in DOMAIN Ans : Ans[a].q = q}) <= Whole
  BY DEF Fitting
<1> DEFINE A == {a \in DOMAIN Ans : Ans[a].q = q}
           B == Repliers(q)
           r == RepliesTo(q)
           F == ShareOf(Ans)
<1>1. q \in Scored /\ DOMAIN Ans = {b \in DOMAIN closed : b[1] \in Scored}
  BY DEF Ask, Ans
<1>2. /\ IsFiniteSet(B) /\ DOMAIN r = B /\ Cardinality(B) <= 5
      /\ \A a \in B : a \in DOMAIN closed /\ a[1] = q /\ closed[a] # None
  BY <1>1, RepliersFinite DEF Scored, Repliers
<1>3. \A a \in DOMAIN Ans : F[a] = Ans[a].share
  BY DEF ShareOf
<1>4. ASSUME NEW a \in B PROVE a \in A /\ F[a] = AnswererScore(r, a).share
  BY <1>1, <1>2, <1>3, <1>4, RowIs
<1>5. ASSUME NEW a \in A \ B PROVE F[a] = 0
  <2>1. a \in DOMAIN Ans /\ a \in DOMAIN closed /\ a[1] = q
    BY <1>5, RowIs
  <2>2. closed[a] = None
    BY <1>5, <2>1 DEF Repliers
  <2> QED
    BY <1>3, <2>1, <2>2, RowIs
<1>6. IsFiniteSet(A)
  BY <1>1, FS_Subset DEF Inv
<1>7. B \in SUBSET A
  BY <1>4
<1> HIDE DEF A, B, r, F
<1>8. (\A a \in B : F[a] \in Nat) /\ SumOver(F, B) <= Whole
  BY <1>2, <1>4, SharesFit
<1>9. SumOver(F, A) = SumOver(F, B)
  BY <1>5, <1>6, <1>7, <1>8, SumZeros
<1> QED
  BY <1>8, <1>9 DEF A, F
----------------------------------------------------------------------------
(* The specification. *)

\* No assignment is closed yet.
LEMMA InitInv == Init => Inv
<1> SUFFICES ASSUME Init PROVE Inv
  OBVIOUS
<1>1. DOMAIN closed = {}
  BY DEF Init
<1> QED
  BY <1>1, FS_EmptySet DEF Inv

\* A step closes at most one more.
LEMMA NextInv == Inv /\ [Next]_vars => Inv'
<1> SUFFICES ASSUME Inv, [Next]_vars PROVE Inv'
  OBVIOUS
<1>1. ASSUME NEW q, NEW w, SubmitQuestion(q, w) PROVE Inv'
  BY <1>1 DEF SubmitQuestion, Inv
<1>2. ASSUME NEW q, NEW w, NEW v, Closes(q, w, v) PROVE Inv'
  <2>1. PICK x : DOMAIN closed' = DOMAIN closed \cup {x}
    BY <1>2 DEF Closes
  <2>2. IsFiniteSet(DOMAIN closed \cup {x})
    BY FS_AddElement DEF Inv
  <2> QED
    BY <2>1, <2>2 DEF Inv
<1>3. CASE UNCHANGED vars
  BY <1>3 DEF vars, Inv
<1> QED
  BY <1>1, <1>2, <1>3 DEF Next

\* Always only finitely many assignments have been closed.
LEMMA AlwaysInv == Spec => []Inv
  BY InitInv, NextInv, PTL DEF Spec

\* While nothing is scored there is nothing to pay for.
LEMMA NothingScored ==
  ASSUME Scored = {}
  PROVE  DOMAIN Ask = {} /\ DOMAIN Ans = {} /\ Miners(Ask, Ans) = {}
<1>1. DOMAIN Ask = {} /\ DOMAIN Ans = {}
  BY DEF Ask, Ans
<1> QED
  BY <1>1 DEF Miners

\* In a state with finitely many closed assignments.
LEMMA InvPool == ASSUME Inv, Required <= 5 PROVE PoolNotOverspent
<1> DEFINE M == Miners(Ask, Ans)
           paid == [w \in M |-> RawReward(Ask, Ans, w)]
<1>1. CASE Scored = {}
  <2>1. M = {}
    BY <1>1, NothingScored
  <2>2. DOMAIN paid = {}
    BY <2>1
  <2> HIDE DEF paid
  <2>3. SumOver(paid, DOMAIN paid) = 0
    BY <2>2, SumEmpty
  <2>4. SumOver(paid, DOMAIN paid) <= TotalReward
    BY <2>3, PayoutAssumption
  <2> QED
    BY <2>1, <2>4 DEF PoolNotOverspent, paid
<1>2. CASE Scored # {}
  <2>1. Listed(Ask, Ans) /\ Fitting(Ask, Ans)
    BY <1>2, RowsListed, RowsFitting
  <2>2. \A w \in M : paid[w] = RawReward(Ask, Ans, w)
    OBVIOUS
  <2>3. DOMAIN paid = M
    OBVIOUS
  <2> HIDE DEF paid
  <2>4. SumOver(paid, M) <= TotalReward
    BY <2>1, <2>2, PoolHolds
  <2>5. SumOver(paid, DOMAIN paid) <= TotalReward
    BY <2>3, <2>4
  <2>6. ASSUME NEW w \in M PROVE FinalReward(Ask, Ans, w) <= RawReward(Ask, Ans, w)
    BY <2>1, FinalIs
  <2> QED
    BY <2>5, <2>6 DEF PoolNotOverspent, paid
<1> QED
  BY <1>1, <1>2

\* The same for time-outs.
LEMMA InvTimeout == ASSUME Inv PROVE TimeoutNeverPays
<1> SUFFICES ASSUME NEW a \in DOMAIN Ans, Ans[a].status = "timed-out"
             PROVE  FinalReward(Ask, Ans, Ans[a].by)
                      <= FinalReward(Ask, [b \in DOMAIN Ans \ {a} |-> Ans[b]], Ans[a].by)
  BY DEF TimeoutNeverPays
<1>1. Listed(Ask, Ans)
  BY NothingScored, RowsListed
<1>2. PICK less : less = [b \in DOMAIN Ans \ {a} |-> Ans[b]]
  OBVIOUS
<1>3. FinalReward(Ask, Ans, Ans[a].by) <= FinalReward(Ask, less, Ans[a].by)
  BY <1>1, <1>2, TimeoutCosts
<1> QED
  BY <1>2, <1>3

\* The same for the estimates.
LEMMA InvEstimate == ASSUME Inv PROVE EstimateMirrorsSettlement
<1> SUFFICES ASSUME NEW w \in Miners(Ask, Ans), NEW elapsed \in 1 .. DayParts
             PROVE  /\ EstimatedReward(Ask, Ans, w, elapsed)
                         <= FinalReward(Ask, Ans, w) + ScoredTasks(Ask, Ans, w)
                    /\ elapsed = DayParts =>
                         EstimatedReward(Ask, Ans, w, elapsed) >= FinalReward(Ask, Ans, w)
  BY DEF EstimateMirrorsSettlement
<1>1. Listed(Ask, Ans)
  BY NothingScored, RowsListed
<1>2. PICK x, y, t : /\ x = EstimatedReward(Ask, Ans, w, elapsed)
                     /\ y = FinalReward(Ask, Ans, w) /\ t = ScoredTasks(Ask, Ans, w)
  OBVIOUS
<1>3. x <= y + t /\ (elapsed = DayParts => x >= y)
  BY <1>1, <1>2, EstimateHolds
<1> QED
  BY <1>2, <1>3

\* The same for the benchmark questions.
LEMMA InvBenchmark == ASSUME Inv, BenchmarkMinScore > 5 PROVE BenchmarkNeedsBothRoles
<1> SUFFICES ASSUME NEW q \in Benchmarks(Ask, Ans)
             PROVE  \E a \in ScoredAnswers(Ask, Ans, author[q]) : Ans[a].score > 0
  BY DEF BenchmarkNeedsBothRoles
<1>1. q \in DOMAIN Ask
  BY DEF Benchmarks
<1>2. Listed(Ask, Ans)
  BY <1>1, NothingScored, RowsListed
<1>3. Ask[q].by = author[q]
  BY <1>1 DEF Ask
<1>4. \E a \in ScoredAnswers(Ask, Ans, Ask[q].by) : Ans[a].score > 0
  BY <1>2, AlsoAnswers
<1> QED
  BY <1>3, <1>4

\* An epoch whose questions take up to five answers, as the shipped settings
\* say, never pays out more than its pool: the shares of a question, rounded to
\* the four digits of the column, add up to one at most, and every division of
\* Settle only takes away.
THEOREM PoolIsNotOverspent ==
  ASSUME Required <= 5 PROVE Spec => []PoolNotOverspent
<1>1. Inv => PoolNotOverspent
  BY InvPool
<1> QED
  BY <1>1, AlwaysInv, PTL

\* Without a row that timed out its worker would get no less: neither the
\* composite score, nor the count of tasks, nor the raw reward gains by it.
THEOREM TimeoutsNeverPay == Spec => []TimeoutNeverPays
<1>1. Inv => TimeoutNeverPays
  BY InvTimeout
<1> QED
  BY <1>1, AlwaysInv, PTL

\* The estimate of GetWorkerTodayStats, summed up before it is divided, is what
\* Settle pays at the end of the day or more by at most a unit for each task,
\* and promises no more than that earlier.
THEOREM EstimatesMirror == Spec => []EstimateMirrorsSettlement
<1>1. Inv => EstimateMirrorsSettlement
  BY InvEstimate
<1> QED
  BY <1>1, AlwaysInv, PTL

\* With a threshold above one half, as the default of 0.6 is, a question
\* becomes a benchmark only when its author also answered and scored.
THEOREM BenchmarksNeedBoth ==
  ASSUME BenchmarkMinScore > 5 PROVE Spec => []BenchmarkNeedsBothRoles
<1>1. Inv => BenchmarkNeedsBothRoles
  BY InvBenchmark
<1> QED
  BY <1>1, AlwaysInv, PTL
----------------------------------------------------------------------------
(* Any list of scored questions: what Settlement assumes of Payout. *)

\* The answers Settle lists for the questions of S.
AnsOf(S) == [a \in {b \in DOMAIN Ans : Ans[b].q \in S} |-> Ans[a]]

\* Who asks and who answers is a worker, and what is answered has an author.
Roles ==
  /\ author \in [Question -> Worker \cup {None}]
  /\ \A a \in DOMAIN closed : a[2] \in Worker /\ author[a[1]] \in Worker \ {None}

\* At the start nothing is asked.
LEMMA InitRoles == Init => Roles
<1> SUFFICES ASSUME Init PROVE Roles
  OBVIOUS
<1>1. DOMAIN closed = {}
  BY DEF Init
<1> QED
  BY <1>1 DEF Init, Roles

\* A question has one author, before anybody answers it.
LEMMA NextRoles == Roles /\ [Next]_vars => Roles'
<1> SUFFICES ASSUME Roles, [Next]_vars PROVE Roles'
  OBVIOUS
<1>1. ASSUME NEW q \in Question, NEW w \in Worker, SubmitQuestion(q, w) PROVE Roles'
  <2>1. /\ author' = [author EXCEPT ![q] = w] /\ closed' = closed /\ author[q] = None
        /\ author \in [Question -> Worker \cup {None}]
    BY <1>1 DEF SubmitQuestion, Roles
  <2>2. ASSUME NEW a \in DOMAIN closed PROVE author'[a[1]] = author[a[1]]
    <3>1. a[1] # q
      BY <2>1, <2>2 DEF Roles
    <3> QED
      BY <2>1, <3>1
  <2>3. author' \in [Question -> Worker \cup {None}]
    BY <2>1
  <2> QED
    BY <2>1, <2>2, <2>3 DEF Roles
<1>2. ASSUME NEW q \in Question, NEW w \in Worker, NEW v, Closes(q, w, v) PROVE Roles'
  <2>1. PICK k : DOMAIN closed' = DOMAIN closed \cup {<<q, w, k>>}
    BY <1>2 DEF Closes
  <2>2. author' = author /\ author[q] \in Worker \ {None}
    BY <1>2 DEF Closes, Roles
  <2>3. <<q, w, k>>[1] = q /\ <<q, w, k>>[2] = w
    OBVIOUS
  <2>4. ASSUME NEW a \in DOMAIN closed'
        PROVE  a[2] \in Worker /\ author'[a[1]] \in Worker \ {None}
    <3>1. CASE a \in DOMAIN closed
      BY <2>2, <3>1 DEF Roles
    <3>2. CASE a = <<q, w, k>>
      BY <2>2, <2>3, <3>2
    <3> QED
      BY <2>1, <3>1, <3>2
  <2> QED
    BY <2>2, <2>4 DEF Roles
<1>3. CASE UNCHANGED vars
  BY <1>3 DEF vars, Roles
<1> QED
  BY <1>1, <1>2, <1>3 DEF Next

\* The miners of a list are those of its questions and answers.
LEMMA MinersOf ==
  ASSUME Inv, Roles, NEW S \in SUBSET Scored
  PROVE  /\ Miners(AskOf(S), Ans) = Miners(AskOf(S), AnsOf(S))
         /\ Miners(AskOf(S), Ans) \subseteq Worker
         /\ \A T \in SUBSET S : Miners(AskOf(T), Ans) \subseteq Miners(AskOf(S), Ans)
         /\ S = {} => Miners(AskOf(S), Ans) = {}
<1>1. \A T \in SUBSET S :
        Miners(AskOf(T), Ans) = {Ask[q].by : q \in T}
                                  \cup {Ans[a].by : a \in {b \in DOMAIN Ans : Ans[b].q \in T}}
  BY DEF Miners, AskOf
<1>2. Miners(AskOf(S), AnsOf(S)) = {Ask[q].by : q \in S}
        \cup {Ans[a].by : a \in {b \in DOMAIN Ans : Ans[b].q \in S}}
  BY DEF Miners, AskOf, AnsOf
<1>3. ASSUME NEW q \in S PROVE Ask[q].by \in Worker
  <2>1. Ask[q].by = author[q]
    BY <1>3 DEF Ask
  <2>2. Repliers(q) # {}
    BY <1>3, FS_EmptySet, RequiredAssumption DEF Scored
  <2>3. PICK a \in DOMAIN closed : a[1] = q
    BY <2>2 DEF Repliers
  <2> QED
    BY <2>1, <2>3 DEF Roles
<1>4. ASSUME NEW a \in DOMAIN Ans PROVE Ans[a].by \in Worker
  <2>1. a \in DOMAIN closed /\ Ans[a].by = a[2]
    BY DEF Ans, Row
  <2> QED
    BY <2>1 DEF Roles
<1> QED
  BY <1>1, <1>2, <1>3, <1>4

\* A list with a question in it has rows as Settle expects them, and what is
\* computed from all rows is computed from those of the list.
LEMMA ListRows ==
  ASSUME Inv, NEW S \in SUBSET Scored, S # {}
  PROVE  /\ Listed(AskOf(S), AnsOf(S))
         /\ Required <= 5 => Fitting(AskOf(S), AnsOf(S))
<1>1. Listed(Ask, Ans)
  BY RowsListed
<1>2. /\ DOMAIN Ask = Scored
      /\ DOMAIN AskOf(S) = S /\ \A q \in S : AskOf(S)[q] = Ask[q]
  BY DEF Ask, AskOf
<1>3. /\ DOMAIN AnsOf(S) = {b \in DOMAIN Ans : Ans[b].q \in S}
      /\ \A a \in DOMAIN AnsOf(S) : AnsOf(S)[a] = Ans[a]
  BY DEF AnsOf
<1>4. IsFiniteSet(S) /\ IsFiniteSet(DOMAIN AnsOf(S))
  BY <1>1, <1>2, <1>3, FS_Subset DEF Listed
<1>5. Listed(AskOf(S), AnsOf(S))
  BY <1>1, <1>2, <1>3, <1>4 DEF Listed
<1>6. ASSUME Required <= 5, NEW q \in S
      PROVE  SumOver(ShareOf(AnsOf(S)), {a \in DOMAIN AnsOf(S) : AnsOf(S)[a].q = q}) <= Whole
  <2> DEFINE A == {a \in DOMAIN Ans : Ans[a].q = q}
             F == ShareOf(Ans)
             G == ShareOf(AnsOf(S))
  <2>1. {a \in DOMAIN AnsOf(S) : AnsOf(S)[a].q = q} = A
    BY <1>3
  <2>2. \A a \in A : G[a] = F[a]
    BY <1>3 DEF ShareOf
  <2>3. IsFiniteSet(A)
    BY <1>1, FS_Subset DEF Listed
  <2>4. SumOver(F, A) <= Whole
    BY <1>2, <1>6, RowsFitting DEF Fitting
  <2> HIDE DEF A, F, G
  <2>5. SumOver(G, A) = SumOver(F, A)
    BY <2>2, <2>3, SumSame
  <2> QED
    BY <2>1, <2>4, <2>5 DEF G
<1> QED
  BY <1>2, <1>5, <1>6 DEF Fitting

\* The answers to other questions play no part.
LEMMA OnlyTheList ==
  ASSUME Inv, NEW S \in SUBSET Scored, S # {}, NEW w
  PROVE  FinalReward(AskOf(S), Ans, w) = FinalReward(AskOf(S), AnsOf(S), w)
<1>1. PICK ask, ans : ask = AskOf(S) /\ ans = AnsOf(S)
  OBVIOUS
<1>2. /\ DOMAIN ask = S /\ DOMAIN ans = {b \in DOMAIN Ans : Ans[b].q \in S}
      /\ \A a \in DOMAIN ans : ans[a] = Ans[a]
  BY <1>1 DEF AskOf, AnsOf
<1>3. Listed(ask, ans)
  BY <1>1, ListRows
<1> DEFINE B == Answered(ask, ans, w)
<1>4. Answered(ask, Ans, w) = B /\ \A a \in B : a \in DOMAIN ans /\ a \in DOMAIN Ans
  BY <1>2 DEF Answered
<1>5. IsFiniteSet(B)
  BY <1>3, WorkerRows
<1>6. ScoredAnswers(ask, Ans, w) = ScoredAnswers(ask, ans, w)
  BY <1>2, <1>4 DEF ScoredAnswers
<1>7. \A a \in B : /\ ScoreOf(Ans)[a] = ScoreOf(ans)[a]
                   /\ Parts(AnsPool(ask), Ans)[a] = Parts(AnsPool(ask), ans)[a]
  BY <1>2, <1>4 DEF ScoreOf, Parts
<1> HIDE DEF B
<1>8. /\ SumOver(ScoreOf(Ans), B) = SumOver(ScoreOf(ans), B)
      /\ SumOver(Parts(AnsPool(ask), Ans), B) = SumOver(Parts(AnsPool(ask), ans), B)
  BY <1>5, <1>7, SumSame
<1>9. AnsSum(ask, Ans, w) = AnsSum(ask, ans, w)
  BY <1>4, <1>8 DEF AnsSum, B
<1>10. RawReward(ask, Ans, w) = RawReward(ask, ans, w)
  BY <1>4, <1>8 DEF RawReward, B
<1>11. Composite(ask, Ans, w) = Composite(ask, ans, w)
  BY <1>4, <1>9 DEF Composite, B
<1>12. ScoredTasks(ask, Ans, w) = ScoredTasks(ask, ans, w)
  BY <1>6 DEF ScoredTasks
<1>13. FinalReward(ask, Ans, w) = FinalReward(ask, ans, w)
  BY <1>10, <1>11, <1>12 DEF FinalReward
<1> QED
  BY <1>1, <1>13

\* What the final rewards of a list add up to.
LEMMA ListTotal ==
  ASSUME Inv, Roles, NEW S \in SUBSET Scored
  PROVE  /\ \A w \in DOMAIN FinalOf(S) : FinalOf(S)[w] \in Nat
         /\ Required <= 5 => SumOver(FinalOf(S), DOMAIN FinalOf(S)) <= TotalReward
<1> DEFINE M == Miners(AskOf(S), Ans)
           F == FinalOf(S)
<1>1. DOMAIN F = M /\ \A w \in M : F[w] = FinalReward(AskOf(S), Ans, w)
  BY DEF FinalOf
<1>2. CASE S = {}
  <2>1. DOMAIN F = {}
    BY <1>1, <1>2, MinersOf
  <2> HIDE DEF F
  <2>2. SumOver(F, DOMAIN F) = 0
    BY <2>1, SumEmpty
  <2> QED
    BY <2>1, <2>2, PayoutAssumption DEF F
<1>3. CASE S # {}
  <2>1. PICK ask, ans : ask = AskOf(S) /\ ans = AnsOf(S)
    OBVIOUS
  <2>2. Listed(ask, ans) /\ (Required <= 5 => Fitting(ask, ans))
    BY <1>3, <2>1, ListRows
  <2>3. M = Miners(ask, ans)
    BY <2>1, MinersOf
  <2>4. IsFiniteSet(M)
    BY <2>2, <2>3, MinersFinite
  <2> DEFINE G == [w \in M |-> RawReward(ask, ans, w)]
  <2>5. \A w \in M : F[w] \in Nat /\ G[w] \in Nat /\ F[w] <= G[w]
    <3>1. SUFFICES ASSUME NEW w \in M PROVE F[w] \in Nat /\ G[w] \in Nat /\ F[w] <= G[w]
      OBVIOUS
    <3>2. F[w] = FinalReward(ask, ans, w)
      BY <1>1, <1>3, <2>1, OnlyTheList
    <3>3. G[w] = RawReward(ask, ans, w)
      OBVIOUS
    <3> QED
      BY <2>2, <3>2, <3>3, FinalIs, RawSums
  <2>6. ASSUME Required <= 5 PROVE SumOver(F, M) <= TotalReward
    <3>1. \A w \in Miners(ask, ans) : G[w] = RawReward(ask, ans, w)
      BY <2>3
    <3> HIDE DEF F, G, M
    <3>2. SumOver(G, M) <= TotalReward
      BY <2>2, <2>3, <2>6, <3>1, PoolHolds
    <3>3. \A w \in M : F[w] \in Nat /\ G[w] \in Nat /\ 1 * F[w] <= 1 * G[w] + 0
      BY <2>5
    <3>4. 1 * SumOver(F, M) <= 1 * SumOver(G, M) + 0 * Cardinality(M)
      BY <2>4, <3>3, SumBound
    <3>5. SumOver(F, M) \in Nat /\ SumOver(G, M) \in Nat /\ Cardinality(M) \in Nat
      BY <2>4, <3>3, SumType, FS_CardinalityType
    <3> QED
      BY <3>2, <3>4, <3>5, PayoutAssumption
  <2> QED
    BY <1>1, <2>5, <2>6
<1> QED
  BY <1>2, <1>3

\* The computation satisfies, in every state and for every list Settle may have
\* read, what Settlement assumes of its rewards and benchmarks; the amounts in
\* the tree add up to at most the pool.
THEOREM PayoutFitsSettlement == Spec => []AnyListSettles
<1>1. ASSUME Inv, Roles PROVE AnyListSettles
  <2> SUFFICES ASSUME NEW S \in SUBSET Scored
               PROVE  /\ Benchmarks(AskOf(S), Ans) \subseteq S
                      /\ S = {} => DOMAIN FinalOf(S) = {}
                      /\ DOMAIN FinalOf(S) \subseteq Worker
                      /\ \A w \in DOMAIN FinalOf(S) : FinalOf(S)[w] \in Nat
                      /\ \A T \in SUBSET S : DOMAIN FinalOf(T) \subseteq DOMAIN FinalOf(S)
                      /\ Required <= 5 =>
                           SumOver(FinalOf(S), DOMAIN FinalOf(S)) <= TotalReward
    BY DEF AnyListSettles
  <2>1. Benchmarks(AskOf(S), Ans) \subseteq S
    BY DEF Benchmarks, AskOf
  <2>2. \A T \in SUBSET S : DOMAIN FinalOf(T) = Miners(AskOf(T), Ans)
    BY DEF FinalOf
  <2>3. /\ S = {} => DOMAIN FinalOf(S) = {}
        /\ DOMAIN FinalOf(S) \subseteq Worker
        /\ \A T \in SUBSET S : DOMAIN FinalOf(T) \subseteq DOMAIN FinalOf(S)
    <3>1. /\ S = {} => Miners(AskOf(S), Ans) = {}
          /\ Miners(AskOf(S), Ans) \subseteq Worker
          /\ \A T \in SUBSET S : Miners(AskOf(T), Ans) \subseteq Miners(AskOf(S), Ans)
      BY <1>1, MinersOf, Zenon
    <3>2. DOMAIN FinalOf(S) = Miners(AskOf(S), Ans)
      BY <2>2
    <3> QED
      BY <2>2, <3>1, <3>2, Zenon
  <2> QED
    BY <1>1, <2>1, <2>3, ListTotal
<1>2. Spec => []Roles
  BY InitRoles, NextRoles, PTL DEF Spec
<1> QED
  BY <1>1, <1>2, AlwaysInv, PTL
=============================================================================
