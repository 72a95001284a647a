------------------------------- MODULE Payout -------------------------------
(***************************************************************************)
(* The pure part of SettlementService.Settle                               *)
(* (internal/service/settlement.go): from the scored questions and the     *)
(* closed assignments of one epoch to every worker's reward and to the     *)
(* questions that become benchmarks.                                       *)
(*                                                                         *)
(* The operators take the rows Settle lists:                               *)
(*   ask : question   |-> [by, score, share]                               *)
(*   ans : assignment |-> [q, by, status, score, share, valid]             *)
(* Shares are in ten-thousandths (Scoring).  The code computes in float64  *)
(* and truncates; here the arithmetic is exact, and a float64 result may   *)
(* be one unit lower, never higher.                                        *)
(***************************************************************************)
EXTENDS Scoring, Sums

CONSTANTS TotalReward,       \* settlement.total_reward
          MinTasks,          \* settlement.min_tasks
          BenchmarkMinScore, \* settlement.benchmark_min_score, in tenths
          DayParts           \* the parts of a day the estimate can tell apart

ASSUME PayoutAssumption ==
  /\ TotalReward \in Nat /\ MinTasks \in Nat /\ BenchmarkMinScore \in 0 .. 10
  /\ DayParts \in Nat \ {0}

\* The part of the pool every scored question gets, and its two pools.
BaseReward(ask) == TotalReward \div Cardinality(DOMAIN ask)
AskPool(ask) == BaseReward(ask) \div 3

\* Mutant: the questioner's third is not taken out of the answerers' pool.
AnsPoolWhole(ask) == BaseReward(ask)

AnsPool(ask) == BaseReward(ask) - AskPool(ask)

Part(pool, share) == (pool * share) \div Whole

\* Columns of the rows, as functions to be summed up.
Parts(pool, rows) == [x \in DOMAIN rows |-> Part(pool, rows[x].share)]
ShareOf(rows) == [x \in DOMAIN rows |-> rows[x].share]
ScoreOf(rows) == [x \in DOMAIN rows |-> rows[x].score]
----------------------------------------------------------------------------
(* minerStats of worker w. *)

Asked(ask, w) == {q \in DOMAIN ask : ask[q].by = w}

\* ListScoredAssignmentsForQuestions: scored and timed-out assignments.
Answered(ask, ans, w) ==
  {a \in DOMAIN ans : ans[a].q \in DOMAIN ask /\ ans[a].by = w}

ScoredAnswers(ask, ans, w) ==
  {a \in Answered(ask, ans, w) : ans[a].status = "scored"}

\* Mutant: the assignments of questions that are not listed count too.
MinersOfAll(ask, ans) == {ask[q].by : q \in DOMAIN ask} \cup {ans[a].by : a \in DOMAIN ans}

\* The workers that have a row in worker_epoch_rewards.
Miners(ask, ans) ==
  {ask[q].by : q \in DOMAIN ask}
    \cup {ans[a].by : a \in {b \in DOMAIN ans : ans[b].q \in DOMAIN ask}}

RawReward(ask, ans, w) ==
  SumOver(Parts(AskPool(ask), ask), Asked(ask, w))
    + SumOver(Parts(AnsPool(ask), ans), Answered(ask, ans, w))

AskSum(ask, w) == SumOver(ScoreOf(ask), Asked(ask, w))
AnsSum(ask, ans, w) == SumOver(ScoreOf(ans), Answered(ask, ans, w))

AtLeastOne(n) == IF n = 0 THEN 1 ELSE n

\* Mutant: a worker with one role only is measured by that role alone.
CompositeByRole(ask, ans, w) ==
  LET nAsk == AtLeastOne(Cardinality(Asked(ask, w)))
      nAns == AtLeastOne(Cardinality(Answered(ask, ans, w)))
      both == Asked(ask, w) # {} /\ Answered(ask, ans, w) # {}
  IN [num |-> AskSum(ask, w) * nAns + AnsSum(ask, ans, w) * nAsk,
      den |-> (IF both THEN 10 ELSE 5) * nAsk * nAns]

\* composite = (askAvg + ansAvg) / 10, as a fraction.  An average over no
\* tasks counts as 0, which gives the single-role cases of the code too.
Composite(ask, ans, w) ==
  LET nAsk == AtLeastOne(Cardinality(Asked(ask, w)))
      nAns == AtLeastOne(Cardinality(Answered(ask, ans, w)))
  IN [num |-> AskSum(ask, w) * nAns + AnsSum(ask, ans, w) * nAsk,
      den |-> 10 * nAsk * nAns]

\* Mutant: a task counts even when the worker let it time out.
TasksGiven(ask, ans, w) ==
  Cardinality(Asked(ask, w)) + Cardinality(Answered(ask, ans, w))

ScoredTasks(ask, ans, w) ==
  Cardinality(Asked(ask, w)) + Cardinality(ScoredAnswers(ask, ans, w))

FinalReward(ask, ans, w) ==
  LET c == Composite(ask, ans, w) IN
  IF ScoredTasks(ask, ans, w) >= MinTasks
    THEN (RawReward(ask, ans, w) * c.num) \div c.den
    ELSE 0
----------------------------------------------------------------------------
(* GetWorkerTodayStats (internal/store/public_queries.go): what a worker   *)
(* is told during the day, from aggregates over the same rows.  elapsed of *)
(* DayParts parts of the day have passed, at least one.                    *)

\* Mutant: the average leaves the time-outs out.
AverageOfScored(t) == [n |-> t.answered, sum |-> t.ansScore]

\* avg(a.score) FILTER (WHERE a.status IN ('scored', 'timed-out'))
AnswerAverage(t) == [n |-> t.answered + t.timedOut, sum |-> t.ansScore]

Today(ask, ans, w) ==
  LET asked == Asked(ask, w)
      answered == ScoredAnswers(ask, ans, w)
  IN [asked |-> Cardinality(asked), askScore |-> AskSum(ask, w),
      askShare |-> SumOver(ShareOf(ask), asked),
      answered |-> Cardinality(answered),
      timedOut |-> Cardinality(Answered(ask, ans, w) \ answered),
      ansScore |-> AnsSum(ask, ans, w),
      ansShare |-> SumOver(ShareOf(ans), answered)]

\* The day's total, if it goes on as it has begun.
EstimatedTotal(ask, elapsed) ==
  (Cardinality(DOMAIN ask) * DayParts) \div elapsed

EstimatedReward(ask, ans, w, elapsed) ==
  LET t == Today(ask, ans, w)
      base == IF DOMAIN ask = {} THEN 0 ELSE TotalReward \div EstimatedTotal(ask, elapsed)
      raw == Part(base \div 3, t.askShare) + Part(base - base \div 3, t.ansShare)
      nAsk == AtLeastOne(t.asked)
      nAns == AtLeastOne(AnswerAverage(t).n)
  IN IF t.asked + t.answered >= MinTasks
       THEN (raw * (t.askScore * nAns + AnswerAverage(t).sum * nAsk))
              \div (10 * nAsk * nAns)
       ELSE 0
----------------------------------------------------------------------------
(* Benchmark judgment. *)

InvalidReports(ans, q) ==
  {a \in DOMAIN ans : ans[a].q = q /\ ans[a].status = "scored" /\ ~ans[a].valid}

Benchmarks(ask, ans) ==
  {q \in DOMAIN ask :
     LET c == Composite(ask, ans, ask[q].by) IN
     /\ ask[q].score >= 4
     /\ Cardinality(InvalidReports(ans, q)) <= 1
     /\ 10 * c.num >= BenchmarkMinScore * c.den}
=============================================================================
