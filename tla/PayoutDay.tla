----------------------------- MODULE PayoutDay -----------------------------
(***************************************************************************)
(* One epoch as it fills: workers submit questions, answer those of others *)
(* or let an assignment time out, and every question that has its required *)
(* replies is scored (Scoring).  In every state Payout says what Settle    *)
(* would pay for what is scored so far.                                    *)
(*                                                                         *)
(* The interleavings of requests, timers and scorers are AssignmentFlow's  *)
(* subject; here an assignment appears when it is closed.                  *)
(***************************************************************************)
EXTENDS Payout

CONSTANTS Question, Worker, Required, None

ASSUME RequiredAssumption == Required \in Nat \ {0}

VARIABLES
  author,  \* [Question -> questioner], None before it is submitted
  closed   \* <<question, worker, attempt>> |-> reply, None when it timed out

vars == <<author, closed>>

Repliers(q) == {a \in DOMAIN closed : a[1] = q /\ closed[a] # None}

Scored == {q \in Question : Cardinality(Repliers(q)) = Required}

Init == author = [q \in Question |-> None] /\ closed = [a \in {} |-> None]

\* CreateQuestion
SubmitQuestion(q, w) ==
  /\ author[q] = None
  /\ author' = [author EXCEPT ![q] = w]
  /\ UNCHANGED closed

\* An assignment of q to w ends, with reply v or, when v is None, timed out.
\* PickQuestionForWorker gives w the question again only after a time-out.
\* A poll that has picked q from an old snapshot assigns it after it is scored:
\* such a claim can still time out, and Settle lists it, but a reply to it is
\* never scored and never listed.  A worker that polls twice at once can have
\* two replies to a question, and a crash can leave a question's replies without
\* scores: neither is represented here.
Closes(q, w, v) ==
  /\ author[q] \notin {None, w}
  /\ v # None => q \notin Scored
  /\ \E k \in 1 .. 2 :
       /\ <<q, w, k>> \notin DOMAIN closed
       /\ k = 2 => <<q, w, 1>> \in DOMAIN closed /\ closed[<<q, w, 1>>] = None
       /\ closed' = [a \in DOMAIN closed \cup {<<q, w, k>>} |->
                       IF a \in DOMAIN closed THEN closed[a] ELSE v]
  /\ UNCHANGED author

Next ==
  \E q \in Question, w \in Worker :
    SubmitQuestion(q, w) \/ \E v \in Reply \cup {None} : Closes(q, w, v)

Spec == Init /\ [][Next]_vars
----------------------------------------------------------------------------
(* The rows Settle lists. *)

RepliesTo(q) == [a \in Repliers(q) |-> closed[a]]

Ask == [q \in Scored |->
          [by |-> author[q], score |-> QuestionerScore(RepliesTo(q)).score,
           share |-> QuestionerScore(RepliesTo(q)).share]]

Row(a) ==
  LET got == IF closed[a] = None THEN [score |-> 0, share |-> 0]
             ELSE AnswererScore(RepliesTo(a[1]), a)
  IN [q |-> a[1], by |-> a[2], score |-> got.score, share |-> got.share,
      status |-> IF closed[a] = None THEN "timed-out" ELSE "scored",
      valid |-> closed[a] # Invalid]

Ans == [a \in {b \in DOMAIN closed : b[1] \in Scored} |-> Row(a)]
\* Settle works on the list it has read, while more questions may be scored:
\* the rows of list S, and the rewards it computes from them.
AskOf(S) == [q \in S |-> Ask[q]]

FinalOf(S) == [w \in Miners(AskOf(S), Ans) |-> FinalReward(AskOf(S), Ans, w)]
----------------------------------------------------------------------------
(* Properties. *)

\* An epoch never pays out more than its pool, whatever was answered and
\* however the divisions truncate, and no worker's final reward exceeds the
\* raw reward it is a fraction of.
PoolNotOverspent ==
  /\ LET paid == [w \in Miners(Ask, Ans) |-> RawReward(Ask, Ans, w)]
     IN SumOver(paid, DOMAIN paid) <= TotalReward
  /\ \A w \in Miners(Ask, Ans) : FinalReward(Ask, Ans, w) <= RawReward(Ask, Ans, w)

\* To let an assignment time out is never worth while: without the timed-out
\* row its worker's final reward would not be lower.  (The row lowers the
\* composite score and must not count towards MinTasks.)
TimeoutNeverPays ==
  \A a \in DOMAIN Ans : Ans[a].status = "timed-out" =>
    LET without == [b \in DOMAIN Ans \ {a} |-> Ans[b]] IN
    FinalReward(Ask, Ans, Ans[a].by) <= FinalReward(Ask, without, Ans[a].by)

\* The estimate a worker is shown mirrors the settlement, though it is summed
\* up by SQL aggregates and truncated elsewhere: at the end of the day it is
\* what the settlement pays, or more by less than a unit for each task, and
\* earlier in the day it promises no more than that.
EstimateMirrorsSettlement ==
  \A w \in Miners(Ask, Ans), elapsed \in 1 .. DayParts :
    LET estimate == EstimatedReward(Ask, Ans, w, elapsed)
        final == FinalReward(Ask, Ans, w)
    IN /\ estimate <= final + ScoredTasks(Ask, Ans, w)
       /\ elapsed = DayParts => estimate >= final

\* Only a worker that also answers can contribute a benchmark question: the
\* composite score of a pure questioner stays below the threshold, however
\* good the questions are.
BenchmarkNeedsBothRoles ==
  \A q \in Benchmarks(Ask, Ans) :
    \E a \in ScoredAnswers(Ask, Ans, author[q]) : Ans[a].score > 0

\* Whatever list of scored questions Settle has read, a first attempt or a
\* retry: only workers with a task in it get a row, all of those of a shorter
\* list among them; only listed questions become benchmarks; and what goes into
\* the Merkle tree is, for up to five required answers, within the pool.
\* Settlement takes this for granted of its Final and Benchmark.
AnyListSettles ==
  \A S \in SUBSET Scored :
    LET final == FinalOf(S) IN
    /\ Benchmarks(AskOf(S), Ans) \subseteq S
    /\ S = {} => DOMAIN final = {}
    /\ DOMAIN final \subseteq Worker
    /\ \A w \in DOMAIN final : final[w] \in Nat
    /\ \A T \in SUBSET S : DOMAIN FinalOf(T) \subseteq DOMAIN final
    /\ Required <= 5 => SumOver(final, DOMAIN final) <= TotalReward
=============================================================================
