---------------------------- MODULE MCSettlement ----------------------------
(***************************************************************************)
(* Settlement on a small epoch, with the rewards and benchmarks Payout     *)
(* computes for it: w1 asked q1 and w2 asked q2, each answered the other's *)
(* question correctly, and w3 answered q1 wrongly and never got q2.        *)
(***************************************************************************)
EXTENDS Settlement, TLC

CONSTANTS q1, q2, w1, w2, w3

P == INSTANCE Payout WITH
       TotalReward <- 30, MinTasks <- 2, BenchmarkMinScore <- 6, DayParts <- 1,
       Answer <- {"a"}, Reference <- "a", Invalid <- "invalid"

MCAsk(S) ==
  [q \in S |-> [by |-> IF q = q1 THEN w1 ELSE w2, score |-> 5, share |-> 10000]]

Closed(q, w, status, score, share) ==
  [q |-> q, by |-> w, status |-> status, score |-> score, share |-> share,
   valid |-> TRUE]

MCAns ==
  <<Closed(q1, w2, "scored", 5, 10000), Closed(q1, w3, "scored", 3, 0),
    Closed(q2, w1, "scored", 5, 10000)>>

MCFinal ==
  [S \in SUBSET Question |->
     [w \in P!Miners(MCAsk(S), MCAns) |-> P!FinalReward(MCAsk(S), MCAns, w)]]

MCBenchmark == [S \in SUBSET Question |-> P!Benchmarks(MCAsk(S), MCAns)]

Symmetry == Permutations(Settler) \cup Permutations(Recipient)
=============================================================================
