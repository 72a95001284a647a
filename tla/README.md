# Verification of the benchmark subnet server

`benchmarkd` (Go, PostgreSQL) lets workers ask questions, hands the questions to
other workers, scores the answers, and once a day turns the scores into rewards
whose Merkle root it publishes on a chain. This directory holds TLA+ models of
the server's core, the TLC configurations that check them on small instances,
and proofs checked by TLAPS. File names below are relative to `src/internal/`
unless they start with `src/`.

## 1. Inventory

| Part | State it keeps | Operations | Interacts with |
|---|---|---|---|
| Benchmark sets (`handler/benchmark_set.go`, `store/benchmark_set.go`) | table `benchmark_sets` with two counters | creation (one or a batch), update | intake, settlement |
| Question intake (`service/question.go`) | table `questions`, counter `total_questions` | `SubmitQuestion` | reads the set and all its MinHashes |
| Polling (`service/poll.go`, `store/question.go`) | table `assignments` | `PollOnline`: one transaction that cleans up an expired claim, picks and locks a question, counts, inserts | starts a reply timer |
| Answers (`service/answer.go`) | `assignments` | `SubmitAnswer` | stops the timer, starts a scorer |
| Reply timers, recovery (`service/timer.go`) | in-memory map of timers | `StartReplyTimer`, `handleTimeout`, `TryScore`, `RecoverOnStartup` | `assignments`, scoring |
| Scoring (`service/scoring.go`) | score and share of questions and assignments | `ScoreQuestion`, `maybeSuspend` | `workers` |
| Worker gate (`handler/worker_auth.go`, `store/worker.go`) | table `workers` | registration, suspension check, lifting of expired suspensions | RootNet, scoring, settlement |
| Settlement (`service/settlement.go`, `store/epoch.go`) | `epochs`, `worker_epoch_rewards`, benchmark flags, `qualified_questions` | `Settle`, daily and by hand | RootNet, Merkle tree, chain |
| Merkle tree (`merkle/tree.go`) | none | `NewTree`, `Proof`, `Verify` | settlement, the claims contract |
| Publication (`service/onchain.go`) | `published_at` | `PublishMerkleRoot` | the SubnetManager contract |
| Claims (`handler/claims.go`) | none | two reads: proof, then root | settlement |
| Runtime configuration (`service/config.go`, `store/config.go`) | table `system_config`, cached values under a mutex | `SetConfig`, `Load`, snapshots | everything |
| Process and scheduler (`src/cmd/benchmarkd/main.go`) | the next run | start, recovery, settlement at 01:00 UTC, shutdown | configuration, settlement |
| Read APIs (`handler/worker_scores.go`, `handler/public.go`, `store/public_queries.go`) | none | queries; today's estimate | — |
| Admin UI, frontend, middleware | none | static files, bearer token | — |

What makes it hard:

- *Concurrency.* Every HTTP request, every timer and every scorer is a goroutine;
  they meet in PostgreSQL at READ COMMITTED. Only the poll and the storing of a
  question are transactions; everything else commits statement by statement.
- *Failure.* Timers live in memory and are rebuilt after a crash. A store call
  can fail, or commit without its acknowledgement arriving. Settlement can stop
  after any statement and is then called again, or be called twice at once.
- *Change.* The configuration is replaced while requests, scorers and settlements
  that have read parts of it go on; sets are closed under submissions that have
  read them.
- *Outside systems.* RootNet's answers change between calls; a transaction may be
  mined after the server stopped waiting for it; the contract's root cannot be
  replaced.
- *Arithmetic.* Shares are rounded to four digits, rewards are truncated at three
  places, a suspension doubles in a 64-bit duration.

The correctness properties of each part are in section 3; `PROJECT.json` lists the
hazards with the lines where they arise and the properties that cover them.

## 2. Modules

| Module | Models | State and actions |
|---|---|---|
| `Scoring` | the three cases of `ScoreQuestion` as operators on a function from assignments to replies | shares are ten-thousandths (`NUMERIC(5,4)`), rounded half up as PostgreSQL does |
| `ScoringRound` | all collections of replies a question can get | one action, a reply arrives |
| `AssignmentFlow` | polls, answers, timers, scorers, crash and recovery, changes of `question.required_answers`, and what the API discloses meanwhile | one action per SQL statement or in-memory step; `Session`, `Job` and the main goroutine interleave |
| `QuestionLife` | what the flow promises of questions and assignments | submit, assign, expire, answer, score, award |
| `MCAssignmentFlow` | its symmetry for TLC | |
| `Payout` | the computation of `Settle` (pools, raw rewards, composite, final rewards, benchmarks) and of `GetWorkerTodayStats` | operators on the rows `Settle` lists |
| `PayoutDay` | an epoch as it fills, with `Payout` and `Scoring` on top | questions are submitted, assignments are closed |
| `Settlement` | one epoch's `Settle` and `PublishMerkleRoot`, in both network modes, with retries, overlaps, RootNet, the chain and a reader of claims | one action per statement or outside call |
| `MCSettlement` | a small epoch, its rewards computed by `Payout` | |
| `WorkerGate` | the auth middleware, `maybeSuspend` and the reset of violations on one worker's row | one action per statement, a clock in minutes |
| `QuestionIntake`, `MCQuestionIntake` | benchmark sets and `SubmitQuestion` | one action per INSERT of a batch and per update of a set; one per check of a submission, a transaction at its end |
| `Daemon` | start of the process, the configuration cache, the 01:00 scheduler | one action per statement and per step under the mutex; a clock in ticks of a day |
| `MerkleTree` | `NewTree`, `Proof`, `Verify` | one action per loop iteration, over symbolic hashes |
| `MCComputations` | `ScoringRound` and `MerkleTree` side by side, for TLC | either computation runs while the other stays at its start |
| `Sums` | the sum of a column over a set of rows | an operator |
| `AssignmentFlowProofs`, `SettlementProofs`, `WorkerGateProofs`, `QuestionIntakeProofs`, `DaemonProofs`, `MerkleTreeProofs` | the theorems about the module of that name; the first also about `QuestionLife` | section 4 |
| `RewardProofs` | the theorems about `Scoring`, `ScoringRound`, `Payout` and `PayoutDay` | section 4 |
| `SumProofs` | lemmas about `Sums` | section 4 |

`AssignmentFlow` extends `Scoring`, so that what the scorers write in the flow is
what the scoring rules give, and instantiates `QuestionLife`, which it implements;
`PayoutDay` extends `Payout`, which extends `Scoring` and `Sums`; `MCSettlement` instantiates
`Payout`.

Operators whose comment starts with "Mutant" are plausible mistakes. Each property
of a passing run has one, named in `PROJECT.json`: with the mutant in place of the
definition the property fails, which shows that the property depends on that code.

### How the models correspond to the code

**AssignmentFlow.** The variables are the columns of `questions` (`qstat`,
`qauthor`, `qres`) and `assignments` (`st`, `aq`, `aw`, `reply`, `ares`; ids are
consecutive), `late` for "the clock has passed `reply_ddl`", the timer map
(`mapped`) and the timers that will still fire (`pending`; a repeated poll starts
another timer and overwrites the map's entry, so there may be several), and the
program counters of requests and background goroutines. A poll is a transaction:
its update of the expired claim is kept in the session (`old`) and becomes visible
at commit, the row lock of the picked question is held from `PollLocks` to the
end, and the candidates are those of the snapshot (`PollSnapshot`), which may be
out of date when the lock is granted. `GetAssignmentByWorker` has no ORDER BY, so
any of a worker's rows for the question may be returned. `Crash` drops everything
in memory; uncommitted transactions roll back. `MaxFault` bounds store calls that
fail, or that commit without an acknowledgement. The update of `last_poll_at`
touches a column nothing in the flow reads. `required` is the cached
`question.required_answers`: a poll reads it once, at its start (`need`), a scorer
after it has counted the replies (`JobWeighs`), recovery before it looks for
questions. `Least` and `Most` bound the values an admin gives it, and 0 stands for
every value that is not positive, since all comparisons with it come out alike. A new
process starts with the number its `Load` finds, or with 0 when `Load` fails
(`Restart(n)`, `LoadsNumber`). With 0 nothing is handed out, and recovery and
`TryScore` score every open question that has a reply. `Disclosed` says whose answer a worker can read
from `/my/questions`, `/questions` and `/assignments`. Three history variables serve the
properties: `basis`, the replies a question was scored on, `bar`, the required number
its scorer had read, and `peeked`, the claims that were open when their worker could
read the answer. The candidates of a poll are not limited to 100. `StartReplyTimer`
creates a timer and enters it in the map in one step, and `handleTimeout` drops the
entry and reads the row in one; neither changes what anybody else can observe.

**QuestionLife.** The state is that of the tables and `basis`, by the same names, so
the refinement mapping is the identity on them and hides the process: sessions, jobs,
timers, locks, the clock and the configuration. Every step of the flow must be one of
the six steps of a question's life or change nothing in the tables: an assignment is
made only while there is room, a question is scored once, on replies it has, at least
one and at most the greatest required number, and only replies of that list are scored.

**Scoring and Payout.** The code computes in `float64`. Shares pass through the
`NUMERIC(5,4)` columns, so they are ten-thousandths, and the models compute in
exact integers and fractions. Where the exact product is an integer or a float
lands just below one, `int64(...)` may differ from the model by one unit.
Composite scores are fractions; 0.6 (`BenchmarkMinScore`) is compared exactly.
The estimate divides the day into `DayParts`; `elapsed` is at least one of them, as it
is at least a minute in the code, and at most all, so the code's lower bound on the
extrapolated total never applies. A claim handed out from an old snapshot can still
time out after its question was scored (section 5), and then enters the epoch's
averages; `Closes` allows it. The three workers of `payout_day` do not get that far
(two reply, the third has asked); the theorems of section 4 include it. `PayoutDay`
scores a question at exactly `Required` replies, all rows of it at once; a worker with
two replies to one question, a question that a crash left partly scored, and a
question scored on another number of replies are not in it.

**Settlement.** A reward row keeps the set of questions it was computed from,
which stands for its columns; a root stands for the tree it commits to, which is
what collision-free hashing gives. `Final` and `Benchmark` are what a list of
questions makes; the module assumes of them only that a reward is a natural number,
that benchmarks are of the list, that an empty list has no miners and that a longer
list has all the miners of a shorter one. `AnyListSettles` of `PayoutDay` says that
`Payout` computes such functions. They are functions of the list: `ListScored` is one step for
the list of questions, the list of their assignments and the counts of invalid reports.
In the code these are reads of their own, and a question's rows are scored one by one
after it; rows that are scored, or time out, between the reads or between two attempts
are not modelled here. The rewards are saved as the code saves them, in INSERTs that
commit one by one, in any order of the workers (`SaveRewards`). The code's 100 rows of an
INSERT are `batchSize`, which keeps the value it has at the start: the number of workers
of the model is small, so what counts is whether they are more than a batch. `SaveMerkleProof` and the reward INSERTs fail when a row exists, as the
primary keys make them. `CallFails` may end any call
after any statement: an error, a cancelled request or a crash. `testnet` is
`network.testnet_mode`, fixed for the epoch: with it the recipients are the workers
and nothing is published by `Settle`. A claim (`ReadProof`, `ReadRoot`) is what either
handler of `claims.go` does for one epoch. `overlap` remembers that two calls ran at
once, which nothing in the code prevents. The contract is external: the first `setMerkleRoot` of an epoch wins,
later ones revert (`src/docs/protocol.md`, section on the contract).

**WorkerGate.** Suspension is off by default (`suspension.score_threshold` 0),
which is why `AssignmentFlow` leaves it out; the module describes a server on
which it is on. `Duration` wraps as `int64` nanoseconds do: `Half` and `Wrap` stand
for 2^63 and 2^64 nanoseconds in minutes (153722867 and 307445735). A request whose headers, timestamp or
signature are wrong ends before it reads or writes anything and is not modelled.

**QuestionIntake.** A text is a value and similarity a symmetric, reflexive
relation that need not be transitive. A set has a status, one limit for the two
lengths, and `total_questions`; a batch is inserted set by set, and an error drops the
rest of it only. Batches come one after the other: overlapping ones would differ only in
what an error drops. The limit a submission is measured against is the one it read.
`after` counts what a set got since it was last closed.

**Daemon.** A setting is one of a few values, the fallback of `getInt` and its like,
or Go's zero value, which the cache holds until `Load` has succeeded. `SetConfig`,
`ListConfig` and the replacement under the mutex are separate steps of a request, so
updates overlap. The clock counts `DayLen` ticks a day, 01:00 being the second; a
settlement takes a snapshot of the cache when it begins and may last any number of
ticks, until `MaxClock`. `settled` (with the settings each settlement used, and whether its process had loaded
the table), `missed`, `tables`, `current` and `blind` (no `Load` has succeeded since the
start) are history variables.
`Settlement` says what a call of `Settle` does.

**MerkleTree.** A leaf's hash is the leaf itself, tagged, and a pair's hash the
unordered pair. Sorting the leaves makes the tree a function of their number.

## 3. Runs

"pass" runs must hold; "violation" runs state something the documentation or a
comment says and show a behaviour of the code that contradicts it.

| Run | Bounds | Shows |
|---|---|---|
| `computations` | 5 replies (the default), 3 answers; 9 leaves, every proof with every leaf | a worker that replies with the reference answer never does worse than with another reply; the questioner gets most when exactly one worker solves the question; the answer pool is paid once, to within what rounding costs; a Merkle proof is accepted for its own leaf only |
| `flow_races` | 3 workers, 2 requests and 2 goroutines at once, 2 assignments, 2 timers for a claim, 1 failed or unacknowledged call | no over-assignment (`NoOverAssignment`); every claim on an open question is watched by a timer or a goroutine (`ClaimWatched`); no question with all its replies is without a goroutine about to score it (`ScoringPending`); rows only move forward, whoever races for them; the flow implements `QuestionLife` (`ImplementsLife`) |
| `flow_liveness` | 3 workers, 2 assignments, 1 crash, 1 change of the required number between 0 and 2, by an admin or at a restart | questions with enough replies are scored; claims do not block for ever; recovery watches every claim again; all that was written belongs to one list of replies, no fewer than the number its scorer had read (`ScoreMatchesReplies`); a claim that was open when its answer became public is never scored (`NoPeeking`) |
| `flow_stranded` (violation) | 1 crash | replies of a scored question that are never scored |
| `flow_refused` (violation) | 2 assignments of one worker | an answer to a valid claim refused because of an older row |
| `payout_day` | 2 questions, 3 workers, 2 assignments of each to each, a day in 2 parts | the pool is not overspent, a time-out never pays, the estimate mirrors the settlement, benchmarks come only from workers that also answer; whichever scored questions the settlement has read, its rewards and benchmarks fit what `Settlement` builds on them (`AnyListSettles`) |
| `settle_retry` | 2 calls, one after the other or at once, up to 3 reward rows in batches of 2 or of 3, a failure after any statement, both modes, 1 reader | reward rows that fit in one INSERT are never of two lists, overlaps included (`RewardsOfOneList`); without an overlap rewards, flags, root and proofs of a settled epoch agree, a claim whose reads no settlement interrupts fits its root (`ServedClaimFits`), and a published root is on the chain |
| `settle_recount` (violation) | 2 calls | a retry counts `qualified_questions` twice |
| `gate_races` | 2 requests, 2 scorers, 3 offences, 1 settlement, an `int64` scaled down so that the third term wraps | no request goes on with a nil worker; n offences never suspend longer than n terms of the back-off |
| `intake_races` | 2 requests at once, 3 in all, 2 workers, 2 sets, 2 admin requests, batches of 2, texts that fit a limit or none | what the rate limit, the originality check and the closing of a set guarantee when requests overlap, and that the counter is right |
| `daemon` | 2 admins, 2 keys, 2 updates, 2 days of 3 ticks, 1 stop | the settings of a settlement were in the table together, if its process had loaded it (`SettingsFromOneTable`), an update served alone is in force (`UpdateInForce`), an epoch is settled after its day and once (`OnceAfterItsDay`), and none is skipped while the process is up and not busy (`EpochsSettled`) |
| `daemon_defaults` (violation) | 1 day, no update | a settlement with zeros after a `Load` that failed (`DefaultsOnError`) |

Why the bounds are enough to be interesting: one question is enough for every race
of the flow, because requests for different questions share only a worker's claim.
`flow_races` has one required answer, so that two polls compete for the last place, a
claim can time out and be taken over, and two scorers can meet; `flow_liveness` has two,
one or none, changed while they come in, and all the crash points. Its only questioner is
`w1`, which loses nothing, as workers are alike; it uses no symmetry, which TLC cannot
combine with liveness. Two calls of `Settle` or publish allow a failure and a retry,
a settlement and a publication, or an overlap; the small epoch has a worker without
reward, two that may share a recipient, and two questions so that the list can grow
between attempts. Two admins with one update each are enough for a list that is
installed late; two days let the scheduler fire, be late for the second day, or be
restarted before, at and after 01:00. Nine leaves give trees in which the same node is
promoted on three levels in a row. TLC does not show that larger instances behave
alike; section 4 does, except for liveness.

Several runs say `CHECK_DEADLOCK FALSE`: the bounded environment of `ScoringRound`,
`MerkleTree`, `PayoutDay`, `Settlement`, `WorkerGate`, `QuestionIntake` and `Daemon`
comes to an end. The flow runs keep the deadlock check, since deadlines, polls and requests
always leave a step.

**Fairness** (`FairSpec` of `AssignmentFlow`). A goroutine that can run does run
(weak fairness of sessions, timers and the main goroutine), deadlines pass, a
crashed process is restarted. Background jobs get strong fairness, because a job may
wait for a row lock that polls take and release over and over: PostgreSQL queues
lock waiters. Nothing is assumed of workers: no request need ever arrive. Store
calls that fail are excluded from `flow_liveness` (`MaxFault` 0): a background task
that fails is not repeated, and section 5 says what follows.

In `Daemon` (`FairSpec`) the process is started and comes up, the clock goes on, the
scheduler's goroutine runs, and a call of `Settle` comes to an end, after any number
of ticks. The last is the weakest of the assumptions: `Settle` waits for a receipt
without a deadline. `EpochsSettled` therefore exempts epochs that fall due while the
scheduler is busy, and the process is stopped at most `MaxStops` times. Nothing is
assumed of admins, and their requests need not end.

## 4. Proofs

Every theorem is of the form `Spec => []P` (`RoundSpec` in `ScoringRound`), or states an
action property or a refinement; it holds for every value of the constants that satisfies the named
assumptions of the module: any number of workers, questions, requests, goroutines,
admins, calls, leaves, crashes and faults. Each proof goes through an inductive
invariant, whose parts are defined and explained in the proof module.

**AssignmentFlowProofs.**

- `TypeCorrect`: `TypeOK` is not inductive: that the number of pending timers stays a
  natural number needs `MappedPending` (a timer in the map has not fired, so stopping
  it takes one away from at least one), and that ids and questions in requests and
  jobs refer to existing rows needs `SessionShape`, `JobShape` and `RowShape`. The
  inductive invariant is `Shape`, their conjunction.
- `NeverOverAssigned` (`NoOverAssignment`): the inductive invariant `Room` says that
  the bound holds (`WithinRequired`), that at most one poll holds a question's lock
  (`LockExclusive`), and that a poll which has counted under the lock leaves room for
  the row it is about to insert (`RoomLeft`). The count in the candidates query plays
  no part: it can be stale, and the proof shows that the second count makes up for it.
  The required number may change at any step; each poll works with the one it read,
  and the bound is the greatest of them (`Most`).

The rest of the flow needs `Tables`, what the rows say of each other, and `Process`, what
every request and goroutine knows of the tables between two of its statements: the
claim a poll cleans up is locked and still claimed; the list a scorer has read
consists of replies that nobody changes any more; of the scorers of a question one has
won and only that one still writes; a claim whose answer has become public is not in
the basis. The invariant is `Known == Shape /\ Room /\ Tables /\ Process`. From it:

- `FlowImplementsLife` (`ImplementsLife`): each action is one of the six steps of
  `QuestionLife` or a stutter, the refinement mapping being the identity on the tables;
- `StatusesMoveForward` (`AssignmentsMoveForward`), `ScoresMatchReplies`
  (`ScoreMatchesReplies`) and `PeekingNeverPays` (`NoPeeking`); the second says that the
  list has at least as many replies as its scorer asked for, because replies are never
  taken back between the count and the list, and not that this number was the table's:
  after a failed `Load` it is 0;
- `ClaimsAreWatched` (`ClaimWatched`) and, with the further invariant `Woken` (while
  recovery runs, a ready question is in its list or has its goroutine),
  `ScoringIsPending` (`ScoringPending`).

**SettlementProofs.** `Inv == Always /\ (~overlap => Apart)`. `Always` holds whether
calls overlap or not: types, and that the lists of questions in use, by calls and in
rows, are prefixes of one another (`Nested`), which is why the INSERT of a second
list's rewards meets a row of the first. `RowsOfOneList` needs that each list is saved
by one INSERT (`Fit(batchSize)`, a premise of the property); the other theorems hold for
any size of the batches. `Apart` says what a single call has done at
each of its statements (`Progress`), that a settled epoch is `Complete`, and what a
reader of claims may hold. From it `TypeCorrect`, `RowsOfOneList`, `SettledCompletely`,
`TablesAgree`, `ClaimsFit` and `PublishedIsOnChain`.

**QuestionIntakeProofs.** The bounds are inductive only together with what is still
under way: `BurstAhead` counts the questions in the window and the requests past the
check of the rate limit, `TwinsAhead` a set's similar questions and the requests past
the check of similarity. From `Inv` follow `TypeCorrect`, `TotalsCount`,
`ClosedSettles`, `BurstsAreBounded` and `TwinsAreBounded`.

**DaemonProofs.** What an update is about to install was in the table (`SeenInTable`),
the cache holds the settings of one table (`CacheFromOneTable`), an update that no
other overlapped has seen the table as it is (`AloneSeesTable`), and what is settled was
due before the run the scheduler waits for (`SettledInOrder`). From it `TypeCorrect`,
`SettingsOfOneTable`, `UpdatesInForce` and `SettlesOnceAfterItsDay`; the last includes
the arithmetic of the next 01:00.

**MerkleTreeProofs.** `PositionsInRange` and `ProofsAreExact`. The invariant names the
way up from the target (`PathUp`); what `Verify` has computed is on the way exactly if
it started at the target, because the hash of a pair with one element fixed is
injective. This rests on symbolic hashes, that is on collision-free hashing.

**WorkerGateProofs.** The inductive invariant is `Inv == Shape /\ Counters /\ RowKept /\
Punishments`; the first two are types.

- `TypeCorrect` (`TypeOK`) needs `RowKept`, for a row that a request or a scorer updates
  must be there, and `Punishments`, for the number of violations stays within its bound
  only because it is at most that of low scores.
- `WorkerIsAtHand` (`WorkerAtHand`) needs `RowKept`: the row is never deleted, so a
  request whose INSERT met a conflict finds it when it reads again.
- `NobodyOverPunished` (`NeverOverPunished`) is not inductive: a scorer adds its term to a
  suspension it has read earlier. `Punishments` says that what it has read is covered
  by the low scores without its own (`Covered`), and that it has read fewer violations
  than there are low scores; its term is then at most the last of the back-off
  (`TermIs`, `UntilCovered`), and a duration that wraps around is never longer
  (`DurationIs`). The laws of `2^n` this takes are not among the provers'; they are
  derived from the library's count of the subsets of a finite set (`PowerIs`,
  `PowerGrows`, `PowerDoubles`).

**RewardProofs**, about one question (`ScoringRound`). `TruthIsBest`, `HardQuestionsPay`
and `PoolIsPaidOnce`, from lemmas about the rules: somebody is always paid
(`WinnersExist`, `PaidExist`), a correct reply excludes the other cases
(`CorrectCase`), and equal shares miss the whole by at most half a unit each
(`ShareBounds`).

**RewardProofs**, about an epoch (`PayoutDay`). The invariant says that finitely many
assignments have been closed and, for the last theorem, that workers ask and answer
(`Roles`); the work is in the arithmetic of `Settle`, proved for any rows that satisfy
`Listed` (scores and shares in range, nothing for a time-out), which those of an epoch
do (`RowsListed`), and those of any part of its questions too (`ListRows`).

- `PoolIsNotOverspent` (`PoolNotOverspent`): the rewards of the miners, regrouped by
  question, are at most the question's pool for each, if the shares of each question
  add up to at most one (`Fitting`). That is a theorem for up to five required answers,
  the default; `Required <= 5` is its hypothesis, and section 5 says why it is needed.
- `TimeoutsNeverPay` (`TimeoutNeverPays`): without the row the numbers of scored tasks,
  the raw reward and the sum of scores are the same, and the denominator of the composite
  score is not larger (`LessTimeout`, `TimeoutCosts`).
- `EstimatesMirror` (`EstimateMirrorsSettlement`): one division of a sum exceeds the sum
  of the divisions by at most one for each summand (`PartOfSum`), and an estimated total
  that is at least the present one makes the share of a question no larger (`DivAnti`).
- `BenchmarksNeedBoth` (`BenchmarkNeedsBothRoles`): good questions alone make a composite
  score of at most one half. The hypothesis is `BenchmarkMinScore > 5`, in tenths; the
  default is 6, and with 5 or less the property does not hold.
- `PayoutFitsSettlement` (`AnyListSettles`): this discharges what `Settlement` assumes of
  `Final` and `Benchmark`. The rows of other questions play no part in what a list pays
  (`OnlyTheList`), so the bound on the pool carries over to every list, here for the
  final rewards that go into the tree.

**SumProofs.** The sums of `Sums` are defined by recursion over sets.
`FiniteInduction` and `AddInduction` state induction over the subsets of a finite set
for a set of subsets instead of an operator, which the provers can instantiate; from
them follow that a sum can be taken apart at any element (`SumTake`), depends on the
values only (`SumSame`), of equal amounts is a product (`SumEqual`), is monotone up to
factors and a slack for each summand (`SumBound`), and can be summed up key by key
(`SumByKey`).

The assumptions are those of the modules, which TLC evaluates on every run: bounds are
natural numbers, `Most`, `MaxTimers` and the sizes of a batch are positive, `Least` is at most `Most`,
questioners are workers, `None` is none of the other values (in `WorkerGate` neither a
time nor a row), the sets of requests, workers and questions that are counted are
finite, similarity is symmetric and reflexive, and what section 2 says of `Final`, which
`PayoutFitsSettlement` shows of `Payout`. Two theorems have a hypothesis about a
setting, as said above, and a conjunct of `AnyListSettles` has the same as the first.

Only model-checked: liveness under fairness (`EnoughRepliesScored`, `ClaimsResolved`,
`EpochsSettled`), which the prover does not support. Every other property of a passing
run is stated by a theorem.

## 5. What the code does not guarantee

The four violation runs each contradict a sentence of the documentation or a
comment; the findings in `PROJECT.json` quote it. The other limits below are part
of the models too, and the passing properties are stated so as to respect them:

- The candidates of a poll are evaluated before its lock is granted. A question
  scored in between is still assigned, and a worker that polls twice at once can hold
  two live assignments of one question. Neither changes a score (`ImplementsLife`,
  `ScoreMatchesReplies`), and a worker that answers with what has become public
  meanwhile gets nothing for it (`NoPeeking`).
- A required number that is lowered below the replies a question already has does not
  wake a scorer: the question waits for its next answer or time-out, or a restart.
  `ScoringPending` and `EnoughRepliesScored` are about the greatest number.
- After one time-out a worker may get the same question again
  (`store/question.go:139`); `src/docs/protocol.md:84` says it has "not already been
  assigned to" it.
- A reply that is committed but not acknowledged starts no scorer. `ScoringPending`
  and the liveness run therefore speak of behaviours without failed calls.
- With six required answers or more, equal shares rounded to four digits can add up
  to more than the pool (1.0002 for six winners). `PoolPaidOnce` says that n of them
  miss the pool by less than n units, and that up to five never exceed it.
- Two calls of `Settle` that overlap can leave a settled epoch whose flags, root and
  proofs are of different lists, and a publication that overlaps a settlement can mark
  the wrong root as published. Only the reward rows stay of one list
  (`RewardsOfOneList`), because their INSERT fails on a row that exists, and they only
  in an epoch of up to 100 workers: beyond, each INSERT of 100 rows commits by itself,
  and two overlapping calls can leave rows of two lists, which together may exceed the
  pool. The properties of `settle_retry` exempt overlaps. Without one, too, a claim read while a
  settlement is under way can pair an old proof with a new root; the reader of a single
  claim can also be served an empty root, where the list leaves the epoch out.
- With more than 100 workers a call that fails between two INSERTs leaves a part of the
  rewards, although the comment at `store/epoch.go:172` speaks of "a single multi-row
  INSERT". The next attempt deletes them; until then the epoch is not marked as settled
  (`SettledOnOneList`).
- A settlement repeated after its root reached the chain stores a root the contract
  will not take, if a recipient or the list of questions has changed; `published_at`
  is then NULL, which is what `PublishedRootOnChain` asks for.
- A settlement repeated with other recipients takes unclaimed proofs away, although
  "Unclaimed rewards never expire" (`src/docs/protocol.md:216`).
- An epoch without scored questions does not reset the violation counts;
  `src/docs/protocol.md:164` says "Violation count resets at new epoch".
- When `Load` fails at the start, `src/docs/deployment.md:142` says that the server "falls
  back to defaults on error" and the warning "(using defaults)"
  (`src/cmd/benchmarkd/main.go:62`), but the cache holds zeros until an admin's next
  update: a settlement has no pool (`daemon_defaults`), no question is handed out, and
  every open question with at least one reply is scored on what it has, by recovery and
  by the next answer or time-out, although `src/docs/protocol.md:115` says "When 5 replies
  are collected". `ScoreMatchesReplies` therefore only asks for the number the scorer had
  read, and for at least one reply. The value 0 from
  `PUT /admin/v1/config`, which is accepted, does the same.
- Of two overlapping updates of the configuration the older list can be installed
  last; both are answered with 200, and one of them is not in force until the next,
  although "Changes take effect immediately" (`src/docs/api.md:525`). `UpdateInForce`
  is about updates that do not overlap.
- The scheduler never makes up for an epoch: when the process is down at 01:00, or
  still waits for the receipt of the day before, the epoch is left to the admin.
- A batch of benchmark sets that fails in the middle leaves its first sets, and the
  same batch sent again is refused with 409. A set that is closed can still get one
  question from each submission that had read it (`ClosedSetSettles`).
- The estimate of today's reward can exceed the settlement by less than a unit per
  task, because it truncates once where the settlement truncates each share.
- Suspensions can come out shorter than the back-off says: when two scorers overwrite
  each other, when a request lifts an expired suspension that has been renewed since,
  and from the 25th violation of an epoch on, where 10 * 2^24 minutes exceed an
  `int64` of nanoseconds. `NeverOverPunished` bounds them from above.
- The rate limit and the originality check are read before the transaction that
  stores the question; n overlapping requests get n questions past them
  (`BurstBounded`, `TwinsBounded`). The comparison is with all questions of the set;
  `src/docs/protocol.md:72` says those "with score >= 2".

### Not modelled

- Signature recovery and the encoding of leaves and transactions (cryptography and
  formatting), MinHash itself (a statistical estimate), HTTP and JSON.
- The lists of the read APIs and the admin queries beyond what they disclose, the
  admin pages, the frontend and the middleware: they change no state, and repeat
  columns the models have.
- `network.testnet_mode` changing in the middle of a settlement, which reads it twice:
  the recipients would be those of one mode and the publication that of the other.
- `float64`: see section 2.

## 6. Plan

Done, in this order: scoring, the assignment flow and its first two theorems, the
payout computation, settlement and publication, worker gate, intake, Merkle tree; then
the changing number of required answers, the disclosure of answers, `QuestionLife` and
the refinement, overlapping settlements, testnet mode and claims, benchmark sets, the
estimate, the configuration and the scheduler; then the proofs of section 4.

Every safety property of a passing run is proved; liveness stays with TLC. What is left
is modelling: a list whose rows change between two attempts of `Settle`, and
`network.testnet_mode` changing during one.
