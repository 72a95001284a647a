----------------------------- MODULE Settlement -----------------------------
(***************************************************************************)
(* The settlement of one epoch and the publication of its Merkle root      *)
(* (service/settlement.go, service/onchain.go, store/epoch.go,             *)
(* store/merkle.go), and the claims served from it (handler/claims.go).    *)
(*                                                                         *)
(* Settle is a sequence of statements that commit one by one, without a    *)
(* transaction or a lock around them.  It is called by the daily scheduler *)
(* and by POST /admin/v1/settle; POST /admin/v1/publish calls              *)
(* PublishMerkleRoot alone.  A Settler is a goroutine that runs one such   *)
(* call; one action is one statement or one call of RootNet or the chain.  *)
(* A recipient asks for its claim at some moment, in two reads.            *)
(*                                                                         *)
(* What Settle computes from the questions it lists is Payout's subject:   *)
(* here Final and Benchmark give it for every set of questions.  A reward  *)
(* row keeps the set it was computed from, which stands for its columns.   *)
(* A Merkle root stands for the tree it is the root of: the amount of each *)
(* address, 0 for none.  A proof row keeps the tree it is a proof of.      *)
(***************************************************************************)
EXTENDS Integers, FiniteSets, Sums

CONSTANTS Question, Worker, Recipient, Settler,
          Final,      \* questions |-> worker with a task in them |-> reward
          Benchmark,  \* questions |-> those of them that qualify
          BatchSizes, \* the values of batchSize
          MaxCalls,   \* bound: calls of Settle and PublishMerkleRoot
          None        \* no value (SQL NULL, no row)

\* stats has an entry for every worker with a task in the questions: none for
\* no question, and never fewer for more questions.
ASSUME SettlementAssumption ==
  /\ BatchSizes \subseteq Nat \ {0}
  /\ MaxCalls \in Nat /\ IsFiniteSet(Question) /\ IsFiniteSet(Worker)
  /\ DOMAIN Final[{}] = {}
  /\ \A S \in SUBSET Question :
       /\ Benchmark[S] \subseteq S
       /\ DOMAIN Final[S] \subseteq Worker
       /\ \A w \in DOMAIN Final[S] : Final[S][w] \in Nat
       /\ \A T \in SUBSET S : DOMAIN Final[T] \subseteq DOMAIN Final[S]

\* Whom a worker's reward can be paid to: in testnet mode, to the worker.
Address == Recipient \cup Worker

TreeType == [Address -> Nat]

RewardType == [of : SUBSET Question, recipient : Address \cup {None}]

\* NULL is none of the values a column can hold.
ASSUME NoneAssumption ==
  None \notin Address /\ None \notin TreeType /\ None \notin RewardType

VARIABLES
  scored,      \* the questions with scored_at in the epoch
  flags,       \* those with benchmark = true
  qualified,   \* qualified_questions of their benchmark set
  epoch,       \* the row of table epochs
  rewards,     \* [Worker -> row of worker_epoch_rewards]
  proofs,      \* [Address -> row of merkle_proofs]
  rootNet,     \* [Worker -> Recipient]: the recipients RootNet knows
  testnet,     \* network.testnet_mode
  batchSize,   \* rows of one INSERT of rewards: 100 in the code, here fewer or
               \* no fewer than an epoch has workers
  chainRoot,   \* the root the SubnetManager contract holds for the epoch
  mempool,     \* transactions sent and not yet mined
  proc,        \* [Settler -> the call it runs]
  claim,       \* the request for a claim
  calls,
  overlap      \* two calls were under way at once

tables   == <<flags, qualified, epoch, rewards, proofs>>
outside  == <<scored, rootNet, testnet, batchSize, claim>>
chain    == <<chainRoot, mempool>>
called   == <<calls, overlap>>
vars == <<tables, outside, chain, proc, called>>

NoEpoch == [settled |-> FALSE, total |-> 0, root |-> None, published |-> FALSE]

Idle == [pc |-> "idle", of |-> {}, todo |-> {}, to |-> [w \in {} |-> None],
         tx |-> None]

NoClaim == [pc |-> "idle", proof |-> None, at |-> 0, calm |-> FALSE]

\* The workers whose reward is positive.
Eligible(S) == {w \in DOMAIN Final[S] : Final[S][w] > 0}

\* Mutant: recipientRewards[e.recipient] = e.reward, the workers of one
\* recipient not added up.
TreeNotSummed(S, to) ==
  [r \in Address |->
     LET ws == {w \in DOMAIN to : to[w] = r} IN
     IF ws = {} THEN 0 ELSE Final[S][CHOOSE w \in ws : TRUE]]

\* recipientRewards: the leaves, when the workers in DOMAIN to are paid to
\* the recipients to names.
Tree(S, to) ==
  [r \in Address |-> SumOver(Final[S], {w \in DOMAIN to : to[w] = r})]

Leaves(tree) == {r \in Address : tree[r] > 0}
----------------------------------------------------------------------------
Init ==
  /\ scored = {} /\ flags = {} /\ qualified = 0
  /\ epoch = NoEpoch
  /\ rewards = [w \in Worker |-> None]
  /\ proofs = [r \in Address |-> None]
  /\ rootNet \in [Worker -> Recipient] /\ testnet \in BOOLEAN
  /\ batchSize \in BatchSizes
  /\ chainRoot = None /\ mempool = {}
  /\ proc = [s \in Settler |-> Idle]
  /\ claim = NoClaim
  /\ calls = 0 /\ overlap = FALSE

Go(s, fields) == proc' = [proc EXCEPT ![s] = fields]
At(s, pc) == proc[s].pc = pc
To(s, pc) == Go(s, [proc[s] EXCEPT !.pc = pc])
----------------------------------------------------------------------------
(* The rest of the system. *)

\* A question is scored while the epoch's day lasts: the admin may settle
\* that day too.
QuestionScored(q) ==
  /\ q \notin scored
  /\ scored' = scored \cup {q}
  /\ UNCHANGED <<tables, rootNet, testnet, batchSize, claim, chain, proc, called>>

\* A worker names another recipient on RootNet, which testnet mode ignores.
RecipientChanges(w, r) ==
  /\ ~testnet /\ rootNet[w] # r
  /\ rootNet' = [rootNet EXCEPT ![w] = r]
  /\ UNCHANGED <<tables, scored, testnet, batchSize, claim, chain, proc, called>>

\* A transaction is mined.  The contract's root is immutable once set: the
\* first setMerkleRoot succeeds, a later one reverts.
TxMined(tx) ==
  /\ mempool' = mempool \ {tx}
  /\ chainRoot' = IF chainRoot = None THEN tx.root ELSE chainRoot
  /\ proc' = [s \in Settler |->
       IF proc[s].pc = "wait" /\ proc[s].tx = tx
         THEN [proc[s] EXCEPT !.pc = IF chainRoot = None THEN "mined" ELSE "reverted"]
         ELSE proc[s]]
  /\ UNCHANGED <<tables, outside, called>>
----------------------------------------------------------------------------
(* Settle: clean-up. *)

\* The daily scheduler or an admin calls Settle or PublishMerkleRoot.
CallArrives(s) ==
  /\ At(s, "idle") /\ calls < MaxCalls
  /\ calls' = calls + 1
  /\ overlap' = (overlap \/ \E t \in Settler : ~At(t, "idle"))

\* Mutant: published_at, merkle_root and settled_at are left as they were.
EpochKept(s) ==
  /\ CallArrives(s)
  /\ To(s, "dropProofs")
  /\ UNCHANGED <<tables, outside, chain>>

CreateOrResetEpoch(s) ==
  /\ CallArrives(s)
  /\ epoch' = NoEpoch
  /\ To(s, "dropProofs")
  /\ UNCHANGED <<flags, qualified, rewards, proofs, outside, chain>>

\* Mutant: the proofs of the previous settlement stay.
ProofsKept(s) ==
  /\ At(s, "dropProofs")
  /\ To(s, "dropRewards")
  /\ UNCHANGED <<tables, outside, chain, called>>

DeleteEpochMerkleProofs(s) ==
  /\ At(s, "dropProofs")
  /\ proofs' = [r \in Address |-> None]
  /\ To(s, "dropRewards")
  /\ UNCHANGED <<flags, qualified, epoch, rewards, outside, chain, called>>

DeleteEpochRewards(s) ==
  /\ At(s, "dropRewards")
  /\ rewards' = [w \in Worker |-> None]
  /\ To(s, "dropFlags")
  /\ UNCHANGED <<flags, qualified, epoch, proofs, outside, chain, called>>

\* The flags are cleared; qualified_questions is not counted down.
ResetBenchmarkFlags(s) ==
  /\ At(s, "dropFlags")
  /\ flags' = flags \ scored
  /\ To(s, "list")
  /\ UNCHANGED <<qualified, epoch, rewards, proofs, outside, chain, called>>
----------------------------------------------------------------------------
(* Settle: rewards, benchmarks, Merkle tree. *)

\* ListScoredQuestionsInRange, and the assignments of those questions: the
\* rewards to save are those of the workers in stats.  The two reads, and those
\* of CountInvalidReports further on, are one here: a list of questions has one
\* outcome, whatever is still written to the rows of its questions.
ListScored(s) ==
  /\ At(s, "list")
  /\ Go(s, [proc[s] EXCEPT !.pc = IF scored = {} THEN "finishEmpty" ELSE "save",
                           !.of = scored, !.todo = DOMAIN Final[scored]])
  /\ UNCHANGED <<tables, outside, chain, called>>

\* The rows of one INSERT: batchSize of those that are left, or all of them;
\* stats is a map, so any of them may come first.
Batches(todo) ==
  {B \in SUBSET todo :
     \/ Cardinality(B) = batchSize
     \/ B = todo /\ Cardinality(todo) <= batchSize}

\* After the INSERT of B: the next batch, or on to the benchmarks.
Inserted(s, B) ==
  /\ rewards' = [w \in Worker |->
       IF w \in B THEN [of |-> proc[s].of, recipient |-> None] ELSE rewards[w]]
  /\ Go(s, IF B = proc[s].todo
             THEN [proc[s] EXCEPT !.pc = "mark", !.todo = Benchmark[proc[s].of]]
             ELSE [proc[s] EXCEPT !.todo = @ \ B])

\* Mutant: INSERT ... ON CONFLICT DO UPDATE.
SaveRewardsOver(s) ==
  /\ At(s, "save")
  /\ \E B \in Batches(proc[s].todo) : Inserted(s, B)
  /\ UNCHANGED <<flags, qualified, epoch, proofs, outside, chain, called>>

\* BatchSaveWorkerEpochRewards: one INSERT for each batch, committed by itself,
\* which fails on a row that is there already.
SaveRewards(s) ==
  /\ At(s, "save")
  /\ \E B \in Batches(proc[s].todo) :
       IF \E w \in B : rewards[w] # None
         THEN Go(s, Idle) /\ UNCHANGED rewards
         ELSE Inserted(s, B)
  /\ UNCHANGED <<flags, qualified, epoch, proofs, outside, chain, called>>

\* MarkBenchmark is two statements: the flag ...
MarkFlag(s) ==
  /\ At(s, "mark")
  /\ \E q \in proc[s].todo :
       /\ flags' = flags \cup {q}
       /\ Go(s, [proc[s] EXCEPT !.pc = "count", !.todo = @ \ {q}])
  /\ UNCHANGED <<qualified, epoch, rewards, proofs, outside, chain, called>>

\* ... and the counter of the benchmark set.
MarkCount(s) ==
  /\ At(s, "count")
  /\ qualified' = qualified + 1
  /\ To(s, "mark")
  /\ UNCHANGED <<flags, epoch, rewards, proofs, outside, chain, called>>

\* No question left: on to buildMerkleTree.
MarksDone(s) ==
  /\ At(s, "mark") /\ proc[s].todo = {}
  /\ Go(s, [proc[s] EXCEPT !.pc = "lookup", !.todo = Eligible(proc[s].of)])
  /\ UNCHANGED <<tables, outside, chain, called>>

\* In testnet mode the recipients are the workers themselves.
PayWorkers(s) ==
  /\ At(s, "lookup") /\ testnet
  /\ Go(s, [proc[s] EXCEPT !.pc = "recipient", !.to = [w \in proc[s].todo |-> w]])
  /\ UNCHANGED <<tables, outside, chain, called>>

\* The parallel RootNet lookups, each at its own time.
LookupRecipient(s) ==
  /\ At(s, "lookup") /\ ~testnet
  /\ \E w \in proc[s].todo :
       Go(s, [proc[s] EXCEPT
                !.todo = @ \ {w},
                !.to = [v \in DOMAIN @ \cup {w} |->
                          IF v = w THEN rootNet[w] ELSE @[v]]])
  /\ UNCHANGED <<tables, outside, chain, called>>

LookupsDone(s) ==
  /\ At(s, "lookup") /\ ~testnet /\ proc[s].todo = {}
  /\ Go(s, [proc[s] EXCEPT !.pc = "recipient", !.todo = DOMAIN proc[s].to])
  /\ UNCHANGED <<tables, outside, chain, called>>

\* UPDATE worker_epoch_rewards: no row, no error.
SetWorkerEpochRecipient(s) ==
  /\ At(s, "recipient")
  /\ \E w \in proc[s].todo :
       /\ rewards' = IF rewards[w] = None THEN rewards
                     ELSE [rewards EXCEPT ![w].recipient = proc[s].to[w]]
       /\ Go(s, [proc[s] EXCEPT !.todo = @ \ {w}])
  /\ UNCHANGED <<flags, qualified, epoch, proofs, outside, chain, called>>

OwnTree(s) == Tree(proc[s].of, proc[s].to)

\* SetEpochMerkleRoot, unless there is nothing to distribute.
SetEpochMerkleRoot(s) ==
  /\ At(s, "recipient") /\ proc[s].todo = {}
  /\ IF Leaves(OwnTree(s)) = {}
       THEN UNCHANGED epoch
       ELSE epoch' = [epoch EXCEPT !.root = OwnTree(s)]
  /\ Go(s, [proc[s] EXCEPT !.pc = "prove", !.todo = Leaves(OwnTree(s))])
  /\ UNCHANGED <<flags, qualified, rewards, proofs, outside, chain, called>>

\* SaveMerkleProof: an INSERT, which fails on a row that is there already.
SaveMerkleProof(s) ==
  /\ At(s, "prove")
  /\ \E r \in proc[s].todo :
       IF proofs[r] # None
         THEN Go(s, Idle) /\ UNCHANGED proofs
         ELSE /\ proofs' = [proofs EXCEPT ![r] = OwnTree(s)]
              /\ Go(s, [proc[s] EXCEPT !.todo = @ \ {r}])
  /\ UNCHANGED <<flags, qualified, epoch, rewards, outside, chain, called>>

FinishEpoch(s) ==
  /\ At(s, "prove") /\ proc[s].todo = {}
  /\ epoch' = [epoch EXCEPT !.settled = TRUE, !.total = Cardinality(proc[s].of)]
  /\ To(s, "forgive")
  /\ UNCHANGED <<flags, qualified, rewards, proofs, outside, chain, called>>

\* FinishEpoch of an epoch without questions: Settle returns.
FinishEmpty(s) ==
  /\ At(s, "finishEmpty")
  /\ epoch' = [epoch EXCEPT !.settled = TRUE, !.total = 0]
  /\ Go(s, Idle)
  /\ UNCHANGED <<flags, qualified, rewards, proofs, outside, chain, called>>

\* The column epoch_violations is a subject of WorkerGate.  In testnet mode
\* Settle returns, otherwise it goes on to publish the root.
ResetAllEpochViolations(s) ==
  /\ At(s, "forgive")
  /\ Go(s, IF testnet THEN Idle ELSE [Idle EXCEPT !.pc = "getRoot"])
  /\ UNCHANGED <<tables, outside, chain, called>>
----------------------------------------------------------------------------
(* PublishMerkleRoot. *)

\* POST /admin/v1/publish
AdminPublishes(s) ==
  /\ CallArrives(s)
  /\ To(s, "getRoot")
  /\ UNCHANGED <<tables, outside, chain>>

\* Mutant: an empty root is sent too.
GetAnyRoot(s) ==
  /\ At(s, "getRoot")
  /\ Go(s, [Idle EXCEPT !.pc = "send",
                        !.tx = [root |-> epoch.root, by |-> s, call |-> calls]])
  /\ UNCHANGED <<tables, outside, chain, called>>

\* GetEpochMerkleRoot: without a root there is nothing to publish.
GetEpochMerkleRoot(s) ==
  /\ At(s, "getRoot")
  /\ IF epoch.root = None
       THEN Go(s, Idle)
       ELSE Go(s, [Idle EXCEPT !.pc = "send",
                               !.tx = [root |-> epoch.root, by |-> s, call |-> calls]])
  /\ UNCHANGED <<tables, outside, chain, called>>

\* SendTransaction.
SendTransaction(s) ==
  /\ At(s, "send")
  /\ mempool' = mempool \cup {proc[s].tx}
  /\ To(s, "wait")
  /\ UNCHANGED <<tables, outside, chainRoot, called>>

\* Mutant: the status of the receipt is not looked at.
ReceiptTaken(s) ==
  /\ proc[s].pc \in {"mined", "reverted"}
  /\ To(s, "publish")
  /\ UNCHANGED <<tables, outside, chain, called>>

\* waitForReceipt has the receipt: of a reverted transaction it is an error.
CheckReceipt(s) ==
  /\ proc[s].pc \in {"mined", "reverted"}
  /\ IF At(s, "mined") THEN To(s, "publish") ELSE Go(s, Idle)
  /\ UNCHANGED <<tables, outside, chain, called>>

SetEpochPublished(s) ==
  /\ At(s, "publish")
  /\ epoch' = [epoch EXCEPT !.published = TRUE]
  /\ Go(s, Idle)
  /\ UNCHANGED <<flags, qualified, rewards, proofs, outside, chain, called>>

----------------------------------------------------------------------------
(* GET /api/v1/claims/{address} and /claims/{address}/{epoch_date}. *)

\* No call of Settle is under way; PublishMerkleRoot changes neither the root
\* nor the proofs.
NoSettle ==
  \A s \in Settler :
    proc[s].pc \in {"idle", "getRoot", "send", "wait", "mined", "reverted", "publish"}

\* ListMerkleProofsByRecipient or GetMerkleProof: without a row, 404.
ReadProof(r) ==
  /\ claim.pc = "idle" /\ proofs[r] # None
  /\ claim' = [pc |-> "read", proof |-> proofs[r], at |-> calls, calm |-> NoSettle]
  /\ UNCHANGED <<tables, scored, rootNet, testnet, batchSize, chain, proc, called>>

\* GetEpochMerkleRoot.  The list of claims leaves out an epoch without root, a
\* single claim is served with an empty one; else the proof and the root of
\* the claim fit or they do not.
ReadRoot ==
  /\ claim.pc = "read"
  /\ claim' = [NoClaim EXCEPT
       !.pc = CASE epoch.root = None -> "empty"
                [] epoch.root = claim.proof -> "fits"
                [] OTHER -> "mixed",
       !.calm = claim.calm /\ calls = claim.at]
  /\ UNCHANGED <<tables, scored, rootNet, testnet, batchSize, chain, proc, called>>
----------------------------------------------------------------------------
\* A store, RootNet or chain call fails, the admin's request is cancelled or
\* the process crashes: what is committed stays, what was sent is still sent.
CallFails(s) ==
  /\ ~At(s, "idle")
  /\ Go(s, Idle)
  /\ UNCHANGED <<tables, outside, chain, called>>
----------------------------------------------------------------------------
SettleStep(s) ==
  \/ CreateOrResetEpoch(s) \/ DeleteEpochMerkleProofs(s) \/ DeleteEpochRewards(s)
  \/ ResetBenchmarkFlags(s) \/ ListScored(s) \/ SaveRewards(s) \/ MarkFlag(s)
  \/ MarkCount(s) \/ MarksDone(s) \/ PayWorkers(s) \/ LookupRecipient(s)
  \/ LookupsDone(s)
  \/ SetWorkerEpochRecipient(s) \/ SetEpochMerkleRoot(s) \/ SaveMerkleProof(s)
  \/ FinishEpoch(s) \/ FinishEmpty(s) \/ ResetAllEpochViolations(s)

PublishStep(s) ==
  \/ AdminPublishes(s) \/ GetEpochMerkleRoot(s) \/ SendTransaction(s)
  \/ CheckReceipt(s) \/ SetEpochPublished(s)

Environment ==
  \/ \E q \in Question : QuestionScored(q)
  \/ \E w \in Worker, r \in Recipient : RecipientChanges(w, r)
  \/ \E tx \in mempool : TxMined(tx)

Claim == (\E r \in Address : ReadProof(r)) \/ ReadRoot

Next ==
  \/ Claim
  \/ \E s \in Settler : SettleStep(s) \/ PublishStep(s) \/ CallFails(s)
  \/ Environment

Spec == Init /\ [][Next]_vars
----------------------------------------------------------------------------
(* Properties. *)

\* The type invariant.
TypeOK ==
  /\ scored \subseteq Question /\ flags \subseteq scored
  /\ qualified \in Nat
  /\ epoch \in [settled : BOOLEAN, total : Nat, root : TreeType \cup {None},
                published : BOOLEAN]
  /\ rewards \in [Worker -> RewardType \cup {None}]
  /\ proofs \in [Address -> TreeType \cup {None}]
  /\ rootNet \in [Worker -> Recipient] /\ testnet \in BOOLEAN
  /\ batchSize \in BatchSizes
  /\ chainRoot \in TreeType \cup {None}
  /\ mempool \subseteq [root : TreeType, by : Settler, call : 0 .. MaxCalls]
  /\ claim \in [pc : {"idle", "read", "empty", "fits", "mixed"},
                proof : TreeType \cup {None}, at : 0 .. MaxCalls, calm : BOOLEAN]
  /\ calls \in 0 .. MaxCalls /\ overlap \in BOOLEAN

\* The reward rows are those of the questions S.
RewardRows(S) ==
  \A w \in Worker :
    IF w \in DOMAIN Final[S] THEN rewards[w] # None /\ rewards[w].of = S
    ELSE rewards[w] = None

\* No reward row, or all those of one list of questions.
WholeLists ==
  \/ \A w \in Worker : rewards[w] = None
  \/ \E S \in SUBSET Question : RewardRows(S)

\* The rewards of every list fit in one INSERT of n rows.
Fit(n) == \A S \in SUBSET Question : Cardinality(DOMAIN Final[S]) <= n

\* In an epoch of no more workers than an INSERT has rows (100), also when calls
\* of Settle overlap, which nothing prevents: the reward rows are always those
\* of every worker of one list of questions, or none; never rows of two lists,
\* which together could exceed the pool.  (With more workers they can be, when
\* calls overlap, and a call that fails can leave a part of a list.)
RewardsOfOneList == Fit(batchSize) => WholeLists

\* An epoch that is marked settled is settled completely, on one list of
\* questions: as many as total_scored says, with the reward row of every
\* worker that has a task in them and the flags of those that qualify, and
\* nothing left of an attempt that failed half-way (calls that do not overlap).
SettledOnOneList ==
  (epoch.settled /\ ~overlap) =>
    \E S \in SUBSET Question :
      Cardinality(S) = epoch.total /\ RewardRows(S) /\ flags = Benchmark[S]

Rewarded == {w \in Worker : rewards[w] # None}

\* The tree that the reward rows and their recipients make up.
RewardTree ==
  [r \in Address |-> SumOver([w \in Rewarded |-> Final[rewards[w].of][w]],
                            {w \in Rewarded : rewards[w].recipient = r})]

\* In a settled epoch the three tables agree: the root is that of the reward
\* rows' tree, every recipient in it has the proof for its total, and nobody
\* else has one (calls that do not overlap).
ClaimsMatchRewards ==
  (epoch.settled /\ ~overlap) =>
    /\ epoch.root = IF Leaves(RewardTree) = {} THEN None ELSE RewardTree
    /\ \A r \in Address :
         proofs[r] = IF r \in Leaves(RewardTree) THEN RewardTree ELSE None
    /\ \A w \in Worker : rewards[w] # None =>
         (rewards[w].recipient # None <=> w \in Eligible(rewards[w].of))

\* A claim is put together from two reads.  Its proof verifies against its
\* root, after any number of settlements that failed half-way, unless a call
\* of Settle was under way between the two reads.
ServedClaimFits == (claim.pc = "mixed" /\ ~overlap) => ~claim.calm

\* An epoch marked published is: the root the contract holds is the one the
\* database holds (calls that do not overlap).
PublishedRootOnChain ==
  (epoch.published /\ ~overlap) => chainRoot = epoch.root
----------------------------------------------------------------------------
(* What the documentation and the comments say, and the code does not keep. *)

\* settlement.go, Settle: idempotent, safe to retry.  The counter of a settled
\* epoch's benchmark set would be the number of its benchmark questions.
QualifiedCounted == epoch.settled => qualified = Cardinality(flags)
=============================================================================
