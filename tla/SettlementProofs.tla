-------------------------- MODULE SettlementProofs --------------------------
(***************************************************************************)
(* Proofs about Settlement: for every number of concurrent calls of Settle *)
(* and PublishMerkleRoot, of questions, workers and recipients, and for    *)
(* whatever rewards and benchmarks the questions of the epoch make.        *)
(***************************************************************************)
EXTENDS Settlement, SumProofs

Early == {"dropProofs", "dropRewards", "dropFlags", "list"}

Settling == Early \cup {"save", "mark", "count", "lookup", "recipient", "prove",
                        "finishEmpty", "forgive"}

Publishing == {"getRoot", "send", "wait", "mined", "reverted", "publish"}

EpochType == [settled : BOOLEAN, total : Nat, root : TreeType \cup {None},
              published : BOOLEAN]

TxType == [root : TreeType, by : Settler, call : 0 .. MaxCalls]

\* The recipients of some workers.
Payees == UNION {[W -> Address] : W \in SUBSET Worker}

CallRec == [pc : {"idle"} \cup Settling \cup Publishing, of : SUBSET Question,
            todo : SUBSET (Question \cup Address), to : Payees,
            tx : TxType \cup {None}]

\* What a call holds, given how far it has come, the questions sc scored and the
\* n rows of an INSERT.
CallType(p, sc, n) ==
  /\ p \in CallRec /\ p.of \subseteq sc
  /\ p.pc = "idle" => p = Idle
  /\ p.pc \in Early \cup {"save", "mark", "count", "finishEmpty"} => DOMAIN p.to = {}
  /\ p.pc = "save" => /\ p.todo \subseteq DOMAIN Final[p.of]
                      /\ Fit(n) => p.todo = DOMAIN Final[p.of]
  /\ p.pc \in {"mark", "count"} => p.todo \subseteq Benchmark[p.of]
  /\ p.pc = "lookup" => p.todo \subseteq Eligible(p.of)
  /\ p.pc = "recipient" => p.todo \subseteq DOMAIN p.to
  /\ p.pc \in Settling => DOMAIN p.to \subseteq Eligible(p.of)
  /\ p.pc = "prove" => p.todo \subseteq Leaves(Tree(p.of, p.to))
  /\ p.pc \in Publishing \ {"getRoot"} => p.tx \in TxType

Calls ==
  /\ proc = [s \in Settler |-> proc[s]]
  /\ \A s \in Settler : CallType(proc[s], scored, batchSize)

\* The lists in use, by a call or in a row, are prefixes of one another.
Comparable(S, T) == S \subseteq T \/ T \subseteq S

Nested ==
  /\ \A s, t \in Settler : Comparable(proc[s].of, proc[t].of)
  /\ \A w \in Worker : rewards[w] # None =>
       /\ rewards[w].of \subseteq scored
       /\ \A s \in Settler : Comparable(proc[s].of, rewards[w].of)

\* What holds whether calls overlap or not.
Always == TypeOK /\ Calls /\ Nested /\ RewardsOfOneList /\ claim.at <= calls
----------------------------------------------------------------------------
(* What holds as long as no two calls have overlapped. *)

\* The reward rows of the questions S, those in W with their recipient.
RowsOf(S, to, W) ==
  [w \in Worker |->
    IF w \in DOMAIN Final[S]
      THEN [of |-> S, recipient |-> IF w \in W THEN to[w] ELSE None]
      ELSE None]

\* Those that have been inserted when the workers T are left.
SavedRows(S, T) ==
  [w \in Worker |-> IF w \in DOMAIN Final[S] \ T THEN [of |-> S, recipient |-> None]
                    ELSE None]

NoRows == [w \in Worker |-> None]

\* The proofs of tree for the addresses in A, and no others.
ProofsOf(tree, A) == [r \in Address |-> IF r \in A THEN tree ELSE None]

NoProofs == [r \in Address |-> None]

RootOf(tree) == IF Leaves(tree) = {} THEN None ELSE tree

\* What the call s has done so far: of the clean-up, ...
CleanUp(s) ==
  LET p == proc[s] IN
  /\ p.pc \in Settling \ {"forgive"} => ~epoch.settled /\ ~epoch.published
  /\ p.pc \in Settling \ {"prove", "forgive"} => epoch.root = None
  /\ p.pc \in Settling \ {"dropProofs", "prove", "forgive"} => proofs = NoProofs
  /\ p.pc \in {"dropFlags", "list", "finishEmpty"} => rewards = NoRows
  /\ p.pc \in {"list", "save", "finishEmpty"} => flags = {}
  /\ p.pc = "finishEmpty" => p.of = {}

\* ... of the rewards and benchmarks, ...
Rewarding(s) ==
  LET p == proc[s] IN
  /\ p.pc = "save" => rewards = SavedRows(p.of, p.todo)
  /\ p.pc \in {"mark", "count"} => flags = Benchmark[p.of] \ p.todo
  /\ p.pc \in {"mark", "count", "lookup"} => rewards = RowsOf(p.of, p.to, {})
  /\ p.pc \in {"lookup", "recipient", "prove"} => flags = Benchmark[p.of]
  /\ p.pc = "lookup" => /\ p.todo \cup DOMAIN p.to = Eligible(p.of)
                        /\ testnet => DOMAIN p.to = {}
  /\ p.pc \in {"recipient", "prove"} => DOMAIN p.to = Eligible(p.of)
  /\ p.pc = "recipient" => rewards = RowsOf(p.of, p.to, Eligible(p.of) \ p.todo)

\* ... of the tree, and of the publication.
Publication(s) ==
  LET p == proc[s]
      tree == Tree(p.of, p.to)
  IN
  /\ p.pc = "prove" => /\ rewards = RowsOf(p.of, p.to, Eligible(p.of))
                       /\ epoch.root = RootOf(tree)
                       /\ proofs = ProofsOf(tree, Leaves(tree) \ p.todo)
  /\ p.pc \in {"send", "wait"} => p.tx.root = epoch.root
  /\ p.pc \in {"mined", "publish"} => chainRoot = epoch.root /\ chainRoot # None

Progress(s) == CleanUp(s) /\ Rewarding(s) /\ Publication(s)

\* A settled epoch is complete.
Complete ==
  \E S \in SUBSET Question : \E to \in [Eligible(S) -> Address] :
    /\ Cardinality(S) = epoch.total /\ flags = Benchmark[S]
    /\ rewards = RowsOf(S, to, Eligible(S))
    /\ epoch.root = RootOf(Tree(S, to))
    /\ proofs = ProofsOf(Tree(S, to), Leaves(Tree(S, to)))

\* Only one call is under way.
OneCall == \A s, t \in Settler : proc[s].pc # "idle" /\ proc[t].pc # "idle" => s = t

\* The proofs that are there are those of the root, if that is there.
ProofsFit == \A r \in Address : proofs[r] # None => epoch.root \in {None, proofs[r]}

PublishedTrue == epoch.published => chainRoot = epoch.root /\ chainRoot # None

\* A proof that was read while no Settle was under way, nor is since.
ClaimCalm ==
  /\ (claim.pc = "read" /\ claim.calm /\ claim.at = calls) =>
       NoSettle /\ epoch.root \in {None, claim.proof}
  /\ claim.pc = "mixed" => ~claim.calm

Apart ==
  /\ OneCall /\ (\A s \in Settler : Progress(s)) /\ (epoch.settled => Complete)
  /\ PublishedTrue /\ ProofsFit /\ ClaimCalm

Inv == Always /\ (~overlap => Apart)
----------------------------------------------------------------------------
(* The operators. *)

\* The workers to be paid are among those with a reward row.
LEMMA EligibleWorkers ==
  ASSUME NEW S \in SUBSET Question
  PROVE  /\ Eligible(S) \subseteq DOMAIN Final[S] /\ DOMAIN Final[S] \subseteq Worker
         /\ \A w \in DOMAIN Final[S] : Final[S][w] \in Nat
         /\ Benchmark[S] \subseteq S
  BY SettlementAssumption DEF Eligible

\* recipientRewards adds up natural numbers.
LEMMA TreeIsType ==
  ASSUME NEW S \in SUBSET Question, NEW to, DOMAIN to \subseteq Eligible(S)
  PROVE  Tree(S, to) \in TreeType /\ Tree(S, to) # None
<1> DEFINE paid(r) == {w \in DOMAIN to : to[w] = r}
<1>1. ASSUME NEW r \in Address PROVE SumOver(Final[S], paid(r)) \in Nat
  <2>1. paid(r) \in SUBSET Worker /\ \A w \in paid(r) : Final[S][w] \in Nat
    BY EligibleWorkers
  <2>2. IsFiniteSet(paid(r))
    BY <2>1, FS_Subset, SettlementAssumption
  <2> HIDE DEF paid
  <2> QED
    BY <2>1, <2>2, SumType
<1>2. Tree(S, to) = [r \in Address |-> SumOver(Final[S], paid(r))]
  BY DEF Tree
<1> HIDE DEF paid
<1>3. Tree(S, to) \in TreeType
  BY <1>1, <1>2 DEF TreeType
<1> QED
  BY <1>3, NoneAssumption

\* A call that is not running.
LEMMA IdleType ==
  ASSUME NEW sc, NEW n
  PROVE  CallType(Idle, sc, n) /\ Idle.pc = "idle" /\ Idle.of = {}
<1>1. [w \in {} |-> None] \in [{} -> Address] /\ {} \in SUBSET Worker
  OBVIOUS
<1>2. [w \in {} |-> None] \in Payees
  BY <1>1 DEF Payees
<1> QED
  BY <1>2 DEF CallType, CallRec, Idle, Settling, Early, Publishing

\* A recipient of some workers.
LEMMA PayeesAre ==
  ASSUME NEW to
  PROVE  to \in Payees <=> DOMAIN to \subseteq Worker /\ to \in [DOMAIN to -> Address]
  BY DEF Payees

\* NULL is no reward row.
LEMMA RowNotNone ==
  ASSUME NEW S \in SUBSET Question, NEW r \in Address \cup {None}
  PROVE  [of |-> S, recipient |-> r] \in RewardType /\ [of |-> S, recipient |-> r] # None
  BY NoneAssumption DEF RewardType
----------------------------------------------------------------------------
(* Always, step by step. *)

Pcs == {"idle"} \cup Settling \cup Publishing

\* The call of one settler changes: types and lists are kept.
LEMMA CallsOnly ==
  ASSUME Always, NEW s \in Settler, NEW p, Go(s, p), scored' = scored,
         batchSize' = batchSize,
         CallType(p, scored, batchSize), p.of \in {proc[s].of, {}, scored}
  PROVE  /\ Calls' /\ \A t \in Settler : proc'[t].of \in {proc[t].of, {}, scored}
         /\ \A t, u \in Settler : Comparable(proc'[t].of, proc'[u].of)
<1>1. proc'[s] = p /\ \A t \in Settler : t # s => proc'[t] = proc[t]
  BY DEF Always, Calls, Go
<1>2. Calls'
  <2>1. proc' = [t \in Settler |-> proc'[t]]
    BY DEF Always, Calls, Go
  <2>2. \A t \in Settler : CallType(proc'[t], scored', batchSize')
    BY <1>1 DEF Always, Calls
  <2> QED
    BY <2>1, <2>2 DEF Calls
<1>3. \A t \in Settler : proc[t].of \subseteq scored
  BY DEF Always, Calls, CallType
<1>4. \A t \in Settler : Comparable(p.of, proc[t].of) /\ Comparable(proc[t].of, p.of)
  BY <1>3 DEF Always, Nested, Comparable
<1>5. Comparable(p.of, p.of)
  BY DEF Comparable
<1>6. \A t, u \in Settler : Comparable(proc'[t].of, proc'[u].of)
  BY <1>1, <1>4, <1>5 DEF Always, Nested
<1> QED
  BY <1>1, <1>2, <1>6

\* Also the rewards are, when they are left alone.
LEMMA CallsStep ==
  ASSUME Always, NEW s \in Settler, NEW p, Go(s, p), scored' = scored,
         batchSize' = batchSize,
         rewards' = rewards, CallType(p, scored, batchSize), p.of \in {proc[s].of, {}, scored}
  PROVE  Calls' /\ Nested' /\ RewardsOfOneList'
<1>1. \A t \in Settler : proc'[t].of \in {proc[t].of, {}, scored}
  BY CallsOnly
<1>2. \A w \in Worker : rewards'[w] # None =>
        /\ rewards'[w].of \subseteq scored'
        /\ \A t \in Settler : Comparable(proc'[t].of, rewards'[w].of)
  BY <1>1 DEF Always, Nested, Comparable
<1>3. Nested'
  BY <1>2, CallsOnly DEF Nested
<1>4. RewardsOfOneList'
  BY DEF Always, RewardsOfOneList, WholeLists, RewardRows
<1> QED
  BY <1>3, <1>4, CallsOnly

\* The record a call goes on with.
LEMMA CallNow ==
  ASSUME Always, NEW s \in Settler
  PROVE  proc[s] \in CallRec /\ CallType(proc[s], scored, batchSize)
  BY DEF Always, Calls, CallType

\* A call that only goes on.
LEMMA CallTo ==
  ASSUME Always, NEW s \in Settler, NEW x \in Pcs, To(s, x)
  PROVE  \E p \in CallRec :
           /\ Go(s, p) /\ p.pc = x /\ p.of = proc[s].of /\ p.todo = proc[s].todo
           /\ p.to = proc[s].to /\ p.tx = proc[s].tx
<1> DEFINE p == [proc[s] EXCEPT !.pc = x]
<1>1. /\ p \in CallRec /\ p.pc = x /\ p.of = proc[s].of /\ p.todo = proc[s].todo
      /\ p.to = proc[s].to /\ p.tx = proc[s].tx
  BY CallNow DEF CallRec, Pcs
<1>2. Go(s, p)
  BY DEF To
<1> HIDE DEF p
<1> QED
  BY <1>1, <1>2

\* A call arrives.
LEMMA ArrivalAlways ==
  ASSUME Always, NEW s \in Settler, CreateOrResetEpoch(s) \/ AdminPublishes(s)
  PROVE  Always'
<1>0. PICK x \in {"dropProofs", "getRoot"} : To(s, x)
  BY DEF CreateOrResetEpoch, AdminPublishes
<1>1. PICK p \in CallRec : Go(s, p) /\ p.pc = x /\ p.of = proc[s].of /\ p.to = proc[s].to
  <2>1. x \in Pcs
    BY DEF Pcs, Settling, Early, Publishing
  <2> QED
    BY <1>0, <2>1, CallTo
<1>2. proc[s] = Idle
  BY CallNow DEF CallType, CreateOrResetEpoch, AdminPublishes, CallArrives, At
<1>3. p.of = {} /\ DOMAIN p.to = {}
  BY <1>1, <1>2 DEF Idle
<1>4. CallType(p, scored, batchSize)
  BY <1>0, <1>1, <1>3 DEF CallType, Settling, Early, Publishing
<1>5. scored' = scored /\ rewards' = rewards /\ claim' = claim /\ calls' = calls + 1
      /\ batchSize' = batchSize /\ calls < MaxCalls
  BY DEF CreateOrResetEpoch, AdminPublishes, CallArrives, tables, outside
<1>6. Calls' /\ Nested' /\ RewardsOfOneList'
  BY <1>1, <1>3, <1>4, <1>5, CallsStep
<1>7. epoch' \in EpochType
  <2>1. CASE epoch' = NoEpoch
    BY <2>1 DEF NoEpoch, EpochType
  <2>2. CASE epoch' = epoch
    BY <2>2 DEF Always, TypeOK, EpochType
  <2> QED
    BY <2>1, <2>2 DEF CreateOrResetEpoch, AdminPublishes, tables
<1>8. calls' \in 0 .. MaxCalls
  BY <1>5, SettlementAssumption DEF Always, TypeOK
<1>9. overlap' \in BOOLEAN
  BY DEF CreateOrResetEpoch, AdminPublishes, CallArrives
<1>10. UNCHANGED <<outside, chain, flags, qualified, rewards, proofs>>
  BY DEF CreateOrResetEpoch, AdminPublishes, tables
<1>11. TypeOK'
  BY <1>7, <1>8, <1>9, <1>10 DEF Always, TypeOK, EpochType, outside, chain
<1>12. claim'.at <= calls'
  BY <1>5 DEF Always, TypeOK
<1> QED
  BY <1>6, <1>11, <1>12 DEF Always

\* The steps of Settle and PublishMerkleRoot that only go on.
LEMMA GoesOnAlways ==
  ASSUME Always, NEW s \in Settler,
         \/ DeleteEpochMerkleProofs(s) \/ ResetBenchmarkFlags(s) \/ MarkCount(s)
         \/ FinishEpoch(s) \/ SendTransaction(s)
  PROVE  Always'
<1>0. PICK x \in {"dropRewards", "list", "mark", "forgive", "wait"} :
        To(s, x) /\ proc[s].pc = CASE x = "dropRewards" -> "dropProofs"
                                   [] x = "list" -> "dropFlags"
                                   [] x = "mark" -> "count"
                                   [] x = "forgive" -> "prove"
                                   [] x = "wait" -> "send"
  BY DEF DeleteEpochMerkleProofs, ResetBenchmarkFlags, MarkCount, FinishEpoch,
         SendTransaction, At
<1>1. PICK p \in CallRec :
        /\ Go(s, p) /\ p.pc = x /\ p.of = proc[s].of /\ p.todo = proc[s].todo
        /\ p.to = proc[s].to /\ p.tx = proc[s].tx
  <2>1. x \in Pcs
    BY DEF Pcs, Settling, Early, Publishing
  <2> QED
    BY <1>0, <2>1, CallTo
<1>2. CallType(p, scored, batchSize)
  BY <1>0, <1>1, CallNow DEF CallType, Settling, Early, Publishing
<1> USE DEF DeleteEpochMerkleProofs, ResetBenchmarkFlags, MarkCount, FinishEpoch,
            SendTransaction, outside, chain, called, tables
<1>3. scored' = scored /\ rewards' = rewards
  OBVIOUS
<1>4. Calls' /\ Nested' /\ RewardsOfOneList'
  BY <1>1, <1>2, <1>3, CallsStep
<1>5. qualified' \in Nat /\ flags' \subseteq scored
  BY DEF Always, TypeOK
<1>6. proofs' \in [Address -> TreeType \cup {None}]
  BY DEF Always, TypeOK
<1>7. epoch' \in EpochType
  <2>1. IsFiniteSet(proc[s].of)
    BY CallNow, FS_Subset, SettlementAssumption DEF CallRec
  <2>2. Cardinality(proc[s].of) \in Nat
    BY <2>1, FS_CardinalityType
  <2>3. CASE FinishEpoch(s)
    BY <2>2, <2>3 DEF Always, TypeOK, EpochType
  <2>4. CASE epoch' = epoch
    BY <2>4 DEF Always, TypeOK, EpochType
  <2> QED
    BY <2>3, <2>4
<1>8. mempool' \subseteq TxType
  <2>1. CASE SendTransaction(s)
    BY <2>1, CallNow DEF CallType, At, Publishing, Always, TypeOK, TxType
  <2>2. CASE mempool' = mempool
    BY <2>2 DEF Always, TypeOK, TxType
  <2> QED
    BY <2>1, <2>2
<1>9. UNCHANGED <<scored, rewards, rootNet, testnet, batchSize, claim, chainRoot, calls, overlap>>
  OBVIOUS
<1>10. TypeOK'
  BY <1>5, <1>6, <1>7, <1>8, <1>9 DEF Always, TypeOK, EpochType, TxType
<1> QED
  BY <1>4, <1>9, <1>10 DEF Always

\* A step that leaves the rewards alone.
LEMMA AlwaysFrom ==
  ASSUME Always, NEW s \in Settler, NEW p, Go(s, p), CallType(p, scored, batchSize),
         p.of \in {proc[s].of, {}, scored},
         UNCHANGED <<outside, chain, called, qualified, rewards>>,
         flags' \subseteq scored, epoch' \in EpochType,
         proofs' \in [Address -> TreeType \cup {None}]
  PROVE  Always'
<1>1. UNCHANGED <<scored, rootNet, testnet, batchSize, claim, chainRoot, mempool, calls, overlap,
                  qualified, rewards>>
  BY DEF outside, chain, called
<1>2. Calls' /\ Nested' /\ RewardsOfOneList'
  BY <1>1, CallsStep
<1>3. TypeOK'
  BY <1>1 DEF Always, TypeOK, EpochType
<1> QED
  BY <1>1, <1>2, <1>3 DEF Always

\* The types of the tables.
LEMMA TablesNow ==
  ASSUME Always
  PROVE  /\ flags \subseteq scored /\ epoch \in EpochType
         /\ proofs \in [Address -> TreeType \cup {None}]
         /\ rewards \in [Worker -> RewardType \cup {None}]
         /\ scored \in SUBSET Question
  BY DEF Always, TypeOK, EpochType

\* A step that changes no table.
LEMMA AlwaysQuiet ==
  ASSUME Always, NEW s \in Settler, NEW p, Go(s, p), CallType(p, scored, batchSize),
         p.of \in {proc[s].of, {}, scored}, UNCHANGED <<tables, outside, chain, called>>
  PROVE  Always'
<1>1. UNCHANGED <<qualified, rewards>> /\ flags' = flags /\ epoch' = epoch
      /\ proofs' = proofs
  BY DEF tables
<1> QED
  BY <1>1, TablesNow, AlwaysFrom

\* A call returns, or fails.
LEMMA StopsAlways ==
  ASSUME Always, NEW s \in Settler, Go(s, Idle), UNCHANGED <<tables, outside, chain, called>>
  PROVE  Always'
  BY IdleType, AlwaysQuiet

----------------------------------------------------------------------------
(* Apart, step by step. *)

\* The call after a step.
LEMMA CallAfter ==
  ASSUME Inv, NEW s \in Settler, NEW p, Go(s, p)
  PROVE  proc'[s] = p
  BY DEF Inv, Always, Calls, Go

\* While a call of Settle is under way and no other has been, no other call is,
\* and no claim is being read that will fit for sure.
LEMMA SettlingApart ==
  ASSUME Inv, ~overlap, NEW s \in Settler, proc[s].pc \in Settling, NEW p, Go(s, p),
         UNCHANGED <<claim, calls>>, Progress(s)',
         epoch'.settled => Complete', PublishedTrue', ProofsFit'
  PROVE  Apart'
<1>1. proc'[s] = p /\ \A t \in Settler : t # s => proc'[t] = proc[t]
  BY DEF Inv, Always, Calls, Go
<1>2. \A t \in Settler : t # s => proc[t].pc = "idle"
  BY DEF Inv, Apart, OneCall, Settling, Early
<1>3. OneCall'
  BY <1>1, <1>2 DEF OneCall
<1>4. \A t \in Settler : t # s => Progress(t)'
  BY <1>1, <1>2 DEF Progress, CleanUp, Rewarding, Publication, Settling, Early
<1>5. ~NoSettle
  BY DEF NoSettle, Settling, Early
<1>6. ClaimCalm'
  BY <1>5 DEF Inv, Apart, ClaimCalm
<1> QED
  BY <1>1, <1>3, <1>4, <1>6 DEF Apart

\* Before FinishEpoch the epoch is neither settled nor published.
LEMMA UnsettledApart ==
  ASSUME Inv, ~overlap, NEW s \in Settler, proc[s].pc \in Settling \ {"forgive"},
         NEW p, Go(s, p), UNCHANGED <<claim, calls>>, Progress(s)',
         ~epoch'.settled, ~epoch'.published, ProofsFit'
  PROVE  Apart'
  BY SettlingApart DEF PublishedTrue

\* A call that returns or fails half-way leaves what it has done.
LEMMA StopsApart ==
  ASSUME Inv, ~overlap, NEW s \in Settler, Go(s, Idle),
         UNCHANGED <<tables, outside, chain, called>>
  PROVE  Apart'
<1>1. proc'[s] = Idle /\ \A t \in Settler : t # s => proc'[t] = proc[t]
  BY DEF Inv, Always, Calls, Go
<1>2. UNCHANGED <<flags, qualified, epoch, rewards, proofs, testnet, batchSize, claim, chainRoot,
                  calls>>
  BY DEF tables, outside, chain, called
<1>3. OneCall'
  BY <1>1, IdleType DEF Inv, Apart, OneCall
<1>4. Progress(s)'
  BY <1>1, IdleType DEF Progress, CleanUp, Rewarding, Publication, Settling, Early
<1>5. ASSUME NEW t \in Settler, t # s PROVE Progress(t)'
  <2>1. Progress(t) /\ proc'[t] = proc[t]
    BY <1>1, <1>5 DEF Inv, Apart
  <2>2. CleanUp(t)'
    BY <1>2, <2>1 DEF Progress, CleanUp
  <2>3. Rewarding(t)'
    BY <1>2, <2>1 DEF Progress, Rewarding
  <2>4. Publication(t)'
    BY <1>2, <2>1 DEF Progress, Publication
  <2> QED
    BY <2>2, <2>3, <2>4 DEF Progress
<1>6. (epoch.settled => Complete)' /\ PublishedTrue' /\ ProofsFit'
  BY <1>2 DEF Inv, Apart, Complete, PublishedTrue, ProofsFit
<1>7. ClaimCalm'
  <2>1. NoSettle => NoSettle'
    BY <1>1, IdleType DEF NoSettle
  <2> QED
    BY <1>2, <2>1 DEF Inv, Apart, ClaimCalm
<1> QED
  BY <1>3, <1>4, <1>5, <1>6, <1>7 DEF Apart

\* CallFails, and the steps that end in it.
LEMMA StopsInv ==
  ASSUME Inv, NEW s \in Settler, Go(s, Idle), UNCHANGED <<tables, outside, chain, called>>
  PROVE  Inv'
<1>1. Always'
  BY StopsAlways DEF Inv
<1>2. ~overlap => Apart'
  BY StopsApart
<1> QED
  BY <1>1, <1>2 DEF Inv, called

\* A call arrives; if none is under way, it starts from the tables as they are.
LEMMA ArrivalInv ==
  ASSUME Inv, NEW s \in Settler, CreateOrResetEpoch(s) \/ AdminPublishes(s)
  PROVE  Inv'
<1>1. Always'
  BY ArrivalAlways DEF Inv
<1>2. SUFFICES ASSUME ~overlap' PROVE Apart'
  BY <1>1 DEF Inv
<1>3. ~overlap /\ \A t \in Settler : proc[t].pc = "idle"
  BY <1>2 DEF CreateOrResetEpoch, AdminPublishes, CallArrives, At
<1>4. PICK x \in {"dropProofs", "getRoot"} :
        To(s, x) /\ (x = "dropProofs" => epoch' = NoEpoch)
                 /\ (x = "getRoot" => epoch' = epoch)
  BY DEF CreateOrResetEpoch, AdminPublishes, tables
<1>5. PICK p \in CallRec : Go(s, p) /\ p.pc = x
  <2>1. x \in Pcs
    BY DEF Pcs, Settling, Early, Publishing
  <2> QED
    BY <1>4, <2>1, CallTo DEF Inv
<1>6. proc'[s] = p /\ \A t \in Settler : t # s => proc'[t] = proc[t]
  BY <1>5 DEF Inv, Always, Calls, Go
<1>7. UNCHANGED <<flags, rewards, proofs, claim, chainRoot>> /\ calls' = calls + 1
  BY DEF CreateOrResetEpoch, AdminPublishes, CallArrives, tables, outside, chain
<1>8. epoch' = NoEpoch \/ epoch' = epoch
  BY <1>4
<1>9. x = "dropProofs" => ~epoch'.settled /\ ~epoch'.published /\ epoch'.root = None
  BY <1>4 DEF NoEpoch
<1>10. OneCall'
  BY <1>3, <1>6 DEF OneCall
<1>11. \A t \in Settler : Progress(t)'
  BY <1>3, <1>5, <1>6, <1>9
  DEF Progress, CleanUp, Rewarding, Publication, Settling, Early
<1>12. ~(claim'.at = calls')
  BY <1>7 DEF Inv, Always, TypeOK
<1>13. ClaimCalm'
  BY <1>3, <1>7, <1>12 DEF Inv, Apart, ClaimCalm
<1>14. (epoch.settled => Complete)' /\ PublishedTrue' /\ ProofsFit'
  <2>1. CASE epoch' = NoEpoch
    BY <2>1 DEF NoEpoch, PublishedTrue, ProofsFit
  <2>2. CASE epoch' = epoch
    BY <1>3, <1>7, <2>2 DEF Inv, Apart, Complete, PublishedTrue, ProofsFit
  <2> QED
    BY <1>8, <2>1, <2>2
<1> QED
  BY <1>10, <1>11, <1>13, <1>14 DEF Apart

\* Proofs and flags are dropped.
LEMMA DropInv ==
  ASSUME Inv, NEW s \in Settler, DeleteEpochMerkleProofs(s) \/ ResetBenchmarkFlags(s)
  PROVE  Inv'
<1>1. Always'
  BY GoesOnAlways DEF Inv
<1>2. overlap' = overlap /\ UNCHANGED <<claim, calls, epoch, rewards>>
  BY DEF DeleteEpochMerkleProofs, ResetBenchmarkFlags, called, outside
<1>3. SUFFICES ASSUME ~overlap PROVE Apart'
  BY <1>1, <1>2 DEF Inv
<1>4. PICK x \in {"dropRewards", "list"} :
        /\ To(s, x)
        /\ x = "dropRewards" => proc[s].pc = "dropProofs" /\ proofs' = NoProofs
        /\ x = "list" => /\ proc[s].pc = "dropFlags" /\ flags' = flags \ scored
                         /\ proofs' = proofs
  BY DEF DeleteEpochMerkleProofs, ResetBenchmarkFlags, At, NoProofs
<1>5. PICK p \in CallRec : Go(s, p) /\ p.pc = x
  <2>1. x \in Pcs
    BY DEF Pcs, Settling, Early
  <2> QED
    BY <1>4, <2>1, CallTo DEF Inv
<1>6. proc'[s] = p
  BY <1>5, CallAfter
<1>7. x = "list" => flags' = {}
  BY <1>4, TablesNow DEF Inv
<1>8. Progress(s)
  BY <1>3 DEF Inv, Apart
<1>9. Progress(s)'
  BY <1>2, <1>4, <1>5, <1>6, <1>7, <1>8
  DEF Progress, CleanUp, Rewarding, Publication, Settling, Early
<1>10. proc[s].pc \in Settling \ {"forgive"} /\ epoch.root = None
       /\ ~epoch.settled /\ ~epoch.published
  BY <1>4, <1>8 DEF Progress, CleanUp, Settling, Early
<1>11. ProofsFit'
  BY <1>2, <1>10 DEF ProofsFit
<1> QED
  BY <1>2, <1>3, <1>5, <1>9, <1>10, <1>11, UnsettledApart

\* ListScoredQuestionsInRange takes the longest list there is.
LEMMA ListInv ==
  ASSUME Inv, NEW s \in Settler, ListScored(s)
  PROVE  Inv'
<1> DEFINE x == IF scored = {} THEN "finishEmpty" ELSE "save"
           p == [proc[s] EXCEPT !.pc = x, !.of = scored, !.todo = DOMAIN Final[scored]]
<1>0. Always
  BY DEF Inv
<1>1. x \in {"finishEmpty", "save"} /\ x \in Pcs /\ (x = "finishEmpty" => scored = {})
  BY DEF Pcs, Settling, Early
<1>2. Go(s, p) /\ UNCHANGED <<tables, outside, chain, called>> /\ proc[s].pc = "list"
  BY DEF ListScored, At
<1> HIDE DEF x
<1>3. /\ p \in CallRec /\ p.pc = x /\ p.of = scored /\ p.to = proc[s].to
      /\ p.todo = DOMAIN Final[scored]
  <2>1. scored \in SUBSET Question
    BY <1>0, TablesNow
  <2>2. DOMAIN Final[scored] \in SUBSET (Question \cup Address)
    BY <2>1, EligibleWorkers DEF Address
  <2> QED
    BY <1>0, <1>1, <2>1, <2>2, CallNow DEF CallRec, Pcs
<1>4. DOMAIN proc[s].to = {}
  BY <1>0, <1>2, CallNow DEF CallType, Early
<1> HIDE DEF p
<1>5. CallType(p, scored, batchSize)
  BY <1>1, <1>3, <1>4 DEF CallType, Settling, Early, Publishing
<1>6. Always'
  BY <1>0, <1>2, <1>3, <1>5, AlwaysQuiet
<1>7. UNCHANGED <<flags, epoch, rewards, proofs, testnet, batchSize, claim, chainRoot, calls, overlap>>
  BY <1>2 DEF tables, outside, chain, called
<1>8. SUFFICES ASSUME ~overlap PROVE Apart'
  BY <1>6, <1>7 DEF Inv
<1>9. proc'[s] = p /\ Progress(s) /\ ProofsFit
  BY <1>2, <1>8, CallAfter DEF Inv, Apart
<1>13. NoRows = SavedRows(scored, p.todo)
  BY <1>3 DEF NoRows, SavedRows
<1>10. Progress(s)'
  BY <1>1, <1>2, <1>3, <1>7, <1>9, <1>13
  DEF Progress, CleanUp, Rewarding, Publication, Settling, Early
<1>11. proc[s].pc \in Settling \ {"forgive"} /\ ~epoch.settled /\ ~epoch.published
  BY <1>2, <1>9 DEF Progress, CleanUp, Settling, Early
<1>12. ProofsFit'
  BY <1>7, <1>9 DEF ProofsFit
<1> QED
  BY <1>2, <1>7, <1>8, <1>10, <1>11, <1>12, UnsettledApart

\* The reward rows are dropped.
LEMMA DropRewardsInv ==
  ASSUME Inv, NEW s \in Settler, DeleteEpochRewards(s)
  PROVE  Inv'
<1>1. /\ proc[s].pc = "dropRewards" /\ rewards' = NoRows /\ To(s, "dropFlags")
      /\ UNCHANGED <<flags, qualified, epoch, proofs, outside, chain, called>>
  BY DEF DeleteEpochRewards, At, NoRows
<1>2. UNCHANGED <<scored, rootNet, testnet, batchSize, claim, chainRoot, mempool, calls, overlap>>
  BY <1>1 DEF outside, chain, called
<1>3. PICK p \in CallRec :
        /\ Go(s, p) /\ p.pc = "dropFlags" /\ p.of = proc[s].of /\ p.todo = proc[s].todo
        /\ p.to = proc[s].to /\ p.tx = proc[s].tx
  <2>1. "dropFlags" \in Pcs
    BY DEF Pcs, Settling, Early
  <2> QED
    BY <1>1, <2>1, CallTo DEF Inv
<1>4. CallType(p, scored, batchSize)
  BY <1>1, <1>3, CallNow DEF Inv, CallType, Settling, Early, Publishing
<1>5. \A w \in Worker : rewards'[w] = None
  BY <1>1 DEF NoRows
<1>6. Calls' /\ Nested' /\ RewardsOfOneList'
  <2>1. Calls' /\ \A t, u \in Settler : Comparable(proc'[t].of, proc'[u].of)
    BY <1>2, <1>3, <1>4, CallsOnly DEF Inv
  <2> QED
    BY <1>5, <2>1 DEF Nested, RewardsOfOneList, WholeLists
<1>7. rewards' \in [Worker -> RewardType \cup {None}]
  BY <1>1 DEF NoRows
<1>8. TypeOK'
  BY <1>1, <1>2, <1>7 DEF Inv, Always, TypeOK
<1>9. Always'
  BY <1>2, <1>6, <1>8 DEF Inv, Always
<1>10. SUFFICES ASSUME ~overlap PROVE Apart'
  BY <1>2, <1>9 DEF Inv
<1>11. proc'[s] = p /\ Progress(s) /\ ProofsFit
  BY <1>3, <1>10, CallAfter DEF Inv, Apart
<1>12. Progress(s)'
  BY <1>1, <1>3, <1>11 DEF Progress, CleanUp, Rewarding, Publication, Settling, Early
<1>13. proc[s].pc \in Settling \ {"forgive"} /\ ~epoch.settled /\ ~epoch.published
  BY <1>1, <1>11 DEF Progress, CleanUp, Settling, Early
<1>14. ProofsFit'
  BY <1>1, <1>11 DEF ProofsFit
<1> QED
  BY <1>1, <1>2, <1>3, <1>10, <1>12, <1>13, <1>14, UnsettledApart

\* When every list fits in one INSERT, its batch is the whole list.
LEMMA BatchIsAll ==
  ASSUME batchSize \in BatchSizes, Fit(batchSize),
         NEW S \in SUBSET Question, NEW B \in Batches(DOMAIN Final[S])
  PROVE  B = DOMAIN Final[S]
<1> DEFINE T == DOMAIN Final[S]
<1>1. IsFiniteSet(T)
  BY EligibleWorkers, FS_Subset, SettlementAssumption
<1>2. Cardinality(T) <= batchSize /\ Cardinality(T) \in Nat /\ batchSize \in Nat
  BY <1>1, FS_CardinalityType, SettlementAssumption DEF Fit
<1> HIDE DEF T
<1>3. B \subseteq T /\ (Cardinality(B) = batchSize \/ B = T)
  BY DEF Batches, T
<1>4. Cardinality(B) <= Cardinality(T) /\ (Cardinality(T) = Cardinality(B) => T = B)
  BY <1>1, <1>3, FS_Subset
<1>5. B = T
  BY <1>2, <1>3, <1>4
<1> QED
  BY <1>5 DEF T

\* An INSERT of reward rows: a row that is there makes it fail, so that rows of
\* two lists never meet when it has all the rows of a list.
LEMMA SaveRewardsInv ==
  ASSUME Inv, NEW s \in Settler, SaveRewards(s)
  PROVE  Inv'
<1> DEFINE S == proc[s].of
           T == proc[s].todo
<1>0. Always
  BY DEF Inv
<1>1. proc[s].pc = "save" /\ UNCHANGED <<flags, qualified, epoch, proofs, outside, chain, called>>
  BY DEF SaveRewards, At
<1>2. S \in SUBSET Question /\ S \subseteq scored
  BY <1>0, CallNow DEF CallType, CallRec
<1>5. PICK B \in Batches(T) :
        IF \E w \in B : rewards[w] # None THEN Go(s, Idle) /\ UNCHANGED rewards
        ELSE Inserted(s, B)
  BY DEF SaveRewards
<1>6. /\ B \subseteq T /\ T \subseteq DOMAIN Final[S] /\ DOMAIN Final[S] \subseteq Worker
      /\ Fit(batchSize) => T = DOMAIN Final[S]
  BY <1>0, <1>1, <1>2, CallNow, EligibleWorkers DEF Batches, CallType
<1>7. Fit(batchSize) => B = DOMAIN Final[S] /\ B = T
  BY <1>0, <1>2, <1>6, BatchIsAll DEF Always, TypeOK
<1> DEFINE new == [w \in Worker |-> IF w \in B THEN [of |-> S, recipient |-> None]
                                     ELSE rewards[w]]
           p == IF B = T THEN [proc[s] EXCEPT !.pc = "mark", !.todo = Benchmark[S]]
                ELSE [proc[s] EXCEPT !.todo = T \ B]
<1>3. CASE \E w \in B : rewards[w] # None
  <2>1. Go(s, Idle) /\ rewards' = rewards
    BY <1>3, <1>5
  <2>2. UNCHANGED <<tables, outside, chain, called>>
    BY <1>1, <2>1 DEF tables
  <2> QED
    BY <2>1, <2>2, StopsInv
<1>4. CASE \A w \in B : rewards[w] = None
  <2>1. rewards' = new /\ Go(s, p)
    <3>1. Inserted(s, B)
      BY <1>4, <1>5
    <3>2. [proc[s] EXCEPT !.todo = @ \ B] = [proc[s] EXCEPT !.todo = T \ B]
      OBVIOUS
    <3> QED
      BY <3>1, <3>2 DEF Inserted
  <2>2. Benchmark[S] \in SUBSET Question /\ T \ B \in SUBSET (Question \cup Address)
    BY <1>2, <1>6, EligibleWorkers DEF Address
  <2>3. /\ p \in CallRec /\ p.of = S /\ p.to = proc[s].to /\ p.pc \in {"mark", "save"}
        /\ p.pc = "mark" => B = T /\ p.todo = Benchmark[S]
        /\ p.pc = "save" => B # T /\ p.todo = T \ B
    <3>1. CASE B = T
      <4>1. p = [proc[s] EXCEPT !.pc = "mark", !.todo = Benchmark[S]]
        BY <3>1
      <4> QED
        BY <1>0, <2>2, <3>1, <4>1, CallNow DEF CallRec, Settling
    <3>2. CASE B # T
      <4>1. p = [proc[s] EXCEPT !.todo = T \ B]
        BY <3>2
      <4> QED
        BY <1>0, <1>1, <2>2, <3>2, <4>1, CallNow DEF CallRec, Settling
    <3> QED
      BY <3>1, <3>2
  <2> HIDE DEF p
  <2>4. CallType(p, scored, batchSize)
    <3>1. DOMAIN p.to = {}
      BY <1>0, <1>1, <2>3, CallNow DEF CallType
    <3>2. p.pc = "save" => /\ p.todo \subseteq DOMAIN Final[p.of]
                           /\ Fit(batchSize) => p.todo = DOMAIN Final[p.of]
      BY <1>6, <1>7, <2>3
    <3> QED
      BY <1>2, <2>3, <3>1, <3>2 DEF CallType, Settling, Early, Publishing
  <2>5. \A w \in Worker : w \in B =>
          /\ rewards'[w] = [of |-> S, recipient |-> None] /\ rewards'[w] # None
          /\ rewards'[w].of = S /\ rewards'[w] \in RewardType
    BY <1>2, <2>1, RowNotNone
  <2>6. \A w \in Worker : w \notin B => rewards'[w] = rewards[w]
    BY <2>1
  <2>7. UNCHANGED <<scored, rootNet, testnet, batchSize, claim, chainRoot, mempool, calls, overlap>>
    BY <1>1 DEF outside, chain, called
  <2>8. /\ Calls' /\ \A t, u \in Settler : Comparable(proc'[t].of, proc'[u].of)
        /\ \A t \in Settler : proc'[t].of \in {proc[t].of, {}, scored}
        /\ proc'[s].of = S
    BY <1>0, <2>1, <2>3, <2>4, <2>7, CallsOnly, CallAfter
  <2> HIDE DEF new, S, T
  <2>9. Nested'
    <3> SUFFICES ASSUME NEW w \in Worker, rewards'[w] # None
                 PROVE  /\ rewards'[w].of \subseteq scored'
                        /\ \A t \in Settler : Comparable(proc'[t].of, rewards'[w].of)
      BY <2>8 DEF Nested
    <3>1. CASE w \in B
      BY <1>2, <2>5, <2>7, <2>8, <3>1
    <3>2. CASE w \notin B
      BY <1>0, <2>6, <2>7, <2>8, <3>2 DEF Always, Nested, Comparable
    <3> QED
      BY <3>1, <3>2
  <2>10. ASSUME Fit(batchSize) PROVE WholeLists'
    <3>0. B = DOMAIN Final[S]
      BY <1>7, <2>10
    <3>1. CASE \A w \in Worker : rewards[w] = None
      <4>1. S' = S
        BY <2>8 DEF S
      <4>2. RewardRows(S)'
        BY <2>5, <2>6, <3>0, <3>1, <4>1 DEF RewardRows
      <4> QED
        BY <1>2, <4>1, <4>2 DEF WholeLists
    <3>2. CASE \E w \in Worker : rewards[w] # None
      <4>1. PICK L \in SUBSET Question : RewardRows(L)
        BY <1>0, <2>10, <3>2 DEF Always, RewardsOfOneList, WholeLists
      <4>2. PICK v \in Worker : rewards[v] # None
        BY <3>2
      <4>3. v \in DOMAIN Final[L] /\ Comparable(S, L)
        <5>1. v \in DOMAIN Final[L] /\ rewards[v].of = L
          BY <4>1, <4>2 DEF RewardRows
        <5> QED
          BY <1>0, <4>2, <5>1 DEF Always, Nested, S
      <4>4. ~(L \subseteq S)
        BY <1>2, <1>4, <3>0, <4>2, <4>3, SettlementAssumption
      <4>5. DOMAIN Final[S] \subseteq DOMAIN Final[L] /\ DOMAIN Final[S] \subseteq Worker
        BY <1>2, <4>3, <4>4, SettlementAssumption DEF Comparable
      <4>6. DOMAIN Final[S] = {}
        BY <1>4, <3>0, <4>1, <4>5 DEF RewardRows
      <4>7. \A w \in Worker : rewards'[w] = rewards[w]
        BY <2>6, <3>0, <4>6
      <4>8. RewardRows(L)'
        BY <4>1, <4>7 DEF RewardRows
      <4> QED
        BY <4>8 DEF WholeLists
    <3> QED
      BY <3>1, <3>2
  <2>21. RewardsOfOneList'
    BY <2>7, <2>10 DEF RewardsOfOneList
  <2>11. rewards' \in [Worker -> RewardType \cup {None}]
    <3>1. rewards' = [w \in Worker |-> rewards'[w]]
      BY <2>1 DEF new
    <3>2. \A w \in Worker : rewards'[w] \in RewardType \cup {None}
      BY <1>0, <2>5, <2>6, TablesNow
    <3> QED
      BY <3>1, <3>2
  <2>12. TypeOK'
    BY <1>0, <1>1, <2>7, <2>11 DEF Always, TypeOK
  <2>13. Always'
    BY <1>0, <2>7, <2>8, <2>9, <2>12, <2>21 DEF Always
  <2>14. SUFFICES ASSUME ~overlap PROVE Apart'
    BY <2>7, <2>13 DEF Inv
  <2>15. proc'[s] = p /\ Progress(s) /\ ProofsFit
    BY <2>1, <2>14, CallAfter DEF Inv, Apart
  <2>16. rewards = SavedRows(S, T) /\ flags = {}
    BY <1>1, <2>15 DEF Progress, CleanUp, Rewarding, S, T
  <2>17. rewards' = SavedRows(S, T \ B)
    BY <1>6, <2>1, <2>16 DEF new, SavedRows
  <2>22. B = T => rewards' = RowsOf(S, p.to, {})
    BY <2>17 DEF SavedRows, RowsOf
  <2>18. Progress(s)'
    BY <1>1, <2>3, <2>15, <2>16, <2>17, <2>22
    DEF Progress, CleanUp, Rewarding, Publication, Settling, Early
  <2>19. proc[s].pc \in Settling \ {"forgive"} /\ ~epoch.settled /\ ~epoch.published
    BY <1>1, <2>15 DEF Progress, CleanUp, Settling, Early
  <2>20. ProofsFit'
    BY <1>1, <2>15 DEF ProofsFit
  <2> QED
    BY <1>1, <2>1, <2>7, <2>14, <2>18, <2>19, <2>20, UnsettledApart
<1> QED
  BY <1>3, <1>4

\* A step between the rewards and the tree, which changes at most flags and
\* qualified: what is left is what it has done.
LEMMA MarkingInv ==
  ASSUME Inv, NEW s \in Settler, proc[s].pc \in Settling \ {"forgive"}, NEW p,
         Go(s, p), Always', UNCHANGED <<epoch, rewards, proofs, outside, chain, called>>,
         ~overlap /\ Progress(s) /\ proc'[s] = p => Progress(s)'
  PROVE  Inv'
<1>1. UNCHANGED <<claim, calls, overlap>>
  BY DEF outside, called
<1>2. SUFFICES ASSUME ~overlap PROVE Apart'
  BY <1>1 DEF Inv
<1>3. proc'[s] = p /\ Progress(s) /\ ProofsFit
  BY <1>2, CallAfter DEF Inv, Apart
<1>4. ~epoch.settled /\ ~epoch.published
  BY <1>3 DEF Progress, CleanUp
<1>5. ProofsFit'
  BY <1>3 DEF ProofsFit
<1> QED
  BY <1>1, <1>2, <1>3, <1>4, <1>5, UnsettledApart

\* A benchmark question is flagged.
LEMMA MarkFlagInv ==
  ASSUME Inv, NEW s \in Settler, MarkFlag(s)
  PROVE  Inv'
<1>0. Always
  BY DEF Inv
<1>1. PICK q \in proc[s].todo :
        flags' = flags \cup {q}
        /\ Go(s, [proc[s] EXCEPT !.pc = "count", !.todo = @ \ {q}])
  BY DEF MarkFlag
<1>2. /\ proc[s].pc = "mark"
      /\ UNCHANGED <<qualified, epoch, rewards, proofs, outside, chain, called>>
  BY DEF MarkFlag, At
<1>3. proc[s].todo \in SUBSET (Question \cup Address) /\ proc[s].of \in SUBSET Question
  BY <1>0, CallNow DEF CallRec
<1>4. proc[s].todo \subseteq Benchmark[proc[s].of] /\ proc[s].of \subseteq scored
  BY <1>0, <1>2, CallNow DEF CallType
<1> DEFINE p == [proc[s] EXCEPT !.pc = "count", !.todo = @ \ {q}]
<1>5. /\ p \in CallRec /\ Go(s, p) /\ p.pc = "count" /\ p.of = proc[s].of
      /\ p.todo = proc[s].todo \ {q} /\ p.to = proc[s].to
  BY <1>0, <1>1, <1>3, CallNow DEF CallRec, Settling
<1> HIDE DEF p
<1>6. CallType(p, scored, batchSize)
  BY <1>0, <1>2, <1>4, <1>5, CallNow DEF CallType, Settling, Early, Publishing
<1>7. q \in scored
  BY <1>3, <1>4, EligibleWorkers
<1>8. Always'
  BY <1>0, <1>1, <1>2, <1>5, <1>6, <1>7, TablesNow, AlwaysFrom
<1>9. ASSUME Progress(s), proc'[s] = p PROVE Progress(s)'
  <2>1. flags' = Benchmark[p.of] \ p.todo
    BY <1>1, <1>2, <1>4, <1>5, <1>9 DEF Progress, Rewarding
  <2> QED
    BY <1>2, <1>5, <1>9, <2>1
    DEF Progress, CleanUp, Rewarding, Publication, Settling, Early
<1> QED
  BY <1>2, <1>5, <1>8, <1>9, MarkingInv DEF Settling

\* The counter of the benchmark set.
LEMMA MarkCountInv ==
  ASSUME Inv, NEW s \in Settler, MarkCount(s)
  PROVE  Inv'
<1>1. /\ proc[s].pc = "count" /\ To(s, "mark")
      /\ UNCHANGED <<flags, epoch, rewards, proofs, outside, chain, called>>
  BY DEF MarkCount, At
<1>2. Always'
  BY GoesOnAlways DEF Inv
<1>3. PICK p \in CallRec : /\ Go(s, p) /\ p.pc = "mark" /\ p.of = proc[s].of
                           /\ p.todo = proc[s].todo /\ p.to = proc[s].to
  <2>1. "mark" \in Pcs
    BY DEF Pcs, Settling
  <2> QED
    BY <1>1, <2>1, CallTo DEF Inv
<1>4. ASSUME Progress(s), proc'[s] = p PROVE Progress(s)'
  BY <1>1, <1>3, <1>4 DEF Progress, CleanUp, Rewarding, Publication, Settling, Early
<1> QED
  BY <1>1, <1>2, <1>3, <1>4, MarkingInv DEF Settling

\* On to the recipients.
LEMMA MarksDoneInv ==
  ASSUME Inv, NEW s \in Settler, MarksDone(s)
  PROVE  Inv'
<1>0. Always
  BY DEF Inv
<1> DEFINE E == Eligible(proc[s].of)
<1>1. proc[s].of \in SUBSET Question /\ E \in SUBSET Worker
  BY <1>0, CallNow, EligibleWorkers DEF CallRec
<1>2. E \in SUBSET (Question \cup Address)
  BY <1>1 DEF Address
<1>3. /\ Go(s, [proc[s] EXCEPT !.pc = "lookup", !.todo = E]) /\ proc[s].pc = "mark"
      /\ proc[s].todo = {} /\ UNCHANGED <<tables, outside, chain, called>>
  BY DEF MarksDone, At
<1>4. DOMAIN proc[s].to = {}
  BY <1>0, <1>3, CallNow DEF CallType
<1> HIDE DEF E
<1> DEFINE p == [proc[s] EXCEPT !.pc = "lookup", !.todo = E]
<1>5. /\ p \in CallRec /\ Go(s, p) /\ p.pc = "lookup" /\ p.of = proc[s].of
      /\ p.todo = E /\ p.to = proc[s].to
  BY <1>0, <1>2, <1>3, CallNow DEF CallRec, Settling
<1> HIDE DEF p
<1>6. CallType(p, scored, batchSize)
  BY <1>0, <1>3, <1>5, CallNow DEF CallType, Settling, Early, Publishing, E
<1>7. Always'
  BY <1>0, <1>3, <1>5, <1>6, AlwaysQuiet
<1>8. UNCHANGED <<flags, epoch, rewards, proofs>>
  BY <1>3 DEF tables
<1>9. ASSUME Progress(s), proc'[s] = p PROVE Progress(s)'
  <2>1. CleanUp(s)' /\ Publication(s)'
    BY <1>3, <1>5, <1>8, <1>9 DEF Progress, CleanUp, Publication, Settling, Early
  <2>2. Rewarding(s)'
    BY <1>3, <1>4, <1>5, <1>8, <1>9 DEF Progress, Rewarding, E
  <2> QED
    BY <2>1, <2>2 DEF Progress
<1> QED
  BY <1>3, <1>5, <1>7, <1>8, <1>9, MarkingInv DEF Settling

\* Without recipients it does not matter who they would be.
LEMMA RowsWithout ==
  ASSUME NEW S, NEW t, NEW u
  PROVE  RowsOf(S, t, {}) = RowsOf(S, u, {})
  BY DEF RowsOf

\* In testnet mode the workers are paid themselves.
LEMMA PayWorkersInv ==
  ASSUME Inv, NEW s \in Settler, PayWorkers(s)
  PROVE  Inv'
<1>0. Always
  BY DEF Inv
<1> DEFINE to == [w \in proc[s].todo |-> w]
           p == [proc[s] EXCEPT !.pc = "recipient", !.to = to]
<1>1. /\ proc[s].pc = "lookup" /\ testnet /\ Go(s, p)
      /\ UNCHANGED <<tables, outside, chain, called>>
  BY DEF PayWorkers, At
<1>2. proc[s].of \in SUBSET Question /\ proc[s].todo \subseteq Eligible(proc[s].of)
  BY <1>0, <1>1, CallNow DEF CallType, CallRec
<1>3. proc[s].todo \subseteq Worker
  BY <1>2, EligibleWorkers
<1>4. DOMAIN to = proc[s].todo /\ to \in Payees
  BY <1>3, PayeesAre DEF Address
<1> HIDE DEF to
<1>5. /\ p \in CallRec /\ p.pc = "recipient" /\ p.of = proc[s].of
      /\ p.todo = proc[s].todo /\ p.to = to
  BY <1>0, <1>4, CallNow DEF CallRec, Settling
<1> HIDE DEF p
<1>6. CallType(p, scored, batchSize)
  BY <1>0, <1>2, <1>4, <1>5, CallNow DEF CallType, Settling, Early, Publishing
<1>7. Always'
  BY <1>0, <1>1, <1>5, <1>6, AlwaysQuiet
<1>8. UNCHANGED <<flags, epoch, rewards, proofs>>
  BY <1>1 DEF tables
<1>9. ASSUME Progress(s), proc'[s] = p PROVE Progress(s)'
  <2>1. CleanUp(s)' /\ Publication(s)'
    BY <1>1, <1>5, <1>8, <1>9 DEF Progress, CleanUp, Publication, Settling, Early
  <2>2. proc[s].todo = Eligible(proc[s].of)
    BY <1>1, <1>9 DEF Progress, Rewarding
  <2>3. rewards = RowsOf(p.of, p.to, Eligible(p.of) \ p.todo)
    <3>1. Eligible(p.of) \ p.todo = {}
      BY <1>5, <2>2
    <3>2. rewards = RowsOf(p.of, proc[s].to, {})
      BY <1>1, <1>5, <1>9 DEF Progress, Rewarding
    <3> QED
      BY <3>1, <3>2, RowsWithout
  <2>4. Rewarding(s)'
    BY <1>1, <1>4, <1>5, <1>8, <1>9, <2>2, <2>3 DEF Progress, Rewarding
  <2> QED
    BY <2>1, <2>4 DEF Progress
<1> QED
  BY <1>1, <1>5, <1>7, <1>8, <1>9, MarkingInv DEF Settling

\* One recipient is looked up.
LEMMA LookupInv ==
  ASSUME Inv, NEW s \in Settler, LookupRecipient(s)
  PROVE  Inv'
<1>0. Always
  BY DEF Inv
<1>1. PICK w \in proc[s].todo :
        Go(s, [proc[s] EXCEPT
                 !.todo = @ \ {w},
                 !.to = [v \in DOMAIN @ \cup {w} |-> IF v = w THEN rootNet[w] ELSE @[v]]])
  BY DEF LookupRecipient
<1> DEFINE to == [v \in DOMAIN proc[s].to \cup {w} |->
                    IF v = w THEN rootNet[w] ELSE proc[s].to[v]]
           p == [proc[s] EXCEPT !.todo = proc[s].todo \ {w}, !.to = to]
<1>2. proc[s].pc = "lookup" /\ ~testnet /\ UNCHANGED <<tables, outside, chain, called>>
  BY DEF LookupRecipient, At
<1>3. /\ proc[s].of \in SUBSET Question /\ proc[s].todo \subseteq Eligible(proc[s].of)
      /\ DOMAIN proc[s].to \subseteq Eligible(proc[s].of) /\ proc[s].to \in Payees
      /\ proc[s].todo \in SUBSET (Question \cup Address)
  BY <1>0, <1>2, CallNow DEF CallType, CallRec, Settling
<1>4. w \in Worker /\ w \in Eligible(proc[s].of)
  BY <1>3, EligibleWorkers
<1>5. DOMAIN to = DOMAIN proc[s].to \cup {w} /\ to \in Payees
  <2>1. rootNet[w] \in Address
    BY <1>0, <1>4 DEF Always, TypeOK, Address
  <2>2. DOMAIN proc[s].to \subseteq Worker /\ \A v \in DOMAIN proc[s].to : proc[s].to[v] \in Address
    BY <1>3, PayeesAre
  <2>3. to \in [DOMAIN to -> Address] /\ DOMAIN to \subseteq Worker
    BY <1>4, <2>1, <2>2
  <2> HIDE DEF to
  <2> QED
    BY <2>3, PayeesAre DEF to
<1>6. Go(s, p)
  BY <1>0, <1>1, CallNow DEF CallRec
<1> HIDE DEF to
<1>7. /\ p \in CallRec /\ p.pc = "lookup" /\ p.of = proc[s].of
      /\ p.todo = proc[s].todo \ {w} /\ p.to = to
  BY <1>0, <1>2, <1>3, <1>5, CallNow DEF CallRec
<1> HIDE DEF p
<1>8. CallType(p, scored, batchSize)
  BY <1>0, <1>2, <1>3, <1>4, <1>5, <1>7, CallNow DEF CallType, Settling, Early, Publishing
<1>9. Always'
  BY <1>0, <1>2, <1>6, <1>7, <1>8, AlwaysQuiet
<1>10. UNCHANGED <<flags, epoch, rewards, proofs, testnet, batchSize>>
  BY <1>2 DEF tables, outside
<1>11. ASSUME Progress(s), proc'[s] = p PROVE Progress(s)'
  <2>1. CleanUp(s)' /\ Publication(s)'
    BY <1>2, <1>7, <1>10, <1>11 DEF Progress, CleanUp, Publication, Settling, Early
  <2>2. proc[s].todo \cup DOMAIN proc[s].to = Eligible(proc[s].of)
    BY <1>2, <1>11 DEF Progress, Rewarding
  <2>3. p.todo \cup DOMAIN p.to = Eligible(p.of)
    BY <1>5, <1>7, <2>2
  <2>4. rewards = RowsOf(p.of, p.to, {})
    <3>1. rewards = RowsOf(p.of, proc[s].to, {})
      BY <1>2, <1>7, <1>11 DEF Progress, Rewarding
    <3> QED
      BY <3>1, RowsWithout
  <2>5. Rewarding(s)'
    BY <1>2, <1>7, <1>10, <1>11, <2>3, <2>4 DEF Progress, Rewarding
  <2> QED
    BY <2>1, <2>5 DEF Progress
<1> QED
  BY <1>2, <1>6, <1>9, <1>10, <1>11, MarkingInv DEF Settling

\* All recipients are known.
LEMMA LookupsDoneInv ==
  ASSUME Inv, NEW s \in Settler, LookupsDone(s)
  PROVE  Inv'
<1>0. Always
  BY DEF Inv
<1> DEFINE p == [proc[s] EXCEPT !.pc = "recipient", !.todo = DOMAIN proc[s].to]
<1>1. /\ proc[s].pc = "lookup" /\ proc[s].todo = {} /\ Go(s, p)
      /\ UNCHANGED <<tables, outside, chain, called>>
  BY DEF LookupsDone, At
<1>2. DOMAIN proc[s].to \subseteq Question \cup Address
  <2>1. DOMAIN proc[s].to \subseteq Worker
    BY <1>0, CallNow, PayeesAre DEF CallRec
  <2> QED
    BY <2>1 DEF Address
<1>3. /\ p \in CallRec /\ p.pc = "recipient" /\ p.of = proc[s].of
      /\ p.todo = DOMAIN proc[s].to /\ p.to = proc[s].to
  BY <1>0, <1>2, CallNow DEF CallRec, Settling
<1> HIDE DEF p
<1>4. CallType(p, scored, batchSize)
  BY <1>0, <1>1, <1>3, CallNow DEF CallType, Settling, Early, Publishing
<1>5. Always'
  BY <1>0, <1>1, <1>3, <1>4, AlwaysQuiet
<1>6. UNCHANGED <<flags, epoch, rewards, proofs>>
  BY <1>1 DEF tables
<1>7. ASSUME Progress(s), proc'[s] = p PROVE Progress(s)'
  <2>1. CleanUp(s)' /\ Publication(s)'
    BY <1>1, <1>3, <1>6, <1>7 DEF Progress, CleanUp, Publication, Settling, Early
  <2>2. DOMAIN p.to = Eligible(p.of) /\ Eligible(p.of) \ p.todo = {}
    BY <1>1, <1>3, <1>7 DEF Progress, Rewarding
  <2>3. rewards = RowsOf(p.of, p.to, Eligible(p.of) \ p.todo)
    BY <1>1, <1>3, <1>7, <2>2 DEF Progress, Rewarding
  <2>4. Rewarding(s)'
    BY <1>1, <1>3, <1>6, <1>7, <2>2, <2>3 DEF Progress, Rewarding
  <2> QED
    BY <2>1, <2>4 DEF Progress
<1> QED
  BY <1>1, <1>3, <1>5, <1>6, <1>7, MarkingInv DEF Settling

\* A reward row gets its recipient.
LEMMA RecipientInv ==
  ASSUME Inv, NEW s \in Settler, SetWorkerEpochRecipient(s)
  PROVE  Inv'
<1>0. Always
  BY DEF Inv
<1>1. PICK w \in proc[s].todo :
        /\ rewards' = IF rewards[w] = None THEN rewards
                      ELSE [rewards EXCEPT ![w].recipient = proc[s].to[w]]
        /\ Go(s, [proc[s] EXCEPT !.todo = @ \ {w}])
  BY DEF SetWorkerEpochRecipient
<1> DEFINE p == [proc[s] EXCEPT !.todo = proc[s].todo \ {w}]
<1>2. /\ proc[s].pc = "recipient"
      /\ UNCHANGED <<flags, qualified, epoch, proofs, outside, chain, called>>
  BY DEF SetWorkerEpochRecipient, At
<1>3. /\ proc[s].todo \subseteq DOMAIN proc[s].to /\ proc[s].to \in Payees
      /\ proc[s].todo \in SUBSET (Question \cup Address)
      /\ proc[s].of \in SUBSET Question
      /\ DOMAIN proc[s].to \subseteq Eligible(proc[s].of)
  BY <1>0, <1>2, CallNow DEF CallType, CallRec, Settling
<1>4. w \in Worker /\ proc[s].to[w] \in Address
  BY <1>3, PayeesAre
<1>5. Go(s, p)
  BY <1>0, <1>1, CallNow DEF CallRec
<1>6. /\ p \in CallRec /\ p.pc = "recipient" /\ p.of = proc[s].of
      /\ p.todo = proc[s].todo \ {w} /\ p.to = proc[s].to
  BY <1>0, <1>2, <1>3, CallNow DEF CallRec
<1> HIDE DEF p
<1>7. CallType(p, scored, batchSize)
  BY <1>0, <1>2, <1>6, CallNow DEF CallType, Settling, Early, Publishing
<1>8. rewards \in [Worker -> RewardType \cup {None}]
  BY <1>0, TablesNow
<1>9. /\ rewards' \in [Worker -> RewardType \cup {None}]
      /\ \A v \in Worker : rewards[v] = None => rewards'[v] = None
      /\ \A v \in Worker : rewards[v] # None =>
           rewards'[v] # None /\ rewards'[v].of = rewards[v].of
  <2>1. CASE rewards[w] = None
    BY <1>1, <1>8, <2>1
  <2>2. CASE rewards[w] # None
    <3> DEFINE row == [rewards[w] EXCEPT !.recipient = proc[s].to[w]]
    <3>1. row \in RewardType /\ row.of = rewards[w].of
      BY <1>4, <1>8, <2>2 DEF RewardType
    <3>2. row # None
      BY <3>1, NoneAssumption
    <3>3. rewards' = [rewards EXCEPT ![w] = row]
      BY <1>1, <2>2
    <3> HIDE DEF row
    <3>4. \A v \in Worker : rewards'[v] = IF v = w THEN row ELSE rewards[v]
      BY <1>4, <1>8, <3>3
    <3> QED
      BY <1>8, <2>2, <3>1, <3>2, <3>3, <3>4
  <2> QED
    BY <2>1, <2>2
<1>10. UNCHANGED <<scored, rootNet, testnet, batchSize, claim, chainRoot, mempool, calls, overlap>>
  BY <1>2 DEF outside, chain, called
<1>11. Calls' /\ Nested'
  <2>1. /\ Calls' /\ \A t, u \in Settler : Comparable(proc'[t].of, proc'[u].of)
        /\ \A t \in Settler : proc'[t].of \in {proc[t].of, {}, scored}
    BY <1>0, <1>5, <1>6, <1>7, <1>10, CallsOnly
  <2>2. ASSUME NEW v \in Worker, rewards'[v] # None
        PROVE  /\ rewards'[v].of \subseteq scored'
               /\ \A t \in Settler : Comparable(proc'[t].of, rewards'[v].of)
    <3>1. rewards[v] # None /\ rewards'[v].of = rewards[v].of
      BY <1>9, <2>2
    <3> QED
      BY <1>0, <1>10, <2>1, <3>1 DEF Always, Nested, Comparable
  <2> QED
    BY <2>1, <2>2 DEF Nested
<1>12. RewardsOfOneList'
  <2>1. CASE \A v \in Worker : rewards[v] = None
    BY <1>9, <2>1 DEF RewardsOfOneList, WholeLists
  <2>2. ASSUME NEW S \in SUBSET Question, RewardRows(S) PROVE RewardRows(S)'
    BY <1>9, <2>2 DEF RewardRows
  <2> QED
    BY <1>0, <1>10, <2>1, <2>2 DEF Always, RewardsOfOneList, WholeLists
<1>13. TypeOK'
  BY <1>0, <1>2, <1>9, <1>10 DEF Always, TypeOK
<1>14. Always'
  BY <1>0, <1>10, <1>11, <1>12, <1>13 DEF Always
<1>15. SUFFICES ASSUME ~overlap PROVE Apart'
  BY <1>10, <1>14 DEF Inv
<1>16. proc'[s] = p /\ Progress(s) /\ ProofsFit
  BY <1>5, <1>15, CallAfter DEF Inv, Apart
<1> DEFINE S == p.of
           to == p.to
           W == Eligible(S) \ proc[s].todo
<1>17. rewards = RowsOf(S, to, W) /\ DOMAIN to = Eligible(S)
  BY <1>2, <1>6, <1>16 DEF Progress, Rewarding
<1>18. rewards' = RowsOf(S, to, Eligible(S) \ p.todo)
  <2>1. w \in DOMAIN Final[S] /\ w \notin W /\ Eligible(S) \ p.todo = W \cup {w}
    BY <1>3, <1>6, <1>17, EligibleWorkers
  <2>2. rewards[w] = [of |-> S, recipient |-> None]
    BY <1>4, <1>17, <2>1 DEF RowsOf
  <2>3. rewards[w] # None
    BY <1>3, <1>6, <2>2, RowNotNone
  <2>4. rewards' = [rewards EXCEPT ![w] = [of |-> S, recipient |-> to[w]]]
    <3>1. [rewards[w] EXCEPT !.recipient = proc[s].to[w]] = [of |-> S, recipient |-> to[w]]
      BY <1>6, <2>2
    <3>2. rewards' = [rewards EXCEPT ![w] = [rewards[w] EXCEPT !.recipient = proc[s].to[w]]]
      BY <1>1, <2>3
    <3> QED
      BY <3>1, <3>2
  <2> HIDE DEF S, to, W
  <2>5. rewards' = RowsOf(S, to, W \cup {w})
    BY <1>4, <1>17, <2>1, <2>4 DEF RowsOf
  <2> QED
    BY <2>1, <2>5
<1>19. CleanUp(s)' /\ Publication(s)'
  BY <1>2, <1>6, <1>16 DEF Progress, CleanUp, Publication, Settling, Early
<1>20. Rewarding(s)'
  BY <1>2, <1>6, <1>16, <1>17, <1>18 DEF Progress, Rewarding
<1>21. ~epoch.settled /\ ~epoch.published /\ proc[s].pc \in Settling \ {"forgive"}
  BY <1>2, <1>16 DEF Progress, CleanUp, Settling, Early
<1>22. ProofsFit'
  BY <1>2, <1>16 DEF ProofsFit
<1>23. Progress(s)'
  BY <1>19, <1>20 DEF Progress
<1> QED
  BY <1>2, <1>5, <1>10, <1>15, <1>21, <1>22, <1>23, UnsettledApart

\* The tree is made and its root is stored.
LEMMA SetRootInv ==
  ASSUME Inv, NEW s \in Settler, SetEpochMerkleRoot(s)
  PROVE  Inv'
<1>0. Always
  BY DEF Inv
<1> DEFINE tree == Tree(proc[s].of, proc[s].to)
           p == [proc[s] EXCEPT !.pc = "prove", !.todo = Leaves(tree)]
<1>1. /\ proc[s].pc = "recipient" /\ proc[s].todo = {} /\ Go(s, p)
      /\ epoch' = IF Leaves(tree) = {} THEN epoch ELSE [epoch EXCEPT !.root = tree]
      /\ UNCHANGED <<flags, qualified, rewards, proofs, outside, chain, called>>
  BY DEF SetEpochMerkleRoot, At, OwnTree
<1>2. /\ proc[s].of \in SUBSET Question
      /\ DOMAIN proc[s].to \subseteq Eligible(proc[s].of)
  BY <1>0, <1>1, CallNow DEF CallType, CallRec, Settling
<1>3. tree \in TreeType /\ tree # None
  BY <1>2, TreeIsType
<1>4. Leaves(tree) \in SUBSET (Question \cup Address)
  BY DEF Leaves
<1>5. /\ p \in CallRec /\ p.pc = "prove" /\ p.of = proc[s].of
      /\ p.todo = Leaves(tree) /\ p.to = proc[s].to
  BY <1>0, <1>4, CallNow DEF CallRec, Settling
<1>6. tree = Tree(p.of, p.to)
  BY <1>5
<1> HIDE DEF p
<1>7. CallType(p, scored, batchSize)
  BY <1>0, <1>1, <1>5, <1>6, CallNow DEF CallType, Settling, Early, Publishing
<1> HIDE DEF tree
<1>8. epoch' \in EpochType /\ epoch'.settled = epoch.settled
      /\ epoch'.published = epoch.published
      /\ epoch'.root = IF Leaves(tree) = {} THEN epoch.root ELSE tree
  <2>1. epoch \in EpochType
    BY <1>0, TablesNow
  <2>2. CASE Leaves(tree) = {}
    BY <1>1, <2>1, <2>2
  <2>3. CASE Leaves(tree) # {}
    BY <1>1, <1>3, <2>1, <2>3 DEF EpochType
  <2> QED
    BY <2>2, <2>3
<1>9. Always'
  BY <1>0, <1>1, <1>5, <1>7, <1>8, TablesNow, AlwaysFrom
<1>10. UNCHANGED <<claim, calls, overlap>>
  BY <1>1 DEF outside, called
<1>11. SUFFICES ASSUME ~overlap PROVE Apart'
  BY <1>9, <1>10 DEF Inv
<1>12. proc'[s] = p /\ Progress(s) /\ ProofsFit
  BY <1>1, <1>11, CallAfter DEF Inv, Apart
<1>13. /\ epoch.root = None /\ proofs = NoProofs /\ ~epoch.settled /\ ~epoch.published
       /\ proc[s].pc \in Settling \ {"forgive"}
  BY <1>1, <1>12 DEF Progress, CleanUp, Settling, Early
<1>14. CleanUp(s)'
  BY <1>5, <1>8, <1>12, <1>13 DEF CleanUp, Settling, Early
<1>15. Rewarding(s)'
  BY <1>1, <1>5, <1>12 DEF Progress, Rewarding
<1>16. rewards = RowsOf(p.of, p.to, Eligible(p.of))
  <2>1. Eligible(p.of) \ {} = Eligible(p.of)
    OBVIOUS
  <2> QED
    BY <1>1, <1>5, <1>12, <2>1 DEF Progress, Rewarding
<1>17. epoch'.root = RootOf(tree)
  BY <1>8, <1>13 DEF RootOf
<1>18. proofs = ProofsOf(tree, Leaves(tree) \ p.todo)
  BY <1>5, <1>13 DEF ProofsOf, NoProofs
<1>19. Publication(s)'
  BY <1>1, <1>5, <1>6, <1>12, <1>16, <1>17, <1>18 DEF Publication
<1>20. ProofsFit'
  BY <1>1, <1>13 DEF ProofsFit, NoProofs
<1>21. Progress(s)'
  BY <1>14, <1>15, <1>19 DEF Progress
<1> QED
  BY <1>1, <1>8, <1>10, <1>11, <1>13, <1>20, <1>21, UnsettledApart

\* One proof is stored.
LEMMA SaveProofInv ==
  ASSUME Inv, NEW s \in Settler, SaveMerkleProof(s)
  PROVE  Inv'
<1>0. Always
  BY DEF Inv
<1>1. /\ proc[s].pc = "prove"
      /\ UNCHANGED <<flags, qualified, epoch, rewards, outside, chain, called>>
  BY DEF SaveMerkleProof, At
<1>2. PICK r \in proc[s].todo :
        IF proofs[r] # None
          THEN Go(s, Idle) /\ UNCHANGED proofs
          ELSE /\ proofs' = [proofs EXCEPT ![r] = OwnTree(s)]
               /\ Go(s, [proc[s] EXCEPT !.todo = @ \ {r}])
  BY DEF SaveMerkleProof
<1>3. CASE proofs[r] # None
  <2>1. Go(s, Idle) /\ UNCHANGED <<tables, outside, chain, called>>
    BY <1>1, <1>2, <1>3 DEF tables
  <2> QED
    BY <2>1, StopsInv
<1>4. CASE proofs[r] = None
  <2> DEFINE tree == Tree(proc[s].of, proc[s].to)
             p == [proc[s] EXCEPT !.todo = proc[s].todo \ {r}]
  <2>1. Go(s, p) /\ proofs' = [proofs EXCEPT ![r] = tree]
    BY <1>0, <1>2, <1>4, CallNow DEF CallRec, OwnTree
  <2>2. /\ proc[s].of \in SUBSET Question
        /\ DOMAIN proc[s].to \subseteq Eligible(proc[s].of)
        /\ proc[s].todo \subseteq Leaves(tree)
        /\ proc[s].todo \in SUBSET (Question \cup Address)
    BY <1>0, <1>1, CallNow DEF CallType, CallRec, Settling
  <2>3. tree \in TreeType /\ tree # None
    BY <2>2, TreeIsType
  <2>4. r \in Leaves(tree) /\ r \in Address
    BY <2>2 DEF Leaves
  <2>5. /\ p \in CallRec /\ p.pc = "prove" /\ p.of = proc[s].of
        /\ p.todo = proc[s].todo \ {r} /\ p.to = proc[s].to
    BY <1>0, <1>1, <2>2, CallNow DEF CallRec
  <2>6. tree = Tree(p.of, p.to)
    BY <2>5
  <2> HIDE DEF p
  <2>7. CallType(p, scored, batchSize)
    BY <1>0, <1>1, <2>2, <2>5, <2>6, CallNow DEF CallType, Settling, Early, Publishing
  <2> HIDE DEF tree
  <2>8. proofs' \in [Address -> TreeType \cup {None}]
    BY <1>0, <2>1, <2>3, TablesNow
  <2>9. flags' \subseteq scored /\ epoch' \in EpochType
    BY <1>0, <1>1, TablesNow
  <2>10. Always'
    BY <1>0, <1>1, <2>1, <2>5, <2>7, <2>8, <2>9, AlwaysFrom
  <2>11. UNCHANGED <<claim, calls, overlap>>
    BY <1>1 DEF outside, called
  <2>12. SUFFICES ASSUME ~overlap PROVE Apart'
    BY <2>10, <2>11 DEF Inv
  <2>13. proc'[s] = p /\ Progress(s) /\ ProofsFit
    BY <2>1, <2>12, CallAfter DEF Inv, Apart
  <2>14. ~epoch.settled /\ ~epoch.published /\ proc[s].pc \in Settling \ {"forgive"}
    BY <1>1, <2>13 DEF Progress, CleanUp, Settling, Early
  <2>15. CleanUp(s)' /\ Rewarding(s)'
    BY <1>1, <2>5, <2>13, <2>14 DEF Progress, CleanUp, Rewarding, Settling, Early
  <2>16. /\ rewards = RowsOf(p.of, p.to, Eligible(p.of)) /\ epoch.root = RootOf(tree)
         /\ proofs = ProofsOf(tree, Leaves(tree) \ proc[s].todo)
    BY <1>1, <2>5, <2>6, <2>13 DEF Progress, Publication
  <2>17. proofs' = ProofsOf(tree, Leaves(tree) \ p.todo)
    <3>1. Leaves(tree) \ p.todo = (Leaves(tree) \ proc[s].todo) \cup {r}
      BY <2>4, <2>5
    <3> QED
      BY <2>1, <2>16, <3>1 DEF ProofsOf
  <2>18. Publication(s)'
    BY <1>1, <2>5, <2>6, <2>13, <2>16, <2>17 DEF Publication
  <2>19. ProofsFit'
    <3>1. epoch.root = tree
      BY <2>4, <2>16 DEF RootOf
    <3>2. \A a \in Address : proofs'[a] # None => proofs'[a] = tree
      BY <2>17 DEF ProofsOf
    <3> QED
      BY <1>1, <3>1, <3>2 DEF ProofsFit
  <2>20. Progress(s)'
    BY <2>15, <2>18 DEF Progress
  <2> QED
    BY <1>1, <2>1, <2>11, <2>12, <2>14, <2>19, <2>20, UnsettledApart
<1> QED
  BY <1>3, <1>4

\* The epoch is settled: everything is there.
LEMMA FinishInv ==
  ASSUME Inv, NEW s \in Settler, FinishEpoch(s)
  PROVE  Inv'
<1>0. Always /\ Always'
  BY GoesOnAlways DEF Inv
<1>1. /\ proc[s].pc = "prove" /\ proc[s].todo = {} /\ To(s, "forgive")
      /\ epoch' = [epoch EXCEPT !.settled = TRUE, !.total = Cardinality(proc[s].of)]
      /\ UNCHANGED <<flags, qualified, rewards, proofs, outside, chain, called>>
  BY DEF FinishEpoch, At
<1>2. UNCHANGED <<claim, calls, overlap>>
  BY <1>1 DEF outside, called
<1>3. SUFFICES ASSUME ~overlap PROVE Apart'
  BY <1>0, <1>2 DEF Inv
<1>4. PICK p \in CallRec : Go(s, p) /\ p.pc = "forgive"
  <2>1. "forgive" \in Pcs
    BY DEF Pcs, Settling
  <2> QED
    BY <1>0, <1>1, <2>1, CallTo
<1>5. proc'[s] = p /\ Progress(s) /\ ProofsFit
  BY <1>3, <1>4, CallAfter DEF Inv, Apart
<1>6. Progress(s)'
  BY <1>4, <1>5 DEF Progress, CleanUp, Rewarding, Publication, Settling, Early
<1>7. epoch'.total = Cardinality(proc[s].of) /\ epoch'.root = epoch.root
      /\ epoch'.published = epoch.published
  BY <1>0, <1>1, TablesNow DEF EpochType
<1>8. ~epoch.published
  BY <1>1, <1>5 DEF Progress, CleanUp, Settling, Early
<1> DEFINE S == proc[s].of
           to == proc[s].to
           tree == Tree(S, to)
<1>9. /\ flags = Benchmark[S] /\ rewards = RowsOf(S, to, Eligible(S))
      /\ epoch.root = RootOf(tree) /\ DOMAIN to = Eligible(S)
      /\ proofs = ProofsOf(tree, Leaves(tree) \ {})
  BY <1>1, <1>5 DEF Progress, Rewarding, Publication
<1>10. S \in SUBSET Question /\ to \in [Eligible(S) -> Address]
  BY <1>0, <1>9, CallNow, PayeesAre DEF CallRec
<1>11. Leaves(tree) \ {} = Leaves(tree)
  OBVIOUS
<1>12. Complete'
  <2>1. PICK Q \in SUBSET Question : Q = S
    BY <1>10
  <2>2. PICK u \in [Eligible(Q) -> Address] : u = to
    BY <1>10, <2>1
  <2> HIDE DEF S, to
  <2>3. /\ Cardinality(Q) = epoch'.total /\ flags' = Benchmark[Q]
        /\ rewards' = RowsOf(Q, u, Eligible(Q)) /\ epoch'.root = RootOf(Tree(Q, u))
        /\ proofs' = ProofsOf(Tree(Q, u), Leaves(Tree(Q, u)))
    BY <1>1, <1>7, <1>9, <1>11, <2>1, <2>2 DEF S
  <2> QED
    BY <2>3 DEF Complete
<1>13. PublishedTrue' /\ ProofsFit'
  BY <1>1, <1>5, <1>7, <1>8 DEF PublishedTrue, ProofsFit
<1>14. proc[s].pc \in Settling
  BY <1>1 DEF Settling
<1> QED
  BY <1>2, <1>3, <1>4, <1>6, <1>12, <1>13, <1>14, SettlingApart

\* An epoch without questions is settled: there is nothing in the tables.
LEMMA FinishEmptyInv ==
  ASSUME Inv, NEW s \in Settler, FinishEmpty(s)
  PROVE  Inv'
<1>0. Always
  BY DEF Inv
<1>1. /\ proc[s].pc = "finishEmpty" /\ Go(s, Idle)
      /\ epoch' = [epoch EXCEPT !.settled = TRUE, !.total = 0]
      /\ UNCHANGED <<flags, qualified, rewards, proofs, outside, chain, called>>
  BY DEF FinishEmpty, At
<1>2. UNCHANGED <<claim, calls, overlap>>
  BY <1>1 DEF outside, called
<1>3. /\ epoch' \in EpochType /\ epoch'.total = 0 /\ epoch'.root = epoch.root
      /\ epoch'.published = epoch.published
  BY <1>0, <1>1, TablesNow DEF EpochType
<1>4. flags' \subseteq scored /\ proofs' \in [Address -> TreeType \cup {None}]
  BY <1>0, <1>1, TablesNow
<1>5. Always'
  BY <1>0, <1>1, <1>3, <1>4, IdleType, AlwaysFrom
<1>6. SUFFICES ASSUME ~overlap PROVE Apart'
  BY <1>2, <1>5 DEF Inv
<1>7. proc'[s] = Idle /\ Progress(s) /\ ProofsFit
  BY <1>1, <1>6, CallAfter DEF Inv, Apart
<1>8. Progress(s)'
  BY <1>7, IdleType DEF Progress, CleanUp, Rewarding, Publication, Settling, Early
<1>9. /\ ~epoch.published /\ epoch.root = None /\ proofs = NoProofs /\ rewards = NoRows
      /\ flags = {} /\ proc[s].pc \in Settling
  BY <1>1, <1>7 DEF Progress, CleanUp, Settling, Early
<1>10. Complete'
  <2>1. DOMAIN Final[{}] = {} /\ Eligible({}) = {} /\ Benchmark[{}] = {}
        /\ {} \in SUBSET Question
    BY SettlementAssumption DEF Eligible
  <2>2. PICK u \in [Eligible({}) -> Address] : DOMAIN u = {}
    <3>1. [w \in {} |-> None] \in [Eligible({}) -> Address]
      BY <2>1
    <3> QED
      BY <2>1, <3>1
  <2>3. SumOver(Final[{}], {}) = 0
    BY SumUnfold, FS_EmptySet
  <2>4. \A r \in Address : {w \in DOMAIN u : u[w] = r} = {}
    BY <2>2
  <2>5. \A r \in Address : Tree({}, u)[r] = 0
    BY <2>3, <2>4 DEF Tree
  <2>6. Leaves(Tree({}, u)) = {}
    BY <2>5 DEF Leaves
  <2>7. rewards = RowsOf({}, u, Eligible({}))
    BY <1>9, <2>1 DEF RowsOf, NoRows
  <2>8. epoch.root = RootOf(Tree({}, u))
    BY <1>9, <2>6 DEF RootOf
  <2>9. proofs = ProofsOf(Tree({}, u), Leaves(Tree({}, u)))
    BY <1>9, <2>6 DEF ProofsOf, NoProofs
  <2>10. Cardinality({}) = 0
    BY FS_EmptySet
  <2> QED
    BY <1>1, <1>3, <1>9, <2>1, <2>7, <2>8, <2>9, <2>10 DEF Complete
<1>11. PublishedTrue' /\ ProofsFit'
  BY <1>1, <1>3, <1>7, <1>9 DEF PublishedTrue, ProofsFit
<1> QED
  BY <1>1, <1>2, <1>6, <1>8, <1>9, <1>10, <1>11, SettlingApart
----------------------------------------------------------------------------
(* The publication. *)

\* A call that publishes, or goes on to, leaves root, proofs and rewards alone.
LEMMA PublishApart ==
  ASSUME Inv, ~overlap, NEW s \in Settler, proc[s].pc # "idle", NEW p, Go(s, p),
         p.pc \in {"idle"} \cup Publishing,
         UNCHANGED <<flags, rewards, proofs, claim, chainRoot, calls>>,
         epoch'.settled = epoch.settled, epoch'.total = epoch.total,
         epoch'.root = epoch.root, PublishedTrue', Publication(s)'
  PROVE  Apart'
<1>1. proc'[s] = p /\ \A t \in Settler : t # s => proc'[t] = proc[t]
  BY DEF Inv, Always, Calls, Go
<1>2. \A t \in Settler : t # s => proc[t].pc = "idle"
  BY DEF Inv, Apart, OneCall
<1>3. OneCall'
  BY <1>1, <1>2 DEF OneCall
<1>4. \A t \in Settler : t # s => Progress(t)'
  BY <1>1, <1>2 DEF Progress, CleanUp, Rewarding, Publication, Settling, Early
<1>5. Progress(s)'
  BY <1>1 DEF Progress, CleanUp, Rewarding, Settling, Early, Publishing
<1>6. (epoch.settled => Complete)'
  <2>1. Complete => Complete'
    BY DEF Complete
  <2> QED
    BY <2>1 DEF Inv, Apart
<1>7. ProofsFit'
  BY DEF Inv, Apart, ProofsFit
<1>8. NoSettle => NoSettle'
  BY <1>1 DEF NoSettle, Publishing
<1>9. ClaimCalm'
  BY <1>8 DEF Inv, Apart, ClaimCalm
<1> QED
  BY <1>1, <1>3, <1>4, <1>5, <1>6, <1>7, <1>9 DEF Apart

\* The same with the types, for a step that changes no table.
LEMMA PublishQuiet ==
  ASSUME Inv, NEW s \in Settler, proc[s].pc # "idle", NEW p \in CallRec, Go(s, p),
         p.pc \in {"idle"} \cup Publishing, p.of \in {proc[s].of, {}},
         p.pc = "idle" => p = Idle, p.pc \in Publishing \ {"getRoot"} => p.tx \in TxType,
         UNCHANGED <<tables, outside, chain, called>>,
         ~overlap => Publication(s)'
  PROVE  Inv'
<1>1. CallType(p, scored, batchSize)
  <2>1. p.of \subseteq scored
    BY CallNow DEF Inv, CallType
  <2> QED
    BY <2>1, IdleType DEF CallType, Settling, Early, Publishing
<1>2. Always'
  BY <1>1, AlwaysQuiet DEF Inv
<1>3. UNCHANGED <<flags, epoch, rewards, proofs, claim, chainRoot, calls, overlap>>
  BY DEF tables, outside, chain, called
<1>4. ~overlap => PublishedTrue'
  BY <1>3 DEF Inv, Apart, PublishedTrue
<1> QED
  BY <1>2, <1>3, <1>4, PublishApart DEF Inv

\* The violation counts are reset; Settle returns or goes on to publish.
LEMMA ForgiveInv ==
  ASSUME Inv, NEW s \in Settler, ResetAllEpochViolations(s)
  PROVE  Inv'
<1>1. /\ proc[s].pc = "forgive" /\ UNCHANGED <<tables, outside, chain, called>>
      /\ Go(s, IF testnet THEN Idle ELSE [Idle EXCEPT !.pc = "getRoot"])
  BY DEF ResetAllEpochViolations, At
<1>2. CASE testnet
  BY <1>1, <1>2, StopsInv
<1>3. CASE ~testnet
  <2> DEFINE p == [Idle EXCEPT !.pc = "getRoot"]
  <2>1. Go(s, p)
    BY <1>1, <1>3
  <2>2. p \in CallRec /\ p.pc = "getRoot" /\ p.of = {}
    BY IdleType DEF CallType, CallRec, Publishing
  <2> HIDE DEF p
  <2>3. proc'[s] = p
    BY <2>1, CallAfter
  <2>4. Publication(s)'
    BY <2>2, <2>3 DEF Publication
  <2> QED
    BY <1>1, <2>1, <2>2, <2>4, PublishQuiet DEF Publishing
<1> QED
  BY <1>2, <1>3

\* The root to publish is read.
LEMMA GetRootInv ==
  ASSUME Inv, NEW s \in Settler, GetEpochMerkleRoot(s)
  PROVE  Inv'
<1> DEFINE tx == [root |-> epoch.root, by |-> s, call |-> calls]
<1>1. /\ proc[s].pc = "getRoot" /\ UNCHANGED <<tables, outside, chain, called>>
      /\ IF epoch.root = None THEN Go(s, Idle)
         ELSE Go(s, [Idle EXCEPT !.pc = "send", !.tx = tx])
  BY DEF GetEpochMerkleRoot, At
<1>2. CASE epoch.root = None
  BY <1>1, <1>2, StopsInv
<1>3. CASE epoch.root # None
  <2>1. tx \in TxType /\ tx.root = epoch.root
    BY <1>3, TablesNow DEF Inv, Always, TypeOK, EpochType, TxType
  <2> HIDE DEF tx
  <2> DEFINE p == [Idle EXCEPT !.pc = "send", !.tx = tx]
  <2>2. Go(s, p)
    BY <1>1, <1>3
  <2>3. p \in CallRec /\ p.pc = "send" /\ p.of = {} /\ p.tx = tx
    BY <2>1, IdleType DEF CallType, CallRec, Publishing
  <2> HIDE DEF p
  <2>4. proc'[s] = p /\ epoch' = epoch
    BY <1>1, <2>2, CallAfter DEF tables
  <2>5. Publication(s)'
    BY <2>1, <2>3, <2>4 DEF Publication
  <2> QED
    BY <1>1, <2>1, <2>2, <2>3, <2>5, PublishQuiet DEF Publishing
<1> QED
  BY <1>2, <1>3

\* The transaction is sent.
LEMMA SendInv ==
  ASSUME Inv, NEW s \in Settler, SendTransaction(s)
  PROVE  Inv'
<1>1. Always'
  BY GoesOnAlways DEF Inv
<1>2. /\ proc[s].pc = "send" /\ To(s, "wait")
      /\ UNCHANGED <<flags, epoch, rewards, proofs, claim, chainRoot, calls, overlap>>
  BY DEF SendTransaction, At, tables, outside, called
<1>3. PICK p \in CallRec : Go(s, p) /\ p.pc = "wait" /\ p.tx = proc[s].tx
  <2>1. "wait" \in Pcs
    BY DEF Pcs, Publishing
  <2> QED
    BY <1>2, <2>1, CallTo DEF Inv
<1>4. SUFFICES ASSUME ~overlap PROVE Apart'
  BY <1>1, <1>2 DEF Inv
<1>5. Publication(s)'
  <2>1. proc'[s] = p /\ Publication(s)
    BY <1>3, <1>4, CallAfter DEF Inv, Apart, Progress
  <2> QED
    BY <1>2, <1>3, <2>1 DEF Publication
<1>6. PublishedTrue'
  BY <1>2, <1>4 DEF Inv, Apart, PublishedTrue
<1> QED
  BY <1>2, <1>3, <1>4, <1>5, <1>6, PublishApart DEF Publishing

\* The receipt is there.
LEMMA ReceiptInv ==
  ASSUME Inv, NEW s \in Settler, CheckReceipt(s)
  PROVE  Inv'
<1>1. /\ proc[s].pc \in {"mined", "reverted"} /\ UNCHANGED <<tables, outside, chain, called>>
      /\ IF proc[s].pc = "mined" THEN To(s, "publish") ELSE Go(s, Idle)
  BY DEF CheckReceipt, At
<1>2. CASE proc[s].pc # "mined"
  BY <1>1, <1>2, StopsInv
<1>3. CASE proc[s].pc = "mined"
  <2>1. PICK p \in CallRec :
          Go(s, p) /\ p.pc = "publish" /\ p.of = proc[s].of /\ p.tx = proc[s].tx
    <3>1. "publish" \in Pcs
      BY DEF Pcs, Publishing
    <3> QED
      BY <1>1, <1>3, <3>1, CallTo DEF Inv
  <2>2. p.tx \in TxType
    BY <1>3, <2>1, CallNow DEF Inv, CallType, Publishing
  <2>3. ~overlap => Publication(s)'
    <3>1. proc'[s] = p /\ chainRoot' = chainRoot /\ epoch' = epoch
      BY <1>1, <2>1, CallAfter DEF chain, tables
    <3>2. ~overlap => Publication(s)
      BY DEF Inv, Apart, Progress
    <3> QED
      BY <1>3, <2>1, <3>1, <3>2 DEF Publication
  <2> QED
    BY <1>1, <1>3, <2>1, <2>2, <2>3, PublishQuiet DEF Publishing
<1> QED
  BY <1>2, <1>3

\* The epoch is marked published.
LEMMA PublishedInv ==
  ASSUME Inv, NEW s \in Settler, SetEpochPublished(s)
  PROVE  Inv'
<1>0. Always
  BY DEF Inv
<1>1. /\ proc[s].pc = "publish" /\ Go(s, Idle)
      /\ epoch' = [epoch EXCEPT !.published = TRUE]
      /\ UNCHANGED <<flags, qualified, rewards, proofs, outside, chain, called>>
  BY DEF SetEpochPublished, At
<1>2. UNCHANGED <<claim, calls, overlap, chainRoot>>
  BY <1>1 DEF outside, called, chain
<1>3. /\ epoch' \in EpochType /\ epoch'.total = epoch.total /\ epoch'.root = epoch.root
      /\ epoch'.settled = epoch.settled
  BY <1>0, <1>1, TablesNow DEF EpochType
<1>4. flags' \subseteq scored /\ proofs' \in [Address -> TreeType \cup {None}]
  BY <1>0, <1>1, TablesNow
<1>5. Always'
  BY <1>0, <1>1, <1>3, <1>4, IdleType, AlwaysFrom
<1>6. SUFFICES ASSUME ~overlap PROVE Apart'
  BY <1>2, <1>5 DEF Inv
<1>7. proc'[s] = Idle /\ Publication(s)
  BY <1>1, <1>6, CallAfter DEF Inv, Apart, Progress
<1>8. Publication(s)'
  BY <1>7, IdleType DEF Publication
<1>9. PublishedTrue'
  BY <1>1, <1>2, <1>3, <1>7 DEF PublishedTrue, Publication
<1> QED
  BY <1>1, <1>2, <1>3, <1>6, <1>8, <1>9, IdleType, PublishApart
----------------------------------------------------------------------------
(* The rest of the system, and the claims. *)

\* What Apart says does not depend on the questions that are scored meanwhile
\* or on the recipients RootNet knows.
LEMMA ApartKept ==
  ASSUME Apart, ClaimCalm',
         UNCHANGED <<flags, epoch, rewards, proofs, testnet, batchSize, chainRoot, proc, calls>>
  PROVE  Apart'
<1>1. OneCall' /\ PublishedTrue' /\ ProofsFit'
  BY DEF Apart, OneCall, PublishedTrue, ProofsFit
<1>2. ASSUME NEW s \in Settler PROVE Progress(s)'
  <2>0. CleanUp(s) /\ Rewarding(s) /\ Publication(s)
    BY DEF Apart, Progress
  <2>1. CleanUp(s)'
    BY <2>0 DEF CleanUp
  <2>2. Rewarding(s)'
    BY <2>0 DEF Rewarding
  <2>3. Publication(s)'
    BY <2>0 DEF Publication
  <2> QED
    BY <2>1, <2>2, <2>3 DEF Progress
<1>3. (epoch.settled => Complete)'
  BY DEF Apart, Complete
<1> QED
  BY <1>1, <1>2, <1>3 DEF Apart

\* A question is scored.
LEMMA ScoredInv ==
  ASSUME Inv, NEW q \in Question, QuestionScored(q)
  PROVE  Inv'
<1>1. /\ scored' = scored \cup {q}
      /\ UNCHANGED <<flags, qualified, epoch, rewards, proofs, rootNet, testnet, batchSize, claim,
                     chainRoot, mempool, proc, calls, overlap>>
  BY DEF QuestionScored, tables, chain, called
<1>2. TypeOK'
  BY <1>1 DEF Inv, Always, TypeOK
<1>3. Calls'
  <2>1. \A s \in Settler : CallType(proc[s], scored', batchSize)
    BY <1>1 DEF Inv, Always, Calls, CallType
  <2> QED
    BY <1>1, <2>1 DEF Inv, Always, Calls
<1>4. Nested' /\ RewardsOfOneList'
  BY <1>1 DEF Inv, Always, Nested, RewardsOfOneList, WholeLists, RewardRows
<1>5. ~overlap => ClaimCalm'
  BY <1>1 DEF Inv, Apart, ClaimCalm, NoSettle
<1> QED
  BY <1>1, <1>2, <1>3, <1>4, <1>5, ApartKept DEF Inv, Always

\* A worker names another recipient.
LEMMA RecipientChangesInv ==
  ASSUME Inv, NEW w \in Worker, NEW r \in Recipient, RecipientChanges(w, r)
  PROVE  Inv'
<1>1. /\ rootNet' = [rootNet EXCEPT ![w] = r]
      /\ UNCHANGED <<flags, qualified, epoch, rewards, proofs, scored, testnet, batchSize, claim,
                     chainRoot, mempool, proc, calls, overlap>>
  BY DEF RecipientChanges, tables, chain, called
<1>2. TypeOK'
  BY <1>1 DEF Inv, Always, TypeOK
<1>3. Calls' /\ Nested' /\ RewardsOfOneList'
  BY <1>1 DEF Inv, Always, Calls, Nested, RewardsOfOneList, WholeLists, RewardRows
<1>4. ~overlap => ClaimCalm'
  BY <1>1 DEF Inv, Apart, ClaimCalm, NoSettle
<1> QED
  BY <1>1, <1>2, <1>3, <1>4, ApartKept DEF Inv, Always

\* A transaction is mined; the calls that wait for it learn what became of it.
LEMMA TxMinedInv ==
  ASSUME Inv, NEW tx \in mempool, TxMined(tx)
  PROVE  Inv'
<1> DEFINE x == IF chainRoot = None THEN "mined" ELSE "reverted"
<1>0. Always /\ tx \in TxType /\ tx.root \in TreeType /\ tx.root # None
  BY NoneAssumption DEF Inv, Always, TypeOK, TxType
<1>1. /\ mempool' = mempool \ {tx}
      /\ chainRoot' = IF chainRoot = None THEN tx.root ELSE chainRoot
      /\ proc' = [s \in Settler |->
           IF proc[s].pc = "wait" /\ proc[s].tx = tx
             THEN [proc[s] EXCEPT !.pc = x] ELSE proc[s]]
      /\ UNCHANGED <<flags, qualified, epoch, rewards, proofs, scored, rootNet, testnet, batchSize,
                     claim, calls, overlap>>
  BY DEF TxMined, tables, outside, called
<1>2. x \in {"mined", "reverted"} /\ (x = "mined" => chainRoot = None)
  OBVIOUS
<1> HIDE DEF x
<1>3. ASSUME NEW s \in Settler
      PROVE  /\ proc'[s] \in CallRec /\ proc'[s].of = proc[s].of
             /\ \/ proc'[s] = proc[s] /\ (proc[s].pc # "wait" \/ proc[s].tx # tx)
                \/ proc[s].pc = "wait" /\ proc[s].tx = tx /\ proc'[s].pc = x
                   /\ proc'[s].tx = tx
  BY <1>0, <1>1, <1>2, CallNow DEF CallRec, Publishing
<1>4. Calls'
  <2>1. \A s \in Settler : CallType(proc'[s], scored, batchSize)
    BY <1>0, <1>2, <1>3, CallNow DEF CallType, Settling, Early, Publishing
  <2> QED
    BY <1>1, <2>1 DEF Calls
<1>5. Nested'
  BY <1>0, <1>1, <1>3 DEF Always, Nested, Comparable
<1>6. RewardsOfOneList'
  BY <1>0, <1>1 DEF Always, RewardsOfOneList, WholeLists, RewardRows
<1>7. TypeOK'
  <2>1. chainRoot' \in TreeType \cup {None}
    BY <1>0, <1>1 DEF Always, TypeOK
  <2>2. mempool' \subseteq TxType
    BY <1>0, <1>1 DEF Always, TypeOK, TxType
  <2> QED
    BY <1>0, <1>1, <2>1, <2>2 DEF Always, TypeOK, TxType
<1>8. Always'
  BY <1>0, <1>1, <1>4, <1>5, <1>6, <1>7 DEF Always
<1>9. SUFFICES ASSUME ~overlap PROVE Apart'
  BY <1>1, <1>8 DEF Inv
<1>10. Apart
  BY <1>9 DEF Inv
<1>11. OneCall'
  BY <1>3, <1>10 DEF Apart, OneCall
<1>12. ASSUME NEW s \in Settler PROVE Progress(s)'
  <2>0. Progress(s)
    BY <1>10 DEF Apart
  <2>1. CASE proc'[s] = proc[s] /\ (proc[s].pc # "wait" \/ proc[s].tx # tx)
    <3>1. CleanUp(s)' /\ Rewarding(s)'
      BY <1>1, <2>0, <2>1 DEF Progress, CleanUp, Rewarding
    <3>2. Publication(s)'
      BY <1>1, <2>0, <2>1 DEF Progress, Publication
    <3> QED
      BY <3>1, <3>2 DEF Progress
  <2>2. CASE proc[s].pc = "wait" /\ proc[s].tx = tx /\ proc'[s].pc = x
    <3>1. tx.root = epoch.root
      BY <2>0, <2>2 DEF Progress, Publication
    <3>2. CleanUp(s)' /\ Rewarding(s)'
      BY <1>2, <2>2 DEF CleanUp, Rewarding, Settling, Early
    <3>3. Publication(s)'
      BY <1>0, <1>1, <1>2, <2>2, <3>1 DEF Publication
    <3> QED
      BY <3>2, <3>3 DEF Progress
  <2> QED
    BY <1>3, <2>1, <2>2
<1>13. PublishedTrue' /\ ProofsFit' /\ (epoch.settled => Complete)'
  BY <1>1, <1>10 DEF Apart, PublishedTrue, ProofsFit, Complete
<1>14. ClaimCalm'
  <2>1. NoSettle => NoSettle'
    BY <1>2, <1>3 DEF NoSettle
  <2> QED
    BY <1>1, <1>10, <2>1 DEF Apart, ClaimCalm
<1> QED
  BY <1>11, <1>12, <1>13, <1>14 DEF Apart

\* A proof is read for a claim.
LEMMA ReadProofInv ==
  ASSUME Inv, NEW r \in Address, ReadProof(r)
  PROVE  Inv'
<1>1. /\ proofs[r] # None
      /\ claim' = [pc |-> "read", proof |-> proofs[r], at |-> calls, calm |-> NoSettle]
      /\ UNCHANGED <<flags, qualified, epoch, rewards, proofs, scored, rootNet, testnet, batchSize,
                     chainRoot, mempool, proc, calls, overlap>>
  BY DEF ReadProof, tables, chain, called
<1>2. NoSettle \in BOOLEAN
  BY DEF NoSettle
<1>3. TypeOK'
  BY <1>1, <1>2 DEF Inv, Always, TypeOK
<1>4. Calls' /\ Nested' /\ RewardsOfOneList' /\ claim'.at <= calls'
  BY <1>1 DEF Inv, Always, TypeOK, Calls, Nested, RewardsOfOneList, WholeLists, RewardRows
<1>5. ~overlap => ClaimCalm'
  <2>1. NoSettle' <=> NoSettle
    BY <1>1 DEF NoSettle
  <2>2. /\ claim'.pc = "read" /\ claim'.proof = proofs[r] /\ claim'.calm = NoSettle
        /\ epoch' = epoch
    BY <1>1
  <2> HIDE DEF NoSettle
  <2>3. ~overlap => epoch.root \in {None, proofs[r]}
    BY <1>1 DEF Inv, Apart, ProofsFit
  <2> QED
    BY <2>1, <2>2, <2>3 DEF ClaimCalm
<1> QED
  BY <1>1, <1>3, <1>4, <1>5, ApartKept DEF Inv, Always

\* The root is read for a claim.
LEMMA ReadRootInv ==
  ASSUME Inv, ReadRoot
  PROVE  Inv'
<1> DEFINE x == CASE epoch.root = None -> "empty"
                  [] epoch.root = claim.proof -> "fits"
                  [] OTHER -> "mixed"
<1>1. /\ claim.pc = "read"
      /\ claim' = [NoClaim EXCEPT !.pc = x, !.calm = claim.calm /\ calls = claim.at]
      /\ UNCHANGED <<flags, qualified, epoch, rewards, proofs, scored, rootNet, testnet, batchSize,
                     chainRoot, mempool, proc, calls, overlap>>
  BY DEF ReadRoot, tables, chain, called
<1>2. x \in {"empty", "fits", "mixed"}
      /\ (x = "mixed" => epoch.root # None /\ epoch.root # claim.proof)
  OBVIOUS
<1> HIDE DEF x
<1>3. /\ claim'.pc = x /\ claim'.proof = None /\ claim'.at = 0
      /\ claim'.calm = (claim.calm /\ calls = claim.at)
      /\ claim' \in [pc : {"empty", "fits", "mixed"}, proof : {None}, at : {0},
                     calm : BOOLEAN]
  BY <1>1, <1>2 DEF NoClaim
<1>4. TypeOK'
  <2>1. 0 \in 0 .. MaxCalls
    BY SettlementAssumption
  <2>2. claim' \in [pc : {"idle", "read", "empty", "fits", "mixed"},
                    proof : TreeType \cup {None}, at : 0 .. MaxCalls, calm : BOOLEAN]
    BY <1>3, <2>1
  <2> QED
    BY <1>1, <2>2 DEF Inv, Always, TypeOK
<1>5. Calls' /\ Nested' /\ RewardsOfOneList' /\ claim'.at <= calls'
  BY <1>1, <1>3 DEF Inv, Always, TypeOK, Calls, Nested, RewardsOfOneList, WholeLists, RewardRows
<1>6. ~overlap => ClaimCalm'
  BY <1>1, <1>2, <1>3 DEF Inv, Apart, ClaimCalm
<1> QED
  BY <1>1, <1>4, <1>5, <1>6, ApartKept DEF Inv, Always
----------------------------------------------------------------------------
(* The whole. *)

\* Before anything is settled.
LEMMA InitInv == Init => Inv
<1> SUFFICES ASSUME Init PROVE Inv
  OBVIOUS
<1>1. /\ scored = {} /\ flags = {} /\ qualified = 0 /\ epoch = NoEpoch
      /\ rewards = [w \in Worker |-> None] /\ proofs = [r \in Address |-> None]
      /\ rootNet \in [Worker -> Recipient] /\ testnet \in BOOLEAN /\ batchSize \in BatchSizes
      /\ chainRoot = None /\ mempool = {} /\ proc = [s \in Settler |-> Idle]
      /\ claim = NoClaim /\ calls = 0 /\ overlap = FALSE
  BY DEF Init
<1>2. \A s \in Settler : proc[s] = Idle
  BY <1>1
<1>3. TypeOK
  <2>1. 0 \in 0 .. MaxCalls
    BY SettlementAssumption
  <2> QED
    BY <1>1, <2>1 DEF TypeOK, NoEpoch, NoClaim
<1>4. Calls
  BY <1>1, <1>2, IdleType DEF Calls
<1>5. Nested /\ RewardsOfOneList
  BY <1>1, <1>2, IdleType DEF Nested, Comparable, RewardsOfOneList, WholeLists
<1>6. claim.at <= calls /\ ClaimCalm
  BY <1>1 DEF NoClaim, ClaimCalm
<1>7. OneCall /\ \A s \in Settler : Progress(s)
  BY <1>2, IdleType DEF OneCall, Progress, CleanUp, Rewarding, Publication, Settling, Early
<1>8. ~epoch.settled /\ PublishedTrue /\ ProofsFit
  BY <1>1 DEF NoEpoch, PublishedTrue, ProofsFit
<1> QED
  BY <1>3, <1>4, <1>5, <1>6, <1>7, <1>8 DEF Inv, Always, Apart

\* Every step preserves the invariant.
LEMMA NextInv == Inv /\ [Next]_vars => Inv'
<1> SUFFICES ASSUME Inv, [Next]_vars PROVE Inv'
  OBVIOUS
<1>1. ASSUME NEW s \in Settler, SettleStep(s) PROVE Inv'
  BY <1>1, ArrivalInv, DropInv, DropRewardsInv, ListInv, SaveRewardsInv, MarkFlagInv,
     MarkCountInv, MarksDoneInv, PayWorkersInv, LookupInv, LookupsDoneInv, RecipientInv,
     SetRootInv, SaveProofInv, FinishInv, FinishEmptyInv, ForgiveInv
  DEF SettleStep
<1>2. ASSUME NEW s \in Settler, PublishStep(s) PROVE Inv'
  BY <1>2, ArrivalInv, GetRootInv, SendInv, ReceiptInv, PublishedInv DEF PublishStep
<1>3. ASSUME NEW s \in Settler, CallFails(s) PROVE Inv'
  BY <1>3, StopsInv DEF CallFails
<1>4. ASSUME Environment PROVE Inv'
  BY <1>4, ScoredInv, RecipientChangesInv, TxMinedInv DEF Environment
<1>5. ASSUME Claim PROVE Inv'
  BY <1>5, ReadProofInv, ReadRootInv DEF Claim
<1>6. ASSUME UNCHANGED vars PROVE Inv'
  <2>1. UNCHANGED <<flags, qualified, epoch, rewards, proofs, scored, rootNet, testnet, batchSize, claim,
                    chainRoot, mempool, proc, calls, overlap>>
    BY <1>6 DEF vars, tables, outside, chain, called
  <2>2. Always'
    BY <2>1 DEF Inv, Always, TypeOK, Calls, Nested, RewardsOfOneList, WholeLists, RewardRows
  <2>3. ~overlap => ClaimCalm'
    BY <2>1 DEF Inv, Apart, ClaimCalm, NoSettle
  <2> QED
    BY <2>1, <2>2, <2>3, ApartKept DEF Inv
<1> QED
  BY <1>1, <1>2, <1>3, <1>4, <1>5, <1>6 DEF Next

\* The invariant holds in every reachable state.
LEMMA AlwaysInv == Spec => []Inv
  BY InitInv, NextInv, PTL DEF Spec

\* The columns of the epoch's tables, the chain, the claims and the counters
\* keep their types; flags are set on scored questions only.
THEOREM TypeCorrect == Spec => []TypeOK
<1>1. Inv => TypeOK
  BY DEF Inv, Always
<1> QED
  BY <1>1, AlwaysInv, PTL

\* However many calls of Settle overlap, if the rewards of every list fit in one
\* INSERT: the rows of worker_epoch_rewards are those of one list of questions,
\* because a second list's INSERT meets a row of the first (store/epoch.go,
\* BatchSaveWorkerEpochRewards).
THEOREM RowsOfOneList == Spec => []RewardsOfOneList
<1>1. Inv => RewardsOfOneList
  BY DEF Inv, Always
<1> QED
  BY <1>1, AlwaysInv, PTL

\* A complete epoch is settled on one list.
LEMMA CompleteOnOneList ==
  ASSUME Inv PROVE SettledOnOneList
<1> SUFFICES ASSUME epoch.settled, ~overlap
             PROVE  \E S \in SUBSET Question :
                      Cardinality(S) = epoch.total /\ RewardRows(S) /\ flags = Benchmark[S]
  BY DEF SettledOnOneList
<1>1. Complete
  BY DEF Inv, Apart
<1>2. PICK S \in SUBSET Question, to \in UNION {[W -> Address] : W \in SUBSET Worker} :
        /\ Cardinality(S) = epoch.total /\ flags = Benchmark[S]
        /\ rewards = RowsOf(S, to, Eligible(S)) /\ to \in [Eligible(S) -> Address]
  BY <1>1, EligibleWorkers DEF Complete
<1>3. ASSUME NEW w \in Worker
      PROVE  IF w \in DOMAIN Final[S] THEN rewards[w] # None /\ rewards[w].of = S
             ELSE rewards[w] = None
  <2>1. CASE w \in DOMAIN Final[S]
    <3> DEFINE r == IF w \in Eligible(S) THEN to[w] ELSE None
    <3>1. r \in Address \cup {None}
      BY <1>2
    <3>2. rewards[w] = [of |-> S, recipient |-> r]
      BY <1>2, <2>1 DEF RowsOf
    <3> HIDE DEF r
    <3> QED
      BY <2>1, <3>1, <3>2, RowNotNone
  <2>2. CASE w \notin DOMAIN Final[S]
    BY <1>2, <2>2 DEF RowsOf
  <2> QED
    BY <2>1, <2>2
<1> QED
  BY <1>2, <1>3 DEF RewardRows

\* Calls that do not overlap, whatever failed half-way before: an epoch marked
\* settled has the reward rows and benchmark flags of the one list of
\* questions that total_scored counts (settlement.go, Settle).
THEOREM SettledCompletely == Spec => []SettledOnOneList
  BY CompleteOnOneList, AlwaysInv, PTL

\* The rows of a complete epoch make up the tree whose root and proofs are stored.
LEMMA RewardTreeIs ==
  ASSUME NEW S \in SUBSET Question, NEW to \in [Eligible(S) -> Address],
         rewards = RowsOf(S, to, Eligible(S))
  PROVE  /\ RewardTree = Tree(S, to)
         /\ \A w \in Worker : rewards[w] # None =>
              (rewards[w].recipient # None <=> w \in Eligible(rewards[w].of))
<1>1. ASSUME NEW w \in Worker, w \in DOMAIN Final[S]
      PROVE  /\ rewards[w] # None /\ rewards[w].of = S
             /\ rewards[w].recipient = IF w \in Eligible(S) THEN to[w] ELSE None
  <2> DEFINE r == IF w \in Eligible(S) THEN to[w] ELSE None
  <2>1. r \in Address \cup {None}
    OBVIOUS
  <2>2. rewards[w] = [of |-> S, recipient |-> r]
    BY <1>1 DEF RowsOf
  <2> HIDE DEF r
  <2>3. rewards[w] # None /\ rewards[w].of = S /\ rewards[w].recipient = r
    BY <2>1, <2>2, RowNotNone
  <2> QED
    BY <2>3 DEF r
<1>2. \A w \in Worker : w \notin DOMAIN Final[S] => rewards[w] = None
  BY DEF RowsOf
<1>3. Rewarded = DOMAIN Final[S]
  BY <1>1, <1>2, EligibleWorkers DEF Rewarded
<1>4. \A w \in Eligible(S) : to[w] # None
  BY NoneAssumption
<1>5. \A w \in Worker : rewards[w] # None =>
        (rewards[w].recipient # None <=> w \in Eligible(rewards[w].of))
  BY <1>1, <1>2, <1>4
<1> DEFINE G == [w \in Rewarded |-> Final[rewards[w].of][w]]
           paid(r) == {w \in DOMAIN to : to[w] = r}
<1>6. ASSUME NEW r \in Address
      PROVE  SumOver(G, {w \in Rewarded : rewards[w].recipient = r})
               = SumOver(Final[S], paid(r))
  <2>1. {w \in Rewarded : rewards[w].recipient = r} = paid(r)
    <3>1. r # None
      BY NoneAssumption
    <3>2. ASSUME NEW w \in Rewarded, rewards[w].recipient = r PROVE w \in paid(r)
      BY <1>1, <1>3, <3>1, <3>2, EligibleWorkers
    <3>3. ASSUME NEW w \in paid(r) PROVE w \in Rewarded /\ rewards[w].recipient = r
      BY <1>1, <1>3, EligibleWorkers
    <3> HIDE DEF paid
    <3>4. \A w : w \in {v \in Rewarded : rewards[v].recipient = r} <=> w \in paid(r)
      BY <3>2, <3>3
    <3> QED
      BY <3>4
  <2>2. paid(r) \in SUBSET Rewarded /\ paid(r) \in SUBSET Worker
    BY <1>3, EligibleWorkers
  <2>3. IsFiniteSet(paid(r))
    BY <2>2, FS_Subset, SettlementAssumption
  <2>4. \A w \in Rewarded : G[w] = Final[S][w]
    BY <1>1, <1>3, EligibleWorkers
  <2> HIDE DEF G, paid
  <2>5. SumOver(G, paid(r)) = SumOver(Final[S], paid(r))
    BY <2>2, <2>3, <2>4, SumSame
  <2> QED
    BY <2>1, <2>5
<1>7. RewardTree = [r \in Address |->
                      SumOver(G, {w \in Rewarded : rewards[w].recipient = r})]
  BY DEF RewardTree
<1>8. Tree(S, to) = [r \in Address |-> SumOver(Final[S], paid(r))]
  BY DEF Tree
<1> HIDE DEF G, paid
<1>9. RewardTree = Tree(S, to)
  BY <1>6, <1>7, <1>8
<1> QED
  BY <1>5, <1>9

\* In a complete epoch the three tables agree.
LEMMA CompleteMatches ==
  ASSUME Inv PROVE ClaimsMatchRewards
<1>1. SUFFICES ASSUME epoch.settled, ~overlap
               PROVE  /\ epoch.root = IF Leaves(RewardTree) = {} THEN None ELSE RewardTree
                      /\ \A r \in Address :
                           proofs[r] = IF r \in Leaves(RewardTree) THEN RewardTree ELSE None
                      /\ \A w \in Worker : rewards[w] # None =>
                           (rewards[w].recipient # None <=> w \in Eligible(rewards[w].of))
  BY DEF ClaimsMatchRewards
<1>2. Complete
  BY <1>1 DEF Inv, Apart
<1>3. PICK S \in SUBSET Question : \E to \in [Eligible(S) -> Address] :
        /\ rewards = RowsOf(S, to, Eligible(S)) /\ epoch.root = RootOf(Tree(S, to))
        /\ proofs = ProofsOf(Tree(S, to), Leaves(Tree(S, to)))
  BY <1>2 DEF Complete
<1>4. PICK to \in [Eligible(S) -> Address] :
        /\ rewards = RowsOf(S, to, Eligible(S)) /\ epoch.root = RootOf(Tree(S, to))
        /\ proofs = ProofsOf(Tree(S, to), Leaves(Tree(S, to)))
  BY <1>3
<1>5. RewardTree = Tree(S, to)
  BY <1>4, RewardTreeIs
<1>6. \A w \in Worker : rewards[w] # None =>
        (rewards[w].recipient # None <=> w \in Eligible(rewards[w].of))
  BY <1>4, RewardTreeIs
<1>7. epoch.root = IF Leaves(RewardTree) = {} THEN None ELSE RewardTree
  BY <1>4, <1>5 DEF RootOf
<1>8. ASSUME NEW r \in Address
      PROVE  proofs[r] = IF r \in Leaves(RewardTree) THEN RewardTree ELSE None
  BY <1>4, <1>5 DEF ProofsOf
<1> QED
  BY <1>6, <1>7, <1>8

\* Calls that do not overlap: the root of a settled epoch is that of the tree
\* its reward rows make up, each recipient's rewards added up, and merkle_proofs
\* holds a proof of that tree for every leaf and for nobody else
\* (settlement.go, buildMerkleTree).
THEOREM TablesAgree == Spec => []ClaimsMatchRewards
  BY CompleteMatches, AlwaysInv, PTL

\* Calls that do not overlap: a proof and a root read one after the other with
\* no Settle in between fit, also when earlier settlements failed half-way
\* (handler/claims.go).
THEOREM ClaimsFit == Spec => []ServedClaimFits
<1>1. Inv => ServedClaimFits
  BY DEF Inv, Apart, ClaimCalm, ServedClaimFits
<1> QED
  BY <1>1, AlwaysInv, PTL

\* Calls that do not overlap: an epoch with published_at set has on the chain
\* the root it has in the database (onchain.go, PublishMerkleRoot).
THEOREM PublishedIsOnChain == Spec => []PublishedRootOnChain
<1>1. Inv => PublishedRootOnChain
  BY DEF Inv, Apart, PublishedTrue, PublishedRootOnChain
<1> QED
  BY <1>1, AlwaysInv, PTL
=============================================================================
