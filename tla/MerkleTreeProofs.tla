-------------------------- MODULE MerkleTreeProofs --------------------------
(***************************************************************************)
(* Proofs about MerkleTree, for trees of every number of leaves.           *)
(***************************************************************************)
EXTENDS MerkleTree, TLAPS

\* The levels and the proof are sequences of nodes of the set S.
NodesIn(S) == hashes \in Seq(Seq(S)) /\ proof \in Seq(S)

\* Every level is what NewTree makes of the one below it, and none is empty;
\* Proof is called when the top level is the root alone.
Levels ==
  /\ Len(hashes) >= 1
  /\ \A l \in 1..Len(hashes) : Len(hashes[l]) >= 1
  /\ \A l \in 1..(Len(hashes) - 1) : hashes[l + 1] = NextLevel(hashes[l])
  /\ \A i \in 1..Len(hashes[1]) : hashes[1][i] = HashLeaf(i)
  /\ pc # "build" => Len(Top) = 1

\* Where the loops of Proof and Verify stand.
Position ==
  /\ pc \in {"build", "proof", "verify"}
  /\ used \in Nat /\ idx \in Nat
  /\ pc = "build" => proof = <<>>
  /\ pc = "proof" => used < Len(hashes) /\ idx < Len(hashes[used + 1])
  /\ pc = "verify" => used <= Len(proof)

\* p is the way up from the target: its hash, combined with one element of
\* the proof after the other.
PathUp(p) ==
  /\ p[1] = HashLeaf(target)
  /\ \A i \in 1..Len(proof) : p[i + 1] = hashPair(p[i], proof[i])

\* The way up has reached the node Proof is at, and then the root; what Verify
\* has computed is on the way exactly if it started from the target.
Way ==
  pc # "build" =>
    \E p : /\ PathUp(p)
           /\ pc = "proof" => p[Len(proof) + 1] = hashes[used + 1][idx + 1]
           /\ pc = "verify" => /\ p[Len(proof) + 1] = Root
                               /\ (computed = p[used + 1]) <=> (claim = target)

Inv == (\E S : NodesIn(S)) /\ Levels /\ Position /\ Way
----------------------------------------------------------------------------
(* Hashes and levels. *)

\* With one element fixed, the hash of a pair tells its other element.
LEMMA PairInjective ==
  ASSUME NEW a, NEW b, NEW c
  PROVE  (hashPair(a, c) = hashPair(b, c)) <=> (a = b)
<1>1. ASSUME {a, c} = {b, c} PROVE a = b
  <2>1. a \in {b, c} /\ b \in {a, c}
    BY <1>1
  <2> QED
    BY <2>1
<1>2. hashPair(a, c) = hashPair(b, c) => {a, c} = {b, c}
  BY DEF hashPair
<1> QED
  BY <1>1, <1>2

\* The order of a pair does not matter: hashPair sorts.
LEMMA PairSymmetric ==
  ASSUME NEW a, NEW b
  PROVE  hashPair(a, b) = hashPair(b, a)
<1>1. {a, b} = {b, a}
  OBVIOUS
<1> QED
  BY <1>1 DEF hashPair

\* The level above a level of n nodes has n / 2 of them, rounded up.
LEMMA NextLevelType ==
  ASSUME NEW S, NEW level \in Seq(S),
         NEW T, S \subseteq T, \A a, b \in S : hashPair(a, b) \in T
  PROVE  /\ NextLevel(level) \in Seq(T)
         /\ Len(NextLevel(level)) = (Len(level) + 1) \div 2
<1> DEFINE n == (Len(level) + 1) \div 2
<1>1. Len(level) \in Nat /\ n \in Nat
  OBVIOUS
<1>2. ASSUME NEW i \in 1..n PROVE NextLevel(level)[i] \in T
  <2>1. 2*i - 1 \in 1..Len(level)
    BY <1>1
  <2>2. level[2*i - 1] \in S
    BY <2>1
  <2>3. CASE 2*i <= Len(level)
    <3>1. level[2*i] \in S
      BY <2>3
    <3>2. NextLevel(level)[i] = hashPair(level[2*i - 1], level[2*i])
      BY <2>3 DEF NextLevel
    <3> QED
      BY <2>2, <3>1, <3>2
  <2>4. CASE ~(2*i <= Len(level))
    BY <2>2, <2>4 DEF NextLevel
  <2> QED
    BY <2>3, <2>4
<1>3. NextLevel(level) \in [1..n -> T]
  <2>1. NextLevel(level) = [i \in 1..n |-> NextLevel(level)[i]]
    BY DEF NextLevel
  <2> HIDE DEF n
  <2> QED
    BY <1>2, <2>1
<1> HIDE DEF n
<1>4. NextLevel(level) \in Seq(T) /\ Len(NextLevel(level)) = n
  BY <1>1, <1>3
<1> QED
  BY <1>4 DEF n

\* Proof's idx /= 2 is the position of the parent, and Sibling the other node
\* of the parent's pair, if the parent is a pair.
LEMMA ParentOf ==
  ASSUME NEW S, NEW level \in Seq(S), NEW i \in Nat, i < Len(level)
  PROVE  /\ i \div 2 \in Nat /\ i \div 2 < (Len(level) + 1) \div 2
         /\ \/ /\ Sibling(level, i) = <<>>
               /\ NextLevel(level)[i \div 2 + 1] = level[i + 1]
            \/ \E s \in S :
                 /\ Sibling(level, i) = <<s>>
                 /\ NextLevel(level)[i \div 2 + 1] = hashPair(level[i + 1], s)
<1> DEFINE h == i \div 2 + 1
           n == (Len(level) + 1) \div 2
<1>1. Len(level) \in Nat /\ h \in 1..n
  OBVIOUS
<1>2. CASE i % 2 = 0 /\ i + 1 < Len(level)
  <2>1. 2*h = i + 2 /\ 2*h - 1 = i + 1 /\ 2*h <= Len(level)
    BY <1>2
  <2>2. NextLevel(level)[h] = hashPair(level[2*h - 1], level[2*h])
    BY <1>1, <2>1 DEF NextLevel
  <2>3. level[i + 2] \in S
    BY <1>2
  <2>4. Sibling(level, i) = <<level[i + 2]>>
    BY <1>1, <1>2 DEF Sibling
  <2>5. h \in Nat /\ i \div 2 \in Nat /\ i \div 2 < n
    BY <1>1
  <2>6. NextLevel(level)[h] = hashPair(level[i + 1], level[i + 2])
    BY <2>1, <2>2
  <2> HIDE DEF n
  <2> QED
    BY <2>3, <2>4, <2>5, <2>6 DEF n
<1>3. CASE i % 2 = 0 /\ ~(i + 1 < Len(level))
  <2>1. 2*h - 1 = i + 1 /\ ~(2*h <= Len(level))
    BY <1>3
  <2>2. NextLevel(level)[h] = level[2*h - 1]
    BY <1>1, <2>1 DEF NextLevel
  <2> QED
    BY <1>1, <1>3, <2>1, <2>2 DEF Sibling
<1>4. CASE i % 2 # 0
  <2>1. 2*h = i + 1 /\ 2*h - 1 = i /\ 2*h <= Len(level)
    BY <1>4
  <2>2. NextLevel(level)[h] = hashPair(level[2*h - 1], level[2*h])
    BY <1>1, <2>1 DEF NextLevel
  <2>3. level[i] \in S
    BY <1>4, <2>1
  <2>4. NextLevel(level)[h] = hashPair(level[i + 1], level[i])
    BY <2>1, <2>2, PairSymmetric
  <2> QED
    BY <1>1, <1>4, <2>3, <2>4 DEF Sibling
<1> QED
  BY <1>2, <1>3, <1>4
----------------------------------------------------------------------------
(* Every step keeps Inv. *)

\* The hashes of the leaves, and no proof yet.
LEMMA InitInv == Init => Inv
<1> SUFFICES ASSUME Init PROVE Inv
  OBVIOUS
<1>1. PICK n \in 1..MaxLeaves : hashes = <<[i \in 1..n |-> HashLeaf(i)]>>
  BY DEF Init
<1>2. n \in Nat /\ n >= 1
  BY MerkleAssumption
<1> DEFINE S == {HashLeaf(i) : i \in 1..n}
           leaves == [i \in 1..n |-> HashLeaf(i)]
<1>3. leaves \in Seq(S) /\ Len(leaves) = n
  BY <1>2
<1>4. \A i \in 1..n : leaves[i] = HashLeaf(i)
  OBVIOUS
<1>5. hashes = <<leaves>>
  BY <1>1
<1> HIDE DEF S, leaves
<1>6. hashes \in Seq(Seq(S)) /\ Len(hashes) = 1 /\ hashes[1] = leaves
  BY <1>3, <1>5
<1>7. NodesIn(S)
  BY <1>6 DEF NodesIn, Init
<1>8. Levels
  BY <1>2, <1>3, <1>4, <1>6 DEF Levels, Init
<1> QED
  BY <1>7, <1>8 DEF Inv, Position, Way, Init

\* One more level.
LEMMA BuildInv == ASSUME Inv, BuildLevel PROVE Inv'
<1>1. PICK S : NodesIn(S)
  BY DEF Inv
<1> DEFINE T == S \cup {hashPair(a, b) : a \in S, b \in S}
           n == Len(hashes)
<1>2. n \in Nat /\ n >= 1 /\ Top \in Seq(S) /\ Top = hashes[n]
  BY <1>1 DEF NodesIn, Inv, Levels, Top
<1>3. S \subseteq T /\ \A a, b \in S : hashPair(a, b) \in T
  OBVIOUS
<1> HIDE DEF T
<1>4. NextLevel(Top) \in Seq(T) /\ Len(NextLevel(Top)) = (Len(Top) + 1) \div 2
  BY <1>2, <1>3, NextLevelType
<1>5. hashes \in Seq(Seq(T)) /\ proof \in Seq(T)
  BY <1>1, <1>3 DEF NodesIn
<1>6. /\ hashes' \in Seq(Seq(T)) /\ Len(hashes') = n + 1
      /\ hashes'[n + 1] = NextLevel(Top)
      /\ \A l \in 1..n : hashes'[l] = hashes[l]
  BY <1>2, <1>4, <1>5 DEF BuildLevel
<1>7. NodesIn(T)'
  <2>1. proof' \in Seq(T)
    BY <1>5 DEF BuildLevel
  <2> QED
    BY <1>6, <2>1 DEF NodesIn
<1>8. Len(Top) \in Nat /\ Len(Top) > 1
  BY <1>2 DEF BuildLevel
<1>9. Len(NextLevel(Top)) >= 1
  BY <1>4, <1>8
<1>10. Levels'
  <2>1. ASSUME NEW l \in 1..(n + 1) PROVE Len(hashes'[l]) >= 1
    <3>1. l \in 1..n \/ l = n + 1
      BY <1>2
    <3> QED
      BY <1>6, <1>9, <3>1 DEF Inv, Levels
  <2>2. ASSUME NEW l \in 1..n PROVE hashes'[l + 1] = NextLevel(hashes'[l])
    <3>1. CASE l = n
      BY <1>2, <1>6, <3>1
    <3>2. CASE l # n
      <4>1. l \in 1..(n - 1) /\ l + 1 \in 1..n
        BY <1>2, <3>2
      <4> QED
        BY <1>6, <4>1 DEF Inv, Levels
    <3> QED
      BY <3>1, <3>2
  <2>3. hashes'[1] = hashes[1]
    BY <1>2, <1>6
  <2>4. pc' = "build"
    BY DEF BuildLevel
  <2> QED
    BY <1>2, <1>6, <2>1, <2>2, <2>3, <2>4 DEF Inv, Levels
<1> QED
  BY <1>7, <1>10 DEF Inv, Position, Way, BuildLevel

\* Proof finds the leaf: the way up is its hash alone.
LEMMA FindInv == ASSUME Inv, NEW leaf \in 0..MaxLeaves, FindLeaf(leaf) PROVE Inv'
<1>1. PICK S : NodesIn(S)
  BY DEF Inv
<1>2. PICK i \in 1..Len(hashes[1]) : hashes[1][i] = HashLeaf(leaf) /\ idx' = i - 1
  BY DEF FindLeaf
<1>3. Len(hashes) \in Nat /\ Len(hashes) >= 1 /\ Len(hashes[1]) \in Nat
  BY <1>1 DEF NodesIn, Inv, Levels
<1>4. NodesIn(S)' /\ Levels'
  BY <1>1 DEF NodesIn, Inv, Levels, FindLeaf, Top
<1>5. proof' = <<>> /\ Len(proof') = 0 /\ used' = 0 /\ hashes' = hashes /\ pc' = "proof"
      /\ target' = leaf
  BY DEF Inv, Position, FindLeaf
<1>6. Position'
  BY <1>2, <1>3, <1>5 DEF Position
<1>7. Way'
  <2> DEFINE p == [j \in {1} |-> HashLeaf(leaf)]
  <2>1. p[1] = HashLeaf(target')
    BY <1>5
  <2>2. PathUp(p)'
    BY <1>5, <2>1 DEF PathUp
  <2>3. p[Len(proof') + 1] = hashes'[used' + 1][idx' + 1]
    BY <1>2, <1>5, <2>1
  <2> HIDE DEF p
  <2> QED
    BY <1>5, <2>2, <2>3 DEF Way
<1> QED
  BY <1>4, <1>6, <1>7 DEF Inv

\* Proof goes up one level.
LEMMA ProofInv == ASSUME Inv, ProofLevel PROVE Inv'
<1>1. PICK S : NodesIn(S)
  BY DEF Inv
<1> DEFINE level == hashes[used + 1]
           above == hashes[used + 2]
           k == Len(proof)
<1>2. used \in Nat /\ idx \in Nat /\ Len(hashes) \in Nat /\ used < Len(hashes) - 1
      /\ pc = "proof" /\ idx < Len(level)
  BY <1>1 DEF Inv, Position, ProofLevel, NodesIn
<1>3. level \in Seq(S) /\ above = NextLevel(level)
  <2>1. used + 1 \in 1..(Len(hashes) - 1) /\ used + 1 \in 1..Len(hashes)
    BY <1>2
  <2>2. above = hashes[(used + 1) + 1]
    BY <1>2
  <2>3. level \in Seq(S)
    BY <1>1, <2>1 DEF NodesIn
  <2>4. hashes[(used + 1) + 1] = NextLevel(hashes[used + 1])
    BY <2>1 DEF Inv, Levels
  <2> QED
    BY <2>2, <2>3, <2>4
<1>4. Len(above) = (Len(level) + 1) \div 2
  <2> DEFINE T == S \cup {hashPair(a, b) : a \in S, b \in S}
  <2>1. S \subseteq T /\ \A a, b \in S : hashPair(a, b) \in T
    OBVIOUS
  <2> HIDE DEF T, level, above
  <2> QED
    BY <1>3, <2>1, NextLevelType
<1>5. PICK p : PathUp(p) /\ p[k + 1] = level[idx + 1]
  BY <1>2 DEF Inv, Way
<1>6. /\ hashes' = hashes /\ pc' = "proof" /\ target' = target
      /\ used' = used + 1 /\ idx' = idx \div 2
      /\ proof' = proof \o Sibling(level, idx)
  BY <1>2 DEF ProofLevel
<1>7. k \in Nat /\ proof \in Seq(S)
  BY <1>1 DEF NodesIn
<1> HIDE DEF level
<1>8. /\ idx' \in Nat /\ idx' < Len(above)
      /\ \/ Sibling(level, idx) = <<>> /\ above[idx' + 1] = level[idx + 1]
         \/ \E s \in S : /\ Sibling(level, idx) = <<s>>
                         /\ above[idx' + 1] = hashPair(level[idx + 1], s)
  BY <1>2, <1>3, <1>4, <1>6, ParentOf
<1>9. hashes'[used' + 1] = above
  BY <1>2, <1>6
<1>10. Position'
  <2>1. used' \in Nat /\ used' < Len(hashes')
    BY <1>2, <1>6
  <2>2. idx' \in Nat /\ idx' < Len(hashes'[used' + 1])
    BY <1>8, <1>9
  <2> QED
    BY <1>6, <2>1, <2>2 DEF Position
<1>11. Levels'
  BY <1>2, <1>6 DEF Inv, Levels, Top
<1>12. hashes' \in Seq(Seq(S))
  BY <1>1, <1>6 DEF NodesIn
<1> HIDE DEF above
<1>13. CASE Sibling(level, idx) = <<>> /\ above[idx' + 1] = level[idx + 1]
  <2>1. proof' = proof
    BY <1>6, <1>7, <1>13
  <2>2. PathUp(p)'
    BY <1>5, <1>6, <2>1 DEF PathUp
  <2>3. p[Len(proof') + 1] = hashes'[used' + 1][idx' + 1]
    BY <1>5, <1>9, <1>13, <2>1
  <2>4. Way'
    BY <1>6, <2>2, <2>3 DEF Way
  <2>5. NodesIn(S)'
    BY <1>7, <1>12, <2>1 DEF NodesIn
  <2> QED
    BY <1>10, <1>11, <2>4, <2>5 DEF Inv
<1>14. ASSUME NEW s \in S, Sibling(level, idx) = <<s>>,
              above[idx' + 1] = hashPair(level[idx + 1], s)
       PROVE  Inv'
  <2>1. /\ proof' \in Seq(S) /\ Len(proof') = k + 1 /\ proof'[k + 1] = s
        /\ \A i \in 1..k : proof'[i] = proof[i]
    BY <1>6, <1>7, <1>14
  <2>2. PICK q : /\ q[1] = p[1] /\ q[k + 2] = hashPair(p[k + 1], s)
                 /\ \A i \in 1..(k + 1) : q[i] = p[i]
    <3> DEFINE q == [i \in 1..(k + 2) |->
                       IF i = k + 2 THEN hashPair(p[k + 1], s) ELSE p[i]]
    <3>1. q[1] = p[1] /\ q[k + 2] = hashPair(p[k + 1], s)
          /\ \A i \in 1..(k + 1) : q[i] = p[i]
      BY <1>7
    <3> QED
      BY <3>1
  <2> HIDE DEF k
  <2>3. ASSUME NEW i \in 1..(k + 1) PROVE q[i + 1] = hashPair(q[i], proof'[i])
    <3>1. CASE i = k + 1
      <4>1. i + 1 = k + 2 /\ q[i] = p[k + 1]
        BY <1>7, <2>2, <3>1
      <4> QED
        BY <2>1, <2>2, <3>1, <4>1
    <3>2. CASE i # k + 1
      <4>1. i \in 1..k /\ i + 1 \in 1..(k + 1)
        BY <1>7, <3>2
      <4>2. p[i + 1] = hashPair(p[i], proof[i])
        BY <1>5, <4>1 DEF PathUp, k
      <4> QED
        BY <2>1, <2>2, <4>1, <4>2
    <3> QED
      BY <3>1, <3>2
  <2>4. PathUp(q)'
    BY <1>5, <1>6, <2>1, <2>2, <2>3 DEF PathUp
  <2>5. q[Len(proof') + 1] = hashes'[used' + 1][idx' + 1]
    <3>1. Len(proof') + 1 = k + 2
      BY <1>7, <2>1
    <3> QED
      BY <1>5, <1>9, <1>14, <2>2, <3>1
  <2>6. Way'
    BY <1>6, <2>4, <2>5 DEF Way
  <2>7. NodesIn(S)'
    BY <1>12, <2>1 DEF NodesIn
  <2> QED
    BY <1>10, <1>11, <2>6, <2>7 DEF Inv
<1> QED
  BY <1>8, <1>13, <1>14

\* Proof has come to the root; Verify starts with the claim's hash.
LEMMA StartVerifyInv ==
  ASSUME Inv, NEW leaf \in 0..MaxLeaves, StartVerify(leaf)
  PROVE  Inv'
<1>1. PICK S : NodesIn(S)
  BY DEF Inv
<1>2. /\ pc = "proof" /\ pc' = "verify" /\ used' = 0 /\ claim' = leaf
      /\ computed' = HashLeaf(leaf) /\ used = Len(hashes) - 1
      /\ hashes' = hashes /\ proof' = proof /\ idx' = idx /\ target' = target
  BY DEF StartVerify
<1>3. Len(hashes) \in Nat /\ Len(proof) \in Nat /\ Len(Top) = 1
      /\ hashes[used + 1] = Top /\ idx = 0
  <2>1. Len(hashes) \in Nat /\ Len(proof) \in Nat
    BY <1>1 DEF NodesIn
  <2>2. used + 1 = Len(hashes) /\ hashes[used + 1] = Top
    BY <1>2, <2>1 DEF Top
  <2>3. Len(Top) = 1
    BY <1>2 DEF Inv, Levels
  <2>4. idx \in Nat /\ idx < Len(Top)
    BY <1>2, <2>2 DEF Inv, Position
  <2> QED
    BY <2>1, <2>2, <2>3, <2>4
<1>4. PICK p : PathUp(p) /\ p[Len(proof) + 1] = hashes[used + 1][idx + 1]
  BY <1>2 DEF Inv, Way
<1>5. p[Len(proof) + 1] = Root
  BY <1>3, <1>4 DEF Root
<1>6. Root' = Root
  BY <1>2 DEF Root, Top
<1>7. (HashLeaf(leaf) = p[1]) <=> (leaf = target)
  BY <1>4 DEF PathUp, HashLeaf
<1>8. PathUp(p)'
  BY <1>2, <1>4 DEF PathUp
<1>9. Way'
  BY <1>2, <1>5, <1>6, <1>7, <1>8 DEF Way
<1>10. Position'
  BY <1>2, <1>3 DEF Inv, Position
<1>11. NodesIn(S)' /\ Levels'
  BY <1>1, <1>2 DEF Inv, NodesIn, Levels, Top
<1> QED
  BY <1>9, <1>10, <1>11 DEF Inv

\* Verify combines one more element: it stays on the way, or off it.
LEMMA VerifyInv == ASSUME Inv, VerifyStep PROVE Inv'
<1>1. PICK S : NodesIn(S)
  BY DEF Inv
<1>2. /\ pc = "verify" /\ pc' = "verify" /\ used < Len(proof) /\ used' = used + 1
      /\ computed' = hashPair(computed, proof[used + 1]) /\ claim' = claim
      /\ hashes' = hashes /\ proof' = proof /\ idx' = idx /\ target' = target
  BY DEF VerifyStep
<1>3. Len(proof) \in Nat /\ used \in Nat /\ used + 1 \in 1..Len(proof)
  BY <1>1, <1>2 DEF Inv, Position, NodesIn
<1>4. PICK p : /\ PathUp(p) /\ p[Len(proof) + 1] = Root
               /\ (computed = p[used + 1]) <=> (claim = target)
  BY <1>2 DEF Inv, Way
<1>5. p[(used + 1) + 1] = hashPair(p[used + 1], proof[used + 1])
  BY <1>3, <1>4 DEF PathUp
<1>6. (computed' = p[used' + 1]) <=> (claim' = target')
  BY <1>2, <1>4, <1>5, PairInjective
<1>7. PathUp(p)' /\ p[Len(proof') + 1] = Root'
  BY <1>2, <1>4 DEF PathUp, Root, Top
<1>8. Way'
  BY <1>2, <1>6, <1>7 DEF Way
<1>9. Position'
  BY <1>2, <1>3 DEF Inv, Position
<1>10. NodesIn(S)' /\ Levels'
  BY <1>1, <1>2 DEF Inv, NodesIn, Levels, Top
<1> QED
  BY <1>8, <1>9, <1>10 DEF Inv

\* Inv is inductive.
LEMMA NextInv == Inv /\ [Next]_vars => Inv'
<1> SUFFICES ASSUME Inv, [Next]_vars PROVE Inv'
  OBVIOUS
<1>1. CASE UNCHANGED vars
  <2>1. PICK S : NodesIn(S)
    BY DEF Inv
  <2>2. NodesIn(S)'
    BY <1>1, <2>1 DEF NodesIn, vars
  <2>4. Levels' /\ Position'
    BY <1>1 DEF Inv, Levels, Position, Top, vars
  <2>5. \A p : PathUp(p) => PathUp(p)'
    BY <1>1 DEF PathUp, vars
  <2>6. Way'
    BY <1>1, <2>5 DEF Inv, Way, Root, Top, vars
  <2> QED
    BY <2>2, <2>4, <2>6 DEF Inv
<1>2. CASE Next
  BY <1>2, BuildInv, ProofInv, VerifyInv, FindInv, StartVerifyInv DEF Next
<1> QED
  BY <1>1, <1>2

\* Inv holds in every reachable state.
LEMMA AlwaysInv == Spec => []Inv
  BY InitInv, NextInv, PTL DEF Spec

\* In a tree of any number of leaves, Proof's position is one of the level's at
\* every level: NewTree's rounding up and Proof's idx /= 2 agree, and no index
\* is out of range.
THEOREM PositionsInRange == Spec => []PositionInLevel
<1>1. Inv => PositionInLevel
  BY DEF Inv, Position, PositionInLevel
<1> QED
  BY <1>1, AlwaysInv, PTL

\* In a tree of any number of leaves, Verify accepts the proof of a leaf for
\* that leaf and for no other: a recipient's proof claims the recipient's
\* amount, and it always does.
THEOREM ProofsAreExact == Spec => []AcceptsExactlyItsLeaf
<1>1. Inv => AcceptsExactlyItsLeaf
  BY DEF Inv, Way, AcceptsExactlyItsLeaf, Verified
<1> QED
  BY <1>1, AlwaysInv, PTL
=============================================================================
