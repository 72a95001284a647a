----------------------------- MODULE MerkleTree -----------------------------
(***************************************************************************)
(* The Merkle tree of an epoch (merkle/tree.go): NewTree, Proof and Verify *)
(* as the loops they are, one iteration to a step.                         *)
(*                                                                         *)
(* Keccak256 is taken to be free of collisions: the hash of a leaf is the  *)
(* leaf, tagged, and the hash of a pair is the tagged pair, which is a set *)
(* because hashPair sorts its arguments.  NewTree sorts the hashes of the  *)
(* leaves first, so a tree depends on how many leaves there are and not on *)
(* the order they come in: the leaves of a tree are 1 to n, in the order   *)
(* of their hashes.  A leaf is an address with an amount; 0 stands for a   *)
(* leaf that is not in the tree, such as a known address with another      *)
(* amount.                                                                 *)
(***************************************************************************)
EXTENDS Integers, Sequences

CONSTANT MaxLeaves  \* bound: recipients of an epoch

ASSUME MerkleAssumption == MaxLeaves \in Nat \ {0}

VARIABLES pc,
          hashes,    \* the levels of the tree, the leaves first
          target,    \* the leaf the proof is for
          idx,       \* its position in the level, from 0
          proof,
          claim,     \* the leaf to be verified with the proof
          computed,  \* its hash, combined with the proof so far
          used       \* elements of the proof used so far

vars == <<pc, hashes, target, idx, proof, claim, computed, used>>

HashLeaf(leaf) == <<"leaf", leaf>>

hashPair(a, b) == <<"pair", {a, b}>>

Top == hashes[Len(hashes)]

Root == Top[1]

\* Mutant: a node without a neighbour is dropped.
NextLevelDropped(current) ==
  [i \in 1..(Len(current) \div 2) |-> hashPair(current[2*i - 1], current[2*i])]

\* Neighbours in pairs; a node without one is promoted.
NextLevel(current) ==
  [i \in 1..((Len(current) + 1) \div 2) |->
     IF 2*i <= Len(current) THEN hashPair(current[2*i - 1], current[2*i])
                            ELSE current[2*i - 1]]

Init ==
  /\ pc = "build" /\ target = 0 /\ idx = 0 /\ proof = <<>>
  /\ claim = 0 /\ computed = HashLeaf(0) /\ used = 0
  /\ \E n \in 1..MaxLeaves : hashes = <<[i \in 1..n |-> HashLeaf(i)]>>

BuildLevel ==
  /\ pc = "build" /\ Len(Top) > 1
  /\ hashes' = Append(hashes, NextLevel(Top))
  /\ UNCHANGED <<pc, target, idx, proof, claim, computed, used>>

\* Proof(leaf) for a leaf of the tree; for any other it returns an error.
FindLeaf(leaf) ==
  /\ pc = "build" /\ Len(Top) = 1
  /\ \E i \in 1..Len(hashes[1]) :
       hashes[1][i] = HashLeaf(leaf) /\ idx' = i - 1
  /\ target' = leaf /\ pc' = "proof" /\ used' = 0
  /\ UNCHANGED <<hashes, proof, claim, computed>>

\* Mutant: the node itself where there is no neighbour.
SiblingOrSelf(layer, i) ==
  IF i % 2 = 0 THEN IF i + 1 < Len(layer) THEN <<layer[i + 2]>> ELSE <<layer[i + 1]>>
               ELSE <<layer[i]>>

\* What a level adds to the proof of position i (counted from 0).
Sibling(layer, i) ==
  IF i % 2 = 0 THEN IF i + 1 < Len(layer) THEN <<layer[i + 2]>> ELSE <<>>
               ELSE <<layer[i]>>

\* One iteration over the levels below the root; used counts them here.
ProofLevel ==
  /\ pc = "proof" /\ used < Len(hashes) - 1
  /\ proof' = proof \o Sibling(hashes[used + 1], idx)
  /\ idx' = idx \div 2
  /\ used' = used + 1
  /\ UNCHANGED <<pc, hashes, target, claim, computed>>

\* Verify(proof, root, HashLeaf(leaf)), by anyone and for any leaf.
StartVerify(leaf) ==
  /\ pc = "proof" /\ used = Len(hashes) - 1
  /\ claim' = leaf /\ computed' = HashLeaf(leaf) /\ used' = 0 /\ pc' = "verify"
  /\ UNCHANGED <<hashes, target, idx, proof>>

VerifyStep ==
  /\ pc = "verify" /\ used < Len(proof)
  /\ computed' = hashPair(computed, proof[used + 1])
  /\ used' = used + 1
  /\ UNCHANGED <<pc, hashes, target, idx, proof, claim>>

Next ==
  \/ BuildLevel \/ ProofLevel \/ VerifyStep
  \/ \E leaf \in 0..MaxLeaves : FindLeaf(leaf) \/ StartVerify(leaf)

Spec == Init /\ [][Next]_vars

Verified == pc = "verify" /\ used = Len(proof)
----------------------------------------------------------------------------
\* The proof of a leaf is accepted for that leaf and for no other, in trees of
\* every shape, levels with a promoted node included (NewTree, Proof, Verify).
AcceptsExactlyItsLeaf == Verified => ((computed = Root) <=> (claim = target))

\* While Proof walks up, the leaf's position is one of the level's, so that
\* layer[idx+1] and layer[idx-1] are in range (Proof's idx /= 2 and NewTree's
\* rounding up have to agree).
PositionInLevel == pc = "proof" => idx < Len(hashes[used + 1])
=============================================================================
