--------------------------- MODULE MCComputations ---------------------------
(***************************************************************************)
(* The two computations that only depend on their input, ScoringRound and  *)
(* MerkleTree, side by side: replies arrive and are scored, or a tree of   *)
(* some leaves is built, proved from and verified.  They share no state,   *)
(* so a behaviour takes the steps of one of them, the other staying at its *)
(* start.                                                                  *)
(***************************************************************************)
EXTENDS ScoringRound, MerkleTree

BothInit == RoundInit /\ Init

BothNext ==
  \/ RoundNext /\ Len(hashes[1]) = 1 /\ pc = "build" /\ UNCHANGED vars
  \/ Next /\ Arrived = 0 /\ UNCHANGED replies

BothSpec == BothInit /\ [][BothNext]_<<replies, vars>>
=============================================================================
