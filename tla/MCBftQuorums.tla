----------------------------- MODULE MCBftQuorums ------------------------------
(***************************************************************************)
(* The instance of BftQuorums for TLC.  Two of three producers are the     *)
(* smallest quorums that leave somebody out.  The code asks for more than  *)
(* two thirds; of that, agreement of producers that follow the protocol    *)
(* needs only that two quorums intersect, and smaller quorums allow more   *)
(* behaviours.                                                             *)
(***************************************************************************)
EXTENDS BftQuorums, TLC

CONSTANTS p1, p2, p3

MCProducer == {p1, p2, p3}

MCQuorum == {Q \in SUBSET MCProducer : Cardinality(Q) >= 2}

MCLeader == [t \in Term |-> IF t % 2 = 0 THEN p1 ELSE p2]
=============================================================================
