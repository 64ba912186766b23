--------------------------------- MODULE MCCft ---------------------------------
(***************************************************************************)
(* Instances of Cft for TLC.  The producers are interchangeable as long as *)
(* no two blocks have the same term and number, that is, while             *)
(* OneChainPerTerm holds: Rank decides nothing before.                     *)
(***************************************************************************)
EXTENDS Cft, TLC

MCRank ==
  CHOOSE f \in [Producer -> 1..Cardinality(Producer)] :
    \A p, q \in Producer : f[p] = f[q] => p = q

Symmetry == Permutations(Producer)
=============================================================================
