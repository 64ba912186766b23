------------------------------- MODULE MCPeerSync -------------------------------
(***************************************************************************)
(* An instance of PeerSync for TLC.                                        *)
(***************************************************************************)
EXTENDS PeerSync, TLC

\* 1 - 2 - 3, and the preferred fork 1 - 4 - 5.
Tree == (1 :> 0) @@ (2 :> 1) @@ (3 :> 2) @@ (4 :> 1) @@ (5 :> 4)
At(b, c) == [head |-> b, commit |-> c]

\* Two new nodes, a new node and one with blocks, nodes on two forks, and a
\* node that has committed a block of the fork that the other is not on.
Pairs == {<<At(0, 0), At(0, 0)>>, <<At(0, 0), At(2, 1)>>,
          <<At(1, 1), At(2, 1)>>, <<At(3, 1), At(4, 4)>>}
=============================================================================
