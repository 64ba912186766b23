----------------------------- MODULE DurableChain -----------------------------
(***************************************************************************)
(* What a node promises of its chain, whatever happens inside it: the      *)
(* durable head may move to another fork at any time, but never off the    *)
(* irreversible block; irreversibility moves forward along the chain of    *)
(* the durable head; and a crash may make the node forget how much of its  *)
(* chain is irreversible, but not lose any of it.                          *)
(*                                                                         *)
(* The promise is the one of doc/psidk/src/specifications/blockchain/      *)
(* peer-consensus/README.md: "An irreversible block cannot be forked out". *)
(***************************************************************************)
CONSTANTS Block, Root, IsAncestor(_, _)

VARIABLES tip, irreversible

Init == tip = Root /\ irreversible = Root

\* A block is produced, or a step of a fork switch reaches the disk.
Move ==
  /\ \E b \in Block : IsAncestor(irreversible, b) /\ tip' = b
  /\ UNCHANGED irreversible

\* More of the chain becomes irreversible.
Finalize ==
  /\ \E b \in Block : /\ IsAncestor(irreversible, b) /\ IsAncestor(b, tip)
                      /\ irreversible' = b
  /\ UNCHANGED tip

\* The node restarts from disk, and may have to learn again what is irreversible.
Recover ==
  /\ \E b \in Block : IsAncestor(b, irreversible) /\ irreversible' = b
  /\ UNCHANGED tip

Next == Move \/ Finalize \/ Recover

Spec == Init /\ [][Next]_<<tip, irreversible>>
=============================================================================
