------------------------------- MODULE MCForkDb -------------------------------
(* Small block trees for ForkDb. *)
EXTENDS ForkDb

\* parent, number, term of each block; ids are chosen so that ties in term and
\* number are broken both ways.
Tree ==
  [b \in 1..10 |->
    CASE b = 1  -> [p |-> 1, n |-> 1, t |-> 0]
      [] b = 2  -> [p |-> 1, n |-> 2, t |-> 1]
      [] b = 3  -> [p |-> 2, n |-> 3, t |-> 1]
      [] b = 4  -> [p |-> 3, n |-> 4, t |-> 1]
      [] b = 5  -> [p |-> 4, n |-> 5, t |-> 2]   \* does not execute
      [] b = 6  -> [p |-> 2, n |-> 3, t |-> 1]   \* ties with 3
      [] b = 7  -> [p |-> 6, n |-> 4, t |-> 2]   \* does not execute
      [] b = 8  -> [p |-> 7, n |-> 5, t |-> 2]
      [] b = 9  -> [p |-> 3, n |-> 4, t |-> 2]   \* own
      [] b = 10 -> [p |-> 2, n |-> 3, t |-> 2]]  \* own

MCBlock == DOMAIN Tree
MCNum   == [b \in MCBlock |-> Tree[b].n]
MCTerm  == [b \in MCBlock |-> Tree[b].t]

RECURSIVE AncestorAt(_, _)
AncestorAt(b, n) == IF Tree[b].n = n THEN b ELSE AncestorAt(Tree[b].p, n)

MCChain == [b \in MCBlock |-> [n \in 1..Tree[b].n |-> AncestorAt(b, n)]]
=============================================================================
