------------------------------ MODULE BftQuorums -------------------------------
(***************************************************************************)
(* Why the byzantine fault tolerant consensus is safe: the promises that   *)
(* producers make to each other by view changes, prepares and commits      *)
(* (libraries/net/include/psibase/bft.hpp), for any number of producers    *)
(* that follow the protocol.                                               *)
(*                                                                         *)
(* What a node has received is not part of the state: a step that needs    *)
(* messages may be taken once they have been sent.  So every message may   *)
(* be lost, delayed, duplicated and overtaken, and a node may stop at any  *)
(* point.  Module Bft has the handlers in full, for few producers.         *)
(*                                                                         *)
(* Operators marked `Bug:' are variants of the definition that follows     *)
(* with a mistake in them; nothing uses them, they confirm that the        *)
(* properties notice such a mistake.                                       *)
(***************************************************************************)
EXTENDS Integers, Sequences, FiniteSets

CONSTANTS
  Producer,  \* the active producers
  Quorum,    \* the sets of producers that reach the threshold
  Leader,    \* Leader[t]: the producer that leads term t
  Term,      \* the terms
  Id,        \* the ids of blocks, apart from the number that they start with
  MaxBlocks  \* bound on the number of blocks produced

\* ProducerSet::threshold: more than two thirds, so two quorums share a producer.
ASSUME QuorumAssumption ==
  /\ Quorum \subseteq SUBSET Producer
  /\ \A P, Q \in Quorum : P \cap Q # {}

ASSUME TermAssumption ==
  Term \subseteq Nat /\ 0 \in Term /\ Id \subseteq Nat /\ Leader \in [Term -> Producer]

ASSUME BoundAssumption == MaxBlocks \in Nat

VARIABLES
  term,           \* term[p]: current_term
  best_prepared,  \* best_prepared[p]
  best_confirm,   \* best_confirm[p]
  blocks,         \* the blocks that have been produced
  views,          \* the ViewChangeMessages that have been sent
  prepares,       \* <<p, b>>: p has sent a PrepareMessage for b
  commits         \* <<p, b>>: p has sent a CommitMessage for b

vars == <<term, best_prepared, best_confirm, blocks, views, prepares, commits>>

-----------------------------------------------------------------------------
(* Blocks: the headers from the first block after the committed root on. *)

Header == [term : Term, id : Id]

Block == Seq(Header)

\* The root, and the empty id of "no block".
Genesis == <<>>

BlockTerm(b) == IF b = Genesis THEN 0 ELSE b[Len(b)].term

\* is_ancestor
Prefix(b, c) == Len(b) <= Len(c) /\ \A i \in 1..Len(b) : b[i] = c[i]

Comparable(b, c) == Prefix(b, c) \/ Prefix(c, b)

IdBefore(b, c) == b # Genesis /\ c # Genesis /\ b[Len(b)].id < c[Len(c)].id

\* BlockHeaderState::order, by_best_prepared: the term, then the id, which starts with
\* the block number.
Before(b, c) ==
  \/ BlockTerm(b) < BlockTerm(c)
  \/ /\ BlockTerm(b) = BlockTerm(c)
     /\ Len(b) < Len(c) \/ (Len(b) = Len(c) /\ IdBefore(b, c))

Later(b, c) == IF Before(b, c) THEN c ELSE b

-----------------------------------------------------------------------------
(* Quorums of messages *)

View == [term : Term, producer : Producer, best : Block]

PreparedBy(Q, b) == \A p \in Q : <<p, b>> \in prepares

CommittedBy(Q, b) == \A p \in Q : <<p, b>> \in commits

Prepared(b) == \E Q \in Quorum : PreparedBy(Q, b)

Committed(b) == \E Q \in Quorum : CommittedBy(Q, b)

\* Bug: view changes with a better block count towards the quorum as well.
IgnoresBetter(v) ==
  /\ v.producer = Leader[v.term]
  /\ \E Q \in Quorum : \A p \in Q : \E w \in views : w.producer = p /\ w.term = v.term

\* get_subtree_from_leader, is_term_ready: the leader's view change v is at least as good
\* as those of a quorum.
is_term_ready(v) ==
  /\ v.producer = Leader[v.term]
  /\ \E Q \in Quorum : \A p \in Q : \E w \in views :
       w.producer = p /\ w.term = v.term /\ ~Before(v.best, w.best)

\* Bug: another fork is allowed in the term of the last confirmation.
AllowsSameTerm(p, b) ==
  /\ best_confirm[p] # Genesis
  /\ ~Comparable(best_confirm[p], b)
  /\ BlockTerm(best_confirm[p]) > BlockTerm(b)

\* Neither this block nor the last confirmed one is a fork, or the term is a new one.
is_forbidden_fork(p, b) ==
  /\ best_confirm[p] # Genesis
  /\ ~Comparable(best_confirm[p], b)
  /\ BlockTerm(best_confirm[p]) >= BlockTerm(b)

\* Bug: a block of an earlier term is confirmed as well.
ConfirmsLate(p, b) == BlockTerm(b) <= term[p] /\ ~is_forbidden_fork(p, b)

\* can_prepare and can_commit.  The block itself shows that its leader's term was ready.
CanConfirm(p, b) == BlockTerm(b) = term[p] /\ ~is_forbidden_fork(p, b)

-----------------------------------------------------------------------------
(* Steps of a producer *)

\* Bug: the view change reports no block.
ReportsNothing(p, t) ==
  views' = views \cup {[term |-> t, producer |-> p, best |-> Genesis]}

\* make_view_change and sync_current_term: p announces its best prepared block, when it
\* enters a term or, as the leader, when it has learned of a better block.
sync_current_term(p, t) ==
  views' = views \cup {[term |-> t, producer |-> p, best |-> best_prepared[p]]}

\* set_view: a timeout, other producers' views or a block make p enter a later term.
set_view(p, t) ==
  /\ t > term[p]
  /\ term' = [term EXCEPT ![p] = t]
  /\ sync_current_term(p, t)
  /\ UNCHANGED <<best_prepared, best_confirm, blocks, prepares, commits>>

\* set_root: the leader repeats its view change.
set_root(p) ==
  /\ p = Leader[term[p]]
  /\ sync_current_term(p, term[p])
  /\ UNCHANGED <<term, best_prepared, best_confirm, blocks, prepares, commits>>

\* start_leader, finish_block: the leader builds in the subtree of its view change.
ProduceBlock(p, b, h) ==
  /\ h.term = term[p] /\ Cardinality(blocks) < MaxBlocks
  /\ b \in blocks \cup {Genesis} /\ BlockTerm(b) <= term[p]
  /\ \E v \in views :
       /\ v.term = term[p] /\ v.producer = p /\ is_term_ready(v)
       /\ Prefix(v.best, b)
  /\ \A c \in blocks : c[Len(c)].id # h.id
  /\ blocks' = blocks \cup {Append(b, h)}
  /\ UNCHANGED <<term, best_prepared, best_confirm, views, prepares, commits>>

\* on_accept_block, on_produce_block: do_prepare
Prepare(p, b) ==
  /\ b \in blocks /\ CanConfirm(p, b)
  /\ best_confirm' = [best_confirm EXCEPT ![p] = Later(@, b)]
  /\ prepares' = prepares \cup {<<p, b>>}
  /\ UNCHANGED <<term, best_prepared, blocks, views, commits>>

\* on_prepare, when a quorum has prepared the block, and load_prepares
on_prepare(p, b) ==
  /\ Prepared(b)
  /\ best_prepared' = [best_prepared EXCEPT ![p] = Later(@, b)]
  /\ \/ /\ CanConfirm(p, b)
        /\ best_confirm' = [best_confirm EXCEPT ![p] = Later(@, b)]
        /\ commits' = commits \cup {<<p, b>>}
     \/ UNCHANGED <<best_confirm, commits>>
  /\ UNCHANGED <<term, blocks, views, prepares>>

\* on_commit and validate_aux_consensus_data, when a quorum has committed the block
on_commit(p, b) ==
  /\ Committed(b)
  /\ best_prepared' = [best_prepared EXCEPT ![p] = Later(@, b)]
  /\ UNCHANGED <<term, best_confirm, blocks, views, prepares, commits>>

Init ==
  /\ term = [p \in Producer |-> 0]
  /\ best_prepared = [p \in Producer |-> Genesis]
  /\ best_confirm = [p \in Producer |-> Genesis]
  /\ views = [term : {0}, producer : Producer, best : {Genesis}]
  /\ blocks = {} /\ prepares = {} /\ commits = {}

Next ==
  \E p \in Producer :
    \/ \E t \in Term : set_view(p, t)
    \/ set_root(p)
    \/ \E b \in blocks \cup {Genesis}, h \in Header : ProduceBlock(p, b, h)
    \/ \E b \in blocks : Prepare(p, b) \/ on_prepare(p, b) \/ on_commit(p, b)

Spec == Init /\ [][Next]_vars

-----------------------------------------------------------------------------
(* Properties *)

\* The variables have their types, and every message is about a block that exists.
TypeOK ==
  /\ term \in [Producer -> Term]
  /\ best_prepared \in [Producer -> blocks \cup {Genesis}]
  /\ best_confirm \in [Producer -> blocks \cup {Genesis}]
  /\ blocks \subseteq Block \ {Genesis}
  /\ views \subseteq View /\ \A v \in views : v.best \in blocks \cup {Genesis}
  /\ prepares \subseteq Producer \X blocks
  /\ commits \subseteq Producer \X blocks

\* The blocks of one term that quorums have prepared are on one chain, although the leader
\* may produce blocks of several forks in it (is_forbidden_fork).
OnePreparedChain ==
  \A b, c \in blocks :
    Prepared(b) /\ Prepared(c) /\ BlockTerm(b) = BlockTerm(c) => Comparable(b, c)

\* Once a quorum has sent commits for a block, whoever has received them, every block of a
\* later term is built on it: no view that ends in a leader's term being ready forgets it.
CommittedIsFinal ==
  \A b, c \in blocks : Committed(b) /\ BlockTerm(b) < BlockTerm(c) => Prefix(b, c)

\* Any two blocks that nodes may commit lie on one chain: a node commits a block when it
\* has commits from a quorum (on_commit, validate_aux_consensus_data).
Agreement == \A b, c \in blocks : Committed(b) /\ Committed(c) => Comparable(b, c)

\* The test of verify_commit succeeds for every block that a quorum has committed, in
\* whatever order a node learns of prepares and commits: no consensus_failure is thrown.
VerifyCommit ==
  \A p \in Producer, b \in blocks :
    Committed(b) => ~Before(b, best_prepared[p]) \/ Prefix(b, best_prepared[p])
=============================================================================
