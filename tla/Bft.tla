---------------------------------- MODULE Bft ----------------------------------
(***************************************************************************)
(* The byzantine fault tolerant consensus of a fixed set of producers:     *)
(* basic_bft_consensus (libraries/net/include/psibase/bft.hpp) on top of   *)
(* blocknet (blocknet.hpp) and of one fork database per node (ForkDb.hpp), *)
(* with nodes that follow the protocol.                                    *)
(*                                                                         *)
(* As in module Cft, a handler is one action; the operators take the       *)
(* record of a node through the calls that a handler makes, and `out'      *)
(* collects what it sends.  Messages and blocks are kept for ever: they    *)
(* may be lost, delayed, reordered and received again.  A block is the     *)
(* sequence of the headers up to it, and Genesis stands for the empty id   *)
(* as well as for the committed block that every chain starts from.        *)
(*                                                                         *)
(* Operators marked `Bug:' are variants of the definition that follows     *)
(* with a mistake in them; nothing uses them, they confirm that the        *)
(* properties notice such a mistake.                                       *)
(***************************************************************************)
EXTENDS Integers, FiniteSets, Sequences, SequencesExt

CONSTANTS
  N,           \* number of producers: 0 .. N - 1, in the order of their names
  Up,          \* the nodes that run: producers, and others that only follow
  MaxTerm,     \* bound on the term
  MaxBlocks,   \* bound on the number of blocks produced
  MaxRestarts  \* bound on the number of crashes

ASSUME BftAssumption ==
  /\ N \in Nat /\ N > 1 /\ Up \subseteq Nat /\ IsFiniteSet(Up)
  /\ MaxTerm \in Nat /\ MaxBlocks \in Nat /\ MaxRestarts \in Nat

VARIABLES
  node,      \* node[n]: the state of a running node
  blocks,    \* every block that has been sent
  msgs,      \* every other message that has been sent
  restarts   \* history: crashes so far

vars == <<node, blocks, msgs, restarts>>

Producer == 0 .. N - 1

-----------------------------------------------------------------------------
(* Blocks *)

Genesis == <<>>

BlockTerm(b) == IF b = Genesis THEN 0 ELSE b[Len(b)].term

Ancestor(b, n) == SubSeq(b, 1, n)

\* Stands for the order of the ids of two blocks of one number.
IdBefore(a, b) ==
  \E i \in 1..Len(a) :
    /\ Ancestor(a, i - 1) = Ancestor(b, i - 1)
    /\ \/ a[i].term < b[i].term
       \/ a[i].term = b[i].term /\ a[i].commitNum < b[i].commitNum

\* The order of ids, which start with the block number.
XidBefore(a, b) == Len(a) < Len(b) \/ (Len(a) = Len(b) /\ IdBefore(a, b))

\* BlockHeaderState::order
Before(a, b) ==
  BlockTerm(a) < BlockTerm(b) \/ (BlockTerm(a) = BlockTerm(b) /\ XidBefore(a, b))

Later(a, b) == IF Before(a, b) THEN b ELSE a

Larger(a, b) == IF a > b THEN a ELSE b

Smaller(a, b) == IF a < b THEN a ELSE b

-----------------------------------------------------------------------------
(* Producers *)

Leader(term) == term % N

\* ProducerSet::threshold
Threshold == (N * 2) \div 3 + 1

Quorum(S) == Cardinality(S) >= Threshold

Voting(s) == s.state \in {"leader", "follower"}

Fail(s) == [s EXCEPT !.state = "failed"]

-----------------------------------------------------------------------------
(* The fork database.  During a fork switch `best', the chain that          *)
(* byBlocknumIndex holds, is ahead of `head'.                               *)

Final(s) == Ancestor(s.best, s.commitIndex)

InBestChain(s, b) == IsPrefix(b, s.best) /\ Len(b) >= s.collected

Viable(s) == {b \in s.states : IsPrefix(s.root, b) /\ BlockTerm(b) <= s.current_term}

Greatest(S) == CHOOSE b \in S : \A c \in S : c = b \/ Before(c, b)

\* Bug: the root of the subtree stays behind.
KeepsRoot(s, num) ==
  [s EXCEPT !.commitIndex = Larger(Smaller(num, Len(s.head)), @)]

Commit(s, num) ==
  LET ci == Larger(Smaller(num, Len(s.head)), s.commitIndex)
  IN  [s EXCEPT !.commitIndex = ci,
                !.root = IF Len(s.root) < ci THEN Ancestor(s.best, ci) ELSE s.root]

SetSubtree(s, b) ==
  IF b \in s.states /\ BlockTerm(b) <= s.current_term THEN [s EXCEPT !.root = b] ELSE Fail(s)

\* Bug: the confirmations of the committed block are dropped as well.
DropsCommitted(s) ==
  LET kept == {b \in s.states : IsPrefix(Final(s), b)}
  IN  [s EXCEPT !.states = kept, !.executed = @ \cap kept, !.collected = s.commitIndex,
                !.confirmations = [b \in (DOMAIN @ \cap kept) \ {Final(s)} |-> @[b]]]

\* gc; on_erase_block forgets the confirmations of what it drops.
CollectGarbage(s) ==
  LET kept == {b \in s.states : IsPrefix(Final(s), b)}
  IN  [s EXCEPT !.states = kept, !.executed = @ \cap kept, !.collected = s.commitIndex,
                !.confirmations = [b \in DOMAIN @ \cap kept |-> @[b]]]

NoPending == [term |-> 0, commitNum |-> -1]

StartLeader(s) == [s EXCEPT !.pending = [term |-> s.current_term, commitNum |-> s.commitIndex]]

StopLeader(s) == [s EXCEPT !.pending = NoPending]

-----------------------------------------------------------------------------
(* View changes *)

NoMessage ==
  [type |-> "ViewChange", term |-> -1, producer |-> 0, best_prepared |-> Genesis,
   best_prepared_term |-> 0, prepares |-> {}]

\* by_best_prepared(m) < by_best_prepared(k)
PreparedBefore(m, k) ==
  \/ m.best_prepared_term < k.best_prepared_term
  \/ /\ m.best_prepared_term = k.best_prepared_term
     /\ XidBefore(m.best_prepared, k.best_prepared)

\* Of the messages of one producer, the leader's best and another's worst count.
compare_view_change(m, k) ==
  \/ m.term < k.term
  \/ /\ m.term = k.term
     /\ IF Leader(m.term) = m.producer THEN PreparedBefore(m, k) ELSE PreparedBefore(k, m)

\* The signatures cannot be checked if the block is the last irreversible one.
validate_view_change(s, m) ==
  /\ m.best_prepared_term = BlockTerm(m.best_prepared)
  /\ Front(m.best_prepared) \in s.states => Quorum(m.prepares)

InTerm(s, p) == s.views[p].term = s.current_term /\ s.views[p].message # NoMessage

is_term_ready_for(s, m) ==
  Quorum({p \in Producer : InTerm(s, p) /\ ~PreparedBefore(m, s.views[p].message)})

\* The root of the current view, if the leader has provided one.
get_subtree_from_leader(s) ==
  LET leader == Leader(s.current_term)
      m == s.views[leader].message
      b == m.best_prepared
  IN  CASE ~InTerm(s, leader) \/ ~is_term_ready_for(s, m) -> {}
        [] OTHER ->
             IF b = Genesis \/ (b \notin s.states /\ IsPrefix(b, s.best)) THEN {Final(s)}
             ELSE {c \in {b} \cap s.states : validate_view_change(s, m)}

is_term_ready(s) == get_subtree_from_leader(s) # {}

-----------------------------------------------------------------------------
(* Confirmations *)

NoConfirms == [prepares |-> {}, commits |-> {}, committedByBlock |-> FALSE]

Confirms(s, b) == IF b \in DOMAIN s.confirmations THEN s.confirmations[b] ELSE NoConfirms

SetConfirms(s, b, c) ==
  [s EXCEPT !.confirmations = [d \in DOMAIN @ \cup {b} |-> IF d = b THEN c ELSE @[d]]]

AddPrepare(s, b, p) ==
  SetConfirms(s, b, [Confirms(s, b) EXCEPT !.prepares = @ \cup {p}])

AddCommit(s, b, p) ==
  SetConfirms(s, b, [Confirms(s, b) EXCEPT !.commits = @ \cup {p}])

\* Bug: one confirmation too few.
CompletesEarly(S, p) == p \notin S /\ Cardinality(S) + 2 = Threshold

\* The result of confirm(): this is the confirmation that completes the quorum.
Completes(S, p) == p \notin S /\ Cardinality(S) + 1 = Threshold

isCommitted(s, b) ==
  /\ b \in DOMAIN s.confirmations
  /\ Quorum(s.confirmations[b].commits) \/ s.confirmations[b].committedByBlock

is_forbidden_fork(s, b) ==
  /\ s.best_confirm # Genesis
  /\ ~(InBestChain(s, b) /\ InBestChain(s, s.best_confirm))
  /\ BlockTerm(s.best_confirm) >= BlockTerm(b)

\* can_prepare and can_commit
CanConfirm(s, b) ==
  /\ Voting(s) /\ BlockTerm(b) = s.current_term /\ is_term_ready(s)
  /\ ~is_forbidden_fork(s, b)

verify_commit(s, b) == ~Before(b, s.best_prepared) \/ IsPrefix(b, s.best_prepared)

StartTimer(s) == IF Voting(s) THEN [s EXCEPT !.timer = s.current_term] ELSE s

CommitAndStartTimer(s, num) ==
  LET c == Commit(s, num) IN IF c.commitIndex # s.commitIndex THEN StartTimer(c) ELSE c

\* on_commit, when the commit completes the quorum and the view is right.
Committed(s, b) ==
  LET c == [s EXCEPT !.data = @ \cup {b}]
      d == IF InBestChain(s, b) THEN CommitAndStartTimer(c, Len(b))
           ELSE IF verify_commit(s, b) THEN SetSubtree(c, b) ELSE Fail(c)
  IN  [d EXCEPT !.best_prepared = Later(@, b)]

\* Bug: the node does not notice that its own commit completes the quorum.
OnlySends(self, s, b) ==
  AddCommit([s EXCEPT !.best_confirm = Later(@, b),
                      !.out = @ \cup {[type |-> "Commit", block |-> b, producer |-> self]}],
            b, self)

do_commit(self, s, b) ==
  LET c == [s EXCEPT !.best_confirm = Later(@, b),
                     !.out = @ \cup {[type |-> "Commit", block |-> b, producer |-> self]}]
  IN  IF Completes(Confirms(c, b).commits, self)
      THEN Committed(AddCommit(c, b, self), b) ELSE AddCommit(c, b, self)

CommitIfPossible(self, s, b) == IF CanConfirm(s, b) THEN do_commit(self, s, b) ELSE s

\* do_prepare, with the on_prepare of the node's own message.
do_prepare(self, s, b) ==
  LET c == [s EXCEPT !.best_confirm = Later(@, b),
                     !.out = @ \cup {[type |-> "Prepare", block |-> b, producer |-> self]}]
  IN  IF Completes(Confirms(c, b).prepares, self)
      THEN CommitIfPossible(self, [AddPrepare(c, b, self) EXCEPT
                                     !.best_prepared = Later(@, b)], b)
      ELSE AddPrepare(c, b, self)

PrepareIfPossible(self, s, b) == IF CanConfirm(s, b) THEN do_prepare(self, s, b) ELSE s

on_accept_block(self, s, b) ==
  PrepareIfPossible(self, IF isCommitted(s, b) THEN Commit(s, Len(b)) ELSE s, b)

\* A leader starts a new block on the new head.
RestartLeader(s) == IF s.state = "leader" THEN StartLeader(s) ELSE s

\* The chain to b becomes the best one; every block not applied before is accepted.
SwitchTo(self, s, b) ==
  LET start == [s EXCEPT !.best = b]
      Apply(t, c) ==
        IF c \in t.executed THEN t
        ELSE on_accept_block(self, [t EXCEPT !.executed = @ \cup {c}], c)
      t == FoldLeft(Apply, start,
                    [i \in 1 .. Len(b) - s.commitIndex |-> Ancestor(b, s.commitIndex + i)])
  IN  CollectGarbage(RestartLeader([t EXCEPT !.head = b]))

\* async_switch_fork, with the callbacks of switch_fork.
switch_fork(self, s) ==
  IF s.state \in {"failed", "asserted"} THEN s
  ELSE IF Viable(s) = {} THEN Fail(s)
  ELSE LET b == Greatest(Viable(s))
       IN  CASE b = s.head -> s
             [] b # s.head /\ ~IsPrefix(Final(s), b) -> Fail(s)
             [] OTHER -> SwitchTo(self, s, b)

-----------------------------------------------------------------------------
(* The views of the producers *)

maybe_start_timer(s) ==
  IF /\ s.ready_term # s.current_term
     /\ Quorum({p \in Producer : s.views[p].term >= s.current_term})
  THEN StartTimer([s EXCEPT !.ready_term = s.current_term]) ELSE s

View(v, term, m) ==
  [term |-> Larger(v.term, term),
   message |-> IF compare_view_change(v.message, m) THEN m ELSE v.message]

\* A node starts or stops leading as soon as the view of a producer says so.
Lead(self, s) ==
  LET leads == Leader(s.current_term) = self /\ is_term_ready(s)
  IN  CASE s.state = "follower" /\ leads -> StartLeader([s EXCEPT !.state = "leader"])
        [] s.state = "leader" /\ ~leads ->
             switch_fork(self, StopLeader([s EXCEPT !.state = "follower"]))
        [] OTHER -> s

\* NoMessage: a Prepare or a Commit tells the term only.
set_producer_view(self, s, term, p, m) ==
  maybe_start_timer(Lead(self, [s EXCEPT !.views[p] = View(@, term, m)]))

\* A prepared block that is still known must have its prepares: the assertion of
\* make_view_change.
HasPrepares(s) ==
  s.best_prepared # Genesis /\ s.best_prepared \in s.states
    => s.best_prepared \in DOMAIN s.confirmations

\* Bug: the prepared block is not reported.
ForgetsPrepared(self, s) == [NoMessage EXCEPT !.term = s.current_term, !.producer = self]

make_view_change(self, s) ==
  LET known == s.best_prepared # Genesis /\ s.best_prepared \in s.states
  IN  [NoMessage EXCEPT
         !.term = s.current_term, !.producer = self, !.best_prepared = s.best_prepared,
         !.best_prepared_term = IF known THEN BlockTerm(s.best_prepared) ELSE 0,
         !.prepares = IF known THEN Confirms(s, s.best_prepared).prepares ELSE {}]

sync_current_term(self, s) ==
  IF ~HasPrepares(s) THEN [s EXCEPT !.state = "asserted"]
  ELSE LET m == make_view_change(self, s)
       IN  set_producer_view(self, [s EXCEPT !.out = @ \cup {m}], s.current_term, self, m)

set_view(self, s, term) ==
  IF term <= s.current_term THEN s
  ELSE LET t == [s EXCEPT !.current_term = term]
       IN  IF Voting(s) THEN sync_current_term(self, t) ELSE t

skip_advanced_leaders(s, term) ==
  CHOOSE t \in term .. MaxTerm + 1 :
    /\ s.views[Leader(t)].term <= t
    /\ \A u \in term .. t - 1 : s.views[Leader(u)].term > u

\* std::nth_element at 2/3: more than a third of the producers are in this view or later.
NthView(s) ==
  CHOOSE t \in {s.views[p].term : p \in Producer} :
    /\ Cardinality({p \in Producer : s.views[p].term < t}) <= (N * 2) \div 3
    /\ Cardinality({p \in Producer : s.views[p].term <= t}) > (N * 2) \div 3

check_view_change_threshold(self, s) ==
  LET t == skip_advanced_leaders(s, Larger(NthView(s), s.current_term))
  IN  IF t > s.current_term THEN maybe_start_timer(set_view(self, s, t)) ELSE s

\* The views of s are news to a node that had those of old.
CheckNewView(self, old, s) ==
  IF s.views # old.views THEN check_view_change_threshold(self, s) ELSE s

do_view_change(self, s, term, p) ==
  CheckNewView(self, s, set_producer_view(self, s, term, p, NoMessage))

on_prepare(self, s, b, p) ==
  LET t == AddPrepare(s, b, p)
      raised == set_view(self, [t EXCEPT !.best_prepared = b], BlockTerm(b))
  IN  IF ~Completes(Confirms(s, b).prepares, p) THEN t
      ELSE CommitIfPossible(self, IF Before(t.best_prepared, b) THEN raised ELSE t, b)

on_commit(self, s, b, p) ==
  LET t == AddCommit(s, b, p)
  IN  IF ~Completes(Confirms(s, b).commits, p) THEN t
      ELSE IF ~InBestChain(s, b) /\ verify_commit(s, b)
      THEN [SetSubtree(set_view(self, [t EXCEPT !.data = @ \cup {b}], BlockTerm(b)), b)
              EXCEPT !.best_prepared = Later(@, b)]
      ELSE Committed(t, b)

-----------------------------------------------------------------------------
(* The root of the current view *)

\* The messages of the current term whose prepared block is known (Usable) or may
\* still arrive (pendingBlocks).
Usable(s, p) ==
  /\ InTerm(s, p)
  /\ LET m == s.views[p].message
     IN  m.best_prepared = Genesis \/ (m.best_prepared \in s.states /\ validate_view_change(s, m))

Awaited(s) ==
  {s.views[p].message.best_prepared : p \in {q \in Producer :
     InTerm(s, q) /\ LET b == s.views[q].message.best_prepared
                     IN  b \notin s.states /\ Len(b) > s.commitIndex}}

BestView(s) ==
  CHOOSE p \in Producer :
    /\ Usable(s, p)
    /\ \A q \in Producer : Usable(s, q) =>
         LET m == s.views[p].message  k == s.views[q].message
         IN  PreparedBefore(k, m) \/ (~PreparedBefore(m, k) /\ p <= q)

load_prepares(self, s, b, m) ==
  FoldLeft(LAMBDA t, p : on_prepare(self, t, b, p), s, SetToSortSeq(m.prepares, <))

\* Bug: the leader does not take over the prepares of the best view change.
DoesNotLoad(self, s) ==
  LET fromLeader == get_subtree_from_leader(s)
      t == [s EXCEPT !.pendingBlocks = Awaited(s)]
  IN  IF fromLeader # {} THEN SetSubtree(s, CHOOSE b \in fromLeader : TRUE)
      ELSE IF \A p \in Producer : ~Usable(s, p) THEN SetSubtree(t, Final(s))
      ELSE LET b == s.views[BestView(s)].message.best_prepared
           IN  SetSubtree(t, IF b = Genesis THEN Final(s) ELSE b)

set_root(self, s) ==
  LET fromLeader == get_subtree_from_leader(s)
      t == [s EXCEPT !.pendingBlocks = Awaited(s)]
  IN  IF fromLeader # {} THEN SetSubtree(s, CHOOSE b \in fromLeader : TRUE)
      ELSE IF \A p \in Producer : ~Usable(s, p) THEN SetSubtree(t, Final(s))
      ELSE LET m == s.views[BestView(s)].message
               b == IF m.best_prepared = Genesis THEN Final(s) ELSE m.best_prepared
           IN  SetSubtree(IF Leader(s.current_term) = self
                          THEN sync_current_term(self, load_prepares(self, t, b, m)) ELSE t, b)

-----------------------------------------------------------------------------
(* Handlers *)

\* A view change on the way must not have dropped the block that the handler holds.
PrepareKnown(self, s, b, p) == IF b \in s.states THEN on_prepare(self, s, b, p) ELSE Fail(s)

CommitKnown(self, s, b, p) == IF b \in s.states THEN on_commit(self, s, b, p) ELSE Fail(s)

\* recv(PrepareMessage): no fork switch follows.
RecvPrepare(self, s, m) ==
  IF m.block \notin s.states THEN s
  ELSE PrepareKnown(self, do_view_change(self, s, BlockTerm(m.block), m.producer),
                    m.block, m.producer)

\* recv(CommitMessage)
RecvCommit(self, s, m) ==
  IF m.block \notin s.states THEN s
  ELSE switch_fork(self,
         CommitKnown(self, do_view_change(self, s, BlockTerm(m.block), m.producer),
                     m.block, m.producer))

SwitchToNewView(self, old, s) ==
  IF s.views # old.views
  THEN switch_fork(self, set_root(self, check_view_change_threshold(self, s))) ELSE s

SwitchIfNewTerm(self, old, s) ==
  IF s.current_term # old.current_term THEN switch_fork(self, s) ELSE s

\* recv(ViewChangeMessage)
RecvViewChange(self, s, m) ==
  SwitchIfNewTerm(self, s,
    SwitchToNewView(self, s, set_producer_view(self, s, m.term, m.producer, m)))

Handled(self, s, m) ==
  CASE m.type = "Prepare" -> RecvPrepare(self, s, m)
    [] m.type = "Commit" -> RecvCommit(self, s, m)
    [] m.type = "ViewChange" -> RecvViewChange(self, s, m)

\* insert: the previous block must be known, and the block new.
CanInsert(s, b) == b \notin s.states /\ Front(b) \in s.states

\* Commits c, or remembers to do so when it is executed.
CommitByBlock(s, c) ==
  IF InBestChain(s, c) THEN CommitAndStartTimer(s, Len(c))
  ELSE IF verify_commit(s, c)
  THEN SetConfirms(s, c, [Confirms(s, c) EXCEPT !.committedByBlock = TRUE])
  ELSE Fail(s)

\* The proof that comes with a block, if the block that it proves is still known.
validate_aux_consensus_data(self, s, b) ==
  LET c == Ancestor(b, b[Len(b)].commitNum)
  IN  IF b[Len(b)].proof /\ c \in s.states
      THEN [CommitByBlock(set_view(self, [s EXCEPT !.data = @ \cup {c}], BlockTerm(c)), c)
              EXCEPT !.best_prepared = Later(@, c)]
      ELSE s

RootIfAwaited(self, s, b) == IF b \in s.pendingBlocks THEN set_root(self, s) ELSE s

on_accept_block_header(self, s, b) ==
  RootIfAwaited(self, validate_aux_consensus_data(self, s, b), b)

HandledBlock(self, s, b) ==
  switch_fork(self, on_accept_block_header(self, [s EXCEPT !.states = @ \cup {b}], b))

\* finish_block and the rest of the callback of the block timer.
HandledTimer(self, s) ==
  LET h == [term |-> s.pending.term, commitNum |-> s.pending.commitNum,
            proof |-> Ancestor(s.head, s.pending.commitNum) \in s.data]
      b == Append(s.head, h)
      t == StartLeader([s EXCEPT !.head = b, !.best = b, !.states = @ \cup {b},
                                 !.executed = @ \cup {b}])
  IN  CollectGarbage(PrepareIfPossible(self, t, b))

increase_view(self, s) ==
  IF Quorum({p \in Producer : s.views[p].term >= s.current_term})
  THEN set_view(self, s, skip_advanced_leaders(s, s.current_term + 1)) ELSE s

-----------------------------------------------------------------------------
(* Actions *)

Alive(n) == node[n].state \notin {"failed", "asserted"}

\* The step of node n that leaves it in state s, with what it sends.
Finish(n, s) ==
  /\ node' = [node EXCEPT ![n] = [s EXCEPT !.out = {}]]
  /\ msgs' = msgs \cup s.out

Receive(n) ==
  /\ Alive(n)
  /\ \E m \in msgs : m.producer # n /\ \E s \in {Handled(n, node[n], m)} : Finish(n, s)
  /\ UNCHANGED <<blocks, restarts>>

RecvBlock(n) ==
  /\ Alive(n)
  /\ \E b \in blocks :
       CanInsert(node[n], b) /\ \E s \in {HandledBlock(n, node[n], b)} : Finish(n, s)
  /\ UNCHANGED <<blocks, restarts>>

ProduceBlock(n) ==
  /\ node[n].state = "leader"
  /\ Cardinality(blocks) < MaxBlocks
  /\ \E s \in {HandledTimer(n, node[n])} : Finish(n, s) /\ blocks' = blocks \cup {s.head}
  /\ UNCHANGED restarts

Timeout(n) ==
  /\ Voting(node[n]) /\ node[n].timer = node[n].current_term
  /\ \E s \in {increase_view(n, [node[n] EXCEPT !.timer = -1])} :
       s.current_term <= MaxTerm /\ Finish(n, s)
  /\ UNCHANGED <<blocks, restarts>>

\* load_producers, set_producers: what a node does when it starts on a chain.
Started(n, s) ==
  LET t == [s EXCEPT !.current_term = BlockTerm(s.head)]
  IN  IF n \in Producer
      THEN sync_current_term(n, maybe_start_timer([t EXCEPT !.state = "follower"]))
      ELSE [t EXCEPT !.state = "nonvoting"]

NewNode ==
  [state |-> "unknown", current_term |-> 0, ready_term |-> -1, timer |-> -1,
   views |-> [p \in Producer |-> [term |-> 0, message |-> NoMessage]],
   confirmations |-> [b \in {} |-> NoConfirms], best_prepared |-> Genesis,
   best_confirm |-> Genesis, pendingBlocks |-> {}, pending |-> NoPending,
   head |-> Genesis, best |-> Genesis, states |-> {Genesis}, executed |-> {Genesis},
   root |-> Genesis, commitIndex |-> 0, collected |-> 0, data |-> {}, out |-> {}]

\* A crash loses what is only in memory; the chain from the block committed at the last
\* gc up to the head and the proofs of the committed blocks are read back.
Restart(n) ==
  LET s == node[n]
      kept == {Ancestor(s.head, k) : k \in s.collected .. Len(s.head)}
      t == [NewNode EXCEPT !.head = s.head, !.best = s.head, !.states = kept,
              !.executed = kept, !.root = Ancestor(s.head, s.collected),
              !.commitIndex = s.collected, !.collected = s.collected, !.data = s.data]
  IN  /\ Alive(n) /\ restarts < MaxRestarts
      /\ restarts' = restarts + 1
      /\ Finish(n, Started(n, t))
      /\ UNCHANGED blocks

Init ==
  /\ node = [n \in Up |-> [Started(n, NewNode) EXCEPT !.out = {}]]
  /\ msgs = UNION {Started(n, NewNode).out : n \in Up}
  /\ blocks = {} /\ restarts = 0

Step(n) == Receive(n) \/ RecvBlock(n) \/ ProduceBlock(n)

Next == \E n \in Up : Step(n) \/ Timeout(n) \/ Restart(n)

Spec == Init /\ [][Next]_vars

\* Whether a step of the node would change anything: ENABLED <<Step(n) \/ Timeout(n)>>_vars.
Busy(n) ==
  /\ Alive(n)
  /\ \/ \E m \in msgs : m.producer # n /\
          \E s \in {Handled(n, node[n], m)} :
             [s EXCEPT !.out = {}] # node[n] \/ ~(s.out \subseteq msgs)
     \/ \E b \in blocks : CanInsert(node[n], b)
     \/ node[n].state = "leader" /\ Cardinality(blocks) < MaxBlocks
     \/ /\ Voting(node[n]) /\ node[n].timer = node[n].current_term
        /\ increase_view(n, node[n]).current_term <= MaxTerm

\* Weak fairness of the steps of all nodes: messages and blocks that were sent arrive, and
\* timers expire.
Quiet == \A n \in Up : ~Busy(n)

FairSpec == Spec /\ ([]<>Quiet \/ []<><<TRUE>>_vars)

-----------------------------------------------------------------------------
(* Properties *)

\* The state of basic_bft_consensus and of its fork database has its declared shape: what
\* the root, the head and the confirmations refer to is a block that gc has not dropped,
\* and no node has "failed", that is, reported a consensus failure (verify_commit,
\* async_switch_fork, set_subtree) or gone on with a state dropped inside the handler.
TypeOK ==
  \A n \in Up :
    LET s == node[n]
    IN  /\ s.state \in {"follower", "leader", "nonvoting", "asserted"}
        /\ s.current_term \in 0..MaxTerm
        /\ Alive(n) => s.head \in s.states /\ s.root \in s.states /\ s.best = s.head
        /\ DOMAIN s.confirmations \subseteq s.states
        /\ s.collected <= s.commitIndex /\ s.commitIndex <= Len(s.head)

ConfirmedBy(type, b) == {m.producer : m \in {k \in msgs : k.type = type /\ k.block = b}}

ViewChanges == {m \in msgs : m.type = "ViewChange"}

\* The assertion of make_view_change holds for a node that has not crashed: a prepared
\* block that gc has not dropped still has its prepares, however it became the best one.
PreparesKnown == restarts = 0 => \A n \in Up : node[n].state # "asserted"

\* What a node takes for prepared, and what a view change names as such, a quorum has
\* prepared: BestIsPrepared of module BftQuorumsProofs holds for the counting of
\* on_prepare, on_commit, load_prepares and the proofs in blocks.
BestIsPrepared ==
  /\ \A n \in Up : LET b == node[n].best_prepared
                   IN  b = Genesis \/ Quorum(ConfirmedBy("Prepare", b))
  /\ \A m \in ViewChanges :
       LET b == m.best_prepared
       IN  /\ m.prepares \subseteq ConfirmedBy("Prepare", b)
           /\ b = Genesis \/ Quorum(ConfirmedBy("Prepare", b))

\* A producer that has not crashed commits only what a quorum has prepared, and every view
\* change of a later term that it sends reports that block or a better one, through
\* whichever handler it got into the later term: CommitsReported of module
\* BftQuorumsProofs.
CommitsReported ==
  restarts = 0 =>
    \A m \in {k \in msgs : k.type = "Commit"} :
      /\ Quorum(ConfirmedBy("Prepare", m.block))
      /\ \A v \in ViewChanges :
           v.producer = m.producer /\ v.term > BlockTerm(m.block)
             => ~Before(v.best_prepared, m.block)

\* When everything sent has been received, every node has committed every block that a
\* quorum committed: no commit is lost by arriving before the block's term, before the
\* prepares or while the block is not on the best chain (on_commit, on_accept_block).
CommittedWhenQuiet ==
  Quiet /\ restarts = 0 =>
    \A n \in Up, b \in blocks :
      Quorum(ConfirmedBy("Commit", b)) => Len(b) <= node[n].commitIndex

Led ==
  \E n \in Up :
    /\ node[n].state = "leader"
    /\ \A k \in Up : /\ node[k].current_term = node[n].current_term
                     /\ node[k].head = node[n].head

\* However their timers expire, nodes that do not crash end up in one view, with its leader
\* producing and everybody on the leader's chain: view changes that a third of the
\* producers made alone, that name unknown blocks or that overtake each other do not
\* leave the producers waiting for one another (check_view_change_threshold, set_root).
ViewsConverge == [](restarts = 0) => <>[]Led
=============================================================================
