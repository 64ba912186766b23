---------------------------------- MODULE Cft ----------------------------------
(***************************************************************************)
(* The crash fault tolerant consensus of a fixed set of producers:         *)
(* basic_cft_consensus (libraries/net/include/psibase/cft.hpp) on top of   *)
(* blocknet (blocknet.hpp) and of one fork database per node (ForkDb.hpp). *)
(*                                                                         *)
(* A node handles one message or timeout at a time, so a handler is one    *)
(* action, the fork switch it ends with included.  The operators below     *)
(* take the record of a node through the calls a handler makes; `out'      *)
(* collects what it sends.  Operators marked `Bug:' are variants of the    *)
(* definition that follows with a mistake in them; nothing uses them, they *)
(* confirm that the properties notice such a mistake.                      *)
(*                                                                         *)
(* A block is the sequence of the headers from the first block up to it,   *)
(* so that its ancestors are its prefixes.  Every block executes.  The     *)
(* fork database is taken at the level that module ForkDb establishes:     *)
(* byOrderIndex is the set of states below one root, byBlocknumIndex is    *)
(* the chain of the head, and a fork switch ends at the greatest viable    *)
(* block.  Messages are kept for ever: they may be lost, delayed,          *)
(* reordered and received again.                                           *)
(***************************************************************************)
EXTENDS Integers, FiniteSets, Sequences, SequencesExt

CONSTANTS
  Producer,     \* the active producers
  Rank,         \* stands for the order of the ids of blocks of different producers
  MaxTerm,      \* bound on the term
  MaxElections, \* bound on the number of elections called
  MaxBlocks,    \* bound on the number of blocks produced
  MaxRestarts,  \* bound on the number of crashes
  AnyRestart,   \* whether a node may also crash in a term it has no block of
  Live,         \* the nodes that never stop (for the liveness properties)
  None          \* null_producer

ASSUME CftAssumption ==
  /\ IsFiniteSet(Producer) /\ Producer # {}
  /\ Rank \in [Producer -> Nat] /\ \A p, q \in Producer : Rank[p] = Rank[q] => p = q
  /\ Live \subseteq Producer /\ None \notin Producer
  /\ MaxTerm \in Nat /\ MaxElections \in Nat /\ MaxBlocks \in Nat /\ MaxRestarts \in Nat
  /\ AnyRestart \in BOOLEAN

VARIABLES
  node,          \* node[p]: the state of producer p
  blocks,        \* every block that has been sent
  msgs,          \* every other message that has been sent
  elected,       \* history: <<term, producer>> for every election won
  irreversible,  \* history: <<block, term>> for every block committed by a node
  restarts       \* history: crashes so far

vars == <<node, blocks, msgs, elected, irreversible, restarts>>

-----------------------------------------------------------------------------
(* Blocks *)

Genesis == <<>>

BlockTerm(b) == IF b = Genesis THEN 0 ELSE b[Len(b)].term

Ancestor(b, n) == SubSeq(b, 1, n)

\* The order of ids, which decides between two blocks of one term and number.
IdBefore(a, b) ==
  \E i \in 1..Len(a) :
    /\ Ancestor(a, i - 1) = Ancestor(b, i - 1)
    /\ \/ a[i].term < b[i].term
       \/ a[i].term = b[i].term /\ Rank[a[i].producer] < Rank[b[i].producer]
       \/ /\ a[i].term = b[i].term /\ a[i].producer = b[i].producer
          /\ a[i].commitNum < b[i].commitNum

Before(a, b) ==
  \/ BlockTerm(a) < BlockTerm(b)
  \/ BlockTerm(a) = BlockTerm(b) /\ Len(a) < Len(b)
  \/ BlockTerm(a) = BlockTerm(b) /\ Len(a) = Len(b) /\ IdBefore(a, b)

Comparable(a, b) == IsPrefix(a, b) \/ IsPrefix(b, a)

-----------------------------------------------------------------------------
(* The fork database of a node *)

Final(s) == Ancestor(s.head, s.commitIndex)

Viable(s) == {b \in s.states : IsPrefix(s.root, b) /\ BlockTerm(b) <= s.current_term}

Greatest(S) == CHOOSE b \in S : \A c \in S : c = b \/ Before(c, b)

Larger(a, b) == IF a > b THEN a ELSE b

Smaller(a, b) == IF a < b THEN a ELSE b

\* commit: no further than the head, never back, and the subtree follows.
Commit(s, num) ==
  LET ci == Larger(Smaller(num, Len(s.head)), s.commitIndex)
  IN  [s EXCEPT !.commitIndex = ci,
                !.root = IF Len(s.root) < ci THEN Ancestor(s.head, ci) ELSE s.root]

\* gc: only descendants of the committed block keep their state.
CollectGarbage(s) ==
  [s EXCEPT !.states   = {b \in s.states : IsPrefix(Final(s), b)},
            !.executed = {b \in s.executed : IsPrefix(Final(s), b)},
            !.collected = s.commitIndex]

\* start_leader: the pending block records the commit index of this moment.
StartLeader(s) == [s EXCEPT !.pendingCommit = s.commitIndex]

\* Bug: the first block after the committed one is not confirmed.
ConfirmsLate(self, s) ==
  IF /\ s.state = "follower"
     /\ BlockTerm(s.head) = s.current_term /\ Len(s.head) > s.commitIndex + 1
  THEN {[type |-> "Confirm", term |-> s.current_term, follower_id |-> self,
         to |-> Last(s.head).producer, head_num |-> Len(s.head)]}
  ELSE {}

\* on_fork_switch: a follower confirms a new head of its own term to its producer.
Confirmation(self, s) ==
  IF /\ s.state = "follower"
     /\ BlockTerm(s.head) = s.current_term /\ Len(s.head) > s.commitIndex
  THEN {[type |-> "Confirm", term |-> s.current_term, follower_id |-> self,
         to |-> Last(s.head).producer, head_num |-> Len(s.head)]}
  ELSE {}

\* on_accept_block runs for the blocks of the new fork that have not been executed:
\* each commits what its header says, but no more than the length of the old head.
CommitsOnFork(s, b) ==
  {Smaller(b[n].commitNum, Len(s.head)) :
     n \in {k \in s.commitIndex + 1 .. Len(b) : Ancestor(b, k) \notin s.executed}} \cup {s.commitIndex}

SwitchTo(self, s, b) ==
  LET ci == CHOOSE c \in CommitsOnFork(s, b) : \A d \in CommitsOnFork(s, b) : d <= c
      moved == [s EXCEPT
                  !.head = b, !.commitIndex = ci,
                  !.root = IF Len(s.root) < ci THEN Ancestor(b, ci) ELSE s.root,
                  !.executed = s.executed \cup {Ancestor(b, n) : n \in ci..Len(b)}]
      led == IF s.state = "leader" THEN StartLeader(moved) ELSE moved
  IN  CollectGarbage([led EXCEPT !.out = s.out \cup Confirmation(self, led)])

\* switch_fork: the pending block of a leader is kept if it beats every other block.
SwitchFork(self, s) ==
  LET best == Greatest(Viable(s))
      keepsPending ==
        /\ s.state = "leader" /\ IsPrefix(s.root, s.head)
        /\ \/ BlockTerm(best) < s.current_term
           \/ BlockTerm(best) = s.current_term /\ Len(best) < Len(s.head) + 1
  IN  IF Viable(s) = {} THEN [s EXCEPT !.state = "failed"]
      ELSE IF keepsPending \/ best = s.head THEN s
      ELSE IF ~IsPrefix(Final(s), best) THEN [s EXCEPT !.state = "failed"]
      ELSE SwitchTo(self, s, best)

-----------------------------------------------------------------------------
(* The calls that handlers share *)

StopLeader(s) == [s EXCEPT !.pendingCommit = 0]

\* Bug: a leader does not step down.
LeaderStays(self, s, t) ==
  IF t <= s.current_term THEN s
  ELSE [s EXCEPT !.current_term = t, !.voted_for = None, !.votes_for_me = {},
                 !.state = IF @ = "candidate" THEN "follower" ELSE @]

\* update_term: a leader steps down and looks for a better head at once.
UpdateTerm(self, s, t) ==
  LET newer == [s EXCEPT !.current_term = t, !.voted_for = None, !.votes_for_me = {}]
      down  == [newer EXCEPT !.state = "follower", !.match_index = [p \in Producer |-> 0]]
  IN  IF t <= s.current_term THEN s
      ELSE IF s.state = "leader" THEN SwitchFork(self, StopLeader(down))
      ELSE IF s.state = "candidate" THEN [newer EXCEPT !.state = "follower"]
      ELSE newer

\* ProducerSet::threshold and the majority that check_votes asks for.
IsMajority(S) == Cardinality(S) > Cardinality(Producer) \div 2

CheckVotes(s) ==
  IF IsMajority(s.votes_for_me)
  THEN StartLeader([s EXCEPT !.state = "leader", !.match_index = [p \in Producer |-> 0]])
  ELSE s

\* update_match_index: the median is the last block a majority has confirmed.
UpdateMatchIndex(s, p, num) ==
  LET match == [s.match_index EXCEPT ![p] = Larger(@, num)]
      joint == CHOOSE n \in 0..Len(s.head) :
                 /\ IsMajority({q \in Producer : match[q] >= n})
                 /\ \A m \in 0..Len(s.head) :
                      IsMajority({q \in Producer : match[q] >= m}) => m <= n
  IN  Commit([s EXCEPT !.match_index = match], joint)

\* Bug: the term of the header is not taken over.
AcceptsStaleTerm(self, s, b) ==
  LET committed == Ancestor(b, Last(b).commitNum)
  IN  IF Last(b).commitNum > s.commitIndex /\ ~IsPrefix(committed, s.head)
      THEN [s EXCEPT !.root = committed]
      ELSE s

\* on_accept_block_header: what the header says is committed becomes the root
\* unless it is already on the best chain.
AcceptHeader(self, s, b) ==
  LET updated == UpdateTerm(self, s, BlockTerm(b))
      committed == Ancestor(b, Last(b).commitNum)
  IN  IF Last(b).commitNum > updated.commitIndex /\ ~IsPrefix(committed, updated.head)
      THEN [updated EXCEPT !.root = committed]
      ELSE updated

-----------------------------------------------------------------------------
(* Handlers *)

\* The end of a handler: what it sent is on the network.
Finish(self, s) ==
  /\ node' = [node EXCEPT ![self] = [s EXCEPT !.out = {}]]
  /\ msgs' = msgs \cup s.out
  /\ irreversible' = irreversible \cup
       IF s.commitIndex > node[self].commitIndex THEN {<<Final(s), s.current_term>>} ELSE {}
  /\ elected' = elected \cup
       IF s.state = "leader" THEN {<<s.current_term, self>>} ELSE {}

Alive(n) == node[n].state # "failed"

\* The election timer of a follower or candidate expires.
RequestVote(n) ==
  LET s == node[n]
      asked == [s EXCEPT
                  !.current_term = s.current_term + 1, !.voted_for = n,
                  !.votes_for_me = {n}, !.state = "candidate",
                  !.out = {[type |-> "RequestVote", term |-> s.current_term + 1,
                            candidate_id |-> n, last_log_index |-> Len(s.head),
                            last_log_term |-> BlockTerm(s.head)]}]
  IN  /\ s.state \in {"follower", "candidate"}
      /\ Cardinality({m \in msgs : m.type = "RequestVote"}) < MaxElections
      /\ s.current_term < MaxTerm
      /\ Finish(n, CheckVotes(asked))
      /\ UNCHANGED <<blocks, restarts>>

\* Bug: the numbers of the head blocks are not compared.
UpToDateByTerm(request, s) == request.last_log_term >= BlockTerm(s.head)

UpToDate(request, s) ==
  \/ request.last_log_term > BlockTerm(s.head)
  \/ request.last_log_term = BlockTerm(s.head) /\ request.last_log_index >= Len(s.head)

\* Bug: an earlier vote in the term is not taken into account.
CanVoteTwice(request, s) == request.term >= s.current_term /\ UpToDate(request, s)

\* Bug: the candidate need not be up-to-date.
CanVoteForAnyone(request, s) ==
  request.term >= s.current_term /\ s.voted_for \in {None, request.candidate_id}

CanVote(request, s) ==
  /\ request.term >= s.current_term
  /\ s.voted_for \in {None, request.candidate_id}
  /\ UpToDate(request, s)

\* A refusal in the term of the request changes nothing where it is received, and is
\* left out; one that carries a newer term makes the candidate step down.
AfterRequestVote(n, request) ==
  LET s == UpdateTerm(n, node[n], request.term)
      granted == CanVote(request, s)
      reply == [type |-> "Vote", to |-> request.candidate_id, term |-> s.current_term,
                voter_id |-> n, vote_granted |-> granted]
  IN  IF s.state # "follower" THEN s
      ELSE [s EXCEPT !.voted_for = IF granted THEN request.candidate_id ELSE @,
                     !.out = IF granted \/ s.current_term > request.term
                             THEN @ \cup {reply} ELSE @]

AfterVote(n, response) ==
  LET s == UpdateTerm(n, node[n], response.term)
  IN  IF /\ response.term = s.current_term
         /\ response.vote_granted /\ s.state = "candidate"
      THEN CheckVotes([s EXCEPT !.votes_for_me = @ \cup {response.voter_id}])
      ELSE s

\* Bug: a confirmation of the first block after the committed one is out-dated.
IgnoresNextBlock(n, response) ==
  IF \/ response.head_num \notin node[n].commitIndex + 2 .. Len(node[n].head)
     \/ response.term # node[n].current_term \/ node[n].state # "leader"
  THEN node[n]
  ELSE UpdateMatchIndex(node[n], response.follower_id, response.head_num)

\* A confirmation counts if the block is on the best chain, not yet below the commit
\* index and of the term of the confirmation, and this is still the leader's term.
AfterConfirm(n, response) ==
  LET s == UpdateTerm(n, node[n], response.term)
  IN  IF \/ response.head_num \notin node[n].commitIndex .. Len(node[n].head)
         \/ BlockTerm(Ancestor(node[n].head, response.head_num)) # response.term
      THEN node[n]
      ELSE IF response.term = s.current_term /\ s.state = "leader"
           THEN UpdateMatchIndex(s, response.follower_id, response.head_num)
           ELSE s

\* ForkDb::insert takes a block whose parent it knows and that is past the commit index.
CanInsert(s, b) == b \notin s.states /\ Len(b) > s.commitIndex /\ Front(b) \in s.states

AfterBlock(n, b) ==
  LET accepted == AcceptHeader(n, [node[n] EXCEPT !.states = @ \cup {b}], b)
  IN  IF accepted.state = "failed" THEN accepted ELSE SwitchFork(n, accepted)

Handled(n, m) ==
  CASE m.type = "RequestVote" -> AfterRequestVote(n, m)
    [] m.type = "Vote"        -> AfterVote(n, m)
    [] m.type = "Confirm"     -> AfterConfirm(n, m)

\* RequestVoteRequest goes to all other producers, an answer to one.
SentTo(n, m) == IF m.type = "RequestVote" THEN m.candidate_id # n ELSE m.to = n

Recv(n, m) ==
  /\ Alive(n) /\ SentTo(n, m)
  /\ Finish(n, Handled(n, m))
  /\ UNCHANGED <<blocks, restarts>>

RecvRequestVote(n) == \E m \in msgs : m.type = "RequestVote" /\ Recv(n, m)

RecvVote(n) == \E m \in msgs : m.type = "Vote" /\ Recv(n, m)

RecvConfirm(n) == \E m \in msgs : m.type = "Confirm" /\ Recv(n, m)

RecvBlock(n) ==
  \E b \in blocks :
    /\ Alive(n) /\ CanInsert(node[n], b)
    /\ Finish(n, AfterBlock(n, b))
    /\ UNCHANGED <<blocks, restarts>>

\* The block timer of a leader expires: finish_block, then start_leader for the next
\* block, then on_produce_block and do_gc.
ProduceBlock(n) ==
  LET s == node[n]
      b == Append(s.head, [term |-> s.current_term, producer |-> n,
                           commitNum |-> s.pendingCommit])
      built == [s EXCEPT !.head = b, !.states = @ \cup {b}, !.executed = @ \cup {b}]
  IN  /\ s.state = "leader"
      /\ Cardinality(blocks) < MaxBlocks
      /\ Finish(n, CollectGarbage(UpdateMatchIndex(StartLeader(built), n, Len(b))))
      /\ blocks' = blocks \cup {b}
      /\ UNCHANGED restarts

\* A crash loses what is only in memory; the chain from the block committed at the last
\* gc up to the head is read back, and the term is the term of the head.
Restart(n) ==
  LET s == node[n]
      kept == {Ancestor(s.head, k) : k \in s.collected .. Len(s.head)}
  IN  /\ restarts < MaxRestarts
      /\ restarts' = restarts + 1
      /\ Alive(n)
      /\ AnyRestart \/ s.current_term = BlockTerm(s.head)
      /\ Finish(n, [s EXCEPT
           !.state = "follower", !.current_term = BlockTerm(s.head), !.voted_for = None,
           !.votes_for_me = {}, !.match_index = [p \in Producer |-> 0],
           !.pendingCommit = 0, !.commitIndex = s.collected,
           !.root = Ancestor(s.head, s.collected), !.states = kept, !.executed = kept])
      /\ UNCHANGED blocks

NewNode ==
  [state |-> "follower", current_term |-> 0, voted_for |-> None, votes_for_me |-> {},
   match_index |-> [p \in Producer |-> 0], head |-> Genesis, states |-> {Genesis},
   executed |-> {Genesis}, root |-> Genesis, commitIndex |-> 0, collected |-> 0,
   pendingCommit |-> 0, out |-> {}]

Init ==
  /\ node = [p \in Producer |-> NewNode]
  /\ blocks = {} /\ msgs = {} /\ elected = {} /\ irreversible = {} /\ restarts = 0

Receive(n) == RecvRequestVote(n) \/ RecvVote(n) \/ RecvConfirm(n) \/ RecvBlock(n)

Next ==
  \E n \in Producer : RequestVote(n) \/ Receive(n) \/ ProduceBlock(n) \/ Restart(n)

Spec == Init /\ [][Next]_vars

\* Whether a step of the node would change anything: ENABLED <<Work(n)>>_vars.
Busy(n) ==
  /\ Alive(n)
  /\ \/ \E m \in msgs :
          /\ SentTo(n, m)
          /\ \/ [Handled(n, m) EXCEPT !.out = {}] # node[n]
             \/ ~(Handled(n, m).out \subseteq msgs)
     \/ \E b \in blocks : CanInsert(node[n], b)
     \/ node[n].state = "leader" /\ Cardinality(blocks) < MaxBlocks

Work(n) == Receive(n) \/ ProduceBlock(n)

\* Weak fairness of Work: a live node receives what is sent to it, and its block timer
\* expires.  Nothing is assumed of the election timer, which every block of the current
\* term restarts.
FairSpec == Spec /\ \A n \in Live : []<>(~Busy(n)) \/ []<><<Work(n)>>_vars

-----------------------------------------------------------------------------
(* Properties *)

\* check_votes makes at most one producer the leader of a term.
ElectionSafety ==
  \A e, f \in elected : e[1] = f[1] => e[2] = f[2]

\* Any two blocks that nodes have committed lie on one chain: only one fork can ever
\* become irreversible.
Agreement ==
  \A c, d \in irreversible : Comparable(c[1], d[1])

\* A leader builds on every block that was committed in its own or an earlier term.
LeaderCompleteness ==
  \A n \in Producer, c \in irreversible :
    node[n].state = "leader" /\ c[2] <= node[n].current_term => IsPrefix(c[1], node[n].head)

\* Neither "no viable head block" nor "multiple conflicting forks confirmed" is ever
\* reported by async_switch_fork and trySetHead.
NoConsensusFailure == \A n \in Producer : Alive(n)

\* The blocks of one term are one chain: a follower never confirms two forks of a term.
OneChainPerTerm ==
  \A b, c \in blocks : BlockTerm(b) = BlockTerm(c) => Comparable(b, c)

LeadsLastTerm(n) ==
  /\ node[n].state = "leader" /\ node[n].current_term = MaxTerm
  /\ BlockTerm(node[n].head) = MaxTerm

\* A live leader that nobody challenges any more gets its blocks confirmed by a majority
\* and commits them in the end.
LeaderCommits ==
  \A n \in Live : LeadsLastTerm(n) ~> (node[n].commitIndex = Len(node[n].head))

\* When the live nodes, a majority, have handled everything that was sent to them, the
\* blocks of the leader are committed: "The network will make progress as long as more
\* than 50% of the current producers are active" (peer-consensus/cft.md).
CommittedWhenQuiet ==
  IsMajority(Live) /\ (\A n \in Live : ~Busy(n)) =>
    \A n \in Live : LeadsLastTerm(n) => node[n].commitIndex = Len(node[n].head)
=============================================================================
