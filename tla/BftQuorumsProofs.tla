--------------------------- MODULE BftQuorumsProofs ----------------------------
(***************************************************************************)
(* Agreement of the byzantine fault tolerant consensus, for any number of  *)
(* producers, terms and blocks, from the fact that quorums intersect.      *)
(***************************************************************************)
EXTENDS BftQuorums, TLAPS

-----------------------------------------------------------------------------
(* Blocks and their order *)

\* A block has a length and a term, and only Genesis is empty.
LEMMA BlockFacts ==
  ASSUME NEW b \in Block
  PROVE  /\ Len(b) \in Nat /\ BlockTerm(b) \in Nat
         /\ b # Genesis => Len(b) > 0 /\ b[Len(b)] \in Header
         /\ Len(Genesis) = 0 /\ BlockTerm(Genesis) = 0 /\ Genesis \in Block
<1>1. Len(b) \in Nat /\ (b # Genesis => Len(b) > 0)
  BY DEF Block, Genesis
<1>2. b # Genesis => b[Len(b)] \in Header
  BY <1>1 DEF Block
<1>3. Len(Genesis) = 0 /\ BlockTerm(Genesis) = 0 /\ Genesis \in Block
  BY DEF Block, Genesis, BlockTerm
<1>4. BlockTerm(b) \in Nat
  BY <1>2, TermAssumption DEF BlockTerm, Header
<1>. QED BY <1>1, <1>2, <1>3, <1>4

\* is_ancestor is transitive.
LEMMA PrefixTransitive ==
  ASSUME NEW a \in Block, NEW b \in Block, NEW c \in Block, Prefix(a, b), Prefix(b, c)
  PROVE  Prefix(a, c)
<1>1. Len(a) \in Nat /\ Len(b) \in Nat /\ Len(c) \in Nat
  BY BlockFacts
<1>2. Len(a) <= Len(c)
  BY <1>1 DEF Prefix
<1>3. ASSUME NEW i \in 1..Len(a) PROVE a[i] = c[i]
  BY <1>1 DEF Prefix
<1>. QED BY <1>2, <1>3 DEF Prefix

\* Two blocks of one length on one chain are the same.
LEMMA PrefixSameLength ==
  ASSUME NEW a \in Block, NEW b \in Block, Prefix(a, b), Len(a) = Len(b)
  PROVE  a = b
  BY DEF Prefix, Block

\* A new block has its term, is new, and extends what its parent extends.
LEMMA AppendFacts ==
  ASSUME NEW b \in Block, NEW h \in Header
  PROVE  /\ Append(b, h) \in Block \ {Genesis}
         /\ BlockTerm(Append(b, h)) = h.term
         /\ \A a \in Block : Prefix(a, b) => Prefix(a, Append(b, h))
<1>. DEFINE c == Append(b, h)
<1>1. c \in Block /\ Len(c) = Len(b) + 1 /\ Len(b) \in Nat /\ c[Len(c)] = h
  BY DEF Block
<1>2. \A i \in 1..Len(b) : c[i] = b[i]
  BY DEF Block
<1>3. c # Genesis
  BY <1>1, BlockFacts
<1>4. BlockTerm(c) = h.term
  BY <1>1, <1>3 DEF BlockTerm
<1>5. ASSUME NEW a \in Block, Prefix(a, b) PROVE Prefix(a, c)
  <2>1. Len(a) \in Nat
    BY BlockFacts
  <2>2. Len(a) <= Len(c)
    BY <1>1, <1>5, <2>1 DEF Prefix
  <2>3. ASSUME NEW i \in 1..Len(a) PROVE a[i] = c[i]
    <3>1. i \in 1..Len(b)
      BY <1>1, <1>5, <2>1 DEF Prefix
    <3>. QED BY <1>2, <1>5, <3>1 DEF Prefix
  <2>. QED BY <2>2, <2>3 DEF Prefix
<1>. HIDE DEF c
<1>6. c \in Block \ {Genesis} /\ BlockTerm(c) = h.term /\ \A a \in Block : Prefix(a, b) => Prefix(a, c)
  BY <1>1, <1>3, <1>4, <1>5
<1>. QED BY <1>6 DEF c

\* What the order of blocks looks at are numbers.
LEMMA OrderFacts ==
  ASSUME NEW b \in Block
  PROVE  /\ Len(b) \in Nat /\ BlockTerm(b) \in Nat
         /\ b = Genesis \/ b[Len(b)].id \in Nat
         /\ b = Genesis <=> Len(b) = 0
<1>1. Len(b) \in Nat /\ BlockTerm(b) \in Nat
  BY BlockFacts
<1>2. b = Genesis \/ b[Len(b)].id \in Nat
  <2>1. b = Genesis \/ b[Len(b)] \in Header
    BY BlockFacts
  <2>. QED BY <2>1, TermAssumption DEF Header
<1>3. b = Genesis => Len(b) = 0
  BY BlockFacts
<1>4. b # Genesis => Len(b) # 0
  BY BlockFacts
<1>. QED BY <1>1, <1>2, <1>3, <1>4

\* "At least as good" is transitive: the order of blocks is total.
LEMMA NotBeforeTransitive ==
  ASSUME NEW a \in Block, NEW b \in Block, NEW c \in Block, ~Before(a, b), ~Before(b, c)
  PROVE  ~Before(a, c)
<1>1. /\ Len(a) \in Nat /\ BlockTerm(a) \in Nat
      /\ a = Genesis \/ a[Len(a)].id \in Nat
      /\ a = Genesis <=> Len(a) = 0
  BY OrderFacts
<1>2. /\ Len(b) \in Nat /\ BlockTerm(b) \in Nat
      /\ b = Genesis \/ b[Len(b)].id \in Nat
      /\ b = Genesis <=> Len(b) = 0
  BY OrderFacts
<1>3. /\ Len(c) \in Nat /\ BlockTerm(c) \in Nat
      /\ c = Genesis \/ c[Len(c)].id \in Nat
      /\ c = Genesis <=> Len(c) = 0
  BY OrderFacts
<1>. QED BY <1>1, <1>2, <1>3 DEF Before, IdBefore

\* A block that is at least as good is of the same or a later term, and in the same term
\* it is at least as long; Genesis is the worst.
LEMMA NotBeforeFacts ==
  ASSUME NEW b \in Block, NEW c \in Block, ~Before(c, b)
  PROVE  /\ BlockTerm(b) <= BlockTerm(c)
         /\ BlockTerm(b) = BlockTerm(c) => Len(b) <= Len(c)
         /\ b # Genesis => c # Genesis
  BY BlockFacts DEF Before

\* Of two blocks, Later is one of them and at least as good as both.
LEMMA LaterFacts ==
  ASSUME NEW b \in Block, NEW c \in Block
  PROVE  /\ Later(b, c) \in {b, c}
         /\ ~Before(Later(b, c), b) /\ ~Before(Later(b, c), c)
<1>1. Len(b) \in Nat /\ BlockTerm(b) \in Nat /\ (b = Genesis \/ b[Len(b)].id \in Nat)
  BY OrderFacts
<1>2. Len(c) \in Nat /\ BlockTerm(c) \in Nat /\ (c = Genesis \/ c[Len(c)].id \in Nat)
  BY OrderFacts
<1>3. ~Before(b, b) /\ ~Before(c, c)
  BY <1>1, <1>2 DEF Before, IdBefore
<1>4. ~(Before(b, c) /\ Before(c, b))
  BY <1>1, <1>2 DEF Before, IdBefore
<1>. QED BY <1>3, <1>4 DEF Later

-----------------------------------------------------------------------------
(* The inductive invariant *)

\* A producer announces the terms that it enters, and confirms blocks of terms that it has
\* entered.
MessagesOfPast ==
  /\ \A v \in views : v.term <= term[v.producer]
  /\ \A p \in Producer : BlockTerm(best_confirm[p]) <= term[p]

\* What is reported as prepared has been prepared by a quorum.
BestIsPrepared ==
  /\ \A p \in Producer : best_prepared[p] = Genesis \/ Prepared(best_prepared[p])
  /\ \A v \in views : v.best = Genesis \/ Prepared(v.best)

\* A producer commits what a quorum has prepared, and keeps the block, or a better one, as
\* its best: every view change of a later term reports it.
CommitsReported ==
  \A p \in Producer, b \in blocks :
    <<p, b>> \in commits =>
      /\ Prepared(b) /\ ~Before(best_prepared[p], b)
      /\ \A v \in views : v.producer = p /\ BlockTerm(b) < v.term => ~Before(v.best, b)

\* The blocks that a producer has prepared in the term of its last confirmation lead to
\* the block confirmed last, and those of any term are on one chain.
OneForkPerTerm ==
  \A p \in Producer, b \in blocks :
    <<p, b>> \in prepares =>
      /\ BlockTerm(b) <= BlockTerm(best_confirm[p])
      /\ BlockTerm(b) = BlockTerm(best_confirm[p]) => Prefix(b, best_confirm[p])
      /\ \A c \in blocks :
           <<p, c>> \in prepares /\ BlockTerm(b) = BlockTerm(c) => Comparable(b, c)

\* A quorum has left the term of the block without committing it.
Hopeless(b) ==
  \E Q \in Quorum : \A p \in Q : term[p] > BlockTerm(b) /\ <<p, b>> \notin commits

\* A block of an earlier term is an ancestor, or no quorum will ever commit it.
BuiltOnCommitted ==
  \A c \in blocks, b \in Block :
    BlockTerm(b) < BlockTerm(c) => Prefix(b, c) \/ Hopeless(b)

Inv ==
  /\ TypeOK /\ MessagesOfPast /\ BestIsPrepared /\ CommitsReported
  /\ OneForkPerTerm /\ BuiltOnCommitted

-----------------------------------------------------------------------------
(* Consequences of the invariant *)

\* Two quorums share a producer, and a quorum is not empty.
LEMMA QuorumsMeet ==
  ASSUME NEW P \in Quorum, NEW Q \in Quorum
  PROVE  \E p \in Producer : p \in P /\ p \in Q
  BY QuorumAssumption

\* Quorums never prepare two forks of a term: their common producer would have.
LEMMA OnePreparedChainHolds ==
  ASSUME TypeOK, OneForkPerTerm
  PROVE  OnePreparedChain
<1>. SUFFICES ASSUME NEW b \in blocks, NEW c \in blocks, Prepared(b), Prepared(c),
                     BlockTerm(b) = BlockTerm(c)
              PROVE  Comparable(b, c)
  BY DEF OnePreparedChain
<1>1. PICK P \in Quorum : PreparedBy(P, b)
  BY DEF Prepared
<1>2. PICK Q \in Quorum : PreparedBy(Q, c)
  BY DEF Prepared
<1>3. PICK p \in Producer : p \in P /\ p \in Q
  BY QuorumsMeet
<1>4. <<p, b>> \in prepares /\ <<p, c>> \in prepares
  BY <1>1, <1>2, <1>3 DEF PreparedBy
<1>. QED BY <1>4 DEF OneForkPerTerm

\* Of two prepared blocks of a term, the better one is a descendant of the other.
LEMMA BetterIsDescendant ==
  ASSUME TypeOK, OnePreparedChain, NEW b \in blocks, NEW c \in blocks,
         Prepared(b), Prepared(c), BlockTerm(b) = BlockTerm(c), ~Before(c, b)
  PROVE  Prefix(b, c)
<1>1. b \in Block /\ c \in Block
  BY DEF TypeOK
<1>2. Comparable(b, c)
  BY DEF OnePreparedChain
<1>3. Len(b) <= Len(c) /\ Len(b) \in Nat /\ Len(c) \in Nat
  BY <1>1, NotBeforeFacts, BlockFacts
<1>4. CASE Prefix(c, b)
  <2>1. Len(c) = Len(b)
    BY <1>3, <1>4 DEF Prefix
  <2>2. c = b
    BY <1>1, <1>4, <2>1, PrefixSameLength
  <2>. QED BY <1>4, <2>2
<1>. QED BY <1>2, <1>4 DEF Comparable

\* A block that a quorum has committed is not hopeless.
LEMMA CommittedIsFinalHolds ==
  ASSUME TypeOK, BuiltOnCommitted
  PROVE  CommittedIsFinal
<1>. SUFFICES ASSUME NEW b \in blocks, NEW c \in blocks, Committed(b),
                     BlockTerm(b) < BlockTerm(c), Hopeless(b)
              PROVE  FALSE
  BY DEF CommittedIsFinal, BuiltOnCommitted, TypeOK
<1>1. PICK P \in Quorum : CommittedBy(P, b)
  BY DEF Committed
<1>2. PICK Q \in Quorum : \A p \in Q : <<p, b>> \notin commits
  BY DEF Hopeless
<1>3. PICK p \in Producer : p \in P /\ p \in Q
  BY QuorumsMeet
<1>. QED BY <1>1, <1>2, <1>3 DEF CommittedBy

\* A quorum commits only what a quorum has prepared.
LEMMA CommittedIsPrepared ==
  ASSUME TypeOK, CommitsReported, NEW b \in blocks, Committed(b)
  PROVE  Prepared(b)
<1>1. PICK Q \in Quorum : CommittedBy(Q, b)
  BY DEF Committed
<1>2. PICK p \in Producer : p \in Q
  BY QuorumsMeet
<1>. QED BY <1>1, <1>2 DEF CommittedBy, CommitsReported

\* Whatever a node commits is on one chain with whatever another node commits.
LEMMA AgreementHolds ==
  ASSUME Inv
  PROVE  Agreement
<1>. SUFFICES ASSUME NEW b \in blocks, NEW c \in blocks, Committed(b), Committed(c)
              PROVE  Comparable(b, c)
  BY DEF Agreement
<1>1. BlockTerm(b) \in Nat /\ BlockTerm(c) \in Nat
  BY BlockFacts DEF Inv, TypeOK
<1>2. OnePreparedChain /\ CommittedIsFinal
  BY OnePreparedChainHolds, CommittedIsFinalHolds DEF Inv
<1>3. CASE BlockTerm(b) = BlockTerm(c)
  <2>1. Prepared(b)
    BY CommittedIsPrepared DEF Inv
  <2>2. Prepared(c)
    BY CommittedIsPrepared DEF Inv
  <2>. QED BY <1>2, <1>3, <2>1, <2>2 DEF OnePreparedChain
<1>4. CASE BlockTerm(b) < BlockTerm(c)
  BY <1>2, <1>4 DEF CommittedIsFinal, Comparable
<1>5. CASE BlockTerm(c) < BlockTerm(b)
  BY <1>2, <1>5 DEF CommittedIsFinal, Comparable
<1>. QED BY <1>1, <1>3, <1>4, <1>5

\* A better prepared block than a committed one is its descendant.
LEMMA VerifyCommitHolds ==
  ASSUME Inv
  PROVE  VerifyCommit
<1>. SUFFICES ASSUME NEW p \in Producer, NEW b \in blocks, Committed(b),
                     Before(b, best_prepared[p])
              PROVE  Prefix(b, best_prepared[p])
  BY DEF VerifyCommit
<1>. DEFINE c == best_prepared[p]
<1>1. b \in Block /\ b # Genesis /\ c \in blocks \cup {Genesis}
  BY DEF Inv, TypeOK
<1>2. c # Genesis
  BY <1>1, OrderFacts, BlockFacts DEF Before
<1>3. c \in blocks /\ c \in Block /\ Prepared(c)
  BY <1>1, <1>2 DEF Inv, TypeOK, BestIsPrepared
<1>4. ~Before(c, b)
  BY <1>1, <1>3, LaterFacts DEF Later
<1>5. BlockTerm(b) <= BlockTerm(c) /\ BlockTerm(b) \in Nat /\ BlockTerm(c) \in Nat
  BY <1>1, <1>3, <1>4, NotBeforeFacts, BlockFacts
<1>6. OnePreparedChain /\ CommittedIsFinal
  BY OnePreparedChainHolds, CommittedIsFinalHolds DEF Inv
<1>7. CASE BlockTerm(b) = BlockTerm(c)
  <2>1. Prepared(b)
    BY CommittedIsPrepared DEF Inv
  <2>. QED BY <1>3, <1>4, <1>6, <1>7, <2>1, BetterIsDescendant DEF Inv
<1>8. CASE BlockTerm(b) < BlockTerm(c)
  BY <1>3, <1>6, <1>8 DEF CommittedIsFinal
<1>. QED BY <1>5, <1>7, <1>8

-----------------------------------------------------------------------------
(* Every step preserves the invariant *)

\* What the types say of terms and blocks.
LEMMA TypeFacts ==
  ASSUME TypeOK
  PROVE  /\ \A p \in Producer :
              /\ term[p] \in Nat /\ best_prepared[p] \in Block /\ best_confirm[p] \in Block
              /\ BlockTerm(best_confirm[p]) \in Nat
         /\ \A v \in views : v.term \in Nat /\ v.producer \in Producer /\ v.best \in Block
         /\ \A b \in blocks : b \in Block /\ BlockTerm(b) \in Nat
<1>1. Genesis \in Block
  BY DEF Genesis, Block
<1>2. ASSUME NEW p \in Producer
      PROVE  term[p] \in Nat /\ best_prepared[p] \in Block /\ best_confirm[p] \in Block
  BY <1>1, TermAssumption DEF TypeOK
<1>3. ASSUME NEW p \in Producer PROVE BlockTerm(best_confirm[p]) \in Nat
  BY <1>2, BlockFacts
<1>4. ASSUME NEW v \in views
      PROVE  v.term \in Nat /\ v.producer \in Producer /\ v.best \in Block
  BY TermAssumption DEF TypeOK, View
<1>5. ASSUME NEW b \in blocks PROVE b \in Block /\ BlockTerm(b) \in Nat
  BY BlockFacts DEF TypeOK
<1>. QED BY <1>2, <1>3, <1>4, <1>5

\* Prepares are not taken back.
LEMMA PreparedStays ==
  ASSUME prepares \subseteq prepares', NEW b, Prepared(b)
  PROVE  Prepared(b)'
  BY DEF Prepared, PreparedBy

\* A term once left is not entered again, so a block that is hopeless stays so.
LEMMA HopelessStays ==
  ASSUME TypeOK, TypeOK', NEW b \in Block, Hopeless(b),
         \A p \in Producer : term[p] <= term'[p],
         \A p \in Producer : <<p, b>> \in commits' /\ <<p, b>> \notin commits
                                => term[p] = BlockTerm(b)
  PROVE  Hopeless(b)'
<1>1. PICK Q \in Quorum : \A p \in Q : term[p] > BlockTerm(b) /\ <<p, b>> \notin commits
  BY DEF Hopeless
<1>2. ASSUME NEW p \in Q PROVE term'[p] > BlockTerm(b) /\ <<p, b>> \notin commits'
  <2>1. p \in Producer
    BY QuorumAssumption
  <2>2. term[p] \in Nat /\ term'[p] \in Nat /\ BlockTerm(b) \in Nat
    BY <2>1, BlockFacts, TermAssumption DEF TypeOK
  <2>. QED BY <1>1, <2>1, <2>2
<1>. QED BY <1>2 DEF Hopeless

\* set_view reports the best prepared block, which is at least as good as what p has
\* committed.
LEMMA SetViewKeepsInv ==
  ASSUME Inv, NEW p \in Producer, NEW t \in Term, set_view(p, t)
  PROVE  Inv'
<1>. DEFINE w == [term |-> t, producer |-> p, best |-> best_prepared[p]]
<1>0. /\ t > term[p] /\ term' = [term EXCEPT ![p] = t] /\ views' = views \cup {w}
      /\ UNCHANGED <<best_prepared, best_confirm, blocks, prepares, commits>>
  BY DEF set_view, sync_current_term
<1>a. TypeOK /\ term \in [Producer -> Term] /\ \A q \in Producer : term[q] \in Nat
  BY TermAssumption DEF Inv, TypeOK
<1>1. TypeOK'
  <2>1. best_prepared[p] \in blocks \cup {Genesis} /\ best_prepared[p] \in Block
    BY <1>a, TypeFacts DEF TypeOK
  <2>2. w \in View /\ w.best \in blocks \cup {Genesis}
    BY <1>a, <2>1 DEF View
  <2>. QED BY <1>0, <1>a, <2>2 DEF TypeOK
<1>2. ASSUME NEW q \in Producer
      PROVE  term[q] <= term'[q] /\ term[q] \in Nat /\ term'[q] \in Nat
  <2>1. t \in Nat /\ term'[q] = IF q = p THEN t ELSE term[q]
    BY <1>0, <1>a, TermAssumption
  <2>. QED BY <1>0, <1>a, <2>1
<1>3. MessagesOfPast'
  <2>1. ASSUME NEW v \in views' PROVE v.term <= term'[v.producer]
    <3>1. CASE v = w
      <4>1. t \in Nat /\ term'[p] = t
        BY <1>0, <1>a, TermAssumption
      <4>. QED BY <3>1, <4>1
    <3>2. CASE v \in views
      <4>1. v.producer \in Producer /\ v.term \in Nat /\ v.term <= term[v.producer]
        BY <1>a, <3>2, TypeFacts DEF Inv, MessagesOfPast
      <4>. QED BY <1>2, <4>1
    <3>. QED BY <1>0, <3>1, <3>2
  <2>2. ASSUME NEW q \in Producer PROVE BlockTerm(best_confirm[q]) <= term'[q]
    <3>1. BlockTerm(best_confirm[q]) \in Nat
      BY <1>a, TypeFacts
    <3>. QED BY <1>2, <3>1 DEF Inv, MessagesOfPast
  <2>. QED BY <1>0, <2>1, <2>2 DEF MessagesOfPast
<1>4. BestIsPrepared'
  <2>1. \A b : Prepared(b)' <=> Prepared(b)
    BY <1>0 DEF Prepared, PreparedBy
  <2>. QED BY <1>0, <2>1 DEF Inv, BestIsPrepared
<1>5. CommitsReported'
  <2>. SUFFICES ASSUME NEW q \in Producer, NEW b \in blocks, <<q, b>> \in commits
                PROVE  /\ Prepared(b)' /\ ~Before(best_prepared[q], b)
                       /\ \A v \in views' : v.producer = q /\ BlockTerm(b) < v.term
                                              => ~Before(v.best, b)
    BY <1>0 DEF CommitsReported
  <2>1. Prepared(b)' /\ ~Before(best_prepared[q], b)
    BY <1>0, PreparedStays DEF Inv, CommitsReported
  <2>2. ASSUME NEW v \in views', v.producer = q, BlockTerm(b) < v.term
        PROVE  ~Before(v.best, b)
    BY <1>0, <2>1, <2>2 DEF Inv, CommitsReported
  <2>. QED BY <2>1, <2>2
<1>6. OneForkPerTerm'
  BY <1>0 DEF Inv, OneForkPerTerm
<1>7. BuiltOnCommitted'
  <2>. SUFFICES ASSUME NEW c \in blocks, NEW b \in Block, BlockTerm(b) < BlockTerm(c),
                       Hopeless(b)
                PROVE  Hopeless(b)'
    BY <1>0 DEF Inv, BuiltOnCommitted
  <2>. QED BY <1>0, <1>a, <1>1, <1>2, HopelessStays
<1>. QED BY <1>1, <1>3, <1>4, <1>5, <1>6, <1>7 DEF Inv

\* set_root repeats the view change of the leader's term.
LEMMA SetRootKeepsInv ==
  ASSUME Inv, NEW p \in Producer, set_root(p)
  PROVE  Inv'
<1>. DEFINE w == [term |-> term[p], producer |-> p, best |-> best_prepared[p]]
<1>0. /\ views' = views \cup {w}
      /\ UNCHANGED <<term, best_prepared, best_confirm, blocks, prepares, commits>>
  BY DEF set_root, sync_current_term
<1>a. TypeOK /\ term \in [Producer -> Term] /\ \A q \in Producer : term[q] \in Nat
  BY TermAssumption DEF Inv, TypeOK
<1>1. TypeOK'
  <2>1. best_prepared[p] \in blocks \cup {Genesis} /\ best_prepared[p] \in Block
    BY <1>a, TypeFacts DEF TypeOK
  <2>2. w \in View /\ w.best \in blocks \cup {Genesis}
    BY <1>a, <2>1 DEF View
  <2>. QED BY <1>0, <1>a, <2>2 DEF TypeOK
<1>2. MessagesOfPast'
  <2>1. w.term <= term[w.producer]
    BY <1>a
  <2>. QED BY <1>0, <2>1 DEF Inv, MessagesOfPast
<1>3. BestIsPrepared'
  <2>1. \A b : Prepared(b)' <=> Prepared(b)
    BY <1>0 DEF Prepared, PreparedBy
  <2>. QED BY <1>0, <2>1 DEF Inv, BestIsPrepared
<1>4. CommitsReported'
  <2>. SUFFICES ASSUME NEW q \in Producer, NEW b \in blocks, <<q, b>> \in commits
                PROVE  /\ Prepared(b)' /\ ~Before(best_prepared[q], b)
                       /\ \A v \in views' : v.producer = q /\ BlockTerm(b) < v.term
                                              => ~Before(v.best, b)
    BY <1>0 DEF CommitsReported
  <2>1. Prepared(b)' /\ ~Before(best_prepared[q], b)
    BY <1>0, PreparedStays DEF Inv, CommitsReported
  <2>2. ASSUME NEW v \in views', v.producer = q, BlockTerm(b) < v.term
        PROVE  ~Before(v.best, b)
    BY <1>0, <2>1, <2>2 DEF Inv, CommitsReported
  <2>. QED BY <2>1, <2>2
<1>5. OneForkPerTerm'
  BY <1>0 DEF Inv, OneForkPerTerm
<1>6. BuiltOnCommitted'
  BY <1>0 DEF Inv, BuiltOnCommitted, Hopeless
<1>. QED BY <1>1, <1>2, <1>3, <1>4, <1>5, <1>6 DEF Inv

\* A new block is built on every block of an earlier term that may still be committed: a
\* producer of the leader's quorum either reported it or will not commit it any more.
LEMMA ProduceIsSafe ==
  ASSUME Inv, NEW c \in Block, NEW b \in Block, NEW v \in views, is_term_ready(v),
         Prefix(v.best, c), BlockTerm(b) < v.term
  PROVE  Prefix(b, c) \/ Hopeless(b)
<1>1. PICK Q \in Quorum : \A p \in Q : \E w \in views :
        w.producer = p /\ w.term = v.term /\ ~Before(v.best, w.best)
  BY DEF is_term_ready
<1>2. Q \subseteq Producer /\ TypeOK
  BY QuorumAssumption DEF Inv
<1>3. CASE \A p \in Q : <<p, b>> \notin commits
  <2>1. ASSUME NEW p \in Q PROVE term[p] > BlockTerm(b)
    <3>1. PICK w \in views : w.producer = p /\ w.term = v.term
      BY <1>1
    <3>2. w.term <= term[p]
      BY <3>1 DEF Inv, MessagesOfPast
    <3>3. term[p] \in Nat /\ v.term \in Nat /\ BlockTerm(b) \in Nat
      BY <1>2, TypeFacts, BlockFacts
    <3>. QED BY <3>1, <3>2, <3>3
  <2>. QED BY <1>3, <2>1 DEF Hopeless
<1>4. CASE \E p \in Q : <<p, b>> \in commits
  <2>1. PICK p \in Q : <<p, b>> \in commits
    BY <1>4
  <2>2. p \in Producer /\ b \in blocks /\ b # Genesis
    BY <1>2, <2>1 DEF TypeOK
  <2>3. PICK w \in views : w.producer = p /\ w.term = v.term /\ ~Before(v.best, w.best)
    BY <1>1
  <2>4. Prepared(b) /\ ~Before(w.best, b)
    BY <2>1, <2>2, <2>3 DEF Inv, CommitsReported
  <2>5. v.best \in Block /\ w.best \in Block
    BY <1>2, TypeFacts
  <2>6. ~Before(v.best, b)
    BY <2>3, <2>4, <2>5, NotBeforeTransitive
  <2>7. /\ BlockTerm(b) <= BlockTerm(v.best) /\ v.best # Genesis
        /\ BlockTerm(b) \in Nat /\ BlockTerm(v.best) \in Nat
    BY <2>2, <2>5, <2>6, NotBeforeFacts, BlockFacts
  <2>8. v.best \in blocks /\ Prepared(v.best)
    BY <1>2, <2>7 DEF Inv, TypeOK, BestIsPrepared
  <2>9. Prefix(b, v.best) => Prefix(b, c)
    BY <2>5, PrefixTransitive
  <2>10. CASE BlockTerm(b) = BlockTerm(v.best)
    <3>1. OnePreparedChain
      BY <1>2, OnePreparedChainHolds DEF Inv
    <3>. QED BY <1>2, <2>2, <2>4, <2>6, <2>8, <2>9, <2>10, <3>1, BetterIsDescendant
  <2>11. CASE BlockTerm(b) < BlockTerm(v.best)
    BY <2>8, <2>9, <2>11 DEF Inv, BuiltOnCommitted
  <2>. QED BY <2>7, <2>10, <2>11
<1>. QED BY <1>3, <1>4

\* ProduceBlock
LEMMA ProduceBlockKeepsInv ==
  ASSUME Inv, NEW p \in Producer, NEW b0 \in blocks \cup {Genesis}, NEW h \in Header,
         ProduceBlock(p, b0, h)
  PROVE  Inv'
<1>. DEFINE c == Append(b0, h)
<1>0. /\ blocks' = blocks \cup {c} /\ h.term = term[p]
      /\ UNCHANGED <<term, best_prepared, best_confirm, views, prepares, commits>>
  BY DEF ProduceBlock
<1>b. Genesis \in Block
  BY DEF Block, Genesis
<1>a. TypeOK /\ b0 \in Block
  BY <1>b, TypeFacts DEF Inv
<1>1. /\ c \in Block \ {Genesis} /\ BlockTerm(c) = term[p]
      /\ \A a \in Block : Prefix(a, b0) => Prefix(a, c)
  BY <1>0, <1>a, AppendFacts
<1>. HIDE DEF c
<1>2. TypeOK'
  BY <1>0, <1>a, <1>1 DEF TypeOK
<1>3. MessagesOfPast'
  BY <1>0 DEF Inv, MessagesOfPast
<1>c. \A b : Prepared(b)' <=> Prepared(b)
  BY <1>0 DEF Prepared, PreparedBy
<1>4. BestIsPrepared'
  BY <1>0, <1>c DEF Inv, BestIsPrepared
<1>5. CommitsReported'
  <2>. SUFFICES ASSUME NEW q \in Producer, NEW b \in blocks', <<q, b>> \in commits
                PROVE  /\ Prepared(b) /\ ~Before(best_prepared[q], b)
                       /\ \A v \in views : v.producer = q /\ BlockTerm(b) < v.term
                                              => ~Before(v.best, b)
    BY <1>0, <1>c DEF CommitsReported
  <2>1. b \in blocks
    BY <1>a DEF TypeOK
  <2>. QED BY <2>1 DEF Inv, CommitsReported
<1>6. OneForkPerTerm'
  <2>. SUFFICES ASSUME NEW q \in Producer, NEW b \in blocks', <<q, b>> \in prepares
                PROVE  /\ BlockTerm(b) <= BlockTerm(best_confirm[q])
                       /\ BlockTerm(b) = BlockTerm(best_confirm[q]) => Prefix(b, best_confirm[q])
                       /\ \A d \in blocks' :
                            <<q, d>> \in prepares /\ BlockTerm(b) = BlockTerm(d)
                              => Comparable(b, d)
    BY <1>0 DEF OneForkPerTerm
  <2>1. b \in blocks /\ \A d : <<q, d>> \in prepares => d \in blocks
    BY <1>a DEF TypeOK
  <2>. QED BY <2>1 DEF Inv, OneForkPerTerm
<1>7. BuiltOnCommitted'
  <2>. SUFFICES ASSUME NEW d \in blocks', NEW b \in Block, BlockTerm(b) < BlockTerm(d)
                PROVE  Prefix(b, d) \/ Hopeless(b)
    BY <1>0 DEF BuiltOnCommitted, Hopeless
  <2>1. CASE d \in blocks
    BY <2>1 DEF Inv, BuiltOnCommitted
  <2>2. CASE d = c
    <3>1. PICK v \in views : v.term = term[p] /\ is_term_ready(v) /\ Prefix(v.best, b0)
      BY DEF ProduceBlock
    <3>2. v.best \in Block
      BY <1>a, TypeFacts
    <3>3. Prefix(v.best, c)
      BY <1>1, <3>1, <3>2
    <3>4. BlockTerm(b) < v.term
      BY <1>1, <2>2, <3>1
    <3>. QED BY <1>1, <2>2, <3>1, <3>3, <3>4, ProduceIsSafe
  <2>. QED BY <1>0, <2>1, <2>2
<1>. QED BY <1>2, <1>3, <1>4, <1>5, <1>6, <1>7 DEF Inv

\* What can_prepare and can_commit allow is on the chain of the last confirmation, or of a
\* later term.
LEMMA ConfirmFacts ==
  ASSUME Inv, NEW p \in Producer, NEW b \in blocks, CanConfirm(p, b)
  PROVE  LET c == best_confirm[p]  d == Later(c, b)
         IN  /\ d \in blocks /\ BlockTerm(d) = BlockTerm(b) /\ BlockTerm(c) <= BlockTerm(b)
             /\ Prefix(b, d)
             /\ BlockTerm(c) = BlockTerm(b) => Prefix(c, d)
<1>. DEFINE c == best_confirm[p]
            d == Later(c, b)
<1>1. /\ c \in Block /\ b \in Block /\ b # Genesis /\ c \in blocks \cup {Genesis}
      /\ BlockTerm(c) \in Nat /\ BlockTerm(b) \in Nat
  BY TypeFacts DEF Inv, TypeOK
<1>2. BlockTerm(b) = term[p] /\ BlockTerm(c) <= BlockTerm(b)
  BY DEF CanConfirm, Inv, MessagesOfPast
<1>3. d \in {b, c} /\ ~Before(d, c) /\ ~Before(d, b)
  BY <1>1, LaterFacts
<1>4. Len(b) \in Nat /\ Len(c) \in Nat /\ Prefix(b, b) /\ Prefix(c, c)
  BY <1>1, BlockFacts DEF Prefix
<1>5. CASE BlockTerm(c) < BlockTerm(b)
  <2>1. d = b
    BY <1>1, <1>5 DEF Later, Before
  <2>. QED BY <1>1, <1>2, <1>4, <1>5, <2>1
<1>6. CASE c = Genesis
  <2>1. d = b
    <3>1. d # Genesis
      BY <1>1, <1>3, NotBeforeFacts
    <3>. QED BY <1>3, <1>6, <3>1
  <2>2. Prefix(c, d)
    BY <1>4, <1>6, <2>1, BlockFacts, <1>1 DEF Prefix, Genesis
  <2>. QED BY <1>1, <1>2, <1>4, <2>1, <2>2
<1>7. CASE c # Genesis /\ BlockTerm(c) = BlockTerm(b)
  <2>1. Comparable(c, b)
    BY <1>1, <1>7 DEF CanConfirm, is_forbidden_fork
  <2>2. CASE d = b
    <3>1. Len(c) <= Len(b)
      BY <1>1, <1>3, <1>7, <2>2, NotBeforeFacts
    <3>2. Prefix(c, b)
      <4>1. CASE Prefix(b, c)
        <5>1. Len(b) = Len(c)
          BY <1>4, <3>1, <4>1 DEF Prefix
        <5>2. b = c
          BY <1>1, <4>1, <5>1, PrefixSameLength
        <5>. QED BY <4>1, <5>2
      <4>. QED BY <2>1, <4>1 DEF Comparable
    <3>. QED BY <1>1, <1>2, <1>4, <2>2, <3>2
  <2>3. CASE d = c
    <3>1. Len(b) <= Len(c)
      BY <1>1, <1>3, <1>7, <2>3, NotBeforeFacts
    <3>2. Prefix(b, c)
      <4>1. CASE Prefix(c, b)
        <5>1. Len(b) = Len(c)
          BY <1>4, <3>1, <4>1 DEF Prefix
        <5>2. b = c
          BY <1>1, <4>1, <5>1, PrefixSameLength
        <5>. QED BY <4>1, <5>2
      <4>. QED BY <2>1, <4>1 DEF Comparable
    <3>. QED BY <1>1, <1>2, <1>4, <1>7, <2>3, <3>2
  <2>. QED BY <1>3, <2>2, <2>3
<1>. QED BY <1>1, <1>2, <1>5, <1>6, <1>7

\* Two ancestors of a block are on one chain.
LEMMA AncestorsComparable ==
  ASSUME NEW a \in Block, NEW b \in Block, NEW c \in Block, Prefix(a, c), Prefix(b, c)
  PROVE  Comparable(a, b)
<1>1. Len(a) \in Nat /\ Len(b) \in Nat
  BY BlockFacts
<1>2. CASE Len(a) <= Len(b)
  <2>1. ASSUME NEW i \in 1..Len(a) PROVE a[i] = b[i]
    BY <1>1, <1>2 DEF Prefix
  <2>. QED BY <1>2, <2>1 DEF Prefix, Comparable
<1>3. CASE Len(b) <= Len(a)
  <2>1. ASSUME NEW i \in 1..Len(b) PROVE b[i] = a[i]
    BY <1>1, <1>3 DEF Prefix
  <2>. QED BY <1>3, <2>1 DEF Prefix, Comparable
<1>. QED BY <1>1, <1>2, <1>3

\* A confirmation moves best_confirm along the fork of its term, or into a later term.
LEMMA ConfirmKeepsFork ==
  ASSUME Inv, NEW p \in Producer, NEW b \in blocks, CanConfirm(p, b),
         best_confirm' = [best_confirm EXCEPT ![p] = Later(@, b)],
         blocks' = blocks, term' = term, views' = views,
         prepares \subseteq prepares', prepares' \subseteq prepares \cup {<<p, b>>}
  PROVE  OneForkPerTerm' /\ MessagesOfPast' /\ best_confirm' \in [Producer -> blocks \cup {Genesis}]
<1>. DEFINE c == best_confirm[p]
            d == Later(c, b)
<1>1. /\ d \in blocks /\ BlockTerm(d) = BlockTerm(b) /\ BlockTerm(c) <= BlockTerm(b)
      /\ Prefix(b, d)
      /\ BlockTerm(c) = BlockTerm(b) => Prefix(c, d)
  BY ConfirmFacts
<1>2. TypeOK /\ BlockTerm(b) = term[p]
  BY DEF Inv, CanConfirm
<1>3. /\ best_confirm \in [Producer -> blocks \cup {Genesis}]
      /\ \A q \in Producer : best_confirm'[q] = IF q = p THEN d ELSE best_confirm[q]
  BY <1>2 DEF TypeOK
<1>. HIDE DEF d
<1>4. best_confirm' \in [Producer -> blocks \cup {Genesis}]
  BY <1>1, <1>2 DEF TypeOK, d
<1>5. MessagesOfPast'
  <2>1. term[p] \in Nat
    BY <1>2, TypeFacts
  <2>2. \A q \in Producer : BlockTerm(best_confirm'[q]) <= term[q]
    BY <1>1, <1>2, <1>3, <2>1 DEF Inv, MessagesOfPast
  <2>. QED BY <2>2 DEF Inv, MessagesOfPast
<1>6. \A a \in blocks : a \in Block /\ BlockTerm(a) \in Nat
  BY <1>2, TypeFacts
<1>7. c \in Block /\ BlockTerm(c) \in Nat
  BY <1>2, TypeFacts
<1>8. ASSUME NEW a \in blocks, <<p, a>> \in prepares'
      PROVE  BlockTerm(a) <= BlockTerm(d) /\ (BlockTerm(a) = BlockTerm(d) => Prefix(a, d))
  <2>1. CASE a = b
    BY <1>1, <1>6, <2>1
  <2>2. CASE <<p, a>> \in prepares
    <3>1. BlockTerm(a) <= BlockTerm(c) /\ (BlockTerm(a) = BlockTerm(c) => Prefix(a, c))
      BY <2>2 DEF Inv, OneForkPerTerm
    <3>2. BlockTerm(a) \in Nat /\ BlockTerm(d) \in Nat /\ a \in Block /\ d \in Block
      BY <1>1, <1>6
    <3>3. BlockTerm(a) <= BlockTerm(d)
      BY <1>1, <1>7, <3>1, <3>2
    <3>4. ASSUME BlockTerm(a) = BlockTerm(d) PROVE Prefix(a, d)
      <4>1. BlockTerm(a) = BlockTerm(c) /\ BlockTerm(c) = BlockTerm(b)
        BY <1>1, <1>7, <3>1, <3>2, <3>4
      <4>2. Prefix(a, c) /\ Prefix(c, d)
        BY <1>1, <3>1, <4>1
      <4>. QED BY <1>7, <3>2, <4>2, PrefixTransitive
    <3>. QED BY <3>3, <3>4
  <2>. QED BY <1>8, <2>1, <2>2
<1>9. ASSUME NEW a \in blocks, NEW e \in blocks, <<p, a>> \in prepares', <<p, e>> \in prepares',
             BlockTerm(a) = BlockTerm(e)
      PROVE  Comparable(a, e)
  <2>1. CASE <<p, a>> \in prepares /\ <<p, e>> \in prepares
    BY <1>9, <2>1 DEF Inv, OneForkPerTerm
  <2>2. CASE a = b \/ e = b
    <3>1. BlockTerm(a) = BlockTerm(d) /\ BlockTerm(e) = BlockTerm(d)
      BY <1>1, <1>9, <2>2
    <3>2. Prefix(a, d) /\ Prefix(e, d)
      BY <1>8, <1>9, <3>1
    <3>. QED BY <1>1, <1>6, <3>2, AncestorsComparable
  <2>. QED BY <1>9, <2>1, <2>2
<1>10. OneForkPerTerm'
  <2>. SUFFICES ASSUME NEW q \in Producer, NEW a \in blocks, <<q, a>> \in prepares'
                PROVE  /\ BlockTerm(a) <= BlockTerm(best_confirm'[q])
                       /\ BlockTerm(a) = BlockTerm(best_confirm'[q]) => Prefix(a, best_confirm'[q])
                       /\ \A e \in blocks :
                            <<q, e>> \in prepares' /\ BlockTerm(a) = BlockTerm(e)
                              => Comparable(a, e)
    BY DEF OneForkPerTerm
  <2>1. CASE q = p
    BY <1>3, <1>8, <1>9, <2>1
  <2>2. CASE q # p
    <3>1. \A e : <<q, e>> \in prepares' => <<q, e>> \in prepares
      BY <2>2
    <3>. QED BY <1>3, <2>2, <3>1 DEF Inv, OneForkPerTerm
  <2>. QED BY <2>1, <2>2
<1>. QED BY <1>4, <1>5, <1>10

\* Prepare
LEMMA PrepareKeepsInv ==
  ASSUME Inv, NEW p \in Producer, NEW b \in blocks, Prepare(p, b)
  PROVE  Inv'
<1>0. /\ CanConfirm(p, b) /\ prepares' = prepares \cup {<<p, b>>}
      /\ best_confirm' = [best_confirm EXCEPT ![p] = Later(@, b)]
      /\ UNCHANGED <<term, best_prepared, blocks, views, commits>>
  BY DEF Prepare
<1>1. OneForkPerTerm' /\ MessagesOfPast' /\ best_confirm' \in [Producer -> blocks \cup {Genesis}]
  BY <1>0, ConfirmKeepsFork
<1>2. TypeOK'
  BY <1>0, <1>1 DEF Inv, TypeOK
<1>3. \A a : Prepared(a) => Prepared(a)'
  BY <1>0, PreparedStays
<1>4. BestIsPrepared'
  BY <1>0, <1>3 DEF Inv, BestIsPrepared
<1>5. CommitsReported'
  BY <1>0, <1>3 DEF Inv, CommitsReported
<1>6. BuiltOnCommitted'
  BY <1>0 DEF Inv, BuiltOnCommitted, Hopeless
<1>. QED BY <1>1, <1>2, <1>4, <1>5, <1>6 DEF Inv

\* A block that some producer prefers to its best prepared block becomes the best.
LEMMA RaiseBest ==
  ASSUME Inv, NEW p \in Producer, NEW b \in blocks, Prepared(b),
         best_prepared' = [best_prepared EXCEPT ![p] = Later(@, b)]
  PROVE  /\ best_prepared' \in [Producer -> blocks \cup {Genesis}]
         /\ \A q \in Producer : best_prepared'[q] = Genesis \/ Prepared(best_prepared'[q])
         /\ \A q \in Producer, a \in Block :
              ~Before(best_prepared[q], a) => ~Before(best_prepared'[q], a)
         /\ ~Before(best_prepared'[p], b)
<1>. DEFINE c == best_prepared[p]
            d == Later(c, b)
<1>1. TypeOK /\ b \in Block /\ c \in Block /\ c \in blocks \cup {Genesis}
  BY TypeFacts DEF Inv, TypeOK
<1>2. d \in {b, c} /\ ~Before(d, c) /\ ~Before(d, b)
  BY <1>1, LaterFacts
<1>3. \A q \in Producer : best_prepared'[q] = IF q = p THEN d ELSE best_prepared[q]
  BY <1>1 DEF TypeOK
<1>4. best_prepared' \in [Producer -> blocks \cup {Genesis}]
  BY <1>1, <1>2 DEF TypeOK
<1>. HIDE DEF d
<1>5. \A q \in Producer : best_prepared'[q] = Genesis \/ Prepared(best_prepared'[q])
  BY <1>2, <1>3 DEF Inv, BestIsPrepared
<1>6. ASSUME NEW q \in Producer, NEW a \in Block, ~Before(best_prepared[q], a)
      PROVE  ~Before(best_prepared'[q], a)
  <2>1. CASE q = p
    <3>1. d \in Block
      BY <1>1, <1>2
    <3>2. ~Before(d, a)
      BY <1>1, <1>2, <1>6, <2>1, <3>1, NotBeforeTransitive
    <3>. QED BY <1>3, <2>1, <3>2
  <2>2. CASE q # p
    BY <1>3, <1>6, <2>2
  <2>. QED BY <2>1, <2>2
<1>. QED BY <1>2, <1>3, <1>4, <1>5, <1>6

\* on_prepare: a producer commits a block of the term that it is in, so none of its view
\* changes is of a later term yet.
LEMMA OnPrepareKeepsInv ==
  ASSUME Inv, NEW p \in Producer, NEW b \in blocks, on_prepare(p, b)
  PROVE  Inv'
<1>0. /\ Prepared(b) /\ best_prepared' = [best_prepared EXCEPT ![p] = Later(@, b)]
      /\ UNCHANGED <<term, blocks, views, prepares>>
  BY DEF on_prepare
<1>a. TypeOK /\ \A a : Prepared(a)' <=> Prepared(a)
  BY <1>0 DEF Inv, Prepared, PreparedBy
<1>1. /\ best_prepared' \in [Producer -> blocks \cup {Genesis}]
      /\ \A q \in Producer : best_prepared'[q] = Genesis \/ Prepared(best_prepared'[q])
      /\ \A q \in Producer, a \in Block :
           ~Before(best_prepared[q], a) => ~Before(best_prepared'[q], a)
      /\ ~Before(best_prepared'[p], b)
  BY <1>0, RaiseBest
<1>2. BestIsPrepared'
  BY <1>0, <1>a, <1>1 DEF Inv, BestIsPrepared
<1>3. ASSUME commits' = commits \/ (commits' = commits \cup {<<p, b>>} /\ BlockTerm(b) = term[p])
      PROVE  CommitsReported' /\ BuiltOnCommitted' /\ commits' \subseteq Producer \X blocks
  <2>1. commits' \subseteq Producer \X blocks
    BY <1>3, <1>a DEF TypeOK
  <2>2. CommitsReported'
    <3>. SUFFICES ASSUME NEW q \in Producer, NEW a \in blocks, <<q, a>> \in commits'
                  PROVE  /\ Prepared(a) /\ ~Before(best_prepared'[q], a)
                         /\ \A v \in views : v.producer = q /\ BlockTerm(a) < v.term
                                                => ~Before(v.best, a)
      BY <1>0, <1>a DEF CommitsReported
    <3>1. CASE <<q, a>> \in commits
      <4>1. /\ Prepared(a) /\ ~Before(best_prepared[q], a)
            /\ \A v \in views : v.producer = q /\ BlockTerm(a) < v.term => ~Before(v.best, a)
        BY <3>1 DEF Inv, CommitsReported
      <4>2. a \in Block
        BY <1>a DEF TypeOK
      <4>. QED BY <1>1, <4>1, <4>2
    <3>2. CASE <<q, a>> \notin commits
      <4>1. q = p /\ a = b /\ BlockTerm(b) = term[p]
        BY <1>3, <3>2
      <4>2. ASSUME NEW v \in views, v.producer = q PROVE ~(BlockTerm(a) < v.term)
        <5>1. v.term <= term[p] /\ v.term \in Nat /\ term[p] \in Nat
          BY <1>a, <4>1, <4>2, TypeFacts DEF Inv, MessagesOfPast
        <5>. QED BY <4>1, <5>1
      <4>. QED BY <1>0, <1>1, <4>1, <4>2
    <3>. QED BY <3>1, <3>2
  <2>3. BuiltOnCommitted'
    <3>. SUFFICES ASSUME NEW c \in blocks, NEW a \in Block, BlockTerm(a) < BlockTerm(c),
                         Hopeless(a)
                  PROVE  Hopeless(a)'
      BY <1>0 DEF Inv, BuiltOnCommitted
    <3>1. PICK Q \in Quorum : \A q \in Q : term[q] > BlockTerm(a) /\ <<q, a>> \notin commits
      BY DEF Hopeless
    <3>2. ASSUME NEW q \in Q PROVE <<q, a>> \notin commits'
      <4>1. q \in Producer /\ term[q] \in Nat /\ BlockTerm(a) \in Nat
        BY <1>a, QuorumAssumption, TypeFacts, BlockFacts
      <4>. QED BY <1>3, <3>1, <4>1
    <3>. QED BY <1>0, <3>1, <3>2 DEF Hopeless
  <2>. QED BY <2>1, <2>2, <2>3
<1>4. CASE CanConfirm(p, b) /\ best_confirm' = [best_confirm EXCEPT ![p] = Later(@, b)]
             /\ commits' = commits \cup {<<p, b>>}
  <2>1. OneForkPerTerm' /\ MessagesOfPast' /\ best_confirm' \in [Producer -> blocks \cup {Genesis}]
    BY <1>0, <1>4, ConfirmKeepsFork
  <2>2. CommitsReported' /\ BuiltOnCommitted' /\ commits' \subseteq Producer \X blocks
    BY <1>3, <1>4 DEF CanConfirm
  <2>3. TypeOK'
    BY <1>0, <1>1, <1>a, <2>1, <2>2 DEF TypeOK
  <2>. QED BY <1>2, <2>1, <2>2, <2>3 DEF Inv
<1>5. CASE UNCHANGED <<best_confirm, commits>>
  <2>1. CommitsReported' /\ BuiltOnCommitted' /\ commits' \subseteq Producer \X blocks
    BY <1>3, <1>5
  <2>2. TypeOK'
    BY <1>0, <1>1, <1>a, <1>5, <2>1 DEF TypeOK
  <2>3. OneForkPerTerm'
    BY <1>0, <1>5 DEF Inv, OneForkPerTerm
  <2>4. MessagesOfPast'
    BY <1>0, <1>5 DEF Inv, MessagesOfPast
  <2>. QED BY <1>2, <2>1, <2>2, <2>3, <2>4 DEF Inv
<1>. QED BY <1>4, <1>5 DEF on_prepare

\* on_commit learns of a block that is prepared as well.
LEMMA OnCommitKeepsInv ==
  ASSUME Inv, NEW p \in Producer, NEW b \in blocks, on_commit(p, b)
  PROVE  Inv'
<1>1. Prepared(b)
  BY CommittedIsPrepared DEF on_commit, Inv
<1>2. on_prepare(p, b)
  BY <1>1 DEF on_commit, on_prepare
<1>. QED BY <1>2, OnPrepareKeepsInv

\* Initially nothing has been produced and nothing confirmed.
LEMMA InitInv ==
  ASSUME Init
  PROVE  Inv
<1>1. Genesis \in Block /\ BlockTerm(Genesis) = 0 /\ 0 \in Nat
  BY DEF Genesis, Block, BlockTerm
<1>2. TypeOK
  <2>1. \A v \in views : v \in View /\ v.best = Genesis
    BY <1>1, TermAssumption DEF Init, View
  <2>. QED BY <1>1, <2>1, TermAssumption DEF Init, TypeOK
<1>3. MessagesOfPast
  BY <1>1 DEF Init, MessagesOfPast
<1>4. BestIsPrepared
  BY DEF Init, BestIsPrepared
<1>5. CommitsReported /\ OneForkPerTerm /\ BuiltOnCommitted
  BY DEF Init, CommitsReported, OneForkPerTerm, BuiltOnCommitted
<1>. QED BY <1>2, <1>3, <1>4, <1>5 DEF Inv

-----------------------------------------------------------------------------
(* The theorems *)

\* The invariant holds in every reachable state: it holds initially and every handler
\* (set_view, set_root, start_leader, do_prepare, on_prepare, on_commit) preserves it.
THEOREM Invariance == Spec => []Inv
<1>1. Init => Inv
  BY InitInv
<1>2. Inv /\ [Next]_vars => Inv'
  <2>. SUFFICES ASSUME Inv, [Next]_vars PROVE Inv'
    OBVIOUS
  <2>1. CASE Next
    <3>1. PICK p \in Producer :
            \/ \E t \in Term : set_view(p, t)
            \/ set_root(p)
            \/ \E b \in blocks \cup {Genesis}, h \in Header : ProduceBlock(p, b, h)
            \/ \E b \in blocks : Prepare(p, b) \/ on_prepare(p, b) \/ on_commit(p, b)
      BY <2>1 DEF Next
    <3>2. ASSUME NEW t \in Term, set_view(p, t) PROVE Inv'
      BY <3>2, SetViewKeepsInv
    <3>3. CASE set_root(p)
      BY <3>3, SetRootKeepsInv
    <3>4. ASSUME NEW b \in blocks \cup {Genesis}, NEW h \in Header, ProduceBlock(p, b, h)
          PROVE  Inv'
      BY <3>4, ProduceBlockKeepsInv
    <3>5. ASSUME NEW b \in blocks, Prepare(p, b) PROVE Inv'
      BY <3>5, PrepareKeepsInv
    <3>6. ASSUME NEW b \in blocks, on_prepare(p, b) PROVE Inv'
      BY <3>6, OnPrepareKeepsInv
    <3>7. ASSUME NEW b \in blocks, on_commit(p, b) PROVE Inv'
      BY <3>7, OnCommitKeepsInv
    <3>. QED BY <3>1, <3>2, <3>3, <3>4, <3>5, <3>6, <3>7
  <2>2. CASE UNCHANGED vars
    BY <2>2 DEF vars, Inv, TypeOK, MessagesOfPast, BestIsPrepared, CommitsReported,
                OneForkPerTerm, BuiltOnCommitted, Hopeless, Prepared, PreparedBy
  <2>. QED BY <2>1, <2>2
<1>. QED BY <1>1, <1>2, PTL DEF Spec

\* Quorums prepare the blocks of one fork in a term, although its leader may produce
\* several (is_forbidden_fork).
THEOREM PreparedOnOneChain == Spec => []OnePreparedChain
<1>1. Inv => OnePreparedChain
  BY OnePreparedChainHolds DEF Inv
<1>. QED BY <1>1, Invariance, PTL

\* No block of a later term leaves out a block that a quorum has committed, whichever view
\* changes make its leader's term ready (is_term_ready).
THEOREM Finality == Spec => []CommittedIsFinal
<1>1. Inv => CommittedIsFinal
  BY CommittedIsFinalHolds DEF Inv
<1>. QED BY <1>1, Invariance, PTL

\* Nodes never commit blocks of different forks (on_commit, validate_aux_consensus_data).
THEOREM Safety == Spec => []Agreement
<1>1. Inv => Agreement
  BY AgreementHolds
<1>. QED BY <1>1, Invariance, PTL

\* verify_commit never throws consensus_failure.
THEOREM NoConsensusFailure == Spec => []VerifyCommit
<1>1. Inv => VerifyCommit
  BY VerifyCommitHolds
<1>. QED BY <1>1, Invariance, PTL
=============================================================================
