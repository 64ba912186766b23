---------------------------- MODULE ForkDbProofs ----------------------------
(***************************************************************************)
(* The theorems about ForkDb, for every block tree, every set of valid and *)
(* own blocks and every number of terms and crashes.                       *)
(***************************************************************************)
EXTENDS ForkDbHandlers

-----------------------------------------------------------------------------
(* Theorems *)

\* The inductive invariant holds initially.
LEMMA InitStep == Init => IInv
<1> SUFFICES ASSUME Init PROVE IInv
  OBVIOUS
<1>1. Root \in Block /\ Num[Root] \in Nat /\ Term[Root] \in Nat /\ Chain[Root][Num[Root]] = Root
  BY BlockTreeAssumption, NumFacts
<1>2. Tip = Root /\ Limit = Num[Root] /\ DiskBase = Root /\ ~InFork /\ ~InSwitch
  BY DEF Init, Tip, Limit, DiskBase, InFork, InSwitch
<1>3. IsAncestor(Root, Root)
  BY <1>1, AncestorRefl
<1>4. TypeOK
  <2>1. RootRevision \subseteq Block
    BY <1>1, BlockTreeAssumption
  <2> QED BY <1>1, <2>1 DEF Init, TypeOK, NoSwitch
<1>5. IndexOK
  <2>1. \A n \in Num[Root]..Num[Root] : n = Num[Root]
    BY <1>1
  <2>2. {Num[Root]} = Num[Root]..Num[Root]
    BY <1>1
  <2>3. byBlocknumIndex = [n \in Num[Root]..Num[Root] |-> Chain[Root][n]]
    BY <1>1, <2>1, <2>2 DEF Init
  <2> QED BY <1>1, <1>2, <2>2, <2>3 DEF Init, IndexOK
<1>6. CommitOK
  BY <1>1, <1>2, <1>3 DEF Init, CommitOK
<1>7. \A n \in Num[Root]..Num[Root] : Chain[Root][n] = Root
  BY <1>1
<1>8. StatesOK /\ ExecOK
  BY <1>1, <1>2, <1>7 DEF Init, StatesOK, ExecOK
<1>9. SwitchOK /\ PendingOK
  BY <1>2 DEF Init, SwitchOK, PendingOK
<1>10. DiskOK
  BY <1>2, <1>3, <1>7 DEF Init, DiskOK
<1> QED BY <1>4, <1>5, <1>6, <1>8, <1>9, <1>10 DEF IInv

\* Every step keeps the inductive invariant.
LEMMA NextStep == IInv /\ [Next]_vars => IInv'
<1> SUFFICES ASSUME IInv, [Next]_vars PROVE IInv'
  OBVIOUS
<1>0. Nums \subseteq Nat
  BY NumFacts DEF Nums
<1>1. CASE UNCHANGED vars
  <2>1. Tip' = Tip /\ Limit' = Limit /\ DiskBase' = DiskBase
    BY <1>1 DEF vars, memory, Tip, Limit, DiskBase, InFork
  <2>2. TypeOK'
    BY <1>1 DEF vars, memory, disk, IInv, TypeOK
  <2>3. IndexOK' /\ CommitOK' /\ StatesOK' /\ ExecOK' /\ DiskOK'
    BY <1>1, <2>1 DEF vars, memory, disk, IInv, IndexOK, CommitOK, StatesOK, ExecOK,
                      DiskOK, IsAncestor
  <2>4. SwitchOK' /\ PendingOK'
    BY <1>1 DEF vars, memory, disk, IInv, SwitchOK, PendingOK, InFork, InSwitch,
                IsAncestor, Prev, HasPrev
  <2> QED BY <2>2, <2>3, <2>4 DEF IInv
<1>2. ASSUME NEW b \in Block, Insert(b) \/ SetSubtreeTo(b) \/ FinishWrite(b) PROVE IInv'
  BY <1>2, InsertStep, SetSubtreeStep, FinishWriteStep
<1>3. ASSUME NEW t \in 1..MaxTerm, SetTerm(t) PROVE IInv'
  BY <1>3, SetTermStep
<1>4. ASSUME NEW n \in Nums, Produced(n) \/ Commit(n) \/ ExecuteBlock(n) PROVE IInv'
  BY <1>0, <1>4, ProducedStep, CommitStep, ExecuteBlockStep
<1>5. CASE \/ Erase \/ AbortBlock \/ StartBlock \/ PushBoot \/ FinishInstall
           \/ BeginSwitch \/ PickHead \/ SkipExecuted \/ ExecuteFails \/ SetHead
           \/ SwitchDone \/ Restart
  BY <1>5, EraseStep, AbortBlockStep, StartBlockStep, PushBootStep, FinishInstallStep,
     BeginSwitchStep, PickHeadStep, SkipExecutedStep, ExecuteFailsStep, SetHeadStep,
     SwitchDoneStep, RestartStep
<1> QED BY <1>1, <1>2, <1>3, <1>4, <1>5 DEF Next

\* The inductive invariant holds in every state of the fork database.
THEOREM Invariance == Spec => []IInv
BY InitStep, NextStep, PTL DEF Spec

\* Types are kept.
THEOREM TypeCorrect == Spec => []TypeOK
<1>1. IInv => TypeOK
  BY DEF IInv
<1> QED BY <1>1, Invariance, PTL

\* byBlocknumIndex is the whole chain of one block in every state, the middle of a
\* fork switch included.
THEOREM BestChainCorrect == Spec => []BestChainIndexed
<1>1. IInv => BestChainIndexed
  <2> SUFFICES ASSUME IInv PROVE BestChainIndexed
    OBVIOUS
  <2>1. PICK lo \in Num[Root]..Num[final] :
          byBlocknumIndex = [n \in lo..Num[Tip] |-> Chain[Tip][n]]
    BY DEF IInv, IndexOK
  <2>2. /\ Num[final] <= commitIndex /\ commitIndex <= Num[Tip]
    BY StateFacts DEF IInv, CommitOK
  <2>3. lo \in Num[Root]..commitIndex /\ commitIndex \in lo..Num[Tip]
    BY <2>1, <2>2, StateFacts
  <2>4. ASSUME NEW n \in lo..Num[Tip], n >= commitIndex PROVE Chain[Tip][n] \in states
    <3>1. n \in Num[final]..Num[Tip]
      BY <2>1, <2>2, <2>4, StateFacts
    <3> QED BY <3>1 DEF IInv, StatesOK
  <2> QED BY <2>1, <2>3, <2>4 DEF BestChainIndexed
<1> QED BY <1>1, Invariance, PTL

\* A block is only ever executed on top of an executed block: the assertions of
\* execute_fork and trySetHead hold.
THEOREM ExecutionOrder == Spec => []ParentExecuted
<1>1. IInv => ParentExecuted
  <2> SUFFICES ASSUME IInv PROVE ParentExecuted
    OBVIOUS
  <2>1. Running => head \in executed
    BY DEF IInv, ExecOK
  <2>2. ASSUME pc \in {"exec", "setHead"} PROVE byBlocknumIndex[sw.pos] \in executed
    <3>1. InFork /\ Tip = sw.target /\ Num[final] <= sw.pos /\ sw.pos \in Nat
      BY <2>2 DEF InFork, Tip, IInv, SwitchOK, TypeOK
    <3>2. sw.pos \in Num[final]..Num[Tip]
      BY <2>2, <3>1, StateFacts DEF IInv, CommitOK, Limit
    <3>3. byBlocknumIndex[sw.pos] = Chain[sw.target][sw.pos]
      BY <3>1, <3>2, IndexFacts
    <3>4. Chain[sw.target][sw.pos] \in executed
      <4>1. CASE pc = "exec"
        BY <3>1, <4>1 DEF IInv, ExecOK, Limit
      <4>2. CASE pc = "setHead"
        <5>1. sw.pos < Num[sw.target]
          <6>1. sw.pos + 1 <= Num[sw.target]
            BY <3>1, <4>2 DEF IInv, CommitOK, Limit
          <6>2. Num[sw.target] \in Nat
            BY <3>1, StateFacts
          <6> QED BY <3>1, <6>1, <6>2
        <5> QED BY <3>1, <5>1, ForkFacts
      <4> QED BY <2>2, <4>1, <4>2
    <3> QED BY <3>3, <3>4
  <2> QED BY <2>1, <2>2 DEF ParentExecuted
<1> QED BY <1>1, Invariance, PTL

\* Whatever blocks arrive, whichever of them fail, and wherever the node crashes,
\* the irreversible block stays on the chain of the head, in memory and on disk.
THEOREM IrreversibleSafe == Spec => []IrreversibleOnChain
<1>1. IInv => IrreversibleOnChain
  BY FinalOnDisk DEF IrreversibleOnChain, IInv, CommitOK
<1> QED BY <1>1, Invariance, PTL

\* gc leaves no state above the committed block without its parent.
THEOREM StatesStayConnected == Spec => []StatesConnected
<1>1. IInv => StatesConnected
  <2> SUFFICES ASSUME IInv, NEW b \in states, Num[b] > commitIndex
               PROVE  Prev(b) \in states
    BY DEF StatesConnected
  <2>1. Num[b] - 1 \in Num[final]..Num[b]
    BY StateFacts, NumFacts DEF IInv, CommitOK
  <2> QED BY <2>1 DEF Prev, IInv, StatesOK
<1> QED BY <1>1, Invariance, PTL

\* The block being produced always builds on the head: the assertions of
\* finish_block hold.
THEOREM PendingBlockOnHead == Spec => []PendingOnHead
<1>1. IInv => PendingOnHead
  BY DEF PendingOnHead, IInv, PendingOK, InSwitch
<1> QED BY <1>1, Invariance, PTL

-----------------------------------------------------------------------------
(* Theorems about steps *)

\* Every step but a restart leaves the irreversible block alone or moves it up the
\* chain of the disk head, and then leaves the disk head alone.
LEMMA FinalStep ==
  ASSUME IInv, [Next]_vars
  PROVE  \/ Restart
         \/ final' = final
         \/ /\ final' \in Block /\ IsAncestor(final, final')
            /\ IsAncestor(final', dbHead) /\ dbHead' = dbHead
<1>0. Nums \subseteq Nat
  BY NumFacts DEF Nums
<1>1. ASSUME NEW ci \in Num[final]..Num[Tip], EndHandler(byBlocknumIndex, ci),
             IsAncestor(Tip, dbHead)
      PROVE  /\ final' \in Block /\ IsAncestor(final, final') /\ IsAncestor(final', dbHead)
  <2>1. /\ ci \in Num[Root]..Num[Tip] /\ final' = Chain[Tip][ci] /\ Tip \in Block
    BY <1>1, StateFacts, IndexFacts DEF EndHandler
  <2>2. final' \in Block /\ Num[final'] = ci /\ IsAncestor(final', Tip)
    BY <2>1, ChainFacts
  <2>3. IsAncestor(final', dbHead)
    BY <1>1, <2>1, <2>2, AncestorTrans, StateFacts
  <2>4. IsAncestor(final, final')
    BY <2>1, <2>2, AncestorsOrdered, StateFacts DEF IInv, CommitOK
  <2> QED BY <2>2, <2>3, <2>4
<1>2. ASSUME NEW n \in Nums, Produced(n) \/ Commit(n)
      PROVE  /\ final' \in Block /\ IsAncestor(final, final')
             /\ IsAncestor(final', dbHead) /\ dbHead' = dbHead
  <2> DEFINE ci == NewCommitIndex(n, head, commitIndex)
  <2>1. Tip = head /\ Limit = Num[head] /\ DiskBase = head
    BY <1>2 DEF Produced, Commit, Tip, Limit, DiskBase, InFork
  <2>2. IsAncestor(Tip, dbHead)
    BY <2>1 DEF IInv, DiskOK
  <2>3. Num[final] <= commitIndex /\ commitIndex <= Num[head]
    BY <2>1 DEF IInv, CommitOK
  <2>4. ci \in Nat /\ commitIndex <= ci /\ (ci = commitIndex \/ ci <= Num[head])
    BY <1>0, CommitFacts, StateFacts
  <2>5. ci \in Num[final]..Num[Tip]
    BY <2>1, <2>3, <2>4, StateFacts
  <2>6. EndHandler(byBlocknumIndex, ci) /\ dbHead' = dbHead
    BY <1>2 DEF Produced, Commit, disk
  <2> HIDE DEF ci
  <2> QED BY <1>1, <2>2, <2>5, <2>6
<1>3. ASSUME SwitchDone
      PROVE  /\ final' \in Block /\ IsAncestor(final, final')
             /\ IsAncestor(final', dbHead) /\ dbHead' = dbHead
  <2>1. pc = "exec" /\ sw.pos = Num[sw.target] /\ Tip = sw.target /\ Limit = Num[Tip]
    BY <1>3 DEF SwitchDone, Tip, Limit
  <2>2. commitIndex \in Num[final]..Num[Tip] /\ IsAncestor(Tip, dbHead)
    <3>1. /\ Num[final] \in Nat /\ Num[Tip] \in Nat /\ commitIndex \in Nat
          /\ Tip \in Block
      BY StateFacts
    <3>2. Num[final] <= commitIndex /\ commitIndex <= Num[Tip]
      BY <2>1 DEF IInv, CommitOK
    <3>3. DiskBase = Chain[Tip][Num[Tip]]
      BY <2>1 DEF DiskBase, InFork
    <3>4. DiskBase = Tip
      BY <3>1, <3>3, NumFacts
    <3> QED BY <3>1, <3>2, <3>4 DEF IInv, DiskOK
  <2>3. EndHandler(byBlocknumIndex, commitIndex) /\ dbHead' = dbHead
    BY <1>3 DEF SwitchDone
  <2> QED BY <1>1, <2>2, <2>3
<1>4. ASSUME NEW b \in Block, Insert(b) \/ SetSubtreeTo(b) \/ FinishWrite(b)
      PROVE  final' = final
  BY <1>4 DEF Insert, SetSubtreeTo, FinishWrite
<1>5. ASSUME NEW n \in Nums, ExecuteBlock(n) PROVE final' = final
  BY <1>5 DEF ExecuteBlock
<1>6. ASSUME NEW t \in 1..MaxTerm, SetTerm(t) PROVE final' = final
  BY <1>6 DEF SetTerm
<1>7. CASE \/ Erase \/ AbortBlock \/ StartBlock \/ PushBoot \/ FinishInstall \/ BeginSwitch
           \/ PickHead \/ SkipExecuted \/ ExecuteFails \/ SetHead \/ UNCHANGED vars
  BY <1>7 DEF Erase, AbortBlock, StartBlock, PushBoot, FinishInstall, BeginSwitch, PickHead,
              SkipExecuted, ExecuteFails, SetHead, vars
<1> QED BY <1>2, <1>3, <1>4, <1>5, <1>6, <1>7 DEF Next

\* A restart reads the whole chain of the disk head down to the irreversible block,
\* provided the block the node was first started from has a revision.
LEMMA RestartFacts ==
  ASSUME IInv, Restart
  PROVE  /\ head' = dbHead /\ dbHead' = dbHead /\ restarts' # restarts
         /\ RootRevision = {Root} => /\ commitIndex' <= Num[final]
                                     /\ final' \in Block /\ IsAncestor(final', final)
<1>1. PICK m \in Nums : LoadsFrom(dbHead, m) /\ Loaded(dbHead, m)
  BY DEF Restart
<1>2. /\ head' = dbHead /\ dbHead' = dbHead /\ restarts' = restarts + 1
      /\ commitIndex' = m /\ final' = Chain[dbHead][m]
  BY <1>1 DEF Restart, Loaded, disk
<1>3. restarts' # restarts
  <2>1. restarts \in Nat
    BY DEF IInv, TypeOK
  <2> QED BY <1>2, <2>1
<1>4. ASSUME RootRevision = {Root}
      PROVE  m <= Num[final] /\ final' \in Block /\ IsAncestor(final', final)
  <2>1. m \in Num[Root]..Num[dbHead] /\ (m > Num[Root] => Chain[dbHead][m - 1] \notin revisions)
    BY <1>1 DEF LoadsFrom
  <2>2. \A n \in Num[final]..Num[dbHead] : Chain[dbHead][n] \in revisions
    BY <1>4 DEF IInv, DiskOK
  <2>3. m <= Num[final]
    <3> SUFFICES ASSUME m > Num[final] PROVE FALSE
      BY <2>1, StateFacts
    <3>1. m - 1 \in Num[final]..Num[dbHead] /\ m > Num[Root]
      BY <2>1, StateFacts
    <3> QED BY <2>1, <2>2, <3>1
  <2>4. final' \in Block /\ Num[final'] = m /\ IsAncestor(final', dbHead)
    BY <1>2, <2>1, ChainFacts, StateFacts
  <2>5. IsAncestor(final', final)
    BY <2>3, <2>4, FinalOnDisk, AncestorsOrdered, StateFacts
  <2> QED BY <2>3, <2>4, <2>5
<1> QED BY <1>2, <1>3, <1>4

\* While the node runs, irreversibility moves forward along one chain only.
THEOREM IrreversibleForward == Spec => IrreversibleAdvances
<1>1. IInv /\ [Next]_vars => [restarts' = restarts => IsAncestor(final, final')]_vars
  <2> SUFFICES ASSUME IInv, [Next]_vars, restarts' = restarts
               PROVE  IsAncestor(final, final')
    OBVIOUS
  <2>1. ~Restart
    BY RestartFacts
  <2>2. IsAncestor(final, final)
    BY AncestorRefl, StateFacts
  <2> QED BY <2>1, <2>2, FinalStep
<1> QED BY <1>1, Invariance, PTL DEF Spec, IrreversibleAdvances

\* A crash at any point of any handler loses nothing that was irreversible.
THEOREM CrashSafe == Spec => RestartKeepsIrreversible
<1>1. Next => (restarts' = restarts \/ Restart)
  BY DEF Next, Insert, SetSubtreeTo, FinishWrite, SetTerm, Produced, Commit, ExecuteBlock,
         Erase, AbortBlock, StartBlock, PushBoot, FinishInstall, BeginSwitch, PickHead,
         SkipExecuted, ExecuteFails, SetHead, SwitchDone
<1>2. IInv /\ [Next]_vars => [restarts' # restarts => IsAncestor(final, head')]_vars
  <2> SUFFICES ASSUME IInv, Next, restarts' # restarts PROVE IsAncestor(final, head')
    BY DEF vars
  <2> QED BY <1>1, RestartFacts, FinalOnDisk
<1> QED BY <1>2, Invariance, PTL DEF Spec, RestartKeepsIrreversible

\* A restart of a node that was first started from a block with a revision declares
\* nothing irreversible that was not.
THEOREM RestartHonest ==
  ASSUME RootRevision = {Root}
  PROVE  Spec => RestartCommitsNothing
<1>1. Next => (restarts' = restarts \/ Restart)
  BY DEF Next, Insert, SetSubtreeTo, FinishWrite, SetTerm, Produced, Commit, ExecuteBlock,
         Erase, AbortBlock, StartBlock, PushBoot, FinishInstall, BeginSwitch, PickHead,
         SkipExecuted, ExecuteFails, SetHead, SwitchDone
<1>2. IInv /\ [Next]_vars =>
        [restarts' # restarts =>
           \/ commitIndex' <= Num[final]
           \/ RootRevision = {} /\ commitIndex' = Num[Root] + 1]_vars
  <2> SUFFICES ASSUME IInv, Next, restarts' # restarts PROVE commitIndex' <= Num[final]
    BY DEF vars
  <2> QED BY <1>1, RestartFacts
<1> QED BY <1>2, Invariance, PTL DEF Spec, RestartCommitsNothing

\* After a step, too, the irreversible block is on the chain of the disk head.
LEMMA FinalOnDiskNext == IInv' => IsAncestor(final', dbHead')
<1>1. IInv => IsAncestor(final, dbHead)
  BY FinalOnDisk
<1>2. (IInv => IsAncestor(final, dbHead))'
  BY <1>1, PTL
<1> QED BY <1>2 DEF IsAncestor

\* The fork database of such a node implements the durable chain: its disk head and
\* its irreversible block change only as DurableChain allows.
THEOREM Refinement ==
  ASSUME RootRevision = {Root}
  PROVE  Spec => ImplementsDurableChain
<1>1. Init => Durable!Init
  BY DEF Init, Durable!Init
<1>2. IInv /\ IInv' /\ [Next]_vars => [Durable!Next]_<<dbHead, final>>
  <2> SUFFICES ASSUME IInv, IInv', [Next]_vars, ~UNCHANGED <<dbHead, final>>
               PROVE  Durable!Next
    OBVIOUS
  <2>1. dbHead' \in Block
    BY DEF IInv, TypeOK
  <2>2. CASE Restart
    BY <2>2, RestartFacts DEF Durable!Next, Durable!Recover
  <2>3. CASE final' = final
    <3>1. IsAncestor(final', dbHead')
      BY FinalOnDiskNext
    <3> QED BY <2>1, <2>3, <3>1 DEF Durable!Next, Durable!Move
  <2>4. CASE /\ final' \in Block /\ IsAncestor(final, final')
             /\ IsAncestor(final', dbHead) /\ dbHead' = dbHead
    BY <2>4 DEF Durable!Next, Durable!Finalize
  <2> QED BY <2>2, <2>3, <2>4, FinalStep
<1> QED BY <1>1, <1>2, Invariance, PTL DEF Spec, ImplementsDurableChain, Durable!Spec
=============================================================================
