-------------------------- MODULE ForkDbInvariant --------------------------
(***************************************************************************)
(* The inductive invariant of ForkDb, what the block tree gives, and the   *)
(* steps inside a handler: each keeps the invariant, for every block tree, *)
(* every set of valid and own blocks and every number of terms.            *)
(*                                                                         *)
(* The properties of a run are not inductive: that the irreversible block  *)
(* is on the chain of the head depends on what byBlocknumIndex holds in    *)
(* the middle of a switch, on which blocks have been executed, and on      *)
(* which states gc leaves behind.  IInv says all of this at once.          *)
(***************************************************************************)
EXTENDS ForkDb, TLAPS

InSwitch == pc \in {"switch", "exec", "setHead"}

InFork == pc \in {"exec", "setHead"}

\* The highest number on the chain of Tip that has been executed in this handler.
Limit == IF pc = "exec" THEN sw.pos
         ELSE IF pc = "setHead" THEN sw.pos + 1 ELSE Num[head]

\* The block the disk head descends from.
DiskBase == IF InFork THEN Chain[sw.target][sw.pos] ELSE head

IndexOK ==
  \E lo \in Num[Root]..Num[final] :
    byBlocknumIndex = [n \in lo..Num[Tip] |-> Chain[Tip][n]]

CommitOK ==
  /\ Num[final] <= commitIndex /\ commitIndex <= Limit /\ Limit <= Num[Tip]
  /\ IsAncestor(final, Tip) /\ IsAncestor(final, head)

StatesOK ==
  /\ Tip \in states
  /\ \A b \in states : \A n \in Num[final]..Num[b] : Chain[b][n] \in states

ExecOK ==
  /\ head \in executed /\ Chain[Tip][Limit] \in executed
  /\ \A b \in executed : \A n \in Num[final]..Num[b] : Chain[b][n] \in executed

SwitchOK ==
  /\ InSwitch => sw.original \in Block
  /\ InFork => /\ sw.target \in Block /\ Num[final] <= sw.pos
               /\ sw.keep => sw.target = sw.original
  /\ pc = "finish" => /\ sw.target \in Own /\ HasPrev(sw.target)
                      /\ Prev(sw.target) = head /\ sw.target \in revisions
  /\ pc = "dirty" /\ sw.inserted # None =>
       /\ sw.inserted \in Block \ executed /\ sw.inserted # head
       /\ \A b \in states \ {sw.inserted} : ~IsAncestor(sw.inserted, b)

PendingOK ==
  pc # "failed" /\ blockContext # None =>
    /\ blockContext.previous = IF InSwitch THEN sw.original ELSE head
    /\ blockContext.term = currentTerm

DiskOK ==
  /\ IsAncestor(DiskBase, dbHead)
  /\ RootRevision = {Root} =>
       /\ \A b \in executed : Num[final] <= Num[b] => b \in revisions
       /\ \A n \in Num[final]..Num[dbHead] : Chain[dbHead][n] \in revisions

IInv == /\ TypeOK /\ IndexOK /\ CommitOK /\ StatesOK /\ ExecOK
        /\ SwitchOK /\ PendingOK /\ DiskOK

-----------------------------------------------------------------------------
(* The block tree *)

\* Numbers, and the top of a chain.
LEMMA NumFacts ==
  ASSUME NEW b \in Block
  PROVE  /\ Num[b] \in Nat /\ Num[Root] \in Nat /\ Num[Root] <= Num[b]
         /\ Chain[b][Num[b]] = b /\ Term[b] \in Nat
BY BlockTreeAssumption

\* An entry of a chain is an ancestor, with its own number and the same chain.
LEMMA ChainFacts ==
  ASSUME NEW b \in Block, NEW n \in Num[Root]..Num[b]
  PROVE  /\ Chain[b][n] \in Block /\ Num[Chain[b][n]] = n
         /\ \A m \in Num[Root]..n : Chain[Chain[b][n]][m] = Chain[b][m]
         /\ IsAncestor(Chain[b][n], b)
<1>1. /\ Chain[b][n] \in Block /\ Num[Chain[b][n]] = n
      /\ \A m \in Num[Root]..n : Chain[Chain[b][n]][m] = Chain[b][m]
  BY BlockTreeAssumption
<1> QED BY <1>1, NumFacts DEF IsAncestor

\* A block is its own ancestor.
LEMMA AncestorRefl ==
  ASSUME NEW b \in Block
  PROVE  IsAncestor(b, b)
BY NumFacts DEF IsAncestor

\* The parent of a block, and its chain.
LEMMA PrevFacts ==
  ASSUME NEW b \in Block, HasPrev(b)
  PROVE  /\ Prev(b) \in Block /\ Num[Prev(b)] = Num[b] - 1
         /\ \A m \in Num[Root]..Num[b] - 1 : Chain[Prev(b)][m] = Chain[b][m]
         /\ IsAncestor(Prev(b), b)
<1>1. Num[b] - 1 \in Num[Root]..Num[b]
  BY NumFacts DEF HasPrev
<1> QED BY <1>1, ChainFacts DEF Prev

\* The chain of an ancestor is a part of the chain.
LEMMA AncestorChain ==
  ASSUME NEW a \in Block, NEW b \in Block, IsAncestor(a, b)
  PROVE  /\ Num[a] \in Num[Root]..Num[b]
         /\ \A m \in Num[Root]..Num[a] : Chain[a][m] = Chain[b][m]
<1>1. Num[a] \in Num[Root]..Num[b]
  BY NumFacts DEF IsAncestor
<1> QED BY <1>1, ChainFacts DEF IsAncestor

\* An ancestor's ancestor is an ancestor.
LEMMA AncestorTrans ==
  ASSUME NEW a \in Block, NEW b \in Block, NEW c \in Block,
         IsAncestor(a, b), IsAncestor(b, c)
  PROVE  IsAncestor(a, c)
<1>1. Num[a] \in Num[Root]..Num[b] /\ Num[b] \in Num[Root]..Num[c]
  BY AncestorChain
<1>2. Chain[b][Num[a]] = Chain[c][Num[a]]
  BY <1>1, AncestorChain, NumFacts
<1> QED BY <1>1, <1>2, NumFacts DEF IsAncestor

\* Two ancestors of one block are on one chain.
LEMMA AncestorsOrdered ==
  ASSUME NEW a \in Block, NEW b \in Block, NEW c \in Block,
         IsAncestor(a, c), IsAncestor(b, c), Num[a] <= Num[b]
  PROVE  IsAncestor(a, b)
<1>1. Num[a] \in Num[Root]..Num[b] /\ Num[b] \in Num[Root]..Num[c]
  BY AncestorChain, NumFacts
<1>2. Chain[b][Num[a]] = Chain[c][Num[a]]
  BY <1>1, AncestorChain, NumFacts
<1> QED BY <1>1, <1>2, NumFacts DEF IsAncestor

-----------------------------------------------------------------------------
(* Steps that touch neither the chain nor the disk *)

\* Away from execute_fork, Tip, Limit and DiskBase are all the head.
LEMMA Frame ==
  ASSUME IInv, ~InFork, ~InFork',
         UNCHANGED <<states, executed, byBlocknumIndex, head, commitIndex, final,
                     dbHead, revisions>>
  PROVE  IndexOK' /\ CommitOK' /\ StatesOK' /\ ExecOK' /\ DiskOK'
<1>1. IndexOK'
  BY DEF IInv, IndexOK, Tip, InFork
<1>2. CommitOK'
  BY DEF IInv, CommitOK, Tip, Limit, InFork, IsAncestor
<1>3. StatesOK'
  BY DEF IInv, StatesOK, Tip, InFork
<1>4. ExecOK'
  BY DEF IInv, ExecOK, Tip, Limit, InFork
<1>5. DiskOK'
  BY DEF IInv, DiskOK, DiskBase, InFork, IsAncestor
<1> QED BY <1>1, <1>2, <1>3, <1>4, <1>5

\* Every state that survives set_subtree and commit was there before.
LEMMA OrderSubset ==
  ASSUME NEW S, NEW V
  PROVE  /\ \A root : SetSubtree(S, V, root) \subseteq S \cup V
         /\ \A idx, ci : OrderAfterCommit(S, V, idx, ci) \subseteq S \cup V
BY DEF SetSubtree, Subtree, OrderAfterCommit

\* start_leader keeps the inductive invariant.
LEMMA StartBlockStep == IInv /\ StartBlock => IInv'
<1> SUFFICES ASSUME IInv, StartBlock PROVE IInv'
  OBVIOUS
<1>1. TypeOK'
  BY DEF IInv, TypeOK, StartBlock, PendingOn, disk
<1>2. SwitchOK'
  BY DEF IInv, SwitchOK, StartBlock, disk, InSwitch, InFork, IsAncestor, Prev, HasPrev
<1>3. PendingOK'
  BY DEF StartBlock, PendingOK, PendingOn, InSwitch
<1>4. ~InFork /\ ~InFork'
  BY DEF StartBlock, InFork
<1> QED BY <1>1, <1>2, <1>3, <1>4, Frame DEF IInv, StartBlock, disk

\* Pushing the boot transaction keeps the inductive invariant.
LEMMA PushBootStep == IInv /\ PushBoot => IInv'
<1> SUFFICES ASSUME IInv, PushBoot PROVE IInv'
  OBVIOUS
<1>1. TypeOK'
  BY DEF IInv, TypeOK, PushBoot, disk
<1>2. SwitchOK'
  BY DEF IInv, SwitchOK, PushBoot, disk, InSwitch, InFork, IsAncestor, Prev, HasPrev
<1>3. PendingOK'
  BY DEF IInv, TypeOK, PushBoot, PendingOK, InSwitch
<1>4. ~InFork /\ ~InFork'
  BY DEF PushBoot, InFork
<1> QED BY <1>1, <1>2, <1>3, <1>4, Frame DEF IInv, PushBoot, disk

\* abort_block keeps the inductive invariant.
LEMMA AbortBlockStep == IInv /\ AbortBlock => IInv'
<1> SUFFICES ASSUME IInv, AbortBlock PROVE IInv'
  OBVIOUS
<1>1. TypeOK'
  BY DEF IInv, TypeOK, AbortBlock, NoSwitch, disk
<1>2. SwitchOK' /\ PendingOK'
  BY DEF AbortBlock, SwitchOK, PendingOK, NoSwitch, InSwitch, InFork
<1>3. ~InFork /\ ~InFork'
  BY DEF AbortBlock, InFork
<1> QED BY <1>1, <1>2, <1>3, Frame DEF IInv, AbortBlock, disk

\* setTerm, with the end of leadership, keeps the inductive invariant.
LEMMA SetTermStep ==
  ASSUME NEW t \in 1..MaxTerm
  PROVE  IInv /\ SetTerm(t) => IInv'
<1> SUFFICES ASSUME IInv, SetTerm(t) PROVE IInv'
  OBVIOUS
<1>0. t \in Nat
  OBVIOUS
<1>1. TypeOK'
  BY <1>0 DEF IInv, TypeOK, SetTerm, NoSwitch, disk
<1>2. SwitchOK' /\ PendingOK'
  BY DEF SetTerm, SwitchOK, PendingOK, NoSwitch, InSwitch, InFork
<1>3. ~InFork /\ ~InFork'
  BY DEF SetTerm, InFork
<1> QED BY <1>1, <1>2, <1>3, Frame DEF IInv, SetTerm, disk

\* set_subtree keeps the inductive invariant.
LEMMA SetSubtreeStep ==
  ASSUME NEW root \in Block
  PROVE  IInv /\ SetSubtreeTo(root) => IInv'
<1> SUFFICES ASSUME IInv, SetSubtreeTo(root) PROVE IInv'
  OBVIOUS
<1>1. byOrderIndex' \subseteq states
  <2>1. SetSubtree(byOrderIndex, states \ invalid, root)
          \subseteq byOrderIndex \cup (states \ invalid)
    BY OrderSubset
  <2> QED BY <2>1 DEF IInv, TypeOK, SetSubtreeTo
<1>2. TypeOK'
  BY <1>1 DEF IInv, TypeOK, SetSubtreeTo, NoSwitch, disk
<1>3. SwitchOK' /\ PendingOK'
  BY DEF IInv, SetSubtreeTo, SwitchOK, PendingOK, NoSwitch, InSwitch, InFork
<1>4. ~InFork /\ ~InFork'
  BY DEF SetSubtreeTo, InFork
<1> QED BY <1>2, <1>3, <1>4, Frame DEF IInv, SetSubtreeTo, disk

\* Entering async_switch_fork keeps the inductive invariant.
LEMMA BeginSwitchStep == IInv /\ BeginSwitch => IInv'
<1> SUFFICES ASSUME IInv, BeginSwitch PROVE IInv'
  OBVIOUS
<1>1. TypeOK'
  BY DEF IInv, TypeOK, BeginSwitch, NoSwitch, disk
<1>2. SwitchOK' /\ PendingOK'
  BY DEF IInv, TypeOK, BeginSwitch, SwitchOK, PendingOK, NoSwitch, InSwitch, InFork
<1>3. ~InFork /\ ~InFork'
  BY DEF BeginSwitch, InFork
<1> QED BY <1>1, <1>2, <1>3, Frame DEF IInv, BeginSwitch, disk

\* The first write of finish_block keeps the inductive invariant.
LEMMA FinishWriteStep ==
  ASSUME NEW b \in Block
  PROVE  IInv /\ FinishWrite(b) => IInv'
<1> SUFFICES ASSUME IInv, FinishWrite(b) PROVE IInv'
  OBVIOUS
<1>1. TypeOK'
  BY DEF IInv, TypeOK, FinishWrite, NoSwitch
<1>2. SwitchOK' /\ PendingOK'
  BY DEF IInv, TypeOK, FinishWrite, SwitchOK, PendingOK, NoSwitch, InSwitch, InFork,
         HasPrev, Prev
<1>3. IndexOK' /\ CommitOK' /\ StatesOK' /\ ExecOK'
  BY DEF IInv, IndexOK, CommitOK, StatesOK, ExecOK, Tip, Limit, FinishWrite, IsAncestor
<1>4. DiskOK'
  BY DEF IInv, DiskOK, DiskBase, InFork, FinishWrite, IsAncestor
<1> QED BY <1>1, <1>2, <1>3, <1>4 DEF IInv

-----------------------------------------------------------------------------
(* Steps that change the states, the chain or the disk *)

\* What the blocks and numbers of a state are.
LEMMA StateFacts ==
  ASSUME IInv
  PROVE  /\ Tip \in Block /\ head \in Block /\ final \in Block /\ dbHead \in Block
         /\ Num[Root] \in Nat /\ Num[final] \in Nat /\ Num[head] \in Nat
         /\ Num[Tip] \in Nat /\ Num[dbHead] \in Nat /\ commitIndex \in Nat
         /\ Num[Root] <= Num[final] /\ Limit \in Nat
         /\ states \subseteq Block /\ executed \subseteq states
<1>1. /\ Tip \in Block /\ head \in Block /\ final \in Block /\ dbHead \in Block
      /\ commitIndex \in Nat /\ states \subseteq Block /\ executed \subseteq states
  BY DEF IInv, TypeOK, StatesOK
<1>2. Num[head] \in Nat /\ Num[final] \in Nat /\ Num[Tip] \in Nat /\ Num[dbHead] \in Nat
  BY <1>1, NumFacts
<1>3. Limit \in Nat
  BY <1>2 DEF IInv, TypeOK, Limit
<1> QED BY <1>1, <1>2, <1>3, NumFacts

\* byBlocknumIndex holds the chain of Tip, at least from the irreversible block up.
LEMMA IndexFacts ==
  ASSUME IInv
  PROVE  /\ \A n \in DOMAIN byBlocknumIndex :
              n \in Num[Root]..Num[Tip] /\ byBlocknumIndex[n] = Chain[Tip][n]
         /\ \A n \in Num[final]..Num[Tip] :
              n \in DOMAIN byBlocknumIndex /\ byBlocknumIndex[n] = Chain[Tip][n]
<1>1. PICK lo \in Num[Root]..Num[final] :
        byBlocknumIndex = [n \in lo..Num[Tip] |-> Chain[Tip][n]]
  BY DEF IInv, IndexOK
<1> QED BY <1>1, StateFacts

\* insert keeps the inductive invariant.
LEMMA InsertStep ==
  ASSUME NEW b \in Block
  PROVE  IInv /\ Insert(b) => IInv'
<1> SUFFICES ASSUME IInv, Insert(b) PROVE IInv'
  OBVIOUS
<1>1. TypeOK'
  BY DEF IInv, TypeOK, Insert, NoSwitch, disk
<1>2. IndexOK' /\ CommitOK' /\ ExecOK' /\ DiskOK' /\ PendingOK'
  BY DEF IInv, Insert, IndexOK, CommitOK, ExecOK, DiskOK, PendingOK, Tip, Limit,
         DiskBase, InFork, InSwitch, IsAncestor, disk
<1>3. /\ HasPrev(b) /\ Num[final] < Num[b] /\ Num[b] \in Nat /\ b \notin states
      /\ Prev(b) \in states
  BY StateFacts, NumFacts DEF IInv, CommitOK, Insert, HasPrev
<1>4. StatesOK'
  <2>1. Tip' \in states'
    BY DEF IInv, StatesOK, Insert, Tip
  <2>2. ASSUME NEW n \in Num[final]..Num[b] PROVE Chain[b][n] \in states'
    <3>1. CASE n = Num[b]
      BY <3>1, NumFacts DEF Insert
    <3>2. CASE n # Num[b]
      <4>1. n \in Num[final]..Num[Prev(b)] /\ n \in Num[Root]..Num[b] - 1
        BY <1>3, <3>2, PrevFacts, StateFacts
      <4>2. Chain[Prev(b)][n] = Chain[b][n]
        BY <1>3, <4>1, PrevFacts
      <4> QED BY <1>3, <4>1, <4>2 DEF IInv, StatesOK, Insert
    <3> QED BY <3>1, <3>2
  <2>3. states' = states \cup {b} /\ final' = final
    BY DEF Insert
  <2> QED BY <2>1, <2>2, <2>3 DEF IInv, StatesOK
<1>5. SwitchOK'
  <2>1. ASSUME NEW c \in states PROVE ~IsAncestor(b, c)
    <3>1. SUFFICES ASSUME IsAncestor(b, c) PROVE FALSE
      OBVIOUS
    <3>2. Num[b] \in Num[final]..Num[c] /\ Chain[c][Num[b]] = b
      BY <1>3, <3>1, StateFacts, NumFacts DEF IsAncestor
    <3> QED BY <1>3, <3>2 DEF IInv, StatesOK
  <2>2. b \notin executed /\ b # head
    BY <1>3 DEF IInv, TypeOK
  <2>3. /\ states' = states \cup {b} /\ executed' = executed /\ head' = head
        /\ pc' = "dirty" /\ sw' = [NoSwitch EXCEPT !.inserted = b]
    BY DEF Insert
  <2> QED BY <2>1, <2>2, <2>3 DEF SwitchOK, InSwitch, InFork, IsAncestor, NoSwitch
<1> QED BY <1>1, <1>2, <1>4, <1>5 DEF IInv

\* erase, after a header was refused, keeps the inductive invariant.
LEMMA EraseStep == IInv /\ Erase => IInv'
<1> SUFFICES ASSUME IInv, Erase PROVE IInv'
  OBVIOUS
<1>0. /\ sw.inserted \in Block \ executed /\ sw.inserted # head
      /\ \A b \in states \ {sw.inserted} : ~IsAncestor(sw.inserted, b)
  BY DEF IInv, SwitchOK, Erase
<1>1. TypeOK'
  BY <1>0 DEF IInv, TypeOK, Erase, NoSwitch, disk
<1>2. IndexOK' /\ CommitOK' /\ ExecOK' /\ DiskOK'
  <2>1. IndexOK'
    BY DEF IInv, Erase, IndexOK, Tip, InFork
  <2>2. CommitOK'
    BY DEF IInv, Erase, CommitOK, Tip, Limit, InFork, IsAncestor
  <2>3. ExecOK'
    BY DEF IInv, Erase, ExecOK, Tip, Limit, InFork
  <2>4. DiskOK'
    BY DEF IInv, Erase, DiskOK, DiskBase, InFork, IsAncestor, disk
  <2> QED BY <2>1, <2>2, <2>3, <2>4
<1>3. StatesOK'
  <2>1. Tip' \in states'
    BY <1>0 DEF IInv, StatesOK, Erase, Tip
  <2>2. ASSUME NEW b \in states', NEW n \in Num[final]..Num[b]
        PROVE  Chain[b][n] \in states'
    <3>1. b \in states /\ b # sw.inserted /\ b \in Block /\ n \in Num[Root]..Num[b]
      BY StateFacts, NumFacts DEF Erase
    <3>2. Chain[b][n] \in states
      BY <3>1 DEF IInv, StatesOK
    <3>3. IsAncestor(Chain[b][n], b)
      BY <3>1, ChainFacts
    <3> QED BY <1>0, <3>1, <3>2, <3>3 DEF Erase
  <2> QED BY <2>1, <2>2 DEF StatesOK, Erase
<1>4. SwitchOK' /\ PendingOK'
  BY DEF IInv, Erase, SwitchOK, PendingOK, InFork, InSwitch, NoSwitch
<1> QED BY <1>1, <1>2, <1>3, <1>4 DEF IInv

\* Below the fork point the chain of b is the best chain.
LEMMA ForkPointFacts ==
  ASSUME IInv, pc = "switch", NEW b \in Block, NEW n \in Nums, IsForkPoint(n, b)
  PROVE  /\ n \in Num[final]..Num[head] /\ n \in Num[final]..Num[b]
         /\ \A m \in Num[Root]..n : Chain[head][m] = Chain[b][m]
         /\ commitIndex <= n
<1>1. Tip = head
  BY DEF Tip
<1>2. /\ n \in DOMAIN byBlocknumIndex /\ commitIndex <= n /\ n <= Num[b] /\ n <= Num[head]
      /\ byBlocknumIndex[n] = Chain[b][n]
  BY DEF IsForkPoint
<1>3. Num[final] <= commitIndex
  BY DEF IInv, CommitOK
<1>4. n \in Num[Root]..Num[head] /\ Chain[head][n] = Chain[b][n]
  BY <1>1, <1>2, IndexFacts
<1>5. n \in Num[Root]..Num[b] /\ n \in Num[final]..Num[head] /\ n \in Num[final]..Num[b]
  BY <1>2, <1>3, <1>4, StateFacts, NumFacts
<1>6. \A m \in Num[Root]..n : Chain[Chain[head][n]][m] = Chain[head][m]
  BY <1>4, ChainFacts, StateFacts
<1>7. \A m \in Num[Root]..n : Chain[Chain[b][n]][m] = Chain[b][m]
  BY <1>5, ChainFacts
<1> QED BY <1>2, <1>4, <1>5, <1>6, <1>7

\* trySetHead, towards the best block or back to the original head, keeps the
\* inductive invariant.
LEMMA TrySetHeadStep ==
  ASSUME IInv, pc = "switch", NEW b \in states, NEW keep \in BOOLEAN,
         keep => b = sw.original, TrySetHead(b, keep),
         UNCHANGED <<states, invalid, executed, byOrderIndex, head, commitIndex,
                     currentTerm, blockContext, disk, made, final, restarts>>
  PROVE  IInv'
<1>0. b \in Block
  BY StateFacts
<1>1. CASE pc' = "failed" /\ sw' = NoSwitch /\ UNCHANGED byBlocknumIndex
  <2>1. TypeOK'
    BY <1>1 DEF IInv, TypeOK, NoSwitch, disk
  <2>2. SwitchOK' /\ PendingOK'
    BY <1>1 DEF SwitchOK, PendingOK, InSwitch, InFork
  <2>3. ~InFork /\ ~InFork'
    BY <1>1 DEF InFork
  <2> QED BY <1>1, <2>1, <2>2, <2>3, Frame DEF IInv, disk
<1>2. ASSUME NEW n \in Nums, IsForkPoint(n, b), pc' = "exec",
             byBlocknumIndex' =
               [m \in {k \in DOMAIN byBlocknumIndex : k <= n} \cup (n + 1..Num[b]) |->
                  IF m <= n THEN byBlocknumIndex[m] ELSE Chain[b][m]],
             sw' = [sw EXCEPT !.target = b, !.pos = n, !.keep = keep]
      PROVE  IInv'
  <2>1. /\ n \in Num[final]..Num[head] /\ n \in Num[final]..Num[b]
        /\ \A m \in Num[Root]..n : Chain[head][m] = Chain[b][m]
        /\ commitIndex <= n
    BY <1>0, <1>2, ForkPointFacts
  <2>2. Num[b] \in Nat /\ n \in Nat /\ n \in Num[Root]..n /\ n \in Num[Root]..Num[b]
    BY <1>0, <2>1, NumFacts, StateFacts
  <2>3. /\ sw'.target = b /\ sw'.pos = n /\ sw'.original = sw.original
        /\ sw'.keep = keep
        /\ sw' \in [inserted : Block \cup {None}, original : Block \cup {None},
                    target : Block \cup {None}, pos : Nat, keep : BOOLEAN]
    BY <1>0, <1>2, <2>2 DEF IInv, TypeOK
  <2>4. Tip = head /\ Tip' = b /\ Limit' = n /\ DiskBase' = Chain[b][n]
    BY <1>2, <2>3 DEF Tip, Limit, DiskBase, InFork
  <2>5. PICK lo \in Num[Root]..Num[final] :
          byBlocknumIndex = [m \in lo..Num[head] |-> Chain[head][m]]
    BY <2>4 DEF IInv, IndexOK
  <2>6. byBlocknumIndex' = [m \in lo..Num[b] |-> Chain[b][m]]
    <3>1. {k \in DOMAIN byBlocknumIndex : k <= n} \cup (n + 1..Num[b]) = lo..Num[b]
      BY <2>1, <2>2, <2>5, StateFacts
    <3>2. \A m \in lo..Num[b] : m <= n => byBlocknumIndex[m] = Chain[b][m]
      BY <2>1, <2>2, <2>5, StateFacts
    <3> QED BY <1>2, <3>1, <3>2
  <2>7. IndexOK'
    BY <2>4, <2>5, <2>6 DEF IndexOK
  <2>8. TypeOK'
    <3>1. \A m \in lo..Num[b] : m \in Nat /\ Chain[b][m] \in Block
      BY <1>0, <2>2, <2>5, StateFacts, ChainFacts
    <3> QED BY <1>2, <2>3, <2>6, <3>1 DEF IInv, TypeOK, disk
  <2>9. CommitOK'
    <3>1. IsAncestor(final, head) /\ Num[final] <= commitIndex
      BY DEF IInv, CommitOK
    <3>2. Chain[b][Num[final]] = final
      BY <2>1, <3>1, StateFacts DEF IsAncestor
    <3>3. Num[final] <= Num[b]
      BY <2>1, <2>2, StateFacts
    <3> QED BY <2>1, <2>2, <2>4, <3>1, <3>2, <3>3 DEF CommitOK, IsAncestor
  <2>10. StatesOK'
    BY <2>4 DEF IInv, StatesOK
  <2>11. ExecOK'
    <3>1. Chain[head][n] \in executed
      BY <2>1 DEF IInv, ExecOK
    <3>2. Chain[b][n] = Chain[head][n]
      BY <2>1, <2>2
    <3> QED BY <2>4, <3>1, <3>2 DEF IInv, ExecOK
  <2>12. SwitchOK' /\ PendingOK'
    BY <1>0, <1>2, <2>1, <2>2, <2>3 DEF IInv, SwitchOK, PendingOK, InFork, InSwitch
  <2>13. DiskOK'
    <3>1. n \in Num[Root]..Num[head] /\ Chain[b][n] = Chain[head][n]
      BY <2>1, <2>2, StateFacts
    <3>2. IsAncestor(Chain[b][n], head) /\ Chain[b][n] \in Block
      BY <3>1, ChainFacts, StateFacts
    <3>3. IsAncestor(head, dbHead)
      BY DEF IInv, DiskOK, DiskBase, InFork
    <3>4. IsAncestor(Chain[b][n], dbHead)
      BY <3>2, <3>3, AncestorTrans, StateFacts
    <3> QED BY <2>4, <3>4 DEF IInv, DiskOK, IsAncestor, disk
  <2> QED BY <2>7, <2>8, <2>9, <2>10, <2>11, <2>12, <2>13 DEF IInv
<1> QED BY <1>1, <1>2 DEF TrySetHead

\* One turn of the loop of async_switch_fork keeps the inductive invariant.
LEMMA PickHeadStep == IInv /\ PickHead => IInv'
<1> SUFFICES ASSUME IInv, PickHead PROVE IInv'
  OBVIOUS
<1>1. CASE Viable = {} /\ pc' = "failed" /\ sw' = NoSwitch /\ UNCHANGED byBlocknumIndex
  <2>1. TypeOK'
    BY <1>1 DEF IInv, TypeOK, PickHead, NoSwitch, disk
  <2>2. SwitchOK' /\ PendingOK'
    BY <1>1 DEF SwitchOK, PendingOK, InSwitch, InFork
  <2>3. ~InFork /\ ~InFork'
    BY <1>1 DEF InFork, PickHead
  <2> QED BY <1>1, <2>1, <2>2, <2>3, Frame DEF IInv, PickHead, disk
<1>2. ASSUME NEW best \in Viable, TrySetHead(best, FALSE)
      PROVE  IInv'
  <2>1. best \in states
    BY DEF IInv, TypeOK, Viable
  <2> QED BY <1>2, <2>1, TrySetHeadStep DEF PickHead
<1>3. ASSUME sw.original \in byOrderIndex, TrySetHead(sw.original, TRUE)
      PROVE  IInv'
  <2>1. sw.original \in states
    BY <1>3 DEF IInv, TypeOK
  <2> QED BY <1>3, <2>1, TrySetHeadStep DEF PickHead
<1> QED BY <1>1, <1>2, <1>3 DEF PickHead, KeepsPending

\* In execute_fork: the position, the block below it and the block above it.
LEMMA ForkFacts ==
  ASSUME IInv, InFork, sw.pos < Num[sw.target]
  PROVE  /\ sw.target \in Block /\ Tip = sw.target
         /\ sw.pos \in Nat /\ Num[sw.target] \in Nat
         /\ sw.pos \in Num[final]..Num[sw.target]
         /\ sw.pos + 1 \in Num[final]..Num[sw.target]
         /\ sw.pos \in Num[Root]..Num[sw.target]
         /\ sw.pos + 1 \in Num[Root]..Num[sw.target]
         /\ NextOnFork = Chain[sw.target][sw.pos + 1]
         /\ NextOnFork \in states /\ Num[NextOnFork] = sw.pos + 1
         /\ Chain[sw.target][sw.pos] \in executed
<1>1. sw.target \in Block /\ Tip = sw.target /\ Num[final] <= sw.pos
  BY DEF IInv, SwitchOK, Tip, InFork
<1>2. sw.pos \in Nat /\ Num[sw.target] \in Nat
  BY <1>1, NumFacts DEF IInv, TypeOK
<1>3. /\ sw.pos \in Num[final]..Num[sw.target] /\ sw.pos + 1 \in Num[final]..Num[sw.target]
      /\ sw.pos \in Num[Root]..Num[sw.target] /\ sw.pos + 1 \in Num[Root]..Num[sw.target]
  BY <1>1, <1>2, StateFacts
<1>4. NextOnFork = Chain[sw.target][sw.pos + 1]
  BY <1>1, <1>3, IndexFacts DEF NextOnFork
<1>5. NextOnFork \in states
  BY <1>1, <1>3, <1>4 DEF IInv, StatesOK
<1>6. Num[NextOnFork] = sw.pos + 1
  BY <1>1, <1>3, <1>4, ChainFacts
<1>7. Chain[sw.target][sw.pos] \in executed
  <2>1. CASE pc = "exec"
    BY <1>1, <2>1 DEF IInv, ExecOK, Limit
  <2>2. CASE pc = "setHead"
    <3>1. NextOnFork \in executed
      BY <1>1, <1>4, <2>2 DEF IInv, ExecOK, Limit
    <3>2. sw.pos \in Num[final]..Num[NextOnFork] /\ sw.pos \in Num[Root]..sw.pos + 1
      BY <1>2, <1>3, <1>6, StateFacts
    <3>3. Chain[NextOnFork][sw.pos] \in executed
      BY <3>1, <3>2 DEF IInv, ExecOK
    <3>4. Chain[NextOnFork][sw.pos] = Chain[sw.target][sw.pos]
      BY <1>1, <1>3, <1>4, <3>2, ChainFacts
    <3> QED BY <3>3, <3>4
  <2> QED BY <2>1, <2>2 DEF InFork
<1> QED BY <1>1, <1>2, <1>3, <1>4, <1>5, <1>6, <1>7

\* Passing over a block executed before keeps the inductive invariant.
LEMMA SkipExecutedStep == IInv /\ SkipExecuted => IInv'
<1> SUFFICES ASSUME IInv, SkipExecuted PROVE IInv'
  OBVIOUS
<1>0. InFork /\ InFork' /\ pc = "exec" /\ pc' = "setHead" /\ sw.pos < Num[sw.target]
  BY DEF SkipExecuted, InFork
<1>1. TypeOK' /\ IndexOK' /\ StatesOK' /\ DiskOK' /\ SwitchOK' /\ PendingOK'
  <2>1. TypeOK'
    BY <1>0 DEF IInv, TypeOK, SkipExecuted, disk
  <2>2. IndexOK'
    BY <1>0 DEF IInv, IndexOK, SkipExecuted, Tip
  <2>3. StatesOK'
    BY <1>0 DEF IInv, StatesOK, SkipExecuted, Tip
  <2>4. DiskOK'
    BY <1>0 DEF IInv, DiskOK, SkipExecuted, DiskBase, IsAncestor, disk
  <2>5. SwitchOK'
    BY <1>0 DEF IInv, SwitchOK, SkipExecuted, InFork, InSwitch
  <2>6. PendingOK'
    BY <1>0 DEF IInv, PendingOK, SkipExecuted, InSwitch
  <2> QED BY <2>1, <2>2, <2>3, <2>4, <2>5, <2>6
<1>2. Limit = sw.pos /\ Limit' = sw.pos + 1 /\ Tip' = Tip /\ Tip = sw.target
  BY <1>0 DEF Limit, Tip, SkipExecuted
<1>3. CommitOK'
  <2>1. sw.pos + 1 <= Num[Tip] /\ commitIndex <= sw.pos + 1
    <3>1. sw.pos \in Nat /\ Num[Tip] \in Nat /\ commitIndex \in Nat
      BY <1>0, ForkFacts, StateFacts
    <3>2. commitIndex <= sw.pos
      BY <1>2 DEF IInv, CommitOK
    <3> QED BY <1>0, <1>2, <3>1, <3>2
  <2> QED BY <1>2, <2>1 DEF IInv, CommitOK, SkipExecuted, IsAncestor
<1>4. ExecOK'
  BY <1>0, <1>2, ForkFacts DEF IInv, ExecOK, SkipExecuted
<1> QED BY <1>1, <1>3, <1>4 DEF IInv

\* commit never goes back, and never past the head or past what it was asked for.
LEMMA CommitFacts ==
  ASSUME NEW num \in Nat, NEW h \in Block, NEW ci \in Nat
  PROVE  /\ NewCommitIndex(num, h, ci) \in Nat
         /\ ci <= NewCommitIndex(num, h, ci)
         /\ NewCommitIndex(num, h, ci) = ci \/ NewCommitIndex(num, h, ci) <= Num[h]
         /\ NewCommitIndex(num, h, ci) = ci \/ NewCommitIndex(num, h, ci) <= num
BY NumFacts DEF NewCommitIndex

\* Executing a valid block, and the commit it causes, keeps the inductive invariant.
LEMMA ExecuteBlockStep ==
  ASSUME NEW num \in Nat
  PROVE  IInv /\ ExecuteBlock(num) => IInv'
<1> SUFFICES ASSUME IInv, ExecuteBlock(num) PROVE IInv'
  OBVIOUS
<1>0. InFork /\ InFork' /\ pc = "exec" /\ pc' = "setHead" /\ sw.pos < Num[sw.target]
  BY DEF ExecuteBlock, InFork
<1>1. Limit = sw.pos /\ Limit' = sw.pos + 1 /\ Tip' = Tip /\ Tip = sw.target
  BY <1>0 DEF Limit, Tip, ExecuteBlock
<1>2. commitIndex' \in Nat /\ commitIndex <= commitIndex' /\ commitIndex' <= sw.pos + 1
  <2>1. commitIndex \in Nat /\ head \in Block /\ commitIndex <= sw.pos /\ num <= sw.pos + 1
    BY <1>1, StateFacts DEF IInv, CommitOK, ExecuteBlock
  <2>2. commitIndex' = NewCommitIndex(num, head, commitIndex)
    BY DEF ExecuteBlock
  <2>3. sw.pos \in Nat
    BY <1>0, ForkFacts
  <2>4. /\ NewCommitIndex(num, head, commitIndex) \in Nat
        /\ commitIndex <= NewCommitIndex(num, head, commitIndex)
        /\ \/ NewCommitIndex(num, head, commitIndex) = commitIndex
           \/ NewCommitIndex(num, head, commitIndex) <= num
    BY <2>1, CommitFacts
  <2> QED BY <2>1, <2>2, <2>3, <2>4
<1>3. TypeOK'
  <2>1. byOrderIndex' \subseteq states
    <3>1. OrderAfterCommit(byOrderIndex, states \ invalid, byBlocknumIndex,
                           NewCommitIndex(num, head, commitIndex))
            \subseteq byOrderIndex \cup (states \ invalid)
      BY OrderSubset
    <3> QED BY <3>1 DEF IInv, TypeOK, ExecuteBlock
  <2>2. NextOnFork \in states
    BY <1>0, ForkFacts
  <2> QED BY <1>2, <2>1, <2>2 DEF IInv, TypeOK, ExecuteBlock
<1>4. IndexOK' /\ StatesOK' /\ SwitchOK' /\ PendingOK'
  <2>1. IndexOK'
    BY <1>1 DEF IInv, IndexOK, ExecuteBlock
  <2>2. StatesOK'
    BY <1>1 DEF IInv, StatesOK, ExecuteBlock
  <2>3. PendingOK'
    BY <1>0 DEF IInv, PendingOK, ExecuteBlock, InSwitch
  <2>4. SwitchOK'
    BY <1>0 DEF IInv, SwitchOK, ExecuteBlock, InSwitch, InFork
  <2> QED BY <2>1, <2>2, <2>3, <2>4
<1>5. CommitOK'
  <2>1. Num[Tip] \in Nat /\ Num[final] \in Nat /\ commitIndex \in Nat
    BY StateFacts
  <2>2. sw.pos \in Nat
    BY <1>0, ForkFacts
  <2>3. Num[final] <= commitIndex
    BY DEF IInv, CommitOK
  <2>4. sw.pos + 1 <= Num[Tip] /\ Num[final] <= commitIndex'
    BY <1>0, <1>1, <1>2, <2>1, <2>2, <2>3
  <2> QED BY <1>1, <1>2, <2>4 DEF IInv, CommitOK, ExecuteBlock, IsAncestor
<1>6. executed' = executed \cup {NextOnFork} /\ final' = final
  BY DEF ExecuteBlock
<1>7. ExecOK'
  <2>1. ASSUME NEW n \in Num[final]..Num[NextOnFork]
        PROVE  Chain[NextOnFork][n] \in executed'
    <3>1. CASE n = sw.pos + 1
      BY <1>0, <1>6, <3>1, ForkFacts, NumFacts, StateFacts
    <3>2. CASE n # sw.pos + 1
      <4> DEFINE p == Chain[sw.target][sw.pos]
      <4>1. /\ n \in Num[final]..sw.pos /\ n \in Num[Root]..sw.pos
            /\ n \in Num[Root]..sw.pos + 1
        BY <1>0, <3>2, ForkFacts, StateFacts
      <4>2. Num[p] = sw.pos /\ Chain[p][n] = Chain[sw.target][n]
        BY <1>0, <4>1, ForkFacts, ChainFacts
      <4>3. Chain[NextOnFork][n] = Chain[sw.target][n]
        BY <1>0, <4>1, ForkFacts, ChainFacts
      <4>4. p \in executed
        BY <1>0, ForkFacts
      <4>5. Chain[p][n] \in executed
        BY <4>1, <4>2, <4>4 DEF IInv, ExecOK
      <4> QED BY <1>6, <4>2, <4>3, <4>5
    <3> QED BY <3>1, <3>2
  <2>2. Chain[Tip'][Limit'] \in executed'
    BY <1>0, <1>1, <1>6, ForkFacts
  <2> QED BY <1>6, <2>1, <2>2 DEF IInv, ExecOK, ExecuteBlock
<1>8. DiskOK'
  <2>1. DiskBase' = DiskBase
    BY <1>0 DEF DiskBase, ExecuteBlock
  <2>2. revisions' = revisions \cup {NextOnFork} /\ dbHead' = dbHead
    BY DEF ExecuteBlock
  <2> QED BY <1>6, <2>1, <2>2 DEF IInv, DiskOK, IsAncestor
<1> QED BY <1>3, <1>4, <1>5, <1>7, <1>8 DEF IInv

\* Moving the head on disk keeps the inductive invariant.
LEMMA SetHeadStep == IInv /\ SetHead => IInv'
<1> SUFFICES ASSUME IInv, SetHead PROVE IInv'
  OBVIOUS
<1>1. pc = "setHead" /\ pc' = "exec" /\ InFork /\ InFork'
  BY DEF SetHead, InFork
<1>2. /\ sw' \in [inserted : Block \cup {None}, original : Block \cup {None},
                  target : Block \cup {None}, pos : Nat, keep : BOOLEAN]
      /\ sw'.pos = sw.pos + 1 /\ sw'.target = sw.target /\ sw'.keep = sw.keep
      /\ sw'.original = sw.original
  BY DEF IInv, TypeOK, SetHead
<1>3. Tip = sw.target /\ Tip' = Tip /\ Limit = sw.pos + 1 /\ Limit' = Limit
  BY <1>1, <1>2 DEF Tip, Limit
<1>4. sw.pos < Num[sw.target]
  <2>1. sw.pos \in Nat
    BY DEF IInv, TypeOK
  <2>2. Num[Tip] \in Nat
    BY StateFacts
  <2>3. sw.pos + 1 <= Num[Tip]
    BY <1>3 DEF IInv, CommitOK
  <2> QED BY <1>3, <2>1, <2>2, <2>3
<1>5. /\ NextOnFork = Chain[sw.target][sw.pos + 1] /\ NextOnFork \in states
      /\ NextOnFork \in Block /\ NextOnFork \in executed
  <2>1. NextOnFork = Chain[sw.target][sw.pos + 1] /\ NextOnFork \in states
    BY <1>1, <1>4, ForkFacts
  <2> QED BY <1>3, <2>1 DEF IInv, ExecOK, TypeOK
<1>6. TypeOK'
  BY <1>1, <1>2, <1>5 DEF IInv, TypeOK, SetHead
<1>7. IndexOK' /\ StatesOK' /\ PendingOK'
  BY <1>1, <1>2, <1>3 DEF IInv, IndexOK, StatesOK, PendingOK, SetHead, InSwitch
<1>8. SwitchOK'
  <2>1. Num[final] <= sw'.pos
    BY <1>1, <1>2, <1>4, ForkFacts, StateFacts
  <2> QED BY <1>1, <1>2, <2>1 DEF IInv, SwitchOK, SetHead, InSwitch, InFork
<1>9. CommitOK' /\ ExecOK'
  BY <1>3 DEF IInv, CommitOK, ExecOK, SetHead, IsAncestor
<1>10. DiskOK'
  <2>1. DiskBase' = NextOnFork /\ dbHead' = NextOnFork
    BY <1>1, <1>2, <1>5 DEF DiskBase, SetHead
  <2>2. IsAncestor(NextOnFork, NextOnFork)
    BY <1>5, AncestorRefl
  <2>3. ASSUME RootRevision = {Root}, NEW n \in Num[final]..Num[NextOnFork]
        PROVE  Chain[NextOnFork][n] \in revisions
    <3>1. Chain[NextOnFork][n] \in executed
      BY <1>5 DEF IInv, ExecOK
    <3>2. /\ NextOnFork \in Block /\ Num[NextOnFork] \in Nat /\ Num[Root] \in Nat
          /\ Num[final] \in Nat /\ Num[Root] <= Num[final]
      BY <1>5, StateFacts, NumFacts
    <3>3. n \in Num[Root]..Num[NextOnFork] /\ Num[final] <= n
      BY <3>2
    <3>4. Num[Chain[NextOnFork][n]] = n
      BY <3>2, <3>3, ChainFacts
    <3> QED BY <2>3, <3>1, <3>3, <3>4 DEF IInv, DiskOK
  <2> QED BY <2>1, <2>2, <2>3 DEF IInv, DiskOK, SetHead, IsAncestor
<1> QED BY <1>6, <1>7, <1>8, <1>9, <1>10 DEF IInv

\* A block that fails to execute, and blacklist_subtree, keep the inductive invariant.
LEMMA ExecuteFailsStep == IInv /\ ExecuteFails => IInv'
<1> SUFFICES ASSUME IInv, ExecuteFails PROVE IInv'
  OBVIOUS
<1> DEFINE p == Chain[sw.target][sw.pos]
<1>1. /\ pc = "exec" /\ pc' = "switch" /\ InFork /\ ~InFork'
      /\ sw.pos < Num[sw.target] /\ sw' = [NoSwitch EXCEPT !.original = sw.original]
  BY DEF ExecuteFails, InFork
<1>2. /\ sw.target \in Block /\ Tip = sw.target /\ Limit = sw.pos
      /\ sw.pos \in Num[final]..Num[sw.target] /\ sw.pos \in Num[Root]..Num[sw.target]
      /\ NextOnFork \in states /\ sw.pos \in Nat
  BY <1>1, ForkFacts DEF Limit
<1>3. p \in executed /\ p \in states /\ p \in Block /\ Num[p] = sw.pos
  BY <1>1, <1>2, ForkFacts, ChainFacts, StateFacts
<1>4. head' = p /\ Tip' = p /\ Limit' = sw.pos /\ DiskBase' = p
  <2>1. head' = p
    BY <1>2, IndexFacts DEF ExecuteFails
  <2> QED BY <1>1, <1>3, <2>1 DEF Tip, Limit, DiskBase
<1>5. byBlocknumIndex' \in [DOMAIN byBlocknumIndex' -> Block]
      /\ IndexOK' /\ DOMAIN byBlocknumIndex' \subseteq Nat
  <2>1. PICK lo \in Num[Root]..Num[final] :
          byBlocknumIndex = [m \in lo..Num[sw.target] |-> Chain[sw.target][m]]
    BY <1>2 DEF IInv, IndexOK
  <2>2. byBlocknumIndex' = [m \in {k \in DOMAIN byBlocknumIndex : k <= sw.pos}
                              |-> byBlocknumIndex[m]]
    BY DEF ExecuteFails, TruncateAbove
  <2>3. {k \in DOMAIN byBlocknumIndex : k <= sw.pos} = lo..sw.pos
    BY <1>2, <2>1, StateFacts, NumFacts
  <2>4. \A m \in lo..sw.pos : m \in Num[Root]..sw.pos /\ m \in lo..Num[sw.target]
    BY <1>2, <2>1, StateFacts, NumFacts
  <2>5. \A m \in lo..sw.pos : byBlocknumIndex[m] = Chain[p][m] /\ Chain[p][m] \in Block
    BY <1>2, <1>3, <2>1, <2>4, ChainFacts
  <2>6. byBlocknumIndex' = [m \in lo..sw.pos |-> Chain[p][m]]
    BY <2>2, <2>3, <2>5
  <2>7. IndexOK'
    <3>1. byBlocknumIndex' = [m \in lo..Num[Tip'] |-> Chain[Tip'][m]]
      BY <1>3, <1>4, <2>6
    <3>2. lo \in Num[Root]..Num[final']
      BY DEF ExecuteFails
    <3> QED BY <3>1, <3>2 DEF IndexOK
  <2>8. lo..sw.pos \subseteq Nat
    <3>1. Num[Root] \in Nat /\ Num[final] \in Nat
      BY StateFacts
    <3> QED BY <3>1
  <2> QED BY <2>5, <2>6, <2>7, <2>8
<1>6. TypeOK'
  <2>1. sw' \in [inserted : Block \cup {None}, original : Block \cup {None},
                 target : Block \cup {None}, pos : Nat, keep : BOOLEAN]
    BY <1>1 DEF IInv, TypeOK, NoSwitch
  <2>2. invalid' \subseteq states /\ byOrderIndex' \subseteq states
    BY <1>2 DEF IInv, TypeOK, ExecuteFails, Subtree
  <2>3. head' \in states
    BY <1>3, <1>4
  <2> QED BY <1>1, <1>5, <2>1, <2>2, <2>3 DEF IInv, TypeOK, ExecuteFails, disk
<1>7. CommitOK'
  <2>1. Num[final] <= commitIndex /\ commitIndex <= sw.pos /\ IsAncestor(final, sw.target)
    BY <1>2 DEF IInv, CommitOK
  <2>2. Num[final] \in Num[Root]..sw.pos /\ Num[final] <= sw.pos
    <3>1. Num[Root] \in Nat /\ Num[final] \in Nat /\ Num[Root] <= Num[final]
      BY StateFacts
    <3> QED BY <1>2, <3>1
  <2>3. Chain[p][Num[final]] = Chain[sw.target][Num[final]]
    BY <1>2, <2>2, ChainFacts
  <2>4. IsAncestor(final, p)
    BY <1>3, <2>1, <2>2, <2>3 DEF IsAncestor
  <2> QED BY <1>2, <1>3, <1>4, <2>1, <2>4 DEF CommitOK, ExecuteFails, IsAncestor
<1>8. StatesOK' /\ ExecOK'
  BY <1>3, <1>4, NumFacts DEF IInv, StatesOK, ExecOK, ExecuteFails
<1>9. SwitchOK' /\ PendingOK'
  BY <1>1 DEF IInv, SwitchOK, PendingOK, ExecuteFails, InSwitch, InFork, NoSwitch, TypeOK
<1>10. DiskOK'
  <2>1. IsAncestor(p, dbHead)
    BY <1>1 DEF IInv, DiskOK, DiskBase
  <2> QED BY <1>4, <2>1 DEF IInv, DiskOK, ExecuteFails, IsAncestor, disk
<1> QED BY <1>5, <1>6, <1>7, <1>8, <1>9, <1>10 DEF IInv

=============================================================================
