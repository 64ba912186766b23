-------------------------------- MODULE ForkDb --------------------------------
(***************************************************************************)
(* The fork database of one node: class ForkDb of                          *)
(* libraries/psibase/native/include/psibase/ForkDb.hpp, driven the way     *)
(* blocknet (libraries/net/include/psibase/blocknet.hpp) drives it, and    *)
(* the revisions that useTriedent.cpp keeps for it on disk.                *)
(*                                                                         *)
(* A node handles one message or timer at a time.  A handler that inserts  *)
(* a block, raises the term, narrows the subtree or aborts the pending     *)
(* block ends with a fork switch; the switch executes blocks one at a time *)
(* and a crash may fall between any two of its writes, so its loop is      *)
(* spelled out here, with pc naming the place in the handler.              *)
(*                                                                         *)
(* Operators marked `Bug:' are variants of the definition that follows     *)
(* with a mistake in them.  Nothing uses them; they serve to confirm that  *)
(* the properties at the end of the module notice such a mistake.          *)
(*                                                                         *)
(* Data that is abstracted: a block is a number, its place in the order of *)
(* Checksum256 ids; what the header says of it (number, term, ancestors)   *)
(* is given by constant functions; executing a block either succeeds       *)
(* (Valid) or throws.  The map `blocks' holds the same ids as `states'     *)
(* apart from the unbooted root, which has a state and no block.           *)
(***************************************************************************)
EXTENDS Integers, FiniteSets

CONSTANTS
  Block,          \* the block ids that can occur
  Root,           \* the block the node starts from
  Num,            \* Num[b]      header.blockNum
  Term,           \* Term[b]     header.term
  Chain,          \* Chain[b][n] the ancestor of b with number n (b itself at Num[b])
  Valid,          \* the blocks that execute without an error
  Own,            \* the blocks this node may produce
  Confirmable,    \* the blocks a peer may report as confirmed by a quorum
  RootRevision,   \* {Root} if the database holds a revision of Root, {} before boot
  MaxTerm,        \* bound on the term
  MaxRestarts,    \* bound on the number of crashes
  None            \* the null pointer

(* Every block descends from Root, an ancestor's ancestor is an ancestor,  *)
(* and an honest producer never lowers the term: start_leader passes the   *)
(* term of the node, which is at least the term of its head.               *)
ASSUME BlockTreeAssumption ==
  /\ Block \subseteq Nat /\ Root \in Block /\ None \notin Block
  /\ Num \in [Block -> Nat] /\ Term \in [Block -> Nat]
  /\ Valid \subseteq Block /\ Own \subseteq Block \ {Root}
  /\ Confirmable \subseteq Block
  /\ RootRevision \in {{}, {Root}}
  /\ MaxTerm \in Nat /\ MaxRestarts \in Nat
  /\ DOMAIN Chain = Block
  /\ \A b \in Block : Num[Root] <= Num[b]
  /\ \A b \in Block : Chain[b] \in [Num[Root]..Num[b] -> Block]
  /\ \A b \in Block : Chain[b][Num[b]] = b
  /\ \A b \in Block : \A n \in Num[Root]..Num[b] :
       /\ Num[Chain[b][n]] = n
       /\ Term[Chain[b][n]] <= Term[b]
       /\ \A m \in Num[Root]..n : Chain[Chain[b][n]][m] = Chain[b][m]
  /\ \A b \in Block : Chain[b][Num[Root]] = Root

VARIABLES
  states,           \* blocks with a BlockHeaderState
  invalid,          \* those whose `invalid' flag is set
  executed,         \* those whose `revision' is not null
  byOrderIndex,     \* the blocks that may become the head
  byBlocknumIndex,  \* block number -> id, the best chain
  head, commitIndex, currentTerm,
  blockContext,     \* the block being produced, or None
  dbHead,           \* on disk: the block whose revision is the head revision
  revisions,        \* on disk: blocks with a revision by id
  pc,               \* the place in the running handler
  sw,               \* locals of the handler
  made,             \* own blocks produced so far
  final,            \* history: highest block committed when a handler ended
  restarts          \* history: crashes so far

memory  == <<states, invalid, executed, byOrderIndex, byBlocknumIndex, head,
             commitIndex, currentTerm, blockContext, pc, sw>>
disk    == <<dbHead, revisions>>
vars    == <<memory, disk, made, final, restarts>>

Nums == {Num[b] : b \in Block}

-----------------------------------------------------------------------------
(* Headers *)

Prev(b) == Chain[b][Num[b] - 1]

HasPrev(b) == Num[b] > Num[Root]

IsAncestor(a, b) == Num[a] <= Num[b] /\ Chain[b][Num[a]] = a

\* The tuple order() compares: term, then number, then id.
Before(a, b) ==
  \/ Term[a] < Term[b]
  \/ Term[a] = Term[b] /\ Num[a] < Num[b]
  \/ Term[a] = Term[b] /\ Num[a] = Num[b] /\ a < b

IsGreatest(b, S) == b \in S /\ \A c \in S : c = b \/ Before(c, b)

IsLeast(b, S) == b \in S /\ \A c \in S : c = b \/ Before(b, c)

-----------------------------------------------------------------------------
(* Operations on the indexes *)

\* The blocks of the index S that descend from root inside S: a parent comes
\* before its child in the order, so one pass from the least entry finds them.
Subtree(S, root) ==
  {b \in S : IsAncestor(root, b) /\ \A n \in Num[root]..Num[b] : Chain[b][n] \in S}

\* set_subtree for a root that is not invalid: S is byOrderIndex and all the
\* states that are not invalid are put back if root has been pruned before.
SetSubtree(S, viable, root) == Subtree(IF root \in S THEN S ELSE viable, root)

\* commit(num) in terms of the chain idx, the head h and the old index ci.
NewCommitIndex(num, h, ci) ==
  LET capped == IF num < Num[h] THEN num ELSE Num[h]
  IN  IF capped > ci THEN capped ELSE ci

OrderAfterCommit(S, viable, idx, ci) ==
  IF \E b \in S : IsLeast(b, S) /\ Num[b] < ci
  THEN SetSubtree(S, viable, idx[ci])
  ELSE S

\* Bug: gc does not drop the children of a block it drops.
SurvivorsOrphaned(S, idx, ci) ==
  {b \in S : Num[b] > ci \/ b = idx[ci]}

\* gc: what survives of a set of blocks when idx[ci] is irreversible.  Ids
\* start with the block number, so a parent is dropped before its children.
Survivors(S, idx, ci) ==
  {b \in S : /\ Num[b] >= ci
             /\ Chain[b][ci] = idx[ci]
             /\ \A n \in ci..Num[b] : Chain[b][n] \in S}

\* The unbooted root is in `states' and not in `blocks', so gc skips it.
KeptStates(S, idx, ci) == Survivors(S, idx, ci) \cup (S \cap ({Root} \ RootRevision))

\* removeRevisions, the same walk over the revisions on disk.
KeptRevisions(S, idx, ci) == Survivors(S, idx, ci)

TrimBelow(idx, ci) == [n \in {m \in DOMAIN idx : m >= ci} |-> idx[n]]

TruncateAbove(idx, top) == [n \in {m \in DOMAIN idx : m <= top} |-> idx[n]]

-----------------------------------------------------------------------------
(* Initial state: the constructor on a database whose head is Root. *)

NoSwitch == [inserted |-> None, original |-> None, target |-> None,
             pos |-> 0, keep |-> FALSE]

\* The state the constructor builds from a database with head h whose chain
\* has revisions from number m up.
Loaded(h, m) ==
  /\ states' = {Chain[h][n] : n \in m..Num[h]}
  /\ executed' = {Chain[h][n] : n \in m..Num[h]}
  /\ byOrderIndex' = {Chain[h][n] : n \in m..Num[h]}
  /\ byBlocknumIndex' = [n \in m..Num[h] |-> Chain[h][n]]
  /\ head' = h
  /\ commitIndex' = m
  /\ currentTerm' = Term[h]
  /\ final' = Chain[h][m]

Init ==
  /\ states = {Root} /\ executed = {Root} /\ byOrderIndex = {Root}
  /\ byBlocknumIndex = [n \in {Num[Root]} |-> Root]
  /\ head = Root /\ commitIndex = Num[Root] /\ currentTerm = Term[Root]
  /\ final = Root
  /\ invalid = {} /\ blockContext = None
  /\ dbHead = Root /\ revisions = RootRevision
  /\ pc = "idle" /\ sw = NoSwitch /\ made = {} /\ restarts = 0

-----------------------------------------------------------------------------
(* What blocknet and the consensus algorithm do between fork switches *)

\* Bug: insert does not ask whether the parent is viable.
InsertAnywhere(b) ==
  /\ pc = "idle"
  /\ b \notin Own \ made
  /\ Num[b] > commitIndex /\ b \notin states
  /\ Prev(b) \in states
  /\ states' = states \cup {b}
  /\ invalid' = IF Prev(b) \in invalid THEN invalid \cup {b} ELSE invalid
  /\ byOrderIndex' = IF Prev(b) \notin invalid
                     THEN byOrderIndex \cup {b} ELSE byOrderIndex
  /\ pc' = "dirty" /\ sw' = [NoSwitch EXCEPT !.inserted = b]
  /\ UNCHANGED <<executed, byBlocknumIndex, head, commitIndex, currentTerm,
                 blockContext, disk, made, final, restarts>>

\* Bug: insert does not inherit the invalid flag.
InsertFresh(b) ==
  /\ pc = "idle"
  /\ b \notin Own \ made
  /\ Num[b] > commitIndex /\ b \notin states
  /\ Prev(b) \in states
  /\ states' = states \cup {b}
  /\ invalid' = invalid
  /\ byOrderIndex' = IF Prev(b) \notin invalid /\ Prev(b) \in byOrderIndex
                     THEN byOrderIndex \cup {b} ELSE byOrderIndex
  /\ pc' = "dirty" /\ sw' = [NoSwitch EXCEPT !.inserted = b]
  /\ UNCHANGED <<executed, byBlocknumIndex, head, commitIndex, currentTerm,
                 blockContext, disk, made, final, restarts>>

\* recv(BlockMessage), up to the call of on_accept_block_header.  A block at or
\* below commitIndex, a known block and one whose parent is unknown change
\* nothing; nor does one whose signature is wrong.
Insert(b) ==
  /\ pc = "idle"
  /\ b \notin Own \ made
  /\ Num[b] > commitIndex /\ b \notin states
  /\ Prev(b) \in states
  /\ states' = states \cup {b}
  /\ invalid' = IF Prev(b) \in invalid THEN invalid \cup {b} ELSE invalid
  /\ byOrderIndex' = IF Prev(b) \notin invalid /\ Prev(b) \in byOrderIndex
                     THEN byOrderIndex \cup {b} ELSE byOrderIndex
  /\ pc' = "dirty" /\ sw' = [NoSwitch EXCEPT !.inserted = b]
  /\ UNCHANGED <<executed, byBlocknumIndex, head, commitIndex, currentTerm,
                 blockContext, disk, made, final, restarts>>

\* on_accept_block_header throws, and recv(BlockMessage) takes the block out.
Erase ==
  /\ pc = "dirty" /\ sw.inserted # None
  /\ states' = states \ {sw.inserted}
  /\ invalid' = invalid \ {sw.inserted}
  /\ byOrderIndex' = byOrderIndex \ {sw.inserted}
  /\ pc' = "idle" /\ sw' = NoSwitch
  /\ UNCHANGED <<executed, byBlocknumIndex, head, commitIndex, currentTerm,
                 blockContext, disk, made, final, restarts>>

\* The consensus algorithm learns of a higher term: a leader steps down and its
\* pending block is aborted.
SetTerm(t) ==
  /\ pc \in {"idle", "dirty"}
  /\ t > currentTerm /\ t <= MaxTerm
  /\ currentTerm' = t
  /\ blockContext' = None
  /\ pc' = "dirty" /\ sw' = NoSwitch
  /\ UNCHANGED <<states, invalid, executed, byOrderIndex, byBlocknumIndex, head,
                 commitIndex, disk, made, final, restarts>>

\* The consensus algorithm learns that root is on the only viable fork.
SetSubtreeTo(root) ==
  /\ pc \in {"idle", "dirty"}
  /\ root \in Confirmable \cap states /\ Num[root] >= commitIndex
  /\ Term[root] <= currentTerm
  /\ IF root \in invalid
     THEN pc' = "failed" /\ UNCHANGED byOrderIndex
     ELSE /\ byOrderIndex' = SetSubtree(byOrderIndex, states \ invalid, root)
          /\ pc' = "dirty"
  /\ sw' = NoSwitch
  /\ UNCHANGED <<states, invalid, executed, byBlocknumIndex, head, commitIndex,
                 currentTerm, blockContext, disk, made, final, restarts>>

\* A node that stops being a producer aborts its pending block.
AbortBlock ==
  /\ pc = "idle" /\ blockContext # None
  /\ blockContext' = None
  /\ pc' = "dirty" /\ sw' = NoSwitch
  /\ UNCHANGED <<states, invalid, executed, byOrderIndex, byBlocknumIndex, head,
                 commitIndex, currentTerm, disk, made, final, restarts>>

\* start_leader: a block on top of h in the current term.  An unbooted chain
\* needs the boot transaction before the block can be finished.
PendingOn(h) ==
  [previous |-> h, term |-> currentTerm,
   needGenesis |-> h = Root /\ RootRevision = {}]

StartBlock ==
  /\ pc = "idle" /\ blockContext = None
  /\ blockContext' = PendingOn(head)
  /\ UNCHANGED <<states, invalid, executed, byOrderIndex, byBlocknumIndex, head,
                 commitIndex, currentTerm, pc, sw, disk, made, final, restarts>>

\* The boot transaction is pushed into the pending block.
PushBoot ==
  /\ pc = "idle" /\ blockContext # None /\ blockContext.needGenesis
  /\ blockContext' = [blockContext EXCEPT !.needGenesis = FALSE]
  /\ UNCHANGED <<states, invalid, executed, byOrderIndex, byBlocknumIndex, head,
                 commitIndex, currentTerm, pc, sw, disk, made, final, restarts>>

\* finish_block, first write: the revision of the new block.
FinishWrite(b) ==
  /\ pc = "idle" /\ blockContext # None /\ ~blockContext.needGenesis
  /\ b \in Own \ made
  /\ HasPrev(b) /\ Prev(b) = blockContext.previous /\ Term[b] = blockContext.term
  /\ revisions' = revisions \cup {b}
  /\ made' = made \cup {b}
  /\ pc' = "finish" /\ sw' = [NoSwitch EXCEPT !.target = b]
  /\ UNCHANGED <<states, invalid, executed, byOrderIndex, byBlocknumIndex, head,
                 commitIndex, currentTerm, blockContext, dbHead, final, restarts>>

\* Bug: finish_block does not move the head on disk.
FinishInMemory ==
  LET b == sw.target IN
  /\ pc = "finish"
  /\ dbHead' = dbHead
  /\ states' = states \cup {b} /\ executed' = executed \cup {b}
  /\ byOrderIndex' = byOrderIndex \cup {b}
  /\ byBlocknumIndex' =
       [n \in DOMAIN byBlocknumIndex \cup {Num[b]} |->
          IF n = Num[b] THEN b ELSE byBlocknumIndex[n]]
  /\ head' = b
  /\ blockContext' = PendingOn(b)
  /\ pc' = "produced"
  /\ UNCHANGED <<invalid, commitIndex, currentTerm, sw, revisions, made, final,
                 restarts>>

\* finish_block, second write: the new block becomes the head, on disk and in
\* memory, and start_leader starts the next one.
FinishInstall ==
  LET b == sw.target IN
  /\ pc = "finish"
  /\ dbHead' = b
  /\ states' = states \cup {b} /\ executed' = executed \cup {b}
  /\ byOrderIndex' = byOrderIndex \cup {b}
  /\ byBlocknumIndex' =
       [n \in DOMAIN byBlocknumIndex \cup {Num[b]} |->
          IF n = Num[b] THEN b ELSE byBlocknumIndex[n]]
  /\ head' = b
  /\ blockContext' = PendingOn(b)
  /\ pc' = "produced"
  /\ UNCHANGED <<invalid, commitIndex, currentTerm, sw, revisions, made, final,
                 restarts>>

\* gc, on the chain idx whose irreversible block is idx[ci].
Collect(idx, ci, order) ==
  LET kept == KeptStates(states, idx, ci) IN
  /\ states' = kept
  /\ invalid' = invalid \cap kept
  /\ executed' = executed \cap kept
  /\ byOrderIndex' = order \cap kept
  /\ byBlocknumIndex' = TrimBelow(idx, ci)
  /\ revisions' = KeptRevisions(revisions, idx, ci)

\* The end of a handler: what is committed now is irreversible to an observer.
EndHandler(idx, ci) == pc' = "idle" /\ sw' = NoSwitch /\ final' = idx[ci]

\* on_produce_block commits up to num, set_producers may end this node's
\* leadership, and do_gc runs last.
Produced(num) ==
  LET ci == NewCommitIndex(num, head, commitIndex) IN
  /\ pc = "produced"
  /\ commitIndex' = ci
  /\ Collect(byBlocknumIndex, ci,
             OrderAfterCommit(byOrderIndex, states \ invalid, byBlocknumIndex, ci))
  /\ blockContext' \in {None, blockContext}
  /\ EndHandler(byBlocknumIndex, ci)
  /\ UNCHANGED <<head, currentTerm, dbHead, made, restarts>>

\* A confirmation from a peer lets the consensus algorithm commit up to num.
Commit(num) ==
  LET ci == NewCommitIndex(num, head, commitIndex) IN
  /\ pc = "idle" /\ ci > commitIndex
  /\ commitIndex' = ci
  /\ byOrderIndex' = OrderAfterCommit(byOrderIndex, states \ invalid,
                                      byBlocknumIndex, ci)
  /\ EndHandler(byBlocknumIndex, ci)
  /\ UNCHANGED <<states, invalid, executed, byBlocknumIndex, head, currentTerm,
                 blockContext, disk, made, restarts>>

-----------------------------------------------------------------------------
(* The fork switch: async_switch_fork, trySetHead, execute_fork *)

BeginSwitch ==
  /\ pc = "dirty"
  /\ pc' = "switch" /\ sw' = [NoSwitch EXCEPT !.original = head]
  /\ UNCHANGED <<states, invalid, executed, byOrderIndex, byBlocknumIndex, head,
                 commitIndex, currentTerm, blockContext, disk, made, final, restarts>>

\* Bug: the search starts below currentTerm + 2.
ViableNextTerm == {b \in byOrderIndex : Term[b] <= currentTerm + 1}

Viable == {b \in byOrderIndex : Term[b] <= currentTerm}

\* The pending block has no id yet, so it is compared as if its id were zero.
BeforePending(b) ==
  \/ Term[b] < blockContext.term
  \/ Term[b] = blockContext.term /\ Num[b] < Num[blockContext.previous] + 1

\* Bug: the pending block is kept without comparing it.
KeepsAnyPending(best) ==
  /\ blockContext # None /\ ~blockContext.needGenesis
  /\ sw.original \in byOrderIndex

KeepsPending(best) ==
  /\ blockContext # None /\ ~blockContext.needGenesis
  /\ sw.original \in byOrderIndex
  /\ BeforePending(best)

\* Bug: trySetHead does not stop at the committed block.
ForksAnywhere(n, b) ==
  /\ n \in DOMAIN byBlocknumIndex /\ n <= Num[b] /\ n <= Num[head]
  /\ byBlocknumIndex[n] = Chain[b][n]
  /\ \A m \in n + 1..Num[head] : m <= Num[b] => byBlocknumIndex[m] # Chain[b][m]

\* The greatest number at which the best chain and the chain of b agree.
IsForkPoint(n, b) ==
  /\ n \in DOMAIN byBlocknumIndex /\ commitIndex <= n /\ n <= Num[b] /\ n <= Num[head]
  /\ byBlocknumIndex[n] = Chain[b][n]
  /\ \A m \in n + 1..Num[head] : m <= Num[b] => byBlocknumIndex[m] # Chain[b][m]

\* trySetHead up to execute_fork: byBlocknumIndex becomes the chain of b.
TrySetHead(b, keep) ==
  \/ /\ \E n \in Nums :
          /\ IsForkPoint(n, b)
          /\ byBlocknumIndex' =
               [m \in {k \in DOMAIN byBlocknumIndex : k <= n} \cup (n + 1..Num[b]) |->
                  IF m <= n THEN byBlocknumIndex[m] ELSE Chain[b][m]]
          /\ sw' = [sw EXCEPT !.target = b, !.pos = n, !.keep = keep]
     /\ pc' = "exec"
  \/ /\ ~ \E n \in Nums : IsForkPoint(n, b)
     /\ pc' = "failed" /\ sw' = NoSwitch
     /\ UNCHANGED byBlocknumIndex

\* One turn of the loop of async_switch_fork.
PickHead ==
  /\ pc = "switch"
  /\ \/ /\ Viable = {}
        /\ pc' = "failed" /\ sw' = NoSwitch
        /\ UNCHANGED byBlocknumIndex
     \/ \E best \in Viable :
          /\ IsGreatest(best, Viable)
          /\ IF KeepsPending(best) THEN TrySetHead(sw.original, TRUE)
                                   ELSE TrySetHead(best, FALSE)
  /\ UNCHANGED <<states, invalid, executed, byOrderIndex, head, commitIndex,
                 currentTerm, blockContext, disk, made, final, restarts>>

NextOnFork == byBlocknumIndex[sw.pos + 1]

\* execute_block of a block that has been executed before.
SkipExecuted ==
  /\ pc = "exec" /\ sw.pos < Num[sw.target] /\ NextOnFork \in executed
  /\ pc' = "setHead"
  /\ UNCHANGED <<states, invalid, executed, byOrderIndex, byBlocknumIndex, head,
                 commitIndex, currentTerm, blockContext, sw, disk, made, final, restarts>>

\* execute_block of a valid block: its revision is written, and on_accept_block
\* commits up to num.  head is still the head from before the switch.
ExecuteBlock(num) ==
  LET ci == NewCommitIndex(num, head, commitIndex) IN
  /\ pc = "exec" /\ sw.pos < Num[sw.target]
  /\ NextOnFork \notin executed /\ NextOnFork \in Valid
  /\ num <= sw.pos + 1
  /\ executed' = executed \cup {NextOnFork}
  /\ revisions' = revisions \cup {NextOnFork}
  /\ commitIndex' = ci
  /\ byOrderIndex' = OrderAfterCommit(byOrderIndex, states \ invalid,
                                      byBlocknumIndex, ci)
  /\ pc' = "setHead"
  /\ UNCHANGED <<states, invalid, byBlocknumIndex, head, currentTerm, blockContext,
                 sw, dbHead, made, final, restarts>>

\* Bug: blacklist_subtree leaves the descendants alone.
BlacklistsOne ==
  LET bad == {NextOnFork} IN
  /\ pc = "exec" /\ sw.pos < Num[sw.target]
  /\ NextOnFork \notin executed /\ NextOnFork \notin Valid
  /\ invalid' = invalid \cup bad
  /\ byOrderIndex' = byOrderIndex \ bad
  /\ byBlocknumIndex' = TruncateAbove(byBlocknumIndex, sw.pos)
  /\ head' = byBlocknumIndex[sw.pos]
  /\ pc' = "switch" /\ sw' = [NoSwitch EXCEPT !.original = sw.original]
  /\ UNCHANGED <<states, executed, commitIndex, currentTerm, blockContext, disk,
                 made, final, restarts>>

\* execute_fork meets a block that does not execute: blacklist_subtree, and the
\* loop of async_switch_fork looks for another head.
ExecuteFails ==
  LET bad == Subtree(byOrderIndex, NextOnFork) \cup {NextOnFork} IN
  /\ pc = "exec" /\ sw.pos < Num[sw.target]
  /\ NextOnFork \notin executed /\ NextOnFork \notin Valid
  /\ invalid' = invalid \cup bad
  /\ byOrderIndex' = byOrderIndex \ bad
  /\ byBlocknumIndex' = TruncateAbove(byBlocknumIndex, sw.pos)
  /\ head' = byBlocknumIndex[sw.pos]
  /\ pc' = "switch" /\ sw' = [NoSwitch EXCEPT !.original = sw.original]
  /\ UNCHANGED <<states, executed, commitIndex, currentTerm, blockContext, disk,
                 made, final, restarts>>

SetHead ==
  /\ pc = "setHead"
  /\ dbHead' = NextOnFork
  /\ pc' = "exec" /\ sw' = [sw EXCEPT !.pos = @ + 1]
  /\ UNCHANGED <<states, invalid, executed, byOrderIndex, byBlocknumIndex, head,
                 commitIndex, currentTerm, blockContext, revisions, made, final, restarts>>

\* Bug: the callback of switch_fork leaves the pending block alone.
SwitchKeepsPending ==
  /\ pc = "exec" /\ sw.pos = Num[sw.target]
  /\ head' = sw.target
  /\ EndHandler(byBlocknumIndex, commitIndex)
  /\ IF sw.keep \/ sw.target = sw.original
     THEN UNCHANGED <<states, invalid, executed, byOrderIndex, byBlocknumIndex,
                      blockContext, revisions>>
     ELSE /\ UNCHANGED blockContext
          /\ Collect(byBlocknumIndex, commitIndex, byOrderIndex)
  /\ UNCHANGED <<commitIndex, currentTerm, dbHead, made, restarts>>

\* The whole fork is executed.  If the head has changed, the callback of
\* switch_fork restarts or ends block production and collects garbage.
SwitchDone ==
  /\ pc = "exec" /\ sw.pos = Num[sw.target]
  /\ head' = sw.target
  /\ EndHandler(byBlocknumIndex, commitIndex)
  /\ IF sw.keep \/ sw.target = sw.original
     THEN UNCHANGED <<states, invalid, executed, byOrderIndex, byBlocknumIndex,
                      blockContext, revisions>>
     ELSE /\ blockContext' \in IF blockContext = None THEN {None}
                               ELSE {None, PendingOn(sw.target)}
          /\ Collect(byBlocknumIndex, commitIndex, byOrderIndex)
  /\ UNCHANGED <<commitIndex, currentTerm, dbHead, made, restarts>>

-----------------------------------------------------------------------------
(* A crash, or a halt after a consensus failure, and the constructor. *)

LoadsFrom(h, m) ==
  /\ m \in Num[Root]..Num[h]
  /\ \A n \in m..Num[h] - 1 : Chain[h][n] \in revisions
  /\ m > Num[Root] => Chain[h][m - 1] \notin revisions

Restart ==
  /\ restarts < MaxRestarts
  /\ restarts' = restarts + 1
  /\ \E m \in Nums : LoadsFrom(dbHead, m) /\ Loaded(dbHead, m)
  /\ invalid' = {} /\ blockContext' = None
  /\ pc' = "idle" /\ sw' = NoSwitch
  /\ UNCHANGED <<disk, made>>

Next ==
  \/ \E b \in Block : Insert(b) \/ SetSubtreeTo(b) \/ FinishWrite(b)
  \/ \E t \in 1..MaxTerm : SetTerm(t)
  \/ \E n \in Nums : Produced(n) \/ Commit(n) \/ ExecuteBlock(n)
  \/ Erase \/ AbortBlock \/ StartBlock \/ PushBoot \/ FinishInstall
  \/ BeginSwitch \/ PickHead \/ SkipExecuted \/ ExecuteFails \/ SetHead
  \/ SwitchDone \/ Restart

Spec == Init /\ [][Next]_vars

\* A handler that has started runs on: it never waits for another message.
HandlerStep ==
  \/ BeginSwitch \/ PickHead \/ SkipExecuted \/ ExecuteFails \/ SetHead
  \/ SwitchDone \/ FinishInstall
  \/ \E n \in Nums : Produced(n) \/ ExecuteBlock(n)

FairSpec == Spec /\ WF_vars(HandlerStep)

-----------------------------------------------------------------------------
(* Properties *)

\* Types of the state.
TypeOK ==
  /\ states \subseteq Block /\ invalid \subseteq states /\ executed \subseteq states
  /\ byOrderIndex \subseteq states
  /\ DOMAIN byBlocknumIndex \subseteq Nat
  /\ \A n \in DOMAIN byBlocknumIndex : byBlocknumIndex[n] \in Block
  /\ head \in states /\ commitIndex \in Nat /\ currentTerm \in Nat
  /\ blockContext \in [previous : Block, term : Nat, needGenesis : BOOLEAN] \cup {None}
  /\ dbHead \in Block /\ revisions \subseteq Block
  /\ pc \in {"idle", "dirty", "switch", "exec", "setHead", "finish", "produced", "failed"}
  /\ sw \in [inserted : Block \cup {None}, original : Block \cup {None},
             target : Block \cup {None}, pos : Nat, keep : BOOLEAN]
  /\ made \subseteq Own /\ final \in Block /\ restarts \in Nat

Running == pc # "failed"

\* The block whose chain byBlocknumIndex holds.
Tip == IF pc \in {"exec", "setHead"} THEN sw.target ELSE head

\* byBlocknumIndex, which trySetHead rewrites in place while it walks down a
\* fork, is always the whole chain of one block from some number at or below
\* commitIndex up, and every entry from there on has a state.
BestChainIndexed ==
  Running =>
    /\ \E lo \in Num[Root]..commitIndex : DOMAIN byBlocknumIndex = lo..Num[Tip]
    /\ commitIndex \in DOMAIN byBlocknumIndex
    /\ \A n \in DOMAIN byBlocknumIndex :
         /\ byBlocknumIndex[n] = Chain[Tip][n]
         /\ n >= commitIndex => byBlocknumIndex[n] \in states

\* The assertions on revision in execute_fork and trySetHead: a block is only
\* executed on top of one that has been executed, and so is the head.
ParentExecuted ==
  /\ pc \in {"exec", "setHead"} => byBlocknumIndex[sw.pos] \in executed
  /\ Running => head \in executed

\* A committed block stays on the chain of the head, in memory and on disk, no
\* matter which forks arrive or fail: "An irreversible block cannot be forked out".
IrreversibleOnChain ==
  Running => IsAncestor(final, head) /\ IsAncestor(final, dbHead)

\* While the node runs, irreversibility only moves forward along one chain.
IrreversibleAdvances ==
  [][restarts' = restarts => IsAncestor(final, final')]_vars

\* After a crash at any point of any handler, the chain read back from disk
\* contains everything that was irreversible.
RestartKeepsIrreversible ==
  [][restarts' # restarts => IsAncestor(final, head')]_vars

\* A restart declares no block irreversible that was not: the constructor loads
\* the "blocks in [irreversible, head]" and takes the first as committed.  (The
\* first block of an unbooted chain is irreversible as soon as it exists.)
RestartCommitsNothing ==
  [][restarts' # restarts =>
       \/ commitIndex' <= Num[final]
       \/ RootRevision = {} /\ commitIndex' = Num[Root] + 1]_vars

\* Between handlers the head is the greatest viable block, unless the block being
\* produced is better than every block that beats the head.
HeadIsBest ==
  pc = "idle" =>
    /\ head \in Viable
    /\ \A b \in Viable : \/ b = head \/ Before(b, head)
                         \/ /\ blockContext # None /\ ~blockContext.needGenesis
                            /\ BeforePending(b)

\* byOrderIndex, kept up by insert, erase, set_subtree, blacklist_subtree, commit
\* and gc, is exactly the set of blocks not known to be invalid below one root.
OrderIndexIsSubtree ==
  Running /\ byOrderIndex # {} =>
    \E root \in byOrderIndex :
      byOrderIndex = {b \in states \ invalid : IsAncestor(root, b)}

\* No descendant of an invalid block is left to be tried.
InvalidIsInherited ==
  \A b \in states : Num[b] > commitIndex /\ Prev(b) \in invalid => b \in invalid

\* gc never leaves a hole: above the committed block every state has its parent,
\* which on_accept_block_header relies on to find a block's ancestors.
StatesConnected ==
  Running => \A b \in states : Num[b] > commitIndex => Prev(b) \in states

\* "no error is possible" when commit narrows the subtree: the block it commits
\* was not blacklisted and its term is not in the future.
CommitCannotFail ==
  Running => \A n \in DOMAIN byBlocknumIndex :
    n <= (IF pc \in {"exec", "setHead"} THEN sw.pos ELSE Num[head])
      => byBlocknumIndex[n] \notin invalid /\ Term[byBlocknumIndex[n]] <= currentTerm

\* "If the head block is changed, the pending block needs to be cancelled": at
\* the end of every handler the pending block builds on the head, in this term.
PendingOnHead ==
  pc \in {"idle", "finish"} /\ blockContext # None =>
    blockContext.previous = head /\ blockContext.term = currentTerm

\* Between handlers the disk head is the head; it may only run ahead of it while
\* a pending block was kept in spite of a partly executed better fork.
DiskHeadIsHead ==
  pc = "idle" => \/ dbHead = head
                 \/ blockContext # None /\ IsAncestor(head, dbHead)

\* The precondition of blacklist_subtree: "root is in byOrderIndex".
BlacklistedIsIndexed ==
  pc = "exec" /\ sw.pos < Num[sw.target] /\ NextOnFork \notin executed \cup Valid
    => NextOnFork \in byOrderIndex

\* The durable head and the irreversible block behave as DurableChain promises.
Durable == INSTANCE DurableChain WITH tip <- dbHead, irreversible <- final

ImplementsDurableChain == Durable!Spec

\* Every handler ends: the loop of async_switch_fork does not try forks for ever.
SwitchTerminates == pc # "idle" ~> pc \in {"idle", "failed"}
=============================================================================
