--------------------------- MODULE ForkDbHandlers ---------------------------
(***************************************************************************)
(* The steps that end a handler, and restarts, keep the inductive          *)
(* invariant of ForkDb.  A handler ends with commit and gc, which move the *)
(* irreversible block and cut the chain, the states and the revisions      *)
(* below it; a restart rebuilds all of them from the disk.                 *)
(***************************************************************************)
EXTENDS ForkDbInvariant

-----------------------------------------------------------------------------
(* Garbage collection *)

\* A survivor's ancestors survive, down to the irreversible block.
LEMMA SurvivorsClosed ==
  ASSUME NEW S \in SUBSET Block, NEW idx, NEW ci \in Nat, Num[Root] <= ci,
         NEW b \in Survivors(S, idx, ci), NEW n \in ci..Num[b]
  PROVE  Chain[b][n] \in Survivors(S, idx, ci)
<1>1. /\ b \in S /\ b \in Block /\ Num[b] >= ci /\ Chain[b][ci] = idx[ci]
      /\ \A m \in ci..Num[b] : Chain[b][m] \in S
  BY DEF Survivors
<1>2. /\ n \in Num[Root]..Num[b] /\ ci \in Num[Root]..n
      /\ n \in Nat /\ Num[b] \in Nat /\ Num[Root] \in Nat
  BY <1>1, NumFacts
<1>3. Num[Chain[b][n]] = n /\ Chain[Chain[b][n]][ci] = idx[ci]
  BY <1>1, <1>2, ChainFacts
<1>4. ASSUME NEW m \in ci..n PROVE Chain[Chain[b][n]][m] \in S
  <2>1. m \in Num[Root]..n /\ m \in ci..Num[b]
    BY <1>2
  <2>2. Chain[Chain[b][n]][m] = Chain[b][m]
    BY <1>1, <1>2, <2>1, ChainFacts
  <2> QED BY <1>1, <2>1, <2>2
<1> QED BY <1>1, <1>2, <1>3, <1>4 DEF Survivors

\* A block of S whose ancestors from idx[ci] up are all in S survives.
LEMMA SurvivorsContain ==
  ASSUME NEW S, NEW idx, NEW ci \in Nat, NEW b \in S, Num[b] >= ci,
         Chain[b][ci] = idx[ci], \A n \in ci..Num[b] : Chain[b][n] \in S
  PROVE  b \in Survivors(S, idx, ci)
BY DEF Survivors

\* What gc leaves of the chain, the states and the disk once the whole chain of
\* Tip is executed and its block number ci is irreversible.
LEMMA CollectFacts ==
  ASSUME IInv, Tip \in executed, NEW ci \in Num[final]..Num[Tip],
         NEW order \in SUBSET states, Collect(byBlocknumIndex, ci, order)
  PROVE  /\ states' \subseteq states /\ invalid' \subseteq states'
         /\ executed' \subseteq states' /\ byOrderIndex' \subseteq states'
         /\ revisions' \subseteq revisions
         /\ Tip \in states' /\ Tip \in executed'
         /\ byBlocknumIndex' = [n \in ci..Num[Tip] |-> Chain[Tip][n]]
         /\ \A b \in states' : \A n \in ci..Num[b] : Chain[b][n] \in states'
         /\ \A b \in executed' : \A n \in ci..Num[b] : Chain[b][n] \in executed'
         /\ RootRevision = {Root} =>
              \A b \in executed' : ci <= Num[b] => b \in revisions'
         /\ RootRevision = {Root} /\ IsAncestor(Tip, dbHead) =>
              \A n \in ci..Num[dbHead] : Chain[dbHead][n] \in revisions'
<1> DEFINE idx  == byBlocknumIndex
           kept == KeptStates(states, idx, ci)
<1>1. /\ states' = kept /\ invalid' = invalid \cap kept /\ executed' = executed \cap kept
      /\ byOrderIndex' = order \cap kept /\ byBlocknumIndex' = TrimBelow(idx, ci)
      /\ revisions' = Survivors(revisions, idx, ci)
  BY DEF Collect, KeptRevisions
<1>2. /\ ci \in Nat /\ Num[Root] <= ci /\ Num[final] <= ci /\ ci <= Num[Tip]
      /\ Tip \in Block /\ Num[Tip] \in Nat /\ idx[ci] = Chain[Tip][ci]
      /\ states \subseteq Block /\ executed \subseteq states
  BY StateFacts, IndexFacts
<1>3. kept \subseteq states /\ Survivors(revisions, idx, ci) \subseteq revisions
  BY DEF KeptStates, Survivors
<1>4. \A n \in ci..Num[Tip] : n \in Num[final]..Num[Tip]
  BY <1>2, StateFacts
<1>5. Tip \in kept
  <2>1. \A n \in ci..Num[Tip] : Chain[Tip][n] \in states
    BY <1>4 DEF IInv, StatesOK
  <2>2. Tip \in states
    BY DEF IInv, StatesOK
  <2> QED BY <1>2, <2>1, <2>2, SurvivorsContain DEF KeptStates
<1>6. byBlocknumIndex' = [n \in ci..Num[Tip] |-> Chain[Tip][n]]
  <2>1. PICK lo \in Num[Root]..Num[final] : idx = [n \in lo..Num[Tip] |-> Chain[Tip][n]]
    BY DEF IInv, IndexOK
  <2>2. {m \in DOMAIN idx : m >= ci} = ci..Num[Tip]
    BY <1>2, <2>1, StateFacts
  <2>3. \A n \in ci..Num[Tip] : n \in lo..Num[Tip]
    BY <1>2, <2>1, StateFacts
  <2> QED BY <1>1, <2>1, <2>2, <2>3 DEF TrimBelow
<1>7. ASSUME NEW b \in kept, NEW n \in ci..Num[b] PROVE Chain[b][n] \in kept
  <2>1. CASE b \in Survivors(states, idx, ci)
    BY <1>2, <2>1, SurvivorsClosed DEF KeptStates
  <2>2. CASE b = Root
    <3>1. n = Num[Root] /\ Chain[b][n] = b
      BY <1>2, <2>2, BlockTreeAssumption, NumFacts
    <3> QED BY <3>1
  <2> QED BY <2>1, <2>2 DEF KeptStates
<1>8. ASSUME NEW b \in executed', NEW n \in ci..Num[b] PROVE Chain[b][n] \in executed'
  <2>1. b \in executed /\ b \in kept /\ b \in Block
    BY <1>1, <1>2
  <2>2. n \in Num[final]..Num[b]
    BY <1>2, <2>1, StateFacts, NumFacts
  <2>3. Chain[b][n] \in executed
    BY <2>1, <2>2 DEF IInv, ExecOK
  <2> QED BY <1>1, <1>7, <2>1, <2>3
<1>9. ASSUME RootRevision = {Root}, NEW b \in executed', ci <= Num[b]
      PROVE  b \in revisions'
  <2>1. b \in executed /\ b \in Survivors(states, idx, ci) /\ b \in Block
    BY <1>1, <1>2, <1>9 DEF KeptStates
  <2>2. Num[b] >= ci /\ Chain[b][ci] = idx[ci] /\ Num[b] \in Nat
    BY <2>1, NumFacts DEF Survivors
  <2>3. ASSUME NEW n \in ci..Num[b] PROVE Chain[b][n] \in revisions
    <3>1. Chain[b][n] \in executed
      BY <1>1, <1>8
    <3>2. n \in Num[Root]..Num[b] /\ Num[final] <= n
      BY <1>2, <2>2, StateFacts
    <3>3. Num[Chain[b][n]] = n
      BY <2>1, <3>2, ChainFacts
    <3> QED BY <1>9, <3>1, <3>2, <3>3 DEF IInv, DiskOK
  <2>4. b \in revisions
    <3>1. Num[final] \in Nat /\ Num[final] <= ci /\ ci \in Nat
      BY <1>2, StateFacts
    <3>2. Num[final] <= Num[b]
      BY <2>2, <3>1
    <3> QED BY <1>9, <2>1, <3>2 DEF IInv, DiskOK
  <2> QED BY <1>1, <1>2, <2>2, <2>3, <2>4, SurvivorsContain
<1>10. ASSUME RootRevision = {Root}, IsAncestor(Tip, dbHead), NEW n \in ci..Num[dbHead]
       PROVE  Chain[dbHead][n] \in revisions'
  <2>1. /\ dbHead \in Block /\ Num[dbHead] \in Nat /\ Num[Tip] <= Num[dbHead]
        /\ \A m \in Num[Root]..Num[Tip] : Chain[Tip][m] = Chain[dbHead][m]
    BY <1>2, <1>10, AncestorChain, StateFacts, NumFacts DEF IsAncestor
  <2>2. Chain[dbHead][ci] = idx[ci]
    <3>1. Num[Root] \in Nat
      BY StateFacts
    <3>2. ci \in Num[Root]..Num[Tip]
      BY <1>2, <3>1
    <3> QED BY <1>2, <2>1, <3>2
  <2>3. \A m \in ci..Num[dbHead] : Chain[dbHead][m] \in revisions
    <3>1. Num[final] \in Nat /\ Num[final] <= ci
      BY <1>2, StateFacts
    <3>2. \A m \in ci..Num[dbHead] : m \in Num[final]..Num[dbHead]
      BY <1>2, <2>1, <3>1
    <3> QED BY <1>10, <3>2 DEF IInv, DiskOK
  <2>4. dbHead \in revisions
    BY <1>2, <2>1, <2>3, NumFacts
  <2>5. dbHead \in Survivors(revisions, idx, ci)
    BY <1>2, <2>1, <2>2, <2>3, <2>4, SurvivorsContain
  <2>6. revisions \in SUBSET Block
    BY DEF IInv, TypeOK
  <2> QED BY <1>1, <1>2, <2>5, <2>6, SurvivorsClosed
<1> QED BY <1>1, <1>3, <1>5, <1>6, <1>7, <1>8, <1>9, <1>10

-----------------------------------------------------------------------------
(* The ends of handlers, and restarts *)

\* gc, then the end of a handler whose chain is that of Tip, restores IInv.
LEMMA CollectStep ==
  ASSUME IInv, Tip \in executed, NEW ci \in Num[final]..Num[Tip],
         NEW order \in SUBSET states, Collect(byBlocknumIndex, ci, order),
         EndHandler(byBlocknumIndex, ci), commitIndex' = ci, head' = Tip,
         IsAncestor(Tip, dbHead), dbHead' = dbHead, made' = made,
         currentTerm' = currentTerm, restarts' = restarts,
         \/ blockContext' = None
         \/ /\ blockContext' \in [previous : Block, term : Nat, needGenesis : BOOLEAN]
            /\ blockContext'.previous = Tip /\ blockContext'.term = currentTerm
  PROVE  IInv'
<1>1. /\ pc' = "idle" /\ sw' = NoSwitch /\ final' = byBlocknumIndex[ci]
  BY DEF EndHandler
<1>2. /\ Tip' = Tip /\ Limit' = Num[Tip] /\ DiskBase' = Tip /\ ~InFork' /\ ~InSwitch'
  BY <1>1 DEF Tip, Limit, DiskBase, InFork, InSwitch
<1>3. /\ Tip \in Block /\ ci \in Nat /\ Num[Tip] \in Nat /\ ci \in Num[Root]..Num[Tip]
      /\ final' = Chain[Tip][ci] /\ dbHead \in Block
  <2>1. /\ Tip \in Block /\ dbHead \in Block /\ Num[Tip] \in Nat
        /\ Num[Root] \in Nat /\ Num[final] \in Nat /\ Num[Root] <= Num[final]
    BY StateFacts
  <2>2. ci \in Nat /\ ci \in Num[Root]..Num[Tip]
    BY <2>1
  <2>3. byBlocknumIndex[ci] = Chain[Tip][ci]
    BY IndexFacts
  <2> QED BY <1>1, <2>1, <2>2, <2>3
<1>4. /\ final' \in Block /\ Num[final'] = ci /\ IsAncestor(final', Tip)
  BY <1>3, ChainFacts
<1>5. /\ states' \subseteq states /\ invalid' \subseteq states'
      /\ executed' \subseteq states' /\ byOrderIndex' \subseteq states'
      /\ revisions' \subseteq revisions
      /\ Tip \in states' /\ Tip \in executed'
      /\ byBlocknumIndex' = [n \in ci..Num[Tip] |-> Chain[Tip][n]]
  BY CollectFacts
<1>6. TypeOK'
  <2>1. ASSUME NEW n \in ci..Num[Tip] PROVE n \in Nat /\ Chain[Tip][n] \in Block
    <3>1. Num[Root] \in Nat
      BY StateFacts
    <3>2. n \in Nat /\ n \in Num[Root]..Num[Tip]
      BY <1>3, <3>1
    <3> QED BY <1>3, <3>2, ChainFacts
  <2>2. DOMAIN byBlocknumIndex' \subseteq Nat
        /\ \A n \in DOMAIN byBlocknumIndex' : byBlocknumIndex'[n] \in Block
    BY <1>5, <2>1
  <2>3. sw' \in [inserted : Block \cup {None}, original : Block \cup {None},
                 target : Block \cup {None}, pos : Nat, keep : BOOLEAN]
    BY <1>1 DEF NoSwitch
  <2>4. blockContext' \in [previous : Block, term : Nat, needGenesis : BOOLEAN] \cup {None}
    OBVIOUS
  <2> QED BY <1>1, <1>3, <1>4, <1>5, <2>2, <2>3, <2>4 DEF IInv, TypeOK
<1>7. IndexOK'
  <2>1. Num[Root] \in Nat
    BY StateFacts
  <2>2. ci \in Num[Root]..Num[final']
    BY <1>3, <1>4, <2>1
  <2>3. byBlocknumIndex' = [n \in ci..Num[Tip'] |-> Chain[Tip'][n]]
    BY <1>2, <1>5
  <2> QED BY <2>2, <2>3 DEF IndexOK
<1>8. CommitOK'
  BY <1>2, <1>3, <1>4 DEF CommitOK, IsAncestor
<1>9. StatesOK'
  BY <1>2, <1>4, <1>5, CollectFacts DEF StatesOK
<1>10. ExecOK'
  BY <1>2, <1>3, <1>4, <1>5, CollectFacts, NumFacts DEF ExecOK
<1>11. SwitchOK' /\ PendingOK'
  BY <1>1, <1>2 DEF SwitchOK, PendingOK
<1>12. DiskOK'
  BY <1>2, <1>4, CollectFacts DEF DiskOK, IsAncestor
<1> QED BY <1>6, <1>7, <1>8, <1>9, <1>10, <1>11, <1>12 DEF IInv

\* So does the end of a handler that does not collect garbage.
LEMMA FinalizeStep ==
  ASSUME IInv, Tip \in executed, NEW ci \in Num[final]..Num[Tip],
         EndHandler(byBlocknumIndex, ci), commitIndex' = ci, head' = Tip,
         IsAncestor(Tip, dbHead), byOrderIndex' \in SUBSET states,
         UNCHANGED <<states, invalid, executed, byBlocknumIndex, blockContext,
                     revisions, currentTerm, dbHead, made, restarts>>,
         blockContext # None => /\ blockContext.previous = Tip
                                /\ blockContext.term = currentTerm
  PROVE  IInv'
<1>1. pc' = "idle" /\ sw' = NoSwitch /\ final' = byBlocknumIndex[ci]
  BY DEF EndHandler
<1>2. /\ Tip \in Block /\ ci \in Nat /\ Num[Tip] \in Nat /\ ci \in Num[Root]..Num[Tip]
      /\ final' = Chain[Tip][ci] /\ dbHead \in Block
  BY <1>1, StateFacts, IndexFacts
<1>3. final' \in Block /\ Num[final'] = ci /\ IsAncestor(final', Tip)
  BY <1>2, ChainFacts
<1>4. Tip' = Tip /\ Limit' = Num[Tip] /\ DiskBase' = Tip /\ ~InFork' /\ ~InSwitch'
  BY <1>1 DEF Tip, Limit, DiskBase, InFork, InSwitch
<1>5. TypeOK'
  BY <1>1, <1>2, <1>3 DEF IInv, TypeOK, NoSwitch
<1>6. IndexOK'
  <2>1. PICK lo \in Num[Root]..Num[final] :
          byBlocknumIndex = [n \in lo..Num[Tip] |-> Chain[Tip][n]]
    BY DEF IInv, IndexOK
  <2>2. lo \in Num[Root]..ci
    BY <2>1, StateFacts
  <2> QED BY <1>3, <1>4, <2>1, <2>2 DEF IndexOK
<1>7. CommitOK'
  BY <1>2, <1>3, <1>4 DEF CommitOK, IsAncestor
<1>8. \A b \in Block : \A n \in ci..Num[b] : n \in Num[final]..Num[b]
  BY StateFacts, NumFacts
<1>9. StatesOK'
  BY <1>3, <1>4, <1>8, StateFacts DEF IInv, StatesOK
<1>10. ExecOK'
  BY <1>2, <1>3, <1>4, <1>8, StateFacts, NumFacts DEF IInv, ExecOK
<1>11. SwitchOK' /\ PendingOK'
  BY <1>1, <1>4 DEF SwitchOK, PendingOK
<1>12. DiskOK'
  <2>1. \A n \in ci..Num[dbHead] : n \in Num[final]..Num[dbHead]
    BY <1>8, StateFacts
  <2>2. \A b \in executed : ci <= Num[b] => Num[final] <= Num[b]
    BY StateFacts, NumFacts
  <2> QED BY <1>3, <1>4, <2>1, <2>2 DEF IInv, DiskOK, IsAncestor
<1> QED BY <1>5, <1>6, <1>7, <1>9, <1>10, <1>11, <1>12 DEF IInv

\* The end of a fork switch, with its gc, keeps the inductive invariant.
LEMMA SwitchDoneStep == IInv /\ SwitchDone => IInv'
<1> SUFFICES ASSUME IInv, SwitchDone PROVE IInv'
  OBVIOUS
<1>1. pc = "exec" /\ pc' = "idle" /\ InFork /\ sw.pos = Num[sw.target] /\ sw' = NoSwitch
  BY DEF SwitchDone, InFork, EndHandler
<1>2. Tip = sw.target /\ Limit = Num[Tip] /\ head' = Tip /\ Tip \in Block
  BY <1>1, StateFacts DEF Tip, Limit, SwitchDone
<1>3. Tip \in executed /\ IsAncestor(Tip, dbHead)
  BY <1>1, <1>2, NumFacts DEF IInv, ExecOK, DiskOK, DiskBase
<1>4. commitIndex \in Num[final]..Num[Tip]
  BY <1>2, StateFacts DEF IInv, CommitOK
<1>5. CASE sw.keep \/ sw.target = sw.original
  <2>1. sw.target = sw.original
    BY <1>1, <1>5 DEF IInv, SwitchOK
  <2>2. blockContext # None => blockContext.previous = Tip /\ blockContext.term = currentTerm
    BY <1>1, <1>2, <2>1 DEF IInv, PendingOK, InSwitch
  <2>3. UNCHANGED <<states, invalid, executed, byOrderIndex, byBlocknumIndex,
                    blockContext, revisions, commitIndex, currentTerm, dbHead, made,
                    restarts>>
    BY <1>5 DEF SwitchDone
  <2>4. byOrderIndex' \in SUBSET states
    BY <2>3 DEF IInv, TypeOK
  <2> QED BY <1>2, <1>3, <1>4, <2>2, <2>3, <2>4, FinalizeStep DEF SwitchDone
<1>6. CASE ~(sw.keep \/ sw.target = sw.original)
  <2>1. \/ blockContext' = None
        \/ /\ blockContext' \in [previous : Block, term : Nat, needGenesis : BOOLEAN]
           /\ blockContext'.previous = Tip /\ blockContext'.term = currentTerm
    <3>1. blockContext' \in {None, PendingOn(Tip)}
      BY <1>2, <1>6 DEF SwitchDone
    <3>2. /\ PendingOn(Tip) \in [previous : Block, term : Nat, needGenesis : BOOLEAN]
          /\ PendingOn(Tip).previous = Tip /\ PendingOn(Tip).term = currentTerm
      BY <1>2 DEF PendingOn, IInv, TypeOK
    <3> QED BY <3>1, <3>2
  <2>2. byOrderIndex \in SUBSET states
    BY DEF IInv, TypeOK
  <2> QED BY <1>2, <1>3, <1>4, <1>6, <2>1, <2>2, CollectStep DEF SwitchDone
<1> QED BY <1>5, <1>6

\* The second write of finish_block keeps the inductive invariant.
LEMMA FinishInstallStep == IInv /\ FinishInstall => IInv'
<1> SUFFICES ASSUME IInv, FinishInstall PROVE IInv'
  OBVIOUS
<1> DEFINE b == sw.target
<1>1. /\ pc = "finish" /\ pc' = "produced" /\ head' = b /\ dbHead' = b /\ sw' = sw
      /\ states' = states \cup {b} /\ executed' = executed \cup {b}
      /\ byOrderIndex' = byOrderIndex \cup {b} /\ blockContext' = PendingOn(b)
      /\ UNCHANGED <<invalid, commitIndex, currentTerm, sw, revisions, made, final,
                     restarts>>
  BY DEF FinishInstall
<1>2. /\ b \in Block /\ HasPrev(b) /\ Prev(b) = head /\ b \in revisions
  BY <1>1, BlockTreeAssumption DEF IInv, SwitchOK
<1>3. /\ Num[b] \in Nat /\ Num[b] = Num[head] + 1 /\ Chain[b][Num[b]] = b
      /\ \A m \in Num[Root]..Num[head] : Chain[head][m] = Chain[b][m]
      /\ IsAncestor(head, b)
  <2>1. Num[b] \in Nat /\ Chain[b][Num[b]] = b
    BY <1>2, NumFacts
  <2>2. Num[head] \in Nat
    BY StateFacts
  <2>3. /\ Num[head] = Num[b] - 1 /\ IsAncestor(head, b)
        /\ \A m \in Num[Root]..Num[b] - 1 : Chain[head][m] = Chain[b][m]
    BY <1>2, PrevFacts
  <2>4. Num[b] = Num[head] + 1
    BY <2>1, <2>2, <2>3
  <2> QED BY <2>1, <2>3, <2>4
<1>4. /\ Tip = head /\ Tip' = b /\ Limit = Num[head] /\ Limit' = Num[b]
      /\ DiskBase' = b /\ ~InFork /\ ~InFork' /\ ~InSwitch'
  BY <1>1 DEF Tip, Limit, DiskBase, InFork, InSwitch
<1>5. /\ DOMAIN byBlocknumIndex' \subseteq Nat
      /\ \A n \in DOMAIN byBlocknumIndex' : byBlocknumIndex'[n] \in Block
      /\ IndexOK'
  <2>1. PICK lo \in Num[Root]..Num[final] :
          byBlocknumIndex = [m \in lo..Num[head] |-> Chain[head][m]]
    BY <1>4 DEF IInv, IndexOK
  <2>2. Num[final] <= Num[head]
    BY <1>4, StateFacts DEF IInv, CommitOK, IsAncestor
  <2>0. /\ Num[Root] \in Nat /\ Num[final] \in Nat /\ Num[head] \in Nat
        /\ Num[Root] <= Num[final] /\ Num[b] = Num[head] + 1
    BY <1>3, StateFacts
  <2>3. DOMAIN byBlocknumIndex \cup {Num[b]} = lo..Num[b]
    <3>1. DOMAIN byBlocknumIndex = lo..Num[head]
      BY <2>1
    <3>2. lo..Num[head] \cup {Num[b]} = lo..Num[b]
      BY <2>0, <2>2
    <3> QED BY <3>1, <3>2
  <2>4. byBlocknumIndex' = [n \in DOMAIN byBlocknumIndex \cup {Num[b]} |->
                             IF n = Num[b] THEN b ELSE byBlocknumIndex[n]]
    BY DEF FinishInstall
  <2>5. \A n \in lo..Num[b] : n = Num[b] \/ n \in lo..Num[head]
    BY <2>0
  <2>6. \A n \in lo..Num[head] : n \in Num[Root]..Num[head] /\ n # Num[b]
    BY <2>0
  <2>7. byBlocknumIndex' = [n \in lo..Num[b] |-> Chain[b][n]]
    BY <1>3, <2>1, <2>3, <2>4, <2>5, <2>6
  <2>8. ASSUME NEW n \in lo..Num[b] PROVE n \in Nat /\ Chain[b][n] \in Block
    <3>1. n \in Nat /\ n \in Num[Root]..Num[b]
      BY <2>0
    <3> QED BY <1>2, <3>1, ChainFacts
  <2> QED BY <1>1, <1>4, <2>1, <2>7, <2>8 DEF IndexOK
<1>6. TypeOK'
  <2>1. blockContext' \in [previous : Block, term : Nat, needGenesis : BOOLEAN]
    BY <1>1, <1>2 DEF PendingOn, IInv, TypeOK
  <2> QED BY <1>1, <1>2, <1>5, <2>1 DEF IInv, TypeOK
<1>7. CommitOK'
  <2>1. IsAncestor(final, head) /\ Num[final] <= commitIndex /\ commitIndex <= Num[head]
    BY <1>4 DEF IInv, CommitOK
  <2>2. IsAncestor(final, b)
    BY <1>2, <1>3, <2>1, AncestorTrans, StateFacts
  <2>3. Num[head] \in Nat /\ commitIndex \in Nat
    BY StateFacts
  <2>4. commitIndex <= Num[b]
    BY <1>3, <2>1, <2>3
  <2> QED BY <1>1, <1>3, <1>4, <2>1, <2>2, <2>4 DEF CommitOK, IsAncestor
<1>8. ASSUME NEW n \in Num[final]..Num[b]
      PROVE  n = Num[b] \/ (n \in Num[final]..Num[head] /\ Chain[b][n] = Chain[head][n])
  <2>1. /\ Num[Root] \in Nat /\ Num[final] \in Nat /\ Num[head] \in Nat
        /\ Num[Root] <= Num[final] /\ Num[b] = Num[head] + 1
    BY <1>3, StateFacts
  <2>2. n = Num[b] \/ (n \in Num[final]..Num[head] /\ n \in Num[Root]..Num[head])
    BY <2>1
  <2> QED BY <1>3, <2>2
<1>9. StatesOK'
  <2>1. head \in states
    BY <1>4 DEF IInv, StatesOK
  <2> QED BY <1>1, <1>3, <1>4, <1>8, <2>1 DEF IInv, StatesOK
<1>10. ExecOK'
  <2>1. head \in executed
    BY DEF IInv, ExecOK
  <2> QED BY <1>1, <1>3, <1>4, <1>8, <2>1 DEF IInv, ExecOK
<1>11. SwitchOK' /\ PendingOK'
  BY <1>1, <1>4 DEF SwitchOK, PendingOK, PendingOn
<1>12. DiskOK'
  <2>1. IsAncestor(b, b)
    BY <1>2, AncestorRefl
  <2>2. ASSUME RootRevision = {Root}, NEW n \in Num[final]..Num[b]
        PROVE  Chain[b][n] \in revisions
    <3>1. CASE n = Num[b]
      BY <1>2, <1>3, <3>1
    <3>2. CASE n # Num[b]
      <4>1. n \in Num[final]..Num[head] /\ Chain[b][n] = Chain[head][n]
        BY <1>8, <3>2
      <4>2. n \in Num[final]..Num[dbHead] /\ Chain[head][n] = Chain[dbHead][n]
        <5>1. IsAncestor(head, dbHead)
          BY <1>4 DEF IInv, DiskOK, DiskBase
        <5>2. /\ Num[Root] \in Nat /\ Num[final] \in Nat /\ Num[head] \in Nat
              /\ Num[dbHead] \in Nat /\ Num[Root] <= Num[final]
              /\ head \in Block /\ dbHead \in Block
          BY StateFacts
        <5>3. /\ Num[head] \in Num[Root]..Num[dbHead]
              /\ \A m \in Num[Root]..Num[head] : Chain[head][m] = Chain[dbHead][m]
          BY <5>1, <5>2, AncestorChain
        <5>4. n \in Num[final]..Num[dbHead] /\ n \in Num[Root]..Num[head]
          BY <4>1, <5>2, <5>3
        <5> QED BY <5>3, <5>4
      <4> QED BY <2>2, <4>1, <4>2 DEF IInv, DiskOK
    <3> QED BY <3>1, <3>2
  <2> QED BY <1>1, <1>2, <1>4, <2>1, <2>2 DEF IInv, DiskOK, IsAncestor
<1> QED BY <1>5, <1>6, <1>7, <1>9, <1>10, <1>11, <1>12 DEF IInv

\* The commit and gc after a block was produced keep the inductive invariant.
LEMMA ProducedStep ==
  ASSUME NEW num \in Nat
  PROVE  IInv /\ Produced(num) => IInv'
<1> SUFFICES ASSUME IInv, Produced(num) PROVE IInv'
  OBVIOUS
<1> DEFINE ci == NewCommitIndex(num, head, commitIndex)
           order == OrderAfterCommit(byOrderIndex, states \ invalid, byBlocknumIndex, ci)
<1>1. pc = "produced" /\ Tip = head /\ Limit = Num[head] /\ DiskBase = head /\ ~InSwitch
  BY DEF Produced, Tip, Limit, DiskBase, InFork, InSwitch
<1>2. Tip \in executed /\ IsAncestor(Tip, dbHead)
  BY <1>1 DEF IInv, ExecOK, DiskOK
<1>3. ci \in Num[final]..Num[Tip]
  <2>1. Num[final] <= commitIndex /\ commitIndex <= Num[head]
    BY <1>1 DEF IInv, CommitOK
  <2>2. /\ ci \in Nat /\ commitIndex <= ci /\ (ci = commitIndex \/ ci <= Num[head])
    BY CommitFacts, StateFacts
  <2> QED BY <1>1, <2>1, <2>2, StateFacts
<1>4. order \in SUBSET states
  <2>1. order \subseteq byOrderIndex \cup (states \ invalid)
    BY OrderSubset
  <2> QED BY <2>1 DEF IInv, TypeOK
<1>5. \/ blockContext' = None
      \/ /\ blockContext' \in [previous : Block, term : Nat, needGenesis : BOOLEAN]
         /\ blockContext'.previous = Tip /\ blockContext'.term = currentTerm
  BY <1>1 DEF Produced, IInv, TypeOK, PendingOK
<1>6. /\ Collect(byBlocknumIndex, ci, order) /\ EndHandler(byBlocknumIndex, ci)
      /\ commitIndex' = ci
      /\ UNCHANGED <<head, currentTerm, dbHead, made, restarts>>
  BY DEF Produced
<1> HIDE DEF ci, order
<1> QED BY <1>1, <1>2, <1>3, <1>4, <1>5, <1>6, CollectStep

\* commit on a confirmation keeps the inductive invariant.
LEMMA CommitStep ==
  ASSUME NEW num \in Nat
  PROVE  IInv /\ Commit(num) => IInv'
<1> SUFFICES ASSUME IInv, Commit(num) PROVE IInv'
  OBVIOUS
<1> DEFINE ci == NewCommitIndex(num, head, commitIndex)
<1>1. pc = "idle" /\ Tip = head /\ Limit = Num[head] /\ DiskBase = head /\ ~InSwitch
  BY DEF Commit, Tip, Limit, DiskBase, InFork, InSwitch
<1>2. Tip \in executed /\ IsAncestor(Tip, dbHead)
  BY <1>1 DEF IInv, ExecOK, DiskOK
<1>3. ci \in Num[final]..Num[Tip]
  <2>1. Num[final] <= commitIndex /\ commitIndex <= Num[head]
    BY <1>1 DEF IInv, CommitOK
  <2>2. /\ ci \in Nat /\ commitIndex <= ci /\ (ci = commitIndex \/ ci <= Num[head])
    BY CommitFacts, StateFacts
  <2> QED BY <1>1, <2>1, <2>2, StateFacts
<1>4. byOrderIndex' \in SUBSET states
  <2>1. OrderAfterCommit(byOrderIndex, states \ invalid, byBlocknumIndex, ci)
          \subseteq byOrderIndex \cup (states \ invalid)
    BY OrderSubset
  <2> QED BY <2>1 DEF IInv, TypeOK, Commit
<1>5. blockContext # None => blockContext.previous = Tip /\ blockContext.term = currentTerm
  BY <1>1 DEF IInv, PendingOK
<1>6. /\ EndHandler(byBlocknumIndex, ci) /\ commitIndex' = ci
      /\ UNCHANGED <<states, invalid, executed, byBlocknumIndex, head, blockContext,
                     revisions, currentTerm, dbHead, made, restarts>>
  BY DEF Commit, disk
<1> HIDE DEF ci
<1> QED BY <1>1, <1>2, <1>3, <1>4, <1>5, <1>6, FinalizeStep

\* The irreversible block is on the chain of the disk head, also in mid-switch.
LEMMA FinalOnDisk ==
  ASSUME IInv
  PROVE  IsAncestor(final, dbHead)
<1>1. IsAncestor(final, DiskBase) /\ DiskBase \in Block
  <2>1. CASE InFork
    <3>0. sw.pos \in Nat /\ Limit \in {sw.pos, sw.pos + 1} /\ Tip = sw.target
      BY <2>1 DEF IInv, TypeOK, Limit, Tip, InFork
    <3>1. /\ sw.target \in Block /\ Num[final] <= sw.pos
          /\ IsAncestor(final, Tip) /\ Limit <= Num[sw.target]
      BY <2>1, <3>0 DEF IInv, SwitchOK, CommitOK
    <3>2. sw.pos \in Num[Root]..Num[sw.target]
      <4>1. /\ Num[Root] \in Nat /\ Num[final] \in Nat /\ Num[Root] <= Num[final]
            /\ Num[sw.target] \in Nat
        BY <3>0, StateFacts
      <4> QED BY <3>0, <3>1, <4>1
    <3>3. /\ DiskBase = Chain[sw.target][sw.pos] /\ DiskBase \in Block
          /\ Num[DiskBase] = sw.pos /\ IsAncestor(DiskBase, sw.target)
      BY <2>1, <3>1, <3>2, ChainFacts DEF DiskBase
    <3>4. final \in Block
      BY StateFacts
    <3> QED BY <3>0, <3>1, <3>3, <3>4, AncestorsOrdered
  <2>2. CASE ~InFork
    BY <2>2, StateFacts DEF DiskBase, IInv, CommitOK
  <2> QED BY <2>1, <2>2
<1> QED BY <1>1, AncestorTrans, StateFacts DEF IInv, DiskOK

\* A crash and the constructor keep the inductive invariant.
LEMMA RestartStep == IInv /\ Restart => IInv'
<1> SUFFICES ASSUME IInv, Restart PROVE IInv'
  OBVIOUS
<1> DEFINE h == dbHead
<1>1. PICK m \in Nums : LoadsFrom(h, m) /\ Loaded(h, m)
  BY DEF Restart
<1>2. /\ h \in Block /\ m \in Num[Root]..Num[h] /\ Num[h] \in Nat /\ Num[Root] \in Nat
      /\ m \in Nat /\ Chain[h][Num[h]] = h
  <2>1. h \in Block /\ Num[h] \in Nat /\ Num[Root] \in Nat
    BY StateFacts
  <2>2. m \in Num[Root]..Num[h]
    BY <1>1 DEF LoadsFrom
  <2>3. m \in Nat
    BY <2>1, <2>2
  <2>4. Chain[h][Num[h]] = h
    BY <2>1, NumFacts
  <2> QED BY <2>1, <2>2, <2>3, <2>4
<1> DEFINE C == {Chain[h][n] : n \in m..Num[h]}
<1>3. /\ states' = C /\ executed' = C /\ byOrderIndex' = C
      /\ byBlocknumIndex' = [n \in m..Num[h] |-> Chain[h][n]]
      /\ head' = h /\ commitIndex' = m /\ currentTerm' = Term[h]
      /\ final' = Chain[h][m]
      /\ invalid' = {} /\ blockContext' = None /\ pc' = "idle" /\ sw' = NoSwitch
      /\ UNCHANGED <<dbHead, revisions, made>> /\ restarts' = restarts + 1
  BY <1>1 DEF Loaded, Restart, disk
<1>4. ASSUME NEW n \in m..Num[h]
      PROVE  /\ n \in Num[Root]..Num[h] /\ n \in Nat
             /\ Chain[h][n] \in Block /\ Num[Chain[h][n]] = n
  <2>1. n \in Num[Root]..Num[h] /\ n \in Nat
    BY <1>2
  <2> QED BY <1>2, <2>1, ChainFacts
<1>5. h \in C /\ C \subseteq Block
  <2>1. Num[h] \in m..Num[h]
    BY <1>2
  <2>2. Chain[h][Num[h]] \in C
    BY <2>1
  <2>3. C \subseteq Block
    BY <1>4
  <2> QED BY <1>2, <2>2, <2>3
<1>6. /\ final' \in Block /\ Num[final'] = m /\ IsAncestor(final', h)
  BY <1>2, <1>3, ChainFacts
<1>7. Tip' = h /\ Limit' = Num[h] /\ DiskBase' = h /\ ~InFork' /\ ~InSwitch'
  BY <1>3 DEF Tip, Limit, DiskBase, InFork, InSwitch
<1>8. \A b \in C : \A n \in m..Num[b] : Chain[b][n] \in C
  <2> SUFFICES ASSUME NEW k \in m..Num[h], NEW n \in m..Num[Chain[h][k]]
               PROVE  Chain[Chain[h][k]][n] \in C
    OBVIOUS
  <2>1. n \in Num[Root]..k /\ k \in Num[Root]..Num[h] /\ n \in m..Num[h]
    BY <1>2, <1>4
  <2>2. Chain[Chain[h][k]][n] = Chain[h][n]
    BY <1>2, <2>1, ChainFacts
  <2> QED BY <2>1, <2>2
<1>9. TypeOK'
  <2>1. Term[h] \in Nat
    BY <1>2, NumFacts
  <2>2. /\ DOMAIN byBlocknumIndex' \subseteq Nat
        /\ \A n \in DOMAIN byBlocknumIndex' : byBlocknumIndex'[n] \in Block
    BY <1>3, <1>4
  <2>3. sw' \in [inserted : Block \cup {None}, original : Block \cup {None},
                 target : Block \cup {None}, pos : Nat, keep : BOOLEAN]
    BY <1>3 DEF NoSwitch
  <2>4. /\ states' \subseteq Block /\ invalid' \subseteq states'
        /\ executed' \subseteq states' /\ byOrderIndex' \subseteq states'
        /\ head' \in states'
    <3> HIDE DEF C
    <3> QED BY <1>3, <1>5
  <2>5. /\ dbHead \in Block /\ revisions \subseteq Block /\ made \subseteq Own
        /\ restarts \in Nat
    BY DEF IInv, TypeOK
  <2>6. restarts + 1 \in Nat
    BY <2>5
  <2>7. /\ dbHead' \in Block /\ revisions' \subseteq Block /\ made' \subseteq Own
        /\ restarts' \in Nat /\ commitIndex' \in Nat /\ currentTerm' \in Nat
    BY <1>2, <1>3, <2>1, <2>5, <2>6
  <2> QED BY <1>3, <1>6, <2>2, <2>3, <2>4, <2>7 DEF TypeOK
<1>10. IndexOK'
  <2>1. byBlocknumIndex' = [n \in m..Num[Tip'] |-> Chain[Tip'][n]]
    BY <1>3, <1>7
  <2>2. m \in Num[Root]..Num[final']
    BY <1>2, <1>6
  <2> QED BY <2>1, <2>2 DEF IndexOK
<1>11. CommitOK'
  <2>1. Num[final'] = m /\ commitIndex' = m /\ Limit' = Num[h] /\ Num[Tip'] = Num[h]
    BY <1>3, <1>6, <1>7
  <2>2. head' = h /\ Tip' = h
    BY <1>3, <1>7
  <2>3. m <= m /\ m <= Num[h] /\ Num[h] <= Num[h]
    BY <1>2
  <2> QED BY <1>6, <2>1, <2>2, <2>3 DEF CommitOK, IsAncestor
<1>12. StatesOK' /\ ExecOK'
  <2> HIDE DEF C
  <2> QED BY <1>2, <1>3, <1>5, <1>6, <1>7, <1>8 DEF StatesOK, ExecOK
<1>13. SwitchOK' /\ PendingOK'
  BY <1>3, <1>7 DEF SwitchOK, PendingOK
<1>14. DiskOK'
  <2>1. IsAncestor(h, h)
    BY <1>2, AncestorRefl
  <2>2. ASSUME RootRevision = {Root} PROVE \A n \in m..Num[h] : Chain[h][n] \in revisions
    <3>1. Num[final] <= Num[h] /\ Num[h] \in Num[final]..Num[h]
      BY <1>2, FinalOnDisk, StateFacts DEF IsAncestor
    <3>2. h \in revisions
      BY <1>2, <2>2, <3>1 DEF IInv, DiskOK
    <3>3. \A n \in m..Num[h] - 1 : Chain[h][n] \in revisions
      BY <1>1 DEF LoadsFrom
    <3> QED BY <1>2, <3>2, <3>3
  <2>3. RootRevision = {Root} => \A b \in C : b \in revisions
    BY <2>2
  <2> HIDE DEF C
  <2> QED BY <1>3, <1>6, <1>7, <2>1, <2>2, <2>3 DEF DiskOK, IsAncestor
<1> QED BY <1>9, <1>10, <1>11, <1>12, <1>13, <1>14 DEF IInv

=============================================================================
