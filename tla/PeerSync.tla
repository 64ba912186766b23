-------------------------------- MODULE PeerSync --------------------------------
(***************************************************************************)
(* The distribution of blocks between two peers: the peer connections of   *)
(* blocknet (libraries/net/include/psibase/blocknet.hpp), from the hello   *)
(* exchange that finds a common block to async_send_fork, which streams    *)
(* the best chain of a node while that chain changes.                      *)
(*                                                                         *)
(* A handler of a node is one action.  A send puts a message on a reliable *)
(* FIFO connection and queues the callback that runs when it is written;   *)
(* the peer may receive the message before or after that.  The fork        *)
(* database is taken at the level that module ForkDb establishes: the head *)
(* is the greatest block known below the committed one.  What else a node  *)
(* hears from - production, other peers, the consensus - are the actions   *)
(* Obtain and Commit.  Operators marked `Bug:' are variants of the         *)
(* definition that follows with a mistake in them; nothing uses them, they *)
(* confirm that the properties notice such a mistake.                      *)
(***************************************************************************)
EXTENDS Integers, FiniteSets, Sequences, FiniteSetsExt

CONSTANTS
  Node,        \* the two peers
  Parent,      \* the tree of blocks: Block -> Block \cup {Fresh}
  Starts,      \* the head and the committed block that the nodes may start with
  Committable, \* the blocks that the consensus may commit
  MaxObtain,   \* bound on the number of blocks obtained otherwise
  MaxLinks,    \* bound on the number of connections
  LateHello    \* whether a connection may be lost between a HelloResponse
               \* and the callback of the last HelloRequest

Block == DOMAIN Parent
Fresh == 0     \* the id of the state before the first block, numbered 1
Unset == -1    \* a default-constructed ExtendedBlockId, numbered 0

\* The blocks up to b; numbers count from the first block, which is number 2.
Chain[b \in Block \cup {Fresh}] ==
  IF b = Fresh THEN {Fresh} ELSE {b} \cup Chain[Parent[b]]

Num(b) == IF b = Unset THEN 0 ELSE Cardinality(Chain[b])

\* Blocks are ordered by fork choice: a greater block is preferred.
ASSUME PeerSyncAssumption ==
  /\ Cardinality(Node) = 2
  /\ Block \subseteq Nat \ {0} /\ IsFiniteSet(Block)
  /\ \A b \in Block : Parent[b] \in Block \cup {Fresh} /\ Parent[b] < b
  /\ \A s \in Starts : \A n \in Node : s[n].commit \in Chain[s[n].head]
  /\ Committable \subseteq Block
  /\ MaxObtain \in Nat /\ MaxLinks \in Nat /\ LateHello \in BOOLEAN

VARIABLES
  db,        \* the fork database of a node
  conn,      \* its peer_connection, or NoConn
  callbacks, \* the callbacks of its sends that have not run, in order
  wire,      \* the messages on their way to it
  link,      \* whether the connection between the nodes is up
  joined,    \* the nodes that have seen this connection
  links,     \* history: number of connections
  obtained,  \* history: number of blocks obtained otherwise
  received,  \* history: the blocks that a node has received or had
  failed     \* history: whether an assertion failed or a lookup threw

vars == <<db, conn, callbacks, wire, link, joined, links, obtained, received, failed>>

Peer(n) == CHOOSE m \in Node : m # n

-----------------------------------------------------------------------------
(* The fork database d of a node (ForkDb.hpp): the blocks it has a state of, *)
(* its head, its commitIndex and the first number of its byBlocknumIndex     *)

\* get(id): in the fork database, or in the log of the head's revision.
Get(d, b) == b \in Block /\ b \in d.states \cup Chain[d.head]

\* get_block_id; the default-constructed id stands for a missing block.
BlockId(d, num) ==
  IF num \in 2..Num(d.head)
  THEN CHOOSE b \in Chain[d.head] : Num(b) = num
  ELSE Fresh

InBestChain(d, b) == b \in Chain[d.head] /\ Num(b) >= d.first

\* get_common_ancestor neither throws nor meets an unknown block: get_prev_id
\* knows every block on the way, which does not lead below the index.
HasCommonAncestor(d, b) ==
  \/ b \in Chain[d.head]
  \/ /\ \A c \in Chain[b] \ Chain[d.head] : Get(d, c)
     /\ \E c \in Chain[b] : InBestChain(d, c)

CommonAncestor(d, b) == Max(Chain[b] \cap Chain[d.head])

\* is_ancestor
IsAncestor(d, a, b) ==
  /\ b # Unset /\ a \in Chain[b]
  /\ \A c \in Chain[b] : Num(c) > Num(a) => Get(d, c)

\* The descendants of the committed block, from which the head is chosen.
Viable(d) ==
  LET root == IF d.commit = 1 THEN Fresh ELSE BlockId(d, d.commit)
  IN  {b \in d.states : root \in Chain[b]}

\* gc(): the state before the first block is not among the blocks it looks at.
Collected(d) ==
  [d EXCEPT !.states = Viable(d) \cup (d.states \cap {Fresh}), !.first = d.commit]

-----------------------------------------------------------------------------
(* A peer connection.  An operator takes the record of a handler in progress *)
(* through one of the calls it makes: c is the connection, out what is sent, *)
(* ok is FALSE once something has gone wrong.                                *)

NoConn == [closed |-> TRUE, erased |-> TRUE]

Handler(c) == [c |-> c, out |-> <<>>, ok |-> TRUE]

Send(r, type, b) == [r EXCEPT !.out = Append(@, [type |-> type, block |-> b])]

\* Bug: forgets the send that is in progress.
ErasesWhileSyncing(r) ==
  IF ~r.c.peer_ready THEN [r EXCEPT !.c.closed = TRUE] ELSE [r EXCEPT !.c = NoConn]

Disconnect(r) ==
  IF r.c.syncing \/ ~r.c.peer_ready THEN [r EXCEPT !.c.closed = TRUE]
                                    ELSE [r EXCEPT !.c = NoConn]

\* The HelloRequest after the one of b; Fresh when there is none to send.
NextHello(d, b) == IF Get(d, b) /\ Get(d, Parent[b]) THEN Parent[b] ELSE Fresh

async_send_hello(d, r) ==
  LET b == IF r.c.hello_sent THEN NextHello(d, r.c.hello) ELSE r.c.hello
  IN  IF r.c.hello_sent /\ b = Fresh
      THEN r
      ELSE Send([r EXCEPT !.c.hello = b, !.c.hello_sent = TRUE], "hello", b)

\* Bug: leaves syncing set when there is nothing left to send.
StaysSyncing(d, r) ==
  IF ~r.c.closed /\ Num(r.c.last_sent) # Num(d.head)
  THEN LET next == BlockId(d, Num(r.c.last_sent) + 1)
       IN  Send([r EXCEPT !.c.last_sent = next], "block", next)
  ELSE r

async_send_fork(d, r) ==
  IF r.c.closed THEN Disconnect([r EXCEPT !.c.syncing = FALSE])
  ELSE IF Num(r.c.last_sent) # Num(d.head)
       THEN LET next == BlockId(d, Num(r.c.last_sent) + 1)
            IN  Send([r EXCEPT !.c.last_sent = next, !.ok = @ /\ next # Fresh], "block", next)
       ELSE [r EXCEPT !.c.syncing = FALSE]

\* on_fork_switch: the hello that is being negotiated moves to the new chain ...
MoveHello(d, r) ==
  IF r.c.peer_ready THEN r
  ELSE LET new == CommonAncestor(d, r.c.hello)
       IN  [r EXCEPT !.ok = @ /\ HasCommonAncestor(d, r.c.hello),
                     !.c.hello = new, !.c.hello_sent = @ /\ new = r.c.hello]

\* Bug: does not back up to the new chain.
DoesNotBackUp(d, r) ==
  LET best == IF r.c.last_received \in d.states THEN CommonAncestor(d, r.c.last_received)
                                                ELSE Unset
  IN  [r EXCEPT !.c.last_sent = IF Num(best) > Num(@) THEN best ELSE @]

\* ... what was last sent backs up to the new chain, or up to what the peer
\* has sent of it ...
MoveLastSent(d, r) ==
  LET sent == CommonAncestor(d, r.c.last_sent)
      best == IF r.c.last_received \in d.states THEN CommonAncestor(d, r.c.last_received)
                                                ELSE Unset
  IN  [r EXCEPT !.ok = /\ @ /\ HasCommonAncestor(d, r.c.last_sent)
                       /\ r.c.last_received \in d.states =>
                            HasCommonAncestor(d, r.c.last_received),
                !.c.last_sent = IF Num(best) > Num(sent) THEN best ELSE sent]

\* Bug: starts a second async_send_fork.
AlwaysStarts(d, r) == async_send_fork(d, [r EXCEPT !.c.syncing = TRUE])

\* ... and sending starts unless it is in progress.
StartSending(d, r) ==
  IF r.c.syncing THEN r ELSE async_send_fork(d, [r EXCEPT !.c.syncing = TRUE])

on_fork_switch(d, r) ==
  IF r.c = NoConn THEN r
  ELSE LET moved == MoveHello(d, r)
       IN  IF moved.c.ready THEN StartSending(d, MoveLastSent(d, moved)) ELSE moved

\* switch_fork: the fork database and the handler after it.  Executing the
\* blocks of the new chain (on_accept_block) may commit some of them.
Switched(d) ==
  LET new == [d EXCEPT !.head = Max(Viable(d))]
  IN  {new} \cup {[new EXCEPT !.commit = Num(b)] :
                    b \in {c \in Committable \cap Chain[new.head] : Num(c) > d.commit}}

\* Bug: prunes the old fork before the connections stop referring to it.
PrunesFirst(d, r) ==
  IF Max(Viable(d)) = d.head THEN {[d |-> d, r |-> r]}
  ELSE {[d |-> Collected(new), r |-> on_fork_switch(Collected(new), r)] : new \in Switched(d)}

switch_fork(d, r) ==
  IF Max(Viable(d)) = d.head THEN {[d |-> d, r |-> r]}
  ELSE {[d |-> Collected(new), r |-> on_fork_switch(new, r)] : new \in Switched(d)}

\* Bug: takes any block that is received for one of the best chain.
SkipsAhead(d, r, b) ==
  [r EXCEPT !.c.last_received = b, !.c.last_sent = IF Num(b) > Num(@) THEN b ELSE @]

update_last_received(d, r, b) ==
  [r EXCEPT !.c.last_received = b,
            !.c.last_sent = IF InBestChain(d, b) /\ Num(b) > Num(@) THEN b ELSE @]

-----------------------------------------------------------------------------
(* Handlers of messages *)

\* The negotiated hello jumps down to the number that the peer is at.
JumpDown(d, r, b) ==
  IF /\ ~r.c.peer_ready
     /\ Num(r.c.hello) > Num(b) + (IF r.c.hello_sent THEN 1 ELSE 0)
  THEN [r EXCEPT !.c.hello = BlockId(d, Num(b)), !.c.hello_sent = FALSE]
  ELSE r

Respond(r, b, sent) ==
  Send([r EXCEPT !.c.last_received = b, !.c.last_sent = sent,
                 !.c.syncing = TRUE, !.c.ready = TRUE], "response", Unset)

recv_HelloRequest(d, r, b) ==
  LET j == JumpDown(d, r, b) IN
  CASE r.c.ready -> r
    [] ~r.c.ready /\ b = Fresh ->
         Respond([j EXCEPT !.c.peer_ready = TRUE], Fresh, Fresh)
    [] ~r.c.ready /\ b # Fresh /\ (Get(d, b) \/ b \in d.states) ->
         Respond([j EXCEPT !.ok = HasCommonAncestor(d, b)], b, CommonAncestor(d, b))
    [] OTHER -> j

recv_HelloResponse(r) == [r EXCEPT !.c.peer_ready = TRUE]

\* insert, then what recv(BlockMessage) makes of its result.
recv_BlockMessage(d, r, b) ==
  CASE Num(b) <= d.commit -> {[d |-> d, r |-> r]}
    [] Num(b) > d.commit /\ b \in d.states -> {[d |-> d, r |-> update_last_received(d, r, b)]}
    [] Num(b) > d.commit /\ b \notin d.states /\ Parent[b] \in d.states ->
         LET i == [d EXCEPT !.states = @ \cup {b}]
         IN  switch_fork(i, update_last_received(i, r, b))
    [] OTHER -> {[d |-> d, r |-> r]}

-----------------------------------------------------------------------------
(* Actions *)

CallbackOf(m) == IF m.type = "hello" THEN "hello" ELSE "fork"

\* The end of a handler of n: its state is stored and its messages are sent.
Finish(n, d, r, rest) ==
  /\ db' = [db EXCEPT ![n] = d]
  /\ conn' = [conn EXCEPT ![n] = r.c]
  /\ callbacks' = [callbacks EXCEPT
       ![n] = rest \o [i \in 1..Len(r.out) |-> CallbackOf(r.out[i])]]
  /\ failed' = (failed \/ ~r.ok)

SendAll(n, w, r) == IF link THEN [w EXCEPT ![Peer(n)] = @ \o r.out] ELSE w

\* connect(id): both ends see a new connection at their own time.
Connect(n) ==
  LET fresh == db[n].head = Fresh
      c == [last_sent |-> IF fresh THEN Fresh ELSE Unset,
            last_received |-> IF fresh THEN Fresh ELSE Unset,
            syncing |-> FALSE, ready |-> fresh, closed |-> FALSE, peer_ready |-> FALSE,
            hello |-> db[n].head, hello_sent |-> FALSE]
      r == async_send_hello(db[n], Handler(c))
  IN  /\ link /\ n \notin joined
      /\ joined' = joined \cup {n}
      /\ Finish(n, db[n], r, callbacks[n])
      /\ wire' = SendAll(n, wire, r)
      /\ UNCHANGED <<link, links, obtained, received>>

Receive(n) ==
  LET m == Head(wire[n])
      h == Handler(conn[n])
  IN  /\ n \in joined /\ wire[n] # <<>> /\ ~conn[n].closed
      /\ \E x \in CASE m.type = "hello" ->
                        {[d |-> db[n], r |-> recv_HelloRequest(db[n], h, m.block)]}
                    [] m.type = "response" -> {[d |-> db[n], r |-> recv_HelloResponse(h)]}
                    [] m.type = "block" -> recv_BlockMessage(db[n], h, m.block) :
           /\ Finish(n, x.d, x.r, callbacks[n])
           /\ wire' = SendAll(n, [wire EXCEPT ![n] = Tail(@)], x.r)
      /\ received' = [received EXCEPT
           ![n] = @ \cup (IF m.type = "block" THEN {m.block} ELSE {})]
      /\ UNCHANGED <<link, joined, links, obtained>>

\* The callback of a HelloRequest; ec is whether the write failed.
HelloSent(n, ec) ==
  LET c == conn[n]
      r == CASE c.closed -> Disconnect(Handler([c EXCEPT !.peer_ready = TRUE]))
             [] ~c.closed /\ ec -> Handler([c EXCEPT !.peer_ready = TRUE])
             [] ~c.closed /\ ~ec /\ c.peer_ready -> Handler(c)
             [] ~c.closed /\ ~ec /\ ~c.peer_ready -> async_send_hello(db[n], Handler(c))
  IN  /\ callbacks[n] # <<>> /\ Head(callbacks[n]) = "hello" /\ c # NoConn
      /\ ec => ~link
      /\ Finish(n, db[n], r, Tail(callbacks[n]))
      /\ wire' = SendAll(n, wire, r)
      /\ UNCHANGED <<link, joined, links, obtained, received>>

\* The callback of a HelloResponse or of a BlockMessage.
BlockSent(n) ==
  LET r == async_send_fork(db[n], Handler(conn[n]))
  IN  /\ callbacks[n] # <<>> /\ Head(callbacks[n]) = "fork" /\ conn[n] # NoConn
      /\ Finish(n, db[n], r, Tail(callbacks[n]))
      /\ wire' = SendAll(n, wire, r)
      /\ UNCHANGED <<link, joined, links, obtained, received>>

\* disconnect(id), when the connection has been lost.
ConnectionLost(n) ==
  LET r == Disconnect(Handler(conn[n]))
  IN  /\ ~link /\ n \in joined /\ ~conn[n].closed
      /\ LateHello \/ ~conn[n].peer_ready \/ \A i \in DOMAIN callbacks[n] :
                                               callbacks[n][i] # "hello"
      /\ Finish(n, db[n], r, callbacks[n])
      /\ UNCHANGED <<wire, link, joined, links, obtained, received>>

LinkUp ==
  /\ ~link /\ links < MaxLinks
  /\ \A n \in Node : conn[n].closed /\ callbacks[n] = <<>>
  /\ link' = TRUE /\ joined' = {} /\ links' = links + 1
  /\ conn' = [n \in Node |-> NoConn]
  /\ UNCHANGED <<db, callbacks, wire, obtained, received, failed>>

LinkDown ==
  /\ link /\ links < MaxLinks
  /\ link' = FALSE
  /\ wire' = [n \in Node |-> <<>>]
  /\ UNCHANGED <<db, conn, callbacks, joined, links, obtained, received, failed>>

\* A block that n produces or receives from another peer.
Obtain(n, b) ==
  /\ obtained < MaxObtain /\ obtained' = obtained + 1
  /\ b \notin db[n].states /\ Parent[b] \in db[n].states /\ Num(b) > db[n].commit
  /\ \E x \in switch_fork([db[n] EXCEPT !.states = @ \cup {b}], Handler(conn[n])) :
       /\ Finish(n, x.d, x.r, callbacks[n])
       /\ wire' = SendAll(n, wire, x.r)
  /\ received' = [received EXCEPT ![n] = @ \cup {b}]
  /\ UNCHANGED <<link, joined, links>>

\* The consensus commits a block of the best chain.
Commit(n, b) ==
  /\ b \in Committable \cap Chain[db[n].head] /\ Num(b) > db[n].commit
  /\ db' = [db EXCEPT ![n].commit = Num(b)]
  /\ UNCHANGED <<conn, callbacks, wire, link, joined, links, obtained, received, failed>>

-----------------------------------------------------------------------------
\* ForkDb(): the blocks from the committed one to the head.
Loaded(b, num) == [states |-> {c \in Chain[b] : Num(c) >= num}, head |-> b,
                   commit |-> num, first |-> num]

Init ==
  /\ \E s \in Starts :
       /\ db = [n \in Node |-> Loaded(s[n].head, Num(s[n].commit))]
       /\ received = [n \in Node |-> Chain[s[n].head]]
  /\ conn = [n \in Node |-> NoConn] /\ callbacks = [n \in Node |-> <<>>]
  /\ wire = [n \in Node |-> <<>>] /\ link = FALSE /\ joined = {}
  /\ links = 0 /\ obtained = 0 /\ failed = FALSE

NodeStep(n) ==
  \/ Connect(n) \/ Receive(n) \/ BlockSent(n) \/ ConnectionLost(n)
  \/ \E ec \in BOOLEAN : HelloSent(n, ec)

Next ==
  \/ LinkUp \/ LinkDown
  \/ \E n \in Node : NodeStep(n) \/ \E b \in Block : Obtain(n, b) \/ Commit(n, b)

Spec == Init /\ [][Next]_vars

\* Something is ready to run: a callback, a message, or news of the connection.
Busy ==
  \/ ~link /\ links < MaxLinks /\ \A n \in Node : conn[n].closed /\ callbacks[n] = <<>>
  \/ \E n \in Node :
       \/ callbacks[n] # <<>>
       \/ n \in joined /\ ~conn[n].closed /\ (wire[n] # <<>> \/ ~link)
       \/ link /\ n \notin joined

\* The threads of the network do not stop while something is ready to run,
\* and a lost connection is made again.  (The bounds make every other kind of
\* step finite, so this asks no more than weak fairness of what is ready.)
FairSpec == Spec /\ ([]<>~Busy \/ []<><<TRUE>>_vars)

-----------------------------------------------------------------------------
(* Properties *)

\* No handler meets a block that it does not know: get_common_ancestor finds
\* the ancestor of last_sent, last_received and hello in the new best chain
\* whatever was pruned since they were set (on_fork_switch "must remove
\* references to blocks that are not part of the new best fork"), and
\* async_send_fork always has a next block.
ReferencesStayValid == ~failed

\* "If the head block is not the last sent block, then exactly one instance
\* of async_send_fork is active": its callback is pending iff syncing.
OneSendFork ==
  \A n \in Node : conn[n] # NoConn =>
    /\ Cardinality({i \in DOMAIN callbacks[n] : callbacks[n][i] = "fork"}) =
         IF conn[n].syncing THEN 1 ELSE 0
    /\ conn[n].ready /\ ~conn[n].closed /\ conn[n].last_sent # db[n].head => conn[n].syncing

\* peer_has_block
PeerHasBlock(n, b) ==
  \/ InBestChain(db[n], b) /\ Num(b) <= Num(conn[n].last_sent)
  \/ IsAncestor(db[n], b, conn[n].last_received)

\* "If peer_has_block returns true, then the peer's receipt of the block
\* happens before its receipt of any message sent after".
PeerHasIt ==
  \A n \in Node : link /\ n \in joined /\ ~conn[n].closed =>
    \A b \in Block : PeerHasBlock(n, b) =>
      \/ b \in received[Peer(n)]
      \/ \E i \in DOMAIN wire[Peer(n)] :
           wire[Peer(n)][i] = [type |-> "block", block |-> b]

\* The stream of blocks has no gap, whatever either node switches to and
\* prunes meanwhile: when a block arrives, its parent is known, unless the
\* receiver has committed a block that conflicts with it.
NoGap ==
  \A n \in Node : wire[n] # <<>> /\ n \in joined /\ Head(wire[n]).type = "block" =>
    LET b == Head(wire[n]).block
    IN  \/ Num(b) <= db[n].commit \/ b \in db[n].states \/ Parent[b] \in db[n].states
        \/ \A c \in Chain[db[n].head] : Num(c) = db[n].commit => c \notin Chain[b]

\* A connection that a callback refers to still exists.
CallbackHasConnection ==
  \A n \in Node : callbacks[n] # <<>> => conn[n] # NoConn

\* Two connected nodes end up with the same head.
Converge ==
  <>[](link => \A n \in Node : db[n].head = db[Peer(n)].head)
=============================================================================
