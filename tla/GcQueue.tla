-------------------------------- MODULE GcQueue --------------------------------
(***************************************************************************)
(* The deferred destruction of triedent: gc_queue (libraries/triedent/     *)
(* include/triedent/gc_queue.hpp, src/gc_queue.cpp).  Sessions lock and    *)
(* unlock with atomics only; threads that push and poll, and the collector *)
(* thread in run(), work under _queue_mutex.  A step is one atomic access  *)
(* of a session, or the part of a critical section between two reads of    *)
(* another thread's atomics.  All accesses are sequentially consistent, as *)
(* they are in the code.                                                   *)
(*                                                                         *)
(* Elements are numbered in the order of their pushes; 0 is the null       *)
(* pointer.  Operators marked `Bug:' are variants of the definition that   *)
(* follows with a mistake in them; nothing uses them, they confirm that    *)
(* the properties notice such a mistake.                                   *)
(***************************************************************************)
EXTENDS Integers, FiniteSets

CONSTANTS
  Session,    \* the sessions
  User,       \* the threads that push and poll
  Collector,  \* the thread in run()
  None,       \* no thread, no session
  QueueSize,  \* _queue.size(), one more than max_size
  Word,       \* the number of values of _size; a power of two
  MaxCalls,   \* bound on the number of calls of push and poll
  Preempted   \* whether a scan may meet a session that is still in lock()
              \* with an index that has left the queue (see InQueue)

ASSUME GcQueueAssumption ==
  /\ IsFiniteSet(Session) /\ IsFiniteSet(User)
  /\ Collector \notin User /\ None \notin Session \cup User \cup {Collector}
  /\ QueueSize \in Nat \ {0, 1} /\ Word \in Nat /\ Word > QueueSize * 2
  /\ MaxCalls \in Nat /\ Preempted \in BOOLEAN

VARIABLES
  queue,      \* _queue
  end,        \* _end
  size,       \* _size
  waiting,    \* _waiting
  owner,      \* the thread that holds _queue_mutex in start_wait
  scan,       \* the locals of start_wait
  sessions,   \* _sessions
  seq,        \* _sequence of a session without its wait_bit
  waitBit,    \* whether _sequence has its wait_bit set
  spc,        \* where the thread of a session is
  val,        \* the local of session::lock()
  tpc,        \* where a thread of User or the collector is
  op,         \* the function that the thread is in
  popped,     \* popped_items of the thread
  stage,      \* how far ~cache_allocator() is
  pushes,     \* history: number of elements pushed
  polls,      \* history: number of calls of poll
  destroyed,  \* history: the elements destroyed
  since       \* history: the value of `pushes' when the session was locked

queueVars == <<queue, end, size, pushes>>
sessionVars == <<sessions, seq, waitBit, spc, val, since>>
threadVars == <<tpc, op, popped, destroyed>>
vars == <<queueVars, waiting, owner, scan, sessionVars, threadVars, stage, polls>>

Thread == User \cup {Collector}
Index == 0..(QueueSize - 1)
Npos == QueueSize + 1          \* npos: distinct from every index and from QueueSize
NoScan == [start |-> 0, lowest |-> 0, todo |-> {}, cas |-> None]

-----------------------------------------------------------------------------
(* The ring *)

Start == ((end + QueueSize - size + Word) % Word) % QueueSize

\* Bug: the ring is filled completely.
FillsCompletely == size = QueueSize

Full == size = QueueSize - 1

Distance(from, to) == (to - from + QueueSize) % QueueSize

Range(from, to) == {(from + i) % QueueSize : i \in 0..(Distance(from, to) - 1)}

\* pop_some takes the elements of [from, to) and decrements _size for each.
Taken(from, to) == {queue[i] : i \in Range(from, to)} \ {0}

SizeAfter(from, to) == (size - Distance(from, to) + Word) % Word

QueueAfter(from, to) == [i \in Index |-> IF i \in Range(from, to) THEN 0 ELSE queue[i]]

\* The positions a locked session can hold: those of elements and the end.
InQueue(i) == i = end \/ i \in Range(Start, end)

-----------------------------------------------------------------------------
(* Sessions *)

OpenSession(s) ==
  /\ s \notin sessions /\ owner = None /\ stage = "open"
  /\ sessions' = sessions \cup {s}
  /\ UNCHANGED <<queueVars, waiting, owner, scan, seq, waitBit, spc, val, since,
                 threadVars, stage, polls>>

CloseSession(s) ==
  /\ s \in sessions /\ owner = None /\ spc[s] = "out"
  /\ sessions' = sessions \ {s}
  /\ UNCHANGED <<queueVars, waiting, owner, scan, seq, waitBit, spc, val, since,
                 threadVars, stage, polls>>

\* lock(): the first load of _end, from a call or from the loop.
LoadEnd(s) ==
  /\ s \in sessions /\ spc[s] \in {"out", "again"}
  /\ val' = [val EXCEPT ![s] = end]
  /\ spc' = [spc EXCEPT ![s] = "store"]
  /\ UNCHANGED <<queueVars, waiting, owner, scan, sessions, seq, waitBit, since,
                 threadVars, stage, polls>>

StoreSequence(s) ==
  /\ spc[s] = "store"
  /\ seq' = [seq EXCEPT ![s] = val[s]]
  /\ spc' = [spc EXCEPT ![s] = "check"]
  /\ UNCHANGED <<queueVars, waiting, owner, scan, sessions, waitBit, val, since,
                 threadVars, stage, polls>>

\* Bug: the first load is trusted.
TrustsFirstLoad(s) ==
  /\ spc[s] = "check"
  /\ spc' = [spc EXCEPT ![s] = "locked"]
  /\ since' = [since EXCEPT ![s] = pushes]
  /\ val' = [val EXCEPT ![s] = 0]
  /\ UNCHANGED <<queueVars, waiting, owner, scan, sessions, seq, waitBit,
                 threadVars, stage, polls>>

\* lock(): the second load, which decides between the return and a retry.
CheckEnd(s) ==
  /\ spc[s] = "check"
  /\ \/ /\ end = val[s]
        /\ spc' = [spc EXCEPT ![s] = "locked"]
        /\ since' = [since EXCEPT ![s] = pushes]
     \/ /\ end # val[s]
        /\ spc' = [spc EXCEPT ![s] = "retry"]
        /\ UNCHANGED since
  /\ val' = [val EXCEPT ![s] = 0]
  /\ UNCHANGED <<queueVars, waiting, owner, scan, sessions, seq, waitBit,
                 threadVars, stage, polls>>

\* unlock(): the exchange, in the call of a user or in the retry of lock().
Unlock(s) ==
  /\ spc[s] \in {"locked", "retry"}
  /\ seq' = [seq EXCEPT ![s] = Npos]
  /\ waitBit' = [waitBit EXCEPT ![s] = FALSE]
  /\ since' = [since EXCEPT ![s] = 0]
  /\ spc' = [spc EXCEPT ![s] =
               CASE spc[s] = "locked" /\ waitBit[s]  -> "clear"
                 [] spc[s] = "retry" /\ waitBit[s]   -> "clear again"
                 [] spc[s] = "locked" /\ ~waitBit[s] -> "out"
                 [] spc[s] = "retry" /\ ~waitBit[s]  -> "again"]
  /\ UNCHANGED <<queueVars, waiting, owner, scan, sessions, val, threadVars, stage, polls>>

\* unlock(): the critical section of a session that had its wait_bit set.
ClearWaiting(s) ==
  /\ spc[s] \in {"clear", "clear again"} /\ owner = None
  /\ waiting' = FALSE
  /\ spc' = [spc EXCEPT ![s] = IF @ = "clear" THEN "notify" ELSE "notify again"]
  /\ UNCHANGED <<queueVars, owner, scan, sessions, seq, waitBit, val, since,
                 threadVars, stage, polls>>

-----------------------------------------------------------------------------
(* The condition variable: a woken thread has yet to take the mutex again *)

NotifyAll == [t \in Thread |-> IF tpc[t] = "sleep" THEN "woken" ELSE tpc[t]]

\* Bug: notify_one instead of notify_all.
NotifiesOne(s) ==
  /\ spc[s] \in {"notify", "notify again"}
  /\ spc' = [spc EXCEPT ![s] = IF @ = "notify" THEN "out" ELSE "again"]
  /\ \/ \E t \in Thread : tpc[t] = "sleep" /\ tpc' = [tpc EXCEPT ![t] = "woken"]
     \/ (\A t \in Thread : tpc[t] # "sleep") /\ UNCHANGED tpc
  /\ UNCHANGED <<queueVars, waiting, owner, scan, sessions, seq, waitBit, val, since,
                 op, popped, destroyed, stage, polls>>

\* unlock(): notify_all, after the critical section.
NotifyQueue(s) ==
  /\ spc[s] \in {"notify", "notify again"}
  /\ spc' = [spc EXCEPT ![s] = IF @ = "notify" THEN "out" ELSE "again"]
  /\ tpc' = NotifyAll
  /\ UNCHANGED <<queueVars, waiting, owner, scan, sessions, seq, waitBit, val, since,
                 op, popped, destroyed, stage, polls>>

\* A condition variable may also wake a thread for no reason.
WakeSpuriously(t) ==
  /\ tpc[t] = "sleep"
  /\ tpc' = [tpc EXCEPT ![t] = "woken"]
  /\ UNCHANGED <<queueVars, waiting, owner, scan, sessionVars, op, popped, destroyed,
                 stage, polls>>

-----------------------------------------------------------------------------
(* start_wait, on behalf of the thread t that holds the mutex *)

\* make_sequence_order
Order(i) ==
  CASE i = Npos              -> 2 * QueueSize
    [] i <= end              -> i + QueueSize
    [] i # Npos /\ i > end   -> i

Lower(i, j) == IF Order(i) < Order(j) THEN i ELSE j

BeginScan(t, start) ==
  /\ owner' = t
  /\ scan' = [start |-> start, lowest |-> end, todo |-> sessions, cas |-> None]
  /\ tpc' = [tpc EXCEPT ![t] = "scan"]

Scanning(t) == owner = t /\ tpc[t] = "scan"

Seen(s) == [scan EXCEPT !.lowest = Lower(seq[s], scan.lowest),
                        !.todo = @ \ {s}, !.cas = None]

\* `return start': push goes to sleep, run starts over.
ReturnStart(t) ==
  /\ owner' = None /\ scan' = NoScan
  /\ tpc' = [tpc EXCEPT ![t] = IF op[t] = "push" THEN "sleep" ELSE "enter"]

\* Unless Preempted, a session whose index has left the queue, which is one
\* still inside lock(), completes its retry before a scan reads its sequence.
Visible(s) == Preempted \/ seq[s] = Npos \/ InQueue(seq[s])

ReadSession(t, s) ==
  /\ Scanning(t) /\ s \in scan.todo /\ scan.cas = None /\ Visible(s)
  /\ \/ seq[s] = scan.start /\ waiting /\ ReturnStart(t)
     \/ /\ seq[s] = scan.start /\ ~waiting
        /\ scan' = [scan EXCEPT !.cas = s]
        /\ UNCHANGED <<owner, tpc>>
     \/ /\ seq[s] # scan.start
        /\ scan' = Seen(s)
        /\ UNCHANGED <<owner, tpc>>
  /\ UNCHANGED <<queueVars, waiting, sessionVars, op, popped, destroyed, stage, polls>>

\* Bug: the wait_bit is stored without comparing the sequence again.
StoresWaitBit(t) ==
  LET s == scan.cas IN
  /\ Scanning(t) /\ s # None
  /\ waitBit' = [waitBit EXCEPT ![s] = TRUE]
  /\ waiting' = TRUE /\ ReturnStart(t)
  /\ UNCHANGED <<queueVars, sessions, seq, spc, val, since, op, popped, destroyed,
                 stage, polls>>

CompareExchange(t) ==
  LET s == scan.cas IN
  /\ Scanning(t) /\ s # None /\ Visible(s)
  /\ \/ /\ seq[s] = scan.start
        /\ waitBit' = [waitBit EXCEPT ![s] = TRUE]
        /\ waiting' = TRUE /\ ReturnStart(t)
     \/ /\ seq[s] # scan.start
        /\ scan' = Seen(s)
        /\ UNCHANGED <<waitBit, waiting, owner, tpc>>
  /\ UNCHANGED <<queueVars, sessions, seq, spc, val, since, op, popped, destroyed,
                 stage, polls>>

-----------------------------------------------------------------------------
(* push, poll, run and flush *)

\* The end of push: the element is stored, and notify_one wakes some sleeper
\* of the threads that `pcs' leaves asleep.
Put(q, n, pcs) ==
  /\ queue' = [q EXCEPT ![end] = pushes + 1]
  /\ end' = (end + 1) % QueueSize
  /\ size' = (n + 1) % Word
  /\ pushes' = pushes + 1
  /\ IF (n + 1) % Word = 1 /\ \E t \in Thread : pcs[t] = "sleep"
     THEN \E t \in Thread : pcs[t] = "sleep" /\ tpc' = [pcs EXCEPT ![t] = "woken"]
     ELSE tpc' = pcs

\* push: takes the mutex, for the first time or after waking up.
Push(t) ==
  /\ t \in User /\ owner = None
  /\ \/ tpc[t] = "idle" /\ pushes + polls < MaxCalls /\ stage # "flushed"
     \/ tpc[t] = "woken"
  /\ op' = [op EXCEPT ![t] = "push"]
  /\ \/ /\ Full /\ BeginScan(t, Start)
        /\ UNCHANGED <<queueVars, destroyed>>
     \/ /\ ~Full /\ Put(queue, size, [tpc EXCEPT ![t] = "idle"])
        /\ destroyed' = destroyed \cup ({queue[end]} \ {0})
        /\ UNCHANGED <<owner, scan>>
  /\ UNCHANGED <<waiting, sessionVars, popped, stage, polls>>

Poll(t) ==
  /\ t \in User /\ tpc[t] = "idle" /\ owner = None /\ pushes + polls < MaxCalls /\ stage # "flushed"
  /\ op' = [op EXCEPT ![t] = "poll"]
  /\ polls' = polls + 1
  /\ BeginScan(t, QueueSize)
  /\ UNCHANGED <<queueVars, waiting, sessionVars, popped, destroyed, stage>>

\* The predicate run waits for.
Runnable == stage # "open" \/ (size # 0 /\ ~waiting)

\* run: the top of the loop, or the return from the condition variable.
Run(t) ==
  /\ t = Collector /\ tpc[t] \in {"enter", "woken"} /\ owner = None
  /\ \/ /\ tpc[t] = "enter" /\ stage # "open"
        /\ tpc' = [tpc EXCEPT ![t] = "stopped"]
        /\ UNCHANGED <<owner, scan>>
     \/ /\ tpc[t] = "woken" \/ stage = "open"
        /\ Runnable /\ BeginScan(t, Start)
     \/ /\ ~Runnable
        /\ tpc' = [tpc EXCEPT ![t] = "sleep"]
        /\ UNCHANGED <<owner, scan>>
  /\ UNCHANGED <<queueVars, waiting, sessionVars, op, popped, destroyed, stage, polls>>

\* The end of start_wait and pop_some; push goes on to store its element.
Pop(t) ==
  LET to == scan.lowest IN
  /\ Scanning(t) /\ scan.todo = {}
  /\ owner' = None /\ scan' = NoScan
  /\ popped' = [popped EXCEPT ![t] = Taken(Start, to)]
  /\ \/ /\ op[t] = "push" /\ to # Start
        /\ Put(QueueAfter(Start, to), SizeAfter(Start, to), [tpc EXCEPT ![t] = "drop"])
        /\ destroyed' = destroyed \cup ({QueueAfter(Start, to)[end]} \ {0})
     \/ /\ op[t] = "push" /\ to = Start
        /\ tpc' = [tpc EXCEPT ![t] = "sleep"]
        /\ UNCHANGED <<queueVars, destroyed>>
     \/ /\ op[t] # "push"
        /\ queue' = QueueAfter(Start, to) /\ size' = SizeAfter(Start, to)
        /\ tpc' = [tpc EXCEPT ![t] = "drop"]
        /\ UNCHANGED <<end, pushes, destroyed>>
  /\ UNCHANGED <<waiting, sessionVars, op, stage, polls>>

\* The destructors of the popped elements run without the mutex.
Drop(t) ==
  /\ tpc[t] = "drop"
  /\ destroyed' = destroyed \cup popped[t]
  /\ popped' = [popped EXCEPT ![t] = {}]
  /\ tpc' = [tpc EXCEPT ![t] = IF t = Collector THEN "enter" ELSE "idle"]
  /\ UNCHANGED <<queueVars, waiting, owner, scan, sessionVars, op, stage, polls>>

\* ~cache_allocator(): _done.store(true) ...
SetDone ==
  /\ stage = "open"
  /\ stage' = "done"
  /\ UNCHANGED <<queueVars, waiting, owner, scan, sessionVars, threadVars, polls>>

\* Bug: notify_run wakes nobody.
NotifiesNobody ==
  /\ stage = "done" /\ owner = None
  /\ stage' = "notified"
  /\ UNCHANGED <<queueVars, waiting, owner, scan, sessionVars, threadVars, polls>>

\* ... _gc.notify_run() ...
NotifyRun ==
  /\ stage = "done" /\ owner = None
  /\ stage' = "notified"
  /\ tpc' = NotifyAll
  /\ UNCHANGED <<queueVars, waiting, owner, scan, sessionVars, op, popped, destroyed, polls>>

\* ... the threads are joined, and _gc.flush() destroys what is left.
Flush ==
  /\ stage = "notified" /\ sessions = {}
  /\ tpc[Collector] = "stopped" /\ \A t \in User : tpc[t] = "idle"
  /\ stage' = "flushed"
  /\ queue' = QueueAfter(Start, end) /\ size' = SizeAfter(Start, end)
  /\ destroyed' = destroyed \cup Taken(Start, end)
  /\ UNCHANGED <<end, pushes, waiting, owner, scan, sessionVars, tpc, op, popped, polls>>

-----------------------------------------------------------------------------
Init ==
  /\ queue = [i \in Index |-> 0] /\ end = 0 /\ size = 0 /\ waiting = FALSE
  /\ owner = None /\ scan = NoScan
  /\ sessions = {} /\ seq = [s \in Session |-> Npos]
  /\ waitBit = [s \in Session |-> FALSE] /\ spc = [s \in Session |-> "out"]
  /\ val = [s \in Session |-> 0] /\ since = [s \in Session |-> 0]
  /\ tpc = [t \in Thread |-> IF t = Collector THEN "enter" ELSE "idle"]
  /\ op = [t \in Thread |-> IF t = Collector THEN "run" ELSE "push"]
  /\ popped = [t \in Thread |-> {}]
  /\ stage = "open" /\ pushes = 0 /\ polls = 0 /\ destroyed = {}

\* What a session in lock() or unlock() does next.
SessionStep(s) ==
  \/ spc[s] = "again" /\ LoadEnd(s)
  \/ StoreSequence(s) \/ CheckEnd(s) \/ Unlock(s) \/ ClearWaiting(s) \/ NotifyQueue(s)

\* What a thread in push, poll or run does next.
ThreadStep(t) ==
  \/ tpc[t] = "woken" /\ Push(t)
  \/ Run(t) \/ CompareExchange(t) \/ Pop(t) \/ Drop(t)
  \/ \E s \in Session : ReadSession(t, s)

\* What a user of the queue may do at any time.
Call ==
  \/ \E s \in Session : OpenSession(s) \/ CloseSession(s) \/ (spc[s] = "out" /\ LoadEnd(s))
  \/ \E t \in User : (tpc[t] = "idle" /\ Push(t)) \/ Poll(t)
  \/ \E t \in Thread : WakeSpuriously(t)
  \/ SetDone

Next ==
  \/ Call \/ NotifyRun \/ Flush
  \/ \E s \in Session : SessionStep(s)
  \/ \E t \in Thread : ThreadStep(t)

Spec == Init /\ [][Next]_vars

\* Every thread runs; who holds a session unlocks it; the destructor goes on.
FairSpec ==
  /\ Spec
  /\ \A s \in Session : WF_vars(SessionStep(s))
  /\ \A t \in Thread : WF_vars(ThreadStep(t))
  /\ WF_vars(NotifyRun)

-----------------------------------------------------------------------------
(* Properties *)

\* An element is not destroyed while a session is locked that was locked
\* before the element was pushed (the guarantee of gc_queue.hpp: either the
\* push happens before the lock or the unlock happens before the destructor).
NotDestroyedInUse ==
  \A s \in Session : spc[s] = "locked" => \A e \in destroyed : e <= since[s]

\* Nothing is lost or destroyed twice: the elements pushed are those between
\* the start and the end of the ring, in order, those a thread is about to
\* destroy, and those destroyed.
RingHoldsTheRest ==
  /\ {i \in Index : queue[i] # 0} = Range(Start, end)
  /\ \A i \in 0..(size - 1) : queue[(Start + i) % QueueSize] = pushes - size + 1 + i
  /\ 1..(pushes - size) = destroyed \cup UNION {popped[t] : t \in Thread}
  /\ \A t \in Thread : popped[t] \cap destroyed = {}
  /\ \A t, u \in Thread : t # u => popped[t] \cap popped[u] = {}

\* At most one session has its wait_bit set, and _waiting says whether there
\* is a session that has it or has yet to reset _waiting after unlocking (the
\* comment on wait_bit, and the assertion of unlock()).
OneWaitBit ==
  /\ Cardinality({s \in Session : waitBit[s] \/ spc[s] \in {"clear", "clear again"}})
       = IF waiting THEN 1 ELSE 0
  /\ \A s \in Session : waitBit[s] => spc[s] \in {"locked", "check", "retry"}

\* Every element pushed is destroyed once nothing more is pushed, unless the
\* queue is shut down: neither the collector nor a session forgets to wake up
\* who waits.
EventuallyDestroyed == <>[](stage # "open" \/ destroyed = 1..pushes)

\* A push that waits for room gets it.
PushReturns == \A t \in User : (tpc[t] = "sleep") ~> (tpc[t] = "idle")

\* Once notify_run has returned, the collector leaves run(), also when it
\* tested `done' before it was set.
CollectorStops == (stage = "notified") ~> (tpc[Collector] = "stopped")
=============================================================================
