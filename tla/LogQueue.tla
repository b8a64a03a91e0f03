------------------------------ MODULE LogQueue ------------------------------
(***************************************************************************)
(* The bounded queue between the follower threads, one per container, and  *)
(* the single publisher thread (LogFollower._enqueue and _publish_loop).   *)
(*                                                                         *)
(* queue.Queue makes put_nowait and get_nowait atomic, and nothing more:   *)
(* _enqueue is put, on Full get, count, put again, and other followers and *)
(* the publisher run between any two of these.  The interpreter is CPython *)
(* 3.13 with its lock, where "+= 1" on an attribute is one step.           *)
(*                                                                         *)
(* A queue item (name, text, level, stamp) is the pair <<c, n>>: the n-th  *)
(* item that the follower of container c hands to _enqueue, be it a line   *)
(* or a note of the rate limiter.                                          *)
(***************************************************************************)
EXTENDS Naturals, Sequences, FiniteSets, Functions

CONSTANTS
    Containers,  \* the followed containers, each with one follower thread
    Capacity,    \* --follow-queue-size; queue.Queue takes 0 as "unbounded"
    MaxLines     \* bound: the items each follower hands over

ASSUME QueueAssumption ==
    /\ IsFiniteSet(Containers)
    /\ Capacity \in Nat
    /\ MaxLines \in Nat

VARIABLES
    queue,      \* self._queue
    emitted,    \* emitted[c]: the items c's follower has handed to _enqueue
    fpc,        \* where c's follower is in _enqueue
    dropped,    \* self._dropped_by_queue
    stop,       \* self._stop
    ppc,        \* where the publisher is in _publish_loop
    held,       \* what the publisher took from the queue and has not put: {} or {item}
    published,  \* history: the items put on the session
    failed,     \* history: the items whose publication raised
    discarded   \* history: the items evicted, or given up on the second Full

vars == <<queue, emitted, fpc, dropped, stop, ppc, held, published, failed, discarded>>

Items == Containers \X (1 .. MaxLines)

Queued == Range(queue)

Full == Capacity # 0 /\ Len(queue) >= Capacity

\* The item that c's follower is enqueueing, or enqueued last.
Current(c) == <<c, emitted[c]>>

\* Items in the hands of a follower.
Pending == {Current(c) : c \in {d \in Containers : fpc[d] \notin {"idle", "lost"}}}

TypeOK ==
    /\ queue \in Seq(Items)
    /\ emitted \in [Containers -> 0 .. MaxLines]
    /\ fpc \in [Containers -> {"idle", "put", "evict", "evicted", "retry", "lost"}]
    /\ dropped \in Nat
    /\ stop \in BOOLEAN
    /\ ppc \in {"check", "get", "put", "done"}
    /\ held \in SUBSET Items
    /\ published \in SUBSET Items
    /\ failed \in SUBSET Items
    /\ discarded \in SUBSET Items

Init ==
    /\ queue = <<>>
    /\ emitted = [c \in Containers |-> 0]
    /\ fpc = [c \in Containers |-> "idle"]
    /\ dropped = 0
    /\ stop = FALSE
    /\ ppc = "check"
    /\ held = {}
    /\ published = {}
    /\ failed = {}
    /\ discarded = {}

-----------------------------------------------------------------------------
(* _enqueue, in the follower thread of c.                                  *)

\* The frames a follower still holds are emitted after stop() too.
Emit(c) ==
    /\ fpc[c] = "idle"
    /\ emitted[c] < MaxLines
    /\ emitted' = [emitted EXCEPT ![c] = @ + 1]
    /\ fpc' = [fpc EXCEPT ![c] = "put"]
    /\ UNCHANGED <<queue, dropped, stop, ppc, held, published, failed, discarded>>

Put(c) ==
    /\ fpc[c] = "put"
    /\ \/ /\ ~Full
          /\ queue' = Append(queue, Current(c))
          /\ fpc' = [fpc EXCEPT ![c] = "idle"]
       \/ /\ Full
          /\ fpc' = [fpc EXCEPT ![c] = "evict"]
          /\ UNCHANGED queue
    /\ UNCHANGED <<emitted, dropped, stop, ppc, held, published, failed, discarded>>

Evict(c) ==
    /\ fpc[c] = "evict"
    /\ \/ /\ queue # <<>>
          /\ queue' = Tail(queue)
          /\ discarded' = discarded \cup {Head(queue)}
          /\ fpc' = [fpc EXCEPT ![c] = "evicted"]
       \/ /\ queue = <<>>
          /\ fpc' = [fpc EXCEPT ![c] = "retry"]
          /\ UNCHANGED <<queue, discarded>>
    /\ UNCHANGED <<emitted, dropped, stop, ppc, held, published, failed>>

Retry(c) ==
    /\ fpc[c] = "retry"
    /\ \/ /\ ~Full
          /\ queue' = Append(queue, Current(c))
          /\ fpc' = [fpc EXCEPT ![c] = "idle"]
          /\ UNCHANGED discarded
       \/ /\ Full
          /\ discarded' = discarded \cup {Current(c)}
          /\ fpc' = [fpc EXCEPT ![c] = "lost"]
          /\ UNCHANGED queue
    /\ UNCHANGED <<emitted, dropped, stop, ppc, held, published, failed>>

\* Faulty: "pass" for the second Full, which the eviction is taken to have counted.
CountEvictions(c) ==
    /\ fpc[c] \in {"evicted", "lost"}
    /\ dropped' = IF fpc[c] = "evicted" THEN dropped + 1 ELSE dropped
    /\ fpc' = [fpc EXCEPT ![c] = IF @ = "evicted" THEN "retry" ELSE "idle"]
    /\ UNCHANGED <<queue, emitted, stop, ppc, held, published, failed, discarded>>

\* self._dropped_by_queue += 1, after the eviction or after the second Full.
CountDrop(c) ==
    /\ fpc[c] \in {"evicted", "lost"}
    /\ dropped' = dropped + 1
    /\ fpc' = [fpc EXCEPT ![c] = IF @ = "evicted" THEN "retry" ELSE "idle"]
    /\ UNCHANGED <<queue, emitted, stop, ppc, held, published, failed, discarded>>

Enqueue(c) == Put(c) \/ Evict(c) \/ Retry(c) \/ CountDrop(c)

-----------------------------------------------------------------------------
(* _publish_loop, in the publisher thread.                                 *)

PublisherCheck ==
    /\ ppc = "check"
    /\ ppc' = IF stop THEN "done" ELSE "get"
    /\ UNCHANGED <<queue, emitted, fpc, dropped, stop, held, published, failed, discarded>>

\* Faulty: a LifoQueue.
PublisherGetNewest ==
    /\ ppc = "get"
    /\ queue # <<>>
    /\ held' = {queue[Len(queue)]}
    /\ queue' = SubSeq(queue, 1, Len(queue) - 1)
    /\ ppc' = "put"
    /\ UNCHANGED <<emitted, fpc, dropped, stop, published, failed, discarded>>

\* get(timeout=0.1): the head, or Empty when nothing came in time.
PublisherGet ==
    /\ ppc = "get"
    /\ \/ /\ queue # <<>>
          /\ held' = {Head(queue)}
          /\ queue' = Tail(queue)
          /\ ppc' = "put"
       \/ /\ queue = <<>>
          /\ ppc' = "check"
          /\ UNCHANGED <<queue, held>>
    /\ UNCHANGED <<emitted, fpc, dropped, stop, published, failed, discarded>>

\* Faulty: an item that could not be published is queued again.
PublisherPutRequeue ==
    /\ ppc = "put"
    /\ \/ published' = published \cup held /\ UNCHANGED queue
       \/ \E item \in held : queue' = Append(queue, item) /\ UNCHANGED published
    /\ held' = {}
    /\ ppc' = "check"
    /\ UNCHANGED <<emitted, fpc, dropped, stop, failed, discarded>>

\* Faulty: without the "except Exception" around the publication.
PublisherPutFatal ==
    /\ ppc = "put"
    /\ \/ published' = published \cup held /\ ppc' = "check" /\ UNCHANGED failed
       \/ failed' = failed \cup held /\ ppc' = "done" /\ UNCHANGED published
    /\ held' = {}
    /\ UNCHANGED <<queue, emitted, fpc, dropped, stop, discarded>>

\* The session takes the item, or raises: the loop goes on either way.
PublisherPut ==
    /\ ppc = "put"
    /\ \/ published' = published \cup held /\ UNCHANGED failed
       \/ failed' = failed \cup held /\ UNCHANGED published
    /\ held' = {}
    /\ ppc' = "check"
    /\ UNCHANGED <<queue, emitted, fpc, dropped, stop, discarded>>

Publisher == PublisherCheck \/ PublisherGet \/ PublisherPut

-----------------------------------------------------------------------------

Stop ==
    /\ ~stop
    /\ stop' = TRUE
    /\ UNCHANGED <<queue, emitted, fpc, dropped, ppc, held, published, failed, discarded>>

Next ==
    \/ \E c \in Containers : Emit(c) \/ Enqueue(c)
    \/ Publisher
    \/ Stop

\* Every thread that can run is eventually scheduled; a container need not
\* write, and nobody need call stop().
Fairness ==
    /\ \A c \in Containers : WF_vars(Enqueue(c))
    /\ WF_vars(Publisher)

Spec == Init /\ [][Next]_vars /\ Fairness

-----------------------------------------------------------------------------
(* Correctness.                                                            *)

Emitted == {item \in Items : item[2] <= emitted[item[1]]}

\* Every item handed to _enqueue is in exactly one place: with its follower,
\* in the queue (once), with the publisher, published, failed, or discarded.
\* No interleaving of put, evict and retry duplicates a line or makes one
\* disappear without going through one of the three ways out of the code.
EveryLineInOnePlace ==
    /\ Emitted = Pending \cup Queued \cup held \cup published \cup failed \cup discarded
    /\ IsInjective(queue)
    /\ Pending \cap (Queued \cup held \cup published \cup failed \cup discarded) = {}
    /\ Queued \cap (held \cup published \cup failed \cup discarded) = {}
    /\ held \cap (published \cup failed \cup discarded) = {}
    /\ published \cap (failed \cup discarded) = {}
    /\ failed \cap discarded = {}

\* Followers that have discarded an item and not yet counted it.
Uncounted == {c \in Containers : fpc[c] \in {"evicted", "lost"}}

\* The warning at shutdown states self._dropped_by_queue: the counter is the
\* number of items the queue discarded, once every follower between the
\* discard and its "+= 1" has counted.
EveryDropCounted == dropped + Cardinality(Uncounted) = Cardinality(discarded)

\* The lines of one container reach its key in the order it wrote them: an
\* item is never published after a later one, although evictions, failed
\* publications and the retries of other followers come in between.
PublishedInOrder ==
    [][\A new \in published' \ published, old \in published :
          new[1] = old[1] => old[2] < new[2]]_vars

\* The queue implements a lossy in-order channel for each container.
Channel == INSTANCE LogChannel WITH
    sent      <- emitted,
    inTransit <- Pending \cup Queued \cup held,
    delivered <- published,
    lost      <- discarded \cup failed

ImplementsChannel == Channel!Spec

\* While the follower is not stopped, an item in the queue leaves it: a
\* publication that raises does not end the publisher.
QueueMoves == \A item \in Items : item \in Queued ~> (item \notin Queued \/ stop)

=============================================================================
