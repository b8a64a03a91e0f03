-------------------------- MODULE LogCaptureProofs --------------------------
(***************************************************************************)
(* The two halves of the log capture: the queue (LogQueue) and, below, the *)
(* threads (LogFollower).                                                  *)
(*                                                                         *)
(* For any number of followers and any queue size, however their _enqueue  *)
(* calls interleave with each other and with the publisher: every item is  *)
(* in one place, every discarded item is counted, the items of a container *)
(* are published in their order, and the queue is a LogChannel.            *)
(*                                                                         *)
(* The order is kept because the items of one container are sorted along   *)
(* the way that they take: published before held, held before queued, and  *)
(* queued before pending, with the queue itself sorted (Sorted).  The last *)
(* follows from EveryLineInOnePlace, since a pending item is the latest of *)
(* its container and is nowhere else.                                      *)
(***************************************************************************)
EXTENDS LogQueue, LogFollower, FiniteSetTheorems, SequenceTheorems, TLAPS

\* x comes before y if they belong to the same container.
Before(x, y) == x[1] = y[1] => x[2] < y[2]

InOrder(q) == \A i, j \in DOMAIN q : i < j => Before(q[i], q[j])

Sorted ==
    /\ InOrder(queue)
    /\ \A x \in held, y \in Queued : Before(x, y)
    /\ \A x \in published, y \in held \cup Queued \cup Pending : Before(x, y)

\* The publisher holds one item exactly while it publishes.
HeldByPublisher ==
    IF ppc = "put" THEN \E item \in Items : held = {item} ELSE held = {}

Inv ==
    /\ TypeOK
    /\ EveryLineInOnePlace
    /\ Sorted
    /\ HeldByPublisher

-----------------------------------------------------------------------------
(* Sequences: what Append and Tail do to the elements and their order.     *)

\* A new last element.
LEMMA AppendElement ==
    ASSUME NEW S, NEW q \in Seq(S), NEW e \in S
    PROVE  /\ Range(Append(q, e)) = Range(q) \cup {e}
           /\ IsInjective(q) /\ e \notin Range(q) => IsInjective(Append(q, e))
           /\ InOrder(q) /\ (\A x \in Range(q) : Before(x, e)) => InOrder(Append(q, e))
<1>1. /\ Append(q, e) \in Seq(S)
      /\ Len(Append(q, e)) = Len(q) + 1
      /\ \A i \in 1 .. Len(q) : Append(q, e)[i] = q[i]
      /\ Append(q, e)[Len(q) + 1] = e
  BY AppendProperties
<1>2. DOMAIN q = 1 .. Len(q) /\ DOMAIN Append(q, e) = 1 .. Len(q) + 1 /\ Len(q) \in Nat
  BY <1>1, LenProperties
<1>3. Range(Append(q, e)) = Range(q) \cup {e}
  BY <1>1, <1>2 DEF Range
<1>4. \A i \in DOMAIN q : q[i] \in Range(q)
  BY DEF Range
<1>5. IsInjective(q) /\ e \notin Range(q) => IsInjective(Append(q, e))
  BY <1>1, <1>2, <1>4 DEF IsInjective
<1>6. InOrder(q) /\ (\A x \in Range(q) : Before(x, e)) => InOrder(Append(q, e))
  BY <1>1, <1>2, <1>4 DEF InOrder
<1> QED BY <1>3, <1>5, <1>6

\* Without the first element.
LEMMA TailElements ==
    ASSUME NEW S, NEW q \in Seq(S), q # <<>>, IsInjective(q), InOrder(q)
    PROVE  /\ Tail(q) \in Seq(S)
           /\ Head(q) \in Range(q)
           /\ Range(Tail(q)) = Range(q) \ {Head(q)}
           /\ IsInjective(Tail(q))
           /\ InOrder(Tail(q))
           /\ \A x \in Range(Tail(q)) : Before(Head(q), x)
<1>1. /\ Tail(q) \in Seq(S)
      /\ Len(Tail(q)) = Len(q) - 1
      /\ \A i \in 1 .. Len(Tail(q)) : Tail(q)[i] = q[i + 1]
  BY HeadTailProperties
<1>2. Len(q) \in Nat \ {0} /\ Head(q) = q[1]
  BY EmptySeq
<1>3. DOMAIN q = 1 .. Len(q) /\ DOMAIN Tail(q) = 1 .. Len(q) - 1
  BY <1>1, LenProperties
<1>4. Head(q) \in Range(q)
  BY <1>2, <1>3 DEF Range
<1>5. Range(Tail(q)) = Range(q) \ {Head(q)}
  <2>1. ASSUME NEW x \in Range(Tail(q)) PROVE x \in Range(q) \ {Head(q)}
    BY <1>1, <1>2, <1>3 DEF Range, IsInjective
  <2>2. ASSUME NEW x \in Range(q), x # Head(q) PROVE x \in Range(Tail(q))
    <3>1. PICK i \in 1 .. Len(q) : x = q[i]
      BY <1>3 DEF Range
    <3>2. i # 1
      BY <1>2, <2>2, <3>1
    <3>3. i - 1 \in 1 .. Len(q) - 1 /\ Tail(q)[i - 1] = x
      BY <1>1, <1>2, <3>1, <3>2
    <3> QED BY <1>3, <3>3 DEF Range
  <2> QED BY <2>1, <2>2
<1>6. IsInjective(Tail(q))
  BY <1>1, <1>2, <1>3 DEF IsInjective
<1>7. InOrder(Tail(q))
  BY <1>1, <1>2, <1>3 DEF InOrder
<1>8. ASSUME NEW x \in Range(Tail(q)) PROVE Before(Head(q), x)
  <2>1. PICK i \in 1 .. Len(q) - 1 : x = q[i + 1]
    BY <1>1, <1>3 DEF Range
  <2> QED BY <1>2, <1>3, <2>1 DEF InOrder
<1> QED BY <1>1, <1>4, <1>5, <1>6, <1>7, <1>8

-----------------------------------------------------------------------------
(* What a step of c's follower does to the pending items.                  *)

\* The follower hands its item over, or gives it up.
LEMMA PendingLeaves ==
    ASSUME TypeOK, NEW c \in Containers, fpc[c] \notin {"idle", "lost"},
           NEW next \in {"idle", "lost"}, fpc' = [fpc EXCEPT ![c] = next], emitted' = emitted
    PROVE  Current(c) \in Pending /\ Pending' = Pending \ {Current(c)}
BY DEF TypeOK, Pending, Current

\* The follower keeps its item, or has none before and after.
LEMMA PendingStays ==
    ASSUME TypeOK, NEW c \in Containers, NEW next,
           fpc[c] \in {"idle", "lost"} <=> next \in {"idle", "lost"},
           fpc' = [fpc EXCEPT ![c] = next], emitted' = emitted
    PROVE  Pending' = Pending
BY DEF TypeOK, Pending, Current

\* A pending item is after every other item of its container.
LEMMA PendingIsLast ==
    ASSUME TypeOK, EveryLineInOnePlace, NEW x \in Queued \cup held, NEW y \in Pending
    PROVE  Before(x, y)
<1>1. x \in Emitted /\ x # y
  BY DEF EveryLineInOnePlace
<1>2. PICK c \in Containers : y = <<c, emitted[c]>>
  BY DEF Pending, Current
<1>3. x \in Items /\ x[2] <= emitted[x[1]] /\ emitted[c] \in Nat
  BY <1>1 DEF Emitted, TypeOK
<1>4. PICK d \in Containers, n \in 1 .. MaxLines : x = <<d, n>>
  BY <1>3 DEF Items
<1> QED BY QueueAssumption, <1>1, <1>2, <1>3, <1>4 DEF Before

-----------------------------------------------------------------------------

\* Nothing has been emitted at the start.
LEMMA InvInit == Init => Inv
<1> SUFFICES ASSUME Init PROVE Inv
  OBVIOUS
<1>1. queue \in Seq(Items) /\ Queued = {}
  BY DEF Init, Range, Queued
<1>2. TypeOK
  <2>1. stop \in BOOLEAN
    BY DEF Init
  <2>2. queue \in Seq(Items) /\ emitted \in [Containers -> 0 .. MaxLines]
    BY <1>1, QueueAssumption DEF Init
  <2> QED BY <2>1, <2>2, QueueAssumption DEF Init, TypeOK
<1>3. Pending = {} /\ Emitted = {}
  BY QueueAssumption DEF Init, Pending, Emitted, Items
<1>4. EveryLineInOnePlace
  BY <1>1, <1>3 DEF Init, EveryLineInOnePlace, IsInjective
<1>5. Sorted /\ HeldByPublisher
  BY <1>1, <1>3 DEF Init, Sorted, InOrder, HeldByPublisher
<1> QED BY <1>2, <1>4, <1>5 DEF Inv

\* A new item is later than everything of its container.
LEMMA EmitKeepsInv ==
    ASSUME Inv, NEW c \in Containers, Emit(c)
    PROVE  Inv'
<1> DEFINE new == <<c, emitted[c] + 1>>
<1> USE QueueAssumption DEF Inv, TypeOK
<1>1. /\ emitted' = [emitted EXCEPT ![c] = @ + 1]
      /\ fpc' = [fpc EXCEPT ![c] = "put"]
      /\ fpc[c] = "idle" /\ emitted[c] < MaxLines
      /\ UNCHANGED <<queue, dropped, stop, ppc, held, published, failed, discarded>>
  BY DEF Emit
<1>2. TypeOK'
  BY <1>1
<1>3. Pending' = Pending \cup {new}
  BY <1>1 DEF Pending, Current
<1>4. new \in Items /\ new \notin Emitted
  BY <1>1 DEF Items, Emitted
<1>5. Emitted' = Emitted \cup {new}
  <2>1. ASSUME NEW x \in Items PROVE x \in Emitted' <=> x \in Emitted \/ x = new
    <3>1. PICK d \in Containers, n \in 1 .. MaxLines : x = <<d, n>>
      BY DEF Items
    <3> QED BY <1>1, <3>1 DEF Emitted
  <2> QED BY <1>4, <2>1 DEF Emitted
<1>6. Queued' = Queued
  BY <1>1 DEF Queued
<1>7. EveryLineInOnePlace'
  <2>1. new \notin Queued \cup held \cup published \cup failed \cup discarded
    BY <1>4 DEF EveryLineInOnePlace
  <2>2. IsInjective(queue')
    BY <1>1 DEF EveryLineInOnePlace
  <2> HIDE DEF new
  <2> QED BY <1>1, <1>3, <1>5, <1>6, <2>1, <2>2 DEF EveryLineInOnePlace
<1>8. \A x \in published : Before(x, new)
  <2>1. TAKE x \in published
  <2>2. x \in Emitted
    BY DEF EveryLineInOnePlace
  <2>3. PICK d \in Containers, n \in 1 .. MaxLines : x = <<d, n>>
    BY <2>2 DEF Emitted, Items
  <2>4. n <= emitted[d] /\ emitted[d] \in Nat
    BY <2>2, <2>3 DEF Emitted
  <2> QED BY <2>3, <2>4 DEF Before
<1>9. Sorted' /\ HeldByPublisher'
  BY <1>1, <1>3, <1>6, <1>8 DEF Sorted, HeldByPublisher
<1> QED BY <1>2, <1>7, <1>9

\* An item goes from its follower to the end of the queue.
LEMMA HandOverKeepsInv ==
    ASSUME Inv, NEW c \in Containers, fpc[c] \in {"put", "retry"},
           queue' = Append(queue, Current(c)), fpc' = [fpc EXCEPT ![c] = "idle"],
           UNCHANGED <<emitted, dropped, stop, ppc, held, published, failed, discarded>>
    PROVE  Inv'
<1> USE DEF Inv
<1>1. Current(c) \in Pending /\ Pending' = Pending \ {Current(c)}
  BY PendingLeaves
<1>2. Current(c) \in Items /\ Current(c) \notin Queued /\ Emitted' = Emitted
  BY <1>1 DEF EveryLineInOnePlace, Emitted
<1>3. \A x \in Queued \cup held : Before(x, Current(c))
  BY <1>1, PendingIsLast
<1>4. /\ Queued' = Queued \cup {Current(c)}
      /\ IsInjective(queue')
      /\ InOrder(queue')
  BY <1>2, <1>3, AppendElement DEF TypeOK, Queued, EveryLineInOnePlace, Sorted
<1>5. TypeOK'
  BY <1>2, AppendProperties DEF TypeOK
<1>6. EveryLineInOnePlace'
  BY <1>1, <1>2, <1>4 DEF EveryLineInOnePlace
<1>7. Sorted' /\ HeldByPublisher'
  BY <1>1, <1>3, <1>4 DEF Sorted, HeldByPublisher
<1> QED BY <1>5, <1>6, <1>7

\* The other steps of _enqueue.
LEMMA EnqueueKeepsInv ==
    ASSUME Inv, NEW c \in Containers, Enqueue(c)
    PROVE  Inv'
<1> USE DEF Inv
<1>1. CASE (Put(c) \/ Retry(c)) /\ queue' # queue
  <2>1. /\ fpc[c] \in {"put", "retry"}
        /\ queue' = Append(queue, Current(c))
        /\ fpc' = [fpc EXCEPT ![c] = "idle"]
        /\ UNCHANGED <<emitted, dropped, stop, ppc, held, published, failed, discarded>>
    BY <1>1 DEF Put, Retry
  <2> QED BY <2>1, HandOverKeepsInv
<1>2. CASE (Put(c) /\ Full) \/ (Evict(c) /\ queue = <<>>) \/ CountDrop(c)
  <2>1. PICK next \in {"evict", "retry", "idle"} :
           /\ fpc' = [fpc EXCEPT ![c] = next]
           /\ fpc[c] \in {"idle", "lost"} <=> next \in {"idle", "lost"}
    BY <1>2 DEF Put, Evict, CountDrop, TypeOK
  <2>2. UNCHANGED <<queue, emitted, stop, ppc, held, published, failed, discarded>>
    BY <1>2 DEF Put, Evict, CountDrop
  <2>3. dropped' \in Nat
    BY <1>2 DEF Put, Evict, CountDrop, TypeOK
  <2>4. Pending' = Pending
    BY <2>1, <2>2, PendingStays
  <2>5. Queued' = Queued /\ Emitted' = Emitted
    BY <2>2 DEF Queued, Emitted
  <2>6. TypeOK'
    BY <2>1, <2>2, <2>3 DEF TypeOK
  <2>7. EveryLineInOnePlace' /\ Sorted' /\ HeldByPublisher'
    BY <2>2, <2>4, <2>5 DEF EveryLineInOnePlace, Sorted, HeldByPublisher
  <2> QED BY <2>6, <2>7
<1>3. CASE Evict(c) /\ queue # <<>>
  <2>1. /\ queue' = Tail(queue) /\ discarded' = discarded \cup {Head(queue)}
        /\ fpc[c] = "evict" /\ fpc' = [fpc EXCEPT ![c] = "evicted"]
        /\ UNCHANGED <<emitted, dropped, stop, ppc, held, published, failed>>
    BY <1>3 DEF Evict
  <2>2. /\ queue' \in Seq(Items)
        /\ Head(queue) \in Queued
        /\ Queued' = Queued \ {Head(queue)}
        /\ IsInjective(queue') /\ InOrder(queue')
    BY <1>3, <2>1, TailElements DEF TypeOK, Queued, EveryLineInOnePlace, Sorted
  <2>3. Pending' = Pending /\ Emitted' = Emitted
    BY <2>1, PendingStays DEF Emitted
  <2>4. Head(queue) \in Items
    BY <2>2 DEF EveryLineInOnePlace, Emitted
  <2>5. TypeOK'
    BY <2>1, <2>2, <2>4 DEF TypeOK
  <2>6. EveryLineInOnePlace'
    BY <2>1, <2>2, <2>3 DEF EveryLineInOnePlace
  <2>7. Sorted' /\ HeldByPublisher'
    BY <2>1, <2>2, <2>3 DEF Sorted, HeldByPublisher
  <2> QED BY <2>5, <2>6, <2>7
<1>4. CASE Retry(c) /\ queue' = queue
  <2>1. /\ fpc[c] = "retry" /\ fpc' = [fpc EXCEPT ![c] = "lost"]
        /\ discarded' = discarded \cup {Current(c)}
        /\ UNCHANGED <<queue, emitted, dropped, stop, ppc, held, published, failed>>
    <3>1. Append(queue, Current(c)) # queue
      <4>1. Current(c) \in Items
        BY <1>4 DEF Retry, Pending, EveryLineInOnePlace, Emitted
      <4>2. Len(Append(queue, Current(c))) = Len(queue) + 1 /\ Len(queue) \in Nat
        BY <4>1, AppendProperties, LenProperties DEF TypeOK
      <4> QED BY <4>2
    <3> QED BY <1>4, <3>1 DEF Retry
  <2>2. Current(c) \in Pending /\ Pending' = Pending \ {Current(c)}
    BY <2>1, PendingLeaves
  <2>3. Current(c) \in Items /\ Emitted' = Emitted /\ Queued' = Queued
    BY <2>1, <2>2 DEF EveryLineInOnePlace, Emitted, Queued
  <2>4. TypeOK'
    BY <2>1, <2>3 DEF TypeOK
  <2>5. EveryLineInOnePlace'
    BY <2>1, <2>2, <2>3 DEF EveryLineInOnePlace
  <2>6. Sorted' /\ HeldByPublisher'
    BY <2>1, <2>2, <2>3 DEF Sorted, HeldByPublisher
  <2> QED BY <2>4, <2>5, <2>6
<1> QED BY <1>1, <1>2, <1>3, <1>4 DEF Enqueue, Put, Evict, Retry

\* The publisher takes the head of the queue and gives it away.
LEMMA PublisherKeepsInv ==
    ASSUME Inv, Publisher
    PROVE  Inv'
<1> USE DEF Inv
<1>1. Pending' = Pending /\ Emitted' = Emitted
  BY DEF Publisher, PublisherCheck, PublisherGet, PublisherPut, Pending, Current, Emitted
<1>2. CASE PublisherCheck \/ (PublisherGet /\ queue = <<>>)
  <2>1. /\ ppc \in {"check", "get"} /\ ppc' \in {"check", "get", "done"}
        /\ UNCHANGED <<queue, emitted, fpc, dropped, stop, held, published, failed, discarded>>
    BY <1>2 DEF PublisherCheck, PublisherGet
  <2>2. Queued' = Queued
    BY <2>1 DEF Queued
  <2> QED BY <1>1, <2>1, <2>2 DEF TypeOK, EveryLineInOnePlace, Sorted, HeldByPublisher
<1>3. CASE PublisherGet /\ queue # <<>>
  <2>1. /\ ppc = "get" /\ ppc' = "put" /\ held' = {Head(queue)} /\ queue' = Tail(queue)
        /\ UNCHANGED <<emitted, fpc, dropped, stop, published, failed, discarded>>
    BY <1>3 DEF PublisherGet
  <2>2. /\ queue' \in Seq(Items)
        /\ Head(queue) \in Queued
        /\ Queued' = Queued \ {Head(queue)}
        /\ IsInjective(queue') /\ InOrder(queue')
        /\ \A x \in Queued' : Before(Head(queue), x)
    BY <1>3, <2>1, TailElements DEF TypeOK, Queued, EveryLineInOnePlace, Sorted
  <2>3. held = {} /\ Head(queue) \in Items
    BY <2>1, <2>2 DEF HeldByPublisher, EveryLineInOnePlace, Emitted
  <2>4. TypeOK'
    BY <2>1, <2>2, <2>3 DEF TypeOK
  <2>5. EveryLineInOnePlace'
    BY <1>1, <2>1, <2>2, <2>3 DEF EveryLineInOnePlace
  <2>6. Sorted' /\ HeldByPublisher'
    BY <1>1, <2>1, <2>2, <2>3 DEF Sorted, HeldByPublisher
  <2> QED BY <2>4, <2>5, <2>6
<1>4. CASE PublisherPut
  <2>1. PICK item \in Items : held = {item}
    BY <1>4 DEF PublisherPut, HeldByPublisher
  <2>2. /\ held' = {} /\ ppc' = "check"
        /\ \/ published' = published \cup {item} /\ failed' = failed
           \/ failed' = failed \cup {item} /\ published' = published
        /\ UNCHANGED <<queue, emitted, fpc, dropped, stop, discarded>>
    BY <1>4, <2>1 DEF PublisherPut
  <2>3. Queued' = Queued
    BY <2>2 DEF Queued
  <2>4. TypeOK'
    BY <2>1, <2>2 DEF TypeOK
  <2>5. EveryLineInOnePlace'
    BY <1>1, <2>1, <2>2, <2>3 DEF EveryLineInOnePlace
  <2>6. \A y \in Queued \cup Pending : Before(item, y)
    BY <2>1, PendingIsLast DEF Sorted
  <2>7. Sorted' /\ HeldByPublisher'
    BY <1>1, <2>2, <2>3, <2>6 DEF Sorted, HeldByPublisher
  <2> QED BY <2>4, <2>5, <2>7
<1> QED BY <1>2, <1>3, <1>4 DEF Publisher, PublisherGet

\* Every step keeps the invariant.
LEMMA InvInductive ==
    ASSUME Inv, [Next]_vars
    PROVE  Inv'
<1>1. ASSUME NEW c \in Containers, Emit(c) \/ Enqueue(c)
      PROVE  Inv'
  BY <1>1, EmitKeepsInv, EnqueueKeepsInv
<1>2. CASE Publisher
  BY <1>2, PublisherKeepsInv
<1>3. CASE Stop \/ UNCHANGED vars
  <2>1. /\ UNCHANGED <<queue, emitted, fpc, dropped, ppc, held, published, failed, discarded>>
        /\ stop' = TRUE \/ stop' = stop
    BY <1>3 DEF Stop, vars
  <2>2. stop' \in BOOLEAN
    BY <2>1 DEF Inv, TypeOK
  <2>3. Queued' = Queued /\ Pending' = Pending /\ Emitted' = Emitted
    BY <2>1 DEF Queued, Pending, Current, Emitted
  <2> QED BY <2>1, <2>2, <2>3 DEF Inv, TypeOK, EveryLineInOnePlace, Sorted, HeldByPublisher
<1> QED BY <1>1, <1>2, <1>3 DEF Next

\* The invariant holds in every reachable state.
THEOREM InvHolds == Spec => []Inv
<1>1. Inv /\ [Next]_vars => Inv'
  BY InvInductive
<1> QED BY InvInit, <1>1, PTL DEF Spec

\* The variables of the queue keep their types.
THEOREM TypeCorrect == Spec => []TypeOK
<1>1. Inv => TypeOK
  BY DEF Inv
<1> QED BY InvHolds, <1>1, PTL

\* No interleaving duplicates an item or loses track of it.
THEOREM LinesAreInOnePlace == Spec => []EveryLineInOnePlace
<1>1. Inv => EveryLineInOnePlace
  BY DEF Inv
<1> QED BY InvHolds, <1>1, PTL

\* The items of a container are published in the order it wrote them.
THEOREM LinesArePublishedInOrder == Spec => PublishedInOrder
<1> DEFINE Step == \A new \in published' \ published, old \in published :
                       new[1] = old[1] => old[2] < new[2]
<1>1. ASSUME Inv, [Next]_vars PROVE Step
  <2>1. CASE PublisherPut
    <3>1. published' \ published \subseteq held
      BY <2>1 DEF PublisherPut
    <3> QED BY <1>1, <3>1 DEF Inv, Sorted, Before
  <2>2. CASE published' = published
    BY <2>2
  <2> QED BY <1>1, <2>1, <2>2 DEF Next, Emit, Enqueue, Put, Evict, Retry, CountDrop, Publisher,
                              PublisherCheck, PublisherGet, Stop, vars
<1>2. Inv /\ [Next]_vars => [Step]_vars
  BY <1>1
<1> QED BY InvHolds, <1>2, PTL DEF Spec, PublishedInOrder

-----------------------------------------------------------------------------
(* The counter of the drops.                                               *)

Counted == IsFiniteSet(discarded) /\ EveryDropCounted

\* One more follower has a drop to count.
LEMMA DropKeepsCounted ==
    ASSUME Inv, Counted, NEW c \in Containers, NEW item,
           fpc[c] \notin {"evicted", "lost"}, item \notin discarded,
           NEW next \in {"evicted", "lost"}, fpc' = [fpc EXCEPT ![c] = next],
           discarded' = discarded \cup {item}, dropped' = dropped
    PROVE  Counted'
<1>1. IsFiniteSet(Uncounted) /\ c \notin Uncounted
  BY QueueAssumption, FS_Subset DEF Uncounted
<1>2. Uncounted' = Uncounted \cup {c}
  BY DEF Inv, TypeOK, Uncounted
<1>3. /\ Cardinality(Uncounted') = Cardinality(Uncounted) + 1
      /\ Cardinality(discarded') = Cardinality(discarded) + 1
      /\ IsFiniteSet(discarded')
  BY <1>1, <1>2, FS_AddElement DEF Counted
<1>4. Cardinality(Uncounted) \in Nat /\ dropped \in Nat /\ Cardinality(discarded) \in Nat
  BY <1>1, FS_CardinalityType DEF Counted, Inv, TypeOK
<1> QED BY <1>3, <1>4 DEF Counted, EveryDropCounted

\* Every step keeps the count.
LEMMA CountedInductive ==
    ASSUME Inv, Counted, [Next]_vars
    PROVE  Counted'
<1> USE DEF Inv
<1>1. ASSUME NEW c \in Containers, Evict(c), queue # <<>>
      PROVE  Counted'
  <2>1. Head(queue) \notin discarded
    BY <1>1, TailElements DEF TypeOK, Queued, EveryLineInOnePlace, Sorted
  <2> QED BY <1>1, <2>1, DropKeepsCounted DEF Evict
<1>2. ASSUME NEW c \in Containers, Retry(c), fpc' = [fpc EXCEPT ![c] = "lost"],
             discarded' = discarded \cup {Current(c)}
      PROVE  Counted'
  <2>1. Current(c) \notin discarded
    BY <1>2 DEF Retry, Pending, EveryLineInOnePlace
  <2> QED BY <1>2, <2>1, DropKeepsCounted DEF Retry
<1>3. ASSUME NEW c \in Containers, CountDrop(c)
      PROVE  Counted'
  <2>1. IsFiniteSet(Uncounted) /\ c \in Uncounted
    BY <1>3, QueueAssumption, FS_Subset DEF Uncounted, CountDrop
  <2>2. Uncounted' = Uncounted \ {c}
    BY <1>3 DEF CountDrop, TypeOK, Uncounted
  <2>3. Cardinality(Uncounted') = Cardinality(Uncounted) - 1
    BY <2>1, <2>2, FS_RemoveElement
  <2>4. Cardinality(Uncounted) \in Nat /\ Cardinality(discarded) \in Nat
    BY <2>1, FS_CardinalityType DEF Counted
  <2> QED BY <1>3, <2>3, <2>4 DEF CountDrop, Counted, EveryDropCounted, TypeOK
<1>4. CASE discarded' = discarded /\ dropped' = dropped /\ Uncounted' = Uncounted
  BY <1>4 DEF Counted, EveryDropCounted
<1>5. ASSUME NEW c \in Containers,
             \/ Emit(c) \/ Put(c) \/ (Evict(c) /\ queue = <<>>)
             \/ Retry(c) /\ fpc' = [fpc EXCEPT ![c] = "idle"] /\ UNCHANGED discarded
      PROVE  Counted'
  <2>1. PICK next \in {"put", "idle", "evict", "retry"} :
           /\ fpc[c] \notin {"evicted", "lost"}
           /\ fpc' = [fpc EXCEPT ![c] = next]
           /\ UNCHANGED <<dropped, discarded>>
    BY <1>5 DEF Emit, Put, Evict, Retry
  <2>2. Uncounted' = Uncounted
    BY <2>1 DEF Uncounted, TypeOK
  <2> QED BY <1>4, <2>1, <2>2
<1>6. CASE Publisher \/ Stop \/ UNCHANGED vars
  <2>1. UNCHANGED <<fpc, discarded, dropped>>
    BY <1>6 DEF Publisher, PublisherCheck, PublisherGet, PublisherPut, Stop, vars
  <2> QED BY <1>4, <2>1 DEF Uncounted
<1>7. ASSUME NEW c \in Containers, Emit(c) \/ Enqueue(c)
      PROVE  Counted'
  BY <1>1, <1>2, <1>3, <1>5, <1>7 DEF Enqueue, Emit, Put, Evict, Retry
<1> QED BY <1>6, <1>7 DEF Next

\* The count at shutdown is the number of the items the queue discarded, but
\* for those that a follower is about to count.
THEOREM DropsAreCounted == Spec => []EveryDropCounted
<1>1. Init => Counted
  <2> SUFFICES ASSUME Init PROVE Counted
    OBVIOUS
  <2>1. discarded = {} /\ Uncounted = {} /\ dropped = 0
    BY DEF Init, Uncounted
  <2> QED BY <2>1, FS_EmptySet DEF Counted, EveryDropCounted
<1>2. Inv /\ Counted /\ [Next]_vars => Counted'
  BY CountedInductive
<1>3. Counted => EveryDropCounted
  BY DEF Counted
<1> QED BY InvHolds, <1>1, <1>2, <1>3, PTL DEF Spec

-----------------------------------------------------------------------------
(* The queue implements the channel.                                       *)

\* A follower's step sends a line, loses one, or is not seen outside.
LEMMA FollowerRefines ==
    ASSUME Inv, NEW c \in Containers, Emit(c) \/ Enqueue(c)
    PROVE  Channel!Next \/ UNCHANGED Channel!chanVars
<1> USE DEF Inv
<1> DEFINE transit == Pending \cup Queued \cup held
<1>1. CASE Emit(c)
  <2>1. Pending' = Pending \cup {<<c, emitted[c] + 1>>}
    BY <1>1 DEF Emit, TypeOK, Pending, Current
  <2>2. Queued' = Queued
    BY <1>1 DEF Emit, Queued
  <2>3. Channel!Send(c)
    BY <1>1, <2>1, <2>2 DEF Emit, Channel!Send
  <2> QED BY <2>3 DEF Channel!Next
<1>2. CASE (Put(c) \/ Retry(c)) /\ queue' = Append(queue, Current(c))
  <2>1. Current(c) \in Pending /\ Pending' = Pending \ {Current(c)}
    BY <1>2, PendingLeaves DEF Put, Retry
  <2>2. Current(c) \in Items
    BY <2>1 DEF EveryLineInOnePlace, Emitted
  <2>3. Queued' = Queued \cup {Current(c)}
    BY <1>2, <2>2, AppendElement DEF TypeOK, Queued
  <2>4. transit' = transit
    BY <1>2, <2>1, <2>3 DEF Put, Retry
  <2>5. UNCHANGED <<emitted, published, discarded, failed>>
    BY <1>2 DEF Put, Retry
  <2> QED BY <2>4, <2>5 DEF Channel!chanVars
<1>3. CASE (Put(c) /\ Full) \/ (Evict(c) /\ queue = <<>>) \/ CountDrop(c)
  <2>1. PICK next \in {"evict", "retry", "idle"} :
           /\ fpc' = [fpc EXCEPT ![c] = next]
           /\ fpc[c] \in {"idle", "lost"} <=> next \in {"idle", "lost"}
    BY <1>3 DEF Put, Evict, CountDrop, TypeOK
  <2>2. UNCHANGED <<queue, emitted, held, published, failed, discarded>>
    BY <1>3 DEF Put, Evict, CountDrop
  <2>3. Pending' = Pending /\ Queued' = Queued
    BY <2>1, <2>2, PendingStays DEF Queued
  <2> QED BY <2>2, <2>3 DEF Channel!chanVars
<1>4. CASE Evict(c) /\ queue # <<>>
  <2>1. Head(queue) \in Queued /\ Queued' = Queued \ {Head(queue)}
    BY <1>4, TailElements DEF Evict, TypeOK, Queued, EveryLineInOnePlace, Sorted
  <2>2. Pending' = Pending
    BY <1>4, PendingStays DEF Evict
  <2>3. Head(queue) \in transit /\ transit' = transit \ {Head(queue)}
    BY <1>4, <2>1, <2>2 DEF Evict, EveryLineInOnePlace
  <2>4. Channel!Lose(Head(queue))
    BY <1>4, <2>3 DEF Evict, Channel!Lose
  <2> QED BY <2>3, <2>4 DEF Channel!Next
<1>5. CASE Retry(c) /\ discarded' = discarded \cup {Current(c)} /\ UNCHANGED queue
  <2>0. fpc' = [fpc EXCEPT ![c] = "idle"] \/ fpc' = [fpc EXCEPT ![c] = "lost"]
    BY <1>5 DEF Retry
  <2>1. Current(c) \in Pending /\ Pending' = Pending \ {Current(c)}
    BY <1>5, <2>0, PendingLeaves DEF Retry
  <2>2. Queued' = Queued
    BY <1>5 DEF Queued
  <2>3. Current(c) \in transit /\ transit' = transit \ {Current(c)}
    BY <1>5, <2>1, <2>2 DEF Retry, EveryLineInOnePlace
  <2>4. Channel!Lose(Current(c))
    BY <1>5, <2>3 DEF Retry, Channel!Lose
  <2> QED BY <2>3, <2>4 DEF Channel!Next
<1> QED BY <1>1, <1>2, <1>3, <1>4, <1>5 DEF Enqueue, Put, Evict, Retry

\* The publisher delivers what it took, or loses it.
LEMMA PublisherRefines ==
    ASSUME Inv, Publisher
    PROVE  Channel!Next \/ UNCHANGED Channel!chanVars
<1> USE DEF Inv
<1> DEFINE transit == Pending \cup Queued \cup held
<1>1. Pending' = Pending
  BY DEF Publisher, PublisherCheck, PublisherGet, PublisherPut, Pending, Current
<1>2. CASE PublisherCheck \/ (PublisherGet /\ queue = <<>>)
  <2>1. UNCHANGED <<queue, emitted, held, published, failed, discarded>>
    BY <1>2 DEF PublisherCheck, PublisherGet
  <2> QED BY <1>1, <2>1 DEF Queued, Channel!chanVars
<1>3. CASE PublisherGet /\ queue # <<>>
  <2>1. Head(queue) \in Queued /\ Queued' = Queued \ {Head(queue)}
    BY <1>3, TailElements DEF PublisherGet, TypeOK, Queued, EveryLineInOnePlace, Sorted
  <2>2. held = {} /\ held' = {Head(queue)}
    BY <1>3 DEF PublisherGet, HeldByPublisher
  <2>3. transit' = transit
    BY <1>1, <2>1, <2>2
  <2>4. UNCHANGED <<emitted, published, failed, discarded>>
    BY <1>3 DEF PublisherGet
  <2> QED BY <2>3, <2>4 DEF Channel!chanVars
<1>4. CASE PublisherPut
  <2>1. PICK item \in Items : held = {item}
    BY <1>4 DEF PublisherPut, HeldByPublisher
  <2>2. Queued' = Queued
    BY <1>4 DEF PublisherPut, Queued
  <2>3. item \in transit /\ transit' = transit \ {item}
    BY <1>1, <1>4, <2>1, <2>2 DEF PublisherPut, EveryLineInOnePlace
  <2>4. Channel!IsOldest(item)
    <3>1. \A y \in Queued \cup Pending : Before(item, y)
      BY <2>1, PendingIsLast DEF Sorted
    <3>2. ASSUME NEW y \in transit, y[1] = item[1] PROVE item[2] <= y[2]
      <4>1. item \in Emitted /\ y \in Emitted
        BY <2>1 DEF EveryLineInOnePlace
      <4>2. item[2] \in Nat /\ y[2] \in Nat
        BY <4>1 DEF Emitted, Items
      <4> QED BY <2>1, <3>1, <3>2, <4>2 DEF Before
    <3> QED BY <3>2 DEF Channel!IsOldest
  <2>5. Channel!Deliver(item) \/ Channel!Lose(item)
    BY <1>4, <2>1, <2>3, <2>4 DEF PublisherPut, Channel!Deliver, Channel!Lose
  <2> QED BY <2>3, <2>5 DEF Channel!Next
<1> QED BY <1>2, <1>3, <1>4 DEF Publisher, PublisherGet

\* The queue and its threads implement a lossy channel per container that
\* delivers nothing twice and nothing out of order.
THEOREM Refinement == Spec => ImplementsChannel
<1>1. Init => Channel!Init
  <2> SUFFICES ASSUME Init PROVE Channel!Init
    OBVIOUS
  <2>1. Queued = {} /\ Pending = {}
    BY DEF Init, Queued, Range, Pending
  <2> QED BY <2>1 DEF Init, Channel!Init
<1>2. ASSUME Inv, [Next]_vars
      PROVE  Channel!Next \/ UNCHANGED Channel!chanVars
  <2>1. CASE Stop \/ UNCHANGED vars
    BY <2>1 DEF Stop, vars, Queued, Pending, Current, Channel!chanVars
  <2> QED BY <1>2, <2>1, FollowerRefines, PublisherRefines DEF Next
<1>3. Inv /\ [Next]_vars => [Channel!Next]_Channel!chanVars
  BY <1>2
<1> QED BY InvHolds, <1>1, <1>3, PTL DEF Spec, ImplementsChannel, Channel!Spec
-----------------------------------------------------------------------------
(***************************************************************************)
(* Whatever the containers and however often the daemon fails: a container *)
(* never has two followers, a living follower is in the dictionary, and a  *)
(* follower in its read can be unblocked.                                  *)
(*                                                                         *)
(* None of the three is inductive.  A follower may deregister its name     *)
(* only because nobody else needs the entry: no second follower of the     *)
(* name is alive, and the scan is not about to start one.  So the          *)
(* invariant also says what the scan thread knows: what it has decided to  *)
(* start is not registered, and what it has registered and not yet started *)
(* has no follower.                                                        *)
(***************************************************************************)

\* A name that the scan is about to spawn is not registered.
SpawnsUnregistered == spc \in {"spawn", "start"} => todo \cap registered = {}

\* A name that is registered and about to be started has no follower.
StartsUnfollowed ==
    \A n \in starting : n \in registered /\ \A k \in Slots : followerPc[<<n, k>>] = "free"

FollowersInv ==
    /\ FollowersTypeOK
    /\ OneFollowerPerContainer
    /\ LiveIsRegistered
    /\ ReaderCanBeClosed
    /\ SpawnsUnregistered
    /\ StartsUnfollowed

-----------------------------------------------------------------------------

\* Every variable keeps its type.
LEMMA FollowersTypeInductive ==
    ASSUME FollowersTypeOK, [FollowersNext]_followersVars
    PROVE  FollowersTypeOK'
<1> USE FollowerAssumption DEF FollowersTypeOK, Threads, Slots
<1>1. CASE Scan
  <2>1. CASE SpawnRegister
    BY <2>1 DEF SpawnRegister, mainVars, envVars
  <2>2. CASE SpawnStart
    BY <2>2 DEF SpawnStart, mainVars, envVars
  <2>3. CASE ScanCheck \/ ScanList \/ ScanKnown \/ ScanSleep
    BY <2>3 DEF ScanCheck, ScanList, ScanKnown, ScanSleep, followVars, mainVars, envVars
  <2> QED BY <1>1, <2>1, <2>2, <2>3 DEF Scan
<1>2. ASSUME NEW t \in Threads, Follow(t) \/ FrameAfterStop(t)
      PROVE  FollowersTypeOK'
  <2>1. PICK n \in Names, k \in Slots : t = <<n, k>>
    BY DEF Threads
  <2>2. t[1] = n /\ t[2] = k
    BY <2>1
  <2>3. CASE LoopTop(t)
    BY <2>3 DEF LoopTop, UnlessStopped, scanVars, mainVars, envVars
  <2>4. CASE FollowLogs(t)
    BY <2>2, <2>4 DEF FollowLogs, scanVars, envVars
  <2>5. CASE FollowLogsFails(t)
    BY <2>5 DEF FollowLogsFails, UnlessStopped, scanVars, mainVars, envVars
  <2>6. CASE RegisterCloser(t)
    BY <2>2, <2>6 DEF RegisterCloser, scanVars, mainVars, envVars
  <2>7. CASE StreamEnds(t)
    BY <2>7 DEF StreamEnds, UnlessStopped, scanVars, mainVars, envVars
  <2>8. CASE FrameAfterStop(t)
    BY <2>8 DEF FrameAfterStop, scanVars, mainVars, envVars
  <2>9. CASE StillPresent(t)
    BY <2>9 DEF StillPresent, scanVars, mainVars, envVars
  <2>10. CASE Deregister(t)
    BY <2>10 DEF Deregister, scanVars, mainVars, envVars
  <2> QED BY <1>2, <2>3, <2>4, <2>5, <2>6, <2>7, <2>8, <2>9, <2>10 DEF Follow
<1>3. CASE SetStop \/ Stopping
  BY <1>3 DEF SetStop, Stopping, CopyClosers, CallCloser, Join, followVars, scanVars, envVars
<1>4. CASE Environment
  <2>1. ASSUME NEW n \in Names,
               ContainerStarts(n) \/ ContainerExits(n) \/ ContainerRemoved(n)
        PROVE  FollowersTypeOK'
    BY <2>1 DEF ContainerStarts, ContainerExits, ContainerRemoved, Change, EndStreams,
                scanVars, mainVars
  <2>2. CASE DaemonGoesDown
    <3>1. daemonUp' = FALSE /\ changes' = changes + 1 /\ changes < MaxChanges
      BY <2>2 DEF DaemonGoesDown, Change
    <3>2. stream' \in [Threads -> {"none", "open", "ended"}]
      BY <2>2 DEF DaemonGoesDown, EndStreams
    <3>3. UNCHANGED <<stopped, registered, closer, followerPc, spc, todo, starting, mpc, toClose, container>>
      BY <2>2 DEF DaemonGoesDown, Change, scanVars, mainVars
    <3>4. daemonUp' \in BOOLEAN
      BY <3>1
    <3> QED BY <3>1, <3>2, <3>3, <3>4
  <2>3. CASE DaemonComesBack
    BY <2>3 DEF DaemonComesBack, Change, scanVars, mainVars
  <2> QED BY <1>4, <2>1, <2>2, <2>3 DEF Environment
<1>5. CASE UNCHANGED followersVars
  BY <1>5 DEF followersVars, followVars, scanVars, mainVars, envVars
<1> QED BY <1>1, <1>2, <1>3, <1>4, <1>5 DEF FollowersNext

-----------------------------------------------------------------------------

\* The invariant holds at the start: there is no follower.
LEMMA FollowersInvInit == FollowersInit => FollowersInv
<1> SUFFICES ASSUME FollowersInit PROVE FollowersInv
  OBVIOUS
<1>1. FollowersTypeOK
  <2>1. stopped \in BOOLEAN /\ daemonUp \in BOOLEAN
    BY DEF FollowersInit
  <2> QED BY <2>1, FollowerAssumption DEF FollowersInit, FollowersTypeOK, Slots
<1>2. Live = {}
  BY DEF FollowersInit, Live
<1>3. OneFollowerPerContainer /\ LiveIsRegistered
  BY <1>2 DEF OneFollowerPerContainer, LiveIsRegistered
<1>4. ReaderCanBeClosed /\ SpawnsUnregistered /\ StartsUnfollowed
  BY DEF FollowersInit, ReaderCanBeClosed, SpawnsUnregistered, StartsUnfollowed
<1> QED BY <1>1, <1>3, <1>4 DEF FollowersInv

\* No step of the scan thread gives a name a second follower.
LEMMA ScanKeepsInv ==
    ASSUME FollowersInv, Scan, FollowersTypeOK'
    PROVE  FollowersInv'
<1> USE DEF FollowersInv
<1>1. CASE ScanCheck
  BY <1>1 DEF ScanCheck, followVars, FollowersTypeOK, OneFollowerPerContainer, LiveIsRegistered,
              ReaderCanBeClosed, SpawnsUnregistered, StartsUnfollowed, Live
<1>2. CASE ScanList
  BY <1>2 DEF ScanList, followVars, FollowersTypeOK, OneFollowerPerContainer, LiveIsRegistered,
              ReaderCanBeClosed, SpawnsUnregistered, StartsUnfollowed, Live
<1>3. CASE ScanKnown
  BY <1>3 DEF ScanKnown, followVars, FollowersTypeOK, OneFollowerPerContainer, LiveIsRegistered,
              ReaderCanBeClosed, SpawnsUnregistered, StartsUnfollowed, Live
<1>4. CASE ScanSleep
  BY <1>4 DEF ScanSleep, followVars, FollowersTypeOK, OneFollowerPerContainer, LiveIsRegistered,
              ReaderCanBeClosed, SpawnsUnregistered, StartsUnfollowed, Live
<1>5. CASE SpawnRegister
  <2>1. PICK n \in todo : /\ todo' = todo \ {n}
                          /\ starting' = {n}
                          /\ registered' = registered \cup {n}
                          /\ closer' = [closer EXCEPT ![n] = 0]
    BY <1>5 DEF SpawnRegister
  <2>2. n \in Names /\ n \notin registered
    BY <1>5 DEF SpawnRegister, SpawnsUnregistered, FollowersTypeOK
  <2>3. \A k \in Slots : followerPc[<<n, k>>] = "free"
    BY <2>2 DEF LiveIsRegistered, Live, Threads
  <2>4. followerPc' = followerPc /\ spc' = "start"
    BY <1>5 DEF SpawnRegister
  <2>5. OneFollowerPerContainer' /\ LiveIsRegistered'
    BY <2>1, <2>4 DEF OneFollowerPerContainer, LiveIsRegistered, Live
  <2>6. ReaderCanBeClosed'
    BY <2>1, <2>2, <2>4 DEF ReaderCanBeClosed, FollowersTypeOK
  <2>7. SpawnsUnregistered'
    BY <1>5, <2>1 DEF SpawnsUnregistered, SpawnRegister
  <2>8. StartsUnfollowed'
    BY <2>1, <2>3, <2>4 DEF StartsUnfollowed
  <2> QED BY <2>5, <2>6, <2>7, <2>8
<1>6. CASE SpawnStart
  <2>1. PICK n \in starting, k \in Slots :
            followerPc[<<n, k>>] = "free" /\ followerPc' = [followerPc EXCEPT ![<<n, k>>] = "top"]
    BY <1>6 DEF SpawnStart
  <2>2. /\ n \in Names
        /\ n \in registered
        /\ \A j \in Slots : followerPc[<<n, j>>] = "free"
    BY DEF StartsUnfollowed, FollowersTypeOK
  <2>3. registered' = registered /\ closer' = closer /\ todo' = todo /\ starting' = {}
    BY <1>6 DEF SpawnStart
  <2>4. <<n, k>> \in Threads
    BY <2>2 DEF Threads
  <2>5. Live' = Live \cup {<<n, k>>}
    BY <2>1, <2>4 DEF Live, FollowersTypeOK
  <2>6. \A t \in Live : t[1] # n
    <3>1. TAKE t \in Live
    <3>2. PICK m \in Names, j \in Slots : t = <<m, j>>
      BY DEF Live, Threads
    <3> QED BY <2>2, <3>2 DEF Live
  <2>7. OneFollowerPerContainer'
    BY <2>5, <2>6 DEF OneFollowerPerContainer
  <2>8. LiveIsRegistered'
    BY <2>2, <2>3, <2>5 DEF LiveIsRegistered
  <2>9. ReaderCanBeClosed'
    BY <2>1, <2>3, <2>4 DEF ReaderCanBeClosed, FollowersTypeOK
  <2>10. SpawnsUnregistered' /\ StartsUnfollowed'
    BY <1>6, <2>3 DEF SpawnsUnregistered, StartsUnfollowed, SpawnStart
  <2> QED BY <2>7, <2>8, <2>9, <2>10
<1> QED BY <1>1, <1>2, <1>3, <1>4, <1>5, <1>6 DEF Scan

\* A follower changes no entry but that of its own name, and is the only one
\* whose pc it changes: to "free" when the entry goes, to "read" when the
\* entry is its own closer.
LEMMA FollowKeepsInv ==
    ASSUME FollowersInv, FollowersTypeOK', NEW t \in Threads, Follow(t) \/ FrameAfterStop(t)
    PROVE  FollowersInv'
<1> USE DEF FollowersInv
<1>1. PICK n \in Names, k \in Slots : t = <<n, k>>
  BY DEF Threads
<1>2. t[1] = n /\ t[2] = k
  BY <1>1
<1>3. t \in Live
  BY DEF Live, Follow, FrameAfterStop, LoopTop, FollowLogs, FollowLogsFails, RegisterCloser,
         StreamEnds, StillPresent, Deregister
<1>4. n \in registered /\ n \notin starting
  BY <1>1, <1>2, <1>3 DEF LiveIsRegistered, StartsUnfollowed, Live
<1>5. \A u \in Live : u[1] = n => u = t
  BY <1>2, <1>3 DEF OneFollowerPerContainer
<1>6. spc' = spc /\ todo' = todo /\ starting' = starting
  BY DEF Follow, FrameAfterStop, LoopTop, FollowLogs, FollowLogsFails, RegisterCloser,
         StreamEnds, StillPresent, Deregister, scanVars
<1>7. CASE Deregister(t)
  <2>1. registered' = registered \ {n} /\ closer' = closer /\ followerPc' = [followerPc EXCEPT ![t] = "free"]
    BY <1>2, <1>7 DEF Deregister
  <2>2. Live' = Live \ {t}
    BY <2>1 DEF Live, FollowersTypeOK
  <2>3. OneFollowerPerContainer'
    BY <2>2 DEF OneFollowerPerContainer
  <2>4. LiveIsRegistered'
    BY <1>5, <2>1, <2>2 DEF LiveIsRegistered
  <2>5. ReaderCanBeClosed'
    <3>1. SUFFICES ASSUME NEW u \in Threads, followerPc'[u] = "read"
                   PROVE  u[1] \in registered' /\ closer'[u[1]] = u[2]
      BY DEF ReaderCanBeClosed
    <3>2. u # t /\ followerPc[u] = "read"
      BY <2>1, <3>1 DEF FollowersTypeOK
    <3>3. u[1] # n
      BY <1>5, <3>2 DEF Live
    <3> QED BY <2>1, <3>2, <3>3 DEF ReaderCanBeClosed
  <2>6. SpawnsUnregistered'
    BY <1>6, <2>1 DEF SpawnsUnregistered
  <2>7. StartsUnfollowed'
    BY <1>4, <1>6, <2>1, <1>1 DEF StartsUnfollowed, FollowersTypeOK
  <2> QED BY <2>3, <2>4, <2>5, <2>6, <2>7
<1>8. ASSUME ~Deregister(t) PROVE FollowersInv'
  <2>1. registered' = registered
    BY <1>2, <1>4, <1>8 DEF Follow, FrameAfterStop, LoopTop, FollowLogs, FollowLogsFails,
                            RegisterCloser, StreamEnds, StillPresent
  <2>2. \E next \in {"top", "call", "register", "read", "present", "pop"} :
            followerPc' = [followerPc EXCEPT ![t] = next]
    BY <1>8 DEF Follow, FrameAfterStop, LoopTop, FollowLogs, FollowLogsFails, RegisterCloser,
                StreamEnds, StillPresent, UnlessStopped
  <2>3. Live' = Live
    BY <1>3, <2>2 DEF Live, FollowersTypeOK
  <2>4. OneFollowerPerContainer' /\ LiveIsRegistered'
    BY <2>1, <2>3 DEF OneFollowerPerContainer, LiveIsRegistered
  <2>5. SpawnsUnregistered'
    BY <1>6, <2>1 DEF SpawnsUnregistered
  <2>6. StartsUnfollowed'
    BY <1>1, <1>4, <1>6, <2>1, <2>2 DEF StartsUnfollowed, FollowersTypeOK
  <2>7. \A m \in Names : m # n => closer'[m] = closer[m]
    BY <1>2, <1>8 DEF Follow, FrameAfterStop, LoopTop, FollowLogs, FollowLogsFails,
                      RegisterCloser, StreamEnds, StillPresent, FollowersTypeOK
  <2>8. followerPc'[t] = "read" => closer'[n] = k
    BY <1>2, <1>8 DEF Follow, FrameAfterStop, LoopTop, FollowLogs, FollowLogsFails,
                      RegisterCloser, StreamEnds, StillPresent, UnlessStopped, FollowersTypeOK
  <2>9. ReaderCanBeClosed'
    <3>1. SUFFICES ASSUME NEW u \in Threads, followerPc'[u] = "read"
                   PROVE  u[1] \in registered' /\ closer'[u[1]] = u[2]
      BY DEF ReaderCanBeClosed
    <3>2. CASE u = t
      BY <1>2, <1>4, <2>1, <2>8, <3>1, <3>2
    <3>3. CASE u # t
      <4>1. followerPc[u] = "read"
        BY <2>2, <3>1, <3>3 DEF FollowersTypeOK
      <4>2. u[1] # n /\ u[1] \in Names
        BY <1>5, <3>3, <4>1 DEF Live, Threads
      <4> QED BY <2>1, <2>7, <4>1, <4>2 DEF ReaderCanBeClosed
    <3> QED BY <3>2, <3>3
  <2> QED BY <2>4, <2>5, <2>6, <2>9
<1> QED BY <1>7, <1>8

\* Every step keeps the invariant.
LEMMA FollowersInvInductive ==
    ASSUME FollowersInv, [FollowersNext]_followersVars
    PROVE  FollowersInv'
<1>1. FollowersTypeOK'
  BY FollowersTypeInductive DEF FollowersInv
<1>2. CASE Scan
  BY <1>1, <1>2, ScanKeepsInv
<1>3. ASSUME NEW t \in Threads, Follow(t) \/ FrameAfterStop(t)
      PROVE  FollowersInv'
  BY <1>1, <1>3, FollowKeepsInv
<1>4. CASE SetStop \/ Stopping \/ Environment \/ UNCHANGED followersVars
  <2>1. UNCHANGED <<registered, closer, followerPc, spc, todo, starting>>
    BY <1>4 DEF SetStop, Stopping, CopyClosers, CallCloser, Join, Environment, ContainerStarts,
                ContainerExits, ContainerRemoved, DaemonGoesDown, DaemonComesBack, Change,
                followVars, scanVars, followersVars
  <2> QED BY <1>1, <2>1 DEF FollowersInv, OneFollowerPerContainer, LiveIsRegistered, ReaderCanBeClosed,
                            SpawnsUnregistered, StartsUnfollowed, Live
<1> QED BY <1>2, <1>3, <1>4 DEF FollowersNext

\* The invariant holds in every reachable state.
THEOREM FollowersInvHolds == FollowersSpec => []FollowersInv
<1>1. FollowersInv /\ [FollowersNext]_followersVars => FollowersInv'
  BY FollowersInvInductive
<1> QED BY FollowersInvInit, <1>1, PTL DEF FollowersSpec

\* The variables of the log capture keep their types.
THEOREM FollowersTypeCorrect == FollowersSpec => []FollowersTypeOK
<1>1. FollowersInv => FollowersTypeOK
  BY DEF FollowersInv
<1> QED BY FollowersInvHolds, <1>1, PTL

\* For any number of containers, and whatever the daemon does, no container
\* ever has two followers: its lines are not captured twice.
THEOREM FollowersAreUnique == FollowersSpec => []OneFollowerPerContainer
<1>1. FollowersInv => OneFollowerPerContainer
  BY DEF FollowersInv
<1> QED BY FollowersInvHolds, <1>1, PTL

\* A living follower is in _followers from before its start to its last step.
THEOREM FollowersAreRegistered == FollowersSpec => []LiveIsRegistered
<1>1. FollowersInv => LiveIsRegistered
  BY DEF FollowersInv
<1> QED BY FollowersInvHolds, <1>1, PTL

\* What _followers holds for a follower in its read closes the stream it
\* reads, after any number of reconnects.
THEOREM ReadersCanBeClosed == FollowersSpec => []ReaderCanBeClosed
<1>1. FollowersInv => ReaderCanBeClosed
  BY DEF FollowersInv
<1> QED BY FollowersInvHolds, <1>1, PTL
=============================================================================
