--------------------------- MODULE StatusPublisher ---------------------------
(***************************************************************************)
(* The thread that publishes the container set of a host when it changes,  *)
(* and as a heartbeat when it does not (class ContainerStatusPublisher),   *)
(* with the host it looks at and one subscriber.                           *)
(*                                                                         *)
(* A tick lists the containers, reads them one by one (docker-py inspects  *)
(* each id that the listing returned, and raises if one is gone), asks for *)
(* the image of each (an error of the daemon costs no more than the tags), *)
(* compares the digest of the rows with the last one sent, and puts.  The  *)
(* host goes on changing in between.  A put may raise, or the sample may   *)
(* be lost on its way; the process may be restarted.                       *)
(*                                                                         *)
(* A container is its id: a removed one does not come back, and one that   *)
(* is created again under its name is another.                             *)
(***************************************************************************)
EXTENDS Naturals

CONSTANTS
    Ids,
    States,          \* what a row shows of a container, as far as it varies
    Hosts, Taggings, \* the containers, and which images have a tag, to begin with
    HeartbeatTicks,  \* heartbeat_s / interval_s
    Wrap,            \* bound: sequence numbers are counted modulo Wrap
    MaxChanges,      \* bound: changes of the host
    MaxFailures,     \* bound: calls to the daemon and puts that raise
    MaxLosses,       \* bound: samples lost on the way to the subscriber
    MaxRestarts      \* bound: restarts of the process

ASSUME StatusAssumption ==
    /\ Hosts \subseteq [Ids -> States \cup {"none"}] /\ Taggings \subseteq [Ids -> BOOLEAN]
    /\ "none" \notin States /\ "removed" \notin States
    /\ HeartbeatTicks \in Nat \ {0} /\ Wrap \in Nat \ {0}
    /\ MaxChanges \in Nat /\ MaxFailures \in Nat /\ MaxLosses \in Nat /\ MaxRestarts \in Nat

VARIABLES
    host,        \* host[c]: none (not created yet), a state, or removed
    tagged,      \* tagged[c]: the image of c is there and has a tag
    stop,        \* self._stop
    ppc,         \* where the thread is in _loop
    pending,     \* the listed containers it has not read yet
    imageless,   \* those it has read and not asked for the image of
    infos,       \* the rows it has read
    lastDigest,  \* self._last_digest: {} for None, or {rows}
    sequence,    \* self._sequence
    age,         \* intervals since self._last_sent_at
    sent,        \* history: the last sample put by this process, {} or {sample}
    moments,     \* history: what the host has been since the listing
    degraded,    \* history: whose image the daemon has not told in this tick
    joined,      \* whether the subscriber is there
    received,    \* its last sample, {} or {sample}
    sameProcess, \* history: whether that sample came from the present process
    changes, failures, losses, restarts

world == <<host, tagged>>
reading == <<pending, imageless, infos>>
loopVars == <<reading, lastDigest, sequence, age, sent>>
history == <<moments, degraded>>
subVars == <<joined, received, sameProcess>>
counters == <<changes, failures, losses, restarts>>
vars == <<world, stop, ppc, loopVars, history, subVars, counters>>

\* What a row gives as the image: a tag, or what the container was created with.
References == {"tag", "configured"}

AllRows == Ids \X States \X References

Samples == [rows : SUBSET AllRows, trigger : {"change", "heartbeat"}, sequence : 0 .. Wrap - 1]

Reference(t, c) == IF t[c] THEN "tag" ELSE "configured"

Rows(h, t) == {<<c, h[c], Reference(t, c)>> : c \in {d \in Ids : h[d] \in States}}

Moment == [host |-> host, tagged |-> tagged]

TypeOK ==
    /\ host \in [Ids -> States \cup {"none", "removed"}]
    /\ tagged \in [Ids -> BOOLEAN]
    /\ stop \in BOOLEAN
    /\ ppc \in {"check", "list", "inspect", "wait", "failed", "done"}
    /\ pending \in SUBSET Ids /\ imageless \in SUBSET Ids
    /\ infos \in SUBSET AllRows
    /\ lastDigest \in SUBSET (SUBSET AllRows)
    /\ sequence \in 0 .. Wrap - 1
    /\ age \in 0 .. HeartbeatTicks
    /\ sent \in SUBSET Samples
    /\ moments \in SUBSET [host : [Ids -> States \cup {"none", "removed"}],
                           tagged : [Ids -> BOOLEAN]]
    /\ degraded \in SUBSET Ids
    /\ joined \in BOOLEAN
    /\ received \in SUBSET Samples
    /\ sameProcess \in BOOLEAN
    /\ changes \in 0 .. MaxChanges
    /\ failures \in 0 .. MaxFailures
    /\ losses \in 0 .. MaxLosses
    /\ restarts \in 0 .. MaxRestarts

Init ==
    /\ host \in Hosts
    /\ tagged \in Taggings
    /\ stop = FALSE
    /\ ppc = "check"
    /\ pending = {} /\ imageless = {} /\ infos = {}
    /\ lastDigest = {} /\ sequence = 0 /\ age = 0
    /\ sent = {} /\ moments = {} /\ degraded = {}
    /\ joined = FALSE
    /\ received = {}
    /\ sameProcess = TRUE
    /\ changes = 0 /\ failures = 0 /\ losses = 0 /\ restarts = 0

-----------------------------------------------------------------------------
(* The thread: _loop.                                                      *)

Check ==
    /\ ppc = "check"
    /\ ppc' = IF stop THEN "done" ELSE "list"
    /\ UNCHANGED <<world, stop, loopVars, history, subVars, counters>>

\* The daemon is unreachable, answers with an error, or the put raises.
Failure ==
    /\ failures < MaxFailures
    /\ failures' = failures + 1
    /\ UNCHANGED <<changes, losses, restarts>>

\* The end of a tick that raised: its snapshot is lost, and nothing else.
GiveUp ==
    /\ ppc' = "failed"
    /\ pending' = {} /\ imageless' = {} /\ infos' = {}
    /\ moments' = {} /\ degraded' = {}
    /\ UNCHANGED <<world, stop, lastDigest, sequence, age, sent, subVars>>

ListIds ==
    /\ ppc = "list"
    /\ pending' = {c \in Ids : host[c] \in States}
    /\ imageless' = {} /\ infos' = {}
    /\ moments' = {Moment} /\ degraded' = {}
    /\ ppc' = "inspect"
    /\ UNCHANGED <<world, stop, lastDigest, sequence, age, sent, subVars, counters>>

ListFails ==
    /\ ppc = "list"
    /\ Failure
    /\ GiveUp

\* Both loops go through the listing in its order.
First(S) == CHOOSE c \in S : TRUE

ToRead(c) == ppc = "inspect" /\ pending # {} /\ c = First(pending)

Inspect(c) ==
    /\ ToRead(c)
    /\ host[c] \in States
    /\ pending' = pending \ {c} /\ imageless' = imageless \cup {c}
    /\ infos' = infos \cup {<<c, host[c], "configured">>}
    /\ UNCHANGED <<world, stop, ppc, lastDigest, sequence, age, sent, history, subVars, counters>>

\* Faulty: a container that cannot be read costs its own row and nothing else.
InspectSkips(c) ==
    /\ ToRead(c)
    /\ \/ Failure
       \/ host[c] = "removed" /\ UNCHANGED counters
    /\ pending' = pending \ {c}
    /\ UNCHANGED <<world, stop, ppc, imageless, infos, lastDigest, sequence, age, sent, history, subVars>>

InspectFails(c) ==
    /\ ToRead(c)
    /\ \/ Failure
       \/ host[c] = "removed" /\ UNCHANGED counters
    /\ GiveUp

\* The request for the next image, that of c, once every container has been read
\* (_snapshot).
\* Without a tag the row shows what the container was created with, and so it does
\* when the daemon answers with an error, which is swallowed.
AskImage(c) ==
    /\ ppc = "inspect" /\ pending = {}
    /\ imageless # {} /\ c = First(imageless)

ReadImage(c) ==
    /\ AskImage(c)
    /\ imageless' = imageless \ {c}
    /\ infos' = {IF r[1] = c THEN <<c, r[2], Reference(tagged, c)>> ELSE r : r \in infos}
    /\ UNCHANGED <<world, stop, ppc, pending, lastDigest, sequence, age, sent, history, subVars, counters>>

ImageFails(c) ==
    /\ AskImage(c)
    /\ Failure
    /\ imageless' = imageless \ {c} /\ degraded' = degraded \cup {c}
    /\ UNCHANGED <<world, stop, ppc, pending, infos, lastDigest, sequence, age, sent, moments, subVars>>

\* What the daemon's client raises besides: a connection that is cut, a timeout.
ImageRaises(c) ==
    /\ AskImage(c)
    /\ Failure
    /\ GiveUp

Snapshot == ppc = "inspect" /\ pending = {} /\ imageless = {}

Changed == lastDigest # {infos}

\* Faulty: only changes are published.
NeverDue == FALSE

Due == age >= HeartbeatTicks

Sample == [rows     |-> infos,
           trigger  |-> IF Changed THEN "change" ELSE "heartbeat",
           sequence |-> sequence]

\* The sample reaches the subscriber, or does not.
Deliver ==
    \/ /\ joined
       /\ received' = {Sample}
       /\ sameProcess' = TRUE
       /\ UNCHANGED <<joined, counters>>
    \/ /\ joined
       /\ losses < MaxLosses
       /\ losses' = losses + 1
       /\ UNCHANGED <<subVars, changes, failures, restarts>>
    \/ /\ ~joined
       /\ UNCHANGED <<subVars, counters>>

Publish ==
    /\ Snapshot
    /\ Changed \/ Due
    /\ Deliver
    /\ sent' = {Sample}
    /\ sequence' = (sequence + 1) % Wrap
    /\ lastDigest' = {infos}
    /\ age' = 0
    /\ ppc' = "wait"
    /\ moments' = {} /\ degraded' = {}
    /\ UNCHANGED <<world, stop, reading>>

\* Faulty: the digest is stored before the put.
PublishRaisesLate ==
    /\ Snapshot
    /\ Changed \/ Due
    /\ Failure
    /\ lastDigest' = {infos}
    /\ ppc' = "failed"
    /\ pending' = {} /\ imageless' = {} /\ infos' = {} /\ moments' = {} /\ degraded' = {}
    /\ UNCHANGED <<world, stop, sequence, age, sent, subVars>>

PublishRaises ==
    /\ Snapshot
    /\ Changed \/ Due
    /\ Failure
    /\ GiveUp

KeepQuiet ==
    /\ Snapshot
    /\ ~(Changed \/ Due)
    /\ ppc' = "wait"
    /\ moments' = {} /\ degraded' = {}
    /\ UNCHANGED <<world, stop, loopVars, subVars, counters>>

\* self._stop.wait(interval_s).  A tick takes an interval or, when the daemon
\* is slow to answer, longer.
Wait ==
    /\ ppc \in {"wait", "failed"}
    /\ ppc' = "check"
    /\ infos' = {}
    /\ age' \in IF age < HeartbeatTicks THEN age + 1 .. HeartbeatTicks ELSE {age}
    /\ UNCHANGED <<world, stop, pending, imageless, lastDigest, sequence, sent, history, subVars, counters>>

Loop == \/ Check \/ ListIds \/ ListFails
        \/ \E c \in Ids : Inspect(c) \/ InspectFails(c) \/ ReadImage(c) \/ ImageFails(c) \/ ImageRaises(c)
        \/ Publish \/ PublishRaises \/ KeepQuiet \/ Wait

\* The loop looks at the event nowhere else.
Stop ==
    /\ ppc = "check" /\ ~stop
    /\ stop' = TRUE
    /\ UNCHANGED <<world, ppc, loopVars, history, subVars, counters>>

-----------------------------------------------------------------------------
(* The host, the process, and the subscriber.                              *)

\* The host changes, and a snapshot in progress may see it or not.
HostChanges ==
    /\ changes < MaxChanges
    /\ changes' = changes + 1
    /\ moments' = IF ppc = "inspect" THEN moments \cup {Moment'} ELSE moments
    /\ UNCHANGED <<stop, ppc, loopVars, degraded, subVars, failures, losses, restarts>>

Becomes(c, s) ==
    /\ host' = [host EXCEPT ![c] = s] /\ UNCHANGED tagged
    /\ HostChanges

ContainerChanges(c) ==
    /\ host[c] # "removed"
    /\ \E s \in States \ {host[c]} : Becomes(c, s)

ContainerRemoved(c) ==
    /\ host[c] \in States
    /\ Becomes(c, "removed")

\* The image of c gets a tag, or loses its last one, or is deleted; as long as it
\* matters to a row.
Retag(c) ==
    /\ host[c] \in States \/ c \in imageless
    /\ tagged' = [tagged EXCEPT ![c] = ~tagged[c]] /\ UNCHANGED host
    /\ HostChanges

\* A new process: __init__ and start.
Restart ==
    /\ restarts < MaxRestarts
    /\ restarts' = restarts + 1
    /\ stop' = FALSE
    /\ ppc' = "check"
    /\ pending' = {} /\ imageless' = {} /\ infos' = {}
    /\ lastDigest' = {} /\ sequence' = 0 /\ age' = 0
    /\ sent' = {} /\ moments' = {} /\ degraded' = {}
    /\ sameProcess' = FALSE
    /\ UNCHANGED <<world, joined, received, changes, failures, losses>>

Join ==
    /\ ~joined
    /\ joined' = TRUE
    /\ UNCHANGED <<world, stop, ppc, loopVars, history, received, sameProcess, counters>>

-----------------------------------------------------------------------------

Next ==
    \/ Loop
    \/ Stop
    \/ \E c \in Ids : ContainerChanges(c) \/ ContainerRemoved(c) \/ Retag(c)
    \/ Restart
    \/ Join

\* The thread is scheduled and its waits end.
Spec == Init /\ [][Next]_vars /\ WF_vars(Loop)

-----------------------------------------------------------------------------
(* Correctness.                                                            *)

\* After every tick that did not raise, the last sample on the wire shows what
\* the tick saw: no failure, at whatever point, makes a change go unpublished.
CurrentAfterTick == ppc = "wait" => \E m \in sent : m.rows = infos

\* A sample claims nothing that was not so: the state of each row was so at some
\* moment of the snapshot, and so was its image, unless the daemon did not tell it and
\* the row falls back to what the container was created with; and a container that
\* was there all the time has a row (a subscriber reads a missing one as a removal).
EveryRowWasTrue ==
    [][\A m \in sent' \ sent :
          /\ \A r \in m.rows :
                /\ \E was \in moments : was.host[r[1]] = r[2]
                /\ \/ \E was \in moments : Reference(was.tagged, r[1]) = r[3]
                   \/ r[1] \in degraded /\ r[3] = "configured"
          /\ \A c \in Ids : (\A was \in moments : was.host[c] \in States)
                                => \E r \in m.rows : r[1] = c]_vars

\* A heartbeat says that nothing has changed: a subscriber that gets one with
\* the next sequence number of the same process already has these rows.
HeartbeatMeansUnchanged ==
    [][\A old \in received, new \in received' \ received :
          (sameProcess /\ new.trigger = "heartbeat" /\ new.sequence = (old.sequence + 1) % Wrap)
              => new.rows = old.rows]_vars

\* When the host no longer changes, a subscriber ends up with its rows, even
\* if it joined later, and even if the sample that first showed them was lost:
\* "it bounds that wait" (_loop, on the heartbeat).
SubscriberCatchesUp ==
    <>[](joined /\ ~stop => \E m \in received : m.rows = Rows(host, tagged))
=============================================================================
