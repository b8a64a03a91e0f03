---------------------------- MODULE LogFollower ----------------------------
(***************************************************************************)
(* The threads of the log capture (class LogFollower): the scan thread,    *)
(* which starts one follower thread for each matching container it does    *)
(* not know, the followers, and the main thread's stop().  They share the  *)
(* dictionary _followers from container names to closers, each access      *)
(* under _lock, and the event _stop.                                       *)
(*                                                                         *)
(* What a follower does with the lines is in LogQueue; here a frame is     *)
(* only a chance to look at _stop.  The daemon and the containers are the  *)
(* environment: containers start, exit and are removed, and the daemon     *)
(* goes down and comes back, which ends every stream.  A call to a daemon  *)
(* that is up fails only when the container does not exist.  The waits of  *)
(* the two loops are the time before their next step.                      *)
(*                                                                         *)
(* The names of the specification's parts begin with Followers, so that    *)
(* one module can prove theorems about it and about LogQueue, the other    *)
(* half of the class.                                                      *)
(***************************************************************************)
EXTENDS Naturals, FiniteSets

CONSTANTS
    Names,         \* containers whose name matches a --follow-logs glob
    MaxFollowers,  \* bound: followers of one container alive at the same time
    MaxChanges     \* bound: steps of the environment

ASSUME FollowerAssumption == MaxFollowers \in Nat \ {0} /\ MaxChanges \in Nat

VARIABLES
    stopped,      \* self._stop
    registered,   \* the keys of self._followers
    closer,       \* which follower's stream the value of a key closes, 0 if no stream
    followerPc,   \* where a follower is in _follow; "free" if there is no such thread
    stream,       \* the stream a follower reads: none, open, or ended
    spc,          \* where the scan thread is in _scan_loop
    todo,         \* the names it still has to consider
    starting,     \* the name it has registered and not yet started: {} or {n}
    mpc,          \* where the main thread is in stop()
    toClose,      \* the streams whose closers it has copied and not yet called
    container,    \* container[n]: absent, exited or running
    daemonUp,
    changes       \* steps of the environment so far

followVars == <<registered, closer, followerPc, stream>>
scanVars == <<spc, todo, starting>>
mainVars == <<stopped, mpc, toClose>>
envVars == <<container, daemonUp, changes>>
followersVars == <<followVars, scanVars, mainVars, envVars>>

\* <<n, k>> is a follower of n.  A thread that has ended leaves its place to a
\* later one: nothing refers to it but the list that stop() joins.
Slots == 1 .. MaxFollowers
Threads == Names \X Slots

Live == {t \in Threads : followerPc[t] # "free"}

FollowersTypeOK ==
    /\ stopped \in BOOLEAN
    /\ registered \in SUBSET Names
    /\ closer \in [Names -> {0} \cup Slots]
    /\ followerPc \in [Threads -> {"free", "top", "call", "register", "read", "present", "pop"}]
    /\ stream \in [Threads -> {"none", "open", "ended"}]
    /\ spc \in {"check", "list", "known", "spawn", "start", "done"}
    /\ todo \in SUBSET Names
    /\ starting \in SUBSET Names
    /\ mpc \in {"serving", "copy", "close", "returned"}
    /\ toClose \in SUBSET Threads
    /\ container \in [Names -> {"absent", "exited", "running"}]
    /\ daemonUp \in BOOLEAN
    /\ changes \in 0 .. MaxChanges

FollowersInit ==
    /\ stopped = FALSE
    /\ registered = {}
    /\ closer = [n \in Names |-> 0]
    /\ followerPc = [t \in Threads |-> "free"]
    /\ stream = [t \in Threads |-> "none"]
    /\ spc = "check"
    /\ todo = {}
    /\ starting = {}
    /\ mpc = "serving"
    /\ toClose = {}
    /\ container \in [Names -> {"absent", "exited", "running"}]
    /\ daemonUp = TRUE
    /\ changes = 0

-----------------------------------------------------------------------------
(* The scan thread: _scan_loop and _spawn.                                 *)

ScanCheck ==
    /\ spc = "check"
    /\ spc' = IF stopped THEN "done" ELSE "list"
    /\ UNCHANGED <<followVars, todo, starting, mainVars, envVars>>

\* backend.list(): the stopped containers too; a failure lists nothing.
ScanList ==
    /\ spc = "list"
    /\ todo' = IF daemonUp THEN {n \in Names : container[n] # "absent"} ELSE {}
    /\ spc' = "known"
    /\ UNCHANGED <<followVars, starting, mainVars, envVars>>

ScanKnown ==
    /\ spc = "known"
    /\ todo' = todo \ registered
    /\ spc' = "spawn"
    /\ UNCHANGED <<followVars, starting, mainVars, envVars>>

\* Faulty: the name is left for the follower to register.
SpawnUnregistered ==
    /\ spc = "spawn"
    /\ \E n \in todo : todo' = todo \ {n} /\ starting' = {n}
    /\ spc' = "start"
    /\ UNCHANGED <<registered, closer, followerPc, stream, mainVars, envVars>>

\* _spawn, up to the end of its locked section.
SpawnRegister ==
    /\ spc = "spawn"
    /\ \E n \in todo :
          /\ todo' = todo \ {n}
          /\ starting' = {n}
          /\ registered' = registered \cup {n}
          /\ closer' = [closer EXCEPT ![n] = 0]
    /\ spc' = "start"
    /\ UNCHANGED <<followerPc, stream, mainVars, envVars>>

\* thread.start().
SpawnStart ==
    /\ spc = "start"
    /\ \E n \in starting, k \in Slots :
          /\ followerPc[<<n, k>>] = "free"
          /\ \A j \in Slots : followerPc[<<n, j>>] = "free" => k <= j
          /\ followerPc' = [followerPc EXCEPT ![<<n, k>>] = "top"]
    /\ starting' = {}
    /\ spc' = "spawn"
    /\ UNCHANGED <<registered, closer, stream, todo, mainVars, envVars>>

ScanSleep ==
    /\ spc = "spawn"
    /\ todo = {}
    /\ spc' = "check"
    /\ UNCHANGED <<followVars, todo, starting, mainVars, envVars>>

Scan == ScanCheck \/ ScanList \/ ScanKnown \/ SpawnRegister \/ SpawnStart \/ ScanSleep

-----------------------------------------------------------------------------
(* Follower t: _follow.                                                    *)

\* Where it goes when its loop body is over: out if stopped.
UnlessStopped(next) == IF stopped THEN "pop" ELSE next

LoopTop(t) ==
    /\ followerPc[t] = "top"
    /\ followerPc' = [followerPc EXCEPT ![t] = UnlessStopped("call")]
    /\ UNCHANGED <<registered, closer, stream, scanVars, mainVars, envVars>>

\* backend.follow_logs(): a new stream, which ends at once unless the container
\* is running.  From here on a closer registered earlier closes nothing.
FollowLogs(t) ==
    /\ followerPc[t] = "call"
    /\ daemonUp
    /\ container[t[1]] # "absent"
    /\ stream' = [stream EXCEPT ![t] =
                     IF container[t[1]] = "running" THEN "open" ELSE "ended"]
    /\ closer' = [closer EXCEPT ![t[1]] = IF @ = t[2] THEN 0 ELSE @]
    /\ toClose' = toClose \ {t}
    /\ followerPc' = [followerPc EXCEPT ![t] = "register"]
    /\ UNCHANGED <<registered, scanVars, stopped, mpc, envVars>>

\* Faulty: an "except" too narrow for what a daemon restart raises.
FollowLogsKills(t) ==
    /\ followerPc[t] = "call"
    /\ ~daemonUp \/ container[t[1]] = "absent"
    /\ followerPc' = [followerPc EXCEPT ![t] = "free"]
    /\ UNCHANGED <<registered, closer, stream, scanVars, mainVars, envVars>>

FollowLogsFails(t) ==
    /\ followerPc[t] = "call"
    /\ ~daemonUp \/ container[t[1]] = "absent"
    /\ followerPc' = [followerPc EXCEPT ![t] = UnlessStopped("present")]
    /\ UNCHANGED <<registered, closer, stream, scanVars, mainVars, envVars>>

\* Faulty: setdefault, which keeps the closer of the first connection.
RegisterFirstCloser(t) ==
    /\ followerPc[t] = "register"
    /\ registered' = registered \cup {t[1]}
    /\ closer' = [closer EXCEPT ![t[1]] = IF t[1] \in registered THEN @ ELSE t[2]]
    /\ followerPc' = [followerPc EXCEPT ![t] = "read"]
    /\ UNCHANGED <<stream, scanVars, mainVars, envVars>>

RegisterCloser(t) ==
    /\ followerPc[t] = "register"
    /\ registered' = registered \cup {t[1]}
    /\ closer' = [closer EXCEPT ![t[1]] = t[2]]
    /\ followerPc' = [followerPc EXCEPT ![t] = "read"]
    /\ UNCHANGED <<stream, scanVars, mainVars, envVars>>

\* Faulty: the entry goes with the stream, and the reconnect restores it.
StreamEndsPops(t) ==
    /\ followerPc[t] = "read"
    /\ stream[t] = "ended"
    /\ stream' = [stream EXCEPT ![t] = "none"]
    /\ registered' = registered \ {t[1]}
    /\ followerPc' = [followerPc EXCEPT ![t] = UnlessStopped("present")]
    /\ UNCHANGED <<closer, scanVars, mainVars, envVars>>

\* The blocked read returns, or raises, because the stream has ended.
StreamEnds(t) ==
    /\ followerPc[t] = "read"
    /\ stream[t] = "ended"
    /\ stream' = [stream EXCEPT ![t] = "none"]
    /\ followerPc' = [followerPc EXCEPT ![t] = UnlessStopped("present")]
    /\ UNCHANGED <<registered, closer, scanVars, mainVars, envVars>>

\* The container writes, and the follower finds that it is stopped.
FrameAfterStop(t) ==
    /\ followerPc[t] = "read"
    /\ stream[t] = "open"
    /\ stopped
    /\ stream' = [stream EXCEPT ![t] = "none"]
    /\ followerPc' = [followerPc EXCEPT ![t] = "pop"]
    /\ UNCHANGED <<registered, closer, scanVars, mainVars, envVars>>

\* Faulty: a failure counts as present.
PresentUnlessProvenGone(t) ==
    /\ followerPc[t] = "present"
    /\ followerPc' = [followerPc EXCEPT ![t] = "top"]
    /\ UNCHANGED <<registered, closer, stream, scanVars, mainVars, envVars>>

\* _still_present: any failure counts as gone.
StillPresent(t) ==
    /\ followerPc[t] = "present"
    /\ followerPc' = [followerPc EXCEPT ![t] =
                  IF daemonUp /\ container[t[1]] # "absent" THEN "top" ELSE "pop"]
    /\ UNCHANGED <<registered, closer, stream, scanVars, mainVars, envVars>>

Deregister(t) ==
    /\ followerPc[t] = "pop"
    /\ registered' = registered \ {t[1]}
    /\ followerPc' = [followerPc EXCEPT ![t] = "free"]
    /\ UNCHANGED <<closer, stream, scanVars, mainVars, envVars>>

\* The steps that do not wait for the container to write.
Follow(t) == LoopTop(t) \/ FollowLogs(t) \/ FollowLogsFails(t) \/ RegisterCloser(t)
             \/ StreamEnds(t) \/ StillPresent(t) \/ Deregister(t)

-----------------------------------------------------------------------------
(* The main thread: stop().                                                *)

SetStop ==
    /\ mpc = "serving"
    /\ stopped' = TRUE
    /\ mpc' = "copy"
    /\ UNCHANGED <<followVars, scanVars, toClose, envVars>>

CopyClosers ==
    /\ mpc = "copy"
    /\ toClose' = {t \in Threads : t[1] \in registered /\ closer[t[1]] = t[2]}
    /\ mpc' = "close"
    /\ UNCHANGED <<followVars, scanVars, stopped, envVars>>

CallCloser ==
    /\ mpc = "close"
    /\ \E t \in toClose :
          /\ toClose' = toClose \ {t}
          /\ stream' = [stream EXCEPT ![t] = IF @ = "open" THEN "ended" ELSE @]
    /\ UNCHANGED <<registered, closer, followerPc, scanVars, stopped, mpc, envVars>>

\* Faulty: the threads are joined before the closers are called.
JoinFirst ==
    /\ mpc = "close"
    /\ mpc' = "returned"
    /\ UNCHANGED <<followVars, scanVars, stopped, toClose, envVars>>

\* The joins: each waits at most 5 seconds, whatever its thread does.
Join ==
    /\ mpc = "close"
    /\ toClose = {}
    /\ mpc' = "returned"
    /\ UNCHANGED <<followVars, scanVars, stopped, toClose, envVars>>

Stopping == CopyClosers \/ CallCloser \/ Join

-----------------------------------------------------------------------------
(* The daemon and its containers.                                          *)

Change ==
    /\ changes < MaxChanges
    /\ changes' = changes + 1
    /\ UNCHANGED <<registered, closer, followerPc, scanVars, mainVars>>

EndStreams(names) == stream' = [t \in Threads |->
    IF stream[t] = "open" /\ t[1] \in names THEN "ended" ELSE stream[t]]

ContainerStarts(n) ==
    /\ Change
    /\ daemonUp
    /\ container[n] # "running"
    /\ container' = [container EXCEPT ![n] = "running"]
    /\ UNCHANGED <<stream, daemonUp>>

ContainerExits(n) ==
    /\ Change
    /\ container[n] = "running"
    /\ container' = [container EXCEPT ![n] = "exited"]
    /\ EndStreams({n})
    /\ UNCHANGED daemonUp

ContainerRemoved(n) ==
    /\ Change
    /\ daemonUp
    /\ container[n] # "absent"
    /\ container' = [container EXCEPT ![n] = "absent"]
    /\ EndStreams({n})
    /\ UNCHANGED daemonUp

DaemonGoesDown ==
    /\ Change
    /\ daemonUp
    /\ daemonUp' = FALSE
    /\ EndStreams(Names)
    /\ UNCHANGED container

DaemonComesBack ==
    /\ Change
    /\ ~daemonUp
    /\ daemonUp' = TRUE
    /\ UNCHANGED <<stream, container>>

Environment ==
    \/ \E n \in Names : ContainerStarts(n) \/ ContainerExits(n) \/ ContainerRemoved(n)
    \/ DaemonGoesDown
    \/ DaemonComesBack

-----------------------------------------------------------------------------

FollowersNext ==
    \/ Scan
    \/ \E t \in Threads : Follow(t) \/ FrameAfterStop(t)
    \/ SetStop
    \/ Stopping
    \/ Environment

\* The threads are scheduled and their waits are bounded.  A container need
\* never write, nobody need call stop(), and the environment owes nothing.
FollowersFairness ==
    /\ WF_followersVars(Scan)
    /\ \A n \in Names : WF_followersVars(\E k \in Slots : Follow(<<n, k>>))
    /\ WF_followersVars(Stopping)

FollowersSpec == FollowersInit /\ [][FollowersNext]_followersVars /\ FollowersFairness

-----------------------------------------------------------------------------
(* Correctness.                                                            *)

\* No container has two followers at once, so no line is captured twice: the
\* scan works on a list and on a copy of the keys that may be out of date when
\* it spawns.
OneFollowerPerContainer ==
    \A t, u \in Live : t[1] = u[1] => t = u

\* A follower that lives is in the dictionary until its last step, through
\* its reconnects: or the next scan would start a second one.
LiveIsRegistered == \A t \in Live : t[1] \in registered

\* A follower parked in a read can be unblocked: the dictionary holds the
\* closer of the very stream it reads, not that of an earlier connection.
ReaderCanBeClosed ==
    \A t \in Threads : followerPc[t] = "read" =>
        t[1] \in registered /\ closer[t[1]] = t[2]

Following(n) == \E k \in Slots : followerPc[<<n, k>>] = "read" /\ stream[<<n, k>>] = "open"

\* A running container is followed, whatever happened before: a follower
\* that gave up during an outage or a removal is replaced by a later scan.
RunningIsFollowed ==
    \A n \in Names :
        (container[n] = "running" /\ daemonUp)
            ~> (Following(n) \/ container[n] # "running" \/ ~daemonUp \/ stopped)

\* The follower of a container that was removed ends and leaves no entry.
RemovedIsForgotten ==
    \A n \in Names :
        container[n] = "absent" ~> (n \notin registered \/ container[n] # "absent")

\* A follower that is in its read when stop() copies the closers ends, even
\* if its container never writes again.
StopEndsReaders ==
    \A t \in Threads : (mpc = "copy" /\ followerPc[t] = "read") ~> followerPc[t] = "free"

\* "Unblock every follower: they are parked in a socket read with the timeout
\* disabled, so nothing short of closing the response returns" (the comment in
\* stop): after stop() every follower ends.
StopEndsEveryFollower ==
    \A t \in Threads : mpc = "returned" ~> followerPc[t] = "free"
=============================================================================
