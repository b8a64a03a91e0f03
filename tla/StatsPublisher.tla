---------------------------- MODULE StatsPublisher ----------------------------
(***************************************************************************)
(* The thread that publishes what the running containers consume (class    *)
(* ContainerStatsPublisher) and the differencing of their counters         *)
(* (build_resource_usage, read_stats_sample, _rate).                       *)
(*                                                                         *)
(* A sweep lists the running containers and reads their counters one by    *)
(* one, each at its own instant, while the containers go on working, exit, *)
(* restart and are replaced.  A rate is the difference from the reading    *)
(* that the last complete sweep kept under the same id.                    *)
(*                                                                         *)
(* Counters start at zero with each run of a container.  A rate stands for *)
(* the difference it divides; the clock, which only says by what, is left  *)
(* out.  A reading carries, for the properties, what the container has     *)
(* really done since.                                                      *)
(***************************************************************************)
EXTENDS Naturals

CONSTANTS
    Ids,
    NameOf,       \* the name of each container, in the order of names: a recreated one
                  \* has that of the old one
    Kinds, Cpu,   \* the counters; the one for CPU time is always there
    Counted,      \* Counted[c]: the counters that the runtime has for c
    MaxWork,      \* bound: increments of counters
    MaxChanges,   \* bound: starts, exits and removals
    MaxFailures   \* bound: calls to the daemon and puts that raise

ASSUME StatsAssumption ==
    /\ NameOf \in [Ids -> Nat]
    /\ Cpu \in Kinds
    /\ Counted \in [Ids -> {K \in SUBSET Kinds : Cpu \in K}]
    /\ MaxWork \in Nat /\ MaxChanges \in Nat /\ MaxFailures \in Nat

VARIABLES
    status,    \* status[c]: none (not created yet), exited, running or removed
    counter,   \* counter[c][k]: what c has used in its present run
    stop,      \* self._stop
    ppc,       \* where the thread is in _loop
    todo,      \* the listed containers it has not read yet
    samples,   \* the readings of this sweep
    entries,   \* the rows of this sweep
    previous,  \* self._previous
    published, \* the rows of the last message
    steady,    \* history: running, with CPU time used, ever since the listing
    unread,    \* history: the containers whose reading failed in this sweep
    work, changes, failures

host == <<status, counter>>
sweep == <<todo, samples, entries>>
history == <<steady, unread>>
counters == <<work, changes, failures>>
vars == <<host, stop, ppc, sweep, previous, published, history, counters>>

Amount == 0 .. MaxWork + 1

\* A StatsSample; done is what the container has really used since.
StatsSamples == [id : Ids, total : UNION {[K -> Amount] : K \in SUBSET Kinds},
                 done : [Kinds -> Amount]]

Unset == [set |-> FALSE, delta |-> 0]
Rates == {Unset} \cup [set : {TRUE}, delta : Amount]

\* The rows of a ContainerHostStats; in a sweep, with the reading that each one
\* was differenced against.
Rows == [id : Ids, rate : [Kinds -> Rates]]
Usages == [id : Ids, rate : [Kinds -> Rates], before : SUBSET StatsSamples]

TypeOK ==
    /\ status \in [Ids -> {"none", "exited", "running", "removed"}]
    /\ counter \in [Ids -> [Kinds -> Amount]]
    /\ stop \in BOOLEAN
    /\ ppc \in {"check", "list", "read", "publish", "wait", "done"}
    /\ todo \in SUBSET Ids
    /\ samples \in SUBSET StatsSamples
    /\ entries \in SUBSET Usages
    /\ previous \in SUBSET StatsSamples
    /\ published \in SUBSET Rows
    /\ steady \in SUBSET Ids
    /\ unread \in SUBSET Ids
    /\ work \in 0 .. MaxWork
    /\ changes \in 0 .. MaxChanges
    /\ failures \in 0 .. MaxFailures

Nothing == [k \in Kinds |-> 0]

\* A container that runs at the start has used some CPU time.
Init ==
    /\ status \in [Ids -> {"none", "exited", "running"}]
    /\ \A c, d \in Ids : status[c] # "none" /\ status[d] # "none" /\ NameOf[c] = NameOf[d]
                            => c = d
    /\ counter = [c \in Ids |-> IF status[c] = "running" THEN [Nothing EXCEPT ![Cpu] = 1]
                                                         ELSE Nothing]
    /\ stop = FALSE
    /\ ppc = "check"
    /\ todo = {} /\ samples = {} /\ entries = {}
    /\ previous = {} /\ published = {}
    /\ steady = {} /\ unread = {}
    /\ work = 0 /\ changes = 0 /\ failures = 0

-----------------------------------------------------------------------------
(* One reading: build_resource_usage.                                      *)

\* Faulty: keyed by name.
SameNameKey(c, s) == NameOf[s.id] = NameOf[c]

\* What the differencing finds under: the cache is keyed by id.
SameKey(c, s) == s.id = c

Before(c) == {s \in previous : SameKey(c, s)}

\* _rate, and the same for the CPU: no rate without a reading to compare with,
\* nor if the counter went backwards.
RateSince(now, then) == IF now >= then THEN [set |-> TRUE, delta |-> now - then] ELSE Unset

\* The counters of a reading: those of the network and of the block devices may
\* be missing, which is not zero.
Totals(c) == [k \in Counted[c] |-> counter[c][k]]

Rate(c, k) ==
    IF Before(c) = {} THEN Unset
    ELSE LET then == (CHOOSE s \in Before(c) : TRUE).total
             now == Totals(c)
         IN IF k \in DOMAIN now \cap DOMAIN then THEN RateSince(now[k], then[k]) ELSE Unset

Usage(c) == [id |-> c, rate |-> [k \in Kinds |-> Rate(c, k)], before |-> Before(c)]

StatsSample(c) == [id |-> c, total |-> Totals(c), done |-> Nothing]

-----------------------------------------------------------------------------
(* The thread: _loop and _sweep.                                           *)

Check ==
    /\ ppc = "check"
    /\ ppc' = IF stop THEN "done" ELSE "list"
    /\ UNCHANGED <<host, stop, sweep, previous, published, history, counters>>

Failure ==
    /\ failures < MaxFailures
    /\ failures' = failures + 1
    /\ UNCHANGED <<work, changes>>

EndSweep(next) ==
    /\ ppc' = next
    /\ todo' = {} /\ samples' = {} /\ entries' = {}
    /\ steady' = {} /\ unread' = {}
    /\ UNCHANGED <<host, stop>>

ListRunning ==
    /\ ppc = "list"
    /\ todo' = {c \in Ids : status[c] = "running"}
    /\ steady' = {c \in Ids : status[c] = "running" /\ counter[c][Cpu] > 0}
    /\ ppc' = "read"
    /\ UNCHANGED <<host, stop, samples, entries, previous, published, unread, counters>>

\* A tick that raised leaves the previous readings in place.
ListFails ==
    /\ ppc = "list"
    /\ Failure
    /\ EndSweep("wait")
    /\ UNCHANGED <<previous, published>>

\* The sweep goes through them in the order of their names.
Turn(c) == ppc = "read" /\ c \in todo /\ \A d \in todo : NameOf[c] <= NameOf[d]

Read(c) ==
    /\ Turn(c)
    /\ status[c] = "running" /\ counter[c][Cpu] > 0
    /\ todo' = todo \ {c}
    /\ entries' = entries \cup {Usage(c)}
    /\ samples' = samples \cup {StatsSample(c)}
    /\ UNCHANGED <<host, stop, ppc, previous, published, history, counters>>

\* It has exited, or has just started: the body is empty, and there is no row.
ReadsNothing(c) ==
    /\ Turn(c)
    /\ status[c] \in {"running", "exited"} /\ counter[c][Cpu] = 0
    /\ todo' = todo \ {c}
    /\ UNCHANGED <<host, stop, ppc, samples, entries, previous, published, history, counters>>

\* Faulty: the first failure ends the sweep.
ReadFailsForAll(c) ==
    /\ Turn(c)
    /\ \/ Failure
       \/ status[c] = "removed" /\ UNCHANGED counters
    /\ todo' = {}
    /\ unread' = unread \cup {c}
    /\ UNCHANGED <<host, stop, ppc, samples, entries, previous, published, steady>>

ReadFails(c) ==
    /\ Turn(c)
    /\ \/ Failure
       \/ status[c] = "removed" /\ UNCHANGED counters
    /\ todo' = todo \ {c}
    /\ unread' = unread \cup {c}
    /\ UNCHANGED <<host, stop, ppc, samples, entries, previous, published, steady>>

\* Faulty: a reading is kept only if there is none yet.
KeepFirst ==
    /\ ppc = "read"
    /\ todo = {}
    /\ previous' = previous \cup {s \in samples : \A r \in previous : r.id # s.id}
    /\ samples' = {}
    /\ ppc' = "publish"
    /\ UNCHANGED <<host, stop, todo, entries, published, history, counters>>

\* self._previous = samples: before the put, and whatever becomes of it.
Keep ==
    /\ ppc = "read"
    /\ todo = {}
    /\ previous' = samples
    /\ samples' = {}
    /\ ppc' = "publish"
    /\ UNCHANGED <<host, stop, todo, entries, published, history, counters>>

Publish ==
    /\ ppc = "publish"
    /\ \/ published' = {[id |-> u.id, rate |-> u.rate] : u \in entries} /\ UNCHANGED counters
       \/ Failure /\ UNCHANGED published
    /\ EndSweep("wait")
    /\ UNCHANGED previous

\* self._stop.wait(interval_s).
Wait ==
    /\ ppc = "wait"
    /\ ppc' = "check"
    /\ UNCHANGED <<host, stop, sweep, previous, published, history, counters>>

Loop == Check \/ ListRunning \/ ListFails \/ (\E c \in Ids : Read(c) \/ ReadsNothing(c) \/ ReadFails(c))
        \/ Keep \/ Publish \/ Wait

Stop ==
    /\ ~stop
    /\ stop' = TRUE
    /\ UNCHANGED <<host, ppc, sweep, previous, published, history, counters>>

-----------------------------------------------------------------------------
(* The containers.                                                         *)

Worked(readings, c, k) ==
    {IF s.id = c THEN [s EXCEPT !.done[k] = @ + 1] ELSE s : s \in readings}

Works(c, k) ==
    /\ status[c] = "running" /\ k \in Counted[c]
    /\ work < MaxWork
    /\ work' = work + 1
    /\ counter' = [counter EXCEPT ![c][k] = @ + 1]
    /\ previous' = Worked(previous, c, k) /\ samples' = Worked(samples, c, k)
    /\ UNCHANGED <<status, stop, ppc, todo, entries, published, history, changes, failures>>

\* It is started, it exits, or it is removed.  Two containers never have the
\* same name at the same time.
Becomes(c, s) ==
    /\ changes < MaxChanges
    /\ changes' = changes + 1
    /\ status' = [status EXCEPT ![c] = s]
    /\ counter' = [counter EXCEPT ![c] = Nothing]
    /\ steady' = steady \ {c}
    /\ UNCHANGED <<stop, ppc, sweep, previous, published, unread, work, failures>>

Starts(c) ==
    /\ status[c] \in {"none", "exited"}
    /\ \A d \in Ids \ {c} : NameOf[d] = NameOf[c] => status[d] \in {"none", "removed"}
    /\ Becomes(c, "running")

Exits(c) == status[c] = "running" /\ Becomes(c, "exited")

Removed(c) == status[c] \in {"exited", "running"} /\ Becomes(c, "removed")

Next ==
    \/ Loop
    \/ Stop
    \/ \E c \in Ids : Starts(c) \/ Exits(c) \/ Removed(c) \/ \E k \in Kinds : Works(c, k)

\* The thread is scheduled and its waits end.
Spec == Init /\ [][Next]_vars /\ WF_vars(Loop)

-----------------------------------------------------------------------------
(* Correctness.                                                            *)

\* "A spike that never happened" is never in a row: a rate counts at most what
\* this very container did since the reading it is compared with, however many
\* sweeps failed, and through restarts and recreates under the same name.
NoSpike ==
    \A u \in entries : \A s \in u.before :
        /\ s.id = u.id
        /\ \A k \in Kinds : u.rate[k].set => u.rate[k].delta <= s.done[k]

\* A container costs its own row and nothing else: one that ran all through
\* the sweep, and could be read, has a row, whatever became of the others.
RunningHasRow ==
    ppc = "publish" => steady \ unread \subseteq {u.id : u \in entries}

\* A container that goes on running gets a CPU rate in the end, whatever
\* failed or was restarted before.
RatesComeBack ==
    \A c \in Ids :
        <>[](status[c] = "running" /\ counter[c][Cpu] > 0 /\ ~stop)
            => <>[](\E u \in published : u.id = c /\ u.rate[Cpu].set)
=============================================================================
