# keelson-interface-docker: models and proofs

TLA+ models of the responder that exposes a Docker host on keelson (procedures
over zenoh to list, control and read the logs of containers, to edit a checkout
of platform files, and three published subjects: `container_status`,
`container_logs`, `container_stats`). TLC checks the models on small instances;
TLAPS proves nearly all of their safety properties for every instance.

Source files are named relative to `src/src/keelson_interface_docker/`.

## The system

One process. Procedures run on zenoh's callback threads, several at a time
(ContainerControl gives each procedure one thread; PlatformWrite, following the
comment at `platform_write.py:9`, any number); each publisher adds threads. They share the Docker client, the
checkout and, inside one component, a few dictionaries, a queue and an event.

| Component | State | Operations | Hard behaviour | What makes it correct |
|---|---|---|---|---|
| Log capture, queue (`logs_follower.py`) | bounded queue, drop counter, stop event | `_enqueue` in every follower, `_publish_loop` | eviction and insertion are two steps; the slot can be taken in between | no line twice, out of order or lost uncounted; nobody waits for anybody |
| Log capture, threads (`logs_follower.py`, `backend._closer_for`) | dictionary name → closer, a thread per container | `_scan_loop`, `_spawn`, `_follow`, `_still_present`, `stop` | decisions on stale lists; blocking reads that only a closer ends; outages | one follower per container, every parked read can be ended, what runs is followed |
| Log capture, lines (`LineBuffer`, `RateLimiter`, `_emit`, `backend.follow_logs`) | half a line, window and count, suppressed count, resume point | open, feed, flush, allow, note, reopen | streams break inside a line; the boundary second is read again; a note waits for a next line | nothing is skipped that tail and resume point reach, suppression is reported exactly, one fault damages one line |
| write_file (`platform_handlers.py`, `platform_write.py`) | the checkout, `TREE_LOCK`, temporary files | guard, `check_base_sha`, `atomic_write`, reply | races, failures half way, kills, power losses, writers outside the lock | compare-and-swap, never a torn file, nothing left behind unreported, truthful answers |
| Status publisher (`status_publisher.py`, `backend.list`) | last digest, sequence, age | snapshot, publish on change, heartbeat | the host changes during the snapshot; a failed image request is swallowed; lost samples; failures in every step | every change is sent in the end, no sample claims what was not so |
| Stats publisher (`stats_publisher.py`, `model.py`) | the readings of the last sweep | sweep, difference, publish | counters restart; names are reused; a container vanishes in the sweep | no rate above what happened, no row lost to another container |
| Container control (`handlers.py`, `backend.py`, `guard.py`, `selfid.py`, `app.py`) | none between calls; the guard | start, stop, restart, remove, list's flags | decide on an address, look it up, act on the id: the container changes in between, and the runtime resolves more addresses than the guard knows | only what the guard allows is touched; replies say what was done |
| list, logs (`handlers.py`, `backend.py`, `model.py`) | none | clamp, fetch twice, merge, cap | the container writes between the fetches; lines without a timestamp; two ceilings | the newest window, whole, flagged when cut |
| Checkout, read side (`platform_repo.py`, `platform_handlers.py`) | none | list_entities, list_files, read_file, repo_status | five git commands and a walk through a tree that people change; git fails; links; truncated reads | marks, totals and flags are right for what held still; a save replaces what its caller saw, up to the gap between compare and rename |
| Path jail and guard (`platform_paths.py`, `platform_guard.py`) | none | resolve, match, decide | links, `**` at the edges | a glob allows what it means and nothing else |
| Translation (`model.py`) | none | rows from the daemon's JSON | missing fields | unset is not zero |
| Startup, health (`app.py`, `cli.py`, `health.py`) | none | wiring | failure of the self-lookup | control only with a known identity |

Interactions: the publishers and the control procedures meet only at the Docker
daemon, which every model treats as an environment that changes containers
between any two requests and (within a bound) fails; the reading procedures and
write_file meet in the checkout, with whoever else works there; followers, scan, publisher
and `stop()` share memory, and those models interleave at every shared access.

## Modules

| Module | Stands for |
|---|---|
| `LogChannel` | the promise of log capture: a lossy channel in order, per container |
| `LogQueue` | `_emit`/`_enqueue` split at each queue call, `_publish_loop`, the counter, `stop`. An item is a container and the number of its line |
| `LogFollower` | scan, spawn, follower and `stop` threads, closers, containers that come and go, daemon outages. `followerPc[<<n, k>>]` is where the k-th follower thread of name `n` is in `_follow`; `spc` and `mpc` the same for the scan and for `stop()` |
| `LogCaptureProofs` | the theorems of `LogQueue` and `LogFollower` |
| `LogStream` | one container's log from the runtime to the queue: `follow_logs` with since and tail, `LineBuffer`, `RateLimiter`, `_emit`, the rounds of `_follow`, respawned followers. A line is its number, in two pieces that a fault can separate, and may come without a timestamp; time is in seconds, as since is |
| `LogStreamProofs` | its theorems |
| `LogRead` | `handle_logs`: the clamped request, two fetches while the container writes (the runtime counts the tail over both streams and filters then), `merge_log_lines`, `cap_log_lines`, the reply |
| `LogReadProofs` | its theorems |
| `FileStore` | the promise of write_file: a compare-and-swap store whose crashes keep or undo a whole save and whose answers, INTERNAL excepted, say what happened |
| `PlatformWrite` | the handler thread by thread from the guard to the reply, `TREE_LOCK`, the temporary file with its writing and its fsync, the clean-up and the unlink that may fail, the status read after the rename and how it fails, the tree and the disk (which may record a rename before the content), kills and power losses |
| `PlatformWriteProofs` | its theorems |
| `PathJail` | `resolve` with links, `path_matches` and what a glob means, the two decisions of `FileGuard`. A path is the sequence of its parts, a segment the set of names it accepts |
| `PlatformRead` | list_entities, list_files, read_file and repo_status step by step, with the commands of `read_state`, people who edit, stage, commit, push and fetch in between, and a caller that saves what it read, compare and rename apart |
| `PlatformReadProofs` | its theorems |
| `StatusPublisher` | the loop with its snapshot request by request (the list, an inspect and an image for each container), digest, trigger, sequence, a subscriber that loses samples or joins late, restarts |
| `StatsPublisher` | the sweep reading by reading, the cache, `_rate`, containers that work, restart and are recreated |
| `ContainerControl` | the four procedures step by step (guard, lookup, act, reload, reply), the identity found at startup, the addresses that the runtime resolves (names, ids, abbreviated ids), containers that others alter, rename, remove and create, and the end of the responder when a call hits its own container |
| `StatusPublisherProofs`, `StatsPublisherProofs`, `ContainerControlProofs` | the theorems of the last three |
| `MC...` | constants of the checked instances, and for ContainerControl and StatsPublisher the initial hosts, for PlatformRead the initial trees, links, guards and calls worth starting from |

Every action stands for the code between two points where another thread or the
daemon can intervene; `PROJECT.json` gives the lines of each definition.
Definitions marked "Faulty" are what a plausible mistake would turn the next
definition into; no specification uses them. They show that the property named
beside them in `PROJECT.json` notices the mistake.

## What the runs check

Passing runs:

- **log_queue** (two followers, a queue of two, three lines each). Through every
  interleaving of put, evict and retry with the publisher, a container's lines
  are published in order, the whole implements `LogChannel` (a lossy channel),
  what the queue discards is in the counter or about to be, and the queue keeps
  moving. Two followers are the smallest
  number in which one takes the slot another freed; three lines overflow it again
  after that.
- **log_follower** (one container, two thread slots, five changes). No second
  follower, a live follower is registered, the registered closer ends the read
  that is parked; a running container ends up followed after any outage, a
  removed one forgotten, `stop()` ends the reads whose closers it has copied.
  The second slot is there to be wrongly used. Several containers are covered by
  the proofs.
- **log_stream** (a tail of two, two lines in a second, three lines in two
  seconds, one of them without a timestamp, two faults, one respawn). A line that
  is passed over was, when some stream was opened, beyond the tail or older than
  the time of emission at which a line without a timestamp had put the resume
  point; a reopened stream repeats lines of the boundary second only; before a
  published line a note gives the number suppressed since the last one; a broken
  or ended stream damages one line at most; the last line of a container that
  falls silent is published, suppressed and counted, or passed over for that
  same reason. Three lines let one second overflow and leave a next line to carry
  the note; two faults make a break follow an end.
- **log_read** (four lines of two sizes in three instants, two of them in one
  second, one without timestamp, tails below, at and above the ceiling, a byte
  ceiling of three). A line that was there when the call began, and is among the
  newest tail_lines still when the last stream is fetched, is in the answer, or
  the byte ceiling has cut it off and the flag says so; put together the fetched
  lines are one story, every line once, in order of time, a line without a
  timestamp next to its own; the answer is the longest run that both ceilings
  allow, flagged if the byte ceiling has dropped lines, and not if nothing was
  dropped. Four lines and a tail of two let two lines come between the fetches.
- **platform_write** (two threads, one writable path and one that is not, two
  contents, three requests, one crash). A rename replaces only the version the
  base names; no file is ever torn, in the tree or on the disk; a temporary file
  is left behind only by a crash or by a request answered INTERNAL; the handler
  implements `FileStore`; every request is answered, unless the process dies
  first. The third request can follow the crash or the race.
- **files** (two entities of two files, a link inside the root and one that leaves
  it, read-only and writable guards, contents that parse, do not parse and exceed the
  limit, two changes by people, a read and a save after it). For whatever nobody
  touched during the call: marks say what is uncommitted, service counts are
  totals or absent, listings are complete, flags mean what the globs mean. The
  state is that of one head unless the head moved, and a save replaces the bytes
  its caller was given, also after a truncated read, or what somebody wrote
  between its comparison and its rename. Two changes allow
  one before the call reads and one between two of its steps, and with the two
  initial trees (which differ by a moved file) cover staged renames.
- **status** (two containers, both there or one still to come, two states, images
  that lose and get back their tag, two changes, one failure, one loss, one
  restart, heartbeat every two ticks, sequence modulo two). After a good tick
  the last sample shows what the tick saw; the state and the image of a row were
  so at some moment of the snapshot, but for an image the daemon failed to tell,
  where the row names what the container was created with; a container that was
  there throughout has a row; a heartbeat means no change to a subscriber with
  the previous sample of that process; a subscriber catches up in the end.
- **stats** (a container, its recreated successor under the same name, a third
  one on the host's network; two increments, two changes, one failure). A rate
  never exceeds what that container did since the reading; a container that ran
  and could be read has its row whatever happened to the others; rates come back
  after failures and restarts. Two increments are enough to pass the old reading after a restart or a recreate.
- **control** (the responder and two containers, one created with `--rm`, an
  abbreviation that two ids share, everything allowed and nothing removable, or
  one name allowed and everything removable, a lookup at startup that may fail,
  two calls at once, two changes). A call acts on the own container only by an
  address the responder does not know: if it knows its container, an abbreviation
  of the id other than the 12-character one, or a new name; only containers that
  bore an allowed address during the call are touched; a reply OK names what was
  acted on, a refusal means that nothing was done, and so does the NOT_FOUND of a
  removal; a running container is removed only with force.

Runs in which TLC finds a disagreement with what the repository says (the
quotations are under "findings" in `PROJECT.json`):

- **log_follower_stop**: a follower that opens its stream while `stop()` copies
  the closers stays parked in its read; its thread is a daemon thread, so the
  cost is the timeout of the join.
- **log_stream_gap**: a reconnect passes `--follow-tail` along with since, and its
  default is 0, so the runtime starts at the end: the lines written while the
  stream was down are skipped. `NoGapWithinTail` says what holds instead.
- **control_partial**: with `--allow '*'`, stop, restart or remove by an
  abbreviation of the responder's own id (other than the 12-character one) ends
  it: the handlers ask the guard with the requested name alone
  (`handlers.py:163`, `180`), before the lookup, and the guard compares it with
  the spellings it knows, while the runtime resolves any abbreviation. The
  prefix rule of `is_self` (`guard.py:148`) works on an id, which they do not pass.

Deadlock is not checked: after `stop()`, with no call open, or once the bounds are
used up, the systems really rest. The liveness properties say what must happen before.

## Bounds

All bounds are constants named `Max...` and guard actions of the environment
(changes of containers or of the checkout, failures, losses, crashes, requests,
lines, time); the actions
of the code have none, except `MaxFollowers`, the number of thread slots of a
name, which `OneFollowerPerContainer` shows to need one. `Wrap` is the modulus
of the sequence number, there to keep restarts finite; it is above `MaxLosses`. Liveness properties of
the form "in the end" rely on these bounds as "the environment is quiet at
last", which is what the code promises things under: it retries on every tick.

The largest runs are `files` (2.0 million states), `control` and `log_read` (1.6
million each) and `status` (1.2 million); each takes two minutes or less with two
workers. In `StatusPublisher` the containers of a listing are read in one order,
which is fixed, and `stop()` is noticed only where the loop looks at it.

## Fairness

Weak fairness of each thread, and nothing of the environment: a thread that can
go on is scheduled, and its timed waits (`Event.wait`, `queue.get` with a
timeout) end. A blocking read of a log stream is not fair: it ends only if the
container, the daemon or a closer ends it. In `LogStream` the steps of `_follow`
are fair together, because lines that are there are read and a round ends with a
timed wait; faults, new lines and the clock are not. Arrival of calls, changes of
containers, delivery of samples, crashes and `stop()` are not fair. Weak
fairness is enough for `TREE_LOCK`, though Python's lock is not fair, because
requests are finite in the checked instance; under endless contention a thread
could starve.

## What is proved

With TLAPS, for any containers, followers, paths, threads, capacities, rates and
bounds (the `ASSUME`s ask for types, for finite sets where things are counted, and
in `PlatformWrite` that different contents have different digests):

- **LogCaptureProofs**, of `LogQueue`: `TypeOK`, `EveryLineInOnePlace`,
  `PublishedInOrder`, `EveryDropCounted`, and `Spec => ImplementsChannel`. Order is
  not inductive: the invariant `Sorted` says that along the way of a line
  (published, held, queued, pending) a container's numbers ascend. It needs that a
  pending line is the latest of its container and nowhere else, so it is proved
  together with `EveryLineInOnePlace`. Of `LogFollower`: `FollowersTypeOK`,
  `OneFollowerPerContainer`, `LiveIsRegistered`, `ReaderCanBeClosed`, inductive only
  together with what the scan thread knows: a name it will spawn is unregistered,
  one it has registered and not started has no follower.
- **LogStreamProofs**: `TypeOK`, `NoGapWithinTail`, `NotesFillTheGaps`,
  `CutsNeedAFault`, `RepeatsAreBoundary`. That a line
  was delivered or beyond the tail is not inductive across a reopening, which
  starts at the resume point: it needs that a stream never starts behind a line
  no tail let go (`Resume`, from `Covered` and the times of lines being in order,
  `Timely`). Notes are exact because the limiter's pending count is the length of
  the run of suppressed decisions at the end (`Trailing`), which a new follower
  begins again, and which is empty without a limit (`Unlimited`). Damaged pieces are
  counted with a buffer that a fault has left in disorder as one fault in stock
  (`Cuts`). Repetitions are bounded by the resume point: nothing handed over is
  younger, and what is held, still to be delivered or still to be written is not
  older (`Forward`).
- **LogReadProofs**: `TypeOK`, `OneStory`, `LongestWindow`,
  `NothingRecentIsMissing`. What was fetched
  of a stream keeps the order of the log, and holds every line of it that was
  asked for and is among the newest of the whole log when it is fetched
  (`FetchedSoFar`); the container may write between the two fetches. Of the lines
  that are younger than such a line there are fewer than the tail, so the ceiling
  of lines cannot cut it off. The merge rests on
  lemmas about its operators: `Sorted` lists a finite set in a given order, the
  carried timestamps of a stream do not fall, `LastOf`, and the bytes of an end.
- **PlatformWriteProofs**: `TypeOK`, `NothingLeftBehind`, `NeverTorn`,
  `NoLostUpdate`, and `Spec => ImplementsStore`. The lock has one holder
  (`LockHeld`), so what the comparison established lasts until the rename
  (`BaseHolds`). What is renamed is the whole content, and synced (`TempsReady`),
  so no name ever waits for its content on the disk (`WholeFiles`). What a request
  leaves behind is left at its end (`LeftAtTheEnd`).
- **PlatformReadProofs**: `TypeOK`, `NothingUnseenIsLost`, `DivergenceOfTheHead`,
  `DirtyMarks`, `ListsWhatIsThere`, `FlagsSayWhatGlobsMean`, `CountsAreTotals`.
  The sha a caller holds is that of the content it was given (`Honest`), of a
  truncated file too, so a save that passes the comparison replaces just that,
  unless the file is touched before the rename.
  For the git state, each command adds a part that is so unless the head moved
  (`Diverges`, along the steps in `Where`); that there is no divergence without
  an upstream belongs to it, for the commands then fail or are not run. The two
  properties of the listings rest on what a step leaves of what is untouched
  (`Held`): from `git status` on the marks agree with every steady file and
  entity, in the status and then in what is listed (`Marks`); and a steady entity
  or file is there exactly if it is listed or still to be listed (`Lists`). A name
  that git prints with escapes is taken to be the name of no file
  (`TreeAssumption`). The recursive matching of a glob is what the glob means by
  descent: of the pairs of a glob and a path on which they differed, one with the
  shortest rests would exist, and unfolding both definitions refutes it
  (`MatchingMeans`); the flags follow from it and from where the links lead (`Flags`).
  For the totals, a sum over a finite set of files is shown to exist and not to
  depend on the order in which it is taken; what is counted and what is left are
  together the compose files of the entity (`Totals`).
- **StatusPublisherProofs**: `TypeOK`, `CurrentAfterTick`, `EveryRowWasTrue` and,
  if `MaxLosses < Wrap`, `HeartbeatMeansUnchanged`. The
  first follows from the digest always being that of the last sample, which a
  put that raises must not disturb (`Digest`); the second from what a snapshot
  has established half way (`Faithful`), with the images still to be asked for
  told apart (`Plain`); the third from how far the present
  number is ahead of that of the last sample received, one and the samples lost
  since (`Fresh`). With as many losses as there are numbers the sequence could
  come round and a heartbeat pass for one that it is not; the field is a
  `uint64`, so the bound is no restriction on the code.
- **StatsPublisherProofs**: `TypeOK`, `NoSpike`, `RunningHasRow`. A counter is at
  most the reading and what was done since, a restart only lowering it (`Real`),
  and there is one reading for each id (`OneReading`); a container that was
  steady so far has a row, was unreadable or is still to be read
  (`SteadyInSweep`).
- **ContainerControlProofs**: `TypeOK`, `RunningNeedsForce`,
  `OnlyUnknownAddresses`, `ActsOnTheNamed` and `ReplyTellsTheTruth`, whether or
  not the lookup at startup has failed. The guard decides on an address once and
  the action comes two requests later, so the invariant (`Carries`) says that what
  was found bore the address that was allowed; the own container is found only by
  an address of its own, and none that is known was allowed.

`EveryLineInOnePlace` and the type invariants are proved and not run.

Where a proof needs induction over data (a recursive function, a sum, a count), it
takes a least counterexample instead: a set of natural numbers that is not empty has
a least element, which the library's theorem on well-founded relations gives.

Model-checked only: all liveness, since the provers do not treat fairness.

## What the models show beside the properties

Things that a reader of the properties might expect otherwise; no run is about
them.

- A follower that loses the race for a freed slot discards its newest line while
  older lines of its container stay queued (`_enqueue`; the comment there says to
  drop the oldest). The loss is counted.
- A count of suppressed lines that is pending when the container falls silent, or
  when the follower ends, is never published.
- With a tail above 0, an exited container that stays present is followed again
  every two seconds, and its boundary lines are repeated every time.
- A line without a timestamp, and one cut by a broken stream inside its timestamp,
  sets the resume point to the time it is published (`logs_follower.py:324`).
  Older lines that were not published yet are then skipped by the next reconnect,
  against "one duplicated line beats a gap" (`logs_follower.py:326`).
- The two streams of `logs` are fetched one after the other, and the runtime
  counts the tail over both. Out at 1, error at 2, a tail of two, two more lines
  of out between the fetches: the answer has the line at 1 and not the one at 2,
  though `ContainerControl.proto:225` says "`lines` is always the most recent
  window". `NothingRecentIsMissing` says how far that is so.
- `truncated` is set by the ceiling of lines too (`model.py:583`, and so says
  `test_model.py:171`); `ContainerControl.proto:224` says "True when the responder
  dropped lines to stay under its byte ceiling". `LongestWindow` asks for the flag
  where the byte ceiling has dropped lines, and leaves the other case open.
- `TREE_LOCK` is a lock of one process: what an editor, git or a second responder
  writes between comparison and rename (`platform_write.py:70` and `112`) is
  overwritten. The only other content a save replaces is what its caller was given.
- "THE WRITE IS ALREADY DURABLE BY HERE, so a failure to read the tree's state
  afterwards must not be reported as a failed save" (`platform_handlers.py:254`).
  Only `RepoError` is caught there: what else running git raises (a
  `PermissionError`, another `OSError`, a `UnicodeDecodeError` of the output) is
  answered INTERNAL although the file was replaced. And the directory entry is not
  synced: a power loss can undo a save that was reported.
- A temporary file stays behind when its unlink fails, or when the exception is
  not an `OSError`; the caller is told INTERNAL then.
- A failure of the request for an image is swallowed (`backend.py:36`, tested in
  `test_backend.py:168`): the row falls back to the reference the container was
  created with, the digest differs, and a CHANGE is published though nothing changed;
  the next tick publishes another.
- A container restarted in place whose counter has reached its old value again
  gets a rate over two runs, though `src/README.md:576` says of a restart "one tick
  unset, then it resumes". `NoSpike` admits such a rate and bounds it by what the
  container did.
- If the lookup of the own container raises at startup, `selfid.resolve`
  (`selfid.py:103`) returns the spelling it started from: control is enabled and
  the other one, the name or the id, is not protected. A new name of the own
  container is not either. The flags of a row are decided with name and id, the
  call with the name: where the id is known and the name is not, `controllable` is
  false and the call goes through, though `guard.py:158` says the flag "cannot drift from the answer it
  would actually get".
- Of a rename, the status keeps the new name. After a file moved to another
  entity, the old entity shows clean although the removal is uncommitted
  (`PlatformConfig.proto:225`: "Anything under this directory is uncommitted").
  Names that git prints with escapes (not ASCII) are never marked per file.
- An entity that vanishes while entities are listed fails the whole list with
  NOT_FOUND, and a link that leaves the root, or a file that vanishes, fails
  list_files with INTERNAL.
- `deletable` can be true although `delete_file` always answers UNAVAILABLE.
- Of `since` only the seconds are passed on, so lines of the same second that are
  older are in the answer (`ContainerControl.proto:206`: "only lines at or after
  this instant"); a `since` in the first second of the epoch is refused by the
  client library.

## Not modelled

- In LogStream: `stop()` (it is in LogFollower), the new log of a container
  recreated under its name, and `sniff_level`. In LogQueue the publisher leaves its queue undrained when
  stopped; nothing in the repository promises otherwise.
- In LogRead: the content of lines. In `list`: its filters and the fields of a row.
- In ContainerControl: a stop or a removal of the responder's own container by
  others (there is no responder then), the states paused, dead and restarting,
  and that a call which the runtime answers with an error is answered at all
  (`serve_rpc` sees to that).
- In PlatformWrite: the guard is a set of writable paths.
- In PlatformRead: several calls at once (they keep nothing between them; two
  saves are PlatformWrite), a checkout without `platforms/`, files below an
  entity's directory, ignored files, times and sizes, and `--allow-git` and
  `--allow-push`, which change no answer in this build.
- In StatsPublisher: the clock, so neither the divisor of a rate nor
  `sample_window_s`; figures that are read and not differenced.
- The end of the process: the publishers' `stop()` waits a bounded time, so a
  publisher in a slow request may still put a sample after the liveliness token
  of its subject is down.
- Translation of the runtime's JSON, options, the command line client and the
  health probe: sequential, without state. Generated protocol buffers.

## Plan

1. Done: log queue, follower threads, write_file, status, control, stats; then
   the lines of one stream, `logs`, the path jail and the reading procedures.
2. The end of the process: tokens, publishers and the timeouts of `stop()` as a
   module that composes the loops of the publishers.
3. In StatsPublisher the window of a rate (`sample_window_s`), and in
   StatusPublisher a restart that a subscriber cannot tell from a gap.
