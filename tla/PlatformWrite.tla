--------------------------- MODULE PlatformWrite ---------------------------
(***************************************************************************)
(* The procedure write_file (handle_write_file, check_base_sha,            *)
(* atomic_write): the responder runs each request in a thread of its own,  *)
(* and TREE_LOCK covers everything from the comparison of the base to the  *)
(* reply.  A save is a temporary file, filled and synced, then renamed     *)
(* over the target.                                                        *)
(*                                                                         *)
(* The environment kills the process between any two steps, or the host    *)
(* loses power: the rename of a file takes effect on the disk some time    *)
(* after os.replace (Record), and is undone when the power goes before; of *)
(* a content that was not synced the disk may then hold any part.          *)
(* The responder's threads are the only writers here; a change by somebody *)
(* without TREE_LOCK (an editor over SSH, git pull, a second responder)    *)
(* between the comparison and the rename is overwritten.                   *)
(***************************************************************************)
EXTENDS Naturals

CONSTANTS
    Ops,          \* threads that serve write_file
    Paths,
    Writable,     \* the paths that FileGuard.decide_write allows
    Contents,
    Absent,       \* the version of a file that does not exist
    Sha,          \* Sha[c]: the sha256 of a content
    Torn,         \* the version of a half-written file
    NoBase,       \* the empty base_sha256: "I expect this file not to exist"
    MaxRequests,  \* bound: requests received
    MaxCrashes    \* bound: kills and power losses

Versions == Contents \cup {Absent}

Bases == {NoBase} \cup {Sha[c] : c \in Contents}

Requests == [path : Paths, base : Bases, content : Contents]

ASSUME WriteAssumption ==
    /\ Writable \subseteq Paths
    /\ Requests # {}
    /\ Torn \notin Versions
    /\ Absent \notin Contents
    /\ NoBase \notin {Sha[c] : c \in Contents}
    /\ \A c, d \in Contents : Sha[c] = Sha[d] => c = d
    /\ MaxRequests \in Nat /\ MaxCrashes \in Nat

VARIABLES
    file,      \* the working tree, as every process sees it
    disk,      \* the working tree that a power loss would leave
    treeLock,  \* the threads that hold TREE_LOCK
    volatile,  \* the files whose content the disk may not hold yet
    temp,      \* what is in the temporary file of each thread, Absent if it has none
    synced,    \* the threads whose temporary file is on the disk
    left,      \* the threads whose last request has left its temporary file behind
    req,       \* the request of each thread
    pc,        \* where it is in handle_write_file
    answer,    \* what it has replied
    received,  \* requests so far
    crashes    \* crashes so far

tree == <<file, disk, volatile>>
tempVars == <<temp, synced, left>>
vars == <<tree, treeLock, tempVars, req, pc, answer, received, crashes>>

\* failed is a RepoError or a refusal; internal is what serve_rpc answers when
\* anything else is raised.
Answers == {"none", "saved", "stale", "failed", "internal"}

TypeOK ==
    /\ file \in [Paths -> Versions \cup {Torn}]
    /\ disk \in [Paths -> Versions \cup {Torn}]
    /\ treeLock \in SUBSET Ops
    /\ volatile \in SUBSET Paths
    /\ temp \in [Ops -> Versions \cup {Torn}]
    /\ synced \in SUBSET Ops
    /\ left \in SUBSET Ops
    /\ req \in [Ops -> Requests]
    /\ pc \in [Ops -> {"idle", "decide", "lock", "check", "temp", "write", "sync", "replace", "reply"}]
    /\ answer \in [Ops -> Answers]
    /\ received \in 0 .. MaxRequests
    /\ crashes \in 0 .. MaxCrashes

Init ==
    /\ file \in [Paths -> Versions]
    /\ disk = file
    /\ treeLock = {}
    /\ volatile = {}
    /\ temp = [h \in Ops |-> Absent]
    /\ synced = {}
    /\ left = {}
    /\ req = [h \in Ops |-> CHOOSE r \in Requests : TRUE]  \* none yet
    /\ pc = [h \in Ops |-> "idle"]
    /\ answer = [h \in Ops |-> "none"]
    /\ received = 0
    /\ crashes = 0

-----------------------------------------------------------------------------
(* handle_write_file, in thread h.                                         *)

Path(h) == req[h].path

\* check_base_sha: the empty base expects no file, any other this very content.
Accepts(version, base) ==
    IF base = NoBase THEN version = Absent
                     ELSE version # Absent /\ Sha[version] = base

Goto(h, next) == pc' = [pc EXCEPT ![h] = next]

\* The end of a request that answers with what, inside or outside TREE_LOCK.
Answer(h, what) ==
    /\ answer' = [answer EXCEPT ![h] = what]
    /\ treeLock' = treeLock \ {h}
    /\ Goto(h, "idle")

Receive(h) ==
    /\ pc[h] = "idle"
    /\ received < MaxRequests
    /\ received' = received + 1
    /\ \E r \in Requests : req' = [req EXCEPT ![h] = r]
    /\ answer' = [answer EXCEPT ![h] = "none"]
    /\ left' = left \ {h}
    /\ Goto(h, "decide")
    /\ UNCHANGED <<tree, treeLock, temp, synced, crashes>>

Decide(h) ==
    /\ pc[h] = "decide"
    /\ IF Path(h) \in Writable
       THEN Goto(h, "lock") /\ UNCHANGED <<answer, treeLock>>
       ELSE Answer(h, "failed")
    /\ UNCHANGED <<tree, tempVars, req, received, crashes>>

\* Faulty: without TREE_LOCK.
AcquireNothing(h) ==
    /\ pc[h] = "lock"
    /\ Goto(h, "check")
    /\ UNCHANGED <<tree, treeLock, tempVars, req, answer, received, crashes>>

Acquire(h) ==
    /\ pc[h] = "lock"
    /\ treeLock = {}
    /\ treeLock' = {h}
    /\ Goto(h, "check")
    /\ UNCHANGED <<tree, tempVars, req, answer, received, crashes>>

\* Faulty: acquire() and release() without "with": the mismatch keeps the lock.
CheckBaseKeepsLock(h) ==
    /\ pc[h] = "check"
    /\ IF Accepts(file[Path(h)], req[h].base)
       THEN Goto(h, "temp") /\ UNCHANGED answer
       ELSE Goto(h, "idle") /\ answer' = [answer EXCEPT ![h] = "stale"]
    /\ UNCHANGED <<tree, treeLock, tempVars, req, received, crashes>>

\* Or is_file or read_bytes raises.
CheckBase(h) ==
    /\ pc[h] = "check"
    /\ \/ /\ Accepts(file[Path(h)], req[h].base)
          /\ Goto(h, "temp")
          /\ UNCHANGED <<answer, treeLock>>
       \/ /\ ~Accepts(file[Path(h)], req[h].base)
          /\ Answer(h, "stale")
       \/ Answer(h, "internal")
    /\ UNCHANGED <<tree, tempVars, req, received, crashes>>

\* mkstemp makes an empty file; or the directory does not exist, or mkstemp
\* raises, outside the try.
MakeTemp(h) ==
    /\ pc[h] = "temp"
    /\ \/ /\ temp' = [temp EXCEPT ![h] = Torn]
          /\ Goto(h, "write")
          /\ UNCHANGED <<answer, treeLock>>
       \/ /\ \E what \in {"failed", "internal"} : Answer(h, what)
          /\ UNCHANGED temp
    /\ UNCHANGED <<tree, synced, left, req, received, crashes>>

\* Faulty: an error is answered, and the temporary file stays.
CleanUpForgets(h) ==
    /\ temp' = [temp EXCEPT ![h] = Absent]
    /\ synced' = synced \ {h}
    /\ left' = left \cup {h}
    /\ Answer(h, "failed")

\* An exception in the try: an OSError, after which the file is removed.  Or the
\* removal raises too, or the exception is another one, and the file stays.
CleanUp(h) ==
    /\ temp' = [temp EXCEPT ![h] = Absent]
    /\ synced' = synced \ {h}
    /\ \/ Answer(h, "failed") /\ UNCHANGED left
       \/ Answer(h, "internal") /\ left' = left \cup {h}

\* write and flush.
WriteTemp(h) ==
    /\ pc[h] = "write"
    /\ \/ /\ temp' = [temp EXCEPT ![h] = req[h].content]
          /\ Goto(h, "sync")
          /\ UNCHANGED <<synced, left, answer, treeLock>>
       \/ CleanUp(h)
    /\ UNCHANGED <<tree, req, received, crashes>>

\* Faulty: no fsync.
SyncNothing(h) ==
    /\ pc[h] = "sync"
    /\ Goto(h, "replace")
    /\ UNCHANGED <<tree, tempVars, treeLock, req, answer, received, crashes>>

\* fsync.
Sync(h) ==
    /\ pc[h] = "sync"
    /\ \/ /\ synced' = synced \cup {h}
          /\ Goto(h, "replace")
          /\ UNCHANGED <<temp, left, answer, treeLock>>
       \/ CleanUp(h)
    /\ UNCHANGED <<tree, req, received, crashes>>

\* chmod and os.replace: the file is now what was the temporary one.
Replace(h) ==
    /\ pc[h] = "replace"
    /\ \/ /\ file' = [file EXCEPT ![Path(h)] = temp[h]]
          /\ volatile' = IF h \in synced THEN volatile \ {Path(h)} ELSE volatile \cup {Path(h)}
          /\ temp' = [temp EXCEPT ![h] = Absent]
          /\ synced' = synced \ {h}
          /\ Goto(h, "reply")
          /\ UNCHANGED <<left, answer, treeLock>>
       \/ CleanUp(h) /\ UNCHANGED <<file, volatile>>
    /\ UNCHANGED <<disk, req, received, crashes>>

\* Faulty: a RepoError of the status fails the save.
ReplyWithStatus(h) ==
    /\ pc[h] = "reply"
    /\ \E what \in {"saved", "failed"} : Answer(h, what)
    /\ UNCHANGED <<tree, tempVars, req, received, crashes>>

\* The repository's status is read, or is left unset when a RepoError comes out of
\* it.  What else run_git lets through (PermissionError, UnicodeDecodeError) leaves
\* the handler: the file is replaced, and the answer is INTERNAL.
Reply(h) ==
    /\ pc[h] = "reply"
    /\ \E what \in {"saved", "internal"} : Answer(h, what)
    /\ UNCHANGED <<tree, tempVars, req, received, crashes>>

Serve(h) == Decide(h) \/ Acquire(h) \/ CheckBase(h) \/ MakeTemp(h)
            \/ WriteTemp(h) \/ Sync(h) \/ Replace(h) \/ Reply(h)

-----------------------------------------------------------------------------
(* The disk, crashes, and everybody else.                                  *)

\* The disk catches up with the tree: with the entry, and sooner or later with the
\* content if it was not synced.
Record(p) ==
    /\ disk[p] # file[p]
    /\ \/ disk' = [disk EXCEPT ![p] = file[p]] /\ volatile' = volatile \ {p}
       \/ p \in volatile /\ disk' = [disk EXCEPT ![p] = Torn] /\ UNCHANGED volatile
    /\ UNCHANGED <<file, treeLock, tempVars, req, pc, answer, received, crashes>>

\* The threads are gone, and with them their lock; their temporary files stay.
Crash ==
    /\ crashes < MaxCrashes
    /\ crashes' = crashes + 1
    /\ left' = left \cup {h \in Ops : temp[h] # Absent}
    /\ temp' = [h \in Ops |-> Absent]
    /\ synced' = {}
    /\ treeLock' = {}
    /\ pc' = [h \in Ops |-> "idle"]
    /\ answer' = [h \in Ops |-> IF pc[h] = "idle" THEN answer[h] ELSE "none"]
    /\ UNCHANGED <<req, received>>

Kill == Crash /\ UNCHANGED tree

PowerLoss == Crash /\ file' = disk /\ volatile' = {} /\ UNCHANGED disk

-----------------------------------------------------------------------------

Next ==
    \/ \E h \in Ops : Receive(h) \/ Serve(h)
    \/ \E p \in Paths : Record(p)
    \/ Kill
    \/ PowerLoss

\* A thread that can run is eventually scheduled.
Fairness == \A h \in Ops : WF_vars(Serve(h))

Spec == Init /\ [][Next]_vars /\ Fairness

-----------------------------------------------------------------------------
(* Correctness.                                                            *)

\* "A blind overwrite of a change someone else made is precisely the failure
\* this check exists to prevent" (check_base_sha): the version that a rename
\* replaces is the one that the caller's base names.
NoLostUpdate ==
    [][\A h \in Ops : pc[h] = "replace" /\ pc'[h] = "reply"
                         => Accepts(file[Path(h)], req[h].base)]_vars

\* Every temporary file belongs to a thread that will rename or remove it.  One that
\* is left behind was left by a crash, or its caller has been told that something
\* went wrong that the handler does not know: "failed" means that nothing is left.
NothingLeftBehind ==
    /\ \A h \in Ops : temp[h] # Absent => pc[h] \in {"write", "sync", "replace"}
    /\ \A h \in left : answer[h] \in {"none", "internal"}

\* A half-written file is never seen, and no power loss, whenever it comes, leaves
\* one: "the CONTENT still has to be on disk for that to mean anything after a power
\* loss" (atomic_write), when the rename gets there.
NeverTorn == \A p \in Paths : file[p] # Torn /\ disk[p] # Torn

\* What has become of each request: the rename decides it.
Outcome == [h \in Ops |-> IF pc[h] = "idle" THEN answer[h]
                          ELSE IF pc[h] = "reply" THEN "done" ELSE "pending"]

\* The saves are compare-and-swap operations, and each answer tells what has
\* become of its request: the file was replaced if it says saved, and was not if it
\* says stale or failed.  INTERNAL says neither.
Store == INSTANCE FileStore WITH
    tree    <- file,
    stable  <- disk,
    request <- req,
    outcome <- Outcome

ImplementsStore == Store!Spec

\* Every request is answered unless the process dies: no path through
\* handle_write_file keeps TREE_LOCK or waits for a thread that waits.
EveryRequestAnswered ==
    \A h \in Ops : pc[h] # "idle" ~> pc[h] = "idle"
=============================================================================
