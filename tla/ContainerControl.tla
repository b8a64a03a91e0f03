--------------------------- MODULE ContainerControl ---------------------------
(***************************************************************************)
(* The procedures that change containers -- start, stop, restart, remove:  *)
(* the handlers, the guard they ask first and the backend they call, with  *)
(* the container runtime they all share with everybody else on the host.   *)
(*                                                                         *)
(* Each procedure has its own queryable and so its own thread: it serves   *)
(* one call at a time, and the four interleave with each other and with    *)
(* what else happens on the host.  A call is several requests to the       *)
(* runtime: look the container up, act on the id found, read it again.     *)
(*                                                                         *)
(* A container is an id; the runtime also takes an abbreviation of it.     *)
(* Its name may be given to another one when it is gone, which is what a   *)
(* recreate does.  The responder's own container is Self.  Others may give *)
(* it a new name, but not stop it: a call that does ends the responder.    *)
(***************************************************************************)
EXTENDS Naturals

CONSTANTS
    Names, Ids,
    Short,             \* Short[c]: abbreviations of the id c; others may share them
    Self, SelfName,    \* the responder's own container and its name at startup
    SelfId12,          \* the first 12 characters of its id
    AutoRemove,        \* the containers created with --rm
    AllowLists,        \* the addresses that --allow may match, one set per configuration
    RemoveLists,       \* those that --allow-remove may match
    LookupMayFail,     \* whether the lookup at startup of the own container may fail
    Asked,             \* bound: the names that requests carry
    MaxCalls,          \* bound: calls
    MaxChanges         \* bound: what others do to containers

Verbs == {"start", "stop", "restart", "remove"}

\* What a request may carry as name.  The runtime resolves ids too.
Addresses == Names \cup Ids \cup UNION {Short[c] : c \in Ids}

NoName == "no name"

ASSUME ControlAssumption ==
    /\ Self \in Ids /\ SelfName \in Names /\ SelfId12 \in Short[Self]
    /\ NoName \notin Addresses /\ Asked \subseteq Addresses \cup {NoName}
    /\ AutoRemove \subseteq Ids
    /\ AllowLists \subseteq SUBSET Addresses /\ RemoveLists \subseteq SUBSET Addresses
    /\ LookupMayFail \in BOOLEAN
    /\ MaxCalls \in Nat /\ MaxChanges \in Nat

VARIABLES
    name,            \* name[c]: the name of container c
    status,          \* status[c]: none (not created yet), exited, running or removed
    controlEnabled, allowGlobs, removeGlobs, selfIdentity,  \* the guard, fixed at startup
    pc,              \* pc[v]: where the thread that serves v is
    request,         \* request[v]: the name and the force flag it carries
    found,           \* found[v]: {} or the snapshot that the lookup returned
    reply,           \* reply[v]: {} or the reply
    serving,         \* the responder's process runs
    acted,           \* history: the containers that this call acted on
    bore,            \* history: the containers that bore the requested address during the call
    calls, changes

host == <<name, status>>
guard == <<controlEnabled, allowGlobs, removeGlobs, selfIdentity>>
handler == <<pc, request, found, reply, serving, acted>>
vars == <<host, guard, handler, bore, calls, changes>>

Requests == [name : Addresses \cup {NoName}, force : BOOLEAN]

\* Before the first call.
NoRequest == [name |-> "none", force |-> FALSE]

Snapshots == [id : Ids, name : Names, running : BOOLEAN]

Errors == {"PERMISSION_DENIED", "NOT_FOUND", "INVALID_STATE", "INVALID_ARGUMENT", "FAILED"}

\* What ContainerActionResponse and RemoveContainerResponse say of the container.
Replies == [code : Errors] \cup
           [code : {"OK"}, id : Ids, name : Names, status : {"exited", "running"}] \cup
           [code : {"OK"}, id : Ids, name : Names, forceApplied : BOOLEAN]

TypeOK ==
    /\ name \in [Ids -> Names]
    /\ status \in [Ids -> {"none", "exited", "running", "removed"}]
    /\ controlEnabled \in BOOLEAN
    /\ allowGlobs \subseteq Addresses /\ removeGlobs \subseteq Addresses
    /\ selfIdentity \subseteq {SelfName, Self, SelfId12}
    /\ serving \in BOOLEAN
    /\ pc \in [Verbs -> {"idle", "called", "found", "acted"}]
    /\ request \in [Verbs -> Requests \cup {NoRequest}]
    /\ found \in [Verbs -> SUBSET Snapshots]
    /\ reply \in [Verbs -> SUBSET Replies]
    /\ acted \in [Verbs -> SUBSET Ids]
    /\ bore \in [Verbs -> SUBSET Ids]
    /\ calls \in 0 .. MaxCalls
    /\ changes \in 0 .. MaxChanges

Present(c) == status[c] \in {"exited", "running"}

Bears(c, a) == Present(c) /\ a \in {c, name[c]} \cup Short[c]

\* The container that the runtime resolves an address to: that id, else that
\* name, else the only id that it abbreviates.
Answers(c, a) ==
    /\ Bears(c, a)
    /\ a # c => \A d \in Ids : Present(d) => d # a
    /\ a \notin {c, name[c]} => \A d \in Ids \ {c} : ~Bears(d, a)

-----------------------------------------------------------------------------
(* The guard: ControlGuard, and build_guard, which configures it.          *)

\* What selfid.resolve can establish.  When the lookup raises, only the
\* spelling it started from is left: the name given, or the id out of /proc.
Identities ==
    {{SelfName, Self, SelfId12}} \cup
    (IF LookupMayFail THEN {{SelfName}, {Self, SelfId12}} ELSE {})

BuildGuard ==
    /\ controlEnabled \in BOOLEAN
    /\ IF controlEnabled
       THEN allowGlobs \in AllowLists /\ removeGlobs \in RemoveLists /\ selfIdentity \in Identities
       ELSE allowGlobs = {} /\ removeGlobs = {} /\ selfIdentity = {}

\* Faulty: one allow-list for every verb.
SharedGlobs(v) == allowGlobs

Globs(v) == IF v = "remove" THEN removeGlobs ELSE allowGlobs

\* Faulty: the list alone decides.
DecideByList(v, a) == controlEnabled /\ a \in Globs(v)

\* decide and decide_remove as the handlers call them: with the name only.
Decide(v, a) == controlEnabled /\ a \notin selfIdentity /\ a \in Globs(v)

-----------------------------------------------------------------------------

Init ==
    /\ name \in {f \in [Ids -> Names] : \A c, d \in Ids : f[c] = f[d] => c = d}
    /\ name[Self] = SelfName
    /\ status \in [Ids -> {"none", "exited", "running"}]
    /\ status[Self] = "running"
    /\ BuildGuard
    /\ pc = [v \in Verbs |-> "idle"]
    /\ request = [v \in Verbs |-> NoRequest]
    /\ found = [v \in Verbs |-> {}]
    /\ reply = [v \in Verbs |-> {}]
    /\ acted = [v \in Verbs |-> {}]
    /\ bore = [v \in Verbs |-> {}]
    /\ serving = TRUE
    /\ calls = 0 /\ changes = 0

-----------------------------------------------------------------------------
(* The handlers and the backend: _handle_action with _act, handle_remove   *)
(* with remove.                                                            *)

Call(v, a, f) ==
    /\ serving /\ pc[v] = "idle"
    /\ calls < MaxCalls
    /\ f => v = "remove"
    /\ calls' = calls + 1
    /\ request' = [request EXCEPT ![v] = [name |-> a, force |-> f]]
    /\ pc' = [pc EXCEPT ![v] = "called"]
    /\ reply' = [reply EXCEPT ![v] = {}]
    /\ acted' = [acted EXCEPT ![v] = {}]
    /\ bore' = [bore EXCEPT ![v] = {c \in Ids : Bears(c, a)}]
    /\ UNCHANGED <<host, guard, found, serving, changes>>

\* The call ends with this reply.
Answer(v, r) ==
    /\ reply' = [reply EXCEPT ![v] = {r}]
    /\ pc' = [pc EXCEPT ![v] = "idle"]
    /\ found' = [found EXCEPT ![v] = {}]
    /\ UNCHANGED <<guard, request, bore, calls, changes>>

Fail(v, code) ==
    /\ Answer(v, [code |-> code])
    /\ UNCHANGED <<host, serving, acted>>

\* Decided before the container is looked up.
Refuse(v) ==
    /\ pc[v] = "called"
    /\ \/ /\ request[v].name = NoName
          /\ Fail(v, "INVALID_ARGUMENT")
       \/ /\ request[v].name # NoName
          /\ ~Decide(v, request[v].name)
          /\ Fail(v, "PERMISSION_DENIED")

Lookup(v) ==
    /\ pc[v] = "called"
    /\ Decide(v, request[v].name)
    /\ \E c \in Ids :
         /\ Answers(c, request[v].name)
         /\ found' = [found EXCEPT ![v] =
                {[id |-> c, name |-> name[c], running |-> status[c] = "running"]}]
    /\ pc' = [pc EXCEPT ![v] = "found"]
    /\ UNCHANGED <<host, guard, request, reply, serving, acted, bore, calls, changes>>

LookupFindsNone(v) ==
    /\ pc[v] = "called"
    /\ Decide(v, request[v].name)
    /\ \A c \in Ids : ~Bears(c, request[v].name)
    /\ Fail(v, "NOT_FOUND")

\* A running container is not removed without force: the backend's own check.
NeedsForce(v) ==
    /\ v = "remove" /\ pc[v] = "found"
    /\ \E s \in found[v] : s.running /\ ~request[v].force

RefuseRunning(v) ==
    /\ NeedsForce(v)
    /\ Fail(v, "INVALID_STATE")

\* The runtime cannot be reached, or answers with an error, as it does to an
\* abbreviation of several ids.
DaemonFails(v) ==
    /\ \/ pc[v] = "called" /\ Decide(v, request[v].name)
       \/ pc[v] \in {"found", "acted"} /\ ~NeedsForce(v)
    /\ Fail(v, "FAILED")

\* The container that was found is gone.
Vanished(v) ==
    /\ pc[v] \in {"found", "acted"} /\ ~NeedsForce(v)
    /\ \E s \in found[v] : ~Present(s.id)
    /\ Fail(v, "NOT_FOUND")

\* The runtime does it; it is idempotent.
Becomes(v, c, new) ==
    /\ Present(c)
    /\ status' = [status EXCEPT ![c] = new]
    /\ acted' = [acted EXCEPT ![v] = {c}]
    /\ serving' = (c # Self \/ v = "start")
    /\ UNCHANGED name

Outcome(v) == IF v = "stop" THEN "exited" ELSE "running"

\* Faulty: the action is addressed to the name again, not to the id found.
ActByName(v) ==
    /\ v # "remove" /\ pc[v] = "found"
    /\ \E c \in Ids : Answers(c, request[v].name) /\ Becomes(v, c, Outcome(v))
    /\ pc' = [pc EXCEPT ![v] = "acted"]
    /\ UNCHANGED <<guard, request, found, reply, bore, calls, changes>>

Act(v) ==
    /\ v # "remove" /\ pc[v] = "found"
    /\ \E s \in found[v] : Becomes(v, s.id, Outcome(v))
    /\ \/ /\ pc' = [pc EXCEPT ![v] = "acted"]
          /\ UNCHANGED <<guard, request, found, reply, bore, calls, changes>>
       \/ /\ serving'
          /\ Answer(v, [code |-> "FAILED"])  \* done, but the runtime's answer is lost

\* container.reload(): the reply shows the container after the action.
Reload(v) ==
    /\ pc[v] = "acted"
    /\ \E s \in found[v] :
         /\ Present(s.id)
         /\ Answer(v, [code |-> "OK", id |-> s.id, name |-> name[s.id], status |-> status[s.id]])
    /\ UNCHANGED <<host, serving, acted>>

\* Faulty: a container that was looked up stopped is deleted with force, to be
\* rid of the conflict when it is on its way down.
ForceWhenStopped(v, s) == request[v].force \/ ~s.running

\* The force flag that the delete is sent with.
DeleteForce(v, s) == request[v].force

\* The delete.  The runtime refuses a running container unless it is forced.
Remove(v) ==
    /\ v = "remove" /\ pc[v] = "found" /\ ~NeedsForce(v)
    /\ \E s \in found[v] :
         /\ Present(s.id)
         /\ IF status[s.id] = "running" /\ ~DeleteForce(v, s)
            THEN Fail(v, "FAILED")
            ELSE /\ Becomes(v, s.id, "removed")
                 /\ IF serving'
                    THEN \/ Answer(v, [code |-> "OK", id |-> s.id, name |-> s.name,
                                       forceApplied |-> s.running])
                         \/ Answer(v, [code |-> "FAILED"])
                    ELSE UNCHANGED <<guard, pc, request, found, reply, bore, calls, changes>>

Serve(v) ==
    /\ serving
    /\ \/ Refuse(v) \/ Lookup(v) \/ LookupFindsNone(v) \/ DaemonFails(v) \/ Vanished(v)
       \/ Act(v) \/ Reload(v) \/ RefuseRunning(v) \/ Remove(v)

-----------------------------------------------------------------------------
(* What others do to the containers.                                       *)

\* Every open call is told which containers bear its address now.
Elsewhere ==
    /\ changes < MaxChanges
    /\ changes' = changes + 1
    /\ UNCHANGED <<guard, handler, calls>>
    /\ bore' = [v \in Verbs |-> IF pc[v] = "idle" THEN bore[v]
                               ELSE bore[v] \cup {d \in Ids : Bears(d, request[v].name)'}]

Create(c, n) ==
    /\ status[c] = "none"
    /\ \A d \in Ids : Present(d) => name[d] # n
    /\ name' = [name EXCEPT ![c] = n]
    /\ status' = [status EXCEPT ![c] = "exited"]
    /\ Elsewhere

Rename(c, n) ==
    /\ Present(c)
    /\ \A d \in Ids : Present(d) => name[d] # n
    /\ name' = [name EXCEPT ![c] = n]
    /\ UNCHANGED status
    /\ Elsewhere

\* It is started, it exits, or it is removed.
Alter(c, s) ==
    /\ Present(c) /\ c # Self
    /\ s \in {"exited", "running", "removed"} \ {status[c]}
    /\ status' = [status EXCEPT ![c] = s]
    /\ UNCHANGED name
    /\ Elsewhere

\* The runtime removes a container created with --rm once it has exited.
Reap(c) ==
    /\ c \in AutoRemove /\ c # Self
    /\ status[c] = "exited"
    /\ status' = [status EXCEPT ![c] = "removed"]
    /\ UNCHANGED <<name, guard, handler, bore, calls, changes>>

-----------------------------------------------------------------------------

Next ==
    \/ \E v \in Verbs, a \in Asked, f \in BOOLEAN : Call(v, a, f)
    \/ \E v \in Verbs : Serve(v)
    \/ \E c \in Ids, n \in Names : Create(c, n) \/ Rename(c, n)
    \/ \E c \in Ids : Reap(c) \/ \E s \in {"exited", "running", "removed"} : Alter(c, s)

Spec == Init /\ [][Next]_vars

-----------------------------------------------------------------------------
(* Correctness.                                                            *)

\* "Self-protection", as documented: whatever is matched by --allow, no call
\* stops, restarts or removes the responder's own container.
SelfIsLeftAlone == \A v \in Verbs \ {"start"} : Self \notin acted[v]

\* Self-protection, as far as it goes: a call that acts on the own container
\* bore an abbreviation of its id, or a name that it was given later -- or its
\* name or its id, where the lookup at startup failed and left that one unknown.
\* Every address that the responder knows protects, the 12-character id among
\* them, through any change of names between the guard and the runtime.
OnlyUnknownAddresses ==
    \A v \in Verbs : Self \in acted[v] =>
        /\ request[v].name \notin selfIdentity
        /\ selfIdentity = {SelfName, Self, SelfId12} =>
              request[v].name \in (Short[Self] \cup Names) \ {SelfName, Self, SelfId12}

\* A call acts on a container that bore the requested name while the call was
\* open -- never on one that took the name over before, or lost it before --
\* and only if its own allow-list matches that name: removal is not implied by
\* control.
ActsOnTheNamed ==
    \A v \in Verbs : acted[v] # {} =>
        /\ acted[v] \subseteq bore[v]
        /\ controlEnabled
        /\ request[v].name \in IF v = "remove" THEN removeGlobs ELSE allowGlobs

\* The reply tells the caller what was done.  OK: to the container with that
\* id; refused: nothing.  A removal that succeeded is not reported as a
\* container that was not there, and one that killed a running container
\* without being told to does not exist.
ReplyTellsTheTruth ==
    \A v \in Verbs : \A r \in reply[v] :
        /\ r.code = "OK" => acted[v] = {r.id}
        /\ r.code \in {"PERMISSION_DENIED", "INVALID_ARGUMENT", "INVALID_STATE"} => acted[v] = {}
        /\ v = "remove" /\ r.code = "NOT_FOUND" => acted[v] = {}
        /\ v = "remove" /\ r.code = "OK" => (r.forceApplied => request[v].force)

\* A call takes a running container away only if the caller said force, even
\* when the container was not running when it was looked up.
RunningNeedsForce ==
    [][\A c \in Ids : status[c] = "running" /\ status'[c] = "removed" /\ UNCHANGED changes
          => request["remove"].force /\ c \in acted'["remove"]]_vars
=============================================================================
