------------------------ MODULE ContainerControlProofs ------------------------
(***************************************************************************)
(* For any containers, allow-lists and number of calls, and whatever else  *)
(* happens on the host: no address that the responder knows of its own     *)
(* container lets a call act on it; a call acts only on a container that   *)
(* bore an allowed address while the call was open; the replies say what   *)
(* was done.                                                               *)
(*                                                                         *)
(* The guard sees the address only, once, and the action comes two         *)
(* requests later.  The argument is that the snapshot carries the decision *)
(* along: what was found bore the address that was allowed (Carries), so   *)
(* it is the own container only by an address that the guard let pass.     *)
(***************************************************************************)
EXTENDS ContainerControl, TLAPS

\* What the own container may be addressed by.
OwnAddresses == {Self} \cup Short[Self] \cup Names

\* What an open call of v has established.
Carries(v) ==
    /\ pc[v] # "idle" => \A c \in Ids : Bears(c, request[v].name) => c \in bore[v]
    /\ pc[v] \in {"called", "found"} => acted[v] = {} /\ reply[v] = {}
    /\ pc[v] \in {"found", "acted"} =>
          /\ Decide(v, request[v].name)
          /\ \E s \in Snapshots : /\ found[v] = {s} /\ s.id \in bore[v]
                                  /\ s.id = Self => request[v].name \in OwnAddresses
    /\ pc[v] = "acted" => /\ v # "remove" /\ reply[v] = {}
                          /\ \A s \in found[v] : acted[v] = {s.id}

Inv ==
    /\ TypeOK
    /\ serving => \A v \in Verbs : Carries(v)
    /\ OnlyUnknownAddresses
    /\ ActsOnTheNamed
    /\ ReplyTellsTheTruth

-----------------------------------------------------------------------------

\* The initial states have the type.
LEMMA TypeInit == Init => TypeOK
<1> SUFFICES ASSUME Init PROVE TypeOK
  OBVIOUS
<1>1. controlEnabled \in BOOLEAN /\ allowGlobs \subseteq Addresses /\ removeGlobs \subseteq Addresses
  BY ControlAssumption DEF Init, BuildGuard
<1>2. selfIdentity \subseteq {SelfName, Self, SelfId12}
  BY DEF Init, BuildGuard, Identities
<1> QED BY <1>1, <1>2, ControlAssumption DEF Init, TypeOK

\* The initial states satisfy the invariant.
LEMMA InvInit == Init => Inv
<1> SUFFICES ASSUME Init PROVE Inv
  OBVIOUS
<1>1. \A v \in Verbs : pc[v] = "idle" /\ acted[v] = {} /\ reply[v] = {}
  BY DEF Init
<1> QED BY <1>1, TypeInit DEF Inv, Carries, OnlyUnknownAddresses, ActsOnTheNamed, ReplyTellsTheTruth

\* The replies have their type.
LEMMA ReplyTypes ==
    /\ \A code \in Errors : [code |-> code] \in Replies
    /\ \A c \in Ids, n \in Names, s \in {"exited", "running"} :
          [code |-> "OK", id |-> c, name |-> n, status |-> s] \in Replies
    /\ \A c \in Ids, n \in Names, f \in BOOLEAN :
          [code |-> "OK", id |-> c, name |-> n, forceApplied |-> f] \in Replies
BY DEF Replies

\* Every variable keeps its type.
LEMMA TypeInductive ==
    ASSUME TypeOK, [Next]_vars
    PROVE  TypeOK'
<1> USE ControlAssumption DEF TypeOK
<1>1. ASSUME NEW v \in Verbs, NEW a \in Asked, NEW f \in BOOLEAN, Call(v, a, f)
      PROVE  TypeOK'
  <2>1. [name |-> a, force |-> f] \in Requests
    BY DEF Requests
  <2>2. {c \in Ids : Bears(c, a)} \in SUBSET Ids
    OBVIOUS
  <2> HIDE DEF Requests
  <2> QED BY <1>1, <2>1, <2>2 DEF Call, host, guard
<1>2. ASSUME NEW v \in Verbs, Serve(v)
      PROVE  TypeOK'
  <2> USE DEF host, guard
  <2>1. ASSUME NEW code \in Errors, Fail(v, code)
        PROVE  TypeOK'
    BY <2>1, ReplyTypes DEF Fail, Answer
  <2>2. CASE Refuse(v) \/ LookupFindsNone(v) \/ DaemonFails(v) \/ Vanished(v) \/ RefuseRunning(v)
    BY <2>1, <2>2 DEF Refuse, LookupFindsNone, DaemonFails, Vanished, RefuseRunning, Errors
  <2>3. CASE Lookup(v)
    <3>1. PICK c \in Ids : found' = [found EXCEPT ![v] =
                {[id |-> c, name |-> name[c], running |-> status[c] = "running"]}]
      BY <2>3 DEF Lookup
    <3>2. [id |-> c, name |-> name[c], running |-> status[c] = "running"] \in Snapshots
      BY DEF Snapshots
    <3> QED BY <2>3, <3>1, <3>2 DEF Lookup
  <2>4. ASSUME NEW s \in found[v], NEW new \in {"exited", "running", "removed"},
               Becomes(v, s.id, new)
        PROVE  /\ status' \in [Ids -> {"none", "exited", "running", "removed"}]
               /\ acted' \in [Verbs -> SUBSET Ids]
               /\ name' = name /\ serving' \in BOOLEAN
    <3>1. s.id \in Ids
      BY DEF Snapshots
    <3> QED BY <2>4, <3>1 DEF Becomes
  <2>5. ASSUME NEW r \in Replies, Answer(v, r)
        PROVE  /\ reply' \in [Verbs -> SUBSET Replies]
               /\ found' \in [Verbs -> SUBSET Snapshots]
               /\ pc' \in [Verbs -> {"idle", "called", "found", "acted"}]
               /\ UNCHANGED <<guard, request, bore, calls, changes>>
    BY <2>5 DEF Answer
  <2>6. CASE Act(v)
    <3>1. Outcome(v) \in {"exited", "running", "removed"} /\ [code |-> "FAILED"] \in Replies
      BY ReplyTypes DEF Outcome, Errors
    <3>2. PICK s \in found[v] : Becomes(v, s.id, Outcome(v))
      BY <2>6 DEF Act
    <3> QED BY <2>4, <2>5, <2>6, <3>1, <3>2 DEF Act
  <2>7. CASE Reload(v)
    <3>1. PICK s \in found[v] :
             /\ Present(s.id)
             /\ Answer(v, [code |-> "OK", id |-> s.id, name |-> name[s.id], status |-> status[s.id]])
      BY <2>7 DEF Reload
    <3>2. s.id \in Ids
      BY DEF Snapshots
    <3>3. [code |-> "OK", id |-> s.id, name |-> name[s.id], status |-> status[s.id]] \in Replies
      BY <3>1, <3>2, ReplyTypes DEF Present
    <3> QED BY <2>5, <2>7, <3>1, <3>3 DEF Reload
  <2>8. CASE Remove(v)
    <3>1. PICK s \in found[v] :
             IF status[s.id] = "running" /\ ~DeleteForce(v, s)
             THEN Fail(v, "FAILED")
             ELSE /\ Becomes(v, s.id, "removed")
                  /\ \/ Answer(v, [code |-> "OK", id |-> s.id, name |-> s.name,
                                   forceApplied |-> s.running])
                     \/ Answer(v, [code |-> "FAILED"])
                     \/ UNCHANGED <<guard, pc, request, found, reply, bore, calls, changes>>
      BY <2>8 DEF Remove
    <3>2. s.id \in Ids /\ s.name \in Names /\ s.running \in BOOLEAN
      BY DEF Snapshots
    <3>3. /\ [code |-> "OK", id |-> s.id, name |-> s.name, forceApplied |-> s.running] \in Replies
          /\ [code |-> "FAILED"] \in Replies
      BY <3>2, ReplyTypes DEF Errors
    <3> QED BY <2>1, <2>4, <2>5, <3>1, <3>3 DEF Errors
  <2> QED BY <1>2, <2>2, <2>3, <2>6, <2>7, <2>8 DEF Serve
<1>3. ASSUME NEW c \in Ids, NEW n \in Names, Create(c, n) \/ Rename(c, n)
      PROVE  TypeOK'
  BY <1>3 DEF Create, Rename, Elsewhere, guard, handler
<1>4. ASSUME NEW c \in Ids, NEW s \in {"exited", "running", "removed"}, Alter(c, s)
      PROVE  TypeOK'
  BY <1>4 DEF Alter, Elsewhere, guard, handler
<1>5. ASSUME NEW c \in Ids, Reap(c)
      PROVE  TypeOK'
  BY <1>5 DEF Reap, guard, handler
<1>6. CASE UNCHANGED vars
  BY <1>6 DEF vars, host, guard, handler
<1> QED BY <1>1, <1>2, <1>3, <1>4, <1>5, <1>6 DEF Next

-----------------------------------------------------------------------------
(* A step of a call.                                                       *)

\* A request that the runtime resolves to the own container addresses it.
LEMMA SelfAddressed ==
    ASSUME TypeOK, NEW a, Answers(Self, a)
    PROVE  a \in OwnAddresses
BY ControlAssumption DEF TypeOK, Answers, Bears, OwnAddresses

\* What a step of v leaves alone: everything but its own part and the states
\* of containers, of which none comes into being.
LEMMA ServeFrame ==
    ASSUME TypeOK, NEW v \in Verbs, Serve(v)
    PROVE  /\ UNCHANGED <<name, guard, request, bore, calls, changes>>
           /\ \A u \in Verbs \ {v} : /\ pc'[u] = pc[u] /\ found'[u] = found[u]
                                     /\ reply'[u] = reply[u] /\ acted'[u] = acted[u]
           /\ \A c \in Ids : Present(c)' => Present(c)
<1> USE DEF TypeOK, host
<1>1. ASSUME NEW r, Answer(v, r)
      PROVE  /\ UNCHANGED <<guard, request, bore, calls, changes>>
             /\ \A u \in Verbs \ {v} : /\ pc'[u] = pc[u] /\ found'[u] = found[u]
                                       /\ reply'[u] = reply[u]
  BY <1>1 DEF Answer
<1>2. ASSUME NEW c, NEW new, Becomes(v, c, new)
      PROVE  /\ UNCHANGED name
             /\ \A u \in Verbs \ {v} : acted'[u] = acted[u]
             /\ \A d \in Ids : Present(d)' => Present(d)
  BY <1>2 DEF Becomes, Present
<1>3. CASE Refuse(v) \/ LookupFindsNone(v) \/ DaemonFails(v) \/ Vanished(v) \/ RefuseRunning(v)
  BY <1>1, <1>3 DEF Refuse, LookupFindsNone, DaemonFails, Vanished, RefuseRunning, Fail, Present
<1>4. CASE Lookup(v)
  BY <1>4 DEF Lookup, Present
<1>5. CASE Act(v)
  BY <1>1, <1>2, <1>5 DEF Act
<1>6. CASE Reload(v)
  BY <1>1, <1>6 DEF Reload, Present
<1>7. CASE Remove(v)
  BY <1>1, <1>2, <1>7 DEF Remove, Fail, Present
<1> QED BY <1>3, <1>4, <1>5, <1>6, <1>7 DEF Serve

\* A call that ends without having acted: Fail.
LEMMA FailTruthful ==
    ASSUME TypeOK, NEW v \in Verbs, NEW code \in Errors, Fail(v, code),
           acted[v] = {} \/ code = "FAILED" \/ (code = "NOT_FOUND" /\ v # "remove")
    PROVE  /\ pc'[v] = "idle" /\ acted' = acted
           /\ \A r \in reply'[v] :
                 /\ r.code # "OK"
                 /\ r.code \in {"PERMISSION_DENIED", "INVALID_ARGUMENT", "INVALID_STATE"}
                       => acted'[v] = {}
                 /\ v = "remove" /\ r.code = "NOT_FOUND" => acted'[v] = {}
<1>1. reply'[v] = {[code |-> code]} /\ pc'[v] = "idle" /\ acted' = acted
  BY DEF TypeOK, Fail, Answer
<1>2. \A r \in reply'[v] : r.code = code
  BY <1>1
<1> QED BY <1>1, <1>2 DEF Errors

\* Its own part: what it carries, what it acts on and what it replies.
LEMMA ServeOwnPart ==
    ASSUME Inv, TypeOK', NEW v \in Verbs, Serve(v)
    PROVE  /\ serving' => Carries(v)'
           /\ \/ acted'[v] = acted[v]
              \/ /\ acted'[v] \subseteq bore[v] /\ Decide(v, request[v].name)
                 /\ Self \in acted'[v] => request[v].name \in OwnAddresses
           /\ \A r \in reply'[v] :
                 /\ r.code = "OK" => acted'[v] = {r.id}
                 /\ r.code \in {"PERMISSION_DENIED", "INVALID_ARGUMENT", "INVALID_STATE"}
                       => acted'[v] = {}
                 /\ v = "remove" /\ r.code = "NOT_FOUND" => acted'[v] = {}
                 /\ v = "remove" /\ r.code = "OK" => (r.forceApplied => request[v].force)
<1>1. TypeOK /\ serving /\ Carries(v)
  BY DEF Inv, Serve
<1>2. /\ UNCHANGED <<name, guard, request, bore>>
      /\ \A c \in Ids : Present(c)' => Present(c)
  BY <1>1, ServeFrame
<1>3. \A a : Decide(v, a)' <=> Decide(v, a)
  BY <1>2 DEF Decide, Globs, guard
<1>4. pc[v] # "idle" => \A c \in Ids : Bears(c, request[v].name)' => c \in bore'[v]
  BY <1>1, <1>2 DEF Carries, Bears
<1>5. ASSUME NEW code \in Errors, Fail(v, code), pc[v] # "idle",
             acted[v] = {} \/ code = "FAILED" \/ (code = "NOT_FOUND" /\ v # "remove")
      PROVE  /\ pc'[v] = "idle" /\ acted' = acted
             /\ \A r \in reply'[v] :
                   /\ r.code # "OK"
                   /\ r.code \in {"PERMISSION_DENIED", "INVALID_ARGUMENT", "INVALID_STATE"}
                         => acted'[v] = {}
                   /\ v = "remove" /\ r.code = "NOT_FOUND" => acted'[v] = {}
  BY <1>1, <1>5, FailTruthful
<1>6. CASE Refuse(v) \/ LookupFindsNone(v) \/ DaemonFails(v) \/ Vanished(v) \/ RefuseRunning(v)
  <2>1. pc'[v] = "idle" /\ acted' = acted /\ \A r \in reply'[v] :
                   /\ r.code # "OK"
                   /\ r.code \in {"PERMISSION_DENIED", "INVALID_ARGUMENT", "INVALID_STATE"}
                         => acted'[v] = {}
                   /\ v = "remove" /\ r.code = "NOT_FOUND" => acted'[v] = {}
    <3>1. CASE Refuse(v)
      BY <1>1, <1>5, <3>1 DEF Refuse, Carries, Errors
    <3>2. CASE LookupFindsNone(v)
      BY <1>1, <1>5, <3>2 DEF LookupFindsNone, Carries, Errors
    <3>3. CASE DaemonFails(v)
      BY <1>5, <3>3 DEF DaemonFails, Errors
    <3>4. CASE Vanished(v)
      BY <1>1, <1>5, <3>4 DEF Vanished, Carries, Errors
    <3>5. CASE RefuseRunning(v)
      BY <1>1, <1>5, <3>5 DEF RefuseRunning, NeedsForce, Carries, Errors
    <3> QED BY <1>6, <3>1, <3>2, <3>3, <3>4, <3>5
  <2>2. Carries(v)'
    BY <2>1 DEF Carries
  <2> QED BY <1>1, <2>1, <2>2
<1>7. CASE Lookup(v)
  <2>1. PICK c \in Ids :
           /\ Answers(c, request[v].name)
           /\ found' = [found EXCEPT ![v] =
                {[id |-> c, name |-> name[c], running |-> status[c] = "running"]}]
    BY <1>7 DEF Lookup
  <2> DEFINE s == [id |-> c, name |-> name[c], running |-> status[c] = "running"]
  <2>2. s \in Snapshots /\ s.id = c
    BY <1>1 DEF TypeOK, Snapshots
  <2>3. Decide(v, request[v].name) /\ pc[v] = "called" /\ pc'[v] = "found"
        /\ acted' = acted /\ reply' = reply
    BY <1>1, <1>7 DEF Lookup, TypeOK
  <2>4. /\ c \in bore'[v] /\ acted[v] = {} /\ reply[v] = {}
        /\ c = Self => request[v].name \in OwnAddresses
    BY <1>1, <1>2, <2>1, <2>3, SelfAddressed DEF Carries, Answers
  <2>5. found'[v] = {s}
    BY <1>1, <2>1 DEF TypeOK
  <2>6. Carries(v)'
    <3> HIDE DEF s
    <3> QED BY <1>2, <1>3, <1>4, <2>2, <2>3, <2>4, <2>5 DEF Carries
  <2> QED BY <1>1, <2>3, <2>4, <2>6
<1>8. CASE Act(v)
  <2>1. PICK s \in Snapshots : /\ found[v] = {s} /\ s.id \in bore[v]
                               /\ s.id = Self => request[v].name \in OwnAddresses
    BY <1>1, <1>8 DEF Act, Carries
  <2>2. v # "remove" /\ pc[v] = "found" /\ Becomes(v, s.id, Outcome(v))
    BY <1>8, <2>1 DEF Act
  <2>3. acted'[v] = {s.id} /\ Decide(v, request[v].name) /\ reply[v] = {}
    BY <1>1, <2>2 DEF Becomes, TypeOK, Carries
  <2>4. CASE pc' = [pc EXCEPT ![v] = "acted"] /\ UNCHANGED <<found, reply>>
    BY <1>1, <1>2, <1>3, <1>4, <2>1, <2>2, <2>3, <2>4 DEF Carries, TypeOK
  <2>5. CASE Answer(v, [code |-> "FAILED"])
    <3>1. pc'[v] = "idle" /\ reply'[v] = {[code |-> "FAILED"]}
      BY <1>1, <2>5 DEF Answer, TypeOK
    <3>2. Carries(v)' /\ \A r \in reply'[v] : r.code = "FAILED"
      BY <3>1 DEF Carries
    <3> QED BY <2>1, <2>3, <3>2
  <2> QED BY <1>8, <2>4, <2>5 DEF Act
<1>9. CASE Reload(v)
  <2>1. PICK s \in found[v] :
           Answer(v, [code |-> "OK", id |-> s.id, name |-> name[s.id], status |-> status[s.id]])
    BY <1>9 DEF Reload
  <2>2. pc[v] = "acted" /\ acted' = acted /\ acted[v] = {s.id} /\ v # "remove"
    BY <1>1, <1>9, <2>1 DEF Reload, Carries
  <2>3. pc'[v] = "idle" /\ \A r \in reply'[v] : r.code = "OK" /\ r.id = s.id
    BY <1>1, <2>1 DEF Answer, TypeOK
  <2>4. Carries(v)'
    BY <2>3 DEF Carries
  <2> QED BY <1>1, <2>2, <2>3, <2>4
<1>10. CASE Remove(v)
  <2>1. PICK s \in Snapshots : /\ found[v] = {s} /\ s.id \in bore[v]
                               /\ s.id = Self => request[v].name \in OwnAddresses
    BY <1>1, <1>10 DEF Remove, Carries
  <2>2. /\ v = "remove" /\ pc[v] = "found" /\ (s.running => request[v].force)
        /\ \/ Fail(v, "FAILED")
           \/ /\ Becomes(v, s.id, "removed")
              /\ \/ Answer(v, [code |-> "OK", id |-> s.id, name |-> s.name,
                               forceApplied |-> s.running])
                 \/ Answer(v, [code |-> "FAILED"])
                 \/ ~serving' /\ reply' = reply
    BY <1>10, <2>1 DEF Remove, NeedsForce
  <2>3. CASE Fail(v, "FAILED")
    <3>1. pc'[v] = "idle" /\ acted' = acted /\ \A r \in reply'[v] :
                   /\ r.code # "OK"
                   /\ r.code \in {"PERMISSION_DENIED", "INVALID_ARGUMENT", "INVALID_STATE"}
                         => acted'[v] = {}
                   /\ v = "remove" /\ r.code = "NOT_FOUND" => acted'[v] = {}
      BY <1>5, <2>2, <2>3 DEF Errors
    <3> QED BY <1>1, <3>1 DEF Carries
  <2>4. CASE Becomes(v, s.id, "removed") /\ ~Fail(v, "FAILED")
    <3>1. acted'[v] = {s.id} /\ Decide(v, request[v].name) /\ reply[v] = {}
      BY <1>1, <2>2, <2>4 DEF Becomes, TypeOK, Carries
    <3>2. CASE ~serving' /\ reply' = reply
      BY <2>1, <3>1, <3>2
    <3>3. CASE ~(~serving' /\ reply' = reply)
      <4>2. PICK r : /\ Answer(v, r)
                     /\ r = [code |-> "FAILED"] \/ r = [code |-> "OK", id |-> s.id,
                                          name |-> s.name, forceApplied |-> s.running]
        BY <2>2, <2>4, <3>3
      <4>3. pc'[v] = "idle" /\ reply'[v] = {r}
        BY <1>1, <4>2 DEF Answer, TypeOK
      <4>4. /\ r.code = "FAILED" \/ r.code = "OK"
            /\ r.code = "OK" => r.id = s.id /\ (r.forceApplied => s.running)
        BY <4>2
      <4>5. Carries(v)'
        BY <4>3 DEF Carries
      <4> HIDE DEF Carries
      <4> QED BY <2>1, <2>2, <3>1, <4>3, <4>4, <4>5
    <3> QED BY <3>2, <3>3
  <2> QED BY <2>2, <2>3, <2>4
<1> QED BY <1>6, <1>7, <1>8, <1>9, <1>10 DEF Serve

-----------------------------------------------------------------------------
(* Every step.                                                             *)

\* A step of a call keeps the invariant: the other calls do not notice it.
LEMMA ServeKeepsInv ==
    ASSUME Inv, TypeOK', NEW v \in Verbs, Serve(v)
    PROVE  Inv'
<1>1. /\ UNCHANGED <<name, guard, request, bore>>
      /\ \A u \in Verbs \ {v} : /\ pc'[u] = pc[u] /\ found'[u] = found[u]
                                /\ reply'[u] = reply[u] /\ acted'[u] = acted[u]
      /\ \A c \in Ids : Present(c)' => Present(c)
  BY ServeFrame DEF Inv
<1>3. ASSUME NEW u \in Verbs \ {v}
      PROVE  Carries(u)'
  <2>1. Carries(u)
    BY DEF Inv, Serve
  <2>2. Decide(u, request[u].name)' <=> Decide(u, request[u].name)
    BY <1>1 DEF Decide, Globs, guard
  <2>3. \A c \in Ids : Bears(c, request[u].name)' => Bears(c, request[u].name)
    BY <1>1 DEF Bears
  <2> QED BY <1>1, <2>1, <2>2, <2>3 DEF Carries
<1>4. serving' => \A u \in Verbs : Carries(u)'
  BY <1>3, ServeOwnPart
<1>5. OnlyUnknownAddresses'
  <2>1. ASSUME NEW u \in Verbs, Self \in acted'[u]
        PROVE  /\ request[u].name \notin selfIdentity
               /\ selfIdentity = {SelfName, Self, SelfId12} =>
                     request[u].name \in (Short[Self] \cup Names) \ {SelfName, Self, SelfId12}
    <3>1. CASE acted'[u] = acted[u]
      BY <2>1, <3>1 DEF Inv, OnlyUnknownAddresses
    <3>2. CASE u = v /\ Decide(v, request[v].name) /\ request[v].name \in OwnAddresses
      BY <3>2 DEF Decide, OwnAddresses
    <3> QED BY <1>1, <2>1, <3>1, <3>2, ServeOwnPart
  <2> QED BY <1>1, <2>1 DEF OnlyUnknownAddresses, guard
<1>6. ActsOnTheNamed'
  <2>1. ASSUME NEW u \in Verbs, acted'[u] # {}
        PROVE  /\ acted'[u] \subseteq bore[u] /\ controlEnabled
               /\ request[u].name \in IF u = "remove" THEN removeGlobs ELSE allowGlobs
    <3>1. CASE acted'[u] = acted[u]
      BY <2>1, <3>1 DEF Inv, ActsOnTheNamed
    <3>2. CASE u = v /\ acted'[v] \subseteq bore[v] /\ Decide(v, request[v].name)
      BY <3>2 DEF Decide, Globs
    <3> QED BY <1>1, <3>1, <3>2, ServeOwnPart
  <2> QED BY <1>1, <2>1 DEF ActsOnTheNamed, guard
<1>7. ReplyTellsTheTruth'
  BY <1>1, ServeOwnPart DEF Inv, ReplyTellsTheTruth
<1> QED BY <1>4, <1>5, <1>6, <1>7 DEF Inv

\* A new call starts with nothing acted on and nothing replied.
LEMMA CallKeepsInv ==
    ASSUME Inv, TypeOK', NEW v \in Verbs, NEW a \in Asked, NEW f \in BOOLEAN, Call(v, a, f)
    PROVE  Inv'
<1>1. /\ UNCHANGED <<host, guard, found>>
      /\ \A u \in Verbs \ {v} : /\ pc'[u] = pc[u] /\ request'[u] = request[u]
                                /\ reply'[u] = reply[u] /\ acted'[u] = acted[u]
                                /\ bore'[u] = bore[u]
      /\ pc'[v] = "called" /\ reply'[v] = {} /\ acted'[v] = {}
      /\ request'[v].name = a
      /\ bore'[v] = {c \in Ids : Bears(c, a)}
  BY DEF Call, Inv, TypeOK
<1>2. serving
  BY DEF Call
<1>3. \A u, x : Bears(u, x)' <=> Bears(u, x)
  BY <1>1 DEF Bears, Present, host
<1>4. \A u, x : Decide(u, x)' <=> Decide(u, x)
  BY <1>1 DEF Decide, Globs, guard
<1>5. \A u \in Verbs : Carries(u)'
  BY <1>1, <1>2, <1>3, <1>4 DEF Inv, Carries
<1>6. OnlyUnknownAddresses' /\ ActsOnTheNamed' /\ ReplyTellsTheTruth'
  BY <1>1 DEF Inv, OnlyUnknownAddresses, ActsOnTheNamed, ReplyTellsTheTruth, guard
<1> QED BY <1>5, <1>6 DEF Inv

\* What others do is told to the open calls.
LEMMA OthersKeepInv ==
    ASSUME Inv, TypeOK', UNCHANGED <<guard, handler>>,
           \A v \in Verbs : bore[v] \subseteq bore'[v],
           serving => \A v \in Verbs : pc[v] # "idle" =>
               \A c \in Ids : Bears(c, request[v].name)' => c \in bore'[v]
    PROVE  Inv'
<1>2. \A u, x : Decide(u, x)' <=> Decide(u, x)
  BY DEF Decide, Globs, guard
<1>3. serving' => \A u \in Verbs : Carries(u)'
  BY <1>2 DEF Inv, Carries, handler
<1>4. OnlyUnknownAddresses' /\ ActsOnTheNamed' /\ ReplyTellsTheTruth'
  BY DEF Inv, OnlyUnknownAddresses, ActsOnTheNamed, ReplyTellsTheTruth, guard, handler
<1> QED BY <1>3, <1>4 DEF Inv

\* Every step keeps the invariant.
LEMMA InvInductive == Inv /\ [Next]_vars => Inv'
<1> SUFFICES ASSUME Inv, [Next]_vars PROVE Inv'
  OBVIOUS
<1>1. TypeOK /\ TypeOK'
  BY TypeInductive DEF Inv
<1>2. ASSUME NEW v \in Verbs, NEW a \in Asked, NEW f \in BOOLEAN, Call(v, a, f)
      PROVE  Inv'
  BY <1>1, <1>2, CallKeepsInv
<1>3. ASSUME NEW v \in Verbs, Serve(v)
      PROVE  Inv'
  BY <1>1, <1>3, ServeKeepsInv
<1>4. ASSUME Elsewhere
      PROVE  Inv'
  <2>1. UNCHANGED <<guard, handler>>
    BY <1>4 DEF Elsewhere
  <2>2. \A v \in Verbs :
           bore'[v] = IF pc[v] = "idle" THEN bore[v]
                      ELSE bore[v] \cup {d \in Ids : Bears(d, request[v].name)'}
    BY <1>4, <2>1 DEF Elsewhere
  <2>3. \A v \in Verbs : bore[v] \subseteq bore'[v]
    BY <2>2
  <2>4. \A v \in Verbs : pc[v] # "idle" =>
           \A c \in Ids : Bears(c, request[v].name)' => c \in bore'[v]
    BY <2>1, <2>2 DEF handler
  <2> QED BY <1>1, <2>1, <2>3, <2>4, OthersKeepInv
<1>5. ASSUME NEW c \in Ids, NEW n \in Names, Create(c, n) \/ Rename(c, n)
      PROVE  Inv'
  BY <1>1, <1>4, <1>5 DEF Create, Rename, TypeOK
<1>6. ASSUME NEW c \in Ids, NEW s \in {"exited", "running", "removed"}, Alter(c, s)
      PROVE  Inv'
  BY <1>1, <1>4, <1>6 DEF Alter, TypeOK
<1>7. ASSUME NEW c \in Ids, Reap(c)
      PROVE  Inv'
  <2>1. UNCHANGED <<guard, handler, name, bore>> /\ \A d \in Ids : Present(d)' => Present(d)
    BY <1>1, <1>7 DEF Reap, Present, TypeOK
  <2>2. \A v \in Verbs, d \in Ids : Bears(d, request[v].name)' => Bears(d, request[v].name)
    BY <2>1 DEF Bears, handler
  <2>3. serving => \A v \in Verbs : Carries(v)
    BY DEF Inv
  <2> QED BY <1>1, <2>1, <2>2, <2>3, OthersKeepInv DEF handler, Carries
<1>8. CASE UNCHANGED vars
  <2>1. UNCHANGED <<guard, handler, name, status, bore>>
    BY <1>8 DEF vars, host
  <2>2. \A v \in Verbs, d \in Ids : Bears(d, request[v].name)' => Bears(d, request[v].name)
    BY <2>1 DEF Bears, Present, handler
  <2>3. serving => \A v \in Verbs : Carries(v)
    BY DEF Inv
  <2> QED BY <1>1, <2>1, <2>2, <2>3, OthersKeepInv DEF handler, Carries
<1> QED BY <1>2, <1>3, <1>5, <1>6, <1>7, <1>8 DEF Next

-----------------------------------------------------------------------------
(* The theorems.                                                           *)

\* The type invariant needs no other one.
LEMMA TypeStays == TypeOK /\ [Next]_vars => TypeOK'
BY TypeInductive

\* The variables have their types.
THEOREM TypeCorrect == Spec => []TypeOK
BY TypeInit, TypeStays, PTL DEF Spec

\* Only a call with force takes a running container away.
THEOREM ForceIsNeeded == Spec => RunningNeedsForce
<1>1. ASSUME TypeOK, [Next]_vars, NEW c \in Ids,
             status[c] = "running", status'[c] = "removed", UNCHANGED changes
      PROVE  request["remove"].force /\ c \in acted'["remove"]
  <2>1. ASSUME NEW v \in Verbs, Serve(v)
        PROVE  request["remove"].force /\ c \in acted'["remove"]
    <3>1. ASSUME NEW new, NEW d, Becomes(v, d, new), new # "removed"
          PROVE  FALSE
      BY <1>1, <3>1 DEF Becomes, TypeOK
    <3>2. CASE Act(v)
      BY <3>1, <3>2 DEF Act, Outcome
    <3>3. CASE Remove(v)
      <4>1. PICK s \in found[v] :
               /\ v = "remove"
               /\ IF status[s.id] = "running" /\ ~request[v].force
                  THEN UNCHANGED host
                  ELSE Becomes(v, s.id, "removed")
        BY <3>3 DEF Remove, DeleteForce, Fail
      <4>2. Becomes(v, s.id, "removed") /\ (status[s.id] = "running" => request[v].force)
        BY <1>1, <4>1 DEF host
      <4>3. s.id = c
        BY <1>1, <4>2 DEF Becomes, TypeOK
      <4> QED BY <1>1, <4>1, <4>2, <4>3 DEF Becomes, TypeOK
    <3>4. CASE UNCHANGED host
      BY <1>1, <3>4 DEF host
    <3> QED BY <2>1, <3>2, <3>3, <3>4 DEF Serve, Refuse, Lookup, LookupFindsNone,
              DaemonFails, Vanished, Reload, RefuseRunning, Fail
  <2>2. ASSUME Elsewhere
        PROVE  FALSE
    BY <1>1, <2>2 DEF Elsewhere, TypeOK
  <2>3. ASSUME NEW d \in Ids, Reap(d)
        PROVE  FALSE
    BY <1>1, <2>3 DEF Reap, TypeOK
  <2>4. \A v \in Verbs, a \in Asked, f \in BOOLEAN : ~Call(v, a, f)
    BY <1>1 DEF Call, host
  <2> QED BY <1>1, <2>1, <2>2, <2>3, <2>4 DEF Next, Create, Rename, Alter, vars, host
<1>2. TypeOK /\ [Next]_vars =>
         [\A c \in Ids : status[c] = "running" /\ status'[c] = "removed" /\ UNCHANGED changes
            => request["remove"].force /\ c \in acted'["remove"]]_vars
  BY <1>1
<1> QED BY <1>2, TypeInit, TypeStays, PTL DEF Spec, RunningNeedsForce

\* The invariant holds in every reachable state.
THEOREM InvHolds == Spec => []Inv
BY InvInit, InvInductive, PTL DEF Spec

\* Self-protection, whether or not the lookup at startup has succeeded: no
\* address that the responder knows of its own container lets a call act on
\* it, and if it knows them all, only an abbreviated id or a new name does.
THEOREM SelfIsProtected == Spec => []OnlyUnknownAddresses
<1>1. Inv => OnlyUnknownAddresses
  BY DEF Inv
<1> QED BY <1>1, InvHolds, PTL

\* A call acts only on a container that bore the requested address while the
\* call was open, under the allow-list of its own verb.
THEOREM OnlyTheNamedIsTouched == Spec => []ActsOnTheNamed
<1>1. Inv => ActsOnTheNamed
  BY DEF Inv
<1> QED BY <1>1, InvHolds, PTL

\* A reply says what was done.
THEOREM RepliesAreTrue == Spec => []ReplyTellsTheTruth
<1>1. Inv => ReplyTellsTheTruth
  BY DEF Inv
<1> QED BY <1>1, InvHolds, PTL
=============================================================================
