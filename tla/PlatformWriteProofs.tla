-------------------------- MODULE PlatformWriteProofs --------------------------
(***************************************************************************)
(* For any number of threads, files and crashes: a save replaces only the  *)
(* version that its base names, no file is ever half-written, a request    *)
(* that is answered "failed" has left no temporary file, and write_file    *)
(* implements the compare-and-swap store of FileStore.                     *)
(*                                                                         *)
(* The argument: TREE_LOCK has at most one holder (LockHeld), and only its *)
(* holder changes a file, so what check_base_sha has established is still  *)
(* true at the rename (BaseHolds).  A writer without the lock would break   *)
(* the second step.  What is renamed is the whole content, synced          *)
(* (TempsReady), so that the disk can only ever hold whole files.          *)
(***************************************************************************)
EXTENDS PlatformWrite, TLAPS

\* The steps inside "with TREE_LOCK" have the lock to themselves.
LockHeld ==
    \A h \in Ops : pc[h] \in {"check", "temp", "write", "sync", "replace", "reply"}
                       => treeLock = {h}

\* What check_base_sha has found holds until the rename.
BaseHolds ==
    \A h \in Ops : pc[h] \in {"temp", "write", "sync", "replace"}
                       => Accepts(file[Path(h)], req[h].base)

\* What is renamed has been written, and synced.
TempsReady ==
    \A h \in Ops :
        /\ pc[h] \in {"sync", "replace"} => temp[h] = req[h].content
        /\ pc[h] = "replace" => h \in synced

\* A temporary file is left behind at the end of a request.
LeftAtTheEnd == \A h \in Ops : pc[h] # "idle" => h \notin left

\* No file is torn, in the tree or on the disk, and none waits for its content.
WholeFiles ==
    /\ file \in [Paths -> Versions] /\ disk \in [Paths -> Versions]
    /\ volatile = {}

Inv ==
    /\ TypeOK
    /\ WholeFiles
    /\ LockHeld
    /\ BaseHolds
    /\ TempsReady
    /\ LeftAtTheEnd
    /\ NothingLeftBehind

-----------------------------------------------------------------------------

\* The initial states satisfy the invariant.
LEMMA InvInit == Init => Inv
<1> SUFFICES ASSUME Init PROVE Inv
  OBVIOUS
<1>1. req \in [Ops -> Requests]
  BY WriteAssumption DEF Init
<1>2. TypeOK
  BY <1>1, WriteAssumption DEF Init, TypeOK, Answers, Versions
<1>3. WholeFiles /\ LockHeld /\ BaseHolds /\ TempsReady
  BY DEF Init, WholeFiles, LockHeld, BaseHolds, TempsReady
<1>4. LeftAtTheEnd /\ NothingLeftBehind
  BY DEF Init, LeftAtTheEnd, NothingLeftBehind
<1> QED BY <1>2, <1>3, <1>4 DEF Inv

\* Every variable keeps its type.
LEMMA TypeInductive ==
    ASSUME TypeOK, [Next]_vars
    PROVE  TypeOK'
<1> USE WriteAssumption DEF TypeOK, Versions, Answers
<1>1. ASSUME NEW h \in Ops, Receive(h)
      PROVE  TypeOK'
  BY <1>1 DEF Receive, Goto, tree
<1>2. ASSUME NEW h \in Ops, Serve(h)
      PROVE  TypeOK'
  <2>1. req[h] \in Requests /\ Path(h) \in Paths /\ req[h].content \in Contents
    BY DEF Requests, Path
  <2>2. CASE Decide(h)
    BY <2>2 DEF Decide, Answer, Goto, tree, tempVars
  <2>3. CASE Acquire(h) \/ CheckBase(h)
    BY <2>3 DEF Acquire, CheckBase, Answer, Goto, tree, tempVars
  <2>4. CASE MakeTemp(h)
    BY <2>4 DEF MakeTemp, Answer, Goto, tree
  <2>5. CASE WriteTemp(h)
    BY <2>1, <2>5 DEF WriteTemp, CleanUp, Answer, Goto, tree
  <2>6. CASE Sync(h)
    BY <2>6 DEF Sync, CleanUp, Answer, Goto, tree
  <2>7. CASE Replace(h)
    BY <2>1, <2>7 DEF Replace, CleanUp, Answer, Goto
  <2>8. CASE Reply(h)
    BY <2>8 DEF Reply, Answer, Goto, tree, tempVars
  <2> QED BY <1>2, <2>2, <2>3, <2>4, <2>5, <2>6, <2>7, <2>8 DEF Serve
<1>3. ASSUME NEW p \in Paths, Record(p)
      PROVE  TypeOK'
  BY <1>3 DEF Record, tempVars
<1>4. CASE Kill \/ PowerLoss
  <2>1. /\ left' \in SUBSET Ops
        /\ crashes' \in 0 .. MaxCrashes
    BY <1>4 DEF Kill, PowerLoss, Crash
  <2>2. answer' \in [Ops -> Answers]
    BY <1>4 DEF Kill, PowerLoss, Crash
  <2> QED BY <1>4, <2>1, <2>2 DEF Kill, PowerLoss, Crash, tree
<1>5. CASE UNCHANGED vars
  BY <1>5 DEF vars, tree, tempVars
<1> QED BY <1>1, <1>2, <1>3, <1>4, <1>5 DEF Next

\* A thread that changes a file holds TREE_LOCK, so no other thread is between
\* its check and its rename.
LEMMA ServeKeepsInv ==
    ASSUME Inv, NEW h \in Ops, Serve(h), TypeOK'
    PROVE  Inv'
<1> USE DEF Inv, TypeOK
<1>1. /\ req' = req /\ disk' = disk /\ crashes' = crashes
      /\ \A g \in Ops \ {h} : /\ pc'[g] = pc[g] /\ answer'[g] = answer[g] /\ temp'[g] = temp[g]
                              /\ g \in synced' <=> g \in synced
                              /\ g \in left' <=> g \in left
  BY DEF Serve, Decide, Acquire, CheckBase, MakeTemp, WriteTemp, Sync, Replace, Reply, CleanUp,
         Answer, Goto, tree, tempVars
<1>2. LockHeld'
  <2>1. SUFFICES ASSUME NEW g \in Ops,
                        pc'[g] \in {"check", "temp", "write", "sync", "replace", "reply"}
                 PROVE  treeLock' = {g}
    BY DEF LockHeld
  <2>2. CASE Acquire(h)
    BY <2>1, <2>2, <1>1 DEF LockHeld, Acquire, Goto
  <2>3. CASE ~Acquire(h) /\ g = h
    BY <2>1, <2>3 DEF LockHeld, Serve, Decide, CheckBase, MakeTemp, WriteTemp, Sync, Replace, Reply,
                      CleanUp, Answer, Goto
  <2>4. CASE ~Acquire(h) /\ g # h
    <3>1. treeLock = {g}
      BY <1>1, <2>1, <2>4 DEF LockHeld
    <3>2. treeLock' = treeLock \/ treeLock' = treeLock \ {h}
      BY <2>4 DEF Serve, Decide, CheckBase, MakeTemp, WriteTemp, Sync, Replace, Reply, CleanUp, Answer
    <3> QED BY <2>4, <3>1, <3>2
  <2> QED BY <2>2, <2>3, <2>4
<1>3. BaseHolds'
  <2>1. SUFFICES ASSUME NEW g \in Ops, pc'[g] \in {"temp", "write", "sync", "replace"}
                 PROVE  Accepts(file[Path(g)], req[g].base) /\ file' = file
    BY <1>1 DEF BaseHolds, Path, Accepts
  <2>2. file' = file
    <3>1. SUFFICES ASSUME file' # file PROVE FALSE
      OBVIOUS
    <3>2. pc[h] = "replace" /\ pc'[h] = "reply"
      BY <3>1 DEF Serve, Decide, Acquire, CheckBase, MakeTemp, WriteTemp, Sync, Replace, Reply,
                  Goto, tree
    <3>3. g # h /\ pc[g] = pc'[g]
      BY <1>1, <2>1, <3>2
    <3>4. treeLock = {h} /\ treeLock = {g}
      BY <2>1, <3>2, <3>3 DEF LockHeld
    <3> QED BY <3>3, <3>4
  <2>3. CASE g # h
    BY <1>1, <2>1, <2>2, <2>3 DEF BaseHolds
  <2>4. CASE g = h
    BY <2>1, <2>2, <2>4 DEF BaseHolds, Serve, Decide, Acquire, CheckBase, MakeTemp, WriteTemp, Sync,
                            Replace, Reply, CleanUp, Answer, Goto
  <2> QED BY <2>2, <2>3, <2>4
<1>4. TempsReady'
  <2>1. SUFFICES ASSUME NEW g \in Ops
                 PROVE  /\ pc'[g] \in {"sync", "replace"} => temp'[g] = req[g].content
                        /\ pc'[g] = "replace" => g \in synced'
    BY <1>1 DEF TempsReady
  <2>2. CASE g # h
    BY <1>1, <2>2 DEF TempsReady
  <2>3. CASE g = h
    BY <2>3 DEF TempsReady, Serve, Decide, Acquire, CheckBase, MakeTemp, WriteTemp, Sync, Replace,
                Reply, CleanUp, Answer, Goto
  <2> QED BY <2>2, <2>3
<1>5. LeftAtTheEnd' /\ NothingLeftBehind'
  <2>1. h \notin left
    BY DEF LeftAtTheEnd, Serve, Decide, Acquire, CheckBase, MakeTemp, WriteTemp, Sync, Replace, Reply
  <2>2. h \in left' => pc'[h] = "idle" /\ answer'[h] = "internal"
    BY <2>1 DEF Serve, Decide, Acquire, CheckBase, MakeTemp, WriteTemp, Sync, Replace,
             Reply, CleanUp, Answer, Goto, tempVars
  <2>3. temp'[h] # Absent => pc'[h] \in {"write", "sync", "replace"}
    BY DEF NothingLeftBehind, Serve, Decide, Acquire, CheckBase, MakeTemp, WriteTemp, Sync, Replace,
             Reply, CleanUp, Answer, Goto, tempVars
  <2> QED BY <1>1, <2>2, <2>3 DEF LeftAtTheEnd, NothingLeftBehind
<1>6. WholeFiles'
  <2>1. CASE Replace(h)
    <3>1. temp[h] \in Contents /\ h \in synced
      BY <2>1 DEF Replace, TempsReady, Requests
    <3> QED BY <1>1, <2>1, <3>1 DEF Replace, WholeFiles, Versions
  <2>2. CASE ~Replace(h)
    <3>1. file' = file /\ volatile' = volatile
      BY <2>2 DEF Serve, Decide, Acquire, CheckBase, MakeTemp, WriteTemp, Sync, Reply, tree
    <3> QED BY <1>1, <3>1 DEF WholeFiles
  <2> QED BY <2>1, <2>2
<1> QED BY <1>2, <1>3, <1>4, <1>5, <1>6

\* Every step keeps the invariant.
LEMMA InvInductive ==
    ASSUME Inv, [Next]_vars
    PROVE  Inv'
<1>1. TypeOK'
  BY TypeInductive DEF Inv
<1>2. ASSUME NEW h \in Ops, Receive(h)
      PROVE  Inv'
  <2>1. /\ \A g \in Ops \ {h} : /\ pc'[g] = pc[g] /\ req'[g] = req[g] /\ answer'[g] = answer[g]
                                /\ g \in left' <=> g \in left
        /\ pc[h] = "idle" /\ pc'[h] = "decide" /\ h \notin left'
        /\ UNCHANGED <<file, disk, volatile, treeLock, temp, synced>>
    BY <1>2 DEF Receive, Goto, Inv, TypeOK, tree
  <2>2. LockHeld' /\ BaseHolds' /\ TempsReady'
    BY <2>1 DEF Inv, LockHeld, BaseHolds, TempsReady, Path, Accepts
  <2>3. LeftAtTheEnd'
    BY <2>1 DEF Inv, LeftAtTheEnd
  <2>4. temp[h] = Absent
    BY <2>1 DEF Inv, NothingLeftBehind
  <2>5. NothingLeftBehind'
    <3>1. \A g \in left' : g \in Ops /\ g \in left /\ answer'[g] = answer[g]
      BY <1>1, <2>1 DEF TypeOK
    <3> QED BY <2>1, <2>4, <3>1 DEF Inv, NothingLeftBehind
  <2>6. WholeFiles'
    BY <2>1 DEF Inv, WholeFiles
  <2> QED BY <1>1, <2>2, <2>3, <2>5, <2>6 DEF Inv
<1>3. ASSUME NEW h \in Ops, Serve(h)
      PROVE  Inv'
  BY <1>1, <1>3, ServeKeepsInv
<1>4. CASE Kill \/ PowerLoss
  <2>1. /\ pc' = [h \in Ops |-> "idle"]
        /\ temp' = [h \in Ops |-> Absent]
        /\ left' = left \cup {h \in Ops : temp[h] # Absent}
        /\ answer' = [h \in Ops |-> IF pc[h] = "idle" THEN answer[h] ELSE "none"]
    BY <1>4 DEF Kill, PowerLoss, Crash
  <2>2. LockHeld' /\ BaseHolds' /\ TempsReady' /\ LeftAtTheEnd'
    BY <2>1 DEF LockHeld, BaseHolds, TempsReady, LeftAtTheEnd
  <2>3. NothingLeftBehind'
    <3>1. \A h \in Ops : temp[h] # Absent => pc[h] # "idle"
      BY DEF Inv, NothingLeftBehind
    <3>2. \A h \in left' : h \in Ops /\ answer'[h] \in {"none", "internal"}
      BY <2>1, <3>1 DEF Inv, TypeOK, NothingLeftBehind
    <3> QED BY <2>1, <3>2 DEF NothingLeftBehind
  <2>4. WholeFiles'
    BY <1>4 DEF Inv, WholeFiles, Kill, PowerLoss, tree
  <2> QED BY <1>1, <2>2, <2>3, <2>4 DEF Inv
<1>5. CASE (\E p \in Paths : Record(p)) \/ UNCHANGED vars
  <2>1. UNCHANGED <<file, treeLock, tempVars, req, pc, answer>>
    BY <1>5 DEF Record, vars, tree
  <2>2. WholeFiles'
    BY <1>5 DEF Inv, WholeFiles, Record, vars, tree
  <2> QED BY <1>1, <2>1, <2>2
          DEF Inv, LockHeld, BaseHolds, TempsReady, LeftAtTheEnd, NothingLeftBehind, Path, Accepts,
              tempVars
<1> QED BY <1>2, <1>3, <1>4, <1>5 DEF Next

\* The invariant holds in every reachable state.
THEOREM InvHolds == Spec => []Inv
<1>1. Inv /\ [Next]_vars => Inv'
  BY InvInductive
<1> QED BY InvInit, <1>1, PTL DEF Spec

\* The variables of write_file keep their types.
THEOREM TypeCorrect == Spec => []TypeOK
<1>1. Inv => TypeOK
  BY DEF Inv
<1> QED BY InvHolds, <1>1, PTL

\* A temporary file stays only after a crash, or after a request that was answered
\* INTERNAL: the error after which it is not removed, or its own removal raising.
THEOREM NothingStays == Spec => []NothingLeftBehind
<1>1. Inv => NothingLeftBehind
  BY DEF Inv
<1> QED BY InvHolds, <1>1, PTL

\* No crash, whenever it comes, leaves a half-written file in the tree: what is
\* renamed has been written and synced, though a disk that records a rename before
\* the content may hold any part of one that was not.
THEOREM FilesStayWhole == Spec => []NeverTorn
<1>1. Inv => NeverTorn
  BY WriteAssumption DEF Inv, WholeFiles, NeverTorn
<1> QED BY InvHolds, <1>1, PTL

\* While every writer takes TREE_LOCK, the version that a save replaces is the
\* one that its caller has read.
THEOREM NoUpdateIsLost == Spec => NoLostUpdate
<1>1. Inv => \A h \in Ops : pc[h] = "replace" => Accepts(file[Path(h)], req[h].base)
  BY DEF Inv, BaseHolds
<1>2. Inv => \A h \in Ops : pc[h] = "replace" /\ pc'[h] = "reply"
                               => Accepts(file[Path(h)], req[h].base)
  BY <1>1
<1> QED BY InvHolds, <1>2, PTL DEF NoLostUpdate

-----------------------------------------------------------------------------
(* The refinement of FileStore.                                            *)

\* The initial states of write_file are initial states of the store.
LEMMA StoreInit == Init => Store!Init
<1> SUFFICES ASSUME Init PROVE Store!Init
  OBVIOUS
<1>1. req \in [Ops -> Requests]
  BY WriteAssumption DEF Init
<1>2. Outcome = [h \in Ops |-> "none"]
  BY DEF Init, Outcome
<1> QED BY <1>1, <1>2 DEF Init, Store!Init

\* What a step of one thread does to the outcomes.
LEMMA OutcomeOfStep ==
    ASSUME TypeOK, NEW h \in Ops, \A g \in Ops \ {h} : pc'[g] = pc[g] /\ answer'[g] = answer[g]
    PROVE  /\ Outcome' = [Outcome EXCEPT ![h] = Outcome'[h]]
           /\ Outcome'[h] = Outcome[h] => Outcome' = Outcome
BY DEF Outcome

\* Each step of a thread that serves a request is a step of the store or none.
LEMMA ServeRefines ==
    ASSUME Inv, NEW h \in Ops, Serve(h)
    PROVE  Store!Next \/ UNCHANGED Store!storeVars
<1> USE DEF Inv, TypeOK
<1>1. \A g \in Ops \ {h} : pc'[g] = pc[g] /\ answer'[g] = answer[g]
  BY DEF Serve, Decide, Acquire, CheckBase, MakeTemp, WriteTemp, Sync, Replace, Reply, CleanUp,
         Answer, Goto
<1>2. /\ Outcome' = [Outcome EXCEPT ![h] = Outcome'[h]]
      /\ Outcome'[h] = Outcome[h] => Outcome' = Outcome
  BY <1>1, OutcomeOfStep
<1>3. disk' = disk /\ req' = req
  BY DEF Serve, Decide, Acquire, CheckBase, MakeTemp, WriteTemp, Sync, Replace, Reply, tree
<1>4. ASSUME file' = file, Outcome[h] = "pending", Outcome'[h] \in {"failed", "internal"}
      PROVE  Store!Next
  BY <1>2, <1>3, <1>4 DEF Store!Next, Store!Fail, Store!Stumble
<1>5. ASSUME file' = file, Outcome'[h] = Outcome[h]
      PROVE  UNCHANGED Store!storeVars
  BY <1>2, <1>3, <1>5 DEF Store!storeVars
<1>6. CASE Decide(h) \/ Acquire(h) \/ MakeTemp(h) \/ WriteTemp(h) \/ Sync(h)
  <2>1. file' = file /\ Outcome[h] = "pending"
    BY <1>6 DEF Decide, Acquire, MakeTemp, WriteTemp, Sync, Outcome, tree
  <2>2. Outcome'[h] \in {"pending", "failed", "internal"}
    BY <1>6 DEF Decide, Acquire, MakeTemp, WriteTemp, Sync, CleanUp, Answer, Goto, Outcome
  <2> QED BY <1>4, <1>5, <2>1, <2>2
<1>7. CASE CheckBase(h)
  <2>1. file' = file /\ Outcome[h] = "pending"
    BY <1>7 DEF CheckBase, Outcome, tree
  <2>2. CASE Goto(h, "temp") \/ Answer(h, "internal")
    <3>1. Outcome'[h] \in {"pending", "internal"}
      BY <2>2 DEF Answer, Goto, Outcome
    <3> QED BY <1>4, <1>5, <2>1, <3>1
  <2>3. CASE ~Accepts(file[Path(h)], req[h].base) /\ Answer(h, "stale")
    <3>1. Outcome'[h] = "stale"
      BY <2>3 DEF Answer, Goto, Outcome
    <3>2. Store!Refuse(h)
      BY <1>2, <1>3, <2>1, <2>3, <3>1 DEF Store!Refuse, Path
    <3> QED BY <3>2 DEF Store!Next
  <2> QED BY <1>7, <2>2, <2>3 DEF CheckBase
<1>8. CASE Replace(h)
  <2>1. /\ Outcome[h] = "pending" /\ Accepts(file[Path(h)], req[h].base)
        /\ temp[h] = req[h].content
    BY <1>8 DEF Replace, Outcome, BaseHolds, TempsReady
  <2>2. CASE CleanUp(h) /\ file' = file
    <3>1. Outcome'[h] \in {"failed", "internal"}
      BY <2>2 DEF CleanUp, Answer, Goto, Outcome
    <3> QED BY <1>4, <2>1, <2>2, <3>1
  <2>3. CASE file' = [file EXCEPT ![Path(h)] = temp[h]] /\ Goto(h, "reply")
    <3>1. Outcome'[h] = "done"
      BY <2>3 DEF Goto, Outcome
    <3>2. Store!Save(h)
      BY <1>2, <1>3, <2>1, <2>3, <3>1 DEF Store!Save, Path
    <3> QED BY <3>2 DEF Store!Next
  <2> QED BY <1>8, <2>2, <2>3 DEF Replace
<1>9. CASE Reply(h)
  <2>1. file' = file /\ Outcome[h] = "done" /\ Outcome'[h] \in {"saved", "internal"}
    BY <1>9 DEF Reply, Answer, Goto, Outcome, tree
  <2> QED BY <1>2, <1>3, <2>1 DEF Store!Next, Store!Confirm, Store!Stumble
<1> QED BY <1>6, <1>7, <1>8, <1>9 DEF Serve

\* Every step of write_file and of its environment maps to the store.
LEMMA StoreNext ==
    ASSUME Inv, [Next]_vars
    PROVE  Store!Next \/ UNCHANGED Store!storeVars
<1> USE DEF Inv, TypeOK
<1>1. ASSUME NEW h \in Ops, Receive(h)
      PROVE  Store!Next
  <2>1. \A g \in Ops \ {h} : pc'[g] = pc[g] /\ answer'[g] = answer[g]
    BY <1>1 DEF Receive, Goto
  <2>2. Outcome[h] \notin {"pending", "done"} /\ Outcome'[h] = "pending"
    BY <1>1 DEF Receive, Goto, Outcome, Answers
  <2>3. Outcome' = [Outcome EXCEPT ![h] = "pending"]
    BY <2>1, <2>2, OutcomeOfStep
  <2>4. Store!Ask(h)
    BY <1>1, <2>2, <2>3 DEF Receive, Store!Ask, tree
  <2> QED BY <2>4 DEF Store!Next
<1>2. ASSUME NEW h \in Ops, Serve(h)
      PROVE  Store!Next \/ UNCHANGED Store!storeVars
  BY <1>2, ServeRefines
<1>3. ASSUME NEW p \in Paths, Record(p)
      PROVE  Store!Next
  <2>1. disk' = [disk EXCEPT ![p] = file[p]]
    BY <1>3 DEF Record, WholeFiles
  <2>2. Store!Record(p)
    BY <1>3, <2>1 DEF Record, Store!Record, Outcome
  <2> QED BY <2>2 DEF Store!Next
<1>4. CASE Kill \/ PowerLoss
  <2>1. file' \in {file, disk} /\ disk' = disk /\ req' = req
    BY <1>4 DEF Kill, PowerLoss, Crash, tree
  <2>2. \A h \in Ops : Outcome'[h] = IF pc[h] = "idle" THEN answer[h] ELSE "none"
    BY <1>4 DEF Kill, PowerLoss, Crash, Outcome
  <2>3. \A h \in Ops : Outcome'[h] \in {Outcome[h], "none"} \ {"pending", "done"}
    BY <2>2 DEF Outcome, Answers
  <2>4. Outcome' = [h \in Ops |-> Outcome'[h]]
    BY DEF Outcome
  <2>5. Store!Restart
    BY <2>1, <2>3, <2>4 DEF Store!Restart
  <2> QED BY <2>5 DEF Store!Next
<1>5. CASE UNCHANGED vars
  BY <1>5 DEF vars, tree, Store!storeVars, Outcome
<1> QED BY <1>1, <1>2, <1>3, <1>4, <1>5 DEF Next

\* write_file is an atomic compare-and-swap on each file, and "saved", "stale" and
\* "failed" say what happened, across kills and power losses and whatever the
\* status raises; INTERNAL is what may stand for a completed save.
THEOREM Refinement == Spec => ImplementsStore
<1>1. Inv /\ [Next]_vars => [Store!Next]_Store!storeVars
  BY StoreNext
<1> QED BY InvHolds, StoreInit, <1>1, PTL DEF Spec, ImplementsStore, Store!Spec
=============================================================================
