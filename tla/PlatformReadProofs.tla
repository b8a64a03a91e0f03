-------------------------- MODULE PlatformReadProofs --------------------------
(***************************************************************************)
(* Theorems about PlatformRead, for any trees, links, guards and calls.    *)
(***************************************************************************)
EXTENDS PlatformRead, FiniteSetTheorems, WellFoundedInduction, TLAPS

\* Which procedure a handler step belongs to.
Where ==
    /\ at \in {"read", "size"} => call.proc = "read_file"
    /\ at \in {"files", "stat"} => call.proc = "list_files"
    /\ at \in {"names", "entity", "compose"} => call.proc = "list_entities"
    /\ at \in {"compare", "rename"} => call.proc = "write_file"
    /\ call.proc = "write_file" /\ at # "idle" => last # NoRead

\* What the next step of the handler works on.
Work ==
    /\ at \in {"branch", "counts", "porcelain"} => \E s \in RepoStates : status = {s}
    /\ at \in {"entity", "compose"} => todo # {} /\ todo \subseteq Entities
    /\ at = "compose" => paths \subseteq Paths /\ total \in Nat
    /\ at = "stat" => paths # {} /\ paths \subseteq Paths \cup DOMAIN links
    /\ at \in {"read", "size"} => \E p \in Paths : paths = {p}
    /\ at = "size" => \E r \in FileReads : shown = {r} /\ r.sha = r.content
    /\ at \in {"call", "compare"} => shown = {}

\* The sha a caller holds is that of the bytes it was given, and a save goes on only
\* against that sha: what it replaces is different only if somebody wrote after the
\* comparison.
Honest ==
    /\ last = NoRead \/ (last \in FileReads /\ last.sha = last.content)
    /\ at = "rename" => files[last.path] = last.sha \/ last.path \in touched
    /\ call.proc = "write_file" => \A r \in shown : r.sha = r.content \/ r.path \in touched

Typed == TypeOK /\ Where /\ Work /\ Honest

-----------------------------------------------------------------------------
LEMMA FiniteListing ==
    ASSUME TreeAssumption, links \in LinkSets, NEW e \in Entities
    PROVE  Cardinality(ListEntityFiles(e)) \in Nat
<1>1. IsFiniteSet(Paths) /\ IsFiniteSet(DOMAIN links)
  BY DEF TreeAssumption
<1>2. ListEntityFiles(e) \subseteq Paths \cup DOMAIN links
  BY DEF ListEntityFiles, In, Live
<1>3. IsFiniteSet(ListEntityFiles(e))
  BY <1>1, <1>2, FS_Union, FS_Subset
<1>. QED
  BY <1>3, FS_CardinalityType

\* Compose files are never links.
LEMMA ComposeFiles ==
    ASSUME TreeAssumption, links \in LinkSets, NEW e \in Entities
    PROVE  {p \in ListEntityFiles(e) : p[3] \in ComposeNames} \subseteq Paths
<1>. SUFFICES ASSUME NEW p \in ListEntityFiles(e), p[3] \in ComposeNames, p \notin Paths
              PROVE  FALSE
  OBVIOUS
<1>1. p \in DOMAIN links
  BY DEF ListEntityFiles, In, Live
<1>. QED
  BY <1>1 DEF TreeAssumption

LEMMA DirtyPathsType == ASSUME NEW away PROVE DirtyPaths(away) \subseteq {Printed(p) : p \in Paths}
BY DEF DirtyPaths

LEMMA GuardIsBoolean ==
    ASSUME NEW p
    PROVE  DecideWrite(guard, p) \in BOOLEAN /\ DecideDelete(guard, p) \in BOOLEAN
BY DEF DecideWrite, DecideDelete

\* The record of a file that is looked at.
LEMMA FileInfoType ==
    ASSUME TreeAssumption, links \in LinkSets, NEW p \in Paths \cup DOMAIN links,
           RealPath(Live, p) \in Paths
    PROVE  FileInfo(p) \in FileInfos
<1>. DEFINE Names == FileNames \cup {l[3] : l \in UNION {DOMAIN k : k \in LinkSets}}
            rel == RealPath(Live, p)
            dirty == rel \in Dirty
            writable == DecideWrite(guard, rel)
            deletable == DecideDelete(guard, rel)
<1>1. p[3] \in Names
  <2>1. CASE p \in Paths
    BY <2>1 DEF Paths
  <2>2. CASE p \in DOMAIN links
    BY <2>2
  <2>. QED
    BY <2>1, <2>2
<1>2. dirty \in BOOLEAN /\ writable \in BOOLEAN /\ deletable \in BOOLEAN
  BY GuardIsBoolean
<1>3. FileInfo(p) = [name |-> p[3], path |-> rel, dirty |-> dirty,
                     writable |-> writable, deletable |-> deletable]
  BY DEF FileInfo
<1>4. FileInfos = [name : Names, path : Paths, dirty : BOOLEAN, writable : BOOLEAN, deletable : BOOLEAN]
  BY DEF FileInfos
<1>. HIDE DEF Names, rel, dirty, writable, deletable
<1>5. rel \in Paths
  BY DEF rel
<1>. QED
  BY <1>1, <1>2, <1>3, <1>4, <1>5

LEMMA InitTyped == ASSUME TreeAssumption, Init PROVE Typed
<1>1. files \in [Paths -> Contents \cup {None}] /\ head \in [Paths -> Contents \cup {None}]
  BY DEF Init, TreeAssumption
<1>2. index \in [Paths -> Contents \cup {None}]
  BY <1>1 DEF Init
<1>3. dirs \subseteq Entities /\ {commits, ahead, behind} \subseteq Nat /\ touched \subseteq Everything
  BY DEF Init
<1>4. branch \in {"tracking", "local", "detached"} /\ links \in LinkSets /\ guard \in Guards
  BY DEF Init
<1>5. call \in Calls
  BY DEF Init, TreeAssumption
<1>6. at = "idle" /\ status = {} /\ entities = {} /\ shown = {} /\ last = NoRead
  BY DEF Init
<1>7. TypeOK
  BY <1>1, <1>2, <1>3, <1>4, <1>5, <1>6 DEF TypeOK
<1>. QED
  BY <1>6, <1>7 DEF Typed, Where, Work, Honest

-----------------------------------------------------------------------------
(* People change the tree and the branch, and nothing of the handler.      *)

LEMMA PeopleTyped ==
    ASSUME TreeAssumption, Typed,
           \/ \E p \in Paths, c \in Contents \cup {None} : Edit(p, c)
           \/ \E e \in Entities : RemoveEntity(e)
           \/ Stage \/ Commit \/ Push \/ FetchMore
    PROVE  Typed' /\ UNCHANGED <<setting, handler>>
<1>1. /\ files \in [Paths -> Contents \cup {None}] /\ head \in [Paths -> Contents \cup {None}]
      /\ index \in [Paths -> Contents \cup {None}] /\ dirs \subseteq Entities
      /\ commits \in Nat /\ ahead \in Nat /\ behind \in Nat /\ touched \subseteq Everything
  BY DEF Typed, TypeOK
<1>2. UNCHANGED <<links, guard, call, at, code, status, entities, shown, todo, paths, total, last,
                  branch>>
  BY DEF Edit, RemoveEntity, Stage, Commit, Push, FetchMore, Change, setting, handler, answer,
         work, refs
<1>3. files' \in [Paths -> Contents \cup {None}]
  <2>1. \A p \in Paths, c \in Contents \cup {None} :
            Edit(p, c) => files' \in [Paths -> Contents \cup {None}]
    BY <1>1 DEF Edit
  <2>2. \A e \in Entities : RemoveEntity(e) => files' \in [Paths -> Contents \cup {None}]
    BY <1>1 DEF RemoveEntity
  <2>3. Stage \/ Commit \/ Push \/ FetchMore => files' \in [Paths -> Contents \cup {None}]
    BY <1>1 DEF Stage, Commit, Push, FetchMore, tree
  <2>. QED
    BY <2>1, <2>2, <2>3
<1>4. index' \in [Paths -> Contents \cup {None}] /\ head' \in [Paths -> Contents \cup {None}]
  BY <1>1 DEF Edit, RemoveEntity, Stage, Commit, Push, FetchMore, tree
<1>5. dirs' \subseteq Entities
  BY <1>1 DEF Edit, RemoveEntity, Stage, Commit, Push, FetchMore, tree
<1>6. commits' \in Nat /\ ahead' \in Nat /\ behind' \in Nat
  <2>1. CASE Commit
    BY <1>1, <2>1 DEF Commit
  <2>2. CASE Push \/ FetchMore
    BY <1>1, <2>2 DEF Push, FetchMore
  <2>3. CASE \/ \E p \in Paths, c \in Contents \cup {None} : Edit(p, c)
             \/ \E e \in Entities : RemoveEntity(e)
             \/ Stage
    BY <1>1, <2>3 DEF Edit, RemoveEntity, Stage, refs
  <2>. QED
    BY <2>1, <2>2, <2>3
<1>7. touched' \subseteq Everything
  <2>1. touched' = touched \/ \E S \in SUBSET Everything : touched' = touched \cup S
    <3>1. CASE \E p \in Paths, c \in Contents \cup {None} : Edit(p, c)
      BY <3>1 DEF Edit, Touch, Everything
    <3>2. CASE \E e \in Entities : RemoveEntity(e)
      <4>1. PICK e \in Entities : RemoveEntity(e)
        BY <3>2
      <4>2. In(e) \cup {Dir(e)} \subseteq Everything
        BY DEF In, Everything
      <4>. QED
        BY <4>1, <4>2 DEF RemoveEntity, Touch
    <3>3. CASE Stage \/ Commit
      <4>1. /\ {p \in Paths : index[p] # files[p]} \subseteq Everything
            /\ {p \in Paths : index[p] # head[p]} \subseteq Everything
        BY DEF Everything
      <4>. QED
        BY <3>3, <4>1 DEF Stage, Commit, Touch
    <3>4. CASE Push \/ FetchMore
      BY <3>4 DEF Push, FetchMore
    <3>. QED
      BY <3>1, <3>2, <3>3, <3>4
  <2>. QED
    BY <1>1, <2>1
<1>8. TypeOK'
  BY <1>2, <1>3, <1>4, <1>5, <1>6, <1>7 DEF Typed, TypeOK
<1>9. touched \subseteq touched'
  BY DEF Edit, RemoveEntity, Stage, Commit, Push, FetchMore, Touch
<1>10. \A p \in Paths : files'[p] = files[p] \/ p \in touched'
  <2>1. ASSUME NEW q \in Paths, NEW c \in Contents \cup {None}, Edit(q, c)
        PROVE  \A p \in Paths : files'[p] = files[p] \/ p \in touched'
    BY <1>1, <2>1 DEF Edit, Touch
  <2>2. ASSUME NEW e \in Entities, RemoveEntity(e)
        PROVE  \A p \in Paths : files'[p] = files[p] \/ p \in touched'
    BY <1>1, <2>2 DEF RemoveEntity, Touch
  <2>3. CASE Stage \/ Commit \/ Push \/ FetchMore
    BY <2>3 DEF Stage, Commit, Push, FetchMore, tree
  <2>. QED
    BY <2>1, <2>2, <2>3
<1>11. at = "rename" => last.path \in Paths
  <2>1. ASSUME at = "rename"
        PROVE  last \in FileReads
    BY <2>1 DEF Typed, Where, Honest
  <2>. QED
    BY <2>1 DEF FileReads
<1>12. Honest'
  BY <1>2, <1>9, <1>10, <1>11 DEF Typed, Honest
<1>13. Where' /\ Work'
  BY <1>2 DEF Typed, Where, Work
<1>. QED
  BY <1>2, <1>8, <1>12, <1>13 DEF Typed, setting, handler, answer, work

-----------------------------------------------------------------------------
(* The handler.                                                            *)

\* What a step that only reads leaves alone.
LEMMA ReadsOnly ==
    ASSUME Typed, UNCHANGED <<tree, refs, setting>>, touched' = touched \/ touched' = {},
           call' \in Calls,
           at' \in {"idle", "call", "head", "branch", "counts", "porcelain",
                    "names", "entity", "compose", "files", "stat", "read", "size", "compare", "rename"},
           \A s \in status' : s \in RepoStates,
           \A e \in entities' : e \in EntityInfos,
           \A f \in shown' : f \in FileInfos \/ f \in FileReads
    PROVE  TypeOK'
<1>1. /\ UNCHANGED <<files, dirs, index, head, commits, ahead, behind, branch, links, guard>>
  BY DEF tree, refs, setting
<1>2. touched' \subseteq Everything
  BY DEF Typed, TypeOK
<1>3. RepoStates' = RepoStates /\ EntityInfos' = EntityInfos /\ FileInfos' = FileInfos /\ FileReads' = FileReads
  BY DEF RepoStates, EntityInfos, FileInfos, FileReads
<1>. QED
  BY <1>1, <1>2, <1>3 DEF Typed, TypeOK

LEMMA BeginTyped ==
    ASSUME TreeAssumption, Typed, NEW c \in Calls, Begin(c)
    PROVE  Typed'
<1>1. /\ call' = c /\ at' = "call" /\ status' = {} /\ entities' = {} /\ shown' = {}
      /\ touched' = {} /\ UNCHANGED <<tree, refs, setting, last>>
      /\ c.proc = "write_file" => last # NoRead
  BY DEF Begin
<1>2. TypeOK'
  BY <1>1, ReadsOnly
<1>. QED
  BY <1>1, <1>2 DEF Typed, Where, Work, Honest

LEMMA FailTyped ==
    ASSUME TreeAssumption, Typed, NEW c, Fail(c)
    PROVE  Typed'
<1>1. /\ at' = "idle"
      /\ UNCHANGED <<tree, refs, setting, call, touched, status, entities, shown, last>>
  BY DEF Fail, Answer, Steps, Elsewhere, history
<1>2. TypeOK'
  BY <1>1, ReadsOnly DEF Typed, TypeOK
<1>. QED
  BY <1>1, <1>2 DEF Typed, Where, Work, Honest

LEMMA DispatchTyped == ASSUME TreeAssumption, Typed, Dispatch PROVE Typed'
<1>1. CASE \E c : Fail(c)
  BY <1>1, FailTyped
<1>2. CASE /\ call.proc \in {"list_files", "list_entities", "repo_status"}
           /\ Steps("head") /\ UNCHANGED <<answer, work, last>>
  <2>1. /\ at' = "head"
        /\ UNCHANGED <<tree, refs, setting, call, touched, status, entities, shown, last>>
    BY <1>2 DEF Steps, Elsewhere, history, answer
  <2>2. TypeOK'
    BY <2>1, ReadsOnly DEF Typed, TypeOK
  <2>. QED
    BY <1>2, <2>1, <2>2 DEF Typed, Where, Work, Honest
<1>3. CASE /\ call.proc = "read_file" /\ Steps("read") /\ paths' = Resolved(Live, call.path)
           /\ \E p \in Resolved(Live, call.path) : p \in Paths
           /\ UNCHANGED <<answer, todo, total, last>>
  <2>1. /\ at' = "read"
        /\ UNCHANGED <<tree, refs, setting, call, touched, status, entities, shown, last>>
    BY <1>3 DEF Steps, Elsewhere, history, answer
  <2>2. TypeOK'
    BY <2>1, ReadsOnly DEF Typed, TypeOK
  <2>3. \E p \in Paths : paths' = {p}
    BY <1>3 DEF Resolved
  <2>. QED
    BY <1>3, <2>1, <2>2, <2>3 DEF Typed, Where, Work, Honest
<1>4. CASE call.proc = "write_file" /\ Steps("compare") /\ at = "call" /\ UNCHANGED <<answer, work, last>>
  <2>1. /\ at' = "compare"
        /\ UNCHANGED <<tree, refs, setting, call, touched, status, entities, shown, last>>
    BY <1>4 DEF Steps, Elsewhere, history, answer
  <2>2. TypeOK'
    BY <2>1, ReadsOnly DEF Typed, TypeOK
  <2>. QED
    BY <1>4, <2>1, <2>2 DEF Typed, Where, Work, Honest
<1>. QED
  BY <1>1, <1>2, <1>3, <1>4 DEF Dispatch

LEMMA GitTyped ==
    ASSUME TreeAssumption, Typed, RevParse \/ SymbolicRef \/ RevList \/ Porcelain \/ GitFails
    PROVE  Typed'
<1>1. /\ commits \in Nat /\ ahead \in Nat /\ behind \in Nat
      /\ \A s \in status : s \in RepoStates
      /\ \A e \in entities : e \in EntityInfos
      /\ \A f \in shown : f \in FileInfos \/ f \in FileReads
      /\ call \in Calls
  BY DEF Typed, TypeOK
<1>2. UNCHANGED <<tree, refs, setting, call, touched, entities, shown, todo, paths, total, last>>
  BY DEF RevParse, SymbolicRef, RevList, Porcelain, GitFails, Answer, Steps, Elsewhere, history, work
<1>3. at \in {"branch", "counts", "porcelain"} => status = {Partial} /\ Partial \in RepoStates
  BY DEF Typed, Work, Partial
<1>4. ASSUME at' \in {"branch", "counts", "porcelain"} =>
                 \E s \in RepoStates : status' = {s},
             \A s \in status' : s \in RepoStates,
             \/ at' \in {"branch", "counts", "porcelain"}
             \/ at' = "idle"
             \/ at' = "names" /\ call.proc = "list_entities"
             \/ at' = "files" /\ call.proc = "list_files",
             at # "idle"
      PROVE  Typed'
  <2>1. TypeOK'
    BY <1>1, <1>2, <1>4, ReadsOnly
  <2>. QED
    BY <1>2, <1>4, <2>1 DEF Typed, Where, Work, Honest
<1>5. CASE RevParse
  <2>. DEFINE s == [head |-> commits, detached |-> FALSE, ahead |-> 0, behind |-> 0, dirty |-> {}]
  <2>1. s \in RepoStates
    BY <1>1 DEF RepoStates
  <2>2. status' = {s} /\ at' = "branch" /\ at = "head"
    BY <1>5 DEF RevParse, Steps
  <2>. HIDE DEF s
  <2>. QED
    BY <1>4, <2>1, <2>2
<1>6. CASE SymbolicRef
  <2>. DEFINE s == [Partial EXCEPT !.detached = (branch = "detached")]
  <2>1. status' = {s} /\ at' \in {"porcelain", "counts"} /\ at = "branch"
    BY <1>6 DEF SymbolicRef, Steps
  <2>2. s \in RepoStates
    BY <1>3, <2>1 DEF RepoStates
  <2>. HIDE DEF s
  <2>. QED
    BY <1>4, <2>1, <2>2
<1>7. CASE RevList
  <2>1. at' = "porcelain" /\ at = "counts"
    BY <1>7 DEF RevList, Steps
  <2>2. CASE branch = "local"
    BY <1>3, <1>4, <1>7, <2>1, <2>2 DEF RevList
  <2>3. CASE branch # "local"
    <3>. DEFINE s == [Partial EXCEPT !.ahead = ahead, !.behind = behind]
    <3>1. status' = {s}
      BY <1>7, <2>3 DEF RevList, Counts
    <3>2. s \in RepoStates
      BY <1>1, <1>3, <2>1 DEF RepoStates
    <3>. HIDE DEF s
    <3>. QED
      BY <1>4, <2>1, <3>1, <3>2
  <2>. QED
    BY <2>2, <2>3
<1>8. CASE Porcelain
  <2>1. /\ at = "porcelain" /\ at' = Then
        /\ \E away \in RenamedAway : status' = {[Partial EXCEPT !.dirty = DirtyPaths(away)]}
    BY <1>8 DEF Porcelain, Steps
  <2>2. PICK away \in RenamedAway : status' = {[Partial EXCEPT !.dirty = DirtyPaths(away)]}
    BY <2>1
  <2>3. DirtyPaths(away) \in SUBSET (Paths \cup {Printed(p) : p \in Paths})
    BY DirtyPathsType
  <2>4. [Partial EXCEPT !.dirty = DirtyPaths(away)] \in RepoStates
    BY <1>3, <2>1, <2>3 DEF RepoStates
  <2>5. \/ at' = "idle"
        \/ at' = "names" /\ call.proc = "list_entities"
        \/ at' = "files" /\ call.proc = "list_files"
    BY <2>1 DEF Then
  <2>. QED
    BY <1>4, <2>1, <2>2, <2>4, <2>5
<1>9. CASE GitFails
  <2>1. /\ status' = {} /\ at # "idle"
        /\ at' = "idle" \/ (at' = "names" /\ call.proc = "list_entities")
    BY <1>9 DEF GitFails, InGit, Answer, Steps
  <2>. QED
    BY <1>4, <2>1
<1>. QED
  BY <1>5, <1>6, <1>7, <1>8, <1>9

\* Steps of the two listings and of a read.
LEMMA ListTyped ==
    ASSUME TreeAssumption, Typed, ListEntityNames \/ ListOne \/ CountOne
    PROVE  Typed'
<1>1. /\ files \in [Paths -> Contents \cup {None}] /\ dirs \subseteq Entities
      /\ \A s \in status : s \in RepoStates
      /\ \A e \in entities : e \in EntityInfos
      /\ \A f \in shown : f \in FileInfos \/ f \in FileReads
      /\ call \in Calls /\ links \in LinkSets
  BY DEF Typed, TypeOK
<1>2. CASE \E c : Fail(c)
  BY <1>2, FailTyped
<1>3. ASSUME UNCHANGED <<tree, refs, setting, call, touched, status, shown, last>>,
             call.proc = "list_entities", at # "idle",
             \A e \in entities' : e \in EntityInfos,
             \/ at' = "idle"
             \/ at' = "entity" /\ todo' # {} /\ todo' \subseteq Entities
             \/ at' = "compose" /\ todo' # {} /\ todo' \subseteq Entities /\ total' \in Nat
                    /\ paths' \subseteq Paths
      PROVE  Typed'
  <2>1. TypeOK'
    BY <1>1, <1>3, ReadsOnly
  <2>. QED
    BY <1>3, <2>1 DEF Typed, Where, Work, Honest
<1>4. CASE ListEntityNames
  <2>1. /\ UNCHANGED <<tree, refs, setting, call, touched, status, shown, last, entities>>
        /\ at = "names" /\ todo' = dirs
        /\ at' = "idle" \/ (at' = "entity" /\ dirs # {})
    BY <1>4 DEF ListEntityNames, Answer, Steps, Elsewhere, history
  <2>2. call.proc = "list_entities"
    BY <2>1 DEF Typed, Where
  <2>. QED
    BY <1>1, <1>3, <2>1, <2>2
<1>5. at \in {"entity", "compose"} =>
          /\ Entity \in todo /\ Entity \in Entities /\ todo \subseteq Entities
          /\ call.proc = "list_entities"
  BY DEF Typed, Work, Where, Entity
<1>6. CASE ListOne /\ Entity \in dirs
  <2>. DEFINE here == ListEntityFiles(Entity)
              readme == \E p \in here : p[3] \in ReadmeNames
              dirty == \E p \in Dirty : p[2] = Entity
              info == [name |-> Entity, fileCount |-> Cardinality(here), readme |-> readme,
                       dirty |-> dirty, services |-> {}]
  <2>1. /\ at = "entity" /\ at' = "compose" /\ entities' = entities \cup {info}
        /\ paths' = {p \in here : p[3] \in ComposeNames} /\ total' = 0
        /\ UNCHANGED <<tree, refs, setting, call, touched, status, shown, last, todo>>
    BY <1>6 DEF ListOne, Steps, Elsewhere, history
  <2>2. info \in EntityInfos
    <3>1. Entity \in Entities /\ Cardinality(here) \in Nat
      BY <1>1, <1>5, <2>1, FiniteListing
    <3>2. readme \in BOOLEAN /\ dirty \in BOOLEAN /\ {} \in SUBSET Nat
      OBVIOUS
    <3>. HIDE DEF readme, dirty, here
    <3>. QED
      BY <3>1, <3>2 DEF EntityInfos
  <2>3. paths' \subseteq Paths
    BY <1>1, <1>5, <2>1, ComposeFiles
  <2>4. todo # {} /\ todo \subseteq Entities
    BY <1>5, <2>1
  <2>. HIDE DEF info
  <2>. QED
    BY <1>1, <1>3, <1>5, <2>1, <2>2, <2>3, <2>4
<1>7. CASE CountOne
  <2>1. /\ at = "compose" /\ UNCHANGED <<status, shown, last>>
    BY <1>7 DEF CountOne
  <2>2. paths \subseteq Paths /\ total \in Nat
    BY <2>1 DEF Typed, Work
  <2>3. ASSUME NEW count \in SUBSET Nat, Finish(count)
        PROVE  Typed'
    <3>1. /\ UNCHANGED <<tree, refs, setting, call, touched>>
          /\ todo' = todo \ {Entity}
          /\ at' = "idle" \/ (at' = "entity" /\ todo # {Entity})
      BY <2>3 DEF Finish, Answer, Steps, Elsewhere, history
    <3>2. \A e \in entities : [e EXCEPT !.services = count] \in EntityInfos
      BY <1>1, <2>3 DEF EntityInfos
    <3>3. \A e \in entities' : e \in EntityInfos
      BY <1>1, <2>3, <3>2 DEF Finish
    <3>4. todo # {Entity} => todo' # {} /\ todo' \subseteq Entities
      BY <1>5, <2>1, <3>1
    <3>5. at' = "entity" => todo' # {} /\ todo' \subseteq Entities
      BY <3>1, <3>4
    <3>. QED
      BY <1>3, <1>5, <2>1, <3>1, <3>3, <3>5
  <2>4. CASE paths = {}
    BY <1>7, <2>2, <2>3, <2>4 DEF CountOne
  <2>5. CASE paths # {}
    <3>. DEFINE p == CHOOSE q \in paths : TRUE
    <3>1. p \in Paths
      BY <2>2, <2>5
    <3>2. CASE Unknown(files[p])
      BY <1>7, <2>3, <2>5, <3>2 DEF CountOne
    <3>3. CASE ~Unknown(files[p])
      <4>1. /\ total' = total + Count(files[p]) /\ paths' = paths \ {p} /\ at' = "compose"
            /\ UNCHANGED <<tree, refs, setting, call, touched, entities, todo>>
        BY <1>7, <2>5, <3>3 DEF CountOne, Steps, Elsewhere, history
      <4>2. Count(files[p]) \in Nat
        <5>1. files[p] \in Contents /\ Services[files[p]] # {}
          BY <1>1, <3>1, <3>3 DEF Unknown
        <5>2. Services[files[p]] \subseteq Nat
          BY <5>1 DEF TreeAssumption
        <5>. QED
          BY <5>1, <5>2 DEF Count
      <4>3. paths' \subseteq Paths /\ total' \in Nat
        BY <2>2, <4>1, <4>2
      <4>4. todo' # {} /\ todo' \subseteq Entities
        BY <1>5, <2>1, <4>1
      <4>. HIDE DEF p
      <4>. QED
        BY <1>1, <1>3, <1>5, <2>1, <4>1, <4>3, <4>4
    <3>. QED
      BY <3>2, <3>3
  <2>. QED
    BY <2>4, <2>5
<1>8. ListOne => Fail("NOT_FOUND") \/ Entity \in dirs
  BY DEF ListOne
<1>. QED
  BY <1>2, <1>4, <1>6, <1>7, <1>8

LEMMA FilesTyped ==
    ASSUME TreeAssumption, Typed, ListFiles \/ Stat
    PROVE  Typed'
<1>1. /\ dirs \subseteq Entities /\ links \in LinkSets /\ call \in Calls
      /\ \A s \in status : s \in RepoStates
      /\ \A e \in entities : e \in EntityInfos
      /\ \A f \in shown : f \in FileInfos \/ f \in FileReads
  BY DEF Typed, TypeOK
<1>2. CASE \E c : Fail(c)
  BY <1>2, FailTyped
<1>3. ASSUME UNCHANGED <<tree, refs, setting, call, touched, status, entities, last>>,
             call.proc = "list_files", at # "idle",
             \A f \in shown' : f \in FileInfos \/ f \in FileReads,
             at' = "idle" \/ (at' = "stat" /\ paths' # {} /\ paths' \subseteq Paths \cup DOMAIN links)
      PROVE  Typed'
  <2>1. TypeOK'
    BY <1>1, <1>3, ReadsOnly
  <2>. QED
    BY <1>3, <2>1 DEF Typed, Where, Work, Honest, setting
<1>4. CASE ListFiles /\ call.entity \in dirs
  <2>1. /\ at = "files" /\ paths' = ListEntityFiles(call.entity)
        /\ at' = "idle" \/ (at' = "stat" /\ paths' # {})
        /\ UNCHANGED <<tree, refs, setting, call, touched, status, entities, last, shown>>
    BY <1>4 DEF ListFiles, Answer, Steps, Elsewhere, history
  <2>2. paths' \subseteq Paths \cup DOMAIN links
    BY <2>1 DEF ListEntityFiles, In, Live
  <2>3. call.proc = "list_files"
    BY <2>1 DEF Typed, Where
  <2>. QED
    BY <1>1, <1>3, <2>1, <2>2, <2>3
<1>5. CASE Stat /\ ~Fail("INTERNAL")
  <2>. DEFINE p == CHOOSE q \in paths : TRUE
              rel == RealPath(Live, p)
  <2>1. /\ at = "stat" /\ rel \in Paths
        /\ shown' = shown \cup {FileInfo(p)} /\ paths' = paths \ {p}
        /\ at' = "idle" \/ (at' = "stat" /\ paths # {p})
        /\ UNCHANGED <<tree, refs, setting, call, touched, status, entities, last>>
    BY <1>5 DEF Stat, Answer, Steps, Elsewhere, history
  <2>2. /\ paths # {} /\ paths \subseteq Paths \cup DOMAIN links /\ call.proc = "list_files"
    BY <2>1 DEF Typed, Work, Where
  <2>3. p \in paths /\ p \in Paths \cup DOMAIN links
    BY <2>2
  <2>4. FileInfo(p) \in FileInfos
    BY <1>1, <2>1, <2>3, FileInfoType
  <2>5. paths # {p} => paths' # {}
    BY <2>1, <2>3
  <2>6. \A f \in shown' : f \in FileInfos \/ f \in FileReads
    BY <1>1, <2>1, <2>4
  <2>7. paths' \subseteq Paths \cup DOMAIN links
    BY <2>1, <2>2
  <2>. HIDE DEF p
  <2>. QED
    BY <1>3, <2>1, <2>2, <2>5, <2>6, <2>7
<1>. QED
  BY <1>2, <1>4, <1>5 DEF ListFiles

LEMMA ReadTyped ==
    ASSUME TreeAssumption, Typed, Read \/ ReadReply
    PROVE  Typed'
<1>1. /\ files \in [Paths -> Contents \cup {None}] /\ call \in Calls
      /\ \A s \in status : s \in RepoStates
      /\ \A e \in entities : e \in EntityInfos
      /\ \A f \in shown : f \in FileInfos \/ f \in FileReads
  BY DEF Typed, TypeOK
<1>2. CASE \E c : Fail(c)
  BY <1>2, FailTyped
<1>3. at \in {"read", "size"} /\ call.proc = "read_file"
  BY DEF Read, ReadReply, Typed, Where
<1>4. Target \in Paths /\ paths = {Target}
  BY <1>3 DEF Typed, Work, Target
<1>5. CASE Read /\ files[Target] # None
  <2>. DEFINE c == files[Target]
              text == IF c = Big THEN Cut ELSE c
              writable == DecideWrite(guard, Target)
              r == [path |-> Target, content |-> text, sha |-> ReadSha(c),
                    truncated |-> c = Big, writable |-> writable]
  <2>1. /\ shown' = {r} /\ at' = "size"
        /\ UNCHANGED <<tree, refs, setting, call, touched, status, entities, last, paths>>
    BY <1>5 DEF Read, Steps, Elsewhere, history, work
  <2>2. text \in Contents /\ ReadSha(c) = text
    BY <1>1, <1>4, <1>5 DEF ReadSha, TreeAssumption
  <2>3. r \in FileReads /\ r.sha = r.content
    <3>1. writable \in BOOLEAN /\ (c = Big) \in BOOLEAN
      BY GuardIsBoolean
    <3>. HIDE DEF writable, text, c
    <3>. QED
      BY <1>4, <2>2, <3>1 DEF FileReads
  <2>. HIDE DEF r
  <2>4. TypeOK'
    BY <1>1, <2>1, <2>3, ReadsOnly
  <2>. QED
    BY <1>3, <1>4, <2>1, <2>3, <2>4 DEF Typed, Where, Work, Honest
<1>6. CASE ReadReply /\ files[Target] # None
  <2>1. /\ at = "size" /\ at' = "idle" /\ last' = CHOOSE r \in shown : TRUE
        /\ UNCHANGED <<tree, refs, setting, call, touched, status, entities, shown>>
    BY <1>6 DEF ReadReply, Answer, Steps, Elsewhere, history
  <2>2. last' \in FileReads /\ last'.sha = last'.content
    BY <2>1 DEF Typed, Work
  <2>3. TypeOK'
    BY <1>1, <2>1, ReadsOnly
  <2>. QED
    BY <1>3, <2>1, <2>2, <2>3 DEF Typed, Where, Work, Honest
<1>. QED
  BY <1>2, <1>5, <1>6 DEF Read, ReadReply

\* A step of a save.
Saving == Compare \/ (\E c \in Contents : Rename(c)) \/ RenameFails

LEMMA SavingSteps ==
    ASSUME Typed, Saving
    PROVE  /\ at \in {"compare", "rename"} /\ at' \in {"rename", "head", "idle"}
           /\ call.proc = "write_file"
           /\ UNCHANGED <<refs, setting, call, status, entities, last, moved>>
BY DEF Typed, Where, Saving, Compare, Rename, RenameFails, Fail, Answer, Steps, Elsewhere,
       history, answer

LEMMA SaveTyped ==
    ASSUME TreeAssumption, Typed, Saving
    PROVE  Typed'
<1>1. CASE \E d : Fail(d)
  BY <1>1, FailTyped
<1>2. /\ call.proc = "write_file" /\ last \in FileReads /\ last.sha = last.content
      /\ last # NoRead
  BY SavingSteps DEF Typed, Where, Honest
<1>3. last.path \in Paths /\ last.sha \in Contents \cup {None}
  BY <1>2 DEF FileReads
<1>4. CASE Compare /\ files[last.path] = last.sha
  <2>1. /\ at' = "rename" /\ touched' = {}
        /\ UNCHANGED <<files, tree, refs, setting, call, answer, status, shown, entities, last>>
    BY <1>4 DEF Compare, answer, tree
  <2>2. TypeOK'
    BY <2>1, ReadsOnly DEF Typed, TypeOK
  <2>3. shown = {}
    BY <1>4 DEF Compare, Typed, Work
  <2>. QED
    BY <1>2, <1>4, <2>1, <2>2, <2>3 DEF Typed, Where, Work, Honest
<1>5. ASSUME NEW c \in Contents, Rename(c)
      PROVE  Typed'
  <2>. DEFINE r == [last EXCEPT !.sha = files[last.path]]
  <2>1. /\ files' = [files EXCEPT ![last.path] = c] /\ shown' = {r}
        /\ at = "rename" /\ at' = "head" /\ touched' = touched
        /\ UNCHANGED <<dirs, index, head, refs, setting, call, status, entities, last>>
    BY <1>5 DEF Rename, history
  <2>2. files[last.path] \in Contents \cup {None}
    BY <1>3 DEF Typed, TypeOK
  <2>3. /\ r \in FileReads /\ r.sha = files[last.path] /\ r.content = last.content
        /\ r.path = last.path
    BY <1>2, <2>2 DEF FileReads
  <2>4. r.sha = r.content \/ r.path \in touched
    BY <1>2, <2>1, <2>3 DEF Typed, Honest
  <2>. HIDE DEF r
  <2>5. TypeOK'
    <3>1. files' \in [Paths -> Contents \cup {None}]
      BY <2>1 DEF Typed, TypeOK
    <3>2. touched' \subseteq Everything
      BY <2>1 DEF Typed, TypeOK
    <3>3. \A f \in shown' : f \in FileInfos' \/ f \in FileReads'
      BY <2>1, <2>3 DEF FileReads
    <3>4. RepoStates' = RepoStates /\ EntityInfos' = EntityInfos
      BY DEF RepoStates, EntityInfos
    <3>. QED
      BY <2>1, <3>1, <3>2, <3>3, <3>4 DEF Typed, TypeOK, refs, setting
  <2>. QED
    BY <1>2, <2>1, <2>4, <2>5 DEF Typed, Where, Work, Honest
<1>. QED
  BY <1>1, <1>4, <1>5 DEF Saving, Compare, RenameFails

LEMMA StepTyped == ASSUME TreeAssumption, Typed, [Next]_vars PROVE Typed'
<1>1. CASE UNCHANGED vars
  <2>1. /\ UNCHANGED <<tree, refs, setting, call, touched, at, status, entities, shown, todo,
                       paths, total, last>>
    BY <1>1 DEF vars, handler, history, answer, work
  <2>2. TypeOK'
    BY <2>1, ReadsOnly DEF Typed, TypeOK
  <2>. QED
    BY <2>1, <2>2 DEF Typed, Where, Work, Honest, setting, tree
<1>. QED
  BY <1>1, PeopleTyped, BeginTyped, DispatchTyped, GitTyped, ListTyped, FilesTyped, ReadTyped,
     SaveTyped DEF Next, Saving

\* What the procedures answer and what the caller is given has its type, and a
\* handler never looks at a path outside the listing or the jail's answer.
THEOREM TypeCorrect == Spec => []TypeOK
<1>1. Init => Typed
  BY InitTyped, TreeAssumption
<1>2. Typed /\ [Next]_vars => Typed'
  BY StepTyped, TreeAssumption
<1>3. Typed => TypeOK
  BY DEF Typed
<1>. QED
  BY <1>1, <1>2, <1>3, PTL DEF Spec

\* What a save replaces is what the caller was given, or was written by somebody else
\* between check_base_sha and os.replace: the rest of a truncated file, and a change
\* made before the comparison, are refused (and the sha that handle_read_file returns
\* is of the bytes it returns).
THEOREM SavesAreSeen == Spec => []NothingUnseenIsLost
<1>1. Init => Typed
  BY InitTyped, TreeAssumption
<1>2. Typed /\ [Next]_vars => Typed'
  BY StepTyped, TreeAssumption
<1>3. Typed => NothingUnseenIsLost
  BY DEF Typed, Honest, NothingUnseenIsLost
<1>. QED
  BY <1>1, <1>2, <1>3, PTL DEF Spec

-----------------------------------------------------------------------------
(* The five commands of read_state.                                        *)

\* What of the state is known after each of them, while nothing moved.
Diverges ==
    /\ branch # "tracking" => ahead = 0 /\ behind = 0
    /\ at \in {"call", "head", "read", "size", "compare", "rename"} => status = {}
    /\ ~moved => \A s \in status :
          /\ s.head = commits
          /\ at = "branch" => s.ahead = 0 /\ s.behind = 0
          /\ at = "counts" => s.ahead = 0 /\ s.behind = 0 /\ ~s.detached /\ branch # "detached"
          /\ at \notin {"branch", "counts"} =>
                /\ s.detached = (branch = "detached")
                /\ s.ahead = ahead /\ s.behind = behind

LEMMA StepDiverges == ASSUME TreeAssumption, Typed, Diverges, [Next]_vars PROVE Diverges'
<1>1. CASE UNCHANGED vars
  BY <1>1 DEF vars, refs, handler, answer, history, Diverges
<1>2. CASE \/ \E p \in Paths, c \in Contents \cup {None} : Edit(p, c)
           \/ \E e \in Entities : RemoveEntity(e)
           \/ Stage
  <2>1. UNCHANGED <<refs, at, status, moved>>
    BY <1>2 DEF Edit, RemoveEntity, Stage, Change, handler, answer
  <2>. QED
    BY <2>1 DEF Diverges, refs
<1>3. CASE Commit \/ Push \/ FetchMore
  <2>1. /\ moved' = TRUE /\ UNCHANGED <<at, status, branch>>
        /\ branch # "tracking" => UNCHANGED <<ahead, behind>> \/ ahead > 0
    BY <1>3 DEF Commit, Push, FetchMore, Change, handler, answer
  <2>2. branch # "tracking" => UNCHANGED <<ahead, behind>>
    BY <2>1 DEF Diverges
  <2>. QED
    BY <2>1, <2>2 DEF Diverges
<1>4. CASE \E c \in Calls : Begin(c)
  <2>1. status' = {} /\ UNCHANGED refs
    BY <1>4 DEF Begin
  <2>. QED
    BY <2>1 DEF Diverges, refs
<1>5. ASSUME UNCHANGED <<refs, status, moved>>, at \notin {"branch", "counts"},
             at' \notin {"branch", "counts"},
             at' \in {"call", "head", "read", "size", "compare", "rename"} =>
                 at \in {"call", "head", "read", "size", "compare", "rename"}
      PROVE  Diverges'
  BY <1>5 DEF Diverges, refs
<1>6. CASE Dispatch
  BY <1>5, <1>6 DEF Dispatch, Fail, Answer, Steps, Elsewhere, history, answer
<1>7. CASE ListEntityNames \/ ListOne \/ CountOne
  BY <1>5, <1>7 DEF ListEntityNames, ListOne, CountOne, Finish, Fail, Answer, Steps, Elsewhere, history
<1>8. CASE ListFiles \/ Stat
  BY <1>5, <1>8 DEF ListFiles, Stat, Fail, Answer, Steps, Elsewhere, history
<1>9. CASE Read \/ ReadReply
  BY <1>5, <1>9 DEF Read, ReadReply, Fail, Answer, Steps, Elsewhere, history
<1>10. CASE Saving
  <2>1. at' = "head" => at = "rename"
    BY <1>10 DEF Saving, Compare, Rename, RenameFails, Fail, Answer, Steps
  <2>. QED
    BY <1>5, <1>10, <2>1, SavingSteps
<1>11. CASE RevParse
  <2>1. /\ at' = "branch" /\ UNCHANGED <<refs, moved>>
        /\ status' = {[head |-> commits, detached |-> FALSE, ahead |-> 0, behind |-> 0, dirty |-> {}]}
    BY <1>11 DEF RevParse, Steps, Elsewhere, history
  <2>. QED
    BY <2>1 DEF Diverges, refs
<1>12. at \in {"branch", "counts", "porcelain"} =>
           status = {Partial} /\ Partial \in RepoStates
  BY DEF Typed, Work, Partial
<1>13. CASE SymbolicRef
  <2>. DEFINE s == [Partial EXCEPT !.detached = (branch = "detached")]
  <2>1. /\ at = "branch" /\ at' = (IF branch = "detached" THEN "porcelain" ELSE "counts")
        /\ status' = {s} /\ UNCHANGED <<refs, moved>>
    BY <1>13 DEF SymbolicRef, Steps, Elsewhere, history
  <2>2. /\ s.head = Partial.head /\ s.ahead = Partial.ahead /\ s.behind = Partial.behind
        /\ s.detached = (branch = "detached")
    BY <1>12, <2>1 DEF RepoStates
  <2>. HIDE DEF s
  <2>3. ~moved => s.head = commits /\ s.ahead = 0 /\ s.behind = 0
    BY <1>12, <2>1, <2>2 DEF Diverges
  <2>4. branch = "detached" => ahead = 0 /\ behind = 0
    BY DEF Diverges
  <2>5. branch # "tracking" => ahead = 0 /\ behind = 0
    BY DEF Diverges
  <2>. QED
    BY <2>1, <2>2, <2>3, <2>4, <2>5 DEF Diverges, refs
<1>14. CASE RevList
  <2>1. at = "counts" /\ at' = "porcelain" /\ UNCHANGED <<refs, moved>>
    BY <1>14 DEF RevList, Steps, Elsewhere, history
  <2>2. ~moved => /\ Partial.head = commits /\ Partial.ahead = 0 /\ Partial.behind = 0
                  /\ ~Partial.detached /\ branch # "detached"
    BY <1>12, <2>1 DEF Diverges
  <2>3. branch # "tracking" => ahead = 0 /\ behind = 0
    BY DEF Diverges
  <2>4. CASE branch = "local"
    <3>1. status' = {Partial}
      BY <1>12, <1>14, <2>1, <2>4 DEF RevList
    <3>2. ~moved => Partial.detached = (branch = "detached")
      BY <1>12, <2>1, <2>2 DEF RepoStates
    <3>. QED
      BY <2>1, <2>2, <2>3, <2>4, <3>1, <3>2 DEF Diverges, refs
  <2>5. CASE branch # "local"
    <3>. DEFINE s == [Partial EXCEPT !.ahead = ahead, !.behind = behind]
    <3>1. status' = {s}
      BY <1>14, <2>5 DEF RevList, Counts
    <3>2. /\ s.head = Partial.head /\ s.ahead = ahead /\ s.behind = behind
          /\ s.detached = Partial.detached /\ s.detached \in BOOLEAN
      BY <1>12, <2>1 DEF RepoStates
    <3>. HIDE DEF s
    <3>. QED
      BY <2>1, <2>2, <2>3, <3>1, <3>2 DEF Diverges, refs
  <2>. QED
    BY <2>4, <2>5
<1>15. CASE Porcelain
  <2>1. /\ at = "porcelain" /\ at' = Then /\ UNCHANGED <<refs, moved>>
        /\ \E away \in RenamedAway : status' = {[Partial EXCEPT !.dirty = DirtyPaths(away)]}
    BY <1>15 DEF Porcelain, Steps, Elsewhere, history
  <2>2. PICK away \in RenamedAway : status' = {[Partial EXCEPT !.dirty = DirtyPaths(away)]}
    BY <2>1
  <2>. DEFINE s == [Partial EXCEPT !.dirty = DirtyPaths(away)]
  <2>3. /\ s.head = Partial.head /\ s.ahead = Partial.ahead /\ s.behind = Partial.behind
        /\ s.detached = Partial.detached
    BY <1>12, <2>1 DEF RepoStates
  <2>4. status' = {s}
    BY <2>2
  <2>. HIDE DEF s
  <2>5. at' \in {"idle", "names", "files"}
    BY <2>1 DEF Then
  <2>6. ~moved => /\ Partial.head = commits /\ Partial.ahead = ahead /\ Partial.behind = behind
                  /\ Partial.detached = (branch = "detached")
    BY <1>12, <2>1 DEF Diverges
  <2>7. branch # "tracking" => ahead = 0 /\ behind = 0
    BY DEF Diverges
  <2>. QED
    BY <2>1, <2>3, <2>4, <2>5, <2>6, <2>7 DEF Diverges, refs
<1>16. CASE GitFails
  <2>1. status' = {} /\ UNCHANGED refs
    BY <1>16 DEF GitFails, Answer, Steps, Elsewhere
  <2>. QED
    BY <2>1 DEF Diverges, refs
<1>. QED
  BY <1>1, <1>2, <1>3, <1>4, <1>6, <1>7, <1>8, <1>9, <1>10, <1>11, <1>13, <1>14, <1>15, <1>16
     DEF Next, Saving

\* The head, the detachment and the two counts of one answer belong together,
\* though read_state asks for them in different commands, as long as neither the
\* head nor the upstream moved during the call.
THEOREM StateIsOfOneHead == Spec => []DivergenceOfTheHead
<1>1. Init => Typed /\ Diverges
  <2>1. Init => Diverges
    BY DEF Init, Diverges
  <2>. QED
    BY <2>1, InitTyped, TreeAssumption
<1>2. Typed /\ Diverges /\ [Next]_vars => Typed' /\ Diverges'
  BY StepTyped, StepDiverges, TreeAssumption
<1>3. Diverges => DivergenceOfTheHead
  BY DEF Diverges, DivergenceOfTheHead
<1>. QED
  BY <1>1, <1>2, <1>3, PTL DEF Spec

-----------------------------------------------------------------------------
(* The marks of the two listings.                                          *)

\* What no step of a call, but those of a save, does to what is untouched.
Held ==
    /\ touched \subseteq touched'
    /\ \A p \in Paths : p \notin touched' =>
          files'[p] = files[p] /\ index'[p] = index[p] /\ head'[p] = head[p]
    /\ \A e \in Entities : Dir(e) \notin touched' => (e \in dirs' <=> e \in dirs)

\* Where a handler is before it has listed anything, and after it has the status.
Early == {"call", "head", "branch", "counts", "porcelain", "names", "files", "read", "size", "compare", "rename"}
Listing == {"files", "stat", "names", "entity", "compose"}

LEMMA PathParts ==
    ASSUME NEW p \in Paths
    PROVE  /\ p[2] \in Entities /\ p[3] \in FileNames
           /\ p = <<"platforms", p[2], p[3]>> /\ p \in In(p[2])
           /\ \A e : Dir(e) # p
<1>1. PICK e \in Entities, f \in FileNames : p = <<"platforms", e, f>>
  BY DEF Paths
<1>2. p[2] = e /\ p[3] = f
  BY <1>1
<1>3. \A d : Dir(d) # p
  BY <1>1 DEF Dir
<1>. QED
  BY <1>1, <1>2, <1>3 DEF In

LEMMA StepHeld ==
    ASSUME TreeAssumption, Typed, [Next]_vars, \A c \in Calls : ~Begin(c), ~Saving
    PROVE  Held
<1>1. /\ files \in [Paths -> Contents \cup {None}] /\ head \in [Paths -> Contents \cup {None}]
      /\ index \in [Paths -> Contents \cup {None}]
  BY DEF Typed, TypeOK
<1>2. CASE UNCHANGED <<tree, touched>>
  BY <1>2 DEF Held, tree
<1>3. ASSUME NEW p \in Paths, NEW c \in Contents \cup {None}, Edit(p, c)
      PROVE  Held
  BY <1>1, <1>3 DEF Held, Edit, Touch
<1>4. ASSUME NEW e \in Entities, RemoveEntity(e)
      PROVE  Held
  <2>1. /\ touched' = touched \cup (In(e) \cup {Dir(e)})
        /\ dirs' = dirs \ {e} /\ UNCHANGED <<index, head>>
        /\ files' = [p \in Paths |-> IF p \in In(e) THEN None ELSE files[p]]
    BY <1>4 DEF RemoveEntity, Touch
  <2>2. \A p \in Paths : p \notin touched' => files'[p] = files[p]
    BY <1>1, <2>1
  <2>3. \A d \in Entities : Dir(d) \notin touched' => (d \in dirs' <=> d \in dirs)
    BY <2>1
  <2>. QED
    BY <2>1, <2>2, <2>3 DEF Held
<1>5. CASE Stage
  BY <1>1, <1>5 DEF Held, Stage, Touch
<1>6. CASE Commit
  BY <1>1, <1>6 DEF Held, Commit, Touch
<1>7. CASE Push \/ FetchMore
  BY <1>2, <1>7 DEF Push, FetchMore
<1>9. CASE UNCHANGED vars
  BY <1>2, <1>9 DEF vars, history
<1>10. CASE Dispatch
  BY <1>2, <1>10 DEF Dispatch, Fail, Answer, Steps, Elsewhere, history
<1>11. CASE RevParse \/ SymbolicRef \/ RevList \/ Porcelain \/ GitFails
  BY <1>2, <1>11 DEF RevParse, SymbolicRef, RevList, Porcelain, GitFails, Answer, Steps, Elsewhere, history
<1>12. CASE ListEntityNames \/ ListOne \/ CountOne
  BY <1>2, <1>12 DEF ListEntityNames, ListOne, CountOne, Finish, Fail, Answer, Steps, Elsewhere, history
<1>13. CASE ListFiles \/ Stat
  BY <1>2, <1>13 DEF ListFiles, Stat, Fail, Answer, Steps, Elsewhere, history
<1>14. CASE Read \/ ReadReply
  BY <1>2, <1>14 DEF Read, ReadReply, Fail, Answer, Steps, Elsewhere, history
<1>. QED
  BY <1>3, <1>4, <1>5, <1>6, <1>7, <1>9, <1>10, <1>11, <1>12, <1>13, <1>14 DEF Next, Saving

\* A mark of an entity that is as it should be.
EntityMark(e, dirty) ==
    /\ dirty => \E p \in In(e) : Uncommitted(p)
    /\ (\E p \in In(e) : Uncommitted(p) /\ files[p] # None) => dirty

FileMark(p, dirty) == p[3] \notin OddNames => dirty = Uncommitted(p)

Marks ==
    /\ at \in Listing /\ status # {} =>
          /\ \A p \in Paths : Steady({p}) /\ files[p] # None => FileMark(p, p \in Dirty)
          /\ \A e \in Entities : Steady(In(e)) => EntityMark(e, \E d \in Dirty : d[2] = e)
    /\ at \in {"files", "stat"} => status # {}
    /\ at \in Early => entities = {} /\ (call.proc = "list_files" => shown = {})
    /\ call.proc = "list_files" =>
          \A f \in shown : Steady({f.path}) => FileMark(f.path, f.dirty)
    /\ call.proc = "list_entities" =>
          \A i \in entities : Steady(In(i.name)) =>
              IF status = {} THEN ~i.dirty ELSE EntityMark(i.name, i.dirty)

\* A mark stays right as long as its file or entity is untouched.
LEMMA FileMarkHeld ==
    ASSUME Held, NEW p \in Paths, NEW dirty \in BOOLEAN, Steady({p})'
    PROVE  /\ Steady({p}) /\ files'[p] = files[p] /\ Uncommitted(p)' = Uncommitted(p)
           /\ FileMark(p, dirty) => FileMark(p, dirty)'
<1>1. Steady({p}) /\ p \notin touched'
  BY DEF Held, Steady
<1>2. files'[p] = files[p] /\ index'[p] = index[p] /\ head'[p] = head[p]
  BY <1>1 DEF Held
<1>3. Uncommitted(p)' = Uncommitted(p)
  BY <1>2 DEF Uncommitted
<1>. QED
  BY <1>1, <1>2, <1>3 DEF FileMark

LEMMA EntityMarkHeld ==
    ASSUME Held, NEW e \in Entities, NEW dirty \in BOOLEAN, Steady(In(e))'
    PROVE  Steady(In(e)) /\ (EntityMark(e, dirty) => EntityMark(e, dirty)')
<1>1. In(e)' = In(e)
  BY DEF In, Paths
<1>2. Steady(In(e))
  BY <1>1 DEF Held, Steady
<1>3. ASSUME NEW p \in In(e)
      PROVE  files'[p] = files[p] /\ Uncommitted(p)' = Uncommitted(p)
  <2>1. p \in Paths /\ p \notin touched'
    BY <1>1, <1>3 DEF In, Steady
  <2>2. files'[p] = files[p] /\ index'[p] = index[p] /\ head'[p] = head[p]
    BY <2>1 DEF Held
  <2>. QED
    BY <2>2 DEF Uncommitted
<1>. QED
  BY <1>1, <1>2, <1>3 DEF EntityMark

LEMMA MarksInit == ASSUME Init PROVE Marks
BY DEF Init, Marks, Listing

\* Steps that add nothing to what is shown, and leave the status alone.
LEMMA MarksKept ==
    ASSUME Typed, Typed', Marks, Held, UNCHANGED <<call, status>>,
           call.proc = "list_files" => shown' = shown,
           call.proc = "list_entities" => entities' = entities,
           at' \in Listing => at \in Listing,
           at' \in {"files", "stat"} => at \in {"files", "stat"},
           at' \in Early => entities' = {} /\ (call.proc = "list_files" => shown' = {})
    PROVE  Marks'
<1>1. Dirty' = Dirty
  BY DEF Dirty
<1>2. ASSUME at' \in Listing, status' # {}
      PROVE  /\ \A p \in Paths : Steady({p})' /\ files'[p] # None => FileMark(p, p \in Dirty)'
             /\ \A e \in Entities : Steady(In(e))' => EntityMark(e, \E d \in Dirty : d[2] = e)'
  <2>1. at \in Listing /\ status # {}
    BY <1>2
  <2>2. ASSUME NEW p \in Paths, Steady({p})', files'[p] # None
        PROVE  FileMark(p, p \in Dirty)'
    <3>. DEFINE dirty == p \in Dirty
    <3>1. dirty' = dirty /\ dirty \in BOOLEAN
      BY <1>1
    <3>2. FileMark(p, dirty)
      BY <2>1, <2>2, FileMarkHeld DEF Marks
    <3>. HIDE DEF dirty
    <3>3. FileMark(p, dirty)'
      BY <2>2, <3>1, <3>2, FileMarkHeld
    <3>. QED
      BY <3>3 DEF dirty
  <2>3. ASSUME NEW e \in Entities, Steady(In(e))'
        PROVE  EntityMark(e, \E d \in Dirty : d[2] = e)'
    <3>. DEFINE dirty == \E d \in Dirty : d[2] = e
    <3>1. dirty' = dirty /\ dirty \in BOOLEAN
      BY <1>1
    <3>2. EntityMark(e, dirty)
      <4>1. Steady(In(e))
        BY <2>3, EntityMarkHeld
      <4>. QED
        BY <2>1, <4>1 DEF Marks
    <3>. HIDE DEF dirty
    <3>3. EntityMark(e, dirty)'
      BY <2>3, <3>1, <3>2, EntityMarkHeld
    <3>. QED
      BY <3>3 DEF dirty
  <2>. QED
    BY <2>2, <2>3
<1>3. ASSUME call'.proc = "list_files", NEW f \in shown', Steady({f.path})'
      PROVE  FileMark(f.path, f.dirty)'
  <2>1. f \in shown /\ f.path \in Paths
    BY <1>3 DEF Typed, TypeOK, FileInfos, FileReads
  <2>2. Steady({f.path})
    BY <1>3 DEF Held, Steady
  <2>3. FileMark(f.path, f.dirty)
    BY <1>3, <2>1, <2>2 DEF Marks
  <2>4. UNCHANGED Uncommitted(f.path)
    BY <1>3, <2>1, FileMarkHeld
  <2>. QED
    BY <2>3, <2>4 DEF FileMark
<1>4. ASSUME call'.proc = "list_entities", NEW i \in entities', Steady(In(i.name))'
      PROVE  IF status' = {} THEN ~i.dirty ELSE EntityMark(i.name, i.dirty)'
  <2>1. i \in entities /\ i.name \in Entities /\ i.dirty \in BOOLEAN
    BY <1>4 DEF Typed, TypeOK, EntityInfos
  <2>2. Steady(In(i.name))
    BY <1>4, <2>1, EntityMarkHeld
  <2>3. IF status = {} THEN ~i.dirty ELSE EntityMark(i.name, i.dirty)
    BY <1>4, <2>1, <2>2 DEF Marks
  <2>. QED
    BY <1>4, <2>1, <2>3, EntityMarkHeld
<1>5. at' \in {"files", "stat"} => status' # {}
  BY DEF Marks
<1>. QED
  BY <1>2, <1>3, <1>4, <1>5 DEF Marks

\* After git status the marks are what the tree is.
LEMMA PorcelainMarks ==
    ASSUME TreeAssumption, Typed, NEW away \in RenamedAway, NEW s,
           s = [Partial EXCEPT !.dirty = DirtyPaths(away)], at = "porcelain"
    PROVE  /\ \A p \in Paths : files[p] # None => FileMark(p, p \in s.dirty)
           /\ \A e \in Entities : EntityMark(e, \E d \in s.dirty : d[2] = e)
<1>1. s.dirty = DirtyPaths(away)
  <2>1. Partial \in RepoStates
    BY DEF Typed, Work, Partial
  <2>. QED
    BY <2>1 DEF RepoStates
<1>. DEFINE Marked == {q \in Paths : Uncommitted(q) /\ (q \in away => files[q] # None)}
<1>2. s.dirty = {Printed(q) : q \in Marked}
  BY <1>1 DEF DirtyPaths
<1>3. ASSUME NEW p \in Paths, files[p] # None, p[3] \notin OddNames
      PROVE  (p \in s.dirty) = Uncommitted(p)
  <2>1. Printed(p) = p
    BY <1>3 DEF Printed
  <2>2. Uncommitted(p) => p \in s.dirty
    BY <1>2, <1>3, <2>1
  <2>3. ASSUME p \in s.dirty
        PROVE  Uncommitted(p)
    <3>1. PICK q \in Marked : p = Printed(q)
      BY <1>2, <2>3
    <3>2. q \in Paths
      OBVIOUS
    <3>3. q[3] \notin OddNames
      <4>1. SUFFICES ASSUME q[3] \in OddNames PROVE FALSE
        OBVIOUS
      <4>2. p = <<q[1], q[2], "escaped">>
        BY <3>1, <4>1 DEF Printed
      <4>3. p[3] = "escaped"
        BY <4>2
      <4>4. p[3] \in FileNames
        BY PathParts
      <4>. QED
        BY <4>3, <4>4 DEF TreeAssumption
    <3>4. p = q
      BY <3>1, <3>3 DEF Printed
    <3>. QED
      BY <3>4
  <2>. QED
    BY <2>2, <2>3 DEF Uncommitted
<1>4. \A q \in Paths : Printed(q)[2] = q[2]
  <2>1. ASSUME NEW q \in Paths
        PROVE  Printed(q)[2] = q[2]
    BY <2>1, PathParts DEF Printed
  <2>. QED
    BY <2>1
<1>5. ASSUME NEW e \in Entities, NEW d \in s.dirty, d[2] = e
      PROVE  \E p \in In(e) : Uncommitted(p)
  <2>1. PICK q \in Marked : d = Printed(q)
    BY <1>2
  <2>2. q \in In(e)
    BY <1>4, <1>5, <2>1 DEF In
  <2>. QED
    BY <2>1, <2>2
<1>6. ASSUME NEW e \in Entities, NEW p \in In(e), Uncommitted(p), files[p] # None
      PROVE  \E d \in s.dirty : d[2] = e
  <2>1. p \in Marked /\ p[2] = e
    BY <1>6 DEF In
  <2>2. Printed(p) \in s.dirty /\ Printed(p)[2] = e
    BY <1>2, <1>4, <2>1
  <2>. QED
    BY <2>2
<1>. QED
  BY <1>3, <1>5, <1>6 DEF FileMark, EntityMark

LEMMA GitMarks ==
    ASSUME TreeAssumption, Typed, Marks,
           RevParse \/ SymbolicRef \/ RevList \/ Porcelain \/ GitFails
    PROVE  Marks'
<1>1. /\ at \in {"head", "branch", "counts", "porcelain"}
      /\ UNCHANGED <<tree, call, touched, entities, shown, links>>
  BY DEF RevParse, SymbolicRef, RevList, Porcelain, GitFails, InGit, Answer, Steps, Elsewhere,
         history, setting
<1>2. entities = {} /\ (call.proc = "list_files" => shown = {})
  BY <1>1 DEF Marks, Early
<1>3. CASE at' \notin Listing \/ status' = {}
  <2>1. at' \in {"files", "stat"} => status' # {}
    <3>1. GitFails => at' \in {"names", "idle"}
      BY DEF GitFails, Answer, Steps
    <3>2. RevParse \/ SymbolicRef \/ RevList => at' \in {"branch", "counts", "porcelain"}
      BY DEF RevParse, SymbolicRef, RevList, Steps
    <3>3. Porcelain => status' # {}
      BY DEF Porcelain
    <3>. QED
      BY <3>1, <3>2, <3>3
  <2>. QED
    BY <1>1, <1>2, <1>3, <2>1 DEF Marks
<1>4. CASE at' \in Listing /\ status' # {}
  <2>1. Porcelain
    BY <1>4 DEF RevParse, SymbolicRef, RevList, GitFails, Steps, Answer, Listing
  <2>2. PICK away \in RenamedAway : status' = {[Partial EXCEPT !.dirty = DirtyPaths(away)]}
    BY <2>1 DEF Porcelain
  <2>. DEFINE s == [Partial EXCEPT !.dirty = DirtyPaths(away)]
  <2>3. /\ \A p \in Paths : files[p] # None => FileMark(p, p \in s.dirty)
        /\ \A e \in Entities : EntityMark(e, \E d \in s.dirty : d[2] = e)
    BY <2>1, PorcelainMarks DEF Porcelain
  <2>4. status' = {s}
    BY <2>2
  <2>. HIDE DEF s
  <2>5. Dirty' = s.dirty
    BY <2>4 DEF Dirty
  <2>6. /\ \A p \in Paths : files'[p] # None => FileMark(p, p \in Dirty)'
        /\ \A e \in Entities : EntityMark(e, \E d \in Dirty : d[2] = e)'
    BY <1>1, <2>3, <2>5 DEF FileMark, EntityMark, Uncommitted, tree, In
  <2>. QED
    BY <1>1, <1>2, <2>4, <2>6 DEF Marks
<1>. QED
  BY <1>3, <1>4

LEMMA ListMarks ==
    ASSUME TreeAssumption, Typed, Typed', Marks, Held, ListEntityNames \/ ListOne \/ CountOne
    PROVE  Marks'
<1>1. /\ at \in {"names", "entity", "compose"} /\ call.proc = "list_entities"
      /\ UNCHANGED <<tree, call, touched, status, shown, links>>
  <2>1. at \in {"names", "entity", "compose"}
    BY DEF ListEntityNames, ListOne, CountOne
  <2>2. UNCHANGED <<tree, call, touched, status, shown, links>>
    BY DEF ListEntityNames, ListOne, CountOne, Finish, Fail, Answer, Steps, Elsewhere, history, setting
  <2>. QED
    BY <2>1, <2>2 DEF Typed, Where
<1>2. at' \in {"idle", "entity", "compose"}
  BY DEF ListEntityNames, ListOne, CountOne, Finish, Fail, Answer, Steps
<1>3. CASE UNCHANGED entities
  BY <1>1, <1>2, <1>3, MarksKept DEF Listing, Early
<1>4. ASSUME \A i \in entities' : Steady(In(i.name))' =>
                 IF status' = {} THEN ~i.dirty ELSE EntityMark(i.name, i.dirty)'
      PROVE  Marks'
  <2>1. Dirty' = Dirty
    BY <1>1 DEF Dirty
  <2>2. /\ \A p \in Paths : FileMark(p, p \in Dirty) => FileMark(p, p \in Dirty)'
        /\ \A e \in Entities : EntityMark(e, \E d \in Dirty : d[2] = e)
                                  => EntityMark(e, \E d \in Dirty : d[2] = e)'
        /\ \A S : Steady(S)' => Steady(S)
    BY <1>1, <2>1 DEF FileMark, EntityMark, Uncommitted, tree, In, Steady
  <2>3. at' \notin Early /\ at \in Listing /\ at' \notin {"files", "stat"} /\ files' = files
    BY <1>1, <1>2 DEF Early, Listing, tree
  <2>4. status' # {} =>
           /\ \A p \in Paths : Steady({p})' /\ files'[p] # None => FileMark(p, p \in Dirty)'
           /\ \A e \in Entities : Steady(In(e))' => EntityMark(e, \E d \in Dirty : d[2] = e)'
    <3>1. UNCHANGED <<status, touched>> /\ \A e : In(e)' = In(e)
      BY <1>1 DEF In
    <3>. QED
      BY <2>2, <2>3, <3>1 DEF Marks, Steady
  <2>. QED
    BY <1>1, <1>4, <2>3, <2>4 DEF Marks
<1>5. \A i \in entities : i.name \in Entities /\ i.dirty \in BOOLEAN
  BY DEF Typed, TypeOK, EntityInfos
<1>6. ASSUME NEW i \in entities, Steady(In(i.name))'
      PROVE  IF status' = {} THEN ~i.dirty ELSE EntityMark(i.name, i.dirty)'
  <2>1. Steady(In(i.name))
    BY <1>5, <1>6, EntityMarkHeld
  <2>2. IF status = {} THEN ~i.dirty ELSE EntityMark(i.name, i.dirty)
    BY <1>1, <2>1 DEF Marks
  <2>3. EntityMark(i.name, i.dirty) => EntityMark(i.name, i.dirty)'
    BY <1>5, <1>6, EntityMarkHeld
  <2>. QED
    BY <1>1, <2>2, <2>3
<1>7. CASE ListOne /\ ~UNCHANGED entities
  <2>1. PICK e \in Entities : e = Entity
    BY <1>7 DEF ListOne, Fail, Typed, Work, Entity
  <2>. DEFINE dirty == \E p \in Dirty : p[2] = e
  <2>2. PICK info : /\ entities' = entities \cup {info}
                    /\ info.name = e /\ info.dirty = dirty
    <3>. DEFINE i == [name |-> Entity, fileCount |-> Cardinality(ListEntityFiles(Entity)),
                     readme |-> \E p \in ListEntityFiles(Entity) : p[3] \in ReadmeNames,
                     dirty |-> \E p \in Dirty : p[2] = Entity, services |-> {}]
    <3>1. entities' = entities \cup {i}
      BY <1>7 DEF ListOne, Fail
    <3>2. i.name = e /\ i.dirty = dirty
      BY <2>1
    <3>. QED
      BY <3>1, <3>2
  <2>3. dirty \in BOOLEAN /\ UNCHANGED dirty
    BY <1>1 DEF Dirty
  <2>4. ASSUME Steady(In(e))'
        PROVE  IF status' = {} THEN ~dirty ELSE EntityMark(e, dirty)'
    <3>1. CASE status = {}
      BY <1>1, <3>1 DEF Dirty
    <3>2. CASE status # {}
      <4>1. Steady(In(e))
        BY <2>4, EntityMarkHeld
      <4>2. EntityMark(e, dirty)
        BY <1>1, <3>2, <4>1 DEF Marks, Listing
      <4>. HIDE DEF dirty
      <4>3. EntityMark(e, dirty)'
        BY <2>3, <2>4, <4>2, EntityMarkHeld
      <4>. QED
        BY <1>1, <3>2, <4>3
    <3>. QED
      BY <3>1, <3>2
  <2>. HIDE DEF dirty
  <2>5. ASSUME NEW i \in entities', Steady(In(i.name))'
        PROVE  IF status' = {} THEN ~i.dirty ELSE EntityMark(i.name, i.dirty)'
    <3>1. CASE i \in entities
      BY <1>6, <2>5, <3>1
    <3>2. CASE i = info
      <4>1. i.name = e /\ i.dirty = dirty
        BY <2>2, <3>2
      <4>2. Steady(In(e))'
        BY <2>5, <4>1
      <4>3. UNCHANGED dirty
        BY <2>3
      <4>. QED
        BY <2>4, <4>1, <4>2, <4>3 DEF EntityMark
    <3>. QED
      BY <2>2, <2>5, <3>1, <3>2
  <2>. QED
    BY <1>4, <2>5
<1>8. ASSUME NEW count, Finish(count)
      PROVE  Marks'
  <2>1. \A i \in entities : [i EXCEPT !.services = count].name = i.name
                               /\ [i EXCEPT !.services = count].dirty = i.dirty
    BY DEF Typed, TypeOK, EntityInfos
  <2>2. ASSUME NEW j \in entities'
        PROVE  \E i \in entities : j.name = i.name /\ j.dirty = i.dirty
    <3>1. PICK i \in entities : j = IF i.name = Entity THEN [i EXCEPT !.services = count] ELSE i
      BY <1>8 DEF Finish
    <3>. QED
      BY <2>1, <3>1
  <2>. QED
    BY <1>4, <1>6, <2>2
<1>9. ListEntityNames => UNCHANGED entities
  BY DEF ListEntityNames
<1>10. CountOne => UNCHANGED entities \/ \E count : Finish(count)
  BY DEF CountOne
<1>. QED
  BY <1>3, <1>7, <1>8, <1>9, <1>10

LEMMA FilesMarks ==
    ASSUME TreeAssumption, Typed, Typed', Marks, Held, ListFiles \/ Stat
    PROVE  Marks'
<1>1. /\ at \in {"files", "stat"} /\ call.proc = "list_files"
      /\ UNCHANGED <<tree, call, touched, status, entities, links>>
  <2>1. at \in {"files", "stat"}
    BY DEF ListFiles, Stat
  <2>2. UNCHANGED <<tree, call, touched, status, entities, links>>
    BY DEF ListFiles, Stat, Fail, Answer, Steps, Elsewhere, history, setting
  <2>. QED
    BY <2>1, <2>2 DEF Typed, Where
<1>2. at' \in {"idle", "stat"}
  BY DEF ListFiles, Stat, Fail, Answer, Steps
<1>3. CASE UNCHANGED shown
  BY <1>1, <1>2, <1>3, MarksKept DEF Listing, Early
<1>4. CASE Stat /\ ~UNCHANGED shown
  <2>. DEFINE p == CHOOSE q \in paths : TRUE
              rel == RealPath(Live, p)
  <2>1. rel \in Paths /\ files[rel] # None /\ shown' = shown \cup {FileInfo(p)}
    BY <1>4 DEF Stat, Fail
  <2>2. FileInfo(p).path = rel /\ FileInfo(p).dirty = (rel \in Dirty)
    BY DEF FileInfo
  <2>. HIDE DEF rel, p
  <2>3. /\ Dirty' = Dirty /\ files' = files
        /\ \A q : Uncommitted(q)' = Uncommitted(q)
        /\ \A S : Steady(S)' = Steady(S)
    BY <1>1 DEF Dirty, tree, Uncommitted, Steady
  <2>4. Steady({rel}) => FileMark(rel, rel \in Dirty)
    BY <1>1, <2>1 DEF Marks, Listing
  <2>5. ASSUME NEW f \in shown', Steady({f.path})'
        PROVE  FileMark(f.path, f.dirty)'
    <3>1. Steady({f.path})
      BY <2>3, <2>5
    <3>2. FileMark(f.path, f.dirty)
      <4>1. CASE f \in shown
        BY <1>1, <3>1, <4>1 DEF Marks
      <4>2. CASE f = FileInfo(p)
        BY <2>2, <2>4, <3>1, <4>2
      <4>. QED
        BY <2>1, <2>5, <4>1, <4>2
    <3>. QED
      BY <2>3, <3>2 DEF FileMark
  <2>6. /\ at \in Listing /\ status # {} /\ at' \notin Early /\ call'.proc # "list_entities"
        /\ status' # {}
    BY <1>1, <1>2 DEF Listing, Early, Marks
  <2>7. /\ \A q \in Paths : Steady({q})' /\ files'[q] # None => FileMark(q, q \in Dirty)'
        /\ \A e \in Entities : Steady(In(e))' => EntityMark(e, \E d \in Dirty : d[2] = e)'
    <3>1. \A e : In(e)' = In(e)
      BY DEF In
    <3>2. /\ \A q \in Paths : Steady({q}) /\ files[q] # None => FileMark(q, q \in Dirty)
          /\ \A e \in Entities : Steady(In(e)) => EntityMark(e, \E d \in Dirty : d[2] = e)
      BY <2>6 DEF Marks
    <3>. QED
      BY <2>3, <3>1, <3>2 DEF FileMark, EntityMark
  <2>. QED
    BY <2>5, <2>6, <2>7 DEF Marks
<1>5. ListFiles => UNCHANGED shown
  BY DEF ListFiles, Fail
<1>. QED
  BY <1>3, <1>4, <1>5

LEMMA StepMarks == ASSUME TreeAssumption, Typed, Marks, [Next]_vars PROVE Marks'
<1>0. Typed'
  BY StepTyped
<1>1. ASSUME NEW c \in Calls, Begin(c)
      PROVE  Marks'
  BY <1>1 DEF Begin, Marks, Listing
<1>2. CASE (\A c \in Calls : ~Begin(c)) /\ ~Saving
  <2>1. Held
    BY <1>2, StepHeld
  <2>2. CASE \/ \E p \in Paths, c \in Contents \cup {None} : Edit(p, c)
             \/ \E e \in Entities : RemoveEntity(e)
             \/ Stage \/ Commit \/ Push \/ FetchMore
    <3>1. UNCHANGED <<call, at, status, entities, shown>>
      BY <2>2, PeopleTyped DEF handler, answer
    <3>. QED
      BY <1>0, <2>1, <3>1, MarksKept DEF Marks
  <2>3. CASE UNCHANGED vars
    <3>1. UNCHANGED <<call, at, status, entities, shown>>
      BY <2>3 DEF vars, handler, answer
    <3>. QED
      BY <1>0, <2>1, <3>1, MarksKept DEF Marks
  <2>4. CASE Dispatch
    <3>1. /\ at = "call" /\ at' \in {"idle", "head", "read", "compare"}
          /\ UNCHANGED <<call, status, entities, shown>>
      BY <2>4 DEF Dispatch, Fail, Answer, Steps, Elsewhere, answer
    <3>. QED
      BY <1>0, <2>1, <3>1, MarksKept DEF Marks, Early, Listing
  <2>5. CASE Read \/ ReadReply
    <3>1. at \in {"read", "size"} /\ at' \in {"idle", "size"} /\ UNCHANGED <<call, status, entities>>
      BY <2>5 DEF Read, ReadReply, Fail, Answer, Steps, Elsewhere
    <3>2. call.proc = "read_file"
      BY <3>1 DEF Typed, Where
    <3>. QED
      BY <1>0, <2>1, <3>1, <3>2, MarksKept DEF Marks, Early, Listing
  <2>7. CASE RevParse \/ SymbolicRef \/ RevList \/ Porcelain \/ GitFails
    BY <2>7, GitMarks
  <2>8. CASE ListEntityNames \/ ListOne \/ CountOne
    BY <1>0, <2>1, <2>8, ListMarks
  <2>9. CASE ListFiles \/ Stat
    BY <1>0, <2>1, <2>9, FilesMarks
  <2>. QED
    BY <1>2, <2>2, <2>3, <2>4, <2>5, <2>7, <2>8, <2>9 DEF Next, Saving
<1>3. CASE Saving
  BY <1>3, SavingSteps DEF Marks, Early, Listing
<1>. QED
  BY <1>1, <1>2, <1>3

\* The marks of list_files and list_entities are those of the tree, for what
\* nobody touched while the call went on.
THEOREM MarksAreRight == Spec => []DirtyMarks
<1>1. Init => Typed /\ Marks
  BY InitTyped, MarksInit, TreeAssumption
<1>2. Typed /\ Marks /\ [Next]_vars => Typed' /\ Marks'
  BY StepTyped, StepMarks, TreeAssumption
<1>3. Typed /\ Marks => DirtyMarks
  <2>1. ASSUME Marks, Answered("list_files"), NEW f \in shown, Steady({f.path}),
               f.path[3] \notin OddNames
        PROVE  f.dirty = Uncommitted(f.path)
    BY <2>1 DEF Marks, FileMark, Answered
  <2>2. ASSUME Marks, Answered("list_entities"), NEW e \in entities, Steady(In(e.name))
        PROVE  IF status = {} THEN ~e.dirty ELSE EntityMark(e.name, e.dirty)
    BY <2>2 DEF Marks, Answered
  <2>. QED
    BY <2>1, <2>2 DEF DirtyMarks, EntityMark
<1>. QED
  BY <1>1, <1>2, <1>3, PTL DEF Spec

-----------------------------------------------------------------------------
(* What the two listings hold, while they are made and when they are done:   *)
(* S is what is still to be looked at.                                       *)

EntitiesListed(S) ==
    \A e \in Entities : Steady({Dir(e)}) =>
        (e \in dirs <=> e \in S \/ \E i \in entities : i.name = e)

FilesListed(S) ==
    \A p \in In(call.entity) : Steady({p}) /\ AllowedName(p) =>
        (files[p] # None <=> p \in S \/ \E f \in shown : f.name = p[3])

Lists ==
    /\ at \in {"entity", "compose"} => EntitiesListed(todo)
    /\ at = "compose" => \E i \in entities : i.name = Entity
    /\ Answered("list_entities") => EntitiesListed({})
    /\ at = "stat" => FilesListed(paths) /\ paths \subseteq In(call.entity) \cup DOMAIN links
    /\ Answered("list_files") => FilesListed({})

LEMMA EntitiesListedHeld ==
    ASSUME Held, NEW S, EntitiesListed(S), entities' = entities
    PROVE  EntitiesListed(S)'
<1>. SUFFICES ASSUME NEW e \in Entities, Steady({Dir(e)})'
              PROVE  e \in dirs' <=> e \in S \/ \E i \in entities : i.name = e
  BY DEF EntitiesListed, Dir
<1>1. Dir(e) \notin touched' /\ Steady({Dir(e)})
  BY DEF Held, Steady, Dir
<1>. QED
  BY <1>1 DEF Held, EntitiesListed

LEMMA FilesListedHeld ==
    ASSUME Held, NEW S, FilesListed(S), shown' = shown, call' = call
    PROVE  FilesListed(S)'
<1>1. In(call.entity)' = In(call.entity) /\ In(call.entity) \subseteq Paths
  BY DEF In
<1>. SUFFICES ASSUME NEW p \in In(call.entity), Steady({p})', AllowedName(p)
              PROVE  files'[p] # None <=> p \in S \/ \E f \in shown : f.name = p[3]
  BY <1>1 DEF FilesListed, AllowedName
<1>2. p \notin touched' /\ Steady({p})
  BY DEF Held, Steady
<1>3. files'[p] = files[p]
  BY <1>1, <1>2 DEF Held
<1>. QED
  BY <1>2, <1>3 DEF FilesListed

\* People at work, and steps of other procedures.
LEMMA ListsKept ==
    ASSUME Held, Lists, UNCHANGED <<call, at, code, links, todo, paths, entities, shown>>
    PROVE  Lists'
<1>1. PICK S, T : S = todo /\ T = paths
  OBVIOUS
<1>2. EntitiesListed(S) => EntitiesListed(S)'
  BY EntitiesListedHeld
<1>3. EntitiesListed({}) => EntitiesListed({})'
  BY EntitiesListedHeld
<1>4. FilesListed(T) => FilesListed(T)'
  BY FilesListedHeld
<1>5. FilesListed({}) => FilesListed({})'
  BY FilesListedHeld
<1>6. EntitiesListed(todo) => EntitiesListed(todo)'
  BY <1>1, <1>2 DEF EntitiesListed
<1>7. FilesListed(paths) => FilesListed(paths)'
  BY <1>1, <1>4 DEF FilesListed
<1>8. (\E i \in entities : i.name = Entity) => (\E i \in entities : i.name = Entity)'
  BY DEF Entity
<1>9. In(call.entity)' = In(call.entity)
  BY DEF In
<1>. QED
  BY <1>3, <1>5, <1>6, <1>7, <1>8, <1>9 DEF Lists, Answered

LEMMA ListsElsewhere ==
    ASSUME at' \notin {"entity", "compose", "stat"},
           ~(at' = "idle" /\ code' = "OK" /\ call'.proc \in {"list_entities", "list_files"})
    PROVE  Lists'
BY DEF Lists, Answered

LEMMA EntityLists ==
    ASSUME TreeAssumption, Typed, Marks, Lists, ListEntityNames \/ ListOne \/ CountOne
    PROVE  Lists'
<1>1. /\ call.proc = "list_entities" /\ UNCHANGED <<dirs, call, touched>>
      /\ call'.proc = "list_entities" /\ at' # "stat"
  <2>1. at \in {"names", "entity", "compose"}
    BY DEF ListEntityNames, ListOne, CountOne
  <2>2. UNCHANGED <<dirs, call, touched>>
    BY DEF ListEntityNames, ListOne, CountOne, Finish, Fail, Answer, Steps, Elsewhere, history, tree
  <2>3. at' # "stat"
    BY DEF ListEntityNames, ListOne, CountOne, Finish, Fail, Answer, Steps
  <2>. QED
    BY <2>1, <2>2, <2>3 DEF Typed, Where
<1>2. CASE ListEntityNames
  <2>1. entities = {} /\ entities' = {} /\ todo' = dirs
    BY <1>2 DEF ListEntityNames, Marks, Early
  <2>2. at' # "compose" /\ (at' = "idle" => dirs = {})
    BY <1>2 DEF ListEntityNames, Answer, Steps
  <2>. QED
    BY <1>1, <2>1, <2>2 DEF Lists, EntitiesListed, Answered
<1>3. CASE ListOne
  <2>1. CASE at' # "compose"
    <3>1. at' = "idle" /\ code' = "NOT_FOUND"
      BY <1>3, <2>1 DEF ListOne, Fail, Answer, Steps
    <3>. QED
      BY <3>1, ListsElsewhere
  <2>2. CASE at' = "compose"
    <3>. DEFINE info == [name |-> Entity, fileCount |-> Cardinality(ListEntityFiles(Entity)),
                        readme |-> \E p \in ListEntityFiles(Entity) : p[3] \in ReadmeNames,
                        dirty |-> \E p \in Dirty : p[2] = Entity, services |-> {}]
    <3>1. entities' = entities \cup {info} /\ todo' = todo /\ at = "entity"
      BY <1>3, <2>2 DEF ListOne, Fail, Answer, Steps
    <3>2. info.name = Entity
      OBVIOUS
    <3>3. Entity \in todo
      BY <3>1 DEF Entity, Typed, Work
    <3>. HIDE DEF info
    <3>4. Entity' = Entity
      BY <3>1 DEF Entity
    <3>5. EntitiesListed(todo)'
      BY <1>1, <3>1, <3>2, <3>3 DEF Lists, EntitiesListed, Steady
    <3>6. \E i \in entities' : i.name = Entity'
      BY <3>1, <3>2, <3>4
    <3>. QED
      BY <2>2, <3>5, <3>6 DEF Lists, Answered
  <2>. QED
    BY <2>1, <2>2
<1>4. CASE CountOne
  <2>1. /\ at = "compose" /\ EntitiesListed(todo) /\ \E i \in entities : i.name = Entity
    BY <1>4 DEF CountOne, Lists
  <2>2. ASSUME NEW count, Finish(count)
        PROVE  Lists'
    <3>1. /\ todo' = todo \ {Entity}
          /\ IF todo = {Entity} THEN at' = "idle" ELSE at' = "entity"
      BY <2>2 DEF Finish, Answer, Steps
    <3>2. \A i \in entities : [i EXCEPT !.services = count].name = i.name
      BY DEF Typed, TypeOK, EntityInfos
    <3>3. \A e : (\E i \in entities' : i.name = e) <=> (\E i \in entities : i.name = e)
      <4>. DEFINE Done(i) == IF i.name = Entity THEN [i EXCEPT !.services = count] ELSE i
      <4>1. \A i \in entities : Done(i).name = i.name
        BY <3>2
      <4>2. entities' = {Done(i) : i \in entities}
        BY <2>2 DEF Finish
      <4>. HIDE DEF Done
      <4>. QED
        BY <4>1, <4>2
    <3>4. EntitiesListed(todo)'
      BY <1>1, <2>1, <3>1, <3>3 DEF EntitiesListed, Steady
    <3>5. at' = "idle" => EntitiesListed({})'
      BY <3>1, <3>4 DEF EntitiesListed
    <3>. QED
      BY <1>1, <3>1, <3>4, <3>5 DEF Lists, Answered
  <2>3. CASE UNCHANGED <<entities, todo>> /\ at' = "compose"
    <3>1. Entity' = Entity
      BY <2>3 DEF Entity
    <3>2. EntitiesListed(todo)'
      BY <1>1, <2>1, <2>3 DEF EntitiesListed, Steady
    <3>. QED
      BY <2>1, <2>3, <3>1, <3>2 DEF Lists, Answered
  <2>. QED
    BY <1>4, <2>2, <2>3 DEF CountOne, Steps
<1>. QED
  BY <1>2, <1>3, <1>4

LEMMA FileLists ==
    ASSUME TreeAssumption, Typed, Marks, Lists, ListFiles \/ Stat
    PROVE  Lists'
<1>1. /\ call.proc = "list_files" /\ UNCHANGED <<files, call, touched, links>>
      /\ call'.proc = "list_files" /\ links \in LinkSets
      /\ at' \in {"idle", "stat"} /\ In(call.entity)' = In(call.entity)
  <2>1. at \in {"files", "stat"}
    BY DEF ListFiles, Stat
  <2>2. UNCHANGED <<files, call, touched, links>>
    BY DEF ListFiles, Stat, Fail, Answer, Steps, Elsewhere, history, tree, setting
  <2>3. at' \in {"idle", "stat"}
    BY DEF ListFiles, Stat, Fail, Answer, Steps
  <2>. QED
    BY <2>1, <2>2, <2>3 DEF Typed, Where, TypeOK, In
<1>2. \A p \in In(call.entity) : p \notin DOMAIN links
  <2>1. ASSUME NEW p \in In(call.entity), p \in DOMAIN links
        PROVE  FALSE
    <3>1. p[3] \in FileNames
      BY PathParts DEF In
    <3>2. p[3] \notin FileNames
      BY <1>1, <2>1 DEF TreeAssumption
    <3>. QED
      BY <3>1, <3>2
  <2>. QED
    BY <2>1
<1>3. CASE at' = "idle" /\ code' # "OK"
  BY <1>3, ListsElsewhere
<1>4. ASSUME FilesListed(paths)', paths' \subseteq In(call.entity) \cup DOMAIN links,
             at' = "idle" => paths' = {}
      PROVE  Lists'
  BY <1>1, <1>4 DEF Lists, Answered, FilesListed
<1>5. CASE ListFiles /\ ~(at' = "idle" /\ code' # "OK")
  <2>1. shown = {} /\ shown' = {} /\ paths' = ListEntityFiles(call.entity)
    BY <1>1, <1>5 DEF ListFiles, Fail, Answer, Steps, Marks, Early
  <2>2. at' = "idle" => paths' = {}
    BY <1>5 DEF ListFiles, Fail, Answer, Steps
  <2>3. \A p \in In(call.entity) :
           p \in ListEntityFiles(call.entity) <=> files[p] # None /\ AllowedName(p)
    BY <1>2 DEF ListEntityFiles, Live
  <2>4. ListEntityFiles(call.entity) \subseteq In(call.entity) \cup DOMAIN links
    BY DEF ListEntityFiles, Live
  <2>5. FilesListed(paths)'
    BY <1>1, <2>1, <2>3 DEF FilesListed, AllowedName
  <2>. QED
    BY <1>4, <2>1, <2>2, <2>4, <2>5
<1>6. CASE Stat /\ ~(at' = "idle" /\ code' # "OK")
  <2>1. PICK q \in paths : /\ shown' = shown \cup {FileInfo(q)} /\ paths' = paths \ {q}
                           /\ at' = "idle" => paths = {q}
    <3>1. (CHOOSE p \in paths : TRUE) \in paths
      BY <1>6 DEF Stat, Typed, Work
    <3>. QED
      BY <1>6, <3>1 DEF Stat, Fail, Answer, Steps
  <2>2. FilesListed(paths) /\ paths \subseteq In(call.entity) \cup DOMAIN links
    BY <1>6 DEF Stat, Lists
  <2>3. FileInfo(q).name = q[3]
    BY DEF FileInfo
  <2>4. ASSUME NEW p \in In(call.entity), p[3] = q[3]
        PROVE  p = q
    <3>1. p \in Paths /\ p = <<"platforms", p[2], p[3]>> /\ p[2] = call.entity /\ p[3] \in FileNames
      BY PathParts DEF In
    <3>2. CASE q \in DOMAIN links
      BY <1>1, <2>4, <3>1, <3>2 DEF TreeAssumption
    <3>3. CASE q \in In(call.entity)
      <4>1. q = <<"platforms", q[2], q[3]>> /\ q[2] = call.entity
        BY <3>3, PathParts DEF In
      <4>. QED
        BY <2>4, <3>1, <4>1
    <3>. QED
      BY <2>2, <3>2, <3>3
  <2>5. ASSUME NEW p \in In(call.entity)
        PROVE  (p \in paths' \/ \E f \in shown' : f.name = p[3])
                   <=> (p \in paths \/ \E f \in shown : f.name = p[3])
    BY <2>1, <2>3, <2>4, <2>5
  <2>6. FilesListed(paths)'
    BY <1>1, <2>2, <2>5 DEF FilesListed, Steady, AllowedName
  <2>. QED
    BY <1>4, <2>1, <2>2, <2>6
<1>. QED
  BY <1>3, <1>5, <1>6

LEMMA StepLists == ASSUME TreeAssumption, Typed, Marks, Lists, [Next]_vars PROVE Lists'
<1>1. ASSUME NEW c \in Calls, Begin(c)
      PROVE  Lists'
  BY <1>1, ListsElsewhere DEF Begin
<1>2. CASE (\A c \in Calls : ~Begin(c)) /\ ~Saving
  <2>1. Held
    BY <1>2, StepHeld
  <2>2. CASE \/ \E p \in Paths, c \in Contents \cup {None} : Edit(p, c)
             \/ \E e \in Entities : RemoveEntity(e)
             \/ Stage \/ Commit \/ Push \/ FetchMore
    <3>1. UNCHANGED <<call, at, code, links, todo, paths, entities, shown>>
      BY <2>2, PeopleTyped DEF handler, answer, work, setting
    <3>. QED
      BY <2>1, <3>1, ListsKept
  <2>3. CASE UNCHANGED vars
    <3>1. UNCHANGED <<call, at, code, links, todo, paths, entities, shown>>
      BY <2>3 DEF vars, handler, answer, work, setting
    <3>. QED
      BY <2>1, <3>1, ListsKept
  <2>4. CASE Dispatch
    BY <2>4, ListsElsewhere DEF Dispatch, Fail, Answer, Steps
  <2>5. CASE Read \/ ReadReply
    <3>1. at \in {"read", "size"} /\ at' \in {"idle", "size"} /\ call' = call
      BY <2>5 DEF Read, ReadReply, Fail, Answer, Steps, Elsewhere
    <3>2. call.proc = "read_file"
      BY <3>1 DEF Typed, Where
    <3>. QED
      BY <3>1, <3>2, ListsElsewhere
  <2>7. CASE RevParse \/ SymbolicRef \/ RevList
    BY <2>7, ListsElsewhere DEF RevParse, SymbolicRef, RevList, Steps
  <2>8. CASE Porcelain
    <3>1. at' = Then /\ call' = call
      BY <2>8 DEF Porcelain, Steps, Elsewhere
    <3>2. /\ Then \in {"names", "files", "idle"}
          /\ Then = "idle" => call.proc \notin {"list_entities", "list_files"}
      BY DEF Then
    <3>. QED
      BY <3>1, <3>2, ListsElsewhere
  <2>9. CASE GitFails
    BY <2>9, ListsElsewhere DEF GitFails, Answer, Steps, Elsewhere
  <2>10. CASE ListEntityNames \/ ListOne \/ CountOne
    BY <2>10, EntityLists
  <2>11. CASE ListFiles \/ Stat
    BY <2>11, FileLists
  <2>. QED
    BY <1>2, <2>2, <2>3, <2>4, <2>5, <2>7, <2>8, <2>9, <2>10, <2>11 DEF Next, Saving
<1>3. CASE Saving
  BY <1>3, SavingSteps, ListsElsewhere
<1>. QED
  BY <1>1, <1>2, <1>3

\* list_entities and list_files answer with what is there: a directory or file
\* that nobody touched during the call is in the listing exactly if it is there.
THEOREM ListingsAreComplete == Spec => []ListsWhatIsThere
<1>1. Init => Typed /\ Marks /\ Lists
  <2>1. Init => Lists
    BY DEF Init, Lists, Answered, None
  <2>. QED
    BY <2>1, InitTyped, MarksInit, TreeAssumption
<1>2. Typed /\ Marks /\ Lists /\ [Next]_vars => Typed' /\ Marks' /\ Lists'
  BY StepTyped, StepMarks, StepLists, TreeAssumption
<1>3. Lists => ListsWhatIsThere
  BY DEF Lists, EntitiesListed, FilesListed, ListsWhatIsThere
<1>. QED
  BY <1>1, <1>2, <1>3, PTL DEF Spec

-----------------------------------------------------------------------------
(* The flags of files.                                                     *)

\* A set of numbers has a least one: induction over data, as the provers can use it.
LEMMA LeastElement ==
    ASSUME NEW T, T \subseteq Nat, T # {}
    PROVE  \E x \in T : \A y \in T : x <= y
<1>. DEFINE R == OpToRel(<, Nat)
<1>1. IsWellFoundedOn(R, Nat)
  BY NatLessThanWellFounded
<1>2. \A x, y \in Nat : x < y => <<x, y>> \in R
  BY DEF OpToRel
<1>. HIDE DEF R
<1>3. PICK x \in T : \A y \in T : ~ (<<y, x>> \in R)
  BY <1>1, WFMin
<1>4. \A y \in T : ~ (y < x)
  BY <1>2, <1>3
<1>. QED
  BY <1>3, <1>4

-----------------------------------------------------------------------------
\* What MatchSegments means from part i + 1 of the path and segment j + 1 of the
\* glob on.
MeansFrom(path, glob, i, j) ==
    \E cut \in [j .. Len(glob) -> 0 .. Len(path)] :
        /\ cut[j] = i /\ cut[Len(glob)] = Len(path)
        /\ \A k \in j + 1 .. Len(glob) :
              IF glob[k].deep THEN cut[k] >= cut[k - 1]
              ELSE cut[k] = cut[k - 1] + 1 /\ path[cut[k]] \in glob[k].names

\* The equation of the recursion.
Unfold(path, glob, i, j) ==
    IF j = Len(glob) THEN i = Len(path)
    ELSE IF glob[j + 1].deep
         THEN MeansFrom(path, glob, i, j + 1) \/ (i < Len(path) /\ MeansFrom(path, glob, i + 1, j))
         ELSE i < Len(path) /\ path[i + 1] \in glob[j + 1].names /\ MeansFrom(path, glob, i + 1, j + 1)

\* A cutting of the rest of the path is one of a shorter rest.
LEMMA MeansUnfolds ==
    ASSUME NEW path, NEW glob, Len(path) \in Nat, Len(glob) \in Nat,
           NEW i \in 0 .. Len(path), NEW j \in 0 .. Len(glob)
    PROVE  MeansFrom(path, glob, i, j) <=> Unfold(path, glob, i, j)
<1>. DEFINE m == Len(path)
            n == Len(glob)
            Fits(cut, k) == IF glob[k].deep THEN cut[k] >= cut[k - 1]
                            ELSE cut[k] = cut[k - 1] + 1 /\ path[cut[k]] \in glob[k].names
            Cuts(cut, h, l) == /\ cut \in [l .. n -> 0 .. m] /\ cut[l] = h /\ cut[n] = m
                               /\ \A k \in l + 1 .. n : Fits(cut, k)
<1>1. \A h, l : MeansFrom(path, glob, h, l) <=> \E cut : Cuts(cut, h, l)
  BY DEF MeansFrom
<1>2. CASE j = n
  <2>1. i = m => Cuts([k \in n .. n |-> m], i, n)
    <3>. DEFINE c == [k \in n .. n |-> m]
    <3>1. c \in [n .. n -> 0 .. m] /\ c[n] = m /\ n + 1 .. n = {}
      OBVIOUS
    <3>. HIDE DEF c
    <3>. QED
      BY <3>1
  <2>2. MeansFrom(path, glob, i, j) => i = m
    BY <1>1, <1>2
  <2>. HIDE DEF Cuts
  <2>3. i = m => MeansFrom(path, glob, i, j)
    BY <1>1, <1>2, <2>1
  <2>. QED
    BY <1>2, <2>2, <2>3 DEF Unfold
<1>3. CASE j < n
  <2>0. /\ \A k \in j + 1 .. n : k = j + 1 \/ k \in j + 2 .. n
        /\ \A k \in j + 2 .. n : k \in j + 1 .. n
    BY <1>3
  <2>1. ASSUME NEW h \in 0 .. m, NEW cut, Cuts(cut, h, j + 1), i <= h,
               glob[j + 1].deep \/ (h = i + 1 /\ path[h] \in glob[j + 1].names)
        PROVE  \E c : Cuts(c, i, j)
    <3>. DEFINE c == [k \in j .. n |-> IF k = j THEN i ELSE cut[k]]
    <3>1. c \in [j .. n -> 0 .. m] /\ c[j] = i /\ c[n] = m
      BY <1>3, <2>1
    <3>2. \A k \in j + 2 .. n : c[k] = cut[k] /\ c[k - 1] = cut[k - 1]
      BY <1>3
    <3>3. c[j + 1] = h /\ c[(j + 1) - 1] = i
      BY <1>3, <2>1
    <3>. HIDE DEF c
    <3>4. Fits(c, j + 1)
      BY <2>1, <3>3
    <3>5. \A k \in j + 2 .. n : Fits(c, k)
      <4>1. \A k \in j + 2 .. n : Fits(cut, k)
        BY <2>1
      <4>. QED BY <3>2, <4>1
    <3>. HIDE DEF Fits
    <3>6. \A k \in j + 1 .. n : Fits(c, k)
      BY <2>0, <3>4, <3>5
    <3>7. Cuts(c, i, j)
      BY <3>1, <3>6
    <3>. HIDE DEF Cuts
    <3>. QED
      BY <3>7
  <2>2. ASSUME NEW cut, Cuts(cut, i, j)
        PROVE  /\ Cuts([k \in j + 1 .. n |-> cut[k]], cut[j + 1], j + 1) /\ Fits(cut, j + 1)
               /\ cut[j + 1] \in 0 .. m /\ cut[(j + 1) - 1] = i
    <3>. DEFINE c == [k \in j + 1 .. n |-> cut[k]]
    <3>1. c \in [j + 1 .. n -> 0 .. m] /\ c[j + 1] = cut[j + 1] /\ c[n] = m
      BY <1>3, <2>2
    <3>2. \A k \in j + 2 .. n : c[k] = cut[k] /\ c[k - 1] = cut[k - 1]
      BY <1>3
    <3>. HIDE DEF c
    <3>3. \A k \in j + 2 .. n : Fits(c, k)
      <4>1. \A k \in j + 2 .. n : Fits(cut, k)
        <5>. HIDE DEF Fits
        <5>. QED
          BY <2>0, <2>2
      <4>. QED
        BY <3>2, <4>1
    <3>4. Fits(cut, j + 1) /\ cut[j + 1] \in 0 .. m
      <4>1. j + 1 \in j + 1 .. n /\ j + 1 \in j .. n
        BY <1>3
      <4>. QED
        BY <2>2, <4>1
    <3>5. cut[(j + 1) - 1] = i
      <4>1. (j + 1) - 1 = j
        OBVIOUS
      <4>. QED
        BY <2>2, <4>1
    <3>6. Cuts(c, cut[j + 1], j + 1)
      BY <3>1, <3>3, <1>3
    <3>. QED
      BY <3>4, <3>5, <3>6 DEF c
  <2>. HIDE DEF Cuts
  <2>3. CASE glob[j + 1].deep
    <3>1. ASSUME MeansFrom(path, glob, i, j)
          PROVE  MeansFrom(path, glob, i, j + 1) \/ (i < m /\ MeansFrom(path, glob, i + 1, j))
      <4>1. PICK cut : Cuts(cut, i, j)
        BY <1>1, <3>1
      <4>2. CASE cut[j + 1] = i
        BY <1>1, <2>2, <4>1, <4>2
      <4>3. CASE cut[j + 1] # i
        <5>1. cut[j + 1] \in 0 .. m /\ cut[j + 1] > i
          <6>1. Fits(cut, j + 1) /\ cut[j + 1] \in 0 .. m /\ cut[(j + 1) - 1] = i
            BY <2>2, <4>1
          <6>. QED
            BY <2>3, <4>3, <6>1
        <5>. DEFINE c == [k \in j .. n |-> IF k = j THEN i + 1 ELSE cut[k]]
        <5>2. c \in [j .. n -> 0 .. m] /\ c[j] = i + 1 /\ c[n] = m
          BY <1>3, <4>1, <5>1 DEF Cuts
        <5>3. \A k \in j + 2 .. n : c[k] = cut[k] /\ c[k - 1] = cut[k - 1]
          BY <1>3
        <5>4. c[j + 1] = cut[j + 1] /\ c[(j + 1) - 1] = i + 1
          BY <1>3
        <5>. HIDE DEF c
        <5>5. Fits(c, j + 1)
          BY <2>3, <5>1, <5>4
        <5>6. \A k \in j + 2 .. n : Fits(c, k)
          <6>1. \A k \in j + 2 .. n : Fits(cut, k)
            <7>. HIDE DEF Fits
            <7>. QED
              BY <2>0, <4>1 DEF Cuts
          <6>. QED
            BY <5>3, <6>1
        <5>7. Cuts(c, i + 1, j)
          <6>. HIDE DEF Fits
          <6>1. \A k \in j + 1 .. n : Fits(c, k)
            BY <2>0, <5>5, <5>6
          <6>. QED
            BY <5>2, <6>1 DEF Cuts
        <5>. QED
          BY <1>1, <5>1, <5>7
      <4>. QED
        BY <4>2, <4>3
    <3>2. ASSUME MeansFrom(path, glob, i, j + 1)
          PROVE  MeansFrom(path, glob, i, j)
      BY <1>1, <2>1, <2>3, <3>2
    <3>3. ASSUME i < m, MeansFrom(path, glob, i + 1, j)
          PROVE  MeansFrom(path, glob, i, j)
      <4>1. PICK cut : Cuts(cut, i + 1, j)
        BY <1>1, <3>3
      <4>. DEFINE c == [k \in j .. n |-> IF k = j THEN i ELSE cut[k]]
      <4>2. c \in [j .. n -> 0 .. m] /\ c[j] = i /\ c[n] = m
        BY <1>3, <4>1 DEF Cuts
      <4>3. \A k \in j + 2 .. n : c[k] = cut[k] /\ c[k - 1] = cut[k - 1]
        BY <1>3
      <4>4. c[j + 1] = cut[j + 1] /\ c[(j + 1) - 1] = i /\ cut[(j + 1) - 1] = i + 1
        BY <1>3, <4>1 DEF Cuts
      <4>5. Fits(cut, j + 1) /\ cut[j + 1] \in 0 .. m
        BY <1>3, <4>1 DEF Cuts
      <4>. HIDE DEF c
      <4>6. Fits(c, j + 1)
        BY <2>3, <4>4, <4>5
      <4>7. \A k \in j + 2 .. n : Fits(c, k)
        <5>1. \A k \in j + 2 .. n : Fits(cut, k)
          <6>. HIDE DEF Fits
          <6>. QED
            BY <2>0, <4>1 DEF Cuts
        <5>. QED
          BY <4>3, <5>1
      <4>8. Cuts(c, i, j)
        <5>. HIDE DEF Fits
        <5>1. \A k \in j + 1 .. n : Fits(c, k)
          BY <2>0, <4>6, <4>7
        <5>. QED
          BY <4>2, <5>1 DEF Cuts
      <4>. QED
        BY <1>1, <4>8
    <3>. QED
      BY <1>3, <2>3, <3>1, <3>2, <3>3 DEF Unfold
  <2>4. CASE ~glob[j + 1].deep
    <3>1. ASSUME MeansFrom(path, glob, i, j)
          PROVE  i < m /\ path[i + 1] \in glob[j + 1].names /\ MeansFrom(path, glob, i + 1, j + 1)
      <4>1. PICK cut : Cuts(cut, i, j)
        BY <1>1, <3>1
      <4>2. cut[j + 1] = i + 1 /\ path[i + 1] \in glob[j + 1].names /\ i + 1 \in 0 .. m
        <5>1. Fits(cut, j + 1) /\ cut[j + 1] \in 0 .. m /\ cut[(j + 1) - 1] = i
          BY <2>2, <4>1
        <5>. QED
          BY <2>4, <5>1
      <4>3. Cuts([k \in j + 1 .. n |-> cut[k]], i + 1, j + 1)
        BY <2>2, <4>1, <4>2
      <4>. QED
        BY <1>1, <4>2, <4>3
    <3>2. ASSUME i < m, path[i + 1] \in glob[j + 1].names, MeansFrom(path, glob, i + 1, j + 1)
          PROVE  MeansFrom(path, glob, i, j)
      BY <1>1, <2>1, <3>2
    <3>. QED
      BY <1>3, <2>4, <3>1, <3>2 DEF Unfold
  <2>. QED
    BY <2>3, <2>4
<1>. QED
  BY <1>2, <1>3

\* The recursion of _match_segments computes what a glob means.
THEOREM MatchingMeans ==
    ASSUME NEW path, NEW glob, Len(path) \in Nat, Len(glob) \in Nat
    PROVE  MatchSegments(path, glob) <=> Means(path, glob)
<1>. DEFINE m == Len(path)
            n == Len(glob)
            Places == (0 .. m) \X (0 .. n)
            At(f, i, j) == IF j = n THEN i = m
                           ELSE IF glob[j + 1].deep
                                THEN f[<<i, j + 1>>] \/ (i < m /\ f[<<i + 1, j>>])
                           ELSE i < m /\ path[i + 1] \in glob[j + 1].names /\ f[<<i + 1, j + 1>>]
            Def(f) == [c \in Places |-> At(f, c[1], c[2])]
            M == CHOOSE f : f = Def(f)
            G == [c \in Places |-> MeansFrom(path, glob, c[1], c[2])]
<1>1. MatchSegments(path, glob) = M[<<0, 0>>]
  BY DEF MatchSegments
<1>2. ASSUME NEW i \in 0 .. m, NEW j \in 0 .. n
      PROVE  /\ G[<<i, j>>] <=> MeansFrom(path, glob, i, j)
             /\ G[<<i, j>>] \in BOOLEAN
  <2>1. G[<<i, j>>] = MeansFrom(path, glob, i, j)
    OBVIOUS
  <2>2. MeansFrom(path, glob, i, j) \in BOOLEAN
    BY DEF MeansFrom
  <2>. QED
    BY <2>1, <2>2, Zenon
<1>. HIDE DEF G
<1>3. ASSUME NEW i \in 0 .. m, NEW j \in 0 .. n
      PROVE  MeansFrom(path, glob, i, j) <=> At(G, i, j)
  <2>1. MeansFrom(path, glob, i, j) <=> Unfold(path, glob, i, j)
    BY MeansUnfolds
  <2>2. CASE j = n
    BY <2>1, <2>2 DEF Unfold
  <2>3. CASE j < n /\ i < m
    <3>1. /\ G[<<i, j + 1>>] <=> MeansFrom(path, glob, i, j + 1)
          /\ G[<<i + 1, j>>] <=> MeansFrom(path, glob, i + 1, j)
          /\ G[<<i + 1, j + 1>>] <=> MeansFrom(path, glob, i + 1, j + 1)
      BY <1>2, <2>3
    <3>. QED
      BY <2>1, <2>3, <3>1 DEF Unfold
  <2>4. CASE j < n /\ i = m
    <3>1. G[<<i, j + 1>>] <=> MeansFrom(path, glob, i, j + 1)
      BY <1>2, <2>4
    <3>. QED
      BY <2>1, <2>4, <3>1 DEF Unfold
  <2>. QED
    BY <2>2, <2>3, <2>4
<1>4. G = Def(G)
  <2>1. ASSUME NEW i \in 0 .. m, NEW j \in 0 .. n
        PROVE  G[<<i, j>>] = At(G, i, j)
    <3>1. (G[<<i, j>>] <=> At(G, i, j)) /\ G[<<i, j>>] \in BOOLEAN
      <4>. HIDE DEF At
      <4>. QED
        BY <1>2, <1>3
    <3>2. CASE j = n
      BY <3>1, <3>2
    <3>3. CASE j # n
      BY <3>1, <3>3
    <3>. QED
      BY <3>2, <3>3
  <2>. HIDE DEF At
  <2>2. \A c \in Places : G[c] = At(G, c[1], c[2])
    BY <2>1
  <2>. QED
    BY <2>2, Zenon DEF G
<1>5. M = Def(M)
  BY <1>4, Zenon
<1>. HIDE DEF M
<1>6. ASSUME NEW i \in 0 .. m, NEW j \in 0 .. n
      PROVE  M[<<i, j>>] = At(M, i, j)
  <2>. DEFINE c == <<i, j>>
  <2>1. c \in Places /\ c[1] = i /\ c[2] = j
    OBVIOUS
  <2>. HIDE DEF c, At, Places
  <2>2. M[c] = At(M, c[1], c[2])
    BY <1>5, <2>1, Zenon
  <2>. QED
    BY <2>1, <2>2 DEF c
<1>7. \A i \in 0 .. m, j \in 0 .. n : M[<<i, j>>] <=> G[<<i, j>>]
  <2>. DEFINE Left(i, j) == (m - i) + (n - j)
              Same(i, j) == M[<<i, j>>] <=> G[<<i, j>>]
              T == {k \in Nat : \E i \in 0 .. m, j \in 0 .. n : k = Left(i, j) /\ ~Same(i, j)}
  <2>1. SUFFICES ASSUME T # {} PROVE FALSE
    <3>1. \A i \in 0 .. m, j \in 0 .. n : Left(i, j) \in Nat
      OBVIOUS
    <3>. HIDE DEF Left, Same
    <3>. QED
      BY <3>1 DEF Same
  <2>2. PICK k \in T : \A l \in T : k <= l
    BY <2>1, LeastElement
  <2>3. PICK i \in 0 .. m, j \in 0 .. n : k = Left(i, j) /\ ~Same(i, j)
    OBVIOUS
  <2>4. ASSUME NEW h \in 0 .. m, NEW l \in 0 .. n, Left(h, l) < k
        PROVE  Same(h, l)
    <3>1. Left(h, l) \in Nat /\ k \in Nat
      OBVIOUS
    <3>. HIDE DEF Left, Same
    <3>. QED
      BY <2>2, <2>4, <3>1
  <2>. HIDE DEF T, Same
  <2>5. At(M, i, j) <=> At(G, i, j)
    <3>1. j < n => Same(i, j + 1)
      BY <2>3, <2>4
    <3>2. i < m => Same(i + 1, j)
      BY <2>3, <2>4
    <3>3. i < m /\ j < n => Same(i + 1, j + 1)
      BY <2>3, <2>4
    <3>. QED
      BY <3>1, <3>2, <3>3 DEF Same
  <2>6. G[<<i, j>>] <=> At(G, i, j)
    <3>. HIDE DEF At
    <3>. QED
      BY <1>2, <1>3
  <2>7. M[<<i, j>>] <=> At(M, i, j)
    <3>. HIDE DEF At
    <3>. QED
      BY <1>6, Zenon
  <2>. HIDE DEF At
  <2>. QED
    BY <2>3, <2>5, <2>6, <2>7 DEF Same
<1>8. Means(path, glob) <=> MeansFrom(path, glob, 0, 0)
  <2>1. 0 + 1 .. n = 1 .. n
    OBVIOUS
  <2>. QED
    BY <2>1, Zenon DEF Means, MeansFrom
<1>. QED
  <2>1. M[<<0, 0>>] <=> MeansFrom(path, glob, 0, 0)
    BY <1>2, <1>7
  <2>. QED
    BY <1>1, <1>8, <2>1, Zenon


LEMMA PathsHaveLength == ASSUME NEW p \in Paths PROVE Len(p) \in Nat
<1>1. PICK e \in Entities, f \in FileNames : p = <<"platforms", e, f>>
  BY DEF Paths
<1>. QED
  BY <1>1

\* What a flag of a file has to be.
May(globs, p) == guard.write /\ \E glob \in globs : Means(p, glob)

LEMMA DecisionsMean ==
    ASSUME TreeAssumption, guard \in Guards, NEW p \in Paths
    PROVE  /\ DecideWrite(guard, p) = May(guard.writeGlobs, p)
           /\ DecideDelete(guard, p) = May(guard.deleteGlobs, p)
<1>1. \A glob \in guard.writeGlobs \cup guard.deleteGlobs :
         MatchSegments(p, glob) <=> Means(p, glob)
  BY PathsHaveLength, MatchingMeans DEF TreeAssumption
<1>2. /\ DecideWrite(guard, p) <=> May(guard.writeGlobs, p)
      /\ DecideDelete(guard, p) <=> May(guard.deleteGlobs, p)
  BY <1>1 DEF DecideWrite, DecideDelete, May
<1>3. /\ DecideWrite(guard, p) \in BOOLEAN /\ DecideDelete(guard, p) \in BOOLEAN
      /\ May(guard.writeGlobs, p) \in BOOLEAN /\ May(guard.deleteGlobs, p) \in BOOLEAN
  BY DEF DecideWrite, DecideDelete, May
<1>. QED
  BY <1>2, <1>3, Zenon

\* Where a file or a read is shown, its flags are what the guard decides, and a
\* save that was refused was refused for that.
Flags ==
    /\ last # NoRead => last.writable = DecideWrite(guard, last.path)
    /\ call.proc \in {"list_files", "read_file", "write_file"} =>
          \A f \in shown : f.path \in Paths /\ f.writable = DecideWrite(guard, f.path)
    /\ call.proc = "list_files" =>
          \A f \in shown : f.deletable = DecideDelete(guard, f.path)
    /\ call.proc = "write_file" /\ at = "idle" /\ code # None =>
          last # NoRead /\ (code = "PERMISSION_DENIED" <=> ~last.writable)
    /\ call.proc = "write_file" /\ at \notin {"idle", "call"} => last.writable

LEMMA StepFlags == ASSUME TreeAssumption, Typed, Flags, [Next]_vars PROVE Flags'
<1>0. Typed' /\ guard' = guard
  <2>1. guard' = guard
    BY DEF Next, Edit, RemoveEntity, Stage, Commit, Push, FetchMore, Change, Begin, Dispatch, Fail,
           Answer, Steps, Elsewhere, setting, RevParse, SymbolicRef, RevList, Porcelain, GitFails,
           ListEntityNames, ListOne, CountOne, Finish, ListFiles, Stat, Read, ReadReply, Compare, Rename,
           RenameFails, vars
  <2>. QED
    BY <2>1, StepTyped
<1>1. \A p : /\ DecideWrite(guard, p)' = DecideWrite(guard, p)
             /\ DecideDelete(guard, p)' = DecideDelete(guard, p)
  BY <1>0
<1>2. ASSUME UNCHANGED <<call, shown, last>>,
             at' = "idle" => at = "idle" /\ code' = code,
             at' \notin {"idle", "call"} => at \notin {"idle", "call"}
      PROVE  Flags'
  BY <1>1, <1>2 DEF Flags
<1>3. ASSUME UNCHANGED <<call, shown, last>>, call.proc # "write_file"
      PROVE  Flags'
  BY <1>1, <1>3 DEF Flags
<1>4. CASE \/ \E p \in Paths, c \in Contents \cup {None} : Edit(p, c)
           \/ \E e \in Entities : RemoveEntity(e)
           \/ Stage \/ Commit \/ Push \/ FetchMore
  <2>1. UNCHANGED <<call, shown, last, at, code>>
    BY <1>4, PeopleTyped DEF handler, answer
  <2>. QED
    BY <1>2, <2>1
<1>5. CASE UNCHANGED vars
  BY <1>2, <1>5 DEF vars, handler, answer
<1>6. ASSUME NEW c \in Calls, Begin(c)
      PROVE  Flags'
  BY <1>1, <1>6 DEF Begin, Flags
<1>7. CASE Dispatch
  <2>1. UNCHANGED <<call, shown, last>>
    BY <1>7 DEF Dispatch, Fail, Answer, Steps, Elsewhere, answer
  <2>2. CASE call.proc = "write_file"
    <3>1. last # NoRead
      BY <1>7, <2>2 DEF Dispatch, Typed, Where
    <3>2. \/ DecideWrite(guard, last.path) /\ at' = "compare"
          \/ ~DecideWrite(guard, last.path) /\ at' = "idle" /\ code' = "PERMISSION_DENIED"
      BY <1>7, <2>2 DEF Dispatch, Fail, Answer, Steps
    <3>. QED
      BY <1>1, <2>1, <2>2, <3>1, <3>2 DEF Flags
  <2>. QED
    BY <1>3, <2>1, <2>2
<1>8. CASE RevParse \/ SymbolicRef \/ RevList \/ Porcelain \/ GitFails
  <2>1. UNCHANGED <<call, shown, last>> /\ at \notin {"idle", "call"}
    BY <1>8 DEF RevParse, SymbolicRef, RevList, Porcelain, GitFails, InGit, Answer, Steps, Elsewhere
  <2>2. at' = "idle" => code' # "PERMISSION_DENIED"
    BY <1>8 DEF RevParse, SymbolicRef, RevList, Porcelain, GitFails, Answer, Steps
  <2>. QED
    BY <1>1, <2>1, <2>2 DEF Flags, Typed, Where
<1>9. CASE ListEntityNames \/ ListOne \/ CountOne \/ ListFiles
  <2>1. UNCHANGED <<call, shown, last>> /\ at \in {"names", "entity", "compose", "files"}
    BY <1>9 DEF ListEntityNames, ListOne, CountOne, Finish, ListFiles, Fail, Answer, Steps, Elsewhere
  <2>. QED
    BY <1>3, <2>1 DEF Typed, Where
<1>10. CASE Stat
  <2>1. UNCHANGED <<call, last>> /\ call.proc = "list_files"
    BY <1>10 DEF Stat, Fail, Answer, Steps, Elsewhere, Typed, Where
  <2>2. CASE shown' = shown
    BY <1>3, <2>1, <2>2
  <2>3. CASE \E p : RealPath(Live, p) \in Paths /\ shown' = shown \cup {FileInfo(p)}
    <3>1. PICK p : RealPath(Live, p) \in Paths /\ shown' = shown \cup {FileInfo(p)}
      BY <2>3
    <3>2. /\ FileInfo(p).path = RealPath(Live, p)
          /\ FileInfo(p).writable = DecideWrite(guard, RealPath(Live, p))
          /\ FileInfo(p).deletable = DecideDelete(guard, RealPath(Live, p))
      BY DEF FileInfo
    <3>3. ASSUME NEW f \in shown'
          PROVE  /\ f.path \in Paths /\ f.writable = DecideWrite(guard, f.path)
                 /\ f.deletable = DecideDelete(guard, f.path)
      BY <2>1, <3>1, <3>2 DEF Flags
    <3>. QED
      BY <1>1, <2>1, <3>3 DEF Flags
  <2>. QED
    BY <1>10, <2>2, <2>3 DEF Stat, Fail
<1>11. CASE Read
  <2>1. UNCHANGED <<call, last>> /\ call.proc = "read_file"
    BY <1>11 DEF Read, Fail, Answer, Steps, Elsewhere, Typed, Where
  <2>2. Target \in Paths
    BY <1>11 DEF Read, Typed, Work, Target
  <2>3. CASE shown' = shown
    BY <1>3, <2>1, <2>3
  <2>4. CASE \A f \in shown' : f.path = Target /\ f.writable = DecideWrite(guard, Target)
    BY <1>1, <2>1, <2>2, <2>4 DEF Flags
  <2>. QED
    BY <1>11, <2>3, <2>4 DEF Read, Fail
<1>12. CASE ReadReply
  <2>1. UNCHANGED <<call, shown>> /\ call.proc = "read_file"
    BY <1>12 DEF ReadReply, Fail, Answer, Steps, Elsewhere, Typed, Where
  <2>2. CASE last' = last
    BY <1>3, <2>1, <2>2
  <2>3. CASE last' = CHOOSE r \in shown : TRUE
    <3>1. last' \in shown
      BY <1>12, <2>3 DEF ReadReply, Typed, Work
    <3>. QED
      BY <1>1, <2>1, <3>1 DEF Flags
  <2>. QED
    BY <1>12, <2>2, <2>3 DEF ReadReply, Fail
<1>13. CASE Saving
  <2>1. /\ UNCHANGED <<call, last>> /\ call.proc = "write_file" /\ at \in {"compare", "rename"}
        /\ last # NoRead /\ last \in FileReads /\ last.path \in Paths
    BY <1>13, SavingSteps DEF Typed, Where, Honest, FileReads
  <2>2. /\ at' = "idle" => code' # "PERMISSION_DENIED"
        /\ last.writable /\ last.writable = DecideWrite(guard, last.path)
    BY <1>13, <2>1 DEF Saving, Compare, Rename, RenameFails, Fail, Answer, Steps, Flags
  <2>3. ASSUME NEW f \in shown'
        PROVE  f.path \in Paths /\ f.writable = DecideWrite(guard, f.path)
    <3>1. CASE shown' = shown
      BY <2>1, <3>1 DEF Flags
    <3>2. CASE f = [last EXCEPT !.sha = files[last.path]]
      <4>1. f.path = last.path /\ f.writable = last.writable
        BY <2>1, <3>2 DEF FileReads
      <4>. QED
        BY <2>1, <2>2, <4>1
    <3>. QED
      BY <1>13, <3>1, <3>2 DEF Saving, Compare, Rename, RenameFails, Fail, answer
  <2>. QED
    BY <1>1, <2>1, <2>2, <2>3 DEF Flags
<1>. QED
  BY <1>4, <1>5, <1>6, <1>7, <1>8, <1>9, <1>10, <1>11, <1>12, <1>13 DEF Next, Saving

\* A flag says what the globs mean, for any globs and of the file that a link
\* leads to; a save is refused exactly where it says so.
THEOREM FlagsAreRight == Spec => []FlagsSayWhatGlobsMean
<1>1. Init => Typed /\ Flags
  BY InitTyped, TreeAssumption DEF Init, Flags
<1>2. Typed /\ Flags /\ [Next]_vars => Typed' /\ Flags'
  BY StepTyped, StepFlags, TreeAssumption
<1>3. Typed /\ Flags => FlagsSayWhatGlobsMean
  <2>1. Typed => guard \in Guards
    BY DEF Typed, TypeOK
  <2>2. ASSUME Typed, Flags, call.proc \in {"list_files", "read_file", "write_file"}, NEW f \in shown
        PROVE  f.writable = May(guard.writeGlobs, f.path)
    BY <2>1, <2>2, DecisionsMean, TreeAssumption DEF Flags
  <2>3. ASSUME Typed, Flags, call.proc = "list_files", NEW f \in shown
        PROVE  f.deletable = May(guard.deleteGlobs, f.path)
    BY <2>1, <2>3, DecisionsMean, TreeAssumption DEF Flags
  <2>4. ASSUME Flags, at = "idle", call.proc = "write_file", code # None
        PROVE  code = "PERMISSION_DENIED" <=> ~last.writable
    BY <2>4 DEF Flags
  <2>. QED
    BY <2>2, <2>3, <2>4 DEF FlagsSayWhatGlobsMean, May
<1>. QED
  BY <1>1, <1>2, <1>3, PTL DEF Spec

-----------------------------------------------------------------------------
(* The sum of a set of files, which MapThenSumSet defines by recursion.      *)

Pick(s) == CHOOSE x \in s : TRUE

\* One step of the recursion, and the functions that solve it below S.
Added(h, f, s) == IF s = {} THEN 0 ELSE Count(f[Pick(s)]) + h[s \ {Pick(s)}]

Sums(h, f, S) == h = [s \in SUBSET S |-> Added(h, f, s)]

Sum(f, S) == MapThenSumSet(LAMBDA p : Count(f[p]), S)

LEMMA SmallerSets ==
    ASSUME NEW S, IsFiniteSet(S), NEW s \in SUBSET S
    PROVE  /\ IsFiniteSet(s) /\ Cardinality(s) \in Nat /\ Cardinality(s) <= Cardinality(S)
           /\ s # {} => /\ Pick(s) \in s /\ s \ {Pick(s)} \in SUBSET S
                        /\ Cardinality(s \ {Pick(s)}) \in Nat
                        /\ Cardinality(s \ {Pick(s)}) < Cardinality(s)
<1>1. IsFiniteSet(s) /\ Cardinality(s) <= Cardinality(S)
  BY FS_Subset
<1>2. Cardinality(s) \in Nat
  BY <1>1, FS_CardinalityType
<1>3. ASSUME s # {}
      PROVE  /\ Pick(s) \in s /\ Cardinality(s \ {Pick(s)}) \in Nat
             /\ Cardinality(s \ {Pick(s)}) < Cardinality(s)
  <2>1. Pick(s) \in s
    BY <1>3 DEF Pick
  <2>2. IsFiniteSet(s \ {Pick(s)}) /\ Cardinality(s \ {Pick(s)}) = Cardinality(s) - 1
    BY <1>1, <2>1, FS_RemoveElement
  <2>3. Cardinality(s \ {Pick(s)}) \in Nat
    BY <2>2, FS_CardinalityType
  <2>. QED
    BY <1>2, <2>1, <2>2, <2>3
<1>. QED
  BY <1>1, <1>2, <1>3

\* The recursion has a solution: one for the sets of at most n elements gives one
\* for those of n + 1.
LEMMA SumsExist ==
    ASSUME NEW f, NEW S, IsFiniteSet(S)
    PROVE  \E h : Sums(h, f, S)
<1>. DEFINE Solves(h, n) == \A s \in SUBSET S : Cardinality(s) <= n => h[s] = Added(h, f, s)
            T == {n \in Nat : ~ \E h : Solves(h, n)}
<1>1. T = {}
  <2>1. SUFFICES ASSUME T # {} PROVE FALSE
    OBVIOUS
  <2>2. PICK n \in T : \A k \in T : n <= k
    BY <2>1, LeastElement
  <2>3. CASE n = 0
    <3>. DEFINE h == [s \in SUBSET S |-> 0]
    <3>1. ASSUME NEW s \in SUBSET S, Cardinality(s) <= 0
          PROVE  h[s] = Added(h, f, s)
      <4>1. IsFiniteSet(s) /\ Cardinality(s) = 0
        <5>1. IsFiniteSet(s) /\ Cardinality(s) \in Nat
          BY SmallerSets
        <5>. QED
          BY <3>1, <5>1
      <4>2. s = {}
        BY <4>1, FS_EmptySet
      <4>. QED
        BY <4>2 DEF Added
    <3>. QED
      BY <2>2, <2>3, <3>1
  <2>4. CASE n # 0
    <3>1. n \in Nat /\ n - 1 \in Nat /\ n - 1 \notin T
      BY <2>2, <2>4
    <3>2. PICK h : Solves(h, n - 1)
      BY <3>1
    <3>. DEFINE g == [s \in SUBSET S |-> IF Cardinality(s) < n THEN h[s] ELSE Added(h, f, s)]
    <3>3. \A s \in SUBSET S : g[s] = IF Cardinality(s) < n THEN h[s] ELSE Added(h, f, s)
      OBVIOUS
    <3>. HIDE DEF g
    <3>4. ASSUME NEW s \in SUBSET S, Cardinality(s) <= n
          PROVE  g[s] = Added(g, f, s)
      <4>1. g[s] = Added(h, f, s)
        <5>1. Cardinality(s) < n => Cardinality(s) <= n - 1
          <6>1. Cardinality(s) \in Nat
            BY SmallerSets
          <6>. QED
            BY <3>1, <6>1
        <5>. QED
          BY <3>2, <3>3, <5>1
      <4>2. CASE s = {}
        BY <4>1, <4>2 DEF Added
      <4>3. CASE s # {}
        <5>1. s \ {Pick(s)} \in SUBSET S /\ Cardinality(s \ {Pick(s)}) < n
          <6>1. /\ s \ {Pick(s)} \in SUBSET S /\ Cardinality(s \ {Pick(s)}) \in Nat
                /\ Cardinality(s) \in Nat /\ Cardinality(s \ {Pick(s)}) < Cardinality(s)
            BY <4>3, SmallerSets
          <6>. QED
            BY <3>1, <3>4, <6>1
        <5>2. g[s \ {Pick(s)}] = h[s \ {Pick(s)}]
          BY <3>3, <5>1
        <5>. QED
          BY <4>1, <5>2 DEF Added
      <4>. QED
        BY <4>2, <4>3
    <3>5. Solves(g, n)
      BY <3>4
    <3>. QED
      BY <2>2, <3>5
  <2>. QED
    BY <2>3, <2>4
<1>2. PICK h : Solves(h, Cardinality(S))
  <2>1. Cardinality(S) \in Nat
    BY FS_CardinalityType
  <2>. HIDE DEF Solves
  <2>. QED
    BY <1>1, <2>1
<1>3. \A s \in SUBSET S : h[s] = Added(h, f, s)
  BY <1>2, SmallerSets
<1>. DEFINE g == [s \in SUBSET S |-> h[s]]
<1>4. ASSUME NEW s \in SUBSET S
      PROVE  Added(h, f, s) = Added(g, f, s)
  <2>1. s \ {Pick(s)} \in SUBSET S
    OBVIOUS
  <2>2. g[s \ {Pick(s)}] = h[s \ {Pick(s)}]
    BY <2>1
  <2>. HIDE DEF g
  <2>. QED
    BY <2>2 DEF Added
<1>5. \A s \in SUBSET S : h[s] = Added(g, f, s)
  BY <1>3, <1>4
<1>6. g = [s \in SUBSET S |-> Added(g, f, s)]
  BY <1>5
<1>. QED
  BY <1>6 DEF Sums

\* Two solutions agree where their files do.
LEMMA SumsAgree ==
    ASSUME NEW f, NEW e, NEW h, NEW g, NEW S, NEW R, Sums(h, f, S), Sums(g, e, R),
           NEW Q, IsFiniteSet(Q), Q \subseteq S, Q \subseteq R, \A p \in Q : f[p] = e[p]
    PROVE  h[Q] = g[Q]
<1>. DEFINE T == {n \in Nat : \E s \in SUBSET Q : Cardinality(s) = n /\ h[s] # g[s]}
<1>1. /\ \A s \in SUBSET S : h[s] = Added(h, f, s)
      /\ \A s \in SUBSET R : g[s] = Added(g, e, s)
  BY Zenon DEF Sums
<1>2. T = {}
  <2>1. SUFFICES ASSUME T # {} PROVE FALSE
    OBVIOUS
  <2>2. PICK n \in T : \A k \in T : n <= k
    BY <2>1, LeastElement
  <2>3. PICK s \in SUBSET Q : Cardinality(s) = n /\ h[s] # g[s]
    BY <2>2
  <2>4. h[s] = Added(h, f, s) /\ g[s] = Added(g, e, s)
    BY <1>1
  <2>5. CASE s = {}
    BY <2>3, <2>4, <2>5 DEF Added
  <2>6. CASE s # {}
    <3>. DEFINE t == s \ {Pick(s)}
    <3>1. t \in SUBSET Q /\ Pick(s) \in Q /\ Cardinality(t) \in Nat /\ Cardinality(t) < n
      BY <2>3, <2>6, SmallerSets
    <3>2. h[t] = g[t]
      <4>. HIDE DEF t
      <4>1. n \in Nat
        BY <2>2
      <4>. QED
        BY <2>2, <3>1, <4>1
    <3>3. f[Pick(s)] = e[Pick(s)]
      BY <3>1
    <3>. QED
      BY <2>3, <2>4, <2>6, <3>2, <3>3 DEF Added
  <2>. QED
    BY <2>5, <2>6
<1>3. Cardinality(Q) \in Nat
  BY FS_CardinalityType
<1>. QED
  BY <1>2, <1>3

LEMMA SumIsFold ==
    ASSUME NEW f, NEW S, IsFiniteSet(S)
    PROVE  \E h : Sums(h, f, S) /\ Sum(f, S) = h[S]
<1>. DEFINE h == CHOOSE h : Sums(h, f, S)
<1>1. Sums(h, f, S)
  BY SumsExist, Zenon
<1>2. Sum(f, S) = h[S]
  BY DEF Sum, MapThenSumSet, MapThenFoldSet, Sums, Added, Pick
<1>. QED
  BY <1>1, <1>2

\* The sum of the files that are left, one picked after the other.
LEMMA SumUnfolds ==
    ASSUME NEW f, NEW S, IsFiniteSet(S)
    PROVE  /\ S = {} => Sum(f, S) = 0
           /\ S # {} => Sum(f, S) = Count(f[Pick(S)]) + Sum(f, S \ {Pick(S)})
<1>1. PICK h : Sums(h, f, S) /\ Sum(f, S) = h[S]
  BY SumIsFold
<1>2. Sum(f, S) = Added(h, f, S)
  <2>1. h[S] = Added(h, f, S)
    BY <1>1, Zenon DEF Sums
  <2>. QED
    BY <1>1, <2>1
<1>. DEFINE R == S \ {Pick(S)}
<1>3. IsFiniteSet(R)
  BY FS_Subset
<1>4. PICK g : Sums(g, f, R) /\ Sum(f, R) = g[R]
  BY <1>3, SumIsFold
<1>5. h[R] = g[R]
  BY <1>1, <1>3, <1>4, SumsAgree
<1>. QED
  BY <1>2, <1>4, <1>5 DEF Added

LEMMA SumAgrees ==
    ASSUME NEW f, NEW e, NEW S, IsFiniteSet(S), \A p \in S : f[p] = e[p]
    PROVE  Sum(f, S) = Sum(e, S)
<1>1. PICK h : Sums(h, f, S) /\ Sum(f, S) = h[S]
  BY SumIsFold
<1>2. PICK g : Sums(g, e, S) /\ Sum(e, S) = g[S]
  BY SumIsFold
<1>. QED
  BY <1>1, <1>2, SumsAgree

LEMMA SumIsNatural ==
    ASSUME NEW f, NEW S, IsFiniteSet(S), \A p \in S : Count(f[p]) \in Nat
    PROVE  Sum(f, S) \in Nat
<1>. DEFINE T == {n \in Nat : \E s \in SUBSET S : Cardinality(s) = n /\ Sum(f, s) \notin Nat}
<1>1. T = {}
  <2>1. SUFFICES ASSUME T # {} PROVE FALSE
    OBVIOUS
  <2>2. PICK n \in T : \A k \in T : n <= k
    BY <2>1, LeastElement
  <2>3. PICK s \in SUBSET S : Cardinality(s) = n /\ Sum(f, s) \notin Nat
    BY <2>2
  <2>4. IsFiniteSet(s) /\ s # {}
    <3>1. IsFiniteSet(s)
      BY SmallerSets
    <3>. QED
      BY <2>3, <3>1, SumUnfolds
  <2>. DEFINE t == s \ {Pick(s)}
  <2>5. t \in SUBSET S /\ Pick(s) \in S /\ Cardinality(t) \in Nat /\ Cardinality(t) < n
    BY <2>3, <2>4, SmallerSets
  <2>6. Sum(f, s) = Count(f[Pick(s)]) + Sum(f, t)
    BY <2>4, SumUnfolds
  <2>. HIDE DEF t
  <2>7. Sum(f, t) \in Nat
    BY <2>2, <2>5
  <2>. QED
    BY <2>3, <2>5, <2>6, <2>7
<1>2. Cardinality(S) \in Nat
  BY FS_CardinalityType
<1>. QED
  BY <1>1, <1>2
-----------------------------------------------------------------------------
(* The numbers of services.                                                *)

ComposeOf(e) == {p \in In(e) : files[p] # None /\ AllowedName(p) /\ p[3] \in ComposeNames}

ServicesOf(e) == IF \E p \in ComposeOf(e) : Services[files[p]] = {} THEN {}
                 ELSE {Sum(files, ComposeOf(e))}

\* What is counted and what is left make up the compose files of the entity at
\* hand, as long as nobody touches them.
Counting ==
    /\ paths \subseteq ComposeOf(Entity)
    /\ \A p \in ComposeOf(Entity) \ paths : Services[files[p]] # {}
    /\ total + Sum(files, paths) = Sum(files, ComposeOf(Entity))

Counted(i) == Steady(In(i.name)) => i.services = ServicesOf(i.name)

Totals ==
    /\ at = "compose" /\ Steady(In(Entity)) => Counting
    /\ at \in {"entity", "compose"} => \A i \in entities : i.name \in todo \/ Counted(i)
    /\ Answered("list_entities") => \A i \in entities : Counted(i)

\* The files of an untouched entity count as they did.
LEMMA CountsHeld ==
    ASSUME TreeAssumption, Held, NEW e \in Entities, Steady(In(e))'
    PROVE  /\ Steady(In(e)) /\ ComposeOf(e)' = ComposeOf(e) /\ ServicesOf(e)' = ServicesOf(e)
           /\ \A p \in In(e) : files'[p] = files[p]
           /\ \A P \in SUBSET In(e) : Sum(files', P) = Sum(files, P)
<1>1. In(e)' = In(e) /\ In(e) \subseteq Paths
  BY DEF In, Paths
<1>2. Steady(In(e))
  BY <1>1 DEF Held, Steady
<1>3. \A p \in In(e) : files'[p] = files[p]
  BY <1>1 DEF Held, Steady
<1>4. IsFiniteSet(In(e))
  BY <1>1, FS_Subset DEF TreeAssumption
<1>5. ASSUME NEW P \in SUBSET In(e)
      PROVE  Sum(files', P) = Sum(files, P)
  <2>1. IsFiniteSet(P)
    BY <1>4, FS_Subset
  <2>2. \A p \in P : files'[p] = files[p]
    BY <1>3
  <2>. QED
    BY <2>1, <2>2, SumAgrees
<1>6. ComposeOf(e)' = ComposeOf(e) /\ ComposeOf(e) \in SUBSET In(e)
  BY <1>1, <1>3 DEF ComposeOf, AllowedName
<1>7. Sum(files, ComposeOf(e))' = Sum(files', ComposeOf(e)')
  BY DEF Sum, MapThenSumSet, MapThenFoldSet, Count
<1>8. ServicesOf(e)' = ServicesOf(e)
  <2>1. Sum(files, ComposeOf(e))' = Sum(files, ComposeOf(e))
    BY <1>5, <1>6, <1>7
  <2>2. (\E p \in ComposeOf(e) : Services[files[p]] = {})'
            <=> \E p \in ComposeOf(e) : Services[files[p]] = {}
    BY <1>3, <1>6
  <2>. QED
    BY <2>1, <2>2 DEF ServicesOf
<1>. QED
  BY <1>2, <1>3, <1>5, <1>6, <1>8

\* Entities that are done stay so.
LEMMA CountedHeld ==
    ASSUME TreeAssumption, Typed, Held, NEW i \in entities, Counted(i)
    PROVE  Counted(i)'
<1>1. i.name \in Entities
  BY DEF Typed, TypeOK, EntityInfos
<1>2. SUFFICES ASSUME Steady(In(i.name))'
               PROVE  i.services = ServicesOf(i.name)'
  BY DEF Counted
<1>3. Steady(In(i.name)) /\ ServicesOf(i.name)' = ServicesOf(i.name)
  BY <1>1, <1>2, CountsHeld
<1>. QED
  BY <1>3 DEF Counted

\* People at work, and steps of other procedures.
LEMMA TotalsKept ==
    ASSUME TreeAssumption, Typed, Held, Totals,
           UNCHANGED <<call, at, code, todo, paths, total, entities>>
    PROVE  Totals'
<1>1. \A i \in entities : Counted(i) => Counted(i)'
  BY CountedHeld
<1>2. Entity' = Entity
  BY DEF Entity
<1>3. ASSUME at = "compose", Steady(In(Entity))'
      PROVE  Counting'
  <2>1. Entity \in Entities
    <3>1. todo # {} /\ todo \subseteq Entities
      BY <1>3 DEF Typed, Work
    <3>. QED
      BY <3>1 DEF Entity
  <2>2. PICK e \in Entities : e = Entity
    BY <2>1
  <2>3. Entity' = e /\ Steady(In(e))'
    BY <1>2, <1>3, <2>2
  <2>4. /\ Steady(In(e)) /\ ComposeOf(e)' = ComposeOf(e)
        /\ \A p \in In(e) : files'[p] = files[p]
        /\ \A P \in SUBSET In(e) : Sum(files', P) = Sum(files, P)
    BY <2>3, CountsHeld
  <2>5. Counting /\ ComposeOf(e) \subseteq In(e)
    BY <1>3, <2>2, <2>4 DEF Totals, ComposeOf
  <2>6. /\ paths' \subseteq ComposeOf(e)'
        /\ \A p \in ComposeOf(e)' \ paths' : Services[files'[p]] # {}
        /\ total' + Sum(files', paths') = Sum(files', ComposeOf(e)')
    BY <2>2, <2>4, <2>5 DEF Counting
  <2>7. ComposeOf(Entity)' = ComposeOf(e)'
    BY <2>3 DEF ComposeOf, In
  <2>8. /\ Sum(files, paths)' = Sum(files', paths')
        /\ Sum(files, ComposeOf(Entity))' = Sum(files', ComposeOf(Entity)')
    BY DEF Sum, MapThenSumSet, MapThenFoldSet, Count
  <2>. QED
    BY <2>6, <2>7, <2>8 DEF Counting
<1>. QED
  BY <1>1, <1>2, <1>3 DEF Totals, Answered

LEMMA TotalsElsewhere ==
    ASSUME at' \notin {"entity", "compose"},
           ~(at' = "idle" /\ code' = "OK" /\ call'.proc = "list_entities")
    PROVE  Totals'
BY DEF Totals, Answered

\* The steps of list_entities itself: nobody else moves meanwhile.
LEMMA EntityTotals ==
    ASSUME TreeAssumption, Typed, Marks, Totals, ListEntityNames \/ ListOne \/ CountOne
    PROVE  Totals'
<1>1. /\ call.proc = "list_entities" /\ UNCHANGED <<files, touched, call>>
  <2>1. at \in {"names", "entity", "compose"}
    BY DEF ListEntityNames, ListOne, CountOne
  <2>2. UNCHANGED <<files, call, touched>>
    BY DEF ListEntityNames, ListOne, CountOne, Finish, Fail, Answer, Steps, Elsewhere, history, tree
  <2>. QED
    BY <2>1, <2>2 DEF Typed, Where
<1>2. /\ \A e : In(e)' = In(e) /\ ComposeOf(e)' = ComposeOf(e) /\ Steady(In(e))' = Steady(In(e))
      /\ \A e : ServicesOf(e)' = ServicesOf(e)
  <2>1. \A e : In(e)' = In(e) /\ ComposeOf(e)' = ComposeOf(e) /\ Steady(In(e))' = Steady(In(e))
    BY <1>1 DEF In, ComposeOf, AllowedName, Steady
  <2>2. ASSUME NEW e
        PROVE  Sum(files, ComposeOf(e))' = Sum(files, ComposeOf(e))
    <3>1. Sum(files, ComposeOf(e))' = Sum(files', ComposeOf(e)')
      BY DEF Sum, MapThenSumSet, MapThenFoldSet, Count
    <3>. QED
      BY <1>1, <2>1, <3>1
  <2>. QED
    BY <1>1, <2>1, <2>2 DEF ServicesOf
<1>3. \A i : Counted(i)' <=> Counted(i)
  BY <1>2 DEF Counted
<1>4. /\ \A p \in Paths : Count(files[p]) \in Nat
      /\ \A P \in SUBSET Paths : Sum(files, P) \in Nat /\ IsFiniteSet(P)
  <2>1. files \in [Paths -> Contents \cup {None}] /\ IsFiniteSet(Paths)
    BY DEF Typed, TypeOK, TreeAssumption
  <2>2. ASSUME NEW p \in Paths
        PROVE  Count(files[p]) \in Nat
    <3>1. files[p] = None \/ files[p] \in Contents
      BY <2>1
    <3>2. files[p] \in Contents => Services[files[p]] \subseteq Nat
      BY DEF TreeAssumption
    <3>. QED
      BY <3>1, <3>2 DEF Count
  <2>3. \A P \in SUBSET Paths : IsFiniteSet(P)
    BY <2>1, FS_Subset
  <2>4. ASSUME NEW P \in SUBSET Paths
        PROVE  Sum(files, P) \in Nat
    BY <2>2, <2>3, SumIsNatural
  <2>. QED
    BY <2>2, <2>3, <2>4
<1>7. /\ Sum(files, paths)' = Sum(files', paths')
      /\ Sum(files, ComposeOf(Entity))' = Sum(files', ComposeOf(Entity)')
  BY DEF Sum, MapThenSumSet, MapThenFoldSet, Count
<1>8. \A e : ComposeOf(e) \in SUBSET Paths
  BY DEF ComposeOf, In
<1>5. CASE ListEntityNames
  <2>1. entities = {} /\ entities' = {} /\ at' # "compose"
    BY <1>5 DEF ListEntityNames, Marks, Early, Answer, Steps
  <2>. QED
    BY <2>1 DEF Totals
<1>6. CASE ListOne
  <2>1. CASE at' # "compose"
    <3>1. at' = "idle" /\ code' = "NOT_FOUND"
      BY <1>6, <2>1 DEF ListOne, Fail, Answer, Steps
    <3>. QED
      BY <3>1, TotalsElsewhere
  <2>2. CASE at' = "compose"
    <3>. DEFINE here == ListEntityFiles(Entity)
                info == [name |-> Entity, fileCount |-> Cardinality(here),
                         readme |-> \E p \in here : p[3] \in ReadmeNames,
                         dirty |-> \E p \in Dirty : p[2] = Entity, services |-> {}]
    <3>1. /\ entities' = entities \cup {info} /\ todo' = todo /\ at = "entity" /\ total' = 0
          /\ paths' = {p \in here : p[3] \in ComposeNames}
      BY <1>6, <2>2 DEF ListOne, Fail, Answer, Steps
    <3>2. info.name = Entity /\ Entity \in todo /\ Entity \in Entities
      BY <3>1 DEF Entity, Typed, Work
    <3>3. paths' = ComposeOf(Entity)
      <4>1. {p \in here : p[3] \in ComposeNames} \subseteq Paths
        BY <3>2, ComposeFiles DEF Typed, TypeOK
      <4>2. ASSUME NEW p \in Paths, p[3] \in ComposeNames
            PROVE  p \in here <=> p \in ComposeOf(Entity)
        <5>1. p \notin DOMAIN links
          BY <4>2, PathParts DEF TreeAssumption, Typed, TypeOK
        <5>. QED
          BY <4>2, <5>1 DEF ListEntityFiles, ComposeOf, Live, In
      <4>3. ComposeOf(Entity) \subseteq Paths /\ \A p \in ComposeOf(Entity) : p[3] \in ComposeNames
        BY DEF ComposeOf, In
      <4>. QED
        BY <3>1, <4>1, <4>2, <4>3
    <3>. HIDE DEF info, here
    <3>4. Entity' = Entity
      BY <3>1 DEF Entity
    <3>5. Counting'
      <4>1. ComposeOf(Entity)' = ComposeOf(Entity)
        BY <1>1, <3>4 DEF ComposeOf, In, AllowedName
      <4>2. Sum(files, ComposeOf(Entity)) \in Nat
        BY <1>4, <1>8
      <4>3. total' + Sum(files', paths') = Sum(files', ComposeOf(Entity)')
        <5>1. Sum(files', paths') = Sum(files, ComposeOf(Entity))
          BY <1>1, <3>3
        <5>2. Sum(files', ComposeOf(Entity)') = Sum(files, ComposeOf(Entity))
          BY <1>1, <4>1
        <5>. QED
          BY <3>1, <4>2, <5>1, <5>2
      <4>. QED
        BY <1>7, <3>3, <4>1, <4>3 DEF Counting
    <3>6. \A i \in entities' : i.name \in todo' \/ Counted(i)'
      BY <1>3, <3>1, <3>2 DEF Totals
    <3>. QED
      BY <2>2, <3>5, <3>6 DEF Totals, Answered
  <2>. QED
    BY <2>1, <2>2
<1>9. CASE CountOne
  <2>1. /\ at = "compose" /\ Entity \in todo /\ Entity \in Entities
        /\ paths \subseteq Paths /\ total \in Nat
    BY <1>9 DEF CountOne, Typed, Work, Entity
  <2>2. ASSUME NEW count, Finish(count), Steady(In(Entity)) => count = ServicesOf(Entity)
        PROVE  Totals'
    <3>. DEFINE Done(i) == IF i.name = Entity THEN [i EXCEPT !.services = count] ELSE i
    <3>1. /\ entities' = {Done(i) : i \in entities} /\ todo' = todo \ {Entity}
          /\ IF todo = {Entity} THEN at' = "idle" ELSE at' = "entity"
      BY <2>2 DEF Finish, Answer, Steps
    <3>2. ASSUME NEW j \in entities'
          PROVE  j.name \in todo' \/ Counted(j)'
      <4>1. PICK i \in entities : j = Done(i)
        BY <3>1
      <4>2. i \in EntityInfos
        BY DEF Typed, TypeOK
      <4>3. CASE i.name = Entity
        <5>1. j.name = Entity /\ j.services = count
          BY <4>1, <4>2, <4>3 DEF EntityInfos
        <5>2. Counted(j)
          BY <2>2, <5>1 DEF Counted
        <5>. QED
          BY <1>3, <5>2
      <4>4. CASE i.name # Entity
        <5>1. j = i
          BY <4>1, <4>4
        <5>2. j.name \in todo \/ Counted(j)
          BY <2>1, <5>1 DEF Totals
        <5>. QED
          BY <1>3, <3>1, <4>4, <5>1, <5>2
      <4>. QED
        BY <4>3, <4>4
    <3>. HIDE DEF Done
    <3>3. \A j \in entities' : j.name \in todo' \/ Counted(j)'
      BY <3>2
    <3>4. at' = "idle" => todo' = {}
      BY <3>1
    <3>. QED
      BY <3>1, <3>3, <3>4 DEF Totals, Answered
  <2>3. CASE paths = {}
    <3>1. Finish({total})
      BY <1>9, <2>3 DEF CountOne
    <3>2. ASSUME Steady(In(Entity))
          PROVE  {total} = ServicesOf(Entity)
      <4>1. Counting
        BY <2>1, <3>2 DEF Totals
      <4>2. Sum(files, paths) = 0
        BY <1>4, <2>3, SumUnfolds
      <4>3. total = Sum(files, ComposeOf(Entity))
        BY <2>1, <4>1, <4>2 DEF Counting
      <4>. QED
        BY <2>3, <4>1, <4>3 DEF Counting, ServicesOf
    <3>. QED
      BY <2>2, <3>1, <3>2
  <2>4. CASE paths # {}
    <3>1. Pick(paths) \in paths /\ IsFiniteSet(paths)
      BY <1>4, <2>1, <2>4 DEF Pick
    <3>2. CASE Unknown(files[Pick(paths)])
      <4>1. Finish({})
        BY <1>9, <2>4, <3>2 DEF CountOne, Pick
      <4>2. ASSUME Steady(In(Entity))
            PROVE  {} = ServicesOf(Entity)
        <5>1. Pick(paths) \in ComposeOf(Entity)
          BY <2>1, <3>1, <4>2 DEF Totals, Counting
        <5>2. Services[files[Pick(paths)]] = {}
          BY <3>2, <5>1 DEF Unknown, ComposeOf
        <5>. QED
          BY <5>1, <5>2 DEF ServicesOf
      <4>. QED
        BY <2>2, <4>1, <4>2
    <3>3. CASE ~Unknown(files[Pick(paths)])
      <4>1. /\ total' = total + Count(files[Pick(paths)]) /\ paths' = paths \ {Pick(paths)}
            /\ at' = "compose" /\ UNCHANGED <<entities, todo>>
        BY <1>9, <2>4, <3>3 DEF CountOne, Pick, Steps
      <4>2. Entity' = Entity
        BY <4>1 DEF Entity
      <4>3. ASSUME Steady(In(Entity))'
            PROVE  Counting'
        <5>1. Counting /\ ComposeOf(Entity)' = ComposeOf(Entity)
          BY <1>1, <2>1, <4>2, <4>3 DEF Totals, Steady, In, ComposeOf, AllowedName
        <5>2. Services[files[Pick(paths)]] # {}
          BY <3>3 DEF Unknown
        <5>3. \A p \in ComposeOf(Entity) \ paths' : Services[files[p]] # {}
          BY <4>1, <5>1, <5>2 DEF Counting
        <5>4. Sum(files, paths) = Count(files[Pick(paths)]) + Sum(files, paths')
          BY <2>4, <3>1, <4>1, SumUnfolds
        <5>5. /\ Count(files[Pick(paths)]) \in Nat /\ Sum(files, paths') \in Nat
              /\ paths' \subseteq paths
          BY <1>4, <2>1, <3>1, <4>1
        <5>6. total' + Sum(files, paths') = Sum(files, ComposeOf(Entity))
          BY <2>1, <4>1, <5>1, <5>4, <5>5 DEF Counting
        <5>7. total' + Sum(files', paths') = Sum(files', ComposeOf(Entity)')
          BY <1>1, <5>1, <5>6
        <5>. QED
          BY <1>1, <1>7, <5>1, <5>3, <5>5, <5>7 DEF Counting
      <4>4. \A i \in entities' : i.name \in todo' \/ Counted(i)'
        BY <1>3, <2>1, <4>1 DEF Totals
      <4>. QED
        BY <4>1, <4>3, <4>4 DEF Totals, Answered
    <3>. QED
      BY <3>2, <3>3
  <2>. QED
    BY <2>3, <2>4
<1>. QED
  BY <1>5, <1>6, <1>9

LEMMA StepTotals == ASSUME TreeAssumption, Typed, Marks, Totals, [Next]_vars PROVE Totals'
<1>1. ASSUME NEW c \in Calls, Begin(c)
      PROVE  Totals'
  BY <1>1, TotalsElsewhere DEF Begin
<1>2. CASE (\A c \in Calls : ~Begin(c)) /\ ~Saving
  <2>1. Held
    BY <1>2, StepHeld
  <2>2. CASE \/ \E p \in Paths, c \in Contents \cup {None} : Edit(p, c)
             \/ \E e \in Entities : RemoveEntity(e)
             \/ Stage \/ Commit \/ Push \/ FetchMore
    <3>1. UNCHANGED <<call, at, code, todo, paths, total, entities>>
      BY <2>2, PeopleTyped DEF handler, answer, work, setting
    <3>. QED
      BY <2>1, <3>1, TotalsKept
  <2>3. CASE UNCHANGED vars
    <3>1. UNCHANGED <<call, at, code, todo, paths, total, entities>>
      BY <2>3 DEF vars, handler, answer, work
    <3>. QED
      BY <2>1, <3>1, TotalsKept
  <2>4. CASE Dispatch
    BY <2>4, TotalsElsewhere DEF Dispatch, Fail, Answer, Steps
  <2>5. CASE Read \/ ReadReply \/ ListFiles \/ Stat
    <3>1. /\ at \in {"read", "size", "files", "stat"} /\ at' \in {"idle", "size", "stat"}
          /\ call' = call
      BY <2>5 DEF Read, ReadReply, ListFiles, Stat, Fail, Answer, Steps, Elsewhere
    <3>2. call.proc # "list_entities"
      BY <3>1 DEF Typed, Where
    <3>. QED
      BY <3>1, <3>2, TotalsElsewhere
  <2>7. CASE RevParse \/ SymbolicRef \/ RevList
    BY <2>7, TotalsElsewhere DEF RevParse, SymbolicRef, RevList, Steps
  <2>8. CASE Porcelain
    <3>1. at' = Then /\ call' = call
      BY <2>8 DEF Porcelain, Steps, Elsewhere
    <3>2. /\ Then \in {"names", "files", "idle"}
          /\ Then = "idle" => call.proc # "list_entities"
      BY DEF Then
    <3>. QED
      BY <3>1, <3>2, TotalsElsewhere
  <2>9. CASE GitFails
    BY <2>9, TotalsElsewhere DEF GitFails, Answer, Steps, Elsewhere
  <2>10. CASE ListEntityNames \/ ListOne \/ CountOne
    BY <2>10, EntityTotals
  <2>. QED
    BY <1>2, <2>2, <2>3, <2>4, <2>5, <2>7, <2>8, <2>9, <2>10 DEF Next, Saving
<1>3. CASE Saving
  BY <1>3, SavingSteps, TotalsElsewhere
<1>. QED
  BY <1>1, <1>2, <1>3

\* list_entities answers with the number of services of an entity exactly if each
\* of its compose files could be counted, and then with their sum.
THEOREM CountsAreRight == Spec => []CountsAreTotals
<1>1. Init => Typed /\ Marks /\ Totals
  <2>1. Init => Totals
    BY DEF Init, Totals, Answered, None
  <2>. QED
    BY <2>1, InitTyped, MarksInit, TreeAssumption
<1>2. Typed /\ Marks /\ Totals /\ [Next]_vars => Typed' /\ Marks' /\ Totals'
  BY StepTyped, StepMarks, StepTotals, TreeAssumption
<1>3. Totals => CountsAreTotals
  BY DEF Totals, Counted, ServicesOf, ComposeOf, Sum, CountsAreTotals
<1>. QED
  BY <1>1, <1>2, <1>3, PTL DEF Spec

=============================================================================
