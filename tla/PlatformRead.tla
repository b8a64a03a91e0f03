----------------------------- MODULE PlatformRead -----------------------------
(***************************************************************************)
(* The procedures of platform_config/v1 that read the platforms repository *)
(* (list_entities, list_files, read_file, repo_status) and what a caller   *)
(* does with the answer: save a file it has read.  Every procedure looks   *)
(* at the tree several times, and people edit, stage, commit, push and     *)
(* fetch in the same checkout in between.                                  *)
(*                                                                         *)
(* One call at a time: calls that only read do not affect each other, and  *)
(* saves against each other, with their temporary files, crashes and       *)
(* errors, are PlatformWrite.                                              *)
(***************************************************************************)
EXTENDS PathJail, FiniteSets, FiniteSetsExt

CONSTANTS
    Entities, FileNames,      \* directories below platforms/, names in them
    ComposeNames, ReadmeNames,
    OddNames,       \* the names git status prints with escapes
    Contents,
    Services,       \* Services[c]: {n} if compose content c defines n services,
                    \* {} if it does not parse
    Big, Cut,       \* the content above MAX_FILE_BYTES, and its prefix
    Trees,          \* the trees to begin with
    LinkSets,       \* the links that may be there
    Guards, Calls,
    MaxChanges,     \* bound: changes by people
    MaxCalls        \* bound: calls

None == "none"
Dir(e) == <<"platforms", e>>
Paths == {<<"platforms", e, f>> : e \in Entities, f \in FileNames}
In(e) == {p \in Paths : p[2] = e}

ASSUME TreeAssumption ==
    /\ IsFiniteSet(Paths) /\ Calls # {} /\ "escaped" \notin FileNames
    /\ None \notin Contents /\ Big \in Contents /\ Cut \in Contents \ {Big}
    /\ Trees \subseteq [Paths -> Contents \cup {None}]
    /\ \A l \in LinkSets :
          /\ IsFiniteSet(DOMAIN l)
          /\ \A k \in DOMAIN l : /\ Len(k) = 3 /\ k[2] \in Entities
                                /\ k[3] \notin FileNames \cup ComposeNames
    /\ \A g \in Guards : \A glob \in g.writeGlobs \cup g.deleteGlobs : Len(glob) \in Nat
    /\ DOMAIN Services = Contents
    /\ \A c \in Contents : Services[c] \subseteq Nat /\ Cardinality(Services[c]) <= 1

VARIABLES
    files,      \* the working tree: the content of each path, or None
    dirs,       \* the entity directories there are
    index, head,            \* git: what is staged, what is committed
    commits, ahead, behind,     \* git: HEAD and its distance to the upstream
    branch,     \* git: tracking an upstream, local, or detached
    links, guard,           \* as the responder was started
    call,       \* the call being answered
    at,         \* where its handler is
    code,       \* its answer, once at is idle
    status,     \* what read_state returned: a set of at most one RepoState
    entities,   \* the EntityInfos so far
    shown,      \* the FileInfos, or the file read
    todo,       \* entities still to list
    paths,      \* files still to look at, of an entity or of the call
    total,      \* services counted so far in the entity at hand
    last,       \* what the caller was given by its last read_file
    touched,    \* history: paths and directories that people changed since the call
                \* began, or since a save has compared
    moved,      \* history: HEAD or the upstream moved since the call began
    changes, calls

tree == <<files, dirs, index, head>>
refs == <<commits, ahead, behind, branch>>
setting == <<links, guard>>
answer == <<code, status, entities, shown>>
work == <<todo, paths, total>>
history == <<touched, moved>>
handler == <<call, at, answer, work, last>>
vars == <<tree, refs, setting, handler, history, changes, calls>>

Everything == Paths \cup {Dir(e) : e \in Entities}

\* What git status prints for a path.
Printed(p) == IF p[3] \in OddNames THEN <<p[1], p[2], "escaped">> ELSE p

RepoStates == [head : Nat, detached : BOOLEAN, ahead : Nat, behind : Nat,
              dirty : SUBSET (Paths \cup {Printed(p) : p \in Paths})]
EntityInfos == [name : Entities, fileCount : Nat, readme : BOOLEAN, dirty : BOOLEAN,
               services : SUBSET Nat]
FileInfos == [name : FileNames \cup {l[3] : l \in UNION {DOMAIN k : k \in LinkSets}}, path : Paths, dirty : BOOLEAN,
             writable : BOOLEAN, deletable : BOOLEAN]
FileReads == [path : Paths, content : Contents, sha : Contents \cup {None}, truncated : BOOLEAN,
             writable : BOOLEAN]

TypeOK ==
    /\ files \in [Paths -> Contents \cup {None}] /\ dirs \subseteq Entities
    /\ index \in [Paths -> Contents \cup {None}] /\ head \in [Paths -> Contents \cup {None}]
    /\ {commits, ahead, behind} \subseteq Nat /\ branch \in {"tracking", "local", "detached"}
    /\ links \in LinkSets /\ guard \in Guards /\ call \in Calls
    /\ at \in {"idle", "call", "head", "branch", "counts", "porcelain",
               "names", "entity", "compose", "files", "stat", "read", "size", "compare", "rename"}
    /\ \A s \in status : s \in RepoStates
    /\ \A e \in entities : e \in EntityInfos
    /\ \A f \in shown : f \in FileInfos \/ f \in FileReads
    /\ touched \subseteq Everything

NoRead == [path |-> <<>>, content |-> None, sha |-> None, truncated |-> FALSE, writable |-> FALSE]

Init ==
    /\ files \in Trees /\ head \in Trees /\ index \in {files, head}
    /\ dirs = {e \in Entities : \E p \in In(e) : files[p] # None}
    /\ commits = 0 /\ ahead = 0 /\ behind = 0 /\ branch \in {"tracking", "local", "detached"}
    /\ links \in LinkSets /\ guard \in {g \in Guards : StartupAccepts(g)}
    /\ call = (CHOOSE c \in Calls : TRUE) /\ at = "idle"
    /\ code = None /\ status = {} /\ entities = {} /\ shown = {}
    /\ todo = {} /\ paths = {} /\ total = 0 /\ last = NoRead
    /\ touched = {} /\ moved = FALSE
    /\ changes = 0 /\ calls = 0

-----------------------------------------------------------------------------
(* People at work in the checkout, as long as it matters to a call. *)

Change ==
    /\ changes < MaxChanges /\ changes' = changes + 1
    /\ at # "idle" \/ (calls < MaxCalls /\ last # NoRead)
    /\ UNCHANGED <<setting, handler, calls>>

Touch(S) == touched' = touched \cup S

\* A file is created, changed or removed (in a directory that is there).
Edit(p, c) ==
    /\ Change /\ p[2] \in dirs /\ files[p] # c
    /\ files' = [files EXCEPT ![p] = c]
    /\ Touch({p})
    /\ UNCHANGED <<dirs, index, head, refs, moved>>

RemoveEntity(e) ==
    /\ Change /\ e \in dirs
    /\ dirs' = dirs \ {e}
    /\ files' = [p \in Paths |-> IF p \in In(e) THEN None ELSE files[p]]
    /\ Touch(In(e) \cup {Dir(e)})
    /\ UNCHANGED <<index, head, refs, moved>>

Stage ==
    /\ Change /\ index # files
    /\ index' = files
    /\ Touch({p \in Paths : index[p] # files[p]})
    /\ UNCHANGED <<files, dirs, head, refs, moved>>

Commit ==
    /\ Change /\ head # index
    /\ head' = index /\ commits' = commits + 1
    /\ ahead' = IF branch = "tracking" THEN ahead + 1 ELSE ahead
    /\ Touch({p \in Paths : index[p] # head[p]}) /\ moved' = TRUE
    /\ UNCHANGED <<files, dirs, index, behind, branch>>

\* git push or git fetch: the branch against its upstream.
Push ==
    /\ Change /\ ahead > 0 /\ behind = 0
    /\ ahead' = 0 /\ moved' = TRUE
    /\ UNCHANGED <<tree, commits, behind, branch, touched>>

FetchMore ==
    /\ Change /\ branch = "tracking"
    /\ behind' = behind + 1 /\ moved' = TRUE
    /\ UNCHANGED <<tree, commits, ahead, branch, touched>>

-----------------------------------------------------------------------------
(* A call begins and is answered.  No procedure keeps anything from one call  *)
(* to the next, so the first call reads and any others are saves of that.    *)

Begin(c) ==
    /\ at = "idle" /\ calls < MaxCalls /\ calls' = calls + 1
    /\ IF c.proc = "write_file" THEN last # NoRead ELSE calls = 0
    /\ call' = c /\ at' = "call"
    /\ code' = None /\ status' = {} /\ entities' = {} /\ shown' = {}
    /\ todo' = {} /\ paths' = {} /\ total' = 0
    /\ touched' = {} /\ moved' = FALSE
    /\ UNCHANGED <<tree, refs, setting, last, changes>>

Elsewhere == <<refs, setting, call, history, changes, calls>>
Steps(to) == at' = to /\ UNCHANGED <<tree, Elsewhere>>

\* reply_ok, a typed error, or (by serve_rpc) INTERNAL.
Answer(c) == Steps("idle") /\ code' = c
Fail(c) == Answer(c) /\ UNCHANGED <<status, entities, shown, work, last>>

\* The links in the directories there are.
Live == [l \in {k \in DOMAIN links : k[2] \in dirs} |-> links[l]]

\* Where a procedure goes first; the checks on the request itself.
Dispatch ==
    /\ at = "call"
    /\ \/ /\ call.proc \in {"delete_file", "sync"}
          /\ Fail("UNAVAILABLE")
       \/ /\ call.proc = "list_files" /\ call.entity \notin Entities
          /\ Fail("INVALID_ARGUMENT")
       \/ /\ \/ call.proc \in {"list_entities", "repo_status"}
             \/ call.proc = "list_files" /\ call.entity \in Entities
          /\ Steps("head")
          /\ UNCHANGED <<answer, work, last>>
       \/ /\ call.proc = "read_file"
          /\ LET target == Resolved(Live, call.path)
             IN  IF \E p \in target : p \in Paths /\ files[p] # None
                 THEN Steps("read") /\ paths' = target /\ UNCHANGED <<answer, todo, total, last>>
                 ELSE Fail("INVALID_ARGUMENT")
       \/ /\ call.proc = "write_file"
          /\ IF DecideWrite(guard, last.path)
             THEN Steps("compare") /\ UNCHANGED <<answer, work, last>>
             ELSE Fail("PERMISSION_DENIED")

-----------------------------------------------------------------------------
(* read_state: five git commands, one after the other. *)

InGit == at \in {"head", "branch", "counts", "porcelain"}

\* Where the handler goes on after the state was read.
Then == CASE call.proc = "list_entities" -> "names"
          [] call.proc = "list_files" -> "files"
          [] OTHER -> "idle"

Partial == CHOOSE s \in status : TRUE

RevParse ==
    /\ at = "head" /\ Steps("branch")
    /\ status' = {[head |-> commits, detached |-> FALSE, ahead |-> 0, behind |-> 0, dirty |-> {}]}
    /\ UNCHANGED <<code, entities, shown, work, last>>

\* symbolic-ref, and remote get-url.
SymbolicRef ==
    /\ at = "branch" /\ Steps(IF branch = "detached" THEN "porcelain" ELSE "counts")
    /\ status' = {[Partial EXCEPT !.detached = (branch = "detached")]}
    /\ UNCHANGED <<code, entities, shown, work, last>>

\* rev-list prints what is on the left, the upstream, first.  It fails without
\* an upstream, and both counts stay 0.
\* Faulty: taken in the order the fields have.
CountsSwapped == [ahead |-> behind, behind |-> ahead]
Counts == [ahead |-> ahead, behind |-> behind]

RevList ==
    /\ at = "counts" /\ Steps("porcelain")
    /\ status' = IF branch = "local" THEN status
                 ELSE {[Partial EXCEPT !.ahead = Counts.ahead, !.behind = Counts.behind]}
    /\ UNCHANGED <<code, entities, shown, work, last>>

\* Staged removals and additions that git pairs as renames: for each content, as
\* many as there are of both.
Gone == {p \in Paths : head[p] # None /\ index[p] = None}
Fresh == {p \in Paths : head[p] = None /\ index[p] # None}
RenamedAway ==
    {H \in SUBSET Gone :
        \A c \in Contents :
            LET old == {p \in Gone : head[p] = c}
                new == {p \in Fresh : index[p] = c}
            IN  Cardinality(H \cap old) = IF Cardinality(old) <= Cardinality(new)
                                          THEN Cardinality(old) ELSE Cardinality(new)}

Uncommitted(p) == index[p] # head[p] \/ files[p] # index[p]

\* git status --porcelain, and the loop over its lines.  Of a rename the loop
\* keeps the new name; the old one has a line of its own if it exists again.
\* Faulty: untracked files are left out (--untracked-files=no).
DirtyTracked(away) == {Printed(p) : p \in {q \in Paths : Uncommitted(q) /\ index[q] # None}}
DirtyPaths(away) ==
    {Printed(p) : p \in {q \in Paths : Uncommitted(q) /\ (q \in away => files[q] # None)}}

Porcelain ==
    /\ at = "porcelain" /\ Steps(Then)
    /\ \E away \in RenamedAway : status' = {[Partial EXCEPT !.dirty = DirtyPaths(away)]}
    /\ code' = IF Then = "idle" THEN "OK" ELSE None
    /\ UNCHANGED <<entities, shown, work, last>>

\* A command times out or (one that is checked) fails: a RepoError.  list_entities
\* goes on without a status, and so does a save that is already done.  What
\* subprocess raises besides (no permission, output that does not decode) is caught
\* by serve_rpc only.
GitFails ==
    /\ InGit
    /\ status' = {}
    /\ \/ call.proc = "list_entities" /\ Steps("names") /\ UNCHANGED code
       \/ call.proc = "write_file" /\ Answer("OK")
       \/ call.proc \in {"list_files", "repo_status"} /\ Answer("GIT")
       \/ Answer("INTERNAL")
    /\ UNCHANGED <<entities, shown, work, last>>

Dirty == UNION {s.dirty : s \in status}

-----------------------------------------------------------------------------
(* handle_list_entities. *)

ListEntityNames ==
    /\ at = "names"
    /\ todo' = dirs
    /\ IF dirs = {} THEN Answer("OK") ELSE Steps("entity") /\ UNCHANGED code
    /\ UNCHANGED <<status, entities, shown, paths, total, last>>

\* list_entity_files: is_file follows a link.
ListEntityFiles(e) ==
    {p \in In(e) : files[p] # None /\ AllowedName(p)}
        \cup {l \in DOMAIN Live : l[2] = e /\ AllowedName(l) /\
                  (Live[l] \in Paths => files[Live[l]] # None)}

Entity == CHOOSE e \in todo : TRUE

\* The next entity: its files, and what is decided from their names.
ListOne ==
    /\ at = "entity"
    /\ IF Entity \notin dirs
       THEN Fail("NOT_FOUND")
       ELSE LET here == ListEntityFiles(Entity)
            IN  /\ Steps("compose")
                /\ entities' = entities \cup
                      {[name |-> Entity, fileCount |-> Cardinality(here),
                        readme |-> \E p \in here : p[3] \in ReadmeNames,
                        dirty |-> \E p \in Dirty : p[2] = Entity,
                        services |-> {}]}
                /\ paths' = {p \in here : p[3] \in ComposeNames} /\ total' = 0
                /\ UNCHANGED <<code, status, shown, todo, last>>

\* count_services: one file, or the end of them.
\* Faulty: an entity that cannot be counted is left out.
FinishDrops(count) ==
    /\ entities' = {IF e.name = Entity THEN [e EXCEPT !.services = count] ELSE e :
                       e \in {i \in entities : i.name = Entity => count # {}}}
    /\ todo' = todo \ {Entity} /\ paths' = {}
    /\ IF todo = {Entity} THEN Answer("OK") ELSE Steps("entity") /\ UNCHANGED code
    /\ UNCHANGED total
Finish(count) ==
    /\ entities' = {IF e.name = Entity THEN [e EXCEPT !.services = count] ELSE e : e \in entities}
    /\ todo' = todo \ {Entity} /\ paths' = {}
    /\ IF todo = {Entity} THEN Answer("OK") ELSE Steps("entity") /\ UNCHANGED code
    /\ UNCHANGED total

\* A file that is gone or does not parse leaves the total unknown.
\* Faulty: it is passed over.
UnknownSkipped(c) == FALSE
Unknown(c) == c = None \/ Services[c] = {}

Count(c) == IF c = None \/ Services[c] = {} THEN 0 ELSE CHOOSE n \in Services[c] : TRUE

CountOne ==
    /\ at = "compose"
    /\ IF paths = {} THEN Finish({total})
       ELSE LET p == CHOOSE p \in paths : TRUE
            IN  IF Unknown(files[p]) THEN Finish({})
                ELSE /\ total' = total + Count(files[p])
                     /\ paths' = paths \ {p}
                     /\ Steps("compose") /\ UNCHANGED <<code, entities, todo>>
    /\ UNCHANGED <<status, shown, last>>

-----------------------------------------------------------------------------
(* handle_list_files. *)

ListFiles ==
    /\ at = "files"
    /\ IF call.entity \notin dirs
       THEN Fail("NOT_FOUND")
       ELSE /\ paths' = ListEntityFiles(call.entity)
            /\ IF paths' = {} THEN Answer("OK") ELSE Steps("stat") /\ UNCHANGED code
            /\ UNCHANGED <<status, entities, shown, todo, total, last>>

\* _file_info for the next file; a link that leaves the root and a file that is
\* gone raise what only serve_rpc catches.
FileInfo(p) ==
    LET rel == RealPath(Live, p)
    IN  [name |-> p[3], path |-> rel, dirty |-> rel \in Dirty,
         writable |-> DecideWrite(guard, rel), deletable |-> DecideDelete(guard, rel)]

Stat ==
    /\ at = "stat"
    /\ LET p == CHOOSE p \in paths : TRUE
           rel == RealPath(Live, p)
       IN  IF rel \notin Paths \/ files[rel] = None
           THEN Fail("INTERNAL")
           ELSE /\ shown' = shown \cup {FileInfo(p)} /\ paths' = paths \ {p}
                /\ IF paths = {p} THEN Answer("OK") ELSE Steps("stat") /\ UNCHANGED code
                /\ UNCHANGED <<status, entities, todo, total, last>>

-----------------------------------------------------------------------------
(* handle_read_file. *)

Target == CHOOSE p \in paths : TRUE

\* read_bytes, and the sha of what is returned.
\* Faulty: the sha of the whole file.
ShaOfFile(c) == c
ReadSha(c) == IF c = Big THEN Cut ELSE c

Read ==
    /\ at = "read"
    /\ IF files[Target] = None
       THEN Fail("IO_FAILURE")
       ELSE LET c == files[Target]
            IN  /\ shown' = {[path |-> Target, content |-> IF c = Big THEN Cut ELSE c,
                               sha |-> ReadSha(c), truncated |-> c = Big,
                               writable |-> DecideWrite(guard, Target)]}
                /\ Steps("size")
                /\ UNCHANGED <<code, status, entities, work, last>>

\* stat for the size of the file, and the reply.
ReadReply ==
    /\ at = "size"
    /\ IF files[Target] = None
       THEN Fail("INTERNAL")
       ELSE /\ Answer("OK")
            /\ last' = CHOOSE r \in shown : TRUE
            /\ UNCHANGED <<status, entities, shown, work>>

-----------------------------------------------------------------------------
(* handle_write_file, for a caller that saves what it has read and changed.  *)

\* check_base_sha.  The caller has read the file, so it sends a sha.
Compare ==
    /\ at = "compare"
    /\ IF files[last.path] # last.sha
       THEN Fail("INVALID_STATE")
       ELSE /\ at' = "rename" /\ touched' = {}
            /\ UNCHANGED <<tree, refs, setting, call, answer, work, last, moved, changes, calls>>

\* atomic_write puts the content c in the place of what is there by now.  TREE_LOCK,
\* held since before the comparison, holds no editor and no git.  shown is what the
\* caller was given with the sha of what it replaces.
Rename(c) ==
    /\ at = "rename" /\ c # last.content /\ last.path[2] \in dirs
    /\ files' = [files EXCEPT ![last.path] = c]
    /\ shown' = {[last EXCEPT !.sha = files[last.path]]}
    /\ at' = "head"
    /\ UNCHANGED <<dirs, index, head, refs, setting, call, code, status, entities,
                   work, last, history, changes, calls>>

\* An OSError; or the directory is gone: seen at once, by mkstemp, or by the rename.
RenameFails ==
    /\ at = "rename"
    /\ \/ Fail("IO_FAILURE")
       \/ last.path[2] \notin dirs /\ \E c \in {"NOT_FOUND", "INTERNAL"} : Fail(c)

-----------------------------------------------------------------------------
Next ==
    \/ \E p \in Paths, c \in Contents \cup {None} : Edit(p, c)
    \/ \E e \in Entities : RemoveEntity(e)
    \/ Stage \/ Commit \/ Push \/ FetchMore
    \/ \E c \in Calls : Begin(c)
    \/ Dispatch
    \/ RevParse \/ SymbolicRef \/ RevList \/ Porcelain \/ GitFails
    \/ ListEntityNames \/ ListOne \/ CountOne
    \/ ListFiles \/ Stat \/ Read \/ ReadReply
    \/ Compare \/ \E c \in Contents : Rename(c)
    \/ RenameFails

Spec == Init /\ [][Next]_vars

-----------------------------------------------------------------------------
Answered(proc) == at = "idle" /\ call.proc = proc /\ code = "OK"

Steady(S) == S \cap touched = {}

\* A mark in list_files is right for every file that nobody touched during the
\* call, although the status is older than the listing; an entity is marked only
\* if something below it is uncommitted, and it is if a file that is there is.
\* Without a status nothing is marked, and the answer says that there is none.
\* (Names that git prints with escapes are never marked.)
DirtyMarks ==
    /\ Answered("list_files") =>
          \A f \in shown : Steady({f.path}) /\ f.path[3] \notin OddNames =>
              f.dirty = Uncommitted(f.path)
    /\ Answered("list_entities") =>
          \A e \in entities : Steady(In(e.name)) =>
              IF status = {} THEN ~e.dirty
              ELSE /\ e.dirty => \E p \in In(e.name) : Uncommitted(p)
                   /\ (\E p \in In(e.name) : Uncommitted(p) /\ files[p] # None) => e.dirty

\* The number of services is there exactly if every compose file of the entity
\* (of those with a name that is allowed) can be counted, and then is their sum: a
\* partial sum is never reported as the total, and an entity without compose files
\* has 0.
CountsAreTotals ==
    Answered("list_entities") =>
        \A e \in entities : Steady(In(e.name)) =>
            LET compose == {p \in In(e.name) :
                               files[p] # None /\ AllowedName(p) /\ p[3] \in ComposeNames}
            IN  e.services = IF \E p \in compose : Services[files[p]] = {} THEN {}
                             ELSE {MapThenSumSet(LAMBDA p : Count(files[p]), compose)}

\* Nothing that stayed in its place is missing from a listing, and nothing in a
\* listing was absent throughout the call.
ListsWhatIsThere ==
    /\ Answered("list_entities") =>
          \A e \in Entities : Steady({Dir(e)}) => (e \in dirs <=> \E i \in entities : i.name = e)
    /\ Answered("list_files") =>
          \A p \in In(call.entity) : Steady({p}) /\ AllowedName(p) =>
              (files[p] # None <=> \E f \in shown : f.name = p[3])

\* What a save replaces is exactly the bytes its caller was given, or was put there by
\* somebody else after the comparison: the rest of a truncated file, and a change
\* made between the read and the comparison, are never lost.
NothingUnseenIsLost ==
    call.proc = "write_file" => \A r \in shown : r.sha = r.content \/ r.path \in touched

\* The five commands of one read_state describe one state, unless the head or the
\* upstream moved during the call; without an upstream nothing diverges.
DivergenceOfTheHead ==
    at = "idle" /\ ~moved => \A s \in status :
        /\ s.head = commits
        /\ s.detached = (branch = "detached")
        /\ s.ahead = ahead /\ s.behind = behind

\* The flags of a file say what its globs mean, and say it about the file a link
\* leads to; a save is refused exactly where the flag says so.
FlagsSayWhatGlobsMean ==
    LET May(globs, p) == guard.write /\ \E glob \in globs : Means(p, glob)
    IN  at = "idle" =>
        /\ call.proc \in {"list_files", "read_file", "write_file"} =>
              \A f \in shown : f.writable = May(guard.writeGlobs, f.path)
        /\ call.proc = "list_files" =>
              \A f \in shown : f.deletable = May(guard.deleteGlobs, f.path)
        /\ call.proc = "write_file" /\ code # None => (code = "PERMISSION_DENIED" <=> ~last.writable)

=============================================================================
