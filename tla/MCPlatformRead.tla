--------------------------- MODULE MCPlatformRead ---------------------------
(* Two entities of two compose files, a link inside and one that leaves the  *)
(* root, and globs of every kind.  Trees differ by a file that was moved.    *)
EXTENDS PlatformRead, TLC

Path(e, f) == <<"platforms", e, f>>
MCTrees ==
    LET Tree(ac, ag, bc, bg) ==
            [p \in Paths |-> IF p[2] = "a" THEN IF p[3] = "docker-compose.yml" THEN ac ELSE ag
                             ELSE IF p[3] = "docker-compose.yml" THEN bc ELSE bg]
    IN  {Tree("one", "big", None, "cut"), Tree("one", None, "big", "cut")}
MCServices == [c \in Contents |-> CASE c = "one" -> {1} [] c = "cut" -> {2} [] OTHER -> {}]

Inner == Path("a", "link.md") :> Path("b", "docker-compose.odd.yml")
Outer == Path("b", "link.md") :> <<"..", "elsewhere.md">>
MCLinkSets == {[l \in {} |-> <<>>], Inner @@ Outer}

Name(n) == [deep |-> FALSE, names |-> {n}]
Star == [deep |-> FALSE, names |-> {"platforms"} \cup Entities \cup FileNames]
Deep == [deep |-> TRUE, names |-> {}]
Some == <<Deep, Name("a"), Deep, Star>>
MCGuards ==
    [write : {FALSE}, writeGlobs : {{Some}}, deleteGlobs : {{}, {Some}}]
        \cup [write : {TRUE}, writeGlobs : {{}, {<<Name("platforms"), Star>>, Some}}, deleteGlobs : {{}}]
        \cup [write : {TRUE}, writeGlobs : {{<<Deep, Name("docker-compose.odd.yml"), Deep>>}},
               deleteGlobs : {{<<Star, Name("b"), Star>>}}]

AtPath(parts) == [odd |-> FALSE, absolute |-> FALSE, parts |-> parts]
Call(proc, e, path) == [proc |-> proc, entity |-> e, path |-> path]
NoPath == AtPath(<<>>)
MCCalls ==
    {Call(p, None, NoPath) : p \in {"list_entities", "repo_status", "write_file", "sync"}}
        \cup {Call("list_files", e, NoPath) : e \in {"a", "b", ".."}}
        \cup {Call("read_file", None, q) :
                 q \in {AtPath(Path("a", "docker-compose.odd.yml")), AtPath(Path("a", "link.md")),
                        AtPath(Path("b", "link.md")), AtPath(<<"platforms", "..", "x.md">>),
                        [AtPath(Path("a", "docker-compose.odd.yml")) EXCEPT !.absolute = TRUE]}}
=============================================================================
