------------------------------- MODULE PathJail -------------------------------
(***************************************************************************)
(* Which file of the platforms repository a caller's path names, and who   *)
(* may change it: platform_paths and platform_guard, which are pure.       *)
(*                                                                         *)
(* A path is the sequence of its parts below the repository root; one that *)
(* leaves the root begins with "..".  A segment of a glob is "**" (deep)   *)
(* or the set of the names that fnmatchcase accepts for it.                *)
(***************************************************************************)
EXTENDS Naturals, Sequences

CONSTANTS AllowedNames    \* the names is_allowed_name accepts

\* _check_shape.  A path as a caller writes it has parts, may be absolute, and is
\* odd if it is empty or holds a backslash or a null byte.
ShapeOK(path) ==
    /\ ~path.odd /\ ~path.absolute
    /\ \A i \in 1 .. Len(path.parts) : path.parts[i] \notin {"..", ".git"}

\* Path.resolve: every part in turn, through the links there are.  links maps
\* the path of a link to the real path of its target.
RealPath(links, parts) ==
    LET Follow(p) == IF p \in DOMAIN links THEN links[p] ELSE p
        Real[i \in 0 .. Len(parts)] ==
            IF i = 0 THEN <<>> ELSE Follow(Append(Real[i - 1], parts[i]))
    IN  Real[Len(parts)]

Inside(p) == p = <<>> \/ p[1] # ".."

AllowedName(p) == p # <<>> /\ p[Len(p)] \in AllowedNames

\* resolve, without must_be_file: the path accepted, or none.
Resolved(links, path) ==
    LET p == RealPath(links, path.parts)
    IN  IF ShapeOK(path) /\ Inside(p) /\ AllowedName(p) THEN {p} ELSE {}

-----------------------------------------------------------------------------
(* path_matches. *)

\* _match_segments: at <<i, j>> on the path from part i + 1 and the glob from
\* segment j + 1.
\* Faulty: "**" spans at least one part.
MatchSegmentsOne(path, glob) ==
    LET M[c \in (0 .. Len(path)) \X (0 .. Len(glob))] ==
            LET i == c[1]
                j == c[2]
            IN  IF j = Len(glob) THEN i = Len(path)
                ELSE IF i = Len(path) THEN FALSE
                ELSE IF glob[j + 1].deep THEN M[<<i + 1, j + 1>>] \/ M[<<i + 1, j>>]
                ELSE path[i + 1] \in glob[j + 1].names /\ M[<<i + 1, j + 1>>]
    IN  M[<<0, 0>>]
MatchSegments(path, glob) ==
    LET M[c \in (0 .. Len(path)) \X (0 .. Len(glob))] ==
            LET i == c[1]
                j == c[2]
            IN  IF j = Len(glob) THEN i = Len(path)
                ELSE IF glob[j + 1].deep
                     THEN M[<<i, j + 1>>] \/ (i < Len(path) /\ M[<<i + 1, j>>])
                ELSE i < Len(path) /\ path[i + 1] \in glob[j + 1].names /\ M[<<i + 1, j + 1>>]
    IN  M[<<0, 0>>]

\* What a glob means: the path can be cut into one piece per segment, of one
\* part that fits or, for "**", of any number of parts.
Means(path, glob) ==
    \E cut \in [0 .. Len(glob) -> 0 .. Len(path)] :
        /\ cut[0] = 0 /\ cut[Len(glob)] = Len(path)
        /\ \A j \in 1 .. Len(glob) :
              IF glob[j].deep THEN cut[j] >= cut[j - 1]
              ELSE cut[j] = cut[j - 1] + 1 /\ path[cut[j]] \in glob[j].names

-----------------------------------------------------------------------------
(* FileGuard.  A guard: write_enabled, write_globs and delete_globs. *)

\* The combinations main accepts at startup.
StartupAccepts(guard) ==
    /\ guard.write => guard.writeGlobs # {}
    /\ guard.deleteGlobs # {} => guard.write

DecideWrite(guard, p) ==
    guard.write /\ \E glob \in guard.writeGlobs : MatchSegments(p, glob)

DecideDelete(guard, p) ==
    guard.write /\ \E glob \in guard.deleteGlobs : MatchSegments(p, glob)

=============================================================================
