-------------------------- MODULE MCContainerControl --------------------------
(* The responder's own container and two others, one of them created with   *)
(* --rm, and a spare name.  Two calls that interleave with two changes      *)
(* cover a container that is removed and created again under its name, or   *)
(* one that changes its state twice, between two steps of a call.           *)
EXTENDS ContainerControl, TLC

CONSTANTS me, c1, c2, own, n1, n2, me12, ab
MCIds == {me, c1, c2}
MCNames == {own, n1, n2}
MCAutoRemove == {c2}

\* ab abbreviates two ids, once c2 is there.
MCShort == me :> {me12, ab} @@ c1 :> {} @@ c2 :> {ab}

\* "--allow *" without removal, or "--allow n1" with removal of anything.
MCAllowLists == {Addresses, {n1}}
MCRemoveLists == {{}, Addresses}

\* Requests for the own container by name, by the 12-character id and by another
\* abbreviation, for another container, and for none.
MCAsked == {own, me12, ab, n1, NoName}

\* c2 is not there yet: it may take over the name of c1.
MCInit ==
    /\ Init
    /\ name = (me :> own @@ c1 :> n1 @@ c2 :> n2)
    /\ status[c2] = "none" /\ status[c1] # "none"
    /\ allowGlobs = {n1} <=> removeGlobs = Addresses

MCSpec == MCInit /\ [][Next]_vars
=============================================================================
