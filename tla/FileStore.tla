----------------------------- MODULE FileStore -----------------------------
(***************************************************************************)
(* What write_file promises to the operators who edit a platform's files:  *)
(* each save is one compare-and-swap on the file it names, and its answer  *)
(* says what happened, unless it is INTERNAL.  A restart of the responder  *)
(* loses the requests that were not answered; a power loss may also take   *)
(* files back to the version that the disk last recorded.                  *)
(***************************************************************************)
CONSTANTS
    Ops,           \* requests that can be in progress at the same time
    Paths,
    Requests,      \* records with a path, a base and a content
    Absent,        \* the version of a file that does not exist
    Accepts(_, _)  \* whether a base names this version of a file

VARIABLES
    tree,     \* the version of each file that a reader sees
    stable,   \* the version that would be there after a power loss
    request,  \* the last request of each slot
    outcome   \* what has become of it

storeVars == <<tree, stable, request, outcome>>

Init ==
    /\ stable = tree
    /\ request \in [Ops -> Requests]
    /\ outcome = [h \in Ops |-> "none"]

Ask(h) ==
    /\ outcome[h] \notin {"pending", "done"}
    /\ \E r \in Requests : request' = [request EXCEPT ![h] = r]
    /\ outcome' = [outcome EXCEPT ![h] = "pending"]
    /\ UNCHANGED <<tree, stable>>

Save(h) ==
    /\ outcome[h] = "pending"
    /\ Accepts(tree[request[h].path], request[h].base)
    /\ tree' = [tree EXCEPT ![request[h].path] = request[h].content]
    /\ outcome' = [outcome EXCEPT ![h] = "done"]
    /\ UNCHANGED <<stable, request>>

Confirm(h) ==
    /\ outcome[h] = "done"
    /\ outcome' = [outcome EXCEPT ![h] = "saved"]
    /\ UNCHANGED <<tree, stable, request>>

\* Before the file was replaced or after: the answer does not tell.
Stumble(h) ==
    /\ outcome[h] \in {"pending", "done"}
    /\ outcome' = [outcome EXCEPT ![h] = "internal"]
    /\ UNCHANGED <<tree, stable, request>>

Refuse(h) ==
    /\ outcome[h] = "pending"
    /\ ~Accepts(tree[request[h].path], request[h].base)
    /\ outcome' = [outcome EXCEPT ![h] = "stale"]
    /\ UNCHANGED <<tree, stable, request>>

\* Not writable, no directory, a full disk: nothing has changed.
Fail(h) ==
    /\ outcome[h] = "pending"
    /\ outcome' = [outcome EXCEPT ![h] = "failed"]
    /\ UNCHANGED <<tree, stable, request>>

\* The disk has caught up.
Record(p) ==
    /\ stable' = [stable EXCEPT ![p] = tree[p]]
    /\ UNCHANGED <<tree, request, outcome>>

Restart ==
    /\ tree' \in {tree, stable}
    /\ \A h \in Ops : outcome'[h] \in {outcome[h], "none"} \ {"pending", "done"}
    /\ outcome' = [h \in Ops |-> outcome'[h]]
    /\ UNCHANGED <<stable, request>>

Next ==
    \/ \E h \in Ops : Ask(h) \/ Save(h) \/ Confirm(h) \/ Stumble(h) \/ Refuse(h) \/ Fail(h)
    \/ \E p \in Paths : Record(p)
    \/ Restart

Spec == Init /\ [][Next]_storeVars
=============================================================================
