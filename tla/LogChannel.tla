----------------------------- MODULE LogChannel -----------------------------
(***************************************************************************)
(* What the log capture promises about the lines of each container,        *)
(* whatever threads and queues carry them: a lossy channel per container.  *)
(* A line may be lost on the way, but a line that is delivered is          *)
(* delivered once, and after every earlier line of its container that is   *)
(* delivered at all.  Nothing is promised between two containers: each one *)
(* is recorded on a key of its own.                                        *)
(*                                                                         *)
(* The n-th line of container c is the pair <<c, n>>.                      *)
(***************************************************************************)
EXTENDS Naturals

CONSTANT Containers

VARIABLES
    sent,       \* sent[c] lines of c have entered the channel
    inTransit,  \* the lines that have entered and not yet left
    delivered,  \* the lines a subscriber was given
    lost        \* the lines that were given up

chanVars == <<sent, inTransit, delivered, lost>>

Lines == Containers \X (Nat \ {0})

Init ==
    /\ sent = [c \in Containers |-> 0]
    /\ inTransit = {}
    /\ delivered = {}
    /\ lost = {}

Send(c) ==
    /\ sent' = [sent EXCEPT ![c] = @ + 1]
    /\ inTransit' = inTransit \cup {<<c, sent[c] + 1>>}
    /\ UNCHANGED <<delivered, lost>>

IsOldest(line) == \A other \in inTransit :
                     other[1] = line[1] => line[2] <= other[2]

Deliver(line) ==
    /\ line \in inTransit
    /\ IsOldest(line)
    /\ inTransit' = inTransit \ {line}
    /\ delivered' = delivered \cup {line}
    /\ UNCHANGED <<sent, lost>>

Lose(line) ==
    /\ line \in inTransit
    /\ inTransit' = inTransit \ {line}
    /\ lost' = lost \cup {line}
    /\ UNCHANGED <<sent, delivered>>

Next ==
    \/ \E c \in Containers : Send(c)
    \/ \E line \in inTransit : Deliver(line) \/ Lose(line)

Spec == Init /\ [][Next]_chanVars
=============================================================================
