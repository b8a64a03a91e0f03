-------------------------- MODULE MCStatusPublisher --------------------------
(* Two containers, so that one can change between the readings of both, and *)
(* two states; both are there, or the first or the second comes later.  One *)
(* failure, one loss and one restart combine with two changes and a        *)
(* heartbeat every two ticks.                                              *)
EXTENDS StatusPublisher

CONSTANTS c1, c2
MCIds == {c1, c2}
MCStates == {"exited", "running"}
MCHosts ==
    LET Host(first, second) == [c \in MCIds |-> IF c = c1 THEN first ELSE second]
    IN  {Host("running", "running"), Host("none", "running"), Host("exited", "none")}
MCTaggings == {[c \in MCIds |-> TRUE]}
=============================================================================
