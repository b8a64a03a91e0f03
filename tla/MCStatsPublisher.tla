-------------------------- MODULE MCStatsPublisher --------------------------
(* Three containers: c2 is the recreated c1, under the same name, and c3,   *)
(* with a later name, is on the network of the host and has no byte counter *)
(* of its own.                                                              *)
EXTENDS StatsPublisher

CONSTANTS c1, c2, c3, cpu, bytes
MCIds == {c1, c2, c3}
MCNameOf == [c \in MCIds |-> IF c = c3 THEN 2 ELSE 1]
MCKinds == {cpu, bytes}
MCCounted == [c \in MCIds |-> IF c = c3 THEN {cpu} ELSE MCKinds]

\* c1 is there at the start, so that c2 can take its name.
MCInit == Init /\ status[c1] # "none" /\ status[c2] = "none"

MCSpec == MCInit /\ [][Next]_vars /\ WF_vars(Loop)
=============================================================================
