------------------------------ MODULE MCLogRead ------------------------------
(* Requests for both streams or one, with a tail below, at and above the    *)
(* ceiling, and since instants in the second of their second and at 0.      *)
EXTENDS LogRead

MCRequests ==
    [tail : {0, 1}, since : {{}}, want : {Streams, {"stderr"}}]
        \cup [tail : {3}, since : {{}, {1}, {3}}, want : {Streams}]
MCBytes == [s \in Streams |-> IF s = "stdout" THEN 1 ELSE 2]
=============================================================================
