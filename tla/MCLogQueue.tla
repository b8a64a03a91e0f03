----------------------------- MODULE MCLogQueue -----------------------------
(* Two followers share a queue of two: the smallest instance in which one  *)
(* follower can take the slot that another one has just freed.  With three *)
(* items each, a follower overflows the queue again after that.            *)
EXTENDS LogQueue, TLC

CONSTANTS c1, c2
MCContainers == {c1, c2}
=============================================================================
