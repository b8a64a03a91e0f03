---------------------------- MODULE MCLogFollower ----------------------------
(* One container, with room for two followers of it, so that a second one  *)
(* would be seen.  Followers of different containers share the lock, the   *)
(* scan and stop(), and wait for none of these for long; that they do not  *)
(* disturb each other's entries is proved for every set of containers.     *)
(* Five changes are an outage with its recovery, a removal with a new      *)
(* container of that name, and one more start or exit, in any order;       *)
(* stop() comes at any moment in between.                                  *)
EXTENDS LogFollower

CONSTANT n1
OneName == {n1}
=============================================================================
