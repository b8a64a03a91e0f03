-------------------------- MODULE MCPlatformWrite --------------------------
(* Two threads, a file that may be written and one that may not, two       *)
(* contents.  Three requests let two threads race and a third one follow,  *)
(* before or after a crash.                                                *)
EXTENDS PlatformWrite, TLC

CONSTANTS h1, h2, compose, secret, v1, v2, s1, s2
MCOps == {h1, h2}
MCPaths == {compose, secret}
MCWritable == {compose}
MCContents == {v1, v2}
MCSha == v1 :> s1 @@ v2 :> s2
=============================================================================
