------------------------------ MODULE MCLocked ------------------------------
EXTENDS LockedFile, TLC
CONSTANTS c1, c2, c3, p1, p2

\* Two calls of one process, as the MCP server makes, and one of another.
TwoAndOne == c1 :> p1 @@ c2 :> p1 @@ c3 :> p2
OneEach == c1 :> p1 @@ c2 :> p2

Mixed == c1 :> {"delete", "list"} @@ c2 :> {"set", "get"} @@ c3 :> {"set", "init"}
Sets == c1 :> {"set"} @@ c2 :> {"set"}
=============================================================================
