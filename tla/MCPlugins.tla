------------------------------ MODULE MCPlugins ------------------------------
EXTENDS PluginHost, TLC
CONSTANTS c1, c2, c3, p1, p2

TwoAndOne == c1 :> p1 @@ c2 :> p1 @@ c3 :> p2
Together == c1 :> p1 @@ c2 :> p1
OneThenOne == c1 :> p1 @@ c2 :> p2 @@ c3 :> p2

Tar(i, v, h, signs) == [name |-> i, version |-> v, hash |-> h, always |-> signs]
X1 == Tar("x", "1", "a", FALSE)
X2 == Tar("x", "2", "b", TRUE)
Y1 == Tar("y", "1", "c", FALSE)
X1Rebuilt == Tar("x", "1", "b", FALSE)
Packages == {X1, X2, Y1}
Rebuilt == {X1, X1Rebuilt}
Recorded1 == {X1}

\* Ids are turned into names of directories of their own, or into one name, as
\* "a/b" and "a_b" are.
Apart == [i \in Ids |-> i]
Alike == [i \in Ids |-> "a_b"]

Mixed == c1 :> {"install", "remove"} @@ c2 :> {"reload", "verify", "remove"}
         @@ c3 :> {"install"}
Installs == c1 :> {"install"} @@ c2 :> {"install"}
InstallsVerified == c1 :> {"install"} @@ c2 :> {"install"} @@ c3 :> {"verify"}
=============================================================================
