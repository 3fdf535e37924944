----------------------------- MODULE MCArtifacts -----------------------------
(***************************************************************************)
(* What is written to disk and found again: the object cache shared by     *)
(* concurrent compilers, and the packages under ~/.sushi.  A behaviour is  *)
(* about one of the two and the other rests.                               *)
(***************************************************************************)
EXTENDS MCIncremental, Packager

VARIABLE topic    \* "objects" or "packages"

\* A package rebuilt without its executable and without a new version, its next
\* version, and another package with an executable of the same name.
Source(p, v, es, k) == [pkg |-> p, ver |-> v, exes |-> es, kind |-> k]
FewSources ==
    {Source("foo", 1, {"x"}, "archive"), Source("foo", 1, {}, "archive"),
     Source("foo", 2, {"x"}, "dir"), Source("foo-bar", 1, {"x"}, "archive")}

\* The pattern foo-*.nori matches the archives of foo-bar as well.
NameGlob(n, s) == n = s.pkg \/ (n = "foo" /\ s.pkg = "foo-bar")

ASSUME DigestCovers
ASSUME NamesAssumption

\* Nothing was ever installed: Packager's own beginning, which no step leaves.
ArtifactsInit == Init /\ PackInit /\ topic \in {"objects", "packages"}

ObjectsStep  == topic = "objects" /\ Next /\ UNCHANGED <<topic, packVars>>
PackagesStep == topic = "packages" /\ PackNext /\ UNCHANGED <<topic, vars>>

ArtifactsSpec ==
    ArtifactsInit /\ [][ObjectsStep \/ PackagesStep]_<<topic, vars, packVars>>
=============================================================================
