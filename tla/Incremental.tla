----------------------------- MODULE Incremental -----------------------------
(***************************************************************************)
(* Incremental builds over a shared object cache: _compile_incremental     *)
(* (compiler/pipeline.py), CacheManager (compiler/cache.py), the unit      *)
(* fingerprint (compiler/fingerprint.py) and what one unit's object is     *)
(* made of (build_module_single_unit in backend/codegen_llvm.py).          *)
(*                                                                         *)
(* Compilers share one cache directory while an editor changes the files   *)
(* and somebody may delete the directory.  A file is the versions of its   *)
(* aspects; a digest is the value it digests.                              *)
(***************************************************************************)
EXTENDS Naturals, FiniteSets, Sequences, SequencesExt, Functions

CONSTANTS
    Order,          \* the compilation order, the main unit first
    Imports,        \* the units each unit imports
    Refers,         \* the units whose declarations each unit's code uses
    Builders,       \* compiler processes
    Settings,       \* what global_key digests: opt level, target, compiler
    Editable,       \* the aspects of a file the editor changes
    EditsRace,      \* whether a file may change between its parse and its digest
    MaxEdits, MaxBuilds     \* bounds on the edits and on the compiles

Units == Range(Order)

(* What a file holds: function bodies, signatures, the values of constants, *)
(* the fields of structs and enums, the bodies of generic functions with    *)
(* what instantiates them, and the bodies of generic extensions.            *)
Aspects == {"body", "sig", "const", "layout", "generic", "ext"}

ASSUME OrderAssumption == Order \in Seq(Units) /\ Order # <<>> /\ IsInjective(Order)
ASSUME ImportsAssumption ==
    /\ Imports \in [Units -> SUBSET Units] /\ Refers \in [Units -> SUBSET Units]
    /\ Editable \subseteq Aspects /\ EditsRace \in BOOLEAN
ASSUME SettingsAssumption == Settings # {}
ASSUME BoundsAssumption == MaxEdits \in Nat /\ MaxBuilds \in Nat

(* What the digest relies on: a unit uses the declarations of its imports   *)
(* only, and bodies, signatures and bodies of generic extensions are all    *)
(* that is edited, never between the two reads of a compile.                *)
DigestCovers ==
    /\ \A u \in Units : Refers[u] \subseteq Imports[u]
    /\ Editable \subseteq {"body", "sig", "ext"}
    /\ ~EditsRace

VARIABLES
    disk,       \* the source files
    cache,      \* the published objects, by file name
    tmp,        \* per compiler, its temporary file: "none", "partial" or "whole"
    build,      \* per compiler, the compile it runs
    edits, builds   \* how many there were, for the bounds

vars == <<disk, cache, tmp, build, edits, builds>>

-----------------------------------------------------------------------------
(* Names and objects. *)

Clean == [a \in Aspects |-> 0]

\* The aspects of the units in vs that as names, as parsed.
Part(parsed, vs, as) == [v \in vs |-> [a \in as |-> parsed[v][a]]]

\* A mutant of Fingerprint: the signatures of imported units are left out.
FingerprintOwn(parsed, u) ==
    [source |-> disk[u], own |-> Part(parsed, {u}, {"sig", "layout"}), deps |-> <<>>,
     exts |-> Part(parsed, Units, {"ext"})]

\* compute_unit_fingerprint: the file's bytes read again, the structure of the
\* parsed unit, the exported signatures of the units it imports, and the body
\* of every monomorphized extension of the program.
Fingerprint(parsed, u) ==
    [source |-> disk[u], own |-> Part(parsed, {u}, {"sig", "layout"}),
     deps |-> Part(parsed, Imports[u], {"sig"}),
     exts |-> Part(parsed, Units, {"ext"})]

\* A mutant of ObjectName: nothing of the settings.
ObjectNameAlone(u, setting, fingerprint) == [unit |-> u, fp |-> fingerprint]

ObjectName(u, setting, fingerprint) == [unit |-> u, key |-> setting, fp |-> fingerprint]

\* What the object of u is generated from.  Constants are folded or copied into
\* the unit that uses them; the first unit of the order receives every
\* synthesized function.
Inputs(parsed, setting, u) ==
    [own |-> parsed[u],
     seen |-> Part(parsed, Refers[u], {"sig", "const", "layout"}),
     exts |-> Part(parsed, Units, {"ext"}),
     generics |-> Part(parsed, IF u = Order[1] THEN Units ELSE {}, {"generic"}),
     setting |-> setting]

-----------------------------------------------------------------------------
(* The environment. *)

Idle ==
    [at |-> "idle", i |-> 1, parsed |-> <<>>, setting |-> CHOOSE s \in Settings : TRUE, names |-> <<>>, linked |-> <<>>]

Init ==
    /\ disk = [u \in Units |-> Clean]
    /\ cache = <<>>
    /\ tmp = [b \in Builders |-> "none"]
    /\ build = [b \in Builders |-> Idle]
    /\ edits = 0 /\ builds = 0

\* Whether b has parsed u and has still to read it again for the digest.
BetweenReads(b, u) ==
    /\ build[b].at \in {"parse", "unit", "write", "publish"}
    /\ u \in DOMAIN build[b].parsed
    /\ u \notin {n.unit : n \in Range(build[b].names)}

\* A file gets another version, or one it had before.
Edit(u, a) ==
    /\ edits < MaxEdits
    /\ EditsRace \/ \A b \in Builders : ~BetweenReads(b, u)
    /\ disk' = [disk EXCEPT ![u][a] = 1 - @]
    /\ edits' = edits + 1
    /\ UNCHANGED <<cache, tmp, build, builds>>

\* --clean-cache, and every other deletion: one file of the cache goes.
Delete ==
    /\ \/ /\ \E n \in DOMAIN cache : cache' = Restrict(cache, DOMAIN cache \ {n})
          /\ UNCHANGED tmp
       \/ /\ \E b \in Builders : tmp[b] # "none" /\ tmp' = [tmp EXCEPT ![b] = "none"]
          /\ UNCHANGED cache
    /\ UNCHANGED <<disk, build, edits, builds>>

-----------------------------------------------------------------------------
(* A compile. *)

Start(b) ==
    /\ build[b].at = "idle" /\ builds < MaxBuilds
    /\ \E s \in Settings : build' = [build EXCEPT ![b] = [Idle EXCEPT !.at = "parse", !.setting = s]]
    /\ builds' = builds + 1
    /\ UNCHANGED <<disk, cache, tmp, edits>>

\* The next file is read; after the last the passes run and code is generated.
Parse(b) ==
    LET u == Order[build[b].i]
        last == build[b].i = Len(Order)
    IN  /\ build[b].at = "parse"
        /\ build' = [build EXCEPT ![b].parsed = [v \in DOMAIN @ \cup {u} |->
                                                    IF v = u THEN disk[u] ELSE @[v]],
                                  ![b].i = IF last THEN 1 ELSE @ + 1,
                                  ![b].at = IF last THEN "unit" ELSE @]
        /\ UNCHANGED <<disk, cache, tmp, edits, builds>>

Unit(b) == Order[build[b].i]

\* The build record once the object of the current unit is settled.
Settled(r) == [r EXCEPT !.i = @ + 1, !.at = IF r.i = Len(Order) THEN "link" ELSE "unit"]

\* has_cached_unit: a file of that name is the object, whatever it holds.
LookUp(b) ==
    LET name == ObjectName(Unit(b), build[b].setting, Fingerprint(build[b].parsed, Unit(b)))
        named == [build[b] EXCEPT !.names = Append(@, name)]
    IN  /\ build[b].at = "unit"
        /\ build' = [build EXCEPT ![b] = IF name \in DOMAIN cache THEN Settled(named)
                                         ELSE [named EXCEPT !.at = "write"]]
        /\ UNCHANGED <<disk, cache, tmp, edits, builds>>

Object(b) ==
    [inputs |-> Inputs(build[b].parsed, build[b].setting, Unit(b)), whole |-> tmp[b] = "whole"]
Stored(name, object) == [n \in DOMAIN cache \cup {name} |-> IF n = name THEN object ELSE cache[n]]

\* _store: the temporary file carries the process id, so nobody else writes it.
Write(b) ==
    /\ build[b].at = "write"
    /\ tmp' = [tmp EXCEPT ![b] = "partial"]
    /\ build' = [build EXCEPT ![b].at = "publish"]
    /\ UNCHANGED <<disk, cache, edits, builds>>

Fill(b) ==
    /\ build[b].at = "publish" /\ tmp[b] = "partial"
    /\ tmp' = [tmp EXCEPT ![b] = "whole"]
    /\ UNCHANGED <<disk, cache, build, edits, builds>>

Publish(b) ==
    /\ build[b].at = "publish" /\ tmp[b] = "whole"
    /\ cache' = Stored(Last(build[b].names), Object(b))
    /\ tmp' = [tmp EXCEPT ![b] = "none"]
    /\ build' = [build EXCEPT ![b] = Settled(@)]
    /\ UNCHANGED <<disk, edits, builds>>

\* The temporary file was deleted: os.replace raises and the compile fails.
PublishFails(b) ==
    /\ build[b].at = "publish" /\ tmp[b] = "none"
    /\ build' = [build EXCEPT ![b].at = "failed"]
    /\ UNCHANGED <<disk, cache, tmp, edits, builds>>

Named(b) == Range(build[b].names)

Link(b) ==
    /\ build[b].at = "link"
    /\ build' = [build EXCEPT
          ![b].at = IF Named(b) \subseteq DOMAIN cache THEN "done" ELSE "failed",
          ![b].linked = IF Named(b) \subseteq DOMAIN cache
                        THEN [i \in DOMAIN build[b].names |-> cache[build[b].names[i]]]
                        ELSE <<>>]
    /\ UNCHANGED <<disk, cache, tmp, edits, builds>>

\* The process is killed; its temporary file stays behind, under a name no
\* lookup asks for.
Crash(b) ==
    /\ build[b].at \notin {"idle", "done", "failed"}
    /\ build' = [build EXCEPT ![b] = [Idle EXCEPT !.at = "failed"]]
    /\ UNCHANGED <<disk, cache, tmp, edits, builds>>

\* The process is over and another compile may take its place.
Exit(b) ==
    /\ build[b].at \in {"done", "failed"}
    /\ build' = [build EXCEPT ![b] = Idle]
    /\ tmp' = [tmp EXCEPT ![b] = "none"]
    /\ UNCHANGED <<disk, cache, edits, builds>>

Next ==
    \/ \E u \in Units, a \in Editable : Edit(u, a)
    \/ Delete
    \/ \E b \in Builders :
          Start(b) \/ Parse(b) \/ LookUp(b) \/ Write(b) \/ Fill(b) \/ Publish(b)
            \/ PublishFails(b) \/ Link(b) \/ Crash(b) \/ Exit(b)

Spec == Init /\ [][Next]_vars

-----------------------------------------------------------------------------
(* Properties. *)

TypeOK ==
    /\ disk \in [Units -> [Aspects -> {0, 1}]]
    /\ \A n \in DOMAIN cache :
          n.unit \in Units /\ cache[n].inputs.setting \in Settings
    /\ tmp \in [Builders -> {"none", "partial", "whole"}]
    /\ \A b \in Builders :
          /\ build[b].at \in {"idle", "parse", "unit", "write", "publish", "link", "done", "failed"}
          /\ DOMAIN build[b].parsed \subseteq Units
          /\ Len(build[b].names) <= Len(Order)
    /\ edits \in 0..MaxEdits /\ builds \in 0..MaxBuilds

\* A compile links one object per unit, none of them truncated, whoever else
\* writes the directory and wherever a process is killed.
LinksWhole ==
    \A b \in Builders : build[b].at = "done" =>
        /\ Len(build[b].linked) = Len(Order)
        /\ \A i \in DOMAIN build[b].linked : build[b].linked[i].whole

\* The objects a compile links were generated from what that compile read,
\* with its settings: reusing an object is the same as generating it.
LinksFresh ==
    \A b \in Builders : build[b].at = "done" =>
        \A i \in DOMAIN build[b].linked :
            build[b].linked[i].inputs = Inputs(build[b].parsed, build[b].setting, Order[i])

\* A compile links one whole object per unit, each generated from what this
\* compile read with its settings, whoever else writes the cache, wherever a
\* process is killed and whenever a file is edited.
LinksCurrent == LinksWhole /\ LinksFresh

\* Two objects published under one name are the same object, so it never
\* matters which of two concurrent compilers comes last.
SameNameSameObject ==
    [][\A n \in DOMAIN cache \cap DOMAIN cache' : cache'[n] = cache[n]]_vars
=============================================================================
