--------------------------- MODULE ArtifactsProofs ---------------------------
(***************************************************************************)
(* What the compiler and the package manager keep on disk.                  *)
(* Incremental, for every set of units and of compilers: a compile links    *)
(* one whole object per unit, generated from what it read, and two objects  *)
(* published under one name are the same.                                   *)
(* Packager, for every set of sources and wherever earlier commands were    *)
(* cut short: an install that ends is whole, a restore that reports success *)
(* agrees with nori.toml, and removing a package leaves the others alone.   *)
(***************************************************************************)
EXTENDS Incremental, Packager, TLAPS

N == Len(Order)

-----------------------------------------------------------------------------
(* What the variables range over. *)

FileVersions == [Aspects -> {0, 1}]
Parses   == [Units -> FileVersions]
Partial  == UNION {[S -> FileVersions] : S \in SUBSET Units}

\* The name of u's object when the second read of the file gave d.
NameOf(d, p, s, u) ==
    [unit |-> u, key |-> s,
     fp |-> [source |-> d, own |-> Part(p, {u}, {"sig", "layout"}),
             deps |-> Part(p, Imports[u], {"sig"}), exts |-> Part(p, Units, {"ext"})]]

NamesMade   == {NameOf(d, p, s, u) : d \in FileVersions, p \in Parses, s \in Settings, u \in Units}
ObjectOf(p, s, u) == [inputs |-> Inputs(p, s, u), whole |-> TRUE]
ObjectsMade == {ObjectOf(p, s, u) : p \in Parses, s \in Settings, u \in Units}

Builds ==
    [at : {"idle", "parse", "unit", "write", "publish", "link", "done", "failed"},
     i : 1 .. N + 1, parsed : Partial, setting : Settings,
     names : Seq(NamesMade), linked : Seq(ObjectsMade)]

\* The units that r has named are the first ones of the order.
NamesInOrder(r) ==
    Len(r.names) <= N /\ \A j \in 1 .. Len(r.names) : r.names[j].unit = Order[j]

\* How far a compile is: while it parses, the units before i are parsed; later
\* all are, and the objects before i are named, the i-th one too once it has to
\* be written.
Stage(r) ==
    /\ NamesInOrder(r)
    /\ r.at = "parse" => /\ r.i <= N /\ r.names = <<>>
                         /\ DOMAIN r.parsed = {Order[j] : j \in 1 .. r.i - 1}
    /\ r.at = "unit" => r.i <= N /\ Len(r.names) = r.i - 1
    /\ r.at \in {"write", "publish"} => r.i <= N /\ Len(r.names) = r.i
    /\ r.at = "link" => Len(r.names) = N
    /\ r.at = "done" => Len(r.names) = N /\ Len(r.linked) = N
    /\ r.at \in {"unit", "write", "publish", "link", "done"} => r.parsed \in Parses

TypeInv ==
    /\ disk \in Parses
    /\ tmp \in [Builders -> {"none", "partial", "whole"}]
    /\ DOMAIN cache \subseteq NamesMade
    /\ \A n \in DOMAIN cache : cache[n] \in ObjectsMade
    /\ build \in [Builders -> Builds]
    /\ \A b \in Builders : Stage(build[b])
    /\ edits \in 0 .. MaxEdits /\ builds \in 0 .. MaxBuilds

-----------------------------------------------------------------------------
(* The order and the units. *)

LEMMA OrderFacts ==
  /\ N \in Nat /\ N >= 1 /\ DOMAIN Order = 1 .. N
  /\ Units = {Order[j] : j \in 1 .. N}
  /\ \A j, k \in 1 .. N : Order[j] = Order[k] => j = k
<1>1. Order \in Seq(Units) /\ Order # <<>>
  BY OrderAssumption
<1>2. N \in Nat /\ DOMAIN Order = 1 .. N
  BY <1>1 DEF N
<1>3. N >= 1
  BY <1>1, <1>2 DEF N
<1>4. Units = {Order[j] : j \in 1 .. N}
  BY <1>2 DEF Units, Range
<1>5. \A j, k \in 1 .. N : Order[j] = Order[k] => j = k
  BY <1>2, OrderAssumption DEF IsInjective
<1> QED BY <1>2, <1>3, <1>4, <1>5

\* The fingerprint of a unit and its name, from what the second read gives.
LEMMA NameMade ==
  ASSUME disk \in Parses, NEW p \in Parses, NEW s \in Settings, NEW u \in Units
  PROVE  /\ ObjectName(u, s, Fingerprint(p, u)) = NameOf(disk[u], p, s, u)
         /\ NameOf(disk[u], p, s, u) \in NamesMade
         /\ NameOf(disk[u], p, s, u).unit = u
<1>1. disk[u] \in FileVersions
  BY DEF Parses
<1>2. ObjectName(u, s, Fingerprint(p, u)) = NameOf(disk[u], p, s, u)
  BY DEF ObjectName, Fingerprint, NameOf
<1>3. NameOf(disk[u], p, s, u) \in NamesMade
  BY <1>1 DEF NamesMade
<1>4. NameOf(disk[u], p, s, u).unit = u
  BY DEF NameOf
<1> QED BY <1>2, <1>3, <1>4

\* A compile that takes another step: only its own record changes.
LEMMA BuildStep ==
  ASSUME TypeInv, NEW b \in Builders, NEW r \in Builds, Stage(r),
         build' = [build EXCEPT ![b] = r],
         disk' \in Parses, tmp' \in [Builders -> {"none", "partial", "whole"}],
         DOMAIN cache' \subseteq NamesMade, \A n \in DOMAIN cache' : cache'[n] \in ObjectsMade,
         edits' \in 0 .. MaxEdits, builds' \in 0 .. MaxBuilds
  PROVE  TypeInv'
<1>1. build' \in [Builders -> Builds] /\ \A c \in Builders : build'[c] = IF c = b THEN r ELSE build[c]
  BY DEF TypeInv
<1>2. \A c \in Builders : Stage(build'[c])
  BY <1>1 DEF TypeInv
<1> QED BY <1>1, <1>2 DEF TypeInv

\* A process between two compiles, and one that starts or was killed.
LEMMA IdleBuild ==
  ASSUME NEW r, NEW s \in Settings,
         r = Idle \/ r = [Idle EXCEPT !.at = "failed"] \/ r = [Idle EXCEPT !.at = "parse", !.setting = s]
  PROVE  r \in Builds /\ Stage(r) /\ r.names = <<>> /\ DOMAIN r.parsed = {}
           /\ r.at \in {"idle", "parse", "failed"}
<1>1. <<>> \in Partial
  <2>1. <<>> \in [{} -> FileVersions]
    OBVIOUS
  <2> QED BY <2>1 DEF Partial
<1>2. (CHOOSE t \in Settings : TRUE) \in Settings
  BY SettingsAssumption
<1>3. Idle \in Builds
  BY <1>1, <1>2, OrderFacts DEF Idle, Builds
<1>4. Idle.names = <<>> /\ Idle.i = 1 /\ DOMAIN Idle.parsed = {} /\ Idle.at = "idle"
  BY DEF Idle
<1>5. r \in Builds /\ r.names = <<>> /\ r.i = 1 /\ DOMAIN r.parsed = {}
      /\ r.at \in {"idle", "parse", "failed"}
  BY <1>3, <1>4 DEF Builds
<1>6. Stage(r)
  BY <1>5, OrderFacts DEF Stage, NamesInOrder
<1> QED BY <1>5, <1>6

LEMMA InitType == Init => TypeInv
<1> SUFFICES ASSUME Init PROVE TypeInv
  OBVIOUS
<1>1. disk \in Parses
  BY DEF Init, Clean, Parses, FileVersions
<1>2. DOMAIN cache = {} /\ tmp \in [Builders -> {"none", "partial", "whole"}]
  BY DEF Init
<1>3. \A b \in Builders : build[b] = Idle
  BY DEF Init
<1>4. Idle \in Builds /\ Stage(Idle)
  BY SettingsAssumption, IdleBuild
<1>5. build \in [Builders -> Builds]
  BY <1>4 DEF Init
<1>6. edits \in 0 .. MaxEdits /\ builds \in 0 .. MaxBuilds
  BY BoundsAssumption DEF Init
<1> QED BY <1>1, <1>2, <1>3, <1>4, <1>5, <1>6 DEF TypeInv


LEMMA EditType == ASSUME TypeInv, NEW u \in Units, NEW a \in Editable, Edit(u, a) PROVE TypeInv'
<1>1. u \in Units /\ a \in Aspects
  BY ImportsAssumption
<1>2. disk' \in Parses
  <2>1. disk[u] \in FileVersions /\ disk[u][a] \in {0, 1}
    BY <1>1 DEF TypeInv, Parses, FileVersions
  <2>2. 1 - disk[u][a] \in {0, 1}
    BY <2>1
  <2>3. [disk[u] EXCEPT ![a] = 1 - @] \in FileVersions
    BY <2>1, <2>2, Zenon DEF FileVersions
  <2> QED BY <2>3 DEF TypeInv, Parses, Edit
<1>3. edits' \in 0 .. MaxEdits
  BY BoundsAssumption DEF Edit, TypeInv
<1> QED BY <1>2, <1>3 DEF Edit, TypeInv

LEMMA DeleteType == ASSUME TypeInv, Delete PROVE TypeInv'
<1>1. DOMAIN cache' \subseteq DOMAIN cache /\ \A n \in DOMAIN cache' : cache'[n] = cache[n]
  BY DEF Delete, Restrict
<1>2. tmp' \in [Builders -> {"none", "partial", "whole"}]
  BY DEF Delete, TypeInv
<1>3. UNCHANGED <<disk, build, edits, builds>>
  BY DEF Delete
<1> QED BY <1>1, <1>2, <1>3 DEF TypeInv

LEMMA StartType == ASSUME TypeInv, NEW b \in Builders, Start(b) PROVE TypeInv'
<1>1. PICK s \in Settings : build' = [build EXCEPT ![b] = [Idle EXCEPT !.at = "parse", !.setting = s]]
  BY DEF Start
<1>2. builds' \in 0 .. MaxBuilds /\ UNCHANGED <<disk, cache, tmp, edits>>
  BY BoundsAssumption DEF Start, TypeInv
<1>3. [Idle EXCEPT !.at = "parse", !.setting = s] \in Builds
      /\ Stage([Idle EXCEPT !.at = "parse", !.setting = s])
  BY IdleBuild
<1> QED BY <1>1, <1>2, <1>3, BuildStep DEF TypeInv

\* What Parse makes of the record r.
ParsedOne(r) ==
    [r EXCEPT !.parsed = [v \in DOMAIN @ \cup {Order[r.i]} |->
                              IF v = Order[r.i] THEN disk[Order[r.i]] ELSE @[v]],
              !.i = IF r.i = N THEN 1 ELSE @ + 1,
              !.at = IF r.i = N THEN "unit" ELSE @]

LEMMA ParseBuild ==
  ASSUME TypeInv, NEW b \in Builders, Parse(b)
  PROVE  /\ build' = [build EXCEPT ![b] = ParsedOne(build[b])]
         /\ ParsedOne(build[b]) \in Builds /\ Stage(ParsedOne(build[b]))
         /\ DOMAIN ParsedOne(build[b]).parsed = DOMAIN build[b].parsed \cup {Order[build[b].i]}
         /\ ParsedOne(build[b]).names = <<>> /\ build[b].names = <<>>
         /\ build[b].i \in 1 .. N
<1> DEFINE r == build[b]
           u == Order[r.i]
           q == ParsedOne(r)
<1>1. r \in Builds /\ Stage(r) /\ r.at = "parse" /\ r.i \in 1 .. N /\ r.names = <<>>
      /\ DOMAIN r.parsed = {Order[j] : j \in 1 .. r.i - 1}
  <2>1. r \in Builds /\ Stage(r) /\ r.at = "parse"
    BY DEF TypeInv, Parse
  <2>2. r.i \in 1 .. N + 1
    BY <2>1 DEF Builds
  <2> QED BY <2>1, <2>2, OrderFacts DEF Stage
<1>2. build' = [build EXCEPT ![b] = q]
  BY <1>1 DEF Parse, ParsedOne, TypeInv, Builds, N
<1>3. u \in Units /\ disk[u] \in FileVersions
  BY <1>1, OrderFacts DEF TypeInv, Parses
<1> DEFINE f == [v \in DOMAIN r.parsed \cup {u} |-> IF v = u THEN disk[u] ELSE r.parsed[v]]
<1>4. DOMAIN f = {Order[j] : j \in 1 .. r.i} /\ f \in [DOMAIN f -> FileVersions] /\ DOMAIN f \subseteq Units
  <2>1. DOMAIN f = DOMAIN r.parsed \cup {u}
    OBVIOUS
  <2>2. \A v \in DOMAIN r.parsed : r.parsed[v] \in FileVersions
    BY <1>1 DEF Builds, Partial
  <2>3. DOMAIN f = {Order[j] : j \in 1 .. r.i}
    BY <1>1, <2>1
  <2>4. DOMAIN f \subseteq Units
    BY <1>1, <2>3, OrderFacts
  <2> QED BY <1>3, <2>1, <2>2, <2>3, <2>4
<1>5. f \in Partial
  BY <1>4 DEF Partial
<1>6. q = [r EXCEPT !.parsed = f, !.i = IF r.i = N THEN 1 ELSE r.i + 1,
                    !.at = IF r.i = N THEN "unit" ELSE r.at]
  BY <1>1 DEF ParsedOne, Builds
<1> HIDE DEF f, q
<1>7. q \in Builds /\ q.parsed = f /\ q.names = <<>> /\ q.i = (IF r.i = N THEN 1 ELSE r.i + 1)
      /\ q.at = IF r.i = N THEN "unit" ELSE "parse"
  <2>1. (IF r.i = N THEN 1 ELSE r.i + 1) \in 1 .. N + 1
    BY <1>1, OrderFacts
  <2> HIDE DEF r
  <2> DEFINE k == IF r.i = N THEN 1 ELSE r.i + 1
             x == IF r.i = N THEN "unit" ELSE r.at
  <2>2. x \in {"unit", "parse"} /\ k \in 1 .. N + 1
    BY <1>1, <2>1
  <2>3. q = [r EXCEPT !.parsed = f, !.i = k, !.at = x]
    BY <1>6
  <2> HIDE DEF k, x
  <2>4. q \in Builds /\ q.parsed = f /\ q.names = r.names /\ q.i = k /\ q.at = x
    BY <1>1, <1>5, <2>2, <2>3 DEF Builds
  <2> QED BY <1>1, <2>4 DEF k, x
<1>8. Stage(q)
  <2>1. r.i = N => f \in Parses
    BY <1>4, OrderFacts DEF Parses
  <2>2. CASE r.i = N
    BY <1>7, <2>1, <2>2, OrderFacts DEF Stage, NamesInOrder
  <2>3. CASE r.i # N
    BY <1>1, <1>4, <1>7, <2>3, OrderFacts DEF Stage, NamesInOrder
  <2> QED BY <2>2, <2>3
<1> QED BY <1>1, <1>2, <1>4, <1>7, <1>8 DEF f, q

LEMMA ParseType == ASSUME TypeInv, NEW b \in Builders, Parse(b) PROVE TypeInv'
<1>1. UNCHANGED <<disk, cache, tmp, edits, builds>>
  BY DEF Parse
<1> QED BY <1>1, ParseBuild, BuildStep DEF TypeInv


\* The record once the object of the i-th unit is settled.
LEMMA SettledBuild ==
  ASSUME NEW r \in Builds, r.i \in 1 .. N, r.parsed \in Parses, Len(r.names) = r.i, NamesInOrder(r)
  PROVE  /\ Settled(r) \in Builds /\ Stage(Settled(r))
         /\ Settled(r).parsed = r.parsed /\ Settled(r).names = r.names
         /\ Settled(r).setting = r.setting /\ Settled(r).at \in {"unit", "link"}
<1> DEFINE x == IF r.i = N THEN "link" ELSE "unit"
           q == [r EXCEPT !.i = r.i + 1, !.at = x]
<1>1. Settled(r) = q
  BY DEF Settled, N, Builds
<1>2. r.i + 1 \in 1 .. N + 1 /\ x \in {"link", "unit"}
  BY OrderFacts
<1> HIDE DEF x
<1>3. q \in Builds /\ q.parsed = r.parsed /\ q.names = r.names /\ q.setting = r.setting /\ q.at = x
      /\ q.i = r.i + 1
  BY <1>2 DEF Builds
<1> HIDE DEF q
<1>4. Stage(q)
  BY <1>2, <1>3, OrderFacts DEF Stage, NamesInOrder, x
<1> QED BY <1>1, <1>2, <1>3, <1>4

\* What a compile that is busy with its i-th unit holds.
LEMMA BusyFacts ==
  ASSUME TypeInv, NEW b \in Builders, build[b].at \in {"unit", "write", "publish"}
  PROVE  /\ build[b] \in Builds /\ build[b].i \in 1 .. N /\ build[b].parsed \in Parses
         /\ build[b].setting \in Settings /\ build[b].names \in Seq(NamesMade)
         /\ Len(build[b].names) = IF build[b].at = "unit" THEN build[b].i - 1 ELSE build[b].i
         /\ NamesInOrder(build[b]) /\ Unit(b) = Order[build[b].i] /\ Unit(b) \in Units
<1>1. build[b] \in Builds /\ Stage(build[b])
  BY DEF TypeInv
<1>2. build[b].i \in 1 .. N + 1 /\ build[b].names \in Seq(NamesMade) /\ build[b].setting \in Settings
  BY <1>1 DEF Builds
<1>3. build[b].i \in 1 .. N
  BY <1>1, <1>2, OrderFacts DEF Stage
<1> QED BY <1>1, <1>2, <1>3, OrderFacts DEF Stage, Unit

\* LookUp adds the name of the i-th unit.
NewName(b) == NameOf(disk[Unit(b)], build[b].parsed, build[b].setting, Unit(b))
NamedOne(b) == [build[b] EXCEPT !.names = Append(@, NewName(b))]

LEMMA LookUpBuild ==
  ASSUME TypeInv, NEW b \in Builders, LookUp(b)
  PROVE  /\ build[b].at = "unit" /\ UNCHANGED <<disk, cache, tmp, edits, builds>>
         /\ NewName(b) \in NamesMade /\ NewName(b).unit = Order[build[b].i]
         /\ NamedOne(b) \in Builds /\ NamedOne(b).names = Append(build[b].names, NewName(b))
         /\ NamedOne(b).parsed = build[b].parsed /\ NamedOne(b).setting = build[b].setting
         /\ NamedOne(b).i = build[b].i
         /\ Len(NamedOne(b).names) = build[b].i /\ NamesInOrder(NamedOne(b))
         /\ build' = [build EXCEPT ![b] = IF NewName(b) \in DOMAIN cache THEN Settled(NamedOne(b))
                                          ELSE [NamedOne(b) EXCEPT !.at = "write"]]
<1>1. build[b].at = "unit" /\ UNCHANGED <<disk, cache, tmp, edits, builds>>
  BY DEF LookUp
<1>2. disk \in Parses
  BY DEF TypeInv
<1>3. NewName(b) = ObjectName(Unit(b), build[b].setting, Fingerprint(build[b].parsed, Unit(b)))
      /\ NewName(b) \in NamesMade /\ NewName(b).unit = Unit(b)
  BY <1>1, <1>2, BusyFacts, NameMade DEF NewName
<1>4. build' = [build EXCEPT ![b] = IF NewName(b) \in DOMAIN cache THEN Settled(NamedOne(b))
                                    ELSE [NamedOne(b) EXCEPT !.at = "write"]]
  BY <1>3 DEF LookUp, NamedOne
<1>5. Append(build[b].names, NewName(b)) \in Seq(NamesMade)
  BY <1>1, <1>3, BusyFacts
<1>6. NamedOne(b) \in Builds /\ NamedOne(b).names = Append(build[b].names, NewName(b))
      /\ NamedOne(b).parsed = build[b].parsed /\ NamedOne(b).setting = build[b].setting
      /\ NamedOne(b).i = build[b].i
  BY <1>1, <1>5, BusyFacts DEF NamedOne, Builds
<1>7. Len(NamedOne(b).names) = build[b].i /\ NamesInOrder(NamedOne(b))
  BY <1>1, <1>3, <1>6, BusyFacts, OrderFacts DEF NamesInOrder
<1> QED BY <1>1, <1>3, <1>4, <1>6, <1>7, BusyFacts

LEMMA LookUpType == ASSUME TypeInv, NEW b \in Builders, LookUp(b) PROVE TypeInv'
<1> DEFINE q == NamedOne(b)
<1>1. q.i \in 1 .. N /\ q.parsed \in Parses
  BY LookUpBuild, BusyFacts
<1>2. Settled(q) \in Builds /\ Stage(Settled(q))
  BY <1>1, LookUpBuild, SettledBuild
<1>3. [q EXCEPT !.at = "write"] \in Builds /\ Stage([q EXCEPT !.at = "write"])
  <2> DEFINE w == [q EXCEPT !.at = "write"]
  <2>1. w \in Builds /\ w.at = "write" /\ w.i = q.i /\ w.names = q.names /\ w.parsed = q.parsed
    BY LookUpBuild DEF Builds
  <2> HIDE DEF w, q
  <2>2. Stage(w)
    BY <1>1, <2>1, LookUpBuild, OrderFacts DEF Stage, NamesInOrder, q
  <2> QED BY <2>1, <2>2 DEF w
<1>4. PICK r \in Builds : Stage(r) /\ build' = [build EXCEPT ![b] = r]
  BY <1>2, <1>3, LookUpBuild
<1> QED BY <1>4, LookUpBuild, BuildStep DEF TypeInv

LEMMA StayBusy ==
  ASSUME TypeInv, NEW b \in Builders, build[b].at \in {"write", "publish"}
  PROVE  /\ [build[b] EXCEPT !.at = "publish"] \in Builds /\ Stage([build[b] EXCEPT !.at = "publish"])
         /\ [build[b] EXCEPT !.at = "failed"] \in Builds /\ Stage([build[b] EXCEPT !.at = "failed"])
         /\ Settled(build[b]) \in Builds /\ Stage(Settled(build[b]))
<1>1. Settled(build[b]) \in Builds /\ Stage(Settled(build[b]))
  BY BusyFacts, SettledBuild
<1>2. ASSUME NEW x \in {"publish", "failed"}
      PROVE  [build[b] EXCEPT !.at = x] \in Builds /\ Stage([build[b] EXCEPT !.at = x])
  <2> DEFINE r == build[b]
             q == [r EXCEPT !.at = x]
  <2>1. q \in Builds /\ q.at = x /\ q.i = r.i /\ q.names = r.names /\ q.parsed = r.parsed
    BY BusyFacts DEF Builds
  <2> HIDE DEF q
  <2>2. Stage(q)
    BY <2>1, BusyFacts, OrderFacts DEF Stage, NamesInOrder
  <2> QED BY <2>1, <2>2 DEF q
<1> QED BY <1>1, <1>2

LEMMA WriteType == ASSUME TypeInv, NEW b \in Builders, Write(b) \/ Fill(b) PROVE TypeInv'
<1>1. tmp' \in [Builders -> {"none", "partial", "whole"}]
  BY DEF TypeInv, Write, Fill
<1>2. CASE Write(b)
  BY <1>1, <1>2, StayBusy, BuildStep DEF Write, TypeInv
<1>3. CASE Fill(b)
  BY <1>1, <1>3 DEF Fill, TypeInv
<1> QED BY <1>2, <1>3

\* Publish stores a whole object under the last name.
LEMMA PublishStores ==
  ASSUME TypeInv, NEW b \in Builders, Publish(b)
  PROVE  LET r == build[b]
             n == r.names[r.i]
         IN  /\ n \in NamesMade /\ n.unit = Order[r.i]
             /\ DOMAIN cache' = DOMAIN cache \cup {n} /\ \A k \in DOMAIN cache \ {n} : cache'[k] = cache[k]
             /\ cache'[n] = ObjectOf(r.parsed, r.setting, Order[r.i])
             /\ cache'[n] \in ObjectsMade
             /\ build' = [build EXCEPT ![b] = Settled(r)]
             /\ r.at = "publish" /\ UNCHANGED <<disk, edits, builds>>
<1> DEFINE r == build[b]
           n == r.names[r.i]
<1>1. r.at = "publish" /\ tmp[b] = "whole" /\ UNCHANGED <<disk, edits, builds>>
      /\ build' = [build EXCEPT ![b] = Settled(r)]
  BY DEF Publish
<1>2. r.names \in Seq(NamesMade) /\ Len(r.names) = r.i /\ r.i \in 1 .. N /\ NamesInOrder(r)
      /\ r.parsed \in Parses /\ r.setting \in Settings /\ Unit(b) = Order[r.i] /\ Unit(b) \in Units
  BY <1>1, BusyFacts
<1>3. Last(r.names) = n /\ n \in NamesMade /\ n.unit = Order[r.i]
  BY <1>2 DEF Last, NamesInOrder
<1>4. Object(b) = ObjectOf(r.parsed, r.setting, Order[r.i])
  BY <1>1, <1>2 DEF Object, ObjectOf
<1>5. Object(b) \in ObjectsMade
  BY <1>2, <1>4 DEF ObjectsMade
<1>6. cache' = [k \in DOMAIN cache \cup {n} |-> IF k = n THEN Object(b) ELSE cache[k]]
  BY <1>3 DEF Publish, Stored
<1> QED BY <1>1, <1>3, <1>4, <1>5, <1>6

LEMMA PublishType == ASSUME TypeInv, NEW b \in Builders, Publish(b) PROVE TypeInv'
<1>1. tmp' \in [Builders -> {"none", "partial", "whole"}]
  BY DEF TypeInv, Publish
<1>2. DOMAIN cache' \subseteq NamesMade /\ \A k \in DOMAIN cache' : cache'[k] \in ObjectsMade
  <2> DEFINE n == build[b].names[build[b].i]
  <2>1. /\ n \in NamesMade /\ cache'[n] \in ObjectsMade /\ DOMAIN cache' = DOMAIN cache \cup {n}
        /\ \A k \in DOMAIN cache \ {n} : cache'[k] = cache[k]
    BY PublishStores
  <2> QED BY <2>1 DEF TypeInv
<1>3. Settled(build[b]) \in Builds /\ Stage(Settled(build[b]))
  BY PublishStores, StayBusy
<1> QED BY <1>1, <1>2, <1>3, PublishStores, BuildStep DEF TypeInv

LEMMA FailType == ASSUME TypeInv, NEW b \in Builders, PublishFails(b) \/ Crash(b) \/ Exit(b) PROVE TypeInv'
<1>1. CASE PublishFails(b)
  <2>1. build[b].at = "publish" /\ build' = [build EXCEPT ![b] = [build[b] EXCEPT !.at = "failed"]]
    BY <1>1 DEF PublishFails
  <2> QED BY <1>1, <2>1, StayBusy, BuildStep DEF PublishFails, TypeInv
<1>2. CASE Crash(b)
  <2>1. PICK r \in Builds : Stage(r) /\ build' = [build EXCEPT ![b] = r]
    BY <1>2, SettingsAssumption, IdleBuild DEF Crash
  <2> QED BY <1>2, <2>1, BuildStep DEF Crash, TypeInv
<1>3. CASE Exit(b)
  <2>1. Idle \in Builds /\ Stage(Idle)
    BY SettingsAssumption, IdleBuild
  <2>2. tmp' \in [Builders -> {"none", "partial", "whole"}]
    BY <1>3 DEF Exit, TypeInv
  <2> QED BY <1>3, <2>1, <2>2, BuildStep DEF Exit, TypeInv
<1> QED BY <1>1, <1>2, <1>3


LEMMA LinkBuild ==
  ASSUME TypeInv, NEW b \in Builders, Link(b)
  PROVE  \E r \in Builds :
           /\ Stage(r) /\ build' = [build EXCEPT ![b] = r] /\ UNCHANGED <<disk, cache, tmp, edits, builds>>
           /\ r.at \in {"done", "failed"} /\ r.parsed = build[b].parsed
           /\ r.names = build[b].names /\ r.setting = build[b].setting
           /\ build[b].at = "link" /\ Len(r.names) = N
           /\ r.at = "done" => \A j \in 1 .. N : /\ r.names[j] \in DOMAIN cache
                                                 /\ r.linked[j] = cache[r.names[j]]
<1> DEFINE r == build[b]
           all == Named(b) \subseteq DOMAIN cache
           x == IF all THEN "done" ELSE "failed"
           l == IF all THEN [j \in DOMAIN r.names |-> cache[r.names[j]]] ELSE <<>>
           q == [r EXCEPT !.at = x, !.linked = l]
<1>1. r \in Builds /\ Stage(r) /\ r.at = "link" /\ UNCHANGED <<disk, cache, tmp, edits, builds>>
      /\ build' = [build EXCEPT ![b] = q]
  BY DEF Link, TypeInv
<1>2. r.names \in Seq(NamesMade) /\ Len(r.names) = N /\ DOMAIN r.names = 1 .. N /\ r.parsed \in Parses
      /\ NamesInOrder(r)
  BY <1>1 DEF Builds, Stage
<1>3. all => \A j \in 1 .. N : r.names[j] \in DOMAIN cache
  BY <1>2 DEF Named, Range
<1>4. all => l \in Seq(ObjectsMade) /\ Len(l) = N /\ \A j \in 1 .. N : l[j] = cache[r.names[j]]
  <2> SUFFICES ASSUME all PROVE l \in Seq(ObjectsMade) /\ Len(l) = N
                                /\ \A j \in 1 .. N : l[j] = cache[r.names[j]]
    OBVIOUS
  <2>1. \A j \in 1 .. N : cache[r.names[j]] \in ObjectsMade
    BY <1>3 DEF TypeInv
  <2>2. l = [j \in 1 .. N |-> cache[r.names[j]]]
    BY <1>2
  <2> QED BY <2>1, <2>2, OrderFacts
<1>5. l \in Seq(ObjectsMade)
  BY <1>4
<1>6. x \in {"done", "failed"} /\ (x = "done" <=> all)
  OBVIOUS
<1> HIDE DEF all, l, x, r
<1>7. q \in Builds /\ q.at = x /\ q.linked = l /\ q.names = r.names /\ q.parsed = r.parsed
      /\ q.setting = r.setting
  BY <1>1, <1>5, <1>6 DEF Builds
<1> HIDE DEF q
<1>8. Stage(q)
  BY <1>2, <1>4, <1>6, <1>7 DEF Stage, NamesInOrder
<1>9. /\ q.parsed = build[b].parsed /\ q.names = build[b].names /\ q.setting = build[b].setting
      /\ build[b].at = "link" /\ Len(q.names) = N /\ q.at \in {"done", "failed"}
  BY <1>1, <1>2, <1>6, <1>7 DEF r
<1>10. q.at = "done" => \A j \in 1 .. N : q.names[j] \in DOMAIN cache /\ q.linked[j] = cache[q.names[j]]
  BY <1>3, <1>4, <1>6, <1>7
<1> QED BY <1>1, <1>7, <1>8, <1>9, <1>10

LEMMA LinkType == ASSUME TypeInv, NEW b \in Builders, Link(b) PROVE TypeInv'
<1>1. PICK r \in Builds : Stage(r) /\ build' = [build EXCEPT ![b] = r]
                          /\ UNCHANGED <<disk, cache, tmp, edits, builds>>
  BY LinkBuild
<1> QED BY <1>1, BuildStep DEF TypeInv

LEMMA StepType == TypeInv /\ [Next]_vars => TypeInv'
<1> SUFFICES ASSUME TypeInv, [Next]_vars PROVE TypeInv'
  OBVIOUS
<1>1. CASE \E u \in Units, a \in Editable : Edit(u, a)
  BY <1>1, EditType
<1>2. CASE Delete
  BY <1>2, DeleteType
<1>3. ASSUME NEW b \in Builders,
             \/ Start(b) \/ Parse(b) \/ LookUp(b) \/ Write(b) \/ Fill(b) \/ Publish(b)
             \/ PublishFails(b) \/ Link(b) \/ Crash(b) \/ Exit(b)
      PROVE  TypeInv'
  BY <1>3, StartType, ParseType, LookUpType, WriteType, PublishType, FailType, LinkType
<1>4. CASE UNCHANGED vars
  BY <1>4 DEF vars, TypeInv
<1> QED BY <1>1, <1>2, <1>3, <1>4 DEF Next

LEMMA TypeInvariance == Spec => []TypeInv
  BY InitType, StepType, PTL DEF Spec

-----------------------------------------------------------------------------
(* Why the name of an object decides what is in it. *)

\* Constants, layouts and generic functions are as they were at first.
Plain(p) == \A u \in DOMAIN p, a \in {"const", "layout", "generic"} : p[u][a] = 0

\* The name of an object, taken while the file is as it was parsed, decides
\* everything the object is generated from.
LEMMA NameDecides ==
  ASSUME DigestCovers, NEW p \in Parses, NEW q \in Parses, Plain(p), Plain(q),
         NEW s \in Settings, NEW t \in Settings, NEW u \in Units, NEW v \in Units,
         NameOf(p[u], p, s, u) = NameOf(q[v], q, t, v)
  PROVE  ObjectOf(p, s, u) = ObjectOf(q, t, v)
<1>1. u = v /\ s = t /\ p[u] = q[v] /\ Part(p, Imports[u], {"sig"}) = Part(q, Imports[v], {"sig"})
      /\ Part(p, Units, {"ext"}) = Part(q, Units, {"ext"})
  BY DEF NameOf
<1>2. Refers[u] \subseteq Imports[u] /\ Imports[u] \subseteq Units
  BY ImportsAssumption DEF DigestCovers
<1>3. ASSUME NEW w \in Imports[u] PROVE p[w]["sig"] = q[w]["sig"]
  <2>1. Part(p, Imports[u], {"sig"})[w]["sig"] = Part(q, Imports[u], {"sig"})[w]["sig"]
    BY <1>1
  <2> QED BY <2>1, <1>3 DEF Part
<1>4. \A w \in Units, a \in {"const", "layout", "generic"} : p[w][a] = 0 /\ q[w][a] = 0
  BY DEF Plain, Parses
<1>5. Part(p, Refers[u], {"sig", "const", "layout"}) = Part(q, Refers[v], {"sig", "const", "layout"})
  <2>1. ASSUME NEW w \in Refers[u], NEW a \in {"sig", "const", "layout"} PROVE p[w][a] = q[w][a]
    BY <2>1, <1>2, <1>3, <1>4
  <2>2. \A w \in Refers[u] : [a \in {"sig", "const", "layout"} |-> p[w][a]] = [a \in {"sig", "const", "layout"} |-> q[w][a]]
    BY <2>1
  <2> QED BY <1>1, <2>2 DEF Part
<1>6. ASSUME NEW S \in SUBSET Units PROVE Part(p, S, {"generic"}) = Part(q, S, {"generic"})
  <2>1. \A w \in S : [a \in {"generic"} |-> p[w][a]] = [a \in {"generic"} |-> q[w][a]]
    BY <1>4
  <2> QED BY <2>1 DEF Part
<1> DEFINE S == IF u = Order[1] THEN Units ELSE {}
<1>7. Part(p, S, {"generic"}) = Part(q, S, {"generic"})
  BY <1>6
<1> QED BY <1>1, <1>5, <1>7 DEF ObjectOf, Inputs


-----------------------------------------------------------------------------
(* Every name tells the truth. *)

\* A parsed unit that is still to be named is as it was parsed.
Unchanged(r) ==
    r.at \in {"parse", "unit", "write", "publish"} =>
      \A j \in 1 .. N : j > Len(r.names) /\ Order[j] \in DOMAIN r.parsed =>
                          r.parsed[Order[j]] = disk[Order[j]]

Truthful(r) ==
    /\ Plain(r.parsed)
    /\ r.at \in {"unit", "write", "publish", "link", "done"} =>
         \A j \in 1 .. Len(r.names) :
            r.names[j] = NameOf(r.parsed[Order[j]], r.parsed, r.setting, Order[j])
    /\ r.at = "done" => \A j \in 1 .. N : r.linked[j] = ObjectOf(r.parsed, r.setting, Order[j])

CacheTruthful ==
    \A n \in DOMAIN cache, p \in Parses, s \in Settings, u \in Units :
       Plain(p) /\ n = NameOf(p[u], p, s, u) => cache[n] = ObjectOf(p, s, u)

FreshInv ==
    /\ Plain(disk) /\ CacheTruthful
    /\ \A b \in Builders : Unchanged(build[b]) /\ Truthful(build[b])

LEMMA InitFresh == Init => FreshInv
<1> SUFFICES ASSUME Init PROVE FreshInv
  OBVIOUS
<1>1. Plain(disk) /\ CacheTruthful
  BY DEF Init, Plain, Clean, Aspects, CacheTruthful
<1>2. ASSUME NEW b \in Builders PROVE Unchanged(build[b]) /\ Truthful(build[b])
  <2>1. build[b].at = "idle" /\ DOMAIN build[b].parsed = {}
    BY <1>2 DEF Init, Idle
  <2> QED BY <2>1 DEF Unchanged, Truthful, Plain
<1> QED BY <1>1, <1>2 DEF FreshInv

\* A step of one compile that neither edits a file nor publishes.
LEMMA FreshStep ==
  ASSUME TypeInv, FreshInv, NEW b \in Builders, NEW r, Unchanged(r), Truthful(r),
         build' = [build EXCEPT ![b] = r], disk' = disk, cache' = cache
  PROVE  FreshInv'
<1>1. \A c \in Builders : build'[c] = IF c = b THEN r ELSE build[c]
  BY DEF TypeInv
<1>2. \A c \in Builders : Unchanged(build[c])' /\ Truthful(build[c])'
  BY <1>1 DEF FreshInv, Unchanged, Truthful
<1> QED BY <1>2 DEF FreshInv, CacheTruthful

LEMMA EditFresh ==
  ASSUME DigestCovers, TypeInv, FreshInv, NEW u \in Units, NEW a \in Editable, Edit(u, a)
  PROVE  FreshInv'
<1>1. disk' = [disk EXCEPT ![u][a] = 1 - @] /\ UNCHANGED <<cache, build>>
      /\ \A b \in Builders : ~BetweenReads(b, u)
  BY DEF Edit, DigestCovers
<1>2. a \in {"body", "sig", "ext"} /\ disk \in Parses
  BY DEF DigestCovers, TypeInv
<1>3. \A v \in Units \ {u} : disk'[v] = disk[v]
  BY <1>1, <1>2 DEF Parses
<1>4. Plain(disk')
  <2>1. \A v \in Units, x \in {"const", "layout", "generic"} : disk'[v][x] = disk[v][x]
    BY <1>1, <1>2 DEF Parses, FileVersions
  <2>2. DOMAIN disk' = DOMAIN disk /\ DOMAIN disk = Units
    BY <1>1, <1>2 DEF Parses
  <2> QED BY <2>1, <2>2 DEF FreshInv, Plain
<1>5. ASSUME NEW b \in Builders PROVE Unchanged(build[b])'
  <2> DEFINE r == build[b]
  <2>1. SUFFICES ASSUME r.at \in {"parse", "unit", "write", "publish"},
                        NEW j \in 1 .. N, j > Len(r.names), Order[j] \in DOMAIN r.parsed
                 PROVE  r.parsed[Order[j]] = disk'[Order[j]]
    BY <1>1 DEF Unchanged
  <2>2. r \in Builds /\ Stage(r)
    BY DEF TypeInv
  <2>3. r.names \in Seq(NamesMade) /\ \A k \in 1 .. Len(r.names) : r.names[k].unit = Order[k]
        /\ Len(r.names) \in 0 .. N
    BY <2>2, OrderFacts DEF Builds, Stage, NamesInOrder
  <2>4. Order[j] \notin {n.unit : n \in Range(r.names)}
    <3>1. SUFFICES ASSUME NEW k \in DOMAIN r.names, Order[j] = r.names[k].unit PROVE FALSE
      BY DEF Range
    <3>2. k \in 1 .. Len(r.names) /\ k \in 1 .. N /\ k # j
      <4>1. DOMAIN r.names = 1 .. Len(r.names)
        BY <2>3
      <4> QED BY <2>1, <2>3, <3>1, <4>1, OrderFacts
    <3> QED BY <2>1, <2>3, <3>1, <3>2, OrderFacts
  <2>5. Order[j] # u
    BY <1>1, <2>1, <2>4 DEF BetweenReads
  <2>6. Order[j] \in Units /\ r.parsed[Order[j]] = disk[Order[j]]
    BY <2>1, OrderFacts DEF FreshInv, Unchanged
  <2> QED BY <1>3, <2>5, <2>6
<1>6. \A b \in Builders : Truthful(build[b])'
  BY <1>1 DEF FreshInv, Truthful
<1>7. CacheTruthful'
  BY <1>1 DEF FreshInv, CacheTruthful
<1> QED BY <1>4, <1>5, <1>6, <1>7 DEF FreshInv

LEMMA DeleteFresh == ASSUME TypeInv, FreshInv, Delete PROVE FreshInv'
<1>1. DOMAIN cache' \subseteq DOMAIN cache /\ \A n \in DOMAIN cache' : cache'[n] = cache[n]
  BY DEF Delete, Restrict
<1>2. UNCHANGED <<disk, build>>
  BY DEF Delete
<1>3. CacheTruthful'
  BY <1>1 DEF FreshInv, CacheTruthful
<1>4. \A b \in Builders : Unchanged(build[b])' /\ Truthful(build[b])'
  BY <1>2 DEF FreshInv, Unchanged, Truthful
<1> QED BY <1>2, <1>3, <1>4 DEF FreshInv

\* A compile that starts, is killed or is over holds nothing.
LEMMA EmptyFresh ==
  ASSUME TypeInv, FreshInv, NEW b \in Builders, Start(b) \/ Crash(b) \/ Exit(b)
  PROVE  FreshInv'
<1>1. PICK r : /\ build' = [build EXCEPT ![b] = r]
               /\ r.names = <<>> /\ DOMAIN r.parsed = {} /\ r.at \in {"idle", "parse", "failed"}
  <2>1. CASE Start(b)
    <3>1. PICK s \in Settings : build' = [build EXCEPT ![b] = [Idle EXCEPT !.at = "parse", !.setting = s]]
      BY <2>1 DEF Start
    <3> QED BY <3>1, IdleBuild
  <2>2. CASE Crash(b)
    BY <2>2, SettingsAssumption, IdleBuild DEF Crash
  <2>3. CASE Exit(b)
    BY <2>3, SettingsAssumption, IdleBuild DEF Exit
  <2> QED BY <2>1, <2>2, <2>3
<1>2. Unchanged(r) /\ Truthful(r)
  BY <1>1 DEF Unchanged, Truthful, Plain
<1> QED BY <1>1, <1>2, FreshStep DEF Start, Crash, Exit

LEMMA ParseFresh == ASSUME TypeInv, FreshInv, NEW b \in Builders, Parse(b) PROVE FreshInv'
<1> DEFINE r == build[b]
           u == Order[r.i]
           q == ParsedOne(r)
<1>1. q \in Builds /\ q.names = <<>> /\ r.names = <<>> /\ r.i \in 1 .. N
      /\ DOMAIN q.parsed = DOMAIN r.parsed \cup {u} /\ r \in Builds /\ r.at = "parse"
  BY ParseBuild DEF TypeInv, Parse
<1>2. \A v \in DOMAIN q.parsed : q.parsed[v] = IF v = u THEN disk[u] ELSE r.parsed[v]
  BY <1>1 DEF ParsedOne, Builds
<1>3. q.at \in {"parse", "unit"}
  BY <1>1 DEF ParsedOne, Builds
<1>4. u \in Units /\ DOMAIN disk = Units
  BY <1>1, OrderFacts DEF TypeInv, Parses
<1>5. Plain(q.parsed)
  BY <1>1, <1>2, <1>4 DEF FreshInv, Truthful, Plain
<1> HIDE DEF q, u
<1>6. Unchanged(q)
  <2>1. SUFFICES ASSUME NEW j \in 1 .. N, Order[j] \in DOMAIN q.parsed
                 PROVE  q.parsed[Order[j]] = disk[Order[j]]
    BY DEF Unchanged
  <2>2. CASE Order[j] = u
    BY <1>2, <2>1, <2>2
  <2>3. CASE Order[j] # u
    <3>1. Order[j] \in DOMAIN r.parsed /\ q.parsed[Order[j]] = r.parsed[Order[j]]
      BY <1>1, <1>2, <2>1, <2>3
    <3>2. r.parsed[Order[j]] = disk[Order[j]]
      BY <1>1, <3>1 DEF FreshInv, Unchanged
    <3> QED BY <3>1, <3>2
  <2> QED BY <2>2, <2>3
<1>7. Truthful(q)
  BY <1>1, <1>3, <1>5 DEF Truthful
<1>8. build' = [build EXCEPT ![b] = q] /\ disk' = disk /\ cache' = cache
  BY ParseBuild DEF Parse, q
<1> QED BY <1>6, <1>7, <1>8, FreshStep

\* A lookup reads the file while it is as it was parsed, so the name is true.
LEMMA LookUpFresh == ASSUME TypeInv, FreshInv, NEW b \in Builders, LookUp(b) PROVE FreshInv'
<1> DEFINE r == build[b]
           q == NamedOne(b)
           w == [q EXCEPT !.at = "write"]
<1>1. r.at = "unit" /\ q \in Builds /\ q.parsed = r.parsed /\ q.setting = r.setting /\ q.i = r.i
      /\ q.names = Append(r.names, NewName(b)) /\ Len(q.names) = r.i /\ NamesInOrder(q)
      /\ NewName(b) = NameOf(disk[Order[r.i]], r.parsed, r.setting, Order[r.i])
  BY LookUpBuild, BusyFacts DEF NewName
<1>2. r.names \in Seq(NamesMade) /\ Len(r.names) = r.i - 1 /\ r.i \in 1 .. N /\ r.parsed \in Parses
  BY <1>1, BusyFacts
<1>3. Order[r.i] \in DOMAIN r.parsed /\ r.parsed[Order[r.i]] = disk[Order[r.i]]
  <2>1. Order[r.i] \in Units /\ DOMAIN r.parsed = Units /\ r.i > Len(r.names)
    BY <1>2, OrderFacts DEF Parses
  <2> QED BY <1>1, <1>2, <2>1 DEF FreshInv, Unchanged
<1>4. ASSUME NEW j \in 1 .. r.i
      PROVE  q.names[j] = NameOf(r.parsed[Order[j]], r.parsed, r.setting, Order[j])
  <2>1. CASE j = r.i
    BY <1>1, <1>2, <1>3, <2>1
  <2>2. CASE j < r.i
    <3>1. j \in 1 .. Len(r.names) /\ q.names[j] = r.names[j]
      BY <1>1, <1>2, <2>2
    <3> QED BY <1>1, <3>1 DEF FreshInv, Truthful
  <2> QED BY <1>2, <2>1, <2>2
<1>5. ASSUME NEW x, x.at \in {"unit", "link", "write"}, x.parsed = r.parsed, x.names = q.names,
             x.setting = r.setting
      PROVE  Unchanged(x) /\ Truthful(x)
  <2>1. Truthful(x)
    BY <1>1, <1>4, <1>5 DEF FreshInv, Truthful
  <2>2. Unchanged(x)
    <3>1. \A j \in 1 .. N : j > Len(q.names) => j > Len(r.names)
      BY <1>1, <1>2
    <3> QED BY <1>1, <1>5, <3>1 DEF FreshInv, Unchanged
  <2> QED BY <2>1, <2>2
<1>6. /\ Settled(q).parsed = q.parsed /\ Settled(q).names = q.names
      /\ Settled(q).setting = q.setting /\ Settled(q).at \in {"unit", "link"}
  BY <1>1, <1>2, SettledBuild
<1>7. w.at = "write" /\ w.parsed = q.parsed /\ w.names = q.names /\ w.setting = q.setting
  BY <1>1 DEF Builds
<1>8. PICK x : /\ x.at \in {"unit", "link", "write"} /\ x.parsed = r.parsed /\ x.names = q.names
               /\ x.setting = r.setting /\ build' = [build EXCEPT ![b] = x]
  <2>1. build' = [build EXCEPT ![b] = IF NewName(b) \in DOMAIN cache THEN Settled(q) ELSE w]
    BY LookUpBuild
  <2> HIDE DEF q, w, r
  <2>2. CASE NewName(b) \in DOMAIN cache
    BY <1>1, <1>6, <2>1, <2>2
  <2>3. CASE NewName(b) \notin DOMAIN cache
    BY <1>1, <1>7, <2>1, <2>3
  <2> QED BY <2>2, <2>3
<1>9. Unchanged(x) /\ Truthful(x)
  BY <1>5, <1>8
<1>10. disk' = disk /\ cache' = cache
  BY LookUpBuild
<1> QED BY <1>8, <1>9, <1>10, FreshStep

\* A step that keeps what the compile has parsed and named.
LEMMA SameFresh ==
  ASSUME TypeInv, FreshInv, NEW b \in Builders, NEW x,
         build[b].at \in {"write", "publish"}, x.at \in {"unit", "link", "publish", "failed"},
         x.parsed = build[b].parsed, x.names = build[b].names, x.setting = build[b].setting
  PROVE  Unchanged(x) /\ Truthful(x)
  BY DEF FreshInv, Unchanged, Truthful

LEMMA WriteFresh ==
  ASSUME TypeInv, FreshInv, NEW b \in Builders, Write(b) \/ Fill(b) \/ PublishFails(b)
  PROVE  FreshInv'
<1>1. CASE Write(b) \/ PublishFails(b)
  <2>1. PICK y \in {"publish", "failed"} : build' = [build EXCEPT ![b] = [build[b] EXCEPT !.at = y]]
    BY <1>1 DEF Write, PublishFails
  <2>2. build[b].at \in {"write", "publish"} /\ UNCHANGED <<disk, cache>>
    BY <1>1 DEF Write, PublishFails
  <2> DEFINE x == [build[b] EXCEPT !.at = y]
  <2>3. x.at = y /\ x.parsed = build[b].parsed /\ x.names = build[b].names /\ x.setting = build[b].setting
    BY <2>2, BusyFacts DEF Builds
  <2>4. build' = [build EXCEPT ![b] = x]
    BY <2>1
  <2> HIDE DEF x
  <2>5. x.at \in {"unit", "link", "publish", "failed"}
    BY <2>3
  <2>6. Unchanged(x) /\ Truthful(x)
    BY <2>2, <2>3, <2>5, SameFresh
  <2> QED BY <2>2, <2>4, <2>6, FreshStep
<1>2. CASE Fill(b)
  <2>1. UNCHANGED <<disk, cache, build>>
    BY <1>2 DEF Fill
  <2> QED BY <2>1 DEF FreshInv, CacheTruthful, Unchanged, Truthful
<1> QED BY <1>1, <1>2

\* What is published under a name is what that name stands for; so is what
\* another compile published under it before.
LEMMA PublishFresh ==
  ASSUME DigestCovers, TypeInv, FreshInv, NEW b \in Builders, Publish(b)
  PROVE  /\ FreshInv'
         /\ \A n \in DOMAIN cache \cap DOMAIN cache' : cache'[n] = cache[n]
<1> DEFINE r == build[b]
           u == Order[r.i]
           n == r.names[r.i]
<1>1. /\ DOMAIN cache' = DOMAIN cache \cup {n} /\ \A k \in DOMAIN cache \ {n} : cache'[k] = cache[k]
      /\ cache'[n] = ObjectOf(r.parsed, r.setting, u)
      /\ build' = [build EXCEPT ![b] = Settled(r)]
      /\ r.at = "publish" /\ UNCHANGED <<disk, edits, builds>>
  BY PublishStores
<1>2. r \in Builds /\ r.i \in 1 .. N /\ r.parsed \in Parses /\ r.setting \in Settings
      /\ Len(r.names) = r.i /\ NamesInOrder(r) /\ u \in Units
  BY <1>1, BusyFacts
<1>3. Plain(r.parsed) /\ n = NameOf(r.parsed[u], r.parsed, r.setting, u)
  BY <1>1, <1>2 DEF FreshInv, Truthful
<1> HIDE DEF n, u
<1>4. CacheTruthful'
  <2> SUFFICES ASSUME NEW k \in DOMAIN cache', NEW p \in Parses, NEW s \in Settings, NEW v \in Units,
                      Plain(p), k = NameOf(p[v], p, s, v)
               PROVE  cache'[k] = ObjectOf(p, s, v)
    BY DEF CacheTruthful
  <2>1. CASE k = n
    <3>1. NameOf(r.parsed[u], r.parsed, r.setting, u) = NameOf(p[v], p, s, v)
      BY <1>3, <2>1
    <3>2. ObjectOf(r.parsed, r.setting, u) = ObjectOf(p, s, v)
      <4> HIDE DEF r
      <4> QED BY <1>2, <1>3, <3>1, NameDecides
    <3> QED BY <1>1, <2>1, <3>2
  <2>2. CASE k # n
    BY <1>1, <2>2 DEF FreshInv, CacheTruthful
  <2> QED BY <2>1, <2>2
<1>5. Unchanged(Settled(r)) /\ Truthful(Settled(r))
  <2>1. /\ Settled(r).parsed = r.parsed /\ Settled(r).names = r.names
        /\ Settled(r).setting = r.setting /\ Settled(r).at \in {"unit", "link"}
    BY <1>2, SettledBuild
  <2> QED BY <1>1, <2>1, SameFresh
<1>6. ASSUME NEW c \in Builders PROVE Unchanged(build[c])' /\ Truthful(build[c])'
  <2>1. build'[c] = IF c = b THEN Settled(r) ELSE build[c]
    BY <1>1 DEF TypeInv
  <2> QED BY <1>1, <1>5, <2>1 DEF FreshInv, Unchanged, Truthful
<1>7. FreshInv'
  BY <1>1, <1>4, <1>6 DEF FreshInv
<1>8. n \in DOMAIN cache => cache'[n] = cache[n]
  BY <1>1, <1>2, <1>3 DEF FreshInv, CacheTruthful
<1> QED BY <1>1, <1>7, <1>8

\* What is linked was found under true names.
LEMMA LinkFresh == ASSUME TypeInv, FreshInv, NEW b \in Builders, Link(b) PROVE FreshInv'
<1> DEFINE r == build[b]
<1>1. PICK x \in Builds :
         /\ Stage(x) /\ build' = [build EXCEPT ![b] = x] /\ UNCHANGED <<disk, cache, tmp, edits, builds>>
         /\ x.at \in {"done", "failed"} /\ x.parsed = r.parsed
         /\ x.names = r.names /\ x.setting = r.setting /\ r.at = "link" /\ Len(x.names) = N
         /\ x.at = "done" => \A j \in 1 .. N : /\ x.names[j] \in DOMAIN cache
                                               /\ x.linked[j] = cache[x.names[j]]
  BY LinkBuild
<1>2. \A j \in 1 .. N : x.names[j] = NameOf(x.parsed[Order[j]], x.parsed, x.setting, Order[j])
  BY <1>1 DEF FreshInv, Truthful
<1>3. Plain(x.parsed) /\ x.setting \in Settings
  BY <1>1 DEF FreshInv, Truthful, Builds
<1>4. ASSUME x.at = "done", NEW j \in 1 .. N
      PROVE  x.linked[j] = ObjectOf(x.parsed, x.setting, Order[j])
  <2>1. x.parsed \in Parses /\ Order[j] \in Units
    BY <1>1, <1>4, OrderFacts DEF Stage
  <2> QED BY <1>1, <1>2, <1>3, <1>4, <2>1 DEF FreshInv, CacheTruthful
<1>5. Unchanged(x) /\ Truthful(x)
  BY <1>1, <1>2, <1>3, <1>4 DEF Unchanged, Truthful
<1> QED BY <1>1, <1>5, FreshStep

\* One step: the invariant stays, and no published object is replaced by another.
LEMMA StepFresh ==
  ASSUME DigestCovers
  PROVE  TypeInv /\ FreshInv /\ [Next]_vars =>
           FreshInv' /\ \A n \in DOMAIN cache \cap DOMAIN cache' : cache'[n] = cache[n]
<1> SUFFICES ASSUME TypeInv, FreshInv, [Next]_vars
             PROVE  FreshInv' /\ \A n \in DOMAIN cache \cap DOMAIN cache' : cache'[n] = cache[n]
  OBVIOUS
<1>1. CASE \E u \in Units, a \in Editable : Edit(u, a)
  BY <1>1, EditFresh DEF Edit
<1>2. CASE Delete
  BY <1>2, DeleteFresh DEF Delete, Restrict
<1>3. ASSUME NEW b \in Builders, Start(b) \/ Parse(b) \/ LookUp(b) \/ Link(b) \/ Crash(b) \/ Exit(b)
      PROVE  FreshInv' /\ cache' = cache
  <2>1. FreshInv'
    BY <1>3, EmptyFresh, ParseFresh, LookUpFresh, LinkFresh
  <2> QED BY <1>3, <2>1 DEF Start, Parse, LookUp, Link, Crash, Exit
<1>4. ASSUME NEW b \in Builders, Write(b) \/ Fill(b) \/ PublishFails(b)
      PROVE  FreshInv' /\ cache' = cache
  BY <1>4, WriteFresh DEF Write, Fill, PublishFails
<1>5. ASSUME NEW b \in Builders, Publish(b)
      PROVE  FreshInv' /\ \A n \in DOMAIN cache \cap DOMAIN cache' : cache'[n] = cache[n]
  BY <1>5, PublishFresh
<1>6. CASE UNCHANGED vars
  <2>1. UNCHANGED <<disk, cache, build>>
    BY <1>6 DEF vars
  <2> QED BY <2>1 DEF FreshInv, CacheTruthful, Unchanged, Truthful
<1> QED BY <1>1, <1>2, <1>3, <1>4, <1>5, <1>6 DEF Next

-----------------------------------------------------------------------------
(* The theorems. *)

\* Every variable keeps its type, whatever is edited, deleted or killed.
THEOREM TypeCorrect == Spec => []TypeOK
<1>1. TypeInv => TypeOK
  <2> SUFFICES ASSUME TypeInv PROVE TypeOK
    OBVIOUS
  <2>1. \A n \in DOMAIN cache : n.unit \in Units
    <3>1. ASSUME NEW n \in NamesMade PROVE n.unit \in Units
      <4>1. PICK d \in FileVersions, p \in Parses, s \in Settings, u \in Units : n = NameOf(d, p, s, u)
        BY DEF NamesMade
      <4> QED BY <4>1 DEF NameOf
    <3> QED BY <3>1 DEF TypeInv
  <2>2. \A n \in DOMAIN cache : cache[n].inputs.setting \in Settings
    BY DEF TypeInv, ObjectsMade, ObjectOf, Inputs
  <2>3. ASSUME NEW b \in Builders
        PROVE  /\ build[b].at \in {"idle", "parse", "unit", "write", "publish", "link", "done", "failed"}
               /\ DOMAIN build[b].parsed \subseteq Units
               /\ Len(build[b].names) <= Len(Order)
    <3>1. build[b] \in Builds /\ Stage(build[b])
      BY DEF TypeInv
    <3>2. build[b].parsed \in Partial
      BY <3>1 DEF Builds
    <3>3. DOMAIN build[b].parsed \subseteq Units
      BY <3>2 DEF Partial
    <3> QED BY <3>1, <3>3 DEF Builds, Stage, NamesInOrder, N
  <2> QED BY <2>1, <2>2, <2>3 DEF TypeInv, TypeOK, Parses, FileVersions
<1> QED BY <1>1, TypeInvariance, PTL

\* Whatever is edited when, however many compilers write one directory and
\* wherever they are killed: a compile that ends links one whole object per unit.
THEOREM NothingTruncated == Spec => []LinksWhole
<1>1. TypeInv => LinksWhole
  <2> SUFFICES ASSUME TypeInv, NEW b \in Builders, build[b].at = "done"
               PROVE  /\ Len(build[b].linked) = Len(Order)
                      /\ \A i \in DOMAIN build[b].linked : build[b].linked[i].whole
    BY DEF LinksWhole
  <2>1. Len(build[b].linked) = N /\ build[b].linked \in Seq(ObjectsMade)
    BY DEF TypeInv, Stage, Builds
  <2>2. \A o \in ObjectsMade : o.whole
    BY DEF ObjectsMade, ObjectOf
  <2> QED BY <2>1, <2>2 DEF N
<1> QED BY <1>1, TypeInvariance, PTL

\* With edits the digest covers, each of those objects is what this compile
\* would have generated from what it read: reuse is the same as generation.
THEOREM ReuseIsGeneration ==
  ASSUME DigestCovers
  PROVE  Spec => []LinksCurrent
<1>1. TypeInv /\ FreshInv /\ [Next]_vars => FreshInv'
  BY StepFresh
<1>2. TypeInv /\ FreshInv => LinksFresh
  <2> SUFFICES ASSUME TypeInv, FreshInv, NEW b \in Builders, build[b].at = "done",
                      NEW i \in DOMAIN build[b].linked
               PROVE  build[b].linked[i].inputs = Inputs(build[b].parsed, build[b].setting, Order[i])
    BY DEF LinksFresh
  <2>1. Len(build[b].linked) = N /\ build[b].linked \in Seq(ObjectsMade)
    BY DEF TypeInv, Stage, Builds
  <2>2. i \in 1 .. N
    BY <2>1
  <2>3. build[b].linked[i] = ObjectOf(build[b].parsed, build[b].setting, Order[i])
    BY <2>2 DEF FreshInv, Truthful
  <2> QED BY <2>3 DEF ObjectOf
<1>3. Spec => []FreshInv
  BY <1>1, InitFresh, TypeInvariance, PTL DEF Spec
<1> QED BY <1>2, <1>3, TypeInvariance, NothingTruncated, PTL DEF LinksCurrent

\* When the digest covers what can be edited, no object is ever replaced by a
\* different one of its name, so of two compilers that publish at once it does not
\* matter which comes last.  Without DigestCovers it does: a constant's value, a
\* layout or an edit between parse and digest gives two objects of one name.
THEOREM LastOneNeverMatters ==
  ASSUME DigestCovers
  PROVE  Spec => SameNameSameObject
<1>1. TypeInv /\ FreshInv /\ [Next]_vars =>
        FreshInv' /\ [\A n \in DOMAIN cache \cap DOMAIN cache' : cache'[n] = cache[n]]_vars
  BY StepFresh
<1> QED BY <1>1, InitFresh, TypeInvariance, PTL DEF Spec, SameNameSameObject

-----------------------------------------------------------------------------
(***************************************************************************)
(* The package manager.                                                    *)
(***************************************************************************)

-----------------------------------------------------------------------------
(* How far each command is. *)

\* Installing into the store: the version's directory is absent after it was
\* cleared, then it holds what was written of the source and nothing else.
StoreSoFar ==
  LET dir == fs[Store(<<cmd.pkg, cmd.ver>>)]
  IN  /\ pc = <<"store", "cache">> => dir = NoDir
      /\ pc = <<"store", "write">> =>
            IF todo = Files(cmd) THEN dir = NoDir ELSE dir = [f \in Files(cmd) \ todo |-> cmd]
      /\ pc \in {<<"store", "project">>, <<"store", "manifest">>} => dir = Image(cmd)
      /\ pc = <<"store", "manifest">> => link[cmd.pkg] = cmd.ver

\* Installing globally: the directory of the package, or the one beside it that
\* takes its place, may hold more, but also all that was written of the source.
Holds(dir, s, S) == dir # NoDir /\ \A f \in S : f \in DOMAIN dir /\ dir[f] = s

GlobalSoFar ==
  /\ pc = <<"global", "write">> /\ todo # Files(cmd) => Holds(fs[Target], cmd, Files(cmd) \ todo)
  /\ pc = <<"global", "link">> =>
        /\ Holds(fs[Bento(cmd.pkg)], cmd, Files(cmd))
        /\ \A e \in cmd.exes \ todo : bin[e] = cmd.pkg

\* Restoring: what was visited is linked, until a version is missing.
RestoreSoFar ==
  pc = <<"restore", "each">> =>
     \A n \in Names \ todo : deps[n] # None => link[n] = deps[n] /\ Present(Store(<<n, deps[n]>>))

\* Removing: the directory is there until it is empty.
RemoveSoFar == pc = <<"uninstall", "unlink">> => Present(Bento(cmd.pkg))

\* The store: a version is recorded only after it was installed, an install that
\* touches a directory says so until it ends, and every other directory is whole.
StoreInstalls == {<<"store", "cache">>, <<"store", "write">>}

StoreWhole ==
  /\ \A nv \in NameVersions \ unfinished : Present(Store(nv)) => WholeInStore(nv)
  /\ pc \in StoreInstalls => <<cmd.pkg, cmd.ver>> \in unfinished
  /\ \A n \in Names : deps[n] # None => <<n, deps[n]>> \in NameVersions

\* A command that is under way has not ended.
NotDone == pc[1] # "idle" => done = <<"none", None>>

IndInv ==
  /\ PackTypeOK
  /\ StoreSoFar /\ GlobalSoFar /\ RestoreSoFar /\ RemoveSoFar
  /\ StoreWhole /\ NotDone /\ InstalledWhole /\ RestoreAgrees

-----------------------------------------------------------------------------
(* Places and directories. *)

LEMMA Places ==
  ASSUME NEW s \in Sources
  PROVE  /\ s.pkg \in Names /\ s.ver \in Versions /\ s.exes \subseteq Exes
         /\ Bento(s.pkg) \in Paths /\ Staged(s) \in Paths /\ Store(<<s.pkg, s.ver>>) \in Paths
         /\ Staged(s) # Bento(s.pkg)
         /\ Files(s) \subseteq {Manifest} \cup Exes /\ Manifest \in Files(s)
<1>1. s.pkg \in Names /\ s.ver \in Versions /\ s.exes \subseteq Exes
  BY DEF Names, Versions, Exes
<1>2. <<s.pkg, s.ver>> \in NameVersions
  BY DEF NameVersions
<1>3. Bento(s.pkg) \in Paths /\ Staged(s) \in Paths /\ Store(<<s.pkg, s.ver>>) \in Paths
  BY <1>1, <1>2 DEF Paths, Staged
<1>4. Staged(s) # Bento(s.pkg)
  BY DEF Staged, Bento
<1>5. Files(s) \subseteq {Manifest} \cup Exes /\ Manifest \in Files(s)
  BY <1>1 DEF Files
<1> QED BY <1>1, <1>3, <1>4, <1>5

LEMMA BentoPlaces ==
  ASSUME NEW n \in Names
  PROVE  Bento(n) \in Paths /\ \A m \in Names : m # n => Bento(m) # Bento(n)
  BY DEF Paths, Bento

\* A directory is a function, and stays one when a file comes or goes.
LEMMA TreeFacts ==
  ASSUME NEW d \in Trees
  PROVE  /\ DOMAIN d \subseteq {Manifest} \cup Exes
         /\ d = [g \in DOMAIN d |-> d[g]] /\ \A g \in DOMAIN d : d[g] \in Sources
  BY DEF Trees

LEMMA TreeMade ==
  ASSUME NEW S \in SUBSET ({Manifest} \cup Exes), NEW d \in [S -> Sources]
  PROVE  d \in Trees
  BY DEF Trees

\* The directory d with one more file written from s, or one file less.
With(d, f, s) == [g \in {f} \cup (IF d = NoDir THEN {} ELSE DOMAIN d) |-> IF g = f THEN s ELSE d[g]]
Without(d, f) == [g \in DOMAIN d \ {f} |-> d[g]]

LEMMA WithTree ==
  ASSUME NamesAssumption, NEW d \in Trees \cup {NoDir}, NEW s \in Sources, NEW f \in Files(s)
  PROVE  With(d, f, s) \in Trees /\ With(d, f, s) # NoDir
<1> DEFINE S == {f} \cup (IF d = NoDir THEN {} ELSE DOMAIN d)
<1>1. S \subseteq {Manifest} \cup Exes
  BY Places, TreeFacts
<1>2. With(d, f, s) \in [S -> Sources]
  BY TreeFacts DEF With
<1> HIDE DEF S
<1>3. With(d, f, s) \in Trees
  BY <1>1, <1>2, TreeMade
<1> QED BY <1>3 DEF NamesAssumption

LEMMA WithoutTree ==
  ASSUME NamesAssumption, NEW d \in Trees, NEW f
  PROVE  Without(d, f) \in Trees /\ Without(d, f) # NoDir
<1> DEFINE S == DOMAIN d \ {f}
<1>1. S \subseteq {Manifest} \cup Exes /\ Without(d, f) \in [S -> Sources]
  BY TreeFacts DEF Without
<1> HIDE DEF S
<1>2. Without(d, f) \in Trees
  BY <1>1, TreeMade
<1> QED BY <1>2 DEF NamesAssumption

-----------------------------------------------------------------------------
(* The steps. *)

LEMMA SamePlace ==
  ASSUME NEW nv, fs'[Store(nv)] = fs[Store(nv)]
  PROVE  (Present(Store(nv)) => WholeInStore(nv))' <=> (Present(Store(nv)) => WholeInStore(nv))
  BY DEF Present, WholeInStore, Image, Files, Store

\* What leaves the store and nori.toml alone, and touches no version anew.
LEMMA StoreKept ==
  ASSUME IndInv, UNCHANGED <<deps, unfinished>>,
         \A nv \in NameVersions : fs'[Store(nv)] = fs[Store(nv)],
         pc' \in StoreInstalls => pc \in StoreInstalls /\ cmd' = cmd
  PROVE  StoreWhole'
<1>1. ASSUME NEW nv \in NameVersions, nv \notin unfinished'
      PROVE  (Present(Store(nv)) => WholeInStore(nv))'
  <2>1. Present(Store(nv)) => WholeInStore(nv)
    BY <1>1 DEF IndInv, StoreWhole
  <2> QED BY <2>1, SamePlace
<1>2. pc' \in StoreInstalls => <<cmd'.pkg, cmd'.ver>> \in unfinished'
  BY DEF IndInv, StoreWhole, StoreInstalls
<1>3. \A n \in Names : deps'[n] # None => <<n, deps'[n]>> \in NameVersions
  BY DEF IndInv, StoreWhole
<1> QED BY <1>1, <1>2, <1>3 DEF StoreWhole

\* The store is none of the other places.
LEMMA StorePlaces ==
  /\ \A nv, mv : Store(nv) = Store(mv) => nv = mv
  /\ \A nv, n : Store(nv) # Bento(n)
  /\ \A nv, s : Store(nv) # Staged(s)
  BY DEF Store, Bento, Staged

LEMMA InitInd == NamesAssumption /\ PackInit => IndInv
<1> SUFFICES ASSUME NamesAssumption, PackInit PROVE IndInv
  OBVIOUS
<1>1. pc = <<"idle", "idle">> /\ done = <<"none", None>> /\ crashes = 0 /\ archives = {}
  BY DEF PackInit
<1>2. PackTypeOK
  BY <1>1 DEF PackInit, PackTypeOK
<1>3. StoreSoFar /\ GlobalSoFar /\ RestoreSoFar /\ RemoveSoFar /\ NotDone
  BY <1>1 DEF StoreSoFar, GlobalSoFar, RestoreSoFar, RemoveSoFar, NotDone
<1>4. InstalledWhole /\ RestoreAgrees
  BY <1>1 DEF InstalledWhole, RestoreAgrees
<1>5. StoreWhole
  <2>1. \A nv \in NameVersions : Store(nv) \in Paths /\ fs[Store(nv)] = NoDir
    BY DEF PackInit, Paths
  <2>2. \A n \in Names : deps[n] = None
    BY DEF PackInit
  <2> QED BY <1>1, <2>1, <2>2 DEF StoreWhole, Present, StoreInstalls
<1> QED BY <1>2, <1>3, <1>4, <1>5 DEF IndInv

\* A command that begins touches nothing.
LEMMA BeginInd ==
  ASSUME IndInv, \/ \E s \in Sources : Install("global", s) \/ Install("store", s)
                 \/ \E n \in Names : Uninstall(n)
                 \/ Restore
  PROVE  IndInv'
<1>1. done' = <<"none", None>> /\ UNCHANGED <<fs, bin, archives, link, deps, unfinished, crashes>>
  BY DEF Install, Uninstall, Restore, Begin
<1>2. InstalledWhole' /\ RestoreAgrees' /\ NotDone'
  BY <1>1 DEF InstalledWhole, RestoreAgrees, NotDone
<1>6. pc' \notin StoreInstalls => StoreWhole'
  BY <1>1, StoreKept
<1>3. CASE \E s \in Sources : Install("global", s) \/ Install("store", s)
  <2>1. PICK s \in Sources, m \in {"global", "store"} : pc' = <<m, "clear">> /\ cmd' = s /\ todo' = {}
    BY <1>3 DEF Install, Begin
  <2>2. PackTypeOK'
    BY <1>1, <2>1 DEF IndInv, PackTypeOK
  <2>3. StoreSoFar' /\ GlobalSoFar' /\ RestoreSoFar' /\ RemoveSoFar'
    BY <2>1 DEF StoreSoFar, GlobalSoFar, RestoreSoFar, RemoveSoFar
  <2>4. StoreWhole'
    BY <1>6, <2>1 DEF StoreInstalls
  <2> QED BY <1>2, <2>2, <2>3, <2>4 DEF IndInv
<1>4. ASSUME NEW n \in Names, Uninstall(n) PROVE IndInv'
  <2>1. pc' = <<"uninstall", "unlink">> /\ cmd' = ByName(n) /\ todo' = ExesIn(Bento(n)) /\ Present(Bento(n))
    BY <1>4 DEF Uninstall, Begin
  <2>2. fs[Bento(n)] \in Trees
    BY <2>1, BentoPlaces DEF IndInv, PackTypeOK, Present
  <2>3. todo' \subseteq Exes
    BY <2>1, <2>2, TreeFacts DEF ExesIn
  <2>4. PackTypeOK'
    BY <1>1, <2>1, <2>3 DEF IndInv, PackTypeOK
  <2>5. StoreSoFar' /\ GlobalSoFar' /\ RestoreSoFar'
    BY <2>1 DEF StoreSoFar, GlobalSoFar, RestoreSoFar
  <2>6. RemoveSoFar'
    BY <1>1, <2>1 DEF RemoveSoFar, Present, ByName
  <2>7. StoreWhole'
    BY <1>6, <2>1 DEF StoreInstalls
  <2> QED BY <1>2, <2>4, <2>5, <2>6, <2>7 DEF IndInv
<1>5. CASE Restore
  <2>1. pc' = <<"restore", "each">> /\ todo' = {n \in Names : deps[n] # None}
    BY <1>5 DEF Restore, Begin
  <2>2. PackTypeOK'
    BY <1>1, <2>1 DEF IndInv, PackTypeOK
  <2>3. StoreSoFar' /\ GlobalSoFar' /\ RemoveSoFar'
    BY <2>1 DEF StoreSoFar, GlobalSoFar, RemoveSoFar
  <2>4. RestoreSoFar'
    BY <1>1, <2>1 DEF RestoreSoFar
  <2>5. StoreWhole'
    BY <1>6, <2>1 DEF StoreInstalls
  <2> QED BY <1>2, <2>2, <2>3, <2>4, <2>5 DEF IndInv
<1> QED BY <1>3, <1>4, <1>5

\* While a command is under way nothing has ended.
LEMMA Underway ==
  ASSUME IndInv, pc[1] # "idle", done' = done
  PROVE  InstalledWhole' /\ RestoreAgrees' /\ NotDone'
  BY DEF IndInv, NotDone, InstalledWhole, RestoreAgrees

\* Which command has these calls, and on what.
LEMMA Installing ==
  ASSUME IndInv, pc[2] \in {"clear", "cache", "write"}
  PROVE  /\ cmd \in Sources /\ pc[1] \in {"global", "store"} /\ pc = <<pc[1], pc[2]>>
         /\ Dest \in Paths /\ Target \in Paths
         /\ pc[1] = "store" => Dest = Store(<<cmd.pkg, cmd.ver>>) /\ Target = Dest
         /\ pc[1] = "global" => Dest = Bento(cmd.pkg)
<1>1. cmd \in Sources /\ pc[1] \in {"global", "store"} /\ pc = <<pc[1], pc[2]>>
  BY DEF IndInv, PackTypeOK
<1> QED BY <1>1, Places DEF Dest, Target

LEMMA ClearInd == ASSUME NamesAssumption, IndInv, Clear PROVE IndInv'
<1>1. pc[2] = "clear" /\ UNCHANGED <<bin, archives, link, deps, todo>>
  BY DEF Clear
<1>2. /\ cmd \in Sources /\ pc[1] \in {"global", "store"} /\ pc = <<pc[1], "clear">> /\ Dest \in Paths
      /\ pc[1] = "store" => Dest = Store(<<cmd.pkg, cmd.ver>>)
      /\ pc[1] = "global" => Dest = Bento(cmd.pkg)
  BY <1>1, Installing
<1> DEFINE nv == <<cmd.pkg, cmd.ver>>
<1>5. nv \in NameVersions
  BY <1>2 DEF NameVersions
<1>6. /\ pc[1] = "store" => unfinished' = unfinished \cup {nv}
      /\ pc[1] = "global" => unfinished' = unfinished
  BY <1>2 DEF Clear
<1>7. unfinished' \subseteq NameVersions
  BY <1>2, <1>5, <1>6 DEF IndInv, PackTypeOK
<1>8. ASSUME \A mv \in NameVersions : fs'[Store(mv)] = fs[Store(mv)] \/ Dest = Store(mv),
             pc' \in StoreInstalls => pc[1] = "store" /\ cmd' = cmd
      PROVE  StoreWhole'
  <2>1. ASSUME NEW mv \in NameVersions, mv \notin unfinished'
        PROVE  fs'[Store(mv)] = fs[Store(mv)] /\ mv \notin unfinished
    BY <1>2, <1>6, <1>8, <2>1, StorePlaces
  <2>2. ASSUME NEW mv \in NameVersions, mv \notin unfinished'
        PROVE  (Present(Store(mv)) => WholeInStore(mv))'
    <3>1. Present(Store(mv)) => WholeInStore(mv)
      BY <2>1, <2>2 DEF IndInv, StoreWhole
    <3> QED BY <2>1, <2>2, <3>1, SamePlace
  <2>3. \A n \in Names : deps'[n] # None => <<n, deps'[n]>> \in NameVersions
    BY <1>1 DEF IndInv, StoreWhole
  <2> QED BY <1>6, <1>8, <2>2, <2>3 DEF StoreWhole
<1>3. CASE Present(Dest) /\ UNCHANGED <<pc, cmd, done, crashes>>
  <2>1. PICK d \in Trees \cup {NoDir} : fs' = [fs EXCEPT ![Dest] = d]
    <3>1. fs[Dest] \in Trees
      BY <1>2, <1>3 DEF IndInv, PackTypeOK, Present
    <3>2. CASE \E f \in DOMAIN fs[Dest] : fs' = [fs EXCEPT ![Dest] = Without(fs[Dest], f)]
      BY <3>1, <3>2, WithoutTree
    <3>3. CASE fs' = [fs EXCEPT ![Dest] = NoDir]
      BY <3>3
    <3>4. \/ \E f \in DOMAIN fs[Dest] : fs' = [fs EXCEPT ![Dest] = Without(fs[Dest], f)]
          \/ fs' = [fs EXCEPT ![Dest] = NoDir]
          \/ ~Present(Dest)
      BY DEF Clear, Without
    <3> QED BY <1>3, <3>2, <3>3, <3>4
  <2>2. PackTypeOK'
    BY <1>1, <1>2, <1>3, <1>7, <2>1 DEF IndInv, PackTypeOK
  <2>4. fs \in [Paths -> Trees \cup {NoDir}] /\ \A mv \in NameVersions : Store(mv) \in Paths
    BY DEF IndInv, PackTypeOK, Paths
  <2>5. StoreWhole'
    BY <1>2, <1>3, <1>8, <2>1, <2>4 DEF StoreInstalls
  <2>3. StoreSoFar' /\ GlobalSoFar' /\ RestoreSoFar' /\ RemoveSoFar'
    BY <1>2, <1>3 DEF StoreSoFar, GlobalSoFar, RestoreSoFar, RemoveSoFar
  <2> QED BY <1>2, <1>3, <2>2, <2>3, <2>5, Underway DEF IndInv
<1>4. CASE ~Present(Dest) /\ Continue("cache") /\ UNCHANGED fs
  <2>1. pc' = <<pc[1], "cache">> /\ UNCHANGED <<cmd, done, crashes, fs>>
    BY <1>4 DEF Continue
  <2>2. PackTypeOK'
    BY <1>1, <1>2, <1>7, <2>1 DEF IndInv, PackTypeOK
  <2>5. StoreWhole'
    BY <1>2, <1>8, <2>1 DEF StoreInstalls
  <2>3. StoreSoFar'
    BY <1>2, <1>4, <2>1 DEF StoreSoFar, Dest, Present
  <2>4. GlobalSoFar' /\ RestoreSoFar' /\ RemoveSoFar'
    BY <1>2, <2>1 DEF GlobalSoFar, RestoreSoFar, RemoveSoFar
  <2>6. InstalledWhole' /\ RestoreAgrees' /\ NotDone'
    BY <1>2, <2>1, Underway
  <2> QED BY <2>2, <2>3, <2>4, <2>5, <2>6 DEF IndInv
<1> QED BY <1>3, <1>4 DEF Clear

LEMMA CacheArchiveInd == ASSUME IndInv, CacheArchive PROVE IndInv'
<1>1. pc[2] = "cache" /\ todo' = Files(cmd) /\ pc' = <<pc[1], "write">>
      /\ UNCHANGED <<fs, bin, link, deps, cmd, done, unfinished, crashes>>
  BY DEF CacheArchive, Continue
<1>2. cmd \in Sources /\ pc[1] \in {"global", "store"} /\ pc = <<pc[1], "cache">>
  BY <1>1, Installing
<1>3. archives' \subseteq Sources
  BY <1>2 DEF CacheArchive, IndInv, PackTypeOK
<1>4. PackTypeOK'
  BY <1>1, <1>2, <1>3 DEF IndInv, PackTypeOK, Files
<1>5. StoreSoFar'
  BY <1>1, <1>2 DEF IndInv, StoreSoFar, Files
<1>6. GlobalSoFar' /\ RestoreSoFar' /\ RemoveSoFar'
  BY <1>1, <1>2 DEF GlobalSoFar, RestoreSoFar, RemoveSoFar, Files
<1>7. StoreWhole'
  BY <1>1, <1>2, StoreKept DEF StoreInstalls
<1> QED BY <1>1, <1>2, <1>4, <1>5, <1>6, <1>7, Underway DEF IndInv

LEMMA WriteFileInd == ASSUME NamesAssumption, IndInv, WriteFile PROVE IndInv'
<1>1. pc[2] = "write" /\ UNCHANGED <<bin, archives, link, deps, pc, cmd, done, unfinished, crashes>>
  BY DEF WriteFile
<1>2. /\ cmd \in Sources /\ pc[1] \in {"global", "store"} /\ pc = <<pc[1], "write">> /\ Target \in Paths
      /\ pc[1] = "store" => Target = Store(<<cmd.pkg, cmd.ver>>)
      /\ pc[1] = "global" => Target = Staged(cmd) \/ Target = Bento(cmd.pkg)
  BY <1>1, Installing DEF Target
<1>3. PICK f \in todo : fs' = [fs EXCEPT ![Target] = With(fs[Target], f, cmd)] /\ todo' = todo \ {f}
  BY DEF WriteFile, With
<1>4. todo \subseteq Files(cmd) /\ fs \in [Paths -> Trees \cup {NoDir}]
  BY <1>1 DEF IndInv, PackTypeOK
<1> DEFINE d == With(fs[Target], f, cmd)
<1>5. d \in Trees /\ d # NoDir /\ fs'[Target] = d
  BY <1>2, <1>3, <1>4, WithTree
<1>6. PackTypeOK'
  BY <1>1, <1>2, <1>3, <1>4, <1>5 DEF IndInv, PackTypeOK, Files
<1>7. StoreSoFar'
  <2>1. ASSUME pc[1] = "store" PROVE d = [g \in Files(cmd) \ todo' |-> cmd]
    <3>1. CASE todo = Files(cmd)
      BY <1>2, <1>3, <1>4, <2>1, <3>1 DEF IndInv, StoreSoFar, With
    <3>2. CASE todo # Files(cmd)
      <4>1. fs[Target] = [g \in Files(cmd) \ todo |-> cmd]
        BY <1>2, <2>1, <3>2 DEF IndInv, StoreSoFar
      <4>2. fs[Target] # NoDir
        <5>1. fs[Target] \in [Files(cmd) \ todo -> Sources]
          BY <1>2, <4>1
        <5>2. fs[Target] \in Trees
          BY <1>2, <5>1, Places, TreeMade
        <5> QED BY <5>2 DEF NamesAssumption
      <4> QED BY <1>3, <1>4, <4>1, <4>2 DEF With
    <3> QED BY <3>1, <3>2
  <2>2. todo' # Files(cmd)
    BY <1>3, <1>4
  <2> QED BY <1>1, <1>2, <1>5, <2>1, <2>2 DEF StoreSoFar, Files
<1>8. GlobalSoFar'
  <2>1. \A g \in Files(cmd) \ todo' : g \in DOMAIN d /\ d[g] = cmd
    <3>1. SUFFICES ASSUME NEW g \in Files(cmd) \ todo', g # f PROVE g \in DOMAIN d /\ d[g] = cmd
      BY DEF With
    <3>2. g \in Files(cmd) \ todo
      BY <1>3, <3>1
    <3>3. fs[Target] # NoDir /\ g \in DOMAIN fs[Target] /\ fs[Target][g] = cmd
      <4>1. CASE pc[1] = "global"
        BY <1>2, <3>2, <4>1 DEF IndInv, GlobalSoFar, Holds
      <4>2. CASE pc[1] = "store"
        <5>1. fs[Target] = [x \in Files(cmd) \ todo |-> cmd]
          BY <1>2, <3>2, <4>2 DEF IndInv, StoreSoFar
        <5>2. fs[Target] \in [Files(cmd) \ todo -> Sources]
          BY <1>2, <5>1
        <5>3. fs[Target] \in Trees
          BY <1>2, <5>2, Places, TreeMade
        <5> QED BY <3>2, <5>1, <5>3 DEF NamesAssumption
      <4> QED BY <1>2, <4>1, <4>2
    <3> QED BY <3>1, <3>3 DEF With
  <2>2. Target' = Target
    BY <1>1 DEF Target, Dest
  <2> QED BY <1>1, <1>2, <1>5, <2>1, <2>2 DEF GlobalSoFar, Holds, Files
<1>9. RestoreSoFar' /\ RemoveSoFar'
  BY <1>1, <1>2 DEF RestoreSoFar, RemoveSoFar
<1>10. StoreWhole'
  <2>1. ASSUME NEW mv \in NameVersions, mv \notin unfinished
        PROVE  fs'[Store(mv)] = fs[Store(mv)]
    <3>1. Target # Store(mv)
      BY <1>2, <2>1, StorePlaces DEF IndInv, StoreWhole, StoreInstalls
    <3>2. Store(mv) \in Paths
      BY DEF Paths
    <3> QED BY <1>2, <1>3, <1>4, <3>1, <3>2
  <2>2. ASSUME NEW mv \in NameVersions, mv \notin unfinished'
        PROVE  (Present(Store(mv)) => WholeInStore(mv))'
    <3>1. Present(Store(mv)) => WholeInStore(mv)
      BY <1>1, <2>2 DEF IndInv, StoreWhole
    <3> QED BY <1>1, <2>1, <2>2, <3>1, SamePlace
  <2> QED BY <1>1, <2>2 DEF IndInv, StoreWhole
<1> QED BY <1>1, <1>2, <1>6, <1>7, <1>8, <1>9, <1>10, Underway DEF IndInv

LEMMA MoveIntoPlaceInd == ASSUME NamesAssumption, IndInv, MoveIntoPlace PROVE IndInv'
<1>1. pc[2] = "write" /\ todo = {} /\ UNCHANGED <<bin, archives, link, deps, cmd, done, crashes>>
      /\ unfinished' = (IF pc[1] = "store" THEN unfinished \ {<<cmd.pkg, cmd.ver>>} ELSE unfinished)
      /\ fs' = IF Target = Dest THEN fs ELSE [fs EXCEPT ![Dest] = fs[Target], ![Target] = NoDir]
  BY DEF MoveIntoPlace, Continue
<1>2. /\ cmd \in Sources /\ pc[1] \in {"global", "store"} /\ pc = <<pc[1], "write">>
      /\ Dest \in Paths /\ Target \in Paths
      /\ pc[1] = "store" => Dest = Store(<<cmd.pkg, cmd.ver>>) /\ Target = Dest
      /\ pc[1] = "global" => Dest = Bento(cmd.pkg) /\ (Target = Staged(cmd) \/ Target = Bento(cmd.pkg))
  BY <1>1, Installing DEF Target
<1>3. fs \in [Paths -> Trees \cup {NoDir}] /\ Files(cmd) # {}
  BY <1>2, Places DEF IndInv, PackTypeOK
<1>4. fs' \in [Paths -> Trees \cup {NoDir}] /\ fs'[Dest] = fs[Target]
  BY <1>1, <1>2, <1>3
<1>5. CASE pc[1] = "global"
  <2>1. pc' = <<"global", "link">> /\ todo' = DOMAIN fs[Target] \ {Manifest}
    BY <1>5 DEF MoveIntoPlace, Continue
  <2>2. Holds(fs[Target], cmd, Files(cmd))
    BY <1>1, <1>2, <1>3, <1>5 DEF IndInv, GlobalSoFar
  <2>3. fs[Target] \in Trees
    BY <1>2, <1>3, <2>2 DEF Holds
  <2>4. todo' \subseteq Exes
    BY <2>1, <2>3, TreeFacts
  <2>5. PackTypeOK'
    BY <1>1, <1>2, <1>4, <2>1, <2>4 DEF IndInv, PackTypeOK
  <2>6. cmd.exes \ todo' = {}
    <3>1. cmd.exes \subseteq DOMAIN fs[Target] /\ Manifest \notin cmd.exes
      BY <1>2, <2>2, Places DEF Holds, Files, NamesAssumption
    <3> QED BY <2>1, <3>1
  <2>7. Holds(fs[Bento(cmd.pkg)], cmd, Files(cmd))'
    BY <1>1, <1>2, <1>4, <1>5, <2>2 DEF Holds, Files, Bento
  <2>8. GlobalSoFar'
    BY <1>1, <2>1, <2>6, <2>7 DEF GlobalSoFar
  <2>9. StoreSoFar' /\ RestoreSoFar' /\ RemoveSoFar'
    BY <2>1 DEF StoreSoFar, RestoreSoFar, RemoveSoFar
  <2>10. StoreWhole'
    <3>1. \A mv \in NameVersions : Store(mv) \in Paths /\ Store(mv) # Target /\ Store(mv) # Dest
      BY <1>2, <1>5, StorePlaces DEF Paths
    <3>2. \A mv \in NameVersions : fs'[Store(mv)] = fs[Store(mv)]
      BY <1>1, <1>2, <1>3, <3>1
    <3> QED BY <1>1, <1>5, <2>1, <3>2, StoreKept DEF StoreInstalls
  <2> QED BY <1>1, <1>5, <2>5, <2>8, <2>9, <2>10, Underway DEF IndInv
<1>6. CASE pc[1] = "store"
  <2>1. pc' = <<"store", "project">> /\ todo' = todo
    BY <1>6 DEF MoveIntoPlace, Continue
  <2>2. PackTypeOK'
    BY <1>1, <1>2, <1>4, <2>1 DEF IndInv, PackTypeOK
  <2>3. fs[Target] = Image(cmd)
    BY <1>1, <1>2, <1>3, <1>6 DEF IndInv, StoreSoFar, Image
  <2>4. StoreSoFar'
    BY <1>1, <1>2, <1>4, <1>6, <2>1, <2>3 DEF StoreSoFar, Image, Files, Store
  <2>5. GlobalSoFar' /\ RestoreSoFar' /\ RemoveSoFar'
    BY <2>1 DEF GlobalSoFar, RestoreSoFar, RemoveSoFar
  <2>6. StoreWhole'
    <3>1. fs' = fs
      BY <1>1, <1>2, <1>6
    <3>2. WholeInStore(<<cmd.pkg, cmd.ver>>)
      BY <1>2, <1>6, <2>3 DEF WholeInStore
    <3>3. ASSUME NEW mv \in NameVersions, mv \notin unfinished'
          PROVE  (Present(Store(mv)) => WholeInStore(mv))'
      <4>1. Present(Store(mv)) => WholeInStore(mv)
        BY <1>1, <1>6, <3>2, <3>3 DEF IndInv, StoreWhole
      <4> QED BY <3>1, <4>1, SamePlace
    <3> QED BY <1>1, <2>1, <3>3 DEF IndInv, StoreWhole, StoreInstalls
  <2> QED BY <1>1, <1>6, <2>2, <2>4, <2>5, <2>6, Underway DEF IndInv
<1> QED BY <1>2, <1>5, <1>6

LEMMA LinkExecutableInd == ASSUME IndInv, LinkExecutable PROVE IndInv'
<1>1. pc[2] = "link" /\ UNCHANGED <<fs, archives, link, deps, pc, cmd, done, unfinished, crashes>>
  BY DEF LinkExecutable
<1>2. pc = <<"global", "link">> /\ cmd \in Sources /\ todo \subseteq Exes /\ cmd.pkg \in Names
      /\ bin \in [Exes -> Names \cup {None}]
  <2>1. pc = <<"global", "link">> /\ cmd \in Sources
    BY <1>1 DEF IndInv, PackTypeOK
  <2> QED BY <2>1, Places DEF IndInv, PackTypeOK
<1>3. PICK e \in todo : \/ bin' = [bin EXCEPT ![e] = None] /\ todo' = todo
                        \/ bin' = [bin EXCEPT ![e] = cmd.pkg] /\ todo' = todo \ {e}
  BY DEF LinkExecutable
<1>4. PackTypeOK'
  BY <1>1, <1>2, <1>3 DEF IndInv, PackTypeOK
<1>5. \A x \in cmd.exes \ todo' : bin'[x] = cmd.pkg
  <2>1. \A x \in cmd.exes \ todo : bin[x] = cmd.pkg
    BY <1>2 DEF IndInv, GlobalSoFar
  <2>2. cmd.exes \subseteq Exes
    BY <1>2, Places
  <2>3. ASSUME NEW x \in cmd.exes \ todo' PROVE bin'[x] = cmd.pkg
    BY <1>2, <1>3, <2>1, <2>2, <2>3
  <2> QED BY <2>3
<1>6. GlobalSoFar'
  BY <1>1, <1>2, <1>5 DEF IndInv, GlobalSoFar, Holds, Files
<1>7. StoreSoFar' /\ RestoreSoFar' /\ RemoveSoFar'
  BY <1>1, <1>2 DEF StoreSoFar, RestoreSoFar, RemoveSoFar
<1>8. StoreWhole'
  BY <1>1, <1>2, StoreKept DEF StoreInstalls
<1> QED BY <1>1, <1>2, <1>4, <1>6, <1>7, <1>8, Underway DEF IndInv

\* A command that has ended: nothing is under way.
LEMMA IdleInd ==
  ASSUME IndInv, pc' = <<"idle", "idle">>, UNCHANGED <<fs, bin, link, unfinished, crashes>>,
         archives' \subseteq Sources, deps' \in [Names -> Versions \cup {None}],
         \A n \in Names : deps'[n] # None => <<n, deps'[n]>> \in NameVersions
  PROVE  PackTypeOK' /\ StoreSoFar' /\ GlobalSoFar' /\ RestoreSoFar' /\ RemoveSoFar'
         /\ StoreWhole' /\ NotDone'
<1>1. PackTypeOK'
  BY DEF IndInv, PackTypeOK
<1>2. StoreSoFar' /\ GlobalSoFar' /\ RestoreSoFar' /\ RemoveSoFar' /\ NotDone'
  BY DEF StoreSoFar, GlobalSoFar, RestoreSoFar, RemoveSoFar, NotDone
<1>3. StoreWhole'
  BY DEF IndInv, StoreWhole, StoreInstalls, Present, WholeInStore, Image, Files, Store
<1> QED BY <1>1, <1>2, <1>3

LEMMA InstalledInd == ASSUME IndInv, Installed PROVE IndInv'
<1>1. pc[2] = "link" /\ todo = {} /\ pc' = <<"idle", "idle">> /\ done' = <<"global", cmd>>
      /\ UNCHANGED <<fs, bin, archives, link, deps, unfinished, crashes>>
  BY DEF Installed, End, onDisk
<1>2. pc = <<"global", "link">>
  BY <1>1 DEF IndInv, PackTypeOK
<1>3. Holds(fs[Bento(cmd.pkg)], cmd, Files(cmd)) /\ \A e \in cmd.exes : bin[e] = cmd.pkg
  BY <1>1, <1>2 DEF IndInv, GlobalSoFar
<1>4. InstalledWhole' /\ RestoreAgrees'
  BY <1>1, <1>3 DEF InstalledWhole, RestoreAgrees, Holds
<1>5. archives' \subseteq Sources /\ deps' \in [Names -> Versions \cup {None}]
      /\ (\A n \in Names : deps'[n] # None => <<n, deps'[n]>> \in NameVersions)
      /\ UNCHANGED <<fs, bin, link, unfinished, crashes>>
  BY <1>1 DEF IndInv, PackTypeOK, StoreWhole
<1> QED BY <1>1, <1>4, <1>5, IdleInd DEF IndInv

LEMMA LinkToProjectInd == ASSUME IndInv, LinkToProject PROVE IndInv'
<1>1. pc[2] = "project" /\ UNCHANGED <<fs, bin, archives, deps, todo, cmd, done, unfinished, crashes>>
  BY DEF LinkToProject, Continue
<1>2. pc = <<"store", "project">> /\ cmd \in Sources /\ cmd.pkg \in Names /\ cmd.ver \in Versions
      /\ link \in [Names -> Versions \cup {None}]
  <2>1. pc = <<"store", "project">> /\ cmd \in Sources
    BY <1>1 DEF IndInv, PackTypeOK
  <2> QED BY <2>1, Places DEF IndInv, PackTypeOK
<1>3. \/ pc' = pc /\ link' = [link EXCEPT ![cmd.pkg] = None]
      \/ pc' = <<"store", "manifest">> /\ link' = [link EXCEPT ![cmd.pkg] = cmd.ver]
  BY <1>2 DEF LinkToProject, Continue
<1>4. PackTypeOK'
  BY <1>1, <1>2, <1>3 DEF IndInv, PackTypeOK
<1>5. StoreSoFar'
  BY <1>1, <1>2, <1>3 DEF IndInv, StoreSoFar, Image, Files
<1>6. GlobalSoFar' /\ RestoreSoFar' /\ RemoveSoFar'
  BY <1>2, <1>3 DEF GlobalSoFar, RestoreSoFar, RemoveSoFar
<1>10. StoreWhole'
  BY <1>1, <1>2, <1>3, StoreKept DEF StoreInstalls
<1> QED BY <1>1, <1>2, <1>4, <1>5, <1>6, <1>10, Underway DEF IndInv

LEMMA RecordDependencyInd == ASSUME IndInv, RecordDependency PROVE IndInv'
<1>1. pc[2] = "manifest" /\ pc' = <<"idle", "idle">> /\ done' = <<"store", cmd>>
      /\ deps' = [deps EXCEPT ![cmd.pkg] = cmd.ver] /\ UNCHANGED <<fs, bin, archives, link, unfinished, crashes>>
  BY DEF RecordDependency, End
<1>2. pc = <<"store", "manifest">> /\ cmd \in Sources /\ cmd.pkg \in Names /\ cmd.ver \in Versions
      /\ deps \in [Names -> Versions \cup {None}]
  <2>1. pc = <<"store", "manifest">> /\ cmd \in Sources
    BY <1>1 DEF IndInv, PackTypeOK
  <2> QED BY <2>1, Places DEF IndInv, PackTypeOK
<1>3. fs[Store(<<cmd.pkg, cmd.ver>>)] = Image(cmd) /\ link[cmd.pkg] = cmd.ver
  BY <1>2 DEF IndInv, StoreSoFar
<1>4. InstalledWhole' /\ RestoreAgrees'
  BY <1>1, <1>2, <1>3 DEF InstalledWhole, RestoreAgrees
<1>5. archives' \subseteq Sources /\ deps' \in [Names -> Versions \cup {None}]
      /\ (\A n \in Names : deps'[n] # None => <<n, deps'[n]>> \in NameVersions)
      /\ UNCHANGED <<fs, bin, link, unfinished, crashes>>
  BY <1>1, <1>2 DEF IndInv, PackTypeOK, StoreWhole, NameVersions
<1> QED BY <1>1, <1>4, <1>5, IdleInd DEF IndInv

LEMMA RestoreOneInd == ASSUME IndInv, RestoreOne PROVE IndInv'
<1>1. pc[2] = "each" /\ UNCHANGED <<fs, bin, archives, deps, cmd, done, unfinished, crashes>>
  BY DEF RestoreOne
<1>2. pc \in {<<"restore", "each">>, <<"missing", "each">>} /\ todo \subseteq {n \in Names : deps[n] # None}
      /\ link \in [Names -> Versions \cup {None}] /\ deps \in [Names -> Versions \cup {None}]
  BY <1>1 DEF IndInv, PackTypeOK
<1>3. PICK n \in todo :
        \/ link' = [link EXCEPT ![n] = None] /\ todo' = todo /\ pc' = pc
        \/ /\ todo' = todo \ {n} /\ Present(Store(<<n, deps[n]>>))
           /\ link' = [link EXCEPT ![n] = deps[n]] /\ pc' = pc
        \/ todo' = todo \ {n} /\ pc' = <<"missing", "each">> /\ link' = link
  BY DEF RestoreOne
<1>4. PackTypeOK'
  BY <1>1, <1>2, <1>3 DEF IndInv, PackTypeOK
<1>5. RestoreSoFar'
  <2>1. SUFFICES ASSUME pc' = <<"restore", "each">>, NEW m \in Names \ todo', deps[m] # None
                 PROVE  link'[m] = deps[m] /\ Present(Store(<<m, deps[m]>>))
    BY <1>1 DEF RestoreSoFar, Present, Store
  <2>2. pc = <<"restore", "each">>
    BY <1>2, <1>3, <2>1
  <2>3. CASE m = n
    BY <1>2, <1>3, <2>1, <2>3
  <2>4. CASE m # n
    <3>1. m \notin todo /\ link'[m] = link[m]
      BY <1>2, <1>3, <2>1, <2>4
    <3> QED BY <2>1, <2>2, <3>1 DEF IndInv, RestoreSoFar
  <2> QED BY <2>3, <2>4
<1>6. StoreSoFar' /\ GlobalSoFar' /\ RemoveSoFar'
  BY <1>2, <1>3 DEF StoreSoFar, GlobalSoFar, RemoveSoFar
<1>10. StoreWhole'
  BY <1>1, <1>2, <1>3, StoreKept DEF StoreInstalls
<1> QED BY <1>1, <1>2, <1>4, <1>5, <1>6, <1>10, Underway DEF IndInv

LEMMA RestoredInd == ASSUME IndInv, Restored PROVE IndInv'
<1>1. pc[2] = "each" /\ todo = {} /\ pc' = <<"idle", "idle">> /\ done' = <<pc[1], cmd>>
      /\ UNCHANGED <<fs, bin, archives, link, deps, unfinished, crashes>>
  BY DEF Restored, End, onDisk
<1>2. pc \in {<<"restore", "each">>, <<"missing", "each">>}
  BY <1>1 DEF IndInv, PackTypeOK
<1>3. InstalledWhole'
  BY <1>1, <1>2 DEF InstalledWhole
<1>4. RestoreAgrees'
  <2>1. ASSUME pc = <<"restore", "each">>, NEW n \in Names, deps[n] # None
        PROVE  /\ link[n] = deps[n] /\ Present(Store(<<n, deps[n]>>))
               /\ <<n, deps[n]>> \notin unfinished => WholeInStore(<<n, deps[n]>>)
    <3>1. link[n] = deps[n] /\ Present(Store(<<n, deps[n]>>))
      BY <1>1, <2>1 DEF IndInv, RestoreSoFar
    <3> QED BY <2>1, <3>1 DEF IndInv, StoreWhole
  <2>2. pc = <<"restore", "each">> => RestoreAgrees'
    <3>1. ASSUME pc = <<"restore", "each">>, NEW n \in Names, deps'[n] # None
          PROVE  /\ link'[n] = deps'[n] /\ fs'[Store(<<n, deps'[n]>>)] # NoDir
                 /\ <<n, deps'[n]>> \notin unfinished' =>
                       \E s \in Sources : <<s.pkg, s.ver>> = <<n, deps'[n]>> /\ fs'[Store(<<n, deps'[n]>>)] = Image(s)
      BY <1>1, <2>1, <3>1 DEF Present, WholeInStore
    <3> QED BY <3>1 DEF RestoreAgrees, WholeInStore, Present, Image, Files, Store
  <2> QED BY <1>1, <1>2, <2>2 DEF RestoreAgrees
<1>5. archives' \subseteq Sources /\ deps' \in [Names -> Versions \cup {None}]
      /\ (\A n \in Names : deps'[n] # None => <<n, deps'[n]>> \in NameVersions)
      /\ UNCHANGED <<fs, bin, link, unfinished, crashes>>
  BY <1>1 DEF IndInv, PackTypeOK, StoreWhole
<1> QED BY <1>1, <1>3, <1>4, <1>5, IdleInd DEF IndInv

LEMMA UnlinkInd == ASSUME IndInv, NEW n \in Names, Unlink(n) PROVE IndInv'
<1>1. pc' = <<"unlink", "forget">> /\ cmd' = ByName(n) /\ done' = <<"none", None>>
      /\ link' = [link EXCEPT ![n] = None] /\ UNCHANGED <<fs, bin, archives, deps, unfinished, crashes>>
  BY DEF Unlink
<1>2. PackTypeOK'
  BY <1>1 DEF IndInv, PackTypeOK
<1>3. StoreSoFar' /\ GlobalSoFar' /\ RestoreSoFar' /\ RemoveSoFar'
  BY <1>1 DEF StoreSoFar, GlobalSoFar, RestoreSoFar, RemoveSoFar
<1>4. NotDone' /\ InstalledWhole' /\ RestoreAgrees'
  BY <1>1 DEF NotDone, InstalledWhole, RestoreAgrees
<1>5. StoreWhole'
  BY <1>1, StoreKept DEF StoreInstalls
<1> QED BY <1>2, <1>3, <1>4, <1>5 DEF IndInv

LEMMA ForgetInd == ASSUME IndInv, ForgetDependency PROVE IndInv'
<1>1. pc[2] = "forget" /\ pc' = <<"idle", "idle">> /\ done' = <<"unlink", cmd>>
      /\ deps' = [deps EXCEPT ![cmd.pkg] = None] /\ UNCHANGED <<fs, bin, archives, link, unfinished, crashes>>
  BY DEF ForgetDependency, End
<1>2. InstalledWhole' /\ RestoreAgrees'
  BY <1>1 DEF InstalledWhole, RestoreAgrees
<1>3. archives' \subseteq Sources /\ deps' \in [Names -> Versions \cup {None}]
      /\ (\A n \in Names : deps'[n] # None => <<n, deps'[n]>> \in NameVersions)
      /\ UNCHANGED <<fs, bin, link, unfinished, crashes>>
  BY <1>1 DEF IndInv, PackTypeOK, StoreWhole
<1> QED BY <1>1, <1>2, <1>3, IdleInd DEF IndInv

\* What nori remove --global works on.
LEMMA Removing ==
  ASSUME IndInv, pc[2] \in {"unlink", "uncache"}
  PROVE  /\ pc \in {<<"uninstall", "unlink">>, <<"uninstall", "uncache">>}
         /\ cmd.pkg \in Names /\ Dest = Bento(cmd.pkg) /\ todo \subseteq Exes
<1>1. pc \in {<<"uninstall", "unlink">>, <<"uninstall", "uncache">>}
  BY DEF IndInv, PackTypeOK
<1>2. cmd \in {ByName(n) : n \in Names} /\ todo \subseteq Exes
  BY <1>1 DEF IndInv, PackTypeOK
<1> QED BY <1>1, <1>2 DEF ByName, Dest

LEMMA UnlinkExecutableInd == ASSUME IndInv, UnlinkExecutable PROVE IndInv' /\ RemovalIsLocal
<1>1. pc[2] = "unlink" /\ UNCHANGED <<fs, archives, link, deps, pc, cmd, done, unfinished, crashes>>
  BY DEF UnlinkExecutable
<1>2. pc = <<"uninstall", "unlink">> /\ todo \subseteq Exes
  BY <1>1, Removing
<1>3. PICK e \in todo : /\ bin' = IF bin[e] = cmd.pkg THEN [bin EXCEPT ![e] = None] ELSE bin
                        /\ todo' = todo \ {e}
  BY DEF UnlinkExecutable
<1>4. bin \in [Exes -> Names \cup {None}]
  BY DEF IndInv, PackTypeOK
<1>5. bin' \in [Exes -> Names \cup {None}] /\ \A x \in Exes : bin[x] # cmd.pkg => bin'[x] = bin[x]
  BY <1>2, <1>3, <1>4
<1>6. PackTypeOK'
  BY <1>1, <1>2, <1>3, <1>5 DEF IndInv, PackTypeOK
<1>7. StoreSoFar' /\ GlobalSoFar' /\ RestoreSoFar' /\ RemoveSoFar'
  BY <1>1, <1>2 DEF IndInv, StoreSoFar, GlobalSoFar, RestoreSoFar, RemoveSoFar, Present, Bento
<1>8. RemovalIsLocal
  BY <1>1, <1>5 DEF RemovalIsLocal
<1>10. StoreWhole'
  BY <1>1, <1>2, StoreKept DEF StoreInstalls
<1> QED BY <1>1, <1>2, <1>6, <1>7, <1>8, <1>10, Underway DEF IndInv

LEMMA RemovePackageInd ==
  ASSUME NamesAssumption, IndInv, RemovePackage
  PROVE  IndInv' /\ RemovalIsLocal
<1>1. pc[2] = "unlink" /\ UNCHANGED <<bin, archives, link, deps, todo, cmd, done, unfinished, crashes>>
  BY DEF RemovePackage, Continue
<1>2. pc = <<"uninstall", "unlink">> /\ Dest = Bento(cmd.pkg) /\ cmd.pkg \in Names /\ Dest \in Paths
      /\ todo \subseteq Exes
  BY <1>1, Removing, BentoPlaces
<1>3. fs[Dest] \in Trees /\ fs \in [Paths -> Trees \cup {NoDir}]
  BY <1>2 DEF IndInv, PackTypeOK, RemoveSoFar, Present
<1>4. PICK d : /\ fs' = [fs EXCEPT ![Dest] = d] /\ d \in Trees \cup {NoDir}
               /\ \/ d # NoDir /\ pc' = pc
                  \/ pc' = <<"uninstall", "uncache">>
  <2>1. CASE \E f \in DOMAIN fs[Dest] : fs' = [fs EXCEPT ![Dest] = Without(fs[Dest], f)] /\ pc' = pc
    BY <1>3, <2>1, WithoutTree
  <2>2. CASE fs' = [fs EXCEPT ![Dest] = NoDir] /\ Continue("uncache")
    BY <1>2, <2>2 DEF Continue
  <2> QED BY <2>1, <2>2 DEF RemovePackage, Without
<1>5. fs' \in [Paths -> Trees \cup {NoDir}] /\ fs'[Dest] = d
      /\ \A p \in Paths \ {Dest} : fs'[p] = fs[p]
  BY <1>2, <1>3, <1>4
<1>6. PackTypeOK'
  BY <1>1, <1>2, <1>4, <1>5 DEF IndInv, PackTypeOK
<1>7. StoreSoFar' /\ GlobalSoFar' /\ RestoreSoFar'
  BY <1>2, <1>4 DEF StoreSoFar, GlobalSoFar, RestoreSoFar
<1>8. RemoveSoFar'
  BY <1>1, <1>2, <1>4, <1>5 DEF RemoveSoFar, Present, Bento
<1>9. RemovalIsLocal
  <2>1. ASSUME NEW n \in Names \ {cmd.pkg} PROVE fs'[Bento(n)] = fs[Bento(n)]
    BY <1>2, <1>5, BentoPlaces
  <2> QED BY <1>1, <2>1 DEF RemovalIsLocal
<1>10. StoreWhole'
  BY <1>1, <1>2, <1>4, <1>5, StorePlaces, StoreKept DEF StoreInstalls, Paths
<1> QED BY <1>1, <1>2, <1>6, <1>7, <1>8, <1>9, <1>10, Underway DEF IndInv

LEMMA UncacheInd == ASSUME IndInv, Uncache PROVE IndInv' /\ RemovalIsLocal
<1>1. pc[2] = "uncache" /\ pc' = <<"idle", "idle">> /\ done' = <<"uninstall", cmd>>
      /\ UNCHANGED <<fs, bin, link, deps, unfinished, crashes>>
  BY DEF Uncache, End
<1>2. archives' \subseteq Sources
  BY DEF Uncache, IndInv, PackTypeOK
<1>3. InstalledWhole' /\ RestoreAgrees'
  BY <1>1 DEF InstalledWhole, RestoreAgrees
<1>4. deps' \in [Names -> Versions \cup {None}] /\ UNCHANGED <<fs, bin, link, unfinished, crashes>>
      /\ (\A n \in Names : deps'[n] # None => <<n, deps'[n]>> \in NameVersions)
  BY <1>1 DEF IndInv, PackTypeOK, StoreWhole
<1>5. RemovalIsLocal
  BY <1>1 DEF RemovalIsLocal
<1> QED BY <1>1, <1>2, <1>3, <1>4, <1>5, IdleInd DEF IndInv

LEMMA AbortInd == ASSUME IndInv, Abort PROVE IndInv' /\ RemovalIsLocal
<1>1. pc' = <<"idle", "idle">> /\ done' = <<"none", None>> /\ crashes' = crashes + 1
      /\ UNCHANGED <<fs, bin, archives, link, deps, unfinished>>
  BY DEF Abort, onDisk
<1>2. PackTypeOK'
  BY <1>1 DEF IndInv, PackTypeOK
<1>3. StoreSoFar' /\ GlobalSoFar' /\ RestoreSoFar' /\ RemoveSoFar'
  BY <1>1 DEF StoreSoFar, GlobalSoFar, RestoreSoFar, RemoveSoFar
<1>4. NotDone' /\ InstalledWhole' /\ RestoreAgrees'
  BY <1>1 DEF NotDone, InstalledWhole, RestoreAgrees
<1>5. RemovalIsLocal
  BY <1>1 DEF RemovalIsLocal
<1>6. StoreWhole'
  BY <1>1, StoreKept DEF StoreInstalls
<1> QED BY <1>2, <1>3, <1>4, <1>5, <1>6 DEF IndInv

\* Every other call is one of another command.
LEMMA NotRemoving ==
  ASSUME IndInv,
         \/ pc[1] = "idle"
         \/ pc[2] \in {"clear", "cache", "write", "link", "project", "manifest", "each", "forget"}
  PROVE  RemovalIsLocal
<1>1. pc[1] # "uninstall"
  BY DEF IndInv, PackTypeOK
<1> QED BY <1>1 DEF RemovalIsLocal

LEMMA StepInd ==
  ASSUME NamesAssumption
  PROVE  IndInv /\ [PackNext]_packVars => IndInv' /\ [RemovalIsLocal]_packVars
<1> SUFFICES ASSUME IndInv, [PackNext]_packVars PROVE IndInv' /\ [RemovalIsLocal]_packVars
  OBVIOUS
<1>1. CASE \/ \E s \in Sources : Install("global", s) \/ Install("store", s)
           \/ \E n \in Names : Uninstall(n)
           \/ Restore
  <2>1. pc[1] = "idle"
    BY <1>1 DEF Install, Uninstall, Restore, Begin
  <2> QED BY <1>1, <2>1, BeginInd, NotRemoving
<1>2. CASE \E n \in Names : Unlink(n)
  <2>1. pc[1] = "idle"
    BY <1>2 DEF Unlink
  <2> QED BY <1>2, <2>1, UnlinkInd, NotRemoving
<1>3. CASE Clear \/ CacheArchive \/ WriteFile \/ MoveIntoPlace
  <2>1. pc[2] \in {"clear", "cache", "write"}
    BY <1>3 DEF Clear, CacheArchive, WriteFile, MoveIntoPlace
  <2> QED BY <1>3, <2>1, ClearInd, CacheArchiveInd, WriteFileInd, MoveIntoPlaceInd, NotRemoving
<1>4. CASE LinkExecutable \/ Installed
  <2>1. pc[2] = "link"
    BY <1>4 DEF LinkExecutable, Installed
  <2> QED BY <1>4, <2>1, LinkExecutableInd, InstalledInd, NotRemoving
<1>5. CASE LinkToProject \/ RecordDependency
  <2>1. pc[2] \in {"project", "manifest"}
    BY <1>5 DEF LinkToProject, RecordDependency
  <2> QED BY <1>5, <2>1, LinkToProjectInd, RecordDependencyInd, NotRemoving
<1>6. CASE RestoreOne \/ Restored \/ ForgetDependency
  <2>1. pc[2] \in {"each", "forget"}
    BY <1>6 DEF RestoreOne, Restored, ForgetDependency
  <2> QED BY <1>6, <2>1, RestoreOneInd, RestoredInd, ForgetInd, NotRemoving
<1>7. CASE UnlinkExecutable \/ RemovePackage \/ Uncache \/ Abort
  BY <1>7, UnlinkExecutableInd, RemovePackageInd, UncacheInd, AbortInd
<1>8. CASE UNCHANGED packVars
  <2>1. PackTypeOK' /\ StoreSoFar' /\ GlobalSoFar' /\ RestoreSoFar' /\ RemoveSoFar' /\ NotDone'
    BY <1>8 DEF packVars, IndInv, PackTypeOK, StoreSoFar, GlobalSoFar, RestoreSoFar, RemoveSoFar, NotDone,
                Holds, Target, Dest, Present, Image, Files, Store, Bento, Staged
  <2>2. InstalledWhole'
    BY <1>8 DEF packVars, IndInv, InstalledWhole, Image, Files, Store, Bento
  <2>3. RestoreAgrees'
    BY <1>8 DEF packVars, IndInv, RestoreAgrees, WholeInStore, Present, Image, Files, Store
  <2>4. StoreWhole'
    BY <1>8, StoreKept DEF packVars
  <2>5. RemovalIsLocal \/ UNCHANGED packVars
    BY <1>8
  <2> QED BY <2>1, <2>2, <2>3, <2>4, <2>5 DEF IndInv
<1> QED BY <1>1, <1>2, <1>3, <1>4, <1>5, <1>6, <1>7, <1>8 DEF PackNext

LEMMA Invariance ==
  ASSUME NamesAssumption
  PROVE  PackSpec => []IndInv
<1>1. PackInit => IndInv
  BY InitInd
<1>2. IndInv /\ [PackNext]_packVars => IndInv'
  BY StepInd
<1> QED BY <1>1, <1>2, PTL DEF PackSpec

-----------------------------------------------------------------------------
(* The theorems. *)

\* Directories, links, dependencies and the calls of the commands keep their
\* types, whatever is killed between which two calls.
THEOREM PackTypeCorrect == ASSUME NamesAssumption PROVE PackSpec => []PackTypeOK
<1>1. IndInv => PackTypeOK
  BY DEF IndInv
<1> QED BY <1>1, Invariance, PTL

\* However earlier commands were cut short, an install that ends is whole.
THEOREM InstallsAreWhole == ASSUME NamesAssumption PROVE PackSpec => []InstalledWhole
<1>1. IndInv => InstalledWhole
  BY DEF IndInv
<1> QED BY <1>1, Invariance, PTL

\* A restore that reports success has linked every dependency of nori.toml to
\* the version recorded there, which the store has: whole, unless the last
\* install to touch its directory did not end.
THEOREM RestoresAgree == ASSUME NamesAssumption PROVE PackSpec => []RestoreAgrees
<1>1. IndInv => RestoreAgrees
  BY DEF IndInv
<1> QED BY <1>1, Invariance, PTL

\* No call of a removal touches the directory of another package or a link that
\* leads into one.
THEOREM RemovalsAreLocal == ASSUME NamesAssumption PROVE PackSpec => OthersUntouched
<1>1. IndInv /\ [PackNext]_packVars => [RemovalIsLocal]_packVars
  BY StepInd
<1> QED BY <1>1, Invariance, PTL DEF PackSpec, OthersUntouched
=============================================================================
