------------------------------ MODULE Packager ------------------------------
(***************************************************************************)
(* nori, the package manager (src/sushi_lang/packager): one process that   *)
(* runs one command after another on the directories under ~/.sushi and in *)
(* a project.  A command is a series of file-system calls with no lock and *)
(* no journal, so every call is a step here and Abort may fall between any *)
(* two of them: what the calls did so far stays, the command is forgotten. *)
(*                                                                         *)
(* A directory is a function from the files in it to the source each was   *)
(* written from, or NoDir.  The manifest, libraries and data of a package  *)
(* are the one file Manifest; its executables are files of their own.      *)
(***************************************************************************)
EXTENDS Naturals, FiniteSets

CONSTANTS
  Sources,       \* what can be installed: [pkg, ver, exes, kind] records, kind "archive" or "dir"
  Glob(_, _),    \* Glob(n, s): the cached archive of s matches the pattern "n-*.nori"
  NoDir, None,   \* no directory; no link, no version, no source
  Manifest,      \* the file nori.toml (with the libraries and data)
  MaxCrashes     \* bound on the number of crashes

Names == {s.pkg : s \in Sources}
Exes  == UNION {s.exes : s \in Sources}
Versions == {s.ver : s \in Sources}
NameVersions == {<<s.pkg, s.ver>> : s \in Sources}

\* A directory that is there: some files, each with the source it comes from.
Trees == UNION {[S -> Sources] : S \in SUBSET ({Manifest} \cup Exes)}

(* NoDir is no directory, and no executable is named like the manifest,     *)
(* which is not under bin/.                                                 *)
NamesAssumption == NoDir \notin Trees /\ Manifest \notin Exes

\* ~/.sushi/bento/<name>, the directory an archive unpacks to beside it, and
\* ~/.sushi/store/<name>-<version>.
Bento(n) == <<"bento", <<n>>>>
Staged(s) == <<"staged", <<s.pkg, s.ver>>>>
Store(nv) == <<"store", nv>>
Paths == {Bento(n) : n \in Names} \cup {<<"staged", nv>> : nv \in NameVersions}
           \cup {Store(nv) : nv \in NameVersions}

VARIABLES
  fs,       \* directory at each path
  bin,      \* ~/.sushi/bin: the package each executable's link leads into
  archives, \* sources whose archive is in ~/.sushi/cache
  link,     \* .sushi_bento of the project: version each name is linked to
  deps,     \* [dependencies] of the project's nori.toml
  pc,       \* the command's next call
  cmd,      \* the source being installed
  todo,     \* what a loop of the command still has to visit
  done,     \* the command that has just ended, for the properties
  unfinished, \* versions in the store that an install began to clear or write, and did not end
  crashes

onDisk == <<fs, bin, archives, link, deps>>
packVars == <<fs, bin, archives, link, deps, pc, cmd, todo, done, unfinished, crashes>>

Files(s) == {Manifest} \cup s.exes
Image(s) == [f \in Files(s) |-> s]
Present(p) == fs[p] # NoDir
ExesIn(p) == IF Present(p) THEN DOMAIN fs[p] \ {Manifest} ELSE {}

\* The directory a command writes to: bento/<name>, or store/<name>-<version>.
Dest == IF pc[1] = "store" THEN Store(<<cmd.pkg, cmd.ver>>) ELSE Bento(cmd.pkg)

\* Where the files of a source are written: an archive's members carry the
\* directory <name>-<version>, a directory's files are copied into place.
Target == IF pc[1] = "global" /\ cmd.kind = "archive" THEN Staged(cmd) ELSE Dest

\* A command that is given a package's name only.
ByName(n) == [pkg |-> n, ver |-> None, exes |-> {}, kind |-> "name"]

PackInit ==
  /\ fs = [p \in Paths |-> NoDir]
  /\ bin = [e \in Exes |-> None]
  /\ archives = {}
  /\ link = [n \in Names |-> None]
  /\ deps = [n \in Names |-> None]
  /\ pc = <<"idle", "idle">> /\ cmd = None /\ todo = {} /\ done = <<"none", None>>
  /\ unfinished = {} /\ crashes = 0

Begin(mode, step) ==
  /\ pc[1] = "idle"
  /\ pc' = <<mode, step>> /\ done' = <<"none", None>>
  /\ UNCHANGED <<fs, bin, archives, link, deps, unfinished, crashes>>

Continue(step) == pc' = <<pc[1], step>> /\ UNCHANGED <<cmd, done, crashes>>

End(what) ==
  /\ pc' = <<"idle", "idle">> /\ cmd' = None /\ todo' = {}
  /\ done' = <<what, cmd>> /\ UNCHANGED <<unfinished, crashes>>

(***************************************************************************)
(* Install, global and into the store                                      *)
(***************************************************************************)
\* The manifest is read before anything is touched.
Install(mode, s) == Begin(mode, "clear") /\ cmd' = s /\ todo' = {}

\* Mutant of Clear: an installed version is not removed first.
ClearNothing ==
  /\ pc[2] = "clear" /\ Continue("cache")
  /\ UNCHANGED <<fs, bin, archives, link, deps, todo, unfinished>>

\* shutil.rmtree takes the files of an installed version one by one, in the
\* order of the directory, and the directory last.
Clear ==
  /\ pc[2] = "clear"
  /\ unfinished' = IF pc[1] = "store" THEN unfinished \cup {<<cmd.pkg, cmd.ver>>} ELSE unfinished
  /\ UNCHANGED <<bin, archives, link, deps, todo>>
  /\ \/ /\ Present(Dest)
        /\ \/ /\ DOMAIN fs[Dest] # {}
              /\ \E f \in DOMAIN fs[Dest] :
                   fs' = [fs EXCEPT ![Dest] = [g \in DOMAIN @ \ {f} |-> @[g]]]
           \/ DOMAIN fs[Dest] = {} /\ fs' = [fs EXCEPT ![Dest] = NoDir]
        /\ UNCHANGED <<pc, cmd, done, crashes>>
     \/ ~Present(Dest) /\ Continue("cache") /\ UNCHANGED fs

\* An archive is copied to the cache; a directory is not.
CacheArchive ==
  /\ pc[2] = "cache"
  /\ archives' = IF cmd.kind = "archive" THEN archives \cup {cmd} ELSE archives
  /\ todo' = Files(cmd)
  /\ Continue("write")
  /\ UNCHANGED <<fs, bin, link, deps, unfinished>>

\* tar.extractall, and the copies of a directory install: the manifest comes
\* first; a directory that is already there is written into.
WriteFile ==
  /\ pc[2] = "write" /\ todo # {}
  /\ \E f \in todo :
       /\ Manifest \in todo => f = Manifest
       /\ fs' = [fs EXCEPT ![Target] =
                   [g \in {f} \cup (IF @ = NoDir THEN {} ELSE DOMAIN @) |->
                      IF g = f THEN cmd ELSE @[g]]]
       /\ todo' = todo \ {f}
  /\ UNCHANGED <<bin, archives, link, deps, pc, cmd, done, unfinished, crashes>>

\* What was unpacked beside the package takes its place.  In the store it
\* already bears its final name.
MoveIntoPlace ==
  /\ pc[2] = "write" /\ todo = {}
  /\ IF Target = Dest THEN UNCHANGED fs
     ELSE fs' = [fs EXCEPT ![Dest] = fs[Target], ![Target] = NoDir]
  /\ IF pc[1] = "global"
     THEN Continue("link") /\ todo' = DOMAIN fs[Target] \ {Manifest}
     ELSE Continue("project") /\ UNCHANGED todo
  /\ unfinished' = IF pc[1] = "store" THEN unfinished \ {<<cmd.pkg, cmd.ver>>} ELSE unfinished
  /\ UNCHANGED <<bin, archives, link, deps>>

\* One executable: an older link of that name, whoever's it is, is removed
\* before the new one is made.
LinkExecutable ==
  /\ pc[2] = "link" /\ todo # {}
  /\ \E e \in todo :
       IF bin[e] # None
       THEN bin' = [bin EXCEPT ![e] = None] /\ UNCHANGED todo
       ELSE bin' = [bin EXCEPT ![e] = cmd.pkg] /\ todo' = todo \ {e}
  /\ UNCHANGED <<fs, archives, link, deps, pc, cmd, done, unfinished, crashes>>

Installed ==
  /\ pc[2] = "link" /\ todo = {}
  /\ End("global") /\ UNCHANGED onDisk

(***************************************************************************)
(* The project's side of an install, its restore and its removal           *)
(***************************************************************************)
LinkToProject ==
  /\ pc[2] = "project"
  /\ link' = [link EXCEPT ![cmd.pkg] = IF @ # None THEN None ELSE cmd.ver]
  /\ IF link[cmd.pkg] # None THEN UNCHANGED <<pc, cmd, done, crashes>> ELSE Continue("manifest")
  /\ UNCHANGED <<fs, bin, archives, deps, todo, unfinished>>

RecordDependency ==
  /\ pc[2] = "manifest"
  /\ deps' = [deps EXCEPT ![cmd.pkg] = cmd.ver]
  /\ End("store") /\ UNCHANGED <<fs, bin, archives, link>>

\* nori install without a package: every dependency whose directory is in the
\* store is linked again; one that is missing makes the command fail.
Restore ==
  /\ Begin("restore", "each") /\ cmd' = None
  /\ todo' = {n \in Names : deps[n] # None}

\* Mutant of RestoreOne: a version that is not in the store is passed over.
RestoreOneLeniently ==
  /\ pc[2] = "each" /\ todo # {}
  /\ \E n \in todo :
       /\ todo' = todo \ {n}
       /\ link' = IF Present(Store(<<n, deps[n]>>)) THEN [link EXCEPT ![n] = deps[n]] ELSE link
  /\ UNCHANGED <<fs, bin, archives, deps, pc, cmd, done, unfinished, crashes>>

RestoreOne ==
  /\ pc[2] = "each" /\ todo # {}
  /\ \E n \in todo :
       IF Present(Store(<<n, deps[n]>>)) /\ link[n] # None
       THEN link' = [link EXCEPT ![n] = None] /\ UNCHANGED <<todo, pc>>
       ELSE /\ todo' = todo \ {n}
            /\ IF Present(Store(<<n, deps[n]>>))
               THEN link' = [link EXCEPT ![n] = deps[n]] /\ UNCHANGED pc
               ELSE pc' = <<"missing", "each">> /\ UNCHANGED link
  /\ UNCHANGED <<fs, bin, archives, deps, cmd, done, unfinished, crashes>>

Restored ==
  /\ pc[2] = "each" /\ todo = {}
  /\ End(pc[1]) /\ UNCHANGED onDisk

\* nori remove in a project: the link, then the line of the manifest.
Unlink(n) ==
  /\ pc[1] = "idle" /\ link[n] # None
  /\ link' = [link EXCEPT ![n] = None]
  /\ pc' = <<"unlink", "forget">> /\ cmd' = ByName(n) /\ todo' = {} /\ done' = <<"none", None>>
  /\ UNCHANGED <<fs, bin, archives, deps, unfinished, crashes>>

ForgetDependency ==
  /\ pc[2] = "forget"
  /\ deps' = [deps EXCEPT ![cmd.pkg] = None]
  /\ End("unlink") /\ UNCHANGED <<fs, bin, archives, link>>

(***************************************************************************)
(* nori remove --global                                                    *)
(***************************************************************************)
Uninstall(n) ==
  /\ Present(Bento(n))
  /\ Begin("uninstall", "unlink") /\ cmd' = ByName(n)
  /\ todo' = ExesIn(Bento(n))

\* Mutant of UnlinkExecutable: the link goes wherever it leads.
UnlinkAnyones ==
  /\ pc[2] = "unlink" /\ todo # {}
  /\ \E e \in todo : bin' = [bin EXCEPT ![e] = None] /\ todo' = todo \ {e}
  /\ UNCHANGED <<fs, archives, link, deps, pc, cmd, done, unfinished, crashes>>

\* Only the executables the directory holds now are looked up, and a link that
\* leads into another package is left.
UnlinkExecutable ==
  /\ pc[2] = "unlink" /\ todo # {}
  /\ \E e \in todo :
       /\ bin' = IF bin[e] = cmd.pkg THEN [bin EXCEPT ![e] = None] ELSE bin
       /\ todo' = todo \ {e}
  /\ UNCHANGED <<fs, archives, link, deps, pc, cmd, done, unfinished, crashes>>

RemovePackage ==
  /\ pc[2] = "unlink" /\ todo = {}
  /\ UNCHANGED <<bin, archives, link, deps, todo, unfinished>>
  /\ \/ /\ DOMAIN fs[Dest] # {}
        /\ \E f \in DOMAIN fs[Dest] :
             fs' = [fs EXCEPT ![Dest] = [g \in DOMAIN @ \ {f} |-> @[g]]]
        /\ UNCHANGED <<pc, cmd, done, crashes>>
     \/ /\ DOMAIN fs[Dest] = {}
        /\ fs' = [fs EXCEPT ![Dest] = NoDir] /\ Continue("uncache")

Uncache ==
  /\ pc[2] = "uncache"
  /\ archives' = {s \in archives : ~Glob(cmd.pkg, s)}
  /\ End("uninstall") /\ UNCHANGED <<fs, bin, link, deps>>

\* The process is killed, or a call raises and cli_main ends it.
Abort ==
  /\ pc[1] # "idle" /\ crashes < MaxCrashes
  /\ crashes' = crashes + 1
  /\ pc' = <<"idle", "idle">> /\ cmd' = None /\ todo' = {}
  /\ done' = <<"none", None>> /\ UNCHANGED <<onDisk, unfinished>>

PackNext ==
  \/ \E s \in Sources : Install("global", s) \/ Install("store", s)
  \/ \E n \in Names : Unlink(n) \/ Uninstall(n)
  \/ Clear \/ CacheArchive \/ WriteFile \/ MoveIntoPlace
  \/ LinkExecutable \/ Installed
  \/ LinkToProject \/ RecordDependency \/ Restore \/ RestoreOne \/ Restored \/ ForgetDependency
  \/ UnlinkExecutable \/ RemovePackage \/ Uncache
  \/ Abort

PackSpec == PackInit /\ [][PackNext]_packVars

(***************************************************************************)
(* Properties                                                              *)
(***************************************************************************)
\* Directories hold files of sources, and the calls of a command follow one
\* another.
PackTypeOK ==
  /\ fs \in [Paths -> Trees \cup {NoDir}]
  /\ bin \in [Exes -> Names \cup {None}]
  /\ archives \subseteq Sources /\ unfinished \subseteq NameVersions /\ crashes \in Nat
  /\ link \in [Names -> Versions \cup {None}] /\ deps \in [Names -> Versions \cup {None}]
  /\ pc \in ({"global", "store"} \X {"clear", "cache", "write"})
             \cup {<<"idle", "idle">>, <<"global", "link">>, <<"store", "project">>,
                   <<"store", "manifest">>, <<"restore", "each">>, <<"missing", "each">>,
                   <<"unlink", "forget">>, <<"uninstall", "unlink">>, <<"uninstall", "uncache">>}
  /\ pc[1] \in {"global", "store"} => cmd \in Sources
  /\ pc[1] \in {"unlink", "uninstall"} => cmd \in {ByName(n) : n \in Names}
  /\ pc[2] = "link" \/ pc[1] = "uninstall" => todo \subseteq Exes
  /\ pc[2] = "write" => todo \subseteq Files(cmd)
  /\ pc[2] = "each" => todo \subseteq {n \in Names : deps[n] # None}

\* However earlier commands were cut short, an install that ends has put every
\* file of its source where it belongs: globally with its executables on the
\* path, in a project linked and recorded, and the store holds nothing else.
InstalledWhole ==
  done[1] \in {"global", "store"} =>
  LET s == done[2]
      nv == <<s.pkg, s.ver>>
  IN  /\ done[1] = "global" =>
           /\ Files(s) \subseteq DOMAIN fs[Bento(s.pkg)]
           /\ \A f \in Files(s) : fs[Bento(s.pkg)][f] = s
           /\ \A e \in s.exes : bin[e] = s.pkg
      /\ done[1] = "store" =>
           fs[Store(nv)] = Image(s) /\ link[s.pkg] = s.ver /\ deps[s.pkg] = s.ver

\* What a directory in the store may be linked for: all the files of one source of
\* that name and version, and nothing else.
WholeInStore(nv) ==
  \E s \in Sources : <<s.pkg, s.ver>> = nv /\ fs[Store(nv)] = Image(s)

\* A restore that reports success has linked every dependency of nori.toml to
\* the version recorded there, and the store has that version: whole and of one
\* build of it, unless the last install to touch its directory did not end.
RestoreAgrees ==
  done[1] = "restore" =>
    \A n \in Names : deps[n] # None =>
      /\ link[n] = deps[n] /\ Present(Store(<<n, deps[n]>>))
      /\ <<n, deps[n]>> \notin unfinished => WholeInStore(<<n, deps[n]>>)

\* Removing a package leaves the directories that other packages installed, and
\* the links of an executable name they took over.
RemovalIsLocal ==
  pc[1] = "uninstall" =>
    /\ \A n \in Names \ {cmd.pkg} : fs'[Bento(n)] = fs[Bento(n)]
    /\ \A e \in Exes : bin[e] # cmd.pkg => bin'[e] = bin[e]

\* An uninstall step changes no directory of another package and no executable's
\* link into one.  (Archives are another matter: OthersArchivesKept.)
OthersUntouched == [][RemovalIsLocal]_packVars

(***************************************************************************)
(* What the documents say and the code does not do                         *)
(***************************************************************************)
\* docs/package-manager.md: the store holds "versioned, immutable copies", and
\* nori install restores the environment from them.  An install that was cut
\* short leaves a directory that is there and not whole: is_in_store asks only
\* whether it exists, and the restore links it and reports success.
RestoredWhole ==
  done[1] = "restore" =>
    \A n \in Names : deps[n] # None => WholeInStore(<<n, deps[n]>>)

\* docs/package-manager.md: a global removal of a package removes the cached
\* archives, those of that package.  The pattern foo-*.nori of uninstall takes the
\* archives of foo-bar along.
OthersArchivesKept ==
  [][pc[1] = "uninstall" => \A s \in archives : s.pkg # cmd.pkg => s \in archives']_packVars

\* docs/package-manager.md: re-installing a package replaces the existing
\* installation, so that the directory holds what the source holds and no more.
ReinstallReplaces ==
  done[1] = "global" => fs[Bento(done[2].pkg)] = Image(done[2])
=============================================================================
