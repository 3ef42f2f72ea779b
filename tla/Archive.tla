------------------------------- MODULE Archive -------------------------------
(***************************************************************************)
(* What neupak (neupak/src/neupak.cpp) does with the indexes of the        *)
(* repositories and with the archive of a package: it looks the package    *)
(* up, downloads the archive into its cache, compares the checksum, reads  *)
(* the manifest and, in three more passes over the same file, plans,       *)
(* extracts and copies.  Only the last two passes are under the lock, so   *)
(* that another process may replace the archive or manifest.tmp between    *)
(* any two passes.                                                         *)
(*                                                                         *)
(* An archive is a sequence of cells, a header or a unit of payload; a     *)
(* text is a sequence of package sections.  One install is of one package: *)
(* the queue, uninstalling, the databases on the disk and the age of the   *)
(* lock are in Neupak.                                                     *)
(***************************************************************************)
EXTENDS Naturals, Sequences, FiniteSets, SequencesExt

CONSTANTS
  Procs, Names, Paths, None,
  Editions,    \* of each repository, in the order of repos.cfg: its indexes, in time
  Archives,    \* the archives, by checksum
  Hash,        \* the name of the cached archive, fnv1a32() of the package's
  Locals,      \* the archives that install-local is called with
  Delivered,   \* the sets of archives from which a system may be delivered
  kMaxFiles,
  MaxCommands, \* bound: commands run
  MaxTroubles  \* bound: failed and cut downloads and writes, crashes

\* The files of the boot partition are kept apart.
Kernel == "/boot/kernel.elf"

ArchiveAssumption ==
  /\ None \notin Procs \cup Names \cup Paths \cup DOMAIN Archives
  /\ Kernel \notin Paths
  /\ Locals \cup UNION Delivered \subseteq DOMAIN Archives
  /\ kMaxFiles \in Nat /\ MaxCommands \in Nat /\ MaxTroubles \in Nat

VARIABLES
  edition,    \* the index that each repository has published
  indexes,    \* the cached indexes: a text or None
  cache,      \* the cached archives
  manifest,   \* manifest.tmp
  temp,       \* the files below the extract directory
  lock,       \* the process that has db.lck
  root,       \* the files below the root
  boot,       \* the kernel and the one before it
  installed,  \* what the databases record of each package, and what it is from
  run,        \* the processes
  cut,        \* history: packages of which files were replaced without a record
  buried,     \* history: a kernel that was not whole was kept as the previous one
  commands, troubles

vars == <<edition, indexes, cache, manifest, temp, lock, root, boot, installed, run,
          cut, buried, commands, troubles>>

disk == <<indexes, cache, manifest, temp, root, boot, installed>>
history == <<cut, buried>>

Torn == <<"torn">>

Whole(file) == file \notin {None, Torn}

Idle == [at |-> "idle"]

TypeOK ==
  /\ \A r \in DOMAIN Editions : edition[r] \in DOMAIN Editions[r]
  /\ lock \in Procs \cup {None}
  /\ \A p \in Procs : lock = p => run[p].at \in {"reload", "extract", "check", "copy", "preserve", "replace", "restore", "record"}
  /\ DOMAIN root = Paths /\ DOMAIN boot = {"kernel", "previous"}
  /\ cut \subseteq Names
  /\ commands \in 0..MaxCommands /\ troubles \in 0..MaxTroubles

Trouble == troubles < MaxTroubles /\ troubles' = troubles + 1

-----------------------------------------------------------------------------
(* Texts: the indexes and the manifests.                                   *)

ValidSection(s, require_hash) == require_hash => s.sum # None

\* parse_package_toml(): no section twice, and each of them valid.
Parses(text, require_hash) ==
  /\ text # None
  /\ \A i, j \in DOMAIN text : text[i].name = text[j].name => i = j
  /\ \A i \in DOMAIN text : ValidSection(text[i], require_hash)

\* A text of which the end is missing: the last section may be without its
\* dependencies, or without these and its checksum.
Cuts(text) ==
  {SubSeq(text, 1, n) : n \in 0..Len(text) - 1}
  \cup UNION {{[SubSeq(text, 1, n) EXCEPT ![n] = [@ EXCEPT !.depends = <<>>]],
               [SubSeq(text, 1, n) EXCEPT ![n] = [@ EXCEPT !.depends = <<>>, !.sum = None]]}
              : n \in DOMAIN text}

AnyIndexReads == \A r \in DOMAIN indexes : indexes[r] # None

\* load_indexes(): every one has to be readable, and the first that has a
\* package of a name wins.
IndexesRead == \A r \in DOMAIN indexes : Parses(indexes[r], TRUE)

Lists(r, n) == \E i \in DOMAIN indexes[r] : indexes[r][i].name = n

Found(n) ==
  LET r == CHOOSE r \in DOMAIN indexes : Lists(r, n) /\ \A q \in 1..r - 1 : ~Lists(q, n)
  IN  indexes[r][CHOOSE i \in DOMAIN indexes[r] : indexes[r][i].name = n]

-----------------------------------------------------------------------------
(* Passes over an archive: each reads header after header, and takes the   *)
(* payload that is between them by one or the other of its two sizes.      *)

AlwaysCompressed(pass, e) == e.csize

\* skip_bytes() or a copy: what a pass takes after the header e.
Taken(pass, e) ==
  CASE e.kind = "manifest" -> IF pass = "manifest" THEN e.usize ELSE e.csize
    [] e.kind = "dir" -> IF pass = "extract" THEN 0 ELSE e.csize
    [] OTHER -> IF pass = "extract" THEN e.usize ELSE e.csize

Refused(pass, e) ==
  \/ e.kind = "bad"
  \/ e.compressed /\ (pass = "plan" \/ e.kind = IF pass = "manifest" THEN "manifest" ELSE "file")

\* read_local_zip_entry(): the entries of z with their payload, as far as the
\* pass gets, and whether it gets to the end.  An archive ends where a file
\* does, or the central directory starts.
Walk(z, pass) ==
  LET Stop(ok) == [entries |-> <<>>, ok |-> ok]
      From[i \in 1..Len(z) + 1] ==
        IF i = Len(z) + 1 \/ (i =< Len(z) /\ z[i].kind = "end") THEN Stop(TRUE)
        ELSE IF z[i].kind = "data" \/ Refused(pass, z[i]) \/ i + Taken(pass, z[i]) > Len(z) THEN Stop(FALSE)
        ELSE LET next == i + 1 + Taken(pass, z[i])
                 payload == [k \in 1..next - i - 1 |-> IF z[i + k].kind = "data" THEN z[i + k].data ELSE None]
             IN  [entries |-> <<[kind |-> z[i].kind, path |-> z[i].path, payload |-> payload]>>
                                \o From[next].entries,
                  ok |-> From[next].ok]
  IN  IF z = None THEN Stop(FALSE) ELSE From[1]

OfKind(entries, kind) == SelectSeq(entries, LAMBDA e : e.kind = kind)

\* plan_zip(), add_zip_entry(): the paths of the files, none of them twice.
Planned(z) ==
  LET files == OfKind(Walk(z, "plan").entries, "file")
  IN  [i \in DOMAIN files |-> files[i].path]

Plans(z) ==
  /\ Walk(z, "plan").ok
  /\ IsInjective(Planned(z))
  /\ Len(Planned(z)) =< kMaxFiles

\* The section of the package: the one of the name, or the only one.
Named(text, n) == \E i \in DOMAIN text : text[i].name = n

HasSection(text, n) == Named(text, n) \/ Len(text) = 1

SectionOf(text, n) ==
  IF Named(text, n) THEN text[CHOOSE i \in DOMAIN text : text[i].name = n] ELSE text[1]

AnyDependencies(s, t) == s.version = t.version /\ s.strategy = t.strategy

\* same_manifest_package(); the names are not compared.
SameSection(s, t) ==
  s.version = t.version /\ s.strategy = t.strategy /\ s.depends = t.depends

-----------------------------------------------------------------------------
ManifestOf(sum) ==
  Last(OfKind(Walk(Archives[sum], "manifest").entries, "manifest")).payload[1]

FilesOf(sum) == OfKind(Walk(Archives[sum], "plan").entries, "file")

RecordOf(pkg, plan, sum, plain) ==
  [version |-> pkg.version, strategy |-> pkg.strategy, depends |-> pkg.depends,
   plan |-> plan, sum |-> sum, plain |-> plain]

Init ==
  /\ edition = [r \in DOMAIN Editions |-> 1]
  /\ indexes = [r \in DOMAIN Editions |-> Editions[r][1]]
  /\ cache = [h \in {Hash[n] : n \in Names} |-> None]
  /\ manifest = None
  /\ temp = [h \in {Hash[n] : n \in Names} |-> [f \in Paths \cup {Kernel} |-> None]]
  /\ lock = None
  /\ \E sums \in Delivered :
       LET files == UNION {ToSet(FilesOf(sum)) : sum \in sums}
       IN  /\ root = [f \in Paths |-> IF \E e \in files : e.path = f
                                     THEN (CHOOSE e \in files : e.path = f).payload ELSE None]
           /\ installed = [n \in Names |->
                IF \E sum \in sums : ManifestOf(sum).name = n
                THEN LET sum == CHOOSE a \in sums : ManifestOf(a).name = n
                     IN  RecordOf(ManifestOf(sum), Planned(Archives[sum]), sum, TRUE)
                ELSE None]
  /\ boot = [kernel |-> <<"delivered">>, previous |-> None]
  /\ run = [p \in Procs |-> Idle]
  /\ cut = {} /\ buried = FALSE
  /\ commands = 0 /\ troubles = 0

-----------------------------------------------------------------------------
(* Commands and downloads.                                                 *)

Command(p, process) ==
  /\ run[p] = Idle /\ commands < MaxCommands
  /\ commands' = commands + 1
  /\ run' = [run EXCEPT ![p] = process]

Goes(p, at) == run' = [run EXCEPT ![p].at = at]

Gives(p) == run' = [run EXCEPT ![p] = Idle]

\* update_index() goes over the repositories in their order.
UpdateIndex(p) ==
  /\ Command(p, [at |-> "get index", repo |-> 1])
  /\ UNCHANGED <<edition, disk, lock, history, troubles>>

Offering(r) == Editions[r][edition[r]]

\* run_download() puts the index where the old one was: while it is written, and
\* when neupak ends meanwhile, there is a part of it.  A failure before the
\* answer leaves the old one.
GetIndex(p) ==
  /\ run[p].at = "get index"
  /\ \/ /\ \E text \in Cuts(Offering(run[p].repo)) : indexes' = [indexes EXCEPT ![run[p].repo] = text]
        /\ Goes(p, "put index")
        /\ UNCHANGED troubles
     \/ Trouble /\ Gives(p) /\ UNCHANGED indexes
  /\ UNCHANGED <<edition, cache, manifest, temp, lock, root, boot, installed, history, commands>>

\* A failure removes it; what ends too early without a stated length is taken
\* for whole.  An index that does not parse ends the command.
PutIndex(p) ==
  LET r == run[p].repo
      Continues(text) == /\ indexes' = [indexes EXCEPT ![r] = text]
                         /\ IF Parses(text, TRUE) /\ r < Len(Editions)
                            THEN run' = [run EXCEPT ![p] = [at |-> "get index", repo |-> r + 1]]
                            ELSE Gives(p)
  IN  /\ run[p].at = "put index"
      /\ \/ Continues(Offering(r)) /\ UNCHANGED troubles
         \/ Trouble /\ indexes[r] # None /\ Continues(indexes[r])
         \/ Trouble /\ indexes' = [indexes EXCEPT ![r] = None] /\ Gives(p)
      /\ UNCHANGED <<edition, cache, manifest, temp, lock, root, boot, installed, history, commands>>

\* What a process has to do with a package: plain is FALSE if a file that it
\* works with was replaced by another process.
Work(at, pkg, file) == [at |-> at, pkg |-> pkg, file |-> file, left |-> <<>>, plan |-> <<>>, plain |-> TRUE]

\* install_package() as far as install_one().
Install(p, n) ==
  /\ IndexesRead /\ \E r \in DOMAIN indexes : Lists(r, n)
  /\ Command(p, Work("fetch", Found(n), Hash[n]))
  /\ UNCHANGED <<edition, disk, lock, history, troubles>>

\* install_local_package(): the archive is not copied.
InstallLocal(p, sum) ==
  /\ Command(p, Work("manifest", None, sum))
  /\ UNCHANGED <<edition, disk, lock, history, troubles>>

Local(p) == run[p].file \in DOMAIN Archives

TheZip(p) == IF Local(p) THEN Archives[run[p].file] ELSE cache[run[p].file]

\* p goes on, and the others that use the same file are disturbed.
GoesOver(p, at, users) ==
  run' = [q \in Procs |->
            IF q = p THEN [run[p] EXCEPT !.at = at]
            ELSE IF q \in users THEN [run[q] EXCEPT !.plain = FALSE] ELSE run[q]]

Users(p) ==
  {q \in Procs \ {p} : run[q].at \in {"fetched", "verify", "manifest", "parse", "plan", "lock", "reload", "extract"}
                         /\ run[q].file = run[p].file}

\* The server finds an archive by its checksum; below a file:// address there
\* is the one of the newest edition.
Served(p) ==
  {run[p].pkg.sum} \cup
  UNION {{s.sum : s \in {t \in ToSet(Offering(r)) : t.name = run[p].pkg.name}} : r \in DOMAIN Editions}

\* bound: what there is of an archive while it is written.
Parts(z) == {None} \cup {SubSeq(z, 1, Len(z) - n) : n \in {1, 3} \cap 1..Len(z)}

\* run_download(), copy_local_repository_file(): as with an index.
FetchZip(p) ==
  /\ run[p].at = "fetch"
  /\ \/ /\ \E sum \in Served(p) : \E part \in Parts(Archives[sum]) :
             cache' = [cache EXCEPT ![run[p].file] = part]
        /\ GoesOver(p, "fetched", Users(p))
        /\ UNCHANGED troubles
     \/ Trouble /\ Gives(p) /\ UNCHANGED cache
  /\ UNCHANGED <<edition, indexes, manifest, temp, lock, root, boot, installed, history, commands>>

PutZip(p) ==
  /\ run[p].at = "fetched"
  /\ \/ /\ \E sum \in Served(p) : cache' = [cache EXCEPT ![run[p].file] = Archives[sum]]
        /\ GoesOver(p, "verify", Users(p))
        /\ UNCHANGED troubles
     \/ Trouble /\ cache[run[p].file] # None /\ Goes(p, "verify") /\ UNCHANGED cache
     \/ /\ Trouble
        /\ cache' = [cache EXCEPT ![run[p].file] = None]
        /\ run' = [q \in Procs |-> IF q = p THEN Idle
                                   ELSE IF q \in Users(p) THEN [run[q] EXCEPT !.plain = FALSE] ELSE run[q]]
  /\ UNCHANGED <<edition, indexes, manifest, temp, lock, root, boot, installed, history, commands>>

AnyArchive(p) == cache[run[p].file] # None

\* verify_file_sha256(), of the size as well.
Verified(p) == cache[run[p].file] = Archives[run[p].pkg.sum]

Verify(p) ==
  /\ run[p].at = "verify"
  /\ IF Verified(p) THEN Goes(p, "manifest") ELSE Gives(p)
  /\ UNCHANGED <<edition, disk, lock, history, commands, troubles>>

\* extract_manifest_package(): every manifest of the archive is copied over the
\* one before, before it is known whether the pass gets to the end.
CopyManifest(p) ==
  LET walk == Walk(TheZip(p), "manifest")
      found == OfKind(walk.entries, "manifest")
      readers == {q \in Procs \ {p} : run[q].at = "parse"}
  IN  /\ run[p].at = "manifest"
      /\ manifest' = IF found = <<>> THEN manifest ELSE Last(found).payload
      /\ IF walk.ok /\ found # <<>> THEN GoesOver(p, "parse", readers)
         ELSE run' = [q \in Procs |-> IF q = p THEN Idle
                                      ELSE IF q \in readers /\ found # <<>> THEN [run[q] EXCEPT !.plain = FALSE]
                                      ELSE run[q]]
      /\ UNCHANGED <<edition, indexes, cache, temp, lock, root, boot, installed, history, commands, troubles>>

\* The manifest is read back: it has to agree with the index, or tells what a
\* local archive is.
ReadManifest(p) ==
  LET Agrees == IF Local(p) THEN Len(manifest) = 1
                ELSE /\ HasSection(manifest, run[p].pkg.name)
                     /\ SameSection(run[p].pkg, SectionOf(manifest, run[p].pkg.name))
  IN  /\ run[p].at = "parse"
      /\ IF Parses(manifest, FALSE) /\ None \notin ToSet(manifest) /\ Agrees
         THEN run' = [run EXCEPT ![p].at = "plan",
                        ![p].pkg = IF Local(p) THEN [manifest[1] EXCEPT !.sum = run[p].file] ELSE @]
         ELSE Gives(p)
      /\ UNCHANGED <<edition, disk, lock, history, commands, troubles>>

-----------------------------------------------------------------------------
(* install_zip_package().                                                  *)

\* check_installed_dependencies()
DependenciesIn(pkg) == \A d \in ToSet(pkg.depends) : installed[d] # None

OnlyKernel(p) == run[p].pkg.strategy = "over_boot" => Planned(TheZip(p)) = <<Kernel>>

PlanZip(p) ==
  /\ run[p].at = "plan"
  /\ IF Plans(TheZip(p)) /\ OnlyKernel(p) /\ DependenciesIn(run[p].pkg)
     THEN run' = [run EXCEPT ![p].at = "lock", ![p].plan = Planned(TheZip(p))]
     ELSE Gives(p)
  /\ UNCHANGED <<edition, disk, lock, history, commands, troubles>>

AcquireLock(p) ==
  /\ run[p].at = "lock"
  /\ IF lock = None THEN lock' = p /\ Goes(p, "reload") ELSE Gives(p) /\ UNCHANGED lock
  /\ UNCHANGED <<edition, disk, history, commands, troubles>>

\* The lock is released, good or bad.
Ends(p) == Gives(p) /\ lock' = None

Dir(p) == Hash[run[p].pkg.name]

\* owned_by_other(), and an unowned file that differs from the one extracted.
Conflicts(p, f) ==
  \/ \E n \in Names \ {run[p].pkg.name} : installed[n] # None /\ f \in ToSet(installed[n].plan)
  \/ /\ \A n \in Names : installed[n] # None => f \notin ToSet(installed[n].plan)
     /\ f \in Paths /\ root[f] \notin {None, temp[Dir(p)][f]}

\* destination_path(): the files of over_boot go to the partition that
\* find_boot_root() takes for the boot partition, as there is a kernel on it.
Reachable(p) == run[p].pkg.strategy = "over_root" \/ boot.kernel # None

Reload(p) ==
  /\ run[p].at = "reload"
  /\ IF DependenciesIn(run[p].pkg) THEN Goes(p, "extract") /\ UNCHANGED lock ELSE Ends(p)
  /\ UNCHANGED <<edition, disk, history, commands, troubles>>

\* copy_entry_data_to_path(): a file that comes twice is written twice.
Extracted(files, dir) ==
  [f \in DOMAIN dir |->
     LET copies == SelectSeq(files, LAMBDA e : e.path = f)
     IN  IF copies = <<>> THEN dir[f] ELSE Last(copies).payload]

\* extract_zip_to_temp(), below the directory of the package's hash, where
\* files of earlier archives are left.
Extract(p) ==
  LET walk == Walk(TheZip(p), "extract")
  IN  /\ run[p].at = "extract"
      /\ temp' = [temp EXCEPT ![Dir(p)] = Extracted(OfKind(walk.entries, "file"), @)]
      /\ IF walk.ok THEN Goes(p, "check") /\ UNCHANGED lock ELSE Ends(p)
      /\ UNCHANGED <<edition, indexes, cache, manifest, root, boot, installed, history, commands, troubles>>

CheckConflicts(p) ==
  /\ run[p].at = "check"
  /\ IF (\A f \in ToSet(run[p].plan) : ~Conflicts(p, f)) /\ (run[p].plan = <<>> \/ Reachable(p))
     THEN /\ run' = [run EXCEPT ![p].left = run[p].plan, ![p].at =
                IF run[p].plan = <<>> THEN "record"
                ELSE IF run[p].pkg.strategy = "over_boot" THEN "preserve" ELSE "copy"]
          /\ UNCHANGED lock
     ELSE Ends(p)
  /\ UNCHANGED <<edition, disk, history, commands, troubles>>

\* copy_file_replace() removes the file that is there, makes it anew and writes:
\* what it leaves when it fails or ends in between.
Remains(file) == {file, None, Torn}

\* copy_temp_into_place()
Copy(p) ==
  LET f == Head(run[p].left)
      source == temp[Dir(p)][f]
  IN  /\ run[p].at = "copy"
      /\ \/ /\ source # None
            /\ root' = [root EXCEPT ![f] = source]
            /\ run' = [run EXCEPT ![p].left = Tail(@), ![p].at = IF Len(run[p].left) = 1 THEN "record" ELSE @]
            /\ UNCHANGED <<lock, cut, troubles>>
         \/ /\ source = None \/ troubles < MaxTroubles
            /\ \E c \in IF source = None THEN {root[f]} ELSE Remains(root[f]) : root' = [root EXCEPT ![f] = c]
            /\ troubles' = IF source = None THEN troubles ELSE troubles + 1
            /\ cut' = cut \cup {run[p].pkg.name}
            /\ Ends(p)
      /\ UNCHANGED <<edition, indexes, cache, manifest, temp, boot, installed, buried, commands>>

\* The kernel is kept as the previous one before it is replaced.
Preserve(p) ==
  /\ run[p].at = "preserve"
  /\ \/ /\ boot' = [boot EXCEPT !.previous = boot.kernel]
        /\ buried' = (buried \/ ~Whole(boot.kernel))
        /\ Goes(p, "replace")
        /\ UNCHANGED <<lock, troubles>>
     \/ /\ Trouble
        /\ \E c \in Remains(boot.previous) : boot' = [boot EXCEPT !.previous = c]
        /\ buried' = (buried \/ ~Whole(boot.kernel))
        /\ Ends(p)
  /\ UNCHANGED <<edition, indexes, cache, manifest, temp, root, installed, cut, commands>>

Replace(p) ==
  LET source == temp[Dir(p)][Kernel]
  IN  /\ run[p].at = "replace"
      /\ \/ /\ source # None
            /\ boot' = [boot EXCEPT !.kernel = source]
            /\ Goes(p, "record")
            /\ UNCHANGED <<cut, troubles>>
         \/ /\ source = None \/ troubles < MaxTroubles
            /\ \E c \in IF source = None THEN {boot.kernel} ELSE Remains(boot.kernel) : boot' = [boot EXCEPT !.kernel = c]
            /\ troubles' = IF source = None THEN troubles ELSE troubles + 1
            /\ cut' = cut \cup {run[p].pkg.name}
            /\ Goes(p, "restore")
      /\ UNCHANGED <<edition, indexes, cache, manifest, temp, lock, root, installed, buried, commands>>

\* The previous kernel is put back; it does not matter whether that fails.
Restore(p) ==
  /\ run[p].at = "restore"
  /\ \/ boot' = [boot EXCEPT !.kernel = boot.previous] /\ UNCHANGED troubles
     \/ Trouble /\ \E c \in Remains(boot.kernel) : boot' = [boot EXCEPT !.kernel = c]
  /\ Ends(p)
  /\ UNCHANGED <<edition, indexes, cache, manifest, temp, root, installed, history, commands>>

\* update_db_for_package() and the writing of the databases.
Record(p) ==
  LET pkg == run[p].pkg
  IN  /\ run[p].at = "record"
      /\ \/ /\ installed' = [installed EXCEPT ![pkg.name] =
                               RecordOf(pkg, run[p].plan, pkg.sum, run[p].plain)]
            /\ cut' = cut \ {pkg.name}
            /\ UNCHANGED troubles
         \/ Trouble /\ cut' = cut \cup {pkg.name} /\ UNCHANGED installed
      /\ Ends(p)
      /\ UNCHANGED <<edition, indexes, cache, manifest, temp, root, boot, buried, commands>>

-----------------------------------------------------------------------------
\* A process ends in the middle of its work.  Its lock is taken for stale, which
\* Neupak goes into.
Crash(p) ==
  /\ run[p] # Idle /\ Trouble
  /\ Gives(p)
  /\ lock' = IF lock = p THEN None ELSE lock
  /\ LET f == Head(run[p].left)
     IN  root' \in IF run[p].at = "copy" THEN {[root EXCEPT ![f] = c] : c \in Remains(root[f])} ELSE {root}
  /\ boot' \in CASE run[p].at = "preserve" -> {[boot EXCEPT !.previous = c] : c \in Remains(boot.previous)}
                 [] run[p].at \in {"replace", "restore"} ->
                      {[boot EXCEPT !.kernel = c] : c \in Remains(boot.kernel)}
                 [] OTHER -> {boot}
  /\ buried' = (buried \/ (run[p].at = "preserve" /\ ~Whole(boot.kernel)))
  /\ cut' = IF run[p].at \in {"copy", "replace", "restore", "record"} THEN cut \cup {run[p].pkg.name} ELSE cut
  /\ UNCHANGED <<edition, indexes, cache, manifest, temp, installed, commands>>

\* A repository publishes its next index.
Publish(r) ==
  /\ edition[r] < Len(Editions[r])
  /\ edition' = [edition EXCEPT ![r] = @ + 1]
  /\ UNCHANGED <<disk, lock, run, history, commands, troubles>>

Step(p) ==
  \/ UpdateIndex(p) \/ (\E n \in Names : Install(p, n)) \/ (\E sum \in Locals : InstallLocal(p, sum))
  \/ GetIndex(p) \/ PutIndex(p) \/ FetchZip(p) \/ PutZip(p) \/ Verify(p)
  \/ CopyManifest(p) \/ ReadManifest(p) \/ PlanZip(p) \/ AcquireLock(p) \/ Reload(p) \/ Extract(p)
  \/ CheckConflicts(p) \/ Copy(p) \/ Preserve(p) \/ Replace(p) \/ Restore(p) \/ Record(p)
  \/ Crash(p)

Next == (\E p \in Procs : Step(p)) \/ (\E r \in DOMAIN Editions : Publish(r))

Spec == Init /\ [][Next]_vars

-----------------------------------------------------------------------------
(* Properties.                                                             *)

\* An archive of which each entry says one size.
Even(z) == \A i \in DOMAIN z : z[i].kind \notin {"data", "end"} => z[i].csize = z[i].usize

ContentAt(f) == IF f = Kernel THEN boot.kernel ELSE root[f]

AtWorkOn(n) == \E p \in Procs : lock = p /\ run[p].pkg.name = n

\* Every file of a package that is recorded is there as the archive has it that
\* the index named, or the user, and its record says what the manifest of that
\* archive does: whatever is downloaded meanwhile, cut or left from before,
\* unless another process replaced the cached archive or manifest.tmp between
\* two passes (neupak.cpp:1778-2066, 2177-2346, 2700-2748).
InstalledAsVerified ==
  \A n \in Names \ cut :
    installed[n] # None /\ installed[n].plain /\ Even(Archives[installed[n].sum]) /\ ~AtWorkOn(n) =>
      /\ \A e \in ToSet(FilesOf(installed[n].sum)) : ContentAt(e.path) = e.payload
      /\ SameSection(ManifestOf(installed[n].sum), installed[n])

\* What the archive itself says it needs is installed, also when the index that
\* was consulted is cut (neupak.cpp:1014-1050, 2068-2074).
NeedsAreThere ==
  \A n \in Names :
    installed[n] # None /\ installed[n].plain => DependenciesIn(ManifestOf(installed[n].sum))

\* There is a kernel to start, the new one or the one before, after any failure
\* or crash, until a kernel that was not whole is itself kept as the previous
\* one (neupak.cpp:2326-2343).
KernelKept == ~buried => Whole(boot.kernel) \/ Whole(boot.previous)
=============================================================================
