------------------------------- MODULE Neupak -------------------------------
(***************************************************************************)
(* The package manager, neupak/src/neupak.cpp: processes that install and  *)
(* uninstall packages under one root.  They share the files of the root,   *)
(* two databases, each of which is removed and written anew, and a lock    *)
(* file, which holds the time it was made at and is removed by others      *)
(* when that is kLockStaleSeconds ago, or when it is empty.                *)
(*                                                                         *)
(* A file is the package and version it was copied from.  The contents of  *)
(* archives, their download and checks, and the text of the databases are  *)
(* left out: a step that reads them may fail.                              *)
(***************************************************************************)
EXTENDS Naturals, Sequences, FiniteSets, SequencesExt

CONSTANTS
  Procs, Packages, Paths, None,
  MaxVersion,   \* versions are 1..MaxVersion, 0 stands for a torn file
  Payload,      \* the paths of each package in each version, as a sequence
  Deps,         \* the dependencies of each package, as a sequence
  Published,    \* bound: the packages of which a new version appears
  Library,      \* paths under /library, where an unowned file may be replaced
  MaxCommands,  \* bound: commands run
  MaxTroubles   \* bound: failed calls, crashes, unreadable indexes, locks of a
                \* process at work that grow old, uses of --force-overwrite

\* A file: the package and version it was copied from.
Content == [name : Packages, version : 0..MaxVersion]

LockFile == [owner : Procs, stamp : {"empty", "fresh", "old"}]

ASSUME NeupakAssumption ==
  /\ None \notin Packages \cup Content \cup LockFile
  /\ MaxVersion \in Nat \ {0} /\ MaxCommands \in Nat /\ MaxTroubles \in Nat
  /\ Payload \in [Packages -> [1..MaxVersion -> Seq(Paths)]]
  /\ Deps \in [Packages -> Seq(Packages)]
  /\ Library \subseteq Paths /\ Published \subseteq Packages

VARIABLES
  index,      \* the version of each package in the cached indexes
  lock,       \* db.lck: who made it and its stamp, None if there is none
  installed,  \* install.db: the version of each package, 0 if not installed
  files,      \* files.db: the paths of each package, in order of the records
  disk,       \* the files under the root
  run,        \* the process: what it does and its copies of the databases
  robbed,     \* history: the lock of a process at work was removed by another
  blind,      \* history: an uninstall could not read the indexes
  shared,     \* history: paths on which --force-overwrite passed a conflict over
  damaged,    \* history: packages whose files were taken by force or whose last
              \* change was cut short
  cut,        \* history: the writing of a database was cut short
  overwritten, \* history: an install replaced a file that is another package's
  commands, troubles

past == <<robbed, blind, shared, damaged, cut, overwritten>>
dbs  == <<installed, files>>
vars == <<index, lock, dbs, disk, run, past, commands, troubles>>

Item == [name : Packages, version : 1..MaxVersion]

Record == [name : Packages, paths : Seq(Paths)]

Idle == [at |-> "idle"]

\* Where a process is: before the lock is made, while it has the lock, and
\* within that while it changes files and databases.
Before == {"fetch", "create", "takeover", "again"}
Changing == {"copy", "erase", "empty installed", "write installed",
             "empty files", "write files"}
Locked == {"stamp", "load", "release"} \cup Changing

Process ==
  {Idle} \cup
  [at : Before \cup Locked, does : {"install", "uninstall"}, force : BOOLEAN,
   queue : Seq(Item), inst : [Packages -> 0..MaxVersion], recs : Seq(Record),
   left : Seq(Paths), ok : BOOLEAN]

TypeOK ==
  /\ index \in [Packages -> 1..MaxVersion]
  /\ lock \in LockFile \cup {None}
  /\ installed \in [Packages -> 0..MaxVersion]
  /\ files \in Seq(Record)
  /\ \A i, j \in DOMAIN files : files[i].name = files[j].name => i = j
  /\ disk \in [Paths -> Content \cup {None}]
  /\ run \in [Procs -> Process]
  /\ {robbed, blind, cut, overwritten} \subseteq BOOLEAN
  /\ shared \subseteq Paths /\ damaged \subseteq Packages
  /\ commands \in 0..MaxCommands /\ troubles \in 0..MaxTroubles

Nothing == [p \in Packages |-> 0]

Init ==
  /\ index = [p \in Packages |-> 1]
  /\ lock = None
  /\ installed = Nothing /\ files = <<>>
  /\ disk = [f \in Paths |-> None]
  /\ run = [p \in Procs |-> Idle]
  /\ robbed = FALSE /\ blind = FALSE /\ shared = {} /\ damaged = {}
  /\ cut = FALSE /\ overwritten = FALSE
  /\ commands = 0 /\ troubles = 0

Trouble == troubles < MaxTroubles /\ troubles' = troubles + 1

\* The package that p works on.
Pkg(p) == Head(run[p].queue)

Goes(p, at) == run' = [run EXCEPT ![p].at = at]

\* The end of p's work under the lock, good or bad; what it read is forgotten.
Ends(p, good) ==
  run' = [run EXCEPT ![p] = [@ EXCEPT !.at = "release", !.ok = good, !.inst = Nothing,
                                      !.recs = <<>>, !.left = <<>>]]

-----------------------------------------------------------------------------
(* Before the lock: what a command reads and decides.                      *)

\* check_installed_dependencies()
DepsIn(pkg, inst) == \A d \in ToSet(Deps[pkg]) : inst[d] # 0

\* check_reverse_dependencies(): another installed package needs pkg.
Required(pkg, inst) ==
  \E q \in Packages \ {pkg} : inst[q] # 0 /\ pkg \in ToSet(Deps[q])

\* add_install_with_deps(): the dependencies that are not installed in the
\* version of the index, each after its own, and the package.
QueueOf(pkg, have, latest) ==
  LET Steps[q \in Packages] ==
        Append(FoldLeft(LAMBDA s, d :
                          IF have[d] = latest[d] THEN s
                          ELSE s \o SelectSeq(Steps[d], LAMBDA e : ~Contains(s, e)),
                        <<>>, Deps[q]), q)
  IN  [i \in DOMAIN Steps[pkg] |->
         [name |-> Steps[pkg][i], version |-> latest[Steps[pkg][i]]]]

InstallQueue(pkg) == QueueOf(pkg, installed, index)

\* The dependencies have no cycle, on which the recursion of the code would not
\* end: it comes to a queue for every state of the databases.
ASSUME QueueAssumption ==
  \A pkg \in Packages, have \in [Packages -> 0..MaxVersion], latest \in [Packages -> 1..MaxVersion] :
    QueueOf(pkg, have, latest) \in Seq(Item) \ {<<>>}

Command(p, at, does, force, queue) ==
  /\ run[p] = Idle
  /\ commands < MaxCommands
  /\ commands' = commands + 1
  /\ run' = [run EXCEPT ![p] =
       [at |-> at, does |-> does, force |-> force, queue |-> queue,
        inst |-> Nothing, recs |-> <<>>, left |-> <<>>, ok |-> TRUE]]

\* install_package(); --force-overwrite is an option of the user.
Install(p, pkg) ==
  /\ \/ Command(p, "fetch", "install", FALSE, InstallQueue(pkg)) /\ UNCHANGED troubles
     \/ Command(p, "fetch", "install", TRUE, InstallQueue(pkg)) /\ Trouble
  /\ UNCHANGED <<index, lock, dbs, disk, past>>

\* install_one() as far as the lock: the archive is downloaded and verified,
\* and the dependencies are looked up for the first time.
Fetch(p) ==
  /\ run[p].at = "fetch"
  /\ \/ DepsIn(Pkg(p).name, installed) /\ Goes(p, "create")
     \/ run' = [run EXCEPT ![p] = Idle]
  /\ UNCHANGED <<index, lock, dbs, disk, past, commands, troubles>>

\* uninstall_package() as far as the lock.  Without indexes there is a warning
\* and no check.
Uninstall(p, pkg) ==
  /\ installed[pkg] # 0
  /\ Command(p, "create", "uninstall", FALSE,
             <<[name |-> pkg, version |-> installed[pkg]]>>)
  /\ \/ ~Required(pkg, installed) /\ UNCHANGED <<blind, troubles>>
     \/ Required(pkg, installed) /\ Trouble /\ blind' = TRUE
  /\ UNCHANGED <<index, lock, dbs, disk, robbed, shared, damaged, cut, overwritten>>

-----------------------------------------------------------------------------
(* The lock: acquire_lock(), lock_is_stale(), release_lock().              *)

\* A lock file that a process at work has made.
AtWork == lock # None /\ run[lock.owner].at \in Locked

\* file_create() succeeds where there is no file.
CreateLock(p) ==
  /\ run[p].at \in {"create", "again"}
  /\ lock = None
  /\ lock' = [owner |-> p, stamp |-> "empty"]
  /\ Goes(p, "stamp")
  /\ UNCHANGED <<index, dbs, disk, past, commands, troubles>>

Stale == lock # None /\ lock.stamp \in {"empty", "old"}

\* The first attempt that finds a stale lock is about to remove it, the second
\* and an attempt that finds no stale lock give up.
FindLock(p) ==
  /\ lock # None
  /\ \/ run[p].at = "create" /\ Stale /\ Goes(p, "takeover")
     \/ /\ run[p].at = "again" \/ (run[p].at = "create" /\ ~Stale)
        /\ run' = [run EXCEPT ![p] = Idle]
  /\ UNCHANGED <<index, lock, dbs, disk, past, commands, troubles>>

\* The lock file is removed, whichever it is by now.
TakeOver(p) ==
  /\ run[p].at = "takeover"
  /\ robbed' = (robbed \/ AtWork)
  /\ lock' = None
  /\ Goes(p, "again")
  /\ UNCHANGED <<index, dbs, disk, blind, shared, damaged, cut, overwritten, commands, troubles>>

\* write_lock_metadata(), into the file that p made, which may be gone.
Stamp(p) ==
  /\ run[p].at = "stamp"
  /\ \/ /\ lock' = IF lock # None /\ lock.owner = p THEN [lock EXCEPT !.stamp = "fresh"] ELSE lock
        /\ Goes(p, "load")
        /\ UNCHANGED troubles
     \/ /\ Trouble
        /\ Ends(p, FALSE)
        /\ UNCHANGED lock
  /\ UNCHANGED <<index, dbs, disk, past, commands>>

\* kLockStaleSeconds pass.
Age ==
  /\ lock # None /\ lock.stamp = "fresh"
  /\ IF AtWork THEN Trouble ELSE UNCHANGED troubles
  /\ lock' = [lock EXCEPT !.stamp = "old"]
  /\ UNCHANGED <<index, dbs, disk, run, past, commands>>

\* The file db.lck is removed, and an install goes on with its queue.
Release(p) ==
  /\ run[p].at = "release"
  /\ robbed' = (robbed \/ (AtWork /\ lock.owner # p))
  /\ lock' = None
  /\ run' = IF run[p].ok /\ Len(run[p].queue) > 1
            THEN [run EXCEPT ![p].at = "fetch", ![p].queue = Tail(@)]
            ELSE [run EXCEPT ![p] = Idle]
  /\ UNCHANGED <<index, dbs, disk, blind, shared, damaged, cut, overwritten, commands, troubles>>

-----------------------------------------------------------------------------
(* Under the lock.                                                         *)

Owners(recs, f) == {i \in DOMAIN recs : f \in ToSet(recs[i].paths)}

\* owned_by_other() looks at the first record that has the path.
Owner(recs, f) ==
  IF Owners(recs, f) = {} THEN None
  ELSE recs[CHOOSE i \in Owners(recs, f) : \A j \in Owners(recs, f) : i =< j].name

NoConflict(item, f, recs) == FALSE

\* check_conflicts(): a path of another package, or an unowned file that
\* differs from the one in the archive.
Conflict(item, f, recs) ==
  \/ Owner(recs, f) \notin {None, item.name}
  \/ Owner(recs, f) = None /\ disk[f] \notin {None, item} /\ f \notin Library

\* What the process finds when it has the lock and reads the databases again.
MayInstall(p) ==
  /\ DepsIn(Pkg(p).name, installed)
  /\ run[p].force \/ \A f \in ToSet(Payload[Pkg(p).name][Pkg(p).version]) :
                         ~Conflict(Pkg(p), f, files)

MayUninstallAsBefore(p) == installed[Pkg(p).name] # 0

MayUninstall(p) ==
  /\ installed[Pkg(p).name] # 0
  /\ ~Required(Pkg(p).name, installed)

PathsOf(pkg, recs) ==
  IF \E i \in DOMAIN recs : recs[i].name = pkg
  THEN recs[CHOOSE i \in DOMAIN recs : recs[i].name = pkg].paths
  ELSE <<>>

\* remove_files_record()
Without(pkg, recs) ==
  IF \E i \in DOMAIN recs : recs[i].name = pkg
  THEN RemoveAt(recs, CHOOSE i \in DOMAIN recs : recs[i].name = pkg)
  ELSE recs

\* update_db_for_package() keeps the place of a record that there is.
Recorded(pkg, paths, recs) ==
  IF \E i \in DOMAIN recs : recs[i].name = pkg
  THEN [i \in DOMAIN recs |->
          IF recs[i].name = pkg THEN [name |-> pkg, paths |-> paths] ELSE recs[i]]
  ELSE Append(recs, [name |-> pkg, paths |-> paths])

HasButLast(p, at, paths) ==
  [run[p] EXCEPT !.at = IF Len(paths) < 2 THEN "empty installed" ELSE at, !.left = paths]

\* p has to do with these paths; after the last one it writes the databases.
Has(p, at, paths) == [run[p] EXCEPT !.at = IF paths = <<>> THEN "empty installed" ELSE at,
                                    !.left = paths]

LoadInstall(p) ==
  LET item == Pkg(p)
      paths == Payload[item.name][item.version]
  IN  /\ run[p].at = "load" /\ run[p].does = "install"
      /\ \/ /\ MayInstall(p)
            /\ run' = [run EXCEPT ![p] =
                 [Has(p, "copy", paths) EXCEPT
                    !.inst = [installed EXCEPT ![item.name] = item.version],
                    !.recs = Recorded(item.name, paths, files)]]
            /\ shared' = shared \cup {f \in ToSet(paths) : run[p].force /\ Conflict(item, f, files)}
            /\ UNCHANGED troubles
         \/ /\ \/ ~MayInstall(p) /\ UNCHANGED troubles
               \/ MayInstall(p) /\ Trouble
            /\ Ends(p, FALSE)
            /\ UNCHANGED shared
      /\ UNCHANGED <<index, lock, dbs, disk, robbed, blind, damaged, cut, overwritten, commands>>

LoadUninstall(p) ==
  LET pkg == Pkg(p).name
      Erases == run' = [run EXCEPT ![p] =
                  [Has(p, "erase", PathsOf(pkg, files)) EXCEPT
                     !.inst = [installed EXCEPT ![pkg] = 0],
                     !.recs = Without(pkg, files)]]
  IN  /\ run[p].at = "load" /\ run[p].does = "uninstall"
      /\ \/ MayUninstall(p) /\ Erases /\ UNCHANGED <<blind, troubles>>
         \/ ~MayUninstall(p) /\ Ends(p, FALSE) /\ UNCHANGED <<blind, troubles>>
         \/ /\ installed[pkg] # 0 /\ Required(pkg, installed)
            /\ Trouble /\ blind' = TRUE
            /\ Erases
      /\ UNCHANGED <<index, lock, dbs, disk, robbed, shared, damaged, cut, overwritten, commands>>

\* A file of another package than the one that p works on.
Foreign(p, f) == disk[f] # None /\ disk[f].name # Pkg(p).name

MayTake(p, f) == run[p].force \/ f \in shared \cup Library

\* History: p is about to replace or to remove the file at f.
Touches(p, f) ==
  overwritten' = (overwritten \/ (Foreign(p, f) /\ ~MayTake(p, f)))

Victims(p, f) == IF Foreign(p, f) /\ MayTake(p, f) THEN {disk[f].name} ELSE {}

\* A file that is replaced is removed first; what a failure or a crash leaves.
Remains(p, f) == {disk[f], None, [name |-> Pkg(p).name, version |-> 0]}

\* copy_temp_into_place(), copy_file_replace(): a failure ends the command.
Copy(p) ==
  /\ run[p].at = "copy"
  /\ LET f == Head(run[p].left)
     IN  /\ Touches(p, f)
         /\ \/ /\ disk' = [disk EXCEPT ![f] = Pkg(p)]
               /\ run' = [run EXCEPT ![p] = Has(p, run[p].at, Tail(run[p].left))]
               /\ damaged' = damaged \cup Victims(p, f)
               /\ UNCHANGED troubles
            \/ /\ Trouble
               /\ \E c \in Remains(p, f) : disk' = [disk EXCEPT ![f] = c]
               /\ Ends(p, FALSE)
               /\ damaged' = damaged \cup Victims(p, f) \cup {Pkg(p).name}
  /\ UNCHANGED <<index, lock, dbs, robbed, blind, shared, cut, commands>>

\* remove_package_payload(): every path of the record, whosever file it is.
Erase(p) ==
  /\ run[p].at = "erase"
  /\ LET f == Head(run[p].left)
     IN  /\ Touches(p, f)
         /\ \/ /\ disk' = [disk EXCEPT ![f] = None]
               /\ run' = [run EXCEPT ![p] = Has(p, run[p].at, Tail(run[p].left))]
               /\ damaged' = damaged \cup Victims(p, f)
               /\ UNCHANGED troubles
            \/ /\ Trouble
               /\ Ends(p, FALSE)
               /\ damaged' = damaged \cup {Pkg(p).name}
               /\ UNCHANGED disk
  /\ UNCHANGED <<index, lock, dbs, robbed, blind, shared, cut, commands>>

-----------------------------------------------------------------------------
(* write_installed_db() and write_files_db(): replace_file() removes the   *)
(* old file before it writes the new one.  A missing file is an empty one. *)

Fails(p) ==
  /\ Trouble
  /\ Ends(p, FALSE)
  /\ cut' = TRUE

EmptyInstalled(p) ==
  /\ run[p].at = "empty installed"
  /\ \/ installed' = Nothing /\ Goes(p, "write installed") /\ UNCHANGED <<cut, damaged, troubles>>
     \/ Fails(p) /\ damaged' = damaged \cup {Pkg(p).name} /\ UNCHANGED installed
  /\ UNCHANGED <<index, lock, files, disk, robbed, blind, shared, overwritten, commands>>

WriteInstalled(p) ==
  /\ run[p].at = "write installed"
  /\ \/ /\ installed' = run[p].inst
        /\ Goes(p, "empty files")
        /\ damaged' = damaged \ {Pkg(p).name}
        /\ UNCHANGED <<cut, troubles>>
     \/ /\ Fails(p)
        /\ damaged' = damaged \cup {Pkg(p).name}
        /\ UNCHANGED installed
  /\ UNCHANGED <<index, lock, files, disk, robbed, blind, shared, overwritten, commands>>

EmptyFiles(p) ==
  /\ run[p].at = "empty files"
  /\ \/ files' = <<>> /\ Goes(p, "write files") /\ UNCHANGED <<cut, troubles>>
     \/ Fails(p) /\ UNCHANGED files
  /\ UNCHANGED <<index, lock, installed, disk, robbed, blind, shared, damaged, overwritten, commands>>

WriteFiles(p) ==
  /\ run[p].at = "write files"
  /\ \/ files' = run[p].recs /\ Ends(p, TRUE) /\ UNCHANGED <<cut, troubles>>
     \/ Fails(p) /\ UNCHANGED files
  /\ UNCHANGED <<index, lock, installed, disk, robbed, blind, shared, damaged, overwritten, commands>>

-----------------------------------------------------------------------------
\* A process ends wherever it is; its lock file stays.
Crash(p) ==
  /\ run[p].at \in Locked
  /\ Trouble
  /\ run' = [run EXCEPT ![p] = Idle]
  /\ cut' = (cut \/ run[p].at \in Changing \ {"copy", "erase"})
  /\ IF run[p].at \in Changing \ {"empty files", "write files"}
     THEN damaged' = damaged \cup {Pkg(p).name}
     ELSE UNCHANGED damaged
  /\ UNCHANGED <<index, lock, dbs, disk, robbed, blind, shared, overwritten, commands>>

\* It ends while it replaces a file.
CrashInCopy(p) ==
  /\ run[p].at = "copy"
  /\ Trouble
  /\ LET f == Head(run[p].left)
     IN  /\ Touches(p, f)
         /\ \E c \in Remains(p, f) : disk' = [disk EXCEPT ![f] = c]
         /\ damaged' = damaged \cup Victims(p, f) \cup {Pkg(p).name}
  /\ run' = [run EXCEPT ![p] = Idle]
  /\ UNCHANGED <<index, lock, dbs, robbed, blind, shared, cut, commands>>

\* update_index(), after a repository has published a new version.
UpdateIndex(pkg) ==
  /\ index[pkg] < MaxVersion
  /\ index' = [index EXCEPT ![pkg] = @ + 1]
  /\ UNCHANGED <<lock, dbs, disk, run, past, commands, troubles>>

Step(p) ==
  \/ \E pkg \in Packages : Install(p, pkg) \/ Uninstall(p, pkg)
  \/ Fetch(p) \/ CreateLock(p) \/ FindLock(p) \/ TakeOver(p) \/ Stamp(p) \/ Release(p)
  \/ LoadInstall(p) \/ LoadUninstall(p) \/ Copy(p) \/ Erase(p)
  \/ EmptyInstalled(p) \/ WriteInstalled(p) \/ EmptyFiles(p) \/ WriteFiles(p)
  \/ Crash(p) \/ CrashInCopy(p)

Next == Age \/ (\E p \in Procs : Step(p)) \/ (\E pkg \in Published : UpdateIndex(pkg))

Spec == Init /\ [][Next]_vars

-----------------------------------------------------------------------------
(* Properties.  Each supposes that no lock was taken from a process that   *)
(* was at work.                                                            *)

Changes(p, q) == run[p].at \in Changing /\ Pkg(p).name = q

\* A package that install.db lists is there, every file in the version that is
\* recorded, unless it is being changed, its last change was cut short or
\* another package was forced over it: crashes, failed steps and the order of
\* the writes never record what is not on the disk (neupak.cpp:2634-2690, 2531-2590).
RecordedIsThere ==
  ~robbed =>
    \A q \in Packages \ damaged :
      installed[q] # 0 /\ (\A p \in Procs : ~Changes(p, q)) =>
        \A f \in ToSet(Payload[q][installed[q]]) :
          disk[f] = [name |-> q, version |-> installed[q]]

\* Without force nobody replaces or removes a file of another package, also
\* when the databases that say so were lost in a crash (neupak.cpp:2076-2174).
NothingOverwritten == ~robbed => ~overwritten

\* What an installed package needs is installed, while installs, upgrades and
\* uninstalls run side by side (neupak.cpp:2440-2485).
DependenciesInstalled ==
  ~robbed /\ ~blind =>
    \A q \in Packages : installed[q] # 0 => DepsIn(q, installed)

\* Between commands both databases list the same packages, if no writing of
\* them was cut short (neupak.cpp:2350-2385, 1587-1609).
DatabasesAgree ==
  ~robbed /\ ~cut /\ (\A p \in Procs : run[p].at \notin Changing) =>
    {files[i].name : i \in DOMAIN files} = {q \in Packages : installed[q] # 0}

\* What is recorded is on the disk and nobody else's: whatever step fails or is
\* cut short, no package is recorded in a version that is not there whole, and
\* none loses a file to another (neupak.cpp:523-533, 2076-2174, 2316-2385).
FilesAsRecorded == TypeOK /\ RecordedIsThere /\ NothingOverwritten

\* Both databases speak of the same packages, and what these need is among them
\* (neupak.cpp:1587-1609, 2350-2385, 2440-2485).
DatabasesConsistent == DatabasesAgree /\ DependenciesInstalled
=============================================================================
