------------------------------ MODULE Installer -----------------------------
(***************************************************************************)
(* The installer of the live system, neutrino-installer/src/installer.cpp: *)
(* the questions, and the steps that make a disk bootable, each of which   *)
(* may fail and end the installation where it is.  Another disk, or the    *)
(* same, may be tried after that.  What packages hold and how disks are    *)
(* laid out is left out.                       *)
(***************************************************************************)
EXTENDS Naturals, Sequences, SequencesExt, FiniteSets

CONSTANTS
  Devices,      \* block devices that are found, in order
  Kind,         \* of each: "disk", "readonly", "memdisk", "usb", "partition"
  Drivers,      \* kDriverPackages
  MaxTries      \* bound: installations that are begun

InstallerAssumption ==
  /\ Devices \in Seq(STRING) /\ IsInjective(Devices) /\ MaxTries \in Nat
  /\ Kind \in [ToSet(Devices) -> {"disk", "readonly", "memdisk", "usb", "partition"}]

VARIABLES
  at,       \* "drive", "erase", "filesystem", "password", "install", "again", "end"
  choice, fs, step,  \* the disk, "neufs" or "fat32", steps done
  disk,     \* what is on each disk
  loaded,   \* drivers that the live system has loaded now
  password, \* root's password of the live system: how often it was set
  report,   \* what the user was told of each disk
  agreed    \* history: disks that the user said may be erased

vars == <<at, choice, fs, step, disk, loaded, password, report, agreed>>

Names == ToSet(Devices)

EveryDevice == Devices

\* collect_install_targets(): whole disks that the system does not live on.
Targets == SelectSeq(Devices, LAMBDA d : Kind[d] \in {"disk", "readonly"})

Gpt == {"mbr", "entries", "backup entries", "header", "backup header"}

Old == [touched |-> FALSE, gpt |-> {}, esp |-> "old", config |-> "old", root |-> "old",
        repos |-> "none", packages |-> {}, loads |-> {"none"}, home |-> FALSE, users |-> 0,
        installer |-> FALSE]

TypeOK ==
  /\ at \in {"drive", "erase", "filesystem", "password", "install", "again", "end"}
  /\ choice \in Names /\ fs \in {"neufs", "fat32"} /\ step \in 0..30
  /\ loaded \subseteq Drivers /\ password \in Nat /\ agreed \subseteq Names
  /\ \A d \in Names : disk[d].gpt \subseteq Gpt /\ disk[d].repos \in {"none", "offline", "online"}
  /\ report \in [Names -> {"none", "installed", "failed"}]

Init ==
  /\ at = (IF (\E d \in Names : Kind[d] = "memdisk") /\ Targets # <<>> THEN "drive" ELSE "end")
  /\ choice = Devices[1] /\ fs = "neufs" /\ step = 0
  /\ disk = [d \in Names |-> Old]
  /\ loaded \in SUBSET Drivers /\ password = 0
  /\ report = [d \in Names |-> "none"] /\ agreed = {}

-----------------------------------------------------------------------------
(* The questions.                                                          *)

\* An index of a drive that cannot be written is refused, and asked for again.
ChooseDrive ==
  /\ at = "drive" /\ password < MaxTries
  /\ \/ at' = "end" /\ UNCHANGED choice
     \/ \E i \in DOMAIN Targets :
          Kind[Targets[i]] # "readonly" /\ choice' = Targets[i] /\ at' = "erase"
  /\ UNCHANGED <<fs, step, disk, loaded, password, report, agreed>>

ConfirmErase ==
  /\ at = "erase"
  /\ \/ at' = "drive" /\ UNCHANGED agreed
     \/ at' = "filesystem" /\ agreed' = agreed \cup {choice}
  /\ UNCHANGED <<choice, fs, step, disk, loaded, password, report>>

ChooseFilesystem ==
  /\ at = "filesystem" /\ at' = "password" /\ fs' \in {"neufs", "fat32"}
  /\ UNCHANGED <<choice, step, disk, loaded, password, report, agreed>>

\* The account of the live system gets the password; without it, no install.
\* What was said of the disk before is over then.
ProvisionRootPassword ==
  /\ at = "password" /\ step' = 0
  /\ \/ at' = "drive" /\ UNCHANGED <<password, report>>
     \/ /\ at' = "install" /\ password' = password + 1
        /\ report' = [report EXCEPT ![choice] = "none"]
  /\ UNCHANGED <<choice, fs, disk, loaded, agreed>>

Again ==
  /\ at = "again" /\ at' \in {"drive", "end"}
  /\ UNCHANGED <<choice, fs, step, disk, loaded, password, report, agreed>>

-----------------------------------------------------------------------------
(* The steps, and what each does to the disk.                              *)

NeufsSteps ==
  <<"open", "mbr", "entries", "backup entries", "header", "backup header", "esp", "rescan", "config",
    "zero", "structures", "mount", "offline", "index", "system", "offline", "index", "drivers",
    "loads", "online", "home", "users">>

Fat32Steps == <<"open", "image", "mount", "prune", "loads", "users", "no installer">>

Steps == IF fs = "neufs" THEN NeufsSteps ELSE Fat32Steps

RepositoriesRestored(r) == [r EXCEPT !.repos = "online"]

\* The disk r with step s done; the drivers are those seen when it began.
Done(s, r) ==
  CASE s \in Gpt -> [r EXCEPT !.touched = TRUE, !.gpt = @ \cup {s}]
    [] s = "esp" -> [r EXCEPT !.esp = "image", !.config = "old"]
    [] s = "config" -> [r EXCEPT !.config = "this disk"]
    [] s = "structures" -> [Old EXCEPT !.touched = TRUE, !.gpt = r.gpt, !.esp = r.esp,
                                       !.config = r.config, !.root = "neufs"]
    [] s = "offline" -> [r EXCEPT !.repos = "offline"]
    [] s = "system" -> [r EXCEPT !.packages = @ \cup {"neutrino-live"}, !.repos = "online"]
    [] s = "drivers" -> [r EXCEPT !.packages = @ \cup loaded]
    [] s = "loads" -> [r EXCEPT !.loads = r.packages \cap Drivers]
    [] s = "online" -> RepositoriesRestored(r)
    [] s = "home" -> [r EXCEPT !.home = TRUE]
    [] s = "users" -> [r EXCEPT !.users = password]
    [] s = "image" -> [Old EXCEPT !.touched = TRUE, !.gpt = Gpt, !.esp = "image", !.root = "fat32",
                                  !.config = "image", !.repos = "online", !.home = TRUE,
                                  !.packages = {"neutrino-live"} \cup Drivers, !.installer = TRUE]
    [] s = "prune" -> [r EXCEPT !.packages = {"neutrino-live"} \cup loaded]
    [] s = "no installer" -> [r EXCEPT !.installer = FALSE]
    [] OTHER -> r

\* What the disk may be when step s has failed.
Broken(s, r) ==
  CASE s = "esp" -> {[r EXCEPT !.esp = "part"]}
    [] s = "config" -> {r, [r EXCEPT !.config = "part"]}
    [] s \in {"zero", "structures"} -> {[r EXCEPT !.root = "part"]}
    [] s \in {"offline", "online"} -> {r, [r EXCEPT !.repos = "none"]}
    [] s = "drivers" -> {[r EXCEPT !.packages = @ \cup some] : some \in SUBSET loaded}
    [] s = "loads" -> {[r EXCEPT !.loads = {"none"}]}
    [] s = "users" -> {[r EXCEPT !.users = 0]}
    [] s = "image" -> {[Old EXCEPT !.touched = TRUE]}
    [] OTHER -> {r}

Begins == Steps[step + 1]

\* Packages come from the medium: the index of another repository has none.
Possible ==
  Begins \in {"system", "drivers", "index"} => disk[choice].repos = "offline"

DoStep ==
  /\ at = "install" /\ Possible
  /\ disk' = [disk EXCEPT ![choice] = Done(Begins, @)]
  /\ step' = step + 1
  /\ report' = [report EXCEPT ![choice] = IF step + 1 = Len(Steps) THEN "installed" ELSE "none"]
  /\ at' = IF step + 1 = Len(Steps) THEN "again" ELSE "install"
  /\ UNCHANGED <<choice, fs, loaded, password, agreed>>

FailStep ==
  /\ at = "install"
  /\ \E r \in Broken(Begins, disk[choice]) : disk' = [disk EXCEPT ![choice] = r]
  /\ report' = [report EXCEPT ![choice] = "failed"]
  /\ at' = "again"
  /\ UNCHANGED <<choice, fs, step, loaded, password, agreed>>

\* A driver may be loaded while the installer asks.
LoadDriver(d) ==
  /\ at \in {"drive", "password"} /\ d \notin loaded
  /\ loaded' = loaded \cup {d}
  /\ UNCHANGED <<at, choice, fs, step, disk, password, report, agreed>>

Next ==
  \/ ChooseDrive \/ ConfirmErase \/ ChooseFilesystem \/ ProvisionRootPassword \/ Again
  \/ DoStep \/ FailStep \/ \E d \in Drivers : LoadDriver(d)

Spec == Init /\ [][Next]_vars

-----------------------------------------------------------------------------
\* A disk of which the installer says that it is done boots by itself: both
\* partition tables, an entry for this disk, the system, just the drivers it
\* lists, the repositories of the network, and the password of this
\* installation; nothing is left of an attempt before.
InstalledIsWhole ==
  \A d \in Names : report[d] = "installed" =>
    /\ disk[d].gpt = Gpt /\ disk[d].esp = "image" 
    /\ <<disk[d].root, disk[d].config>> \in {<<"neufs", "this disk">>, <<"fat32", "image">>}
    /\ disk[d].home /\ ~disk[d].installer
    /\ "neutrino-live" \in disk[d].packages /\ disk[d].repos = "online"
    /\ disk[d].loads = disk[d].packages \cap Drivers
    /\ disk[d].users > 0

\* Only what the user agreed to is written.
OnlyAgreed ==
  \A d \in Names : disk[d].touched => d \in agreed /\ Kind[d] = "disk" /\ password > 0
=============================================================================
