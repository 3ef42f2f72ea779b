------------------------------ MODULE MCNeupak ------------------------------
(* Instances of Neupak and of Archive for TLC: one run explores each by      *)
(* itself, "part" saying which.                                             *)
EXTENDS Neupak, TLC

VARIABLES
  part,
  \* The variables of Archive, in its order; 0 in the other part.
  a1, a2, a3, a4, a5, a6, a7, a8, a9, a10, a11, a12, a13, a14

late == <<a1, a2, a3, a4, a5, a6, a7, a8, a9, a10, a11, a12, a13, a14>>

------------------------------------------------------------------------------
\* An application and the library it needs, of which the second version brings
\* a file that the application has too.
CONSTANTS app, lib, exe, so, p1, p2

MCPayload ==
  (app :> [v \in 1..MaxVersion |-> <<exe>>]) @@
  (lib :> [v \in 1..MaxVersion |-> IF v = 1 THEN <<so>> ELSE <<so, exe>>])

MCDeps == (app :> <<lib>>) @@ (lib :> <<>>)

Symmetry == Permutations(Procs)

------------------------------------------------------------------------------
\* An application, of which another build of the same version is published
\* later, its library from another repository, which has the same hash, and a
\* kernel; archives at hand that have a file twice and two sizes for one.
Header(kind, path, csize, usize) == [kind |-> kind, path |-> path, csize |-> csize, usize |-> usize, compressed |-> FALSE]
Cell(d) == [kind |-> "data", data |-> d]
Section(name, version, depends, strategy, sum) ==
  [name |-> name, version |-> version, depends |-> depends, strategy |-> strategy, sum |-> sum]
Manifest(s) == <<Header("manifest", "manifest", 1, 1), Cell([s EXCEPT !.sum = None])>>
File(path, d) == <<Header("file", path, 1, 1), Cell(d)>>
End == <<[kind |-> "end"]>>

App1 == Section("app", 1, <<"lib">>, "over_root", "app1")
App1b == Section("app", 1, <<"lib">>, "over_root", "app1b")
App2 == Section("app", 2, <<"lib">>, "over_root", "app2")
Lib1 == Section("lib", 1, <<>>, "over_root", "lib1")
Kern == Section("kern", 1, <<>>, "over_boot", "kern")

Zips ==
  ("app1" :> File("/exe", "a1") \o Manifest(App1) \o File("/data", "d1") \o End) @@
  ("app1b" :> Manifest(App1b) \o File("/exe", "a2") \o File("/data", "d1") \o End) @@
  ("lib1" :> Manifest(Lib1) \o <<Header("dir", "/library", 0, 0)>> \o File("/so", "l1") \o End) @@
  ("kern" :> Manifest(Kern) \o File("/boot/kernel.elf", "k1")) @@
  ("odd"  :> Manifest(App2) \o <<Header("file", "/exe", 1, 3), Cell("x")>> \o File("/data", "y") \o End) @@
  ("twice" :> Manifest(App2) \o File("/exe", "a") \o File("/exe", "b") \o End)


Zipped == INSTANCE Archive WITH
  Names <- {"app", "lib", "kern"}, Paths <- {"/exe", "/data", "/so"},
  Editions <- <<<<<<App1, Kern>>, <<App1b, Kern>>>>, <<<<Lib1>>>>>>,
  Archives <- Zips, Hash <- [n \in {"app", "lib", "kern"} |-> IF n = "kern" THEN "h2" ELSE "h1"],
  Delivered <- {{}, {"lib1"}, {"lib1", "app1"}}, Locals <- {"odd", "twice", "lib1"}, kMaxFiles <- 2,
  MaxCommands <- 2, MaxTroubles <- 2,
  edition <- a1, indexes <- a2, cache <- a3, manifest <- a4, temp <- a5, lock <- a6, root <- a7,
  boot <- a8, installed <- a9, run <- a10, cut <- a11, buried <- a12, commands <- a13, troubles <- a14

ASSUME Zipped!ArchiveAssumption

------------------------------------------------------------------------------
PartsInit ==
  /\ Init
  /\ \/ part = "archive" /\ Zipped!Init
     \/ /\ part = "databases"
        /\ a1 = 0 /\ a2 = 0 /\ a3 = 0 /\ a4 = 0 /\ a5 = 0 /\ a6 = 0 /\ a7 = 0
        /\ a8 = 0 /\ a9 = 0 /\ a10 = 0 /\ a11 = 0 /\ a12 = 0 /\ a13 = 0 /\ a14 = 0

PartsNext ==
  \/ part = "databases" /\ Next /\ UNCHANGED <<part, late>>
  \/ part = "archive" /\ Zipped!Next /\ UNCHANGED <<part, vars>>

PartsSpec == PartsInit /\ [][PartsNext]_<<part, vars, late>>

\* The files are those of the archive that was asked for, over four passes
\* through a file that may be cut, left over or of another package
\* (neupak.cpp:1778-2066, 2177-2346); what a package needs by its own manifest is
\* installed (neupak.cpp:1014-1050), and a kernel to start from is never lost
\* (neupak.cpp:2326-2343).
ArchivesTrue ==
  part = "archive" =>
    Zipped!TypeOK /\ Zipped!InstalledAsVerified /\ Zipped!NeedsAreThere /\ Zipped!KernelKept
=============================================================================
