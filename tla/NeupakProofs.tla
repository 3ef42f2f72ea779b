---------------------------- MODULE NeupakProofs ----------------------------
(* For any number of processes, packages, versions and troubles: what neupak *)
(* records is on the disk and nobody else's, and what a package needs is     *)
(* there, as long as no lock is taken from a process at work.                *)
EXTENDS Neupak, WellFoundedInduction, TLAPS

ActiveProcess ==
  [at : Before \cup Locked, does : {"install", "uninstall"}, force : BOOLEAN,
   queue : Seq(Item), inst : [Packages -> 0..MaxVersion], recs : Seq(Record),
   left : Seq(Paths), ok : BOOLEAN]

Active(p) == run[p].at \in Before \cup Locked
Working(p) == run[p].at \in Changing

Names(recs) == {recs[i].name : i \in DOMAIN recs}
Present(inst) == {q \in Packages : inst[q] # 0}
OneEach(recs) == \A i, j \in DOMAIN recs : recs[i].name = recs[j].name => i = j

\* Paths that nobody may take from their package.
Guarded == Paths \ (shared \cup Library)

\* The records do not share a guarded path, and no file of another package is
\* at one.
Clear(recs) ==
  \A f \in Guarded, i \in DOMAIN recs : f \in ToSet(recs[i].paths) =>
    /\ disk[f] = None \/ disk[f].name = recs[i].name
    /\ \A j \in DOMAIN recs : f \in ToSet(recs[j].paths) => recs[j].name = recs[i].name

Closed(inst) == \A q \in Packages : inst[q] # 0 => DepsIn(q, inst)

\* The files of q are those of the version that inst has.
Whole(inst, q) ==
  inst[q] # 0 => \A f \in ToSet(Payload[q][inst[q]]) : disk[f] = [name |-> q, version |-> inst[q]]

\* Where the databases are, between those of before and those that p writes.
Written(p) ==
  CASE run[p].at \in {"copy", "erase", "empty installed"} ->
         /\ \A q \in Packages \ {Pkg(p).name} : run[p].inst[q] = installed[q]
         /\ cut \/ Names(files) = Present(installed)
    [] run[p].at = "write installed" -> installed = Nothing
    [] OTHER -> installed = run[p].inst

\* The guarded paths that p has to do with are those of its package, by both
\* the old and the new records.
Mine(p) ==
  \A f \in ToSet(run[p].left) \cap Guarded :
    /\ disk[f] = None \/ disk[f].name = Pkg(p).name
    /\ \A i \in DOMAIN files : f \in ToSet(files[i].paths) => files[i].name = Pkg(p).name
    /\ \A i \in DOMAIN run[p].recs :
         f \in ToSet(run[p].recs[i].paths) => run[p].recs[i].name = Pkg(p).name

\* What is to be recorded of the package is on the disk, but for the paths left.
Placed(p) ==
  LET item == Pkg(p) IN
  IF run[p].does = "install"
  THEN /\ run[p].inst[item.name] = item.version
       /\ \A f \in ToSet(Payload[item.name][item.version]) \ ToSet(run[p].left) : disk[f] = item
  ELSE run[p].inst[item.name] = 0

Plan(p) ==
  /\ run[p].at \notin {"copy", "erase"} => run[p].left = <<>>
  /\ run[p].at = "erase" => run[p].does = "uninstall"
  /\ Written(p) /\ Mine(p) /\ Placed(p)
  /\ Clear(run[p].recs)
  /\ cut \/ Names(run[p].recs) = Present(run[p].inst)
  /\ blind \/ Closed(run[p].inst)
  /\ \A q \in Packages \ (damaged \cup {Pkg(p).name}) : Whole(run[p].inst, q)

\* The lock is the lock of whoever is at work.
Alone == \A p \in Procs : run[p].at \in Locked => lock # None /\ lock.owner = p

QueuesUp == \A p \in Procs : Active(p) => run[p].queue # <<>>

\* p has a path left while it works on paths, and its records are one of each.
Tidy(x) ==
  /\ x.at \in {"copy", "erase"} => x.left # <<>>
  /\ x.at \in Before \cup Locked => OneEach(x.recs)

Tidied == \A p \in Procs : Tidy(run[p])

\* What is recorded, what is on the disk and what is under way belong together.
Sound ==
  /\ ~overwritten /\ Clear(files)
  /\ RecordedIsThere /\ DatabasesAgree /\ DependenciesInstalled
  /\ \A p \in Procs : Working(p) => Plan(p)

IInv ==
  /\ TypeOK /\ QueuesUp /\ Tidied
  /\ ~robbed => Alone /\ Sound

-----------------------------------------------------------------------------
(* Lemmas about sequences, records and processes.                          *)

\* The first of some indices.
LEMMA FirstIs ==
  ASSUME NEW S \in SUBSET Nat, S # {}
  PROVE  \E i \in S : \A j \in S : i =< j
<1> DEFINE R == OpToRel(<, Nat)
<1>1. IsWellFoundedOn(R, Nat)
  BY NatLessThanWellFounded
<1>2. \A i, j \in Nat : <<j, i>> \in R <=> j < i
  BY DEF OpToRel
<1> HIDE DEF R
<1>3. PICK i \in S : \A j \in S : ~ (<<j, i>> \in R)
  BY <1>1, WFMin, Zenon
<1>4. \A j \in S : j \in Nat /\ i \in Nat /\ ~(j < i)
  BY <1>2, <1>3
<1> QED
  BY <1>4

LEMMA Tailed ==
  ASSUME NEW S, NEW q \in Seq(S), q # <<>>
  PROVE  /\ Tail(q) \in Seq(S) /\ Head(q) \in S /\ Len(q) \in Nat
         /\ Head(q) \in ToSet(q) /\ ToSet(q) = {Head(q)} \cup ToSet(Tail(q))
         /\ Len(q) > 1 => Tail(q) # <<>>
<1> DEFINE t == Tail(q)
<1>1. /\ t \in Seq(S) /\ Len(t) = Len(q) - 1 /\ Len(q) \in Nat \ {0}
      /\ Head(q) \in S /\ Head(q) = q[1]
      /\ \A i \in 1..(Len(q) - 1) : t[i] = q[i + 1]
  OBVIOUS
<1>2. DOMAIN t = 1..(Len(q) - 1) /\ DOMAIN q = 1..Len(q)
  BY <1>1
<1> HIDE DEF t
<1>3. \A i \in 1..Len(q) : i = 1 \/ (i - 1 \in 1..(Len(q) - 1) /\ (i - 1) + 1 = i)
  BY <1>1
<1>4. ToSet(q) \subseteq {Head(q)} \cup ToSet(t)
  <2> SUFFICES ASSUME NEW x \in ToSet(q) PROVE x \in {Head(q)} \cup ToSet(t)
    OBVIOUS
  <2>1. PICK i \in 1..Len(q) : x = q[i]
    BY <1>2 DEF ToSet
  <2>2. i = 1 \/ (i - 1 \in DOMAIN t /\ t[i - 1] = q[i])
    BY <1>1, <1>2, <1>3
  <2> QED
    BY <1>1, <2>1, <2>2 DEF ToSet
<1>5. \A i \in 1..(Len(q) - 1) : i + 1 \in 1..Len(q)
  BY <1>1
<1>6. ToSet(t) \subseteq ToSet(q)
  BY <1>1, <1>2, <1>5 DEF ToSet
<1>7. Head(q) \in ToSet(q)
  BY <1>1, <1>2 DEF ToSet
<1>8. Len(q) > 1 => t # <<>>
  BY <1>1
<1> QED
  BY <1>1, <1>4, <1>6, <1>7, <1>8 DEF t

LEMMA Removed ==
  ASSUME NEW S, NEW q \in Seq(S), NEW k \in DOMAIN q
  PROVE  LET r == RemoveAt(q, k) IN
         /\ r \in Seq(S) /\ DOMAIN r = 1..(Len(q) - 1) /\ Len(q) \in Nat
         /\ \A i \in 1..(Len(q) - 1) : r[i] = IF i =< k - 1 THEN q[i] ELSE q[i + 1]
<1> DEFINE f == SubSeq(q, 1, k - 1)
           g == SubSeq(q, k + 1, Len(q))
<1>1. /\ f \in Seq(S) /\ Len(f) = k - 1 /\ \A i \in 1..(k - 1) : f[i] = q[i]
      /\ k \in 1..Len(q) /\ Len(q) \in Nat
  OBVIOUS
<1>2. /\ g \in Seq(S) /\ Len(g) = Len(q) - k /\ \A i \in 1..(Len(q) - k) : g[i] = q[k + i]
  OBVIOUS
<1>3. RemoveAt(q, k) = f \o g
  BY DEF RemoveAt
<1> HIDE DEF f, g
<1>4. f \o g \in Seq(S) /\ Len(f \o g) = Len(q) - 1
  BY <1>1, <1>2
<1>5. \A i \in 1..(Len(q) - 1) : (f \o g)[i] = IF i =< k - 1 THEN q[i] ELSE q[i + 1]
  <2> TAKE i \in 1..(Len(q) - 1)
  <2>1. CASE i =< k - 1
    BY <2>1, <1>1, <1>2
  <2>2. CASE ~(i =< k - 1)
    <3>1. (f \o g)[i] = g[i - (k - 1)] /\ i - (k - 1) \in 1..(Len(q) - k)
      BY <2>2, <1>1, <1>2
    <3>2. g[i - (k - 1)] = q[k + (i - (k - 1))] /\ k + (i - (k - 1)) = i + 1
      BY <3>1, <1>1, <1>2
    <3> QED
      BY <2>2, <3>1, <3>2
  <2> QED
    BY <2>1, <2>2
<1>6. DOMAIN (f \o g) = 1..(Len(q) - 1)
  BY <1>4, <1>1
<1> QED
  BY <1>1, <1>3, <1>4, <1>5, <1>6

\* Records without those of a package (neupak.cpp:1599-1609).
LEMMA WithoutIs ==
  ASSUME NEW recs \in Seq(Record), OneEach(recs), NEW pkg \in Packages
  PROVE  LET w == Without(pkg, recs) IN
         /\ w \in Seq(Record) /\ OneEach(w)
         /\ \A i \in DOMAIN w : w[i].name # pkg /\ \E j \in DOMAIN recs : w[i] = recs[j]
         /\ Names(w) = Names(recs) \ {pkg}
<1>1. CASE ~\E i \in DOMAIN recs : recs[i].name = pkg
  BY <1>1 DEF Without, Names
<1>2. CASE \E i \in DOMAIN recs : recs[i].name = pkg
  <2> DEFINE k == CHOOSE i \in DOMAIN recs : recs[i].name = pkg
             w == RemoveAt(recs, k)
  <2>1. k \in DOMAIN recs /\ recs[k].name = pkg
    BY <1>2
  <2>2. Without(pkg, recs) = w
    BY <1>2 DEF Without
  <2> HIDE DEF k
  <2>3. /\ w \in Seq(Record) /\ DOMAIN w = 1..(Len(recs) - 1) /\ Len(recs) \in Nat
        /\ \A i \in 1..(Len(recs) - 1) : w[i] = IF i =< k - 1 THEN recs[i] ELSE recs[i + 1]
    BY <2>1, Removed
  <2> HIDE DEF w
  <2> DEFINE Old(i) == IF i =< k - 1 THEN i ELSE i + 1
  <2>4. k \in 1..Len(recs) /\ DOMAIN recs = 1..Len(recs)
    BY <2>1
  <2>5. \A i \in 1..(Len(recs) - 1) : Old(i) \in 1..Len(recs) /\ Old(i) # k /\ w[i] = recs[Old(i)]
    BY <2>3, <2>4
  <2>6. \A i, j \in 1..(Len(recs) - 1) : Old(i) = Old(j) => i = j
    BY <2>3, <2>4
  <2>7. \A i \in 1..Len(recs) : i = k \/ \E j \in 1..(Len(recs) - 1) : Old(j) = i
    <3> SUFFICES ASSUME NEW i \in 1..Len(recs), i # k PROVE \E j \in 1..(Len(recs) - 1) : Old(j) = i
      OBVIOUS
    <3>1. CASE i < k
      BY <3>1, <2>3, <2>4
    <3>2. CASE i > k
      <4>1. i - 1 \in 1..(Len(recs) - 1) /\ Old(i - 1) = i
        BY <3>2, <2>3, <2>4
      <4> QED
        BY <4>1
    <3> QED
      BY <3>1, <3>2, <2>3, <2>4
  <2> HIDE DEF Old
  <2>8. OneEach(w)
    <3> SUFFICES ASSUME NEW i \in DOMAIN w, NEW j \in DOMAIN w, w[i].name = w[j].name PROVE i = j
      BY DEF OneEach
    <3>1. Old(i) = Old(j)
      BY <2>3, <2>4, <2>5 DEF OneEach
    <3> QED
      BY <3>1, <2>3, <2>6
  <2>9. \A i \in DOMAIN w : w[i].name # pkg /\ \E j \in DOMAIN recs : w[i] = recs[j]
    <3> TAKE i \in DOMAIN w
    <3>1. Old(i) \in DOMAIN recs /\ Old(i) # k /\ w[i] = recs[Old(i)]
      BY <2>3, <2>4, <2>5
    <3> QED
      BY <3>1, <2>1 DEF OneEach
  <2>10. \A i \in DOMAIN recs : recs[i].name # pkg => \E j \in DOMAIN w : w[j] = recs[i]
    <3> SUFFICES ASSUME NEW i \in DOMAIN recs, recs[i].name # pkg PROVE \E j \in DOMAIN w : w[j] = recs[i]
      OBVIOUS
    <3>1. PICK j \in 1..(Len(recs) - 1) : Old(j) = i
      BY <2>1, <2>4, <2>7
    <3> QED
      BY <3>1, <2>3, <2>5
  <2>11. Names(w) = Names(recs) \ {pkg}
    BY <2>9, <2>10 DEF Names
  <2> QED
    BY <2>2, <2>3, <2>8, <2>9, <2>11
<1> QED
  BY <1>1, <1>2

\* Records with the paths of a package (neupak.cpp:2350-2385).
LEMMA RecordedIs ==
  ASSUME NEW recs \in Seq(Record), OneEach(recs), NEW pkg \in Packages, NEW paths \in Seq(Paths)
  PROVE  LET r == Recorded(pkg, paths, recs) IN
         /\ r \in Seq(Record) /\ OneEach(r)
         /\ \A i \in DOMAIN r :
              IF r[i].name = pkg THEN r[i].paths = paths ELSE \E j \in DOMAIN recs : r[i] = recs[j]
         /\ Names(r) = Names(recs) \cup {pkg}
<1> DEFINE new == [name |-> pkg, paths |-> paths]
<1>0. new \in Record /\ new.name = pkg /\ new.paths = paths
  BY DEF Record
<1> HIDE DEF new
<1>1. CASE \E i \in DOMAIN recs : recs[i].name = pkg
  <2> DEFINE r == [i \in DOMAIN recs |-> IF recs[i].name = pkg THEN new ELSE recs[i]]
  <2>1. Recorded(pkg, paths, recs) = r
    BY <1>1 DEF Recorded, new
  <2>2. r \in Seq(Record) /\ DOMAIN r = DOMAIN recs
    BY <1>0
  <2>3. \A i \in DOMAIN recs : r[i] = IF recs[i].name = pkg THEN new ELSE recs[i]
    OBVIOUS
  <2> HIDE DEF r
  <2>4. \A i \in DOMAIN recs : r[i].name = recs[i].name
    BY <2>3, <1>0
  <2> QED
    BY <1>0, <1>1, <2>1, <2>2, <2>3, <2>4 DEF OneEach, Names
<1>2. CASE ~\E i \in DOMAIN recs : recs[i].name = pkg
  <2> DEFINE r == Append(recs, new)
  <2>1. Recorded(pkg, paths, recs) = r
    BY <1>2 DEF Recorded, new
  <2>2. /\ r \in Seq(Record) /\ DOMAIN r = DOMAIN recs \cup {Len(recs) + 1} /\ Len(recs) + 1 \notin DOMAIN recs
        /\ r[Len(recs) + 1] = new /\ \A i \in DOMAIN recs : r[i] = recs[i]
    BY <1>0
  <2> HIDE DEF r
  <2>3. \A i \in DOMAIN r : IF i \in DOMAIN recs THEN r[i] = recs[i] ELSE i = Len(recs) + 1 /\ r[i] = new
    BY <2>2
  <2>4. OneEach(r)
    BY <2>2, <2>3, <1>0, <1>2 DEF OneEach
  <2>5. Names(r) = Names(recs) \cup {pkg}
    BY <2>2, <2>3, <1>0 DEF Names
  <2>6. \A i \in DOMAIN r :
          IF r[i].name = pkg THEN r[i].paths = paths ELSE \E j \in DOMAIN recs : r[i] = recs[j]
    BY <2>2, <2>3, <1>0, <1>2
  <2> QED
    BY <2>1, <2>2, <2>4, <2>5, <2>6
<1> QED
  BY <1>1, <1>2

\* Without a conflict every record with a guarded path is of the package.
LEMMA NoConflictIs ==
  ASSUME TypeOK, Clear(files), NEW item \in Item, NEW f \in Paths, f \notin shared \cup Library,
         ~Conflict(item, f, files)
  PROVE  /\ disk[f] = None \/ disk[f].name = item.name
         /\ \A i \in DOMAIN files : f \in ToSet(files[i].paths) => files[i].name = item.name
<1>1. CASE Owners(files, f) = {}
  <2>1. disk[f] \in {None, item}
    BY <1>1 DEF Conflict, Owner
  <2> QED
    BY <1>1, <2>1 DEF Owners
<1>2. CASE Owners(files, f) # {}
  <2>1. Owners(files, f) \in SUBSET Nat
    BY DEF Owners, TypeOK
  <2> DEFINE First == CHOOSE i \in Owners(files, f) : \A j \in Owners(files, f) : i =< j
  <2>2. First \in Owners(files, f)
    BY <1>2, <2>1, FirstIs
  <2>3. Owner(files, f) = files[First].name
    BY <1>2 DEF Owner
  <2> HIDE DEF First
  <2>4. First \in DOMAIN files /\ f \in ToSet(files[First].paths) /\ files[First] \in Record
    BY <2>2 DEF Owners, TypeOK
  <2>5. files[First].name = item.name
    BY <2>3, <2>4, NeupakAssumption DEF Conflict, Record
  <2> QED
    BY <2>4, <2>5 DEF Clear, Guarded
<1> QED
  BY <1>1, <1>2

LEMMA IdleIs == Idle.at = "idle" /\ "idle" \notin Before \cup Locked
  BY DEF Idle, Before, Locked, Changing

LEMMA ProcessIs ==
  ASSUME TypeOK, QueuesUp, NEW p \in Procs, Active(p)
  PROVE  /\ run[p] \in ActiveProcess /\ run[p].queue # <<>>
         /\ Pkg(p) \in Item /\ Pkg(p).name \in Packages /\ Pkg(p).version \in 1..MaxVersion
         /\ Pkg(p) = [name |-> Pkg(p).name, version |-> Pkg(p).version]
<1>1. run[p] \in ActiveProcess
  <2>1. run[p] \in {Idle} \cup ActiveProcess
    BY DEF TypeOK, Process, ActiveProcess
  <2>2. run[p] # Idle
    BY IdleIs DEF Active
  <2> QED
    BY <2>1, <2>2
<1>2. run[p].queue # <<>> /\ run[p].queue \in Seq(Item)
  BY <1>1 DEF QueuesUp, ActiveProcess
<1>3. Pkg(p) \in Item
  BY <1>2 DEF Pkg
<1> QED
  BY <1>1, <1>2, <1>3 DEF Item

\* p becomes x, the others stay what they are.
Becomes(p, x) == run' = [run EXCEPT ![p] = x]

LEMMA BecomesIs ==
  ASSUME TypeOK, QueuesUp, NEW p \in Procs, NEW x, Becomes(p, x),
         x = Idle \/ (x \in ActiveProcess /\ x.queue # <<>>)
  PROVE  /\ run' \in [Procs -> Process] /\ QueuesUp'
         /\ run'[p] = x /\ \A q \in Procs : q # p => run'[q] = run[q]
<1>1. run \in [Procs -> Process]
  BY DEF TypeOK
<1>2. run'[p] = x /\ \A q \in Procs : q # p => run'[q] = run[q]
  BY <1>1 DEF Becomes
<1>3. x \in Process
  BY DEF Process, ActiveProcess
<1>4. run' \in [Procs -> Process]
  BY <1>1, <1>3 DEF Becomes
<1>5. QueuesUp'
  <2> SUFFICES ASSUME NEW q \in Procs, run'[q].at \in Before \cup Locked PROVE run'[q].queue # <<>>
    BY DEF QueuesUp, Active
  <2>1. CASE q = p
    BY <2>1, <1>2, IdleIs
  <2>2. CASE q # p
    BY <2>2, <1>2 DEF QueuesUp, Active
  <2> QED
    BY <2>1, <2>2
<1> QED
  BY <1>2, <1>4, <1>5

LEMMA GoesIs ==
  ASSUME TypeOK, QueuesUp, NEW p \in Procs, Active(p), NEW at \in Before \cup Locked, Goes(p, at)
  PROVE  /\ Becomes(p, [run[p] EXCEPT !.at = at])
         /\ [run[p] EXCEPT !.at = at] \in ActiveProcess /\ run[p].queue # <<>>
         /\ [run[p] EXCEPT !.at = at].queue = run[p].queue /\ [run[p] EXCEPT !.at = at].at = at
<1>1. run[p] \in ActiveProcess /\ run[p].queue # <<>>
  BY ProcessIs
<1>2. Becomes(p, [run[p] EXCEPT !.at = at])
  BY DEF Goes, Becomes
<1>3. /\ [run[p] EXCEPT !.at = at] \in ActiveProcess
      /\ [run[p] EXCEPT !.at = at].queue = run[p].queue /\ [run[p] EXCEPT !.at = at].at = at
  BY <1>1 DEF ActiveProcess
<1> QED
  BY <1>1, <1>2, <1>3

LEMMA NothingIs == Nothing \in [Packages -> 0..MaxVersion]
  BY NeupakAssumption DEF Nothing

LEMMA EndsIs ==
  ASSUME TypeOK, QueuesUp, NEW p \in Procs, Active(p), NEW good \in BOOLEAN, Ends(p, good)
  PROVE  LET x == [run[p] EXCEPT !.at = "release", !.ok = good, !.inst = Nothing,
                                 !.recs = <<>>, !.left = <<>>]
         IN  Becomes(p, x) /\ x \in ActiveProcess /\ x.queue # <<>> /\ x.at = "release" /\ x.recs = <<>>
<1>1. run[p] \in ActiveProcess /\ run[p].queue # <<>>
  BY ProcessIs
<1> DEFINE x == [run[p] EXCEPT !.at = "release", !.ok = good, !.inst = Nothing,
                               !.recs = <<>>, !.left = <<>>]
<1>2. Becomes(p, x)
  BY DEF Ends, Becomes
<1>3. <<>> \in Seq(Record) /\ <<>> \in Seq(Paths) /\ "release" \in Before \cup Locked
  BY DEF Locked
<1>4. x \in ActiveProcess /\ x.queue = run[p].queue /\ x.at = "release" /\ x.recs = <<>>
  BY <1>1, <1>3, NothingIs DEF ActiveProcess
<1> QED
  BY <1>1, <1>2, <1>4

-----------------------------------------------------------------------------
(* Types.                                                                  *)

\* What a step of p makes of p.
Steps(p) ==
  /\ run' \in [Procs -> Process] /\ QueuesUp'
  /\ Tidy(run'[p])
  /\ \A q \in Procs : q # p => run'[q] = run[q]

LEMMA GoesSteps ==
  ASSUME TypeOK, QueuesUp, Tidied, NEW p \in Procs, Active(p), NEW at \in (Before \cup Locked) \ {"copy", "erase"}, Goes(p, at)
  PROVE  Steps(p) /\ run'[p] = [run[p] EXCEPT !.at = at] /\ run'[p].at = at
<1> DEFINE x == [run[p] EXCEPT !.at = at]
<1>1. Becomes(p, x) /\ x \in ActiveProcess /\ x.queue # <<>> /\ x.at = at
  BY GoesIs
<1>3. x.recs = run[p].recs
  BY ProcessIs DEF ActiveProcess
<1> HIDE DEF x
<1>4. Tidy(x)
  BY <1>1, <1>3 DEF Tidy, Tidied, Active
<1>2. Steps(p) /\ run'[p] = x
  BY <1>1, <1>4, BecomesIs DEF Steps
<1> QED
  BY <1>1, <1>2 DEF x

LEMMA EndsSteps ==
  ASSUME TypeOK, QueuesUp, Tidied, NEW p \in Procs, Active(p), NEW good \in BOOLEAN, Ends(p, good)
  PROVE  Steps(p) /\ run'[p].at = "release"
<1>1. PICK x \in ActiveProcess : Becomes(p, x) /\ x.queue # <<>> /\ x.at = "release" /\ x.recs = <<>>
  BY EndsIs
<1>2. Tidy(x)
  BY <1>1 DEF Tidy, OneEach
<1> QED
  BY <1>1, <1>2, BecomesIs DEF Steps

LEMMA StopsSteps ==
  ASSUME TypeOK, QueuesUp, Tidied, NEW p \in Procs, Becomes(p, Idle)
  PROVE  Steps(p) /\ run'[p].at = "idle"
<1>1. Tidy(Idle)
  BY IdleIs DEF Tidy
<1> QED
  BY <1>1, BecomesIs, IdleIs DEF Steps

LEMMA TroubleIs == ASSUME TypeOK, Trouble PROVE troubles' \in 0..MaxTroubles
  BY NeupakAssumption DEF TypeOK, Trouble

LEMMA CommandSteps ==
  ASSUME TypeOK, QueuesUp, Tidied, NEW p \in Procs, NEW at \in {"fetch", "create"},
         NEW does \in {"install", "uninstall"}, NEW force \in BOOLEAN,
         NEW queue \in Seq(Item), queue # <<>>, Command(p, at, does, force, queue)
  PROVE  Steps(p) /\ run'[p].at = at /\ commands' \in 0..MaxCommands /\ run[p].at = "idle"
<1> DEFINE x == [at |-> at, does |-> does, force |-> force, queue |-> queue,
                 inst |-> Nothing, recs |-> <<>>, left |-> <<>>, ok |-> TRUE]
<1>1. x \in ActiveProcess /\ x.queue # <<>> /\ x.at = at /\ x.recs = <<>>
  BY NothingIs DEF ActiveProcess, Before
<1>2. Becomes(p, x) /\ run[p] = Idle
  BY DEF Command, Becomes
<1> HIDE DEF x
<1>5. Tidy(x)
  BY <1>1 DEF Tidy, OneEach
<1>3. Steps(p) /\ run'[p] = x
  BY <1>1, <1>2, <1>5, BecomesIs DEF Steps
<1>4. commands' \in 0..MaxCommands
  BY NeupakAssumption DEF Command, TypeOK
<1> QED
  BY <1>1, <1>2, <1>3, <1>4 DEF Idle

\* What a step of p does to p and to the types.
LEMMA BeforeTypes ==
  ASSUME TypeOK, QueuesUp, Tidied, NEW p \in Procs,
         \/ \E pkg \in Packages : Install(p, pkg) \/ Uninstall(p, pkg)
         \/ Fetch(p) \/ CreateLock(p) \/ FindLock(p) \/ TakeOver(p) \/ Stamp(p) \/ Release(p)
  PROVE  Steps(p) /\ TypeOK'
<1>1. ASSUME NEW pkg \in Packages, Install(p, pkg) PROVE Steps(p) /\ TypeOK'
  <2>1. InstallQueue(pkg) \in Seq(Item) /\ InstallQueue(pkg) # <<>>
    BY QueueAssumption DEF InstallQueue, TypeOK
  <2>2. Steps(p) /\ commands' \in 0..MaxCommands
    BY <1>1, <2>1, CommandSteps DEF Install
  <2>3. troubles' \in 0..MaxTroubles
    BY <1>1, TroubleIs DEF Install, TypeOK
  <2> QED
    BY <1>1, <2>2, <2>3 DEF Install, TypeOK, Steps, dbs, past
<1>2. ASSUME NEW pkg \in Packages, Uninstall(p, pkg) PROVE Steps(p) /\ TypeOK'
  <2> DEFINE queue == <<[name |-> pkg, version |-> installed[pkg]]>>
  <2>1. queue \in Seq(Item) /\ queue # <<>>
    <3>1. [name |-> pkg, version |-> installed[pkg]] \in Item
      BY <1>2, NeupakAssumption DEF Uninstall, TypeOK, Item
    <3> QED
      BY <3>1
  <2> HIDE DEF queue
  <2>2. Command(p, "create", "uninstall", FALSE, queue)
    BY <1>2 DEF Uninstall, queue
  <2>3. Steps(p) /\ commands' \in 0..MaxCommands
    BY <2>1, <2>2, CommandSteps
  <2>4. troubles' \in 0..MaxTroubles /\ blind' \in BOOLEAN
    BY <1>2, TroubleIs DEF Uninstall, TypeOK
  <2> QED
    BY <1>2, <2>3, <2>4 DEF Uninstall, TypeOK, Steps, dbs
<1>3. CASE Fetch(p)
  <2>1. Active(p) /\ "create" \in (Before \cup Locked) \ {"copy", "erase"}
    BY <1>3 DEF Fetch, Active, Before
  <2>2. Steps(p)
    BY <1>3, <2>1, GoesSteps, StopsSteps DEF Fetch, Becomes
  <2> QED
    BY <1>3, <2>2 DEF Fetch, TypeOK, Steps, dbs, past
<1>4. CASE CreateLock(p)
  <2>1. Active(p) /\ "stamp" \in (Before \cup Locked) \ {"copy", "erase"}
    BY <1>4 DEF CreateLock, Active, Before, Locked
  <2>2. Steps(p)
    BY <1>4, <2>1, GoesSteps DEF CreateLock
  <2>3. lock' \in LockFile
    BY <1>4 DEF CreateLock, LockFile
  <2> QED
    BY <1>4, <2>2, <2>3 DEF CreateLock, TypeOK, Steps, dbs, past
<1>5. CASE FindLock(p)
  <2>1. Active(p) /\ "takeover" \in (Before \cup Locked) \ {"copy", "erase"}
    BY <1>5 DEF FindLock, Active, Before
  <2>2. Steps(p)
    BY <1>5, <2>1, GoesSteps, StopsSteps DEF FindLock, Becomes
  <2> QED
    BY <1>5, <2>2 DEF FindLock, TypeOK, Steps, dbs, past
<1>6. CASE TakeOver(p)
  <2>1. Active(p) /\ "again" \in (Before \cup Locked) \ {"copy", "erase"}
    BY <1>6 DEF TakeOver, Active, Before
  <2>2. Steps(p)
    BY <1>6, <2>1, GoesSteps DEF TakeOver
  <2>3. robbed' \in BOOLEAN
    BY <1>6 DEF TakeOver
  <2> QED
    BY <1>6, <2>2, <2>3 DEF TakeOver, TypeOK, Steps, dbs
<1>7. CASE Stamp(p)
  <2>1. Active(p) /\ "load" \in (Before \cup Locked) \ {"copy", "erase"}
    BY <1>7 DEF Stamp, Active, Locked
  <2>2. Steps(p)
    BY <1>7, <2>1, GoesSteps, EndsSteps DEF Stamp
  <2>3. lock' \in LockFile \cup {None} /\ troubles' \in 0..MaxTroubles
    <3>1. lock # None => [lock EXCEPT !.stamp = "fresh"] \in LockFile
      BY DEF TypeOK, LockFile
    <3> QED
      BY <1>7, <3>1, TroubleIs DEF Stamp, TypeOK
  <2> QED
    BY <1>7, <2>2, <2>3 DEF Stamp, TypeOK, Steps, dbs, past
<1>8. CASE Release(p)
  <2>1. Active(p) /\ run[p] \in ActiveProcess /\ run[p].queue \in Seq(Item)
    <3>1. Active(p)
      BY <1>8 DEF Release, Active, Locked
    <3>2. run[p] \in ActiveProcess
      BY <3>1, ProcessIs
    <3> QED
      BY <3>1, <3>2 DEF ActiveProcess
  <2>2. Steps(p)
    <3>1. CASE run[p].ok /\ Len(run[p].queue) > 1
      <4> DEFINE x == [run[p] EXCEPT !.at = "fetch", !.queue = Tail(@)]
      <4>1. Becomes(p, x)
        BY <1>8, <3>1 DEF Release, Becomes
      <4>2. Tail(run[p].queue) \in Seq(Item) /\ Tail(run[p].queue) # <<>>
        BY <2>1, <3>1, Tailed, ProcessIs
      <4>3. "fetch" \in Before
        BY DEF Before
      <4>4. x \in ActiveProcess /\ x.queue = Tail(run[p].queue) /\ x.at = "fetch" /\ x.recs = run[p].recs
        BY <2>1, <4>2, <4>3 DEF ActiveProcess
      <4> HIDE DEF x
      <4>5. Tidy(x)
        BY <2>1, <4>4 DEF Tidy, Tidied, Active
      <4> QED
        BY <4>1, <4>2, <4>4, <4>5, BecomesIs DEF Steps
    <3>2. CASE ~(run[p].ok /\ Len(run[p].queue) > 1)
      BY <1>8, <3>2, StopsSteps DEF Release, Becomes
    <3> QED
      BY <3>1, <3>2
  <2>3. robbed' \in BOOLEAN
    BY <1>8 DEF Release
  <2> QED
    BY <1>8, <2>2, <2>3 DEF Release, TypeOK, Steps, dbs
<1> QED
  BY <1>1, <1>2, <1>3, <1>4, <1>5, <1>6, <1>7, <1>8

\* p has paths to do with, and the databases to write after them.
Begins(p, at, paths, inst, recs) ==
  Becomes(p, [Has(p, at, paths) EXCEPT !.inst = inst, !.recs = recs])

LEMMA LoadedIs ==
  ASSUME TypeOK, QueuesUp, Tidied, NEW p \in Procs, Active(p), NEW at \in {"copy", "erase"},
         NEW paths \in Seq(Paths), NEW inst \in [Packages -> 0..MaxVersion], NEW recs \in Seq(Record), OneEach(recs),
         Begins(p, at, paths, inst, recs)
  PROVE  /\ Steps(p)
         /\ run'[p].queue = run[p].queue /\ run'[p].does = run[p].does
         /\ run'[p].left = paths /\ run'[p].inst = inst /\ run'[p].recs = recs
         /\ run'[p].at = IF paths = <<>> THEN "empty installed" ELSE at
<1> DEFINE h == Has(p, at, paths)
           x == [h EXCEPT !.inst = inst, !.recs = recs]
<1>1. /\ h \in ActiveProcess /\ h.queue = run[p].queue /\ h.left = paths /\ h.does = run[p].does
      /\ h.at = IF paths = <<>> THEN "empty installed" ELSE at
  <2>1. run[p] \in ActiveProcess /\ "empty installed" \in Locked /\ at \in Locked
    BY ProcessIs DEF Locked, Changing
  <2> QED
    BY <2>1 DEF Has, ActiveProcess
<1>2. run[p].queue # <<>>
  BY ProcessIs
<1> HIDE DEF h
<1>3. /\ x \in ActiveProcess /\ x.queue = run[p].queue /\ x.does = run[p].does
      /\ x.left = paths /\ x.inst = inst /\ x.recs = recs
      /\ x.at = IF paths = <<>> THEN "empty installed" ELSE at
  BY <1>1 DEF ActiveProcess
<1>4. Becomes(p, x)
  BY DEF h, Begins
<1> HIDE DEF x
<1>5. Tidy(x)
  BY <1>3 DEF Tidy
<1> QED
  BY <1>2, <1>3, <1>4, <1>5, BecomesIs DEF Steps

\* p has done with the first of its paths.
LEMMA AdvancedIs ==
  ASSUME TypeOK, QueuesUp, Tidied, NEW p \in Procs, run[p].at \in {"copy", "erase"}, run[p].left # <<>>,
         Becomes(p, Has(p, run[p].at, Tail(run[p].left)))
  PROVE  /\ Steps(p)
         /\ run'[p].queue = run[p].queue /\ run'[p].does = run[p].does
         /\ run'[p].left = Tail(run[p].left) /\ run'[p].inst = run[p].inst /\ run'[p].recs = run[p].recs
         /\ run'[p].at = IF Tail(run[p].left) = <<>> THEN "empty installed" ELSE run[p].at
<1>1. Active(p)
  BY DEF Active, Locked, Changing
<1>2. run[p].queue # <<>> /\ run[p].left \in Seq(Paths)
  BY <1>1, ProcessIs DEF ActiveProcess
<1>3. Tail(run[p].left) \in Seq(Paths)
  BY <1>2, Tailed
<1> DEFINE x == Has(p, run[p].at, Tail(run[p].left))
<1>4. /\ x \in ActiveProcess /\ x.queue = run[p].queue /\ x.does = run[p].does
      /\ x.left = Tail(run[p].left) /\ x.inst = run[p].inst /\ x.recs = run[p].recs
      /\ x.at = IF Tail(run[p].left) = <<>> THEN "empty installed" ELSE run[p].at
  <2>1. run[p] \in ActiveProcess /\ "empty installed" \in Locked /\ run[p].at \in Locked
    BY <1>1, ProcessIs DEF Locked, Changing
  <2> QED
    BY <1>3, <2>1 DEF Has, ActiveProcess
<1> HIDE DEF x
<1>5. Tidy(x)
  BY <1>1, <1>4 DEF Tidy, Tidied, Active
<1> QED
  BY <1>2, <1>4, <1>5, BecomesIs DEF Steps, x

\* The records of a load.
LEMMA PathsAre ==
  ASSUME TypeOK, NEW pkg \in Packages
  PROVE  PathsOf(pkg, files) \in Seq(Paths)
<1>1. CASE \E i \in DOMAIN files : files[i].name = pkg
  <2> DEFINE k == CHOOSE i \in DOMAIN files : files[i].name = pkg
  <2>1. k \in DOMAIN files
    BY <1>1
  <2>2. PathsOf(pkg, files) = files[k].paths
    BY <1>1 DEF PathsOf
  <2> HIDE DEF k
  <2> QED
    <3>1. files[k] \in Record
      BY <2>1 DEF TypeOK
    <3> QED
      BY <2>2, <3>1 DEF Record
<1>2. CASE ~\E i \in DOMAIN files : files[i].name = pkg
  BY <1>2 DEF PathsOf
<1> QED
  BY <1>1, <1>2

LEMMA InstallLoads ==
  ASSUME TypeOK, QueuesUp, Tidied, NEW p \in Procs, LoadInstall(p)
  PROVE  LET item == Pkg(p)
             paths == Payload[item.name][item.version]
             inst == [installed EXCEPT ![item.name] = item.version]
             recs == Recorded(item.name, paths, files)
         IN  /\ Active(p) /\ item \in Item /\ paths \in Seq(Paths)
             /\ inst \in [Packages -> 0..MaxVersion] /\ recs \in Seq(Record) /\ OneEach(recs)
<1>1. Active(p)
  BY DEF LoadInstall, Active, Locked
<1>2. Pkg(p) \in Item /\ Pkg(p).name \in Packages /\ Pkg(p).version \in 1..MaxVersion
  BY <1>1, ProcessIs
<1>3. Payload[Pkg(p).name][Pkg(p).version] \in Seq(Paths)
  BY <1>2, NeupakAssumption
<1>4. [installed EXCEPT ![Pkg(p).name] = Pkg(p).version] \in [Packages -> 0..MaxVersion]
  BY <1>2, NeupakAssumption DEF TypeOK
<1>5. LET recs == Recorded(Pkg(p).name, Payload[Pkg(p).name][Pkg(p).version], files)
      IN  recs \in Seq(Record) /\ OneEach(recs)
  BY <1>2, <1>3, RecordedIs DEF TypeOK, OneEach
<1> QED
  BY <1>1, <1>2, <1>3, <1>4, <1>5

LEMMA UninstallLoads ==
  ASSUME TypeOK, QueuesUp, Tidied, NEW p \in Procs, LoadUninstall(p)
  PROVE  LET pkg == Pkg(p).name
             inst == [installed EXCEPT ![pkg] = 0]
         IN  /\ Active(p) /\ pkg \in Packages /\ PathsOf(pkg, files) \in Seq(Paths)
             /\ inst \in [Packages -> 0..MaxVersion] /\ Without(pkg, files) \in Seq(Record) /\ OneEach(Without(pkg, files))
<1>1. Active(p)
  BY DEF LoadUninstall, Active, Locked
<1>2. Pkg(p).name \in Packages
  BY <1>1, ProcessIs
<1>3. Without(Pkg(p).name, files) \in Seq(Record) /\ OneEach(Without(Pkg(p).name, files))
  BY <1>2, WithoutIs DEF TypeOK, OneEach
<1>4. [installed EXCEPT ![Pkg(p).name] = 0] \in [Packages -> 0..MaxVersion]
  BY <1>2, NeupakAssumption DEF TypeOK
<1> QED
  BY <1>1, <1>2, <1>3, <1>4, PathsAre

\* Changing the databases and the files.
LEMMA WorkTypes ==
  ASSUME TypeOK, QueuesUp, Tidied, NEW p \in Procs,
         \/ LoadInstall(p) \/ LoadUninstall(p) \/ Copy(p) \/ Erase(p)
         \/ EmptyInstalled(p) \/ WriteInstalled(p) \/ EmptyFiles(p) \/ WriteFiles(p)
         \/ Crash(p) \/ CrashInCopy(p)
  PROVE  Steps(p) /\ TypeOK'
<1> SUFFICES ASSUME run[p].at \in Locked PROVE Steps(p) /\ TypeOK'
  BY DEF LoadInstall, LoadUninstall, Copy, Erase, EmptyInstalled, WriteInstalled, EmptyFiles,
         WriteFiles, Crash, CrashInCopy, Locked, Changing
<1>0. /\ Active(p) /\ run[p] \in ActiveProcess /\ Pkg(p) \in Item /\ Pkg(p).name \in Packages
      /\ Pkg(p) \in Content /\ [name |-> Pkg(p).name, version |-> 0] \in Content
  <2>1. Active(p)
    BY DEF Active
  <2>2. run[p] \in ActiveProcess /\ Pkg(p) \in Item /\ Pkg(p).name \in Packages /\ Pkg(p).version \in 1..MaxVersion
        /\ Pkg(p) = [name |-> Pkg(p).name, version |-> Pkg(p).version]
    BY <2>1, ProcessIs
  <2> QED
    BY <2>1, <2>2, NeupakAssumption DEF Content
<1>e. OneEach(run[p].recs)
  BY <1>0 DEF Tidied, Tidy, Active
<1>a. run[p].inst \in [Packages -> 0..MaxVersion] /\ run[p].recs \in Seq(Record) /\ run[p].left \in Seq(Paths)
  BY <1>0 DEF ActiveProcess
<1>b. \A c \in Content \cup {None}, f \in Paths : [disk EXCEPT ![f] = c] \in [Paths -> Content \cup {None}]
  BY DEF TypeOK
<1>c. \A f \in Paths : Remains(p, f) \subseteq Content \cup {None} /\ Victims(p, f) \subseteq Packages
  <2> TAKE f \in Paths
  <2>1. disk[f] \in Content \cup {None}
    BY DEF TypeOK
  <2>2. disk[f] # None => disk[f].name \in Packages
    BY <2>1 DEF Content
  <2> QED
    BY <1>0, <2>1, <2>2 DEF Remains, Victims, Foreign
<1>d. ASSUME NEW f, Touches(p, f) PROVE overwritten' \in BOOLEAN
  BY <1>d DEF Touches
<1>1. CASE LoadInstall(p)
  <2> DEFINE item == Pkg(p)
             paths == Payload[item.name][item.version]
             inst == [installed EXCEPT ![item.name] = item.version]
             recs == Recorded(item.name, paths, files)
  <2>1. paths \in Seq(Paths) /\ inst \in [Packages -> 0..MaxVersion] /\ recs \in Seq(Record) /\ OneEach(recs)
    BY <1>1, InstallLoads
  <2>2. ToSet(paths) \subseteq Paths
    BY <2>1 DEF ToSet
  <2>3. shared' \subseteq Paths /\ troubles' \in 0..MaxTroubles
    BY <1>1, <2>2, TroubleIs DEF LoadInstall, TypeOK
  <2>4. \/ Begins(p, "copy", paths, inst, recs)
        \/ Ends(p, FALSE)
    BY <1>1 DEF LoadInstall, Becomes, Begins
  <2> HIDE DEF inst, paths, recs
  <2>5. Steps(p)
    BY <1>0, <2>1, <2>4, LoadedIs, EndsSteps
  <2> QED
    BY <1>1, <2>3, <2>5 DEF LoadInstall, TypeOK, Steps, dbs
<1>2. CASE LoadUninstall(p)
  <2> DEFINE pkg == Pkg(p).name
             paths == PathsOf(pkg, files)
             inst == [installed EXCEPT ![pkg] = 0]
             recs == Without(pkg, files)
  <2>1. paths \in Seq(Paths) /\ inst \in [Packages -> 0..MaxVersion] /\ recs \in Seq(Record) /\ OneEach(recs)
    BY <1>2, UninstallLoads
  <2>2. blind' \in BOOLEAN /\ troubles' \in 0..MaxTroubles
    BY <1>2, TroubleIs DEF LoadUninstall, TypeOK
  <2>3. \/ Begins(p, "erase", paths, inst, recs)
        \/ Ends(p, FALSE)
    BY <1>2 DEF LoadUninstall, Becomes, Begins
  <2> HIDE DEF inst, paths, recs
  <2>4. Steps(p)
    BY <1>0, <2>1, <2>3, LoadedIs, EndsSteps
  <2> QED
    BY <1>2, <2>2, <2>4 DEF LoadUninstall, TypeOK, Steps, dbs
<1>3. CASE Copy(p)
  <2> DEFINE f == Head(run[p].left)
  <2>1. run[p].at \in {"copy", "erase"} /\ run[p].left # <<>> /\ f \in Paths
    BY <1>3, <1>a, Tailed DEF Copy, Tidied, Tidy
  <2>2. Steps(p)
    BY <1>3, <1>0, <2>1, AdvancedIs, EndsSteps DEF Copy, Becomes
  <2>3. disk' \in [Paths -> Content \cup {None}]
    <3>1. PICK c : disk' = [disk EXCEPT ![f] = c] /\ c \in Remains(p, f) \cup {Pkg(p)}
      BY <1>3 DEF Copy
    <3>2. c \in Content \cup {None}
      BY <3>1, <1>0, <1>c, <2>1
    <3> QED
      BY <3>1, <3>2, <1>b, <2>1
  <2>4. damaged' \subseteq Packages /\ overwritten' \in BOOLEAN /\ troubles' \in 0..MaxTroubles
    BY <1>3, <1>0, <1>c, <1>d, <2>1, TroubleIs DEF Copy, TypeOK
  <2> QED
    BY <1>3, <2>2, <2>3, <2>4 DEF Copy, TypeOK, Steps, dbs
<1>4. CASE Erase(p)
  <2> DEFINE f == Head(run[p].left)
  <2>1. run[p].at \in {"copy", "erase"} /\ run[p].left # <<>> /\ f \in Paths
    BY <1>4, <1>a, Tailed DEF Erase, Tidied, Tidy
  <2>2. Steps(p)
    BY <1>4, <1>0, <2>1, AdvancedIs, EndsSteps DEF Erase, Becomes
  <2>3. disk' \in [Paths -> Content \cup {None}]
    BY <1>4, <1>b, <2>1 DEF Erase, TypeOK
  <2>4. damaged' \subseteq Packages /\ overwritten' \in BOOLEAN /\ troubles' \in 0..MaxTroubles
    BY <1>4, <1>0, <1>c, <1>d, <2>1, TroubleIs DEF Erase, TypeOK
  <2> QED
    BY <1>4, <2>2, <2>3, <2>4 DEF Erase, TypeOK, Steps, dbs
<1>5. CASE EmptyInstalled(p) \/ WriteInstalled(p)
  <2>1. {"write installed", "empty files"} \subseteq (Before \cup Locked) \ {"copy", "erase"}
    BY DEF Locked, Changing
  <2>2. Steps(p)
    BY <1>5, <1>0, <2>1, GoesSteps, EndsSteps DEF EmptyInstalled, WriteInstalled, Fails
  <2>3. /\ installed' \in [Packages -> 0..MaxVersion] /\ damaged' \subseteq Packages
        /\ cut' \in BOOLEAN /\ troubles' \in 0..MaxTroubles
    BY <1>5, <1>0, <1>a, NothingIs, TroubleIs DEF EmptyInstalled, WriteInstalled, Fails, TypeOK
  <2> QED
    BY <1>5, <2>2, <2>3 DEF EmptyInstalled, WriteInstalled, TypeOK, Steps
<1>6. CASE EmptyFiles(p) \/ WriteFiles(p)
  <2>1. "write files" \in (Before \cup Locked) \ {"copy", "erase"}
    BY DEF Locked, Changing
  <2>2. Steps(p)
    BY <1>6, <1>0, <2>1, GoesSteps, EndsSteps DEF EmptyFiles, WriteFiles, Fails
  <2>3. files' \in Seq(Record) /\ OneEach(files')
    <3>1. files' \in {<<>>, files, run[p].recs}
      BY <1>6 DEF EmptyFiles, WriteFiles, Fails
    <3>2. <<>> \in Seq(Record) /\ OneEach(<<>>) /\ files \in Seq(Record) /\ OneEach(files)
      BY DEF OneEach, TypeOK
    <3> QED
      BY <3>1, <3>2, <1>a, <1>e
  <2>4. cut' \in BOOLEAN /\ troubles' \in 0..MaxTroubles
    BY <1>6, TroubleIs DEF EmptyFiles, WriteFiles, Fails, TypeOK
  <2> QED
    BY <1>6, <2>2, <2>3, <2>4 DEF EmptyFiles, WriteFiles, TypeOK, Steps, OneEach
<1>7. CASE Crash(p)
  <2>1. Steps(p)
    BY <1>7, StopsSteps DEF Crash, Becomes
  <2>2. cut' \in BOOLEAN /\ damaged' \subseteq Packages /\ troubles' \in 0..MaxTroubles
    BY <1>7, <1>0, TroubleIs DEF Crash, TypeOK
  <2> QED
    BY <1>7, <2>1, <2>2 DEF Crash, TypeOK, Steps, dbs
<1>8. CASE CrashInCopy(p)
  <2> DEFINE f == Head(run[p].left)
  <2>1. run[p].left # <<>> /\ f \in Paths
    BY <1>8, <1>a, Tailed DEF CrashInCopy, Tidied, Tidy
  <2>2. Steps(p)
    BY <1>8, StopsSteps DEF CrashInCopy, Becomes
  <2>3. disk' \in [Paths -> Content \cup {None}]
    BY <1>8, <1>b, <1>c, <2>1 DEF CrashInCopy
  <2>4. damaged' \subseteq Packages /\ overwritten' \in BOOLEAN /\ troubles' \in 0..MaxTroubles
    BY <1>8, <1>0, <1>c, <1>d, <2>1, TroubleIs DEF CrashInCopy, TypeOK
  <2> QED
    BY <1>8, <2>2, <2>3, <2>4 DEF CrashInCopy, TypeOK, Steps, dbs
<1> QED
  BY <1>1, <1>2, <1>3, <1>4, <1>5, <1>6, <1>7, <1>8

LEMMA NextTypes ==
  ASSUME TypeOK, QueuesUp, Tidied, [Next]_vars
  PROVE  TypeOK' /\ QueuesUp' /\ Tidied'
<1>1. ASSUME NEW p \in Procs, Step(p) PROVE TypeOK' /\ QueuesUp' /\ Tidied'
  <2>1. TypeOK' /\ Steps(p)
    <3>1. CASE \/ \E pkg \in Packages : Install(p, pkg) \/ Uninstall(p, pkg)
               \/ Fetch(p) \/ CreateLock(p) \/ FindLock(p) \/ TakeOver(p) \/ Stamp(p) \/ Release(p)
      BY <3>1, BeforeTypes
    <3>2. CASE \/ LoadInstall(p) \/ LoadUninstall(p) \/ Copy(p) \/ Erase(p)
               \/ EmptyInstalled(p) \/ WriteInstalled(p) \/ EmptyFiles(p) \/ WriteFiles(p)
               \/ Crash(p) \/ CrashInCopy(p)
      BY <3>2, WorkTypes
    <3> QED
      BY <1>1, <3>1, <3>2 DEF Step
  <2>2. Tidied'
    <3> SUFFICES ASSUME NEW q \in Procs PROVE Tidy(run'[q])
      BY DEF Tidied
    <3> QED
      BY <2>1 DEF Steps, Tidied
  <2> QED
    BY <2>1, <2>2 DEF Steps
<1>2. CASE Age
  <2>1. lock' \in LockFile /\ troubles' \in 0..MaxTroubles
    BY <1>2, TroubleIs DEF Age, TypeOK, LockFile
  <2> QED
    BY <1>2, <2>1 DEF Age, TypeOK, QueuesUp, Active, Tidied, Tidy, dbs, past
<1>3. ASSUME NEW pkg \in Published, UpdateIndex(pkg) PROVE TypeOK' /\ QueuesUp' /\ Tidied'
  <2>1. index' \in [Packages -> 1..MaxVersion]
    BY <1>3, NeupakAssumption DEF UpdateIndex, TypeOK
  <2> QED
    BY <1>3, <2>1 DEF UpdateIndex, TypeOK, QueuesUp, Active, Tidied, Tidy, dbs, past
<1>4. CASE UNCHANGED vars
  BY <1>4 DEF vars, TypeOK, QueuesUp, Active, Tidied, Tidy, dbs, past
<1> QED
  BY <1>1, <1>2, <1>3, <1>4 DEF Next

-----------------------------------------------------------------------------
(* The lock.                                                               *)

\* Who is at work is alone under the lock.
LEMMA AloneIs ==
  ASSUME Alone, NEW p \in Procs, run[p].at \in Locked
  PROVE  /\ lock # None /\ lock.owner = p
         /\ \A q \in Procs : q # p => run[q].at \notin Locked
  BY DEF Alone

\* While nobody removes the lock of a process at work (neupak.cpp:1636-1750).
LEMMA AloneHolds ==
  ASSUME TypeOK, QueuesUp, Tidied, Alone, [Next]_vars, ~robbed'
  PROVE  Alone'
<1>0. \A s \in {"empty", "fresh", "old"}, l \in LockFile :
        [l EXCEPT !.stamp = s] # None /\ [l EXCEPT !.stamp = s].owner = l.owner
  BY NeupakAssumption DEF LockFile
<1>a. ASSUME lock' = lock, NEW p \in Procs, Steps(p), run'[p].at \in Locked => run[p].at \in Locked
      PROVE Alone'
  BY <1>a DEF Alone, Steps
<1>b. "fetch" \notin Locked /\ "create" \notin Locked /\ "takeover" \notin Locked /\ "again" \notin Locked /\ "idle" \notin Locked
  BY DEF Locked, Changing
<1>1. ASSUME NEW p \in Procs, NEW pkg \in Packages, Install(p, pkg) PROVE Alone'
  <2>1. Steps(p)
    BY <1>1, BeforeTypes
  <2>2. run'[p].at = "fetch"
    <3>1. InstallQueue(pkg) \in Seq(Item) /\ InstallQueue(pkg) # <<>>
      BY QueueAssumption DEF InstallQueue, TypeOK
    <3> QED
      BY <1>1, <3>1, CommandSteps DEF Install
  <2> QED
    BY <1>1, <1>a, <1>b, <2>1, <2>2 DEF Install
<1>2. ASSUME NEW p \in Procs, NEW pkg \in Packages, Uninstall(p, pkg) PROVE Alone'
  <2>1. Steps(p)
    BY <1>2, BeforeTypes
  <2>2. run'[p].at = "create"
    BY <1>2 DEF Uninstall, Command, TypeOK
  <2> QED
    BY <1>2, <1>a, <1>b, <2>1, <2>2 DEF Uninstall
<1>3. ASSUME NEW p \in Procs, Fetch(p) \/ FindLock(p) PROVE Alone'
  <2>1. Steps(p)
    BY <1>3, BeforeTypes
  <2>2. run'[p].at \notin Locked
    <3>1. Active(p) /\ {"create", "takeover"} \subseteq (Before \cup Locked) \ {"copy", "erase"}
      BY <1>3 DEF Fetch, FindLock, Active, Before
    <3>2. run'[p].at \in {"create", "takeover", "idle"}
      BY <1>3, <3>1, GoesSteps, StopsSteps DEF Fetch, FindLock, Becomes
    <3> QED
      BY <3>2, <1>b
  <2> QED
    BY <1>3, <1>a, <2>1, <2>2 DEF Fetch, FindLock
<1>4. ASSUME NEW p \in Procs, CreateLock(p) PROVE Alone'
  <2>1. Steps(p)
    BY <1>4, BeforeTypes
  <2>2. lock = None /\ lock' = [owner |-> p, stamp |-> "empty"]
    BY <1>4 DEF CreateLock
  <2>3. lock' # None
    BY <2>2, NeupakAssumption DEF LockFile
  <2> QED
    BY <2>1, <2>2, <2>3 DEF Alone, Steps
<1>5. ASSUME NEW p \in Procs, TakeOver(p) PROVE Alone'
  <2>1. Steps(p) /\ ~AtWork /\ run'[p].at = "again"
    <3>1. Active(p) /\ "again" \in (Before \cup Locked) \ {"copy", "erase"}
      BY <1>5 DEF TakeOver, Active, Before
    <3> QED
      BY <1>5, <3>1, GoesSteps DEF TakeOver
  <2>2. \A q \in Procs : run[q].at \notin Locked
    BY <2>1 DEF AtWork, Alone
  <2> QED
    BY <1>b, <2>1, <2>2 DEF Steps, Alone
<1>6. ASSUME NEW p \in Procs, Stamp(p) PROVE Alone'
  <2>1. Steps(p) /\ run[p].at \in Locked
    BY <1>6, BeforeTypes DEF Stamp, Locked
  <2>2. lock # None /\ lock.owner = p /\ lock \in LockFile
    BY <2>1, AloneIs DEF TypeOK
  <2>3. lock' # None /\ lock'.owner = p
    BY <1>0, <1>6, <2>2 DEF Stamp
  <2> QED
    BY <2>1, <2>3, AloneIs DEF Alone, Steps
<1>7. ASSUME NEW p \in Procs, Release(p) PROVE Alone'
  <2>1. Steps(p) /\ run[p].at \in Locked
    BY <1>7, BeforeTypes DEF Release, Locked
  <2>2. run'[p].at \in {"fetch", "idle"}
    <3>1. run[p] \in ActiveProcess
      BY <2>1, ProcessIs DEF Active
    <3>2. [run[p] EXCEPT !.at = "fetch", !.queue = Tail(@)].at = "fetch"
      BY <3>1 DEF ActiveProcess
    <3> QED
      BY <1>7, <3>2, IdleIs DEF Release, TypeOK
  <2> QED
    BY <1>b, <2>1, <2>2, AloneIs DEF Alone, Steps
<1>8. ASSUME NEW p \in Procs,
             \/ LoadInstall(p) \/ LoadUninstall(p) \/ Copy(p) \/ Erase(p)
             \/ EmptyInstalled(p) \/ WriteInstalled(p) \/ EmptyFiles(p) \/ WriteFiles(p)
             \/ Crash(p) \/ CrashInCopy(p)
      PROVE Alone'
  <2>1. Steps(p)
    BY <1>8, WorkTypes
  <2>2. run[p].at \in Locked /\ lock' = lock
    BY <1>8 DEF LoadInstall, LoadUninstall, Copy, Erase, EmptyInstalled, WriteInstalled, EmptyFiles,
         WriteFiles, Crash, CrashInCopy, Locked, Changing
  <2> QED
    BY <1>a, <2>1, <2>2
<1>9. CASE Age
  <2>1. lock # None => lock' # None /\ lock'.owner = lock.owner
    BY <1>0, <1>9 DEF Age, TypeOK
  <2> QED
    BY <1>9, <2>1 DEF Age, Alone
<1>10. ASSUME NEW pkg \in Published, UpdateIndex(pkg) PROVE Alone'
  BY <1>10 DEF UpdateIndex, Alone
<1>11. CASE UNCHANGED vars
  BY <1>11 DEF vars, Alone
<1> QED
  BY <1>1, <1>2, <1>3, <1>4, <1>5, <1>6, <1>7, <1>8, <1>9, <1>10, <1>11 DEF Next, Step

-----------------------------------------------------------------------------
(* What is sound stays so.                                                 *)

\* Nobody else works on the databases and the files.
Sole(p) == \A q \in Procs : q # p => ~Working(q)

LEMMA NoneOf == ToSet(<<>>) = {}
  BY DEF ToSet

\* While p works and after its step.
LEMMA SoundAtWork ==
  ASSUME NEW p \in Procs, Sole(p)', Working(p)', Plan(p)',
         ~overwritten', Clear(files)', DependenciesInstalled',
         \A q \in Packages \ (damaged' \cup {Pkg(p).name'}) : Whole(installed, q)'
  PROVE  Sound'
<1>1. DatabasesAgree'
  BY DEF DatabasesAgree, Working
<1>2. RecordedIsThere'
  <2> SUFFICES ASSUME NEW q \in Packages, q \notin damaged', installed'[q] # 0, ~Changes(p, q)'
               PROVE \A f \in ToSet(Payload[q][installed'[q]]) : disk'[f] = [name |-> q, version |-> installed'[q]]
    BY DEF RecordedIsThere
  <2>1. q # Pkg(p).name'
    BY DEF Changes, Working
  <2> QED
    BY <2>1 DEF Whole
<1>3. \A q \in Procs : Working(q)' => Plan(q)'
  BY DEF Sole
<1> QED
  BY <1>1, <1>2, <1>3 DEF Sound

\* When nobody works.
LEMMA SoundAtRest ==
  ASSUME \A q \in Procs : ~Working(q)', ~overwritten', Clear(files)', DependenciesInstalled',
         cut' \/ (Names(files) = Present(installed))',
         \A q \in Packages \ damaged' : Whole(installed, q)'
  PROVE  Sound'
<1>1. DatabasesAgree'
  BY DEF DatabasesAgree, Names, Present
<1>2. RecordedIsThere'
  BY DEF RecordedIsThere, Whole
<1> QED
  BY <1>1, <1>2 DEF Sound

\* What Sound says where only p may be at work.
LEMMA SoundIs ==
  ASSUME TypeOK, Sound, ~robbed, NEW p \in Procs, Sole(p)
  PROVE  /\ Working(p) => /\ Plan(p)
                          /\ \A q \in Packages \ (damaged \cup {Pkg(p).name}) : Whole(installed, q)
         /\ ~Working(p) => /\ cut \/ Names(files) = Present(installed)
                           /\ \A q \in Packages \ damaged : Whole(installed, q)
         /\ blind \/ Closed(installed)
<1>1. \A q \in Packages, r \in Procs : Changes(r, q) => r = p /\ Working(p) /\ q = Pkg(p).name
  BY DEF Sole, Changes, Working
<1>2. ASSUME Working(p)
      PROVE  Plan(p) /\ \A q \in Packages \ (damaged \cup {Pkg(p).name}) : Whole(installed, q)
  BY <1>1, <1>2 DEF Sound, RecordedIsThere, Whole
<1>3. ASSUME ~Working(p)
      PROVE  /\ cut \/ Names(files) = Present(installed)
             /\ \A q \in Packages \ damaged : Whole(installed, q)
  <2>1. \A q \in Procs : ~Working(q)
    BY <1>3 DEF Sole
  <2>2. cut \/ Names(files) = Present(installed)
    BY <2>1 DEF Sound, DatabasesAgree, Names, Present, Working
  <2>3. \A q \in Packages \ damaged : Whole(installed, q)
    BY <1>1, <1>3 DEF Sound, RecordedIsThere, Whole
  <2> QED
    BY <2>2, <2>3
<1>4. blind \/ Closed(installed)
  BY DEF Sound, DependenciesInstalled, Closed
<1> QED
  BY <1>2, <1>3, <1>4

LEMMA ClearStays ==
  ASSUME Clear(files), files' = files, disk' = disk, shared \subseteq shared'
  PROVE  Clear(files)'
BY DEF Clear, Guarded

\* A step that leaves the databases, the files and who works on them alone.
LEMMA BystandersKeep ==
  ASSUME Sound, ~robbed,
         UNCHANGED <<dbs, disk, shared, damaged, cut, overwritten>>, blind => blind',
         \A q \in Procs : (Working(q)' <=> Working(q)) /\ (Working(q) => run'[q] = run[q])
  PROVE  Sound'
<1> USE DEF dbs
<1>1. Clear(files)'
  BY DEF Sound, Clear, Guarded
<1>2. \A q \in Packages, r \in Procs : Changes(r, q)' <=> Changes(r, q)
  BY DEF Changes, Working, Pkg
<1>3. RecordedIsThere'
  BY <1>2 DEF Sound, RecordedIsThere
<1>4. DatabasesAgree'
  BY DEF Sound, DatabasesAgree, Working
<1>5. DependenciesInstalled'
  BY DEF Sound, DependenciesInstalled
<1>6. ASSUME NEW q \in Procs, Working(q)' PROVE Plan(q)'
  <2>1. Plan(q) /\ run'[q] = run[q] /\ Pkg(q)' = Pkg(q)
    BY <1>6 DEF Sound, Pkg
  <2>2. Written(q)'
    BY <2>1 DEF Plan, Written
  <2>3. Mine(q)'
    BY <2>1 DEF Plan, Mine, Guarded
  <2>4. Placed(q)'
    BY <2>1 DEF Plan, Placed
  <2>5. Clear(run[q].recs)'
    BY <2>1 DEF Plan, Clear, Guarded
  <2> QED
    BY <2>1, <2>2, <2>3, <2>4, <2>5 DEF Plan, Whole
<1> QED
  BY <1>1, <1>3, <1>4, <1>5, <1>6 DEF Sound

\* The work of p stops, in a failure or a crash, and leaves the files as they are.
LEMMA StoppedKeeps ==
  ASSUME TypeOK, QueuesUp, Sound, ~robbed, NEW p \in Procs, Working(p), Sole(p), Sole(p)', ~Working(p)',
         UNCHANGED <<dbs, disk, shared, overwritten, blind>>, cut => cut',
         cut' \/ run[p].at \in {"copy", "erase"},
         \/ damaged' = damaged \cup {Pkg(p).name}
         \/ damaged' = damaged /\ run[p].at \in {"empty files", "write files"}
  PROVE  Sound'
<1>0. installed' = installed /\ files' = files /\ disk' = disk /\ shared' = shared
  BY DEF dbs
<1>1. /\ Plan(p) /\ (blind \/ Closed(installed))
      /\ \A q \in Packages \ (damaged \cup {Pkg(p).name}) : Whole(installed, q)
  BY SoundIs
<1>2. \A q \in Procs : ~Working(q)'
  BY DEF Sole
<1>3. Clear(files)' /\ DependenciesInstalled' /\ ~overwritten'
  <2>1. Clear(files)'
    <3>1. Clear(files)
      BY DEF Sound
    <3> QED
      BY <1>0, <3>1, ClearStays
  <2>2. DependenciesInstalled'
    BY <1>0 DEF Sound, DependenciesInstalled
  <2>3. ~overwritten'
    BY DEF Sound
  <2> QED
    BY <2>1, <2>2, <2>3
<1>4. cut' \/ (Names(files) = Present(installed))'
  <2>1. Written(p)
    BY <1>1 DEF Plan
  <2>2. cut' \/ Names(files) = Present(installed)
    BY <2>1 DEF Written
  <2> QED
    BY <1>0, <2>2 DEF Names, Present
<1>5. run[p].at \in {"empty files", "write files"} => Whole(installed, Pkg(p).name)
  <2> SUFFICES ASSUME run[p].at \in {"empty files", "write files"} PROVE Whole(installed, Pkg(p).name)
    OBVIOUS
  <2>1. installed = run[p].inst /\ run[p].left = <<>>
    BY <1>1 DEF Plan, Written
  <2>2. Pkg(p) = [name |-> Pkg(p).name, version |-> Pkg(p).version]
    BY ProcessIs DEF Active, Working, Locked
  <2>3. ToSet(run[p].left) = {}
    BY <2>1, NoneOf
  <2> QED
    BY <1>1, <2>1, <2>2, <2>3 DEF Plan, Placed, Whole
<1>6. \A q \in Packages \ damaged' : Whole(installed, q)'
  BY <1>0, <1>1, <1>5 DEF Whole
<1> QED
  BY <1>2, <1>3, <1>4, <1>6, SoundAtRest

\* p does something to the file at the first of its paths, and c is there then.
Replaces(p, f, c) ==
  /\ run[p].at \in {"copy", "erase"} /\ f = Head(run[p].left)
  /\ c \in {disk[f], None} \/ c.name = Pkg(p).name
  /\ disk' = [disk EXCEPT ![f] = c]
  /\ Touches(p, f) /\ damaged \cup Victims(p, f) \subseteq damaged'
  /\ shared' = shared /\ installed' = installed /\ files' = files
  /\ UNCHANGED <<blind, cut>>

\* It does no harm to the packages that p does not work on.
LEMMA ReplacedIs ==
  ASSUME TypeOK, QueuesUp, Tidied, Sound, ~robbed, NEW p \in Procs, NEW f, NEW c, Replaces(p, f, c)
  PROVE  /\ f \in Paths /\ f \in ToSet(run[p].left) /\ run[p].left # <<>>
         /\ \A g \in Paths : disk'[g] = IF g = f THEN c ELSE disk[g]
         /\ f \in Guarded => c = None \/ c.name = Pkg(p).name
         /\ ~overwritten'
         /\ \A r : r \in {files, run[p].recs} => Clear(r)'
         /\ \A q \in Packages, v \in 1..MaxVersion :
              disk[f] = [name |-> q, version |-> v] /\ q # Pkg(p).name => q \in damaged'
<1>0. /\ run[p].at \in {"copy", "erase"} /\ f = Head(run[p].left) /\ run[p].left # <<>>
      /\ c \in {disk[f], None} \/ c.name = Pkg(p).name
      /\ disk' = [disk EXCEPT ![f] = c] /\ shared' = shared
  BY DEF Replaces, Tidied, Tidy
<1>1. Plan(p) /\ run[p] \in ActiveProcess
  BY <1>0, ProcessIs DEF Sound, Working, Changing, Locked, Active
<1>2. f \in Paths /\ f \in ToSet(run[p].left)
  BY <1>0, <1>1, Tailed DEF ActiveProcess
<1>3. f \in Guarded => ~Foreign(p, f)
  BY <1>1, <1>2 DEF Plan, Mine, Foreign
<1>4. f \notin Guarded => MayTake(p, f)
  BY <1>2 DEF Guarded, MayTake
<1>5. ~overwritten'
  BY <1>3, <1>4 DEF Touches, Sound, Replaces
<1>6. ASSUME NEW q \in Packages, NEW v \in 1..MaxVersion, disk[f] = [name |-> q, version |-> v], q # Pkg(p).name
      PROVE  q \in damaged'
  <2>1. disk[f] # None /\ disk[f].name = q
    <3>1. [name |-> q, version |-> v] \in Content
      BY DEF Content
    <3> QED
      BY <1>6, <3>1, NeupakAssumption
  <2> QED
    BY <1>3, <1>4, <1>6, <2>1 DEF Foreign, Victims, Replaces
<1>7. \A g \in Paths : disk'[g] = IF g = f THEN c ELSE disk[g]
  BY <1>0 DEF TypeOK
<1>8. f \in Guarded => c = None \/ c.name = Pkg(p).name
  BY <1>0, <1>3 DEF Foreign
<1>9. ASSUME NEW r, Clear(r),
             f \in Guarded => \A i \in DOMAIN r : f \in ToSet(r[i].paths) => r[i].name = Pkg(p).name
      PROVE  Clear(r)'
  <2> SUFFICES ASSUME NEW g \in Guarded, NEW i \in DOMAIN r, g \in ToSet(r[i].paths)
               PROVE  /\ disk'[g] = None \/ disk'[g].name = r[i].name
                      /\ \A j \in DOMAIN r : g \in ToSet(r[j].paths) => r[j].name = r[i].name
    BY <1>0 DEF Clear, Guarded
  <2>1. disk'[g] = None \/ disk'[g].name = r[i].name
    <3>1. CASE g = f
      BY <1>0, <1>7, <1>8, <1>9, <3>1 DEF Guarded
    <3>2. CASE g # f
      BY <1>0, <1>7, <1>9, <3>2 DEF Guarded, Clear
    <3> QED
      BY <3>1, <3>2
  <2> QED
    BY <1>0, <1>9, <2>1 DEF Clear, Guarded
<1>10. \A r : r = run[p].recs => Clear(r)'
  BY <1>1, <1>2, <1>9 DEF Plan, Mine
<1>11. \A r : r = files => Clear(r)'
  BY <1>1, <1>2, <1>9 DEF Plan, Mine, Sound
<1> QED
  BY <1>0, <1>2, <1>5, <1>6, <1>7, <1>8, <1>10, <1>11

\* The dependencies of a package are packages.
LEMMA DepsAre ==
  ASSUME NEW q \in Packages
  PROVE  ToSet(Deps[q]) \subseteq Packages
<1>1. Deps[q] \in Seq(Packages)
  BY NeupakAssumption
<1> QED
  BY <1>1 DEF ToSet

\* What is closed stays closed with one more package whose dependencies are there.
LEMMA ClosedWith ==
  ASSUME NEW inst, Closed(inst), NEW new, NEW pkg \in Packages, NEW v \in 1..MaxVersion,
         DepsIn(pkg, inst), \A q \in Packages : new[q] = IF q = pkg THEN v ELSE inst[q]
  PROVE  Closed(new)
<1>1. v # 0
  BY NeupakAssumption
<1>2. \A q \in Packages : inst[q] # 0 => new[q] # 0
  BY <1>1
<1>3. \A q \in Packages : new[q] # 0 => DepsIn(q, inst)
  BY DEF Closed
<1> QED
  BY <1>2, <1>3, DepsAre DEF Closed, DepsIn

\* An install that finds all it asks for (neupak.cpp:2634-2690).
InstallBegins(p, item, paths, inst, recs) ==
  /\ run[p].at = "load" /\ run[p].does = "install" /\ MayInstall(p)
  /\ item = Pkg(p) /\ paths = Payload[item.name][item.version]
  /\ inst = [installed EXCEPT ![item.name] = item.version]
  /\ recs = Recorded(item.name, paths, files)
  /\ Begins(p, "copy", paths, inst, recs)
  /\ shared' = shared \cup {f \in ToSet(paths) : run[p].force /\ Conflict(item, f, files)}
  /\ installed' = installed /\ files' = files /\ disk' = disk /\ damaged' = damaged
  /\ UNCHANGED <<blind, cut, overwritten>>

LEMMA InstallPlans ==
  ASSUME TypeOK, QueuesUp, Tidied, Sound, ~robbed, NEW p \in Procs, Sole(p), Sole(p)',
         NEW item, NEW paths, NEW inst, NEW recs, InstallBegins(p, item, paths, inst, recs)
  PROVE  Sound'
<1>0. TypeOK /\ QueuesUp /\ Tidied /\ Sound /\ Active(p)
  BY DEF InstallBegins, Active, Locked
<1>6. /\ shared' = shared \cup {f \in ToSet(paths) : run[p].force /\ Conflict(item, f, files)}
      /\ installed' = installed /\ files' = files /\ disk' = disk /\ damaged' = damaged
      /\ UNCHANGED <<blind, cut, overwritten>> /\ run[p].at = "load" /\ run[p].does = "install"
      /\ item = Pkg(p)
  BY DEF InstallBegins
<1>7. /\ item \in Item /\ item.name \in Packages /\ item.version \in 1..MaxVersion
      /\ item = [name |-> item.name, version |-> item.version] /\ paths \in Seq(Paths)
      /\ inst \in [Packages -> 0..MaxVersion] /\ recs \in Seq(Record) /\ OneEach(recs)
      /\ paths = Payload[item.name][item.version]
  <2>1. /\ item \in Item /\ item.name \in Packages /\ item.version \in 1..MaxVersion
        /\ item = [name |-> item.name, version |-> item.version]
    BY <1>0, ProcessIs DEF InstallBegins
  <2>2. /\ paths = Payload[item.name][item.version] /\ inst = [installed EXCEPT ![item.name] = item.version]
        /\ recs = Recorded(item.name, paths, files)
    BY DEF InstallBegins
  <2>3. paths \in Seq(Paths)
    BY <2>1, <2>2, NeupakAssumption
  <2>4. inst \in [Packages -> 0..MaxVersion]
    <3>1. installed \in [Packages -> 0..MaxVersion] /\ item.version \in 0..MaxVersion
      BY <2>1, NeupakAssumption DEF TypeOK
    <3> QED
      BY <2>1, <2>2, <3>1
  <2>5. files \in Seq(Record) /\ OneEach(files)
    BY DEF TypeOK, OneEach
  <2>6. recs \in Seq(Record) /\ OneEach(recs)
    BY <2>1, <2>2, <2>3, <2>5, RecordedIs
  <2> QED
    BY <2>1, <2>2, <2>3, <2>4, <2>6
<1>8. /\ \A q \in Packages : inst[q] = IF q = item.name THEN item.version ELSE installed[q]
  BY <1>7 DEF TypeOK, InstallBegins
<1>9. /\ \A i \in DOMAIN recs :
           IF recs[i].name = item.name THEN recs[i].paths = paths ELSE \E j \in DOMAIN files : recs[i] = files[j]
      /\ Names(recs) = Names(files) \cup {item.name}
  <2>1. files \in Seq(Record) /\ OneEach(files)
    BY <1>0 DEF TypeOK, OneEach
  <2> QED
    BY <1>7, <2>1, RecordedIs DEF InstallBegins
<1>10. /\ \A f \in ToSet(paths) : ~run[p].force => ~Conflict(item, f, files)
       /\ DepsIn(item.name, installed)
  BY DEF MayInstall, InstallBegins
<1>11. /\ Steps(p)
       /\ run'[p].queue = run[p].queue /\ run'[p].does = run[p].does
       /\ run'[p].left = paths /\ run'[p].inst = inst /\ run'[p].recs = recs
       /\ run'[p].at = IF paths = <<>> THEN "empty installed" ELSE "copy"
  <2>1. Begins(p, "copy", paths, inst, recs)
    BY DEF InstallBegins
  <2>2. "copy" \in {"copy", "erase"} /\ Active(p)
    BY <1>0
  <2>3. /\ paths \in Seq(Paths) /\ inst \in [Packages -> 0..MaxVersion]
        /\ recs \in Seq(Record) /\ OneEach(recs)
    BY <1>7
  <2>4. TypeOK /\ QueuesUp /\ Tidied
    BY <1>0
  <2> QED
    BY ONLY <2>1, <2>2, <2>3, <2>4, LoadedIs
<1>12. Pkg(p)' = item /\ Working(p)' /\ ~Working(p)
  BY <1>6, <1>11 DEF Pkg, Working, Changing
<1>13. /\ cut \/ Names(files) = Present(installed)
       /\ \A q \in Packages \ damaged : Whole(installed, q)
       /\ blind \/ Closed(installed)
  BY <1>0, <1>12, SoundIs
<1>14. ASSUME NEW f \in Guarded', f \in ToSet(paths)
       PROVE  /\ disk[f] = None \/ disk[f].name = item.name
              /\ \A i \in DOMAIN files : f \in ToSet(files[i].paths) => files[i].name = item.name
  <2>1. f \in Paths /\ f \notin shared \cup Library
    BY <1>6, <1>14 DEF Guarded
  <2>2. ~Conflict(item, f, files)
    BY <1>6, <1>10, <1>14 DEF Guarded
  <2> QED
    BY <1>0, <1>7, <2>1, <2>2, NoConflictIs DEF Sound
<1>15. Clear(files)'
  BY <1>0, <1>6, ClearStays DEF Sound
<1>16. \A f \in Guarded', i \in DOMAIN recs : f \in ToSet(recs[i].paths) =>
         /\ disk'[f] = None \/ disk'[f].name = recs[i].name
         /\ \A j \in DOMAIN recs : f \in ToSet(recs[j].paths) => recs[j].name = recs[i].name
  <2> SUFFICES ASSUME NEW f \in Guarded', NEW i \in DOMAIN recs, f \in ToSet(recs[i].paths)
               PROVE  /\ disk'[f] = None \/ disk'[f].name = recs[i].name
                      /\ \A j \in DOMAIN recs : f \in ToSet(recs[j].paths) => recs[j].name = recs[i].name
    OBVIOUS
  <2>1. CASE f \in ToSet(paths)
    <3>1. \A j \in DOMAIN recs : f \in ToSet(recs[j].paths) => recs[j].name = item.name
      BY <1>9, <1>14, <2>1
    <3> QED
      BY <1>6, <1>14, <2>1, <3>1
  <2>2. CASE f \notin ToSet(paths)
    <3>1. \A j \in DOMAIN recs : f \in ToSet(recs[j].paths) => \E k \in DOMAIN files : recs[j] = files[k]
      BY <1>9, <2>2
    <3>2. f \in Guarded /\ Clear(files)
      BY <1>0, <1>6 DEF Guarded, Sound
    <3> QED
      BY <1>6, <3>1, <3>2 DEF Clear
  <2> QED
    BY <2>1, <2>2
<1>17. Mine(p)'
  <2> SUFFICES ASSUME NEW f \in Guarded', f \in ToSet(paths)
               PROVE  /\ disk'[f] = None \/ disk'[f].name = item.name
                      /\ \A i \in DOMAIN files : f \in ToSet(files[i].paths) => files[i].name = item.name
                      /\ \A i \in DOMAIN recs : f \in ToSet(recs[i].paths) => recs[i].name = item.name
    BY <1>6, <1>11, <1>12 DEF Mine
  <2> QED
    BY <1>6, <1>9, <1>14
<1>18. Written(p)'
  <2>1. \A q \in Packages \ {item.name} : inst[q] = installed[q]
    BY <1>8
  <2>2. cut' \/ Names(files)' = Present(installed)'
    BY <1>6, <1>13 DEF Names, Present
  <2> QED
    BY <1>6, <1>11, <1>12, <2>1, <2>2 DEF Written
<1>19. Placed(p)'
  BY <1>6, <1>7, <1>8, <1>11, <1>12 DEF Placed
<1>20. Names(recs) = Present(inst) \/ cut
  <2> SUFFICES ASSUME ~cut PROVE Names(recs) = Present(inst)
    OBVIOUS
  <2>1. Names(recs) = Present(installed) \cup {item.name}
    BY <1>9, <1>13
  <2>2. item.version # 0
    BY <1>7, NeupakAssumption
  <2> QED
    BY <1>7, <1>8, <2>1, <2>2 DEF Present
<1>21. blind \/ Closed(inst)
  BY <1>7, <1>8, <1>10, <1>13, ClosedWith
<1>22. \A q \in Packages \ (damaged \cup {item.name}) : Whole(inst, q) /\ Whole(installed, q)
  BY <1>8, <1>13 DEF Whole
<1>23. Plan(p)'
  <2>1. Clear(run[p].recs)'
    BY <1>11, <1>16 DEF Clear
  <2>2. cut' \/ (Names(run[p].recs) = Present(run[p].inst))'
    BY <1>6, <1>11, <1>20 DEF Names, Present
  <2>3. blind' \/ Closed(run[p].inst)'
    BY <1>6, <1>11, <1>21 DEF Closed, DepsIn
  <2>4. \A q \in Packages \ (damaged' \cup {Pkg(p).name'}) : Whole(run[p].inst, q)'
    BY <1>6, <1>11, <1>12, <1>22 DEF Whole
  <2>5. /\ run'[p].at \notin {"copy", "erase"} => run'[p].left = <<>>
        /\ run'[p].at = "erase" => run'[p].does = "uninstall"
    BY <1>11
  <2> QED
    BY <1>17, <1>18, <1>19, <2>1, <2>2, <2>3, <2>4, <2>5 DEF Plan
<1>24. DependenciesInstalled' /\ ~overwritten'
  <2>1. DependenciesInstalled'
    BY <1>0, <1>6 DEF Sound, DependenciesInstalled
  <2>2. ~overwritten'
    BY <1>0, <1>6 DEF Sound
  <2> QED
    BY <2>1, <2>2
<1>25. \A q \in Packages \ (damaged' \cup {Pkg(p).name'}) : Whole(installed, q)'
  BY <1>6, <1>12, <1>22 DEF Whole
<1> QED
  BY <1>12, <1>15, <1>23, <1>24, <1>25, SoundAtWork

\* The paths of a record are those of its package.
LEMMA PathsOfIs ==
  ASSUME NEW pkg, NEW f \in ToSet(PathsOf(pkg, files))
  PROVE  \E i \in DOMAIN files : files[i].name = pkg /\ f \in ToSet(files[i].paths)
<1>1. CASE \E i \in DOMAIN files : files[i].name = pkg
  <2> DEFINE k == CHOOSE i \in DOMAIN files : files[i].name = pkg
  <2>1. k \in DOMAIN files /\ files[k].name = pkg
    BY <1>1
  <2>2. PathsOf(pkg, files) = files[k].paths
    BY <1>1 DEF PathsOf
  <2> HIDE DEF k
  <2> QED
    BY <2>1, <2>2
<1>2. CASE ~\E i \in DOMAIN files : files[i].name = pkg
  BY <1>2, NoneOf DEF PathsOf
<1> QED
  BY <1>1, <1>2

\* What is closed stays closed without a package that no other needs.
LEMMA ClosedWithout ==
  ASSUME NEW inst, Closed(inst), NEW new, NEW pkg \in Packages, ~Required(pkg, inst),
         \A q \in Packages : new[q] = IF q = pkg THEN 0 ELSE inst[q]
  PROVE  Closed(new)
<1> SUFFICES ASSUME NEW q \in Packages, new[q] # 0, NEW d \in ToSet(Deps[q]) PROVE new[d] # 0
  BY DEF Closed, DepsIn
<1>1. q # pkg /\ inst[q] # 0
  OBVIOUS
<1>2. d \in Packages /\ inst[d] # 0
  BY <1>1, DepsAre DEF Closed, DepsIn
<1>3. d # pkg
  BY <1>1 DEF Required
<1> QED
  BY <1>2, <1>3

\* An uninstall of a package that nothing needs, as far as p can see
\* (neupak.cpp:2531-2590).
UninstallBegins(p, pkg, paths, inst, recs) ==
  /\ run[p].at = "load" /\ run[p].does = "uninstall"
  /\ ~Required(pkg, installed) \/ blind'
  /\ pkg = Pkg(p).name /\ paths = PathsOf(pkg, files)
  /\ inst = [installed EXCEPT ![pkg] = 0]
  /\ recs = Without(pkg, files)
  /\ Begins(p, "erase", paths, inst, recs)
  /\ shared' = shared /\ installed' = installed /\ files' = files /\ disk' = disk /\ damaged' = damaged
  /\ UNCHANGED <<cut, overwritten>>

LEMMA UninstallPlans ==
  ASSUME TypeOK, QueuesUp, Tidied, Sound, ~robbed, NEW p \in Procs, Sole(p), Sole(p)', blind => blind',
         NEW pkg, NEW paths, NEW inst, NEW recs, UninstallBegins(p, pkg, paths, inst, recs)
  PROVE  Sound'
<1>0. TypeOK /\ QueuesUp /\ Tidied /\ Sound /\ Active(p)
  BY DEF UninstallBegins, Active, Locked
<1>1. /\ shared' = shared /\ installed' = installed /\ files' = files /\ disk' = disk /\ damaged' = damaged
      /\ UNCHANGED <<cut, overwritten>> /\ run[p].at = "load" /\ run[p].does = "uninstall"
      /\ pkg = Pkg(p).name
  BY DEF UninstallBegins
<1>2. /\ paths = PathsOf(pkg, files) /\ inst = [installed EXCEPT ![pkg] = 0]
      /\ recs = Without(pkg, files)
  BY DEF UninstallBegins
<1>3. pkg \in Packages
  BY <1>0, <1>1, ProcessIs
<1>4. paths \in Seq(Paths)
  BY <1>2, <1>3, PathsAre
<1>5. inst \in [Packages -> 0..MaxVersion] /\ \A q \in Packages : inst[q] = IF q = pkg THEN 0 ELSE installed[q]
  <2>1. installed \in [Packages -> 0..MaxVersion] /\ 0 \in 0..MaxVersion
    BY NeupakAssumption DEF TypeOK
  <2> QED
    BY <1>2, <1>3, <2>1
<1>6. /\ recs \in Seq(Record) /\ OneEach(recs)
      /\ \A i \in DOMAIN recs : recs[i].name # pkg /\ \E j \in DOMAIN files : recs[i] = files[j]
      /\ Names(recs) = Names(files) \ {pkg}
  <2>1. files \in Seq(Record) /\ OneEach(files)
    BY DEF TypeOK, OneEach
  <2> QED
    BY <1>2, <1>3, <2>1, WithoutIs
<1>7. /\ Steps(p)
      /\ run'[p].queue = run[p].queue /\ run'[p].does = run[p].does
      /\ run'[p].left = paths /\ run'[p].inst = inst /\ run'[p].recs = recs
      /\ run'[p].at = IF paths = <<>> THEN "empty installed" ELSE "erase"
  <2>1. Begins(p, "erase", paths, inst, recs)
    BY DEF UninstallBegins
  <2>2. "erase" \in {"copy", "erase"} /\ Active(p)
    BY <1>0
  <2>3. paths \in Seq(Paths) /\ inst \in [Packages -> 0..MaxVersion] /\ recs \in Seq(Record) /\ OneEach(recs)
    BY <1>4, <1>5, <1>6
  <2>4. TypeOK /\ QueuesUp /\ Tidied
    BY <1>0
  <2> QED
    BY ONLY <2>1, <2>2, <2>3, <2>4, LoadedIs
<1>8. Pkg(p)' = Pkg(p) /\ Working(p)' /\ ~Working(p)
  BY <1>1, <1>7 DEF Pkg, Working, Changing
<1>9. /\ cut \/ Names(files) = Present(installed)
      /\ \A q \in Packages \ damaged : Whole(installed, q)
      /\ blind \/ Closed(installed)
  BY <1>0, <1>8, SoundIs
<1>10. Clear(files)' /\ Clear(files)
  BY <1>0, <1>1, ClearStays DEF Sound
<1>11. \A f \in Guarded', i \in DOMAIN recs : f \in ToSet(recs[i].paths) =>
         /\ disk'[f] = None \/ disk'[f].name = recs[i].name
         /\ \A j \in DOMAIN recs : f \in ToSet(recs[j].paths) => recs[j].name = recs[i].name
  BY <1>1, <1>6, <1>10 DEF Clear, Guarded
<1>12. ASSUME NEW f \in Guarded', f \in ToSet(paths)
       PROVE  /\ disk[f] = None \/ disk[f].name = pkg
              /\ \A i \in DOMAIN files : f \in ToSet(files[i].paths) => files[i].name = pkg
              /\ \A i \in DOMAIN recs : f \in ToSet(recs[i].paths) => recs[i].name = pkg
  <2>1. PICK k \in DOMAIN files : files[k].name = pkg /\ f \in ToSet(files[k].paths)
    BY <1>2, <1>12, PathsOfIs
  <2>2. f \in Guarded
    BY <1>1, <1>12 DEF Guarded
  <2>3. /\ disk[f] = None \/ disk[f].name = pkg
        /\ \A i \in DOMAIN files : f \in ToSet(files[i].paths) => files[i].name = pkg
    BY <1>10, <2>1, <2>2 DEF Clear
  <2> QED
    BY <1>6, <2>3
<1>13. Mine(p)'
  BY <1>1, <1>7, <1>8, <1>12 DEF Mine
<1>14. Written(p)'
  <2>1. \A q \in Packages \ {pkg} : inst[q] = installed[q]
    BY <1>5
  <2>2. cut' \/ Names(files)' = Present(installed)'
    BY <1>1, <1>9 DEF Names, Present
  <2> QED
    BY <1>1, <1>7, <1>8, <2>1, <2>2 DEF Written
<1>15. Placed(p)'
  BY <1>1, <1>3, <1>5, <1>7, <1>8 DEF Placed
<1>16. Names(recs) = Present(inst) \/ cut
  BY <1>5, <1>6, <1>9 DEF Present
<1>17. blind' \/ Closed(inst)
  <2> SUFFICES ASSUME ~blind' PROVE Closed(inst)
    OBVIOUS
  <2>1. ~Required(pkg, installed) /\ Closed(installed)
    BY <1>9 DEF UninstallBegins
  <2> QED
    BY <1>3, <1>5, <2>1, ClosedWithout
<1>18. \A q \in Packages \ (damaged \cup {pkg}) : Whole(inst, q) /\ Whole(installed, q)
  BY <1>5, <1>9 DEF Whole
<1>19. Plan(p)'
  <2>1. Clear(run[p].recs)'
    BY <1>7, <1>11 DEF Clear
  <2>2. cut' \/ (Names(run[p].recs) = Present(run[p].inst))'
    BY <1>1, <1>7, <1>16 DEF Names, Present
  <2>3. blind' \/ Closed(run[p].inst)'
    BY <1>7, <1>17 DEF Closed, DepsIn
  <2>4. \A q \in Packages \ (damaged' \cup {Pkg(p).name'}) : Whole(run[p].inst, q)'
    BY <1>1, <1>7, <1>8, <1>18 DEF Whole
  <2>5. /\ run'[p].at \notin {"copy", "erase"} => run'[p].left = <<>>
        /\ run'[p].at = "erase" => run'[p].does = "uninstall"
    BY <1>1, <1>7
  <2> QED
    BY <1>13, <1>14, <1>15, <2>1, <2>2, <2>3, <2>4, <2>5 DEF Plan
<1>20. DependenciesInstalled' /\ ~overwritten'
  <2>1. DependenciesInstalled'
    BY <1>0, <1>1 DEF Sound, DependenciesInstalled
  <2>2. ~overwritten'
    BY <1>0, <1>1 DEF Sound
  <2> QED
    BY <2>1, <2>2
<1>21. \A q \in Packages \ (damaged' \cup {Pkg(p).name'}) : Whole(installed, q)'
  BY <1>1, <1>8, <1>18 DEF Whole
<1> QED
  BY <1>8, <1>10, <1>19, <1>20, <1>21, SoundAtWork

\* p does what it has to with one path, and goes on.
LEMMA AdvancePlans ==
  ASSUME TypeOK, QueuesUp, Tidied, Sound, ~robbed, NEW p \in Procs, Sole(p), Sole(p)',
         NEW f, NEW c, Replaces(p, f, c), c = IF run[p].at = "copy" THEN Pkg(p) ELSE None,
         Becomes(p, Has(p, run[p].at, Tail(run[p].left)))
  PROVE  Sound'
<1>0. /\ run[p].at \in {"copy", "erase"} /\ f = Head(run[p].left)
      /\ installed' = installed /\ files' = files /\ shared' = shared /\ damaged \subseteq damaged'
      /\ UNCHANGED <<blind, cut>>
  BY DEF Replaces
<1>1. /\ f \in Paths /\ f \in ToSet(run[p].left) /\ run[p].left # <<>>
      /\ \A g \in Paths : disk'[g] = IF g = f THEN c ELSE disk[g]
      /\ f \in Guarded => c = None \/ c.name = Pkg(p).name
      /\ ~overwritten'
      /\ \A r : r \in {files, run[p].recs} => Clear(r)'
      /\ \A q \in Packages, v \in 1..MaxVersion :
           disk[f] = [name |-> q, version |-> v] /\ q # Pkg(p).name => q \in damaged'
  BY ReplacedIs
<1>2. /\ Steps(p)
      /\ run'[p].queue = run[p].queue /\ run'[p].does = run[p].does
      /\ run'[p].left = Tail(run[p].left) /\ run'[p].inst = run[p].inst /\ run'[p].recs = run[p].recs
      /\ run'[p].at = IF Tail(run[p].left) = <<>> THEN "empty installed" ELSE run[p].at
  BY <1>0, <1>1, AdvancedIs
<1>3. Pkg(p)' = Pkg(p) /\ Working(p)' /\ Working(p)
  BY <1>0, <1>2 DEF Pkg, Working, Changing
<1>4. /\ Plan(p)
      /\ \A q \in Packages \ (damaged \cup {Pkg(p).name}) : Whole(installed, q)
  BY <1>3, SoundIs
<1>5. run[p] \in ActiveProcess /\ Pkg(p).name \in Packages
  BY <1>3, ProcessIs DEF Working, Active, Locked
<1>6. /\ ToSet(run[p].left) = {f} \cup ToSet(Tail(run[p].left))
      /\ ToSet(run[p].left) \subseteq Paths
  <2>1. run[p].left \in Seq(Paths) /\ run[p].left # <<>>
    BY <1>1, <1>5 DEF ActiveProcess
  <2>2. ToSet(run[p].left) \subseteq Paths
    BY <2>1 DEF ToSet
  <2> QED
    BY <1>0, <2>1, <2>2, Tailed
<1>7. \A inst \in [Packages -> 0..MaxVersion], q \in Packages \ (damaged' \cup {Pkg(p).name}) :
        Whole(inst, q) => Whole(inst, q)'
  <2> SUFFICES ASSUME NEW inst \in [Packages -> 0..MaxVersion], NEW q \in Packages \ (damaged' \cup {Pkg(p).name}),
                      Whole(inst, q), inst[q] # 0, NEW g \in ToSet(Payload[q][inst[q]])
               PROVE  disk'[g] = [name |-> q, version |-> inst[q]]
    BY DEF Whole
  <2>1. inst[q] \in 1..MaxVersion /\ g \in Paths
    <3>1. inst[q] \in 1..MaxVersion
      BY NeupakAssumption
    <3>2. Payload[q][inst[q]] \in Seq(Paths)
      BY <3>1, NeupakAssumption
    <3> QED
      BY <3>1, <3>2 DEF ToSet
  <2>2. disk[g] = [name |-> q, version |-> inst[q]]
    BY DEF Whole
  <2> QED
    BY <1>1, <2>1, <2>2
<1>8. installed \in [Packages -> 0..MaxVersion] /\ run[p].inst \in [Packages -> 0..MaxVersion]
  BY <1>5 DEF TypeOK, ActiveProcess
<1>9. /\ \A q \in Packages \ (damaged' \cup {Pkg(p).name}) : Whole(installed, q)'
      /\ \A q \in Packages \ (damaged' \cup {Pkg(p).name}) : Whole(run[p].inst, q)'
  <2>1. PICK inst \in [Packages -> 0..MaxVersion] : inst = installed
    BY <1>8
  <2>2. PICK new \in [Packages -> 0..MaxVersion] : new = run[p].inst
    BY <1>8
  <2>3. \A q \in Packages \ (damaged' \cup {Pkg(p).name}) : Whole(inst, q) /\ Whole(new, q)
    BY <1>0, <1>4, <2>1, <2>2 DEF Plan
  <2>4. \A q \in Packages \ (damaged' \cup {Pkg(p).name}) : Whole(inst, q)' /\ Whole(new, q)'
    BY <1>7, <2>3
  <2>5. installed' = inst /\ run'[p].inst = new
    BY <1>0, <1>2, <2>1, <2>2
  <2>6. \A q \in Packages \ (damaged' \cup {Pkg(p).name}) : Whole(installed, q)'
    BY <2>4, <2>5 DEF Whole
  <2>7. \A q \in Packages \ (damaged' \cup {Pkg(p).name}) : Whole(run[p].inst, q)'
    BY <2>4, <2>5 DEF Whole
  <2> QED
    BY <2>6, <2>7
<1>10. Clear(files)' /\ Clear(run[p].recs)'
  <2>1. PICK r : r = files
    OBVIOUS
  <2>2. PICK s : s = run[p].recs
    OBVIOUS
  <2>3. Clear(r)' /\ Clear(s)'
    BY <1>1, <2>1, <2>2
  <2>4. files' = r /\ run'[p].recs = s
    BY <1>0, <1>2, <2>1, <2>2
  <2>5. Clear(files)'
    BY <2>3, <2>4 DEF Clear
  <2>6. Clear(run[p].recs)'
    BY <2>3, <2>4 DEF Clear
  <2> QED
    BY <2>5, <2>6
<1>11. Mine(p)'
  <2> SUFFICES ASSUME NEW g \in ToSet(Tail(run[p].left)), g \in Guarded'
               PROVE  /\ disk'[g] = None \/ disk'[g].name = Pkg(p).name
                      /\ \A i \in DOMAIN files : g \in ToSet(files[i].paths) => files[i].name = Pkg(p).name
                      /\ \A i \in DOMAIN run[p].recs :
                           g \in ToSet(run[p].recs[i].paths) => run[p].recs[i].name = Pkg(p).name
    BY <1>0, <1>2, <1>3 DEF Mine
  <2>1. g \in Guarded /\ g \in ToSet(run[p].left)
    BY <1>0, <1>6 DEF Guarded
  <2>2. Mine(p)
    BY <1>4 DEF Plan
  <2> QED
    BY <1>1, <1>6, <2>1, <2>2 DEF Mine
<1>12. Written(p)'
  <2>1. Written(p)
    BY <1>4 DEF Plan
  <2>2. /\ \A q \in Packages \ {Pkg(p).name} : run[p].inst[q] = installed[q]
        /\ cut \/ Names(files) = Present(installed)
    BY <1>0, <2>1 DEF Written
  <2>3. cut' \/ Names(files)' = Present(installed)'
    BY <1>0, <2>2 DEF Names, Present
  <2> QED
    BY <1>0, <1>2, <1>3, <2>2, <2>3 DEF Written
<1>13. Placed(p)'
  <2>1. Placed(p) /\ (run[p].does = "install" => run[p].at = "copy")
    BY <1>0, <1>4 DEF Plan
  <2>2. CASE run[p].does = "install"
    <3>1. /\ run[p].inst[Pkg(p).name] = Pkg(p).version
          /\ \A g \in ToSet(Payload[Pkg(p).name][Pkg(p).version]) \ ToSet(run[p].left) : disk[g] = Pkg(p)
      BY <2>1, <2>2 DEF Placed
    <3>2. ToSet(Payload[Pkg(p).name][Pkg(p).version]) \subseteq Paths
      <4>1. Payload[Pkg(p).name][Pkg(p).version] \in Seq(Paths)
        BY <1>3, ProcessIs, NeupakAssumption DEF Working, Active, Locked
      <4> QED
        BY <4>1 DEF ToSet
    <3>3. c = Pkg(p)
      BY <2>1, <2>2
    <3>4. \A g \in ToSet(Payload[Pkg(p).name][Pkg(p).version]) \ ToSet(Tail(run[p].left)) : disk'[g] = Pkg(p)
      BY <1>1, <1>6, <3>1, <3>2, <3>3
    <3> QED
      BY <1>2, <1>3, <2>2, <3>1, <3>4 DEF Placed
  <2>3. CASE run[p].does # "install"
    BY <1>2, <1>3, <2>1, <2>3 DEF Placed
  <2> QED
    BY <2>2, <2>3
<1>14. Plan(p)'
  <2>1. cut' \/ (Names(run[p].recs) = Present(run[p].inst))'
    BY <1>0, <1>2, <1>4 DEF Plan, Names, Present
  <2>2. blind' \/ Closed(run[p].inst)'
    BY <1>0, <1>2, <1>4 DEF Plan, Closed, DepsIn
  <2>3. /\ run'[p].at \notin {"copy", "erase"} => run'[p].left = <<>>
        /\ run'[p].at = "erase" => run'[p].does = "uninstall"
    BY <1>0, <1>2, <1>4 DEF Plan
  <2> QED
    BY <1>3, <1>9, <1>10, <1>11, <1>12, <1>13, <2>1, <2>2, <2>3 DEF Plan
<1>15. DependenciesInstalled'
  BY <1>0 DEF Sound, DependenciesInstalled
<1> QED
  BY <1>1, <1>3, <1>9, <1>10, <1>14, <1>15, SoundAtWork

\* p fails or crashes at one path.
LEMMA ReplacingStops ==
  ASSUME TypeOK, QueuesUp, Tidied, Sound, ~robbed, NEW p \in Procs, Sole(p), Sole(p)', ~Working(p)',
         NEW f, NEW c, Replaces(p, f, c), Pkg(p).name \in damaged'
  PROVE  Sound'
<1>0. /\ run[p].at \in {"copy", "erase"} /\ f = Head(run[p].left)
      /\ installed' = installed /\ files' = files /\ shared' = shared /\ damaged \subseteq damaged'
      /\ UNCHANGED <<blind, cut>>
  BY DEF Replaces
<1>1. /\ f \in Paths /\ f \in ToSet(run[p].left) /\ run[p].left # <<>>
      /\ \A g \in Paths : disk'[g] = IF g = f THEN c ELSE disk[g]
      /\ ~overwritten'
      /\ \A r : r \in {files, run[p].recs} => Clear(r)'
      /\ \A q \in Packages, v \in 1..MaxVersion :
           disk[f] = [name |-> q, version |-> v] /\ q # Pkg(p).name => q \in damaged'
  BY ReplacedIs
<1>2. Working(p)
  BY <1>0 DEF Working, Changing
<1>3. /\ Plan(p)
      /\ \A q \in Packages \ (damaged \cup {Pkg(p).name}) : Whole(installed, q)
  BY <1>2, SoundIs
<1>4. ASSUME NEW q \in Packages \ damaged' PROVE Whole(installed, q)'
  <2> SUFFICES ASSUME installed[q] # 0, NEW g \in ToSet(Payload[q][installed[q]])
               PROVE  disk'[g] = [name |-> q, version |-> installed[q]]
    BY <1>0 DEF Whole
  <2>1. installed[q] \in 1..MaxVersion /\ g \in Paths
    <3>1. installed[q] \in 1..MaxVersion
      BY NeupakAssumption DEF TypeOK
    <3>2. Payload[q][installed[q]] \in Seq(Paths)
      BY <3>1, NeupakAssumption
    <3> QED
      BY <3>1, <3>2 DEF ToSet
  <2>2. q # Pkg(p).name /\ disk[g] = [name |-> q, version |-> installed[q]]
    BY <1>0, <1>3 DEF Whole
  <2> QED
    BY <1>1, <2>1, <2>2
<1>5. Clear(files)'
  <2>1. PICK r : r = files
    OBVIOUS
  <2>2. Clear(r)'
    BY <1>1, <2>1
  <2> QED
    BY <1>0, <2>1, <2>2 DEF Clear
<1>6. cut' \/ (Names(files) = Present(installed))'
  <2>1. cut \/ Names(files) = Present(installed)
    BY <1>0, <1>3 DEF Plan, Written
  <2> QED
    BY <1>0, <2>1 DEF Names, Present
<1>7. DependenciesInstalled'
  BY <1>0 DEF Sound, DependenciesInstalled
<1>8. \A q \in Procs : ~Working(q)'
  BY DEF Sole
<1> QED
  BY <1>1, <1>4, <1>5, <1>6, <1>7, <1>8, SoundAtRest

\* Records that are clear and stay what they are, or become the recorded ones.
LEMMA ClearMoves ==
  ASSUME NEW p \in Procs, Clear(run[p].recs), disk' = disk, shared' = shared
  PROVE  /\ run'[p].recs = run[p].recs => Clear(run[p].recs)'
         /\ files' = run[p].recs => Clear(files)'
<1>1. PICK r : r = run[p].recs
  OBVIOUS
<1>2. Clear(r)
  BY <1>1 DEF Clear
<1>3. Clear(r)'
  BY <1>2 DEF Clear, Guarded
<1>4. run'[p].recs = r => Clear(run[p].recs)'
  BY <1>3 DEF Clear
<1>5. files' = r => Clear(files)'
  BY <1>3 DEF Clear
<1> QED
  BY <1>1, <1>4, <1>5

LEMMA ClearEmpty == ASSUME files' = <<>> PROVE Clear(files)'
  BY DEF Clear

\* p goes on with one of the databases.
Writes(p) ==
  \/ /\ EmptyInstalled(p) /\ Goes(p, "write installed")
     /\ installed' = Nothing /\ cut' = cut /\ damaged' = damaged
  \/ /\ WriteInstalled(p) /\ Goes(p, "empty files")
     /\ installed' = run[p].inst /\ cut' = cut /\ damaged' = damaged \ {Pkg(p).name}
  \/ /\ EmptyFiles(p) /\ Goes(p, "write files")
     /\ files' = <<>> /\ cut' = cut

\* What it writes is what it has planned (neupak.cpp:1587-1609).
LEMMA WritingPlans ==
  ASSUME TypeOK, QueuesUp, Tidied, Sound, ~robbed, NEW p \in Procs, Sole(p), Sole(p)', Writes(p)
  PROVE  Sound'
<1>0. /\ run[p].at \in {"empty installed", "write installed", "empty files"} /\ cut' = cut
      /\ disk' = disk /\ shared' = shared /\ UNCHANGED <<blind, overwritten>>
      /\ damaged' \in {damaged, damaged \ {Pkg(p).name}}
  BY DEF Writes, EmptyInstalled, WriteInstalled, EmptyFiles
<1>1. /\ run[p] \in ActiveProcess /\ Active(p) /\ Working(p) /\ Pkg(p).name \in Packages
  BY <1>0, ProcessIs DEF Active, Working, Locked, Changing
<1>2. PICK at \in {"write installed", "empty files", "write files"} :
        /\ Goes(p, at)
        /\ \/ run[p].at = "empty installed" /\ at = "write installed" /\ installed' = Nothing /\ files' = files
              /\ damaged' = damaged
           \/ run[p].at = "write installed" /\ at = "empty files" /\ installed' = run[p].inst /\ files' = files
           \/ run[p].at = "empty files" /\ at = "write files" /\ installed' = installed /\ files' = <<>>
              /\ damaged' = damaged
  BY DEF Writes, EmptyInstalled, WriteInstalled, EmptyFiles
<1>3. /\ run'[p].queue = run[p].queue /\ run'[p].does = run[p].does
      /\ run'[p].left = run[p].left /\ run'[p].inst = run[p].inst /\ run'[p].recs = run[p].recs
      /\ run'[p].at = at
  <2>1. at \in (Before \cup Locked) \ {"copy", "erase"}
    BY DEF Locked, Changing
  <2>2. run'[p] = [run[p] EXCEPT !.at = at] /\ run'[p].at = at
    BY <1>1, <1>2, <2>1, GoesSteps
  <2> QED
    BY <1>1, <2>2 DEF ActiveProcess
<1>4. Pkg(p)' = Pkg(p) /\ Working(p)'
  BY <1>3 DEF Pkg, Working, Changing
<1>5. /\ Plan(p) /\ (blind \/ Closed(installed))
      /\ \A q \in Packages \ (damaged \cup {Pkg(p).name}) : Whole(installed, q)
  BY <1>1, SoundIs
<1>6. /\ run[p].left = <<>> /\ ToSet(run[p].left) = {}
      /\ Written(p) /\ Placed(p) /\ Clear(run[p].recs)
      /\ cut \/ Names(run[p].recs) = Present(run[p].inst)
      /\ blind \/ Closed(run[p].inst)
      /\ \A q \in Packages \ (damaged \cup {Pkg(p).name}) : Whole(run[p].inst, q)
  BY <1>0, <1>5, NoneOf DEF Plan
<1>7. Clear(files)'
  <2>1. CASE files' = files
    BY <1>0, <2>1, ClearStays DEF Sound
  <2>2. CASE files' = <<>>
    BY <2>2, ClearEmpty
  <2> QED
    BY <1>2, <2>1, <2>2
<1>8. damaged' \cup {Pkg(p).name'} = damaged \cup {Pkg(p).name}
  BY <1>0, <1>4
<1>9. \A q \in Packages : Nothing[q] = 0
  BY DEF Nothing
<1>10. /\ \A q \in Packages \ (damaged' \cup {Pkg(p).name'}) : Whole(installed, q)'
       /\ blind' \/ Closed(installed)'
  <2>1. CASE installed' = Nothing
    BY <1>9, <2>1 DEF Whole, Closed
  <2>2. CASE installed' = run[p].inst
    BY <1>0, <1>6, <1>8, <2>2 DEF Whole, Closed, DepsIn
  <2>3. CASE installed' = installed
    BY <1>0, <1>5, <1>8, <2>3 DEF Whole, Closed, DepsIn
  <2> QED
    BY <1>2, <2>1, <2>2, <2>3
<1>11. DependenciesInstalled'
  BY <1>10 DEF DependenciesInstalled, Closed
<1>12. Plan(p)'
  <2>1. Written(p)'
    <3>1. CASE at = "write installed"
      BY <1>2, <1>3, <3>1 DEF Written, Nothing
    <3>2. CASE at = "empty files"
      BY <1>2, <1>3, <3>2 DEF Written
    <3>3. CASE at = "write files"
      BY <1>2, <1>3, <1>6, <3>3 DEF Written
    <3> QED
      BY <3>1, <3>2, <3>3
  <2>2. Mine(p)'
    BY <1>3, <1>6 DEF Mine
  <2>3. Placed(p)'
    BY <1>0, <1>3, <1>4, <1>6 DEF Placed
  <2>4. Clear(run[p].recs)'
    BY <1>0, <1>3, <1>6, ClearMoves
  <2>5. cut' \/ (Names(run[p].recs) = Present(run[p].inst))'
    <3>1. cut' = cut /\ (cut \/ Names(run[p].recs) = Present(run[p].inst))
      BY <1>0, <1>6
    <3>2. Names(run[p].recs)' = Names(run[p].recs) /\ Present(run[p].inst)' = Present(run[p].inst)
      BY <1>3 DEF Names, Present
    <3> QED
      BY <3>1, <3>2
  <2>6. blind' \/ Closed(run[p].inst)'
    BY <1>0, <1>3, <1>6 DEF Closed, DepsIn
  <2>7. \A q \in Packages \ (damaged' \cup {Pkg(p).name'}) : Whole(run[p].inst, q)'
    <3>1. disk' = disk /\ run'[p].inst = run[p].inst
      BY <1>0, <1>3
    <3>2. \A q \in Packages : Whole(run[p].inst, q) => Whole(run[p].inst, q)'
      BY <3>1 DEF Whole
    <3> QED
      BY <1>6, <1>8, <3>2
  <2>8. run'[p].left = <<>> /\ run'[p].at # "erase"
    BY <1>3, <1>6
  <2> QED
    BY <2>1, <2>2, <2>3, <2>4, <2>5, <2>6, <2>7, <2>8 DEF Plan
<1>13. ~overwritten'
  BY <1>0 DEF Sound
<1> QED
  BY <1>4, <1>7, <1>10, <1>11, <1>12, <1>13, SoundAtWork

\* p has written both databases.
LEMMA WrittenPlans ==
  ASSUME TypeOK, QueuesUp, Tidied, Sound, ~robbed, NEW p \in Procs, Sole(p), Sole(p)', ~Working(p)',
         run[p].at = "write files", files' = run[p].recs,
         installed' = installed, disk' = disk, shared' = shared, damaged' = damaged,
         UNCHANGED <<blind, cut, overwritten>>
  PROVE  Sound'
<1>1. Working(p)
  BY DEF Working, Changing
<1>2. /\ Plan(p)
      /\ \A q \in Packages \ (damaged \cup {Pkg(p).name}) : Whole(installed, q)
  BY <1>1, SoundIs
<1>3. /\ run[p].left = <<>> /\ ToSet(run[p].left) = {} /\ installed = run[p].inst
      /\ Placed(p) /\ Clear(run[p].recs)
      /\ cut \/ Names(run[p].recs) = Present(run[p].inst)
  BY <1>2, NoneOf DEF Plan, Written
<1>4. Whole(installed, Pkg(p).name)
  <2>1. Pkg(p) = [name |-> Pkg(p).name, version |-> Pkg(p).version]
    BY <1>1, ProcessIs DEF Active, Working, Locked
  <2> QED
    BY <1>3, <2>1 DEF Placed, Whole
<1>5. \A q \in Packages \ damaged' : Whole(installed, q)'
  BY <1>2, <1>4 DEF Whole
<1>6. Clear(files)'
  BY <1>3, ClearMoves
<1>7. cut' \/ (Names(files) = Present(installed))'
  BY <1>3 DEF Names, Present
<1>8. DependenciesInstalled'
  BY DEF Sound, DependenciesInstalled
<1>9. ~overwritten'
  BY DEF Sound
<1>10. \A q \in Procs : ~Working(q)'
  BY DEF Sole
<1> QED
  BY <1>5, <1>6, <1>7, <1>8, <1>9, <1>10, SoundAtRest

\* Nobody works who did not, when p is not at work before and after its step.
LEMMA StepBystands ==
  ASSUME Sound, ~robbed, NEW p \in Procs, Steps(p), ~Working(p), ~Working(p)',
         installed' = installed, files' = files, disk' = disk, shared' = shared,
         UNCHANGED <<damaged, cut, overwritten>>, blind => blind'
  PROVE  Sound'
<1>1. \A q \in Procs : (Working(q)' <=> Working(q)) /\ (Working(q) => run'[q] = run[q])
  BY DEF Steps, Working
<1> QED
  BY <1>1, BystandersKeep DEF dbs

LEMMA SoleIs ==
  ASSUME Alone, NEW p \in Procs, run[p].at \in Locked, Steps(p)
  PROVE  Sole(p) /\ Sole(p)'
<1>1. \A q \in Procs : q # p => run[q].at \notin Locked
  BY AloneIs
<1> QED
  BY <1>1 DEF Sole, Working, Steps, Locked

LEMMA CommandAt ==
  ASSUME TypeOK, NEW p \in Procs, NEW at, NEW does, NEW force, NEW queue, Command(p, at, does, force, queue)
  PROVE  run'[p].at = at
BY DEF Command, TypeOK

\* Steps before and after the work.
LEMMA BeforeSound ==
  ASSUME TypeOK, QueuesUp, Tidied, Sound, ~robbed, NEW p \in Procs,
         \/ \E pkg \in Packages : Install(p, pkg) \/ Uninstall(p, pkg)
         \/ Fetch(p) \/ CreateLock(p) \/ FindLock(p) \/ TakeOver(p) \/ Stamp(p) \/ Release(p)
  PROVE  Sound'
<1>0. Steps(p)
  BY BeforeTypes
<1>1. /\ installed' = installed /\ files' = files /\ disk' = disk /\ shared' = shared
      /\ UNCHANGED <<damaged, cut, overwritten>> /\ (blind => blind')
  <2>1. ASSUME NEW pkg \in Packages, Install(p, pkg)
        PROVE  UNCHANGED <<dbs, disk, past>>
    BY <2>1 DEF Install
  <2>2. ASSUME NEW pkg \in Packages, Uninstall(p, pkg)
        PROVE  UNCHANGED <<dbs, disk, shared, damaged, cut, overwritten>> /\ (blind => blind')
    BY <2>2 DEF Uninstall
  <2>3. ASSUME Fetch(p) \/ CreateLock(p) \/ FindLock(p) \/ Stamp(p)
        PROVE  UNCHANGED <<dbs, disk, past>>
    BY <2>3 DEF Fetch, CreateLock, FindLock, Stamp
  <2>4. ASSUME TakeOver(p) \/ Release(p)
        PROVE  UNCHANGED <<dbs, disk, blind, shared, damaged, cut, overwritten>>
    BY <2>4 DEF TakeOver, Release
  <2> QED
    BY <2>1, <2>2, <2>3, <2>4 DEF dbs, past
<1>2. ~Working(p)
  BY IdleIs DEF Install, Uninstall, Command, Fetch, CreateLock, FindLock, TakeOver, Stamp, Release,
                Working, Changing, Locked
<1>3. ~Working(p)'
  <2>1. ASSUME NEW pkg \in Packages, Install(p, pkg) \/ Uninstall(p, pkg) PROVE ~Working(p)'
    <3>1. run'[p].at \in {"fetch", "create"}
      BY <2>1, CommandAt DEF Install, Uninstall
    <3> QED
      BY <3>1 DEF Working, Changing
  <2>2. ASSUME Fetch(p) \/ CreateLock(p) \/ FindLock(p) \/ TakeOver(p) \/ Stamp(p) PROVE ~Working(p)'
    <3>1. Active(p) /\ {"create", "takeover", "stamp", "again", "load"} \subseteq (Before \cup Locked) \ {"copy", "erase"}
      BY <2>2 DEF Fetch, CreateLock, FindLock, TakeOver, Stamp, Active, Before, Locked
    <3>2. run'[p].at \in {"create", "takeover", "stamp", "again", "load", "idle", "release"}
      BY <2>2, <3>1, GoesSteps, StopsSteps, EndsSteps DEF Fetch, CreateLock, FindLock, TakeOver, Stamp, Becomes
    <3> QED
      BY <3>2 DEF Working, Changing
  <2>3. ASSUME Release(p) PROVE ~Working(p)'
    <3>1. run[p] \in ActiveProcess
      BY <2>3, ProcessIs DEF Release, Active, Locked
    <3>2. [run[p] EXCEPT !.at = "fetch", !.queue = Tail(@)].at = "fetch"
      BY <3>1 DEF ActiveProcess
    <3>3. run'[p].at \in {"fetch", "idle"}
      BY <2>3, <3>2, IdleIs DEF Release, TypeOK
    <3> QED
      BY <3>3 DEF Working, Changing
  <2> QED
    BY <2>1, <2>2, <2>3
<1> QED
  BY <1>0, <1>1, <1>2, <1>3, StepBystands

\* The lock is had and the databases are read again.
LEMMA LoadSound ==
  ASSUME TypeOK, QueuesUp, Tidied, Alone, Sound, ~robbed, NEW p \in Procs, LoadInstall(p) \/ LoadUninstall(p)
  PROVE  Sound'
<1>0. Steps(p) /\ run[p].at = "load"
  BY WorkTypes DEF LoadInstall, LoadUninstall
<1>1. Sole(p) /\ Sole(p)' /\ ~Working(p) /\ Active(p)
  BY <1>0, SoleIs DEF Locked, Working, Changing, Active
<1>2. /\ installed' = installed /\ files' = files /\ disk' = disk /\ damaged' = damaged
      /\ UNCHANGED <<cut, overwritten>> /\ (blind => blind')
  <2>1. UNCHANGED <<dbs, disk, damaged, cut, overwritten>>
    BY DEF LoadInstall, LoadUninstall
  <2>2. blind => blind'
    BY DEF LoadInstall, LoadUninstall
  <2> QED
    BY <2>1, <2>2 DEF dbs
<1>3. ASSUME Ends(p, FALSE), shared' = shared PROVE Sound'
  <2>1. run'[p].at = "release"
    BY <1>1, <1>3, EndsSteps
  <2>2. ~Working(p)'
    BY <2>1 DEF Working, Changing
  <2> QED
    BY <1>0, <1>1, <1>2, <1>3, <2>2, StepBystands
<1>4. CASE LoadInstall(p)
  <2>1. PICK item : item = Pkg(p)
    OBVIOUS
  <2>2. PICK paths : paths = Payload[item.name][item.version]
    OBVIOUS
  <2>3. PICK inst : inst = [installed EXCEPT ![item.name] = item.version]
    OBVIOUS
  <2>4. PICK recs : recs = Recorded(item.name, paths, files)
    OBVIOUS
  <2>5. \/ InstallBegins(p, item, paths, inst, recs)
        \/ Ends(p, FALSE) /\ shared' = shared
    BY <1>2, <1>4, <2>1, <2>2, <2>3, <2>4 DEF LoadInstall, InstallBegins, Begins, Becomes
  <2> QED
    BY <1>1, <1>3, <2>5, InstallPlans
<1>5. CASE LoadUninstall(p)
  <2>1. PICK pkg : pkg = Pkg(p).name
    OBVIOUS
  <2>2. PICK paths : paths = PathsOf(pkg, files)
    OBVIOUS
  <2>3. PICK inst : inst = [installed EXCEPT ![pkg] = 0]
    OBVIOUS
  <2>4. PICK recs : recs = Without(pkg, files)
    OBVIOUS
  <2>5. shared' = shared
    BY <1>5 DEF LoadUninstall
  <2>6. \/ UninstallBegins(p, pkg, paths, inst, recs)
        \/ Ends(p, FALSE)
    BY <1>2, <1>5, <2>1, <2>2, <2>3, <2>4, <2>5 DEF LoadUninstall, MayUninstall, UninstallBegins, Begins, Becomes
  <2> QED
    BY <1>1, <1>2, <1>3, <2>5, <2>6, UninstallPlans
<1> QED
  BY <1>4, <1>5

\* Files are copied and erased.
LEMMA FilesSound ==
  ASSUME TypeOK, QueuesUp, Tidied, Alone, Sound, ~robbed, NEW p \in Procs, Copy(p) \/ Erase(p) \/ CrashInCopy(p)
  PROVE  Sound'
<1> DEFINE f == Head(run[p].left)
<1>0. Steps(p) /\ run[p].at \in {"copy", "erase"}
  BY WorkTypes DEF Copy, Erase, CrashInCopy
<1>1. Sole(p) /\ Sole(p)' /\ Active(p) /\ Pkg(p).name \in Packages
  BY <1>0, SoleIs, ProcessIs DEF Locked, Changing, Active
<1>2. /\ Touches(p, f) /\ shared' = shared /\ installed' = installed /\ files' = files
      /\ UNCHANGED <<blind, cut>>
  BY DEF Copy, Erase, CrashInCopy, dbs
<1>3. ASSUME NEW c, c = IF run[p].at = "copy" THEN Pkg(p) ELSE None, disk' = [disk EXCEPT ![f] = c],
             damaged' = damaged \cup Victims(p, f), Becomes(p, Has(p, run[p].at, Tail(run[p].left)))
      PROVE  Sound'
  <2>1. Replaces(p, f, c)
    BY <1>0, <1>2, <1>3 DEF Replaces
  <2> HIDE DEF f
  <2> QED
    BY <1>1, <1>3, <2>1, AdvancePlans
<1>4. ASSUME NEW c \in Remains(p, f), disk' = [disk EXCEPT ![f] = c],
             damaged' = damaged \cup Victims(p, f) \cup {Pkg(p).name}, ~Working(p)'
      PROVE  Sound'
  <2>1. c \in {disk[f], None} \/ c.name = Pkg(p).name
    BY <1>4 DEF Remains
  <2>2. Replaces(p, f, c)
    BY <1>0, <1>2, <1>4, <2>1 DEF Replaces
  <2> HIDE DEF f
  <2> QED
    BY <1>1, <1>4, <2>2, ReplacingStops
<1>5. ASSUME Ends(p, FALSE) PROVE ~Working(p)'
  BY <1>1, <1>5, EndsSteps DEF Working, Changing
<1>6. CASE Copy(p)
  <2>1. run[p].at = "copy"
    BY <1>6 DEF Copy
  <2>2. \/ /\ disk' = [disk EXCEPT ![f] = Pkg(p)]
           /\ Becomes(p, Has(p, run[p].at, Tail(run[p].left))) /\ damaged' = damaged \cup Victims(p, f)
        \/ /\ \E c \in Remains(p, f) : disk' = [disk EXCEPT ![f] = c]
           /\ Ends(p, FALSE) /\ damaged' = damaged \cup Victims(p, f) \cup {Pkg(p).name}
    BY <1>6 DEF Copy, Becomes
  <2> HIDE DEF f
  <2> QED
    BY <1>3, <1>4, <1>5, <2>1, <2>2
<1>7. CASE Erase(p)
  <2>1. run[p].at = "erase" /\ run[p].at # "copy"
    BY <1>7 DEF Erase
  <2>2. \/ /\ disk' = [disk EXCEPT ![f] = None]
           /\ Becomes(p, Has(p, run[p].at, Tail(run[p].left))) /\ damaged' = damaged \cup Victims(p, f)
        \/ /\ disk' = disk /\ Ends(p, FALSE) /\ damaged' = damaged \cup {Pkg(p).name}
    BY <1>7 DEF Erase, Becomes
  <2>3. ASSUME disk' = disk, Ends(p, FALSE), damaged' = damaged \cup {Pkg(p).name} PROVE Sound'
    <3>1. ~overwritten'
      <4>1. /\ Plan(p) /\ f \in Paths /\ f \in ToSet(run[p].left)
        <5>1. run[p] \in ActiveProcess /\ run[p].left # <<>>
          BY <1>0, <1>1, ProcessIs DEF Tidied, Tidy
        <5>2. Working(p)
          BY <1>0 DEF Working, Changing
        <5> QED
          BY <5>1, <5>2, Tailed DEF ActiveProcess, Sound
      <4>2. f \in Guarded => ~Foreign(p, f)
        BY <4>1 DEF Plan, Mine, Foreign
      <4>3. f \notin Guarded => MayTake(p, f)
        BY <4>1 DEF Guarded, MayTake
      <4> QED
        BY <1>2, <4>2, <4>3 DEF Touches, Sound
    <3>2. ~Working(p)' /\ Working(p)
      BY <1>0, <1>5, <2>3 DEF Working, Changing
    <3>3. UNCHANGED <<dbs, disk, shared, overwritten, blind>>
      <4>1. overwritten \in BOOLEAN /\ overwritten' \in BOOLEAN /\ ~overwritten
        BY <1>7, WorkTypes DEF TypeOK, Sound
      <4> QED
        BY <1>2, <2>3, <3>1, <4>1 DEF dbs
    <3> QED
      BY <1>0, <1>1, <1>2, <2>3, <3>2, <3>3, StoppedKeeps
  <2> HIDE DEF f
  <2> QED
    BY <1>3, <2>1, <2>2, <2>3
<1>8. CASE CrashInCopy(p)
  <2>1. Becomes(p, Idle)
    BY <1>8 DEF CrashInCopy, Becomes
  <2>2. ~Working(p)'
    BY <2>1, StopsSteps DEF Working, Changing
  <2>3. PICK c \in Remains(p, f) : disk' = [disk EXCEPT ![f] = c]
    BY <1>8 DEF CrashInCopy
  <2>4. damaged' = damaged \cup Victims(p, f) \cup {Pkg(p).name}
    BY <1>8 DEF CrashInCopy
  <2> HIDE DEF f
  <2> QED
    BY <1>4, <2>2, <2>3, <2>4
<1> QED
  BY <1>6, <1>7, <1>8

\* The databases are written.
LEMMA DatabasesSound ==
  ASSUME TypeOK, QueuesUp, Tidied, Alone, Sound, ~robbed, NEW p \in Procs,
         EmptyInstalled(p) \/ WriteInstalled(p) \/ EmptyFiles(p) \/ WriteFiles(p)
  PROVE  Sound'
<1>0. /\ Steps(p)
      /\ run[p].at \in {"empty installed", "write installed", "empty files", "write files"}
  BY WorkTypes DEF EmptyInstalled, WriteInstalled, EmptyFiles, WriteFiles
<1>1. Sole(p) /\ Sole(p)' /\ Active(p) /\ Working(p)
  BY <1>0, SoleIs DEF Locked, Changing, Active, Working
<1>2. disk' = disk /\ shared' = shared /\ UNCHANGED <<blind, overwritten>>
  BY DEF EmptyInstalled, WriteInstalled, EmptyFiles, WriteFiles
<1>3. ASSUME NEW good \in BOOLEAN, Ends(p, good) PROVE ~Working(p)'
  BY <1>1, <1>3, EndsSteps DEF Working, Changing
<1>4. ASSUME Fails(p), UNCHANGED dbs,
             \/ damaged' = damaged \cup {Pkg(p).name}
             \/ damaged' = damaged /\ run[p].at \in {"empty files", "write files"}
      PROVE  Sound'
  <2>1. ~Working(p)' /\ cut'
    BY <1>3, <1>4 DEF Fails
  <2>2. UNCHANGED <<dbs, disk, shared, overwritten, blind>>
    BY <1>2, <1>4
  <2> QED
    BY <1>1, <1>4, <2>1, <2>2, StoppedKeeps
<1>5. CASE EmptyInstalled(p)
  <2>1. \/ Writes(p)
        \/ Fails(p) /\ damaged' = damaged \cup {Pkg(p).name} /\ UNCHANGED dbs
    BY <1>5 DEF EmptyInstalled, Writes, dbs
  <2> QED
    BY <1>1, <1>4, <2>1, WritingPlans
<1>6. CASE WriteInstalled(p)
  <2>1. \/ Writes(p)
        \/ Fails(p) /\ damaged' = damaged \cup {Pkg(p).name} /\ UNCHANGED dbs
    BY <1>6 DEF WriteInstalled, Writes, dbs
  <2> QED
    BY <1>1, <1>4, <2>1, WritingPlans
<1>7. CASE EmptyFiles(p)
  <2>1. \/ Writes(p)
        \/ /\ Fails(p) /\ damaged' = damaged /\ run[p].at = "empty files" /\ UNCHANGED dbs
    BY <1>7 DEF EmptyFiles, Writes, dbs
  <2> QED
    BY <1>1, <1>4, <2>1, WritingPlans
<1>8. CASE WriteFiles(p)
  <2>1. /\ run[p].at = "write files" /\ installed' = installed /\ damaged' = damaged
        /\ \/ files' = run[p].recs /\ Ends(p, TRUE) /\ UNCHANGED cut
           \/ Fails(p) /\ UNCHANGED dbs
    BY <1>8 DEF WriteFiles, dbs
  <2>2. CASE files' = run[p].recs /\ Ends(p, TRUE) /\ UNCHANGED cut
    <3>1. ~Working(p)'
      BY <1>3, <2>2
    <3> QED
      BY <1>1, <1>2, <2>1, <2>2, <3>1, WrittenPlans
  <2> QED
    BY <1>4, <2>1, <2>2
<1> QED
  BY <1>5, <1>6, <1>7, <1>8

\* p ends wherever it is.
LEMMA CrashSound ==
  ASSUME TypeOK, QueuesUp, Tidied, Alone, Sound, ~robbed, NEW p \in Procs, Crash(p)
  PROVE  Sound'
<1>0. Steps(p) /\ run[p].at \in Locked
  BY WorkTypes DEF Crash
<1>1. Sole(p) /\ Sole(p)'
  BY <1>0, SoleIs
<1>2. ~Working(p)'
  <2>1. Becomes(p, Idle)
    BY DEF Crash, Becomes
  <2> QED
    BY <2>1, StopsSteps DEF Working, Changing
<1>3. installed' = installed /\ files' = files /\ disk' = disk /\ shared' = shared /\ UNCHANGED <<blind, overwritten>>
  BY DEF Crash, dbs
<1>4. CASE Working(p)
  <2>1. /\ cut => cut'
        /\ cut' \/ run[p].at \in {"copy", "erase"}
        /\ \/ damaged' = damaged \cup {Pkg(p).name}
           \/ damaged' = damaged /\ run[p].at \in {"empty files", "write files"}
    BY <1>4 DEF Crash, Working, Changing
  <2>2. UNCHANGED <<dbs, disk, shared, overwritten, blind>>
    BY <1>3 DEF dbs
  <2> QED
    BY <1>1, <1>2, <1>4, <2>1, <2>2, StoppedKeeps
<1>5. CASE ~Working(p)
  <2>1. damaged' = damaged /\ (cut' <=> cut)
    BY <1>5 DEF Crash, Working, Changing
  <2>2. cut \in BOOLEAN /\ cut' \in BOOLEAN
    BY WorkTypes DEF TypeOK
  <2>3. UNCHANGED <<damaged, cut, overwritten>>
    BY <1>3, <2>1, <2>2
  <2> QED
    BY <1>0, <1>2, <1>3, <1>5, <2>3, StepBystands
<1> QED
  BY <1>4, <1>5

-----------------------------------------------------------------------------
(* The theorems.                                                           *)

LEMMA InitHolds == ASSUME Init PROVE IInv
<1>1. run \in [Procs -> Process] /\ \A p \in Procs : run[p] = Idle /\ run[p].at = "idle"
  BY IdleIs DEF Init, Process
<1>2. TypeOK
  <2>1. index \in [Packages -> 1..MaxVersion] /\ installed \in [Packages -> 0..MaxVersion]
        /\ disk \in [Paths -> Content \cup {None}]
    BY NeupakAssumption, NothingIs DEF Init
  <2>2. files \in Seq(Record) /\ \A i, j \in DOMAIN files : files[i].name = files[j].name => i = j
    BY DEF Init
  <2>3. commands \in 0..MaxCommands /\ troubles \in 0..MaxTroubles
    BY NeupakAssumption DEF Init
  <2> QED
    BY <1>1, <2>1, <2>2, <2>3 DEF Init, TypeOK
<1>3. QueuesUp /\ Tidied /\ Alone /\ \A p \in Procs : ~Working(p)
  BY <1>1, IdleIs DEF QueuesUp, Active, Tidied, Tidy, Alone, Working, Locked
<1>4. \A q \in Packages : installed[q] = 0
  BY DEF Init, Nothing
<1>5. Clear(files) /\ RecordedIsThere /\ DependenciesInstalled
  BY <1>4 DEF Init, Clear, RecordedIsThere, DependenciesInstalled
<1>6. DatabasesAgree
  BY <1>4 DEF Init, DatabasesAgree
<1>7. ~overwritten
  BY DEF Init
<1> QED
  BY <1>2, <1>3, <1>5, <1>6, <1>7 DEF IInv, Sound

LEMMA NextHolds == ASSUME IInv, [Next]_vars PROVE IInv'
<1>1. TypeOK' /\ QueuesUp' /\ Tidied'
  BY NextTypes DEF IInv
<1>2. ASSUME ~robbed' PROVE Alone' /\ Sound'
  <2>1. ~robbed
    BY <1>2 DEF Next, Step, Age, Install, Uninstall, Fetch, CreateLock, FindLock, TakeOver, Stamp, Release,
                LoadInstall, LoadUninstall, Copy, Erase, EmptyInstalled, WriteInstalled, EmptyFiles,
                WriteFiles, Crash, CrashInCopy, UpdateIndex, vars, past
  <2>2. TypeOK /\ QueuesUp /\ Tidied /\ Alone /\ Sound
    BY <2>1 DEF IInv
  <2>3. Alone'
    BY <1>2, <2>2, AloneHolds
  <2>4. ASSUME NEW p \in Procs, Step(p) PROVE Sound'
    BY <2>1, <2>2, <2>4, BeforeSound, LoadSound, FilesSound, DatabasesSound, CrashSound DEF Step
  <2>5. ASSUME Age \/ (\E pkg \in Published : UpdateIndex(pkg)) \/ UNCHANGED vars PROVE Sound'
    <3>1. run' = run /\ UNCHANGED <<dbs, past, disk>>
      BY <2>5 DEF Age, UpdateIndex, vars
    <3> QED
      BY <2>1, <2>2, <3>1, BystandersKeep DEF past, Working
  <2> QED
    BY <2>3, <2>4, <2>5 DEF Next
<1> QED
  BY <1>1, <1>2 DEF IInv

LEMMA Implied == ASSUME IInv PROVE FilesAsRecorded /\ DatabasesConsistent
<1>1. TypeOK
  BY DEF IInv
<1>2. RecordedIsThere /\ NothingOverwritten
  BY DEF IInv, Sound, RecordedIsThere, NothingOverwritten
<1>3. DatabasesAgree /\ DependenciesInstalled
  BY DEF IInv, Sound, DatabasesAgree, DependenciesInstalled
<1> QED
  BY <1>1, <1>2, <1>3 DEF FilesAsRecorded, DatabasesConsistent

LEMMA Invariant == Spec => []IInv
  BY InitHolds, NextHolds, PTL DEF Spec

\* What install.db records is on the disk in that version and nobody else's,
\* whatever step fails or is cut short, and nobody takes a file of another
\* package without force (neupak.cpp:523-533, 2076-2174, 2316-2385).
THEOREM FilesAreAsRecorded == Spec => []FilesAsRecorded
  BY Invariant, Implied, PTL

\* Both databases speak of the same packages between commands, and what an
\* installed package needs is installed (neupak.cpp:1587-1609, 2350-2385, 2440-2485).
THEOREM DatabasesAreConsistent == Spec => []DatabasesConsistent
  BY Invariant, Implied, PTL
=============================================================================
