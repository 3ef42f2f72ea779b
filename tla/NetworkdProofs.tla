--------------------------- MODULE NetworkdProofs ---------------------------
(* For any number of hosts, any size of the table and any interleaving of  *)
(* frames with requests: packets go where their next hop is, a lookup that *)
(* is answered succeeds, and no handle of a pipe is lost.                  *)
EXTENDS Networkd, Integers, FiniteSetTheorems, TLAPS

Entries == [ip : Hosts, mac : Macs]

Known == {i \in 1..MaxArpEntries : arp[i] # None}

\* What the table needs of the frames.
Typed ==
  /\ rx \in Seq(Frames)
  /\ arp \in [1..MaxArpEntries -> Entries \cup {None}]
  /\ said \in [Hosts -> Macs \cup {None}]

\* A host has one entry, with the address that it announced last.
Latest ==
  /\ \A i, j \in Known : arp[i].ip = arp[j].ip => i = j
  /\ \A i \in Known : arp[i].mac = said[arp[i].ip]

IInv == Typed /\ Latest /\ NotMisdirected

LEMMA InitInv == Init => IInv
<1> SUFFICES ASSUME Init PROVE IInv
  OBVIOUS
<1>1. Known = {}
  BY DEF Init, Known
<1> QED
  BY <1>1 DEF Init, IInv, Typed, Latest, NotMisdirected

\* find_arp_entry() returns an entry of the host.
LEMMA Found ==
  ASSUME NEW h, NEW i \in EntriesOf(h)
  PROVE  i \in Known /\ arp[i].ip = h
BY DEF EntriesOf, First, Holds, Known

LEMMA TransmitRight ==
  ASSUME IInv, NEW h, NEW i \in EntriesOf(h), Transmit(h, i)
  PROVE  NotMisdirected'
<1>1. i \in Known /\ arp[i].ip = h
  BY Found
<1>2. arp[i].mac = said[h]
  BY <1>1 DEF IInv, Latest
<1> QED
  BY <1>2 DEF IInv, Transmit, NotMisdirected

\* The table and the addresses that were announced stay as they are.
LEMMA TableKept ==
  ASSUME Latest, UNCHANGED <<arp, said>>
  PROVE  Latest'
<1>1. Known' = Known
  BY DEF Known
<1> QED
  BY <1>1 DEF Latest

LEMMA RecordRight ==
  ASSUME IInv, ReadArp PROVE IInv'
<1> DEFINE h == Head(rx).ip
           m == Head(rx).mac
<1>1. /\ rx' \in Seq(Frames) /\ h \in Hosts /\ m \in Macs
  <2>1. rx \in Seq(Frames) /\ rx # <<>> /\ rx' = Tail(rx) /\ Head(rx).type = "arp"
    BY DEF IInv, Typed, ReadArp, Polls
  <2>2. rx' \in Seq(Frames) /\ Head(rx) \in Frames
    BY <2>1
  <2>3. Head(rx) \in [type : {"arp"}, ip : Hosts, mac : Macs]
    BY <2>1, <2>2 DEF Frames
  <2> QED
    BY <2>2, <2>3
<1> HIDE DEF h, m
<1>2. PICK i \in EntryFor(h) : arp' = [arp EXCEPT ![i] = [ip |-> h, mac |-> m]]
  BY DEF ReadArp, RecordArp, h, m
<1>3. said' = [said EXCEPT ![h] = m] /\ UNCHANGED misdirected
  BY DEF ReadArp, h, m
<1>4. i \in 1..MaxArpEntries
  <2>1. MaxArpEntries \in Nat \ {0}
    BY NetworkdAssumption DEF NetworkdAssumption
  <2> QED
    BY <1>2, <2>1 DEF EntryFor, EntriesOf, Allocated, First, Holds
<1>5. \A j \in Known : arp[j].ip = h => j = i
  <2>1. CASE HasEntry(h)
    <3>1. i \in Known /\ arp[i].ip = h
      BY <1>2, <2>1, Found DEF EntryFor
    <3> QED
      BY <3>1 DEF IInv, Latest
  <2>2. CASE ~HasEntry(h)
    BY <2>2 DEF HasEntry, Holds, Known
  <2> QED
    BY <2>1, <2>2
<1>6. Typed'
  BY <1>1, <1>2, <1>3, <1>4 DEF IInv, Typed, Entries
<1>7. /\ arp'[i] = [ip |-> h, mac |-> m] /\ arp'[i] # None
      /\ \A j \in 1..MaxArpEntries : j # i => arp'[j] = arp[j]
  BY <1>1, <1>2, <1>4, NetworkdAssumption DEF NetworkdAssumption, IInv, Typed
<1>8. \A j \in Known' : j = i \/ (j \in Known /\ arp'[j] = arp[j] /\ arp[j].ip # h)
  BY <1>5, <1>7 DEF Known
<1>9. \A j \in Known : arp[j].ip \in Hosts
  BY DEF Known, IInv, Typed, Entries
<1>10. Latest'
  BY <1>1, <1>3, <1>7, <1>8, <1>9 DEF IInv, Typed, Latest
<1> QED
  BY <1>3, <1>6, <1>10 DEF IInv, NotMisdirected

LEMMA StepInv == IInv /\ [Next]_vars => IInv'
<1> SUFFICES ASSUME IInv, [Next]_vars PROVE IInv'
  OBVIOUS
<1>1. Typed /\ Latest /\ NotMisdirected
  BY DEF IInv
<1>2. ASSUME UNCHANGED <<arp, said>>, rx' \in Seq(Frames), NotMisdirected' PROVE IInv'
  BY <1>1, <1>2, TableKept DEF IInv, Typed
<1>3. ASSUME rx # <<>>, rx' = Tail(rx) PROVE rx' \in Seq(Frames)
  BY <1>1, <1>3 DEF Typed
<1>4. CASE Bind \/ Unbind \/ ControlEmpty \/ NetworkEmpty \/ NextTurn \/ NotResolved
  BY <1>1, <1>2, <1>4
  DEF Bind, Unbind, ControlEmpty, NetworkEmpty, NextTurn, NotResolved, NotLooking, history, tables,
      Typed, NotMisdirected
<1>5. CASE Send
  <2>1. NotMisdirected'
    <3>1. CASE UNCHANGED misdirected
      BY <1>1, <3>1 DEF NotMisdirected
    <3>2. ASSUME NEW h, NEW i \in EntriesOf(h), Transmit(h, i) PROVE NotMisdirected'
      BY <3>2, TransmitRight
    <3> QED
      BY <1>5, <3>1, <3>2 DEF Send
  <2> QED
    BY <1>1, <1>2, <1>5, <2>1 DEF Send, tables, Typed
<1>6. CASE Ping
  <2>1. NotMisdirected'
    <3>1. CASE UNCHANGED misdirected
      BY <1>1, <3>1 DEF NotMisdirected
    <3>2. ASSUME NEW h, NEW i \in EntriesOf(h), Transmit(h, i) PROVE NotMisdirected'
      BY <3>2, TransmitRight
    <3> QED
      BY <1>6, <3>1, <3>2 DEF Ping
  <2> QED
    BY <1>1, <1>2, <1>6, <2>1 DEF Ping, Typed
<1>7. CASE Resolved
  <2>1. NotMisdirected'
    <3>1. PICK i \in EntriesOf(job.hop) : Transmit(job.hop, i)
      BY <1>7 DEF Resolved
    <3> QED
      BY <3>1, TransmitRight
  <2> QED
    BY <1>1, <1>2, <1>7, <2>1 DEF Resolved, Typed
<1>8. CASE ReadArp
  BY <1>8, RecordRight
<1>9. CASE ReadPacket \/ ReadEcho
  BY <1>1, <1>2, <1>3, <1>9 DEF ReadPacket, ReadEcho, Polls, history, tables, NotMisdirected
<1>10. CASE Receive
  <2>1. PICK f \in Frames : rx' = Append(rx, f)
    BY <1>10 DEF Receive
  <2>2. rx' \in Seq(Frames)
    BY <1>1, <2>1 DEF Typed
  <2> QED
    BY <1>1, <1>2, <1>10, <2>2 DEF Receive, history, tables, NotMisdirected
<1>11. CASE Ask \/ Configure \/ UNCHANGED vars \/ \E a \in Apps : ReadInbox(a) \/ Die(a)
  BY <1>1, <1>2, <1>11
  DEF Ask, Configure, ReadInbox, Die, vars, history, tables, Typed, NotMisdirected
<1> QED
  BY <1>4, <1>5, <1>6, <1>7, <1>8, <1>9, <1>10, <1>11 DEF Next, Loop

\* A packet goes to the hardware address that its next hop announced last,
\* also when the table overflows or a host moves (networkd.cpp:194-234, 766-801).
THEOREM PacketsReachTheirHop == Spec => []NotMisdirected
<1>1. IInv => NotMisdirected
  BY DEF IInv
<1> QED
  BY InitInv, StepInv, <1>1, PTL DEF Spec

-----------------------------------------------------------------------------
(* A lookup that is answered finds the address.                            *)

\* The table has an entry for every host (kMaxArpEntries).
TableHoldsHosts == IsFiniteSet(Hosts) /\ Cardinality(Hosts) =< MaxArpEntries

\* The next hop that has answered is in the table.
HeardIsKnown == job # None /\ heard => HasEntry(job.hop)

AInv == IInv /\ HeardIsKnown /\ NoAnswerMissed

\* With a host that is not known the table is not full: each entry is of a
\* host of its own.
LEMMA RoomForMore ==
  ASSUME TableHoldsHosts, Typed, Latest, NEW h \in Hosts, ~HasEntry(h)
  PROVE  \E i \in 1..MaxArpEntries : arp[i] = None
<1> SUFFICES ASSUME \A i \in 1..MaxArpEntries : arp[i] # None PROVE FALSE
  OBVIOUS
<1> DEFINE S == 1..MaxArpEntries
           T == Hosts \ {h}
           f == [i \in S |-> arp[i].ip]
<1>1. MaxArpEntries \in Nat \ {0}
  BY NetworkdAssumption DEF NetworkdAssumption
<1>2. IsFiniteSet(S) /\ Cardinality(S) = MaxArpEntries
  BY <1>1, FS_Interval
<1>3. IsFiniteSet(T) /\ Cardinality(T) = Cardinality(Hosts) - 1 /\ Cardinality(Hosts) \in Nat
  BY FS_RemoveElement, FS_CardinalityType DEF TableHoldsHosts
<1>4. f \in [S -> T]
  <2>1. ASSUME NEW i \in S PROVE arp[i].ip \in T
    BY <2>1 DEF Typed, Entries, HasEntry, Holds
  <2> QED
    BY <2>1
<1>5. Cardinality(T) < Cardinality(S)
  BY <1>1, <1>2, <1>3 DEF TableHoldsHosts
<1>6. PICK i, j \in S : i # j /\ f[i] = f[j]
  <2> HIDE DEF S, T, f
  <2> QED
    BY <1>2, <1>3, <1>4, <1>5, FS_PigeonHole
<1>7. i \in Known /\ j \in Known /\ arp[i].ip = arp[j].ip
  BY <1>6 DEF Known
<1> QED
  BY <1>6, <1>7 DEF Latest

\* An answer adds its host and takes no other host out of the table.
LEMMA RecordKeeps ==
  ASSUME TableHoldsHosts, Typed, Latest, NEW h \in Hosts, NEW m \in Macs, RecordArp(h, m)
  PROVE  HasEntry(h)' /\ \A g \in Hosts : HasEntry(g) => HasEntry(g)'
<1>1. PICK i \in EntryFor(h) : arp' = [arp EXCEPT ![i] = [ip |-> h, mac |-> m]]
  BY DEF RecordArp
<1>2. i \in 1..MaxArpEntries /\ (Holds(i, h) \/ arp[i] = None)
  <2>1. CASE HasEntry(h)
    BY <1>1, <2>1 DEF EntryFor, EntriesOf, First
  <2>2. CASE ~HasEntry(h)
    BY <1>1, <2>2, RoomForMore DEF EntryFor, Allocated, First
  <2> QED
    BY <2>1, <2>2
<1>3. arp'[i] = [ip |-> h, mac |-> m] /\ \A j \in 1..MaxArpEntries : j # i => arp'[j] = arp[j]
  BY <1>1, <1>2 DEF Typed
<1>4. arp'[i] # None
  BY <1>3, NetworkdAssumption DEF NetworkdAssumption
<1>5. HasEntry(h)'
  BY <1>2, <1>3, <1>4 DEF HasEntry, Holds
<1>6. ASSUME NEW g \in Hosts, HasEntry(g), g # h PROVE HasEntry(g)'
  <2>1. PICK j \in 1..MaxArpEntries : Holds(j, g)
    BY <1>6 DEF HasEntry
  <2>2. j # i
    BY <1>2, <1>6, <2>1 DEF Holds
  <2> QED
    BY <1>3, <2>1, <2>2 DEF HasEntry, Holds
<1> QED
  BY <1>5, <1>6

LEMMA AnswerStep == TableHoldsHosts /\ AInv /\ [Next]_vars => HeardIsKnown' /\ NoAnswerMissed'
<1> SUFFICES ASSUME TableHoldsHosts, AInv, [Next]_vars PROVE HeardIsKnown' /\ NoAnswerMissed'
  OBVIOUS
<1>0. Typed /\ Latest /\ HeardIsKnown /\ NoAnswerMissed
  BY DEF AInv, IInv
<1>1. CASE ReadArp
  <2>1. /\ rx # <<>> /\ RecordArp(Head(rx).ip, Head(rx).mac)
        /\ UNCHANGED <<job, missed>> /\ Head(rx).type = "arp"
        /\ heard' = (heard \/ (job # None /\ job.hop = Head(rx).ip))
    BY <1>1 DEF ReadArp, Polls
  <2>2. Head(rx) \in Frames
    BY <1>0, <2>1 DEF Typed
  <2>3. Head(rx).ip \in Hosts /\ Head(rx).mac \in Macs
    BY <2>1, <2>2 DEF Frames
  <2>4. PICK h \in Hosts, m \in Macs : h = Head(rx).ip /\ m = Head(rx).mac
    BY <2>3
  <2>5. HasEntry(h)' /\ \A g \in Hosts : HasEntry(g) => HasEntry(g)'
    BY <1>0, <2>1, <2>4, RecordKeeps
  <2>6. ASSUME NEW g, job # None, g = job.hop, heard PROVE HasEntry(g)'
    <3>1. PICK i \in 1..MaxArpEntries : Holds(i, g)
      BY <1>0, <2>6 DEF HeardIsKnown, HasEntry
    <3>2. g \in Hosts
      BY <1>0, <3>1 DEF Holds, Typed, Entries
    <3> QED
      BY <2>5, <3>1, <3>2 DEF HasEntry
  <2>7. ASSUME NEW g, job # None, g = job.hop, heard' PROVE HasEntry(g)'
    BY <2>1, <2>4, <2>5, <2>6, <2>7
  <2>8. HeardIsKnown'
    BY <2>1, <2>7 DEF HeardIsKnown, HasEntry, Holds
  <2> QED
    BY <1>0, <2>1, <2>8 DEF NoAnswerMissed
<1>2. CASE NotResolved
  BY <1>0, <1>2 DEF NotResolved, Looks, HeardIsKnown, NoAnswerMissed
<1>3. CASE Resolved
  BY <1>0, <1>3 DEF Resolved, HeardIsKnown, NoAnswerMissed
<1>4. CASE NextTurn
  BY <1>0, <1>4 DEF NextTurn, Looks, history, HeardIsKnown, NoAnswerMissed
<1>5. CASE Send
  <2>1. UNCHANGED <<arp, missed>> /\ (UNCHANGED <<job, heard>> \/ heard' = FALSE)
    BY <1>5 DEF Send, StartLookup, tables
  <2> QED
    BY <1>0, <2>1 DEF HeardIsKnown, NoAnswerMissed, HasEntry, Holds
<1>6. CASE Ping
  <2>1. UNCHANGED <<arp, missed>> /\ (UNCHANGED <<job, heard>> \/ heard' = FALSE)
    BY <1>6 DEF Ping, StartLookup
  <2> QED
    BY <1>0, <2>1 DEF HeardIsKnown, NoAnswerMissed, HasEntry, Holds
<1>7. CASE Bind \/ Unbind \/ ControlEmpty \/ NetworkEmpty \/ ReadPacket \/ ReadEcho
           \/ Ask \/ Receive \/ Configure \/ UNCHANGED vars
           \/ \E a \in Apps : ReadInbox(a) \/ Die(a)
  <2>1. UNCHANGED <<arp, missed, job, heard>>
    BY <1>7 DEF Bind, Unbind, ControlEmpty, NetworkEmpty, ReadPacket, ReadEcho, NotLooking, Ask,
                Receive, Configure, ReadInbox, Die, history, tables, vars
  <2> QED
    BY <1>0, <2>1 DEF HeardIsKnown, NoAnswerMissed, HasEntry, Holds
<1> QED
  BY <1>1, <1>2, <1>3, <1>4, <1>5, <1>6, <1>7 DEF Next, Loop

\* A lookup does not end in vain when the next hop has answered it, however
\* frames and turns alternate, if the table can hold the hosts of the network
\* (networkd.cpp:766-801).
THEOREM AnswersAreUsed == TableHoldsHosts => (Spec => []NoAnswerMissed)
<1> SUFFICES ASSUME TableHoldsHosts PROVE Spec => []NoAnswerMissed
  OBVIOUS
<1>1. Init => AInv
  BY InitInv DEF AInv, Init, HeardIsKnown, NoAnswerMissed
<1>2. AInv /\ [Next]_vars => AInv'
  BY StepInv, AnswerStep DEF AInv
<1>3. AInv => NoAnswerMissed
  BY DEF AInv
<1> QED
  BY <1>1, <1>2, <1>3, PTL DEF Spec

-----------------------------------------------------------------------------
(* Handles of the pipes of applications.                                   *)

Slots == 1..MaxPendingPings

BoundTo(a) == {p \in Ports : bindings[p] = a}

Awaiting(a) == {i \in Slots : pings[i] # None /\ pings[i].app = a}

LookedFor(a) == IF job # None /\ job.req.type = "ping" /\ job.req.of.app = a THEN 1 ELSE 0

Owned(a) == Cardinality(BoundTo(a)) + Cardinality(Awaiting(a)) + LookedFor(a)

\* The state that the handles depend on.
Sorts ==
  /\ config \in Configs \cup {None}
  /\ control \in Seq(Requests)
  /\ bindings \in [Ports -> Apps \cup {None}]
  /\ pings \in [Slots -> Pings \cup {None}]
  /\ handles \in [Apps -> Int]
  /\ job \in Jobs \cup {None}

\* The slot that a lookup will use for its ping stays free.
SlotKept == job # None /\ job.req.type = "ping" => job.slot \in Slots /\ pings[job.slot] = None

\* Each handle of networkd has its owner.
Counted == \A a \in Apps : handles[a] = Owned(a)

HInv == Sorts /\ SlotKept /\ Counted

LEMMA SlotsFinite == IsFiniteSet(Slots) /\ IsFiniteSet(Ports)
BY NetworkdAssumption, TrafficAssumption, FS_Interval DEF NetworkdAssumption, TrafficAssumption, Slots

LEMMA SetsFinite ==
  \A a : /\ IsFiniteSet(BoundTo(a)) /\ Cardinality(BoundTo(a)) \in Nat
         /\ IsFiniteSet(Awaiting(a)) /\ Cardinality(Awaiting(a)) \in Nat
         /\ LookedFor(a) \in Nat
<1> TAKE a
<1>1. BoundTo(a) \in SUBSET Ports /\ Awaiting(a) \in SUBSET Slots /\ LookedFor(a) \in Nat
  BY DEF BoundTo, Awaiting, LookedFor
<1> QED
  BY <1>1, SlotsFinite, FS_Subset, FS_CardinalityType

\* A port is bound to application a.
LEMMA BindCounts ==
  ASSUME Sorts, NEW p \in Ports, NEW a \in Apps, bindings[p] = None,
         bindings' = [bindings EXCEPT ![p] = a]
  PROVE  \A b \in Apps :
           Cardinality(BoundTo(b)') = Cardinality(BoundTo(b)) + (IF b = a THEN 1 ELSE 0)
<1> TAKE b \in Apps
<1>1. a # None /\ b # None
  BY NetworkdAssumption DEF NetworkdAssumption
<1>2. BoundTo(b)' = IF b = a THEN BoundTo(b) \cup {p} ELSE BoundTo(b)
  BY <1>1 DEF BoundTo, Sorts
<1>3. p \notin BoundTo(b)
  BY <1>1 DEF BoundTo
<1>4. Cardinality(BoundTo(b) \cup {p}) = Cardinality(BoundTo(b)) + 1 /\ Cardinality(BoundTo(b)) \in Nat
  BY <1>3, SetsFinite, FS_AddElement
<1> QED
  BY <1>2, <1>4

LEMMA UnbindCounts ==
  ASSUME Sorts, NEW p \in Ports, bindings[p] # None,
         bindings' = [bindings EXCEPT ![p] = None]
  PROVE  \A b \in Apps : Cardinality(BoundTo(b)') =
           Cardinality(BoundTo(b)) - (IF b = bindings[p] THEN 1 ELSE 0)
<1> TAKE b \in Apps
<1>1. b # None
  BY NetworkdAssumption DEF NetworkdAssumption
<1>2. BoundTo(b)' = BoundTo(b) \ {p}
  BY <1>1 DEF BoundTo, Sorts
<1>3. p \in BoundTo(b) <=> b = bindings[p]
  BY DEF BoundTo
<1>4. /\ Cardinality(BoundTo(b)) \in Nat
      /\ Cardinality(BoundTo(b) \ {p}) =
           IF p \in BoundTo(b) THEN Cardinality(BoundTo(b)) - 1 ELSE Cardinality(BoundTo(b))
  BY SetsFinite, FS_RemoveElement
<1> QED
  BY <1>2, <1>3, <1>4

\* Ping p waits in slot s.
LEMMA PingCounts ==
  ASSUME Sorts, NEW s \in Slots, NEW p \in Pings, pings[s] = None,
         pings' = [pings EXCEPT ![s] = p]
  PROVE  \A b \in Apps :
           Cardinality(Awaiting(b)') = Cardinality(Awaiting(b)) + (IF b = p.app THEN 1 ELSE 0)
<1> TAKE b \in Apps
<1>1. p # None
  BY NetworkdAssumption DEF NetworkdAssumption
<1>2. Awaiting(b)' = IF b = p.app THEN Awaiting(b) \cup {s} ELSE Awaiting(b)
  BY <1>1 DEF Awaiting, Sorts
<1>3. s \notin Awaiting(b)
  BY DEF Awaiting
<1>4. Cardinality(Awaiting(b) \cup {s}) = Cardinality(Awaiting(b)) + 1 /\ Cardinality(Awaiting(b)) \in Nat
  BY <1>3, SetsFinite, FS_AddElement
<1> QED
  BY <1>2, <1>4

LEMMA EchoCounts ==
  ASSUME Sorts, NEW s \in Slots, pings[s] # None, pings' = [pings EXCEPT ![s] = None]
  PROVE  \A b \in Apps : Cardinality(Awaiting(b)') =
           Cardinality(Awaiting(b)) - (IF b = pings[s].app THEN 1 ELSE 0)
<1> TAKE b \in Apps
<1>1. Awaiting(b)' = Awaiting(b) \ {s}
  BY DEF Awaiting, Sorts
<1>2. s \in Awaiting(b) <=> b = pings[s].app
  BY DEF Awaiting
<1>3. /\ Cardinality(Awaiting(b)) \in Nat
      /\ Cardinality(Awaiting(b) \ {s}) =
           IF s \in Awaiting(b) THEN Cardinality(Awaiting(b)) - 1 ELSE Cardinality(Awaiting(b))
  BY SetsFinite, FS_RemoveElement
<1> QED
  BY <1>1, <1>2, <1>3

\* Steps that leave the tables, the lookup and the handles alone.
LEMMA CountsKept ==
  ASSUME HInv, UNCHANGED <<bindings, pings, handles, job>>
  PROVE  SlotKept' /\ Counted'
<1>1. \A a : BoundTo(a)' = BoundTo(a) /\ Awaiting(a)' = Awaiting(a) /\ LookedFor(a)' = LookedFor(a)
  BY DEF BoundTo, Awaiting, LookedFor
<1> QED
  BY <1>1 DEF HInv, SlotKept, Counted, Owned

\* The request that is taken from the server pipe.
LEMMA Taken ==
  ASSUME Sorts, NEW type, Take(type)
  PROVE  /\ control' \in Seq(Requests) /\ Head(control) \in Requests
         /\ Head(control).type = type /\ job = None
<1>1. control # <<>> /\ control' = Tail(control) /\ Head(control).type = type /\ job = None
  BY DEF Take
<1> QED
  BY <1>1 DEF Sorts

LEMMA HopIsHost ==
  ASSUME config \in Configs, NEW d \in Hosts PROVE Hop(d) \in Hosts
BY TrafficAssumption DEF TrafficAssumption, Hop

\* A lookup that starts is well formed.
LEMMA LookupStarts ==
  ASSUME NEW r \in Requests, NEW h \in Hosts, NEW s \in 0..MaxPendingPings, StartLookup(r, h, s)
  PROVE  job' \in Jobs /\ job' # None /\ job'.req = r /\ job'.slot = s
<1>1. job' = [req |-> r, hop |-> h, turns |-> Turns, slot |-> s]
  BY DEF StartLookup
<1>2. Turns \in 1..Turns
  BY NetworkdAssumption DEF NetworkdAssumption
<1> QED
  BY <1>1, <1>2, TrafficAssumption DEF Jobs, TrafficAssumption

LEMMA OwnedBind == HInv /\ Bind => HInv'
<1> SUFFICES ASSUME HInv, Bind PROVE HInv'
  OBVIOUS
<1>0. Sorts /\ SlotKept /\ Counted
  BY DEF HInv
<1>1. PICK p, a : p = Head(control).port /\ a = Head(control).app
  OBVIOUS
<1>2. /\ control' \in Seq(Requests) /\ job = None
      /\ p \in Ports /\ a \in Apps
  <2>1. control' \in Seq(Requests) /\ Head(control) \in Requests /\ Head(control).type = "bind" /\ job = None
    BY <1>0, Taken DEF Bind
  <2> QED
    BY <1>1, <2>1 DEF Requests
<1>3. UNCHANGED <<config, job, pings>>
  BY DEF Bind, NotLooking
<1>4. CASE UNCHANGED <<bindings, handles>>
  BY <1>0, <1>2, <1>3, <1>4, CountsKept DEF HInv, Sorts
<1>5. CASE bindings[p] = None /\ bindings' = [bindings EXCEPT ![p] = a] /\ Opened(a)
  <2>1. Sorts'
    BY <1>0, <1>2, <1>3, <1>5 DEF Sorts, Opened
  <2>2. \A b \in Apps : handles'[b] = handles[b] + (IF b = a THEN 1 ELSE 0)
    BY <1>0, <1>5 DEF Sorts, Opened
  <2>3. \A b \in Apps : Awaiting(b)' = Awaiting(b) /\ LookedFor(b)' = LookedFor(b)
    BY <1>3 DEF Awaiting, LookedFor
  <2>4. ASSUME NEW b \in Apps PROVE Owned(b)' = Owned(b) + (IF b = a THEN 1 ELSE 0)
    <3>1. Cardinality(BoundTo(b)') = Cardinality(BoundTo(b)) + (IF b = a THEN 1 ELSE 0)
      BY <1>0, <1>2, <1>5, BindCounts
    <3> QED
      BY <2>3, <3>1, SetsFinite DEF Owned
  <2>5. Counted'
    BY <1>0, <2>2, <2>4 DEF Counted
  <2> QED
    BY <1>2, <1>3, <2>1, <2>5 DEF HInv, SlotKept
<1> QED
  BY <1>1, <1>4, <1>5 DEF Bind

LEMMA OwnedUnbind == HInv /\ Unbind => HInv'
<1> SUFFICES ASSUME HInv, Unbind PROVE HInv'
  OBVIOUS
<1>0. Sorts /\ SlotKept /\ Counted
  BY DEF HInv
<1>1. PICK p : p = Head(control).port
  OBVIOUS
<1>2. control' \in Seq(Requests) /\ job = None /\ p \in Ports
  <2>1. control' \in Seq(Requests) /\ Head(control) \in Requests /\ Head(control).type = "unbind" /\ job = None
    BY <1>0, Taken DEF Unbind
  <2> QED
    BY <1>1, <2>1 DEF Requests, Ports
<1>3. UNCHANGED <<config, job, pings>>
  BY DEF Unbind, NotLooking
<1>4. CASE UNCHANGED <<bindings, handles>>
  BY <1>0, <1>2, <1>3, <1>4, CountsKept DEF HInv, Sorts
<1>5. CASE /\ bindings[p] # None /\ bindings' = [bindings EXCEPT ![p] = None]
           /\ handles' = [handles EXCEPT ![bindings[p]] = @ - 1]
  <2>1. Sorts'
    BY <1>0, <1>2, <1>3, <1>5 DEF Sorts
  <2>2. \A b \in Apps : handles'[b] = handles[b] - (IF b = bindings[p] THEN 1 ELSE 0)
    BY <1>0, <1>2, <1>5 DEF Sorts
  <2>3. \A b \in Apps : Awaiting(b)' = Awaiting(b) /\ LookedFor(b)' = LookedFor(b)
    BY <1>3 DEF Awaiting, LookedFor
  <2>4. ASSUME NEW b \in Apps
        PROVE  Owned(b)' = Owned(b) - (IF b = bindings[p] THEN 1 ELSE 0)
    <3>1. Cardinality(BoundTo(b)') = Cardinality(BoundTo(b)) - (IF b = bindings[p] THEN 1 ELSE 0)
      BY <1>0, <1>2, <1>5, UnbindCounts
    <3> QED
      BY <2>3, <3>1, SetsFinite DEF Owned
  <2>5. Counted'
    BY <1>0, <2>2, <2>4 DEF Counted
  <2> QED
    BY <1>2, <1>3, <2>1, <2>5 DEF HInv, SlotKept
<1> QED
  BY <1>1, <1>4, <1>5 DEF Unbind

LEMMA OwnedSend == HInv /\ Send => HInv'
<1> SUFFICES ASSUME HInv, Send PROVE HInv'
  OBVIOUS
<1>0. Sorts /\ SlotKept /\ Counted
  BY DEF HInv
<1>1. PICK r : r = Head(control)
  OBVIOUS
<1>2. control' \in Seq(Requests) /\ job = None /\ r \in Requests /\ r.type = "send"
  BY <1>0, <1>1, Taken DEF Send
<1>3. UNCHANGED <<config, bindings, pings, handles>>
  BY DEF Send, environment, tables
<1>4. CASE UNCHANGED job
  BY <1>0, <1>2, <1>3, <1>4, CountsKept DEF HInv, Sorts
<1>5. CASE r.of.dest # None /\ config # None /\ StartLookup(r, Hop(r.of.dest), 0)
  <2>1. r.of.dest \in Hosts
    BY <1>2, <1>5, TrafficAssumption DEF Requests, TrafficAssumption
  <2>2. PICK h \in Hosts : h = Hop(r.of.dest)
    BY <1>0, <1>5, <2>1, HopIsHost DEF Sorts
  <2>3. job' \in Jobs /\ job' # None /\ job'.req = r
    BY <1>2, <1>5, <2>2, LookupStarts, NetworkdAssumption DEF NetworkdAssumption
  <2>4. \A b \in Apps : BoundTo(b)' = BoundTo(b) /\ Awaiting(b)' = Awaiting(b)
    BY <1>3 DEF BoundTo, Awaiting
  <2>5. \A b \in Apps : LookedFor(b)' = LookedFor(b)
    BY <1>2, <2>3 DEF LookedFor
  <2> QED
    BY <1>0, <1>2, <1>3, <2>3, <2>4, <2>5 DEF HInv, Sorts, SlotKept, Counted, Owned
<1> QED
  BY <1>1, <1>4, <1>5 DEF Send

LEMMA OwnedPing == HInv /\ Ping => HInv'
<1> SUFFICES ASSUME HInv, Ping PROVE HInv'
  OBVIOUS
<1>0. Sorts /\ SlotKept /\ Counted
  BY DEF HInv
<1>1. PICK r : r = Head(control)
  OBVIOUS
<1>2. control' \in Seq(Requests) /\ job = None /\ r \in Requests /\ r.type = "ping"
  BY <1>0, <1>1, Taken DEF Ping
<1>3. UNCHANGED <<config, bindings>>
  BY DEF Ping, environment
<1>4. CASE UNCHANGED <<job, pings, handles>>
  BY <1>0, <1>2, <1>3, <1>4, CountsKept DEF HInv, Sorts
<1>5. r.of \in Pings /\ r.of.app \in Apps /\ r.of.dest \in Hosts
  BY <1>2, TrafficAssumption DEF Requests, TrafficAssumption
<1>6. ASSUME config # None, Opened(r.of.app), NEW s \in FreePing,
             \/ pings' = [pings EXCEPT ![s] = r.of] /\ UNCHANGED job
             \/ StartLookup(r, Hop(r.of.dest), s) /\ UNCHANGED pings
      PROVE  HInv'
  <2>1. s \in Slots /\ pings[s] = None
    BY DEF FreePing, First, Slots
  <2>2. \A b \in Apps : handles'[b] = handles[b] + (IF b = r.of.app THEN 1 ELSE 0)
    BY <1>0, <1>6 DEF Sorts, Opened
  <2>3. handles' \in [Apps -> Int]
    BY <1>0, <1>5, <1>6 DEF Sorts, Opened
  <2>4. \A b \in Apps : BoundTo(b)' = BoundTo(b)
    BY <1>3 DEF BoundTo
  <2>5. CASE pings' = [pings EXCEPT ![s] = r.of] /\ UNCHANGED job
    <3>1. \A b \in Apps : LookedFor(b)' = LookedFor(b)
      BY <2>5 DEF LookedFor
    <3>2. ASSUME NEW b \in Apps PROVE Owned(b)' = Owned(b) + (IF b = r.of.app THEN 1 ELSE 0)
      <4>1. Cardinality(Awaiting(b)') = Cardinality(Awaiting(b)) + (IF b = r.of.app THEN 1 ELSE 0)
        BY <1>0, <1>5, <2>1, <2>5, PingCounts
      <4> QED
        BY <2>4, <3>1, <4>1, SetsFinite DEF Owned
    <3>3. Counted'
      BY <1>0, <2>2, <3>2 DEF Counted
    <3> QED
      BY <1>0, <1>2, <1>3, <1>5, <2>1, <2>3, <2>5, <3>3 DEF HInv, Sorts, SlotKept
  <2>6. CASE StartLookup(r, Hop(r.of.dest), s) /\ UNCHANGED pings
    <3>1. PICK h \in Hosts : h = Hop(r.of.dest)
      BY <1>0, <1>5, <1>6, HopIsHost DEF Sorts
    <3>2. job' \in Jobs /\ job' # None /\ job'.req = r /\ job'.slot = s
      BY <1>2, <2>1, <2>6, <3>1, LookupStarts DEF Slots
    <3>3. \A b \in Apps : Awaiting(b)' = Awaiting(b)
      BY <2>6 DEF Awaiting
    <3>4. \A b \in Apps : LookedFor(b)' = LookedFor(b) + (IF b = r.of.app THEN 1 ELSE 0)
      BY <1>2, <3>2 DEF LookedFor
    <3>5. \A b \in Apps : Owned(b)' = Owned(b) + (IF b = r.of.app THEN 1 ELSE 0)
      BY <2>4, <3>3, <3>4, SetsFinite DEF Owned
    <3>6. Counted'
      BY <1>0, <2>2, <3>5 DEF Counted
    <3> QED
      BY <1>0, <1>2, <1>3, <2>1, <2>3, <2>6, <3>2, <3>6 DEF HInv, Sorts, SlotKept
  <2> QED
    BY <1>6, <2>5, <2>6
<1> QED
  BY <1>1, <1>4, <1>6 DEF Ping

LEMMA OwnedEcho == HInv /\ ReadEcho => HInv'
<1> SUFFICES ASSUME HInv, ReadEcho PROVE HInv'
  OBVIOUS
<1>0. Sorts /\ SlotKept /\ Counted
  BY DEF HInv
<1>1. UNCHANGED <<config, control, bindings, job>>
  BY DEF ReadEcho
<1>2. CASE UNCHANGED <<pings, handles>>
  BY <1>0, <1>1, <1>2, CountsKept DEF HInv, Sorts
<1>3. ASSUME NEW s \in PingOf(Head(rx).echo),
             handles' = [handles EXCEPT ![pings[s].app] = @ - 1], Answered(s)
      PROVE  HInv'
  <2>1. s \in Slots /\ pings[s] # None
    BY <1>3 DEF PingOf, First, Slots
  <2>2. pings[s] \in Pings /\ pings[s].app \in Apps
    BY <1>0, <2>1, TrafficAssumption DEF Sorts, TrafficAssumption
  <2>3. pings' = [pings EXCEPT ![s] = None]
    BY <1>3 DEF Answered
  <2>4. \A b \in Apps : handles'[b] = handles[b] - (IF b = pings[s].app THEN 1 ELSE 0)
    BY <1>0, <1>3 DEF Sorts
  <2>5. \A b \in Apps : BoundTo(b)' = BoundTo(b) /\ LookedFor(b)' = LookedFor(b)
    BY <1>1 DEF BoundTo, LookedFor
  <2>6. ASSUME NEW b \in Apps PROVE Owned(b)' = Owned(b) - (IF b = pings[s].app THEN 1 ELSE 0)
    <3>1. Cardinality(Awaiting(b)') = Cardinality(Awaiting(b)) - (IF b = pings[s].app THEN 1 ELSE 0)
      BY <1>0, <2>1, <2>3, EchoCounts
    <3> QED
      BY <2>5, <3>1, SetsFinite DEF Owned
  <2>7. Counted'
    BY <1>0, <2>4, <2>6 DEF Counted
  <2>8. Sorts'
    BY <1>0, <1>1, <1>3, <2>1, <2>2, <2>3 DEF Sorts
  <2>9. SlotKept'
    BY <1>0, <1>1, <2>3 DEF SlotKept, Sorts
  <2> QED
    BY <2>7, <2>8, <2>9 DEF HInv
<1> QED
  BY <1>2, <1>3 DEF ReadEcho

LEMMA OwnedResolved == HInv /\ Resolved => HInv'
<1> SUFFICES ASSUME HInv, Resolved PROVE HInv'
  OBVIOUS
<1>0. Sorts /\ SlotKept /\ Counted
  BY DEF HInv
<1>1. UNCHANGED <<config, control, bindings, handles>> /\ job' = None /\ job # None
  BY DEF Resolved, environment, Looks
<1>2. job.req \in Requests
  BY <1>0, <1>1 DEF Sorts, Jobs
<1>3. \A b \in Apps : BoundTo(b)' = BoundTo(b) /\ LookedFor(b)' = 0
  BY <1>1 DEF BoundTo, LookedFor
<1>4. CASE job.req.type = "ping"
  <2>1. job.slot \in Slots /\ pings[job.slot] = None
    BY <1>0, <1>1, <1>4 DEF SlotKept
  <2>2. job.req.of \in Pings
    BY <1>2, <1>4 DEF Requests
  <2>3. PICK s \in Slots, p \in Pings : s = job.slot /\ p = job.req.of
    BY <2>1, <2>2
  <2>4. pings' = [pings EXCEPT ![s] = p]
    BY <1>4, <2>3 DEF Resolved
  <2>5. \A b \in Apps : LookedFor(b) = (IF b = p.app THEN 1 ELSE 0)
    BY <1>1, <1>4, <2>3 DEF LookedFor
  <2>6. ASSUME NEW b \in Apps PROVE Owned(b)' = Owned(b)
    <3>1. Cardinality(Awaiting(b)') = Cardinality(Awaiting(b)) + (IF b = p.app THEN 1 ELSE 0)
      BY <1>0, <2>1, <2>3, <2>4, PingCounts
    <3> QED
      BY <1>3, <2>5, <3>1, SetsFinite DEF Owned
  <2> QED
    BY <1>0, <1>1, <2>4, <2>6 DEF HInv, Sorts, SlotKept, Counted
<1>5. CASE job.req.type # "ping"
  <2>1. UNCHANGED pings
    BY <1>5 DEF Resolved
  <2>2. \A b \in Apps : Awaiting(b)' = Awaiting(b) /\ LookedFor(b) = 0
    BY <1>5, <2>1 DEF Awaiting, LookedFor
  <2> QED
    BY <1>0, <1>1, <1>3, <2>1, <2>2 DEF HInv, Sorts, SlotKept, Counted, Owned
<1> QED
  BY <1>4, <1>5

LEMMA OwnedNotResolved == HInv /\ NotResolved => HInv'
<1> SUFFICES ASSUME HInv, NotResolved PROVE HInv'
  OBVIOUS
<1>0. Sorts /\ SlotKept /\ Counted
  BY DEF HInv
<1>1. UNCHANGED <<config, control, bindings, pings>> /\ job' = None /\ job # None
  BY DEF NotResolved, environment, Looks
<1>2. \A b \in Apps : BoundTo(b)' = BoundTo(b) /\ Awaiting(b)' = Awaiting(b) /\ LookedFor(b)' = 0
  BY <1>1 DEF BoundTo, Awaiting, LookedFor
<1>3. \A b \in Apps : handles'[b] = handles[b] - LookedFor(b)
  BY <1>0, <1>1 DEF NotResolved, Closed, LookedFor, Sorts
<1>4. handles' \in [Apps -> Int]
  <2>1. job.req.type = "ping" => job.req.of.app \in Apps
    BY <1>0, <1>1, TrafficAssumption DEF Sorts, Jobs, Requests, TrafficAssumption
  <2> QED
    BY <1>0, <2>1 DEF NotResolved, Closed, Sorts
<1>5. Counted'
  BY <1>0, <1>2, <1>3, SetsFinite DEF Counted, Owned
<1> QED
  BY <1>0, <1>1, <1>4, <1>5 DEF HInv, Sorts, SlotKept

LEMMA OwnedNextTurn == HInv /\ NextTurn => HInv'
<1> SUFFICES ASSUME HInv, NextTurn PROVE HInv'
  OBVIOUS
<1>0. Sorts /\ SlotKept /\ Counted
  BY DEF HInv
<1>1. UNCHANGED <<config, control, bindings, pings, handles>> /\ job # None
  BY DEF NextTurn, environment, tables, Looks
<1>2. job \in Jobs /\ job.turns > 1 /\ job' = [job EXCEPT !.turns = @ - 1]
  BY <1>0, <1>1 DEF NextTurn, Sorts
<1>3. Turns \in Nat
  BY NetworkdAssumption DEF NetworkdAssumption
<1>4. job' \in Jobs /\ job'.req = job.req /\ job'.slot = job.slot
  BY <1>2, <1>3 DEF Jobs
<1>5. job' # None
  BY <1>4, TrafficAssumption DEF TrafficAssumption
<1>6. \A b \in Apps : BoundTo(b)' = BoundTo(b) /\ Awaiting(b)' = Awaiting(b) /\ LookedFor(b)' = LookedFor(b)
  BY <1>1, <1>4, <1>5 DEF BoundTo, Awaiting, LookedFor
<1> QED
  BY <1>0, <1>1, <1>4, <1>5, <1>6 DEF HInv, Sorts, SlotKept, Counted, Owned

LEMMA OwnedInit == Init => HInv
<1> SUFFICES ASSUME Init PROVE HInv
  OBVIOUS
<1>1. \A a \in Apps : BoundTo(a) = {} /\ Awaiting(a) = {} /\ LookedFor(a) = 0
  BY NetworkdAssumption DEF Init, BoundTo, Awaiting, LookedFor, NetworkdAssumption, Slots
<1>2. Cardinality({}) = 0
  BY FS_EmptySet
<1>3. \A a \in Apps : Owned(a) = 0
  <2> TAKE a \in Apps
  <2>1. Cardinality(BoundTo(a)) = 0 /\ Cardinality(Awaiting(a)) = 0 /\ LookedFor(a) = 0
    BY <1>1, <1>2
  <2> QED
    BY <2>1 DEF Owned
<1>4. Counted
  BY <1>3 DEF Init, Counted
<1> QED
  BY <1>4 DEF Init, HInv, Sorts, SlotKept, Slots

LEMMA OwnedStep == HInv /\ [Next]_vars => HInv'
<1> SUFFICES ASSUME HInv, [Next]_vars PROVE HInv'
  OBVIOUS
<1>0. Sorts
  BY DEF HInv
<1>1. CASE Ask
  <2>1. PICK r \in Requests : control' = Append(control, r)
    BY <1>1 DEF Ask
  <2>2. UNCHANGED <<config, bindings, pings, handles, job>>
    BY <1>1 DEF Ask, tables
  <2> QED
    BY <1>0, <2>1, <2>2, CountsKept DEF HInv, Sorts
<1>2. CASE Configure
  <2>1. UNCHANGED <<control, bindings, pings, handles, job>> /\ config' \in Configs \cup {None}
    BY <1>2 DEF Configure, tables
  <2> QED
    BY <1>0, <2>1, CountsKept DEF HInv, Sorts
<1>3. CASE ControlEmpty \/ NetworkEmpty \/ ReadArp \/ ReadPacket \/ Receive \/ UNCHANGED vars
           \/ \E a \in Apps : ReadInbox(a) \/ Die(a)
  <2>1. UNCHANGED <<config, control, bindings, pings, handles, job>>
    BY <1>3 DEF ControlEmpty, NetworkEmpty, ReadArp, ReadPacket, Receive, ReadInbox, Die,
                environment, tables, vars
  <2> QED
    BY <1>0, <2>1, CountsKept DEF HInv, Sorts
<1> QED
  BY <1>1, <1>2, <1>3, OwnedBind, OwnedUnbind, OwnedSend, OwnedPing, OwnedEcho, OwnedResolved,
     OwnedNotResolved, OwnedNextTurn DEF Next, Loop

\* networkd closes each handle of a reply pipe once, and loses none, on every
\* path of a bind, an unbind and a ping (networkd.cpp:489-577, 684-735, 852-869).
THEOREM HandlesAreOwned == Spec => []HandlesOwned
<1>1. HInv => HandlesOwned
  BY DEF HInv, Counted, Owned, BoundTo, Awaiting, LookedFor, Slots, HandlesOwned
<1> QED
  BY <1>1, OwnedInit, OwnedStep, PTL DEF Spec
=============================================================================
