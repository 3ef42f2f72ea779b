------------------------------ MODULE Networkd ------------------------------
(***************************************************************************)
(* The network daemon, network-services/src/networkd.cpp: one loop that    *)
(* reads requests from its server pipe and frames from the device.  It     *)
(* binds UDP and TCP ports to the pipes of applications, hands them what   *)
(* arrives, sends their packets and pings, and keeps the table of hardware *)
(* addresses.  A packet to an unknown next hop makes it poll the device    *)
(* inside the request until the address is known or Turns are over.        *)
(*                                                                         *)
(* A pipe of an application is the number of messages in it.               *)
(***************************************************************************)
EXTENDS Naturals, Sequences, FiniteSets

CONSTANTS
  Apps,      \* applications, each with a reply pipe
  UdpPorts, TcpPorts,
  Hosts, Macs,  \* IPv4 and hardware addresses of the local network
  Configs,      \* IPv4 configurations: [local, gateway], gateway None if zero
  Packets,      \* UDP and TCP packets to send: [port, dest], dest None for a broadcast
  Pings,        \* pings: [echo, app, dest], echo the identifier and sequence number
  None,
  MaxBindings, MaxArpEntries, MaxPendingPings, PipeSize,
  Turns,        \* polls of the device for one address, 5000 in the code
  MaxRequests, MaxFrames, MaxConfigs, MaxDeaths, MaxWaiting
                \* bounds: requests, frames, configurations, applications that
                \* end, and what waits in the server pipe and in the device

ASSUME NetworkdAssumption ==
  /\ MaxBindings \in Nat /\ MaxArpEntries \in Nat \ {0} /\ MaxPendingPings \in Nat
  /\ PipeSize \in Nat \ {0} /\ Turns \in Nat \ {0}
  /\ UdpPorts \cap TcpPorts = {}
  /\ None \notin Apps \cup Hosts \cup Macs \cup Configs \cup Pings
  /\ None \notin [ip : Hosts, mac : Macs]

VARIABLES
  config,    \* of the device, None while it is disabled
  rx,        \* frames that the device has received
  control,   \* the server pipe
  inbox, alive,   \* messages in the pipe of each application; those that run
  bindings,  \* the application that each bound port belongs to
  arp,       \* arp_entries
  pings,     \* pending_pings
  handles,   \* networkd's write handles to each pipe
  job,       \* lookup_or_resolve_mac(): the request, the next hop, the turns
             \* left and the slot that a ping found free
  polling,   \* poll_network() of the main loop, not poll_control()
  said,      \* history: the hardware address that each host announced last
  heard,     \* history: the next hop has answered since the lookup began
  missed,    \* history: a lookup ended without an address that was answered
  misdirected, \* history: a packet went to an address that its next hop had left
  pinged,    \* history: pings that were asked for
  asked, frames, configs \* history: requests, frames and configurations so far

environment == <<config, inbox, alive, pinged, asked, frames, configs>>
history == <<said, heard, missed, misdirected>>
tables == <<bindings, arp, pings, handles>>
vars == <<rx, control, environment, history, tables, job, polling>>

Ports == UdpPorts \cup TcpPorts

Requests ==
  [type : {"bind"}, port : Ports, app : Apps] \cup [type : {"unbind"}, port : UdpPorts]
    \cup [type : {"send"}, of : Packets] \cup [type : {"ping"}, of : Pings]

Frames ==
  [type : {"arp"}, ip : Hosts, mac : Macs] \cup [type : {"packet"}, port : Ports]
    \cup [type : {"echo"}, echo : {p.echo : p \in Pings}]

Jobs == [req : Requests, hop : Hosts, turns : 1..Turns, slot : 0..MaxPendingPings]

\* Ports are numbers of 16 bits; hosts and what is sent to them are on one network.
ASSUME TrafficAssumption ==
  /\ IsFiniteSet(Ports)
  /\ \A c \in Configs : c.gateway \in Hosts \cup {None}
  /\ \A p \in Packets : p.port \in Ports /\ p.dest \in Hosts \cup {None}
  /\ \A p \in Pings : p.app \in Apps /\ p.dest \in Hosts
  /\ None \notin Jobs

TypeOK ==
  /\ config \in Configs \cup {None}
  /\ rx \in Seq(Frames) /\ control \in Seq(Requests)
  /\ inbox \in [Apps -> 0..PipeSize] /\ alive \subseteq Apps
  /\ bindings \in [Ports -> Apps \cup {None}]
  /\ Cardinality({p \in Ports : bindings[p] # None}) =< MaxBindings
  /\ arp \in [1..MaxArpEntries -> [ip : Hosts, mac : Macs] \cup {None}]
  /\ pings \in [1..MaxPendingPings -> Pings \cup {None}]
  /\ handles \in [Apps -> Nat]
  /\ job \in Jobs \cup {None}
  /\ polling \in BOOLEAN
  /\ said \in [Hosts -> Macs \cup {None}]

Init ==
  /\ config = None /\ rx = <<>> /\ control = <<>>
  /\ inbox = [a \in Apps |-> 0] /\ alive = Apps
  /\ bindings = [p \in Ports |-> None]
  /\ arp = [i \in 1..MaxArpEntries |-> None]
  /\ pings = [i \in 1..MaxPendingPings |-> None]
  /\ handles = [a \in Apps |-> 0]
  /\ job = None /\ polling = FALSE
  /\ said = [h \in Hosts |-> None]
  /\ heard = FALSE /\ missed = FALSE /\ misdirected = FALSE
  /\ pinged = {} /\ asked = 0 /\ frames = 0 /\ configs = 0

-----------------------------------------------------------------------------
(* Applications, the network and the configuration.                        *)

\* An application makes a request; it makes each ping once.
Ask ==
  \E r \in Requests :
    /\ asked < MaxRequests /\ Len(control) < MaxWaiting
    /\ asked' = asked + 1
    /\ \/ r.type # "ping" /\ UNCHANGED pinged
       \/ r.type = "ping" /\ r.of \notin pinged /\ pinged' = pinged \cup {r.of}
    /\ control' = Append(control, r)
    /\ UNCHANGED <<rx, config, inbox, alive, frames, configs, history, tables, job, polling>>

ReadInbox(a) ==
  /\ a \in alive /\ inbox[a] > 0
  /\ inbox' = [inbox EXCEPT ![a] = @ - 1]
  /\ UNCHANGED <<rx, control, config, alive, pinged, asked, frames, configs, history, tables, job, polling>>

Die(a) ==
  /\ a \in alive /\ Cardinality(Apps \ alive) < MaxDeaths
  /\ alive' = alive \ {a}
  /\ inbox' = [inbox EXCEPT ![a] = 0]
  /\ UNCHANGED <<rx, control, config, pinged, asked, frames, configs, history, tables, job, polling>>

Receive ==
  \E f \in Frames :
    /\ frames < MaxFrames /\ Len(rx) < MaxWaiting
    /\ frames' = frames + 1
    /\ rx' = Append(rx, f)
    /\ UNCHANGED <<control, config, inbox, alive, pinged, asked, configs, history, tables, job, polling>>

Configure ==
  \E c \in Configs \cup {None} :
    /\ c # config /\ configs < MaxConfigs
    /\ configs' = configs + 1
    /\ config' = c
    /\ UNCHANGED <<rx, control, inbox, alive, pinged, asked, frames, history, tables, job, polling>>

-----------------------------------------------------------------------------
(* Helpers of networkd.                                                    *)

\* write_message(): waits while the pipe is full, fails when it is gone.
Write(a) ==
  IF a \in alive
  THEN inbox[a] < PipeSize /\ inbox' = [inbox EXCEPT ![a] = @ + 1]
  ELSE UNCHANGED inbox

First(S) == {i \in S : \A j \in S : i =< j}

Holds(i, h) == arp[i] # None /\ arp[i].ip = h

HasEntry(h) == \E i \in 1..MaxArpEntries : Holds(i, h)

\* find_arp_entry()
EntriesOf(h) == First({i \in 1..MaxArpEntries : Holds(i, h)})

\* allocate_arp_entry(): the first free entry, or entry 0.
Allocated ==
  IF \E i \in 1..MaxArpEntries : arp[i] = None
  THEN First({i \in 1..MaxArpEntries : arp[i] = None})
  ELSE {1}

AlwaysNew(h) == Allocated

EntryFor(h) == IF HasEntry(h) THEN EntriesOf(h) ELSE Allocated

UpdateArp(h, m) ==
  IF HasEntry(h)
  THEN \E i \in EntriesOf(h) : arp' = [arp EXCEPT ![i] = [ip |-> h, mac |-> m]]
  ELSE UNCHANGED arp

RecordArp(h, m) ==
  \E i \in EntryFor(h) : arp' = [arp EXCEPT ![i] = [ip |-> h, mac |-> m]]

FreePing == First({i \in 1..MaxPendingPings : pings[i] = None})

\* find_pending_ping()
PingOf(e) == First({i \in 1..MaxPendingPings : pings[i] # None /\ pings[i].echo = e})

\* resolve_next_hop()
Hop(dest) ==
  IF dest \notin config.local /\ config.gateway # None THEN config.gateway ELSE dest

Full == Cardinality({p \in Ports : bindings[p] # None}) = MaxBindings

Opened(a) == handles' = [handles EXCEPT ![a] = @ + 1]

-----------------------------------------------------------------------------
(* poll_control().                                                         *)

Take(type) ==
  /\ ~polling /\ job = None
  /\ control # <<>> /\ Head(control).type = type
  /\ control' = Tail(control)

NotLooking == UNCHANGED <<config, alive, pinged, asked, frames, configs, rx, job, polling, history>>

\* handle_bind_request()
Bind ==
  /\ Take("bind")
  /\ LET p == Head(control).port
         a == Head(control).app
     IN  \/ \* the reply says that the port is in use, or that it is bound
            /\ a \in alive
            /\ Write(a)
            /\ \/ bindings[p] # None /\ UNCHANGED <<bindings, handles>>
               \/ /\ bindings[p] = None /\ ~Full
                  /\ bindings' = [bindings EXCEPT ![p] = a]
                  /\ Opened(a)
         \/ \* no reply
            /\ a \notin alive \/ (bindings[p] = None /\ Full)
            /\ UNCHANGED <<bindings, handles, inbox>>
  /\ UNCHANGED <<arp, pings>>
  /\ NotLooking

\* handle_udp_unbind_request()
Unbind ==
  /\ Take("unbind")
  /\ LET p == Head(control).port
     IN  \/ /\ bindings[p] # None
            /\ bindings' = [bindings EXCEPT ![p] = None]
            /\ handles' = [handles EXCEPT ![bindings[p]] = @ - 1]
         \/ /\ bindings[p] = None
            /\ UNCHANGED <<bindings, handles>>
  /\ UNCHANGED <<inbox, arp, pings>>
  /\ NotLooking

Unknown(dest) == config # None /\ ~HasEntry(Hop(dest))

\* A packet to h with the hardware address of entry i.
Transmit(h, i) == misdirected' = (misdirected \/ arp[i].mac # said[h])

\* lookup_or_resolve_mac() finds no address and asks for one.
StartLookup(req, h, slot) ==
  /\ ~HasEntry(h)
  /\ job' = [req |-> req, hop |-> h, turns |-> Turns, slot |-> slot]
  /\ heard' = FALSE

\* handle_send_request(), handle_tcp_send_request()
Send ==
  /\ Take("send")
  /\ LET p == Head(control).of
     IN  \/ \* rejected, broadcast, or the device refuses the packet or the question
            UNCHANGED <<job, heard, misdirected>>
         \/ /\ bindings[p.port] # None /\ p.dest # None /\ config # None
            /\ \/ /\ \E i \in EntriesOf(Hop(p.dest)) : Transmit(Hop(p.dest), i)
                  /\ UNCHANGED <<job, heard>>
               \/ /\ StartLookup(Head(control), Hop(p.dest), 0)
                  /\ UNCHANGED misdirected
  /\ UNCHANGED <<rx, environment, said, missed, tables, polling>>

\* handle_icmp_request()
Ping ==
  /\ Take("ping")
  /\ LET p == Head(control).of
     IN  \/ \* rejected, or the device refuses the question; the handle is closed
            /\ p.app \notin alive \/ config = None \/ FreePing = {} \/ Unknown(p.dest)
            /\ UNCHANGED <<job, heard, misdirected, pings, handles>>
         \/ /\ p.app \in alive /\ config # None
            /\ Opened(p.app)
            /\ \E s \in FreePing :
                 \/ /\ \E i \in EntriesOf(Hop(p.dest)) : Transmit(Hop(p.dest), i)
                    /\ pings' = [pings EXCEPT ![s] = p]
                    /\ UNCHANGED <<job, heard>>
                 \/ /\ StartLookup(Head(control), Hop(p.dest), s)
                    /\ UNCHANGED <<misdirected, pings>>
  /\ UNCHANGED <<rx, environment, said, missed, bindings, arp, polling>>

ControlEmpty ==
  /\ ~polling /\ job = None /\ control = <<>>
  /\ polling' = TRUE
  /\ UNCHANGED <<rx, control, environment, history, tables, job>>

-----------------------------------------------------------------------------
(* poll_network(), of the main loop or of a lookup.                        *)

Polls(type) ==
  /\ polling \/ job # None
  /\ rx # <<>> /\ Head(rx).type = type
  /\ rx' = Tail(rx)

ReadArp ==
  /\ Polls("arp")
  /\ RecordArp(Head(rx).ip, Head(rx).mac)
  /\ said' = [said EXCEPT ![Head(rx).ip] = Head(rx).mac]
  /\ heard' = (heard \/ (job # None /\ job.hop = Head(rx).ip))
  /\ UNCHANGED <<control, environment, missed, misdirected, bindings, pings, handles,
                 job, polling>>

ReadPacket ==
  /\ Polls("packet")
  /\ IF bindings[Head(rx).port] # None THEN Write(bindings[Head(rx).port]) ELSE UNCHANGED inbox
  /\ UNCHANGED <<control, config, alive, pinged, asked, frames, configs, history, tables, job, polling>>

\* The slot of an answered ping is given back.
Answered(s) == pings' = [pings EXCEPT ![s] = None]

ReadEcho ==
  /\ Polls("echo")
  /\ \/ /\ PingOf(Head(rx).echo) = {}
        /\ UNCHANGED <<inbox, pings, handles>>
     \/ \E s \in PingOf(Head(rx).echo) :
          /\ Write(pings[s].app)
          /\ handles' = [handles EXCEPT ![pings[s].app] = @ - 1]
          /\ Answered(s)
  /\ UNCHANGED <<control, config, alive, pinged, asked, frames, configs, said, heard, missed,
                 misdirected, bindings, arp, job, polling>>

NetworkEmpty ==
  /\ polling /\ rx = <<>>
  /\ polling' = FALSE
  /\ UNCHANGED <<rx, control, environment, history, tables, job>>

Looks == job # None /\ rx = <<>>

\* The next hop is known: the packet goes out, the slot of a ping is used.
Resolved ==
  /\ Looks
  /\ \E i \in EntriesOf(job.hop) : Transmit(job.hop, i)
  /\ IF job.req.type = "ping"
     THEN pings' = [pings EXCEPT ![job.slot] = job.req.of]
     ELSE UNCHANGED pings
  /\ job' = None
  /\ UNCHANGED <<rx, control, environment, said, heard, missed, bindings, arp, handles,
                 polling>>

LeftOpen == handles

Closed == [handles EXCEPT ![job.req.of.app] = @ - 1]

SameTurn == Looks /\ ~HasEntry(job.hop) /\ job.turns > 1 /\ UNCHANGED vars

NextTurn ==
  /\ Looks /\ ~HasEntry(job.hop) /\ job.turns > 1
  /\ job' = [job EXCEPT !.turns = @ - 1]
  /\ UNCHANGED <<rx, control, environment, history, tables, polling>>

\* The turns are over: the packet is dropped.
NotResolved ==
  /\ Looks /\ ~HasEntry(job.hop) /\ job.turns = 1
  /\ job' = None
  /\ missed' = (missed \/ heard)
  /\ handles' = IF job.req.type = "ping" THEN Closed ELSE handles
  /\ UNCHANGED <<rx, control, environment, said, heard, misdirected, bindings, arp, pings,
                 polling>>

Loop ==
  \/ Bind \/ Unbind \/ Send \/ Ping \/ ControlEmpty
  \/ ReadArp \/ ReadPacket \/ ReadEcho \/ NetworkEmpty
  \/ Resolved \/ NextTurn \/ NotResolved

Next ==
  \/ Loop
  \/ Ask \/ Receive \/ Configure \/ \E a \in Apps : ReadInbox(a) \/ Die(a)

Spec == Init /\ [][Next]_vars

\* networkd is scheduled, and applications read their pipes.
Fairness == WF_vars(Loop) /\ \A a \in Apps : WF_vars(ReadInbox(a))

FairSpec == Spec /\ Fairness

-----------------------------------------------------------------------------
\* Every handle that networkd has opened belongs to a binding, to a ping that
\* waits or to the request under way: no early return leaks one, and the reply
\* that comes twice closes none twice (networkd.cpp:489-577, 684-735, 852-869).
HandlesOwned ==
  \A a \in Apps :
    handles[a] = Cardinality({p \in Ports : bindings[p] = a})
                 + Cardinality({i \in 1..MaxPendingPings : pings[i] # None /\ pings[i].app = a})
                 + (IF job # None /\ job.req.type = "ping" /\ job.req.of.app = a THEN 1 ELSE 0)

\* A packet goes to the hardware address that its next hop announced last, in
\* any state of the table (networkd.cpp:194-234, 766-801).
NotMisdirected == ~misdirected

\* A lookup does not end in vain when the next hop has answered it, as long as
\* the table holds all hosts (networkd.cpp:786-800).
NoAnswerMissed == ~missed

\* Requests are taken from the server pipe in the end: a lookup ends and an
\* application that is slow holds networkd up for a while only
\* (networkd.cpp:737-764).
RequestsServed == control # <<>> ~> control = <<>>
=============================================================================
