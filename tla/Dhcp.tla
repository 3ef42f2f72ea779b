-------------------------------- MODULE Dhcp --------------------------------
(***************************************************************************)
(* The address of network interface 0: the client of                       *)
(* network-services/src/dhcp.cpp, which init starts, port 68 in networkd's *)
(* binding table, `netctl set-ip`, and the servers of the local network.   *)
(*                                                                         *)
(* Every attempt of the client has the same transaction id (make_xid()),   *)
(* so an answer to an earlier attempt is as good as one to this attempt.   *)
(* The servers are modelled from what the client expects of them.          *)
(***************************************************************************)
EXTENDS Naturals, Sequences

CONSTANTS
  Servers, Addrs, NoServer, NoAddr,
  Pool,          \* the addresses that each server gives
  MaxTroubles    \* bound: messages lost, waits that end with a message still
                 \* on its way, configurations that the driver refuses, times
                 \* that the link goes down or the client is killed

DhcpAssumption ==
  /\ NoServer \notin Servers /\ NoAddr \notin Addrs
  /\ Pool \in [Servers -> (SUBSET Addrs) \ {{}}]
  /\ MaxTroubles \in Nat

VARIABLES
  pc,      \* where the client's program is
  port,    \* port 68 in networkd: whose reply pipe it has
  link,    \* whether the interface is up
  config,  \* the interface's NetIpv4Config
  saved,   \* whether the machine settings have a static configuration
  told,    \* whether netctl said "ipv4 updated and saved"
  offer,   \* the offer that the client requested
  pipe,    \* the client's reply pipe
  sent,    \* messages on their way to a server
  net,     \* messages on their way to the client
  held,    \* the address that each server has given to this client
  troubles, \* how many of them there were
  stale,    \* history: an attempt was given up with messages on their way
  killed    \* history: the client was killed

client == <<pc, port, offer, pipe>>
iface  == <<link, config, saved, told>>
wires  == <<sent, net, held>>
counts == <<troubles, stale, killed>>
vars   == <<client, iface, wires, counts>>

Request == [kind : {"discover", "request"}, to : Servers,
            server : Servers \cup {NoServer}, addr : Addrs \cup {NoAddr}]

Answer == [kind : {"offer", "ack"}, server : Servers, addr : Addrs]

Config == [mode : {"none", "static", "lease"}, addr : Addrs \cup {NoAddr}]

NoOffer == [server |-> NoServer, addr |-> NoAddr]

Static == [mode |-> "static", addr |-> NoAddr]

TypeOK ==
  /\ pc \in {"off", "bind", "link", "offer", "ack", "serving", "done", "failed"}
  /\ port \in {"free", "client", "gone"}
  /\ link \in BOOLEAN /\ config \in Config /\ saved \in BOOLEAN /\ told \in BOOLEAN
  /\ offer \in [server : Servers \cup {NoServer}, addr : Addrs \cup {NoAddr}]
  /\ pipe \in Seq(Answer)
  /\ sent \subseteq Request /\ net \subseteq Answer
  /\ held \in [Servers -> Addrs \cup {NoAddr}]
  /\ troubles \in 0..MaxTroubles /\ stale \in BOOLEAN /\ killed \in BOOLEAN

Init ==
  /\ pc = "off" /\ port = "free"
  /\ link = TRUE /\ config = [mode |-> "none", addr |-> NoAddr]
  /\ saved = FALSE /\ told = FALSE
  /\ offer = NoOffer /\ pipe = <<>>
  /\ sent = {} /\ net = {} /\ held = [s \in Servers |-> NoAddr]
  /\ troubles = 0 /\ stale = FALSE /\ killed = FALSE

Trouble ==
  /\ troubles < MaxTroubles
  /\ troubles' = troubles + 1

-----------------------------------------------------------------------------
(* The client.                                                             *)

\* A client that init runs again after a failure starts over.
Starts == pc \in {"off", "failed"}

\* A saved configuration is applied, an unsaved one left as it is.
StartStatic ==
  /\ Starts
  /\ saved \/ config.mode = "static"
  /\ \/ /\ config' = IF saved THEN Static ELSE config
        /\ pc' = "done"
        /\ UNCHANGED troubles
     \/ /\ saved /\ Trouble
        /\ pc' = "failed"
        /\ UNCHANGED config
  /\ UNCHANGED <<port, link, saved, told, offer, pipe, wires, stale, killed>>

\* A reply pipe is made and networkd asked to bind port 68 to it.
StartDhcp ==
  /\ Starts
  /\ ~saved /\ config.mode # "static"
  /\ pc' = "bind" /\ pipe' = <<>>
  /\ UNCHANGED <<port, offer, iface, wires, counts>>

\* networkd's answer; a binding lasts until its owner unbinds it, which the
\* client never does.
Bind ==
  /\ pc = "bind"
  /\ \/ port = "free" /\ port' = "client" /\ pc' = "link"
     \/ port # "free" /\ pc' = "failed" /\ UNCHANGED port
  /\ UNCHANGED <<offer, pipe, iface, wires, counts>>

Broadcast(kind, server, addr) ==
  sent' = sent \cup
    {[kind |-> kind, to |-> s, server |-> server, addr |-> addr] : s \in Servers}

\* attempt_dhcp(), from the top of the loop and with the link up.
Discover ==
  /\ pc = "link" /\ link
  /\ Broadcast("discover", NoServer, NoAddr)
  /\ pc' = "offer"
  /\ UNCHANGED <<port, offer, pipe, iface, net, held, counts>>

IsOffer(m) == m.kind = "offer"

AnyAnswer(m) == TRUE

IsAck(m) == m.kind = "ack"

\* The first offer is requested, whichever attempt it answers.
TakeOffer ==
  /\ pc = "offer" /\ pipe # <<>> /\ IsOffer(Head(pipe))
  /\ offer' = [server |-> Head(pipe).server, addr |-> Head(pipe).addr]
  /\ pipe' = Tail(pipe)
  /\ Broadcast("request", Head(pipe).server, Head(pipe).addr)
  /\ pc' = "ack"
  /\ UNCHANGED <<port, iface, net, held, counts>>

\* The first acknowledgement is applied, whichever server it is from.
TakeAck ==
  /\ pc = "ack" /\ pipe # <<>> /\ IsAck(Head(pipe))
  /\ pipe' = Tail(pipe)
  /\ \/ /\ config' = [mode |-> "lease", addr |-> Head(pipe).addr]
        /\ pc' = "serving"
        /\ UNCHANGED <<troubles, stale>>
     \/ /\ Trouble
        /\ stale' = (stale \/ sent # {} \/ net # {} \/ pipe' # <<>>)
        /\ pc' = "link"
        /\ UNCHANGED config
  /\ UNCHANGED <<port, offer, link, saved, told, wires, killed>>

\* wait_for_reply() passes over what it does not wait for.
Reject ==
  /\ pipe # <<>>
  /\ \/ pc = "offer" /\ ~IsOffer(Head(pipe))
     \/ pc = "ack" /\ ~IsAck(Head(pipe))
  /\ pipe' = Tail(pipe)
  /\ UNCHANGED <<pc, port, offer, iface, wires, counts>>

GivesUp == "exit"

\* Where the client goes on after a wait without an answer.
Retries == "link"

\* The spins of wait_for_reply(), each of which reads the pipe, are used up.
\* With a message still on its way that is trouble.
Timeout ==
  /\ pc \in {"offer", "ack"} /\ pipe = <<>>
  /\ IF sent = {} /\ net = {} THEN UNCHANGED <<troubles, stale>> ELSE Trouble /\ stale' = TRUE
  /\ pc' = Retries
  /\ UNCHANGED <<port, offer, pipe, iface, wires, killed>>

\* `service restart`, or the end of the process: networkd keeps its binding.
Kill ==
  /\ pc \notin {"off", "done", "failed"}
  /\ Trouble
  /\ killed' = TRUE
  /\ pc' = "off" /\ pipe' = <<>>
  /\ port' = IF port = "client" THEN "gone" ELSE port
  /\ UNCHANGED <<offer, iface, wires, stale>>

-----------------------------------------------------------------------------
(* The environment.                                                        *)

\* `netctl set-ip`, once; the settings hive may not be writable.
SetIp ==
  /\ ~told /\ config.mode # "static"
  /\ config' = Static
  /\ \/ saved' = TRUE /\ told' = TRUE
     \/ UNCHANGED <<saved, told>>
  /\ UNCHANGED <<client, link, wires, counts>>

LinkDown ==
  /\ link /\ Trouble
  /\ link' = FALSE
  /\ UNCHANGED <<client, config, saved, told, wires, stale, killed>>

LinkUp ==
  /\ ~link
  /\ link' = TRUE
  /\ UNCHANGED <<client, config, saved, told, wires, counts>>

Offerable(s) == IF held[s] = NoAddr THEN Pool[s] ELSE {held[s]}

\* A server offers the address the client has from it, or any; a request for
\* its offer is granted, one for another's makes its own address free.
Serve(m) ==
  /\ sent' = sent \ {m}
  /\ \/ /\ m.kind = "discover"
        /\ \E a \in Offerable(m.to) :
             net' = net \cup {[kind |-> "offer", server |-> m.to, addr |-> a]}
        /\ UNCHANGED held
     \/ /\ m.kind = "request" /\ m.server = m.to
        /\ net' = net \cup {[kind |-> "ack", server |-> m.to, addr |-> m.addr]}
        /\ held' = [held EXCEPT ![m.to] = m.addr]
     \/ /\ m.kind = "request" /\ m.server # m.to
        /\ held' = [held EXCEPT ![m.to] = NoAddr]
        /\ UNCHANGED net
  /\ UNCHANGED <<client, iface, counts>>

\* poll_network(): a packet for port 68 goes to the pipe it is bound to.
Deliver(m) ==
  /\ net' = net \ {m}
  /\ pipe' = IF port = "client" THEN Append(pipe, m) ELSE pipe
  /\ UNCHANGED <<pc, port, offer, iface, sent, held, counts>>

Lose ==
  /\ Trouble
  /\ \/ \E m \in sent : sent' = sent \ {m} /\ UNCHANGED net
     \/ \E m \in net : net' = net \ {m} /\ UNCHANGED sent
  /\ UNCHANGED <<client, iface, held, stale, killed>>

Client ==
  \/ StartStatic \/ StartDhcp \/ Bind \/ Discover
  \/ TakeOffer \/ TakeAck \/ Reject \/ Timeout

Network == (\E m \in sent : Serve(m)) \/ (\E m \in net : Deliver(m))

Next == Client \/ Network \/ Kill \/ SetIp \/ LinkDown \/ LinkUp \/ Lose

Spec == Init /\ [][Next]_vars

\* The client runs, the link comes back, and messages arrive that are not lost.
Fairness ==
  /\ WF_vars(Client) /\ WF_vars(LinkUp)
  /\ \A m \in Request : WF_vars(m \in sent /\ Serve(m))
  /\ \A m \in Answer : WF_vars(m \in net /\ Deliver(m))

FairSpec == Spec /\ Fairness

-----------------------------------------------------------------------------
(* Properties.                                                             *)

\* As long as no attempt has been given up with messages on their way, the
\* address that the interface has is one that a server holds for this client:
\* other servers' offers, losses and retries never make it use an address that
\* was only offered or that its server has taken back (dhcp.cpp:422-460,
\* 513-617).
LeaseHeld ==
  ~stale /\ config.mode = "lease" => \E s \in Servers : held[s] = config.addr

\* Losses, late answers, refusals of the driver and drops of the link, as
\* long as they end, do not keep the client from an address, unless it is
\* killed (dhcp.cpp:795-822).
Unaddressed == config.mode = "none" /\ ~killed
Addressed == Unaddressed ~> ~Unaddressed

\* What set-ip reported as applied and saved stays in force
\* (network-tools/README.md:23-24).
StaticKept == told => config.mode = "static"
=============================================================================
