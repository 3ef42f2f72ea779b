------------------------------ MODULE TcpPorts ------------------------------
(***************************************************************************)
(* The control plane of tcpd (network-services/src/tcpd.cpp) with the TCP  *)
(* half of networkd's binding table: listen, connect and close requests of *)
(* applications, the asynchronous bind of a local port in networkd, the    *)
(* client ports cached after a connection, the connection slots from SYN   *)
(* to close, and a tcpd that crashes and is started again by init.         *)
(* Sequence numbers and data are in TcpStream.                             *)
(*                                                                         *)
(* The applications, the remote peers, the clock and the IPv4              *)
(* configuration, which comes and goes, are the environment; a step that   *)
(* needs a pipe or an endpoint may find it missing.                        *)
(***************************************************************************)
EXTENDS Naturals, Sequences, FiniteSets

CONSTANTS
  Ports,           \* local ports, numbers
  ListenPorts,     \* ports the applications listen on
  Ephemeral,       \* kEphemeralPortStart .. kEphemeralPortEnd
  Peers,           \* remote addresses with their port
  Reqs,            \* requests, each with a reply pipe of its own
  NoPort, NoPeer, NoReq,
  MaxListeners,    \* kMaxListeners
  MaxConnections,  \* kMaxConnections
  MaxClientPorts,  \* kMaxClientPorts
  MaxPending,      \* kMaxPendingConnects
  MaxSyns,         \* kSynMaxRetransmits
  MaxBindings,     \* kMaxBindings of networkd, less the UDP bindings
  MaxCrashes       \* bound: how often tcpd crashes

ASSUME PortsAssumption ==
  /\ ListenPorts \subseteq Ports
  /\ Ephemeral \subseteq Ports
  /\ Ports \subseteq Nat
  /\ NoPort \notin Ports
  /\ NoPeer \notin Peers
  /\ NoReq \notin Reqs
  /\ MaxListeners \in Nat /\ MaxConnections \in Nat /\ MaxClientPorts \in Nat
  /\ MaxPending \in Nat /\ MaxSyns \in Nat /\ MaxBindings \in Nat
  /\ MaxCrashes \in Nat

VARIABLES
  sent,      \* what each request is: "new" before it is made, "lost" when its
             \* pipe could not be opened or tcpd crashed before it answered
  wants,     \* the peer a connect request names
  answer,    \* the answer that the request's reply pipe got
  twice,     \* history: requests that got a second answer
  handle,    \* tcpd's write handle of each reply pipe
  lsn,       \* listeners: the request each port listens for
  bound,     \* ports whose Listener::bound is set
  cport,     \* client_ports: ports in use, with bound or binding_in_progress
  pend,      \* pending_connects: the request that waits for each port
  conn,      \* the connection slots
  toNet,     \* bind requests on their way to networkd; not live when the
             \* tcpd that wrote them has crashed
  toTcp,     \* bind responses on their way to tcpd
  bindings,  \* networkd: whose pipe each TCP port is bound to
  configured,\* whether load_ipv4_config() finds a configuration
  crashes

apps == <<sent, wants, answer, twice, handle>>
net  == <<toNet, toTcp, bindings>>
vars == <<apps, lsn, bound, cport, pend, conn, net, configured, crashes>>

Slots == 1..MaxConnections

State == {"closed", "synrcvd", "synsent", "established"}

Connection == [st : State, port : Ports \cup {NoPort}, peer : Peers \cup {NoPeer},
               req : Reqs \cup {NoReq}, inbound : BOOLEAN, retries : 0..MaxSyns]

\* reset_connection()
Unused == [st |-> "closed", port |-> NoPort, peer |-> NoPeer, req |-> NoReq,
           inbound |-> FALSE, retries |-> 0]

Used == {i \in Slots : conn[i].st # "closed"}

First(S) == {n \in S : \A k \in S : n =< k}

FreeSlot == First(Slots \ Used)

Listening == {p \in Ports : lsn[p] # NoReq}

Pending == {p \in Ports : pend[p] # NoReq}

ClientPorts == {p \in Ports : cport[p] # "free"}

BoundInNet == {p \in Ports : bindings[p] # "none"}

TypeOK ==
  /\ sent \in [Reqs -> {"new", "listen", "connect", "lost"}]
  /\ wants \in [Reqs -> Peers \cup {NoPeer}]
  /\ answer \in [Reqs -> {"none", "ok", "failed"}]
  /\ twice \subseteq Reqs
  /\ handle \in [Reqs -> {"none", "open", "closed"}]
  /\ lsn \in [Ports -> Reqs \cup {NoReq}]
  /\ bound \subseteq Ports
  /\ cport \in [Ports -> {"free", "binding", "bound"}]
  /\ pend \in [Ports -> Reqs \cup {NoReq}]
  /\ conn \in [Slots -> Connection]
  /\ toNet \in Seq([port : Ports, live : BOOLEAN])
  /\ toTcp \in Seq([port : Ports, ok : BOOLEAN])
  /\ bindings \in [Ports -> {"none", "tcpd", "gone"}]
  /\ configured \in BOOLEAN
  /\ crashes \in 0..MaxCrashes

Init ==
  /\ sent = [r \in Reqs |-> "new"]
  /\ wants = [r \in Reqs |-> NoPeer]
  /\ answer = [r \in Reqs |-> "none"]
  /\ twice = {}
  /\ handle = [r \in Reqs |-> "none"]
  /\ lsn = [p \in Ports |-> NoReq]
  /\ bound = {}
  /\ cport = [p \in Ports |-> "free"]
  /\ pend = [p \in Ports |-> NoReq]
  /\ conn = [i \in Slots |-> Unused]
  /\ toNet = <<>>
  /\ toTcp = <<>>
  /\ bindings = [p \in Ports |-> "none"]
  /\ configured \in BOOLEAN
  /\ crashes = 0

\* send_listen_response(), send_connect_response()
Answer(r, status) ==
  /\ answer' = [answer EXCEPT ![r] = status]
  /\ twice' = IF answer[r] # "none" THEN twice \cup {r} ELSE twice

\* A failure answer after which tcpd closes its handle of the reply pipe.
Refuse(r) ==
  /\ Answer(r, "failed")
  /\ handle' = [handle EXCEPT ![r] = "closed"]

Request(p) == [port |-> p, live |-> TRUE]

\* The reply pipe of a listen or connect request cannot be opened: the request
\* is dropped.
Dropped(r) ==
  /\ sent[r] = "new"
  /\ sent' = [sent EXCEPT ![r] = "lost"]
  /\ UNCHANGED <<wants, answer, twice, handle, lsn, bound, cport, pend, conn,
                 net, configured, crashes>>

-----------------------------------------------------------------------------
(* Listening: handle_listen_request().                                     *)

\* The port has a listener: the pipe is opened for the refusal alone.
ListenInUse(r, p) ==
  /\ sent[r] = "new"
  /\ p \in Listening
  /\ sent' = [sent EXCEPT ![r] = "listen"]
  /\ Refuse(r)
  /\ UNCHANGED <<wants, lsn, bound, cport, pend, conn, net, configured, crashes>>

\* No listener slot: the request is dropped without an answer.
ListenDropped(r, p) ==
  /\ sent[r] = "new"
  /\ p \notin Listening
  /\ Cardinality(Listening) >= MaxListeners
  /\ sent' = [sent EXCEPT ![r] = "listen"]
  /\ UNCHANGED <<wants, answer, twice, handle, lsn, bound, cport, pend, conn,
                 net, configured, crashes>>

\* networkd is asked for the port; when the message cannot be written the
\* slot is given back.
Listen(r, p) ==
  /\ sent[r] = "new"
  /\ p \notin Listening
  /\ Cardinality(Listening) < MaxListeners
  /\ sent' = [sent EXCEPT ![r] = "listen"]
  /\ bound' = bound \ {p}
  /\ \/ /\ handle' = [handle EXCEPT ![r] = "open"]
        /\ lsn' = [lsn EXCEPT ![p] = r]
        /\ toNet' = Append(toNet, Request(p))
        /\ UNCHANGED <<answer, twice>>
     \/ /\ Refuse(r)
        /\ UNCHANGED <<lsn, toNet>>
  /\ UNCHANGED <<wants, cport, pend, conn, toTcp, bindings, configured, crashes>>

-----------------------------------------------------------------------------
(* Connecting: handle_connect_request().                                   *)

BusyByControl(p) == p \in Listening \cup Pending

\* is_outbound_port_busy()
Busy(p) ==
  \/ p \in Listening \cup Pending
  \/ \E i \in Used : conn[i].port = p

Fresh == {p \in Ephemeral : cport[p] = "free" /\ ~Busy(p)}

IdleCached == {p \in Ports : cport[p] = "bound" /\ ~Busy(p)}

\* choose_client_port(): a fresh port, and a cached one only for want of it.
ClientPortChoice == IF Fresh # {} THEN First(Fresh) ELSE IdleCached

\* begin_outbound_connection() for request r over the bound port p: the SYN
\* is on its way, or for want of a slot, of the IPv4 configuration, of the
\* endpoint or of networkd the request fails.  The port stays bound.
Begin(r, p, peer) ==
  \/ /\ configured
     /\ \E i \in FreeSlot :
          conn' = [conn EXCEPT ![i] =
            [st |-> "synsent", port |-> p, peer |-> peer, req |-> r,
             inbound |-> FALSE, retries |-> 0]]
     /\ handle' = [handle EXCEPT ![r] = "open"]
     /\ UNCHANGED <<answer, twice>>
  \/ /\ Refuse(r)
     /\ UNCHANGED conn

Ask(r, peer) ==
  /\ sent[r] = "new"
  /\ sent' = [sent EXCEPT ![r] = "connect"]
  /\ wants' = [wants EXCEPT ![r] = peer]

\* With a cached port the connection begins at once.
ConnectCached(r, peer) ==
  /\ Ask(r, peer)
  /\ \E p \in ClientPortChoice : cport[p] = "bound" /\ Begin(r, p, peer)
  /\ UNCHANGED <<lsn, bound, cport, pend, net, configured, crashes>>

NoRoomToBind ==
  \/ Cardinality(ClientPorts) >= MaxClientPorts
  \/ Cardinality(Pending) >= MaxPending

\* No port at all, or a fresh port and no ClientPort or PendingConnect for it.
ConnectRefused(r, peer) ==
  /\ Ask(r, peer)
  /\ \/ ClientPortChoice = {}
     \/ NoRoomToBind /\ \E p \in ClientPortChoice : cport[p] = "free"
  /\ Refuse(r)
  /\ UNCHANGED <<lsn, bound, cport, pend, conn, net, configured, crashes>>

\* A fresh port is asked of networkd; when the message cannot be written,
\* the port and the pending connect are given back.
ConnectBinds(r, peer) ==
  /\ Ask(r, peer)
  /\ ~NoRoomToBind
  /\ \E p \in ClientPortChoice :
       /\ cport[p] = "free"
       /\ \/ /\ cport' = [cport EXCEPT ![p] = "binding"]
             /\ pend' = [pend EXCEPT ![p] = r]
             /\ toNet' = Append(toNet, Request(p))
             /\ handle' = [handle EXCEPT ![r] = "open"]
             /\ UNCHANGED <<answer, twice>>
          \/ /\ Refuse(r)
             /\ UNCHANGED <<cport, pend, toNet>>
  /\ UNCHANGED <<lsn, bound, conn, toTcp, bindings, configured, crashes>>

-----------------------------------------------------------------------------
(* networkd: handle_bind_request() for TCP.  No binding is ever undone.    *)

EveryReplyArrives(m) == TRUE

\* The reply pipe of a crashed tcpd is read by nobody.
ReplyArrives(m) == m.live

Reply(m, ok) ==
  toTcp' = IF ReplyArrives(m) THEN Append(toTcp, [port |-> m.port, ok |-> ok])
                              ELSE toTcp

SilentWhenBound(m) ==
  /\ bindings[m.port] # "none"
  /\ UNCHANGED <<toTcp, bindings>>

BindInUse(m) ==
  /\ bindings[m.port] # "none"
  /\ Reply(m, FALSE)
  /\ UNCHANGED bindings

\* No slot, or the pipe of a crashed tcpd that can no longer be opened: the
\* request is dropped without an answer.
BindDropped(m) ==
  /\ bindings[m.port] = "none"
  /\ Cardinality(BoundInNet) >= MaxBindings \/ ~m.live
  /\ UNCHANGED <<toTcp, bindings>>

BindOk(m) ==
  /\ bindings[m.port] = "none"
  /\ Cardinality(BoundInNet) < MaxBindings
  /\ bindings' = [bindings EXCEPT ![m.port] = IF m.live THEN "tcpd" ELSE "gone"]
  /\ Reply(m, TRUE)

Bind ==
  /\ toNet # <<>>
  /\ toNet' = Tail(toNet)
  /\ \/ BindInUse(Head(toNet))
     \/ BindDropped(Head(toNet))
     \/ BindOk(Head(toNet))
  /\ UNCHANGED <<apps, lsn, bound, cport, pend, conn, configured, crashes>>

-----------------------------------------------------------------------------
(* handle_bind_response().  A listener of the port takes the answer,       *)
(* whoever asked for it, then a pending connect; ResponsesOwned says that  *)
(* the code's third case, nobody waits, is never met.                      *)

Response == Head(toTcp)

ListenerBound ==
  /\ toTcp # <<>>
  /\ toTcp' = Tail(toTcp)
  /\ Response.port \in Listening
  /\ \/ /\ Response.ok
        /\ bound' = bound \cup {Response.port}
        /\ Answer(lsn[Response.port], "ok")
        /\ UNCHANGED <<handle, lsn>>
     \/ /\ ~Response.ok
        /\ bound' = bound \ {Response.port}
        /\ Refuse(lsn[Response.port])
        /\ lsn' = [lsn EXCEPT ![Response.port] = NoReq]
  /\ UNCHANGED <<sent, wants, cport, pend, conn, toNet, bindings, configured, crashes>>

PendingKept(p) == pend

PendingAfter(p) == [pend EXCEPT ![p] = NoReq]

ConnectBound ==
  /\ toTcp # <<>>
  /\ toTcp' = Tail(toTcp)
  /\ Response.port \notin Listening
  /\ Response.port \in Pending \cap ClientPorts
  /\ \/ /\ Response.ok
        /\ cport' = [cport EXCEPT ![Response.port] = "bound"]
        /\ Begin(pend[Response.port], Response.port, wants[pend[Response.port]])
     \/ /\ ~Response.ok
        /\ cport' = [cport EXCEPT ![Response.port] = "free"]
        /\ Refuse(pend[Response.port])
        /\ UNCHANGED conn
  /\ pend' = PendingAfter(Response.port)
  /\ UNCHANGED <<sent, wants, lsn, bound, toNet, bindings, configured, crashes>>

-----------------------------------------------------------------------------
(* Connections.                                                            *)

ClosesAnyHandle(i) == conn[i].req # NoReq

\* own_app_pipe_handle: the listener's handle outlives its connections.
OwnsHandle(i) == ~conn[i].inbound

\* The end of close_connection() and of a SYN that is given up; the client
\* port stays bound (release_client_port()).
CloseSlot(i) ==
  /\ conn' = [conn EXCEPT ![i] = Unused]
  /\ handle' = IF OwnsHandle(i) THEN [handle EXCEPT ![conn[i].req] = "closed"]
                                ELSE handle

MayRetry(i) == conn[i].retries < MaxSyns

\* A retry that is sent, or that networkd does not take, is counted.
Counts(i) == configured

\* A deadline of service_outbound_syns() passes.  With retries left and without
\* a configuration it is only moved, which changes nothing here; to give up
\* needs none.
SynTimer(i) ==
  /\ conn[i].st = "synsent"
  /\ \/ /\ MayRetry(i) /\ Counts(i)
        /\ conn' = [conn EXCEPT ![i].retries = @ + 1]
        /\ UNCHANGED <<answer, twice, handle>>
     \/ /\ ~MayRetry(i)
        /\ Answer(conn[i].req, "failed")
        /\ CloseSlot(i)
  /\ UNCHANGED <<sent, wants, lsn, bound, cport, pend, net, configured, crashes>>

\* handle_new_connection(): the SYN of a peer that has no connection with the
\* port; without a slot, the configuration or networkd it is dropped.
Syn(p, peer) ==
  /\ p \in bound \cap Listening
  /\ configured
  /\ \A i \in Used : <<conn[i].port, conn[i].peer>> # <<p, peer>>
  /\ \E i \in FreeSlot :
       conn' = [conn EXCEPT ![i] =
         [st |-> "synrcvd", port |-> p, peer |-> peer, req |-> lsn[p],
          inbound |-> TRUE, retries |-> 0]]
  /\ UNCHANGED <<apps, lsn, bound, cport, pend, net, configured, crashes>>

\* handle_existing_connection(): the last ACK of an inbound handshake, which
\* may bring a FIN as well; the SYN+ACK that answers a connect.
Established(i) ==
  /\ \/ /\ conn[i].st = "synrcvd"
        /\ \/ conn' = [conn EXCEPT ![i].st = "established"] /\ UNCHANGED handle
           \/ CloseSlot(i)
        /\ UNCHANGED <<answer, twice>>
     \/ /\ conn[i].st = "synsent"
        /\ conn' = [conn EXCEPT ![i].st = "established"]
        /\ Answer(conn[i].req, "ok")
        /\ UNCHANGED handle
  /\ UNCHANGED <<sent, wants, lsn, bound, cport, pend, net, configured, crashes>>


\* A connect that has been answered is not answered again.
ResetAnswers(i) == conn[i].st = "synsent"

\* RST, in any state.
Reset(i) ==
  /\ i \in Used
  /\ IF ResetAnswers(i) THEN Answer(conn[i].req, "failed")
                        ELSE UNCHANGED <<answer, twice>>
  /\ CloseSlot(i)
  /\ UNCHANGED <<sent, wants, lsn, bound, cport, pend, net, configured, crashes>>

\* The FIN of the peer, or the close of the application.
Close(i) ==
  /\ conn[i].st = "established"
  /\ CloseSlot(i)
  /\ UNCHANGED <<sent, wants, lsn, bound, cport, pend, answer, twice, net, configured, crashes>>

\* tcpd ends and init starts it again with empty tables: its pipes and
\* handles are gone, networkd keeps the bindings.
Crash ==
  /\ crashes < MaxCrashes
  /\ crashes' = crashes + 1
  /\ sent' = [r \in Reqs |-> IF sent[r] # "new" /\ answer[r] = "none" THEN "lost"
                                                                  ELSE sent[r]]
  /\ handle' = [r \in Reqs |-> IF handle[r] = "open" THEN "closed" ELSE handle[r]]
  /\ lsn' = [p \in Ports |-> NoReq]
  /\ bound' = {}
  /\ cport' = [p \in Ports |-> "free"]
  /\ pend' = [p \in Ports |-> NoReq]
  /\ conn' = [i \in Slots |-> Unused]
  /\ toNet' = [k \in DOMAIN toNet |-> [toNet[k] EXCEPT !.live = FALSE]]
  /\ toTcp' = <<>>
  /\ bindings' = [p \in Ports |-> IF bindings[p] = "tcpd" THEN "gone" ELSE bindings[p]]
  /\ UNCHANGED <<wants, answer, twice, configured>>

\* The link goes down or comes up, or dhcp or net sets another configuration.
Configuration ==
  /\ configured' = ~configured
  /\ UNCHANGED <<apps, lsn, bound, cport, pend, conn, net, crashes>>

-----------------------------------------------------------------------------
Connect(r) ==
  \E peer \in Peers :
    ConnectCached(r, peer) \/ ConnectRefused(r, peer) \/ ConnectBinds(r, peer)

ListenRequest(r) ==
  \E p \in ListenPorts : ListenInUse(r, p) \/ ListenDropped(r, p) \/ Listen(r, p)

Segment(i) == Established(i) \/ Reset(i) \/ Close(i)

Next ==
  \/ \E r \in Reqs : Connect(r) \/ ListenRequest(r) \/ Dropped(r)
  \/ Bind \/ ListenerBound \/ ConnectBound
  \/ \E i \in Slots : SynTimer(i) \/ Segment(i)
  \/ \E p \in Ports, peer \in Peers : Syn(p, peer)
  \/ Crash \/ Configuration

Spec == Init /\ [][Next]_vars

\* networkd and tcpd take the messages of their pipes, and the clock runs:
\* time_get() fails at most for a while, in which tcpd moves no deadline.
Fairness ==
  /\ WF_vars(Bind) /\ WF_vars(ListenerBound) /\ WF_vars(ConnectBound)
  /\ \A i \in Slots : WF_vars(SynTimer(i))

FairSpec == Spec /\ Fairness

-----------------------------------------------------------------------------
(* Properties.                                                             *)

Outbound == {i \in Used : ~conn[i].inbound}

\* A reply pipe gets one answer: not by a reset after the SYN+ACK, a SYN
\* given up after a reset, or a bind response that comes for the wrong
\* request (tcpd.cpp:409-422, 571, 1044, 1270).
AnsweredOnce == twice = {}

\* tcpd never writes through a handle of a reply pipe that it has closed: the
\* handle of a pending connect, of an outbound connection, and of a listener,
\* which its inbound connections share, is open (tcpd.cpp:533, 589, 1209).
HandlesOpen ==
  /\ \A p \in Listening : handle[lsn[p]] = "open"
  /\ \A p \in Pending : handle[pend[p]] = "open"
  /\ \A i \in Used : handle[conn[i].req] = "open"

\* A bind response that reaches tcpd finds somebody who waits for it, even
\* after a crash with requests of the dead tcpd still on their way: the
\* silent return of handle_bind_response() loses nothing (tcpd.cpp:1059).
ResponsesOwned ==
  \A k \in DOMAIN toTcp :
    toTcp[k].port \in Listening \cup (Pending \cap ClientPorts)

\* Every write to a reply pipe is one that its application waits for: at most
\* one answer to a request, all of them through a handle that is open, and no
\* answer of networkd without one (tcpd.cpp:409-422, 571, 589, 1059, 1209).
RepliesSafe == AnsweredOnce /\ HandlesOpen /\ ResponsesOwned

\* The three tables agree, and with networkd: a port is being bound exactly
\* while a connect waits for it, and a port that tcpd takes for bound, so one
\* whose segments it expects, is bound to the pipe of this tcpd and not to
\* that of one that crashed (tcpd.cpp:514-525, 949-975, 1062-1088).
PortsTied ==
  /\ \A p \in Ports : cport[p] = "binding" <=> pend[p] # NoReq
  /\ \A i \in Outbound : cport[conn[i].port] = "bound"
  /\ \A p \in Ports : p \in bound \/ cport[p] = "bound" => bindings[p] = "tcpd"

\* find_connection_by_tuple() stops at the first match: no two connections
\* share a port and a peer, although client ports are used again
\* (tcpd.cpp:200-222, 642-655).
TupleUnique ==
  \A i, j \in Used :
    i # j => <<conn[i].port, conn[i].peer>> # <<conn[j].port, conn[j].peer>>

\* networkd has no binding left for the port that r waits for.
NoBindingFor(r) ==
  \E p \in Ports :
    pend[p] = r /\ bindings[p] = "none" /\ Cardinality(BoundInNet) >= MaxBindings

\* A connect request is answered in the end, although segments are lost, the
\* port may be refused, tables may be full and the configuration comes and goes,
\* if only it stays at last: while there is none no retry is counted, and a SYN
\* is never given up.  Beyond that a crash of tcpd loses a request, and networkd,
\* which drops a bind without a word when its own table is full
\* (tcpd.cpp:553-627, 897-978, 1039-1089, networkd.cpp:531).
ConnectAnswered ==
  <>[]configured =>
    \A r \in Reqs : sent[r] = "connect" ~>
      answer[r] # "none" \/ sent[r] = "lost" \/ NoBindingFor(r)

\* tcpd.cpp:667-669 speaks of `reusing a cached bound port' when there is no
\* fresh one: a connect is not refused while an idle cached port and a
\* connection slot are at hand (tcpd.cpp:935-947).
CachedPortServes ==
  [][\A r \in Reqs, peer \in Peers :
       ConnectRefused(r, peer) => IdleCached = {}]_vars
=============================================================================
