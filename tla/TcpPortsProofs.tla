--------------------------- MODULE TcpPortsProofs ---------------------------
(***************************************************************************)
(* Proofs about TcpPorts for every set of ports, peers and requests and    *)
(* every size of the tables.                                               *)
(***************************************************************************)
EXTENDS TcpPorts, TLAPS

\* A message taken from a pipe and what is left come from the pipe.
LEMMA TakeMessage ==
  ASSUME NEW M, NEW q \in Seq(M), q # <<>>
  PROVE  /\ Head(q) \in M
         /\ Tail(q) \in Seq(M)
         /\ \A k \in DOMAIN Tail(q) : \E j \in DOMAIN q : Tail(q)[k] = q[j]
         /\ \E j \in DOMAIN q : Head(q) = q[j]
OBVIOUS

\* What a sequence is made of.
LEMMA SeqElements ==
  ASSUME NEW M, NEW q \in Seq(M)
  PROVE  Len(q) \in Nat /\ DOMAIN q = 1..Len(q) /\ \A k \in 1..Len(q) : q[k] \in M
OBVIOUS

\* A function on 1..n is a sequence.
LEMMA ArrayIsSeq == ASSUME NEW M, NEW n \in Nat, NEW f \in [1..n -> M] PROVE f \in Seq(M)
OBVIOUS

\* A pipe after a write holds what it held and the message.
LEMMA SendMessage ==
  ASSUME NEW M, NEW q \in Seq(M), NEW m \in M
  PROVE  /\ Append(q, m) \in Seq(M)
         /\ \A k \in DOMAIN Append(q, m) :
              Append(q, m)[k] = m \/ \E j \in DOMAIN q : Append(q, m)[k] = q[j]
OBVIOUS
-----------------------------------------------------------------------------
(* Types.                                                                  *)

\* A slot in use names a port, a peer and a request.
Shaped ==
  \A i \in Used : conn[i].port \in Ports /\ conn[i].peer \in Peers /\ conn[i].req \in Reqs

Typed == TypeOK /\ Shaped

\* An answer, and one after which the handle is closed.
LEMMA AnswerTyped ==
  ASSUME TypeOK, NEW r \in Reqs, NEW status \in {"ok", "failed"}, Answer(r, status)
  PROVE  answer' \in [Reqs -> {"none", "ok", "failed"}] /\ twice' \subseteq Reqs
BY DEF TypeOK, Answer

LEMMA RefuseTyped ==
  ASSUME TypeOK, NEW r \in Reqs, Refuse(r)
  PROVE  /\ answer' \in [Reqs -> {"none", "ok", "failed"}] /\ twice' \subseteq Reqs
         /\ handle' \in [Reqs -> {"none", "open", "closed"}]
<1>1. answer' \in [Reqs -> {"none", "ok", "failed"}] /\ twice' \subseteq Reqs
  BY AnswerTyped DEF Refuse
<1> QED
  BY <1>1 DEF TypeOK, Refuse

\* A connection put in a slot, or changed there, leaves the others alone.
LEMMA SlotTyped ==
  ASSUME Typed, NEW i \in Slots, NEW c \in Connection,
         c.st # "closed" => c.port \in Ports /\ c.peer \in Peers /\ c.req \in Reqs,
         conn' = [conn EXCEPT ![i] = c]
  PROVE  conn' \in [Slots -> Connection] /\ Shaped'
BY DEF Typed, TypeOK, Shaped, Used

\* begin_outbound_connection() in either outcome.
LEMMA BeginTyped ==
  ASSUME Typed, NEW r \in Reqs, NEW p \in Ports, NEW peer \in Peers, Begin(r, p, peer)
  PROVE  /\ answer' \in [Reqs -> {"none", "ok", "failed"}] /\ twice' \subseteq Reqs
         /\ handle' \in [Reqs -> {"none", "open", "closed"}]
         /\ conn' \in [Slots -> Connection] /\ Shaped'
<1>1. CASE Refuse(r) /\ UNCHANGED conn
  BY <1>1, RefuseTyped DEF Typed, TypeOK, Shaped, Used
<1>2. ASSUME NEW i \in FreeSlot,
             conn' = [conn EXCEPT ![i] =
               [st |-> "synsent", port |-> p, peer |-> peer, req |-> r,
                inbound |-> FALSE, retries |-> 0]],
             handle' = [handle EXCEPT ![r] = "open"],
             UNCHANGED <<answer, twice>>
      PROVE  /\ answer' \in [Reqs -> {"none", "ok", "failed"}] /\ twice' \subseteq Reqs
             /\ handle' \in [Reqs -> {"none", "open", "closed"}]
             /\ conn' \in [Slots -> Connection] /\ Shaped'
  <2> DEFINE c == [st |-> "synsent", port |-> p, peer |-> peer, req |-> r,
                   inbound |-> FALSE, retries |-> 0]
  <2>1. i \in Slots
    BY DEF FreeSlot, First
  <2>2. c \in Connection
    BY PortsAssumption DEF PortsAssumption, Connection, State
  <2>3. conn' \in [Slots -> Connection] /\ Shaped'
    BY <1>2, <2>1, <2>2, SlotTyped
  <2> QED
    BY <1>2, <2>3 DEF Typed, TypeOK
<1> QED
  BY <1>1, <1>2 DEF Begin

\* A slot that is closed, with or without its handle.
LEMMA CloseTyped ==
  ASSUME Typed, NEW i \in Used, CloseSlot(i)
  PROVE  /\ handle' \in [Reqs -> {"none", "open", "closed"}]
         /\ conn' \in [Slots -> Connection] /\ Shaped'
<1>1. Unused \in Connection
  BY PortsAssumption DEF PortsAssumption, Connection, State, Unused
<1>2. conn' \in [Slots -> Connection] /\ Shaped'
  BY <1>1, SlotTyped DEF CloseSlot, Used, Unused
<1> QED
  BY <1>2 DEF CloseSlot, Typed, TypeOK

\* The shapes of the two pipes' messages.
LEMMA RequestTyped == \A p \in Ports : Request(p) \in [port : Ports, live : BOOLEAN]
BY DEF Request

LEMMA TypedListen ==
  ASSUME Typed, NEW r \in Reqs, NEW p \in ListenPorts,
         ListenInUse(r, p) \/ ListenDropped(r, p) \/ Listen(r, p)
  PROVE  Typed'
<1> USE PortsAssumption DEF PortsAssumption
<1>0. p \in Ports
  OBVIOUS
<1>1. CASE ListenInUse(r, p)
  <2>1. sent' \in [Reqs -> {"new", "listen", "connect", "lost"}]
    BY <1>1 DEF ListenInUse, Typed, TypeOK
  <2> QED
    BY <1>1, <2>1, RefuseTyped DEF ListenInUse, Typed, TypeOK, Shaped, Used, net
<1>2. CASE ListenDropped(r, p)
  BY <1>2 DEF ListenDropped, Typed, TypeOK, Shaped, Used, net
<1>3. CASE Listen(r, p)
  <2>1. CASE handle' = [handle EXCEPT ![r] = "open"]
             /\ lsn' = [lsn EXCEPT ![p] = r]
             /\ toNet' = Append(toNet, Request(p))
             /\ UNCHANGED <<answer, twice>>
    <3>1. toNet' \in Seq([port : Ports, live : BOOLEAN])
      BY <1>0, <2>1, RequestTyped, SendMessage DEF Typed, TypeOK
    <3> QED
      BY <1>0, <1>3, <2>1, <3>1 DEF Listen, Typed, TypeOK, Shaped, Used
  <2>2. CASE Refuse(r) /\ UNCHANGED <<lsn, toNet>>
    BY <1>3, <2>2, RefuseTyped DEF Listen, Typed, TypeOK, Shaped, Used
  <2> QED
    BY <1>3, <2>1, <2>2 DEF Listen
<1> QED
  BY <1>1, <1>2, <1>3

LEMMA AskTyped ==
  ASSUME Typed, NEW r \in Reqs, NEW peer \in Peers, Ask(r, peer)
  PROVE  /\ sent' \in [Reqs -> {"new", "listen", "connect", "lost"}]
         /\ wants' \in [Reqs -> Peers \cup {NoPeer}]
BY DEF Ask, Typed, TypeOK

LEMMA ChoiceIsPort == ASSUME NEW p \in ClientPortChoice PROVE p \in Ports
BY PortsAssumption DEF PortsAssumption, ClientPortChoice, First, Fresh, IdleCached

LEMMA TypedConnect ==
  ASSUME Typed, NEW r \in Reqs, NEW peer \in Peers,
         ConnectCached(r, peer) \/ ConnectRefused(r, peer) \/ ConnectBinds(r, peer)
  PROVE  Typed'
<1>0. /\ sent' \in [Reqs -> {"new", "listen", "connect", "lost"}]
      /\ wants' \in [Reqs -> Peers \cup {NoPeer}]
  BY AskTyped DEF ConnectCached, ConnectRefused, ConnectBinds
<1>1. CASE ConnectCached(r, peer)
  <2>1. PICK p \in ClientPortChoice : Begin(r, p, peer)
    BY <1>1 DEF ConnectCached
  <2>2. /\ answer' \in [Reqs -> {"none", "ok", "failed"}] /\ twice' \subseteq Reqs
        /\ handle' \in [Reqs -> {"none", "open", "closed"}]
        /\ conn' \in [Slots -> Connection] /\ Shaped'
    BY <2>1, ChoiceIsPort, BeginTyped
  <2> QED
    BY <1>0, <1>1, <2>2 DEF ConnectCached, Typed, TypeOK, net
<1>2. CASE ConnectRefused(r, peer)
  BY <1>0, <1>2, RefuseTyped DEF ConnectRefused, Typed, TypeOK, Shaped, Used, net
<1>3. CASE ConnectBinds(r, peer)
  <2>1. PICK p \in ClientPortChoice :
          \/ /\ cport' = [cport EXCEPT ![p] = "binding"]
             /\ pend' = [pend EXCEPT ![p] = r]
             /\ toNet' = Append(toNet, Request(p))
             /\ handle' = [handle EXCEPT ![r] = "open"]
             /\ UNCHANGED <<answer, twice>>
          \/ /\ Refuse(r)
             /\ UNCHANGED <<cport, pend, toNet>>
    BY <1>3 DEF ConnectBinds
  <2>2. p \in Ports
    BY ChoiceIsPort
  <2>3. CASE Refuse(r) /\ UNCHANGED <<cport, pend, toNet>>
    BY <1>0, <1>3, <2>3, RefuseTyped DEF ConnectBinds, Typed, TypeOK, Shaped, Used
  <2>4. CASE /\ cport' = [cport EXCEPT ![p] = "binding"]
             /\ pend' = [pend EXCEPT ![p] = r]
             /\ toNet' = Append(toNet, Request(p))
             /\ handle' = [handle EXCEPT ![r] = "open"]
             /\ UNCHANGED <<answer, twice>>
    <3>1. toNet' \in Seq([port : Ports, live : BOOLEAN])
      BY <2>2, <2>4, RequestTyped, SendMessage DEF Typed, TypeOK
    <3> QED
      BY <1>0, <1>3, <2>2, <2>4, <3>1 DEF ConnectBinds, Typed, TypeOK, Shaped, Used
  <2> QED
    BY <2>1, <2>3, <2>4
<1> QED
  BY <1>1, <1>2, <1>3

LEMMA TypedBind == Typed /\ Bind => Typed'
<1> SUFFICES ASSUME Typed, Bind PROVE Typed'
  OBVIOUS
<1> DEFINE m == Head(toNet)
<1>1. m \in [port : Ports, live : BOOLEAN] /\ toNet' \in Seq([port : Ports, live : BOOLEAN])
  BY TakeMessage DEF Bind, Typed, TypeOK
<1>2. \A ok \in BOOLEAN : Reply(m, ok) => toTcp' \in Seq([port : Ports, ok : BOOLEAN])
  <2> SUFFICES ASSUME NEW ok \in BOOLEAN, Reply(m, ok)
               PROVE  toTcp' \in Seq([port : Ports, ok : BOOLEAN])
    OBVIOUS
  <2> DEFINE a == [port |-> m.port, ok |-> ok]
  <2>1. a \in [port : Ports, ok : BOOLEAN]
    BY <1>1
  <2>2. Append(toTcp, a) \in Seq([port : Ports, ok : BOOLEAN])
    BY <2>1, SendMessage DEF Typed, TypeOK
  <2> QED
    BY <2>2 DEF Reply, Typed, TypeOK
<1>3. /\ toTcp' \in Seq([port : Ports, ok : BOOLEAN])
      /\ bindings' \in [Ports -> {"none", "tcpd", "gone"}]
  <2>1. CASE BindInUse(m)
    BY <1>2, <2>1 DEF BindInUse, Typed, TypeOK
  <2>2. CASE BindDropped(m)
    BY <2>2 DEF BindDropped, Typed, TypeOK
  <2>3. CASE BindOk(m)
    BY <1>1, <1>2, <2>3 DEF BindOk, Typed, TypeOK
  <2> QED
    BY <2>1, <2>2, <2>3 DEF Bind
<1> QED
  BY <1>1, <1>3 DEF Bind, Typed, TypeOK, Shaped, Used, apps

LEMMA TypedListenerBound == Typed /\ ListenerBound => Typed'
<1> SUFFICES ASSUME Typed, ListenerBound PROVE Typed'
  OBVIOUS
<1> DEFINE p == Response.port
<1>1. Response \in [port : Ports, ok : BOOLEAN] /\ toTcp' \in Seq([port : Ports, ok : BOOLEAN])
  BY TakeMessage DEF ListenerBound, Response, Typed, TypeOK
<1>2. p \in Ports /\ lsn[p] \in Reqs
  BY <1>1 DEF ListenerBound, Listening, Typed, TypeOK
<1>3. CASE Response.ok
  <2>1. bound' = bound \cup {p} /\ Answer(lsn[p], "ok") /\ UNCHANGED <<handle, lsn>>
    BY <1>3 DEF ListenerBound
  <2>2. answer' \in [Reqs -> {"none", "ok", "failed"}] /\ twice' \subseteq Reqs
    BY <1>2, <2>1, AnswerTyped DEF Typed
  <2> QED
    BY <1>1, <1>2, <2>1, <2>2 DEF ListenerBound, Typed, TypeOK, Shaped, Used
<1>4. CASE ~Response.ok
  <2>1. bound' = bound \ {p} /\ Refuse(lsn[p]) /\ lsn' = [lsn EXCEPT ![p] = NoReq]
    BY <1>4 DEF ListenerBound
  <2>2. /\ answer' \in [Reqs -> {"none", "ok", "failed"}] /\ twice' \subseteq Reqs
        /\ handle' \in [Reqs -> {"none", "open", "closed"}]
    BY <1>2, <2>1, RefuseTyped DEF Typed
  <2> QED
    BY <1>1, <1>2, <2>1, <2>2 DEF ListenerBound, Typed, TypeOK, Shaped, Used
<1> QED
  BY <1>3, <1>4

\* A request that waits for a port is a connect request that names a peer.
Waiting == \A p \in Pending : wants[pend[p]] \in Peers

LEMMA TypedConnectBound == Typed /\ Waiting /\ ConnectBound => Typed'
<1> SUFFICES ASSUME Typed, Waiting, ConnectBound PROVE Typed'
  OBVIOUS
<1> DEFINE p == Response.port
           r == pend[p]
<1>1. Response \in [port : Ports, ok : BOOLEAN] /\ toTcp' \in Seq([port : Ports, ok : BOOLEAN])
  BY TakeMessage DEF ConnectBound, Response, Typed, TypeOK
<1>2. p \in Ports /\ r \in Reqs /\ wants[r] \in Peers
  BY <1>1 DEF ConnectBound, Pending, Waiting, Typed, TypeOK
<1>3. /\ answer' \in [Reqs -> {"none", "ok", "failed"}] /\ twice' \subseteq Reqs
      /\ handle' \in [Reqs -> {"none", "open", "closed"}]
      /\ conn' \in [Slots -> Connection] /\ Shaped'
  <2>1. CASE Begin(r, p, wants[r])
    BY <1>2, <2>1, BeginTyped
  <2>2. CASE Refuse(r) /\ UNCHANGED conn
    BY <1>2, <2>2, RefuseTyped DEF Typed, TypeOK, Shaped, Used
  <2> QED
    BY <2>1, <2>2 DEF ConnectBound
<1>4. /\ cport' \in [Ports -> {"free", "binding", "bound"}]
      /\ pend' \in [Ports -> Reqs \cup {NoReq}]
  BY <1>2 DEF ConnectBound, PendingAfter, Typed, TypeOK
<1> QED
  BY <1>1, <1>3, <1>4 DEF ConnectBound, Typed, TypeOK

LEMMA TypedSynTimer == ASSUME Typed, NEW i \in Slots, SynTimer(i) PROVE Typed'
<1>0. i \in Used /\ conn[i] \in Connection /\ conn[i].req \in Reqs
  BY DEF SynTimer, Used, Typed, TypeOK, Shaped
<1>1. CASE MayRetry(i) /\ conn' = [conn EXCEPT ![i].retries = @ + 1]
           /\ UNCHANGED <<answer, twice, handle>>
  <2> DEFINE c == [conn[i] EXCEPT !.retries = @ + 1]
  <2>1. c \in Connection
    BY <1>0, <1>1, PortsAssumption DEF MayRetry, Connection, PortsAssumption
  <2>2. conn' \in [Slots -> Connection] /\ Shaped'
    <3>1. conn' = [conn EXCEPT ![i] = c]
      BY <1>1
    <3>2. c.port \in Ports /\ c.peer \in Peers /\ c.req \in Reqs
      BY <1>0 DEF Shaped, Typed, Connection
    <3> QED
      BY <2>1, <3>1, <3>2, SlotTyped
  <2> QED
    BY <1>1, <2>2 DEF SynTimer, Typed, TypeOK, net
<1>2. CASE Answer(conn[i].req, "failed") /\ CloseSlot(i)
  <2>1. answer' \in [Reqs -> {"none", "ok", "failed"}] /\ twice' \subseteq Reqs
    BY <1>0, <1>2, AnswerTyped DEF Typed
  <2> QED
    BY <1>0, <1>2, <2>1, CloseTyped DEF SynTimer, Typed, TypeOK, net
<1> QED
  BY <1>1, <1>2 DEF SynTimer

LEMMA TypedSyn == ASSUME Typed, NEW p \in Ports, NEW peer \in Peers, Syn(p, peer) PROVE Typed'
<1> DEFINE c == [st |-> "synrcvd", port |-> p, peer |-> peer, req |-> lsn[p],
                 inbound |-> TRUE, retries |-> 0]
<1>1. c \in Connection /\ c.req \in Reqs
  BY PortsAssumption DEF PortsAssumption, Connection, State, Syn, Listening, Typed, TypeOK
<1>2. PICK i \in FreeSlot : conn' = [conn EXCEPT ![i] = c]
  BY DEF Syn
<1>3. conn' \in [Slots -> Connection] /\ Shaped'
  <2>1. i \in Slots
    BY DEF FreeSlot, First
  <2>2. c.port \in Ports /\ c.peer \in Peers
    OBVIOUS
  <2> QED
    BY <1>1, <1>2, <2>1, <2>2, SlotTyped
<1> QED
  BY <1>3 DEF Syn, Typed, TypeOK, net, apps

LEMMA TypedSegment == ASSUME Typed, NEW i \in Slots, Segment(i) PROVE Typed'
<1>0. i \in Used /\ conn[i] \in Connection /\ conn[i].req \in Reqs
  BY DEF Segment, Established, Reset, Close, Used, Typed, TypeOK, Shaped
<1>1. CASE Established(i)
  <2> DEFINE c == [conn[i] EXCEPT !.st = "established"]
  <2>1. ASSUME conn' = [conn EXCEPT ![i].st = "established"]
        PROVE  conn' \in [Slots -> Connection] /\ Shaped'
    <3>1. c \in Connection /\ c.port \in Ports /\ c.peer \in Peers /\ c.req \in Reqs
      BY <1>0 DEF Connection, State, Shaped, Typed
    <3>2. conn' = [conn EXCEPT ![i] = c]
      BY <2>1
    <3> QED
      BY <3>1, <3>2, SlotTyped
  <2>2. ASSUME CloseSlot(i) PROVE conn' \in [Slots -> Connection] /\ Shaped'
    BY <1>0, <2>2, CloseTyped
  <2>3. conn' \in [Slots -> Connection] /\ Shaped'
    BY <1>1, <2>1, <2>2 DEF Established
  <2>4. handle' \in [Reqs -> {"none", "open", "closed"}]
    BY <1>0, <1>1, CloseTyped DEF Established, Typed, TypeOK
  <2>5. answer' \in [Reqs -> {"none", "ok", "failed"}] /\ twice' \subseteq Reqs
    BY <1>0, <1>1, AnswerTyped DEF Established, Typed, TypeOK
  <2> QED
    BY <1>1, <2>3, <2>4, <2>5 DEF Established, Typed, TypeOK, net
<1>2. CASE Reset(i)
  <2>1. answer' \in [Reqs -> {"none", "ok", "failed"}] /\ twice' \subseteq Reqs
    BY <1>0, <1>2, AnswerTyped DEF Reset, Typed, TypeOK
  <2> QED
    BY <1>0, <1>2, <2>1, CloseTyped DEF Reset, Typed, TypeOK, net
<1>3. CASE Close(i)
  BY <1>0, <1>3, CloseTyped DEF Close, Typed, TypeOK, net
<1> QED
  BY <1>1, <1>2, <1>3 DEF Segment

LEMMA TypedCrash == Typed /\ Crash => Typed'
<1> SUFFICES ASSUME Typed, Crash PROVE Typed'
  OBVIOUS
<1>1. Unused \in Connection
  BY PortsAssumption DEF PortsAssumption, Connection, State, Unused
<1>2. conn' \in [Slots -> Connection] /\ Shaped'
  BY <1>1 DEF Crash, Shaped, Used, Unused
<1>3. toNet' \in Seq([port : Ports, live : BOOLEAN])
  <2> DEFINE n == Len(toNet)
  <2>1. n \in Nat /\ DOMAIN toNet = 1..n
        /\ \A k \in 1..n : toNet[k] \in [port : Ports, live : BOOLEAN]
    BY SeqElements DEF Typed, TypeOK
  <2>2. toNet' = [k \in 1..n |-> [toNet[k] EXCEPT !.live = FALSE]]
    BY <2>1 DEF Crash
  <2>3. \A k \in 1..n : [toNet[k] EXCEPT !.live = FALSE] \in [port : Ports, live : BOOLEAN]
    BY <2>1
  <2> HIDE DEF n
  <2>4. toNet' \in [1..n -> [port : Ports, live : BOOLEAN]]
    BY <2>2, <2>3
  <2> QED
    BY <2>1, <2>4, ArrayIsSeq
<1>4. toTcp' \in Seq([port : Ports, ok : BOOLEAN])
  BY DEF Crash
<1>5. crashes' \in 0..MaxCrashes
  BY PortsAssumption DEF PortsAssumption, Crash, Typed, TypeOK
<1>6. /\ lsn' \in [Ports -> Reqs \cup {NoReq}] /\ bound' \subseteq Ports
      /\ cport' \in [Ports -> {"free", "binding", "bound"}]
      /\ pend' \in [Ports -> Reqs \cup {NoReq}]
      /\ bindings' \in [Ports -> {"none", "tcpd", "gone"}]
  BY DEF Crash, Typed, TypeOK
<1>7. /\ sent' \in [Reqs -> {"new", "listen", "connect", "lost"}]
      /\ handle' \in [Reqs -> {"none", "open", "closed"}]
      /\ wants' \in [Reqs -> Peers \cup {NoPeer}]
      /\ answer' \in [Reqs -> {"none", "ok", "failed"}]
      /\ twice' \subseteq Reqs
      /\ configured' \in BOOLEAN
  BY DEF Crash, Typed, TypeOK
<1> QED
  BY <1>2, <1>3, <1>4, <1>5, <1>6, <1>7 DEF Typed, TypeOK

LEMMA TypedDropped == ASSUME Typed, NEW r \in Reqs, Dropped(r) PROVE Typed'
<1>1. sent' \in [Reqs -> {"new", "listen", "connect", "lost"}]
  BY DEF Dropped, Typed, TypeOK
<1> QED
  BY <1>1 DEF Dropped, Typed, TypeOK, Shaped, Used, net

LEMMA TypedConfiguration == Typed /\ Configuration => Typed'
BY DEF Configuration, Typed, TypeOK, Shaped, Used, apps, net

-----------------------------------------------------------------------------
(* The tables agree.                                                       *)

\* A good answer on its way to tcpd tells of a port bound to this tcpd.
AckedPorts == \A k \in DOMAIN toTcp : toTcp[k].ok => bindings[toTcp[k].port] = "tcpd"

Agree == PortsTied /\ AckedPorts /\ Waiting

IInv == Typed /\ Agree

\* A begun connection is on the bound port it was begun on, or there is none.
LEMMA BeginOutbound ==
  ASSUME Typed, NEW r \in Reqs, NEW p \in Ports, NEW peer \in Peers, Begin(r, p, peer),
         NEW i \in Outbound'
  PROVE  conn'[i].port = p \/ (i \in Outbound /\ conn'[i] = conn[i])
BY DEF Begin, FreeSlot, First, Outbound, Used, Typed, TypeOK, Refuse

LEMMA AgreeListen ==
  ASSUME IInv, NEW r \in Reqs, NEW p \in ListenPorts,
         ListenInUse(r, p) \/ ListenDropped(r, p) \/ Listen(r, p)
  PROVE  Agree'
BY DEF ListenInUse, ListenDropped, Listen, IInv, Agree, PortsTied, AckedPorts, Waiting,
       Outbound, Used, Pending, net

\* A request that asks names its peer and takes no peer from another.
LEMMA AskKeepsPeers ==
  ASSUME Typed, NEW r \in Reqs, NEW peer \in Peers, Ask(r, peer)
  PROVE  /\ wants'[r] = peer
         /\ \A q \in Reqs : wants[q] \in Peers => wants'[q] \in Peers
BY DEF Ask, Typed, TypeOK

LEMMA AgreeConnect ==
  ASSUME IInv, NEW r \in Reqs, NEW peer \in Peers,
         ConnectCached(r, peer) \/ ConnectRefused(r, peer) \/ ConnectBinds(r, peer)
  PROVE  Agree'
<1>0. Typed /\ PortsTied /\ AckedPorts /\ Waiting
  BY DEF IInv, Agree
<1>1. CASE ConnectCached(r, peer)
  <2>1. PICK p \in ClientPortChoice : cport[p] = "bound" /\ Begin(r, p, peer)
    BY <1>1 DEF ConnectCached
  <2>2. p \in Ports
    BY ChoiceIsPort
  <2>3. \A i \in Outbound' : cport'[conn'[i].port] = "bound"
    BY <1>0, <1>1, <2>1, <2>2, BeginOutbound DEF ConnectCached, PortsTied
  <2>4. Waiting'
    BY <1>0, <1>1, AskKeepsPeers DEF ConnectCached, Waiting, Pending, Typed, TypeOK
  <2> QED
    BY <1>0, <1>1, <2>3, <2>4 DEF ConnectCached, Agree, PortsTied, AckedPorts, net
<1>2. CASE ConnectRefused(r, peer)
  <2>1. Waiting'
    BY <1>0, <1>2, AskKeepsPeers DEF ConnectRefused, Waiting, Pending, Typed, TypeOK
  <2> QED
    BY <1>0, <1>2, <2>1 DEF ConnectRefused, Agree, PortsTied, AckedPorts, net, Outbound, Used
<1>3. CASE ConnectBinds(r, peer)
  <2>1. PICK p \in ClientPortChoice :
          /\ cport[p] = "free"
          /\ \/ /\ cport' = [cport EXCEPT ![p] = "binding"]
                /\ pend' = [pend EXCEPT ![p] = r]
             \/ UNCHANGED <<cport, pend>>
    BY <1>3 DEF ConnectBinds
  <2>2. p \in Ports
    BY ChoiceIsPort
  <2>3. Waiting'
    BY <1>0, <1>3, <2>1, <2>2, AskKeepsPeers DEF ConnectBinds, Waiting, Pending, Typed, TypeOK
  <2>4. PortsTied'
    <3>1. UNCHANGED <<bound, conn, bindings>>
      BY <1>3 DEF ConnectBinds
    <3>2. \A q \in Ports : cport'[q] = "binding" <=> pend'[q] # NoReq
      BY <1>0, <2>1, <2>2, PortsAssumption DEF PortsAssumption, PortsTied, Typed, TypeOK
    <3>3. \A i \in Outbound' : cport'[conn'[i].port] = "bound"
      <4>1. \A i \in Outbound : conn[i].port \in Ports /\ cport[conn[i].port] = "bound"
        BY <1>0 DEF PortsTied, Outbound, Typed, Shaped
      <4>2. Outbound' = Outbound
        BY <3>1 DEF Outbound, Used
      <4> QED
        BY <1>0, <2>1, <2>2, <3>1, <4>1, <4>2 DEF Typed, TypeOK
    <3>4. \A q \in Ports : q \in bound' \/ cport'[q] = "bound" => bindings'[q] = "tcpd"
      BY <1>0, <2>1, <2>2, <3>1 DEF PortsTied, Typed, TypeOK
    <3> QED
      BY <3>2, <3>3, <3>4 DEF PortsTied
  <2>5. AckedPorts'
    BY <1>0, <1>3 DEF ConnectBinds, AckedPorts
  <2> QED
    BY <2>3, <2>4, <2>5 DEF Agree
<1> QED
  BY <1>1, <1>2, <1>3

LEMMA AgreeBind == IInv /\ Bind => Agree'
<1> SUFFICES ASSUME IInv, Bind PROVE Agree'
  OBVIOUS
<1> DEFINE m == Head(toNet)
<1>0. Typed /\ PortsTied /\ AckedPorts /\ Waiting
  BY DEF IInv, Agree
<1>1. m \in [port : Ports, live : BOOLEAN]
  <2>1. toNet \in Seq([port : Ports, live : BOOLEAN]) /\ toNet # <<>>
    BY <1>0 DEF Bind, Typed, TypeOK
  <2> QED
    BY <2>1, TakeMessage
<1>2. /\ \A p \in Ports : bindings[p] = "tcpd" => bindings'[p] = "tcpd"
      /\ \/ UNCHANGED toTcp
         \/ \E ok \in BOOLEAN :
              /\ toTcp' = Append(toTcp, [port |-> m.port, ok |-> ok])
              /\ ok => bindings'[m.port] = "tcpd"
  <2>1. CASE BindInUse(m)
    BY <2>1 DEF BindInUse, Reply
  <2>2. CASE BindDropped(m)
    BY <2>2 DEF BindDropped
  <2>3. CASE BindOk(m)
    <3>1. bindings \in [Ports -> {"none", "tcpd", "gone"}] /\ m.port \in Ports
      BY <1>0, <1>1 DEF Typed, TypeOK
    <3> HIDE DEF m
    <3> QED
      BY <1>1, <2>3, <3>1 DEF BindOk, Reply, ReplyArrives
  <2> QED
    BY <2>1, <2>2, <2>3 DEF Bind
<1>3. AckedPorts'
  <2>0. \A k \in DOMAIN toTcp : toTcp[k] \in [port : Ports, ok : BOOLEAN]
    <3>1. toTcp \in Seq([port : Ports, ok : BOOLEAN])
      BY <1>0 DEF Typed, TypeOK
    <3>2. DOMAIN toTcp = 1..Len(toTcp)
          /\ \A k \in 1..Len(toTcp) : toTcp[k] \in [port : Ports, ok : BOOLEAN]
      BY <3>1, SeqElements
    <3> QED
      BY <3>2
  <2>1. CASE UNCHANGED toTcp
    BY <1>0, <1>2, <2>0, <2>1 DEF AckedPorts
  <2>2. ASSUME NEW ok \in BOOLEAN,
               toTcp' = Append(toTcp, [port |-> m.port, ok |-> ok]),
               ok => bindings'[m.port] = "tcpd"
        PROVE  AckedPorts'
    <3> DEFINE a == [port |-> m.port, ok |-> ok]
    <3>1. a \in [port : Ports, ok : BOOLEAN]
      BY <1>1
    <3>2. \A k \in DOMAIN toTcp' : toTcp'[k] = a \/ \E j \in DOMAIN toTcp : toTcp'[k] = toTcp[j]
      BY <1>0, <2>2, <3>1, SendMessage DEF Typed, TypeOK
    <3>3. a.ok => bindings'[a.port] = "tcpd"
      BY <2>2
    <3> HIDE DEF a
    <3> QED
      BY <1>0, <1>2, <2>0, <3>2, <3>3 DEF AckedPorts
  <2> QED
    BY <1>2, <2>1, <2>2
<1> QED
  BY <1>0, <1>2, <1>3 DEF Bind, Agree, PortsTied, Waiting, Pending, Outbound, Used, apps,
                          Typed, Shaped, TypeOK

\* Taking an answer leaves answers that were there.
LEMMA AckedTail ==
  ASSUME IInv, toTcp # <<>>, toTcp' = Tail(toTcp), UNCHANGED bindings
  PROVE  /\ AckedPorts'
         /\ Response \in [port : Ports, ok : BOOLEAN]
         /\ Response.ok => bindings[Response.port] = "tcpd"
<1>1. /\ \A k \in DOMAIN toTcp' : \E j \in DOMAIN toTcp : toTcp'[k] = toTcp[j]
      /\ Response \in [port : Ports, ok : BOOLEAN]
      /\ \E j \in DOMAIN toTcp : Response = toTcp[j]
  <2>1. toTcp \in Seq([port : Ports, ok : BOOLEAN])
    BY DEF IInv, Typed, TypeOK
  <2>2. Response = Head(toTcp)
    BY DEF Response
  <2> QED
    BY <2>1, <2>2, TakeMessage
<1> QED
  BY <1>1 DEF IInv, Agree, AckedPorts

LEMMA AgreeListenerBound == IInv /\ ListenerBound => Agree'
<1> SUFFICES ASSUME IInv, ListenerBound PROVE Agree'
  OBVIOUS
<1>1. /\ AckedPorts'
      /\ Response \in [port : Ports, ok : BOOLEAN]
      /\ Response.ok => bindings[Response.port] = "tcpd"
  BY AckedTail DEF ListenerBound
<1> QED
  BY <1>1 DEF ListenerBound, IInv, Agree, PortsTied, Waiting, Pending, Outbound, Used

LEMMA AgreeConnectBound == IInv /\ ConnectBound => Agree'
<1> SUFFICES ASSUME IInv, ConnectBound PROVE Agree'
  OBVIOUS
<1> DEFINE p == Response.port
           r == pend[p]
<1>0. Typed /\ PortsTied /\ AckedPorts /\ Waiting
  BY DEF IInv, Agree
<1>1. /\ AckedPorts'
      /\ Response \in [port : Ports, ok : BOOLEAN]
      /\ Response.ok => bindings[p] = "tcpd"
  BY AckedTail DEF ConnectBound
<1>2. p \in Ports /\ r \in Reqs /\ wants[r] \in Peers /\ cport[p] = "binding"
  BY <1>0, <1>1 DEF ConnectBound, Pending, Waiting, PortsTied, Typed, TypeOK
<1>3. pend' = [pend EXCEPT ![p] = NoReq] /\ UNCHANGED <<wants, bound, bindings>>
  BY DEF ConnectBound, PendingAfter
<1>4. Waiting'
  BY <1>0, <1>2, <1>3 DEF Waiting, Pending, Typed, TypeOK
<1>5. CASE cport' = [cport EXCEPT ![p] = "bound"] /\ Begin(r, p, wants[r]) /\ Response.ok
  <2>1. \A i \in Outbound' : conn'[i].port = p \/ (i \in Outbound /\ conn'[i] = conn[i])
    BY <1>0, <1>2, <1>5, BeginOutbound
  <2>2. \A i \in Outbound : conn[i].port \in Ports
    BY <1>0 DEF Outbound, Typed, Shaped
  <2>3. \A q \in Ports : IF q = p THEN cport'[q] = "bound" /\ pend'[q] = NoReq
                                 ELSE cport'[q] = cport[q] /\ pend'[q] = pend[q]
    BY <1>0, <1>2, <1>3, <1>5 DEF Typed, TypeOK
  <2>4. /\ \A q \in Ports : cport[q] = "binding" <=> pend[q] # NoReq
        /\ \A i \in Outbound : cport[conn[i].port] = "bound"
        /\ \A q \in Ports : q \in bound \/ cport[q] = "bound" => bindings[q] = "tcpd"
    BY <1>0 DEF PortsTied
  <2>5. \A i \in Outbound' : cport'[conn'[i].port] = "bound"
    BY <1>2, <2>1, <2>2, <2>3, <2>4
  <2>6. PortsTied'
    BY <1>1, <1>3, <1>5, <2>3, <2>4, <2>5 DEF PortsTied
  <2> QED
    BY <1>1, <1>4, <2>6 DEF Agree
<1>6. CASE cport' = [cport EXCEPT ![p] = "free"] /\ UNCHANGED conn
  <2>1. \A i \in Outbound : conn[i].port \in Ports
    BY <1>0 DEF Outbound, Typed, Shaped
  <2> QED
    BY <1>0, <1>1, <1>2, <1>3, <1>4, <1>6, <2>1
       DEF Agree, PortsTied, Typed, TypeOK, Outbound, Used
<1> QED
  BY <1>5, <1>6 DEF ConnectBound

\* A step that makes no outbound connection and leaves the ports alone.
LEMMA AgreeFrame ==
  ASSUME IInv, UNCHANGED <<wants, bound, cport, pend, toTcp, bindings>>,
         \A i \in Outbound' : i \in Outbound /\ conn'[i].port = conn[i].port
  PROVE  Agree'
BY DEF IInv, Agree, PortsTied, AckedPorts, Waiting, Pending

LEMMA AgreeSlots ==
  ASSUME IInv, NEW i \in Slots, SynTimer(i) \/ Segment(i)
  PROVE  Agree'
<1>0. conn \in [Slots -> Connection]
  BY DEF IInv, Typed, TypeOK
<1>1. \/ conn' = [conn EXCEPT ![i].retries = @ + 1]
      \/ conn' = [conn EXCEPT ![i].st = "established"] /\ i \in Used
      \/ conn' = [conn EXCEPT ![i] = Unused]
  BY DEF SynTimer, Segment, Established, Reset, Close, CloseSlot, Used
<1>2. \A j \in Outbound' : j \in Outbound /\ conn'[j].port = conn[j].port
  BY <1>0, <1>1 DEF Outbound, Used, Unused, Connection
<1>3. UNCHANGED <<wants, bound, cport, pend, toTcp, bindings>>
  BY DEF SynTimer, Segment, Established, Reset, Close, net
<1> QED
  BY <1>2, <1>3, AgreeFrame

LEMMA AgreeSyn ==
  ASSUME IInv, NEW p \in Ports, NEW peer \in Peers, Syn(p, peer)
  PROVE  Agree'
<1>1. \A j \in Outbound' : j \in Outbound /\ conn'[j].port = conn[j].port
  BY DEF Syn, FreeSlot, First, Outbound, Used, IInv, Typed, TypeOK
<1> QED
  BY <1>1, AgreeFrame DEF Syn, net, apps

LEMMA AgreeCrash == IInv /\ Crash => Agree'
BY DEF Crash, IInv, Agree, PortsTied, AckedPorts, Waiting, Pending, Outbound, Used, Unused

LEMMA InvariantInit == Init => IInv
<1> SUFFICES ASSUME Init PROVE IInv
  OBVIOUS
<1> USE PortsAssumption DEF PortsAssumption, Init
<1>1. conn \in [Slots -> Connection] /\ Shaped
  BY DEF Connection, State, Unused, Shaped, Used
<1>2. TypeOK
  BY <1>1 DEF TypeOK
<1>3. Agree
  BY DEF Agree, PortsTied, AckedPorts, Waiting, Pending, Outbound, Used, Unused
<1> QED
  BY <1>1, <1>2, <1>3 DEF IInv, Typed

LEMMA InvariantStep == IInv /\ [Next]_vars => IInv'
<1> SUFFICES ASSUME IInv, [Next]_vars PROVE Typed' /\ Agree'
  BY DEF IInv
<1>0. Typed /\ Waiting
  BY DEF IInv, Agree
<1>1. ASSUME NEW r \in Reqs, Connect(r) PROVE Typed' /\ Agree'
  BY <1>0, <1>1, TypedConnect, AgreeConnect DEF Connect
<1>2. ASSUME NEW r \in Reqs, ListenRequest(r) PROVE Typed' /\ Agree'
  BY <1>0, <1>2, TypedListen, AgreeListen DEF ListenRequest
<1>3. CASE Bind
  BY <1>0, <1>3, TypedBind, AgreeBind
<1>4. CASE ListenerBound
  BY <1>0, <1>4, TypedListenerBound, AgreeListenerBound
<1>5. CASE ConnectBound
  BY <1>0, <1>5, TypedConnectBound, AgreeConnectBound
<1>6. ASSUME NEW i \in Slots, SynTimer(i) \/ Segment(i) PROVE Typed' /\ Agree'
  BY <1>0, <1>6, TypedSynTimer, TypedSegment, AgreeSlots
<1>7. ASSUME NEW p \in Ports, NEW peer \in Peers, Syn(p, peer) PROVE Typed' /\ Agree'
  BY <1>0, <1>7, TypedSyn, AgreeSyn
<1>8. CASE Crash
  BY <1>0, <1>8, TypedCrash, AgreeCrash
<1>9. ASSUME NEW r \in Reqs, Dropped(r) PROVE Typed' /\ Agree'
  <2>1. Agree'
    BY <1>9, AgreeFrame DEF Dropped, net, Outbound, Used
  <2> QED
    BY <1>0, <1>9, <2>1, TypedDropped
<1>10. CASE Configuration
  <2>1. Agree'
    BY <1>10, AgreeFrame DEF Configuration, apps, net, Outbound, Used
  <2> QED
    BY <1>0, <1>10, <2>1, TypedConfiguration
<1>11. CASE UNCHANGED vars
  <2>1. Typed'
    BY <1>0, <1>11 DEF vars, apps, net, Typed, TypeOK, Shaped, Used
  <2>2. Agree'
    BY <1>11, AgreeFrame DEF vars, apps, net, Outbound, Used
  <2> QED
    BY <2>1, <2>2
<1> QED
  BY <1>1, <1>2, <1>3, <1>4, <1>5, <1>6, <1>7, <1>8, <1>9, <1>10, <1>11 DEF Next

\* The tables keep their types.
THEOREM TypeCorrect == Spec => []TypeOK
<1>1. IInv => TypeOK
  BY DEF IInv, Typed
<1> QED
  BY <1>1, InvariantInit, InvariantStep, PTL DEF Spec

\* Client ports, pending connects, connections and networkd's bindings agree
\* in every state, over crashes of tcpd too.
THEOREM TablesAgree == Spec => []PortsTied
<1>1. IInv => PortsTied
  BY DEF IInv, Agree
<1> QED
  BY <1>1, InvariantInit, InvariantStep, PTL DEF Spec

-----------------------------------------------------------------------------
(* One connection for a port and a peer, when no application listens on an *)
(* ephemeral port.                                                         *)

Disjoint == ListenPorts \cap Ephemeral = {}

Apart ==
  /\ Listening \subseteq ListenPorts
  /\ ClientPorts \subseteq Ephemeral
  /\ \A i \in Used : conn[i].inbound => conn[i].port \in ListenPorts

UInv == IInv /\ Apart /\ TupleUnique

\* A connection with a tuple of its own joins the others.
LEMMA JoinUnique ==
  ASSUME Typed, TupleUnique, NEW i \in FreeSlot, NEW c,
         conn' = [conn EXCEPT ![i] = c],
         \A j \in Used : <<conn[j].port, conn[j].peer>> # <<c.port, c.peer>>
  PROVE  TupleUnique'
BY DEF TupleUnique, FreeSlot, First, Used, Typed, TypeOK

\* Slots that change neither port nor peer, or are closed.
LEMMA KeepUnique ==
  ASSUME TupleUnique,
         \A j \in Used' : /\ j \in Used /\ conn'[j].port = conn[j].port
                          /\ conn'[j].peer = conn[j].peer
  PROVE  TupleUnique'
BY DEF TupleUnique

\* A connection begun on a port that no other connection has.
LEMMA BeginUnique ==
  ASSUME Typed, TupleUnique, NEW r \in Reqs, NEW p \in Ports, NEW peer \in Peers,
         Begin(r, p, peer), \A j \in Used : conn[j].port # p
  PROVE  /\ TupleUnique'
         /\ \A j \in Used' : conn'[j].inbound => j \in Used /\ conn'[j] = conn[j]
<1>1. CASE UNCHANGED conn
  BY <1>1 DEF TupleUnique, Used
<1>2. ASSUME NEW i \in FreeSlot,
             conn' = [conn EXCEPT ![i] =
               [st |-> "synsent", port |-> p, peer |-> peer, req |-> r,
                inbound |-> FALSE, retries |-> 0]]
      PROVE  /\ TupleUnique'
             /\ \A j \in Used' : conn'[j].inbound => j \in Used /\ conn'[j] = conn[j]
  <2>1. TupleUnique'
    <3> DEFINE c == [st |-> "synsent", port |-> p, peer |-> peer, req |-> r,
                     inbound |-> FALSE, retries |-> 0]
    <3>1. \A j \in Used : <<conn[j].port, conn[j].peer>> # <<c.port, c.peer>>
      OBVIOUS
    <3> QED
      BY <1>2, <3>1, JoinUnique
  <2> QED
    BY <1>2, <2>1 DEF FreeSlot, First, Used, Typed, TypeOK
<1> QED
  BY <1>1, <1>2 DEF Begin

\* A port that a connect waits for has no connection.
LEMMA PendingIsFree ==
  ASSUME Disjoint, UInv, NEW p \in Pending
  PROVE  \A j \in Used : conn[j].port # p
<1> SUFFICES ASSUME NEW j \in Used, conn[j].port = p PROVE FALSE
  OBVIOUS
<1>1. cport[p] = "binding" /\ p \in Ephemeral
  BY DEF UInv, IInv, Agree, PortsTied, Apart, Pending, ClientPorts
<1>2. CASE conn[j].inbound
  BY <1>1, <1>2 DEF UInv, Apart, Disjoint
<1>3. CASE ~conn[j].inbound
  BY <1>1, <1>3 DEF UInv, IInv, Agree, PortsTied, Outbound
<1> QED
  BY <1>2, <1>3

LEMMA UniqueListen ==
  ASSUME UInv, NEW r \in Reqs, ListenRequest(r)
  PROVE  Apart' /\ TupleUnique'
<1> PICK p \in ListenPorts : ListenInUse(r, p) \/ ListenDropped(r, p) \/ Listen(r, p)
  BY DEF ListenRequest
<1>1. UNCHANGED <<conn, cport>>
  BY DEF ListenInUse, ListenDropped, Listen
<1>2. Listening' \subseteq ListenPorts
  BY DEF ListenInUse, ListenDropped, Listen, Listening, UInv, IInv, Typed, TypeOK, Apart
<1>3. TupleUnique'
  BY <1>1 DEF UInv, TupleUnique, Used
<1> QED
  BY <1>1, <1>2, <1>3 DEF Apart, UInv, Used, ClientPorts

LEMMA UniqueConnect ==
  ASSUME UInv, NEW r \in Reqs, Connect(r)
  PROVE  Apart' /\ TupleUnique'
<1>0. Typed /\ PortsTied /\ Apart /\ TupleUnique
  BY DEF UInv, IInv, Agree
<1>1. ASSUME NEW peer \in Peers, ConnectCached(r, peer) PROVE Apart' /\ TupleUnique'
  <2>1. PICK p \in ClientPortChoice : cport[p] = "bound" /\ Begin(r, p, peer)
    BY <1>1 DEF ConnectCached
  <2>2. p \in Ports
    BY ChoiceIsPort
  <2>3. p \in IdleCached
    BY <2>1 DEF ClientPortChoice, First, Fresh
  <2>4. \A j \in Used : conn[j].port # p
    BY <2>3 DEF IdleCached, Busy
  <2>5. /\ TupleUnique'
        /\ \A j \in Used' : conn'[j].inbound => j \in Used /\ conn'[j] = conn[j]
    BY <1>0, <2>1, <2>2, <2>4, BeginUnique
  <2> QED
    BY <1>0, <1>1, <2>5 DEF ConnectCached, Apart, Listening, ClientPorts
<1>2. ASSUME NEW peer \in Peers, ConnectRefused(r, peer) PROVE Apart' /\ TupleUnique'
  BY <1>0, <1>2 DEF ConnectRefused, Apart, TupleUnique, Listening, ClientPorts, Used
<1>3. ASSUME NEW peer \in Peers, ConnectBinds(r, peer) PROVE Apart' /\ TupleUnique'
  <2>1. PICK p \in ClientPortChoice :
          cport[p] = "free" /\ (cport' = [cport EXCEPT ![p] = "binding"] \/ UNCHANGED cport)
    BY <1>3 DEF ConnectBinds
  <2>2. p \in Ephemeral
    BY <2>1 DEF ClientPortChoice, First, Fresh, IdleCached
  <2>3. ClientPorts' \subseteq Ephemeral
    BY <1>0, <2>1, <2>2 DEF Apart, ClientPorts, Typed, TypeOK
  <2> QED
    BY <1>0, <1>3, <2>3 DEF ConnectBinds, Apart, TupleUnique, Listening, Used
<1> QED
  BY <1>1, <1>2, <1>3 DEF Connect

LEMMA UniqueAnswer ==
  ASSUME Disjoint, UInv, ListenerBound \/ ConnectBound
  PROVE  Apart' /\ TupleUnique'
<1>0. Typed /\ Waiting /\ Apart /\ TupleUnique
  BY DEF UInv, IInv, Agree
<1>1. CASE ListenerBound
  BY <1>0, <1>1 DEF ListenerBound, Apart, TupleUnique, Listening, ClientPorts, Used, Typed, TypeOK
<1>2. CASE ConnectBound
  <2> DEFINE p == Response.port
             r == pend[p]
  <2>1. p \in Pending /\ p \in ClientPorts /\ p \in Ports /\ r \in Reqs /\ wants[r] \in Peers
    BY <1>0, <1>2 DEF ConnectBound, Pending, Waiting, Typed, TypeOK
  <2>2. \A j \in Used : conn[j].port # p
    BY <2>1, PendingIsFree
  <2>3. /\ TupleUnique'
        /\ \A j \in Used' : conn'[j].inbound => j \in Used /\ conn'[j] = conn[j]
    <3>1. CASE Begin(r, p, wants[r])
      BY <1>0, <2>1, <2>2, <3>1, BeginUnique
    <3>2. CASE UNCHANGED conn
      BY <1>0, <3>2 DEF TupleUnique, Used
    <3> QED
      BY <1>2, <3>1, <3>2 DEF ConnectBound
  <2>4. ClientPorts' \subseteq Ephemeral /\ UNCHANGED lsn
    BY <1>0, <1>2, <2>1 DEF ConnectBound, Apart, ClientPorts, Typed, TypeOK
  <2> QED
    BY <1>0, <2>3, <2>4 DEF Apart, Listening
<1> QED
  BY <1>1, <1>2

LEMMA UniqueSlots ==
  ASSUME UInv, NEW i \in Slots, SynTimer(i) \/ Segment(i)
  PROVE  Apart' /\ TupleUnique'
<1>0. conn \in [Slots -> Connection] /\ Apart /\ TupleUnique
  BY DEF UInv, IInv, Typed, TypeOK
<1>1. \/ conn' = [conn EXCEPT ![i].retries = @ + 1]
      \/ conn' = [conn EXCEPT ![i].st = "established"] /\ i \in Used
      \/ conn' = [conn EXCEPT ![i] = Unused]
  BY DEF SynTimer, Segment, Established, Reset, Close, CloseSlot, Used
<1>2. \A j \in Used' : /\ j \in Used /\ conn'[j].port = conn[j].port
                       /\ conn'[j].peer = conn[j].peer
                       /\ conn'[j].inbound = conn[j].inbound
  BY <1>0, <1>1 DEF Used, Unused, Connection
<1>3. UNCHANGED <<lsn, cport>>
  BY DEF SynTimer, Segment, Established, Reset, Close, net
<1>4. TupleUnique'
  BY <1>0, <1>2, KeepUnique
<1> QED
  BY <1>0, <1>2, <1>3, <1>4 DEF Apart, Listening, ClientPorts

LEMMA UniqueSyn ==
  ASSUME UInv, NEW p \in Ports, NEW peer \in Peers, Syn(p, peer)
  PROVE  Apart' /\ TupleUnique'
<1>0. Typed /\ Apart /\ TupleUnique
  BY DEF UInv, IInv
<1> DEFINE c == [st |-> "synrcvd", port |-> p, peer |-> peer, req |-> lsn[p],
                 inbound |-> TRUE, retries |-> 0]
<1>1. PICK i \in FreeSlot : conn' = [conn EXCEPT ![i] = c]
  BY DEF Syn
<1>2. TupleUnique'
  <2>1. \A j \in Used : <<conn[j].port, conn[j].peer>> # <<c.port, c.peer>>
    BY DEF Syn
  <2> HIDE DEF c
  <2> QED
    BY <1>0, <1>1, <2>1, JoinUnique
<1>3. p \in ListenPorts
  BY <1>0 DEF Syn, Apart
<1>4. \A j \in Used' : conn'[j].inbound => conn'[j].port \in ListenPorts
  BY <1>0, <1>1, <1>3 DEF FreeSlot, First, Used, Apart, Typed, TypeOK
<1>5. UNCHANGED <<lsn, cport>>
  BY DEF Syn
<1> QED
  BY <1>0, <1>2, <1>4, <1>5 DEF Apart, Listening, ClientPorts

LEMMA UniqueStep == Disjoint /\ UInv /\ [Next]_vars => UInv'
<1> SUFFICES ASSUME Disjoint, UInv, [Next]_vars PROVE Apart' /\ TupleUnique'
  BY InvariantStep DEF UInv
<1>1. CASE Bind \/ Configuration \/ UNCHANGED vars
  BY <1>1 DEF UInv, Bind, Configuration, vars, Apart, TupleUnique, Listening, ClientPorts, Used
<1>3. ASSUME NEW r \in Reqs, Dropped(r) PROVE Apart' /\ TupleUnique'
  BY <1>3 DEF UInv, Dropped, Apart, TupleUnique, Listening, ClientPorts, Used
<1>2. CASE Crash
  BY <1>2 DEF Crash, Apart, TupleUnique, Listening, ClientPorts, Used, Unused
<1> QED
  BY <1>1, <1>2, <1>3, UniqueListen, UniqueConnect, UniqueAnswer, UniqueSlots, UniqueSyn DEF Next

\* No two connections share a port and a peer, whatever ports are used again.
THEOREM TuplesAreUnique == Disjoint => (Spec => []TupleUnique)
<1> SUFFICES ASSUME Disjoint PROVE Spec => []TupleUnique
  OBVIOUS
<1>1. Init => UInv
  BY InvariantInit DEF UInv, Init, Apart, TupleUnique, Listening, ClientPorts, Used, Unused
<1>2. UInv /\ [Next]_vars => UInv'
  BY UniqueStep
<1>3. UInv => TupleUnique
  BY DEF UInv
<1> QED
  BY <1>1, <1>2, <1>3, PTL DEF Spec

-----------------------------------------------------------------------------
(* Replies: what each request is used for, and who waits for each message. *)

\* Each request has one use: it listens, waits for a port, or has a connection.
Roles ==
  /\ \A p \in Listening : sent[lsn[p]] = "listen"
  /\ \A p \in Pending : sent[pend[p]] = "connect"
  /\ \A i \in Outbound : sent[conn[i].req] = "connect"
  /\ \A p, q \in Listening : lsn[p] = lsn[q] => p = q
  /\ \A p, q \in Pending : pend[p] = pend[q] => p = q
  /\ \A i, j \in Outbound : conn[i].req = conn[j].req => i = j
  /\ \A p \in Pending, i \in Outbound : pend[p] # conn[i].req

\* An inbound connection is one of the listener of its port.
InboundOfListener ==
  \A i \in Used \ Outbound : conn[i].port \in bound /\ conn[i].req = lsn[conn[i].port]

\* Requests that are not answered yet.
Open(r) == answer[r] = "none"

Unanswered ==
  /\ \A r \in Reqs : sent[r] = "new" => Open(r)
  /\ \A p \in Pending : Open(pend[p])
  /\ \A i \in Used : conn[i].st = "synsent" => i \in Outbound /\ Open(conn[i].req)
  /\ bound \subseteq Listening /\ \A p \in bound : ~Open(lsn[p])

\* Somebody in tcpd waits for what networkd says of port p.
Awaited(p) == p \in Pending \/ (p \in Listening /\ Open(lsn[p]))

\* The requests of this tcpd that networkd has not taken.
Asking == {k \in DOMAIN toNet : toNet[k].live}

\* At most one message about a port is on its way.
OneMessage ==
  /\ \A j, k \in Asking : toNet[j].port = toNet[k].port => j = k
  /\ \A j, k \in DOMAIN toTcp : toTcp[j].port = toTcp[k].port => j = k
  /\ \A j \in Asking, k \in DOMAIN toTcp : toNet[j].port # toTcp[k].port

MessagesAwaited ==
  /\ \A k \in Asking : Awaited(toNet[k].port)
  /\ \A k \in DOMAIN toTcp : Awaited(toTcp[k].port)

Uses == Roles /\ InboundOfListener /\ Unanswered /\ AnsweredOnce /\ HandlesOpen

RInv == UInv /\ Uses /\ OneMessage /\ MessagesAwaited

LEMMA TailIndex ==
  ASSUME NEW M, NEW q \in Seq(M), q # <<>>
  PROVE  /\ 1 \in DOMAIN q /\ Head(q) = q[1]
         /\ \A k \in DOMAIN Tail(q) : k + 1 \in DOMAIN q /\ k + 1 # 1 /\ Tail(q)[k] = q[k + 1]
         /\ \A j, k \in DOMAIN Tail(q) : j + 1 = k + 1 => j = k
OBVIOUS

LEMMA AppendIndex ==
  ASSUME NEW M, NEW q \in Seq(M), NEW m \in M
  PROVE  \A k \in DOMAIN Append(q, m) :
           \/ k \in DOMAIN q /\ Append(q, m)[k] = q[k]
           \/ k = Len(q) + 1 /\ Append(q, m)[k] = m
OBVIOUS

\* networkd is asked for a port that nobody waits for.
LEMMA OneMoreAsked ==
  ASSUME Typed, OneMessage, MessagesAwaited, NEW p \in Ports, ~Awaited(p),
         toNet' = Append(toNet, Request(p)), UNCHANGED toTcp
  PROVE  /\ OneMessage'
         /\ \A k \in Asking' : toNet'[k].port = p \/ (k \in Asking /\ toNet'[k] = toNet[k])
<1>1. toNet \in Seq([port : Ports, live : BOOLEAN]) /\ Request(p) \in [port : Ports, live : BOOLEAN]
  BY RequestTyped DEF Typed, TypeOK
<1>2. \A k \in DOMAIN toNet' :
        \/ k \in DOMAIN toNet /\ toNet'[k] = toNet[k]
        \/ k = Len(toNet) + 1 /\ toNet'[k] = Request(p)
  BY <1>1, AppendIndex
<1>3. \A k \in Asking' :
        \/ k \in Asking /\ toNet'[k] = toNet[k] /\ toNet'[k].port # p
        \/ k = Len(toNet) + 1 /\ toNet'[k].port = p
  BY <1>2 DEF Asking, MessagesAwaited, Request
<1>4. \A k \in DOMAIN toTcp : toTcp[k].port # p
  BY DEF MessagesAwaited
<1>5. \A j, k \in Asking' : toNet'[j].port = toNet'[k].port => j = k
  <2> TAKE j, k \in Asking'
  <2>1. CASE j \in Asking /\ k \in Asking
    BY <1>3, <2>1 DEF OneMessage
  <2>2. CASE j \notin Asking \/ k \notin Asking
    BY <1>3, <2>2
  <2> QED
    BY <2>1, <2>2
<1>6. \A j \in Asking', k \in DOMAIN toTcp' : toNet'[j].port # toTcp'[k].port
  <2> TAKE j \in Asking', k \in DOMAIN toTcp'
  <2>1. k \in DOMAIN toTcp /\ toTcp'[k] = toTcp[k]
    OBVIOUS
  <2>2. CASE j \in Asking /\ toNet'[j] = toNet[j]
    <3>1. toNet[j].port # toTcp[k].port
      BY <2>1, <2>2 DEF OneMessage
    <3> QED
      BY <2>1, <2>2, <3>1
  <2>3. CASE toNet'[j].port = p
    <3>1. toTcp[k].port # p
      BY <1>4, <2>1
    <3> QED
      BY <2>1, <2>3, <3>1
  <2> QED
    BY <1>3, <2>2, <2>3
<1>7. OneMessage'
  BY <1>5, <1>6 DEF OneMessage
<1> QED
  BY <1>3, <1>7

\* tcpd takes an answer: the last message about its port.
LEMMA LastMessage ==
  ASSUME Typed, OneMessage, MessagesAwaited, toTcp # <<>>, toTcp' = Tail(toTcp), UNCHANGED toNet
  PROVE  /\ OneMessage' /\ Awaited(Response.port)
         /\ \A k \in DOMAIN toTcp' :
              toTcp'[k].port # Response.port /\ \E j \in DOMAIN toTcp : toTcp'[k] = toTcp[j]
         /\ Asking' = Asking /\ \A k \in Asking : toNet[k].port # Response.port
<1>1. /\ 1 \in DOMAIN toTcp /\ Response = toTcp[1]
      /\ \A k \in DOMAIN toTcp' : k + 1 \in DOMAIN toTcp /\ k + 1 # 1 /\ toTcp'[k] = toTcp[k + 1]
      /\ \A j, k \in DOMAIN toTcp' : j + 1 = k + 1 => j = k
  BY TailIndex DEF Typed, TypeOK, Response
<1>2. Asking' = Asking
  BY DEF Asking
<1>3. \A k \in DOMAIN toTcp' : toTcp'[k].port # toTcp[1].port
  BY <1>1 DEF OneMessage
<1>4. OneMessage'
  BY <1>1, <1>2 DEF OneMessage
<1> QED
  BY <1>1, <1>2, <1>3, <1>4 DEF OneMessage, MessagesAwaited

LEMMA MessagePorts ==
  ASSUME Typed
  PROVE  /\ \A k \in DOMAIN toNet : toNet[k].port \in Ports
         /\ \A k \in DOMAIN toTcp : toTcp[k].port \in Ports
<1>1. \A k \in DOMAIN toNet : toNet[k].port \in Ports
  <2>1. toNet \in Seq([port : Ports, live : BOOLEAN])
    BY DEF Typed, TypeOK
  <2>2. \A k \in DOMAIN toNet : toNet[k] \in [port : Ports, live : BOOLEAN]
    BY <2>1, SeqElements
  <2> QED
    BY <2>2
<1>2. \A k \in DOMAIN toTcp : toTcp[k].port \in Ports
  <2>1. toTcp \in Seq([port : Ports, ok : BOOLEAN])
    BY DEF Typed, TypeOK
  <2>2. \A k \in DOMAIN toTcp : toTcp[k] \in [port : Ports, ok : BOOLEAN]
    BY <2>1, SeqElements
  <2> QED
    BY <2>2
<1> QED
  BY <1>1, <1>2

\* Messages stay awaited over a step that takes from nobody but those of port p.
LEMMA StillAwaited ==
  ASSUME Typed, MessagesAwaited, NEW p,
         \A q \in Ports : Awaited(q) /\ q # p => Awaited(q)',
         \A k \in Asking' : /\ toNet'[k].port # p \/ Awaited(p)'
                            /\ toNet'[k].port = p \/ (k \in Asking /\ toNet'[k] = toNet[k]),
         \A k \in DOMAIN toTcp' : /\ toTcp'[k].port # p \/ Awaited(p)'
                                  /\ \/ toTcp'[k].port = p
                                     \/ \E j \in DOMAIN toTcp : toTcp'[k] = toTcp[j]
  PROVE  MessagesAwaited'
<1>1. \A k \in DOMAIN toNet : toNet[k].port \in Ports
  BY MessagePorts
<1>2. \A k \in DOMAIN toTcp : toTcp[k].port \in Ports
  BY MessagePorts
<1>3. ASSUME NEW k \in Asking' PROVE Awaited(toNet[k].port)'
  <2>1. PICK q : q = toNet'[k].port
    OBVIOUS
  <2>2. Awaited(q)'
    <3>1. CASE q = p
      BY <1>3, <2>1, <3>1
    <3>2. CASE q # p
      BY <1>1, <1>3, <2>1, <3>2 DEF MessagesAwaited, Asking
    <3> QED
      BY <3>1, <3>2
  <2> QED
    BY <2>1, <2>2 DEF Awaited, Pending, Listening, Open
<1>4. ASSUME NEW k \in DOMAIN toTcp' PROVE Awaited(toTcp[k].port)'
  <2>1. PICK q : q = toTcp'[k].port
    OBVIOUS
  <2>2. Awaited(q)'
    <3>1. CASE q = p
      BY <1>4, <2>1, <3>1
    <3>2. CASE q # p
      BY <1>2, <1>4, <2>1, <3>2 DEF MessagesAwaited
    <3> QED
      BY <3>1, <3>2
  <2> QED
    BY <2>1, <2>2 DEF Awaited, Pending, Listening, Open
<1> QED
  BY <1>3, <1>4 DEF MessagesAwaited

\* The pipes stay as they are, and who waits goes on waiting.
LEMMA AwaitedKept ==
  ASSUME Typed, MessagesAwaited, UNCHANGED <<toNet, toTcp>>,
         \A q \in Ports : Awaited(q) => Awaited(q)'
  PROVE  MessagesAwaited'
<1>1. Asking' = Asking
  BY DEF Asking
<1>2. \A k \in Asking' : toNet'[k].port # NoPort /\ k \in Asking /\ toNet'[k] = toNet[k]
  BY <1>1, MessagePorts, PortsAssumption DEF Asking, PortsAssumption
<1>3. \A k \in DOMAIN toTcp' :
        toTcp'[k].port # NoPort /\ \E j \in DOMAIN toTcp : toTcp'[k] = toTcp[j]
  BY MessagePorts, PortsAssumption DEF PortsAssumption
<1> QED
  BY <1>2, <1>3, StillAwaited

\* A request that is not made yet is used nowhere.
LEMMA NewUnused ==
  ASSUME Uses, NEW r \in Reqs, sent[r] = "new"
  PROVE  /\ Open(r)
         /\ \A p \in Listening : lsn[p] # r
         /\ \A p \in Pending : pend[p] # r
         /\ \A i \in Used : conn[i].req # r
<1>1. \A p \in Listening : lsn[p] # r
  BY DEF Uses, Roles
<1>2. \A i \in Used : conn[i].req # r
  BY <1>1 DEF Uses, Roles, InboundOfListener, Unanswered
<1> QED
  BY <1>1, <1>2 DEF Uses, Roles, Unanswered

\* The answer to an open request is its only one and opens no other.
LEMMA AnswerOnce ==
  ASSUME Typed, Uses, NEW r \in Reqs, Open(r), NEW status \in {"ok", "failed"}, Answer(r, status)
  PROVE  AnsweredOnce' /\ ~Open(r)' /\ \A q \in Reqs : q # r => answer'[q] = answer[q]
BY DEF Answer, Open, Uses, AnsweredOnce, Typed, TypeOK

LEMMA RefuseOnce ==
  ASSUME Typed, Uses, NEW r \in Reqs, Open(r), Refuse(r)
  PROVE  /\ AnsweredOnce' /\ ~Open(r)' /\ \A q \in Reqs : q # r => answer'[q] = answer[q]
         /\ \A q \in Reqs : q # r => handle'[q] = handle[q]
BY AnswerOnce DEF Refuse, Typed, TypeOK

\* A request that ends at once leaves the others as they are.
LEMMA RequestEnds ==
  ASSUME RInv, NEW r \in Reqs, sent[r] = "new", NEW u \in {"listen", "connect", "lost"},
         sent' = [sent EXCEPT ![r] = u],
         UNCHANGED <<lsn, bound, pend, conn, toNet, toTcp>>,
         Refuse(r) \/ UNCHANGED <<answer, twice, handle>>
  PROVE  Uses' /\ OneMessage' /\ MessagesAwaited'
<1>0. Typed /\ Uses /\ OneMessage /\ MessagesAwaited
  BY DEF RInv, UInv, IInv
<1>1. /\ Open(r)
      /\ \A p \in Listening : lsn[p] # r
      /\ \A p \in Pending : pend[p] # r
      /\ \A i \in Used : conn[i].req # r
  BY <1>0, NewUnused
<1>2. /\ AnsweredOnce' /\ \A q \in Reqs : q # r => answer'[q] = answer[q]
      /\ \A q \in Reqs : q # r => handle'[q] = handle[q] /\ sent'[q] = sent[q]
  BY <1>0, <1>1, RefuseOnce DEF Uses, AnsweredOnce, Typed, TypeOK
<1>3. Listening' = Listening /\ Pending' = Pending /\ Used' = Used /\ Outbound' = Outbound
  BY DEF Listening, Pending, Used, Outbound
<1>4. /\ \A p \in Listening : lsn[p] \in Reqs
      /\ \A p \in Pending : pend[p] \in Reqs
      /\ \A i \in Used : conn[i].req \in Reqs
      /\ Outbound \subseteq Used
  BY <1>0 DEF Typed, TypeOK, Shaped, Listening, Pending, Outbound
<1>5. Roles'
  BY <1>0, <1>1, <1>2, <1>3, <1>4 DEF Uses, Roles
<1>6. InboundOfListener' /\ HandlesOpen'
  BY <1>0, <1>1, <1>2, <1>3, <1>4 DEF Uses, InboundOfListener, HandlesOpen
<1>7. Unanswered'
  <2>1. \A q \in Reqs : sent'[q] = "new" => q # r
    BY <1>0 DEF Typed, TypeOK
  <2> QED
    BY <1>0, <1>1, <1>2, <1>3, <1>4, <2>1 DEF Uses, Unanswered, Open
<1>8. OneMessage' /\ MessagesAwaited'
  <2>1. Asking' = Asking
    BY DEF Asking
  <2>2. \A q \in Ports : Awaited(q) => Awaited(q)'
    BY <1>1, <1>2, <1>3, <1>4 DEF Awaited, Open
  <2>3. OneMessage'
    BY <1>0, <2>1 DEF OneMessage
  <2>4. MessagesAwaited'
    BY <1>0, <2>2, AwaitedKept
  <2> QED
    BY <2>3, <2>4
<1> QED
  BY <1>2, <1>5, <1>6, <1>7, <1>8 DEF Uses

\* A port that an application listens on is not one that a connect waits for.
LEMMA ListenersApart ==
  ASSUME Disjoint, UInv
  PROVE  /\ Listening \cap Pending = {}
         /\ \A p \in ListenPorts : p \notin Pending
<1>1. Pending \subseteq ClientPorts
  BY DEF UInv, IInv, Agree, PortsTied, Pending, ClientPorts
<1> QED
  BY <1>1 DEF Disjoint, UInv, Apart

LEMMA RepliesListen ==
  ASSUME Disjoint, RInv, NEW r \in Reqs, ListenRequest(r)
  PROVE  Uses' /\ OneMessage' /\ MessagesAwaited'
<1>0. Typed /\ Uses /\ OneMessage /\ MessagesAwaited
  BY DEF RInv, UInv, IInv
<1>1. PICK p \in ListenPorts : ListenInUse(r, p) \/ ListenDropped(r, p) \/ Listen(r, p)
  BY DEF ListenRequest
<1>2. p \in Ports
  BY PortsAssumption DEF PortsAssumption
<1>3. CASE ListenInUse(r, p) \/ ListenDropped(r, p)
  BY <1>3, RequestEnds DEF ListenInUse, ListenDropped, net
<1>4. CASE Listen(r, p)
  <2>1. /\ sent[r] = "new" /\ p \notin Listening /\ sent' = [sent EXCEPT ![r] = "listen"]
        /\ UNCHANGED <<pend, conn, toTcp>>
    BY <1>4 DEF Listen
  <2>2. UNCHANGED bound
    BY <1>0, <1>4, <2>1 DEF Listen, Uses, Unanswered
  <2>3. CASE Refuse(r) /\ UNCHANGED <<lsn, toNet>>
    BY <2>1, <2>2, <2>3, RequestEnds
  <2>4. CASE /\ handle' = [handle EXCEPT ![r] = "open"] /\ lsn' = [lsn EXCEPT ![p] = r]
             /\ toNet' = Append(toNet, Request(p)) /\ UNCHANGED <<answer, twice>>
    <3>1. /\ Open(r)
          /\ \A q \in Listening : lsn[q] # r
          /\ \A q \in Pending : pend[q] # r
          /\ \A i \in Used : conn[i].req # r
      BY <1>0, <2>1, NewUnused
    <3>2. /\ Listening' = Listening \cup {p} /\ Pending' = Pending
          /\ Used' = Used /\ Outbound' = Outbound /\ Outbound \subseteq Used
      BY <1>0, <1>2, <2>1, <2>4, PortsAssumption
         DEF PortsAssumption, Listening, Pending, Used, Outbound, Typed, TypeOK
    <3>3. /\ \A q \in Listening : lsn[q] \in Reqs
          /\ \A q \in Pending : pend[q] \in Reqs
          /\ \A i \in Used : conn[i].req \in Reqs
      BY <1>0 DEF Typed, TypeOK, Shaped, Listening, Pending
    <3>4. /\ lsn'[p] = r /\ \A q \in Listening : q # p /\ lsn'[q] = lsn[q]
          /\ handle'[r] = "open" /\ \A q \in Reqs : q # r => handle'[q] = handle[q]
          /\ sent'[r] = "listen" /\ \A q \in Reqs : q # r => sent'[q] = sent[q]
      BY <1>0, <1>2, <2>1, <2>4 DEF Typed, TypeOK, Listening
    <3>5. Roles'
      BY <1>0, <2>1, <3>1, <3>2, <3>3, <3>4 DEF Uses, Roles
    <3>6. InboundOfListener'
      BY <1>0, <2>1, <2>2, <3>2, <3>4 DEF Uses, InboundOfListener, Unanswered
    <3>7. Unanswered'
      BY <1>0, <2>1, <2>2, <2>4, <3>2, <3>4 DEF Uses, Unanswered, Open
    <3>8. HandlesOpen'
      BY <1>0, <2>1, <3>1, <3>2, <3>3, <3>4 DEF Uses, HandlesOpen
    <3>9. ~Awaited(p)
      BY <2>1, ListenersApart DEF RInv, Awaited
    <3>10. /\ OneMessage'
           /\ \A k \in Asking' : toNet'[k].port = p \/ (k \in Asking /\ toNet'[k] = toNet[k])
      BY <1>0, <1>2, <2>1, <2>4, <3>9, OneMoreAsked
    <3>11. Awaited(p)' /\ \A q \in Ports : Awaited(q) => Awaited(q)'
      BY <2>1, <2>4, <3>1, <3>2, <3>4 DEF Awaited, Open
    <3>12. MessagesAwaited'
      BY <1>0, <2>1, <3>10, <3>11, StillAwaited
    <3> QED
      BY <1>0, <2>4, <3>5, <3>6, <3>7, <3>8, <3>10, <3>12 DEF Uses, AnsweredOnce
  <2> QED
    BY <1>4, <2>3, <2>4 DEF Listen
<1> QED
  BY <1>1, <1>3, <1>4

\* A connection begins for a request that is used for nothing else any more.
LEMMA RepliesBegin ==
  ASSUME RInv, NEW r \in Reqs, NEW p \in Ports, NEW peer \in Peers, Begin(r, p, peer),
         Open(r), sent'[r] = "connect", \A q \in Reqs : q # r => sent'[q] = sent[q],
         UNCHANGED <<lsn, bound>>,
         \A q \in Listening : lsn[q] # r,
         \A i \in Used : conn[i].req # r,
         \A q \in Pending' : q \in Pending /\ pend'[q] = pend[q] /\ pend[q] # r
  PROVE  Uses' /\ \A q \in Reqs : q # r => answer'[q] = answer[q]
<1>0. Typed /\ Uses
  BY DEF RInv, UInv, IInv
<1>1. /\ AnsweredOnce' /\ \A q \in Reqs : q # r => answer'[q] = answer[q]
      /\ \A q \in Reqs : q # r => handle'[q] = handle[q]
  BY <1>0, RefuseOnce DEF Begin, Uses, AnsweredOnce, Typed, TypeOK
<1>2. /\ Listening' = Listening /\ \A q \in Listening : lsn[q] \in Reqs
      /\ \A q \in Pending : pend[q] \in Reqs
      /\ \A i \in Used : conn[i].req \in Reqs
      /\ Outbound \subseteq Used
  BY <1>0 DEF Typed, TypeOK, Shaped, Listening, Pending, Outbound
<1>3. \A i \in Used' :
        \/ i \in Used /\ conn'[i] = conn[i] /\ conn'[i].req # r /\ (i \in Outbound' <=> i \in Outbound)
        \/ /\ i \in Outbound' /\ conn'[i].req = r /\ answer' = answer /\ handle'[r] = "open"
           /\ \A j \in Used' : conn'[j].req = r => j = i
  BY <1>0 DEF Begin, FreeSlot, First, Outbound, Used, Typed, TypeOK
<1>4. Outbound' \subseteq Used'
  BY DEF Outbound
<1>5. Roles'
  BY <1>0, <1>2, <1>3, <1>4 DEF Uses, Roles
<1>6. InboundOfListener'
  BY <1>0, <1>2, <1>3 DEF Uses, InboundOfListener
<1>7. Unanswered'
  BY <1>0, <1>1, <1>2, <1>3 DEF Uses, Unanswered, Open
<1>8. HandlesOpen'
  BY <1>0, <1>1, <1>2, <1>3 DEF Uses, HandlesOpen
<1> QED
  BY <1>1, <1>5, <1>6, <1>7, <1>8 DEF Uses

LEMMA RepliesConnect ==
  ASSUME Disjoint, RInv, NEW r \in Reqs, Connect(r)
  PROVE  Uses' /\ OneMessage' /\ MessagesAwaited'
<1>0. Typed /\ Uses /\ OneMessage /\ MessagesAwaited /\ PortsTied
  BY DEF RInv, UInv, IInv, Agree
<1>1. PICK peer \in Peers : ConnectCached(r, peer) \/ ConnectRefused(r, peer) \/ ConnectBinds(r, peer)
  BY DEF Connect
<1>2. sent[r] = "new" /\ sent' = [sent EXCEPT ![r] = "connect"]
  BY <1>1 DEF ConnectCached, ConnectRefused, ConnectBinds, Ask
<1>3. /\ Open(r)
      /\ \A q \in Listening : lsn[q] # r
      /\ \A q \in Pending : pend[q] # r
      /\ \A i \in Used : conn[i].req # r
  BY <1>0, <1>2, NewUnused
<1>4. /\ \A q \in Listening : lsn[q] \in Reqs
      /\ \A q \in Pending : pend[q] \in Reqs
      /\ \A i \in Used : conn[i].req \in Reqs
      /\ sent'[r] = "connect" /\ \A q \in Reqs : q # r => sent'[q] = sent[q]
  BY <1>0, <1>2 DEF Typed, TypeOK, Shaped, Listening, Pending
<1>5. CASE ConnectRefused(r, peer)
  BY <1>2, <1>5, RequestEnds DEF ConnectRefused, net
<1>6. CASE ConnectCached(r, peer)
  <2>1. PICK p \in ClientPortChoice : Begin(r, p, peer)
    BY <1>6 DEF ConnectCached
  <2>2. UNCHANGED <<lsn, bound, pend, toNet, toTcp>>
    BY <1>6 DEF ConnectCached, net
  <2>3. Pending' = Pending /\ Listening' = Listening
    BY <2>2 DEF Pending, Listening
  <2>4. Uses' /\ \A q \in Reqs : q # r => answer'[q] = answer[q]
    BY <1>3, <1>4, <2>1, <2>2, <2>3, ChoiceIsPort, RepliesBegin
  <2>5. \A q \in Ports : Awaited(q) => Awaited(q)'
    BY <1>3, <1>4, <2>2, <2>3, <2>4 DEF Awaited, Open
  <2>6. MessagesAwaited'
    BY <1>0, <2>2, <2>5, AwaitedKept
  <2> QED
    BY <1>0, <2>2, <2>4, <2>6 DEF OneMessage, Asking
<1>7. CASE ConnectBinds(r, peer)
  <2>0. UNCHANGED <<lsn, bound, conn, toTcp>>
    BY <1>7 DEF ConnectBinds
  <2>1. PICK p \in ClientPortChoice :
          /\ cport[p] = "free"
          /\ \/ /\ pend' = [pend EXCEPT ![p] = r] /\ toNet' = Append(toNet, Request(p))
                /\ handle' = [handle EXCEPT ![r] = "open"] /\ UNCHANGED <<answer, twice>>
             \/ Refuse(r) /\ UNCHANGED <<pend, toNet>>
    BY <1>7 DEF ConnectBinds
  <2>2. p \in Ports /\ ~Busy(p)
    BY <2>1, ChoiceIsPort DEF ClientPortChoice, First, Fresh, IdleCached
  <2>3. CASE Refuse(r) /\ UNCHANGED <<pend, toNet>>
    BY <1>2, <2>0, <2>3, RequestEnds
  <2>4. CASE /\ pend' = [pend EXCEPT ![p] = r] /\ toNet' = Append(toNet, Request(p))
             /\ handle' = [handle EXCEPT ![r] = "open"] /\ UNCHANGED <<answer, twice>>
    <3>1. /\ Listening' = Listening /\ Pending' = Pending \cup {p} /\ p \notin Pending
          /\ Used' = Used /\ Outbound' = Outbound /\ Outbound \subseteq Used
      BY <1>0, <2>0, <2>2, <2>4, PortsAssumption
         DEF Busy, PortsAssumption, Listening, Pending, Used, Outbound, Typed, TypeOK
    <3>2. /\ pend'[p] = r /\ \A q \in Pending : pend'[q] = pend[q]
          /\ handle'[r] = "open" /\ \A q \in Reqs : q # r => handle'[q] = handle[q]
      BY <1>0, <2>2, <2>4, <3>1 DEF Typed, TypeOK, Pending
    <3>3. Roles'
      BY <1>0, <1>3, <1>4, <2>0, <3>1, <3>2 DEF Uses, Roles
    <3>4. InboundOfListener'
      BY <1>0, <2>0, <3>1 DEF Uses, InboundOfListener
    <3>5. Unanswered'
      BY <1>0, <1>3, <1>4, <2>0, <2>4, <3>1, <3>2 DEF Uses, Unanswered, Open
    <3>6. HandlesOpen'
      BY <1>0, <1>3, <1>4, <2>0, <3>1, <3>2 DEF Uses, HandlesOpen
    <3>7. ~Awaited(p)
      BY <2>2 DEF Busy, Awaited
    <3>8. /\ OneMessage'
          /\ \A k \in Asking' : toNet'[k].port = p \/ (k \in Asking /\ toNet'[k] = toNet[k])
      BY <1>0, <2>0, <2>2, <2>4, <3>7, OneMoreAsked
    <3>9. Awaited(p)' /\ \A q \in Ports : Awaited(q) => Awaited(q)'
      BY <2>0, <2>4, <3>1 DEF Awaited, Open
    <3>10. MessagesAwaited'
      BY <1>0, <2>0, <3>8, <3>9, StillAwaited
    <3> QED
      BY <1>0, <2>4, <3>3, <3>4, <3>5, <3>6, <3>8, <3>10 DEF Uses, AnsweredOnce
  <2> QED
    BY <2>1, <2>3, <2>4
<1> QED
  BY <1>1, <1>5, <1>6, <1>7

LEMMA RepliesConnectBound ==
  ASSUME Disjoint, RInv, ConnectBound
  PROVE  Uses' /\ OneMessage' /\ MessagesAwaited'
<1>0. Typed /\ Uses /\ OneMessage /\ MessagesAwaited /\ Waiting
  BY DEF RInv, UInv, IInv, Agree
<1>1. PICK p, r : p = Response.port /\ r = pend[p]
  OBVIOUS
<1>2. /\ p \in Pending /\ p \in Ports /\ r \in Reqs /\ wants[r] \in Peers
      /\ pend' = [pend EXCEPT ![p] = NoReq]
      /\ UNCHANGED <<sent, lsn, bound, toNet>> /\ toTcp # <<>> /\ toTcp' = Tail(toTcp)
  BY <1>0, <1>1 DEF ConnectBound, PendingAfter, Pending, Waiting, Typed, TypeOK
<1>3. /\ OneMessage'
      /\ \A k \in DOMAIN toTcp' : toTcp'[k].port # p /\ \E j \in DOMAIN toTcp : toTcp'[k] = toTcp[j]
      /\ Asking' = Asking /\ \A k \in Asking : toNet[k].port # p
  BY <1>0, <1>1, <1>2, LastMessage
<1>4. /\ Open(r) /\ sent[r] = "connect"
      /\ \A q \in Listening : lsn[q] # r /\ lsn[q] \in Reqs
      /\ \A q \in Pending : (q # p => pend[q] # r) /\ pend[q] \in Reqs
      /\ \A i \in Outbound : conn[i].req # r
  BY <1>0, <1>1, <1>2 DEF Uses, Unanswered, Roles, Typed, TypeOK, Listening, Pending
<1>5. \A i \in Used : conn[i].req # r /\ conn[i].req \in Reqs
  BY <1>0, <1>4 DEF Uses, InboundOfListener, Unanswered, Typed, Shaped
<1>6. /\ Pending' = Pending \ {p} /\ Listening' = Listening
      /\ \A q \in Pending' : pend'[q] = pend[q]
  BY <1>0, <1>2 DEF Pending, Listening, Typed, TypeOK
<1>7. Uses' /\ \A q \in Reqs : q # r => answer'[q] = answer[q]
  <2>1. CASE Begin(r, p, wants[r])
    BY <1>2, <1>4, <1>5, <1>6, <2>1, RepliesBegin
  <2>2. CASE Refuse(r) /\ UNCHANGED conn
    <3>1. /\ AnsweredOnce' /\ \A q \in Reqs : q # r => answer'[q] = answer[q]
          /\ \A q \in Reqs : q # r => handle'[q] = handle[q]
      BY <1>0, <1>2, <1>4, <2>2, RefuseOnce
    <3>2. Used' = Used /\ Outbound' = Outbound /\ Outbound \subseteq Used
      BY <2>2 DEF Used, Outbound
    <3>3. Roles'
      BY <1>0, <1>2, <1>6, <2>2, <3>2 DEF Uses, Roles
    <3>4. InboundOfListener'
      BY <1>0, <1>2, <2>2, <3>2 DEF Uses, InboundOfListener
    <3>5. Unanswered'
      BY <1>0, <1>2, <1>4, <1>5, <1>6, <2>2, <3>1, <3>2 DEF Uses, Unanswered, Open
    <3>6. HandlesOpen'
      BY <1>0, <1>2, <1>4, <1>5, <1>6, <2>2, <3>1, <3>2 DEF Uses, HandlesOpen
    <3> QED
      BY <3>1, <3>3, <3>4, <3>5, <3>6 DEF Uses
  <2> QED
    BY <1>1, <2>1, <2>2 DEF ConnectBound
<1>8. \A q \in Ports : Awaited(q) /\ q # p => Awaited(q)'
  BY <1>2, <1>4, <1>6, <1>7 DEF Awaited, Open
<1>9. MessagesAwaited'
  BY <1>0, <1>2, <1>3, <1>8, StillAwaited
<1> QED
  BY <1>3, <1>7, <1>9

LEMMA RepliesListenerBound ==
  ASSUME Disjoint, RInv, ListenerBound
  PROVE  Uses' /\ OneMessage' /\ MessagesAwaited'
<1>0. Typed /\ Uses /\ OneMessage /\ MessagesAwaited
  BY DEF RInv, UInv, IInv
<1>1. PICK p, r : p = Response.port /\ r = lsn[p]
  OBVIOUS
<1>2. /\ p \in Listening /\ p \in Ports /\ r \in Reqs
      /\ UNCHANGED <<sent, pend, conn, toNet>> /\ toTcp # <<>> /\ toTcp' = Tail(toTcp)
  BY <1>0, <1>1 DEF ListenerBound, Listening, Typed, TypeOK
<1>3. /\ OneMessage' /\ Awaited(p)
      /\ \A k \in DOMAIN toTcp' : toTcp'[k].port # p /\ \E j \in DOMAIN toTcp : toTcp'[k] = toTcp[j]
      /\ Asking' = Asking /\ \A k \in Asking : toNet[k].port # p
  BY <1>0, <1>1, <1>2, LastMessage
<1>4. /\ Open(r) /\ p \notin bound /\ sent[r] = "listen"
      /\ \A q \in Listening : (q # p => lsn[q] # r) /\ lsn[q] \in Reqs
      /\ \A q \in Pending : pend[q] # r /\ pend[q] \in Reqs
      /\ \A i \in Outbound : conn[i].req # r /\ conn[i].req \in Reqs
  <2>1. p \notin Pending
    BY <1>2, ListenersApart DEF RInv
  <2>2. Open(r) /\ p \notin bound
    BY <1>0, <1>1, <1>3, <2>1 DEF Awaited, Uses, Unanswered
  <2> QED
    BY <1>0, <1>1, <1>2, <2>2 DEF Uses, Roles, Typed, TypeOK, Shaped, Listening, Pending, Outbound
<1>5. \A i \in Used \ Outbound : conn[i].port \in Listening /\ conn[i].port # p /\ conn[i].req # r
  BY <1>0, <1>4 DEF Uses, InboundOfListener, Unanswered
<1>6. /\ Used' = Used /\ Outbound' = Outbound /\ Pending' = Pending /\ Outbound \subseteq Used
      /\ \A i \in Used : conn[i].req \in Reqs
  BY <1>0, <1>2 DEF Used, Outbound, Pending, Typed, Shaped
<1>7. CASE bound' = bound \cup {p} /\ Answer(r, "ok") /\ UNCHANGED <<handle, lsn>>
  <2>1. AnsweredOnce' /\ ~Open(r)' /\ \A q \in Reqs : q # r => answer'[q] = answer[q]
    BY <1>0, <1>2, <1>4, <1>7, AnswerOnce
  <2>2. Listening' = Listening
    BY <1>7 DEF Listening
  <2>3. Roles' /\ HandlesOpen'
    BY <1>0, <1>2, <1>6, <1>7, <2>2 DEF Uses, Roles, HandlesOpen
  <2>4. InboundOfListener'
    BY <1>0, <1>2, <1>6, <1>7 DEF Uses, InboundOfListener
  <2>5. Unanswered'
    BY <1>0, <1>1, <1>2, <1>4, <1>6, <1>7, <2>1, <2>2 DEF Uses, Unanswered, Open
  <2>6. \A q \in Ports : Awaited(q) /\ q # p => Awaited(q)'
    BY <1>4, <1>6, <1>7, <2>1, <2>2 DEF Awaited, Open
  <2>7. MessagesAwaited'
    BY <1>0, <1>2, <1>3, <2>6, StillAwaited
  <2> QED
    BY <1>3, <2>1, <2>3, <2>4, <2>5, <2>7 DEF Uses
<1>8. CASE bound' = bound \ {p} /\ Refuse(r) /\ lsn' = [lsn EXCEPT ![p] = NoReq]
  <2>1. /\ AnsweredOnce' /\ \A q \in Reqs : q # r => answer'[q] = answer[q]
        /\ \A q \in Reqs : q # r => handle'[q] = handle[q]
    BY <1>0, <1>2, <1>4, <1>8, RefuseOnce
  <2>2. /\ Listening' = Listening \ {p} /\ \A q \in Listening' : lsn'[q] = lsn[q]
        /\ UNCHANGED bound
    BY <1>0, <1>2, <1>4, <1>8 DEF Listening, Typed, TypeOK
  <2>3. Roles'
    BY <1>0, <1>2, <1>6, <2>2 DEF Uses, Roles
  <2>4. InboundOfListener'
    BY <1>0, <1>2, <1>5, <1>6, <2>2 DEF Uses, InboundOfListener
  <2>5. Unanswered'
    BY <1>0, <1>2, <1>4, <1>6, <1>8, <2>1, <2>2 DEF Uses, Unanswered, Open, Refuse, Answer, Typed, TypeOK
  <2>6. HandlesOpen'
    BY <1>0, <1>2, <1>4, <1>5, <1>6, <2>1, <2>2 DEF Uses, HandlesOpen
  <2>7. \A q \in Ports : Awaited(q) /\ q # p => Awaited(q)'
    BY <1>4, <1>6, <2>1, <2>2 DEF Awaited, Open
  <2>8. MessagesAwaited'
    BY <1>0, <1>2, <1>3, <2>7, StillAwaited
  <2> QED
    BY <1>3, <2>1, <2>3, <2>4, <2>5, <2>6, <2>8 DEF Uses
<1> QED
  BY <1>1, <1>7, <1>8 DEF ListenerBound

\* A request of this tcpd becomes its answer, or is dropped.
LEMMA RepliesBind ==
  ASSUME RInv, Bind
  PROVE  Uses' /\ OneMessage' /\ MessagesAwaited'
<1>0. Typed /\ Uses /\ OneMessage /\ MessagesAwaited
  BY DEF RInv, UInv, IInv
<1>1. UNCHANGED <<sent, answer, twice, handle, lsn, bound, pend, conn>>
  BY DEF Bind, apps
<1>2. Uses' /\ \A q \in Ports : Awaited(q) => Awaited(q)'
  BY <1>0, <1>1 DEF Uses, Roles, InboundOfListener, Unanswered, AnsweredOnce, HandlesOpen,
                    Awaited, Open, Listening, Pending, Used, Outbound
<1>3. PICK m : m = Head(toNet)
  OBVIOUS
<1>4. /\ toNet # <<>> /\ toNet' = Tail(toNet)
      /\ 1 \in DOMAIN toNet /\ m = toNet[1] /\ m.port \in Ports
      /\ \A k \in DOMAIN toNet' : k + 1 \in DOMAIN toNet /\ k + 1 # 1 /\ toNet'[k] = toNet[k + 1]
      /\ \A j, k \in DOMAIN toNet' : j + 1 = k + 1 => j = k
  <2>1. toNet \in Seq([port : Ports, live : BOOLEAN]) /\ toNet # <<>> /\ toNet' = Tail(toNet)
    BY <1>0 DEF Bind, Typed, TypeOK
  <2> QED
    BY <1>0, <1>3, <2>1, TailIndex, MessagePorts
<1>5. \A k \in Asking' : k + 1 \in Asking /\ k + 1 # 1 /\ toNet'[k] = toNet[k + 1]
  BY <1>4 DEF Asking
<1>6. CASE UNCHANGED toTcp
  <2>1. OneMessage'
    BY <1>0, <1>4, <1>5, <1>6 DEF OneMessage, Asking
  <2>2. MessagesAwaited'
    <3>1. ASSUME NEW k \in Asking' PROVE Awaited(toNet[k].port)'
      <4>1. PICK q \in Ports : q = toNet[k + 1].port
        BY <1>0, <1>5, <3>1, MessagePorts DEF Asking
      <4>2. Awaited(q)'
        BY <1>0, <1>2, <1>5, <3>1, <4>1 DEF MessagesAwaited
      <4> QED
        BY <1>5, <3>1, <4>1, <4>2 DEF Awaited, Pending, Listening, Open
    <3>2. ASSUME NEW k \in DOMAIN toTcp' PROVE Awaited(toTcp[k].port)'
      <4>1. PICK q \in Ports : q = toTcp[k].port
        BY <1>0, <1>6, <3>2, MessagePorts
      <4>2. Awaited(q)'
        BY <1>0, <1>2, <1>6, <3>2, <4>1 DEF MessagesAwaited
      <4> QED
        BY <1>6, <4>1, <4>2 DEF Awaited, Pending, Listening, Open
    <3> QED
      BY <3>1, <3>2 DEF MessagesAwaited
  <2> QED
    BY <1>2, <2>1, <2>2
<1>7. ASSUME m.live, NEW ok \in BOOLEAN, toTcp' = Append(toTcp, [port |-> m.port, ok |-> ok])
      PROVE  Uses' /\ OneMessage' /\ MessagesAwaited'
  <2>1. 1 \in Asking
    BY <1>4, <1>7 DEF Asking
  <2>2. \A k \in DOMAIN toTcp' :
          \/ k \in DOMAIN toTcp /\ toTcp'[k] = toTcp[k] /\ toTcp'[k].port # m.port
          \/ k = Len(toTcp) + 1 /\ toTcp'[k].port = m.port
    <3>1. /\ toTcp \in Seq([port : Ports, ok : BOOLEAN])
          /\ [port |-> m.port, ok |-> ok] \in [port : Ports, ok : BOOLEAN]
      BY <1>0, <1>4 DEF Typed, TypeOK
    <3>2. \A k \in DOMAIN toTcp' :
            \/ k \in DOMAIN toTcp /\ toTcp'[k] = toTcp[k]
            \/ k = Len(toTcp) + 1 /\ toTcp'[k] = [port |-> m.port, ok |-> ok]
      BY <1>7, <3>1, AppendIndex
    <3>3. \A k \in DOMAIN toTcp : toTcp[k].port # m.port
      BY <1>0, <1>4, <2>1 DEF OneMessage
    <3> QED
      BY <3>2, <3>3
  <2>3. \A k \in Asking' : toNet'[k].port # m.port
    BY <1>0, <1>4, <1>5, <2>1 DEF OneMessage
  <2>4. OneMessage'
    <3>1. \A j, k \in Asking' : toNet'[j].port = toNet'[k].port => j = k
      BY <1>0, <1>4, <1>5 DEF OneMessage, Asking
    <3>2. \A j, k \in DOMAIN toTcp' : toTcp'[j].port = toTcp'[k].port => j = k
      <4> TAKE j, k \in DOMAIN toTcp'
      <4>1. CASE j \in DOMAIN toTcp /\ k \in DOMAIN toTcp
        BY <1>0, <2>2, <4>1 DEF OneMessage
      <4>2. CASE j \notin DOMAIN toTcp \/ k \notin DOMAIN toTcp
        BY <2>2, <4>2
      <4> QED
        BY <4>1, <4>2
    <3>3. \A j \in Asking', k \in DOMAIN toTcp' : toNet'[j].port # toTcp'[k].port
      <4> TAKE j \in Asking', k \in DOMAIN toTcp'
      <4>1. CASE toTcp'[k].port = m.port
        BY <2>3, <4>1
      <4>2. CASE k \in DOMAIN toTcp /\ toTcp'[k] = toTcp[k]
        BY <1>0, <1>5, <4>2 DEF OneMessage
      <4> QED
        BY <2>2, <4>1, <4>2
    <3> QED
      BY <3>1, <3>2, <3>3 DEF OneMessage
  <2>5. MessagesAwaited'
    <3>1. ASSUME NEW k \in Asking' PROVE Awaited(toNet[k].port)'
      <4>1. PICK q \in Ports : q = toNet[k + 1].port
        BY <1>0, <1>5, <3>1, MessagePorts DEF Asking
      <4>2. Awaited(q)'
        BY <1>0, <1>2, <1>5, <3>1, <4>1 DEF MessagesAwaited
      <4> QED
        BY <1>5, <3>1, <4>1, <4>2 DEF Awaited, Pending, Listening, Open
    <3>2. ASSUME NEW k \in DOMAIN toTcp' PROVE Awaited(toTcp[k].port)'
      <4>1. PICK q : q = toTcp'[k].port
        OBVIOUS
      <4>2. Awaited(q)'
        <5>1. CASE q = m.port
          BY <1>0, <1>2, <1>4, <2>1, <5>1 DEF MessagesAwaited
        <5>2. CASE k \in DOMAIN toTcp /\ toTcp'[k] = toTcp[k]
          BY <1>0, <1>2, <4>1, <5>2, MessagePorts DEF MessagesAwaited
        <5> QED
          BY <2>2, <3>2, <4>1, <5>1, <5>2
      <4> QED
        BY <4>1, <4>2 DEF Awaited, Pending, Listening, Open
    <3> QED
      BY <3>1, <3>2 DEF MessagesAwaited
  <2> QED
    BY <1>2, <2>4, <2>5
<1>8. \/ UNCHANGED toTcp
      \/ \E ok \in BOOLEAN : m.live /\ toTcp' = Append(toTcp, [port |-> m.port, ok |-> ok])
  BY <1>3 DEF Bind, BindInUse, BindDropped, BindOk, Reply, ReplyArrives
<1> QED
  BY <1>6, <1>7, <1>8

\* A SYN that is sent again, a handshake that ends, a connection that is closed.
LEMMA RepliesSlots ==
  ASSUME RInv, NEW i \in Slots, SynTimer(i) \/ Segment(i)
  PROVE  Uses' /\ OneMessage' /\ MessagesAwaited'
<1>0. Typed /\ Uses /\ OneMessage /\ MessagesAwaited
  BY DEF RInv, UInv, IInv
<1>1. PICK r : r = conn[i].req
  OBVIOUS
<1>2. i \in Used /\ r \in Reqs /\ conn \in [Slots -> Connection]
  BY <1>0, <1>1 DEF SynTimer, Segment, Established, Reset, Close, Used, Typed, TypeOK, Shaped
<1>3. UNCHANGED <<sent, lsn, bound, pend, toNet, toTcp>>
  BY DEF SynTimer, Segment, Established, Reset, Close, net
<1>4. \/ UNCHANGED <<answer, twice>>
      \/ conn[i].st = "synsent" /\ \E status \in {"ok", "failed"} : Answer(r, status)
  BY <1>1 DEF SynTimer, Segment, Established, Reset, ResetAnswers, Close
<1>5. \/ conn' = [conn EXCEPT ![i].retries = @ + 1] /\ UNCHANGED <<answer, handle>>
      \/ conn' = [conn EXCEPT ![i].st = "established"] /\ UNCHANGED handle
      \/ CloseSlot(i)
  BY DEF SynTimer, Segment, Established, Reset, Close
<1>6. /\ AnsweredOnce' /\ \A q \in Reqs : q # r => answer'[q] = answer[q]
      /\ answer' # answer => i \in Outbound
  BY <1>0, <1>1, <1>2, <1>4, AnswerOnce DEF Uses, Unanswered, AnsweredOnce
<1>7. /\ Listening' = Listening /\ Pending' = Pending /\ Outbound \subseteq Used
      /\ \A q \in Listening : lsn[q] \in Reqs
      /\ \A q \in Pending : pend[q] \in Reqs
      /\ \A j \in Used : conn[j].req \in Reqs
  BY <1>0, <1>3 DEF Listening, Pending, Outbound, Typed, TypeOK, Shaped
<1>8. /\ \A j \in Used' : /\ j \in Used /\ conn'[j].req = conn[j].req /\ conn'[j].port = conn[j].port
                          /\ (j \in Outbound' <=> j \in Outbound)
                          /\ conn'[j].st = "synsent" => conn[j].st = "synsent"
                          /\ j # i \/ conn'[j].st # "synsent" \/ UNCHANGED answer
      /\ Outbound' \subseteq Used'
  BY <1>2, <1>5 DEF CloseSlot, Used, Outbound, Unused, Connection
<1>9. i \in Outbound => /\ sent[r] = "connect"
                        /\ \A q \in Listening : lsn[q] # r
                        /\ \A q \in Pending : pend[q] # r
                        /\ \A j \in Used : j # i => conn[j].req # r
  <2> SUFFICES ASSUME i \in Outbound
               PROVE  /\ sent[r] = "connect"
                      /\ \A q \in Listening : lsn[q] # r
                      /\ \A q \in Pending : pend[q] # r
                      /\ \A j \in Used : j # i => conn[j].req # r
    OBVIOUS
  <2>1. /\ sent[r] = "connect"
        /\ \A q \in Listening : lsn[q] # r
        /\ \A q \in Pending : pend[q] # r
        /\ \A j \in Outbound : j # i => conn[j].req # r
    BY <1>0, <1>1 DEF Uses, Roles
  <2>2. \A j \in Used \ Outbound : conn[j].req # r
    BY <1>0, <2>1 DEF Uses, InboundOfListener, Unanswered
  <2> QED
    BY <2>1, <2>2
<1>10. /\ \A q \in Reqs : q # r => handle'[q] = handle[q]
       /\ i \notin Outbound => handle' = handle
       /\ handle'[r] = handle[r] \/ (i \in Outbound /\ i \notin Used')
  BY <1>0, <1>1, <1>2, <1>5 DEF CloseSlot, OwnsHandle, Outbound, Used, Unused, Typed, TypeOK
<1>11. Roles'
  BY <1>0, <1>3, <1>7, <1>8 DEF Uses, Roles
<1>12. InboundOfListener'
  BY <1>0, <1>3, <1>8 DEF Uses, InboundOfListener
<1>13. \A q \in Listening : answer'[lsn[q]] = answer[lsn[q]]
  BY <1>6, <1>7, <1>9
<1>14. Unanswered'
  <2>1. \A q \in Reqs : sent[q] = "new" => answer'[q] = "none"
    BY <1>0, <1>6, <1>9 DEF Uses, Unanswered, Open
  <2>2. \A q \in Pending : answer'[pend[q]] = "none"
    BY <1>0, <1>6, <1>7, <1>9 DEF Uses, Unanswered, Open
  <2>3. \A j \in Used' : conn'[j].st = "synsent" => j \in Outbound' /\ answer'[conn'[j].req] = "none"
    BY <1>0, <1>1, <1>6, <1>7, <1>8, <1>9 DEF Uses, Unanswered, Open
  <2> QED
    BY <1>0, <1>3, <1>7, <1>13, <2>1, <2>2, <2>3 DEF Uses, Unanswered, Open
<1>15. HandlesOpen'
  BY <1>0, <1>1, <1>3, <1>7, <1>8, <1>9, <1>10 DEF Uses, HandlesOpen
<1>16. \A q \in Ports : Awaited(q) => Awaited(q)'
  BY <1>3, <1>7, <1>13 DEF Awaited, Open
<1>17. OneMessage' /\ MessagesAwaited'
  BY <1>0, <1>3, <1>16, AwaitedKept DEF OneMessage, Asking
<1> QED
  BY <1>6, <1>11, <1>12, <1>14, <1>15, <1>17 DEF Uses

\* A new inbound connection shares the handle of its listener.
LEMMA RepliesSyn ==
  ASSUME RInv, NEW p \in Ports, NEW peer \in Peers, Syn(p, peer)
  PROVE  Uses' /\ OneMessage' /\ MessagesAwaited'
<1>0. Typed /\ Uses /\ OneMessage /\ MessagesAwaited
  BY DEF RInv, UInv, IInv
<1>1. UNCHANGED <<sent, answer, twice, handle, lsn, bound, pend, toNet, toTcp>> /\ p \in bound \cap Listening
  BY DEF Syn, apps, net
<1>2. Listening' = Listening /\ Pending' = Pending
  BY <1>1 DEF Listening, Pending
<1>3. \A j \in Used' :
        \/ j \in Used /\ conn'[j] = conn[j] /\ (j \in Outbound' <=> j \in Outbound)
        \/ /\ j \notin Outbound' /\ conn'[j].st = "synrcvd"
           /\ conn'[j].port = p /\ conn'[j].req = lsn[p]
  BY <1>0 DEF Syn, FreeSlot, First, Used, Outbound, Typed, TypeOK
<1>4. Outbound' \subseteq Used'
  BY DEF Outbound
<1>5. Roles'
  BY <1>0, <1>1, <1>2, <1>3, <1>4 DEF Uses, Roles
<1>6. InboundOfListener' /\ Unanswered' /\ AnsweredOnce' /\ HandlesOpen'
  BY <1>0, <1>1, <1>2, <1>3 DEF Uses, InboundOfListener, Unanswered, AnsweredOnce, HandlesOpen, Open
<1>7. \A q \in Ports : Awaited(q) => Awaited(q)'
  BY <1>1, <1>2 DEF Awaited, Open
<1>8. OneMessage' /\ MessagesAwaited'
  BY <1>0, <1>1, <1>7, AwaitedKept DEF OneMessage, Asking
<1> QED
  BY <1>5, <1>6, <1>8 DEF Uses

\* The requests of a tcpd that crashed are nobody's.
LEMMA RepliesCrash ==
  ASSUME RInv, Crash
  PROVE  Uses' /\ OneMessage' /\ MessagesAwaited'
<1>0. Typed /\ Uses
  BY DEF RInv, UInv, IInv
<1>1. Listening' = {} /\ Pending' = {} /\ Used' = {} /\ Outbound' = {}
  BY DEF Crash, Listening, Pending, Used, Outbound, Unused
<1>2. Asking' = {} /\ DOMAIN toTcp' = {}
  <2>1. \A k \in DOMAIN toNet : [toNet[k] EXCEPT !.live = FALSE].live = FALSE
    <3>1. toNet \in Seq([port : Ports, live : BOOLEAN])
      BY <1>0 DEF Typed, TypeOK
    <3>2. \A k \in DOMAIN toNet : toNet[k] \in [port : Ports, live : BOOLEAN]
      BY <3>1, SeqElements
    <3> QED
      BY <3>2
  <2> QED
    BY <2>1 DEF Crash, Asking
<1>3. \A r \in Reqs : sent'[r] = "new" => sent[r] = "new"
  BY DEF Crash
<1>4. UNCHANGED <<answer, twice>> /\ bound' = {}
  BY DEF Crash
<1>5. Uses'
  BY <1>0, <1>1, <1>3, <1>4
  DEF Uses, Roles, InboundOfListener, Unanswered, AnsweredOnce, HandlesOpen, Open
<1> QED
  BY <1>2, <1>5 DEF OneMessage, MessagesAwaited

LEMMA RepliesInit == Disjoint /\ Init => RInv
<1> SUFFICES ASSUME Disjoint, Init PROVE RInv
  OBVIOUS
<1>1. UInv
  BY InvariantInit DEF UInv, Init, Apart, TupleUnique, Listening, ClientPorts, Used, Unused
<1>2. Listening = {} /\ Pending = {} /\ Used = {} /\ Outbound = {}
  BY DEF Init, Listening, Pending, Used, Outbound, Unused
<1>3. Uses
  BY <1>2 DEF Init, Uses, Roles, InboundOfListener, Unanswered, AnsweredOnce, HandlesOpen, Open
<1>4. OneMessage /\ MessagesAwaited
  BY DEF Init, OneMessage, MessagesAwaited, Asking
<1> QED
  BY <1>1, <1>3, <1>4 DEF RInv

LEMMA RepliesStep == Disjoint /\ RInv /\ [Next]_vars => RInv'
<1> SUFFICES ASSUME Disjoint, RInv, [Next]_vars PROVE Uses' /\ OneMessage' /\ MessagesAwaited'
  BY UniqueStep DEF RInv
<1>1. CASE Configuration \/ UNCHANGED vars
  BY <1>1 DEF Configuration, vars, apps, net, RInv, Uses, Roles, InboundOfListener, Unanswered, AnsweredOnce,
              HandlesOpen, OneMessage, MessagesAwaited, Awaited, Open, Asking, Listening, Pending,
              Used, Outbound
<1>2. ASSUME NEW r \in Reqs, Dropped(r) PROVE Uses' /\ OneMessage' /\ MessagesAwaited'
  BY <1>2, RequestEnds DEF Dropped, net
<1> QED
  BY <1>1, <1>2, RepliesConnect, RepliesListen, RepliesBind, RepliesListenerBound, RepliesConnectBound,
     RepliesSlots, RepliesSyn, RepliesCrash DEF Next

\* Every request gets one answer at most, through a handle that is open, and
\* no answer of networkd finds nobody waiting, in any interleaving of segments,
\* timers and binds and over crashes (tcpd.cpp:409-422, 571, 589, 1059, 1209).
THEOREM RepliesAreSafe == Disjoint => (Spec => []RepliesSafe)
<1> SUFFICES ASSUME Disjoint PROVE Spec => []RepliesSafe
  OBVIOUS
<1>1. Init => RInv
  BY RepliesInit
<1>2. RInv /\ [Next]_vars => RInv'
  BY RepliesStep
<1>3. RInv => RepliesSafe
  <2> SUFFICES ASSUME RInv PROVE RepliesSafe
    OBVIOUS
  <2>1. \A p \in Pending : p \in ClientPorts
    BY DEF RInv, UInv, IInv, Agree, PortsTied, Pending, ClientPorts
  <2>2. ResponsesOwned
    BY <2>1 DEF RInv, MessagesAwaited, Awaited, ResponsesOwned
  <2> QED
    BY <2>2 DEF RInv, Uses, RepliesSafe
<1> QED
  BY <1>1, <1>2, <1>3, PTL DEF Spec
=============================================================================
