------------------------------- MODULE LibNet -------------------------------
(* One application that uses libnet (libnet/src/net.cpp): it          *)
(* connects, listens and accepts, or asks for the lease, and exchanges a    *)
(* request and an answer over the pipes of tcpd, which serves it and other  *)
(* applications on one thread (network-services/src/tcpd.cpp).  A pipe      *)
(* holds PipeSize messages and whoever writes to a full one waits.          *)
(*                                                                         *)
(* External: the hosts at the far end, which answer and end when they like; *)
(* the service of leases; other applications; the kernel, which may refuse  *)
(* a descriptor (MaxTroubles) and drops what is written to a pipe that      *)
(* nobody has open.                                                         *)
EXTENDS Integers, Sequences, SequencesExt, FiniteSetsExt

CONSTANTS
  PipeSize,
  Requested,    \* messages of a request
  Unit,         \* bytes of a message of the answer
  MaxAnswers,   \* bound: of such messages for a connection
  MaxCalls,     \* bound: of calls, each with a reply pipe of its own
  MaxTroubles,  \* bound: of failures, times out and ends of the reading
  MaxOthers     \* bound: of messages from other applications

LibNetAssumption ==
  /\ {PipeSize, Requested, Unit, MaxCalls} \subseteq Nat \ {0}
  /\ {MaxAnswers, MaxTroubles, MaxOthers} \subseteq Nat

VARIABLES
  call,       \* number and kind of the call that is under way or was the last
  pc,         \* where the application is
  conn,       \* its Connection: id, what is pending, closed
  wrote, got, \* of the request and of the answer
  handles,    \* descriptors that it has open
  asked,      \* the pipe of tcpd
  back,       \* the reply pipe of each call
  tcp,        \* of each connection: state at tcpd, messages sent to the application
  writes,     \* what tcpd has to write before anything else
  troubles, others,
  given,      \* history: connections given up by a failure
  early       \* history: an answer came that the application was not reading

libVars == <<call, pc, conn, wrote, got, handles, asked, back, tcp, writes, troubles, others, given, early>>

Calls == 1..MaxCalls
Unconnected == [id |-> 0, pending |-> <<>>, closed |-> FALSE]
Ids == Calls  \* a connection is named after the call that asked for it
Message(type, id) == [type |-> type, id |-> id, bytes |-> <<>>]
Response(id, ok) == [type |-> IF ok THEN "response" ELSE "refusal", id |-> id, bytes |-> <<>>]
Data(id, bytes) == [type |-> "data", id |-> id, bytes |-> bytes]

TypeOK ==
  /\ call.number \in 0..MaxCalls /\ call.kind \in {"connect", "listen", "lease"}
  /\ pc \in {"out", "reply", "ask", "wait", "open", "close", "listening", "served"}
  /\ wrote \in 0..Requested /\ handles \subseteq {"server", "endpoint"} \X {0} \cup {"reply"} \X Calls
  /\ Len(asked) =< PipeSize /\ \A k \in Calls : Len(back[k]) =< PipeSize

Init ==
  /\ call = [number |-> 0, kind |-> "connect"] /\ pc = "out" /\ conn = Unconnected
  /\ wrote = 0 /\ got = <<>> /\ handles = {} /\ asked = <<>>
  /\ back = [k \in Calls |-> <<>>]
  /\ tcp = [k \in Ids |-> [state |-> "none", sent |-> 0]]
  /\ writes = <<>> /\ troubles = 0 /\ others = 0 /\ given = {} /\ early = FALSE

Server == <<"server", 0>>
Endpoint == <<"endpoint", 0>>
Reply(k) == <<"reply", k>>
Here == call.number
Trouble == troubles < MaxTroubles /\ troubles' = troubles + 1

\* tcpd_protocol.hpp write_message(): waits until all of the message is in.
Sends(m) == Len(asked) < PipeSize /\ asked' = Append(asked, m)

-----------------------------------------------------------------------------
(* connect_ip(), listen() and dhcp_lease(), which begin alike.              *)

\* Every failing path closes what it has opened.
Release == handles' = {} /\ pc' = "out" /\ conn' = Unconnected /\ back' = [back EXCEPT ![Here] = <<>>]

Call ==
  /\ pc = "out" /\ Here < MaxCalls
  /\ \E kind \in {"connect", "listen", "lease"} : call' = [number |-> Here + 1, kind |-> kind]
  /\ handles' = {Server} /\ pc' = "reply" /\ wrote' = 0 /\ got' = <<>>
  /\ UNCHANGED <<conn, asked, back, tcp, writes, troubles, others, given, early>>

OpenReply ==
  /\ pc = "reply" /\ handles' = handles \cup {Reply(Here)} /\ pc' = "ask"
  /\ UNCHANGED <<call, conn, wrote, got, asked, back, tcp, writes, troubles, others, given, early>>

\* The pipe cannot be opened or has no number, or the request is refused.
NotAsked ==
  /\ pc \in {"reply", "ask"} /\ Trouble /\ Release
  /\ UNCHANGED <<call, wrote, got, asked, tcp, writes, others, given, early>>

Ask ==
  /\ pc = "ask" /\ call.kind # "lease" /\ Sends(Message(call.kind, Here)) /\ pc' = "wait"
  /\ UNCHANGED <<call, conn, wrote, got, handles, back, tcp, writes, troubles, others, given, early>>

\* Other messages are passed over.
Await ==
  LET m == Head(back[Here]) IN
  /\ pc = "wait" /\ back[Here] # <<>>
  /\ CASE m.type = "response" ->
            /\ pc' = IF call.kind = "connect" THEN "open" ELSE "listening"
            /\ conn' = IF call.kind = "connect" THEN [Unconnected EXCEPT !.id = m.id] ELSE Unconnected
            /\ back' = [back EXCEPT ![Here] = Tail(@)] /\ UNCHANGED handles
       [] m.type = "refusal" -> Release
       [] OTHER -> back' = [back EXCEPT ![Here] = Tail(@)] /\ UNCHANGED <<pc, conn, handles>>
  /\ UNCHANGED <<call, wrote, got, asked, tcp, writes, troubles, others, given, early>>

\* The lease is told or refused, or waited for in vain.
Leased ==
  /\ pc = "ask" /\ call.kind = "lease" /\ Release
  /\ UNCHANGED <<call, wrote, got, asked, tcp, writes, troubles, others, given, early>>

\* The waits are counted.
GiveUp ==
  /\ pc = "wait" /\ back[Here] = <<>> /\ Trouble /\ Release /\ given' = given \cup {Here}
  /\ UNCHANGED <<call, wrote, got, asked, tcp, writes, others, early>>

-----------------------------------------------------------------------------
(* write(), read() and close_connection() on a connection of connect_ip(),  *)
(* as request() of http_client.cpp calls them.                              *)

Write ==
  /\ pc = "open" /\ ~conn.closed /\ wrote < Requested
  /\ Sends(Message("send", conn.id)) /\ wrote' = wrote + 1
  /\ UNCHANGED <<call, pc, conn, got, handles, back, tcp, writes, troubles, others, given, early>>

Reads == pc = "open" /\ wrote = Requested

\* At most capacity bytes are handed over; the rest is pending.
Hand(bytes, capacity) ==
  LET n == Min({Len(bytes), capacity}) IN
  got' = got \o SubSeq(bytes, 1, n) /\ conn' = [conn EXCEPT !.pending = SubSeq(bytes, n + 1, Len(bytes))]

ReadPending ==
  /\ Reads /\ conn.pending # <<>> /\ \E capacity \in {1, Unit} : Hand(conn.pending, capacity)
  /\ UNCHANGED <<call, pc, wrote, handles, asked, back, tcp, writes, troubles, others, given, early>>

ReadEvent ==
  LET m == Head(back[Here]) IN
  /\ Reads /\ conn.pending = <<>> /\ ~conn.closed /\ back[Here] # <<>>
  /\ CASE m.type = "data" /\ m.id = conn.id -> \E capacity \in {1, Unit} : Hand(m.bytes, capacity)
       [] m.type = "closed" /\ m.id = conn.id -> conn' = [conn EXCEPT !.closed = TRUE] /\ UNCHANGED got
       [] OTHER -> UNCHANGED <<conn, got>>
  /\ back' = [back EXCEPT ![Here] = Tail(@)]
  /\ UNCHANGED <<call, pc, wrote, handles, asked, tcp, writes, troubles, others, given, early>>

\* The answer is read to its end, or cannot be used.
Finish ==
  /\ Reads /\ pc' = "close"
  /\ \/ conn.pending = <<>> /\ conn.closed /\ UNCHANGED <<troubles, early>>
     \/ ~conn.closed /\ Trouble /\ early' = TRUE
  /\ UNCHANGED <<call, conn, wrote, got, handles, asked, back, tcp, writes, others, given>>

Close ==
  /\ pc = "close" /\ Sends(Message("close", conn.id)) /\ Release
  /\ UNCHANGED <<call, wrote, got, tcp, writes, troubles, others, given, early>>

-----------------------------------------------------------------------------
(* accept(), and the end of a connection that came so: its pipes are the    *)
(* listener's and stay open.                                                *)

Accept ==
  LET m == Head(back[Here]) IN
  /\ pc = "listening" /\ back[Here] # <<>> /\ back' = [back EXCEPT ![Here] = Tail(@)]
  /\ IF m.type # "accept" THEN UNCHANGED <<pc, conn, handles, troubles, given>>
     ELSE \/ /\ handles' = handles \cup {Endpoint} /\ pc' = "served"
             /\ conn' = [Unconnected EXCEPT !.id = m.id] /\ UNCHANGED <<troubles, given>>
          \/ Trouble /\ given' = given \cup {m.id} /\ UNCHANGED <<pc, conn, handles>>
  /\ UNCHANGED <<call, wrote, got, asked, tcp, writes, others, early>>

CloseAccepted ==
  /\ pc = "served" /\ Sends(Message("close", conn.id))
  /\ handles' = handles \ {Endpoint} /\ conn' = Unconnected /\ pc' = "listening"
  /\ UNCHANGED <<call, wrote, got, back, tcp, writes, troubles, others, given, early>>

-----------------------------------------------------------------------------
(* tcpd, as far as the pipes show it, and the far end.  What it writes to a *)
(* full pipe keeps it from everything else.                                *)

Idle == writes = <<>>
State(k) == tcp[k].state
Becomes(k, state) == tcp' = [tcp EXCEPT ![k].state = state]
Closed(k) == Message("closed", k)
Established(k) == State(k) = "established"

Others ==
  /\ others < MaxOthers /\ others' = others + 1 /\ Sends(Message("other", 0))
  /\ UNCHANGED <<call, pc, conn, wrote, got, handles, back, tcp, writes, troubles, given, early>>

\* Without an address of the host a close is passed over.
TakeClose(k) ==
  IF ~Established(k) THEN UNCHANGED <<tcp, writes, troubles, given>>
  ELSE \/ Becomes(k, "closed") /\ writes' = <<Closed(k)>> /\ UNCHANGED <<troubles, given>>
       \/ Trouble /\ given' = given \cup {k} /\ UNCHANGED <<tcp, writes>>

TakeConnect(k) ==
  /\ UNCHANGED <<troubles, given>>
  /\ IF Reply(k) \notin handles THEN UNCHANGED <<tcp, writes>>
     ELSE \/ Becomes(k, "syn") /\ UNCHANGED writes
          \/ writes' = <<Response(k, FALSE)>> /\ UNCHANGED tcp

TakeListen(k) ==
  /\ UNCHANGED <<troubles, given>>
  /\ IF Reply(k) \notin handles THEN UNCHANGED <<tcp, writes>>
     ELSE \/ Becomes(k, "listener") /\ writes' = <<Response(k, TRUE)>>
          \/ writes' = <<Response(k, FALSE)>> /\ UNCHANGED tcp

TakeRequest ==
  LET m == Head(asked) IN
  /\ Idle /\ asked # <<>> /\ asked' = Tail(asked)
  /\ CASE m.type = "connect" -> TakeConnect(m.id)
       [] m.type = "listen" -> TakeListen(m.id)
       [] m.type = "close" -> TakeClose(m.id)
       [] OTHER -> UNCHANGED <<tcp, writes, troubles, given>>
  /\ UNCHANGED <<call, pc, conn, wrote, got, handles, back, others, early>>

WriteBack ==
  LET m == Head(writes) IN
  /\ writes # <<>> /\ writes' = Tail(writes)
  /\ IF Reply(m.id) \in handles
       THEN Len(back[m.id]) < PipeSize /\ back' = [back EXCEPT ![m.id] = Append(@, m)]
       ELSE UNCHANGED back
  /\ UNCHANGED <<call, pc, conn, wrote, got, handles, asked, tcp, troubles, others, given, early>>

NotTcpd == UNCHANGED <<call, pc, conn, wrote, got, handles, asked, back, troubles, others, given>>

Answered(k) ==
  /\ Idle /\ State(k) = "syn" /\ Becomes(k, "established") /\ writes' = <<Response(k, TRUE)>>
  /\ UNCHANGED early /\ NotTcpd

\* Reset while the handshake is under way, or no answer to any SYN.
Refused(k) ==
  /\ Idle /\ State(k) = "syn" /\ Becomes(k, "closed")
  /\ writes' \in {<<Response(k, FALSE), Closed(k)>>, <<Response(k, FALSE)>>}
  /\ UNCHANGED early /\ NotTcpd

Arrives(k) ==
  /\ Idle /\ State(k) = "listener" /\ Becomes(k, "established") /\ writes' = <<Message("accept", k)>>
  /\ UNCHANGED early /\ NotTcpd

Segment(k, fin) ==
  LET bytes == [i \in 1..Unit |-> tcp[k].sent * Unit + i] IN
  /\ Idle /\ Established(k) /\ call.kind = "connect" /\ tcp[k].sent < MaxAnswers
  /\ tcp' = [tcp EXCEPT ![k] = [state |-> IF fin THEN "closed" ELSE @.state, sent |-> @.sent + 1]]
  /\ writes' = <<Data(k, bytes)>> \o (IF fin THEN <<Closed(k)>> ELSE <<>>)
  /\ early' = (early \/ ~(Reads /\ conn.id = k)) /\ NotTcpd

\* FIN or RST.
Ends(k) ==
  /\ Idle /\ Established(k) /\ Becomes(k, "closed") /\ writes' = <<Closed(k)>>
  /\ UNCHANGED early /\ NotTcpd

Tcpd(k) == Answered(k) \/ Refused(k) \/ Arrives(k) \/ Ends(k) \/ (\E fin \in BOOLEAN : Segment(k, fin))

-----------------------------------------------------------------------------
App ==
  \/ OpenReply \/ Ask \/ Await \/ Leased \/ Write \/ ReadPending \/ ReadEvent \/ Close
  \/ Accept \/ CloseAccepted

Next ==
  \/ Call \/ NotAsked \/ GiveUp \/ Finish \/ App \/ Others \/ TakeRequest \/ WriteBack
  \/ \E k \in Ids : Tcpd(k)

Spec == Init /\ [][Next]_libVars

\* The application goes on with its call, and closes what has ended.
Goes == App \/ (conn.closed /\ Finish)
FarEnd(k) == Answered(k) \/ Refused(k) \/ Ends(k)

Fairness ==
  /\ WF_libVars(Goes) /\ WF_libVars(TakeRequest) /\ WF_libVars(WriteBack)
  /\ \A k \in Ids : WF_libVars(FarEnd(k))

-----------------------------------------------------------------------------
\* The bytes that read() returned are those of the far end from the first on,
\* and at the end of the connection none is missing (net.cpp:280-337).
ReadWhole ==
  /\ \A i \in DOMAIN got : got[i] = i
  /\ conn.closed => Len(got) = tcp[conn.id].sent * Unit

\* Outside a call no descriptor is open, a listener keeps its own two, and
\* tcpd has no connection that nobody will close unless a failure gave it up
\* (net.cpp:45-232, tcpd.cpp:867-895).
NothingLeft ==
  /\ pc = "out" => handles = {}
  /\ pc \in {"open", "close", "listening"} => handles = {Server, Reply(Here)}
  /\ pc = "out" /\ asked = <<>> /\ Idle =>
       \A k \in Ids : State(k) \in {"syn", "established"} => k \in given

\* The application waits for room at tcpd while tcpd waits for room in the
\* pipe that the application does not read.
Circle ==
  /\ pc \in {"open", "close"} /\ ~Reads /\ Len(asked) = PipeSize
  /\ ~Idle /\ Reply(Head(writes).id) \in handles /\ Len(back[Head(writes).id]) = PipeSize

\* They wait for one another only where an answer came early: before the
\* request was written, or after the reading was broken off (net.cpp:250-276,
\* tcpd_protocol.hpp:150-186, tcpd.cpp:472-480).
CircleWasEarly == Circle => early

\* A connection ends once its far end does (http_client.cpp:68-130).
Engaged == pc \in {"wait", "open", "close"}
Settled == pc \in {"out", "listening"} \/ Circle
ExchangeEnds == Engaged ~> Settled
=============================================================================
