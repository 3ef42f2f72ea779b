----------------------------- MODULE HttpServer -----------------------------
(* The server of files (httpserver/src/httpserver.cpp) over libnet          *)
(* (libnet/src/net.cpp): one thread that reads requests as they come, in    *)
(* any cuts, serves one at a time and waits for a client that does not read.*)
(*                                                                         *)
(* External: tcpd, between which and a client both directions are streams   *)
(* (TcpStream); the clients, which connect, send and read when they like and *)
(* may leave at any time; whoever changes the file that is served.          *)
EXTENDS Naturals, Sequences, SequencesExt, FiniteSetsExt

CONSTANTS
  Clients,
  kMaxConnections,
  kMaxRequestBytes,  \* in tokens
  Asks,              \* what clients send: a line, headers, "nl", "nl"
  Sizes,             \* pieces of the file, of each of its versions
  Room               \* tokens that an endpoint holds for the client

HttpAssumption ==
  /\ {kMaxConnections, kMaxRequestBytes, Room} \subseteq Nat \ {0}
  /\ Sizes \in Seq(Nat) /\ Sizes # <<>>

VARIABLES
  client,    \* of each: where it is, and what it has still to send
  up, down,  \* its endpoint, towards the server and back
  received,  \* what it has read
  queue,     \* reply pipe of the listener: accept events
  connections,  \* the slots: client and the request so far
  open,      \* endpoints that the server has open
  at, i,     \* where the server is, and with which slot
  out,       \* what endpoint_write_all() has still to write
  file,      \* the file that is open: pieces read, or closed
  version,   \* of the file
  excused    \* history: clients whose file changed while it was sent, or who
             \* found no free slot

serverVars == <<connections, open, at, i, out, file>>
vars == <<client, up, down, received, queue, serverVars, version, excused>>

Nobody == "nobody"
Slots == 1..kMaxConnections
Free == [client |-> Nobody, request |-> <<>>]
Closed == -1

Token(kind, what, n) == [kind |-> kind, what |-> what, n |-> n]

TypeOK ==
  /\ \A c \in Clients : client[c].at \in {"none", "open", "left", "done"}
  /\ \A s \in Slots : Len(connections[s].request) =< kMaxRequestBytes
  /\ open \subseteq Clients /\ i \in Slots /\ version \in 1..Len(Sizes)
  /\ at \in {"poll", "read", "header", "file", "write", "accept", "wait"}

Init ==
  /\ \E ask \in Asks : client = [c \in Clients |-> [at |-> "none", todo |-> ask[c], asked |-> ask[c]]]
  /\ up = [c \in Clients |-> <<>>] /\ down = [c \in Clients |-> <<>>]
  /\ received = [c \in Clients |-> <<>>]
  /\ queue = <<>> /\ connections = [s \in Slots |-> Free] /\ open = {}
  /\ at = "poll" /\ i = 1 /\ out = <<>> /\ file = Closed
  /\ version = 1 /\ excused = {}

-----------------------------------------------------------------------------
(* The clients and the file.                                               *)

Connect(c) ==
  /\ client[c].at = "none" /\ client' = [client EXCEPT ![c].at = "open"]
  /\ queue' = Append(queue, c) /\ open' = open \cup {c}
  /\ UNCHANGED <<up, down, received, connections, at, i, out, file, version, excused>>

Send(c) ==
  /\ client[c].at = "open" /\ client[c].todo # <<>>
  /\ up' = [up EXCEPT ![c] = Append(@, Head(client[c].todo))]
  /\ client' = [client EXCEPT ![c].todo = Tail(@)]
  /\ UNCHANGED <<down, received, queue, serverVars, version, excused>>

Read(c) ==
  /\ client[c].at = "open"
  /\ IF down[c] # <<>>
       THEN /\ received' = [received EXCEPT ![c] = Append(@, Head(down[c]))]
            /\ down' = [down EXCEPT ![c] = Tail(@)] /\ UNCHANGED client
       ELSE c \notin open /\ client' = [client EXCEPT ![c].at = "done"] /\ UNCHANGED <<received, down>>
  /\ UNCHANGED <<up, queue, serverVars, version, excused>>

Leave(c) ==
  /\ client[c].at = "open" /\ client' = [client EXCEPT ![c].at = "left"]
  /\ UNCHANGED <<up, down, received, queue, serverVars, version, excused>>

Change ==
  /\ version < Len(Sizes) /\ version' = version + 1
  /\ excused' = IF file # Closed THEN excused \cup {connections[i].client} ELSE excused
  /\ UNCHANGED <<client, up, down, received, queue, serverVars>>

-----------------------------------------------------------------------------
(* poll_connections().                                                     *)

Here == connections[i].client
Buffer == connections[i].request
Left(c) == client[c].at = "left"

\* To the next slot, and from the last one to the listener.
Onwards == IF i = kMaxConnections THEN at' = "accept" /\ i' = 1 ELSE at' = "poll" /\ i' = i + 1

Release ==
  /\ open' = open \ {Here} /\ connections' = [connections EXCEPT ![i] = Free]
  /\ out' = <<>> /\ file' = Closed /\ Onwards

Poll ==
  /\ at = "poll"
  /\ IF Here = Nobody THEN Onwards ELSE at' = "read" /\ i' = i
  /\ UNCHANGED <<client, up, down, received, queue, connections, open, out, file, version, excused>>

\* request_complete().
Complete(r) == \E k \in 1..(Len(r) - 1) : r[k] = "nl" /\ r[k + 1] = "nl"

\* An answer that is written to its end before anything else.
Answer(text) == out' = text /\ at' = "write"
HeadOnly(line) == line \in {"head", "head gone"}
Error(status, line) ==
  IF HeadOnly(line) THEN <<Token("header", status, 1)>>
  ELSE <<Token("header", status, 1), Token("body", status, 0)>>

ReadRequest ==
  LET room == kMaxRequestBytes - Len(Buffer)
      n == Min({room, Len(up[Here])})
  IN
  /\ at = "read" /\ room > 0 /\ n > 0
  /\ up' = [up EXCEPT ![Here] = SubSeq(@, n + 1, Len(@))]
  /\ connections' = [connections EXCEPT ![i].request = @ \o SubSeq(up[Here], 1, n)]
  /\ at' = IF Complete(connections'[i].request) THEN "header" ELSE "read"
  /\ UNCHANGED <<client, down, received, queue, open, i, out, file, version, excused>>

TooLarge ==
  /\ at = "read" /\ Len(Buffer) = kMaxRequestBytes /\ Answer(Error("431", ""))
  /\ UNCHANGED <<client, up, down, received, queue, connections, open, i, file, version, excused>>

NothingThere ==
  /\ at = "read" /\ Len(Buffer) < kMaxRequestBytes /\ up[Here] = <<>>
  /\ IF Left(Here) THEN Release ELSE Onwards /\ UNCHANGED <<connections, open, out, file>>
  /\ UNCHANGED <<client, up, down, received, queue, version, excused>>

\* serve_request(): what stands in front of the first end of a line.
LineOf(r) == IF Head(r) = "nl" THEN "" ELSE Head(r)

StatusOf(line) ==
  CASE line \in {"get", "head"} -> "200" [] line = "post" -> "405" [] line = "get .." -> "403"
    [] line \in {"get gone", "head gone"} -> "404" [] OTHER -> "400"

Header ==
  LET line == LineOf(Buffer)
      status == StatusOf(line)
  IN
  /\ at = "header"
  /\ IF status = "200"
       THEN /\ Answer(<<Token("header", "200", Sizes[version])>>)
            /\ file' = IF HeadOnly(line) THEN Closed ELSE 0
       ELSE Answer(Error(status, line)) /\ UNCHANGED file
  /\ UNCHANGED <<client, up, down, received, queue, connections, open, i, version, excused>>

\* endpoint_write_all(): waits for room, and fails when the client has left.
Write ==
  /\ at = "write" /\ out # <<>> /\ ~Left(Here) /\ Len(down[Here]) < Room
  /\ down' = [down EXCEPT ![Here] = Append(@, Head(out))] /\ out' = Tail(out)
  /\ UNCHANGED <<client, up, received, queue, connections, open, at, i, file, version, excused>>

WriteFails ==
  /\ at = "write" /\ out # <<>> /\ Left(Here) /\ Release
  /\ UNCHANGED <<client, up, down, received, queue, version, excused>>

Written ==
  /\ at = "write" /\ out = <<>>
  /\ IF file = Closed THEN Release ELSE at' = "file" /\ UNCHANGED <<connections, open, i, out, file>>
  /\ UNCHANGED <<client, up, down, received, queue, version, excused>>

ReadFile ==
  /\ at = "file"
  /\ IF file < Sizes[version]
       THEN Answer(<<Token("piece", version, file + 1)>>) /\ file' = file + 1 /\ UNCHANGED <<connections, open, i>>
       ELSE Release
  /\ UNCHANGED <<client, up, down, received, queue, version, excused>>

-----------------------------------------------------------------------------
(* main(): one connection is accepted, or the server waits.                *)

FreeSlots == {s \in Slots : connections[s].client = Nobody}

\* accept() fails on an endpoint that cannot be opened: nobody has it then.
Accept ==
  LET c == Head(queue) IN
  /\ at = "accept" /\ queue # <<>> /\ queue' = Tail(queue)
  /\ at' = "poll" /\ i' = 1
  /\ \/ /\ FreeSlots # {}
        /\ connections' = [connections EXCEPT ![Min(FreeSlots)] = [client |-> c, request |-> <<>>]]
        /\ UNCHANGED <<open, excused>>
     \/ /\ FreeSlots = {} \/ Left(c)
        /\ open' = open \ {c} /\ excused' = excused \cup {c} /\ UNCHANGED connections
  /\ UNCHANGED <<client, up, down, received, out, file, version>>

Readable(c) == up[c] # <<>> \/ Left(c)

NobodyNew ==
  /\ at = "accept" /\ queue = <<>> /\ at' = "wait"
  /\ UNCHANGED <<client, up, down, received, queue, connections, open, i, out, file, version, excused>>

Wait ==
  /\ at = "wait"
  /\ queue # <<>> \/ \E s \in Slots : connections[s].client # Nobody /\ Readable(connections[s].client)
  /\ at' = "poll"
  /\ UNCHANGED <<client, up, down, received, queue, connections, open, i, out, file, version, excused>>

Server ==
  \/ Poll \/ ReadRequest \/ TooLarge \/ NothingThere \/ Header \/ Write \/ WriteFails \/ Written \/ ReadFile
  \/ Accept \/ NobodyNew \/ Wait

Next == Server \/ Change \/ \E c \in Clients : Connect(c) \/ Send(c) \/ Read(c) \/ Leave(c)

Spec == Init /\ [][Next]_vars /\ WF_vars(Server) /\ \A c \in Clients : WF_vars(Read(c))

-----------------------------------------------------------------------------
\* What a client has read is the beginning of one answer to its own request:
\* the status that it asked for, then the pieces of the file that was there, as
\* many as the header says, unless it changed meanwhile.  A client that read to
\* the end has it whole, or was turned away without a word as all slots were taken
\* (httpserver.cpp:258-314, 326-364).
Asked(c) == client[c].asked
RightStatus(c) == IF Complete(SubSeq(Asked(c), 1, Min({kMaxRequestBytes, Len(Asked(c))})))
                    THEN StatusOf(LineOf(Asked(c))) ELSE "431"

Whole(c) ==
  LET r == received[c] IN
  /\ r[1] = Token("header", RightStatus(c), r[1].n)
  /\ IF RightStatus(c) # "200" THEN r = Error(RightStatus(c), LineOf(Asked(c)))
     ELSE IF HeadOnly(LineOf(Asked(c))) THEN Len(r) = 1
     ELSE c \notin excused =>
            /\ Len(r) = 1 + r[1].n
            /\ \A k \in 2..Len(r) : r[k].kind = "piece" /\ r[k].n = k - 1 /\ r[k].what = r[2].what

AnswersJust ==
  \A c \in Clients : client[c].at = "done" =>
    IF received[c] = <<>> THEN c \in excused ELSE Whole(c)

\* Nobody has two slots, and what the server has open is in a slot or waits to
\* be accepted (httpserver.cpp:94-112, 388-422).
SlotsTrue ==
  /\ \A s, t \in Slots : connections[s].client # Nobody /\ connections[s].client = connections[t].client => s = t
  /\ open = ({connections[s].client : s \in Slots} \ {Nobody}) \cup ToSet(queue)

\* A client that has sent its request gets to the end of an answer, or leaves,
\* whatever the others do, if they read (httpserver.cpp:114-135, 326-423).
Waits(c) == client[c].at = "open" /\ client[c].todo = <<>>
Settled(c) == client[c].at \in {"left", "done"}
Attended == \A c \in Clients : Waits(c) ~> Settled(c)
=============================================================================
