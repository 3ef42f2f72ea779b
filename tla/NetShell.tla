------------------------------ MODULE NetShell ------------------------------
(***************************************************************************)
(* The remote login, network-tools/src/netshell.cpp: one loop over the     *)
(* events of tcpd, in which one connection at a time is led through the    *)
(* negotiation of Telnet options and the login, byte by byte, until a      *)
(* shell has its endpoint.                                                 *)
(*                                                                         *)
(* External: the kernel's endpoints; tcpd, which sends an accept event and *)
(* a closed event for each connection; and clients that negotiate as       *)
(* Telnet says, answering only what changes an option.                     *)
(***************************************************************************)
EXTENDS Naturals, Sequences, SequencesExt, Folds, FiniteSetsExt

CONSTANTS
  Conns,            \* connections that come
  kMaxConnections,
  LineEnd,          \* what a client ends a line with
  NameLines,        \* lines that a client may type for a name
  PasswordLines     \* and for a password

NetShellAssumption == kMaxConnections \in Nat \ {0} /\ LineEnd # <<>>

VARIABLES
  at,        \* "listen", "loop", "drain", "name", "password", "spawn" or "exit"
  cur,       \* the connection that is led through the login
  session,   \* its TelnetSession
  line, user,          \* the line so far, the name
  connections,         \* table of the connections in use
  events,              \* the reply pipe: <<type, connection>>
  link,                \* tcpd: "none", "open", "left", "closed"
  outcome,             \* per connection: "none", "shell" or why not
  toServer, toClient,  \* bytes in the endpoint, commands and prompts on the way
  echo,                \* the client leaves the echo to the server
  typed                \* history: lines that the client typed at prompts

loopVars == <<at, cur, connections, events, outcome>>
loginVars == <<session, line, user>>
clientVars == <<link, echo, typed>>
vars == <<loopVars, loginVars, clientVars, toServer, toClient>>

Idle == [suppressed |-> FALSE, mode |-> "data", command |-> "none"]

TypeOK ==
  /\ at \in {"listen", "loop", "drain", "name", "password", "spawn", "exit"}
  /\ cur \in Conns \cup {"none"} /\ connections \subseteq Conns
  /\ session.mode \in {"data", "command", "sub", "sub_iac"} /\ session.suppressed \in BOOLEAN
  /\ link \in [Conns -> {"none", "open", "left", "closed"}]
  /\ \A i \in 1..Len(events) : events[i] \in {"accept", "closed"} \X Conns
  /\ echo \in [Conns -> BOOLEAN]

Init ==
  /\ at = "listen" /\ cur = "none" /\ connections = {} /\ events = <<>>
  /\ outcome = [c \in Conns |-> "none"]
  /\ session = Idle /\ line = <<>> /\ user = <<>>
  /\ link = [c \in Conns |-> "none"]
  /\ toServer = [c \in Conns |-> <<>>] /\ toClient = [c \in Conns |-> <<>>]
  /\ echo = [c \in Conns |-> FALSE] /\ typed = [c \in Conns |-> <<>>]

-----------------------------------------------------------------------------
(* The filter of the bytes that come.                                      *)

\* telnet_reply_to_command().
Reply(s, command, option) ==
  CASE command = "do" ->
         <<<<IF option = "sga" \/ (option = "echo" /\ s.suppressed) THEN "will" ELSE "wont", option>>>>
    [] command = "dont" -> <<<<"wont", option>>>>
    [] command = "will" -> <<<<IF option = "sga" THEN "do" ELSE "dont", option>>>>
    [] command = "wont" -> <<<<"dont", option>>>>
    [] OTHER -> <<>>

NotesDont(s, byte) ==
  IF s.command = "dont" /\ byte = "echo" THEN [s EXCEPT !.suppressed = FALSE] ELSE s

SubGoesOn(byte) == FALSE

\* After IAC, what ends a subnegotiation.
SubEnds(byte) == byte = "se"

\* telnet_filter_byte(): the session after a byte, and whether it is data.
\* Every command but "sb" takes one byte more.
Filtered(s, byte) ==
  CASE s.mode = "sub_iac" -> [s EXCEPT !.mode = IF SubEnds(byte) THEN "data" ELSE "sub"]
    [] s.mode = "sub" -> [s EXCEPT !.mode = IF byte = "iac" THEN "sub_iac" ELSE "sub"]
    [] s.mode = "command" /\ s.command = "none" ->
         IF byte = "iac" THEN [s EXCEPT !.mode = "data"]
         ELSE IF byte = "sb" THEN [s EXCEPT !.mode = "sub"]
         ELSE [s EXCEPT !.command = byte]
    [] s.mode = "command" -> [NotesDont(s, byte) EXCEPT !.mode = "data", !.command = "none"]
    [] OTHER -> IF byte = "iac" THEN [s EXCEPT !.mode = "command"] ELSE s

Answers(s, byte) ==
  IF s.mode = "command" /\ s.command # "none" THEN Reply(s, s.command, byte) ELSE <<>>

IsData(s, byte) == s.mode = "data" /\ byte # "iac"

Ignored(byte) == byte = "nul"

\* endpoint_read_line() on the bytes of one read: what follows the end of the
\* line is dropped with the buffer.
ReadByte(byte, r) ==
  LET next == [r EXCEPT !.session = Filtered(r.session, byte),
                        !.out = r.out \o Answers(r.session, byte)]
  IN  IF r.done THEN r
      ELSE IF ~IsData(r.session, byte) \/ Ignored(byte) THEN next
      ELSE IF byte \in {"cr", "lf"} THEN [next EXCEPT !.done = TRUE]
      ELSE IF byte = "bs" THEN [next EXCEPT !.line = IF r.line = <<>> THEN <<>> ELSE Front(r.line)]
      ELSE [next EXCEPT !.line = Append(r.line, byte)]

\* telnet_drain_negotiation() on the bytes of one read: data is dropped too.
DrainByte(byte, r) ==
  [r EXCEPT !.session = Filtered(r.session, byte), !.out = r.out \o Answers(r.session, byte)]

Over(Step(_, _), bytes) ==
  FoldLeft(LAMBDA r, b : Step(b, r),
           [session |-> session, out |-> <<>>, line |-> line, done |-> FALSE], bytes)

\* A read takes what is there; more may come while it is handled.
Reads == {SubSeq(toServer[cur], 1, k) : k \in 1..Len(toServer[cur])}

Taken(bytes) == [toServer EXCEPT ![cur] = SubSeq(@, Len(bytes) + 1, Len(@))]

Say(messages) == toClient' = [toClient EXCEPT ![cur] = @ \o messages]

-----------------------------------------------------------------------------
(* The server.                                                             *)

\* The registry, the reply pipe and the answer of tcpd.
Listen ==
  /\ at = "listen" /\ at' \in {"loop", "exit"}
  /\ UNCHANGED <<cur, connections, events, outcome, loginVars, clientVars, toServer, toClient>>

Room == Cardinality(connections) < kMaxConnections

Decide(c, why) ==
  /\ outcome' = [outcome EXCEPT ![c] = why]
  /\ at' = "loop" /\ cur' = "none" /\ session' = Idle /\ line' = <<>> /\ user' = <<>>

\* tcpd closes the connection that it is asked to.
CloseRequest(c) == link' = [link EXCEPT ![c] = IF @ = "open" THEN "closed" ELSE @]

SlotKept(c) == connections
SlotReleased(c) == connections \ {c}

Refuse(why) ==
  /\ Decide(cur, why) /\ CloseRequest(cur)
  /\ connections' = SlotReleased(cur)
  /\ UNCHANGED <<events, echo, typed>>

TakeAccept ==
  /\ at = "loop" /\ events # <<>> /\ Head(events)[1] = "accept"
  /\ events' = Tail(events)
  /\ LET c == Head(events)[2] IN
       \/ ~Room /\ Decide(c, "full") /\ CloseRequest(c) /\ UNCHANGED connections
       \/ /\ Room /\ connections' = connections \cup {c}
          /\ cur' = c /\ at' = "drain" /\ UNCHANGED <<outcome, loginVars, link>>
  /\ UNCHANGED <<echo, typed, toServer, toClient>>

TakeClosed ==
  /\ at = "loop" /\ events # <<>> /\ Head(events)[1] = "closed"
  /\ events' = Tail(events)
  /\ connections' = SlotReleased(Head(events)[2])
  /\ UNCHANGED <<at, cur, outcome, loginVars, clientVars, toServer, toClient>>

\* The endpoint is gone already.
NoEndpoint ==
  /\ at = "drain" /\ link[cur] # "open"
  /\ Refuse("left") /\ UNCHANGED <<toServer, toClient>>

DrainRead ==
  /\ at = "drain"
  /\ \E bytes \in Reads : \E r \in {Over(DrainByte, bytes)} :
       /\ toServer' = Taken(bytes) /\ Say(r.out) /\ session' = r.session
  /\ UNCHANGED <<loopVars, line, user, clientVars>>

\* The drain ends after a read or without one, in a command only when its
\* polls are used up.  Without the file of the users nobody is asked.
DrainDone ==
  /\ at = "drain"
  /\ session.mode = "data" \/ toServer[cur] = <<>>
  /\ \/ /\ at' = "name" /\ Say(<<<<"prompt", "name">>>>)
        /\ UNCHANGED <<cur, connections, events, outcome, loginVars, clientVars>>
     \/ Refuse("no users") /\ UNCHANGED toClient
  /\ UNCHANGED toServer

NoEchoBack(s) == <<>>
EchoBack(s) == IF s.suppressed THEN <<<<"wont", "echo">>, <<"wont", "sga">>>> ELSE <<>>

\* A read of the name: when the line is there, an account with a password is
\* asked for it, and any other refused.
ReadName ==
  /\ at = "name"
  /\ \E bytes \in Reads : \E r \in {Over(ReadByte, bytes)} :
       /\ toServer' = Taken(bytes)
       /\ \/ /\ ~r.done
             /\ session' = r.session /\ line' = r.line /\ Say(r.out)
             /\ UNCHANGED <<loopVars, user, clientVars>>
          \/ /\ r.done /\ r.line = <<"u">>
             /\ session' = [r.session EXCEPT !.suppressed = TRUE]
             /\ Say(r.out \o <<<<"will", "sga">>, <<"will", "echo">>, <<"prompt", "password">>>>)
             /\ at' = "password" /\ line' = <<>> /\ user' = r.line
             /\ UNCHANGED <<cur, connections, events, outcome, clientVars>>
          \/ r.done /\ r.line # <<"u">> /\ Say(r.out) /\ Refuse("unknown")

ReadPassword ==
  /\ at = "password"
  /\ \E bytes \in Reads : \E r \in {Over(ReadByte, bytes)} :
       /\ toServer' = Taken(bytes)
       /\ \/ /\ ~r.done
             /\ session' = r.session /\ line' = r.line /\ Say(r.out)
             /\ UNCHANGED <<loopVars, user, clientVars>>
          \/ /\ r.done /\ r.line = <<"p">>
             /\ session' = [r.session EXCEPT !.suppressed = FALSE]
             /\ Say(r.out \o EchoBack(r.session))
             /\ at' = "spawn"
             /\ UNCHANGED <<cur, connections, events, outcome, line, user, clientVars>>
          \/ r.done /\ r.line # <<"p">> /\ Say(r.out \o EchoBack(r.session)) /\ Refuse("incorrect")

\* The principal and the process; the shell has the endpoint then.
Spawn ==
  /\ at = "spawn"
  /\ \/ Decide(cur, "shell") /\ UNCHANGED <<connections, events, clientVars>>
     \/ Refuse("no shell")
  /\ UNCHANGED <<toServer, toClient>>

-----------------------------------------------------------------------------
(* tcpd and the clients.                                                   *)

\* A client may begin with an option of its own, and with a subnegotiation.
Greetings == {<<>>, <<"iac", "do", "sga">>, <<"iac", "sb", "sga", "iac", "se">>}

Connect(c) ==
  /\ at \notin {"listen", "exit"} /\ link[c] = "none"
  /\ link' = [link EXCEPT ![c] = "open"]
  /\ events' = Append(events, <<"accept", c>>)
  /\ \E bytes \in Greetings : toServer' = [toServer EXCEPT ![c] = bytes]
  /\ UNCHANGED <<at, cur, connections, outcome, loginVars, toClient, echo, typed>>

\* tcpd notices, closes its end and says so; what was sent can be read still.
Leave(c) ==
  /\ link[c] = "open"
  /\ link' = [link EXCEPT ![c] = "left"]
  /\ events' = Append(events, <<"closed", c>>)
  /\ UNCHANGED <<at, cur, connections, outcome, loginVars, toServer, toClient, echo, typed>>

\* The next command of the server.  The echo is left to it if the client likes.
Hear(c) ==
  /\ link[c] = "open" /\ toClient[c] # <<>> /\ Head(toClient[c])[1] # "prompt"
  /\ toClient' = [toClient EXCEPT ![c] = Tail(@)]
  /\ \E likes \in BOOLEAN :
       LET m == Head(toClient[c])
           agree == m = <<"will", "echo">> /\ ~echo[c] /\ likes
           stop == m = <<"wont", "echo">> /\ echo[c]
           refuse == m = <<"will", "echo">> /\ ~echo[c] /\ ~likes
       IN  /\ echo' = [echo EXCEPT ![c] = (@ \/ agree) /\ ~stop]
           /\ toServer' = [toServer EXCEPT ![c] =
                @ \o (IF agree THEN <<"iac", "do", "echo">>
                      ELSE IF stop \/ refuse THEN <<"iac", "dont", "echo">> ELSE <<>>)]
  /\ UNCHANGED <<loopVars, loginVars, link, typed>>

\* At a prompt the client types a line.
Type(c) ==
  /\ link[c] = "open" /\ toClient[c] # <<>> /\ Head(toClient[c])[1] = "prompt"
  /\ toClient' = [toClient EXCEPT ![c] = Tail(@)]
  /\ \E l \in IF Head(toClient[c])[2] = "name" THEN NameLines ELSE PasswordLines :
       /\ toServer' = [toServer EXCEPT ![c] = @ \o l \o LineEnd]
       /\ typed' = [typed EXCEPT ![c] = Append(@, l)]
  /\ UNCHANGED <<loopVars, loginVars, link, echo>>

Server == Listen \/ TakeAccept \/ TakeClosed \/ NoEndpoint \/ DrainRead \/ DrainDone
          \/ ReadName \/ ReadPassword \/ Spawn

Client(c) == Connect(c) \/ Leave(c) \/ Hear(c) \/ Type(c)

Next == Server \/ \E c \in Conns : Client(c)

Spec == Init /\ [][Next]_vars

\* The loop goes round; a client that is asked types, or leaves.
Fairness ==
  /\ WF_vars(Server)
  /\ \A c \in Conns : WF_vars(Hear(c) \/ Type(c))

FairSpec == Spec /\ Fairness

-----------------------------------------------------------------------------
\* What a line says, with what was taken back.
Meant(l) == FoldLeft(LAMBDA r, b : IF b = "bs" THEN Front(r) ELSE Append(r, b), <<>>, l)

Right(c) == Len(typed[c]) = 2 /\ Meant(typed[c][1]) = <<"u">> /\ Meant(typed[c][2]) = <<"p">>

\* A shell is for who typed the name and the password of an account with one,
\* and who did is not turned away for them, whatever was read together and
\* whatever was negotiated in between.
LoginJust ==
  \A c \in Conns :
    /\ outcome[c] = "shell" => Right(c)
    /\ outcome[c] = "unknown" => Meant(typed[c][1]) # <<"u">>
    /\ outcome[c] = "incorrect" => ~Right(c)

\* When the login is over, the client echoes what is typed again: it is the
\* shell's line that it shows.
EchoGivenBack ==
  \A c \in Conns :
    outcome[c] = "shell" /\ link[c] = "open" /\ toClient[c] = <<>> => ~echo[c]

\* A slot of the table is in use as long as a connection of it is: it comes
\* back, and no open connection is without one.
SlotsTrue ==
  /\ \A c \in connections : link[c] = "open" \/ <<"closed", c>> \in ToSet(events)
  /\ \A c \in Conns : link[c] = "open" /\ outcome[c] = "shell" => c \in connections

\* Who connects is dealt with, unless someone leaves in the middle of a login:
\* the end of an endpoint reads as no bytes, and these are waited for
\* (netshell.cpp:371-374).
Abandoned == at \in {"name", "password"} /\ link[cur] # "open"

Waits(c) == link[c] = "open"
Settled(c) == outcome[c] # "none" \/ Abandoned
=============================================================================
