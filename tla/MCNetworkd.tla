----------------------------- MODULE MCNetworkd -----------------------------
(* Instances of Networkd for TLC, two in one run: "lookups", where two     *)
(* hosts move between two hardware addresses and the configuration makes   *)
(* one of them the gateway to the other, and "services", where two         *)
(* applications bind ports, ping with the same number and may end.  What   *)
(* happens around networkd is bounded by Around.  In further scenes        *)
(* networkd rests, and one of those runs that networkd carries, the        *)
(* servers for Telnet and of files or a client of libnet, or the login of  *)
(* init, which asks as the one of Telnet does.                             *)
EXTENDS Networkd, TLC

CONSTANTS a1, a2, h1, h2, m1, m2, dns, http, number

MCConfigs == {[local |-> {h1, h2}, gateway |-> None], [local |-> {h1}, gateway |-> h1]}

MCPackets == {[port |-> dns, dest |-> h1], [port |-> dns, dest |-> h2], [port |-> dns, dest |-> None]}

MCPings == {[echo |-> number, app |-> a1, dest |-> h1], [echo |-> number, app |-> a2, dest |-> h2]}

VARIABLES
  scene,
  \* Of those that networkd carries, in the order of their modules; 0 beyond.
  l1, l2, l3, l4, l5, l6, l7, l8, l9, l10, l11, l12, l13, l14

Telnet == INSTANCE NetShell WITH
  Conns <- {"c1", "c2"}, kMaxConnections <- 1, LineEnd <- <<"cr", "nul">>,
  NameLines <- {<<"x", "bs", "u">>, <<"x">>}, PasswordLines <- {<<"p">>, <<"x">>},
  at <- l1, cur <- l2, session <- l3, line <- l4,
  user <- l5, connections <- l6, events <- l7,
  link <- l8, outcome <- l9, toServer <- l10,
  toClient <- l11, echo <- l12, typed <- l13

\* root and two other users: root is in the table since the boot, so it takes
\* two more to meet in a place of it.
Users == INSTANCE Login WITH
  Users <- {"root", "u", "v"}, Root <- "root", Slots <- {1, 2},
  MaxStarts <- 2, MaxLogins <- 2, MaxChanges <- 1,
  accounts <- l1, store <- l2, allow <- l3, g_principals <- l4, at <- l5,
  asked <- l6, principal <- l7, slot <- l8, users <- l9, typed <- l10,
  left <- l11, booted <- l12, overlapped <- l13, wrong <- l14

\* Two clients, one slot: one that asks for a file, one whose request is too long
\* or asks for the header of a file that is not there.  The file grows once.
Get == <<"get", "nl", "nl">>
Asks == {[c1 |-> Get, c2 |-> r] : r \in {<<"x", "get", "nl", "nl">>, <<"head gone", "nl", "nl">>}}

Files == INSTANCE HttpServer WITH
  Clients <- {"c1", "c2"}, kMaxConnections <- 1, kMaxRequestBytes <- 3, Asks <- Asks,
  Sizes <- <<1, 2>>, Room <- 1,
  client <- l1, up <- l2, down <- l3, received <- l4, queue <- l5, connections <- l6,
  open <- l7, at <- l8, i <- l9, out <- l10, file <- l11, version <- l12, excused <- l13

Lib == INSTANCE LibNet WITH
  PipeSize <- 1, Requested <- 2, Unit <- 2, MaxAnswers <- 2, MaxCalls <- 2, MaxTroubles <- 1, MaxOthers <- 1,
  call <- l1, pc <- l2, conn <- l3, wrote <- l4, got <- l5, handles <- l6, asked <- l7, back <- l8,
  tcp <- l9, writes <- l10, troubles <- l11, others <- l12, given <- l13, early <- l14

ASSUME ServersAssumption ==
  Telnet!NetShellAssumption /\ Users!LoginAssumption /\ Files!HttpAssumption /\ Lib!LibNetAssumption

serverVars == <<l1, l2, l3, l4, l5, l6, l7, l8, l9, l10, l11, l12, l13>>
loginVars == <<serverVars, l14>>
sceneVars == <<scene, vars, loginVars>>

Lookups ==
  /\ alive = Apps
  /\ \A k \in DOMAIN control :
       control[k].type = "send" \/ control[k] = [type |-> "bind", port |-> dns, app |-> a1]

Services ==
  /\ frames =< 3 /\ configs =< 1 /\ config \in {None, [local |-> {h1, h2}, gateway |-> None]}
  /\ \A k \in DOMAIN control : control[k].type # "send"
  /\ \A k \in DOMAIN rx : rx[k].type = "arp" => rx[k].mac = m1

Around == IF scene = "lookups" THEN Lookups ELSE Services

ScenesInit ==
  /\ Init
  /\ \/ scene = "netshell" /\ Telnet!Init /\ l14 = 0
     \/ scene = "httpserver" /\ Files!Init /\ l14 = 0
     \/ scene = "login" /\ Users!Init
     \/ scene = "libnet" /\ Lib!Init
     \/ /\ scene \in {"lookups", "services"}
        /\ l1 = 0 /\ l2 = 0 /\ l3 = 0 /\ l4 = 0 /\ l5 = 0 /\ l6 = 0 /\ l7 = 0 /\ l8 = 0
        /\ l9 = 0 /\ l10 = 0 /\ l11 = 0 /\ l12 = 0 /\ l13 = 0 /\ l14 = 0

OfNetworkd == scene \in {"lookups", "services"}

NetworkdNext == OfNetworkd /\ Next /\ UNCHANGED <<scene, loginVars>> /\ Around'
TelnetNext == scene = "netshell" /\ Telnet!Next /\ UNCHANGED <<scene, vars, l14>>
FilesNext == scene = "httpserver" /\ Files!Next /\ UNCHANGED <<scene, vars, l14>>
UsersNext == scene = "login" /\ Users!Next /\ UNCHANGED <<scene, vars>>
LibNext == scene = "libnet" /\ Lib!Next /\ UNCHANGED <<scene, vars>>

ScenesNext == NetworkdNext \/ TelnetNext \/ FilesNext \/ UsersNext \/ LibNext

\* The fairness of each part while it is explored.
ScenesFairness ==
  /\ WF_vars(OfNetworkd /\ Loop) /\ \A a \in Apps : WF_vars(OfNetworkd /\ ReadInbox(a))
  /\ WF_serverVars(scene = "netshell" /\ Telnet!Server)
  /\ \A c \in {"c1", "c2"} : WF_serverVars(scene = "netshell" /\ (Telnet!Hear(c) \/ Telnet!Type(c)))
  /\ WF_serverVars(scene = "httpserver" /\ Files!Server)
  /\ \A c \in {"c1", "c2"} : WF_serverVars(scene = "httpserver" /\ Files!Read(c))
  /\ WF_loginVars(scene = "libnet" /\ Lib!Goes)
  /\ WF_loginVars(scene = "libnet" /\ Lib!TakeRequest) /\ WF_loginVars(scene = "libnet" /\ Lib!WriteBack)
  /\ \A k \in Lib!Ids : WF_loginVars(scene = "libnet" /\ Lib!FarEnd(k))

ScenesSpec == ScenesInit /\ [][ScenesNext]_sceneVars /\ ScenesFairness

------------------------------------------------------------------------------
\* A shell is for who typed the name and the password of an account.  Over
\* the network, its client echoes for itself again, and the table holds the open
\* connections, whatever the options and however lines are cut
\* (netshell.cpp:286-413, 825-898).  At the console and for services it runs with
\* the principal of its user, although two threads fill one table, and no
\* account is made up but on a first boot (init.cpp:196-280, 640-690, 1198-1209).
\* A client of httpserver reads one answer, to its own request and whole
\* (httpserver.cpp:258-364).  An application of libnet reads all that the far
\* end sent, leaves nothing open, and waits for tcpd while tcpd waits for it only
\* after an answer that came early (net.cpp:45-337, tcpd_protocol.hpp:150-186).
SessionsJust ==
  /\ scene = "netshell" =>
       Telnet!TypeOK /\ Telnet!LoginJust /\ Telnet!EchoGivenBack /\ Telnet!SlotsTrue
  /\ scene = "login" =>
       Users!TypeOK /\ Users!SessionsJust /\ Users!EntriesWhole /\ Users!RootNotMadeUp
  /\ scene = "httpserver" => Files!TypeOK /\ Files!AnswersJust /\ Files!SlotsTrue
  /\ scene = "libnet" => Lib!TypeOK /\ Lib!ReadWhole /\ Lib!NothingLeft /\ Lib!CircleWasEarly

\* Everyone who connects to netshell gets a shell or an answer, unless someone
\* leaves in the middle of a login, and everyone who has sent a request to
\* httpserver reads to the end of the answer, if all who stay do; an exchange
\* over libnet ends once the far end does, unless both sides of it wait
\* (netshell.cpp:359-413, 1020-1152, httpserver.cpp:114-135, 326-423,
\* net.cpp:234-337).
Waits(c) ==
  \/ scene = "netshell" /\ Telnet!Waits(c)
  \/ scene = "httpserver" /\ Files!Waits(c)
  \/ scene = "libnet" /\ Lib!Engaged
Settled(c) ==
  /\ scene = "netshell" => Telnet!Settled(c)
  /\ scene = "httpserver" => Files!Settled(c)
  /\ scene = "libnet" => Lib!Settled
Attended == \A c \in {"c1", "c2"} : Waits(c) ~> Settled(c)
=============================================================================
