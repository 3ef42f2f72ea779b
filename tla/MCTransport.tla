----------------------------- MODULE MCTransport -----------------------------
(* Two protocols over a network that loses, repeats and delays, which share *)
(* nothing here: a connection of tcpd and the lease of the DHCP client, for  *)
(* TLC; "part" says which one run explores, while the other stays in its     *)
(* initial state.                                                           *)
EXTENDS TcpStream, TLC

CONSTANTS Servers, Addrs, NoServer, NoAddr, Pool, MaxTroubles  \* of Dhcp

\* The numbers of both ends wrap within the handshake or the first chunks.
NearWrap == [e \in {"C", "S"} |-> IF e = "C" THEN W - 1 ELSE W - 4]

\* Each server gives one address of its own, or any.
OwnPool == CHOOSE p \in [Servers -> {{a} : a \in Addrs}] : \A s, t \in Servers : s # t => p[s] # p[t]
WholePool == [s \in Servers |-> Addrs]

VARIABLES
  part,
  pc, port, link, config, saved, told, offer, pipe, requests, air, held, troubles, stale, killed

Lease == INSTANCE Dhcp WITH sent <- requests, net <- air

ASSUME LeaseAssumption == Lease!DhcpAssumption

leaseVars == <<pc, port, link, config, saved, told, offer, pipe, requests, air, held, troubles, stale, killed>>
partsVars == <<part, vars, leaseVars>>

PartsInit == part \in {"stream", "lease"} /\ Init /\ Lease!Init

StreamNext == part = "stream" /\ Next /\ UNCHANGED <<part, leaseVars>>
LeaseNext == part = "lease" /\ Lease!Next /\ UNCHANGED <<part, vars>>

PartsNext == StreamNext \/ LeaseNext

LeaseFairness ==
  /\ WF_leaseVars(part = "lease" /\ Lease!Client) /\ WF_leaseVars(part = "lease" /\ Lease!LinkUp)
  /\ \A m \in Lease!Request : WF_leaseVars(part = "lease" /\ m \in requests /\ Lease!Serve(m))
  /\ \A m \in Lease!Answer : WF_leaseVars(part = "lease" /\ m \in air /\ Lease!Deliver(m))

PartsSpec == PartsInit /\ [][PartsNext]_partsVars /\ LeaseFairness

\* The client by itself, for one server and a network without troubles.
LeaseSpec == PartsInit /\ part = "lease" /\ [][PartsNext]_partsVars

------------------------------------------------------------------------------
\* What set-ip reported as applied and saved stays in force
\* (network-tools/README.md:23-24).
StaticKept == Lease!StaticKept

\* The address in use is one that a server holds for this client, unless an
\* attempt was given up with messages on their way (dhcp.cpp:422-460, 513-617).
LeaseHeld == Lease!TypeOK /\ Lease!LeaseHeld

\* The interface gets an address in the end, after losses, late answers,
\* refusals and drops of the link, unless the client is killed
\* (dhcp.cpp:795-822).
Unaddressed == part = "lease" /\ Lease!Unaddressed
Addressed == Unaddressed ~> ~Unaddressed
=============================================================================
