----------------------------- MODULE TcpStream ------------------------------
(***************************************************************************)
(* One connection between two machines that both run tcpd, "C" where an    *)
(* application connected and "S" where one listens: the handshake, data,   *)
(* acknowledgements and close of network-services/src/tcpd.cpp over a      *)
(* network that loses, duplicates, delays and reorders segments.           *)
(*                                                                         *)
(* tcpd acknowledges but never sends data or a FIN again, and answers no   *)
(* segment with a reset, so there is none here.  A chunk is what one read  *)
(* of the endpoint returns and counts Unit sequence numbers.  The peer's   *)
(* slot is taken once: initial sequence numbers of two slots are one apart *)
(* (1200-1203), and what a delayed SYN brings about then is not shown.     *)
(***************************************************************************)
EXTENDS Naturals, Sequences, FiniteSets

CONSTANTS
  W,           \* sequence numbers are modulo W: 2^32
  Iss,         \* the base of each side's initial sequence numbers
  Unit,        \* sequence numbers in a chunk
  MaxChunks,   \* bound: chunks each application writes
  MaxSyns,     \* kSynMaxRetransmits
  AckSegments  \* kAckFlushSegments

ASSUME StreamAssumption ==
  /\ W \in Nat \ {0} /\ Unit \in Nat \ {0} /\ MaxChunks \in Nat /\ MaxSyns \in Nat
  /\ AckSegments \in Nat \ {0}
  /\ Iss \in [{"C", "S"} -> 0..(W - 1)]

VARIABLES
  st,       \* the state of each side's slot; S without a slot is "closed"
  snd,      \* local_next_seq
  rcv,      \* remote_next_seq
  owed,     \* pending_ack_segments
  syns,     \* syn_retransmits of C
  met,      \* bound: S takes one slot for this peer, so met says that it did
  written,  \* chunks each application wrote to its endpoint
  taken,    \* chunks that tcpd read from it
  wire,     \* chunks that tcpd gave to the network, by number
  got,      \* chunks that tcpd handed to the application
  fin,      \* sides that sent a FIN
  ended,    \* sides whose application was told of the other's FIN
  holes,    \* history: sides that failed to send a chunk
  eofs,     \* history: sides closed at the end of their endpoint's data
  net       \* every segment ever sent

slots == <<st, snd, rcv, owed, syns, met>>
apps  == <<written, taken, wire, got, fin, ended, holes, eofs>>
vars  == <<slots, apps, net>>

Sides == {"C", "S"}

Other(e) == IF e = "C" THEN "S" ELSE "C"

Seqs == 0..(W - 1)

\* uint32_t arithmetic
Plus(seq, n) == (seq + n) % W

NoChunk == 0

Segment == [to : Sides, kind : {"syn", "synack", "ack", "fin"},
            seq : Seqs, ack : Seqs, chunk : 0..MaxChunks]

TypeOK ==
  /\ st \in [Sides -> {"closed", "synsent", "synrcvd", "established"}]
  /\ snd \in [Sides -> Seqs] /\ rcv \in [Sides -> Seqs]
  /\ owed \in [Sides -> 0..AckSegments]
  /\ syns \in 0..MaxSyns /\ met \in BOOLEAN
  /\ written \in [Sides -> 0..MaxChunks] /\ taken \in [Sides -> 0..MaxChunks]
  /\ wire \in [Sides -> Seq(1..MaxChunks)] /\ got \in [Sides -> Seq(1..MaxChunks)]
  /\ fin \subseteq Sides /\ ended \subseteq Sides
  /\ holes \subseteq Sides /\ eofs \subseteq Sides
  /\ net \subseteq Segment

Init ==
  /\ st = [e \in Sides |-> "closed"]
  /\ snd = Iss /\ rcv = [e \in Sides |-> 0]
  /\ owed = [e \in Sides |-> 0]
  /\ syns = 0 /\ met = FALSE
  /\ written = [e \in Sides |-> 0] /\ taken = [e \in Sides |-> 0]
  /\ wire = [e \in Sides |-> <<>>] /\ got = [e \in Sides |-> <<>>]
  /\ fin = {} /\ ended = {} /\ holes = {} /\ eofs = {}
  /\ net = {}

\* send_network_segment(); that a send fails is that its segment is lost,
\* but for a chunk, see Take.
Msg(e, kind, seq, ack, chunk) ==
  [to |-> Other(e), kind |-> kind, seq |-> seq, ack |-> ack, chunk |-> chunk]

Sent(s) == net' = net \cup {s}

\* send_ack_only()
Ack(e) == Msg(e, "ack", snd[e], rcv[e], NoChunk)

-----------------------------------------------------------------------------
(* Opening.                                                                *)

\* begin_outbound_connection()
Connect ==
  /\ st["C"] = "closed" /\ net = {}
  /\ st' = [st EXCEPT !["C"] = "synsent"]
  /\ snd' = [snd EXCEPT !["C"] = Plus(Iss["C"], 1)]
  /\ Sent(Msg("C", "syn", Iss["C"], 0, NoChunk))
  /\ UNCHANGED <<rcv, owed, syns, met, apps>>

MayRetry == syns < MaxSyns

\* service_outbound_syns(): the SYN again, which net has for good, or no more; a
\* deadline without a configuration changes nothing here.
SynTimer ==
  /\ st["C"] = "synsent"
  /\ \/ MayRetry /\ syns' = syns + 1 /\ UNCHANGED st
     \/ ~MayRetry /\ st' = [st EXCEPT !["C"] = "closed"] /\ UNCHANGED syns
  /\ UNCHANGED <<snd, rcv, owed, met, apps, net>>

\* handle_new_connection()
Syn(s) ==
  /\ s.to = "S" /\ s.kind = "syn"
  /\ st["S"] = "closed" /\ ~met
  /\ met' = TRUE
  /\ st' = [st EXCEPT !["S"] = "synrcvd"]
  /\ rcv' = [rcv EXCEPT !["S"] = Plus(s.seq, 1)]
  /\ snd' = [snd EXCEPT !["S"] = Plus(Iss["S"], 1)]
  /\ owed' = [owed EXCEPT !["S"] = 0]
  /\ Sent(Msg("S", "synack", Iss["S"], Plus(s.seq, 1), NoChunk))
  /\ UNCHANGED <<syns, apps>>

SynSeqTaken == snd["S"]

\* The number of the SYN+ACK, one behind the next to send.
SynSeq == Plus(snd["S"], W - 1)

\* resend_syn_ack(): the answer to a SYN that comes again.
SynAgain(s) ==
  /\ s.to = "S" /\ s.kind = "syn"
  /\ st["S"] = "synrcvd"
  /\ Plus(s.seq, 1) = rcv["S"]
  /\ Sent(Msg("S", "synack", SynSeq, rcv["S"], NoChunk))
  /\ UNCHANGED <<slots, apps>>

AnswersSyn(s) == s.kind = "synack" /\ s.ack = snd["C"]

SynAck(s) ==
  /\ s.to = "C" /\ AnswersSyn(s)
  /\ st["C"] = "synsent"
  /\ rcv' = [rcv EXCEPT !["C"] = Plus(s.seq, 1)]
  /\ st' = [st EXCEPT !["C"] = "established"]
  /\ Sent(Msg("C", "ack", snd["C"], Plus(s.seq, 1), NoChunk))
  /\ UNCHANGED <<snd, owed, syns, met, apps>>

-----------------------------------------------------------------------------
(* Data: handle_existing_connection() once the segment is the next.        *)

\* The payload of s, if any, is handed over, and the FIN ends the connection;
\* note_received_payload_for_ack() counts what is owed and acknowledges it.
Consume(e, s) ==
  LET handed == s.chunk # NoChunk
      next   == IF handed THEN Plus(rcv[e], Unit) ELSE rcv[e]
      due    == handed /\ owed[e] + 1 >= AckSegments
  IN
  /\ got' = IF handed THEN [got EXCEPT ![e] = Append(@, s.chunk)] ELSE got
  /\ rcv' = [rcv EXCEPT ![e] = IF s.kind = "fin" THEN Plus(next, 1) ELSE next]
  /\ owed' = [owed EXCEPT ![e] =
       IF s.kind = "fin" \/ due THEN 0 ELSE IF handed THEN @ + 1 ELSE @]
  /\ net' = net
       \cup (IF due THEN {Msg(e, "ack", snd[e], next, NoChunk)} ELSE {})
       \cup (IF s.kind = "fin" THEN {Msg(e, "ack", snd[e], Plus(next, 1), NoChunk)} ELSE {})
  /\ ended' = IF s.kind = "fin" THEN ended \cup {e} ELSE ended

AnswersSynAck(s) ==
  s.kind \in {"synack", "ack", "fin"} /\ s.ack = snd["S"] /\ s.seq = rcv["S"]

\* The ACK of the handshake, with what else it carries.
Accept(s) ==
  /\ s.to = "S" /\ st["S"] = "synrcvd"
  /\ AnswersSynAck(s)
  /\ st' = [st EXCEPT !["S"] = IF s.kind = "fin" THEN "closed" ELSE "established"]
  /\ Consume("S", s)
  /\ UNCHANGED <<snd, syns, met, written, taken, wire, fin, holes, eofs>>

NextOrFin(e, s) == s.seq = rcv[e] \/ s.kind = "fin"

IsNext(e, s) == s.seq = rcv[e]

Receive(e, s) ==
  /\ s.to = e /\ st[e] = "established"
  /\ IsNext(e, s)
  /\ Consume(e, s)
  /\ st' = IF s.kind = "fin" THEN [st EXCEPT ![e] = "closed"] ELSE st
  /\ UNCHANGED <<snd, syns, met, written, taken, wire, fin, holes, eofs>>

\* A segment out of order is dropped and acknowledged, whatever it is.
OutOfOrder(e, s) ==
  /\ s.to = e /\ st[e] = "established"
  /\ ~IsNext(e, s)
  /\ Sent(Ack(e))
  /\ owed' = [owed EXCEPT ![e] = 0]
  /\ UNCHANGED <<st, snd, rcv, syns, met, apps>>

\* flush_pending_acks()
FlushAck(e) ==
  /\ st[e] = "established" /\ owed[e] > 0
  /\ Sent(Ack(e))
  /\ owed' = [owed EXCEPT ![e] = 0]
  /\ UNCHANGED <<st, snd, rcv, syns, met, apps>>

\* The application writes a chunk to its endpoint.
Write(e) ==
  /\ st[e] = "established"
  /\ written[e] < MaxChunks
  /\ written' = [written EXCEPT ![e] = @ + 1]
  /\ UNCHANGED <<slots, taken, wire, got, fin, ended, holes, eofs, net>>

\* poll_connection_endpoints(), send_connection_payload(): a chunk read from
\* the endpoint is sent, or lost for good when the configuration is disabled
\* or networkd's pipe fails.
Take(e) ==
  /\ st[e] = "established"
  /\ taken[e] < written[e]
  /\ taken' = [taken EXCEPT ![e] = @ + 1]
  /\ \/ /\ Sent(Msg(e, "ack", snd[e], rcv[e], taken[e] + 1))
        /\ snd' = [snd EXCEPT ![e] = Plus(@, Unit)]
        /\ owed' = [owed EXCEPT ![e] = 0]
        /\ wire' = [wire EXCEPT ![e] = Append(@, taken[e] + 1)]
        /\ UNCHANGED holes
     \/ /\ holes' = holes \cup {e}
        /\ UNCHANGED <<snd, owed, wire, net>>
  /\ UNCHANGED <<st, rcv, syns, met, written, got, fin, ended, eofs>>

\* handle_close_request()
CloseRequest(e) ==
  /\ st[e] = "established"
  /\ Sent(Msg(e, "fin", snd[e], rcv[e], NoChunk))
  /\ snd' = [snd EXCEPT ![e] = Plus(@, 1)]
  /\ st' = [st EXCEPT ![e] = "closed"]
  /\ fin' = fin \cup {e}
  /\ UNCHANGED <<rcv, owed, syns, met, written, taken, wire, got, ended, holes>>

\* A read of the endpoint returns 0 only when nothing is left in it.
AtEof(e) == taken[e] = written[e]

Close(e) ==
  /\ CloseRequest(e)
  /\ \/ UNCHANGED eofs
     \/ AtEof(e) /\ eofs' = eofs \cup {e}

-----------------------------------------------------------------------------
Arrive(s) ==
  \/ Syn(s) \/ SynAgain(s) \/ SynAck(s) \/ Accept(s)
  \/ \E e \in Sides : Receive(e, s) \/ OutOfOrder(e, s)

Next ==
  \/ Connect \/ SynTimer
  \/ \E s \in net : Arrive(s)
  \/ \E e \in Sides : FlushAck(e) \/ Write(e) \/ Take(e) \/ Close(e)

Spec == Init /\ [][Next]_vars

-----------------------------------------------------------------------------
(* Properties.                                                             *)

\* The two directions of the connection are byte streams: chunks arrive in
\* order, once each, and the end of a stream after its last chunk, whatever
\* the network loses, repeats or reorders (tcpd.cpp:1364-1384).
Stream == INSTANCE ByteStream WITH Chunks <- 1..MaxChunks

ByteStreams == Stream!Spec

\* A side that closes its endpoint, and never failed to send, has everything
\* that its application wrote on the wire ahead of its FIN; a close request
\* alone does not promise that (tcpd.cpp:1013-1035, 873-895).
WholeBeforeEof ==
  \A e \in eofs \ holes : wire[e] = [k \in 1..written[e] |-> k]

\* The number that an established side expects next is behind the number the
\* other sends next by exactly what the other gave to the wire and is not
\* delivered yet: repeated SYNs and SYN+ACKs never make the two sides begin
\* at different numbers (tcpd.cpp:1152-1168, 1284-1310, 1338-1345).
Behind(e) == (snd[Other(e)] + W - rcv[e]) % W

SidesAgree ==
  \A e \in Sides : st[e] = "established" =>
    Behind(e) = Unit * (Len(wire[Other(e)]) - Len(got[e]))
                + (IF Other(e) \in fin THEN 1 ELSE 0)

\* The two ends of a connection agree on their numbers, whatever is repeated
\* in the handshake, and all that was written is on the wire ahead of the FIN
\* of a side at the end of its data (tcpd.cpp:1013-1035, 1152-1168,
\* 1284-1310, 1338-1345).
EndsAgree == TypeOK /\ SidesAgree /\ WholeBeforeEof
=============================================================================
