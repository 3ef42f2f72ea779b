--------------------------- MODULE ServiceControl ---------------------------
(***************************************************************************)
(* The control channel of init: `service` (base-system/src/service.cpp)    *)
(* announces its request with a process event, writes it to the one        *)
(* control pipe and waits for the reply on a pipe of its own; the manager  *)
(* thread of init (base-system/src/init.cpp) pairs requests with           *)
(* announcements between two rounds of supervision.                        *)
(*                                                                         *)
(* A request and an announcement are the client that makes them: a client  *)
(* makes one, and the authorization value is a hash of the whole request.  *)
(* Writes to the control pipe are atomic (a request has 48 bytes).         *)
(***************************************************************************)
EXTENDS Naturals, Sequences, SequencesExt, TLAPS

CONSTANTS
  Clients,     \* processes that run `service`
  NoClient,
  MaxPending,  \* entries of g_pending_authorizations
  Pieces,      \* writes that a reply takes: its header and its text
  MaxOthers    \* bound: events of other kinds

ASSUME ControlAssumption ==
  /\ NoClient \notin Clients
  /\ MaxPending \in Nat \ {0} /\ Pieces \in Nat \ {0} /\ MaxOthers \in Nat

VARIABLES
  phase,    \* what each client is at
  got,      \* pieces of the reply that each client has read
  reply,    \* whether a piece is in the reply pipe of each client
  events,   \* kernel: process events on their way to init, NoClient if of another kind
  pipe,     \* the control pipe
  pending,  \* g_pending_authorizations
  at,       \* what the manager is at
  cur,      \* its request
  left,     \* pieces of the reply it still has to write
  executed, refused, evicted, \* history: clients whose request was carried
                              \* out, was dropped, whose announcement was
  others    \* events of other kinds so far

clientVars == <<phase, got, reply>>
managerVars == <<pending, at, cur, left, executed, refused, evicted>>
vars == <<clientVars, events, pipe, managerVars, others>>

TypeOK ==
  /\ phase \in [Clients -> {"starting", "announced", "sent", "done", "denied", "dead"}]
  /\ got \in [Clients -> 0..Pieces]
  /\ reply \in [Clients -> BOOLEAN]
  /\ events \in Seq(Clients \cup {NoClient}) /\ pipe \in Seq(Clients)
  /\ pending \in Seq(Clients) /\ Len(pending) =< MaxPending
  /\ at \in {"supervising", "authorizing", "replying"}
  /\ cur \in Clients \cup {NoClient} /\ left \in 0..Pieces
  /\ executed \subseteq Clients /\ refused \subseteq Clients /\ evicted \subseteq Clients
  /\ others \in 0..MaxOthers

Init ==
  /\ phase = [c \in Clients |-> "starting"]
  /\ got = [c \in Clients |-> 0]
  /\ reply = [c \in Clients |-> FALSE]
  /\ events = <<>> /\ pipe = <<>> /\ pending = <<>>
  /\ at = "supervising" /\ cur = NoClient /\ left = 0
  /\ executed = {} /\ refused = {} /\ evicted = {}
  /\ others = 0

-----------------------------------------------------------------------------
(* The client.                                                             *)

Becomes(c, p) == phase' = [phase EXCEPT ![c] = p]

\* process_event_send(), which the kernel may refuse.
Announce(c) ==
  /\ phase[c] = "starting"
  /\ \/ Becomes(c, "announced") /\ events' = Append(events, c)
     \/ Becomes(c, "denied") /\ UNCHANGED events
  /\ UNCHANGED <<got, reply, pipe, managerVars, others>>

SendRequest(c) ==
  /\ phase[c] = "announced"
  /\ Becomes(c, "sent")
  /\ pipe' = Append(pipe, c)
  /\ UNCHANGED <<got, reply, events, managerVars, others>>

ReadReply(c) ==
  /\ phase[c] = "sent" /\ reply[c]
  /\ reply' = [reply EXCEPT ![c] = FALSE]
  /\ got' = [got EXCEPT ![c] = @ + 1]
  /\ IF got[c] + 1 = Pieces THEN Becomes(c, "done") ELSE UNCHANGED phase
  /\ UNCHANGED <<events, pipe, managerVars, others>>

\* The user ends the client; what it has written stays written.
Die(c) ==
  /\ phase[c] \in {"starting", "announced", "sent"}
  /\ Becomes(c, "dead")
  /\ reply' = [reply EXCEPT ![c] = FALSE]
  /\ UNCHANGED <<got, events, pipe, managerVars, others>>

\* An event that is no authorization.
OtherEvent ==
  /\ others < MaxOthers
  /\ others' = others + 1
  /\ events' = Append(events, NoClient)
  /\ UNCHANGED <<clientVars, pipe, managerVars>>

-----------------------------------------------------------------------------
(* The manager.                                                            *)

\* respond_to_request() carries out the command before it opens the reply pipe.
Execute(c) ==
  /\ executed' = executed \cup {c}
  /\ at' = "replying" /\ left' = Pieces

Remembered(c) == c \in ToSet(pending)

KeepAt(i) == pending

ForgetAt(i) == RemoveAt(pending, i)

DropOthers(c) == UNCHANGED <<pending, evicted>>

Remember(c) ==
  \/ /\ Len(pending) = MaxPending
     /\ pending' = Append(Tail(pending), c)
     /\ evicted' = evicted \cup {Head(pending)}
  \/ /\ Len(pending) < MaxPending
     /\ pending' = Append(pending, c)
     /\ UNCHANGED evicted

\* authorize_request(), the announcements that were read before.
TakeRequest ==
  /\ at = "supervising" /\ pipe # <<>>
  /\ cur' = Head(pipe) /\ pipe' = Tail(pipe)
  /\ \/ /\ \E i \in 1..Len(pending) :
             /\ pending[i] = Head(pipe)
             /\ \A j \in 1..(i - 1) : pending[j] # Head(pipe)
             /\ pending' = ForgetAt(i)
        /\ Execute(Head(pipe))
     \/ /\ ~Remembered(Head(pipe))
        /\ at' = "authorizing"
        /\ UNCHANGED <<pending, left, executed>>
  /\ UNCHANGED <<clientVars, events, refused, evicted, others>>

\* authorize_request(), the next event.
TakeEvent ==
  /\ at = "authorizing" /\ events # <<>>
  /\ events' = Tail(events)
  /\ LET e == Head(events) IN
       \/ /\ e = cur
          /\ Execute(cur)
          /\ UNCHANGED <<pending, evicted>>
       \/ /\ e \notin {cur, NoClient}
          /\ Remember(e)
          /\ UNCHANGED <<at, left, executed>>
       \/ /\ e = NoClient
          /\ UNCHANGED <<pending, evicted, at, left, executed>>
  /\ UNCHANGED <<clientVars, pipe, cur, refused, others>>

\* authorize_request(), no more events: the request is dropped without a word.
Refuse ==
  /\ at = "authorizing" /\ events = <<>>
  /\ refused' = refused \cup {cur}
  /\ at' = "supervising" /\ cur' = NoClient
  /\ UNCHANGED <<clientVars, events, pipe, pending, left, executed, evicted, others>>

\* write_all() to the reply pipe, which holds one piece until it is read.
WritePiece ==
  /\ at = "replying" /\ phase[cur] # "dead" /\ ~reply[cur]
  /\ reply' = [reply EXCEPT ![cur] = TRUE]
  /\ left' = left - 1
  /\ IF left = 1 THEN at' = "supervising" /\ cur' = NoClient ELSE UNCHANGED <<at, cur>>
  /\ UNCHANGED <<phase, got, events, pipe, pending, executed, refused, evicted, others>>

\* The reply pipe is gone: it cannot be opened, or a write fails.
ReplyFails ==
  /\ at = "replying" /\ phase[cur] = "dead"
  /\ at' = "supervising" /\ cur' = NoClient /\ left' = 0
  /\ UNCHANGED <<clientVars, events, pipe, pending, executed, refused, evicted, others>>

Manager == TakeRequest \/ TakeEvent \/ Refuse \/ WritePiece \/ ReplyFails

Client(c) == Announce(c) \/ SendRequest(c) \/ ReadReply(c) \/ Die(c)

Next == Manager \/ OtherEvent \/ \E c \in Clients : Client(c)

Spec == Init /\ [][Next]_vars

\* The manager thread is scheduled, and a client that has a piece reads it.
Fairness == WF_vars(Manager) /\ \A c \in Clients : WF_vars(ReadReply(c))

FairSpec == Spec /\ Fairness

-----------------------------------------------------------------------------
\* A request that was announced is dropped only when more announcements than
\* the list holds were read before it (init.cpp:1097-1131).
DroppedWereEvicted == refused \subseteq evicted

\* An announcement stands for one request: when that was carried out it is
\* neither in the list nor on its way (service_protocol.hpp:117-121).
AnnouncementsAreUsedUp ==
  executed \cap (ToSet(pending) \cup ToSet(events)) = {}

\* Announcements and requests pair off: none is taken for one that was carried
\* out, and none is missing but for a full list (init.cpp:1088-1131).
RequestsPairOff == DroppedWereEvicted /\ AnnouncementsAreUsedUp

\* Every request is answered as long as its client lives, unless more clients
\* were under way than the list holds and its announcement had to make room
\* (service.cpp:144-185, init.cpp:1097-1131).
Answered ==
  \A c \in Clients : phase[c] = "sent" ~> phase[c] \in {"done", "dead"} \/ c \in evicted

\* A request takes the manager away from its services for a while only
\* (init.cpp:1168-1186).
ManagerReturns == at # "supervising" ~> at = "supervising"

-----------------------------------------------------------------------------
(* For every number of clients and every length of the list.               *)

\* No client is twice in q.
Once(q) == \A i, j \in 1..Len(q) : q[i] \in Clients /\ q[i] = q[j] => i = j

Members(q) == {q[i] : i \in 1..Len(q)}

LEMMA MembersAre ==
  ASSUME NEW S, NEW q \in Seq(S) PROVE ToSet(q) = Members(q)
BY DEF ToSet, Members

LEMMA Appended ==
  ASSUME NEW S, NEW q \in Seq(S), NEW x \in S
  PROVE  /\ Append(q, x) \in Seq(S) /\ Len(Append(q, x)) = Len(q) + 1
         /\ Members(Append(q, x)) = Members(q) \cup {x}
         /\ Once(q) /\ x \notin Members(q) => Once(Append(q, x))
         /\ Once(q) /\ x \notin Clients => Once(Append(q, x))
<1> DEFINE r == Append(q, x)
<1>1. /\ r \in Seq(S) /\ Len(r) = Len(q) + 1 /\ Len(q) \in Nat
      /\ r[Len(q) + 1] = x
      /\ \A i \in 1..Len(q) : r[i] = q[i]
  OBVIOUS
<1> HIDE DEF r
<1>2. Members(r) = Members(q) \cup {x}
  <2>1. ASSUME NEW y \in Members(r) PROVE y \in Members(q) \cup {x}
    BY <1>1, <2>1 DEF Members
  <2>2. ASSUME NEW y \in Members(q) \cup {x} PROVE y \in Members(r)
    <3>1. CASE y = x
      BY <1>1, <3>1 DEF Members
    <3>2. CASE y \in Members(q)
      BY <1>1, <3>2 DEF Members
    <3> QED
      BY <3>1, <3>2
  <2> QED
    BY <2>1, <2>2
<1>3. Once(q) /\ x \notin Members(q) => Once(r)
  BY <1>1 DEF Once, Members
<1>4. Once(q) /\ x \notin Clients => Once(r)
  BY <1>1 DEF Once
<1> QED
  BY <1>1, <1>2, <1>3, <1>4 DEF r

LEMMA Tailed ==
  ASSUME NEW S, NEW q \in Seq(S), q # <<>>
  PROVE  /\ Tail(q) \in Seq(S) /\ Len(Tail(q)) = Len(q) - 1 /\ Len(q) \in Nat \ {0}
         /\ Head(q) \in S
         /\ Members(q) = Members(Tail(q)) \cup {Head(q)}
         /\ Once(q) => Once(Tail(q))
         /\ Once(q) /\ Head(q) \in Clients => Head(q) \notin Members(Tail(q))
<1> DEFINE t == Tail(q)
           h == Head(q)
<1>1. /\ t \in Seq(S) /\ Len(t) = Len(q) - 1 /\ Len(q) \in Nat \ {0}
      /\ h \in S /\ h = q[1]
      /\ \A i \in 1..(Len(q) - 1) : t[i] = q[i + 1]
  OBVIOUS
<1> HIDE DEF t, h
<1>2. Members(q) = Members(t) \cup {h}
  <2>1. ASSUME NEW i \in 1..Len(q) PROVE q[i] \in Members(t) \cup {h}
    <3>1. CASE i = 1
      BY <1>1, <3>1
    <3>2. CASE i # 1
      <4>1. i - 1 \in 1..Len(t) /\ t[i - 1] = q[i]
        BY <1>1, <3>2
      <4> QED
        BY <4>1 DEF Members
    <3> QED
      BY <3>1, <3>2
  <2>2. ASSUME NEW i \in 1..Len(t) PROVE t[i] \in Members(q)
    <3>1. i + 1 \in 1..Len(q) /\ t[i] = q[i + 1]
      BY <1>1
    <3> QED
      BY <3>1 DEF Members
  <2>3. h \in Members(q)
    BY <1>1 DEF Members
  <2> QED
    BY <2>1, <2>2, <2>3 DEF Members
<1>3. ASSUME Once(q) PROVE Once(t)
  <2> SUFFICES ASSUME NEW i \in 1..Len(t), NEW j \in 1..Len(t), t[i] \in Clients, t[i] = t[j]
               PROVE  i = j
    BY DEF Once
  <2>1. i + 1 \in 1..Len(q) /\ j + 1 \in 1..Len(q) /\ t[i] = q[i + 1] /\ t[j] = q[j + 1]
    BY <1>1
  <2>2. i + 1 = j + 1
    BY <1>3, <2>1 DEF Once
  <2> QED
    BY <1>1, <2>2
<1>4. ASSUME Once(q), h \in Clients, NEW i \in 1..Len(t), t[i] = h PROVE FALSE
  <2>1. i + 1 \in 1..Len(q) /\ 1 \in 1..Len(q) /\ q[i + 1] = q[1] /\ q[1] \in Clients
    BY <1>1, <1>4
  <2>2. i + 1 = 1
    BY <1>4, <2>1 DEF Once
  <2> QED
    BY <2>2
<1> QED
  BY <1>1, <1>2, <1>3, <1>4 DEF t, h, Members

LEMMA Joined ==
  ASSUME NEW S, NEW a \in Seq(S), NEW b \in Seq(S)
  PROVE  /\ a \o b \in Seq(S) /\ Len(a \o b) = Len(a) + Len(b)
         /\ Len(a) \in Nat /\ Len(b) \in Nat
         /\ \A j \in 1..(Len(a) + Len(b)) :
              (a \o b)[j] = IF j =< Len(a) THEN a[j] ELSE b[j - Len(a)]
OBVIOUS

LEMMA Removed ==
  ASSUME NEW S, NEW q \in Seq(S), NEW i \in 1..Len(q)
  PROVE  /\ RemoveAt(q, i) \in Seq(S) /\ Len(RemoveAt(q, i)) = Len(q) - 1
         /\ Members(RemoveAt(q, i)) \subseteq Members(q)
         /\ Members(q) \subseteq Members(RemoveAt(q, i)) \cup {q[i]}
         /\ Once(q) => Once(RemoveAt(q, i))
         /\ Once(q) /\ q[i] \in Clients => q[i] \notin Members(RemoveAt(q, i))
<1> DEFINE r == RemoveAt(q, i)
           n == Len(q)
<1>1. n \in Nat /\ i \in 1..n
  OBVIOUS
<1>2. /\ r \in Seq(S) /\ Len(r) = n - 1
      /\ \A j \in 1..(n - 1) : r[j] = q[IF j < i THEN j ELSE j + 1]
  <2> DEFINE a == SubSeq(q, 1, i - 1)
             b == SubSeq(q, i + 1, n)
  <2>1. a \in Seq(S) /\ Len(a) = i - 1 /\ \A j \in 1..(i - 1) : a[j] = q[j]
    BY <1>1
  <2>2. b \in Seq(S) /\ Len(b) = n - i /\ \A j \in 1..(n - i) : b[j] = q[i + j]
    BY <1>1
  <2>3. r = a \o b
    BY DEF RemoveAt
  <2> HIDE DEF a, b, r, n
  <2>4. /\ r \in Seq(S) /\ Len(r) = n - 1
        /\ \A j \in 1..(n - 1) : r[j] = IF j < i THEN a[j] ELSE b[j - (i - 1)]
    <3>1. /\ r \in Seq(S) /\ Len(r) = Len(a) + Len(b)
          /\ \A j \in 1..(Len(a) + Len(b)) :
               r[j] = IF j =< Len(a) THEN a[j] ELSE b[j - Len(a)]
      BY <2>1, <2>2, <2>3, Joined
    <3>2. Len(a) = i - 1 /\ Len(a) + Len(b) = n - 1
      BY <1>1, <2>1, <2>2
    <3>3. ASSUME NEW j \in 1..(n - 1)
          PROVE  r[j] = IF j < i THEN a[j] ELSE b[j - (i - 1)]
      <4>1. r[j] = IF j =< i - 1 THEN a[j] ELSE b[j - (i - 1)]
        BY <3>1, <3>2
      <4> QED
        BY <1>1, <4>1
    <3> QED
      BY <3>1, <3>2, <3>3
  <2>5. ASSUME NEW j \in 1..(n - 1) PROVE r[j] = q[IF j < i THEN j ELSE j + 1]
    <3>1. CASE j < i
      BY <1>1, <2>1, <2>4, <3>1
    <3>2. CASE ~(j < i)
      <4>1. j - (i - 1) \in 1..(n - i) /\ i + (j - (i - 1)) = j + 1
        BY <1>1, <3>2
      <4> QED
        BY <2>2, <2>4, <3>2, <4>1
    <3> QED
      BY <3>1, <3>2
  <2> QED
    BY <2>4, <2>5
<1> HIDE DEF r, n
<1>3. ASSUME NEW j \in 1..(n - 1)
      PROVE  (IF j < i THEN j ELSE j + 1) \in 1..n /\ (IF j < i THEN j ELSE j + 1) # i
  BY <1>1
<1>4. Members(r) \subseteq Members(q)
  BY <1>2, <1>3 DEF Members, n
<1>5. Members(q) \subseteq Members(r) \cup {q[i]}
  <2>1. ASSUME NEW j \in 1..n, j # i PROVE q[j] \in Members(r)
    <3>1. CASE j < i
      <4>1. j \in 1..(n - 1) /\ r[j] = q[j]
        BY <1>1, <1>2, <3>1
      <4> QED
        BY <1>2, <4>1 DEF Members
    <3>2. CASE j > i
      <4>1. j - 1 \in 1..(n - 1) /\ r[j - 1] = q[j]
        BY <1>1, <1>2, <3>2
      <4> QED
        BY <1>2, <4>1 DEF Members
    <3> QED
      BY <1>1, <2>1, <3>1, <3>2
  <2> QED
    BY <2>1 DEF Members, n
<1>6. ASSUME Once(q) PROVE Once(r)
  <2> SUFFICES ASSUME NEW j \in 1..Len(r), NEW k \in 1..Len(r), r[j] \in Clients, r[j] = r[k]
               PROVE  j = k
    BY DEF Once
  <2> DEFINE a == IF j < i THEN j ELSE j + 1
             b == IF k < i THEN k ELSE k + 1
  <2>1. a \in 1..n /\ b \in 1..n /\ r[j] = q[a] /\ r[k] = q[b]
    BY <1>2, <1>3
  <2> HIDE DEF a, b
  <2>2. a = b
    BY <1>6, <2>1 DEF Once, n
  <2> QED
    BY <1>1, <1>2, <2>2 DEF a, b
<1>7. ASSUME Once(q), q[i] \in Clients, NEW j \in 1..Len(r), r[j] = q[i] PROVE FALSE
  <2> DEFINE a == IF j < i THEN j ELSE j + 1
  <2>1. a \in 1..n /\ a # i /\ q[a] = q[i]
    BY <1>2, <1>3, <1>7
  <2> HIDE DEF a
  <2>2. a = i
    BY <1>1, <1>7, <2>1 DEF Once, n
  <2> QED
    BY <2>1, <2>2
<1> QED
  BY <1>2, <1>4, <1>5, <1>6, <1>7 DEF r, n, Members

-----------------------------------------------------------------------------
\* Nobody is twice in a queue, or on its way and in the list.
Unique ==
  /\ Once(events) /\ Once(pending) /\ Once(pipe)
  /\ Members(events) \cap Members(pending) = {}
  /\ cur \notin Members(pipe)

\* What a client has not done has left no trace.
Fresh ==
  \A c \in Clients :
    /\ phase[c] = "starting" => c \notin Members(events) \cup Members(pending) \cup executed
    /\ phase[c] \in {"starting", "announced"} => c \notin Members(pipe) /\ c # cur
    /\ phase[c] \in {"starting", "announced", "sent"} => got[c] < Pieces

\* Announced: on its way, in the list, or evicted from it.
Traced(c) == c \in Members(events) \cup Members(pending) \cup evicted

\* A request that waits has its announcement.
Paired ==
  /\ \A c \in Clients : phase[c] = "announced" => Traced(c)
  /\ \A c \in Members(pipe) : Traced(c)
  /\ at = "authorizing" => cur \in Members(events) \cup evicted

Busy ==
  /\ at # "supervising" => cur \in Clients
  /\ at = "authorizing" => cur \notin Members(pending)
  /\ at = "replying" => left > 0

UsedUp == executed \cap (Members(pending) \cup Members(events)) = {}

IInv == TypeOK /\ Unique /\ Fresh /\ Paired /\ Busy /\ UsedUp /\ DroppedWereEvicted

\* What the queues of a state are.
LEMMA Queues ==
  ASSUME TypeOK
  PROVE  /\ events \in Seq(Clients \cup {NoClient}) /\ pipe \in Seq(Clients)
         /\ pending \in Seq(Clients)
         /\ ToSet(pending) = Members(pending) /\ ToSet(events) = Members(events)
         /\ Members(events) \subseteq Clients \cup {NoClient}
         /\ Members(pending) \subseteq Clients /\ Members(pipe) \subseteq Clients
<1>1. /\ events \in Seq(Clients \cup {NoClient}) /\ pipe \in Seq(Clients)
      /\ pending \in Seq(Clients)
  BY DEF TypeOK
<1>2. ToSet(pending) = Members(pending) /\ ToSet(events) = Members(events)
  BY <1>1, MembersAre
<1> QED
  BY <1>1, <1>2 DEF Members

LEMMA InitInv == Init => IInv
<1> SUFFICES ASSUME Init PROVE IInv
  OBVIOUS
<1>1. Members(<<>>) = {} /\ Once(<<>>)
  BY DEF Members, Once
<1>2. TypeOK
  BY ControlAssumption DEF ControlAssumption, Init, TypeOK
<1>3. Unique /\ Fresh /\ Paired /\ Busy /\ UsedUp /\ DroppedWereEvicted
  BY <1>1, ControlAssumption
  DEF ControlAssumption, Init, Unique, Fresh, Paired, Busy, UsedUp, DroppedWereEvicted
<1> QED
  BY <1>2, <1>3 DEF IInv

LEMMA StepAnnounce ==
  ASSUME IInv, NEW c \in Clients, Announce(c) PROVE IInv'
<1>1. TypeOK /\ Unique /\ Fresh /\ Paired /\ Busy /\ UsedUp /\ DroppedWereEvicted
  BY DEF IInv
<1>2. CASE Becomes(c, "denied") /\ UNCHANGED events
  <2>1. TypeOK'
    BY <1>1, <1>2 DEF Announce, TypeOK, Becomes, managerVars
  <2>2. (Unique /\ Fresh /\ Paired /\ Busy /\ UsedUp /\ DroppedWereEvicted)'
    BY <1>1, <1>2
    DEF Announce, TypeOK, Becomes, managerVars, Unique, Fresh, Paired, Traced, Busy, UsedUp,
        DroppedWereEvicted
  <2> QED
    BY <2>1, <2>2 DEF IInv
<1>3. CASE Becomes(c, "announced") /\ events' = Append(events, c)
  <2>1. c \notin Members(events) \cup Members(pending) \cup executed
    BY <1>1 DEF Announce, Fresh
  <2>2. /\ events' \in Seq(Clients \cup {NoClient}) /\ Once(events')
        /\ Members(events') = Members(events) \cup {c}
    BY <1>1, <1>3, <2>1, Queues, Appended DEF Unique
  <2>3. TypeOK'
    BY <1>1, <1>3, <2>2 DEF Announce, TypeOK, Becomes, managerVars
  <2>4. (Unique /\ Fresh /\ Paired /\ Busy /\ UsedUp /\ DroppedWereEvicted)'
    BY <1>1, <1>3, <2>1, <2>2
    DEF Announce, TypeOK, Becomes, managerVars, Unique, Fresh, Paired, Traced, Busy, UsedUp,
        DroppedWereEvicted
  <2> QED
    BY <2>3, <2>4 DEF IInv
<1> QED
  BY <1>2, <1>3 DEF Announce

LEMMA StepSend ==
  ASSUME IInv, NEW c \in Clients, SendRequest(c) PROVE IInv'
<1>1. TypeOK /\ Unique /\ Fresh /\ Paired /\ Busy /\ UsedUp /\ DroppedWereEvicted
  BY DEF IInv
<1>2. c \notin Members(pipe) /\ c # cur /\ Traced(c)
  BY <1>1 DEF SendRequest, Fresh, Paired
<1>3. /\ pipe' \in Seq(Clients) /\ Once(pipe')
      /\ Members(pipe') = Members(pipe) \cup {c}
  BY <1>1, <1>2, Queues, Appended DEF Unique, SendRequest
<1>4. TypeOK'
  BY <1>1, <1>3 DEF SendRequest, TypeOK, Becomes, managerVars
<1>5. (Unique /\ Fresh /\ Paired /\ Busy /\ UsedUp /\ DroppedWereEvicted)'
  BY <1>1, <1>2, <1>3
  DEF SendRequest, TypeOK, Becomes, managerVars, Unique, Fresh, Paired, Traced, Busy, UsedUp,
      DroppedWereEvicted
<1> QED
  BY <1>4, <1>5 DEF IInv

LEMMA StepClient ==
  ASSUME IInv, NEW c \in Clients, ReadReply(c) \/ Die(c) PROVE IInv'
<1>1. TypeOK /\ Unique /\ Fresh /\ Paired /\ Busy /\ UsedUp /\ DroppedWereEvicted
  BY DEF IInv
<1>2. Pieces \in Nat \ {0} /\ got[c] \in 0..Pieces
  BY <1>1, ControlAssumption DEF ControlAssumption, TypeOK
<1>3. TypeOK' /\ Fresh'
  <2>1. CASE ReadReply(c)
    <3>1. got[c] + 1 \in 0..Pieces /\ (phase'[c] = "sent" => got[c] + 1 < Pieces)
      BY <1>1, <1>2, <2>1 DEF ReadReply, Becomes, Fresh, TypeOK
    <3>2. got' \in [Clients -> 0..Pieces]
      BY <1>1, <2>1, <3>1 DEF ReadReply, TypeOK
    <3>3. /\ reply' \in [Clients -> BOOLEAN]
          /\ phase' \in [Clients -> {"starting", "announced", "sent", "done", "denied", "dead"}]
      BY <1>1, <2>1 DEF ReadReply, Becomes, TypeOK
    <3>4. TypeOK'
      BY <1>1, <2>1, <3>2, <3>3 DEF ReadReply, managerVars, TypeOK
    <3>5. Fresh'
      BY <1>1, <1>2, <2>1, <3>1 DEF ReadReply, Becomes, managerVars, TypeOK, Fresh
    <3> QED
      BY <3>4, <3>5
  <2>2. CASE Die(c)
    BY <1>1, <2>2 DEF Die, Becomes, managerVars, TypeOK, Fresh
  <2> QED
    BY <2>1, <2>2
<1>4. (Unique /\ Paired /\ Busy /\ UsedUp /\ DroppedWereEvicted)'
  BY <1>1
  DEF ReadReply, Die, Becomes, managerVars, TypeOK, Unique, Paired, Traced, Busy, UsedUp,
      DroppedWereEvicted
<1> QED
  BY <1>3, <1>4 DEF IInv

LEMMA StepOther ==
  ASSUME IInv, OtherEvent PROVE IInv'
<1>1. TypeOK /\ Unique /\ Fresh /\ Paired /\ Busy /\ UsedUp /\ DroppedWereEvicted
  BY DEF IInv
<1>2. NoClient \notin Clients
  BY ControlAssumption DEF ControlAssumption
<1>3. /\ events' \in Seq(Clients \cup {NoClient}) /\ Once(events')
      /\ Members(events') = Members(events) \cup {NoClient}
  BY <1>1, <1>2, Queues, Appended DEF OtherEvent, Unique
<1>4. TypeOK'
  <2>1. others' \in 0..MaxOthers
    BY <1>1, ControlAssumption DEF ControlAssumption, OtherEvent, TypeOK
  <2> QED
    BY <1>1, <1>3, <2>1 DEF OtherEvent, TypeOK, clientVars, managerVars
<1>5. (Unique /\ Fresh /\ Paired /\ Busy /\ UsedUp /\ DroppedWereEvicted)'
  BY <1>1, <1>2, <1>3, Queues
  DEF OtherEvent, clientVars, managerVars, TypeOK, Unique, Fresh, Paired, Traced, Busy, UsedUp,
      DroppedWereEvicted
<1> QED
  BY <1>4, <1>5 DEF IInv

LEMMA StepTakeRequest ==
  ASSUME IInv, TakeRequest PROVE IInv'
<1>1. TypeOK /\ Unique /\ Fresh /\ Paired /\ Busy /\ UsedUp /\ DroppedWereEvicted
  BY DEF IInv
<1> DEFINE h == Head(pipe)
<1>2. /\ h \in Clients /\ pipe' \in Seq(Clients) /\ Once(pipe')
      /\ Members(pipe) = Members(pipe') \cup {h} /\ h \notin Members(pipe')
  BY <1>1, Queues, Tailed DEF TakeRequest, Unique
<1>3. phase[h] \notin {"starting", "announced"} /\ Traced(h)
  BY <1>1, <1>2 DEF Fresh, Paired
<1>4. CASE /\ \E i \in 1..Len(pending) :
                /\ pending[i] = h
                /\ pending' = ForgetAt(i)
           /\ Execute(h)
  <2>1. PICK i \in 1..Len(pending) : pending[i] = h /\ pending' = RemoveAt(pending, i)
    BY <1>4 DEF ForgetAt
  <2>2. /\ pending' \in Seq(Clients) /\ Len(pending') = Len(pending) - 1
        /\ Len(pending) \in Nat /\ Len(pending) > 0
        /\ Members(pending') \subseteq Members(pending)
        /\ Members(pending) \subseteq Members(pending') \cup {h}
        /\ Once(pending') /\ h \notin Members(pending') /\ h \in Members(pending)
    <3>1. pending \in Seq(Clients) /\ Once(pending) /\ Len(pending) \in Nat
      BY <1>1, Queues DEF Unique
    <3>2. h \in Members(pending)
      BY <2>1 DEF Members
    <3> HIDE DEF h
    <3> DEFINE r == RemoveAt(pending, i)
    <3>3. /\ r \in Seq(Clients) /\ Len(r) = Len(pending) - 1
          /\ Members(r) \subseteq Members(pending)
          /\ Members(pending) \subseteq Members(r) \cup {pending[i]}
          /\ Once(pending) => Once(r)
          /\ Once(pending) /\ pending[i] \in Clients => pending[i] \notin Members(r)
      BY <3>1, Removed
    <3>4. pending' = r /\ pending[i] = h /\ Len(pending) > 0
      BY <2>1, <3>1
    <3> HIDE DEF r
    <3> QED
      BY <1>2, <3>1, <3>2, <3>3, <3>4
  <2>3. h \notin Members(events)
    BY <1>1, <2>2 DEF Unique
  <2> HIDE DEF h
  <2>4. UNCHANGED <<clientVars, events, refused, evicted, others>> /\ cur' = h
        /\ at' = "replying" /\ left' = Pieces /\ executed' = executed \cup {h}
    BY <1>4 DEF TakeRequest, Execute, h
  <2>5. TypeOK'
    BY <1>1, <1>2, <2>2, <2>4, ControlAssumption DEF ControlAssumption, TypeOK, clientVars
  <2>6. (Unique /\ Fresh /\ Paired /\ Busy /\ UsedUp /\ DroppedWereEvicted)'
    BY <1>1, <1>2, <1>3, <2>2, <2>3, <2>4, ControlAssumption
    DEF ControlAssumption, clientVars, Unique, Fresh, Paired, Traced, Busy, UsedUp,
        DroppedWereEvicted
  <2> QED
    BY <2>5, <2>6 DEF IInv
<1>5. CASE /\ ~Remembered(h)
           /\ at' = "authorizing"
           /\ UNCHANGED <<pending, left, executed>>
  <2>1. h \notin Members(pending)
    BY <1>1, <1>5, Queues DEF Remembered
  <2> HIDE DEF h
  <2>2. UNCHANGED <<clientVars, events, refused, evicted, others>> /\ cur' = h
    BY DEF TakeRequest, h
  <2>3. TypeOK'
    BY <1>1, <1>2, <1>5, <2>2 DEF TypeOK, clientVars
  <2>4. (Unique /\ Fresh /\ Paired /\ Busy /\ UsedUp /\ DroppedWereEvicted)'
    BY <1>1, <1>2, <1>3, <1>5, <2>1, <2>2
    DEF clientVars, Unique, Fresh, Paired, Traced, Busy, UsedUp, DroppedWereEvicted
  <2> QED
    BY <2>3, <2>4 DEF IInv
<1>6. \/ /\ \E i \in 1..Len(pending) :
              /\ pending[i] = h
              /\ \A j \in 1..(i - 1) : pending[j] # h
              /\ pending' = ForgetAt(i)
         /\ Execute(h)
      \/ /\ ~Remembered(h)
         /\ at' = "authorizing"
         /\ UNCHANGED <<pending, left, executed>>
  BY Zenon DEF TakeRequest
<1> HIDE DEF h
<1> QED
  BY <1>4, <1>5, <1>6

LEMMA StepTakeEvent ==
  ASSUME IInv, TakeEvent PROVE IInv'
<1>1. TypeOK /\ Unique /\ Fresh /\ Paired /\ Busy /\ UsedUp /\ DroppedWereEvicted
  BY DEF IInv
<1> DEFINE e == Head(events)
<1>2. /\ e \in Clients \cup {NoClient}
      /\ events' \in Seq(Clients \cup {NoClient}) /\ Once(events')
      /\ Members(events) = Members(events') \cup {e}
      /\ e \in Clients => e \notin Members(events')
  BY <1>1, Queues, Tailed DEF TakeEvent, Unique
<1>3. /\ at = "authorizing" /\ cur \in Clients
      /\ UNCHANGED <<clientVars, pipe, cur, refused, others>>
  BY <1>1 DEF TakeEvent, Busy
<1>4. NoClient \notin Clients /\ Pieces \in Nat \ {0} /\ MaxPending \in Nat \ {0}
  BY ControlAssumption DEF ControlAssumption
<1>5. CASE e = cur /\ Execute(cur) /\ UNCHANGED <<pending, evicted>>
  <2> HIDE DEF e
  <2>1. cur \notin Members(pending) /\ cur \notin Members(events')
    BY <1>1, <1>2, <1>3, <1>5 DEF Busy
  <2>2. TypeOK'
    BY <1>1, <1>2, <1>3, <1>4, <1>5 DEF TypeOK, clientVars, Execute
  <2>3. (Unique /\ Fresh /\ Paired /\ Busy /\ UsedUp /\ DroppedWereEvicted)'
    BY <1>1, <1>2, <1>3, <1>4, <1>5, <2>1
    DEF clientVars, Execute, Unique, Fresh, Paired, Traced, Busy, UsedUp, DroppedWereEvicted
  <2> QED
    BY <2>2, <2>3 DEF IInv
<1>6. CASE e \notin {cur, NoClient} /\ Remember(e) /\ UNCHANGED <<at, left, executed>>
  <2> HIDE DEF e
  <2>1. e \in Clients /\ e \in Members(events) /\ e \notin Members(pending) /\ e \notin executed
    BY <1>1, <1>2, <1>6 DEF Unique, UsedUp
  <2>2. pending \in Seq(Clients) /\ Members(pending) \subseteq Clients /\ Once(pending)
        /\ Len(pending) \in Nat /\ Len(pending) =< MaxPending
    BY <1>1, Queues DEF Unique, TypeOK
  <2>3. CASE Len(pending) < MaxPending /\ pending' = Append(pending, e) /\ UNCHANGED evicted
    <3>1. /\ pending' \in Seq(Clients) /\ Len(pending') = Len(pending) + 1 /\ Once(pending')
          /\ Members(pending') = Members(pending) \cup {e}
      BY <2>1, <2>2, <2>3, Appended
    <3>2. TypeOK'
      BY <1>1, <1>2, <1>3, <1>4, <1>6, <2>2, <2>3, <3>1 DEF TypeOK, clientVars
    <3>3. (Unique /\ Fresh /\ Paired /\ Busy /\ UsedUp /\ DroppedWereEvicted)'
      BY <1>1, <1>2, <1>3, <1>4, <1>6, <2>1, <2>3, <3>1
      DEF clientVars, Unique, Fresh, Paired, Traced, Busy, UsedUp, DroppedWereEvicted
    <3> QED
      BY <3>2, <3>3 DEF IInv
  <2>4. CASE /\ Len(pending) = MaxPending /\ pending' = Append(Tail(pending), e)
             /\ evicted' = evicted \cup {Head(pending)}
    <3> DEFINE t == Tail(pending)
               o == Head(pending)
    <3>1. pending # <<>>
      BY <1>4, <2>4
    <3>2. /\ t \in Seq(Clients) /\ Len(t) = MaxPending - 1 /\ Once(t) /\ o \in Clients
          /\ Members(pending) = Members(t) \cup {o}
      BY <2>2, <2>4, <3>1, Tailed
    <3>3. pending' = Append(t, e) /\ evicted' = evicted \cup {o}
      BY <2>4
    <3> HIDE DEF t, o
    <3>4. /\ pending' \in Seq(Clients) /\ Len(pending') = Len(t) + 1 /\ Once(pending')
          /\ Members(pending') = Members(t) \cup {e}
      BY <2>1, <3>2, <3>3, Appended
    <3>5. TypeOK'
      BY <1>1, <1>2, <1>3, <1>4, <1>6, <3>2, <3>3, <3>4 DEF TypeOK, clientVars
    <3>6. (Unique /\ Fresh /\ Paired /\ Busy /\ UsedUp /\ DroppedWereEvicted)'
      BY <1>1, <1>2, <1>3, <1>4, <1>6, <2>1, <3>2, <3>3, <3>4
      DEF clientVars, Unique, Fresh, Paired, Traced, Busy, UsedUp, DroppedWereEvicted
    <3> QED
      BY <3>5, <3>6 DEF IInv
  <2> QED
    BY <1>6, <2>3, <2>4 DEF Remember
<1>7. CASE e = NoClient /\ UNCHANGED <<pending, evicted, at, left, executed>>
  <2> HIDE DEF e
  <2>1. TypeOK'
    BY <1>1, <1>2, <1>3, <1>7 DEF TypeOK, clientVars
  <2>2. (Unique /\ Fresh /\ Paired /\ Busy /\ UsedUp /\ DroppedWereEvicted)'
    BY <1>1, <1>2, <1>3, <1>4, <1>7, Queues
    DEF clientVars, Unique, Fresh, Paired, Traced, Busy, UsedUp, DroppedWereEvicted
  <2> QED
    BY <2>1, <2>2 DEF IInv
<1> QED
  BY <1>5, <1>6, <1>7 DEF TakeEvent

LEMMA StepManager ==
  ASSUME IInv, Refuse \/ WritePiece \/ ReplyFails PROVE IInv'
<1>1. TypeOK /\ Unique /\ Fresh /\ Paired /\ Busy /\ UsedUp /\ DroppedWereEvicted
  BY DEF IInv
<1>2. NoClient \notin Clients /\ Pieces \in Nat \ {0} /\ Members(pipe) \subseteq Clients
  BY <1>1, ControlAssumption, Queues DEF ControlAssumption
<1>3. CASE Refuse
  <2>1. cur \in evicted
    <3>1. Members(<<>>) = {}
      BY DEF Members
    <3> QED
      BY <1>1, <1>3, <3>1 DEF Refuse, Paired
  <2>2. TypeOK'
    BY <1>1, <1>3 DEF Refuse, TypeOK, clientVars, Busy
  <2>3. (Unique /\ Fresh /\ Paired /\ Busy /\ UsedUp /\ DroppedWereEvicted)'
    BY <1>1, <1>2, <1>3, <2>1
    DEF Refuse, clientVars, Unique, Fresh, Paired, Traced, Busy, UsedUp, DroppedWereEvicted
  <2> QED
    BY <2>2, <2>3 DEF IInv
<1>4. CASE WritePiece
  <2>1. TypeOK'
    BY <1>1, <1>2, <1>4 DEF WritePiece, TypeOK, Busy
  <2>2. (Unique /\ Fresh /\ Paired /\ UsedUp /\ DroppedWereEvicted)'
    BY <1>1, <1>2, <1>4
    DEF WritePiece, TypeOK, Unique, Fresh, Paired, Traced, UsedUp, DroppedWereEvicted
  <2>3. Busy'
    BY <1>1, <1>2, <1>4 DEF WritePiece, TypeOK, Busy
  <2> QED
    BY <2>1, <2>2, <2>3 DEF IInv
<1>5. CASE ReplyFails
  <2>1. TypeOK'
    BY <1>1, <1>2, <1>5 DEF ReplyFails, TypeOK, clientVars
  <2>2. (Unique /\ Fresh /\ Paired /\ Busy /\ UsedUp /\ DroppedWereEvicted)'
    BY <1>1, <1>2, <1>5
    DEF ReplyFails, clientVars, Unique, Fresh, Paired, Traced, Busy, UsedUp, DroppedWereEvicted
  <2> QED
    BY <2>1, <2>2 DEF IInv
<1> QED
  BY <1>3, <1>4, <1>5

LEMMA StepInv == IInv /\ [Next]_vars => IInv'
<1> SUFFICES ASSUME IInv, [Next]_vars PROVE IInv'
  OBVIOUS
<1>1. CASE UNCHANGED vars
  BY <1>1
  DEF vars, clientVars, managerVars, IInv, TypeOK, Unique, Fresh, Paired, Traced, Busy, UsedUp,
      DroppedWereEvicted
<1>2. CASE Manager
  BY <1>2, StepTakeRequest, StepTakeEvent, StepManager DEF Manager
<1>3. CASE OtherEvent
  BY <1>3, StepOther
<1>4. ASSUME NEW c \in Clients, Client(c) PROVE IInv'
  BY <1>4, StepAnnounce, StepSend, StepClient DEF Client
<1> QED
  BY <1>1, <1>2, <1>3, <1>4 DEF Next

LEMMA InvImplies == IInv => TypeOK /\ DroppedWereEvicted /\ AnnouncementsAreUsedUp
BY Queues DEF IInv, UsedUp, AnnouncementsAreUsedUp

\* The list of announcements stays within its bound (init.cpp:1121-1129).
THEOREM TypeCorrect == Spec => []TypeOK
<1> QED
  BY InitInv, StepInv, InvImplies, PTL DEF Spec

\* However many clients there are and however their events and requests
\* interleave, a dropped request is one whose announcement was evicted from a
\* full list (init.cpp:1097-1131).
THEOREM DroppedByOverflowOnly == Spec => []DroppedWereEvicted
<1> QED
  BY InitInv, StepInv, InvImplies, PTL DEF Spec

\* An announcement authorizes one request (service_protocol.hpp:117-121).
THEOREM OneRequestEach == Spec => []AnnouncementsAreUsedUp
<1> QED
  BY InitInv, StepInv, InvImplies, PTL DEF Spec

\* Announcements and requests pair off for any number of clients and any length
\* of the list (init.cpp:1088-1131).
THEOREM PairedOff == Spec => []RequestsPairOff
<1>1. IInv => RequestsPairOff
  BY InvImplies DEF RequestsPairOff
<1> QED
  BY <1>1, InitInv, StepInv, PTL DEF Spec
=============================================================================
