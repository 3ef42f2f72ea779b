------------------------------- MODULE Resolver -------------------------------
(* Names resolved over networkd (userspace-support/net/dns.hpp): a program    *)
(* binds the first port that is free, asks the server up to three times and  *)
(* gives the port back.  Every wait is a number of turns, so that an answer  *)
(* may be late for the question, for the attempt or for the program.       *)
(*                                                                         *)
(* networkd is the part of networkd.cpp that keeps the bindings.  External:  *)
(* the server, which answers when it likes, twice or not at all; the kernel,  *)
(* which takes a process away.  A pipe is its process and the number of its  *)
(* context; finding networkd and the interface is one step that may fail.   *)
EXTENDS Naturals, Sequences, FiniteSets, SequencesExt

CONSTANTS
  Apps, Hosts, NoValue,
  hash_host,         \* of each host, two bits
  kFirstEphemeralPort, kEphemeralPortCount,
  MaxBindings,       \* slots of networkd
  kResolveAttempts,
  MaxContexts,       \* bound: resolutions of each process
  MaxAnswers         \* bound: answers that are under way at a time

ResolverAssumption ==
  /\ hash_host \in [Hosts -> 0..3]
  /\ {kFirstEphemeralPort, kEphemeralPortCount, MaxBindings, kResolveAttempts} \subseteq Nat \ {0}
  /\ MaxContexts \in Nat
  /\ NoValue \notin Hosts /\ \A a \in Apps : \A c \in 0..MaxContexts : NoValue # <<a, c>>

VARIABLES
  step,      \* of each process: "idle", "bind", "wait", "ask", "listen"
  context,   \* how many it has made
  host, candidate, attempt, sequence,
  result,    \* of the last resolution: NoValue, or the host whose address it is
  inbox,     \* its reply pipe
  control,   \* requests on their way to networkd
  bindings,  \* of each port: the pipe, or NoValue
  wire,      \* answers on their way
  given_up,  \* history: pipes of those who stopped waiting for a bind, or died
  twins      \* history: two questions from one port had the same number

program == <<step, context, host, candidate, attempt, sequence, result>>
history == <<given_up, twins>>
vars == <<program, inbox, control, bindings, wire, history>>

Ports == kFirstEphemeralPort..(kFirstEphemeralPort + kEphemeralPortCount - 1)
Pipe(a) == <<a, context[a]>>
Open(p) == step[p[1]] # "idle" /\ Pipe(p[1]) = p

\* make_query_id(): exclusive or, of the two bits that are modelled; there is no
\* question 0, the number 1 stands for it too.
Xor(m, n) == ((m + n) % 2) + 2 * (((m \div 2) + (n \div 2)) % 2)
NotZero(id) == IF id # 0 THEN id ELSE 1
QueryId(h, n) == NotZero(Xor(hash_host[h], n % 4))

Init ==
  /\ step = [a \in Apps |-> "idle"] /\ context = [a \in Apps |-> 0] /\ host = [a \in Apps |-> NoValue]
  /\ candidate = [a \in Apps |-> kFirstEphemeralPort] /\ attempt = [a \in Apps |-> 0] /\ sequence = [a \in Apps |-> 0]
  /\ result = [a \in Apps |-> NoValue] /\ inbox = [a \in Apps |-> <<>>]
  /\ control = <<>> /\ bindings = [p \in Ports |-> NoValue] /\ wire = <<>>
  /\ given_up = {} /\ twins = FALSE

-----------------------------------------------------------------------------
(* The program.                                                            *)

Begin(a) ==
  /\ step[a] = "idle" /\ context[a] < MaxContexts
  /\ \E h \in Hosts : host' = [host EXCEPT ![a] = h]
  /\ context' = [context EXCEPT ![a] = @ + 1] /\ step' = [step EXCEPT ![a] = "bind"]
  /\ candidate' = [candidate EXCEPT ![a] = kFirstEphemeralPort] /\ attempt' = [attempt EXCEPT ![a] = 0]
  /\ result' = [result EXCEPT ![a] = NoValue] /\ inbox' = [inbox EXCEPT ![a] = <<>>]
  /\ UNCHANGED <<sequence, control, bindings, wire, history>>

\* bind_udp(): the request, which a full pipe may not take.
Bind(a) ==
  /\ step[a] = "bind"
  /\ \/ /\ control' = Append(control, [type |-> "bind", pipe |-> Pipe(a), port |-> candidate[a]])
        /\ step' = [step EXCEPT ![a] = "wait"]
     \/ step' = [step EXCEPT ![a] = "idle"] /\ UNCHANGED control
  /\ UNCHANGED <<context, host, candidate, attempt, sequence, result, inbox, bindings, wire, history>>

\* wait_for_bind_response(): what is not the response to this request is dropped.
Forget(a) == inbox' = [inbox EXCEPT ![a] = Tail(@)]
Head1(a) == inbox[a][1]
IsResponse(a) == Head1(a).type = "bound" /\ Head1(a).port = candidate[a]

Bound(a) ==
  /\ step[a] = "wait" /\ inbox[a] # <<>> /\ Forget(a)
  /\ CASE ~IsResponse(a) -> UNCHANGED <<step, candidate>>
       [] IsResponse(a) /\ Head1(a).ok -> step' = [step EXCEPT ![a] = "ask"] /\ UNCHANGED candidate
       [] OTHER -> \/ /\ candidate[a] + 1 \in Ports /\ candidate' = [candidate EXCEPT ![a] = @ + 1]
                      /\ step' = [step EXCEPT ![a] = "bind"]
                   \/ /\ candidate[a] + 1 \notin Ports /\ step' = [step EXCEPT ![a] = "idle"]
                      /\ UNCHANGED candidate
  /\ UNCHANGED <<context, host, attempt, sequence, result, control, bindings, wire, history>>

NotBound(a) ==
  /\ step[a] = "wait" /\ step' = [step EXCEPT ![a] = "idle"]
  /\ given_up' = given_up \cup {Pipe(a)}
  /\ UNCHANGED <<context, host, candidate, attempt, sequence, result, inbox, control, bindings, wire, twins>>

\* close_context() of a context with a port; the request may not fit either.
Close(a) ==
  /\ step' = [step EXCEPT ![a] = "idle"]
  /\ \/ control' = Append(control, [type |-> "unbind", pipe |-> Pipe(a), port |-> candidate[a]])
        /\ UNCHANGED given_up
     \/ UNCHANGED control /\ given_up' = given_up \cup {Pipe(a)}

\* A question: its number goes on from one resolution to the next.
Ask(a) ==
  /\ step[a] = "ask"
  /\ LET n == sequence[a] + 1
         question == [type |-> "send", pipe |-> Pipe(a), port |-> candidate[a],
                      id |-> QueryId(host[a], n), host |-> host[a]]
     IN /\ sequence' = [sequence EXCEPT ![a] = n]
        /\ twins' = (twins \/ \E m \in Range(wire) \cup Range(control) \cup Range(inbox[a]) :
                       m.port = question.port /\ m.type \in {"send", "answer"}
                         /\ m.id = question.id /\ m.host # question.host)
        /\ \/ /\ control' = Append(control, question) /\ step' = [step EXCEPT ![a] = "listen"]
              /\ attempt' = [attempt EXCEPT ![a] = @ + 1] /\ UNCHANGED given_up
           \/ Close(a) /\ UNCHANGED attempt
  /\ UNCHANGED <<context, host, candidate, result, inbox, bindings, wire>>

AnyAnswer(a) == Head1(a).type = "answer" /\ Head1(a).port = candidate[a] /\ Head1(a).good

\* An answer is recognised by its ports and its number; errors, and answers
\* without an address, are passed over.
IsAnswer(a) ==
  /\ Head1(a).type = "answer" /\ Head1(a).port = candidate[a]
  /\ Head1(a).id = QueryId(host[a], sequence[a]) /\ Head1(a).good

Listen(a) ==
  /\ step[a] = "listen" /\ inbox[a] # <<>> /\ Forget(a)
  /\ IF IsAnswer(a)
       THEN result' = [result EXCEPT ![a] = Head1(a).host] /\ Close(a)
       ELSE UNCHANGED <<step, result, control, given_up>>
  /\ UNCHANGED <<context, host, candidate, attempt, sequence, bindings, wire, twins>>

NoAnswer(a) ==
  /\ step[a] = "listen"
  /\ IF attempt[a] < kResolveAttempts
       THEN step' = [step EXCEPT ![a] = "ask"] /\ UNCHANGED <<control, given_up>>
       ELSE Close(a)
  /\ UNCHANGED <<context, host, candidate, attempt, sequence, result, inbox, bindings, wire, twins>>

Die(a) ==
  /\ step[a] # "idle" /\ step' = [step EXCEPT ![a] = "idle"] /\ given_up' = given_up \cup {Pipe(a)}
  /\ context' = [context EXCEPT ![a] = MaxContexts]
  /\ UNCHANGED <<host, candidate, attempt, sequence, result, inbox, control, bindings, wire, twins>>

-----------------------------------------------------------------------------
(* networkd and the server.                                                *)

Tell(p, message) ==
  inbox' = IF Open(p) THEN [inbox EXCEPT ![p[1]] = Append(@, message)] ELSE inbox

Free(port) == bindings[port] = NoValue
FreeSlot == Cardinality({p \in Ports : ~Free(p)}) < MaxBindings

\* handle_bind_request(): without a slot, or a pipe to answer to, nothing happens.
HandleBind(r) ==
  CASE ~Free(r.port) ->
         Tell(r.pipe, [type |-> "bound", port |-> r.port, ok |-> FALSE]) /\ UNCHANGED bindings
    [] Free(r.port) /\ FreeSlot /\ Open(r.pipe) ->
         /\ bindings' = [bindings EXCEPT ![r.port] = r.pipe]
         /\ Tell(r.pipe, [type |-> "bound", port |-> r.port, ok |-> TRUE])
    [] OTHER -> UNCHANGED <<bindings, inbox>>

HandleUnbind(r) == bindings' = [bindings EXCEPT ![r.port] = NoValue] /\ UNCHANGED inbox

Serve ==
  /\ control # <<>> /\ control' = Tail(control)
  /\ LET r == Head(control) IN
     CASE r.type = "bind" -> HandleBind(r) /\ UNCHANGED wire
       [] r.type = "unbind" -> HandleUnbind(r) /\ UNCHANGED wire
       [] r.type = "send" ->
            /\ \/ /\ ~Free(r.port) /\ Len(wire) < MaxAnswers
                  /\ \E good \in BOOLEAN :
                       wire' = Append(wire, [type |-> "answer", port |-> r.port, id |-> r.id,
                                             host |-> r.host, good |-> good])
               \/ UNCHANGED wire
            /\ UNCHANGED <<bindings, inbox>>
  /\ UNCHANGED <<program, history>>

\* In any order, and perhaps once more.
Arrive ==
  /\ \E i \in DOMAIN wire :
       /\ wire' \in {RemoveAt(wire, i), wire}
       /\ IF Free(wire[i].port) THEN UNCHANGED inbox ELSE Tell(bindings[wire[i].port], wire[i])
       /\ wire' = wire => ~Free(wire[i].port) /\ Open(bindings[wire[i].port])
                            /\ inbox[bindings[wire[i].port][1]] = <<>>
  /\ UNCHANGED <<program, control, bindings, history>>

App(a) ==
  Begin(a) \/ Bind(a) \/ Bound(a) \/ NotBound(a) \/ Ask(a) \/ Listen(a) \/ NoAnswer(a) \/ Die(a)

Next == (\E a \in Apps : App(a)) \/ Serve \/ Arrive

Spec == Init /\ [][Next]_vars

-----------------------------------------------------------------------------
Pipes == Apps \X (0..MaxContexts)
Requests ==
  [type : {"bind", "unbind"}, pipe : Pipes, port : Ports]
    \cup [type : {"send"}, pipe : Pipes, port : Ports, id : 0..3, host : Hosts]
Answers == [type : {"answer"}, port : Ports, id : 0..3, host : Hosts, good : BOOLEAN]
Responses == [type : {"bound"}, port : Ports, ok : BOOLEAN]

TypeOK ==
  /\ step \in [Apps -> {"idle", "bind", "wait", "ask", "listen"}]
  /\ context \in [Apps -> 0..MaxContexts] /\ host \in [Apps -> Hosts \cup {NoValue}]
  /\ candidate \in [Apps -> Ports] /\ attempt \in [Apps -> 0..kResolveAttempts]
  /\ sequence \in [Apps -> Nat] /\ result \in [Apps -> Hosts \cup {NoValue}]
  /\ inbox \in [Apps -> Seq(Answers \cup Responses)] /\ control \in Seq(Requests)
  /\ bindings \in [Ports -> Pipes \cup {NoValue}] /\ wire \in Seq(Answers)
  /\ given_up \subseteq Pipes /\ twins \in BOOLEAN
  /\ Cardinality({p \in Ports : ~Free(p)}) =< MaxBindings

\* An address is that of the host that was asked for, however late answers to
\* earlier questions are, if the numbers of questions differ: nothing else in
\* an answer is looked at (dns.hpp:260-266, 355-402, 547-577).
AnswersJust == \A a \in Apps : result[a] \in {NoValue, host[a]} \/ twins

\* Who asks has the port for himself: nobody else's packets come, and nobody
\* takes it away (dns.hpp:486-512, networkd.cpp:507-566).
PortsHeld ==
  \A a \in Apps : step[a] \in {"ask", "listen"} => bindings[candidate[a]] = Pipe(a)

\* A port is given back when the resolution is over, however it ends, unless the
\* program stopped waiting for the answer to its bind (dns.hpp:123-140, 488-500).
PortsGivenBack ==
  \A p \in Ports :
    ~Free(p) /\ ~Open(bindings[p]) =>
      \/ bindings[p] \in given_up
      \/ \E i \in DOMAIN control : control[i].type = "unbind" /\ control[i].pipe = bindings[p]

\* An address is that of the host asked for, however late answers are; a port
\* belongs to one asker at a time and is given back
\* (dns.hpp:123-140, 486-577, networkd.cpp:490-566).
NamesJust == TypeOK /\ AnswersJust /\ PortsHeld /\ PortsGivenBack
=============================================================================
