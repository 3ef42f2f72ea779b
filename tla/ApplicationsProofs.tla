---------------------------- MODULE ApplicationsProofs ----------------------------
(* For any number of programs, ports, bindings and attempts, and any order in *)
(* which answers come: who asks has the port for himself, gives it back, and *)
(* takes no answer about another host.                                     *)
EXTENDS MCApplications, Integers, FiniteSetTheorems, SequenceTheorems, WellFoundedInduction, TLAPS

\* What the pipe of a says of the messages and bindings, while it is open.
Mine(a, m, type) == m.type = type /\ m.pipe = Pipe(a)
Told(a, m) == m.type = "bound" /\ m.port = candidate[a]

\* A bind that is under way is the only one of its pipe, is for the candidate,
\* and has had no effect.
BindsWait(a) ==
  \A i \in DOMAIN control : Mine(a, control[i], "bind") =>
    /\ step[a] = "wait" /\ control[i].port = candidate[a] /\ bindings[candidate[a]] # Pipe(a)
    /\ \A k \in DOMAIN inbox[a] : ~Told(a, inbox[a][k])
    /\ \A j \in DOMAIN control : Mine(a, control[j], "bind") => j = i

\* Responses are to the candidates so far, and the one to the present candidate
\* is true.
ResponsesTrue(a) ==
  \A k \in DOMAIN inbox[a] : inbox[a][k].type = "bound" =>
    /\ inbox[a][k].port =< candidate[a]
    /\ step[a] = "bind" => inbox[a][k].port # candidate[a]
    /\ step[a] = "wait" /\ Told(a, inbox[a][k]) => (inbox[a][k].ok <=> bindings[candidate[a]] = Pipe(a))

\* The pipe has no port but the candidate, of which its owner knows or will learn.
HoldsOne(a) ==
  \A p \in Ports : bindings[p] = Pipe(a) =>
    /\ p = candidate[a] /\ step[a] \in {"wait", "ask", "listen"}
    /\ step[a] = "wait" => \E k \in DOMAIN inbox[a] : Told(a, inbox[a][k])

Holds(a) == step[a] \in {"ask", "listen"} => bindings[candidate[a]] = Pipe(a)

NoUnbind(a) == \A i \in DOMAIN control : ~Mine(a, control[i], "unbind")

Engaged(a) ==
  step[a] # "idle" =>
    BindsWait(a) /\ ResponsesTrue(a) /\ HoldsOne(a) /\ Holds(a) /\ NoUnbind(a) /\ host[a] \in Hosts

\* A port that is to be given back is bound to the pipe that gives it.
Unbinding ==
  \A i \in DOMAIN control : control[i].type = "unbind" =>
    /\ bindings[control[i].port] = control[i].pipe
    /\ \A j \in DOMAIN control :
         control[j].type = "unbind" /\ control[j].port = control[i].port => j = i

\* Pipes are those of contexts up to the present one.
Past ==
  /\ \A i \in DOMAIN control : control[i].pipe[2] =< context[control[i].pipe[1]]
  /\ \A p \in Ports : ~Free(p) => bindings[p][2] =< context[bindings[p][1]]

\* PortsGivenBack, with the port that is given back.
GivenBack ==
  \A p \in Ports : ~Free(p) /\ ~Open(bindings[p]) =>
    \/ bindings[p] \in given_up
    \/ \E i \in DOMAIN control :
         control[i].type = "unbind" /\ control[i].pipe = bindings[p] /\ control[i].port = p

AttemptsLeft == \A a \in Apps : step[a] \in {"bind", "wait", "ask"} => attempt[a] < kResolveAttempts

\* What a would take for its answer is about its host.
Mistaken(a, m) ==
  /\ m.type \in {"send", "answer"} /\ m.port = candidate[a]
  /\ m.id = QueryId(host[a], sequence[a]) /\ m.host # host[a]

Unmistaken ==
  twins \/ \A a \in Apps : step[a] = "listen" =>
    /\ \A i \in DOMAIN control : ~Mistaken(a, control[i])
    /\ \A i \in DOMAIN wire : ~Mistaken(a, wire[i])
    /\ \A i \in DOMAIN inbox[a] : ~Mistaken(a, inbox[a][i])

IInv ==
  /\ TypeOK /\ Unbinding /\ Past /\ GivenBack /\ AttemptsLeft /\ Unmistaken /\ AnswersJust
  /\ \A a \in Apps : Engaged(a)

------------------------------------------------------------------------------
(* Lemmas about sequences, numbers and pipes.                              *)

LEMMA Appended ==
  ASSUME NEW S, NEW q \in Seq(S), NEW x \in S
  PROVE  /\ Append(q, x) \in Seq(S)
         /\ DOMAIN Append(q, x) = DOMAIN q \cup {Len(q) + 1} /\ Len(q) + 1 \notin DOMAIN q
         /\ Append(q, x)[Len(q) + 1] = x
         /\ \A i \in DOMAIN q : Append(q, x)[i] = q[i]
OBVIOUS

LEMMA Tailed ==
  ASSUME NEW S, NEW q \in Seq(S), q # <<>>
  PROVE  /\ Tail(q) \in Seq(S) /\ Head(q) \in S /\ Head(q) = q[1] /\ 1 \in DOMAIN q
         /\ \A i \in DOMAIN Tail(q) : i + 1 \in DOMAIN q /\ i + 1 # 1 /\ Tail(q)[i] = q[i + 1]
         /\ \A i \in DOMAIN q : i = 1 \/ (i - 1 \in DOMAIN Tail(q) /\ Tail(q)[i - 1] = q[i])
         /\ \A i, j \in DOMAIN Tail(q) : i + 1 = j + 1 => i = j
<1> DEFINE t == Tail(q)
<1>1. /\ t \in Seq(S) /\ Len(t) = Len(q) - 1 /\ Len(q) \in Nat \ {0}
      /\ Head(q) \in S /\ Head(q) = q[1]
      /\ \A i \in 1..(Len(q) - 1) : t[i] = q[i + 1]
  OBVIOUS
<1> HIDE DEF t
<1>2. DOMAIN t = 1..(Len(q) - 1) /\ DOMAIN q = 1..Len(q)
  BY <1>1
<1>3. \A i \in DOMAIN t : i + 1 \in DOMAIN q /\ i + 1 # 1 /\ t[i] = q[i + 1]
  BY <1>1, <1>2
<1>4. \A i \in DOMAIN q : i = 1 \/ (i - 1 \in DOMAIN t /\ t[i - 1] = q[i])
  <2> TAKE i \in DOMAIN q
  <2>1. i = 1 \/ (i - 1 \in 1..(Len(q) - 1) /\ (i - 1) + 1 = i)
    BY <1>1, <1>2
  <2> QED
    BY <1>1, <1>2, <2>1
<1> QED
  BY <1>1, <1>2, <1>3, <1>4 DEF t

LEMMA Removed ==
  ASSUME NEW S, NEW q \in Seq(S), NEW k \in DOMAIN q
  PROVE  /\ RemoveAt(q, k) \in Seq(S)
         /\ \A i \in DOMAIN RemoveAt(q, k) : \E j \in DOMAIN q : RemoveAt(q, k)[i] = q[j]
<1> DEFINE f == SubSeq(q, 1, k - 1)
           g == SubSeq(q, k + 1, Len(q))
<1>1. /\ f \in Seq(S) /\ Len(f) = k - 1 /\ \A i \in 1..(k - 1) : f[i] = q[i]
      /\ k \in 1..Len(q) /\ Len(q) \in Nat
  OBVIOUS
<1>2. /\ g \in Seq(S) /\ Len(g) = Len(q) - k /\ \A i \in 1..(Len(q) - k) : g[i] = q[k + i]
  OBVIOUS
<1>3. RemoveAt(q, k) = f \o g
  BY DEF RemoveAt
<1> HIDE DEF f, g
<1>4. f \o g \in Seq(S) /\ Len(f \o g) = Len(q) - 1
  BY <1>1, <1>2
<1>5. \A i \in 1..(Len(q) - 1) : (f \o g)[i] = IF i =< k - 1 THEN q[i] ELSE q[i + 1]
  <2> TAKE i \in 1..(Len(q) - 1)
  <2>1. CASE i =< k - 1
    BY <2>1, <1>1, <1>2
  <2>2. CASE ~(i =< k - 1)
    <3>1. (f \o g)[i] = g[i - (k - 1)] /\ i - (k - 1) \in 1..(Len(q) - k)
      BY <2>2, <1>1, <1>2
    <3>2. g[i - (k - 1)] = q[k + (i - (k - 1))] /\ k + (i - (k - 1)) = i + 1
      BY <3>1, <1>1, <1>2
    <3> QED
      BY <2>2, <3>1, <3>2
  <2> QED
    BY <2>1, <2>2
<1>6. \A i \in 1..(Len(q) - 1) : \E j \in DOMAIN q : (f \o g)[i] = q[j]
  <2> TAKE i \in 1..(Len(q) - 1)
  <2>1. i \in DOMAIN q /\ i + 1 \in DOMAIN q
    BY <1>1
  <2> QED
    BY <2>1, <1>5
<1>7. DOMAIN (f \o g) = 1..(Len(q) - 1)
  BY <1>4, <1>1
<1> QED
  BY <1>3, <1>4, <1>6, <1>7

LEMMA IdsAre == ASSUME ResolverAssumption, NEW h \in Hosts, NEW n \in Nat PROVE QueryId(h, n) \in 0..3
<1>1. hash_host[h] \in 0..3 /\ n % 4 \in 0..3
  BY DEF ResolverAssumption
<1>2. \A x, y \in 0..3 : Xor(x, y) \in 0..3
  BY DEF Xor
<1> QED
  BY <1>1, <1>2 DEF QueryId, NotZero

LEMMA PortsAre ==
  ASSUME ResolverAssumption
  PROVE  /\ Ports \subseteq Nat /\ kFirstEphemeralPort \in Ports /\ IsFiniteSet(Ports)
         /\ \A p \in Ports : kFirstEphemeralPort =< p
<1>1. IsFiniteSet(Ports)
  BY FS_Interval DEF Ports, ResolverAssumption
<1> QED
  BY <1>1 DEF Ports, ResolverAssumption

\* A pipe has an owner and is not NoValue.
LEMMA PipesAre ==
  ASSUME ResolverAssumption, TypeOK
  PROVE  /\ \A a \in Apps : Pipe(a) \in Pipes /\ Pipe(a)[1] = a /\ Pipe(a)[2] = context[a] /\ Pipe(a) # NoValue
         /\ \A a, b \in Apps : Pipe(a) = Pipe(b) => a = b
         /\ \A p \in Pipes : p[1] \in Apps /\ p[2] \in Nat /\ p # NoValue
         /\ \A a \in Apps : \A p \in Pipes : p = Pipe(a) => p[1] = a /\ p[2] = context[a]
         /\ \A p \in Pipes : Open(p) => p = Pipe(p[1]) /\ step[p[1]] # "idle"
         /\ \A a \in Apps : step[a] # "idle" => Open(Pipe(a))
BY DEF ResolverAssumption, TypeOK, Pipes, Pipe, Open

------------------------------------------------------------------------------
(* Types.                                                                  *)

LEMMA InitHolds == ASSUME ResolverAssumption, Init PROVE IInv
<1>1. TypeOK
  <2>1. {p \in Ports : ~Free(p)} = {}
    BY DEF Init, Free
  <2>2. Cardinality({p \in Ports : ~Free(p)}) =< MaxBindings
    BY <2>1, FS_EmptySet DEF ResolverAssumption
  <2>3. kResolveAttempts \in Nat \ {0} /\ MaxContexts \in Nat /\ kFirstEphemeralPort \in Ports
    BY PortsAre DEF ResolverAssumption
  <2>4. /\ step \in [Apps -> {"idle", "bind", "wait", "ask", "listen"}]
        /\ context \in [Apps -> 0..MaxContexts] /\ host \in [Apps -> Hosts \cup {NoValue}]
        /\ candidate \in [Apps -> Ports] /\ attempt \in [Apps -> 0..kResolveAttempts]
        /\ sequence \in [Apps -> Nat] /\ result \in [Apps -> Hosts \cup {NoValue}]
    BY <2>3 DEF Init
  <2>5. /\ inbox \in [Apps -> Seq(Answers \cup Responses)] /\ control \in Seq(Requests)
        /\ bindings \in [Ports -> Pipes \cup {NoValue}] /\ wire \in Seq(Answers)
        /\ given_up \subseteq Pipes /\ twins \in BOOLEAN
    <3>1. \A S : <<>> \in Seq(S)
      OBVIOUS
    <3> QED
      BY <3>1 DEF Init
  <2> QED
    BY <2>2, <2>4, <2>5 DEF TypeOK
<1>2. /\ AttemptsLeft /\ AnswersJust /\ Unmistaken /\ \A a \in Apps : Engaged(a)
  BY DEF Init, AttemptsLeft, AnswersJust, Unmistaken, Engaged
<1>3. Unbinding /\ Past /\ GivenBack
  BY DEF Init, Unbinding, Past, GivenBack, Free
<1> QED
  BY <1>1, <1>2, <1>3 DEF IInv

\* What a step of a program leaves alone, and what it may add.
LEMMA ProgramStep ==
  ASSUME ResolverAssumption, IInv, NEW a \in Apps, App(a)
  PROVE  /\ UNCHANGED <<bindings, wire>>
         /\ \A b \in Apps \ {a} :
              /\ step'[b] = step[b] /\ context'[b] = context[b] /\ host'[b] = host[b]
              /\ candidate'[b] = candidate[b] /\ sequence'[b] = sequence[b] /\ attempt'[b] = attempt[b]
              /\ result'[b] = result[b] /\ inbox'[b] = inbox[b]
         /\ \/ UNCHANGED control
            \/ \E m \in Requests : m.pipe = Pipe(a) /\ control' = Append(control, m)
         /\ given_up \subseteq given_up'
<1>0. TypeOK /\ (step[a] # "idle" => host[a] \in Hosts)
  BY DEF IInv, Engaged
<1>1. Pipe(a) \in Pipes /\ candidate[a] \in Ports
  BY <1>0, PipesAre DEF TypeOK
<1>2. [type |-> "bind", pipe |-> Pipe(a), port |-> candidate[a]] \in Requests
      /\ [type |-> "unbind", pipe |-> Pipe(a), port |-> candidate[a]] \in Requests
  BY <1>1 DEF Requests
<1>3. CASE Begin(a)
  BY <1>0, <1>3 DEF Begin, history, TypeOK
<1>4. CASE Bind(a)
  BY <1>0, <1>2, <1>4 DEF Bind, history, TypeOK
<1>5. CASE Bound(a)
  BY <1>0, <1>5 DEF Bound, Forget, history, TypeOK
<1>6. CASE NotBound(a)
  BY <1>0, <1>6 DEF NotBound, TypeOK
<1>7. CASE Ask(a)
  <2> DEFINE n == sequence[a] + 1
             question == [type |-> "send", pipe |-> Pipe(a), port |-> candidate[a],
                          id |-> QueryId(host[a], n), host |-> host[a]]
  <2>1. host[a] \in Hosts /\ n \in Nat
    BY <1>0, <1>7 DEF Ask, TypeOK
  <2>2. QueryId(host[a], n) \in 0..3
    BY <2>1, IdsAre
  <2>3. question \in Requests /\ question.pipe = Pipe(a)
    BY <1>1, <2>1, <2>2 DEF Requests
  <2>4. control' = Append(control, question) \/ Close(a)
    BY <1>7 DEF Ask
  <2>5. step' = [step EXCEPT ![a] = "listen"] \/ step' = [step EXCEPT ![a] = "idle"]
    BY <1>7 DEF Ask, Close
  <2> HIDE DEF question
  <2> QED
    BY <1>0, <1>2, <1>7, <2>3, <2>4, <2>5 DEF Ask, Close, TypeOK
<1>8. CASE Listen(a)
  BY <1>0, <1>2, <1>8 DEF Listen, Forget, Close, TypeOK
<1>9. CASE NoAnswer(a)
  BY <1>0, <1>2, <1>9 DEF NoAnswer, Close, TypeOK
<1>10. CASE Die(a)
  BY <1>0, <1>10 DEF Die, TypeOK
<1> QED
  BY <1>3, <1>4, <1>5, <1>6, <1>7, <1>8, <1>9, <1>10 DEF App

LEMMA ProgramTypes == ASSUME ResolverAssumption, IInv, NEW a \in Apps, App(a) PROVE TypeOK' /\ AttemptsLeft'
<1>0. TypeOK /\ AttemptsLeft /\ (step[a] # "idle" => host[a] \in Hosts)
  BY DEF IInv, Engaged
<1>a. /\ kResolveAttempts \in Nat \ {0} /\ MaxContexts \in Nat /\ kFirstEphemeralPort \in Ports
      /\ Ports \subseteq Nat
  BY PortsAre DEF ResolverAssumption
<1>b. Pipe(a) \in Pipes
  BY <1>0, PipesAre
<1>1. /\ bindings' \in [Ports -> Pipes \cup {NoValue}] /\ wire' \in Seq(Answers) /\ control' \in Seq(Requests)
  <2>1. UNCHANGED control \/ \E m \in Requests : control' = Append(control, m)
    BY ProgramStep
  <2>2. UNCHANGED <<bindings, wire>>
    BY ProgramStep
  <2>3. \A m \in Requests : Append(control, m) \in Seq(Requests)
    BY <1>0, Appended DEF TypeOK
  <2> QED
    BY <1>0, <2>1, <2>2, <2>3 DEF TypeOK
<1>2. (Cardinality({p \in Ports : ~Free(p)}) =< MaxBindings)'
  BY <1>0, ProgramStep DEF TypeOK, Free
<1>3. /\ step' \in [Apps -> {"idle", "bind", "wait", "ask", "listen"}]
      /\ context' \in [Apps -> 0..MaxContexts] /\ host' \in [Apps -> Hosts \cup {NoValue}]
      /\ candidate' \in [Apps -> Ports] /\ attempt' \in [Apps -> 0..kResolveAttempts]
      /\ sequence' \in [Apps -> Nat] /\ result' \in [Apps -> Hosts \cup {NoValue}]
      /\ inbox' \in [Apps -> Seq(Answers \cup Responses)]
      /\ given_up' \subseteq Pipes /\ twins' \in BOOLEAN /\ AttemptsLeft'
  <2>0. \A q \in Seq(Answers \cup Responses) : q # <<>> => q[1] \in Answers \cup Responses
                                                /\ Tail(q) \in Seq(Answers \cup Responses)
    OBVIOUS
  <2>1. CASE Begin(a)
    BY <1>0, <1>a, <2>1 DEF Begin, history, TypeOK, AttemptsLeft
  <2>2. CASE Bind(a)
    BY <1>0, <2>2 DEF Bind, history, TypeOK, AttemptsLeft
  <2>3. CASE Bound(a)
    BY <1>0, <2>0, <2>3 DEF Bound, Forget, history, TypeOK, AttemptsLeft
  <2>4. CASE NotBound(a)
    BY <1>0, <1>b, <2>4 DEF NotBound, TypeOK, AttemptsLeft
  <2>5. CASE Ask(a)
    <3>1. attempt[a] < kResolveAttempts /\ attempt[a] \in 0..kResolveAttempts
      BY <1>0, <2>5 DEF Ask, AttemptsLeft, TypeOK
    <3>2. /\ step' = [step EXCEPT ![a] = "listen"] \/ step' = [step EXCEPT ![a] = "idle"]
          /\ attempt' = [attempt EXCEPT ![a] = @ + 1] \/ attempt' = attempt
          /\ given_up' = given_up \/ given_up' = given_up \cup {Pipe(a)}
          /\ sequence' = [sequence EXCEPT ![a] = @ + 1] /\ twins' \in BOOLEAN
          /\ UNCHANGED <<context, host, candidate, result, inbox>>
      BY <1>0, <2>5 DEF Ask, Close, TypeOK
    <3>3. attempt[a] + 1 \in 0..kResolveAttempts
      BY <1>a, <3>1
    <3>4. attempt' \in [Apps -> 0..kResolveAttempts] /\ sequence' \in [Apps -> Nat] /\ given_up' \subseteq Pipes
      BY <1>0, <1>b, <3>2, <3>3 DEF TypeOK
    <3>5. AttemptsLeft'
      BY <1>0, <3>2 DEF TypeOK, AttemptsLeft
    <3> QED
      BY <1>0, <3>2, <3>4, <3>5 DEF TypeOK
  <2>6. CASE Listen(a)
    <3>1. IsAnswer(a) => Head1(a).host \in Hosts
      <4>1. inbox[a][1] \in Answers \cup Responses
        BY <1>0, <2>0, <2>6 DEF Listen, TypeOK
      <4> QED
        BY <4>1 DEF IsAnswer, Head1, Answers, Responses
    <3>2. /\ step' = step \/ step' = [step EXCEPT ![a] = "idle"]
          /\ given_up' = given_up \/ given_up' = given_up \cup {Pipe(a)}
          /\ result' = result \/ (IsAnswer(a) /\ result' = [result EXCEPT ![a] = Head1(a).host])
          /\ inbox[a] # <<>> /\ inbox' = [inbox EXCEPT ![a] = Tail(@)]
          /\ UNCHANGED <<context, host, candidate, attempt, sequence, twins>>
      BY <2>6 DEF Listen, Close, Forget
    <3> QED
      BY <1>0, <1>a, <1>b, <2>0, <3>1, <3>2 DEF TypeOK, AttemptsLeft
  <2>7. CASE NoAnswer(a)
    BY <1>0, <1>b, <2>7 DEF NoAnswer, Close, TypeOK, AttemptsLeft
  <2>8. CASE Die(a)
    BY <1>0, <1>a, <1>b, <2>8 DEF Die, TypeOK, AttemptsLeft
  <2> QED
    BY <2>1, <2>2, <2>3, <2>4, <2>5, <2>6, <2>7, <2>8 DEF App
<1> QED
  BY <1>1, <1>2, <1>3 DEF TypeOK

------------------------------------------------------------------------------
(* A program that is engaged: the steps of another, and its own.           *)

\* The messages on their way are the old ones and those of a.
LEMMA ControlGrows ==
  ASSUME ResolverAssumption, IInv, NEW a \in Apps, App(a)
  PROVE  /\ \A i \in DOMAIN control : i \in DOMAIN control' /\ control'[i] = control[i]
         /\ \A i \in DOMAIN control' :
              \/ i \in DOMAIN control /\ control'[i] = control[i]
              \/ i \notin DOMAIN control /\ control'[i].pipe = Pipe(a)
<1>1. control \in Seq(Requests)
  BY DEF IInv, TypeOK
<1>2. UNCHANGED control \/ \E m \in Requests : m.pipe = Pipe(a) /\ control' = Append(control, m)
  BY ProgramStep
<1>3. CASE UNCHANGED control
  BY <1>3
<1>4. ASSUME NEW m \in Requests, m.pipe = Pipe(a), control' = Append(control, m)
      PROVE  /\ \A i \in DOMAIN control : i \in DOMAIN control' /\ control'[i] = control[i]
             /\ \A i \in DOMAIN control' :
                  \/ i \in DOMAIN control /\ control'[i] = control[i]
                  \/ i \notin DOMAIN control /\ control'[i].pipe = Pipe(a)
  BY <1>1, <1>4, Appended
<1> QED
  BY <1>2, <1>3, <1>4

LEMMA OthersEngaged ==
  ASSUME ResolverAssumption, IInv, NEW a \in Apps, App(a), NEW b \in Apps \ {a}
  PROVE  Engaged(b)'
<1>1. /\ step'[b] = step[b] /\ context'[b] = context[b] /\ candidate'[b] = candidate[b]
      /\ inbox'[b] = inbox[b] /\ host'[b] = host[b] /\ bindings' = bindings
  BY ProgramStep
<1>2. Pipe(b)' = Pipe(b) /\ Pipe(b) # Pipe(a)
  BY <1>1, PipesAre DEF Pipe, IInv
<1>3. \A i \in DOMAIN control' :
         \/ i \in DOMAIN control /\ control'[i] = control[i]
         \/ control'[i].pipe # Pipe(b)
  BY <1>2, ControlGrows
<1>4. Engaged(b)
  BY DEF IInv
<1>5. ASSUME step[b] # "idle" PROVE BindsWait(b)'
  BY <1>1, <1>2, <1>3, <1>4, <1>5 DEF Engaged, BindsWait, Mine, Told
<1>6. ASSUME step[b] # "idle" PROVE (ResponsesTrue(b) /\ HoldsOne(b) /\ Holds(b))'
  BY <1>1, <1>2, <1>4, <1>6 DEF Engaged, ResponsesTrue, HoldsOne, Holds, Told
<1>7. ASSUME step[b] # "idle" PROVE NoUnbind(b)'
  BY <1>1, <1>2, <1>3, <1>4, <1>7 DEF Engaged, NoUnbind, Mine
<1> QED
  BY <1>1, <1>4, <1>5, <1>6, <1>7 DEF Engaged

LEMMA BeginEngages ==
  ASSUME ResolverAssumption, IInv, NEW a \in Apps, Begin(a)
  PROVE  Engaged(a)'
<1>0. TypeOK /\ Past
  BY DEF IInv
<1>1. /\ step'[a] = "bind" /\ context'[a] = context[a] + 1 /\ inbox'[a] = <<>> /\ host'[a] \in Hosts
      /\ UNCHANGED <<control, bindings>>
  BY <1>0 DEF Begin, TypeOK
<1>2. Pipe(a)' = <<a, context[a] + 1>> /\ context[a] \in Nat
  BY <1>0, <1>1 DEF Pipe, TypeOK
<1>3. ASSUME NEW i \in DOMAIN control PROVE control[i].pipe # Pipe(a)'
  <2>1. control[i] \in Requests
    BY <1>0 DEF TypeOK
  <2>2. control[i].pipe \in Pipes
    BY <2>1 DEF Requests
  <2>3. control[i].pipe[2] =< context[control[i].pipe[1]] /\ control[i].pipe[2] \in Nat
    BY <1>0, <2>2, PipesAre DEF Past
  <2> QED
    BY <1>2, <2>3
<1>4. ASSUME NEW p \in Ports PROVE bindings[p] # Pipe(a)'
  <2>1. CASE Free(p)
    BY <2>1, <1>0, <1>2 DEF Free, Begin, TypeOK, ResolverAssumption
  <2>2. CASE ~Free(p)
    <3>1. bindings[p] \in Pipes /\ bindings[p][2] =< context[bindings[p][1]] /\ bindings[p][2] \in Nat
      BY <2>2, <1>0, PipesAre DEF Free, Past, TypeOK
    <3> QED
      BY <1>2, <3>1
  <2> QED
    BY <2>1, <2>2
<1> QED
  BY <1>1, <1>3, <1>4 DEF Engaged, BindsWait, ResponsesTrue, HoldsOne, Holds, NoUnbind, Mine

LEMMA BindEngaged ==
  ASSUME ResolverAssumption, IInv, NEW a \in Apps, Bind(a)
  PROVE  Engaged(a)'
<1>0. TypeOK /\ Engaged(a) /\ step[a] = "bind" /\ UNCHANGED <<context, host, candidate, inbox, bindings>>
  BY DEF IInv, Bind
<1>1. Pipe(a)' = Pipe(a)
  BY <1>0 DEF Pipe
<1> DEFINE m == [type |-> "bind", pipe |-> Pipe(a), port |-> candidate[a]]
<1>2. m \in Requests
  BY <1>0, PipesAre DEF Requests, TypeOK
<1>3. CASE control' = Append(control, m) /\ step' = [step EXCEPT ![a] = "wait"]
  <2>1. /\ \A i \in DOMAIN control : ~Mine(a, control[i], "bind") /\ ~Mine(a, control[i], "unbind")
        /\ \A k \in DOMAIN inbox[a] : ~Told(a, inbox[a][k])
        /\ \A p \in Ports : bindings[p] # Pipe(a)
        /\ \A k \in DOMAIN inbox[a] : inbox[a][k].type = "bound" => inbox[a][k].port =< candidate[a]
    BY <1>0 DEF Engaged, BindsWait, ResponsesTrue, HoldsOne, NoUnbind, Told
  <2>2. \A i \in DOMAIN control' : (i \in DOMAIN control /\ control'[i] = control[i])
                                     \/ (i = Len(control) + 1 /\ control'[i] = m)
    BY <1>0, <1>2, <1>3, Appended DEF TypeOK
  <2>3. step'[a] = "wait" /\ candidate[a] \in Ports
    BY <1>0, <1>3 DEF TypeOK
  <2>4. BindsWait(a)'
    BY <1>0, <1>1, <2>1, <2>2, <2>3 DEF BindsWait, Mine, Told
  <2>5. (ResponsesTrue(a) /\ HoldsOne(a) /\ Holds(a))'
    BY <1>0, <1>1, <2>1, <2>3 DEF ResponsesTrue, HoldsOne, Holds, Told
  <2>6. NoUnbind(a)'
    BY <1>1, <2>1, <2>2 DEF NoUnbind, Mine
  <2> QED
    BY <1>0, <2>3, <2>4, <2>5, <2>6 DEF Engaged
<1>4. CASE step' = [step EXCEPT ![a] = "idle"]
  BY <1>0, <1>4 DEF Engaged, TypeOK
<1> QED
  BY <1>3, <1>4 DEF Bind

LEMMA BoundEngaged ==
  ASSUME ResolverAssumption, IInv, NEW a \in Apps, Bound(a)
  PROVE  Engaged(a)'
<1>0. /\ TypeOK /\ Engaged(a) /\ step[a] = "wait" /\ inbox[a] # <<>>
      /\ inbox'[a] = Tail(inbox[a])
      /\ UNCHANGED <<context, host, control, bindings>>
  BY DEF IInv, Bound, Forget, TypeOK
<1>1. Pipe(a)' = Pipe(a)
  BY <1>0 DEF Pipe
<1>2. inbox[a] \in Seq(Answers \cup Responses)
  BY <1>0 DEF TypeOK
<1>3. /\ 1 \in DOMAIN inbox[a] /\ Head1(a) = inbox[a][1]
      /\ \A k \in DOMAIN inbox'[a] : k + 1 \in DOMAIN inbox[a] /\ inbox'[a][k] = inbox[a][k + 1]
      /\ \A k \in DOMAIN inbox[a] : k = 1 \/ (k - 1 \in DOMAIN inbox'[a] /\ inbox'[a][k - 1] = inbox[a][k])
  BY <1>0, <1>2, Tailed DEF Head1
<1>4. IsResponse(a) <=> Told(a, inbox[a][1])
  BY <1>3 DEF IsResponse, Told
<1>5. /\ BindsWait(a) /\ ResponsesTrue(a) /\ HoldsOne(a) /\ Holds(a) /\ NoUnbind(a) /\ host[a] \in Hosts
  BY <1>0 DEF Engaged
<1>6. candidate[a] \in Ports /\ candidate[a] \in Nat
  BY <1>0, PortsAre DEF TypeOK
<1>7. CASE ~IsResponse(a)
  <2>1. step' = step /\ candidate' = candidate
    BY <1>7 DEF Bound
  <2>2. BindsWait(a)' /\ NoUnbind(a)'
    BY <1>0, <1>1, <1>3, <1>5, <2>1 DEF BindsWait, NoUnbind, Mine, Told
  <2>3. ResponsesTrue(a)'
    BY <1>0, <1>1, <1>3, <1>5, <2>1 DEF ResponsesTrue, Told
  <2>4. HoldsOne(a)' /\ Holds(a)'
    <3> SUFFICES ASSUME NEW p \in Ports, bindings[p] = Pipe(a)
                 PROVE  /\ p = candidate[a]
                        /\ \E k \in DOMAIN inbox'[a] :
                             inbox'[a][k].type = "bound" /\ inbox'[a][k].port = candidate[a]
      BY <1>0, <1>1, <2>1 DEF HoldsOne, Holds, Told
    <3>1. p = candidate[a] /\ \E k \in DOMAIN inbox[a] : Told(a, inbox[a][k])
      BY <1>0, <1>5 DEF HoldsOne
    <3>2. PICK k \in DOMAIN inbox[a] : Told(a, inbox[a][k])
      BY <3>1
    <3>3. k # 1
      BY <1>4, <1>7, <3>2
    <3>4. k - 1 \in DOMAIN inbox'[a] /\ inbox'[a][k - 1] = inbox[a][k]
      BY <1>3, <3>3
    <3> QED
      BY <2>1, <3>1, <3>2, <3>4 DEF Told
  <2> QED
    BY <1>0, <2>1, <2>2, <2>3, <2>4 DEF Engaged
<1>8. ASSUME IsResponse(a)
      PROVE  /\ \A i \in DOMAIN control : ~Mine(a, control[i], "bind")
             /\ Head1(a).ok <=> bindings[candidate[a]] = Pipe(a)
  <2>1. 1 \in DOMAIN inbox[a] /\ Told(a, inbox[a][1])
    BY <1>3, <1>4, <1>8
  <2>2. \A i \in DOMAIN control : ~Mine(a, control[i], "bind")
    BY <1>5, <2>1 DEF BindsWait
  <2>3. inbox[a][1].ok <=> bindings[candidate[a]] = Pipe(a)
    BY <1>0, <1>5, <2>1 DEF ResponsesTrue, Told
  <2> QED
    BY <1>3, <2>2, <2>3
<1>9. CASE IsResponse(a) /\ Head1(a).ok
  <2>1. step'[a] = "ask" /\ candidate' = candidate
    BY <1>0, <1>9 DEF Bound, TypeOK
  <2>2. BindsWait(a)' /\ NoUnbind(a)'
    BY <1>0, <1>1, <1>5, <1>8, <1>9 DEF BindsWait, NoUnbind, Mine
  <2>3. ResponsesTrue(a)'
    BY <1>0, <1>3, <1>5, <2>1 DEF ResponsesTrue
  <2>4. HoldsOne(a)' /\ Holds(a)'
    BY <1>0, <1>1, <1>5, <1>8, <1>9, <2>1 DEF HoldsOne, Holds
  <2> QED
    BY <1>0, <1>5, <2>2, <2>3, <2>4 DEF Engaged
<1>10. CASE IsResponse(a) /\ ~Head1(a).ok
  <2>1. \/ step'[a] = "idle"
        \/ step'[a] = "bind" /\ candidate'[a] = candidate[a] + 1
    BY <1>0, <1>10 DEF Bound, TypeOK
  <2>2. ASSUME step'[a] = "bind", candidate'[a] = candidate[a] + 1 PROVE Engaged(a)'
    <3>1. BindsWait(a)' /\ NoUnbind(a)'
      BY <1>0, <1>1, <1>5, <1>8, <1>10 DEF BindsWait, NoUnbind, Mine
    <3>2. ResponsesTrue(a)'
      <4> SUFFICES ASSUME NEW k \in DOMAIN inbox'[a], inbox'[a][k].type = "bound"
                   PROVE  inbox'[a][k].port =< candidate[a] + 1 /\ inbox'[a][k].port # candidate[a] + 1
        BY <2>2 DEF ResponsesTrue
      <4>1. k + 1 \in DOMAIN inbox[a] /\ inbox'[a][k] = inbox[a][k + 1]
        BY <1>3
      <4>2. inbox'[a][k].port =< candidate[a]
        BY <1>5, <4>1 DEF ResponsesTrue
      <4>3. inbox[a][k + 1] \in Answers \cup Responses
        BY <1>2, <4>1
      <4>4. inbox'[a][k].port \in Nat
        BY <4>1, <4>3, PortsAre DEF Answers, Responses
      <4> QED
        BY <1>6, <4>2, <4>4
    <3>3. HoldsOne(a)' /\ Holds(a)'
      BY <1>0, <1>1, <1>5, <1>8, <1>10, <2>2 DEF HoldsOne, Holds
    <3> QED
      BY <1>0, <1>5, <3>1, <3>2, <3>3 DEF Engaged
  <2>3. ASSUME step'[a] = "idle" PROVE Engaged(a)'
    BY <2>3 DEF Engaged
  <2> QED
    BY <2>1, <2>2, <2>3
<1> QED
  BY <1>7, <1>9, <1>10

LEMMA AskEngaged ==
  ASSUME ResolverAssumption, IInv, NEW a \in Apps, Ask(a)
  PROVE  Engaged(a)'
<1>0. /\ TypeOK /\ Engaged(a) /\ step[a] = "ask"
      /\ UNCHANGED <<context, host, candidate, inbox, bindings>>
  BY DEF IInv, Ask
<1>1. Pipe(a)' = Pipe(a)
  BY <1>0 DEF Pipe
<1>2. /\ BindsWait(a) /\ ResponsesTrue(a) /\ HoldsOne(a) /\ Holds(a) /\ NoUnbind(a) /\ host[a] \in Hosts
  BY <1>0 DEF Engaged
<1>3. step'[a] = "idle" \/ step'[a] = "listen"
  BY <1>0 DEF Ask, Close, TypeOK
<1>4. CASE step'[a] = "listen"
  <2> DEFINE m == [type |-> "send", pipe |-> Pipe(a), port |-> candidate[a],
                   id |-> QueryId(host[a], sequence[a] + 1), host |-> host[a]]
  <2>1. control' = Append(control, m)
    BY <1>0, <1>4 DEF Ask, Close, TypeOK
  <2>2. QueryId(host[a], sequence[a] + 1) \in 0..3
    BY <1>0, <1>2, IdsAre DEF TypeOK
  <2>3. m \in Requests
    BY <1>0, <1>2, <2>2, PipesAre DEF Requests, TypeOK
  <2>4. m.type = "send"
    OBVIOUS
  <2> HIDE DEF m
  <2>5. \A i \in DOMAIN control' : (i \in DOMAIN control /\ control'[i] = control[i]) \/ control'[i].type = "send"
    BY <1>0, <2>1, <2>3, <2>4, Appended DEF TypeOK
  <2>6. BindsWait(a)' /\ NoUnbind(a)'
    BY <1>0, <1>1, <1>2, <2>5 DEF BindsWait, NoUnbind, Mine
  <2>7. (ResponsesTrue(a) /\ HoldsOne(a) /\ Holds(a))'
    BY <1>0, <1>1, <1>2, <1>4 DEF ResponsesTrue, HoldsOne, Holds
  <2> QED
    BY <1>0, <1>2, <2>6, <2>7 DEF Engaged
<1> QED
  BY <1>3, <1>4 DEF Engaged

LEMMA ListenEngaged ==
  ASSUME ResolverAssumption, IInv, NEW a \in Apps, Listen(a) \/ NoAnswer(a)
  PROVE  Engaged(a)'
<1>0. /\ TypeOK /\ Engaged(a) /\ step[a] = "listen"
      /\ UNCHANGED <<context, host, candidate, bindings>>
  BY DEF IInv, Listen, NoAnswer
<1>1. Pipe(a)' = Pipe(a)
  BY <1>0 DEF Pipe
<1>2. /\ BindsWait(a) /\ ResponsesTrue(a) /\ HoldsOne(a) /\ Holds(a) /\ NoUnbind(a) /\ host[a] \in Hosts
  BY <1>0 DEF Engaged
<1>3. \/ step'[a] = "idle"
      \/ step'[a] \in {"ask", "listen"} /\ UNCHANGED control
  BY <1>0 DEF Listen, NoAnswer, Close, TypeOK
<1>4. inbox'[a] = inbox[a] \/ (inbox[a] # <<>> /\ inbox'[a] = Tail(inbox[a]))
  BY <1>0 DEF Listen, NoAnswer, Forget, TypeOK
<1>5. \A k \in DOMAIN inbox'[a] : \E j \in DOMAIN inbox[a] : inbox'[a][k] = inbox[a][j]
  <2>1. inbox[a] \in Seq(Answers \cup Responses)
    BY <1>0 DEF TypeOK
  <2>2. CASE inbox'[a] = inbox[a]
    BY <2>2
  <2>3. CASE inbox[a] # <<>> /\ inbox'[a] = Tail(inbox[a])
    <3>1. \A k \in DOMAIN inbox'[a] : k + 1 \in DOMAIN inbox[a] /\ inbox'[a][k] = inbox[a][k + 1]
      BY <2>1, <2>3, Tailed
    <3> QED
      BY <3>1
  <2> QED
    BY <1>4, <2>2, <2>3
<1>6. CASE step'[a] \in {"ask", "listen"} /\ UNCHANGED control
  <2>1. BindsWait(a)' /\ NoUnbind(a)'
    BY <1>0, <1>1, <1>2, <1>6 DEF BindsWait, NoUnbind, Mine
  <2>2. ResponsesTrue(a)'
    BY <1>0, <1>2, <1>5, <1>6 DEF ResponsesTrue
  <2>3. (HoldsOne(a) /\ Holds(a))'
    BY <1>0, <1>1, <1>2, <1>6 DEF HoldsOne, Holds
  <2> QED
    BY <1>0, <1>2, <2>1, <2>2, <2>3 DEF Engaged
<1> QED
  BY <1>3, <1>6 DEF Engaged

LEMMA ProgramEngaged ==
  ASSUME ResolverAssumption, IInv, NEW a \in Apps, App(a)
  PROVE  \A b \in Apps : Engaged(b)'
<1>1. step'[a] = "idle" => Engaged(a)'
  BY DEF Engaged
<1>2. NotBound(a) \/ Die(a) => step'[a] = "idle"
  BY DEF IInv, TypeOK, NotBound, Die
<1>3. Engaged(a)'
  BY <1>1, <1>2, BeginEngages, BindEngaged, BoundEngaged, AskEngaged, ListenEngaged DEF App
<1> QED
  BY <1>3, OthersEngaged

------------------------------------------------------------------------------
(* What a step of a program does to ports and answers.                     *)

LEMMA ProgramPast == ASSUME ResolverAssumption, IInv, NEW a \in Apps, App(a) PROVE Past'
<1>0. TypeOK /\ Past /\ TypeOK'
  BY ProgramTypes DEF IInv
<1>1. \A b \in Apps : context[b] \in Nat /\ context'[b] \in Nat /\ context[b] =< context'[b]
  <2> TAKE b \in Apps
  <2>1. context[b] \in 0..MaxContexts /\ context'[b] \in 0..MaxContexts /\ MaxContexts \in Nat
    BY <1>0 DEF TypeOK, ResolverAssumption
  <2>2. CASE b # a
    BY <2>1, <2>2, ProgramStep
  <2>3. CASE b = a
    <3>1. context'[a] = context[a] \/ context'[a] = context[a] + 1 \/ context'[a] = MaxContexts
      BY <1>0 DEF App, Begin, Bind, Bound, NotBound, Ask, Listen, NoAnswer, Die, TypeOK
    <3> QED
      BY <2>1, <2>3, <3>1
  <2> QED
    BY <2>2, <2>3
<1>2. ASSUME NEW q \in Pipes, q[2] =< context[q[1]] PROVE q[2] =< context'[q[1]]
  <2>1. q[1] \in Apps /\ q[2] \in Nat
    BY <1>0, PipesAre
  <2> QED
    BY <1>1, <1>2, <2>1
<1>3. ASSUME NEW i \in DOMAIN control' PROVE control'[i].pipe[2] =< context'[control'[i].pipe[1]]
  <2>1. CASE i \in DOMAIN control /\ control'[i] = control[i]
    <3>1. control[i] \in Requests
      BY <1>0, <2>1 DEF TypeOK
    <3>2. control[i].pipe \in Pipes
      BY <3>1 DEF Requests
    <3> QED
      BY <1>0, <1>2, <2>1, <3>2 DEF Past
  <2>2. CASE control'[i].pipe = Pipe(a)
    BY <1>0, <1>1, <2>2, PipesAre
  <2> QED
    BY <2>1, <2>2, ControlGrows
<1>4. ASSUME NEW p \in Ports, bindings[p] # NoValue PROVE bindings[p][2] =< context'[bindings[p][1]]
  <2>1. bindings[p] \in Pipes /\ bindings[p][2] =< context[bindings[p][1]]
    BY <1>0, <1>4 DEF Past, Free, TypeOK
  <2> QED
    BY <1>2, <2>1
<1> QED
  BY <1>3, <1>4, ProgramStep DEF Past, Free

\* What a adds to the messages, and when.
LEMMA WhatIsAdded ==
  ASSUME ResolverAssumption, IInv, NEW a \in Apps, App(a), NEW i \in DOMAIN control', i \notin DOMAIN control
  PROVE  /\ control'[i].pipe = Pipe(a) /\ control'[i].port = candidate[a]
         /\ \A j \in DOMAIN control' : j \notin DOMAIN control => j = i
         /\ \/ control'[i].type = "bind"
            \/ control'[i].type = "unbind" /\ step[a] \in {"ask", "listen"}
            \/ /\ Ask(a) /\ control'[i].type = "send" /\ control'[i].host = host[a]
               /\ step'[a] = "listen" /\ control'[i].id = QueryId(host[a], sequence[a] + 1)
<1>0. TypeOK /\ (step[a] # "idle" => host[a] \in Hosts)
  BY DEF IInv, Engaged
<1>1. ASSUME NEW m \in Requests, control' = Append(control, m)
      PROVE  control'[i] = m /\ \A j \in DOMAIN control' : j \notin DOMAIN control => j = i
  BY <1>0, <1>1, Appended DEF TypeOK
<1> DEFINE bind == [type |-> "bind", pipe |-> Pipe(a), port |-> candidate[a]]
           unbind == [type |-> "unbind", pipe |-> Pipe(a), port |-> candidate[a]]
           question == [type |-> "send", pipe |-> Pipe(a), port |-> candidate[a],
                        id |-> QueryId(host[a], sequence[a] + 1), host |-> host[a]]
<1>2. bind \in Requests /\ unbind \in Requests
  BY <1>0, PipesAre DEF Requests, TypeOK
<1>3. \/ control' = Append(control, bind)
      \/ control' = Append(control, unbind) /\ step[a] \in {"ask", "listen"}
      \/ Ask(a) /\ control' = Append(control, question) /\ step'[a] = "listen"
  <2>1. control' # control
    OBVIOUS
  <2>2. CASE Bind(a)
    BY <2>1, <2>2 DEF Bind
  <2>3. CASE Ask(a)
    BY <1>0, <2>1, <2>3 DEF Ask, Close, TypeOK
  <2>4. CASE Listen(a) \/ NoAnswer(a)
    BY <2>1, <2>4 DEF Listen, NoAnswer, Close
  <2> QED
    BY <2>1, <2>2, <2>3, <2>4 DEF App, Begin, Bound, NotBound, Die, history
<1>4. CASE control' = Append(control, bind)
  BY <1>1, <1>2, <1>4
<1>5. CASE control' = Append(control, unbind) /\ step[a] \in {"ask", "listen"}
  BY <1>1, <1>2, <1>5
<1>6. CASE Ask(a) /\ control' = Append(control, question) /\ step'[a] = "listen"
  <2>1. step[a] = "ask" /\ host[a] \in Hosts
    BY <1>0, <1>6 DEF Ask
  <2>2. QueryId(host[a], sequence[a] + 1) \in 0..3
    BY <1>0, <2>1, IdsAre DEF TypeOK
  <2>3. question \in Requests
    BY <1>0, <2>1, <2>2, PipesAre DEF Requests, TypeOK
  <2>4. control'[i] = question /\ \A j \in DOMAIN control' : j \notin DOMAIN control => j = i
    BY <1>1, <1>6, <2>3
  <2> QED
    BY <1>6, <2>4
<1> QED
  BY <1>3, <1>4, <1>5, <1>6

LEMMA ProgramUnbinding == ASSUME ResolverAssumption, IInv, NEW a \in Apps, App(a) PROVE Unbinding'
<1>0. Unbinding /\ Engaged(a) /\ bindings' = bindings
  BY ProgramStep DEF IInv
<1>1. ASSUME NEW i \in DOMAIN control', control'[i].type = "unbind", i \notin DOMAIN control
      PROVE  /\ bindings[control'[i].port] = control'[i].pipe
             /\ \A j \in DOMAIN control : control[j].type = "unbind" => control[j].port # control'[i].port
  <2>1. step[a] \in {"ask", "listen"} /\ control'[i].port = candidate[a] /\ control'[i].pipe = Pipe(a)
    BY <1>1, WhatIsAdded
  <2>2. bindings[candidate[a]] = Pipe(a) /\ NoUnbind(a)
    BY <1>0, <2>1 DEF Engaged, Holds
  <2> QED
    BY <1>0, <2>1, <2>2 DEF Unbinding, NoUnbind, Mine
<1>2. ASSUME NEW i \in DOMAIN control', control'[i].type = "unbind"
      PROVE  /\ bindings[control'[i].port] = control'[i].pipe
             /\ \A j \in DOMAIN control' :
                  control'[j].type = "unbind" /\ control'[j].port = control'[i].port => j = i
  <2>1. CASE i \notin DOMAIN control
    BY <1>1, <1>2, <2>1, ControlGrows, WhatIsAdded
  <2>2. CASE i \in DOMAIN control
    <3>1. control'[i] = control[i]
      BY <2>2, ControlGrows
    <3> QED
      BY <1>0, <1>1, <1>2, <2>2, <3>1, ControlGrows DEF Unbinding
  <2> QED
    BY <2>1, <2>2
<1> QED
  BY <1>0, <1>2 DEF Unbinding

LEMMA ProgramGivesBack == ASSUME ResolverAssumption, IInv, NEW a \in Apps, App(a) PROVE GivenBack'
<1>0. TypeOK /\ GivenBack /\ Engaged(a) /\ bindings' = bindings /\ given_up \subseteq given_up'
  BY ProgramStep DEF IInv
<1> SUFFICES ASSUME NEW p \in Ports, bindings[p] # NoValue, ~Open(bindings[p])'
             PROVE  \/ bindings[p] \in given_up'
                    \/ \E i \in DOMAIN control' :
                         /\ control'[i].type = "unbind" /\ control'[i].pipe = bindings[p]
                         /\ control'[i].port = p
  BY <1>0 DEF GivenBack, Free
<1>1. CASE ~Open(bindings[p])
  <2>1. \/ bindings[p] \in given_up
        \/ \E i \in DOMAIN control :
             control[i].type = "unbind" /\ control[i].pipe = bindings[p] /\ control[i].port = p
    BY <1>0, <1>1 DEF GivenBack, Free
  <2> QED
    BY <1>0, <2>1, ControlGrows
<1>2. CASE Open(bindings[p])
  <2>1. bindings[p] \in Pipes
    BY <1>0 DEF TypeOK
  <2>2. PICK b \in Apps : bindings[p] = Pipe(b) /\ step[b] # "idle"
    BY <1>0, <1>2, <2>1, PipesAre
  <2>3. b = a
    BY <1>2, <2>2, ProgramStep DEF Open, Pipe
  <2>4. HoldsOne(a) /\ Holds(a) /\ p = candidate[a] /\ step[a] \in {"wait", "ask", "listen"}
    BY <1>0, <2>2, <2>3 DEF Engaged, HoldsOne
  <2>5. step'[a] = "idle" \/ context'[a] # context[a]
    <3>1. bindings'[p] = Pipe(a) /\ Pipe(a) = <<a, context[a]>> /\ step[a] # "idle"
      BY <1>0, <2>2, <2>3 DEF Pipe
    <3>2. ~(step'[a] # "idle" /\ <<a, context'[a]>> = Pipe(a))
      BY <3>1 DEF Open, Pipe
    <3> QED
      BY <3>1, <3>2
  <2>6. CASE Pipe(a) \in given_up'
    BY <2>2, <2>3, <2>6
  <2>7. CASE control' = Append(control, [type |-> "unbind", pipe |-> Pipe(a), port |-> candidate[a]])
    <3>1. [type |-> "unbind", pipe |-> Pipe(a), port |-> candidate[a]] \in Requests
      BY <1>0, PipesAre DEF Requests, TypeOK
    <3>2. control'[Len(control) + 1] = [type |-> "unbind", pipe |-> Pipe(a), port |-> candidate[a]]
          /\ Len(control) + 1 \in DOMAIN control'
      BY <1>0, <2>7, <3>1, Appended DEF TypeOK
    <3> QED
      BY <2>2, <2>3, <2>4, <3>2
  <2>8. CASE Bound(a) /\ step'[a] = "idle"
    <3>1. IsResponse(a) /\ ~Head1(a).ok /\ inbox[a] # <<>>
      BY <1>0, <2>8 DEF Bound, TypeOK
    <3>2. inbox[a] \in Seq(Answers \cup Responses)
      BY <1>0 DEF TypeOK
    <3>3. 1 \in DOMAIN inbox[a] /\ Told(a, inbox[a][1]) /\ ~inbox[a][1].ok
      BY <3>1, <3>2, Tailed DEF IsResponse, Told, Head1
    <3>4. bindings[candidate[a]] # Pipe(a)
      BY <1>0, <2>8, <3>3 DEF Engaged, ResponsesTrue, Bound, Told
    <3> QED
      BY <2>2, <2>3, <2>4, <3>4
  <2>9. \/ Pipe(a) \in given_up'
        \/ control' = Append(control, [type |-> "unbind", pipe |-> Pipe(a), port |-> candidate[a]])
        \/ Bound(a) /\ step'[a] = "idle"
    <3>1. CASE NotBound(a) \/ Die(a)
      BY <3>1 DEF NotBound, Die
    <3>2. CASE Ask(a) \/ Listen(a) \/ NoAnswer(a)
      BY <1>0, <2>4, <2>5, <3>2 DEF Ask, Listen, NoAnswer, Close, TypeOK
    <3>3. CASE Bound(a)
      BY <2>5, <3>3 DEF Bound
    <3> QED
      BY <2>4, <3>1, <3>2, <3>3 DEF App, Begin, Bind
  <2> QED
    BY <2>6, <2>7, <2>8, <2>9
<1> QED
  BY <1>1, <1>2

LEMMA ProgramUnmistaken == ASSUME ResolverAssumption, IInv, NEW a \in Apps, App(a) PROVE Unmistaken'
<1>0. /\ TypeOK /\ TypeOK' /\ Unmistaken /\ Engaged(a) /\ bindings' = bindings /\ wire' = wire
      /\ \A b \in Apps : Engaged(b)
  BY ProgramStep, ProgramTypes DEF IInv
<1>1. twins => twins'
  BY <1>0 DEF App, Begin, Bind, Bound, NotBound, Ask, Listen, NoAnswer, Die, history, TypeOK
<1> SUFFICES ASSUME ~twins', NEW b \in Apps, step'[b] = "listen"
             PROVE  /\ \A i \in DOMAIN control' : ~Mistaken(b, control[i])'
                    /\ \A i \in DOMAIN wire' : ~Mistaken(b, wire[i])'
                    /\ \A i \in DOMAIN inbox'[b] : ~Mistaken(b, inbox[b][i])'
  BY DEF Unmistaken
<1>2. ~twins
  BY <1>1
<1>3. CASE b # a
  <2>1. /\ step[b] = "listen" /\ host'[b] = host[b] /\ candidate'[b] = candidate[b]
        /\ sequence'[b] = sequence[b] /\ inbox'[b] = inbox[b]
    BY <1>3, ProgramStep
  <2>2. /\ \A i \in DOMAIN control : ~Mistaken(b, control[i])
        /\ \A i \in DOMAIN wire : ~Mistaken(b, wire[i])
        /\ \A i \in DOMAIN inbox[b] : ~Mistaken(b, inbox[b][i])
    BY <1>0, <1>2, <2>1 DEF Unmistaken
  <2>3. ASSUME NEW i \in DOMAIN control' PROVE ~Mistaken(b, control[i])'
    <3>1. CASE i \in DOMAIN control
      BY <2>1, <2>2, <3>1, ControlGrows DEF Mistaken
    <3>2. CASE i \notin DOMAIN control
      <4>1. control'[i].type \in {"bind", "unbind"} \/ (Ask(a) /\ control'[i].port = candidate[a])
        BY <3>2, WhatIsAdded
      <4>2. Ask(a) => candidate[a] # candidate[b]
        BY <1>0, <1>3, <2>1, PipesAre DEF Ask, Engaged, Holds
      <4> QED
        BY <2>1, <4>1, <4>2 DEF Mistaken
    <3> QED
      BY <3>1, <3>2
  <2> QED
    BY <1>0, <2>1, <2>2, <2>3 DEF Mistaken
<1>4. CASE b = a /\ ~Ask(a)
  <2>1. Listen(a) /\ step[a] = "listen"
    BY <1>0, <1>4 DEF App, Begin, Bind, Bound, NotBound, Listen, NoAnswer, Close, Die, TypeOK
  <2>2. /\ control' = control /\ inbox[a] # <<>> /\ inbox'[a] = Tail(inbox[a])
        /\ host'[a] = host[a] /\ candidate'[a] = candidate[a] /\ sequence'[a] = sequence[a]
    BY <1>0, <1>4, <2>1 DEF Listen, Forget, Close, TypeOK
  <2>3. /\ \A i \in DOMAIN control : ~Mistaken(a, control[i])
        /\ \A i \in DOMAIN wire : ~Mistaken(a, wire[i])
        /\ \A i \in DOMAIN inbox[a] : ~Mistaken(a, inbox[a][i])
    BY <1>0, <1>2, <2>1 DEF Unmistaken
  <2>4. inbox[a] \in Seq(Answers \cup Responses)
    BY <1>0 DEF TypeOK
  <2>5. \A k \in DOMAIN inbox'[a] : k + 1 \in DOMAIN inbox[a] /\ inbox'[a][k] = inbox[a][k + 1]
    BY <2>2, <2>4, Tailed
  <2> QED
    BY <1>0, <1>4, <2>2, <2>3, <2>5 DEF Mistaken
<1>5. CASE b = a /\ Ask(a)
  <2> DEFINE Twin(m) == /\ m.port = candidate[a] /\ m.type \in {"send", "answer"}
                        /\ m.id = QueryId(host[a], sequence[a] + 1) /\ m.host # host[a]
  <2>1. \A m \in Range(wire) \cup Range(control) \cup Range(inbox[a]) : ~Twin(m)
    BY <1>5 DEF Ask
  <2>2. /\ inbox'[a] = inbox[a] /\ host'[a] = host[a] /\ candidate'[a] = candidate[a]
        /\ sequence'[a] = sequence[a] + 1
    BY <1>0, <1>5 DEF Ask, TypeOK
  <2>3. /\ \A i \in DOMAIN wire : ~Twin(wire[i])
        /\ \A i \in DOMAIN control : ~Twin(control[i])
        /\ \A i \in DOMAIN inbox[a] : ~Twin(inbox[a][i])
    BY <2>1 DEF Range
  <2>4. ASSUME NEW i \in DOMAIN control' PROVE ~Twin(control'[i])
    <3>1. CASE i \in DOMAIN control
      BY <2>3, <3>1, ControlGrows
    <3>2. CASE i \notin DOMAIN control
      BY <3>2, WhatIsAdded
    <3> QED
      BY <3>1, <3>2
  <2>5. /\ \A i \in DOMAIN wire : ~Twin(wire'[i])
        /\ \A i \in DOMAIN inbox[a] : ~Twin(inbox'[a][i])
    BY <1>0, <2>2, <2>3
  <2>6. \A m : m.type \in {"send", "answer"} /\ m.port = candidate'[a]
               /\ m.id = QueryId(host[a], sequence[a])' /\ m.host # host'[a] => Twin(m)
    BY <2>2 DEF QueryId
  <2> HIDE DEF Twin
  <2> QED
    BY <1>0, <1>5, <2>2, <2>4, <2>5, <2>6 DEF Mistaken
<1> QED
  BY <1>3, <1>4, <1>5

LEMMA ProgramAnswers == ASSUME ResolverAssumption, IInv, NEW a \in Apps, App(a) PROVE AnswersJust'
<1>0. TypeOK /\ AnswersJust /\ Unmistaken
  BY DEF IInv
<1>1. twins => twins'
  BY <1>0 DEF App, Begin, Bind, Bound, NotBound, Ask, Listen, NoAnswer, Die, history, TypeOK
<1>2. \A b \in Apps \ {a} : result'[b] = result[b] /\ host'[b] = host[b]
  BY ProgramStep
<1>3. result'[a] = NoValue \/ (result'[a] = result[a] /\ host'[a] = host[a]) \/ result'[a] = host'[a] \/ twins'
  <2>1. CASE Listen(a)
    <3>1. IsAnswer(a) => Head1(a).host = host[a] \/ twins
      <4>1. inbox[a] \in Seq(Answers \cup Responses) /\ inbox[a] # <<>> /\ step[a] = "listen"
        BY <1>0, <2>1 DEF Listen, TypeOK
      <4>2. 1 \in DOMAIN inbox[a]
        BY <4>1, Tailed
      <4>3. twins \/ ~Mistaken(a, inbox[a][1])
        BY <1>0, <4>1, <4>2 DEF Unmistaken
      <4> QED
        BY <4>3 DEF IsAnswer, Head1, Mistaken
    <3> QED
      BY <1>0, <1>1, <2>1, <3>1 DEF Listen, TypeOK
  <2>2. CASE Begin(a)
    BY <1>0, <2>2 DEF Begin, TypeOK
  <2>3. CASE Bind(a) \/ Bound(a) \/ NotBound(a) \/ Ask(a) \/ NoAnswer(a) \/ Die(a)
    BY <2>3 DEF Bind, Bound, NotBound, Ask, NoAnswer, Die
  <2> QED
    BY <2>1, <2>2, <2>3 DEF App
<1> QED
  BY <1>0, <1>1, <1>2, <1>3 DEF AnswersJust

------------------------------------------------------------------------------
(* What networkd does.                                                     *)

\* A message to a pipe comes to its owner, if the pipe is open.
LEMMA Delivered ==
  ASSUME ResolverAssumption, TypeOK, NEW q \in Pipes, NEW m \in Answers \cup Responses, Tell(q, m)
  PROVE  /\ inbox' \in [Apps -> Seq(Answers \cup Responses)]
         /\ \A a \in Apps : (step[a] # "idle" /\ q = Pipe(a)) \/ inbox'[a] = inbox[a]
         /\ \A a \in Apps :
              /\ \A k \in DOMAIN inbox[a] : k \in DOMAIN inbox'[a] /\ inbox'[a][k] = inbox[a][k]
              /\ \A k \in DOMAIN inbox'[a] :
                   (k \in DOMAIN inbox[a] /\ inbox'[a][k] = inbox[a][k]) \/ inbox'[a][k] = m
         /\ \A a \in Apps : step[a] # "idle" /\ q = Pipe(a) =>
              Len(inbox[a]) + 1 \in DOMAIN inbox'[a] /\ inbox'[a][Len(inbox[a]) + 1] = m
<1>1. q[1] \in Apps /\ \A a \in Apps : q = Pipe(a) => q[1] = a
  BY PipesAre
<1>2. \A a \in Apps : inbox[a] \in Seq(Answers \cup Responses)
  BY DEF TypeOK
<1>3. CASE ~Open(q)
  <2>1. inbox' = inbox
    BY <1>3 DEF Tell
  <2>2. \A a \in Apps : ~(step[a] # "idle" /\ q = Pipe(a))
    BY <1>3, PipesAre DEF Open
  <2>3. inbox' \in [Apps -> Seq(Answers \cup Responses)] /\ \A a \in Apps : inbox'[a] = inbox[a]
    BY <2>1 DEF TypeOK
  <2> QED
    BY <2>2, <2>3, Zenon
<1>4. CASE Open(q)
  <2>1. inbox' = [inbox EXCEPT ![q[1]] = Append(@, m)] /\ q = Pipe(q[1]) /\ step[q[1]] # "idle"
    BY <1>4 DEF Tell, Open
  <2>2. \A a \in Apps : inbox'[a] = IF a = q[1] THEN Append(inbox[a], m) ELSE inbox[a]
    BY <1>1, <2>1 DEF TypeOK
  <2>3. inbox' \in [Apps -> Seq(Answers \cup Responses)]
    BY <1>1, <1>2, <2>1, Appended DEF TypeOK
  <2>4. \A a \in Apps : (step[a] # "idle" /\ q = Pipe(a)) \/ inbox'[a] = inbox[a]
    BY <2>1, <2>2
  <2>a. \A a \in Apps :
          LET s == Append(inbox[a], m) IN
          /\ DOMAIN s = DOMAIN inbox[a] \cup {Len(inbox[a]) + 1} /\ s[Len(inbox[a]) + 1] = m
          /\ \A k \in DOMAIN inbox[a] : s[k] = inbox[a][k]
    BY <1>2, Appended
  <2>5. \A a \in Apps :
          /\ \A k \in DOMAIN inbox[a] : k \in DOMAIN inbox'[a] /\ inbox'[a][k] = inbox[a][k]
          /\ \A k \in DOMAIN inbox'[a] :
               (k \in DOMAIN inbox[a] /\ inbox'[a][k] = inbox[a][k]) \/ inbox'[a][k] = m
    <3> TAKE a \in Apps
    <3>1. CASE a = q[1]
      <4>1. inbox'[a] = Append(inbox[a], m)
        BY <2>2, <3>1
      <4> QED
        BY <2>a, <4>1
    <3>2. CASE a # q[1]
      BY <2>2, <3>2
    <3> QED
      BY <3>1, <3>2
  <2>6. \A a \in Apps : q = Pipe(a) =>
          Len(inbox[a]) + 1 \in DOMAIN inbox'[a] /\ inbox'[a][Len(inbox[a]) + 1] = m
    <3> TAKE a \in Apps
    <3> HAVE q = Pipe(a)
    <3>1. inbox'[a] = Append(inbox[a], m)
      BY <1>1, <2>2
    <3> QED
      BY <2>a, <3>1
  <2> QED
    BY <2>3, <2>4, <2>5, <2>6
<1> QED
  BY <1>3, <1>4

\* A request that is served, and what is bound behind it.
LEMMA Served ==
  ASSUME ResolverAssumption, IInv, Serve
  PROVE  LET r == control[1] IN
         /\ r \in Requests /\ r.pipe \in Pipes /\ r.port \in Ports /\ UNCHANGED <<program, history>>
         /\ 1 \in DOMAIN control /\ control' \in Seq(Requests)
         /\ \A i \in DOMAIN control' : i + 1 \in DOMAIN control /\ control'[i] = control[i + 1]
         /\ \A i \in DOMAIN control : i = 1 \/ (i - 1 \in DOMAIN control' /\ control'[i - 1] = control[i])
         /\ \A i, j \in DOMAIN control' : i + 1 = j + 1 => i = j
         /\ \A i \in DOMAIN control' : i + 1 # 1
         /\ \/ UNCHANGED <<bindings, inbox>> /\ r.type # "unbind"
            \/ /\ r.type = "bind" /\ ~Free(r.port) /\ UNCHANGED <<bindings, wire>>
               /\ Tell(r.pipe, [type |-> "bound", port |-> r.port, ok |-> FALSE])
            \/ /\ r.type = "bind" /\ Free(r.port) /\ FreeSlot /\ Open(r.pipe) /\ UNCHANGED wire
               /\ bindings' = [bindings EXCEPT ![r.port] = r.pipe]
               /\ Tell(r.pipe, [type |-> "bound", port |-> r.port, ok |-> TRUE])
            \/ /\ r.type = "unbind" /\ bindings' = [bindings EXCEPT ![r.port] = NoValue]
               /\ UNCHANGED <<inbox, wire>>
         /\ \/ UNCHANGED wire
            \/ /\ r.type = "send" /\ UNCHANGED <<bindings, inbox>>
               /\ \E good \in BOOLEAN :
                    wire' = Append(wire, [type |-> "answer", port |-> r.port, id |-> r.id,
                                          host |-> r.host, good |-> good])
<1> DEFINE r == control[1]
<1>0. TypeOK /\ control \in Seq(Requests) /\ control # <<>> /\ control' = Tail(control)
      /\ UNCHANGED <<program, history>>
  BY DEF IInv, TypeOK, Serve
<1>1. /\ r \in Requests /\ r = Head(control) /\ 1 \in DOMAIN control /\ control' \in Seq(Requests)
      /\ \A i \in DOMAIN control' : i + 1 \in DOMAIN control /\ i + 1 # 1 /\ control'[i] = control[i + 1]
      /\ \A i \in DOMAIN control : i = 1 \/ (i - 1 \in DOMAIN control' /\ control'[i - 1] = control[i])
      /\ \A i, j \in DOMAIN control' : i + 1 = j + 1 => i = j
  BY <1>0, Tailed
<1>2. r.pipe \in Pipes /\ r.port \in Ports /\ r.type \in {"bind", "unbind", "send"}
  BY <1>1 DEF Requests
<1>3. CASE r.type = "bind"
  BY <1>0, <1>1, <1>2, <1>3 DEF Serve, HandleBind
<1>4. CASE r.type = "unbind"
  BY <1>0, <1>1, <1>2, <1>4 DEF Serve, HandleUnbind
<1>5. CASE r.type = "send"
  BY <1>0, <1>1, <1>2, <1>5 DEF Serve
<1> QED
  BY <1>2, <1>3, <1>4, <1>5

\* The set of ports that are bound.
BoundPorts == {p \in Ports : ~Free(p)}

LEMMA ServeTypes == ASSUME ResolverAssumption, IInv, Serve PROVE TypeOK' /\ AttemptsLeft'
<1>0. TypeOK /\ AttemptsLeft /\ UNCHANGED <<program, history>> /\ control' \in Seq(Requests)
  BY Served DEF IInv
<1> DEFINE r == control[1]
<1>1. r \in Requests /\ r.pipe \in Pipes /\ r.port \in Ports
  BY Served
<1>2. wire' \in Seq(Answers)
  <2>1. CASE UNCHANGED wire
    BY <1>0, <2>1 DEF TypeOK
  <2>2. ASSUME NEW good \in BOOLEAN, r.type = "send",
               wire' = Append(wire, [type |-> "answer", port |-> r.port, id |-> r.id,
                                     host |-> r.host, good |-> good])
        PROVE  wire' \in Seq(Answers)
    <3>1. r.id \in 0..3 /\ r.host \in Hosts
      BY <1>1, <2>2 DEF Requests
    <3>2. [type |-> "answer", port |-> r.port, id |-> r.id, host |-> r.host, good |-> good] \in Answers
      BY <1>1, <3>1 DEF Answers
    <3> QED
      BY <1>0, <2>2, <3>2, Appended DEF TypeOK
  <2> QED
    BY <2>1, <2>2, Served
<1>3. /\ bindings' \in [Ports -> Pipes \cup {NoValue}]
      /\ \/ bindings' = bindings
         \/ FreeSlot /\ bindings' = [bindings EXCEPT ![r.port] = r.pipe]
         \/ bindings' = [bindings EXCEPT ![r.port] = NoValue]
  BY <1>0, <1>1, Served DEF TypeOK
<1>4. inbox' \in [Apps -> Seq(Answers \cup Responses)]
  <2>1. \A ok \in BOOLEAN : [type |-> "bound", port |-> r.port, ok |-> ok] \in Answers \cup Responses
    BY <1>1 DEF Responses
  <2>2. UNCHANGED inbox \/ \E ok \in BOOLEAN : Tell(r.pipe, [type |-> "bound", port |-> r.port, ok |-> ok])
    BY Served
  <2> QED
    BY <1>0, <1>1, <2>1, <2>2, Delivered DEF TypeOK
<1>5. Cardinality(BoundPorts') =< MaxBindings
  <2>1. BoundPorts' = {p \in Ports : bindings'[p] # NoValue} /\ BoundPorts = {p \in Ports : bindings[p] # NoValue}
    BY DEF BoundPorts, Free
  <2>2. IsFiniteSet(BoundPorts) /\ Cardinality(BoundPorts) \in Nat /\ MaxBindings \in Nat
    BY <2>1, PortsAre, FS_Subset, FS_CardinalityType DEF ResolverAssumption
  <2>3. CASE bindings' = bindings
    BY <1>0, <2>1, <2>3 DEF TypeOK, BoundPorts
  <2>4. CASE FreeSlot /\ bindings' = [bindings EXCEPT ![r.port] = r.pipe]
    <3>1. Cardinality(BoundPorts) < MaxBindings
      BY <2>4 DEF FreeSlot, BoundPorts
    <3>2. BoundPorts' \subseteq BoundPorts \cup {r.port}
      BY <1>0, <1>1, <2>1, <2>4 DEF TypeOK
    <3>3. IsFiniteSet(BoundPorts \cup {r.port})
          /\ Cardinality(BoundPorts \cup {r.port}) =< Cardinality(BoundPorts) + 1
          /\ Cardinality(BoundPorts \cup {r.port}) \in Nat
      <4>1. /\ IsFiniteSet(BoundPorts \cup {r.port})
            /\ Cardinality(BoundPorts \cup {r.port})
                 = IF r.port \in BoundPorts THEN Cardinality(BoundPorts) ELSE Cardinality(BoundPorts) + 1
        BY <2>2, FS_AddElement
      <4> QED
        BY <2>2, <4>1
    <3>4. Cardinality(BoundPorts') =< Cardinality(BoundPorts \cup {r.port}) /\ Cardinality(BoundPorts') \in Nat
      BY <3>2, <3>3, FS_Subset, FS_CardinalityType
    <3> QED
      BY <2>2, <3>1, <3>3, <3>4
  <2>5. CASE bindings' = [bindings EXCEPT ![r.port] = NoValue]
    <3>1. BoundPorts' \subseteq BoundPorts
      BY <1>0, <1>1, <2>1, <2>5 DEF TypeOK
    <3>2. Cardinality(BoundPorts') =< Cardinality(BoundPorts) /\ Cardinality(BoundPorts') \in Nat
      BY <2>2, <3>1, FS_Subset, FS_CardinalityType
    <3> QED
      BY <1>0, <2>2, <3>2 DEF TypeOK, BoundPorts
  <2> QED
    BY <1>3, <2>3, <2>4, <2>5
<1>6. AttemptsLeft'
  BY <1>0 DEF AttemptsLeft, program
<1> QED
  BY <1>0, <1>2, <1>3, <1>4, <1>5, <1>6 DEF TypeOK, program, history, BoundPorts

LEMMA ServeEngaged ==
  ASSUME ResolverAssumption, IInv, Serve, NEW b \in Apps
  PROVE  Engaged(b)'
<1> DEFINE r == control[1]
<1>0. TypeOK /\ UNCHANGED <<program, history>> /\ Engaged(b) /\ r \in Requests /\ r.pipe \in Pipes /\ r.port \in Ports
  BY Served DEF IInv
<1> SUFFICES ASSUME step[b] # "idle" PROVE Engaged(b)'
  BY <1>0 DEF Engaged, program
<1>1. /\ step' = step /\ candidate' = candidate /\ host' = host /\ Pipe(b)' = Pipe(b)
      /\ candidate[b] \in Ports /\ candidate[b] \in Nat /\ Pipe(b) # NoValue /\ Open(Pipe(b))
  BY <1>0, PipesAre, PortsAre DEF program, Pipe, TypeOK
<1>2. BindsWait(b) /\ ResponsesTrue(b) /\ HoldsOne(b) /\ Holds(b) /\ NoUnbind(b) /\ host[b] \in Hosts
  BY <1>0 DEF Engaged
<1>3. /\ 1 \in DOMAIN control
      /\ \A i \in DOMAIN control' : i + 1 \in DOMAIN control /\ control'[i] = control[i + 1] /\ i + 1 # 1
      /\ \A i, j \in DOMAIN control' : i + 1 = j + 1 => i = j
  BY Served
<1>4. NoUnbind(b)'
  BY <1>1, <1>2, <1>3 DEF NoUnbind, Mine
<1>5. CASE ~(r.type = "bind" /\ r.pipe = Pipe(b))
  <2>1. inbox'[b] = inbox[b]
    <3>1. \A ok \in BOOLEAN : [type |-> "bound", port |-> r.port, ok |-> ok] \in Answers \cup Responses
      BY <1>0 DEF Responses
    <3>2. \/ UNCHANGED inbox
          \/ r.pipe # Pipe(b) /\ \E ok \in BOOLEAN : Tell(r.pipe, [type |-> "bound", port |-> r.port, ok |-> ok])
      BY <1>5, Served
    <3> QED
      BY <1>0, <3>1, <3>2, Delivered
  <2>2. \A p \in Ports : bindings'[p] = Pipe(b) <=> bindings[p] = Pipe(b)
    <3>1. CASE bindings' = bindings
      BY <3>1
    <3>2. CASE r.pipe # Pipe(b) /\ Free(r.port) /\ bindings' = [bindings EXCEPT ![r.port] = r.pipe]
      BY <1>0, <1>1, <3>2 DEF Free, TypeOK
    <3>3. CASE r.type = "unbind" /\ bindings' = [bindings EXCEPT ![r.port] = NoValue]
      <4>1. bindings[r.port] = r.pipe
        BY <1>3, <3>3 DEF IInv, Unbinding
      <4>2. r.pipe # Pipe(b)
        BY <1>2, <1>3, <3>3 DEF NoUnbind, Mine
      <4> QED
        BY <1>0, <1>1, <3>3, <4>1, <4>2 DEF TypeOK
    <3> QED
      BY <1>5, <3>1, <3>2, <3>3, Served
  <2>3. BindsWait(b)'
    BY <1>1, <1>2, <1>3, <2>1, <2>2 DEF BindsWait, Mine, Told
  <2>4. ResponsesTrue(b)'
    BY <1>1, <1>2, <2>1, <2>2 DEF ResponsesTrue, Told
  <2>5. HoldsOne(b)' /\ Holds(b)'
    BY <1>1, <1>2, <2>1, <2>2 DEF HoldsOne, Holds, Told
  <2> QED
    BY <1>1, <1>2, <1>4, <2>3, <2>4, <2>5 DEF Engaged
<1>6. CASE r.type = "bind" /\ r.pipe = Pipe(b)
  <2>1. /\ step[b] = "wait" /\ r.port = candidate[b] /\ bindings[candidate[b]] # Pipe(b)
        /\ \A k \in DOMAIN inbox[b] : ~Told(b, inbox[b][k])
        /\ \A j \in DOMAIN control : Mine(b, control[j], "bind") => j = 1
    BY <1>2, <1>3, <1>6 DEF BindsWait, Mine
  <2>2. \A p \in Ports : bindings[p] # Pipe(b)
    BY <1>2, <2>1 DEF HoldsOne
  <2>3. BindsWait(b)'
    BY <1>1, <1>3, <2>1 DEF BindsWait, Mine
  <2>4. ASSUME UNCHANGED <<bindings, inbox>> PROVE (ResponsesTrue(b) /\ HoldsOne(b) /\ Holds(b))'
    BY <1>1, <1>2, <2>1, <2>2, <2>4 DEF ResponsesTrue, HoldsOne, Holds, Told
  <2>5. ASSUME NEW ok \in BOOLEAN, Tell(r.pipe, [type |-> "bound", port |-> r.port, ok |-> ok])
        PROVE  /\ \A k \in DOMAIN inbox'[b] : (k \in DOMAIN inbox[b] /\ inbox'[b][k] = inbox[b][k])
                     \/ inbox'[b][k] = [type |-> "bound", port |-> candidate[b], ok |-> ok]
               /\ \E k \in DOMAIN inbox'[b] :
                    inbox'[b][k] = [type |-> "bound", port |-> candidate[b], ok |-> ok]
    <3>1. [type |-> "bound", port |-> r.port, ok |-> ok] \in Answers \cup Responses
      BY <1>0 DEF Responses
    <3> QED
      BY <1>0, <1>6, <2>1, <2>5, <3>1, Delivered
  <2>6. ASSUME UNCHANGED bindings, Tell(r.pipe, [type |-> "bound", port |-> r.port, ok |-> FALSE])
        PROVE  (ResponsesTrue(b) /\ HoldsOne(b) /\ Holds(b))'
    <3>1. \A k \in DOMAIN inbox'[b] : (k \in DOMAIN inbox[b] /\ inbox'[b][k] = inbox[b][k])
             \/ inbox'[b][k] = [type |-> "bound", port |-> candidate[b], ok |-> FALSE]
      BY <2>5, <2>6
    <3>2. ResponsesTrue(b)'
      BY <1>1, <1>2, <2>1, <2>6, <3>1 DEF ResponsesTrue, Told
    <3> QED
      BY <1>1, <2>1, <2>2, <2>6, <3>2 DEF HoldsOne, Holds
  <2>7. ASSUME bindings' = [bindings EXCEPT ![r.port] = r.pipe],
               Tell(r.pipe, [type |-> "bound", port |-> r.port, ok |-> TRUE])
        PROVE  (ResponsesTrue(b) /\ HoldsOne(b) /\ Holds(b))'
    <3>1. /\ \A k \in DOMAIN inbox'[b] : (k \in DOMAIN inbox[b] /\ inbox'[b][k] = inbox[b][k])
               \/ inbox'[b][k] = [type |-> "bound", port |-> candidate[b], ok |-> TRUE]
          /\ \E k \in DOMAIN inbox'[b] :
               inbox'[b][k] = [type |-> "bound", port |-> candidate[b], ok |-> TRUE]
      BY <2>5, <2>7
    <3>2. bindings'[candidate[b]] = Pipe(b) /\ \A p \in Ports : bindings'[p] = Pipe(b) => p = candidate[b]
      BY <1>0, <1>1, <1>6, <2>1, <2>2, <2>7 DEF TypeOK
    <3>3. ResponsesTrue(b)'
      BY <1>1, <1>2, <2>1, <3>1, <3>2 DEF ResponsesTrue, Told
    <3>4. HoldsOne(b)' /\ Holds(b)'
      BY <1>1, <2>1, <3>1, <3>2 DEF HoldsOne, Holds, Told
    <3> QED
      BY <3>3, <3>4
  <2>8. (ResponsesTrue(b) /\ HoldsOne(b) /\ Holds(b))'
    BY <1>6, <2>4, <2>6, <2>7, Served
  <2> QED
    BY <1>1, <1>2, <1>4, <2>3, <2>8 DEF Engaged
<1> QED
  BY <1>5, <1>6

LEMMA ServePorts == ASSUME ResolverAssumption, IInv, Serve PROVE Past' /\ Unbinding' /\ GivenBack'
<1> DEFINE r == control[1]
<1>0. /\ TypeOK /\ Past /\ Unbinding /\ GivenBack /\ r \in Requests /\ r.pipe \in Pipes /\ r.port \in Ports
      /\ step' = step /\ context' = context /\ given_up' = given_up
  BY Served DEF IInv, program, history
<1>1. /\ 1 \in DOMAIN control
      /\ \A i \in DOMAIN control' : i + 1 \in DOMAIN control /\ control'[i] = control[i + 1] /\ i + 1 # 1
      /\ \A i \in DOMAIN control : i = 1 \/ (i - 1 \in DOMAIN control' /\ control'[i - 1] = control[i])
      /\ \A i, j \in DOMAIN control' : i + 1 = j + 1 => i = j
  BY Served
<1>2. \/ UNCHANGED bindings /\ r.type # "unbind"
      \/ r.type = "bind" /\ Free(r.port) /\ Open(r.pipe) /\ bindings' = [bindings EXCEPT ![r.port] = r.pipe]
      \/ r.type = "unbind" /\ bindings' = [bindings EXCEPT ![r.port] = NoValue]
  BY Served
<1>3. \A q \in Pipes : q # NoValue
  BY <1>0, PipesAre
<1>4. Past'
  <2>1. \A i \in DOMAIN control' : control'[i].pipe[2] =< context[control'[i].pipe[1]]
    BY <1>0, <1>1 DEF Past
  <2>2. \A p \in Ports : bindings'[p] # NoValue => bindings'[p][2] =< context[bindings'[p][1]]
    BY <1>0, <1>1, <1>2 DEF Past, Free, TypeOK
  <2> QED
    BY <1>0, <2>1, <2>2 DEF Past, Free
<1>5. Unbinding'
  <2> SUFFICES ASSUME NEW i \in DOMAIN control', control'[i].type = "unbind"
               PROVE  /\ bindings'[control'[i].port] = control'[i].pipe
                      /\ \A j \in DOMAIN control' :
                           control'[j].type = "unbind" /\ control'[j].port = control'[i].port => j = i
    BY DEF Unbinding
  <2>1. /\ i + 1 \in DOMAIN control /\ control'[i] = control[i + 1] /\ i + 1 # 1
        /\ bindings[control'[i].port] = control'[i].pipe
    BY <1>0, <1>1 DEF Unbinding
  <2>2. control'[i].pipe \in Pipes /\ control'[i].port \in Ports
    <3>1. control[i + 1] \in Requests
      BY <1>0, <2>1 DEF TypeOK
    <3> QED
      BY <2>1, <3>1 DEF Requests
  <2>3. r.type = "unbind" => r.port # control'[i].port
    BY <1>0, <1>1, <2>1 DEF Unbinding
  <2>4. bindings'[control'[i].port] = control'[i].pipe
    BY <1>0, <1>2, <1>3, <2>1, <2>2, <2>3 DEF Free, TypeOK
  <2>5. ASSUME NEW j \in DOMAIN control', control'[j].type = "unbind", control'[j].port = control'[i].port
        PROVE  j = i
    BY <1>0, <1>1, <2>1, <2>5 DEF Unbinding
  <2> QED
    BY <2>4, <2>5
<1>6. GivenBack'
  <2> SUFFICES ASSUME NEW p \in Ports, bindings'[p] # NoValue, ~Open(bindings[p])'
               PROVE  \/ bindings'[p] \in given_up'
                      \/ \E i \in DOMAIN control' :
                           /\ control'[i].type = "unbind" /\ control'[i].pipe = bindings'[p]
                           /\ control'[i].port = p
    BY DEF GivenBack, Free
  <2>1. ~Open(bindings'[p])
    BY <1>0 DEF Open, Pipe
  <2>2. bindings'[p] = bindings[p] /\ (r.type = "unbind" => r.port # p)
    BY <1>0, <1>2, <2>1 DEF TypeOK
  <2>3. \/ bindings[p] \in given_up
        \/ \E i \in DOMAIN control :
             control[i].type = "unbind" /\ control[i].pipe = bindings[p] /\ control[i].port = p
    BY <1>0, <2>1, <2>2 DEF GivenBack, Free
  <2>4. ASSUME NEW i \in DOMAIN control, control[i].type = "unbind", control[i].pipe = bindings[p],
               control[i].port = p
        PROVE  \E k \in DOMAIN control' :
                 control'[k].type = "unbind" /\ control'[k].pipe = bindings'[p] /\ control'[k].port = p
    <3>1. i # 1
      BY <2>2, <2>4
    <3> QED
      BY <1>1, <2>2, <2>4, <3>1
  <2> QED
    BY <1>0, <2>2, <2>3, <2>4
<1> QED
  BY <1>4, <1>5, <1>6

LEMMA ServeUnmistaken == ASSUME ResolverAssumption, IInv, Serve PROVE Unmistaken' /\ AnswersJust'
<1> DEFINE r == control[1]
<1>0. /\ TypeOK /\ Unmistaken /\ AnswersJust /\ r \in Requests
      /\ step' = step /\ candidate' = candidate /\ host' = host /\ sequence' = sequence
      /\ twins' = twins /\ result' = result
  BY Served DEF IInv, program, history
<1>1. AnswersJust'
  BY <1>0 DEF AnswersJust
<1> SUFFICES ASSUME ~twins, NEW b \in Apps, step[b] = "listen"
             PROVE  /\ \A i \in DOMAIN control' : ~Mistaken(b, control[i])'
                    /\ \A i \in DOMAIN wire' : ~Mistaken(b, wire[i])'
                    /\ \A i \in DOMAIN inbox'[b] : ~Mistaken(b, inbox[b][i])'
  BY <1>0, <1>1 DEF Unmistaken
<1>2. /\ \A i \in DOMAIN control : ~Mistaken(b, control[i])
      /\ \A i \in DOMAIN wire : ~Mistaken(b, wire[i])
      /\ \A i \in DOMAIN inbox[b] : ~Mistaken(b, inbox[b][i])
  BY <1>0 DEF Unmistaken
<1>3. \A i \in DOMAIN control' : ~Mistaken(b, control[i])'
  BY <1>0, <1>2, Served DEF Mistaken
<1>4. \A i \in DOMAIN wire' : ~Mistaken(b, wire'[i])
  <2>1. CASE UNCHANGED wire
    BY <1>2, <2>1
  <2>2. ASSUME NEW good \in BOOLEAN, r.type = "send",
               wire' = Append(wire, [type |-> "answer", port |-> r.port, id |-> r.id,
                                     host |-> r.host, good |-> good])
        PROVE  \A i \in DOMAIN wire' : ~Mistaken(b, wire'[i])
    <3> DEFINE m == [type |-> "answer", port |-> r.port, id |-> r.id, host |-> r.host, good |-> good]
    <3>1. m \in Answers
      BY <1>0, <2>2 DEF Requests, Answers
    <3>2. ~Mistaken(b, m)
      BY <1>2, <2>2, Served DEF Mistaken
    <3> HIDE DEF m
    <3>3. \A i \in DOMAIN wire' : (i \in DOMAIN wire /\ wire'[i] = wire[i]) \/ wire'[i] = m
      BY <1>0, <2>2, <3>1, Appended DEF TypeOK, m
    <3> QED
      BY <1>2, <3>2, <3>3
  <2> QED
    BY <2>1, <2>2, Served
<1>5. \A i \in DOMAIN inbox'[b] : ~Mistaken(b, inbox'[b][i])
  <2>1. \A ok \in BOOLEAN : [type |-> "bound", port |-> r.port, ok |-> ok] \in Answers \cup Responses
    BY Served DEF Responses
  <2>2. UNCHANGED inbox \/ \E ok \in BOOLEAN : Tell(r.pipe, [type |-> "bound", port |-> r.port, ok |-> ok])
    BY Served
  <2>3. \A i \in DOMAIN inbox'[b] :
          (i \in DOMAIN inbox[b] /\ inbox'[b][i] = inbox[b][i]) \/ inbox'[b][i].type = "bound"
    <3>1. CASE UNCHANGED inbox
      BY <3>1
    <3>2. ASSUME NEW ok \in BOOLEAN, Tell(r.pipe, [type |-> "bound", port |-> r.port, ok |-> ok])
          PROVE  \A i \in DOMAIN inbox'[b] :
                   (i \in DOMAIN inbox[b] /\ inbox'[b][i] = inbox[b][i]) \/ inbox'[b][i].type = "bound"
      <4>1. r.pipe \in Pipes
        BY Served
      <4>2. \A i \in DOMAIN inbox'[b] :
              (i \in DOMAIN inbox[b] /\ inbox'[b][i] = inbox[b][i])
                \/ inbox'[b][i] = [type |-> "bound", port |-> r.port, ok |-> ok]
        BY <1>0, <2>1, <3>2, <4>1, Delivered
      <4> QED
        BY <4>2
    <3> QED
      BY <2>2, <3>1, <3>2
  <2> QED
    BY <1>2, <2>3 DEF Mistaken
<1> QED
  BY <1>0, <1>3, <1>4, <1>5 DEF Mistaken, QueryId

\* An answer that arrives, for whoever has the port now.
LEMMA Arrived ==
  ASSUME ResolverAssumption, IInv, Arrive
  PROVE  /\ UNCHANGED <<program, control, bindings, history>>
         /\ wire' \in Seq(Answers) /\ inbox' \in [Apps -> Seq(Answers \cup Responses)]
         /\ \A i \in DOMAIN wire' : \E j \in DOMAIN wire : wire'[i] = wire[j]
         /\ \A a \in Apps :
              /\ \A k \in DOMAIN inbox[a] : k \in DOMAIN inbox'[a] /\ inbox'[a][k] = inbox[a][k]
              /\ \A k \in DOMAIN inbox'[a] :
                   \/ k \in DOMAIN inbox[a] /\ inbox'[a][k] = inbox[a][k]
                   \/ \E j \in DOMAIN wire : inbox'[a][k] = wire[j]
<1>0. TypeOK /\ UNCHANGED <<program, control, bindings, history>>
  BY DEF IInv, Arrive
<1>1. PICK i \in DOMAIN wire :
        /\ wire' \in {RemoveAt(wire, i), wire}
        /\ IF Free(wire[i].port) THEN UNCHANGED inbox ELSE Tell(bindings[wire[i].port], wire[i])
  BY DEF Arrive
<1>2. wire \in Seq(Answers) /\ wire[i] \in Answers
  BY <1>0 DEF TypeOK
<1>3. /\ wire' \in Seq(Answers)
      /\ \A k \in DOMAIN wire' : \E j \in DOMAIN wire : wire'[k] = wire[j]
  BY <1>1, <1>2, Removed
<1>4. CASE UNCHANGED inbox
  BY <1>0, <1>3, <1>4 DEF TypeOK
<1>5. CASE ~Free(wire[i].port) /\ Tell(bindings[wire[i].port], wire[i])
  <2>1. wire[i].port \in Ports
    BY <1>2 DEF Answers
  <2>2. bindings[wire[i].port] \in Pipes
    BY <1>0, <1>5, <2>1 DEF TypeOK, Free
  <2>3. /\ inbox' \in [Apps -> Seq(Answers \cup Responses)]
        /\ \A a \in Apps :
             /\ \A k \in DOMAIN inbox[a] : k \in DOMAIN inbox'[a] /\ inbox'[a][k] = inbox[a][k]
             /\ \A k \in DOMAIN inbox'[a] :
                  (k \in DOMAIN inbox[a] /\ inbox'[a][k] = inbox[a][k]) \/ inbox'[a][k] = wire[i]
    BY <1>0, <1>2, <1>5, <2>2, Delivered
  <2> QED
    BY <1>0, <1>3, <2>3
<1> QED
  BY <1>1, <1>4, <1>5

LEMMA ArriveHolds == ASSUME ResolverAssumption, IInv, Arrive PROVE IInv'
<1>0. /\ IInv /\ TypeOK /\ bindings' = bindings /\ control' = control
      /\ step' = step /\ context' = context /\ candidate' = candidate /\ host' = host
      /\ sequence' = sequence /\ attempt' = attempt /\ result' = result
      /\ given_up' = given_up /\ twins' = twins
  BY Arrived DEF IInv, program, history
<1>1. TypeOK'
  BY <1>0, Arrived DEF TypeOK, Free
<1>2. AttemptsLeft' /\ AnswersJust' /\ Past' /\ Unbinding' /\ GivenBack'
  BY <1>0 DEF IInv, AttemptsLeft, AnswersJust, Past, Unbinding, GivenBack, Free, Open, Pipe
<1>3. Unmistaken'
  <2> SUFFICES ASSUME ~twins, NEW b \in Apps, step[b] = "listen"
               PROVE  /\ \A i \in DOMAIN control' : ~Mistaken(b, control[i])'
                      /\ \A i \in DOMAIN wire' : ~Mistaken(b, wire[i])'
                      /\ \A i \in DOMAIN inbox'[b] : ~Mistaken(b, inbox[b][i])'
    BY <1>0 DEF Unmistaken
  <2>1. /\ \A i \in DOMAIN control : ~Mistaken(b, control[i])
        /\ \A i \in DOMAIN wire : ~Mistaken(b, wire[i])
        /\ \A i \in DOMAIN inbox[b] : ~Mistaken(b, inbox[b][i])
    BY <1>0 DEF IInv, Unmistaken
  <2>2. /\ \A i \in DOMAIN wire' : ~Mistaken(b, wire'[i])
        /\ \A i \in DOMAIN inbox'[b] : ~Mistaken(b, inbox'[b][i])
    BY <2>1, Arrived
  <2> QED
    BY <1>0, <2>1, <2>2 DEF Mistaken, QueryId
<1>4. ASSUME NEW b \in Apps PROVE Engaged(b)'
  <2> SUFFICES ASSUME step[b] # "idle" PROVE Engaged(b)'
    BY <1>0 DEF Engaged
  <2>1. BindsWait(b) /\ ResponsesTrue(b) /\ HoldsOne(b) /\ Holds(b) /\ NoUnbind(b) /\ host[b] \in Hosts
    BY <1>0 DEF IInv, Engaged
  <2>2. /\ \A k \in DOMAIN inbox[b] : k \in DOMAIN inbox'[b] /\ inbox'[b][k] = inbox[b][k]
        /\ \A k \in DOMAIN inbox'[b] :
             (k \in DOMAIN inbox[b] /\ inbox'[b][k] = inbox[b][k]) \/ inbox'[b][k].type = "answer"
    <3>1. \A j \in DOMAIN wire : wire[j].type = "answer"
      <4>1. \A j \in DOMAIN wire : wire[j] \in Answers
        BY <1>0 DEF TypeOK
      <4> QED
        BY <4>1 DEF Answers
    <3> QED
      BY <3>1, Arrived
  <2>3. BindsWait(b)' /\ ResponsesTrue(b)'
    BY <1>0, <2>1, <2>2 DEF BindsWait, ResponsesTrue, Mine, Told, Pipe
  <2>4. (HoldsOne(b) /\ Holds(b) /\ NoUnbind(b))'
    BY <1>0, <2>1, <2>2 DEF HoldsOne, Holds, NoUnbind, Mine, Told, Pipe
  <2> QED
    BY <1>0, <2>1, <2>3, <2>4 DEF Engaged
<1> QED
  BY <1>1, <1>2, <1>3, <1>4 DEF IInv

------------------------------------------------------------------------------
(* The invariant and what follows.                                         *)

LEMMA NextHolds == ASSUME ResolverAssumption, IInv, [Next]_vars PROVE IInv'
<1>1. ASSUME NEW a \in Apps, App(a) PROVE IInv'
  BY <1>1, ProgramTypes, ProgramEngaged, ProgramPast, ProgramUnbinding, ProgramGivesBack,
     ProgramUnmistaken, ProgramAnswers DEF IInv
<1>2. CASE Serve
  BY <1>2, ServeTypes, ServeEngaged, ServePorts, ServeUnmistaken DEF IInv
<1>3. CASE Arrive
  BY <1>3, ArriveHolds
<1>4. CASE UNCHANGED vars
  BY <1>4 DEF vars, program, history, IInv, TypeOK, Unbinding, Past, GivenBack, AttemptsLeft, Unmistaken,
     AnswersJust, Engaged, BindsWait, ResponsesTrue, HoldsOne, Holds, NoUnbind, Mine, Told, Mistaken,
     Free, Open, Pipe, QueryId
<1> QED
  BY <1>1, <1>2, <1>3, <1>4 DEF Next

LEMMA Implied == ASSUME ResolverAssumption, IInv PROVE NamesJust
<1>1. TypeOK /\ AnswersJust /\ GivenBack /\ \A a \in Apps : Engaged(a)
  BY DEF IInv
<1>2. PortsHeld
  BY <1>1 DEF PortsHeld, Engaged, Holds
<1>3. PortsGivenBack
  BY <1>1 DEF PortsGivenBack, GivenBack
<1> QED
  BY <1>1, <1>2, <1>3 DEF NamesJust

\* For any programs, ports and attempts: an address is that of the host asked
\* for, unless two questions had one number; who asks has the port for himself,
\* and a port is given back (dns.hpp:123-140, 486-577, networkd.cpp:490-566).
THEOREM NamesAreJust == ResolverAssumption => (Spec => []NamesJust)
<1> SUFFICES ASSUME ResolverAssumption PROVE Spec => []NamesJust
  OBVIOUS
<1>1. Init => IInv
  BY InitHolds
<1>2. IInv /\ [Next]_vars => IInv'
  BY NextHolds
<1>3. IInv => NamesJust
  BY Implied
<1> QED
  BY <1>1, <1>2, <1>3, PTL DEF Spec

------------------------------------------------------------------------------
(* The card game: a move takes some cards of one pile to another, which keeps *)
(* every pile of a board legal; the boards to go back to are such boards.    *)

Laid == [card : Board!Cards, up : BOOLEAN]

IsBoard(g) ==
  g \in [deck : Seq(Board!Cards), tableau : [Board!Columns -> Seq(Laid)], stock : Seq(Board!Cards),
         waste : Seq(Board!Cards), foundations : [Suits -> Seq(Board!Cards)]]

\* The last n cards of one pile go to the end of another, in their order.
Moved(piles, a, b, n) ==
  [piles EXCEPT ![a] = SubSeq(@, 1, Len(@) - n),
                ![b] = @ \o SubSeq(piles[a], Len(piles[a]) - n + 1, Len(piles[a]))]

LEMMA MovedOnce ==
  ASSUME NEW N, NEW piles \in [N -> Seq(Board!Cards)], Board!EachOnce(piles),
         NEW a \in N, NEW b \in N, a # b, NEW n \in 1..Len(piles[a])
  PROVE  Board!EachOnce(Moved(piles, a, b, n))
<1> DEFINE P == Moved(piles, a, b, n)
<1> DEFINE A == piles[a]
<1> DEFINE B == piles[b]
<1>1. /\ A \in Seq(Board!Cards) /\ B \in Seq(Board!Cards)
      /\ Len(A) \in Nat /\ Len(B) \in Nat /\ n \in Nat /\ n =< Len(A)
  OBVIOUS
<1>2. DOMAIN P = N /\ DOMAIN piles = N
  BY DEF Moved
<1>3. P[a] = SubSeq(A, 1, Len(A) - n)
  BY DEF Moved
<1>4. P[b] = B \o SubSeq(A, Len(A) - n + 1, Len(A))
  BY DEF Moved
<1>5. \A q \in N : q # a /\ q # b => P[q] = piles[q]
  BY DEF Moved
<1> HIDE DEF P
<1>6. /\ Len(P[a]) = Len(A) - n /\ P[a] \in Seq(Board!Cards)
      /\ DOMAIN P[a] = 1..(Len(A) - n) /\ DOMAIN A = 1..Len(A)
      /\ \A i \in 1..(Len(A) - n) : P[a][i] = A[i]
  BY <1>1, <1>3
<1>7. SubSeq(A, Len(A) - n + 1, Len(A)) \in Seq(Board!Cards) /\ Len(SubSeq(A, Len(A) - n + 1, Len(A))) = n
      /\ \A i \in 1..n : SubSeq(A, Len(A) - n + 1, Len(A))[i] = A[Len(A) - n + i]
  BY <1>1
<1> HIDE DEF A, B
<1>8. /\ Len(P[b]) = Len(B) + n /\ P[b] \in Seq(Board!Cards)
      /\ DOMAIN P[b] = 1..(Len(B) + n) /\ DOMAIN B = 1..Len(B)
      /\ \A i \in 1..Len(B) : P[b][i] = B[i]
      /\ \A i \in 1..n : P[b][Len(B) + i] = A[Len(A) - n + i]
  BY <1>1, <1>4, <1>7
\* Where a card lay before.
<1> DEFINE Pile(q, i) == IF q = b /\ i > Len(B) THEN a ELSE q
<1> DEFINE Place(q, i) == IF q = b /\ i > Len(B) THEN Len(A) - n + (i - Len(B)) ELSE i
<1>9. ASSUME NEW q \in N, NEW i \in DOMAIN P[q]
      PROVE  /\ Pile(q, i) \in N /\ Place(q, i) \in DOMAIN piles[Pile(q, i)]
             /\ P[q][i] = piles[Pile(q, i)][Place(q, i)]
  <2>1. CASE q = a
    <3>1. i \in 1..(Len(A) - n)
      BY <2>1, <1>6
    <3>2. P[a][i] = A[i]
      BY <3>1, <1>6
    <3>3. i \in 1..Len(A)
      BY <3>1, <1>1
    <3>4. i \in DOMAIN A
      BY <3>3, <1>6
    <3> QED
      BY <2>1, <3>2, <3>4 DEF A
  <2>2. CASE q = b /\ i =< Len(B)
    BY <2>2, <1>8, <1>1 DEF B
  <2>3. CASE q = b /\ i > Len(B)
    <3>1. i - Len(B) \in 1..n
      BY <2>3, <1>8, <1>1
    <3>2. P[b][Len(B) + (i - Len(B))] = A[Len(A) - n + (i - Len(B))]
      BY <3>1, <1>8
    <3>3. Len(B) + (i - Len(B)) = i
      BY <2>3, <1>8, <1>1
    <3> QED
      BY <2>3, <3>1, <3>2, <3>3, <1>1 DEF A
  <2>4. CASE q # a /\ q # b
    BY <2>4, <1>5
  <2> QED
    BY <2>1, <2>2, <2>3, <2>4, <1>8, <1>1
<1>10. ASSUME NEW q \in N, NEW i \in DOMAIN P[q], NEW r \in N, NEW j \in DOMAIN P[r],
              Pile(q, i) = Pile(r, j), Place(q, i) = Place(r, j)
       PROVE  q = r /\ i = j
  <2>1. ASSUME NEW s \in N, NEW k \in DOMAIN P[s] PROVE k \in Nat /\ (s = a => k =< Len(A) - n)
    <3>1. CASE s = a
      <4>1. k \in 1..(Len(A) - n)
        BY <3>1, <1>6
      <4> QED
        BY <4>1, <1>1
    <3>2. CASE s = b
      <4>1. k \in 1..(Len(B) + n)
        BY <3>2, <1>8
      <4> QED
        BY <4>1, <3>2, <1>1
    <3>3. CASE s # a /\ s # b
      BY <3>3, <1>5
    <3> QED
      BY <3>1, <3>2, <3>3
  <2> QED
    BY <1>10, <2>1, <1>1
<1>11. \A q \in N : P[q] \in Seq(Board!Cards)
  BY <1>5, <1>6, <1>8
<1>12. ASSUME NEW card \in Board!Cards PROVE \E q \in N : \E i \in DOMAIN P[q] : P[q][i] = card
  <2>1. PICK q \in N : \E i \in DOMAIN piles[q] : piles[q][i] = card
    BY <1>2 DEF Board!EachOnce, Board!ToSet
  <2>2. PICK i \in DOMAIN piles[q] : piles[q][i] = card
    BY <2>1
  <2>3. CASE q = a /\ i =< Len(A) - n
    <3>1. i \in 1..Len(A) /\ A[i] = card
      BY <2>2, <2>3, <1>6 DEF A
    <3>2. i \in 1..(Len(A) - n)
      BY <3>1, <2>3, <1>1
    <3>3. i \in DOMAIN P[a] /\ P[a][i] = card
      BY <3>1, <3>2, <1>6
    <3> QED
      BY <3>3
  <2>4. CASE q = a /\ i > Len(A) - n
    <3>1. i - (Len(A) - n) \in 1..n
      BY <2>4, <1>1 DEF A
    <3>2. P[b][Len(B) + (i - (Len(A) - n))] = A[Len(A) - n + (i - (Len(A) - n))]
      BY <3>1, <1>8
    <3>3. Len(A) - n + (i - (Len(A) - n)) = i /\ Len(B) + (i - (Len(A) - n)) \in DOMAIN P[b]
      BY <3>1, <2>4, <1>1, <1>8 DEF A
    <3> QED
      BY <3>2, <3>3, <2>2, <2>4 DEF A
  <2>5. CASE q = b
    <3>1. i \in 1..Len(B) /\ B[i] = card
      BY <2>2, <2>5, <1>8 DEF B
    <3>2. i \in 1..(Len(B) + n) /\ P[b][i] = card
      BY <3>1, <1>8, <1>1
    <3> QED
      BY <3>2, <1>8
  <2>6. CASE q # a /\ q # b
    BY <2>2, <2>6, <1>5
  <2> QED
    BY <2>3, <2>4, <2>5, <2>6, <1>1 DEF A
<1>13. \A q \in N : Board!ToSet(P[q]) \subseteq Board!Cards
  BY <1>11 DEF Board!ToSet
<1>14. \A q, r \in N : \A i \in DOMAIN P[q], j \in DOMAIN P[r] : P[q][i] = P[r][j] => q = r /\ i = j
  <2> HIDE DEF Pile, Place
  <2>1. \A q, r \in N : \A i \in DOMAIN piles[q], j \in DOMAIN piles[r] : piles[q][i] = piles[r][j] => q = r /\ i = j
    BY <1>2 DEF Board!EachOnce
  <2> QED
    BY <2>1, <1>9, <1>10
<1> QED
  BY <1>2, <1>12, <1>13, <1>14 DEF Board!EachOnce, Board!ToSet, P

LEMMA TurnedOnce ==
  ASSUME NEW N, NEW piles \in [N -> Seq(Board!Cards)], Board!EachOnce(piles),
         NEW a \in N, NEW b \in N, a # b, piles[b] = <<>>
  PROVE  Board!EachOnce([piles EXCEPT ![a] = <<>>, ![b] = Board!Reverse(piles[a])])
<1> DEFINE P == [piles EXCEPT ![a] = <<>>, ![b] = Board!Reverse(piles[a])]
<1> DEFINE n == Len(piles[a])
<1>1. DOMAIN P = N /\ DOMAIN piles = N /\ P[a] = <<>> /\ n \in Nat
      /\ \A q \in N : q # a /\ q # b => P[q] = piles[q]
  OBVIOUS
<1>2. P[b] = [i \in 1..n |-> piles[a][(n - i) + 1]]
  BY DEF Board!Reverse
<1>3. /\ piles[a] \in Seq(Board!Cards) /\ DOMAIN piles[a] = 1..n
      /\ \A i \in 1..n : piles[a][i] \in Board!Cards
  OBVIOUS
<1> HIDE DEF P, n
<1>4. DOMAIN P[b] = 1..n /\ \A i \in 1..n : (n - i) + 1 \in 1..n /\ P[b][i] = piles[a][(n - i) + 1]
  BY <1>1, <1>2
<1>5. DOMAIN P[a] = {}
  BY <1>1
<1>6. ASSUME NEW q \in N PROVE Board!ToSet(P[q]) \subseteq Board!Cards
  <2>1. \A i \in 1..n : piles[a][i] \in Board!Cards
    BY <1>3
  <2>2. CASE q = a
    BY <2>2, <1>5 DEF Board!ToSet
  <2>3. CASE q = b
    BY <2>1, <2>3, <1>4 DEF Board!ToSet
  <2>4. CASE q # a /\ q # b
    BY <2>4, <1>1 DEF Board!EachOnce
  <2> QED
    BY <2>2, <2>3, <2>4
<1>7. ASSUME NEW card \in Board!Cards PROVE \E q \in N : \E i \in DOMAIN P[q] : P[q][i] = card
  <2>1. PICK q \in N : \E i \in DOMAIN piles[q] : piles[q][i] = card
    BY <1>1 DEF Board!EachOnce, Board!ToSet
  <2>2. PICK i \in DOMAIN piles[q] : piles[q][i] = card
    BY <2>1
  <2>3. CASE q = a
    <3>1. i \in 1..n /\ (n - i) + 1 \in 1..n /\ (n - ((n - i) + 1)) + 1 = i
      BY <1>1, <1>3, <2>2, <2>3
    <3>2. P[b][(n - i) + 1] = piles[a][i]
      BY <3>1, <1>4
    <3> QED
      BY <3>1, <3>2, <1>4, <2>2, <2>3
  <2>4. q # b
    BY <2>2
  <2> QED
    BY <2>2, <2>3, <2>4, <1>1
<1>8. \A q, r \in N : \A i \in DOMAIN piles[q], j \in DOMAIN piles[r] : piles[q][i] = piles[r][j] => q = r /\ i = j
  BY <1>1 DEF Board!EachOnce
<1>9. ASSUME NEW q \in N, NEW r \in N, NEW i \in DOMAIN P[q], NEW j \in DOMAIN P[r], P[q][i] = P[r][j]
      PROVE  q = r /\ i = j
  <2>1. q # a /\ r # a
    BY <1>5
  <2>2. CASE q = b /\ r = b
    <3>1. piles[a][(n - i) + 1] = piles[a][(n - j) + 1] /\ (n - i) + 1 \in 1..n /\ (n - j) + 1 \in 1..n
      BY <2>2, <1>4, <1>9
    <3>2. (n - i) + 1 = (n - j) + 1
      <4>1. \A x, y \in 1..n : piles[a][x] = piles[a][y] => x = y
        BY <1>8, <1>3
      <4> QED
        BY <3>1, <4>1
    <3> QED
      BY <3>2, <2>2, <1>4, <1>1
  <2>3. CASE q = b /\ r # b
    BY <2>1, <2>3, <1>1, <1>3, <1>4, <1>8, <1>9
  <2>4. CASE q # b /\ r = b
    BY <2>1, <2>4, <1>1, <1>3, <1>4, <1>8, <1>9
  <2>5. CASE q # b /\ r # b
    BY <2>1, <2>5, <1>1, <1>8, <1>9
  <2> QED
    BY <2>2, <2>3, <2>4, <2>5
<1> HIDE DEF n
<1>10. DOMAIN P = N
  BY <1>1
<1>11. Board!EachOnce(P)
  BY <1>10, <1>6, <1>7, <1>9 DEF Board!EachOnce, Board!ToSet
<1> QED
  BY <1>11 DEF P

ColumnOrdered(pile) ==
  pile # <<>> =>
    \E first \in DOMAIN pile :
      Board!is_valid_tail_run(pile, first) /\ \A i \in 1..(first - 1) : ~pile[i].up

LEMMA FacesOf ==
  ASSUME NEW pile \in Seq(Laid)
  PROVE  /\ Board!Faces(pile) \in Seq(Board!Cards) /\ Len(Board!Faces(pile)) = Len(pile)
         /\ DOMAIN Board!Faces(pile) = 1..Len(pile)
         /\ \A i \in 1..Len(pile) : Board!Faces(pile)[i] = pile[i].card
<1>1. Len(pile) \in Nat /\ DOMAIN pile = 1..Len(pile) /\ \A i \in 1..Len(pile) : pile[i].card \in Board!Cards
  <2>1. \A i \in 1..Len(pile) : pile[i] \in Laid
    OBVIOUS
  <2> QED
    BY <2>1 DEF Laid
<1>2. Board!Faces(pile) = [i \in 1..Len(pile) |-> pile[i].card]
  BY <1>1 DEF Board!Faces
<1> QED
  BY <1>1, <1>2

LEMMA Joined ==
  ASSUME NEW S, NEW s \in Seq(S), NEW t \in Seq(S)
  PROVE  /\ s \o t \in Seq(S) /\ Len(s \o t) = Len(s) + Len(t) /\ DOMAIN (s \o t) = 1..(Len(s) + Len(t))
         /\ \A i \in 1..Len(s) : (s \o t)[i] = s[i]
         /\ \A i \in (Len(s) + 1)..(Len(s) + Len(t)) : i - Len(s) \in 1..Len(t) /\ (s \o t)[i] = t[i - Len(s)]
OBVIOUS

LEMMA FacesJoin ==
  ASSUME NEW s \in Seq(Laid), NEW t \in Seq(Laid)
  PROVE  Board!Faces(s \o t) = Board!Faces(s) \o Board!Faces(t)
<1> DEFINE a == Board!Faces(s)
<1> DEFINE b == Board!Faces(t)
<1> DEFINE c == Board!Faces(s \o t)
<1>1. s \o t \in Seq(Laid) /\ Len(s \o t) = Len(s) + Len(t)
  OBVIOUS
<1>2. /\ a \in Seq(Board!Cards) /\ b \in Seq(Board!Cards) /\ c \in Seq(Board!Cards)
      /\ Len(a) = Len(s) /\ Len(b) = Len(t) /\ Len(c) = Len(s) + Len(t)
  BY <1>1, FacesOf
<1>3. /\ \A i \in 1..Len(s) : a[i] = s[i].card
      /\ \A i \in 1..Len(t) : b[i] = t[i].card
      /\ \A i \in 1..(Len(s) + Len(t)) : c[i] = (s \o t)[i].card
  BY <1>1, FacesOf
<1>4. ASSUME NEW i \in 1..Len(s) PROVE c[i] = (a \o b)[i]
  <2>1. c[i] = s[i].card
    BY <1>3
  <2>2. (a \o b)[i] = a[i]
    BY <1>2
  <2> QED
    BY <1>3, <2>1, <2>2
<1>5. ASSUME NEW i \in (Len(s) + 1)..(Len(s) + Len(t)) PROVE c[i] = (a \o b)[i]
  <2>1. c[i] = t[i - Len(s)].card
    BY <1>3
  <2>2. (a \o b)[i] = b[i - Len(s)]
    BY <1>2, Joined
  <2>3. i - Len(s) \in 1..Len(t)
    OBVIOUS
  <2> QED
    BY <1>3, <2>1, <2>2, <2>3
<1> HIDE DEF a, b, c
<1>6. a \o b \in Seq(Board!Cards) /\ Len(a \o b) = Len(c)
  BY <1>2
<1>7. ASSUME NEW i \in 1..Len(c) PROVE c[i] = (a \o b)[i]
  <2>1. i \in 1..Len(s) \/ i \in (Len(s) + 1)..(Len(s) + Len(t))
    BY <1>2
  <2> QED
    BY <1>4, <1>5, <2>1
<1>8. a \o b = c
  BY <1>2, <1>6, <1>7
<1> QED
  BY <1>8 DEF a, b, c

LEMMA RunTaken ==
  ASSUME NEW pile \in Seq(Laid), ColumnOrdered(pile), NEW first \in DOMAIN pile,
         Board!is_valid_tail_run(pile, first)
  PROVE  LET rest == Board!reveal_tail(SubSeq(pile, 1, first - 1))
         IN  /\ rest \in Seq(Laid) /\ Len(rest) = first - 1 /\ ColumnOrdered(rest)
             /\ Board!Faces(rest) = SubSeq(Board!Faces(pile), 1, first - 1)
<1> DEFINE kept == SubSeq(pile, 1, first - 1)
<1> DEFINE rest == Board!reveal_tail(kept)
<1>1. /\ Len(pile) \in Nat /\ DOMAIN pile = 1..Len(pile) /\ first \in 1..Len(pile)
      /\ \A i \in 1..Len(pile) : pile[i] \in Laid
  OBVIOUS
<1>2. /\ kept \in Seq(Laid) /\ Len(kept) = first - 1 /\ DOMAIN kept = 1..(first - 1)
      /\ \A i \in 1..(first - 1) : kept[i] = pile[i]
  BY <1>1
<1> HIDE DEF kept
<1>3. /\ rest \in Seq(Laid) /\ Len(rest) = first - 1 /\ DOMAIN rest = 1..(first - 1)
      /\ \A i \in 1..(first - 1) : rest[i].card = pile[i].card
      /\ \A i \in 1..(first - 1) : i # first - 1 => rest[i] = pile[i]
      /\ first # 1 => rest[first - 1].up
  <2>1. CASE first = 1
    <3>1. kept = <<>>
      BY <1>2, <2>1
    <3>2. rest = kept
      BY <3>1 DEF Board!reveal_tail
    <3> QED
      BY <1>2, <2>1, <3>2
  <2>2. CASE first # 1
    <3>1. kept # <<>> /\ first - 1 \in 1..(first - 1)
      BY <1>1, <1>2, <2>2
    <3>2. rest = [kept EXCEPT ![first - 1].up = TRUE]
      BY <1>2, <3>1 DEF Board!reveal_tail
    <3>3. kept[first - 1] \in Laid
      BY <1>1, <1>2, <3>1
    <3>4. rest = [kept EXCEPT ![first - 1] = [@ EXCEPT !.up = TRUE]]
      BY <3>2
    <3>5. /\ [kept[first - 1] EXCEPT !.up = TRUE] \in Laid
          /\ [kept[first - 1] EXCEPT !.up = TRUE].up
          /\ [kept[first - 1] EXCEPT !.up = TRUE].card = kept[first - 1].card
      BY <3>3 DEF Laid
    <3>6. rest \in Seq(Laid) /\ Len(rest) = Len(kept) /\ DOMAIN rest = DOMAIN kept
          /\ rest[first - 1] = [kept[first - 1] EXCEPT !.up = TRUE]
          /\ \A i \in 1..(first - 1) : i # first - 1 => rest[i] = kept[i]
      BY <1>2, <3>1, <3>4, <3>5
    <3> QED
      BY <1>2, <3>1, <3>5, <3>6
  <2> QED
    BY <2>1, <2>2
<1> HIDE DEF rest
<1>4. Board!Faces(rest) = SubSeq(Board!Faces(pile), 1, first - 1)
  <2>1. Board!Faces(pile) = [i \in 1..Len(pile) |-> pile[i].card] /\ Board!Faces(pile) \in Seq(Board!Cards)
    BY <1>1 DEF Board!Faces, Laid
  <2>2. SubSeq(Board!Faces(pile), 1, first - 1) = [i \in 1..(first - 1) |-> pile[i].card]
    BY <1>1, <2>1
  <2>3. Board!Faces(rest) = [i \in 1..(first - 1) |-> pile[i].card]
    BY <1>3 DEF Board!Faces
  <2> QED
    BY <2>2, <2>3
<1>5. ColumnOrdered(rest)
  <2> SUFFICES ASSUME first # 1 PROVE ColumnOrdered(rest)
    BY <1>1, <1>3 DEF ColumnOrdered
  <2>1. PICK f \in 1..Len(pile) : Board!is_valid_tail_run(pile, f) /\ \A i \in 1..(f - 1) : ~pile[i].up
    BY <1>1 DEF ColumnOrdered
  <2>2. /\ \A i \in f..Len(pile) : pile[i].up
        /\ \A i \in (f + 1)..Len(pile) : Board!Descends(pile[i - 1].card, pile[i].card)
    BY <2>1 DEF Board!is_valid_tail_run
  <2>3. f =< first
    BY <1>1, <2>1 DEF Board!is_valid_tail_run
  <2>4. CASE f = first
    <3>1. Board!is_valid_tail_run(rest, first - 1)
      BY <1>1, <1>3 DEF Board!is_valid_tail_run
    <3>2. \A i \in 1..((first - 1) - 1) : ~rest[i].up
      BY <1>1, <1>3, <2>1, <2>4
    <3> QED
      BY <1>1, <1>3, <3>1, <3>2 DEF ColumnOrdered
  <2>5. CASE f # first
    <3>1. f \in 1..(first - 1)
      BY <1>1, <2>3, <2>5
    <3>2. \A i \in f..(first - 1) : rest[i].up
      BY <1>1, <1>3, <2>2, <3>1
    <3>3. \A i \in (f + 1)..(first - 1) : Board!Descends(rest[i - 1].card, rest[i].card)
      BY <1>1, <1>3, <2>2, <3>1
    <3>4. Board!is_valid_tail_run(rest, f)
      BY <1>3, <3>1, <3>2, <3>3 DEF Board!is_valid_tail_run
    <3>5. \A i \in 1..(f - 1) : ~rest[i].up
      BY <1>1, <1>3, <2>1, <3>1
    <3> QED
      BY <1>3, <3>1, <3>4, <3>5 DEF ColumnOrdered
  <2> QED
    BY <2>4, <2>5
<1> QED
  BY <1>3, <1>4, <1>5 DEF rest, kept

LEMMA RunPlaced ==
  ASSUME NEW dest \in Seq(Laid), ColumnOrdered(dest), NEW run \in Seq(Laid), run # <<>>,
         Board!is_valid_tail_run(run, 1), Board!can_place_on_tableau(run[1].card, dest)
  PROVE  /\ dest \o run \in Seq(Laid) /\ ColumnOrdered(dest \o run)
         /\ Board!Faces(dest \o run) = Board!Faces(dest) \o Board!Faces(run)
<1> DEFINE pile == dest \o run
<1>0. \A i \in (Len(dest) + 1)..(Len(dest) + Len(run)) : i - Len(dest) \in 1..Len(run)
  OBVIOUS
<1>1. /\ Len(dest) \in Nat /\ DOMAIN dest = 1..Len(dest) /\ Len(run) \in Nat \ {0} /\ DOMAIN run = 1..Len(run)
      /\ pile \in Seq(Laid) /\ Len(pile) = Len(dest) + Len(run) /\ DOMAIN pile = 1..(Len(dest) + Len(run))
      /\ \A i \in 1..Len(dest) : pile[i] = dest[i]
      /\ \A i \in (Len(dest) + 1)..(Len(dest) + Len(run)) : pile[i] = run[i - Len(dest)]
  OBVIOUS
<1>2. pile[Len(dest) + 1] = run[1]
  BY <1>1
<1> HIDE DEF pile
<1>3. /\ \A i \in 1..Len(run) : run[i].up
      /\ \A i \in 2..Len(run) : Board!Descends(run[i - 1].card, run[i].card)
  BY <1>1 DEF Board!is_valid_tail_run
<1>4. ASSUME NEW i \in (Len(dest) + 1)..Len(pile) PROVE pile[i].up
  <2>1. i - Len(dest) \in 1..Len(run) /\ pile[i] = run[i - Len(dest)]
    BY <1>1
  <2> QED
    BY <1>3, <2>1
<1>5. ASSUME NEW i \in (Len(dest) + 2)..Len(pile) PROVE Board!Descends(pile[i - 1].card, pile[i].card)
  <2>1. i - Len(dest) \in 2..Len(run) /\ (i - Len(dest)) - 1 = (i - 1) - Len(dest)
    BY <1>1
  <2>2. pile[i] = run[i - Len(dest)] /\ pile[i - 1] = run[(i - 1) - Len(dest)]
    BY <1>1
  <2> QED
    BY <1>3, <2>1, <2>2
<1>6. ColumnOrdered(pile)
  <2>1. CASE dest = <<>>
    <3>0. Len(dest) = 0 /\ 1 \in DOMAIN pile
      BY <1>1, <2>1
    <3>1. Board!is_valid_tail_run(pile, 1)
      BY <1>1, <1>4, <1>5, <3>0 DEF Board!is_valid_tail_run
    <3> QED
      BY <3>0, <3>1 DEF ColumnOrdered
  <2>2. CASE dest # <<>>
    <3>1. PICK f \in 1..Len(dest) : Board!is_valid_tail_run(dest, f) /\ \A i \in 1..(f - 1) : ~dest[i].up
      BY <1>1, <2>2 DEF ColumnOrdered
    <3>2. /\ \A i \in f..Len(dest) : dest[i].up
          /\ \A i \in (f + 1)..Len(dest) : Board!Descends(dest[i - 1].card, dest[i].card)
      BY <3>1 DEF Board!is_valid_tail_run
    <3>3. Board!Descends(dest[Len(dest)].card, run[1].card)
      BY <2>2 DEF Board!can_place_on_tableau, Board!Last
    <3>4. \A i \in f..Len(pile) : pile[i].up
      BY <1>1, <1>4, <3>2
    <3>5. ASSUME NEW i \in (f + 1)..Len(pile) PROVE Board!Descends(pile[i - 1].card, pile[i].card)
      <4>1. CASE i =< Len(dest)
        BY <1>1, <3>2, <4>1
      <4>2. CASE i = Len(dest) + 1
        <5>1. i - 1 = Len(dest) /\ Len(dest) \in 1..Len(dest)
          BY <1>1, <4>2, <2>2
        <5> QED
          BY <1>1, <1>2, <3>3, <4>2, <5>1
      <4>3. CASE i > Len(dest) + 1
        BY <1>1, <1>5, <4>3
      <4> QED
        BY <1>1, <4>1, <4>2, <4>3
    <3>6. f \in 1..(Len(dest) + Len(run))
      BY <1>1
    <3>7. Board!is_valid_tail_run(pile, f)
      BY <1>1, <3>4, <3>5, <3>6 DEF Board!is_valid_tail_run
    <3>8. \A i \in 1..(f - 1) : ~pile[i].up
      BY <1>1, <3>1
    <3> QED
      BY <1>1, <3>6, <3>7, <3>8 DEF ColumnOrdered
  <2> QED
    BY <2>1, <2>2
<1>7. Board!Faces(pile) = Board!Faces(dest) \o Board!Faces(run)
  BY FacesJoin DEF pile
<1> QED
  BY <1>1, <1>6, <1>7 DEF pile

TalonOrdered(g) ==
  LET talon == g.stock \o Board!Reverse(g.waste)
  IN  \A i, j \in DOMAIN talon : i < j => Board!Position(g, talon[i]) < Board!Position(g, talon[j])

FoundationOrdered(s, pile) == pile = [i \in DOMAIN pile |-> <<s, i>>]

LegalBoard(g) ==
  /\ IsBoard(g) /\ g.deck \in Decks /\ Board!EachOnce(Board!Piles(g)) /\ TalonOrdered(g)
  /\ \A c \in Board!Columns : ColumnOrdered(g.tableau[c])
  /\ \A s \in Suits : FoundationOrdered(s, g.foundations[s])

Stock == <<"stock", 0>>
Waste == <<"waste", 0>>
Column(c) == <<"column", c>>
Foundation(s) == <<"foundation", s>>

LEMMA PileKinds ==
  /\ Stock \in Board!PileNames /\ Waste \in Board!PileNames /\ Stock # Waste
  /\ \A c \in Board!Columns : Column(c) \in Board!PileNames /\ Column(c) # Stock /\ Column(c) # Waste
  /\ \A s \in Suits : Foundation(s) \in Board!PileNames /\ Foundation(s) # Stock /\ Foundation(s) # Waste
  /\ \A c \in Board!Columns, s \in Suits : Column(c) # Foundation(s)
  /\ \A c, d \in Board!Columns : Column(c) = Column(d) => c = d
  /\ \A s, t \in Suits : Foundation(s) = Foundation(t) => s = t
  /\ \A q \in Board!PileNames :
       q = Stock \/ q = Waste \/ (\E c \in Board!Columns : q = Column(c)) \/ (\E s \in Suits : q = Foundation(s))
BY DEF Board!PileNames, Stock, Waste, Column, Foundation

LEMMA PilesOf ==
  ASSUME NEW g, IsBoard(g)
  PROVE  /\ Board!Piles(g) \in [Board!PileNames -> Seq(Board!Cards)]
         /\ Board!Piles(g)[Stock] = g.stock /\ Board!Piles(g)[Waste] = g.waste
         /\ \A c \in Board!Columns : Board!Piles(g)[Column(c)] = Board!Faces(g.tableau[c])
         /\ \A s \in Suits : Board!Piles(g)[Foundation(s)] = g.foundations[s]
<1>1. Board!Piles(g)[Stock] = g.stock /\ Board!Piles(g)[Waste] = g.waste
  BY PileKinds DEF Board!Piles, Stock, Waste
<1>2. ASSUME NEW c \in Board!Columns PROVE Board!Piles(g)[Column(c)] = Board!Faces(g.tableau[c])
  BY PileKinds DEF Board!Piles, Column
<1>3. ASSUME NEW s \in Suits PROVE Board!Piles(g)[Foundation(s)] = g.foundations[s]
  BY PileKinds DEF Board!Piles, Foundation
<1>4. ASSUME NEW q \in Board!PileNames PROVE Board!Piles(g)[q] \in Seq(Board!Cards)
  <2>1. ASSUME NEW c \in Board!Columns PROVE Board!Faces(g.tableau[c]) \in Seq(Board!Cards)
    BY FacesOf DEF IsBoard
  <2>2. CASE q = Stock \/ q = Waste
    BY <1>1, <2>2 DEF IsBoard
  <2>3. CASE \E c \in Board!Columns : q = Column(c)
    BY <1>2, <2>1, <2>3
  <2>4. CASE \E s \in Suits : q = Foundation(s)
    BY <1>3, <2>4 DEF IsBoard
  <2> QED
    BY <2>2, <2>3, <2>4, PileKinds
<1>5. Board!Piles(g) = [q \in Board!PileNames |-> Board!Piles(g)[q]]
  BY DEF Board!Piles
<1> QED
  BY <1>1, <1>2, <1>3, <1>4, <1>5

LEMMA SamePiles ==
  ASSUME NEW h, IsBoard(h), NEW P \in [Board!PileNames -> Seq(Board!Cards)],
         P[Stock] = h.stock, P[Waste] = h.waste,
         \A c \in Board!Columns : P[Column(c)] = Board!Faces(h.tableau[c]),
         \A s \in Suits : P[Foundation(s)] = h.foundations[s]
  PROVE  Board!Piles(h) = P
<1>1. /\ Board!Piles(h) \in [Board!PileNames -> Seq(Board!Cards)]
      /\ Board!Piles(h)[Stock] = h.stock /\ Board!Piles(h)[Waste] = h.waste
      /\ \A c \in Board!Columns : Board!Piles(h)[Column(c)] = Board!Faces(h.tableau[c])
      /\ \A s \in Suits : Board!Piles(h)[Foundation(s)] = h.foundations[s]
  BY PilesOf
<1>2. ASSUME NEW q \in Board!PileNames PROVE Board!Piles(h)[q] = P[q]
  <2>1. q = Stock \/ q = Waste \/ (\E c \in Board!Columns : q = Column(c)) \/ (\E s \in Suits : q = Foundation(s))
    BY PileKinds
  <2> QED
    BY <1>1, <2>1
<1> QED
  BY <1>1, <1>2

LEMMA LastOne ==
  ASSUME NEW S, NEW s \in Seq(S), s # <<>>
  PROVE  /\ Len(s) \in Nat \ {0} /\ Board!Last(s) = s[Len(s)] /\ Board!Last(s) \in S /\ Len(s) \in DOMAIN s
         /\ Board!Front(s) = SubSeq(s, 1, Len(s) - 1) /\ Board!Front(s) \in Seq(S)
         /\ SubSeq(s, Len(s) - 1 + 1, Len(s)) = <<Board!Last(s)>>
         /\ Len(Board!Front(s)) = Len(s) - 1 /\ \A i \in 1..(Len(s) - 1) : Board!Front(s)[i] = s[i]
<1>1. Len(s) \in Nat \ {0} /\ Len(s) - 1 + 1 = Len(s)
  BY EmptySeq
<1>2. SubSeq(s, Len(s), Len(s)) = <<s[Len(s)]>>
  <2>1. SubSeq(s, Len(s), Len(s)) = SubSeq(s, Len(s), Len(s) - 1) \o <<s[Len(s)]>>
    BY <1>1, SubSeqRecursiveSecond
  <2>2. SubSeq(s, Len(s), Len(s) - 1) = <<>>
    BY <1>1, SubSeqEmpty
  <2>3. <<s[Len(s)]>> \in Seq({s[Len(s)]})
    OBVIOUS
  <2> QED
    BY <2>1, <2>2, <2>3, ConcatEmptySeq
<1> QED
  BY <1>1, <1>2 DEF Board!Last, Board!Front

LEMMA MovedIs ==
  ASSUME NEW P \in [Board!PileNames -> Seq(Board!Cards)], NEW a \in Board!PileNames, NEW b \in Board!PileNames,
         a # b, NEW n \in 1..Len(P[a])
  PROVE  /\ Moved(P, a, b, n) \in [Board!PileNames -> Seq(Board!Cards)]
         /\ Moved(P, a, b, n)[a] = SubSeq(P[a], 1, Len(P[a]) - n)
         /\ Moved(P, a, b, n)[b] = P[b] \o SubSeq(P[a], Len(P[a]) - n + 1, Len(P[a]))
         /\ \A q \in Board!PileNames : q # a /\ q # b => Moved(P, a, b, n)[q] = P[q]
<1>1. /\ SubSeq(P[a], 1, Len(P[a]) - n) \in Seq(Board!Cards)
      /\ P[b] \o SubSeq(P[a], Len(P[a]) - n + 1, Len(P[a])) \in Seq(Board!Cards)
  OBVIOUS
<1> QED
  BY <1>1 DEF Moved

-----------------------------------------------------------------------------
LEMMA TalonOf ==
  ASSUME NEW S, NEW s \in Seq(S), NEW w \in Seq(S)
  PROVE  /\ s \o Board!Reverse(w) \in Seq(S) /\ Len(s \o Board!Reverse(w)) = Len(s) + Len(w)
         /\ \A i \in 1..Len(s) : (s \o Board!Reverse(w))[i] = s[i]
         /\ \A i \in (Len(s) + 1)..(Len(s) + Len(w)) :
              (s \o Board!Reverse(w))[i] = w[(Len(w) - (i - Len(s))) + 1]
<1>1. Board!Reverse(w) \in Seq(S) /\ Len(Board!Reverse(w)) = Len(w)
      /\ \A i \in 1..Len(w) : Board!Reverse(w)[i] = w[(Len(w) - i) + 1]
  BY DEF Board!Reverse
<1>2. /\ s \o Board!Reverse(w) \in Seq(S) /\ Len(s \o Board!Reverse(w)) = Len(s) + Len(w)
      /\ \A i \in 1..(Len(s) + Len(w)) :
           (s \o Board!Reverse(w))[i] = IF i =< Len(s) THEN s[i] ELSE Board!Reverse(w)[i - Len(s)]
  <2> DEFINE r == Board!Reverse(w)
  <2>1. r \in Seq(S) /\ Len(r) = Len(w)
    BY <1>1
  <2> HIDE DEF r
  <2>2. /\ s \o r \in Seq(S) /\ Len(s \o r) = Len(s) + Len(r)
        /\ \A i \in 1..Len(s) : (s \o r)[i] = s[i]
        /\ \A i \in (Len(s) + 1)..(Len(s) + Len(r)) : (s \o r)[i] = r[i - Len(s)]
    BY <2>1, Joined
  <2>3. \A i \in 1..(Len(s) + Len(w)) : (s \o r)[i] = IF i =< Len(s) THEN s[i] ELSE r[i - Len(s)]
    BY <2>1, <2>2
  <2> QED
    BY <2>1, <2>2, <2>3 DEF r
<1>3. Len(s) \in Nat /\ Len(w) \in Nat
  OBVIOUS
<1>4. ASSUME NEW i \in (Len(s) + 1)..(Len(s) + Len(w))
      PROVE  (s \o Board!Reverse(w))[i] = w[(Len(w) - (i - Len(s))) + 1]
  <2>1. i \in 1..(Len(s) + Len(w)) /\ ~(i =< Len(s)) /\ i - Len(s) \in 1..Len(w)
    BY <1>3
  <2> QED
    BY <1>1, <1>2, <2>1
<1>5. ASSUME NEW i \in 1..Len(s) PROVE (s \o Board!Reverse(w))[i] = s[i]
  BY <1>2, <1>3
<1> QED
  BY <1>2, <1>4, <1>5

\* Drawing a card leaves the talon as it is, and so does turning it.
LEMMA DrawnTalon ==
  ASSUME NEW S, NEW s \in Seq(S), NEW w \in Seq(S), s # <<>>
  PROVE  Board!Front(s) \o Board!Reverse(Append(w, Board!Last(s))) = s \o Board!Reverse(w)
<1> DEFINE f == Board!Front(s)
<1> DEFINE x == Board!Last(s)
<1>1. f \in Seq(S) /\ x \in S /\ f = SubSeq(s, 1, Len(s) - 1) /\ x = s[Len(s)] /\ Len(s) \in Nat \ {0}
  BY LastOne
<1>2. s = f \o <<x>>
  <2>1. SubSeq(s, 1, Len(s)) = SubSeq(s, 1, Len(s) - 1) \o <<s[Len(s)]>>
    BY <1>1, SubSeqRecursiveSecond
  <2> QED
    BY <1>1, <2>1, SubSeqFull
<1>3. Board!Reverse(w) \in Seq(S) /\ <<x>> \in Seq(S)
  BY <1>1 DEF Board!Reverse
<1> HIDE DEF f, x
<1>4. Board!Reverse(Append(w, x)) = <<x>> \o Board!Reverse(w)
  <2> DEFINE v == Append(w, x)
  <2> DEFINE a == Board!Reverse(v)
  <2> DEFINE b == <<x>> \o Board!Reverse(w)
  <2>1. /\ v \in Seq(S) /\ Len(v) = Len(w) + 1 /\ v[Len(w) + 1] = x /\ Len(w) \in Nat
        /\ \A i \in 1..Len(w) : v[i] = w[i]
    BY <1>1, AppendProperties
  <2> HIDE DEF v
  <2>2. /\ a \in Seq(S) /\ Len(a) = Len(w) + 1
        /\ \A i \in 1..(Len(w) + 1) : a[i] = v[((Len(w) + 1) - i) + 1]
    BY <2>1 DEF Board!Reverse
  <2> DEFINE o == <<x>>
  <2>3. o \in Seq(S) /\ Len(o) = 1 /\ o[1] = x
    BY <1>1
  <2>4. /\ b \in Seq(S) /\ Len(b) = Len(w) + 1 /\ b[1] = x
        /\ \A i \in 2..(Len(w) + 1) : b[i] = w[(Len(w) - (i - 1)) + 1]
    <3>1. b = o \o Board!Reverse(w)
      OBVIOUS
    <3> HIDE DEF o, b
    <3>2. o \in Seq(S)
      BY <2>3
    <3>3. /\ o \o Board!Reverse(w) \in Seq(S) /\ Len(o \o Board!Reverse(w)) = Len(o) + Len(w)
          /\ \A i \in 1..Len(o) : (o \o Board!Reverse(w))[i] = o[i]
          /\ \A i \in (Len(o) + 1)..(Len(o) + Len(w)) :
               (o \o Board!Reverse(w))[i] = w[(Len(w) - (i - Len(o))) + 1]
      BY <3>2, TalonOf
    <3> QED
      BY <2>1, <2>3, <3>1, <3>3
  <2> HIDE DEF a, b
  <2>5. ASSUME NEW i \in 1..(Len(w) + 1) PROVE a[i] = b[i]
    <3>1. CASE i = 1
      BY <2>1, <2>2, <2>4, <3>1
    <3>2. CASE i # 1
      <4>1. ((Len(w) + 1) - i) + 1 \in 1..Len(w) /\ ((Len(w) + 1) - i) + 1 = (Len(w) - (i - 1)) + 1
        BY <2>1, <3>2
      <4>2. i \in 2..(Len(w) + 1)
        BY <2>1, <3>2
      <4> QED
        BY <2>1, <2>2, <2>4, <4>1, <4>2
    <3> QED
      BY <3>1, <3>2
  <2>6. a = b
    BY <2>2, <2>4, <2>5, SeqEqual
  <2> QED
    BY <2>6 DEF a, b, v
<1>5. f \o (<<x>> \o Board!Reverse(w)) = (f \o <<x>>) \o Board!Reverse(w)
  <2> DEFINE o == <<x>>
  <2> DEFINE r == Board!Reverse(w)
  <2>1. o \in Seq(S) /\ r \in Seq(S)
    BY <1>3
  <2> HIDE DEF o, r
  <2>2. f \in Seq(S)
    BY <1>1
  <2>3. (f \o o) \o r = f \o (o \o r)
    BY <2>1, <2>2, ConcatAssociative
  <2> QED
    BY <2>3 DEF o, r
<1> QED
  BY <1>2, <1>4, <1>5 DEF f, x

LEMMA TurnedTalon ==
  ASSUME NEW S, NEW w \in Seq(S)
  PROVE  Board!Reverse(w) \o Board!Reverse(<<>>) = <<>> \o Board!Reverse(w)
<1>1. Board!Reverse(w) \in Seq(S) /\ Board!Reverse(<<>>) = <<>>
  BY DEF Board!Reverse
<1> QED
  BY <1>1

\* Playing the last card of the waste takes one card out of the talon.
LEMMA PlayedTalon ==
  ASSUME NEW g, NEW h, IsBoard(g), IsBoard(h), TalonOrdered(g), g.waste # <<>>,
         h.deck = g.deck, h.stock = g.stock, h.waste = Board!Front(g.waste)
  PROVE  TalonOrdered(h)
<1> DEFINE s == g.stock
<1> DEFINE w == g.waste
<1> DEFINE t == s \o Board!Reverse(w)
<1> DEFINE u == s \o Board!Reverse(Board!Front(w))
<1> DEFINE In(i) == IF i =< Len(s) THEN i ELSE i + 1
<1>1. s \in Seq(Board!Cards) /\ w \in Seq(Board!Cards) /\ Len(s) \in Nat
  BY DEF IsBoard
<1>2. /\ Board!Front(w) \in Seq(Board!Cards) /\ Len(Board!Front(w)) = Len(w) - 1 /\ Len(w) \in Nat \ {0}
      /\ \A i \in 1..(Len(w) - 1) : Board!Front(w)[i] = w[i]
  BY <1>1, LastOne
<1>3. /\ t \in Seq(Board!Cards) /\ Len(t) = Len(s) + Len(w)
      /\ \A i \in 1..Len(s) : t[i] = s[i]
      /\ \A i \in (Len(s) + 1)..(Len(s) + Len(w)) : t[i] = w[(Len(w) - (i - Len(s))) + 1]
  BY <1>1, TalonOf
<1>4. /\ u \in Seq(Board!Cards) /\ Len(u) = Len(s) + (Len(w) - 1)
      /\ \A i \in 1..Len(s) : u[i] = s[i]
      /\ \A i \in (Len(s) + 1)..(Len(s) + (Len(w) - 1)) :
           u[i] = Board!Front(w)[((Len(w) - 1) - (i - Len(s))) + 1]
  <2> DEFINE v == Board!Front(w)
  <2>1. v \in Seq(Board!Cards) /\ Len(v) = Len(w) - 1 /\ u = s \o Board!Reverse(v)
    BY <1>2
  <2> HIDE DEF s, u, v
  <2>2. /\ u \in Seq(Board!Cards) /\ Len(u) = Len(s) + Len(v)
        /\ \A i \in 1..Len(s) : u[i] = s[i]
        /\ \A i \in (Len(s) + 1)..(Len(s) + Len(v)) : u[i] = v[(Len(v) - (i - Len(s))) + 1]
    BY <1>1, <2>1, TalonOf
  <2> QED
    BY <2>1, <2>2 DEF v
<1>5. \A i, j \in DOMAIN t : i < j => Board!Position(g, t[i]) < Board!Position(g, t[j])
  BY DEF TalonOrdered
<1>6. \A card : Board!Position(h, card) = Board!Position(g, card)
  BY DEF Board!Position
<1> HIDE DEF s, w, t, u
<1>7. ASSUME NEW i \in 1..(Len(s) + (Len(w) - 1))
      PROVE  In(i) \in 1..(Len(s) + Len(w)) /\ u[i] = t[In(i)]
  <2>1. CASE i =< Len(s)
    BY <1>1, <1>2, <1>3, <1>4, <2>1
  <2>2. CASE i > Len(s)
    <3>1. u[i] = Board!Front(w)[((Len(w) - 1) - (i - Len(s))) + 1]
      BY <1>1, <1>2, <1>4, <2>2
    <3>2. ((Len(w) - 1) - (i - Len(s))) + 1 \in 1..(Len(w) - 1)
      BY <1>1, <1>2, <2>2
    <3>3. ((Len(w) - 1) - (i - Len(s))) + 1 = (Len(w) - ((i + 1) - Len(s))) + 1
      BY <1>1, <1>2, <2>2
    <3>4. i + 1 \in (Len(s) + 1)..(Len(s) + Len(w)) /\ i + 1 \in 1..(Len(s) + Len(w))
      BY <1>1, <1>2, <2>2
    <3>5. t[i + 1] = w[(Len(w) - ((i + 1) - Len(s))) + 1]
      BY <1>3, <3>4
    <3> QED
      BY <1>1, <1>2, <2>2, <3>1, <3>2, <3>3, <3>4, <3>5
  <2> QED
    BY <1>1, <2>1, <2>2
<1>8. DOMAIN u = 1..(Len(s) + (Len(w) - 1)) /\ DOMAIN t = 1..(Len(s) + Len(w))
  BY <1>3, <1>4
<1>9. ASSUME NEW i \in DOMAIN u, NEW j \in DOMAIN u, i < j
      PROVE  Board!Position(h, u[i]) < Board!Position(h, u[j])
  <2>1. In(i) < In(j)
    BY <1>1, <1>8, <1>9
  <2> HIDE DEF In
  <2>2. In(i) \in DOMAIN t /\ In(j) \in DOMAIN t /\ u[i] = t[In(i)] /\ u[j] = t[In(j)]
    BY <1>7, <1>8
  <2> QED
    BY <1>5, <1>6, <2>1, <2>2
<1> QED
  BY <1>9 DEF TalonOrdered, s, w, u

LEMMA FoundationGrows ==
  ASSUME NEW s, NEW pile \in Seq(Board!Cards), FoundationOrdered(s, pile), NEW card \in Board!Cards,
         Board!suit(card) = s, Board!can_place_on_foundation(card, pile), Suits \subseteq Nat
  PROVE  FoundationOrdered(s, Append(pile, card))
<1>1. Len(pile) \in Nat /\ DOMAIN pile = 1..Len(pile) /\ \A i \in 1..Len(pile) : pile[i] = <<s, i>>
  BY DEF FoundationOrdered
<1>2. card = <<card[1], card[2]>> /\ card[1] = s
  BY DEF Board!Cards, Board!suit
<1>3. card[2] = Len(pile) + 1
  <2>1. CASE pile = <<>>
    BY <2>1 DEF Board!can_place_on_foundation, Board!rank
  <2>2. CASE pile # <<>>
    <3>1. Len(pile) \in 1..Len(pile)
      BY <1>1, <2>2
    <3>2. pile[Len(pile)] = <<s, Len(pile)>>
      BY <1>1, <3>1
    <3> QED
      BY <2>2, <3>2 DEF Board!can_place_on_foundation, Board!rank, Board!Last
  <2> QED
    BY <2>1, <2>2
<1>4. /\ Append(pile, card) \in Seq(Board!Cards) /\ DOMAIN Append(pile, card) = 1..(Len(pile) + 1)
      /\ \A i \in 1..Len(pile) : Append(pile, card)[i] = pile[i]
      /\ Append(pile, card)[Len(pile) + 1] = card
  BY <1>1
<1>5. ASSUME NEW i \in 1..(Len(pile) + 1) PROVE Append(pile, card)[i] = <<s, i>>
  BY <1>1, <1>2, <1>3, <1>4
<1>6. Append(pile, card) = [i \in 1..(Len(pile) + 1) |-> <<s, i>>]
  <2> DEFINE more == Append(pile, card)
  <2>1. more = [i \in 1..(Len(pile) + 1) |-> more[i]]
    <3>1. more \in Seq(Board!Cards) /\ DOMAIN more = 1..(Len(pile) + 1)
      BY <1>4
    <3> HIDE DEF more
    <3> QED
      BY <3>1
  <2> HIDE DEF more
  <2>2. more = [i \in 1..(Len(pile) + 1) |-> <<s, i>>]
    BY <1>5, <2>1 DEF more
  <2> QED
    BY <2>2 DEF more
<1> QED
  BY <1>4, <1>6 DEF FoundationOrdered

LEMMA AtMostOne ==
  ASSUME NEW S, NEW x, S \subseteq {x} PROVE Board!Cardinality(S) =< 1
<1>1. Board!Cardinality(S) = Cardinality(S)
  BY DEF Board!Cardinality, Cardinality
<1>2. S = {} \/ S = {x}
  OBVIOUS
<1>3. Cardinality({}) = 0 /\ Cardinality({x}) = 1
  BY FS_EmptySet, FS_Singleton
<1> QED
  BY <1>1, <1>2, <1>3

LEMMA PilesBegin ==
  ASSUME NEW S, NEW s \in Seq(S), NEW t \in Seq(S)
  PROVE  /\ Board!IsPrefix(s, s) /\ Board!IsPrefix(s, s \o t)
         /\ \A n \in 0..Len(s) : Board!IsPrefix(SubSeq(s, 1, n), s)
<1>1. Len(s) \in Nat /\ Len(t) \in Nat
  OBVIOUS
<1>2. Board!IsPrefix(s, s \o t)
  <2>1. s \o t \in Seq(S) /\ Len(s \o t) = Len(s) + Len(t) /\ \A i \in 1..Len(s) : (s \o t)[i] = s[i]
    BY <1>1, Joined
  <2>2. /\ SubSeq(s \o t, 1, Len(s)) \in Seq(S) /\ Len(SubSeq(s \o t, 1, Len(s))) = Len(s)
        /\ \A i \in 1..Len(s) : SubSeq(s \o t, 1, Len(s))[i] = s[i]
    BY <1>1, <2>1
  <2>3. SubSeq(s \o t, 1, Len(s)) = s
    BY <2>2, SeqEqual
  <2> QED
    BY <1>1, <2>1, <2>3, SubSeqFull DEF Board!IsPrefix
<1>3. ASSUME NEW n \in 0..Len(s) PROVE Board!IsPrefix(SubSeq(s, 1, n), s)
  <2>1. SubSeq(s, 1, n) \in Seq(S) /\ Len(SubSeq(s, 1, n)) = n
    BY <1>1
  <2>2. SubSeq(SubSeq(s, 1, n), 1, Len(SubSeq(s, 1, n))) = SubSeq(s, 1, n)
    BY <2>1, SubSeqFull
  <2> QED
    BY <1>1, <2>1, <2>2 DEF Board!IsPrefix
<1>4. Board!IsPrefix(s, s)
  BY <1>1 DEF Board!IsPrefix
<1> QED
  BY <1>2, <1>3, <1>4

\* A move that takes from the column x and puts on the column y, either of which
\* may be none, is one move.
LEMMA OneMoveIf ==
  ASSUME NEW g, NEW h, IsBoard(g), IsBoard(h), g # h, h.deck = g.deck, NEW x, NEW y, x # y,
         \A c \in Board!Columns : c # x /\ c # y => h.tableau[c] = g.tableau[c],
         x \in Board!Columns => Board!IsPrefix(Board!Faces(h.tableau[x]), Board!Faces(g.tableau[x])),
         y \in Board!Columns => Board!IsPrefix(Board!Faces(g.tableau[y]), Board!Faces(h.tableau[y])),
         \A s \in Suits : Len(h.foundations[s]) - Len(g.foundations[s]) \in {0, 1},
         g.waste # h.waste => g.tableau = h.tableau \/ g.stock = h.stock
  PROVE  Board!OneMove(g, h)
<1>1. \A c \in Board!Columns :
        /\ Len(Board!Faces(g.tableau[c])) = Len(g.tableau[c]) /\ Len(g.tableau[c]) \in Nat
        /\ Len(Board!Faces(h.tableau[c])) = Len(h.tableau[c]) /\ Len(h.tableau[c]) \in Nat
        /\ Board!Faces(g.tableau[c]) \in Seq(Board!Cards)
  BY FacesOf DEF IsBoard
<1>2. x \in Board!Columns => Len(h.tableau[x]) =< Len(g.tableau[x])
  BY <1>1 DEF Board!IsPrefix
<1>3. y \in Board!Columns => Len(g.tableau[y]) =< Len(h.tableau[y])
  BY <1>1 DEF Board!IsPrefix
<1>4. \A c \in Board!Columns : c # x /\ c # y => Len(h.tableau[c]) = Len(g.tableau[c])
  OBVIOUS
<1>5. Board!Gone(g, h) \subseteq {x}
  BY <1>1, <1>3, <1>4 DEF Board!Gone
<1>6. Board!Grown(g, h) \subseteq {y}
  BY <1>1, <1>2, <1>4 DEF Board!Grown
<1>7. ASSUME NEW c \in Board!Columns
      PROVE  \/ Board!IsPrefix(Board!Faces(g.tableau[c]), Board!Faces(h.tableau[c]))
             \/ Board!IsPrefix(Board!Faces(h.tableau[c]), Board!Faces(g.tableau[c]))
  <2>1. Board!IsPrefix(Board!Faces(g.tableau[c]), Board!Faces(g.tableau[c]))
    BY <1>1, PilesBegin
  <2> QED
    BY <2>1
<1> QED
  BY <1>5, <1>6, <1>7, AtMostOne DEF Board!OneMove

-----------------------------------------------------------------------------
LEMMA SameTalon ==
  ASSUME NEW g, NEW h, TalonOrdered(g), h.deck = g.deck,
         h.stock \o Board!Reverse(h.waste) = g.stock \o Board!Reverse(g.waste)
  PROVE  TalonOrdered(h)
<1>1. \A card : Board!Position(h, card) = Board!Position(g, card)
  BY DEF Board!Position
<1> QED
  BY <1>1 DEF TalonOrdered

\* A board whose piles are those of another but for one that gave and one that got.
LEMMA PilesMoved ==
  ASSUME NEW g, IsBoard(g), Board!EachOnce(Board!Piles(g)), NEW h, IsBoard(h),
         NEW a \in Board!PileNames, NEW b \in Board!PileNames, a # b, NEW n \in 1..Len(Board!Piles(g)[a]),
         Board!Piles(h)[a] = SubSeq(Board!Piles(g)[a], 1, Len(Board!Piles(g)[a]) - n),
         Board!Piles(h)[b] = Board!Piles(g)[b]
                             \o SubSeq(Board!Piles(g)[a], Len(Board!Piles(g)[a]) - n + 1, Len(Board!Piles(g)[a])),
         \A q \in Board!PileNames : q # a /\ q # b => Board!Piles(h)[q] = Board!Piles(g)[q]
  PROVE  Board!EachOnce(Board!Piles(h))
<1> DEFINE P == Board!Piles(g)
<1> DEFINE Q == Board!Piles(h)
<1> DEFINE M == Moved(P, a, b, n)
<1>1. P \in [Board!PileNames -> Seq(Board!Cards)] /\ Q \in [Board!PileNames -> Seq(Board!Cards)]
  BY PilesOf
<1>2. /\ Board!EachOnce(P) /\ n \in 1..Len(P[a]) /\ Q[a] = SubSeq(P[a], 1, Len(P[a]) - n)
      /\ Q[b] = P[b] \o SubSeq(P[a], Len(P[a]) - n + 1, Len(P[a]))
      /\ \A q \in Board!PileNames : q # a /\ q # b => Q[q] = P[q]
  OBVIOUS
<1> HIDE DEF P, Q
<1>3. /\ M \in [Board!PileNames -> Seq(Board!Cards)] /\ M[a] = SubSeq(P[a], 1, Len(P[a]) - n)
      /\ M[b] = P[b] \o SubSeq(P[a], Len(P[a]) - n + 1, Len(P[a]))
      /\ \A q \in Board!PileNames : q # a /\ q # b => M[q] = P[q]
  <2>1. /\ SubSeq(P[a], 1, Len(P[a]) - n) \in Seq(Board!Cards)
        /\ P[b] \o SubSeq(P[a], Len(P[a]) - n + 1, Len(P[a])) \in Seq(Board!Cards)
    BY <1>1, <1>2
  <2> QED
    BY <1>1, <2>1 DEF Moved
<1>4. Board!EachOnce(M)
  BY <1>1, <1>2, MovedOnce
<1> HIDE DEF M
<1>5. \A q \in Board!PileNames : Q[q] = M[q]
  BY <1>2, <1>3
<1>6. Q = M
  BY <1>1, <1>3, <1>5
<1>7. Board!EachOnce(Q)
  BY <1>4, <1>6
<1> QED
  BY <1>7 DEF Q

LEMMA SameColumns ==
  ASSUME NEW g, NEW h, h.tableau = g.tableau, NEW c \in Board!Columns
  PROVE  Board!Piles(h)[Column(c)] = Board!Piles(g)[Column(c)]
BY PileKinds DEF Board!Piles, Column

LEMMA Fields ==
  ASSUME NEW g, IsBoard(g)
  PROVE  /\ g.deck \in Seq(Board!Cards) /\ g.stock \in Seq(Board!Cards) /\ g.waste \in Seq(Board!Cards)
         /\ \A c \in Board!Columns : g.tableau[c] \in Seq(Laid)
         /\ \A s \in Suits : g.foundations[s] \in Seq(Board!Cards) /\ Len(g.foundations[s]) \in Nat
         /\ g.tableau \in [Board!Columns -> Seq(Laid)] /\ g.foundations \in [Suits -> Seq(Board!Cards)]
BY DEF IsBoard

LEMMA BoardBy ==
  ASSUME NEW h, h = [deck |-> h.deck, tableau |-> h.tableau, stock |-> h.stock, waste |-> h.waste,
                     foundations |-> h.foundations],
         h.deck \in Seq(Board!Cards), h.stock \in Seq(Board!Cards), h.waste \in Seq(Board!Cards),
         h.tableau \in [Board!Columns -> Seq(Laid)], h.foundations \in [Suits -> Seq(Board!Cards)]
  PROVE  IsBoard(h)
BY DEF IsBoard

LEMMA OnlyWasteOrStock ==
  ASSUME NEW g, NEW h, IsBoard(g), IsBoard(h), g # h, h.deck = g.deck, h.tableau = g.tableau,
         \A s \in Suits : Len(h.foundations[s]) - Len(g.foundations[s]) \in {0, 1}
  PROVE  Board!OneMove(g, h)
<1> DEFINE x == 0
<1> DEFINE y == -1
<1>1. x # y /\ x \notin Board!Columns /\ y \notin Board!Columns
  BY DEF Board!Columns
<1> HIDE DEF x, y
<1> QED
  BY <1>1, OneMoveIf

LEMMA OneColumnGrows ==
  ASSUME NEW g, NEW h, IsBoard(g), IsBoard(h), g # h, h.deck = g.deck, NEW y \in Board!Columns,
         \A c \in Board!Columns : c # y => h.tableau[c] = g.tableau[c],
         Board!IsPrefix(Board!Faces(g.tableau[y]), Board!Faces(h.tableau[y])),
         \A s \in Suits : Len(h.foundations[s]) - Len(g.foundations[s]) \in {0, 1}, h.stock = g.stock
  PROVE  Board!OneMove(g, h)
<1> DEFINE x == 0
<1>1. x # y /\ x \notin Board!Columns
  BY DEF Board!Columns
<1> HIDE DEF x
<1> QED
  BY <1>1, OneMoveIf

LEMMA OneColumnShrinks ==
  ASSUME NEW g, NEW h, IsBoard(g), IsBoard(h), g # h, h.deck = g.deck, NEW x \in Board!Columns,
         \A c \in Board!Columns : c # x => h.tableau[c] = g.tableau[c],
         Board!IsPrefix(Board!Faces(h.tableau[x]), Board!Faces(g.tableau[x])),
         \A s \in Suits : Len(h.foundations[s]) - Len(g.foundations[s]) \in {0, 1}, h.stock = g.stock
  PROVE  Board!OneMove(g, h)
<1> DEFINE y == 0
<1>1. x # y /\ y \notin Board!Columns
  BY DEF Board!Columns
<1> HIDE DEF y
<1> QED
  BY <1>1, OneMoveIf

LEMMA DrawMoves ==
  ASSUME NEW g, LegalBoard(g), NEW h, h = Board!draw_stock(g), h # g
  PROVE  LegalBoard(h) /\ Board!OneMove(g, h)
<1>1. IsBoard(g) /\ TalonOrdered(g) /\ Board!EachOnce(Board!Piles(g))
  BY DEF LegalBoard
<1> DEFINE s == g.stock
<1> DEFINE w == g.waste
<1> DEFINE P == Board!Piles(g)
<1>2. s \in Seq(Board!Cards) /\ w \in Seq(Board!Cards)
  BY <1>1 DEF IsBoard
<1>3. /\ P \in [Board!PileNames -> Seq(Board!Cards)] /\ P[Stock] = s /\ P[Waste] = w
      /\ \A c \in Board!Columns : P[Column(c)] = Board!Faces(g.tableau[c])
      /\ \A t \in Suits : P[Foundation(t)] = g.foundations[t]
  BY <1>1, PilesOf
<1> HIDE DEF P
<1>5. CASE s # <<>>
  <2>1. /\ Board!Front(s) \in Seq(Board!Cards) /\ Board!Last(s) \in Board!Cards /\ Len(s) \in Nat \ {0}
        /\ Board!Front(s) = SubSeq(s, 1, Len(s) - 1)
        /\ SubSeq(s, Len(s) - 1 + 1, Len(s)) = <<Board!Last(s)>>
    BY <1>2, <1>5, LastOne
  <2>2. /\ Append(w, Board!Last(s)) \in Seq(Board!Cards)
        /\ Append(w, Board!Last(s)) = w \o SubSeq(s, Len(s) - 1 + 1, Len(s))
    <3> DEFINE x == Board!Last(s)
    <3>1. x \in Board!Cards /\ SubSeq(s, Len(s) - 1 + 1, Len(s)) = <<x>>
      BY <2>1
    <3> HIDE DEF x, s, w
    <3>2. Append(w, x) \in Seq(Board!Cards) /\ Append(w, x) = w \o <<x>>
      BY <1>2, <3>1, AppendIsConcat
    <3> QED
      BY <3>1, <3>2 DEF x
  <2>3. h = [g EXCEPT !.stock = Board!Front(s), !.waste = Append(w, Board!Last(s))]
    BY <1>5 DEF Board!draw_stock
  <2>4. /\ IsBoard(h) /\ h.deck = g.deck /\ h.tableau = g.tableau /\ h.foundations = g.foundations
        /\ h.stock = Board!Front(s) /\ h.waste = Append(w, Board!Last(s))
    <3> DEFINE a == Board!Front(s)
    <3> DEFINE b == Append(w, Board!Last(s))
    <3>1. a \in Seq(Board!Cards) /\ b \in Seq(Board!Cards) /\ h = [g EXCEPT !.stock = a, !.waste = b]
      BY <2>1, <2>2, <2>3
    <3> HIDE DEF a, b
    <3>2. /\ IsBoard(h) /\ h.deck = g.deck /\ h.tableau = g.tableau /\ h.foundations = g.foundations
          /\ h.stock = a /\ h.waste = b
      BY <1>1, <3>1 DEF IsBoard
    <3> QED
      BY <3>2 DEF a, b
  <2> DEFINE Q == Board!Piles(h)
  <2>5. /\ Q[Stock] = Board!Front(s) /\ Q[Waste] = Append(w, Board!Last(s))
        /\ \A t \in Suits : Q[Foundation(t)] = g.foundations[t]
    BY <2>4, PilesOf
  <2>6. \A c \in Board!Columns : Q[Column(c)] = P[Column(c)]
    BY <2>4, SameColumns DEF P
  <2> HIDE DEF Q
  <2>7. Board!EachOnce(Q)
    <3>1. \A q \in Board!PileNames : q # Stock /\ q # Waste => Q[q] = P[q]
      BY <1>3, <2>5, <2>6, PileKinds
    <3>2. 1 \in 1..Len(P[Stock]) /\ Stock # Waste /\ Stock \in Board!PileNames /\ Waste \in Board!PileNames
      BY <1>3, <2>1, PileKinds
    <3>3. /\ Q[Stock] = SubSeq(P[Stock], 1, Len(P[Stock]) - 1)
          /\ Q[Waste] = P[Waste] \o SubSeq(P[Stock], Len(P[Stock]) - 1 + 1, Len(P[Stock]))
      BY <1>3, <2>1, <2>2, <2>5
    <3> QED
      BY <1>1, <2>4, <3>1, <3>2, <3>3, PilesMoved DEF P, Q
  <2>8. TalonOrdered(h)
    <3>1. h.stock \o Board!Reverse(h.waste) = g.stock \o Board!Reverse(g.waste)
      BY <1>2, <1>5, <2>4, DrawnTalon
    <3> QED
      BY <1>1, <2>4, <3>1, SameTalon
  <2>9. LegalBoard(h)
    BY <2>4, <2>7, <2>8 DEF LegalBoard, Q
  <2>10. \A t \in Suits : Len(h.foundations[t]) - Len(g.foundations[t]) \in {0, 1}
    BY <1>1, <2>4 DEF IsBoard
  <2>11. Board!OneMove(g, h)
    BY <1>1, <2>4, <2>10, OnlyWasteOrStock
  <2> QED
    BY <2>9, <2>11
<1>6. CASE s = <<>>
  <2>1. /\ h.deck = g.deck /\ h.tableau = g.tableau /\ h.foundations = g.foundations
        /\ h.stock = Board!Reverse(w) /\ h.waste = <<>>
    BY <1>1, <1>6 DEF Board!draw_stock, IsBoard
  <2>2. Board!Reverse(w) \in Seq(Board!Cards) /\ <<>> \in Seq(Board!Cards)
    BY <1>2 DEF Board!Reverse
  <2>3. IsBoard(h)
    BY <1>1, <1>6, <2>2 DEF Board!draw_stock, IsBoard
  <2> DEFINE M == [P EXCEPT ![Waste] = <<>>, ![Stock] = Board!Reverse(P[Waste])]
  <2>4. /\ M \in [Board!PileNames -> Seq(Board!Cards)]
        /\ M[Stock] = Board!Reverse(w) /\ M[Waste] = <<>>
        /\ \A q \in Board!PileNames : q # Stock /\ q # Waste => M[q] = P[q]
    BY <1>3, <2>2, PileKinds
  <2> HIDE DEF M
  <2>5. Board!Piles(h) = M
    <3>1. \A c \in Board!Columns : M[Column(c)] = Board!Faces(h.tableau[c])
      BY <1>3, <2>1, <2>4, PileKinds
    <3>2. \A t \in Suits : M[Foundation(t)] = h.foundations[t]
      BY <1>3, <2>1, <2>4, PileKinds
    <3> QED
      BY <2>1, <2>3, <2>4, <3>1, <3>2, SamePiles
  <2>6. Board!EachOnce(Board!Piles(h))
    <3>1. P[Stock] = <<>> /\ Board!EachOnce(P) /\ Stock \in Board!PileNames /\ Waste \in Board!PileNames
          /\ Stock # Waste
      BY <1>1, <1>3, <1>6, PileKinds DEF P
    <3>2. Board!EachOnce([P EXCEPT ![Waste] = <<>>, ![Stock] = Board!Reverse(P[Waste])])
      BY <1>3, <3>1, TurnedOnce
    <3> QED
      BY <2>5, <3>2 DEF M
  <2>7. TalonOrdered(h)
    <3>1. h.stock \o Board!Reverse(h.waste) = g.stock \o Board!Reverse(g.waste)
      BY <1>2, <1>6, <2>1, TurnedTalon
    <3> QED
      BY <1>1, <2>1, <3>1, SameTalon
  <2>8. LegalBoard(h)
    BY <2>1, <2>3, <2>6, <2>7 DEF LegalBoard
  <2>9. \A t \in Suits : Len(h.foundations[t]) - Len(g.foundations[t]) \in {0, 1}
    BY <1>1, <2>1 DEF IsBoard
  <2>10. Board!OneMove(g, h)
    BY <1>1, <2>1, <2>3, <2>9, OnlyWasteOrStock
  <2> QED
    BY <2>8, <2>10
<1> QED
  BY <1>5, <1>6

\* What the moves of the last card of the waste have in common.
LEMMA LastOfWaste ==
  ASSUME NEW g, LegalBoard(g), g.waste # <<>>
  PROVE  /\ g.waste \in Seq(Board!Cards) /\ Len(g.waste) \in Nat \ {0} /\ Board!Last(g.waste) \in Board!Cards
         /\ Board!Front(g.waste) \in Seq(Board!Cards)
         /\ Board!Front(g.waste) = SubSeq(g.waste, 1, Len(g.waste) - 1)
         /\ SubSeq(g.waste, Len(g.waste) - 1 + 1, Len(g.waste)) = <<Board!Last(g.waste)>>
BY LastOne DEF LegalBoard, IsBoard

LEMMA WasteToTableauMoves ==
  ASSUME NEW g, LegalBoard(g), NEW dest \in Board!Columns, NEW h, h = Board!waste_to_tableau(g, dest), h # g
  PROVE  LegalBoard(h) /\ Board!OneMove(g, h)
<1> DEFINE w == g.waste
<1> DEFINE card == Board!Last(w)
<1> DEFINE P == Board!Piles(g)
<1> DEFINE run == <<Board!Up(card)>>
<1> DEFINE pile == g.tableau[dest]
<1>1. /\ IsBoard(g) /\ TalonOrdered(g) /\ Board!EachOnce(P)
      /\ \A c \in Board!Columns : ColumnOrdered(g.tableau[c])
      /\ \A t \in Suits : FoundationOrdered(t, g.foundations[t])
  BY DEF LegalBoard
<1>2. w # <<>> /\ Board!can_place_on_tableau(card, pile)
  BY DEF Board!waste_to_tableau
<1>3. h = [g EXCEPT !.waste = Board!Front(@), !.tableau[dest] = Append(@, Board!Up(card))]
  BY <1>2 DEF Board!waste_to_tableau
<1>4. /\ w \in Seq(Board!Cards) /\ Len(w) \in Nat \ {0} /\ card \in Board!Cards
      /\ Board!Front(w) \in Seq(Board!Cards) /\ Board!Front(w) = SubSeq(w, 1, Len(w) - 1)
      /\ SubSeq(w, Len(w) - 1 + 1, Len(w)) = <<card>>
  BY <1>2, LastOfWaste
<1>5. pile \in Seq(Laid) /\ Board!Up(card) \in Laid /\ Board!Up(card).card = card /\ Board!Up(card).up
  BY <1>1, <1>4 DEF IsBoard, Laid, Board!Up
<1>6. /\ run \in Seq(Laid) /\ run # <<>> /\ Board!is_valid_tail_run(run, 1) /\ run[1].card = card
      /\ Append(pile, Board!Up(card)) = pile \o run /\ Board!Faces(run) = <<card>>
  <2>1. run \in Seq(Laid) /\ Len(run) = 1 /\ DOMAIN run = 1..1 /\ run[1] = Board!Up(card)
    BY <1>5
  <2>2. Board!is_valid_tail_run(run, 1)
    BY <1>5, <2>1 DEF Board!is_valid_tail_run
  <2>3. Board!Faces(run) = <<card>>
    BY <1>5, <2>1 DEF Board!Faces
  <2>4. Append(pile, Board!Up(card)) = pile \o run
    BY <1>5, AppendIsConcat
  <2> QED
    BY <1>5, <2>1, <2>2, <2>3, <2>4
<1>7. /\ pile \o run \in Seq(Laid) /\ ColumnOrdered(pile \o run)
      /\ Board!Faces(pile \o run) = Board!Faces(pile) \o <<card>>
  BY <1>1, <1>2, <1>5, <1>6, RunPlaced
<1>8. /\ h.deck = g.deck /\ h.stock = g.stock /\ h.foundations = g.foundations /\ h.waste = Board!Front(w)
      /\ h.tableau = [g.tableau EXCEPT ![dest] = pile \o run]
      /\ h = [deck |-> h.deck, tableau |-> h.tableau, stock |-> h.stock, waste |-> h.waste,
              foundations |-> h.foundations]
  BY <1>1, <1>3, <1>6 DEF IsBoard
<1>9. /\ h.tableau[dest] = pile \o run /\ \A c \in Board!Columns : c # dest => h.tableau[c] = g.tableau[c]
      /\ h.tableau \in [Board!Columns -> Seq(Laid)]
  <2> DEFINE more == pile \o run
  <2>1. more \in Seq(Laid) /\ h.tableau = [g.tableau EXCEPT ![dest] = more]
    BY <1>7, <1>8
  <2>2. g.tableau \in [Board!Columns -> Seq(Laid)]
    BY <1>1, Fields
  <2> HIDE DEF more
  <2>3. /\ h.tableau[dest] = more /\ \A c \in Board!Columns : c # dest => h.tableau[c] = g.tableau[c]
        /\ h.tableau \in [Board!Columns -> Seq(Laid)]
    BY <2>1, <2>2
  <2> QED
    BY <2>3 DEF more
<1>10. IsBoard(h)
  <2>1. /\ h.deck \in Seq(Board!Cards) /\ h.stock \in Seq(Board!Cards) /\ h.waste \in Seq(Board!Cards)
        /\ h.foundations \in [Suits -> Seq(Board!Cards)]
    BY <1>1, <1>4, <1>8, Fields
  <2> QED
    BY <1>8, <1>9, <2>1, BoardBy
<1>11. /\ P[Stock] = g.stock /\ P[Waste] = w
       /\ \A c \in Board!Columns : P[Column(c)] = Board!Faces(g.tableau[c])
       /\ \A t \in Suits : P[Foundation(t)] = g.foundations[t]
  BY <1>1, PilesOf
<1> DEFINE Q == Board!Piles(h)
<1>12. /\ Q[Stock] = g.stock /\ Q[Waste] = Board!Front(w)
       /\ \A c \in Board!Columns : Q[Column(c)] = Board!Faces(h.tableau[c])
       /\ \A t \in Suits : Q[Foundation(t)] = g.foundations[t]
  <2>1. /\ Q[Stock] = h.stock /\ Q[Waste] = h.waste
        /\ \A c \in Board!Columns : Q[Column(c)] = Board!Faces(h.tableau[c])
        /\ \A t \in Suits : Q[Foundation(t)] = h.foundations[t]
    BY <1>10, PilesOf
  <2> HIDE DEF Q
  <2> QED
    BY <1>8, <2>1
<1>13. /\ Waste # Column(dest) /\ Waste \in Board!PileNames /\ Column(dest) \in Board!PileNames
       /\ 1 \in 1..Len(P[Waste])
  BY <1>4, <1>11, PileKinds
<1> HIDE DEF P, Q
<1>14. /\ Q[Waste] = SubSeq(P[Waste], 1, Len(P[Waste]) - 1)
       /\ Q[Column(dest)] = P[Column(dest)] \o SubSeq(P[Waste], Len(P[Waste]) - 1 + 1, Len(P[Waste]))
  BY <1>4, <1>7, <1>9, <1>11, <1>12
<1>15. \A q \in Board!PileNames : q # Waste /\ q # Column(dest) => Q[q] = P[q]
  <2>1. \A c \in Board!Columns : Column(c) # Column(dest) => Q[Column(c)] = P[Column(c)]
    BY <1>9, <1>11, <1>12
  <2> QED
    BY <1>11, <1>12, <2>1, PileKinds
<1>16. Board!EachOnce(Q)
  BY <1>1, <1>10, <1>13, <1>14, <1>15, PilesMoved DEF P, Q
<1>17. LegalBoard(h)
  <2>1. \A c \in Board!Columns : ColumnOrdered(h.tableau[c])
    BY <1>1, <1>7, <1>9
  <2>2. h.deck \in Decks
    BY <1>8 DEF LegalBoard
  <2>3. TalonOrdered(h)
    BY <1>1, <1>2, <1>8, <1>10, PlayedTalon
  <2> QED
    BY <1>1, <1>8, <1>10, <1>16, <2>1, <2>2, <2>3 DEF LegalBoard, Q
<1>18. Board!OneMove(g, h)
  <2>1. ASSUME NEW t \in Suits PROVE Len(h.foundations[t]) - Len(g.foundations[t]) \in {0, 1}
    <3>1. Len(g.foundations[t]) \in Nat
      BY <1>1, Fields
    <3>2. h.foundations[t] = g.foundations[t]
      BY <1>8
    <3> QED
      BY <3>1, <3>2
  <2>2. Board!IsPrefix(Board!Faces(g.tableau[dest]), Board!Faces(h.tableau[dest]))
    <3> DEFINE a == Board!Faces(pile)
    <3> DEFINE b == <<card>>
    <3>1. a \in Seq(Board!Cards)
      BY <1>5, FacesOf
    <3>2. b \in Seq(Board!Cards)
      <4>1. card \in Board!Cards
        BY <1>4
      <4> HIDE DEF card
      <4> QED
        BY <4>1
    <3>3. Board!Faces(h.tableau[dest]) = a \o b
      BY <1>7, <1>9
    <3> HIDE DEF a, b
    <3>4. Board!IsPrefix(a, a \o b)
      BY <3>1, <3>2, PilesBegin
    <3> QED
      BY <3>3, <3>4 DEF a
  <2>3. g # h /\ h.deck = g.deck /\ h.stock = g.stock
    BY <1>8
  <2> HIDE DEF w, card, run, pile
  <2> QED
    BY <1>1, <1>9, <1>10, <2>1, <2>2, <2>3, OneColumnGrows
<1> QED
  BY <1>17, <1>18

LEMMA WasteToFoundationMoves ==
  ASSUME Suits \subseteq Nat, NEW g, LegalBoard(g), NEW h, h = Board!waste_to_foundation(g), h # g
  PROVE  LegalBoard(h) /\ Board!OneMove(g, h)
<1> DEFINE w == g.waste
<1> DEFINE card == Board!Last(w)
<1> DEFINE P == Board!Piles(g)
<1> DEFINE s == Board!suit(card)
<1> DEFINE pile == g.foundations[s]
<1>1. /\ IsBoard(g) /\ TalonOrdered(g) /\ Board!EachOnce(P)
      /\ \A c \in Board!Columns : ColumnOrdered(g.tableau[c])
      /\ \A t \in Suits : FoundationOrdered(t, g.foundations[t])
  BY DEF LegalBoard
<1>2. w # <<>> /\ Board!can_place_on_foundation(card, pile)
  BY DEF Board!waste_to_foundation
<1>3. h = [g EXCEPT !.waste = Board!Front(@), !.foundations[s] = Append(@, card)]
  BY <1>2 DEF Board!waste_to_foundation
<1>4. /\ w \in Seq(Board!Cards) /\ Len(w) \in Nat \ {0} /\ card \in Board!Cards
      /\ Board!Front(w) \in Seq(Board!Cards) /\ Board!Front(w) = SubSeq(w, 1, Len(w) - 1)
      /\ SubSeq(w, Len(w) - 1 + 1, Len(w)) = <<card>>
  BY <1>2, LastOfWaste
<1>5. s \in Suits /\ pile \in Seq(Board!Cards) /\ FoundationOrdered(s, pile)
  BY <1>1, <1>4 DEF IsBoard, Board!suit, Board!Cards
<1>6. /\ FoundationOrdered(s, Append(pile, card)) /\ Append(pile, card) \in Seq(Board!Cards)
      /\ Append(pile, card) = pile \o <<card>> /\ Len(Append(pile, card)) = Len(pile) + 1
  <2>1. FoundationOrdered(s, Append(pile, card))
    BY <1>2, <1>4, <1>5, FoundationGrows
  <2> QED
    BY <1>4, <1>5, <2>1, AppendIsConcat, AppendProperties
<1> HIDE DEF s
<1>7. g.foundations \in [Suits -> Seq(Board!Cards)] /\ pile = g.foundations[s]
  BY <1>1, Fields
<1>8. /\ h.deck = g.deck /\ h.stock = g.stock /\ h.tableau = g.tableau /\ h.waste = Board!Front(w)
      /\ h.foundations = [g.foundations EXCEPT ![s] = Append(pile, card)]
      /\ h = [deck |-> h.deck, tableau |-> h.tableau, stock |-> h.stock, waste |-> h.waste,
              foundations |-> h.foundations]
  BY <1>1, <1>3, <1>7 DEF IsBoard
<1>9. /\ h.foundations[s] = Append(pile, card) /\ \A t \in Suits : t # s => h.foundations[t] = g.foundations[t]
      /\ h.foundations \in [Suits -> Seq(Board!Cards)]
  <2> DEFINE more == Append(pile, card)
  <2>1. more \in Seq(Board!Cards) /\ h.foundations = [g.foundations EXCEPT ![s] = more]
    BY <1>6, <1>8
  <2> HIDE DEF more
  <2>2. /\ h.foundations[s] = more /\ \A t \in Suits : t # s => h.foundations[t] = g.foundations[t]
        /\ h.foundations \in [Suits -> Seq(Board!Cards)]
    BY <1>5, <1>7, <2>1
  <2> QED
    BY <2>2 DEF more
<1>10. IsBoard(h)
  <2>1. /\ h.deck \in Seq(Board!Cards) /\ h.stock \in Seq(Board!Cards) /\ h.waste \in Seq(Board!Cards)
        /\ h.tableau \in [Board!Columns -> Seq(Laid)]
    BY <1>1, <1>4, <1>8, Fields
  <2> QED
    BY <1>8, <1>9, <2>1, BoardBy
<1>11. /\ P[Stock] = g.stock /\ P[Waste] = w
       /\ \A t \in Suits : P[Foundation(t)] = g.foundations[t]
  BY <1>1, PilesOf
<1> DEFINE Q == Board!Piles(h)
<1>12. /\ Q[Stock] = g.stock /\ Q[Waste] = Board!Front(w)
       /\ \A c \in Board!Columns : Q[Column(c)] = P[Column(c)]
       /\ \A t \in Suits : Q[Foundation(t)] = h.foundations[t]
  <2>1. /\ Q[Stock] = h.stock /\ Q[Waste] = h.waste
        /\ \A t \in Suits : Q[Foundation(t)] = h.foundations[t]
    BY <1>10, PilesOf
  <2>2. h.tableau = g.tableau
    BY <1>8
  <2>3. \A c \in Board!Columns : Q[Column(c)] = P[Column(c)]
    BY <2>2, SameColumns
  <2> HIDE DEF P, Q
  <2> QED
    BY <1>8, <2>1, <2>3
<1>13. /\ Waste # Foundation(s) /\ Waste \in Board!PileNames /\ Foundation(s) \in Board!PileNames
       /\ 1 \in 1..Len(P[Waste])
  <2> HIDE DEF P, Q
  <2>1. Waste # Foundation(s) /\ Waste \in Board!PileNames /\ Foundation(s) \in Board!PileNames
    BY <1>5, PileKinds
  <2>2. 1 \in 1..Len(P[Waste])
    BY <1>4, <1>11
  <2> QED
    BY <2>1, <2>2
<1> HIDE DEF P, Q
<1>14. /\ Q[Waste] = SubSeq(P[Waste], 1, Len(P[Waste]) - 1)
       /\ Q[Foundation(s)] = P[Foundation(s)] \o SubSeq(P[Waste], Len(P[Waste]) - 1 + 1, Len(P[Waste]))
  BY <1>4, <1>5, <1>6, <1>9, <1>11, <1>12
<1>15. \A q \in Board!PileNames : q # Waste /\ q # Foundation(s) => Q[q] = P[q]
  <2>1. \A t \in Suits : Foundation(t) # Foundation(s) => Q[Foundation(t)] = P[Foundation(t)]
    BY <1>9, <1>11, <1>12
  <2> QED
    BY <1>11, <1>12, <2>1, PileKinds
<1>16. Board!EachOnce(Q)
  BY <1>1, <1>10, <1>13, <1>14, <1>15, PilesMoved DEF P, Q
<1>17. LegalBoard(h)
  <2>1. \A t \in Suits : FoundationOrdered(t, h.foundations[t])
    BY <1>1, <1>6, <1>9
  <2>2. h.deck \in Decks
    BY <1>8 DEF LegalBoard
  <2>3. TalonOrdered(h)
    BY <1>1, <1>2, <1>8, <1>10, PlayedTalon
  <2> QED
    BY <1>1, <1>8, <1>10, <1>16, <2>1, <2>2, <2>3 DEF LegalBoard, Q
<1>18. Board!OneMove(g, h)
  <2>1. ASSUME NEW t \in Suits PROVE Len(h.foundations[t]) - Len(g.foundations[t]) \in {0, 1}
    <3>1. Len(g.foundations[t]) \in Nat
      BY <1>1, Fields
    <3>2. Len(h.foundations[t]) = Len(g.foundations[t]) \/ Len(h.foundations[t]) = Len(g.foundations[t]) + 1
      BY <1>6, <1>7, <1>9
    <3> QED
      BY <3>1, <3>2
  <2>2. g # h /\ h.deck = g.deck /\ h.tableau = g.tableau
    BY <1>8
  <2> HIDE DEF w, card, pile
  <2> QED
    BY <1>1, <1>10, <2>1, <2>2, OnlyWasteOrStock
<1> QED
  BY <1>17, <1>18

LEMMA OneShrinksOneGrows ==
  ASSUME NEW g, NEW h, IsBoard(g), IsBoard(h), g # h, h.deck = g.deck,
         NEW x \in Board!Columns, NEW y \in Board!Columns, x # y,
         \A c \in Board!Columns : c # x /\ c # y => h.tableau[c] = g.tableau[c],
         Board!IsPrefix(Board!Faces(h.tableau[x]), Board!Faces(g.tableau[x])),
         Board!IsPrefix(Board!Faces(g.tableau[y]), Board!Faces(h.tableau[y])),
         \A s \in Suits : Len(h.foundations[s]) - Len(g.foundations[s]) \in {0, 1}, h.waste = g.waste
  PROVE  Board!OneMove(g, h)
BY OneMoveIf

LEMMA OneMore ==
  ASSUME NEW pile \in Seq(Board!Cards), NEW card \in Board!Cards
  PROVE  /\ Append(pile, card) \in Seq(Board!Cards) /\ Append(pile, card) = pile \o <<card>>
         /\ Len(Append(pile, card)) = Len(pile) + 1
BY AppendIsConcat, AppendProperties

LEMMA TableauToFoundationMoves ==
  ASSUME Suits \subseteq Nat, NEW g, LegalBoard(g), NEW src \in Board!Columns,
         NEW h, h = Board!tableau_to_foundation(g, src), h # g
  PROVE  LegalBoard(h) /\ Board!OneMove(g, h)
<1> DEFINE from == g.tableau[src]
<1> DEFINE card == Board!Last(from).card
<1> DEFINE rest == Board!reveal_tail(Board!Front(from))
<1> DEFINE P == Board!Piles(g)
<1> DEFINE s == Board!suit(card)
<1> DEFINE pile == g.foundations[s]
<1>1. /\ IsBoard(g) /\ TalonOrdered(g) /\ Board!EachOnce(P)
      /\ \A c \in Board!Columns : ColumnOrdered(g.tableau[c])
      /\ \A t \in Suits : FoundationOrdered(t, g.foundations[t])
  BY DEF LegalBoard
<1>2. from # <<>> /\ Board!Last(from).up /\ Board!can_place_on_foundation(card, pile)
  BY DEF Board!tableau_to_foundation
<1>3. h = [g EXCEPT !.tableau[src] = Board!reveal_tail(Board!Front(@)), !.foundations[s] = Append(@, card)]
  BY <1>2 DEF Board!tableau_to_foundation
<1>4. /\ from \in Seq(Laid) /\ Len(from) \in Nat \ {0} /\ Len(from) \in DOMAIN from
      /\ Board!Last(from) = from[Len(from)] /\ from[Len(from)] \in Laid /\ card \in Board!Cards
      /\ Board!Front(from) = SubSeq(from, 1, Len(from) - 1)
  <2>1. from \in Seq(Laid)
    BY <1>1 DEF IsBoard
  <2> HIDE DEF from
  <2>2. /\ Len(from) \in Nat \ {0} /\ Len(from) \in DOMAIN from /\ Board!Last(from) = from[Len(from)]
        /\ Board!Last(from) \in Laid /\ Board!Front(from) = SubSeq(from, 1, Len(from) - 1)
    BY <1>2, <2>1, LastOne
  <2>3. card \in Board!Cards
    BY <2>2 DEF Laid
  <2> QED
    BY <2>1, <2>2, <2>3
<1>5. /\ rest \in Seq(Laid) /\ ColumnOrdered(rest)
      /\ Board!Faces(rest) = SubSeq(Board!Faces(from), 1, Len(from) - 1)
  <2>1. Board!is_valid_tail_run(from, Len(from))
    BY <1>2, <1>4 DEF Board!is_valid_tail_run
  <2> QED
    BY <1>1, <1>4, <2>1, RunTaken
<1>6. s \in Suits /\ pile \in Seq(Board!Cards) /\ FoundationOrdered(s, pile)
  BY <1>1, <1>4 DEF IsBoard, Board!suit, Board!Cards
<1>7. /\ FoundationOrdered(s, Append(pile, card)) /\ Append(pile, card) \in Seq(Board!Cards)
      /\ Append(pile, card) = pile \o <<card>> /\ Len(Append(pile, card)) = Len(pile) + 1
  <2>1. FoundationOrdered(s, Append(pile, card))
    BY <1>2, <1>4, <1>6, FoundationGrows
  <2>2. pile \in Seq(Board!Cards) /\ card \in Board!Cards
    BY <1>4, <1>6
  <2> HIDE DEF pile, card
  <2> QED
    BY <2>1, <2>2, OneMore
<1>0. h = [g EXCEPT !.tableau[src] = rest, !.foundations[s] = Append(pile, card)]
  BY <1>3
<1> HIDE DEF s, rest
<1>8. /\ h.deck = g.deck /\ h.stock = g.stock /\ h.waste = g.waste
      /\ h.tableau = [g.tableau EXCEPT ![src] = rest]
      /\ h.foundations = [g.foundations EXCEPT ![s] = Append(pile, card)]
      /\ h = [deck |-> h.deck, tableau |-> h.tableau, stock |-> h.stock, waste |-> h.waste,
              foundations |-> h.foundations]
  BY <1>0, <1>1 DEF IsBoard
<1>9. /\ h.foundations[s] = Append(pile, card) /\ \A t \in Suits : t # s => h.foundations[t] = g.foundations[t]
      /\ h.foundations \in [Suits -> Seq(Board!Cards)]
      /\ h.tableau[src] = rest /\ \A c \in Board!Columns : c # src => h.tableau[c] = g.tableau[c]
      /\ h.tableau \in [Board!Columns -> Seq(Laid)]
  <2> DEFINE more == Append(pile, card)
  <2>1. more \in Seq(Board!Cards) /\ h.foundations = [g.foundations EXCEPT ![s] = more]
    BY <1>7, <1>8
  <2>2. g.tableau \in [Board!Columns -> Seq(Laid)] /\ g.foundations \in [Suits -> Seq(Board!Cards)]
    BY <1>1, Fields
  <2> HIDE DEF more
  <2>3. /\ h.foundations[s] = more /\ \A t \in Suits : t # s => h.foundations[t] = g.foundations[t]
        /\ h.foundations \in [Suits -> Seq(Board!Cards)]
    BY <1>6, <2>1, <2>2
  <2>4. /\ h.tableau[src] = rest /\ \A c \in Board!Columns : c # src => h.tableau[c] = g.tableau[c]
        /\ h.tableau \in [Board!Columns -> Seq(Laid)]
    BY <1>5, <1>8, <2>2
  <2> QED
    BY <2>3, <2>4 DEF more
<1>10. IsBoard(h)
  <2>1. h.deck \in Seq(Board!Cards) /\ h.stock \in Seq(Board!Cards) /\ h.waste \in Seq(Board!Cards)
    BY <1>1, <1>8, Fields
  <2> QED
    BY <1>8, <1>9, <2>1, BoardBy
<1>11. /\ P[Stock] = g.stock /\ P[Waste] = g.waste
       /\ \A c \in Board!Columns : P[Column(c)] = Board!Faces(g.tableau[c])
       /\ \A t \in Suits : P[Foundation(t)] = g.foundations[t]
  BY <1>1, PilesOf
<1>12. /\ Board!Faces(from) \in Seq(Board!Cards) /\ Len(Board!Faces(from)) = Len(from)
       /\ Board!Faces(from)[Len(from)] = card
       /\ SubSeq(Board!Faces(from), Len(from) - 1 + 1, Len(from)) = <<card>>
  <2>1. /\ Board!Faces(from) \in Seq(Board!Cards) /\ Len(Board!Faces(from)) = Len(from)
        /\ Board!Faces(from)[Len(from)] = card
    BY <1>4, FacesOf
  <2> DEFINE F == Board!Faces(from)
  <2>2. F \in Seq(Board!Cards) /\ Len(F) = Len(from) /\ F[Len(F)] = card /\ F # <<>>
    BY <1>4, <2>1
  <2> HIDE DEF F
  <2>3. SubSeq(F, Len(F) - 1 + 1, Len(F)) = <<Board!Last(F)>> /\ Board!Last(F) = F[Len(F)]
    BY <2>2, LastOne
  <2>4. SubSeq(F, Len(from) - 1 + 1, Len(from)) = <<card>>
    BY <2>2, <2>3
  <2> QED
    BY <2>1, <2>4 DEF F
<1> DEFINE Q == Board!Piles(h)
<1>13. /\ Q[Stock] = g.stock /\ Q[Waste] = g.waste
       /\ \A c \in Board!Columns : Q[Column(c)] = Board!Faces(h.tableau[c])
       /\ \A t \in Suits : Q[Foundation(t)] = h.foundations[t]
  <2>1. /\ Q[Stock] = h.stock /\ Q[Waste] = h.waste
        /\ \A c \in Board!Columns : Q[Column(c)] = Board!Faces(h.tableau[c])
        /\ \A t \in Suits : Q[Foundation(t)] = h.foundations[t]
    BY <1>10, PilesOf
  <2> HIDE DEF Q
  <2> QED
    BY <1>8, <2>1
<1>14. /\ 1 \in 1..Len(P[Column(src)]) /\ Column(src) # Foundation(s)
       /\ Column(src) \in Board!PileNames /\ Foundation(s) \in Board!PileNames
  BY <1>4, <1>6, <1>11, <1>12, PileKinds
<1> HIDE DEF P, Q
<1>15. /\ Q[Column(src)] = SubSeq(P[Column(src)], 1, Len(P[Column(src)]) - 1)
       /\ Q[Foundation(s)] = P[Foundation(s)]
            \o SubSeq(P[Column(src)], Len(P[Column(src)]) - 1 + 1, Len(P[Column(src)]))
  BY <1>5, <1>6, <1>7, <1>9, <1>11, <1>12, <1>13
<1>16. \A q \in Board!PileNames : q # Column(src) /\ q # Foundation(s) => Q[q] = P[q]
  <2>1. \A t \in Suits : Foundation(t) # Foundation(s) => Q[Foundation(t)] = P[Foundation(t)]
    BY <1>9, <1>11, <1>13
  <2>2. \A c \in Board!Columns : Column(c) # Column(src) => Q[Column(c)] = P[Column(c)]
    BY <1>9, <1>11, <1>13
  <2> QED
    BY <1>11, <1>13, <2>1, <2>2, PileKinds
<1>17. Board!EachOnce(Q)
  BY <1>1, <1>10, <1>14, <1>15, <1>16, PilesMoved DEF P, Q
<1>18. LegalBoard(h)
  <2>1. \A t \in Suits : FoundationOrdered(t, h.foundations[t])
    BY <1>1, <1>7, <1>9
  <2>2. \A c \in Board!Columns : ColumnOrdered(h.tableau[c])
    BY <1>1, <1>5, <1>9
  <2>3. h.deck \in Decks
    BY <1>8 DEF LegalBoard
  <2>4. TalonOrdered(h)
    <3>1. h.deck = g.deck /\ h.stock \o Board!Reverse(h.waste) = g.stock \o Board!Reverse(g.waste)
      BY <1>8
    <3> QED
      BY <1>1, <3>1, SameTalon
  <2> QED
    BY <1>10, <1>17, <2>1, <2>2, <2>3, <2>4 DEF LegalBoard, Q
<1>19. Board!OneMove(g, h)
  <2>1. ASSUME NEW t \in Suits PROVE Len(h.foundations[t]) - Len(g.foundations[t]) \in {0, 1}
    <3>1. Len(g.foundations[t]) \in Nat
      BY <1>1, Fields
    <3>2. Len(h.foundations[t]) = Len(g.foundations[t]) \/ Len(h.foundations[t]) = Len(g.foundations[t]) + 1
      BY <1>6, <1>7, <1>9
    <3> QED
      BY <3>1, <3>2
  <2>2. Board!IsPrefix(Board!Faces(h.tableau[src]), Board!Faces(g.tableau[src]))
    <3> DEFINE a == Board!Faces(from)
    <3>1. a \in Seq(Board!Cards) /\ Len(from) - 1 \in 0..Len(a)
          /\ Board!Faces(h.tableau[src]) = SubSeq(a, 1, Len(from) - 1)
      BY <1>4, <1>5, <1>9, <1>12
    <3> HIDE DEF a
    <3>2. Board!IsPrefix(SubSeq(a, 1, Len(from) - 1), a)
      BY <3>1, PilesBegin
    <3> QED
      BY <3>1, <3>2 DEF a
  <2>3. g # h /\ h.deck = g.deck /\ h.stock = g.stock
    BY <1>8
  <2> HIDE DEF from, card, pile
  <2> QED
    BY <1>1, <1>9, <1>10, <2>1, <2>2, <2>3, OneColumnShrinks
<1> QED
  BY <1>18, <1>19

LEMMA FacesSub ==
  ASSUME NEW pile \in Seq(Laid), NEW first \in 1..Len(pile)
  PROVE  LET run == SubSeq(pile, first, Len(pile))
         IN  /\ run \in Seq(Laid) /\ Len(run) = (Len(pile) - first) + 1
             /\ \A i \in 1..Len(run) : run[i] = pile[first + i - 1]
             /\ Board!Faces(run) = SubSeq(Board!Faces(pile), first, Len(pile))
<1> DEFINE run == SubSeq(pile, first, Len(pile))
<1> DEFINE F == Board!Faces(pile)
<1>1. Len(pile) \in Nat
  OBVIOUS
<1>2. /\ run \in Seq(Laid) /\ Len(run) = (Len(pile) - first) + 1
      /\ \A i \in 1..((Len(pile) - first) + 1) : run[i] = pile[first + i - 1]
  BY <1>1
<1>3. F \in Seq(Board!Cards) /\ Len(F) = Len(pile) /\ \A i \in 1..Len(pile) : F[i] = pile[i].card
  BY FacesOf
<1>4. /\ Board!Faces(run) \in Seq(Board!Cards) /\ Len(Board!Faces(run)) = (Len(pile) - first) + 1
      /\ \A i \in 1..((Len(pile) - first) + 1) : Board!Faces(run)[i] = run[i].card
  BY <1>2, FacesOf
<1> HIDE DEF run, F
<1>5. /\ SubSeq(F, first, Len(pile)) \in Seq(Board!Cards) /\ Len(SubSeq(F, first, Len(pile))) = (Len(pile) - first) + 1
      /\ \A i \in 1..((Len(pile) - first) + 1) : SubSeq(F, first, Len(pile))[i] = F[first + i - 1]
  BY <1>1, <1>3
<1>6. ASSUME NEW i \in 1..((Len(pile) - first) + 1) PROVE Board!Faces(run)[i] = SubSeq(F, first, Len(pile))[i]
  <2>1. first + i - 1 \in 1..Len(pile)
    BY <1>1
  <2> QED
    BY <1>2, <1>3, <1>4, <1>5, <2>1
<1>7. Board!Faces(run) = SubSeq(F, first, Len(pile))
  BY <1>4, <1>5, <1>6, SeqEqual
<1> QED
  BY <1>2, <1>7 DEF run, F

LEMMA TableauToTableauMoves ==
  ASSUME NEW g, LegalBoard(g), NEW src \in Board!Columns, NEW dest \in Board!Columns, NEW count,
         NEW h, h = Board!tableau_to_tableau(g, src, dest, count), h # g
  PROVE  LegalBoard(h) /\ Board!OneMove(g, h)
<1> DEFINE from == g.tableau[src]
<1> DEFINE pile == g.tableau[dest]
<1> DEFINE first == Len(from) - count + 1
<1> DEFINE rest == Board!reveal_tail(SubSeq(from, 1, first - 1))
<1> DEFINE run == SubSeq(from, first, Len(from))
<1> DEFINE P == Board!Piles(g)
<1>1. /\ IsBoard(g) /\ TalonOrdered(g) /\ Board!EachOnce(P)
      /\ \A c \in Board!Columns : ColumnOrdered(g.tableau[c])
      /\ \A t \in Suits : FoundationOrdered(t, g.foundations[t])
  BY DEF LegalBoard
<1>2. /\ src # dest /\ count \in 1..Len(from) /\ Board!is_valid_tail_run(from, first)
      /\ Board!can_place_on_tableau(from[first].card, pile)
  BY DEF Board!tableau_to_tableau
<1>3. h = [g EXCEPT !.tableau[src] = Board!reveal_tail(SubSeq(@, 1, first - 1)), !.tableau[dest] = @ \o run]
  BY <1>2 DEF Board!tableau_to_tableau
<1>4. /\ from \in Seq(Laid) /\ pile \in Seq(Laid) /\ Len(from) \in Nat /\ first \in 1..Len(from)
      /\ first \in DOMAIN from /\ Len(from) - first + 1 = count /\ Len(from) - count = first - 1
  <2>1. from \in Seq(Laid) /\ pile \in Seq(Laid)
    BY <1>1 DEF IsBoard
  <2> QED
    BY <1>2, <2>1
<1>5. /\ rest \in Seq(Laid) /\ ColumnOrdered(rest)
      /\ Board!Faces(rest) = SubSeq(Board!Faces(from), 1, first - 1)
  <2>1. ColumnOrdered(from)
    BY <1>1
  <2> HIDE DEF from, first
  <2> QED
    BY <1>2, <1>4, <2>1, RunTaken
<1>6. /\ run \in Seq(Laid) /\ Len(run) = count /\ \A i \in 1..count : run[i] = from[first + i - 1]
      /\ Board!Faces(run) = SubSeq(Board!Faces(from), first, Len(from))
  <2> HIDE DEF from, first
  <2> QED
    BY <1>4, FacesSub
<1>0. h = [g EXCEPT !.tableau[src] = rest, !.tableau[dest] = @ \o run]
  BY <1>3
<1> HIDE DEF first, rest, run
<1>7. run # <<>> /\ Board!is_valid_tail_run(run, 1) /\ run[1] = from[first]
  <2>1. /\ \A i \in first..Len(from) : from[i].up
        /\ \A i \in (first + 1)..Len(from) : Board!Descends(from[i - 1].card, from[i].card)
    BY <1>2 DEF Board!is_valid_tail_run
  <2>2. run[1] = from[first] /\ 1 \in 1..count /\ run # <<>> /\ DOMAIN run = 1..count
    BY <1>2, <1>4, <1>6
  <2>3. ASSUME NEW i \in 1..count PROVE run[i].up
    <3>1. first + i - 1 \in first..Len(from)
      BY <1>2, <1>4
    <3> QED
      BY <1>6, <2>1, <3>1
  <2>4. ASSUME NEW i \in 2..count PROVE Board!Descends(run[i - 1].card, run[i].card)
    <3>1. first + i - 1 \in (first + 1)..Len(from) /\ i - 1 \in 1..count /\ i \in 1..count
          /\ first + (i - 1) - 1 = (first + i - 1) - 1
      <4> DEFINE n == Len(from)
      <4>1. n \in Nat /\ first \in 1..n /\ n - first + 1 = count /\ count \in 1..n
        BY <1>2, <1>4
      <4> HIDE DEF n
      <4>2. first + i - 1 \in (first + 1)..n /\ i - 1 \in 1..count /\ i \in 1..count
            /\ first + (i - 1) - 1 = (first + i - 1) - 1
        BY <4>1
      <4> QED
        BY <4>2 DEF n
    <3>2. run[i - 1] = from[(first + i - 1) - 1] /\ run[i] = from[first + i - 1]
      BY <1>6, <3>1
    <3> QED
      BY <2>1, <3>1, <3>2
  <2> QED
    <3>1. Len(run) = count /\ 1 \in DOMAIN run
      BY <1>6, <2>2
    <3>2. \A i \in 1..Len(run) : run[i].up
      BY <2>3, <3>1
    <3>3. 1 + 1 = 2
      OBVIOUS
    <3>4. \A i \in (1 + 1)..Len(run) : Board!Descends(run[i - 1].card, run[i].card)
      BY <2>4, <3>1, <3>3
    <3>5. Board!is_valid_tail_run(run, 1)
      BY <3>1, <3>2, <3>4 DEF Board!is_valid_tail_run
    <3> QED
      BY <2>2, <3>5
<1>8. /\ pile \o run \in Seq(Laid) /\ ColumnOrdered(pile \o run)
      /\ Board!Faces(pile \o run) = Board!Faces(pile) \o Board!Faces(run)
  BY <1>1, <1>2, <1>4, <1>6, <1>7, RunPlaced
<1>9. /\ h.deck = g.deck /\ h.stock = g.stock /\ h.waste = g.waste /\ h.foundations = g.foundations
      /\ h.tableau = [g.tableau EXCEPT ![src] = rest, ![dest] = pile \o run]
      /\ h = [deck |-> h.deck, tableau |-> h.tableau, stock |-> h.stock, waste |-> h.waste,
              foundations |-> h.foundations]
  <2> DEFINE T == g.tableau
  <2> DEFINE more == pile \o run
  <2>1. g = [deck |-> g.deck, tableau |-> T, stock |-> g.stock, waste |-> g.waste,
             foundations |-> g.foundations] /\ T \in [Board!Columns -> Seq(Laid)]
    BY <1>1 DEF IsBoard
  <2>2. h = [g EXCEPT !.tableau[src] = rest, !.tableau[dest] = more]
    BY <1>0, <1>2, <2>1
  <2> HIDE DEF T, more
  <2>3. /\ h.deck = g.deck /\ h.stock = g.stock /\ h.waste = g.waste /\ h.foundations = g.foundations
        /\ h.tableau = [T EXCEPT ![src] = rest, ![dest] = more]
        /\ h = [deck |-> h.deck, tableau |-> h.tableau, stock |-> h.stock, waste |-> h.waste,
                foundations |-> h.foundations]
    <3> DEFINE d == g.deck
    <3> DEFINE s == g.stock
    <3> DEFINE w == g.waste
    <3> DEFINE f == g.foundations
    <3>1. g = [deck |-> d, tableau |-> T, stock |-> s, waste |-> w, foundations |-> f]
      BY <2>1
    <3> HIDE DEF d, s, w, f
    <3>2. src \in Board!Columns /\ dest \in Board!Columns /\ src # dest /\ T \in [Board!Columns -> Seq(Laid)]
      BY <1>2, <2>1
    <3> DEFINE U == [T EXCEPT ![src] = rest, ![dest] = more]
    <3>3. h = [g EXCEPT !.tableau = U]
      BY <2>2, <3>1, <3>2
    <3> HIDE DEF U
    <3>4. h.deck = g.deck /\ h.stock = g.stock /\ h.waste = g.waste /\ h.foundations = g.foundations /\ h.tableau = U
      BY <1>1, <3>3 DEF IsBoard
    <3>5. h = [deck |-> h.deck, tableau |-> h.tableau, stock |-> h.stock, waste |-> h.waste,
               foundations |-> h.foundations]
      BY <1>1, <3>3 DEF IsBoard
    <3> QED
      BY <3>4, <3>5 DEF U
  <2> QED
    BY <2>3 DEF T, more
<1>10. /\ h.tableau[src] = rest /\ h.tableau[dest] = pile \o run
       /\ \A c \in Board!Columns : c # src /\ c # dest => h.tableau[c] = g.tableau[c]
       /\ h.tableau \in [Board!Columns -> Seq(Laid)]
  <2> DEFINE T == g.tableau
  <2> DEFINE more == pile \o run
  <2>1. /\ T \in [Board!Columns -> Seq(Laid)] /\ more \in Seq(Laid)
        /\ h.tableau = [T EXCEPT ![src] = rest, ![dest] = more]
    BY <1>1, <1>8, <1>9, Fields
  <2> HIDE DEF T, more
  <2>2. /\ h.tableau[src] = rest /\ h.tableau[dest] = more
        /\ \A c \in Board!Columns : c # src /\ c # dest => h.tableau[c] = T[c]
        /\ h.tableau \in [Board!Columns -> Seq(Laid)]
    BY <1>2, <1>5, <2>1
  <2> QED
    BY <2>2 DEF T, more
<1>11. IsBoard(h)
  <2>1. /\ h.deck \in Seq(Board!Cards) /\ h.stock \in Seq(Board!Cards) /\ h.waste \in Seq(Board!Cards)
        /\ h.foundations \in [Suits -> Seq(Board!Cards)]
    BY <1>1, <1>9, Fields
  <2> QED
    BY <1>9, <1>10, <2>1, BoardBy
<1>12. /\ P[Stock] = g.stock /\ P[Waste] = g.waste
       /\ \A c \in Board!Columns : P[Column(c)] = Board!Faces(g.tableau[c])
       /\ \A t \in Suits : P[Foundation(t)] = g.foundations[t]
  BY <1>1, PilesOf
<1>13. Board!Faces(from) \in Seq(Board!Cards) /\ Len(Board!Faces(from)) = Len(from)
       /\ Board!Faces(pile) \in Seq(Board!Cards) /\ Board!Faces(run) \in Seq(Board!Cards)
  BY <1>4, <1>6, FacesOf
<1> DEFINE Q == Board!Piles(h)
<1>14. /\ Q[Stock] = g.stock /\ Q[Waste] = g.waste
       /\ \A c \in Board!Columns : Q[Column(c)] = Board!Faces(h.tableau[c])
       /\ \A t \in Suits : Q[Foundation(t)] = g.foundations[t]
  <2>1. /\ Q[Stock] = h.stock /\ Q[Waste] = h.waste
        /\ \A c \in Board!Columns : Q[Column(c)] = Board!Faces(h.tableau[c])
        /\ \A t \in Suits : Q[Foundation(t)] = h.foundations[t]
    BY <1>11, PilesOf
  <2> HIDE DEF Q
  <2> QED
    BY <1>9, <2>1
<1>15. /\ count \in 1..Len(P[Column(src)]) /\ Column(src) # Column(dest)
       /\ Column(src) \in Board!PileNames /\ Column(dest) \in Board!PileNames
  BY <1>2, <1>12, <1>13, PileKinds
<1> HIDE DEF P, Q
<1>16. /\ Q[Column(src)] = SubSeq(P[Column(src)], 1, Len(P[Column(src)]) - count)
       /\ Q[Column(dest)] = P[Column(dest)]
            \o SubSeq(P[Column(src)], Len(P[Column(src)]) - count + 1, Len(P[Column(src)]))
  BY <1>4, <1>5, <1>6, <1>8, <1>10, <1>12, <1>13, <1>14 DEF first
<1>17. \A q \in Board!PileNames : q # Column(src) /\ q # Column(dest) => Q[q] = P[q]
  <2>1. \A c \in Board!Columns : Column(c) # Column(src) /\ Column(c) # Column(dest) => Q[Column(c)] = P[Column(c)]
    BY <1>10, <1>12, <1>14
  <2> QED
    BY <1>12, <1>14, <2>1, PileKinds
<1>18. Board!EachOnce(Q)
  BY <1>1, <1>11, <1>15, <1>16, <1>17, PilesMoved DEF P, Q
<1>19. LegalBoard(h)
  <2>1. \A c \in Board!Columns : ColumnOrdered(h.tableau[c])
    BY <1>1, <1>5, <1>8, <1>10
  <2>2. h.deck \in Decks
    BY <1>9 DEF LegalBoard
  <2>3. TalonOrdered(h)
    <3>1. h.deck = g.deck /\ h.stock \o Board!Reverse(h.waste) = g.stock \o Board!Reverse(g.waste)
      BY <1>9
    <3> QED
      BY <1>1, <3>1, SameTalon
  <2> QED
    BY <1>1, <1>9, <1>11, <1>18, <2>1, <2>2, <2>3 DEF LegalBoard, Q
<1>20. Board!OneMove(g, h)
  <2>1. ASSUME NEW t \in Suits PROVE Len(h.foundations[t]) - Len(g.foundations[t]) \in {0, 1}
    <3>1. Len(g.foundations[t]) \in Nat
      BY <1>1, Fields
    <3>2. h.foundations[t] = g.foundations[t]
      BY <1>9
    <3> QED
      BY <3>1, <3>2
  <2>2. Board!IsPrefix(Board!Faces(h.tableau[src]), Board!Faces(g.tableau[src]))
    <3> DEFINE a == Board!Faces(from)
    <3>1. a \in Seq(Board!Cards) /\ first - 1 \in 0..Len(a)
          /\ Board!Faces(h.tableau[src]) = SubSeq(a, 1, first - 1)
      BY <1>4, <1>5, <1>10, <1>13
    <3> HIDE DEF a
    <3>2. Board!IsPrefix(SubSeq(a, 1, first - 1), a)
      BY <3>1, PilesBegin
    <3> QED
      BY <3>1, <3>2 DEF a
  <2>3. Board!IsPrefix(Board!Faces(g.tableau[dest]), Board!Faces(h.tableau[dest]))
    <3> DEFINE a == Board!Faces(pile)
    <3> DEFINE b == Board!Faces(run)
    <3>1. a \in Seq(Board!Cards) /\ b \in Seq(Board!Cards) /\ Board!Faces(h.tableau[dest]) = a \o b
      BY <1>8, <1>10, <1>13
    <3> HIDE DEF a, b
    <3>2. Board!IsPrefix(a, a \o b)
      BY <3>1, PilesBegin
    <3> QED
      BY <3>1, <3>2 DEF a
  <2>4. g # h /\ h.deck = g.deck /\ h.waste = g.waste /\ src # dest
    BY <1>2, <1>9
  <2> HIDE DEF from, pile
  <2> QED
    BY <1>1, <1>10, <1>11, <2>1, <2>2, <2>3, <2>4, OneShrinksOneGrows
<1> QED
  BY <1>19, <1>20

Moves(g, h) == h # g => LegalBoard(h) /\ Board!OneMove(g, h)

\* The least of some numbers.
LEMMA LeastOne ==
  ASSUME NEW S \in SUBSET Nat, S # {}
  PROVE  \E i \in S : \A j \in S : i =< j
<1> DEFINE R == OpToRel(<, Nat)
<1>1. IsWellFoundedOn(R, Nat)
  BY NatLessThanWellFounded
<1>2. \A i, j \in Nat : <<j, i>> \in R <=> j < i
  BY DEF OpToRel
<1> HIDE DEF R
<1>3. PICK i \in S : \A j \in S : ~ (<<j, i>> \in R)
  BY <1>1, WFMin, Zenon
<1>4. \A j \in S : j \in Nat /\ i \in Nat /\ ~(j < i)
  BY <1>2, <1>3
<1> QED
  BY <1>4

LEMMA LeastColumn ==
  ASSUME Board!SolitaireAssumption, NEW S, S \subseteq Board!Columns, S # {}
  PROVE  Board!Min(S) \in S
<1>1. S \in SUBSET Nat
  BY DEF Board!Columns, Board!SolitaireAssumption
<1>2. \E x \in S : \A y \in S : x =< y
  BY <1>1, LeastOne
<1> QED
  BY <1>2 DEF Board!Min

LEMMA AutoMoves ==
  ASSUME Board!SolitaireAssumption, NEW g, LegalBoard(g)
  PROVE  Moves(g, Board!auto_foundation(g))
<1> DEFINE able == {c \in Board!Columns : Board!tableau_to_foundation(g, c) # g}
<1>1. Suits \subseteq Nat
  BY DEF Board!SolitaireAssumption
<1>2. CASE Board!waste_to_foundation(g) # g
  <2>1. Board!auto_foundation(g) = Board!waste_to_foundation(g)
    BY <1>2 DEF Board!auto_foundation
  <2> QED
    BY <1>1, <1>2, <2>1, WasteToFoundationMoves DEF Moves
<1>3. CASE Board!waste_to_foundation(g) = g /\ able # {}
  <2>1. Board!auto_foundation(g) = Board!tableau_to_foundation(g, Board!Min(able))
    BY <1>3 DEF Board!auto_foundation
  <2>2. Board!Min(able) \in able
    BY <1>3, LeastColumn
  <2> DEFINE c == Board!Min(able)
  <2>3. c \in Board!Columns
    BY <2>2
  <2> HIDE DEF c
  <2>4. Moves(g, Board!tableau_to_foundation(g, c))
    BY <1>1, <2>3, TableauToFoundationMoves DEF Moves
  <2> QED
    BY <2>1, <2>4 DEF c
<1>4. CASE Board!waste_to_foundation(g) = g /\ able = {}
  <2>1. Board!auto_foundation(g) = g
    BY <1>4 DEF Board!auto_foundation
  <2> QED
    BY <2>1 DEF Moves
<1> QED
  BY <1>2, <1>3, <1>4

LEMMA AskedMoves ==
  ASSUME Board!SolitaireAssumption, NEW g, LegalBoard(g), NEW c \in Board!Commands
  PROVE  Moves(g, Board!Asked(g, c))
<1>1. Suits \subseteq Nat
  BY DEF Board!SolitaireAssumption
<1>2. Moves(g, Board!draw_stock(g)) /\ Moves(g, Board!waste_to_foundation(g)) /\ Moves(g, Board!auto_foundation(g))
  BY <1>1, DrawMoves, WasteToFoundationMoves, AutoMoves DEF Moves
<1>3. \A d \in Board!Columns : Moves(g, Board!waste_to_tableau(g, d)) /\ Moves(g, Board!tableau_to_foundation(g, d))
  BY <1>1, WasteToTableauMoves, TableauToFoundationMoves DEF Moves
<1>4. ASSUME NEW d \in Board!Columns, NEW e \in Board!Columns, NEW n
      PROVE  Moves(g, Board!tableau_to_tableau(g, d, e, n))
  BY TableauToTableauMoves DEF Moves
<1>5. \A d, e \in Board!Columns : Moves(g, Board!longest_run(g, d, e))
  BY <1>4 DEF Board!longest_run
<1>6. Moves(g, g)
  BY DEF Moves
<1>7. /\ c.op = "waste to tableau" => c.dest \in Board!Columns
      /\ c.op = "to foundation" => c.src \in Board!Columns
      /\ c.op \in {"run", "cards"} => c.src \in Board!Columns /\ c.dest \in Board!Columns
  BY DEF Board!Commands
<1> HIDE DEF Moves
<1>8. CASE c.op = "draw"
  BY <1>2, <1>8 DEF Board!Asked
<1>9. CASE c.op = "auto"
  BY <1>2, <1>9 DEF Board!Asked
<1>10. CASE c.op = "waste to foundation"
  BY <1>2, <1>10 DEF Board!Asked
<1>11. CASE c.op = "waste to tableau"
  BY <1>3, <1>7, <1>11 DEF Board!Asked
<1>12. CASE c.op = "to foundation"
  BY <1>3, <1>7, <1>12 DEF Board!Asked
<1>13. CASE c.op = "run"
  BY <1>5, <1>7, <1>13 DEF Board!Asked
<1>14. CASE c.op = "cards"
  <2>1. Board!Asked(g, c) = Board!tableau_to_tableau(g, c.src, c.dest, c.count)
    BY <1>14 DEF Board!Asked
  <2> QED
    BY <1>4, <1>7, <1>14, <2>1
<1>15. CASE c.op \notin {"draw", "auto", "waste to foundation", "waste to tableau", "to foundation", "run", "cards"}
  BY <1>6, <1>15 DEF Board!Asked
<1> QED
  BY <1>8, <1>9, <1>10, <1>11, <1>12, <1>13, <1>14, <1>15

\* The columns before c have Dealt(c) cards.
LEMMA DealtGrows ==
  ASSUME NEW c \in Nat
  PROVE  /\ Board!Dealt(c + 1) = Board!Dealt(c) + c
         /\ c >= 1 => Board!Dealt(c) \in Nat /\ Board!Dealt(c) >= c - 1
         /\ c = 1 => Board!Dealt(c) = 0
<1> DEFINE x == c * (c - 1)
<1>1. x \in Int /\ (c + 1) * ((c + 1) - 1) = x + 2 * c
  OBVIOUS
<1>2. c >= 1 => x >= 2 * (c - 1)
  <2> SUFFICES ASSUME c >= 1 PROVE x >= 2 * (c - 1)
    OBVIOUS
  <2>1. CASE c = 1
    BY <2>1
  <2>2. CASE c >= 2
    <3>1. (c - 2) \in Nat /\ (c - 1) \in Nat
      BY <2>2
    <3>2. (c - 2) * (c - 1) >= 0
      BY <3>1
    <3>3. (c - 2) * (c - 1) = x - 2 * (c - 1)
      OBVIOUS
    <3> QED
      BY <3>2, <3>3, <1>1
  <2> QED
    BY <2>1, <2>2
<1>3. c = 1 => x = 0
  OBVIOUS
<1>4. Board!Dealt(c) = x \div 2 /\ Board!Dealt(c + 1) = (x + 2 * c) \div 2
  BY <1>1 DEF Board!Dealt
<1> HIDE DEF x
<1>5. (x + 2 * c) \div 2 = x \div 2 + c
  BY <1>1
<1>6. c >= 1 => x \div 2 \in Nat /\ x \div 2 >= c - 1
  BY <1>1, <1>2
<1>7. c = 1 => x \div 2 = 0
  BY <1>1, <1>3
<1> QED
  BY <1>4, <1>5, <1>6, <1>7

LEMMA DealtOrdered ==
  ASSUME NEW c \in Nat, NEW e \in Nat, c >= 1, c < e
  PROVE  Board!Dealt(c) + c =< Board!Dealt(e)
<1> DEFINE x == (c + 1) * c
<1> DEFINE y == e * (e - 1)
<1>1. Board!Dealt(c) + c = x \div 2 /\ Board!Dealt(e) = y \div 2
  <2>1. Board!Dealt(c + 1) = x \div 2
    BY DEF Board!Dealt
  <2> QED
    BY <2>1, DealtGrows DEF Board!Dealt
<1>2. x \in Int /\ y \in Int /\ x =< y
  <2>1. ((e - c) - 1) \in Nat /\ (e + c) \in Nat
    OBVIOUS
  <2>2. ((e - c) - 1) * (e + c) >= 0
    BY <2>1
  <2>3. ((e - c) - 1) * (e + c) = y - x
    OBVIOUS
  <2> QED
    BY <2>2, <2>3
<1> HIDE DEF x, y
<1> QED
  BY <1>1, <1>2

E == Board!Dealt(kTableauCount + 1)

LEMMA DeckIs ==
  ASSUME Board!SolitaireAssumption, NEW d \in Decks
  PROVE  /\ kTableauCount \in Nat /\ Board!Columns = 1..kTableauCount
         /\ d \in Seq(Board!Cards) /\ Len(d) \in Nat /\ E \in Nat /\ E =< Len(d)
         /\ \A i, j \in 1..Len(d) : d[i] = d[j] => i = j
         /\ \A card \in Board!Cards : \E i \in 1..Len(d) : d[i] = card
         /\ \A i \in 1..Len(d) : d[i] \in Board!Cards
<1>1. kTableauCount \in Nat /\ d \in Seq(Board!Cards) /\ Board!ToSet(d) = Board!Cards /\ Board!IsInjective(d)
      /\ Len(d) >= ((kTableauCount + 1) * kTableauCount) \div 2
  BY DEF Board!SolitaireAssumption
<1>2. E = ((kTableauCount + 1) * kTableauCount) \div 2
  <2>1. (kTableauCount + 1) - 1 = kTableauCount
    BY <1>1
  <2> QED
    BY <2>1 DEF E, Board!Dealt
<1>3. E \in Nat
  <2> DEFINE k == kTableauCount + 1
  <2>1. k \in Nat /\ k >= 1
    BY <1>1
  <2> HIDE DEF k
  <2>2. Board!Dealt(k) \in Nat
    BY <2>1, DealtGrows
  <2> QED
    BY <2>2 DEF E, k
<1>4. DOMAIN d = 1..Len(d) /\ Len(d) \in Nat /\ \A i \in 1..Len(d) : d[i] \in Board!Cards
  BY <1>1
<1>5. \A i, j \in 1..Len(d) : d[i] = d[j] => i = j
  BY <1>1, <1>4 DEF Board!IsInjective
<1>6. \A card \in Board!Cards : \E i \in 1..Len(d) : d[i] = card
  BY <1>1, <1>4 DEF Board!ToSet
<1> QED
  BY <1>1, <1>2, <1>3, <1>4, <1>5, <1>6 DEF Board!Columns

LEMMA ColumnsFit ==
  ASSUME Board!SolitaireAssumption, NEW c \in Board!Columns
  PROVE  /\ c \in Nat /\ c >= 1 /\ Board!Dealt(c) \in Nat /\ E \in Nat /\ Board!Dealt(c) + c =< E
<1>1. c \in Nat /\ c >= 1 /\ c < kTableauCount + 1 /\ kTableauCount + 1 \in Nat /\ kTableauCount \in Nat
  BY DEF Board!Columns, Board!SolitaireAssumption
<1>2. E \in Nat
  BY <1>1, DealtGrows DEF E
<1> QED
  BY <1>1, <1>2, DealtGrows, DealtOrdered DEF E

\* What the piles of a new deal are of its deck.
LEMMA DealIs ==
  ASSUME Board!SolitaireAssumption, NEW d \in Decks, NEW g, g = Board!deal(d)
  PROVE  /\ IsBoard(g) /\ g.deck = d /\ g.waste = <<>> /\ \A s \in Suits : g.foundations[s] = <<>>
         /\ Len(g.stock) = Len(d) - E /\ \A i \in 1..(Len(d) - E) : g.stock[i] = d[E + i]
         /\ \A c \in Board!Columns :
              /\ Len(g.tableau[c]) = c
              /\ \A r \in 1..c : g.tableau[c][r] = [card |-> d[Board!Dealt(c) + r], up |-> r = c]
<1>1. /\ kTableauCount \in Nat /\ Board!Columns = 1..kTableauCount
      /\ d \in Seq(Board!Cards) /\ Len(d) \in Nat /\ E \in Nat /\ E =< Len(d)
      /\ \A i \in 1..Len(d) : d[i] \in Board!Cards
  BY DeckIs
<1> DEFINE stock == SubSeq(d, E + 1, Len(d))
<1> DEFINE Column0(c) == [r \in 1..c |-> [card |-> d[Board!Dealt(c) + r], up |-> r = c]]
<1>2. /\ stock \in Seq(Board!Cards) /\ Len(stock) = Len(d) - E
      /\ \A i \in 1..(Len(d) - E) : stock[i] = d[E + i]
  <2>1. stock \in Seq(Board!Cards)
    BY <1>1
  <2>2. Len(stock) = Len(d) - E
    BY <1>1
  <2>3. ASSUME NEW i \in 1..(Len(d) - E) PROVE stock[i] = d[E + i]
    <3>1. stock[i] = d[(E + 1) + i - 1]
      BY <1>1
    <3>2. (E + 1) + i - 1 = E + i
      BY <1>1
    <3> QED
      BY <3>1, <3>2
  <2> QED
    BY <2>1, <2>2, <2>3
<1>3. ASSUME NEW c \in Board!Columns PROVE Column0(c) \in Seq(Laid)
  <2>1. c \in Nat /\ c >= 1 /\ Board!Dealt(c) \in Nat /\ Board!Dealt(c) + c =< E
    BY ColumnsFit
  <2>2. ASSUME NEW r \in 1..c PROVE [card |-> d[Board!Dealt(c) + r], up |-> r = c] \in Laid
    <3>1. Board!Dealt(c) + r \in 1..Len(d)
      BY <1>1, <2>1
    <3> QED
      BY <1>1, <3>1 DEF Laid
  <2>3. Column0(c) \in [1..c -> Laid]
    BY <2>2
  <2> HIDE DEF Column0
  <2> QED
    BY <2>1, <2>3
<1> HIDE DEF stock
<1>4. g = [deck |-> d, tableau |-> [c \in Board!Columns |-> Column0(c)], stock |-> stock, waste |-> <<>>,
           foundations |-> [s \in Suits |-> <<>>]]
  BY DEF Board!deal, E, stock
<1>5. IsBoard(g)
  <2> DEFINE T == [c \in Board!Columns |-> Column0(c)]
  <2>1. T \in [Board!Columns -> Seq(Laid)]
    BY <1>3
  <2> DEFINE F == [s \in Suits |-> <<>>]
  <2>2. F \in [Suits -> Seq(Board!Cards)]
    OBVIOUS
  <2> HIDE DEF T, F
  <2>3. g = [deck |-> d, tableau |-> T, stock |-> stock, waste |-> <<>>, foundations |-> F]
    BY <1>4 DEF T, F
  <2>4. <<>> \in Seq(Board!Cards)
    OBVIOUS
  <2> QED
    BY <1>1, <1>2, <2>1, <2>2, <2>3, <2>4 DEF IsBoard
<1>6. ASSUME NEW c \in Board!Columns
      PROVE  /\ Len(g.tableau[c]) = c
             /\ \A r \in 1..c : g.tableau[c][r] = [card |-> d[Board!Dealt(c) + r], up |-> r = c]
  <2>1. g.tableau[c] = Column0(c)
    BY <1>4
  <2>2. c \in Nat
    BY ColumnsFit
  <2>3. Len(Column0(c)) = c
    BY <2>2
  <2> QED
    BY <2>1, <2>3
<1> HIDE DEF Column0
<1>7. g.deck = d /\ g.waste = <<>> /\ g.stock = stock /\ \A s \in Suits : g.foundations[s] = <<>>
  BY <1>4
<1> QED
  BY <1>2, <1>5, <1>6, <1>7

LEMMA DealPlaces ==
  ASSUME Board!SolitaireAssumption, NEW i \in Nat, i >= 1, i =< E
  PROVE  \E c \in Board!Columns : i > Board!Dealt(c) /\ i =< Board!Dealt(c) + c
<1> DEFINE S == {e \in Board!Columns : i =< Board!Dealt(e) + e}
<1>1. kTableauCount \in Nat /\ Board!Columns = 1..kTableauCount
  BY DEF Board!SolitaireAssumption, Board!Columns
<1>2. E = Board!Dealt(kTableauCount) + kTableauCount
  BY <1>1, DealtGrows DEF E
<1>3. kTableauCount # 0
  <2> SUFFICES ASSUME kTableauCount = 0 PROVE FALSE
    OBVIOUS
  <2>1. E = Board!Dealt(1)
    <3>1. kTableauCount + 1 = 1
      OBVIOUS
    <3> QED
      BY <3>1 DEF E
  <2>2. Board!Dealt(1) = 0
    BY DealtGrows
  <2> QED
    BY <2>1, <2>2
<1>4. kTableauCount \in S /\ S \in SUBSET Nat
  BY <1>1, <1>2, <1>3
<1>5. PICK c \in S : \A e \in S : c =< e
  BY <1>4, LeastOne
<1>6. c \in Board!Columns /\ c \in Nat /\ c >= 1 /\ c =< kTableauCount /\ i =< Board!Dealt(c) + c
  BY <1>1, <1>5
<1>7. i > Board!Dealt(c)
  <2>1. CASE c = 1
    BY <1>6, <2>1, DealtGrows
  <2>2. CASE c # 1
    <3>1. c - 1 \in Board!Columns /\ c - 1 \in Nat /\ (c - 1) + 1 = c /\ c - 1 >= 1
      BY <1>1, <1>6, <2>2
    <3>2. ~(i =< Board!Dealt(c - 1) + (c - 1))
      BY <1>5, <1>6, <3>1
    <3>3. Board!Dealt((c - 1) + 1) = Board!Dealt(c - 1) + (c - 1) /\ Board!Dealt(c - 1) \in Nat
      BY <3>1, DealtGrows
    <3> QED
      BY <1>6, <3>1, <3>2, <3>3
  <2> QED
    BY <2>1, <2>2
<1> QED
  BY <1>6, <1>7

LEMMA DealIsLegal ==
  ASSUME Board!SolitaireAssumption, NEW d \in Decks, NEW g, g = Board!deal(d)
  PROVE  LegalBoard(g)
<1> DEFINE P == Board!Piles(g)
<1> DEFINE n == Len(d)
<1>1. /\ d \in Seq(Board!Cards) /\ n \in Nat /\ E \in Nat /\ E =< n
      /\ \A i, j \in 1..n : d[i] = d[j] => i = j
      /\ \A card \in Board!Cards : \E i \in 1..n : d[i] = card
      /\ \A i \in 1..n : d[i] \in Board!Cards
  BY DeckIs
<1>2. /\ IsBoard(g) /\ g.deck = d /\ g.waste = <<>> /\ \A s \in Suits : g.foundations[s] = <<>>
      /\ Len(g.stock) = n - E /\ \A i \in 1..(n - E) : g.stock[i] = d[E + i]
      /\ \A c \in Board!Columns :
           /\ Len(g.tableau[c]) = c
           /\ \A r \in 1..c : g.tableau[c][r] = [card |-> d[Board!Dealt(c) + r], up |-> r = c]
  BY DealIs
<1> HIDE DEF n
<1>3. /\ P \in [Board!PileNames -> Seq(Board!Cards)]
      /\ P[Stock] = g.stock /\ P[Waste] = <<>> /\ \A s \in Suits : P[Foundation(s)] = <<>>
      /\ \A c \in Board!Columns : P[Column(c)] = Board!Faces(g.tableau[c])
  <2>1. /\ P \in [Board!PileNames -> Seq(Board!Cards)] /\ P[Stock] = g.stock /\ P[Waste] = g.waste
        /\ \A c \in Board!Columns : P[Column(c)] = Board!Faces(g.tableau[c])
        /\ \A s \in Suits : P[Foundation(s)] = g.foundations[s]
    BY <1>2, PilesOf
  <2> HIDE DEF P
  <2> QED
    BY <1>2, <2>1
<1> HIDE DEF P
<1>4. DOMAIN P[Stock] = 1..(n - E) /\ \A i \in 1..(n - E) : P[Stock][i] = d[E + i]
  <2>1. g.stock \in Seq(Board!Cards)
    BY <1>2, Fields
  <2>2. DOMAIN g.stock = 1..(n - E)
    BY <1>2, <2>1
  <2> QED
    BY <1>2, <1>3, <2>2
<1>5. ASSUME NEW c \in Board!Columns
      PROVE  /\ DOMAIN P[Column(c)] = 1..c
             /\ \A r \in 1..c : P[Column(c)][r] = d[Board!Dealt(c) + r]
  <2> DEFINE pile == g.tableau[c]
  <2>1. pile \in Seq(Laid) /\ Len(pile) = c /\ P[Column(c)] = Board!Faces(pile)
    <3>1. pile \in Seq(Laid)
      BY <1>2, Fields
    <3>2. Len(pile) = c
      BY <1>2
    <3>3. P[Column(c)] = Board!Faces(pile)
      BY <1>3
    <3> QED
      BY <3>1, <3>2, <3>3
  <2>2. ASSUME NEW r \in 1..c PROVE pile[r].card = d[Board!Dealt(c) + r]
    <3>1. pile[r] = [card |-> d[Board!Dealt(c) + r], up |-> r = c]
      BY <1>2
    <3> HIDE DEF pile
    <3> QED
      BY <3>1
  <2> HIDE DEF pile
  <2>3. DOMAIN Board!Faces(pile) = 1..Len(pile) /\ \A i \in 1..Len(pile) : Board!Faces(pile)[i] = pile[i].card
    BY <2>1, FacesOf
  <2> QED
    BY <2>1, <2>2, <2>3
<1>6. \A c \in Board!Columns : /\ c \in Nat /\ c >= 1 /\ Board!Dealt(c) \in Nat /\ Board!Dealt(c) + c =< E
  BY ColumnsFit
\* The pile and the place of every card of the deck.
<1> DEFINE Lies(q, i, k) ==
      \/ q = Stock /\ i \in 1..(n - E) /\ k = E + i
      \/ \E c \in Board!Columns : q = Column(c) /\ i \in 1..c /\ k = Board!Dealt(c) + i
<1>7. ASSUME NEW q \in Board!PileNames, NEW i \in DOMAIN P[q]
      PROVE  \E k \in 1..n : Lies(q, i, k) /\ P[q][i] = d[k]
  <2>1. CASE q = Stock
    <3>1. i \in 1..(n - E) /\ E + i \in 1..n /\ P[q][i] = d[E + i]
      BY <1>1, <1>4, <2>1
    <3> QED
      BY <2>1, <3>1
  <2>2. CASE \E c \in Board!Columns : q = Column(c)
    <3>1. PICK c \in Board!Columns : q = Column(c)
      BY <2>2
    <3>2. i \in 1..c /\ Board!Dealt(c) + i \in 1..n /\ P[q][i] = d[Board!Dealt(c) + i]
      BY <1>1, <1>5, <1>6, <3>1
    <3> QED
      BY <3>1, <3>2
  <2>3. CASE q = Waste \/ \E s \in Suits : q = Foundation(s)
    <3>1. P[q] = <<>>
      BY <1>3, <2>3
    <3> QED
      BY <3>1
  <2> QED
    BY <2>1, <2>2, <2>3, PileKinds
<1>8. ASSUME NEW q, NEW r, NEW i, NEW j, NEW k, Lies(q, i, k), Lies(r, j, k)
      PROVE  q = r /\ i = j
  <2>1. CASE q = Stock /\ r = Stock
    BY <1>1, <1>8, <2>1, PileKinds
  <2>2. CASE q = Stock /\ r # Stock
    BY <1>1, <1>6, <1>8, <2>2, PileKinds
  <2>3. CASE q # Stock /\ r = Stock
    BY <1>1, <1>6, <1>8, <2>3, PileKinds
  <2>4. CASE q # Stock /\ r # Stock
    <3>1. PICK c \in Board!Columns : q = Column(c) /\ i \in 1..c /\ k = Board!Dealt(c) + i
      BY <1>8, <2>4
    <3>2. PICK e \in Board!Columns : r = Column(e) /\ j \in 1..e /\ k = Board!Dealt(e) + j
      BY <1>8, <2>4
    <3>3. /\ c \in Nat /\ c >= 1 /\ Board!Dealt(c) \in Nat /\ e \in Nat /\ e >= 1 /\ Board!Dealt(e) \in Nat
      BY <1>6
    <3>4. CASE c < e
      <4>1. Board!Dealt(c) + c =< Board!Dealt(e)
        BY <3>3, <3>4, DealtOrdered
      <4> QED
        BY <3>1, <3>2, <3>3, <4>1
    <3>5. CASE e < c
      <4>1. Board!Dealt(e) + e =< Board!Dealt(c)
        BY <3>3, <3>5, DealtOrdered
      <4> QED
        BY <3>1, <3>2, <3>3, <4>1
    <3>6. CASE c = e
      BY <3>1, <3>2, <3>3, <3>6
    <3> QED
      BY <3>3, <3>4, <3>5, <3>6
  <2> QED
    BY <2>1, <2>2, <2>3, <2>4
<1>9. ASSUME NEW card \in Board!Cards PROVE \E q \in Board!PileNames : \E i \in DOMAIN P[q] : P[q][i] = card
  <2>1. PICK k \in 1..n : d[k] = card
    BY <1>1
  <2>2. CASE k > E
    <3>1. k - E \in 1..(n - E) /\ E + (k - E) = k
      BY <1>1, <2>2
    <3> QED
      BY <1>4, <2>1, <3>1, PileKinds
  <2>3. CASE ~(k > E)
    <3>1. k \in Nat /\ k >= 1 /\ k =< E
      BY <1>1, <2>3
    <3>2. PICK c \in Board!Columns : k > Board!Dealt(c) /\ k =< Board!Dealt(c) + c
      BY <3>1, DealPlaces
    <3>3. k - Board!Dealt(c) \in 1..c /\ Board!Dealt(c) + (k - Board!Dealt(c)) = k
      BY <1>6, <3>1, <3>2
    <3>4. P[Column(c)][k - Board!Dealt(c)] = card /\ k - Board!Dealt(c) \in DOMAIN P[Column(c)]
      BY <1>5, <2>1, <3>3
    <3> QED
      BY <3>4, PileKinds
  <2> QED
    BY <2>2, <2>3
<1>10. Board!EachOnce(P)
  <2> HIDE DEF Lies
  <2>1. DOMAIN P = Board!PileNames
    BY <1>3
  <2>2. ASSUME NEW q \in Board!PileNames PROVE Board!ToSet(P[q]) \subseteq Board!Cards
    <3>1. P[q] \in Seq(Board!Cards)
      BY <1>3
    <3> QED
      BY <3>1 DEF Board!ToSet
  <2>3. ASSUME NEW q \in Board!PileNames, NEW r \in Board!PileNames, NEW i \in DOMAIN P[q], NEW j \in DOMAIN P[r],
               P[q][i] = P[r][j]
        PROVE  q = r /\ i = j
    <3>1. PICK k \in 1..n : Lies(q, i, k) /\ P[q][i] = d[k]
      BY <1>7
    <3>2. PICK l \in 1..n : Lies(r, j, l) /\ P[r][j] = d[l]
      BY <1>7
    <3>3. k = l
      BY <1>1, <2>3, <3>1, <3>2
    <3> QED
      BY <1>8, <3>1, <3>2, <3>3
  <2> QED
    BY <1>9, <2>1, <2>2, <2>3 DEF Board!EachOnce, Board!ToSet
<1>11. TalonOrdered(g)
  <2> DEFINE t == g.stock \o Board!Reverse(g.waste)
  <2>1. g.stock \in Seq(Board!Cards)
    BY <1>2, Fields
  <2>2. t = g.stock
    <3>1. Board!Reverse(<<>>) = <<>>
      BY DEF Board!Reverse
    <3>2. g.stock \o <<>> = g.stock
      BY <2>1, ConcatEmptySeq
    <3> QED
      BY <1>2, <3>1, <3>2
  <2>3. ASSUME NEW i \in 1..(n - E) PROVE Board!Position(g, g.stock[i]) = E + i
    <3>1. E + i \in 1..n
      BY <1>1
    <3>2. g.stock[i] = d[E + i]
      BY <1>2
    <3>3. DOMAIN d = 1..n
      BY <1>1 DEF n
    <3>4. \A k \in DOMAIN d : d[k] = d[E + i] <=> k = E + i
      BY <1>1, <3>1, <3>3
    <3> QED
      BY <1>2, <3>1, <3>2, <3>3, <3>4 DEF Board!Position
  <2>4. DOMAIN t = 1..(n - E)
    BY <1>2, <2>1, <2>2
  <2>5. ASSUME NEW i \in DOMAIN t, NEW j \in DOMAIN t, i < j
        PROVE  Board!Position(g, t[i]) < Board!Position(g, t[j])
    BY <1>1, <2>2, <2>3, <2>4, <2>5
  <2> QED
    BY <2>5 DEF TalonOrdered
<1>12. ASSUME NEW c \in Board!Columns PROVE ColumnOrdered(g.tableau[c])
  <2> DEFINE pile == g.tableau[c]
  <2>1. /\ c \in Nat /\ c >= 1 /\ pile \in Seq(Laid) /\ Len(pile) = c
        /\ \A r \in 1..c : pile[r] = [card |-> d[Board!Dealt(c) + r], up |-> r = c]
    BY <1>2, <1>6, Fields
  <2> HIDE DEF pile
  <2>2. c \in DOMAIN pile /\ Board!is_valid_tail_run(pile, c) /\ \A i \in 1..(c - 1) : ~pile[i].up
    <3>1. c \in 1..c /\ DOMAIN pile = 1..c
      BY <2>1
    <3>2. ASSUME NEW r \in 1..c PROVE pile[r].up <=> r = c
      <4>1. pile[r] = [card |-> d[Board!Dealt(c) + r], up |-> r = c]
        BY <2>1
      <4>2. pile[r].up = (r = c)
        BY <4>1
      <4> QED
        BY <4>2
    <3>3. Board!is_valid_tail_run(pile, c)
      BY <2>1, <3>1, <3>2 DEF Board!is_valid_tail_run
    <3> QED
      BY <2>1, <3>1, <3>2, <3>3
  <2>3. ColumnOrdered(pile)
    BY <2>2 DEF ColumnOrdered
  <2> QED
    BY <2>3 DEF pile
<1>13. ASSUME NEW s \in Suits PROVE FoundationOrdered(s, g.foundations[s])
  <2>1. g.foundations[s] = <<>> /\ DOMAIN <<>> = {}
    BY <1>2
  <2>2. <<>> = [i \in {} |-> <<s, i>>]
    OBVIOUS
  <2> QED
    BY <2>1, <2>2 DEF FoundationOrdered
<1> QED
  BY <1>2, <1>10, <1>11, <1>12, <1>13 DEF LegalBoard, P

AnyBoard ==
  [deck : Seq(Board!Cards), tableau : [Board!Columns -> Seq(Laid)], stock : Seq(Board!Cards),
   waste : Seq(Board!Cards), foundations : [Suits -> Seq(Board!Cards)]]

Follows(g, h) == Board!OneMove(g, h) \/ h = Board!deal(h.deck)

\* A game: a board and those before it.
IsGame(past, g) ==
  /\ past \in Seq(AnyBoard) /\ Len(past) =< kMaxUndo /\ LegalBoard(g)
  /\ \A k \in 1..Len(past) : LegalBoard(past[k])
  /\ \A k \in 1..Len(past) : Follows(past[k], IF k < Len(past) THEN past[k + 1] ELSE g)

BoardInv == IsGame(s2, s1) /\ Board!TypeOK /\ Board!SelectionHolds

LEMMA GameGrows ==
  ASSUME Board!SolitaireAssumption, NEW past, NEW g, IsGame(past, g), NEW h, LegalBoard(h), Follows(g, h)
  PROVE  IsGame(Append(IF Len(past) = kMaxUndo THEN Tail(past) ELSE past, g), h)
<1> DEFINE kept == IF Len(past) = kMaxUndo THEN Tail(past) ELSE past
<1> DEFINE more == Append(kept, g)
<1>1. kMaxUndo \in Nat \ {0}
  BY DEF Board!SolitaireAssumption
<1>2. /\ past \in Seq(AnyBoard) /\ Len(past) \in Nat /\ Len(past) =< kMaxUndo /\ LegalBoard(g)
      /\ \A k \in 1..Len(past) : LegalBoard(past[k])
      /\ \A k \in 1..Len(past) : Follows(past[k], IF k < Len(past) THEN past[k + 1] ELSE g)
  BY DEF IsGame
<1>3. g \in AnyBoard
  BY <1>2 DEF LegalBoard, IsBoard, AnyBoard
\* What is kept is the end of the past.
<1>4. PICK d \in {0, 1} :
        /\ kept \in Seq(AnyBoard) /\ Len(kept) = Len(past) - d /\ Len(kept) \in Nat /\ Len(kept) < kMaxUndo
        /\ \A k \in 1..Len(kept) : kept[k] = past[k + d]
  <2>1. CASE Len(past) = kMaxUndo
    <3>1. past # <<>> /\ kept = Tail(past)
      BY <1>1, <1>2, <2>1
    <3>2. /\ Tail(past) \in Seq(AnyBoard) /\ Len(Tail(past)) = Len(past) - 1
          /\ \A k \in 1..Len(Tail(past)) : Tail(past)[k] = past[k + 1]
      BY <1>2, <3>1, HeadTailProperties
    <3> QED
      BY <1>1, <1>2, <2>1, <3>1, <3>2
  <2>2. CASE Len(past) # kMaxUndo
    <3>1. kept = past
      BY <2>2
    <3> QED
      BY <1>1, <1>2, <2>2, <3>1
  <2> QED
    BY <2>1, <2>2
<1> HIDE DEF kept
<1>5. /\ more \in Seq(AnyBoard) /\ Len(more) = Len(kept) + 1
      /\ \A k \in 1..Len(kept) : more[k] = kept[k]
      /\ more[Len(kept) + 1] = g
  BY <1>3, <1>4, AppendProperties
<1> HIDE DEF more
<1>6. ASSUME NEW k \in 1..Len(more)
      PROVE  LegalBoard(more[k]) /\ Follows(more[k], IF k < Len(more) THEN more[k + 1] ELSE h)
  <2>1. CASE k = Len(more)
    BY <1>2, <1>4, <1>5, <2>1
  <2>2. CASE k = Len(kept)
    <3>1. k + d = Len(past) /\ k + d \in 1..Len(past) /\ k < Len(more) /\ k \in 1..Len(kept)
      BY <1>2, <1>4, <1>5, <2>2
    <3>2. more[k] = past[k + d] /\ more[k + 1] = g
      BY <1>4, <1>5, <2>2, <3>1
    <3>3. Follows(past[k + d], g)
      BY <1>2, <3>1
    <3> QED
      BY <1>2, <3>1, <3>2, <3>3
  <2>3. CASE k < Len(kept)
    <3>1. /\ k \in 1..Len(kept) /\ k + 1 \in 1..Len(kept) /\ k < Len(more) /\ k + d \in 1..Len(past)
          /\ k + d < Len(past) /\ (k + 1) + d = (k + d) + 1
      BY <1>2, <1>4, <1>5, <2>3
    <3>2. more[k] = past[k + d] /\ more[k + 1] = past[(k + d) + 1]
      BY <1>4, <1>5, <3>1
    <3>3. Follows(past[k + d], past[(k + d) + 1])
      BY <1>2, <3>1
    <3> QED
      BY <1>2, <3>1, <3>2, <3>3
  <2> QED
    BY <1>4, <1>5, <2>1, <2>2, <2>3
<1>7. Len(more) =< kMaxUndo
  BY <1>1, <1>4, <1>5
<1>8. IsGame(more, h)
  BY <1>5, <1>6, <1>7 DEF IsGame
<1> QED
  BY <1>8 DEF more, kept

LEMMA GameGoesBack ==
  ASSUME Board!SolitaireAssumption, NEW past, NEW g, IsGame(past, g), past # <<>>
  PROVE  IsGame(Board!Front(past), Board!Last(past))
<1> DEFINE front == Board!Front(past)
<1> DEFINE last == Board!Last(past)
<1>1. /\ past \in Seq(AnyBoard) /\ Len(past) \in Nat /\ Len(past) =< kMaxUndo
      /\ \A k \in 1..Len(past) : LegalBoard(past[k])
      /\ \A k \in 1..Len(past) : Follows(past[k], IF k < Len(past) THEN past[k + 1] ELSE g)
  BY DEF IsGame
<1>2. /\ Len(past) \in Nat \ {0} /\ last = past[Len(past)] /\ front \in Seq(AnyBoard)
      /\ Len(front) = Len(past) - 1 /\ \A i \in 1..(Len(past) - 1) : front[i] = past[i]
  BY <1>1, LastOne
<1> HIDE DEF front, last
<1>3. Len(front) =< kMaxUndo
  <2>1. kMaxUndo \in Nat
    BY DEF Board!SolitaireAssumption
  <2> QED
    BY <1>1, <1>2, <2>1
<1>4. ASSUME NEW k \in 1..Len(front)
      PROVE  LegalBoard(front[k]) /\ Follows(front[k], IF k < Len(front) THEN front[k + 1] ELSE last)
  <2>1. k \in 1..Len(past) /\ k < Len(past) /\ front[k] = past[k]
    BY <1>1, <1>2
  <2>2. (IF k < Len(front) THEN front[k + 1] ELSE last) = past[k + 1]
    BY <1>1, <1>2
  <2>3. Follows(past[k], past[k + 1])
    BY <1>1, <2>1
  <2>4. LegalBoard(past[k])
    BY <1>1, <2>1
  <2> QED
    BY <2>1, <2>2, <2>3, <2>4
<1>5. LegalBoard(last)
  BY <1>1, <1>2
<1>6. IsGame(front, last)
  BY <1>2, <1>3, <1>4, <1>5 DEF IsGame
<1> QED
  BY <1>6 DEF front, last

LEMMA BecomesKeeps ==
  ASSUME Board!SolitaireAssumption, IsGame(s2, s1), NEW g, Moves(s1, g), Board!Becomes(g)
  PROVE  IsGame(s2, s1)'
<1>1. CASE g = s1
  BY <1>1 DEF Board!Becomes, Board!boards
<1>2. CASE g # s1
  <2>1. s1' = g /\ s2' = Append(IF Len(s2) = kMaxUndo THEN Tail(s2) ELSE s2, s1)
    BY <1>2 DEF Board!Becomes, Board!save_undo
  <2>2. LegalBoard(g) /\ Follows(s1, g)
    BY <1>2 DEF Moves, Follows
  <2> DEFINE past == s2
  <2>3. IsGame(Append(IF Len(s2) = kMaxUndo THEN Tail(s2) ELSE s2, s1), g)
    BY <2>2, GameGrows
  <2>4. IsGame(s2', s1')
    BY <2>1, <2>3
  <2> QED
    BY <2>4
<1> QED
  BY <1>1, <1>2

LEMMA NewDealKeeps ==
  ASSUME Board!SolitaireAssumption, IsGame(s2, s1), Board!NewDeal
  PROVE  IsGame(s2, s1)'
<1>1. PICK d \in Decks : s1' = Board!deal(d) /\ s2' = Append(IF Len(s2) = kMaxUndo THEN Tail(s2) ELSE s2, s1)
  BY DEF Board!NewDeal, Board!save_undo
<1> DEFINE g == Board!deal(d)
<1>2. LegalBoard(g) /\ g.deck = d
  BY DealIsLegal, DealIs
<1>3. Follows(s1, g)
  BY <1>2 DEF Follows
<1> HIDE DEF g
<1>4. IsGame(Append(IF Len(s2) = kMaxUndo THEN Tail(s2) ELSE s2, s1), g)
  BY <1>2, <1>3, GameGrows
<1>5. IsGame(s2', s1')
  BY <1>1, <1>4 DEF g
<1> QED
  BY <1>5

LEMMA GoBackKeeps ==
  ASSUME Board!SolitaireAssumption, IsGame(s2, s1), Board!GoBack
  PROVE  IsGame(s2, s1)'
<1>1. CASE s2 = <<>>
  BY <1>1 DEF Board!GoBack, Board!boards
<1>2. CASE s2 # <<>>
  <2>1. s1' = Board!Last(s2) /\ s2' = Board!Front(s2)
    BY <1>2 DEF Board!GoBack
  <2>2. IsGame(Board!Front(s2), Board!Last(s2))
    BY <1>2, GameGoesBack
  <2>3. IsGame(s2', s1')
    BY <2>1, <2>2
  <2> QED
    BY <2>3
<1> QED
  BY <1>1, <1>2

LEMMA NothingSelected ==
  ASSUME Board!SolitaireAssumption
  PROVE  0 \notin Board!Columns /\ kTableauCount + 1 \notin Board!Columns /\ kTableauCount + 1 # 0
BY DEF Board!SolitaireAssumption, Board!Columns

LEMMA BoardStarts ==
  ASSUME Board!SolitaireAssumption, Board!Init
  PROVE  BoardInv
<1>1. PICK d \in Decks : s1 = Board!deal(d)
  BY DEF Board!Init
<1>2. s2 = <<>> /\ s3 = Board!None /\ s4 = FALSE /\ s5 = FALSE
  BY DEF Board!Init
<1>3. LegalBoard(s1)
  BY <1>1, DealIsLegal
<1>4. kMaxUndo \in Nat /\ Len(s2) = 0 /\ s2 \in Seq(AnyBoard)
  BY <1>2 DEF Board!SolitaireAssumption
<1>5. IsGame(s2, s1)
  BY <1>3, <1>4 DEF IsGame
<1>6. Board!TypeOK
  <2>1. Len(s2) =< kMaxUndo
    BY <1>4
  <2> QED
    BY <1>2, <2>1 DEF Board!TypeOK
<1>7. Board!SelectionHolds
  BY <1>2, NothingSelected DEF Board!SelectionHolds, Board!None, Board!Waste
<1> QED
  BY <1>5, <1>6, <1>7 DEF BoardInv

\* What is left of the invariant when the game is one and nothing is selected.
LEMMA SelectionDropped ==
  ASSUME Board!SolitaireAssumption, IsGame(s2, s1)', s3' = Board!None, s4' \in BOOLEAN, s5' \in BOOLEAN
  PROVE  BoardInv'
<1>1. (Len(s2) =< kMaxUndo)'
  BY DEF IsGame
<1>2. Board!TypeOK'
  BY <1>1 DEF Board!TypeOK, Board!None
<1>3. Board!SelectionHolds'
  BY NothingSelected DEF Board!SelectionHolds, Board!None, Board!Waste
<1> QED
  BY <1>2, <1>3 DEF BoardInv

LEMMA BoardStep ==
  ASSUME Board!SolitaireAssumption, BoardInv, Board!Next
  PROVE  BoardInv'
<1>1. IsGame(s2, s1) /\ Board!TypeOK /\ Board!SelectionHolds
  BY DEF BoardInv
<1>2. LegalBoard(s1)
  BY <1>1 DEF IsGame
<1>3. s4 \in BOOLEAN /\ s5 \in BOOLEAN /\ s3 \in Board!Columns \cup {Board!None, Board!Waste}
  BY <1>1 DEF Board!TypeOK
<1>4. Suits \subseteq Nat
  BY DEF Board!SolitaireAssumption
<1>5. CASE Board!KeyDraw
  <2>1. s3' = Board!None /\ Board!Becomes(Board!draw_stock(s1)) /\ s4' = s4 /\ s5' = s5
    BY <1>5 DEF Board!KeyDraw, Board!Key
  <2>2. Moves(s1, Board!draw_stock(s1))
    BY <1>2, DrawMoves DEF Moves
  <2>3. IsGame(s2, s1)'
    BY <1>1, <2>1, <2>2, BecomesKeeps
  <2> QED
    BY <1>3, <2>1, <2>3, SelectionDropped
<1>6. CASE Board!KeyUndo
  <2>1. s3' = Board!None /\ Board!GoBack /\ s4' = s4 /\ s5' = s5
    BY <1>6 DEF Board!KeyUndo, Board!Key
  <2>2. IsGame(s2, s1)'
    BY <1>1, <2>1, GoBackKeeps
  <2> QED
    BY <1>3, <2>1, <2>2, SelectionDropped
<1>7. CASE Board!KeyRestart
  <2>1. s3' = Board!None /\ Board!NewDeal /\ s4' = s4 /\ s5' = s5
    BY <1>7 DEF Board!KeyRestart, Board!Key
  <2>2. IsGame(s2, s1)'
    BY <1>1, <2>1, NewDealKeeps
  <2> QED
    BY <1>3, <2>1, <2>2, SelectionDropped
<1>8. CASE s1' = s1 /\ s2' = s2 /\ s3' = s3 /\ s4' \in BOOLEAN /\ s5' \in BOOLEAN
  BY <1>1, <1>8 DEF BoardInv, Board!TypeOK, Board!SelectionHolds
<1>9. CASE Board!KeyWaste
  <2>1. s1' = s1 /\ s2' = s2 /\ s4' = s4 /\ s5' = s5
        /\ s3' = IF s1.waste = <<>> THEN Board!None ELSE Board!Waste
    BY <1>9 DEF Board!KeyWaste, Board!Key, Board!boards
  <2>2. IsGame(s2, s1)'
    BY <1>1, <2>1
  <2>3. CASE s1.waste = <<>>
    BY <1>3, <2>1, <2>2, <2>3, SelectionDropped
  <2>4. CASE s1.waste # <<>>
    <3>1. Board!TypeOK'
      BY <1>1, <2>1, <2>4 DEF Board!TypeOK
    <3>2. Board!SelectionHolds'
      BY <2>1, <2>4, NothingSelected DEF Board!SelectionHolds, Board!Waste
    <3> QED
      BY <2>2, <3>1, <3>2 DEF BoardInv
  <2> QED
    BY <2>3, <2>4
<1>10. CASE Board!KeyColumn
  <2>1. s4' = s4 /\ s5' = s5
    BY <1>10 DEF Board!KeyColumn, Board!Key
  <2>2. PICK c \in Board!Columns :
          IF s3 = Board!None
            THEN s3' = (IF s1.tableau[c] = <<>> THEN Board!None ELSE c) /\ s1' = s1 /\ s2' = s2
            ELSE /\ s3' = Board!None
                 /\ Board!Becomes(IF s3 = Board!Waste THEN Board!waste_to_tableau(s1, c)
                                  ELSE Board!longest_run(s1, s3, c))
    BY <1>10 DEF Board!KeyColumn, Board!boards
  <2>3. CASE s3 = Board!None /\ s1.tableau[c] = <<>>
    <3>1. s1' = s1 /\ s2' = s2 /\ s3' = Board!None
      BY <2>2, <2>3
    <3>2. IsGame(s2, s1)'
      BY <1>1, <3>1
    <3> QED
      BY <1>3, <2>1, <3>1, <3>2, SelectionDropped
  <2>4. CASE s3 = Board!None /\ s1.tableau[c] # <<>>
    <3>1. s1' = s1 /\ s2' = s2 /\ s3' = c
      BY <2>2, <2>4
    <3>2. IsGame(s2, s1)'
      BY <1>1, <3>1
    <3>3. Board!TypeOK'
      BY <1>1, <2>1, <3>1 DEF Board!TypeOK
    <3>4. Board!SelectionHolds'
      BY <2>4, <3>1, NothingSelected DEF Board!SelectionHolds, Board!Waste
    <3> QED
      BY <3>2, <3>3, <3>4 DEF BoardInv
  <2>5. CASE s3 = Board!Waste
    <3>1. s3' = Board!None /\ Board!Becomes(Board!waste_to_tableau(s1, c))
      BY <2>2, <2>5, NothingSelected DEF Board!None, Board!Waste
    <3>2. Moves(s1, Board!waste_to_tableau(s1, c))
      BY <1>2, <1>4, WasteToTableauMoves DEF Moves
    <3>3. IsGame(s2, s1)'
      BY <1>1, <3>1, <3>2, BecomesKeeps
    <3> QED
      BY <1>3, <2>1, <3>1, <3>3, SelectionDropped
  <2>6. CASE s3 \in Board!Columns
    <3>1. s3' = Board!None /\ Board!Becomes(Board!longest_run(s1, s3, c))
      BY <2>2, <2>6, NothingSelected DEF Board!None, Board!Waste
    <3>2. Moves(s1, Board!longest_run(s1, s3, c))
      BY <1>2, <2>6, TableauToTableauMoves DEF Moves, Board!longest_run
    <3>3. IsGame(s2, s1)'
      BY <1>1, <3>1, <3>2, BecomesKeeps
    <3> QED
      BY <1>3, <2>1, <3>1, <3>3, SelectionDropped
  <2> QED
    BY <1>3, <2>3, <2>4, <2>5, <2>6
<1>11. CASE Board!KeyFoundation
  <2> DEFINE g == CASE s3 = Board!None -> Board!auto_foundation(s1)
                    [] s3 = Board!Waste -> Board!waste_to_foundation(s1)
                    [] OTHER -> Board!tableau_to_foundation(s1, s3)
  <2>1. s3' = Board!None /\ Board!Becomes(g) /\ s4' = s4 /\ s5' = s5
    BY <1>11 DEF Board!KeyFoundation, Board!Key
  <2>2. CASE s3 = Board!None
    <3>1. g = Board!auto_foundation(s1)
      BY <2>2, NothingSelected DEF Board!None, Board!Waste
    <3> QED
      BY <1>2, <3>1, AutoMoves, BecomesKeeps, <1>1, <1>3, <2>1, SelectionDropped
  <2>3. CASE s3 = Board!Waste
    <3>1. g = Board!waste_to_foundation(s1)
      BY <2>3, NothingSelected DEF Board!None, Board!Waste
    <3>2. Moves(s1, g)
      BY <1>2, <1>4, <3>1, WasteToFoundationMoves DEF Moves
    <3>3. IsGame(s2, s1)'
      BY <1>1, <2>1, <3>2, BecomesKeeps
    <3> QED
      BY <1>3, <2>1, <3>3, SelectionDropped
  <2>4. CASE s3 \in Board!Columns
    <3>1. g = Board!tableau_to_foundation(s1, s3)
      BY <2>4, NothingSelected DEF Board!None, Board!Waste
    <3>2. Moves(s1, g)
      BY <1>2, <1>4, <2>4, <3>1, TableauToFoundationMoves DEF Moves
    <3>3. IsGame(s2, s1)'
      BY <1>1, <2>1, <3>2, BecomesKeeps
    <3> QED
      BY <1>3, <2>1, <3>3, SelectionDropped
  <2> QED
    BY <1>3, <2>2, <2>3, <2>4
<1>12. CASE Board!Enter
  <2>1. s4' = FALSE /\ s3' = Board!None
    BY <1>12 DEF Board!Enter
  <2>2. CASE ~s4
    <3>1. s1' = s1 /\ s2' = s2 /\ s5' = s5
      BY <1>12, <2>2 DEF Board!Enter, Board!boards
    <3>2. IsGame(s2, s1)'
      BY <1>1, <3>1
    <3> QED
      BY <1>3, <2>1, <3>1, <3>2, SelectionDropped
  <2>3. CASE s4
    <3>1. PICK c \in Board!Commands :
            /\ s5' = (c.op = "quit")
            /\ CASE c.op = "undo" -> Board!GoBack
                 [] c.op = "restart" -> Board!NewDeal
                 [] OTHER -> Board!Becomes(Board!Asked(s1, c))
      BY <1>12, <2>3 DEF Board!Enter
    <3>2. Moves(s1, Board!Asked(s1, c))
      BY <1>2, AskedMoves
    <3>3. Board!GoBack \/ Board!NewDeal \/ Board!Becomes(Board!Asked(s1, c))
      BY <3>1
    <3>4. IsGame(s2, s1)'
      BY <1>1, <3>2, <3>3, GoBackKeeps, NewDealKeeps, BecomesKeeps
    <3>5. s5' \in BOOLEAN
      BY <3>1
    <3> QED
      BY <2>1, <3>4, <3>5, SelectionDropped
  <2> QED
    BY <2>2, <2>3
<1>13. CASE Board!Escape
  <2>1. s1' = s1 /\ s2' = s2 /\ s3' = Board!None /\ s4' = FALSE /\ s5' = s5
    BY <1>13 DEF Board!Escape, Board!boards
  <2>2. IsGame(s2, s1)'
    BY <1>1, <2>1
  <2> QED
    BY <1>3, <2>1, <2>2, SelectionDropped
<1>14. CASE Board!KeyQuit \/ Board!BeginLine \/ Board!EraseLine
  <2>1. s1' = s1 /\ s2' = s2 /\ s3' = s3
    BY <1>14 DEF Board!KeyQuit, Board!BeginLine, Board!EraseLine, Board!boards
  <2>2. s4' \in BOOLEAN /\ s5' \in BOOLEAN
    BY <1>3, <1>14 DEF Board!KeyQuit, Board!BeginLine, Board!EraseLine, Board!Key
  <2> QED
    BY <1>8, <2>1, <2>2
<1> QED
  BY <1>5, <1>6, <1>7, <1>9, <1>10, <1>11, <1>12, <1>13, <1>14 DEF Board!Next

\* The boards of a game are legal, and each follows from the one before.
LEMMA GameIsLegal ==
  ASSUME Board!SolitaireAssumption, BoardInv
  PROVE  /\ Board!TypeOK /\ Board!CardsOnce /\ Board!ColumnsOrdered /\ Board!TalonKeepsOrder
         /\ Board!UndoIsThePast /\ Board!SelectionHolds
<1> DEFINE all == Append(s2, s1)
<1>1. /\ s2 \in Seq(AnyBoard) /\ Len(s2) \in Nat /\ LegalBoard(s1)
      /\ \A k \in 1..Len(s2) : LegalBoard(s2[k])
      /\ \A k \in 1..Len(s2) : Follows(s2[k], IF k < Len(s2) THEN s2[k + 1] ELSE s1)
  BY DEF BoardInv, IsGame
<1>2. s1 \in AnyBoard
  BY <1>1 DEF LegalBoard, IsBoard, AnyBoard
<1>3. /\ all \in Seq(AnyBoard) /\ Len(all) = Len(s2) + 1
      /\ \A k \in 1..Len(s2) : all[k] = s2[k]
      /\ all[Len(s2) + 1] = s1
  BY <1>1, <1>2, AppendProperties
<1>4. Board!Boards = all
  BY DEF Board!Boards
<1> HIDE DEF all
<1>5. DOMAIN all = 1..(Len(s2) + 1)
  BY <1>3
<1>6. ASSUME NEW k \in DOMAIN all PROVE LegalBoard(all[k])
  <2>1. CASE k = Len(s2) + 1
    BY <1>1, <1>3, <2>1
  <2>2. CASE k \in 1..Len(s2)
    BY <1>1, <1>3, <2>2
  <2> QED
    BY <1>1, <1>5, <2>1, <2>2
<1>7. Board!CardsOnce
  BY <1>4, <1>6 DEF Board!CardsOnce, LegalBoard
<1>8. Board!ColumnsOrdered
  BY <1>4, <1>6 DEF Board!ColumnsOrdered, LegalBoard, ColumnOrdered, FoundationOrdered
<1>9. Board!TalonKeepsOrder
  BY <1>4, <1>6 DEF Board!TalonKeepsOrder, LegalBoard, TalonOrdered
<1>10. Board!UndoIsThePast
  <2>1. ASSUME NEW k \in 1..Len(s2) PROVE Follows(all[k], all[k + 1])
    <3>1. Follows(s2[k], IF k < Len(s2) THEN s2[k + 1] ELSE s1) /\ all[k] = s2[k]
      BY <1>1, <1>3
    <3>2. all[k + 1] = IF k < Len(s2) THEN s2[k + 1] ELSE s1
      <4>1. CASE k < Len(s2)
        <5>1. k + 1 \in 1..Len(s2)
          BY <1>1, <4>1
        <5> QED
          BY <1>3, <4>1, <5>1
      <4>2. CASE k = Len(s2)
        BY <1>1, <1>3, <4>2
      <4> QED
        BY <1>1, <4>1, <4>2
    <3> QED
      BY <3>1, <3>2
  <2> QED
    BY <1>4, <2>1 DEF Board!UndoIsThePast, Follows
<1> QED
  BY <1>7, <1>8, <1>9, <1>10 DEF BoardInv

------------------------------------------------------------------------------
(* The game is one of the parts, whose variables no other part writes.      *)

PartInv == part = "solitaire" => BoardInv

LEMMA PartStep ==
  ASSUME Board!SolitaireAssumption, PartInv, [PartsNext]_<<part, vars, shared>>
  PROVE  PartInv'
<1>1. CASE part = "solitaire" /\ Board!Next
  BY <1>1, BoardStep DEF PartInv
<1>2. CASE part # "solitaire" /\ part' = part
  BY <1>2 DEF PartInv
<1>3. CASE UNCHANGED <<part, vars, shared>>
  <2>1. part' = part /\ s1' = s1 /\ s2' = s2 /\ s3' = s3 /\ s4' = s4 /\ s5' = s5
    BY <1>3 DEF shared
  <2>2. BoardInv => BoardInv'
    BY <2>1 DEF BoardInv, Board!TypeOK, Board!SelectionHolds
  <2> QED
    BY <2>1, <2>2 DEF PartInv
<1> QED
  BY <1>1, <1>2, <1>3 DEF PartsNext

\* For any suits, columns, decks and number of boards to go back to, any moves,
\* draws, deals and undos: on every board each card is once, runs and foundations
\* are in order and the talon keeps the order of the deal; each board follows from
\* the one before it, and what is selected has a card to move
\* (solitaire/src/main.cpp:188-490, 602-778).
THEOREM BoardsStayLegal == Board!SolitaireAssumption => (PartsSpec => []BoardsLegal)
<1> SUFFICES ASSUME Board!SolitaireAssumption PROVE PartsSpec => []BoardsLegal
  OBVIOUS
<1>1. PartsInit => PartInv
  BY BoardStarts DEF PartsInit, PartInv
<1>2. PartInv /\ [PartsNext]_<<part, vars, shared>> => PartInv'
  BY PartStep
<1>3. PartInv => BoardsLegal
  BY GameIsLegal DEF PartInv, BoardsLegal
<1> QED
  BY <1>1, <1>2, <1>3, PTL DEF PartsSpec
=============================================================================
