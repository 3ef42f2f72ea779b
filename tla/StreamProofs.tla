--------------------------- MODULE StreamProofs ------------------------------
(***************************************************************************)
(* What is sent arrives once and in order: a connection of tcpd carries two *)
(* byte streams, for any initial numbers, any network and any number of     *)
(* chunks that does not use up the 32 bits of the sequence numbers.  And of  *)
(* the lease of the DHCP client, for any servers and any network: the       *)
(* address in use is held.                                                  *)
(***************************************************************************)
EXTENDS MCTransport, Integers, SequenceTheorems, WellFoundedInduction, TLAPS

-----------------------------------------------------------------------------
(* Sequence numbers.                                                       *)

LEMMA DivUnique ==
  ASSUME NEW w \in Nat \ {0}, NEW p \in Int, NEW q \in Int, NEW r \in 0..(w - 1), NEW s \in 0..(w - 1),
         w * p + r = w * q + s
  PROVE  p = q /\ r = s
<1>1. ASSUME NEW a \in Int, NEW b \in Int, a < b PROVE w * a + w =< w * b
  <2>1. b - a - 1 \in Nat
    BY <1>1
  <2>2. \A n \in Nat : w * n >= 0
    OBVIOUS
  <2>3. w * (b - a - 1) >= 0
    BY <2>1, <2>2
  <2>4. w * (b - a - 1) = w * b - w * a - w
    OBVIOUS
  <2> QED
    BY <2>3, <2>4
<1>2. ~(p < q)
  BY <1>1
<1>3. ~(q < p)
  BY <1>1
<1> QED
  BY <1>2, <1>3

LEMMA DivMod ==
  ASSUME NEW w \in Nat \ {0}, NEW x \in Int
  PROVE  x % w \in 0..(w-1) /\ \E q \in Int : x = w * q + (x % w)
<1>1. x % w \in 0..(w-1)
  OBVIOUS
<1>2. x \div w \in Int
  OBVIOUS
<1>3. x = w * (x \div w) + (x % w)
  OBVIOUS
<1> QED
  BY <1>1, <1>2, <1>3

LEMMA ModIs ==
  ASSUME NEW w \in Nat \ {0}, NEW x \in Int, NEW q \in Int, NEW r \in 0..(w-1), x = w * q + r
  PROVE  x % w = r
<1>1. PICK p \in Int : x = w * p + (x % w)
  BY DivMod
<1>2. x % w \in 0..(w-1)
  BY DivMod
<1>3. PICK s : s = x % w
  OBVIOUS
<1>4. w * p + s = w * q + r /\ s \in 0..(w - 1)
  BY <1>1, <1>2, <1>3
<1>5. /\ w \in Nat \ {0} /\ p \in Int /\ q \in Int /\ s \in 0..(w - 1) /\ r \in 0..(w - 1)
      /\ w * p + s = w * q + r
  BY <1>4
<1>6. \A c, d \in 0..(w - 1) : w * p + c = w * q + d => p = q /\ c = d
  BY DivUnique
<1>7. p = q /\ s = r
  BY <1>5, <1>6
<1> QED
  BY <1>3, <1>7

LEMMA ModSum ==
  ASSUME NEW w \in Nat \ {0}, NEW x \in Int, NEW n \in Int
  PROVE  ((x % w) + n) % w = (x + n) % w
<1> DEFINE r == x % w
           t == (r + n) % w
<1>1. r \in 0..(w-1) /\ \E p \in Int : x = w * p + r
  BY DivMod
<1>2. r + n \in Int
  BY <1>1
<1>3. t \in 0..(w-1) /\ \E q \in Int : r + n = w * q + t
  BY <1>2, DivMod
<1> HIDE DEF r, t
<1>4. PICK p \in Int, q \in Int : x = w * p + r /\ r + n = w * q + t
  BY <1>1, <1>3
<1>5. w * (p + q) = w * p + w * q
  OBVIOUS
<1>6. x + n = w * (p + q) + t
  BY <1>1, <1>3, <1>4, <1>5
<1>7. (x + n) % w = t
  <2>1. t \in 0..(w-1) /\ p + q \in Int /\ x + n \in Int
    BY <1>3
  <2> QED
    BY <1>6, <2>1, ModIs, Zenon
<1> QED
  BY <1>7 DEF r, t

LEMMA ModNear ==
  ASSUME NEW w \in Nat \ {0}, NEW x \in Int, NEW d \in Nat, d < w, (x + d) % w = x % w
  PROVE  d = 0
<1> DEFINE r == x % w
<1>1. r \in 0..(w-1) /\ \E p \in Int : x = w * p + r
  BY DivMod
<1>2. x + d \in Int
  OBVIOUS
<1>3. \E q \in Int : x + d = w * q + r
  BY <1>2, DivMod
<1> HIDE DEF r
<1>4. PICK p \in Int, q \in Int : x = w * p + r /\ x + d = w * q + r
  BY <1>1, <1>3
<1>5. w * (q - p) = w * q - w * p /\ w * 0 = 0
  OBVIOUS
<1>6. w * 0 + d = w * (q - p) + 0
  BY <1>1, <1>4, <1>5
<1>7. d \in 0..(w-1) /\ 0 \in 0..(w-1) /\ q - p \in Int /\ 0 \in Int
  OBVIOUS
<1> QED
  BY <1>6, <1>7, DivUnique

\* What a connection carries does not use up the sequence numbers.
NumbersSuffice == Unit * MaxChunks + 1 < W

\* The number of the first byte of the chunk that e sends after k others.
Num(e, k) == (Iss[e] + 1 + Unit * k) % W

-----------------------------------------------------------------------------
(* The invariant.                                                          *)

\* The slot of e has been taken.
Begun(e) == IF e = "C" THEN net # {} ELSE met

Fresh(e) == wire[e] = <<>> /\ got[e] = <<>> /\ e \notin fin \cup ended

SlotOf(e) ==
  /\ ~Begun(e) => st[e] = "closed"
  /\ st[e] # "closed" => e \notin fin \cup ended
  /\ ~Begun(e) \/ st[e] \in {"synsent", "synrcvd"} => Fresh(e)
  /\ st[e] = "synsent" => e = "C"
  /\ st[e] = "synrcvd" => e = "S"
  /\ st[e] \in {"synrcvd", "established"} => Begun(Other(e))

Slots == \A e \in Sides : SlotOf(e)

\* Each side's next number counts what it sent, and the number it expects
\* counts what it was handed.
Numbers ==
  \A e \in Sides :
    /\ Begun(e) => snd[e] = (Num(e, Len(wire[e])) + (IF e \in fin THEN 1 ELSE 0)) % W
    /\ st[e] \in {"synrcvd", "established"} => rcv[e] = Num(Other(e), Len(got[e]))

Counts ==
  \A e \in Sides :
    /\ Len(wire[e]) =< taken[e] /\ taken[e] =< written[e]
    /\ Len(got[e]) =< Len(wire[Other(e)])

\* A chunk in the network is where its sender put it, a FIN is at the end.
Carried(s) ==
  LET e == Other(s.to) IN
  /\ Begun(e)
  /\ s.kind = "syn" => s.to = "S" /\ s.seq = Iss["C"] /\ s.chunk = NoChunk
  /\ s.kind = "synack" => s.to = "C" /\ s.seq = Iss["S"] /\ s.chunk = NoChunk
  /\ s.kind = "fin" => e \in fin /\ s.seq = Num(e, Len(wire[e])) /\ s.chunk = NoChunk
  /\ s.chunk # NoChunk =>
       \E k \in 1..Len(wire[e]) : s.seq = Num(e, k - 1) /\ s.chunk = wire[e][k]

\* Without a failure each chunk taken is on the wire.
Whole ==
  \A e \in Sides :
    /\ e \notin holes => wire[e] = [k \in 1..taken[e] |-> k]
    /\ e \in eofs => Begun(e) /\ st[e] = "closed" /\ taken[e] = written[e]

IInv == TypeOK /\ Slots /\ Numbers /\ Counts /\ Whole /\ \A s \in net : Carried(s)

-----------------------------------------------------------------------------
(* Lemmas about the numbers.                                               *)

LEMMA ConstantsTyped ==
  /\ W \in Nat \ {0} /\ Unit \in Nat \ {0} /\ MaxChunks \in Nat /\ MaxSyns \in Nat
  /\ AckSegments \in Nat \ {0} /\ Iss \in [Sides -> Seqs]
BY StreamAssumption DEF StreamAssumption, Sides, Seqs

LEMMA PlusTyped == \A x \in Int, n \in Int : Plus(x, n) \in Seqs
<1> TAKE x \in Int, n \in Int
<1>1. x + n \in Int
  OBVIOUS
<1> QED
  BY <1>1, ConstantsTyped, DivMod DEF Plus, Seqs

LEMMA Offset == \A e \in Sides, k \in Nat : Iss[e] \in Nat /\ Iss[e] + 1 + Unit * k \in Nat
<1> TAKE e \in Sides, k \in Nat
<1>1. Iss[e] \in Nat /\ Unit \in Nat
  BY ConstantsTyped DEF Seqs
<1>2. Unit * k \in Nat
  BY <1>1
<1> QED
  BY <1>1, <1>2

LEMMA NumTyped == \A e \in Sides, k \in Nat : Num(e, k) \in Seqs
<1> TAKE e \in Sides, k \in Nat
<1> DEFINE x == Iss[e] + 1 + Unit * k
<1>1. x \in Int /\ W \in Nat \ {0}
  BY Offset, ConstantsTyped
<1>2. x % W \in 0..(W - 1)
  <2> HIDE DEF x
  <2> QED
    BY <1>1, DivMod
<1> QED
  BY <1>2 DEF Num, Seqs

LEMMA NumZero == \A e \in Sides : Plus(Iss[e], 1) = Num(e, 0)
<1> TAKE e \in Sides
<1>1. Unit * 0 = 0 /\ Iss[e] \in Nat
  BY ConstantsTyped DEF Seqs
<1>2. Iss[e] + 1 + Unit * 0 = Iss[e] + 1
  BY <1>1
<1> QED
  BY <1>2 DEF Num, Plus

\* The next chunk is Unit further.
LEMMA NumNext == \A e \in Sides, k \in Nat : Plus(Num(e, k), Unit) = Num(e, k + 1)
<1> TAKE e \in Sides, k \in Nat
<1> DEFINE x == Iss[e] + 1 + Unit * k
<1>1. x \in Nat /\ Unit \in Nat /\ Iss[e] \in Nat
  BY Offset, ConstantsTyped
<1>2. Unit * (k + 1) = Unit * k + Unit
  BY <1>1
<1>3. x + Unit = Iss[e] + 1 + Unit * (k + 1)
  BY <1>1, <1>2
<1>4. ((x % W) + Unit) % W = (x + Unit) % W
  <2> HIDE DEF x
  <2>1. x \in Int /\ Unit \in Int /\ W \in Nat \ {0}
    BY <1>1, ConstantsTyped
  <2> QED
    BY <2>1, ModSum
<1> QED
  BY <1>3, <1>4 DEF Num, Plus

\* A number in range is its own remainder.
LEMMA NumPlain == \A x \in Seqs : (x + 0) % W = x
<1> TAKE x \in Seqs
<1>1. x \in Int /\ W \in Nat \ {0} /\ x \in 0..(W - 1) /\ x = W * 0 + x
  BY ConstantsTyped DEF Seqs
<1>2. (x + 0) = x /\ 0 \in Int
  BY <1>1
<1>3. x % W = x
  BY <1>1, <1>2, ModIs, Zenon
<1> QED
  BY <1>2, <1>3

\* Two chunks of a connection have different numbers.
LEMMA NumDiffers ==
  ASSUME NumbersSuffice, NEW e \in Sides, NEW j \in 0..MaxChunks, NEW k \in 0..MaxChunks,
         Num(e, j) = Num(e, k)
  PROVE  j = k
<1>0. Unit \in Nat \ {0} /\ MaxChunks \in Nat /\ W \in Nat \ {0}
  BY ConstantsTyped
<1>1. ASSUME NEW a \in 0..MaxChunks, NEW b \in 0..MaxChunks, a < b, Num(e, a) = Num(e, b) PROVE FALSE
  <2> DEFINE x == Iss[e] + 1 + Unit * a
             d == Unit * (b - a)
  <2>1. x \in Int /\ x + d = Iss[e] + 1 + Unit * b
    <3>1. Unit * (b - a) = Unit * b - Unit * a
      BY <1>0
    <3> QED
      BY <1>0, <1>1, <3>1, Offset
  <2>2. d \in Nat /\ d # 0 /\ d =< Unit * MaxChunks
    <3>1. b - a \in Nat \ {0} /\ b - a =< MaxChunks
      BY <1>0, <1>1
    <3>2. \A m, n \in Nat : m =< n => Unit * m =< Unit * n
      <4> TAKE m, n \in Nat
      <4> HAVE m =< n
      <4>1. Unit * (n - m) >= 0
        BY <1>0
      <4>2. Unit * (n - m) = Unit * n - Unit * m
        BY <1>0
      <4> QED
        BY <1>0, <4>1, <4>2
    <3>3. Unit * (b - a) =< Unit * MaxChunks /\ Unit * 1 =< Unit * (b - a) /\ Unit * 1 = Unit
      BY <1>0, <3>1, <3>2
    <3> QED
      BY <1>0, <3>1, <3>3
  <2>3. d < W
    BY <1>0, <2>2 DEF NumbersSuffice
  <2>4. (x + d) % W = x % W
    BY <1>1, <2>1 DEF Num
  <2> HIDE DEF x, d
  <2> QED
    BY <1>0, <2>1, <2>2, <2>3, <2>4, ModNear
<1> QED
  BY <1>0, <1>1

\* The number of the SYN, again.
LEMMA SynNumber == \A e \in Sides : Plus(Num(e, 0), W - 1) = Iss[e]
<1> TAKE e \in Sides
<1> DEFINE x == Iss[e] + 1
<1>1. Num(e, 0) = x % W
  BY NumZero DEF Plus
<1>2. x \in Int /\ W \in Nat \ {0} /\ W - 1 \in Int /\ Iss[e] \in 0..(W - 1)
  BY ConstantsTyped DEF Seqs
<1>3. ((x % W) + (W - 1)) % W = (x + (W - 1)) % W
  <2> HIDE DEF x
  <2> QED
    BY <1>2, ModSum
<1>4. x + (W - 1) = W * 1 + Iss[e] /\ 1 \in Int /\ x + (W - 1) \in Int
  BY <1>2
<1>5. (x + (W - 1)) % W = Iss[e]
  <2> HIDE DEF x
  <2> QED
    BY <1>2, <1>4, ModIs, Zenon
<1> QED
  BY <1>1, <1>3, <1>5 DEF Plus

\* How far one number is behind another that is d further.
LEMMA ModDiff ==
  ASSUME NEW w \in Nat \ {0}, NEW y \in Int, NEW d \in 0..(w - 1)
  PROVE  (((y + d) % w) + w - (y % w)) % w = d
<1> DEFINE a == (y + d) % w
           b == y % w
<1>1. y + d \in Int /\ d \in Int
  OBVIOUS
<1>2. a \in 0..(w - 1) /\ b \in 0..(w - 1)
      /\ (\E p \in Int : y + d = w * p + a) /\ (\E q \in Int : y = w * q + b)
  BY <1>1, DivMod
<1> HIDE DEF a, b
<1>3. PICK p \in Int, q \in Int : y + d = w * p + a /\ y = w * q + b
  BY <1>2
<1>4. w * (1 + q - p) = w + w * q - w * p
  OBVIOUS
<1>5. a + w - b = w * (1 + q - p) + d /\ a + w - b \in Int /\ 1 + q - p \in Int
  BY <1>1, <1>2, <1>3, <1>4
<1>6. (a + w - b) % w = d
  BY <1>5, ModIs, Zenon
<1> QED
  BY <1>6 DEF a, b

-----------------------------------------------------------------------------
(* Lemmas about the state.                                                 *)

LEMMA OtherSide == \A e \in Sides : Other(e) \in Sides /\ Other(e) # e /\ Other(Other(e)) = e
BY DEF Sides, Other

LEMMA MsgTyped ==
  ASSUME NEW e \in Sides, NEW kind \in {"syn", "synack", "ack", "fin"},
         NEW seq \in Seqs, NEW ack \in Seqs, NEW chunk \in 0..MaxChunks
  PROVE  Msg(e, kind, seq, ack, chunk) \in Segment
BY OtherSide DEF Msg, Segment

\* What is on the wire and what was handed over is bounded.
LEMMA Bounds ==
  ASSUME TypeOK, Counts, NEW e \in Sides
  PROVE  /\ wire[e] \in Seq(1..MaxChunks) /\ got[e] \in Seq(1..MaxChunks)
         /\ Len(wire[e]) \in 0..MaxChunks /\ Len(got[e]) \in 0..MaxChunks
         /\ Len(got[e]) =< Len(wire[Other(e)])
<1>1. wire[e] \in Seq(1..MaxChunks) /\ got[e] \in Seq(1..MaxChunks) /\ wire[Other(e)] \in Seq(1..MaxChunks)
  BY OtherSide DEF TypeOK
<1>2. Len(wire[e]) \in Nat /\ Len(got[e]) \in Nat /\ Len(wire[Other(e)]) \in Nat
  BY <1>1
<1>3. ASSUME NEW o \in Sides PROVE Len(wire[o]) \in 0..MaxChunks
  <2>1. written[o] \in 0..MaxChunks /\ taken[o] \in 0..MaxChunks /\ wire[o] \in Seq(1..MaxChunks)
    BY DEF TypeOK
  <2>2. Len(wire[o]) =< taken[o] /\ taken[o] =< written[o]
    BY DEF Counts
  <2>3. Len(wire[o]) \in Nat
    BY <2>1
  <2> QED
    BY <2>1, <2>2, <2>3, ConstantsTyped
<1>4. Len(got[e]) =< Len(wire[Other(e)])
  BY DEF Counts
<1> QED
  BY <1>1, <1>2, <1>3, <1>4, OtherSide, ConstantsTyped

\* A segment that comes with the number a side expects carries the very next
\* chunk of the other side, or its end.
LEMMA NextSegment ==
  ASSUME NumbersSuffice, IInv, NEW e \in Sides, NEW s \in net, s.to = e,
         st[e] \in {"synrcvd", "established"}, s.seq = rcv[e]
  PROVE  /\ s.chunk # NoChunk =>
              /\ s.kind # "fin"
              /\ Len(got[e]) < Len(wire[Other(e)])
              /\ s.chunk = wire[Other(e)][Len(got[e]) + 1]
         /\ s.kind = "fin" => Other(e) \in fin /\ Len(got[e]) = Len(wire[Other(e)])
<1> DEFINE o == Other(e)
<1>0. o \in Sides /\ Carried(s) /\ s.seq = Num(o, Len(got[e]))
  BY OtherSide DEF IInv, Numbers
<1>1. Len(wire[o]) \in 0..MaxChunks /\ Len(got[e]) \in 0..MaxChunks /\ MaxChunks \in Nat
  BY <1>0, Bounds, ConstantsTyped DEF IInv
<1>2. ASSUME s.chunk # NoChunk
      PROVE  s.kind # "fin" /\ Len(got[e]) < Len(wire[o]) /\ s.chunk = wire[o][Len(got[e]) + 1]
  <2>1. s.kind # "fin"
    BY <1>0, <1>2 DEF Carried
  <2>2. PICK k \in 1..Len(wire[o]) : s.seq = Num(o, k - 1) /\ s.chunk = wire[o][k]
    BY <1>0, <1>2 DEF Carried
  <2>3. k - 1 \in 0..MaxChunks
    BY <1>1
  <2>4. k - 1 = Len(got[e])
    BY <1>0, <1>1, <2>2, <2>3, NumDiffers
  <2>5. k = Len(got[e]) + 1
    BY <1>1, <2>4
  <2> QED
    BY <1>1, <2>1, <2>2, <2>5
<1>3. ASSUME s.kind = "fin" PROVE o \in fin /\ Len(got[e]) = Len(wire[o])
  <2>1. o \in fin /\ s.seq = Num(o, Len(wire[o]))
    BY <1>0, <1>3 DEF Carried
  <2> QED
    BY <1>0, <1>1, <2>1, NumDiffers
<1> QED
  BY <1>2, <1>3

-----------------------------------------------------------------------------
(* Every step keeps the types.                                             *)

LEMMA InitTyped == Init => TypeOK
<1> HAVE Init
<1>1. 0 \in Seqs /\ Iss \in [Sides -> Seqs] /\ 0 \in 0..AckSegments /\ 0 \in 0..MaxSyns /\ 0 \in 0..MaxChunks
  BY ConstantsTyped DEF Seqs
<1>2. <<>> \in Seq(1..MaxChunks)
  OBVIOUS
<1> QED
  BY <1>1, <1>2 DEF Init, TypeOK

\* The number of what follows, which a step sends or stores, is a number.
LEMMA SeqsTyped ==
  ASSUME TypeOK
  PROVE  /\ \A e \in Sides : snd[e] \in Seqs /\ rcv[e] \in Seqs /\ Iss[e] \in Seqs
         /\ \A x \in Seqs : Plus(x, 1) \in Seqs /\ Plus(x, Unit) \in Seqs /\ Plus(x, W - 1) \in Seqs
         /\ 0 \in Seqs /\ NoChunk \in 0..MaxChunks
<1>1. \A e \in Sides : snd[e] \in Seqs /\ rcv[e] \in Seqs /\ Iss[e] \in Seqs
  BY ConstantsTyped DEF TypeOK
<1>2. Seqs \subseteq Int /\ 1 \in Int /\ Unit \in Int /\ W - 1 \in Int
  BY ConstantsTyped DEF Seqs
<1>3. 0 \in Seqs /\ NoChunk \in 0..MaxChunks
  BY ConstantsTyped DEF Seqs, NoChunk
<1> QED
  BY <1>1, <1>2, <1>3, PlusTyped

LEMMA ConsumeTyped ==
  ASSUME TypeOK, NEW e \in Sides, NEW s \in net, Consume(e, s)
  PROVE  /\ got' \in [Sides -> Seq(1..MaxChunks)] /\ rcv' \in [Sides -> Seqs]
         /\ owed' \in [Sides -> 0..AckSegments] /\ net' \subseteq Segment /\ ended' \subseteq Sides
<1> DEFINE handed == s.chunk # NoChunk
           next == IF handed THEN Plus(rcv[e], Unit) ELSE rcv[e]
           answers == handed /\ owed[e] + 1 >= AckSegments
<1>1. s \in Segment /\ s.chunk \in 0..MaxChunks /\ owed[e] \in 0..AckSegments
      /\ AckSegments \in Nat \ {0} /\ MaxChunks \in Nat
  BY ConstantsTyped DEF TypeOK, Segment
<1>2. next \in Seqs /\ Plus(next, 1) \in Seqs
  BY SeqsTyped
<1>3. got' \in [Sides -> Seq(1..MaxChunks)]
  <2>1. CASE handed
    <3>1. s.chunk \in 1..MaxChunks /\ got[e] \in Seq(1..MaxChunks)
      BY <1>1, <2>1 DEF TypeOK, NoChunk
    <3>2. Append(got[e], s.chunk) \in Seq(1..MaxChunks)
      BY <3>1
    <3>3. got' = [got EXCEPT ![e] = Append(got[e], s.chunk)]
      BY <2>1 DEF Consume
    <3> QED
      BY <3>2, <3>3 DEF TypeOK
  <2>2. CASE ~handed
    BY <2>2 DEF Consume, TypeOK
  <2> QED
    BY <2>1, <2>2
<1>4. rcv' \in [Sides -> Seqs]
  <2>1. rcv' = [rcv EXCEPT ![e] = IF s.kind = "fin" THEN Plus(next, 1) ELSE next]
    BY DEF Consume
  <2> HIDE DEF next
  <2> QED
    BY <1>2, <2>1 DEF TypeOK
<1>5. owed' \in [Sides -> 0..AckSegments]
  <2> DEFINE v == IF s.kind = "fin" \/ answers THEN 0 ELSE IF handed THEN owed[e] + 1 ELSE owed[e]
  <2>1. owed' = [owed EXCEPT ![e] = v]
    BY DEF Consume
  <2>2. v \in 0..AckSegments
    BY <1>1
  <2> HIDE DEF v
  <2> QED
    BY <2>1, <2>2 DEF TypeOK
<1>6. net' \subseteq Segment
  <2>1. Msg(e, "ack", snd[e], next, NoChunk) \in Segment /\ Msg(e, "ack", snd[e], Plus(next, 1), NoChunk) \in Segment
    <3> HIDE DEF next
    <3> QED
      BY <1>2, SeqsTyped, MsgTyped
  <2>2. net' = net
       \cup (IF answers THEN {Msg(e, "ack", snd[e], next, NoChunk)} ELSE {})
       \cup (IF s.kind = "fin" THEN {Msg(e, "ack", snd[e], Plus(next, 1), NoChunk)} ELSE {})
    BY DEF Consume
  <2> HIDE DEF next, answers
  <2> QED
    BY <2>1, <2>2 DEF TypeOK
<1>7. ended' \subseteq Sides
  BY DEF Consume, TypeOK
<1> QED
  BY <1>3, <1>4, <1>5, <1>6, <1>7

\* The steps of Next, one by one.
LEMMA Steps ==
  ASSUME Next
  PROVE  \/ Connect \/ SynTimer
         \/ \E s \in net : Syn(s) \/ SynAgain(s) \/ SynAck(s)
         \/ \E s \in net, e \in Sides : Receive(e, s) \/ (e = "S" /\ Accept(s))
         \/ \E e \in Sides : (\E s \in net : OutOfOrder(e, s)) \/ FlushAck(e)
         \/ \E e \in Sides : Write(e) \/ Take(e) \/ Close(e)
<1>1. "S" \in Sides
  BY DEF Sides
<1> QED
  BY <1>1 DEF Next, Arrive

LEMMA AckTyped == ASSUME TypeOK, NEW e \in Sides PROVE Ack(e) \in Segment
BY SeqsTyped, MsgTyped DEF Ack

LEMMA NextTyped == TypeOK /\ Next => TypeOK'
<1> SUFFICES ASSUME TypeOK, Next PROVE TypeOK'
  OBVIOUS
<1>0. "C" \in Sides /\ "S" \in Sides /\ 0 \in 0..AckSegments /\ MaxChunks \in Nat /\ MaxSyns \in Nat
  BY ConstantsTyped DEF Sides
<1>1. CASE Connect
  <2>1. Msg("C", "syn", Iss["C"], 0, NoChunk) \in Segment /\ Plus(Iss["C"], 1) \in Seqs
    BY <1>0, SeqsTyped, MsgTyped
  <2> QED
    BY <1>0, <1>1, <2>1 DEF Connect, Sent, TypeOK, apps
<1>2. CASE SynTimer
  <2>1. syns' \in 0..MaxSyns
    BY <1>0, <1>2 DEF SynTimer, MayRetry, TypeOK
  <2> QED
    BY <1>0, <1>2, <2>1 DEF SynTimer, TypeOK, apps
<1>3. ASSUME NEW s \in net, Syn(s) PROVE TypeOK'
  <2>1. s.seq \in Seqs
    BY DEF TypeOK, Segment
  <2>2. Plus(s.seq, 1) \in Seqs /\ Plus(Iss["S"], 1) \in Seqs
    BY <1>0, <2>1, SeqsTyped
  <2>3. Msg("S", "synack", Iss["S"], Plus(s.seq, 1), NoChunk) \in Segment
    BY <1>0, <2>2, SeqsTyped, MsgTyped
  <2> QED
    BY <1>0, <1>3, <2>2, <2>3 DEF Syn, Sent, TypeOK, apps
<1>4. ASSUME NEW s \in net, SynAgain(s) PROVE TypeOK'
  <2>1. Msg("S", "synack", SynSeq, rcv["S"], NoChunk) \in Segment
    BY <1>0, SeqsTyped, MsgTyped DEF SynSeq
  <2> QED
    BY <1>4, <2>1 DEF SynAgain, Sent, TypeOK, slots, apps
<1>5. ASSUME NEW s \in net, SynAck(s) PROVE TypeOK'
  <2>1. s.seq \in Seqs
    BY DEF TypeOK, Segment
  <2>2. Plus(s.seq, 1) \in Seqs
    BY <2>1, SeqsTyped
  <2>3. Msg("C", "ack", snd["C"], Plus(s.seq, 1), NoChunk) \in Segment
    BY <1>0, <2>2, SeqsTyped, MsgTyped
  <2> QED
    BY <1>0, <1>5, <2>2, <2>3 DEF SynAck, Sent, TypeOK, apps
<1>6. ASSUME NEW s \in net, Accept(s) PROVE TypeOK'
  <2>1. Consume("S", s)
    BY <1>6 DEF Accept
  <2> QED
    BY <1>0, <1>6, <2>1, ConsumeTyped DEF Accept, TypeOK
<1>7. ASSUME NEW s \in net, NEW e \in Sides, Receive(e, s) PROVE TypeOK'
  <2>1. Consume(e, s)
    BY <1>7 DEF Receive
  <2> QED
    BY <1>0, <1>7, <2>1, ConsumeTyped DEF Receive, TypeOK
<1>8. ASSUME NEW s \in net, NEW e \in Sides, OutOfOrder(e, s) PROVE TypeOK'
  <2>1. PICK a \in Segment : a = Ack(e)
    BY AckTyped
  <2>2. net' \subseteq Segment /\ owed' \in [Sides -> 0..AckSegments]
    BY <1>0, <1>8, <2>1 DEF OutOfOrder, Sent, TypeOK
  <2> QED
    BY <1>8, <2>2 DEF OutOfOrder, TypeOK, apps
<1>9. ASSUME NEW e \in Sides, FlushAck(e) PROVE TypeOK'
  <2>1. PICK a \in Segment : a = Ack(e)
    BY AckTyped
  <2>2. net' \subseteq Segment /\ owed' \in [Sides -> 0..AckSegments]
    BY <1>0, <1>9, <2>1 DEF FlushAck, Sent, TypeOK
  <2> QED
    BY <1>9, <2>2 DEF FlushAck, TypeOK, apps
<1>10. ASSUME NEW e \in Sides, Write(e) PROVE TypeOK'
  <2>1. written[e] + 1 \in 0..MaxChunks
    BY <1>0, <1>10 DEF Write, TypeOK
  <2> QED
    BY <1>10, <2>1 DEF Write, TypeOK, slots
<1>11. ASSUME NEW e \in Sides, Take(e) PROVE TypeOK'
  <2>1. taken[e] + 1 \in 1..MaxChunks
    <3>1. taken[e] \in 0..MaxChunks /\ written[e] \in 0..MaxChunks /\ taken[e] < written[e]
      BY <1>11 DEF Take, TypeOK
    <3> QED
      BY <1>0, <3>1
  <2>2. Append(wire[e], taken[e] + 1) \in Seq(1..MaxChunks)
    BY <2>1 DEF TypeOK
  <2>3. taken[e] + 1 \in 0..MaxChunks
    BY <2>1
  <2>4. Msg(e, "ack", snd[e], rcv[e], taken[e] + 1) \in Segment /\ Plus(snd[e], Unit) \in Seqs
    BY <2>3, SeqsTyped, MsgTyped
  <2>5. taken' \in [Sides -> 0..MaxChunks]
    BY <1>11, <2>3 DEF Take, TypeOK
  <2>6. wire' \in [Sides -> Seq(1..MaxChunks)] /\ snd' \in [Sides -> Seqs] /\ owed' \in [Sides -> 0..AckSegments]
        /\ net' \subseteq Segment /\ holes' \subseteq Sides
    <3>1. PICK m \in Segment : m = Msg(e, "ack", snd[e], rcv[e], taken[e] + 1)
      BY <2>4
    <3>2. CASE /\ net' = net \cup {m}
               /\ snd' = [snd EXCEPT ![e] = Plus(@, Unit)]
               /\ owed' = [owed EXCEPT ![e] = 0]
               /\ wire' = [wire EXCEPT ![e] = Append(@, taken[e] + 1)]
               /\ UNCHANGED holes
      BY <1>0, <2>2, <2>4, <3>1, <3>2 DEF TypeOK
    <3>3. CASE holes' = holes \cup {e} /\ UNCHANGED <<snd, owed, wire, net>>
      BY <3>3 DEF TypeOK
    <3> QED
      BY <1>11, <3>1, <3>2, <3>3 DEF Take, Sent
  <2> QED
    BY <1>11, <2>5, <2>6 DEF Take, TypeOK
<1>12. ASSUME NEW e \in Sides, Close(e) PROVE TypeOK'
  <2>1. Msg(e, "fin", snd[e], rcv[e], NoChunk) \in Segment /\ Plus(snd[e], 1) \in Seqs
    BY SeqsTyped, MsgTyped
  <2> QED
    BY <1>12, <2>1 DEF Close, CloseRequest, Sent, TypeOK
<1> QED
  BY <1>1, <1>2, <1>3, <1>4, <1>5, <1>6, <1>7, <1>8, <1>9, <1>10, <1>11, <1>12, Steps

-----------------------------------------------------------------------------
(* Every step keeps the invariant.                                         *)

\* What a side does with a segment that is the next.
LEMMA Consumed ==
  ASSUME NumbersSuffice, IInv, NEW e \in Sides, NEW s \in net, s.to = e,
         st[e] \in {"synrcvd", "established"}, s.seq = rcv[e], Consume(e, s)
  PROVE  /\ \/ got' = got
            \/ /\ s.kind # "fin"
               /\ Len(got[e]) < Len(wire[Other(e)])
               /\ got' = [got EXCEPT ![e] = Append(@, wire[Other(e)][Len(@) + 1])]
               /\ Len(got'[e]) = Len(got[e]) + 1
         /\ s.kind # "fin" => rcv' = [rcv EXCEPT ![e] = Num(Other(e), Len(got'[e]))] /\ ended' = ended
         /\ s.kind = "fin" =>
              /\ got' = got /\ ended' = ended \cup {e}
              /\ Other(e) \in fin /\ Len(got[e]) = Len(wire[Other(e)])
         /\ \A d \in Sides \ {e} : rcv'[d] = rcv[d] /\ got'[d] = got[d]
         /\ net \subseteq net'
         /\ \A m \in net' \ net : m.kind = "ack" /\ m.to = Other(e) /\ m.chunk = NoChunk
<1> DEFINE o == Other(e)
<1>0. o \in Sides /\ rcv[e] = Num(o, Len(got[e])) /\ Len(got[e]) \in Nat
      /\ got \in [Sides -> Seq(1..MaxChunks)] /\ rcv \in [Sides -> Seqs]
  <2>1. got[e] \in Seq(1..MaxChunks)
    BY DEF IInv, TypeOK
  <2> QED
    BY <2>1, OtherSide DEF IInv, Numbers, TypeOK
<1>1. CASE s.chunk = NoChunk
  <2>1. got' = got /\ rcv' = [rcv EXCEPT ![e] = IF s.kind = "fin" THEN Plus(rcv[e], 1) ELSE rcv[e]]
    BY <1>1 DEF Consume
  <2>2. ended' = IF s.kind = "fin" THEN ended \cup {e} ELSE ended
    BY DEF Consume
  <2>3. s.kind = "fin" => o \in fin /\ Len(got[e]) = Len(wire[o])
    BY NextSegment
  <2>4. net \subseteq net' /\ \A m \in net' \ net : m.kind = "ack" /\ m.to = o /\ m.chunk = NoChunk
    BY <1>1 DEF Consume, Msg
  <2> QED
    BY <1>0, <2>1, <2>2, <2>3, <2>4
<1>2. CASE s.chunk # NoChunk
  <2>1. s.kind # "fin" /\ Len(got[e]) < Len(wire[o]) /\ s.chunk = wire[o][Len(got[e]) + 1]
    BY <1>2, NextSegment
  <2>2. got' = [got EXCEPT ![e] = Append(@, s.chunk)] /\ rcv' = [rcv EXCEPT ![e] = Plus(rcv[e], Unit)]
        /\ ended' = ended
    BY <1>2, <2>1 DEF Consume
  <2>3. Len(got'[e]) = Len(got[e]) + 1
    <3>1. got'[e] = Append(got[e], s.chunk) /\ got[e] \in Seq(1..MaxChunks)
      BY <1>0, <2>2
    <3>2. s.chunk \in 1..MaxChunks
      BY <1>2, ConstantsTyped DEF IInv, TypeOK, Segment, NoChunk
    <3> QED
      BY <3>1, <3>2
  <2>4. Plus(rcv[e], Unit) = Num(o, Len(got'[e]))
    BY <1>0, <2>3, NumNext
  <2>5. net \subseteq net' /\ \A m \in net' \ net : m.kind = "ack" /\ m.to = o /\ m.chunk = NoChunk
    BY <1>2, <2>1 DEF Consume, Msg
  <2> QED
    BY <1>0, <2>1, <2>2, <2>3, <2>4, <2>5
<1> QED
  BY <1>1, <1>2

\* Both ways to consume a segment.
LEMMA Consuming ==
  ASSUME NumbersSuffice, IInv, NEW e \in Sides, NEW s \in net,
         Receive(e, s) \/ (e = "S" /\ Accept(s))
  PROVE  /\ s.to = e /\ st[e] \in {"synrcvd", "established"} /\ s.seq = rcv[e] /\ Consume(e, s)
         /\ st' = [st EXCEPT ![e] = IF s.kind = "fin" THEN "closed" ELSE "established"]
         /\ UNCHANGED <<snd, syns, met, written, taken, wire, fin, holes, eofs>>
<1>1. CASE Receive(e, s)
  <2>1. st' = [st EXCEPT ![e] = IF s.kind = "fin" THEN "closed" ELSE "established"]
    BY <1>1 DEF Receive, IInv, TypeOK
  <2> QED
    BY <1>1, <2>1 DEF Receive, IsNext
<1>2. CASE e = "S" /\ Accept(s)
  BY <1>2 DEF Accept, AnswersSynAck
<1> QED
  BY <1>1, <1>2

\* What was carried stays so while the wire only grows.
LEMMA CarriedKept ==
  ASSUME IInv, TypeOK', NEW s \in net, net \subseteq net', met => met', fin \subseteq fin',
         \A o \in Sides : \/ wire'[o] = wire[o]
                          \/ o \notin fin /\ \E c : wire'[o] = Append(wire[o], c)
  PROVE  Carried(s)'
<1> DEFINE e == Other(s.to)
<1>0. s \in Segment /\ e \in Sides /\ Carried(s)
  BY OtherSide DEF IInv, TypeOK, Segment
<1>1. wire[e] \in Seq(1..MaxChunks) /\ wire'[e] \in Seq(1..MaxChunks)
  BY <1>0 DEF IInv, TypeOK
<1>2. Begun(e)'
  BY <1>0 DEF Begun, Carried
<1>3. s.kind = "fin" => e \in fin' /\ s.seq = Num(e, Len(wire'[e])) /\ s.chunk = NoChunk
  BY <1>0 DEF Carried
<1>4. ASSUME s.chunk # NoChunk
      PROVE  \E k \in 1..Len(wire'[e]) : s.seq = Num(e, k - 1) /\ s.chunk = wire'[e][k]
  <2>1. PICK k \in 1..Len(wire[e]) : s.seq = Num(e, k - 1) /\ s.chunk = wire[e][k]
    BY <1>0, <1>4 DEF Carried
  <2>2. CASE wire'[e] = wire[e]
    BY <2>1, <2>2
  <2>3. ASSUME NEW c, wire'[e] = Append(wire[e], c)
        PROVE  k \in 1..Len(wire'[e]) /\ wire'[e][k] = wire[e][k]
    <3>1. \A q \in Seq(1..MaxChunks) : \A x : /\ Len(Append(q, x)) = Len(q) + 1
                                           /\ \A i \in 1..Len(q) : Append(q, x)[i] = q[i]
      OBVIOUS
    <3>2. Len(wire'[e]) = Len(wire[e]) + 1 /\ wire'[e][k] = wire[e][k]
      BY <1>1, <2>1, <2>3, <3>1
    <3> QED
      BY <1>1, <2>1, <3>2
  <2> QED
    BY <1>0, <2>1, <2>2, <2>3
<1> QED
  BY <1>0, <1>2, <1>3, <1>4 DEF Carried

\* An acknowledgement carries nothing.
LEMMA AckCarried ==
  ASSUME NEW m, m.kind = "ack", m.chunk = NoChunk, Begun(Other(m.to))'
  PROVE  Carried(m)'
BY DEF Carried

LEMMA AckMsg ==
  ASSUME NEW e \in Sides, NEW kind, NEW seq, NEW ack, NEW chunk
  PROVE  LET m == Msg(e, kind, seq, ack, chunk) IN
         m.kind = kind /\ m.chunk = chunk /\ m.seq = seq /\ m.to = Other(e) /\ Other(m.to) = e
BY OtherSide DEF Msg

LEMMA NextSlots == ASSUME NumbersSuffice, IInv, Next PROVE Slots'
<1>0. "C" \in Sides /\ "S" \in Sides /\ st \in [Sides -> {"closed", "synsent", "synrcvd", "established"}]
      /\ wire \in [Sides -> Seq(1..MaxChunks)] /\ got \in [Sides -> Seq(1..MaxChunks)]
  BY DEF Sides, IInv, TypeOK
<1>1. CASE Connect
  BY <1>0, <1>1 DEF Connect, Sent, apps, IInv, Slots, SlotOf, Begun, Fresh, Other, Sides
<1>2. CASE SynTimer
  BY <1>0, <1>2 DEF SynTimer, apps, IInv, Slots, SlotOf, Begun, Fresh, Other, Sides
<1>3. ASSUME NEW s \in net, Syn(s) PROVE Slots'
  BY <1>0, <1>3 DEF Syn, Sent, apps, IInv, Slots, SlotOf, Begun, Fresh, Other, Sides
<1>4. ASSUME NEW s \in net, SynAgain(s) PROVE Slots'
  BY <1>0, <1>4 DEF SynAgain, Sent, slots, apps, IInv, Slots, SlotOf, Begun, Fresh, Other, Sides
<1>5. ASSUME NEW s \in net, SynAck(s) PROVE Slots'
  <2>1. met
    BY <1>5 DEF SynAck, AnswersSyn, IInv, Carried, Begun, Other
  <2> QED
    BY <1>0, <1>5, <2>1 DEF SynAck, Sent, apps, IInv, Slots, SlotOf, Begun, Fresh, Other, Sides
<1>6. ASSUME NEW s \in net, NEW e \in Sides, Receive(e, s) \/ (e = "S" /\ Accept(s)) PROVE Slots'
  <2>1. /\ s.to = e /\ st[e] \in {"synrcvd", "established"} /\ s.seq = rcv[e] /\ Consume(e, s)
        /\ st' = [st EXCEPT ![e] = IF s.kind = "fin" THEN "closed" ELSE "established"]
        /\ UNCHANGED <<snd, syns, met, written, taken, wire, fin, holes, eofs>>
    BY <1>6, Consuming
  <2>2. /\ \A d \in Sides \ {e} : got'[d] = got[d]
        /\ net \subseteq net'
        /\ s.kind # "fin" => ended' = ended
        /\ s.kind = "fin" => got' = got /\ ended' = ended \cup {e}
    BY <2>1, Consumed
  <2>3. \A d \in Sides : Begun(d) => Begun(d)'
    BY <2>1, <2>2 DEF Begun
  <2>4. Begun(e) /\ Begun(Other(e)) /\ st[e] # "closed"
    BY <2>1, OtherSide DEF IInv, Slots, SlotOf
  <2>5. SlotOf(e)'
    BY <1>0, <2>1, <2>2, <2>3, <2>4, OtherSide DEF IInv, Slots, SlotOf, Fresh
  <2>6. ASSUME NEW d \in Sides, d # e PROVE SlotOf(d)'
    BY <1>0, <2>1, <2>2, <2>3, <2>4, <2>6, OtherSide DEF IInv, Slots, SlotOf, Fresh, Begun
  <2> QED
    BY <2>5, <2>6 DEF Slots
<1>7. ASSUME NEW e \in Sides, (\E s \in net : OutOfOrder(e, s)) \/ FlushAck(e) PROVE Slots'
  <2>1. UNCHANGED <<st, met, apps>> /\ (net = {} => net' = net) /\ net \subseteq net'
    <3>1. net # {}
      BY <1>7 DEF OutOfOrder, FlushAck, IInv, Slots, SlotOf, Begun, Sides, Other
    <3> QED
      BY <1>7, <3>1 DEF OutOfOrder, FlushAck, Sent
  <2> QED
    BY <1>0, <2>1 DEF apps, IInv, Slots, SlotOf, Begun, Fresh, Other, Sides
<1>8. ASSUME NEW e \in Sides, Write(e) PROVE Slots'
  BY <1>0, <1>8 DEF Write, slots, IInv, Slots, SlotOf, Begun, Fresh, Other, Sides
<1>9. ASSUME NEW e \in Sides, Take(e) PROVE Slots'
  <2>1. /\ UNCHANGED <<st, met, got, fin, ended>> /\ st[e] = "established" /\ net # {} /\ net \subseteq net'
        /\ \A d \in Sides \ {e} : wire'[d] = wire[d]
    BY <1>0, <1>9 DEF Take, Sent, IInv, Slots, SlotOf, Begun, Sides, Other
  <2> QED
    BY <1>0, <2>1 DEF IInv, Slots, SlotOf, Begun, Fresh, Other, Sides
<1>10. ASSUME NEW e \in Sides, Close(e) PROVE Slots'
  BY <1>0, <1>10 DEF Close, CloseRequest, Sent, IInv, Slots, SlotOf, Begun, Fresh, Other, Sides
<1> QED
  BY <1>0, <1>1, <1>2, <1>3, <1>4, <1>5, <1>6, <1>7, <1>8, <1>9, <1>10, Steps

LEMMA NextCounts == ASSUME NumbersSuffice, IInv, Next PROVE Counts'
<1>0. /\ taken \in [Sides -> 0..MaxChunks] /\ written \in [Sides -> 0..MaxChunks]
      /\ wire \in [Sides -> Seq(1..MaxChunks)] /\ got \in [Sides -> Seq(1..MaxChunks)] /\ MaxChunks \in Nat
  BY ConstantsTyped DEF IInv, TypeOK
<1>1. ASSUME UNCHANGED <<written, taken, wire, got>> PROVE Counts'
  BY <1>1 DEF IInv, Counts
<1>2. ASSUME NEW s \in net, NEW e \in Sides, Receive(e, s) \/ (e = "S" /\ Accept(s)) PROVE Counts'
  <2>1. /\ s.to = e /\ st[e] \in {"synrcvd", "established"} /\ s.seq = rcv[e] /\ Consume(e, s)
        /\ UNCHANGED <<written, taken, wire>>
    BY <1>2, Consuming
  <2>2. /\ \A d \in Sides \ {e} : got'[d] = got[d]
        /\ got' = got \/ (Len(got[e]) < Len(wire[Other(e)]) /\ Len(got'[e]) = Len(got[e]) + 1)
    BY <2>1, Consumed
  <2>3. Len(got[e]) \in Nat /\ Len(wire[Other(e)]) \in Nat
    <3>1. got[e] \in Seq(1..MaxChunks) /\ wire[Other(e)] \in Seq(1..MaxChunks)
      BY <1>0, OtherSide
    <3> QED
      BY <3>1
  <2>4. \A d \in Sides : Len(got'[d]) =< Len(wire[Other(d)])
    BY <2>2, <2>3 DEF IInv, Counts
  <2> QED
    BY <2>1, <2>4 DEF IInv, Counts
<1>3. ASSUME NEW e \in Sides, Write(e) PROVE Counts'
  <2> SUFFICES ASSUME NEW d \in Sides
               PROVE  /\ Len(wire'[d]) =< taken'[d] /\ taken'[d] =< written'[d]
                      /\ Len(got'[d]) =< Len(wire'[Other(d)])
    BY DEF Counts
  <2>1. taken[d] \in 0..MaxChunks /\ written[d] \in 0..MaxChunks
    BY <1>0
  <2>2. written'[d] = written[d] \/ written'[d] = written[d] + 1
    BY <1>0, <1>3 DEF Write
  <2> QED
    BY <1>3, <2>1, <2>2 DEF Write, IInv, Counts
<1>4. ASSUME NEW e \in Sides, Take(e) PROVE Counts'
  <2> SUFFICES ASSUME NEW d \in Sides
               PROVE  /\ Len(wire'[d]) =< taken'[d] /\ taken'[d] =< written'[d]
                      /\ Len(got'[d]) =< Len(wire'[Other(d)])
    BY DEF Counts
  <2>1. taken[d] \in 0..MaxChunks /\ written[d] \in 0..MaxChunks /\ wire[d] \in Seq(1..MaxChunks)
        /\ got[d] \in Seq(1..MaxChunks) /\ wire[Other(d)] \in Seq(1..MaxChunks)
    BY <1>0, OtherSide
  <2>2. taken' = [taken EXCEPT ![e] = @ + 1] /\ taken[e] < written[e] /\ UNCHANGED <<written, got>>
        /\ (wire' = wire \/ wire' = [wire EXCEPT ![e] = Append(@, taken[e] + 1)])
    BY <1>4 DEF Take
  <2>3. \A q \in Seq(1..MaxChunks) : \A x : Len(q) \in Nat /\ Len(Append(q, x)) = Len(q) + 1
    OBVIOUS
  <2>4. \A o \in Sides : Len(wire'[o]) = Len(wire[o]) \/ (o = e /\ Len(wire'[o]) = Len(wire[o]) + 1)
    BY <1>0, <2>2, <2>3
  <2>5. Len(wire'[d]) =< taken'[d] /\ taken'[d] =< written'[d]
    BY <1>0, <2>1, <2>2, <2>3, <2>4 DEF IInv, Counts
  <2>6. Len(got'[d]) =< Len(wire'[Other(d)])
    <3>1. Len(got[d]) =< Len(wire[Other(d)])
      BY DEF IInv, Counts
    <3>2. Len(wire'[Other(d)]) >= Len(wire[Other(d)])
      BY <2>1, <2>3, <2>4, OtherSide
    <3> QED
      BY <2>1, <2>2, <2>3, <2>4, <3>1, <3>2, OtherSide
  <2> QED
    BY <2>5, <2>6
<1>5. (\E s \in net, e \in Sides : Receive(e, s) \/ (e = "S" /\ Accept(s)))
      \/ (\E e \in Sides : Write(e) \/ Take(e)) \/ UNCHANGED <<written, taken, wire, got>>
  BY Steps DEF Connect, SynTimer, Syn, SynAgain, SynAck, OutOfOrder, FlushAck, Close, CloseRequest, apps
<1> QED
  BY <1>1, <1>2, <1>3, <1>4, <1>5

\* The number of the FIN is one behind the number after it.
LEMMA AfterFin == \A e \in Sides, k \in Nat : (Num(e, k) + 0) % W = Num(e, k) /\ Plus(Num(e, k), 1) = (Num(e, k) + 1) % W
BY NumTyped, NumPlain DEF Plus

LEMMA NextNumbers == ASSUME NumbersSuffice, IInv, Next PROVE Numbers'
<1>0. /\ "C" \in Sides /\ "S" \in Sides /\ Other("C") = "S" /\ Other("S") = "C"
      /\ st \in [Sides -> {"closed", "synsent", "synrcvd", "established"}]
      /\ snd \in [Sides -> Seqs] /\ rcv \in [Sides -> Seqs]
      /\ wire \in [Sides -> Seq(1..MaxChunks)] /\ got \in [Sides -> Seq(1..MaxChunks)]
      /\ Len(<<>>) = 0
  BY DEF Sides, Other, IInv, TypeOK
<1> DEFINE NumOf(e) ==
      /\ Begun(e) => snd[e] = (Num(e, Len(wire[e])) + (IF e \in fin THEN 1 ELSE 0)) % W
      /\ st[e] \in {"synrcvd", "established"} => rcv[e] = Num(Other(e), Len(got[e]))
<1>a. \A e \in Sides : NumOf(e)
  BY DEF IInv, Numbers
<1>b. Numbers' <=> \A e \in Sides : NumOf(e)'
  BY DEF Numbers
<1>1. CASE Connect
  <2>1. Fresh("C") /\ wire["C"] = <<>> /\ "C" \notin fin
    BY <1>0, <1>1 DEF Connect, IInv, Slots, SlotOf, Begun, Fresh
  <2>2. snd'["C"] = (Num("C", 0) + 0) % W
    BY <1>0, <1>1, AfterFin, NumZero DEF Connect
  <2>3. NumOf("C")'
    BY <1>0, <1>1, <2>1, <2>2 DEF Connect, apps
  <2>4. NumOf("S")'
    BY <1>0, <1>1, <1>a DEF Connect, apps, Begun
  <2> QED
    BY <1>b, <2>3, <2>4 DEF Sides
<1>2. CASE SynTimer
  BY <1>0, <1>2, <1>a, <1>b DEF SynTimer, apps, Begun
<1>3. ASSUME NEW s \in net, Syn(s) PROVE Numbers'
  <2>1. wire["S"] = <<>> /\ got["S"] = <<>> /\ "S" \notin fin
    BY <1>0, <1>3 DEF Syn, IInv, Slots, SlotOf, Begun, Fresh
  <2>2. s.seq = Iss["C"]
    BY <1>3 DEF Syn, IInv, Carried
  <2>3. snd'["S"] = (Num("S", 0) + 0) % W /\ rcv'["S"] = Num("C", 0)
    BY <1>0, <1>3, <2>2, AfterFin, NumZero DEF Syn
  <2>4. NumOf("S")'
    BY <1>0, <1>3, <2>1, <2>3 DEF Syn, apps
  <2>5. NumOf("C")'
    BY <1>0, <1>3, <1>a DEF Syn, Sent, apps, Begun
  <2> QED
    BY <1>b, <2>4, <2>5 DEF Sides
<1>4. ASSUME NEW s \in net, SynAgain(s) PROVE Numbers'
  BY <1>0, <1>4, <1>a, <1>b DEF SynAgain, Sent, slots, apps, Begun
<1>5. ASSUME NEW s \in net, SynAck(s) PROVE Numbers'
  <2>1. got["C"] = <<>>
    BY <1>0, <1>5 DEF SynAck, IInv, Slots, SlotOf, Fresh
  <2>2. s.seq = Iss["S"]
    BY <1>5 DEF SynAck, AnswersSyn, IInv, Carried
  <2>3. rcv'["C"] = Num("S", 0)
    BY <1>0, <1>5, <2>2, NumZero DEF SynAck
  <2>4. NumOf("C")'
    BY <1>0, <1>5, <2>1, <2>3, <1>a DEF SynAck, Sent, apps, Begun
  <2>5. NumOf("S")'
    BY <1>0, <1>5, <1>a DEF SynAck, Sent, apps, Begun
  <2> QED
    BY <1>b, <2>4, <2>5 DEF Sides
<1>6. ASSUME NEW s \in net, NEW e \in Sides, Receive(e, s) \/ (e = "S" /\ Accept(s)) PROVE Numbers'
  <2>1. /\ s.to = e /\ st[e] \in {"synrcvd", "established"} /\ s.seq = rcv[e] /\ Consume(e, s)
        /\ st' = [st EXCEPT ![e] = IF s.kind = "fin" THEN "closed" ELSE "established"]
        /\ UNCHANGED <<snd, syns, met, written, taken, wire, fin, holes, eofs>>
    BY <1>6, Consuming
  <2>2. /\ \A d \in Sides \ {e} : rcv'[d] = rcv[d] /\ got'[d] = got[d]
        /\ s.kind # "fin" => rcv' = [rcv EXCEPT ![e] = Num(Other(e), Len(got'[e]))]
    BY <2>1, Consumed
  <2>3. ASSUME NEW d \in Sides PROVE Begun(d)
    BY <1>6, <2>1 DEF IInv, Slots, SlotOf, Begun, Other, Sides
  <2>4. NumOf(e)'
    BY <1>0, <1>a, <2>1, <2>2, <2>3
  <2>5. ASSUME NEW d \in Sides, d # e PROVE NumOf(d)'
    BY <1>0, <1>a, <2>1, <2>2, <2>3, <2>5
  <2> QED
    BY <1>b, <2>4, <2>5
<1>7. ASSUME NEW e \in Sides, (\E s \in net : OutOfOrder(e, s)) \/ FlushAck(e) \/ Write(e) PROVE Numbers'
  <2>1. UNCHANGED <<st, snd, rcv, met, wire, got, fin>> /\ net # {}
    BY <1>7 DEF OutOfOrder, FlushAck, Write, slots, apps, IInv, Slots, SlotOf, Begun, Sides, Other
  <2> QED
    BY <1>a, <1>b, <2>1 DEF Begun
<1>8. ASSUME NEW e \in Sides, Take(e) PROVE Numbers'
  <2>1. UNCHANGED <<st, rcv, met, got, fin>> /\ e \notin fin /\ Begun(e) /\ net # {}
    BY <1>8 DEF Take, IInv, Slots, SlotOf, Begun, Sides, Other
  <2>2. CASE UNCHANGED <<snd, wire>>
    BY <1>a, <1>b, <2>1, <2>2 DEF Begun
  <2>3. CASE snd' = [snd EXCEPT ![e] = Plus(@, Unit)] /\ wire' = [wire EXCEPT ![e] = Append(@, taken[e] + 1)]
    <3>1. wire[e] \in Seq(1..MaxChunks) /\ wire'[e] = Append(wire[e], taken[e] + 1)
      BY <1>0, <2>3
    <3>2. Len(wire[e]) \in Nat /\ Len(wire'[e]) = Len(wire[e]) + 1
      <4>1. \A q \in Seq(1..MaxChunks) : \A x : Len(q) \in Nat /\ Len(Append(q, x)) = Len(q) + 1
        OBVIOUS
      <4> QED
        BY <3>1, <4>1
    <3>3. snd[e] = Num(e, Len(wire[e]))
      BY <1>a, <2>1, <3>2, AfterFin
    <3>4. snd'[e] = Num(e, Len(wire'[e]))
      BY <1>0, <2>3, <3>2, <3>3, NumNext
    <3>5. NumOf(e)'
      <4>1. Len(wire'[e]) \in Nat
        BY <3>2
      <4> QED
        BY <1>a, <2>1, <3>4, <4>1, AfterFin DEF Begun
    <3>6. ASSUME NEW d \in Sides, d # e PROVE NumOf(d)'
      BY <1>0, <1>a, <2>1, <2>3, <3>6 DEF Begun
    <3> QED
      BY <1>b, <3>5, <3>6
  <2> QED
    BY <1>8, <2>2, <2>3 DEF Take
<1>9. ASSUME NEW e \in Sides, Close(e) PROVE Numbers'
  <2>1. /\ UNCHANGED <<rcv, met, wire, got>> /\ e \notin fin /\ fin' = fin \cup {e} /\ Begun(e) /\ net # {}
        /\ st' = [st EXCEPT ![e] = "closed"] /\ snd' = [snd EXCEPT ![e] = Plus(@, 1)]
    BY <1>9 DEF Close, CloseRequest, IInv, Slots, SlotOf, Begun, Sides, Other
  <2>2. Len(wire[e]) \in Nat
    <3>1. wire[e] \in Seq(1..MaxChunks)
      BY <1>0
    <3> QED
      BY <3>1
  <2>3. snd[e] = Num(e, Len(wire[e]))
    BY <1>a, <2>1, <2>2, AfterFin
  <2>4. snd'[e] = (Num(e, Len(wire[e])) + 1) % W
    BY <1>0, <2>1, <2>2, <2>3, AfterFin
  <2>5. NumOf(e)'
    BY <1>0, <2>1, <2>4
  <2>6. ASSUME NEW d \in Sides, d # e PROVE NumOf(d)'
    BY <1>0, <1>a, <2>1, <2>6 DEF Begun
  <2> QED
    BY <1>b, <2>5, <2>6
<1> QED
  BY <1>1, <1>2, <1>3, <1>4, <1>5, <1>6, <1>7, <1>8, <1>9, Steps

\* A chunk more on a wire that has all of them.
LEMMA OneMore ==
  ASSUME NEW n \in Nat
  PROVE  Append([k \in 1..n |-> k], n + 1) = [k \in 1..(n + 1) |-> k]
<1> DEFINE q == [k \in 1..n |-> k]
<1>1. q \in Seq(Nat) /\ Len(q) = n
  OBVIOUS
<1>2. Append(q, n + 1) \in Seq(Nat) /\ Len(Append(q, n + 1)) = n + 1
  BY <1>1
<1>3. [k \in 1..(n + 1) |-> k] \in Seq(Nat) /\ Len([k \in 1..(n + 1) |-> k]) = n + 1
  OBVIOUS
<1>4. \A i \in 1..(n + 1) : Append(q, n + 1)[i] = [k \in 1..(n + 1) |-> k][i]
  OBVIOUS
<1> QED
  BY <1>2, <1>3, <1>4, SeqEqual

LEMMA NextWhole == ASSUME NumbersSuffice, IInv, Next PROVE Whole'
<1>0. "C" \in Sides /\ "S" \in Sides /\ taken \in [Sides -> 0..MaxChunks]
      /\ wire \in [Sides -> Seq(1..MaxChunks)] /\ written \in [Sides -> 0..MaxChunks]
      /\ st \in [Sides -> {"closed", "synsent", "synrcvd", "established"}] /\ MaxChunks \in Nat
  BY ConstantsTyped DEF Sides, IInv, TypeOK
<1> DEFINE WholeOf(e) ==
      /\ e \notin holes => wire[e] = [k \in 1..taken[e] |-> k]
      /\ e \in eofs => Begun(e) /\ st[e] = "closed" /\ taken[e] = written[e]
<1>a. \A e \in Sides : WholeOf(e)
  BY DEF IInv, Whole
<1>b. Whole' <=> \A e \in Sides : WholeOf(e)'
  BY DEF Whole
<1>1. CASE Connect
  <2>1. "C" \notin eofs /\ UNCHANGED <<apps, met>> /\ \A d \in Sides \ {"C"} : st'[d] = st[d]
    BY <1>0, <1>1, <1>a DEF Connect, Begun
  <2> QED
    BY <1>0, <1>a, <1>b, <2>1 DEF apps, Begun, Sides
<1>2. CASE SynTimer
  BY <1>0, <1>2, <1>a, <1>b DEF SynTimer, apps, Begun
<1>3. ASSUME NEW s \in net, Syn(s) PROVE Whole'
  <2>1. "S" \notin eofs /\ UNCHANGED apps /\ met' /\ st'["C"] = st["C"] /\ net # {} /\ net' # {}
    BY <1>0, <1>3, <1>a DEF Syn, Sent, Begun
  <2> QED
    BY <1>0, <1>a, <1>b, <2>1 DEF apps, Begun, Sides
<1>4. ASSUME NEW s \in net, SynAgain(s) PROVE Whole'
  BY <1>4, <1>a, <1>b DEF SynAgain, Sent, slots, apps, Begun
<1>5. ASSUME NEW s \in net, SynAck(s) PROVE Whole'
  <2>1. "C" \notin eofs /\ UNCHANGED <<apps, met>> /\ st'["S"] = st["S"] /\ net # {} /\ net' # {}
    BY <1>0, <1>5, <1>a DEF SynAck, Sent
  <2> QED
    BY <1>0, <1>a, <1>b, <2>1 DEF apps, Begun, Sides
<1>6. ASSUME NEW s \in net, NEW e \in Sides, Receive(e, s) \/ (e = "S" /\ Accept(s)) PROVE Whole'
  <2>1. /\ st[e] \in {"synrcvd", "established"} /\ net \subseteq net'
        /\ st' = [st EXCEPT ![e] = IF s.kind = "fin" THEN "closed" ELSE "established"]
        /\ UNCHANGED <<snd, syns, met, written, taken, wire, fin, holes, eofs>>
    BY <1>6, Consuming, Consumed
  <2>2. e \notin eofs /\ net' # {} /\ net # {} /\ \A d \in Sides \ {e} : st'[d] = st[d]
    BY <1>0, <1>a, <2>1
  <2> QED
    BY <1>a, <1>b, <2>1, <2>2 DEF Begun
<1>7. ASSUME NEW e \in Sides, (\E s \in net : OutOfOrder(e, s)) \/ FlushAck(e) PROVE Whole'
  <2>1. UNCHANGED <<st, met, apps>> /\ net # {} /\ net' # {}
    BY <1>7 DEF OutOfOrder, FlushAck, Sent, IInv, Slots, SlotOf, Begun, Sides, Other
  <2> QED
    BY <1>a, <1>b, <2>1 DEF apps, Begun
<1>8. ASSUME NEW e \in Sides, Write(e) PROVE Whole'
  <2>1. e \notin eofs
    BY <1>8, <1>a DEF Write
  <2> QED
    BY <1>0, <1>8, <1>a, <1>b, <2>1 DEF Write, slots, Begun
<1>9. ASSUME NEW e \in Sides, Take(e) PROVE Whole'
  <2>1. e \notin eofs /\ UNCHANGED <<st, met, written, eofs>> /\ net # {} /\ net' # {}
        /\ taken' = [taken EXCEPT ![e] = @ + 1]
    BY <1>9, <1>a DEF Take, Sent, IInv, Slots, SlotOf, Begun, Sides, Other
  <2>2. holes \subseteq holes' /\ \A d \in Sides \ {e} : wire'[d] = wire[d] /\ (d \in holes' => d \in holes)
    BY <1>0, <1>9 DEF Take
  <2>3. e \notin holes' => wire'[e] = [k \in 1..taken'[e] |-> k]
    <3>1. SUFFICES ASSUME e \notin holes' PROVE wire'[e] = [k \in 1..taken'[e] |-> k]
      OBVIOUS
    <3>2. wire' = [wire EXCEPT ![e] = Append(@, taken[e] + 1)]
      BY <1>9, <3>1 DEF Take
    <3>3. wire[e] = [k \in 1..taken[e] |-> k] /\ taken[e] \in Nat
      BY <1>0, <1>a, <2>2, <3>1
    <3>4. wire'[e] = Append([k \in 1..taken[e] |-> k], taken[e] + 1) /\ taken'[e] = taken[e] + 1
      BY <1>0, <2>1, <3>2, <3>3
    <3> QED
      BY <3>3, <3>4, OneMore
  <2>4. WholeOf(e)'
    BY <2>1, <2>3
  <2>5. ASSUME NEW d \in Sides, d # e PROVE WholeOf(d)'
    BY <1>0, <1>a, <2>1, <2>2, <2>5 DEF Begun
  <2> QED
    BY <1>b, <2>4, <2>5
<1>10. ASSUME NEW e \in Sides, Close(e) PROVE Whole'
  <2>1. Begun(e) /\ net # {} /\ net' # {} /\ UNCHANGED <<met, written, taken, wire, holes>>
        /\ st' = [st EXCEPT ![e] = "closed"] /\ (eofs' = eofs \/ (AtEof(e) /\ eofs' = eofs \cup {e}))
    BY <1>10 DEF Close, CloseRequest, Sent, IInv, Slots, SlotOf, Begun, Sides, Other
  <2> QED
    BY <1>0, <1>a, <1>b, <2>1 DEF AtEof, Begun
<1> QED
  BY <1>1, <1>2, <1>3, <1>4, <1>5, <1>6, <1>7, <1>8, <1>9, <1>10, Steps

\* What a step gives to the network is where its sender put it.
LEMMA NextCarried == ASSUME NumbersSuffice, IInv, Next, TypeOK' PROVE \A s \in net' : Carried(s)'
<1>0. /\ "C" \in Sides /\ "S" \in Sides /\ Other("C") = "S" /\ Other("S") = "C"
      /\ wire \in [Sides -> Seq(1..MaxChunks)] /\ taken \in [Sides -> 0..MaxChunks]
  BY DEF Sides, Other, IInv, TypeOK
<1>1. CASE Connect
  <2>1. net' = {Msg("C", "syn", Iss["C"], 0, NoChunk)}
    BY <1>1 DEF Connect, Sent
  <2>2. Carried(Msg("C", "syn", Iss["C"], 0, NoChunk))'
    BY <1>0, <2>1, AckMsg DEF Carried, Begun, Msg
  <2> QED
    BY <2>1, <2>2
<1>2. ASSUME NEW s \in net, Syn(s) PROVE \A r \in net' : Carried(r)'
  <2>1. PICK m : m = Msg("S", "synack", Iss["S"], Plus(s.seq, 1), NoChunk)
    OBVIOUS
  <2>2. net' = net \cup {m} /\ met' /\ UNCHANGED <<wire, fin>>
    BY <1>2, <2>1 DEF Syn, Sent, apps
  <2>3. Carried(m)'
    BY <1>0, <2>1, <2>2 DEF Carried, Begun, Msg
  <2> QED
    BY <2>2, <2>3, CarriedKept
<1>3. ASSUME NEW s \in net, SynAgain(s) PROVE \A r \in net' : Carried(r)'
  <2>1. wire["S"] = <<>> /\ "S" \notin fin /\ met /\ Len(<<>>) = 0
    BY <1>0, <1>3 DEF SynAgain, IInv, Slots, SlotOf, Fresh, Begun
  <2>2. SynSeq = Iss["S"]
    <3>1. snd["S"] = (Num("S", 0) + 0) % W
      BY <1>0, <2>1 DEF IInv, Numbers, Begun
    <3>2. snd["S"] = Num("S", 0)
      BY <1>0, <3>1, AfterFin
    <3> QED
      BY <1>0, <3>2, SynNumber DEF SynSeq
  <2>3. PICK m : m = Msg("S", "synack", Iss["S"], rcv["S"], NoChunk)
    OBVIOUS
  <2>4. net' = net \cup {m} /\ UNCHANGED <<met, wire, fin>>
    BY <1>3, <2>2, <2>3 DEF SynAgain, Sent, slots, apps
  <2>5. Carried(m)'
    BY <1>0, <2>1, <2>3, <2>4 DEF Carried, Begun, Msg
  <2> QED
    BY <2>4, <2>5, CarriedKept
<1>4. ASSUME NEW s \in net, SynAck(s) PROVE \A r \in net' : Carried(r)'
  <2>1. PICK m : m = Msg("C", "ack", snd["C"], Plus(s.seq, 1), NoChunk)
    OBVIOUS
  <2>2. net' = net \cup {m} /\ UNCHANGED <<met, wire, fin>>
    BY <1>4, <2>1 DEF SynAck, Sent, apps
  <2>3. Carried(m)'
    BY <1>0, <2>1, <2>2 DEF Carried, Begun, Msg
  <2> QED
    BY <2>2, <2>3, CarriedKept
<1>5. ASSUME NEW s \in net, NEW e \in Sides, Receive(e, s) \/ (e = "S" /\ Accept(s))
      PROVE  \A r \in net' : Carried(r)'
  <2>1. /\ st[e] \in {"synrcvd", "established"} /\ net \subseteq net' /\ UNCHANGED <<met, wire, fin>>
        /\ \A m \in net' \ net : m.kind = "ack" /\ m.to = Other(e) /\ m.chunk = NoChunk
    BY <1>5, Consuming, Consumed
  <2>2. Begun(e)'
    BY <2>1 DEF IInv, Slots, SlotOf, Begun
  <2>3. \A m \in net' \ net : Carried(m)'
    BY <2>1, <2>2, AckCarried, OtherSide
  <2> QED
    BY <2>1, <2>3, CarriedKept
<1>6. ASSUME NEW e \in Sides, (\E s \in net : OutOfOrder(e, s)) \/ FlushAck(e)
      PROVE  \A r \in net' : Carried(r)'
  <2>1. PICK m : m = Ack(e)
    OBVIOUS
  <2>2. net' = net \cup {m} /\ UNCHANGED <<met, wire, fin>> /\ st[e] = "established"
    BY <1>6, <2>1 DEF OutOfOrder, FlushAck, Sent, apps
  <2>3. Begun(e)'
    BY <2>2 DEF IInv, Slots, SlotOf, Begun
  <2>4. Carried(m)'
    BY <2>1, <2>3, AckMsg, AckCarried DEF Ack
  <2> QED
    BY <2>2, <2>4, CarriedKept
<1>7. ASSUME NEW e \in Sides, Take(e) PROVE \A r \in net' : Carried(r)'
  <2>1. Begun(e) /\ e \notin fin /\ UNCHANGED <<met, fin>> /\ net # {} /\ net \subseteq net'
    BY <1>7 DEF Take, Sent, IInv, Slots, SlotOf, Begun, Sides, Other
  <2>2. CASE UNCHANGED <<wire, net>>
    BY <2>1, <2>2, CarriedKept
  <2>3. CASE /\ Sent(Msg(e, "ack", snd[e], rcv[e], taken[e] + 1))
             /\ wire' = [wire EXCEPT ![e] = Append(@, taken[e] + 1)]
    <3>1. PICK m : m = Msg(e, "ack", snd[e], rcv[e], taken[e] + 1)
      OBVIOUS
    <3>2. net' = net \cup {m}
      BY <2>3, <3>1 DEF Sent
    <3>3. wire[e] \in Seq(1..MaxChunks) /\ wire'[e] = Append(wire[e], taken[e] + 1)
      BY <1>0, <2>3
    <3>4. Len(wire[e]) \in Nat /\ Len(wire'[e]) = Len(wire[e]) + 1
          /\ wire'[e][Len(wire[e]) + 1] = taken[e] + 1
      <4>1. \A q \in Seq(1..MaxChunks) : \A x : /\ Len(q) \in Nat /\ Len(Append(q, x)) = Len(q) + 1
                                             /\ Append(q, x)[Len(q) + 1] = x
        OBVIOUS
      <4> QED
        BY <3>3, <4>1
    <3>5. snd[e] = Num(e, Len(wire[e]))
      BY <2>1, <3>4, AfterFin DEF IInv, Numbers
    <3>6. PICK k \in 1..Len(wire'[e]) : k = Len(wire[e]) + 1
      BY <3>4
    <3>7. k - 1 = Len(wire[e])
      BY <3>4, <3>6
    <3>8. Carried(m)'
      <4>1. m.seq = Num(e, k - 1) /\ m.chunk = wire'[e][k] /\ m.kind = "ack" /\ Other(m.to) = e
        BY <3>1, <3>4, <3>5, <3>6, <3>7, OtherSide DEF Msg
      <4>2. Begun(e)'
        BY <2>1 DEF Begun
      <4> QED
        BY <3>6, <4>1, <4>2 DEF Carried
    <3>9. \A o \in Sides : \/ wire'[o] = wire[o]
                           \/ o \notin fin /\ \E c : wire'[o] = Append(wire[o], c)
      BY <1>0, <2>1, <2>3
    <3> QED
      BY <2>1, <3>2, <3>8, <3>9, CarriedKept
  <2> QED
    BY <1>7, <2>2, <2>3 DEF Take
<1>8. ASSUME NEW e \in Sides, Close(e) PROVE \A r \in net' : Carried(r)'
  <2>1. Begun(e) /\ e \notin fin /\ fin' = fin \cup {e} /\ UNCHANGED <<met, wire>> /\ net # {}
    BY <1>8 DEF Close, CloseRequest, IInv, Slots, SlotOf, Begun, Sides, Other
  <2>2. PICK m : m = Msg(e, "fin", snd[e], rcv[e], NoChunk)
    OBVIOUS
  <2>3. net' = net \cup {m}
    BY <1>8, <2>2 DEF Close, CloseRequest, Sent
  <2>4. Len(wire[e]) \in Nat
    <3>1. wire[e] \in Seq(1..MaxChunks)
      BY <1>0
    <3> QED
      BY <3>1
  <2>5. snd[e] = Num(e, Len(wire[e]))
    BY <2>1, <2>4, AfterFin DEF IInv, Numbers
  <2>6. Carried(m)'
    <3>1. m.kind = "fin" /\ m.chunk = NoChunk /\ m.seq = snd[e] /\ Other(m.to) = e
      BY <2>2, AckMsg
    <3>2. Begun(e)'
      BY <2>1, <2>3 DEF Begun
    <3> QED
      BY <2>1, <2>5, <3>1, <3>2 DEF Carried
  <2> QED
    BY <2>1, <2>3, <2>6, CarriedKept
<1>9. CASE UNCHANGED <<met, wire, fin, net>>
  BY <1>9, CarriedKept
<1>10. SynTimer \/ (\E e \in Sides : Write(e)) => UNCHANGED <<met, wire, fin, net>>
  BY DEF SynTimer, Write, apps, slots
<1> QED
  BY <1>1, <1>2, <1>3, <1>4, <1>5, <1>6, <1>7, <1>8, <1>9, <1>10, Steps

LEMMA InitInv == Init => IInv
<1> HAVE Init
<1>1. TypeOK
  BY InitTyped
<1>2. Slots
  BY DEF Init, Slots, SlotOf, Begun, Fresh, Sides
<1>3. Numbers
  BY DEF Init, Numbers, Begun, Sides
<1>4. Counts
  BY OtherSide DEF Init, Counts
<1>5. Whole
  <2>1. [k \in 1..0 |-> k] = <<>>
    OBVIOUS
  <2> QED
    BY <2>1 DEF Init, Whole
<1>6. \A s \in net : Carried(s)
  BY DEF Init
<1> QED
  BY <1>1, <1>2, <1>3, <1>4, <1>5, <1>6 DEF IInv

LEMMA StutterInv == IInv /\ UNCHANGED vars => IInv'
<1> HAVE IInv /\ UNCHANGED vars
<1>1. TypeOK' /\ Slots' /\ Numbers' /\ Counts' /\ Whole'
  BY DEF vars, slots, apps, IInv, TypeOK, Slots, SlotOf, Numbers, Counts, Whole, Begun, Fresh
<1>2. \A s \in net' : Carried(s)'
  BY DEF vars, slots, apps, IInv, Carried, Begun
<1> QED
  BY <1>1, <1>2 DEF IInv

LEMMA NextInv == NumbersSuffice /\ IInv /\ [Next]_vars => IInv'
<1> SUFFICES ASSUME NumbersSuffice, IInv, [Next]_vars PROVE IInv'
  OBVIOUS
<1>1. CASE Next
  <2>1. TypeOK'
    BY <1>1, NextTyped DEF IInv
  <2> QED
    BY <1>1, <2>1, NextSlots, NextNumbers, NextCounts, NextWhole, NextCarried DEF IInv
<1>2. CASE UNCHANGED vars
  BY <1>2, StutterInv
<1> QED
  BY <1>1, <1>2

-----------------------------------------------------------------------------
(* The theorems.                                                           *)

\* The two ends agree.
LEMMA InvAgree == NumbersSuffice /\ IInv => EndsAgree
<1> SUFFICES ASSUME NumbersSuffice, IInv PROVE EndsAgree
  OBVIOUS
<1>1. SidesAgree
  <2> SUFFICES ASSUME NEW e \in Sides, st[e] = "established"
               PROVE  Behind(e) = Unit * (Len(wire[Other(e)]) - Len(got[e]))
                                  + (IF Other(e) \in fin THEN 1 ELSE 0)
    BY DEF SidesAgree
  <2> DEFINE o == Other(e)
             a == Len(wire[o])
             b == Len(got[e])
             f == IF o \in fin THEN 1 ELSE 0
             y == Iss[o] + 1 + Unit * b
             x == Iss[o] + 1 + Unit * a
             d == Unit * (a - b) + f
  <2>1. o \in Sides /\ a \in 0..MaxChunks /\ b \in 0..MaxChunks /\ b =< a /\ f \in 0..1
    BY OtherSide, Bounds DEF IInv
  <2>2. snd[o] = (Num(o, a) + f) % W /\ rcv[e] = y % W
    <3>1. Begun(o)
      BY DEF IInv, Slots, SlotOf
    <3> QED
      BY <2>1, <3>1 DEF IInv, Numbers, Num
  <2>3. Unit \in Nat \ {0} /\ W \in Nat \ {0} /\ MaxChunks \in Nat
    BY ConstantsTyped
  <2>4. x \in Int /\ y \in Int
    <3>1. a \in Nat /\ b \in Nat
      BY <2>1, <2>3
    <3> HIDE DEF a, b, o
    <3> QED
      BY <2>1, <3>1, Offset
  <2>5. x = y + Unit * (a - b)
    <3>1. Iss[o] \in Nat
      BY <2>1, Offset
    <3> HIDE DEF a, b, o
    <3>2. Unit * (a - b) = Unit * a - Unit * b
      BY <2>1, <2>3
    <3>3. Unit * a \in Nat /\ Unit * b \in Nat
      BY <2>1, <2>3
    <3> QED
      BY <3>1, <3>2, <3>3
  <2>6. d \in 0..(W - 1)
    <3> HIDE DEF a, b, f
    <3>1. Unit * (a - b) \in Nat
      BY <2>1, <2>3
    <3>2. Unit * (MaxChunks - (a - b)) >= 0
      BY <2>1, <2>3
    <3>3. Unit * (MaxChunks - (a - b)) = Unit * MaxChunks - Unit * (a - b)
      BY <2>1, <2>3
    <3>4. Unit * MaxChunks \in Nat
      BY <2>3
    <3> QED
      BY <2>1, <2>3, <3>1, <3>2, <3>3, <3>4 DEF NumbersSuffice
  <2>7. (Num(o, a) + f) % W = (x + f) % W
    <3>1. Num(o, a) = x % W
      BY DEF Num
    <3> HIDE DEF a, b, f, x
    <3>2. x \in Int /\ f \in Int /\ W \in Nat \ {0}
      BY <2>1, <2>3, <2>4
    <3> QED
      BY <3>1, <3>2, ModSum
  <2>8. x + f = y + d
    <3> HIDE DEF a, b, f, x, y
    <3> QED
      BY <2>1, <2>3, <2>4, <2>5
  <2>9. Behind(e) = (((y + d) % W) + W - (y % W)) % W
    <3> HIDE DEF a, b, f, x, y, d
    <3> QED
      BY <2>2, <2>7, <2>8 DEF Behind, o
  <2>10. Behind(e) = d
    <3> HIDE DEF a, b, f, x, y, d
    <3> QED
      BY <2>3, <2>4, <2>6, <2>9, ModDiff
  <2> QED
    BY <2>10
<1>2. WholeBeforeEof
  BY DEF IInv, TypeOK, Whole, WholeBeforeEof
<1> QED
  BY <1>1, <1>2 DEF EndsAgree, IInv

\* Repeated, late and reordered SYNs, SYN+ACKs and data never make the two
\* ends count differently, and a side that closes at the end of its data has
\* given all of it to the wire (tcpd.cpp:1013-1035, 1152-1168, 1284-1310).
THEOREM NumbersAgree == NumbersSuffice => (Spec => []EndsAgree)
<1> SUFFICES ASSUME NumbersSuffice PROVE Spec => []EndsAgree
  OBVIOUS
<1>1. Init => IInv
  BY InitInv
<1>2. IInv /\ [Next]_vars => IInv'
  BY NextInv
<1>3. IInv => EndsAgree
  BY InvAgree
<1> QED
  BY <1>1, <1>2, <1>3, PTL DEF Spec

\* A step of the connection is a step of the two byte streams, or leaves
\* them alone.
LEMMA StreamStep == NumbersSuffice /\ IInv /\ Next => [Stream!Next]_(Stream!vars)
<1> SUFFICES ASSUME NumbersSuffice, IInv, Next PROVE [Stream!Next]_(Stream!vars)
  OBVIOUS
<1>0. /\ wire \in [Sides -> Seq(1..MaxChunks)] /\ got \in [Sides -> Seq(1..MaxChunks)]
      /\ taken \in [Sides -> 0..MaxChunks] /\ written \in [Sides -> 0..MaxChunks] /\ MaxChunks \in Nat
  BY ConstantsTyped DEF IInv, TypeOK
<1>1. ASSUME UNCHANGED <<wire, got, fin, ended>> PROVE [Stream!Next]_(Stream!vars)
  BY <1>1 DEF Stream!vars
<1>2. ASSUME NEW s \in net, NEW e \in Sides, Receive(e, s) \/ (e = "S" /\ Accept(s))
      PROVE  [Stream!Next]_(Stream!vars)
  <2>1. /\ s.to = e /\ st[e] \in {"synrcvd", "established"} /\ s.seq = rcv[e] /\ Consume(e, s)
        /\ UNCHANGED <<wire, fin>>
    BY <1>2, Consuming
  <2>2. /\ \/ got' = got
           \/ /\ s.kind # "fin"
              /\ Len(got[e]) < Len(wire[Other(e)])
              /\ got' = [got EXCEPT ![e] = Append(@, wire[Other(e)][Len(@) + 1])]
        /\ s.kind # "fin" => ended' = ended
        /\ s.kind = "fin" =>
              /\ got' = got /\ ended' = ended \cup {e}
              /\ Other(e) \in fin /\ Len(got[e]) = Len(wire[Other(e)])
    BY <2>1, Consumed
  <2>3. CASE s.kind = "fin"
    <3>1. ~(Len(got[e]) < Len(wire[Other(e)]))
      <4>1. Len(got[e]) \in Int
        <5>1. got[e] \in Seq(1..MaxChunks)
          BY <1>0
        <5> QED
          BY <5>1
      <4> QED
        BY <2>2, <2>3, <4>1
    <3>2. Stream!End(e)
      BY <2>1, <2>2, <2>3, <3>1 DEF Stream!End, Stream!Undelivered
    <3> QED
      BY <3>2 DEF Stream!Next
  <2>4. CASE s.kind # "fin" /\ got' = got
    BY <2>1, <2>2, <2>4, <1>1
  <2>5. CASE s.kind # "fin" /\ got' # got
    <3>1. e \notin ended
      BY <2>1 DEF IInv, Slots, SlotOf
    <3>2. Stream!Deliver(e)
      BY <2>1, <2>2, <2>5, <3>1 DEF Stream!Deliver, Stream!Undelivered
    <3> QED
      BY <3>2 DEF Stream!Next
  <2> QED
    BY <2>3, <2>4, <2>5
<1>3. ASSUME NEW e \in Sides, Take(e) PROVE [Stream!Next]_(Stream!vars)
  <2>1. CASE UNCHANGED wire
    BY <1>3, <2>1, <1>1 DEF Take
  <2>2. CASE wire' = [wire EXCEPT ![e] = Append(@, taken[e] + 1)]
    <3>1. taken[e] + 1 \in 1..MaxChunks
      <4>1. taken[e] < written[e] /\ taken[e] \in 0..MaxChunks /\ written[e] \in 0..MaxChunks
        BY <1>0, <1>3 DEF Take
      <4> QED
        BY <1>0, <4>1
    <3>2. e \notin fin /\ UNCHANGED <<got, fin, ended>>
      BY <1>3 DEF Take, IInv, Slots, SlotOf
    <3>3. Stream!Put(e)
      BY <2>2, <3>1, <3>2 DEF Stream!Put
    <3> QED
      BY <3>3 DEF Stream!Next
  <2> QED
    BY <1>3, <2>1, <2>2 DEF Take
<1>4. ASSUME NEW e \in Sides, Close(e) PROVE [Stream!Next]_(Stream!vars)
  <2>1. Stream!Finish(e)
    BY <1>4 DEF Close, CloseRequest, Stream!Finish
  <2> QED
    BY <2>1 DEF Stream!Next
<1>5. \/ \E s \in net, e \in Sides : Receive(e, s) \/ (e = "S" /\ Accept(s))
      \/ \E e \in Sides : Take(e) \/ Close(e)
      \/ UNCHANGED <<wire, got, fin, ended>>
  BY Steps DEF Connect, SynTimer, Syn, SynAgain, SynAck, OutOfOrder, FlushAck, Write, apps
<1> QED
  BY <1>1, <1>2, <1>3, <1>4, <1>5

\* A connection of tcpd implements two byte streams: what a side is handed
\* are the chunks of the other in order, each once, and its end after the
\* last, whatever the network loses, repeats or reorders, for any initial
\* numbers and any number of chunks below a turn of the numbers
\* (tcpd.cpp:1364-1384).
THEOREM CarriesStreams == NumbersSuffice => (Spec => ByteStreams)
<1> SUFFICES ASSUME NumbersSuffice PROVE Spec => ByteStreams
  OBVIOUS
<1>1. Init => IInv
  BY InitInv
<1>2. IInv /\ [Next]_vars => IInv'
  BY NextInv
<1>3. Init => Stream!Init
  BY DEF Init, Stream!Init
<1>4. IInv /\ [Next]_vars => [Stream!Next]_(Stream!vars)
  BY StreamStep DEF vars, apps, Stream!vars
<1> QED
  BY <1>1, <1>2, <1>3, <1>4, PTL DEF Spec, ByteStreams, Stream!Spec

-----------------------------------------------------------------------------
(* The lease of the DHCP client.                                           *)

Heard == {pipe[i] : i \in DOMAIN pipe}

\* networkd's binding of port 68 is the client's from its bind until it is
\* killed, and the only one that there is: before it, nothing was sent.
Port68 ==
  /\ port = "client" <=> pc \in {"link", "offer", "ack", "serving"}
  /\ pc = "bind" => pipe = <<>>
  /\ port = "free" => requests = {} /\ air = {} /\ config.mode # "lease"
  /\ config.mode = "lease" => pc = "serving" \/ port = "gone"

\* A request names an offer that was made.
RequestsName == \A m \in requests : m.kind = "request" => m.server \in Servers /\ m.addr \in Addrs

\* No message is left of an attempt that was given up: requests are for the
\* present offer, and whoever acknowledges it holds its address.
OneAttempt ==
  /\ pc = "link" => requests = {} /\ air = {} /\ pipe = <<>>
  /\ pc = "offer" => \A m \in requests : m.kind # "request"
  /\ pc = "offer" => \A m \in air \cup Heard : m.kind # "ack"
  /\ \A m \in requests : m.kind = "request" => m.server = offer.server /\ m.addr = offer.addr
  /\ \A m \in air \cup Heard : m.kind = "ack" =>
       m.addr = offer.addr /\ offer.server \in Servers /\ held[offer.server] = offer.addr
  /\ config.mode = "lease" =>
       config.addr = offer.addr /\ offer.server \in Servers /\ held[offer.server] = offer.addr

LeaseInv ==
  /\ Lease!TypeOK /\ Port68 /\ RequestsName
  /\ ~stale => OneAttempt

\* What is read of the pipe was in it, and so is what stays.
LEMMA PipeTail ==
  ASSUME NEW S, NEW q \in Seq(S), q # <<>>
  PROVE  /\ Head(q) \in S /\ Tail(q) \in Seq(S)
         /\ Head(q) \in {q[i] : i \in DOMAIN q}
         /\ {Tail(q)[i] : i \in DOMAIN Tail(q)} \subseteq {q[i] : i \in DOMAIN q}
<1> DEFINE t == Tail(q)
<1>1. /\ t \in Seq(S) /\ Len(t) = Len(q) - 1 /\ Len(q) \in Nat \ {0}
      /\ Head(q) \in S /\ Head(q) = q[1]
      /\ \A i \in 1..(Len(q) - 1) : t[i] = q[i + 1]
  OBVIOUS
<1>2. DOMAIN t = 1..(Len(q) - 1) /\ DOMAIN q = 1..Len(q)
  BY <1>1
<1> HIDE DEF t
<1>3. \A i \in 1..(Len(q) - 1) : i + 1 \in DOMAIN q
  BY <1>1, <1>2
<1>4. 1 \in DOMAIN q
  BY <1>1, <1>2
<1>5. {t[i] : i \in DOMAIN t} \subseteq {q[i] : i \in DOMAIN q}
  BY <1>1, <1>2, <1>3
<1> QED
  BY <1>1, <1>4, <1>5 DEF t

LEMMA PipeGrows ==
  ASSUME NEW S, NEW q \in Seq(S), NEW m \in S
  PROVE  /\ Append(q, m) \in Seq(S)
         /\ {Append(q, m)[i] : i \in DOMAIN Append(q, m)} = {q[i] : i \in DOMAIN q} \cup {m}
<1> DEFINE a == Append(q, m)
<1>1. /\ a \in Seq(S) /\ Len(a) = Len(q) + 1 /\ Len(q) \in Nat
      /\ a[Len(q) + 1] = m /\ \A i \in 1..Len(q) : a[i] = q[i]
  OBVIOUS
<1>2. DOMAIN a = 1..(Len(q) + 1) /\ DOMAIN q = 1..Len(q)
  BY <1>1
<1> HIDE DEF a
<1>3. \A i \in 1..(Len(q) + 1) : i \in 1..Len(q) \/ i = Len(q) + 1
  BY <1>1
<1>4. Len(q) + 1 \in 1..(Len(q) + 1) /\ 1..Len(q) \subseteq 1..(Len(q) + 1)
  BY <1>1
<1> QED
  BY <1>1, <1>2, <1>3, <1>4 DEF a

LEMMA LeaseInit == ASSUME Lease!DhcpAssumption, Lease!Init PROVE LeaseInv
<1> USE DEF Lease!Init
<1>1. Lease!TypeOK
  <2>1. config \in Lease!Config
    BY DEF Lease!Config
  <2>2. offer \in [server : Servers \cup {NoServer}, addr : Addrs \cup {NoAddr}]
    BY DEF Lease!NoOffer
  <2>3. troubles \in 0..MaxTroubles
    BY DEF Lease!DhcpAssumption
  <2>4. held \in [Servers -> Addrs \cup {NoAddr}] /\ pipe \in Seq(Lease!Answer)
    OBVIOUS
  <2> QED
    BY <2>1, <2>2, <2>3, <2>4 DEF Lease!TypeOK
<1>2. Heard = {}
  BY DEF Heard
<1> QED
  BY <1>1, <1>2 DEF LeaseInv, Port68, RequestsName, OneAttempt

\* The messages of a broadcast.
LEMMA BroadcastIs ==
  ASSUME NEW kind \in {"discover", "request"}, NEW s \in Servers \cup {NoServer},
         NEW a \in Addrs \cup {NoAddr}, requests \subseteq Lease!Request,
         Lease!Broadcast(kind, s, a)
  PROVE  /\ requests' \subseteq Lease!Request
         /\ \A m \in requests' : m \in requests \/ (m.kind = kind /\ m.server = s /\ m.addr = a)
  BY DEF Lease!Broadcast, Lease!Request

LEMMA LeaseTypes ==
  ASSUME Lease!DhcpAssumption, Lease!TypeOK, RequestsName, Lease!Next
  PROVE  Lease!TypeOK'
<1> USE DEF Lease!TypeOK
<1>1. troubles' = troubles \/ Lease!Trouble => troubles' \in 0..MaxTroubles
  BY DEF Lease!Trouble, Lease!DhcpAssumption
<1>2. CASE Lease!StartStatic
  <2>1. config' \in Lease!Config
    BY <1>2 DEF Lease!StartStatic, Lease!Static, Lease!Config
  <2> QED
    BY <1>1, <1>2, <2>1 DEF Lease!StartStatic, Lease!wires
<1>3. CASE Lease!StartDhcp
  BY <1>3 DEF Lease!StartDhcp, Lease!iface, Lease!wires, Lease!counts
<1>4. CASE Lease!Bind
  BY <1>4 DEF Lease!Bind, Lease!iface, Lease!wires, Lease!counts
<1>5. CASE Lease!Discover
  <2>1. requests' \subseteq Lease!Request
    BY <1>5, BroadcastIs DEF Lease!Discover
  <2> QED
    BY <1>5, <2>1 DEF Lease!Discover, Lease!iface, Lease!counts
<1>6. CASE Lease!TakeOffer
  <2>1. Head(pipe) \in Lease!Answer /\ Tail(pipe) \in Seq(Lease!Answer)
    BY <1>6, PipeTail DEF Lease!TakeOffer
  <2>2. Head(pipe).server \in Servers /\ Head(pipe).addr \in Addrs
    BY <2>1 DEF Lease!Answer
  <2>3. requests' \subseteq Lease!Request
    BY <1>6, <2>2, BroadcastIs DEF Lease!TakeOffer
  <2> QED
    BY <1>6, <2>1, <2>2, <2>3 DEF Lease!TakeOffer, Lease!iface, Lease!counts
<1>7. CASE Lease!TakeAck
  <2>1. Head(pipe) \in Lease!Answer /\ Tail(pipe) \in Seq(Lease!Answer)
    BY <1>7, PipeTail DEF Lease!TakeAck
  <2>2. config' \in Lease!Config
    BY <1>7, <2>1 DEF Lease!TakeAck, Lease!Config, Lease!Answer
  <2>3. stale' \in BOOLEAN
    BY <1>7 DEF Lease!TakeAck
  <2> QED
    BY <1>1, <1>7, <2>1, <2>2, <2>3 DEF Lease!TakeAck, Lease!wires
<1>8. CASE Lease!Reject
  <2>1. Tail(pipe) \in Seq(Lease!Answer)
    BY <1>8, PipeTail DEF Lease!Reject
  <2> QED
    BY <1>8, <2>1 DEF Lease!Reject, Lease!iface, Lease!wires, Lease!counts
<1>9. CASE Lease!Timeout
  BY <1>1, <1>9 DEF Lease!Timeout, Lease!Retries, Lease!iface, Lease!wires
<1>10. CASE \E m \in requests : Lease!Serve(m)
  <2>1. PICK m \in requests : Lease!Serve(m)
    BY <1>10
  <2>2. m.to \in Servers /\ m.server \in Servers \cup {NoServer} /\ m.addr \in Addrs \cup {NoAddr}
    BY DEF Lease!Request
  <2>3. Lease!Offerable(m.to) \subseteq Addrs
    BY <2>2 DEF Lease!Offerable, Lease!DhcpAssumption
  <2>4. air' \subseteq Lease!Answer
    BY <2>1, <2>2, <2>3 DEF Lease!Serve, Lease!Answer, RequestsName
  <2>5. held' \in [Servers -> Addrs \cup {NoAddr}]
    BY <2>1, <2>2 DEF Lease!Serve
  <2>6. requests' \subseteq Lease!Request
    BY <2>1 DEF Lease!Serve
  <2> QED
    BY <2>1, <2>4, <2>5, <2>6 DEF Lease!Serve, Lease!client, Lease!iface, Lease!counts
<1>11. CASE \E m \in air : Lease!Deliver(m)
  <2>1. PICK m \in air : Lease!Deliver(m)
    BY <1>11
  <2>2. Append(pipe, m) \in Seq(Lease!Answer)
    BY PipeGrows
  <2> QED
    BY <2>1, <2>2 DEF Lease!Deliver, Lease!iface, Lease!counts
<1>12. CASE Lease!Kill
  BY <1>1, <1>12 DEF Lease!Kill, Lease!iface, Lease!wires
<1>13. CASE Lease!SetIp
  BY <1>13 DEF Lease!SetIp, Lease!Static, Lease!Config, Lease!client, Lease!wires, Lease!counts
<1>14. CASE Lease!LinkDown
  BY <1>1, <1>14 DEF Lease!LinkDown, Lease!client, Lease!wires
<1>15. CASE Lease!LinkUp
  BY <1>15 DEF Lease!LinkUp, Lease!client, Lease!wires, Lease!counts
<1>16. CASE Lease!Lose
  BY <1>1, <1>16 DEF Lease!Lose, Lease!client, Lease!iface
<1> QED
  BY <1>2, <1>3, <1>4, <1>5, <1>6, <1>7, <1>8, <1>9, <1>10, <1>11, <1>12, <1>13, <1>14, <1>15, <1>16
  DEF Lease!Next, Lease!Client, Lease!Network

\* What holds of port 68 and of the requests on their way, after each step.
LEMMA LeasePort ==
  ASSUME Lease!DhcpAssumption, Lease!TypeOK, Port68, RequestsName, Lease!Next
  PROVE  Port68' /\ RequestsName'
<1> USE DEF Port68
<1>1. CASE Lease!StartStatic
  BY <1>1 DEF Lease!StartStatic, Lease!Starts, Lease!Static, Lease!wires, RequestsName
<1>2. CASE Lease!StartDhcp
  BY <1>2 DEF Lease!StartDhcp, Lease!Starts, Lease!iface, Lease!wires, RequestsName
<1>3. CASE Lease!Bind
  BY <1>3 DEF Lease!Bind, Lease!iface, Lease!wires, RequestsName, Lease!TypeOK
<1>4. CASE Lease!Discover
  <2>1. \A m \in requests' : m \in requests \/ m.kind = "discover"
    BY <1>4, BroadcastIs DEF Lease!Discover, Lease!TypeOK
  <2> QED
    BY <1>4, <2>1 DEF Lease!Discover, Lease!iface, RequestsName
<1>5. CASE Lease!TakeOffer
  <2>1. Head(pipe).server \in Servers /\ Head(pipe).addr \in Addrs
    <3>1. Head(pipe) \in Lease!Answer
      BY <1>5, PipeTail DEF Lease!TakeOffer, Lease!TypeOK
    <3> QED
      BY <3>1 DEF Lease!Answer
  <2>2. \A m \in requests' : m \in requests \/ (m.server = Head(pipe).server /\ m.addr = Head(pipe).addr)
    BY <1>5, <2>1, BroadcastIs DEF Lease!TakeOffer, Lease!TypeOK
  <2>3. RequestsName'
    BY <2>1, <2>2 DEF RequestsName
  <2> QED
    BY <1>5, <2>3 DEF Lease!TakeOffer, Lease!iface
<1>6. CASE Lease!TakeAck
  BY <1>6 DEF Lease!TakeAck, Lease!wires, RequestsName
<1>7. CASE Lease!Reject
  BY <1>7 DEF Lease!Reject, Lease!iface, Lease!wires, RequestsName
<1>8. CASE Lease!Timeout
  BY <1>8 DEF Lease!Timeout, Lease!Retries, Lease!iface, Lease!wires, RequestsName
<1>9. CASE \E m \in requests : Lease!Serve(m)
  <2>1. PICK m \in requests : Lease!Serve(m)
    BY <1>9
  <2> QED
    BY <2>1 DEF Lease!Serve, Lease!client, Lease!iface, RequestsName
<1>10. CASE \E m \in air : Lease!Deliver(m)
  <2>1. PICK m \in air : Lease!Deliver(m)
    BY <1>10
  <2> QED
    BY <2>1 DEF Lease!Deliver, Lease!iface, RequestsName
<1>11. CASE Lease!Kill
  BY <1>11 DEF Lease!Kill, Lease!iface, Lease!wires, RequestsName
<1>12. CASE Lease!SetIp
  BY <1>12 DEF Lease!SetIp, Lease!Static, Lease!client, Lease!wires, RequestsName
<1>13. CASE Lease!LinkDown \/ Lease!LinkUp
  BY <1>13 DEF Lease!LinkDown, Lease!LinkUp, Lease!client, Lease!wires, RequestsName
<1>14. CASE Lease!Lose
  BY <1>14 DEF Lease!Lose, Lease!client, Lease!iface, RequestsName
<1> QED
  BY <1>1, <1>2, <1>3, <1>4, <1>5, <1>6, <1>7, <1>8, <1>9, <1>10, <1>11, <1>12, <1>13, <1>14
  DEF Lease!Next, Lease!Client, Lease!Network

LEMMA LeaseAttempt ==
  ASSUME Lease!DhcpAssumption, LeaseInv, Lease!Next, ~stale'
  PROVE  OneAttempt'
<1>1. ~stale /\ OneAttempt /\ Lease!TypeOK /\ Port68 /\ RequestsName
  <2>1. ~stale
    BY DEF Lease!Next, Lease!Client, Lease!Network, Lease!StartStatic, Lease!StartDhcp, Lease!Bind,
           Lease!Discover, Lease!TakeOffer, Lease!TakeAck, Lease!Reject, Lease!Timeout, Lease!Serve,
           Lease!Deliver, Lease!Kill, Lease!SetIp, Lease!LinkDown, Lease!LinkUp, Lease!Lose, Lease!counts
  <2> QED
    BY <2>1 DEF LeaseInv
<1>2. CASE Lease!StartStatic
  BY <1>1, <1>2 DEF Lease!StartStatic, Lease!Static, Lease!wires, OneAttempt, Heard
<1>3. CASE Lease!StartDhcp
  <2>1. Heard' = {}
    BY <1>3 DEF Lease!StartDhcp, Heard
  <2> QED
    BY <1>1, <1>3, <2>1 DEF Lease!StartDhcp, Lease!iface, Lease!wires, OneAttempt
<1>4. CASE Lease!Bind
  BY <1>1, <1>4 DEF Lease!Bind, Lease!iface, Lease!wires, OneAttempt, Port68, Heard
<1>5. CASE Lease!Discover
  <2>1. \A m \in requests' : m.kind = "discover"
    BY <1>1, <1>5, BroadcastIs DEF Lease!Discover, Lease!TypeOK, OneAttempt
  <2>2. air = {} /\ Heard = {}
    BY <1>1, <1>5 DEF Lease!Discover, OneAttempt, Heard
  <2>3. Heard' = Heard
    BY <1>5 DEF Lease!Discover, Heard
  <2> QED
    BY <1>1, <1>5, <2>1, <2>2, <2>3 DEF Lease!Discover, Lease!iface, OneAttempt
<1>6. CASE Lease!TakeOffer
  <2>1. Head(pipe).server \in Servers /\ Head(pipe).addr \in Addrs
    <3>1. Head(pipe) \in Lease!Answer
      BY <1>1, <1>6, PipeTail DEF Lease!TakeOffer, Lease!TypeOK
    <3> QED
      BY <3>1 DEF Lease!Answer
  <2>2. \A m \in requests' : m.kind = "request" => m.server = offer'.server /\ m.addr = offer'.addr
    BY <1>1, <1>6, <2>1, BroadcastIs DEF Lease!TakeOffer, Lease!TypeOK, OneAttempt
  <2>3. Heard' \subseteq Heard
    BY <1>1, <1>6, PipeTail DEF Lease!TakeOffer, Lease!TypeOK, Heard
  <2>4. \A m \in air' \cup Heard' : m.kind # "ack"
    BY <1>1, <1>6, <2>3 DEF Lease!TakeOffer, OneAttempt
  <2>5. config'.mode # "lease" /\ pc' = "ack"
    BY <1>1, <1>6 DEF Lease!TakeOffer, Lease!iface, Port68
  <2> QED
    BY <2>2, <2>4, <2>5 DEF OneAttempt
<1>7. CASE Lease!TakeAck
  <2>1. Heard' \subseteq Heard /\ Head(pipe) \in Heard /\ Head(pipe).kind = "ack"
    BY <1>1, <1>7, PipeTail DEF Lease!TakeAck, Lease!TypeOK, Heard, Lease!IsAck
  <2>2. Head(pipe).addr = offer.addr /\ offer.server \in Servers /\ held[offer.server] = offer.addr
    BY <1>1, <2>1 DEF OneAttempt
  <2>3. CASE pc' = "serving" /\ config' = [mode |-> "lease", addr |-> Head(pipe).addr]
    BY <1>1, <1>7, <2>1, <2>2, <2>3 DEF Lease!TakeAck, Lease!wires, OneAttempt
  <2>4. CASE pc' = "link" /\ config' = config /\ requests = {} /\ air = {} /\ pipe' = <<>>
    <3>1. Heard' = {}
      BY <2>4 DEF Heard
    <3> QED
      BY <1>1, <1>7, <2>4, <3>1 DEF Lease!TakeAck, Lease!wires, OneAttempt
  <2> QED
    BY <1>7, <2>3, <2>4 DEF Lease!TakeAck
<1>8. CASE Lease!Reject
  <2>1. Heard' \subseteq Heard
    BY <1>1, <1>8, PipeTail DEF Lease!Reject, Lease!TypeOK, Heard
  <2> QED
    BY <1>1, <1>8, <2>1 DEF Lease!Reject, Lease!iface, Lease!wires, OneAttempt
<1>9. CASE Lease!Timeout
  <2>1. requests = {} /\ air = {} /\ pipe = <<>>
    BY <1>9 DEF Lease!Timeout
  <2>2. Heard' = {}
    BY <1>9, <2>1 DEF Lease!Timeout, Heard
  <2> QED
    BY <1>1, <1>9, <2>1, <2>2 DEF Lease!Timeout, Lease!Retries, Lease!iface, Lease!wires, OneAttempt
<1>10. CASE \E m \in requests : Lease!Serve(m)
  <2>1. PICK m \in requests : Lease!Serve(m)
    BY <1>10
  <2>2. Heard' = Heard /\ requests' \subseteq requests /\ pc # "link" /\ UNCHANGED <<pc, offer, config>>
    BY <1>1, <2>1 DEF Lease!Serve, Lease!client, Lease!iface, Heard, OneAttempt
  <2>3. CASE m.kind = "discover"
    <3>1. held' = held /\ \A a \in air' : a \in air \/ a.kind = "offer"
      BY <2>1, <2>3 DEF Lease!Serve
    <3> QED
      BY <1>1, <2>2, <3>1 DEF OneAttempt
  <2>4. CASE m.kind = "request"
    <3>1. /\ pc # "offer" /\ m.server = offer.server /\ m.addr = offer.addr
          /\ m.server \in Servers /\ m.to \in Servers
      BY <1>1, <2>4 DEF OneAttempt, RequestsName, Lease!TypeOK, Lease!Request
    <3>2. CASE m.server = m.to
      <4>1. held'[offer.server] = offer.addr
        BY <1>1, <2>1, <2>4, <3>1, <3>2 DEF Lease!Serve, Lease!TypeOK
      <4>2. \A a \in air' : a \in air \/ a.addr = offer.addr
        BY <2>1, <2>4, <3>1, <3>2 DEF Lease!Serve
      <4> QED
        BY <1>1, <2>2, <3>1, <4>1, <4>2 DEF OneAttempt
    <3>3. CASE m.server # m.to
      <4>1. held'[offer.server] = held[offer.server] /\ air' = air
        BY <1>1, <2>1, <2>4, <3>1, <3>3 DEF Lease!Serve, Lease!TypeOK
      <4> QED
        BY <1>1, <2>2, <3>1, <4>1 DEF OneAttempt
    <3> QED
      BY <3>2, <3>3
  <2> QED
    BY <2>1, <2>3, <2>4 DEF Lease!Serve
<1>11. CASE \E m \in air : Lease!Deliver(m)
  <2>1. PICK m \in air : Lease!Deliver(m)
    BY <1>11
  <2>2. Heard' \subseteq Heard \cup {m}
    BY <1>1, <2>1, PipeGrows DEF Lease!Deliver, Lease!TypeOK, Heard
  <2>3. air' \cup Heard' \subseteq air \cup Heard /\ pc # "link"
    BY <1>1, <2>1, <2>2 DEF Lease!Deliver, OneAttempt
  <2> QED
    BY <1>1, <2>1, <2>3 DEF Lease!Deliver, Lease!iface, OneAttempt
<1>12. CASE Lease!Kill
  <2>1. Heard' = {}
    BY <1>12 DEF Lease!Kill, Heard
  <2> QED
    BY <1>1, <1>12, <2>1 DEF Lease!Kill, Lease!iface, Lease!wires, OneAttempt
<1>13. CASE Lease!SetIp
  BY <1>1, <1>13 DEF Lease!SetIp, Lease!Static, Lease!client, Lease!wires, OneAttempt, Heard
<1>14. CASE Lease!LinkDown \/ Lease!LinkUp
  BY <1>1, <1>14 DEF Lease!LinkDown, Lease!LinkUp, Lease!client, Lease!wires, OneAttempt, Heard
<1>15. CASE Lease!Lose
  <2>1. Heard' = Heard /\ requests' \subseteq requests /\ air' \subseteq air
    BY <1>15 DEF Lease!Lose, Lease!client, Heard
  <2> QED
    BY <1>1, <1>15, <2>1 DEF Lease!Lose, Lease!client, Lease!iface, OneAttempt
<1> QED
  BY <1>2, <1>3, <1>4, <1>5, <1>6, <1>7, <1>8, <1>9, <1>10, <1>11, <1>12, <1>13, <1>14, <1>15
  DEF Lease!Next, Lease!Client, Lease!Network

LEMMA LeaseInvNext ==
  ASSUME Lease!DhcpAssumption, LeaseInv, [Lease!Next]_(Lease!vars)
  PROVE  LeaseInv'
<1>1. CASE Lease!Next
  BY <1>1, LeaseTypes, LeasePort, LeaseAttempt DEF LeaseInv
<1>2. CASE UNCHANGED Lease!vars
  <2>1. UNCHANGED <<pc, port, link, config, saved, told, offer, pipe>>
    BY <1>2 DEF Lease!vars, Lease!client, Lease!iface
  <2>2. UNCHANGED <<requests, air, held, troubles, stale, killed>>
    BY <1>2 DEF Lease!vars, Lease!wires, Lease!counts
  <2>3. Lease!TypeOK' /\ Port68' /\ RequestsName'
    BY <2>1, <2>2 DEF LeaseInv, Lease!TypeOK, Port68, RequestsName
  <2>4. OneAttempt' <=> OneAttempt
    BY <2>1, <2>2 DEF OneAttempt, Heard
  <2>5. stale' <=> stale
    BY <2>2
  <2> QED
    BY <2>3, <2>4, <2>5 DEF LeaseInv
<1> QED
  BY <1>1, <1>2

\* The address in use is one that a server holds for this client, for any
\* number of servers and addresses and any losses and restarts, as long as no
\* attempt was given up with messages on their way (dhcp.cpp:422-460, 513-617).
THEOREM LeaseIsHeld ==
  ASSUME Lease!DhcpAssumption
  PROVE  Lease!Spec => []Lease!LeaseHeld
<1>1. Lease!Init => LeaseInv
  BY LeaseInit
<1>2. LeaseInv /\ [Lease!Next]_(Lease!vars) => LeaseInv'
  BY LeaseInvNext
<1>3. LeaseInv => Lease!LeaseHeld
  BY DEF LeaseInv, OneAttempt, Lease!LeaseHeld
<1> QED
  BY <1>1, <1>2, <1>3, PTL DEF Lease!Spec

\* So it is where the run checks it: a step of that run is a step of the client
\* or leaves it alone.
THEOREM LeaseStaysHeld == PartsSpec => []LeaseHeld
<1>1. PartsInit => LeaseInv
  BY LeaseInit, LeaseAssumption DEF PartsInit
<1>2. [PartsNext]_partsVars => [Lease!Next]_(Lease!vars)
  BY DEF PartsNext, StreamNext, LeaseNext, partsVars, leaseVars,
         Lease!vars, Lease!client, Lease!iface, Lease!wires, Lease!counts
<1>3. LeaseInv /\ [PartsNext]_partsVars => LeaseInv'
  BY <1>2, LeaseInvNext, LeaseAssumption
<1>4. LeaseInv => LeaseHeld
  BY DEF LeaseInv, OneAttempt, LeaseHeld, Lease!LeaseHeld
<1> QED
  BY <1>1, <1>3, <1>4, PTL DEF PartsSpec
=============================================================================
