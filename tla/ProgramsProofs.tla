--------------------------- MODULE ProgramsProofs ---------------------------
(***************************************************************************)
(* Of programs that stand by themselves, each for every value of its        *)
(* constants.  The drivers of network cards pass the frames of the wire up  *)
(* and those of the stack out, and what is written to the audio driver is   *)
(* heard, once and in order, for rings of any size; the service log is the  *)
(* most recent output; what is computed for a disk fits it; a shell and a   *)
(* service run as who they are for.                                         *)
(***************************************************************************)
EXTENDS
  MCDevices, ServiceLog, Integers, SequenceTheorems, FiniteSetTheorems, WellFoundedInduction, TLAPS

-----------------------------------------------------------------------------
(* Remainders.                                                             *)

LEMMA DivUnique ==
  ASSUME NEW w \in Nat \ {0}, NEW p \in Int, NEW q \in Int, NEW r \in 0..(w - 1), NEW s \in 0..(w - 1),
         w * p + r = w * q + s
  PROVE  p = q /\ r = s
<1>1. ASSUME NEW a \in Int, NEW b \in Int, a < b PROVE w * a + w =< w * b
  <2>1. b - a - 1 \in Nat
    BY <1>1
  <2>2. \A n \in Nat : w * n >= 0
    OBVIOUS
  <2>3. w * (b - a - 1) >= 0
    BY <2>1, <2>2
  <2>4. w * (b - a - 1) = w * b - w * a - w
    OBVIOUS
  <2> QED
    BY <2>3, <2>4
<1>2. ~(p < q)
  BY <1>1
<1>3. ~(q < p)
  BY <1>1
<1> QED
  BY <1>2, <1>3

LEMMA DivMod ==
  ASSUME NEW w \in Nat \ {0}, NEW x \in Int
  PROVE  x % w \in 0..(w-1) /\ \E q \in Int : x = w * q + (x % w)
<1>1. x % w \in 0..(w-1)
  OBVIOUS
<1>2. x \div w \in Int
  OBVIOUS
<1>3. x = w * (x \div w) + (x % w)
  OBVIOUS
<1> QED
  BY <1>1, <1>2, <1>3

LEMMA ModIs ==
  ASSUME NEW w \in Nat \ {0}, NEW x \in Int, NEW q \in Int, NEW r \in 0..(w-1), x = w * q + r
  PROVE  x % w = r
<1>1. PICK p \in Int : x = w * p + (x % w)
  BY DivMod
<1>2. x % w \in 0..(w-1)
  BY DivMod
<1>3. PICK s : s = x % w
  OBVIOUS
<1>4. w * p + s = w * q + r /\ s \in 0..(w - 1)
  BY <1>1, <1>2, <1>3
<1>5. /\ w \in Nat \ {0} /\ p \in Int /\ q \in Int /\ s \in 0..(w - 1) /\ r \in 0..(w - 1)
      /\ w * p + s = w * q + r
  BY <1>4
<1>6. \A c, d \in 0..(w - 1) : w * p + c = w * q + d => p = q /\ c = d
  BY DivUnique
<1>7. p = q /\ s = r
  BY <1>5, <1>6
<1> QED
  BY <1>3, <1>7

LEMMA ModSum ==
  ASSUME NEW w \in Nat \ {0}, NEW x \in Int, NEW n \in Int
  PROVE  ((x % w) + n) % w = (x + n) % w
<1> DEFINE r == x % w
           t == (r + n) % w
<1>1. r \in 0..(w-1) /\ \E p \in Int : x = w * p + r
  BY DivMod
<1>2. r + n \in Int
  BY <1>1
<1>3. t \in 0..(w-1) /\ \E q \in Int : r + n = w * q + t
  BY <1>2, DivMod
<1> HIDE DEF r, t
<1>4. PICK p \in Int, q \in Int : x = w * p + r /\ r + n = w * q + t
  BY <1>1, <1>3
<1>5. w * (p + q) = w * p + w * q
  OBVIOUS
<1>6. x + n = w * (p + q) + t
  BY <1>1, <1>3, <1>4, <1>5
<1>7. (x + n) % w = t
  <2>1. t \in 0..(w-1) /\ p + q \in Int /\ x + n \in Int
    BY <1>3
  <2> QED
    BY <1>6, <2>1, ModIs, Zenon
<1> QED
  BY <1>7 DEF r, t

LEMMA ModNear ==
  ASSUME NEW w \in Nat \ {0}, NEW x \in Int, NEW d \in Nat, d < w, (x + d) % w = x % w
  PROVE  d = 0
<1> DEFINE r == x % w
<1>1. r \in 0..(w-1) /\ \E p \in Int : x = w * p + r
  BY DivMod
<1>2. x + d \in Int
  OBVIOUS
<1>3. \E q \in Int : x + d = w * q + r
  BY <1>2, DivMod
<1> HIDE DEF r
<1>4. PICK p \in Int, q \in Int : x = w * p + r /\ x + d = w * q + r
  BY <1>1, <1>3
<1>5. w * (q - p) = w * q - w * p /\ w * 0 = 0
  OBVIOUS
<1>6. w * 0 + d = w * (q - p) + 0
  BY <1>1, <1>4, <1>5
<1>7. d \in 0..(w-1) /\ 0 \in 0..(w-1) /\ q - p \in Int /\ 0 \in Int
  OBVIOUS
<1> QED
  BY <1>6, <1>7, DivUnique

-----------------------------------------------------------------------------
(* Rings: n entries of a ring of s places, from the place of index i on.   *)

View(ring, i, n, s) == [k \in 1..n |-> ring[(i + (k - 1)) % s]]

Put(ring, p, d) == [ring EXCEPT ![p] = d]

Longer(v, d) == Append(v, d)

LEMMA PlaceIn ==
  ASSUME NEW s \in Nat \ {0}, NEW x \in Int
  PROVE  x % s \in 0..(s - 1)
BY DivMod

LEMMA ApartWhere ==
  ASSUME NEW s \in Nat \ {0}, NEW i \in Nat, NEW a \in 0..(s - 1), NEW b \in 0..(s - 1), (i + a) % s = (i + b) % s
  PROVE  a = b
<1>1. CASE a =< b
  <2>1. i + a \in Int /\ b - a \in Nat /\ b - a < s /\ (i + a) + (b - a) = i + b
    BY <1>1
  <2>2. ((i + a) + (b - a)) % s = (i + a) % s
    BY <2>1
  <2> DEFINE x == i + a
             d == b - a
  <2>3. x \in Int /\ d \in Nat /\ d < s /\ (x + d) % s = x % s
    BY <2>1, <2>2
  <2> HIDE DEF x, d
  <2>4. d = 0
    BY <2>3, ModNear
  <2> QED
    BY <2>4 DEF d
<1>2. CASE b =< a
  <2>1. i + b \in Int /\ a - b \in Nat /\ a - b < s /\ (i + b) + (a - b) = i + a
    BY <1>2
  <2> DEFINE x == i + b
             d == a - b
  <2>3. x \in Int /\ d \in Nat /\ d < s /\ (x + d) % s = x % s
    BY <2>1
  <2> HIDE DEF x, d
  <2>4. d = 0
    BY <2>3, ModNear
  <2> QED
    BY <2>4 DEF d
<1> QED
  BY <1>1, <1>2

LEMMA ViewIsSeq ==
  ASSUME NEW s \in Nat \ {0}, NEW i \in Nat, NEW n \in Nat, NEW X, NEW ring \in [0..(s - 1) -> X]
  PROVE  View(ring, i, n, s) \in Seq(X) /\ Len(View(ring, i, n, s)) = n
<1>1. \A k \in 1..n : (i + (k - 1)) % s \in 0..(s - 1)
  BY PlaceIn
<1>2. View(ring, i, n, s) \in [1..n -> X]
  BY <1>1 DEF View
<1> QED
  BY <1>2

\* What is written behind the last entry is the last entry.
LEMMA ViewPush ==
  ASSUME NEW s \in Nat \ {0}, NEW i \in Nat, NEW n \in 0..(s - 1), NEW X, NEW ring \in [0..(s - 1) -> X],
         NEW d \in X
  PROVE  View(Put(ring, (i + n) % s, d), i, n + 1, s) = Longer(View(ring, i, n, s), d)
<1> DEFINE p == (i + n) % s
           new == [ring EXCEPT ![p] = d]
           old == View(ring, i, n, s)
<1>1. p \in 0..(s - 1)
  BY PlaceIn
<1>2. Len(old) = n /\ DOMAIN old = 1..n
  BY DEF View
<1>3. \A k \in 1..n : new[(i + (k - 1)) % s] = old[k]
  <2> TAKE k \in 1..n
  <2>1. k - 1 \in 0..(s - 1) /\ n \in 0..(s - 1) /\ k - 1 # n
    OBVIOUS
  <2>2. (i + (k - 1)) % s # p
    BY <2>1, ApartWhere
  <2>3. (i + (k - 1)) % s \in 0..(s - 1)
    BY PlaceIn
  <2> QED
    BY <2>2, <2>3 DEF View
<1>4. new[(i + ((n + 1) - 1)) % s] = d
  <2>1. (n + 1) - 1 = n
    OBVIOUS
  <2> QED
    BY <1>1, <2>1
<1>5. View(new, i, n + 1, s) = [k \in 1..(n + 1) |-> IF k \in 1..n THEN old[k] ELSE d]
  <2>1. \A k \in 1..(n + 1) : new[(i + (k - 1)) % s] = IF k \in 1..n THEN old[k] ELSE d
    <3> TAKE k \in 1..(n + 1)
    <3>1. CASE k \in 1..n
      BY <3>1, <1>3
    <3>2. CASE k \notin 1..n
      <4>1. k = n + 1
        BY <3>2
      <4> QED
        BY <1>4, <3>2, <4>1
    <3> QED
      BY <3>1, <3>2
  <2> HIDE DEF new, old
  <2> QED
    BY <2>1 DEF View
<1>6. Append(old, d) = [k \in 1..(n + 1) |-> IF k \in 1..n THEN old[k] ELSE d]
  <2>1. old \in Seq(X)
    BY ViewIsSeq
  <2> HIDE DEF old
  <2> DEFINE q == Append(old, d)
             g == [k \in 1..(n + 1) |-> IF k \in 1..n THEN old[k] ELSE d]
  <2>2. /\ q \in Seq(X \cup {d}) /\ Len(q) = n + 1 /\ q[n + 1] = d
        /\ \A k \in 1..n : q[k] = old[k]
    BY <1>2, <2>1, AppendProperties
  <2> HIDE DEF q
  <2>3. q = [k \in 1..(n + 1) |-> q[k]]
    BY <2>2, LenProperties
  <2>4. \A k \in 1..(n + 1) : q[k] = IF k \in 1..n THEN old[k] ELSE d
    BY <2>2
  <2> QED
    BY <2>3, <2>4 DEF q
<1> QED
  BY <1>5, <1>6 DEF Put, Longer

\* The first entry is that of the place of i.
LEMMA ViewPop ==
  ASSUME NEW s \in Nat \ {0}, NEW i \in Nat, NEW n \in Nat \ {0}, NEW X, NEW ring \in [0..(s - 1) -> X]
  PROVE  /\ Head(View(ring, i, n, s)) = ring[i % s]
         /\ View(ring, i + 1, n - 1, s) = Tail(View(ring, i, n, s))
<1> DEFINE old == View(ring, i, n, s)
<1>1. Len(old) = n /\ DOMAIN old = 1..n /\ old[1] = ring[(i + (1 - 1)) % s]
  BY DEF View
<1>2. i + (1 - 1) = i
  OBVIOUS
<1>3. Tail(old) = [k \in 1..(n - 1) |-> old[k + 1]]
  <2>1. old \in Seq(X)
    BY ViewIsSeq
  <2> HIDE DEF old
  <2> DEFINE q == Tail(old)
  <2>2. old # <<>>
    BY <1>1, <2>1
  <2>3. /\ q \in Seq(X) /\ Len(q) = n - 1
        /\ \A k \in 1..(n - 1) : q[k] = old[k + 1]
    BY <1>1, <2>1, <2>2, HeadTailProperties
  <2> HIDE DEF q
  <2>4. q = [k \in 1..(n - 1) |-> q[k]]
    BY <2>3, LenProperties
  <2> QED
    BY <2>3, <2>4 DEF q
<1>4. \A k \in 1..(n - 1) : old[k + 1] = ring[((i + 1) + (k - 1)) % s]
  <2> TAKE k \in 1..(n - 1)
  <2>1. k + 1 \in 1..n /\ i + ((k + 1) - 1) = (i + 1) + (k - 1)
    OBVIOUS
  <2> QED
    BY <2>1 DEF View
<1>5. View(ring, i + 1, n - 1, s) = [k \in 1..(n - 1) |-> ring[((i + 1) + (k - 1)) % s]]
  BY DEF View
<1>6. Head(old) = old[1]
  <2> HIDE DEF old
  <2> QED
    BY <1>1
<1> HIDE DEF old
<1> QED
  BY <1>1, <1>2, <1>3, <1>4, <1>5, <1>6 DEF old

\* Only the place of the first index counts.
LEMMA ViewFrom ==
  ASSUME NEW s \in Nat \ {0}, NEW i \in Nat, NEW j \in Nat, i % s = j % s, NEW n \in Nat, NEW ring
  PROVE  View(ring, i, n, s) = View(ring, j, n, s)
<1>1. \A k \in 1..n : (i + (k - 1)) % s = (j + (k - 1)) % s
  <2> TAKE k \in 1..n
  <2> DEFINE m == k - 1
  <2>0. m \in Int /\ i \in Int /\ j \in Int
    OBVIOUS
  <2> HIDE DEF m
  <2>1. ((i % s) + m) % s = (i + m) % s
    BY <2>0, ModSum
  <2>2. ((j % s) + m) % s = (j + m) % s
    BY <2>0, ModSum
  <2>3. (i + m) % s = (j + m) % s
    BY <2>1, <2>2
  <2> QED
    BY <2>3 DEF m
<1> QED
  BY <1>1 DEF View

\* Steps from index i on to index j, when there are l of them.
Far(i, j, l) == ((j + l) - i) % l

LEMMA NextIndex ==
  ASSUME NEW l \in Nat \ {0}, NEW i \in 0..(l - 1)
  PROVE  /\ (i + 1) % l = IF i + 1 = l THEN 0 ELSE i + 1
         /\ (i + 1) % l \in 0..(l - 1)
<1>1. CASE i + 1 = l
  <2>1. l % l = 0
    <3>1. l = l * 1 + 0 /\ 0 \in 0..(l - 1) /\ l \in Int /\ 1 \in Int
      OBVIOUS
    <3> QED
      BY <3>1, ModIs
  <2> QED
    BY <1>1, <2>1
<1>2. CASE i + 1 # l
  <2>1. i + 1 = l * 0 + (i + 1) /\ i + 1 \in 0..(l - 1) /\ i + 1 \in Int /\ 0 \in Int
    BY <1>2
  <2>2. (i + 1) % l = i + 1
    BY <2>1, ModIs
  <2> QED
    BY <1>2, <2>1, <2>2
<1> QED
  BY <1>1, <1>2

LEMMA FarIs ==
  ASSUME NEW l \in Nat \ {0}, NEW i \in 0..(l - 1), NEW j \in 0..(l - 1)
  PROVE  /\ Far(i, j, l) = IF i =< j THEN j - i ELSE (j + l) - i
         /\ Far(i, j, l) \in 0..(l - 1)
<1> DEFINE x == (j + l) - i
<1>0. x \in Int
  OBVIOUS
<1>1. CASE i =< j
  <2>1. x = l * 1 + (j - i) /\ j - i \in 0..(l - 1) /\ 1 \in Int
    BY <1>1
  <2> HIDE DEF x
  <2>2. x % l = j - i
    BY <1>0, <2>1, ModIs
  <2> QED
    BY <1>1, <2>1, <2>2 DEF Far, x
<1>2. CASE ~(i =< j)
  <2>1. x = l * 0 + ((j + l) - i) /\ (j + l) - i \in 0..(l - 1) /\ 0 \in Int
    BY <1>2
  <2>2. x % l = x
    BY <1>0, <2>1, ModIs
  <2> QED
    BY <1>2, <2>1, <2>2 DEF Far
<1> QED
  BY <1>1, <1>2

LEMMA FarZero ==
  ASSUME NEW l \in Nat \ {0}, NEW i \in 0..(l - 1), NEW j \in 0..(l - 1)
  PROVE  (Far(i, j, l) = 0) <=> (i = j)
<1>1. Far(i, j, l) = IF i =< j THEN j - i ELSE (j + l) - i
  BY FarIs
<1> QED
  BY <1>1

\* One more, one less.
LEMMA FarNext ==
  ASSUME NEW l \in Nat \ {0}, NEW i \in 0..(l - 1), NEW j \in 0..(l - 1), Far(i, j, l) < l - 1
  PROVE  Far(i, (j + 1) % l, l) = Far(i, j, l) + 1
<1> DEFINE k == (j + 1) % l
<1>1. k = (IF j + 1 = l THEN 0 ELSE j + 1) /\ k \in 0..(l - 1)
  BY NextIndex
<1>2. Far(i, j, l) = IF i =< j THEN j - i ELSE (j + l) - i
  BY FarIs
<1> HIDE DEF k
<1>3. Far(i, k, l) = IF i =< k THEN k - i ELSE (k + l) - i
  BY <1>1, FarIs
<1>4. Far(i, k, l) = Far(i, j, l) + 1
  BY <1>1, <1>2, <1>3
<1> QED
  BY <1>4 DEF k

LEMMA FarLess ==
  ASSUME NEW l \in Nat \ {0}, NEW i \in 0..(l - 1), NEW j \in 0..(l - 1), i # j
  PROVE  Far((i + 1) % l, j, l) = Far(i, j, l) - 1 /\ Far(i, j, l) \in Nat \ {0}
<1> DEFINE k == (i + 1) % l
<1>1. k = (IF i + 1 = l THEN 0 ELSE i + 1) /\ k \in 0..(l - 1)
  BY NextIndex
<1>2. Far(i, j, l) = IF i =< j THEN j - i ELSE (j + l) - i
  BY FarIs
<1> HIDE DEF k
<1>3. Far(k, j, l) = IF k =< j THEN j - k ELSE (j + l) - k
  BY <1>1, FarIs
<1>4. Far(k, j, l) = Far(i, j, l) - 1 /\ Far(i, j, l) \in Nat \ {0}
  BY <1>1, <1>2, <1>3
<1> QED
  BY <1>4 DEF k

\* The places of a ring go round with the indices, of which there are a multiple.
LEMMA NextPlace ==
  ASSUME NEW s \in Nat \ {0}, NEW l \in Nat \ {0}, l % s = 0, NEW i \in 0..(l - 1)
  PROVE  ((i + 1) % l) % s = (i + 1) % s
<1>1. (i + 1) % l = IF i + 1 = l THEN 0 ELSE i + 1
  BY NextIndex
<1>2. 0 = s * 0 + 0 /\ 0 \in 0..(s - 1) /\ 0 \in Int
  OBVIOUS
<1>3. 0 % s = 0
  BY <1>2, ModIs
<1>4. CASE i + 1 = l
  BY <1>1, <1>3, <1>4
<1>5. CASE i + 1 # l
  BY <1>1, <1>5
<1> QED
  BY <1>4, <1>5

LEMMA FarPlace ==
  ASSUME NEW s \in Nat \ {0}, NEW l \in Nat \ {0}, l % s = 0, NEW i \in 0..(l - 1), NEW j \in 0..(l - 1)
  PROVE  (i + Far(i, j, l)) % s = j % s
<1>1. Far(i, j, l) = IF i =< j THEN j - i ELSE (j + l) - i
  BY FarIs
<1>2. CASE i =< j
  <2>1. i + Far(i, j, l) = j
    BY <1>1, <1>2
  <2> QED
    BY <2>1
<1>3. CASE ~(i =< j)
  <2>1. i + Far(i, j, l) = l + j
    BY <1>1, <1>3
  <2>2. ((l % s) + j) % s = (l + j) % s
    <3>1. l \in Int /\ j \in Int
      OBVIOUS
    <3> QED
      BY <3>1, ModSum
  <2>3. 0 + j = j
    OBVIOUS
  <2> QED
    BY <2>1, <2>2, <2>3
<1> QED
  BY <1>2, <1>3

-----------------------------------------------------------------------------
(* Sequences in which nothing occurs twice.                                *)

Members(v) == {v[k] : k \in 1..Len(v)}

Once(v) == \A j, k \in 1..Len(v) : v[j] = v[k] => j = k

LEMMA AppendOnce ==
  ASSUME NEW X, NEW v \in Seq(X), NEW d \in X
  PROVE  /\ Longer(v, d) \in Seq(X) /\ Len(Longer(v, d)) = Len(v) + 1
         /\ Members(Longer(v, d)) = Members(v) \cup {d}
         /\ Once(v) /\ d \notin Members(v) => Once(Longer(v, d))
<1> DEFINE w == Longer(v, d)
<1>1. /\ w \in Seq(X) /\ Len(w) = Len(v) + 1 /\ w[Len(v) + 1] = d /\ (\A k \in 1..Len(v) : w[k] = v[k])
      /\ Len(v) \in Nat
  BY AppendProperties, LenProperties DEF Longer
<1> HIDE DEF w
<1>2. Members(w) = Members(v) \cup {d}
  BY <1>1 DEF Members
<1>3. ASSUME Once(v), d \notin Members(v) PROVE Once(w)
  BY <1>1, <1>3 DEF Members, Once
<1> QED
  BY <1>1, <1>2, <1>3 DEF w

LEMMA TailOnce ==
  ASSUME NEW X, NEW v \in Seq(X), Len(v) # 0, Once(v)
  PROVE  /\ Head(v) \in X /\ Head(v) \in Members(v)
         /\ Tail(v) \in Seq(X) /\ Len(Tail(v)) = Len(v) - 1
         /\ Once(Tail(v)) /\ Members(Tail(v)) = Members(v) \ {Head(v)}
<1> DEFINE w == Tail(v)
           h == Head(v)
<1>1. /\ w \in Seq(X) /\ Len(w) = Len(v) - 1 /\ h = v[1] /\ h \in X
      /\ (\A k \in 1..(Len(v) - 1) : w[k] = v[k + 1]) /\ Len(v) \in Nat
  BY HeadTailProperties, LenProperties
<1> HIDE DEF w, h
<1>2. h \in Members(v)
  BY <1>1 DEF Members
<1>3. Once(w)
  <2> SUFFICES ASSUME NEW j \in 1..Len(w), NEW k \in 1..Len(w), w[j] = w[k] PROVE j = k
    BY DEF Once
  <2>1. v[j + 1] = v[k + 1] /\ j + 1 \in 1..Len(v) /\ k + 1 \in 1..Len(v)
    BY <1>1
  <2>2. j + 1 = k + 1
    BY <2>1 DEF Once
  <2> QED
    BY <2>2, <1>1
<1>4. Members(w) \subseteq Members(v) \ {h}
  <2> SUFFICES ASSUME NEW k \in 1..Len(w) PROVE w[k] \in Members(v) \ {h}
    BY DEF Members
  <2>1. w[k] = v[k + 1] /\ k + 1 \in 1..Len(v) /\ k + 1 # 1 /\ 1 \in 1..Len(v)
    BY <1>1
  <2>2. v[k + 1] # v[1]
    BY <2>1 DEF Once
  <2> QED
    BY <2>1, <2>2, <1>1 DEF Members
<1>5. Members(v) \ {h} \subseteq Members(w)
  <2> SUFFICES ASSUME NEW k \in 1..Len(v), v[k] # h PROVE v[k] \in Members(w)
    BY DEF Members
  <2>1. k # 1
    BY <1>1
  <2>2. k - 1 \in 1..Len(w) /\ w[k - 1] = v[(k - 1) + 1] /\ (k - 1) + 1 = k
    BY <1>1, <2>1
  <2> QED
    BY <2>2 DEF Members
<1> QED
  BY <1>1, <1>2, <1>3, <1>4, <1>5 DEF w, h

\* Some number below n is missing: there is room for it.
LEMMA OnceHasRoom ==
  ASSUME NEW n \in Nat, NEW v \in Seq(0..(n - 1)), Once(v), NEW d \in 0..(n - 1), d \notin Members(v)
  PROVE  Len(v) < n
<1>1. Len(v) \in Nat /\ v \in [1..Len(v) -> 0..(n - 1)]
  BY LenProperties
<1>2. SUFFICES ASSUME ~(Len(v) < n) PROVE FALSE
  OBVIOUS
<1> DEFINE S == 1..Len(v)
           T == (0..(n - 1)) \ {d}
<1>3. IsFiniteSet(S) /\ Cardinality(S) = Len(v)
  <2>1. 1 \in Int /\ Len(v) \in Int
    BY <1>1
  <2>2. IsFiniteSet(S) /\ Cardinality(S) = IF 1 > Len(v) THEN 0 ELSE Len(v) - 1 + 1
    BY <2>1, FS_Interval
  <2> QED
    BY <1>1, <2>2
<1>4. IsFiniteSet(0..(n - 1)) /\ Cardinality(0..(n - 1)) = n
  BY FS_Interval
<1>5. IsFiniteSet(T) /\ Cardinality(T) = n - 1
  BY <1>4, FS_RemoveElement
<1>6. v \in [S -> T]
  BY <1>1 DEF Members
<1>7. Cardinality(T) < Cardinality(S)
  BY <1>1, <1>2, <1>3, <1>5
<1> HIDE DEF S, T
<1>8. \E x, y \in S : x # y /\ v[x] = v[y]
  BY <1>3, <1>5, <1>6, <1>7, FS_PigeonHole
<1> QED
  BY <1>8 DEF Once, S

Idx == 0..(IndexLimit - 1)
Descriptors == 0..(QueueSize - 1)

Virtqueue ==
  [avail : [Descriptors -> Descriptors], avail_idx : Idx, taken : Idx,
   used : [Descriptors -> Descriptors], used_idx : Idx, last : Idx, buffer : [Descriptors -> Nat]]

\* What the rings of a queue hold: for the device, and for the driver.
Given(q) == View(q.avail, q.taken, Far(q.taken, q.avail_idx, IndexLimit), QueueSize)
Back(q) == View(q.used, q.last, Far(q.last, q.used_idx, IndexLimit), QueueSize)

LEMMA VirtioConstants ==
  ASSUME Virtio!VirtioAssumption
  PROVE  /\ QueueSize \in Nat \ {0} /\ IndexLimit \in Nat \ {0} /\ QueueSize < IndexLimit /\ IndexLimit % QueueSize = 0
         /\ Candidates \in Nat /\ MaxFrames \in Nat /\ MaxSends \in Nat
BY DEF Virtio!VirtioAssumption

LEMMA RingsAreSeqs ==
  ASSUME Virtio!VirtioAssumption, NEW q \in Virtqueue
  PROVE  /\ Given(q) \in Seq(Descriptors) /\ Len(Given(q)) = Far(q.taken, q.avail_idx, IndexLimit)
         /\ Back(q) \in Seq(Descriptors) /\ Len(Back(q)) = Far(q.last, q.used_idx, IndexLimit)
         /\ Len(Given(q)) \in Nat /\ Len(Back(q)) \in Nat
         /\ (Len(Given(q)) = 0 <=> q.taken = q.avail_idx)
         /\ (Len(Back(q)) = 0 <=> q.last = q.used_idx)
<1> DEFINE n == Far(q.taken, q.avail_idx, IndexLimit)
           m == Far(q.last, q.used_idx, IndexLimit)
<1>1. /\ q.taken \in Idx /\ q.avail_idx \in Idx /\ q.last \in Idx /\ q.used_idx \in Idx
      /\ q.avail \in [Descriptors -> Descriptors] /\ q.used \in [Descriptors -> Descriptors]
  BY DEF Virtqueue
<1>2. QueueSize \in Nat \ {0} /\ IndexLimit \in Nat \ {0}
  BY VirtioConstants
<1>3. n \in 0..(IndexLimit - 1) /\ m \in 0..(IndexLimit - 1)
  BY <1>1, <1>2, FarIs DEF Idx
<1>4. (n = 0 <=> q.taken = q.avail_idx) /\ (m = 0 <=> q.last = q.used_idx)
  BY <1>1, <1>2, FarZero DEF Idx
<1> HIDE DEF n, m
<1>5. n \in Nat /\ m \in Nat /\ q.taken \in Nat /\ q.last \in Nat
  BY <1>1, <1>2, <1>3 DEF Idx
<1>0. q.avail \in [0..(QueueSize - 1) -> Descriptors] /\ q.used \in [0..(QueueSize - 1) -> Descriptors]
  BY <1>1 DEF Descriptors
<1>6. View(q.avail, q.taken, n, QueueSize) \in Seq(Descriptors) /\ Len(View(q.avail, q.taken, n, QueueSize)) = n
  BY <1>0, <1>2, <1>5, ViewIsSeq
<1>7. View(q.used, q.last, m, QueueSize) \in Seq(Descriptors) /\ Len(View(q.used, q.last, m, QueueSize)) = m
  BY <1>0, <1>2, <1>5, ViewIsSeq
<1> QED
  BY <1>4, <1>5, <1>6, <1>7 DEF n, m, Given, Back

Pushes(ring, i, n, s, d) == View(Put(ring, (i + n) % s, d), i, n + 1, s) = Longer(View(ring, i, n, s), d)

LEMMA ViewPushes ==
  ASSUME NEW s \in Nat \ {0}, NEW i \in Nat, NEW n \in 0..(s - 1), NEW X, NEW ring \in [0..(s - 1) -> X],
         NEW d \in X
  PROVE  Pushes(ring, i, n, s, d)
BY ViewPush DEF Pushes

\* A ring of the queue: what is put in at index j comes last.
LEMMA PutIn ==
  ASSUME Virtio!VirtioAssumption, NEW ring \in [Descriptors -> Descriptors], NEW i \in Idx, NEW j \in Idx,
         NEW d \in Descriptors, Far(i, j, IndexLimit) < QueueSize
  PROVE  View(Put(ring, j % QueueSize, d), i, Far(i, Virtio!Up(j), IndexLimit), QueueSize)
           = Longer(View(ring, i, Far(i, j, IndexLimit), QueueSize), d)
<1> DEFINE n == Far(i, j, IndexLimit)
<1>1. /\ QueueSize \in Nat \ {0} /\ IndexLimit \in Nat \ {0} /\ QueueSize < IndexLimit /\ IndexLimit % QueueSize = 0
      /\ i \in Nat /\ i \in 0..(IndexLimit - 1) /\ j \in 0..(IndexLimit - 1)
  BY VirtioConstants DEF Idx
<1>2. n \in 0..(QueueSize - 1) /\ n < IndexLimit - 1
  BY <1>1, FarIs
<1>3. Far(i, (j + 1) % IndexLimit, IndexLimit) = n + 1
  BY <1>1, <1>2, FarNext
<1>4. (i + n) % QueueSize = j % QueueSize
  BY <1>1, FarPlace
<1> HIDE DEF n
<1>9. QueueSize \in Nat \ {0} /\ i \in Nat
  BY <1>1
<1>0. ring \in [0..(QueueSize - 1) -> Descriptors]
  BY DEF Descriptors
<1>8. n \in 0..(QueueSize - 1)
  BY <1>2
<1>7. Pushes(ring, i, n, QueueSize, d)
  BY <1>0, <1>8, <1>9, ViewPushes, Zenon
<1>5. View(Put(ring, (i + n) % QueueSize, d), i, n + 1, QueueSize) = Longer(View(ring, i, n, QueueSize), d)
  BY <1>7 DEF Pushes
<1> QED
  BY <1>3, <1>4, <1>5 DEF n, Virtio!Up

\* What is taken out at index i is the first.
LEMMA TakeOut ==
  ASSUME Virtio!VirtioAssumption, NEW ring \in [Descriptors -> Descriptors], NEW i \in Idx, NEW j \in Idx, i # j
  PROVE  /\ Head(View(ring, i, Far(i, j, IndexLimit), QueueSize)) = ring[i % QueueSize]
         /\ View(ring, Virtio!Up(i), Far(Virtio!Up(i), j, IndexLimit), QueueSize)
              = Tail(View(ring, i, Far(i, j, IndexLimit), QueueSize))
<1> DEFINE n == Far(i, j, IndexLimit)
           u == (i + 1) % IndexLimit
<1>1. /\ QueueSize \in Nat \ {0} /\ IndexLimit \in Nat \ {0} /\ IndexLimit % QueueSize = 0
      /\ i \in Nat /\ i + 1 \in Nat /\ i \in 0..(IndexLimit - 1) /\ j \in 0..(IndexLimit - 1)
  BY VirtioConstants DEF Idx
<1>2. Far(u, j, IndexLimit) = n - 1 /\ n \in Nat \ {0}
  BY <1>1, FarLess
<1>9. QueueSize \in Nat \ {0} /\ i \in Nat
  BY <1>1
<1>0. ring \in [0..(QueueSize - 1) -> Descriptors]
  BY DEF Descriptors
<1>3. u % QueueSize = (i + 1) % QueueSize
  BY <1>1, NextPlace
<1>4. u \in Nat
  BY <1>1, NextIndex
<1> HIDE DEF n, u
<1>8. n - 1 \in Nat
  BY <1>2
<1>5. View(ring, u, n - 1, QueueSize) = View(ring, i + 1, n - 1, QueueSize)
  BY <1>1, <1>3, <1>4, <1>8, ViewFrom
<1>6. /\ Head(View(ring, i, n, QueueSize)) = ring[i % QueueSize]
      /\ View(ring, i + 1, n - 1, QueueSize) = Tail(View(ring, i, n, QueueSize))
  BY <1>0, <1>2, <1>9, ViewPop
<1>7. Virtio!Up(i) = u
  BY DEF Virtio!Up, u
<1> QED
  BY <1>2, <1>5, <1>6, <1>7 DEF n

LEMMA UpIsIndex ==
  ASSUME Virtio!VirtioAssumption, NEW i \in Idx PROVE Virtio!Up(i) \in Idx
BY VirtioConstants, NextIndex DEF Virtio!Up, Idx

LEMMA PlaceIsDescriptor ==
  ASSUME Virtio!VirtioAssumption, NEW i \in Idx PROVE i % QueueSize \in Descriptors
<1>1. QueueSize \in Nat \ {0} /\ i \in Int
  BY VirtioConstants DEF Idx
<1> QED
  BY <1>1, PlaceIn DEF Descriptors

\* The steps of a queue: the driver gives a descriptor, the device takes it, gives it
\* back, and the driver takes it back.
LEMMA QueueGive ==
  ASSUME Virtio!VirtioAssumption, NEW q \in Virtqueue, NEW d \in Descriptors, Len(Given(q)) < QueueSize
  PROVE  LET r == Virtio!Recycled(q, d) IN
         /\ r \in Virtqueue /\ Given(r) = Longer(Given(q), d) /\ Back(r) = Back(q) /\ r.buffer = q.buffer
<1> DEFINE r == Virtio!Recycled(q, d)
<1>1. /\ q.taken \in Idx /\ q.avail_idx \in Idx /\ q.avail \in [Descriptors -> Descriptors]
      /\ q.avail_idx % QueueSize \in Descriptors /\ Virtio!Up(q.avail_idx) \in Idx
  BY UpIsIndex, PlaceIsDescriptor DEF Virtqueue
<1>2. /\ r \in Virtqueue /\ r.taken = q.taken /\ r.used = q.used /\ r.used_idx = q.used_idx /\ r.last = q.last
      /\ r.buffer = q.buffer /\ r.avail = Put(q.avail, q.avail_idx % QueueSize, d)
      /\ r.avail_idx = Virtio!Up(q.avail_idx)
  BY <1>1 DEF Virtio!Recycled, Virtqueue, Put
<1>3. Far(q.taken, q.avail_idx, IndexLimit) < QueueSize
  BY RingsAreSeqs
<1> HIDE DEF r
<1>4. Given(r) = Longer(Given(q), d)
  BY <1>1, <1>2, <1>3, PutIn DEF Given
<1>5. Back(r) = Back(q)
  BY <1>2 DEF Back
<1> QED
  BY <1>2, <1>4, <1>5 DEF r

LEMMA QueueTake ==
  ASSUME Virtio!VirtioAssumption, NEW q \in Virtqueue, q.taken # q.avail_idx
  PROVE  LET r == [q EXCEPT !.taken = Virtio!Up(@)] IN
         /\ r \in Virtqueue /\ Given(r) = Tail(Given(q)) /\ Back(r) = Back(q) /\ r.buffer = q.buffer
         /\ q.avail[q.taken % QueueSize] = Head(Given(q)) /\ r.used = q.used /\ r.used_idx = q.used_idx
<1> DEFINE r == [q EXCEPT !.taken = Virtio!Up(@)]
<1>1. q.taken \in Idx /\ q.avail_idx \in Idx /\ q.avail \in [Descriptors -> Descriptors] /\ Virtio!Up(q.taken) \in Idx
  BY UpIsIndex DEF Virtqueue
<1>2. /\ r \in Virtqueue /\ r.avail = q.avail /\ r.used = q.used /\ r.used_idx = q.used_idx /\ r.last = q.last
      /\ r.buffer = q.buffer /\ r.avail_idx = q.avail_idx /\ r.taken = Virtio!Up(q.taken)
  BY <1>1 DEF Virtqueue
<1> HIDE DEF r
<1>3. Given(r) = Tail(Given(q)) /\ q.avail[q.taken % QueueSize] = Head(Given(q))
  BY <1>1, <1>2, TakeOut DEF Given
<1>4. Back(r) = Back(q)
  BY <1>2 DEF Back
<1> QED
  BY <1>2, <1>3, <1>4 DEF r

Returned(q, d) == [q EXCEPT !.used[q.used_idx % QueueSize] = d, !.used_idx = Virtio!Up(@)]

LEMMA QueueReturn ==
  ASSUME Virtio!VirtioAssumption, NEW q \in Virtqueue, NEW d \in Descriptors, Len(Back(q)) < QueueSize
  PROVE  LET r == Returned(q, d) IN
         /\ r \in Virtqueue /\ Back(r) = Longer(Back(q), d) /\ Given(r) = Given(q) /\ r.buffer = q.buffer
         /\ r.last = q.last
<1> DEFINE r == Returned(q, d)
<1>1. /\ q.last \in Idx /\ q.used_idx \in Idx /\ q.used \in [Descriptors -> Descriptors]
      /\ q.used_idx % QueueSize \in Descriptors /\ Virtio!Up(q.used_idx) \in Idx
  BY UpIsIndex, PlaceIsDescriptor DEF Virtqueue
<1>2. /\ r \in Virtqueue /\ r.taken = q.taken /\ r.avail = q.avail /\ r.avail_idx = q.avail_idx /\ r.last = q.last
      /\ r.buffer = q.buffer /\ r.used = Put(q.used, q.used_idx % QueueSize, d)
      /\ r.used_idx = Virtio!Up(q.used_idx)
  BY <1>1 DEF Returned, Virtqueue, Put
<1>3. Far(q.last, q.used_idx, IndexLimit) < QueueSize
  BY RingsAreSeqs
<1> HIDE DEF r
<1>4. Back(r) = Longer(Back(q), d)
  BY <1>1, <1>2, <1>3, PutIn DEF Back
<1>5. Given(r) = Given(q)
  BY <1>2 DEF Given
<1> QED
  BY <1>2, <1>4, <1>5 DEF r

LEMMA QueueTakeBack ==
  ASSUME Virtio!VirtioAssumption, NEW q \in Virtqueue, q.last # q.used_idx
  PROVE  LET r == [q EXCEPT !.last = Virtio!Up(@)] IN
         /\ r \in Virtqueue /\ Back(r) = Tail(Back(q)) /\ Given(r) = Given(q) /\ r.buffer = q.buffer
         /\ q.used[q.last % QueueSize] = Head(Back(q))
<1> DEFINE r == [q EXCEPT !.last = Virtio!Up(@)]
<1>1. q.last \in Idx /\ q.used_idx \in Idx /\ q.used \in [Descriptors -> Descriptors] /\ Virtio!Up(q.last) \in Idx
  BY UpIsIndex DEF Virtqueue
<1>2. /\ r \in Virtqueue /\ r.avail = q.avail /\ r.used = q.used /\ r.used_idx = q.used_idx /\ r.taken = q.taken
      /\ r.buffer = q.buffer /\ r.avail_idx = q.avail_idx /\ r.last = Virtio!Up(q.last)
  BY <1>1 DEF Virtqueue
<1> HIDE DEF r
<1>3. Back(r) = Tail(Back(q)) /\ q.used[q.last % QueueSize] = Head(Back(q))
  BY <1>1, <1>2, TakeOut DEF Back
<1>4. Given(r) = Given(q)
  BY <1>2 DEF Given
<1> QED
  BY <1>2, <1>3, <1>4 DEF r

\* A buffer of the queue is written.
LEMMA QueueFill ==
  ASSUME NEW q \in Virtqueue, NEW d \in Descriptors, NEW f \in Nat
  PROVE  LET r == [q EXCEPT !.buffer[d] = f] IN
         /\ r \in Virtqueue /\ Back(r) = Back(q) /\ Given(r) = Given(q) /\ r.buffer = [q.buffer EXCEPT ![d] = f]
<1> DEFINE r == [q EXCEPT !.buffer[d] = f]
<1>1. /\ r \in Virtqueue /\ r.avail = q.avail /\ r.used = q.used /\ r.used_idx = q.used_idx /\ r.taken = q.taken
      /\ r.buffer = [q.buffer EXCEPT ![d] = f] /\ r.avail_idx = q.avail_idx /\ r.last = q.last
  BY DEF Virtqueue
<1> HIDE DEF r
<1> QED
  BY <1>1 DEF Back, Given, r

\* Setting up: the queues are empty and nobody uses them until a device works.
SetupInv ==
  /\ at \in {"probe", "features", "queues", "online", "none"} /\ cur \in 1..(Candidates + 1)
  /\ at \in {"features", "queues"} => cur =< Candidates
  /\ status \subseteq {"acknowledge", "driver", "features_ok", "driver_ok", "failed"}
  /\ at # "online" =>
       "driver_ok" \notin status /\ worker = "idle" /\ sending = "idle" /\ Back(rx) = <<>> /\ Given(tx) = <<>>

Flags == has_mac \in BOOLEAN /\ polled \in BOOLEAN

Apart(q) ==
  /\ q \in Virtqueue /\ Once(Given(q)) /\ Once(Back(q))
  /\ Members(Given(q)) \cap Members(Back(q)) = {}

\* Every descriptor of the receive queue is in one of its rings, once.
RxInv ==
  /\ Apart(rx)
  /\ at = "online" =>
       /\ Members(Given(rx)) \cup Members(Back(rx)) = Descriptors
       /\ Len(Given(rx)) + Len(Back(rx)) = QueueSize

\* What is in a ring of the transmit queue is marked.
TxInv ==
  /\ Apart(tx) /\ in_use \in [Descriptors -> BOOLEAN]
  /\ \A d \in Members(Given(tx)) \cup Members(Back(tx)) : in_use[d]

Reapers == {"worker", "sender"}

ThreadInv ==
  /\ worker \in {"idle", "rx", "tx"} /\ sending \in {"idle", "reap", "choose"}
  /\ reap \in [Reapers -> {"none", "look", "bump", "clear"}]
  /\ index \in [Reapers -> Idx] /\ elem \in [Reapers -> Descriptors]
  /\ worker = "idle" \/ sending = "idle"
  /\ worker = "tx" <=> reap["worker"] # "none"
  /\ sending = "reap" <=> reap["sender"] # "none"

\* What the thread that reaps has read still holds.
ReapInv ==
  \A t \in Reapers :
    /\ reap[t] = "bump" => index[t] = tx.last /\ tx.last # tx.used_idx /\ elem[t] = Head(Back(tx))
    /\ reap[t] = "clear" => in_use[elem[t]] /\ elem[t] \notin Members(Given(tx)) \cup Members(Back(tx))

CountInv ==
  /\ arrived \in 0..MaxFrames /\ accepted \in Seq(Nat) /\ Len(accepted) =< MaxSends
  /\ sending # "idle" => Len(accepted) < MaxSends

VirtioInv == SetupInv /\ Flags /\ RxInv /\ TxInv /\ ThreadInv /\ ReapInv /\ CountInv

-----------------------------------------------------------------------------
LEMMA EmptyQueue ==
  ASSUME Virtio!VirtioAssumption
  PROVE  /\ Virtio!Empty \in Virtqueue /\ Given(Virtio!Empty) = <<>> /\ Back(Virtio!Empty) = <<>>
         /\ Apart(Virtio!Empty) /\ Members(<<>>) = {}
<1> DEFINE q == Virtio!Empty
<1>1. /\ QueueSize \in Nat \ {0} /\ IndexLimit \in Nat \ {0} /\ 0 \in Idx /\ 0 \in Descriptors
  BY VirtioConstants DEF Idx, Descriptors
<1>2. q \in Virtqueue /\ q.taken = 0 /\ q.avail_idx = 0 /\ q.last = 0 /\ q.used_idx = 0
  BY <1>1 DEF Virtio!Empty, Virtio!Ids, Virtqueue, Descriptors
<1> HIDE DEF q
<1>3. /\ Given(q) \in Seq(Descriptors) /\ Back(q) \in Seq(Descriptors) /\ Len(Given(q)) = 0 /\ Len(Back(q)) = 0
  BY <1>2, RingsAreSeqs
<1>4. Given(q) = <<>> /\ Back(q) = <<>>
  BY <1>3, EmptySeq
<1>5. Once(<<>>) /\ Members(<<>>) = {}
  BY DEF Once, Members
<1> QED
  BY <1>2, <1>4, <1>5 DEF Apart, q

LEMMA VirtioInit ==
  ASSUME Virtio!VirtioAssumption, Virtio!Init PROVE VirtioInv
<1>1. /\ QueueSize \in Nat \ {0} /\ IndexLimit \in Nat \ {0} /\ 0 \in Idx /\ 0 \in Descriptors
      /\ Candidates \in Nat /\ MaxFrames \in Nat /\ MaxSends \in Nat
  BY VirtioConstants DEF Idx, Descriptors
<1>2. SetupInv
  <2>1. Back(rx) = <<>> /\ Given(tx) = <<>>
    BY EmptyQueue DEF Virtio!Init
  <2> QED
    BY <1>1, <2>1 DEF Virtio!Init, SetupInv
<1>3. RxInv
  BY EmptyQueue DEF Virtio!Init, RxInv
<1>4. TxInv
  BY EmptyQueue DEF Virtio!Init, TxInv, Virtio!Ids, Descriptors
<1>5. ThreadInv
  BY <1>1 DEF Virtio!Init, ThreadInv, Virtio!Threads, Reapers
<1>6. ReapInv
  BY DEF Virtio!Init, ReapInv, Virtio!Threads, Reapers
<1>7. CountInv
  BY <1>1 DEF Virtio!Init, CountInv
<1>8. Flags
  BY Zenon DEF Virtio!Init, Flags
<1> QED
  BY <1>2, <1>3, <1>4, <1>5, <1>6, <1>7, <1>8 DEF VirtioInv

\* Before a device works.
LEMMA VirtioSetup ==
  ASSUME Virtio!VirtioAssumption, VirtioInv, Virtio!Probe \/ Virtio!Features
  PROVE  VirtioInv'
<1>1. /\ UNCHANGED <<rx, tx, in_use>> /\ UNCHANGED <<worker, sending, reap, index, elem>>
      /\ UNCHANGED <<arrived, accepted>> /\ UNCHANGED <<polled>> /\ at # "online" /\ at' # "online"
  BY DEF Virtio!Probe, Virtio!Features, Virtio!FailDevice, Virtio!queueVars, Virtio!threadVars, Virtio!historyVars
<1>2. Candidates \in Nat
  BY VirtioConstants
<1>3. SetupInv'
  <2>1. /\ Back(rx') = <<>> /\ Given(tx') = <<>> /\ worker' = "idle" /\ sending' = "idle"
    BY <1>1 DEF VirtioInv, SetupInv
  <2>4. /\ at' \in {"probe", "features", "queues", "none"} /\ cur' \in 1..(Candidates + 1)
        /\ at' \in {"features", "queues"} => cur' =< Candidates
    <3>1. CASE Virtio!Probe
      BY <1>2, <3>1 DEF VirtioInv, SetupInv, Virtio!Probe
    <3>2. CASE Virtio!Features
      BY <1>2, <3>2 DEF VirtioInv, SetupInv, Virtio!Features, Virtio!FailDevice
    <3> QED
      BY <3>1, <3>2
  <2>5. /\ status' \subseteq {"acknowledge", "driver", "features_ok", "driver_ok", "failed"}
        /\ "driver_ok" \notin status'
    <3>1. \/ status' = status \/ status' = {"acknowledge", "driver"}
          \/ status' = status \cup {"failed"} \/ status' = status \cup {"features_ok"}
      BY DEF Virtio!Probe, Virtio!Features, Virtio!FailDevice
    <3>2. status \subseteq {"acknowledge", "driver", "features_ok", "driver_ok", "failed"} /\ "driver_ok" \notin status
      BY <1>1 DEF VirtioInv, SetupInv
    <3> QED
      BY <3>1, <3>2
  <2>6. Back(rx)' = <<>> /\ Given(tx)' = <<>>
    BY <2>1 DEF Back, Given
  <2> QED
    BY <2>1, <2>4, <2>5, <2>6 DEF SetupInv
<1>4. RxInv' /\ TxInv'
  BY <1>1 DEF VirtioInv, RxInv, TxInv
<1>5. ThreadInv' /\ ReapInv' /\ CountInv'
  BY <1>1 DEF VirtioInv, ThreadInv, ReapInv, CountInv
<1>6. Flags'
  BY Zenon DEF VirtioInv, Flags, Virtio!Probe, Virtio!Features
<1> QED
  BY <1>3, <1>4, <1>5, <1>6 DEF VirtioInv

\* All descriptors of the receive queue are the device's.
LEMMA AllSubmitted ==
  ASSUME Virtio!VirtioAssumption
  PROVE  /\ Apart(Virtio!Submitted) /\ Back(Virtio!Submitted) = <<>>
         /\ Members(Given(Virtio!Submitted)) = Descriptors /\ Len(Given(Virtio!Submitted)) = QueueSize
<1> DEFINE q == Virtio!Submitted
           v == Given(q)
<1>1. /\ QueueSize \in Nat \ {0} /\ IndexLimit \in Nat \ {0} /\ 0 \in Idx /\ 0 \in Descriptors
      /\ QueueSize < IndexLimit
  BY VirtioConstants DEF Idx, Descriptors
<1>2. QueueSize % IndexLimit = QueueSize
  <2>1. QueueSize = IndexLimit * 0 + QueueSize /\ QueueSize \in 0..(IndexLimit - 1) /\ QueueSize \in Int /\ 0 \in Int
    BY <1>1
  <2> QED
    BY <1>1, <2>1, ModIs
<1>3. QueueSize \in Idx
  BY <1>1 DEF Idx
<1>4. /\ q \in Virtqueue /\ q.taken = 0 /\ q.avail_idx = QueueSize /\ q.last = 0 /\ q.used_idx = 0
      /\ q.avail = [i \in Descriptors |-> i]
  BY <1>1, <1>2, <1>3 DEF Virtio!Submitted, Virtio!Empty, Virtio!Ids, Virtqueue, Descriptors
<1> HIDE DEF q
<1>5. Far(0, QueueSize, IndexLimit) = QueueSize
  BY <1>1, <1>3, FarIs DEF Idx
<1>6. \A k \in 1..QueueSize : q.avail[(0 + (k - 1)) % QueueSize] = k - 1
  <2> TAKE k \in 1..QueueSize
  <2>1. 0 + (k - 1) = QueueSize * 0 + (k - 1) /\ k - 1 \in 0..(QueueSize - 1) /\ 0 + (k - 1) \in Int /\ 0 \in Int
    BY <1>1
  <2>2. (0 + (k - 1)) % QueueSize = k - 1
    BY <1>1, <2>1, ModIs
  <2> QED
    BY <1>4, <2>1, <2>2 DEF Descriptors
<1>7. v = [k \in 1..QueueSize |-> k - 1]
  BY <1>4, <1>5, <1>6 DEF Given, View
<1>8. Back(q) \in Seq(Descriptors) /\ Len(Back(q)) = 0
  BY <1>4, RingsAreSeqs
<1>9. Back(q) = <<>>
  BY <1>8, EmptySeq
<1> HIDE DEF v
<1>10. Len(v) = QueueSize
  BY <1>1, <1>7
<1>11. Once(v)
  <2>1. \A k \in 1..Len(v) : v[k] = k - 1
    BY <1>7, <1>10
  <2> QED
    BY <1>1, <1>10, <2>1 DEF Once
<1>12. Members(v) = Descriptors
  <2>1. Members(v) \subseteq Descriptors
    BY <1>1, <1>7, <1>10 DEF Members, Descriptors
  <2>2. ASSUME NEW d \in Descriptors PROVE d \in Members(v)
    <3>1. d + 1 \in 1..QueueSize /\ v[d + 1] = d
      BY <1>1, <1>7 DEF Descriptors
    <3> QED
      BY <1>10, <3>1 DEF Members
  <2> QED
    BY <2>1, <2>2
<1>13. Once(<<>>) /\ Members(<<>>) = {}
  BY DEF Once, Members
<1> QED
  BY <1>4, <1>9, <1>10, <1>11, <1>12, <1>13 DEF Apart, q, v

LEMMA VirtioQueues ==
  ASSUME Virtio!VirtioAssumption, VirtioInv, Virtio!Queues
  PROVE  VirtioInv'
<1>1. /\ UNCHANGED <<worker, sending, reap, index, elem>> /\ UNCHANGED <<arrived, accepted>>
      /\ UNCHANGED <<has_mac>> /\ at = "queues"
  BY DEF Virtio!Queues, Virtio!threadVars, Virtio!historyVars
<1>2. Candidates \in Nat
  BY VirtioConstants
<1>3. worker = "idle" /\ sending = "idle" /\ \A t \in Reapers : reap[t] = "none"
  BY <1>1 DEF VirtioInv, SetupInv, ThreadInv, Reapers
<1>4. ThreadInv' /\ ReapInv' /\ CountInv'
  BY <1>1, <1>3 DEF VirtioInv, ThreadInv, ReapInv, CountInv
<1>7. Flags'
  BY Zenon DEF VirtioInv, Flags, Virtio!Queues
<1>5. CASE Virtio!FailDevice /\ UNCHANGED <<polled, Virtio!queueVars>>
  <2>1. UNCHANGED <<rx, tx, in_use>> /\ UNCHANGED <<polled>>
    BY <1>5 DEF Virtio!queueVars
  <2>2. SetupInv'
    BY <1>1, <1>2, <1>3, <1>5, <2>1 DEF VirtioInv, SetupInv, Virtio!FailDevice
  <2>3. RxInv' /\ TxInv'
    BY <1>1, <1>5, <2>1 DEF VirtioInv, RxInv, TxInv, Virtio!FailDevice
  <2> QED
    BY <1>4, <1>7, <2>2, <2>3 DEF VirtioInv
<1>6. CASE /\ at' = "online" /\ status' = status \cup {"driver_ok"} /\ polled' \in BOOLEAN
           /\ rx' = Virtio!Submitted /\ tx' = Virtio!Empty /\ in_use' = [i \in Virtio!Ids |-> FALSE]
           /\ UNCHANGED cur
  <2>1. SetupInv'
    BY <1>1, <1>6 DEF VirtioInv, SetupInv
  <2>2. RxInv'
    <3>1. RxInv' <=> (/\ Apart(rx')
                      /\ at' = "online" =>
                          /\ Members(Given(rx')) \cup Members(Back(rx')) = Descriptors
                          /\ Len(Given(rx')) + Len(Back(rx')) = QueueSize)
      BY DEF RxInv, Apart, Given, Back
    <3>2. Members(<<>>) = {} /\ Len(<<>>) = 0 /\ QueueSize \in Nat
      BY EmptyQueue, VirtioConstants
    <3> QED
      BY <1>6, <3>1, <3>2, AllSubmitted
  <2>3. TxInv'
    <3>1. TxInv' <=> (/\ Apart(tx') /\ in_use' \in [Descriptors -> BOOLEAN]
                      /\ \A d \in Members(Given(tx')) \cup Members(Back(tx')) : in_use'[d])
      BY DEF TxInv, Apart, Given, Back
    <3>2. in_use' \in [Descriptors -> BOOLEAN]
      BY <1>6 DEF Virtio!Ids, Descriptors
    <3> QED
      BY <1>6, <3>1, <3>2, EmptyQueue
  <2> QED
    BY <1>4, <1>7, <2>1, <2>2, <2>3 DEF VirtioInv
<1> QED
  BY <1>5, <1>6 DEF Virtio!Queues

\* The same steps, for what is in the rings.
LEMMA ApartIs ==
  ASSUME NEW q, Apart(q)
  PROVE  q \in Virtqueue /\ Once(Given(q)) /\ Once(Back(q)) /\ Members(Given(q)) \cap Members(Back(q)) = {}
BY DEF Apart

LEMMA GiveApart ==
  ASSUME Virtio!VirtioAssumption, NEW q, Apart(q), NEW d \in Descriptors,
         d \notin Members(Given(q)), d \notin Members(Back(q))
  PROVE  LET r == Virtio!Recycled(q, d) IN
         /\ Apart(r) /\ Given(r) = Longer(Given(q), d) /\ Back(r) = Back(q) /\ r.buffer = q.buffer
         /\ Members(Given(r)) = Members(Given(q)) \cup {d} /\ Len(Given(r)) = Len(Given(q)) + 1
         /\ Len(Given(q)) < QueueSize
<1> DEFINE r == Virtio!Recycled(q, d)
<1>1. q \in Virtqueue /\ Once(Given(q)) /\ Once(Back(q)) /\ Members(Given(q)) \cap Members(Back(q)) = {}
  BY ApartIs
<1>2. Given(q) \in Seq(Descriptors)
  BY <1>1, RingsAreSeqs
<1>3. Len(Given(q)) < QueueSize
  BY <1>1, <1>2, OnceHasRoom, VirtioConstants DEF Descriptors
<1>4. /\ r \in Virtqueue /\ Given(r) = Longer(Given(q), d) /\ Back(r) = Back(q) /\ r.buffer = q.buffer
  BY <1>1, <1>3, QueueGive
<1> HIDE DEF r
<1>5. /\ Members(Given(r)) = Members(Given(q)) \cup {d} /\ Len(Given(r)) = Len(Given(q)) + 1 /\ Once(Given(r))
  <2> DEFINE v == Given(q)
  <2>1. v \in Seq(Descriptors) /\ Once(v) /\ d \notin Members(v)
    BY <1>1, <1>2
  <2> HIDE DEF v
  <2>2. Len(Longer(v, d)) = Len(v) + 1 /\ Members(Longer(v, d)) = Members(v) \cup {d} /\ Once(Longer(v, d))
    BY <2>1, AppendOnce
  <2> QED
    BY <1>4, <2>2 DEF v
<1> QED
  BY <1>1, <1>3, <1>4, <1>5 DEF Apart, r

LEMMA TakeApart ==
  ASSUME Virtio!VirtioAssumption, NEW q, Apart(q), q.taken # q.avail_idx
  PROVE  LET r == [q EXCEPT !.taken = Virtio!Up(@)]
             d == q.avail[q.taken % QueueSize] IN
         /\ Apart(r) /\ Given(r) = Tail(Given(q)) /\ Back(r) = Back(q) /\ r.buffer = q.buffer
         /\ r.used = q.used /\ r.used_idx = q.used_idx
         /\ d = Head(Given(q)) /\ d \in Descriptors /\ d \in Members(Given(q)) /\ d \notin Members(Back(q))
         /\ Members(Given(r)) = Members(Given(q)) \ {d} /\ Len(Given(r)) = Len(Given(q)) - 1 /\ Len(Given(q)) # 0
<1> DEFINE r == [q EXCEPT !.taken = Virtio!Up(@)]
           d == q.avail[q.taken % QueueSize]
<1>1. q \in Virtqueue /\ Once(Given(q)) /\ Once(Back(q)) /\ Members(Given(q)) \cap Members(Back(q)) = {}
  BY ApartIs
<1>2. Given(q) \in Seq(Descriptors) /\ Len(Given(q)) # 0
  BY <1>1, RingsAreSeqs
<1>4. /\ r \in Virtqueue /\ Given(r) = Tail(Given(q)) /\ Back(r) = Back(q) /\ r.buffer = q.buffer
      /\ d = Head(Given(q)) /\ r.used = q.used /\ r.used_idx = q.used_idx
  BY <1>1, QueueTake
<1> HIDE DEF r, d
<1>5. /\ d \in Descriptors /\ d \in Members(Given(q)) /\ Once(Given(r))
      /\ Members(Given(r)) = Members(Given(q)) \ {d} /\ Len(Given(r)) = Len(Given(q)) - 1
  BY <1>1, <1>2, <1>4, TailOnce
<1> QED
  BY <1>1, <1>2, <1>4, <1>5 DEF Apart, r, d

LEMMA ReturnApart ==
  ASSUME Virtio!VirtioAssumption, NEW q, Apart(q), NEW d \in Descriptors,
         d \notin Members(Given(q)), d \notin Members(Back(q))
  PROVE  LET r == Returned(q, d) IN
         /\ Apart(r) /\ Back(r) = Longer(Back(q), d) /\ Given(r) = Given(q) /\ r.buffer = q.buffer
         /\ r.last = q.last
         /\ Members(Back(r)) = Members(Back(q)) \cup {d} /\ Len(Back(r)) = Len(Back(q)) + 1
         /\ Len(Back(q)) < QueueSize
<1> DEFINE r == Returned(q, d)
<1>1. q \in Virtqueue /\ Once(Given(q)) /\ Once(Back(q)) /\ Members(Given(q)) \cap Members(Back(q)) = {}
  BY ApartIs
<1>2. Back(q) \in Seq(Descriptors)
  BY <1>1, RingsAreSeqs
<1>3. Len(Back(q)) < QueueSize
  BY <1>1, <1>2, OnceHasRoom, VirtioConstants DEF Descriptors
<1>4. /\ r \in Virtqueue /\ Back(r) = Longer(Back(q), d) /\ Given(r) = Given(q) /\ r.buffer = q.buffer
      /\ r.last = q.last
  BY <1>1, <1>3, QueueReturn
<1> HIDE DEF r
<1>5. /\ Members(Back(r)) = Members(Back(q)) \cup {d} /\ Len(Back(r)) = Len(Back(q)) + 1 /\ Once(Back(r))
  <2> DEFINE v == Back(q)
  <2>1. v \in Seq(Descriptors) /\ Once(v) /\ d \notin Members(v)
    BY <1>1, <1>2
  <2> HIDE DEF v
  <2>2. Len(Longer(v, d)) = Len(v) + 1 /\ Members(Longer(v, d)) = Members(v) \cup {d} /\ Once(Longer(v, d))
    BY <2>1, AppendOnce
  <2> QED
    BY <1>4, <2>2 DEF v
<1> QED
  BY <1>1, <1>3, <1>4, <1>5 DEF Apart, r

LEMMA TakeBackApart ==
  ASSUME Virtio!VirtioAssumption, NEW q, Apart(q), q.last # q.used_idx
  PROVE  LET r == [q EXCEPT !.last = Virtio!Up(@)]
             d == q.used[q.last % QueueSize] IN
         /\ Apart(r) /\ Back(r) = Tail(Back(q)) /\ Given(r) = Given(q) /\ r.buffer = q.buffer
         /\ d = Head(Back(q)) /\ d \in Descriptors /\ d \in Members(Back(q)) /\ d \notin Members(Given(q))
         /\ Members(Back(r)) = Members(Back(q)) \ {d} /\ Len(Back(r)) = Len(Back(q)) - 1 /\ Len(Back(q)) # 0
<1> DEFINE r == [q EXCEPT !.last = Virtio!Up(@)]
           d == q.used[q.last % QueueSize]
<1>1. q \in Virtqueue /\ Once(Given(q)) /\ Once(Back(q)) /\ Members(Given(q)) \cap Members(Back(q)) = {}
  BY ApartIs
<1>2. Back(q) \in Seq(Descriptors) /\ Len(Back(q)) # 0
  BY <1>1, RingsAreSeqs
<1>4. /\ r \in Virtqueue /\ Back(r) = Tail(Back(q)) /\ Given(r) = Given(q) /\ r.buffer = q.buffer
      /\ d = Head(Back(q))
  BY <1>1, QueueTakeBack
<1> HIDE DEF r, d
<1>5. /\ d \in Descriptors /\ d \in Members(Back(q)) /\ Once(Back(r))
      /\ Members(Back(r)) = Members(Back(q)) \ {d} /\ Len(Back(r)) = Len(Back(q)) - 1
  BY <1>1, <1>2, <1>4, TailOnce
<1> QED
  BY <1>1, <1>2, <1>4, <1>5 DEF Apart, r, d

-----------------------------------------------------------------------------
(* The effect of each action on the queues.                                *)

LEMMA DeviceReceives ==
  ASSUME Virtio!VirtioAssumption, Apart(rx), arrived \in Nat, Virtio!Receive
  PROVE  LET d == Head(Given(rx)) IN
         /\ Apart(rx') /\ Given(rx') = Tail(Given(rx)) /\ Back(rx') = Longer(Back(rx), d)
         /\ d \in Descriptors /\ rx'.buffer = [rx.buffer EXCEPT ![d] = arrived + 1] /\ d \notin Members(Back(rx))
         /\ Members(Given(rx')) = Members(Given(rx)) \ {d} /\ d \in Members(Given(rx))
         /\ Members(Back(rx')) = Members(Back(rx)) \cup {d}
         /\ Len(Given(rx')) = Len(Given(rx)) - 1 /\ Len(Back(rx')) = Len(Back(rx)) + 1
         /\ Len(Back(rx)) < QueueSize
<1> DEFINE d == rx.avail[rx.taken % QueueSize]
           q == [rx EXCEPT !.taken = Virtio!Up(@)]
           p == [q EXCEPT !.buffer[d] = arrived + 1]
           r == Returned(p, d)
<1>1. rx.taken # rx.avail_idx /\ arrived < MaxFrames
  BY DEF Virtio!Receive
<1>2. /\ Apart(q) /\ Given(q) = Tail(Given(rx)) /\ Back(q) = Back(rx) /\ q.buffer = rx.buffer
      /\ d = Head(Given(rx)) /\ d \in Descriptors /\ d \in Members(Given(rx)) /\ d \notin Members(Back(rx))
      /\ Members(Given(q)) = Members(Given(rx)) \ {d} /\ Len(Given(q)) = Len(Given(rx)) - 1
      /\ q.used = rx.used /\ q.used_idx = rx.used_idx
  BY <1>1, TakeApart
<1> HIDE DEF d, q
<1>3. d \in Descriptors /\ arrived + 1 \in Nat /\ q \in Virtqueue
  BY <1>2, ApartIs
<1>4. /\ p \in Virtqueue /\ Back(p) = Back(q) /\ Given(p) = Given(q) /\ p.buffer = [q.buffer EXCEPT ![d] = arrived + 1]
  BY <1>3, QueueFill
<1> HIDE DEF p
<1>5. Apart(p)
  BY <1>2, <1>4 DEF Apart
<1>6. /\ Apart(r) /\ Back(r) = Longer(Back(p), d) /\ Given(r) = Given(p) /\ r.buffer = p.buffer
      /\ Members(Back(r)) = Members(Back(p)) \cup {d} /\ Len(Back(r)) = Len(Back(p)) + 1 /\ Len(Back(p)) < QueueSize
  BY <1>2, <1>4, <1>5, ReturnApart
<1> HIDE DEF r
<1>7. rx' = r
  BY <1>3 DEF Virtio!Receive, d, q, p, r, Returned, Virtqueue
<1> QED
  BY <1>2, <1>4, <1>6, <1>7
LEMMA KeptParts ==
  ASSUME VirtioInv
  PROVE  /\ UNCHANGED <<at, cur, status, worker, sending, rx, tx>> => SetupInv'
         /\ UNCHANGED <<has_mac, polled>> => Flags'
         /\ UNCHANGED <<at, rx>> => RxInv'
         /\ UNCHANGED <<tx, in_use>> => TxInv'
         /\ UNCHANGED <<worker, sending, reap, index, elem>> => ThreadInv'
         /\ UNCHANGED <<tx, in_use, reap, index, elem>> => ReapInv'
         /\ UNCHANGED <<arrived, accepted, sending>> => CountInv'
<1>1. UNCHANGED <<at, cur, status, worker, sending, rx, tx>> => SetupInv'
  BY DEF VirtioInv, SetupInv
<1>2. UNCHANGED <<has_mac, polled>> => Flags'
  BY Zenon DEF VirtioInv, Flags
<1>3. UNCHANGED <<at, rx>> => RxInv'
  BY DEF VirtioInv, RxInv
<1>4. UNCHANGED <<tx, in_use>> => TxInv'
  BY DEF VirtioInv, TxInv
<1>5. UNCHANGED <<worker, sending, reap, index, elem>> => ThreadInv'
  BY DEF VirtioInv, ThreadInv
<1>6. UNCHANGED <<tx, in_use, reap, index, elem>> => ReapInv'
  BY DEF VirtioInv, ReapInv
<1>7. UNCHANGED <<arrived, accepted, sending>> => CountInv'
  BY DEF VirtioInv, CountInv
<1> QED
  BY <1>1, <1>2, <1>3, <1>4, <1>5, <1>6, <1>7

\* The parts in the next state, of what the queues are then.
LEMMA PrimedParts ==
  /\ RxInv' <=>
       /\ Apart(rx')
       /\ at' = "online" =>
            /\ Members(Given(rx')) \cup Members(Back(rx')) = Descriptors
            /\ Len(Given(rx')) + Len(Back(rx')) = QueueSize
  /\ TxInv' <=>
       /\ Apart(tx') /\ in_use' \in [Descriptors -> BOOLEAN]
       /\ \A d \in Members(Given(tx')) \cup Members(Back(tx')) : in_use'[d]
  /\ ReapInv' <=>
       \A t \in Reapers :
         /\ reap'[t] = "bump" => index'[t] = tx'.last /\ tx'.last # tx'.used_idx /\ elem'[t] = Head(Back(tx'))
         /\ reap'[t] = "clear" => in_use'[elem'[t]] /\ elem'[t] \notin Members(Given(tx')) \cup Members(Back(tx'))
BY DEF RxInv, TxInv, ReapInv, Apart, Given, Back

\* While a device works, the driver is in service.
LEMMA OnlineKeepsSetup ==
  ASSUME VirtioInv, at = "online", UNCHANGED <<at, cur, status>>
  PROVE  SetupInv'
BY DEF VirtioInv, SetupInv

LEMMA WorksOnline ==
  ASSUME VirtioInv, Virtio!Works
  PROVE  at = "online"
BY DEF VirtioInv, SetupInv, Virtio!Works

LEMMA VirtioReceive ==
  ASSUME Virtio!VirtioAssumption, VirtioInv, Virtio!Receive
  PROVE  VirtioInv'
<1>1. at = "online"
  BY WorksOnline DEF Virtio!Receive
<1>2. /\ UNCHANGED <<at, cur, status>> /\ UNCHANGED <<has_mac, polled>> /\ UNCHANGED <<tx, in_use>>
      /\ UNCHANGED <<worker, sending, reap, index, elem>> /\ accepted' = accepted /\ arrived' = arrived + 1
      /\ arrived < MaxFrames
  BY DEF Virtio!Receive, Virtio!initVars, Virtio!threadVars
<1>3. SetupInv' /\ Flags' /\ TxInv' /\ ThreadInv' /\ ReapInv'
  BY <1>1, <1>2, KeptParts, OnlineKeepsSetup
<1>4. CountInv'
  BY <1>2, VirtioConstants DEF VirtioInv, CountInv
<1>5. RxInv'
  <2> DEFINE d == Head(Given(rx))
  <2>1. Apart(rx) /\ arrived \in Nat
    BY VirtioConstants DEF VirtioInv, RxInv, CountInv
  <2>2. /\ Apart(rx') /\ Members(Given(rx')) = Members(Given(rx)) \ {d} /\ d \in Members(Given(rx))
        /\ Members(Back(rx')) = Members(Back(rx)) \cup {d}
        /\ Len(Given(rx')) = Len(Given(rx)) - 1 /\ Len(Back(rx')) = Len(Back(rx)) + 1
    BY <2>1, DeviceReceives
  <2>3. /\ Members(Given(rx)) \cup Members(Back(rx)) = Descriptors
        /\ Len(Given(rx)) + Len(Back(rx)) = QueueSize
    BY <1>1 DEF VirtioInv, RxInv
  <2>4. Len(Given(rx)) \in Nat /\ Len(Back(rx)) \in Nat /\ QueueSize \in Nat
    BY <2>1, ApartIs, RingsAreSeqs, VirtioConstants
  <2> HIDE DEF d
  <2>5. Members(Given(rx')) \cup Members(Back(rx')) = Descriptors
    BY <2>2, <2>3
  <2>6. Len(Given(rx')) + Len(Back(rx')) = QueueSize
    BY <2>2, <2>3, <2>4
  <2> QED
    BY <2>2, <2>5, <2>6, PrimedParts
<1> QED
  BY <1>3, <1>4, <1>5 DEF VirtioInv

LEMMA VirtioEmit ==
  ASSUME Virtio!VirtioAssumption, VirtioInv, Virtio!Emit
  PROVE  VirtioInv' /\ Given(tx') = Tail(Given(tx)) /\ Len(Given(tx)) # 0 /\ Back(tx') = Back(tx)
         /\ tx'.buffer = tx.buffer /\ tx.avail[tx.taken % QueueSize] = Head(Given(tx))
<1>1. at = "online"
  BY WorksOnline DEF Virtio!Emit
<1>2. /\ UNCHANGED <<at, cur, status>> /\ UNCHANGED <<has_mac, polled>> /\ UNCHANGED <<at, rx>> /\ in_use' = in_use
      /\ UNCHANGED <<worker, sending, reap, index, elem>> /\ UNCHANGED <<arrived, accepted, sending>>
      /\ tx' = [tx EXCEPT !.taken = Virtio!Up(@)] /\ tx.taken # tx.avail_idx
  BY DEF Virtio!Emit, Virtio!initVars, Virtio!threadVars
<1>3. SetupInv' /\ Flags' /\ RxInv' /\ ThreadInv' /\ CountInv'
  BY <1>1, <1>2, KeptParts, OnlineKeepsSetup
<1>4. Apart(tx) /\ in_use \in [Descriptors -> BOOLEAN]
      /\ \A d \in Members(Given(tx)) \cup Members(Back(tx)) : in_use[d]
  BY DEF VirtioInv, TxInv
<1>5. /\ Apart(tx') /\ Given(tx') = Tail(Given(tx)) /\ Len(Given(tx)) # 0 /\ Back(tx') = Back(tx)
      /\ tx'.buffer = tx.buffer /\ tx.avail[tx.taken % QueueSize] = Head(Given(tx))
      /\ Members(Given(tx')) = Members(Given(tx)) \ {Head(Given(tx))}
  BY <1>2, <1>4, TakeApart
<1>6. TxInv'
  BY <1>2, <1>4, <1>5, PrimedParts
<1>7. tx \in Virtqueue /\ tx'.last = tx.last /\ tx'.used_idx = tx.used_idx
  BY <1>2, <1>4 DEF Apart, Virtqueue
<1>8. ReapInv'
  BY <1>2, <1>5, <1>7, PrimedParts DEF VirtioInv, ReapInv
<1> QED
  BY <1>3, <1>5, <1>6, <1>8 DEF VirtioInv

LEMMA RingSets ==
  ASSUME Virtio!VirtioAssumption, NEW q \in Virtqueue
  PROVE  /\ Virtio!AvailableOf(q) = Members(Given(q)) /\ Virtio!UsedOf(q) = Members(Back(q))
         /\ Virtio!Between(q.taken, q.avail_idx) = Len(Given(q))
         /\ Virtio!Between(q.last, q.used_idx) = Len(Back(q))
<1>1. /\ Virtio!Between(q.taken, q.avail_idx) = Far(q.taken, q.avail_idx, IndexLimit)
      /\ Virtio!Between(q.last, q.used_idx) = Far(q.last, q.used_idx, IndexLimit)
  BY DEF Virtio!Between, Far
<1>2. /\ Virtio!Between(q.taken, q.avail_idx) = Len(Given(q))
      /\ Virtio!Between(q.last, q.used_idx) = Len(Back(q))
      /\ Len(Given(q)) \in Nat /\ Len(Back(q)) \in Nat
  BY <1>1, RingsAreSeqs
<1> DEFINE n == Len(Given(q))
           m == Len(Back(q))
<1>3. \A k \in 1..n : Given(q)[k] = q.avail[(q.taken + (k - 1)) % QueueSize]
  BY <1>1, <1>2 DEF Given, View
<1>4. \A k \in 1..m : Back(q)[k] = q.used[(q.last + (k - 1)) % QueueSize]
  BY <1>1, <1>2 DEF Back, View
<1> HIDE DEF n, m
<1>5. {q.avail[(q.taken + k) % QueueSize] : k \in 0..(n - 1)} = {Given(q)[k] : k \in 1..n}
  <2>1. \A k \in 0..(n - 1) : q.avail[(q.taken + k) % QueueSize] = Given(q)[k + 1] /\ k + 1 \in 1..n
    <3> TAKE k \in 0..(n - 1)
    <3>1. k + 1 \in 1..n /\ (k + 1) - 1 = k
      BY <1>2 DEF n
    <3> QED
      BY <1>3, <3>1
  <2>2. \A k \in 1..n : Given(q)[k] = q.avail[(q.taken + (k - 1)) % QueueSize] /\ k - 1 \in 0..(n - 1)
    BY <1>2, <1>3 DEF n
  <2> QED
    BY <2>1, <2>2
<1>6. {q.used[(q.last + k) % QueueSize] : k \in 0..(m - 1)} = {Back(q)[k] : k \in 1..m}
  <2>1. \A k \in 0..(m - 1) : q.used[(q.last + k) % QueueSize] = Back(q)[k + 1] /\ k + 1 \in 1..m
    <3> TAKE k \in 0..(m - 1)
    <3>1. k + 1 \in 1..m /\ (k + 1) - 1 = k
      BY <1>2 DEF m
    <3> QED
      BY <1>4, <3>1
  <2>2. \A k \in 1..m : Back(q)[k] = q.used[(q.last + (k - 1)) % QueueSize] /\ k - 1 \in 0..(m - 1)
    BY <1>2, <1>4 DEF m
  <2> QED
    BY <2>1, <2>2
<1> QED
  BY <1>2, <1>5, <1>6 DEF Members, Virtio!AvailableOf, Virtio!UsedOf, n, m

\* A buffer is given back that no ring holds and nobody is about to clear.
LEMMA VirtioGiveBack ==
  ASSUME Virtio!VirtioAssumption, VirtioInv, NEW d, Virtio!GiveBack(d)
  PROVE  VirtioInv' /\ Given(tx') = Given(tx) /\ tx'.buffer = tx.buffer
<1>1. at = "online"
  BY WorksOnline DEF Virtio!GiveBack
<1>2. /\ UNCHANGED <<at, cur, status>> /\ UNCHANGED <<has_mac, polled>> /\ UNCHANGED <<at, rx>> /\ in_use' = in_use
      /\ UNCHANGED <<worker, sending, reap, index, elem>> /\ UNCHANGED <<arrived, accepted, sending>>
      /\ tx' = Returned(tx, d)
  BY DEF Virtio!GiveBack, Virtio!initVars, Virtio!threadVars, Virtio!historyVars, Returned
<1>3. SetupInv' /\ Flags' /\ RxInv' /\ ThreadInv' /\ CountInv'
  BY <1>1, <1>2, KeptParts, OnlineKeepsSetup
<1>4. /\ Apart(tx) /\ tx \in Virtqueue /\ in_use \in [Descriptors -> BOOLEAN]
      /\ \A e \in Members(Given(tx)) \cup Members(Back(tx)) : in_use[e]
  BY ApartIs DEF VirtioInv, TxInv
<1>5. /\ d \in Descriptors /\ in_use[d] /\ d \notin Members(Given(tx)) /\ d \notin Members(Back(tx))
      /\ \A t \in Reapers : reap[t] = "clear" => elem[t] # d
  BY <1>4, RingSets DEF Virtio!GiveBack, Virtio!InDevice, Virtio!Cleared, Virtio!Ids, Virtio!Threads, Descriptors, Reapers
<1>6. /\ Apart(tx') /\ Back(tx') = Longer(Back(tx), d) /\ Given(tx') = Given(tx) /\ tx'.buffer = tx.buffer
      /\ Members(Back(tx')) = Members(Back(tx)) \cup {d} /\ tx'.last = tx.last
  BY <1>2, <1>4, <1>5, ReturnApart
<1>7. TxInv'
  BY <1>2, <1>4, <1>5, <1>6, PrimedParts
<1>8. tx.last # tx.used_idx => tx'.last # tx'.used_idx /\ Head(Back(tx')) = Head(Back(tx))
  <2> SUFFICES ASSUME tx.last # tx.used_idx PROVE tx'.last # tx'.used_idx /\ Head(Back(tx')) = Head(Back(tx))
    OBVIOUS
  <2>1. Back(tx) \in Seq(Descriptors) /\ Len(Back(tx)) \in Nat \ {0}
    BY <1>4, RingsAreSeqs
  <2> DEFINE v == Back(tx)
  <2> HIDE DEF v
  <2>2. Len(Longer(v, d)) = Len(v) + 1 /\ Head(Longer(v, d)) = Head(v)
    <3>1. v \in Seq(Descriptors) /\ Len(v) \in Nat \ {0} /\ d \in Descriptors
      BY <1>5, <2>1 DEF v
    <3>2. /\ Len(Append(v, d)) = Len(v) + 1 /\ Append(v, d)[1] = v[1] /\ Append(v, d) \in Seq(Descriptors)
          /\ Append(v, d) # <<>>
      BY <3>1, AppendProperties
    <3> QED
      BY <3>1, <3>2 DEF Longer
  <2>3. tx' \in Virtqueue
    BY <1>6, ApartIs
  <2>4. Len(Back(tx')) # 0
    BY <1>6, <2>1, <2>2 DEF v
  <2>5. tx'.last # tx'.used_idx
    BY <2>3, <2>4, RingsAreSeqs
  <2> QED
    BY <1>6, <2>2, <2>5 DEF v
<1>9. ReapInv'
  <2> SUFFICES ASSUME NEW t \in Reapers
               PROVE /\ reap'[t] = "bump" => index'[t] = tx'.last /\ tx'.last # tx'.used_idx /\ elem'[t] = Head(Back(tx'))
                     /\ reap'[t] = "clear" => in_use'[elem'[t]] /\ elem'[t] \notin Members(Given(tx')) \cup Members(Back(tx'))
    BY PrimedParts
  <2>1. /\ reap[t] = "bump" => index[t] = tx.last /\ tx.last # tx.used_idx /\ elem[t] = Head(Back(tx))
        /\ reap[t] = "clear" => in_use[elem[t]] /\ elem[t] \notin Members(Given(tx)) \cup Members(Back(tx))
    BY DEF VirtioInv, ReapInv
  <2> QED
    BY <1>2, <1>5, <1>6, <1>8, <2>1
<1> QED
  BY <1>3, <1>6, <1>7, <1>9 DEF VirtioInv

LEMMA VirtioPoll ==
  ASSUME Virtio!VirtioAssumption, Serialised, VirtioInv, Virtio!Poll
  PROVE  VirtioInv'
<1>1. /\ UNCHANGED <<at, cur, status>> /\ UNCHANGED <<has_mac, polled>> /\ UNCHANGED <<at, rx>>
      /\ UNCHANGED <<tx, in_use>> /\ UNCHANGED <<tx, in_use, reap, index, elem>> /\ UNCHANGED <<arrived, accepted, sending>>
      /\ at = "online" /\ worker = "idle" /\ worker' = "rx" /\ sending = "idle"
  BY DEF Virtio!Poll, Virtio!initVars, Virtio!queueVars, Virtio!historyVars
<1>2. SetupInv' /\ Flags' /\ RxInv' /\ TxInv' /\ ReapInv' /\ CountInv'
  BY <1>1, KeptParts, OnlineKeepsSetup
<1>3. ThreadInv'
  BY <1>1 DEF VirtioInv, ThreadInv
<1> QED
  BY <1>2, <1>3 DEF VirtioInv

LEMMA DriverTakes ==
  ASSUME Virtio!VirtioAssumption, Apart(rx), Virtio!TakeFrame
  PROVE  LET d == Head(Back(rx)) IN
         /\ Apart(rx') /\ Back(rx') = Tail(Back(rx)) /\ Given(rx') = Longer(Given(rx), d) /\ rx'.buffer = rx.buffer
         /\ d \in Members(Back(rx)) /\ Len(Back(rx)) # 0
         /\ Members(Back(rx')) = Members(Back(rx)) \ {d}
         /\ Members(Given(rx')) = Members(Given(rx)) \cup {d}
         /\ Len(Back(rx')) = Len(Back(rx)) - 1 /\ Len(Given(rx')) = Len(Given(rx)) + 1
         /\ passed' = IF Virtio!Good(rx.buffer[d]) THEN Append(passed, rx.buffer[d]) ELSE passed
<1> DEFINE d == rx.used[rx.last % QueueSize]
           q == [rx EXCEPT !.last = Virtio!Up(@)]
<1>1. /\ rx.last # rx.used_idx /\ rx' = Virtio!Recycled(q, d)
      /\ passed' = IF Virtio!Good(rx.buffer[d]) THEN Append(passed, rx.buffer[d]) ELSE passed
  BY DEF Virtio!TakeFrame
<1>2. /\ Apart(q) /\ Back(q) = Tail(Back(rx)) /\ Given(q) = Given(rx) /\ q.buffer = rx.buffer
      /\ d = Head(Back(rx)) /\ d \in Descriptors /\ d \in Members(Back(rx)) /\ d \notin Members(Given(rx))
      /\ Members(Back(q)) = Members(Back(rx)) \ {d} /\ Len(Back(q)) = Len(Back(rx)) - 1 /\ Len(Back(rx)) # 0
  BY <1>1, TakeBackApart
<1> HIDE DEF d, q
<1>3. d \notin Members(Given(q)) /\ d \notin Members(Back(q))
  BY <1>2
<1> DEFINE r == Virtio!Recycled(q, d)
<1>4. /\ Apart(r) /\ Given(r) = Longer(Given(q), d) /\ Back(r) = Back(q) /\ r.buffer = q.buffer
      /\ Members(Given(r)) = Members(Given(q)) \cup {d} /\ Len(Given(r)) = Len(Given(q)) + 1
  BY <1>2, <1>3, GiveApart
<1> HIDE DEF r
<1>5. rx' = r
  BY <1>1 DEF r
<1> QED
  BY <1>1, <1>2, <1>4, <1>5

LEMMA VirtioTakeFrame ==
  ASSUME Virtio!VirtioAssumption, VirtioInv, Virtio!TakeFrame
  PROVE  VirtioInv' /\ at = "online"
<1>1. worker = "rx"
  BY DEF Virtio!TakeFrame
<1>2. at = "online"
  BY <1>1 DEF VirtioInv, SetupInv
<1>3. /\ UNCHANGED <<at, cur, status>> /\ UNCHANGED <<has_mac, polled>> /\ UNCHANGED <<tx, in_use>>
      /\ UNCHANGED <<worker, sending, reap, index, elem>> /\ UNCHANGED <<tx, in_use, reap, index, elem>>
      /\ UNCHANGED <<arrived, accepted, sending>>
  BY DEF Virtio!TakeFrame, Virtio!initVars, Virtio!threadVars
<1>4. SetupInv' /\ Flags' /\ TxInv' /\ ThreadInv' /\ ReapInv' /\ CountInv'
  BY <1>2, <1>3, KeptParts, OnlineKeepsSetup
<1>5. RxInv'
  <2> DEFINE d == Head(Back(rx))
  <2>1. Apart(rx)
    BY DEF VirtioInv, RxInv
  <2>2. /\ Apart(rx') /\ Members(Back(rx')) = Members(Back(rx)) \ {d} /\ d \in Members(Back(rx))
        /\ Members(Given(rx')) = Members(Given(rx)) \cup {d}
        /\ Len(Back(rx')) = Len(Back(rx)) - 1 /\ Len(Given(rx')) = Len(Given(rx)) + 1
    BY <2>1, DriverTakes
  <2>3. /\ Members(Given(rx)) \cup Members(Back(rx)) = Descriptors
        /\ Len(Given(rx)) + Len(Back(rx)) = QueueSize
    BY <1>2 DEF VirtioInv, RxInv
  <2>4. Len(Given(rx)) \in Nat /\ Len(Back(rx)) \in Nat /\ QueueSize \in Nat
    BY <2>1, ApartIs, RingsAreSeqs, VirtioConstants
  <2> HIDE DEF d
  <2>5. Members(Given(rx')) \cup Members(Back(rx')) = Descriptors
    BY <2>2, <2>3
  <2>6. Len(Given(rx')) + Len(Back(rx')) = QueueSize
    BY <2>2, <2>3, <2>4
  <2> QED
    BY <2>2, <2>5, <2>6, PrimedParts
<1> QED
  BY <1>2, <1>4, <1>5 DEF VirtioInv

LEMMA VirtioRxDone ==
  ASSUME Virtio!VirtioAssumption, VirtioInv, Virtio!RxDone
  PROVE  VirtioInv'
<1>1. /\ UNCHANGED <<at, cur, status>> /\ UNCHANGED <<has_mac, polled>> /\ UNCHANGED <<at, rx>>
      /\ UNCHANGED <<tx, in_use>> /\ UNCHANGED <<index, elem>> /\ UNCHANGED <<arrived, accepted, sending>>
      /\ worker = "rx" /\ worker' = "tx" /\ reap' = [reap EXCEPT !["worker"] = "look"]
  BY DEF Virtio!RxDone, Virtio!initVars, Virtio!queueVars, Virtio!historyVars
<1>2. at = "online"
  BY <1>1 DEF VirtioInv, SetupInv
<1>3. SetupInv' /\ Flags' /\ RxInv' /\ TxInv' /\ CountInv'
  BY <1>1, <1>2, KeptParts, OnlineKeepsSetup
<1>4. ThreadInv'
  BY <1>1 DEF VirtioInv, ThreadInv, Reapers
<1>5. ReapInv'
  BY <1>1 DEF VirtioInv, ThreadInv, ReapInv, Reapers
<1> QED
  BY <1>3, <1>4, <1>5 DEF VirtioInv

LEMMA VirtioSend ==
  ASSUME Virtio!VirtioAssumption, Serialised, VirtioInv, Virtio!Send
  PROVE  VirtioInv'
<1>1. /\ UNCHANGED <<at, cur, status>> /\ UNCHANGED <<has_mac, polled>> /\ UNCHANGED <<at, rx>>
      /\ UNCHANGED <<tx, in_use>> /\ UNCHANGED <<index, elem>> /\ UNCHANGED <<arrived, accepted, worker>>
      /\ sending = "idle" /\ worker = "idle" /\ sending' = "reap" /\ reap' = [reap EXCEPT !["sender"] = "look"]
      /\ at = "online" /\ Len(accepted) < MaxSends
  BY DEF Virtio!Send, Virtio!initVars, Virtio!queueVars, Virtio!historyVars
<1>3. SetupInv' /\ Flags' /\ RxInv' /\ TxInv'
  BY <1>1, KeptParts, OnlineKeepsSetup
<1>4. ThreadInv'
  BY <1>1 DEF VirtioInv, ThreadInv, Reapers
<1>5. ReapInv'
  BY <1>1 DEF VirtioInv, ThreadInv, ReapInv, Reapers
<1>6. CountInv'
  BY <1>1 DEF VirtioInv, CountInv
<1> QED
  BY <1>3, <1>4, <1>5, <1>6 DEF VirtioInv

\* One thread reaps at a time.
LEMMA OneReaper ==
  ASSUME VirtioInv, NEW t \in Reapers, reap[t] # "none"
  PROVE  /\ \A u \in Reapers : u # t => reap[u] = "none"
         /\ at = "online"
BY DEF VirtioInv, SetupInv, ThreadInv, Reapers

LEMMA VirtioReap ==
  ASSUME Virtio!VirtioAssumption, VirtioInv, NEW t \in Reapers, Virtio!Reap(t)
  PROVE  VirtioInv' /\ Given(tx') = Given(tx) /\ tx'.buffer = tx.buffer /\ at' = at
<1>1. reap[t] # "none"
  BY DEF Virtio!Reap, Virtio!Look, Virtio!Bump, Virtio!Clear, Virtio!ReapDone
<1>2. at = "online" /\ \A u \in Reapers : u # t => reap[u] = "none"
  BY <1>1, OneReaper
<1>3. /\ UNCHANGED <<at, cur, status>> /\ UNCHANGED <<has_mac, polled>> /\ UNCHANGED <<at, rx>>
      /\ UNCHANGED <<arrived, accepted>>
  BY DEF Virtio!Reap, Virtio!Look, Virtio!Bump, Virtio!Clear, Virtio!ReapDone, Virtio!initVars, Virtio!queueVars,
         Virtio!historyVars
<1>4. SetupInv' /\ Flags' /\ RxInv'
  BY <1>2, <1>3, KeptParts, OnlineKeepsSetup
<1>5. /\ Apart(tx) /\ tx \in Virtqueue /\ in_use \in [Descriptors -> BOOLEAN]
      /\ \A e \in Members(Given(tx)) \cup Members(Back(tx)) : in_use[e]
  BY ApartIs DEF VirtioInv, TxInv
<1>6. /\ reap \in [Reapers -> {"none", "look", "bump", "clear"}]
      /\ index \in [Reapers -> Idx] /\ elem \in [Reapers -> Descriptors]
      /\ worker = "idle" \/ sending = "idle"
      /\ worker = "tx" <=> reap["worker"] # "none"
      /\ sending = "reap" <=> reap["sender"] # "none"
  BY DEF VirtioInv, ThreadInv
<1>7. CASE Virtio!Look(t)
  <2>1. /\ UNCHANGED <<tx, in_use>> /\ UNCHANGED <<worker, sending>> /\ UNCHANGED <<arrived, accepted, sending>>
        /\ tx.last # tx.used_idx /\ reap' = [reap EXCEPT ![t] = "bump"] /\ index' = [index EXCEPT ![t] = tx.last]
        /\ elem' = [elem EXCEPT ![t] = tx.used[tx.last % QueueSize]] /\ reap[t] = "look"
    BY <1>3, <1>7 DEF Virtio!Look, Virtio!queueVars
  <2>2. TxInv' /\ CountInv'
    BY <2>1, KeptParts
  <2>3. tx.used[tx.last % QueueSize] = Head(Back(tx)) /\ Head(Back(tx)) \in Descriptors /\ tx.last \in Idx
    BY <1>5, <2>1, TakeBackApart DEF Virtqueue
  <2>4. ThreadInv'
    BY <1>6, <2>1, <2>3 DEF VirtioInv, ThreadInv, Reapers
  <2>5. ReapInv'
    BY <1>2, <1>6, <2>1, <2>3, PrimedParts
  <2> QED
    BY <1>3, <1>4, <2>1, <2>2, <2>4, <2>5 DEF VirtioInv
<1>8. CASE Virtio!Bump(t)
  <2>1. /\ in_use' = in_use /\ UNCHANGED <<worker, sending, index, elem>> /\ UNCHANGED <<arrived, accepted, sending>>
        /\ tx' = [tx EXCEPT !.last = Virtio!Up(index[t])] /\ reap' = [reap EXCEPT ![t] = "clear"] /\ reap[t] = "bump"
    BY <1>3, <1>8 DEF Virtio!Bump
  <2>2. index[t] = tx.last /\ tx.last # tx.used_idx /\ elem[t] = Head(Back(tx))
    BY <2>1 DEF VirtioInv, ReapInv
  <2>3. tx' = [tx EXCEPT !.last = Virtio!Up(@)]
    BY <2>1, <2>2
  <2>4. /\ Apart(tx') /\ Back(tx') = Tail(Back(tx)) /\ Given(tx') = Given(tx) /\ tx'.buffer = tx.buffer
        /\ Head(Back(tx)) \in Members(Back(tx)) /\ Head(Back(tx)) \notin Members(Given(tx))
        /\ Members(Back(tx')) = Members(Back(tx)) \ {Head(Back(tx))}
    BY <1>5, <2>2, <2>3, TakeBackApart
  <2>5. TxInv'
    BY <1>5, <2>1, <2>4, PrimedParts
  <2>6. CountInv'
    BY <2>1, KeptParts
  <2>7. ThreadInv'
    BY <1>6, <2>1 DEF VirtioInv, ThreadInv, Reapers
  <2>8. ReapInv'
    BY <1>2, <1>5, <1>6, <2>1, <2>2, <2>4, PrimedParts
  <2> QED
    BY <1>3, <1>4, <2>4, <2>5, <2>6, <2>7, <2>8 DEF VirtioInv
<1>9. CASE Virtio!Clear(t)
  <2>1. /\ UNCHANGED <<worker, sending, index, elem>> /\ UNCHANGED <<arrived, accepted, sending>>
        /\ tx' = tx /\ in_use' = [in_use EXCEPT ![elem[t]] = FALSE] /\ reap' = [reap EXCEPT ![t] = "look"]
        /\ reap[t] = "clear"
    BY <1>3, <1>9 DEF Virtio!Clear
  <2>2. elem[t] \notin Members(Given(tx)) \cup Members(Back(tx))
    BY <2>1 DEF VirtioInv, ReapInv
  <2>3. TxInv'
    <3>1. in_use' \in [Descriptors -> BOOLEAN]
      BY <1>5, <2>1
    <3>2. \A e \in Members(Given(tx)) \cup Members(Back(tx)) : in_use'[e]
      <4> TAKE e \in Members(Given(tx)) \cup Members(Back(tx))
      <4>1. e # elem[t] /\ in_use[e]
        BY <1>5, <2>2
      <4>2. DOMAIN in_use = Descriptors /\ e \in Descriptors
        BY <1>5, RingsAreSeqs DEF Members
      <4> QED
        BY <2>1, <4>1, <4>2
    <3> QED
      BY <1>5, <2>1, <3>1, <3>2, PrimedParts
  <2>4. CountInv'
    BY <2>1, KeptParts
  <2>5. ThreadInv'
    BY <1>6, <2>1 DEF VirtioInv, ThreadInv, Reapers
  <2>6. ReapInv'
    BY <1>2, <1>6, <2>1, PrimedParts
  <2> QED
    BY <1>3, <1>4, <2>1, <2>3, <2>4, <2>5, <2>6 DEF VirtioInv
<1>10. CASE Virtio!ReapDone(t)
  <2>1. /\ UNCHANGED <<tx, in_use>> /\ UNCHANGED <<index, elem>>
        /\ reap' = [reap EXCEPT ![t] = "none"] /\ reap[t] = "look"
        /\ \/ t = "worker" /\ worker' = "idle" /\ sending' = sending
           \/ t = "sender" /\ sending' = "choose" /\ worker' = worker
    BY <1>10 DEF Virtio!ReapDone, Virtio!queueVars
  <2>2. TxInv'
    BY <2>1, KeptParts
  <2>3. CountInv'
    <3>1. sending' # "idle" => sending # "idle"
      BY <1>6, <2>1 DEF Reapers
    <3> QED
      BY <1>3, <3>1 DEF VirtioInv, CountInv
  <2>4. ThreadInv'
    BY <1>6, <2>1 DEF VirtioInv, ThreadInv, Reapers
  <2>5. ReapInv'
    BY <1>2, <1>6, <2>1, PrimedParts
  <2> QED
    BY <1>3, <1>4, <2>1, <2>2, <2>3, <2>4, <2>5 DEF VirtioInv
<1> QED
  BY <1>7, <1>8, <1>9, <1>10 DEF Virtio!Reap
\* A free buffer is in no ring: there is room for it.
LEMMA VirtioChoose ==
  ASSUME Virtio!VirtioAssumption, VirtioInv, Virtio!Choose
  PROVE  /\ VirtioInv' /\ at = "online" /\ Len(accepted) < MaxSends
         /\ \/ UNCHANGED <<tx, accepted>>
            \/ \E d \in Descriptors :
                 /\ d \notin Members(Given(tx)) /\ Len(Given(tx)) < QueueSize
                 /\ accepted' = Append(accepted, Len(accepted) + 1)
                 /\ Given(tx') = Longer(Given(tx), d)
                 /\ tx'.buffer = [tx.buffer EXCEPT ![d] = Len(accepted) + 1]
<1>1. /\ UNCHANGED <<at, cur, status>> /\ UNCHANGED <<has_mac, polled>> /\ UNCHANGED <<at, rx>>
      /\ UNCHANGED <<worker, reap, index, elem>> /\ arrived' = arrived /\ sending = "choose" /\ sending' = "idle"
  BY DEF Virtio!Choose, Virtio!initVars
<1>2. at = "online" /\ Len(accepted) < MaxSends /\ accepted \in Seq(Nat) /\ arrived \in 0..MaxFrames
  BY <1>1 DEF VirtioInv, SetupInv, CountInv
<1>3. SetupInv' /\ Flags' /\ RxInv'
  BY <1>1, <1>2, KeptParts, OnlineKeepsSetup
<1>4. ThreadInv'
  BY <1>1 DEF VirtioInv, ThreadInv, Reapers
<1>5. /\ Apart(tx) /\ tx \in Virtqueue /\ in_use \in [Descriptors -> BOOLEAN]
      /\ \A e \in Members(Given(tx)) \cup Members(Back(tx)) : in_use[e]
  BY ApartIs DEF VirtioInv, TxInv
<1>6. \A t \in Reapers : reap[t] = "none"
  BY <1>1 DEF VirtioInv, ThreadInv, Reapers
<1>7. ReapInv'
  BY <1>1, <1>6, PrimedParts
<1>8. CASE UNCHANGED <<in_use, accepted, tx>>
  <2>1. TxInv'
    BY <1>8, KeptParts
  <2>2. CountInv'
    BY <1>1, <1>8 DEF VirtioInv, CountInv
  <2> QED
    BY <1>2, <1>3, <1>4, <1>7, <1>8, <2>1, <2>2 DEF VirtioInv
<1>9. CASE \E d \in Virtio!Ids :
             /\ ~in_use[d] /\ in_use' = Virtio!Marked(d)
             /\ accepted' = Append(accepted, Len(accepted) + 1)
             /\ tx' = Virtio!Recycled([tx EXCEPT !.buffer[d] = Len(accepted) + 1], d)
  <2>1. PICK d \in Descriptors :
             /\ ~in_use[d] /\ in_use' = [in_use EXCEPT ![d] = TRUE]
             /\ accepted' = Append(accepted, Len(accepted) + 1)
             /\ tx' = Virtio!Recycled([tx EXCEPT !.buffer[d] = Len(accepted) + 1], d)
    BY <1>9 DEF Virtio!Ids, Virtio!Marked, Descriptors
  <2>2. d \notin Members(Given(tx)) /\ d \notin Members(Back(tx))
    BY <1>5, <2>1
  <2>3. Len(accepted) + 1 \in Nat /\ Len(accepted) \in Nat
    BY <1>2
  <2> DEFINE q == [tx EXCEPT !.buffer[d] = Len(accepted) + 1]
             r == Virtio!Recycled(q, d)
  <2>4. /\ q \in Virtqueue /\ Back(q) = Back(tx) /\ Given(q) = Given(tx)
        /\ q.buffer = [tx.buffer EXCEPT ![d] = Len(accepted) + 1]
    BY <1>5, <2>3, QueueFill
  <2> HIDE DEF q
  <2>5. Apart(q)
    BY <1>5, <2>4 DEF Apart
  <2>6. /\ Apart(r) /\ Given(r) = Longer(Given(q), d) /\ Back(r) = Back(q) /\ r.buffer = q.buffer
        /\ Members(Given(r)) = Members(Given(q)) \cup {d} /\ Len(Given(q)) < QueueSize
    BY <2>2, <2>4, <2>5, GiveApart
  <2> HIDE DEF r
  <2>7. tx' = r
    BY <2>1 DEF q, r
  <2>8. TxInv'
    <3>1. in_use' \in [Descriptors -> BOOLEAN] /\ (\A e \in Descriptors : in_use[e] => in_use'[e]) /\ in_use'[d]
      BY <1>5, <2>1
    <3>2. \A e \in Members(Given(tx)) \cup Members(Back(tx)) : e \in Descriptors
      BY <1>5, RingsAreSeqs DEF Members
    <3>3. \A e \in Members(Given(tx')) \cup Members(Back(tx')) : in_use'[e]
      BY <1>5, <2>4, <2>6, <2>7, <3>1, <3>2
    <3> QED
      BY <2>6, <2>7, <3>1, <3>3, PrimedParts
  <2>9. CountInv'
    <3>1. accepted' \in Seq(Nat) /\ Len(accepted') = Len(accepted) + 1
      BY <1>2, <2>1, <2>3, AppendProperties
    <3> QED
      BY <1>1, <1>2, <3>1, VirtioConstants DEF CountInv
  <2> QED
    BY <1>2, <1>3, <1>4, <1>7, <2>1, <2>2, <2>4, <2>6, <2>7, <2>8, <2>9 DEF VirtioInv
<1> QED
  BY <1>8, <1>9 DEF Virtio!Choose

LEMMA VirtioStep ==
  ASSUME Virtio!VirtioAssumption, Serialised, VirtioInv, [Virtio!Next]_(Virtio!vars)
  PROVE  VirtioInv'
<1>1. CASE Virtio!Setup
  BY <1>1, VirtioSetup, VirtioQueues DEF Virtio!Setup
<1>2. CASE Virtio!Device
  BY <1>2, VirtioReceive, VirtioEmit, VirtioGiveBack DEF Virtio!Device
<1>3. CASE Virtio!Worker
  BY <1>3, VirtioPoll, VirtioTakeFrame, VirtioRxDone, VirtioReap DEF Virtio!Worker, Reapers
<1>4. CASE Virtio!Sender
  BY <1>4, VirtioSend, VirtioChoose, VirtioReap DEF Virtio!Sender, Reapers
<1>5. CASE UNCHANGED Virtio!vars
  <2>1. /\ UNCHANGED <<at, cur, status, worker, sending, rx, tx>> /\ UNCHANGED <<has_mac, polled>> /\ UNCHANGED <<at, rx>>
        /\ UNCHANGED <<tx, in_use>> /\ UNCHANGED <<worker, sending, reap, index, elem>>
        /\ UNCHANGED <<tx, in_use, reap, index, elem>> /\ UNCHANGED <<arrived, accepted, sending>>
    BY <1>5 DEF Virtio!vars, Virtio!initVars, Virtio!queueVars, Virtio!threadVars, Virtio!historyVars
  <2> QED
    BY <2>1, KeptParts DEF VirtioInv
<1> QED
  BY <1>1, <1>2, <1>3, <1>4, <1>5 DEF Virtio!Next

LEMMA VirtioConserves ==
  ASSUME Virtio!VirtioAssumption, VirtioInv
  PROVE  Virtio!TypeOK /\ Virtio!DescriptorsConserved
<1>1. rx \in Virtqueue /\ tx \in Virtqueue /\ Apart(rx) /\ Apart(tx)
  BY ApartIs DEF VirtioInv, RxInv, TxInv
<1>2. Virtio!TypeOK
  <2>1. \A q \in {rx, tx} :
          /\ {q.avail_idx, q.taken, q.used_idx, q.last} \subseteq 0..(IndexLimit - 1)
          /\ q.avail \in [Virtio!Ids -> Virtio!Ids] /\ q.used \in [Virtio!Ids -> Virtio!Ids]
    BY <1>1 DEF Virtqueue, Idx, Descriptors, Virtio!Ids
  <2>2. /\ at \in {"probe", "features", "queues", "online", "none"} /\ cur \in 1..(Candidates + 1)
        /\ status \subseteq {"acknowledge", "driver", "features_ok", "driver_ok", "failed"}
    BY DEF VirtioInv, SetupInv
  <2>3. {has_mac, polled} \subseteq BOOLEAN
    BY Zenon DEF VirtioInv, Flags
  <2>4. /\ in_use \in [Virtio!Ids -> BOOLEAN]
        /\ worker \in {"idle", "rx", "tx"} /\ sending \in {"idle", "reap", "choose"}
        /\ reap \in [Virtio!Threads -> {"none", "look", "bump", "clear"}]
        /\ index \in [Virtio!Threads -> 0..(IndexLimit - 1)] /\ elem \in [Virtio!Threads -> Virtio!Ids]
    BY DEF VirtioInv, TxInv, ThreadInv, Reapers, Idx, Descriptors, Virtio!Ids, Virtio!Threads
  <2> QED
    BY <2>1, <2>2, <2>3, <2>4, Zenon DEF Virtio!TypeOK
<1>3. Virtio!DescriptorsConserved
  <2>1. at = "online" =>
          /\ Members(Given(rx)) \cup Members(Back(rx)) = Descriptors
          /\ Len(Given(rx)) + Len(Back(rx)) = QueueSize
    BY DEF VirtioInv, RxInv
  <2>2. /\ Members(Given(tx)) \cap Members(Back(tx)) = {}
        /\ \A d \in Members(Given(tx)) \cup Members(Back(tx)) : in_use[d]
    BY DEF VirtioInv, TxInv, Apart
  <2> QED
    BY <1>1, <2>1, <2>2, RingSets DEF Virtio!DescriptorsConserved, Virtio!Ids, Descriptors
<1> QED
  BY <1>2, <1>3

\* Descriptors of a virtio card are never lost and never owned twice, for
\* queues of any size and indices of any width that go round any number of
\* times, if poll() and transmit() do not run at once (virtio_net.cpp:404-441,
\* 468-477, 736-776).
THEOREM DescriptorsAreConserved ==
  ASSUME Virtio!VirtioAssumption, Serialised
  PROVE  Virtio!Spec => [](Virtio!TypeOK /\ Virtio!DescriptorsConserved)
<1>1. Virtio!Init => VirtioInv
  BY VirtioInit
<1>2. VirtioInv /\ [Virtio!Next]_(Virtio!vars) => VirtioInv'
  BY VirtioStep
<1>3. VirtioInv => Virtio!TypeOK /\ Virtio!DescriptorsConserved
  BY VirtioConserves
<1> QED
  BY <1>1, <1>2, <1>3, PTL DEF Virtio!Spec

-----------------------------------------------------------------------------
(* Refinement: the frames in the buffers of the rings are the queues.      *)

Frames(b, v) == [k \in 1..Len(v) |-> b[v[k]]]

LEMMA FramesAre ==
  ASSUME NEW D, NEW b \in [D -> Nat], NEW v \in Seq(D)
  PROVE  /\ Frames(b, v) \in Seq(Nat) /\ Len(Frames(b, v)) = Len(v) /\ Len(v) \in Nat
         /\ \A k \in 1..Len(v) : Frames(b, v)[k] = b[v[k]]
<1>1. Len(v) \in Nat /\ \A k \in 1..Len(v) : v[k] \in D
  BY LenProperties
<1>2. Frames(b, v) \in [1..Len(v) -> Nat]
  BY <1>1 DEF Frames
<1> QED
  BY <1>1, <1>2 DEF Frames

\* A buffer in no ring is filled and put behind the others.
LEMMA FramesLonger ==
  ASSUME NEW D, NEW b \in [D -> Nat], NEW v \in Seq(D), NEW d \in D, NEW f \in Nat, d \notin Members(v)
  PROVE  Frames(Put(b, d, f), Longer(v, d)) = Longer(Frames(b, v), f)
<1> DEFINE w == Longer(v, d)
           c == Put(b, d, f)
           t == Longer(Frames(b, v), f)
<1>1. /\ w \in Seq(D) /\ Len(w) = Len(v) + 1 /\ w[Len(v) + 1] = d /\ \A k \in 1..Len(v) : w[k] = v[k]
  BY AppendProperties DEF Longer
<1>2. c \in [D -> Nat] /\ c[d] = f /\ \A e \in D : e # d => c[e] = b[e]
  BY DEF Put
<1>3. \A k \in 1..Len(v) : v[k] \in D /\ v[k] # d
  BY LenProperties DEF Members
<1>4. /\ Frames(b, v) \in Seq(Nat) /\ Len(Frames(b, v)) = Len(v) /\ Len(v) \in Nat
      /\ \A k \in 1..Len(v) : Frames(b, v)[k] = b[v[k]]
  BY FramesAre
<1> HIDE DEF w, c, t
<1>a. c \in [D -> Nat] /\ w \in Seq(D)
  BY <1>1, <1>2
<1>b. Frames(c, w) \in Seq(Nat) /\ Len(Frames(c, w)) = Len(w)
  BY <1>a, FramesAre
<1>c. \A k \in 1..Len(w) : Frames(c, w)[k] = c[w[k]]
  BY DEF Frames
<1> DEFINE s == Frames(c, w)
<1>5. s \in Seq(Nat) /\ Len(s) = Len(w) /\ \A k \in 1..Len(w) : s[k] = c[w[k]]
  BY <1>b, <1>c
<1>6. /\ t \in Seq(Nat) /\ Len(t) = Len(v) + 1 /\ t[Len(v) + 1] = f
      /\ \A k \in 1..Len(v) : t[k] = b[v[k]]
  <2> DEFINE u == Frames(b, v)
  <2>1. u \in Seq(Nat) /\ Len(u) = Len(v) /\ \A k \in 1..Len(v) : u[k] = b[v[k]]
    BY <1>4
  <2> HIDE DEF u
  <2>2. Append(u, f) \in Seq(Nat) /\ Len(Append(u, f)) = Len(u) + 1 /\ Append(u, f)[Len(u) + 1] = f
        /\ \A k \in 1..Len(u) : Append(u, f)[k] = u[k]
    BY <2>1, AppendProperties
  <2> QED
    BY <2>1, <2>2 DEF Longer, u, t
<1> HIDE DEF s
<1>7. \A k \in 1..Len(s) : s[k] = t[k]
  <2> SUFFICES ASSUME NEW k \in 1..Len(s) PROVE s[k] = t[k]
    OBVIOUS
  <2>1. CASE k \in 1..Len(v)
    <3>1. w[k] = v[k] /\ v[k] \in D /\ v[k] # d /\ k \in 1..Len(w)
      BY <2>1, <1>1, <1>3, <1>5
    <3>2. c[v[k]] = b[v[k]]
      BY <3>1, <1>2
    <3> QED
      BY <2>1, <3>1, <3>2, <1>5, <1>6
  <2>2. CASE k \notin 1..Len(v)
    <3>1. k = Len(v) + 1
      BY <2>2, <1>1, <1>4, <1>5
    <3> QED
      BY <3>1, <1>1, <1>2, <1>5, <1>6
  <2> QED
    BY <2>1, <2>2
<1>8. s = t
  BY <1>1, <1>5, <1>6, <1>7, SeqEqual
<1> QED
  BY <1>8 DEF s, t, w, c

LEMMA FramesTail ==
  ASSUME NEW D, NEW b \in [D -> Nat], NEW v \in Seq(D), Len(v) # 0
  PROVE  /\ Frames(b, Tail(v)) = Tail(Frames(b, v)) /\ Head(Frames(b, v)) = b[Head(v)]
         /\ Frames(b, v) # <<>>
<1> DEFINE w == Tail(v)
           u == Frames(b, v)
<1>1. /\ w \in Seq(D) /\ Len(w) = Len(v) - 1 /\ Head(v) = v[1] /\ Len(v) \in Nat
      /\ \A k \in 1..(Len(v) - 1) : w[k] = v[k + 1]
  BY HeadTailProperties, LenProperties
<1>2. u \in Seq(Nat) /\ Len(u) = Len(v) /\ \A k \in 1..Len(v) : u[k] = b[v[k]]
  BY FramesAre
<1> HIDE DEF w, u
<1>a. w \in Seq(D)
  BY <1>1
<1>b. Frames(b, w) \in Seq(Nat) /\ Len(Frames(b, w)) = Len(w)
  BY <1>a, FramesAre
<1>c. \A k \in 1..Len(w) : Frames(b, w)[k] = b[w[k]]
  BY DEF Frames
<1> DEFINE s == Frames(b, w)
           t == Tail(u)
<1>3. s \in Seq(Nat) /\ Len(s) = Len(w) /\ \A k \in 1..Len(w) : s[k] = b[w[k]]
  BY <1>b, <1>c
<1>4. u # <<>>
  BY <1>1, <1>2
<1>5. /\ t \in Seq(Nat) /\ Len(t) = Len(u) - 1 /\ Head(u) = u[1]
      /\ \A k \in 1..(Len(u) - 1) : t[k] = u[k + 1]
  BY <1>2, <1>4, HeadTailProperties
<1> HIDE DEF s, t
<1>6. \A k \in 1..Len(s) : s[k] = t[k]
  <2> SUFFICES ASSUME NEW k \in 1..Len(s) PROVE s[k] = t[k]
    OBVIOUS
  <2>1. k \in 1..(Len(v) - 1) /\ k + 1 \in 1..Len(v)
    BY <1>1, <1>3
  <2>2. s[k] = b[v[k + 1]]
    BY <2>1, <1>1, <1>3
  <2>3. t[k] = b[v[k + 1]]
    BY <2>1, <1>2, <1>5
  <2> QED
    BY <2>2, <2>3
<1>7. s = t
  BY <1>1, <1>2, <1>3, <1>5, <1>6, SeqEqual
<1> QED
  BY <1>1, <1>2, <1>4, <1>5, <1>7 DEF s, t, u, w

\* What the model reads off the rings.
LEMMA RingFrames ==
  ASSUME Virtio!VirtioAssumption, NEW q \in Virtqueue
  PROVE  /\ [k \in 1..Virtio!Between(q.last, q.used_idx) |-> q.buffer[q.used[(q.last + (k - 1)) % QueueSize]]]
              = Frames(q.buffer, Back(q))
         /\ [k \in 1..Virtio!Between(q.taken, q.avail_idx) |-> q.buffer[q.avail[(q.taken + (k - 1)) % QueueSize]]]
              = Frames(q.buffer, Given(q))
         /\ q.buffer \in [Descriptors -> Nat]
         /\ Frames(q.buffer, Back(q)) \in Seq(Nat) /\ Len(Frames(q.buffer, Back(q))) = Len(Back(q))
         /\ Frames(q.buffer, Given(q)) \in Seq(Nat) /\ Len(Frames(q.buffer, Given(q))) = Len(Given(q))
<1>1. /\ Virtio!Between(q.taken, q.avail_idx) = Far(q.taken, q.avail_idx, IndexLimit)
      /\ Virtio!Between(q.last, q.used_idx) = Far(q.last, q.used_idx, IndexLimit)
      /\ Virtio!Between(q.taken, q.avail_idx) = Len(Given(q))
      /\ Virtio!Between(q.last, q.used_idx) = Len(Back(q))
  BY RingsAreSeqs DEF Virtio!Between, Far
<1> DEFINE n == Len(Given(q))
           m == Len(Back(q))
<1>2. \A k \in 1..n : Given(q)[k] = q.avail[(q.taken + (k - 1)) % QueueSize]
  BY <1>1 DEF Given, View
<1>3. \A k \in 1..m : Back(q)[k] = q.used[(q.last + (k - 1)) % QueueSize]
  BY <1>1 DEF Back, View
<1>4. q.buffer \in [Descriptors -> Nat]
  BY DEF Virtqueue
<1>5. /\ Frames(q.buffer, Back(q)) \in Seq(Nat) /\ Len(Frames(q.buffer, Back(q))) = Len(Back(q))
      /\ Frames(q.buffer, Given(q)) \in Seq(Nat) /\ Len(Frames(q.buffer, Given(q))) = Len(Given(q))
  BY <1>4, RingsAreSeqs, FramesAre
<1> HIDE DEF n, m
<1>6. [k \in 1..n |-> q.buffer[q.avail[(q.taken + (k - 1)) % QueueSize]]] = [k \in 1..n |-> q.buffer[Given(q)[k]]]
  BY <1>2
<1>7. [k \in 1..m |-> q.buffer[q.used[(q.last + (k - 1)) % QueueSize]]] = [k \in 1..m |-> q.buffer[Back(q)[k]]]
  BY <1>3
<1> QED
  BY <1>1, <1>4, <1>5, <1>6, <1>7 DEF Frames, n, m

RxFrames(q) == Frames(q.buffer, Back(q))
TxFrames(q) == Frames(q.buffer, Given(q))

\* The frames that wait came from the wire.
Known == RxFrames(rx) \in Seq(1..MaxFrames)

LinkInv == VirtioInv /\ Known

LEMMA LinkReads ==
  ASSUME Virtio!VirtioAssumption
  PROVE  /\ rx \in Virtqueue => Virtio!Unread = RxFrames(rx)
         /\ tx \in Virtqueue => Virtio!Unsent = TxFrames(tx)
         /\ rx' \in Virtqueue => Virtio!Unread' = RxFrames(rx')
         /\ tx' \in Virtqueue => Virtio!Unsent' = TxFrames(tx')
         /\ Known' <=> RxFrames(rx') \in Seq(1..MaxFrames)
<1>1. /\ rx \in Virtqueue => Virtio!Unread = RxFrames(rx)
      /\ tx \in Virtqueue => Virtio!Unsent = TxFrames(tx)
  BY RingFrames DEF Virtio!Unread, Virtio!Unsent, RxFrames, TxFrames
<1>2. rx' \in Virtqueue => Virtio!Unread' = RxFrames(rx')
  BY RingFrames DEF Virtio!Unread, RxFrames
<1>3. tx' \in Virtqueue => Virtio!Unsent' = TxFrames(tx')
  BY RingFrames DEF Virtio!Unsent, TxFrames
<1>4. Known' <=> RxFrames(rx') \in Seq(1..MaxFrames)
  BY DEF Known, RxFrames, Frames, Back
<1> QED
  BY <1>1, <1>2, <1>3, <1>4

LEMMA LinkQueues ==
  ASSUME VirtioInv
  PROVE  rx \in Virtqueue /\ tx \in Virtqueue /\ Apart(rx) /\ Apart(tx)
BY ApartIs DEF VirtioInv, RxInv, TxInv

LEMMA ReceiveArrives ==
  ASSUME Virtio!VirtioAssumption, LinkInv, Virtio!Receive
  PROVE  Known' /\ Virtio!Link!Next
<1>1. /\ rx \in Virtqueue /\ Apart(rx) /\ arrived \in Nat /\ VirtioInv /\ MaxFrames \in Nat /\ MaxSends \in Nat
  BY LinkQueues, VirtioConstants DEF LinkInv, VirtioInv, CountInv
<1> DEFINE d == Head(Given(rx))
           u == Frames(rx.buffer, Back(rx))
           f == arrived + 1
<1>2. /\ Apart(rx') /\ Back(rx') = Longer(Back(rx), d)
      /\ d \in Descriptors /\ rx'.buffer = [rx.buffer EXCEPT ![d] = arrived + 1] /\ d \notin Members(Back(rx))
      /\ Len(Back(rx)) < QueueSize
  BY <1>1, DeviceReceives
<1>3. /\ at' = at /\ tx' = tx /\ passed' = passed /\ sent' = sent /\ arrived < MaxFrames
  BY DEF Virtio!Receive, Virtio!initVars
<1> HIDE DEF d
<1>4. rx.buffer \in [Descriptors -> Nat] /\ Back(rx) \in Seq(Descriptors) /\ Len(u) = Len(Back(rx))
  BY <1>1, RingFrames, RingsAreSeqs
<1>5. Frames(rx'.buffer, Back(rx')) = Longer(u, f)
  <2>1. f \in Nat /\ rx'.buffer = Put(rx.buffer, d, f)
    BY <1>1, <1>2 DEF Put
  <2> HIDE DEF f
  <2> QED
    BY <1>2, <1>4, <2>1, FramesLonger
<1>6. rx' \in Virtqueue
  BY <1>2, ApartIs
<1>7. Virtio!Unread = u /\ Virtio!Unread' = Longer(u, f)
  BY <1>1, <1>5, <1>6, LinkReads DEF RxFrames
<1>8. u \in Seq(1..MaxFrames) /\ f \in 1..MaxFrames
  BY <1>1, <1>3 DEF LinkInv, Known, RxFrames
<1>9. Known'
  <2> HIDE DEF u, f
  <2>1. Longer(u, f) \in Seq(1..MaxFrames)
    BY <1>8, AppendProperties DEF Longer
  <2> QED
    BY <2>1, <1>5, LinkReads DEF RxFrames
<1>10. Virtio!Link!Arrive(f)
  <2>1. Virtio!Unsent' = Virtio!Unsent
    BY <1>3 DEF Virtio!Unsent
  <2>2. Virtio!Unread' = Append(Virtio!Unread, f) /\ Len(Virtio!Unread) < QueueSize
    BY <1>2, <1>4, <1>7 DEF Longer
  <2> QED
    BY <1>3, <2>1, <2>2 DEF Virtio!Link!Arrive
<1> HIDE DEF f
<1>11. f \in 1..(MaxFrames + MaxSends)
  BY <1>1, <1>8
<1> QED
  BY <1>9, <1>10, <1>11 DEF Virtio!Link!Next

LEMMA TakeFramePasses ==
  ASSUME Virtio!VirtioAssumption, LinkInv, Virtio!TakeFrame
  PROVE  Known' /\ Virtio!Link!Next
<1>1. /\ rx \in Virtqueue /\ Apart(rx) /\ VirtioInv /\ MaxFrames \in Nat
  BY LinkQueues, VirtioConstants DEF LinkInv
<1>0. at = "online"
  BY <1>1, VirtioTakeFrame
<1> DEFINE d == Head(Back(rx))
           u == Frames(rx.buffer, Back(rx))
<1>2. /\ Apart(rx') /\ Back(rx') = Tail(Back(rx)) /\ rx'.buffer = rx.buffer
      /\ Len(Back(rx)) # 0
      /\ passed' = IF Virtio!Good(rx.buffer[d]) THEN Append(passed, rx.buffer[d]) ELSE passed
  BY <1>1, DriverTakes
<1>3. /\ at' = at /\ tx' = tx /\ sent' = sent
  BY DEF Virtio!TakeFrame, Virtio!initVars
<1>4. rx.buffer \in [Descriptors -> Nat] /\ Back(rx) \in Seq(Descriptors)
  BY <1>1, RingFrames, RingsAreSeqs
<1>5. Frames(rx'.buffer, Back(rx')) = Tail(u) /\ Head(u) = rx.buffer[d] /\ u # <<>>
  BY <1>2, <1>4, FramesTail
<1>6. rx' \in Virtqueue
  BY <1>2, ApartIs
<1>7. Virtio!Unread = u /\ Virtio!Unread' = Tail(u)
  BY <1>1, <1>5, <1>6, LinkReads DEF RxFrames
<1>8. u \in Seq(1..MaxFrames)
  BY DEF LinkInv, Known, RxFrames
<1> HIDE DEF u, d
<1>9. Head(u) \in 1..MaxFrames /\ Tail(u) \in Seq(1..MaxFrames)
  BY <1>5, <1>8, HeadTailProperties
<1>10. Known'
  BY <1>5, <1>9, LinkReads DEF RxFrames
<1>11. Virtio!Unsent' = Virtio!Unsent
  BY <1>3 DEF Virtio!Unsent
<1>12. CASE Virtio!Good(rx.buffer[d])
  <2>1. Head(u) \in {f \in 1..MaxFrames : Virtio!Good(f)} /\ passed' = Append(passed, Head(u))
    BY <1>2, <1>5, <1>9, <1>12
  <2>2. Virtio!Link!PassUp
    BY <1>0, <1>3, <1>5, <1>7, <1>11, <2>1 DEF Virtio!Link!PassUp
  <2> QED
    BY <1>10, <2>2 DEF Virtio!Link!Next
<1>13. CASE ~Virtio!Good(rx.buffer[d])
  <2>1. Head(u) \notin {f \in 1..MaxFrames : Virtio!Good(f)} /\ passed' = passed
    BY <1>2, <1>5, <1>13
  <2>2. Virtio!Link!Discard
    BY <1>0, <1>3, <1>5, <1>7, <1>11, <2>1 DEF Virtio!Link!Discard
  <2> QED
    BY <1>10, <2>2 DEF Virtio!Link!Next
<1> QED
  BY <1>12, <1>13

\* The other steps leave the receive queue as it is.
LEMMA KnownKept ==
  ASSUME Known, rx' = rx
  PROVE  Known' /\ Virtio!Unread' = Virtio!Unread
BY DEF Known, RxFrames, Frames, Back, Virtio!Unread

LEMMA ChooseAccepts ==
  ASSUME Virtio!VirtioAssumption, LinkInv, Virtio!Choose
  PROVE  Known' /\ (Virtio!Link!Next \/ UNCHANGED Virtio!Link!vars)
<1>1. /\ tx \in Virtqueue /\ VirtioInv /\ MaxFrames \in Nat /\ MaxSends \in Nat /\ accepted \in Seq(Nat)
  BY LinkQueues, VirtioConstants DEF LinkInv, VirtioInv, CountInv
<1>2. /\ at' = at /\ rx' = rx /\ passed' = passed /\ sent' = sent
  BY DEF Virtio!Choose, Virtio!initVars
<1>3. Known' /\ Virtio!Unread' = Virtio!Unread
  BY <1>2, KnownKept DEF LinkInv
<1>4. at = "online" /\ Len(accepted) < MaxSends /\ VirtioInv'
  BY <1>1, VirtioChoose
<1>5. CASE UNCHANGED <<tx, accepted>>
  BY <1>2, <1>3, <1>5 DEF Virtio!Link!vars, Virtio!Unsent
<1>6. CASE \E d \in Descriptors :
             /\ d \notin Members(Given(tx)) /\ Len(Given(tx)) < QueueSize
             /\ Given(tx') = Longer(Given(tx), d)
             /\ tx'.buffer = [tx.buffer EXCEPT ![d] = Len(accepted) + 1]
  <2>1. PICK d \in Descriptors :
             /\ d \notin Members(Given(tx)) /\ Len(Given(tx)) < QueueSize
             /\ Given(tx') = Longer(Given(tx), d)
             /\ tx'.buffer = [tx.buffer EXCEPT ![d] = Len(accepted) + 1]
    BY <1>6
  <2> DEFINE u == Frames(tx.buffer, Given(tx))
             f == Len(accepted) + 1
  <2>2. tx.buffer \in [Descriptors -> Nat] /\ Given(tx) \in Seq(Descriptors) /\ Len(u) = Len(Given(tx))
    BY <1>1, RingFrames, RingsAreSeqs
  <2>3. f \in Nat /\ f \in 1..(MaxFrames + MaxSends)
    BY <1>1, <1>4
  <2>4. tx'.buffer = Put(tx.buffer, d, f)
    BY <2>1 DEF Put
  <2> HIDE DEF f
  <2>5. Frames(tx'.buffer, Given(tx')) = Longer(u, f)
    BY <2>1, <2>2, <2>3, <2>4, FramesLonger
  <2>6. tx' \in Virtqueue
    BY <1>4, PrimedParts, ApartIs DEF VirtioInv
  <2>7. Virtio!Unsent = u /\ Virtio!Unsent' = Longer(u, f)
    BY <1>1, <2>5, <2>6, LinkReads DEF TxFrames
  <2>8. Virtio!Unsent' = Append(Virtio!Unsent, f) /\ Len(Virtio!Unsent) < QueueSize
    BY <2>1, <2>2, <2>7 DEF Longer
  <2>9. Virtio!Link!Accept(f)
    BY <1>2, <1>3, <1>4, <2>8 DEF Virtio!Link!Accept
  <2> QED
    BY <1>3, <2>3, <2>9 DEF Virtio!Link!Next
<1> QED
  BY <1>1, <1>5, <1>6, VirtioChoose

LEMMA EmitEmits ==
  ASSUME Virtio!VirtioAssumption, LinkInv, Virtio!Emit
  PROVE  Known' /\ Virtio!Link!Next
<1>1. tx \in Virtqueue /\ VirtioInv
  BY LinkQueues DEF LinkInv
<1>2. /\ at' = at /\ rx' = rx /\ passed' = passed
      /\ sent' = Append(sent, tx.buffer[tx.avail[tx.taken % QueueSize]])
  BY DEF Virtio!Emit, Virtio!initVars
<1>3. Known' /\ Virtio!Unread' = Virtio!Unread
  BY <1>2, KnownKept DEF LinkInv
<1>4. /\ VirtioInv' /\ Given(tx') = Tail(Given(tx)) /\ Len(Given(tx)) # 0 /\ tx'.buffer = tx.buffer
      /\ tx.avail[tx.taken % QueueSize] = Head(Given(tx))
  BY <1>1, VirtioEmit
<1> DEFINE u == Frames(tx.buffer, Given(tx))
<1>5. tx.buffer \in [Descriptors -> Nat] /\ Given(tx) \in Seq(Descriptors)
  BY <1>1, RingFrames, RingsAreSeqs
<1>6. Frames(tx'.buffer, Given(tx')) = Tail(u) /\ Head(u) = tx.buffer[Head(Given(tx))] /\ u # <<>>
  BY <1>4, <1>5, FramesTail
<1>7. tx' \in Virtqueue
  BY <1>4, PrimedParts, ApartIs DEF VirtioInv
<1>8. Virtio!Unsent = u /\ Virtio!Unsent' = Tail(u)
  BY <1>1, <1>6, <1>7, LinkReads DEF TxFrames
<1> HIDE DEF u
<1>9. Virtio!Link!Emit
  BY <1>2, <1>3, <1>4, <1>6, <1>8 DEF Virtio!Link!Emit
<1> QED
  BY <1>3, <1>9 DEF Virtio!Link!Next

\* The queues are made: nothing waits in them yet.
LEMMA QueuesStart ==
  ASSUME Virtio!VirtioAssumption, LinkInv, Virtio!Queues
  PROVE  Known' /\ (Virtio!Link!Next \/ UNCHANGED Virtio!Link!vars)
<1>1. /\ at = "queues" /\ passed' = passed /\ sent' = sent /\ VirtioInv
  BY DEF Virtio!Queues, Virtio!historyVars, LinkInv
<1>2. Frames(rx.buffer, Back(rx)) = <<>> /\ Frames(tx.buffer, Given(tx)) = <<>>
  BY <1>1 DEF VirtioInv, SetupInv, Frames
<1>3. Virtio!Unread = <<>> /\ Virtio!Unsent = <<>>
  BY <1>1, <1>2, LinkQueues, LinkReads DEF RxFrames, TxFrames
<1>4. CASE Virtio!FailDevice /\ UNCHANGED <<polled, Virtio!queueVars>>
  <2>1. rx' = rx /\ tx' = tx /\ at' = "probe"
    BY <1>4 DEF Virtio!queueVars, Virtio!FailDevice
  <2> QED
    BY <1>1, <2>1, KnownKept DEF LinkInv, Virtio!Link!vars, Virtio!Unsent
<1>5. CASE at' = "online" /\ rx' = Virtio!Submitted /\ tx' = Virtio!Empty
  <2>1. Apart(rx') /\ Apart(tx') /\ Back(rx') = <<>> /\ Given(tx') = <<>>
    BY <1>5, AllSubmitted, EmptyQueue
  <2>2. Frames(rx'.buffer, Back(rx')) = <<>> /\ Frames(tx'.buffer, Given(tx')) = <<>>
    BY <2>1 DEF Frames
  <2>3. Virtio!Unread' = <<>> /\ Virtio!Unsent' = <<>>
    BY <2>1, <2>2, ApartIs, LinkReads DEF RxFrames, TxFrames
  <2>4. Known'
    BY <2>2, LinkReads DEF RxFrames
  <2>5. Virtio!Link!Start
    BY <1>1, <1>3, <1>5, <2>3 DEF Virtio!Link!Start
  <2> QED
    BY <2>4, <2>5 DEF Virtio!Link!Next
<1> QED
  BY <1>4, <1>5 DEF Virtio!Queues

LEMMA LinkStutters ==
  ASSUME Virtio!VirtioAssumption, LinkInv,
         \/ Virtio!Probe \/ Virtio!Features \/ Virtio!Poll \/ Virtio!RxDone \/ Virtio!Send
         \/ (\E d \in Virtio!Ids : Virtio!GiveBack(d)) \/ (\E t \in Reapers : Virtio!Reap(t)) \/ UNCHANGED Virtio!vars
  PROVE  Known' /\ UNCHANGED Virtio!Link!vars
<1>1. Known /\ VirtioInv /\ tx \in Virtqueue
  BY LinkQueues DEF LinkInv
<1>2. CASE \/ Virtio!Probe \/ Virtio!Features \/ Virtio!Poll \/ Virtio!RxDone \/ Virtio!Send \/ UNCHANGED Virtio!vars
  <2>1. /\ rx' = rx /\ tx' = tx /\ passed' = passed /\ sent' = sent
    BY <1>2 DEF Virtio!Probe, Virtio!Features, Virtio!Poll, Virtio!RxDone, Virtio!Send, Virtio!vars,
         Virtio!queueVars, Virtio!historyVars
  <2>2. (at' = "online") = (at = "online")
    BY <1>2 DEF Virtio!Probe, Virtio!Features, Virtio!FailDevice, Virtio!Poll, Virtio!RxDone, Virtio!Send, Virtio!vars,
         Virtio!initVars
  <2>3. Virtio!Unread' = Virtio!Unread /\ Known' /\ Virtio!Unsent' = Virtio!Unsent
    BY <1>1, <2>1, KnownKept DEF Virtio!Unsent
  <2> QED
    BY <2>1, <2>2, <2>3 DEF Virtio!Link!vars
<1>3. CASE (\E d \in Virtio!Ids : Virtio!GiveBack(d)) \/ \E t \in Reapers : Virtio!Reap(t)
  <2>1. /\ at' = at /\ rx' = rx /\ passed' = passed /\ sent' = sent
    BY <1>3 DEF Virtio!GiveBack, Virtio!Reap, Virtio!Look, Virtio!Bump, Virtio!Clear, Virtio!ReapDone,
         Virtio!initVars, Virtio!queueVars, Virtio!historyVars
  <2>2. VirtioInv' /\ Given(tx') = Given(tx) /\ tx'.buffer = tx.buffer
    BY <1>1, <1>3, VirtioGiveBack, VirtioReap
  <2>3. tx' \in Virtqueue
    BY <2>2, PrimedParts, ApartIs DEF VirtioInv
  <2>4. Virtio!Unsent' = Virtio!Unsent
    BY <1>1, <2>2, <2>3, LinkReads DEF TxFrames
  <2>5. Virtio!Unread' = Virtio!Unread /\ Known'
    BY <1>1, <2>1, KnownKept
  <2> QED
    BY <2>1, <2>4, <2>5 DEF Virtio!Link!vars
<1> QED
  BY <1>2, <1>3

LEMMA LinkInit ==
  ASSUME Virtio!VirtioAssumption, Virtio!Init
  PROVE  LinkInv /\ Virtio!Link!Init
<1>1. VirtioInv
  BY VirtioInit
<1>2. Frames(rx.buffer, Back(rx)) = <<>> /\ Frames(tx.buffer, Given(tx)) = <<>> /\ at = "probe"
  BY EmptyQueue DEF Virtio!Init, Frames
<1>3. Virtio!Unread = <<>> /\ Virtio!Unsent = <<>>
  BY <1>1, <1>2, LinkQueues, LinkReads DEF RxFrames, TxFrames
<1>4. Known
  BY <1>2 DEF Known, RxFrames
<1> QED
  BY <1>1, <1>2, <1>3, <1>4 DEF LinkInv, Virtio!Link!Init, Virtio!Init

LEMMA LinkStep ==
  ASSUME Virtio!VirtioAssumption, Serialised, LinkInv, [Virtio!Next]_(Virtio!vars)
  PROVE  LinkInv' /\ [Virtio!Link!Next]_(Virtio!Link!vars)
<1>1. VirtioInv'
  BY VirtioStep DEF LinkInv
<1>2. CASE Virtio!Receive \/ Virtio!TakeFrame \/ Virtio!Choose \/ Virtio!Emit \/ Virtio!Queues
  BY <1>1, <1>2, ReceiveArrives, TakeFramePasses, ChooseAccepts, EmitEmits, QueuesStart DEF LinkInv
<1>3. CASE \/ Virtio!Probe \/ Virtio!Features \/ Virtio!Poll \/ Virtio!RxDone \/ Virtio!Send
           \/ (\E d \in Virtio!Ids : Virtio!GiveBack(d)) \/ (\E t \in Reapers : Virtio!Reap(t)) \/ UNCHANGED Virtio!vars
  BY <1>1, <1>3, LinkStutters DEF LinkInv
<1> QED
  BY <1>2, <1>3 DEF Virtio!Next, Virtio!Setup, Virtio!Device, Virtio!Worker, Virtio!Sender, Reapers

\* The driver of virtio cards implements LinkFrames: frames go up and out once
\* and in order, and only damaged ones are left out, over devices that fail
\* and a full queue (virtio_net.cpp:444-477, 736-776).
THEOREM VirtioKeepsFrames ==
  ASSUME Virtio!VirtioAssumption, Serialised
  PROVE  Virtio!Spec => Virtio!FramesInOrder
<1>1. Virtio!Init => LinkInv /\ Virtio!Link!Init
  BY LinkInit
<1>2. LinkInv /\ [Virtio!Next]_(Virtio!vars) => LinkInv' /\ [Virtio!Link!Next]_(Virtio!Link!vars)
  BY LinkStep
<1> QED
  BY <1>1, <1>2, PTL DEF Virtio!Spec, Virtio!FramesInOrder, Virtio!Link!Spec

-----------------------------------------------------------------------------
(* The driver of Intel controllers: the memory that the device may use.    *)

Tried == 1..Candidates

\* A device writes to memory only while the driver keeps it, and has a receiver
\* that is on only while it is the one that is tried or in use.
DmaInv ==
  /\ nic_at \in {"probe", "rx", "tx", "link", "service", "clear", "online", "quiesce", "drain", "none"}
  /\ nic_cur \in 1..(Candidates + 1)
  /\ nic_at \notin {"probe", "none"} => nic_cur =< Candidates
  /\ hw \in [Tried -> [rx : BOOLEAN, busy : BOOLEAN]]
  /\ pages \in [Tried -> {"none", "held", "freed", "retained"}]
  /\ \A d \in Tried :
       /\ hw[d].rx \/ hw[d].busy => pages[d] \in {"held", "retained"}
       /\ hw[d].rx => d = nic_cur /\ nic_at \in {"tx", "link", "service", "clear", "online", "quiesce"}
       /\ pages[d] = "held" => d = nic_cur /\ nic_at \notin {"probe", "rx", "none"}

LEMMA DmaInit ==
  ASSUME Intel!E1000eAssumption, Intel!Init PROVE DmaInv
BY DEF Intel!E1000eAssumption, Intel!Init, DmaInv, Tried

LEMMA DmaStep ==
  ASSUME Intel!E1000eAssumption, DmaInv, [Intel!Next]_(Intel!vars)
  PROVE  DmaInv'
<1> USE DEF DmaInv, Tried
<1>0. Candidates \in Nat
  BY DEF Intel!E1000eAssumption
<1>1. CASE Intel!Probe
  <2>1. UNCHANGED <<hw, pages>>
    BY <1>1 DEF Intel!Probe
  <2> QED
    BY <1>0, <1>1, <2>1 DEF Intel!Probe
<1>2. CASE Intel!SetupRx
  <2>1. nic_at = "rx" /\ nic_cur \in Tried /\ nic_cur' = nic_cur /\ pages' = [pages EXCEPT ![nic_cur] = "held"]
    BY <1>0, <1>2 DEF Intel!SetupRx
  <2>2. \/ nic_at' = "quiesce" /\ hw' = hw
        \/ nic_at' = "tx" /\ hw' = [hw EXCEPT ![nic_cur].rx = TRUE]
    BY <1>2 DEF Intel!SetupRx
  <2> QED
    BY <1>0, <2>1, <2>2
<1>3. CASE Intel!SetupTx
  BY <1>3 DEF Intel!SetupTx
<1>4. CASE Intel!RegisterLink
  BY <1>4 DEF Intel!RegisterLink
<1>5. CASE Intel!RegisterService
  BY <1>5 DEF Intel!RegisterService
<1>6. CASE Intel!ClearCauses
  BY <1>6 DEF Intel!ClearCauses
<1>7. CASE Intel!Quiesce
  BY <1>0, <1>7 DEF Intel!Quiesce
<1>8. CASE Intel!Drain
  <2>1. /\ nic_at = "drain" /\ nic_cur \in Tried /\ nic_cur' = nic_cur + 1 /\ nic_at' = "probe" /\ hw' = hw
        /\ \/ pages' = [pages EXCEPT ![nic_cur] = "retained"]
           \/ pages' = [pages EXCEPT ![nic_cur] = "freed"] /\ ~hw[nic_cur].busy
    <3>1. nic_at = "drain" /\ nic_cur \in Tried /\ nic_cur' = nic_cur + 1 /\ nic_at' = "probe" /\ hw' = hw
      BY <1>0, <1>8 DEF Intel!Drain
    <3>2. PICK disabled \in BOOLEAN :
            pages' = [pages EXCEPT ![nic_cur] = IF ~hw[nic_cur].busy /\ disabled THEN "freed" ELSE "retained"]
      BY <1>8 DEF Intel!Drain, Intel!Released
    <3>3. \/ pages' = [pages EXCEPT ![nic_cur] = "retained"]
          \/ pages' = [pages EXCEPT ![nic_cur] = "freed"] /\ ~hw[nic_cur].busy
      <4>1. CASE ~hw[nic_cur].busy /\ disabled
        BY <3>2, <4>1, Zenon
      <4>2. CASE ~(~hw[nic_cur].busy /\ disabled)
        BY <3>2, <4>2, Zenon
      <4> QED
        BY <4>1, <4>2
    <3> QED
      BY <3>1, <3>3
  <2> QED
    BY <1>0, <2>1
<1>9. CASE \E d \in Tried : Intel!BeginDma(d) \/ Intel!EndDma(d)
  <2>1. PICK d \in Tried : Intel!BeginDma(d) \/ Intel!EndDma(d)
    BY <1>9
  <2>2. /\ UNCHANGED <<nic_at, nic_cur, pages>>
        /\ \/ hw' = [hw EXCEPT ![d].busy = TRUE] /\ hw[d].rx
           \/ hw' = [hw EXCEPT ![d].busy = FALSE]
    BY <2>1 DEF Intel!BeginDma, Intel!EndDma
  <2>3. /\ hw' \in [Tried -> [rx : BOOLEAN, busy : BOOLEAN]]
        /\ \A e \in Tried : hw'[e].rx = hw[e].rx /\ (hw'[e].busy => hw[e].busy \/ hw[e].rx)
    <3>1. CASE hw' = [hw EXCEPT ![d].busy = TRUE] /\ hw[d].rx
      BY <3>1
    <3>2. CASE hw' = [hw EXCEPT ![d].busy = FALSE]
      BY <3>2
    <3> QED
      BY <2>2, <3>1, <3>2
  <2> QED
    BY <2>2, <2>3
<1>10. CASE Intel!Receive \/ Intel!Emit \/ Intel!Service \/ Intel!Transmit \/ UNCHANGED Intel!vars
  <2>1. UNCHANGED <<nic_at, nic_cur, hw, pages>>
    BY <1>10 DEF Intel!Receive, Intel!Emit, Intel!Service, Intel!Poll, Intel!Interrupt, Intel!TakeFrame, Intel!Recycle,
      Intel!ServiceDone, Intel!Transmit, Intel!vars, Intel!initVars
  <2> QED
    BY <2>1
<1> QED
  BY <1>1, <1>2, <1>3, <1>4, <1>5, <1>6, <1>7, <1>8, <1>9, <1>10 DEF Intel!Next, Intel!Setup, Intel!Device

\* Memory that was given back is out of reach of the device, however many
\* devices are tried and given up (e1000e.cpp:678-738, 1081-1090).
THEOREM DmaIsSafe ==
  ASSUME Intel!E1000eAssumption
  PROVE  Intel!Spec => []Intel!DmaSafe
<1>1. Intel!Init => DmaInv
  BY DmaInit
<1>2. DmaInv /\ [Intel!Next]_(Intel!vars) => DmaInv'
  BY DmaStep
<1>3. DmaInv => Intel!DmaSafe
  BY DEF DmaInv, Intel!DmaSafe, Tried
<1> QED
  BY <1>1, <1>2, <1>3, PTL DEF Intel!Spec

-----------------------------------------------------------------------------
(* A ring with as many places as indices.                                  *)

LEMMA SmallPlace ==
  ASSUME NEW r \in Nat \ {0}, NEW i \in 0..(r - 1)
  PROVE  i % r = i /\ r % r = 0
<1>1. i = r * 0 + i /\ i \in Int /\ 0 \in Int
  OBVIOUS
<1>2. r = r * 1 + 0 /\ 0 \in 0..(r - 1) /\ 1 \in Int /\ r \in Int
  OBVIOUS
<1> QED
  BY <1>1, <1>2, ModIs

LEMMA PlaceAfter ==
  ASSUME NEW r \in Nat \ {0}, NEW i \in 0..(r - 1), NEW n \in 0..r
  PROVE  /\ (i + n) % r = IF i + n < r THEN i + n ELSE (i + n) - r
         /\ (i + n) % r \in 0..(r - 1)
<1>1. CASE i + n < r
  <2>1. i + n = r * 0 + (i + n) /\ i + n \in 0..(r - 1) /\ i + n \in Int /\ 0 \in Int
    BY <1>1
  <2> QED
    BY <1>1, <2>1, ModIs
<1>2. CASE ~(i + n < r)
  <2>1. i + n = r * 1 + ((i + n) - r) /\ (i + n) - r \in 0..(r - 1) /\ i + n \in Int /\ 1 \in Int
    BY <1>2
  <2> QED
    BY <1>2, <2>1, ModIs
<1> QED
  BY <1>1, <1>2

LEMMA FarSkip ==
  ASSUME NEW r \in Nat \ {0}, NEW i \in 0..(r - 1), NEW j \in 0..(r - 1), NEW n \in 0..Far(i, j, r)
  PROVE  Far((i + n) % r, j, r) = Far(i, j, r) - n
<1> DEFINE k == (i + n) % r
<1>1. /\ Far(i, j, r) = IF i =< j THEN j - i ELSE (j + r) - i
      /\ Far(i, j, r) \in 0..(r - 1)
  BY FarIs
<1>2. n \in 0..r
  BY <1>1
<1>3. k = (IF i + n < r THEN i + n ELSE (i + n) - r) /\ k \in 0..(r - 1)
  BY <1>2, PlaceAfter
<1> HIDE DEF k
<1>4. Far(k, j, r) = IF k =< j THEN j - k ELSE (j + r) - k
  BY <1>3, FarIs
<1>5. Far(k, j, r) = Far(i, j, r) - n
  BY <1>1, <1>2, <1>3, <1>4
<1> QED
  BY <1>5 DEF k

\* One place stays free.
LEMMA RoomLeft ==
  ASSUME NEW r \in Nat \ {0}, NEW i \in 0..(r - 1), NEW j \in 0..(r - 1), (j + 1) % r # i
  PROVE  Far(i, j, r) < r - 1
<1>1. (j + 1) % r = IF j + 1 = r THEN 0 ELSE j + 1
  BY NextIndex
<1>2. Far(i, j, r) = IF i =< j THEN j - i ELSE (j + r) - i
  BY FarIs
<1> QED
  BY <1>1, <1>2

LEMMA RingPlace ==
  ASSUME NEW r \in Nat \ {0}, NEW i \in 0..(r - 1), NEW j \in 0..(r - 1)
  PROVE  (i + Far(i, j, r)) % r = j
<1>1. r % r = 0 /\ j % r = j
  BY SmallPlace
<1> QED
  BY <1>1, FarPlace

\* The places after the next one are the places after this one but the first.
LEMMA PlaceShifts ==
  ASSUME NEW r \in Nat \ {0}, NEW i \in 0..(r - 1), NEW k \in 0..(r - 1)
  PROVE  (((i + 1) % r) + k) % r = IF k = r - 1 THEN i ELSE (i + (k + 1)) % r
<1> DEFINE h == (i + 1) % r
<1>1. h = (IF i + 1 = r THEN 0 ELSE i + 1) /\ h \in 0..(r - 1)
  BY NextIndex
<1> HIDE DEF h
<1>a. k \in 0..r
  OBVIOUS
<1>2. (h + k) % r = IF h + k < r THEN h + k ELSE (h + k) - r
  BY <1>1, <1>a, PlaceAfter
<1>3. k + 1 \in 0..r
  OBVIOUS
<1>4. (i + (k + 1)) % r = IF i + (k + 1) < r THEN i + (k + 1) ELSE (i + (k + 1)) - r
  BY <1>3, PlaceAfter
<1>5. (h + k) % r = IF k = r - 1 THEN i ELSE (i + (k + 1)) % r
  BY <1>1, <1>2, <1>4
<1> QED
  BY <1>5 DEF h

LEMMA RingPush ==
  ASSUME NEW r \in Nat \ {0}, NEW i \in 0..(r - 1), NEW j \in 0..(r - 1), Far(i, j, r) < r - 1,
         NEW X, NEW ring \in [0..(r - 1) -> X], NEW d \in X
  PROVE  View(Put(ring, j, d), i, Far(i, (j + 1) % r, r), r) = Longer(View(ring, i, Far(i, j, r), r), d)
<1> DEFINE n == Far(i, j, r)
<1>1. n \in 0..(r - 1) /\ (i + n) % r = j
  BY FarIs, RingPlace
<1>2. Far(i, (j + 1) % r, r) = n + 1
  BY FarNext
<1> HIDE DEF n
<1>3. View(Put(ring, (i + n) % r, d), i, n + 1, r) = Longer(View(ring, i, n, r), d)
  BY <1>1, ViewPush
<1> QED
  BY <1>1, <1>2, <1>3 DEF n

Extends(ring, i, j, r, d) ==
  View(Put(ring, j, d), i, Far(i, (j + 1) % r, r), r) = Longer(View(ring, i, Far(i, j, r), r), d)

LEMMA RingExtends ==
  ASSUME NEW r \in Nat \ {0}, NEW i \in 0..(r - 1), NEW j \in 0..(r - 1), Far(i, j, r) < r - 1,
         NEW X, NEW ring \in [0..(r - 1) -> X], NEW d \in X
  PROVE  Extends(ring, i, j, r, d)
BY RingPush DEF Extends

LEMMA RingPop ==
  ASSUME NEW r \in Nat \ {0}, NEW i \in 0..(r - 1), NEW j \in 0..(r - 1), i # j,
         NEW X, NEW ring \in [0..(r - 1) -> X]
  PROVE  /\ View(ring, (i + 1) % r, Far((i + 1) % r, j, r), r) = Tail(View(ring, i, Far(i, j, r), r))
         /\ Head(View(ring, i, Far(i, j, r), r)) = ring[i]
         /\ View(ring, i, Far(i, j, r), r) # <<>>
<1> DEFINE n == Far(i, j, r)
           h == (i + 1) % r
<1>1. n \in Nat \ {0} /\ Far(h, j, r) = n - 1
  BY FarLess
<1>2. r % r = 0 /\ i % r = i
  BY SmallPlace
<1>a. h \in 0..(r - 1)
  BY NextIndex
<1>3. h \in 0..(r - 1) /\ h % r = (i + 1) % r
  <2> HIDE DEF n, h
  <2>1. h % r = h
    BY <1>a, SmallPlace
  <2> QED
    BY <1>a, <2>1 DEF h
<1> HIDE DEF n, h
<1>4. h \in Nat /\ i + 1 \in Nat /\ n - 1 \in Nat /\ i \in Nat
  BY <1>1, <1>3
<1>5. View(ring, h, n - 1, r) = View(ring, i + 1, n - 1, r)
  BY <1>3, <1>4, ViewFrom
<1>6. /\ Head(View(ring, i, n, r)) = ring[i % r]
      /\ View(ring, i + 1, n - 1, r) = Tail(View(ring, i, n, r))
  BY <1>1, <1>4, ViewPop
<1>7. Len(View(ring, i, n, r)) = n
  BY <1>1, <1>4, ViewIsSeq
<1>8. View(ring, i, n, r) # <<>>
  BY <1>1, <1>7
<1> QED
  BY <1>1, <1>2, <1>5, <1>6, <1>8 DEF n, h

LEMMA LeastOf ==
  ASSUME NEW S \in SUBSET Nat, S # {}
  PROVE  \E i \in S : \A j \in S : i =< j
<1> DEFINE R == OpToRel(<, Nat)
<1>1. IsWellFoundedOn(R, Nat)
  BY NatLessThanWellFounded
<1>2. \A i, j \in Nat : <<j, i>> \in R <=> j < i
  BY DEF OpToRel
<1> HIDE DEF R
<1>3. PICK i \in S : \A j \in S : ~ (<<j, i>> \in R)
  BY <1>1, WFMin, Zenon
<1>4. \A j \in S : j \in Nat /\ i \in Nat /\ ~(j < i)
  BY <1>2, <1>3
<1> QED
  BY <1>4

LEMMA GreatestOf ==
  ASSUME NEW n \in Nat, NEW S \in SUBSET (0..n), S # {}
  PROVE  \E i \in S : \A j \in S : i >= j
<1> DEFINE T == {n - i : i \in S}
<1>1. T \in SUBSET Nat /\ T # {}
  <2>1. \A i \in S : n - i \in Nat
    OBVIOUS
  <2>2. PICK i \in S : TRUE
    OBVIOUS
  <2>3. n - i \in T
    BY <2>2
  <2> QED
    BY <2>1, <2>3
<1>2. PICK t \in T : \A u \in T : t =< u
  BY <1>1, LeastOf
<1>3. PICK i \in S : t = n - i
  BY <1>2
<1>4. \A j \in S : n - j \in T /\ j \in 0..n /\ i \in 0..n
  BY <1>3
<1>5. \A j \in S : i >= j
  BY <1>2, <1>3, <1>4
<1> QED
  BY <1>3, <1>5

-----------------------------------------------------------------------------
(* The rings of the driver of Intel controllers.                           *)

RingPlaces == 0..(RingCount - 1)

Live == nic_cur \in Tried /\ hw[nic_cur].rx

Got == Far(rx_index, rdh, RingCount)  \* descriptors filled and not given back
Out == Far(tdh, tdt, RingCount)       \* descriptors that wait for the wire

\* The driver is called only once it serves the device, which it then keeps.
ServiceInv ==
  /\ mode \in {"poll", "msi", "none"} /\ service \in {"idle", "frames", "recycle"} /\ serviced \in 0..RingCount
  /\ mode # "none" => nic_at \in {"clear", "online"}
  /\ service # "idle" => mode # "none"
  /\ service = "recycle" => serviced < RingCount
  /\ nic_at \in {"tx", "link", "service", "clear", "online"} => hw[nic_cur].rx

Causes == icr \in BOOLEAN /\ ims \in BOOLEAN /\ msi \in BOOLEAN

\* Only what the device filled has a status, and the place before the next one
\* is the limit of the device.
ReceiveRing ==
  /\ rx_index \in RingPlaces /\ rdh \in RingPlaces /\ rdt \in RingPlaces
  /\ nic_rx \in [RingPlaces -> [dd : BOOLEAN, frame : 0..MaxFrames]] /\ nic_arrived \in 0..MaxFrames
  /\ service = "recycle" => rx_index # rdh
  /\ Live =>
       /\ (rdt + 1) % RingCount = rx_index
       /\ \A k \in Got..(RingCount - 1) : ~nic_rx[(rx_index + k) % RingCount].dd
       /\ \A k \in 0..(Got - 1) : nic_rx[(rx_index + k) % RingCount].frame # 0

\* What waits for the wire has no status and was not reaped.
TransmitRing ==
  /\ tx_head \in RingPlaces /\ tdh \in RingPlaces /\ tdt \in RingPlaces /\ tx_tail = tdt
  /\ nic_tx \in [RingPlaces -> [dd : BOOLEAN, frame : 0..NicSends]]
  /\ nic_accepted \in Seq(Nat) /\ Len(nic_accepted) =< NicSends
  /\ Far(tx_head, tdh, RingCount) + Out = Far(tx_head, tdt, RingCount)
  /\ \A k \in 0..(Out - 1) : ~nic_tx[(tdh + k) % RingCount].dd
  /\ nic_at \notin {"clear", "online"} => tdh = tdt

IntelInv == DmaInv /\ ServiceInv /\ Causes /\ ReceiveRing /\ TransmitRing

LEMMA IntelConstants ==
  ASSUME Intel!E1000eAssumption
  PROVE  /\ RingCount \in Nat \ {0} /\ RingCount > 1 /\ 0 \in RingPlaces /\ RingCount - 1 \in RingPlaces
         /\ Candidates \in Nat /\ MaxFrames \in Nat /\ NicSends \in Nat
BY DEF Intel!E1000eAssumption, RingPlaces

LEMMA PlaceNext ==
  ASSUME Intel!E1000eAssumption, NEW i \in RingPlaces
  PROVE  Intel!NextSlot(i) \in RingPlaces /\ Intel!NextSlot(i) = (i + 1) % RingCount
<1>1. RingCount \in Nat \ {0} /\ i \in 0..(RingCount - 1)
  BY IntelConstants DEF RingPlaces
<1> QED
  BY <1>1, NextIndex DEF Intel!NextSlot, RingPlaces

LEMMA ZeroRing ==
  ASSUME Intel!E1000eAssumption
  PROVE  /\ Intel!ZeroRx \in [RingPlaces -> [dd : BOOLEAN, frame : 0..MaxFrames]]
         /\ Intel!ZeroTx \in [RingPlaces -> [dd : BOOLEAN, frame : 0..NicSends]]
         /\ \A i \in RingPlaces : ~Intel!ZeroRx[i].dd
         /\ Far(0, 0, RingCount) = 0
<1>1. RingCount \in Nat \ {0} /\ 0 \in 0..(RingCount - 1) /\ MaxFrames \in Nat /\ NicSends \in Nat
  BY IntelConstants DEF RingPlaces
<1>2. Far(0, 0, RingCount) = 0
  BY <1>1, FarIs
<1> QED
  BY <1>1, <1>2 DEF Intel!ZeroRx, Intel!ZeroTx, Intel!Slots, RingPlaces

LEMMA IntelInit ==
  ASSUME Intel!E1000eAssumption, Intel!Init PROVE IntelInv
<1>1. /\ RingCount \in Nat \ {0} /\ 0 \in RingPlaces /\ MaxFrames \in Nat /\ NicSends \in Nat
  BY IntelConstants
<1>2. DmaInv
  BY DmaInit
<1>3. ServiceInv
  BY <1>1 DEF Intel!Init, ServiceInv
<1>4. Causes
  BY Zenon DEF Intel!Init, Causes
<1>5. ReceiveRing
  <2>1. ~Live
    BY DEF Intel!Init, Live, Tried
  <2> QED
    BY <1>1, <2>1, ZeroRing DEF Intel!Init, ReceiveRing
<1>6. TransmitRing
  <2>1. /\ tx_head = 0 /\ tdh = 0 /\ tdt = 0 /\ tx_tail = 0 /\ nic_tx = Intel!ZeroTx /\ nic_accepted = <<>>
    BY DEF Intel!Init
  <2>2. Out = 0 /\ Far(tx_head, tdh, RingCount) = 0 /\ Far(tx_head, tdt, RingCount) = 0
    BY <2>1, ZeroRing DEF Out
  <2>3. nic_accepted \in Seq(Nat) /\ Len(nic_accepted) =< NicSends
    BY <1>1, <2>1
  <2>4. nic_tx \in [RingPlaces -> [dd : BOOLEAN, frame : 0..NicSends]]
    BY <2>1, ZeroRing
  <2> QED
    BY <1>1, <2>1, <2>2, <2>3, <2>4 DEF TransmitRing
<1> QED
  BY <1>2, <1>3, <1>4, <1>5, <1>6 DEF IntelInv

\* Which parts a step leaves as they are.
LEMMA IntelKept ==
  ASSUME IntelInv
  PROVE  /\ UNCHANGED <<nic_at, nic_cur, hw, mode, service, serviced>> => ServiceInv'
         /\ UNCHANGED <<icr, ims, msi>> => Causes'
         /\ UNCHANGED <<rx_index, rdh, rdt, nic_rx, nic_arrived, service, nic_cur, hw>> => ReceiveRing'
         /\ UNCHANGED <<nic_at, tx_head, tdh, tdt, tx_tail, nic_tx, nic_accepted>> => TransmitRing'
<1>1. UNCHANGED <<nic_at, nic_cur, hw, mode, service, serviced>> => ServiceInv'
  BY DEF IntelInv, ServiceInv
<1>2. UNCHANGED <<icr, ims, msi>> => Causes'
  BY Zenon DEF IntelInv, Causes
<1>3. UNCHANGED <<rx_index, rdh, rdt, nic_rx, nic_arrived, service, nic_cur, hw>> => ReceiveRing'
  BY DEF IntelInv, ReceiveRing, Live, Got
<1>4. UNCHANGED <<nic_at, tx_head, tdh, tdt, tx_tail, nic_tx, nic_accepted>> => TransmitRing'
  BY DEF IntelInv, TransmitRing, Out
<1> QED
  BY <1>1, <1>2, <1>3, <1>4

\* The causes are flags, whatever a step does.
LEMMA CausesStep ==
  ASSUME Causes, [Intel!Next]_(Intel!vars) PROVE Causes'
<1>1. CASE Intel!RegisterService
  BY <1>1, Zenon DEF Causes, Intel!RegisterService
<1>2. CASE Intel!ClearCauses
  BY <1>2, Zenon DEF Causes, Intel!ClearCauses
<1>3. CASE Intel!Receive
  <2>1. icr' = TRUE /\ ims' = ims /\ msi' = (msi \/ (ims /\ ~icr))
    BY <1>3, Zenon DEF Intel!Receive
  <2> QED
    BY <2>1, Zenon DEF Causes
<1>4. CASE Intel!Interrupt
  <2>1. icr' = FALSE /\ ims' = ims /\ msi' = FALSE
    BY <1>4, Zenon DEF Intel!Interrupt, Intel!CausesRead
  <2> QED
    BY <2>1, Zenon DEF Causes
<1>5. CASE Intel!ServiceDone
  <2>1. (icr' = FALSE \/ icr' = icr) /\ ims' = ims /\ msi' = msi
    BY <1>5, Zenon DEF Intel!ServiceDone
  <2> QED
    BY <2>1, Zenon DEF Causes
<1>6. CASE \/ Intel!Probe \/ Intel!SetupRx \/ Intel!SetupTx \/ Intel!RegisterLink \/ Intel!Quiesce \/ Intel!Drain
           \/ Intel!Emit \/ (\E d \in 1..Candidates : Intel!BeginDma(d) \/ Intel!EndDma(d))
           \/ Intel!Poll \/ Intel!TakeFrame \/ Intel!Recycle \/ Intel!Transmit \/ UNCHANGED Intel!vars
  <2>1. icr' = icr /\ ims' = ims /\ msi' = msi
    BY <1>6, Zenon DEF Intel!Probe, Intel!SetupRx, Intel!SetupTx, Intel!RegisterLink, Intel!Quiesce, Intel!Drain, Intel!Emit,
      Intel!BeginDma, Intel!EndDma, Intel!Poll, Intel!TakeFrame, Intel!Recycle, Intel!Transmit, Intel!vars,
      Intel!causeVars
  <2> QED
    BY <2>1, Zenon DEF Causes
<1> QED
  BY <1>1, <1>2, <1>3, <1>4, <1>5, <1>6, Zenon DEF Intel!Next, Intel!Setup, Intel!Device, Intel!Service

\* A driver that is called is in service.
LEMMA CalledInService ==
  ASSUME IntelInv
  PROVE  /\ service # "idle" \/ mode # "none" \/ nic_at \in {"clear", "online"} => nic_at \in {"clear", "online"} /\ Live
         /\ Live => nic_at \in {"tx", "link", "service", "clear", "online", "quiesce"}
BY DEF IntelInv, ServiceInv, DmaInv, Live, Tried

LEMMA NotLive ==
  ASSUME IntelInv, UNCHANGED <<rx_index, rdh, rdt, nic_rx, nic_arrived, service>>, ~Live'
  PROVE  ReceiveRing'
BY DEF IntelInv, ReceiveRing

LEMMA SameLive ==
  ASSUME IntelInv, UNCHANGED <<rx_index, rdh, rdt, nic_rx, nic_arrived, service>>, Live' <=> Live
  PROVE  ReceiveRing'
BY DEF IntelInv, ReceiveRing, Got

LEMMA TransmitKept ==
  ASSUME IntelInv, UNCHANGED <<tx_head, tdh, tdt, tx_tail, nic_tx, nic_accepted>>,
         nic_at' \notin {"clear", "online"} => nic_at \notin {"clear", "online"}
  PROVE  TransmitRing'
BY DEF IntelInv, TransmitRing, Out

LEMMA IntelSetup ==
  ASSUME Intel!E1000eAssumption, IntelInv, DmaInv', Causes', Intel!Setup
  PROVE  IntelInv'
<1>0. /\ DmaInv /\ ServiceInv
      /\ RingCount \in Nat \ {0} /\ 0 \in RingPlaces /\ RingCount - 1 \in RingPlaces
  BY IntelConstants DEF IntelInv
<1>s. serviced \in 0..RingCount /\ service \in {"idle", "frames", "recycle"} /\ mode \in {"poll", "msi", "none"}
  BY DEF IntelInv, ServiceInv
<1>1. CASE Intel!Probe \/ Intel!Drain
  <2>1. /\ nic_at \notin {"clear", "online"} /\ nic_at' \notin {"tx", "link", "service", "clear", "online", "quiesce"}
        /\ UNCHANGED <<mode, service, serviced>> /\ UNCHANGED <<rx_index, rdh, rdt, nic_rx, nic_arrived, service>>
        /\ UNCHANGED <<tx_head, tdh, tdt, tx_tail, nic_tx, nic_accepted>>
    BY <1>1 DEF Intel!Probe, Intel!Drain, Intel!rxVars, Intel!txVars
  <2>2. ServiceInv'
    BY <1>0, <2>1 DEF ServiceInv
  <2>3. ~Live'
    BY <2>1 DEF DmaInv, Live, Tried
  <2> QED
    BY <2>1, <2>2, <2>3, NotLive, TransmitKept DEF IntelInv
<1>2. CASE Intel!SetupRx
  <2>1. /\ nic_at = "rx" /\ nic_at' \in {"quiesce", "tx"} /\ nic_cur' = nic_cur
        /\ UNCHANGED <<mode, service, serviced>> /\ nic_arrived' = nic_arrived /\ service' = service
        /\ UNCHANGED <<tx_head, tdh, tdt, tx_tail, nic_tx, nic_accepted>>
    BY <1>2 DEF Intel!SetupRx, Intel!txVars
  <2>2. mode = "none" /\ service = "idle" /\ ~Live
    BY <1>0, <2>1, CalledInService DEF ServiceInv
  <2>3. TransmitRing'
    BY <2>1, TransmitKept
  <2>4. CASE nic_at' = "quiesce" /\ UNCHANGED <<hw, nic_rx, rdh, rdt, rx_index>>
    <3>1. ~Live'
      BY <2>1, <2>2, <2>4 DEF Live
    <3>2. ReceiveRing'
      BY <2>1, <2>4, <3>1, NotLive
    <3>3. ServiceInv'
      BY <1>0, <2>1, <2>2, <2>4 DEF ServiceInv
    <3> QED
      BY <2>3, <3>2, <3>3 DEF IntelInv
  <2>5. CASE /\ nic_at' = "tx"
             /\ nic_rx' = Intel!ZeroRx /\ rx_index' = 0 /\ rdh' = 0 /\ rdt' = RingCount - 1
             /\ hw' = [hw EXCEPT ![nic_cur].rx = TRUE]
    <3>1. nic_cur \in Tried /\ hw'[nic_cur].rx
      BY <1>0, <2>1, <2>5, IntelConstants DEF DmaInv, Tried
    <3>2. ServiceInv'
      BY <1>0, <2>1, <2>2, <2>5, <3>1 DEF ServiceInv
    <3>3. Got' = 0
      BY <2>5, ZeroRing DEF Got
    <3>4. (rdt' + 1) % RingCount = rx_index'
      <4>1. RingCount % RingCount = 0 /\ (RingCount - 1) + 1 = RingCount
        <5>1. RingCount \in Nat \ {0} /\ 0 \in 0..(RingCount - 1)
          BY <1>0
        <5> QED
          BY <5>1, SmallPlace
      <4> QED
        BY <2>5, <4>1
    <3>5. \A k \in 0..(RingCount - 1) : ~nic_rx'[(rx_index' + k) % RingCount].dd
      <4> TAKE k \in 0..(RingCount - 1)
      <4>1. (0 + k) % RingCount \in RingPlaces
        BY <1>0, PlaceIn DEF RingPlaces
      <4> QED
        BY <2>5, <4>1, ZeroRing
    <3>6. nic_arrived \in 0..MaxFrames
      BY DEF IntelInv, ReceiveRing
    <3>7. ReceiveRing'
      BY <1>0, <2>1, <2>2, <2>5, <3>3, <3>4, <3>5, <3>6, ZeroRing DEF ReceiveRing
    <3> QED
      BY <2>3, <3>2, <3>7 DEF IntelInv
  <2> QED
    BY <1>2, <2>4, <2>5 DEF Intel!SetupRx
<1>3. CASE Intel!SetupTx
  <2>1. /\ nic_at = "tx" /\ nic_at' \in {"quiesce", "link"} /\ UNCHANGED <<nic_cur, hw>>
        /\ UNCHANGED <<mode, service, serviced>> /\ UNCHANGED <<rx_index, rdh, rdt, nic_rx, nic_arrived, service, nic_cur, hw>>
    BY <1>3 DEF Intel!SetupTx, Intel!rxVars
  <2>2. ReceiveRing'
    BY <2>1, IntelKept
  <2>3. ServiceInv'
    BY <1>0, <2>1 DEF ServiceInv
  <2>4. TransmitRing'
    <3>1. CASE UNCHANGED <<tx_head, tdh, tdt, tx_tail, nic_tx, nic_accepted>>
      BY <2>1, <3>1, TransmitKept
    <3>2. CASE /\ nic_tx' = Intel!ZeroTx /\ tx_head' = 0 /\ tx_tail' = 0 /\ tdh' = 0 /\ tdt' = 0
               /\ nic_accepted' = nic_accepted
      <4>1. Out' = 0 /\ Far(tx_head', tdh', RingCount) = 0 /\ Far(tx_head', tdt', RingCount) = 0
        BY <3>2, ZeroRing DEF Out
      <4>2. nic_accepted' \in Seq(Nat) /\ Len(nic_accepted') =< NicSends
        BY <3>2 DEF IntelInv, TransmitRing
      <4>3. nic_tx' \in [RingPlaces -> [dd : BOOLEAN, frame : 0..NicSends]]
        BY <3>2, ZeroRing
      <4> QED
        BY <1>0, <3>2, <4>1, <4>2, <4>3 DEF TransmitRing
    <3> QED
      BY <1>3, <3>1, <3>2 DEF Intel!SetupTx, Intel!txVars
  <2> QED
    BY <2>2, <2>3, <2>4 DEF IntelInv
<1>4. CASE Intel!RegisterLink \/ Intel!RegisterService \/ Intel!ClearCauses
  <2>1. /\ UNCHANGED <<nic_cur, hw, service, serviced>> /\ UNCHANGED <<rx_index, rdh, rdt, nic_rx, nic_arrived, service, nic_cur, hw>>
        /\ UNCHANGED <<tx_head, tdh, tdt, tx_tail, nic_tx, nic_accepted>>
        /\ \/ nic_at = "link" /\ nic_at' \in {"quiesce", "service"} /\ mode' = mode
           \/ nic_at = "service" /\ nic_at' \in {"online", "clear"} /\ mode' \in {"poll", "msi", "none"}
           \/ nic_at = "clear" /\ nic_at' = "online" /\ mode' = mode
    BY <1>4 DEF Intel!RegisterLink, Intel!RegisterService, Intel!ClearCauses, Intel!rxVars, Intel!txVars
  <2>2. ReceiveRing' /\ TransmitRing'
    BY <2>1, IntelKept, TransmitKept
  <2>3. ServiceInv'
    BY <1>0, <2>1 DEF ServiceInv
  <2> QED
    BY <2>2, <2>3 DEF IntelInv
<1>5. CASE Intel!Quiesce
  <2>1. /\ nic_at = "quiesce" /\ nic_at' = "drain" /\ hw' = [hw EXCEPT ![nic_cur].rx = FALSE] /\ nic_cur' = nic_cur
        /\ UNCHANGED <<mode, service, serviced>> /\ UNCHANGED <<rx_index, rdh, rdt, nic_rx, nic_arrived, service>>
        /\ UNCHANGED <<tx_head, tdh, tdt, tx_tail, nic_tx, nic_accepted>>
    BY <1>5 DEF Intel!Quiesce, Intel!rxVars, Intel!txVars
  <2>2. ~Live'
    BY <1>0, <2>1 DEF DmaInv, Live, Tried
  <2>3. ServiceInv'
    BY <1>0, <2>1 DEF ServiceInv
  <2> QED
    BY <2>1, <2>2, <2>3, NotLive, TransmitKept DEF IntelInv
<1> QED
  BY <1>1, <1>2, <1>3, <1>4, <1>5 DEF Intel!Setup

LEMMA IntelDma ==
  ASSUME Intel!E1000eAssumption, IntelInv, DmaInv', Causes', NEW d \in Tried, Intel!BeginDma(d) \/ Intel!EndDma(d)
  PROVE  IntelInv' /\ (Live' <=> Live) /\ UNCHANGED <<nic_at, nic_cur>> /\ UNCHANGED <<nic_rx, rdh, rx_index, service>>
         /\ UNCHANGED <<nic_tx, tdh, tdt>> /\ UNCHANGED <<nic_passed, nic_sent>>
<1>1. /\ UNCHANGED <<nic_at, nic_cur>> /\ UNCHANGED <<rx_index, rdh, rdt, nic_rx, nic_arrived, service>>
      /\ UNCHANGED <<nic_at, tx_head, tdh, tdt, tx_tail, nic_tx, nic_accepted>> /\ UNCHANGED <<mode, service, serviced>>
      /\ UNCHANGED <<nic_passed, nic_sent>>
      /\ hw' = [hw EXCEPT ![d].busy = TRUE] \/ hw' = [hw EXCEPT ![d].busy = FALSE]
  BY DEF Intel!BeginDma, Intel!EndDma, Intel!rxVars, Intel!txVars
<1>2. \A e \in Tried : hw'[e].rx <=> hw[e].rx
  BY <1>1 DEF IntelInv, DmaInv
<1>3. Live' <=> Live
  BY <1>1, <1>2 DEF Live, Tried
<1>4. ReceiveRing' /\ TransmitRing'
  BY <1>1, <1>3, SameLive, TransmitKept
<1>5. ServiceInv'
  BY <1>1, <1>2, CalledInService DEF IntelInv, ServiceInv, DmaInv, Tried
<1> QED
  BY <1>1, <1>3, <1>4, <1>5 DEF IntelInv

Framed(r) == [i \in RingPlaces |-> r[i].frame]

\* What was received, and what waits for the wire.
Came == View(Framed(nic_rx), rx_index, Got, RingCount)
Goes == View(Framed(nic_tx), tdh, Out, RingCount)

LEMMA FramedIs ==
  ASSUME NEW n \in Nat, NEW r \in [RingPlaces -> [dd : BOOLEAN, frame : 0..n]]
  PROVE  Framed(r) \in [RingPlaces -> Nat] /\ \A i \in RingPlaces : r[i].frame = Framed(r)[i]
<1>1. \A i \in RingPlaces : r[i].frame \in Nat
  OBVIOUS
<1> QED
  BY <1>1 DEF Framed

LEMMA IntelReceive ==
  ASSUME Intel!E1000eAssumption, IntelInv, DmaInv', Causes', Intel!Receive
  PROVE  /\ IntelInv' /\ Live /\ Live' /\ Got < RingCount - 1 /\ Got' = Got + 1
         /\ Came' = Longer(Came, nic_arrived + 1) /\ nic_arrived < MaxFrames
<1>0. RingCount \in Nat \ {0} /\ MaxFrames \in Nat
  BY IntelConstants
<1>1. /\ UNCHANGED <<nic_at, nic_cur, hw, mode, service, serviced>>
      /\ UNCHANGED <<nic_at, tx_head, tdh, tdt, tx_tail, nic_tx, nic_accepted>>
      /\ nic_arrived < MaxFrames /\ nic_arrived' = nic_arrived + 1
      /\ nic_rx' = [nic_rx EXCEPT ![rdh] = [dd |-> TRUE, frame |-> nic_arrived + 1]]
      /\ rdh' = Intel!NextSlot(rdh) /\ rdt' = rdt /\ rx_index' = rx_index /\ rdh # rdt
      /\ Live
  BY DEF Intel!Receive, Intel!initVars, Intel!txVars, Live, Tried, IntelInv, DmaInv
<1>2. ServiceInv' /\ TransmitRing'
  BY <1>1, IntelKept
<1>3. Live'
  BY <1>1 DEF Live
<1>4. /\ rx_index \in RingPlaces /\ rdh \in RingPlaces /\ rdt \in RingPlaces
      /\ nic_rx \in [RingPlaces -> [dd : BOOLEAN, frame : 0..MaxFrames]] /\ nic_arrived \in 0..MaxFrames
      /\ (rdt + 1) % RingCount = rx_index
      /\ \A k \in Got..(RingCount - 1) : ~nic_rx[(rx_index + k) % RingCount].dd
      /\ \A k \in 0..(Got - 1) : nic_rx[(rx_index + k) % RingCount].frame # 0
  BY <1>1 DEF IntelInv, ReceiveRing
<1>5. (rdh + 1) % RingCount # rx_index
  <2>1. /\ (rdh + 1) % RingCount = IF rdh + 1 = RingCount THEN 0 ELSE rdh + 1
        /\ (rdt + 1) % RingCount = IF rdt + 1 = RingCount THEN 0 ELSE rdt + 1
    BY <1>0, <1>4, NextIndex DEF RingPlaces
  <2>2. rdh \in 0..(RingCount - 1) /\ rdt \in 0..(RingCount - 1) /\ rdh # rdt /\ (rdt + 1) % RingCount = rx_index
    BY <1>1, <1>4 DEF RingPlaces
  <2> QED
    BY <1>0, <2>1, <2>2
<1>6. Got < RingCount - 1
  BY <1>0, <1>4, <1>5, RoomLeft DEF RingPlaces, Got
<1>7. Got \in 0..(RingCount - 1) /\ (rx_index + Got) % RingCount = rdh
  BY <1>0, <1>4, FarIs, RingPlace DEF RingPlaces, Got
<1>8. Got' = Got + 1
  <2>1. Far(rx_index, (rdh + 1) % RingCount, RingCount) = Far(rx_index, rdh, RingCount) + 1
    BY <1>0, <1>4, <1>6, FarNext DEF RingPlaces, Got
  <2> QED
    BY <1>1, <1>4, <2>1, PlaceNext DEF Got
<1>9. \A k \in 0..(RingCount - 1) : k # Got => (rx_index + k) % RingCount # rdh /\ (rx_index + k) % RingCount \in RingPlaces
  <2> TAKE k \in 0..(RingCount - 1)
  <2> HAVE k # Got
  <2>1. rx_index \in Nat
    BY <1>4 DEF RingPlaces
  <2>2. (rx_index + k) % RingCount \in RingPlaces
    BY <1>0, <2>1, PlaceIn DEF RingPlaces
  <2>3. (rx_index + k) % RingCount # (rx_index + Got) % RingCount
    <3> DEFINE g == Got
    <3>1. g \in 0..(RingCount - 1) /\ k # g
      BY <1>7
    <3> HIDE DEF g
    <3>2. (rx_index + k) % RingCount # (rx_index + g) % RingCount
      BY <1>0, <2>1, <3>1, ApartWhere
    <3> QED
      BY <3>2 DEF g
  <2> QED
    BY <1>7, <2>2, <2>3
<1>10. \A i \in RingPlaces : i # rdh => nic_rx'[i] = nic_rx[i]
  BY <1>1, <1>4
<1>11. \A k \in Got'..(RingCount - 1) : ~nic_rx'[(rx_index' + k) % RingCount].dd
  <2> SUFFICES ASSUME NEW k \in (Got + 1)..(RingCount - 1) PROVE ~nic_rx'[(rx_index + k) % RingCount].dd
    BY <1>1, <1>8
  <2>1. k \in Got..(RingCount - 1) /\ k \in 0..(RingCount - 1) /\ k # Got
    BY <1>0, <1>7
  <2> QED
    BY <1>4, <1>9, <1>10, <2>1
<1>12. \A k \in 0..(Got' - 1) : nic_rx'[(rx_index' + k) % RingCount].frame # 0
  <2> SUFFICES ASSUME NEW k \in 0..Got PROVE nic_rx'[(rx_index + k) % RingCount].frame # 0
    BY <1>1, <1>7, <1>8
  <2>1. CASE k = Got
    BY <1>1, <1>4, <1>7, <2>1
  <2>2. CASE k # Got
    <3>1. k \in 0..(Got - 1) /\ k \in 0..(RingCount - 1)
      BY <1>0, <1>7, <2>2
    <3> QED
      BY <1>4, <1>9, <1>10, <2>2, <3>1
  <2> QED
    BY <2>1, <2>2
<1>13. nic_rx' \in [RingPlaces -> [dd : BOOLEAN, frame : 0..MaxFrames]] /\ nic_arrived' \in 0..MaxFrames
  BY <1>0, <1>1, <1>4
<1>14. rdh' \in RingPlaces
  BY <1>1, <1>4, PlaceNext
<1>15. service' = "recycle" => rx_index' # rdh'
  BY <1>1, <1>4, <1>5, PlaceNext
<1>16. ReceiveRing'
  BY <1>1, <1>4, <1>11, <1>12, <1>13, <1>14, <1>15 DEF ReceiveRing
<1>17. Came' = Longer(Came, nic_arrived + 1)
  <2>1. Framed(nic_rx) \in [RingPlaces -> Nat] /\ nic_arrived + 1 \in Nat
    BY <1>0, <1>4, FramedIs
  <2>2. Framed(nic_rx') = Put(Framed(nic_rx), rdh, nic_arrived + 1)
    <3>1. \A i \in RingPlaces : nic_rx'[i].frame = IF i = rdh THEN nic_arrived + 1 ELSE nic_rx[i].frame
      BY <1>1, <1>4
    <3> QED
      BY <3>1, <1>4 DEF Framed, Put
  <2>3. View(Put(Framed(nic_rx), rdh, nic_arrived + 1), rx_index, Far(rx_index, (rdh + 1) % RingCount, RingCount), RingCount)
          = Longer(View(Framed(nic_rx), rx_index, Far(rx_index, rdh, RingCount), RingCount), nic_arrived + 1)
    <3> DEFINE g == Framed(nic_rx)
               f == nic_arrived + 1
    <3>1. g \in [0..(RingCount - 1) -> Nat] /\ f \in Nat
      BY <2>1 DEF RingPlaces
    <3>2. rx_index \in 0..(RingCount - 1) /\ rdh \in 0..(RingCount - 1) /\ Far(rx_index, rdh, RingCount) < RingCount - 1
      BY <1>4, <1>6 DEF RingPlaces, Got
    <3> HIDE DEF g, f
    <3>3. View(Put(g, rdh, f), rx_index, Far(rx_index, (rdh + 1) % RingCount, RingCount), RingCount)
          = Longer(View(g, rx_index, Far(rx_index, rdh, RingCount), RingCount), f)
      <4>1. Extends(g, rx_index, rdh, RingCount, f)
        BY <1>0, <3>1, <3>2, RingExtends, Zenon
      <4> QED
        BY <4>1 DEF Extends
    <3> QED
      BY <3>3 DEF g, f
  <2>4. Came' = View(Framed(nic_rx'), rx_index, Far(rx_index, (rdh + 1) % RingCount, RingCount), RingCount)
    BY <1>1, <1>4, PlaceNext DEF Came, Got, Framed
  <2> QED
    BY <2>2, <2>3, <2>4 DEF Came, Got
<1> QED
  BY <1>1, <1>2, <1>3, <1>6, <1>8, <1>16, <1>17 DEF IntelInv

\* Nothing is reaped that is still to go out.
LEMMA ReapIs ==
  ASSUME Intel!E1000eAssumption, IntelInv
  PROVE  LET h == Intel!Reaped IN
         /\ h \in RingPlaces
         /\ Far(h, tdh, RingCount) + Out = Far(h, tdt, RingCount)
<1> DEFINE a == Far(tx_head, tdh, RingCount)
           b == Out
           ok(n) == \A j \in 0..(n - 1) : nic_tx[(tx_head + j) % RingCount].dd
           S == {n \in 0..(a + b) : ok(n)}
<1>0. RingCount \in Nat \ {0}
  BY IntelConstants
<1>1. /\ tx_head \in RingPlaces /\ tdh \in RingPlaces /\ tdt \in RingPlaces /\ tx_tail = tdt
      /\ a + b = Far(tx_head, tdt, RingCount)
      /\ \A k \in 0..(b - 1) : ~nic_tx[(tdh + k) % RingCount].dd
  BY DEF IntelInv, TransmitRing
<1>2. a \in 0..(RingCount - 1) /\ b \in 0..(RingCount - 1) /\ a + b \in 0..(RingCount - 1)
  BY <1>0, <1>1, FarIs DEF RingPlaces, Out
<1>3. (tx_head + a) % RingCount = tdh
  BY <1>0, <1>1, RingPlace DEF RingPlaces
<1>4. tdh % RingCount = tdh /\ tdh + 0 = tdh
  BY <1>0, <1>1, SmallPlace DEF RingPlaces
<1>5. Intel!Reaped = (tx_head + Intel!Max(S)) % RingCount
  BY <1>1 DEF Intel!Reaped, Intel!Gap, Far
<1> HIDE DEF a, b
<1>6. 0 \in S
  BY <1>2
<1>7. \E n \in S : \A m \in S : n >= m
  <2>1. S \in SUBSET (0..(a + b)) /\ S # {} /\ a + b \in Nat
    BY <1>2, <1>6
  <2> HIDE DEF S
  <2> QED
    BY <2>1, GreatestOf
<1>8. Intel!Max(S) \in S
  <2> HIDE DEF S
  <2> QED
    BY <1>7 DEF Intel!Max
<1> DEFINE n == Intel!Max(S)
<1>9. n \in 0..(a + b) /\ ok(n)
  BY <1>8
<1> HIDE DEF n, S
<1>10. n =< a
  <2> SUFFICES ASSUME ~(n =< a) PROVE FALSE
    BY <1>2, <1>9
  <2>1. a \in 0..(n - 1) /\ 0 \in 0..(b - 1)
    BY <1>2, <1>9
  <2>2. nic_tx[(tx_head + a) % RingCount].dd
    BY <1>9, <2>1
  <2>3. ~nic_tx[(tdh + 0) % RingCount].dd
    BY <1>1, <2>1
  <2> QED
    BY <1>3, <1>4, <2>2, <2>3
<1>11. n \in 0..a /\ n \in 0..(a + b) /\ n \in 0..RingCount
  BY <1>0, <1>2, <1>9, <1>10
<1> DEFINE h == (tx_head + n) % RingCount
<1>12. h \in RingPlaces
  BY <1>0, <1>1, <1>11, PlaceAfter DEF RingPlaces
<1>13. Far(h, tdh, RingCount) = a - n
  BY <1>0, <1>1, <1>11, FarSkip DEF RingPlaces, a
<1>14. Far(h, tdt, RingCount) = (a + b) - n
  <2>1. n \in 0..Far(tx_head, tdt, RingCount)
    BY <1>1, <1>11
  <2>2. Far(h, tdt, RingCount) = Far(tx_head, tdt, RingCount) - n
    BY <1>0, <1>1, <2>1, FarSkip DEF RingPlaces
  <2> QED
    BY <1>1, <2>2
<1> HIDE DEF h
<1>15. Intel!Reaped = h
  BY <1>5 DEF h, n
<1>16. (a - n) + b = (a + b) - n
  BY <1>2, <1>11
<1> QED
  BY <1>12, <1>13, <1>14, <1>15, <1>16 DEF b

\* Steps that reap and leave the rest of the ring as it is.
LEMMA ReapKeeps ==
  ASSUME Intel!E1000eAssumption, IntelInv, UNCHANGED <<nic_at, tdh, tdt, tx_tail, nic_tx, nic_accepted>>,
         tx_head' = Intel!Reaped \/ tx_head' = tx_head
  PROVE  TransmitRing'
<1>1. /\ Intel!Reaped \in RingPlaces
      /\ Far(Intel!Reaped, tdh, RingCount) + Out = Far(Intel!Reaped, tdt, RingCount)
  BY ReapIs
<1>2. CASE tx_head' = tx_head
  BY <1>2, IntelKept
<1>3. CASE tx_head' = Intel!Reaped
  <2> DEFINE h == Intel!Reaped
  <2>1. tx_head' = h /\ h \in RingPlaces /\ Far(h, tdh, RingCount) + Out = Far(h, tdt, RingCount)
    BY <1>1, <1>3
  <2> HIDE DEF h
  <2> QED
    BY <2>1 DEF IntelInv, TransmitRing, Out
<1> QED
  BY <1>2, <1>3

LEMMA IntelCalled ==
  ASSUME Intel!E1000eAssumption, IntelInv, DmaInv', Causes', Intel!Poll \/ Intel!Interrupt \/ Intel!ServiceDone
  PROVE  /\ IntelInv' /\ UNCHANGED <<nic_at, nic_cur, hw, nic_rx, rdh, rx_index, nic_tx, tdh, tdt, nic_passed, nic_sent>>
         /\ service # "recycle" /\ service' # "recycle"
<1>1. /\ UNCHANGED <<nic_at, nic_cur, hw, mode, rdt, nic_arrived, nic_passed, nic_sent>>
      /\ UNCHANGED <<nic_rx, rdh, rx_index>>
      /\ UNCHANGED <<nic_at, tdh, tdt, tx_tail, nic_tx, nic_accepted>>
      /\ tx_head' = Intel!Reaped \/ tx_head' = tx_head
      /\ service \in {"idle", "frames"} /\ service' \in {"idle", "frames"}
      /\ service' # "idle" => mode # "none"
      /\ serviced' = 0 \/ serviced' = serviced
  BY DEF Intel!Poll, Intel!Interrupt, Intel!ServiceDone, Intel!initVars, Intel!txVars
<1>2. TransmitRing'
  BY <1>1, ReapKeeps
<1>3. ServiceInv'
  BY <1>1, IntelConstants DEF IntelInv, ServiceInv
<1>4. ReceiveRing'
  BY <1>1 DEF IntelInv, ReceiveRing, Live, Got
<1> QED
  BY <1>1, <1>2, <1>3, <1>4 DEF IntelInv

\* A status means that there is a frame, the first that came.
LEMMA IntelTakeFrame ==
  ASSUME Intel!E1000eAssumption, IntelInv, DmaInv', Causes', Intel!TakeFrame
  PROVE  /\ IntelInv' /\ nic_at \in {"clear", "online"} /\ Live /\ rx_index # rdh
         /\ UNCHANGED <<nic_at, nic_cur, hw, nic_rx, rdh, rx_index, nic_tx, tdh, tdt, nic_sent>>
         /\ service = "frames" /\ service' = "recycle"
         /\ nic_passed' = IF Intel!Good(nic_rx[rx_index].frame) THEN Append(nic_passed, nic_rx[rx_index].frame) ELSE nic_passed
<1>0. RingCount \in Nat \ {0}
  BY IntelConstants
<1>1. /\ UNCHANGED <<nic_at, nic_cur, hw, mode, rdt, nic_arrived, serviced>>
      /\ UNCHANGED <<nic_rx, rdh, rx_index>> /\ nic_sent' = nic_sent
      /\ UNCHANGED <<nic_at, tx_head, tdh, tdt, tx_tail, nic_tx, nic_accepted>>
      /\ service = "frames" /\ service' = "recycle" /\ serviced < RingCount /\ nic_rx[rx_index].dd
      /\ nic_passed' = IF Intel!Good(nic_rx[rx_index].frame) THEN Append(nic_passed, nic_rx[rx_index].frame) ELSE nic_passed
  BY DEF Intel!TakeFrame, Intel!initVars, Intel!txVars
<1>2. nic_at \in {"clear", "online"} /\ Live
  BY <1>1, CalledInService
<1>3. TransmitRing'
  BY <1>1, IntelKept
<1>4. ServiceInv'
  BY <1>1 DEF IntelInv, ServiceInv
<1>5. rx_index # rdh
  <2> SUFFICES ASSUME rx_index = rdh PROVE FALSE
    OBVIOUS
  <2>1. /\ rx_index \in RingPlaces /\ rdh \in RingPlaces
        /\ \A k \in Got..(RingCount - 1) : ~nic_rx[(rx_index + k) % RingCount].dd
    BY <1>2 DEF IntelInv, ReceiveRing
  <2>2. Got = 0 /\ rx_index % RingCount = rx_index /\ rx_index + 0 = rx_index
    BY <1>0, <2>1, FarZero, SmallPlace DEF RingPlaces, Got
  <2>3. 0 \in Got..(RingCount - 1)
    BY <1>0, <2>2
  <2>4. ~nic_rx[(rx_index + 0) % RingCount].dd
    BY <2>1, <2>3
  <2> QED
    BY <1>1, <2>2, <2>4
<1>6. ReceiveRing'
  BY <1>1, <1>5 DEF IntelInv, ReceiveRing, Live, Got
<1> QED
  BY <1>1, <1>2, <1>3, <1>4, <1>5, <1>6 DEF IntelInv

\* Its descriptor is the device's again, the limit of which moves on.
LEMMA IntelRecycle ==
  ASSUME Intel!E1000eAssumption, IntelInv, DmaInv', Causes', Intel!Recycle
  PROVE  /\ IntelInv' /\ Live /\ rx_index # rdh /\ UNCHANGED <<nic_at, nic_cur, hw, nic_tx, tdh, tdt, nic_passed, nic_sent>>
         /\ service = "recycle" /\ service' = "frames"
         /\ Came' = Tail(Came)
<1>0. RingCount \in Nat \ {0}
  BY IntelConstants
<1>1. /\ UNCHANGED <<nic_at, nic_cur, hw, mode, nic_arrived, rdh, nic_passed, nic_sent>>
      /\ UNCHANGED <<nic_at, tx_head, tdh, tdt, tx_tail, nic_tx, nic_accepted>>
      /\ service = "recycle" /\ service' = "frames" /\ serviced' = serviced + 1
      /\ nic_rx' = [nic_rx EXCEPT ![rx_index] = [@ EXCEPT !.dd = FALSE]]
      /\ rdt' = rx_index /\ rx_index' = Intel!NextSlot(rx_index)
  BY DEF Intel!Recycle, Intel!StatusCleared, Intel!initVars, Intel!txVars
<1>2. nic_at \in {"clear", "online"} /\ Live
  BY <1>1, CalledInService
<1>3. TransmitRing'
  BY <1>1, IntelKept
<1>4. ServiceInv'
  BY <1>0, <1>1 DEF IntelInv, ServiceInv
<1>5. /\ rx_index \in RingPlaces /\ rdh \in RingPlaces /\ rx_index # rdh
      /\ nic_rx \in [RingPlaces -> [dd : BOOLEAN, frame : 0..MaxFrames]] /\ nic_arrived \in 0..MaxFrames
      /\ \A k \in Got..(RingCount - 1) : ~nic_rx[(rx_index + k) % RingCount].dd
      /\ \A k \in 0..(Got - 1) : nic_rx[(rx_index + k) % RingCount].frame # 0
  BY <1>1, <1>2 DEF IntelInv, ReceiveRing
<1>6. rx_index' = (rx_index + 1) % RingCount /\ rx_index' \in RingPlaces
  BY <1>1, <1>5, PlaceNext
<1>7. Got' = Got - 1 /\ Got \in Nat \ {0} /\ Got \in 0..(RingCount - 1)
  BY <1>0, <1>1, <1>5, <1>6, FarLess, FarIs DEF RingPlaces, Got
<1>8. /\ nic_rx' \in [RingPlaces -> [dd : BOOLEAN, frame : 0..MaxFrames]] /\ ~nic_rx'[rx_index].dd
      /\ \A i \in RingPlaces : nic_rx'[i].frame = nic_rx[i].frame /\ (i # rx_index => nic_rx'[i] = nic_rx[i])
  BY <1>1, <1>5
<1>9. \A k \in 0..(RingCount - 1) :
        /\ (rx_index' + k) % RingCount = IF k = RingCount - 1 THEN rx_index ELSE (rx_index + (k + 1)) % RingCount
        /\ (rx_index' + k) % RingCount \in RingPlaces
  <2> SUFFICES ASSUME NEW k \in 0..(RingCount - 1)
               PROVE  /\ (rx_index' + k) % RingCount
                           = IF k = RingCount - 1 THEN rx_index ELSE (rx_index + (k + 1)) % RingCount
                      /\ (rx_index' + k) % RingCount \in RingPlaces
    OBVIOUS
  <2>1. rx_index \in 0..(RingCount - 1)
    BY <1>5 DEF RingPlaces
  <2>2. (((rx_index + 1) % RingCount) + k) % RingCount
          = IF k = RingCount - 1 THEN rx_index ELSE (rx_index + (k + 1)) % RingCount
    BY <1>0, <2>1, PlaceShifts
  <2>3. rx_index' + k \in Int
    BY <1>0, <1>6 DEF RingPlaces
  <2>4. (rx_index' + k) % RingCount \in RingPlaces
    BY <1>0, <2>3, PlaceIn DEF RingPlaces
  <2> QED
    BY <1>6, <2>2, <2>4
<1>10. \A k \in Got'..(RingCount - 1) : ~nic_rx'[(rx_index' + k) % RingCount].dd
  <2> SUFFICES ASSUME NEW k \in (Got - 1)..(RingCount - 1) PROVE ~nic_rx'[(rx_index' + k) % RingCount].dd
    BY <1>7
  <2>1. k \in 0..(RingCount - 1)
    BY <1>7
  <2>2. CASE k = RingCount - 1
    BY <1>8, <1>9, <2>1, <2>2
  <2>3. CASE k # RingCount - 1
    <3>1. k + 1 \in Got..(RingCount - 1) /\ (rx_index' + k) % RingCount = (rx_index + (k + 1)) % RingCount
      BY <1>0, <1>7, <1>9, <2>1, <2>3
    <3>2. ~nic_rx[(rx_index + (k + 1)) % RingCount].dd
      BY <1>5, <3>1
    <3> QED
      BY <1>8, <1>9, <2>1, <3>1, <3>2
  <2> QED
    BY <2>2, <2>3
<1>11. \A k \in 0..(Got' - 1) : nic_rx'[(rx_index' + k) % RingCount].frame # 0
  <2> SUFFICES ASSUME NEW k \in 0..((Got - 1) - 1) PROVE nic_rx'[(rx_index' + k) % RingCount].frame # 0
    BY <1>7
  <2>1. k \in 0..(RingCount - 1) /\ k # RingCount - 1 /\ k + 1 \in 0..(Got - 1)
    BY <1>0, <1>7
  <2>2. (rx_index' + k) % RingCount = (rx_index + (k + 1)) % RingCount
    BY <1>9, <2>1
  <2>3. nic_rx[(rx_index + (k + 1)) % RingCount].frame # 0
    BY <1>5, <2>1
  <2> QED
    BY <1>8, <1>9, <2>1, <2>2, <2>3
<1>12. ReceiveRing'
  BY <1>1, <1>5, <1>6, <1>8, <1>10, <1>11 DEF ReceiveRing
<1>13. Came' = Tail(Came)
  <2>1. Framed(nic_rx) \in [0..(RingCount - 1) -> Nat]
    BY <1>5, IntelConstants, FramedIs DEF RingPlaces
  <2>2. Framed(nic_rx') = Framed(nic_rx)
    BY <1>8 DEF Framed
  <2>3. rx_index \in 0..(RingCount - 1) /\ rdh \in 0..(RingCount - 1)
    BY <1>5 DEF RingPlaces
  <2>4. View(Framed(nic_rx), (rx_index + 1) % RingCount, Far((rx_index + 1) % RingCount, rdh, RingCount), RingCount)
          = Tail(View(Framed(nic_rx), rx_index, Far(rx_index, rdh, RingCount), RingCount))
    BY <1>0, <1>5, <2>1, <2>3, RingPop
  <2>5. Came' = View(Framed(nic_rx'), (rx_index + 1) % RingCount, Far((rx_index + 1) % RingCount, rdh, RingCount), RingCount)
    BY <1>1, <1>6 DEF Came, Got, Framed
  <2> QED
    BY <2>2, <2>4, <2>5 DEF Came, Got
<1> QED
  BY <1>1, <1>2, <1>3, <1>4, <1>5, <1>12, <1>13 DEF IntelInv

LEMMA IntelEmit ==
  ASSUME Intel!E1000eAssumption, IntelInv, DmaInv', Causes', Intel!Emit
  PROVE  /\ IntelInv' /\ tdh # tdt /\ UNCHANGED <<nic_at, nic_cur, hw, nic_rx, rdh, rx_index, service, nic_passed>>
         /\ Goes' = Tail(Goes) /\ Goes # <<>> /\ nic_sent' = Append(nic_sent, Head(Goes))
<1>0. RingCount \in Nat \ {0}
  BY IntelConstants
<1>1. /\ UNCHANGED <<nic_at, nic_cur, hw, nic_passed>> /\ UNCHANGED <<nic_at, nic_cur, hw, mode, service, serviced>>
      /\ UNCHANGED <<rx_index, rdh, rdt, nic_rx, nic_arrived, service, nic_cur, hw>>
      /\ UNCHANGED <<tx_head, tdt, tx_tail, nic_accepted>>
      /\ tdh # tdt /\ nic_tx' = [nic_tx EXCEPT ![tdh].dd = TRUE] /\ tdh' = Intel!NextSlot(tdh)
      /\ nic_sent' = Append(nic_sent, nic_tx[tdh].frame)
  BY DEF Intel!Emit, Intel!initVars, Intel!rxVars
<1>2. ServiceInv' /\ ReceiveRing'
  BY <1>1, IntelKept
<1>3. /\ tx_head \in RingPlaces /\ tdh \in RingPlaces /\ tdt \in RingPlaces /\ tx_tail = tdt
      /\ nic_tx \in [RingPlaces -> [dd : BOOLEAN, frame : 0..NicSends]]
      /\ nic_accepted \in Seq(Nat) /\ Len(nic_accepted) =< NicSends
      /\ Far(tx_head, tdh, RingCount) + Out = Far(tx_head, tdt, RingCount)
      /\ \A k \in 0..(Out - 1) : ~nic_tx[(tdh + k) % RingCount].dd
      /\ nic_at \notin {"clear", "online"} => tdh = tdt
  BY DEF IntelInv, TransmitRing
<1>4. tdh' = (tdh + 1) % RingCount /\ tdh' \in RingPlaces
  BY <1>1, <1>3, PlaceNext
<1>5. Out' = Out - 1 /\ Out \in Nat \ {0} /\ Out \in 0..(RingCount - 1)
  BY <1>0, <1>1, <1>3, <1>4, FarLess, FarIs DEF RingPlaces, Out
<1>6. Far(tx_head, tdh', RingCount) = Far(tx_head, tdh, RingCount) + 1
  <2>1. Far(tx_head, tdt, RingCount) \in 0..(RingCount - 1) /\ Far(tx_head, tdh, RingCount) \in 0..(RingCount - 1)
    BY <1>0, <1>3, FarIs DEF RingPlaces
  <2>2. Far(tx_head, tdh, RingCount) < RingCount - 1
    BY <1>0, <1>3, <1>5, <2>1
  <2> QED
    BY <1>0, <1>3, <1>4, <2>2, FarNext DEF RingPlaces
<1>7. Far(tx_head', tdh', RingCount) + Out' = Far(tx_head', tdt', RingCount)
  <2>1. Far(tx_head, tdh, RingCount) \in 0..(RingCount - 1)
    BY <1>0, <1>3, FarIs DEF RingPlaces
  <2>2. tx_head' = tx_head /\ tdt' = tdt
    BY <1>1
  <2>3. (Far(tx_head, tdh, RingCount) + 1) + (Out - 1) = Far(tx_head, tdh, RingCount) + Out
    BY <1>5, <2>1
  <2> QED
    BY <1>3, <1>5, <1>6, <2>2, <2>3
<1>8. /\ nic_tx' \in [RingPlaces -> [dd : BOOLEAN, frame : 0..NicSends]]
      /\ \A i \in RingPlaces : nic_tx'[i].frame = nic_tx[i].frame /\ (i # tdh => nic_tx'[i] = nic_tx[i])
  BY <1>1, <1>3
<1>9. \A k \in 0..(Out' - 1) : ~nic_tx'[(tdh' + k) % RingCount].dd
  <2> SUFFICES ASSUME NEW k \in 0..((Out - 1) - 1) PROVE ~nic_tx'[(((tdh + 1) % RingCount) + k) % RingCount].dd
    BY <1>4, <1>5
  <2>1. k \in 0..(RingCount - 1) /\ k # RingCount - 1 /\ k + 1 \in 0..(Out - 1) /\ k + 1 \in 0..(RingCount - 1)
    BY <1>0, <1>5
  <2>2. tdh \in 0..(RingCount - 1) /\ tdh \in Nat /\ tdh + (k + 1) \in Int
    BY <1>0, <1>3, <2>1 DEF RingPlaces
  <2>3. (((tdh + 1) % RingCount) + k) % RingCount = (tdh + (k + 1)) % RingCount
    BY <1>0, <2>1, <2>2, PlaceShifts
  <2> DEFINE m == k + 1
  <2>4. (tdh + m) % RingCount \in RingPlaces
    BY <1>0, <2>2, PlaceIn DEF RingPlaces
  <2>5. (tdh + m) % RingCount # tdh
    <3>1. tdh % RingCount = tdh /\ tdh + 0 = tdh
      BY <1>0, <2>2, SmallPlace
    <3>2. m \in 0..(RingCount - 1) /\ 0 \in 0..(RingCount - 1) /\ m # 0
      BY <1>0, <2>1
    <3> HIDE DEF m
    <3>3. (tdh + m) % RingCount # (tdh + 0) % RingCount
      BY <1>0, <2>2, <3>2, ApartWhere
    <3> QED
      BY <3>1, <3>3
  <2>6. ~nic_tx[(tdh + m) % RingCount].dd
    BY <1>3, <2>1
  <2> QED
    BY <1>8, <2>3, <2>4, <2>5, <2>6
<1>10. nic_at' \notin {"clear", "online"} => tdh' = tdt'
  BY <1>1, <1>3
<1>11. TransmitRing'
  BY <1>1, <1>3, <1>4, <1>7, <1>8, <1>9, <1>10 DEF TransmitRing
<1>12. Framed(nic_tx') = Framed(nic_tx)
  BY <1>8 DEF Framed
<1>13. Goes' = Tail(Goes) /\ Goes # <<>> /\ Head(Goes) = nic_tx[tdh].frame
  <2>1. Framed(nic_tx) \in [0..(RingCount - 1) -> Nat] /\ nic_tx[tdh].frame = Framed(nic_tx)[tdh]
    BY <1>3, IntelConstants, FramedIs DEF RingPlaces
  <2>2. tdh \in 0..(RingCount - 1) /\ tdt \in 0..(RingCount - 1)
    BY <1>3 DEF RingPlaces
  <2>3. /\ View(Framed(nic_tx), (tdh + 1) % RingCount, Far((tdh + 1) % RingCount, tdt, RingCount), RingCount)
             = Tail(View(Framed(nic_tx), tdh, Far(tdh, tdt, RingCount), RingCount))
        /\ Head(View(Framed(nic_tx), tdh, Far(tdh, tdt, RingCount), RingCount)) = Framed(nic_tx)[tdh]
        /\ View(Framed(nic_tx), tdh, Far(tdh, tdt, RingCount), RingCount) # <<>>
    BY <1>0, <1>1, <2>1, <2>2, RingPop
  <2>4. Goes' = View(Framed(nic_tx'), (tdh + 1) % RingCount, Far((tdh + 1) % RingCount, tdt, RingCount), RingCount)
    BY <1>1, <1>4 DEF Goes, Out, Framed
  <2> QED
    BY <1>12, <2>1, <2>3, <2>4 DEF Goes, Out
<1> QED
  BY <1>1, <1>2, <1>11, <1>13 DEF IntelInv

\* A frame is accepted only if a place stays free after it.
LEMMA IntelTransmit ==
  ASSUME Intel!E1000eAssumption, IntelInv, DmaInv', Causes', Intel!Transmit
  PROVE  /\ IntelInv' /\ nic_at \in {"clear", "online"} /\ UNCHANGED <<nic_at, nic_cur, hw, nic_rx, rdh, rx_index, service, nic_passed, nic_sent>>
         /\ Len(nic_accepted) < NicSends /\ Len(nic_accepted) \in Nat
         /\ \/ UNCHANGED <<nic_tx, tdh, tdt>>
            \/ Goes' = Longer(Goes, Len(nic_accepted) + 1) /\ Out < RingCount - 1
<1>0. RingCount \in Nat \ {0} /\ NicSends \in Nat
  BY IntelConstants
<1>1. /\ UNCHANGED <<nic_at, nic_cur, hw, nic_passed, nic_sent>> /\ UNCHANGED <<nic_at, nic_cur, hw, mode, service, serviced>>
      /\ UNCHANGED <<rx_index, rdh, rdt, nic_rx, nic_arrived, service, nic_cur, hw>>
      /\ nic_at \in {"clear", "online"} /\ Len(nic_accepted) < NicSends /\ tdh' = tdh /\ tdt' = tx_tail'
      /\ tx_head' = Intel!Reaped
  BY DEF Intel!Transmit, Intel!initVars, Intel!rxVars
<1>2. ServiceInv' /\ ReceiveRing'
  BY <1>1, IntelKept
<1>3. /\ tx_head \in RingPlaces /\ tdh \in RingPlaces /\ tdt \in RingPlaces /\ tx_tail = tdt
      /\ nic_tx \in [RingPlaces -> [dd : BOOLEAN, frame : 0..NicSends]]
      /\ nic_accepted \in Seq(Nat) /\ Len(nic_accepted) =< NicSends
      /\ \A k \in 0..(Out - 1) : ~nic_tx[(tdh + k) % RingCount].dd
  BY DEF IntelInv, TransmitRing
<1>4. Len(nic_accepted) \in Nat
  BY <1>3
<1> DEFINE h == Intel!Reaped
           f == Len(nic_accepted) + 1
<1>5. h \in RingPlaces /\ Far(h, tdh, RingCount) + Out = Far(h, tdt, RingCount)
  BY ReapIs
<1> HIDE DEF h
<1>6. CASE ~Intel!Room(Intel!Reaped) /\ UNCHANGED <<nic_accepted, nic_tx, tx_tail>>
  <2>1. UNCHANGED <<nic_at, tdh, tdt, tx_tail, nic_tx, nic_accepted>>
    BY <1>1, <1>3, <1>6
  <2>2. TransmitRing'
    BY <1>1, <2>1, ReapKeeps
  <2> QED
    BY <1>1, <1>2, <1>4, <2>1, <2>2 DEF IntelInv
<1>7. CASE /\ Intel!Room(Intel!Reaped)
           /\ nic_accepted' = Append(nic_accepted, Len(nic_accepted) + 1)
           /\ nic_tx' = [nic_tx EXCEPT ![tx_tail] = [dd |-> FALSE, frame |-> Len(nic_accepted) + 1]]
           /\ tx_tail' = Intel!NextSlot(tx_tail)
  <2>1. tdt' = (tdt + 1) % RingCount /\ tdt' \in RingPlaces /\ tx_tail' = tdt' /\ tdt' # h
    BY <1>1, <1>3, <1>7, PlaceNext DEF Intel!Room, h
  <2>2. Far(h, tdt, RingCount) < RingCount - 1
    BY <1>0, <1>3, <1>5, <2>1, RoomLeft DEF RingPlaces
  <2>3. Far(h, tdh, RingCount) \in 0..(RingCount - 1) /\ Out \in 0..(RingCount - 1)
    BY <1>0, <1>3, <1>5, FarIs DEF RingPlaces, Out
  <2>4. Out < RingCount - 1
    BY <1>0, <1>5, <2>2, <2>3
  <2>5. Far(h, tdt', RingCount) = Far(h, tdt, RingCount) + 1
    BY <1>0, <1>3, <1>5, <2>1, <2>2, FarNext DEF RingPlaces
  <2>6. Out' = Out + 1
    <3>1. Far(tdh, (tdt + 1) % RingCount, RingCount) = Far(tdh, tdt, RingCount) + 1
      BY <1>0, <1>3, <2>4, FarNext DEF RingPlaces, Out
    <3> QED
      BY <1>1, <2>1, <3>1 DEF Out
  <2>7. Far(tx_head', tdh', RingCount) + Out' = Far(tx_head', tdt', RingCount)
    <3>1. tx_head' = h /\ tdh' = tdh
      BY <1>1 DEF h
    <3>2. Far(h, tdh, RingCount) + (Out + 1) = (Far(h, tdh, RingCount) + Out) + 1
      BY <2>3
    <3> QED
      BY <1>5, <2>5, <2>6, <3>1, <3>2
  <2>8. f \in 0..NicSends /\ f \in Nat
    BY <1>0, <1>1, <1>4
  <2>9. /\ nic_tx' \in [RingPlaces -> [dd : BOOLEAN, frame : 0..NicSends]]
        /\ \A i \in RingPlaces : i # tdt => nic_tx'[i] = nic_tx[i]
        /\ ~nic_tx'[tdt].dd /\ nic_tx'[tdt].frame = f
    BY <1>3, <1>7, <2>8
  <2>10. \A k \in 0..(Out' - 1) : ~nic_tx'[(tdh' + k) % RingCount].dd
    <3> SUFFICES ASSUME NEW k \in 0..Out PROVE ~nic_tx'[(tdh + k) % RingCount].dd
      BY <1>1, <2>3, <2>6
    <3>1. (tdh + Out) % RingCount = tdt
      BY <1>0, <1>3, RingPlace DEF RingPlaces, Out
    <3>2. CASE k = Out
      BY <2>9, <3>1, <3>2
    <3>3. CASE k # Out
      <4>1. k \in 0..(Out - 1) /\ tdh + k \in Int
        BY <1>0, <1>3, <2>3, <3>3 DEF RingPlaces
      <4>2. ~nic_tx[(tdh + k) % RingCount].dd
        BY <1>3, <4>1
      <4>3. (tdh + k) % RingCount \in RingPlaces
        BY <1>0, <4>1, PlaceIn DEF RingPlaces
      <4> QED
        BY <2>9, <4>2, <4>3
    <3> QED
      BY <3>2, <3>3
  <2>11. nic_accepted' \in Seq(Nat) /\ Len(nic_accepted') =< NicSends
    <3>1. nic_accepted' = Append(nic_accepted, f) /\ f \in Nat
      BY <1>7, <2>8
    <3>2. nic_accepted' \in Seq(Nat) /\ Len(nic_accepted') = Len(nic_accepted) + 1
      BY <1>3, <3>1, AppendProperties
    <3> QED
      BY <1>0, <1>1, <1>4, <3>2
  <2>12. TransmitRing'
    <3>1. tx_head' \in RingPlaces /\ tdh' \in RingPlaces /\ nic_at' \in {"clear", "online"}
      BY <1>1, <1>3, <1>5 DEF h
    <3> QED
      BY <2>1, <2>7, <2>9, <2>10, <2>11, <3>1 DEF TransmitRing
  <2>13. Goes' = Longer(Goes, f)
    <3>1. Framed(nic_tx) \in [0..(RingCount - 1) -> Nat]
      BY <1>0, <1>3, FramedIs DEF RingPlaces
    <3>2. Framed(nic_tx') = Put(Framed(nic_tx), tdt, f)
      <4>1. \A i \in RingPlaces : nic_tx'[i].frame = IF i = tdt THEN f ELSE nic_tx[i].frame
        BY <2>9
      <4> QED
        BY <1>3, <4>1 DEF Framed, Put
    <3> DEFINE g == Framed(nic_tx)
    <3>3. g \in [0..(RingCount - 1) -> Nat] /\ f \in Nat
      BY <2>8, <3>1
    <3>4. tdh \in 0..(RingCount - 1) /\ tdt \in 0..(RingCount - 1) /\ Far(tdh, tdt, RingCount) < RingCount - 1
      BY <1>3, <2>4 DEF RingPlaces, Out
    <3> HIDE DEF g, f
    <3>5. Extends(g, tdh, tdt, RingCount, f)
      BY <1>0, <3>3, <3>4, RingExtends, Zenon
    <3>6. Goes' = View(Framed(nic_tx'), tdh, Far(tdh, (tdt + 1) % RingCount, RingCount), RingCount)
      BY <1>1, <2>1 DEF Goes, Out, Framed
    <3> QED
      BY <3>2, <3>5, <3>6 DEF Goes, Out, Extends, g
  <2> QED
    BY <1>1, <1>2, <1>4, <2>4, <2>12, <2>13 DEF IntelInv
<1> QED
  BY <1>6, <1>7 DEF Intel!Transmit

-----------------------------------------------------------------------------
(* Refinement: what came and is not passed on, and what is still to go out, *)
(* are the queues.                                                         *)

Wait == IF nic_cur =< Candidates /\ hw[nic_cur].rx THEN Intel!Unread ELSE <<>>

LEMMA RingShows ==
  ASSUME Intel!E1000eAssumption, NEW r, NEW i \in RingPlaces, NEW j \in RingPlaces
  PROVE  [k \in 1..Intel!Gap(i, j) |-> r[(i + (k - 1)) % RingCount].frame]
           = View(Framed(r), i, Far(i, j, RingCount), RingCount)
<1>0. RingCount \in Nat \ {0} /\ i \in Nat
  BY IntelConstants DEF RingPlaces
<1>1. Intel!Gap(i, j) = Far(i, j, RingCount)
  BY DEF Intel!Gap, Far
<1>2. \A k \in 1..Far(i, j, RingCount) : (i + (k - 1)) % RingCount \in RingPlaces
  <2> TAKE k \in 1..Far(i, j, RingCount)
  <2>1. i + (k - 1) \in Int
    BY <1>0
  <2> QED
    BY <1>0, <2>1, PlaceIn DEF RingPlaces
<1> QED
  BY <1>1, <1>2 DEF View, Framed

LEMMA IntelShows ==
  ASSUME Intel!E1000eAssumption
  PROVE  /\ IntelInv =>
              /\ Wait = IF Live THEN IF service = "recycle" /\ Came # <<>> THEN Tail(Came) ELSE Came ELSE <<>>
              /\ Intel!Unsent = Goes
         /\ IntelInv' =>
              /\ Wait' = IF Live' THEN IF service' = "recycle" /\ Came' # <<>> THEN Tail(Came') ELSE Came' ELSE <<>>
              /\ Intel!Unsent' = Goes'
<1>1. ASSUME IntelInv
      PROVE  /\ Wait = IF Live THEN IF service = "recycle" /\ Came # <<>> THEN Tail(Came) ELSE Came ELSE <<>>
             /\ Intel!Unsent = Goes
  <2>1. /\ rx_index \in RingPlaces /\ rdh \in RingPlaces /\ tdh \in RingPlaces /\ tdt \in RingPlaces /\ nic_cur \in 1..(Candidates + 1)
    BY <1>1 DEF IntelInv, DmaInv, ReceiveRing, TransmitRing
  <2>2. (nic_cur =< Candidates) <=> nic_cur \in Tried
    BY <2>1, IntelConstants DEF Tried
  <2>3. Intel!Unread = IF service = "recycle" /\ Came # <<>> THEN Tail(Came) ELSE Came
    BY <2>1, RingShows DEF Intel!Unread, Came, Got
  <2>4. Intel!Unsent = Goes
    BY <2>1, RingShows DEF Intel!Unsent, Goes, Out
  <2> QED
    BY <2>2, <2>3, <2>4 DEF Wait, Live
<1>2. ASSUME IntelInv'
      PROVE  /\ Wait' = IF Live' THEN IF service' = "recycle" /\ Came' # <<>> THEN Tail(Came') ELSE Came' ELSE <<>>
             /\ Intel!Unsent' = Goes'
  <2>1. /\ rx_index' \in RingPlaces /\ rdh' \in RingPlaces /\ tdh' \in RingPlaces /\ tdt' \in RingPlaces /\ nic_cur' \in 1..(Candidates + 1)
    BY <1>2 DEF IntelInv, DmaInv, ReceiveRing, TransmitRing, RingPlaces
  <2>2. (nic_cur' =< Candidates) <=> nic_cur' \in Tried
    BY <2>1, IntelConstants DEF Tried
  <2>3. Intel!Unread' = IF service' = "recycle" /\ Came' # <<>> THEN Tail(Came') ELSE Came'
    <3>1. [k \in 1..Intel!Gap(rx_index', rdh') |-> nic_rx'[(rx_index' + (k - 1)) % RingCount].frame]
            = View(Framed(nic_rx'), rx_index', Far(rx_index', rdh', RingCount), RingCount)
      BY <2>1, RingShows
    <3>2. Came' = View(Framed(nic_rx'), rx_index', Far(rx_index', rdh', RingCount), RingCount)
      BY DEF Came, Got, Framed, RingPlaces
    <3>3. Intel!Unread' =
            LET frames == [k \in 1..Intel!Gap(rx_index', rdh') |-> nic_rx'[(rx_index' + (k - 1)) % RingCount].frame]
            IN  IF service' = "recycle" /\ frames # <<>> THEN Tail(frames) ELSE frames
      BY DEF Intel!Unread
    <3> QED
      BY <3>1, <3>2, <3>3
  <2>4. Intel!Unsent' = Goes'
    <3>1. [k \in 1..Intel!Gap(tdh', tdt') |-> nic_tx'[(tdh' + (k - 1)) % RingCount].frame]
            = View(Framed(nic_tx'), tdh', Far(tdh', tdt', RingCount), RingCount)
      BY <2>1, RingShows
    <3>2. Goes' = View(Framed(nic_tx'), tdh', Far(tdh', tdt', RingCount), RingCount)
      BY DEF Goes, Out, Framed, RingPlaces
    <3> QED
      BY <3>1, <3>2 DEF Intel!Unsent
  <2> QED
    BY <2>2, <2>3, <2>4 DEF Wait, Live
<1> QED
  BY <1>1, <1>2

LEMMA RingsHold ==
  ASSUME Intel!E1000eAssumption, IntelInv
  PROVE  /\ Came \in Seq(Nat) /\ Len(Came) = Got /\ Got \in 0..(RingCount - 1)
         /\ Goes \in Seq(Nat) /\ Len(Goes) = Out /\ Out \in 0..(RingCount - 1)
         /\ service = "recycle" => Came # <<>>
<1>0. RingCount \in Nat \ {0} /\ MaxFrames \in Nat /\ NicSends \in Nat
  BY IntelConstants
<1>1. /\ rx_index \in RingPlaces /\ rdh \in RingPlaces /\ tdh \in RingPlaces /\ tdt \in RingPlaces
      /\ nic_rx \in [RingPlaces -> [dd : BOOLEAN, frame : 0..MaxFrames]] /\ nic_tx \in [RingPlaces -> [dd : BOOLEAN, frame : 0..NicSends]]
      /\ service = "recycle" => rx_index # rdh
  BY DEF IntelInv, ReceiveRing, TransmitRing
<1>2. Framed(nic_rx) \in [0..(RingCount - 1) -> Nat] /\ Framed(nic_tx) \in [0..(RingCount - 1) -> Nat]
  BY <1>0, <1>1, FramedIs DEF RingPlaces
<1>3. Got \in 0..(RingCount - 1) /\ Out \in 0..(RingCount - 1) /\ rx_index \in Nat /\ tdh \in Nat /\ Got \in Nat /\ Out \in Nat
  <2>0. RingCount \in Nat \ {0}
    BY <1>0
  <2>1. /\ rx_index \in 0..(RingCount - 1) /\ rdh \in 0..(RingCount - 1)
        /\ tdh \in 0..(RingCount - 1) /\ tdt \in 0..(RingCount - 1)
    BY <1>1 DEF RingPlaces
  <2>2. Got \in 0..(RingCount - 1)
    BY <2>0, <2>1, FarIs DEF Got
  <2>3. Out \in 0..(RingCount - 1)
    BY <2>0, <2>1, FarIs DEF Out
  <2> QED
    BY <2>0, <2>1, <2>2, <2>3
<1>4. Came \in Seq(Nat) /\ Len(Came) = Got
  <2> DEFINE g == Framed(nic_rx)
             n == Got
  <2>1. g \in [0..(RingCount - 1) -> Nat] /\ n \in Nat
    BY <1>2, <1>3
  <2> HIDE DEF g, n
  <2>2. View(g, rx_index, n, RingCount) \in Seq(Nat) /\ Len(View(g, rx_index, n, RingCount)) = n
    <3>1. RingCount \in Nat \ {0} /\ rx_index \in Nat
      BY <1>0, <1>3
    <3> QED
      BY <2>1, <3>1, ViewIsSeq
  <2> QED
    BY <2>2 DEF Came, g, n
<1>5. Goes \in Seq(Nat) /\ Len(Goes) = Out
  <2> DEFINE g == Framed(nic_tx)
             n == Out
  <2>1. g \in [0..(RingCount - 1) -> Nat] /\ n \in Nat
    BY <1>2, <1>3
  <2> HIDE DEF g, n
  <2>2. View(g, tdh, n, RingCount) \in Seq(Nat) /\ Len(View(g, tdh, n, RingCount)) = n
    <3>1. RingCount \in Nat \ {0} /\ tdh \in Nat
      BY <1>0, <1>3
    <3> QED
      BY <2>1, <3>1, ViewIsSeq
  <2> QED
    BY <2>2 DEF Goes, g, n
<1>6. service = "recycle" => Came # <<>>
  <2>1. rx_index # rdh => Got # 0
    BY <1>0, <1>1, FarZero DEF RingPlaces, Got
  <2> QED
    BY <1>1, <1>4, <2>1
<1> QED
  BY <1>3, <1>4, <1>5, <1>6

\* The first of a longer queue is the first of the queue.
LEMMA TailLonger ==
  ASSUME NEW v \in Seq(Nat), NEW f \in Nat
  PROVE  /\ Longer(v, f) \in Seq(Nat) /\ Len(Longer(v, f)) = Len(v) + 1 /\ Len(v) \in Nat /\ Longer(v, f) # <<>>
         /\ v # <<>> => Tail(Longer(v, f)) = Longer(Tail(v), f) /\ Len(Tail(v)) = Len(v) - 1
<1>1. /\ Longer(v, f) \in Seq(Nat) /\ Len(Longer(v, f)) = Len(v) + 1 /\ Longer(v, f) # <<>> /\ Len(v) \in Nat
      /\ Longer(v, f)[Len(v) + 1] = f /\ \A k \in 1..Len(v) : Longer(v, f)[k] = v[k]
  BY AppendProperties, LenProperties DEF Longer
<1>2. ASSUME v # <<>> PROVE Tail(Longer(v, f)) = Longer(Tail(v), f) /\ Len(Tail(v)) = Len(v) - 1
  <2> DEFINE w == Longer(v, f)
             t == Tail(v)
             a == Tail(w)
             b == Append(t, f)
  <2>1. t \in Seq(Nat) /\ Len(t) = Len(v) - 1 /\ \A k \in 1..(Len(v) - 1) : t[k] = v[k + 1]
    BY <1>2, HeadTailProperties
  <2>2. w \in Seq(Nat) /\ Len(w) = Len(v) + 1 /\ w # <<>>
    BY <1>1
  <2> HIDE DEF w, t
  <2>3. a \in Seq(Nat) /\ Len(a) = Len(w) - 1 /\ \A k \in 1..(Len(w) - 1) : a[k] = w[k + 1]
    BY <2>2, HeadTailProperties
  <2>4. /\ b \in Seq(Nat) /\ Len(b) = Len(t) + 1 /\ b[Len(t) + 1] = f /\ \A k \in 1..Len(t) : b[k] = t[k]
    BY <2>1, AppendProperties
  <2> HIDE DEF a, b
  <2>5. \A k \in 1..Len(a) : a[k] = b[k]
    <3> SUFFICES ASSUME NEW k \in 1..Len(a) PROVE a[k] = b[k]
      OBVIOUS
    <3>1. CASE k = Len(v)
      <4>1. a[k] = f
        BY <3>1, <1>1, <2>2, <2>3 DEF w
      <4>2. b[k] = f
        BY <3>1, <1>1, <2>1, <2>4
      <4> QED
        BY <4>1, <4>2
    <3>2. CASE k # Len(v)
      <4>1. k \in 1..(Len(v) - 1) /\ k + 1 \in 1..Len(v)
        BY <3>2, <1>1, <2>2, <2>3
      <4>2. a[k] = v[k + 1]
        BY <4>1, <1>1, <2>2, <2>3 DEF w
      <4>3. b[k] = v[k + 1]
        BY <4>1, <2>1, <2>4
      <4> QED
        BY <4>2, <4>3
    <3> QED
      BY <3>1, <3>2
  <2>6. Len(a) = Len(b)
    BY <1>1, <2>1, <2>2, <2>3, <2>4
  <2>7. a = b
    BY <2>3, <2>4, <2>5, <2>6, SeqEqual
  <2> QED
    BY <2>1, <2>7 DEF a, b, w, t, Longer
<1> QED
  BY <1>1, <1>2

\* The view of the first frame that came.
LEMMA FirstCame ==
  ASSUME Intel!E1000eAssumption, IntelInv, Live, rx_index # rdh
  PROVE  Came # <<>> /\ Head(Came) = nic_rx[rx_index].frame /\ nic_rx[rx_index].frame \in 1..MaxFrames
<1>0. RingCount \in Nat \ {0} /\ MaxFrames \in Nat
  BY IntelConstants
<1>1. /\ rx_index \in RingPlaces /\ rdh \in RingPlaces
      /\ nic_rx \in [RingPlaces -> [dd : BOOLEAN, frame : 0..MaxFrames]]
      /\ \A k \in 0..(Got - 1) : nic_rx[(rx_index + k) % RingCount].frame # 0
  BY DEF IntelInv, ReceiveRing
<1>2. rx_index \in 0..(RingCount - 1) /\ rdh \in 0..(RingCount - 1)
  BY <1>1 DEF RingPlaces
<1>3. Came # <<>> /\ Head(Came) = Framed(nic_rx)[rx_index]
  <2>1. Framed(nic_rx) \in [0..(RingCount - 1) -> Nat]
    BY <1>0, <1>1, FramedIs DEF RingPlaces
  <2> QED
    BY <1>0, <1>2, <2>1, RingPop DEF Came, Got
<1>4. nic_rx[rx_index].frame # 0
  <2>1. Got \in 0..(RingCount - 1)
    BY <1>0, <1>2, FarIs DEF Got
  <2>2. Got # 0
    BY <1>0, <1>2, FarZero DEF Got
  <2>3. 0 \in 0..(Got - 1)
    BY <1>0, <2>1, <2>2
  <2>4. nic_rx[(rx_index + 0) % RingCount].frame # 0
    BY <1>1, <2>3
  <2>5. rx_index % RingCount = rx_index /\ rx_index + 0 = rx_index
    BY <1>0, <1>2, SmallPlace
  <2> QED
    BY <2>4, <2>5
<1>5. nic_rx[rx_index].frame \in 0..MaxFrames /\ nic_rx[rx_index].frame = Framed(nic_rx)[rx_index]
  BY <1>1 DEF Framed
<1> QED
  BY <1>0, <1>3, <1>4, <1>5

LEMMA IntelArrives ==
  ASSUME Intel!E1000eAssumption, IntelInv, DmaInv', Causes', Intel!Receive
  PROVE  IntelInv' /\ Intel!Link!Next
<1> DEFINE f == nic_arrived + 1
<1>1. /\ IntelInv' /\ Live /\ Live' /\ Got < RingCount - 1
      /\ Came' = Longer(Came, f) /\ nic_arrived < MaxFrames
  BY IntelReceive
<1>2. UNCHANGED <<nic_at, service, nic_passed, nic_sent, nic_tx, tdh, tdt>>
  BY DEF Intel!Receive, Intel!initVars, Intel!txVars
<1>3. MaxFrames \in Nat /\ NicSends \in Nat /\ RingCount \in Nat /\ nic_arrived \in Nat
  BY IntelConstants DEF IntelInv, ReceiveRing
<1>4. f \in Nat /\ f \in 1..(MaxFrames + NicSends)
  BY <1>1, <1>3
<1> HIDE DEF f
<1>5. Came \in Seq(Nat) /\ Len(Came) = Got /\ Got \in Nat /\ (service = "recycle" => Came # <<>>)
  BY RingsHold
<1>6. /\ Wait = IF service = "recycle" /\ Came # <<>> THEN Tail(Came) ELSE Came
      /\ Wait' = IF service' = "recycle" /\ Came' # <<>> THEN Tail(Came') ELSE Came'
  BY <1>1, IntelShows
<1>7. Wait' = Append(Wait, f) /\ Len(Wait) < RingCount - 1
  <2>1. /\ Longer(Came, f) # <<>>
        /\ Came # <<>> => Tail(Longer(Came, f)) = Longer(Tail(Came), f) /\ Len(Tail(Came)) = Len(Came) - 1
    BY <1>4, <1>5, TailLonger
  <2>2. CASE service = "recycle"
    <3>1. Wait = Tail(Came) /\ Len(Tail(Came)) = Got - 1
      BY <1>5, <1>6, <2>1, <2>2
    <3>2. Wait' = Longer(Tail(Came), f)
      BY <1>1, <1>2, <1>5, <1>6, <2>1, <2>2
    <3> QED
      BY <1>1, <1>3, <1>5, <3>1, <3>2 DEF Longer
  <2>3. CASE service # "recycle"
    <3>1. Wait = Came /\ Wait' = Longer(Came, f)
      BY <1>1, <1>2, <1>6, <2>3
    <3> QED
      BY <1>1, <1>5, <3>1 DEF Longer
  <2> QED
    BY <2>2, <2>3
<1>8. Intel!Unsent' = Intel!Unsent /\ Intel!Usable' = Intel!Usable
  BY <1>2 DEF Intel!Unsent, Intel!Usable
<1>9. Intel!Link!Arrive(f)
  BY <1>2, <1>7, <1>8 DEF Intel!Link!Arrive, Wait
<1> QED
  BY <1>1, <1>4, <1>9 DEF Intel!Link!Next

LEMMA IntelPasses ==
  ASSUME Intel!E1000eAssumption, IntelInv, DmaInv', Causes', Intel!TakeFrame
  PROVE  IntelInv' /\ Intel!Link!Next
<1>1. /\ IntelInv' /\ nic_at \in {"clear", "online"} /\ Live /\ rx_index # rdh
      /\ UNCHANGED <<nic_at, nic_cur, hw, nic_rx, rdh, rx_index, nic_tx, tdh, tdt, nic_sent>>
      /\ service = "frames" /\ service' = "recycle"
      /\ nic_passed' = IF Intel!Good(nic_rx[rx_index].frame) THEN Append(nic_passed, nic_rx[rx_index].frame) ELSE nic_passed
  BY IntelTakeFrame
<1>2. Came # <<>> /\ Head(Came) = nic_rx[rx_index].frame /\ nic_rx[rx_index].frame \in 1..MaxFrames
  BY <1>1, FirstCame
<1>3. Live' /\ Came' = Came
  BY <1>1 DEF Live, Came, Got, Framed
<1>4. Wait = Came /\ Wait' = Tail(Came)
  <2>1. Wait' = Tail(Came')
    BY <1>1, <1>2, <1>3, IntelShows
  <2>2. Wait = Came
    BY <1>1, IntelShows
  <2> QED
    BY <1>3, <2>1, <2>2
<1>5. Intel!Unsent' = Intel!Unsent /\ Intel!Usable' = Intel!Usable /\ Intel!Usable
  BY <1>1 DEF Intel!Unsent, Intel!Usable
<1>6. CASE Intel!Good(nic_rx[rx_index].frame)
  <2>1. Head(Wait) \in {f \in 1..MaxFrames : Intel!Good(f)} /\ nic_passed' = Append(nic_passed, Head(Wait)) /\ Wait # <<>>
    BY <1>1, <1>2, <1>4, <1>6
  <2>2. Intel!Link!PassUp
    BY <1>1, <1>4, <1>5, <2>1 DEF Intel!Link!PassUp, Wait
  <2> QED
    BY <1>1, <2>2 DEF Intel!Link!Next
<1>7. CASE ~Intel!Good(nic_rx[rx_index].frame)
  <2>1. Head(Wait) \notin {f \in 1..MaxFrames : Intel!Good(f)} /\ nic_passed' = nic_passed /\ Wait # <<>>
    BY <1>1, <1>2, <1>4, <1>7
  <2>2. Intel!Link!Discard
    BY <1>1, <1>4, <1>5, <2>1 DEF Intel!Link!Discard, Wait
  <2> QED
    BY <1>1, <2>2 DEF Intel!Link!Next
<1> QED
  BY <1>6, <1>7

\* The wait of the stack's frames does not touch what came.
LEMMA WaitKept ==
  ASSUME UNCHANGED <<nic_cur, hw, nic_rx, rdh, rx_index, service>>
  PROVE  Wait' = Wait
BY DEF Wait, Intel!Unread

LEMMA IntelAccepts ==
  ASSUME Intel!E1000eAssumption, IntelInv, DmaInv', Causes', Intel!Transmit
  PROVE  IntelInv' /\ (Intel!Link!Next \/ UNCHANGED Intel!Link!vars)
<1> DEFINE f == Len(nic_accepted) + 1
<1>1. /\ IntelInv' /\ nic_at \in {"clear", "online"} /\ UNCHANGED <<nic_at, nic_cur, hw, nic_rx, rdh, rx_index, service, nic_passed, nic_sent>>
      /\ Len(nic_accepted) < NicSends /\ Len(nic_accepted) \in Nat
      /\ \/ UNCHANGED <<nic_tx, tdh, tdt>>
         \/ Goes' = Longer(Goes, f) /\ Out < RingCount - 1
  BY IntelTransmit
<1>2. Wait' = Wait /\ Intel!Usable' = Intel!Usable /\ Intel!Usable
  BY <1>1, WaitKept DEF Intel!Usable
<1>3. MaxFrames \in Nat /\ NicSends \in Nat
  BY IntelConstants
<1>4. f \in 1..(MaxFrames + NicSends)
  BY <1>1, <1>3
<1> HIDE DEF f
<1>5. CASE UNCHANGED <<nic_tx, tdh, tdt>>
  <2>1. Intel!Unsent' = Intel!Unsent
    BY <1>5 DEF Intel!Unsent
  <2> QED
    BY <1>1, <1>2, <2>1 DEF Intel!Link!vars, Wait
<1>6. CASE Goes' = Longer(Goes, f) /\ Out < RingCount - 1
  <2>1. Len(Goes) = Out
    BY RingsHold
  <2>2. Intel!Unsent = Goes /\ Intel!Unsent' = Goes'
    BY <1>1, IntelShows
  <2>3. Intel!Unsent' = Append(Intel!Unsent, f) /\ Len(Intel!Unsent) < RingCount - 1
    BY <1>6, <2>1, <2>2 DEF Longer
  <2>4. Intel!Link!Accept(f)
    BY <1>1, <1>2, <2>3 DEF Intel!Link!Accept, Wait
  <2> QED
    BY <1>1, <1>4, <2>4 DEF Intel!Link!Next
<1> QED
  BY <1>1, <1>5, <1>6

LEMMA IntelEmits ==
  ASSUME Intel!E1000eAssumption, IntelInv, DmaInv', Causes', Intel!Emit
  PROVE  IntelInv' /\ Intel!Link!Next
<1>1. /\ IntelInv' /\ UNCHANGED <<nic_at, nic_cur, hw, nic_rx, rdh, rx_index, service, nic_passed>>
      /\ Goes' = Tail(Goes) /\ Goes # <<>> /\ nic_sent' = Append(nic_sent, Head(Goes))
  BY IntelEmit
<1>2. Wait' = Wait /\ Intel!Usable' = Intel!Usable
  BY <1>1, WaitKept DEF Intel!Usable
<1>3. Intel!Unsent = Goes /\ Intel!Unsent' = Goes'
  BY <1>1, IntelShows
<1>4. Intel!Unsent # <<>> /\ nic_sent' = Append(nic_sent, Head(Intel!Unsent)) /\ Intel!Unsent' = Tail(Intel!Unsent)
  BY <1>1, <1>3
<1>5. Intel!Link!Emit
  BY <1>1, <1>2, <1>4 DEF Intel!Link!Emit, Wait
<1> QED
  BY <1>1, <1>5 DEF Intel!Link!Next

\* A frame is passed on when it is taken, before its place is given back.
LEMMA IntelGivesBack ==
  ASSUME Intel!E1000eAssumption, IntelInv, DmaInv', Causes',
         Intel!Recycle \/ Intel!Poll \/ Intel!Interrupt \/ Intel!ServiceDone
  PROVE  IntelInv' /\ UNCHANGED Intel!Link!vars
<1>1. CASE Intel!Recycle
  <2>1. /\ IntelInv' /\ Live /\ UNCHANGED <<nic_at, nic_cur, hw, nic_tx, tdh, tdt, nic_passed, nic_sent>>
        /\ service = "recycle" /\ service' = "frames"
        /\ Came' = Tail(Came)
    BY <1>1, IntelRecycle
  <2>2. Live'
    BY <2>1 DEF Live
  <2>3. Wait = Tail(Came)
    BY <2>1, IntelShows, RingsHold
  <2>4. Wait' = Came'
    BY <2>1, <2>2, IntelShows
  <2>5. Intel!Unsent' = Intel!Unsent /\ Intel!Usable' = Intel!Usable /\ Wait' = Wait
    BY <2>1, <2>3, <2>4 DEF Intel!Unsent, Intel!Usable
  <2> QED
    BY <2>1, <2>5 DEF Intel!Link!vars, Wait
<1>2. CASE Intel!Poll \/ Intel!Interrupt \/ Intel!ServiceDone
  <2>1. /\ IntelInv' /\ UNCHANGED <<nic_at, nic_cur, hw, nic_rx, rdh, rx_index, nic_tx, tdh, tdt, nic_passed, nic_sent>>
        /\ service # "recycle" /\ service' # "recycle"
    BY <1>2, IntelCalled
  <2>2. Intel!Unsent' = Intel!Unsent /\ Intel!Usable' = Intel!Usable
    BY <2>1 DEF Intel!Unsent, Intel!Usable
  <2>3. Wait' = Wait
    BY <2>1 DEF Wait, Intel!Unread
  <2> QED
    BY <2>1, <2>2, <2>3 DEF Intel!Link!vars, Wait
<1> QED
  BY <1>1, <1>2

\* The rings are laid before the driver has a device in use, and what came by
\* then is lost only if it gives the device up.
LEMMA IntelSetsUp ==
  ASSUME Intel!E1000eAssumption, IntelInv, DmaInv', Causes', Intel!Setup
  PROVE  IntelInv' /\ (Intel!Link!Next \/ UNCHANGED Intel!Link!vars)
<1>1. IntelInv'
  BY IntelSetup
<1>2. /\ Wait = IF Live THEN IF service = "recycle" /\ Came # <<>> THEN Tail(Came) ELSE Came ELSE <<>>
      /\ Wait' = IF Live' THEN IF service' = "recycle" /\ Came' # <<>> THEN Tail(Came') ELSE Came' ELSE <<>>
      /\ Intel!Unsent = Goes /\ Intel!Unsent' = Goes'
  BY <1>1, IntelShows
<1>3. CASE Intel!Probe \/ Intel!Drain
  <2>1. /\ nic_at \in {"probe", "drain"} /\ nic_at' \in {"probe", "rx", "none"}
        /\ UNCHANGED <<nic_tx, tdh, tdt, nic_passed, nic_sent>>
    BY <1>3 DEF Intel!Probe, Intel!Drain, Intel!rxVars, Intel!txVars
  <2>2. ~Live /\ ~Live'
    BY <1>1, <2>1 DEF IntelInv, DmaInv, Live, Tried
  <2>3. Intel!Unsent' = Intel!Unsent /\ Intel!Usable' = Intel!Usable /\ Wait' = Wait
    BY <1>2, <2>1, <2>2 DEF Intel!Unsent, Intel!Usable
  <2> QED
    BY <1>1, <2>1, <2>3 DEF Intel!Link!vars, Wait
<1>4. CASE Intel!SetupRx
  <2>1. /\ nic_at = "rx" /\ (nic_at' = "quiesce" \/ nic_at' = "tx")
        /\ UNCHANGED <<nic_tx, tdh, tdt, nic_passed, nic_sent>> /\ nic_cur' = nic_cur /\ service' = service
        /\ hw' = hw \/ (rdh' = 0 /\ rx_index' = 0)
    BY <1>4, Zenon DEF Intel!SetupRx, Intel!txVars
  <2>2. ~Live
    BY <2>1, CalledInService
  <2>3. service # "recycle"
    BY <2>1 DEF IntelInv, ServiceInv
  <2>4. Wait' = <<>>
    <3>1. CASE UNCHANGED hw
      BY <1>2, <2>1, <2>2, <3>1 DEF Live
    <3>2. CASE rdh' = 0 /\ rx_index' = 0
      <4>1. Came' = View(Framed(nic_rx'), 0, Far(0, 0, RingCount), RingCount)
        BY <3>2 DEF Came, Got, Framed
      <4>2. Came' = <<>>
        BY <4>1, ZeroRing DEF View
      <4> QED
        BY <1>2, <2>1, <2>3, <4>2
    <3> QED
      BY <2>1, <3>1, <3>2
  <2>5. Intel!Unsent' = Intel!Unsent /\ Intel!Usable' = Intel!Usable /\ Wait' = Wait
    BY <1>2, <2>1, <2>2, <2>4 DEF Intel!Unsent, Intel!Usable
  <2> QED
    BY <1>1, <2>1, <2>5 DEF Intel!Link!vars, Wait
<1>5. CASE Intel!SetupTx
  <2>1. /\ nic_at = "tx" /\ (nic_at' = "quiesce" \/ nic_at' = "link")
        /\ UNCHANGED <<nic_cur, hw, nic_rx, rdh, rx_index, service>> /\ UNCHANGED <<nic_passed, nic_sent>>
        /\ UNCHANGED <<nic_tx, tdh, tdt>> \/ (tdh' = 0 /\ tdt' = 0)
    BY <1>5, Zenon DEF Intel!SetupTx, Intel!txVars, Intel!rxVars
  <2>2. Wait' = Wait
    BY <2>1, WaitKept
  <2>3. Intel!Unsent' = Intel!Unsent
    <3>1. CASE UNCHANGED <<nic_tx, tdh, tdt>>
      BY <3>1 DEF Intel!Unsent
    <3>2. CASE tdh' = 0 /\ tdt' = 0
      <4>1. Goes' = View(Framed(nic_tx'), 0, Far(0, 0, RingCount), RingCount)
        BY <3>2 DEF Goes, Out, Framed
      <4>2. Goes' = <<>>
        BY <4>1, ZeroRing DEF View
      <4>3. tdh \in 0..(RingCount - 1) /\ tdh = tdt /\ RingCount \in Nat \ {0}
        BY <2>1, IntelConstants DEF IntelInv, TransmitRing, RingPlaces
      <4>4. Out = 0
        BY <4>3, FarZero DEF Out
      <4>5. Goes = <<>>
        BY <4>4 DEF Goes, View
      <4> QED
        BY <1>2, <4>2, <4>5
    <3> QED
      BY <2>1, <3>1, <3>2
  <2>4. Intel!Usable' = Intel!Usable
    BY <2>1 DEF Intel!Usable
  <2> QED
    BY <1>1, <2>1, <2>2, <2>3, <2>4 DEF Intel!Link!vars, Wait
<1>6. CASE Intel!RegisterLink \/ Intel!RegisterService \/ Intel!ClearCauses
  <2>1. /\ UNCHANGED <<nic_cur, hw, nic_rx, rdh, rx_index, service>> /\ UNCHANGED <<nic_passed, nic_sent>> /\ UNCHANGED <<nic_tx, tdh, tdt>>
        /\ \/ nic_at = "link" /\ nic_at' \in {"quiesce", "service"}
           \/ nic_at = "service" /\ nic_at' \in {"online", "clear"}
           \/ nic_at = "clear" /\ nic_at' = "online"
    BY <1>6 DEF Intel!RegisterLink, Intel!RegisterService, Intel!ClearCauses, Intel!rxVars, Intel!txVars
  <2>2. Wait' = Wait /\ Intel!Unsent' = Intel!Unsent
    BY <2>1, WaitKept DEF Intel!Unsent
  <2>3. CASE nic_at = "link" /\ nic_at' = "service"
    <3>1. ~Intel!Usable /\ Intel!Usable'
      BY <2>3 DEF Intel!Usable
    <3>2. Intel!Link!Start
      BY <2>1, <2>2, <3>1 DEF Intel!Link!Start, Wait
    <3> QED
      BY <1>1, <3>2 DEF Intel!Link!Next
  <2>4. CASE ~(nic_at = "link" /\ nic_at' = "service")
    <3>1. Intel!Usable' = Intel!Usable
      BY <2>1, <2>4 DEF Intel!Usable
    <3> QED
      BY <1>1, <2>1, <2>2, <3>1 DEF Intel!Link!vars, Wait
  <2> QED
    BY <2>3, <2>4
<1>7. CASE Intel!Quiesce
  <2>1. /\ nic_at = "quiesce" /\ nic_at' = "drain" /\ hw' = [hw EXCEPT ![nic_cur].rx = FALSE] /\ nic_cur' = nic_cur
        /\ UNCHANGED <<nic_passed, nic_sent>> /\ UNCHANGED <<nic_tx, tdh, tdt>>
    BY <1>7 DEF Intel!Quiesce, Intel!rxVars, Intel!txVars
  <2>2. ~Live'
    BY <2>1 DEF IntelInv, DmaInv, Live, Tried
  <2>3. Wait' = <<>> /\ Intel!Unsent' = Intel!Unsent /\ ~Intel!Usable /\ Intel!Usable' = Intel!Usable
    BY <1>2, <2>1, <2>2 DEF Intel!Unsent, Intel!Usable
  <2>4. Intel!Link!GiveUp
    BY <2>1, <2>3 DEF Intel!Link!GiveUp, Wait
  <2> QED
    BY <1>1, <2>4 DEF Intel!Link!Next
<1> QED
  BY <1>3, <1>4, <1>5, <1>6, <1>7 DEF Intel!Setup

LEMMA IntelStutters ==
  ASSUME IntelInv, UNCHANGED Intel!vars
  PROVE  IntelInv' /\ UNCHANGED Intel!Link!vars
<1>1. /\ UNCHANGED <<nic_at, nic_cur, hw, mode, service, serviced>> /\ UNCHANGED <<icr, ims, msi>>
      /\ UNCHANGED <<rx_index, rdh, rdt, nic_rx, nic_arrived, service, nic_cur, hw>> /\ UNCHANGED <<nic_tx, tdh, tdt>>
      /\ UNCHANGED <<nic_at, tx_head, tdh, tdt, tx_tail, nic_tx, nic_accepted>> /\ pages' = pages /\ UNCHANGED <<nic_passed, nic_sent>>
  BY Zenon DEF Intel!vars, Intel!initVars, Intel!rxVars, Intel!txVars, Intel!causeVars
<1>2. DmaInv'
  BY <1>1 DEF IntelInv, DmaInv
<1>3. IntelInv'
  BY <1>1, <1>2, IntelKept DEF IntelInv
<1>4. Wait' = Wait
  BY <1>1, WaitKept
<1> QED
  BY <1>1, <1>3, <1>4 DEF Intel!Link!vars, Wait, Intel!Usable, Intel!Unsent

LEMMA IntelStep ==
  ASSUME Intel!E1000eAssumption, IntelInv, [Intel!Next]_(Intel!vars)
  PROVE  IntelInv' /\ [Intel!Link!Next]_(Intel!Link!vars)
<1>1. DmaInv' /\ Causes'
  BY DmaStep, CausesStep DEF IntelInv
<1>2. CASE Intel!Setup
  BY <1>1, <1>2, IntelSetsUp
<1>3. CASE Intel!Receive
  BY <1>1, <1>3, IntelArrives
<1>4. CASE Intel!Emit
  BY <1>1, <1>4, IntelEmits
<1>5. CASE \E d \in Tried : Intel!BeginDma(d) \/ Intel!EndDma(d)
  <2>1. PICK d \in Tried : Intel!BeginDma(d) \/ Intel!EndDma(d)
    BY <1>5
  <2>2. IntelInv' /\ (Live' <=> Live) /\ UNCHANGED <<nic_at, nic_cur>> /\ UNCHANGED <<nic_rx, rdh, rx_index, service>>
         /\ UNCHANGED <<nic_tx, tdh, tdt>> /\ UNCHANGED <<nic_passed, nic_sent>>
    BY <1>1, <2>1, IntelDma
  <2>3. Came' = Came
    BY <2>2 DEF Came, Got, Framed
  <2>4. Wait = IF Live THEN IF service = "recycle" /\ Came # <<>> THEN Tail(Came) ELSE Came ELSE <<>>
    BY IntelShows
  <2>5. Wait' = IF Live' THEN IF service' = "recycle" /\ Came' # <<>> THEN Tail(Came') ELSE Came' ELSE <<>>
    BY <2>2, IntelShows
  <2>6. Wait' = Wait /\ Intel!Unsent' = Intel!Unsent /\ Intel!Usable' = Intel!Usable
    BY <2>2, <2>3, <2>4, <2>5 DEF Intel!Unsent, Intel!Usable
  <2> QED
    BY <2>2, <2>6 DEF Intel!Link!vars, Wait
<1>6. CASE Intel!TakeFrame
  BY <1>1, <1>6, IntelPasses
<1>7. CASE Intel!Recycle \/ Intel!Poll \/ Intel!Interrupt \/ Intel!ServiceDone
  BY <1>1, <1>7, IntelGivesBack
<1>8. CASE Intel!Transmit
  BY <1>1, <1>8, IntelAccepts
<1>9. CASE UNCHANGED Intel!vars
  BY <1>9, IntelStutters
<1> QED
  BY <1>2, <1>3, <1>4, <1>5, <1>6, <1>7, <1>8, <1>9 DEF Intel!Next, Intel!Device, Intel!Service, Tried

LEMMA IntelLinkInit ==
  ASSUME Intel!E1000eAssumption, Intel!Init
  PROVE  IntelInv /\ Intel!Link!Init
<1>1. IntelInv
  BY IntelInit
<1>2. ~Live /\ nic_at = "probe" /\ tdh = 0 /\ tdt = 0 /\ nic_passed = <<>> /\ nic_sent = <<>>
  BY DEF Intel!Init, Live, Tried
<1>3. Wait = <<>>
  BY <1>1, <1>2, IntelShows
<1>4. Intel!Unsent = <<>>
  <2>1. Out = 0
    BY <1>2, ZeroRing DEF Out
  <2>2. Goes = <<>>
    BY <2>1 DEF Goes, View
  <2> QED
    BY <1>1, <2>2, IntelShows
<1> QED
  BY <1>1, <1>2, <1>3, <1>4 DEF Intel!Link!Init, Wait, Intel!Usable

\* The driver of Intel controllers implements LinkFrames, over devices that are
\* given up, full rings and interrupts at any time, for rings of any size
\* (e1000e.cpp:1171-1243, 1366-1416).
THEOREM IntelKeepsFrames ==
  ASSUME Intel!E1000eAssumption
  PROVE  Intel!Spec => Intel!FramesInOrder
<1>1. Intel!Init => IntelInv /\ Intel!Link!Init
  BY IntelLinkInit
<1>2. IntelInv /\ [Intel!Next]_(Intel!vars) => IntelInv' /\ [Intel!Link!Next]_(Intel!Link!vars)
  BY IntelStep
<1> QED
  BY <1>1, <1>2, PTL DEF Intel!Spec, Intel!FramesInOrder, Intel!Link!Spec

LEMMA IntelTyped ==
  ASSUME IntelInv
  PROVE  Intel!TypeOK /\ Intel!DmaSafe
<1>1. DmaInv /\ ServiceInv /\ ReceiveRing /\ TransmitRing
  BY DEF IntelInv
<1>2. {icr, ims, msi} \subseteq BOOLEAN
  BY Zenon DEF IntelInv, Causes
<1>3. {rdh, rdt, rx_index, tdh, tdt, tx_head, tx_tail} \subseteq RingPlaces
  BY <1>1 DEF ReceiveRing, TransmitRing
<1>4. Intel!DmaSafe
  BY <1>1 DEF DmaInv, Intel!DmaSafe, Tried
<1> QED
  BY <1>1, <1>2, <1>3, <1>4
  DEF Intel!TypeOK, DmaInv, ServiceInv, ReceiveRing, TransmitRing, Tried, Intel!Slots, RingPlaces

\* The indices of its rings stay within them and each call handles at most a
\* ring of frames (e1000e.cpp:1202-1243).
THEOREM IntelRingsWellFormed ==
  ASSUME Intel!E1000eAssumption
  PROVE  Intel!Spec => []Intel!TypeOK
<1>1. Intel!Init => IntelInv
  BY IntelInit
<1>2. IntelInv /\ [Intel!Next]_(Intel!vars) => IntelInv'
  BY IntelStep
<1>3. IntelInv => Intel!TypeOK
  BY IntelTyped
<1> QED
  BY <1>1, <1>2, <1>3, PTL DEF Intel!Spec

-----------------------------------------------------------------------------
(* The driver of audio controllers: the queue in the cyclic buffer.        *)

\* The cell k frames ahead of the device, and how far it is through the queue.
Cell(i, k) == (i + k) % Ring
Spot(k) == Cell(position, k)
Gone == Far(last_position, position, Ring)
Rest == IF Gone < queued_bytes THEN queued_bytes - Gone ELSE 0

PlayFlags == run \in BOOLEAN /\ stream_running \in BOOLEAN /\ paused \in BOOLEAN /\ late \in BOOLEAN

PlayKinds ==
  /\ dma \in [0..(Ring - 1) -> 0..MaxSamples]
  /\ position \in 0..(Ring - 1) /\ write_position \in 0..(Ring - 1) /\ last_position \in 0..(Ring - 1)
  /\ queued_bytes \in 0..Ring
  /\ op \in {"none", "write", "drain", "flush", "pause", "status"}
  /\ step \in {"update", "rebase", "go on"}
  /\ left \in 0..MaxSamples /\ numbered \in 0..MaxSamples /\ numbered + left =< MaxSamples
  /\ silence \in 0..Guard /\ past \in 0..silence /\ queued_bytes + silence =< Ring

\* The device stands still once a halted stream was looked at, and a stream
\* that runs has something queued, or was found to have run out.
PlayModes ==
  /\ run => stream_running
  /\ ~run => Gone = 0 \/ (stream_running /\ step = "update" /\ op \in {"flush", "pause"})
  /\ stream_running => ~paused /\ (queued_bytes # 0 \/ step = "rebase")
  /\ step = "rebase" => stream_running /\ queued_bytes = 0
  /\ ~stream_running => (queued_bytes = 0 /\ ~late) \/ (queued_bytes # 0 /\ paused /\ op \notin {"write", "drain"})
  /\ paused => op # "write"
  /\ op = "none" => step = "update"

\* The driver writes behind what is queued, also when the device is past it.
PlayPlaces ==
  step # "rebase" =>
    /\ write_position = Spot(queued_bytes - Gone)
    /\ past = IF Gone > queued_bytes THEN Gone - queued_bytes ELSE 0

PlaySilence ==
  stream_running \/ queued_bytes # 0 => \A k \in 0..((silence - past) - 1) : dma[Spot(Rest + k)] = 0

\* What is queued is newer than what was heard, and in order.
PlayQueue ==
  /\ \A k \in 0..(Rest - 1) : dma[Spot(k)] \in 1..numbered
  /\ \A k \in 0..(Rest - 1), j \in 0..(Rest - 1) : k < j => dma[Spot(k)] < dma[Spot(j)]
  /\ \A k \in 0..(Rest - 1) : \A i \in DOMAIN heard : heard[i] < dma[Spot(k)]

PlayHeard ==
  /\ heard \in Seq(1..numbered)
  /\ \A i \in DOMAIN heard, j \in DOMAIN heard : i < j => heard[i] < heard[j]

PlayDue ==
  /\ snd_due \in Seq(1..MaxSamples)
  /\ ~late => past = 0 /\ snd_due = View(dma, position, Rest, Ring)

SoundInv ==
  PlayFlags /\ PlayKinds /\ PlayModes /\ PlayPlaces /\ PlaySilence /\ PlayQueue /\ PlayHeard /\ PlayDue

LEMMA SoundConstants ==
  ASSUME Sound!HdaAssumption
  PROVE  /\ Ring \in Nat \ {0} /\ Guard \in Nat /\ Guard < Ring /\ MaxSamples \in Nat /\ Page \in Nat
BY DEF Sound!HdaAssumption

LEMMA SoundFar ==
  ASSUME Sound!HdaAssumption, PlayKinds
  PROVE  /\ Gone \in 0..(Ring - 1) /\ Sound!Consumed = Gone
         /\ Rest \in 0..Ring /\ Rest =< queued_bytes
         /\ Gone = 0 <=> last_position = position
<1>1. /\ Ring \in Nat \ {0} /\ last_position \in 0..(Ring - 1) /\ position \in 0..(Ring - 1) /\ queued_bytes \in 0..Ring
  BY SoundConstants DEF PlayKinds
<1>2. Gone \in 0..(Ring - 1) /\ (Gone = 0 <=> last_position = position)
  BY <1>1, FarIs, FarZero DEF Gone
<1>3. Sound!Consumed = Gone
  BY DEF Sound!Consumed, Sound!Ahead, Gone, Far
<1> QED
  BY <1>1, <1>2, <1>3 DEF Rest

LEMMA SoundInit ==
  ASSUME Sound!HdaAssumption, Sound!Init PROVE SoundInv
<1>1. /\ Ring \in Nat \ {0} /\ MaxSamples \in Nat /\ Guard \in Nat
  BY SoundConstants
<1>2. /\ dma = [i \in 0..(Ring - 1) |-> 0] /\ position = 0 /\ write_position = 0 /\ queued_bytes = 0 /\ last_position = 0
      /\ op = "none" /\ step = "update" /\ left = 0 /\ numbered = 0 /\ snd_due = <<>> /\ heard = <<>> /\ past = 0 /\ silence = 0
      /\ ~run /\ ~stream_running /\ ~paused /\ ~late
  BY DEF Sound!Init, Sound!Cells
<1>3. PlayFlags
  BY Zenon DEF Sound!Init, PlayFlags
<1>4. PlayKinds
  BY <1>1, <1>2 DEF PlayKinds
<1>5. Gone = 0 /\ Rest = 0
  BY <1>2, <1>4, SoundFar DEF Rest
<1>6. PlayModes
  BY <1>2, <1>5 DEF PlayModes
<1>7. PlayPlaces
  <2>1. Spot(0) = 0
    BY <1>1, <1>2, SmallPlace DEF Spot, Cell
  <2> QED
    BY <1>2, <1>5, <2>1 DEF PlayPlaces
<1>8. PlaySilence
  BY <1>2 DEF PlaySilence
<1>9. PlayQueue /\ PlayHeard
  BY <1>2, <1>5 DEF PlayQueue, PlayHeard
<1>10. PlayDue
  BY <1>2, <1>5 DEF PlayDue, View
<1> QED
  BY <1>3, <1>4, <1>6, <1>7, <1>8, <1>9, <1>10 DEF SoundInv

\* The parts that say what the buffer holds, when what is left of the queue is
\* the same.
LEMMA SameSound ==
  ASSUME SoundInv, Rest' = Rest, UNCHANGED <<dma, position, heard, numbered, silence, past, snd_due>>, late' <=> late,
         stream_running' \/ queued_bytes' # 0 => stream_running \/ queued_bytes # 0
  PROVE  PlaySilence' /\ PlayQueue' /\ PlayHeard' /\ PlayDue'
<1>1. PlaySilence /\ PlayQueue /\ PlayHeard /\ PlayDue
  BY DEF SoundInv
<1> DEFINE r == Rest
<1>2. Rest = r /\ Rest' = r
  OBVIOUS
<1> HIDE DEF r
<1>3. PlaySilence'
  BY <1>1, <1>2 DEF PlaySilence, Spot
<1>4. PlayQueue'
  BY <1>1, <1>2 DEF PlayQueue, Spot
<1>5. PlayHeard'
  BY <1>1 DEF PlayHeard
<1>6. PlayDue'
  BY <1>1, <1>2 DEF PlayDue, View
<1> QED
  BY <1>3, <1>4, <1>5, <1>6

\* The stream begins anew where the device stands, with an empty queue.
LEMMA Rebased ==
  ASSUME Sound!HdaAssumption, SoundInv, Sound!Rebase, queued_bytes' = 0, snd_due' = <<>>,
         UNCHANGED <<numbered, heard, silence>>
  PROVE  /\ Gone' = 0 /\ Rest' = 0 /\ ~run' /\ ~stream_running' /\ ~late' /\ past' = 0 /\ dma' = dma
         /\ position' = position /\ write_position' = position /\ last_position' = position
         /\ PlayPlaces' /\ PlaySilence' /\ PlayQueue' /\ PlayHeard' /\ PlayDue'
<1>1. /\ ~run' /\ ~stream_running' /\ ~late' /\ past' = 0 /\ dma' = dma
      /\ position' = position /\ write_position' = position /\ last_position' = position
  BY DEF Sound!Rebase, Sound!Place
<1>2. Ring \in Nat \ {0} /\ position \in 0..(Ring - 1)
  BY SoundConstants DEF SoundInv, PlayKinds
<1>3. Gone' = 0
  <2>1. Far(position, position, Ring) = 0
    BY <1>2, FarZero
  <2> QED
    BY <1>1, <2>1 DEF Gone
<1>4. Rest' = 0
  BY <1>3 DEF Rest
<1>5. PlayPlaces'
  <2>1. (position + 0) % Ring = position
    BY <1>2, SmallPlace
  <2> QED
    BY <1>1, <1>3, <2>1 DEF PlayPlaces, Spot, Cell
<1>6. PlaySilence'
  BY <1>1 DEF PlaySilence
<1>7. PlayQueue'
  BY <1>4 DEF PlayQueue
<1>8. PlayHeard'
  BY DEF SoundInv, PlayHeard
<1>9. PlayDue'
  BY <1>1, <1>4 DEF PlayDue, View
<1> QED
  BY <1>1, <1>3, <1>4, <1>5, <1>6, <1>7, <1>8, <1>9

\* Steps that leave the device, the queue and the buffer as they are.
LEMMA SoundTalks ==
  ASSUME SoundInv, UNCHANGED <<dma, position, write_position, queued_bytes, last_position>>,
         UNCHANGED <<numbered, heard, silence, past, snd_due>>,
         PlayFlags', late' <=> late, stream_running' => stream_running \/ queued_bytes # 0,
         op' \in {"none", "write", "drain", "flush", "pause", "status"}, step' \in {"update", "go on"}, step # "rebase",
         left' \in 0..MaxSamples, numbered + left' =< MaxSamples, PlayModes'
  PROVE  SoundInv' /\ Gone' = Gone /\ Rest' = Rest
<1>1. Gone' = Gone /\ Rest' = Rest
  BY DEF Gone, Rest
<1>2. PlaySilence' /\ PlayQueue' /\ PlayHeard' /\ PlayDue'
  BY <1>1, SameSound
<1>3. PlayKinds'
  BY DEF SoundInv, PlayKinds
<1>4. PlayPlaces'
  <2> DEFINE g == Gone
  <2>1. Gone = g /\ Gone' = g
    BY <1>1
  <2> HIDE DEF g
  <2> QED
    BY <2>1 DEF SoundInv, PlayPlaces, Spot
<1> QED
  BY <1>1, <1>2, <1>3, <1>4 DEF SoundInv

\* What a caller does before and after it has the lock.
LEMMA SoundReturns ==
  ASSUME Sound!HdaAssumption, SoundInv, UNCHANGED <<dma, position, write_position, queued_bytes, last_position>>,
         UNCHANGED <<numbered, heard, silence, past, snd_due>>,
         run' <=> run, stream_running' <=> stream_running, paused' <=> paused, late' <=> late, PlayFlags', step # "rebase",
         \/ op = "none" /\ op' \in {"flush", "pause", "status"} /\ step' = step /\ left' = left
         \/ op \in {"write", "status"} /\ op' = "none" /\ step' = "update" /\ left' = 0
         \/ op = "drain" /\ op' = op /\ step' = "update" /\ left' = left
  PROVE  SoundInv'
<1>3. /\ left' \in 0..MaxSamples /\ numbered + left' =< MaxSamples
      /\ op' \in {"none", "write", "drain", "flush", "pause", "status"} /\ step' \in {"update", "go on"}
  <2>1. /\ left \in 0..MaxSamples /\ numbered \in 0..MaxSamples /\ numbered + left =< MaxSamples
        /\ op \in {"none", "write", "drain", "flush", "pause", "status"} /\ step \in {"update", "rebase", "go on"}
    BY DEF SoundInv, PlayKinds
  <2>2. MaxSamples \in Nat
    BY SoundConstants
  <2>6. left \in 0..MaxSamples /\ numbered \in 0..MaxSamples /\ numbered + left =< MaxSamples
    BY <2>1, Zenon
  <2>3. left' = left \/ left' = 0
    OBVIOUS
  <2>4. left' \in 0..MaxSamples /\ numbered + left' =< MaxSamples
    <3>1. CASE left' = left
      BY <2>1, <3>1, Zenon
    <3>2. CASE left' = 0
      <4>1. 0 \in 0..MaxSamples /\ numbered + 0 =< MaxSamples
        BY <2>6, <2>2
      <4> QED
        BY <3>2, <4>1, Zenon
    <3> QED
      BY <2>3, <3>1, <3>2, Zenon
  <2>5. op' \in {"none", "drain", "flush", "pause", "status"} /\ (step' = "update" \/ step' = step)
    OBVIOUS
  <2> QED
    BY <2>1, <2>4, <2>5
<1>4. PlayModes'
  <2>1. Gone' = Gone
    BY DEF Gone
  <2>2. PlayModes
    BY DEF SoundInv
  <2> QED
    BY <2>1, <2>2 DEF PlayModes
<1> QED
  BY <1>3, <1>4, SoundTalks

LEMMA SoundWrite ==
  ASSUME Sound!HdaAssumption, SoundInv, NEW n \in 1..MaxSamples, Sound!Write(n)
  PROVE  SoundInv'
<1>1. /\ UNCHANGED <<dma, position, write_position, queued_bytes, last_position>>
      /\ UNCHANGED <<numbered, heard, silence, past, snd_due>>
      /\ op = "none" /\ op' = "write" /\ step' = step /\ left' = n /\ numbered + n =< MaxSamples
  BY DEF Sound!Write, Sound!deviceVars, Sound!queueVars, Sound!historyVars
<1>2. /\ (run' <=> run) /\ (stream_running' <=> stream_running) /\ (paused' <=> paused) /\ (late' <=> late) /\ ~paused
      /\ PlayFlags'
  BY Zenon DEF Sound!Write, Sound!deviceVars, Sound!queueVars, Sound!historyVars, SoundInv, PlayFlags
<1>3. Gone' = Gone
  BY <1>1 DEF Gone
<1>4. PlayModes'
  <2>1. PlayModes
    BY DEF SoundInv
  <2> QED
    BY <1>1, <1>2, <1>3, <2>1 DEF PlayModes
<1>5. step' \in {"update", "go on"} /\ step # "rebase" /\ left' \in 0..MaxSamples
  BY <1>1, SoundConstants DEF SoundInv, PlayModes
<1> QED
  BY <1>1, <1>2, <1>4, <1>5, SoundTalks

\* A stream that is taken up again goes on where the device was stopped.
LEMMA SoundResume ==
  ASSUME Sound!HdaAssumption, SoundInv, paused, Sound!Resume, queued_bytes # 0,
         UNCHANGED <<numbered, heard, silence, past, snd_due>>, late' = late, left' = left,
         op = "none", op' \in {"none", "drain"}, step' = IF op' = "none" THEN "update" ELSE "go on"
  PROVE  SoundInv'
<1>1. /\ UNCHANGED <<dma, position, write_position, queued_bytes>> /\ last_position' = position
  BY DEF Sound!Resume
<1>2. PlayKinds /\ PlayModes
  BY DEF SoundInv
<1>3. Gone = 0
  BY <1>2 DEF PlayModes
<1>4. last_position' = last_position
  BY <1>1, <1>2, <1>3, SoundFar
<1>5. Gone' = Gone
  BY <1>1, <1>4 DEF Gone
<1>6. /\ run' /\ stream_running' /\ ~paused' /\ (late' <=> late)
      /\ PlayFlags'
  BY Zenon DEF Sound!Resume, SoundInv, PlayFlags
<1>7. PlayModes'
  BY <1>1, <1>2, <1>3, <1>5, <1>6 DEF PlayModes
<1>8. step # "rebase" /\ left' \in 0..MaxSamples /\ numbered + left' =< MaxSamples
  BY <1>2 DEF PlayKinds, PlayModes
<1> QED
  BY <1>1, <1>4, <1>6, <1>7, <1>8, SoundTalks

LEMMA SoundCall ==
  ASSUME Sound!HdaAssumption, SoundInv, NEW name \in {"flush", "pause", "status"}, Sound!Call(name)
  PROVE  SoundInv'
<1>1. /\ UNCHANGED <<dma, position, write_position, queued_bytes, last_position>>
      /\ UNCHANGED <<numbered, heard, silence, past, snd_due>>
      /\ op = "none" /\ op' \in {"flush", "pause", "status"} /\ step' = step /\ left' = left
  BY DEF Sound!Call, Sound!deviceVars, Sound!queueVars, Sound!historyVars
<1>2. /\ (run' <=> run) /\ (stream_running' <=> stream_running) /\ (paused' <=> paused) /\ (late' <=> late)
      /\ PlayFlags'
  BY Zenon DEF Sound!Call, Sound!deviceVars, Sound!queueVars, Sound!historyVars, SoundInv, PlayFlags
<1>3. step # "rebase"
  BY <1>1 DEF SoundInv, PlayModes
<1> QED
  BY <1>1, <1>2, <1>3, SoundReturns

LEMMA SoundAnswers ==
  ASSUME Sound!HdaAssumption, SoundInv, Sound!WriteReturns \/ Sound!StatusReturns
  PROVE  SoundInv'
<1>1. /\ UNCHANGED <<dma, position, write_position, queued_bytes, last_position>>
      /\ UNCHANGED <<numbered, heard, silence, past, snd_due>>
      /\ op \in {"write", "status"} /\ op' = "none" /\ step = "go on" /\ step' = "update" /\ left' = 0
  BY DEF Sound!WriteReturns, Sound!StatusReturns, Sound!Return, Sound!deviceVars, Sound!queueVars, Sound!historyVars
<1>2. /\ (run' <=> run) /\ (stream_running' <=> stream_running) /\ (paused' <=> paused) /\ (late' <=> late)
      /\ PlayFlags'
  <2>1. UNCHANGED <<run, stream_running, paused, late>>
    BY DEF Sound!WriteReturns, Sound!StatusReturns, Sound!deviceVars, Sound!queueVars, Sound!historyVars
  <2> QED
    BY <2>1, Zenon DEF SoundInv, PlayFlags
<1> QED
  BY <1>1, <1>2, SoundReturns

LEMMA SoundWaits ==
  ASSUME Sound!HdaAssumption, SoundInv, Sound!DrainWaits
  PROVE  SoundInv'
<1>1. /\ UNCHANGED <<dma, position, write_position, queued_bytes, last_position>>
      /\ UNCHANGED <<numbered, heard, silence, past, snd_due>>
      /\ op = "drain" /\ op' = op /\ step = "go on" /\ step' = "update" /\ left' = left
  BY DEF Sound!DrainWaits, Sound!deviceVars, Sound!queueVars, Sound!historyVars
<1>2. /\ (run' <=> run) /\ (stream_running' <=> stream_running) /\ (paused' <=> paused) /\ (late' <=> late)
      /\ PlayFlags'
  BY Zenon DEF Sound!DrainWaits, Sound!deviceVars, Sound!queueVars, Sound!historyVars, SoundInv, PlayFlags
<1> QED
  BY <1>1, <1>2, SoundReturns

\* A drain, and an end of a pause, of a stream that was not paused or had
\* nothing queued.
LEMMA SoundDrain ==
  ASSUME Sound!HdaAssumption, SoundInv, Sound!Drain
  PROVE  SoundInv'
<1>1. /\ UNCHANGED <<numbered, heard, silence, past, snd_due>>
      /\ op = "none" /\ op' = "drain" /\ step' = "go on" /\ left' = left
  BY DEF Sound!Drain, Sound!historyVars
<1>2. late' = late
  BY DEF Sound!Drain, Sound!historyVars
<1>3. CASE paused /\ queued_bytes # 0 /\ Sound!Resume
  BY <1>1, <1>2, <1>3, SoundResume
<1>4. CASE ~(paused /\ queued_bytes # 0) /\ UNCHANGED <<dma, Sound!deviceVars, Sound!queueVars>>
  <2>1. UNCHANGED <<dma, position, write_position, queued_bytes, last_position>>
    BY <1>4 DEF Sound!deviceVars, Sound!queueVars
  <2>2. /\ (run' <=> run) /\ (stream_running' <=> stream_running) /\ (paused' <=> paused) /\ (late' <=> late)
        /\ PlayFlags'
    BY <1>2, <1>4, Zenon DEF Sound!deviceVars, Sound!queueVars, SoundInv, PlayFlags
  <2>3. Gone' = Gone
    BY <2>1 DEF Gone
  <2>4. PlayModes /\ PlayKinds
    BY DEF SoundInv
  <2>5. PlayModes'
    BY <1>1, <1>4, <2>1, <2>2, <2>3, <2>4 DEF PlayModes
  <2>6. step # "rebase" /\ left' \in 0..MaxSamples /\ numbered + left' =< MaxSamples
    BY <1>1, <2>4 DEF PlayModes, PlayKinds
  <2> QED
    BY <1>1, <2>1, <2>2, <2>5, <2>6, SoundTalks
<1> QED
  BY <1>3, <1>4 DEF Sound!Drain

LEMMA SoundUnpause ==
  ASSUME Sound!HdaAssumption, SoundInv, Sound!Unpause
  PROVE  SoundInv'
<1>1. /\ UNCHANGED <<numbered, heard, silence, past, snd_due>>
      /\ op = "none" /\ op' = op /\ step' = step /\ left' = left
  BY DEF Sound!Unpause, Sound!historyVars, Sound!callVars
<1>2. late' = late
  BY DEF Sound!Unpause, Sound!historyVars
<1>3. step = "update" /\ paused
  BY <1>1 DEF SoundInv, PlayModes, Sound!Unpause
<1>4. CASE queued_bytes # 0 /\ Sound!Resume
  BY <1>1, <1>2, <1>3, <1>4, SoundResume
<1>5. CASE /\ queued_bytes = 0 /\ paused' = FALSE
           /\ UNCHANGED <<dma, Sound!deviceVars, write_position, queued_bytes, last_position, stream_running>>
  <2>1. UNCHANGED <<dma, position, write_position, queued_bytes, last_position>>
    BY <1>5 DEF Sound!deviceVars
  <2>2. /\ (run' <=> run) /\ (stream_running' <=> stream_running) /\ ~paused' /\ (late' <=> late)
        /\ PlayFlags'
    BY <1>2, <1>5, Zenon DEF Sound!deviceVars, SoundInv, PlayFlags
  <2>3. Gone' = Gone
    BY <2>1 DEF Gone
  <2>4. PlayModes /\ PlayKinds
    BY DEF SoundInv
  <2>5. PlayModes'
    BY <1>1, <1>3, <1>5, <2>1, <2>2, <2>3, <2>4 DEF PlayModes
  <2>6. left' \in 0..MaxSamples /\ numbered + left' =< MaxSamples
    BY <1>1, <2>4 DEF PlayKinds
  <2> QED
    BY <1>1, <1>3, <2>1, <2>2, <2>5, <2>6, SoundTalks
<1> QED
  BY <1>4, <1>5 DEF Sound!Unpause

LEMMA SoundHalt ==
  ASSUME Sound!HdaAssumption, SoundInv, Sound!Halt
  PROVE  SoundInv'
<1>1. /\ UNCHANGED <<dma, position, write_position, queued_bytes, last_position>>
      /\ UNCHANGED <<numbered, heard, silence, past, snd_due>>
      /\ op \in {"flush", "pause"} /\ op' = op /\ step = "go on" /\ step' = "update" /\ left' = left
  BY DEF Sound!Halt, Sound!queueVars, Sound!historyVars
<1>2. /\ run /\ ~run' /\ (stream_running' <=> stream_running) /\ (paused' <=> paused) /\ (late' <=> late)
      /\ PlayFlags'
  BY Zenon DEF Sound!Halt, Sound!queueVars, Sound!historyVars, SoundInv, PlayFlags
<1>3. Gone' = Gone
  BY <1>1 DEF Gone
<1>4. PlayModes /\ PlayKinds
  BY DEF SoundInv
<1>5. PlayModes'
  BY <1>1, <1>2, <1>3, <1>4 DEF PlayModes
<1>6. left' \in 0..MaxSamples /\ numbered + left' =< MaxSamples
  BY <1>1, <1>4 DEF PlayKinds
<1> QED
  BY <1>1, <1>2, <1>4, <1>5, <1>6, SoundTalks

LEMMA SoundPaused ==
  ASSUME Sound!HdaAssumption, SoundInv, Sound!PauseReturns
  PROVE  SoundInv'
<1>1. /\ UNCHANGED <<dma, position, write_position, queued_bytes, last_position>>
      /\ UNCHANGED <<numbered, heard, silence, past, snd_due>>
      /\ op = "pause" /\ op' = "none" /\ step = "go on" /\ step' = "update" /\ left' = 0
  BY DEF Sound!PauseReturns, Sound!Return, Sound!deviceVars, Sound!historyVars
<1>2. /\ ~run /\ ~run' /\ ~stream_running' /\ paused' /\ (late' <=> late)
      /\ PlayFlags'
  BY Zenon DEF Sound!PauseReturns, Sound!deviceVars, Sound!historyVars, SoundInv, PlayFlags
<1>3. Gone' = Gone
  BY <1>1 DEF Gone
<1>4. PlayModes /\ PlayKinds
  BY DEF SoundInv
<1>5. PlayModes'
  BY <1>1, <1>2, <1>3, <1>4 DEF PlayModes
<1>6. left' \in 0..MaxSamples /\ numbered + left' =< MaxSamples
  <2>1. numbered \in 0..MaxSamples /\ MaxSamples \in Nat
    BY <1>4, SoundConstants, Zenon DEF PlayKinds
  <2>2. 0 \in 0..MaxSamples /\ numbered + 0 =< MaxSamples
    BY <2>1
  <2> QED
    BY <1>1, <2>2, Zenon
<1> QED
  BY <1>1, <1>2, <1>4, <1>5, <1>6, SoundTalks

LEMMA SoundUpdate ==
  ASSUME Sound!HdaAssumption, SoundInv, Sound!Update
  PROVE  SoundInv'
<1>1. /\ UNCHANGED <<dma, position, write_position, op, left>>
      /\ UNCHANGED <<numbered, heard, silence, past, snd_due>>
      /\ op # "none" /\ step = "update"
  BY DEF Sound!Update, Sound!deviceVars, Sound!historyVars
<1>2. /\ (run' <=> run) /\ (stream_running' <=> stream_running) /\ (paused' <=> paused) /\ (late' <=> late)
      /\ PlayFlags'
  BY Zenon DEF Sound!Update, Sound!deviceVars, Sound!historyVars, SoundInv, PlayFlags
<1>3. PlayModes /\ PlayKinds /\ PlayPlaces
  BY DEF SoundInv
<1>k. /\ left \in 0..MaxSamples /\ numbered \in 0..MaxSamples /\ numbered + left =< MaxSamples
      /\ op \in {"none", "write", "drain", "flush", "pause", "status"}
  BY <1>3, Zenon DEF PlayKinds
<1>4. CASE ~stream_running
  <2>1. step' = "go on" /\ UNCHANGED <<queued_bytes, last_position>>
    BY <1>4 DEF Sound!Update
  <2>2. Gone' = Gone
    BY <1>1, <2>1 DEF Gone
  <2>3. PlayModes'
    BY <1>1, <1>2, <1>3, <1>4, <2>1, <2>2 DEF PlayModes
  <2>4. step' \in {"update", "go on"} /\ step # "rebase"
    BY <1>1, <2>1
  <2>5. left' \in 0..MaxSamples /\ numbered + left' =< MaxSamples /\ op' \in {"none", "write", "drain", "flush", "pause", "status"}
    BY <1>1, <1>k, Zenon
  <2> QED
    BY <1>1, <1>2, <2>1, <2>3, <2>4, <2>5, SoundTalks
<1>5. CASE stream_running
  <2>1. Sound!Consumed = Gone /\ Gone \in 0..(Ring - 1) /\ Ring \in Nat \ {0}
    BY <1>3, SoundFar, SoundConstants
  <2>2. /\ queued_bytes' = IF Gone > queued_bytes THEN 0 ELSE queued_bytes - Gone
        /\ last_position' = position
        /\ step' = IF Gone >= queued_bytes THEN "rebase" ELSE "go on"
    BY <1>5, <2>1 DEF Sound!Update, Sound!Behind
  <2>c. Gone \in 0..(Ring - 1) /\ Ring \in Nat \ {0}
    BY <2>1, Zenon
  <2>d. queued_bytes' = IF Gone > queued_bytes THEN 0 ELSE queued_bytes - Gone
    BY <2>2, Zenon
  <2>e. step' = IF Gone >= queued_bytes THEN "rebase" ELSE "go on"
    BY <2>2, Zenon
  <2>3. Gone' = 0
    <3>1. Far(position, position, Ring) = 0
      BY <2>1, <1>3, FarZero DEF PlayKinds
    <3> QED
      BY <1>1, <2>2, <3>1 DEF Gone
  <2>a. position \in 0..(Ring - 1) /\ queued_bytes \in 0..Ring /\ silence \in 0..Guard /\ queued_bytes + silence =< Ring
    BY <1>3, Zenon DEF PlayKinds
  <2>b. Guard \in Nat
    BY SoundConstants
  <2>4. Rest' = Rest /\ queued_bytes' = Rest /\ Rest =< queued_bytes /\ Rest \in Nat
    BY <2>c, <2>d, <2>3, <2>a DEF Rest
  <2>5. PlaySilence' /\ PlayQueue' /\ PlayHeard' /\ PlayDue'
    BY <1>1, <1>2, <1>5, <2>4, SameSound
  <2>6. PlayKinds'
    <3>1. /\ last_position' \in 0..(Ring - 1) /\ queued_bytes' \in 0..Ring /\ queued_bytes' + silence =< Ring
      <4>1. last_position' \in 0..(Ring - 1)
        BY <2>2, <2>a, Zenon
      <4>2. queued_bytes' \in 0..Ring /\ queued_bytes' + silence =< Ring
        BY <2>c, <2>d, <2>a, <2>b
      <4> QED
        BY <4>1, <4>2
    <3>2. step' \in {"update", "rebase", "go on"}
      BY <2>2
    <3> QED
      BY <1>1, <1>3, <3>1, <3>2, Zenon DEF PlayKinds
  <2>7. PlayModes'
    <3>1. step' = "rebase" <=> queued_bytes' = 0
      <4>1. queued_bytes' = 0 <=> Gone >= queued_bytes
        BY <2>c, <2>d, <2>a
      <4>2. "rebase" # "go on"
        OBVIOUS
      <4> QED
        BY <2>e, <4>1, <4>2, Zenon
    <3>2. ~paused
      BY <1>3, <1>5, Zenon DEF PlayModes
    <3>3. step' \in {"rebase", "go on"}
      BY <2>2
    <3> QED
      BY <1>1, <1>2, <1>5, <2>3, <3>1, <3>2, <3>3 DEF PlayModes
  <2>8. PlayPlaces'
    <3>1. ASSUME step' # "rebase"
          PROVE  write_position' = Spot(queued_bytes - Gone)' /\ past' = 0
      <4>1. Gone < queued_bytes
        <5>1. ~(Gone >= queued_bytes)
          BY <2>e, <3>1, Zenon
        <5> QED
          BY <2>c, <2>a, <5>1
      <4>2. write_position = Spot(queued_bytes - Gone) /\ past = 0
        BY <1>1, <1>3, <2>1, <2>a, <4>1 DEF PlayPlaces
      <4>3. queued_bytes' - Gone' = queued_bytes - Gone
        BY <2>c, <2>d, <2>3, <2>a, <4>1
      <4> QED
        BY <1>1, <4>2, <4>3 DEF Spot
    <3>2. ~(Gone' > queued_bytes')
      BY <2>3, <2>4
    <3> QED
      BY <3>1, <3>2, Zenon DEF PlayPlaces
  <2> QED
    BY <1>2, <2>5, <2>6, <2>7, <2>8 DEF SoundInv
<1> QED
  BY <1>4, <1>5

LEMMA NoneFits ==
  ASSUME NEW r \in Nat \ {0}, NEW g \in Nat, g < r, NEW m \in Nat, NEW n \in 0..m, NEW s \in 0..g
  PROVE  0 \in 0..m /\ n + 0 =< m /\ 0 \in 0..r /\ 0 \in 0..s /\ 0 + s =< r
OBVIOUS

LEMMA SoundAnew ==
  ASSUME Sound!HdaAssumption, SoundInv, Sound!Rebase, queued_bytes' = 0, snd_due' = <<>>,
         UNCHANGED <<numbered, heard, silence>>, PlayFlags',
         \/ op # "none" /\ op' = op /\ left' = left /\ step' = "go on" /\ ~paused'
         \/ op' = "none" /\ left' = 0 /\ step' = "update" /\ ~paused'
  PROVE  SoundInv'
<1>1. /\ Gone' = 0 /\ Rest' = 0 /\ ~run' /\ ~stream_running' /\ ~late' /\ past' = 0 /\ dma' = dma
      /\ position' = position /\ write_position' = position /\ last_position' = position
      /\ PlayPlaces' /\ PlaySilence' /\ PlayQueue' /\ PlayHeard' /\ PlayDue'
  BY Rebased
<1>2. PlayKinds
  BY DEF SoundInv
<1>3. PlayKinds'
  <2>1. /\ left \in 0..MaxSamples /\ numbered \in 0..MaxSamples /\ numbered + left =< MaxSamples
        /\ position \in 0..(Ring - 1) /\ silence \in 0..Guard
    BY <1>2, Zenon DEF PlayKinds
  <2>2. Ring \in Nat \ {0} /\ Guard \in Nat /\ Guard < Ring /\ MaxSamples \in Nat
    BY SoundConstants
  <2>3. /\ 0 \in 0..MaxSamples /\ numbered + 0 =< MaxSamples /\ 0 \in 0..Ring /\ 0 \in 0..silence /\ 0 + silence =< Ring
    <3>1. numbered \in 0..MaxSamples /\ silence \in 0..Guard
      BY <2>1, Zenon
    <3> QED
      BY <2>2, <3>1, NoneFits, Zenon
  <2>4. left' \in 0..MaxSamples /\ numbered + left' =< MaxSamples
    <3>1. left' = left \/ left' = 0
      OBVIOUS
    <3> QED
      BY <2>1, <2>3, <3>1, Zenon
  <2>5. op' \in {"none", "write", "drain", "flush", "pause", "status"} /\ step' \in {"update", "rebase", "go on"}
    <3>1. op \in {"none", "write", "drain", "flush", "pause", "status"}
      BY <1>2, Zenon DEF PlayKinds
    <3> QED
      BY <3>1
  <2> QED
    BY <1>1, <1>2, <2>1, <2>3, <2>4, <2>5, Zenon DEF PlayKinds
<1>4. PlayModes'
  BY <1>1 DEF PlayModes
<1> QED
  BY <1>1, <1>3, <1>4 DEF SoundInv

\* Nothing is left that must be heard.
LEMMA NothingDue ==
  ASSUME Sound!HdaAssumption, SoundInv, queued_bytes = 0, ~late
  PROVE  snd_due = <<>>
<1>1. Gone \in 0..(Ring - 1) /\ Ring \in Nat
  BY SoundFar, SoundConstants DEF SoundInv
<1>2. Rest = 0
  BY <1>1 DEF Rest
<1> QED
  BY <1>2 DEF SoundInv, PlayDue, View

LEMMA SoundUnderrun ==
  ASSUME Sound!HdaAssumption, SoundInv, Sound!Underrun
  PROVE  SoundInv'
<1>1. /\ step = "rebase" /\ step' = "go on" /\ snd_due' = (IF late THEN <<>> ELSE snd_due) /\ Sound!Rebase
      /\ UNCHANGED <<queued_bytes, op, left, numbered, heard, silence>>
  BY DEF Sound!Underrun
<1>2. queued_bytes = 0 /\ stream_running /\ op # "none" /\ ~paused
  BY <1>1 DEF SoundInv, PlayModes
<1>3. snd_due' = <<>>
  BY <1>1, <1>2, NothingDue
<1>4. PlayFlags' /\ ~paused'
  BY <1>2, Zenon DEF Sound!Underrun, Sound!Rebase, SoundInv, PlayFlags
<1> QED
  BY <1>1, <1>2, <1>3, <1>4, SoundAnew

LEMMA SoundDrained ==
  ASSUME Sound!HdaAssumption, SoundInv, Sound!DrainReturns
  PROVE  SoundInv'
<1>1. /\ op = "drain" /\ step = "go on" /\ Sound!Rebase /\ queued_bytes' = 0
      /\ op' = "none" /\ step' = "update" /\ left' = 0
      /\ UNCHANGED <<snd_due, numbered, heard, silence>>
  BY DEF Sound!DrainReturns, Sound!Return
<1>2. ~stream_running \/ queued_bytes = 0
  BY DEF Sound!DrainReturns, Sound!StillPlaying
<1>3. queued_bytes = 0 /\ ~late
  BY <1>1, <1>2 DEF SoundInv, PlayModes
<1>4. snd_due' = <<>>
  BY <1>1, <1>3, NothingDue
<1>5. PlayFlags' /\ ~paused'
  BY Zenon DEF Sound!DrainReturns, Sound!Rebase, SoundInv, PlayFlags
<1> QED
  BY <1>1, <1>4, <1>5, SoundAnew

LEMMA SoundFlushed ==
  ASSUME Sound!HdaAssumption, SoundInv, Sound!FlushReturns
  PROVE  SoundInv'
<1>1. /\ Sound!Rebase /\ queued_bytes' = 0 /\ snd_due' = <<>>
      /\ op' = "none" /\ step' = "update" /\ left' = 0
      /\ UNCHANGED <<numbered, heard, silence>>
  BY DEF Sound!FlushReturns, Sound!Return
<1>2. PlayFlags' /\ ~paused'
  BY Zenon DEF Sound!FlushReturns, Sound!Rebase, SoundInv, PlayFlags
<1> QED
  BY <1>1, <1>2, SoundAnew

\* The cells ahead, when the device has moved on.
LEMMA SpotShifts ==
  ASSUME NEW r \in Nat \ {0}, NEW i \in 0..(r - 1), NEW k \in Int
  PROVE  (((i + 1) % r) + k) % r = (i + (k + 1)) % r
<1> DEFINE x == i + 1
<1>1. x \in Int /\ x + k = i + (k + 1)
  OBVIOUS
<1> HIDE DEF x
<1>2. ((x % r) + k) % r = (x + k) % r
  BY <1>1, ModSum
<1> QED
  BY <1>1, <1>2 DEF x

\* What is heard comes last.
LEMMA HeardMore ==
  ASSUME NEW n \in Nat, NEW h \in Seq(1..n), NEW d \in 1..n,
         \A i \in DOMAIN h, j \in DOMAIN h : i < j => h[i] < h[j],
         \A i \in DOMAIN h : h[i] < d
  PROVE  /\ Append(h, d) \in Seq(1..n)
         /\ \A i, j \in DOMAIN Append(h, d) : i < j => Append(h, d)[i] < Append(h, d)[j]
         /\ \A i \in DOMAIN Append(h, d) : Append(h, d)[i] \in Int /\ Append(h, d)[i] =< d
<1> DEFINE a == Append(h, d)
<1>1. a \in Seq(1..n) /\ DOMAIN a = 1..(Len(h) + 1) /\ Len(h) \in Nat /\ DOMAIN h = 1..Len(h)
  OBVIOUS
<1>2. \A i \in 1..Len(h) : a[i] = h[i] /\ h[i] \in 1..n
  OBVIOUS
<1>3. a[Len(h) + 1] = d
  OBVIOUS
<1> HIDE DEF a
<1>4. \A i, j \in DOMAIN a : i < j => a[i] < a[j]
  <2> TAKE i, j \in DOMAIN a
  <2> HAVE i < j
  <2>1. i \in 1..Len(h)
    BY <1>1
  <2>2. CASE j = Len(h) + 1
    BY <1>1, <1>2, <1>3, <2>1, <2>2
  <2>3. CASE j \in 1..Len(h)
    BY <1>1, <1>2, <2>1, <2>3
  <2> QED
    BY <1>1, <2>2, <2>3
<1>5. \A i \in DOMAIN a : a[i] \in Int /\ a[i] =< d
  <2> TAKE i \in DOMAIN a
  <2>1. CASE i = Len(h) + 1
    BY <1>3, <2>1
  <2>2. CASE i \in 1..Len(h)
    <3>1. a[i] = h[i] /\ h[i] \in 1..n /\ h[i] < d
      BY <1>1, <1>2, <2>2
    <3> QED
      BY <3>1
  <2> QED
    BY <1>1, <2>1, <2>2
<1> QED
  BY <1>1, <1>4, <1>5 DEF a

\* The device plays what is queued.
LEMMA SoundPlays ==
  ASSUME Sound!HdaAssumption, SoundInv, Sound!Play, Gone < queued_bytes
  PROVE  SoundInv'
<1>1. PlayFlags /\ PlayKinds /\ PlayModes /\ PlayPlaces /\ PlaySilence /\ PlayQueue /\ PlayHeard /\ PlayDue
  BY DEF SoundInv
<1>2. /\ Ring \in Nat \ {0} /\ MaxSamples \in Nat
  BY SoundConstants
<1>3. /\ position \in 0..(Ring - 1) /\ last_position \in 0..(Ring - 1) /\ queued_bytes \in 0..Ring
      /\ dma \in [0..(Ring - 1) -> 0..MaxSamples] /\ numbered \in 0..MaxSamples
  BY <1>1, Zenon DEF PlayKinds
<1>4. Gone \in 0..(Ring - 1) /\ Sound!Consumed = Gone
  BY <1>1, SoundFar
<1>5. ~Sound!Behind
  BY <1>3, <1>4 DEF Sound!Behind
<1>6. /\ position' = (position + 1) % Ring /\ past' = past
      /\ UNCHANGED <<dma, write_position, queued_bytes, last_position, op, step, left, numbered, silence>>
      /\ Gone + 1 < Ring
  BY <1>4, <1>5 DEF Sound!Play, Sound!Timely, Sound!queueVars, Sound!callVars
<1>7. run /\ (run' <=> run) /\ (stream_running' <=> stream_running) /\ (paused' <=> paused) /\ PlayFlags'
      /\ (late' <=> late)
  BY <1>5, Zenon DEF Sound!Play, Sound!queueVars, SoundInv, PlayFlags
<1>8. Gone' = Gone + 1
  <2>1. Far(last_position, (position + 1) % Ring, Ring) = Far(last_position, position, Ring) + 1
    <3>1. Far(last_position, position, Ring) < Ring - 1
      BY <1>2, <1>4, <1>6 DEF Gone
    <3> QED
      BY <1>2, <1>3, <3>1, FarNext
  <2> QED
    BY <1>6, <2>1 DEF Gone
<1>9. Rest = queued_bytes - Gone /\ Rest \in 1..Ring /\ Rest' = Rest - 1
  BY <1>2, <1>3, <1>4, <1>6, <1>8 DEF Rest
<1>10. \A k \in Int : Cell(position', k) = Cell(position, k + 1)
  BY <1>2, <1>3, <1>6, SpotShifts, Zenon DEF Cell
<1>11. Cell(position, 0) = position
  <2>1. position + 0 = position
    BY <1>3
  <2> QED
    BY <1>2, <1>3, <2>1, SmallPlace, Zenon DEF Cell
<1>12. dma[position] \in 1..numbered /\ \A i \in DOMAIN heard : heard[i] < dma[position]
  <2>1. 0 \in 0..(Rest - 1)
    BY <1>9
  <2> QED
    BY <1>1, <1>11, <2>1 DEF PlayQueue, Spot
<1>13. /\ heard' = Append(heard, dma[position])
       /\ snd_due' = IF snd_due # <<>> /\ Head(snd_due) = dma[position] THEN Tail(snd_due) ELSE snd_due
  <2>1. dma[position] # 0
    BY <1>3, <1>12
  <2> QED
    BY <2>1 DEF Sound!Play
<1>20. /\ heard' \in Seq(1..numbered)
       /\ \A i \in DOMAIN heard', j \in DOMAIN heard' : i < j => heard'[i] < heard'[j]
       /\ \A i \in DOMAIN heard' : heard'[i] \in Int /\ heard'[i] =< dma[position]
  <2>1. /\ heard \in Seq(1..numbered) /\ numbered \in Nat
        /\ \A i \in DOMAIN heard, j \in DOMAIN heard : i < j => heard[i] < heard[j]
    BY <1>1, <1>3 DEF PlayHeard
  <2> QED
    BY <1>12, <1>13, <2>1, HeardMore
<1>21. PlayHeard'
  BY <1>6, <1>20 DEF PlayHeard
<1>14. PlayKinds'
  <2>1. (position + 1) % Ring \in 0..(Ring - 1)
    BY <1>2, <1>3, NextIndex
  <2> QED
    BY <1>1, <1>6, <2>1, Zenon DEF PlayKinds
<1>15. PlayModes'
  BY <1>1, <1>6, <1>7 DEF PlayModes
<1>16. PlayPlaces'
  <2>1. ASSUME step # "rebase"
        PROVE  write_position = Cell(position, queued_bytes - Gone) /\ past = 0
    BY <1>1, <1>3, <1>4, <2>1 DEF PlayPlaces, Spot
  <2>2. Cell(position', queued_bytes' - Gone') = Cell(position, queued_bytes - Gone)
    <3> DEFINE k == queued_bytes' - Gone'
    <3>1. k \in Int /\ k + 1 = queued_bytes - Gone
      BY <1>3, <1>4, <1>6, <1>8
    <3> HIDE DEF k
    <3>2. Cell(position', k) = Cell(position, k + 1)
      BY <1>10, <3>1
    <3> QED
      BY <3>1, <3>2, Zenon DEF k
  <2>3. ~(Gone' > queued_bytes')
    BY <1>3, <1>4, <1>6, <1>8
  <2> QED
    BY <1>6, <2>1, <2>2, <2>3, Zenon DEF PlayPlaces, Spot
<1>17. PlaySilence'
  <2>1. \A k \in Nat : Cell(position', Rest' + k) = Cell(position, Rest + k)
    <3> TAKE k \in Nat
    <3>1. Rest' + k \in Int /\ (Rest' + k) + 1 = Rest + k
      BY <1>9
    <3> QED
      BY <1>10, <3>1
  <2> QED
    BY <1>1, <1>6, <1>7, <2>1 DEF PlaySilence, Spot
<1>18. PlayQueue'
  <2>1. \A k \in 0..(Rest' - 1) : k + 1 \in 0..(Rest - 1) /\ Cell(position', k) = Cell(position, k + 1)
    BY <1>9, <1>10
  <2>2. \A k \in 0..(Rest' - 1) : dma[Cell(position', k)] \in 1..numbered
    BY <1>1, <2>1 DEF PlayQueue, Spot
  <2>3. \A k \in 0..(Rest' - 1), j \in 0..(Rest' - 1) : k < j => dma[Cell(position', k)] < dma[Cell(position', j)]
    BY <1>1, <1>9, <2>1 DEF PlayQueue, Spot
  <2>4. \A k \in 0..(Rest' - 1) : dma[position] < dma[Cell(position', k)]
    <3> TAKE k \in 0..(Rest' - 1)
    <3>1. 0 \in 0..(Rest - 1) /\ k + 1 \in 0..(Rest - 1) /\ 0 < k + 1 /\ Cell(position', k) = Cell(position, k + 1)
      BY <1>9, <2>1
    <3>2. dma[Cell(position, 0)] < dma[Cell(position, k + 1)]
      BY <1>1, <3>1 DEF PlayQueue, Spot
    <3> QED
      BY <1>11, <3>1, <3>2
  <2>5. \A k \in 0..(Rest' - 1) : \A i \in DOMAIN heard' : heard'[i] < dma[Cell(position', k)]
    <3> TAKE k \in 0..(Rest' - 1)
    <3> TAKE i \in DOMAIN heard'
    <3>1. heard'[i] \in Int /\ heard'[i] =< dma[position]
      BY <1>20
    <3> QED
      BY <1>12, <2>2, <2>4, <3>1
  <2> QED
    BY <1>6, <2>2, <2>3, <2>5 DEF PlayQueue, Spot
<1>19. PlayDue'
  <2>1. PlayDue
    BY <1>1
  <2>2. snd_due' \in Seq(1..MaxSamples)
    <3>1. snd_due \in Seq(1..MaxSamples)
      BY <2>1 DEF PlayDue
    <3>2. snd_due # <<>> => Tail(snd_due) \in Seq(1..MaxSamples)
      BY <3>1
    <3> QED
      BY <1>13, <3>1, <3>2
  <2>3. ASSUME ~late
        PROVE  past = 0 /\ snd_due' = View(dma, position', Rest - 1, Ring)
    <3>1. past = 0 /\ snd_due = View(dma, position, Rest, Ring)
      BY <2>1, <2>3 DEF PlayDue
    <3>2. /\ Head(View(dma, position, Rest, Ring)) = dma[position % Ring]
          /\ View(dma, position + 1, Rest - 1, Ring) = Tail(View(dma, position, Rest, Ring))
      <4>1. Rest \in Nat \ {0} /\ position \in Nat
        BY <1>3, <1>9
      <4> QED
        BY <1>2, <1>3, <4>1, ViewPop
    <3>3. position % Ring = position
      BY <1>2, <1>3, SmallPlace
    <3>4. snd_due # <<>>
      <4>1. Len(View(dma, position, Rest, Ring)) = Rest
        <5>1. position \in Nat /\ Rest \in Nat
          BY <1>3, <1>9
        <5> QED
          BY <1>2, <1>3, <5>1, ViewIsSeq
      <4> QED
        BY <1>9, <3>1, <4>1
    <3>5. View(dma, position + 1, Rest - 1, Ring) = View(dma, position', Rest - 1, Ring)
      <4> DEFINE a == position + 1
                 b == (position + 1) % Ring
                 n == Rest - 1
      <4>1. a \in Nat /\ b \in Nat /\ n \in Nat
        BY <1>2, <1>3, <1>9, NextIndex
      <4>2. a % Ring = b % Ring
        <5>1. b \in 0..(Ring - 1)
          BY <1>2, <1>3, NextIndex
        <5> HIDE DEF b
        <5>2. b % Ring = b
          BY <1>2, <5>1, SmallPlace
        <5> QED
          BY <5>2 DEF b
      <4> HIDE DEF a, b, n
      <4>3. View(dma, a, n, Ring) = View(dma, b, n, Ring)
        BY <1>2, <4>1, <4>2, ViewFrom
      <4> QED
        BY <1>6, <4>3 DEF a, b, n
    <3> QED
      BY <1>13, <3>1, <3>2, <3>3, <3>4, <3>5, Zenon
  <2> QED
    BY <1>6, <1>7, <1>9, <2>2, <2>3, Zenon DEF PlayDue
<1> QED
  BY <1>7, <1>14, <1>15, <1>16, <1>17, <1>18, <1>19, <1>21 DEF SoundInv
\* The device plays the silence behind the queue.
LEMMA SoundPlaysOn ==
  ASSUME Sound!HdaAssumption, Prompt, SoundInv, Sound!Play, ~(Gone < queued_bytes)
  PROVE  SoundInv'
<1>1. PlayFlags /\ PlayKinds /\ PlayModes /\ PlayPlaces /\ PlaySilence /\ PlayQueue /\ PlayHeard /\ PlayDue
  BY DEF SoundInv
<1>2. /\ Ring \in Nat \ {0} /\ MaxSamples \in Nat /\ Guard \in Nat
  BY SoundConstants
<1>3. /\ position \in 0..(Ring - 1) /\ last_position \in 0..(Ring - 1) /\ queued_bytes \in 0..Ring
      /\ silence \in 0..Guard /\ past \in 0..silence
  BY <1>1, Zenon DEF PlayKinds
<1>4. Gone \in 0..(Ring - 1) /\ Sound!Consumed = Gone
  BY <1>1, SoundFar
<1>5. Sound!Behind
  BY <1>3, <1>4 DEF Sound!Behind
<1>6. /\ position' = (position + 1) % Ring /\ past' = past + 1 /\ past < silence
      /\ UNCHANGED <<dma, write_position, queued_bytes, last_position, op, step, left, numbered, silence>>
      /\ Gone + 1 < Ring
  BY <1>4, <1>5 DEF Sound!Play, Sound!Timely, Sound!Slack, Sound!queueVars, Sound!callVars
<1>7. run /\ (run' <=> run) /\ (stream_running' <=> stream_running) /\ (paused' <=> paused) /\ PlayFlags'
      /\ late'
  BY <1>5, Zenon DEF Sound!Play, Sound!queueVars, SoundInv, PlayFlags
<1>8. Gone' = Gone + 1
  <2>1. Far(last_position, (position + 1) % Ring, Ring) = Far(last_position, position, Ring) + 1
    <3>1. Far(last_position, position, Ring) < Ring - 1
      BY <1>2, <1>4, <1>6 DEF Gone
    <3> QED
      BY <1>2, <1>3, <3>1, FarNext
  <2> QED
    BY <1>6, <2>1 DEF Gone
<1>9. Rest = 0 /\ Rest' = 0
  BY <1>2, <1>3, <1>4, <1>6, <1>8 DEF Rest
<1>10. \A k \in Int : Cell(position', k) = Cell(position, k + 1)
  BY <1>2, <1>3, <1>6, SpotShifts, Zenon DEF Cell
<1>11. Cell(position, 0) = position
  <2>1. position + 0 = position
    BY <1>3
  <2> QED
    BY <1>2, <1>3, <2>1, SmallPlace, Zenon DEF Cell
<1>12. stream_running
  BY <1>1, <1>7 DEF PlayModes
<1>13. \A k \in 0..((silence - past) - 1) : dma[Cell(position, k)] = 0
  <2>1. \A k \in 0..((silence - past) - 1) : dma[Cell(position, Rest + k)] = 0
    BY <1>1, <1>12 DEF PlaySilence, Spot
  <2>2. \A k \in 0..((silence - past) - 1) : Rest + k = k
    BY <1>9
  <2> QED
    BY <2>1, <2>2
<1>14. dma[position] = 0
  <2>1. 0 \in 0..((silence - past) - 1)
    BY <1>2, <1>3, <1>6
  <2> QED
    BY <1>11, <1>13, <2>1
<1>15. UNCHANGED <<snd_due, heard>>
  BY <1>14 DEF Sound!Play
<1>16. PlayKinds'
  <2>1. (position + 1) % Ring \in 0..(Ring - 1)
    BY <1>2, <1>3, NextIndex
  <2>2. past + 1 \in 0..silence
    BY <1>2, <1>3, <1>6
  <2> QED
    BY <1>1, <1>6, <2>1, <2>2, Zenon DEF PlayKinds
<1>17. PlayModes'
  BY <1>1, <1>6, <1>7, <1>12 DEF PlayModes
<1>18. PlayPlaces'
  <2>1. ASSUME step # "rebase"
        PROVE  write_position = Cell(position, queued_bytes - Gone) /\ past = Gone - queued_bytes
    BY <1>1, <1>3, <1>4, <2>1 DEF PlayPlaces, Spot
  <2>2. Cell(position', queued_bytes' - Gone') = Cell(position, queued_bytes - Gone)
    <3> DEFINE k == queued_bytes' - Gone'
    <3>1. k \in Int /\ k + 1 = queued_bytes - Gone
      BY <1>3, <1>4, <1>6, <1>8
    <3> HIDE DEF k
    <3>2. Cell(position', k) = Cell(position, k + 1)
      BY <1>10, <3>1
    <3> QED
      BY <3>1, <3>2, Zenon DEF k
  <2>3. Gone' > queued_bytes' /\ Gone' - queued_bytes' = (Gone - queued_bytes) + 1
    BY <1>3, <1>4, <1>6, <1>8
  <2> QED
    BY <1>6, <2>1, <2>2, <2>3, Zenon DEF PlayPlaces, Spot
<1>19. PlaySilence'
  <2>1. \A k \in 0..((silence' - past') - 1) : Rest' + k = k /\ k \in Int /\ k + 1 \in 0..((silence - past) - 1)
    BY <1>2, <1>3, <1>6, <1>9
  <2>2. \A k \in 0..((silence' - past') - 1) : dma[Cell(position', Rest' + k)] = 0
    BY <1>10, <1>13, <2>1
  <2> QED
    BY <1>6, <2>2 DEF PlaySilence, Spot
<1>20. PlayQueue'
  BY <1>9 DEF PlayQueue
<1>21. PlayHeard'
  BY <1>1, <1>6, <1>15 DEF PlayHeard
<1>22. PlayDue'
  BY <1>1, <1>7, <1>15, Zenon DEF PlayDue
<1> QED
  BY <1>7, <1>16, <1>17, <1>18, <1>19, <1>20, <1>21, <1>22 DEF SoundInv

LEMMA CellIn ==
  ASSUME Ring \in Nat \ {0}, NEW i \in Int, NEW k \in Int
  PROVE  Cell(i, k) \in 0..(Ring - 1)
<1> DEFINE x == i + k
<1>1. x \in Int
  OBVIOUS
<1> HIDE DEF x
<1>2. x % Ring \in 0..(Ring - 1)
  BY <1>1, PlaceIn
<1> QED
  BY <1>2 DEF x, Cell

LEMMA CellAdd ==
  ASSUME Ring \in Nat \ {0}, NEW i \in Int, NEW a \in Int, NEW b \in Int
  PROVE  (Cell(i, a) + b) % Ring = Cell(i, a + b)
<1> DEFINE x == i + a
<1>1. x \in Int /\ x + b = i + (a + b)
  OBVIOUS
<1> HIDE DEF x
<1>2. ((x % Ring) + b) % Ring = (x + b) % Ring
  BY <1>1, ModSum
<1>3. Cell(i, a) = x % Ring /\ Cell(i, a + b) = (x + b) % Ring
  BY <1>1, Zenon DEF x, Cell
<1> QED
  BY <1>2, <1>3, Zenon

LEMMA CellApart ==
  ASSUME Ring \in Nat \ {0}, NEW i \in Int, NEW a \in Int, NEW b \in Int, a < b, b - a < Ring
  PROVE  Cell(i, a) # Cell(i, b)
<1> DEFINE x == i + a
           d == b - a
<1>1. x \in Int /\ d \in Nat /\ d < Ring /\ x + d = i + b /\ d # 0
  OBVIOUS
<1>3. Cell(i, a) = x % Ring /\ Cell(i, b) = (x + d) % Ring
  BY <1>1, Zenon DEF x, Cell
<1> HIDE DEF x, d
<1> SUFFICES ASSUME Cell(i, a) = Cell(i, b) PROVE FALSE
  OBVIOUS
<1>2. (x + d) % Ring = x % Ring
  BY <1>3, Zenon
<1> QED
  BY <1>1, <1>2, ModNear

\* What write_pcm() and clear_silence_guard() do to the buffer, seen from the
\* device, d frames before the place that is written.
WroteTo(new, old, w, c, s, n) ==
  new = [x \in 0..(Ring - 1) |->
           IF x \in w..(w + c - 1) THEN n + 1 + (x - w)
           ELSE IF x \in {(((w + c) % Ring) + k) % Ring : k \in 0..(s - 1)} THEN 0 ELSE old[x]]

SeenFrom(i, d, c, s, n, old, new) ==
  /\ \A j \in 0..(c - 1) : new[Cell(i, d + j)] = n + 1 + j
  /\ \A k \in 0..(s - 1) : new[Cell(i, (d + c) + k)] = 0
  /\ \A k \in 0..(d - 1) : new[Cell(i, k)] = old[Cell(i, k)]

LEMMA Placed ==
  ASSUME Ring \in Nat \ {0}, NEW i \in 0..(Ring - 1), NEW d \in Int, NEW c \in Nat \ {0}, NEW s \in Nat,
         c + s =< Ring, d + c + s =< Ring,
         NEW w \in 0..(Ring - 1), w = Cell(i, d), w + c =< Ring, NEW n \in Nat, NEW old, NEW new,
         WroteTo(new, old, w, c, s, n)
  PROVE  SeenFrom(i, d, c, s, n, old, new)
<1>0. i \in Int
  OBVIOUS
<1>1. \A k \in Int : Cell(i, k) \in 0..(Ring - 1)
  BY <1>0, CellIn, Zenon
<1>2. \A j \in 0..(c - 1) : Cell(i, d + j) = w + j
  <2> TAKE j \in 0..(c - 1)
  <2>1. (w + j) % Ring = Cell(i, d + j)
    BY CellAdd
  <2>2. w + j \in 0..(Ring - 1)
    OBVIOUS
  <2>3. (w + j) % Ring = w + j
    BY <2>2, SmallPlace
  <2> QED
    BY <2>1, <2>3
<1> DEFINE cells == {(((w + c) % Ring) + k) % Ring : k \in 0..(s - 1)}
<1>3. cells = {Cell(i, (d + c) + k) : k \in 0..(s - 1)}
  <2>1. \A k \in 0..(s - 1) : (((w + c) % Ring) + k) % Ring = Cell(i, (d + c) + k)
    <3> TAKE k \in 0..(s - 1)
    <3>1. (w + c) % Ring = Cell(i, d + c)
      BY CellAdd
    <3>2. (Cell(i, d + c) + k) % Ring = Cell(i, (d + c) + k)
      BY CellAdd
    <3> QED
      BY <3>1, <3>2, Zenon
  <2> QED
    BY <2>1, Zenon
<1>4. /\ \A x \in 0..(Ring - 1) : x \in w..(w + c - 1) => new[x] = n + 1 + (x - w)
      /\ \A x \in 0..(Ring - 1) : x \notin w..(w + c - 1) /\ x \in cells => new[x] = 0
      /\ \A x \in 0..(Ring - 1) : x \notin w..(w + c - 1) /\ x \notin cells => new[x] = old[x]
  BY Zenon DEF WroteTo
<1> HIDE DEF cells
<1>5. \A x \in w..(w + c - 1) : x - w \in 0..(c - 1) /\ x = w + (x - w)
  OBVIOUS
<1>6. \A j \in 0..(c - 1) : new[Cell(i, d + j)] = n + 1 + j
  <2> TAKE j \in 0..(c - 1)
  <2>1. w + j \in 0..(Ring - 1) /\ w + j \in w..(w + c - 1) /\ (w + j) - w = j
    OBVIOUS
  <2>2. new[w + j] = n + 1 + ((w + j) - w)
    BY <1>4, <2>1, Zenon
  <2> QED
    BY <1>2, <2>1, <2>2, Zenon
<1>7. \A k \in 0..(s - 1) : new[Cell(i, (d + c) + k)] = 0
  <2> TAKE k \in 0..(s - 1)
  <2> DEFINE b == (d + c) + k
  <2>1. b \in Int /\ \A j \in 0..(c - 1) : d + j \in Int /\ d + j < b /\ b - (d + j) < Ring
    OBVIOUS
  <2>2. Cell(i, b) \in cells
    BY <1>3, Zenon
  <2> HIDE DEF b
  <2>3. \A j \in 0..(c - 1) : Cell(i, d + j) # Cell(i, b)
    BY <1>0, <2>1, CellApart
  <2>4. Cell(i, b) \notin w..(w + c - 1)
    BY <1>2, <1>5, <2>3, Zenon
  <2>5. Cell(i, b) \in 0..(Ring - 1)
    BY <1>1, <2>1
  <2>6. new[Cell(i, b)] = 0
    BY <1>4, <2>2, <2>4, <2>5, Zenon
  <2> QED
    BY <2>6 DEF b
<1>8. \A k \in 0..(d - 1) : new[Cell(i, k)] = old[Cell(i, k)]
  <2> TAKE k \in 0..(d - 1)
  <2>1. k \in Int /\ (\A j \in 0..(c - 1) : d + j \in Int /\ k < d + j /\ (d + j) - k < Ring)
    OBVIOUS
  <2>2. \A m \in 0..(s - 1) : (d + c) + m \in Int /\ k < (d + c) + m /\ ((d + c) + m) - k < Ring
    OBVIOUS
  <2>3. \A j \in 0..(c - 1) : Cell(i, k) # Cell(i, d + j)
    BY <1>0, <2>1, CellApart
  <2>4. \A m \in 0..(s - 1) : Cell(i, k) # Cell(i, (d + c) + m)
    BY <1>0, <2>1, <2>2, CellApart
  <2>5. Cell(i, k) \notin w..(w + c - 1)
    BY <1>2, <1>5, <2>3, Zenon
  <2>6. Cell(i, k) \notin cells
    BY <1>3, <2>4, Zenon
  <2>7. Cell(i, k) \in 0..(Ring - 1)
    BY <1>1, <2>1
  <2> QED
    BY <1>4, <2>5, <2>6, <2>7, Zenon
<1> QED
  BY <1>6, <1>7, <1>8 DEF SeenFrom

LEMMA LeastSample ==
  ASSUME NEW S \in SUBSET Nat, S # {}
  PROVE  Sound!Min(S) \in S /\ \A j \in S : Sound!Min(S) =< j
<1>1. \E i \in S : \A j \in S : i =< j
  BY LeastOf
<1> QED
  BY <1>1 DEF Sound!Min

\* What one round of write_pcm() places.
LEMMA ChunkFits ==
  ASSUME Sound!HdaAssumption, PlayKinds, Sound!Copy
  PROVE  \E c \in 1..left, s \in 0..Guard :
           /\ c =< Ring - queued_bytes /\ write_position + c =< Ring
           /\ s =< Ring - (queued_bytes + c) /\ (s = Guard \/ s = Ring - (queued_bytes + c))
           /\ queued_bytes' = queued_bytes + c /\ left' = left - c /\ numbered' = numbered + c
           /\ write_position' = (write_position + c) % Ring
           /\ snd_due' = snd_due \o [k \in 1..c |-> numbered + k]
           /\ past' = (IF past > c THEN past - c ELSE 0) /\ silence' = s
           /\ dma' = [x \in 0..(Ring - 1) |->
                        IF x \in write_position..(write_position + c - 1) THEN numbered + 1 + (x - write_position)
                        ELSE IF x \in {(((write_position + c) % Ring) + k) % Ring : k \in 0..(s - 1)} THEN 0 ELSE dma[x]]
<1>1. /\ left \in Nat /\ queued_bytes \in 0..Ring /\ write_position \in 0..(Ring - 1)
  <2>1. MaxSamples \in Nat
    BY SoundConstants
  <2>2. left \in 0..MaxSamples /\ queued_bytes \in 0..Ring /\ write_position \in 0..(Ring - 1)
    BY Zenon DEF PlayKinds
  <2> QED
    BY <2>1, <2>2
<1>2. Ring \in Nat \ {0} /\ Guard \in Nat
  BY SoundConstants
<1>3. PICK c : c = Sound!Chunk
  OBVIOUS
<1>4. c \in Nat /\ c =< left /\ c =< Ring - queued_bytes /\ c =< Ring - write_position
  <2> DEFINE S == {left, Ring - queued_bytes, Ring - write_position}
  <2>1. S \in SUBSET Nat /\ S # {} /\ left \in S /\ Ring - queued_bytes \in S /\ Ring - write_position \in S
    BY <1>1, <1>2
  <2>2. c = Sound!Min(S)
    BY <1>3, Zenon DEF Sound!Chunk
  <2> HIDE DEF S
  <2> QED
    BY <2>1, <2>2, LeastSample
<1>5. c > 0
  BY <1>3 DEF Sound!Copy
<1>6. PICK s : s = Sound!Min({Ring - (queued_bytes + c), Guard})
  OBVIOUS
<1>7. s \in 0..Guard /\ s =< Ring - (queued_bytes + c) /\ (s = Guard \/ s = Ring - (queued_bytes + c))
  <2> DEFINE S == {Ring - (queued_bytes + c), Guard}
  <2>1. S \in SUBSET Nat /\ S # {} /\ Guard \in S /\ Ring - (queued_bytes + c) \in S
    BY <1>1, <1>2, <1>4
  <2>2. s = Sound!Min(S)
    BY <1>6, Zenon
  <2>3. \A x \in S : x = Guard \/ x = Ring - (queued_bytes + c)
    OBVIOUS
  <2> HIDE DEF S
  <2>4. s \in S /\ \A j \in S : s =< j
    BY <2>1, <2>2, LeastSample
  <2>5. s \in Nat /\ s =< Guard /\ s =< Ring - (queued_bytes + c) /\ (s = Guard \/ s = Ring - (queued_bytes + c))
    BY <2>1, <2>3, <2>4, Zenon
  <2> QED
    BY <1>2, <2>5
<1>8. /\ queued_bytes' = queued_bytes + c /\ left' = left - c /\ numbered' = numbered + c
      /\ write_position' = (write_position + c) % Ring
      /\ snd_due' = snd_due \o [k \in 1..c |-> numbered + k]
      /\ past' = (IF past > c THEN past - c ELSE 0)
  BY <1>3 DEF Sound!Copy
<1>9. silence' = s
  <2>1. {Ring - (queued_bytes + c), Guard} = {Guard, Ring - (queued_bytes + c)}
    OBVIOUS
  <2>2. silence' = Sound!Min({Guard, Ring - (queued_bytes + c)})
    BY <1>3, Zenon DEF Sound!Copy
  <2> QED
    BY <1>6, <2>1, <2>2, Zenon
<1>10. dma' = [x \in 0..(Ring - 1) |->
                 IF x \in write_position..(write_position + c - 1) THEN numbered + 1 + (x - write_position)
                 ELSE IF x \in {(((write_position + c) % Ring) + k) % Ring : k \in 0..(s - 1)} THEN 0 ELSE dma[x]]
  BY <1>3, <1>6, Zenon DEF Sound!Copy, Sound!Cleared, Sound!Cells
<1>11. c \in 1..left /\ write_position + c =< Ring
  BY <1>1, <1>2, <1>4, <1>5
<1> QED
  BY <1>4, <1>7, <1>8, <1>9, <1>10, <1>11, Zenon

\* Where the queue ends and how far the device is past it, when c frames more
\* are queued.
LEMMA ChunkCounts ==
  ASSUME NEW r \in Nat \ {0}, NEW q \in 0..r, NEW g \in 0..(r - 1), NEW c \in Nat \ {0}, NEW guard \in Nat,
         NEW o \in 0..guard, NEW s \in 0..guard, NEW p, NEW pp, c =< r - q,
         s =< r - (q + c), s = guard \/ s = r - (q + c),
         p = (IF g > q THEN g - q ELSE 0), p =< o,
         pp = (IF p > c THEN p - c ELSE 0)
  PROVE  /\ q + c \in 0..r /\ (q + c) + s =< r /\ pp \in 0..s
         /\ pp = (IF g > q + c THEN g - (q + c) ELSE 0)
         /\ (IF g < q + c THEN (q + c) - g ELSE 0) = ((q - g) + c) + pp
         /\ q - g \in Int /\ c + s =< r /\ (q - g) + c + s =< r
OBVIOUS

\* The new queue: what is left of the old one, and behind it what was written.
LEMMA ChunkOrder ==
  ASSUME NEW n \in Nat, NEW c \in Nat \ {0}, NEW d \in Int, NEW e \in Nat,
         NEW F, NEW G,
         \A j \in 0..(c - 1) : G[d + j] = n + 1 + j,
         \A k \in 0..(d - 1) : G[k] = F[k] /\ F[k] \in 1..n,
         \A k \in 0..(d - 1), j \in 0..(d - 1) : k < j => F[k] < F[j],
         e > 0 => e = d + c
  PROVE  /\ \A k \in 0..(e - 1) : G[k] \in 1..(n + c)
         /\ \A k \in 0..(e - 1), j \in 0..(e - 1) : k < j => G[k] < G[j]
         /\ \A k \in 0..(e - 1) : k \in 0..(d - 1) \/ G[k] > n
<1>1. \A k \in 0..(e - 1) : k \notin 0..(d - 1) => k - d \in 0..(c - 1) /\ k = d + (k - d)
  OBVIOUS
<1>2. \A k \in 0..(e - 1) : k \notin 0..(d - 1) => G[k] = n + 1 + (k - d) /\ k - d \in 0..(c - 1)
  <2> TAKE k \in 0..(e - 1)
  <2> HAVE k \notin 0..(d - 1)
  <2> DEFINE j == k - d
  <2>1. j \in 0..(c - 1) /\ k = d + j
    BY <1>1
  <2> HIDE DEF j
  <2>2. G[d + j] = n + 1 + j
    BY <2>1
  <2> QED
    BY <2>1, <2>2 DEF j
<1>3. \A k \in 0..(e - 1) : k \notin 0..(d - 1) => G[k] > n /\ G[k] \in 1..(n + c)
  BY <1>2
<1>4. \A k \in 0..(d - 1) : G[k] \in 1..n
  OBVIOUS
<1>5. ASSUME NEW k \in 0..(e - 1), NEW j \in 0..(e - 1), k < j
      PROVE  G[k] < G[j]
  <2>1. CASE j \in 0..(d - 1)
    <3>1. k \in 0..(d - 1)
      BY <1>5, <2>1
    <3> QED
      BY <1>5, <2>1, <3>1
  <2>2. CASE j \notin 0..(d - 1) /\ k \in 0..(d - 1)
    BY <1>3, <1>4, <2>2
  <2>3. CASE j \notin 0..(d - 1) /\ k \notin 0..(d - 1)
    BY <1>2, <1>5, <2>3
  <2> QED
    BY <2>1, <2>2, <2>3
<1> QED
  BY <1>3, <1>4, <1>5

LEMMA SeqWidens ==
  ASSUME NEW S, NEW T, S \subseteq T, NEW q \in Seq(S)
  PROVE  q \in Seq(T)
OBVIOUS

LEMMA SeqItem ==
  ASSUME NEW S, NEW q \in Seq(S), NEW i \in DOMAIN q
  PROVE  q[i] \in S
OBVIOUS

SilentFrom(s, p, b, e) == \A k \in 0..((s - p) - 1) : e + k = b + (p + k) /\ p + k \in 0..(s - 1)

LEMMA SilenceCounts ==
  ASSUME NEW s \in Nat, NEW p \in 0..s, NEW b \in Int, NEW e, e = b + p
  PROVE  SilentFrom(s, p, b, e)
BY DEF SilentFrom

LEMMA SoundCopy ==
  ASSUME Sound!HdaAssumption, SoundInv, Sound!Copy
  PROVE  SoundInv'
<1>1. PlayFlags /\ PlayKinds /\ PlayModes /\ PlayPlaces /\ PlaySilence /\ PlayQueue /\ PlayHeard /\ PlayDue
  BY DEF SoundInv
<1>2. Ring \in Nat \ {0} /\ Guard \in Nat /\ MaxSamples \in Nat
  BY SoundConstants
<1>3. /\ position \in 0..(Ring - 1) /\ last_position \in 0..(Ring - 1) /\ write_position \in 0..(Ring - 1)
      /\ queued_bytes \in 0..Ring
      /\ dma \in [0..(Ring - 1) -> 0..MaxSamples] /\ numbered \in 0..MaxSamples /\ left \in 0..MaxSamples
      /\ numbered + left =< MaxSamples /\ silence \in 0..Guard /\ past \in 0..silence
  BY <1>1, Zenon DEF PlayKinds
<1>4. PICK c \in 1..left, s \in 0..Guard :
           /\ c =< Ring - queued_bytes /\ write_position + c =< Ring
           /\ s =< Ring - (queued_bytes + c) /\ (s = Guard \/ s = Ring - (queued_bytes + c))
           /\ queued_bytes' = queued_bytes + c /\ left' = left - c /\ numbered' = numbered + c
           /\ write_position' = (write_position + c) % Ring
           /\ snd_due' = snd_due \o [k \in 1..c |-> numbered + k]
           /\ past' = (IF past > c THEN past - c ELSE 0) /\ silence' = s
           /\ dma' = [x \in 0..(Ring - 1) |->
                        IF x \in write_position..(write_position + c - 1) THEN numbered + 1 + (x - write_position)
                        ELSE IF x \in {(((write_position + c) % Ring) + k) % Ring : k \in 0..(s - 1)} THEN 0 ELSE dma[x]]
  BY <1>1, ChunkFits
<1>n. /\ c \in 1..left /\ s \in 0..Guard /\ c =< Ring - queued_bytes /\ write_position + c =< Ring
      /\ s =< Ring - (queued_bytes + c) /\ (s = Guard \/ s = Ring - (queued_bytes + c))
      /\ queued_bytes' = queued_bytes + c /\ left' = left - c /\ numbered' = numbered + c
  BY <1>4, Zenon
<1>p. past' = (IF past > c THEN past - c ELSE 0) /\ silence' = s
  BY <1>4, Zenon
<1>5. /\ op = "write" /\ step = "go on" /\ step' = "update" /\ op' = op
      /\ UNCHANGED <<position, heard>>
      /\ last_position' = (IF stream_running THEN last_position ELSE position)
  BY DEF Sound!Copy
<1>6. run' /\ stream_running' /\ (paused' <=> paused) /\ (late' <=> late) /\ PlayFlags'
  BY Zenon DEF Sound!Copy, SoundInv, PlayFlags
<1>7. Gone \in 0..(Ring - 1)
  BY <1>1, SoundFar
<1>8. Gone' = Gone
  <2>1. ASSUME ~stream_running PROVE last_position = position
    <3>1. Gone = 0
      BY <1>1, <1>5, <2>1 DEF PlayModes
    <3> QED
      BY <1>1, <3>1, SoundFar
  <2>2. last_position' = last_position
    BY <1>5, <2>1
  <2> QED
    BY <1>5, <2>2 DEF Gone
<1> DEFINE d == queued_bytes - Gone
<1>9. /\ write_position = Cell(position, d)
      /\ past = IF Gone > queued_bytes THEN Gone - queued_bytes ELSE 0
  BY <1>1, <1>5 DEF PlayPlaces, Spot
<1>10. /\ queued_bytes' \in 0..Ring /\ queued_bytes' + silence' =< Ring /\ past' \in 0..silence'
       /\ past' = (IF Gone > queued_bytes + c THEN Gone - (queued_bytes + c) ELSE 0)
       /\ Rest' = (d + c) + past'
       /\ d \in Int /\ c + s =< Ring /\ d + c + s =< Ring /\ c \in Nat \ {0} /\ s \in Nat
  <2>1. c \in Nat \ {0}
    BY <1>3
  <2>2. past =< silence /\ silence \in 0..Guard
    BY <1>2, <1>3
  <2>3. /\ queued_bytes + c \in 0..Ring /\ (queued_bytes + c) + s =< Ring /\ past' \in 0..s
        /\ past' = (IF Gone > queued_bytes + c THEN Gone - (queued_bytes + c) ELSE 0)
        /\ (IF Gone < queued_bytes + c THEN (queued_bytes + c) - Gone ELSE 0) = ((queued_bytes - Gone) + c) + past'
        /\ queued_bytes - Gone \in Int /\ c + s =< Ring /\ (queued_bytes - Gone) + c + s =< Ring
    <3>1. /\ queued_bytes \in 0..Ring /\ silence \in 0..Guard /\ Ring \in Nat \ {0} /\ Guard \in Nat
          /\ past = (IF Gone > queued_bytes THEN Gone - queued_bytes ELSE 0) /\ past =< silence
          /\ past' = (IF past > c THEN past - c ELSE 0)
      BY <1>2, <1>3, <1>9, <1>p, <2>2, Zenon
    <3> QED
      BY <1>n, <1>7, <2>1, <3>1, ChunkCounts, SMTT(60)
  <2>4. Rest' = (d + c) + past'
    BY <1>4, <1>8, <2>3 DEF Rest
  <2>5. s \in Nat
    BY <1>2
  <2> QED
    BY <1>4, <2>1, <2>3, <2>4, <2>5, Zenon
<1>11. Rest = IF d > 0 THEN d ELSE 0
  BY <1>3, <1>7 DEF Rest
<1>12. Rest' > 0 => past' = 0
  BY <1>3, <1>7, <1>10
<1> HIDE DEF d
<1>13. /\ \A j \in 0..(c - 1) : dma'[Cell(position, d + j)] = numbered + 1 + j
       /\ \A k \in 0..(s - 1) : dma'[Cell(position, (d + c) + k)] = 0
       /\ \A k \in 0..(d - 1) : dma'[Cell(position, k)] = dma[Cell(position, k)]
  <2>1. numbered \in Nat
    BY <1>2, <1>3
  <2> QED
    <3>1. /\ Ring \in Nat \ {0} /\ position \in 0..(Ring - 1) /\ d \in Int /\ c \in Nat \ {0} /\ s \in Nat
          /\ c + s =< Ring /\ d + c + s =< Ring
          /\ write_position \in 0..(Ring - 1) /\ write_position = Cell(position, d) /\ write_position + c =< Ring
      BY <1>2, <1>3, <1>n, <1>9, <1>10, Zenon
    <3>2. WroteTo(dma', dma, write_position, c, s, numbered)
      BY <1>4, Zenon DEF WroteTo
    <3>3. SeenFrom(position, d, c, s, numbered, dma, dma')
      BY <2>1, <3>1, <3>2, Placed, SMTT(60)
    <3> QED
      BY <3>3, Zenon DEF SeenFrom
<1>14. PlayKinds'
  <2>1. dma' \in [0..(Ring - 1) -> 0..MaxSamples]
    <3>1. \A x \in write_position..(write_position + c - 1) : numbered + 1 + (x - write_position) \in 0..MaxSamples
      BY <1>2, <1>3
    <3>2. 0 \in 0..MaxSamples
      BY <1>2
    <3> QED
      BY <1>3, <1>4, <3>1, <3>2, Zenon
  <2>2. write_position' \in 0..(Ring - 1)
    <3> DEFINE x == write_position + c
    <3>1. x \in Int
      BY <1>3
    <3> HIDE DEF x
    <3>2. x % Ring \in 0..(Ring - 1)
      BY <1>2, <3>1, PlaceIn
    <3> QED
      BY <1>4, <3>2, Zenon DEF x
  <2>3. last_position' \in 0..(Ring - 1)
    BY <1>3, <1>5, Zenon
  <2>4. left' \in 0..MaxSamples /\ numbered' \in 0..MaxSamples /\ numbered' + left' =< MaxSamples
    BY <1>2, <1>3, <1>4
  <2>5. silence' \in 0..Guard
    BY <1>4, Zenon
  <2>6. position' \in 0..(Ring - 1)
    BY <1>3, <1>5, Zenon
  <2>7. op' \in {"none", "write", "drain", "flush", "pause", "status"} /\ step' \in {"update", "rebase", "go on"}
    BY <1>5
  <2> QED
    BY <1>10, <2>1, <2>2, <2>3, <2>4, <2>5, <2>6, <2>7, Zenon DEF PlayKinds
<1>15. PlayModes'
  <2>1. queued_bytes' # 0
    BY <1>3, <1>4
  <2>2. ~paused
    BY <1>1, <1>5, Zenon DEF PlayModes
  <2> QED
    BY <1>5, <1>6, <2>1, <2>2 DEF PlayModes
<1>16. PlayPlaces'
  <2>1. write_position' = Cell(position, d + c)
    <3>1. position \in Int /\ c \in Int
      BY <1>3, <1>10
    <3>2. (Cell(position, d) + c) % Ring = Cell(position, d + c)
      BY <1>2, <1>10, <3>1, CellAdd
    <3> QED
      BY <1>4, <1>9, <3>2, Zenon
  <2>2. queued_bytes' - Gone' = d + c
    BY <1>3, <1>4, <1>7, <1>8 DEF d
  <2>3. past' = IF Gone' > queued_bytes' THEN Gone' - queued_bytes' ELSE 0
    BY <1>4, <1>8, <1>10, Zenon
  <2> QED
    BY <1>5, <2>1, <2>2, <2>3, Zenon DEF PlayPlaces, Spot
<1>17. PlaySilence'
  <2>1. \A k \in 0..((silence' - past') - 1) : Rest' + k = (d + c) + (past' + k) /\ past' + k \in 0..(s - 1)
    <3>1. silence' = s /\ past' \in 0..s /\ Rest' = (d + c) + past' /\ d \in Int /\ c \in Nat /\ s \in Nat
      <4>1. c \in Nat
        BY <1>10
      <4> QED
        BY <1>p, <1>10, <4>1, Zenon
    <3>2. \A k \in 0..((s - past') - 1) : Rest' + k = (d + c) + (past' + k) /\ past' + k \in 0..(s - 1)
      <4> DEFINE b == d + c
      <4>1. b \in Int
        BY <3>1
      <4>2. Rest' = b + past'
        BY <3>1, Zenon
      <4> HIDE DEF b
      <4>3. SilentFrom(s, past', b, Rest')
        BY <3>1, <4>1, <4>2, SilenceCounts
      <4> QED
        BY <4>3, Zenon DEF SilentFrom, b
    <3> QED
      BY <3>1, <3>2, Zenon
  <2>2. \A k \in 0..((silence' - past') - 1) : dma'[Cell(position, Rest' + k)] = 0
    BY <1>13, <2>1, Zenon
  <2> QED
    BY <1>5, <2>2, Zenon DEF PlaySilence, Spot
<1>18. PlayQueue'
  <2> DEFINE F == [k \in Int |-> dma[Cell(position, k)]]
             G == [k \in Int |-> dma'[Cell(position, k)]]
             e == Rest'
  <2>1. numbered \in Nat /\ d \in Int /\ e \in Nat /\ (e > 0 => e = d + c)
    <3>1. Rest' = (d + c) + past' /\ d \in Int /\ (Rest' > 0 => past' = 0) /\ numbered \in 0..MaxSamples
      BY <1>3, <1>10, <1>12, Zenon
    <3>2. c \in Int /\ MaxSamples \in Nat
      BY <1>2, <1>10
    <3>3. Rest' \in Nat
      <4>1. queued_bytes + c \in Int /\ Gone \in Int
        BY <1>3, <1>7, <3>2
      <4>2. Rest' = IF Gone < queued_bytes + c THEN (queued_bytes + c) - Gone ELSE 0
        BY <1>n, <1>8, Zenon DEF Rest
      <4> QED
        BY <4>1, <4>2
    <3> QED
      BY <3>1, <3>2, <3>3
  <2>2. \A k \in Int : F[k] = dma[Cell(position, k)] /\ G[k] = dma'[Cell(position, k)]
    BY Zenon
  <2>3. \A k \in 0..(d - 1) : k \in 0..(Rest - 1) /\ k \in Int
    BY <1>10, <1>11
  <2>4. \A j \in 0..(c - 1) : G[d + j] = numbered + 1 + j
    <3>1. \A j \in 0..(c - 1) : d + j \in Int
      BY <1>10
    <3> QED
      BY <1>13, <2>2, <3>1, Zenon
  <2>5. \A k \in 0..(d - 1) : G[k] = F[k] /\ F[k] \in 1..numbered
    BY <1>1, <1>13, <2>2, <2>3, Zenon DEF PlayQueue, Spot
  <2>6. \A k \in 0..(d - 1), j \in 0..(d - 1) : k < j => F[k] < F[j]
    BY <1>1, <2>2, <2>3, Zenon DEF PlayQueue, Spot
  <2>7. \A k \in 0..(e - 1) : k \in Int
    BY <2>1
  <2> HIDE DEF F, G, e
  <2>8. /\ \A k \in 0..(e - 1) : G[k] \in 1..(numbered + c)
        /\ \A k \in 0..(e - 1), j \in 0..(e - 1) : k < j => G[k] < G[j]
        /\ \A k \in 0..(e - 1) : k \in 0..(d - 1) \/ G[k] > numbered
    BY <1>10, <2>1, <2>4, <2>5, <2>6, ChunkOrder
  <2>9. \A k \in 0..(e - 1) : \A i \in DOMAIN heard : heard[i] < G[k]
    <3> TAKE k \in 0..(e - 1)
    <3> TAKE i \in DOMAIN heard
    <3>1. heard[i] \in 1..numbered
      <4>1. heard \in Seq(1..numbered)
        BY <1>1, Zenon DEF PlayHeard
      <4> QED
        BY <4>1, SeqItem, Zenon
    <3>2. CASE k \in 0..(d - 1)
      <4>1. heard[i] < dma[Cell(position, k)]
        BY <1>1, <2>3, <3>2, Zenon DEF PlayQueue, Spot
      <4> QED
        BY <2>2, <2>3, <2>5, <3>2, <4>1, Zenon
    <3>3. CASE k \notin 0..(d - 1)
      <4>1. G[k] > numbered /\ G[k] \in 1..(numbered + c)
        BY <2>8, <3>3
      <4> QED
        BY <1>10, <2>1, <3>1, <4>1
    <3> QED
      BY <3>2, <3>3
  <2> QED
    BY <1>4, <1>5, <2>2, <2>7, <2>8, <2>9, Zenon DEF PlayQueue, Spot, e
<1>19. PlayHeard'
  <2>1. heard \in Seq(1..numbered)
    BY <1>1, Zenon DEF PlayHeard
  <2>2. heard \in Seq(1..numbered')
    <3>1. 1..numbered \subseteq 1..(numbered + c)
      BY <1>3, <1>10
    <3> QED
      BY <1>n, <2>1, <3>1, SeqWidens
  <2> QED
    BY <1>1, <1>5, <2>2, Zenon DEF PlayHeard
<1>20. PlayDue'
  <2> DEFINE more == [k \in 1..c |-> numbered + k]
  <2>1. snd_due \in Seq(1..MaxSamples)
    BY <1>1, Zenon DEF PlayDue
  <2>2. more \in Seq(1..MaxSamples) /\ Len(more) = c
    <3>1. \A k \in 1..c : numbered + k \in 1..MaxSamples
      BY <1>2, <1>3, <1>10
    <3> QED
      BY <1>10, <3>1
  <2>3. snd_due' = snd_due \o more
    BY <1>4
  <2>4. snd_due' \in Seq(1..MaxSamples)
    BY <2>1, <2>2, <2>3
  <2>5. ASSUME ~late
        PROVE  past' = 0 /\ snd_due' = View(dma', position, Rest', Ring)
    <3>1. past = 0 /\ snd_due = View(dma, position, Rest, Ring)
      BY <1>1, <2>5, Zenon DEF PlayDue
    <3>2. past' = 0
      BY <1>3, <1>10, <3>1, <1>4
    <3>3. d \in Nat /\ Rest = d /\ Rest' = d + c
      BY <1>3, <1>7, <1>9, <1>10, <1>11, <3>1, <3>2 DEF d
    <3>4. snd_due = [k \in 1..d |-> dma[Cell(position, k - 1)]]
      BY <3>1, <3>3, Zenon DEF View, Cell
    <3>5. View(dma', position, Rest', Ring) = [k \in 1..(d + c) |-> dma'[Cell(position, k - 1)]]
      BY <3>3, Zenon DEF View, Cell
    <3>6. snd_due \o more = [k \in 1..(d + c) |-> IF k =< d THEN snd_due[k] ELSE more[k - d]]
      BY <1>10, <2>1, <2>2, <3>3, <3>4
    <3>7. \A k \in 1..(d + c) : dma'[Cell(position, k - 1)] = IF k =< d THEN snd_due[k] ELSE more[k - d]
      <4> TAKE k \in 1..(d + c)
      <4>1. CASE k =< d
        <5>1. k \in 1..d /\ k - 1 \in 0..(d - 1)
          BY <1>10, <3>3, <4>1
        <5>2. snd_due[k] = dma[Cell(position, k - 1)]
          BY <3>4, <5>1, Zenon
        <5> QED
          BY <1>13, <4>1, <5>1, <5>2, Zenon
      <4>2. CASE ~(k =< d)
        <5> DEFINE j == (k - d) - 1
        <5>1. j \in 0..(c - 1) /\ k - 1 = d + j /\ k - d \in 1..c /\ numbered + 1 + j = numbered + (k - d)
          BY <1>3, <1>10, <3>3, <4>2
        <5> HIDE DEF j
        <5>2. dma'[Cell(position, k - 1)] = numbered + 1 + j
          BY <1>13, <5>1, Zenon
        <5>3. more[k - d] = numbered + (k - d)
          BY <5>1, Zenon
        <5> QED
          BY <4>2, <5>1, <5>2, <5>3, Zenon
      <4> QED
        BY <4>1, <4>2
    <3> HIDE DEF more
    <3>8. [k \in 1..(d + c) |-> dma'[Cell(position, k - 1)]] = [k \in 1..(d + c) |-> IF k =< d THEN snd_due[k] ELSE more[k - d]]
      BY <3>7, Zenon
    <3> QED
      BY <2>3, <3>2, <3>5, <3>6, <3>8, Zenon
  <2> QED
    BY <1>5, <1>6, <2>4, <2>5, Zenon DEF PlayDue
<1> QED
  BY <1>6, <1>14, <1>15, <1>16, <1>17, <1>18, <1>19, <1>20 DEF SoundInv

LEMMA SoundStands ==
  ASSUME SoundInv, UNCHANGED Sound!vars
  PROVE  SoundInv'
<1>1. /\ UNCHANGED <<dma, position, write_position, queued_bytes, last_position, op, step, left>>
      /\ UNCHANGED <<numbered, heard, silence, past, snd_due>>
  BY DEF Sound!vars, Sound!deviceVars, Sound!queueVars, Sound!callVars, Sound!historyVars
<1>2. /\ (run' <=> run) /\ (stream_running' <=> stream_running) /\ (paused' <=> paused) /\ (late' <=> late)
      /\ PlayFlags'
  <2>1. UNCHANGED <<run, stream_running, paused, late>>
    BY DEF Sound!vars, Sound!deviceVars, Sound!queueVars, Sound!historyVars
  <2> QED
    BY <2>1, Zenon DEF SoundInv, PlayFlags
<1>3. Gone' = Gone /\ Rest' = Rest
  BY <1>1 DEF Gone, Rest
<1>4. PlaySilence' /\ PlayQueue' /\ PlayHeard' /\ PlayDue'
  BY <1>1, <1>2, <1>3, SameSound
<1>5. PlayKinds'
  BY <1>1, Zenon DEF SoundInv, PlayKinds
<1>6. PlayModes'
  <2>1. PlayModes
    BY DEF SoundInv
  <2> QED
    BY <1>1, <1>2, <1>3, <2>1 DEF PlayModes
<1>7. PlayPlaces'
  <2> DEFINE g == Gone
  <2>1. Gone = g /\ Gone' = g /\ PlayPlaces
    BY <1>3 DEF SoundInv
  <2> HIDE DEF g
  <2> QED
    BY <1>1, <2>1 DEF PlayPlaces, Spot
<1> QED
  BY <1>2, <1>4, <1>5, <1>6, <1>7 DEF SoundInv

LEMMA SoundStep ==
  ASSUME Sound!HdaAssumption, Prompt, SoundInv, [Sound!Next]_(Sound!vars)
  PROVE  SoundInv'
<1>1. CASE UNCHANGED Sound!vars
  BY <1>1, SoundStands
<1>2. CASE Sound!Play
  BY <1>2, SoundPlays, SoundPlaysOn
<1>3. CASE Sound!Calls
  <2>1. CASE Sound!Drain
    BY <2>1, SoundDrain
  <2>2. CASE Sound!Call("flush")
    BY <2>2, SoundCall
  <2>3. CASE Sound!Call("status")
    BY <2>3, SoundCall
  <2>4. CASE Sound!Unpause
    BY <2>4, SoundUnpause
  <2>5. CASE Sound!Call("pause")
    BY <2>5, SoundCall
  <2>6. CASE \E n \in 1..MaxSamples : Sound!Write(n)
    BY <2>6, SoundWrite
  <2> QED
    BY <1>3, <2>1, <2>2, <2>3, <2>4, <2>5, <2>6 DEF Sound!Calls
<1>4. CASE Sound!Holder
  <2>1. CASE Sound!Update
    BY <2>1, SoundUpdate
  <2>2. CASE Sound!Underrun
    BY <2>2, SoundUnderrun
  <2>3. CASE Sound!Copy
    BY <2>3, SoundCopy
  <2>4. CASE Sound!WriteReturns \/ Sound!StatusReturns
    BY <2>4, SoundAnswers
  <2>5. CASE Sound!DrainWaits
    BY <2>5, SoundWaits
  <2>6. CASE Sound!DrainReturns
    BY <2>6, SoundDrained
  <2>7. CASE Sound!Halt
    BY <2>7, SoundHalt
  <2>8. CASE Sound!FlushReturns
    BY <2>8, SoundFlushed
  <2>9. CASE Sound!PauseReturns
    BY <2>9, SoundPaused
  <2> QED
    BY <1>4, <2>1, <2>2, <2>3, <2>4, <2>5, <2>6, <2>7, <2>8, <2>9 DEF Sound!Holder
<1> QED
  BY <1>1, <1>2, <1>3, <1>4 DEF Sound!Next

LEMMA SoundTyped ==
  ASSUME Sound!HdaAssumption, SoundInv
  PROVE  Sound!TypeOK
<1>1. PlayFlags /\ PlayKinds /\ snd_due \in Seq(1..MaxSamples)
  BY DEF SoundInv, PlayDue
<1>2. {run, stream_running, paused, late} \subseteq BOOLEAN
  BY <1>1, Zenon DEF PlayFlags
<1>3. past \in 0..Guard /\ silence \in 0..Guard
  <2>1. Guard \in Nat /\ silence \in 0..Guard /\ past \in 0..silence
    BY <1>1, SoundConstants, Zenon DEF PlayKinds
  <2> QED
    BY <2>1
<1> QED
  BY <1>1, <1>2, <1>3, Zenon DEF PlayKinds, Sound!TypeOK, Sound!Cells

LEMMA SoundSkipsNothing ==
  ASSUME Sound!HdaAssumption, SoundInv
  PROVE  Sound!NothingSkipped
<1>1. ASSUME ~late, heard # <<>>, snd_due # <<>>
      PROVE  Sound!Last(heard) < Head(snd_due)
  <2>1. /\ Ring \in Nat \ {0} /\ position \in 0..(Ring - 1) /\ Rest \in Nat
        /\ dma \in [0..(Ring - 1) -> 0..MaxSamples]
    <3>1. PlayKinds
      BY DEF SoundInv
    <3>2. Rest \in Nat
      <4>1. Rest \in 0..Ring
        BY <3>1, SoundFar
      <4> QED
        BY <4>1, SoundConstants
    <3> QED
      BY <3>1, <3>2, SoundConstants, Zenon DEF PlayKinds
  <2>2. snd_due = View(dma, position, Rest, Ring)
    BY <1>1 DEF SoundInv, PlayDue
  <2>3. Rest # 0
    BY <1>1, <2>2 DEF View
  <2>4. Head(snd_due) = dma[position % Ring] /\ position % Ring = position
    <3>1. Rest \in Nat \ {0} /\ position \in Nat
      BY <2>1, <2>3
    <3> QED
      BY <2>1, <2>2, <3>1, ViewPop, SmallPlace
  <2>5. Cell(position, 0) = position
    <3>1. position + 0 = position
      BY <2>1
    <3> QED
      BY <2>1, <3>1, SmallPlace, Zenon DEF Cell
  <2>6. Len(heard) \in DOMAIN heard
    BY <1>1 DEF SoundInv, PlayHeard
  <2>7. 0 \in 0..(Rest - 1)
    BY <2>1, <2>3
  <2>8. heard[Len(heard)] < dma[Cell(position, 0)]
    BY <2>6, <2>7, Zenon DEF SoundInv, PlayQueue, Spot
  <2> QED
    BY <2>4, <2>5, <2>8, Zenon DEF Sound!Last
<1>2. ASSUME op = "none", ~stream_running, ~paused
      PROVE  snd_due = <<>>
  <2>1. queued_bytes = 0 /\ ~late
    BY <1>2 DEF SoundInv, PlayModes
  <2> QED
    BY <2>1, NothingDue
<1> QED
  BY <1>1, <1>2, Zenon DEF Sound!NothingSkipped

LEMMA SoundHeard ==
  ASSUME Sound!HdaAssumption, SoundInv
  PROVE  Sound!TypeOK /\ Sound!NothingTwice /\ Sound!NothingSkipped
<1>1. Sound!NothingTwice
  BY DEF SoundInv, PlayHeard, Sound!NothingTwice
<1> QED
  BY <1>1, SoundTyped, SoundSkipsNothing

\* The samples that clients write are heard in order and at most once, and
\* while the driver keeps ahead of the device the next that is heard is the
\* oldest that is due: whatever the sizes of the buffer, of the page and of the
\* silence behind the queue, however often the device goes round, and with an
\* underrun, a pause, a flush or a drain at any time, provided that somebody
\* looks before the device is past the silence (hda.cpp:577-580, 633-637).
THEOREM SoundIsHeardInOrder ==
  ASSUME Sound!HdaAssumption, Prompt
  PROVE  Sound!Spec => [](Sound!TypeOK /\ Sound!NothingTwice /\ Sound!NothingSkipped)
<1>1. Sound!Init => SoundInv
  BY SoundInit
<1>2. SoundInv /\ [Sound!Next]_(Sound!vars) => SoundInv'
  BY SoundStep
<1>3. SoundInv => Sound!TypeOK /\ Sound!NothingTwice /\ Sound!NothingSkipped
  BY SoundHeard
<1> QED
  BY <1>1, <1>2, <1>3, PTL DEF Sound!Spec

(* All of them, as the run has them: one at work, the others at rest.      *)

\* A step of the run is a step of each driver or leaves it alone.
LEMMA StepOfEach ==
  ASSUME [DevicesNext]_devicesVars
  PROVE  /\ [Virtio!Next]_(Virtio!vars)
         /\ [Intel!Next]_(Intel!vars)
         /\ [Sound!Next]_(Sound!vars)
<1>1. \/ Virtio!Next /\ UNCHANGED <<intelVars, soundVars>>
      \/ Intel!Next /\ UNCHANGED <<virtioVars, soundVars>>
      \/ Sound!Next /\ UNCHANGED <<virtioVars, intelVars>>
      \/ UNCHANGED <<virtioVars, intelVars, soundVars>>
  BY DEF DevicesNext, VirtioNext, IntelNext, SoundNext, devicesVars
<1>2. UNCHANGED virtioVars => UNCHANGED Virtio!vars
  BY DEF virtioVars, Virtio!vars, Virtio!initVars, Virtio!queueVars, Virtio!threadVars, Virtio!historyVars
<1>3. UNCHANGED intelVars => UNCHANGED Intel!vars
  BY DEF intelVars, Intel!vars, Intel!initVars, Intel!rxVars, Intel!txVars, Intel!causeVars
<1>4. UNCHANGED soundVars => UNCHANGED Sound!vars
  BY DEF soundVars, Sound!vars, Sound!deviceVars, Sound!queueVars, Sound!callVars, Sound!historyVars
<1> QED
  BY <1>1, <1>2, <1>3, <1>4

LEMMA DevicesTyped == Virtio!VirtioAssumption /\ Intel!E1000eAssumption /\ Sound!HdaAssumption
BY DevicesAssumption

\* No memory is given back while a device may write it, the indices stay in
\* their rings and every descriptor has one owner, in both drivers of network
\* cards (e1000e.cpp:678-738, virtio_net.cpp:404-441, 749-774).
THEOREM MemoryIsSafe == Serialised => (DevicesSpec => []DeviceMemorySafe)
<1> SUFFICES ASSUME Serialised PROVE DevicesSpec => []DeviceMemorySafe
  OBVIOUS
<1> DEFINE Inv == VirtioInv /\ IntelInv
<1>1. DevicesInit => Inv
  BY VirtioInit, IntelInit, DevicesTyped DEF DevicesInit
<1>2. Inv /\ [DevicesNext]_devicesVars => Inv'
  BY StepOfEach, VirtioStep, IntelStep, DevicesTyped
<1>3. Inv => DeviceMemorySafe
  BY VirtioConserves, IntelTyped, DevicesTyped DEF DeviceMemorySafe
<1> QED
  BY <1>1, <1>2, <1>3, PTL DEF DevicesSpec

\* Both drivers implement LinkFrames, next to each other
\* (e1000e.cpp:1202-1243, 1366-1416, virtio_net.cpp:444-477, 736-776).
THEOREM FramesAreInOrder == Serialised => (DevicesSpec => FramesInOrder)
<1> SUFFICES ASSUME Serialised PROVE DevicesSpec => FramesInOrder
  OBVIOUS
<1>1. DevicesInit => LinkInv /\ Virtio!Link!Init /\ IntelInv /\ Intel!Link!Init
  BY LinkInit, IntelLinkInit, DevicesTyped DEF DevicesInit
<1>2. LinkInv /\ [DevicesNext]_devicesVars => LinkInv' /\ [Virtio!Link!Next]_(Virtio!Link!vars)
  BY StepOfEach, LinkStep, DevicesTyped
<1>3. IntelInv /\ [DevicesNext]_devicesVars => IntelInv' /\ [Intel!Link!Next]_(Intel!Link!vars)
  BY StepOfEach, IntelStep, DevicesTyped
<1> QED
  BY <1>1, <1>2, <1>3, PTL
  DEF DevicesSpec, FramesInOrder, Virtio!FramesInOrder, Virtio!Link!Spec, Intel!FramesInOrder, Intel!Link!Spec

\* What is heard is what was written, in order and once, if somebody looks
\* before the device is past the silence (hda.cpp:561-721).
THEOREM HeardAsWritten == Prompt => (DevicesSpec => []HeardInOrder)
<1> SUFFICES ASSUME Prompt PROVE DevicesSpec => []HeardInOrder
  OBVIOUS
<1>1. DevicesInit => SoundInv
  BY SoundInit, DevicesTyped DEF DevicesInit
<1>2. SoundInv /\ [DevicesNext]_devicesVars => SoundInv'
  BY StepOfEach, SoundStep, DevicesTyped
<1>3. SoundInv => HeardInOrder
  BY SoundHeard, DevicesTyped DEF HeardInOrder
<1> QED
  BY <1>1, <1>2, <1>3, PTL DEF DevicesSpec

-----------------------------------------------------------------------------
(* For every Size and every output, the log is the most recent output.     *)

\* An index that has gone round the ring once at most.
LEMMA Round ==
  ASSUME NEW a \in Nat, NEW d \in Nat, a < Size, d < Size
  PROVE  (a + d) % Size = IF a + d < Size THEN a + d ELSE a + d - Size
BY LogAssumption, SMTT(30) DEF LogAssumption

\* The last k of a sequence.
LEMMA Suffix ==
  ASSUME NEW S, NEW q \in Seq(S), NEW k \in 0..Len(q)
  PROVE  SubSeq(q, Len(q) - k + 1, Len(q)) = [i \in 1..k |-> q[Len(q) - k + i]]
<1> DEFINE n == Len(q)
<1>1. n \in Nat /\ k \in Nat /\ k <= n
  OBVIOUS
<1>2. SubSeq(q, n - k + 1, n) = [i \in 1..(n - (n - k + 1) + 1) |-> q[i + (n - k + 1) - 1]]
  BY DEF SubSeq
<1> HIDE DEF n
<1>3. n - (n - k + 1) + 1 = k
  BY <1>1
<1>4. \A i \in 1..k : i + (n - k + 1) - 1 = n - k + i
  BY <1>1
<1> QED
  BY <1>2, <1>3, <1>4 DEF n

\* The byte of the ring at i is the one written that many before the last.
Kept ==
  /\ log_length = IF Len(output) < Size THEN Len(output) ELSE Size
  /\ log_length < Size => log_start = 0
  /\ \A i \in 0..(log_length - 1) :
       log[IF log_start + i < Size THEN log_start + i ELSE log_start + i - Size]
         = output[Len(output) - log_length + i + 1]

IInv == TypeOK /\ Kept

\* What appending does to a sequence.
LEMMA Appended ==
  ASSUME NEW S, NEW q \in Seq(S), NEW b \in S
  PROVE  /\ Append(q, b) \in Seq(S)
         /\ Len(Append(q, b)) = Len(q) + 1 /\ Len(q) \in Nat
         /\ Append(q, b)[Len(q) + 1] = b
         /\ \A k \in 1..Len(q) : Append(q, b)[k] = q[k]
OBVIOUS

\* The ring has no place outside 0..Size-1.
LEMMA Wrapped ==
  ASSUME TypeOK
  PROVE  /\ \A i \in 0..(Size - 1) :
              At(i) = IF log_start + i < Size THEN log_start + i ELSE log_start + i - Size
         /\ Advanced = IF log_start + 1 < Size THEN log_start + 1 ELSE 0
<1>1. Size \in Nat /\ Size > 0 /\ log_start \in 0..(Size - 1)
  BY LogAssumption DEF LogAssumption, TypeOK, Places
<1>2. ASSUME NEW i \in 0..(Size - 1)
      PROVE  At(i) = IF log_start + i < Size THEN log_start + i ELSE log_start + i - Size
  <2>1. i \in Nat /\ log_start \in Nat /\ log_start < Size /\ i < Size
    BY <1>1
  <2>2. (log_start + i) % Size
          = IF log_start + i < Size THEN log_start + i ELSE log_start + i - Size
    BY <2>1, Round
  <2> QED
    BY <2>2, Zenon DEF At
<1>3. Advanced = IF log_start + 1 < Size THEN log_start + 1 ELSE 0
  <2>1. CASE Size = 1
    BY <1>1, <2>1, SMTT(30) DEF Advanced
  <2>2. CASE Size > 1
    <3>1. 1 \in Nat /\ log_start \in Nat /\ log_start < Size /\ 1 < Size
      BY <1>1, <2>2
    <3>2. (log_start + 1) % Size
            = IF log_start + 1 < Size THEN log_start + 1 ELSE log_start + 1 - Size
      BY <3>1, Round
    <3>3. (log_start + 1) % Size = IF log_start + 1 < Size THEN log_start + 1 ELSE 0
      BY <1>1, <3>2
    <3> QED
      BY <3>3, Zenon DEF Advanced
  <2> QED
    BY <1>1, <2>1, <2>2
<1> QED
  BY <1>2, <1>3

LEMMA InitKept == Init => IInv
BY LogAssumption DEF LogAssumption, Init, IInv, TypeOK, Kept, Places

LEMMA StepKept == IInv /\ [Next]_vars => IInv'
<1> SUFFICES ASSUME IInv, [Next]_vars PROVE IInv'
  OBVIOUS
<1> DEFINE n == Len(output)
<1>1. Size \in Nat /\ Size > 0 /\ log_start \in 0..(Size - 1)
      /\ log_length \in 0..Size /\ output \in Seq(Bytes) /\ n \in Nat
      /\ log \in [0..(Size - 1) -> Bytes]
  BY LogAssumption DEF LogAssumption, IInv, TypeOK, Places
<1>2. CASE UNCHANGED vars
  BY <1>2 DEF vars, IInv, TypeOK, Kept
<1>3. ASSUME NEW b \in Bytes, Append1(b) PROVE IInv'
  <2>1. /\ output' = Append(output, b) /\ output' \in Seq(Bytes)
        /\ Len(output') = n + 1
        /\ output'[n + 1] = b
        /\ \A k \in 1..n : output'[k] = output[k]
    BY <1>1, <1>3, Appended DEF Append1
  <2>2. CASE log_length < Size
    <3>1. log_start = 0 /\ log_length = n /\ At(log_length) = n
      BY <1>1, <2>2, Wrapped DEF IInv, Kept
    <3>2. log' = [log EXCEPT ![n] = b] /\ log_length' = n + 1 /\ log_start' = 0
      BY <1>3, <2>2, <3>1, <1>1 DEF Append1
    <3>3. ASSUME NEW i \in 0..(n - 1) PROVE log[i] = output[i + 1]
      <4>1. log[IF log_start + i < Size THEN log_start + i ELSE log_start + i - Size]
              = output[n - log_length + i + 1]
        BY <3>1 DEF IInv, Kept
      <4> HIDE DEF n
      <4>2. log_start + i = i /\ i < Size /\ n - log_length + i + 1 = i + 1
        BY <1>1, <2>2, <3>1
      <4> QED
        BY <4>1, <4>2
    <3> HIDE DEF n
    <3>4. TypeOK'
      BY <1>1, <2>1, <2>2, <3>1, <3>2 DEF TypeOK, Places
    <3>5. \A i \in 0..n : log'[i] = output'[i + 1]
      BY <1>1, <2>1, <2>2, <3>1, <3>2, <3>3
    <3>6. Kept'
      BY <1>1, <2>1, <2>2, <3>1, <3>2, <3>5 DEF Kept
    <3> QED
      BY <3>4, <3>6 DEF IInv
  <2>3. CASE log_length = Size
    <3>1. n >= Size
      BY <1>1, <2>3 DEF IInv, Kept
    <3>2. /\ log' = [log EXCEPT ![log_start] = b] /\ log_length' = Size
          /\ log_start' = IF log_start + 1 < Size THEN log_start + 1 ELSE 0
      BY <1>1, <1>3, <2>3, Wrapped DEF Append1, IInv
    <3>3. \A i \in 0..(Size - 1) :
            log[IF log_start + i < Size THEN log_start + i ELSE log_start + i - Size]
              = output[n - Size + i + 1]
      BY <1>1, <2>3 DEF IInv, Kept
    <3> HIDE DEF n
    <3>4. TypeOK'
      BY <1>1, <2>1, <3>2 DEF TypeOK, Places
    <3>5. ASSUME NEW i \in 0..(Size - 1)
          PROVE  log'[IF log_start' + i < Size THEN log_start' + i ELSE log_start' + i - Size]
                   = output'[n + 1 - Size + i + 1]
      <4> DEFINE cell == IF log_start' + i < Size THEN log_start' + i ELSE log_start' + i - Size
      <4>1. CASE i < Size - 1
        <5>1. /\ i + 1 \in 0..(Size - 1) /\ cell \in 0..(Size - 1) /\ cell # log_start
              /\ cell = IF log_start + (i + 1) < Size THEN log_start + (i + 1)
                       ELSE log_start + (i + 1) - Size
          BY <1>1, <3>2, <4>1
        <5>2. log[cell] = output[n - Size + (i + 1) + 1]
          BY <3>3, <5>1
        <5>3. n - Size + (i + 1) + 1 \in 1..n
          BY <1>1, <3>1, <4>1
        <5> HIDE DEF cell
        <5>4. log'[cell] = log[cell]
          BY <1>1, <3>2, <5>1
        <5> QED
          BY <1>1, <2>1, <5>2, <5>3, <5>4 DEF cell
      <4>2. CASE i = Size - 1
        <5>1. cell = log_start /\ n + 1 - Size + i + 1 = n + 1
          BY <1>1, <3>2, <4>2
        <5> HIDE DEF cell
        <5>2. log'[cell] = b
          BY <1>1, <3>2, <5>1
        <5> QED
          BY <2>1, <5>1, <5>2 DEF cell
      <4> QED
        BY <1>1, <4>1, <4>2
    <3>6. Kept'
      <4>1. log_length' = IF Len(output') < Size THEN Len(output') ELSE Size
        BY <1>1, <2>1, <3>1, <3>2
      <4>2. ~(log_length' < Size)
        BY <1>1, <3>2
      <4>3. \A i \in 0..(log_length' - 1) :
              log'[IF log_start' + i < Size THEN log_start' + i ELSE log_start' + i - Size]
                = output'[Len(output') - log_length' + i + 1]
        <5>1. /\ log_length' = Size /\ Len(output') - log_length' = n + 1 - Size
              /\ log_length' - 1 = Size - 1
          BY <1>1, <2>1, <3>2
        <5> QED
          BY <3>5, <5>1
      <4> QED
        BY <4>1, <4>2, <4>3 DEF Kept
    <3> QED
      BY <3>4, <3>6 DEF IInv
  <2> QED
    BY <1>1, <2>2, <2>3
<1> QED
  BY <1>2, <1>3 DEF Next

\* The places of the log and its bounds are in range, whatever is written
\* (init.cpp:823-834).
THEOREM TypeCorrect == Spec => []TypeOK
<1> QED
  BY InitKept, StepKept, PTL DEF Spec, IInv

LEMMA KeptRecent == IInv => Recent
<1> SUFFICES ASSUME IInv PROVE Recent
  OBVIOUS
<1> DEFINE n == Len(output)
           k == IF n < Size THEN n ELSE Size
<1>1. Size \in Nat /\ Size > 0 /\ log_start \in 0..(Size - 1)
      /\ log_length \in 0..Size /\ output \in Seq(Bytes) /\ n \in Nat
  BY LogAssumption DEF LogAssumption, IInv, TypeOK, Places
<1>2. log_length = k
  BY DEF IInv, Kept
<1>3. SubSeq(output, n - k + 1, n) = [i \in 1..k |-> output[n - k + i]]
  <2>1. k \in 0..Len(output)
    BY <1>1
  <2> HIDE DEF k
  <2> QED
    BY <1>1, <2>1, Suffix
<1>4. ASSUME NEW i \in 1..k PROVE log[At(i - 1)] = output[n - k + i]
  <2>1. i - 1 \in 0..(Size - 1) /\ i - 1 \in 0..(log_length - 1)
    BY <1>1, <1>2
  <2>2. log[At(i - 1)] = output[n - log_length + (i - 1) + 1]
    BY <2>1, Wrapped DEF IInv, Kept
  <2> QED
    BY <1>1, <1>2, <2>2
<1> QED
  BY <1>2, <1>3, <1>4 DEF Recent, Text

\* `service logs` shows the most recent output of the service, of every
\* length and for every size of the log (base-system/README.md:9-10).
THEOREM LogIsRecent == Spec => []Recent
<1> QED
  BY InitKept, StepKept, KeptRecent, PTL DEF Spec

-----------------------------------------------------------------------------
(* The disk tools.                                                         *)

CONSTANTS
  Devices, SectorSize, Word, MbrWord, MinDevice, EntrySectors, FrontSectors, RvtSize, RootSize,
  EntriesPerSector, MinClusters, Starts, Counts, MetaSizes, Clusters, Reserved, FatCounts, MaxRuns

VARIABLES sectors, disk, stage, layout, todo, fat, pass, runs, report, unread

Tools == INSTANCE DiskTools WITH at <- stage

-----------------------------------------------------------------------------
(* Arithmetic.                                                             *)

\* Rounding up gives the next multiple (align_up of mkneufs.cpp:208-214).
LEMMA AlignedUp ==
  ASSUME NEW v \in Nat, NEW u \in Nat \ {0}
  PROVE  /\ Tools!AlignUp(v, u) \in Nat /\ v <= Tools!AlignUp(v, u) /\ Tools!AlignUp(v, u) < v + u
         /\ Tools!AlignUp(v, u) % u = 0
<1>1. v % u \in 0..(u - 1) /\ v = u * (v \div u) + (v % u) /\ v \div u \in Nat
  OBVIOUS
<1>2. CASE v % u = 0
  BY <1>1, <1>2 DEF Tools!AlignUp
<1>3. CASE v % u # 0
  <2>1. Tools!AlignUp(v, u) = v + (u - (v % u))
    BY <1>3 DEF Tools!AlignUp
  <2>2. Tools!AlignUp(v, u) = u * (v \div u + 1)
    BY <2>1, <1>1
  <2>3. (u * (v \div u + 1)) % u = 0
    BY <1>1
  <2> QED
    BY <1>1, <1>3, <2>1, <2>2, <2>3
<1> QED
  BY <1>2, <1>3

\* A quotient grows with its dividend.
LEMMA DivMonotone ==
  ASSUME NEW a \in Int, NEW b \in Int, NEW d \in Nat \ {0}, a <= b
  PROVE  a \div d <= b \div d
<1>1. /\ a = d * (a \div d) + (a % d) /\ a % d \in 0..(d - 1) /\ a \div d \in Int
      /\ b = d * (b \div d) + (b % d) /\ b % d \in 0..(d - 1) /\ b \div d \in Int
  OBVIOUS
<1>2. SUFFICES ASSUME b \div d + 1 <= a \div d PROVE FALSE
  BY <1>1
<1>3. d * (b \div d + 1) <= d * (a \div d)
  BY <1>1, <1>2
<1> QED
  BY <1>1, <1>3

\* A sum below the word stays what it is, and one that wraps once loses the word.
LEMMA NoWrap ==
  ASSUME NEW n \in Nat, NEW w \in Nat, n < w
  PROVE  n % w = n
OBVIOUS

LEMMA WrapOnce ==
  ASSUME NEW n \in Nat, NEW w \in Nat, w =< n, n < 2 * w
  PROVE  n % w = n - w
<1>1. n = w * 1 + (n - w) /\ n - w \in 0..(w - 1) /\ w > 0
  OBVIOUS
<1>2. n % w \in 0..(w - 1) /\ n = w * (n \div w) + (n % w) /\ n \div w \in Int
  BY <1>1
<1>3. n \div w = 1
  BY <1>1, <1>2
<1> QED
  BY <1>2, <1>3

-----------------------------------------------------------------------------
(* The inductive invariant.                                                *)

\* What is known of the layout where the tool is.
Shapes ==
  /\ sectors \in Devices
  /\ stage = "wipe" =>
       /\ layout.kind \in {"mbr", "gpt"} /\ sectors >= MinDevice
       /\ layout.start \in 0..(Word - 1) /\ layout.count \in 0..(Word - 1)
  /\ stage \in {"layout", "check"} =>
       layout \in [kind : {"fat"}, cluster : Clusters, reserved : Reserved, fats : FatCounts]
  /\ stage = "write" /\ layout.kind = "neufs" =>
       /\ layout.meta \in Nat /\ layout.meta % SectorSize = 0
       /\ Tools!NeufsFits(layout.meta)

\* The loop begins with tables that are too large and comes to one that is too
\* small at most once.
Loop ==
  /\ fat \in Int /\ pass \in 0..2
  /\ stage = "layout" => pass \in {0, 1}
  /\ stage = "layout" /\ pass = 1 => \E more \in Int : fat <= more /\ fat = Tools!Needed(layout, more)
  /\ stage = "check" => Tools!Needed(layout, fat) <= fat

ToolsInv == Shapes /\ Tools!PartitionFits /\ Loop

LEMMA InitInv == Tools!Init => ToolsInv
BY DEF Tools!Init, ToolsInv, Shapes, Tools!PartitionFits, Loop, Tools!NoLayout

-----------------------------------------------------------------------------
(* The partition.                                                          *)

\* partition_bounds() keeps a partition between the tables (mkpart.cpp:344-367).
\* The last sector is compared as a word.  Where the sum does not wrap it is the
\* last sector of the partition; the word itself as a sum is refused, as no
\* device has that many sectors; and a sum that wraps, of two words, is below its
\* start.  The fields of an MBR are too small for a sum that wraps.
LEMMA BoundsSafe ==
  ASSUME Tools!DiskToolsAssumption, Shapes, Tools!Bounds
  PROVE  Tools!PartitionFits'
<1>1. SUFFICES ASSUME Tools!BoundsHold, Tools!InMbr, stage = "wipe", sectors' = sectors,
                      layout' = [kind |-> layout.kind, start |-> Tools!StartLba, count |-> Tools!SectorCount]
               PROVE  Tools!PartitionFits'
  BY DEF Tools!PartitionFits, Tools!Bounds, Tools!Ends, Tools!NoLayout
<1>2. /\ sectors \in Nat /\ sectors < Word /\ Word \in Nat /\ EntrySectors \in Nat
      /\ sectors >= 2 * EntrySectors + 4
      /\ layout.kind \in {"mbr", "gpt"} /\ layout.start \in Nat /\ layout.count \in Nat
      /\ layout.count < Word /\ MbrWord \in Nat /\ 2 * MbrWord =< Word
  <2>1. sectors \in Devices /\ sectors >= MinDevice
    BY <1>1 DEF Shapes
  <2>2. /\ layout.kind \in {"mbr", "gpt"}
        /\ layout.start \in 0..(Word - 1) /\ layout.count \in 0..(Word - 1)
    BY <1>1 DEF Shapes
  <2>3. /\ sectors \in Nat /\ sectors < Word /\ Word \in Nat
        /\ EntrySectors \in Nat /\ FrontSectors \in Nat /\ MinDevice \in Nat
        /\ FrontSectors >= EntrySectors + 2 /\ MinDevice >= 2 * FrontSectors
        /\ MbrWord \in Nat /\ 2 * MbrWord =< Word
    BY <2>1 DEF Tools!DiskToolsAssumption
  <2> QED
    BY <2>1, <2>2, <2>3
<1>3. Tools!FirstUsable \in Nat /\ Tools!LastUsable \in Nat /\ Tools!LastUsable < sectors
  BY <1>2 DEF Tools!FirstUsable, Tools!LastUsable, Tools!BackupEntries
<1> DEFINE start == Tools!StartLba
           count == Tools!SectorCount
           last == (start + count) - 1
<1>4. start \in Nat /\ Tools!FirstUsable <= start /\ start < Tools!LastUsable
  BY <1>1, <1>2, <1>3 DEF Tools!StartLba, Tools!BoundsHold
<1>5. count \in Nat /\ count > 0 /\ count < Word
  BY <1>2, <1>3, <1>4 DEF Tools!SectorCount
<1>6. last % Word <= Tools!LastUsable
  BY <1>1 DEF Tools!BoundsHold
<1>7. layout.kind = "mbr" => start < MbrWord /\ count < MbrWord
  BY <1>1 DEF Tools!InMbr
<1>8. /\ Tools!FirstUsable' = Tools!FirstUsable /\ Tools!LastUsable' = Tools!LastUsable
      /\ layout'.start = start /\ layout'.count = count /\ layout'.kind = layout.kind
  BY <1>1 DEF Tools!FirstUsable, Tools!LastUsable, Tools!BackupEntries
<1> HIDE DEF start, count
<1>9. last \in Nat
  BY <1>4, <1>5
<1>10. CASE last < Word
  <2>1. last % Word = last
    BY <1>2, <1>9, <1>10, NoWrap
  <2>2. start + count # Word
    BY <1>2, <1>3, <1>4, <1>5, <1>6, <2>1
  <2>3. ~(start + count > Word)
    BY <1>2, <1>4, <1>5, <1>10, <2>2
  <2> QED
    BY <1>4, <1>5, <1>6, <1>8, <2>1, <2>3 DEF Tools!PartitionFits, Tools!LastLba, Tools!Wraps
<1>11. CASE ~(last < Word)
  <2>1. start < Word /\ last < 2 * Word
    BY <1>2, <1>3, <1>4, <1>5
  <2>2. last % Word = last - Word
    <3>1. Word \in Nat /\ last \in Nat /\ Word =< last /\ last < 2 * Word
      BY <1>2, <1>9, <1>11, <2>1
    <3> QED
      BY <3>1, WrapOnce, Zenon
  <2>3. last - Word < start
    BY <1>2, <1>4, <1>5
  <2>4. start + count > Word
    BY <1>2, <1>4, <1>5, <1>11
  <2>5. layout.kind = "gpt"
    BY <1>2, <1>4, <1>5, <1>7, <2>4
  <2> QED
    BY <1>4, <1>6, <1>8, <2>2, <2>3, <2>4, <2>5 DEF Tools!PartitionFits, Tools!LastLba, Tools!Wraps
<1> QED
  BY <1>10, <1>11

-----------------------------------------------------------------------------
(* The loop of mkfat.                                                      *)

\* Larger tables leave fewer clusters, which need smaller tables.
LEMMA NeededFalls ==
  ASSUME Tools!DiskToolsAssumption, sectors \in Nat,
         layout \in [kind : {"fat"}, cluster : Clusters, reserved : Reserved, fats : FatCounts],
         NEW f \in Int, NEW g \in Int, f <= g
  PROVE  /\ Tools!Needed(layout, f) \in Int /\ Tools!Needed(layout, g) \in Int
         /\ Tools!Needed(layout, g) <= Tools!Needed(layout, f)
<1>1. /\ layout.fats \in Nat \ {0} /\ layout.cluster \in Nat \ {0} /\ layout.reserved \in Nat
      /\ EntriesPerSector \in Nat \ {0}
  BY DEF Tools!DiskToolsAssumption
<1>2. layout.fats * f <= layout.fats * g /\ layout.fats * f \in Int /\ layout.fats * g \in Int
  BY <1>1
<1>3. /\ sectors - Tools!Overhead(layout, g) <= sectors - Tools!Overhead(layout, f)
      /\ sectors - Tools!Overhead(layout, g) \in Int /\ sectors - Tools!Overhead(layout, f) \in Int
  BY <1>1, <1>2 DEF Tools!Overhead
<1>4. /\ Tools!ClustersWith(layout, g) <= Tools!ClustersWith(layout, f)
      /\ Tools!ClustersWith(layout, g) \in Int /\ Tools!ClustersWith(layout, f) \in Int
  BY <1>1, <1>3, DivMonotone DEF Tools!ClustersWith
<1> DEFINE a == ((Tools!ClustersWith(layout, g) + 2) + EntriesPerSector) - 1
           b == ((Tools!ClustersWith(layout, f) + 2) + EntriesPerSector) - 1
<1>5. a \in Int /\ b \in Int /\ a <= b
  BY <1>1, <1>4
<1>6. Tools!Needed(layout, g) = a \div EntriesPerSector /\ Tools!Needed(layout, f) = b \div EntriesPerSector
  BY Zenon DEF Tools!Needed, Tools!CeilDiv
<1> HIDE DEF a, b
<1>7. /\ a \div EntriesPerSector <= b \div EntriesPerSector
      /\ a \div EntriesPerSector \in Int /\ b \div EntriesPerSector \in Int
  BY <1>1, <1>5, DivMonotone
<1> QED
  BY <1>6, <1>7

\* The first pass goes down or stays, and the second does not go down again
\* (mkfat.cpp's calculate_layout()).
LEMMA PassConverges ==
  ASSUME Tools!DiskToolsAssumption, Shapes, Loop, Tools!Pass
  PROVE  Loop'
<1>1. ASSUME pass < 16, Tools!Overhead(layout, fat) < sectors,
             fat' = Tools!Needed(layout, fat), pass' = pass + 1, layout' = layout, sectors' = sectors,
             stage = "layout", stage' = IF Tools!Needed(layout, fat) >= fat THEN "check" ELSE "layout"
      PROVE  Loop'
  <2>1. /\ sectors \in Nat /\ fat \in Int
        /\ layout \in [kind : {"fat"}, cluster : Clusters, reserved : Reserved, fats : FatCounts]
    BY <1>1 DEF Shapes, Loop, Tools!DiskToolsAssumption
  <2>2. fat' \in Int
    BY <1>1, <2>1, NeededFalls
  <2>3. Tools!Needed(layout, fat)' = Tools!Needed(layout, fat')
    BY <1>1 DEF Tools!Needed, Tools!ClustersWith, Tools!Overhead
  <2>4. CASE fat' >= fat
    <3>1. Tools!Needed(layout, fat') <= fat'
      BY <1>1, <2>1, <2>2, <2>4, NeededFalls
    <3>2. pass' \in 0..2 /\ stage' = "check"
      BY <1>1, <2>4 DEF Loop
    <3> QED
      BY <2>2, <2>3, <3>1, <3>2 DEF Loop
  <2>5. CASE ~(fat' >= fat)
    <3>1. pass = 0
      <4>1. SUFFICES ASSUME pass # 0 PROVE FALSE
        OBVIOUS
      <4>2. PICK more \in Int : fat <= more /\ fat = Tools!Needed(layout, more)
        BY <1>1, <4>1 DEF Loop
      <4>3. Tools!Needed(layout, more) <= Tools!Needed(layout, fat)
        BY <2>1, <4>2, NeededFalls
      <4> QED
        BY <1>1, <2>1, <2>2, <2>5, <4>2, <4>3
    <3>2. fat \in Int /\ fat' <= fat /\ fat' = Tools!Needed(layout, fat)
      BY <1>1, <2>1, <2>2, <2>5
    <3>4. \E more \in Int : fat' <= more /\ fat' = Tools!Needed(layout', more)
      BY <1>1, <3>2
    <3>5. (\E more \in Int : fat <= more /\ fat = Tools!Needed(layout, more))'
      BY <1>1, <3>4 DEF Tools!Needed, Tools!ClustersWith, Tools!Overhead
    <3>6. pass' = 1 /\ stage' = "layout"
      BY <1>1, <2>5, <3>1
    <3> QED
      BY <2>2, <3>5, <3>6 DEF Loop
  <2> QED
    BY <2>4, <2>5
<1>2. CASE Tools!Ends("failed")
  BY <1>2 DEF Loop, Tools!Pass, Tools!Ends
<1> QED
  BY <1>1, <1>2 DEF Tools!Pass

-----------------------------------------------------------------------------
(* The steps.                                                              *)

LEMMA MkpartStep ==
  ASSUME Tools!DiskToolsAssumption, ToolsInv, NEW table \in {"mbr", "gpt"}, NEW start \in Starts, NEW count \in Counts,
         NEW wipe \in BOOLEAN, Tools!Mkpart(table, start, count, wipe)
  PROVE  ToolsInv'
<1>1. Shapes'
  BY DEF ToolsInv, Shapes, Tools!Mkpart, Tools!Begins, Tools!Ends, Tools!NoLayout, Tools!DiskToolsAssumption
<1>2. Tools!PartitionFits' /\ Loop'
  BY DEF ToolsInv, Tools!PartitionFits, Loop, Tools!Mkpart, Tools!Begins, Tools!Ends
<1> QED
  BY <1>1, <1>2 DEF ToolsInv

LEMMA MkneufsStep ==
  ASSUME Tools!DiskToolsAssumption, ToolsInv, NEW asked \in MetaSizes, NEW force \in BOOLEAN, Tools!Mkneufs(asked, force)
  PROVE  ToolsInv'
<1> DEFINE meta == Tools!AlignUp(asked, SectorSize)
<1>1. meta \in Nat /\ meta % SectorSize = 0
  BY AlignedUp DEF Tools!DiskToolsAssumption
<1>2. Tools!PartitionFits' /\ Loop'
  BY DEF ToolsInv, Tools!PartitionFits, Loop, Tools!Mkneufs, Tools!Begins, Tools!Ends
<1>3. Shapes'
  <2>1. CASE Tools!Ends("refused") \/ Tools!Ends("failed")
    BY <2>1 DEF ToolsInv, Shapes, Tools!Mkneufs, Tools!Ends
  <2>2. CASE /\ Tools!NeufsFits(meta) /\ stage' = "write"
             /\ layout' = [kind |-> "neufs", meta |-> meta]
    <3>1. layout'.meta = meta /\ sectors' = sectors
      BY <2>2 DEF Tools!Mkneufs
    <3>2. Tools!NeufsFits(layout.meta)'
      BY <2>2, <3>1 DEF Tools!NeufsFits, Tools!TotalBytes, Tools!RootOffset, Tools!MetaBitmap, Tools!MetaBitmapSize,
                        Tools!DataBitmap, Tools!DataBitmapSize
    <3> QED
      BY <1>1, <2>2, <3>1, <3>2 DEF ToolsInv, Shapes
  <2> QED
    BY <2>1, <2>2 DEF Tools!Mkneufs
<1> QED
  BY <1>2, <1>3 DEF ToolsInv

LEMMA MkfatStep ==
  ASSUME Tools!DiskToolsAssumption, ToolsInv, NEW cluster \in Clusters, NEW reserved \in Reserved, NEW fats \in FatCounts,
         Tools!Mkfat(cluster, reserved, fats)
  PROVE  ToolsInv'
<1> DEFINE l == [kind |-> "fat", cluster |-> cluster, reserved |-> reserved, fats |-> fats]
<1>1. /\ layout' = l /\ fat' = Tools!Most(layout') /\ pass' = 0 /\ stage' = "layout"
      /\ sectors' = sectors
  BY DEF Tools!Mkfat
<1>2. l \in [kind : {"fat"}, cluster : Clusters, reserved : Reserved, fats : FatCounts]
  OBVIOUS
<1>3. Shapes' /\ Tools!PartitionFits'
  BY <1>1, <1>2 DEF ToolsInv, Shapes, Tools!PartitionFits
<1>4. Tools!Most(l) \in Int
  <2>1. /\ sectors \in Nat /\ l.cluster \in Nat \ {0} /\ EntriesPerSector \in Nat \ {0}
    BY DEF ToolsInv, Shapes, Tools!DiskToolsAssumption
  <2>2. sectors \div l.cluster \in Int
    BY <2>1
  <2> HIDE DEF l
  <2>3. (((sectors \div l.cluster) + 2) + EntriesPerSector) - 1 \in Int
    BY <2>1, <2>2
  <2> QED
    BY <2>1, <2>3 DEF Tools!Most, Tools!CeilDiv
<1>5. Loop'
  BY <1>1, <1>4 DEF Loop
<1> QED
  BY <1>3, <1>5 DEF ToolsInv

LEMMA CheckStep ==
  ASSUME ToolsInv, NEW force \in BOOLEAN, Tools!Check(force)
  PROVE  ToolsInv'
<1>1. layout.kind = "fat"
  BY DEF ToolsInv, Shapes, Tools!Check
<1> QED
  BY <1>1 DEF ToolsInv, Shapes, Tools!PartitionFits, Loop, Tools!Check, Tools!Ends

LEMMA BoundsStep ==
  ASSUME Tools!DiskToolsAssumption, ToolsInv, Tools!Bounds
  PROVE  ToolsInv'
<1>1. layout.kind \in {"mbr", "gpt"}
  BY DEF ToolsInv, Shapes, Tools!Bounds
<1>2. Shapes' /\ Loop'
  BY <1>1 DEF ToolsInv, Shapes, Loop, Tools!Bounds, Tools!Ends
<1> QED
  BY <1>2, BoundsSafe DEF ToolsInv

LEMMA PassStep ==
  ASSUME Tools!DiskToolsAssumption, ToolsInv, Tools!Pass
  PROVE  ToolsInv'
<1>1. Shapes' /\ Tools!PartitionFits'
  BY DEF ToolsInv, Shapes, Tools!PartitionFits, Tools!Pass, Tools!Ends
<1> QED
  BY <1>1, PassConverges DEF ToolsInv

\* What a layout says of the device stays the same while it is written.
LEMMA SameLayout ==
  ASSUME ToolsInv, layout' = layout, sectors' = sectors, fat' = fat, pass' = pass,
         stage' = stage \/ stage' = "idle"
  PROVE  ToolsInv'
<1>1. Shapes'
  BY DEF ToolsInv, Shapes, Tools!NeufsFits, Tools!TotalBytes, Tools!RootOffset, Tools!MetaBitmap, Tools!MetaBitmapSize,
         Tools!DataBitmap, Tools!DataBitmapSize
<1>2. Tools!PartitionFits'
  BY DEF ToolsInv, Tools!PartitionFits, Tools!Wraps, Tools!LastLba, Tools!FirstUsable, Tools!LastUsable,
         Tools!BackupEntries
<1>3. Loop'
  BY DEF ToolsInv, Loop, Tools!Needed, Tools!ClustersWith, Tools!Overhead
<1> QED
  BY <1>1, <1>2, <1>3 DEF ToolsInv

LEMMA WriteFailsStep ==
  ASSUME ToolsInv, Tools!WriteFails
  PROVE  ToolsInv'
BY DEF ToolsInv, Shapes, Tools!PartitionFits, Loop, Tools!WriteFails

LEMMA Step ==
  ASSUME Tools!DiskToolsAssumption, ToolsInv, [Tools!Next]_(Tools!vars)
  PROVE  ToolsInv'
<1>1. CASE Tools!Bounds
  BY <1>1, BoundsStep
<1>2. CASE Tools!Pass
  BY <1>2, PassStep
<1>3. CASE Tools!Write
  BY <1>3, SameLayout DEF Tools!Write
<1>4. CASE Tools!WriteFails
  BY <1>4, WriteFailsStep
<1>5. CASE Tools!Made
  BY <1>5, SameLayout DEF Tools!Made
<1>6. CASE UNCHANGED Tools!vars
  BY <1>6, SameLayout DEF Tools!vars
<1> QED
  BY <1>1, <1>2, <1>3, <1>4, <1>5, <1>6, MkpartStep, MkneufsStep, MkfatStep, CheckStep DEF Tools!Next

LEMMA Invariance == ASSUME Tools!DiskToolsAssumption PROVE Tools!Spec => []ToolsInv
BY InitInv, Step, PTL DEF Tools!Spec

-----------------------------------------------------------------------------
(* The theorems.                                                           *)

\* For every size of a device and every start and count that fit into a word,
\* those whose sum wraps included, what mkpart writes of the partition is behind
\* the first table and before the second: it has just the sectors that were asked
\* for, or, where the sum wraps, which the check of the bounds lets pass in a GPT
\* and never in an MBR, its last sector is before its first one and it has none
\* (mkpart.cpp:344-367, 386-389).
THEOREM PartitionsFit == ASSUME Tools!DiskToolsAssumption PROVE Tools!Spec => []Tools!PartitionFits
<1>1. ToolsInv => Tools!PartitionFits
  BY DEF ToolsInv
<1> QED
  BY <1>1, Invariance, PTL

\* The loop of mkfat never comes to its sixteenth pass, nor to a third, and its
\* tables have an entry for each cluster, for every device, size of a cluster
\* and number of tables.
THEOREM LoopConverges == ASSUME Tools!DiskToolsAssumption PROVE Tools!Spec => []Tools!Converges
<1>1. ToolsInv => Tools!Converges
  BY DEF ToolsInv, Loop, Tools!Converges
<1> QED
  BY <1>1, Invariance, PTL

\* The structures of NEUFS do not overlap and leave room for data.
THEOREM NeufsInOrder == ASSUME Tools!DiskToolsAssumption PROVE Tools!Spec => []Tools!NeufsOrdered
<1>1. ASSUME ToolsInv, stage = "write", layout.kind = "neufs"
      PROVE  /\ RvtSize <= Tools!DataBitmap
             /\ Tools!DataBitmap + Tools!DataBitmapSize <= Tools!MetaBitmap
             /\ Tools!MetaBitmap + Tools!MetaBitmapSize(layout.meta) <= Tools!RootOffset(layout.meta)
             /\ Tools!RootOffset(layout.meta) + RootSize <= layout.meta /\ layout.meta < Tools!TotalBytes
  <2>1. /\ RvtSize \in Nat /\ sectors \in Nat /\ SectorSize \in Nat \ {0} /\ layout.meta \in Nat
        /\ Tools!NeufsFits(layout.meta)
    BY <1>1 DEF ToolsInv, Shapes, Tools!DiskToolsAssumption
  <2>2. Tools!DataBitmap \in Nat /\ RvtSize <= Tools!DataBitmap
    BY <2>1, AlignedUp DEF Tools!DataBitmap
  <2>3. Tools!DataBitmapSize \in Nat /\ Tools!MetaBitmapSize(layout.meta) \in Nat
    BY <2>1 DEF Tools!DataBitmapSize, Tools!MetaBitmapSize
  <2>4. Tools!MetaBitmap \in Nat /\ Tools!DataBitmap + Tools!DataBitmapSize <= Tools!MetaBitmap
    <3>1. Tools!DataBitmap + Tools!DataBitmapSize \in Nat
      BY <2>2, <2>3
    <3>2. 8 \in Nat \ {0}
      OBVIOUS
    <3> QED
      BY <3>1, <3>2, AlignedUp DEF Tools!MetaBitmap
  <2>5. Tools!MetaBitmap + Tools!MetaBitmapSize(layout.meta) <= Tools!RootOffset(layout.meta)
    <3>1. Tools!MetaBitmap + Tools!MetaBitmapSize(layout.meta) \in Nat
      BY <2>3, <2>4
    <3> QED
      BY <2>1, <3>1, AlignedUp DEF Tools!RootOffset
  <2>6. Tools!RootOffset(layout.meta) + RootSize <= layout.meta /\ layout.meta < Tools!TotalBytes
    BY <2>1 DEF Tools!NeufsFits
  <2> QED
    BY <2>2, <2>4, <2>5, <2>6
<1>2. ToolsInv => Tools!NeufsOrdered
  BY <1>1 DEF Tools!NeufsOrdered
<1> QED
  BY <1>2, Invariance, PTL

-----------------------------------------------------------------------------
(* Who a shell and a service run as.                                       *)

CONSTANTS Users, Root, Slots, MaxStarts, MaxLogins, MaxChanges

VARIABLES
  accounts, store, allow, g_principals, where, asked, principal, slot, users, typed, spare,
  booted, overlapped, wrong

Console == INSTANCE Login WITH at <- where, left <- spare

Threads == {"login", "manager"}
Filling == {"mark", "name", "keep"}
Ensuring == {"look", "create", "choose", "have"} \cup Filling
Allowances == [starts : Int, logins : Int, changes : Int]
Stored == {"none", "plain", "p", "q"}

\* What the threads are at, and what they have with them there.
Engaged ==
  /\ Console!TypeOK
  /\ where["login"] \in {"boot", "load", "prompt", "password"} \cup Ensuring
  /\ where["manager"] \in {"none", "idle"} \cup Ensuring
  /\ where["manager"] = "none" => where["login"] \in {"boot"} \cup Ensuring
  /\ where["login"] = "boot" => where["manager"] = "none"
  /\ asked \in [Threads -> Users \cup {"nobody"}]
  /\ \A t \in Threads : where[t] \in Ensuring => asked[t] \in Users
  /\ \A t \in Threads : slot[t] # 0 <=> where[t] \in Filling
  /\ overlapped \in BOOLEAN

\* The accounts, as the kernel has them and as they were read.
Accounts ==
  /\ accounts \in [Users -> Stored] /\ users \in [Users -> Stored]
  /\ allow \in BOOLEAN /\ (allow => Console!FirstBoot)
  /\ where["login"] = "boot" => accounts = booted.accounts /\ store = booted.store
  /\ spare \in Allowances /\ spare.changes <= MaxChanges
  /\ spare.changes = MaxChanges => accounts[Root] = booted.accounts[Root] \/ Console!FirstBoot

\* A name was typed that needs no password, or its password was.
Told ==
  \/ users[typed[1]] = "plain" /\ allow
  \/ users[typed[1]] \in {"p", "q"} /\ typed[2] = users[typed[1]]

Typed ==
  /\ typed \in (Users \cup {"nobody"}) \X {"nobody", "p", "q"}
  /\ where["login"] = "password" => typed[1] \in Users /\ users[typed[1]] \in {"p", "q"}
  /\ where["manager"] # "none" /\ where["login"] \in Ensuring => asked["login"] = typed[1] /\ Told
  /\ "password" \notin wrong

\* A place that a thread fills, or that nobody has, holds no principal; the
\* principal of a thread is that of the user that it asked for.
OwnPlaces ==
  /\ slot["login"] # 0 => slot["login"] # slot["manager"]
  /\ \A i \in Slots : g_principals[i].principal = "nobody" \/ g_principals[i].name = g_principals[i].principal
  /\ \A i \in Slots : ~g_principals[i].in_use => g_principals[i].principal = "nobody"
  /\ \A t \in Threads : where[t] \in Filling => g_principals[slot[t]].principal = "nobody"
  /\ \A t \in Threads : where[t] \in {"name", "keep"} => g_principals[slot[t]].in_use
  /\ \A t \in Threads : where[t] = "keep" => g_principals[slot[t]].name = asked[t]
  /\ \A t \in Threads : where[t] \in {"choose"} \cup Filling => principal[t] = asked[t]
  /\ \A t \in Threads : where[t] = "have" => principal[t] \in {"nobody", asked[t]}
  /\ "principal" \notin wrong /\ "service" \notin wrong

Entry == [in_use : BOOLEAN, name : Users \cup {"nobody"}, principal : Users \cup {"nobody"}]

ConsoleInv ==
  /\ Engaged /\ Accounts /\ Typed
  /\ ~overlapped => OwnPlaces

LEMMA FirstIs ==
  ASSUME NEW S \in SUBSET Nat, S # {}
  PROVE  \E i \in S : \A j \in S : i =< j
<1> DEFINE R == OpToRel(<, Nat)
<1>1. IsWellFoundedOn(R, Nat)
  BY NatLessThanWellFounded
<1>2. \A i, j \in Nat : <<j, i>> \in R <=> j < i
  BY DEF OpToRel
<1> HIDE DEF R
<1>3. PICK i \in S : \A j \in S : ~ (<<j, i>> \in R)
  BY <1>1, WFMin, Zenon
<1>4. \A j \in S : j \in Nat /\ i \in Nat /\ ~(j < i)
  BY <1>2, <1>3
<1> QED
  BY <1>4

\* The first place of some.
LEMMA FirstPlace ==
  ASSUME Console!LoginAssumption, NEW S \in SUBSET Slots, S # {}
  PROVE  (CHOOSE i \in S : \A j \in S : i <= j) \in S
<1>1. S \in SUBSET Nat
  BY DEF Console!LoginAssumption
<1>2. \E i \in S : \A j \in S : i =< j
  BY <1>1, FirstIs
<1> QED
  BY <1>2

USE DEF Console!Threads, Console!Nobody, Console!NoSlot, Console!Absent, Console!Plain, Console!Secrets,
        Threads, Filling, Ensuring

LEMMA ConsoleInit == ASSUME Console!LoginAssumption, Console!Init PROVE ConsoleInv
<1> USE DEF Console!Init
<1>1. accounts \in [Users -> Stored] /\ users \in [Users -> Stored]
  BY DEF Console!Empty, Stored, Console!LoginAssumption
<1>2. Accounts
  <2>1. spare.changes = MaxChanges /\ MaxChanges \in Nat
    BY DEF Console!LoginAssumption
  <2>2. booted.accounts = accounts /\ booted.store = store /\ allow \in BOOLEAN /\ ~allow
    OBVIOUS
  <2>3. spare \in Allowances
    BY DEF Console!LoginAssumption, Allowances
  <2> QED
    BY <1>1, <2>1, <2>2, <2>3 DEF Accounts
<1>3. Console!TypeOK
  BY DEF Console!TypeOK, Console!Free
<1>4. Engaged
  BY <1>3 DEF Engaged, Console!LoginAssumption
<1>5. Typed
  BY DEF Typed
<1>6. OwnPlaces
  BY DEF OwnPlaces, Console!Free
<1> QED
  BY <1>2, <1>4, <1>5, <1>6 DEF ConsoleInv

LEMMA ConsoleNext ==
  ASSUME Console!LoginAssumption, ConsoleInv, [Console!Next]_(Console!vars)
  PROVE  ConsoleInv'
<1> USE DEF Console!Goes, Console!Asks, Console!Forgets
<1>0. Engaged /\ Accounts /\ Typed /\ (~overlapped => OwnPlaces) /\ Console!TypeOK
  BY DEF ConsoleInv, Engaged
<1>t. "login" \in Threads /\ "manager" \in Threads
  OBVIOUS
<1>1. ASSUME NEW t \in Threads, Console!Look(t)
      PROVE  ConsoleInv'
  <2> DEFINE found == Console!FoundAt(asked[t])
             first == CHOOSE i \in found : \A j \in found : i <= j
  <2>1. found # {} => first \in found
    BY FirstPlace DEF Console!FoundAt
  <2>2. found \subseteq Slots /\ \A i \in found : g_principals[i].name = asked[t]
    BY DEF Console!FoundAt
  <2>3. \/ /\ found # {} /\ g_principals[first].principal # "nobody"
           /\ principal' = [principal EXCEPT ![t] = g_principals[first].principal]
           /\ where' = [where EXCEPT ![t] = "have"]
        \/ principal' = principal /\ where' = [where EXCEPT ![t] = "create"]
    BY <1>1 DEF Console!Look
  <2> HIDE DEF found, first
  <2>4. principal' \in [Threads -> Users \cup {"nobody"}]
    BY <1>0, <2>1, <2>2, <2>3 DEF Console!TypeOK
  <2>5. where[t] = "look" /\ UNCHANGED <<accounts, store, allow, g_principals, asked, slot, users, typed>>
        /\ UNCHANGED <<spare, booted, overlapped, wrong>>
    BY <1>1 DEF Console!Look, Console!worldVars, Console!cacheVars
  <2>6. Engaged'
    BY <1>0, <2>3, <2>4, <2>5 DEF Engaged, Console!TypeOK
  <2>7. Accounts'
    BY <1>0, <2>3, <2>5 DEF Accounts, Console!FirstBoot, Console!TypeOK, Engaged
  <2>8. Typed'
    BY <1>0, <2>3, <2>5 DEF Typed, Told, Console!TypeOK
  <2>9. ASSUME ~overlapped PROVE OwnPlaces'
    BY <1>0, <2>1, <2>2, <2>3, <2>5, <2>9 DEF OwnPlaces, Console!TypeOK
  <2> QED
    BY <2>5, <2>6, <2>7, <2>8, <2>9 DEF ConsoleInv
<1>2. ASSUME NEW t \in Threads, Console!Create(t)
      PROVE  ConsoleInv'
  <2>1. /\ where[t] = "create" /\ UNCHANGED <<store, allow, g_principals, asked, slot, users, typed>>
        /\ UNCHANGED <<spare, booted, overlapped, wrong>>
    BY <1>2 DEF Console!Create, Console!cacheVars
  <2>2. \/ principal' = [principal EXCEPT ![t] = asked[t]] /\ where' = [where EXCEPT ![t] = "choose"]
        \/ principal' = [principal EXCEPT ![t] = "nobody"] /\ where' = [where EXCEPT ![t] = "have"]
    BY <1>2 DEF Console!Create
  <2>3. accounts' = accounts \/ (allow /\ accounts' = [accounts EXCEPT ![Root] = "plain"])
    BY <1>2 DEF Console!Create, Console!MayCreate
  <2>4. Engaged'
    BY <1>0, <2>1, <2>2 DEF Engaged, Console!TypeOK
  <2>5. Accounts'
    BY <1>0, <2>1, <2>2, <2>3 DEF Accounts, Console!FirstBoot, Console!TypeOK, Engaged, Stored
  <2>6. Typed'
    BY <1>0, <2>1, <2>2 DEF Typed, Told, Console!TypeOK
  <2>7. ASSUME ~overlapped PROVE OwnPlaces'
    BY <1>0, <2>1, <2>2, <2>7 DEF OwnPlaces, Console!TypeOK
  <2> QED
    BY <2>1, <2>4, <2>5, <2>6, <2>7 DEF ConsoleInv
<1>3. ASSUME NEW t \in Threads, Console!Choose(t)
      PROVE  ConsoleInv'
  <2> DEFINE free == {i \in Slots : ~g_principals[i].in_use}
             first == CHOOSE i \in free : \A j \in free : i <= j
  <2>1. free # {} => first \in free
    BY FirstPlace
  <2>2. free \subseteq Slots /\ \A i \in free : ~g_principals[i].in_use
    OBVIOUS
  <2>3. \/ where' = [where EXCEPT ![t] = "have"] /\ slot' = slot
        \/ /\ first \in free
           /\ where' = [where EXCEPT ![t] = "mark"] /\ slot' = [slot EXCEPT ![t] = first]
    BY <1>3, <2>1 DEF Console!Choose
  <2> HIDE DEF free, first
  <2>4. /\ where[t] = "choose" /\ UNCHANGED <<accounts, store, allow, g_principals, asked, users, typed>>
        /\ UNCHANGED <<spare, booted, principal, wrong>>
        /\ overlapped' = (overlapped \/ \E o \in Threads \ {t} : slot[o] # 0 /\ slot[o] = slot'[t])
    BY <1>3 DEF Console!Choose, Console!worldVars
  <2>5. \A i \in Slots : i # 0
    BY DEF Console!LoginAssumption
  <2>6. overlapped' \in BOOLEAN /\ slot' \in [Threads -> Slots \cup {0}]
    BY <1>0, <2>2, <2>3, <2>4 DEF Console!TypeOK
  <2>7. Engaged'
    BY <1>0, <2>2, <2>3, <2>4, <2>5, <2>6 DEF Engaged, Console!TypeOK
  <2>8. Accounts'
    BY <1>0, <2>3, <2>4 DEF Accounts, Console!FirstBoot, Console!TypeOK, Engaged
  <2>9. Typed'
    BY <1>0, <2>3, <2>4 DEF Typed, Told, Console!TypeOK
  <2>10. ASSUME ~overlapped' PROVE OwnPlaces'
    <3>1. ~overlapped /\ \A o \in Threads \ {t} : slot[o] = 0 \/ slot[o] # slot'[t]
      BY <2>4, <2>10
    <3>2. slot'["login"] # 0 => slot'["login"] # slot'["manager"]
      BY <1>0, <2>2, <2>3, <2>5, <3>1 DEF OwnPlaces, Console!TypeOK
    <3> QED
      BY <1>0, <2>2, <2>3, <2>4, <3>1, <3>2 DEF OwnPlaces, Console!TypeOK
  <2> QED
    BY <2>7, <2>8, <2>9, <2>10 DEF ConsoleInv
<1>4. ASSUME NEW t \in Threads, Console!Mark(t) \/ Console!Name(t) \/ Console!Keep(t)
      PROVE  ConsoleInv'
  <2>1. /\ where[t] \in Filling /\ UNCHANGED <<accounts, store, allow, asked, users, typed, principal>>
        /\ UNCHANGED <<spare, booted, overlapped, wrong>>
    BY <1>4 DEF Console!Mark, Console!Name, Console!Keep, Console!Fill, Console!worldVars
  <2>2. slot[t] \in Slots /\ asked[t] \in Users
    BY <1>0, <2>1 DEF Engaged, Console!TypeOK
  <2> DEFINE old == g_principals[slot[t]]
  <2>3. old \in Entry
    BY <1>0, <2>2 DEF Console!TypeOK, Entry
  <2>4. /\ \A b \in BOOLEAN : [old EXCEPT !.in_use = b] \in Entry
        /\ \A u \in Users \cup {"nobody"} : [old EXCEPT !.name = u] \in Entry
        /\ \A u \in Users \cup {"nobody"} : [old EXCEPT !.principal = u] \in Entry
    BY <2>3 DEF Entry
  <2>5. PICK new \in Entry :
          /\ g_principals' = [g_principals EXCEPT ![slot[t]] = new]
          /\ \/ /\ where[t] = "mark" /\ where' = [where EXCEPT ![t] = "name"] /\ slot' = slot
                /\ new = [old EXCEPT !.in_use = TRUE]
             \/ /\ where[t] = "name" /\ where' = [where EXCEPT ![t] = "keep"] /\ slot' = slot
                /\ new = [old EXCEPT !.name = asked[t]]
             \/ /\ where[t] = "keep" /\ where' = [where EXCEPT ![t] = "have"]
                /\ slot' = [slot EXCEPT ![t] = 0]
                /\ new = [old EXCEPT !.principal = principal[t]]
    <3>1. principal[t] \in Users \cup {"nobody"}
      BY <1>0 DEF Console!TypeOK
    <3>2. CASE Console!Mark(t)
      BY <2>4, <3>2 DEF Console!Mark, Console!Fill
    <3>3. CASE Console!Name(t)
      BY <2>2, <2>4, <3>3 DEF Console!Name, Console!Fill
    <3>4. CASE Console!Keep(t)
      BY <2>4, <3>1, <3>4 DEF Console!Keep, Console!Fill
    <3> QED
      BY <1>4, <3>2, <3>3, <3>4
  <2>6. \/ where[t] = "mark" /\ new.name = old.name /\ new.principal = old.principal /\ new.in_use
        \/ where[t] = "name" /\ new.name = asked[t] /\ new.principal = old.principal /\ new.in_use = old.in_use
        \/ where[t] = "keep" /\ new.name = old.name /\ new.principal = principal[t] /\ new.in_use = old.in_use
    BY <2>3, <2>5 DEF Entry
  <2>7. g_principals' \in [Slots -> Entry] /\ slot' \in [Threads -> Slots \cup {0}]
    BY <1>0, <2>2, <2>5 DEF Console!TypeOK, Entry
  <2>8. Engaged'
    BY <1>0, <2>1, <2>2, <2>5, <2>7 DEF Engaged, Console!TypeOK, Entry
  <2>9. Accounts'
    BY <1>0, <2>1, <2>5 DEF Accounts, Console!FirstBoot, Console!TypeOK, Engaged
  <2>10. Typed'
    BY <1>0, <2>1, <2>5 DEF Typed, Told, Console!TypeOK
  <2>11. ASSUME ~overlapped PROVE OwnPlaces'
    <3>1. \A i \in Slots : g_principals'[i] = IF i = slot[t] THEN new ELSE g_principals[i]
      BY <1>0, <2>5 DEF Console!TypeOK
    <3>2. \A o \in Threads \ {t} : slot[o] = 0 \/ slot[o] # slot[t]
      BY <1>0, <2>1, <2>11 DEF OwnPlaces, Engaged
    <3>3. /\ old.principal = "nobody" /\ principal[t] = asked[t]
          /\ where[t] \in {"name", "keep"} => old.in_use
          /\ where[t] = "keep" => old.name = asked[t]
      BY <2>1, <2>11, <1>0 DEF OwnPlaces
    <3>4. /\ new.principal = "nobody" \/ new.name = new.principal
          /\ ~new.in_use => new.principal = "nobody"
      BY <2>6, <3>3
    <3>5. \A o \in Threads \ {t} : where'[o] = where[o] /\ slot'[o] = slot[o]
      BY <1>0, <2>5 DEF Console!TypeOK
    <3>6. \A o \in Threads \ {t} : where[o] \in Filling => g_principals'[slot[o]] = g_principals[slot[o]]
      BY <1>0, <3>1, <3>2 DEF Engaged, Console!TypeOK
    <3>7. slot'[t] = 0 \/ slot'[t] = slot[t]
      BY <1>0, <2>5 DEF Console!TypeOK
    <3>8. slot'["login"] # 0 => slot'["login"] # slot'["manager"]
      BY <2>11, <1>0, <3>2, <3>5, <3>7 DEF OwnPlaces
    <3>9. /\ where'[t] \in Filling =>
               /\ slot'[t] = slot[t] /\ new.principal = "nobody" /\ new.in_use
               /\ where'[t] = "keep" => new.name = asked[t]
          /\ where'[t] \in {"name", "keep", "have"}
      BY <1>0, <2>5, <2>6, <3>3 DEF Console!TypeOK
    <3>10. \A i \in Slots : /\ g_principals'[i].principal = "nobody" \/ g_principals'[i].name = g_principals'[i].principal
                            /\ ~g_principals'[i].in_use => g_principals'[i].principal = "nobody"
      BY <2>11, <1>0, <3>1, <3>4 DEF OwnPlaces
    <3>11. ASSUME NEW o \in Threads
           PROVE  /\ where'[o] \in Filling => g_principals'[slot'[o]].principal = "nobody"
                  /\ where'[o] \in {"name", "keep"} => g_principals'[slot'[o]].in_use
                  /\ where'[o] = "keep" => g_principals'[slot'[o]].name = asked'[o]
                  /\ where'[o] \in {"choose"} \cup Filling => principal'[o] = asked'[o]
                  /\ where'[o] = "have" => principal'[o] \in {"nobody", asked'[o]}
      <4>1. CASE o = t
        BY <2>1, <2>2, <3>1, <3>3, <3>9, <4>1
      <4>2. CASE o # t
        BY <2>11, <1>0, <2>1, <3>5, <3>6, <4>2 DEF OwnPlaces
      <4> QED
        BY <4>1, <4>2
    <3>12. "principal" \notin wrong' /\ "service" \notin wrong'
      BY <2>11, <1>0, <2>1 DEF OwnPlaces
    <3> HIDE DEF old
    <3> QED
      BY <3>8, <3>10, <3>11, <3>12 DEF OwnPlaces
  <2> QED
    BY <2>1, <2>8, <2>9, <2>10, <2>11 DEF ConsoleInv
<1>5. CASE Console!Boot
  <2>1. /\ where["login"] = "boot" /\ allow' = Console!ExplicitEmpty
        /\ where' = [where EXCEPT !["login"] = "look"] /\ asked' = [asked EXCEPT !["login"] = Root]
        /\ UNCHANGED <<accounts, store, booted, g_principals, slot, overlapped, principal, users>>
        /\ UNCHANGED <<typed, spare, wrong>>
    BY <1>5 DEF Console!Boot, Console!cacheVars
  <2>2. where["manager"] = "none" /\ Root \in Users
    BY <1>0, <2>1 DEF Engaged, Console!LoginAssumption
  <2>3. Engaged'
    BY <1>0, <2>1, <2>2 DEF Engaged, Console!TypeOK
  <2>4. Console!ExplicitEmpty \in BOOLEAN /\ (Console!ExplicitEmpty => Console!FirstBoot)
    BY <1>0, <2>1 DEF Accounts, Console!ExplicitEmpty, Console!FirstBoot
  <2>5. Console!FirstBoot' <=> Console!FirstBoot
    BY <2>1 DEF Console!FirstBoot, Console!Empty
  <2>6. Accounts'
    BY <1>0, <2>1, <2>4, <2>5 DEF Accounts, Console!TypeOK
  <2>7. Typed'
    BY <1>0, <2>1, <2>2 DEF Typed, Console!TypeOK
  <2>8. ASSUME ~overlapped PROVE OwnPlaces'
    BY <1>0, <2>1, <2>8 DEF OwnPlaces, Console!TypeOK
  <2> QED
    BY <2>1, <2>3, <2>6, <2>7, <2>8 DEF ConsoleInv
<1>6. CASE Console!Activate
  <2>1. /\ where["login"] = "have"
        /\ where' = [where EXCEPT !["login"] = "load", !["manager"] = "idle"]
        /\ principal' = [principal EXCEPT !["login"] = "nobody"]
        /\ asked' = [asked EXCEPT !["login"] = "nobody"]
        /\ UNCHANGED <<accounts, store, allow, booted, g_principals, slot, overlapped, users>>
        /\ UNCHANGED <<typed, spare, wrong>>
    BY <1>6 DEF Console!Activate, Console!worldVars, Console!cacheVars
  <2>2. where["manager"] = "none"
    BY <1>6 DEF Console!Activate
  <2>3. Engaged'
    BY <1>0, <2>1, <2>2 DEF Engaged, Console!TypeOK
  <2>4. Accounts'
    BY <1>0, <2>1 DEF Accounts, Console!FirstBoot, Console!TypeOK
  <2>5. Typed'
    BY <1>0, <2>1 DEF Typed, Console!TypeOK
  <2>6. ASSUME ~overlapped PROVE OwnPlaces'
    BY <1>0, <2>1, <2>2, <2>6 DEF OwnPlaces, Console!TypeOK
  <2> QED
    BY <2>1, <2>3, <2>4, <2>5, <2>6 DEF ConsoleInv
<1>7. ASSUME NEW u \in Users, Console!StartService(u)
      PROVE  ConsoleInv'
  <2>1. /\ where["manager"] = "idle"
        /\ where' = [where EXCEPT !["manager"] = "look"] /\ asked' = [asked EXCEPT !["manager"] = u]
        /\ UNCHANGED <<accounts, store, allow, booted, g_principals, slot, overlapped, users>>
        /\ UNCHANGED <<typed, principal, wrong>>
    BY <1>7 DEF Console!StartService, Console!worldVars, Console!cacheVars
  <2>2. spare' = [spare EXCEPT !.starts = @ - 1]
    BY <1>7 DEF Console!StartService
  <2>3. Engaged'
    BY <1>0, <2>1 DEF Engaged, Console!TypeOK
  <2>4. spare'.changes = spare.changes /\ spare' \in Allowances
    BY <1>0, <2>2 DEF Accounts, Allowances
  <2>5. Accounts'
    BY <1>0, <2>1, <2>4 DEF Accounts, Console!FirstBoot, Console!TypeOK
  <2>6. Typed'
    BY <1>0, <2>1 DEF Typed, Told, Console!TypeOK
  <2>7. ASSUME ~overlapped PROVE OwnPlaces'
    BY <1>0, <2>1, <2>7 DEF OwnPlaces, Console!TypeOK
  <2> QED
    BY <2>1, <2>3, <2>5, <2>6, <2>7 DEF ConsoleInv
<1>8. CASE Console!RunService
  <2>1. /\ where["manager"] = "have" /\ where' = [where EXCEPT !["manager"] = "idle"]
        /\ principal' = [principal EXCEPT !["manager"] = "nobody"]
        /\ asked' = [asked EXCEPT !["manager"] = "nobody"]
        /\ UNCHANGED <<accounts, store, allow, booted, g_principals, slot, overlapped, users>>
        /\ UNCHANGED <<typed, spare>>
        /\ wrong' = wrong \cup {x \in {"service"} : principal["manager"] \notin {"nobody", asked["manager"]}}
    BY <1>8 DEF Console!RunService, Console!worldVars, Console!cacheVars
  <2>2. Engaged'
    BY <1>0, <2>1 DEF Engaged, Console!TypeOK
  <2>3. Accounts'
    BY <1>0, <2>1 DEF Accounts, Console!FirstBoot, Console!TypeOK
  <2>4. Typed'
    BY <1>0, <2>1 DEF Typed, Told, Console!TypeOK
  <2>5. ASSUME ~overlapped PROVE OwnPlaces'
    BY <1>0, <2>1, <2>5 DEF OwnPlaces, Console!TypeOK
  <2> QED
    BY <2>1, <2>2, <2>3, <2>4, <2>5 DEF ConsoleInv
<1>9. CASE Console!Load
  <2>1. /\ where["login"] = "load" /\ users' = Console!Loaded
        /\ where' = [where EXCEPT !["login"] = "prompt"]
        /\ UNCHANGED <<accounts, store, allow, booted, g_principals, slot, overlapped, asked>>
        /\ UNCHANGED <<principal, typed, spare, wrong>>
    BY <1>9 DEF Console!Load, Console!worldVars, Console!cacheVars
  <2>2. users' \in [Users -> Stored]
    BY <1>0, <2>1 DEF Accounts, Console!Loaded, Console!Empty, Stored
  <2>3. Engaged'
    BY <1>0, <2>1 DEF Engaged, Console!TypeOK
  <2>4. Accounts'
    BY <1>0, <2>1, <2>2 DEF Accounts, Console!FirstBoot, Console!TypeOK
  <2>5. Typed'
    BY <1>0, <2>1 DEF Typed, Console!TypeOK
  <2>6. ASSUME ~overlapped PROVE OwnPlaces'
    BY <1>0, <2>1, <2>6 DEF OwnPlaces, Console!TypeOK
  <2> QED
    BY <2>1, <2>3, <2>4, <2>5, <2>6 DEF ConsoleInv
<1>10. ASSUME NEW n \in Users \cup {"nobody"}, Console!TypeName(n)
       PROVE  ConsoleInv'
  <2>1. /\ where["login"] = "prompt" /\ spare' = [spare EXCEPT !.logins = @ - 1]
        /\ UNCHANGED <<accounts, store, allow, booted, g_principals, slot, overlapped, users>>
        /\ UNCHANGED <<principal, wrong>>
    BY <1>10 DEF Console!TypeName, Console!Again, Console!worldVars, Console!cacheVars
  <2>2. \/ where' = [where EXCEPT !["login"] = "load"] /\ typed' = <<"nobody", "nobody">> /\ asked' = asked
        \/ /\ n \in Users /\ users[n] \in {"p", "q"}
           /\ where' = [where EXCEPT !["login"] = "password"] /\ typed' = <<n, "nobody">> /\ asked' = asked
        \/ /\ n = Root /\ users[n] = "plain" /\ allow
           /\ where' = [where EXCEPT !["login"] = "look"] /\ asked' = [asked EXCEPT !["login"] = n]
           /\ typed' = <<n, "nobody">>
    BY <1>10 DEF Console!TypeName, Console!Again, Console!AskedForPassword, Console!LetIn
  <2>3. spare'.changes = spare.changes /\ spare' \in Allowances /\ Root \in Users
    BY <1>0, <2>1 DEF Console!LoginAssumption, Accounts, Allowances
  <2>4. Engaged'
    BY <1>0, <2>1, <2>2, <2>3 DEF Engaged, Console!TypeOK
  <2>5. Accounts'
    BY <1>0, <2>1, <2>2, <2>3 DEF Accounts, Console!FirstBoot, Console!TypeOK
  <2>6. Typed'
    BY <1>0, <2>1, <2>2, <2>3 DEF Typed, Told, Engaged, Console!TypeOK
  <2>7. ASSUME ~overlapped PROVE OwnPlaces'
    <3>1. /\ where'["login"] \in {"load", "password", "look"} /\ where'["manager"] = where["manager"]
          /\ asked'["manager"] = asked["manager"]
      BY <1>0, <2>2 DEF Engaged, Console!TypeOK
    <3> QED
      BY <1>0, <2>1, <2>7, <3>1 DEF OwnPlaces
  <2> QED
    BY <2>1, <2>4, <2>5, <2>6, <2>7 DEF ConsoleInv
<1>11. ASSUME NEW s \in {"p", "q"}, Console!TypePassword(s)
       PROVE  ConsoleInv'
  <2>1. /\ where["login"] = "password"
        /\ UNCHANGED <<accounts, store, allow, booted, g_principals, slot, overlapped, users>>
        /\ UNCHANGED <<principal, spare, wrong>>
    BY <1>11 DEF Console!TypePassword, Console!Again, Console!worldVars, Console!cacheVars
  <2>2. \/ where' = [where EXCEPT !["login"] = "load"] /\ typed' = <<"nobody", "nobody">> /\ asked' = asked
        \/ /\ s = users[typed[1]] /\ where' = [where EXCEPT !["login"] = "look"]
           /\ asked' = [asked EXCEPT !["login"] = typed[1]] /\ typed' = [typed EXCEPT ![2] = s]
    BY <1>11 DEF Console!TypePassword, Console!Again
  <2>3. typed \in (Users \cup {"nobody"}) \X {"nobody", "p", "q"} /\ typed[1] \in Users
    BY <1>0, <2>1 DEF Typed
  <2>4. [typed EXCEPT ![2] = s] = <<typed[1], s>>
    BY <2>3
  <2>5. Engaged'
    BY <1>0, <2>1, <2>2, <2>3 DEF Engaged, Console!TypeOK
  <2>6. Accounts'
    BY <1>0, <2>1, <2>2 DEF Accounts, Console!FirstBoot, Console!TypeOK
  <2>7. Typed'
    <3>1. CASE typed' = <<"nobody", "nobody">> /\ where'["login"] = "load"
      BY <1>0, <2>1, <3>1 DEF Typed
    <3>2. CASE typed' = <<typed[1], s>> /\ where'["login"] = "look" /\ asked'["login"] = typed[1] /\ s = users[typed[1]]
      BY <1>0, <2>1, <2>3, <3>2 DEF Typed, Told
    <3> QED
      BY <1>0, <2>2, <2>4, <3>1, <3>2 DEF Engaged, Console!TypeOK
  <2>8. ASSUME ~overlapped PROVE OwnPlaces'
    <3>1. /\ where'["login"] \in {"load", "look"} /\ where'["manager"] = where["manager"]
          /\ asked'["manager"] = asked["manager"]
      BY <1>0, <2>2 DEF Engaged, Console!TypeOK
    <3> QED
      BY <1>0, <2>1, <2>8, <3>1 DEF OwnPlaces
  <2> QED
    BY <2>1, <2>5, <2>6, <2>7, <2>8 DEF ConsoleInv
<1>12. CASE Console!RunShell
  <2>1. /\ where["login"] = "have" /\ where["manager"] # "none"
        /\ where' = [where EXCEPT !["login"] = "load"]
        /\ principal' = [principal EXCEPT !["login"] = "nobody"]
        /\ asked' = [asked EXCEPT !["login"] = "nobody"]
        /\ typed' = <<"nobody", "nobody">>
        /\ UNCHANGED <<accounts, store, allow, booted, g_principals, slot, overlapped, users, spare>>
    BY <1>12 DEF Console!RunShell, Console!worldVars, Console!cacheVars
  <2>2. \A x \in wrong' :
          \/ x \in wrong
          \/ x = "principal" /\ principal["login"] \notin {"nobody", typed[1]}
          \/ /\ x = "password"
             /\ IF users[typed[1]] = "plain" THEN ~Console!FirstBoot ELSE typed[2] # users[typed[1]]
    BY <1>12 DEF Console!RunShell
  <2>3. asked["login"] = typed[1] /\ Told /\ (allow => Console!FirstBoot)
    BY <1>0, <2>1 DEF Typed, Accounts
  <2>4. "password" \notin wrong' /\ ("service" \notin wrong => "service" \notin wrong')
    BY <1>0, <2>2, <2>3 DEF Typed, Told
  <2>5. Engaged'
    BY <1>0, <2>1 DEF Engaged, Console!TypeOK
  <2>6. Accounts'
    BY <1>0, <2>1 DEF Accounts, Console!FirstBoot, Console!TypeOK
  <2>7. Typed'
    BY <1>0, <2>1, <2>4 DEF Typed, Console!TypeOK
  <2>8. ASSUME ~overlapped PROVE OwnPlaces'
    <3>1. "principal" \notin wrong' /\ "service" \notin wrong'
      BY <1>0, <2>1, <2>2, <2>3, <2>4, <2>8 DEF OwnPlaces
    <3> QED
      BY <1>0, <2>1, <2>8, <3>1 DEF OwnPlaces, Console!TypeOK
  <2> QED
    BY <2>1, <2>5, <2>6, <2>7, <2>8 DEF ConsoleInv
<1>13. ASSUME NEW u \in Users, NEW secret \in {"plain", "p", "q"}, Console!Change(u, secret)
       PROVE  ConsoleInv'
  <2>1. /\ where["manager"] # "none" /\ spare.changes > 0
        /\ accounts' = [accounts EXCEPT ![u] = secret]
        /\ UNCHANGED <<allow, booted, g_principals, slot, overlapped, where, asked, principal>>
        /\ UNCHANGED <<users, typed, wrong>>
    BY <1>13 DEF Console!Change, Console!cacheVars
  <2>2. spare'.changes = spare.changes - 1 /\ spare' \in Allowances /\ spare.changes \in Int
    BY <1>0, <1>13 DEF Console!Change, Accounts, Allowances
  <2>3. Engaged'
    BY <1>0, <2>1 DEF Engaged, Console!TypeOK
  <2>4. Accounts'
    <3>1. MaxChanges \in Nat
      BY DEF Console!LoginAssumption
    <3>2. accounts' \in [Users -> Stored]
      BY <1>0, <2>1 DEF Accounts, Stored
    <3>3. where'["login"] # "boot" /\ spare'.changes < MaxChanges
      BY <1>0, <2>1, <2>2, <3>1 DEF Accounts, Engaged
    <3> QED
      BY <1>0, <2>1, <2>2, <3>1, <3>2, <3>3 DEF Accounts, Console!FirstBoot
  <2>5. Typed'
    BY <1>0, <2>1 DEF Typed, Told
  <2>6. ASSUME ~overlapped PROVE OwnPlaces'
    BY <1>0, <2>1, <2>6 DEF OwnPlaces
  <2> QED
    BY <2>1, <2>3, <2>4, <2>5, <2>6 DEF ConsoleInv
<1>14. CASE UNCHANGED Console!vars
  <2>1. /\ UNCHANGED <<accounts, store, allow, booted, g_principals, slot, overlapped>>
        /\ UNCHANGED <<where, asked, principal, users, typed, spare, wrong>>
    BY <1>14 DEF Console!vars, Console!worldVars, Console!cacheVars
  <2>2. Engaged' /\ Accounts' /\ Typed'
    BY <1>0, <2>1 DEF Engaged, Console!TypeOK, Accounts, Console!FirstBoot, Typed, Told
  <2>3. ASSUME ~overlapped PROVE OwnPlaces'
    BY <1>0, <2>1, <2>3 DEF OwnPlaces
  <2> QED
    BY <2>1, <2>2, <2>3 DEF ConsoleInv
<1> QED
  BY <1>1, <1>2, <1>3, <1>4, <1>5, <1>6, <1>7, <1>8, <1>9, <1>10, <1>11, <1>12, <1>13, <1>14
  DEF Console!Next, Console!Ensure

\* A shell is for the password that its user had when the name was asked for,
\* or for root without one after a boot with an empty store; it and every service
\* run with the principal of their user, and no account is made up but on a
\* first boot: for any users, any places in the table and any interleaving of
\* the two threads of init, until both have filled one place
\* (init.cpp:196-280, 640-690, 1198-1209).
THEOREM SessionsAreJust ==
  ASSUME Console!LoginAssumption
  PROVE  Console!Spec => [](Console!SessionsJust /\ Console!EntriesWhole /\ Console!RootNotMadeUp)
<1>1. Console!Init => ConsoleInv
  BY ConsoleInit
<1>2. ConsoleInv /\ [Console!Next]_(Console!vars) => ConsoleInv'
  BY ConsoleNext
<1>3. ConsoleInv => Console!SessionsJust /\ Console!EntriesWhole /\ Console!RootNotMadeUp
  <2> SUFFICES ASSUME ConsoleInv
               PROVE  Console!SessionsJust /\ Console!EntriesWhole /\ Console!RootNotMadeUp
    OBVIOUS
  <2>1. Console!SessionsJust
    BY DEF ConsoleInv, Typed, OwnPlaces, Console!SessionsJust
  <2>2. Console!EntriesWhole
    BY DEF ConsoleInv, OwnPlaces, Console!EntriesWhole
  <2>3. Console!RootNotMadeUp
    BY DEF ConsoleInv, Accounts, Console!RootNotMadeUp
  <2> QED
    BY <2>1, <2>2, <2>3
<1> QED
  BY <1>1, <1>2, <1>3, PTL DEF Console!Spec
=============================================================================
