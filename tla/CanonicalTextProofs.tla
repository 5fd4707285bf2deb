------------------------ MODULE CanonicalTextProofs ------------------------
(***************************************************************************)
(* Proofs about CanonicalText: the two encoders write the same text.       *)
(***************************************************************************)
EXTENDS CanonicalText, TLAPS, SequenceTheorems, FiniteSetTheorems

-----------------------------------------------------------------------------
(* Induction, as the provers can use it: what fails for some number fails  *)
(* for a least one.                                                        *)
LEMMA Least ==
  ASSUME NEW B \in SUBSET Nat, B # {}
  PROVE  \E m \in B : \A n \in B : m <= n
<1>1. PICK m \in B : \A n \in B : ~(<<n, m>> \in OpToRel(<, Nat))
  BY NatLessThanWellFounded, WFMin
<1>2. ASSUME NEW n \in B PROVE ~(n < m)
  BY <1>1, <1>2 DEF OpToRel
<1> QED BY <1>2

(* A function on 0..n that is defined by recursion exists.                 *)
Recursive(n, T, base, step, f) ==
  /\ f \in [0..n -> T]
  /\ f[0] = base
  /\ \A i \in 1..n : f[i] = step[i][f[i - 1]]

LEMMA Recursion ==
  ASSUME NEW n \in Nat, NEW T, NEW base \in T, NEW step \in [1..n -> [T -> T]]
  PROVE  \E f : Recursive(n, T, base, step, f)
<1> DEFINE Good(m, f) == f[0] = base /\ \A i \in 1..m : f[i] = step[i][f[i - 1]]
           Bad == {m \in 0..n : ~ \E f \in [0..m -> T] : Good(m, f)}
<1>1. CASE Bad = {}
  <2>1. n \notin Bad
    BY <1>1
  <2>2. PICK f \in [0..n -> T] : Good(n, f)
    BY <2>1
  <2>3. Recursive(n, T, base, step, f)
    BY <2>2 DEF Recursive
  <2> QED BY <2>3
<1>2. CASE Bad # {}
  <2>1. PICK m \in Bad : \A k \in Bad : m <= k
    <3>1. Bad \in SUBSET Nat
      OBVIOUS
    <3> HIDE DEF Bad
    <3> QED BY <1>2, <3>1, Least
  <2>2. m # 0
    <3>1. [i \in 0..0 |-> base] \in [0..0 -> T] /\ Good(0, [i \in 0..0 |-> base])
      OBVIOUS
    <3> QED BY <2>1, <3>1
  <2>3. m \in 1..n /\ m - 1 \in 0..n /\ m - 1 \notin Bad
    <3>1. m \in 0..n
      OBVIOUS
    <3> HIDE DEF Bad
    <3> QED BY <2>1, <2>2, <3>1
  <2>4. PICK f \in [0..(m - 1) -> T] : Good(m - 1, f)
    BY <2>3
  <2> DEFINE g == [i \in 0..m |-> IF i = m THEN step[m][f[m - 1]] ELSE f[i]]
  <2>5. g \in [0..m -> T]
    BY <2>3, <2>4
  <2>6. Good(m, g)
    <3>1. g[0] = base
      BY <2>3, <2>4
    <3>2. ASSUME NEW i \in 1..m PROVE g[i] = step[i][g[i - 1]]
      <4>1. i - 1 \in 0..m /\ i - 1 # m /\ i \in 0..m
        BY <2>3
      <4>2. g[i - 1] = f[i - 1]
        BY <4>1
      <4>3. CASE i = m
        BY <4>1, <4>2, <4>3
      <4>4. CASE i # m
        <5>1. i \in 1..(m - 1)
          BY <2>3, <4>4
        <5>2. f[i] = step[i][f[i - 1]]
          BY <2>4, <5>1
        <5> QED BY <4>1, <4>2, <4>4, <5>2
      <4> QED BY <4>3, <4>4
    <3> QED BY <3>1, <3>2
  <2>7. m \notin Bad
    BY <2>5, <2>6
  <2> QED BY <2>1, <2>7
<1> QED BY <1>1, <1>2

-----------------------------------------------------------------------------
(* FlattenSeq puts sequences one behind the other.                         *)
Flattens(S, ss, f) ==
  /\ f \in [1..Len(ss) -> Seq(S)]
  /\ FlattenSeq(ss) = f[Len(ss)]
  /\ f[1] = ss[1]
  /\ \A i \in 2..Len(ss) : f[i] = f[i - 1] \o ss[i]

LEMMA FlattenSteps ==
  ASSUME NEW S, NEW ss \in Seq(Seq(S)), ss # <<>>
  PROVE  \E f : Flattens(S, ss, f)
<1> DEFINE n == Len(ss)
           body(f) == [i \in 1..n |-> IF i = 1 THEN ss[i] ELSE f[i - 1] \o ss[i]]
<1>1. n \in Nat /\ n # 0
  BY EmptySeq, LenProperties
<1>2. \E f : f = body(f) /\ f \in [1..n -> Seq(S)]
  <2> DEFINE T == Seq(S)
             base == <<>>
             Step(i, x) == IF i = 1 THEN ss[1] ELSE x \o ss[i]
             step == [i \in 1..n |-> [x \in T |-> Step(i, x)]]
  <2>1. ASSUME NEW i \in 1..n, NEW x \in T
        PROVE  Step(i, x) \in T
    <3>1. ss[i] \in Seq(S) /\ ss[1] \in Seq(S)
      BY <1>1, ElementOfSeq
    <3>2. x \o ss[i] \in Seq(S)
      BY <3>1, ConcatProperties
    <3> QED BY <3>1, <3>2
  <2>2. base \in T
    OBVIOUS
  <2> HIDE DEF T, Step
  <2>3. step \in [1..n -> [T -> T]]
    BY <2>1
  <2>4. \A i \in 1..n, x \in T : step[i][x] = Step(i, x)
    OBVIOUS
  <2> HIDE DEF step, n, base
  <2>a. n \in Nat
    BY <1>1
  <2>b. \E f : Recursive(n, T, base, step, f)
    BY ONLY <2>a, <2>2, <2>3, Recursion
  <2>5. PICK f \in [0..n -> T] :
           f[0] = base /\ \A i \in 1..n : f[i] = step[i][f[i - 1]]
    BY <2>b DEF Recursive
  <2>6. \A i \in 1..n : f[i] = Step(i, f[i - 1])
    <3> TAKE i \in 1..n
    <3>1. i - 1 \in 0..n
      BY <1>1
    <3> QED BY <2>4, <2>5, <3>1
  <2> DEFINE g == [i \in 1..n |-> f[i]]
  <2>7. ASSUME NEW i \in 1..n
        PROVE  g[i] = IF i = 1 THEN ss[i] ELSE g[i - 1] \o ss[i]
    <3>1. CASE i = 1
      BY <2>6, <3>1 DEF Step
    <3>2. CASE i # 1
      <4>1. i - 1 \in 1..n
        BY <1>1, <3>2
      <4> QED BY <2>6, <3>2, <4>1 DEF Step
    <3> QED BY <3>1, <3>2
  <2>8. g = [i \in 1..n |-> IF i = 1 THEN ss[i] ELSE g[i - 1] \o ss[i]]
    BY <2>7, Zenon
  <2>9. g \in [1..n -> Seq(S)]
    <3>1. \A i \in 1..n : i \in 0..n
      BY <1>1, SMTT(30)
    <3> QED BY <2>5, <3>1 DEF T
  <2> QED BY <2>8, <2>9 DEF n
<1> DEFINE flatten == CHOOSE f : f = body(f)
<1>3. flatten = body(flatten)
  BY <1>2
<1>4. FlattenSeq(ss) = flatten[n]
  BY <1>1 DEF FlattenSeq
<1> HIDE DEF flatten
<1>5. /\ flatten[1] = ss[1]
      /\ \A i \in 2..n : flatten[i] = flatten[i - 1] \o ss[i]
  <2> HIDE DEF n
  <2>1. \A i \in 1..n : flatten[i] = IF i = 1 THEN ss[i] ELSE flatten[i - 1] \o ss[i]
    BY <1>3 DEF body
  <2>2. 1 \in 1..n /\ \A i \in 2..n : i \in 1..n /\ i # 1
    BY <1>1
  <2> QED BY <2>1, <2>2
<1>6. \A i \in 1..n : flatten[i] \in Seq(S)
  <2> DEFINE Bad == {i \in 1..n : flatten[i] \notin Seq(S)}
  <2>1. CASE Bad # {}
    <3>1. PICK m \in Bad : \A k \in Bad : m <= k
      <4>1. Bad \in SUBSET Nat
        OBVIOUS
      <4> HIDE DEF Bad
      <4> QED BY <2>1, <4>1, Least
    <3>2. m \in 1..n /\ m # 1
      BY <1>1, <1>5, ElementOfSeq
    <3>3. m - 1 \in 1..n /\ m - 1 \notin Bad /\ m \in 2..n
      <4> HIDE DEF Bad
      <4> QED BY <1>1, <3>1, <3>2
    <3>4. flatten[m - 1] \in Seq(S) /\ ss[m] \in Seq(S)
      BY <3>2, <3>3, ElementOfSeq
    <3>5. flatten[m] = flatten[m - 1] \o ss[m]
      BY <1>5, <3>3
    <3>6. flatten[m] \in Seq(S)
      BY <3>4, <3>5, ConcatProperties
    <3> QED BY <3>1, <3>6
  <2> QED BY <2>1
<1>7. flatten \in [1..n -> Seq(S)]
  BY <1>3, <1>6
<1>8. Flattens(S, ss, flatten)
  BY <1>4, <1>5, <1>7 DEF Flattens
<1> QED BY <1>8

LEMMA FlattenTyped ==
  ASSUME NEW S, NEW ss \in Seq(Seq(S))
  PROVE  FlattenSeq(ss) \in Seq(S)
<1>1. CASE ss = <<>>
  BY <1>1 DEF FlattenSeq
<1>2. CASE ss # <<>>
  <2>1. PICK f : Flattens(S, ss, f)
    BY <1>2, FlattenSteps
  <2>2. Len(ss) \in 1..Len(ss)
    BY <1>2, EmptySeq, LenProperties
  <2> QED BY <2>1, <2>2 DEF Flattens
<1> QED BY <1>1, <1>2

LEMMA FlattenEmpty == FlattenSeq(<<>>) = <<>>
BY DEF FlattenSeq

(* What Append is, for sequences of sequences too.                         *)
LEMMA Appended ==
  ASSUME NEW T, NEW q \in Seq(T), NEW x \in T
  PROVE  /\ Append(q, x) \in Seq(T) /\ Append(q, x) # <<>>
         /\ Len(q) \in Nat /\ Len(Append(q, x)) = Len(q) + 1
         /\ DOMAIN q = 1..Len(q) /\ DOMAIN Append(q, x) = 1..(Len(q) + 1)
         /\ \A i \in 1..Len(q) : Append(q, x)[i] = q[i] /\ q[i] \in T
         /\ Append(q, x)[Len(q) + 1] = x
OBVIOUS

LEMMA FlattenAppend ==
  ASSUME NEW S, NEW ss \in Seq(Seq(S)), NEW x \in Seq(S)
  PROVE  FlattenSeq(Append(ss, x)) = FlattenSeq(ss) \o x
<1> DEFINE n == Len(ss)
           st == Append(ss, x)
           T == Seq(S)
<1>a. ss \in Seq(T) /\ x \in T
  OBVIOUS
<1> HIDE DEF T
<1>1. /\ n \in Nat /\ st \in Seq(T) /\ st # <<>> /\ Len(st) = n + 1
      /\ \A i \in 1..n : st[i] = ss[i]
      /\ st[n + 1] = x
  BY <1>a, Appended
<1> HIDE DEF st
<1>b. \E g : Flattens(S, st, g)
  BY <1>1, FlattenSteps DEF T
<1>c. PICK g : Flattens(S, st, g)
  BY <1>b
<1>2. /\ FlattenSeq(st) = g[Len(st)]
      /\ g[1] = st[1]
      /\ \A i \in 2..Len(st) : g[i] = g[i - 1] \o st[i]
  BY <1>c DEF Flattens
<1>3. CASE ss = <<>>
  <2>1. n = 0
    BY <1>3
  <2>2. FlattenSeq(st) = x
    BY <1>1, <1>2, <2>1
  <2>3. FlattenSeq(ss) \o x = x
    BY <1>3, FlattenEmpty
  <2> QED BY <2>2, <2>3 DEF st
<1>4. CASE ss # <<>>
  <2>a. PICK f : Flattens(S, ss, f)
    BY <1>4, FlattenSteps
  <2>1. /\ FlattenSeq(ss) = f[n]
        /\ f[1] = ss[1]
        /\ \A i \in 2..n : f[i] = f[i - 1] \o ss[i]
    BY <2>a DEF Flattens
  <2>b. n # 0
    BY <1>4, EmptySeq
  <2> HIDE DEF n
  <2>2. \A i \in 1..n : f[i] = g[i]
    <3> DEFINE Bad == {i \in 1..n : f[i] # g[i]}
    <3>1. CASE Bad # {}
      <4>1. PICK m \in Bad : \A k \in Bad : m <= k
        <5>1. Bad \in SUBSET Nat
          OBVIOUS
        <5> HIDE DEF Bad
        <5> QED BY <3>1, <5>1, Least
      <4>2. m \in 1..n
        OBVIOUS
      <4>3. m # 1
        BY <1>1, <1>2, <2>1, <2>b
      <4>4. m - 1 \in 1..n /\ m - 1 \notin Bad /\ m \in 2..n /\ m \in 2..(n + 1)
        <5> HIDE DEF Bad
        <5> QED BY <1>1, <4>1, <4>2, <4>3
      <4>5. f[m - 1] = g[m - 1]
        BY <4>4
      <4>6. f[m] = f[m - 1] \o ss[m] /\ g[m] = g[m - 1] \o st[m] /\ st[m] = ss[m]
        BY <1>1, <1>2, <2>1, <4>2, <4>4
      <4> QED BY <4>1, <4>5, <4>6
    <3> QED BY <3>1
  <2>3. n \in 1..n /\ n + 1 \in 2..Len(st)
    BY <1>1, <2>b
  <2>4. g[n + 1] = g[n] \o x
    <3>1. g[n + 1] = g[(n + 1) - 1] \o st[n + 1]
      BY <1>2, <2>3
    <3>2. (n + 1) - 1 = n
      BY <1>1
    <3> QED BY <1>1, <3>1, <3>2
  <2> QED BY <1>1, <1>2, <2>1, <2>2, <2>3, <2>4 DEF st
<1> QED BY <1>3, <1>4

(* What becomes of a sequence when each of its elements is replaced.       *)
Map(f, s) == [i \in DOMAIN s |-> f[s[i]]]
Spread(f, s) == FlattenSeq(Map(f, s))

LEMMA Mapped ==
  ASSUME NEW S, NEW T, NEW f \in [S -> T], NEW s \in Seq(S)
  PROVE  Map(f, s) \in Seq(T)
<1> DEFINE n == Len(s)
           m == Map(f, s)
<1>1. n \in Nat /\ DOMAIN s = 1..n /\ \A i \in 1..n : s[i] \in S
  OBVIOUS
<1>2. m \in [1..n -> T]
  BY <1>1 DEF Map
<1> HIDE DEF m, n
<1>3. m \in Seq(T)
  BY <1>1, <1>2
<1> QED BY <1>3 DEF m

LEMMA MapAt ==
  ASSUME NEW f, NEW S, NEW s \in Seq(S)
  PROVE  /\ Len(Map(f, s)) = Len(s)
         /\ \A i \in 1..Len(s) : Map(f, s)[i] = f[s[i]]
<1>1. DOMAIN Map(f, s) = 1..Len(s) /\ Len(s) \in Nat
  BY DEF Map
<1>2. Map(f, s) \in [1..Len(s) -> {f[s[i]] : i \in 1..Len(s)}]
  BY DEF Map
<1>3. Len(Map(f, s)) = Len(s)
  BY <1>1, <1>2
<1> QED BY <1>3 DEF Map

LEMMA MapAppend ==
  ASSUME NEW S, NEW T, NEW f \in [S -> T], NEW s \in Seq(S), NEW c \in S
  PROVE  Map(f, Append(s, c)) = Append(Map(f, s), f[c])
<1> DEFINE n == Len(s)
           a == Map(f, s)
           b == Map(f, Append(s, c))
           d == Append(a, f[c])
<1>1. /\ n \in Nat /\ Append(s, c) \in Seq(S) /\ Len(Append(s, c)) = n + 1
      /\ \A i \in 1..n : Append(s, c)[i] = s[i]
      /\ Append(s, c)[n + 1] = c
  BY Appended
<1>2. /\ Map(f, s) \in Seq(T) /\ Len(Map(f, s)) = Len(s)
      /\ \A i \in 1..Len(s) : Map(f, s)[i] = f[s[i]]
  BY Mapped, MapAt
<1> DEFINE sc == Append(s, c)
<1>3. b \in Seq(T) /\ Len(b) = n + 1 /\ \A i \in 1..(n + 1) : b[i] = f[sc[i]]
  <2>1. sc \in Seq(S) /\ Len(sc) = n + 1
    BY <1>1
  <2> HIDE DEF sc
  <2>2. /\ Map(f, sc) \in Seq(T) /\ Len(Map(f, sc)) = Len(sc)
        /\ \A i \in 1..Len(sc) : Map(f, sc)[i] = f[sc[i]]
    BY <2>1, Mapped, MapAt
  <2> QED BY <2>1, <2>2 DEF sc
<1>4. f[c] \in T
  OBVIOUS
<1> HIDE DEF a, b
<1>5. /\ d \in Seq(T) /\ Len(d) = n + 1
      /\ \A i \in 1..n : d[i] = a[i]
      /\ d[n + 1] = f[c]
  <2>1. a \in Seq(T) /\ Len(a) = n
    BY <1>2 DEF a
  <2>2. /\ Append(a, f[c]) \in Seq(T) /\ Len(Append(a, f[c])) = Len(a) + 1
        /\ \A i \in 1..Len(a) : Append(a, f[c])[i] = a[i]
        /\ Append(a, f[c])[Len(a) + 1] = f[c]
    <3> DEFINE x == f[c]
    <3>1. x \in T
      OBVIOUS
    <3> HIDE DEF x
    <3>2. /\ Append(a, x) \in Seq(T) /\ Len(Append(a, x)) = Len(a) + 1
          /\ \A i \in 1..Len(a) : Append(a, x)[i] = a[i]
          /\ Append(a, x)[Len(a) + 1] = x
      BY ONLY <2>1, <3>1, Appended
    <3> QED BY <3>2 DEF x
  <2> QED BY <2>1, <2>2 DEF d
<1> HIDE DEF d, n
<1>6. \A i \in 1..(n + 1) : b[i] = d[i]
  <2> TAKE i \in 1..(n + 1)
  <2>1. CASE i = n + 1
    BY <1>1, <1>3, <1>5, <2>1
  <2>2. CASE i # n + 1
    <3>1. i \in 1..n
      BY <1>1, <2>2
    <3>2. b[i] = f[sc[i]] /\ sc[i] = s[i]
      BY <1>1, <1>3, <3>1
    <3>3. d[i] = a[i] /\ a[i] = f[s[i]]
      BY <1>2, <1>5, <3>1 DEF a, n
    <3> QED BY <3>2, <3>3
  <2> QED BY <2>1, <2>2
<1>7. b = d
  BY <1>3, <1>5, <1>6, SeqEqual
<1> QED BY <1>7 DEF a, b, d

LEMMA SpreadTyped ==
  ASSUME NEW S, NEW T, NEW f \in [S -> Seq(T)], NEW s \in Seq(S)
  PROVE  Spread(f, s) \in Seq(T)
<1>1. Map(f, s) \in Seq(Seq(T))
  BY Mapped
<1> QED BY <1>1, FlattenTyped DEF Spread

LEMMA SpreadEmpty == \A f : Spread(f, <<>>) = <<>>
<1>1. ASSUME NEW f PROVE Map(f, <<>>) = <<>>
  BY DEF Map
<1> QED BY <1>1, FlattenEmpty DEF Spread

LEMMA SpreadAppend ==
  ASSUME NEW S, NEW T, NEW f \in [S -> Seq(T)], NEW s \in Seq(S), NEW c \in S
  PROVE  Spread(f, Append(s, c)) = Spread(f, s) \o f[c]
<1>1. Map(f, Append(s, c)) = Append(Map(f, s), f[c])
  BY MapAppend
<1>2. Map(f, s) \in Seq(Seq(T)) /\ f[c] \in Seq(T)
  BY Mapped
<1> QED BY <1>1, <1>2, FlattenAppend DEF Spread

(* Induction over sequences: a set with the empty one, and with every      *)
(* extension of its members, is the set of all.                            *)
LEMMA Growing ==
  ASSUME NEW S, NEW G, <<>> \in G,
         \A s \in Seq(S), c \in S : s \in G => Append(s, c) \in G
  PROVE  \A s \in Seq(S) : s \in G
<1> DEFINE Bad == {n \in Nat : \E s \in Seq(S) : Len(s) = n /\ s \notin G}
<1>1. ASSUME NEW t \in Seq(S), t \notin G PROVE FALSE
  <2>1. Bad # {}
    BY <1>1, LenProperties
  <2>2. PICK m \in Bad : \A n \in Bad : m <= n
    <3>1. Bad \in SUBSET Nat
      OBVIOUS
    <3> HIDE DEF Bad
    <3> QED BY <2>1, <3>1, Least
  <2>3. PICK s \in Seq(S) : Len(s) = m /\ s \notin G
    OBVIOUS
  <2>4. s # <<>>
    BY <2>3
  <2>5. PICK r \in Seq(S), c \in S : s = Append(r, c)
    BY <2>3, <2>4, SequenceEmptyOrAppend
  <2>6. Len(r) \in Nat /\ Len(s) = Len(r) + 1
    BY <2>5
  <2>7. r \in G
    <3>1. Len(r) \notin Bad
      <4>1. m \in Nat /\ ~(m <= Len(r))
        BY <2>3, <2>6
      <4> HIDE DEF Bad
      <4> QED BY <2>2, <4>1
    <3> QED BY <2>6, <3>1
  <2> QED BY <2>3, <2>5, <2>7
<1> QED BY <1>1

-----------------------------------------------------------------------------
(* Code points and UTF-16 units.                                           *)
LEMMA Planes ==
  /\ Plane \in Nat /\ High \in Nat /\ Low \in Nat
  /\ Low = High + 1024 /\ Low + 1024 <= Plane /\ 16 * Plane = 1024 * 1024
  /\ 200 < High
BY SMT DEF Plane, High, Low

LEMMA Halves ==
  ASSUME NEW d \in Nat, d < 1024 * 1024
  PROVE  /\ d \div 1024 \in 0..1023 /\ d % 1024 \in 0..1023
         /\ d = (d \div 1024) * 1024 + (d % 1024)
<1>1. d \div 1024 \in 0..1023 /\ d % 1024 \in 0..1023
  BY SMT
<1>2. d % 1024 = d - 1024 * (d \div 1024)
  BY SMT
<1> DEFINE q == d \div 1024
           r == d % 1024
<1>3. q \in Int /\ r \in Int /\ r = d - 1024 * q
  BY <1>1, <1>2
<1> HIDE DEF q, r
<1>4. d = q * 1024 + r
  BY <1>3
<1> QED BY <1>1, <1>4 DEF q, r

Piece(u, i) ==
  IF i > 1 /\ IsHigh(u[i - 1]) THEN <<>>
  ELSE IF IsHigh(u[i]) THEN <<Pair(u[i], u[i + 1])>>
  ELSE <<u[i]>>
Pieces(u) == [i \in DOMAIN u |-> Piece(u, i)]

Unit == {n \in Nat : n < Plane}
utf16 == [c \in Rune |-> Utf16(c)]

LEMMA CodePointsPieces == \A u : CodePoints(u) = FlattenSeq(Pieces(u))
BY DEF CodePoints, Pieces, Piece

LEMMA UnitsSpread == \A s \in Text : Units(s) = Spread(utf16, s)
<1> TAKE s \in Text
<1>1. \A i \in DOMAIN s : s[i] \in Rune
  BY DEF Text
<1>2. [i \in DOMAIN s |-> Utf16(s[i])] = Map(utf16, s)
  BY <1>1 DEF Map, utf16
<1> QED BY <1>2 DEF Units, Spread

LEMMA Utf16Is ==
  ASSUME NEW c \in Rune
  PROVE  \/ c \in Unit /\ ~IsHigh(c) /\ Utf16(c) = <<c>>
         \/ \E h \in Unit, l \in Unit :
              Utf16(c) = <<h, l>> /\ IsHigh(h) /\ ~IsHigh(l) /\ Pair(h, l) = c
<1>1. CASE c < Plane
  <2>1. c \in Unit /\ ~IsHigh(c)
    BY <1>1, Planes DEF Rune, Unit, IsHigh
  <2>2. Utf16(c) = <<c>>
    BY <1>1 DEF Utf16
  <2> QED BY <2>1, <2>2
<1>2. CASE ~(c < Plane)
  <2> DEFINE d == c - Plane
             q == d \div 1024
             r == d % 1024
             h == High + q
             l == Low + r
  <2>1. d \in Nat /\ d < 1024 * 1024 /\ c = Plane + d
    BY <1>2, Planes DEF Rune
  <2>2. Utf16(c) = <<h, l>>
    <3>1. Utf16(c) = <<High + (c - Plane) \div 1024, Low + ((c - Plane) % 1024)>>
      BY <1>2 DEF Utf16
    <3> QED BY <3>1
  <2> HIDE DEF d
  <2>3. q \in 0..1023 /\ r \in 0..1023 /\ d = q * 1024 + r
    BY <2>1, Halves
  <2> HIDE DEF q, r
  <2>4. h \in Unit /\ l \in Unit
    BY <2>3, Planes DEF Unit
  <2>5. IsHigh(h) /\ ~IsHigh(l)
    BY <2>3, Planes DEF IsHigh
  <2>6. Pair(h, l) = c
    <3>1. h - High = q /\ l - Low = r
      BY <2>3, Planes
    <3> HIDE DEF h, l
    <3> QED BY <2>1, <2>3, <3>1, Planes DEF Pair
  <2> HIDE DEF h, l
  <2> QED BY <2>2, <2>4, <2>5, <2>6
<1> QED BY <1>1, <1>2

(* A sequence of units that ends with a whole code point.                  *)
Whole(u) ==
  /\ u \in Seq(Unit)
  /\ \A i \in 1..Len(u) : IsHigh(u[i]) => i < Len(u)

LEMMA PiecesTyped ==
  ASSUME NEW u, Whole(u)
  PROVE  Pieces(u) \in Seq(Seq(Int)) /\ Len(Pieces(u)) = Len(u)
<1> DEFINE n == Len(u)
<1>1. n \in Nat /\ DOMAIN u = 1..n /\ \A i \in 1..n : u[i] \in Int
  BY DEF Whole, Unit
<1>2. ASSUME NEW i \in 1..n PROVE Piece(u, i) \in Seq(Int)
  <2>1. CASE IsHigh(u[i])
    <3>1. i + 1 \in 1..n
      BY <1>1, <2>1 DEF Whole
    <3>2. u[i] \in Int /\ u[i + 1] \in Int
      BY <1>1, <3>1
    <3>3. Pair(u[i], u[i + 1]) \in Int
      BY <3>2, Planes, SMTT(30) DEF Pair
    <3> QED BY <2>1, <3>3 DEF Piece
  <2>2. CASE ~IsHigh(u[i])
    BY <1>1, <2>2 DEF Piece
  <2> QED BY <2>1, <2>2
<1> DEFINE T == Seq(Int)
           p == Pieces(u)
<1>3. p \in [1..n -> T]
  BY <1>1, <1>2 DEF Pieces
<1> HIDE DEF n, T, p
<1>4. p \in Seq(T) /\ Len(p) = n
  BY <1>1, <1>3
<1> QED BY <1>4 DEF n, T, p

LEMMA PieceKept ==
  ASSUME NEW u, Whole(u), NEW v, NEW i \in 1..Len(u),
         \A j \in 1..Len(u) : v[j] = u[j]
  PROVE  Piece(v, i) = Piece(u, i)
<1> DEFINE n == Len(u)
<1>1. n \in Nat
  BY DEF Whole
<1>2. v[i] = u[i]
  OBVIOUS
<1>3. i > 1 => v[i - 1] = u[i - 1]
  <2>1. i > 1 => i - 1 \in 1..n
    BY <1>1
  <2> QED BY <2>1
<1>4. IsHigh(u[i]) => v[i + 1] = u[i + 1]
  <2>1. IsHigh(u[i]) => i + 1 \in 1..n
    BY <1>1 DEF Whole
  <2> QED BY <2>1
<1> QED BY <1>2, <1>3, <1>4 DEF Piece

LEMMA WholeEnd ==
  ASSUME NEW u, Whole(u), NEW v, \A j \in 1..Len(u) : v[j] = u[j]
  PROVE  ~(Len(u) + 1 > 1 /\ IsHigh(v[(Len(u) + 1) - 1]))
<1>1. Len(u) \in Nat /\ (Len(u) + 1) - 1 = Len(u)
  BY DEF Whole
<1>2. ASSUME Len(u) + 1 > 1 PROVE ~IsHigh(v[Len(u)])
  <2>1. Len(u) \in 1..Len(u)
    BY <1>1, <1>2
  <2> QED BY <1>1, <2>1 DEF Whole
<1> QED BY <1>1, <1>2

LEMMA PiecesPrefix ==
  ASSUME NEW u, Whole(u), NEW v \in Seq(Unit), Len(v) = Len(u) + 1,
         \A j \in 1..Len(u) : v[j] = u[j], Pieces(v) \in Seq(Seq(Int)),
         Len(Pieces(v)) = Len(u) + 1
  PROVE  Pieces(v) = Append(Pieces(u), Piece(v, Len(u) + 1))
<1> DEFINE n == Len(u)
           T == Seq(Int)
           p == Pieces(u)
           x == Piece(v, n + 1)
           q == Append(p, x)
<1>1. n \in Nat /\ DOMAIN u = 1..n /\ DOMAIN v = 1..(n + 1)
  BY DEF Whole
<1>2. p \in Seq(T) /\ Len(p) = n
  BY PiecesTyped
<1>3. \A i \in 1..n : p[i] = Piece(u, i)
  BY <1>1 DEF Pieces
<1>4. \A i \in 1..(n + 1) : Pieces(v)[i] = Piece(v, i)
  BY <1>1 DEF Pieces
<1>5. x \in T
  <2>1. n + 1 \in 1..(n + 1) /\ x = Pieces(v)[n + 1]
    BY <1>1, <1>4
  <2>2. \A i \in 1..Len(Pieces(v)) : Pieces(v)[i] \in T
    BY ElementOfSeq
  <2> QED BY <2>1, <2>2
<1> HIDE DEF T, p, x
<1>6. q \in Seq(T) /\ Len(q) = n + 1 /\ q[n + 1] = x /\ \A i \in 1..n : q[i] = p[i]
  BY <1>2, <1>5, Appended
<1> HIDE DEF q
<1>7. \A i \in 1..(n + 1) : Pieces(v)[i] = q[i]
  <2> TAKE i \in 1..(n + 1)
  <2>1. CASE i = n + 1
    BY <1>4, <1>6, <2>1 DEF x
  <2>2. CASE i # n + 1
    <3>1. i \in 1..n
      BY <1>1, <2>2
    <3>2. Piece(v, i) = Piece(u, i)
      BY <3>1, PieceKept
    <3> QED BY <1>3, <1>4, <1>6, <3>1, <3>2
  <2> QED BY <2>1, <2>2
<1>8. Pieces(v) = q
  BY <1>6, <1>7, SeqEqual DEF T
<1> QED BY <1>8 DEF q, p, x

LEMMA OnePiece ==
  ASSUME NEW u, Whole(u), NEW c \in Unit, ~IsHigh(c)
  PROVE  /\ Whole(Append(u, c))
         /\ CodePoints(Append(u, c)) = Append(CodePoints(u), c)
<1> DEFINE n == Len(u)
           v == Append(u, c)
<1>1. /\ n \in Nat /\ v \in Seq(Unit) /\ Len(v) = n + 1 /\ v[n + 1] = c
      /\ DOMAIN v = 1..(n + 1) /\ \A j \in 1..n : v[j] = u[j]
  BY DEF Whole
<1> HIDE DEF v
<1>2. Whole(v)
  <2>1. ASSUME NEW i \in 1..Len(v), IsHigh(v[i]) PROVE i < Len(v)
    <3>1. i # n + 1
      BY <1>1, <2>1
    <3> QED BY <1>1, <3>1
  <2> QED BY <1>1, <2>1 DEF Whole
<1>3. Pieces(u) \in Seq(Seq(Int)) /\ Len(Pieces(u)) = n
  BY PiecesTyped
<1>4. Pieces(v) \in Seq(Seq(Int)) /\ Len(Pieces(v)) = n + 1
  BY <1>1, <1>2, PiecesTyped
<1>5. <<c>> \in Seq(Int)
  BY DEF Unit
<1>6. Piece(v, n + 1) = <<c>>
  BY <1>1, WholeEnd DEF Piece
<1>7. Pieces(v) = Append(Pieces(u), <<c>>)
  BY <1>1, <1>3, <1>4, <1>5, <1>6, PiecesPrefix
<1>8. CodePoints(v) = CodePoints(u) \o <<c>>
  BY <1>3, <1>5, <1>7, FlattenAppend, CodePointsPieces
<1>9. CodePoints(u) \in Seq(Int) /\ c \in Int
  BY <1>3, FlattenTyped, CodePointsPieces DEF Unit
<1>10. CodePoints(v) = Append(CodePoints(u), c)
  BY <1>8, <1>9
<1> QED BY <1>2, <1>10 DEF v

LEMMA TwoPieces ==
  ASSUME NEW u, Whole(u), NEW h \in Unit, NEW l \in Unit, IsHigh(h), ~IsHigh(l)
  PROVE  /\ Whole(u \o <<h, l>>)
         /\ CodePoints(u \o <<h, l>>) = Append(CodePoints(u), Pair(h, l))
<1> DEFINE n == Len(u)
           v == u \o <<h, l>>
           T == Seq(Int)
           x == <<Pair(h, l)>>
           p == Pieces(u)
           q == Append(Append(p, x), <<>>)
<1>1. /\ n \in Nat /\ v \in Seq(Unit) /\ Len(v) = n + 2
      /\ v[n + 1] = h /\ v[n + 2] = l
      /\ DOMAIN v = 1..(n + 2) /\ DOMAIN u = 1..n /\ \A j \in 1..n : v[j] = u[j]
  BY DEF Whole
<1> HIDE DEF v
<1>2. Whole(v)
  <2>1. ASSUME NEW i \in 1..Len(v), IsHigh(v[i]) PROVE i < Len(v)
    <3>1. i # n + 2
      BY <1>1, <2>1
    <3> QED BY <1>1, <3>1
  <2> QED BY <1>1, <2>1 DEF Whole
<1>3. p \in Seq(T) /\ Len(p) = n /\ Pieces(v) \in Seq(T) /\ Len(Pieces(v)) = n + 2
  BY <1>1, <1>2, PiecesTyped
<1>4. /\ \A i \in 1..n : p[i] = Piece(u, i)
      /\ \A i \in 1..(n + 2) : Pieces(v)[i] = Piece(v, i)
  BY <1>1 DEF Pieces
<1>5. Pair(h, l) \in Int /\ x \in T /\ <<>> \in T
  BY Planes DEF Unit, Pair
<1>6. Piece(v, n + 1) = x
  <2>1. (n + 1) + 1 = n + 2
    BY <1>1
  <2> QED BY <1>1, <2>1, WholeEnd DEF Piece
<1>7. Piece(v, n + 2) = <<>>
  <2>1. (n + 2) - 1 = n + 1 /\ n + 2 > 1
    BY <1>1
  <2> QED BY <1>1, <2>1 DEF Piece
<1> HIDE DEF T, p, x
<1>8. /\ Append(p, x) \in Seq(T) /\ Len(Append(p, x)) = n + 1
      /\ Append(p, x)[n + 1] = x /\ \A i \in 1..n : Append(p, x)[i] = p[i]
  BY <1>3, <1>5, Appended
<1>9. /\ q \in Seq(T) /\ Len(q) = n + 2
      /\ q[n + 2] = <<>> /\ \A i \in 1..(n + 1) : q[i] = Append(p, x)[i]
  <2> DEFINE a == Append(p, x)
             e == <<>>
  <2>1. e \in T /\ a \in Seq(T) /\ Len(a) = n + 1
    BY <1>5, <1>8
  <2> HIDE DEF a, e
  <2>2. /\ Append(a, e) \in Seq(T) /\ Len(Append(a, e)) = Len(a) + 1
        /\ Append(a, e)[Len(a) + 1] = e /\ \A i \in 1..Len(a) : Append(a, e)[i] = a[i]
    BY <2>1, Appended
  <2>3. Len(a) + 1 = n + 2
    BY <1>1, <2>1
  <2> QED BY <2>1, <2>2, <2>3 DEF a, e
<1> HIDE DEF q
<1>10. \A i \in 1..(n + 2) : Pieces(v)[i] = q[i]
  <2> TAKE i \in 1..(n + 2)
  <2>1. CASE i = n + 2
    BY <1>4, <1>7, <1>9, <2>1
  <2>2. CASE i = n + 1
    <3>1. n + 1 \in 1..(n + 1)
      BY <1>1
    <3> QED BY <1>4, <1>6, <1>8, <1>9, <2>2, <3>1
  <2>3. CASE i # n + 1 /\ i # n + 2
    <3>1. i \in 1..n /\ i \in 1..(n + 1)
      BY <1>1, <2>3
    <3>2. Piece(v, i) = Piece(u, i)
      BY <1>1, <3>1, PieceKept
    <3> QED BY <1>4, <1>8, <1>9, <3>1, <3>2
  <2> QED BY <2>1, <2>2, <2>3
<1>11. Pieces(v) = q
  BY <1>3, <1>9, <1>10, SeqEqual
<1>12. FlattenSeq(q) = FlattenSeq(p) \o x
  <2> DEFINE a == Append(p, x)
             e == <<>>
  <2>1. a \in Seq(Seq(Int)) /\ e \in Seq(Int)
    BY <1>8 DEF T
  <2>2. FlattenSeq(Append(p, x)) = FlattenSeq(p) \o x /\ FlattenSeq(Append(p, x)) \in Seq(Int)
    BY <1>3, <1>5, <1>8, FlattenAppend, FlattenTyped DEF T
  <2> HIDE DEF a, e
  <2>3. FlattenSeq(Append(a, e)) = FlattenSeq(a) \o e
    BY <2>1, FlattenAppend
  <2>4. FlattenSeq(a) \in Seq(Int)
    BY <2>1, FlattenTyped
  <2>5. FlattenSeq(a) \o e = FlattenSeq(a)
    BY <2>4 DEF e
  <2> QED BY <2>2, <2>3, <2>5 DEF a, e, q
<1>13. CodePoints(v) = CodePoints(u) \o x
  BY <1>11, <1>12, CodePointsPieces DEF p
<1>14. CodePoints(u) \in Seq(Int)
  BY <1>3, FlattenTyped, CodePointsPieces DEF p, T
<1>15. CodePoints(v) = Append(CodePoints(u), Pair(h, l))
  BY <1>5, <1>13, <1>14 DEF x
<1> QED BY <1>2, <1>15 DEF v

(* for (const ch of s) takes apart again what UTF-16 put together.         *)
LEMMA RoundTrip ==
  ASSUME NEW s \in Text
  PROVE  Whole(Units(s)) /\ CodePoints(Units(s)) = s
<1> DEFINE G == {t \in Text : Whole(Units(t)) /\ CodePoints(Units(t)) = t}
<1>a. utf16 \in [Rune -> Seq(Unit)]
  <2>1. ASSUME NEW c \in Rune PROVE Utf16(c) \in Seq(Unit)
    <3>1. CASE c \in Unit /\ Utf16(c) = <<c>>
      BY <3>1
    <3>2. ASSUME NEW h \in Unit, NEW l \in Unit, Utf16(c) = <<h, l>>
          PROVE  Utf16(c) \in Seq(Unit)
      BY <3>2
    <3> QED BY <3>1, <3>2, Utf16Is
  <2> QED BY <2>1 DEF utf16
<1>1. <<>> \in G
  <2>1. Units(<<>>) = <<>>
    <3>1. <<>> \in Text
      BY DEF Text
    <3>2. Units(<<>>) = Spread(utf16, <<>>)
      BY <3>1, UnitsSpread
    <3> QED BY <3>2, SpreadEmpty
  <2>2. Pieces(<<>>) = <<>>
    BY DEF Pieces
  <2>3. CodePoints(<<>>) = <<>> /\ Whole(<<>>)
    BY <2>2, CodePointsPieces, FlattenEmpty DEF Whole
  <2> QED BY <2>1, <2>3 DEF Text
<1>2. ASSUME NEW t \in Seq(Rune), NEW c \in Rune, t \in G
      PROVE  Append(t, c) \in G
  <2>1. Append(t, c) \in Text /\ t \in Text
    BY DEF Text
  <2>2. Units(Append(t, c)) = Units(t) \o Utf16(c)
    <3>1. Spread(utf16, Append(t, c)) = Spread(utf16, t) \o utf16[c]
      BY <1>a, SpreadAppend
    <3> QED BY <2>1, <3>1, UnitsSpread DEF utf16
  <2> DEFINE u == Units(t)
  <2>3. Whole(u) /\ CodePoints(u) = t
    BY <1>2
  <2> HIDE DEF u
  <2>4. CASE c \in Unit /\ ~IsHigh(c) /\ Utf16(c) = <<c>>
    <3>1. u \o <<c>> = Append(u, c)
      BY <2>3, <2>4, AppendIsConcat DEF Whole
    <3>2. Whole(Append(u, c)) /\ CodePoints(Append(u, c)) = Append(t, c)
      BY <2>3, <2>4, OnePiece
    <3> QED BY <2>1, <2>2, <2>4, <3>1, <3>2 DEF u
  <2>5. ASSUME NEW h \in Unit, NEW l \in Unit,
               Utf16(c) = <<h, l>>, IsHigh(h), ~IsHigh(l), Pair(h, l) = c
        PROVE  Append(t, c) \in G
    <3>1. Whole(u \o <<h, l>>) /\ CodePoints(u \o <<h, l>>) = Append(t, c)
      BY <2>3, <2>5, TwoPieces
    <3> QED BY <2>1, <2>2, <2>5, <3>1 DEF u
  <2> QED BY <2>4, <2>5, Utf16Is
<1> HIDE DEF G
<1>3. s \in G
  BY <1>1, <1>2, Growing DEF Text
<1> QED BY <1>3 DEF G

LEMMA UnitsApart ==
  ASSUME NEW j \in Text, NEW k \in Text, Units(j) = Units(k)
  PROVE  j = k
BY RoundTrip

-----------------------------------------------------------------------------
(* Strings.                                                                *)
LEMMA TwoElements ==
  ASSUME NEW n \in Nat
  PROVE  <<92>> \o <<n>> = <<92, n>>
<1> DEFINE p == <<92>> \o <<n>>
           q == <<92, n>>
<1>1. /\ p \in Seq(Nat) /\ q \in Seq(Nat) /\ Len(p) = 2 /\ Len(q) = 2
      /\ p[1] = q[1] /\ p[2] = q[2]
  OBVIOUS
<1> HIDE DEF p, q
<1>2. \A i \in 1..Len(p) : p[i] = q[i]
  BY <1>1
<1>3. p = q
  BY <1>1, <1>2, SeqEqual
<1> QED BY <1>3 DEF p, q

LEMMA RuneAlike ==
  ASSUME NEW c \in Rune
  PROVE  GoRune(c) = JsCodePoint(c)
<1>1. DOMAIN JsEscapes = {34, 92, 8, 9, 10, 12, 13}
  BY DEF JsEscapes
<1>2. CASE c \in {34, 92, 8, 9, 10, 12, 13}
  <2>1. ShortEscape(c) = <<JsEscapes[c]>>
    BY <1>2 DEF ShortEscape, JsEscapes
  <2>2. GoRune(c) = <<92>> \o <<JsEscapes[c]>>
    BY <2>1 DEF GoRune
  <2>3. JsCodePoint(c) = <<92, JsEscapes[c]>>
    BY <1>1, <1>2 DEF JsCodePoint
  <2>4. JsEscapes[c] \in Nat
    BY <1>2 DEF JsEscapes
  <2> QED BY <2>2, <2>3, <2>4, TwoElements
<1>3. CASE c \notin {34, 92, 8, 9, 10, 12, 13}
  <2>1. ShortEscape(c) = <<>>
    BY <1>3 DEF ShortEscape
  <2> QED BY <1>1, <1>3, <2>1 DEF GoRune, JsCodePoint
<1> QED BY <1>2, <1>3

(* A string of any length is spelled alike.                                *)
LEMMA StringAlike ==
  ASSUME NEW s \in Text
  PROVE  JsString(Units(s)) = GoString(s)
<1>1. CodePoints(Units(s)) = s
  BY RoundTrip
<1>2. \A i \in DOMAIN s : JsCodePoint(s[i]) = GoRune(s[i])
  BY RuneAlike DEF Text
<1>3. [i \in DOMAIN s |-> JsCodePoint(s[i])] = [i \in DOMAIN s |-> GoRune(s[i])]
  BY <1>2
<1> QED BY <1>1, <1>3 DEF JsString, GoString

-----------------------------------------------------------------------------
(* The order of the keys.                                                  *)
Differ(a, b, i) ==
  /\ i \in 1..Len(a) /\ i <= Len(b) /\ a[i] < b[i]
  /\ \A j \in 1..(i - 1) : a[j] = b[j]
Shorter(a, b) == Len(a) < Len(b) /\ \A j \in 1..Len(a) : a[j] = b[j]

LEMMA BeforeIs ==
  ASSUME NEW a \in Seq(Nat), NEW b \in Seq(Nat)
  PROVE  Before(a, b) <=> (\E i : Differ(a, b, i)) \/ Shorter(a, b)
<1>1. /\ Len(a) \in Nat /\ Len(b) \in Nat
      /\ DOMAIN a = 1..Len(a) /\ DOMAIN b = 1..Len(b)
  OBVIOUS
<1>2. \A i : i \in DOMAIN a \intersect DOMAIN b <=> i \in 1..Len(a) /\ i <= Len(b)
  BY <1>1
<1> QED BY <1>1, <1>2 DEF Before, Differ, Shorter

LEMMA BeforeIrreflexive ==
  ASSUME NEW a \in Seq(Nat)
  PROVE  ~Before(a, a)
BY DEF Before

LEMMA BeforeTransitive ==
  ASSUME NEW a \in Seq(Nat), NEW b \in Seq(Nat), NEW c \in Seq(Nat),
         Before(a, b), Before(b, c)
  PROVE  Before(a, c)
<1>1. /\ Len(a) \in Nat /\ Len(b) \in Nat /\ Len(c) \in Nat
      /\ \A i \in 1..Len(a) : a[i] \in Nat
      /\ \A i \in 1..Len(b) : b[i] \in Nat
      /\ \A i \in 1..Len(c) : c[i] \in Nat
  OBVIOUS
<1>2. ASSUME NEW i, Differ(a, b, i), NEW k, Differ(b, c, k)
      PROVE  \E m : Differ(a, c, m)
  <2>a. /\ i \in Nat /\ i <= Len(a) /\ i <= Len(b) /\ 1 <= i
        /\ k \in Nat /\ k <= Len(b) /\ k <= Len(c) /\ 1 <= k
        /\ a[i] < b[i] /\ b[k] < c[k]
        /\ \A j \in 1..(i - 1) : a[j] = b[j]
        /\ \A j \in 1..(k - 1) : b[j] = c[j]
    BY <1>1, <1>2 DEF Differ
  <2>1. CASE i <= k
    <3>1. CASE i = k
      <4>1. i \in 1..Len(a) /\ i \in 1..Len(b) /\ i \in 1..Len(c)
        BY <1>1, <2>a, <3>1
      <4>2. a[i] < c[i]
        BY <1>1, <2>a, <3>1, <4>1, SMTT(30)
      <4>3. \A j \in 1..(i - 1) : a[j] = c[j]
        BY <2>a, <3>1
      <4>4. Differ(a, c, i)
        BY <2>a, <3>1, <4>1, <4>2, <4>3 DEF Differ
      <4> QED BY <4>4
    <3>2. CASE i # k
      <4>a. i \in 1..(k - 1) /\ \A j \in 1..(i - 1) : j \in 1..(k - 1)
        BY <2>a, <2>1, <3>2
      <4>b. i <= Len(c)
        BY <1>1, <2>a, <2>1
      <4>1. b[i] = c[i] /\ i <= Len(c) /\ \A j \in 1..(i - 1) : b[j] = c[j]
        BY <2>a, <4>a, <4>b
      <4>2. Differ(a, c, i)
        BY <1>2, <4>1 DEF Differ
      <4> QED BY <4>2
    <3> QED BY <3>1, <3>2
  <2>2. CASE k < i
    <3>a. k \in 1..(i - 1) /\ \A j \in 1..(k - 1) : j \in 1..(i - 1)
      BY <2>a, <2>2
    <3>b. k \in 1..Len(a)
      BY <1>1, <2>a, <2>2
    <3>1. a[k] = b[k] /\ k \in 1..Len(a) /\ \A j \in 1..(k - 1) : a[j] = b[j]
      BY <2>a, <3>a, <3>b
    <3>2. Differ(a, c, k)
      BY <1>2, <3>1 DEF Differ
    <3> QED BY <3>2
  <2> QED BY <2>a, <2>1, <2>2
<1>3. ASSUME NEW i, Differ(a, b, i), Shorter(b, c)
      PROVE  \E m : Differ(a, c, m)
  <2>1. b[i] = c[i] /\ i <= Len(c) /\ \A j \in 1..(i - 1) : b[j] = c[j]
    BY <1>1, <1>3, SMTT(30) DEF Differ, Shorter
  <2>2. Differ(a, c, i)
    BY <1>3, <2>1 DEF Differ
  <2> QED BY <2>2
<1>4. ASSUME Shorter(a, b), NEW k, Differ(b, c, k)
      PROVE  Shorter(a, c) \/ \E m : Differ(a, c, m)
  <2>1. CASE k <= Len(a)
    <3>1. a[k] = b[k] /\ k \in 1..Len(a) /\ \A j \in 1..(k - 1) : a[j] = b[j]
      BY <1>1, <1>4, <2>1 DEF Differ, Shorter
    <3>2. Differ(a, c, k)
      BY <1>4, <3>1 DEF Differ
    <3> QED BY <3>2
  <2>2. CASE ~(k <= Len(a))
    <3>1. Len(a) < Len(c) /\ \A j \in 1..Len(a) : a[j] = c[j]
      BY <1>1, <1>4, <2>2 DEF Differ, Shorter
    <3> QED BY <3>1 DEF Shorter
  <2> QED BY <2>1, <2>2
<1>5. ASSUME Shorter(a, b), Shorter(b, c)
      PROVE  Shorter(a, c)
  BY <1>1, <1>5 DEF Shorter
<1> QED BY <1>2, <1>3, <1>4, <1>5, BeforeIs

LEMMA BeforeTotal ==
  ASSUME NEW a \in Seq(Nat), NEW b \in Seq(Nat), a # b
  PROVE  Before(a, b) \/ Before(b, a)
<1>1. /\ Len(a) \in Nat /\ Len(b) \in Nat
      /\ \A i \in 1..Len(a) : a[i] \in Nat
      /\ \A i \in 1..Len(b) : b[i] \in Nat
  OBVIOUS
<1> DEFINE Apart == {i \in 1..Len(a) : i <= Len(b) /\ a[i] # b[i]}
<1>2. CASE Apart # {}
  <2>1. PICK m \in Apart : \A k \in Apart : m <= k
    <3>1. Apart \in SUBSET Nat
      OBVIOUS
    <3> HIDE DEF Apart
    <3> QED BY <1>2, <3>1, Least
  <2>2. m \in 1..Len(a) /\ m <= Len(b) /\ a[m] # b[m]
    OBVIOUS
  <2>3. \A j \in 1..(m - 1) : a[j] = b[j]
    <3> TAKE j \in 1..(m - 1)
    <3>1. j \in 1..Len(a) /\ j <= Len(b) /\ ~(m <= j)
      BY <1>1, <2>2
    <3>2. j \notin Apart
      BY <2>1, <3>1
    <3> QED BY <3>1, <3>2
  <2> HIDE DEF Apart
  <2>4. a[m] < b[m] \/ b[m] < a[m]
    BY <1>1, <2>2
  <2>5. Differ(a, b, m) \/ Differ(b, a, m)
    BY <1>1, <2>2, <2>3, <2>4 DEF Differ
  <2> QED BY <2>5, BeforeIs
<1>3. CASE Apart = {}
  <2>1. \A i \in 1..Len(a) : i <= Len(b) => a[i] = b[i]
    BY <1>3
  <2>2. Len(a) # Len(b)
    <3>1. Len(a) = Len(b) => \A i \in 1..Len(a) : a[i] = b[i]
      BY <1>1, <2>1
    <3> QED BY <3>1, SeqEqual
  <2>3. Shorter(a, b) \/ Shorter(b, a)
    BY <1>1, <2>1, <2>2 DEF Shorter
  <2> QED BY <2>3, BeforeIs
<1> QED BY <1>2, <1>3

-----------------------------------------------------------------------------
(* Sorting: the ranks of n keys are the numbers below n.                   *)
Below(K, sp, k) == {j \in K : Before(sp[j], sp[k])}
Rank(K, sp, k) == Cardinality(Below(K, sp, k))
Spelled(K, sp) ==
  /\ IsFiniteSet(K)
  /\ sp \in [K -> Seq(Nat)]
  /\ \A j \in K, k \in K : sp[j] = sp[k] => j = k

LEMMA RankBounded ==
  ASSUME NEW K, NEW sp, Spelled(K, sp), NEW k \in K
  PROVE  /\ Cardinality(K) \in Nat /\ Rank(K, sp, k) \in Nat
         /\ Rank(K, sp, k) < Cardinality(K)
<1>1. IsFiniteSet(K) /\ Below(K, sp, k) \in SUBSET K
  BY DEF Spelled, Below
<1>2. k \notin Below(K, sp, k)
  BY BeforeIrreflexive DEF Spelled, Below
<1>3. Below(K, sp, k) # K
  BY <1>2
<1>4. /\ IsFiniteSet(Below(K, sp, k))
      /\ Cardinality(Below(K, sp, k)) <= Cardinality(K)
      /\ Cardinality(K) = Cardinality(Below(K, sp, k)) => K = Below(K, sp, k)
  BY <1>1, FS_Subset
<1>5. Cardinality(K) \in Nat /\ Cardinality(Below(K, sp, k)) \in Nat
  BY <1>1, <1>4, FS_CardinalityType
<1> QED BY <1>3, <1>4, <1>5 DEF Rank

LEMMA RankGrows ==
  ASSUME NEW K, NEW sp, Spelled(K, sp), NEW j \in K, NEW k \in K,
         Before(sp[j], sp[k])
  PROVE  Rank(K, sp, j) < Rank(K, sp, k)
<1>1. sp[j] \in Seq(Nat) /\ sp[k] \in Seq(Nat)
  BY DEF Spelled
<1>2. Below(K, sp, j) \in SUBSET Below(K, sp, k)
  <2>1. ASSUME NEW i \in Below(K, sp, j) PROVE i \in Below(K, sp, k)
    <3>1. i \in K /\ Before(sp[i], sp[j])
      BY DEF Below
    <3>2. sp[i] \in Seq(Nat)
      BY <3>1 DEF Spelled
    <3>3. Before(sp[i], sp[k])
      BY <1>1, <3>1, <3>2, BeforeTransitive
    <3> QED BY <3>1, <3>3 DEF Below
  <2> QED BY <2>1
<1>3. j \in Below(K, sp, k) /\ j \notin Below(K, sp, j)
  BY <1>1, BeforeIrreflexive DEF Below
<1>4. Below(K, sp, j) # Below(K, sp, k)
  BY <1>3
<1>5. IsFiniteSet(Below(K, sp, k))
  <2>1. IsFiniteSet(K) /\ Below(K, sp, k) \in SUBSET K
    BY DEF Spelled, Below
  <2> QED BY <2>1, FS_Subset
<1>6. /\ IsFiniteSet(Below(K, sp, j))
      /\ Cardinality(Below(K, sp, j)) <= Cardinality(Below(K, sp, k))
      /\ Cardinality(Below(K, sp, k)) = Cardinality(Below(K, sp, j)) =>
           Below(K, sp, k) = Below(K, sp, j)
  BY <1>2, <1>5, FS_Subset
<1>7. Cardinality(Below(K, sp, j)) \in Nat /\ Cardinality(Below(K, sp, k)) \in Nat
  BY <1>5, <1>6, FS_CardinalityType
<1> QED BY <1>4, <1>6, <1>7 DEF Rank

LEMMA RankApart ==
  ASSUME NEW K, NEW sp, Spelled(K, sp), NEW j \in K, NEW k \in K,
         Rank(K, sp, j) = Rank(K, sp, k)
  PROVE  j = k
<1>1. ASSUME j # k PROVE FALSE
  <2>1. sp[j] \in Seq(Nat) /\ sp[k] \in Seq(Nat) /\ sp[j] # sp[k]
    BY <1>1 DEF Spelled
  <2>2. Before(sp[j], sp[k]) \/ Before(sp[k], sp[j])
    BY <2>1, BeforeTotal
  <2>3. Rank(K, sp, j) \in Nat /\ Rank(K, sp, k) \in Nat
    BY RankBounded
  <2>4. Rank(K, sp, j) < Rank(K, sp, k) \/ Rank(K, sp, k) < Rank(K, sp, j)
    BY <2>2, RankGrows
  <2> QED BY <2>3, <2>4
<1> QED BY <1>1

LEMMA RankTaken ==
  ASSUME NEW K, NEW sp, Spelled(K, sp), NEW i \in 1..Cardinality(K)
  PROVE  \E k \in K : Rank(K, sp, k) = i - 1
<1> DEFINE n == Cardinality(K)
           places == 0..(n - 1)
           rank == [k \in K |-> Rank(K, sp, k)]
<1>1. IsFiniteSet(K) /\ n \in Nat
  BY FS_CardinalityType DEF Spelled
<1> HIDE DEF n
<1>2. IsFiniteSet(places) /\ Cardinality(places) = n
  <2>1. 0 \in Int /\ n - 1 \in Int
    BY <1>1
  <2>2. IsFiniteSet(0..(n - 1)) /\ Cardinality(0..(n - 1)) = IF 0 > n - 1 THEN 0 ELSE (n - 1) - 0 + 1
    BY <2>1, FS_Interval
  <2> QED BY <1>1, <2>2
<1>3. rank \in [K -> places]
  <2>1. \A k \in K : Rank(K, sp, k) \in places
    <3> TAKE k \in K
    <3>1. Rank(K, sp, k) \in Nat /\ Rank(K, sp, k) < n
      BY RankBounded DEF n
    <3> QED BY <1>1, <3>1
  <2> QED BY <2>1
<1>4. \A j \in K, k \in K : rank[j] = rank[k] => j = k
  BY RankApart
<1> HIDE DEF places, rank
<1>5. rank \in Injection(K, places)
  BY <1>3, <1>4 DEF Injection, IsInjective
<1>6. rank \in Surjection(K, places)
  BY <1>2, <1>5, FS_Injection DEF n
<1>7. i - 1 \in places
  BY <1>1 DEF n, places
<1>8. \E k \in K : rank[k] = i - 1
  BY <1>6, <1>7 DEF Surjection
<1> QED BY <1>8 DEF rank

(* What Sorted gives: the key of each rank.                                *)
LEMMA SortedIs ==
  ASSUME NEW K, NEW sp, Spelled(K, sp)
  PROVE  /\ Cardinality(K) \in Nat /\ DOMAIN Sorted(K, sp) = 1..Cardinality(K)
         /\ \A i \in 1..Cardinality(K) :
              Sorted(K, sp)[i] \in K /\ Rank(K, sp, Sorted(K, sp)[i]) = i - 1
<1>1. Cardinality(K) \in Nat
  BY FS_CardinalityType DEF Spelled
<1>2. DOMAIN Sorted(K, sp) = 1..Cardinality(K)
  BY DEF Sorted
<1>3. ASSUME NEW i \in 1..Cardinality(K)
      PROVE  Sorted(K, sp)[i] \in K /\ Rank(K, sp, Sorted(K, sp)[i]) = i - 1
  <2>1. Sorted(K, sp)[i] = CHOOSE k \in K : Rank(K, sp, k) = i - 1
    BY DEF Sorted, Rank, Below
  <2>2. \E k \in K : Rank(K, sp, k) = i - 1
    BY RankTaken
  <2> QED BY <2>1, <2>2
<1> QED BY <1>1, <1>2, <1>3

LEMMA UnitsTyped ==
  ASSUME NEW s \in Text
  PROVE  Units(s) \in Seq(Unit) /\ Units(s) \in Seq(Nat)
<1>1. Units(s) \in Seq(Unit)
  BY RoundTrip DEF Whole
<1>2. \A n \in Unit : n \in Nat
  BY DEF Unit
<1> QED BY <1>1, <1>2, SeqMonotonic

(* The keys of an object in the order of each side: canonical.go sorts the *)
(* keys by their units, canonical.ts sorts the units.                      *)
AllUnits(K) == {Units(k) : k \in K}
JsKeys(K) == Sorted(AllUnits(K), [u \in AllUnits(K) |-> u])

LEMMA RanksAlike ==
  ASSUME NEW K \in SUBSET Text, IsFiniteSet(K), NEW k \in K
  PROVE  Rank(AllUnits(K), [u \in AllUnits(K) |-> u], Units(k)) =
           Rank(K, [j \in K |-> Units(j)], k)
<1> DEFINE sp == [j \in K |-> Units(j)]
           own == [u \in AllUnits(K) |-> u]
           B == Below(K, sp, k)
           C == Below(AllUnits(K), own, Units(k))
           f == [j \in B |-> Units(j)]
<1>1. B = {j \in K : Before(Units(j), Units(k))}
  BY DEF Below
<1>2. C = {u \in AllUnits(K) : Before(u, Units(k))}
  BY DEF Below, AllUnits
<1>3. f \in [B -> C]
  BY <1>1, <1>2 DEF AllUnits
<1>4. \A i \in B, j \in B : f[i] = f[j] => i = j
  BY <1>1, UnitsApart
<1>5. \A u \in C : \E j \in B : f[j] = u
  BY <1>1, <1>2 DEF AllUnits
<1>6. IsFiniteSet(B)
  <2>1. B \in SUBSET K
    BY <1>1
  <2> QED BY <2>1, FS_Subset
<1> HIDE DEF B, C, f
<1>7. f \in Bijection(B, C)
  BY <1>3, <1>4, <1>5 DEF Bijection, Injection, IsInjective, Surjection
<1>8. ExistsBijection(B, C)
  BY <1>7 DEF ExistsBijection
<1>9. Cardinality(C) = Cardinality(B)
  BY <1>6, <1>8, FS_Bijection
<1> QED BY <1>9 DEF B, C, Rank

LEMMA KeysSpelled ==
  ASSUME NEW K \in SUBSET Text, IsFiniteSet(K)
  PROVE  /\ Spelled(K, [j \in K |-> Units(j)])
         /\ Spelled(AllUnits(K), [u \in AllUnits(K) |-> u])
         /\ Cardinality(AllUnits(K)) = Cardinality(K)
<1> DEFINE f == [j \in K |-> Units(j)]
           U == AllUnits(K)
<1>1. \A j \in K : Units(j) \in Seq(Nat)
  BY UnitsTyped
<1>2. Spelled(K, f)
  BY <1>1, UnitsApart DEF Spelled
<1>3. f \in [K -> U] /\ \A u \in U : \E j \in K : f[j] = u
  BY DEF AllUnits
<1>4. \A i \in K, j \in K : f[i] = f[j] => i = j
  BY UnitsApart
<1> HIDE DEF f, U
<1>5. f \in Bijection(K, U)
  BY <1>3, <1>4 DEF Bijection, Injection, IsInjective, Surjection
<1>6. ExistsBijection(K, U)
  BY <1>5 DEF ExistsBijection
<1>7. IsFiniteSet(U) /\ Cardinality(U) = Cardinality(K)
  BY <1>6, FS_Bijection
<1>8. \A u \in U : u \in Seq(Nat)
  BY <1>1 DEF U, AllUnits
<1>9. Spelled(U, [u \in U |-> u])
  BY <1>7, <1>8 DEF Spelled
<1> QED BY <1>2, <1>7, <1>9 DEF f, U

LEMMA KeysAlike ==
  ASSUME NEW K \in SUBSET Text, IsFiniteSet(K)
  PROVE  /\ Cardinality(K) \in Nat
         /\ DOMAIN SortByUtf16(K) = 1..Cardinality(K)
         /\ DOMAIN JsKeys(K) = 1..Cardinality(K)
         /\ \A i \in 1..Cardinality(K) :
              SortByUtf16(K)[i] \in K /\ JsKeys(K)[i] = Units(SortByUtf16(K)[i])
<1> DEFINE sp == [j \in K |-> Units(j)]
           U == AllUnits(K)
           own == [u \in U |-> u]
           n == Cardinality(K)
<1>1. Spelled(K, sp) /\ Spelled(U, own) /\ Cardinality(U) = n
  BY KeysSpelled
<1>2. SortByUtf16(K) = Sorted(K, sp) /\ JsKeys(K) = Sorted(U, own)
  BY DEF SortByUtf16, JsKeys
<1>3. \A k \in K : Units(k) \in U /\ Rank(U, own, Units(k)) = Rank(K, sp, k)
  BY RanksAlike DEF AllUnits
<1>4. \A u \in U : \E k \in K : u = Units(k)
  BY DEF AllUnits
<1> HIDE DEF sp, U, own, n
<1>5. /\ n \in Nat /\ DOMAIN Sorted(K, sp) = 1..n
      /\ \A i \in 1..n : Sorted(K, sp)[i] \in K /\ Rank(K, sp, Sorted(K, sp)[i]) = i - 1
  BY <1>1, SortedIs DEF n
<1>6. /\ DOMAIN Sorted(U, own) = 1..n
      /\ \A i \in 1..n : Sorted(U, own)[i] \in U /\ Rank(U, own, Sorted(U, own)[i]) = i - 1
  <2>1. /\ DOMAIN Sorted(U, own) = 1..Cardinality(U)
        /\ \A i \in 1..Cardinality(U) :
             Sorted(U, own)[i] \in U /\ Rank(U, own, Sorted(U, own)[i]) = i - 1
    BY <1>1, SortedIs
  <2> QED BY <1>1, <2>1
<1>7. ASSUME NEW i \in 1..n PROVE Sorted(U, own)[i] = Units(Sorted(K, sp)[i])
  <2> DEFINE u == Sorted(U, own)[i]
             k == Sorted(K, sp)[i]
  <2>1. u \in U /\ k \in K /\ Rank(U, own, u) = Rank(K, sp, k)
    BY <1>5, <1>6
  <2> HIDE DEF u, k
  <2>2. PICK j \in K : u = Units(j)
    BY <1>4, <2>1
  <2>3. Rank(K, sp, j) = Rank(K, sp, k)
    BY <1>3, <2>1, <2>2
  <2>4. j = k
    BY <1>1, <2>1, <2>3, RankApart
  <2> QED BY <2>2, <2>4 DEF u, k
<1> QED BY <1>2, <1>5, <1>6, <1>7 DEF n

-----------------------------------------------------------------------------
(* Objects.                                                                *)
LEMMA KeysInFinite ==
  ASSUME NEW V, NEW m \in Members(V)
  PROVE  IsFiniteSet(KeysIn(m)) /\ KeysIn(m) \in SUBSET Text
<1> DEFINE n == Len(m)
           K == KeysIn(m)
           f == [i \in 1..n |-> m[i][1]]
<1>1. n \in Nat /\ DOMAIN m = 1..n /\ \A i \in 1..n : m[i] \in Text \X V
  BY DEF Members
<1>2. K = {m[i][1] : i \in 1..n}
  BY <1>1 DEF KeysIn
<1>3. K \in SUBSET Text
  BY <1>1, <1>2
<1>4. f \in [1..n -> K] /\ \A k \in K : \E i \in 1..n : f[i] = k
  BY <1>2
<1> HIDE DEF f, K
<1>5. f \in Surjection(1..n, K)
  BY <1>4 DEF Surjection
<1>6. IsFiniteSet(1..n)
  BY <1>1, FS_Interval
<1>7. IsFiniteSet(K)
  BY <1>5, <1>6, FS_Surjection
<1> QED BY <1>3, <1>7 DEF K

LEMMA Greatest ==
  ASSUME NEW n \in Nat, NEW A \in SUBSET (1..n), A # {}
  PROVE  \E m \in A : \A j \in A : j <= m
<1> DEFINE B == {n - i : i \in A}
<1>1. B \in SUBSET Nat /\ B # {}
  OBVIOUS
<1>2. \E b \in B : \A c \in B : b <= c
  <2> HIDE DEF B
  <2> QED BY <1>1, Least
<1>3. PICK m \in A : \A c \in B : n - m <= c
  BY <1>2
<1>4. \A j \in A : n - m <= n - j
  BY <1>3
<1>5. \A j \in A : j <= m
  BY <1>4
<1> QED BY <1>5

LEMMA LastOfIs ==
  ASSUME NEW V, NEW m \in Members(V), NEW k \in KeysIn(m)
  PROVE  \E i \in 1..Len(m) :
           /\ m[i][1] = k /\ LastOf(m, k) = m[i][2]
           /\ \A j \in 1..Len(m) : m[j][1] = k => j <= i
<1> DEFINE at == {i \in 1..Len(m) : m[i][1] = k}
<1>1. Len(m) \in Nat /\ DOMAIN m = 1..Len(m)
  BY DEF Members
<1>2. at # {}
  BY <1>1 DEF KeysIn
<1>3. \E i \in at : \A j \in at : j <= i
  <2>1. at \in SUBSET (1..Len(m))
    OBVIOUS
  <2> HIDE DEF at
  <2> QED BY <1>1, <1>2, <2>1, Greatest
<1> DEFINE last == CHOOSE i \in at : \A j \in at : j <= i
<1>4. last \in at /\ \A j \in at : j <= last
  BY <1>3
<1>5. LastOf(m, k) = m[last][2]
  BY <1>1 DEF LastOf
<1> HIDE DEF last
<1> QED BY <1>4, <1>5

LEMMA LastOfTyped ==
  ASSUME NEW V, NEW m \in Members(V), NEW k \in KeysIn(m)
  PROVE  LastOf(m, k) \in V
<1>1. \A i \in 1..Len(m) : m[i] \in Text \X V
  BY ElementOfSeq DEF Members
<1>2. \A i \in 1..Len(m) : m[i][2] \in V
  BY <1>1
<1> QED BY <1>2, LastOfIs

(* The last step for an object: the member texts on both sides, in order,  *)
(* for an encoder g of what is in it that both sides agree on.             *)
GoMembers(m, g) ==
  [i \in DOMAIN SortByUtf16(KeysIn(m)) |->
     GoString(SortByUtf16(KeysIn(m))[i]) \o <<58>> \o g[LastOf(m, SortByUtf16(KeysIn(m))[i])]]
JsMembers(m, g) ==
  [i \in DOMAIN JsKeys(KeysIn(m)) |->
     JsString(JsKeys(KeysIn(m))[i]) \o <<58>> \o g[LastOf(m, CodePoints(JsKeys(KeysIn(m))[i]))]]

LEMMA MembersAlike ==
  ASSUME NEW V, NEW m \in Members(V), NEW g
  PROVE  JsMembers(m, g) = GoMembers(m, g)
<1> DEFINE K == KeysIn(m)
           n == Cardinality(K)
           keys == SortByUtf16(K)
           units == JsKeys(K)
<1>1. IsFiniteSet(K) /\ K \in SUBSET Text
  BY KeysInFinite
<1>2. /\ DOMAIN keys = 1..n /\ DOMAIN units = 1..n
      /\ \A i \in 1..n : keys[i] \in K /\ units[i] = Units(keys[i])
  BY <1>1, KeysAlike
<1>3. ASSUME NEW i \in 1..n
      PROVE  JsString(units[i]) \o <<58>> \o g[LastOf(m, CodePoints(units[i]))] =
               GoString(keys[i]) \o <<58>> \o g[LastOf(m, keys[i])]
  <2>1. keys[i] \in Text /\ units[i] = Units(keys[i])
    BY <1>1, <1>2
  <2>2. JsString(units[i]) = GoString(keys[i]) /\ CodePoints(units[i]) = keys[i]
    BY <2>1, StringAlike, RoundTrip
  <2> QED BY <2>2
<1> HIDE DEF n, keys, units
<1>4. [i \in DOMAIN units |-> JsString(units[i]) \o <<58>> \o g[LastOf(m, CodePoints(units[i]))]] =
      [i \in DOMAIN keys |-> GoString(keys[i]) \o <<58>> \o g[LastOf(m, keys[i])]]
  BY <1>2, <1>3
<1> QED BY <1>4 DEF GoMembers, JsMembers, keys, units

LEMMA ScalarAlike ==
  ASSUME NEW v \in Scalars
  PROVE  /\ JsScalar(v) = GoScalar(v)
         /\ v.t \notin {"arr", "obj"}
<1>1. CASE v = Null
  BY <1>1 DEF Null, JsScalar, GoScalar
<1>2. CASE v \in [t : {"bool"}, b : BOOLEAN]
  BY <1>2 DEF JsScalar, GoScalar
<1>3. CASE v \in [t : {"num", "real"}, n : 0..9]
  BY <1>3 DEF JsScalar, GoScalar
<1>4. CASE v \in [t : {"str"}, s : Text]
  BY <1>4, StringAlike DEF JsScalar, GoScalar
<1> QED BY <1>1, <1>2, <1>3, <1>4 DEF Scalars

(* encodeCanonical and encode of an object with values of V, where g is    *)
(* what either side makes of those.                                        *)
LEMMA KeysTyped ==
  ASSUME NEW V, NEW m \in Members(V)
  PROVE  /\ \A i \in DOMAIN SortByUtf16(KeysIn(m)) :
               LastOf(m, SortByUtf16(KeysIn(m))[i]) \in V
         /\ \A i \in DOMAIN JsKeys(KeysIn(m)) :
               LastOf(m, CodePoints(JsKeys(KeysIn(m))[i])) \in V
<1> DEFINE K == KeysIn(m)
           n == Cardinality(K)
           keys == SortByUtf16(K)
           units == JsKeys(K)
<1>1. IsFiniteSet(K) /\ K \in SUBSET Text
  BY KeysInFinite
<1>2. /\ DOMAIN keys = 1..n /\ DOMAIN units = 1..n
      /\ \A i \in 1..n : keys[i] \in K /\ units[i] = Units(keys[i])
  BY <1>1, KeysAlike
<1>3. ASSUME NEW i \in 1..n
      PROVE  LastOf(m, keys[i]) \in V /\ LastOf(m, CodePoints(units[i])) \in V
  <2>1. keys[i] \in K /\ keys[i] \in Text /\ CodePoints(units[i]) = keys[i]
    BY <1>1, <1>2, RoundTrip
  <2> QED BY <2>1, LastOfTyped
<1> QED BY <1>2, <1>3

-----------------------------------------------------------------------------
(* What is written is text without control characters, or has the mark of  *)
(* an error in it.                                                         *)
Clean == {c \in Rune : 32 <= c}
Errors == {17 * Plane + n : n \in 0..9}
Printable == Clean \union Errors

LEMMA Ascii ==
  /\ \A n \in 32..199 : n \in Clean
  /\ \A n \in 32..199 : n \in Printable
BY Planes DEF Clean, Printable, Rune

LEMMA CleanPrintable == Clean \subseteq Printable /\ Seq(Clean) \subseteq Seq(Printable)
<1> DEFINE C == Clean
           P == Printable
<1>1. C \subseteq P
  BY DEF Printable
<1> HIDE DEF C, P
<1>2. Seq(C) \subseteq Seq(P)
  BY <1>1
<1> QED BY <1>1, <1>2 DEF C, P

LEMMA HexTyped == \A n \in 0..15 : Hex(n) \in Clean
<1>1. \A n \in 0..15 : Hex(n) \in 32..199
  BY DEF Hex
<1> QED BY <1>1, Ascii

LEMMA LongTyped ==
  ASSUME NEW c \in 0..31
  PROVE  LongEscape(c) \in Seq(Clean)
<1> DEFINE a == Hex(c \div 16)
           b == Hex(c % 16)
<1>1. c \div 16 \in 0..15 /\ c % 16 \in 0..15
  BY SMT
<1>2. a \in Clean /\ b \in Clean
  BY <1>1, HexTyped
<1>3. 92 \in Clean /\ 117 \in Clean /\ 48 \in Clean
  BY Ascii
<1> HIDE DEF a, b
<1>4. <<92, 117, 48, 48, a, b>> \in Seq(Clean)
  BY <1>2, <1>3
<1> QED BY <1>4 DEF LongEscape, a, b

LEMMA RuneTyped ==
  ASSUME NEW c \in Rune
  PROVE  GoRune(c) \in Seq(Clean) /\ GoRune(c) \in Seq(Printable)
<1>0. SUFFICES GoRune(c) \in Seq(Clean)
  BY CleanPrintable
<1>1. CASE c \in {34, 92, 8, 9, 10, 12, 13}
  <2>1. ShortEscape(c) = <<JsEscapes[c]>>
    BY <1>1 DEF ShortEscape, JsEscapes
  <2>2. JsEscapes[c] \in 32..199
    BY <1>1 DEF JsEscapes
  <2> DEFINE n == JsEscapes[c]
  <2>a. n \in Clean /\ ShortEscape(c) = <<n>>
    BY <2>1, <2>2, Ascii
  <2> HIDE DEF n
  <2>3. GoRune(c) = <<92>> \o <<n>>
    BY <2>a DEF GoRune
  <2>4. <<92>> \in Seq(Clean) /\ <<n>> \in Seq(Clean)
    BY <2>a, Ascii
  <2> QED BY <2>3, <2>4, ConcatProperties
<1>2. CASE c \notin {34, 92, 8, 9, 10, 12, 13}
  <2>1. ShortEscape(c) = <<>>
    BY <1>2 DEF ShortEscape
  <2>2. CASE c < 32
    <3>1. c \in 0..31
      BY <2>2 DEF Rune
    <3>2. GoRune(c) = LongEscape(c)
      BY <2>1, <2>2 DEF GoRune
    <3> QED BY <3>1, <3>2, LongTyped
  <2>3. CASE ~(c < 32)
    <3>1. c \in Clean
      BY <2>3 DEF Rune, Clean
    <3>2. GoRune(c) = <<c>>
      BY <2>1, <2>3 DEF GoRune
    <3> QED BY <3>1, <3>2
  <2> QED BY <2>2, <2>3
<1> QED BY <1>1, <1>2

goRune == [c \in Rune |-> GoRune(c)]

LEMMA GoStringIs ==
  ASSUME NEW s \in Text
  PROVE  /\ GoString(s) = <<34>> \o Spread(goRune, s) \o <<34>>
         /\ Spread(goRune, s) \in Seq(Clean) /\ Spread(goRune, s) \in Seq(Printable)
<1>1. \A i \in DOMAIN s : s[i] \in Rune
  BY DEF Text
<1>2. [i \in DOMAIN s |-> GoRune(s[i])] = Map(goRune, s)
  BY <1>1 DEF Map, goRune
<1>3. goRune \in [Rune -> Seq(Clean)]
  BY RuneTyped DEF goRune
<1>4. Spread(goRune, s) \in Seq(Clean)
  BY <1>3, SpreadTyped DEF Text
<1> QED BY <1>2, <1>4, CleanPrintable DEF GoString, Spread

LEMMA StringTyped ==
  ASSUME NEW s \in Text
  PROVE  GoString(s) \in Seq(Clean) /\ GoString(s) \in Seq(Printable)
<1>1. <<34>> \in Seq(Clean)
  BY Ascii
<1>2. <<34>> \o Spread(goRune, s) \in Seq(Clean)
  BY <1>1, GoStringIs, ConcatProperties
<1>3. <<34>> \o Spread(goRune, s) \o <<34>> \in Seq(Clean)
  BY <1>1, <1>2, ConcatProperties
<1> QED BY <1>3, GoStringIs, CleanPrintable

LEMMA ScalarTyped ==
  ASSUME NEW v \in Scalars
  PROVE  /\ GoScalar(v) \in Seq(Printable)
         /\ v.t # "real" => GoScalar(v) \in Seq(Clean)
<1>1. CASE v = Null
  BY <1>1, Ascii DEF Null, GoScalar, Char
<1>2. CASE v \in [t : {"bool"}, b : BOOLEAN]
  <2>1. GoScalar(v) = <<Char(IF v.b THEN "true" ELSE "false")>>
    BY <1>2 DEF GoScalar
  <2>2. Char("true") = 116 /\ Char("false") = 102
    BY DEF Char
  <2>3. GoScalar(v) = <<116>> \/ GoScalar(v) = <<102>>
    BY <2>1, <2>2
  <2>4. <<116>> \in Seq(Clean) /\ <<102>> \in Seq(Clean)
    BY Ascii
  <2> QED BY <2>3, <2>4, CleanPrintable
<1>3. CASE v \in [t : {"num"}, n : 0..9]
  <2>1. GoScalar(v) = <<48 + v.n>> /\ 48 + v.n \in 32..199
    BY <1>3 DEF GoScalar
  <2>2. GoScalar(v) \in Seq(Clean)
    BY <2>1, Ascii
  <2> QED BY <2>2, CleanPrintable
<1>4. CASE v \in [t : {"real"}, n : 0..9]
  <2>1. GoScalar(v) = <<17 * Plane + v.n>> /\ v.t = "real" /\ v.n \in 0..9
    BY <1>4 DEF GoScalar, Failed
  <2>2. 17 * Plane + v.n \in Printable
    BY <2>1 DEF Printable, Errors
  <2> QED BY <2>1, <2>2
<1>5. CASE v \in [t : {"str"}, s : Text]
  BY <1>5, StringTyped DEF GoScalar
<1> QED BY <1>1, <1>2, <1>3, <1>4, <1>5 DEF Scalars

LEMMA JoinedTyped ==
  ASSUME NEW S, NEW ss \in Seq(Seq(S)), 44 \in S
  PROVE  Joined(ss) \in Seq(S)
<1> DEFINE n == Len(ss)
           T == Seq(S)
           q == [i \in DOMAIN ss |-> IF i > 1 THEN <<44>> \o ss[i] ELSE ss[i]]
<1>1. n \in Nat /\ DOMAIN ss = 1..n /\ \A i \in 1..n : ss[i] \in Seq(S)
  BY ElementOfSeq, LenProperties
<1>2. \A i \in 1..n : <<44>> \o ss[i] \in Seq(S)
  BY <1>1, ConcatProperties
<1>3. q \in [1..n -> T]
  BY <1>1, <1>2
<1> HIDE DEF n, T, q
<1>4. q \in Seq(T)
  BY <1>1, <1>3
<1>5. FlattenSeq(q) \in Seq(S)
  BY <1>4, FlattenTyped DEF T
<1> QED BY <1>5 DEF Joined, q

(* The texts of values between brackets or braces.                         *)
LEMMA BracketedIn ==
  ASSUME NEW C, Clean \subseteq C, NEW ss \in Seq(Seq(C))
  PROVE  /\ <<91>> \o Joined(ss) \o <<93>> \in Seq(C)
         /\ <<123>> \o Joined(ss) \o <<125>> \in Seq(C)
<1>1. Joined(ss) \in Seq(C)
  BY JoinedTyped, Ascii
<1>2. /\ <<91>> \in Seq(C) /\ <<93>> \in Seq(C)
      /\ <<123>> \in Seq(C) /\ <<125>> \in Seq(C)
  BY Ascii
<1> QED BY <1>1, <1>2, ConcatProperties

LEMMA GoMembersIn ==
  ASSUME NEW C, Clean \subseteq C, NEW V, NEW m \in Members(V), NEW g \in [V -> Seq(C)]
  PROVE  GoMembers(m, g) \in Seq(Seq(C))
<1> DEFINE K == KeysIn(m)
           n == Cardinality(K)
           keys == SortByUtf16(K)
           T == Seq(C)
           member(k) == GoString(k) \o <<58>> \o g[LastOf(m, k)]
           ms == GoMembers(m, g)
<1>1. IsFiniteSet(K) /\ K \in SUBSET Text
  BY KeysInFinite
<1>2. n \in Nat /\ DOMAIN keys = 1..n /\ \A i \in 1..n : keys[i] \in K
  BY <1>1, KeysAlike
<1>3. ASSUME NEW k \in K PROVE member(k) \in T
  <2>1. GoString(k) \in Seq(C)
    <3>1. GoString(k) \in Seq(Clean)
      BY <1>1, StringTyped
    <3> DEFINE D == Clean
    <3>2. D \subseteq C /\ GoString(k) \in Seq(D)
      BY <3>1
    <3> HIDE DEF D
    <3> QED BY <3>2
  <2>2. LastOf(m, k) \in V
    BY LastOfTyped
  <2>3. g[LastOf(m, k)] \in Seq(C) /\ <<58>> \in Seq(C)
    BY <2>2, Ascii
  <2> QED BY <2>1, <2>3, ConcatProperties
<1>4. ms = [i \in DOMAIN keys |-> member(keys[i])]
  BY DEF GoMembers
<1> HIDE DEF K, n, keys, T, member, ms
<1>5. ms \in [1..n -> T]
  BY <1>2, <1>3, <1>4
<1>6. ms \in Seq(T)
  BY <1>2, <1>5
<1> QED BY <1>6 DEF ms, T

LEMMA Bracketed ==
  ASSUME NEW ss \in Seq(Seq(Printable))
  PROVE  /\ <<91>> \o Joined(ss) \o <<93>> \in Seq(Printable)
         /\ <<123>> \o Joined(ss) \o <<125>> \in Seq(Printable)
BY BracketedIn, CleanPrintable

LEMMA GoMembersTyped ==
  ASSUME NEW V, NEW m \in Members(V), NEW g \in [V -> Seq(Printable)]
  PROVE  GoMembers(m, g) \in Seq(Seq(Printable))
BY GoMembersIn, CleanPrintable

-----------------------------------------------------------------------------
(* What is written can be told apart: no text of a value is the beginning  *)
(* of the text of another.                                                 *)
LEMMA CancelLeft ==
  ASSUME NEW S, NEW a \in Seq(S), NEW b \in Seq(S), NEW c \in Seq(S), a \o b = a \o c
  PROVE  b = c
BY ConcatSimplifications

LEMMA FirstElement ==
  ASSUME NEW S, NEW s \in Seq(S), s # <<>>
  PROVE  \E r \in Seq(S), c \in S : s = <<c>> \o r /\ Len(s) = Len(r) + 1
<1> DEFINE r == Tail(s)
           c == s[1]
           d == <<c>> \o r
<1>1. Len(s) \in Nat /\ Len(s) # 0 /\ c \in S
  BY EmptySeq
<1>2. r \in Seq(S) /\ Len(r) = Len(s) - 1 /\ \A i \in 1..Len(r) : r[i] = s[i + 1]
  BY HeadTailProperties
<1> HIDE DEF r, c
<1>3. d \in Seq(S) /\ Len(d) = Len(s) /\ d[1] = c /\ \A i \in 2..Len(s) : d[i] = r[i - 1]
  BY <1>1, <1>2
<1> HIDE DEF d
<1>4. ASSUME NEW i \in 1..Len(s) PROVE d[i] = s[i]
  <2>1. CASE i = 1
    BY <1>3, <2>1 DEF c
  <2>2. CASE i # 1
    <3>1. i \in 2..Len(s) /\ i - 1 \in 1..Len(r) /\ (i - 1) + 1 = i
      BY <1>1, <1>2, <2>2
    <3> QED BY <1>2, <1>3, <3>1
  <2> QED BY <2>1, <2>2
<1>5. d = s
  BY <1>3, <1>4, SeqEqual
<1> QED BY <1>1, <1>2, <1>5 DEF d

LEMMA Fronted ==
  ASSUME NEW S, NEW G, <<>> \in G,
         \A s \in Seq(S), c \in S : s \in G => <<c>> \o s \in G
  PROVE  \A s \in Seq(S) : s \in G
<1> DEFINE Bad == {n \in Nat : \E s \in Seq(S) : Len(s) = n /\ s \notin G}
<1>1. ASSUME NEW t \in Seq(S), t \notin G PROVE FALSE
  <2>1. Bad # {}
    BY <1>1, LenProperties
  <2>2. PICK m \in Bad : \A n \in Bad : m <= n
    <3>1. Bad \in SUBSET Nat
      OBVIOUS
    <3> HIDE DEF Bad
    <3> QED BY <2>1, <3>1, Least
  <2>3. PICK s \in Seq(S) : Len(s) = m /\ s \notin G
    OBVIOUS
  <2>4. s # <<>>
    BY <2>3
  <2>5. PICK r \in Seq(S), c \in S : s = <<c>> \o r /\ Len(s) = Len(r) + 1
    BY <2>3, <2>4, FirstElement
  <2>6. Len(r) \in Nat
    BY <2>5
  <2>7. r \in G
    <3>1. Len(r) \notin Bad
      <4>1. m \in Nat /\ ~(m <= Len(r))
        BY <2>3, <2>5, <2>6
      <4> HIDE DEF Bad
      <4> QED BY <2>2, <4>1
    <3> QED BY <2>6, <3>1
  <2> QED BY <2>3, <2>5, <2>7
<1> QED BY <1>1

(* Flattening and replacing, from the front.                               *)
LEMMA FlattenCons ==
  ASSUME NEW S, NEW ss \in Seq(Seq(S)), NEW x \in Seq(S)
  PROVE  FlattenSeq(<<x>> \o ss) = x \o FlattenSeq(ss)
<1> DEFINE T == Seq(S)
           G == {qq \in Seq(T) : FlattenSeq(<<x>> \o qq) = x \o FlattenSeq(qq)}
<1>1. x \in T /\ ss \in Seq(T)
  OBVIOUS
<1>2. \A qq \in Seq(T) : FlattenSeq(qq) \in T
  BY FlattenTyped
<1>3. \A qq \in Seq(T), y \in T : FlattenSeq(Append(qq, y)) = FlattenSeq(qq) \o y
  BY FlattenAppend
<1>4. \A a \in T, b \in T, c \in T : (a \o b) \o c = a \o (b \o c)
  BY ConcatAssociative, SMTT(30)
<1>5. x \o <<>> = x /\ <<>> \o x = x
  BY <1>1, ConcatEmptySeq
<1> HIDE DEF T
<1>6. <<>> \in G
  <2>1. <<>> \in Seq(T) /\ Append(<<>>, x) = <<x>> /\ <<x>> \o <<>> = <<x>>
    BY <1>1
  <2>2. FlattenSeq(<<x>>) = FlattenSeq(<<>>) \o x
    BY <1>1, <1>3, <2>1
  <2> QED BY <1>5, <2>1, <2>2, FlattenEmpty
<1>7. ASSUME NEW qq \in Seq(T), NEW y \in T, qq \in G
      PROVE  Append(qq, y) \in G
  <2>1. <<x>> \in Seq(T) /\ <<x>> \o qq \in Seq(T) /\ Append(qq, y) \in Seq(T)
    BY <1>1, ConcatProperties
  <2>2. <<x>> \o Append(qq, y) = Append(<<x>> \o qq, y)
    <3>1. <<y>> \in Seq(T)
      OBVIOUS
    <3>2. (<<x>> \o qq) \o <<y>> = <<x>> \o (qq \o <<y>>)
      BY <2>1, <3>1, ConcatAssociative
    <3>3. (<<x>> \o qq) \o <<y>> = Append(<<x>> \o qq, y) /\ qq \o <<y>> = Append(qq, y)
      BY <2>1, AppendIsConcat
    <3> QED BY <3>2, <3>3
  <2>3. FlattenSeq(<<x>> \o Append(qq, y)) = FlattenSeq(<<x>> \o qq) \o y
    BY <1>3, <2>1, <2>2
  <2>4. FlattenSeq(Append(qq, y)) = FlattenSeq(qq) \o y
    BY <1>3
  <2>5. (x \o FlattenSeq(qq)) \o y = x \o (FlattenSeq(qq) \o y)
    BY <1>1, <1>2, <1>4
  <2> QED BY <1>7, <2>1, <2>3, <2>4, <2>5
<1> HIDE DEF G
<1>8. ss \in G
  BY <1>1, <1>6, <1>7, Growing
<1> QED BY <1>8 DEF G

LEMMA MapCons ==
  ASSUME NEW S, NEW T, NEW f \in [S -> T], NEW s \in Seq(S), NEW c \in S
  PROVE  Map(f, <<c>> \o s) = <<f[c]>> \o Map(f, s)
<1> DEFINE n == Len(s)
           sc == <<c>> \o s
           a == Map(f, s)
           b == Map(f, sc)
           x == f[c]
           d == <<x>> \o a
<1>1. /\ n \in Nat /\ sc \in Seq(S) /\ Len(sc) = n + 1 /\ sc[1] = c
      /\ \A i \in 2..(n + 1) : sc[i] = s[i - 1]
  OBVIOUS
<1>2. a \in Seq(T) /\ Len(a) = n /\ \A i \in 1..n : a[i] = f[s[i]]
  BY Mapped, MapAt
<1> HIDE DEF sc
<1>3. b \in Seq(T) /\ Len(b) = n + 1 /\ \A i \in 1..(n + 1) : b[i] = f[sc[i]]
  <2>1. b \in Seq(T)
    BY <1>1, Mapped
  <2>2. Len(b) = Len(sc) /\ \A i \in 1..Len(sc) : b[i] = f[sc[i]]
    BY <1>1, MapAt
  <2> QED BY <1>1, <2>1, <2>2
<1>4. x \in T
  OBVIOUS
<1> HIDE DEF a, b, x
<1>5. d \in Seq(T) /\ Len(d) = n + 1 /\ d[1] = x /\ \A i \in 2..(n + 1) : d[i] = a[i - 1]
  BY <1>1, <1>2, <1>4
<1> HIDE DEF d, n
<1>6. ASSUME NEW i \in 1..(n + 1) PROVE b[i] = d[i]
  <2>1. CASE i = 1
    BY <1>1, <1>3, <1>5, <2>1 DEF x
  <2>2. CASE i # 1
    <3>1. i \in 2..(n + 1) /\ i - 1 \in 1..n
      BY <1>1, <2>2
    <3>2. b[i] = f[sc[i]] /\ sc[i] = s[i - 1]
      BY <1>1, <1>3, <3>1
    <3>3. d[i] = a[i - 1] /\ a[i - 1] = f[s[i - 1]]
      BY <1>2, <1>5, <3>1
    <3> QED BY <3>2, <3>3
  <2> QED BY <2>1, <2>2
<1>7. b = d
  BY <1>3, <1>5, <1>6, SeqEqual
<1> QED BY <1>7 DEF a, b, d, x, sc

LEMMA SpreadCons ==
  ASSUME NEW S, NEW T, NEW f \in [S -> Seq(T)], NEW s \in Seq(S), NEW c \in S
  PROVE  Spread(f, <<c>> \o s) = f[c] \o Spread(f, s)
<1>1. Map(f, <<c>> \o s) = <<f[c]>> \o Map(f, s)
  BY MapCons, ZenonT(30)
<1>2. Map(f, s) \in Seq(Seq(T)) /\ f[c] \in Seq(T)
  BY Mapped
<1> QED BY <1>1, <1>2, FlattenCons DEF Spread

(* The escapes of strings.                                                 *)
Short == {34, 92, 8, 9, 10, 12, 13}

LEMMA ShortIs ==
  ASSUME NEW c \in Short
  PROVE  /\ GoRune(c) = <<92, JsEscapes[c]>>
         /\ JsEscapes[c] \in Nat /\ JsEscapes[c] # 117
<1>1. ShortEscape(c) = <<JsEscapes[c]>>
  BY DEF ShortEscape, JsEscapes, Short
<1>2. GoRune(c) = <<92>> \o <<JsEscapes[c]>>
  BY <1>1 DEF GoRune
<1>3. JsEscapes[c] \in Nat /\ JsEscapes[c] # 117
  BY DEF JsEscapes, Short
<1> QED BY <1>2, <1>3, TwoElements

LEMMA ShortApart ==
  ASSUME NEW c \in Short, NEW d \in Short, JsEscapes[c] = JsEscapes[d]
  PROVE  c = d
<1>1. /\ JsEscapes[34] = 34 /\ JsEscapes[92] = 92 /\ JsEscapes[8] = 98 /\ JsEscapes[9] = 116
      /\ JsEscapes[10] = 110 /\ JsEscapes[12] = 102 /\ JsEscapes[13] = 114
  BY DEF JsEscapes
<1> QED BY <1>1 DEF Short

LEMMA OtherIs ==
  ASSUME NEW c \in Rune, c \notin Short
  PROVE  /\ c < 32 => c \in 0..31 /\ GoRune(c) = LongEscape(c)
         /\ ~(c < 32) => c \in Printable /\ GoRune(c) = <<c>>
<1>1. ShortEscape(c) = <<>>
  BY DEF Short, ShortEscape
<1> QED BY <1>1 DEF GoRune, Rune, Printable, Clean

LEMMA SixteenHalves ==
  ASSUME NEW c \in 0..31
  PROVE  /\ c \div 16 \in 0..15 /\ c % 16 \in 0..15
         /\ c % 16 = c - 16 * (c \div 16)
<1>1. c \in Nat
  OBVIOUS
<1>2. c % 16 = c - 16 * (c \div 16)
  BY <1>1, SMT
<1>3. c \div 16 \in 0..15 /\ c % 16 \in 0..15
  BY SMT
<1> QED BY <1>2, <1>3

LEMMA HexApart ==
  ASSUME NEW a \in 0..15, NEW b \in 0..15, Hex(a) = Hex(b)
  PROVE  a = b
BY DEF Hex

LEMMA LongApart ==
  ASSUME NEW c \in 0..31, NEW d \in 0..31,
         Hex(c \div 16) = Hex(d \div 16), Hex(c % 16) = Hex(d % 16)
  PROVE  c = d
<1> DEFINE p == c \div 16
           q == c % 16
           u == d \div 16
           v == d % 16
<1>1. p \in 0..15 /\ q \in 0..15 /\ q = c - 16 * p
  BY SixteenHalves
<1>2. u \in 0..15 /\ v \in 0..15 /\ v = d - 16 * u
  BY SixteenHalves
<1>3. Hex(p) = Hex(u) /\ Hex(q) = Hex(v)
  OBVIOUS
<1> HIDE DEF p, q, u, v
<1>4. p = u /\ q = v
  BY <1>1, <1>2, <1>3, HexApart
<1> QED BY <1>1, <1>2, <1>4

(* Where two texts are put one behind the other, the first can be read.    *)
LEMMA Readable ==
  ASSUME NEW S, NEW a \in Seq(S), NEW r \in Seq(S), NEW i \in 1..Len(a)
  PROVE  (a \o r)[i] = a[i]
BY ConcatProperties

LEMMA RuneApart ==
  ASSUME NEW c \in Rune, NEW d \in Rune, NEW r \in Seq(Printable), NEW q \in Seq(Printable),
         GoRune(c) \o r = GoRune(d) \o q
  PROVE  c = d
<1> DEFINE a == GoRune(c)
           b == GoRune(d)
           x == a \o r
<1>1. a \in Seq(Printable) /\ b \in Seq(Printable) /\ x = b \o q
  BY RuneTyped
<1> HIDE DEF a, b, x
<1>2. /\ \A i \in 1..Len(a) : x[i] = a[i]
      /\ \A i \in 1..Len(b) : x[i] = b[i]
  BY <1>1, Readable DEF x
<1>3. CASE c \in Short
  <2>1. Len(a) = 2 /\ a[1] = 92 /\ a[2] = JsEscapes[c] /\ JsEscapes[c] # 117
    BY <1>3, ShortIs DEF a
  <2>2. x[1] = 92 /\ x[2] = JsEscapes[c]
    BY <1>2, <2>1
  <2>3. CASE d \in Short
    <3>1. Len(b) = 2 /\ b[2] = JsEscapes[d]
      BY <2>3, ShortIs DEF b
    <3>2. JsEscapes[c] = JsEscapes[d]
      BY <1>2, <2>2, <3>1
    <3> QED BY <1>3, <2>3, <3>2, ShortApart
  <2>4. CASE d \notin Short /\ d < 32
    <3>1. Len(b) = 6 /\ b[2] = 117
      BY <2>4, OtherIs DEF b, LongEscape
    <3> QED BY <1>2, <2>1, <2>2, <3>1
  <2>5. CASE d \notin Short /\ ~(d < 32)
    <3>1. Len(b) = 1 /\ b[1] = d /\ d # 92
      BY <2>5, OtherIs DEF b, Short
    <3> QED BY <1>2, <2>2, <3>1
  <2> QED BY <2>3, <2>4, <2>5
<1>4. CASE c \notin Short /\ c < 32
  <2>1. /\ c \in 0..31 /\ Len(a) = 6 /\ a[1] = 92 /\ a[2] = 117
        /\ a[5] = Hex(c \div 16) /\ a[6] = Hex(c % 16)
    BY <1>4, OtherIs DEF a, LongEscape
  <2>2. x[1] = 92 /\ x[2] = 117 /\ x[5] = Hex(c \div 16) /\ x[6] = Hex(c % 16)
    BY <1>2, <2>1
  <2>3. CASE d \in Short
    <3>1. Len(b) = 2 /\ b[2] = JsEscapes[d] /\ JsEscapes[d] # 117
      BY <2>3, ShortIs DEF b
    <3> QED BY <1>2, <2>2, <3>1
  <2>4. CASE d \notin Short /\ d < 32
    <3>1. /\ d \in 0..31 /\ Len(b) = 6
          /\ b[5] = Hex(d \div 16) /\ b[6] = Hex(d % 16)
      BY <2>4, OtherIs DEF b, LongEscape
    <3>2. Hex(c \div 16) = Hex(d \div 16) /\ Hex(c % 16) = Hex(d % 16)
      BY <1>2, <2>2, <3>1
    <3> QED BY <2>1, <3>1, <3>2, LongApart
  <2>5. CASE d \notin Short /\ ~(d < 32)
    <3>1. Len(b) = 1 /\ b[1] = d /\ d # 92
      BY <2>5, OtherIs DEF b, Short
    <3> QED BY <1>2, <2>2, <3>1
  <2> QED BY <2>3, <2>4, <2>5
<1>5. CASE c \notin Short /\ ~(c < 32)
  <2>1. Len(a) = 1 /\ a[1] = c /\ c # 92
    BY <1>5, OtherIs DEF a, Short
  <2>2. x[1] = c
    BY <1>2, <2>1
  <2>3. CASE d \in Short
    <3>1. Len(b) = 2 /\ b[1] = 92
      BY <2>3, ShortIs DEF b
    <3> QED BY <1>2, <2>1, <2>2, <3>1
  <2>4. CASE d \notin Short /\ d < 32
    <3>1. Len(b) = 6 /\ b[1] = 92
      BY <2>4, OtherIs DEF b, LongEscape
    <3> QED BY <1>2, <2>1, <2>2, <3>1
  <2>5. CASE d \notin Short /\ ~(d < 32)
    <3>1. Len(b) = 1 /\ b[1] = d
      BY <2>5, OtherIs DEF b
    <3> QED BY <1>2, <2>2, <3>1
  <2> QED BY <2>3, <2>4, <2>5
<1> QED BY <1>3, <1>4, <1>5

LEMMA RuneStart ==
  ASSUME NEW c \in Rune, NEW r \in Seq(Printable)
  PROVE  (GoRune(c) \o r)[1] # 34
<1> DEFINE a == GoRune(c)
<1>1. a \in Seq(Printable)
  BY RuneTyped
<1>2. Len(a) >= 1 /\ Len(a) \in Nat /\ a[1] # 34
  <2>1. CASE c \in Short
    <3>1. Len(a) = 2 /\ a[1] = 92
      BY <2>1, ShortIs
    <3> QED BY <3>1
  <2>2. CASE c \notin Short /\ c < 32
    <3>1. Len(a) = 6 /\ a[1] = 92
      BY <2>2, OtherIs DEF LongEscape
    <3> QED BY <3>1
  <2>3. CASE c \notin Short /\ ~(c < 32)
    <3>1. Len(a) = 1 /\ a[1] = c /\ c # 34
      BY <2>3, OtherIs DEF Short
    <3> QED BY <3>1
  <2> QED BY <2>1, <2>2, <2>3
<1> HIDE DEF a
<1>3. (a \o r)[1] = a[1]
  <2>1. 1 \in 1..Len(a)
    BY <1>2
  <2> QED BY <1>1, <2>1, Readable
<1> QED BY <1>2, <1>3 DEF a

Body(s) == Spread(goRune, s)

LEMMA BodyIs ==
  /\ Body(<<>>) = <<>>
  /\ \A s \in Seq(Rune) : Body(s) \in Seq(Printable)
  /\ \A s \in Seq(Rune), c \in Rune : Body(<<c>> \o s) = GoRune(c) \o Body(s)
<1>1. goRune \in [Rune -> Seq(Printable)] /\ \A c \in Rune : goRune[c] = GoRune(c)
  BY RuneTyped DEF goRune
<1>2. \A s \in Seq(Rune) : Body(s) \in Seq(Printable)
  BY <1>1, SpreadTyped DEF Body
<1>3. ASSUME NEW s \in Seq(Rune), NEW c \in Rune
      PROVE  Body(<<c>> \o s) = GoRune(c) \o Body(s)
  <2>1. Spread(goRune, <<c>> \o s) = goRune[c] \o Spread(goRune, s)
    BY <1>1, SpreadCons, ZenonT(30)
  <2> QED BY <1>1, <2>1 DEF Body
<1>4. Body(<<>>) = <<>>
  BY SpreadEmpty DEF Body
<1> QED BY <1>2, <1>3, <1>4

LEMMA BodyCons ==
  ASSUME NEW s \in Seq(Rune), NEW c \in Rune, NEW r \in Seq(Printable)
  PROVE  /\ Body(<<c>> \o s) \o r = GoRune(c) \o (Body(s) \o r)
         /\ Body(s) \o r \in Seq(Printable)
         /\ (Body(<<c>> \o s) \o r)[1] # 34
<1> DEFINE a == GoRune(c)
           b == Body(s)
<1>1. a \in Seq(Printable) /\ b \in Seq(Printable) /\ Body(<<c>> \o s) = a \o b
  BY RuneTyped, BodyIs
<1> HIDE DEF a, b
<1>2. (a \o b) \o r = a \o (b \o r)
  BY <1>1, ConcatAssociative
<1>3. b \o r \in Seq(Printable)
  BY <1>1, ConcatProperties
<1>4. (a \o (b \o r))[1] # 34
  BY <1>3, RuneStart DEF a
<1> QED BY <1>1, <1>2, <1>3, <1>4 DEF a, b

Quoted(r) == <<34>> \o r

LEMMA QuotedIs ==
  ASSUME NEW r \in Seq(Printable)
  PROVE  Quoted(r) \in Seq(Printable) /\ Quoted(r)[1] = 34 /\ Body(<<>>) \o Quoted(r) = Quoted(r)
<1>1. <<34>> \in Seq(Printable)
  BY Ascii
<1>2. Quoted(r) \in Seq(Printable)
  BY <1>1, ConcatProperties DEF Quoted
<1>3. Quoted(r)[1] = 34
  BY DEF Quoted
<1>4. <<>> \o Quoted(r) = Quoted(r)
  BY <1>2, ConcatEmptySeq
<1> QED BY <1>2, <1>3, <1>4, BodyIs

LEMMA RuneCancel ==
  ASSUME NEW c \in Rune, NEW d \in Rune, NEW r \in Seq(Printable), NEW q \in Seq(Printable),
         GoRune(c) \o r = GoRune(d) \o q
  PROVE  c = d /\ r = q
<1>1. c = d
  BY RuneApart
<1>2. GoRune(c) \in Seq(Printable)
  BY RuneTyped
<1>3. GoRune(c) \o r = GoRune(c) \o q
  BY <1>1
<1> QED BY <1>1, <1>2, <1>3, CancelLeft

Same(a, b) ==
  \E x \in Seq(Printable), y \in Seq(Printable) : Body(a) \o Quoted(x) = Body(b) \o Quoted(y)

LEMMA SameEmpty ==
  ASSUME NEW b \in Seq(Rune), Same(<<>>, b) \/ Same(b, <<>>)
  PROVE  b = <<>>
<1>1. PICK x \in Seq(Printable), y \in Seq(Printable) : Body(<<>>) \o Quoted(x) = Body(b) \o Quoted(y)
  BY DEF Same
<1>2. (Body(b) \o Quoted(y))[1] = 34
  <2>1. Body(<<>>) \o Quoted(x) = Quoted(x) /\ Quoted(x)[1] = 34
    BY QuotedIs
  <2> QED BY <1>1, <2>1
<1>3. ASSUME b # <<>> PROVE FALSE
  <2>1. PICK a \in Seq(Rune), c \in Rune : b = <<c>> \o a /\ Len(b) = Len(a) + 1
    BY <1>3, FirstElement
  <2>2. Quoted(y) \in Seq(Printable)
    BY QuotedIs
  <2>3. (Body(<<c>> \o a) \o Quoted(y))[1] # 34
    BY <2>2, BodyCons
  <2> QED BY <1>2, <2>1, <2>3
<1> QED BY <1>3

LEMMA SameNext ==
  ASSUME NEW a \in Seq(Rune), NEW b \in Seq(Rune), NEW c \in Rune, NEW d \in Rune,
         Same(<<c>> \o a, <<d>> \o b)
  PROVE  c = d /\ Same(a, b)
<1>1. PICK x \in Seq(Printable), y \in Seq(Printable) :
        Body(<<c>> \o a) \o Quoted(x) = Body(<<d>> \o b) \o Quoted(y)
  BY DEF Same
<1>2. Quoted(x) \in Seq(Printable) /\ Quoted(y) \in Seq(Printable)
  BY QuotedIs
<1>3. /\ Body(<<c>> \o a) \o Quoted(x) = GoRune(c) \o (Body(a) \o Quoted(x))
      /\ Body(a) \o Quoted(x) \in Seq(Printable)
  BY <1>2, BodyCons
<1>4. /\ Body(<<d>> \o b) \o Quoted(y) = GoRune(d) \o (Body(b) \o Quoted(y))
      /\ Body(b) \o Quoted(y) \in Seq(Printable)
  BY <1>2, BodyCons
<1>5. c = d /\ Body(a) \o Quoted(x) = Body(b) \o Quoted(y)
  <2> DEFINE p == Body(a) \o Quoted(x)
             q == Body(b) \o Quoted(y)
  <2>1. p \in Seq(Printable) /\ q \in Seq(Printable) /\ GoRune(c) \o p = GoRune(d) \o q
    BY <1>1, <1>3, <1>4
  <2> HIDE DEF p, q
  <2>2. c = d /\ p = q
    BY <2>1, RuneCancel
  <2> QED BY <2>2 DEF p, q
<1> QED BY <1>5 DEF Same

LEMMA SameEqual ==
  ASSUME NEW s \in Seq(Rune), NEW t \in Seq(Rune), Same(s, t)
  PROVE  s = t
<1> DEFINE G == {a \in Seq(Rune) : \A b \in Seq(Rune) : Same(a, b) => a = b}
<1>1. <<>> \in G
  BY SameEmpty
<1>2. ASSUME NEW a \in Seq(Rune), NEW c \in Rune, a \in G
      PROVE  <<c>> \o a \in G
  <2>1. <<c>> \o a \in Seq(Rune) /\ <<c>> \o a # <<>>
    OBVIOUS
  <2>2. ASSUME NEW b \in Seq(Rune), Same(<<c>> \o a, b)
        PROVE  <<c>> \o a = b
    <3>1. b # <<>>
      BY <2>1, <2>2, SameEmpty
    <3>2. PICK e \in Seq(Rune), d \in Rune : b = <<d>> \o e /\ Len(b) = Len(e) + 1
      BY <3>1, FirstElement
    <3>3. c = d /\ Same(a, e)
      BY <2>2, <3>2, SameNext
    <3>4. a = e
      BY <1>2, <3>3
    <3> QED BY <3>2, <3>3, <3>4
  <2> QED BY <2>1, <2>2
<1> HIDE DEF G
<1>3. s \in G
  BY <1>1, <1>2, Fronted
<1> QED BY <1>3 DEF G

LEMMA StringIs ==
  ASSUME NEW s \in Text, NEW r \in Seq(Printable)
  PROVE  /\ GoString(s) \o r = <<34>> \o (Body(s) \o Quoted(r))
         /\ Body(s) \o Quoted(r) \in Seq(Printable)
         /\ GoString(s) \in Seq(Printable)
<1> DEFINE quote == <<34>>
           b == Body(s)
<1>1. GoString(s) = quote \o b \o quote /\ b \in Seq(Printable)
  BY GoStringIs DEF Body
<1>2. quote \in Seq(Printable)
  BY Ascii
<1> HIDE DEF quote, b
<1>3. quote \o b \in Seq(Printable) /\ quote \o r \in Seq(Printable)
  BY <1>1, <1>2, ConcatProperties
<1>4. b \o (quote \o r) \in Seq(Printable) /\ (quote \o b) \o quote \in Seq(Printable)
  BY <1>1, <1>2, <1>3, ConcatProperties
<1>5. ((quote \o b) \o quote) \o r = (quote \o b) \o (quote \o r)
  BY <1>2, <1>3, ConcatAssociative, SMTT(30)
<1>6. (quote \o b) \o (quote \o r) = quote \o (b \o (quote \o r))
  <2> DEFINE z == quote \o r
  <2>1. z \in Seq(Printable)
    BY <1>3
  <2> HIDE DEF z
  <2>a. b \in Seq(Printable)
    BY <1>1
  <2>2. (quote \o b) \o z = quote \o (b \o z)
    BY ONLY <1>2, <2>a, <2>1, ConcatAssociative, SMTT(30)
  <2> QED BY <2>2 DEF z
<1> QED BY <1>1, <1>4, <1>5, <1>6 DEF quote, b, Quoted

(* A name for it keeps the provers from comparing element by element.      *)
Cat(x, y) == x \o y

(* A string in the text can be read back, whatever comes behind it.        *)
LEMMA StringApart ==
  ASSUME NEW s \in Text, NEW t \in Text, NEW r \in Seq(Printable), NEW q \in Seq(Printable),
         Cat(GoString(s), r) = Cat(GoString(t), q)
  PROVE  s = t /\ r = q
<1>0. GoString(s) \o r = GoString(t) \o q
  BY DEF Cat
<1> DEFINE x == Body(s) \o Quoted(r)
           y == Body(t) \o Quoted(q)
           quote == <<34>>
<1>a. GoString(s) \o r = quote \o x /\ x \in Seq(Printable)
  BY StringIs
<1>b. GoString(t) \o q = quote \o y /\ y \in Seq(Printable)
  BY StringIs
<1>c. quote \in Seq(Printable)
  BY Ascii
<1> HIDE DEF x, y, quote
<1>1. x \in Seq(Printable) /\ y \in Seq(Printable) /\ quote \o x = quote \o y /\ quote \in Seq(Printable)
  BY <1>0, <1>a, <1>b, <1>c
<1>2. x = y
  BY <1>1, CancelLeft
<1>3. Same(s, t)
  BY <1>2 DEF Same, x, y
<1>4. s = t
  BY <1>3, SameEqual DEF Text
<1>5. GoString(s) \in Seq(Printable)
  BY StringIs
<1>6. GoString(s) \o r = GoString(s) \o q
  BY <1>0, <1>4
<1>7. r = q
  BY <1>5, <1>6, CancelLeft
<1> QED BY <1>4, <1>7

(* A set of texts none of which is the beginning of another.               *)
PrefixFree(D) ==
  /\ D \subseteq Seq(Printable)
  /\ \A x \in D : x # <<>>
  /\ \A x \in D, y \in D : \A r \in Seq(Printable), q \in Seq(Printable) : x \o r = y \o q => x = y

(* Each kind of value begins with a character of its own.                  *)
Mark(v) ==
  CASE v.t = "null" -> 110
    [] v.t = "bool" -> IF v.b THEN 116 ELSE 102
    [] v.t = "num" -> 48 + v.n
    [] v.t = "real" -> 17 * Plane + v.n
    [] v.t = "str" -> 34

LEMMA StringBegins ==
  ASSUME NEW s \in Text
  PROVE  GoString(s) \in Seq(Printable) /\ GoString(s) # <<>> /\ GoString(s)[1] = 34
<1>1. GoString(s) = <<34>> \o Body(s) \o <<34>> /\ Body(s) \in Seq(Printable)
  BY GoStringIs DEF Body
<1>2. GoString(s) \in Seq(Printable)
  BY StringTyped
<1>3. \A b \in Seq(Printable) : <<34>> \o b \o <<34>> # <<>> /\ (<<34>> \o b \o <<34>>)[1] = 34
  OBVIOUS
<1> QED BY <1>1, <1>2, <1>3

LEMMA ScalarIs ==
  ASSUME NEW v \in Scalars
  PROVE  \/ v.t = "str" /\ v = Str(v.s) /\ v.s \in Text /\ GoScalar(v) = GoString(v.s) /\ Mark(v) = 34
         \/ v.t # "str" /\ Mark(v) # 34 /\ GoScalar(v) = <<Mark(v)>>
<1>1. CASE v = Null
  BY <1>1 DEF Null, GoScalar, Char, Mark
<1>2. CASE v \in [t : {"bool"}, b : BOOLEAN]
  <2>1. GoScalar(v) = <<Char(IF v.b THEN "true" ELSE "false")>> /\ Mark(v) = IF v.b THEN 116 ELSE 102
    BY <1>2 DEF GoScalar, Mark
  <2>2. Char("true") = 116 /\ Char("false") = 102
    BY DEF Char
  <2>3. CASE v.b
    BY <1>2, <2>1, <2>2, <2>3
  <2>4. CASE ~v.b
    BY <1>2, <2>1, <2>2, <2>4
  <2> QED BY <2>3, <2>4
<1>3. CASE v \in [t : {"num"}, n : 0..9]
  BY <1>3 DEF GoScalar, Mark
<1>4. CASE v \in [t : {"real"}, n : 0..9]
  BY <1>4, Planes DEF GoScalar, Failed, Mark
<1>5. CASE v \in [t : {"str"}, s : Text]
  BY <1>5 DEF GoScalar, Mark, Str
<1> QED BY <1>1, <1>2, <1>3, <1>4, <1>5 DEF Scalars

LEMMA MarkIs ==
  ASSUME NEW v \in Scalars
  PROVE  GoScalar(v) # <<>> /\ GoScalar(v)[1] = Mark(v)
<1>1. CASE v.t = "str"
  BY <1>1, ScalarIs, StringBegins
<1>2. CASE v.t # "str"
  <2>1. GoScalar(v) = <<Mark(v)>>
    BY <1>2, ScalarIs
  <2> QED BY <2>1
<1> QED BY <1>1, <1>2

(* The value a mark is of.                                                 *)
Marked(x) ==
  IF x = 110 THEN Null
  ELSE IF x = 116 THEN Bool(TRUE)
  ELSE IF x = 102 THEN Bool(FALSE)
  ELSE IF x < 100 THEN Num(x - 48)
  ELSE Real(x - 17 * Plane)

LEMMA MarkedWord == Marked(110) = Null /\ Marked(116) = Bool(TRUE) /\ Marked(102) = Bool(FALSE)
BY DEF Marked

LEMMA MarkedNum ==
  ASSUME NEW n \in 0..9, NEW m, m = 48 + n
  PROVE  m # 34 /\ Marked(m) = Num(n)
<1>1. m \in Nat /\ m < 100 /\ m # 34 /\ m - 48 = n
  OBVIOUS
<1>2. m # 110 /\ m # 116 /\ m # 102
  BY <1>1
<1>3. Marked(m) = Num(m - 48)
  BY <1>1, <1>2 DEF Marked
<1> QED BY <1>1, <1>3

LEMMA MarkedReal ==
  ASSUME NEW n \in 0..9, NEW m, m = 17 * Plane + n
  PROVE  m # 34 /\ Marked(m) = Real(n)
<1>1. m \in Nat /\ m > 200 /\ m - 17 * Plane = n
  BY Planes
<1>2. m # 34 /\ m # 110 /\ m # 116 /\ m # 102 /\ ~(m < 100)
  BY <1>1
<1>3. Marked(m) = Real(m - 17 * Plane)
  BY <1>1, <1>2 DEF Marked
<1> QED BY <1>1, <1>2, <1>3

LEMMA MarkTells ==
  ASSUME NEW v \in Scalars
  PROVE  IF v.t = "str" THEN Mark(v) = 34 ELSE Mark(v) # 34 /\ Marked(Mark(v)) = v
<1>1. CASE v = Null
  <2>1. v.t = "null" /\ Mark(v) = 110
    BY <1>1 DEF Mark, Null
  <2> QED BY <1>1, <2>1, MarkedWord
<1>2. CASE v \in [t : {"bool"}, b : BOOLEAN]
  <2>1. v.t = "bool" /\ v = Bool(v.b) /\ v.b \in BOOLEAN
    BY <1>2 DEF Bool
  <2>2. Mark(v) = IF v.b THEN 116 ELSE 102
    BY <2>1 DEF Mark
  <2>3. CASE v.b = TRUE
    <3>1. v = Bool(TRUE)
      BY <2>1, <2>3, Zenon
    <3>2. Mark(v) = 116
      BY <2>2, <2>3, Zenon
    <3>3. Mark(v) # 34
      BY <3>2
    <3>4. Marked(Mark(v)) = v
      BY <3>1, <3>2, MarkedWord, Zenon
    <3> QED BY <2>1, <3>3, <3>4
  <2>4. CASE v.b = FALSE
    <3>1. v = Bool(FALSE)
      BY <2>1, <2>4, Zenon
    <3>2. Mark(v) = 102
      BY <2>2, <2>4, Zenon
    <3>3. Mark(v) # 34
      BY <3>2
    <3>4. Marked(Mark(v)) = v
      BY <3>1, <3>2, MarkedWord, Zenon
    <3> QED BY <2>1, <3>3, <3>4
  <2> QED BY <2>1, <2>3, <2>4
<1>3. CASE v \in [t : {"num"}, n : 0..9]
  <2>1. v.t = "num" /\ v = Num(v.n) /\ v.n \in 0..9
    BY <1>3 DEF Num
  <2>2. Mark(v) = 48 + v.n
    BY <2>1 DEF Mark
  <2>3. Mark(v) # 34 /\ Marked(Mark(v)) = Num(v.n)
    BY <2>1, <2>2, MarkedNum
  <2> QED BY <2>1, <2>3
<1>4. CASE v \in [t : {"real"}, n : 0..9]
  <2>1. v.t = "real" /\ v = Real(v.n) /\ v.n \in 0..9
    BY <1>4 DEF Real
  <2>2. Mark(v) = 17 * Plane + v.n
    BY <2>1 DEF Mark
  <2>3. Mark(v) # 34 /\ Marked(Mark(v)) = Real(v.n)
    BY <2>1, <2>2, MarkedReal
  <2> QED BY <2>1, <2>3
<1>5. CASE v \in [t : {"str"}, s : Text]
  BY <1>5 DEF Mark
<1> QED BY <1>1, <1>2, <1>3, <1>4, <1>5 DEF Scalars

LEMMA MarkApart ==
  ASSUME NEW v \in Scalars, NEW w \in Scalars, Mark(v) = Mark(w), v.t # "str"
  PROVE  v = w
<1>1. Mark(v) # 34 /\ Marked(Mark(v)) = v
  BY MarkTells
<1>2. w.t # "str"
  BY <1>1, MarkTells
<1>3. Marked(Mark(w)) = w
  BY <1>2, MarkTells
<1> QED BY <1>1, <1>3

LEMMA ScalarApart ==
  ASSUME NEW v \in Scalars, NEW w \in Scalars, NEW r \in Seq(Printable), NEW q \in Seq(Printable),
         GoScalar(v) \o r = GoScalar(w) \o q
  PROVE  v = w
<1> DEFINE a == GoScalar(v)
           b == GoScalar(w)
<1>1. a \in Seq(Printable) /\ a # <<>> /\ a[1] = Mark(v)
  BY ScalarTyped, MarkIs
<1>2. b \in Seq(Printable) /\ b # <<>> /\ b[1] = Mark(w)
  BY ScalarTyped, MarkIs
<1>3. a \o r = b \o q
  OBVIOUS
<1>4. Mark(v) = Mark(w)
  <2> HIDE DEF a, b
  <2>1. (a \o r)[1] = a[1]
    BY <1>1
  <2>2. (b \o q)[1] = b[1]
    BY <1>2
  <2> QED BY <1>1, <1>2, <1>3, <2>1, <2>2
<1>5. CASE v.t # "str"
  BY <1>4, <1>5, MarkApart
<1>6. CASE v.t = "str"
  <2>1. w.t = "str"
    BY <1>4, <1>6, ScalarIs
  <2>2. Cat(GoString(v.s), r) = Cat(GoString(w.s), q) /\ v.s \in Text /\ w.s \in Text
    BY <1>6, <2>1, ScalarIs DEF Cat
  <2>3. v.s = w.s
    BY <2>2, StringApart
  <2> QED BY <1>6, <2>1, <2>3, ScalarIs
<1> QED BY <1>5, <1>6

ScalarTexts == {GoScalar(v) : v \in Scalars}

LEMMA ScalarTextsFree == PrefixFree(ScalarTexts)
BY ScalarTyped, MarkIs, ScalarApart DEF PrefixFree, ScalarTexts

(* Texts with commas between them.                                         *)
comma == [x \in Seq(Printable) |-> <<44>> \o x]
Rest(ss) == Spread(comma, ss)

LEMMA CommaTyped ==
  /\ comma \in [Seq(Printable) -> Seq(Printable)]
  /\ \A x \in Seq(Printable) : comma[x] = <<44>> \o x
<1>1. <<44>> \in Seq(Printable)
  BY Ascii
<1>2. \A x \in Seq(Printable) : <<44>> \o x \in Seq(Printable)
  BY <1>1, ConcatProperties
<1> QED BY <1>2 DEF comma

LEMMA RestIs ==
  /\ Rest(<<>>) = <<>>
  /\ \A ss \in Seq(Seq(Printable)) : Rest(ss) \in Seq(Printable)
  /\ \A ss \in Seq(Seq(Printable)), x \in Seq(Printable) :
       Rest(<<x>> \o ss) = (<<44>> \o x) \o Rest(ss)
<1> DEFINE T == Seq(Printable)
<1>1. comma \in [T -> Seq(Printable)] /\ \A x \in T : comma[x] = <<44>> \o x
  BY CommaTyped
<1> HIDE DEF T
<1>2. \A ss \in Seq(T) : Rest(ss) \in Seq(Printable)
  BY <1>1, SpreadTyped DEF Rest
<1>3. ASSUME NEW ss \in Seq(T), NEW x \in T
      PROVE  Rest(<<x>> \o ss) = (<<44>> \o x) \o Rest(ss)
  <2>1. Spread(comma, <<x>> \o ss) = comma[x] \o Spread(comma, ss)
    BY <1>1, SpreadCons, ZenonT(30)
  <2>2. comma[x] = <<44>> \o x
    BY <1>1
  <2> QED BY ONLY <2>1, <2>2, Zenon DEF Rest
<1>4. Rest(<<>>) = <<>>
  BY SpreadEmpty DEF Rest
<1> QED BY <1>2, <1>3, <1>4 DEF T

LEMMA Prepended ==
  ASSUME NEW T, NEW q \in Seq(T), NEW x \in T
  PROVE  /\ <<x>> \o q \in Seq(T) /\ <<x>> \o q # <<>>
         /\ Len(q) \in Nat /\ Len(<<x>> \o q) = Len(q) + 1
         /\ DOMAIN q = 1..Len(q) /\ DOMAIN (<<x>> \o q) = 1..(Len(q) + 1)
         /\ (<<x>> \o q)[1] = x
         /\ \A i \in 2..(Len(q) + 1) : (<<x>> \o q)[i] = q[i - 1] /\ q[i - 1] \in T
OBVIOUS

LEMMA JoinedCons ==
  ASSUME NEW ss \in Seq(Seq(Printable)), NEW x \in Seq(Printable)
  PROVE  Joined(<<x>> \o ss) = x \o Rest(ss)
<1> DEFINE T == Seq(Printable)
           n == Len(ss)
           xs == <<x>> \o ss
           a == Map(comma, ss)
           b == [i \in DOMAIN xs |-> IF i > 1 THEN <<44>> \o xs[i] ELSE xs[i]]
           d == <<x>> \o a
<1>1. comma \in [T -> T] /\ \A y \in T : comma[y] = <<44>> \o y
  BY CommaTyped
<1>2. ss \in Seq(T) /\ x \in T
  OBVIOUS
<1> HIDE DEF T
<1>3. /\ n \in Nat /\ xs \in Seq(T) /\ DOMAIN xs = 1..(n + 1) /\ xs[1] = x
      /\ \A i \in 2..(n + 1) : xs[i] = ss[i - 1] /\ ss[i - 1] \in T
  BY <1>2, Prepended
<1>4. a \in Seq(T) /\ Len(a) = n /\ \A i \in 1..n : a[i] = comma[ss[i]]
  <2>1. a \in Seq(T)
    BY <1>1, <1>2, Mapped
  <2>2. Len(a) = n /\ \A i \in 1..n : a[i] = comma[ss[i]]
    BY <1>2, MapAt
  <2> QED BY <2>1, <2>2
<1> HIDE DEF xs, a
<1>5. /\ d \in Seq(T) /\ Len(d) = n + 1 /\ DOMAIN d = 1..(n + 1) /\ d[1] = x
      /\ \A i \in 2..(n + 1) : d[i] = a[i - 1]
  BY <1>2, <1>4, Prepended
<1> HIDE DEF d, n
<1>6. ASSUME NEW i \in 1..(n + 1)
      PROVE  (IF i > 1 THEN <<44>> \o xs[i] ELSE xs[i]) = d[i]
  <2>1. CASE i = 1
    BY <1>3, <1>5, <2>1
  <2>2. CASE i # 1
    <3>1. i \in 2..(n + 1) /\ i - 1 \in 1..n /\ i > 1
      BY <1>3, <2>2
    <3>2. d[i] = comma[ss[i - 1]] /\ ss[i - 1] \in T /\ xs[i] = ss[i - 1]
      BY <1>3, <1>4, <1>5, <3>1
    <3>3. d[i] = <<44>> \o xs[i]
      BY <1>1, <3>2
    <3> QED BY <3>1, <3>3
  <2> QED BY <2>1, <2>2
<1>7. b \in [1..(n + 1) -> {d[i] : i \in 1..(n + 1)}] /\ \A i \in 1..(n + 1) : b[i] = d[i]
  BY <1>3, <1>6
<1>8. d = [i \in 1..(n + 1) |-> d[i]]
  BY <1>5
<1>9. b = d
  <2> HIDE DEF b
  <2> QED BY <1>7, <1>8
<1>10. FlattenSeq(d) = x \o FlattenSeq(a)
  BY <1>2, <1>4, FlattenCons DEF T, d
<1> QED BY <1>9, <1>10 DEF Joined, Rest, Spread, xs, a, b

LEMMA JoinedEmpty == Joined(<<>>) = <<>>
<1>1. [i \in DOMAIN <<>> |-> IF i > 1 THEN <<44>> \o <<>>[i] ELSE <<>>[i]] = <<>>
  OBVIOUS
<1> QED BY <1>1, FlattenEmpty DEF Joined

(* Two lists of texts of D with a closing character e, which is no comma   *)
(* and begins no text of D, are the same if what they are written as is.   *)
Closes(e, D) ==
  /\ PrefixFree(D)
  /\ e \in Printable /\ e # 44
  /\ \A x \in D : x[1] # e

Alike(ss, tt, e) ==
  \E r \in Seq(Printable), q \in Seq(Printable) :
    Rest(ss) \o (<<e>> \o r) = Rest(tt) \o (<<e>> \o q)

LEMMA ClosedTyped ==
  ASSUME NEW e \in Printable, NEW r \in Seq(Printable)
  PROVE  <<e>> \o r \in Seq(Printable) /\ (<<e>> \o r)[1] = e
OBVIOUS

LEMMA RestCons ==
  ASSUME NEW ss \in Seq(Seq(Printable)), NEW x \in Seq(Printable), NEW z \in Seq(Printable)
  PROVE  /\ Rest(<<x>> \o ss) \o z = <<44>> \o (x \o (Rest(ss) \o z))
         /\ Rest(ss) \o z \in Seq(Printable)
         /\ x \o (Rest(ss) \o z) \in Seq(Printable)
         /\ (Rest(<<x>> \o ss) \o z)[1] = 44
<1> DEFINE c == <<44>>
           b == Rest(ss)
<1>1. c \in Seq(Printable) /\ 44 \in Printable
  BY Ascii
<1>2. b \in Seq(Printable) /\ Rest(<<x>> \o ss) = (c \o x) \o b
  BY RestIs
<1> HIDE DEF c, b
<1>3. c \o x \in Seq(Printable) /\ b \o z \in Seq(Printable)
  BY <1>1, <1>2, ConcatProperties
<1>4. x \o (b \o z) \in Seq(Printable)
  BY <1>3, ConcatProperties
<1>5. ((c \o x) \o b) \o z = (c \o x) \o (b \o z)
  <2> DEFINE y == c \o x
  <2>1. y \in Seq(Printable)
    BY <1>3
  <2>2. b \in Seq(Printable)
    BY <1>2
  <2>3. z \in Seq(Printable)
    OBVIOUS
  <2> HIDE DEF y
  <2>4. (y \o b) \o z = y \o (b \o z)
    BY ONLY <2>1, <2>2, <2>3, ConcatAssociative, SMTT(30)
  <2> QED BY <2>4 DEF y
<1>6. (c \o x) \o (b \o z) = c \o (x \o (b \o z))
  <2> DEFINE y == b \o z
  <2>1. y \in Seq(Printable)
    BY <1>3
  <2> HIDE DEF y
  <2>2. x \in Seq(Printable)
    OBVIOUS
  <2>a. c \in Seq(Printable)
    BY <1>1
  <2>3. (c \o x) \o y = c \o (x \o y)
    BY ONLY <2>a, <2>1, <2>2, ConcatAssociative, SMTT(30)
  <2> QED BY <2>3 DEF y
<1>7. (c \o (x \o (b \o z)))[1] = 44
  <2> DEFINE y == x \o (b \o z)
  <2>1. y \in Seq(Printable)
    BY <1>4
  <2> HIDE DEF y
  <2>2. (<<44>> \o y)[1] = 44
    BY <1>1, <2>1, ClosedTyped
  <2> QED BY <2>2 DEF y, c
<1> QED BY <1>2, <1>3, <1>4, <1>5, <1>6, <1>7 DEF b, c

LEMMA AlikeEmpty ==
  ASSUME NEW e \in Printable, e # 44, NEW tt \in Seq(Seq(Printable)),
         Alike(<<>>, tt, e) \/ Alike(tt, <<>>, e)
  PROVE  tt = <<>>
<1>1. PICK r \in Seq(Printable), q \in Seq(Printable) :
        Rest(<<>>) \o (<<e>> \o r) = Rest(tt) \o (<<e>> \o q)
  BY DEF Alike
<1> DEFINE z == <<e>> \o q
           y == <<e>> \o r
<1>2. z \in Seq(Printable) /\ y \in Seq(Printable) /\ y[1] = e
  BY ClosedTyped
<1>3. Rest(<<>>) \o y = y
  <2>1. Rest(<<>>) = <<>>
    BY RestIs
  <2> HIDE DEF y
  <2> QED BY <1>2, <2>1, ConcatEmptySeq
<1>4. (Rest(tt) \o z)[1] = e
  BY <1>1, <1>2, <1>3
<1> HIDE DEF z, y
<1>5. ASSUME tt # <<>> PROVE FALSE
  <2> DEFINE T == Seq(Printable)
  <2>1. \E ss \in Seq(T), x \in T : tt = <<x>> \o ss /\ Len(tt) = Len(ss) + 1
    <3>1. tt \in Seq(T)
      OBVIOUS
    <3> HIDE DEF T
    <3> QED BY <1>5, <3>1, FirstElement
  <2>2. PICK ss \in Seq(T), x \in T : tt = <<x>> \o ss
    BY <2>1
  <2>3. (Rest(<<x>> \o ss) \o z)[1] = 44
    BY <1>2, RestCons
  <2> QED BY <1>4, <2>2, <2>3
<1> QED BY <1>5

LEMMA NextText ==
  ASSUME NEW D, PrefixFree(D), NEW x \in D, NEW y \in D, NEW c \in Seq(Printable),
         NEW a \in Seq(Printable), NEW b \in Seq(Printable),
         Cat(c, Cat(x, a)) = Cat(c, Cat(y, b))
  PROVE  x = y /\ a = b
<1> DEFINE xa == x \o a
           yb == y \o b
<1>1. x \in Seq(Printable) /\ y \in Seq(Printable)
  BY DEF PrefixFree
<1>2. c \o xa = c \o yb /\ xa \in Seq(Printable) /\ yb \in Seq(Printable)
  BY <1>1, ConcatProperties DEF Cat
<1> HIDE DEF xa, yb
<1>3. xa = yb
  BY <1>2, CancelLeft
<1>4. x \o a = y \o b
  BY <1>3 DEF xa, yb
<1>5. x = y
  BY <1>4 DEF PrefixFree
<1>6. x \o a = x \o b
  BY <1>4, <1>5
<1>7. a = b
  BY <1>1, <1>6, CancelLeft
<1> QED BY <1>5, <1>7

LEMMA AlikeNext ==
  ASSUME NEW e, NEW D, Closes(e, D), NEW ss \in Seq(D), NEW tt \in Seq(D),
         NEW x \in D, NEW y \in D, Alike(<<x>> \o ss, <<y>> \o tt, e)
  PROVE  x = y /\ Alike(ss, tt, e)
<1>1. PICK r \in Seq(Printable), q \in Seq(Printable) :
        Rest(<<x>> \o ss) \o (<<e>> \o r) = Rest(<<y>> \o tt) \o (<<e>> \o q)
  BY DEF Alike
<1>2. /\ D \subseteq Seq(Printable) /\ e \in Printable
      /\ x \in Seq(Printable) /\ y \in Seq(Printable) /\ PrefixFree(D)
  BY DEF Closes, PrefixFree
<1>3. ss \in Seq(Seq(Printable)) /\ tt \in Seq(Seq(Printable))
  <2> DEFINE T == Seq(Printable)
  <2>1. D \subseteq T
    BY <1>2
  <2> HIDE DEF T
  <2>2. ss \in Seq(T) /\ tt \in Seq(T)
    BY <2>1
  <2> QED BY <2>2 DEF T
<1> DEFINE w == <<e>> \o r
           z == <<e>> \o q
<1>4. w \in Seq(Printable) /\ z \in Seq(Printable)
  BY <1>2, ClosedTyped
<1>5. Rest(<<x>> \o ss) \o w = Rest(<<y>> \o tt) \o z
  BY <1>1
<1> HIDE DEF w, z
<1> DEFINE a == Rest(ss) \o w
           b == Rest(tt) \o z
           c == <<44>>
<1>6. /\ Rest(<<x>> \o ss) \o w = c \o (x \o a)
      /\ a \in Seq(Printable) /\ x \o a \in Seq(Printable)
  BY <1>2, <1>3, <1>4, RestCons
<1>7. /\ Rest(<<y>> \o tt) \o z = c \o (y \o b)
      /\ b \in Seq(Printable) /\ y \o b \in Seq(Printable)
  BY <1>2, <1>3, <1>4, RestCons
<1>8. c \in Seq(Printable)
  BY Ascii
<1> HIDE DEF a, b, c
<1>9. Cat(c, Cat(x, a)) = Cat(c, Cat(y, b))
  BY <1>5, <1>6, <1>7 DEF Cat
<1>10. x = y /\ a = b
  BY <1>2, <1>6, <1>7, <1>8, <1>9, NextText
<1> QED BY <1>10 DEF Alike, a, b, w, z

LEMMA AlikeEqual ==
  ASSUME NEW e, NEW D, Closes(e, D), NEW s \in Seq(D), NEW t \in Seq(D), Alike(s, t, e)
  PROVE  s = t
<1> DEFINE G == {a \in Seq(D) : \A b \in Seq(D) : Alike(a, b, e) => a = b}
<1>0. e \in Printable /\ e # 44 /\ \A b \in Seq(D) : b \in Seq(Seq(Printable))
  <2> DEFINE T == Seq(Printable)
  <2>1. D \subseteq T /\ e \in Printable /\ e # 44
    BY DEF Closes, PrefixFree
  <2> HIDE DEF T
  <2>2. \A b \in Seq(D) : b \in Seq(T)
    BY <2>1
  <2> QED BY <2>1, <2>2 DEF T
<1>1. <<>> \in G
  <2>1. \A b \in Seq(D) : Alike(<<>>, b, e) => b = <<>>
    BY <1>0, AlikeEmpty
  <2> QED BY <2>1
<1>2. ASSUME NEW a \in Seq(D), NEW c \in D, a \in G
      PROVE  <<c>> \o a \in G
  <2>1. <<c>> \o a \in Seq(D) /\ <<c>> \o a # <<>>
    BY Prepended
  <2>2. ASSUME NEW b \in Seq(D), Alike(<<c>> \o a, b, e)
        PROVE  <<c>> \o a = b
    <3>1. b # <<>>
      BY <1>0, <2>1, <2>2, AlikeEmpty
    <3>2. PICK f \in Seq(D), d \in D : b = <<d>> \o f /\ Len(b) = Len(f) + 1
      BY <3>1, FirstElement
    <3>3. c = d /\ Alike(a, f, e)
      BY <2>2, <3>2, AlikeNext
    <3>4. a = f
      BY <1>2, <3>3
    <3> QED BY <3>2, <3>3, <3>4
  <2> QED BY <2>1, <2>2
<1> HIDE DEF G
<1>3. s \in G
  BY <1>1, <1>2, Fronted
<1> QED BY <1>3 DEF G

LEMMA JoinedBegins ==
  ASSUME NEW x \in Seq(Printable), NEW ss \in Seq(Seq(Printable)), NEW y \in Seq(Printable)
  PROVE  /\ Joined(<<x>> \o ss) \o y = x \o (Rest(ss) \o y)
         /\ Rest(ss) \o y \in Seq(Printable)
         /\ x # <<>> => (Joined(<<x>> \o ss) \o y)[1] = x[1]
<1> DEFINE b == Rest(ss)
<1>1. Joined(<<x>> \o ss) = x \o b /\ b \in Seq(Printable)
  BY JoinedCons, RestIs
<1> HIDE DEF b
<1>2. b \in Seq(Printable)
  BY <1>1
<1>3. (x \o b) \o y = x \o (b \o y)
  BY <1>2, ConcatAssociative
<1>4. b \o y \in Seq(Printable)
  BY <1>2, ConcatProperties
<1>5. ASSUME x # <<>> PROVE (x \o (b \o y))[1] = x[1]
  <2> DEFINE v == b \o y
  <2>1. v \in Seq(Printable)
    BY <1>4
  <2> HIDE DEF v
  <2>2. 1 \in 1..Len(x)
    BY <1>5, EmptySeq, LenProperties
  <2>3. (x \o v)[1] = x[1]
    BY <2>1, <2>2, Readable
  <2> QED BY <2>3 DEF v
<1> QED BY <1>1, <1>3, <1>4, <1>5 DEF b

LEMMA ListApart ==
  ASSUME NEW e, NEW D, Closes(e, D), NEW s \in Seq(D), NEW t \in Seq(D),
         NEW r \in Seq(Printable), NEW q \in Seq(Printable),
         Joined(s) \o (<<e>> \o r) = Joined(t) \o (<<e>> \o q)
  PROVE  s = t
<1> DEFINE w == <<e>> \o r
           z == <<e>> \o q
           T == Seq(Printable)
<1>1. D \subseteq T /\ PrefixFree(D) /\ e \in Printable /\ \A x \in D : x # <<>> /\ x[1] # e
  BY DEF Closes, PrefixFree
<1>2. w \in T /\ w[1] = e /\ z \in T /\ z[1] = e
  BY <1>1, ClosedTyped
<1>3. Joined(<<>>) \o w = w /\ Joined(<<>>) \o z = z
  <2> HIDE DEF w, z
  <2> QED BY <1>2, JoinedEmpty, ConcatEmptySeq
<1>4. Joined(s) \o w = Joined(t) \o z
  OBVIOUS
<1>5. ASSUME NEW x \in D, NEW ss \in Seq(D), NEW y \in T
      PROVE  /\ Joined(<<x>> \o ss) \o y = x \o (Rest(ss) \o y)
             /\ Rest(ss) \o y \in T
             /\ (Joined(<<x>> \o ss) \o y)[1] # e
  <2>1. x \in T /\ ss \in Seq(T)
    <3> HIDE DEF T
    <3> QED BY <1>1
  <2>2. x # <<>> /\ x[1] # e
    BY <1>1
  <2> QED BY <2>1, <2>2, JoinedBegins
<1> HIDE DEF w, z
<1>6. CASE s = <<>> /\ t = <<>>
  BY <1>6
<1>7. CASE s = <<>> /\ t # <<>>
  <2>1. PICK ss \in Seq(D), x \in D : t = <<x>> \o ss /\ Len(t) = Len(ss) + 1
    BY <1>7, FirstElement
  <2>2. (Joined(t) \o z)[1] # e
    BY <1>2, <1>5, <2>1
  <2> QED BY <1>2, <1>3, <1>4, <1>7, <2>2
<1>8. CASE s # <<>> /\ t = <<>>
  <2>1. PICK ss \in Seq(D), x \in D : s = <<x>> \o ss /\ Len(s) = Len(ss) + 1
    BY <1>8, FirstElement
  <2>2. (Joined(s) \o w)[1] # e
    BY <1>2, <1>5, <2>1
  <2> QED BY <1>2, <1>3, <1>4, <1>8, <2>2
<1>9. CASE s # <<>> /\ t # <<>>
  <2>1. PICK ss \in Seq(D), x \in D : s = <<x>> \o ss /\ Len(s) = Len(ss) + 1
    BY <1>9, FirstElement
  <2>2. PICK tt \in Seq(D), y \in D : t = <<y>> \o tt /\ Len(t) = Len(tt) + 1
    BY <1>9, FirstElement
  <2> DEFINE a == Rest(ss) \o w
             b == Rest(tt) \o z
  <2>3. a \in T /\ b \in T /\ x \o a = y \o b
    BY <1>2, <1>4, <1>5, <2>1, <2>2
  <2>4. x = y /\ a = b
    <3>1. PrefixFree(D)
      BY <1>1
    <3>2. a \in Seq(Printable) /\ b \in Seq(Printable) /\ x \o a = y \o b
      BY <2>3
    <3> HIDE DEF a, b
    <3>3. x \in D /\ y \in D
      BY <2>1, <2>2
    <3>4. x = y /\ x \in Seq(Printable)
      BY ONLY <3>1, <3>2, <3>3, Zenon DEF PrefixFree
    <3>5. x \o a = x \o b
      BY <3>2, <3>4
    <3>6. a = b
      BY ONLY <3>2, <3>4, <3>5, CancelLeft
    <3> QED BY <3>4, <3>6
  <2>5. Alike(ss, tt, e)
    BY <2>4 DEF Alike, a, b, w, z
  <2>6. ss = tt
    BY <2>5, AlikeEqual
  <2> QED BY <2>1, <2>2, <2>4, <2>6
<1> QED BY <1>6, <1>7, <1>8, <1>9

(* The members of an object.                                               *)
MemberTexts(D) == {Cat(Cat(GoString(k), <<58>>), t) : k \in Text, t \in D}

LEMMA CatTyped ==
  ASSUME NEW S, NEW a \in Seq(S), NEW b \in Seq(S)
  PROVE  Cat(a, b) \in Seq(S)
BY ConcatProperties DEF Cat

LEMMA CatNested ==
  ASSUME NEW S, NEW a \in Seq(S), NEW b \in Seq(S), NEW c \in Seq(S)
  PROVE  Cat(Cat(a, b), c) = Cat(a, Cat(b, c))
BY ConcatAssociative DEF Cat

LEMMA CatCancel ==
  ASSUME NEW S, NEW a \in Seq(S), NEW b \in Seq(S), NEW c \in Seq(S), Cat(a, b) = Cat(a, c)
  PROVE  b = c
BY CancelLeft DEF Cat

LEMMA CatFree ==
  ASSUME NEW D, PrefixFree(D), NEW x \in D, NEW y \in D,
         NEW r \in Seq(Printable), NEW q \in Seq(Printable), Cat(x, r) = Cat(y, q)
  PROVE  x = y
BY DEF Cat, PrefixFree

LEMMA FreeIs ==
  ASSUME NEW D, D \subseteq Seq(Printable), \A x \in D : x # <<>>,
         \A x \in D, y \in D, r \in Seq(Printable), q \in Seq(Printable) :
           Cat(x, r) = Cat(y, q) => x = y
  PROVE  PrefixFree(D)
BY DEF Cat, PrefixFree

LEMMA Nested ==
  ASSUME NEW S, NEW a \in Seq(S), NEW c \in Seq(S), NEW t \in Seq(S), NEW r \in Seq(S)
  PROVE  /\ Cat(Cat(Cat(a, c), t), r) = Cat(a, Cat(c, Cat(t, r)))
         /\ Cat(t, r) \in Seq(S) /\ Cat(c, Cat(t, r)) \in Seq(S)
BY CatTyped, CatNested

LEMMA MemberApart ==
  ASSUME NEW D, PrefixFree(D), NEW k \in Text, NEW l \in Text, NEW t \in D, NEW u \in D,
         NEW r \in Seq(Printable), NEW q \in Seq(Printable),
         Cat(Cat(Cat(GoString(k), << 58 >>), t), r) = Cat(Cat(Cat(GoString(l), << 58 >>), u), q)
  PROVE  k = l /\ t = u
<1> DEFINE a == GoString(k)
           b == GoString(l)
           c == <<58>>
           x == Cat(c, Cat(t, r))
           y == Cat(c, Cat(u, q))
<1>1. a \in Seq(Printable) /\ b \in Seq(Printable) /\ c \in Seq(Printable)
  BY StringTyped, Ascii
<1>2. t \in Seq(Printable) /\ u \in Seq(Printable)
  BY DEF PrefixFree
<1> HIDE DEF a, b, c
<1>3. Cat(Cat(Cat(a, c), t), r) = Cat(a, x) /\ x \in Seq(Printable)
  BY <1>1, <1>2, Nested
<1>4. Cat(Cat(Cat(b, c), u), q) = Cat(b, y) /\ y \in Seq(Printable)
  BY <1>1, <1>2, Nested
<1>5. Cat(a, x) = Cat(b, y)
  BY <1>3, <1>4 DEF a, b, c
<1> HIDE DEF x, y
<1>6. k = l /\ x = y
  BY <1>3, <1>4, <1>5, StringApart DEF a, b
<1>7. t = u
  BY <1>1, <1>6, NextText DEF x, y
<1> QED BY <1>6, <1>7

LEMMA MemberStarts ==
  ASSUME NEW k \in Text, NEW t \in Seq(Printable)
  PROVE  /\ Cat(Cat(GoString(k), <<58>>), t) \in Seq(Printable)
         /\ Cat(Cat(GoString(k), <<58>>), t) # <<>>
         /\ Cat(Cat(GoString(k), <<58>>), t)[1] = 34
<1> DEFINE a == GoString(k)
           c == <<58>>
<1>1. a \in Seq(Printable) /\ c \in Seq(Printable) /\ a # <<>> /\ a[1] = 34
  BY StringBegins, Ascii
<1> HIDE DEF a, c
<1>2. a \o c \in Seq(Printable) /\ a \o c # <<>> /\ (a \o c)[1] = 34
  BY <1>1
<1> DEFINE ac == a \o c
<1>3. ac \in Seq(Printable) /\ ac # <<>> /\ ac[1] = 34
  BY <1>2
<1> HIDE DEF ac
<1>4. ac \o t \in Seq(Printable) /\ ac \o t # <<>> /\ (ac \o t)[1] = 34
  BY <1>3
<1> QED BY <1>4 DEF Cat, ac, a, c

LEMMA MemberTextsClose ==
  ASSUME NEW D, PrefixFree(D)
  PROVE  Closes(125, MemberTexts(D))
<1>1. ASSUME NEW x \in MemberTexts(D)
      PROVE  x \in Seq(Printable) /\ x # <<>> /\ x[1] = 34
  <2>1. PICK k \in Text, t \in D : x = Cat(Cat(GoString(k), <<58>>), t)
    BY DEF MemberTexts
  <2>2. t \in Seq(Printable)
    BY DEF PrefixFree
  <2> QED BY <2>1, <2>2, MemberStarts
<1>2. ASSUME NEW x \in MemberTexts(D), NEW y \in MemberTexts(D),
             NEW r \in Seq(Printable), NEW q \in Seq(Printable), Cat(x, r) = Cat(y, q)
      PROVE  x = y
  <2>1. PICK k \in Text, t \in D : x = Cat(Cat(GoString(k), <<58>>), t)
    BY DEF MemberTexts
  <2>2. PICK l \in Text, u \in D : y = Cat(Cat(GoString(l), <<58>>), u)
    BY DEF MemberTexts
  <2>4. k = l /\ t = u
    BY <1>2, <2>1, <2>2, MemberApart
  <2> QED BY <2>1, <2>2, <2>4
<1>3. 125 \in Printable
  BY Ascii
<1>4. PrefixFree(MemberTexts(D))
  BY <1>1, <1>2, FreeIs
<1> QED BY <1>1, <1>3, <1>4 DEF Closes

LEMMA ScalarTextsClose == Closes(93, ScalarTexts)
<1>1. ASSUME NEW x \in ScalarTexts PROVE x[1] # 93
  <2>1. PICK v \in Scalars : x = GoScalar(v)
    BY DEF ScalarTexts
  <2>2. x[1] = Mark(v)
    BY <2>1, MarkIs
  <2>3. Mark(v) # 93
    <3>1. CASE v = Null
      BY <3>1 DEF Null, Mark
    <3>2. CASE v \in [t : {"bool"}, b : BOOLEAN]
      BY <3>2 DEF Mark
    <3>3. CASE v \in [t : {"num"}, n : 0..9]
      BY <3>3 DEF Mark
    <3>4. CASE v \in [t : {"real"}, n : 0..9]
      BY <3>4, Planes DEF Mark
    <3>5. CASE v \in [t : {"str"}, s : Text]
      BY <3>5 DEF Mark
    <3> QED BY <3>1, <3>2, <3>3, <3>4, <3>5 DEF Scalars
  <2> QED BY <2>2, <2>3
<1>2. 93 \in Printable
  BY Ascii
<1> QED BY <1>1, <1>2, ScalarTextsFree DEF Closes

(* Lists in brackets or braces.                                            *)
LEMMA EnclosedApart ==
  ASSUME NEW e, NEW D, Closes(e, D), NEW s \in Seq(D), NEW t \in Seq(D), NEW b \in Printable,
         NEW r \in Seq(Printable), NEW q \in Seq(Printable),
         Cat(Cat(Cat(<<b>>, Joined(s)), <<e>>), r) = Cat(Cat(Cat(<<b>>, Joined(t)), <<e>>), q)
  PROVE  s = t
<1> DEFINE x == Joined(s)
           y == Joined(t)
           h == <<b>>
           f == <<e>>
           u == Cat(x, Cat(f, r))
           v == Cat(y, Cat(f, q))
<1>0. \A l \in Seq(D) : Joined(l) \in Seq(Printable)
  <2> DEFINE T == Seq(Printable)
  <2>1. D \subseteq T
    BY DEF Closes, PrefixFree
  <2> HIDE DEF T
  <2>2. \A l \in Seq(D) : l \in Seq(T)
    BY <2>1
  <2>3. 44 \in Printable
    BY Ascii
  <2> QED BY <2>2, <2>3, JoinedTyped DEF T
<1>1. x \in Seq(Printable) /\ y \in Seq(Printable)
  BY <1>0
<1>2. h \in Seq(Printable) /\ f \in Seq(Printable)
  BY DEF Closes
<1> HIDE DEF x, y, h, f
<1>3. Cat(Cat(Cat(h, x), f), r) = Cat(h, u) /\ u \in Seq(Printable)
  BY <1>1, <1>2, Nested
<1>4. Cat(Cat(Cat(h, y), f), q) = Cat(h, v) /\ v \in Seq(Printable)
  BY <1>1, <1>2, Nested
<1>5. Cat(h, u) = Cat(h, v)
  BY <1>3, <1>4 DEF x, y, h, f
<1>6. u = v
  <2> HIDE DEF u, v
  <2> QED BY <1>2, <1>3, <1>4, <1>5, CatCancel
<1>7. Joined(s) \o (<<e>> \o r) = Joined(t) \o (<<e>> \o q)
  BY <1>6 DEF Cat, x, y, f
<1> QED BY <1>7, ListApart

(* Every key has a place among the sorted ones.                            *)
LEMMA KeyPlaced ==
  ASSUME NEW K \in SUBSET Text, IsFiniteSet(K), NEW k \in K
  PROVE  \E i \in 1..Cardinality(K) : SortByUtf16(K)[i] = k
<1> DEFINE sp == [j \in K |-> Units(j)]
           n == Cardinality(K)
           i == Rank(K, sp, k) + 1
           ks == Sorted(K, sp)
<1>1. Spelled(K, sp)
  BY KeysSpelled
<1>2. ks = SortByUtf16(K)
  BY DEF SortByUtf16
<1> HIDE DEF sp
<1>3. n \in Nat /\ Rank(K, sp, k) \in Nat /\ Rank(K, sp, k) < n
  BY <1>1, RankBounded
<1>4. i \in 1..n /\ i - 1 = Rank(K, sp, k)
  BY <1>3
<1>5. ks[i] \in K /\ Rank(K, sp, ks[i]) = i - 1
  BY <1>1, <1>4, SortedIs
<1> HIDE DEF i, ks
<1>6. ks[i] = k
  BY <1>1, <1>4, <1>5, RankApart
<1> QED BY <1>2, <1>4, <1>6

KeysOf(m) == SortByUtf16(KeysIn(m))

LEMMA KeysOfIs ==
  ASSUME NEW V, NEW m \in Members(V)
  PROVE  /\ DOMAIN KeysOf(m) = 1..Cardinality(KeysIn(m)) /\ Cardinality(KeysIn(m)) \in Nat
         /\ \A i \in DOMAIN KeysOf(m) :
              KeysOf(m)[i] \in KeysIn(m) /\ KeysOf(m)[i] \in Text /\ LastOf(m, KeysOf(m)[i]) \in V
         /\ \A k \in KeysIn(m) : \E i \in DOMAIN KeysOf(m) : KeysOf(m)[i] = k
<1> DEFINE K == KeysIn(m)
           n == Cardinality(K)
           keys == KeysOf(m)
<1>1. IsFiniteSet(K) /\ K \in SUBSET Text
  BY KeysInFinite
<1>2. n \in Nat /\ DOMAIN keys = 1..n /\ \A i \in 1..n : keys[i] \in K
  BY <1>1, KeysAlike DEF KeysOf
<1>3. \A k \in K : \E i \in DOMAIN keys : keys[i] = k
  BY <1>1, <1>2, KeyPlaced DEF KeysOf
<1> HIDE DEF keys
<1>4. \A i \in DOMAIN keys : keys[i] \in K /\ keys[i] \in Text /\ LastOf(m, keys[i]) \in V
  BY <1>1, <1>2, LastOfTyped
<1> QED BY <1>2, <1>3, <1>4 DEF keys

LEMMA MembersAt ==
  ASSUME NEW m, NEW g
  PROVE  /\ DOMAIN GoMembers(m, g) = DOMAIN KeysOf(m)
         /\ GoMembers(m, g) = [i \in DOMAIN KeysOf(m) |-> GoMembers(m, g)[i]]
         /\ \A i \in DOMAIN KeysOf(m) :
              GoMembers(m, g)[i] = Cat(Cat(GoString(KeysOf(m)[i]), <<58>>), g[LastOf(m, KeysOf(m)[i])])
BY DEF GoMembers, KeysOf, Cat

LEMMA HalfSame ==
  ASSUME NEW V, NEW D, PrefixFree(D), NEW g \in [V -> D],
         NEW m \in Members(V), NEW n \in Members(V), GoMembers(m, g) = GoMembers(n, g),
         NEW k \in KeysIn(m)
  PROVE  k \in KeysIn(n) /\ g[LastOf(m, k)] = g[LastOf(n, k)]
<1> DEFINE mk == KeysOf(m)
           nk == KeysOf(n)
<1>1. DOMAIN mk = DOMAIN nk
  BY MembersAt
<1>2. PICK i \in DOMAIN mk : mk[i] = k
  BY KeysOfIs
<1> DEFINE t == g[LastOf(m, k)]
           l == nk[i]
           u == g[LastOf(n, l)]
<1>3. LastOf(m, k) \in V /\ k \in Text /\ GoMembers(m, g)[i] = Cat(Cat(GoString(k), <<58>>), t)
  BY <1>2, KeysOfIs, MembersAt
<1>4. /\ l \in KeysIn(n) /\ l \in Text /\ LastOf(n, l) \in V
      /\ GoMembers(n, g)[i] = Cat(Cat(GoString(l), <<58>>), u)
  BY <1>1, KeysOfIs, MembersAt
<1>5. t \in D /\ u \in D
  BY <1>3, <1>4
<1>6. Cat(Cat(GoString(k), <<58>>), t) = Cat(Cat(GoString(l), <<58>>), u)
  BY <1>3, <1>4
<1> HIDE DEF t, l, u
<1>7. /\ <<>> \in Seq(Printable)
      /\ Cat(Cat(Cat(GoString(k), <<58>>), t), <<>>) = Cat(Cat(Cat(GoString(l), <<58>>), u), <<>>)
  BY <1>6
<1>8. k = l /\ t = u
  <2>1. k \in Text
    BY <1>3
  <2>2. l \in Text
    BY <1>4
  <2> DEFINE e == <<>>
  <2>3. /\ e \in Seq(Printable)
        /\ Cat(Cat(Cat(GoString(k), <<58>>), t), e) = Cat(Cat(Cat(GoString(l), <<58>>), u), e)
    BY <1>7
  <2> HIDE DEF e
  <2> QED BY ONLY PrefixFree(D), <1>5, <2>1, <2>2, <2>3, MemberApart
<1> QED BY <1>4, <1>8 DEF t, u

LEMMA SameMembers ==
  ASSUME NEW V, NEW D, PrefixFree(D), NEW g \in [V -> D],
         NEW m \in Members(V), NEW n \in Members(V), GoMembers(m, g) = GoMembers(n, g)
  PROVE  /\ KeysIn(m) = KeysIn(n)
         /\ \A k \in KeysIn(m) : g[LastOf(m, k)] = g[LastOf(n, k)]
<1>1. \A k \in KeysIn(m) : k \in KeysIn(n) /\ g[LastOf(m, k)] = g[LastOf(n, k)]
  BY HalfSame
<1>2. \A k \in KeysIn(n) : k \in KeysIn(m)
  BY HalfSame
<1> QED BY <1>1, <1>2

(* So the text of an object tells its keys and the texts of its values.    *)
LEMMA ObjectApart ==
  ASSUME NEW V, NEW D, PrefixFree(D), NEW g \in [V -> D],
         NEW m \in Members(V), NEW n \in Members(V),
         NEW r \in Seq(Printable), NEW q \in Seq(Printable),
         Cat(Cat(Cat(<< 123 >>, Joined(GoMembers(m, g))), << 125 >>), r) =
           Cat(Cat(Cat(<< 123 >>, Joined(GoMembers(n, g))), << 125 >>), q)
  PROVE  GoMembers(m, g) = GoMembers(n, g)
<1>1. ASSUME NEW o \in Members(V)
      PROVE  GoMembers(o, g) \in Seq(MemberTexts(D))
  <2> DEFINE c == Cardinality(KeysIn(o))
             T == MemberTexts(D)
             ms == GoMembers(o, g)
  <2> DEFINE keys == KeysOf(o)
  <2>1. c \in Nat /\ DOMAIN keys = 1..c
    BY KeysOfIs
  <2>2. \A i \in 1..c : ms[i] \in T
    <3> TAKE i \in 1..c
    <3>1. keys[i] \in Text /\ LastOf(o, keys[i]) \in V
      BY <2>1, KeysOfIs
    <3>2. g[LastOf(o, keys[i])] \in D
      BY <3>1
    <3>3. ms[i] = Cat(Cat(GoString(keys[i]), <<58>>), g[LastOf(o, keys[i])])
      BY <2>1, MembersAt
    <3> QED BY <3>1, <3>2, <3>3 DEF MemberTexts
  <2>3. ms = [i \in 1..c |-> ms[i]]
    BY <2>1, MembersAt
  <2> HIDE DEF ms, T, c
  <2>4. ms \in [1..c -> T]
    BY <2>2, <2>3
  <2>5. ms \in Seq(T)
    BY <2>1, <2>4
  <2> QED BY <2>5 DEF ms, T
<1>2. Closes(125, MemberTexts(D)) /\ 123 \in Printable
  BY MemberTextsClose, Ascii
<1> DEFINE s == GoMembers(m, g)
           t == GoMembers(n, g)
<1>3. /\ s \in Seq(MemberTexts(D)) /\ t \in Seq(MemberTexts(D))
      /\ Cat(Cat(Cat(<<123>>, Joined(s)), <<125>>), r) = Cat(Cat(Cat(<<123>>, Joined(t)), <<125>>), q)
  BY <1>1
<1> HIDE DEF s, t
<1>4. s = t
  BY <1>2, <1>3, EnclosedApart
<1> QED BY <1>4 DEF s, t
=============================================================================
