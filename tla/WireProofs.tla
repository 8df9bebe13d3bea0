----------------------------- MODULE WireProofs -----------------------------
(* Theorems about Wire, for every base, size of fields and limits, and for  *)
(* messages with vectors of any length.                                     *)
EXTENDS Wire, Recursion, SequenceTheorems

----------------------------------------------------------------------------
(* Numbers in base Base. *)

LEMMA BaseIsPositive == Base \in Nat /\ Base > 5
BY BaseAssumption DEF Layout

\* A number is its quotient and its remainder.
LEMMA Division ==
    ASSUME NEW n \in Nat
    PROVE  \E q \in Nat : \E r \in Byte : n \div Base = q /\ n % Base = r /\ n = q * Base + r
<1>1. ASSUME NEW b \in Int, b > 0
      PROVE  /\ n \div b \in Nat /\ n % b \in 0 .. b - 1
             /\ n % b = n - b * (n \div b)
  BY <1>1
<1>2. Base \in Int /\ Base > 0
  BY BaseIsPositive
<1>3. PICK q \in Nat, r \in Byte : n \div Base = q /\ n % Base = r /\ r = n - Base * q
  BY <1>1, <1>2 DEF Byte
<1>4. n = q * Base + r
  BY <1>2, <1>3 DEF Byte
<1> QED  BY <1>3, <1>4

\* Two numbers with a product and a remainder that are equal are equal.
LEMMA QuotientUnique ==
    ASSUME NEW p \in Nat, NEW q \in Nat, NEW b \in Byte, NEW c \in Byte,
           p * Base + b = q * Base + c
    PROVE  p = q /\ b = c
<1>1. Base \in Nat /\ Base > 0 /\ b \in 0 .. Base - 1 /\ c \in 0 .. Base - 1
  BY BaseIsPositive DEF Byte
<1>2. ASSUME NEW x \in Nat, NEW y \in Nat, x < y PROVE y * Base >= x * Base + Base
  BY <1>1, <1>2
<1>3. ~ (p < q) /\ ~ (q < p)
  BY <1>1, <1>2
<1> QED  BY <1>1, <1>3

\* Powers are what their definition says they are.
LEMMA PowerDefinition ==
    /\ Power[0] = 1
    /\ \A n \in Nat : Power[n] \in Nat \ {0} /\ Power[n + 1] = Base * Power[n]
<1> DEFINE X == Nat
           Y == Nat \ {0}
           mu == [n \in X |-> n]
           stop == [n \in X |-> n = 0]
           base == [n \in X |-> 1]
           next == [n \in X |-> IF n = 0 THEN 0 ELSE n - 1]
           step == [w \in X \X Y |-> Base * w[2]]
           Rec(f) == f = [n \in X |-> IF n = 0 THEN 1 ELSE Base * f[n - 1]]
<1>1. Recursion(X, Y, mu, stop, base, next, step)
  <2>1. \A p \in Y : Base * p \in Y
    BY BaseIsPositive
  <2>2. step \in [X \X Y -> Y]
    BY <2>1
  <2>3. mu \in [X -> Nat] /\ stop \in [X -> BOOLEAN] /\ base \in [X -> Y]
    OBVIOUS
  <2>4. ASSUME NEW n \in X, ~stop[n] PROVE next[n] \in X /\ mu[next[n]] < mu[n]
    <3>1. n # 0
      BY <2>4
    <3>2. n - 1 \in X /\ next[n] = n - 1
      BY <3>1
    <3> QED  BY <3>2
  <2> QED  BY <2>2, <2>3, <2>4 DEF Recursion
<1>2. ASSUME NEW f, f = [n \in X |-> f[n]], \A n \in X : f[n] \in Y
      PROVE  Recurses(f, X, stop, base, next, step) <=> Rec(f)
  <2>1. ASSUME NEW n \in X
        PROVE  ValueOf(f, n, stop, base, next, step) = IF n = 0 THEN 1 ELSE Base * f[n - 1]
    <3>1. CASE n = 0
      BY <3>1 DEF ValueOf
    <3>2. CASE n # 0
      <4>1. n - 1 \in X /\ f[n - 1] \in Y /\ next[n] = n - 1
        BY <1>2, <3>2
      <4> QED  BY <3>2, <4>1 DEF ValueOf
    <3> QED  BY <3>1, <3>2
  <2> QED  BY <1>2, <2>1 DEF Recurses
<1>3. PICK g \in [X -> Y] : Recurses(g, X, stop, base, next, step)
  <2> HIDE DEF X, Y, mu, stop, base, next, step
  <2> QED  BY <1>1, RecursionExists
<1>4. Rec(g)
  BY <1>2, <1>3
<1>5. Rec(Power)
  <2>1. Power = CHOOSE f : Rec(f)
    BY DEF Power
  <2> HIDE DEF Rec
  <2> QED  BY <1>4, <2>1
<1>6. \A n \in X : Power[n] = IF n = 0 THEN 1 ELSE Base * Power[n - 1]
  BY <1>5
<1>7. Power[0] = 1 /\ \A n \in Nat : Power[n + 1] = Base * Power[n]
  BY <1>6
<1> DEFINE Good == {n \in X : Power[n] \in Y}
<1>8. X \subseteq Good
  <2>1. ASSUME NEW n \in X, \A k \in X : mu[k] < mu[n] => k \in Good PROVE n \in Good
    <3>1. CASE n = 0
      BY <1>7, <3>1
    <3>2. CASE n # 0
      <4>1. n - 1 \in X /\ Power[n - 1] \in Y
        BY <2>1, <3>2
      <4>2. Base * Power[n - 1] \in Y
        BY <4>1, BaseIsPositive
      <4> QED  BY <1>6, <3>2, <4>2
    <3> QED  BY <3>1, <3>2
  <2>2. mu \in [X -> Nat]
    OBVIOUS
  <2> HIDE DEF X, mu, Good
  <2> QED  BY <2>1, <2>2, MeasureInduction
<1> QED  BY <1>7, <1>8

\* A number in some bytes is what its definition says it is.
LEMMA BigEndianDefinition ==
    ASSUME NEW n \in Nat
    PROVE  /\ BigEndian(n, 0) = <<>>
           /\ \A w \in Nat :
                 /\ BigEndian(n, w) \in Seq(Byte)
                 /\ BigEndian(n, w + 1) = Append(BigEndian(n \div Base, w), n % Base)
<1> DEFINE X == Nat \X Nat
           Y == Seq(Byte)
           mu == [v \in X |-> v[2]]
           stop == [v \in X |-> v[2] = 0]
           base == [v \in X |-> <<>>]
           next == [v \in X |-> <<v[1] \div Base, IF v[2] = 0 THEN 0 ELSE v[2] - 1>>]
           step == [z \in X \X Y |-> Append(z[2], z[1][1] % Base)]
           Body(f, v) == IF v[2] = 0 THEN <<>>
                         ELSE Append(f[<<v[1] \div Base, v[2] - 1>>], v[1] % Base)
           Rec(f) == f = [v \in X |-> Body(f, v)]
<1>0. \A k \in Nat : k \div Base \in Nat /\ k % Base \in Byte
  BY Division
<1>1. ASSUME NEW v \in X, v[2] # 0
      PROVE  next[v] \in X /\ next[v] = <<v[1] \div Base, v[2] - 1>> /\ mu[next[v]] < mu[v]
  <2>1. v[1] \in Nat /\ v[2] \in Nat /\ v[2] - 1 \in Nat /\ v[1] \div Base \in Nat
    BY <1>0, <1>1
  <2> QED  BY <1>1, <2>1
<1>2. Recursion(X, Y, mu, stop, base, next, step)
  <2>1. step \in [X \X Y -> Y]
    <3>1. ASSUME NEW z \in X \X Y PROVE Append(z[2], z[1][1] % Base) \in Y
      <4>1. z[2] \in Seq(Byte) /\ z[1][1] % Base \in Byte
        BY <1>0
      <4> QED  BY <4>1
    <3> QED  BY <3>1
  <2>2. mu \in [X -> Nat] /\ stop \in [X -> BOOLEAN] /\ base \in [X -> Y]
    OBVIOUS
  <2>3. \A v \in X : ~stop[v] => v[2] # 0
    OBVIOUS
  <2> HIDE DEF X, Y, mu, next, stop, base, step
  <2> QED  BY <1>1, <2>1, <2>2, <2>3 DEF Recursion
<1>3. ASSUME NEW f, NEW v \in X, v[2] # 0 => f[next[v]] \in Y
      PROVE  ValueOf(f, v, stop, base, next, step) = Body(f, v)
  <2>1. CASE v[2] = 0
    BY <2>1 DEF ValueOf
  <2>2. CASE v[2] # 0
    <3>1. next[v] = <<v[1] \div Base, v[2] - 1>> /\ <<v, f[next[v]]>> \in X \X Y
      BY <1>1, <1>3, <2>2
    <3>2. step[<<v, f[next[v]]>>] = Append(f[next[v]], v[1] % Base)
      BY <3>1
    <3>3. ~stop[v]
      BY <2>2
    <3> QED  BY <2>2, <3>1, <3>2, <3>3 DEF ValueOf
  <2> QED  BY <2>1, <2>2
<1>4. PICK g \in [X -> Y] : Recurses(g, X, stop, base, next, step)
  <2> HIDE DEF X, Y, mu, stop, base, next, step
  <2> QED  BY <1>2, RecursionExists
<1>5. Rec(g)
  <2>1. \A v \in X : g[v] = Body(g, v)
    <3>1. ASSUME NEW v \in X PROVE g[v] = Body(g, v)
      <4>1. v[2] # 0 => g[next[v]] \in Y
        BY <1>1
      <4> HIDE DEF X, Y, mu, next, stop, base, step, Body
      <4> QED  BY <1>3, <1>4, <4>1 DEF Recurses
    <3> HIDE DEF X, Body
    <3> QED  BY <3>1
  <2> HIDE DEF X, Body
  <2> QED  BY <2>1
<1>6. Rec(Written)
  <2>1. Written = CHOOSE f : Rec(f)
    BY DEF Written
  <2> HIDE DEF Rec
  <2> QED  BY <1>5, <2>1
<1>7. \A v \in X : Written[v] = Body(Written, v)
  <2> HIDE DEF X, Body
  <2> QED  BY <1>6
<1> DEFINE Good == {v \in X : Written[v] \in Y}
<1>8. X \subseteq Good
  <2>1. ASSUME NEW v \in X, \A u \in X : mu[u] < mu[v] => u \in Good PROVE v \in Good
    <3>1. v[2] # 0 => Written[next[v]] \in Y
      BY <1>1, <2>1
    <3>2. Body(Written, v) \in Y
      <4>1. CASE v[2] = 0
        BY <4>1
      <4>2. CASE v[2] # 0
        <5>1. Written[<<v[1] \div Base, v[2] - 1>>] \in Seq(Byte) /\ v[1] % Base \in Byte
          BY <1>0, <1>1, <3>1, <4>2
        <5> QED  BY <4>2, <5>1
      <4> QED  BY <4>1, <4>2
    <3> HIDE DEF X, Body
    <3> QED  BY <1>7, <3>2
  <2>2. mu \in [X -> Nat]
    OBVIOUS
  <2> HIDE DEF X, mu, Good
  <2> QED  BY <2>1, <2>2, MeasureInduction
<1>9. \A w \in Nat : <<n, w>> \in X /\ <<n, w + 1>> \in X
  OBVIOUS
<1>10. Written[<<n, 0>>] = <<>>
  BY <1>7, <1>9
<1>11. ASSUME NEW w \in Nat
       PROVE  Written[<<n, w + 1>>] = Append(Written[<<n \div Base, w>>], n % Base)
  <2>1. Body(Written, <<n, w + 1>>) = Append(Written[<<n \div Base, w>>], n % Base)
    <3>1. w + 1 # 0 /\ (w + 1) - 1 = w
      OBVIOUS
    <3> QED  BY <3>1
  <2> HIDE DEF X, Body
  <2> QED  BY <1>7, <1>9, <2>1
<1> QED  BY <1>8, <1>9, <1>10, <1>11 DEF BigEndian

\* A sequence of bytes is its front and its last byte.
LEMMA FrontAndLast ==
    ASSUME NEW s \in Seq(Byte), s # <<>>
    PROVE  /\ Front(s) \in Seq(Byte) /\ Last(s) \in Byte
           /\ Len(s) \in Nat \ {0} /\ Len(Front(s)) = Len(s) - 1
           /\ s = Append(Front(s), Last(s))
<1> DEFINE n == Len(s)
<1>1. n \in Nat \ {0} /\ \A i \in 1 .. n : s[i] \in Byte
  BY LenProperties, EmptySeq
<1>2. /\ Front(s) \in Seq(Byte) /\ Len(Front(s)) = n - 1
      /\ \A i \in 1 .. n - 1 : Front(s)[i] = s[i]
  <2>1. Front(s) = [i \in 1 .. n - 1 |-> s[i]]
    BY <1>1 DEF Front
  <2> QED  BY <1>1, <2>1
<1>3. Last(s) = s[n] /\ Last(s) \in Byte
  BY <1>1 DEF Last
<1> DEFINE t == Append(Front(s), Last(s))
<1>4. /\ t \in Seq(Byte) /\ Len(t) = n
      /\ \A i \in 1 .. n : t[i] = s[i]
  <2> HIDE DEF n
  <2>1. t \in Seq(Byte) /\ Len(t) = n
    BY <1>1, <1>2, <1>3
  <2>2. ASSUME NEW i \in 1 .. n PROVE t[i] = s[i]
    <3>1. CASE i = n
      BY <1>1, <1>2, <1>3, <3>1
    <3>2. CASE i # n
      <4>1. i \in 1 .. n - 1
        BY <1>1, <3>2
      <4> QED  BY <1>2, <1>3, <4>1
    <3> QED  BY <3>1, <3>2
  <2> QED  BY <2>1, <2>2
<1>5. s = t
  <2> HIDE DEF t
  <2> QED  BY <1>4, SeqEqual
<1> QED  BY <1>1, <1>2, <1>3, <1>5

\* The value of some bytes is what its definition says it is.
LEMMA ValueDefinition ==
    /\ BigEndianValue(<<>>) = 0
    /\ \A s \in Seq(Byte) : \A b \in Byte :
          /\ BigEndianValue(s) \in Nat
          /\ BigEndianValue(Append(s, b)) = BigEndianValue(s) * Base + b
<1> DEFINE X == Seq(Byte)
           Y == Nat
           mu == [s \in X |-> Len(s)]
           stop == [s \in X |-> s = <<>>]
           base == [s \in X |-> 0]
           next == [s \in X |-> Front(s)]
           step == [z \in X \X Y |-> IF z[1] = <<>> THEN 0 ELSE z[2] * Base + Last(z[1])]
           Body(f, s) == IF s = <<>> THEN 0 ELSE f[Front(s)] * Base + Last(s)
           Rec(f) == f = [s \in X |-> Body(f, s)]
<1>0. ASSUME NEW p \in Nat, NEW b \in Byte PROVE p * Base + b \in Nat
  BY BaseIsPositive DEF Byte
<1>1. ASSUME NEW s \in X, s # <<>>
      PROVE  next[s] \in X /\ next[s] = Front(s) /\ mu[next[s]] < mu[s] /\ Last(s) \in Byte
  BY <1>1, FrontAndLast
<1>2. Recursion(X, Y, mu, stop, base, next, step)
  <2>1. step \in [X \X Y -> Y]
    <3>1. ASSUME NEW z \in X \X Y
          PROVE  (IF z[1] = <<>> THEN 0 ELSE z[2] * Base + Last(z[1])) \in Y
      <4>1. CASE z[1] = <<>>
        BY <4>1
      <4>2. CASE z[1] # <<>>
        <5>1. Last(z[1]) \in Byte /\ z[2] \in Nat
          BY <1>1, <4>2
        <5> QED  BY <1>0, <4>2, <5>1
      <4> QED  BY <4>1, <4>2
    <3> QED  BY <3>1
  <2>2. mu \in [X -> Nat] /\ stop \in [X -> BOOLEAN] /\ base \in [X -> Y]
    BY LenProperties
  <2>3. \A s \in X : ~stop[s] => s # <<>>
    OBVIOUS
  <2> HIDE DEF X, Y, mu, next, stop, base, step
  <2> QED  BY <1>1, <2>1, <2>2, <2>3 DEF Recursion
<1>3. ASSUME NEW f, NEW s \in X, s # <<>> => f[next[s]] \in Y
      PROVE  ValueOf(f, s, stop, base, next, step) = Body(f, s)
  <2>1. CASE s = <<>>
    BY <2>1 DEF ValueOf
  <2>2. CASE s # <<>>
    <3>1. next[s] = Front(s) /\ <<s, f[next[s]]>> \in X \X Y
      BY <1>1, <1>3, <2>2
    <3>2. step[<<s, f[next[s]]>>] = f[next[s]] * Base + Last(s)
      BY <2>2, <3>1
    <3>3. ~stop[s]
      BY <2>2
    <3> QED  BY <2>2, <3>1, <3>2, <3>3 DEF ValueOf
  <2> QED  BY <2>1, <2>2
<1>4. PICK g \in [X -> Y] : Recurses(g, X, stop, base, next, step)
  <2> HIDE DEF X, Y, mu, stop, base, next, step
  <2> QED  BY <1>2, RecursionExists
<1>5. Rec(g)
  <2>1. ASSUME NEW s \in X PROVE g[s] = Body(g, s)
    <3>1. s # <<>> => g[next[s]] \in Y
      BY <1>1
    <3> HIDE DEF X, Y, mu, next, stop, base, step, Body
    <3> QED  BY <1>3, <1>4, <3>1 DEF Recurses
  <2> HIDE DEF X, Body
  <2> QED  BY <2>1
<1>6. Rec(Value)
  <2>1. Value = CHOOSE f : Rec(f)
    BY DEF Value
  <2> HIDE DEF Rec
  <2> QED  BY <1>5, <2>1
<1>7. \A s \in X : Value[s] = Body(Value, s)
  <2> HIDE DEF X, Body
  <2> QED  BY <1>6
<1> DEFINE Good == {s \in X : Value[s] \in Y}
<1>8. X \subseteq Good
  <2>1. ASSUME NEW s \in X, \A t \in X : mu[t] < mu[s] => t \in Good PROVE s \in Good
    <3>1. CASE s = <<>>
      <4>1. Value[s] = Body(Value, s)
        <5> HIDE DEF X, Body
        <5> QED  BY <1>7
      <4>2. Value[s] = 0
        BY <3>1, <4>1
      <4> QED  BY <4>2
    <3>2. CASE s # <<>>
      <4>1. Value[Front(s)] \in Nat /\ Last(s) \in Byte
        BY <1>1, <2>1, <3>2
      <4>2. Body(Value, s) \in Y
        BY <1>0, <3>2, <4>1
      <4> HIDE DEF X, Body
      <4> QED  BY <1>7, <4>2
    <3> QED  BY <3>1, <3>2
  <2>2. mu \in [X -> Nat]
    BY LenProperties
  <2> HIDE DEF X, mu, Good
  <2> QED  BY <2>1, <2>2, MeasureInduction
<1>9. Value[<<>>] = 0
  <2>1. <<>> \in X /\ Body(Value, <<>>) = 0
    OBVIOUS
  <2> HIDE DEF X, Body
  <2> QED  BY <1>7, <2>1
<1>10. ASSUME NEW s \in X, NEW b \in Byte
       PROVE  Value[Append(s, b)] = Value[s] * Base + b
  <2> DEFINE t == Append(s, b)
  <2>1. t \in X /\ t # <<>> /\ Len(t) = Len(s) + 1 /\ Len(s) \in Nat
        /\ t[Len(s) + 1] = b /\ \A i \in 1 .. Len(s) : t[i] = s[i]
    BY AppendProperties, LenProperties
  <2> HIDE DEF t
  <2>2. Last(t) = b
    BY <2>1 DEF Last
  <2>3. Front(t) = s
    <3>1. Front(t) = [i \in 1 .. Len(s) |-> s[i]]
      BY <2>1 DEF Front
    <3>2. s = [i \in 1 .. Len(s) |-> s[i]]
      BY LenProperties
    <3> QED  BY <3>1, <3>2
  <2>4. Body(Value, t) = Value[s] * Base + b
    BY <2>1, <2>2, <2>3
  <2> HIDE DEF X, Body
  <2> QED  BY <1>7, <2>1, <2>4 DEF t
<1> QED  BY <1>8, <1>9, <1>10 DEF BigEndianValue

\* A number that fits in some bytes is what they are read as.
LEMMA WrittenIsRead ==
    ASSUME NEW w \in Nat, NEW n \in Nat
    PROVE  /\ BigEndian(n, w) \in Seq(Byte) /\ Len(BigEndian(n, w)) = w
           /\ n < Power[w] => BigEndianValue(BigEndian(n, w)) = n
<1> DEFINE mu == [k \in Nat |-> k]
           Right(k, m) ==
               /\ Len(BigEndian(m, k)) = k
               /\ m < Power[k] => BigEndianValue(BigEndian(m, k)) = m
           Good == {k \in Nat : \A m \in Nat : Right(k, m)}
<1>1. ASSUME NEW m \in Nat PROVE Right(0, m)
  BY BigEndianDefinition, ValueDefinition, PowerDefinition
<1>2. ASSUME NEW k \in Nat, \A m \in Nat : Right(k, m), NEW m \in Nat
      PROVE  Right(k + 1, m)
  <2>1. PICK q \in Nat, r \in Byte : m \div Base = q /\ m % Base = r /\ m = q * Base + r
    BY Division
  <2>2. BigEndian(m, k + 1) = Append(BigEndian(q, k), r) /\ BigEndian(q, k) \in Seq(Byte)
    BY <2>1, BigEndianDefinition
  <2>3. Len(BigEndian(m, k + 1)) = k + 1
    BY <1>2, <2>2, AppendProperties
  <2>4. BigEndianValue(BigEndian(m, k + 1)) = BigEndianValue(BigEndian(q, k)) * Base + r
    BY <2>2, ValueDefinition
  <2>5. ASSUME m < Power[k + 1] PROVE q < Power[k]
    <3> DEFINE p == Power[k]
    <3>1. p \in Nat /\ Base \in Nat /\ r \in Nat /\ Power[k + 1] = Base * p
      BY PowerDefinition, BaseIsPositive DEF Byte
    <3>2. q * Base < Base * p
      BY <2>1, <2>5, <3>1, BaseIsPositive
    <3> HIDE DEF p
    <3>3. q >= p => q * Base >= Base * p
      BY <3>1
    <3>4. q < p
      BY <3>1, <3>2, <3>3
    <3> QED  BY <3>4 DEF p
  <2> QED  BY <1>2, <2>1, <2>3, <2>4, <2>5
<1>3. ASSUME NEW k \in Nat, \A j \in Nat : mu[j] < mu[k] => j \in Good PROVE k \in Good
  <2>1. CASE k = 0
    BY <1>1, <2>1
  <2>2. CASE k # 0
    <3>1. k - 1 \in Nat /\ k - 1 \in Good
      BY <1>3, <2>2
    <3>2. \A m \in Nat : Right(k - 1, m)
      BY <3>1
    <3> HIDE DEF Right
    <3>3. \A m \in Nat : Right((k - 1) + 1, m)
      BY <1>2, <3>1, <3>2
    <3> QED  BY <3>1, <3>3
  <2> QED  BY <2>1, <2>2
<1>4. mu \in [Nat -> Nat]
  OBVIOUS
<1>5. Nat \subseteq Good
  <2> HIDE DEF mu, Good
  <2> QED  BY <1>3, <1>4, MeasureInduction
<1>6. Right(w, n)
  BY <1>5
<1> QED  BY <1>6, BigEndianDefinition

\* Bytes are read as a number that fits in them, and is written as them.
LEMMA ReadIsWritten ==
    ASSUME NEW s \in Seq(Byte)
    PROVE  /\ BigEndianValue(s) \in Nat /\ BigEndianValue(s) < Power[Len(s)]
           /\ BigEndian(BigEndianValue(s), Len(s)) = s
<1> DEFINE X == Seq(Byte)
           mu == [t \in X |-> Len(t)]
           Right(t) ==
               /\ BigEndianValue(t) < Power[Len(t)]
               /\ BigEndian(BigEndianValue(t), Len(t)) = t
           Good == {t \in X : Right(t)}
<1>1. Right(<<>>)
  BY BigEndianDefinition, ValueDefinition, PowerDefinition
<1>2. ASSUME NEW t \in X, Right(t), NEW b \in Byte
      PROVE  Right(Append(t, b))
  <2> DEFINE k == Len(t)
             q == BigEndianValue(t)
             p == Power[k]
             n == BigEndianValue(Append(t, b))
  <2>1. /\ k \in Nat /\ Len(Append(t, b)) = k + 1 /\ q \in Nat /\ n = q * Base + b
        /\ p \in Nat /\ Power[k + 1] = Base * p /\ q < p
    <3>1. k \in Nat /\ Len(Append(t, b)) = k + 1
      BY LenProperties, AppendProperties
    <3>2. q \in Nat /\ n = q * Base + b
      BY ValueDefinition
    <3>3. p \in Nat /\ Power[k + 1] = Base * p
      <4> HIDE DEF k
      <4> QED  BY <3>1, PowerDefinition
    <3>4. q < p
      BY <1>2
    <3> HIDE DEF k, q, p, n
    <3> QED  BY <3>1, <3>2, <3>3, <3>4
  <2>2. Base \in Nat /\ b \in 0 .. Base - 1
    BY BaseIsPositive DEF Byte
  <2>3. n < Base * p /\ n \in Nat
    <3> HIDE DEF n, q, p, k
    <3>1. (q + 1) * Base <= p * Base
      BY <2>1, <2>2
    <3>2. (q + 1) * Base = q * Base + Base /\ p * Base = Base * p
      BY <2>1, <2>2
    <3> QED  BY <2>1, <2>2, <3>1, <3>2
  <2>4. n \div Base = q /\ n % Base = b
    <3>1. PICK u \in Nat, r \in Byte : n \div Base = u /\ n % Base = r /\ n = u * Base + r
      BY <2>3, Division
    <3> HIDE DEF n, q
    <3>2. u = q /\ r = b
      BY <2>1, <3>1, QuotientUnique
    <3> QED  BY <3>1, <3>2
  <2>5. BigEndian(n, k + 1) = Append(BigEndian(q, k), b)
    <3> HIDE DEF n, q, k
    <3> QED  BY <2>1, <2>3, <2>4, BigEndianDefinition
  <2>6. BigEndian(q, k) = t
    BY <1>2
  <2> QED  BY <2>1, <2>3, <2>5, <2>6
<1>3. ASSUME NEW t \in X, \A u \in X : mu[u] < mu[t] => u \in Good PROVE t \in Good
  <2>1. CASE t = <<>>
    <3> HIDE DEF Right
    <3> QED  BY <1>1, <2>1
  <2>2. CASE t # <<>>
    <3>1. /\ Front(t) \in X /\ mu[Front(t)] < mu[t] /\ Last(t) \in Byte
          /\ t = Append(Front(t), Last(t))
      BY <2>2, FrontAndLast
    <3>2. Right(Front(t))
      BY <1>3, <3>1
    <3> HIDE DEF Right, X
    <3>3. Right(Append(Front(t), Last(t)))
      BY <1>2, <3>1, <3>2
    <3> QED  BY <3>1, <3>3
  <2> QED  BY <2>1, <2>2
<1>4. mu \in [X -> Nat]
  BY LenProperties
<1>5. X \subseteq Good
  <2> HIDE DEF mu, Good, X
  <2> QED  BY <1>3, <1>4, MeasureInduction
<1> QED  BY <1>5, ValueDefinition

----------------------------------------------------------------------------
(* Parts of a sequence of bytes. *)

\* A part of a sequence is what has its bytes.
LEMMA PartOf ==
    ASSUME NEW s \in Seq(Byte), NEW t \in Seq(Byte), NEW k \in Nat, k + Len(t) <= Len(s),
           \A i \in 1 .. Len(t) : s[k + i] = t[i]
    PROVE  SubSeq(s, k + 1, k + Len(t)) = t
<1> DEFINE n == Len(t)
           u == SubSeq(s, k + 1, k + n)
<1>1. n \in Nat /\ Len(s) \in Nat
  BY LenProperties
<1>2. u = [i \in 1 .. n |-> s[k + i]]
  <2>1. u = [i \in 1 .. (k + n) - (k + 1) + 1 |-> s[k + 1 + i - 1]]
    BY <1>1
  <2>2. (k + n) - (k + 1) + 1 = n /\ \A i \in 1 .. n : k + 1 + i - 1 = k + i
    BY <1>1
  <2> QED  BY <2>1, <2>2
<1>3. t = [i \in 1 .. n |-> t[i]]
  BY LenProperties
<1> QED  BY <1>2, <1>3

\* It does not matter what is joined first.
LEMMA Rejoined ==
    ASSUME NEW s \in Seq(Byte), NEW t \in Seq(Byte), NEW r \in Seq(Byte)
    PROVE  (s \o t) \o r = s \o (t \o r)
BY ConcatAssociative

\* What is joined can be taken apart.
LEMMA Joined ==
    ASSUME NEW s \in Seq(Byte), NEW t \in Seq(Byte), NEW r \in Seq(Byte)
    PROVE  LET j == s \o (t \o r)
           IN  /\ j \in Seq(Byte) /\ Len(j) = Len(s) + Len(t) + Len(r)
               /\ SubSeq(j, 1, Len(s)) = s
               /\ SubSeq(j, Len(s) + 1, Len(s) + Len(t)) = t
               /\ SubSeq(j, Len(s) + Len(t) + 1, Len(j)) = r
<1> DEFINE a == Len(s)
           b == Len(t)
           c == Len(r)
           j == s \o (t \o r)
<1>1. a \in Nat /\ b \in Nat /\ c \in Nat
  BY LenProperties
<1>2. /\ t \o r \in Seq(Byte) /\ Len(t \o r) = b + c
      /\ \A i \in 1 .. b : (t \o r)[i] = t[i]
      /\ \A i \in 1 .. c : (t \o r)[b + i] = r[i]
  BY <1>1, ConcatProperties
<1>3. /\ j \in Seq(Byte) /\ Len(j) = a + b + c
      /\ \A i \in 1 .. a : j[i] = s[i]
      /\ \A i \in 1 .. b + c : j[a + i] = (t \o r)[i]
  BY <1>1, <1>2, ConcatProperties
<1> HIDE DEF a, b, c, j
<1>4. SubSeq(j, 0 + 1, 0 + a) = s
  <2>1. \A i \in 1 .. a : j[0 + i] = s[i]
    BY <1>3
  <2> QED  BY <1>1, <1>3, <2>1, PartOf DEF a
<1>5. SubSeq(j, a + 1, a + b) = t
  <2>1. \A i \in 1 .. b : j[a + i] = t[i]
    <3>1. \A i \in 1 .. b : i \in 1 .. b + c
      BY <1>1
    <3> QED  BY <1>2, <1>3, <3>1
  <2> QED  BY <1>1, <1>3, <2>1, PartOf DEF b
<1>6. SubSeq(j, (a + b) + 1, (a + b) + c) = r
  <2>1. ASSUME NEW i \in 1 .. c PROVE j[(a + b) + i] = r[i]
    <3>1. b + i \in 1 .. b + c /\ a + (b + i) = (a + b) + i
      BY <1>1
    <3> QED  BY <1>2, <1>3, <3>1
  <2> QED  BY <1>1, <1>3, <2>1, PartOf DEF c
<1>7. 0 + 1 = 1 /\ 0 + a = a
  BY <1>1
<1> QED  BY <1>3, <1>4, <1>5, <1>6, <1>7 DEF a, b, c, j

\* A sequence is its parts.
LEMMA Parts ==
    ASSUME NEW s \in Seq(Byte), NEW k \in Nat, k <= Len(s)
    PROVE  LET a == SubSeq(s, 1, k)
               b == SubSeq(s, k + 1, Len(s))
           IN  /\ a \in Seq(Byte) /\ Len(a) = k
               /\ b \in Seq(Byte) /\ Len(b) = Len(s) - k
               /\ s = a \o b
<1> DEFINE n == Len(s)
           a == SubSeq(s, 1, k)
           b == SubSeq(s, k + 1, n)
           j == a \o b
<1>1. n \in Nat /\ \A i \in 1 .. n : s[i] \in Byte
  BY LenProperties
<1>2. a \in Seq(Byte) /\ Len(a) = k /\ \A i \in 1 .. k : a[i] = s[i]
  <2>1. a = [i \in 1 .. k |-> s[i]]
    BY <1>1
  <2> QED  BY <1>1, <2>1
<1>3. b \in Seq(Byte) /\ Len(b) = n - k /\ \A i \in 1 .. n - k : b[i] = s[k + i]
  <2>1. b = [i \in 1 .. n - k |-> s[k + i]]
    <3>1. b = [i \in 1 .. n - (k + 1) + 1 |-> s[k + 1 + i - 1]]
      BY <1>1
    <3>2. n - (k + 1) + 1 = n - k /\ \A i \in 1 .. n - k : k + 1 + i - 1 = k + i
      BY <1>1
    <3> QED  BY <3>1, <3>2
  <2>2. n - k \in Nat /\ \A i \in 1 .. n - k : s[k + i] \in Byte
    BY <1>1
  <2> QED  BY <2>1, <2>2
<1>0. n = Len(s)
  OBVIOUS
<1> HIDE DEF a, b, n
<1>4. /\ j \in Seq(Byte) /\ Len(j) = n
      /\ \A i \in 1 .. k : j[i] = a[i]
      /\ \A i \in 1 .. n - k : j[k + i] = b[i]
  BY <1>0, <1>1, <1>2, <1>3, ConcatProperties
<1>5. \A i \in 1 .. n : s[i] = j[i]
  <2> SUFFICES ASSUME NEW i \in 1 .. n PROVE s[i] = j[i]
    OBVIOUS
  <2>1. CASE i <= k
    BY <1>1, <1>2, <1>4, <2>1
  <2>2. CASE i > k
    <3>1. i - k \in 1 .. n - k /\ k + (i - k) = i
      BY <1>1, <2>2
    <3> QED  BY <1>3, <1>4, <3>1
  <2>3. i <= k \/ i > k
    BY <1>1
  <2> QED  BY <2>1, <2>2, <2>3
<1>6. s = j
  <2> HIDE DEF j
  <2> QED  BY <1>0, <1>4, <1>5, SeqEqual
<1> QED  BY <1>0, <1>2, <1>3, <1>6 DEF a, b, n

----------------------------------------------------------------------------
(* Fields. *)

Form == [form : {"number", "array", "vector"}, width : Nat]

\* A field that was written is read, and what follows it is left.
LEMMA WrittenFieldIsRead ==
    ASSUME NEW form \in Form, NEW v, Fits(form, v), NEW s \in Seq(Byte)
    PROVE  LET e == EncodeField(form, v)
               b == e \o s
           IN  /\ e \in Seq(Byte) /\ b \in Seq(Byte)
               /\ Size(form, b) = Len(e) /\ Len(e) <= Len(b)
               /\ ReadField(form, b) = v
               /\ SubSeq(b, Size(form, b) + 1, Len(b)) = s
<1> DEFINE w == form.width
           e == EncodeField(form, v)
           b == e \o s
<1>0. w \in Nat /\ form.form \in {"number", "array", "vector"} /\ Len(s) \in Nat
  BY LenProperties DEF Form
<1>1. ASSUME e \in Seq(Byte), Len(e) = w
      PROVE  /\ b \in Seq(Byte) /\ Len(e) <= Len(b)
             /\ SubSeq(b, 1, w) = e /\ SubSeq(b, w + 1, Len(b)) = s
  <2> DEFINE o == <<>>
             j == e \o (o \o s)
  <2>1. o \in Seq(Byte) /\ Len(o) = 0 /\ o \o s = s
    BY EmptySeq, ConcatEmptySeq
  <2> HIDE DEF e, o
  <2>2. /\ j \in Seq(Byte) /\ Len(j) = Len(e) + Len(o) + Len(s)
        /\ SubSeq(j, 1, Len(e)) = e
        /\ SubSeq(j, Len(e) + Len(o) + 1, Len(j)) = s
    <3>1. e \in Seq(Byte) /\ o \in Seq(Byte)
      BY <1>1, <2>1
    <3> QED  BY <3>1, Joined
  <2>3. j = b
    BY <2>1
  <2> HIDE DEF j, b, w
  <2>4. Len(e) + Len(o) + 1 = w + 1 /\ Len(e) <= Len(e) + Len(o) + Len(s)
    BY <1>0, <1>1, <2>1
  <2> QED  BY <1>1, <2>2, <2>3, <2>4
<1>2. CASE form.form = "number"
  <2>1. v \in Nat /\ v < Power[w]
    BY <1>0, <1>2, PowerDefinition DEF Fits
  <2>2. e = BigEndian(v, w)
    BY <1>2 DEF EncodeField
  <2>3. e \in Seq(Byte) /\ Len(e) = w /\ BigEndianValue(e) = v
    BY <1>0, <2>1, <2>2, WrittenIsRead
  <2>4. Size(form, b) = w /\ ReadField(form, b) = BigEndianValue(SubSeq(b, 1, w))
    BY <1>2 DEF Size, ReadField
  <2> HIDE DEF e, b, w
  <2> QED  BY <1>1, <2>3, <2>4 DEF e, b, w
<1>3. CASE form.form = "array"
  <2>1. e = v /\ v \in Seq(Byte) /\ Len(v) = w
    BY <1>3 DEF Fits, EncodeField
  <2>2. Size(form, b) = w /\ ReadField(form, b) = SubSeq(b, 1, w)
    BY <1>3 DEF Size, ReadField
  <2> HIDE DEF e, b, w
  <2> QED  BY <1>1, <2>1, <2>2 DEF e, b, w
<1>4. CASE form.form = "vector"
  <2> DEFINE l == BigEndian(Len(v), w)
  <2>1. v \in Seq(Byte) /\ Len(v) \in Nat /\ Len(v) < Power[w]
    BY <1>4, LenProperties DEF Fits
  <2>2. l \in Seq(Byte) /\ Len(l) = w /\ BigEndianValue(l) = Len(v)
    BY <1>0, <2>1, WrittenIsRead
  <2>3. e = l \o v
    BY <1>4 DEF EncodeField
  <2> HIDE DEF l
  <2>4. e \in Seq(Byte) /\ Len(e) = w + Len(v) /\ b = l \o (v \o s)
    <3>0. l \in Seq(Byte) /\ v \in Seq(Byte)
      BY <2>1, <2>2
    <3>1. l \o v \in Seq(Byte) /\ Len(l \o v) = Len(l) + Len(v)
      BY <3>0, ConcatProperties
    <3>2. (l \o v) \o s = l \o (v \o s)
      BY <3>0, Rejoined
    <3>3. e \in Seq(Byte) /\ b = l \o (v \o s)
      BY <2>3, <3>1, <3>2
    <3> HIDE DEF e, w, b
    <3>4. Len(e) = w + Len(v)
      BY <2>2, <2>3, <3>1
    <3> QED  BY <3>3, <3>4
  <2> HIDE DEF e, b, w
  <2>5. /\ b \in Seq(Byte) /\ Len(b) = w + Len(v) + Len(s)
        /\ SubSeq(b, 1, w) = l
        /\ SubSeq(b, w + 1, w + Len(v)) = v
        /\ SubSeq(b, w + Len(v) + 1, Len(b)) = s
    <3> DEFINE j == l \o (v \o s)
    <3>1. /\ j \in Seq(Byte) /\ Len(j) = Len(l) + Len(v) + Len(s)
          /\ SubSeq(j, 1, Len(l)) = l
          /\ SubSeq(j, Len(l) + 1, Len(l) + Len(v)) = v
          /\ SubSeq(j, Len(l) + Len(v) + 1, Len(j)) = s
      <4>1. v \in Seq(Byte) /\ l \in Seq(Byte)
        BY <2>1, <2>2
      <4> QED  BY <4>1, Joined
    <3> HIDE DEF j
    <3>2. b = j
      BY <2>4 DEF j
    <3> QED  BY <2>2, <3>1, <3>2
  <2>6. Len(b) >= w /\ w + Len(v) <= Len(b)
    BY <1>0, <2>1, <2>5
  <2>7. Size(form, b) = w + Len(v)
    BY <1>4, <2>2, <2>5, <2>6 DEF Size, w
  <2>8. ReadField(form, b) = v
    BY <1>4, <2>5, <2>7 DEF ReadField, w
  <2> QED  BY <2>4, <2>5, <2>6, <2>7, <2>8 DEF e, b
<1> QED  BY <1>0, <1>2, <1>3, <1>4

\* A field that was read is written as the bytes it was read from.
LEMMA ReadFieldIsWritten ==
    ASSUME NEW form \in Form, NEW s \in Seq(Byte), Len(s) >= Size(form, s)
    PROVE  LET v == ReadField(form, s)
               r == SubSeq(s, Size(form, s) + 1, Len(s))
           IN  /\ Fits(form, v) /\ r \in Seq(Byte)
               /\ s = EncodeField(form, v) \o r
<1> DEFINE w == form.width
           v == ReadField(form, s)
           r == SubSeq(s, Size(form, s) + 1, Len(s))
           a == SubSeq(s, 1, w)
           b == SubSeq(s, w + 1, Len(s))
<1>0. w \in Nat /\ form.form \in {"number", "array", "vector"} /\ Len(s) \in Nat
  BY LenProperties DEF Form
<1>1. Len(s) >= w
  <2>1. CASE form.form = "vector" /\ Len(s) >= w
    BY <2>1
  <2>2. CASE ~ (form.form = "vector" /\ Len(s) >= w)
    <3>1. Size(form, s) = w
      BY <2>2 DEF Size
    <3> QED  BY <3>1
  <2> QED  BY <2>1, <2>2
<1>2. /\ a \in Seq(Byte) /\ Len(a) = w
      /\ b \in Seq(Byte) /\ Len(b) = Len(s) - w
      /\ s = a \o b
  <2> HIDE DEF w
  <2> QED  BY <1>0, <1>1, Parts
<1>3. CASE form.form = "number"
  <2>1. v = BigEndianValue(a) /\ r = b
    BY <1>3 DEF ReadField, Size
  <2> HIDE DEF a, b, w
  <2>2. v \in Nat /\ v < Power[w] /\ BigEndian(v, w) = a
    BY <1>2, <2>1, ReadIsWritten
  <2>3. Fits(form, v)
    <3>1. Power[w] \in Nat
      BY <1>0, PowerDefinition
    <3>2. v \in 0 .. Power[w] - 1
      BY <2>2, <3>1
    <3> QED  BY <1>3, <3>2 DEF Fits, w
  <2>4. EncodeField(form, v) = a
    BY <1>3, <2>2 DEF EncodeField, w
  <2> QED  BY <1>2, <2>1, <2>3, <2>4
<1>4. CASE form.form = "array"
  <2>1. v = a /\ r = b
    BY <1>4 DEF ReadField, Size
  <2> HIDE DEF a, b
  <2>2. Fits(form, v) /\ EncodeField(form, v) = a
    BY <1>2, <1>4, <2>1 DEF Fits, EncodeField
  <2> QED  BY <1>2, <2>1, <2>2
<1>5. CASE form.form = "vector"
  <2> DEFINE n == BigEndianValue(a)
  <2>1. Size(form, s) = w + n
    BY <1>1, <1>5 DEF Size
  <2>2. n \in Nat /\ n < Power[w] /\ BigEndian(n, w) = a
    <3> HIDE DEF a, w
    <3> QED  BY <1>2, ReadIsWritten
  <2>3. w + n <= Len(s)
    BY <2>1
  <2> DEFINE p == SubSeq(s, 1, w + n)
  <2>4. /\ v = SubSeq(s, w + 1, w + n) /\ r = SubSeq(s, w + n + 1, Len(s))
    BY <1>5, <2>1 DEF ReadField
  <2> HIDE DEF n, a, b, p, w, v, r
  <2>5. v \in Seq(Byte) /\ Len(v) = n
    <3>1. \A i \in w + 1 .. w + n : s[i] \in Byte
      <4>1. \A i \in w + 1 .. w + n : i \in 1 .. Len(s)
        BY <1>0, <2>2, <2>3
      <4> QED  BY <4>1, ElementOfSeq
    <3>2. w + 1 \in Int /\ w + n \in Int
      BY <1>0, <2>2
    <3>3. /\ SubSeq(s, w + 1, w + n) \in Seq(Byte)
          /\ Len(SubSeq(s, w + 1, w + n)) = n
      <4> DEFINE m == w + 1
                 k == w + n
      <4>1. m \in Int /\ k \in Int /\ \A i \in m .. k : s[i] \in Byte
        BY <3>1, <3>2
      <4> HIDE DEF m, k
      <4>2. /\ SubSeq(s, m, k) \in Seq(Byte)
            /\ Len(SubSeq(s, m, k)) = IF m <= k THEN k - m + 1 ELSE 0
        BY <4>1, SubSeqProperties
      <4>3. (IF m <= k THEN k - m + 1 ELSE 0) = n
        BY <1>0, <2>2 DEF m, k
      <4> QED  BY <4>2, <4>3 DEF m, k
    <3> QED  BY <2>4, <3>3
  <2>6. p \in Seq(Byte) /\ r \in Seq(Byte) /\ s = p \o r
    <3>1. w + n \in Nat
      BY <1>0, <2>2
    <3> QED  BY <2>3, <2>4, <3>1, Parts DEF p
  <2>7. p = a \o v
    <3>1. 1 \in 1 .. Len(s) + 1 /\ w \in 1 - 1 .. Len(s) /\ w + n \in w .. Len(s)
      BY <1>0, <1>1, <2>2, <2>3
    <3>2. SubSeq(s, 1, w) \o SubSeq(s, w + 1, w + n) = SubSeq(s, 1, w + n)
      BY <3>1, ConcatAdjacentSubSeq
    <3> QED  BY <2>4, <3>2 DEF a, p
  <2>8. Fits(form, v) /\ EncodeField(form, v) = p
    BY <1>5, <2>2, <2>5, <2>7 DEF Fits, EncodeField, w
  <2> QED  BY <2>6, <2>8 DEF v, r
<1> QED  BY <1>0, <1>3, <1>4, <1>5

----------------------------------------------------------------------------
(* Messages. *)

Fields(fields) ==
    /\ Len(fields) \in Nat /\ fields = [i \in 1 .. Len(fields) |-> fields[i]]
    /\ \A i \in 1 .. Len(fields) : fields[i][2] \in Form
    /\ \A i, j \in 1 .. Len(fields) : fields[i][1] = fields[j][1] => i = j

\* The fields of a type have a form and a name of their own.
LEMMA LayoutShape ==
    /\ DOMAIN Layout = 1 .. 5
    /\ \A type \in DOMAIN Layout : Fields(Layout[type]) /\ Layout[type] # <<>>
<1>1. DOMAIN Layout = 1 .. 5
  BY DEF Layout
<1>2. \A n \in Nat : Number(n) \in Form /\ Vector(n) \in Form
  BY DEF Number, Vector, Form
<1>3. Array \in Form
  BY ArrayAssumption DEF Array, Form
<1>4. Number(1) \in Form /\ Number(2) \in Form /\ Number(4) \in Form
      /\ Vector(1) \in Form /\ Vector(2) \in Form /\ Vector(4) \in Form
  BY <1>2
<1>5. Fields(Layout[1]) /\ Layout[1] # <<>>
  <2> DEFINE l == Layout[1]
  <2>1. /\ Len(l) = 5 /\ l # <<>> /\ l = [i \in 1 .. 5 |-> l[i]]
        /\ \A i \in 1 .. 5 : l[i][2] \in Form
    BY <1>3, <1>4 DEF Layout
  <2>2. /\ l[1][1] = "version" /\ l[2][1] = "address" /\ l[3][1] = "port"
        /\ l[4][1] = "nick" /\ l[5][1] = "key_fingerprint"
    BY DEF Layout
  <2> HIDE DEF l
  <2>3. ASSUME NEW i \in 1 .. 5, NEW j \in 1 .. 5, l[i][1] = l[j][1] PROVE i = j
    BY <2>2, <2>3
  <2>4. Fields(l)
    BY <2>1, <2>3 DEF Fields
  <2> QED  BY <2>1, <2>4 DEF l
<1>6. Fields(Layout[2]) /\ Layout[2] # <<>>
  <2> DEFINE l == Layout[2]
  <2>1. /\ Len(l) = 1 /\ l # <<>> /\ l = [i \in 1 .. 1 |-> l[i]]
        /\ \A i \in 1 .. 1 : l[i][2] \in Form
    BY <1>3, <1>4 DEF Layout
  <2>2. /\ l[1][1] = "version"
    BY DEF Layout
  <2> HIDE DEF l
  <2>3. ASSUME NEW i \in 1 .. 1, NEW j \in 1 .. 1, l[i][1] = l[j][1] PROVE i = j
    BY <2>2, <2>3
  <2>4. Fields(l)
    BY <2>1, <2>3 DEF Fields
  <2> QED  BY <2>1, <2>4 DEF l
<1>7. Fields(Layout[3]) /\ Layout[3] # <<>>
  <2> DEFINE l == Layout[3]
  <2>1. /\ Len(l) = 2 /\ l # <<>> /\ l = [i \in 1 .. 2 |-> l[i]]
        /\ \A i \in 1 .. 2 : l[i][2] \in Form
    BY <1>3, <1>4 DEF Layout
  <2>2. /\ l[1][1] = "version" /\ l[2][1] = "key_data"
    BY DEF Layout
  <2> HIDE DEF l
  <2>3. ASSUME NEW i \in 1 .. 2, NEW j \in 1 .. 2, l[i][1] = l[j][1] PROVE i = j
    BY <2>2, <2>3
  <2>4. Fields(l)
    BY <2>1, <2>3 DEF Fields
  <2> QED  BY <2>1, <2>4 DEF l
<1>8. Fields(Layout[4]) /\ Layout[4] # <<>>
  <2> DEFINE l == Layout[4]
  <2>1. /\ Len(l) = 11 /\ l # <<>> /\ l = [i \in 1 .. 11 |-> l[i]]
        /\ \A i \in 1 .. 11 : l[i][2] \in Form
    BY <1>3, <1>4 DEF Layout
  <2>2. /\ l[1][1] = "version" /\ l[2][1] = "uuid" /\ l[3][1] = "conv_uuid"
        /\ l[4][1] = "conv_type" /\ l[5][1] = "prev_hash" /\ l[6][1] = "timestamp"
        /\ l[7][1] = "source" /\ l[8][1] = "destination" /\ l[9][1] = "headers"
        /\ l[10][1] = "data" /\ l[11][1] = "signature"
    BY DEF Layout
  <2> HIDE DEF l
  <2>3. ASSUME NEW i \in 1 .. 11, NEW j \in 1 .. 11, l[i][1] = l[j][1] PROVE i = j
    BY <2>2, <2>3
  <2>4. Fields(l)
    BY <2>1, <2>3 DEF Fields
  <2> QED  BY <2>1, <2>4 DEF l
<1>9. Fields(Layout[5]) /\ Layout[5] # <<>>
  <2> DEFINE l == Layout[5]
  <2>1. /\ Len(l) = 5 /\ l # <<>> /\ l = [i \in 1 .. 5 |-> l[i]]
        /\ \A i \in 1 .. 5 : l[i][2] \in Form
    BY <1>3, <1>4 DEF Layout
  <2>2. /\ l[1][1] = "version" /\ l[2][1] = "uuid" /\ l[3][1] = "message_hash"
        /\ l[4][1] = "acknowledger" /\ l[5][1] = "signature"
    BY DEF Layout
  <2> HIDE DEF l
  <2>3. ASSUME NEW i \in 1 .. 5, NEW j \in 1 .. 5, l[i][1] = l[j][1] PROVE i = j
    BY <2>2, <2>3
  <2>4. Fields(l)
    BY <2>1, <2>3 DEF Fields
  <2> QED  BY <2>1, <2>4 DEF l
<1>10. \A type \in 1 .. 5 : type = 1 \/ type = 2 \/ type = 3 \/ type = 4 \/ type = 5
  OBVIOUS
<1> QED  BY <1>1, <1>5, <1>6, <1>7, <1>8, <1>9, <1>10

\* What is written of a message, field by field.
LEMMA EncodedDefinition ==
    ASSUME NEW m, NEW fields, Fields(fields),
           \A i \in 1 .. Len(fields) : Fits(fields[i][2], m.field[fields[i][1]])
    PROVE  /\ \A i \in 1 .. Len(fields) + 1 : Encoded(m, fields)[i] \in Seq(Byte)
           /\ Encoded(m, fields)[Len(fields) + 1] = <<>>
           /\ \A i \in 1 .. Len(fields) :
                 Encoded(m, fields)[i] =
                     EncodeField(fields[i][2], m.field[fields[i][1]])
                         \o Encoded(m, fields)[i + 1]
<1> DEFINE n == Len(fields)
           E(i) == EncodeField(fields[i][2], m.field[fields[i][1]])
           F == [i \in 1 .. n |-> E(i)]
           X == 1 .. n + 1
           Y == Seq(Byte)
           mu == [i \in X |-> n + 1 - i]
           stop == [i \in X |-> i = n + 1]
           base == [i \in X |-> <<>>]
           next == [i \in X |-> i + 1]
           step == [z \in X \X Y |-> IF z[1] = n + 1 THEN <<>> ELSE F[z[1]] \o z[2]]
           Body(f, i) == IF i = n + 1 THEN <<>> ELSE E(i) \o f[i + 1]
           Rec(f) == f = [i \in X |-> Body(f, i)]
           enc == Encoded(m, fields)
<1>0. n \in Nat
  BY DEF Fields
<1>1. ASSUME NEW i \in 1 .. n PROVE E(i) \in Y
  <2>1. fields[i][2] \in Form
    BY DEF Fields
  <2>2. <<>> \in Seq(Byte) /\ Fits(fields[i][2], m.field[fields[i][1]])
    BY EmptySeq
  <2> QED  BY <2>1, <2>2, WrittenFieldIsRead
<1> HIDE DEF E, n
<1>2. ASSUME NEW i \in X, i # n + 1
      PROVE  next[i] = i + 1 /\ next[i] \in X /\ mu[next[i]] < mu[i] /\ i \in 1 .. n
  BY <1>0, <1>2
<1>3. Recursion(X, Y, mu, stop, base, next, step)
  <2>1. step \in [X \X Y -> Y]
    <3>1. ASSUME NEW z \in X \X Y
          PROVE  (IF z[1] = n + 1 THEN <<>> ELSE F[z[1]] \o z[2]) \in Y
      <4>1. CASE z[1] = n + 1
        BY <4>1
      <4>2. CASE z[1] # n + 1
        <5>1. z[1] \in 1 .. n /\ z[2] \in Y
          BY <1>2, <4>2
        <5>2. F[z[1]] \in Y
          BY <1>1, <5>1
        <5> HIDE DEF F
        <5>3. F[z[1]] \o z[2] \in Y
          BY <5>1, <5>2, ConcatProperties
        <5> QED  BY <4>2, <5>3
      <4> QED  BY <4>1, <4>2
    <3> HIDE DEF F, X, Y
    <3> QED  BY <3>1
  <2>2. mu \in [X -> Nat] /\ stop \in [X -> BOOLEAN] /\ base \in [X -> Y]
    BY <1>0
  <2>3. \A i \in X : ~stop[i] => i # n + 1
    OBVIOUS
  <2> HIDE DEF X, Y, mu, next, stop, base, step
  <2> QED  BY <1>2, <2>1, <2>2, <2>3 DEF Recursion
<1>4. ASSUME NEW f, NEW i \in X, i # n + 1 => f[next[i]] \in Y
      PROVE  ValueOf(f, i, stop, base, next, step) = Body(f, i)
  <2>1. CASE i = n + 1
    BY <2>1 DEF ValueOf
  <2>2. CASE i # n + 1
    <3>1. next[i] = i + 1 /\ i \in 1 .. n /\ <<i, f[next[i]]>> \in X \X Y
      BY <1>2, <1>4, <2>2
    <3>2. step[<<i, f[next[i]]>>] = F[i] \o f[next[i]]
      <4> HIDE DEF F, X, Y
      <4> QED  BY <2>2, <3>1
    <3>3. ~stop[i] /\ F[i] = E(i)
      BY <2>2, <3>1
    <3> HIDE DEF F, step, next, stop, base
    <3> QED  BY <2>2, <3>1, <3>2, <3>3 DEF ValueOf
  <2> QED  BY <2>1, <2>2
<1>5. PICK g \in [X -> Y] : Recurses(g, X, stop, base, next, step)
  <2> HIDE DEF X, Y, mu, stop, base, next, step
  <2> QED  BY <1>3, RecursionExists
<1>6. Rec(g)
  <2>1. ASSUME NEW i \in X PROVE g[i] = Body(g, i)
    <3>1. i # n + 1 => g[next[i]] \in Y
      BY <1>2
    <3> HIDE DEF X, Y, mu, next, stop, base, step, Body
    <3> QED  BY <1>4, <1>5, <3>1 DEF Recurses
  <2> HIDE DEF X, Body
  <2> QED  BY <2>1
<1>7. Rec(enc)
  <2>1. enc = CHOOSE f : Rec(f)
    BY DEF Encoded, E, n
  <2> HIDE DEF Rec, enc
  <2> QED  BY <1>6, <2>1
<1> HIDE DEF enc
<1>8. \A i \in X : enc[i] = Body(enc, i)
  <2> HIDE DEF X, Body
  <2> QED  BY <1>7
<1> DEFINE Good == {i \in X : enc[i] \in Y}
<1>9. X \subseteq Good
  <2>1. ASSUME NEW i \in X, \A j \in X : mu[j] < mu[i] => j \in Good PROVE i \in Good
    <3>1. CASE i = n + 1
      <4>1. Body(enc, i) \in Y
        BY <3>1
      <4> HIDE DEF X, Body
      <4> QED  BY <1>8, <4>1
    <3>2. CASE i # n + 1
      <4>1. enc[i + 1] \in Y /\ E(i) \in Y
        BY <1>1, <1>2, <2>1, <3>2
      <4>2. E(i) \o enc[i + 1] \in Y
        BY <4>1, ConcatProperties
      <4>3. Body(enc, i) \in Y
        BY <3>2, <4>2
      <4> HIDE DEF X, Body
      <4> QED  BY <1>8, <4>3
    <3> QED  BY <3>1, <3>2
  <2>2. mu \in [X -> Nat]
    BY <1>0
  <2> HIDE DEF X, mu, Good
  <2> QED  BY <2>1, <2>2, MeasureInduction
<1>10. enc[n + 1] = <<>>
  <2>1. n + 1 \in X /\ Body(enc, n + 1) = <<>>
    BY <1>0
  <2> HIDE DEF X, Body
  <2> QED  BY <1>8, <2>1
<1>11. ASSUME NEW i \in 1 .. n PROVE enc[i] = E(i) \o enc[i + 1]
  <2>1. i \in X /\ Body(enc, i) = E(i) \o enc[i + 1]
    BY <1>0
  <2> HIDE DEF X, Body
  <2> QED  BY <1>8, <2>1
<1> QED  BY <1>9, <1>10, <1>11 DEF enc, E, n

\* What a field takes is a number, and no less than its width.
LEMMA SizeType ==
    ASSUME NEW form \in Form, NEW s \in Seq(Byte)
    PROVE  Size(form, s) \in Nat /\ Size(form, s) >= form.width
<1> DEFINE w == form.width
           a == SubSeq(s, 1, w)
<1>0. w \in Nat /\ Len(s) \in Nat
  BY LenProperties DEF Form
<1>1. CASE form.form = "vector" /\ Len(s) >= w
  <2>1. a \in Seq(Byte)
    <3> HIDE DEF w
    <3> QED  BY <1>0, <1>1, Parts
  <2>2. BigEndianValue(a) \in Nat
    <3> HIDE DEF a
    <3> QED  BY <2>1, ReadIsWritten
  <2>3. Size(form, s) = w + BigEndianValue(a)
    BY <1>1 DEF Size
  <2> HIDE DEF w, a
  <2>4. Size(form, s) \in Nat /\ Size(form, s) >= w
    BY <1>0, <2>2, <2>3
  <2> QED  BY <2>4 DEF w
<1>2. CASE ~ (form.form = "vector" /\ Len(s) >= w)
  <2>1. Size(form, s) = w
    BY <1>2 DEF Size
  <2> QED  BY <1>0, <2>1
<1> QED  BY <1>1, <1>2

Cursor == [ok : BOOLEAN, rest : Seq(Byte)]

\* A cursor that advances is a cursor.
LEMMA AdvanceType ==
    ASSUME NEW c \in Cursor, NEW form \in Form
    PROVE  Advance(c, form) \in Cursor
<1>1. c.ok \in BOOLEAN /\ c.rest \in Seq(Byte)
  BY DEF Cursor
<1>2. CASE ~c.ok \/ Len(c.rest) < Size(form, c.rest)
  <2>1. Advance(c, form) = [ok |-> FALSE, rest |-> c.rest]
    BY <1>2 DEF Advance
  <2> QED  BY <1>1, <2>1 DEF Cursor
<1>3. CASE ~ (~c.ok \/ Len(c.rest) < Size(form, c.rest))
  <2> DEFINE r == SubSeq(c.rest, Size(form, c.rest) + 1, Len(c.rest))
  <2>1. Advance(c, form) = [ok |-> TRUE, rest |-> r]
    BY <1>3 DEF Advance
  <2>2. r \in Seq(Byte)
    <3>1. Size(form, c.rest) \in Int
      BY <1>1, SizeType
    <3>2. Len(c.rest) \in Nat
      BY <1>1, LenProperties
    <3>3. Len(c.rest) >= Size(form, c.rest)
      BY <1>3, <3>1, <3>2
    <3> QED  BY <1>1, <3>3, ReadFieldIsWritten
  <2> HIDE DEF r
  <2> QED  BY <2>1, <2>2 DEF Cursor
<1> QED  BY <1>2, <1>3

\* The cursors that read a message, field by field.
LEMMA CursorsDefinition ==
    ASSUME NEW bytes \in Seq(Byte), NEW fields, Fields(fields)
    PROVE  /\ \A i \in 0 .. Len(fields) : Cursors(bytes, fields)[i] \in Cursor
           /\ Cursors(bytes, fields)[0] = [ok |-> TRUE, rest |-> bytes]
           /\ \A i \in 1 .. Len(fields) :
                 Cursors(bytes, fields)[i] =
                     Advance(Cursors(bytes, fields)[i - 1], fields[i][2])
<1> DEFINE n == Len(fields)
           A(c, i) == Advance(c, fields[i][2])
           start == [ok |-> TRUE, rest |-> bytes]
           X == 0 .. n
           Y == Cursor
           mu == [i \in X |-> i]
           stop == [i \in X |-> i = 0]
           base == [i \in X |-> start]
           next == [i \in X |-> i - 1]
           step == [z \in X \X Y |-> IF z[1] = 0 THEN start ELSE A(z[2], z[1])]
           Body(f, i) == IF i = 0 THEN start ELSE A(f[i - 1], i)
           Rec(f) == f = [i \in X |-> Body(f, i)]
           cur == Cursors(bytes, fields)
<1>0. n \in Nat /\ start \in Y
  BY DEF Fields, Cursor
<1>1. ASSUME NEW i \in 1 .. n, NEW c \in Y PROVE A(c, i) \in Y
  <2>1. fields[i][2] \in Form
    BY DEF Fields
  <2> QED  BY <2>1, AdvanceType
<1> HIDE DEF A, n, start, Y
<1>2. ASSUME NEW i \in X, i # 0
      PROVE  next[i] = i - 1 /\ next[i] \in X /\ mu[next[i]] < mu[i] /\ i \in 1 .. n
  BY <1>0, <1>2
<1>3. Recursion(X, Y, mu, stop, base, next, step)
  <2>1. step \in [X \X Y -> Y]
    <3>1. ASSUME NEW z \in X \X Y
          PROVE  (IF z[1] = 0 THEN start ELSE A(z[2], z[1])) \in Y
      <4>1. CASE z[1] = 0
        BY <1>0, <4>1
      <4>2. CASE z[1] # 0
        <5>1. z[1] \in 1 .. n /\ z[2] \in Y
          BY <1>2, <4>2
        <5> QED  BY <1>1, <4>2, <5>1
      <4> QED  BY <4>1, <4>2
    <3> HIDE DEF X
    <3> QED  BY <3>1
  <2>2. mu \in [X -> Nat] /\ stop \in [X -> BOOLEAN] /\ base \in [X -> Y]
    BY <1>0
  <2>3. \A i \in X : ~stop[i] => i # 0
    OBVIOUS
  <2> HIDE DEF X, mu, next, stop, base, step
  <2> QED  BY <1>2, <2>1, <2>2, <2>3 DEF Recursion
<1>4. ASSUME NEW f, NEW i \in X, i # 0 => f[next[i]] \in Y
      PROVE  ValueOf(f, i, stop, base, next, step) = Body(f, i)
  <2>1. CASE i = 0
    BY <2>1 DEF ValueOf
  <2>2. CASE i # 0
    <3>1. next[i] = i - 1 /\ <<i, f[next[i]]>> \in X \X Y
      BY <1>2, <1>4, <2>2
    <3>2. step[<<i, f[next[i]]>>] = A(f[next[i]], i)
      <4> HIDE DEF X
      <4> QED  BY <2>2, <3>1
    <3>3. ~stop[i]
      BY <2>2
    <3> HIDE DEF step, next, stop, base
    <3> QED  BY <2>2, <3>1, <3>2, <3>3 DEF ValueOf
  <2> QED  BY <2>1, <2>2
<1>5. PICK g \in [X -> Y] : Recurses(g, X, stop, base, next, step)
  <2> HIDE DEF X, mu, stop, base, next, step
  <2> QED  BY <1>3, RecursionExists
<1>6. Rec(g)
  <2>1. ASSUME NEW i \in X PROVE g[i] = Body(g, i)
    <3>1. i # 0 => g[next[i]] \in Y
      BY <1>2
    <3> HIDE DEF X, mu, next, stop, base, step, Body
    <3> QED  BY <1>4, <1>5, <3>1 DEF Recurses
  <2> HIDE DEF X, Body
  <2> QED  BY <2>1
<1>7. Rec(cur)
  <2>1. cur = CHOOSE f : Rec(f)
    BY DEF Cursors, A, n, start
  <2> HIDE DEF Rec, cur
  <2> QED  BY <1>6, <2>1
<1> HIDE DEF cur
<1>8. \A i \in X : cur[i] = Body(cur, i)
  <2> HIDE DEF X, Body
  <2> QED  BY <1>7
<1> DEFINE Good == {i \in X : cur[i] \in Y}
<1>9. X \subseteq Good
  <2>1. ASSUME NEW i \in X, \A j \in X : mu[j] < mu[i] => j \in Good PROVE i \in Good
    <3>1. Body(cur, i) \in Y
      <4>1. CASE i = 0
        BY <1>0, <4>1
      <4>2. CASE i # 0
        <5>1. cur[i - 1] \in Y /\ i \in 1 .. n
          BY <1>2, <2>1, <4>2
        <5> QED  BY <1>1, <4>2, <5>1
      <4> QED  BY <4>1, <4>2
    <3> HIDE DEF X, Body
    <3> QED  BY <1>8, <3>1
  <2>2. mu \in [X -> Nat]
    BY <1>0
  <2> HIDE DEF X, mu, Good
  <2> QED  BY <2>1, <2>2, MeasureInduction
<1>10. cur[0] = start
  <2>1. 0 \in X /\ Body(cur, 0) = start
    BY <1>0
  <2> HIDE DEF X, Body
  <2> QED  BY <1>8, <2>1
<1>11. ASSUME NEW i \in 1 .. n PROVE cur[i] = A(cur[i - 1], i)
  <2>1. i \in X /\ Body(cur, i) = A(cur[i - 1], i)
    BY <1>0
  <2> HIDE DEF X, Body
  <2> QED  BY <1>8, <2>1
<1> QED  BY <1>9, <1>10, <1>11 DEF cur, A, n, start, Y

\* Fields that were written are read one by one, each from where the one before
\* it ended.
LEMMA WrittenFieldsAreRead ==
    ASSUME NEW m, NEW fields, Fields(fields),
           \A i \in 1 .. Len(fields) : Fits(fields[i][2], m.field[fields[i][1]])
    PROVE  LET enc == Encoded(m, fields)
               cur == Cursors(enc[1], fields)
           IN  /\ \A i \in 0 .. Len(fields) : cur[i] = [ok |-> TRUE, rest |-> enc[i + 1]]
               /\ \A i \in 1 .. Len(fields) :
                     ReadField(fields[i][2], enc[i]) = m.field[fields[i][1]]
<1> DEFINE n == Len(fields)
           enc == Encoded(m, fields)
           cur == Cursors(enc[1], fields)
<1>0. n \in Nat /\ \A i \in 1 .. n : fields[i][2] \in Form
  BY DEF Fields
<1>1. /\ \A i \in 1 .. n + 1 : enc[i] \in Seq(Byte)
      /\ \A i \in 1 .. n :
            enc[i] = EncodeField(fields[i][2], m.field[fields[i][1]]) \o enc[i + 1]
  BY EncodedDefinition
<1>2. enc[1] \in Seq(Byte)
  BY <1>0, <1>1
<1>3. /\ cur[0] = [ok |-> TRUE, rest |-> enc[1]]
      /\ \A i \in 1 .. n : cur[i] = Advance(cur[i - 1], fields[i][2])
  <2> HIDE DEF enc
  <2> QED  BY <1>2, CursorsDefinition
<1> HIDE DEF enc, cur, n
<1>4. ASSUME NEW i \in 1 .. n
      PROVE  /\ ReadField(fields[i][2], enc[i]) = m.field[fields[i][1]]
             /\ Advance([ok |-> TRUE, rest |-> enc[i]], fields[i][2])
                    = [ok |-> TRUE, rest |-> enc[i + 1]]
  <2> DEFINE form == fields[i][2]
             v == m.field[fields[i][1]]
             s == enc[i + 1]
             b == enc[i]
             e == EncodeField(form, v)
  <2>1. i \in 1 .. n + 1 /\ i + 1 \in 1 .. n + 1
    BY <1>0
  <2>2. form \in Form /\ Fits(form, v) /\ s \in Seq(Byte) /\ b = e \o s
    BY <1>0, <1>1, <2>1 DEF n
  <2> HIDE DEF form, v, s
  <2>3. /\ e \o s \in Seq(Byte)
        /\ Size(form, e \o s) = Len(e) /\ Len(e) <= Len(e \o s) /\ e \in Seq(Byte)
        /\ ReadField(form, e \o s) = v
        /\ SubSeq(e \o s, Size(form, e \o s) + 1, Len(e \o s)) = s
    BY <2>2, WrittenFieldIsRead
  <2> HIDE DEF e, b
  <2>4. /\ Size(form, b) = Len(e) /\ Len(e) <= Len(b)
        /\ ReadField(form, b) = v /\ SubSeq(b, Size(form, b) + 1, Len(b)) = s
    BY <2>2, <2>3
  <2>5. Len(e) \in Nat /\ Len(b) \in Nat
    BY <2>2, <2>3, LenProperties
  <2>6. ~ (Len(b) < Size(form, b))
    BY <2>4, <2>5
  <2>7. Advance([ok |-> TRUE, rest |-> b], form) = [ok |-> TRUE, rest |-> s]
    BY <2>4, <2>6 DEF Advance
  <2> QED  BY <2>4, <2>7 DEF form, v, s, b
<1> DEFINE X == 0 .. n
           mu == [i \in X |-> i]
           Good == {i \in X : cur[i] = [ok |-> TRUE, rest |-> enc[i + 1]]}
<1>5. ASSUME NEW i \in X, \A j \in X : mu[j] < mu[i] => j \in Good PROVE i \in Good
  <2>1. CASE i = 0
    <3>1. 0 + 1 = 1
      OBVIOUS
    <3> QED  BY <1>3, <2>1, <3>1
  <2>2. CASE i # 0
    <3>1. i \in 1 .. n /\ i - 1 \in X /\ (i - 1) + 1 = i /\ mu[i - 1] < mu[i]
      BY <1>0, <2>2
    <3>2. cur[i - 1] = [ok |-> TRUE, rest |-> enc[(i - 1) + 1]]
      BY <1>5, <3>1
    <3>3. cur[i - 1] = [ok |-> TRUE, rest |-> enc[i]]
      BY <3>1, <3>2
    <3>4. cur[i] = [ok |-> TRUE, rest |-> enc[i + 1]]
      BY <1>3, <1>4, <3>1, <3>3
    <3> QED  BY <3>4
  <2> QED  BY <2>1, <2>2
<1>6. mu \in [X -> Nat]
  BY <1>0
<1>7. X \subseteq Good
  <2> HIDE DEF X, mu, Good
  <2> QED  BY <1>5, <1>6, MeasureInduction
<1> QED  BY <1>4, <1>7 DEF enc, cur, n

\* Fields that are read to the end of the bytes are written as those bytes.
LEMMA ReadFieldsAreWritten ==
    ASSUME NEW bytes \in Seq(Byte), NEW fields, Fields(fields),
           Cursors(bytes, fields)[Len(fields)].ok,
           Cursors(bytes, fields)[Len(fields)].rest = <<>>,
           NEW m,
           \A i \in 1 .. Len(fields) :
               m.field[fields[i][1]] =
                   ReadField(fields[i][2], Cursors(bytes, fields)[i - 1].rest)
    PROVE  /\ \A i \in 1 .. Len(fields) : Fits(fields[i][2], m.field[fields[i][1]])
           /\ Encoded(m, fields)[1] = bytes
<1> DEFINE n == Len(fields)
           cur == Cursors(bytes, fields)
           enc == Encoded(m, fields)
           X == 0 .. n
           mu == [i \in X |-> n - i]
           Good == {i \in X : cur[i].ok}
           Same == {i \in X : enc[i + 1] = cur[i].rest}
<1>0. n \in Nat /\ \A i \in 1 .. n : fields[i][2] \in Form
  BY DEF Fields
<1>1. /\ \A i \in X : cur[i].ok \in BOOLEAN /\ cur[i].rest \in Seq(Byte)
      /\ cur[0] = [ok |-> TRUE, rest |-> bytes]
      /\ \A i \in 1 .. n : cur[i] = Advance(cur[i - 1], fields[i][2])
  BY CursorsDefinition DEF Cursor
<1>2. mu \in [X -> Nat]
  BY <1>0
<1>3. /\ cur[n].ok /\ cur[n].rest = <<>>
      /\ \A i \in 1 .. n :
             m.field[fields[i][1]] = ReadField(fields[i][2], cur[i - 1].rest)
  OBVIOUS
<1> HIDE DEF cur, n
<1>4. ASSUME NEW i \in X, i # n
      PROVE  i + 1 \in 1 .. n /\ i + 1 \in X /\ (i + 1) - 1 = i /\ mu[i + 1] < mu[i]
  BY <1>0, <1>4
\* A cursor that advances was one that could.
<1>5. ASSUME NEW i \in 1 .. n, cur[i].ok
      PROVE  LET c == cur[i - 1]
                 form == fields[i][2]
             IN  /\ c.ok /\ Len(c.rest) >= Size(form, c.rest)
                 /\ cur[i].rest = SubSeq(c.rest, Size(form, c.rest) + 1, Len(c.rest))
  <2> DEFINE c == cur[i - 1]
             form == fields[i][2]
  <2>1. i - 1 \in X /\ form \in Form
    BY <1>0
  <2>2. c.rest \in Seq(Byte) /\ c.ok \in BOOLEAN /\ cur[i] = Advance(c, form)
    BY <1>1, <2>1
  <2> HIDE DEF c, form
  <2>3. Len(c.rest) \in Nat /\ Size(form, c.rest) \in Nat
    BY <2>1, <2>2, LenProperties, SizeType
  <2>4. ~ (~c.ok \/ Len(c.rest) < Size(form, c.rest))
    BY <1>5, <2>2 DEF Advance
  <2>5. cur[i].rest = SubSeq(c.rest, Size(form, c.rest) + 1, Len(c.rest))
    <3> DEFINE r == SubSeq(c.rest, Size(form, c.rest) + 1, Len(c.rest))
    <3>1. Advance(c, form) = [ok |-> TRUE, rest |-> r]
      BY <2>4 DEF Advance
    <3>2. cur[i] = Advance(c, form)
      BY <2>2
    <3> HIDE DEF r
    <3>3. cur[i].rest = r
      BY <3>1, <3>2
    <3> QED  BY <3>3 DEF r
  <2>6. c.ok /\ Len(c.rest) >= Size(form, c.rest)
    <3> DEFINE l == Len(c.rest)
               z == Size(form, c.rest)
    <3>1. l \in Nat /\ z \in Nat /\ c.ok /\ ~ (l < z)
      BY <2>2, <2>3, <2>4
    <3> HIDE DEF l, z
    <3>2. l >= z
      BY <3>1
    <3> QED  BY <3>1, <3>2 DEF l, z
  <2> QED  BY <2>5, <2>6 DEF c, form
<1>6. X \subseteq Good
  <2>1. ASSUME NEW i \in X, \A j \in X : mu[j] < mu[i] => j \in Good PROVE i \in Good
    <3>1. CASE i = n
      BY <1>3, <3>1
    <3>2. CASE i # n
      <4>1. cur[i + 1].ok /\ i + 1 \in 1 .. n /\ (i + 1) - 1 = i
        BY <1>4, <2>1, <3>2
      <4>2. cur[(i + 1) - 1].ok
        BY <1>5, <4>1
      <4> QED  BY <4>1, <4>2
    <3> QED  BY <3>1, <3>2
  <2> HIDE DEF X, mu, Good
  <2> QED  BY <1>2, <2>1, MeasureInduction
<1>7. ASSUME NEW i \in 1 .. n
      PROVE  /\ Fits(fields[i][2], m.field[fields[i][1]])
             /\ cur[i - 1].rest =
                    EncodeField(fields[i][2], m.field[fields[i][1]]) \o cur[i].rest
  <2> DEFINE s == cur[i - 1].rest
             form == fields[i][2]
  <2>1. i - 1 \in X /\ i \in X /\ form \in Form
    BY <1>0
  <2>2. cur[i].ok /\ s \in Seq(Byte)
    BY <1>1, <1>6, <2>1
  <2>3. Len(s) >= Size(form, s) /\ cur[i].rest = SubSeq(s, Size(form, s) + 1, Len(s))
    BY <1>5, <2>2
  <2>4. m.field[fields[i][1]] = ReadField(form, s)
    BY <1>3
  <2> HIDE DEF s, form
  <2>5. /\ Fits(form, ReadField(form, s))
        /\ s = EncodeField(form, ReadField(form, s)) \o SubSeq(s, Size(form, s) + 1, Len(s))
    BY <2>1, <2>2, <2>3, ReadFieldIsWritten
  <2> QED  BY <2>3, <2>4, <2>5 DEF s, form
<1>8. /\ enc[n + 1] = <<>>
      /\ \A i \in 1 .. n :
            enc[i] = EncodeField(fields[i][2], m.field[fields[i][1]]) \o enc[i + 1]
  <2>1. \A i \in 1 .. Len(fields) : Fits(fields[i][2], m.field[fields[i][1]])
    BY <1>7 DEF n
  <2> QED  BY <2>1, EncodedDefinition DEF n
<1> HIDE DEF enc
<1>9. X \subseteq Same
  <2>1. ASSUME NEW i \in X, \A j \in X : mu[j] < mu[i] => j \in Same PROVE i \in Same
    <3>1. CASE i = n
      BY <1>3, <1>8, <3>1
    <3>2. CASE i # n
      <4>1. i + 1 \in 1 .. n /\ (i + 1) - 1 = i /\ enc[(i + 1) + 1] = cur[i + 1].rest
        BY <1>4, <2>1, <3>2
      <4>2. enc[i + 1] = cur[(i + 1) - 1].rest
        <5> DEFINE k == i + 1
        <5> HIDE DEF k
        <5>1. k \in 1 .. n /\ enc[k + 1] = cur[k].rest
          BY <4>1 DEF k
        <5>2. enc[k] = cur[k - 1].rest
          BY <1>7, <1>8, <5>1
        <5> QED  BY <5>2 DEF k
      <4> QED  BY <4>1, <4>2
    <3> QED  BY <3>1, <3>2
  <2> HIDE DEF X, mu, Same
  <2> QED  BY <1>2, <2>1, MeasureInduction
<1>10. enc[0 + 1] = cur[0].rest
  <2>1. 0 \in X
    BY <1>0
  <2> QED  BY <1>9, <2>1
<1>11. enc[1] = bytes
  BY <1>1, <1>10
<1> QED  BY <1>7, <1>11 DEF enc, n

\* The fields of a type and the places where they are.
LEMMA FieldsOfType ==
    ASSUME NEW type \in DOMAIN Layout
    PROVE  LET fields == Layout[type]
           IN  /\ Fields(fields) /\ DOMAIN fields = 1 .. Len(fields) /\ Len(fields) \in Nat
               /\ Names(type) = {fields[i][1] : i \in 1 .. Len(fields)}
               /\ ToSet(fields) = {fields[i] : i \in 1 .. Len(fields)}
               /\ \A i \in 1 .. Len(fields) : Position(fields[i][1], fields) = i
<1> DEFINE fields == Layout[type]
           n == Len(fields)
<1>1. Fields(fields)
  BY LayoutShape
<1>2. n \in Nat /\ fields = [i \in 1 .. n |-> fields[i]]
  BY <1>1 DEF Fields
<1>3. DOMAIN fields = 1 .. n
  <2> DEFINE g == [i \in 1 .. n |-> fields[i]]
  <2>1. DOMAIN g = 1 .. n
    OBVIOUS
  <2> HIDE DEF g
  <2>2. fields = g
    BY <1>2 DEF g
  <2> QED  BY <2>1, <2>2
<1>4. ASSUME NEW i \in 1 .. n PROVE Position(fields[i][1], fields) = i
  <2>1. \A j \in 1 .. n : fields[j][1] = fields[i][1] => j = i
    BY <1>1 DEF Fields
  <2> HIDE DEF fields, n
  <2> QED  BY <1>3, <2>1 DEF Position
<1> QED  BY <1>1, <1>2, <1>3, <1>4 DEF Names, ToSet

\* An encodable message is its type and its fields.
LEMMA EncodeShape ==
    ASSUME NEW m, m.type \in DOMAIN Layout, Encodable(m)
    PROVE  LET fields == Layout[m.type]
           IN  /\ \A i \in 1 .. Len(fields) : Fits(fields[i][2], m.field[fields[i][1]])
               /\ Encode(m) \in Seq(Byte) /\ Encode(m) # <<>>
               /\ Encode(m)[1] = m.type
               /\ Tail(Encode(m)) = Encoded(m, fields)[1]
<1> DEFINE fields == Layout[m.type]
           e == Encoded(m, fields)[1]
<1>1. /\ Fields(fields) /\ Len(fields) \in Nat
      /\ ToSet(fields) = {fields[i] : i \in 1 .. Len(fields)}
  BY FieldsOfType
<1>2. \A i \in 1 .. Len(fields) : Fits(fields[i][2], m.field[fields[i][1]])
  BY <1>1 DEF Encodable
<1>3. e \in Seq(Byte)
  <2>1. 1 \in 1 .. Len(fields) + 1
    BY <1>1
  <2> HIDE DEF fields
  <2> QED  BY <1>1, <1>2, <2>1, EncodedDefinition DEF fields
<1>4. m.type \in Byte
  BY LayoutShape, BaseIsPositive DEF Byte
<1>5. Encode(m) = <<m.type>> \o e
  BY DEF Encode, EncodeFields
<1> HIDE DEF e, fields
<1>6. <<m.type>> \in Seq(Byte) /\ Len(<<m.type>>) = 1 /\ <<m.type>>[1] = m.type
  BY <1>4
<1> DEFINE t == <<m.type>>
           b == t \o e
<1>7. Len(e) \in Nat
  BY <1>3, LenProperties
<1>8. /\ b \in Seq(Byte) /\ Len(b) = 1 + Len(e) /\ b[1] = m.type
      /\ \A i \in 1 .. Len(e) : b[i + 1] = e[i]
  <2>1. /\ t \o e \in Seq(Byte) /\ Len(t \o e) = Len(t) + Len(e)
        /\ \A i \in 1 .. Len(t) + Len(e) :
               (t \o e)[i] = IF i <= Len(t) THEN t[i] ELSE e[i - Len(t)]
    <3> HIDE DEF t
    <3> QED  BY <1>3, <1>6, ConcatProperties DEF t
  <2> HIDE DEF b, t
  <2>2. Len(t) = 1 /\ t[1] = m.type
    BY <1>6 DEF t
  <2>3. /\ b \in Seq(Byte) /\ Len(b) = 1 + Len(e)
        /\ \A i \in 1 .. 1 + Len(e) : b[i] = IF i <= 1 THEN t[i] ELSE e[i - 1]
    BY <2>1, <2>2 DEF b
  <2>4. b[1] = m.type
    BY <1>7, <2>2, <2>3
  <2>5. ASSUME NEW i \in 1 .. Len(e) PROVE b[i + 1] = e[i]
    <3>1. i + 1 \in 1 .. 1 + Len(e) /\ ~ (i + 1 <= 1) /\ (i + 1) - 1 = i
      BY <1>7
    <3> QED  BY <2>3, <3>1
  <2> QED  BY <2>3, <2>4, <2>5
<1> HIDE DEF b
<1>9. b # <<>>
  BY <1>7, <1>8, EmptySeq
<1>10. Tail(b) = e
  <2>1. /\ Tail(b) \in Seq(Byte) /\ Len(Tail(b)) = Len(b) - 1
        /\ \A i \in 1 .. Len(Tail(b)) : Tail(b)[i] = b[i + 1]
    BY <1>8, <1>9, HeadTailProperties
  <2>2. Len(Tail(b)) = Len(e)
    BY <1>7, <1>8, <2>1
  <2> QED  BY <1>3, <1>8, <2>1, <2>2, SeqEqual
<1>11. Encode(m) = b
  BY <1>5 DEF b
<1> QED  BY <1>2, <1>8, <1>9, <1>10, <1>11 DEF e, fields

\* What is written decodes to the message that was written, and to no other.
LEMMA EncodedIsDecoded ==
    ASSUME NEW m, IsMessage(m), Encodable(m)
    PROVE  Decode(Encode(m)) = {m}
<1> DEFINE fields == Layout[m.type]
           n == Len(fields)
           bytes == Encode(m)
           enc == Encoded(m, fields)
           cur == Cursors(Tail(bytes), fields)
           Read(i) == ReadField(fields[i][2], cur[i - 1].rest)
<1>1. m.type \in DOMAIN Layout
  BY DEF IsMessage
<1>2. /\ Fields(fields) /\ n \in Nat
      /\ Names(m.type) = {fields[i][1] : i \in 1 .. n}
      /\ \A i \in 1 .. n : Position(fields[i][1], fields) = i
  BY <1>1, FieldsOfType
<1>3. /\ \A i \in 1 .. n : Fits(fields[i][2], m.field[fields[i][1]])
      /\ bytes \in Seq(Byte) /\ bytes # <<>> /\ bytes[1] = m.type
      /\ Tail(bytes) = enc[1]
  BY <1>1, EncodeShape
<1>4. /\ \A i \in 0 .. n : cur[i] = [ok |-> TRUE, rest |-> enc[i + 1]]
      /\ \A i \in 1 .. n : ReadField(fields[i][2], enc[i]) = m.field[fields[i][1]]
  <2>1. /\ \A i \in 0 .. n : Cursors(enc[1], fields)[i] = [ok |-> TRUE, rest |-> enc[i + 1]]
        /\ \A i \in 1 .. n : ReadField(fields[i][2], enc[i]) = m.field[fields[i][1]]
    <3> HIDE DEF fields
    <3> QED  BY <1>2, <1>3, WrittenFieldsAreRead
  <2> HIDE DEF bytes, enc, fields
  <2> QED  BY <1>3, <2>1
<1>5. enc[n + 1] = <<>>
  <2> HIDE DEF fields
  <2> QED  BY <1>2, <1>3, EncodedDefinition
<1>6. cur[n].ok /\ ensure_finished(cur[n])
  <2> HIDE DEF cur, enc
  <2>1. cur[n] = [ok |-> TRUE, rest |-> enc[n + 1]]
    BY <1>2, <1>4
  <2> QED  BY <1>5, <2>1 DEF ensure_finished
<1>7. ASSUME NEW f \in Names(m.type)
      PROVE  Read(Position(f, fields)) = m.field[f]
  <2>1. PICK i \in 1 .. n : f = fields[i][1]
    BY <1>2
  <2>2. Position(f, fields) = i
    BY <1>2, <2>1
  <2>3. i - 1 \in 0 .. n /\ (i - 1) + 1 = i
    BY <1>2
  <2>4. cur[i - 1].rest = enc[i]
    <3>1. cur[i - 1] = [ok |-> TRUE, rest |-> enc[i]]
      <4> HIDE DEF cur, enc
      <4> QED  BY <1>4, <2>3
    <3> HIDE DEF cur, enc
    <3> QED  BY <3>1
  <2>5. ReadField(fields[i][2], enc[i]) = m.field[f]
    BY <1>4, <2>1
  <2> HIDE DEF cur, enc
  <2> QED  BY <2>2, <2>4, <2>5
<1>8. [type |-> m.type, field |-> [f \in Names(m.type) |-> Read(Position(f, fields))]] = m
  <2>1. [f \in Names(m.type) |-> Read(Position(f, fields))]
            = [f \in Names(m.type) |-> m.field[f]]
    <3> HIDE DEF Read
    <3> QED  BY <1>7
  <2>2. m = [type |-> m.type, field |-> [f \in Names(m.type) |-> m.field[f]]]
    BY DEF IsMessage
  <2> HIDE DEF Read, fields
  <2> QED  BY <2>1, <2>2
<1>9. Decode(bytes) = {[type |-> m.type,
                        field |-> [f \in Names(m.type) |-> Read(Position(f, fields))]]}
  <2>1. ~ (bytes = <<>> \/ bytes[1] \notin DOMAIN Layout)
    BY <1>1, <1>3
  <2> HIDE DEF bytes
  <2> QED  BY <1>3, <1>6, <2>1 DEF Decode
<1> QED  BY <1>8, <1>9

\* What is decoded encodes to the bytes that it was decoded from.
LEMMA DecodedIsEncoded ==
    ASSUME NEW bytes \in Seq(Byte), Decode(bytes) # {}
    PROVE  \E m \in Decode(bytes) :
              Decode(bytes) = {m} /\ Encodable(m) /\ Encode(m) = bytes
<1> DEFINE type == bytes[1]
           fields == Layout[type]
           n == Len(fields)
           rest == Tail(bytes)
           cur == Cursors(rest, fields)
           Read(i) == ReadField(fields[i][2], cur[i - 1].rest)
           m == [type |-> type, field |-> [f \in Names(type) |-> Read(Position(f, fields))]]
<1>1. bytes # <<>> /\ type \in DOMAIN Layout
  BY DEF Decode
<1>2. /\ Fields(fields) /\ n \in Nat
      /\ Names(type) = {fields[i][1] : i \in 1 .. n}
      /\ ToSet(fields) = {fields[i] : i \in 1 .. n}
      /\ \A i \in 1 .. n : Position(fields[i][1], fields) = i
  BY <1>1, FieldsOfType
<1>3. rest \in Seq(Byte) /\ Len(rest) = Len(bytes) - 1
      /\ \A i \in 1 .. Len(rest) : rest[i] = bytes[i + 1]
  BY <1>1, HeadTailProperties
<1>4. /\ cur[n].ok /\ cur[n].rest = <<>>
      /\ Decode(bytes) = {m}
  <2> HIDE DEF cur, rest, n, fields, Read
  <2>1. cur[n].ok /\ ensure_finished(cur[n])
    BY <1>1 DEF Decode, cur, rest, n, fields
  <2>2. Decode(bytes) = {m}
    BY <1>1, <2>1 DEF Decode, cur, rest, n, fields, Read
  <2> QED  BY <2>1, <2>2 DEF ensure_finished
<1>5. ASSUME NEW i \in 1 .. n PROVE m.field[fields[i][1]] = Read(i)
  <2>1. fields[i][1] \in Names(type)
    BY <1>2
  <2>2. Position(fields[i][1], fields) = i
    BY <1>2
  <2> HIDE DEF Read, fields
  <2> QED  BY <2>1, <2>2
<1>6. m.type = type
  OBVIOUS
<1> HIDE DEF m
<1>7. /\ \A i \in 1 .. n : Fits(fields[i][2], m.field[fields[i][1]])
      /\ Encoded(m, fields)[1] = rest
  <2>1. \A i \in 1 .. Len(fields) :
            m.field[fields[i][1]]
                = ReadField(fields[i][2], Cursors(rest, fields)[i - 1].rest)
    BY <1>5
  <2> HIDE DEF rest, fields
  <2> QED  BY <1>2, <1>3, <1>4, <2>1, ReadFieldsAreWritten
<1>8. Encodable(m)
  <2> HIDE DEF fields, n
  <2> QED  BY <1>2, <1>6, <1>7 DEF Encodable, fields
<1>9. Encode(m) = bytes
  <2>1. /\ Encode(m) \in Seq(Byte) /\ Encode(m) # <<>>
        /\ Encode(m)[1] = type /\ Tail(Encode(m)) = rest
    BY <1>1, <1>6, <1>7, <1>8, EncodeShape
  <2> DEFINE e == Encode(m)
  <2> HIDE DEF e, rest, type
  <2>2. e \in Seq(Byte) /\ e # <<>> /\ e[1] = bytes[1] /\ Tail(e) = rest
    BY <2>1 DEF e, type
  <2>3. /\ Len(rest) = Len(e) - 1
        /\ \A i \in 1 .. Len(rest) : rest[i] = e[i + 1]
    BY <2>2, HeadTailProperties
  <2>4. Len(e) \in Nat /\ Len(bytes) \in Nat
    BY <2>2, LenProperties
  <2>5. Len(e) = Len(bytes)
    BY <1>3, <2>3, <2>4
  <2>6. ASSUME NEW i \in 1 .. Len(e) PROVE e[i] = bytes[i]
    <3>1. CASE i = 1
      BY <2>2, <3>1
    <3>2. CASE i # 1
      <4>1. i - 1 \in 1 .. Len(rest) /\ (i - 1) + 1 = i
        BY <2>3, <2>4, <3>2
      <4> DEFINE k == i - 1
      <4>2. rest[k] = bytes[k + 1] /\ rest[k] = e[k + 1]
        BY <1>3, <2>3, <4>1
      <4> QED  BY <4>1, <4>2
    <3> QED  BY <3>1, <3>2
  <2> QED  BY <2>2, <2>5, <2>6, SeqEqual DEF e
<1> QED  BY <1>4, <1>8, <1>9

\* Chat messages with the same signed bytes are the same but for the signature.
LEMMA SignedBytesAreOfOneMessage ==
    ASSUME NEW m, NEW k, IsMessage(m), IsMessage(k), Encodable(m), Encodable(k),
           m.type = ChatMessage, k.type = ChatMessage,
           chat_message_signed_bytes(m) = chat_message_signed_bytes(k)
    PROVE  Unsigned(m) = Unsigned(k)
<1> DEFINE all == Layout[4]
           signed == Front(all)
<1>1. 4 \in DOMAIN Layout /\ m.type = 4 /\ k.type = 4 /\ ChatMessage = 4
  BY LayoutShape DEF ChatMessage
<1>2. /\ Fields(all) /\ Len(all) \in Nat
      /\ Names(4) = {all[i][1] : i \in 1 .. Len(all)}
  BY <1>1, FieldsOfType
<1>3. Len(all) = 11 /\ all[11][1] = "signature"
  BY DEF Layout
<1> HIDE DEF all
<1>4. signed = [i \in 1 .. 10 |-> all[i]] /\ Len(signed) = 10
  <2>1. signed = [i \in 1 .. 10 |-> all[i]]
    BY <1>3 DEF Front
  <2>2. Len([i \in 1 .. 10 |-> all[i]]) = 10
    OBVIOUS
  <2> HIDE DEF signed
  <2> QED  BY <2>1, <2>2
<1> HIDE DEF signed
<1>5. \A i \in 1 .. 10 : signed[i] = all[i] /\ i \in 1 .. Len(all)
  BY <1>3, <1>4
<1>6. Fields(signed)
  <2>1. signed = [i \in 1 .. 10 |-> signed[i]]
    BY <1>4
  <2>2. \A i \in 1 .. 10 : signed[i][2] \in Form
    BY <1>2, <1>5 DEF Fields
  <2>3. \A i, j \in 1 .. 10 : signed[i][1] = signed[j][1] => i = j
    BY <1>2, <1>5 DEF Fields
  <2> QED  BY <1>4, <2>1, <2>2, <2>3 DEF Fields
<1>7. ASSUME NEW x, x.type = 4, Encodable(x), NEW i \in 1 .. Len(signed)
      PROVE  Fits(signed[i][2], x.field[signed[i][1]])
  <2>1. \A j \in 1 .. Len(Layout[x.type]) :
            Fits(Layout[x.type][j][2], x.field[Layout[x.type][j][1]])
    BY <1>1, <1>7, EncodeShape
  <2>2. \A j \in 1 .. Len(all) : Fits(all[j][2], x.field[all[j][1]])
    BY <1>7, <2>1 DEF all
  <2> QED  BY <1>4, <1>5, <2>2
<1>8. ASSUME NEW x, x.type = 4, Encodable(x), NEW i \in 1 .. Len(signed)
      PROVE  x.field[signed[i][1]] =
                 ReadField(signed[i][2],
                           Cursors(chat_message_signed_bytes(x), signed)[i - 1].rest)
  <2> DEFINE enc == Encoded(x, signed)
             cur == Cursors(enc[1], signed)
  <2>1. \A j \in 1 .. Len(signed) : Fits(signed[j][2], x.field[signed[j][1]])
    BY <1>7, <1>8
  <2>2. /\ \A j \in 0 .. Len(signed) : cur[j] = [ok |-> TRUE, rest |-> enc[j + 1]]
        /\ \A j \in 1 .. Len(signed) :
              ReadField(signed[j][2], enc[j]) = x.field[signed[j][1]]
    BY <1>6, <2>1, WrittenFieldsAreRead
  <2>3. chat_message_signed_bytes(x) = enc[1]
    BY <1>1 DEF chat_message_signed_bytes, EncodeFields, signed, all
  <2>4. i - 1 \in 0 .. Len(signed) /\ (i - 1) + 1 = i
    BY <1>4
  <2> HIDE DEF enc, cur
  <2>5. cur[i - 1] = [ok |-> TRUE, rest |-> enc[i]]
    BY <2>2, <2>4
  <2>6. cur[i - 1].rest = enc[i]
    BY <2>5
  <2>7. x.field[signed[i][1]] = ReadField(signed[i][2], cur[i - 1].rest)
    BY <2>2, <2>6
  <2> QED  BY <2>3, <2>7 DEF cur
<1>9. ASSUME NEW x, IsMessage(x), x.type = 4
      PROVE  DOMAIN x.field = Names(4)
  <2>1. x = [type |-> x.type, field |-> [f \in Names(x.type) |-> x.field[f]]]
    BY <1>9 DEF IsMessage
  <2>2. x.field = [f \in Names(x.type) |-> x.field[f]]
    BY <2>1
  <2>3. x.field = [f \in Names(4) |-> x.field[f]]
    BY <1>9, <2>2
  <2> QED  BY <2>3
<1>10. DOMAIN m.field = Names(4) /\ DOMAIN k.field = Names(4)
  BY <1>1, <1>9
<1>11. ASSUME NEW f \in Names(4) \ {"signature"} PROVE m.field[f] = k.field[f]
  <2>1. PICK i \in 1 .. Len(all) : f = all[i][1]
    BY <1>2
  <2>2. i \in 1 .. 10
    BY <1>3, <2>1
  <2>3. f = signed[i][1] /\ i \in 1 .. Len(signed)
    BY <1>4, <1>5, <2>1, <2>2
  <2> DEFINE b == chat_message_signed_bytes(m)
             c == chat_message_signed_bytes(k)
  <2>4. /\ m.field[f] = ReadField(signed[i][2], Cursors(b, signed)[i - 1].rest)
        /\ k.field[f] = ReadField(signed[i][2], Cursors(c, signed)[i - 1].rest)
    BY <1>1, <1>8, <2>3
  <2>5. b = c
    OBVIOUS
  <2> HIDE DEF b, c
  <2> QED  BY <2>4, <2>5
<1> DEFINE S == Names(4) \ {"signature"}
<1>12. Unsigned(m) = [f \in S |-> m.field[f]] /\ Unsigned(k) = [f \in S |-> k.field[f]]
  BY <1>10 DEF Unsigned
<1>13. [f \in S |-> m.field[f]] = [f \in S |-> k.field[f]]
  BY <1>11
<1> QED  BY <1>12, <1>13

----------------------------------------------------------------------------
(* The inductive invariant. *)

\* The bytes that the writer puts.
Frame == IF IsDatagram THEN Encode(message)
         ELSE BigEndian(Len(Encode(message)), LengthWidth) \o Encode(message)

\* What the writer has done, and what of it the reader may find.
WriterInv ==
    /\ writer = "Idle" => ~closed
    /\ writer # "Written" => stream = <<>> /\ reader \in {"Length", "Failed"}
    /\ writer = "Written" =>
          /\ Encodable(message)
          /\ IsDatagram => ~closed
          /\ ~IsDatagram => Len(Encode(message)) <= MaxFrame
          /\ IsDatagram => Len(Encode(message)) <= MaxDatagram
    /\ writer = "Written" /\ ~altered =>
          \E lost \in Seq(Byte) : Frame = stream \o lost /\ (closed \/ lost = <<>>)

\* What the reader knows of what was written.
ReaderInv ==
    /\ reader = "Payload" => ~IsDatagram /\ (altered \/ wanted = Len(Encode(message)))
    /\ reader = "Failed" => closed \/ altered
    /\ reader = "Done" =>
          /\ Payload \in Seq(Byte)
          /\ altered \/ Payload = Encode(message)
          /\ received = Decode(Payload) /\ received # {}

WireInv ==
    /\ message \in Messages /\ stream \in Seq(Byte) /\ wanted \in Nat
    /\ closed \in BOOLEAN /\ altered \in BOOLEAN
    /\ WriterInv
    /\ ReaderInv
----------------------------------------------------------------------------
(* What the reader finds in the stream. *)

\* The parts of a sequence that lie in its beginning are parts of that.
LEMMA PartOfBeginning ==
    ASSUME NEW s \in Seq(Byte), NEW r \in Seq(Byte), NEW i \in Nat \ {0}, NEW n \in Nat,
           n <= Len(s)
    PROVE  SubSeq(s \o r, i, n) = SubSeq(s, i, n)
<1> DEFINE b == s \o r
           k == n - i + 1
<1>1. Len(s) \in Nat /\ Len(r) \in Nat /\ k \in Int
  BY LenProperties
<1>2. \A j \in 1 .. Len(s) : b[j] = s[j]
  <2>1. \A j \in 1 .. Len(s) + Len(r) : b[j] = IF j <= Len(s) THEN s[j] ELSE r[j - Len(s)]
    BY ConcatProperties
  <2> HIDE DEF b
  <2> QED  BY <1>1, <2>1
<1>3. \A j \in 1 .. k : i + j - 1 \in 1 .. Len(s)
  BY <1>1
<1>4. SubSeq(b, i, n) = [j \in 1 .. k |-> b[i + j - 1]]
  <2> HIDE DEF b
  <2> QED  OBVIOUS
<1>5. SubSeq(s, i, n) = [j \in 1 .. k |-> s[i + j - 1]]
  OBVIOUS
<1>6. [j \in 1 .. k |-> b[i + j - 1]] = [j \in 1 .. k |-> s[i + j - 1]]
  <2> HIDE DEF b, k
  <2> QED  BY <1>2, <1>3
<1> QED  BY <1>4, <1>5, <1>6

\* The longest frame has a length that can be written.
LEMMA MaxFrameFits == MaxFrame \in Nat /\ MaxFrame < Power[LengthWidth]
<1>1. /\ Power[2] \in Nat \ {0} /\ Power[3] \in Nat /\ Power[4] \in Nat
      /\ Power[2 + 1] = Base * Power[2] /\ Power[3 + 1] = Base * Power[3]
  BY PowerDefinition
<1>2. Power[3] = Base * Power[2] /\ Power[4] = Base * Power[3]
  BY <1>1
<1> DEFINE p == Power[2]
           q == Power[3]
           r == Power[4]
<1>3. ASSUME NEW x \in Nat PROVE Base * x >= 6 * x
  BY BaseIsPositive
<1>4. q >= 6 * p /\ r >= 6 * q /\ p \in Nat /\ p >= 1 /\ q \in Nat /\ r \in Nat
  BY <1>1, <1>2, <1>3
<1> HIDE DEF p, q, r
<1>5. 1 + 1 + 2 + (p - 1) \in Nat /\ 1 + 1 + 2 + (p - 1) < r
  BY <1>4
<1>6. 1 + 1 + 2 + (Power[2] - 1) \in Nat /\ 1 + 1 + 2 + (Power[2] - 1) < Power[4]
  BY <1>5 DEF p, r
<1>7. MaxChatFrame \in Nat /\ MaxChatFrame < Power[4]
  BY FrameAssumption DEF LengthWidth
<1> QED  BY <1>6, <1>7 DEF MaxFrame, LengthWidth

\* The parts of a frame are what the reader takes them for.
LEMMA FrameParts ==
    ASSUME message \in Messages, Encodable(message),
           ~IsDatagram => Len(Encode(message)) <= MaxFrame
    PROVE  /\ Encode(message) \in Seq(Byte) /\ Encode(message) # <<>>
           /\ Encode(message)[1] = message.type
           /\ Decode(Encode(message)) = {message}
           /\ Frame \in Seq(Byte) /\ Len(Encode(message)) \in Nat
           /\ ~IsDatagram =>
                 /\ Len(Frame) = LengthWidth + Len(Encode(message))
                 /\ BigEndianValue(SubSeq(Frame, 1, LengthWidth)) = Len(Encode(message))
                 /\ SubSeq(Frame, LengthWidth + 1, LengthWidth + Len(Encode(message)))
                        = Encode(message)
<1> DEFINE e == Encode(message)
           n == Len(e)
           l == BigEndian(n, LengthWidth)
<1>1. IsMessage(message) /\ message.type \in DOMAIN Layout
  BY MessagesAssumption DEF IsMessage
<1>2. e \in Seq(Byte) /\ e # <<>> /\ e[1] = message.type
  BY <1>1, EncodeShape
<1>3. Decode(e) = {message}
  BY <1>1, EncodedIsDecoded
<1>4. n \in Nat
  BY <1>2, LenProperties
<1> HIDE DEF e
<1>5. ASSUME ~IsDatagram
      PROVE  /\ Frame \in Seq(Byte) /\ Len(Frame) = LengthWidth + n
             /\ BigEndianValue(SubSeq(Frame, 1, LengthWidth)) = n
             /\ SubSeq(Frame, LengthWidth + 1, LengthWidth + n) = e
  <2>1. n < Power[LengthWidth]
    <3>1. n <= MaxFrame
      BY <1>5 DEF e
    <3>2. MaxFrame \in Nat /\ MaxFrame < Power[LengthWidth] /\ Power[LengthWidth] \in Nat
      BY MaxFrameFits, PowerDefinition DEF LengthWidth
    <3> HIDE DEF n
    <3> QED  BY <1>4, <3>1, <3>2
  <2>2. LengthWidth \in Nat
    BY DEF LengthWidth
  <2>3. l \in Seq(Byte) /\ Len(l) = LengthWidth /\ BigEndianValue(l) = n
    <3> HIDE DEF n
    <3> QED  BY <1>4, <2>1, <2>2, WrittenIsRead
  <2>4. Frame = l \o e
    BY <1>5 DEF Frame, e
  <2> HIDE DEF l
  <2> DEFINE o == <<>>
             j == l \o (e \o o)
  <2>5. o \in Seq(Byte) /\ Len(o) = 0 /\ e \o o = e
    BY <1>2, EmptySeq, ConcatEmptySeq
  <2> HIDE DEF o
  <2>6. /\ j \in Seq(Byte) /\ Len(j) = Len(l) + Len(e) + Len(o)
        /\ SubSeq(j, 1, Len(l)) = l
        /\ SubSeq(j, Len(l) + 1, Len(l) + Len(e)) = e
    <3>1. l \in Seq(Byte) /\ e \in Seq(Byte) /\ o \in Seq(Byte)
      BY <1>2, <2>3, <2>5
    <3> QED  BY <3>1, Joined
  <2>7. j = Frame
    BY <2>4, <2>5
  <2> HIDE DEF j
  <2>8. Len(l) + Len(e) + Len(o) = LengthWidth + n
    BY <1>4, <2>2, <2>3, <2>5
  <2> QED  BY <2>3, <2>6, <2>7, <2>8
<1>6. CASE IsDatagram
  <2>1. Frame = e
    BY <1>6 DEF Frame, e
  <2> QED  BY <1>2, <1>3, <1>4, <1>6, <2>1 DEF e
<1> QED  BY <1>2, <1>3, <1>4, <1>5, <1>6 DEF e

\* The beginning of a stream that was not altered, as far as it arrived.
LEMMA StreamBegins ==
    ASSUME WireInv, writer = "Written", ~altered
    PROVE  /\ \A i \in Nat \ {0} : \A n \in Nat :
                 n <= Len(stream) => SubSeq(stream, i, n) = SubSeq(Frame, i, n)
           /\ ~closed => stream = Frame
<1>1. Encodable(message) /\ message \in Messages
      /\ (~IsDatagram => Len(Encode(message)) <= MaxFrame)
  BY DEF WireInv, WriterInv
<1>2. PICK lost \in Seq(Byte) : Frame = stream \o lost /\ (closed \/ lost = <<>>)
  BY DEF WireInv, WriterInv
<1>3. stream \in Seq(Byte)
  BY DEF WireInv
<1>4. ASSUME NEW i \in Nat \ {0}, NEW n \in Nat, n <= Len(stream)
      PROVE  SubSeq(stream, i, n) = SubSeq(Frame, i, n)
  BY <1>2, <1>3, <1>4, PartOfBeginning
<1>5. ASSUME ~closed PROVE stream = Frame
  <2>1. lost = <<>>
    BY <1>2, <1>5
  <2>2. stream \o <<>> = stream
    BY <1>3, ConcatEmptySeq
  <2> QED  BY <1>2, <2>1, <2>2
<1> QED  BY <1>4, <1>5

----------------------------------------------------------------------------
(* Steps of the writer and of the connection. *)

LEMMA WireInit == Init => WireInv
<1> SUFFICES ASSUME Init PROVE WireInv
  OBVIOUS
<1>1. <<>> \in Seq(Byte)
  OBVIOUS
<1> QED  BY <1>1 DEF Init, WireInv, WriterInv, ReaderInv

LEMMA WireGiveUp ==
    ASSUME WireInv, writer = "Idle", NEW outcome \in {"Panicked", "TooLong"},
           GiveUp(outcome)
    PROVE  WireInv'
<1>1. WriterInv'
  BY DEF WireInv, WriterInv, GiveUp
<1>2. ReaderInv'
  BY DEF WireInv, WriterInv, ReaderInv, GiveUp
<1> QED  BY <1>1, <1>2 DEF WireInv, GiveUp

LEMMA WirePut ==
    ASSUME WireInv, writer = "Idle", Encodable(message), Put(Frame),
           ~IsDatagram => Len(Encode(message)) <= MaxFrame,
           IsDatagram => Len(Encode(message)) <= MaxDatagram
    PROVE  WireInv'
<1>0. message \in Messages /\ ~closed /\ reader \in {"Length", "Failed"}
  BY DEF WireInv, WriterInv
<1>1. /\ message' = message /\ closed' = closed /\ altered' = altered
      /\ reader' = reader /\ wanted' = wanted /\ received' = received
      /\ stream' = Frame /\ writer' = "Written"
  BY DEF Put
<1>2. Frame \in Seq(Byte)
  BY <1>0, FrameParts
<1>3. Frame \o <<>> = Frame /\ <<>> \in Seq(Byte)
  BY <1>2, ConcatEmptySeq, EmptySeq
<1>4. Frame' = Frame /\ IsDatagram' = IsDatagram /\ MaxFrame' = MaxFrame
  BY <1>1 DEF Frame, IsDatagram, MaxFrame
<1>5. WriterInv'
  <2>1. /\ Encodable(message)' /\ (~IsDatagram => Len(Encode(message)) <= MaxFrame)'
        /\ (IsDatagram => Len(Encode(message)) <= MaxDatagram)'
    BY <1>1, <1>4
  <2>2. (\E lost \in Seq(Byte) : Frame = stream \o lost /\ (closed \/ lost = <<>>))'
    <3>1. Frame' = stream' \o <<>>
      BY <1>1, <1>3, <1>4
    <3> QED  BY <1>3, <3>1
  <2> QED  BY <1>0, <1>1, <2>1, <2>2 DEF WriterInv
<1>6. ReaderInv'
  BY <1>0, <1>1 DEF WireInv, ReaderInv
<1> QED  BY <1>0, <1>1, <1>2, <1>5, <1>6 DEF WireInv

LEMMA WireWriteMessage == ASSUME WireInv, WriteMessage PROVE WireInv'
<1>1. writer = "Idle" /\ ~IsDatagram
  BY DEF WriteMessage
<1>2. CASE ~Encodable(message) /\ GiveUp("Panicked")
  BY <1>1, <1>2, WireGiveUp
<1>3. CASE GiveUp("TooLong")
  BY <1>1, <1>3, WireGiveUp
<1>4. CASE /\ Encodable(message) /\ ~ (Len(Encode(message)) > MaxFrame)
           /\ Put(BigEndian(Len(Encode(message)), LengthWidth) \o Encode(message))
  <2>1. Put(Frame)
    BY <1>1, <1>4 DEF Frame
  <2>2. Len(Encode(message)) <= MaxFrame
    <3>1. message.type \in DOMAIN Layout
      BY MessagesAssumption DEF IsMessage, WireInv
    <3>2. Encode(message) \in Seq(Byte)
      BY <1>4, <3>1, EncodeShape
    <3>3. Len(Encode(message)) \in Nat /\ MaxFrame \in Nat
      BY <3>2, LenProperties, MaxFrameFits
    <3> QED  BY <1>4, <3>3
  <2> QED  BY <1>1, <1>4, <2>1, <2>2, WirePut
<1> QED  BY <1>2, <1>3, <1>4 DEF WriteMessage

LEMMA WireAnnounce == ASSUME WireInv, Announce PROVE WireInv'
<1>1. writer = "Idle" /\ IsDatagram
  BY DEF Announce
<1>2. CASE GiveUp("TooLong")
  BY <1>1, <1>2, WireGiveUp
<1>3. CASE /\ Encodable(message) /\ ~ (Len(Encode(message)) > MaxDatagram)
           /\ Put(Encode(message))
  <2>1. Put(Frame)
    BY <1>1, <1>3 DEF Frame
  <2>2. Len(Encode(message)) <= MaxDatagram
    <3>1. message.type \in DOMAIN Layout
      BY MessagesAssumption DEF IsMessage, WireInv
    <3>2. Encode(message) \in Seq(Byte)
      BY <1>3, <3>1, EncodeShape
    <3>3. Len(Encode(message)) \in Nat /\ MaxDatagram \in Nat
      BY <3>2, LenProperties, DatagramAssumption
    <3> QED  BY <1>3, <3>3
  <2> QED  BY <1>1, <1>3, <2>1, <2>2, WirePut
<1> QED  BY <1>2, <1>3 DEF Announce

LEMMA WireClose == ASSUME WireInv, Close PROVE WireInv'
<1>0. /\ writer = "Written" /\ ~IsDatagram /\ ~altered /\ reader \in {"Length", "Payload"}
      /\ message \in Messages /\ stream \in Seq(Byte) /\ wanted \in Nat
  BY DEF Close, WireInv
<1>1. /\ message' = message /\ closed' = TRUE /\ altered' = altered /\ writer' = writer
      /\ reader' = reader /\ wanted' = wanted /\ received' = received
  BY DEF Close
<1>2. PICK n \in 0 .. Len(stream) : stream' = SubSeq(stream, 1, n)
  BY DEF Close
<1>3. PICK lost \in Seq(Byte) : Frame = stream \o lost
  BY <1>0 DEF WireInv, WriterInv
<1> DEFINE tail == SubSeq(stream, n + 1, Len(stream))
<1>4. stream' \in Seq(Byte) /\ tail \in Seq(Byte) /\ stream = stream' \o tail
  <2>1. n \in Nat /\ n <= Len(stream)
    BY <1>0, LenProperties
  <2> QED  BY <1>0, <1>2, <2>1, Parts
<1> HIDE DEF tail
<1>5. Frame = stream' \o (tail \o lost) /\ tail \o lost \in Seq(Byte)
  <2>1. tail \o lost \in Seq(Byte)
    BY <1>4, ConcatProperties
  <2>2. (stream' \o tail) \o lost = stream' \o (tail \o lost)
    BY <1>4, Rejoined
  <2> QED  BY <1>3, <1>4, <2>1, <2>2
<1>6. Frame' = Frame /\ IsDatagram' = IsDatagram /\ MaxFrame' = MaxFrame
  BY <1>1 DEF Frame, IsDatagram, MaxFrame
<1>7. WriterInv'
  <2>1. /\ Encodable(message)' /\ (~IsDatagram => Len(Encode(message)) <= MaxFrame)'
        /\ (IsDatagram => Len(Encode(message)) <= MaxDatagram)'
    BY <1>0, <1>1, <1>6 DEF WireInv, WriterInv
  <2>2. (\E x \in Seq(Byte) : Frame = stream \o x /\ (closed \/ x = <<>>))'
    BY <1>1, <1>5, <1>6
  <2> QED  BY <1>0, <1>1, <1>6, <2>1, <2>2 DEF WriterInv
<1>8. ReaderInv'
  BY <1>0, <1>1, <1>6 DEF WireInv, ReaderInv
<1> QED  BY <1>0, <1>1, <1>4, <1>7, <1>8 DEF WireInv

LEMMA WireAlter == ASSUME WireInv, Alter PROVE WireInv'
<1>0. /\ writer = "Written" /\ reader = "Length" /\ ~closed
      /\ message \in Messages /\ stream \in Seq(Byte) /\ wanted \in Nat
  BY DEF Alter, WireInv
<1>1. /\ message' = message /\ closed' = closed /\ altered' = TRUE /\ writer' = writer
      /\ reader' = reader /\ wanted' = wanted /\ received' = received
  BY DEF Alter
<1>2. PICK i \in 1 .. Len(stream) :
          \/ \E b \in Byte \ {stream[i]} : stream' = [stream EXCEPT ![i] = b]
          \/ \E b \in Byte : stream' = InsertAt(stream, i, b)
          \/ \E b \in Byte : stream' = Append(stream, b)
          \/ stream' = RemoveAt(stream, i)
          \/ stream' = stream \o stream
  BY DEF Alter
<1>3. stream' \in Seq(Byte)
  <2> DEFINE before == SubSeq(stream, 1, i - 1)
             from == SubSeq(stream, i, Len(stream))
             after == SubSeq(stream, i + 1, Len(stream))
  <2>1. i \in Nat \ {0} /\ i <= Len(stream) /\ i - 1 \in Nat /\ i - 1 <= Len(stream)
        /\ (i - 1) + 1 = i
    BY <1>0, LenProperties
  <2>2. before \in Seq(Byte) /\ from \in Seq(Byte)
    <3> DEFINE k == i - 1
    <3> HIDE DEF k
    <3>1. SubSeq(stream, 1, k) \in Seq(Byte) /\ SubSeq(stream, k + 1, Len(stream)) \in Seq(Byte)
      BY <1>0, <2>1, Parts DEF k
    <3> QED  BY <2>1, <3>1 DEF k
  <2>3. after \in Seq(Byte)
    BY <1>0, <2>1, Parts
  <2>4. ASSUME NEW b \in Byte, stream' = [stream EXCEPT ![i] = b]
        PROVE  stream' \in Seq(Byte)
    BY <1>0, <2>4, ExceptSeq
  <2>5. ASSUME NEW b \in Byte, stream' = InsertAt(stream, i, b)
        PROVE  stream' \in Seq(Byte)
    <3>1. <<b>> \in Seq(Byte)
      OBVIOUS
    <3>2. stream' = before \o <<b>> \o from
      BY <2>5 DEF InsertAt
    <3> DEFINE one == <<b>>
    <3> HIDE DEF before, from, one
    <3>3. before \o one \in Seq(Byte)
      BY <2>2, <3>1, ConcatProperties DEF one
    <3>4. (before \o one) \o from \in Seq(Byte)
      BY <2>2, <3>3, ConcatProperties
    <3> QED  BY <3>2, <3>4 DEF one
  <2>6. ASSUME NEW b \in Byte, stream' = Append(stream, b)
        PROVE  stream' \in Seq(Byte)
    BY <1>0, <2>6, AppendProperties
  <2>7. ASSUME stream' = RemoveAt(stream, i)
        PROVE  stream' \in Seq(Byte)
    <3>1. stream' = before \o after
      BY <2>7 DEF RemoveAt
    <3> HIDE DEF before, after
    <3> QED  BY <2>2, <2>3, <3>1, ConcatProperties
  <2>8. ASSUME stream' = stream \o stream
        PROVE  stream' \in Seq(Byte)
    BY <1>0, <2>8, ConcatProperties
  <2> QED  BY <1>2, <2>4, <2>5, <2>6, <2>7, <2>8
<1>4. IsDatagram' = IsDatagram /\ MaxFrame' = MaxFrame
  BY <1>1 DEF IsDatagram, MaxFrame
<1>5. WriterInv'
  BY <1>0, <1>1, <1>4 DEF WireInv, WriterInv
<1>6. ReaderInv'
  BY <1>0, <1>1, <1>4 DEF WireInv, ReaderInv
<1> QED  BY <1>0, <1>1, <1>3, <1>5, <1>6 DEF WireInv

----------------------------------------------------------------------------
(* Steps of the reader. *)

LEMMA WireFail == ASSUME WireInv, Fail, closed \/ altered PROVE WireInv'
<1>1. /\ reader' = "Failed" /\ message' = message /\ writer' = writer /\ stream' = stream
      /\ closed' = closed /\ altered' = altered /\ wanted' = wanted /\ received' = received
  BY DEF Fail
<1>2. Frame' = Frame /\ IsDatagram' = IsDatagram /\ MaxFrame' = MaxFrame
  BY <1>1 DEF Frame, IsDatagram, MaxFrame
<1>3. WriterInv'
  BY <1>1, <1>2 DEF WireInv, WriterInv
<1>4. ReaderInv'
  BY <1>1 DEF ReaderInv
<1> QED  BY <1>1, <1>3, <1>4 DEF WireInv

LEMMA WireFinish ==
    ASSUME WireInv, Finish, writer = "Written", Payload \in Seq(Byte),
           altered \/ Payload = Encode(message)
    PROVE  WireInv'
<1>0. /\ message \in Messages /\ Encodable(message)
      /\ (~IsDatagram => Len(Encode(message)) <= MaxFrame)
  BY DEF WireInv, WriterInv
<1>1. CASE Decode(Payload) = {}
  <2>1. Fail
    BY <1>1 DEF Finish
  <2>2. Decode(Encode(message)) # {}
    BY <1>0, FrameParts
  <2>3. altered
    BY <1>1, <2>2
  <2> QED  BY <2>1, <2>3, WireFail
<1>2. CASE Decode(Payload) # {}
  <2>1. /\ reader' = "Done" /\ received' = Decode(Payload)
        /\ message' = message /\ writer' = writer /\ stream' = stream
        /\ closed' = closed /\ altered' = altered /\ wanted' = wanted
    BY <1>2 DEF Finish
  <2>2. Frame' = Frame /\ IsDatagram' = IsDatagram /\ MaxFrame' = MaxFrame
        /\ Payload' = Payload
    BY <2>1 DEF Frame, IsDatagram, MaxFrame, Payload, Buffered
  <2>3. WriterInv'
    BY <2>1, <2>2 DEF WireInv, WriterInv
  <2>4. ReaderInv'
    BY <1>2, <2>1, <2>2 DEF ReaderInv
  <2> QED  BY <2>1, <2>3, <2>4 DEF WireInv
<1> QED  BY <1>1, <1>2

LEMMA WireReadLength == ASSUME WireInv, ReadLength PROVE WireInv'
<1>0. /\ reader = "Length" /\ ~IsDatagram
      /\ message \in Messages /\ stream \in Seq(Byte) /\ wanted \in Nat
  BY DEF ReadLength, WireInv
<1>1. CASE Ended(LengthWidth) /\ Fail
  BY <1>1, WireFail DEF Ended
<1> DEFINE len == BigEndianValue(SubSeq(stream, 1, LengthWidth))
<1>2. ASSUME Len(stream) >= LengthWidth
      PROVE  /\ writer = "Written" /\ len \in Nat
             /\ altered \/ (len = Len(Encode(message)) /\ ~ (len > MaxFrame))
  <2>1. LengthWidth \in Nat /\ LengthWidth # 0
    BY DEF LengthWidth
  <2>2. writer = "Written"
    <3>1. stream # <<>>
      BY <1>2, <2>1, EmptySeq
    <3> QED  BY <3>1 DEF WireInv, WriterInv
  <2>3. len \in Nat
    <3>1. SubSeq(stream, 1, LengthWidth) \in Seq(Byte)
      BY <1>0, <1>2, <2>1, Parts
    <3> QED  BY <3>1, ReadIsWritten
  <2>4. ASSUME ~altered
        PROVE  len = Len(Encode(message)) /\ ~ (len > MaxFrame)
    <3>1. Encodable(message) /\ Len(Encode(message)) <= MaxFrame
      BY <1>0, <2>2 DEF WireInv, WriterInv
    <3>2. SubSeq(stream, 1, LengthWidth) = SubSeq(Frame, 1, LengthWidth)
      BY <1>2, <2>1, <2>2, <2>4, StreamBegins
    <3>3. BigEndianValue(SubSeq(Frame, 1, LengthWidth)) = Len(Encode(message))
      BY <1>0, <3>1, FrameParts
    <3>4. len = Len(Encode(message))
      BY <3>2, <3>3
    <3>5. MaxFrame \in Nat
      BY MaxFrameFits
    <3> HIDE DEF len
    <3> QED  BY <2>3, <3>1, <3>4, <3>5
  <2> QED  BY <2>2, <2>3, <2>4
<1>3. CASE Len(stream) >= LengthWidth /\ len > MaxFrame /\ Fail
  BY <1>2, <1>3, WireFail
<1>4. CASE /\ Len(stream) >= LengthWidth /\ reader' = "Payload" /\ wanted' = len
           /\ UNCHANGED <<message, writer, stream, closed, altered, received>>
  <2>1. writer = "Written" /\ len \in Nat /\ (altered \/ len = Len(Encode(message)))
    BY <1>2, <1>4
  <2> HIDE DEF len
  <2>2. /\ message' = message /\ writer' = writer /\ stream' = stream /\ closed' = closed
        /\ altered' = altered /\ received' = received
    BY <1>4
  <2>3. Frame' = Frame /\ IsDatagram' = IsDatagram /\ MaxFrame' = MaxFrame
    BY <2>2 DEF Frame, IsDatagram, MaxFrame
  <2>4. WriterInv'
    BY <1>4, <2>1, <2>2, <2>3 DEF WireInv, WriterInv
  <2>5. ReaderInv'
    BY <1>0, <1>4, <2>1, <2>2, <2>3 DEF ReaderInv
  <2> QED  BY <1>4, <2>1, <2>2, <2>4, <2>5 DEF WireInv
<1> QED  BY <1>1, <1>3, <1>4 DEF ReadLength

LEMMA WireReadPayload == ASSUME WireInv, ReadPayload PROVE WireInv'
<1>0. /\ reader = "Payload" /\ ~IsDatagram /\ writer = "Written"
      /\ message \in Messages /\ stream \in Seq(Byte) /\ wanted \in Nat
      /\ (altered \/ wanted = Len(Encode(message)))
  BY DEF ReadPayload, WireInv, WriterInv, ReaderInv
<1>1. CASE Ended(LengthWidth + wanted) /\ Fail
  BY <1>1, WireFail DEF Ended
<1>2. CASE Len(stream) >= LengthWidth + wanted /\ Finish
  <2> DEFINE first == LengthWidth + 1
             last == LengthWidth + wanted
  <2>1. Payload = SubSeq(stream, first, last)
    BY <1>0 DEF Payload
  <2>2. first \in Nat \ {0} /\ last \in Nat /\ last <= Len(stream) /\ Len(stream) \in Nat
    BY <1>0, <1>2, LenProperties DEF LengthWidth
  <2> HIDE DEF first, last
  <2>3. Payload \in Seq(Byte)
    <3>1. \A i \in first .. last : i \in 1 .. Len(stream)
      BY <2>2
    <3>2. \A i \in first .. last : stream[i] \in Byte
      BY <1>0, <3>1, ElementOfSeq
    <3>3. first \in Int /\ last \in Int
      BY <2>2
    <3>4. SubSeq(stream, first, last) \in Seq(Byte)
      BY <3>2, <3>3, SubSeqProperties
    <3> QED  BY <2>1, <3>4
  <2>4. ASSUME ~altered PROVE Payload = Encode(message)
    <3>1. Encodable(message) /\ Len(Encode(message)) <= MaxFrame
      BY <1>0 DEF WireInv, WriterInv
    <3>2. SubSeq(stream, first, last) = SubSeq(Frame, first, last)
      BY <1>0, <2>2, <2>4, StreamBegins
    <3>3. SubSeq(Frame, first, last) = Encode(message)
      BY <1>0, <2>4, <3>1, FrameParts DEF first, last
    <3> QED  BY <2>1, <3>2, <3>3
  <2> QED  BY <1>0, <1>2, <2>3, <2>4, WireFinish
<1> QED  BY <1>1, <1>2 DEF ReadPayload

LEMMA WireReceiveDatagram == ASSUME WireInv, ReceiveDatagram PROVE WireInv'
<1>0. /\ IsDatagram /\ writer = "Written" /\ ~closed
      /\ message \in Messages /\ stream \in Seq(Byte)
  BY DEF ReceiveDatagram, WireInv, WriterInv
<1>1. Payload = Buffered /\ Buffered \in Seq(Byte)
  <2>1. Payload = Buffered
    BY <1>0 DEF Payload
  <2>2. Len(stream) \in Nat /\ MaxDatagram \in Nat
    BY <1>0, LenProperties, DatagramAssumption
  <2>3. CASE Len(stream) <= MaxDatagram
    <3>1. Len(stream) <= Len(stream)
      BY <2>2
    <3>2. SubSeq(stream, 1, Len(stream)) \in Seq(Byte)
      BY <1>0, <2>2, <3>1, Parts
    <3> QED  BY <2>1, <2>3, <3>2 DEF Buffered
  <2>4. CASE ~ (Len(stream) <= MaxDatagram)
    <3>1. MaxDatagram <= Len(stream)
      BY <2>2, <2>4
    <3>2. SubSeq(stream, 1, MaxDatagram) \in Seq(Byte)
      BY <1>0, <2>2, <3>1, Parts
    <3> QED  BY <2>1, <2>4, <3>2 DEF Buffered
  <2> QED  BY <2>3, <2>4
<1>2. ASSUME ~altered
      PROVE  Buffered = Encode(message) /\ Buffered[1] = DiscoveryAnnounce
  <2>1. Encodable(message) /\ Len(Encode(message)) <= MaxDatagram
    BY <1>0 DEF WireInv, WriterInv
  <2>2. stream = Frame
    BY <1>0, <1>2, StreamBegins
  <2>3. Frame = Encode(message)
    BY <1>0 DEF Frame
  <2>4. Encode(message)[1] = message.type
    BY <1>0, <2>1, FrameParts
  <2>5. Buffered = SubSeq(stream, 1, Len(stream))
    BY <2>1, <2>2, <2>3 DEF Buffered
  <2>6. SubSeq(stream, 1, Len(stream)) = stream
    BY <1>0, SubSeqFull
  <2> QED  BY <1>0, <2>2, <2>3, <2>4, <2>5, <2>6 DEF IsDatagram
<1>3. CASE Payload[1] # DiscoveryAnnounce /\ Fail
  BY <1>1, <1>2, <1>3, WireFail
<1>4. CASE Finish
  BY <1>0, <1>1, <1>2, <1>4, WireFinish
<1> QED  BY <1>3, <1>4 DEF ReceiveDatagram

----------------------------------------------------------------------------
(* The results. *)

LEMMA WireStep == WireInv /\ [Next]_vars => WireInv'
<1> SUFFICES ASSUME WireInv, [Next]_vars PROVE WireInv'
  OBVIOUS
<1>1. CASE WriteMessage
  BY <1>1, WireWriteMessage
<1>2. CASE Announce
  BY <1>2, WireAnnounce
<1>3. CASE Close
  BY <1>3, WireClose
<1>4. CASE Alter
  BY <1>4, WireAlter
<1>5. CASE ReadLength
  BY <1>5, WireReadLength
<1>6. CASE ReadPayload
  BY <1>6, WireReadPayload
<1>7. CASE ReceiveDatagram
  BY <1>7, WireReceiveDatagram
<1>8. CASE UNCHANGED vars
  <2>1. /\ message' = message /\ writer' = writer /\ stream' = stream /\ closed' = closed
        /\ altered' = altered /\ reader' = reader /\ wanted' = wanted
        /\ received' = received
    BY <1>8 DEF vars
  <2>2. Frame' = Frame /\ IsDatagram' = IsDatagram /\ MaxFrame' = MaxFrame
        /\ Payload' = Payload
    BY <2>1 DEF Frame, IsDatagram, MaxFrame, Payload, Buffered
  <2>3. WriterInv'
    BY <2>1, <2>2 DEF WireInv, WriterInv
  <2>4. ReaderInv'
    BY <2>1, <2>2 DEF WireInv, ReaderInv
  <2> QED  BY <2>1, <2>3, <2>4 DEF WireInv
<1> QED  BY <1>1, <1>2, <1>3, <1>4, <1>5, <1>6, <1>7, <1>8 DEF Next

LEMMA WireInvAlways == Spec => []WireInv
BY WireInit, WireStep, PTL DEF Spec

\* What read_message and recv_from return is what was written, for every message,
\* however early the connection closed.
THEOREM ReadIsSentAlways == Spec => []ReadIsSent
<1>1. WireInv => ReadIsSent
  <2> SUFFICES ASSUME WireInv, reader = "Done", ~altered PROVE received = {message}
    BY DEF ReadIsSent
  <2>1. Payload = Encode(message) /\ received = Decode(Payload)
    BY DEF WireInv, ReaderInv
  <2>2. /\ message \in Messages /\ Encodable(message)
        /\ (~IsDatagram => Len(Encode(message)) <= MaxFrame)
    BY DEF WireInv, WriterInv
  <2>3. Decode(Encode(message)) = {message}
    BY <2>2, FrameParts
  <2> QED  BY <2>1, <2>3
<1> QED  BY <1>1, WireInvAlways, PTL

\* The limits of writer and reader agree: whatever the limits are, as long as a
\* length fits in four bytes, no frame or key that was written is refused.
THEOREM WholeFrameIsReadAlways == Spec => []WholeFrameIsRead
<1>1. WireInv => WholeFrameIsRead
  BY DEF WireInv, ReaderInv, WholeFrameIsRead
<1> QED  BY <1>1, WireInvAlways, PTL

\* Whatever bytes decode are the encoding of what they decode to, so a hash of the
\* decoded message is the hash of the bytes; also those of another build.
THEOREM ReadIsCanonicalAlways == Spec => []ReadIsCanonical
<1>1. WireInv => ReadIsCanonical
  <2> SUFFICES ASSUME WireInv, reader = "Done"
               PROVE  \E m \in received : Encodable(m) /\ Encode(m) = Payload
    BY DEF ReadIsCanonical
  <2>1. Payload \in Seq(Byte) /\ received = Decode(Payload) /\ received # {}
    BY DEF WireInv, ReaderInv
  <2> QED  BY <2>1, DecodedIsEncoded
<1> QED  BY <1>1, WireInvAlways, PTL

\* No two chat messages that differ in more than their signatures have the same
\* signed bytes, whatever the lengths of their headers and data.
THEOREM SignatureCoversMessageAlways == Spec => []SignatureCoversMessage
<1>1. WireInv => SignatureCoversMessage
  <2> SUFFICES ASSUME WireInv, message.type = ChatMessage, NEW m \in Messages,
                      m.type = ChatMessage, Encodable(m), Encodable(message),
                      chat_message_signed_bytes(m) = chat_message_signed_bytes(message)
               PROVE  Unsigned(m) = Unsigned(message)
    BY DEF SignatureCoversMessage
  <2>1. IsMessage(m) /\ IsMessage(message)
    BY MessagesAssumption DEF WireInv
  <2> QED  BY <2>1, SignedBytesAreOfOneMessage
<1> QED  BY <1>1, WireInvAlways, PTL
=============================================================================
