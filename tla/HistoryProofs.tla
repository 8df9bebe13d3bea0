---------------------------- MODULE HistoryProofs ----------------------------
(* The order of a history of any length, in any fallback order, and the      *)
(* verdicts on its replies. A history is built by recursive functions, which *)
(* are defined by CHOOSE: that they exist is proved before they are used.    *)
EXTENDS MessageHistory, Recursion, SequenceTheorems, FiniteSetTheorems

----------------------------------------------------------------------------
(* Paths and walks. *)

Visited(path) == {path[k] : k \in 1 .. Len(path)}

\* The indices of a stored conversation.
LEMMA Indices ==
    ASSUME NEW s \in Seq(Row)
    PROVE  /\ Len(s) \in Nat /\ DOMAIN s = 1 .. Len(s) /\ DOMAIN s \subseteq Nat
           /\ IsFiniteSet(DOMAIN s) /\ Cardinality(DOMAIN s) = Len(s)
           /\ \A i \in DOMAIN s :
                 s[i] \in Row /\ s[i].hash \in Hash /\ s[i].prev \in Hash \cup {Missing, Zero}
           /\ Starts(s) \subseteq DOMAIN s
<1>1. /\ Len(s) \in Nat /\ DOMAIN s = 1 .. Len(s)
      /\ \A i \in DOMAIN s : s[i] \in Row
  BY LenProperties, ElementOfSeq
<1>2. IsFiniteSet(1 .. Len(s)) /\ Cardinality(1 .. Len(s)) = Len(s)
  BY <1>1, FS_Interval
<1>3. \A i \in DOMAIN s : s[i].hash \in Hash /\ s[i].prev \in Hash \cup {Missing, Zero}
  BY <1>1 DEF Row
<1>4. Starts(s) \subseteq DOMAIN s
  BY DEF Starts
<1> QED  BY <1>1, <1>2, <1>3, <1>4

\* A path that one message is added to.
LEMMA LongerPath ==
    ASSUME NEW D, NEW path \in Seq(D), NEW i \in D
    PROVE  /\ Len(path) \in Nat /\ DOMAIN path = 1 .. Len(path)
           /\ Visited(path) \in SUBSET D
           /\ Contains(path, i) <=> i \in Visited(path)
           /\ Append(path, i) \in Seq(D) /\ Append(path, i) # <<>>
           /\ Len(Append(path, i)) = Len(path) + 1
           /\ \A k \in 1 .. Len(path) : Append(path, i)[k] = path[k]
           /\ Append(path, i)[Len(path) + 1] = i
           /\ Visited(Append(path, i)) = Visited(path) \cup {i}
<1>1. /\ Len(path) \in Nat /\ DOMAIN path = 1 .. Len(path)
      /\ \A k \in 1 .. Len(path) : path[k] \in D
  BY LenProperties, ElementOfSeq
<1>2. /\ Append(path, i) \in Seq(D) /\ Append(path, i) # <<>>
      /\ Len(Append(path, i)) = Len(path) + 1
      /\ \A k \in 1 .. Len(path) : Append(path, i)[k] = path[k]
      /\ Append(path, i)[Len(path) + 1] = i
  BY <1>1, AppendProperties
<1>3. Visited(path) \in SUBSET D
  BY <1>1 DEF Visited
<1>4. Contains(path, i) <=> i \in Visited(path)
  BY DEF Contains, Visited
<1>5. Visited(Append(path, i)) = Visited(path) \cup {i}
  <2>1. Visited(Append(path, i)) = {Append(path, i)[k] : k \in 1 .. Len(path) + 1}
    BY <1>2 DEF Visited
  <2>2. 1 .. Len(path) + 1 = (1 .. Len(path)) \cup {Len(path) + 1}
    BY <1>1
  <2>3. Visited(path) = {Append(path, i)[k] : k \in 1 .. Len(path)}
    BY <1>2 DEF Visited
  <2> QED  BY <1>2, <2>1, <2>2, <2>3
<1> QED  BY <1>1, <1>2, <1>3, <1>4, <1>5

\* The messages that a path leaves out, and what a visit does to their number.
Left(s, path) == Cardinality(DOMAIN s \ Visited(path))

LEMMA VisitLeavesLess ==
    ASSUME NEW s \in Seq(Row), NEW path \in Seq(DOMAIN s)
    PROVE  /\ Left(s, path) \in Nat /\ Left(s, path) <= Len(s)
           /\ \A i \in DOMAIN s : ~Contains(path, i) => Left(s, Append(path, i)) < Left(s, path)
<1> DEFINE D == DOMAIN s
           rest == D \ Visited(path)
<1>1. IsFiniteSet(D) /\ Cardinality(D) = Len(s)
  BY Indices
<1>2. /\ IsFiniteSet(rest) /\ Cardinality(rest) \in Nat
      /\ Cardinality(rest) <= Cardinality(D)
  BY <1>1, FS_Subset, FS_CardinalityType
<1>3. ASSUME NEW i \in D, ~Contains(path, i)
      PROVE  Left(s, Append(path, i)) < Left(s, path)
  <2>1. D \ Visited(Append(path, i)) = rest \ {i} /\ i \in rest
    BY <1>3, LongerPath
  <2>2. Cardinality(rest \ {i}) = Cardinality(rest) - 1
    BY <1>2, <2>1, FS_RemoveElement
  <2>3. Left(s, Append(path, i)) = Cardinality(rest) - 1 /\ Left(s, path) = Cardinality(rest)
    BY <2>1, <2>2 DEF Left
  <2> HIDE DEF rest
  <2> QED  BY <1>2, <2>3
<1> QED  BY <1>1, <1>2, <1>3 DEF Left

\* A message that is followed is followed by a child.
LEMMA ChildFollows ==
    ASSUME NEW s \in Seq(Row), NEW i, Children(s, i) # {}
    PROVE  Child(s, i) \in Children(s, i) /\ Child(s, i) \in DOMAIN s
<1>1. \E j : j \in Children(s, i)
  OBVIOUS
<1>2. Child(s, i) \in Children(s, i)
  BY <1>1 DEF Child
<1> QED  BY <1>2 DEF Children

\* A walk is what its definition says it is, and yields a path or Broken.
LEMMA WalkDefinition ==
    ASSUME NEW s \in Seq(Row), NEW path \in Seq(DOMAIN s), NEW i \in DOMAIN s
    PROVE  /\ Walk(s)[<<path, i>>] =
                IF Contains(path, i) THEN Broken
                ELSE IF Children(s, i) = {} THEN Append(path, i)
                ELSE Walk(s)[<<Append(path, i), Child(s, i)>>]
           /\ Walk(s)[<<path, i>>] \in Seq(DOMAIN s) \cup {Broken}
<1> DEFINE D == DOMAIN s
           X == Seq(D) \X D
           Y == Seq(D) \cup {Broken}
           mu == [v \in X |-> Left(s, v[1])]
           stop == [v \in X |-> Contains(v[1], v[2]) \/ Children(s, v[2]) = {}]
           base == [v \in X |-> IF Contains(v[1], v[2]) THEN Broken ELSE Append(v[1], v[2])]
           next == [v \in X |-> <<Append(v[1], v[2]), Child(s, v[2])>>]
           step == [w \in X \X Y |-> w[2]]
           Rec(f) == f = [v \in X |->
                            IF Contains(v[1], v[2]) THEN Broken
                            ELSE IF Children(s, v[2]) = {} THEN Append(v[1], v[2])
                            ELSE f[<<Append(v[1], v[2]), Child(s, v[2])>>]]
<1>1. /\ mu \in [X -> Nat] /\ \A v \in X : mu[v] <= Len(s)
      /\ Len(s) \in Nat
  BY VisitLeavesLess, Indices
<1>2. ASSUME NEW p \in Seq(D), NEW j \in D
      PROVE  Append(p, j) \in Seq(D)
  BY <1>2, LongerPath
<1>3. base \in [X -> Y] /\ stop \in [X -> BOOLEAN] /\ step \in [X \X Y -> Y]
  BY <1>2
<1>4. ASSUME NEW v \in X, ~stop[v]
      PROVE  next[v] \in X /\ mu[next[v]] < mu[v]
  <2>1. v[1] \in Seq(D) /\ v[2] \in D /\ ~Contains(v[1], v[2]) /\ Children(s, v[2]) # {}
    BY <1>4
  <2>2. Append(v[1], v[2]) \in Seq(D) /\ Child(s, v[2]) \in D
    BY <1>2, <2>1, ChildFollows
  <2>3. next[v] = <<Append(v[1], v[2]), Child(s, v[2])>> /\ next[v] \in X
    BY <2>2
  <2>4. Left(s, Append(v[1], v[2])) < Left(s, v[1])
    BY <2>1, VisitLeavesLess
  <2> QED  BY <2>3, <2>4
<1>5. PICK g \in [X -> Y] : Recurses(g, X, stop, base, next, step)
  <2> HIDE DEF X, Y, mu, stop, base, next, step
  <2>1. Recursion(X, Y, mu, stop, base, next, step)
    BY <1>1, <1>3, <1>4 DEF Recursion
  <2> QED  BY <2>1, RecursionExists
<1>6. Rec(g)
  <2>1. ASSUME NEW v \in X
        PROVE  g[v] = IF Contains(v[1], v[2]) THEN Broken
                      ELSE IF Children(s, v[2]) = {} THEN Append(v[1], v[2])
                      ELSE g[<<Append(v[1], v[2]), Child(s, v[2])>>]
    <3>1. g[v] = IF stop[v] THEN base[v] ELSE step[<<v, g[next[v]]>>]
      BY <1>5 DEF Recurses, ValueOf
    <3>2. CASE stop[v]
      BY <3>1, <3>2
    <3>3. CASE ~stop[v]
      <4>1. next[v] \in X
        BY <1>4, <3>3
      <4>2. g[next[v]] \in Y
        BY <4>1
      <4>3. step[<<v, g[next[v]]>>] = g[next[v]]
        BY <4>2
      <4> QED  BY <3>1, <3>3, <4>3
    <3> QED  BY <3>2, <3>3
  <2> QED  BY <2>1
<1>7. Rec(Walk(s))
  <2>1. Walk(s) = CHOOSE f : Rec(f)
    BY DEF Walk
  <2> HIDE DEF Rec
  <2> QED  BY <1>6, <2>1
<1>8. ASSUME NEW v \in X
      PROVE  Walk(s)[v] = IF Contains(v[1], v[2]) THEN Broken
                          ELSE IF Children(s, v[2]) = {} THEN Append(v[1], v[2])
                          ELSE Walk(s)[<<Append(v[1], v[2]), Child(s, v[2])>>]
  BY <1>7
<1> DEFINE Good == {v \in X : Walk(s)[v] \in Y}
<1>9. ASSUME NEW v \in X, \A y \in X : mu[y] < mu[v] => y \in Good PROVE v \in Good
  <2>1. CASE stop[v]
    <3>1. Walk(s)[v] = base[v]
      BY <1>8, <2>1
    <3> QED  BY <1>3, <3>1
  <2>2. CASE ~stop[v]
    <3>1. next[v] \in Good
      BY <1>4, <1>9, <2>2
    <3>2. Walk(s)[v] = Walk(s)[next[v]]
      BY <1>8, <2>2
    <3> QED  BY <3>1, <3>2
  <2> QED  BY <2>1, <2>2
<1>10. X \subseteq Good
  <2> HIDE DEF X, mu, Good
  <2> QED  BY <1>1, <1>9, MeasureInduction
<1>11. <<path, i>> \in X /\ <<path, i>>[1] = path /\ <<path, i>>[2] = i
  OBVIOUS
<1> QED  BY <1>8, <1>10, <1>11

\* The segments are what their definition says they are, and yield a path or
\* Broken.
LEMMA SegmentsDefinition ==
    ASSUME NEW s \in Seq(Row)
    PROVE  /\ Segments(s)[0] = <<>>
           /\ \A n \in 1 .. Len(s) : Segments(s)[n] = From(s, Segments(s)[n - 1], n)
<1> DEFINE X == 0 .. Len(s)
           Y == Seq(DOMAIN s) \cup {Broken}
           mu == [n \in X |-> n]
           stop == [n \in X |-> n = 0]
           base == [n \in X |-> <<>>]
           next == [n \in X |-> n - 1]
           step == [w \in X \X Y |-> IF w[1] = 0 THEN <<>> ELSE From(s, w[2], w[1])]
           Rec(f) == f = [n \in X |-> IF n = 0 THEN <<>> ELSE From(s, f[n - 1], n)]
<1>1. Len(s) \in Nat /\ DOMAIN s = 1 .. Len(s)
  BY Indices
<1>2. mu \in [X -> Nat] /\ \A n \in X : mu[n] <= Len(s)
  BY <1>1
<1>3. <<>> \in Y
  OBVIOUS
<1>4. base \in [X -> Y] /\ stop \in [X -> BOOLEAN]
  BY <1>3
<1>5. ASSUME NEW n \in 1 .. Len(s), NEW path \in Y
      PROVE  From(s, path, n) \in Y
  <2>1. n \in DOMAIN s
    BY <1>1
  <2>2. CASE path = Broken \/ ~IsStart(s, n)
    BY <2>2 DEF From
  <2>3. CASE ~(path = Broken \/ ~IsStart(s, n))
    <3>1. path \in Seq(DOMAIN s)
      BY <2>3
    <3>2. Walk(s)[<<path, n>>] \in Y
      BY <2>1, <3>1, WalkDefinition
    <3> QED  BY <2>3, <3>2 DEF From
  <2> QED  BY <2>2, <2>3
<1>6. step \in [X \X Y -> Y]
  <2>1. ASSUME NEW n \in X, NEW path \in Y
        PROVE  (IF n = 0 THEN <<>> ELSE From(s, path, n)) \in Y
    <3>1. CASE n = 0
      BY <1>3, <3>1
    <3>2. CASE n # 0
      <4>1. n \in 1 .. Len(s)
        BY <1>1, <3>2
      <4> QED  BY <1>5, <3>2, <4>1
    <3> QED  BY <3>1, <3>2
  <2> HIDE DEF X, Y
  <2> QED  BY <2>1
<1>7. ASSUME NEW n \in X, ~stop[n]
      PROVE  next[n] \in X /\ mu[next[n]] < mu[n]
  <2>1. n \in 1 .. Len(s) /\ n - 1 \in X /\ n - 1 < n
    <3>1. stop[n] = (n = 0)
      BY Zenon
    <3>2. n # 0
      BY <1>7, <3>1
    <3> QED  BY <1>1, <3>2
  <2>2. next[n] = n - 1 /\ mu[n - 1] = n - 1 /\ mu[n] = n
    BY <2>1
  <2> QED  BY <2>1, <2>2
<1>8. PICK g \in [X -> Y] : Recurses(g, X, stop, base, next, step)
  <2> HIDE DEF X, Y, mu, stop, base, next, step
  <2>1. Recursion(X, Y, mu, stop, base, next, step)
    BY <1>1, <1>2, <1>4, <1>6, <1>7 DEF Recursion
  <2> QED  BY <2>1, RecursionExists
<1>9. Rec(g)
  <2>1. ASSUME NEW n \in X
        PROVE  g[n] = IF n = 0 THEN <<>> ELSE From(s, g[n - 1], n)
    <3>1. g[n] = IF stop[n] THEN base[n] ELSE step[<<n, g[next[n]]>>]
      BY <1>8 DEF Recurses, ValueOf
    <3>2. CASE n = 0
      BY <3>1, <3>2
    <3>3. CASE n # 0
      <4>1. n - 1 \in X
        BY <1>1, <3>3
      <4>2. g[n - 1] \in Y
        BY <4>1
      <4>3. step[<<n, g[n - 1]>>] = From(s, g[n - 1], n)
        BY <3>3, <4>2
      <4> QED  BY <3>1, <3>3, <4>3
    <3> QED  BY <3>2, <3>3
  <2> QED  BY <2>1
<1>10. Rec(Segments(s))
  <2>1. Segments(s) = CHOOSE f : Rec(f)
    BY DEF Segments
  <2> HIDE DEF Rec
  <2> QED  BY <1>9, <2>1
<1>11. \A n \in X : Segments(s)[n] = IF n = 0 THEN <<>> ELSE From(s, Segments(s)[n - 1], n)
  BY <1>10
<1> QED  BY <1>1, <1>11

----------------------------------------------------------------------------
(* Paths that walks follow. *)

Injective(p) == \A j, k \in 1 .. Len(p) : p[j] = p[k] => j = k

\* A message on a path starts a segment or comes after its predecessor.
Chained(s, p) ==
    \A k \in 1 .. Len(p) : p[k] \in Starts(s) \/ (k > 1 /\ p[k] \in Children(s, p[k - 1]))

\* A path goes on with the message that follows, as long as there is one.
Adjacent(s, p) ==
    \A k \in 1 .. Len(p) :
        (k < Len(p) /\ Children(s, p[k]) # {}) => p[k + 1] \in Children(s, p[k])

\* Starts are visited in their order, and up to n all of them are.
StartsInOrder(s, p) ==
    \A j, k \in 1 .. Len(p) : (p[j] \in Starts(s) /\ p[k] \in Starts(s) /\ j < k) => p[j] < p[k]

StartsUpto(s, p, n) == \A i \in Starts(s) : i \in Visited(p) <=> i <= n

Follow(s, p, n) ==
    /\ p \in Seq(DOMAIN s)
    /\ Injective(p) /\ Chained(s, p) /\ Adjacent(s, p)
    /\ StartsInOrder(s, p) /\ StartsUpto(s, p, n)

\* No message follows the last one of the path.
Ended(s, p) == p # <<>> => Children(s, p[Len(p)]) = {}

Sound(s) == s \in Seq(Row) /\ ~DuplicateHash(s)

\* A message follows one stored message only.
LEMMA OnePredecessor ==
    ASSUME NEW s, Sound(s), NEW i \in DOMAIN s, NEW j \in DOMAIN s, NEW c,
           c \in Children(s, i), c \in Children(s, j)
    PROVE  i = j
<1>1. s[i].hash = s[j].hash
  BY DEF Children
<1> QED  BY <1>1 DEF Sound, DuplicateHash

\* Without a fork, a message is followed by one message only.
LEMMA OneChild ==
    ASSUME NEW s, ~Forked(s), NEW i, NEW c \in Children(s, i), NEW d \in Children(s, i)
    PROVE  c = d
BY DEF Children, Forked

\* A path goes on with the message after its last one.
LEMMA FollowChild ==
    ASSUME NEW s, Sound(s), NEW p, NEW n, Follow(s, p, n), p # <<>>,
           NEW c \in Children(s, p[Len(p)])
    PROVE  Follow(s, Append(p, c), n)
<1> DEFINE q == Append(p, c)
           m == Len(p)
<1>1. s \in Seq(Row) /\ p \in Seq(DOMAIN s)
  BY DEF Sound, Follow
<1>2. c \in DOMAIN s /\ c \notin Starts(s)
  BY DEF Children
<1>3. /\ m \in Nat /\ q \in Seq(DOMAIN s) /\ Len(q) = m + 1
      /\ \A k \in 1 .. m : q[k] = p[k]
      /\ q[m + 1] = c
      /\ Visited(q) = Visited(p) \cup {c}
  BY <1>1, <1>2, LongerPath
<1>4. m \in 1 .. m /\ \A k \in 1 .. m : p[k] \in DOMAIN s
  <2>1. m # 0
    BY <1>1, EmptySeq
  <2> QED  BY <1>1, <1>3, <2>1, ElementOfSeq
<1>5. ASSUME NEW k \in 1 .. m PROVE p[k] # c
  <2> SUFFICES ASSUME p[k] = c PROVE FALSE
    OBVIOUS
  <2>1. k > 1 /\ c \in Children(s, p[k - 1])
    BY <1>2 DEF Follow, Chained
  <2>2. k - 1 \in 1 .. m
    BY <1>3, <2>1
  <2>3. p[k - 1] = p[m]
    BY <1>4, <2>1, <2>2, OnePredecessor
  <2>4. k - 1 = m
    BY <1>4, <2>2, <2>3 DEF Follow, Injective
  <2> QED  BY <1>3, <2>4
<1> HIDE DEF q, m
<1>6. \A k \in 1 .. Len(q) : k \in 1 .. m \/ k = m + 1
  BY <1>3
<1>7. Injective(q)
  <2>1. \A j, k \in 1 .. m : p[j] = p[k] => j = k
    BY DEF Follow, Injective, m
  <2> QED  BY <1>3, <1>5, <1>6, <2>1 DEF Injective
<1>8. Chained(s, q)
  <2> SUFFICES ASSUME NEW k \in 1 .. Len(q)
               PROVE  q[k] \in Starts(s) \/ (k > 1 /\ q[k] \in Children(s, q[k - 1]))
    BY DEF Chained
  <2>1. CASE k \in 1 .. m
    <3>1. p[k] \in Starts(s) \/ (k > 1 /\ p[k] \in Children(s, p[k - 1]))
      BY <2>1 DEF Follow, Chained, m
    <3>2. k > 1 => k - 1 \in 1 .. m
      BY <1>3, <2>1
    <3> QED  BY <1>3, <2>1, <3>1, <3>2
  <2>2. CASE k = m + 1
    <3>1. k > 1 /\ k - 1 = m
      BY <1>3, <1>4, <2>2
    <3>2. c \in Children(s, p[m])
      BY DEF m
    <3> QED  BY <1>3, <1>4, <2>2, <3>1, <3>2
  <2> QED  BY <1>6, <2>1, <2>2
<1>9. Adjacent(s, q)
  <2> SUFFICES ASSUME NEW k \in 1 .. Len(q), k < Len(q), Children(s, q[k]) # {}
               PROVE  q[k + 1] \in Children(s, q[k])
    BY DEF Adjacent
  <2>1. k \in 1 .. m
    BY <1>3
  <2>2. CASE k = m
    <3>1. c \in Children(s, p[m])
      BY DEF m
    <3> QED  BY <1>3, <1>4, <2>2, <3>1
  <2>3. CASE k # m
    <3>1. k < m /\ k + 1 \in 1 .. m
      BY <1>3, <2>1, <2>3
    <3>2. p[k + 1] \in Children(s, p[k])
      BY <1>3, <2>1, <3>1 DEF Follow, Adjacent, m
    <3> QED  BY <1>3, <2>1, <3>1, <3>2
  <2> QED  BY <2>2, <2>3
<1>10. StartsInOrder(s, q)
  <2> SUFFICES ASSUME NEW j \in 1 .. Len(q), NEW k \in 1 .. Len(q),
                      q[j] \in Starts(s), q[k] \in Starts(s), j < k
               PROVE  q[j] < q[k]
    BY DEF StartsInOrder
  <2>1. j \in 1 .. m /\ k \in 1 .. m
    BY <1>2, <1>3, <1>6
  <2>2. p[j] \in Starts(s) /\ p[k] \in Starts(s)
    BY <1>3, <2>1
  <2>3. p[j] < p[k]
    BY <2>1, <2>2 DEF Follow, StartsInOrder, m
  <2> QED  BY <1>3, <2>1, <2>3
<1>11. StartsUpto(s, q, n)
  BY <1>2, <1>3 DEF Follow, StartsUpto
<1> QED  BY <1>3, <1>7, <1>8, <1>9, <1>10, <1>11 DEF Follow, q

\* A walk follows the segment of its first message to the end, and never comes
\* back to a message that it visited.
LEMMA WalkCorrect ==
    ASSUME NEW s, Sound(s), NEW n,
           NEW path \in Seq(DOMAIN s), NEW i \in DOMAIN s, Follow(s, Append(path, i), n)
    PROVE  Follow(s, Walk(s)[<<path, i>>], n) /\ Ended(s, Walk(s)[<<path, i>>])
<1> DEFINE D == DOMAIN s
           X == Seq(D) \X D
           mu == [v \in X |-> Left(s, v[1])]
           Right(v) == Follow(s, Append(v[1], v[2]), n) =>
                          Follow(s, Walk(s)[v], n) /\ Ended(s, Walk(s)[v])
           Good == {v \in X : Right(v)}
<1>1. s \in Seq(Row)
  BY DEF Sound
<1>2. mu \in [X -> Nat]
  BY <1>1, VisitLeavesLess
<1>3. ASSUME NEW p \in Seq(D), NEW j \in D, Follow(s, Append(p, j), n),
             \A y \in X : mu[y] < mu[<<p, j>>] => y \in Good
      PROVE  Follow(s, Walk(s)[<<p, j>>], n) /\ Ended(s, Walk(s)[<<p, j>>])
  <2> DEFINE q == Append(p, j)
             c == Child(s, j)
  <2>1. /\ Len(p) \in Nat /\ Len(q) = Len(p) + 1 /\ q \in Seq(D) /\ q # <<>>
        /\ \A k \in 1 .. Len(p) : q[k] = p[k]
        /\ q[Len(p) + 1] = j
        /\ Contains(p, j) <=> j \in Visited(p)
    BY LongerPath
  <2>2. ~Contains(p, j)
    <3> SUFFICES ASSUME Contains(p, j) PROVE FALSE
      OBVIOUS
    <3>1. PICK k \in 1 .. Len(p) : p[k] = j
      BY <2>1 DEF Visited
    <3>2. k \in 1 .. Len(q) /\ Len(p) + 1 \in 1 .. Len(q) /\ k # Len(p) + 1
      BY <2>1
    <3>3. q[k] = q[Len(p) + 1]
      BY <2>1, <3>1
    <3> QED  BY <1>3, <3>2, <3>3 DEF Follow, Injective
  <2>3. CASE Children(s, j) = {}
    <3>1. Walk(s)[<<p, j>>] = q
      BY <1>1, <2>2, <2>3, WalkDefinition
    <3>2. Ended(s, q)
      BY <2>1, <2>3 DEF Ended
    <3> QED  BY <1>3, <3>1, <3>2
  <2>4. CASE Children(s, j) # {}
    <3>1. c \in Children(s, j) /\ c \in D
      BY <1>1, <2>4, ChildFollows
    <3>2. Walk(s)[<<p, j>>] = Walk(s)[<<q, c>>]
      BY <1>1, <2>2, <2>4, WalkDefinition
    <3>3. Follow(s, Append(q, c), n)
      <4>1. q[Len(q)] = j
        BY <2>1
      <4> HIDE DEF q, c
      <4>2. Follow(s, q, n)
        BY <1>3 DEF q
      <4> QED  BY <2>1, <3>1, <4>1, <4>2, FollowChild
    <3>4. mu[<<q, c>>] < mu[<<p, j>>]
      <4>1. Left(s, q) < Left(s, p)
        BY <1>1, <2>2, VisitLeavesLess
      <4>2. <<q, c>> \in X /\ <<p, j>> \in X
        BY <2>1, <3>1
      <4> HIDE DEF q, c
      <4>3. mu[<<q, c>>] = Left(s, q) /\ mu[<<p, j>>] = Left(s, p)
        BY <4>2
      <4> QED  BY <4>1, <4>3
    <3>5. Right(<<q, c>>)
      <4>1. <<q, c>> \in X
        BY <2>1, <3>1
      <4> HIDE DEF Right, X, mu, q, c
      <4> QED  BY <1>3, <3>4, <4>1
    <3>6. <<q, c>>[1] = q /\ <<q, c>>[2] = c
      OBVIOUS
    <3> HIDE DEF q, c
    <3> QED  BY <3>2, <3>3, <3>5, <3>6
  <2> QED  BY <2>3, <2>4
<1>4. ASSUME NEW v \in X, \A y \in X : mu[y] < mu[v] => y \in Good PROVE v \in Good
  <2>1. v = <<v[1], v[2]>> /\ v[1] \in Seq(D) /\ v[2] \in D
    OBVIOUS
  <2>2. ASSUME Follow(s, Append(v[1], v[2]), n)
        PROVE  Follow(s, Walk(s)[v], n) /\ Ended(s, Walk(s)[v])
    <3> HIDE DEF X, mu, Good
    <3> QED  BY <1>3, <1>4, <2>1, <2>2
  <2> QED  BY <2>2
<1>5. X \subseteq Good
  <2> HIDE DEF X, mu, Good
  <2> QED  BY <1>2, <1>4, MeasureInduction
<1>6. <<path, i>> \in X /\ <<path, i>>[1] = path /\ <<path, i>>[2] = i
  OBVIOUS
<1>7. Right(<<path, i>>)
  BY <1>5, <1>6
<1> QED  BY <1>6, <1>7

\* The segments that start among the first n messages, one after the other.
LEMMA SegmentsCorrect ==
    ASSUME NEW s, Sound(s), NEW n \in 0 .. Len(s)
    PROVE  Follow(s, Segments(s)[n], n) /\ Ended(s, Segments(s)[n])
<1> DEFINE X == 0 .. Len(s)
           Right(k) == Follow(s, Segments(s)[k], k) /\ Ended(s, Segments(s)[k])
           mu == [k \in X |-> k]
           Good == {k \in X : Right(k)}
<1>1. s \in Seq(Row) /\ Len(s) \in Nat /\ DOMAIN s = 1 .. Len(s) /\ DOMAIN s \subseteq Nat
  BY Indices DEF Sound
<1>2. Right(0)
  <2>1. Segments(s)[0] = <<>>
    BY <1>1, SegmentsDefinition
  <2>2. Starts(s) \subseteq 1 .. Len(s)
    BY <1>1 DEF Starts
  <2>3. <<>> \in Seq(DOMAIN s) /\ Len(<<>>) = 0 /\ 1 .. 0 = {} /\ Visited(<<>>) = {}
    BY DEF Visited
  <2>4. StartsUpto(s, <<>>, 0)
    BY <1>1, <2>2, <2>3 DEF StartsUpto
  <2>5. Follow(s, <<>>, 0)
    BY <2>3, <2>4 DEF Follow, Injective, Chained, Adjacent, StartsInOrder
  <2>6. Ended(s, <<>>)
    BY DEF Ended
  <2> QED  BY <2>1, <2>5, <2>6
<1>3. ASSUME NEW k \in 1 .. Len(s), Right(k - 1) PROVE Right(k)
  <2> DEFINE p == Segments(s)[k - 1]
             q == Append(p, k)
  <2>1. Follow(s, p, k - 1) /\ Ended(s, p) /\ p \in Seq(DOMAIN s) /\ k \in DOMAIN s
    BY <1>1, <1>3 DEF Follow
  <2>2. p # Broken
    <3>1. DOMAIN s \subseteq Nat => p \in Seq(Nat)
      BY <2>1, ElementOfSeq
    <3> QED  BY <1>1, <3>1, BrokenAssumption
  <2>3. Segments(s)[k] = From(s, p, k)
    BY <1>1, SegmentsDefinition
  <2>4. CASE ~IsStart(s, k)
    <3>1. Segments(s)[k] = p
      BY <2>3, <2>4 DEF From
    <3>2. \A i \in Starts(s) : i <= k <=> i <= k - 1
      BY <1>1, <2>4 DEF Starts
    <3>3. StartsUpto(s, p, k)
      BY <2>1, <3>2 DEF Follow, StartsUpto
    <3>4. Follow(s, p, k)
      BY <2>1, <3>3 DEF Follow
    <3> QED  BY <2>1, <3>1, <3>4
  <2>5. CASE IsStart(s, k)
    <3>1. Segments(s)[k] = Walk(s)[<<p, k>>]
      BY <2>2, <2>3, <2>5 DEF From
    <3>2. k \in Starts(s)
      BY <2>1, <2>5 DEF Starts
    <3> DEFINE m == Len(p)
    <3>3. /\ m \in Nat /\ Len(q) = m + 1 /\ q \in Seq(DOMAIN s)
          /\ \A l \in 1 .. m : q[l] = p[l] /\ p[l] \in DOMAIN s
          /\ q[m + 1] = k
          /\ Visited(q) = Visited(p) \cup {k}
      BY <2>1, LongerPath, ElementOfSeq
    <3>4. \A i \in Starts(s) : i \in Visited(p) <=> i <= k - 1
      BY <2>1 DEF Follow, StartsUpto
    <3>5. \A l \in 1 .. m : p[l] # k
      <4>1. k \notin Visited(p)
        BY <1>1, <3>2, <3>4
      <4> QED  BY <4>1 DEF Visited
    <3>6. \A l \in 1 .. Len(q) : l \in 1 .. m \/ l = m + 1
      BY <3>3
    <3> HIDE DEF q, p
    <3>7. Injective(q)
      <4>1. \A j, l \in 1 .. m : p[j] = p[l] => j = l
        BY <2>1 DEF Follow, Injective
      <4> QED  BY <3>3, <3>5, <3>6, <4>1 DEF Injective
    <3>8. Chained(s, q)
      <4> SUFFICES ASSUME NEW l \in 1 .. Len(q)
                   PROVE  q[l] \in Starts(s) \/ (l > 1 /\ q[l] \in Children(s, q[l - 1]))
        BY DEF Chained
      <4>1. CASE l \in 1 .. m
        <5>1. p[l] \in Starts(s) \/ (l > 1 /\ p[l] \in Children(s, p[l - 1]))
          BY <2>1, <4>1 DEF Follow, Chained
        <5>2. l > 1 => l - 1 \in 1 .. m
          BY <3>3, <4>1
        <5> QED  BY <3>3, <4>1, <5>1, <5>2
      <4>2. CASE l = m + 1
        BY <3>2, <3>3, <4>2
      <4> QED  BY <3>6, <4>1, <4>2
    <3>9. Adjacent(s, q)
      <4> SUFFICES ASSUME NEW l \in 1 .. Len(q), l < Len(q), Children(s, q[l]) # {}
                   PROVE  q[l + 1] \in Children(s, q[l])
        BY DEF Adjacent
      <4>1. l \in 1 .. m
        BY <3>3
      <4>2. l # m
        <5> SUFFICES ASSUME l = m PROVE FALSE
          OBVIOUS
        <5>1. m # 0 /\ p # <<>>
          BY <3>3, <4>1
        <5>2. Children(s, p[m]) = {}
          BY <2>1, <5>1 DEF Ended
        <5> QED  BY <3>3, <4>1, <5>2
      <4>3. l < m /\ l + 1 \in 1 .. m
        BY <3>3, <4>1, <4>2
      <4>4. p[l + 1] \in Children(s, p[l])
        BY <2>1, <3>3, <4>1, <4>3 DEF Follow, Adjacent
      <4> QED  BY <3>3, <4>1, <4>3, <4>4
    <3>10. StartsInOrder(s, q)
      <4> SUFFICES ASSUME NEW j \in 1 .. Len(q), NEW l \in 1 .. Len(q),
                          q[j] \in Starts(s), q[l] \in Starts(s), j < l
                   PROVE  q[j] < q[l]
        BY DEF StartsInOrder
      <4>1. j \in 1 .. m
        BY <3>3, <3>6
      <4>2. CASE l \in 1 .. m
        BY <2>1, <3>3, <4>1, <4>2 DEF Follow, StartsInOrder
      <4>3. CASE l = m + 1
        <5>1. p[j] \in Starts(s) /\ p[j] \in Visited(p)
          BY <3>3, <4>1 DEF Visited
        <5>2. p[j] <= k - 1 /\ p[j] \in Nat
          BY <1>1, <3>3, <3>4, <4>1, <5>1
        <5> QED  BY <1>1, <3>3, <4>1, <4>3, <5>2
      <4> QED  BY <3>6, <4>2, <4>3
    <3>11. StartsUpto(s, q, k)
      <4>1. \A i \in Starts(s) : i \in Nat
        BY <1>1 DEF Starts
      <4> QED  BY <3>3, <3>4, <4>1 DEF StartsUpto
    <3>12. Follow(s, q, k)
      BY <3>3, <3>7, <3>8, <3>9, <3>10, <3>11 DEF Follow
    <3> QED  BY <2>1, <3>1, <3>12, WalkCorrect DEF q
  <2> QED  BY <2>4, <2>5
<1>4. mu \in [X -> Nat]
  BY <1>1
<1>5. ASSUME NEW k \in X, \A y \in X : mu[y] < mu[k] => y \in Good PROVE k \in Good
  <2>1. CASE k = 0
    BY <1>2, <2>1
  <2>2. CASE k # 0
    <3>1. k \in 1 .. Len(s) /\ k - 1 \in X /\ k - 1 < k
      BY <1>1, <2>2
    <3>2. mu[k - 1] = k - 1 /\ mu[k] = k
      BY <3>1
    <3>3. k - 1 \in Good
      <4> HIDE DEF X, mu, Good
      <4> QED  BY <1>5, <3>1, <3>2
    <3> QED  BY <1>3, <3>1, <3>3
  <2> QED  BY <2>1, <2>2
<1>6. X \subseteq Good
  <2> HIDE DEF X, mu, Good
  <2> QED  BY <1>4, <1>5, MeasureInduction
<1> QED  BY <1>6

----------------------------------------------------------------------------
(* The history that is shown. *)

HistoryPath(s) == Segments(s)[Len(s)]

\* The path of the history, whether it is complete or not.
LEMMA PathOfHistory ==
    ASSUME NEW s, Sound(s)
    PROVE  LET p == HistoryPath(s)
           IN  /\ Follow(s, p, Len(s)) /\ Ended(s, p)
               /\ p # Broken /\ Len(p) \in Nat
               /\ \A k \in 1 .. Len(p) : p[k] \in DOMAIN s
               /\ Visited(p) \subseteq DOMAIN s
               /\ Starts(s) \subseteq Visited(p)
               /\ Len(p) = Len(s) <=> Visited(p) = DOMAIN s
<1> DEFINE p == HistoryPath(s)
           D == DOMAIN s
<1>1. /\ s \in Seq(Row) /\ Len(s) \in Nat /\ D = 1 .. Len(s) /\ D \subseteq Nat
      /\ IsFiniteSet(D) /\ Cardinality(D) = Len(s)
      /\ Starts(s) \subseteq D
  BY Indices DEF Sound
<1>2. Follow(s, p, Len(s)) /\ Ended(s, p)
  BY <1>1, SegmentsCorrect DEF HistoryPath
<1>3. p \in Seq(D) /\ Len(p) \in Nat /\ \A k \in 1 .. Len(p) : p[k] \in D
  <2> HIDE DEF p, D
  <2>1. p \in Seq(D)
    BY <1>2 DEF Follow, D
  <2> QED  BY <2>1, LenProperties, ElementOfSeq
<1> HIDE DEF p
<1>4. p # Broken
  <2>1. p \in Seq(Nat)
    BY <1>1, <1>3
  <2> QED  BY <2>1, BrokenAssumption
<1>5. Visited(p) \subseteq D
  BY <1>3 DEF Visited
<1>6. Starts(s) \subseteq Visited(p)
  BY <1>1, <1>2 DEF Follow, StartsUpto
<1>7. Len(p) = Len(s) <=> Visited(p) = D
  <2> DEFINE K == 1 .. Len(p)
             f == [k \in K |-> p[k]]
  <2>1. f \in [K -> D]
    BY <1>3
  <2>2. \A j, k \in K : f[j] = f[k] => j = k
    BY <1>2 DEF Follow, Injective
  <2>3. f \in Injection(K, D)
    <3>1. IsInjective(f)
      BY <2>2 DEF IsInjective
    <3> QED  BY <2>1, <3>1 DEF Injection
  <2>4. Cardinality(K) = Len(p)
    <3>1. 1 \in Int /\ Len(p) \in Int
      BY <1>3
    <3>2. Cardinality(1 .. Len(p)) = IF 1 > Len(p) THEN 0 ELSE Len(p) - 1 + 1
      BY <3>1, FS_Interval
    <3> QED  BY <1>3, <3>2
  <2>5. Cardinality(K) = Cardinality(D) <=> f \in Surjection(K, D)
    <3> HIDE DEF f, K, D
    <3> QED  BY <1>1, <2>3, FS_Injection
  <2>6. f \in Surjection(K, D) <=> D \subseteq Visited(p)
    <3>1. f \in Surjection(K, D) <=> \A t \in D : \E k \in K : f[k] = t
      BY <2>1 DEF Surjection
    <3>2. \A k \in K : f[k] = p[k]
      OBVIOUS
    <3>3. Visited(p) = {p[k] : k \in K}
      BY DEF Visited
    <3> HIDE DEF f, K, D
    <3> QED  BY <3>1, <3>2, <3>3
  <2> QED  BY <1>1, <1>5, <2>4, <2>5, <2>6
<1> QED  BY <1>2, <1>3, <1>4, <1>5, <1>6, <1>7 DEF p

\* A history of more than one message shows all messages of its path, or none.
LEMMA OrderOfHistory ==
    ASSUME NEW s, Sound(s), Len(s) > 1
    PROVE  LET p == HistoryPath(s)
           IN  /\ order_history(s) = Broken <=>
                    (Forked(s) \/ Starts(s) = {} \/ Len(p) # Len(s))
               /\ order_history(s) # Broken =>
                    order_history(s) = [k \in 1 .. Len(s) |-> s[p[k]]]
<1> DEFINE p == HistoryPath(s)
           shown == [k \in DOMAIN p |-> s[p[k]]]
<1>1. s \in Seq(Row) /\ Len(s) \in Nat /\ DOMAIN s = 1 .. Len(s) /\ ~DuplicateHash(s)
      /\ \A i \in DOMAIN s : s[i] \in Row
  BY Indices DEF Sound
<1>2. p # Broken /\ p \in Seq(DOMAIN s) /\ Len(p) \in Nat /\ \A k \in 1 .. Len(p) : p[k] \in DOMAIN s
  BY PathOfHistory DEF Follow
<1>3. DOMAIN p = 1 .. Len(p)
  BY <1>2, LenProperties
<1>4. order_history(s) =
        IF Forked(s) \/ Starts(s) = {} \/ Len(p) # Len(s) THEN Broken ELSE shown
  BY <1>1, <1>2 DEF order_history, Collect, HistoryPath
<1> HIDE DEF p
<1>5. shown # Broken
  <2>1. shown \in Seq(Row)
    BY <1>1, <1>2, <1>3
  <2> QED  BY <2>1, BrokenAssumption
<1> QED  BY <1>3, <1>4, <1>5 DEF p

\* A history of at most one message is shown as it is stored.
LEMMA ShortHistory ==
    ASSUME NEW s \in Seq(Row), ~(Len(s) > 1)
    PROVE  order_history(s) = s /\ order_history(s) # Broken
<1>1. Len(s) \in Nat
  BY LenProperties
<1>2. order_history(s) = s
  BY <1>1 DEF order_history
<1> QED  BY <1>2, BrokenAssumption

\* The messages of a sound conversation, and where they are in a history.
LEMMA PlaceInHistory ==
    ASSUME NEW s, Sound(s), Len(s) > 1, order_history(s) # Broken
    PROVE  LET p == HistoryPath(s)
               h == order_history(s)
           IN  /\ ~Forked(s) /\ Starts(s) # {} /\ Len(p) = Len(s) /\ Visited(p) = DOMAIN s
               /\ h \in Seq(Row) /\ Len(h) = Len(s) /\ DOMAIN h = 1 .. Len(s)
               /\ \A k \in 1 .. Len(s) : h[k] = s[p[k]] /\ p[k] \in DOMAIN s
<1> DEFINE p == HistoryPath(s)
           h == order_history(s)
<1>1. Len(s) \in Nat /\ DOMAIN s = 1 .. Len(s) /\ \A i \in DOMAIN s : s[i] \in Row
  BY Indices DEF Sound
<1>2. ~Forked(s) /\ Starts(s) # {} /\ Len(p) = Len(s) /\ h = [k \in 1 .. Len(s) |-> s[p[k]]]
  BY OrderOfHistory
<1>3. Visited(p) = DOMAIN s /\ \A k \in 1 .. Len(s) : p[k] \in DOMAIN s
  BY <1>2, PathOfHistory
<1> HIDE DEF p, h
<1>4. h \in Seq(Row) /\ Len(h) = Len(s) /\ DOMAIN h = 1 .. Len(s)
  BY <1>1, <1>2, <1>3
<1> QED  BY <1>2, <1>3, <1>4 DEF p, h

\* A message that names a stored previous hash comes after what it names.
LEMMA FollowsMeansChild ==
    ASSUME NEW s, Sound(s), NEW i \in DOMAIN s, NEW j \in DOMAIN s, Follows(s[j], s[i])
    PROVE  j \in Children(s, i) /\ j \notin Starts(s)
<1>1. s[j].prev = s[i].hash /\ s[i].hash \in Hash /\ s[i].hash \in Stored(s)
  BY Indices DEF Sound, Follows, Stored
<1>2. j \notin Starts(s)
  BY <1>1, NoHashAssumption DEF Starts, IsStart
<1> QED  BY <1>1, <1>2 DEF Children

\* A message that starts no segment has its predecessor among the stored ones.
LEMMA ChildOfStored ==
    ASSUME NEW s, Sound(s), NEW j \in DOMAIN s, j \notin Starts(s)
    PROVE  \E i \in DOMAIN s : j \in Children(s, i) /\ Follows(s[j], s[i])
<1>1. s[j].prev \in Stored(s)
  BY DEF Starts, IsStart
<1>2. PICK i \in DOMAIN s : s[j].prev = s[i].hash
  BY <1>1 DEF Stored
<1> QED  BY <1>2 DEF Children, Follows

\* The history shows every message once, right after its predecessor.
LEMMA OrderFollowsChain ==
    ASSUME NEW s, Sound(s), NEW h, h = order_history(s), h # Broken
    PROVE  /\ ToSet(h) = ToSet(s)
           /\ Len(h) = Len(s)
           /\ \A i, j \in DOMAIN h : (i # j /\ Follows(h[j], h[i])) => j = i + 1
<1>1. s \in Seq(Row) /\ Len(s) \in Nat /\ DOMAIN s = 1 .. Len(s)
  BY Indices DEF Sound
<1>2. CASE ~(Len(s) > 1)
  <2>1. h = s
    BY <1>1, <1>2, ShortHistory
  <2>2. \A i, j \in DOMAIN s : i = j
    BY <1>1, <1>2
  <2> QED  BY <2>1, <2>2
<1>3. CASE Len(s) > 1
  <2> DEFINE p == HistoryPath(s)
  <2>1. /\ ~Forked(s) /\ Len(p) = Len(s) /\ Visited(p) = DOMAIN s
        /\ Len(h) = Len(s) /\ DOMAIN h = 1 .. Len(s)
        /\ \A k \in 1 .. Len(s) : h[k] = s[p[k]] /\ p[k] \in DOMAIN s
    BY <1>3, PlaceInHistory
  <2>2. Injective(p) /\ Adjacent(s, p) /\ Ended(s, p)
    BY PathOfHistory DEF Follow
  <2> HIDE DEF p
  <2>3. ToSet(h) = ToSet(s)
    <3>1. ToSet(h) = {s[p[k]] : k \in 1 .. Len(p)}
      BY <2>1 DEF ToSet
    <3>2. ToSet(s) = {s[i] : i \in Visited(p)}
      BY <2>1 DEF ToSet
    <3> QED  BY <3>1, <3>2 DEF Visited
  <2>4. ASSUME NEW i \in DOMAIN h, NEW j \in DOMAIN h, i # j, Follows(h[j], h[i])
        PROVE  j = i + 1
    <3>1. p[i] \in DOMAIN s /\ p[j] \in DOMAIN s /\ p[j] \in Children(s, p[i])
      BY <2>1, <2>4, FollowsMeansChild
    <3>2. i # Len(p)
      <4> SUFFICES ASSUME i = Len(p) PROVE FALSE
        OBVIOUS
      <4>1. p # <<>>
        BY <1>1, <1>3, <2>1
      <4> QED  BY <2>2, <3>1, <4>1 DEF Ended
    <3>3. i < Len(p) /\ i + 1 \in 1 .. Len(p)
      BY <1>1, <2>1, <3>2
    <3>4. p[i + 1] \in Children(s, p[i])
      BY <2>1, <2>2, <3>1, <3>3 DEF Adjacent
    <3>5. p[i + 1] = p[j]
      BY <2>1, <3>1, <3>4, OneChild
    <3> QED  BY <2>1, <2>2, <3>3, <3>5 DEF Injective
  <2> QED  BY <2>1, <2>3, <2>4
<1> QED  BY <1>2, <1>3

\* A message that a sequence has once is found where it is.
LEMMA PlaceOf ==
    ASSUME NEW s \in Seq(Row), NEW k \in 1 .. Len(s), NEW m, m = s[k],
           \A j \in 1 .. Len(s) : s[j] = m => j = k
    PROVE  Place(s, m) = k
<1> DEFINE found == {i \in 1 .. Len(s) : s[i] = m}
<1>1. found = {k}
  OBVIOUS
<1>2. Len(s) \in Nat /\ k <= k
  BY LenProperties
<1>3. Min({k}) = k
  BY <1>2 DEF Min
<1>4. Place(s, m) = IF found # {} THEN Min(found) ELSE 0
  BY DEF Place, SelectInSeq
<1> HIDE DEF found
<1> QED  BY <1>1, <1>3, <1>4

\* Where the stored messages are.
LEMMA StoredPlaces ==
    ASSUME NEW s, Sound(s)
    PROVE  /\ \A i, j \in DOMAIN s : s[i] = s[j] => i = j
           /\ \A i \in DOMAIN s : Place(s, s[i]) = i
<1>1. s \in Seq(Row) /\ DOMAIN s = 1 .. Len(s)
  BY Indices DEF Sound
<1>2. \A i, j \in DOMAIN s : s[i] = s[j] => i = j
  BY DEF Sound, DuplicateHash
<1> QED  BY <1>1, <1>2, PlaceOf

\* Where the messages of a history are.
LEMMA HistoryPlaces ==
    ASSUME NEW s, Sound(s), NEW h, h = order_history(s), h # Broken
    PROVE  /\ h \in Seq(Row) /\ Len(h) = Len(s) /\ DOMAIN h = 1 .. Len(s)
           /\ \A j, k \in 1 .. Len(s) : h[j] = h[k] => j = k
           /\ \A k \in 1 .. Len(s) : Place(h, h[k]) = k
<1>1. s \in Seq(Row) /\ Len(s) \in Nat /\ DOMAIN s = 1 .. Len(s)
  BY Indices DEF Sound
<1>2. CASE ~(Len(s) > 1)
  <2>1. h = s
    BY <1>1, <1>2, ShortHistory
  <2> QED  BY <1>1, <2>1, StoredPlaces
<1>3. CASE Len(s) > 1
  <2> DEFINE p == HistoryPath(s)
  <2>1. /\ Len(p) = Len(s) /\ h \in Seq(Row) /\ Len(h) = Len(s) /\ DOMAIN h = 1 .. Len(s)
        /\ \A k \in 1 .. Len(s) : h[k] = s[p[k]] /\ p[k] \in DOMAIN s
    BY <1>3, PlaceInHistory
  <2>2. Injective(p)
    BY PathOfHistory DEF Follow
  <2> HIDE DEF p
  <2>3. ASSUME NEW j \in 1 .. Len(s), NEW k \in 1 .. Len(s), h[j] = h[k] PROVE j = k
    <3>1. s[p[j]] = s[p[k]] /\ p[j] \in DOMAIN s /\ p[k] \in DOMAIN s
      BY <2>1, <2>3
    <3>2. p[j] = p[k]
      BY <3>1, StoredPlaces
    <3> QED  BY <2>1, <2>2, <3>2 DEF Injective
  <2> QED  BY <2>1, <2>3, PlaceOf
<1> QED  BY <1>2, <1>3

\* The heads of the segments keep their order.
LEMMA OrderKeepsStarts ==
    ASSUME NEW s, Sound(s), NEW h, h = order_history(s), h # Broken,
           NEW i \in Starts(s), NEW j \in Starts(s)
    PROVE  i < j <=> Place(h, s[i]) < Place(h, s[j])
<1>1. s \in Seq(Row) /\ Len(s) \in Nat /\ DOMAIN s = 1 .. Len(s) /\ i \in DOMAIN s /\ j \in DOMAIN s
  BY Indices DEF Sound
<1>2. CASE ~(Len(s) > 1)
  <2>1. i = j
    BY <1>1, <1>2
  <2>2. h = s
    BY <1>1, <1>2, ShortHistory
  <2> QED  BY <1>1, <2>1, <2>2, StoredPlaces
<1>3. CASE Len(s) > 1
  <2> DEFINE p == HistoryPath(s)
  <2>1. /\ Len(p) = Len(s) /\ Visited(p) = DOMAIN s
        /\ \A k \in 1 .. Len(s) : h[k] = s[p[k]]
    BY <1>3, PlaceInHistory
  <2>2. StartsInOrder(s, p)
    BY PathOfHistory DEF Follow
  <2> HIDE DEF p
  <2>3. PICK k \in 1 .. Len(s) : p[k] = i
    BY <1>1, <2>1 DEF Visited
  <2>4. PICK l \in 1 .. Len(s) : p[l] = j
    BY <1>1, <2>1 DEF Visited
  <2>5. Place(h, s[i]) = k /\ Place(h, s[j]) = l
    <3>1. h[k] = s[i] /\ h[l] = s[j]
      BY <2>1, <2>3, <2>4
    <3> QED  BY <3>1, HistoryPlaces
  <2>6. (k < l => i < j) /\ (l < k => j < i)
    BY <2>1, <2>2, <2>3, <2>4 DEF StartsInOrder
  <2>7. k = l => i = j
    BY <2>3, <2>4
  <2>8. i < j <=> k < l
    BY <1>1, <2>6, <2>7
  <2> QED  BY <2>5, <2>8
<1> QED  BY <1>2, <1>3

\* Two messages that follow one are what the fork check finds.
LEMMA ForkIsFound ==
    ASSUME Sound(rows)
    PROVE  Forked(rows) <=> HasFork
<1>1. \A i, j \in DOMAIN rows : rows[i] = rows[j] => i = j
  BY DEF Sound, DuplicateHash
<1>2. ASSUME Forked(rows) PROVE HasFork
  <2>1. PICK i \in DOMAIN rows \ Starts(rows), j \in DOMAIN rows \ Starts(rows) :
          i # j /\ rows[i].prev = rows[j].prev
    BY <1>2 DEF Forked
  <2>2. PICK l \in DOMAIN rows : Follows(rows[i], rows[l])
    BY <2>1, ChildOfStored
  <2>3. Follows(rows[j], rows[l])
    BY <2>1, <2>2 DEF Follows
  <2>4. rows[i] # rows[j]
    BY <1>1, <2>1
  <2> QED  BY <2>1, <2>2, <2>3, <2>4 DEF HasFork, ToSet
<1>3. ASSUME HasFork PROVE Forked(rows)
  <2>1. PICK m1 \in ToSet(rows), m2 \in ToSet(rows), m3 \in ToSet(rows) :
          m1 # m2 /\ Follows(m1, m3) /\ Follows(m2, m3)
    BY <1>3 DEF HasFork
  <2>2. PICK i \in DOMAIN rows, j \in DOMAIN rows, l \in DOMAIN rows :
          m1 = rows[i] /\ m2 = rows[j] /\ m3 = rows[l]
    BY DEF ToSet
  <2>3. i \notin Starts(rows) /\ j \notin Starts(rows)
    BY <2>1, <2>2, FollowsMeansChild
  <2>4. i # j /\ rows[i].prev = rows[j].prev
    BY <2>1, <2>2 DEF Follows
  <2> QED  BY <2>3, <2>4 DEF Forked
<1> QED  BY <1>2, <1>3

\* The messages that the path leaves out follow each other in a circle.
LEMMA LeftOutIsCycle ==
    ASSUME Sound(rows), ~Forked(rows), Visited(HistoryPath(rows)) # DOMAIN rows
    PROVE  HasCycle
<1> DEFINE s == rows
           p == HistoryPath(rows)
           out == DOMAIN s \ Visited(p)
           S == {s[i] : i \in out}
<1>1. /\ Adjacent(s, p) /\ Ended(s, p) /\ Len(p) \in Nat
      /\ \A k \in 1 .. Len(p) : p[k] \in DOMAIN s
      /\ Visited(p) \subseteq DOMAIN s /\ Starts(s) \subseteq Visited(p)
  BY PathOfHistory DEF Follow
<1> HIDE DEF p
<1>2. ASSUME NEW i \in out PROVE \E j \in out : Follows(s[i], s[j])
  <2>1. PICK j \in DOMAIN s : i \in Children(s, j) /\ Follows(s[i], s[j])
    BY <1>1, ChildOfStored
  <2>2. j \in out
    <3> SUFFICES ASSUME j \in Visited(p) PROVE FALSE
      OBVIOUS
    <3>1. PICK k \in 1 .. Len(p) : p[k] = j
      BY DEF Visited
    <3>2. k # Len(p)
      <4> SUFFICES ASSUME k = Len(p) PROVE FALSE
        OBVIOUS
      <4>1. p # <<>>
        BY <3>1
      <4> QED  BY <1>1, <2>1, <3>1, <4>1 DEF Ended
    <3>3. k + 1 \in 1 .. Len(p) /\ k < Len(p)
      BY <1>1, <3>1, <3>2
    <3>4. p[k + 1] \in Children(s, j)
      BY <1>1, <2>1, <3>1, <3>3 DEF Adjacent
    <3>5. p[k + 1] = i
      BY <2>1, <3>4, OneChild
    <3>6. i \in Visited(p)
      BY <3>3, <3>5 DEF Visited
    <3> QED  BY <3>6
  <2> QED  BY <2>1, <2>2
<1>3. out # {} /\ S \subseteq ToSet(s)
  BY <1>1 DEF ToSet, p
<1>4. \A m \in S : \E q \in S : Follows(m, q)
  BY <1>2
<1>5. S # {}
  BY <1>3
<1>6. S \in (SUBSET ToSet(rows)) \ {{}}
  BY <1>3, <1>5
<1> HIDE DEF S
<1> QED  BY <1>4, <1>6 DEF HasCycle

\* No message of a circle is on a path.
LEMMA CycleIsLeftOut ==
    ASSUME Sound(rows), HasCycle, Starts(rows) # {}
    PROVE  Visited(HistoryPath(rows)) # DOMAIN rows
<1> DEFINE s == rows
           p == HistoryPath(rows)
<1>1. /\ Chained(s, p) /\ Len(p) \in Nat /\ \A k \in 1 .. Len(p) : p[k] \in DOMAIN s
  BY PathOfHistory DEF Follow
<1>2. PICK S \in (SUBSET ToSet(rows)) \ {{}} : \A m \in S : \E q \in S : Follows(m, q)
  BY DEF HasCycle
<1> HIDE DEF p
<1> SUFFICES ASSUME Visited(p) = DOMAIN s PROVE FALSE
  BY DEF p
<1> DEFINE K == {k \in 1 .. Len(p) : s[p[k]] \in S}
<1>3. K # {} /\ K \in SUBSET Nat
  <2>1. PICK m \in S : TRUE
    BY <1>2
  <2>2. PICK i \in DOMAIN s : m = s[i]
    BY <1>2 DEF ToSet
  <2>3. PICK k \in 1 .. Len(p) : p[k] = i
    BY DEF Visited
  <2> QED  BY <2>2, <2>3
<1>4. PICK k \in K : \A l \in K : k <= l
  BY <1>3, LeastNumber
<1>5. k \in 1 .. Len(p) /\ s[p[k]] \in S /\ p[k] \in DOMAIN s
  BY <1>1
<1>6. PICK q \in S : Follows(s[p[k]], q)
  BY <1>2, <1>5
<1>7. PICK i \in DOMAIN s : q = s[i]
  BY <1>2 DEF ToSet
<1>8. p[k] \in Children(s, i) /\ p[k] \notin Starts(s)
  BY <1>5, <1>6, <1>7, FollowsMeansChild
<1>9. k > 1 /\ p[k] \in Children(s, p[k - 1])
  BY <1>1, <1>5, <1>8 DEF Chained
<1>10. k - 1 \in 1 .. Len(p)
  BY <1>1, <1>5, <1>9
<1>11. p[k - 1] = i
  BY <1>1, <1>8, <1>9, <1>10, OnePredecessor
<1>12. k - 1 \in K
  BY <1>7, <1>10, <1>11
<1> QED  BY <1>1, <1>4, <1>5, <1>12

\* A history is refused for a fork, or because of messages in a circle.
LEMMA OrderRefusesAmbiguity ==
    ASSUME Sound(rows)
    PROVE  RefusedIffAmbiguous
<1> DEFINE p == HistoryPath(rows)
<1>1. rows \in Seq(Row)
  BY DEF Sound
<1>2. CASE ~(Len(rows) > 1)
  BY <1>1, <1>2, ShortHistory DEF RefusedIffAmbiguous, history
<1>3. CASE Len(rows) > 1
  <2>1. history = Broken <=> (Forked(rows) \/ Starts(rows) = {} \/ Len(p) # Len(rows))
    BY <1>3, OrderOfHistory DEF history
  <2>2. Forked(rows) <=> HasFork
    BY ForkIsFound
  <2>3. Len(p) # Len(rows) <=> Visited(p) # DOMAIN rows
    BY PathOfHistory
  <2>4. ASSUME Starts(rows) = {} PROVE Visited(p) # DOMAIN rows \/ HasCycle
    <3>1. CASE Visited(p) # DOMAIN rows
      BY <3>1
    <3>2. CASE Visited(p) = DOMAIN rows
      <4>1. Chained(rows, p) /\ \A k \in 1 .. Len(p) : p[k] \in DOMAIN rows
        BY PathOfHistory DEF Follow
      <4>2. 1 \in 1 .. Len(p)
        <5>1. Len(p) = Len(rows) /\ Len(rows) \in Nat
          BY <1>1, <2>3, <3>2, LenProperties
        <5> QED  BY <1>3, <5>1
      <4>3. p[1] \in Starts(rows)
        BY <4>1, <4>2 DEF Chained
      <4> QED  BY <2>4, <4>3
    <3> QED  BY <3>1, <3>2
  <2>5. ASSUME ~Forked(rows), Visited(p) # DOMAIN rows PROVE HasCycle
    BY <2>5, LeftOutIsCycle
  <2>6. ASSUME HasCycle, Starts(rows) # {} PROVE Visited(p) # DOMAIN rows
    BY <2>6, CycleIsLeftOut
  <2> HIDE DEF p
  <2> QED  BY <1>3, <2>1, <2>2, <2>3, <2>4, <2>5, <2>6 DEF RefusedIffAmbiguous
<1> QED  BY <1>2, <1>3

\* With a single start, the segments are the walk from it.
LEMMA SingleSegment ==
    ASSUME NEW s, Sound(s), NEW a, Starts(s) = {a}
    PROVE  HistoryPath(s) = Walk(s)[<< <<>>, a >>]
<1> DEFINE X == 0 .. Len(s)
           w == Walk(s)[<< <<>>, a >>]
           Right(k) == Segments(s)[k] = IF k < a THEN <<>> ELSE w
           mu == [k \in X |-> k]
           Good == {k \in X : Right(k)}
<1>1. /\ s \in Seq(Row) /\ Len(s) \in Nat /\ DOMAIN s = 1 .. Len(s) /\ a \in 1 .. Len(s)
      /\ \A i \in DOMAIN s : IsStart(s, i) <=> i = a
  BY Indices DEF Sound, Starts
<1>2. /\ Segments(s)[0] = <<>>
      /\ \A k \in 1 .. Len(s) : Segments(s)[k] = From(s, Segments(s)[k - 1], k)
  BY <1>1, SegmentsDefinition
<1>3. <<>> # Broken
  <2>1. <<>> \in Seq(Row)
    BY EmptySeq
  <2> QED  BY <2>1, BrokenAssumption
<1> HIDE DEF w
<1>4. ASSUME NEW k \in 1 .. Len(s), Right(k - 1) PROVE Right(k)
  <2>1. Segments(s)[k] = From(s, Segments(s)[k - 1], k)
    BY <1>2
  <2>2. CASE k < a
    <3>1. Segments(s)[k - 1] = <<>> /\ ~IsStart(s, k)
      BY <1>1, <1>4, <2>2
    <3> QED  BY <2>1, <2>2, <3>1 DEF From
  <2>3. CASE k = a
    <3>1. Segments(s)[k - 1] = <<>> /\ IsStart(s, k)
      BY <1>1, <1>4, <2>3
    <3>2. From(s, <<>>, k) = w
      BY <1>3, <2>3, <3>1 DEF From, w
    <3> QED  BY <1>1, <2>1, <2>3, <3>1, <3>2
  <2>4. CASE k > a
    <3>1. Segments(s)[k - 1] = w /\ ~IsStart(s, k)
      BY <1>1, <1>4, <2>4
    <3> QED  BY <1>1, <2>1, <2>4, <3>1 DEF From
  <2> QED  BY <1>1, <2>2, <2>3, <2>4
<1>5. mu \in [X -> Nat]
  BY <1>1
<1>6. ASSUME NEW k \in X, \A y \in X : mu[y] < mu[k] => y \in Good PROVE k \in Good
  <2>1. CASE k = 0
    BY <1>1, <1>2, <2>1
  <2>2. CASE k # 0
    <3>1. k \in 1 .. Len(s) /\ k - 1 \in X /\ k - 1 < k
      BY <1>1, <2>2
    <3>2. mu[k - 1] = k - 1 /\ mu[k] = k
      BY <3>1
    <3>3. k - 1 \in Good
      <4> HIDE DEF X, mu, Good
      <4> QED  BY <1>6, <3>1, <3>2
    <3> QED  BY <1>4, <3>1, <3>3
  <2> QED  BY <2>1, <2>2
<1>7. X \subseteq Good
  <2> HIDE DEF X, mu, Good
  <2> QED  BY <1>5, <1>6, MeasureInduction
<1>8. Right(Len(s))
  BY <1>1, <1>7
<1> QED  BY <1>1, <1>8 DEF HistoryPath, w

\* The strict order shows a single segment as the history does, and nothing else.
LEMMA StrictOrder ==
    ASSUME Sound(rows)
    PROVE  StrictIsOneSegment
<1> DEFINE s == rows
           p == HistoryPath(s)
           Twice == \E i, j \in DOMAIN s : i # j /\ s[i].prev = s[j].prev
<1>1. /\ s \in Seq(Row) /\ Len(s) \in Nat /\ Starts(s) \subseteq DOMAIN s
      /\ IsFiniteSet(DOMAIN s) /\ Cardinality(DOMAIN s) = Len(s) /\ ~DuplicateHash(s)
  BY Indices DEF Sound
<1>2. /\ IsFiniteSet(Starts(s)) /\ Cardinality(Starts(s)) \in Nat
      /\ Cardinality(Starts(s)) <= Len(s)
  BY <1>1, FS_Subset, FS_CardinalityType
<1>3. CASE Len(s) <= 1
  <2>1. order_message_chain(s) = s /\ order_history(s) = s
    BY <1>3 DEF order_message_chain, order_history
  <2> QED  BY <1>1, <1>2, <1>3, <2>1 DEF StrictIsOneSegment, history
<1>4. CASE ~(Len(s) <= 1)
  <2>1. Len(s) > 1
    BY <1>1, <1>4
  <2>2. CASE Cardinality(Starts(s)) = 0
    <3>1. Starts(s) = {}
      BY <1>2, <2>2, FS_EmptySet
    <3>2. order_history(s) = Broken
      BY <2>1, <3>1, OrderOfHistory
    <3>3. order_message_chain(s) = Broken
      BY <1>4, <2>2 DEF order_message_chain
    <3> QED  BY <3>2, <3>3 DEF StrictIsOneSegment, history
  <2>3. CASE Cardinality(Starts(s)) = 1
    <3>1. PICK a : Starts(s) = {a}
      BY <1>2, <2>3, FS_Singleton
    <3>2. (CHOOSE i \in Starts(s) : TRUE) = a
      BY <3>1
    <3>3. Twice <=> Forked(s)
      <4>1. ASSUME NEW i \in DOMAIN s, NEW j \in DOMAIN s, i # j, s[i].prev = s[j].prev
            PROVE  i \notin Starts(s) /\ j \notin Starts(s)
        <5>1. IsStart(s, i) <=> IsStart(s, j)
          BY <4>1 DEF IsStart
        <5> QED  BY <3>1, <4>1, <5>1 DEF Starts
      <4> QED  BY <4>1 DEF Forked
    <3>4. p = Walk(s)[<< <<>>, a >>]
      BY <3>1, SingleSegment
    <3>5. order_message_chain(s) = IF Forked(s) THEN Broken ELSE Collect(s, p)
      <4> DEFINE first == CHOOSE i \in Starts(s) : TRUE
      <4>1. order_message_chain(s) =
              IF Len(s) <= 1 THEN s
              ELSE IF \/ DuplicateHash(s)
                      \/ Twice
                      \/ Cardinality(Starts(s)) # 1
                   THEN Broken
              ELSE Collect(s, Walk(s)[<< <<>>, first >>])
        BY Zenon DEF order_message_chain
      <4>2. Walk(s)[<< <<>>, first >>] = p
        <5>1. first = a
          BY <3>2
        <5> HIDE DEF first
        <5> QED  BY <3>4, <5>1
      <4> HIDE DEF first, Twice, p
      <4> QED  BY <1>1, <1>4, <2>3, <3>3, <4>1, <4>2
    <3>6. order_history(s) = IF Forked(s) THEN Broken ELSE Collect(s, p)
      BY <1>1, <1>4, <3>1 DEF order_history, HistoryPath
    <3> QED  BY <2>3, <3>5, <3>6 DEF StrictIsOneSegment, history
  <2>4. CASE Cardinality(Starts(s)) > 1
    <3>1. order_message_chain(s) = Broken
      BY <1>2, <1>4, <2>4 DEF order_message_chain
    <3> QED  BY <1>2, <2>4, <3>1 DEF StrictIsOneSegment
  <2> QED  BY <1>2, <2>2, <2>3, <2>4
<1> QED  BY <1>3, <1>4

----------------------------------------------------------------------------
(* What holds while messages are stored and a history is read. *)

\* The verdicts of a listing, with the reasons that stay true.
Verdicts ==
    \A h \in DOMAIN listing.verdict :
        \/ listing.verdict[h] = "valid" /\ IsTarget(reply[h])
        \/ /\ listing.verdict[h] = "invalid"
           /\ reply[h].uuid \in elsewhere \/ reply[h].uuid # reply[h].hash
        \/ listing.verdict[h] = "unresolved" /\ reply[h].uuid \notin Stored(listing.shown)

ListingInv ==
    listing # NoListing =>
        /\ listing = [shown |-> listing.shown, verdict |-> listing.verdict]
        /\ Stored(listing.shown) \subseteq Stored(rows)
        /\ Verdicts

HistoryInv ==
    /\ Sound(rows)
    /\ elsewhere \cap Stored(rows) = {}
    /\ ListingInv

\* A message that is inserted among the stored ones leaves the others there.
LEMMA InsertedMessage ==
    ASSUME NEW s, Sound(s), NEW m \in Row, m.hash \notin Stored(s),
           NEW i \in 1 .. Len(s) + 1
    PROVE  LET t == InsertAt(s, i, m)
           IN  /\ Sound(t) /\ Len(t) = Len(s) + 1
               /\ ToSet(t) = ToSet(s) \cup {m} /\ Stored(t) = Stored(s) \cup {m.hash}
               /\ \A l \in 1 .. Len(s) : t[IF l < i THEN l ELSE l + 1] = s[l]
<1> DEFINE n == Len(s)
           before == SubSeq(s, 1, i - 1)
           after == SubSeq(s, i, n)
           t == InsertAt(s, i, m)
<1>1. /\ s \in Seq(Row) /\ n \in Nat /\ DOMAIN s = 1 .. n /\ i \in Nat
      /\ \A k \in 1 .. n : s[k] \in Row
  BY Indices DEF Sound
<1>2. /\ before \in Seq(Row) /\ Len(before) = i - 1
      /\ \A k \in 1 .. i - 1 : before[k] = s[k]
  <2>1. 1 \in Int /\ i - 1 \in Int /\ \A k \in 1 .. i - 1 : s[k] \in Row
    BY <1>1
  <2> HIDE DEF n
  <2> QED  BY <1>1, <2>1, SubSeqProperties
<1>3. /\ after \in Seq(Row) /\ Len(after) = n - i + 1
      /\ \A k \in 1 .. n - i + 1 : after[k] = s[i + k - 1]
  <2>1. i \in Int /\ n \in Int /\ \A k \in i .. n : s[k] \in Row
    BY <1>1
  <2>2. i <= n \/ (i = n + 1 /\ n - i + 1 = 0)
    BY <1>1
  <2> HIDE DEF n
  <2> QED  BY <2>1, <2>2, SubSeqProperties
<1> HIDE DEF before, after
<1>4. <<m>> \in Seq(Row) /\ Len(<<m>>) = 1 /\ <<m>>[1] = m
  OBVIOUS
<1> DEFINE front == before \o <<m>>
<1>5. /\ front \in Seq(Row) /\ Len(front) = i
      /\ \A k \in 1 .. i : front[k] = IF k <= i - 1 THEN before[k] ELSE <<m>>[k - (i - 1)]
  BY <1>1, <1>2, <1>4, ConcatProperties
<1>6. front[i] = m /\ \A k \in 1 .. i - 1 : front[k] = s[k]
  BY <1>1, <1>2, <1>4, <1>5
<1> HIDE DEF front
<1>7. t = front \o after
  BY DEF InsertAt, before, after, front
<1> HIDE DEF t, n
<1>8. /\ t \in Seq(Row) /\ Len(t) = n + 1
      /\ \A k \in 1 .. n + 1 : t[k] = IF k <= i THEN front[k] ELSE after[k - i]
  <2>1. Len(front) + Len(after) = n + 1
    BY <1>1, <1>3, <1>5
  <2>2. /\ t \in Seq(Row) /\ Len(t) = Len(front) + Len(after)
        /\ \A k \in 1 .. Len(front) + Len(after) :
              t[k] = IF k <= Len(front) THEN front[k] ELSE after[k - Len(front)]
    BY <1>3, <1>5, <1>7, ConcatProperties
  <2> QED  BY <1>5, <2>1, <2>2
<1>9. /\ DOMAIN t = 1 .. n + 1
      /\ t[i] = m
      /\ \A k \in 1 .. n + 1 : k < i => t[k] = s[k]
      /\ \A k \in 1 .. n + 1 : k > i => t[k] = s[k - 1]
  <2>1. DOMAIN t = 1 .. n + 1
    BY <1>8, LenProperties
  <2>2. i \in 1 .. n + 1
    BY DEF n
  <2>3. ASSUME NEW k \in 1 .. n + 1, k > i PROVE t[k] = s[k - 1]
    <3>1. PICK l \in 1 .. n - i + 1 : l = k - i /\ i + l - 1 = k - 1
      <4>1. k - i \in 1 .. n - i + 1 /\ i + (k - i) - 1 = k - 1
        BY <1>1, <2>3
      <4> QED  BY <4>1
    <3>2. t[k] = after[l]
      BY <1>1, <1>8, <2>3, <3>1
    <3>3. after[l] = s[i + l - 1]
      BY <1>3
    <3> QED  BY <3>1, <3>2, <3>3
  <2>4. t[i] = m
    BY <1>1, <1>6, <1>8, <2>2
  <2>5. ASSUME NEW k \in 1 .. n + 1, k < i PROVE t[k] = s[k]
    <3>1. k \in 1 .. i - 1 /\ k <= i
      BY <1>1, <2>5
    <3>2. t[k] = front[k]
      BY <1>8, <3>1
    <3> QED  BY <1>6, <3>1, <3>2
  <2> QED  BY <2>1, <2>3, <2>4, <2>5
<1>10. \A k \in 1 .. n + 1 : k = i \/ \E l \in 1 .. n : t[k] = s[l] /\ (k < i => l = k) /\ (k > i => l = k - 1)
  <2> SUFFICES ASSUME NEW k \in 1 .. n + 1, k # i
               PROVE  \E l \in 1 .. n : t[k] = s[l] /\ (k < i => l = k) /\ (k > i => l = k - 1)
    OBVIOUS
  <2>1. CASE k < i
    <3>1. k \in 1 .. n /\ i <= n + 1
      BY <1>1, <2>1 DEF n
    <3> QED  BY <1>1, <1>9, <2>1, <3>1
  <2>2. CASE k > i
    <3>1. k - 1 \in 1 .. n
      BY <1>1, <2>2
    <3> QED  BY <1>1, <1>9, <2>2, <3>1
  <2> QED  BY <1>1, <2>1, <2>2
<1>11. \A l \in 1 .. n : LET k == IF l < i THEN l ELSE l + 1 IN k \in 1 .. n + 1 /\ t[k] = s[l]
  <2> SUFFICES ASSUME NEW l \in 1 .. n
               PROVE  LET k == IF l < i THEN l ELSE l + 1 IN k \in 1 .. n + 1 /\ t[k] = s[l]
    OBVIOUS
  <2>1. CASE l < i
    BY <1>1, <1>9, <2>1
  <2>2. CASE ~(l < i)
    <3>1. l + 1 \in 1 .. n + 1 /\ l + 1 > i /\ (l + 1) - 1 = l
      BY <1>1, <2>2
    <3> QED  BY <1>9, <2>2, <3>1
  <2> QED  BY <2>1, <2>2
<1>12. i \in 1 .. n + 1
  BY DEF n
<1>13. ToSet(t) = ToSet(s) \cup {m}
  <2>1. ToSet(t) = {t[k] : k \in 1 .. n + 1} /\ ToSet(s) = {s[k] : k \in 1 .. n}
    BY <1>1, <1>9 DEF ToSet
  <2>2. \A k \in 1 .. n + 1 : t[k] = m \/ \E l \in 1 .. n : t[k] = s[l]
    BY <1>9, <1>10
  <2> QED  BY <1>9, <1>11, <1>12, <2>1, <2>2
<1>14. Stored(t) = Stored(s) \cup {m.hash}
  <2>1. Stored(t) = {t[k].hash : k \in 1 .. n + 1} /\ Stored(s) = {s[k].hash : k \in 1 .. n}
    BY <1>1, <1>9 DEF Stored
  <2>2. \A k \in 1 .. n + 1 : t[k] = m \/ \E l \in 1 .. n : t[k] = s[l]
    BY <1>9, <1>10
  <2> QED  BY <1>9, <1>11, <1>12, <2>1, <2>2
<1>15. ~DuplicateHash(t)
  <2> SUFFICES ASSUME NEW j \in 1 .. n + 1, NEW k \in 1 .. n + 1, t[j].hash = t[k].hash, j # k
               PROVE  FALSE
    BY <1>9 DEF DuplicateHash
  <2>1. \A l \in 1 .. n : s[l].hash # m.hash
    BY <1>1 DEF Stored
  <2>2. j # i /\ k # i
    BY <1>9, <1>10, <2>1
  <2>3. PICK a \in 1 .. n : t[j] = s[a] /\ (j < i => a = j) /\ (j > i => a = j - 1)
    BY <1>10, <2>2
  <2>4. PICK b \in 1 .. n : t[k] = s[b] /\ (k < i => b = k) /\ (k > i => b = k - 1)
    BY <1>10, <2>2
  <2>5. a = b
    BY <1>1, <2>3, <2>4 DEF Sound, DuplicateHash
  <2> QED  BY <1>1, <2>2, <2>3, <2>4, <2>5
<1> QED  BY <1>8, <1>11, <1>13, <1>14, <1>15 DEF Sound, t, n

\* A late message moves nothing but what follows it: of any two messages that
\* come with all their predecessors, the order is the same.
LEMMA LateMessageKeepsOrder ==
    ASSUME NEW s, Sound(s), NEW m \in Row, m.hash \notin Stored(s),
           NEW i \in 1 .. Len(s) + 1, NEW t, t = InsertAt(s, i, m),
           NEW before, before = order_history(s), before # Broken,
           NEW after, after = order_history(t), after # Broken
    PROVE  KeepsOrder(before, after)
<1> DEFINE n == Len(s)
           At(k) == Place(after, before[k])
<1>1. /\ Sound(t) /\ Len(t) = n + 1 /\ ToSet(t) = ToSet(s) \cup {m}
      /\ Stored(t) = Stored(s) \cup {m.hash}
      /\ \A a \in 1 .. n : t[IF a < i THEN a ELSE a + 1] = s[a]
  BY InsertedMessage
<1>2. n \in Nat /\ DOMAIN s = 1 .. n /\ Starts(s) \subseteq 1 .. n /\ DOMAIN t = 1 .. n + 1
  BY <1>1, Indices DEF Sound
<1> SUFFICES ASSUME NEW others \in SUBSET ToSet(before),
                    \A q \in others, p \in ToSet(after) : Follows(q, p) => p \in others,
                    NEW m1 \in others, NEW m2 \in others
             PROVE  Place(before, m1) < Place(before, m2) <=> Place(after, m1) < Place(after, m2)
  BY DEF KeepsOrder
<1>3. /\ DOMAIN before = 1 .. n
      /\ \A j, k \in 1 .. n : before[j] = before[k] => j = k
      /\ \A k \in 1 .. n : Place(before, before[k]) = k
      /\ ToSet(before) = ToSet(s)
  BY HistoryPlaces, OrderFollowsChain
<1>4. /\ DOMAIN after = 1 .. n + 1
      /\ \A k \in 1 .. n + 1 : Place(after, after[k]) = k
      /\ ToSet(after) = ToSet(t)
      /\ \A j, k \in 1 .. n + 1 : (j # k /\ Follows(after[k], after[j])) => k = j + 1
  <2>1. /\ DOMAIN after = 1 .. Len(t)
        /\ \A k \in 1 .. Len(t) : Place(after, after[k]) = k
    BY <1>1, HistoryPlaces
  <2>2. /\ ToSet(after) = ToSet(t)
        /\ \A j, k \in DOMAIN after : (j # k /\ Follows(after[k], after[j])) => k = j + 1
    BY <1>1, OrderFollowsChain
  <2> QED  BY <1>1, <2>1, <2>2
<1>5. ASSUME NEW k \in 1 .. n
      PROVE  At(k) \in 1 .. n + 1 /\ after[At(k)] = before[k]
  <2>1. before[k] \in ToSet(after)
    BY <1>1, <1>3, <1>4 DEF ToSet
  <2>2. PICK l \in 1 .. n + 1 : after[l] = before[k]
    BY <1>4, <2>1 DEF ToSet
  <2> QED  BY <1>4, <2>2
<1>6. \A j, k \in 1 .. n : At(j) = At(k) => j = k
  BY <1>3, <1>5
<1> HIDE DEF At
<1> DEFINE K == {k \in 1 .. n : before[k] \in others}
           Heads == {s[a] : a \in Starts(s)}
<1>7. CASE n <= 1
  <2>1. m1 = m2
    <3>1. PICK k \in 1 .. n, l \in 1 .. n : m1 = before[k] /\ m2 = before[l]
      BY <1>3 DEF ToSet
    <3> QED  BY <1>2, <1>7, <3>1
  <2>2. PICK k \in 1 .. n : m1 = before[k]
    BY <1>3 DEF ToSet
  <2>3. Place(before, m1) = k /\ Place(after, m1) = At(k) /\ At(k) \in 1 .. n + 1
    BY <1>3, <1>5, <2>2 DEF At
  <2> QED  BY <1>2, <2>1, <2>3
<1>8. CASE n > 1
  <2>1. ASSUME NEW k \in K, before[k] \notin Heads
        PROVE  k - 1 \in K /\ At(k) = At(k - 1) + 1
    <3> DEFINE p == HistoryPath(s)
    <3>1. Chained(s, p) /\ Len(p) = n /\ \A l \in 1 .. n : before[l] = s[p[l]] /\ p[l] \in DOMAIN s
      BY <1>8, PathOfHistory, PlaceInHistory DEF Follow
    <3> HIDE DEF p
    <3>2. k > 1 /\ p[k] \in Children(s, p[k - 1])
      <4>1. p[k] \notin Starts(s)
        BY <2>1, <3>1
      <4> QED  BY <3>1, <4>1 DEF Chained
    <3>3. k - 1 \in 1 .. n
      BY <1>2, <3>2
    <3>4. Follows(before[k], before[k - 1])
      BY <3>1, <3>2, <3>3 DEF Children, Follows
    <3>5. before[k - 1] \in ToSet(after) /\ before[k - 1] \in others
      <4>1. before[k - 1] \in ToSet(after)
        BY <1>1, <1>3, <1>4, <3>3 DEF ToSet
      <4> QED  BY <3>4, <4>1
    <3>6. At(k - 1) # At(k)
      BY <1>2, <1>6, <3>3
    <3>7. At(k) = At(k - 1) + 1
      <4>1. Follows(after[At(k)], after[At(k - 1)])
        BY <1>5, <3>3, <3>4
      <4> QED  BY <1>4, <1>5, <3>3, <3>6, <4>1
    <3> QED  BY <3>3, <3>5, <3>7
  <2>2. ASSUME NEW k \in K, NEW l \in K, before[k] \in Heads, before[l] \in Heads
        PROVE  k < l <=> At(k) < At(l)
    <3> DEFINE later(a) == IF a < i THEN a ELSE a + 1
    <3>1. PICK a \in Starts(s), b \in Starts(s) : before[k] = s[a] /\ before[l] = s[b]
      BY <2>2
    <3>2. k < l <=> a < b
      BY <1>3, <3>1, OrderKeepsStarts
    <3>3. ASSUME NEW c \in Starts(s), s[c] \in others
          PROVE  later(c) \in Starts(t) /\ t[later(c)] = s[c]
      <4>1. later(c) \in DOMAIN t /\ t[later(c)] = s[c]
        BY <1>1, <1>2
      <4>2. s[c].prev # m.hash
        <5> SUFFICES ASSUME Follows(s[c], m) PROVE FALSE
          BY DEF Follows
        <5>1. m \in others
          BY <1>1, <1>4, <3>3
        <5>2. m \in ToSet(s)
          BY <1>3, <5>1
        <5>3. PICK d \in DOMAIN s : s[d] = m
          BY <5>2 DEF ToSet
        <5> QED  BY <5>3 DEF Stored
      <4>3. s[c].prev = Zero \/ s[c].prev \notin Stored(s)
        BY DEF Starts, IsStart
      <4> QED  BY <1>1, <4>1, <4>2, <4>3 DEF Starts, IsStart
    <3>4. later(a) < later(b) <=> At(k) < At(l)
      <4>1. /\ later(a) \in Starts(t) /\ t[later(a)] = before[k]
            /\ later(b) \in Starts(t) /\ t[later(b)] = before[l]
        BY <3>1, <3>3
      <4> HIDE DEF later
      <4> QED  BY <1>1, <4>1, OrderKeepsStarts DEF At
    <3>5. a < b <=> later(a) < later(b)
      BY <1>2
    <3> QED  BY <3>2, <3>4, <3>5
  <2> DEFINE X == K \X K
             mu == [v \in X |-> v[1] + v[2]]
             Same(v) == v[1] < v[2] <=> At(v[1]) < At(v[2])
             Good == {v \in X : Same(v)}
  <2>3. mu \in [X -> Nat]
    BY <1>2
  <2>4. ASSUME NEW k \in K, NEW l \in K,
               \A y \in X : mu[y] < mu[<<k, l>>] => y \in Good
        PROVE  k < l <=> At(k) < At(l)
    <3>1. /\ k \in Nat /\ l \in Nat /\ At(k) \in Nat /\ At(l) \in Nat
          /\ At(k) = At(l) => k = l
      BY <1>2, <1>5, <1>6
    <3>2. CASE k = l
      BY <3>1, <3>2
    <3>3. CASE k # l /\ before[k] \notin Heads
      <4>1. k - 1 \in K /\ At(k) = At(k - 1) + 1 /\ k - 1 \in Nat /\ At(k - 1) \in Nat
        BY <1>2, <1>5, <2>1, <3>3
      <4>2. CASE k - 1 = l
        BY <3>1, <4>1, <4>2
      <4>3. CASE k - 1 # l
        <5>1. mu[<<k - 1, l>>] < mu[<<k, l>>]
          <6>1. <<k - 1, l>> \in X /\ <<k, l>> \in X
            BY <4>1
          <6>2. mu[<<k - 1, l>>] = (k - 1) + l /\ mu[<<k, l>>] = k + l
            BY <6>1
          <6> QED  BY <3>1, <6>2
        <5>2. <<k - 1, l>> \in Good
          <6>1. <<k - 1, l>> \in X
            BY <4>1
          <6> HIDE DEF X, mu, Good
          <6> QED  BY <2>4, <5>1, <6>1
        <5>3. k - 1 < l <=> At(k - 1) < At(l)
          BY <5>2
        <5> QED  BY <3>1, <3>3, <4>1, <4>3, <5>3
      <4> QED  BY <4>2, <4>3
    <3>4. CASE k # l /\ before[l] \notin Heads
      <4>1. l - 1 \in K /\ At(l) = At(l - 1) + 1 /\ l - 1 \in Nat /\ At(l - 1) \in Nat
            /\ (At(l - 1) = At(k) => l - 1 = k)
        BY <1>2, <1>5, <1>6, <2>1, <3>4
      <4>2. CASE l - 1 = k
        BY <3>1, <4>1, <4>2
      <4>3. CASE l - 1 # k
        <5>1. mu[<<k, l - 1>>] < mu[<<k, l>>]
          <6>1. <<k, l - 1>> \in X /\ <<k, l>> \in X
            BY <4>1
          <6>2. mu[<<k, l - 1>>] = k + (l - 1) /\ mu[<<k, l>>] = k + l
            BY <6>1
          <6> QED  BY <3>1, <6>2
        <5>2. <<k, l - 1>> \in Good
          <6>1. <<k, l - 1>> \in X
            BY <4>1
          <6> HIDE DEF X, mu, Good
          <6> QED  BY <2>4, <5>1, <6>1
        <5>3. k < l - 1 <=> At(k) < At(l - 1)
          BY <5>2
        <5> QED  BY <3>1, <3>4, <4>1, <4>3, <5>3
      <4> QED  BY <4>2, <4>3
    <3>5. CASE before[k] \in Heads /\ before[l] \in Heads
      BY <2>2, <3>5
    <3> QED  BY <3>2, <3>3, <3>4, <3>5
  <2>5. X \subseteq Good
    <3>1. ASSUME NEW v \in X, \A y \in X : mu[y] < mu[v] => y \in Good PROVE v \in Good
      <4>1. v = <<v[1], v[2]>> /\ v[1] \in K /\ v[2] \in K
        OBVIOUS
      <4>2. v[1] < v[2] <=> At(v[1]) < At(v[2])
        <5> HIDE DEF X, mu, Good, K
        <5> QED  BY <2>4, <3>1, <4>1
      <4> QED  BY <4>2
    <3> HIDE DEF X, mu, Good
    <3> QED  BY <2>3, <3>1, MeasureInduction
  <2>6. PICK k \in K, l \in K : m1 = before[k] /\ m2 = before[l]
    BY <1>3 DEF ToSet
  <2>7. <<k, l>> \in X /\ <<k, l>>[1] = k /\ <<k, l>>[2] = l
    BY <2>6
  <2>8. k < l <=> At(k) < At(l)
    BY <2>5, <2>7
  <2>9. Place(before, m1) = k /\ Place(before, m2) = l
    BY <1>3, <2>6
  <2> QED  BY <2>6, <2>8, <2>9 DEF At
<1> QED  BY <1>2, <1>7, <1>8

LEMMA InitHolds == Init => HistoryInv
<1> SUFFICES ASSUME Init PROVE HistoryInv
  OBVIOUS
<1>1. rows = <<>> /\ elsewhere = {} /\ listing = NoListing
  BY DEF Init
<1>2. <<>> \in Seq(Row)
  BY EmptySeq
<1>3. ~DuplicateHash(<<>>)
  BY DEF DuplicateHash
<1>4. Sound(rows)
  BY <1>1, <1>2, <1>3 DEF Sound
<1> QED  BY <1>1, <1>4 DEF HistoryInv, ListingInv

\* Messages are only added.
LEMMA StoredIsKept ==
    ASSUME HistoryInv, [Next]_vars
    PROVE  /\ Sound(rows)' /\ (elsewhere \cap Stored(rows) = {})'
           /\ Stored(rows) \subseteq Stored(rows') /\ elsewhere \subseteq elsewhere'
           /\ rows' # rows =>
                Len(rows') = Len(rows) + 1 /\ ToSet(rows) \subseteq ToSet(rows')
<1> USE DEF HistoryInv
<1>1. ASSUME NEW m \in Row, Store(m)
      PROVE  /\ Sound(rows)' /\ (elsewhere \cap Stored(rows) = {})'
             /\ Stored(rows) \subseteq Stored(rows') /\ elsewhere \subseteq elsewhere'
             /\ Len(rows') = Len(rows) + 1 /\ ToSet(rows) \subseteq ToSet(rows')
  <2>1. m.hash \notin Stored(rows) /\ m.hash \notin elsewhere /\ elsewhere' = elsewhere
    BY <1>1 DEF Store, Unstored
  <2>2. PICK i \in 1 .. Len(rows) + 1 : rows' = InsertAt(rows, i, m)
    BY <1>1 DEF Store, Insert
  <2>3. /\ Sound(rows') /\ Len(rows') = Len(rows) + 1
        /\ ToSet(rows') = ToSet(rows) \cup {m} /\ Stored(rows') = Stored(rows) \cup {m.hash}
    BY <2>1, <2>2, InsertedMessage
  <2> QED  BY <2>1, <2>3
<1>2. ASSUME NEW h \in Hash, StoreElsewhere(h)
      PROVE  /\ Sound(rows)' /\ (elsewhere \cap Stored(rows) = {})'
             /\ rows' = rows /\ elsewhere \subseteq elsewhere'
  <2>1. h \notin Stored(rows) /\ rows' = rows /\ elsewhere' = elsewhere \cup {h}
    BY <1>2 DEF StoreElsewhere, Unstored
  <2> QED  BY <2>1
<1>3. ASSUME Read \/ Resolve \/ Close \/ UNCHANGED vars
      PROVE  rows' = rows /\ elsewhere' = elsewhere
  BY <1>3 DEF Read, Resolve, Close, vars
<1> QED  BY <1>1, <1>2, <1>3 DEF Next

LEMMA ListingHolds ==
    ASSUME HistoryInv, [Next]_vars
    PROVE  ListingInv'
<1>1. /\ Sound(rows) /\ (elsewhere \cap Stored(rows) = {}) /\ ListingInv
      /\ Stored(rows) \subseteq Stored(rows') /\ elsewhere \subseteq elsewhere'
  BY StoredIsKept DEF HistoryInv
<1>2. ASSUME UNCHANGED <<reply, listing>>
      PROVE  ListingInv'
  BY <1>1, <1>2 DEF ListingInv, Verdicts, IsTarget
<1>3. ASSUME Read PROVE ListingInv'
  <2>1. /\ history # Broken /\ rows' = rows
        /\ listing' = [shown |-> history, verdict |-> <<>>]
    BY <1>3 DEF Read
  <2>2. listing'.shown = history /\ DOMAIN listing'.verdict = {}
    BY <2>1
  <2>3. ToSet(history) = ToSet(rows)
    BY <1>1, <2>1, OrderFollowsChain DEF history
  <2>4. Stored(history) \subseteq Stored(rows)
    <3> SUFFICES ASSUME NEW i \in DOMAIN history
                 PROVE  \E j \in DOMAIN rows : history[i] = rows[j]
      BY DEF Stored
    <3> QED  BY <2>3 DEF ToSet
  <2>5. Verdicts'
    BY <2>2 DEF Verdicts
  <2> QED  BY <2>1, <2>2, <2>4, <2>5 DEF ListingInv
<1>4. ASSUME Resolve PROVE ListingInv'
  <2> DEFINE h == Head(Unresolved(listing.shown, listing.verdict)).hash
  <2>1. /\ listing # NoListing /\ rows' = rows /\ reply' = reply /\ elsewhere' = elsewhere
    BY <1>4 DEF Resolve
  <2>2. /\ listing = [shown |-> listing.shown, verdict |-> listing.verdict]
        /\ Stored(listing.shown) \subseteq Stored(rows) /\ Verdicts
    BY <1>1, <2>1 DEF ListingInv
  <2> DEFINE verdict == [g \in DOMAIN listing.verdict \cup {h} |->
                           IF g = h THEN Verdict(reply[h]) ELSE listing.verdict[g]]
  <2>3. listing' = [listing EXCEPT !.verdict = verdict]
    BY <1>4 DEF Resolve
  <2>4. /\ DOMAIN verdict = DOMAIN listing.verdict \cup {h}
        /\ \A g \in DOMAIN verdict :
              verdict[g] = IF g = h THEN Verdict(reply[h]) ELSE listing.verdict[g]
    OBVIOUS
  <2> HIDE DEF verdict, h
  <2>5. listing' = [shown |-> listing.shown, verdict |-> verdict]
    BY <2>2, <2>3
  <2>6. listing'.shown = listing.shown /\ listing'.verdict = verdict
    BY <2>5
  <2>7. Verdicts'
    <3> SUFFICES ASSUME NEW g \in DOMAIN verdict
                 PROVE  \/ verdict[g] = "valid" /\ IsTarget(reply[g])
                        \/ /\ verdict[g] = "invalid"
                           /\ reply[g].uuid \in elsewhere \/ reply[g].uuid # reply[g].hash
                        \/ verdict[g] = "unresolved" /\ reply[g].uuid \notin Stored(listing.shown)
      BY <2>1, <2>6 DEF Verdicts, IsTarget
    <3>1. CASE g = h
      BY <2>2, <2>4, <3>1 DEF Verdict, IsTarget
    <3>2. CASE g # h
      BY <2>2, <2>4, <3>2 DEF Verdicts
    <3> QED  BY <3>1, <3>2
  <2> QED  BY <2>1, <2>2, <2>5, <2>6, <2>7 DEF ListingInv
<1>5. ASSUME Close PROVE ListingInv'
  BY <1>5 DEF Close, ListingInv
<1> QED  BY <1>2, <1>3, <1>4, <1>5 DEF Next, Store, StoreElsewhere, vars

\* What a listing was made of stays true while messages are stored.
THEOREM HistoryInvCorrect == Spec => []HistoryInv
<1>1. Init => HistoryInv
  BY InitHolds
<1>2. HistoryInv /\ [Next]_vars => HistoryInv'
  BY StoredIsKept, ListingHolds DEF HistoryInv
<1> QED  BY <1>1, <1>2, PTL DEF Spec

----------------------------------------------------------------------------
(* What `history` and `chat` show. *)

\* A history that is shown has every stored message once, each right after its
\* predecessor: order_history of any conversation in any fallback order.
THEOREM HistoryFollowsChainAlways == Spec => []HistoryFollowsChain
<1>1. HistoryInv => HistoryFollowsChain
  BY OrderFollowsChain DEF HistoryInv, HistoryFollowsChain, history
<1> QED  BY <1>1, HistoryInvCorrect, PTL

\* Its segments come in the fallback order of their heads.
THEOREM SegmentsInFallbackOrderAlways == Spec => []SegmentsInFallbackOrder
<1>1. HistoryInv => SegmentsInFallbackOrder
  <2> SUFFICES ASSUME HistoryInv, history # Broken, NEW i \in Starts(rows), NEW j \in Starts(rows)
               PROVE  Place(rows, rows[i]) < Place(rows, rows[j]) <=>
                          Place(history, rows[i]) < Place(history, rows[j])
    BY DEF SegmentsInFallbackOrder
  <2>1. Sound(rows) /\ i \in DOMAIN rows /\ j \in DOMAIN rows
    BY DEF HistoryInv, Starts
  <2>2. Place(rows, rows[i]) = i /\ Place(rows, rows[j]) = j
    BY <2>1, StoredPlaces
  <2>3. i < j <=> Place(history, rows[i]) < Place(history, rows[j])
    BY <2>1, OrderKeepsStarts DEF history
  <2> QED  BY <2>2, <2>3
<1> QED  BY <1>1, HistoryInvCorrect, PTL

\* It is refused exactly when messages fork or follow each other in a circle:
\* the counts that order_history compares stand for that.
THEOREM RefusedIffAmbiguousAlways == Spec => []RefusedIffAmbiguous
<1>1. HistoryInv => RefusedIffAmbiguous
  BY OrderRefusesAmbiguity DEF HistoryInv
<1> QED  BY <1>1, HistoryInvCorrect, PTL

\* The strict order_message_chain of storage agrees with the history of a
\* single segment, and refuses any other conversation.
THEOREM StrictIsOneSegmentAlways == Spec => []StrictIsOneSegment
<1>1. HistoryInv => StrictIsOneSegment
  BY StrictOrder DEF HistoryInv
<1> QED  BY <1>1, HistoryInvCorrect, PTL

\* The verdicts on replies stay true while messages are stored between the
\* lookups of message_history and after them.
THEOREM VerdictsHoldAlways == Spec => []VerdictsHold
<1>1. HistoryInv => VerdictsHold
  <2> SUFFICES ASSUME HistoryInv, listing # NoListing, NEW h \in DOMAIN listing.verdict
               PROVE  CASE listing.verdict[h] = "valid" -> IsTarget(reply[h])
                        [] listing.verdict[h] = "invalid" -> ~IsTarget(reply[h])
                        [] listing.verdict[h] = "unresolved" ->
                              reply[h].uuid \notin Stored(listing.shown)
    BY DEF VerdictsHold
  <2>1. elsewhere \cap Stored(rows) = {}
    BY DEF HistoryInv
  <2>2. \/ listing.verdict[h] = "valid" /\ IsTarget(reply[h])
        \/ /\ listing.verdict[h] = "invalid"
           /\ reply[h].uuid \in elsewhere \/ reply[h].uuid # reply[h].hash
        \/ listing.verdict[h] = "unresolved" /\ reply[h].uuid \notin Stored(listing.shown)
    BY DEF HistoryInv, ListingInv, Verdicts
  <2>3. (reply[h].uuid \in elsewhere \/ reply[h].uuid # reply[h].hash) => ~IsTarget(reply[h])
    BY <2>1 DEF IsTarget
  <2> QED  BY <2>2, <2>3
<1> QED  BY <1>1, HistoryInvCorrect, PTL

\* No message that arrives later resolves a fork or a circle: what made a
\* history ambiguous stays stored.
THEOREM RefusedForeverAlways == Spec => RefusedForever
<1>1. HistoryInv /\ [Next]_vars /\ RefusedIffAmbiguous /\ RefusedIffAmbiguous'
         => [history = Broken => history' = Broken]_rows
  <2> SUFFICES ASSUME HistoryInv, [Next]_vars, RefusedIffAmbiguous, RefusedIffAmbiguous',
                      history = Broken, rows' # rows
               PROVE  history' = Broken
    OBVIOUS
  <2>1. Len(rows') = Len(rows) + 1 /\ ToSet(rows) \subseteq ToSet(rows')
    BY StoredIsKept
  <2>2. Len(rows) \in Nat
    BY LenProperties DEF HistoryInv, Sound
  <2>3. Len(rows) > 1 /\ (HasFork \/ HasCycle)
    BY DEF RefusedIffAmbiguous
  <2>4. HasFork => HasFork'
    BY <2>1 DEF HasFork
  <2>5. HasCycle => HasCycle'
    <3> SUFFICES ASSUME HasCycle PROVE HasCycle'
      OBVIOUS
    <3>1. PICK S \in (SUBSET ToSet(rows)) \ {{}} : \A m \in S : \E p \in S : Follows(m, p)
      BY DEF HasCycle
    <3>2. S \in (SUBSET ToSet(rows')) \ {{}}
      BY <2>1
    <3> QED  BY <3>1, <3>2 DEF HasCycle
  <2>6. Len(rows') > 1
    BY <2>1, <2>2, <2>3
  <2> QED  BY <2>3, <2>4, <2>5, <2>6 DEF RefusedIffAmbiguous
<1> QED  BY <1>1, HistoryInvCorrect, RefusedIffAmbiguousAlways, PTL DEF Spec, RefusedForever

\* A late message moves nothing in a history that was already shown but itself
\* and what follows it, wherever in the fallback order it is stored.
THEOREM LateMessageMovesWhatFollowsAlways == Spec => LateMessageMovesWhatFollows
<1> DEFINE Kept == \A before \in {history} \ {Broken}, after \in {history'} \ {Broken} :
                       KeepsOrder(before, after)
<1>1. HistoryInv /\ [Next]_vars => [Kept]_rows
  <2> SUFFICES ASSUME HistoryInv, [Next]_vars, rows' # rows, history # Broken, history' # Broken
               PROVE  KeepsOrder(history, history')
    OBVIOUS
  <2>1. PICK m \in Row : Store(m)
    BY DEF Next, StoreElsewhere, Read, Resolve, Close, vars
  <2>2. m.hash \notin Stored(rows) /\ Sound(rows)
    BY <2>1 DEF Store, Unstored, HistoryInv
  <2>3. PICK i \in 1 .. Len(rows) + 1 : rows' = InsertAt(rows, i, m)
    BY <2>1 DEF Store, Insert
  <2> QED  BY <2>2, <2>3, LateMessageKeepsOrder DEF history
<1> QED  BY <1>1, HistoryInvCorrect, PTL DEF Spec, LateMessageMovesWhatFollows
=============================================================================
