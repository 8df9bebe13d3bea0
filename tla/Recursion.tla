------------------------------ MODULE Recursion ------------------------------
(* Functions that are defined by recursion, in any module. Such a definition *)
(* is a CHOOSE: that a function with its equations exists needs a proof, from *)
(* a measure that is less at each call.                                       *)
EXTENDS Naturals, WellFoundedInduction, TLAPS

\* A set of numbers has a least element: there is a least counterexample.
LEMMA LeastNumber ==
    ASSUME NEW S \in SUBSET Nat, S # {}
    PROVE  \E n \in S : \A m \in S : n <= m
<1> DEFINE R == {ss \in Nat \X Nat : ss[1] < ss[2]}
<1>1. IsWellFoundedOn(R, Nat)
  BY NatLessThanWellFounded DEF OpToRel
<1>2. PICK n \in S : \A m \in S : ~ (<<m, n>> \in R)
  BY <1>1, WFMin
<1>3. \A m \in S : ~ (m < n)
  BY <1>2
<1> QED  BY <1>3

\* What holds wherever it holds at everything of less measure holds everywhere.
LEMMA MeasureInduction ==
    ASSUME NEW X, NEW mu \in [X -> Nat], NEW Good,
           \A x \in X : (\A y \in X : mu[y] < mu[x] => y \in Good) => x \in Good
    PROVE  X \subseteq Good
<1> DEFINE Wrong == X \ Good
           S == {mu[x] : x \in Wrong}
<1>1. \A x \in Wrong : mu[x] \in Nat /\ \E y \in Wrong : mu[y] < mu[x]
  OBVIOUS
<1>2. Wrong = {}
  <2> SUFFICES ASSUME Wrong # {} PROVE FALSE
    OBVIOUS
  <2> HIDE DEF Wrong
  <2>1. S # {} /\ S \in SUBSET Nat
    BY <1>1
  <2>2. PICK n \in S : \A m \in S : n <= m
    BY <2>1, LeastNumber
  <2>3. PICK x \in Wrong : mu[x] = n
    BY <2>2
  <2>4. PICK y \in Wrong : mu[y] < n
    BY <1>1, <2>3
  <2>5. mu[y] \in S
    OBVIOUS
  <2>6. n <= mu[y] /\ n \in Nat /\ mu[y] \in Nat
    BY <2>1, <2>2, <2>5
  <2> QED  BY <2>4, <2>6
<1> QED  BY <1>2


\* The value at x is base[x], or is made by step of the value at next[x], where
\* the measure is less.
Recursion(X, Y, mu, stop, base, next, step) ==
    /\ mu \in [X -> Nat]
    /\ stop \in [X -> BOOLEAN] /\ base \in [X -> Y] /\ step \in [X \X Y -> Y]
    /\ \A x \in X : ~stop[x] => next[x] \in X /\ mu[next[x]] < mu[x]

ValueOf(f, x, stop, base, next, step) ==
    IF stop[x] THEN base[x] ELSE step[<<x, f[next[x]]>>]

Recurses(f, X, stop, base, next, step) ==
    \A x \in X : f[x] = ValueOf(f, x, stop, base, next, step)

\* Two functions with such values up to some measure agree up to there.
LEMMA RecursionAgrees ==
    ASSUME NEW X, NEW Y, NEW mu, NEW stop, NEW base, NEW next, NEW step,
           Recursion(X, Y, mu, stop, base, next, step), NEW n \in Nat, NEW f, NEW g,
           \A x \in X : mu[x] < n => f[x] = ValueOf(f, x, stop, base, next, step),
           \A x \in X : mu[x] < n => g[x] = ValueOf(g, x, stop, base, next, step)
    PROVE  \A x \in X : mu[x] < n => f[x] = g[x]
<1> DEFINE Good == {x \in X : mu[x] < n => f[x] = g[x]}
<1>1. mu \in [X -> Nat]
  BY DEF Recursion
<1>2. ASSUME NEW x \in X, \A y \in X : mu[y] < mu[x] => y \in Good PROVE x \in Good
  <2> SUFFICES ASSUME mu[x] < n PROVE f[x] = g[x]
    OBVIOUS
  <2>1. CASE stop[x]
    BY <2>1 DEF ValueOf
  <2>2. CASE ~stop[x]
    <3>1. next[x] \in X /\ mu[next[x]] < mu[x]
      BY <2>2 DEF Recursion
    <3>2. mu[next[x]] < n
      BY <1>1, <3>1
    <3>3. f[next[x]] = g[next[x]]
      BY <1>2, <3>1, <3>2
    <3> QED  BY <2>2, <3>3 DEF ValueOf
  <2> QED  BY <2>1, <2>2
<1>3. X \subseteq Good
  <2> HIDE DEF Good
  <2> QED  BY <1>1, <1>2, MeasureInduction
<1> QED  BY <1>3

\* A function with such values exists.
LEMMA RecursionExists ==
    ASSUME NEW X, NEW Y, NEW mu, NEW stop, NEW base, NEW next, NEW step,
           Recursion(X, Y, mu, stop, base, next, step)
    PROVE  \E f \in [X -> Y] : Recurses(f, X, stop, base, next, step)
<1> DEFINE V(f, x) == ValueOf(f, x, stop, base, next, step)
           Good(f, n) == \A x \in X : mu[x] < n => f[x] = V(f, x)
           Upto(n) == \E f \in [X -> Y] : Good(f, n)
           S == {n \in Nat : ~Upto(n)}
<1>0. mu \in [X -> Nat] /\ \A x \in X : ~stop[x] => next[x] \in X /\ mu[next[x]] < mu[x]
  BY DEF Recursion
<1>1. ASSUME NEW f \in [X -> Y], NEW x \in X PROVE V(f, x) \in Y
  <2>1. CASE stop[x]
    BY <2>1 DEF Recursion, ValueOf
  <2>2. CASE ~stop[x]
    <3>1. <<x, f[next[x]]>> \in X \X Y
      BY <1>0, <2>2
    <3>2. step[<<x, f[next[x]]>>] \in Y
      BY <3>1 DEF Recursion
    <3> QED  BY <2>2, <3>2 DEF ValueOf
  <2> QED  BY <2>1, <2>2
<1>2. Upto(0)
  <2>1. \A x \in X : ~ (mu[x] < 0)
    BY <1>0
  <2>2. Good([x \in X |-> base[x]], 0)
    BY <2>1
  <2>3. [x \in X |-> base[x]] \in [X -> Y]
    BY DEF Recursion
  <2> QED  BY <2>2, <2>3
<1>3. ASSUME NEW n \in Nat, Upto(n) PROVE Upto(n + 1)
  <2>1. PICK f \in [X -> Y] : Good(f, n)
    BY <1>3
  <2> DEFINE g == [x \in X |-> V(f, x)]
  <2>2. g \in [X -> Y]
    BY <1>1
  <2>3. ASSUME NEW x \in X, mu[x] < n + 1 PROVE g[x] = V(g, x)
    <3>1. CASE stop[x]
      BY <3>1 DEF ValueOf
    <3>2. CASE ~stop[x]
      <4>1. next[x] \in X /\ mu[next[x]] < n
        BY <1>0, <2>3, <3>2
      <4>2. g[next[x]] = f[next[x]]
        BY <2>1, <4>1
      <4> QED  BY <3>2, <4>2 DEF ValueOf
    <3> QED  BY <3>1, <3>2
  <2> HIDE DEF g, V
  <2> QED  BY <2>2, <2>3
<1> HIDE DEF Upto
<1>4. S = {}
  <2> SUFFICES ASSUME S # {} PROVE FALSE
    OBVIOUS
  <2>1. PICK n \in S : \A m \in S : n <= m
    BY LeastNumber
  <2>2. n # 0
    BY <1>2, <2>1
  <2>3. n - 1 \in Nat /\ n - 1 \notin S
    BY <2>1, <2>2
  <2>4. Upto((n - 1) + 1)
    BY <1>3, <2>3
  <2> QED  BY <2>1, <2>4
<1> DEFINE F == [n \in Nat |-> CHOOSE f \in [X -> Y] : Good(f, n)]
           g == [x \in X |-> F[mu[x] + 1][x]]
<1>5. ASSUME NEW n \in Nat PROVE F[n] \in [X -> Y] /\ Good(F[n], n)
  <2>1. \E f \in [X -> Y] : Good(f, n)
    BY <1>4 DEF Upto
  <2> HIDE DEF Good
  <2> QED  BY <2>1
<1> HIDE DEF F
<1>6. ASSUME NEW x \in X PROVE g[x] \in Y /\ g[x] = V(g, x)
  <2> DEFINE n == mu[x] + 1
  <2>1. n \in Nat /\ mu[x] < n
    BY <1>0
  <2>2. g[x] = F[n][x] /\ F[n] \in [X -> Y] /\ F[n][x] = V(F[n], x)
    BY <1>5, <2>1
  <2>3. CASE stop[x]
    BY <2>2, <2>3 DEF ValueOf
  <2>4. CASE ~stop[x]
    <3> DEFINE y == next[x]
               m == mu[y] + 1
    <3>1. y \in X /\ mu[y] < mu[x] /\ m \in Nat /\ mu[y] < m /\ m <= n /\ mu[x] \in Nat /\ mu[y] \in Nat
      BY <1>0, <2>4
    <3>2. Good(F[m], m) /\ Good(F[n], m)
      <4>1. \A z \in X : mu[z] < m => mu[z] < n
        BY <1>0, <2>1, <3>1
      <4> QED  BY <1>5, <2>1, <3>1, <4>1
    <3>3. F[m][y] = F[n][y]
      <4> HIDE DEF m, y, n
      <4> QED  BY <3>1, <3>2, RecursionAgrees
    <3>4. g[y] = F[n][y]
      BY <3>1, <3>3
    <3> QED  BY <2>2, <2>4, <3>4 DEF ValueOf
  <2> QED  BY <2>2, <2>3, <2>4
<1>7. g \in [X -> Y]
  BY <1>6
<1> HIDE DEF g, V
<1> QED  BY <1>6, <1>7 DEF Recurses, V

\* It is the only one.
LEMMA RecursionUnique ==
    ASSUME NEW X, NEW Y, NEW mu, NEW stop, NEW base, NEW next, NEW step,
           Recursion(X, Y, mu, stop, base, next, step),
           NEW f, f = [x \in X |-> f[x]], Recurses(f, X, stop, base, next, step)
    PROVE  f \in [X -> Y]
<1>1. PICK g \in [X -> Y] : Recurses(g, X, stop, base, next, step)
  BY RecursionExists
<1>2. ASSUME NEW x \in X PROVE f[x] = g[x]
  <2> DEFINE n == mu[x] + 1
  <2>1. n \in Nat /\ mu[x] < n
    BY DEF Recursion
  <2> HIDE DEF n
  <2> QED  BY <1>1, <2>1, RecursionAgrees DEF Recurses
<1> QED  BY <1>1, <1>2
==============================================================================
