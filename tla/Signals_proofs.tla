--------------------------- MODULE Signals_proofs ---------------------------
(***************************************************************************)
(* Signals for any sockets, scenes and number of polls: what the deltas,   *)
(* slots and warnings of a snapshot say is what the kernel counted.        *)
(***************************************************************************)
EXTENDS Signals, FiniteSetTheorems, SequenceTheorems, WellFoundedInduction, TLAPS

-----------------------------------------------------------------------------
(* Sums over finite sets.                                                  *)

(* A set of naturals that is not empty has a least element.                *)
LEMMA Least ==
  ASSUME NEW T \in SUBSET Nat, T # {}
  PROVE  \E m \in T : \A n \in T : m <= n
<1> DEFINE Less == OpToRel(<, Nat)
<1>1. IsWellFoundedOn(Less, Nat)
  BY NatLessThanWellFounded
<1>2. ASSUME NEW x \in Nat, NEW y \in Nat, x < y
      PROVE  <<x, y>> \in Less
  <2>1. Less = {ss \in Nat \X Nat : ss[1] < ss[2]}
    BY Zenon DEF OpToRel
  <2>2. <<x, y>> \in Nat \X Nat /\ <<x, y>>[1] = x /\ <<x, y>>[2] = y
    OBVIOUS
  <2> HIDE DEF Less
  <2> QED BY <1>2, <2>1, <2>2
<1> HIDE DEF Less
<1>3. PICK m \in T : \A n \in T : ~(<<n, m>> \in Less)
  BY <1>1, WFMin
<1>4. ASSUME NEW n \in T
      PROVE  m <= n
  <2>1. ~(n < m)
    BY <1>2, <1>3
  <2> QED BY <2>1
<1> QED BY <1>4

(* Among finite sets there is one that has no other of them inside. *)
LEMMA Smallest ==
  ASSUME NEW B, B # {}, \A s \in B : IsFiniteSet(s)
  PROVE  \E m \in B : \A s \in B : s \subseteq m => s = m
<1> DEFINE sizes == {Cardinality(s) : s \in B}
<1>1. sizes \in SUBSET Nat /\ sizes # {}
  BY FS_CardinalityType
<1>2. PICK n \in sizes : \A k \in sizes : n <= k
  BY <1>1, Least
<1>3. PICK m \in B : Cardinality(m) = n
  BY <1>2
<1>4. ASSUME NEW s \in B, s \subseteq m
      PROVE  s = m
  <2>1. Cardinality(s) \in Nat /\ Cardinality(m) \in Nat /\ Cardinality(m) <= Cardinality(s)
    BY <1>2, <1>3, FS_CardinalityType
  <2>2. IsFiniteSet(m)
    OBVIOUS
  <2>3. Cardinality(s) <= Cardinality(m) /\ (Cardinality(m) = Cardinality(s) => m = s)
    BY <1>4, <2>2, FS_Subset
  <2> QED BY <2>1, <2>3
<1> QED BY <1>4

(* The recursion of MapThenFoldSet, for sums. *)
First(s) == CHOOSE x \in s : TRUE

(* g sums w over the subsets of S, one element at a time, as a fold does.  *)
Sums(g, w, S) ==
  /\ DOMAIN g = SUBSET S
  /\ \A s \in SUBSET S : g[s] = IF s = {} THEN 0 ELSE w[First(s)] + g[s \ {First(s)}]

(* There is at most one such function,                                     *)
LEMMA SumsAgree ==
  ASSUME NEW w, NEW S, NEW T, NEW g, NEW h, Sums(g, w, S), Sums(h, w, T),
         NEW r, r \subseteq S, r \subseteq T, IsFiniteSet(r)
  PROVE  g[r] = h[r]
<1> DEFINE B == {s \in SUBSET r : g[s] # h[s]}
<1>1. SUFFICES ASSUME B # {}
               PROVE  FALSE
  BY Zenon
<1>2. \A s \in B : IsFiniteSet(s)
  BY FS_Subset
<1>3. PICK m \in B : \A s \in B : s \subseteq m => s = m
  <2> HIDE DEF B
  <2> QED BY <1>1, <1>2, Smallest
<1>4. PICK x : x = First(m)
  OBVIOUS
<1>5. m # {}
  BY DEF Sums
<1>6. x \in m
  BY <1>4, <1>5 DEF First
<1>7. m \ {x} \in SUBSET r /\ g[m \ {x}] = h[m \ {x}]
  BY <1>3, <1>6
<1>8. g[m] = w[x] + g[m \ {x}] /\ h[m] = w[x] + h[m \ {x}]
  BY <1>4, <1>5 DEF Sums
<1> QED BY <1>7, <1>8

(* and there is one.                                                       *)
LEMMA SumsExist ==
  ASSUME NEW w, NEW S, IsFiniteSet(S)
  PROVE  \E g : Sums(g, w, S)
<1> DEFINE B == {s \in SUBSET S : ~\E g : Sums(g, w, s)}
<1>1. SUFFICES ASSUME B # {}
               PROVE  FALSE
  OBVIOUS
<1>2. \A s \in B : IsFiniteSet(s)
  BY FS_Subset
<1>3. PICK m \in B : \A s \in B : s \subseteq m => s = m
  <2> HIDE DEF B
  <2> QED BY <1>1, <1>2, Smallest
<1> DEFINE of(t) == CHOOSE h : Sums(h, w, t)
           rest(t) == t \ {First(t)}
           g == [t \in SUBSET m |-> IF t = {} THEN 0 ELSE w[First(t)] + of(rest(t))[rest(t)]]
<1>4. ASSUME NEW t \in SUBSET m, t # {}
      PROVE  rest(t) \in SUBSET m /\ First(t) \in t /\ rest(t) # m
  BY <1>4 DEF First
<1>5. ASSUME NEW t \in SUBSET m, t # m
      PROVE  Sums(of(t), w, t)
  <2>1. t \notin B
    BY <1>3, <1>5
  <2>2. \E h : Sums(h, w, t)
    BY <2>1
  <2> QED BY <2>2
<1>6. ASSUME NEW t \in SUBSET m, t # {}
      PROVE  of(rest(t))[rest(t)] = g[rest(t)]
  <2>1. PICK u : u = rest(t)
    OBVIOUS
  <2>2. u \in SUBSET m /\ u # m /\ Sums(of(u), w, u)
    BY <1>4, <1>5, <1>6, <2>1
  <2>3. CASE u = {}
    <3>1. of(u)[u] = 0
      BY <2>2, <2>3 DEF Sums
    <3> QED BY <2>1, <2>2, <2>3, <3>1
  <2>4. CASE u # {}
    <3>1. PICK v : v = rest(u)
      OBVIOUS
    <3>2. v \in SUBSET m /\ v # m /\ Sums(of(v), w, v) /\ v \subseteq u
      BY <1>4, <1>5, <2>2, <2>4, <3>1
    <3>3. IsFiniteSet(v)
      BY <3>2, FS_Subset
    <3>4. of(u)[v] = of(v)[v]
      BY <2>2, <3>2, <3>3, SumsAgree
    <3>5. of(u)[u] = w[First(u)] + of(u)[v]
      BY <2>2, <2>4, <3>1 DEF Sums
    <3>6. g[u] = w[First(u)] + of(v)[v]
      BY <2>2, <2>4, <3>1
    <3> QED BY <2>1, <3>4, <3>5, <3>6
  <2> QED BY <2>3, <2>4
<1>7. Sums(g, w, m)
  <2> HIDE DEF of
  <2>1. DOMAIN g = SUBSET m
    OBVIOUS
  <2>2. ASSUME NEW t \in SUBSET m
        PROVE  g[t] = IF t = {} THEN 0 ELSE w[First(t)] + g[rest(t)]
    BY <1>6
  <2> QED BY <2>1, <2>2 DEF Sums
<1> QED BY <1>7

(* SumFunctionOnSet is what its recursion computes. *)
LEMMA SumIs ==
  ASSUME NEW w, NEW S, IsFiniteSet(S)
  PROVE  \E g : Sums(g, w, S) /\ SumFunctionOnSet(w, S) = g[S]
<1> DEFINE P(g) == g = [s \in SUBSET S |-> IF s = {} THEN 0 ELSE LET x == CHOOSE x \in s : TRUE IN w[x] + g[s \ {x}]]
           it == CHOOSE g : P(g)
<1>1. SumFunctionOnSet(w, S) = it[S]
  BY Zenon DEF SumFunctionOnSet, FoldFunctionOnSet, MapThenFoldSet
<1>2. PICK h : Sums(h, w, S)
  BY SumsExist
<1> DEFINE k == [s \in SUBSET S |-> h[s]]
<1>3. P(k)
  BY <1>2 DEF Sums, First
<1>4. P(it)
  <2> HIDE DEF P, k
  <2> QED BY <1>3
<1>5. Sums(it, w, S)
  <2>1. PICK g : g = it
    OBVIOUS
  <2>2. P(g)
    BY <1>4, <2>1
  <2>3. Sums(g, w, S)
    BY <2>2 DEF Sums, First
  <2> QED BY <2>1, <2>3
<1> QED BY <1>1, <1>5

-----------------------------------------------------------------------------

(* What a function makes of a finite set is finite.                        *)
LEMMA FiniteImage ==
  ASSUME NEW S, IsFiniteSet(S), NEW f, NEW T, \A y \in T : \E x \in S : y = f[x]
  PROVE  IsFiniteSet(T)
<1>1. PICK U : U = {f[x] : x \in S}
  OBVIOUS
<1>2. PICK g : g = [x \in S |-> f[x]]
  OBVIOUS
<1>3. g \in Surjection(S, U)
  BY <1>1, <1>2 DEF Surjection
<1>4. IsFiniteSet(U)
  BY <1>3, FS_Surjection
<1>5. T \in SUBSET U
  BY <1>1
<1> QED BY <1>4, <1>5, FS_Subset

(* A function that pairs the elements of two sets.                         *)
PairsOff(f, S, T) ==
  /\ f \in [S -> T]
  /\ \A x, y \in S : f[x] = f[y] => x = y
  /\ \A y \in T : \E x \in S : f[x] = y

(* Paired sets are as large as each other, and so are parts of them that   *)
(* the pairing respects.                                                   *)
LEMMA SameSize ==
  ASSUME NEW S, NEW T, IsFiniteSet(S), NEW f, PairsOff(f, S, T), NEW A \in SUBSET S, NEW B \in SUBSET T,
         \A x \in S : x \in A <=> f[x] \in B
  PROVE  IsFiniteSet(B) /\ Cardinality(B) = Cardinality(A) /\ Cardinality(A) \in Nat
<1>1. PICK g : g = [x \in A |-> f[x]]
  OBVIOUS
<1>2. g \in [A -> B] /\ (\A x, y \in A : g[x] = g[y] => x = y) /\ \A y \in B : \E x \in A : g[x] = y
  BY <1>1 DEF PairsOff
<1>3. g \in Surjection(A, B) /\ g \in Injection(A, B)
  BY <1>2 DEF Surjection, Injection, IsInjective
<1>4. IsFiniteSet(A)
  BY FS_Subset
<1>5. IsFiniteSet(B) /\ Cardinality(B) = Cardinality(A)
  BY <1>3, <1>4, FS_Surjection
<1> QED BY <1>4, <1>5, FS_CardinalityType

(* The sum of nothing.                                                     *)
LEMMA SumEmpty == ASSUME NEW w PROVE SumFunctionOnSet(w, {}) = 0
<1>1. PICK g : Sums(g, w, {}) /\ SumFunctionOnSet(w, {}) = g[{}]
  BY SumIs, FS_EmptySet
<1> QED BY <1>1 DEF Sums

(* A sum is that of any one element and of the rest. *)
LEMMA SumWithout ==
  ASSUME NEW w, NEW S, IsFiniteSet(S), \A x \in S : w[x] \in Int, NEW y \in S
  PROVE  /\ SumFunctionOnSet(w, S) \in Int
         /\ SumFunctionOnSet(w, S \ {y}) \in Int
         /\ SumFunctionOnSet(w, S) = w[y] + SumFunctionOnSet(w, S \ {y})
<1>1. PICK g : Sums(g, w, S) /\ SumFunctionOnSet(w, S) = g[S]
  BY SumIs
<1>2. ASSUME NEW s \in SUBSET S
      PROVE  IsFiniteSet(s)
  BY FS_Subset
<1> DEFINE Fine(s) == g[s] \in Int /\ \A z \in s : g[s] = w[z] + g[s \ {z}]
           B == {s \in SUBSET S : ~Fine(s)}
<1>3. B = {}
  <2>1. SUFFICES ASSUME B # {}
                 PROVE  FALSE
    BY Zenon
  <2>2. \A s \in B : IsFiniteSet(s)
    BY <1>2
  <2>3. PICK m \in B : \A s \in B : s \subseteq m => s = m
    <3> HIDE DEF B
    <3> QED BY <2>1, <2>2, Smallest
  <2>4. \A s \in SUBSET m : s # m => Fine(s)
    <3> HIDE DEF Fine
    <3> QED BY <2>3
  <2>5. CASE m = {}
    <3>1. g[m] = 0
      BY <1>1, <2>3, <2>5 DEF Sums
    <3>2. Fine(m)
      BY <2>5, <3>1
    <3> QED BY <2>3, <3>2
  <2>6. CASE m # {}
    <3>1. PICK x : x = First(m)
      OBVIOUS
    <3>2. x \in m
      BY <2>6, <3>1 DEF First
    <3>3. m \in SUBSET S /\ g[m] = w[x] + g[m \ {x}]
      BY <1>1, <2>3, <2>6, <3>1 DEF Sums
    <3>4. Fine(m \ {x})
      BY <2>4, <3>2
    <3>5. g[m] \in Int
      BY <3>2, <3>3, <3>4
    <3>6. ASSUME NEW z \in m
          PROVE  g[m] = w[z] + g[m \ {z}]
      <4>1. CASE z = x
        BY <3>3, <4>1
      <4>2. CASE z # x
        <5>1. g[m \ {x}] = w[z] + g[(m \ {x}) \ {z}]
          BY <3>4, <4>2
        <5>2. Fine(m \ {z})
          BY <2>4
        <5>3. g[m \ {z}] = w[x] + g[(m \ {z}) \ {x}]
          BY <3>2, <4>2, <5>2
        <5>4. (m \ {z}) \ {x} = (m \ {x}) \ {z}
          OBVIOUS
        <5>5. Fine((m \ {x}) \ {z})
          <6> HIDE DEF Fine
          <6> QED BY <2>4, <3>2
        <5>6. PICK u : u = (m \ {x}) \ {z}
          OBVIOUS
        <5>7. g[u] \in Int /\ w[x] \in Int /\ w[z] \in Int
          BY <3>2, <3>3, <5>5, <5>6
        <5>8. /\ g[m] = w[x] + g[m \ {x}] /\ g[m \ {x}] = w[z] + g[u]
              /\ g[m \ {z}] = w[x] + g[u]
          BY <3>3, <5>1, <5>3, <5>4, <5>6
        <5> HIDE DEF Fine
        <5>9. w[x] + (w[z] + g[u]) = w[z] + (w[x] + g[u])
          BY <5>7
        <5> QED BY <5>8, <5>9
      <4> QED BY <4>1, <4>2
    <3> QED BY <2>3, <3>5, <3>6
  <2> QED BY <2>5, <2>6
<1>4. Fine(S) /\ Fine(S \ {y})
  <2> HIDE DEF Fine
  <2> QED BY <1>3
<1>5. PICK h : Sums(h, w, S \ {y}) /\ SumFunctionOnSet(w, S \ {y}) = h[S \ {y}]
  BY <1>2, SumIs
<1>6. h[S \ {y}] = g[S \ {y}]
  BY <1>1, <1>2, <1>5, SumsAgree
<1> QED BY <1>1, <1>4, <1>5, <1>6

(* A sum of integers is one.                                               *)
LEMMA SumType ==
  ASSUME NEW w, NEW S, IsFiniteSet(S), \A x \in S : w[x] \in Int
  PROVE  SumFunctionOnSet(w, S) \in Int
<1>1. CASE S = {}
  BY <1>1, SumEmpty
<1>2. CASE S # {}
  <2>1. PICK y \in S : TRUE
    BY <1>2
  <2> QED BY SumWithout
<1> QED BY <1>1, <1>2

(* What is no less in each place is no less in sum, and more if it is more *)
(* in one.                                                                 *)
LEMMA SumGrows ==
  ASSUME NEW v, NEW w, NEW S, IsFiniteSet(S),
         \A x \in S : v[x] \in Int /\ w[x] \in Int /\ v[x] <= w[x]
  PROVE  /\ SumFunctionOnSet(v, S) <= SumFunctionOnSet(w, S)
         /\ (\E x \in S : v[x] < w[x]) => SumFunctionOnSet(v, S) < SumFunctionOnSet(w, S)
<1> DEFINE more(s) == /\ SumFunctionOnSet(v, s) <= SumFunctionOnSet(w, s)
                      /\ (\E x \in s : v[x] < w[x]) => SumFunctionOnSet(v, s) < SumFunctionOnSet(w, s)
           B == {s \in SUBSET S : ~more(s)}
<1>1. ASSUME NEW s \in SUBSET S
      PROVE  /\ IsFiniteSet(s)
             /\ \A x \in s : v[x] \in Int /\ w[x] \in Int /\ v[x] <= w[x]
             /\ SumFunctionOnSet(v, s) \in Int /\ SumFunctionOnSet(w, s) \in Int
  <2>1. IsFiniteSet(s) /\ \A x \in s : v[x] \in Int /\ w[x] \in Int /\ v[x] <= w[x]
    BY FS_Subset
  <2> QED BY <2>1, SumType
<1>2. B = {}
  <2>1. SUFFICES ASSUME B # {}
                 PROVE  FALSE
    BY Zenon
  <2>2. PICK m \in B : \A s \in B : s \subseteq m => s = m
    <3>1. \A s \in B : IsFiniteSet(s)
      BY <1>1
    <3> HIDE DEF B
    <3> QED BY <2>1, <3>1, Smallest
  <2>3. m # {}
    <3>1. more({})
      BY SumEmpty
    <3> HIDE DEF more
    <3> QED BY <2>2, <3>1
  <2>4. PICK y \in m : v[y] < w[y] \/ \A x \in m : ~(v[x] < w[x])
    BY <2>3
  <2>5. more(m \ {y})
    <3> HIDE DEF more
    <3> QED BY <2>2
  <2>6. /\ SumFunctionOnSet(v, m) = v[y] + SumFunctionOnSet(v, m \ {y})
        /\ SumFunctionOnSet(w, m) = w[y] + SumFunctionOnSet(w, m \ {y})
    BY <1>1, <2>2, SumWithout
  <2>7. /\ SumFunctionOnSet(v, m \ {y}) \in Int /\ SumFunctionOnSet(w, m \ {y}) \in Int
        /\ v[y] \in Int /\ w[y] \in Int /\ v[y] <= w[y]
    BY <1>1, <2>2
  <2>8. more(m)
    BY <2>4, <2>5, <2>6, <2>7
  <2> QED BY <2>2, <2>8
<1>3. more(S)
  <2> HIDE DEF more
  <2> QED BY <1>2
<1> QED BY <1>3

(* A sum depends on the summed values alone.                               *)
LEMMA SumSame ==
  ASSUME NEW v, NEW w, NEW S, IsFiniteSet(S), \A x \in S : v[x] \in Int /\ v[x] = w[x]
  PROVE  SumFunctionOnSet(v, S) = SumFunctionOnSet(w, S)
<1>1. /\ SumFunctionOnSet(v, S) <= SumFunctionOnSet(w, S)
      /\ SumFunctionOnSet(w, S) <= SumFunctionOnSet(v, S)
  <2>1. \A x \in S : v[x] <= w[x] /\ w[x] <= v[x] /\ w[x] \in Int
    OBVIOUS
  <2> QED BY <2>1, SumGrows
<1> QED BY <1>1, SumType

(* A sum less one of its terms.                                            *)
LEMMA Minus ==
  ASSUME NEW w, NEW S, IsFiniteSet(S), \A x \in S : w[x] \in Int, NEW y, y \in S
  PROVE  /\ SumFunctionOnSet(w, S) = w[y] + SumFunctionOnSet(w, S \ {y})
         /\ SumFunctionOnSet(w, S \ {y}) \in Int
<1> HIDE DEF SumFunctionOnSet
<1>1. SumFunctionOnSet(w, S \ {y}) \in Int
  BY SumWithout
<1>2. SumFunctionOnSet(w, S) = w[y] + SumFunctionOnSet(w, S \ {y})
  BY SumWithout
<1> QED BY <1>1, <1>2

(* The sum over two sets that are apart.                                   *)
LEMMA SumOfUnion ==
  ASSUME NEW w, NEW S, NEW T, IsFiniteSet(S), IsFiniteSet(T), S \cap T = {}, \A x \in S \cup T : w[x] \in Int
  PROVE  SumFunctionOnSet(w, S \cup T) = SumFunctionOnSet(w, S) + SumFunctionOnSet(w, T)
<1> DEFINE adds(s) == SumFunctionOnSet(w, s \cup T) = SumFunctionOnSet(w, s) + SumFunctionOnSet(w, T)
           B == {s \in SUBSET S : ~adds(s)}
<1>1. SUFFICES ASSUME B # {}
               PROVE  FALSE
  <2>1. S \in SUBSET S
    OBVIOUS
  <2> QED BY <1>1, <2>1
<1>2. PICK m \in B : \A s \in B : s \subseteq m => s = m
  <2>1. \A s \in B : IsFiniteSet(s)
    BY FS_Subset
  <2> HIDE DEF B
  <2> QED BY <1>1, <2>1, Smallest
<1>3. IsFiniteSet(m) /\ IsFiniteSet(m \cup T)
  BY FS_Subset, FS_Union
<1>4. m # {}
  <2>1. adds({})
    <3>1. {} \cup T = T
      OBVIOUS
    <3> QED BY <3>1, SumEmpty, SumType
  <2> HIDE DEF adds
  <2> QED BY <2>1
<1>5. PICK y \in m : TRUE
  BY <1>4
<1>6. adds(m \ {y})
  <2> HIDE DEF adds
  <2> QED BY <1>2
<1>7. (m \cup T) \ {y} = (m \ {y}) \cup T
  BY <1>2
<1>12. (\A x \in m \cup T : w[x] \in Int) /\ y \in m \cup T
  BY <1>2
<1> HIDE DEF B
<1>8. /\ SumFunctionOnSet(w, m) = w[y] + SumFunctionOnSet(w, m \ {y})
      /\ SumFunctionOnSet(w, m \ {y}) \in Int
  <2>1. IsFiniteSet(m) /\ y \in m /\ \A x \in m : w[x] \in Int
    BY <1>3, <1>12
  <2>2. SumFunctionOnSet(w, m) = w[y] + SumFunctionOnSet(w, m \ {y})
    BY <2>1, Minus
  <2>3. SumFunctionOnSet(w, m \ {y}) \in Int
    BY <2>1, Minus
  <2> QED BY <2>2, <2>3
<1>9. SumFunctionOnSet(w, m \cup T) = w[y] + SumFunctionOnSet(w, (m \cup T) \ {y})
  BY <1>3, <1>12, SumWithout
<1>10. w[y] \in Int /\ SumFunctionOnSet(w, T) \in Int
  BY <1>12, SumType
<1>13. PICK a, b, c : a = SumFunctionOnSet(w, m \ {y}) /\ b = SumFunctionOnSet(w, T) /\ c = w[y]
  OBVIOUS
<1>14. SumFunctionOnSet(w, m \cup T) = c + (a + b) /\ SumFunctionOnSet(w, m) = c + a
  BY <1>6, <1>7, <1>8, <1>9, <1>13
<1>11. adds(m)
  <2>1. a \in Int /\ b \in Int /\ c \in Int
    BY <1>8, <1>10, <1>13
  <2>2. c + (a + b) = (c + a) + b
    BY <2>1
  <2> QED BY <1>13, <1>14, <2>2
<1> USE DEF B
<1> QED BY <1>2, <1>11

(* The sum of one.                                                         *)
LEMMA SumOne ==
  ASSUME NEW w, NEW y, w[y] \in Int
  PROVE  SumFunctionOnSet(w, {y}) = w[y]
<1>1. PICK S : S = {y}
  OBVIOUS
<1>2. IsFiniteSet(S) /\ y \in S /\ S \ {y} = {} /\ \A x \in S : w[x] \in Int
  BY <1>1, FS_Singleton
<1>3. SumFunctionOnSet(w, S) = w[y] + SumFunctionOnSet(w, S \ {y})
  BY <1>2, Minus
<1>4. SumFunctionOnSet(w, S \ {y}) = 0
  BY <1>2, SumEmpty
<1>5. SumFunctionOnSet(w, S) = w[y]
  BY <1>3, <1>4
<1> QED BY <1>1, <1>5

(* Counting is summing ones.                                               *)
LEMMA SumOfOnes ==
  ASSUME NEW w, NEW S, IsFiniteSet(S), \A x \in S : w[x] = 1
  PROVE  SumFunctionOnSet(w, S) = Cardinality(S)
<1> DEFINE counts(s) == SumFunctionOnSet(w, s) = Cardinality(s)
           B == {s \in SUBSET S : ~counts(s)}
<1>1. SUFFICES ASSUME B # {}
               PROVE  FALSE
  <2>1. S \in SUBSET S
    OBVIOUS
  <2> QED BY <1>1, <2>1
<1>2. PICK m \in B : \A s \in B : s \subseteq m => s = m
  <2>1. \A s \in B : IsFiniteSet(s)
    BY FS_Subset
  <2> HIDE DEF B
  <2> QED BY <1>1, <2>1, Smallest
<1>3. IsFiniteSet(m)
  BY FS_Subset
<1>4. m # {}
  <2>1. counts({})
    BY SumEmpty, FS_EmptySet
  <2> HIDE DEF counts
  <2> QED BY <2>1
<1>5. PICK y \in m : TRUE
  BY <1>4
<1>6. counts(m \ {y})
  <2> HIDE DEF counts
  <2> QED BY <1>2
<1>7. SumFunctionOnSet(w, m) = w[y] + SumFunctionOnSet(w, m \ {y}) /\ w[y] = 1
  <2>1. \A x \in m : w[x] \in Int
    BY <1>2
  <2> QED BY <1>2, <1>3, <2>1, SumWithout
<1>8. Cardinality(m \ {y}) = Cardinality(m) - 1 /\ Cardinality(m) \in Nat
  BY <1>3, FS_RemoveElement, FS_CardinalityType
<1>9. counts(m)
  BY <1>6, <1>7, <1>8
<1> QED BY <1>2, <1>9

(* A sum of zeros.                                                         *)
LEMMA SumOfZeros ==
  ASSUME NEW w, NEW S, IsFiniteSet(S), \A x \in S : w[x] = 0
  PROVE  SumFunctionOnSet(w, S) = 0
<1> DEFINE nil(s) == SumFunctionOnSet(w, s) = 0
           B == {s \in SUBSET S : ~nil(s)}
<1>1. SUFFICES ASSUME B # {}
               PROVE  FALSE
  <2>1. S \in SUBSET S
    OBVIOUS
  <2> QED BY <1>1, <2>1
<1>2. PICK m \in B : \A s \in B : s \subseteq m => s = m
  <2>1. \A s \in B : IsFiniteSet(s)
    BY FS_Subset
  <2> HIDE DEF B
  <2> QED BY <1>1, <2>1, Smallest
<1>3. IsFiniteSet(m)
  BY FS_Subset
<1>4. m # {}
  <2>1. nil({})
    BY SumEmpty
  <2> HIDE DEF nil
  <2> QED BY <2>1
<1>5. PICK y \in m : TRUE
  BY <1>4
<1>6. nil(m \ {y})
  <2> HIDE DEF nil
  <2> QED BY <1>2
<1>7. SumFunctionOnSet(w, m) = w[y] + SumFunctionOnSet(w, m \ {y}) /\ w[y] = 0
  <2>1. \A x \in m : w[x] \in Int
    BY <1>2
  <2> QED BY <1>2, <1>3, <2>1, SumWithout
<1>8. nil(m)
  BY <1>6, <1>7
<1> QED BY <1>2, <1>8

(* A sum of naturals, and more than 0 when one of them is.                 *)
LEMMA SumNat ==
  ASSUME NEW w, NEW S, IsFiniteSet(S), \A x \in S : w[x] \in Nat
  PROVE  /\ SumFunctionOnSet(w, S) \in Nat
         /\ (\E x \in S : w[x] > 0) => SumFunctionOnSet(w, S) > 0
<1>1. PICK z : z = [x \in S |-> 0]
  OBVIOUS
<1>2. \A x \in S : z[x] = 0
  BY <1>1
<1>3. SumFunctionOnSet(z, S) = 0
  BY <1>2, SumOfZeros
<1>4. \A x \in S : w[x] \in Int
  OBVIOUS
<1>5. SumFunctionOnSet(w, S) \in Int
  BY <1>4, SumType
<1>6. \A x \in S : z[x] \in Int /\ w[x] \in Int /\ z[x] <= w[x]
  BY <1>2
<1>7. /\ SumFunctionOnSet(z, S) <= SumFunctionOnSet(w, S)
      /\ (\E x \in S : z[x] < w[x]) => SumFunctionOnSet(z, S) < SumFunctionOnSet(w, S)
  BY <1>6, SumGrows
<1>8. (\E x \in S : w[x] > 0) => \E x \in S : z[x] < w[x]
  BY <1>2
<1> QED BY <1>3, <1>5, <1>7, <1>8

(* A finite set of integers has a least and a greatest element.            *)
LEMMA Ends ==
  ASSUME NEW S \in SUBSET Int, IsFiniteSet(S), S # {}
  PROVE  /\ \E m \in S : \A n \in S : m <= n
         /\ \E m \in S : \A n \in S : n <= m
<1> DEFINE ends(s) == s # {} => (\E m \in s : \A n \in s : m <= n) /\ (\E m \in s : \A n \in s : n <= m)
           B == {s \in SUBSET S : ~ends(s)}
<1>1. SUFFICES ASSUME B # {}
               PROVE  FALSE
  <2>1. S \in SUBSET S
    OBVIOUS
  <2> QED BY <1>1, <2>1
<1>2. PICK m \in B : \A s \in B : s \subseteq m => s = m
  <2>1. \A s \in B : IsFiniteSet(s)
    BY FS_Subset
  <2> HIDE DEF B
  <2> QED BY <1>1, <2>1, Smallest
<1>3. PICK y \in m : TRUE
  OBVIOUS
<1>4. PICK r : r = m \ {y}
  OBVIOUS
<1>5. ends(r)
  <2>1. r \in SUBSET S /\ r \subseteq m /\ r # m
    BY <1>3, <1>4
  <2> HIDE DEF ends
  <2> QED BY <1>2, <2>1
<1>6. m \subseteq Int /\ y \in Int /\ r \subseteq Int /\ \A x : x \in m <=> x \in r \/ x = y
  BY <1>3, <1>4
<1>7. CASE r = {}
  <2>1. \A x \in m : x = y
    BY <1>6, <1>7
  <2>2. ends(m)
    BY <1>3, <1>6, <2>1
  <2> QED BY <2>2
<1>8. CASE r # {}
  <2>1. PICK a, b \in r : \A n \in r : a <= n /\ n <= b
    BY <1>5, <1>8
  <2>2. \E x \in m : \A n \in m : x <= n
    <3>1. CASE y <= a
      <4>1. \A n \in m : y <= n
        BY <1>6, <2>1, <3>1
      <4> QED BY <1>3, <4>1
    <3>2. CASE ~(y <= a)
      <4>1. \A n \in m : a <= n
        BY <1>6, <2>1, <3>2
      <4> QED BY <1>6, <2>1, <4>1
    <3> QED BY <3>1, <3>2
  <2>3. \E x \in m : \A n \in m : n <= x
    <3>1. CASE b <= y
      <4>1. \A n \in m : n <= y
        BY <1>6, <2>1, <3>1
      <4> QED BY <1>3, <4>1
    <3>2. CASE ~(b <= y)
      <4>1. \A n \in m : n <= b
        BY <1>6, <2>1, <3>2
      <4> QED BY <1>6, <2>1, <4>1
    <3> QED BY <3>1, <3>2
  <2> QED BY <2>2, <2>3
<1> QED BY <1>7, <1>8

(* An interval from 1 on.                                                  *)
LEMMA UpTo ==
  ASSUME NEW n \in Nat
  PROVE  IsFiniteSet(1 .. n) /\ Cardinality(1 .. n) = n
<1>1. PICK a, b : a = 1 /\ b = n
  OBVIOUS
<1>2. a \in Int /\ b \in Int
  BY <1>1
<1>3. IsFiniteSet(a .. b) /\ Cardinality(a .. b) = IF a > b THEN 0 ELSE b - a + 1
  BY <1>2, FS_Interval
<1>4. (IF a > b THEN 0 ELSE b - a + 1) = n
  BY <1>1
<1> QED BY <1>1, <1>3, <1>4

(* An interval and its last element.                                       *)
LEMMA AllButLast ==
  ASSUME NEW m \in Nat, m > 0
  PROVE  m \in 1 .. m /\ (1 .. m) \ {m} = 1 .. (m - 1)
OBVIOUS

(* A sum over an interval, by its last term.                               *)
LEMMA AddLast ==
  ASSUME NEW f, NEW m \in Nat, m > 0, \A x \in 1 .. m : f[x] \in Int
  PROVE  /\ SumFunctionOnSet(f, 1 .. m) = f[m] + SumFunctionOnSet(f, 1 .. (m - 1))
         /\ SumFunctionOnSet(f, 1 .. (m - 1)) \in Int
<1>1. PICK S : S = 1 .. m
  OBVIOUS
<1>2. IsFiniteSet(S)
  BY <1>1, FS_Interval
<1>3. m \in S /\ S \ {m} = 1 .. (m - 1) /\ \A x \in S : f[x] \in Int
  BY <1>1, AllButLast
<1>4. SumFunctionOnSet(f, S) = f[m] + SumFunctionOnSet(f, S \ {m})
  BY <1>2, <1>3, Minus
<1>5. SumFunctionOnSet(f, S \ {m}) \in Int
  BY <1>2, <1>3, Minus
<1> QED BY <1>1, <1>3, <1>4, <1>5

(* The sum of the sums over consecutive parts is the sum over all.         *)
Parts(n, cut, f, w, B) ==
  /\ n \in Nat /\ cut \in [1 .. n + 1 -> Nat]
  /\ \A k \in B : w[k] \in Int
  /\ \A i \in 1 .. n : cut[i] <= cut[i + 1] /\ f[i] = SumFunctionOnSet(w, B \cap ((cut[i] + 1) .. cut[i + 1]))

(* Those of B in one part.                                                 *)
Between(B, i, j) == B \cap ((i + 1) .. j)

(* The sum of what the parts sum to is the sum over all of them.           *)
LEMMA SumInParts ==
  ASSUME NEW n, NEW cut, NEW f, NEW w, NEW B, Parts(n, cut, f, w, B)
  PROVE  /\ SumFunctionOnSet(f, 1 .. n) = SumFunctionOnSet(w, Between(B, cut[1], cut[n + 1]))
         /\ cut[1] <= cut[n + 1]
<1> SUFFICES ASSUME n \in Nat, cut \in [1 .. n + 1 -> Nat],
                    \A k \in B : w[k] \in Int,
                    \A i \in 1 .. n : cut[i] <= cut[i + 1],
                    \A i \in 1 .. n : f[i] = SumFunctionOnSet(w, B \cap ((cut[i] + 1) .. cut[i + 1]))
             PROVE  /\ SumFunctionOnSet(f, 1 .. n) = SumFunctionOnSet(w, B \cap ((cut[1] + 1) .. cut[n + 1]))
                    /\ cut[1] <= cut[n + 1]
  BY DEF Parts, Between
<1> DEFINE part(i, j) == B \cap ((cut[i] + 1) .. cut[j])
           right(m) == /\ SumFunctionOnSet(f, 1 .. m) = SumFunctionOnSet(w, part(1, m + 1))
                       /\ cut[1] <= cut[m + 1]
           wrong == {m \in 0 .. n : ~right(m)}
<1>1. SUFFICES ASSUME wrong # {}
               PROVE  FALSE
  <2>1. n \in 0 .. n
    OBVIOUS
  <2>2. right(n)
    <3> HIDE DEF right
    <3> QED BY <1>1, <2>1
  <2> QED BY <2>2
<1>2. PICK m \in wrong : \A j \in wrong : m <= j
  <2>1. wrong \in SUBSET Nat
    OBVIOUS
  <2> HIDE DEF wrong
  <2> QED BY <1>1, <2>1, Least
<1>3. ASSUME NEW i \in 1 .. n + 1, NEW j \in 1 .. n + 1
      PROVE  IsFiniteSet(part(i, j)) /\ \A k \in part(i, j) : w[k] \in Int
  <2>1. IsFiniteSet((cut[i] + 1) .. cut[j])
    BY FS_Interval
  <2> QED BY <2>1, FS_Subset
<1>4. m # 0
  <2>1. 1 .. 0 = {} /\ part(1, 0 + 1) = {} /\ cut[1] <= cut[0 + 1]
    <3>1. cut[1] \in Nat /\ 0 + 1 = 1
      OBVIOUS
    <3>2. cut[1] <= cut[0 + 1] /\ (cut[1] + 1) .. cut[1] = {}
      BY <3>1
    <3> QED BY <3>1, <3>2
  <2>2. right(0)
    <3> HIDE DEF part
    <3> QED BY <2>1, SumEmpty
  <2> HIDE DEF right
  <2> QED BY <2>2
<1>5. m \in 1 .. n /\ m - 1 \in 0 .. n /\ ~(m - 1 \in wrong)
  <2>1. m \in 1 .. n /\ m - 1 \in 0 .. n
    BY <1>2, <1>4
  <2> HIDE DEF wrong
  <2> QED BY <1>2, <2>1
<1>6. right(m - 1)
  <2> HIDE DEF right
  <2> QED BY <1>5
<1>7. cut[1] <= cut[m] /\ cut[m] <= cut[m + 1] /\ {cut[1], cut[m], cut[m + 1]} \subseteq Nat
  BY <1>5, <1>6
<1>8. SumFunctionOnSet(f, 1 .. (m - 1)) = SumFunctionOnSet(w, part(1, m))
  BY <1>5, <1>6
<1>9. f[m] = SumFunctionOnSet(w, part(m, m + 1))
  BY <1>5
<1>10. part(1, m + 1) = part(1, m) \cup part(m, m + 1) /\ part(1, m) \cap part(m, m + 1) = {}
  BY <1>7
<1>11. 1 \in 1 .. n + 1 /\ m + 1 \in 1 .. n + 1 /\ m \in 1 .. n + 1
  BY <1>5
<1>12. SumFunctionOnSet(w, part(1, m + 1)) = SumFunctionOnSet(w, part(1, m)) + SumFunctionOnSet(w, part(m, m + 1))
  <2> HIDE DEF part, wrong
  <2>1. PICK S, T : S = part(1, m) /\ T = part(m, m + 1)
    OBVIOUS
  <2>2. IsFiniteSet(S) /\ IsFiniteSet(T) /\ S \cap T = {} /\ \A x \in S \cup T : w[x] \in Int
    BY <1>3, <1>10, <1>11, <2>1
  <2> QED BY <1>10, <2>1, <2>2, SumOfUnion
<1>13. ASSUME NEW i \in 1 .. n
       PROVE  f[i] \in Int
  <2>1. f[i] = SumFunctionOnSet(w, part(i, i + 1)) /\ i + 1 \in 1 .. n + 1
    OBVIOUS
  <2> HIDE DEF part
  <2> QED BY <1>3, <2>1, SumType
<1>14. /\ SumFunctionOnSet(f, 1 .. m) = f[m] + SumFunctionOnSet(f, 1 .. (m - 1))
       /\ SumFunctionOnSet(f, 1 .. (m - 1)) \in Int
  <2>1. m \in Nat /\ m > 0
    BY <1>5
  <2>2. \A x \in 1 .. m : f[x] \in Int
    BY <1>5, <1>13
  <2> HIDE DEF wrong, part, right
  <2> QED BY <2>1, <2>2, AddLast
<1>15. SumFunctionOnSet(w, part(1, m)) \in Int /\ SumFunctionOnSet(w, part(m, m + 1)) \in Int
  <2> HIDE DEF part
  <2> QED BY <1>3, <1>11, SumType
<1>16. SumFunctionOnSet(f, 1 .. m) = SumFunctionOnSet(w, part(1, m + 1))
  <2> HIDE DEF part, right, wrong
  <2> QED BY <1>8, <1>9, <1>12, <1>14, <1>15
<1>17. right(m)
  BY <1>7, <1>16
<1> QED BY <1>2, <1>17

(* The fields of a connection. *)
Zeros == {"AppLimited", "Timestamps", "SendSlots", "RecvSlots", "Signals"}
Fields == PointerFields \cup Zeros \cup {"Protocol", "State", "LocalAddr", "LocalPort", "PeerAddr", "PeerPort"}

(* Connection has the fields of a connection, and only the known ones are  *)
(* set.                                                                    *)
LEMMA ConnectionIs ==
  ASSUME NEW known, NEW f
  PROVE  /\ DOMAIN Connection(known) = PointerFields \cup Zeros \cup DOMAIN known
         /\ f \in DOMAIN known => Connection(known)[f] = known[f]
         /\ f \in PointerFields /\ f \notin DOMAIN known => Connection(known)[f] = None
         /\ f \in {"SendSlots", "RecvSlots"} /\ f \notin DOMAIN known => Connection(known)[f] = <<>>
<1> DEFINE zero == [AppLimited |-> 0, Timestamps |-> FALSE, SendSlots |-> <<>>, RecvSlots |-> <<>>, Signals |-> {}]
<1>1. DOMAIN zero = Zeros /\ Zeros \cap PointerFields = {}
  BY DEF Zeros, PointerFields
<1>2. zero["SendSlots"] = <<>> /\ zero["RecvSlots"] = <<>>
  OBVIOUS
<1>3. Connection(known) = [g \in PointerFields \cup DOMAIN zero \cup DOMAIN known |->
         IF g \in DOMAIN known THEN known[g] ELSE IF g \in DOMAIN zero THEN zero[g] ELSE None]
  BY Zenon DEF Connection
<1> HIDE DEF zero
<1>4. {"SendSlots", "RecvSlots"} \subseteq Zeros
  BY DEF Zeros
<1> QED BY <1>1, <1>2, <1>3, <1>4

-----------------------------------------------------------------------------
(* Rows.                                                                   *)

(* A counter that came with a later kernel.                                *)
Reported(n) == IF scene.counters THEN Shown(n) ELSE None

(* The counters of a row. *)
Counting(c, k) ==
  /\ c.BytesSent = Reported(k.sent) /\ c.BytesRetrans = Reported(k.retrans)
  /\ c.DataSegsIn = Reported(k.data) /\ c.RcvOOOPack = Reported(k.ooo)
  /\ c.BytesReceived = Reported(SegBytes * k.data)
  /\ c.SegsOut = Reported(1) /\ c.SegsIn = Reported(1) /\ c.SndWnd = Reported(65535)
  /\ c.DataSegsOut = None /\ c.BusyMS = None /\ c.Delivered = None

(* What a TCP socket shows beside its counters. *)
Shows(c, k, g) ==
  /\ c.Protocol = "tcp" /\ c.State = "ESTAB" /\ c.PeerAddr = "peer"
  /\ c.SkmemR = g.recvq /\ c.SkmemRB = 100 /\ c.SkmemD = k.drops
  /\ c.Timestamps = TRUE /\ c.CWnd = 10 /\ c.RcvSSThresh = None /\ c.CongAlgo = None
  /\ c.MinRTT = 10 /\ c.RTT = 10 + g.queue /\ c.RcvRTT = 10 + g.queue

(* Nothing that a poll computes is known yet. *)
Fresh(c) ==
  /\ c.SendSlots = <<>> /\ c.RecvSlots = <<>>
  /\ c.HostBufferDrops = None /\ c.HostBacklogDrops = None

(* What ss prints of a TCP socket,                                         *)
LEMMA TcpRowIs ==
  ASSUME NEW s \in Sockets \ UdpSockets, NEW k, NEW g, NEW c, c = Row(s, k, g)
  PROVE  DOMAIN c = Fields /\ c.LocalPort = s /\ Shows(c, k, g) /\ Counting(c, k) /\ Fresh(c)
<1> DEFINE reported(n) == IF scene.counters THEN Shown(n) ELSE None
           known == [Protocol |-> "tcp", State |-> "ESTAB", LocalAddr |-> "host", LocalPort |-> s,
                         PeerAddr |-> "peer", PeerPort |-> "port", RecvQ |-> g.recvq, SendQ |-> 0,
                         SkmemR |-> g.recvq, SkmemRB |-> 100, SkmemD |-> k.drops, Timestamps |-> TRUE,
                         CWnd |-> 10, MSS |-> SegBytes, MinRTT |-> 10, RTT |-> 10 + g.queue,
                         RcvRTT |-> 10 + g.queue,
                         SegsOut |-> reported(1), SegsIn |-> reported(1), SndWnd |-> reported(65535),
                         BytesReceived |-> reported(SegBytes * k.data), DataSegsIn |-> reported(k.data),
                         RcvOOOPack |-> reported(k.ooo), BytesSent |-> reported(k.sent),
                         BytesRetrans |-> reported(k.retrans)]
           names == {"Protocol", "State", "LocalAddr", "LocalPort", "PeerAddr", "PeerPort", "RecvQ", "SendQ",
                     "SkmemR", "SkmemRB", "SkmemD", "Timestamps", "CWnd", "MSS", "MinRTT", "RTT", "RcvRTT",
                     "SegsOut", "SegsIn", "SndWnd", "BytesReceived", "DataSegsIn", "RcvOOOPack", "BytesSent",
                     "BytesRetrans"}
<1>0. s \notin UdpSockets
  OBVIOUS
<1>1. c = Connection(known)
  BY <1>0 DEF Row
<1>2. DOMAIN known = names
  OBVIOUS
<1>3. /\ known["LocalPort"] = s
      /\ known["Protocol"] = "tcp" /\ known["State"] = "ESTAB" /\ known["PeerAddr"] = "peer"
      /\ known["SkmemR"] = g.recvq /\ known["SkmemRB"] = 100 /\ known["SkmemD"] = k.drops
      /\ known["Timestamps"] = TRUE /\ known["CWnd"] = 10
      /\ known["MinRTT"] = 10 /\ known["RTT"] = 10 + g.queue /\ known["RcvRTT"] = 10 + g.queue
      /\ known["BytesSent"] = Reported(k.sent) /\ known["BytesRetrans"] = Reported(k.retrans)
      /\ known["DataSegsIn"] = Reported(k.data) /\ known["RcvOOOPack"] = Reported(k.ooo)
      /\ known["BytesReceived"] = Reported(SegBytes * k.data)
      /\ known["SegsOut"] = Reported(1) /\ known["SegsIn"] = Reported(1) /\ known["SndWnd"] = Reported(65535)
  BY DEF Reported
<1> HIDE DEF known
<1>4. DOMAIN c = Fields
  <2>1. DOMAIN Connection(known) = PointerFields \cup Zeros \cup DOMAIN known
    BY ConnectionIs
  <2>2. Fields = PointerFields \cup Zeros \cup DOMAIN known
    BY <1>2 DEF Fields, PointerFields, Zeros
  <2> QED BY <1>1, <2>1, <2>2
<1>5. \A f \in names : c[f] = known[f]
  BY <1>1, <1>2, ConnectionIs
<1>6. /\ \A f \in {"RcvSSThresh", "CongAlgo", "DataSegsOut", "BusyMS", "Delivered", "HostBufferDrops",
                   "HostBacklogDrops"} : c[f] = None
      /\ \A f \in {"SendSlots", "RecvSlots"} : c[f] = <<>>
  <2>1. /\ {"RcvSSThresh", "CongAlgo", "DataSegsOut", "BusyMS", "Delivered", "HostBufferDrops",
            "HostBacklogDrops"} \subseteq PointerFields \ names
        /\ {"SendSlots", "RecvSlots"} \cap names = {}
    BY DEF PointerFields
  <2> HIDE DEF names
  <2> QED BY <1>1, <1>2, <2>1, ConnectionIs
<1>7. c.LocalPort = s /\ Shows(c, k, g)
  BY <1>3, <1>5, <1>6 DEF Shows
<1>8. Counting(c, k) /\ Fresh(c)
  BY <1>3, <1>5, <1>6 DEF Counting, Fresh
<1> QED BY <1>4, <1>7, <1>8

(* and of a UDP socket.                                                    *)
LEMMA UdpRowIs ==
  ASSUME NEW s \in UdpSockets, NEW k, NEW g, NEW c, c = Row(s, k, g)
  PROVE  DOMAIN c = Fields /\ c.LocalPort = s /\ c.Protocol = "udp" /\ c.PeerAddr = "*"
<1> DEFINE known == [Protocol |-> "udp", State |-> "UDP_IDLE", LocalAddr |-> "host", LocalPort |-> s,
                     PeerAddr |-> "*", PeerPort |-> "*", RecvQ |-> g.recvq, SendQ |-> 0, SkmemR |-> g.recvq,
                     SkmemRB |-> 100, SkmemD |-> k.drops]
<1>1. c = Connection(known)
  BY DEF Row
<1>2. DOMAIN known = {"Protocol", "State", "LocalAddr", "LocalPort", "PeerAddr", "PeerPort", "RecvQ", "SendQ",
                      "SkmemR", "SkmemRB", "SkmemD"}
  OBVIOUS
<1>3. known["LocalPort"] = s /\ known["Protocol"] = "udp" /\ known["PeerAddr"] = "*"
  OBVIOUS
<1> HIDE DEF known
<1>4. DOMAIN c = Fields
  <2>1. DOMAIN Connection(known) = PointerFields \cup Zeros \cup DOMAIN known
    BY ConnectionIs
  <2>2. Fields = PointerFields \cup Zeros \cup DOMAIN known
    BY <1>2 DEF Fields, PointerFields, Zeros
  <2> QED BY <1>1, <2>1, <2>2
<1>5. c["LocalPort"] = s /\ c["Protocol"] = "udp" /\ c["PeerAddr"] = "*"
  BY <1>1, <1>2, <1>3, ConnectionIs
<1> QED BY <1>4, <1>5

-----------------------------------------------------------------------------
(* fillOmittedZeros.                                                       *)

(* fillOmittedZeros, in parts: the groups that some socket vouches for,    *)
(* their fields, and one socket filled.                                    *)
Vouches(cs, g) == \E c \in cs : HasTCPInfo(c) /\ \E f \in g.sentinel : Known(c[f])
Filled(cs) == UNION {g.fields : g \in {g \in OmittedGroups : Vouches(cs, g)}}
Fill(cs, c) == [f \in DOMAIN c |-> IF HasTCPInfo(c) /\ f \in Filled(cs) /\ c[f] = None THEN 0 ELSE c[f]]

(* The parts make the whole.                                               *)
LEMMA FillIs ==
  ASSUME NEW cs
  PROVE  FillOmittedZeros(cs) = {Fill(cs, c) : c \in cs}
BY Zenon DEF FillOmittedZeros, Fill, Filled, Vouches

(* Whether some row has one of these fields. *)
Has(cs, fs) == \E c \in cs : HasTCPInfo(c) /\ \E f \in fs : Known(c[f])

(* The groups whose zeros are filled, for the counters judged here.        *)
LEMMA FilledIs ==
  ASSUME NEW cs, NEW f
  PROVE  f \in Filled(cs) <=>
           \/ f \in {"BytesAcked", "BytesReceived", "SegsOut", "SegsIn"} /\ Has(cs, {"SegsOut"})
           \/ f = "Unacked" /\ Has(cs, {"CWnd"})
           \/ f \in {"BusyMS", "RwndLimitedMS", "SndbufLimitedMS"} /\ Has(cs, {"BusyMS"})
           \/ f \in {"DataSegsOut", "DataSegsIn"} /\ Has(cs, {"DataSegsOut", "DataSegsIn"})
           \/ f \in {"BytesSent", "BytesRetrans", "DSACKDups", "ReordSeen"} /\ Has(cs, {"BytesSent"})
           \/ f \in {"Delivered", "DeliveredCE"} /\ Has(cs, {"Delivered"})
           \/ f = "RcvOOOPack" /\ Has(cs, {"SndWnd"})
<1>1. f \in Filled(cs) <=> \E g \in OmittedGroups : Has(cs, g.sentinel) /\ f \in g.fields
  BY Zenon DEF Filled, Vouches, Has
<1> QED BY <1>1 DEF OmittedGroups

(* Counters that are naturals.                                             *)
Fine(k) == {k.sent, k.retrans, k.data, k.ooo} \subseteq Nat

(* What a socket shows of its counters once the zeros are back. *)
Counts(c, k) ==
  /\ c.BytesSent \in {None, k.sent} /\ c.BytesRetrans \in {None, k.retrans}
  /\ c.DataSegsIn \in {None, k.data} /\ c.RcvOOOPack \in {None, k.ooo}
  /\ c.BytesReceived \in {None, SegBytes * k.data}
  /\ ~scene.counters => /\ c.BytesSent = None /\ c.BytesRetrans = None /\ c.DataSegsIn = None /\ c.SegsIn = None
                        /\ c.RcvOOOPack = None /\ c.BytesReceived = None
  /\ scene.counters /\ k.data > 0 => c.DataSegsIn # None

(* The counters that are known of it since some socket has them. *)
Vouched(c, counts, ports) ==
  scene.counters =>
    /\ (\E s \in ports \ UdpSockets : counts[s].sent > 0) => c.BytesSent # None /\ c.BytesRetrans # None
    /\ (\E s \in ports \ UdpSockets : counts[s].data > 0) => c.DataSegsIn # None
    /\ c.BytesReceived # None /\ c.RcvOOOPack # None

(* nil is no value.                                                        *)
LEMMA NoneIsNoNumber == None \notin Int /\ None # TRUE /\ None # FALSE
BY ClassifierAssumption

(* Filling keeps what is known.                                            *)
LEMMA FillKeeps ==
  ASSUME NEW cs, NEW c, DOMAIN c = Fields
  PROVE  /\ DOMAIN Fill(cs, c) = Fields /\ Fill(cs, c).LocalPort = c.LocalPort
         /\ Fill(cs, c).Protocol = c.Protocol /\ Fill(cs, c).PeerAddr = c.PeerAddr
<1>1. \A f \in {"LocalPort", "Protocol", "PeerAddr"} : f \in Fields /\ f \notin Filled(cs)
  BY FilledIs DEF Fields
<1> QED BY <1>1 DEF Fill

(* What is filled is a counter's zero.                                     *)
LEMMA FillCounts ==
  ASSUME NEW k, Fine(k), NEW g, NEW c, NEW cs,
         DOMAIN c = Fields, Shows(c, k, g), Counting(c, k), Fresh(c),
         \A d \in cs : HasTCPInfo(d) => \E j : Fine(j) /\ Counting(d, j)
  PROVE  /\ Shows(Fill(cs, c), k, g) /\ Counts(Fill(cs, c), k) /\ Fresh(Fill(cs, c))
<1> DEFINE r == Fill(cs, c)
<1>1. HasTCPInfo(c)
  BY NoneIsNoNumber DEF HasTCPInfo, Shows, Known
<1>2. DOMAIN r = Fields
  BY DEF Fill
<1>3. \A f \in Fields : r[f] = IF f \in Filled(cs) /\ c[f] = None THEN 0 ELSE c[f]
  BY <1>1 DEF Fill
<1>4. \A f \in {"LocalPort", "Protocol", "State", "PeerAddr", "SkmemR", "SkmemRB", "SkmemD", "Timestamps", "CWnd",
                "RcvSSThresh", "CongAlgo", "MinRTT", "RTT", "RcvRTT", "SendSlots", "RecvSlots", "HostBufferDrops",
                "HostBacklogDrops"} : f \in Fields /\ f \notin Filled(cs)
  BY FilledIs DEF Fields, PointerFields, Zeros
<1>5. {"BytesSent", "BytesRetrans", "DataSegsIn", "RcvOOOPack", "BytesReceived", "SegsIn"} \subseteq Fields
  BY DEF Fields, PointerFields
<1>6. ~scene.counters => \A f \in {"BytesSent", "BytesRetrans", "DataSegsIn", "RcvOOOPack", "BytesReceived", "SegsIn"} :
                            f \notin Filled(cs)
  <2> SUFFICES ASSUME ~scene.counters
               PROVE  \A f \in {"BytesSent", "BytesRetrans", "DataSegsIn", "RcvOOOPack", "BytesReceived", "SegsIn"} :
                            f \notin Filled(cs)
    OBVIOUS
  <2>1. ASSUME NEW d \in cs, HasTCPInfo(d)
        PROVE  /\ d.BytesSent = None /\ d.DataSegsIn = None /\ d.DataSegsOut = None /\ d.SndWnd = None
               /\ d.SegsOut = None
    BY <2>1 DEF Counting, Reported
  <2>2. ~Has(cs, {"BytesSent"}) /\ ~Has(cs, {"DataSegsOut", "DataSegsIn"})
        /\ ~Has(cs, {"SndWnd"}) /\ ~Has(cs, {"SegsOut"})
    BY <2>1 DEF Has, Known
  <2> QED BY <2>2, FilledIs
<1>7. /\ r["BytesSent"] \in {None, k.sent} /\ r["BytesRetrans"] \in {None, k.retrans}
      /\ r["DataSegsIn"] \in {None, k.data} /\ r["RcvOOOPack"] \in {None, k.ooo}
      /\ r["BytesReceived"] \in {None, SegBytes * k.data}
      /\ ~scene.counters => /\ r["BytesSent"] = None /\ r["BytesRetrans"] = None /\ r["DataSegsIn"] = None
                            /\ r["SegsIn"] = None /\ r["RcvOOOPack"] = None /\ r["BytesReceived"] = None
  <2>1. CASE ~scene.counters
    BY <1>3, <1>5, <1>6, <2>1 DEF Counting, Reported
  <2>2. CASE scene.counters
    <3>1. SegBytes * k.data \in Nat /\ (SegBytes * k.data > 0 \/ SegBytes * k.data = 0)
      BY DEF SegBytes, Fine
    <3>2. /\ c["BytesSent"] = Shown(k.sent) /\ c["BytesRetrans"] = Shown(k.retrans)
          /\ c["DataSegsIn"] = Shown(k.data) /\ c["RcvOOOPack"] = Shown(k.ooo)
          /\ c["BytesReceived"] = Shown(SegBytes * k.data)
      BY <2>2 DEF Counting, Reported
    <3>3. ASSUME NEW n \in Nat, NEW f \in Fields, c[f] = Shown(n)
          PROVE  r[f] \in {None, n}
      BY <1>3, <3>3, NoneIsNoNumber DEF Shown
    <3> QED BY <1>5, <2>2, <3>1, <3>2, <3>3 DEF Fine
  <2> QED BY <2>1, <2>2
<1>8. Shows(r, k, g) /\ Fresh(r) /\ r.LocalPort = c.LocalPort
  BY <1>3, <1>4 DEF Shows, Fresh
<1>10. scene.counters /\ k.data > 0 => r["DataSegsIn"] # None
  <2>1. c["DataSegsIn"] # None \/ ~(scene.counters /\ k.data > 0)
    BY NoneIsNoNumber DEF Counting, Reported, Shown, Fine
  <2> QED BY <1>3, <1>5, <2>1, NoneIsNoNumber
<1>11. Counts(r, k)
  BY <1>7, <1>10 DEF Counts
<1> QED BY <1>2, <1>8, <1>11

(* A counter that a socket of the poll has is known of all. *)
LEMMA FillVouches ==
  ASSUME NEW k, NEW g, NEW c, NEW cs, DOMAIN c = Fields, Shows(c, k, g),
         NEW d \in cs, NEW j, HasTCPInfo(d), Fine(j), Counting(d, j), scene.counters
  PROVE  /\ j.sent > 0 => Fill(cs, c).BytesSent # None /\ Fill(cs, c).BytesRetrans # None
         /\ j.data > 0 => Fill(cs, c).DataSegsIn # None
         /\ Fill(cs, c).BytesReceived # None /\ Fill(cs, c).RcvOOOPack # None
<1> DEFINE r == Fill(cs, c)
<1>1. HasTCPInfo(c)
  BY NoneIsNoNumber DEF HasTCPInfo, Shows, Known
<1>2. \A f \in Fields : r[f] = IF f \in Filled(cs) /\ c[f] = None THEN 0 ELSE c[f]
  BY <1>1 DEF Fill
<1>3. {"BytesSent", "BytesRetrans", "DataSegsIn", "BytesReceived", "RcvOOOPack"} \subseteq Fields
  BY DEF Fields, PointerFields
<1>4. ASSUME j.sent > 0
      PROVE  r["BytesSent"] # None /\ r["BytesRetrans"] # None
  <2>1. d.BytesSent # None
    BY <1>4, NoneIsNoNumber DEF Counting, Reported, Shown, Fine
  <2>2. Has(cs, {"BytesSent"})
    BY <2>1 DEF Has, Known
  <2>3. "BytesSent" \in Filled(cs) /\ "BytesRetrans" \in Filled(cs)
    BY <2>2, FilledIs
  <2> QED BY <1>2, <1>3, <2>3, NoneIsNoNumber
<1>5. ASSUME j.data > 0
      PROVE  r["DataSegsIn"] # None
  <2>1. d.DataSegsIn # None
    BY <1>5, NoneIsNoNumber DEF Counting, Reported, Shown, Fine
  <2>2. Has(cs, {"DataSegsOut", "DataSegsIn"})
    BY <2>1 DEF Has, Known
  <2>3. "DataSegsIn" \in Filled(cs)
    BY <2>2, FilledIs
  <2> QED BY <1>2, <1>3, <2>3, NoneIsNoNumber
<1>6. r["BytesReceived"] # None /\ r["RcvOOOPack"] # None
  <2>1. d.SegsOut # None /\ d.SndWnd # None
    BY NoneIsNoNumber DEF Counting, Reported, Shown
  <2>2. Has(cs, {"SegsOut"}) /\ Has(cs, {"SndWnd"})
    BY <2>1 DEF Has, Known
  <2>3. "BytesReceived" \in Filled(cs) /\ "RcvOOOPack" \in Filled(cs)
    BY <2>2, FilledIs
  <2> QED BY <1>2, <1>3, <2>3, NoneIsNoNumber
<1> QED BY <1>4, <1>5, <1>6

(* The counters of a socket.                                               *)
Amounts == [DOMAIN NoCounts -> Nat]

(* They are naturals.                                                      *)
LEMMA AmountsAreFine ==
  ASSUME NEW k \in Amounts
  PROVE  /\ Fine(k)
         /\ \A f \in {"sent", "retrans", "data", "ooo", "drops", "want", "backlog"} : k[f] \in Nat
BY DEF Amounts, NoCounts, Fine

(* A connection as the poll reads it, with counters k and doing g. *)
Base(c, k, g) ==
  /\ DOMAIN c = Fields
  /\ c.Protocol = IF c.LocalPort \in UdpSockets THEN "udp" ELSE "tcp"
  /\ c.Protocol = "tcp" => Shows(c, k, g) /\ Counts(c, k)
  /\ c.Protocol = "udp" => c.PeerAddr = "*"

(* The rows of ss, and the ports of a snapshot.                            *)
Rows(counts, growth) == {Row(s, counts[s], growth[s]) : s \in Sockets}
Ports(cs) == {c.LocalPort : c \in cs}

(* What a poll lists, once the zeros are filled in. *)
LEMMA ReadIs ==
  ASSUME NEW counts \in [Sockets -> Amounts], NEW growth, NEW a, NEW cs,
         cs = FillOmittedZeros(Listed(Rows(counts, growth), a)), NEW ports, ports = Ports(cs)
  PROVE  /\ ports \subseteq Sockets
         /\ \A c \in cs : /\ Base(c, counts[c.LocalPort], growth[c.LocalPort])
                          /\ c.Protocol = "tcp" => Fresh(c) /\ Vouched(c, counts, ports)
<1> DEFINE L == Listed(Rows(counts, growth), a)
<1>1. ASSUME NEW r \in L
      PROVE  \E s \in Sockets :
               /\ DOMAIN r = Fields /\ r.LocalPort = s
               /\ s \in UdpSockets => r.Protocol = "udp" /\ r.PeerAddr = "*"
               /\ s \notin UdpSockets => Shows(r, counts[s], growth[s]) /\ Counting(r, counts[s]) /\ Fresh(r)
  <2>1. PICK s \in Sockets : r = Row(s, counts[s], growth[s])
    BY DEF Listed, Rows
  <2>2. CASE s \in UdpSockets
    BY <2>1, <2>2, UdpRowIs
  <2>3. CASE s \notin UdpSockets
    BY <2>1, <2>3, TcpRowIs
  <2> QED BY <2>2, <2>3
<1>2. cs = {Fill(L, r) : r \in L}
  BY FillIs
<1> HIDE DEF L
<1>3. \A r \in L : r.LocalPort \in UdpSockets => ~HasTCPInfo(r)
  BY <1>1 DEF HasTCPInfo
<1>4. \A r \in L : HasTCPInfo(r) => Fine(counts[r.LocalPort]) /\ Counting(r, counts[r.LocalPort])
  BY <1>1, <1>3, AmountsAreFine
<1>5. ASSUME NEW r \in L, NEW c, c = Fill(L, r)
      PROVE  /\ c.LocalPort = r.LocalPort /\ r.LocalPort \in Sockets
             /\ Base(c, counts[c.LocalPort], growth[c.LocalPort])
             /\ c.Protocol = "tcp" =>
                  /\ Fresh(c)
                  /\ scene.counters => c.BytesReceived # None /\ c.RcvOOOPack # None
                  /\ \A d \in L : HasTCPInfo(d) /\ scene.counters =>
                       /\ counts[d.LocalPort].sent > 0 => c.BytesSent # None /\ c.BytesRetrans # None
                       /\ counts[d.LocalPort].data > 0 => c.DataSegsIn # None
  <2>1. PICK s \in Sockets :
               /\ DOMAIN r = Fields /\ r.LocalPort = s
               /\ s \in UdpSockets => r.Protocol = "udp" /\ r.PeerAddr = "*"
               /\ s \notin UdpSockets => Shows(r, counts[s], growth[s]) /\ Counting(r, counts[s]) /\ Fresh(r)
    BY <1>1
  <2>2. CASE s \in UdpSockets
    <3>1. DOMAIN c = Fields /\ c.LocalPort = s /\ c.Protocol = "udp" /\ c.PeerAddr = "*"
      BY <1>5, <2>1, <2>2, FillKeeps
    <3> QED BY <2>1, <2>2, <3>1 DEF Base
  <2>3. CASE s \notin UdpSockets
    <3>1. Fine(counts[s])
      BY AmountsAreFine
    <3>2. \A d \in L : HasTCPInfo(d) => \E j : Fine(j) /\ Counting(d, j)
      BY <1>4
    <3>5. PICK k, g : k = counts[s] /\ g = growth[s]
      OBVIOUS
    <3>6. Fine(k) /\ DOMAIN r = Fields /\ Shows(r, k, g) /\ Counting(r, k) /\ Fresh(r)
      BY <2>1, <2>3, <3>1, <3>5
    <3>7. DOMAIN c = Fields /\ c.LocalPort = s /\ Shows(c, k, g) /\ Counts(c, k) /\ Fresh(c)
      <4>1. DOMAIN Fill(L, r) = Fields /\ Fill(L, r).LocalPort = r.LocalPort
        BY <3>6, FillKeeps
      <4>2. Shows(Fill(L, r), k, g)
        BY <3>2, <3>6, FillCounts
      <4>3. Counts(Fill(L, r), k) /\ Fresh(Fill(L, r))
        BY <3>2, <3>6, FillCounts
      <4> QED BY <1>5, <2>1, <4>1, <4>2, <4>3
    <3>8. ASSUME NEW d \in L, HasTCPInfo(d), scene.counters
          PROVE  /\ counts[d.LocalPort].sent > 0 => c.BytesSent # None /\ c.BytesRetrans # None
                 /\ counts[d.LocalPort].data > 0 => c.DataSegsIn # None
      BY <1>4, <1>5, <3>2, <3>6, <3>8, FillVouches
    <3>9. scene.counters => c.BytesReceived # None /\ c.RcvOOOPack # None
      <4>1. HasTCPInfo(r)
        BY <3>6, NoneIsNoNumber DEF HasTCPInfo, Shows, Known
      <4> QED BY <1>5, <3>6, <4>1, FillVouches
    <3>3. c.Protocol = "tcp"
      BY <3>7 DEF Shows
    <3>4. Base(c, counts[s], growth[s])
      BY <2>3, <3>3, <3>5, <3>7 DEF Base
    <3> QED BY <2>1, <3>4, <3>7, <3>8, <3>9
  <2> QED BY <2>2, <2>3
<1>6. ports \subseteq Sockets
  BY <1>2, <1>5 DEF Ports
<1>7. ASSUME NEW s \in ports \ UdpSockets
      PROVE  \E d \in L : d.LocalPort = s /\ HasTCPInfo(d)
  <2>1. PICK r \in L : s = Fill(L, r).LocalPort
    BY <1>2 DEF Ports
  <2>2. r.LocalPort = s
    BY <1>5, <2>1
  <2>3. Shows(r, counts[s], growth[s])
    BY <1>1, <1>7, <2>2
  <2> QED BY <2>2, <2>3, NoneIsNoNumber DEF Shows, HasTCPInfo, Known
<1>8. ASSUME NEW c \in cs
      PROVE  /\ Base(c, counts[c.LocalPort], growth[c.LocalPort])
             /\ c.Protocol = "tcp" => Fresh(c) /\ Vouched(c, counts, ports)
  <2>1. PICK r \in L : c = Fill(L, r)
    BY <1>2
  <2>2. /\ c.LocalPort = r.LocalPort /\ r.LocalPort \in Sockets
        /\ Base(c, counts[c.LocalPort], growth[c.LocalPort])
        /\ c.Protocol = "tcp" =>
             /\ Fresh(c)
             /\ scene.counters => c.BytesReceived # None /\ c.RcvOOOPack # None
             /\ \A d \in L : HasTCPInfo(d) /\ scene.counters =>
                  /\ counts[d.LocalPort].sent > 0 => c.BytesSent # None /\ c.BytesRetrans # None
                  /\ counts[d.LocalPort].data > 0 => c.DataSegsIn # None
    BY <1>5, <2>1
  <2>4. ASSUME c.Protocol = "tcp"
        PROVE  Fresh(c) /\ Vouched(c, counts, ports)
    <3>1. Fresh(c) /\ (scene.counters => c.BytesReceived # None /\ c.RcvOOOPack # None)
      BY <2>2, <2>4
    <3>2. ASSUME scene.counters, NEW s \in ports \ UdpSockets
          PROVE  /\ counts[s].sent > 0 => c.BytesSent # None /\ c.BytesRetrans # None
                 /\ counts[s].data > 0 => c.DataSegsIn # None
      <4>1. PICK d \in L : d.LocalPort = s /\ HasTCPInfo(d)
        BY <1>7, <3>2
      <4> QED BY <2>2, <2>4, <3>2, <4>1
    <3> QED BY <3>1, <3>2 DEF Vouched
  <2> QED BY <2>2, <2>4
<1> QED BY <1>6, <1>8

-----------------------------------------------------------------------------
(* What AddSnapshotAt makes of a poll's connections.                       *)

(* Fields that a connection keeps once it was read. *)
Kept ==
  {"Protocol", "State", "LocalPort", "PeerAddr", "SkmemR", "SkmemRB", "SkmemD", "Timestamps", "CWnd", "MinRTT", "RTT",
   "RcvRTT", "RcvSSThresh", "CongAlgo", "BytesSent", "BytesRetrans", "DataSegsIn", "RcvOOOPack", "BytesReceived",
   "SegsIn", "HostBufferDrops", "HostBacklogDrops"}

(* These are fields.                                                       *)
LEMMA KeptAreFields == Kept \subseteq Fields
BY DEF Kept, Fields, PointerFields, Zeros

(* What is computed from a connection and the same one a poll before. *)
Deltas(c, p, from, to) ==
  /\ c.DeltaBytesSent = Grown(c.BytesSent, p.BytesSent)
  /\ c.DeltaBytesRetrans = Grown(c.BytesRetrans, p.BytesRetrans)
  /\ c.DeltaBytesReceived = Grown(c.BytesReceived, p.BytesReceived)
  /\ c.DeltaDataSegsIn = Grown(c.DataSegsIn, p.DataSegsIn)
  /\ c.DeltaRcvOOOPack = Grown(c.RcvOOOPack, p.RcvOOOPack)
  /\ c.DeltaSkmemD = Grown(c.SkmemD, p.SkmemD)
  /\ c.SendSlots = AdvanceSendSlots(c, p, from, to)
  /\ c.RecvSlots = AdvanceRecvSlots(c, p, from, to)

(* What ComputeDeltas sets of them.                                        *)
Computed == {"DeltaBytesSent", "DeltaBytesRetrans", "DeltaBytesReceived", "DeltaDataSegsIn", "DeltaRcvOOOPack",
             "DeltaSkmemD", "DeltaReordSeen", "SendSlots", "RecvSlots"}

(* ComputeDeltas compares the counters of the two connections.             *)
LEMMA DeltasAre ==
  ASSUME NEW c, DOMAIN c = Fields, NEW p, NEW from, NEW to, NEW d, d = ComputeDeltas(c, p, from, to)
  PROVE  DOMAIN d = Fields /\ (\A f \in Kept : d[f] = c[f]) /\ Deltas(d, p, from, to)
<1> DEFINE e == [f \in Fields |->
                   CASE f \in DOMAIN DeltaOf -> Grown(c[DeltaOf[f]], p[DeltaOf[f]])
                     [] f \in DOMAIN PrevOf  -> p[PrevOf[f]]
                     [] OTHER -> c[f]]
<1>1. d = [e EXCEPT !.SendSlots = AdvanceSendSlots(e, p, from, to), !.RecvSlots = AdvanceRecvSlots(e, p, from, to)]
  BY DEF ComputeDeltas
<1>2. /\ DOMAIN DeltaOf = {"DeltaBytesSent", "DeltaBytesReceived", "DeltaBytesRetrans", "DeltaDSACKDups",
                           "DeltaRcvOOOPack", "DeltaDataSegsIn", "DeltaReordSeen", "DeltaBytesAcked",
                           "DeltaDeliveredCE", "DeltaSkmemD", "DeltaRwndLimitedMS", "DeltaSndbufLimitedMS"}
      /\ DOMAIN PrevOf = {"PrevCWnd", "PrevSendQ", "PrevRecvQ", "PrevUnacked", "PrevDeltaBytesReceived",
                          "PrevDeltaRwndLimitedMS", "PrevDeltaSndbufLimitedMS"}
  BY DEF DeltaOf, PrevOf
<1>3. /\ DeltaOf["DeltaBytesSent"] = "BytesSent" /\ DeltaOf["DeltaBytesRetrans"] = "BytesRetrans"
      /\ DeltaOf["DeltaBytesReceived"] = "BytesReceived" /\ DeltaOf["DeltaDataSegsIn"] = "DataSegsIn"
      /\ DeltaOf["DeltaRcvOOOPack"] = "RcvOOOPack" /\ DeltaOf["DeltaSkmemD"] = "SkmemD"
  BY DEF DeltaOf
<1>4. Computed \subseteq Fields /\ Kept \subseteq Fields
  BY KeptAreFields DEF Computed, Fields, PointerFields, Zeros
<1>5. /\ Kept \cap DOMAIN DeltaOf = {} /\ Kept \cap DOMAIN PrevOf = {}
      /\ "SendSlots" \notin Kept /\ "RecvSlots" \notin Kept
  BY <1>2 DEF Kept
<1>6. \A f \in Kept : e[f] = c[f]
  BY <1>4, <1>5
<1>7. /\ e["DeltaBytesSent"] = Grown(c["BytesSent"], p["BytesSent"])
      /\ e["DeltaBytesRetrans"] = Grown(c["BytesRetrans"], p["BytesRetrans"])
      /\ e["DeltaBytesReceived"] = Grown(c["BytesReceived"], p["BytesReceived"])
      /\ e["DeltaDataSegsIn"] = Grown(c["DataSegsIn"], p["DataSegsIn"])
      /\ e["DeltaRcvOOOPack"] = Grown(c["RcvOOOPack"], p["RcvOOOPack"])
      /\ e["DeltaSkmemD"] = Grown(c["SkmemD"], p["SkmemD"])
  BY <1>2, <1>3, <1>4 DEF Computed
<1>8. DOMAIN e = Fields
  OBVIOUS
<1> HIDE DEF e
<1>9. /\ DOMAIN d = Fields
      /\ d["SendSlots"] = AdvanceSendSlots(e, p, from, to) /\ d["RecvSlots"] = AdvanceRecvSlots(e, p, from, to)
      /\ \A f \in Fields \ {"SendSlots", "RecvSlots"} : d[f] = e[f]
  BY <1>1, <1>4, <1>8 DEF Computed
<1>10. \A f \in Kept : d[f] = c[f]
  BY <1>4, <1>5, <1>6, <1>9
<1>11. /\ \A f \in Computed \ {"SendSlots", "RecvSlots"} : d[f] = e[f]
       /\ \A f \in Kept : d[f] = e[f]
  BY <1>4, <1>6, <1>9, <1>10
<1>12. AdvanceSendSlots(e, p, from, to) = AdvanceSendSlots(d, p, from, to)
  <2>1. /\ d.DeltaBytesSent = e.DeltaBytesSent /\ d.DeltaBytesRetrans = e.DeltaBytesRetrans
        /\ d.DeltaReordSeen = e.DeltaReordSeen /\ d.RTT = e.RTT /\ d.MinRTT = e.MinRTT
    BY <1>11 DEF Computed, Kept
  <2> QED BY <2>1 DEF AdvanceSendSlots
<1>13. AdvanceRecvSlots(e, p, from, to) = AdvanceRecvSlots(d, p, from, to)
  <2>1. /\ d.DeltaBytesReceived = e.DeltaBytesReceived /\ d.DeltaDataSegsIn = e.DeltaDataSegsIn
        /\ d.DeltaRcvOOOPack = e.DeltaRcvOOOPack /\ d.RcvRTT = e.RcvRTT /\ d.Timestamps = e.Timestamps
    BY <1>11 DEF Computed, Kept
  <2> QED BY <2>1 DEF AdvanceRecvSlots
<1>14. Deltas(d, p, from, to)
  <2>1. \A f \in {"BytesSent", "BytesRetrans", "BytesReceived", "DataSegsIn", "RcvOOOPack", "SkmemD"} : d[f] = c[f]
    BY <1>10 DEF Kept
  <2>2. \A f \in {"DeltaBytesSent", "DeltaBytesRetrans", "DeltaBytesReceived", "DeltaDataSegsIn", "DeltaRcvOOOPack",
             "DeltaSkmemD"} : d[f] = e[f]
    BY <1>11 DEF Computed
  <2> QED BY <1>7, <1>9, <1>12, <1>13, <2>1, <2>2 DEF Deltas
<1> QED BY <1>9, <1>10, <1>14

(* From the same socket, a poll later. *)
Follows(c, r, from, to) ==
  /\ \A f \in Kept : c[f] = r[f]
  /\ (\E p \in conns : p.LocalPort = r.LocalPort) =>
       \E p \in conns : p.LocalPort = r.LocalPort /\ Deltas(c, p, from, to)
  /\ (\A p \in conns : p.LocalPort # r.LocalPort) => c.SendSlots = r.SendSlots /\ c.RecvSlots = r.RecvSlots

(* What paths and classifier add.                                          *)
Added == {"PathMinRTT", "PathSendQueueMS", "PathRecvQueueMS", "Signals"}

(* These are fields, and other ones.                                       *)
LEMMA AddedAre ==
  /\ Added \cap Kept = {} /\ Added \cap Computed = {} /\ Added \subseteq Fields
  /\ "LocalPort" \in Kept /\ "PeerAddr" \in Kept /\ "MinRTT" \in Kept
BY DEF Added, Kept, Computed, Fields, PointerFields, Zeros

(* The values of the fields that a delta needs. *)
LEMMA DeltasCarry ==
  ASSUME NEW c, NEW d, NEW r, NEW from, NEW to,
         \A f \in Fields \ Added : d[f] = c[f], Follows(c, r, from, to)
  PROVE  Follows(d, r, from, to)
<1>1. \A f \in Kept : f \in Fields \ Added /\ d[f] = c[f]
  BY AddedAre, KeptAreFields
<1>2. \A f \in Computed : f \in Fields \ Added /\ d[f] = c[f]
  BY AddedAre DEF Computed, Fields, PointerFields, Zeros
<1>3. d.SendSlots = c.SendSlots /\ d.RecvSlots = c.RecvSlots
  BY <1>2 DEF Computed
<1>4. ASSUME NEW p, Deltas(c, p, from, to)
      PROVE  Deltas(d, p, from, to)
  <2>1. \A f \in {"DeltaBytesSent", "DeltaBytesRetrans", "DeltaBytesReceived", "DeltaDataSegsIn", "DeltaRcvOOOPack",
                  "DeltaSkmemD", "DeltaReordSeen"} : d[f] = c[f]
    BY <1>2 DEF Computed
  <2>2. \A f \in {"BytesSent", "BytesRetrans", "BytesReceived", "DataSegsIn", "RcvOOOPack", "SkmemD", "RTT", "MinRTT",
                  "RcvRTT", "Timestamps"} : d[f] = c[f]
    BY <1>1 DEF Kept
  <2>3. AdvanceSendSlots(d, p, from, to) = AdvanceSendSlots(c, p, from, to)
    BY <2>1, <2>2 DEF AdvanceSendSlots
  <2>4. AdvanceRecvSlots(d, p, from, to) = AdvanceRecvSlots(c, p, from, to)
    BY <2>1, <2>2 DEF AdvanceRecvSlots
  <2> QED BY <1>3, <1>4, <2>1, <2>2, <2>3, <2>4 DEF Deltas
<1> QED BY <1>1, <1>3, <1>4 DEF Follows

(* With its path, and its signals last. *)
Signed(c) ==
  \E d, ds : /\ DOMAIN d = Fields /\ \A f \in Fields \ {"Signals"} : c[f] = d[f]
             /\ c.Signals = Classify(d) \cup AggregateSignals(d, ds)

(* AddSnapshotAt: each connection of the snapshot follows one read, and is *)
(* signed.                                                                 *)
LEMMA AddedIs ==
  ASSUME NEW cs, \A r \in cs : DOMAIN r = Fields,
         \A r \in cs : r.PeerAddr = "peer" => r.MinRTT = 10,
         NEW from, NEW to
  PROVE  \A c \in AddSnapshotAt(cs, from, to) :
           /\ DOMAIN c = Fields
           /\ \E r \in cs : Follows(c, r, from, to)
           /\ c.PeerAddr = "peer" => c.PathMinRTT \in {None, 10}
           /\ Signed(c)
<1> DEFINE last(c) == {p \in conns : p.LocalPort = c.LocalPort}
           delta(c) == IF last(c) = {} THEN c ELSE ComputeDeltas(c, CHOOSE p \in last(c) : TRUE, from, to)
           deltas == {delta(c) : c \in cs}
           paths == WithPathMinRTT(deltas)
           queues == WithPathQueues(paths)
<1>1. AddSnapshotAt(cs, from, to) = Classified(queues)
  BY Zenon DEF AddSnapshotAt
<1>2. ASSUME NEW x \in deltas
      PROVE  DOMAIN x = Fields /\ \E r \in cs : Follows(x, r, from, to)
  <2>1. PICK r \in cs : x = delta(r)
    OBVIOUS
  <2>2. CASE last(r) = {}
    <3>1. x = r
      BY <2>1, <2>2
    <3>2. \A p \in conns : p.LocalPort # r.LocalPort
      BY <2>2
    <3> QED BY <3>1, <3>2 DEF Follows
  <2>3. CASE last(r) # {}
    <3>1. PICK p : p = CHOOSE q \in last(r) : TRUE
      OBVIOUS
    <3>2. p \in conns /\ p.LocalPort = r.LocalPort
      BY <2>3, <3>1
    <3>3. x = ComputeDeltas(r, p, from, to)
      BY <2>1, <2>3, <3>1
    <3>4. DOMAIN x = Fields /\ (\A f \in Kept : x[f] = r[f]) /\ Deltas(x, p, from, to)
      BY <3>3, DeltasAre
    <3> QED BY <3>2, <3>4 DEF Follows
  <2> QED BY <2>2, <2>3
<1> HIDE DEF deltas
<1>3. ASSUME NEW x \in deltas, x.PeerAddr = "peer"
      PROVE  x.MinRTT = 10
  <2>1. PICK r \in cs : Follows(x, r, from, to)
    BY <1>2
  <2>2. r.PeerAddr = x.PeerAddr /\ r.MinRTT = x.MinRTT
    BY <2>1, AddedAre DEF Follows
  <2> QED BY <1>3, <2>2
<1>4. ASSUME NEW y \in paths
      PROVE  /\ DOMAIN y = Fields /\ \E r \in cs : Follows(y, r, from, to)
             /\ y.PeerAddr = "peer" => y.PathMinRTT \in {None, 10}
  <2>1. PICK x, t :
          /\ x \in deltas
          /\ t = LET known == {d.MinRTT : d \in {d \in SamePeer(deltas, x) : Above(d.MinRTT, 0)}}
                 IN  IF known = {} THEN None ELSE Min(known)
          /\ y = [x EXCEPT !.PathMinRTT = t]
    BY DEF WithPathMinRTT
  <2>2. PICK r \in cs : Follows(x, r, from, to)
    BY <1>2, <2>1
  <2>3. DOMAIN x = Fields
    BY <1>2, <2>1
  <2>4. DOMAIN y = Fields /\ \A f \in Fields \ Added : y[f] = x[f]
    BY <2>1, <2>3 DEF Added
  <2>5. Follows(y, r, from, to)
    BY <2>2, <2>4, DeltasCarry
  <2>6. ASSUME x.PeerAddr = "peer"
        PROVE  t \in {None, 10}
    <3> DEFINE known == {d.MinRTT : d \in {d \in SamePeer(deltas, x) : Above(d.MinRTT, 0)}}
    <3>1. known \subseteq {10}
      BY <1>3, <2>6 DEF SamePeer
    <3>2. t = IF known = {} THEN None ELSE Min(known)
      BY <2>1
    <3>3. Min({10}) = 10
      BY DEF Min
    <3> HIDE DEF known
    <3>4. known = {} \/ known = {10}
      BY <3>1
    <3> QED BY <3>2, <3>3, <3>4
  <2>7. y["PeerAddr"] = x["PeerAddr"] /\ y["PathMinRTT"] = t
    BY <2>1, <2>3, <2>4, AddedAre, KeptAreFields DEF Added
  <2> QED BY <2>4, <2>5, <2>6, <2>7
<1> HIDE DEF paths
<1>5. ASSUME NEW z \in queues
      PROVE  /\ DOMAIN z = Fields /\ \E r \in cs : Follows(z, r, from, to)
             /\ z.PeerAddr = "peer" => z.PathMinRTT \in {None, 10}
  <2> DEFINE send(c) == WeightedQuantile(SamplesOf(SamePeer(paths, c), "SendSlots", "queue", "sent", 0), 1, 2)
             recv(c) == IF c.PathMinRTT = None THEN None
                        ELSE WeightedQuantile(
                               SamplesOf(SamePeer(paths, c), "RecvSlots", "rtts", "segs", c.PathMinRTT), 3, 4)
             queued(c) == [c EXCEPT !.PathSendQueueMS = send(c), !.PathRecvQueueMS = recv(c)]
  <2>0. queues = {queued(c) : c \in paths}
    BY Zenon DEF WithPathQueues
  <2>1. PICK y, t, u : y \in paths /\ z = [y EXCEPT !.PathSendQueueMS = t, !.PathRecvQueueMS = u]
    <3>1. PICK y \in paths : z = queued(y)
      <4> HIDE DEF queued, queues
      <4> QED BY <2>0
    <3>2. PICK t, u : t = send(y) /\ u = recv(y)
      OBVIOUS
    <3>3. z = [y EXCEPT !.PathSendQueueMS = t, !.PathRecvQueueMS = u]
      BY Zenon, <3>1, <3>2
    <3> QED BY Zenon, <3>3
  <2>2. PICK r \in cs : Follows(y, r, from, to)
    BY <1>4, <2>1
  <2>3. DOMAIN y = Fields
    BY <1>4, <2>1
  <2>4. DOMAIN z = Fields /\ \A f \in Fields \ {"PathSendQueueMS", "PathRecvQueueMS"} : z[f] = y[f]
    BY <2>1, <2>3
  <2>5. Follows(z, r, from, to)
    BY <2>2, <2>4, DeltasCarry DEF Added
  <2>6. z["PeerAddr"] = y["PeerAddr"] /\ z["PathMinRTT"] = y["PathMinRTT"]
    BY <2>4 DEF Fields, PointerFields
  <2> QED BY <1>4, <2>1, <2>2, <2>4, <2>5, <2>6
<1> HIDE DEF queues
<1>6. ASSUME NEW c \in Classified(queues)
      PROVE  /\ DOMAIN c = Fields
             /\ \E r \in cs : Follows(c, r, from, to)
             /\ c.PeerAddr = "peer" => c.PathMinRTT \in {None, 10}
             /\ Signed(c)
  <2>1. PICK z \in queues : c = [z EXCEPT !.Signals = Classify(z) \cup AggregateSignals(z, queues)]
    BY Zenon DEF Classified
  <2>2. PICK t : t = Classify(z) \cup AggregateSignals(z, queues)
    OBVIOUS
  <2>3. PICK r \in cs : Follows(z, r, from, to)
    BY <1>5
  <2>4. DOMAIN z = Fields
    BY <1>5
  <2>5. DOMAIN c = Fields /\ c.Signals = t /\ \A f \in Fields \ {"Signals"} : c[f] = z[f]
    BY <2>1, <2>2, <2>4, AddedAre DEF Added
  <2>6. Follows(c, r, from, to)
    BY <2>3, <2>5, DeltasCarry DEF Added
  <2>7. c["PeerAddr"] = z["PeerAddr"] /\ c["PathMinRTT"] = z["PathMinRTT"]
    BY <2>5 DEF Fields, PointerFields
  <2>8. Signed(c)
    BY <2>2, <2>4, <2>5 DEF Signed
  <2> QED BY <1>5, <2>5, <2>6, <2>7, <2>8
<1> QED BY <1>1, <1>6

(* A signal has the type and severity it was made with,                    *)
LEMMA WhenIs ==
  ASSUME NEW holds, NEW type, NEW sev
  PROVE  \A x \in When(holds, type, sev) : x.type = type /\ x.sev = sev
BY DEF When

(* and a tiered one is there from severity 1 on.                           *)
LEMMA TieredIs ==
  ASSUME NEW type, NEW sev
  PROVE  /\ \A x \in Tiered(type, sev) : x.type = type /\ x.sev = sev /\ sev > 0
         /\ sev > 0 => \E x \in Tiered(type, sev) : x.type = type /\ x.sev = sev
<1>1. Tiered(type, sev) = IF sev > 0 THEN {[type |-> type, sev |-> sev]} ELSE {}
  BY Zenon DEF When, Tiered
<1>2. CASE sev > 0
  <2>1. PICK r : r = [type |-> type, sev |-> sev]
    OBVIOUS
  <2>2. r.type = type /\ r.sev = sev
    BY <2>1
  <2>3. Tiered(type, sev) = {r}
    BY <1>1, <1>2, <2>1
  <2> QED BY <1>2, <2>2, <2>3
<1>3. CASE ~(sev > 0)
  BY <1>1, <1>3
<1> QED BY <1>2, <1>3

(* Loss signals come from the loss tests alone, and drops from none of     *)
(* these.                                                                  *)
LEMMA TcpSignalsAre ==
  ASSUME NEW d
  PROVE  \A x \in TcpSignals(d) :
           /\ x.type # "DROPS"
           /\ x.type = "PATH_LOSS" => x.sev = PathLoss(d)
           /\ x.type = "RX_LOSS" => x.sev = InboundLoss(d)
<1>1. \A x \in RttSignal(d) : x.type = "RTT_SPIKE"
  BY TieredIs DEF RttSignal
<1>2. \A x \in LimitSignals(d) : x.type \in {"RWND_LIM", "SNDBUF_LIM", "RCVBUF_LIM"}
  BY TieredIs, WhenIs DEF LimitSignals
<1>3. \A x \in StallSignals(d) : x.type \in {"RTO", "NO_ACK"}
  BY TieredIs DEF StallSignals
<1>4. \A x \in InfoSignals(d) :
        x.type \in {"RETRANS", "APP_LIM", "IDLE", "LOSS", "SEND_Q", "HI_RETRANS", "CWND_LIM", "CWND_DROP", "DSACK"}
  BY DEF InfoSignals, When
<1> SUFFICES ASSUME NEW x \in TcpSignals(d)
             PROVE  /\ x.type # "DROPS"
                    /\ x.type = "PATH_LOSS" => x.sev = PathLoss(d)
                    /\ x.type = "RX_LOSS" => x.sev = InboundLoss(d)
  OBVIOUS
<1>5. \/ x.type \in {"SYN_STALL", "ZERO_WIN", "PMTU", "RCV_Q", "REORDER"}
      \/ x.type = "PATH_LOSS" /\ x.sev = PathLoss(d)
      \/ x.type = "RX_LOSS" /\ x.sev = InboundLoss(d)
      \/ x \in RttSignal(d) \/ x \in LimitSignals(d) \/ x \in StallSignals(d) \/ x \in InfoSignals(d)
  BY TieredIs, WhenIs DEF TcpSignals
<1> QED BY <1>1, <1>2, <1>3, <1>4, <1>5

(* What the signals of an established TCP socket tell of it.               *)
LEMMA SignalsSay ==
  ASSUME NEW c, Signed(c), c.Protocol = "tcp", c.State = "ESTAB"
  PROVE  /\ Warned(c, "PATH_LOSS") <=> PathLoss(c) > 0
         /\ Warned(c, "RX_LOSS") <=> InboundLoss(c) > 0
         /\ Warned(c, "DROPS") => ~(Known(c.HostBufferDrops) /\ ~c.HostBufferDrops)
         /\ /\ c.DeltaSkmemD \in Nat \ {0} /\ ~NoDataArrived(c) /\ ~OwnDiscards(c)
            /\ ~Above(c.DeltaRcvOOOPack, 0)
            => Warned(c, "DROPS")
<1>1. PICK d, ds : /\ DOMAIN d = Fields /\ \A f \in Fields \ {"Signals"} : c[f] = d[f]
                   /\ c.Signals = Classify(d) \cup AggregateSignals(d, ds)
  BY DEF Signed
<1>2. \A f \in {"Protocol", "State", "SendSlots", "RecvSlots", "CongAlgo", "MinRTT", "PathSendQueueMS",
                "PathRecvQueueMS", "PathMinRTT", "HostBufferDrops", "HostBacklogDrops", "DeltaSkmemD", "SkmemR",
                "SkmemRB", "RcvSSThresh", "AdvMSS", "DeltaDataSegsIn", "DataSegsIn", "SegsIn", "DeltaRcvOOOPack"} :
        f \in Fields \ {"Signals"}
  BY DEF Fields, PointerFields, Zeros
<1>3. /\ c.Protocol = d.Protocol /\ c.State = d.State /\ c.SendSlots = d.SendSlots /\ c.RecvSlots = d.RecvSlots
      /\ c.CongAlgo = d.CongAlgo /\ c.MinRTT = d.MinRTT /\ c.PathSendQueueMS = d.PathSendQueueMS
      /\ c.PathRecvQueueMS = d.PathRecvQueueMS /\ c.PathMinRTT = d.PathMinRTT
      /\ c.HostBufferDrops = d.HostBufferDrops /\ c.HostBacklogDrops = d.HostBacklogDrops
      /\ c.DeltaSkmemD = d.DeltaSkmemD /\ c.SkmemR = d.SkmemR /\ c.SkmemRB = d.SkmemRB
      /\ c.RcvSSThresh = d.RcvSSThresh /\ c.AdvMSS = d.AdvMSS
      /\ c.DeltaDataSegsIn = d.DeltaDataSegsIn /\ c.DataSegsIn = d.DataSegsIn /\ c.SegsIn = d.SegsIn
      /\ c.DeltaRcvOOOPack = d.DeltaRcvOOOPack
  BY <1>1, <1>2
<1>4. PathLoss(c) = PathLoss(d) /\ InboundLoss(c) = InboundLoss(d)
  <2>1. \A slots : Steady(c, slots) = Steady(d, slots) /\ Gappy(c, slots) = Gappy(d, slots)
    BY <1>3 DEF Steady, Gappy
  <2> QED BY <1>3, <2>1 DEF PathLoss, InboundLoss
<1>5. /\ OwnDiscards(c) = OwnDiscards(d) /\ NoDataArrived(c) = NoDataArrived(d)
      /\ Above(c.DeltaRcvOOOPack, 0) = Above(d.DeltaRcvOOOPack, 0)
  BY <1>3 DEF OwnDiscards, Roomy, WindowCutForMemory, NoDataArrived
<1>6. AggregateSignals(d, ds) = {}
  BY <1>3 DEF AggregateSignals
<1> DEFINE signals == DropSignal(d) \cup TcpSignals(d)
<1>7. c.Signals = IF ExplainedByLoss(d, signals)
                    THEN {s \in signals : s.type # "DROPS"} \cup When(TRUE, "DROPS", 0) ELSE signals
  BY <1>1, <1>3, <1>6 DEF Classify
<1>8. \A x \in DropSignal(d) :
        /\ x.type = "DROPS"
        /\ x.sev = IF NoDataArrived(d) \/ OwnDiscards(d) THEN 0 ELSE Tier(d.DeltaSkmemD, 1, 11)
  BY <1>3, WhenIs DEF DropSignal
<1>9. ASSUME NEW x \in c.Signals, x.sev > 0
      PROVE  /\ x.type = "PATH_LOSS" => PathLoss(c) > 0
             /\ x.type = "RX_LOSS" => InboundLoss(c) > 0
             /\ x.type = "DROPS" => ~OwnDiscards(d)
  <2>1. x \in TcpSignals(d) \/ x \in DropSignal(d) \/ (x.type = "DROPS" /\ x.sev = 0)
    <3>1. \A y \in When(TRUE, "DROPS", 0) : y.type = "DROPS" /\ y.sev = 0
      BY DEF When
    <3> QED BY <1>7, <3>1
  <2> QED BY <1>4, <1>8, <1>9, <2>1, TcpSignalsAre
<1>10. Warned(c, "DROPS") => ~(Known(c.HostBufferDrops) /\ ~c.HostBufferDrops)
  BY <1>3, <1>9 DEF Warned, OwnDiscards
<1>11. ASSUME /\ c.DeltaSkmemD \in Nat \ {0} /\ ~NoDataArrived(c) /\ ~OwnDiscards(c)
              /\ ~Above(c.DeltaRcvOOOPack, 0)
       PROVE  Warned(c, "DROPS")
  <2>1. ~ExplainedByLoss(d, signals)
    BY <1>5, <1>11 DEF ExplainedByLoss
  <2>2. Above(d.DeltaSkmemD, 0)
    BY <1>3, <1>11, NoneIsNoNumber DEF Above
  <2>3. \E x \in DropSignal(d) : TRUE
    BY <2>2 DEF DropSignal, When
  <2>4. Tier(d.DeltaSkmemD, 1, 11) > 0
    BY <1>3, <1>11 DEF Tier
  <2>5. PICK x \in DropSignal(d) : x.type = "DROPS" /\ x.sev > 0
    BY <1>5, <1>8, <1>11, <2>3, <2>4
  <2> QED BY <1>7, <2>1, <2>5 DEF Warned
<1>12. \A x \in TcpSignals(d) : x \in c.Signals
  BY <1>7, TcpSignalsAre
<1>13. PathLoss(c) > 0 => Warned(c, "PATH_LOSS")
  <2>1. PathLoss(d) > 0 => \E x \in TcpSignals(d) : x.type = "PATH_LOSS" /\ x.sev = PathLoss(d)
    BY TieredIs DEF TcpSignals
  <2> QED BY <1>4, <1>12, <2>1 DEF Warned
<1>14. InboundLoss(c) > 0 => Warned(c, "RX_LOSS")
  <2>1. InboundLoss(d) > 0 => \E x \in TcpSignals(d) : x.type = "RX_LOSS" /\ x.sev = InboundLoss(d)
    BY TieredIs DEF TcpSignals
  <2> QED BY <1>4, <1>12, <2>1 DEF Warned
<1>15. Warned(c, "PATH_LOSS") => PathLoss(c) > 0
  BY <1>9 DEF Warned
<1>16. Warned(c, "RX_LOSS") => InboundLoss(c) > 0
  BY <1>9 DEF Warned
<1> QED BY <1>10, <1>11, <1>13, <1>14, <1>15, <1>16

-----------------------------------------------------------------------------
(* Slots and the polls they hold.                                          *)

(* A poll of the log.                                                      *)
Snap == [at : Nat, kernel : [Sockets -> Amounts], found : [Sockets -> Growth], listed : SUBSET Sockets, sys : BOOLEAN]

(* No counter of a socket falls, and drops grow by what wanted a buffer.   *)
Rises(j, k) ==
  /\ \A f \in DOMAIN NoCounts : j[f] <= k[f]
  /\ k.want - j.want <= k.drops - j.drops

(* The log: polls in the order of time, and counters that never fall.      *)
LogIs(l) ==
  /\ l \in Seq(Snap)
  /\ \A i, j \in 1 .. Len(l) : i < j => l[i].at < l[j].at /\ \A s \in Sockets : Rises(l[i].kernel[s], l[j].kernel[s])

(* Growth of a counter up to the k-th poll of a log.                       *)
Grew(l, k, s, f) == l[k].kernel[s][f] - l[k - 1].kernel[s][f]

(* The two kinds of slot.                                                  *)
Sending == [amount |-> "sent", counter |-> "sent", unit |-> 1, loss |-> "retrans", samples |-> "queue", base |-> 0]
Receiving == [amount |-> "segs", counter |-> "data", unit |-> SegBytes, loss |-> "ooo", samples |-> "rtts", base |-> 10]
Ways == {Sending, Receiving}

(* Both ways name counters of the kernel.                                  *)
LEMMA WaysAre ==
  \A w \in Ways : /\ {w.amount, w.loss} \cap {"start", "end", "queue", "rtts"} = {} /\ w.amount # w.loss
                  /\ w.samples \in {"queue", "rtts"}
                  /\ w.unit \in Nat /\ w.base \in Nat
                  /\ w.counter \in DOMAIN NoCounts /\ w.loss \in DOMAIN NoCounts
BY DEF Ways, Sending, Receiving, NoCounts, SegBytes

(* The polls that moved enough for a slot, what each moved, and those with *)
(* no queue; and the samples below a bound.                                *)
Bulk(l, s, w) == {k \in 2 .. Len(l) : w.unit * Grew(l, k, s, w.counter) >= SlotMinBytes}
Moves(l, s, f) == [k \in Nat |-> Grew(l, k, s, f)]
Short(l, s) == {k \in 2 .. Len(l) : l[k].found[s].queue < 4}
Below(q, n) == {j \in DOMAIN q : q[j] < n}

(* A slot holds the bulk polls after the i-th, up to the j-th, and begins  *)
(* with one.                                                               *)
SlotIs(x, l, s, w, i, j) ==
  /\ x.start = l[i].at /\ x.end \in Int /\ i + 1 \in Bulk(l, s, w)
  /\ x[w.amount] = SumFunctionOnSet(Moves(l, s, w.counter), Bulk(l, s, w) \cap ((i + 1) .. j))
  /\ x[w.loss] = SumFunctionOnSet(Moves(l, s, w.loss), Bulk(l, s, w) \cap ((i + 1) .. j))
  /\ x[w.loss] \in Nat
  /\ x[w.loss] > 0 => \E k \in Bulk(l, s, w) \cap ((i + 1) .. j) : Grew(l, k, s, w.loss) > 0
  /\ x[w.samples] \in Seq(Int) /\ x[w.samples] # <<>>
  /\ Len(x[w.samples]) = Cardinality(Bulk(l, s, w) \cap ((i + 1) .. j))
  /\ Cardinality(Below(x[w.samples], w.base + 4)) = Cardinality(Bulk(l, s, w) \cap Short(l, s) \cap ((i + 1) .. j))

(* A counter grows.                                                        *)
LEMMA GrewIsNat ==
  ASSUME NEW l, LogIs(l), NEW k \in 2 .. Len(l), NEW s \in Sockets, NEW f \in DOMAIN NoCounts
  PROVE  Grew(l, k, s, f) \in Nat
<1>1. Len(l) \in Nat
  BY DEF LogIs
<1>2. k \in 1 .. Len(l) /\ k - 1 \in 1 .. Len(l) /\ k - 1 < k
  BY <1>1
<1>3. Rises(l[k - 1].kernel[s], l[k].kernel[s])
  BY <1>2 DEF LogIs
<1>4. l[k - 1].kernel[s] \in Amounts /\ l[k].kernel[s] \in Amounts
  <2>1. l[k - 1] \in Snap /\ l[k] \in Snap
    BY <1>2 DEF LogIs
  <2> QED BY <2>1 DEF Snap
<1>5. l[k - 1].kernel[s][f] \in Nat /\ l[k].kernel[s][f] \in Nat
  BY <1>4 DEF Amounts
<1> QED BY <1>3, <1>5 DEF Grew, Rises

(* One more poll changes nothing of the earlier ones. *)
Extends(m, l) == Len(l) \in Nat /\ Len(m) = Len(l) + 1 /\ \A k \in 1 .. Len(l) : m[k] = l[k]

(* Appending extends a log.                                                *)
LEMMA AppendExtends ==
  ASSUME NEW l, LogIs(l), NEW e, NEW m, m = Append(l, e)
  PROVE  Extends(m, l) /\ m[Len(m)] = e
BY DEF LogIs, Extends

(* What is known of a poll stays so: its growth,                           *)
LEMMA GrewStays ==
  ASSUME NEW l, NEW m, Extends(m, l), NEW k \in 2 .. Len(l), NEW s, NEW f
  PROVE  Grew(m, k, s, f) = Grew(l, k, s, f)
<1>1. m[k] = l[k] /\ m[k - 1] = l[k - 1]
  BY DEF Extends
<1> QED BY <1>1 DEF Grew

(* whether it moved enough,                                                *)
LEMMA BulkStays ==
  ASSUME NEW l, NEW m, Extends(m, l), NEW s, NEW w
  PROVE  Bulk(l, s, w) = Bulk(m, s, w) \cap (2 .. Len(l))
<1>1. \A k \in 2 .. Len(l) : Grew(m, k, s, w.counter) = Grew(l, k, s, w.counter)
  BY GrewStays
<1> QED BY <1>1 DEF Bulk, Extends

(* and whether it found a queue.                                           *)
LEMMA ShortStays ==
  ASSUME NEW l, NEW m, Extends(m, l), NEW s
  PROVE  Short(l, s) = Short(m, s) \cap (2 .. Len(l))
BY DEF Short, Extends

(* What a slot held it holds still. *)
LEMMA SlotStays ==
  ASSUME NEW l, NEW m, Extends(m, l), LogIs(l), NEW s \in Sockets, NEW w \in Ways,
         NEW x, NEW i \in 1 .. Len(l), NEW j \in 1 .. Len(l), SlotIs(x, l, s, w, i, j)
  PROVE  SlotIs(x, m, s, w, i, j)
<1>1. /\ Len(m) = Len(l) + 1 /\ Len(l) \in Nat
      /\ \A k \in 1 .. Len(l) : m[k] = l[k]
      /\ Bulk(l, s, w) = Bulk(m, s, w) \cap (2 .. Len(l))
      /\ Short(l, s) = Short(m, s) \cap (2 .. Len(l))
  BY BulkStays, ShortStays DEF Extends
<1>2. ((i + 1) .. j) \subseteq 2 .. Len(l)
  BY <1>1
<1>3. /\ Bulk(l, s, w) \cap ((i + 1) .. j) = Bulk(m, s, w) \cap ((i + 1) .. j)
      /\ Bulk(l, s, w) \cap Short(l, s) \cap ((i + 1) .. j) = Bulk(m, s, w) \cap Short(m, s) \cap ((i + 1) .. j)
  BY <1>1, <1>2
<1>4. PICK B : B = Bulk(l, s, w) \cap ((i + 1) .. j)
  OBVIOUS
<1>5. \A k \in B : k \in 2 .. Len(l)
  BY <1>2, <1>4
<1>6. ASSUME NEW f \in {w.counter, w.loss}
      PROVE  SumFunctionOnSet(Moves(l, s, f), B) = SumFunctionOnSet(Moves(m, s, f), B)
  <2>1. IsFiniteSet(B)
    <3>1. IsFiniteSet((i + 1) .. j)
      BY <1>1, FS_Interval
    <3> QED BY <1>4, <3>1, FS_Subset
  <2>2. ASSUME NEW k \in B
        PROVE  Moves(l, s, f)[k] \in Int /\ Moves(l, s, f)[k] = Moves(m, s, f)[k]
    <3>1. k \in Nat /\ k \in 2 .. Len(l)
      BY <1>1, <1>5
    <3>2. Grew(l, k, s, f) \in Nat
      BY <3>1, GrewIsNat, WaysAre
    <3>3. Grew(m, k, s, f) = Grew(l, k, s, f)
      BY <3>1, GrewStays
    <3> QED BY <3>1, <3>2, <3>3 DEF Moves
  <2> QED BY <2>1, <2>2, SumSame
<1>7. \A k \in B : Grew(m, k, s, w.loss) = Grew(l, k, s, w.loss)
  BY <1>5, GrewStays
<1>8. l[i] = m[i]
  BY <1>1
<1>9. /\ SumFunctionOnSet(Moves(l, s, w.counter), B) = SumFunctionOnSet(Moves(m, s, w.counter), B)
      /\ SumFunctionOnSet(Moves(l, s, w.loss), B) = SumFunctionOnSet(Moves(m, s, w.loss), B)
  BY <1>6
<1>10. \A k \in Bulk(l, s, w) : k \in Bulk(m, s, w)
  BY <1>1
<1> QED BY <1>3, <1>4, <1>7, <1>8, <1>9, <1>10 DEF SlotIs

(* And it spans a poll that moved little. *)
LEMMA SlotSpans ==
  ASSUME NEW l, LogIs(l), NEW s \in Sockets, NEW w \in Ways, NEW x, NEW i \in Nat, NEW j \in Nat,
         SlotIs(x, l, s, w, i, j), j + 1 \notin Bulk(l, s, w)
  PROVE  SlotIs(x, l, s, w, i, j + 1)
<1>1. /\ Bulk(l, s, w) \cap ((i + 1) .. j) = Bulk(l, s, w) \cap ((i + 1) .. (j + 1))
      /\ Bulk(l, s, w) \cap Short(l, s) \cap ((i + 1) .. j) = Bulk(l, s, w) \cap Short(l, s) \cap ((i + 1) .. (j + 1))
  <2>1. \A k \in Bulk(l, s, w) : k \in Int
    BY DEF Bulk, LogIs
  <2> QED BY <2>1
<1> QED BY <1>1 DEF SlotIs

(* What the last poll adds to the slots. *)
PartIs(x, l, s, w) ==
  /\ {"start", "end", w.amount, w.loss, w.samples} \subseteq DOMAIN x
  /\ x.start = l[Len(l) - 1].at /\ x.end = l[Len(l)].at
  /\ x[w.amount] = Grew(l, Len(l), s, w.counter)
  /\ x[w.loss] = Grew(l, Len(l), s, w.loss)
  /\ x[w.samples] = <<w.base + l[Len(l)].found[s].queue>>

(* The parts of a poll.                                                    *)
LEMMA SnapIs ==
  ASSUME NEW l, LogIs(l), NEW k \in 1 .. Len(l), NEW s \in Sockets
  PROVE  l[k].at \in Nat /\ l[k].found[s].queue \in Nat /\ l[k] \in Snap /\ Len(l) \in Nat
<1>1. l[k] \in Snap /\ Len(l) \in Nat
  BY DEF LogIs
<1>2. l[k].found \in [Sockets -> Growth] /\ l[k].at \in Nat
  BY <1>1 DEF Snap
<1>3. l[k].found[s] \in Growth
  BY <1>2
<1> QED BY <1>1, <1>2, <1>3 DEF Growth

(* One more poll's worth of what is moved, or lost,                        *)
LEMMA OneMore ==
  ASSUME NEW l, LogIs(l), NEW s \in Sockets, NEW w \in Ways, Len(l) \in 2 .. Len(l), Len(l) \in Bulk(l, s, w),
         NEW i \in 1 .. (Len(l) - 1), NEW f, f = w.counter \/ f = w.loss
  PROVE  /\ SumFunctionOnSet(Moves(l, s, f), Bulk(l, s, w) \cap ((i + 1) .. Len(l)))
              = Grew(l, Len(l), s, f)
                  + SumFunctionOnSet(Moves(l, s, f), Bulk(l, s, w) \cap ((i + 1) .. (Len(l) - 1)))
         /\ SumFunctionOnSet(Moves(l, s, f), Bulk(l, s, w) \cap ((i + 1) .. (Len(l) - 1))) \in Int
<1>1. PICK n : n = Len(l)
  OBVIOUS
<1>2. n \in Nat /\ n >= 2 /\ i \in Nat /\ i + 1 <= n
  BY <1>1 DEF LogIs
<1>3. ((i + 1) .. n) = ((i + 1) .. (n - 1)) \cup {n} /\ n \notin ((i + 1) .. (n - 1))
  BY <1>2
<1>4. PICK B, C : B = Bulk(l, s, w) \cap ((i + 1) .. n) /\ C = Bulk(l, s, w) \cap ((i + 1) .. (n - 1))
  OBVIOUS
<1>5. n \in B /\ B \ {n} = C
  BY <1>1, <1>3, <1>4
<1>6. IsFiniteSet(B)
  <2>1. IsFiniteSet((i + 1) .. n)
    BY <1>2, FS_Interval
  <2> QED BY <1>4, <2>1, FS_Subset
<1>7. \A k \in B : Moves(l, s, f)[k] \in Int
  <2>1. \A k \in B : k \in 2 .. Len(l) /\ k \in Nat
    BY <1>4 DEF Bulk, LogIs
  <2> QED BY <2>1, GrewIsNat, WaysAre DEF Moves
<1>8. PICK v : v = Moves(l, s, f)
  OBVIOUS
<1>9. \A k \in B : v[k] \in Int
  BY <1>7, <1>8
<1>10. SumFunctionOnSet(v, B) = v[n] + SumFunctionOnSet(v, B \ {n})
  BY <1>5, <1>6, <1>9, Minus
<1>11. SumFunctionOnSet(v, B \ {n}) \in Int
  BY <1>5, <1>6, <1>9, Minus
<1>12. v[n] = Grew(l, n, s, f)
  BY <1>2, <1>8 DEF Moves
<1> QED BY <1>1, <1>4, <1>5, <1>8, <1>10, <1>11, <1>12

(* and one more poll.                                                      *)
LEMMA OneMorePoll ==
  ASSUME NEW l, LogIs(l), NEW s \in Sockets, NEW w \in Ways, Len(l) \in Bulk(l, s, w),
         NEW i \in 1 .. (Len(l) - 1)
  PROVE  /\ Bulk(l, s, w) \cap Short(l, s) \cap ((i + 1) .. Len(l))
              = (Bulk(l, s, w) \cap Short(l, s) \cap ((i + 1) .. (Len(l) - 1)))
                  \cup (IF Len(l) \in Short(l, s) THEN {Len(l)} ELSE {})
         /\ Bulk(l, s, w) \cap ((i + 1) .. Len(l)) = (Bulk(l, s, w) \cap ((i + 1) .. (Len(l) - 1))) \cup {Len(l)}
<1>1. PICK n : n = Len(l)
  OBVIOUS
<1>2. n \in Nat /\ i \in Nat /\ i + 1 <= n
  BY <1>1 DEF LogIs
<1>3. ((i + 1) .. n) = ((i + 1) .. (n - 1)) \cup {n}
  BY <1>2
<1> QED BY <1>1, <1>3

(* A run of polls, counted.                                                *)
LEMMA RangeCounts ==
  ASSUME NEW i \in Nat, NEW j \in Nat, NEW S, S \subseteq (i + 1) .. j
  PROVE  /\ IsFiniteSet(S) /\ Cardinality(S) \in Nat
         /\ j + 1 \notin S /\ Cardinality(S \cup {j + 1}) = Cardinality(S) + 1
<1>1. IsFiniteSet(S)
  <2>1. IsFiniteSet((i + 1) .. j)
    BY FS_Interval
  <2> QED BY <2>1, FS_Subset
<1>2. j + 1 \notin S
  OBVIOUS
<1> QED BY <1>1, <1>2, FS_AddElement, FS_CardinalityType

(* A slot begins with one poll,                                            *)
LEMMA SlotBegins ==
  ASSUME NEW l, LogIs(l), NEW s \in Sockets, NEW w \in Ways, Len(l) \in Bulk(l, s, w),
         NEW x, PartIs(x, l, s, w)
  PROVE  SlotIs(x, l, s, w, Len(l) - 1, Len(l))
<1>1. PICK n : n = Len(l)
  OBVIOUS
<1>2. n \in Nat /\ n >= 2 /\ n - 1 \in Nat /\ n - 1 \in 1 .. (n - 1) /\ n \in 2 .. n
  BY <1>1 DEF LogIs, Bulk
<1>3. (n - 1 + 1) .. (n - 1) = {} /\ n - 1 + 1 = n
  BY <1>2
<1>4. n - 1 \in 1 .. (Len(l) - 1) /\ Len(l) \in 2 .. Len(l)
  BY <1>1, <1>2
<1>5. ASSUME NEW f, f = w.counter \/ f = w.loss
      PROVE  SumFunctionOnSet(Moves(l, s, f), Bulk(l, s, w) \cap ((n - 1 + 1) .. n)) = Grew(l, n, s, f)
  <2>1. SumFunctionOnSet(Moves(l, s, f), Bulk(l, s, w) \cap ((n - 1 + 1) .. n))
              = Grew(l, n, s, f)
                  + SumFunctionOnSet(Moves(l, s, f), Bulk(l, s, w) \cap ((n - 1 + 1) .. (n - 1)))
    <3>1. PICK i : i = n - 1
      OBVIOUS
    <3>2. i \in 1 .. (Len(l) - 1)
      BY <1>4, <3>1
    <3>3. SumFunctionOnSet(Moves(l, s, f), Bulk(l, s, w) \cap ((i + 1) .. Len(l)))
              = Grew(l, Len(l), s, f)
                  + SumFunctionOnSet(Moves(l, s, f), Bulk(l, s, w) \cap ((i + 1) .. (Len(l) - 1)))
      BY <1>4, <1>5, <3>2, OneMore
    <3> QED BY <1>1, <3>1, <3>3
  <2>2. Bulk(l, s, w) \cap ((n - 1 + 1) .. (n - 1)) = {}
    BY <1>3
  <2>3. Grew(l, n, s, f) \in Nat
    BY <1>1, <1>2, <1>5, GrewIsNat, WaysAre
  <2>4. SumFunctionOnSet(Moves(l, s, f), {}) = 0
    BY SumEmpty
  <2>5. Grew(l, n, s, f) + 0 = Grew(l, n, s, f)
    BY <2>3
  <2> QED BY <2>1, <2>2, <2>4, <2>5
<1>6. Grew(l, n, s, w.loss) \in Nat
  BY <1>1, <1>2, GrewIsNat, WaysAre
<1>7. n \in Bulk(l, s, w) \cap ((n - 1 + 1) .. n)
  BY <1>1, <1>2
<1>8. l[n].at \in Nat /\ l[n - 1].at \in Nat /\ l[n].found[s].queue \in Nat
  <2>1. n \in 1 .. Len(l) /\ n - 1 \in 1 .. Len(l)
    BY <1>1, <1>2
  <2> QED BY <2>1, SnapIs
<1>9. PICK q : q = w.base + l[n].found[s].queue
  OBVIOUS
<1>10. q \in Nat /\ (q < w.base + 4 <=> n \in Short(l, s))
  BY <1>1, <1>2, <1>8, <1>9, WaysAre DEF Short
<1>11. Cardinality(Below(<<q>>, w.base + 4)) = Cardinality(Bulk(l, s, w) \cap Short(l, s) \cap ((n - 1 + 1) .. n))
  <2>1. Below(<<q>>, w.base + 4) = IF n \in Short(l, s) THEN {1} ELSE {}
    BY <1>10 DEF Below
  <2>2. Bulk(l, s, w) \cap Short(l, s) \cap ((n - 1 + 1) .. n) = IF n \in Short(l, s) THEN {n} ELSE {}
    <3>1. (n - 1 + 1) .. n = {n}
      BY <1>2
    <3> QED BY <1>1, <3>1
  <2>3. Cardinality({1}) = 1 /\ Cardinality({n}) = 1
    BY FS_Singleton
  <2> QED BY <2>1, <2>2, <2>3
<1>12. x[w.samples] = <<q>> /\ <<q>> \in Seq(Int) /\ <<q>> # <<>>
  BY <1>1, <1>9, <1>10 DEF PartIs
<1>13. Len(<<q>>) = Cardinality(Bulk(l, s, w) \cap ((n - 1 + 1) .. n))
  <2>1. Bulk(l, s, w) \cap ((n - 1 + 1) .. n) = {n}
    BY <1>2, <1>7
  <2> QED BY <2>1, FS_Singleton
<1>14. /\ SumFunctionOnSet(Moves(l, s, w.counter), Bulk(l, s, w) \cap ((n - 1 + 1) .. n)) = Grew(l, n, s, w.counter)
       /\ SumFunctionOnSet(Moves(l, s, w.loss), Bulk(l, s, w) \cap ((n - 1 + 1) .. n)) = Grew(l, n, s, w.loss)
  BY <1>5
<1>15. n - 1 + 1 \in Bulk(l, s, w)
  BY <1>1, <1>3
<1> QED BY <1>1, <1>13, <1>14, <1>15, <1>6, <1>7, <1>8, <1>11, <1>12 DEF SlotIs, PartIs

(* and goes on with the next.                                              *)
LEMMA SlotGoesOn ==
  ASSUME NEW l, LogIs(l), NEW s \in Sockets, NEW w \in Ways, Len(l) \in Bulk(l, s, w),
         NEW y, PartIs(y, l, s, w), NEW i \in 1 .. (Len(l) - 1), NEW x, SlotIs(x, l, s, w, i, Len(l) - 1), NEW z,
         z.start = x.start, z.end = l[Len(l)].at, z[w.amount] = x[w.amount] + y[w.amount],
         z[w.loss] = x[w.loss] + y[w.loss], z[w.samples] = x[w.samples] \o y[w.samples]
  PROVE  SlotIs(z, l, s, w, i, Len(l))
<1>1. PICK n : n = Len(l)
  OBVIOUS
<1>2. n \in Nat /\ n >= 2 /\ n - 1 \in Nat /\ n \in 2 .. n /\ i \in Nat /\ i + 1 <= n
  BY <1>1 DEF LogIs, Bulk
<1>3. Len(l) \in 2 .. Len(l)
  BY <1>1, <1>2
<1>4. PICK S, T : /\ S = Bulk(l, s, w) \cap Short(l, s) \cap ((i + 1) .. (n - 1))
                  /\ T = Bulk(l, s, w) \cap Short(l, s) \cap ((i + 1) .. n)
  OBVIOUS
<1>5. ASSUME NEW f, f = w.counter \/ f = w.loss, NEW u, NEW v,
             u = SumFunctionOnSet(Moves(l, s, f), Bulk(l, s, w) \cap ((i + 1) .. (n - 1))), v = Grew(l, n, s, f)
      PROVE  u + v = SumFunctionOnSet(Moves(l, s, f), Bulk(l, s, w) \cap ((i + 1) .. n))
  <2>0. /\ SumFunctionOnSet(Moves(l, s, f), Bulk(l, s, w) \cap ((i + 1) .. Len(l)))
               = Grew(l, Len(l), s, f)
                   + SumFunctionOnSet(Moves(l, s, f), Bulk(l, s, w) \cap ((i + 1) .. (Len(l) - 1)))
        /\ SumFunctionOnSet(Moves(l, s, f), Bulk(l, s, w) \cap ((i + 1) .. (Len(l) - 1))) \in Int
    BY <1>3, <1>5, OneMore
  <2>1. SumFunctionOnSet(Moves(l, s, f), Bulk(l, s, w) \cap ((i + 1) .. n)) = v + u
    BY <1>1, <1>5, <2>0
  <2>2. u \in Int
    BY <1>1, <1>5, <2>0
  <2>3. v \in Nat
    BY <1>1, <1>2, <1>5, GrewIsNat, WaysAre
  <2> QED BY <2>1, <2>2, <2>3
<1>18. /\ z[w.amount] = SumFunctionOnSet(Moves(l, s, w.counter), Bulk(l, s, w) \cap ((i + 1) .. n))
       /\ z[w.loss] = SumFunctionOnSet(Moves(l, s, w.loss), Bulk(l, s, w) \cap ((i + 1) .. n))
  <2>1. /\ x[w.amount] = SumFunctionOnSet(Moves(l, s, w.counter), Bulk(l, s, w) \cap ((i + 1) .. (n - 1)))
        /\ x[w.loss] = SumFunctionOnSet(Moves(l, s, w.loss), Bulk(l, s, w) \cap ((i + 1) .. (n - 1)))
    BY <1>1 DEF SlotIs
  <2>2. y[w.amount] = Grew(l, n, s, w.counter) /\ y[w.loss] = Grew(l, n, s, w.loss)
    BY <1>1 DEF PartIs
  <2> QED BY <1>5, <2>1, <2>2
<1>6. /\ z[w.loss] \in Nat
      /\ z[w.loss] > 0 => \E k \in Bulk(l, s, w) \cap ((i + 1) .. n) : Grew(l, k, s, w.loss) > 0
  <2>1. y[w.loss] = Grew(l, n, s, w.loss) /\ y[w.loss] \in Nat
    BY <1>1, <1>2, GrewIsNat, WaysAre DEF PartIs
  <2>2. x[w.loss] \in Nat
    BY DEF SlotIs
  <2>3. x[w.loss] > 0 => \E k \in Bulk(l, s, w) \cap ((i + 1) .. n) : Grew(l, k, s, w.loss) > 0
    <3>1. ((i + 1) .. (n - 1)) \subseteq ((i + 1) .. n)
      BY <1>2
    <3> QED BY <1>1, <3>1 DEF SlotIs
  <2>4. n \in Bulk(l, s, w) \cap ((i + 1) .. n)
    BY <1>1, <1>2
  <2> QED BY <2>1, <2>2, <2>3, <2>4
<1>7. l[n].at \in Nat /\ l[n].found[s].queue \in Nat
  <2>1. n \in 1 .. Len(l)
    BY <1>1, <1>2
  <2> QED BY <2>1, SnapIs
<1>8. PICK v, q : v = w.base + l[n].found[s].queue /\ q = x[w.samples]
  OBVIOUS
<1>9. v \in Nat /\ (v < w.base + 4 <=> n \in Short(l, s)) /\ q \in Seq(Int) /\ q # <<>>
  <2>1. v \in Nat /\ (v < w.base + 4 <=> n \in Short(l, s))
    BY <1>1, <1>2, <1>7, <1>8, WaysAre DEF Short
  <2>2. q \in Seq(Int) /\ q # <<>>
    BY <1>8 DEF SlotIs
  <2> QED BY <2>1, <2>2
<1>10. z[w.samples] = q \o <<v>>
  BY <1>1, <1>8 DEF PartIs
<1>11. q \o <<v>> \in Seq(Int) /\ q \o <<v>> # <<>>
  BY <1>9
<1>12. Cardinality(Below(q, w.base + 4)) = Cardinality(S)
  BY <1>1, <1>4, <1>8 DEF SlotIs
<1>13. T = S \cup IF n \in Short(l, s) THEN {n} ELSE {}
  BY <1>1, <1>4, OneMorePoll
<1>14. Below(q \o <<v>>, w.base + 4) = Below(q, w.base + 4) \cup IF v < w.base + 4 THEN {Len(q) + 1} ELSE {}
  <2>1. /\ DOMAIN (q \o <<v>>) = 1 .. (Len(q) + 1) /\ DOMAIN q = 1 .. Len(q) /\ Len(q) \in Nat
        /\ \A j \in 1 .. Len(q) : (q \o <<v>>)[j] = q[j]
        /\ (q \o <<v>>)[Len(q) + 1] = v
    BY <1>9
  <2>2. 1 .. (Len(q) + 1) = (1 .. Len(q)) \cup {Len(q) + 1}
    BY <2>1
  <2> QED BY <2>1, <2>2 DEF Below
<1>15. Cardinality(S) \in Nat /\ IsFiniteSet(S) /\ n \notin S /\ Cardinality(S \cup {n}) = Cardinality(S) + 1
  <2>1. PICK j \in Nat : j = n - 1 /\ j + 1 = n
    BY <1>2
  <2>2. S \subseteq (i + 1) .. j /\ i \in Nat
    BY <1>4, <2>1
  <2>3. IsFiniteSet(S) /\ Cardinality(S) \in Nat
    BY <1>2, <2>2, RangeCounts
  <2>4. j + 1 \notin S /\ Cardinality(S \cup {j + 1}) = Cardinality(S) + 1
    BY <1>2, <2>2, RangeCounts
  <2> QED BY <2>1, <2>3, <2>4
<1>16. /\ Len(q) + 1 \notin Below(q, w.base + 4)
       /\ Cardinality(Below(q, w.base + 4) \cup {Len(q) + 1}) = Cardinality(Below(q, w.base + 4)) + 1
  <2>1. Below(q, w.base + 4) \subseteq 1 .. Len(q) /\ Len(q) \in Nat
    BY <1>9 DEF Below
  <2>3. IsFiniteSet(1 .. Len(q))
    BY <2>1, FS_Interval
  <2>2. IsFiniteSet(Below(q, w.base + 4)) /\ Len(q) + 1 \notin Below(q, w.base + 4)
    BY <2>1, <2>3, FS_Subset
  <2> QED BY <2>2, FS_AddElement
<1>17. Cardinality(Below(q \o <<v>>, w.base + 4)) = Cardinality(T)
  BY <1>9, <1>12, <1>13, <1>14, <1>15, <1>16
<1>19. Len(q \o <<v>>) = Cardinality(Bulk(l, s, w) \cap ((i + 1) .. n))
  <2>1. PICK C : C = Bulk(l, s, w) \cap ((i + 1) .. (n - 1))
    OBVIOUS
  <2>2. Bulk(l, s, w) \cap ((i + 1) .. n) = C \cup {n}
    BY <1>1, <2>1, OneMorePoll
  <2>3. PICK j \in Nat : j = n - 1 /\ j + 1 = n
    BY <1>2
  <2>4. C \subseteq (i + 1) .. j
    BY <2>1, <2>3
  <2>5. Cardinality(C \cup {j + 1}) = Cardinality(C) + 1
    BY <1>2, <2>4, RangeCounts
  <2>7. Len(q \o <<v>>) = Len(q) + 1
    BY <1>9
  <2>6. Len(q) = Cardinality(C)
    BY <1>1, <1>8, <2>1 DEF SlotIs
  <2> QED BY <2>2, <2>3, <2>5, <2>6, <2>7
<1>20. i + 1 \in Bulk(l, s, w)
  BY DEF SlotIs
<1> QED BY <1>1, <1>4, <1>6, <1>7, <1>10, <1>11, <1>17, <1>18, <1>19, <1>20 DEF SlotIs

(* The slots of a socket: which polls each holds.                          *)
Cuts(cut, slots, l, s, w) ==
  /\ cut[Len(slots) + 1] = Len(l)
  /\ \A i \in 1 .. Len(slots) : cut[i] < cut[i + 1] /\ SlotIs(slots[i], l, s, w, cut[i], cut[i + 1])

(* The slots, for some cut of the log.                                     *)
SlotsAre(slots, l, s, w) ==
  /\ Len(l) \in Nat \ {0}
  /\ \E S : slots \in Seq(S)
  /\ \E cut \in [1 .. Len(slots) + 1 -> 1 .. Len(l)] : Cuts(cut, slots, l, s, w)

(* No slots are such slots.                                                *)
LEMMA NoSlots ==
  ASSUME NEW l, Len(l) \in Nat \ {0}, NEW s, NEW w
  PROVE  SlotsAre(<<>>, l, s, w)
<1> DEFINE cut == [i \in 1 .. 1 |-> Len(l)]
<1>1. cut \in [1 .. Len(<<>>) + 1 -> 1 .. Len(l)] /\ Cuts(cut, <<>>, l, s, w)
  BY DEF Cuts
<1>2. <<>> \in Seq({})
  OBVIOUS
<1> QED BY <1>1, <1>2 DEF SlotsAre

(* A poll that moved little leaves the slots as they are.                  *)
LEMMA SlotsStay ==
  ASSUME NEW l, NEW m, Extends(m, l), LogIs(l), LogIs(m), NEW s \in Sockets, NEW w \in Ways,
         NEW slots, SlotsAre(slots, l, s, w), Len(m) \notin Bulk(m, s, w)
  PROVE  SlotsAre(slots, m, s, w)
<1>1. PICK S : slots \in Seq(S)
  BY DEF SlotsAre
<1>2. PICK cut \in [1 .. Len(slots) + 1 -> 1 .. Len(l)] : Cuts(cut, slots, l, s, w)
  BY DEF SlotsAre
<1>3. PICK n : n = Len(slots)
  OBVIOUS
<1>4. PICK j : j = Len(l)
  OBVIOUS
<1>5. n \in Nat /\ j \in Nat \ {0} /\ Len(m) = j + 1
  BY <1>1, <1>3, <1>4 DEF SlotsAre, Extends
<1> DEFINE new == [i \in 1 .. n + 1 |-> IF i = n + 1 THEN j + 1 ELSE cut[i]]
<1>6. new \in [1 .. n + 1 -> 1 .. j + 1]
  BY <1>2, <1>3, <1>4, <1>5
<1>7. new[n + 1] = j + 1
  BY <1>5
<1>8. ASSUME NEW i \in 1 .. n
      PROVE  new[i] < new[i + 1] /\ SlotIs(slots[i], m, s, w, new[i], new[i + 1])
  <2>1. /\ cut[i] \in 1 .. j /\ cut[i + 1] \in 1 .. j /\ cut[i] < cut[i + 1]
        /\ SlotIs(slots[i], l, s, w, cut[i], cut[i + 1]) /\ cut[n + 1] = j
        /\ new[i] = cut[i]
    <3>1. i \in 1 .. n + 1 /\ i + 1 \in 1 .. n + 1 /\ i # n + 1
      BY <1>5
    <3>2. cut[i] \in 1 .. j /\ cut[i + 1] \in 1 .. j
      BY <1>2, <1>3, <1>4, <3>1
    <3>3. cut[i] < cut[i + 1] /\ SlotIs(slots[i], l, s, w, cut[i], cut[i + 1]) /\ cut[n + 1] = j
      BY <1>2, <1>3, <1>4 DEF Cuts
    <3> QED BY <3>1, <3>2, <3>3
  <2>2. SlotIs(slots[i], m, s, w, cut[i], cut[i + 1])
    BY <1>4, <2>1, SlotStays
  <2>3. CASE i = n
    <3>1. SlotIs(slots[i], m, s, w, cut[i], j)
      BY <2>1, <2>2, <2>3
    <3>2. SlotIs(slots[i], m, s, w, cut[i], j + 1)
      BY <1>5, <2>1, <3>1, SlotSpans
    <3>3. new[i + 1] = j + 1
      BY <1>5, <2>3
    <3>4. new[i] < new[i + 1]
      BY <1>5, <2>1, <3>3
    <3> QED BY <2>1, <3>2, <3>3, <3>4
  <2>4. CASE i # n
    <3>1. new[i + 1] = cut[i + 1]
      BY <1>5, <2>4
    <3> QED BY <2>1, <2>2, <3>1
  <2> QED BY <2>3, <2>4
<1> HIDE DEF new
<1>9. Cuts(new, slots, m, s, w)
  BY <1>3, <1>5, <1>7, <1>8 DEF Cuts
<1> QED BY <1>1, <1>3, <1>5, <1>6, <1>9 DEF SlotsAre

(* A full slot is followed by a new one.                                   *)
LEMMA SlotsAppend ==
  ASSUME NEW l, NEW m, Extends(m, l), LogIs(l), LogIs(m), NEW s \in Sockets, NEW w \in Ways,
         NEW slots, SlotsAre(slots, l, s, w), Len(m) \in Bulk(m, s, w), NEW x, PartIs(x, m, s, w)
  PROVE  SlotsAre(Append(slots, x), m, s, w)
<1>1. PICK S : slots \in Seq(S)
  BY DEF SlotsAre
<1>2. PICK cut \in [1 .. Len(slots) + 1 -> 1 .. Len(l)] : Cuts(cut, slots, l, s, w)
  BY DEF SlotsAre
<1>3. PICK n : n = Len(slots)
  OBVIOUS
<1>4. PICK j : j = Len(l)
  OBVIOUS
<1>5. n \in Nat /\ j \in Nat \ {0} /\ Len(m) = j + 1
  BY <1>1, <1>3, <1>4 DEF SlotsAre, Extends
<1>6. PICK more : more = Append(slots, x)
  OBVIOUS
<1>7. /\ more \in Seq(S \cup {x}) /\ Len(more) = n + 1 /\ more[n + 1] = x
      /\ \A i \in 1 .. n : more[i] = slots[i]
  BY <1>1, <1>3, <1>6
<1> DEFINE new == [i \in 1 .. n + 2 |-> IF i = n + 2 THEN j + 1 ELSE cut[i]]
<1>8. new \in [1 .. n + 2 -> 1 .. j + 1]
  <2>1. \A i \in 1 .. n + 2 : i # n + 2 => i \in 1 .. n + 1
    BY <1>5
  <2> QED BY <1>2, <1>3, <1>4, <1>5, <2>1
<1>9. new[n + 2] = j + 1
  BY <1>5
<1>10. ASSUME NEW i \in 1 .. n + 1
       PROVE  new[i] < new[i + 1] /\ SlotIs(more[i], m, s, w, new[i], new[i + 1])
  <2>1. /\ cut[i] \in 1 .. j /\ cut[n + 1] = j /\ new[i] = cut[i]
    BY <1>2, <1>3, <1>4, <1>5 DEF Cuts
  <2>2. CASE i = n + 1
    <3>1. SlotIs(x, m, s, w, Len(m) - 1, Len(m))
      BY SlotBegins
    <3>2. new[i + 1] = j + 1 /\ Len(m) - 1 = j
      BY <1>5, <2>2
    <3> QED BY <1>5, <1>7, <2>1, <2>2, <3>1, <3>2
  <2>3. CASE i # n + 1
    <3>1. i \in 1 .. n /\ new[i + 1] = cut[i + 1] /\ cut[i + 1] \in 1 .. j
      BY <1>2, <1>3, <1>4, <1>5, <2>3
    <3>2. cut[i] < cut[i + 1] /\ SlotIs(slots[i], l, s, w, cut[i], cut[i + 1])
      BY <1>2, <1>3, <3>1 DEF Cuts
    <3>3. SlotIs(slots[i], m, s, w, cut[i], cut[i + 1])
      BY <1>4, <2>1, <3>1, <3>2, SlotStays
    <3> QED BY <1>7, <2>1, <3>1, <3>2, <3>3
  <2> QED BY <2>2, <2>3
<1> HIDE DEF new
<1>11. n + 2 = Len(more) + 1 /\ n + 1 = Len(more)
  BY <1>5, <1>7
<1>12. Cuts(new, more, m, s, w)
  BY <1>5, <1>9, <1>10, <1>11 DEF Cuts
<1> QED BY <1>5, <1>6, <1>7, <1>8, <1>11, <1>12 DEF SlotsAre

(* An open one takes the poll in.                                          *)
LEMMA SlotsMerge ==
  ASSUME NEW l, NEW m, Extends(m, l), LogIs(l), LogIs(m), NEW s \in Sockets, NEW w \in Ways,
         NEW slots, SlotsAre(slots, l, s, w), Len(m) \in Bulk(m, s, w), NEW y, PartIs(y, m, s, w),
         slots # <<>>, NEW x, x = slots[Len(slots)], NEW z,
         z.start = x.start, z.end = m[Len(m)].at, z[w.amount] = x[w.amount] + y[w.amount],
         z[w.loss] = x[w.loss] + y[w.loss], z[w.samples] = x[w.samples] \o y[w.samples]
  PROVE  SlotsAre([slots EXCEPT ![Len(slots)] = z], m, s, w)
<1>1. PICK S : slots \in Seq(S)
  BY DEF SlotsAre
<1>2. PICK cut \in [1 .. Len(slots) + 1 -> 1 .. Len(l)] : Cuts(cut, slots, l, s, w)
  BY DEF SlotsAre
<1>3. PICK n : n = Len(slots)
  OBVIOUS
<1>4. PICK j : j = Len(l)
  OBVIOUS
<1>5. n \in Nat \ {0} /\ j \in Nat \ {0} /\ Len(m) = j + 1
  BY <1>1, <1>3, <1>4 DEF SlotsAre, Extends
<1>6. PICK more : more = [slots EXCEPT ![Len(slots)] = z]
  OBVIOUS
<1>7. /\ more \in Seq(S \cup {z}) /\ Len(more) = n /\ more[n] = z
      /\ \A i \in 1 .. n : i # n => more[i] = slots[i]
  BY <1>1, <1>3, <1>5, <1>6
<1> DEFINE new == [i \in 1 .. n + 1 |-> IF i = n + 1 THEN j + 1 ELSE cut[i]]
<1>8. new \in [1 .. n + 1 -> 1 .. j + 1]
  BY <1>2, <1>3, <1>4, <1>5
<1>9. new[n + 1] = j + 1
  BY <1>5
<1>10. ASSUME NEW i \in 1 .. n
       PROVE  new[i] < new[i + 1] /\ SlotIs(more[i], m, s, w, new[i], new[i + 1])
  <2>1. /\ cut[i] \in 1 .. j /\ cut[i + 1] \in 1 .. j /\ cut[i] < cut[i + 1]
        /\ SlotIs(slots[i], l, s, w, cut[i], cut[i + 1]) /\ cut[n + 1] = j
        /\ new[i] = cut[i]
    <3>1. i \in 1 .. n + 1 /\ i + 1 \in 1 .. n + 1 /\ i # n + 1
      BY <1>5
    <3>2. cut[i] \in 1 .. j /\ cut[i + 1] \in 1 .. j
      BY <1>2, <1>3, <1>4, <3>1
    <3>3. cut[i] < cut[i + 1] /\ SlotIs(slots[i], l, s, w, cut[i], cut[i + 1]) /\ cut[n + 1] = j
      BY <1>2, <1>3, <1>4 DEF Cuts
    <3> QED BY <3>1, <3>2, <3>3
  <2>2. SlotIs(slots[i], m, s, w, cut[i], cut[i + 1])
    BY <1>4, <2>1, SlotStays
  <2>3. CASE i = n
    <3>1. Len(m) - 1 = j /\ new[i + 1] = j + 1 /\ cut[i] \in 1 .. (Len(m) - 1)
      BY <1>5, <2>1, <2>3
    <3>2. SlotIs(x, m, s, w, cut[i], Len(m) - 1)
      BY <1>3, <2>1, <2>2, <2>3, <3>1
    <3>3. SlotIs(z, m, s, w, cut[i], Len(m))
      BY <3>1, <3>2, SlotGoesOn
    <3> QED BY <1>5, <1>7, <2>1, <2>3, <3>1, <3>3
  <2>4. CASE i # n
    <3>1. new[i + 1] = cut[i + 1]
      BY <1>5, <2>4
    <3> QED BY <1>7, <2>1, <2>2, <2>4, <3>1
  <2> QED BY <2>3, <2>4
<1> HIDE DEF new
<1>12. Cuts(new, more, m, s, w)
  BY <1>5, <1>7, <1>9, <1>10 DEF Cuts
<1> QED BY <1>5, <1>6, <1>7, <1>8, <1>12 DEF SlotsAre

(* Dropping the oldest slots leaves slots.                                 *)
LEMMA SlotsSuffix ==
  ASSUME NEW l, NEW s, NEW w, NEW slots, SlotsAre(slots, l, s, w), NEW d \in 0 .. Len(slots)
  PROVE  SlotsAre(SubSeq(slots, d + 1, Len(slots)), l, s, w)
<1>1. PICK S : slots \in Seq(S)
  BY DEF SlotsAre
<1>2. PICK cut \in [1 .. Len(slots) + 1 -> 1 .. Len(l)] : Cuts(cut, slots, l, s, w)
  BY DEF SlotsAre
<1>3. PICK n : n = Len(slots) - d
  OBVIOUS
<1>4. n \in Nat /\ Len(slots) = n + d /\ d \in Nat
  BY <1>1, <1>3
<1>5. PICK rest : rest = SubSeq(slots, d + 1, Len(slots))
  OBVIOUS
<1>6. rest \in Seq(S) /\ Len(rest) = n /\ \A i \in 1 .. n : rest[i] = slots[i + d]
  BY <1>1, <1>4, <1>5
<1> DEFINE new == [i \in 1 .. n + 1 |-> cut[i + d]]
<1>7. new \in [1 .. n + 1 -> 1 .. Len(l)]
  BY <1>2, <1>4
<1>8. new[n + 1] = Len(l)
  <2>1. n + 1 + d = Len(slots) + 1
    BY <1>4
  <2> QED BY <1>2, <1>4, <2>1 DEF Cuts
<1>9. ASSUME NEW i \in 1 .. n
      PROVE  new[i] < new[i + 1] /\ SlotIs(rest[i], l, s, w, new[i], new[i + 1])
  <2>1. i + d \in 1 .. Len(slots) /\ new[i] = cut[i + d] /\ new[i + 1] = cut[(i + d) + 1]
    BY <1>4
  <2> QED BY <1>2, <1>6, <2>1 DEF Cuts
<1> HIDE DEF new
<1>10. Cuts(new, rest, l, s, w)
  BY <1>6, <1>8, <1>9 DEF Cuts
<1> QED BY <1>5, <1>6, <1>7, <1>10 DEF SlotsAre

(* Min of a finite set of naturals.                                        *)
LEMMA MinIs ==
  ASSUME NEW T \in SUBSET Nat, T # {}
  PROVE  Min(T) \in T /\ \A n \in T : Min(T) <= n
<1>1. \E m \in T : \A n \in T : m <= n
  BY Least
<1> QED BY <1>1 DEF Min

(* SlotsSince drops the slots before the first that began late enough.     *)
LEMMA SinceIs ==
  ASSUME NEW S, NEW slots \in Seq(S), NEW cut \in Int, \A i \in 1 .. Len(slots) : slots[i].start \in Int,
         NEW new, new = SlotsSince(slots, cut)
  PROVE  \E d \in 0 .. Len(slots) :
           /\ new = SubSeq(slots, d + 1, Len(slots))
           /\ \A i \in 1 .. d : slots[i].start < cut
           /\ d < Len(slots) => slots[d + 1].start >= cut
<1>1. PICK T : T = {i \in DOMAIN slots : slots[i].start >= cut} \cup {Len(slots) + 1}
  OBVIOUS
<1>2. T \in SUBSET Nat /\ T # {} /\ T \subseteq 1 .. (Len(slots) + 1)
  BY <1>1
<1>3. PICK k : k = Min(T)
  OBVIOUS
<1>4. k \in T /\ \A n \in T : k <= n
  BY <1>2, <1>3, MinIs
<1>5. new = SubSeq(slots, k, Len(slots))
  BY <1>1, <1>3 DEF SlotsSince
<1>6. k - 1 \in 0 .. Len(slots) /\ k - 1 + 1 = k
  BY <1>2, <1>4
<1>7. \A i \in 1 .. (k - 1) : slots[i].start < cut
  <2>1. ASSUME NEW i \in 1 .. (k - 1)
        PROVE  slots[i].start < cut
    <3>1. i \notin T /\ i \in 1 .. Len(slots)
      BY <1>4, <1>6
    <3> QED BY <1>1, <3>1
  <2> QED BY <2>1
<1>8. k - 1 < Len(slots) => slots[k - 1 + 1].start >= cut
  BY <1>1, <1>4, <1>6
<1> QED BY <1>5, <1>6, <1>7, <1>8

(* What SlotsSince leaves are slots that began late enough.                *)
LEMMA SlotsStart ==
  ASSUME NEW l, LogIs(l), NEW s \in Sockets, NEW w, NEW slots, SlotsAre(slots, l, s, w)
  PROVE  \A i \in 1 .. Len(slots) : slots[i].start \in Int
<1>1. PICK cut \in [1 .. Len(slots) + 1 -> 1 .. Len(l)] : Cuts(cut, slots, l, s, w)
  BY DEF SlotsAre
<1>2. PICK S : slots \in Seq(S)
  BY DEF SlotsAre
<1>3. ASSUME NEW i \in 1 .. Len(slots)
      PROVE  slots[i].start \in Int
  <2>1. slots[i].start = l[cut[i]].at /\ cut[i] \in 1 .. Len(l)
    <3>1. i \in 1 .. Len(slots) + 1
      BY <1>2
    <3>2. SlotIs(slots[i], l, s, w, cut[i], cut[i + 1])
      BY <1>1 DEF Cuts
    <3>3. slots[i].start = l[cut[i]].at
      BY <3>2 DEF SlotIs
    <3> QED BY <1>1, <3>1, <3>3
  <2> QED BY <2>1, SnapIs
<1> QED BY <1>3

(* All slots are full; and one of them begins at a time.                   *)
Whole(slots) == \A i \in 1 .. Len(slots) : SlotFull(slots[i])
Begun(slots, at) == \E i \in 1 .. Len(slots) : slots[i].start = at

(* The window is a number.                                                 *)
LEMMA WindowIs == SlotWindow \in Int
<1>1. 12000 \in Nat /\ 4 * PollIntervalMS \in Nat
  BY ClassifierAssumption
<1>2. \E x \in {12000, 4 * PollIntervalMS} : \A y \in {12000, 4 * PollIntervalMS} : x >= y
  BY <1>1
<1> QED BY <1>1, <1>2 DEF SlotWindow, Max

(* What is left of the slots began late enough, and is whole if all was.   *)
LEMMA SinceKeeps ==
  ASSUME NEW l, LogIs(l), NEW s \in Sockets, NEW w, NEW slots, SlotsAre(slots, l, s, w),
         NEW cut \in Int, NEW new, new = SlotsSince(slots, cut)
  PROVE  /\ SlotsAre(new, l, s, w)
         /\ new # <<>> => new[1].start >= cut
         /\ Whole(slots) => Whole(new)
         /\ \A at : at >= cut /\ Begun(slots, at) => Begun(new, at)
<1>1. PICK S : slots \in Seq(S)
  BY DEF SlotsAre
<1>2. \A i \in 1 .. Len(slots) : slots[i].start \in Int
  BY SlotsStart
<1>3. PICK d \in 0 .. Len(slots) :
           /\ new = SubSeq(slots, d + 1, Len(slots))
           /\ \A i \in 1 .. d : slots[i].start < cut
           /\ d < Len(slots) => slots[d + 1].start >= cut
  BY <1>1, <1>2, SinceIs
<1>4. PICK n : n = Len(slots) - d
  OBVIOUS
<1>5. n \in Nat /\ d \in Nat /\ Len(slots) = n + d
  BY <1>1, <1>4
<1>6. Len(new) = n /\ new \in Seq(S) /\ \A i \in 1 .. n : new[i] = slots[i + d] /\ i + d \in 1 .. Len(slots)
  BY <1>1, <1>3, <1>5
<1>7. SlotsAre(new, l, s, w)
  BY <1>3, SlotsSuffix
<1>8. ASSUME new # <<>>
      PROVE  new[1].start >= cut
  <2>1. 1 \in 1 .. n /\ 1 + d = d + 1 /\ d < Len(slots)
    BY <1>5, <1>6, <1>8
  <2> QED BY <1>3, <1>6, <2>1
<1>9. Whole(slots) => Whole(new)
  BY <1>6 DEF Whole
<1>10. ASSUME NEW at, at >= cut, Begun(slots, at)
       PROVE  Begun(new, at)
  <2>1. PICK i \in 1 .. Len(slots) : slots[i].start = at
    BY <1>10 DEF Begun
  <2>2. slots[i].start \in Int /\ ~(slots[i].start < cut)
    BY <1>2, <1>10, <2>1
  <2>3. i \notin 1 .. d
    BY <1>3, <2>2
  <2>4. i - d \in 1 .. n /\ (i - d) + d = i
    BY <1>5, <2>3
  <2> QED BY <1>6, <2>1, <2>4 DEF Begun
<1> QED BY <1>7, <1>8, <1>9, <1>10

(* A poll's part joins the last slot, or begins one, or is too little.     *)
Longer(slots, bytes, part, from, to) ==
  LET last    == slots[Len(slots)]
      moved   == bytes >= SlotMinBytes
      open    == slots # <<>> /\ ~SlotFull(last)
      fresh   == [part EXCEPT !.start = from]
      merged  == [f \in DOMAIN part |->
                    CASE f = "start" -> last.start
                      [] f = "end"   -> to
                      [] f \in {"queue", "rtts"} -> last[f] \o part[f]
                      [] OTHER -> last[f] + part[f]]
  IN  CASE ~moved         -> slots
        [] moved /\ ~open -> Append(slots, fresh)
        [] moved /\ open  -> [slots EXCEPT ![Len(slots)] = merged]

(* The slots with the new poll.                                            *)
LEMMA LongerIs ==
  ASSUME NEW l, NEW m, Extends(m, l), LogIs(l), LogIs(m), NEW s \in Sockets, NEW w \in Ways,
         NEW slots, SlotsAre(slots, l, s, w), NEW bytes \in Nat, bytes >= SlotMinBytes <=> Len(m) \in Bulk(m, s, w),
         NEW part, PartIs(part, m, s, w), NEW from, from = m[Len(l)].at, NEW to, to = m[Len(m)].at,
         NEW more, more = Longer(slots, bytes, part, from, to)
  PROVE  /\ SlotsAre(more, m, s, w)
         /\ Whole(slots) /\ to - from >= SlotMinMS =>
              /\ Whole(more) /\ \A i \in 1 .. Len(slots) : Begun(more, slots[i].start)
              /\ bytes >= SlotMinBytes => Begun(more, from)
<1> DEFINE last == slots[Len(slots)]
           moved == bytes >= SlotMinBytes
           open == slots # <<>> /\ ~SlotFull(last)
           fresh == [part EXCEPT !.start = from]
           merged == [f \in DOMAIN part |->
                        CASE f = "start" -> last.start
                          [] f = "end"   -> to
                          [] f \in {"queue", "rtts"} -> last[f] \o part[f]
                          [] OTHER -> last[f] + part[f]]
<1>1. more = CASE ~moved         -> slots
               [] moved /\ ~open -> Append(slots, fresh)
               [] moved /\ open  -> [slots EXCEPT ![Len(slots)] = merged]
  BY Zenon DEF Longer
<1>2. PICK S : slots \in Seq(S)
  BY DEF SlotsAre
<1>3. Len(m) - 1 = Len(l)
  BY DEF Extends
<1>4. CASE ~moved
  <2>1. more = slots
    BY <1>1, <1>4
  <2>2. SlotsAre(more, m, s, w)
    BY <1>4, <2>1, SlotsStay
  <2> QED BY <1>4, <2>1, <2>2 DEF Begun
<1>5. CASE moved /\ ~open
  <2>1. more = Append(slots, fresh)
    BY <1>1, <1>5
  <2>9. PICK x : x = fresh
    OBVIOUS
  <2>10. DOMAIN x = DOMAIN part /\ \A f \in DOMAIN part : x[f] = part[f]
    BY <1>3, <2>9 DEF PartIs
  <2>2. PartIs(x, m, s, w)
    BY <2>10 DEF PartIs
  <2>11. Len(m) \in Bulk(m, s, w)
    BY <1>5
  <2> HIDE DEF fresh
  <2>12. SlotsAre(Append(slots, x), m, s, w)
    BY <2>2, <2>11, SlotsAppend
  <2>3. SlotsAre(more, m, s, w)
    BY <2>1, <2>9, <2>12
  <2>4. /\ Len(more) = Len(slots) + 1 /\ Len(slots) \in Nat /\ more[Len(slots) + 1] = x
        /\ \A i \in 1 .. Len(slots) : more[i] = slots[i]
    BY <1>2, <2>1, <2>9
  <2>5. x.start = from /\ x.end = to
    BY <1>3, <2>2 DEF PartIs
  <2>6. \A i \in 1 .. Len(more) : i \in 1 .. Len(slots) \/ i = Len(slots) + 1
    BY <2>4
  <2>7. Whole(slots) /\ to - from >= SlotMinMS => Whole(more)
    BY <2>4, <2>5, <2>6 DEF Whole, SlotFull
  <2>8. (\A i \in 1 .. Len(slots) : Begun(more, slots[i].start)) /\ Begun(more, from)
    BY <2>4, <2>5 DEF Begun
  <2> QED BY <2>3, <2>7, <2>8
<1>6. CASE moved /\ open
  <2>1. PICK z : z = merged
    OBVIOUS
  <2>2. more = [slots EXCEPT ![Len(slots)] = z]
    BY <1>1, <1>6, <2>1
  <2>3. {"start", "end", w.amount, w.loss, w.samples} \subseteq DOMAIN part
    BY DEF PartIs
  <2>4. z.start = last.start /\ z.end = to
    BY <2>1, <2>3
  <2>5. z[w.amount] = last[w.amount] + part[w.amount] /\ z[w.loss] = last[w.loss] + part[w.loss]
    BY <2>1, <2>3, WaysAre
  <2>6. z[w.samples] = last[w.samples] \o part[w.samples]
    BY <2>1, <2>3, WaysAre
  <2> HIDE DEF merged
  <2>9. Len(m) \in Bulk(m, s, w) /\ slots # <<>>
    BY <1>6
  <2>10. PICK x : x = last
    OBVIOUS
  <2>11. /\ z.start = x.start /\ z.end = m[Len(m)].at /\ z[w.amount] = x[w.amount] + part[w.amount]
         /\ z[w.loss] = x[w.loss] + part[w.loss] /\ z[w.samples] = x[w.samples] \o part[w.samples]
    BY <2>4, <2>5, <2>6, <2>10
  <2>12. SlotsAre([slots EXCEPT ![Len(slots)] = z], m, s, w)
    BY <2>9, <2>10, <2>11, SlotsMerge
  <2>7. SlotsAre(more, m, s, w)
    BY <2>2, <2>12
  <2>8. ~Whole(slots)
    <3>1. Len(slots) \in 1 .. Len(slots)
      BY <1>2, <1>6
    <3> QED BY <1>6, <3>1 DEF Whole
  <2> QED BY <2>7, <2>8
<1> QED BY <1>4, <1>5, <1>6

(* AdvanceSlots keeps the slots right.                                     *)
LEMMA AdvanceIs ==
  ASSUME NEW l, NEW m, Extends(m, l), LogIs(l), LogIs(m), NEW s \in Sockets, NEW w \in Ways,
         NEW slots, SlotsAre(slots, l, s, w), NEW bytes \in Nat, bytes >= SlotMinBytes <=> Len(m) \in Bulk(m, s, w),
         NEW part, PartIs(part, m, s, w), NEW from, from = m[Len(l)].at, NEW to, to = m[Len(m)].at,
         NEW new, new = AdvanceSlots(slots, bytes, part, from, to)
  PROVE  /\ SlotsAre(new, m, s, w)
         /\ new # <<>> => new[1].start >= to - SlotWindow
         /\ Whole(slots) /\ to - from >= SlotMinMS =>
              /\ Whole(new)
              /\ \A i \in 1 .. Len(slots) : slots[i].start >= to - SlotWindow => Begun(new, slots[i].start)
              /\ bytes >= SlotMinBytes /\ from >= to - SlotWindow => Begun(new, from)
<1>1. PICK more : more = Longer(slots, bytes, part, from, to)
  OBVIOUS
<1>2. new = SlotsSince(more, to - SlotWindow)
  BY Zenon, <1>1 DEF AdvanceSlots, Longer
<1>3. Len(m) \in 1 .. Len(m)
  BY DEF Extends, SlotsAre
<1>4. to - SlotWindow \in Int
  BY <1>3, SnapIs, WindowIs
<1>5. SlotsAre(more, m, s, w)
  BY <1>1, LongerIs
<1>6. SlotsAre(new, m, s, w)
  BY <1>2, <1>4, <1>5, SinceKeeps
<1>7. new # <<>> => new[1].start >= to - SlotWindow
  BY <1>2, <1>4, <1>5, SinceKeeps
<1>8. Whole(more) => Whole(new)
  BY <1>2, <1>4, <1>5, SinceKeeps
<1>9. \A at : at >= to - SlotWindow /\ Begun(more, at) => Begun(new, at)
  BY <1>2, <1>4, <1>5, SinceKeeps
<1>10. Whole(slots) /\ to - from >= SlotMinMS =>
              /\ Whole(more) /\ \A i \in 1 .. Len(slots) : Begun(more, slots[i].start)
              /\ bytes >= SlotMinBytes => Begun(more, from)
  BY <1>1, LongerIs
<1> QED BY <1>6, <1>7, <1>8, <1>9, <1>10

-----------------------------------------------------------------------------
(* A connection of the last snapshot.                                      *)

(* Printed, for any log.                                                   *)
PrintedIn(l, k, f) == scene.counters /\ \E s \in l[k].listed \ UdpSockets : l[k].kernel[s][f] > 0

(* Its deltas. *)
Measured(c, l, s) ==
  LET n == Len(l)
  IN  /\ c.DeltaBytesSent \in {None, Grew(l, n, s, "sent")}
      /\ c.DeltaBytesRetrans \in {None, Grew(l, n, s, "retrans")}
      /\ c.DeltaDataSegsIn \in {None, Grew(l, n, s, "data")}
      /\ c.DeltaRcvOOOPack \in {None, Grew(l, n, s, "ooo")}
      /\ c.DeltaSkmemD = Grew(l, n, s, "drops")
      /\ PrintedIn(l, n - 1, "sent") /\ PrintedIn(l, n, "sent") =>
           c.DeltaBytesSent # None /\ c.DeltaBytesRetrans # None
      /\ PrintedIn(l, n - 1, "data") /\ PrintedIn(l, n, "data") => c.DeltaDataSegsIn # None
      /\ scene.counters => c.DeltaBytesReceived # None /\ c.DeltaRcvOOOPack # None
      /\ ~scene.counters => c.DeltaBytesSent = None /\ c.DeltaBytesRetrans = None /\ c.DeltaDataSegsIn = None

(* What a read shows, its connection shows.                                *)
LEMMA BaseCarries ==
  ASSUME NEW c, DOMAIN c = Fields, NEW r, NEW from, NEW to, Follows(c, r, from, to), NEW k, NEW g, Base(r, k, g)
  PROVE  Base(c, k, g) /\ c.LocalPort = r.LocalPort /\ c.Protocol = r.Protocol
<1>1. \A f \in Kept : c[f] = r[f]
  BY DEF Follows
<1>2. /\ c.Protocol = r.Protocol /\ c.State = r.State /\ c.LocalPort = r.LocalPort /\ c.PeerAddr = r.PeerAddr
      /\ c.SkmemR = r.SkmemR /\ c.SkmemRB = r.SkmemRB /\ c.SkmemD = r.SkmemD /\ c.Timestamps = r.Timestamps
      /\ c.CWnd = r.CWnd /\ c.MinRTT = r.MinRTT /\ c.RTT = r.RTT /\ c.RcvRTT = r.RcvRTT
      /\ c.RcvSSThresh = r.RcvSSThresh /\ c.CongAlgo = r.CongAlgo /\ c.BytesSent = r.BytesSent
      /\ c.BytesRetrans = r.BytesRetrans /\ c.DataSegsIn = r.DataSegsIn /\ c.RcvOOOPack = r.RcvOOOPack
      /\ c.BytesReceived = r.BytesReceived /\ c.SegsIn = r.SegsIn
  BY <1>1 DEF Kept
<1>3. Shows(r, k, g) => Shows(c, k, g)
  BY <1>2 DEF Shows
<1>4. Counts(r, k) => Counts(c, k)
  BY <1>2 DEF Counts
<1> QED BY <1>2, <1>3, <1>4 DEF Base

(* What is vouched for stays so.                                           *)
LEMMA VouchedCarries ==
  ASSUME NEW c, NEW r, NEW from, NEW to, Follows(c, r, from, to), NEW k, NEW ports, Vouched(r, k, ports)
  PROVE  Vouched(c, k, ports)
<1>1. \A f \in Kept : c[f] = r[f]
  BY DEF Follows
<1>2. /\ c.BytesSent = r.BytesSent /\ c.BytesRetrans = r.BytesRetrans /\ c.DataSegsIn = r.DataSegsIn
      /\ c.BytesReceived = r.BytesReceived /\ c.RcvOOOPack = r.RcvOOOPack
  BY <1>1 DEF Kept
<1> QED BY <1>2 DEF Vouched

(* A delta of two counters.                                                *)
LEMMA GrownIs ==
  ASSUME NEW a \in Nat, NEW b \in Nat, b <= a, NEW x \in {None, a}, NEW y \in {None, b}
  PROVE  /\ Grown(x, y) \in {None, a - b}
         /\ x # None /\ y # None => Grown(x, y) = a - b /\ Grown(x, y) # None
         /\ x = None => Grown(x, y) = None
<1>1. a # None /\ b # None /\ a - b # None
  BY NoneIsNoNumber
<1> QED BY <1>1 DEF Grown, Known

(* The deltas of a socket that both snapshots list.                        *)
LEMMA MeasuredIs ==
  ASSUME NEW l, LogIs(l), Len(l) > 1, NEW s \in Sockets \ UdpSockets,
         NEW c, Base(c, l[Len(l)].kernel[s], l[Len(l)].found[s]), c.LocalPort = s,
         Vouched(c, l[Len(l)].kernel, l[Len(l)].listed),
         NEW p, Base(p, l[Len(l) - 1].kernel[s], l[Len(l) - 1].found[s]), p.LocalPort = s,
         Vouched(p, l[Len(l) - 1].kernel, l[Len(l) - 1].listed),
         NEW from, NEW to, Deltas(c, p, from, to)
  PROVE  /\ Measured(c, l, s)
         /\ c.DeltaBytesReceived \in {None, SegBytes * Grew(l, Len(l), s, "data")}
<1>1. PICK n : n = Len(l)
  OBVIOUS
<1>2. PICK a, b : a = l[n].kernel[s] /\ b = l[n - 1].kernel[s]
  OBVIOUS
<1>3. n \in Nat /\ n \in 1 .. Len(l) /\ n - 1 \in 1 .. Len(l) /\ n - 1 < n
  BY <1>1 DEF LogIs
<1>4. Rises(b, a)
  BY <1>2, <1>3 DEF LogIs
<1>5. a \in Amounts /\ b \in Amounts
  <2>1. l[n] \in Snap /\ l[n - 1] \in Snap
    BY <1>3 DEF LogIs
  <2>2. l[n].kernel \in [Sockets -> Amounts] /\ l[n - 1].kernel \in [Sockets -> Amounts]
    BY <2>1 DEF Snap
  <2> QED BY <1>2, <2>2
<1>6. \A f \in DOMAIN NoCounts : a[f] \in Nat /\ b[f] \in Nat /\ b[f] <= a[f] /\ Grew(l, n, s, f) = a[f] - b[f]
  BY <1>2, <1>4, <1>5 DEF Amounts, Rises, Grew
<1>7. {"sent", "retrans", "data", "ooo", "drops"} \subseteq DOMAIN NoCounts
  BY DEF NoCounts
<1>8. c.Protocol = "tcp" /\ p.Protocol = "tcp"
  BY DEF Base
<1>9. Counts(c, a) /\ Counts(p, b)
  BY <1>1, <1>2, <1>8 DEF Base
<1>10. c.SkmemD = a.drops /\ p.SkmemD = b.drops
  BY <1>1, <1>2, <1>8 DEF Base, Shows
<1>11. /\ c.DeltaBytesSent \in {None, Grew(l, n, s, "sent")}
       /\ c.BytesSent # None /\ p.BytesSent # None => c.DeltaBytesSent # None
       /\ ~scene.counters => c.DeltaBytesSent = None
  BY <1>6, <1>7, <1>9, GrownIs DEF Counts, Deltas
<1>12. /\ c.DeltaBytesRetrans \in {None, Grew(l, n, s, "retrans")}
       /\ c.BytesRetrans # None /\ p.BytesRetrans # None => c.DeltaBytesRetrans # None
       /\ ~scene.counters => c.DeltaBytesRetrans = None
  BY <1>6, <1>7, <1>9, GrownIs DEF Counts, Deltas
<1>13. /\ c.DeltaDataSegsIn \in {None, Grew(l, n, s, "data")}
       /\ c.DataSegsIn # None /\ p.DataSegsIn # None => c.DeltaDataSegsIn # None
       /\ ~scene.counters => c.DeltaDataSegsIn = None
  BY <1>6, <1>7, <1>9, GrownIs DEF Counts, Deltas
<1>14. /\ c.DeltaRcvOOOPack \in {None, Grew(l, n, s, "ooo")}
       /\ c.RcvOOOPack # None /\ p.RcvOOOPack # None => c.DeltaRcvOOOPack # None
  <2>1. a["ooo"] \in Nat /\ b["ooo"] \in Nat /\ b["ooo"] <= a["ooo"] /\ Grew(l, n, s, "ooo") = a["ooo"] - b["ooo"]
    BY <1>6, <1>7
  <2>2. c.RcvOOOPack \in {None, a["ooo"]} /\ p.RcvOOOPack \in {None, b["ooo"]}
    BY <1>9 DEF Counts
  <2>3. /\ Grown(c.RcvOOOPack, p.RcvOOOPack) \in {None, a["ooo"] - b["ooo"]}
        /\ c.RcvOOOPack # None /\ p.RcvOOOPack # None => Grown(c.RcvOOOPack, p.RcvOOOPack) # None
    BY <2>1, <2>2, GrownIs
  <2> QED BY <2>1, <2>3 DEF Deltas
<1>15. c.DeltaSkmemD = Grew(l, n, s, "drops")
  <2>1. a["drops"] \in Nat /\ b["drops"] \in Nat /\ b["drops"] <= a["drops"]
    BY <1>6, <1>7
  <2>2. a["drops"] # None /\ b["drops"] # None
    BY <2>1, NoneIsNoNumber
  <2> QED BY <1>6, <1>7, <1>10, <2>1, <2>2 DEF Deltas, Grown, Known
<1>16. /\ c.DeltaBytesReceived \in {None, SegBytes * Grew(l, n, s, "data")}
       /\ c.BytesReceived # None /\ p.BytesReceived # None => c.DeltaBytesReceived # None
  <2>1. /\ a["data"] \in Nat /\ b["data"] \in Nat /\ b["data"] <= a["data"]
        /\ Grew(l, n, s, "data") = a["data"] - b["data"]
    BY <1>6, <1>7
  <2>2. /\ SegBytes * a["data"] \in Nat /\ SegBytes * b["data"] \in Nat /\ SegBytes * b["data"] <= SegBytes * a["data"]
        /\ SegBytes * a["data"] - SegBytes * b["data"] = SegBytes * (a["data"] - b["data"])
    <3>1. \A x, y \in Nat : y <= x => /\ SegBytes * x \in Nat /\ SegBytes * y \in Nat /\ SegBytes * y <= SegBytes * x
                                     /\ SegBytes * x - SegBytes * y = SegBytes * (x - y)
      BY DEF SegBytes
    <3> QED BY <2>1, <3>1
  <2>3. /\ c.DeltaBytesReceived \in {None, SegBytes * a["data"] - SegBytes * b["data"]}
        /\ c.BytesReceived # None /\ p.BytesReceived # None => c.DeltaBytesReceived # None
    BY <1>9, <2>2, GrownIs DEF Counts, Deltas
  <2> QED BY <2>1, <2>2, <2>3
<1>17. PrintedIn(l, n, "sent") => c.BytesSent # None /\ c.BytesRetrans # None
  BY <1>1 DEF PrintedIn, Vouched
<1>18. PrintedIn(l, n - 1, "sent") => p.BytesSent # None /\ p.BytesRetrans # None
  BY <1>1 DEF PrintedIn, Vouched
<1>19. PrintedIn(l, n, "data") => c.DataSegsIn # None
  BY <1>1 DEF PrintedIn, Vouched
<1>20. PrintedIn(l, n - 1, "data") => p.DataSegsIn # None
  BY <1>1 DEF PrintedIn, Vouched
<1>21. scene.counters => c.BytesReceived # None /\ c.RcvOOOPack # None /\ p.BytesReceived # None /\ p.RcvOOOPack # None
  BY DEF Vouched
<1> QED BY <1>1, <1>11, <1>12, <1>13, <1>14, <1>15, <1>16, <1>17, <1>18, <1>19, <1>20, <1>21 DEF Measured

(* The two ways, by their names.                                           *)
LEMMA SendingIs ==
  /\ Sending \in Ways /\ Sending.amount = "sent" /\ Sending.counter = "sent" /\ Sending.unit = 1
  /\ Sending.loss = "retrans" /\ Sending.samples = "queue" /\ Sending.base = 0
BY DEF Ways, Sending

(* As above.                                                               *)
LEMMA ReceivingIs ==
  /\ Receiving \in Ways /\ Receiving.amount = "segs" /\ Receiving.counter = "data" /\ Receiving.unit = SegBytes
  /\ Receiving.loss = "ooo" /\ Receiving.samples = "rtts" /\ Receiving.base = 10
BY DEF Ways, Receiving

(* The slots of what is sent,                                              *)
LEMMA SendMoves ==
  ASSUME NEW l, NEW m, Extends(m, l), LogIs(l), LogIs(m), Len(l) > 0, NEW s \in Sockets \ UdpSockets,
         NEW c, c.LocalPort = s, Base(c, m[Len(m)].kernel[s], m[Len(m)].found[s]), Measured(c, m, s),
         NEW p, NEW from, NEW to, Deltas(c, p, from, to), from = m[Len(l)].at, to = m[Len(m)].at,
         SlotsAre(p.SendSlots, l, s, Sending)
  PROVE  /\ SlotsAre(c.SendSlots, m, s, Sending)
         /\ c.SendSlots # <<>> => c.SendSlots[1].start >= to - SlotWindow
         /\ ~(Known(c.DeltaBytesSent) /\ Known(c.DeltaBytesRetrans)) => c.SendSlots = <<>>
         /\ Known(c.DeltaBytesSent) /\ Known(c.DeltaBytesRetrans) /\ Whole(p.SendSlots) /\ to - from >= SlotMinMS =>
              /\ Whole(c.SendSlots)
              /\ \A i \in 1 .. Len(p.SendSlots) :
                   p.SendSlots[i].start >= to - SlotWindow => Begun(c.SendSlots, p.SendSlots[i].start)
              /\ Len(m) \in Bulk(m, s, Sending) /\ from >= to - SlotWindow => Begun(c.SendSlots, from)
<1>1. PICK n : n = Len(m)
  OBVIOUS
<1>2. n \in Nat /\ n \in 2 .. n /\ n - 1 = Len(l) /\ Len(l) \in Nat \ {0} /\ n \in 1 .. n
  BY <1>1 DEF Extends
<1>3. PICK q \in Nat : q = m[n].found[s].queue
  BY <1>1, <1>2, SnapIs
<1>4. c.MinRTT = 10 /\ c.RTT = 10 + q
  BY <1>1, <1>3 DEF Base, Shows
<1>5. CASE ~(Known(c.DeltaBytesSent) /\ Known(c.DeltaBytesRetrans))
  <2>1. c.SendSlots = <<>>
    BY <1>5 DEF Deltas, AdvanceSendSlots
  <2>2. SlotsAre(<<>>, m, s, Sending)
    BY <1>1, <1>2, NoSlots
  <2> QED BY <1>5, <2>1, <2>2
<1>6. CASE Known(c.DeltaBytesSent) /\ Known(c.DeltaBytesRetrans)
  <2>1. PICK part :
          part = [start |-> from, end |-> to, sent |-> c.DeltaBytesSent, retrans |-> c.DeltaBytesRetrans,
                  reord |-> Deref(c.DeltaReordSeen),
                  queue |-> IF Known(c.RTT) /\ Known(c.MinRTT) THEN <<c.RTT - c.MinRTT>> ELSE <<>>]
    OBVIOUS
  <2>4. /\ c.DeltaBytesSent = Grew(m, n, s, "sent") /\ c.DeltaBytesRetrans = Grew(m, n, s, "retrans")
    BY <1>1, <1>6 DEF Measured, Known
  <2>5. Grew(m, n, s, "sent") \in Nat
    BY <1>1, <1>2, GrewIsNat DEF NoCounts
  <2>2. PICK bytes : bytes = c.DeltaBytesSent
    OBVIOUS
  <2>3. c.SendSlots = AdvanceSlots(p.SendSlots, bytes, part, from, to)
    <3>1. AdvanceSendSlots(c, p, from, to) = AdvanceSlots(p.SendSlots, c.DeltaBytesSent, part, from, to)
      BY <1>6, <2>1 DEF AdvanceSendSlots
    <3> QED BY <2>2, <3>1 DEF Deltas
  <2>20. bytes \in Nat
    BY <2>2, <2>4, <2>5 DEF SegBytes
  <2>6. bytes >= SlotMinBytes <=> n \in Bulk(m, s, Sending)
    <3>1. n \in Bulk(m, s, Sending) <=> 1 * Grew(m, n, s, "sent") >= SlotMinBytes
      BY <1>1, <1>2, SendingIs DEF Bulk
    <3>2. 1 * Grew(m, n, s, "sent") = Grew(m, n, s, "sent")
      BY <2>5
    <3> QED BY <2>2, <2>4, <3>1, <3>2
  <2>7. c.RTT - c.MinRTT = 0 + q /\ Known(c.RTT) /\ Known(c.MinRTT)
    BY <1>3, <1>4, NoneIsNoNumber DEF Known
  <2>8. PartIs(part, m, s, Sending)
    <3>1. /\ DOMAIN part = {"start", "end", "sent", "retrans", "reord", "queue"}
          /\ part["start"] = from /\ part["end"] = to
          /\ part["sent"] = c.DeltaBytesSent /\ part["retrans"] = c.DeltaBytesRetrans
          /\ part["queue"] = <<c.RTT - c.MinRTT>>
      BY <2>1, <2>7
    <3> QED BY <1>1, <1>2, <1>3, <2>4, <2>7, <3>1, SendingIs DEF PartIs
  <2>9. PICK slots, new : slots = p.SendSlots /\ new = c.SendSlots
    OBVIOUS
  <2>10. SlotsAre(slots, l, s, Sending) /\ new = AdvanceSlots(slots, bytes, part, from, to)
    BY <2>3, <2>9
  <2>11. bytes >= SlotMinBytes <=> Len(m) \in Bulk(m, s, Sending)
    BY <1>1, <2>6
  <2>12. SlotsAre(new, m, s, Sending)
    BY <2>8, <2>10, <2>11, <2>20, SendingIs, AdvanceIs
  <2>13. new # <<>> => new[1].start >= to - SlotWindow
    BY <2>8, <2>10, <2>11, <2>20, SendingIs, AdvanceIs
  <2>14. Whole(slots) /\ to - from >= SlotMinMS => Whole(new)
    BY <2>8, <2>10, <2>11, <2>20, SendingIs, AdvanceIs
  <2>15. ASSUME Whole(slots), to - from >= SlotMinMS
         PROVE  \A i \in 1 .. Len(slots) : slots[i].start >= to - SlotWindow => Begun(new, slots[i].start)
    BY <2>15, <2>8, <2>10, <2>11, <2>20, SendingIs, AdvanceIs
  <2>16. Whole(slots) /\ to - from >= SlotMinMS
           => (bytes >= SlotMinBytes /\ from >= to - SlotWindow => Begun(new, from))
    BY <2>8, <2>10, <2>11, <2>20, SendingIs, AdvanceIs
  <2> QED BY <1>6, <2>9, <2>11, <2>12, <2>13, <2>14, <2>15, <2>16
<1> QED BY <1>5, <1>6

(* and those of what is received.                                          *)
LEMMA RecvMoves ==
  ASSUME NEW l, NEW m, Extends(m, l), LogIs(l), LogIs(m), Len(l) > 0, NEW s \in Sockets \ UdpSockets,
         NEW c, c.LocalPort = s, Base(c, m[Len(m)].kernel[s], m[Len(m)].found[s]), Measured(c, m, s),
         c.DeltaBytesReceived \in {None, SegBytes * Grew(m, Len(m), s, "data")},
         NEW p, NEW from, NEW to, Deltas(c, p, from, to), from = m[Len(l)].at, to = m[Len(m)].at,
         SlotsAre(p.RecvSlots, l, s, Receiving)
  PROVE  /\ SlotsAre(c.RecvSlots, m, s, Receiving)
         /\ c.RecvSlots # <<>> => c.RecvSlots[1].start >= to - SlotWindow
         /\ ~(Known(c.DeltaBytesReceived) /\ Known(c.DeltaDataSegsIn) /\ Known(c.DeltaRcvOOOPack)) => c.RecvSlots = <<>>
         /\ (Known(c.DeltaBytesReceived) /\ Known(c.DeltaDataSegsIn) /\ Known(c.DeltaRcvOOOPack)
             /\ Whole(p.RecvSlots) /\ to - from >= SlotMinMS) =>
              /\ Whole(c.RecvSlots)
              /\ \A i \in 1 .. Len(p.RecvSlots) :
                   p.RecvSlots[i].start >= to - SlotWindow => Begun(c.RecvSlots, p.RecvSlots[i].start)
              /\ Len(m) \in Bulk(m, s, Receiving) /\ from >= to - SlotWindow => Begun(c.RecvSlots, from)
<1>1. PICK n : n = Len(m)
  OBVIOUS
<1>2. n \in Nat /\ n \in 2 .. n /\ n - 1 = Len(l) /\ Len(l) \in Nat \ {0} /\ n \in 1 .. n
  BY <1>1 DEF Extends
<1>3. PICK q \in Nat : q = m[n].found[s].queue
  BY <1>1, <1>2, SnapIs
<1>4. c.RcvRTT = 10 + q /\ c.Timestamps = TRUE
  BY <1>1, <1>3 DEF Base, Shows
<1>5. CASE ~(Known(c.DeltaBytesReceived) /\ Known(c.DeltaDataSegsIn) /\ Known(c.DeltaRcvOOOPack))
  <2>1. c.RecvSlots = <<>>
    BY <1>5 DEF Deltas, AdvanceRecvSlots
  <2>2. SlotsAre(<<>>, m, s, Receiving)
    BY <1>1, <1>2, NoSlots
  <2> QED BY <1>5, <2>1, <2>2
<1>6. CASE Known(c.DeltaBytesReceived) /\ Known(c.DeltaDataSegsIn) /\ Known(c.DeltaRcvOOOPack)
  <2>1. PICK part :
          part = [start |-> from, end |-> to, segs |-> c.DeltaDataSegsIn, ooo |-> c.DeltaRcvOOOPack,
                  rtts |-> IF c.Timestamps /\ Known(c.RcvRTT) THEN <<c.RcvRTT>> ELSE <<>>]
    OBVIOUS
  <2>4. /\ c.DeltaDataSegsIn = Grew(m, n, s, "data") /\ c.DeltaRcvOOOPack = Grew(m, n, s, "ooo")
        /\ c.DeltaBytesReceived = SegBytes * Grew(m, n, s, "data")
    BY <1>1, <1>6 DEF Measured, Known
  <2>5. Grew(m, n, s, "data") \in Nat
    BY <1>1, <1>2, GrewIsNat DEF NoCounts
  <2>2. PICK bytes : bytes = c.DeltaBytesReceived
    OBVIOUS
  <2>3. c.RecvSlots = AdvanceSlots(p.RecvSlots, bytes, part, from, to)
    <3>1. AdvanceRecvSlots(c, p, from, to) = AdvanceSlots(p.RecvSlots, c.DeltaBytesReceived, part, from, to)
      BY <1>6, <2>1 DEF AdvanceRecvSlots
    <3> QED BY <2>2, <3>1 DEF Deltas
  <2>20. bytes \in Nat
    BY <2>2, <2>4, <2>5 DEF SegBytes
  <2>6. bytes >= SlotMinBytes <=> n \in Bulk(m, s, Receiving)
    <3>1. n \in Bulk(m, s, Receiving) <=> SegBytes * Grew(m, n, s, "data") >= SlotMinBytes
      BY <1>1, <1>2, ReceivingIs DEF Bulk
    <3> QED BY <2>2, <2>4, <3>1
  <2>7. Known(c.RcvRTT)
    BY <1>3, <1>4, NoneIsNoNumber DEF Known
  <2>8. PartIs(part, m, s, Receiving)
    <3>1. /\ DOMAIN part = {"start", "end", "segs", "ooo", "rtts"}
          /\ part["start"] = from /\ part["end"] = to
          /\ part["segs"] = c.DeltaDataSegsIn /\ part["ooo"] = c.DeltaRcvOOOPack
          /\ part["rtts"] = <<c.RcvRTT>>
      BY <1>4, <2>1, <2>7
    <3> QED BY <1>1, <1>2, <1>3, <1>4, <2>4, <3>1, ReceivingIs DEF PartIs
  <2>9. PICK slots, new : slots = p.RecvSlots /\ new = c.RecvSlots
    OBVIOUS
  <2>10. SlotsAre(slots, l, s, Receiving) /\ new = AdvanceSlots(slots, bytes, part, from, to)
    BY <2>3, <2>9
  <2>11. bytes >= SlotMinBytes <=> Len(m) \in Bulk(m, s, Receiving)
    BY <1>1, <2>6
  <2>12. SlotsAre(new, m, s, Receiving)
    BY <2>8, <2>10, <2>11, <2>20, ReceivingIs, AdvanceIs
  <2>13. new # <<>> => new[1].start >= to - SlotWindow
    BY <2>8, <2>10, <2>11, <2>20, ReceivingIs, AdvanceIs
  <2>14. Whole(slots) /\ to - from >= SlotMinMS => Whole(new)
    BY <2>8, <2>10, <2>11, <2>20, ReceivingIs, AdvanceIs
  <2>15. ASSUME Whole(slots), to - from >= SlotMinMS
         PROVE  \A i \in 1 .. Len(slots) : slots[i].start >= to - SlotWindow => Begun(new, slots[i].start)
    BY <2>15, <2>8, <2>10, <2>11, <2>20, ReceivingIs, AdvanceIs
  <2>16. Whole(slots) /\ to - from >= SlotMinMS
           => (bytes >= SlotMinBytes /\ from >= to - SlotWindow => Begun(new, from))
    BY <2>8, <2>10, <2>11, <2>20, ReceivingIs, AdvanceIs
  <2> QED BY <1>6, <2>9, <2>11, <2>12, <2>13, <2>14, <2>15, <2>16
<1> QED BY <1>5, <1>6

-----------------------------------------------------------------------------
(* What the slots say of the polls they hold.                              *)

(* Later slots are of later polls.                                         *)
LEMMA CutsRise ==
  ASSUME NEW n \in Nat, NEW cut \in [1 .. n + 1 -> Nat], \A i \in 1 .. n : cut[i] <= cut[i + 1]
  PROVE  \A i \in 1 .. n + 1 : \A j \in i .. n + 1 : cut[i] <= cut[j]
<1>1. SUFFICES ASSUME NEW i \in 1 .. n + 1
               PROVE  \A j \in i .. n + 1 : cut[i] <= cut[j]
  OBVIOUS
<1> DEFINE wrong == {j \in i .. n + 1 : ~(cut[i] <= cut[j])}
<1>2. SUFFICES ASSUME wrong # {}
               PROVE  FALSE
  OBVIOUS
<1>3. wrong \in SUBSET Nat
  OBVIOUS
<1>4. PICK j \in wrong : \A m \in wrong : j <= m
  BY <1>2, <1>3, Least
<1>5. j # i /\ j \in i .. n + 1
  OBVIOUS
<1>6. j - 1 \in i .. n + 1 /\ j - 1 \in 1 .. n /\ j - 1 + 1 = j
  BY <1>5
<1>7. j - 1 \notin wrong
  BY <1>4, <1>6
<1> QED BY <1>5, <1>6, <1>7

(* The complete slots are the first ones, and at least four.               *)
LEMMA CompleteIs ==
  ASSUME NEW S, NEW slots \in Seq(S), NEW done, done = CompleteSlots(slots), done # <<>>
  PROVE  /\ Len(done) \in 4 .. Len(slots)
         /\ DOMAIN done = 1 .. Len(done)
         /\ \A i \in 1 .. Len(done) : done[i] = slots[i]
<1>1. PICK d : d = IF slots # <<>> /\ ~SlotFull(slots[Len(slots)])
                     THEN SubSeq(slots, 1, Len(slots) - 1) ELSE slots
  OBVIOUS
<1>2. d = done /\ Len(done) >= 4
  BY <1>1 DEF CompleteSlots, SlotMinCount
<1>3. CASE slots # <<>> /\ ~SlotFull(slots[Len(slots)])
  <2>1. d = SubSeq(slots, 1, Len(slots) - 1)
    BY <1>1, <1>3
  <2>2. Len(slots) \in Nat \ {0}
    BY <1>3
  <2> QED BY <1>2, <2>1, <2>2
<1>4. CASE ~(slots # <<>> /\ ~SlotFull(slots[Len(slots)]))
  <2>1. d = slots
    BY <1>1, <1>4
  <2> QED BY <1>2, <2>1
<1> QED BY <1>3, <1>4

(* Two elements make two.                                                  *)
LEMMA TwoOf ==
  ASSUME NEW T, IsFiniteSet(T), Cardinality(T) >= 2
  PROVE  \E a, b \in T : a # b
<1>1. ASSUME \A a, b \in T : a = b
      PROVE  FALSE
  <2>1. Cardinality(T) # 0
    BY FS_CardinalityType
  <2>2. T # {}
    BY <2>1, FS_EmptySet
  <2>3. PICK a \in T : TRUE
    BY <2>2
  <2>4. PICK U : U = {a}
    OBVIOUS
  <2>5. T \in SUBSET U
    BY <1>1, <2>3, <2>4
  <2>6. IsFiniteSet(U) /\ Cardinality(U) = 1
    BY <2>4, FS_Singleton
  <2>7. Cardinality(T) <= 1 /\ Cardinality(T) \in Nat
    BY <2>5, <2>6, FS_Subset, FS_CardinalityType
  <2> QED BY <2>7
<1> QED BY <1>1

(* A set that meets two sets which are apart has two elements.             *)
LEMMA AtLeastTwo ==
  ASSUME NEW T, IsFiniteSet(T), NEW a \in T, NEW b \in T, a # b
  PROVE  Cardinality(T) >= 2
<1>1. PICK U : U = {a}
  OBVIOUS
<1>2. IsFiniteSet(U) /\ Cardinality(U) = 1
  BY <1>1, FS_Singleton
<1>3. PICK V : V = U \cup {b}
  OBVIOUS
<1>4. b \notin U
  BY <1>1
<1>5. IsFiniteSet(V) /\ Cardinality(V) = 2
  BY <1>2, <1>3, <1>4, FS_AddElement
<1>6. V \in SUBSET T
  BY <1>1, <1>3
<1> QED BY <1>5, <1>6, FS_Subset, FS_CardinalityType

(* The polls after a time. *)
Late(l, since) == {k \in 2 .. Len(l) : l[k - 1].at >= since}

(* The polls of a slot began late enough, and those of a later slot are    *)
(* later polls.                                                            *)
LEMMA SlotPolls ==
  ASSUME NEW l, LogIs(l), NEW s \in Sockets, NEW w \in Ways, NEW slots, NEW S, slots \in Seq(S),
         NEW cut \in [1 .. Len(slots) + 1 -> 1 .. Len(l)], Cuts(cut, slots, l, s, w),
         NEW since \in Int, slots # <<>> => slots[1].start >= since,
         NEW i \in 1 .. Len(slots)
  PROVE  /\ cut[i] < cut[i + 1] /\ SlotIs(slots[i], l, s, w, cut[i], cut[i + 1])
         /\ \A j \in 1 .. Len(slots) : i < j => cut[i + 1] <= cut[j]
         /\ \A k \in (cut[i] + 1) .. cut[i + 1] : k \in Late(l, since)
<1>1. PICK n : n = Len(slots)
  OBVIOUS
<1>2. n \in Nat /\ n # 0 /\ Len(l) \in Nat /\ 1 \in 1 .. n /\ i + 1 \in 1 .. n + 1 /\ i \in 1 .. n + 1
  BY <1>1 DEF LogIs
<1>3. \A j \in 1 .. n : cut[j] < cut[j + 1] /\ SlotIs(slots[j], l, s, w, cut[j], cut[j + 1])
  BY <1>1 DEF Cuts
<1>4. cut \in [1 .. n + 1 -> Nat] /\ \A j \in 1 .. n + 1 : cut[j] \in 1 .. Len(l)
  BY <1>1
<1>5. \A j \in 1 .. n : cut[j] <= cut[j + 1]
  <2>1. \A j \in 1 .. n : j \in 1 .. n + 1 /\ j + 1 \in 1 .. n + 1
    BY <1>2
  <2> QED BY <1>3, <1>4, <2>1
<1>6. \A a \in 1 .. n + 1 : \A b \in a .. n + 1 : cut[a] <= cut[b]
  BY <1>2, <1>4, <1>5, CutsRise
<1>7. \A j \in 1 .. n : i < j => cut[i + 1] <= cut[j]
  BY <1>2, <1>6
<1>8. ASSUME NEW k \in (cut[i] + 1) .. cut[i + 1]
      PROVE  k \in Late(l, since)
  <2>1. cut[1] <= cut[i] /\ cut[i] \in 1 .. Len(l) /\ cut[1] \in 1 .. Len(l) /\ cut[i + 1] \in 1 .. Len(l)
    BY <1>2, <1>4, <1>6
  <2>2. k \in 2 .. Len(l) /\ cut[1] <= k - 1 /\ k - 1 \in 1 .. Len(l)
    BY <2>1
  <2>3. slots[1].start = l[cut[1]].at
    BY <1>2, <1>3 DEF SlotIs
  <2>4. l[cut[1]].at >= since
    BY <1>1, <1>2, <2>3
  <2>5. l[cut[1]].at = l[k - 1].at \/ l[cut[1]].at < l[k - 1].at
    BY <2>1, <2>2 DEF LogIs
  <2>6. l[cut[1]].at \in Int /\ l[k - 1].at \in Int
    <3>1. \A a \in 1 .. Len(l) : l[a].at \in Nat
      BY SnapIs
    <3> QED BY <2>1, <2>2, <3>1
  <2> QED BY <2>2, <2>4, <2>5, <2>6 DEF Late
<1> QED BY <1>1, <1>3, <1>7, <1>8

(* They are finitely many.                                                 *)
LEMMA LateIsFinite ==
  ASSUME NEW l, LogIs(l), NEW since, NEW T, T \subseteq Late(l, since)
  PROVE  IsFiniteSet(T) /\ Cardinality(T) \in Nat
<1>1. Late(l, since) \subseteq 2 .. Len(l) /\ 2 \in Int /\ Len(l) \in Int
  BY DEF Late, LogIs
<1>2. IsFiniteSet(2 .. Len(l))
  BY <1>1, FS_Interval
<1> QED BY <1>1, <1>2, FS_Subset, FS_CardinalityType

(* When half of the complete slots have losses, two polls have.            *)
LEMMA LossInTwoPolls ==
  ASSUME NEW l, LogIs(l), NEW s \in Sockets, NEW w \in Ways, NEW slots, SlotsAre(slots, l, s, w),
         NEW since \in Int, slots # <<>> => slots[1].start >= since,
         NEW done, done = CompleteSlots(slots), done # <<>>, SlotsWith(done, w.loss) * 2 >= Len(done)
  PROVE  Cardinality({k \in Late(l, since) : Grew(l, k, s, w.loss) > 0}) >= 2
<1>1. PICK cut \in [1 .. Len(slots) + 1 -> 1 .. Len(l)] : Cuts(cut, slots, l, s, w)
  BY DEF SlotsAre
<1>2. PICK S : slots \in Seq(S)
  BY DEF SlotsAre
<1>3. PICK n : n = Len(done)
  OBVIOUS
<1>4. n \in 4 .. Len(slots) /\ DOMAIN done = 1 .. n /\ (\A i \in 1 .. n : done[i] = slots[i]) /\ Len(slots) \in Nat
  BY <1>2, <1>3, CompleteIs
<1> DEFINE lossy == {i \in 1 .. n : slots[i][w.loss] > 0}
           lost == {k \in Late(l, since) : Grew(l, k, s, w.loss) > 0}
<1>5. lossy = {i \in DOMAIN done : done[i][w.loss] > 0}
  BY <1>4
<1>6. Cardinality(lossy) * 2 >= n
  BY <1>3, <1>5 DEF SlotsWith
<1>7. IsFiniteSet(lossy) /\ Cardinality(lossy) \in Nat
  <2>1. IsFiniteSet(1 .. n)
    BY <1>4, FS_Interval
  <2> QED BY <2>1, FS_Subset, FS_CardinalityType
<1>8. Cardinality(lossy) >= 2
  BY <1>4, <1>6, <1>7
<1>9. PICK i, j \in lossy : i < j
  <2>1. PICK a, b \in lossy : a # b
    <3> HIDE DEF lossy
    <3> QED BY <1>7, <1>8, TwoOf
  <2>2. a \in Int /\ b \in Int
    BY <1>4, <2>1
  <2> QED BY <2>1, <2>2
<1>10. \A x \in lossy : x \in 1 .. Len(slots) /\ slots[x][w.loss] > 0
  BY <1>4
<1> HIDE DEF lossy
<1>11. PICK k \in (cut[i] + 1) .. cut[i + 1] : Grew(l, k, s, w.loss) > 0 /\ k \in Late(l, since)
  <2>1. i \in 1 .. Len(slots) /\ slots[i][w.loss] > 0
    BY <1>9, <1>10
  <2>2. SlotIs(slots[i], l, s, w, cut[i], cut[i + 1])
    BY <1>1, <1>2, <2>1, SlotPolls
  <2>3. \A x \in (cut[i] + 1) .. cut[i + 1] : x \in Late(l, since)
    BY <1>1, <1>2, <2>1, SlotPolls
  <2> QED BY <2>1, <2>2, <2>3 DEF SlotIs
<1>12. PICK m \in (cut[j] + 1) .. cut[j + 1] : Grew(l, m, s, w.loss) > 0 /\ m \in Late(l, since)
  <2>1. j \in 1 .. Len(slots) /\ slots[j][w.loss] > 0
    BY <1>9, <1>10
  <2>2. SlotIs(slots[j], l, s, w, cut[j], cut[j + 1])
    BY <1>1, <1>2, <2>1, SlotPolls
  <2>3. \A x \in (cut[j] + 1) .. cut[j + 1] : x \in Late(l, since)
    BY <1>1, <1>2, <2>1, SlotPolls
  <2> QED BY <2>1, <2>2, <2>3 DEF SlotIs
<1>13. k # m
  <2>1. i \in 1 .. Len(slots) /\ j \in 1 .. Len(slots)
    BY <1>9, <1>10
  <2>2. cut[i + 1] <= cut[j]
    BY <1>1, <1>2, <1>9, <2>1, SlotPolls
  <2>3. cut[i + 1] \in 1 .. Len(l) /\ cut[j] \in 1 .. Len(l)
    <3>1. i + 1 \in 1 .. Len(slots) + 1 /\ j \in 1 .. Len(slots) + 1
      BY <1>4, <2>1
    <3> QED BY <3>1
  <2> QED BY <2>2, <2>3
<1>14. k \in lost /\ m \in lost
  BY <1>11, <1>12
<1>15. IsFiniteSet(lost)
  <2>1. lost \subseteq Late(l, since)
    OBVIOUS
  <2> HIDE DEF lost
  <2> QED BY <2>1, LateIsFinite
<1>16. Cardinality(lost) >= 2
  <2> HIDE DEF lost
  <2> QED BY <1>13, <1>14, <1>15, AtLeastTwo
<1> QED BY <1>16

(* Every complete slot has a sample, and as many short ones as it has      *)
(* polls that moved data past no queue.                                    *)
LEMMA ShortInThreePolls ==
  ASSUME NEW l, LogIs(l), NEW s \in Sockets, NEW w \in Ways, NEW slots, SlotsAre(slots, l, s, w),
         NEW since \in Int, slots # <<>> => slots[1].start >= since,
         NEW done, done = CompleteSlots(slots), done # <<>>
  PROVE  /\ Samples(done, w.samples) \in Nat /\ Samples(done, w.samples) >= 4
         /\ SamplesBelow(done, w.samples, w.base + 4) \in Nat
         /\ SamplesBelow(done, w.samples, w.base + 4) >= 3 =>
              Cardinality({k \in Late(l, since) : Grew(l, k, s, w.counter) > 0} \cap Short(l, s)) >= 3
<1>1. PICK cut \in [1 .. Len(slots) + 1 -> 1 .. Len(l)] : Cuts(cut, slots, l, s, w)
  BY DEF SlotsAre
<1>2. PICK S : slots \in Seq(S)
  BY DEF SlotsAre
<1>3. PICK n : n = Len(done)
  OBVIOUS
<1>4. n \in 4 .. Len(slots) /\ DOMAIN done = 1 .. n /\ (\A i \in 1 .. n : done[i] = slots[i]) /\ Len(slots) \in Nat
  BY <1>2, <1>3, CompleteIs
<1>5. \A i \in 1 .. n : /\ cut[i] < cut[i + 1] /\ SlotIs(done[i], l, s, w, cut[i], cut[i + 1])
                        /\ \A k \in (cut[i] + 1) .. cut[i + 1] : k \in Late(l, since)
  <2>1. ASSUME NEW i \in 1 .. n
        PROVE  /\ cut[i] < cut[i + 1] /\ SlotIs(slots[i], l, s, w, cut[i], cut[i + 1])
               /\ \A k \in (cut[i] + 1) .. cut[i + 1] : k \in Late(l, since)
    <3>1. i \in 1 .. Len(slots)
      BY <1>4
    <3>2. cut[i] < cut[i + 1] /\ SlotIs(slots[i], l, s, w, cut[i], cut[i + 1])
      BY <1>1, <1>2, <3>1, SlotPolls
    <3>3. \A k \in (cut[i] + 1) .. cut[i + 1] : k \in Late(l, since)
      BY <1>1, <1>2, <3>1, SlotPolls
    <3> QED BY <3>2, <3>3
  <2> QED BY <1>4, <2>1
<1>6. \A i \in 1 .. n + 1 : cut[i] \in 1 .. Len(l)
  BY <1>4
<1>7. IsFiniteSet(1 .. n)
  BY <1>4, FS_Interval
<1> DEFINE counts == [i \in 1 .. n |-> Len(done[i][w.samples])]
           ones == [i \in 1 .. n |-> 1]
<1>8. Samples(done, w.samples) = SumFunctionOnSet(counts, 1 .. n)
  BY <1>4, Zenon DEF Samples, SumFunction
<1>9. \A i \in 1 .. n : counts[i] \in Nat /\ 1 <= counts[i]
  <2>1. ASSUME NEW i \in 1 .. n
        PROVE  Len(done[i][w.samples]) \in Nat /\ 1 <= Len(done[i][w.samples])
    <3>1. PICK q : q = done[i][w.samples]
      OBVIOUS
    <3>2. q \in Seq(Int) /\ q # <<>>
      BY <1>5, <3>1 DEF SlotIs
    <3> QED BY <3>1, <3>2
  <2> QED BY <2>1
<1>10. SumFunctionOnSet(ones, 1 .. n) = n
  <2>1. SumFunctionOnSet(ones, 1 .. n) = Cardinality(1 .. n)
    BY <1>7, SumOfOnes
  <2> QED BY <1>4, <2>1, FS_Interval
<1>11. Samples(done, w.samples) \in Nat /\ Samples(done, w.samples) >= 4
  <2>1. \A i \in 1 .. n : ones[i] \in Int /\ counts[i] \in Int /\ ones[i] <= counts[i]
    BY <1>9
  <2> HIDE DEF ones, counts
  <2>2. SumFunctionOnSet(ones, 1 .. n) <= SumFunctionOnSet(counts, 1 .. n)
    BY <1>7, <2>1, SumGrows
  <2>3. SumFunctionOnSet(counts, 1 .. n) \in Int
    BY <1>7, <2>1, SumType
  <2> QED BY <1>4, <1>8, <1>10, <2>2, <2>3
<1> DEFINE below == [i \in 1 .. n |->
                       Cardinality({j \in DOMAIN done[i][w.samples] : done[i][w.samples][j] < w.base + 4})]
           B == Bulk(l, s, w) \cap Short(l, s)
           each == [k \in Nat |-> 1]
           range == B \cap ((cut[1] + 1) .. cut[n + 1])
           kept == {k \in Late(l, since) : Grew(l, k, s, w.counter) > 0} \cap Short(l, s)
<1>12. SamplesBelow(done, w.samples, w.base + 4) = SumFunctionOnSet(below, 1 .. n)
  BY <1>4, Zenon DEF SamplesBelow, SumFunction
<1>13. PICK edge : edge = [i \in 1 .. n + 1 |-> cut[i]]
  OBVIOUS
<1>14. edge \in [1 .. n + 1 -> Nat] /\ \A i \in 1 .. n + 1 : edge[i] = cut[i]
  BY <1>6, <1>13
<1>15. B \subseteq Nat /\ IsFiniteSet(B)
  <2>1. Len(l) \in Nat
    BY DEF LogIs
  <2>2. B \subseteq 2 .. Len(l)
    BY DEF Bulk
  <2>3. IsFiniteSet(2 .. Len(l))
    <3>1. 2 \in Int /\ Len(l) \in Int
      BY <2>1
    <3> QED BY <3>1, FS_Interval
  <2> HIDE DEF B
  <2>4. IsFiniteSet(B)
    BY <2>2, <2>3, FS_Subset
  <2> QED BY <2>1, <2>2, <2>4
<1>16. \A i \in 1 .. n : below[i] = SumFunctionOnSet(each, B \cap ((edge[i] + 1) .. edge[i + 1]))
  <2>1. ASSUME NEW i \in 1 .. n
        PROVE  Cardinality({j \in DOMAIN done[i][w.samples] : done[i][w.samples][j] < w.base + 4})
                 = SumFunctionOnSet(each, B \cap ((edge[i] + 1) .. edge[i + 1]))
    <3>1. i \in 1 .. n + 1 /\ i + 1 \in 1 .. n + 1
      BY <1>4
    <3>2. edge[i] = cut[i] /\ edge[i + 1] = cut[i + 1]
      BY <1>14, <3>1
    <3>3. Cardinality({j \in DOMAIN done[i][w.samples] : done[i][w.samples][j] < w.base + 4})
            = Cardinality(B \cap ((edge[i] + 1) .. edge[i + 1]))
      BY <1>5, <3>2 DEF SlotIs, Below
    <3>4. PICK T : T = B \cap ((edge[i] + 1) .. edge[i + 1])
      OBVIOUS
    <3>5. IsFiniteSet(T) /\ \A x \in T : each[x] = 1
      BY <1>15, <3>4, FS_Subset
    <3>6. SumFunctionOnSet(each, T) = Cardinality(T)
      BY <3>5, SumOfOnes
    <3> QED BY <3>3, <3>4, <3>6
  <2> QED BY <2>1
<1>17. \A i \in 1 .. n : edge[i] <= edge[i + 1]
  <2>1. \A i \in 1 .. n : i \in 1 .. n + 1 /\ i + 1 \in 1 .. n + 1
    BY <1>4
  <2> QED BY <1>5, <1>6, <1>14, <2>1
<1>18. \A k \in B : each[k] \in Int
  BY <1>15
<1>19. SumFunctionOnSet(each, range) = Cardinality(range) /\ IsFiniteSet(range)
  <2>1. IsFiniteSet(range) /\ \A x \in range : each[x] = 1
    BY <1>15, FS_Subset
  <2> HIDE DEF range, each
  <2> QED BY <2>1, SumOfOnes
<1>20. SumFunctionOnSet(below, 1 .. n) = SumFunctionOnSet(each, B \cap ((edge[1] + 1) .. edge[n + 1]))
  <2>1. n \in Nat
    BY <1>4
  <2>2. \A i \in 1 .. n : edge[i] <= edge[i + 1]
                          /\ below[i] = SumFunctionOnSet(each, B \cap ((edge[i] + 1) .. edge[i + 1]))
    BY <1>16, <1>17
  <2> HIDE DEF below, each, B
  <2>3. Parts(n, edge, below, each, B)
    BY <1>14, <1>18, <2>1, <2>2 DEF Parts
  <2>4. SumFunctionOnSet(below, 1 .. n) = SumFunctionOnSet(each, Between(B, edge[1], edge[n + 1]))
    BY <2>3, SumInParts
  <2> QED BY <2>4 DEF Between
<1>21. SumFunctionOnSet(below, 1 .. n) = Cardinality(range)
  <2>1. edge[1] = cut[1] /\ edge[n + 1] = cut[n + 1]
    BY <1>4, <1>14
  <2> QED BY <1>19, <1>20, <2>1
<1>22. range \subseteq kept
  <2>1. ASSUME NEW k \in range
        PROVE  k \in kept
    <3>1. k \in Bulk(l, s, w) /\ k \in Short(l, s) /\ k \in 2 .. Len(l) /\ cut[1] < k
      BY <1>4, <1>6 DEF Bulk
    <3>2. k \in Late(l, since)
      <4>1. 1 \in 1 .. Len(slots) /\ 1 \in 1 .. n /\ 1 \in 1 .. n + 1 /\ slots # <<>>
        BY <1>2, <1>4
      <4>2. slots[1].start = l[cut[1]].at
        BY <1>4, <1>5, <4>1 DEF SlotIs
      <4>3. cut[1] \in 1 .. Len(l) /\ k - 1 \in 1 .. Len(l) /\ cut[1] <= k - 1
        BY <1>6, <3>1, <4>1
      <4>4. l[cut[1]].at = l[k - 1].at \/ l[cut[1]].at < l[k - 1].at
        BY <4>3 DEF LogIs
      <4>5. l[cut[1]].at \in Int /\ l[k - 1].at \in Int
        BY <4>3, SnapIs
      <4> QED BY <3>1, <4>1, <4>2, <4>4, <4>5 DEF Late
    <3>3. Grew(l, k, s, w.counter) > 0
      <4>1. Grew(l, k, s, w.counter) \in Nat
        BY <3>1, WaysAre, GrewIsNat
      <4>2. w.unit * Grew(l, k, s, w.counter) >= 10000
        BY <3>1 DEF Bulk, SlotMinBytes
      <4>3. w.unit * 0 = 0
        BY WaysAre
      <4> QED BY <4>1, <4>2, <4>3
    <3> QED BY <3>1, <3>2, <3>3
  <2> HIDE DEF range, kept
  <2> QED BY <2>1
<1>23. IsFiniteSet(kept) /\ Cardinality(kept) \in Nat
  <2>1. kept \subseteq Late(l, since)
    OBVIOUS
  <2> HIDE DEF kept
  <2> QED BY <2>1, LateIsFinite
<1>24. Cardinality(range) <= Cardinality(kept) /\ Cardinality(range) \in Nat
  <2> HIDE DEF range, kept
  <2> QED BY <1>22, <1>23, FS_Subset, FS_CardinalityType
<1>25. Cardinality(range) >= 3 => Cardinality(kept) >= 3
  BY <1>23, <1>24
<1>26. SamplesBelow(done, w.samples, w.base + 4) = Cardinality(range)
  BY <1>12, <1>21
<1> HIDE DEF range
<1> QED BY <1>11, <1>24, <1>25, <1>26

-----------------------------------------------------------------------------
(* The host counters.                                                      *)

(* A comparison is TRUE or FALSE.                                          *)
LEMMA Truth ==
  ASSUME NEW t, NEW a, NEW b, t = (a > b)
  PROVE  (a > b => t = TRUE) /\ (~(a > b) => t = FALSE)
<1>1. ASSUME a > b
      PROVE  t = TRUE
  BY Zenon, <1>1
<1>2. ASSUME ~(a > b)
      PROVE  t = FALSE
  <2>1. (a > b) = FALSE
    BY SMT, <1>2
  <2> QED BY Zenon, <2>1
<1> QED BY <1>1, <1>2

(* Only two fields change. *)
HostOf(r, c, cur, prev) ==
  /\ DOMAIN r = Fields
  /\ \A f \in Fields \ {"HostBufferDrops", "HostBacklogDrops"} : r[f] = c[f]
  /\ r.HostBufferDrops = IF cur.want > prev.want THEN TRUE ELSE FALSE
  /\ r.HostBacklogDrops = IF cur.backlog > prev.backlog THEN TRUE ELSE FALSE

(* WithHostDrops sets them in each connection.                             *)
LEMMA HostDropsAre ==
  ASSUME NEW cs, \A c \in cs : DOMAIN c = Fields, NEW cur, NEW prev, NEW ds, ds = WithHostDrops(cs, cur, prev)
  PROVE  /\ \A r \in ds : \E c \in cs : HostOf(r, c, cur, prev)
         /\ \A c \in cs : \E r \in ds : r.LocalPort = c.LocalPort
<1>1. ASSUME NEW r \in ds
      PROVE  \E c \in cs : HostOf(r, c, cur, prev)
  <2>1. PICK c, t, u : /\ c \in cs /\ r = [c EXCEPT !.HostBufferDrops = t, !.HostBacklogDrops = u]
                       /\ t = (cur.want > prev.want) /\ u = (cur.backlog > prev.backlog)
    BY DEF WithHostDrops
  <2>2. (cur.want > prev.want => t = TRUE) /\ (~(cur.want > prev.want) => t = FALSE)
    BY Zenon, <2>1, Truth
  <2>3. (cur.backlog > prev.backlog => u = TRUE) /\ (~(cur.backlog > prev.backlog) => u = FALSE)
    BY Zenon, <2>1, Truth
  <2>4. r = [c EXCEPT !.HostBufferDrops = t, !.HostBacklogDrops = u]
    BY <2>1
  <2>5. {"HostBufferDrops", "HostBacklogDrops"} \subseteq Fields
    BY DEF Fields, PointerFields
  <2>6. /\ DOMAIN r = Fields /\ \A f \in Fields \ {"HostBufferDrops", "HostBacklogDrops"} : r[f] = c[f]
        /\ r.HostBufferDrops = t /\ r.HostBacklogDrops = u
    BY <2>1, <2>4, <2>5
  <2> QED BY <2>1, <2>2, <2>3, <2>6 DEF HostOf
<1>2. ASSUME NEW c \in cs
      PROVE  \E r \in ds : r.LocalPort = c.LocalPort
  <2>1. PICK t, u : t = (cur.want > prev.want) /\ u = (cur.backlog > prev.backlog)
    OBVIOUS
  <2>2. PICK r : r = [c EXCEPT !.HostBufferDrops = t, !.HostBacklogDrops = u]
    OBVIOUS
  <2>3. r \in ds
    BY Zenon, <2>1, <2>2 DEF WithHostDrops
  <2>4. r["LocalPort"] = c["LocalPort"]
    BY <2>2 DEF Fields
  <2> QED BY <2>3, <2>4
<1> QED BY <1>1, <1>2

(* Host counters are sums over the TCP sockets.                            *)
LEMMA HostCountersAre ==
  ASSUME NEW k \in [Sockets -> Amounts]
  PROVE  /\ HostCounters(k).want
              = SumFunctionOnSet([s \in Sockets \ UdpSockets |-> k[s]["want"]], Sockets \ UdpSockets)
         /\ HostCounters(k).backlog
              = SumFunctionOnSet([s \in Sockets \ UdpSockets |-> k[s]["backlog"]], Sockets \ UdpSockets)
         /\ HostCounters(k) \in [want : Int, backlog : Int] /\ HostCounters(k) # None
<1>1. IsFiniteSet(Sockets \ UdpSockets)
  BY SignalsAssumption, FS_Subset
<1>2. PICK w, b : /\ w = [s \in Sockets \ UdpSockets |-> k[s]["want"]]
                  /\ b = [s \in Sockets \ UdpSockets |-> k[s]["backlog"]]
  OBVIOUS
<1>3. \A s \in Sockets \ UdpSockets : w[s] \in Int /\ b[s] \in Int
  BY <1>2 DEF Amounts, NoCounts
<1>4. DOMAIN w = Sockets \ UdpSockets /\ DOMAIN b = Sockets \ UdpSockets
  BY <1>2
<1>5. HostCounters(k) = [want |-> SumFunction(w), backlog |-> SumFunction(b)]
  BY Zenon, <1>2 DEF HostCounters
<1>6. /\ SumFunction(w) = SumFunctionOnSet(w, Sockets \ UdpSockets)
      /\ SumFunction(b) = SumFunctionOnSet(b, Sockets \ UdpSockets)
  BY <1>4 DEF SumFunction
<1>7. SumFunctionOnSet(w, Sockets \ UdpSockets) \in Int /\ SumFunctionOnSet(b, Sockets \ UdpSockets) \in Int
  BY <1>1, <1>3, SumType
<1>8. PICK x, y : x = SumFunction(w) /\ y = SumFunction(b)
  OBVIOUS
<1>9. HostCounters(k) = [want |-> x, backlog |-> y] /\ x \in Int /\ y \in Int
  BY <1>5, <1>6, <1>7, <1>8
<1>10. HostCounters(k) \in [want : Int, backlog : Int]
  BY <1>9
<1>11. HostCounters(k) # None
  BY <1>10, SignalsAssumption
<1>12. HostCounters(k).want = x /\ HostCounters(k).backlog = y
  BY <1>9
<1> QED BY <1>2, <1>6, <1>8, <1>10, <1>11, <1>12

(* They grow with the counters of every one.                               *)
LEMMA HostGrows ==
  ASSUME NEW j \in [Sockets -> Amounts], NEW k \in [Sockets -> Amounts], \A s \in Sockets : Rises(j[s], k[s])
  PROVE  /\ HostCounters(j).want <= HostCounters(k).want /\ HostCounters(j).backlog <= HostCounters(k).backlog
         /\ \A s \in Sockets \ UdpSockets :
              /\ j[s]["want"] < k[s]["want"] => HostCounters(j).want < HostCounters(k).want
              /\ j[s]["backlog"] < k[s]["backlog"] => HostCounters(j).backlog < HostCounters(k).backlog
<1>1. PICK S : S = Sockets \ UdpSockets
  OBVIOUS
<1>2. IsFiniteSet(S)
  BY <1>1, SignalsAssumption, FS_Subset
<1>3. PICK w, x : w = [s \in S |-> j[s]["want"]] /\ x = [s \in S |-> k[s]["want"]]
  OBVIOUS
<1>4. PICK b, c : b = [s \in S |-> j[s]["backlog"]] /\ c = [s \in S |-> k[s]["backlog"]]
  OBVIOUS
<1>5. \A s \in S : /\ j[s]["want"] \in Int /\ k[s]["want"] \in Int /\ j[s]["want"] <= k[s]["want"]
                   /\ j[s]["backlog"] \in Int /\ k[s]["backlog"] \in Int /\ j[s]["backlog"] <= k[s]["backlog"]
  BY <1>1 DEF Rises, Amounts, NoCounts
<1>6. /\ \A s \in S : w[s] \in Int /\ x[s] \in Int /\ w[s] <= x[s]
      /\ \A s \in S : b[s] \in Int /\ c[s] \in Int /\ b[s] <= c[s]
  BY <1>3, <1>4, <1>5
<1>7. SumFunctionOnSet(w, S) <= SumFunctionOnSet(x, S)
  BY <1>2, <1>6, SumGrows
<1>8. (\E s \in S : w[s] < x[s]) => SumFunctionOnSet(w, S) < SumFunctionOnSet(x, S)
  BY <1>2, <1>6, SumGrows
<1>9. SumFunctionOnSet(b, S) <= SumFunctionOnSet(c, S)
  BY <1>2, <1>6, SumGrows
<1>10. (\E s \in S : b[s] < c[s]) => SumFunctionOnSet(b, S) < SumFunctionOnSet(c, S)
  BY <1>2, <1>6, SumGrows
<1>11. HostCounters(j).want = SumFunctionOnSet(w, S) /\ HostCounters(j).backlog = SumFunctionOnSet(b, S)
  BY <1>1, <1>3, <1>4, HostCountersAre
<1>12. HostCounters(k).want = SumFunctionOnSet(x, S) /\ HostCounters(k).backlog = SumFunctionOnSet(c, S)
  BY <1>1, <1>3, <1>4, HostCountersAre
<1>13. ASSUME NEW s \in S
       PROVE  /\ j[s]["want"] < k[s]["want"] => HostCounters(j).want < HostCounters(k).want
              /\ j[s]["backlog"] < k[s]["backlog"] => HostCounters(j).backlog < HostCounters(k).backlog
  <2>1. w[s] = j[s]["want"] /\ x[s] = k[s]["want"] /\ b[s] = j[s]["backlog"] /\ c[s] = k[s]["backlog"]
    BY <1>3, <1>4
  <2> QED BY <1>8, <1>10, <1>11, <1>12, <2>1
<1> QED BY <1>1, <1>7, <1>9, <1>11, <1>12, <1>13

(* Every socket of a poll is in the snapshot. *)
LEMMA PortsStay ==
  ASSUME NEW cs, \A r \in cs : DOMAIN r = Fields, NEW from, NEW to
  PROVE  \A r \in cs : \E c \in AddSnapshotAt(cs, from, to) : c.LocalPort = r.LocalPort
<1> DEFINE last(c) == {p \in conns : p.LocalPort = c.LocalPort}
           delta(c) == IF last(c) = {} THEN c ELSE ComputeDeltas(c, CHOOSE p \in last(c) : TRUE, from, to)
           deltas == {delta(c) : c \in cs}
           paths == WithPathMinRTT(deltas)
           queues == WithPathQueues(paths)
<1>1. AddSnapshotAt(cs, from, to) = Classified(queues)
  BY Zenon DEF AddSnapshotAt
<1> SUFFICES ASSUME NEW r \in cs
             PROVE  \E c \in AddSnapshotAt(cs, from, to) : c.LocalPort = r.LocalPort
  OBVIOUS
<1>2. "LocalPort" \in Fields /\ "LocalPort" \in Kept
  BY DEF Fields, Kept
<1>3. PICK x : x = delta(r)
  OBVIOUS
<1>4. DOMAIN x = Fields /\ x["LocalPort"] = r["LocalPort"]
  <2>1. CASE last(r) = {}
    BY <1>3, <2>1
  <2>2. CASE last(r) # {}
    <3>1. PICK p : p = CHOOSE q \in last(r) : TRUE
      OBVIOUS
    <3>2. x = ComputeDeltas(r, p, from, to)
      BY <1>3, <2>2, <3>1
    <3>3. DOMAIN x = Fields /\ (\A f \in Kept : x[f] = r[f])
      BY <3>2, DeltasAre
    <3> QED BY <1>2, <3>3
  <2> QED BY <2>1, <2>2
<1>5. x \in deltas
  BY <1>3
<1> HIDE DEF deltas
<1>6. PICK y \in paths : DOMAIN y = Fields /\ y["LocalPort"] = r["LocalPort"]
  <2>1. PICK t : t = LET known == {d.MinRTT : d \in {d \in SamePeer(deltas, x) : Above(d.MinRTT, 0)}}
                     IN  IF known = {} THEN None ELSE Min(known)
    OBVIOUS
  <2>2. PICK y : y = [x EXCEPT !.PathMinRTT = t]
    OBVIOUS
  <2>3. y \in paths
    BY Zenon, <1>5, <2>1, <2>2 DEF WithPathMinRTT
  <2>4. DOMAIN y = Fields /\ y["LocalPort"] = r["LocalPort"]
    BY <1>2, <1>4, <2>2
  <2> QED BY <2>3, <2>4
<1> HIDE DEF paths
<1>7. PICK z \in queues : DOMAIN z = Fields /\ z["LocalPort"] = r["LocalPort"]
  <2>1. PICK t, u :
          /\ t = WeightedQuantile(SamplesOf(SamePeer(paths, y), "SendSlots", "queue", "sent", 0), 1, 2)
          /\ u = IF y.PathMinRTT = None THEN None
                 ELSE WeightedQuantile(SamplesOf(SamePeer(paths, y), "RecvSlots", "rtts", "segs", y.PathMinRTT), 3, 4)
    OBVIOUS
  <2>2. PICK z : z = [y EXCEPT !.PathSendQueueMS = t, !.PathRecvQueueMS = u]
    OBVIOUS
  <2>3. z \in queues
    BY Zenon, <2>1, <2>2 DEF WithPathQueues
  <2>4. DOMAIN z = Fields /\ z["LocalPort"] = r["LocalPort"]
    BY <1>2, <1>6, <2>2
  <2> QED BY <2>3, <2>4
<1> HIDE DEF queues
<1>8. PICK t : t = Classify(z) \cup AggregateSignals(z, queues)
  OBVIOUS
<1>9. PICK c : c = [z EXCEPT !.Signals = t]
  OBVIOUS
<1>10. c \in Classified(queues)
  BY Zenon, <1>8, <1>9 DEF Classified
<1>11. c["LocalPort"] = r["LocalPort"]
  BY <1>2, <1>7, <1>9
<1> QED BY <1>1, <1>10, <1>11

(* The connections X share the path of c, and are those of the snapshot    *)
(* but for what the path and the classifier add.                           *)
Peers(X, c, cs) ==
  /\ IsFiniteSet(X)
  /\ \A x \in X : \E d \in cs : d.PeerAddr = c.PeerAddr /\ d.SendSlots = x.SendSlots /\ d.RecvSlots = x.RecvSlots

(* The queues of c's path are those that the samples of X show.            *)
Queued(c, X) ==
  /\ c.PathSendQueueMS = WeightedQuantile(SamplesOf(X, "SendSlots", "queue", "sent", 0), 1, 2)
  /\ c.PathRecvQueueMS = IF c.PathMinRTT = None THEN None
                         ELSE WeightedQuantile(SamplesOf(X, "RecvSlots", "rtts", "segs", c.PathMinRTT), 3, 4)

QueuesAre(cs) == \A c \in cs : \E X : Peers(X, c, cs) /\ Queued(c, X)

(* The queues of every path come from the slots of its connections.        *)
LEMMA QueuesHold ==
  ASSUME NEW cs, IsFiniteSet(cs), \A r \in cs : DOMAIN r = Fields, NEW from, NEW to
  PROVE  QueuesAre(AddSnapshotAt(cs, from, to))
<1> DEFINE last(c) == {p \in conns : p.LocalPort = c.LocalPort}
           delta(c) == IF last(c) = {} THEN c ELSE ComputeDeltas(c, CHOOSE p \in last(c) : TRUE, from, to)
           deltas == {delta(c) : c \in cs}
           paths == WithPathMinRTT(deltas)
           queues == WithPathQueues(paths)
           added == Classified(queues)
<1>1. AddSnapshotAt(cs, from, to) = added
  BY Zenon DEF AddSnapshotAt
<1>2. IsFiniteSet(deltas)
  <2>1. PICK f : f = [c \in cs |-> delta(c)]
    OBVIOUS
  <2>2. \A y \in deltas : \E x \in cs : y = f[x]
    <3> HIDE DEF delta
    <3> QED BY <2>1
  <2> HIDE DEF deltas
  <2> QED BY <2>2, FiniteImage
<1>3. ASSUME NEW x \in deltas
      PROVE  DOMAIN x = Fields
  <2>1. PICK r \in cs : x = delta(r)
    OBVIOUS
  <2>2. CASE last(r) = {}
    BY <2>1, <2>2
  <2>3. CASE last(r) # {}
    <3>1. PICK p : p = CHOOSE q \in last(r) : TRUE
      OBVIOUS
    <3>2. x = ComputeDeltas(r, p, from, to)
      BY <2>1, <2>3, <3>1
    <3> QED BY <3>2, DeltasAre
  <2> QED BY <2>2, <2>3
<1> HIDE DEF deltas
<1>4. IsFiniteSet(paths) /\ \A y \in paths : DOMAIN y = Fields
  <2> DEFINE least(x) == LET known == {d.MinRTT : d \in {d \in SamePeer(deltas, x) : Above(d.MinRTT, 0)}}
                         IN  IF known = {} THEN None ELSE Min(known)
             path(x) == [x EXCEPT !.PathMinRTT = least(x)]
  <2>1. paths = {path(x) : x \in deltas}
    BY Zenon DEF WithPathMinRTT
  <2>2. PICK f : f = [x \in deltas |-> path(x)]
    OBVIOUS
  <2>3. \A y \in paths : \E x \in deltas : y = f[x]
    <3> HIDE DEF path, paths
    <3> QED BY <2>1, <2>2
  <2>4. IsFiniteSet(paths)
    <3> HIDE DEF paths
    <3> QED BY <1>2, <2>3, FiniteImage
  <2>5. ASSUME NEW y \in paths
        PROVE  DOMAIN y = Fields
    <3> HIDE DEF least, paths
    <3>1. PICK x \in deltas : y = path(x)
      BY <2>1
    <3> QED BY <1>3, <3>1
  <2> HIDE DEF paths
  <2> QED BY <2>4, <2>5
<1> HIDE DEF paths
<1>5. {"PeerAddr", "SendSlots", "RecvSlots", "PathMinRTT", "PathSendQueueMS", "PathRecvQueueMS", "Signals"}
        \subseteq Fields
  BY DEF Fields, PointerFields, Zeros
<1>6. ASSUME NEW y \in paths
      PROVE  \E d \in added : d.PeerAddr = y.PeerAddr /\ d.SendSlots = y.SendSlots /\ d.RecvSlots = y.RecvSlots
  <2>1. PICK t, u :
          /\ t = WeightedQuantile(SamplesOf(SamePeer(paths, y), "SendSlots", "queue", "sent", 0), 1, 2)
          /\ u = IF y.PathMinRTT = None THEN None
                 ELSE WeightedQuantile(SamplesOf(SamePeer(paths, y), "RecvSlots", "rtts", "segs", y.PathMinRTT), 3, 4)
    OBVIOUS
  <2>2. PICK z : z = [y EXCEPT !.PathSendQueueMS = t, !.PathRecvQueueMS = u]
    OBVIOUS
  <2>3. z \in queues
    BY Zenon, <2>1, <2>2 DEF WithPathQueues
  <2>4. PICK v : v = Classify(z) \cup AggregateSignals(z, queues)
    OBVIOUS
  <2>5. PICK d : d = [z EXCEPT !.Signals = v]
    OBVIOUS
  <2> HIDE DEF queues
  <2>6. d \in added
    BY Zenon, <2>3, <2>4, <2>5 DEF Classified
  <2>7. \A f \in {"PeerAddr", "SendSlots", "RecvSlots"} : d[f] = y[f]
    BY <1>4, <1>5, <2>2, <2>5
  <2> QED BY <2>6, <2>7
<1>7. ASSUME NEW c \in added
      PROVE  \E X : Peers(X, c, added) /\ Queued(c, X)
  <2>1. PICK z \in queues : c = [z EXCEPT !.Signals = Classify(z) \cup AggregateSignals(z, queues)]
    <3> HIDE DEF queues
    <3> QED BY Zenon DEF Classified
  <2>2. PICK v : v = Classify(z) \cup AggregateSignals(z, queues)
    OBVIOUS
  <2>3. c = [z EXCEPT !.Signals = v]
    BY <2>1, <2>2
  <2> DEFINE send(b) == WeightedQuantile(SamplesOf(SamePeer(paths, b), "SendSlots", "queue", "sent", 0), 1, 2)
             recv(b) == IF b.PathMinRTT = None THEN None
                        ELSE WeightedQuantile(
                               SamplesOf(SamePeer(paths, b), "RecvSlots", "rtts", "segs", b.PathMinRTT), 3, 4)
             queued(b) == [b EXCEPT !.PathSendQueueMS = send(b), !.PathRecvQueueMS = recv(b)]
  <2>4. queues = {queued(b) : b \in paths}
    BY Zenon DEF WithPathQueues
  <2>5. PICK y \in paths : z = queued(y)
    <3> HIDE DEF queued, queues
    <3> QED BY <2>4
  <2>6. PICK t, u : t = send(y) /\ u = recv(y)
    OBVIOUS
  <2>7. z = [y EXCEPT !.PathSendQueueMS = t, !.PathRecvQueueMS = u]
    BY Zenon, <2>5, <2>6
  <2>8. PICK X : X = SamePeer(paths, y)
    OBVIOUS
  <2>9. /\ t = WeightedQuantile(SamplesOf(X, "SendSlots", "queue", "sent", 0), 1, 2)
        /\ u = IF y.PathMinRTT = None THEN None
               ELSE WeightedQuantile(SamplesOf(X, "RecvSlots", "rtts", "segs", y.PathMinRTT), 3, 4)
    BY Zenon, <2>6, <2>8
  <2> HIDE DEF send, recv, queued, queues
  <2>10. DOMAIN y = Fields
    BY <1>4
  <2>11. c["PeerAddr"] = y["PeerAddr"] /\ c["PathMinRTT"] = y["PathMinRTT"] /\ c["PathSendQueueMS"] = t
         /\ c["PathRecvQueueMS"] = u
    BY <1>5, <2>3, <2>7, <2>10
  <2>12. Queued(c, X)
    BY Zenon, <2>9, <2>11 DEF Queued
  <2>13. IsFiniteSet(X) /\ \A x \in X : x \in paths /\ x.PeerAddr = y.PeerAddr
    <3>1. X \in SUBSET paths /\ \A x \in X : x \in paths /\ x.PeerAddr = y.PeerAddr
      BY <2>8 DEF SamePeer
    <3> QED BY <1>4, <3>1, FS_Subset
  <2>14. Peers(X, c, added)
    <3> HIDE DEF added
    <3> QED BY <1>6, <2>11, <2>13 DEF Peers
  <2> QED BY <2>12, <2>14
<1> HIDE DEF added
<1> QED BY <1>1, <1>7 DEF QueuesAre

(* The bulk polls since the first slot began, and what the socket moved or *)
(* lost over some polls.                                                   *)
Held(l, s, w, slots) == {k \in Bulk(l, s, w) : l[k - 1].at >= slots[1].start}
Total(l, s, f, S) == SumFunction([k \in S |-> Grew(l, k, s, f)])

(* The slots hold the bulk polls since the first began: what they moved,   *)
(* and what they lost.                                                     *)
LEMMA SlotsHold ==
  ASSUME NEW l, LogIs(l), NEW s \in Sockets, NEW w \in Ways, NEW slots, SlotsAre(slots, l, s, w), slots # <<>>,
         NEW x, NEW f, \/ x = w.amount /\ f = w.counter
                       \/ x = w.loss /\ f = w.loss,
         NEW held, held = Held(l, s, w, slots)
  PROVE  SumOf(slots, x) = Total(l, s, f, held)
<1>0. \A k : k \in held <=> k \in Bulk(l, s, w) /\ l[k - 1].at >= slots[1].start
  BY DEF Held
<1>1. PICK cut \in [1 .. Len(slots) + 1 -> 1 .. Len(l)] : Cuts(cut, slots, l, s, w)
  BY DEF SlotsAre
<1>2. PICK S : slots \in Seq(S)
  BY DEF SlotsAre
<1>3. PICK n : n = Len(slots)
  OBVIOUS
<1>4. n \in Nat \ {0} /\ DOMAIN slots = 1 .. n /\ Len(l) \in Nat
  BY <1>2, <1>3 DEF LogIs
<1> DEFINE amounts == [i \in 1 .. n |-> slots[i][x]]
           B == Bulk(l, s, w)
           moves == Moves(l, s, f)
           grown == [k \in held |-> Grew(l, k, s, f)]
<1>5. SumOf(slots, x) = SumFunctionOnSet(amounts, 1 .. n)
  BY <1>4, Zenon DEF SumOf, SumFunction
<1>6. \A i \in 1 .. n : cut[i] < cut[i + 1] /\ SlotIs(slots[i], l, s, w, cut[i], cut[i + 1])
  BY <1>1, <1>3 DEF Cuts
<1>7. \A i \in 1 .. n + 1 : cut[i] \in 1 .. Len(l)
  BY <1>3
<1>8. \A i \in 1 .. n : i \in 1 .. n + 1 /\ i + 1 \in 1 .. n + 1
  BY <1>4
<1>9. PICK edge : edge = [i \in 1 .. n + 1 |-> cut[i]]
  OBVIOUS
<1>10. edge \in [1 .. n + 1 -> Nat] /\ \A i \in 1 .. n + 1 : edge[i] = cut[i]
  BY <1>7, <1>9
<1>11. \A i \in 1 .. n : edge[i] <= edge[i + 1]
  BY <1>6, <1>7, <1>8, <1>10
<1>12. \A k \in B : k \in 2 .. Len(l) /\ moves[k] = Grew(l, k, s, f) /\ moves[k] \in Int
  <2>1. ASSUME NEW k \in B
        PROVE  k \in 2 .. Len(l) /\ moves[k] = Grew(l, k, s, f) /\ moves[k] \in Int
    <3>1. k \in 2 .. Len(l) /\ k \in Nat
      BY <1>4 DEF Bulk
    <3>2. moves[k] = Grew(l, k, s, f)
      BY <3>1 DEF Moves
    <3>3. Grew(l, k, s, f) \in Nat
      BY <3>1, GrewIsNat, WaysAre
    <3> QED BY <3>1, <3>2, <3>3
  <2> QED BY <2>1
<1>13. \A i \in 1 .. n : amounts[i] = SumFunctionOnSet(moves, B \cap ((edge[i] + 1) .. edge[i + 1]))
  <2>1. ASSUME NEW i \in 1 .. n
        PROVE  slots[i][x] = SumFunctionOnSet(moves, B \cap ((edge[i] + 1) .. edge[i + 1]))
    BY <1>6, <1>8, <1>10 DEF SlotIs
  <2> QED BY <2>1
<1>14. Parts(n, edge, amounts, moves, B)
  <2> HIDE DEF amounts, moves, B
  <2>1. n \in Nat
    BY <1>4
  <2>2. \A k \in B : moves[k] \in Int
    BY <1>12
  <2> QED BY <1>10, <1>11, <1>13, <2>1, <2>2 DEF Parts
<1>15. SumFunctionOnSet(amounts, 1 .. n) = SumFunctionOnSet(moves, Between(B, edge[1], edge[n + 1]))
  BY <1>14, SumInParts
<1>16. edge[1] = cut[1] /\ edge[n + 1] = Len(l)
  BY <1>1, <1>3, <1>4, <1>10 DEF Cuts
<1>18. Between(B, edge[1], edge[n + 1]) = held
  <2>1. slots[1].start = l[cut[1]].at /\ cut[1] \in 1 .. Len(l)
    <3>1. 1 \in 1 .. n
      BY <1>4
    <3> QED BY <1>6, <1>7, <1>8, <3>1 DEF SlotIs
  <2>2. \A a \in 1 .. Len(l) : l[a].at \in Nat
    BY SnapIs
  <2>3. ASSUME NEW k \in 2 .. Len(l)
        PROVE  l[k - 1].at >= slots[1].start <=> k \in (cut[1] + 1) .. Len(l)
    <3>1. k - 1 \in 1 .. Len(l) /\ k - 1 \in Nat /\ cut[1] \in Nat
      BY <2>1, <1>4
    <3>2. k - 1 < cut[1] => l[k - 1].at < l[cut[1]].at
      BY <2>1, <3>1 DEF LogIs
    <3>3. cut[1] < k - 1 => l[cut[1]].at < l[k - 1].at
      BY <2>1, <3>1 DEF LogIs
    <3>4. l[k - 1].at \in Nat /\ l[cut[1]].at \in Nat
      BY <2>1, <2>2, <3>1
    <3>5. l[k - 1].at >= l[cut[1]].at <=> cut[1] <= k - 1
      <4>1. CASE k - 1 < cut[1]
        BY <3>1, <3>2, <3>4, <4>1
      <4>2. CASE cut[1] < k - 1
        BY <3>1, <3>3, <3>4, <4>2
      <4>3. CASE k - 1 = cut[1]
        BY <3>1, <3>4, <4>3
      <4> QED BY <3>1, <4>1, <4>2, <4>3
    <3> QED BY <1>4, <2>1, <3>1, <3>5
  <2>4. \A k : k \in held <=> k \in B /\ k \in (cut[1] + 1) .. Len(l)
    BY <1>0, <1>12, <2>3
  <2> HIDE DEF B
  <2> QED BY <1>16, <2>4 DEF Between
<1>19. IsFiniteSet(held) /\ \A k \in held : moves[k] \in Int /\ moves[k] = grown[k]
  <2>1. held \subseteq 2 .. Len(l) /\ 2 \in Int /\ Len(l) \in Int
    <3> HIDE DEF B, moves
    <3>1. \A k \in held : k \in 2 .. Len(l)
      BY <1>0, <1>12 DEF B
    <3> QED BY <1>4, <3>1
  <2>2. IsFiniteSet(2 .. Len(l))
    BY <2>1, FS_Interval
  <2>3. held \subseteq B
    BY <1>0
  <2>4. IsFiniteSet(held)
    BY <2>1, <2>2, FS_Subset
  <2> HIDE DEF moves, B
  <2> QED BY <1>12, <2>3, <2>4
<1>20. SumFunctionOnSet(moves, held) = SumFunctionOnSet(grown, held)
  <2> HIDE DEF moves, grown
  <2> QED BY <1>19, SumSame
<1>21. SumFunction(grown) = SumFunctionOnSet(grown, held)
  BY DEF SumFunction
<1> HIDE DEF amounts, moves, grown
<1>22. SumOf(slots, x) = SumFunction(grown)
  BY <1>5, <1>15, <1>18, <1>20, <1>21
<1> QED BY <1>22 DEF grown, Total

(* A slot that began at some time: the first began no later.               *)
LEMMA BegunFirst ==
  ASSUME NEW l, LogIs(l), NEW s \in Sockets, NEW w \in Ways, NEW slots, SlotsAre(slots, l, s, w),
         NEW at, Begun(slots, at)
  PROVE  slots # <<>> /\ slots[1].start <= at
<1>1. PICK cut \in [1 .. Len(slots) + 1 -> 1 .. Len(l)] : Cuts(cut, slots, l, s, w)
  BY DEF SlotsAre
<1>2. PICK S : slots \in Seq(S)
  BY DEF SlotsAre
<1>3. PICK n : n = Len(slots)
  OBVIOUS
<1>4. PICK i \in 1 .. n : slots[i].start = at
  BY <1>3 DEF Begun
<1>5. n \in Nat /\ 1 \in 1 .. n /\ slots # <<>> /\ Len(l) \in Nat /\ i \in 1 .. n + 1 /\ 1 \in 1 .. n + 1
  BY <1>2, <1>3 DEF LogIs
<1>6. \A j \in 1 .. n : cut[j] < cut[j + 1] /\ SlotIs(slots[j], l, s, w, cut[j], cut[j + 1])
  BY <1>1, <1>3 DEF Cuts
<1>7. cut \in [1 .. n + 1 -> Nat] /\ \A j \in 1 .. n + 1 : cut[j] \in 1 .. Len(l)
  BY <1>3, <1>5
<1>8. \A j \in 1 .. n : cut[j] <= cut[j + 1]
  <2>1. \A j \in 1 .. n : j \in 1 .. n + 1 /\ j + 1 \in 1 .. n + 1
    BY <1>5
  <2> QED BY <1>6, <1>7, <2>1
<1>9. \A a \in 1 .. n + 1 : \A b \in a .. n + 1 : cut[a] <= cut[b]
  BY <1>5, <1>7, <1>8, CutsRise
<1>10. cut[1] <= cut[i] /\ cut[1] \in 1 .. Len(l) /\ cut[i] \in 1 .. Len(l)
  BY <1>5, <1>7, <1>9
<1>11. slots[1].start = l[cut[1]].at /\ at = l[cut[i]].at
  BY <1>4, <1>5, <1>6 DEF SlotIs
<1>12. l[cut[1]].at = l[cut[i]].at \/ l[cut[1]].at < l[cut[i]].at
  BY <1>10 DEF LogIs
<1>13. l[cut[1]].at \in Nat /\ l[cut[i]].at \in Nat
  <2>1. \A a \in 1 .. Len(l) : l[a].at \in Nat
    BY SnapIs
  <2> QED BY <1>10, <2>1
<1> QED BY <1>5, <1>11, <1>12, <1>13

(* Each slot holds the one poll it is paired with.                         *)
OnePoll(p, slots, l, s, w) ==
  \A i \in 1 .. Len(slots) :
    /\ slots[i][w.loss] = Grew(l, p[i], s, w.loss) /\ Len(slots[i][w.samples]) = 1
    /\ p[i] \in Short(l, s) => Cardinality(Below(slots[i][w.samples], w.base + 4)) = 1

(* When a slot begins at every bulk poll of a window that starts with the  *)
(* first of them, each slot holds one of these polls, and they are paired. *)
LEMMA OnePollEach ==
  ASSUME NEW l, LogIs(l), NEW s \in Sockets, NEW w \in Ways, NEW slots, SlotsAre(slots, l, s, w),
         NEW since \in Int, slots # <<>> => slots[1].start >= since,
         NEW B, B = Bulk(l, s, w) \cap Late(l, since), \A k \in B : Begun(slots, l[k - 1].at)
  PROVE  \E p : PairsOff(p, 1 .. Len(slots), B) /\ OnePoll(p, slots, l, s, w)
<1>1. PICK cut \in [1 .. Len(slots) + 1 -> 1 .. Len(l)] : Cuts(cut, slots, l, s, w)
  BY DEF SlotsAre
<1>2. PICK S : slots \in Seq(S)
  BY DEF SlotsAre
<1>3. PICK n : n = Len(slots)
  OBVIOUS
<1>4. n \in Nat /\ Len(l) \in Nat /\ \A i \in 1 .. n : i \in 1 .. n + 1 /\ i + 1 \in 1 .. n + 1
  BY <1>2, <1>3 DEF LogIs
<1>5. \A i \in 1 .. n + 1 : cut[i] \in 1 .. Len(l) /\ cut[i] \in Nat
  BY <1>3, <1>4
<1>6. \A i \in 1 .. n : /\ cut[i] < cut[i + 1] /\ SlotIs(slots[i], l, s, w, cut[i], cut[i + 1])
                        /\ \A j \in 1 .. n : i < j => cut[i + 1] <= cut[j]
                        /\ \A k \in (cut[i] + 1) .. cut[i + 1] : k \in Late(l, since)
  <2>1. ASSUME NEW i \in 1 .. n
        PROVE  /\ cut[i] < cut[i + 1] /\ SlotIs(slots[i], l, s, w, cut[i], cut[i + 1])
               /\ \A j \in 1 .. n : i < j => cut[i + 1] <= cut[j]
               /\ \A k \in (cut[i] + 1) .. cut[i + 1] : k \in Late(l, since)
    <3>1. i \in 1 .. Len(slots)
      BY <1>3
    <3>2. cut[i] < cut[i + 1] /\ SlotIs(slots[i], l, s, w, cut[i], cut[i + 1])
      BY <1>1, <1>2, <3>1, SlotPolls
    <3>3. \A j \in 1 .. Len(slots) : i < j => cut[i + 1] <= cut[j]
      BY <1>1, <1>2, <3>1, SlotPolls
    <3>4. \A k \in (cut[i] + 1) .. cut[i + 1] : k \in Late(l, since)
      BY <1>1, <1>2, <3>1, SlotPolls
    <3> QED BY <1>3, <3>2, <3>3, <3>4
  <2> QED BY <2>1
<1>15. \A i \in 1 .. n : cut[i] \in Nat /\ cut[i + 1] \in Nat /\ cut[i] < cut[i + 1]
  BY <1>4, <1>5, <1>6
<1>7. \A i \in 1 .. n : cut[i] + 1 \in B
  <2>1. ASSUME NEW i \in 1 .. n
        PROVE  cut[i] + 1 \in B
    <3>1. cut[i] + 1 \in (cut[i] + 1) .. cut[i + 1]
      BY <1>4, <1>5, <1>6
    <3>2. cut[i] + 1 \in Late(l, since)
      BY <1>6, <3>1
    <3>3. cut[i] + 1 \in Bulk(l, s, w)
      BY <1>6 DEF SlotIs
    <3> QED BY <3>2, <3>3
  <2> QED BY <2>1
<1>8. \A k \in B : k \in Nat /\ \E i \in 1 .. n : cut[i] + 1 = k
  <2>1. ASSUME NEW k \in B
        PROVE  k \in Nat /\ \E i \in 1 .. n : cut[i] + 1 = k
    <3>1. k \in 2 .. Len(l) /\ k - 1 \in 1 .. Len(l)
      BY <1>4 DEF Bulk
    <3>2. PICK i \in 1 .. n : slots[i].start = l[k - 1].at
      BY <1>3 DEF Begun
    <3>3. l[cut[i]].at = l[k - 1].at /\ cut[i] \in 1 .. Len(l)
      BY <1>4, <1>5, <1>6, <3>2 DEF SlotIs
    <3>4. l[cut[i]].at \in Nat
      BY <3>3, SnapIs
    <3>5. ~(cut[i] < k - 1) /\ ~(k - 1 < cut[i])
      BY <3>1, <3>3, <3>4 DEF LogIs
    <3>6. cut[i] + 1 = k
      BY <1>4, <3>1, <3>3, <3>5
    <3> QED BY <3>1, <3>6
  <2> QED BY <2>1
<1>9. \A i \in 1 .. n : Bulk(l, s, w) \cap ((cut[i] + 1) .. cut[i + 1]) = {cut[i] + 1}
  <2>1. ASSUME NEW i \in 1 .. n, NEW k \in Bulk(l, s, w), k \in (cut[i] + 1) .. cut[i + 1]
        PROVE  k = cut[i] + 1
    <3>1. k \in B
      BY <1>6, <2>1
    <3>2. PICK j \in 1 .. n : cut[j] + 1 = k
      BY <1>8, <3>1
    <3>3. /\ cut[i] \in Nat /\ cut[i + 1] \in Nat /\ cut[j] \in Nat /\ cut[j + 1] \in Nat
          /\ cut[j] < cut[j + 1] /\ cut[i] + 1 <= k /\ k <= cut[i + 1]
      BY <1>15, <2>1
    <3>4. CASE i < j
      <4>1. cut[i + 1] <= cut[j]
        BY <1>6, <3>4
      <4> QED BY <3>2, <3>3, <4>1
    <3>5. CASE j < i
      <4>1. cut[j + 1] <= cut[i]
        BY <1>6, <3>5
      <4> QED BY <3>2, <3>3, <4>1
    <3>6. CASE i = j
      BY <3>2, <3>6
    <3> QED BY <1>4, <3>4, <3>5, <3>6
  <2>2. ASSUME NEW i \in 1 .. n
        PROVE  cut[i] + 1 \in Bulk(l, s, w) /\ cut[i] + 1 \in (cut[i] + 1) .. cut[i + 1]
    BY <1>7, <1>15
  <2> QED BY <2>1, <2>2
<1>10. PICK p : p = [i \in 1 .. n |-> cut[i] + 1]
  OBVIOUS
<1>11. p \in [1 .. n -> B] /\ \A i \in 1 .. n : p[i] = cut[i] + 1
  BY <1>7, <1>10
<1>12. ASSUME NEW i \in 1 .. n, NEW j \in 1 .. n, p[i] = p[j]
       PROVE  i = j
  <2>1. cut[i] = cut[j] /\ cut[i] \in Nat /\ cut[i + 1] \in Nat /\ cut[j + 1] \in Nat
        /\ cut[i] < cut[i + 1] /\ cut[j] < cut[j + 1]
    <3>1. cut[i] + 1 = cut[j] + 1
      BY <1>11, <1>12
    <3> QED BY <1>15, <3>1
  <2>2. (i < j => cut[i + 1] <= cut[j]) /\ (j < i => cut[j + 1] <= cut[i])
    BY <1>6
  <2> QED BY <1>4, <2>1, <2>2
<1>13. \A k \in B : \E i \in 1 .. n : p[i] = k
  BY <1>8, <1>11
<1>14. ASSUME NEW i \in 1 .. n
       PROVE  /\ slots[i][w.loss] = Grew(l, p[i], s, w.loss) /\ Len(slots[i][w.samples]) = 1
              /\ p[i] \in Short(l, s) => Cardinality(Below(slots[i][w.samples], w.base + 4)) = 1
  <2>1. PICK k : k = cut[i] + 1
    OBVIOUS
  <2>2. p[i] = k /\ k \in Nat /\ k \in 2 .. Len(l)
    BY <1>7, <1>8, <1>11, <2>1 DEF Bulk
  <2>3. Bulk(l, s, w) \cap ((cut[i] + 1) .. cut[i + 1]) = {k}
    BY <1>9, <2>1
  <2>4. SlotIs(slots[i], l, s, w, cut[i], cut[i + 1])
    BY <1>6
  <2>5. slots[i][w.loss] = SumFunctionOnSet(Moves(l, s, w.loss), {k}) /\ Len(slots[i][w.samples]) = Cardinality({k})
    BY <2>3, <2>4 DEF SlotIs
  <2>6. Cardinality({k}) = 1
    BY FS_Singleton
  <2>7. SumFunctionOnSet(Moves(l, s, w.loss), {k}) = Grew(l, k, s, w.loss)
    <3>1. Moves(l, s, w.loss)[k] = Grew(l, k, s, w.loss) /\ Grew(l, k, s, w.loss) \in Nat
      BY <2>2, WaysAre, GrewIsNat DEF Moves
    <3>2. PICK v : v = Moves(l, s, w.loss)
      OBVIOUS
    <3>3. v[k] \in Int
      BY <3>1, <3>2
    <3>4. SumFunctionOnSet(v, {k}) = v[k]
      BY <3>3, SumOne
    <3> QED BY <3>1, <3>2, <3>4
  <2>8. Bulk(l, s, w) \cap Short(l, s) \cap ((cut[i] + 1) .. cut[i + 1]) = {k} \cap Short(l, s)
    BY <2>3
  <2>9. Cardinality(Below(slots[i][w.samples], w.base + 4)) = Cardinality({k} \cap Short(l, s))
    BY <2>4, <2>8 DEF SlotIs
  <2>10. k \in Short(l, s) => {k} \cap Short(l, s) = {k}
    OBVIOUS
  <2> QED BY <2>2, <2>5, <2>6, <2>7, <2>9, <2>10
<1>16. PairsOff(p, 1 .. n, B)
  BY <1>11, <1>12, <1>13 DEF PairsOff
<1>17. OnePoll(p, slots, l, s, w)
  BY <1>3, <1>14 DEF OnePoll
<1> QED BY <1>3, <1>16, <1>17

(* What was moved, or lost, over some polls.                               *)
LEMMA TotalIs ==
  ASSUME NEW l, LogIs(l), NEW s \in Sockets, NEW f \in DOMAIN NoCounts, NEW T, T \subseteq 2 .. Len(l)
  PROVE  /\ Total(l, s, f, T) \in Nat
         /\ (\E k \in T : Grew(l, k, s, f) > 0) => Total(l, s, f, T) > 0
<1>1. PICK v : v = [k \in T |-> Grew(l, k, s, f)]
  OBVIOUS
<1>2. PICK z : z = [k \in T |-> 0]
  OBVIOUS
<1>3. IsFiniteSet(T)
  <2>1. 2 \in Int /\ Len(l) \in Int
    BY DEF LogIs
  <2>2. IsFiniteSet(2 .. Len(l))
    BY <2>1, FS_Interval
  <2> QED BY <2>2, FS_Subset
<1>4. \A k \in T : v[k] = Grew(l, k, s, f) /\ v[k] \in Nat /\ z[k] = 0
  <2>1. \A k \in T : Grew(l, k, s, f) \in Nat
    BY GrewIsNat
  <2> QED BY <1>1, <1>2, <2>1
<1>5. Total(l, s, f, T) = SumFunctionOnSet(v, T)
  BY <1>1, Zenon DEF Total, SumFunction
<1>6. SumFunctionOnSet(z, T) = 0
  BY <1>3, <1>4, SumOfZeros
<1>7. SumFunctionOnSet(v, T) \in Int
  <2>1. \A k \in T : v[k] \in Int
    BY <1>4
  <2> QED BY <1>3, <2>1, SumType
<1>8. \A k \in T : z[k] \in Int /\ v[k] \in Int /\ z[k] <= v[k]
  BY <1>4
<1>9. SumFunctionOnSet(z, T) <= SumFunctionOnSet(v, T)
  BY <1>3, <1>8, SumGrows
<1>10. (\E k \in T : z[k] < v[k]) => SumFunctionOnSet(z, T) < SumFunctionOnSet(v, T)
  BY <1>3, <1>8, SumGrows
<1>11. (\E k \in T : Grew(l, k, s, f) > 0) => \E k \in T : z[k] < v[k]
  BY <1>4
<1> QED BY <1>5, <1>6, <1>7, <1>9, <1>10, <1>11

-----------------------------------------------------------------------------
(* A connection, from one snapshot to the next.                            *)

(* One of the queries that worked is of a protocol some socket has.        *)
Answered(a) == \/ a.tcp /\ a.udp
               \/ a.tcp /\ Sockets \ UdpSockets # {}
               \/ a.udp /\ UdpSockets # {}

(* Whenever /proc is read, ss lists something: the host counters never     *)
(* roll on without a snapshot.                                             *)
AnswersSuffice == \A x \in Scenes : \A a \in x.answers : a.sys => Answered(a)

(* What a connection knows of the host. *)
HostSays(c, l) ==
  LET n      == Len(l)
      after   == HostCounters(l[n].kernel)
      before == HostCounters(l[n - 1].kernel)
  IN  n > 1 =>
        /\ l[n - 1].sys /\ l[n].sys =>
             c.HostBufferDrops = FALSE \/ (c.HostBufferDrops = TRUE /\ after.want > before.want)
        /\ AnswersSuffice /\ after.want > before.want => c.HostBufferDrops \in {None, TRUE}
        /\ AnswersSuffice /\ after.backlog > before.backlog => c.HostBacklogDrops \in {None, TRUE}

(* A socket was listed, and its counters known, from a poll on. *)
Chain(l, k, s, w) == \A j \in k .. Len(l) : PrintedIn(l, j - 1, w.counter) /\ s \in l[j - 1].listed

(* When polls are a slot apart, each slot is whole, and one begins where   *)
(* each bulk poll does.                                                    *)
SlotsReach(slots, l, s, w) ==
  (\A gap \in scene.gaps : gap >= SlotMinMS) =>
    /\ Whole(slots)
    /\ \A k \in Bulk(l, s, w) :
         l[k - 1].at >= l[Len(l)].at - SlotWindow /\ Chain(l, k, s, w) => Begun(slots, l[k - 1].at)

(* What holds of a TCP connection of the last snapshot: its slots are the  *)
(* log's, its deltas what the counters grew by.                            *)
TcpIs(c, l, s) ==
  /\ Vouched(c, l[Len(l)].kernel, l[Len(l)].listed)
  /\ Signed(c)
  /\ c.PathMinRTT \in {None, 10}
  /\ HostSays(c, l)
  /\ SlotsAre(c.SendSlots, l, s, Sending) /\ SlotsAre(c.RecvSlots, l, s, Receiving)
  /\ c.SendSlots # <<>> => c.SendSlots[1].start >= l[Len(l)].at - SlotWindow
  /\ c.RecvSlots # <<>> => c.RecvSlots[1].start >= l[Len(l)].at - SlotWindow
  /\ Len(l) > 1 /\ s \in l[Len(l) - 1].listed => Measured(c, l, s)
  /\ SlotsReach(c.SendSlots, l, s, Sending) /\ SlotsReach(c.RecvSlots, l, s, Receiving)

(* And of any connection.                                                  *)
ConnIs(c, l) ==
  /\ c.LocalPort \in Sockets /\ c.LocalPort \in l[Len(l)].listed
  /\ Base(c, l[Len(l)].kernel[c.LocalPort], l[Len(l)].found[c.LocalPort])
  /\ c.Protocol = "tcp" => TcpIs(c, l, c.LocalPort)

(* As the last poll reads it. *)
Read(r, l) ==
  /\ r.LocalPort \in Sockets /\ r.LocalPort \in l[Len(l)].listed
  /\ Base(r, l[Len(l)].kernel[r.LocalPort], l[Len(l)].found[r.LocalPort])
  /\ r.Protocol = "tcp" =>
       /\ r.SendSlots = <<>> /\ r.RecvSlots = <<>>
       /\ Vouched(r, l[Len(l)].kernel, l[Len(l)].listed)
       /\ HostSays(r, l)

(* A counter that grew in a bulk poll is printed from then on.             *)
LEMMA PrintedNow ==
  ASSUME NEW l, LogIs(l), NEW s \in Sockets \ UdpSockets, s \in l[Len(l)].listed, scene.counters,
         NEW w \in Ways, NEW k \in Bulk(l, s, w)
  PROVE  PrintedIn(l, Len(l), w.counter)
<1>1. PICK n : n = Len(l)
  OBVIOUS
<1>2. k \in 2 .. n /\ n \in Nat /\ k - 1 \in 1 .. n /\ k \in 1 .. n /\ n \in 1 .. n
  BY <1>1 DEF Bulk, LogIs
<1>3. w.unit * Grew(l, k, s, w.counter) >= 10000 /\ w.unit \in {1, 1000} /\ w.counter \in {"sent", "data"}
  BY SendingIs, ReceivingIs DEF Bulk, SlotMinBytes, Ways, SegBytes
<1>4. \A i \in 1 .. n : l[i].kernel[s][w.counter] \in Nat
  <2>1. ASSUME NEW i \in 1 .. n
        PROVE  l[i].kernel[s][w.counter] \in Nat
    <3>1. l[i].kernel \in [Sockets -> Amounts]
      BY <1>1, SnapIs DEF Snap
    <3> QED BY <1>3, <3>1 DEF Amounts, NoCounts
  <2> QED BY <2>1
<1>5. l[k].kernel[s][w.counter] > 0
  <2>1. l[k].kernel[s][w.counter] \in Nat /\ l[k - 1].kernel[s][w.counter] \in Nat
    BY <1>2, <1>4
  <2>2. Grew(l, k, s, w.counter) = l[k].kernel[s][w.counter] - l[k - 1].kernel[s][w.counter]
    BY DEF Grew
  <2> QED BY <1>3, <2>1, <2>2
<1>6. l[k].kernel[s][w.counter] <= l[n].kernel[s][w.counter]
  <2>1. CASE k = n
    BY <1>2, <1>4, <2>1
  <2>2. CASE k < n
    <3>1. Rises(l[k].kernel[s], l[n].kernel[s])
      BY <1>1, <1>2, <2>2 DEF LogIs
    <3> QED BY <1>3, <3>1 DEF Rises, NoCounts
  <2> QED BY <1>2, <2>1, <2>2
<1>7. l[n].kernel[s][w.counter] > 0
  BY <1>2, <1>4, <1>5, <1>6
<1> QED BY <1>1, <1>7 DEF PrintedIn

(* What a read knows of the host, its connection knows.                    *)
LEMMA HostCarries ==
  ASSUME NEW c, NEW r, NEW from, NEW to, Follows(c, r, from, to), NEW l, HostSays(r, l)
  PROVE  HostSays(c, l)
<1>1. c.HostBufferDrops = r.HostBufferDrops /\ c.HostBacklogDrops = r.HostBacklogDrops
  BY DEF Follows, Kept
<1> QED BY <1>1 DEF HostSays

(* What becomes of a socket's slots, by whether its deltas are known. *)
Moved(m, s, w, old, new, from, to, known) ==
  /\ (\A gap \in scene.gaps : gap >= SlotMinMS) => to - from >= SlotMinMS
  /\ ~known => new = <<>>
  /\ PrintedIn(m, Len(m) - 1, w.counter) /\ PrintedIn(m, Len(m), w.counter) => known
  /\ known /\ Whole(old) /\ to - from >= SlotMinMS =>
       /\ Whole(new)
       /\ \A i \in 1 .. Len(old) : old[i].start >= to - SlotWindow => Begun(new, old[i].start)
       /\ Len(m) \in Bulk(m, s, w) /\ from >= to - SlotWindow => Begun(new, from)

(* The slots of a socket that goes on still reach as far as its bulk       *)
(* polls.                                                                  *)
LEMMA ReachStep ==
  ASSUME NEW l, NEW m, Extends(m, l), LogIs(l), LogIs(m), Len(l) > 0, NEW s \in Sockets \ UdpSockets,
         s \in m[Len(m)].listed, NEW w \in Ways, NEW old, NEW new, SlotsReach(old, l, s, w),
         NEW from, from = l[Len(l)].at, NEW to, to = m[Len(m)].at,
         NEW known \in BOOLEAN, Moved(m, s, w, old, new, from, to, known)
  PROVE  SlotsReach(new, m, s, w)
<1>1. Len(m) = Len(l) + 1 /\ Len(l) \in Nat /\ Len(m) - 1 = Len(l) /\ \A k \in 1 .. Len(l) : m[k] = l[k]
  BY DEF Extends
<1>2. m[Len(l)] = l[Len(l)] /\ m[Len(m) - 1] = l[Len(l)] /\ from = m[Len(l)].at
  BY <1>1
<1>3. SUFFICES ASSUME \A gap \in scene.gaps : gap >= SlotMinMS
               PROVE  /\ Whole(new)
                      /\ \A k \in Bulk(m, s, w) :
                           m[k - 1].at >= m[Len(m)].at - SlotWindow /\ Chain(m, k, s, w)
                             => Begun(new, m[k - 1].at)
  BY DEF SlotsReach
<1>4. to - from >= SlotMinMS /\ Whole(old)
  BY <1>3 DEF SlotsReach, Moved
<1>7. /\ ~known => new = <<>>
      /\ PrintedIn(m, Len(m) - 1, w.counter) /\ PrintedIn(m, Len(m), w.counter) => known
      /\ known =>
           /\ Whole(new)
           /\ \A i \in 1 .. Len(old) : old[i].start >= to - SlotWindow => Begun(new, old[i].start)
           /\ Len(m) \in Bulk(m, s, w) /\ from >= to - SlotWindow => Begun(new, from)
  BY <1>4 DEF Moved
<1>5. Whole(new)
  <2>1. Whole(<<>>)
    BY DEF Whole
  <2> QED BY <1>7, <2>1
<1>6. ASSUME NEW k \in Bulk(m, s, w), m[k - 1].at >= to - SlotWindow, Chain(m, k, s, w)
      PROVE  Begun(new, m[k - 1].at)
  <2>1. k \in 2 .. Len(m)
    BY DEF Bulk
  <2>2. PrintedIn(m, Len(m) - 1, w.counter)
    BY <1>1, <1>6, <2>1 DEF Chain
  <2>3. PrintedIn(m, Len(m), w.counter)
    BY <2>2, PrintedNow DEF PrintedIn
  <2>4. known
    BY <1>7, <2>2, <2>3
  <2>5. CASE k = Len(m)
    <3>1. m[k - 1].at = from /\ from >= to - SlotWindow /\ Len(m) \in Bulk(m, s, w)
      BY <1>2, <1>6, <2>5
    <3> QED BY <1>7, <2>4, <3>1
  <2>6. CASE k # Len(m)
    <3>1. k \in 2 .. Len(l) /\ k - 1 \in 1 .. Len(l)
      BY <1>1, <2>1, <2>6
    <3>2. k \in Bulk(l, s, w)
      BY <3>1, BulkStays
    <3>3. m[k - 1].at = l[k - 1].at
      BY <1>1, <3>1
    <3>4. l[k - 1].at >= l[Len(l)].at - SlotWindow
      <4>1. \A i \in 1 .. Len(m) : m[i].at \in Nat
        BY SnapIs
      <4>2. Len(m) \in 1 .. Len(m) /\ Len(l) \in 1 .. Len(m) /\ Len(l) < Len(m) /\ k - 1 \in 1 .. Len(m)
        BY <1>1, <3>1
      <4>3. from < to /\ from \in Nat /\ to \in Nat /\ m[k - 1].at \in Nat
        BY <1>2, <4>1, <4>2 DEF LogIs
      <4>4. PICK a, v : a = m[k - 1].at /\ v = SlotWindow
        OBVIOUS
      <4>5. a >= to - v /\ a \in Nat /\ v \in Int
        BY <1>6, <4>3, <4>4, WindowIs
      <4>6. a >= from - v
        BY <4>3, <4>5
      <4> QED BY <3>3, <4>4, <4>6
    <3>5. Chain(l, k, s, w)
      <4>1. ASSUME NEW j \in k .. Len(l)
            PROVE  PrintedIn(l, j - 1, w.counter) /\ s \in l[j - 1].listed
        <5>1. j \in k .. Len(m) /\ j - 1 \in 1 .. Len(l)
          BY <1>1, <3>1
        <5>2. m[j - 1] = l[j - 1]
          BY <1>1, <5>1
        <5>3. PrintedIn(m, j - 1, w.counter) /\ s \in m[j - 1].listed
          BY <1>6, <5>1 DEF Chain
        <5> QED BY <5>2, <5>3 DEF PrintedIn
      <4> QED BY <4>1 DEF Chain
    <3>6. Begun(old, l[k - 1].at)
      BY <1>3, <3>2, <3>4, <3>5 DEF SlotsReach
    <3>7. PICK i \in 1 .. Len(old) : old[i].start = l[k - 1].at
      BY <3>6 DEF Begun
    <3>8. old[i].start >= to - SlotWindow
      BY <1>6, <3>3, <3>7
    <3>9. Begun(new, old[i].start)
      BY <1>7, <2>4, <3>8
    <3> QED BY <3>3, <3>7, <3>9
  <2> QED BY <2>5, <2>6
<1> QED BY <1>5, <1>6

(* A socket that the snapshot before lists goes on. *)
LEMMA TcpGoesOn ==
  ASSUME NEW l, NEW m, Extends(m, l), LogIs(l), LogIs(m), Len(l) > 0, NEW s \in Sockets \ UdpSockets,
         NEW c, c.LocalPort = s, Base(c, m[Len(m)].kernel[s], m[Len(m)].found[s]),
         Vouched(c, m[Len(m)].kernel, m[Len(m)].listed), s \in m[Len(m)].listed,
         NEW p, ConnIs(p, l), p.LocalPort = s,
         NEW from, NEW to, Deltas(c, p, from, to), from = l[Len(l)].at, to = m[Len(m)].at,
         (\A gap \in scene.gaps : gap >= SlotMinMS) => to - from >= SlotMinMS
  PROVE  /\ Measured(c, m, s)
         /\ SlotsAre(c.SendSlots, m, s, Sending) /\ SlotsAre(c.RecvSlots, m, s, Receiving)
         /\ c.SendSlots # <<>> => c.SendSlots[1].start >= to - SlotWindow
         /\ c.RecvSlots # <<>> => c.RecvSlots[1].start >= to - SlotWindow
         /\ SlotsReach(c.SendSlots, m, s, Sending) /\ SlotsReach(c.RecvSlots, m, s, Receiving)
<1>1. Len(m) = Len(l) + 1 /\ Len(l) \in Nat /\ Len(m) - 1 = Len(l) /\ \A k \in 1 .. Len(l) : m[k] = l[k]
  BY DEF Extends
<1>2. m[Len(l)] = l[Len(l)] /\ m[Len(m) - 1] = l[Len(l)] /\ from = m[Len(l)].at
  BY <1>1
<1>3. p.Protocol = "tcp" /\ TcpIs(p, l, s)
  BY DEF ConnIs, Base
<1>4. Base(p, m[Len(m) - 1].kernel[s], m[Len(m) - 1].found[s])
  BY <1>2 DEF ConnIs
<1>5. Vouched(p, m[Len(m) - 1].kernel, m[Len(m) - 1].listed)
  BY <1>2, <1>3 DEF TcpIs
<1>6. Len(m) > 1
  BY <1>1
<1>7. Measured(c, m, s)
  BY <1>4, <1>5, <1>6, MeasuredIs
<1>8. c.DeltaBytesReceived \in {None, SegBytes * Grew(m, Len(m), s, "data")}
  BY <1>4, <1>5, <1>6, MeasuredIs
<1>9. SlotsAre(p.SendSlots, l, s, Sending) /\ SlotsAre(p.RecvSlots, l, s, Receiving)
  BY <1>3 DEF TcpIs
<1>10. SlotsAre(c.SendSlots, m, s, Sending)
  BY <1>2, <1>7, <1>9, SendMoves
<1>11. c.SendSlots # <<>> => c.SendSlots[1].start >= to - SlotWindow
  BY <1>2, <1>7, <1>9, SendMoves
<1>12. SlotsAre(c.RecvSlots, m, s, Receiving)
  BY <1>2, <1>7, <1>8, <1>9, RecvMoves
<1>13. c.RecvSlots # <<>> => c.RecvSlots[1].start >= to - SlotWindow
  BY <1>2, <1>7, <1>8, <1>9, RecvMoves
<1>14. ~(Known(c.DeltaBytesSent) /\ Known(c.DeltaBytesRetrans)) => c.SendSlots = <<>>
  BY <1>2, <1>7, <1>9, SendMoves
<1>15. Known(c.DeltaBytesSent) /\ Known(c.DeltaBytesRetrans) /\ Whole(p.SendSlots) /\ to - from >= SlotMinMS =>
              /\ Whole(c.SendSlots)
              /\ \A i \in 1 .. Len(p.SendSlots) :
                   p.SendSlots[i].start >= to - SlotWindow => Begun(c.SendSlots, p.SendSlots[i].start)
              /\ Len(m) \in Bulk(m, s, Sending) /\ from >= to - SlotWindow => Begun(c.SendSlots, from)
  BY <1>2, <1>7, <1>9, SendMoves
<1>16. ~(Known(c.DeltaBytesReceived) /\ Known(c.DeltaDataSegsIn) /\ Known(c.DeltaRcvOOOPack)) => c.RecvSlots = <<>>
  BY <1>2, <1>7, <1>8, <1>9, RecvMoves
<1>17. (Known(c.DeltaBytesReceived) /\ Known(c.DeltaDataSegsIn) /\ Known(c.DeltaRcvOOOPack)
        /\ Whole(p.RecvSlots) /\ to - from >= SlotMinMS) =>
              /\ Whole(c.RecvSlots)
              /\ \A i \in 1 .. Len(p.RecvSlots) :
                   p.RecvSlots[i].start >= to - SlotWindow => Begun(c.RecvSlots, p.RecvSlots[i].start)
              /\ Len(m) \in Bulk(m, s, Receiving) /\ from >= to - SlotWindow => Begun(c.RecvSlots, from)
  BY <1>2, <1>7, <1>8, <1>9, RecvMoves
<1>18. SlotsReach(p.SendSlots, l, s, Sending) /\ SlotsReach(p.RecvSlots, l, s, Receiving)
  BY <1>3 DEF TcpIs
<1>19. SlotsReach(c.SendSlots, m, s, Sending)
  <2>1. PICK known \in BOOLEAN : known <=> (Known(c.DeltaBytesSent) /\ Known(c.DeltaBytesRetrans))
    OBVIOUS
  <2>2. PrintedIn(m, Len(m) - 1, "sent") /\ PrintedIn(m, Len(m), "sent") => known
    BY <1>7, <2>1 DEF Measured, Known
  <2>3. PICK w, old, new : w = Sending /\ old = p.SendSlots /\ new = c.SendSlots
    OBVIOUS
  <2>4. w \in Ways /\ SlotsReach(old, l, s, w) /\ w.counter = "sent"
    BY <1>18, <2>3, SendingIs
  <2>5. ~known => new = <<>>
    BY <1>14, <2>1, <2>3
  <2>6. PrintedIn(m, Len(m) - 1, w.counter) /\ PrintedIn(m, Len(m), w.counter) => known
    BY <2>2, <2>4
  <2>7. known /\ Whole(old) /\ to - from >= SlotMinMS =>
              /\ Whole(new)
              /\ \A i \in 1 .. Len(old) : old[i].start >= to - SlotWindow => Begun(new, old[i].start)
              /\ Len(m) \in Bulk(m, s, w) /\ from >= to - SlotWindow => Begun(new, from)
    BY <1>15, <2>1, <2>3
  <2>9. Moved(m, s, w, old, new, from, to, known)
    BY <2>5, <2>6, <2>7 DEF Moved
  <2>8. SlotsReach(new, m, s, w)
    BY <2>4, <2>9, ReachStep
  <2> QED BY <2>3, <2>8
<1>20. SlotsReach(c.RecvSlots, m, s, Receiving)
  <2>1. PICK known \in BOOLEAN :
          known <=> (Known(c.DeltaBytesReceived) /\ Known(c.DeltaDataSegsIn) /\ Known(c.DeltaRcvOOOPack))
    OBVIOUS
  <2>2. PrintedIn(m, Len(m) - 1, "data") /\ PrintedIn(m, Len(m), "data") => known
    BY <1>7, <2>1 DEF Measured, Known, PrintedIn
  <2>3. PICK w, old, new : w = Receiving /\ old = p.RecvSlots /\ new = c.RecvSlots
    OBVIOUS
  <2>4. w \in Ways /\ SlotsReach(old, l, s, w) /\ w.counter = "data"
    BY <1>18, <2>3, ReceivingIs
  <2>5. ~known => new = <<>>
    BY <1>16, <2>1, <2>3
  <2>6. PrintedIn(m, Len(m) - 1, w.counter) /\ PrintedIn(m, Len(m), w.counter) => known
    BY <2>2, <2>4
  <2>7. known /\ Whole(old) /\ to - from >= SlotMinMS =>
              /\ Whole(new)
              /\ \A i \in 1 .. Len(old) : old[i].start >= to - SlotWindow => Begun(new, old[i].start)
              /\ Len(m) \in Bulk(m, s, w) /\ from >= to - SlotWindow => Begun(new, from)
    BY <1>17, <2>1, <2>3
  <2>9. Moved(m, s, w, old, new, from, to, known)
    BY <2>5, <2>6, <2>7 DEF Moved
  <2>8. SlotsReach(new, m, s, w)
    BY <2>4, <2>9, ReachStep
  <2> QED BY <2>3, <2>8
<1> QED BY <1>7, <1>10, <1>11, <1>12, <1>13, <1>19, <1>20

(* A connection of the new snapshot. *)
LEMMA ConnStep ==
  ASSUME NEW l, NEW m, Extends(m, l), LogIs(l), LogIs(m), NEW from, NEW to, to = m[Len(m)].at,
         Len(l) = 0 => conns = {},
         Len(l) > 0 => /\ from = l[Len(l)].at /\ \A p \in conns : ConnIs(p, l)
                       /\ \A s \in l[Len(l)].listed : \E p \in conns : p.LocalPort = s
                       /\ (\A gap \in scene.gaps : gap >= SlotMinMS) => to - from >= SlotMinMS,
         NEW r, Read(r, m), NEW c, DOMAIN c = Fields, Follows(c, r, from, to), Signed(c),
         c.PeerAddr = "peer" => c.PathMinRTT \in {None, 10}
  PROVE  ConnIs(c, m)
<1>1. Len(m) = Len(l) + 1 /\ Len(l) \in Nat /\ Len(m) - 1 = Len(l) /\ \A k \in 1 .. Len(l) : m[k] = l[k]
  BY DEF Extends
<1>2. PICK s : s = r.LocalPort
  OBVIOUS
<1>3. s \in Sockets /\ s \in m[Len(m)].listed /\ Base(r, m[Len(m)].kernel[s], m[Len(m)].found[s])
  BY <1>2 DEF Read
<1>4. Base(c, m[Len(m)].kernel[s], m[Len(m)].found[s]) /\ c.LocalPort = s /\ c.Protocol = r.Protocol
  BY <1>2, <1>3, BaseCarries
<1>5. ASSUME c.Protocol = "tcp"
      PROVE  TcpIs(c, m, s)
  <2>1. s \notin UdpSockets /\ c.PeerAddr = "peer"
    BY <1>4, <1>5 DEF Base, Shows
  <2>2. /\ r.SendSlots = <<>> /\ r.RecvSlots = <<>> /\ Vouched(r, m[Len(m)].kernel, m[Len(m)].listed)
        /\ HostSays(r, m)
    BY <1>4, <1>5 DEF Read
  <2>3. Vouched(c, m[Len(m)].kernel, m[Len(m)].listed)
    BY <2>2, VouchedCarries
  <2>4. HostSays(c, m)
    BY <2>2, HostCarries
  <2>5. CASE \E p \in conns : p.LocalPort = s
    <3>1. PICK p \in conns : p.LocalPort = s /\ Deltas(c, p, from, to)
      BY <1>2, <2>5 DEF Follows
    <3>2. Len(l) > 0
      BY <1>1, <3>1
    <3>3. ConnIs(p, l) /\ from = l[Len(l)].at
      BY <3>1, <3>2
    <3>4. (\A gap \in scene.gaps : gap >= SlotMinMS) => to - from >= SlotMinMS
      BY <3>2
    <3>5. Measured(c, m, s)
      BY <1>3, <1>4, <2>1, <2>3, <3>1, <3>2, <3>3, <3>4, TcpGoesOn
    <3>6. SlotsAre(c.SendSlots, m, s, Sending) /\ SlotsAre(c.RecvSlots, m, s, Receiving)
      BY <1>3, <1>4, <2>1, <2>3, <3>1, <3>2, <3>3, <3>4, TcpGoesOn
    <3>7. c.SendSlots # <<>> => c.SendSlots[1].start >= to - SlotWindow
      BY <1>3, <1>4, <2>1, <2>3, <3>1, <3>2, <3>3, <3>4, TcpGoesOn
    <3>8. c.RecvSlots # <<>> => c.RecvSlots[1].start >= to - SlotWindow
      BY <1>3, <1>4, <2>1, <2>3, <3>1, <3>2, <3>3, <3>4, TcpGoesOn
    <3>9. SlotsReach(c.SendSlots, m, s, Sending) /\ SlotsReach(c.RecvSlots, m, s, Receiving)
      BY <1>3, <1>4, <2>1, <2>3, <3>1, <3>2, <3>3, <3>4, TcpGoesOn
    <3> QED BY <2>1, <2>3, <2>4, <3>5, <3>6, <3>7, <3>8, <3>9 DEF TcpIs
  <2>6. CASE \A p \in conns : p.LocalPort # s
    <3>1. c.SendSlots = <<>> /\ c.RecvSlots = <<>>
      BY <1>2, <2>2, <2>6 DEF Follows
    <3>2. Len(m) \in Nat \ {0}
      BY <1>1
    <3>3. SlotsAre(c.SendSlots, m, s, Sending) /\ SlotsAre(c.RecvSlots, m, s, Receiving)
      BY <3>1, <3>2, NoSlots
    <3>4. Len(m) > 1 => s \notin m[Len(m) - 1].listed
      <4>1. ASSUME Len(m) > 1
            PROVE  s \notin m[Len(m) - 1].listed
        <5>1. Len(l) > 0 /\ m[Len(m) - 1] = l[Len(l)]
          BY <1>1, <4>1
        <5> QED BY <2>6, <5>1
      <4> QED BY <4>1
    <3>5. SlotsReach(c.SendSlots, m, s, Sending) /\ SlotsReach(c.RecvSlots, m, s, Receiving)
      <4>1. Whole(c.SendSlots) /\ Whole(c.RecvSlots)
        BY <3>1 DEF Whole
      <4>2. ASSUME NEW w, NEW k \in Bulk(m, s, w)
            PROVE  ~Chain(m, k, s, w)
        <5>1. k \in 2 .. Len(m) /\ Len(m) \in k .. Len(m) /\ Len(m) > 1
          BY <1>1 DEF Bulk
        <5> QED BY <3>4, <5>1 DEF Chain
      <4> QED BY <4>1, <4>2 DEF SlotsReach
    <3> QED BY <2>1, <2>3, <2>4, <3>1, <3>3, <3>4, <3>5 DEF TcpIs
  <2> QED BY <2>5, <2>6
<1> QED BY <1>3, <1>4, <1>5 DEF ConnIs

-----------------------------------------------------------------------------
(* What holds of every state.                                              *)

(* The kernel and the log.                                                 *)
KernelIs ==
  /\ scene \in Scenes
  /\ now \in Nat
  /\ kernel \in [Sockets -> Amounts]
  /\ LogIs(log)

(* The last snapshot is that of the last poll in the log. *)
SnapshotIs ==
  /\ Len(log) = 0 => conns = {}
  /\ Len(log) > 0 =>
       /\ snapAt = log[Len(log)].at /\ snapAt <= now
       /\ \A s \in Sockets : Rises(log[Len(log)].kernel[s], kernel[s])
       /\ \A s \in log[Len(log)].listed : \E c \in conns : c.LocalPort = s
       /\ \A c \in conns : ConnIs(c, log)

(* The host counters read last are no older than the last snapshot's, and  *)
(* no newer when every read comes with one.                                *)
HostIs ==
  /\ sysCur # None => sysCur \in [want : Int, backlog : Int]
  /\ Len(log) > 0 /\ log[Len(log)].sys =>
       LET seen == HostCounters(log[Len(log)].kernel)
       IN  sysCur # None /\ seen.want <= sysCur.want /\ seen.backlog <= sysCur.backlog
  /\ AnswersSuffice /\ sysCur # None =>
       LET seen == HostCounters(log[Len(log)].kernel)
       IN  Len(log) > 0 /\ sysCur.want <= seen.want /\ sysCur.backlog <= seen.backlog

(* Stored polls are a gap of the scene apart, or more when some failed in  *)
(* between, and the paths' queues are those of the last one.               *)
HistoryIs ==
  /\ \A k \in 2 .. Len(log) : \E gap \in scene.gaps : log[k].at - log[k - 1].at >= gap
  /\ QueuesAre(conns)

(* The invariant.                                                          *)
SignalsInv == KernelIs /\ SnapshotIs /\ HostIs /\ HistoryIs

(* It holds at first.                                                      *)
LEMMA SignalsInit == Init => SignalsInv
<1> SUFFICES ASSUME Init
             PROVE  SignalsInv
  OBVIOUS
<1>1. Len(log) = 0 /\ LogIs(log)
  <2>1. log = <<>>
    BY DEF Init
  <2> QED BY <2>1 DEF LogIs
<1>2. KernelIs
  <2>1. NoCounts \in Amounts
    BY DEF Amounts, NoCounts
  <2> QED BY <1>1, <2>1 DEF KernelIs, Init
<1>3. SnapshotIs
  BY <1>1 DEF SnapshotIs, Init
<1>4. HostIs
  BY <1>1 DEF HostIs, Init
<1>5. HistoryIs
  BY <1>1 DEF HistoryIs, QueuesAre, Init
<1> QED BY <1>2, <1>3, <1>4, <1>5 DEF SignalsInv

(* What a socket does in a scene. *)
LEMMA GrowthIs ==
  ASSUME scene \in Scenes, NEW growth \in [Sockets -> UNION {scene.growth[s] : s \in Sockets}],
         \A s \in Sockets : growth[s] \in scene.growth[s]
  PROVE  growth \in [Sockets -> Growth] /\ \A s \in Sockets : growth[s].want <= growth[s].drops
<1>1. scene \in SceneType /\ \A s \in Sockets : \A g \in scene.growth[s] : g.want <= g.drops
  BY SignalsAssumption
<1>2. \A s \in Sockets : scene.growth[s] \subseteq Growth
  BY <1>1 DEF SceneType
<1>3. \A s \in Sockets : growth[s] \in Growth
  BY <1>2
<1> QED BY <1>1, <1>3

(* Counters rise by what the socket does,                                  *)
LEMMA CountsRise ==
  ASSUME NEW k \in [Sockets -> Amounts], NEW growth \in [Sockets -> Growth],
         \A s \in Sockets : growth[s].want <= growth[s].drops,
         NEW counts, counts = [s \in Sockets |-> [f \in DOMAIN NoCounts |-> k[s][f] + growth[s][f]]]
  PROVE  counts \in [Sockets -> Amounts] /\ \A s \in Sockets : Rises(k[s], counts[s])
<1>1. DOMAIN NoCounts = {"sent", "retrans", "data", "ooo", "drops", "want", "backlog"}
  BY DEF NoCounts
<1>2. ASSUME NEW s \in Sockets
      PROVE  counts[s] \in Amounts /\ Rises(k[s], counts[s])
  <2>1. growth[s] \in Growth /\ k[s] \in Amounts /\ counts[s] = [f \in DOMAIN NoCounts |-> k[s][f] + growth[s][f]]
    OBVIOUS
  <2>2. \A f \in DOMAIN NoCounts : growth[s][f] \in Nat /\ k[s][f] \in Nat /\ counts[s][f] = k[s][f] + growth[s][f]
    BY <1>1, <2>1 DEF Growth, Amounts
  <2>3. counts[s] \in Amounts
    BY <2>1, <2>2 DEF Amounts
  <2>4. growth[s]["want"] <= growth[s]["drops"]
    OBVIOUS
  <2>5. counts[s]["want"] - k[s]["want"] <= counts[s]["drops"] - k[s]["drops"]
    BY <1>1, <2>2, <2>4
  <2> QED BY <2>2, <2>3, <2>5 DEF Rises
<1> QED BY <1>2

(* and go on rising.                                                       *)
LEMMA RisesOn ==
  ASSUME NEW i \in Amounts, NEW j \in Amounts, NEW k \in Amounts, Rises(i, j), Rises(j, k)
  PROVE  Rises(i, k)
<1>1. \A f \in DOMAIN NoCounts : i[f] \in Nat /\ j[f] \in Nat /\ k[f] \in Nat /\ i[f] <= j[f] /\ j[f] <= k[f]
  BY DEF Amounts, Rises
<1>2. {"want", "drops"} \subseteq DOMAIN NoCounts
  BY DEF NoCounts
<1>3. i["want"] \in Nat /\ j["want"] \in Nat /\ k["want"] \in Nat
  BY <1>1, <1>2
<1>4. i["drops"] \in Nat /\ j["drops"] \in Nat /\ k["drops"] \in Nat
  BY <1>1, <1>2
<1>5. k["want"] - i["want"] <= k["drops"] - i["drops"]
  BY <1>3, <1>4 DEF Rises
<1> QED BY <1>1, <1>5 DEF Rises

(* A poll goes to the end of the log. *)
LEMMA LogGrows ==
  ASSUME KernelIs, SnapshotIs, NEW e \in Snap, now < e.at, \A s \in Sockets : Rises(kernel[s], e.kernel[s]),
         NEW m, m = Append(log, e)
  PROVE  LogIs(m) /\ Extends(m, log) /\ m[Len(m)] = e
<1>1. LogIs(log) /\ kernel \in [Sockets -> Amounts] /\ now \in Nat
  BY DEF KernelIs
<1>2. Extends(m, log) /\ m[Len(m)] = e
  BY <1>1, AppendExtends
<1>3. PICK n : n = Len(log)
  OBVIOUS
<1>4. n \in Nat /\ Len(m) = n + 1 /\ (\A k \in 1 .. n : m[k] = log[k]) /\ m[n + 1] = e
  BY <1>2, <1>3 DEF Extends
<1>5. m \in Seq(Snap)
  BY <1>1 DEF LogIs
<1>6. \A k \in 1 .. n : log[k].at \in Nat /\ log[k].kernel \in [Sockets -> Amounts]
  <2>1. \A k \in 1 .. n : log[k] \in Snap
    BY <1>1, <1>3 DEF LogIs
  <2> QED BY <2>1 DEF Snap
<1>7. ASSUME NEW i \in 1 .. n
      PROVE  log[i].at <= now /\ \A s \in Sockets : Rises(log[i].kernel[s], kernel[s])
  <2>1. n > 0 /\ n \in 1 .. n
    BY <1>4
  <2>2. log[n].at <= now /\ \A s \in Sockets : Rises(log[n].kernel[s], kernel[s])
    BY <1>3, <2>1 DEF SnapshotIs
  <2>3. CASE i = n
    BY <2>2, <2>3
  <2>4. CASE i < n
    <3>1. log[i].at < log[n].at /\ \A s \in Sockets : Rises(log[i].kernel[s], log[n].kernel[s])
      BY <1>1, <1>3, <2>1, <2>4 DEF LogIs
    <3>2. log[i].at \in Nat /\ log[n].at \in Nat
      BY <1>6, <2>1
    <3>3. log[i].at <= now
      BY <1>1, <2>2, <3>1, <3>2
    <3>4. ASSUME NEW s \in Sockets
          PROVE  Rises(log[i].kernel[s], kernel[s])
      <4>1. log[i].kernel[s] \in Amounts /\ log[n].kernel[s] \in Amounts /\ kernel[s] \in Amounts
        BY <1>1, <1>6, <2>1
      <4> QED BY <2>2, <3>1, <4>1, RisesOn
    <3> QED BY <3>3, <3>4
  <2> QED BY <1>4, <2>3, <2>4
<1>8. ASSUME NEW i \in 1 .. Len(m), NEW j \in 1 .. Len(m), i < j
      PROVE  m[i].at < m[j].at /\ \A s \in Sockets : Rises(m[i].kernel[s], m[j].kernel[s])
  <2>1. i \in 1 .. n
    BY <1>4, <1>8
  <2>2. CASE j \in 1 .. n
    <3>1. log[i].at < log[j].at /\ \A s \in Sockets : Rises(log[i].kernel[s], log[j].kernel[s])
      BY <1>1, <1>3, <1>8, <2>1, <2>2 DEF LogIs
    <3> QED BY <1>4, <2>1, <2>2, <3>1
  <2>3. CASE j = n + 1
    <3>1. m[i] = log[i] /\ m[j] = e
      BY <1>4, <2>1, <2>3
    <3>2. log[i].at < e.at
      <4>1. e.at \in Nat /\ log[i].at \in Nat /\ log[i].at <= now
        BY <1>6, <1>7, <2>1 DEF Snap
      <4> QED BY <1>1, <4>1
    <3>3. ASSUME NEW s \in Sockets
          PROVE  Rises(log[i].kernel[s], e.kernel[s])
      <4>1. e.kernel \in [Sockets -> Amounts]
        BY DEF Snap
      <4>2. log[i].kernel[s] \in Amounts /\ kernel[s] \in Amounts /\ e.kernel[s] \in Amounts
        BY <1>1, <1>6, <2>1, <4>1
      <4>3. Rises(log[i].kernel[s], kernel[s])
        BY <1>7, <2>1
      <4> QED BY <4>2, <4>3, RisesOn
    <3> QED BY <3>1, <3>2, <3>3
  <2> QED BY <1>4, <2>2, <2>3
<1> QED BY <1>2, <1>5, <1>8 DEF LogIs

(* Whatever is answered, ss lists something. *)
LEMMA AnsweredIsListed ==
  ASSUME NEW counts, NEW growth, NEW a, Answered(a),
         NEW rows, rows = Rows(counts, growth)
  PROVE  ~Failed(rows, a)
<1>1. CASE a.tcp /\ a.udp
  BY <1>1 DEF Failed
<1>2. CASE a.tcp /\ Sockets \ UdpSockets # {}
  <2>1. PICK s \in Sockets \ UdpSockets : TRUE
    BY <1>2
  <2>2. PICK r : r = Row(s, counts[s], growth[s])
    OBVIOUS
  <2>3. r.Protocol = "tcp"
    <3>1. Shows(r, counts[s], growth[s])
      BY <2>2, TcpRowIs
    <3> QED BY <3>1 DEF Shows
  <2> QED BY <1>2, <2>2, <2>3 DEF Failed, Listed, Rows
<1>3. CASE a.udp /\ UdpSockets # {}
  <2>1. PICK s \in UdpSockets : TRUE
    BY <1>3
  <2>2. PICK r : r = Row(s, counts[s], growth[s])
    OBVIOUS
  <2>3. r.Protocol = "udp"
    BY <2>2, UdpRowIs
  <2>4. s \in Sockets
    BY SignalsAssumption
  <2> QED BY <1>3, <2>2, <2>3, <2>4 DEF Failed, Listed, Rows
<1> QED BY <1>1, <1>2, <1>3 DEF Answered

(* Nothing of a connection depends on the rest of the state. *)
LEMMA ConnStays ==
  ASSUME scene' = scene, NEW c, NEW l
  PROVE  ConnIs(c, l)' <=> ConnIs(c, l)
<1>1. \A k : Counts(c, k)' <=> Counts(c, k)
  BY DEF Counts
<1>2. \A k, g : Base(c, k, g)' <=> Base(c, k, g)
  BY <1>1 DEF Base
<1>3. \A k, ports : Vouched(c, k, ports)' <=> Vouched(c, k, ports)
  BY DEF Vouched
<1>4. \A k, f : PrintedIn(l, k, f)' <=> PrintedIn(l, k, f)
  BY DEF PrintedIn
<1>5. \A s : Measured(c, l, s)' <=> Measured(c, l, s)
  BY <1>4 DEF Measured
<1>6. \A k, s, w : Chain(l, k, s, w)' <=> Chain(l, k, s, w)
  BY <1>4 DEF Chain
<1>7. \A slots, s, w : SlotsReach(slots, l, s, w)' <=> SlotsReach(slots, l, s, w)
  BY <1>6 DEF SlotsReach
<1>8. \A s : TcpIs(c, l, s)' <=> TcpIs(c, l, s)
  BY <1>3, <1>5, <1>7 DEF TcpIs
<1> QED BY <1>2, <1>8 DEF ConnIs

(* What a poll reads, the host counters' verdict included. *)
LEMMA ReadAll ==
  ASSUME SignalsInv, NEW growth \in [Sockets -> Growth], NEW a, NEW counts \in [Sockets -> Amounts],
         \A s \in Sockets : Rises(kernel[s], counts[s]),
         NEW cs, cs = FillOmittedZeros(Listed(Rows(counts, growth), a)),
         NEW cur, cur = IF a.sys THEN HostCounters(counts) ELSE sysCur,
         NEW prev, prev = IF a.sys THEN sysCur ELSE sysPrev,
         NEW ds, ds = IF a.sys /\ prev # None THEN WithHostDrops(cs, cur, prev) ELSE cs,
         NEW e, e.kernel = counts, e.found = growth, e.listed = Ports(cs), e.sys = a.sys,
         NEW m, Extends(m, log), m[Len(m)] = e
  PROVE  /\ e.listed \subseteq Sockets
         /\ \A r \in ds : Read(r, m)
         /\ \A s \in e.listed : \E r \in ds : r.LocalPort = s
<1>1. PICK ports : ports = Ports(cs)
  OBVIOUS
<1>2. ports = e.listed /\ ports \subseteq Sockets
  BY <1>1, ReadIs
<1>3. \A c \in cs : /\ Base(c, counts[c.LocalPort], growth[c.LocalPort])
                    /\ c.Protocol = "tcp" => Fresh(c) /\ Vouched(c, counts, ports)
  BY <1>1, ReadIs
<1>4. /\ m[Len(m)].kernel = counts /\ m[Len(m)].found = growth /\ m[Len(m)].listed = ports /\ m[Len(m)].sys = a.sys
  BY <1>2
<1>5. \A c \in cs : DOMAIN c = Fields /\ c.LocalPort \in ports
  BY <1>1, <1>3 DEF Base, Ports
<1>9. \A c \in cs : DOMAIN c = Fields
  BY <1>5
<1>6. Len(m) = Len(log) + 1 /\ Len(log) \in Nat /\ (Len(m) > 1 => Len(log) > 0 /\ m[Len(m) - 1] = log[Len(log)])
  BY DEF Extends
<1>7. CASE ~(a.sys /\ prev # None)
  <2>1. ds = cs
    BY <1>7
  <2>2. ASSUME NEW r \in cs, r.Protocol = "tcp"
        PROVE  HostSays(r, m)
    <3>1. r.HostBufferDrops = None /\ r.HostBacklogDrops = None
      BY <1>3, <2>2 DEF Fresh
    <3>2. Len(m) > 1 => ~(m[Len(m) - 1].sys /\ m[Len(m)].sys)
      BY <1>4, <1>6, <1>7 DEF SignalsInv, HostIs
    <3> QED BY <3>1, <3>2 DEF HostSays
  <2>3. ASSUME NEW r \in cs
        PROVE  Read(r, m)
    BY <1>2, <1>3, <1>4, <1>5, <2>2 DEF Read, Fresh
  <2>4. \A s \in e.listed : \E r \in ds : r.LocalPort = s
    BY <1>1, <1>2, <2>1 DEF Ports
  <2> QED BY <1>2, <2>1, <2>3, <2>4
<1>8. CASE a.sys /\ prev # None
  <2>1. ds = WithHostDrops(cs, cur, prev) /\ cur = HostCounters(counts) /\ prev = sysCur
    BY <1>8
  <2>2. /\ \A r \in ds : \E c \in cs : HostOf(r, c, cur, prev)
        /\ \A c \in cs : \E r \in ds : r.LocalPort = c.LocalPort
    <3>1. ds = WithHostDrops(cs, cur, prev)
      BY <2>1
    <3> QED BY ONLY <1>9, <3>1, HostDropsAre
  <2>3. ASSUME NEW r \in ds
        PROVE  Read(r, m)
    <3>1. PICK c \in cs :
            /\ DOMAIN r = Fields
            /\ \A f \in Fields \ {"HostBufferDrops", "HostBacklogDrops"} : r[f] = c[f]
            /\ r.HostBufferDrops = IF cur.want > prev.want THEN TRUE ELSE FALSE
            /\ r.HostBacklogDrops = IF cur.backlog > prev.backlog THEN TRUE ELSE FALSE
      BY <2>2 DEF HostOf
    <3>2. {"Protocol", "State", "LocalPort", "PeerAddr", "SkmemR", "SkmemRB", "SkmemD", "Timestamps", "CWnd",
           "MinRTT", "RTT", "RcvRTT", "RcvSSThresh", "CongAlgo", "BytesSent", "BytesRetrans", "DataSegsIn",
           "RcvOOOPack", "BytesReceived", "SegsIn", "SendSlots", "RecvSlots"}
             \subseteq Fields \ {"HostBufferDrops", "HostBacklogDrops"}
      BY DEF Fields, PointerFields, Zeros
    <3>3. /\ r.Protocol = c.Protocol /\ r.State = c.State /\ r.LocalPort = c.LocalPort /\ r.PeerAddr = c.PeerAddr
          /\ r.SkmemR = c.SkmemR /\ r.SkmemRB = c.SkmemRB /\ r.SkmemD = c.SkmemD /\ r.Timestamps = c.Timestamps
          /\ r.CWnd = c.CWnd /\ r.MinRTT = c.MinRTT /\ r.RTT = c.RTT /\ r.RcvRTT = c.RcvRTT
          /\ r.RcvSSThresh = c.RcvSSThresh /\ r.CongAlgo = c.CongAlgo /\ r.BytesSent = c.BytesSent
          /\ r.BytesRetrans = c.BytesRetrans /\ r.DataSegsIn = c.DataSegsIn /\ r.RcvOOOPack = c.RcvOOOPack
          /\ r.BytesReceived = c.BytesReceived /\ r.SegsIn = c.SegsIn
          /\ r.SendSlots = c.SendSlots /\ r.RecvSlots = c.RecvSlots
      BY <3>1, <3>2
    <3>4. PICK k, g : k = counts[c.LocalPort] /\ g = growth[c.LocalPort]
      OBVIOUS
    <3>5. Base(c, k, g) /\ (c.Protocol = "tcp" => Fresh(c) /\ Vouched(c, counts, ports))
      BY <1>3, <3>4
    <3>6. (Shows(c, k, g) => Shows(r, k, g)) /\ (Counts(c, k) => Counts(r, k))
      BY <3>3 DEF Shows, Counts
    <3>7. Base(r, k, g)
      BY <3>1, <3>3, <3>5, <3>6 DEF Base
    <3>8. r.Protocol = "tcp" => r.SendSlots = <<>> /\ r.RecvSlots = <<>> /\ Vouched(r, counts, ports)
      BY <3>3, <3>5 DEF Fresh, Vouched
    <3>9. HostSays(r, m)
      <4>1. SUFFICES ASSUME Len(m) > 1
                     PROVE  HostSays(r, m)
        BY DEF HostSays
      <4>2. PICK last : last = log[Len(log)]
        OBVIOUS
      <4>3. m[Len(m) - 1] = last /\ Len(log) > 0 /\ last.kernel \in [Sockets -> Amounts]
        <5>1. Len(log) \in 1 .. Len(log)
          BY <1>6, <4>1
        <5>2. last \in Snap
          BY <4>2, <5>1 DEF SignalsInv, KernelIs, LogIs
        <5> QED BY <1>6, <4>1, <4>2, <5>2 DEF Snap
      <4>4. PICK after, before : after = HostCounters(counts) /\ before = HostCounters(last.kernel)
        OBVIOUS
      <4>5. after \in [want : Int, backlog : Int] /\ before \in [want : Int, backlog : Int]
        BY <4>3, <4>4, HostCountersAre
      <4>6. prev \in [want : Int, backlog : Int]
        BY <1>8, <2>1 DEF SignalsInv, HostIs
      <4>7. last.sys => before.want <= prev.want
        BY <2>1, <4>2, <4>3, <4>4 DEF SignalsInv, HostIs
      <4>8. AnswersSuffice => prev.want <= before.want /\ prev.backlog <= before.backlog
        BY <1>8, <2>1, <4>2, <4>3, <4>4 DEF SignalsInv, HostIs
      <4>9. /\ after.want \in Int /\ after.backlog \in Int /\ before.want \in Int /\ before.backlog \in Int
            /\ prev.want \in Int /\ prev.backlog \in Int
        BY <4>5, <4>6
      <4>10. last.sys => r.HostBufferDrops = FALSE \/ (r.HostBufferDrops = TRUE /\ after.want > before.want)
        BY <2>1, <3>1, <4>4, <4>7, <4>9
      <4>11. AnswersSuffice /\ after.want > before.want => r.HostBufferDrops = TRUE
        BY <2>1, <3>1, <4>4, <4>8, <4>9
      <4>12. AnswersSuffice /\ after.backlog > before.backlog => r.HostBacklogDrops = TRUE
        BY <2>1, <3>1, <4>4, <4>8, <4>9
      <4>13. HostCounters(m[Len(m)].kernel) = after /\ HostCounters(m[Len(m) - 1].kernel) = before
        BY <1>4, <4>3, <4>4
      <4> QED BY <4>3, <4>10, <4>11, <4>12, <4>13 DEF HostSays
    <3>10. r.LocalPort \in ports /\ r.LocalPort = c.LocalPort
      BY <1>5, <3>3
    <3> QED BY <1>2, <1>4, <3>4, <3>7, <3>8, <3>9, <3>10 DEF Read
  <2>4. \A s \in e.listed : \E r \in ds : r.LocalPort = s
    BY <1>1, <1>2, <2>2 DEF Ports
  <2> QED BY <1>2, <2>3, <2>4
<1> QED BY <1>7, <1>8

(* Nor do all of them.                                                     *)
LEMMA ConnsStay ==
  ASSUME scene' = scene, NEW m, log' = m, NEW cs, conns' = cs, \A c \in cs : ConnIs(c, m)
  PROVE  (\A c \in conns : ConnIs(c, log))'
<1>1. \A c : ConnIs(c, m)' <=> ConnIs(c, m)
  BY ConnStays
<1>2. ASSUME NEW c \in cs
      PROVE  ConnIs(c, log)'
  <2>1. ConnIs(c, m)'
    BY <1>1, <1>2
  <2> QED BY <2>1
<1> QED BY <1>2

(* What a poll does, in a few words. *)
LEMMA PollIs ==
  ASSUME KernelIs, NEW gap \in scene.gaps, NEW growth \in [Sockets -> Growth],
         \A s \in Sockets : growth[s].want <= growth[s].drops,
         NEW a \in scene.answers, Poll(gap, growth, a)
  PROVE  \E counts, rows, cs, cur, prev, ds :
           /\ counts \in [Sockets -> Amounts] /\ (\A s \in Sockets : Rises(kernel[s], counts[s]))
           /\ rows = Rows(counts, growth)
           /\ cs = FillOmittedZeros(Listed(rows, a))
           /\ cur = IF a.sys THEN HostCounters(counts) ELSE sysCur
           /\ prev = IF a.sys THEN sysCur ELSE sysPrev
           /\ ds = IF a.sys /\ prev # None THEN WithHostDrops(cs, cur, prev) ELSE cs
           /\ now' = now + gap /\ gap \in Nat \ {0} /\ a.sys \in BOOLEAN
           /\ scene' = scene /\ kernel' = counts /\ sysCur' = cur /\ sysPrev' = prev
           /\ Failed(rows, a) => UNCHANGED <<conns, snapAt, log>>
           /\ ~Failed(rows, a) =>
                /\ conns' = AddSnapshotAt(ds, snapAt, now') /\ snapAt' = now'
                /\ log' = Append(log, [at |-> now', kernel |-> counts, found |-> growth,
                                       listed |-> Ports(cs), sys |-> a.sys])
<1>1. PICK counts : counts = [s \in Sockets |-> [f \in DOMAIN NoCounts |-> kernel[s][f] + growth[s][f]]]
  OBVIOUS
<1>2. PICK rows : rows = {Row(s, counts[s], growth[s]) : s \in Sockets}
  OBVIOUS
<1>3. PICK cs : cs = FillOmittedZeros(Listed(rows, a))
  OBVIOUS
<1>4. PICK cur, prev : /\ cur = IF a.sys THEN HostCounters(counts) ELSE sysCur
                       /\ prev = IF a.sys THEN sysCur ELSE sysPrev
  OBVIOUS
<1>5. PICK ds : ds = IF a.sys /\ prev # None THEN WithHostDrops(cs, cur, prev) ELSE cs
  OBVIOUS
<1>6. counts \in [Sockets -> Amounts]
  BY <1>1, CountsRise DEF KernelIs
<1>7. \A s \in Sockets : Rises(kernel[s], counts[s])
  BY <1>1, CountsRise DEF KernelIs
<1>8. rows = Rows(counts, growth)
  BY Zenon, <1>2 DEF Rows
<1>9. gap \in Nat \ {0} /\ a.sys \in BOOLEAN
  <2>1. scene \in SceneType
    BY SignalsAssumption DEF KernelIs
  <2> QED BY <2>1 DEF SceneType
<1>10. now' = now + gap /\ scene' = scene /\ kernel' = counts /\ sysCur' = cur /\ sysPrev' = prev
  BY Zenon, <1>1, <1>4 DEF Poll
<1>11. Failed(rows, a) => UNCHANGED <<conns, snapAt, log>>
  BY Zenon, <1>1, <1>2 DEF Poll
<1>12. ~Failed(rows, a) =>
         /\ conns' = AddSnapshotAt(ds, snapAt, now') /\ snapAt' = now'
         /\ log' = Append(log, [at |-> now', kernel |-> counts, found |-> growth,
                                listed |-> Ports(cs), sys |-> a.sys])
  BY Zenon, <1>1, <1>2, <1>3, <1>4, <1>5 DEF Poll, Ports
<1> QED BY <1>3, <1>4, <1>5, <1>6, <1>7, <1>8, <1>9, <1>10, <1>11, <1>12

(* What lies behind stays as it was.                                       *)
LEMMA HistoryStays ==
  ASSUME HistoryIs, log' = log, conns' = conns, scene' = scene
  PROVE  HistoryIs'
<1>1. QueuesAre(conns)'
  BY DEF HistoryIs, QueuesAre, Peers, Queued
<1> QED BY <1>1 DEF HistoryIs

(* What the host counters say goes on while ss fails. *)
LEMMA FailedPollKeeps ==
  ASSUME SignalsInv, NEW gap \in Nat \ {0}, NEW growth \in [Sockets -> Growth], NEW a \in scene.answers,
         NEW counts \in [Sockets -> Amounts], \A s \in Sockets : Rises(kernel[s], counts[s]),
         NEW cur, cur = IF a.sys THEN HostCounters(counts) ELSE sysCur,
         Failed(Rows(counts, growth), a), a.sys \in BOOLEAN,
         now' = now + gap, scene' = scene, kernel' = counts, sysCur' = cur,
         UNCHANGED <<conns, snapAt, log>>
  PROVE  SignalsInv'
<1>1. log' = log /\ conns' = conns /\ snapAt' = snapAt
  OBVIOUS
<1>2. KernelIs'
  BY <1>1 DEF SignalsInv, KernelIs
<1>3. Len(log) > 0 => /\ log[Len(log)].kernel \in [Sockets -> Amounts]
                      /\ \A s \in Sockets : Rises(log[Len(log)].kernel[s], counts[s])
  <2>1. ASSUME Len(log) > 0
        PROVE  log[Len(log)].kernel \in [Sockets -> Amounts]
    <3>1. log \in Seq(Snap)
      BY DEF SignalsInv, KernelIs, LogIs
    <3>2. log[Len(log)] \in Snap
      BY <2>1, <3>1
    <3> QED BY <3>2 DEF Snap
  <2>2. ASSUME Len(log) > 0, NEW s \in Sockets
        PROVE  Rises(log[Len(log)].kernel[s], counts[s])
    <3>1. Rises(log[Len(log)].kernel[s], kernel[s])
      BY <2>2 DEF SignalsInv, SnapshotIs
    <3>2. log[Len(log)].kernel[s] \in Amounts /\ kernel[s] \in Amounts /\ counts[s] \in Amounts
      BY <2>1, <2>2 DEF SignalsInv, KernelIs
    <3>3. Rises(kernel[s], counts[s])
      OBVIOUS
    <3> QED BY <3>1, <3>2, <3>3, RisesOn
  <2> QED BY <2>1, <2>2
<1>4. SnapshotIs'
  <2>1. (Len(log) = 0 => conns = {})'
    BY <1>1 DEF SignalsInv, SnapshotIs
  <2>2. ASSUME Len(log) > 0
        PROVE  snapAt = log[Len(log)].at /\ snapAt <= now' /\ snapAt' = log'[Len(log')].at
    <3>1. snapAt = log[Len(log)].at /\ snapAt <= now /\ now \in Nat
      BY <2>2 DEF SignalsInv, SnapshotIs, KernelIs
    <3>2. log \in Seq(Snap)
      BY DEF SignalsInv, KernelIs, LogIs
    <3>3. log[Len(log)] \in Snap
      BY <2>2, <3>2
    <3>4. snapAt \in Nat
      BY <3>1, <3>3 DEF Snap
    <3> QED BY <1>1, <3>1, <3>4
  <2>3. Len(log) > 0 => \A s \in log[Len(log)].listed : \E c \in conns : c.LocalPort = s
    BY DEF SignalsInv, SnapshotIs
  <2>4. ASSUME Len(log) > 0
        PROVE  (\A c \in conns : ConnIs(c, log))'
    <3>1. PICK m, cs : m = log /\ cs = conns
      OBVIOUS
    <3>2. \A c \in cs : ConnIs(c, m)
      BY <2>4, <3>1 DEF SignalsInv, SnapshotIs
    <3>3. log' = m /\ conns' = cs
      BY <1>1, <3>1
    <3> QED BY <3>2, <3>3, ConnsStay
  <2> QED BY <1>1, <1>3, <2>1, <2>2, <2>3, <2>4 DEF SnapshotIs
<1>5. HostIs'
  <2>1. HostCounters(counts) \in [want : Int, backlog : Int] /\ HostCounters(counts) # None
    BY HostCountersAre
  <2>2. sysCur' # None => sysCur' \in [want : Int, backlog : Int]
    BY <2>1 DEF SignalsInv, HostIs
  <2>3. PICK last : last = log[Len(log)]
    OBVIOUS
  <2>4. PICK seen, new : seen = HostCounters(last.kernel) /\ new = HostCounters(counts)
    OBVIOUS
  <2>5. ASSUME Len(log) > 0
        PROVE  seen.want <= new.want /\ seen.backlog <= new.backlog
    <3>1. last.kernel \in [Sockets -> Amounts] /\ \A s \in Sockets : Rises(last.kernel[s], counts[s])
      BY <1>3, <2>3, <2>5
    <3>2. HostCounters(last.kernel).want <= HostCounters(counts).want
          /\ HostCounters(last.kernel).backlog <= HostCounters(counts).backlog
      BY <3>1, HostGrows
    <3> QED BY <2>4, <3>2
  <2>6. Len(log) > 0 /\ last.sys => sysCur' # None /\ seen.want <= sysCur'.want /\ seen.backlog <= sysCur'.backlog
    <3>1. Len(log) > 0 /\ last.sys => sysCur # None /\ seen.want <= sysCur.want /\ seen.backlog <= sysCur.backlog
      BY <2>3, <2>4 DEF SignalsInv, HostIs
    <3> QED BY <2>1, <2>4, <2>5, <3>1
  <2>7. AnswersSuffice => ~a.sys
    <3>1. scene \in Scenes
      BY DEF SignalsInv, KernelIs
    <3>2. ~Answered(a)
      <4>1. SUFFICES ASSUME Answered(a)
                     PROVE  FALSE
        OBVIOUS
      <4>2. PICK rows : rows = Rows(counts, growth)
        OBVIOUS
      <4>3. ~Failed(rows, a)
        BY Zenon, <4>1, <4>2, AnsweredIsListed
      <4> QED BY <4>2, <4>3
    <3> QED BY <3>1, <3>2 DEF AnswersSuffice
  <2>8. AnswersSuffice /\ sysCur' # None =>
          Len(log) > 0 /\ sysCur'.want <= seen.want /\ sysCur'.backlog <= seen.backlog
    <3>1. AnswersSuffice /\ sysCur # None =>
            Len(log) > 0 /\ sysCur.want <= seen.want /\ sysCur.backlog <= seen.backlog
      BY <2>3, <2>4 DEF SignalsInv, HostIs
    <3> QED BY <2>7, <3>1
  <2>9. AnswersSuffice' <=> AnswersSuffice
    BY DEF AnswersSuffice, Answered
  <2>10. HostCounters(log'[Len(log')].kernel) = seen /\ log'[Len(log')] = last /\ Len(log') = Len(log)
    BY <1>1, <2>3, <2>4
  <2> QED BY <2>2, <2>3, <2>4, <2>6, <2>8, <2>9, <2>10, <1>1 DEF HostIs
<1>6. HistoryIs'
  <2>1. log' = log /\ conns' = conns /\ scene' = scene /\ HistoryIs
    BY <1>1 DEF SignalsInv
  <2> QED BY <2>1, HistoryStays
<1> QED BY <1>2, <1>4, <1>5, <1>6 DEF SignalsInv

(* Every connection of a new snapshot is what the log says. *)
LEMMA ConnsOfSnapshot ==
  ASSUME SignalsInv, NEW m, Extends(m, log), LogIs(m),
         NEW ds, \A r \in ds : Read(r, m), NEW to, to = m[Len(m)].at, NEW gap \in scene.gaps, gap \in Nat \ {0},
         to = now + gap, NEW from, from = snapAt
  PROVE  \A c \in AddSnapshotAt(ds, from, to) : ConnIs(c, m)
<1>1. \A r \in ds : DOMAIN r = Fields
  BY DEF Read, Base
<1>2. \A r \in ds : r.PeerAddr = "peer" => r.MinRTT = 10
  BY DEF Read, Base, Shows
<1>3. LogIs(log) /\ now \in Nat
  BY DEF SignalsInv, KernelIs
<1>4. Len(log) = 0 => conns = {}
  BY DEF SignalsInv, SnapshotIs
<1>5. ASSUME Len(log) > 0
      PROVE  /\ from = log[Len(log)].at /\ \A p \in conns : ConnIs(p, log)
             /\ \A s \in log[Len(log)].listed : \E p \in conns : p.LocalPort = s
             /\ (\A x \in scene.gaps : x >= SlotMinMS) => to - from >= SlotMinMS
  <2>1. /\ from = log[Len(log)].at /\ from <= now /\ \A p \in conns : ConnIs(p, log)
        /\ \A s \in log[Len(log)].listed : \E p \in conns : p.LocalPort = s
    BY <1>5 DEF SignalsInv, SnapshotIs
  <2>2. from \in Nat
    <3>1. log \in Seq(Snap)
      BY <1>3 DEF LogIs
    <3>2. log[Len(log)] \in Snap
      BY <1>5, <3>1
    <3> QED BY <2>1, <3>2 DEF Snap
  <2>3. to - from >= gap
    BY <1>3, <2>1, <2>2
  <2>4. (\A x \in scene.gaps : x >= SlotMinMS) => to - from >= SlotMinMS
    BY <1>3, <2>1, <2>2, <2>3, ClassifierAssumption
  <2> QED BY <2>1, <2>4
<1>6. ASSUME NEW c \in AddSnapshotAt(ds, from, to)
      PROVE  ConnIs(c, m)
  <2>1. /\ DOMAIN c = Fields /\ \E r \in ds : Follows(c, r, from, to)
        /\ c.PeerAddr = "peer" => c.PathMinRTT \in {None, 10}
        /\ Signed(c)
    BY <1>1, <1>2, AddedIs
  <2>2. PICK r \in ds : Follows(c, r, from, to)
    BY <2>1
  <2>3. Read(r, m)
    OBVIOUS
  <2> QED BY <1>3, <1>4, <1>5, <2>1, <2>2, <2>3, ConnStep
<1> QED BY <1>6

(* A poll reads finitely many sockets.                                     *)
LEMMA ReadsAreFinite ==
  ASSUME NEW counts, NEW growth, NEW a, NEW cs, cs = FillOmittedZeros(Listed(Rows(counts, growth), a))
  PROVE  IsFiniteSet(cs) /\ \A cur, prev : IsFiniteSet(WithHostDrops(cs, cur, prev))
<1>1. PICK rows, listed : rows = Rows(counts, growth) /\ listed = Listed(rows, a)
  OBVIOUS
<1>2. IsFiniteSet(listed)
  <2>1. PICK f : f = [s \in Sockets |-> Row(s, counts[s], growth[s])]
    OBVIOUS
  <2>2. \A r \in rows : \E s \in Sockets : r = f[s]
    BY <1>1, <2>1 DEF Rows
  <2>3. IsFiniteSet(rows)
    BY <2>2, FiniteImage, SignalsAssumption
  <2>4. listed \in SUBSET rows
    BY <1>1 DEF Listed
  <2> QED BY <2>3, <2>4, FS_Subset
<1>3. IsFiniteSet(cs)
  <2>1. PICK f : f = [r \in listed |-> Fill(listed, r)]
    OBVIOUS
  <2>2. cs = {Fill(listed, r) : r \in listed}
    BY <1>1, FillIs
  <2>3. \A c \in cs : \E r \in listed : c = f[r]
    BY <2>1, <2>2
  <2> QED BY <1>2, <2>3, FiniteImage
<1>4. ASSUME NEW cur, NEW prev, NEW ds, ds = WithHostDrops(cs, cur, prev)
      PROVE  IsFiniteSet(ds)
  <2> DEFINE told(c) == [c EXCEPT !.HostBufferDrops = cur.want > prev.want,
                                  !.HostBacklogDrops = cur.backlog > prev.backlog]
  <2>1. PICK f : f = [c \in cs |-> told(c)]
    OBVIOUS
  <2>2. ds = {told(c) : c \in cs}
    BY Zenon, <1>4 DEF WithHostDrops
  <2> HIDE DEF told
  <2>3. \A d \in ds : \E c \in cs : d = f[c]
    BY <2>1, <2>2
  <2> QED BY <1>3, <2>3, FiniteImage
<1> QED BY <1>3, <1>4

(* A poll that is stored keeps the invariant,                              *)
LEMMA StoredPollKeeps ==
  ASSUME SignalsInv, NEW gap \in scene.gaps, gap \in Nat \ {0}, NEW growth \in [Sockets -> Growth], NEW a,
         NEW counts \in [Sockets -> Amounts], \A s \in Sockets : Rises(kernel[s], counts[s]),
         NEW rows, rows = Rows(counts, growth), NEW cs, cs = FillOmittedZeros(Listed(rows, a)),
         NEW cur, cur = IF a.sys THEN HostCounters(counts) ELSE sysCur,
         NEW prev, prev = IF a.sys THEN sysCur ELSE sysPrev,
         NEW ds, ds = IF a.sys /\ prev # None THEN WithHostDrops(cs, cur, prev) ELSE cs,
         a.sys \in BOOLEAN, now' = now + gap, scene' = scene, kernel' = counts, sysCur' = cur, snapAt' = now',
         conns' = AddSnapshotAt(ds, snapAt, now'),
         log' = Append(log, [at |-> now', kernel |-> counts, found |-> growth, listed |-> Ports(cs), sys |-> a.sys])
  PROVE  SignalsInv'
<1>1. now \in Nat /\ now' \in Nat /\ now < now' /\ KernelIs /\ SnapshotIs
  BY DEF SignalsInv, KernelIs
<1>2. PICK to : to = now'
  OBVIOUS
<1>3. PICK e : e = [at |-> to, kernel |-> counts, found |-> growth, listed |-> Ports(cs), sys |-> a.sys]
  OBVIOUS
<1>4. e.at = to /\ e.kernel = counts /\ e.found = growth /\ e.listed = Ports(cs) /\ e.sys = a.sys
  BY <1>3
<1>5. PICK m : m = Append(log, e)
  OBVIOUS
<1>6. PICK n : n = Len(m)
  OBVIOUS
<1>7. e.listed \subseteq Sockets
  BY <1>4, ReadIs
<1>8. e \in Snap
  BY <1>1, <1>2, <1>3, <1>4, <1>7 DEF Snap
<1>9. LogIs(m) /\ Extends(m, log) /\ m[Len(m)] = e
  BY <1>1, <1>2, <1>4, <1>5, <1>8, LogGrows
<1>10. (\A r \in ds : Read(r, m)) /\ (\A s \in e.listed : \E r \in ds : r.LocalPort = s)
  BY <1>4, <1>9, ReadAll
<1>11. PICK new, from : new = AddSnapshotAt(ds, from, to) /\ from = snapAt
  OBVIOUS
<1>12. \A c \in new : ConnIs(c, m)
  <2>1. \A c \in AddSnapshotAt(ds, from, to) : ConnIs(c, m)
    <3>1. to = m[Len(m)].at /\ to = now + gap /\ from = snapAt
      BY <1>2, <1>4, <1>9, <1>11
    <3>2. \A r \in ds : Read(r, m)
      BY <1>10
    <3> QED BY <1>9, <3>1, <3>2, ConnsOfSnapshot
  <2> QED BY <1>11, <2>1
<1>13. \A s \in e.listed : \E c \in new : c.LocalPort = s
  <2>1. \A r \in ds : DOMAIN r = Fields
    BY <1>10 DEF Read, Base
  <2>2. \A r \in ds : \E c \in AddSnapshotAt(ds, from, to) : c.LocalPort = r.LocalPort
    BY <2>1, PortsStay
  <2> QED BY <1>10, <1>11, <2>2
<1>14. log' = m /\ conns' = new /\ snapAt' = to /\ Len(m) > 0
  <2>1. Len(m) > 0
    BY <1>9 DEF Extends
  <2> QED BY <1>2, <1>3, <1>5, <1>11, <2>1
<1>15. KernelIs'
  BY <1>1, <1>9, <1>14 DEF KernelIs
<1>16. SnapshotIs'
  <2>1. (\A c \in conns : ConnIs(c, log))'
    BY <1>12, <1>14, ConnsStay
  <2>2. ASSUME NEW s \in Sockets
        PROVE  Rises(counts[s], counts[s])
    <3>1. \A f \in DOMAIN NoCounts : counts[s][f] \in Nat
      BY DEF Amounts
    <3>2. counts[s]["want"] \in Nat /\ counts[s]["drops"] \in Nat
      BY <3>1 DEF NoCounts
    <3> QED BY <3>1, <3>2 DEF Rises
  <2>3. log'[Len(log')] = e /\ Len(log') > 0 /\ snapAt' = e.at /\ snapAt' <= now'
    BY <1>1, <1>2, <1>4, <1>9, <1>14
  <2>4. \A s \in log'[Len(log')].listed : \E c \in conns' : c.LocalPort = s
    BY <1>13, <1>14, <2>3
  <2>5. \A s \in Sockets : Rises(log'[Len(log')].kernel[s], kernel'[s])
    BY <1>4, <2>2, <2>3
  <2> QED BY <2>1, <2>3, <2>4, <2>5 DEF SnapshotIs
<1>17. HostIs'
  <2>1. HostCounters(counts) \in [want : Int, backlog : Int] /\ HostCounters(counts) # None
    BY HostCountersAre
  <2>2. sysCur' # None => sysCur' \in [want : Int, backlog : Int]
    BY <2>1 DEF SignalsInv, HostIs
  <2>3. log'[Len(log')] = e /\ Len(log') > 0
    BY <1>9, <1>14
  <2>4. PICK seen : seen = HostCounters(counts)
    OBVIOUS
  <2>5. seen.want \in Int /\ seen.backlog \in Int
    BY <2>1, <2>4
  <2>6. a.sys => sysCur' # None /\ seen.want <= sysCur'.want /\ seen.backlog <= sysCur'.backlog
    BY <2>1, <2>4, <2>5
  <2>7. ASSUME AnswersSuffice, sysCur' # None
        PROVE  sysCur'.want <= seen.want /\ sysCur'.backlog <= seen.backlog
    <3>1. CASE a.sys
      BY <2>4, <2>5, <3>1
    <3>2. CASE ~a.sys
      <4>1. PICK last : last = log[Len(log)]
        OBVIOUS
      <4>2. PICK old : old = HostCounters(last.kernel)
        OBVIOUS
      <4>3. sysCur' = sysCur
        BY <3>2
      <4>4. Len(log) > 0 /\ sysCur.want <= old.want /\ sysCur.backlog <= old.backlog
        BY <2>7, <4>1, <4>2, <4>3 DEF SignalsInv, HostIs
      <4>5. last.kernel \in [Sockets -> Amounts] /\ \A s \in Sockets : Rises(last.kernel[s], counts[s])
        <5>1. log \in Seq(Snap)
          BY <1>1 DEF KernelIs, LogIs
        <5>2. last \in Snap
          BY <4>1, <4>4, <5>1
        <5>3. last.kernel \in [Sockets -> Amounts]
          BY <5>2 DEF Snap
        <5>4. ASSUME NEW s \in Sockets
              PROVE  Rises(last.kernel[s], counts[s])
          <6>1. Rises(last.kernel[s], kernel[s])
            BY <1>1, <4>1, <4>4 DEF SnapshotIs
          <6>2. last.kernel[s] \in Amounts /\ kernel[s] \in Amounts /\ counts[s] \in Amounts
            BY <1>1, <5>3 DEF KernelIs
          <6>3. Rises(kernel[s], counts[s])
            OBVIOUS
          <6> QED BY <6>1, <6>2, <6>3, RisesOn
        <5> QED BY <5>3, <5>4
      <4>6. HostCounters(last.kernel).want <= HostCounters(counts).want
            /\ HostCounters(last.kernel).backlog <= HostCounters(counts).backlog
        BY <4>5, HostGrows
      <4>7. HostCounters(last.kernel) \in [want : Int, backlog : Int]
        BY <4>5, HostCountersAre
      <4>8. sysCur \in [want : Int, backlog : Int]
        BY <2>7, <4>3 DEF SignalsInv, HostIs
      <4>9. old.want <= seen.want /\ old.backlog <= seen.backlog
        BY <2>4, <4>2, <4>6
      <4>10. /\ old.want \in Int /\ old.backlog \in Int /\ sysCur.want \in Int /\ sysCur.backlog \in Int
        BY <4>2, <4>7, <4>8
      <4> QED BY <2>5, <4>3, <4>4, <4>9, <4>10
    <3> QED BY <3>1, <3>2
  <2>8. AnswersSuffice' <=> AnswersSuffice
    BY DEF AnswersSuffice, Answered
  <2>9. HostCounters(log'[Len(log')].kernel) = seen /\ (log'[Len(log')].sys => a.sys)
    BY <1>4, <2>3, <2>4
  <2> QED BY <2>2, <2>3, <2>6, <2>7, <2>8, <2>9 DEF HostIs
<1>18. HistoryIs'
  <2>1. QueuesAre(new)
    <3>1. IsFiniteSet(ds) /\ \A r \in ds : DOMAIN r = Fields
      <4>1. cs = FillOmittedZeros(Listed(Rows(counts, growth), a))
        OBVIOUS
      <4>2. IsFiniteSet(cs) /\ IsFiniteSet(WithHostDrops(cs, cur, prev))
        BY <4>1, ReadsAreFinite
      <4>3. ds = cs \/ ds = WithHostDrops(cs, cur, prev)
        OBVIOUS
      <4>4. IsFiniteSet(ds)
        BY <4>2, <4>3
      <4> QED BY <1>10, <4>4 DEF Read, Base
    <3>2. QueuesAre(AddSnapshotAt(ds, from, to))
      BY <3>1, QueuesHold
    <3> QED BY <1>11, <3>2
  <2>2. (QueuesAre(conns))'
    BY <1>14, <2>1 DEF QueuesAre, Peers, Queued
  <2>3. ASSUME NEW k \in 2 .. Len(m)
        PROVE  \E x \in scene.gaps : m[k].at - m[k - 1].at >= x
    <3>1. Len(m) = Len(log) + 1 /\ Len(log) \in Nat /\ \A j \in 1 .. Len(log) : m[j] = log[j]
      BY <1>9 DEF Extends
    <3>2. CASE k = Len(m)
      <4>1. k - 1 = Len(log) /\ Len(log) > 0 /\ m[k - 1] = log[Len(log)]
        BY <3>1, <3>2
      <4>2. m[k].at = now + gap /\ m[k - 1].at = snapAt /\ snapAt <= now
        BY <1>1, <1>2, <1>4, <1>9, <3>2, <4>1 DEF SnapshotIs
      <4>3. snapAt \in Nat
        <5>1. log \in Seq(Snap)
          BY <1>1 DEF KernelIs, LogIs
        <5>2. log[Len(log)] \in Snap
          BY <4>1, <5>1
        <5> QED BY <1>1, <4>1, <5>2 DEF Snap, SnapshotIs
      <4>4. m[k].at - m[k - 1].at >= gap
        BY <1>1, <4>2, <4>3
      <4> QED BY <4>4
    <3>3. CASE k # Len(m)
      <4>1. k \in 2 .. Len(log) /\ m[k] = log[k] /\ m[k - 1] = log[k - 1]
        BY <3>1, <3>3
      <4> QED BY <4>1 DEF SignalsInv, HistoryIs
    <3> QED BY <3>2, <3>3
  <2>4. \A k \in 2 .. Len(log') : \E x \in scene'.gaps : log'[k].at - log'[k - 1].at >= x
    BY <1>14, <2>3
  <2> QED BY <2>2, <2>4 DEF HistoryIs
<1> QED BY <1>15, <1>16, <1>17, <1>18 DEF SignalsInv

-----------------------------------------------------------------------------
(* and so does every step.                                                 *)
LEMMA SignalsStep == SignalsInv /\ [Next]_vars => SignalsInv'
<1>1. ASSUME SignalsInv, Next
      PROVE  SignalsInv'
  <2>1. PICK gap \in scene.gaps, a \in scene.answers,
             growth \in {g \in [Sockets -> UNION {scene.growth[s] : s \in Sockets}] :
                           \A s \in Sockets : g[s] \in scene.growth[s]} : Poll(gap, growth, a)
    BY Zenon, <1>1 DEF Next
  <2>2. growth \in [Sockets -> Growth] /\ \A s \in Sockets : growth[s].want <= growth[s].drops
    <3>1. growth \in [Sockets -> UNION {scene.growth[s] : s \in Sockets}]
          /\ \A s \in Sockets : growth[s] \in scene.growth[s]
      OBVIOUS
    <3>2. scene \in Scenes
      BY <1>1 DEF SignalsInv, KernelIs
    <3> QED BY <3>1, <3>2, GrowthIs
  <2>3. PICK counts, rows, cs, cur, prev, ds :
           /\ counts \in [Sockets -> Amounts] /\ (\A s \in Sockets : Rises(kernel[s], counts[s]))
           /\ rows = Rows(counts, growth)
           /\ cs = FillOmittedZeros(Listed(rows, a))
           /\ cur = IF a.sys THEN HostCounters(counts) ELSE sysCur
           /\ prev = IF a.sys THEN sysCur ELSE sysPrev
           /\ ds = IF a.sys /\ prev # None THEN WithHostDrops(cs, cur, prev) ELSE cs
           /\ now' = now + gap /\ gap \in Nat \ {0} /\ a.sys \in BOOLEAN
           /\ scene' = scene /\ kernel' = counts /\ sysCur' = cur /\ sysPrev' = prev
           /\ Failed(rows, a) => UNCHANGED <<conns, snapAt, log>>
           /\ ~Failed(rows, a) =>
                /\ conns' = AddSnapshotAt(ds, snapAt, now') /\ snapAt' = now'
                /\ log' = Append(log, [at |-> now', kernel |-> counts, found |-> growth,
                                       listed |-> Ports(cs), sys |-> a.sys])
    BY <1>1, <2>1, <2>2, PollIs DEF SignalsInv
  <2>4. Failed(Rows(counts, growth), a) => SignalsInv'
    BY <1>1, <2>2, <2>3, FailedPollKeeps
  <2>5. ~Failed(Rows(counts, growth), a) => SignalsInv'
    <3>1. SUFFICES ASSUME ~Failed(Rows(counts, growth), a)
                   PROVE  SignalsInv'
      OBVIOUS
    <3>2. ~Failed(rows, a)
      BY <2>3, <3>1
    <3>3. conns' = AddSnapshotAt(ds, snapAt, now') /\ snapAt' = now'
      BY <2>3, <3>2
    <3>4. log' = Append(log, [at |-> now', kernel |-> counts, found |-> growth, listed |-> Ports(cs), sys |-> a.sys])
      BY <2>3, <3>2
    <3>5. gap \in Nat \ {0} /\ counts \in [Sockets -> Amounts] /\ (\A s \in Sockets : Rises(kernel[s], counts[s]))
          /\ a.sys \in BOOLEAN
      BY <2>3
    <3>6. /\ rows = Rows(counts, growth) /\ cs = FillOmittedZeros(Listed(rows, a))
          /\ cur = IF a.sys THEN HostCounters(counts) ELSE sysCur
          /\ prev = IF a.sys THEN sysCur ELSE sysPrev
          /\ ds = IF a.sys /\ prev # None THEN WithHostDrops(cs, cur, prev) ELSE cs
      BY <2>3
    <3>7. now' = now + gap /\ scene' = scene /\ kernel' = counts /\ sysCur' = cur
      BY <2>3
    <3> QED BY ONLY <1>1, <2>2, <3>3, <3>4, <3>5, <3>6, <3>7, StoredPollKeeps
  <2> QED BY <2>4, <2>5
<1>2. ASSUME SignalsInv, UNCHANGED vars
      PROVE  SignalsInv'
  <2>1. KernelIs' /\ HostIs'
    BY <1>2 DEF SignalsInv, KernelIs, HostIs, vars, AnswersSuffice, Answered
  <2>2. scene' = scene /\ log' = log /\ conns' = conns /\ kernel' = kernel /\ snapAt' = snapAt /\ now' = now
    BY <1>2 DEF vars
  <2>3. Len(log) > 0 => (\A c \in conns : ConnIs(c, log))'
    <3>1. PICK m, cs : m = log /\ cs = conns
      OBVIOUS
    <3>2. Len(log) > 0 => \A c \in cs : ConnIs(c, m)
      BY <1>2, <3>1 DEF SignalsInv, SnapshotIs
    <3>3. log' = m /\ conns' = cs
      BY <2>2, <3>1
    <3> QED BY <2>2, <3>2, <3>3, ConnsStay
  <2>4. SnapshotIs'
    BY <1>2, <2>2, <2>3 DEF SignalsInv, SnapshotIs
  <2>5. HistoryIs'
    BY <1>2, <2>2, HistoryStays DEF SignalsInv
  <2> QED BY <2>1, <2>4, <2>5 DEF SignalsInv
<1> QED BY <1>1, <1>2

(* Every state of every run satisfies the invariant.                       *)
THEOREM SignalsSafe == Spec => []SignalsInv
BY SignalsInit, SignalsStep, PTL DEF Spec

-----------------------------------------------------------------------------
(* What is known of a socket listed in two snapshots.                      *)
LEMMA JudgedIs ==
  ASSUME SignalsInv, NEW c \in JudgedTcp
  PROVE  /\ LogIs(log) /\ Len(log) \in Nat /\ Len(log) > 1 /\ snapAt = log[Len(log)].at
         /\ c.LocalPort \in Sockets \ UdpSockets
         /\ TcpIs(c, log, c.LocalPort) /\ Measured(c, log, c.LocalPort)
         /\ c.Protocol = "tcp" /\ c.State = "ESTAB"
         /\ Base(c, log[Len(log)].kernel[c.LocalPort], log[Len(log)].found[c.LocalPort])
<1>1. LogIs(log) /\ log \in Seq(Snap)
  BY DEF SignalsInv, KernelIs, LogIs
<1>2. Len(log) \in Nat /\ Len(log) > 1 /\ c.LocalPort \in log[Len(log) - 1].listed /\ c \in conns /\ c.Protocol = "tcp"
  BY <1>1 DEF JudgedTcp, Judged, Last
<1>3. snapAt = log[Len(log)].at /\ ConnIs(c, log)
  BY <1>2 DEF SignalsInv, SnapshotIs
<1>4. /\ c.LocalPort \in Sockets /\ TcpIs(c, log, c.LocalPort)
      /\ Base(c, log[Len(log)].kernel[c.LocalPort], log[Len(log)].found[c.LocalPort])
  BY <1>2, <1>3 DEF ConnIs
<1>5. c.LocalPort \notin UdpSockets /\ c.State = "ESTAB"
  BY <1>2, <1>4 DEF Base, Shows
<1>6. Measured(c, log, c.LocalPort)
  BY <1>2, <1>4 DEF TcpIs
<1> QED BY <1>1, <1>2, <1>3, <1>4, <1>5, <1>6

(* The properties speak of the same growth,                                *)
LEMMA DidIs == \A k, s, f : Did(k, s, f) = Grew(log, k, s, f)
BY DEF Did, Grew

(* and of the same printing.                                               *)
LEMMA PrintedIs == \A k, f : Printed(k, f) <=> PrintedIn(log, k, f)
BY DEF Printed, PrintedIn

(* A delta is what the counter grew by between the two snapshots.          *)
THEOREM DeltasSafety == Spec => []DeltasAreGrowth
<1>1. ASSUME SignalsInv, NEW c \in JudgedTcp
      PROVE  /\ c.DeltaBytesSent \in {None, Did(Last, c.LocalPort, "sent")}
             /\ c.DeltaBytesRetrans \in {None, Did(Last, c.LocalPort, "retrans")}
             /\ c.DeltaDataSegsIn \in {None, Did(Last, c.LocalPort, "data")}
             /\ Printed(Last - 1, "sent") /\ Printed(Last, "sent") =>
                  c.DeltaBytesSent # None /\ c.DeltaBytesRetrans # None
             /\ Printed(Last - 1, "data") /\ Printed(Last, "data") => c.DeltaDataSegsIn # None
             /\ ~scene.counters =>
                  c.DeltaBytesSent = None /\ c.DeltaBytesRetrans = None /\ c.DeltaDataSegsIn = None
  <2>1. Measured(c, log, c.LocalPort)
    BY <1>1, JudgedIs
  <2> QED BY <2>1, DidIs, PrintedIs DEF Measured, Last
<1>2. SignalsInv => DeltasAreGrowth
  BY <1>1 DEF DeltasAreGrowth
<1> QED BY <1>2, SignalsSafe, PTL

(* What TCP discards by design is no fault while no socket of the host     *)
(* lost data.                                                              *)
THEOREM DiscardsSafety == Spec => []DesignedDiscardsAreInfo
<1>1. ASSUME SignalsInv, NEW c \in JudgedTcp, log[Last - 1].sys, log[Last].sys,
             sysPrev = HostCounters(log[Last - 1].kernel), sysCur.want = sysPrev.want
      PROVE  ~Warned(c, "DROPS")
  <2>1. /\ Len(log) \in Nat /\ Len(log) > 1 /\ LogIs(log) /\ TcpIs(c, log, c.LocalPort)
        /\ c.Protocol = "tcp" /\ c.State = "ESTAB"
    BY <1>1, JudgedIs
  <2>2. PICK n, new, old : /\ n = Len(log) /\ new = HostCounters(log[n].kernel)
                           /\ old = HostCounters(log[n - 1].kernel)
    OBVIOUS
  <2>3. c.HostBufferDrops = FALSE \/ (c.HostBufferDrops = TRUE /\ new.want > old.want)
    BY <1>1, <2>1, <2>2 DEF TcpIs, HostSays, Last
  <2>4. new.want <= sysCur.want
    BY <1>1, <2>1, <2>2 DEF SignalsInv, HostIs, Last
  <2>5. new.want \in Int /\ old.want \in Int
    <3>1. n \in 1 .. Len(log) /\ n - 1 \in 1 .. Len(log)
      BY <2>1, <2>2
    <3>2. log[n].kernel \in [Sockets -> Amounts] /\ log[n - 1].kernel \in [Sockets -> Amounts]
      <4>1. log[n] \in Snap /\ log[n - 1] \in Snap
        BY <2>1, <3>1 DEF LogIs
      <4> QED BY <4>1 DEF Snap
    <3>3. HostCounters(log[n].kernel) \in [want : Int, backlog : Int]
      BY <3>2, HostCountersAre
    <3>4. HostCounters(log[n - 1].kernel) \in [want : Int, backlog : Int]
      BY <3>2, HostCountersAre
    <3> QED BY <2>2, <3>3, <3>4
  <2>6. old.want = sysCur.want
    BY <1>1, <2>2 DEF Last
  <2>7. c.HostBufferDrops = FALSE
    BY <2>3, <2>4, <2>5, <2>6
  <2>8. Warned(c, "DROPS") => ~(Known(c.HostBufferDrops) /\ ~c.HostBufferDrops)
    BY <2>1, SignalsSay DEF TcpIs
  <2> QED BY <2>7, <2>8, NoneIsNoNumber DEF Known
<1>2. SignalsInv => DesignedDiscardsAreInfo
  BY <1>1 DEF DesignedDiscardsAreInfo
<1> QED BY <1>2, SignalsSafe, PTL

(* A loss for want of buffer is told, whatever else happens, where         *)
(* whenever /proc is read ss lists something.                              *)
THEOREM BlameSafety ==
  ASSUME AnswersSuffice
  PROVE  Spec => []BufferDropsAreBlamed
<1>1. ASSUME SignalsInv, NEW c \in JudgedTcp, Did(Last, c.LocalPort, "want") > 0,
             Did(Last, c.LocalPort, "data") > 0, Did(Last, c.LocalPort, "ooo") = 0,
             \/ log[Last].found[c.LocalPort].recvq * 4 >= c.SkmemRB
             \/ Did(Last, c.LocalPort, "backlog") > 0
      PROVE  Warned(c, "DROPS")
  <2>1. PICK s, n : s = c.LocalPort /\ n = Len(log)
    OBVIOUS
  <2>2. PICK i, j, g : i = log[n - 1].kernel /\ j = log[n].kernel /\ g = log[n].found[s]
    OBVIOUS
  <2>3. /\ n \in Nat /\ n > 1 /\ LogIs(log) /\ s \in Sockets \ UdpSockets /\ TcpIs(c, log, s)
        /\ c.Protocol = "tcp" /\ c.State = "ESTAB" /\ Measured(c, log, s)
        /\ Base(c, j[s], g)
    BY <1>1, <2>1, <2>2, JudgedIs
  <2>4. n - 1 \in 1 .. Len(log) /\ n \in 1 .. Len(log)
    BY <2>1, <2>3
  <2>5. i \in [Sockets -> Amounts] /\ j \in [Sockets -> Amounts] /\ log[n].found \in [Sockets -> Growth]
    <3>1. log[n] \in Snap /\ log[n - 1] \in Snap
      BY <2>3, <2>4 DEF LogIs
    <3> QED BY <2>2, <3>1 DEF Snap
  <2>6. \A x \in Sockets : Rises(i[x], j[x])
    BY <2>2, <2>3, <2>4 DEF LogIs
  <2>7. \A f \in DOMAIN NoCounts : i[s][f] \in Nat /\ j[s][f] \in Nat /\ Grew(log, n, s, f) = j[s][f] - i[s][f]
    BY <2>2, <2>3, <2>5 DEF Grew, Amounts
  <2>8. {"want", "data", "ooo", "backlog", "drops"} \subseteq DOMAIN NoCounts
    BY DEF NoCounts
  <2>9. j[s]["want"] - i[s]["want"] > 0 /\ j[s]["data"] - i[s]["data"] > 0 /\ j[s]["ooo"] - i[s]["ooo"] = 0
    BY <1>1, <2>1, <2>2 DEF Did, Last
  <2>10. j[s]["drops"] - i[s]["drops"] > 0
    <3>1. j[s]["want"] - i[s]["want"] <= j[s]["drops"] - i[s]["drops"]
      BY <2>3, <2>6 DEF Rises
    <3> QED BY <2>7, <2>8, <2>9, <3>1
  <2>11. c.DeltaSkmemD \in Nat \ {0}
    <3>1. c.DeltaSkmemD = Grew(log, n, s, "drops")
      BY <2>1, <2>3 DEF Measured
    <3> QED BY <2>7, <2>8, <2>10, <3>1
  <2>12. ~NoDataArrived(c)
    <3>1. c.DeltaDataSegsIn \in {None, Grew(log, n, s, "data")}
      BY <2>1, <2>3 DEF Measured
    <3>2. c.DeltaDataSegsIn # 0
      BY <2>7, <2>8, <2>9, <3>1, NoneIsNoNumber
    <3>3. j[s]["data"] > 0
      BY <2>7, <2>8, <2>9
    <3>4. scene.counters => c.DataSegsIn # None
      BY <2>3, <3>3 DEF Base, Counts
    <3>5. ~scene.counters => c.SegsIn = None
      BY <2>3 DEF Base, Counts
    <3> QED BY <3>2, <3>4, <3>5 DEF NoDataArrived, Known
  <2>13. ~Above(c.DeltaRcvOOOPack, 0)
    <3>1. c.DeltaRcvOOOPack \in {None, Grew(log, n, s, "ooo")}
      BY <2>1, <2>3 DEF Measured
    <3> QED BY <2>7, <2>8, <2>9, <3>1 DEF Above
  <2>14. HostSays(c, log)
    BY <2>3 DEF TcpIs
  <2>15. c.HostBufferDrops \in {None, TRUE}
    <3>1. HostCounters(i).want < HostCounters(j).want
      <4>1. i[s]["want"] < j[s]["want"]
        BY <2>7, <2>8, <2>9
      <4> QED BY <2>3, <2>5, <2>6, <4>1, HostGrows
    <3>2. HostCounters(j).want > HostCounters(i).want
      BY <3>1
    <3> QED BY <2>1, <2>2, <2>3, <2>14, <3>2 DEF HostSays
  <2>16. CASE Did(Last, c.LocalPort, "backlog") > 0
    <3>1. i[s]["backlog"] < j[s]["backlog"]
      <4>1. j[s]["backlog"] - i[s]["backlog"] > 0
        BY <2>1, <2>2, <2>16 DEF Did, Last
      <4> QED BY <2>7, <2>8, <4>1
    <3>2. HostCounters(i).backlog < HostCounters(j).backlog
      BY <2>3, <2>5, <2>6, <3>1, HostGrows
    <3>3. HostCounters(j).backlog > HostCounters(i).backlog
      BY <3>2
    <3>4. c.HostBacklogDrops \in {None, TRUE}
      BY <2>1, <2>2, <2>3, <2>14, <3>3 DEF HostSays
    <3>5. ~OwnDiscards(c)
      BY <2>15, <3>4, NoneIsNoNumber DEF OwnDiscards, Known
    <3> QED BY <2>3, <2>11, <2>12, <2>13, <3>5, SignalsSay DEF TcpIs
  <2>17. CASE log[Last].found[c.LocalPort].recvq * 4 >= c.SkmemRB
    <3>1. c.SkmemR = g.recvq /\ c.SkmemRB = 100
      BY <2>3 DEF Base, Shows
    <3>2. g.recvq * 4 >= c.SkmemRB /\ g.recvq \in Nat
      BY <2>1, <2>2, <2>3, <2>5, <2>17 DEF Last, Growth
    <3>3. ~Roomy(c)
      BY <3>1, <3>2 DEF Roomy
    <3>4. ~OwnDiscards(c)
      BY <2>15, <3>3, NoneIsNoNumber DEF OwnDiscards, Known
    <3> QED BY <2>3, <2>11, <2>12, <2>13, <3>4, SignalsSay DEF TcpIs
  <2> QED BY <1>1, <2>16, <2>17
<1>2. SignalsInv => BufferDropsAreBlamed
  BY <1>1 DEF BufferDropsAreBlamed
<1> QED BY <1>2, SignalsSafe, PTL

(* The queue limit of a path with a minimum RTT of 10 ms.                  *)
LEMMA LimitIs == QueueLimit(10) = 4 /\ Min({10}) = 10 /\ Min({10, 10}) = 10
<1>1. QueueLimit(10) = Max({4, 1})
  BY DEF QueueLimit
<1>2. Max({4, 1}) = 4
  BY DEF Max
<1>3. Min({10}) = 10
  BY DEF Min
<1> QED BY <1>1, <1>2, <1>3

(* Nothing was moved in no slots.                                          *)
LEMMA NothingSummed == \A f : SumOf(<<>>, f) = 0
<1>1. ASSUME NEW f
      PROVE  SumOf(<<>>, f) = 0
  <2>1. PICK g : g = [i \in DOMAIN <<>> |-> <<>>[i][f]]
    OBVIOUS
  <2>2. DOMAIN g = {}
    BY <2>1
  <2>3. SumFunctionOnSet(g, {}) = 0
    BY SumEmpty
  <2> QED BY <2>1, <2>2, <2>3, Zenon DEF SumOf, SumFunction
<1> QED BY <1>1

(* The window of the slots.                                                *)
LEMMA WindowStart ==
  ASSUME SignalsInv, NEW c \in JudgedTcp
  PROVE  /\ snapAt - SlotWindow \in Int
         /\ c.SendSlots # <<>> => c.SendSlots[1].start >= snapAt - SlotWindow
         /\ c.RecvSlots # <<>> => c.RecvSlots[1].start >= snapAt - SlotWindow
         /\ Recent = Late(log, snapAt - SlotWindow)
<1>1. /\ LogIs(log) /\ Len(log) \in Nat /\ Len(log) > 1 /\ snapAt = log[Len(log)].at /\ TcpIs(c, log, c.LocalPort)
  BY JudgedIs
<1>2. snapAt \in Nat
  <2>1. log[Len(log)] \in Snap
    BY <1>1 DEF LogIs
  <2> QED BY <1>1, <2>1 DEF Snap
<1>3. snapAt - SlotWindow \in Int
  BY <1>2, WindowIs
<1>4. /\ c.SendSlots # <<>> => c.SendSlots[1].start >= snapAt - SlotWindow
      /\ c.RecvSlots # <<>> => c.RecvSlots[1].start >= snapAt - SlotWindow
  BY <1>1 DEF TcpIs
<1>5. Recent = Late(log, snapAt - SlotWindow)
  BY Zenon DEF Recent, Late, Last
<1> QED BY <1>3, <1>4, <1>5

(* The tests of steadyRetrans, on the slots of what was sent,              *)
LEMMA PathLossIsSteady ==
  ASSUME SignalsInv, NEW c \in JudgedTcp, Warned(c, "PATH_LOSS"),
         NEW since, since = snapAt - SlotWindow, NEW s, s = c.LocalPort
  PROVE  /\ Cardinality({k \in Late(log, since) : Grew(log, k, s, "retrans") > 0}) >= 2
         /\ Cardinality({k \in Late(log, since) : Grew(log, k, s, "sent") > 0} \cap Short(log, s)) >= 3
<1>1. /\ LogIs(log) /\ s \in Sockets /\ TcpIs(c, log, s) /\ c.Protocol = "tcp" /\ c.State = "ESTAB"
      /\ Base(c, log[Len(log)].kernel[s], log[Len(log)].found[s])
  BY JudgedIs
<1>2. since \in Int /\ (c.SendSlots # <<>> => c.SendSlots[1].start >= since)
  BY WindowStart
<1>3. PathLoss(c) > 0
  BY <1>1, SignalsSay DEF TcpIs
<1>4. PICK slots, done : slots = c.SendSlots /\ done = CompleteSlots(slots)
  OBVIOUS
<1>5. Steady(c, done)
  BY <1>3, <1>4 DEF PathLoss
<1>6. done # <<>>
  BY <1>5, NothingSummed DEF Steady
<1>7. c.MinRTT = 10 /\ c.CongAlgo = None
  BY <1>1 DEF Base, Shows
<1>8. /\ SlotsWith(done, "retrans") * 2 >= Len(done)
      /\ SamplesBelow(done, "queue", 4) > Samples(done, "queue") \div 2
  <2>1. ~Known(c.CongAlgo)
    BY <1>7 DEF Known
  <2> QED BY <1>5, <1>7, <2>1, LimitIs DEF Steady
<1>9. PICK w : w = Sending
  OBVIOUS
<1>10. w \in Ways /\ w.loss = "retrans" /\ w.samples = "queue" /\ w.base = 0 /\ w.counter = "sent"
  BY <1>9 DEF Ways, Sending
<1>11. SlotsAre(slots, log, s, w) /\ (slots # <<>> => slots[1].start >= since)
  BY <1>1, <1>2, <1>4, <1>9 DEF TcpIs
<1>12. SlotsWith(done, w.loss) * 2 >= Len(done)
  BY <1>8, <1>10
<1>13. Cardinality({k \in Late(log, since) : Grew(log, k, s, w.loss) > 0}) >= 2
  BY ONLY <1>1, <1>2, <1>4, <1>6, <1>10, <1>11, <1>12, LossInTwoPolls
<1>14. /\ Samples(done, w.samples) \in Nat /\ Samples(done, w.samples) >= 4
       /\ SamplesBelow(done, w.samples, w.base + 4) \in Nat
       /\ SamplesBelow(done, w.samples, w.base + 4) >= 3 =>
            Cardinality({k \in Late(log, since) : Grew(log, k, s, w.counter) > 0} \cap Short(log, s)) >= 3
  BY ONLY <1>1, <1>2, <1>4, <1>6, <1>10, <1>11, ShortInThreePolls
<1>15. w.base + 4 = 4
  BY <1>10
<1>16. SamplesBelow(done, "queue", 4) >= 3
  <2>1. PICK x, y : x = Samples(done, "queue") /\ y = SamplesBelow(done, "queue", 4)
    OBVIOUS
  <2>2. x \in Nat /\ x >= 4 /\ y \in Nat /\ y > x \div 2
    BY <1>8, <1>10, <1>14, <1>15, <2>1
  <2> QED BY <2>1, <2>2
<1> QED BY <1>10, <1>13, <1>14, <1>15, <1>16

(* and those of inboundGaps, on the slots of what was received.            *)
LEMMA InboundLossIsSteady ==
  ASSUME SignalsInv, NEW c \in JudgedTcp, Warned(c, "RX_LOSS"),
         NEW since, since = snapAt - SlotWindow, NEW s, s = c.LocalPort
  PROVE  /\ Cardinality({k \in Late(log, since) : Grew(log, k, s, "ooo") > 0}) >= 2
         /\ Cardinality({k \in Late(log, since) : Grew(log, k, s, "data") > 0} \cap Short(log, s)) >= 3
<1>1. /\ LogIs(log) /\ s \in Sockets /\ TcpIs(c, log, s) /\ c.Protocol = "tcp" /\ c.State = "ESTAB"
      /\ Base(c, log[Len(log)].kernel[s], log[Len(log)].found[s])
  BY JudgedIs
<1>2. since \in Int /\ (c.RecvSlots # <<>> => c.RecvSlots[1].start >= since)
  BY WindowStart
<1>3. InboundLoss(c) > 0
  BY <1>1, SignalsSay DEF TcpIs
<1>4. PICK slots, done : slots = c.RecvSlots /\ done = CompleteSlots(slots)
  OBVIOUS
<1>5. Gappy(c, done)
  BY <1>3, <1>4 DEF InboundLoss
<1>6. done # <<>>
  BY <1>5 DEF Gappy
<1>7. c.MinRTT = 10 /\ c.PathMinRTT \in {None, 10}
  BY <1>1 DEF Base, Shows, TcpIs
<1>8. PICK base : base = IF Known(c.PathMinRTT) THEN Min({c.MinRTT, c.PathMinRTT}) ELSE c.MinRTT
  OBVIOUS
<1>9. base = 10
  BY <1>7, <1>8, LimitIs DEF Known
<1>10. /\ SlotsWith(done, "ooo") * 2 >= Len(done)
       /\ SamplesBelow(done, "rtts", base + QueueLimit(base)) > (Samples(done, "rtts") * 3) \div 4
  BY <1>5, <1>8 DEF Gappy
<1>11. PICK w : w = Receiving
  OBVIOUS
<1>12. w \in Ways /\ w.loss = "ooo" /\ w.samples = "rtts" /\ w.base = 10 /\ w.counter = "data"
  BY <1>11 DEF Ways, Receiving
<1>13. SlotsAre(slots, log, s, w) /\ (slots # <<>> => slots[1].start >= since)
  BY <1>1, <1>2, <1>4, <1>11 DEF TcpIs
<1>14. SlotsWith(done, w.loss) * 2 >= Len(done)
  BY <1>10, <1>12
<1>15. Cardinality({k \in Late(log, since) : Grew(log, k, s, w.loss) > 0}) >= 2
  BY ONLY <1>1, <1>2, <1>4, <1>6, <1>12, <1>13, <1>14, LossInTwoPolls
<1>16. /\ Samples(done, w.samples) \in Nat /\ Samples(done, w.samples) >= 4
       /\ SamplesBelow(done, w.samples, w.base + 4) \in Nat
       /\ SamplesBelow(done, w.samples, w.base + 4) >= 3 =>
            Cardinality({k \in Late(log, since) : Grew(log, k, s, w.counter) > 0} \cap Short(log, s)) >= 3
  BY ONLY <1>1, <1>2, <1>4, <1>6, <1>12, <1>13, ShortInThreePolls
<1>17. w.base + 4 = base + QueueLimit(base)
  BY <1>9, <1>12, LimitIs
<1>18. SamplesBelow(done, w.samples, w.base + 4) >= 3
  <2>1. PICK x, y : x = Samples(done, w.samples) /\ y = SamplesBelow(done, w.samples, w.base + 4)
    OBVIOUS
  <2>2. x \in Nat /\ x >= 4 /\ y \in Nat /\ y > (x * 3) \div 4
    BY <1>10, <1>12, <1>16, <1>17, <2>1
  <2> QED BY <2>1, <2>2
<1> QED BY <1>12, <1>15, <1>16, <1>18

(* PATH_LOSS and RX_LOSS speak of loss in several polls of the window, and *)
(* of data that moved past no queue in three.                              *)
THEOREM LossSafety == Spec => []LossIsSteady
<1>1. ASSUME SignalsInv, NEW c \in JudgedTcp
      PROVE  LET in(s, f) == {k \in Recent : Did(k, s, f) > 0}
                 short == {k \in Recent : log[k].found[c.LocalPort].queue < 4}
             IN  /\ Warned(c, "PATH_LOSS") => /\ Cardinality(in(c.LocalPort, "retrans")) >= 2
                                              /\ Cardinality(in(c.LocalPort, "sent") \cap short) >= 3
                 /\ Warned(c, "RX_LOSS") => /\ Cardinality(in(c.LocalPort, "ooo")) >= 2
                                            /\ Cardinality(in(c.LocalPort, "data") \cap short) >= 3
  <2>1. PICK s, since : s = c.LocalPort /\ since = snapAt - SlotWindow
    OBVIOUS
  <2>2. PICK in : in = [f \in DOMAIN NoCounts |-> {k \in Recent : Did(k, s, f) > 0}]
    OBVIOUS
  <2>3. PICK short : short = {k \in Recent : log[k].found[s].queue < 4}
    OBVIOUS
  <2>4. Recent = Late(log, since)
    BY <1>1, <2>1, WindowStart
  <2>5. \A f \in DOMAIN NoCounts : in[f] = {k \in Late(log, since) : Grew(log, k, s, f) > 0}
    BY <2>2, <2>4, DidIs
  <2>6. short = Late(log, since) \cap Short(log, s)
    BY <2>3, <2>4 DEF Late, Short
  <2>7. \A f \in DOMAIN NoCounts :
          in[f] \cap short = {k \in Late(log, since) : Grew(log, k, s, f) > 0} \cap Short(log, s)
    BY <2>5, <2>6
  <2>8. {"retrans", "sent", "ooo", "data"} \subseteq DOMAIN NoCounts
    BY DEF NoCounts
  <2>9. ASSUME Warned(c, "PATH_LOSS")
        PROVE  Cardinality(in["retrans"]) >= 2 /\ Cardinality(in["sent"] \cap short) >= 3
    <3>1. /\ Cardinality({k \in Late(log, since) : Grew(log, k, s, "retrans") > 0}) >= 2
          /\ Cardinality({k \in Late(log, since) : Grew(log, k, s, "sent") > 0} \cap Short(log, s)) >= 3
      BY <1>1, <2>1, <2>9, PathLossIsSteady
    <3> QED BY <2>5, <2>7, <2>8, <3>1
  <2>10. ASSUME Warned(c, "RX_LOSS")
         PROVE  Cardinality(in["ooo"]) >= 2 /\ Cardinality(in["data"] \cap short) >= 3
    <3>1. /\ Cardinality({k \in Late(log, since) : Grew(log, k, s, "ooo") > 0}) >= 2
          /\ Cardinality({k \in Late(log, since) : Grew(log, k, s, "data") > 0} \cap Short(log, s)) >= 3
      BY <1>1, <2>1, <2>10, InboundLossIsSteady
    <3> QED BY <2>5, <2>7, <2>8, <3>1
  <2>11. \A f \in {"retrans", "sent", "ooo", "data"} : in[f] = {k \in Recent : Did(k, s, f) > 0}
    BY <2>2 DEF NoCounts
  <2> QED BY <2>1, <2>3, <2>9, <2>10, <2>11
<1>2. SignalsInv => LossIsSteady
  BY <1>1 DEF LossIsSteady
<1> QED BY <1>2, SignalsSafe, PTL

(* Slots hold what was sent since they began, and when polls are a slot    *)
(* apart they begin no later than the window does.                         *)
THEOREM WindowSafety == Spec => []SlotsHoldTheWindow
<1>1. ASSUME SignalsInv, NEW c \in JudgedTcp, NEW s, s = c.LocalPort, c.SendSlots # <<>>,
             NEW bulk, bulk = {k \in 2 .. Last : Did(k, s, "sent") >= SlotMinBytes}
      PROVE  SumOf(c.SendSlots, "sent")
               = SumFunction([k \in {k \in bulk : log[k - 1].at >= c.SendSlots[1].start} |-> Did(k, s, "sent")])
  <2>1. LogIs(log) /\ s \in Sockets /\ SlotsAre(c.SendSlots, log, s, Sending)
    BY <1>1, JudgedIs DEF TcpIs
  <2>2. PICK held : held = {k \in 2 .. Len(log) : Grew(log, k, s, "sent") >= SlotMinBytes
                                                  /\ log[k - 1].at >= c.SendSlots[1].start}
    OBVIOUS
  <2>3. held = {k \in bulk : log[k - 1].at >= c.SendSlots[1].start}
    BY <1>1, <2>2, DidIs DEF Last
  <2>6. held = {k \in Bulk(log, s, Sending) : log[k - 1].at >= c.SendSlots[1].start}
    <3>1. Sending.unit = 1 /\ Sending.counter = "sent"
      BY DEF Sending
    <3>2. \A k \in 2 .. Len(log) : Grew(log, k, s, "sent") \in Nat
      BY <2>1, GrewIsNat DEF NoCounts
    <3> QED BY <2>2, <3>1, <3>2 DEF Bulk
  <2>4. SumOf(c.SendSlots, "sent") = SumFunction([k \in held |-> Grew(log, k, s, "sent")])
    <3>1. PICK slots : slots = c.SendSlots
      OBVIOUS
    <3>2. SlotsAre(slots, log, s, Sending) /\ slots # <<>>
      BY <1>1, <2>1, <3>1
    <3>3. held = {k \in Bulk(log, s, Sending) : log[k - 1].at >= slots[1].start}
      BY <2>6, <3>1
    <3>5. PICK w, x, f : w = Sending /\ x = "sent" /\ f = "sent"
      OBVIOUS
    <3>6. w \in Ways /\ x = w.amount /\ f = w.counter /\ SlotsAre(slots, log, s, w)
      BY <3>2, <3>5, SendingIs
    <3>7. held = Held(log, s, w, slots)
      BY <3>3, <3>5 DEF Held
    <3>8. SumOf(slots, x) = Total(log, s, f, held)
      <4>1. (x = w.amount /\ f = w.counter) \/ (x = w.loss /\ f = w.loss)
        BY <3>6
      <4>2. LogIs(log) /\ s \in Sockets /\ w \in Ways /\ SlotsAre(slots, log, s, w) /\ slots # <<>>
        BY <2>1, <3>2, <3>6
      <4> QED BY ONLY <4>1, <4>2, <3>7, SlotsHold
    <3>4. SumOf(slots, "sent") = SumFunction([k \in held |-> Grew(log, k, s, "sent")])
      BY <3>5, <3>8 DEF Total
    <3> QED BY <3>1, <3>4
  <2>5. [k \in held |-> Grew(log, k, s, "sent")] = [k \in held |-> Did(k, s, "sent")]
    BY DidIs
  <2> QED BY <2>3, <2>4, <2>5
<1>2. ASSUME SignalsInv, NEW c \in JudgedTcp, NEW s, s = c.LocalPort,
             NEW k \in 2 .. Last, Did(k, s, "sent") >= SlotMinBytes, k \in Recent,
             \A j \in k .. Last : Printed(j - 1, "sent") /\ s \in log[j - 1].listed,
             \A gap \in scene.gaps : gap >= SlotMinMS
      PROVE  c.SendSlots # <<>> /\ c.SendSlots[1].start <= log[k - 1].at
  <2>1. /\ LogIs(log) /\ s \in Sockets /\ SlotsAre(c.SendSlots, log, s, Sending) /\ snapAt = log[Len(log)].at
        /\ SlotsReach(c.SendSlots, log, s, Sending)
    BY <1>2, JudgedIs DEF TcpIs
  <2>2. k \in Bulk(log, s, Sending)
    <3>1. Sending.unit = 1 /\ Sending.counter = "sent"
      BY DEF Sending
    <3>2. Grew(log, k, s, "sent") \in Nat
      BY <1>2, <2>1, GrewIsNat DEF Last, NoCounts
    <3> QED BY <1>2, <3>1, <3>2, DidIs DEF Bulk, Last
  <2>3. Chain(log, k, s, Sending)
    BY <1>2, PrintedIs, SendingIs DEF Chain, Last
  <2>4. log[k - 1].at >= log[Len(log)].at - SlotWindow
    BY <1>2, <2>1 DEF Recent
  <2>5. Begun(c.SendSlots, log[k - 1].at)
    BY <1>2, <2>1, <2>2, <2>3, <2>4 DEF SlotsReach
  <2>6. Sending \in Ways
    BY DEF Ways
  <2>7. PICK slots, at : slots = c.SendSlots /\ at = log[k - 1].at
    OBVIOUS
  <2>8. SlotsAre(slots, log, s, Sending) /\ Begun(slots, at)
    BY <2>1, <2>5, <2>7
  <2>9. slots # <<>> /\ slots[1].start <= at
    BY <2>1, <2>6, <2>8, BegunFirst
  <2> QED BY <2>7, <2>9
<1>3. SignalsInv => SlotsHoldTheWindow
  <2>1. SUFFICES ASSUME SignalsInv, NEW c \in JudgedTcp
                 PROVE  LET bulk == {k \in 2 .. Last : Did(k, c.LocalPort, "sent") >= SlotMinBytes}
                            held(from) == SumFunction([k \in {k \in bulk : log[k - 1].at >= from} |->
                                                         Did(k, c.LocalPort, "sent")])
                        IN  /\ c.SendSlots # <<>> => SumOf(c.SendSlots, "sent") = held(c.SendSlots[1].start)
                            /\ \A k \in bulk \cap Recent :
                                 (\A j \in k .. Last : Printed(j - 1, "sent") /\ c.LocalPort \in log[j - 1].listed)
                                 /\ (\A gap \in scene.gaps : gap >= SlotMinMS)
                                 => c.SendSlots # <<>> /\ c.SendSlots[1].start <= log[k - 1].at
    BY DEF SlotsHoldTheWindow
  <2>2. ASSUME c.SendSlots # <<>>
        PROVE  SumOf(c.SendSlots, "sent")
                 = SumFunction([k \in {k \in {k \in 2 .. Last : Did(k, c.LocalPort, "sent") >= SlotMinBytes} :
                                         log[k - 1].at >= c.SendSlots[1].start} |-> Did(k, c.LocalPort, "sent")])
    BY <1>1, <2>1, <2>2
  <2>3. ASSUME NEW k \in {k \in 2 .. Last : Did(k, c.LocalPort, "sent") >= SlotMinBytes} \cap Recent,
               \A j \in k .. Last : Printed(j - 1, "sent") /\ c.LocalPort \in log[j - 1].listed,
               \A gap \in scene.gaps : gap >= SlotMinMS
        PROVE  c.SendSlots # <<>> /\ c.SendSlots[1].start <= log[k - 1].at
    <3>1. k \in 2 .. Last /\ Did(k, c.LocalPort, "sent") >= SlotMinBytes /\ k \in Recent
      OBVIOUS
    <3> QED BY <1>2, <2>1, <2>3, <3>1
  <2> QED BY <2>2, <2>3
<1> QED BY <1>3, SignalsSafe, PTL

-----------------------------------------------------------------------------
(* What the loss signals say, against README.md.                           *)

(* The weight of some samples.                                             *)
LEMMA WeightIsNat ==
  ASSUME NEW X, IsFiniteSet(X), \A x \in X : x.weight \in Nat
  PROVE  WeightOf(X) \in Nat
<1>1. PICK w : w = [x \in X |-> x.weight]
  OBVIOUS
<1>2. \A x \in X : w[x] \in Nat
  BY <1>1
<1>3. WeightOf(X) = SumFunctionOnSet(w, X)
  BY <1>1, Zenon DEF WeightOf, SumFunction
<1> QED BY <1>2, <1>3, SumNat

(* A quantile of samples below a bound is below it.                        *)
LEMMA QuantileBelow ==
  ASSUME NEW X, IsFiniteSet(X), NEW bound \in Int,
         \A x \in X : x.weight \in Nat /\ x.value \in Int /\ x.value < bound,
         NEW num, NEW den, <<num, den>> \in {<<1, 2>>, <<3, 4>>}
  PROVE  LET q == WeightedQuantile(X, num, den) IN q = None \/ (q \in Int /\ q < bound)
<1> DEFINE upto(v) == {y \in X : y.value <= v}
           T == {x.value : x \in {x \in X : den * WeightOf(upto(x.value)) > num * WeightOf(X)}}
<1>1. WeightedQuantile(X, num, den) = IF WeightOf(X) = 0 THEN None ELSE Min(T)
  BY Zenon DEF WeightedQuantile
<1>2. WeightOf(X) \in Nat
  BY WeightIsNat
<1>3. ASSUME WeightOf(X) # 0
      PROVE  Min(T) \in Int /\ Min(T) < bound
  <2>1. X # {}
    <3>1. ASSUME X = {}
          PROVE  FALSE
      <4>1. PICK w : w = [x \in X |-> x.weight]
        OBVIOUS
      <4>2. DOMAIN w = {}
        BY <3>1, <4>1
      <4>3. WeightOf(X) = SumFunctionOnSet(w, {})
        BY <4>1, <4>2, Zenon DEF WeightOf, SumFunction
      <4> QED BY <1>3, <4>3, SumEmpty
    <3> QED BY <3>1
  <2>2. PICK V : V = {x.value : x \in X}
    OBVIOUS
  <2>3. V \in SUBSET Int /\ IsFiniteSet(V) /\ V # {}
    <3>1. PICK f : f = [x \in X |-> x.value]
      OBVIOUS
    <3>2. \A v \in V : \E x \in X : v = f[x]
      BY <2>2, <3>1
    <3>3. IsFiniteSet(V)
      BY <3>2, FiniteImage
    <3> QED BY <2>1, <2>2, <3>3
  <2>4. PICK top \in X : \A x \in X : x.value <= top.value
    <3>1. \E m \in V : \A n \in V : n <= m
      BY <2>3, Ends
    <3> QED BY <2>2, <3>1
  <2>5. upto(top.value) = X
    BY <2>4
  <2>6. den * WeightOf(X) > num * WeightOf(X)
    BY <1>2, <1>3
  <2>7. T # {} /\ T \subseteq V
    BY <2>2, <2>4, <2>5, <2>6
  <2> HIDE DEF T
  <2>8. T \in SUBSET Int /\ IsFiniteSet(T)
    BY <2>3, <2>7, FS_Subset
  <2>9. \E m \in T : \A n \in T : m <= n
    BY <2>7, <2>8, Ends
  <2>10. Min(T) \in T
    BY <2>9 DEF Min
  <2>11. Min(T) \in V
    BY <2>7, <2>10
  <2> QED BY <2>2, <2>11
<1> HIDE DEF T
<1> QED BY <1>1, <1>3

(* Slots whose samples all show a short queue.                             *)
Unqueued(slots, w) ==
  /\ IsFiniteSet(DOMAIN slots)
  /\ \A i \in DOMAIN slots :
       /\ slots[i][w.amount] \in Nat /\ slots[i][w.samples] \in Seq(Int) /\ slots[i][w.samples] # <<>>
       /\ \A j \in DOMAIN slots[i][w.samples] : slots[i][w.samples][j] < w.base + 4

(* When every poll since the first slot began found no queue, the slots    *)
(* show none.                                                              *)
LEMMA SlotsUnqueued ==
  ASSUME NEW l, LogIs(l), NEW s \in Sockets, NEW w \in Ways, NEW slots, SlotsAre(slots, l, s, w),
         NEW since \in Int, slots # <<>> => slots[1].start >= since, Late(l, since) \subseteq Short(l, s)
  PROVE  Unqueued(slots, w)
<1>1. PICK cut \in [1 .. Len(slots) + 1 -> 1 .. Len(l)] : Cuts(cut, slots, l, s, w)
  BY DEF SlotsAre
<1>2. PICK S : slots \in Seq(S)
  BY DEF SlotsAre
<1>3. DOMAIN slots = 1 .. Len(slots) /\ Len(slots) \in Nat /\ IsFiniteSet(DOMAIN slots)
  <2>1. DOMAIN slots = 1 .. Len(slots) /\ Len(slots) \in Nat
    BY <1>2
  <2>2. IsFiniteSet(1 .. Len(slots))
    BY <2>1, FS_Interval
  <2> QED BY <2>1, <2>2
<1>4. ASSUME NEW i \in 1 .. Len(slots)
      PROVE  /\ slots[i][w.amount] \in Nat /\ slots[i][w.samples] \in Seq(Int) /\ slots[i][w.samples] # <<>>
             /\ \A j \in DOMAIN slots[i][w.samples] : slots[i][w.samples][j] < w.base + 4
  <2>1. SlotIs(slots[i], l, s, w, cut[i], cut[i + 1])
    BY <1>1, <1>2, SlotPolls
  <2>2. \A k \in (cut[i] + 1) .. cut[i + 1] : k \in Late(l, since)
    BY <1>1, <1>2, SlotPolls
  <2>3. PICK T : T = Bulk(l, s, w) \cap ((cut[i] + 1) .. cut[i + 1])
    OBVIOUS
  <2>4. T \subseteq Late(l, since) /\ T \subseteq Short(l, s) /\ T \subseteq 2 .. Len(l)
    BY <2>2, <2>3 DEF Late
  <2>5. IsFiniteSet(T) /\ Cardinality(T) \in Nat
    BY <2>4, LateIsFinite
  <2>6. Bulk(l, s, w) \cap Short(l, s) \cap ((cut[i] + 1) .. cut[i + 1]) = T
    BY <2>3, <2>4
  <2>7. PICK q : q = slots[i][w.samples]
    OBVIOUS
  <2>8. q \in Seq(Int) /\ q # <<>> /\ Len(q) = Cardinality(T) /\ Cardinality(Below(q, w.base + 4)) = Cardinality(T)
    BY <2>1, <2>3, <2>6, <2>7 DEF SlotIs
  <2>9. PICK D : D = DOMAIN q
    OBVIOUS
  <2>10. IsFiniteSet(D) /\ Cardinality(D) = Len(q)
    <3>1. D = 1 .. Len(q) /\ Len(q) \in Nat
      BY <2>8, <2>9
    <3>2. PICK n : n = Len(q)
      OBVIOUS
    <3>3. n \in Nat /\ n > 0
      BY <2>8, <3>2
    <3>4. IsFiniteSet(1 .. n) /\ Cardinality(1 .. n) = n
      BY <3>3, UpTo
    <3> QED BY <3>1, <3>2, <3>4
  <2>11. Below(q, w.base + 4) \in SUBSET D
    BY <2>9 DEF Below
  <2>12. Below(q, w.base + 4) = D
    BY <2>8, <2>10, <2>11, FS_Subset
  <2>13. \A j \in DOMAIN q : q[j] < w.base + 4
    BY <2>9, <2>12 DEF Below
  <2>14. slots[i][w.amount] \in Nat
    <3>1. PICK v : v = Moves(l, s, w.counter)
      OBVIOUS
    <3>2. slots[i][w.amount] = SumFunctionOnSet(v, T)
      BY <2>1, <2>3, <3>1 DEF SlotIs
    <3>3. \A k \in T : v[k] \in Nat
      <4>1. \A k \in T : k \in Nat /\ Grew(l, k, s, w.counter) \in Nat
        BY <2>4, GrewIsNat, WaysAre
      <4> QED BY <3>1, <4>1 DEF Moves
    <3> QED BY <2>5, <3>2, <3>3, SumNat
  <2> QED BY <2>7, <2>8, <2>13, <2>14
<1> QED BY <1>3, <1>4 DEF Unqueued

(* The samples of such slots.                                              *)
LEMMA SamplesUnqueued ==
  ASSUME NEW X, IsFiniteSet(X), NEW w \in Ways, NEW field, \A x \in X : Unqueued(x[field], w),
         NEW samples, samples = SamplesOf(X, field, w.samples, w.amount, w.base)
  PROVE  /\ IsFiniteSet(samples)
         /\ \A x \in samples : x.weight \in Nat /\ x.value \in Int /\ x.value < 4
<1>0. w.base \in Nat
  BY WaysAre
<1> DEFINE sample(c, i, j) == [of |-> <<c.LocalPort, i, j>>, value |-> c[field][i][w.samples][j] - w.base,
                               weight |-> (60 * c[field][i][w.amount]) \div Len(c[field][i][w.samples])]
           ofSlot(c, i) == {sample(c, i, j) : j \in DOMAIN c[field][i][w.samples]}
           ofConn(c) == UNION {ofSlot(c, i) : i \in DOMAIN c[field]}
           all == {ofConn(c) : c \in X}
<1>1. samples = UNION all
  BY Zenon DEF SamplesOf
<1>2. ASSUME NEW c \in X, NEW i \in DOMAIN c[field]
      PROVE  /\ IsFiniteSet(ofSlot(c, i))
             /\ \A x \in ofSlot(c, i) : x.weight \in Nat /\ x.value \in Int /\ x.value < 4
  <2>1. PICK q, a : q = c[field][i][w.samples] /\ a = c[field][i][w.amount]
    OBVIOUS
  <2>2. a \in Nat /\ q \in Seq(Int) /\ q # <<>> /\ \A j \in DOMAIN q : q[j] < w.base + 4
    BY <2>1 DEF Unqueued
  <2>3. Len(q) \in Nat /\ Len(q) > 0 /\ DOMAIN q = 1 .. Len(q)
    BY <2>2
  <2>4. (60 * a) \div Len(q) \in Nat
    BY <2>2, <2>3
  <2>5. ASSUME NEW j \in DOMAIN q, NEW x, x = sample(c, i, j)
        PROVE  x.weight \in Nat /\ x.value \in Int /\ x.value < 4
    <3>1. x.weight = (60 * a) \div Len(q) /\ x.value = q[j] - w.base
      BY <2>1, <2>5
    <3>2. q[j] \in Int /\ q[j] < w.base + 4
      BY <2>2
    <3> QED BY <1>0, <2>4, <3>1, <3>2
  <2>6. IsFiniteSet(DOMAIN q)
    BY <2>3, FS_Interval
  <2>7. PICK f : f = [j \in DOMAIN q |-> sample(c, i, j)]
    OBVIOUS
  <2> HIDE DEF sample
  <2>8. \A x \in ofSlot(c, i) : \E j \in DOMAIN q : x = f[j] /\ x = sample(c, i, j)
    BY <2>1, <2>7
  <2> HIDE DEF ofSlot
  <2>9. IsFiniteSet(ofSlot(c, i))
    <3>1. \A x \in ofSlot(c, i) : \E j \in DOMAIN q : x = f[j]
      BY <2>8
    <3> QED BY <2>6, <3>1, FiniteImage
  <2> QED BY <2>5, <2>8, <2>9
<1> HIDE DEF ofSlot
<1>3. ASSUME NEW c \in X
      PROVE  /\ IsFiniteSet(ofConn(c))
             /\ \A x \in ofConn(c) : x.weight \in Nat /\ x.value \in Int /\ x.value < 4
  <2>1. PICK U : U = {ofSlot(c, i) : i \in DOMAIN c[field]}
    OBVIOUS
  <2>2. IsFiniteSet(U)
    <3>1. PICK f : f = [i \in DOMAIN c[field] |-> ofSlot(c, i)]
      OBVIOUS
    <3>2. \A u \in U : \E i \in DOMAIN c[field] : u = f[i]
      BY <2>1, <3>1
    <3>3. IsFiniteSet(DOMAIN c[field])
      BY DEF Unqueued
    <3> QED BY <3>2, <3>3, FiniteImage
  <2>3. \A u \in U : IsFiniteSet(u) /\ \A x \in u : x.weight \in Nat /\ x.value \in Int /\ x.value < 4
    BY <1>2, <2>1
  <2>4. IsFiniteSet(UNION U)
    BY <2>2, <2>3, FS_UNION
  <2> QED BY <2>1, <2>3, <2>4
<1> HIDE DEF ofConn
<1>4. IsFiniteSet(all)
  <2>1. PICK f : f = [c \in X |-> ofConn(c)]
    OBVIOUS
  <2>2. \A u \in all : \E c \in X : u = f[c]
    BY <2>1
  <2> HIDE DEF all
  <2> QED BY <2>2, FiniteImage
<1>5. \A u \in all : IsFiniteSet(u) /\ \A x \in u : x.weight \in Nat /\ x.value \in Int /\ x.value < 4
  BY <1>3
<1> HIDE DEF all
<1> QED BY <1>1, <1>4, <1>5, FS_UNION

(* The path of a connection shows no queue when no poll of the window      *)
(* found one.                                                              *)
LEMMA NoQueue ==
  ASSUME SignalsInv, NEW c \in JudgedTcp, NEW since, since = snapAt - SlotWindow,
         \A s \in Sockets : Late(log, since) \subseteq Short(log, s)
  PROVE  \A q \in {c.PathSendQueueMS, c.PathRecvQueueMS} : q = None \/ (q \in Int /\ q < 4)
<1>1. /\ LogIs(log) /\ Len(log) \in Nat /\ Len(log) > 1 /\ snapAt = log[Len(log)].at
      /\ c.PathMinRTT \in {None, 10} /\ c.PeerAddr = "peer" /\ c \in conns
  BY JudgedIs DEF TcpIs, Base, Shows, JudgedTcp, Judged
<1>2. since \in Int
  BY WindowStart
<1>3. PICK X : Peers(X, c, conns) /\ Queued(c, X)
  BY <1>1 DEF SignalsInv, HistoryIs, QueuesAre
<1>4. ASSUME NEW d \in conns, d.PeerAddr = "peer"
      PROVE  Unqueued(d.SendSlots, Sending) /\ Unqueued(d.RecvSlots, Receiving)
  <2>1. ConnIs(d, log)
    BY <1>1 DEF SignalsInv, SnapshotIs
  <2>2. d.Protocol = "tcp"
    BY <1>4, <2>1 DEF ConnIs, Base
  <2>3. PICK s, a, b : s = d.LocalPort /\ a = d.SendSlots /\ b = d.RecvSlots
    OBVIOUS
  <2>4. s \in Sockets /\ SlotsAre(a, log, s, Sending) /\ SlotsAre(b, log, s, Receiving)
        /\ (a # <<>> => a[1].start >= since) /\ (b # <<>> => b[1].start >= since)
    BY <1>1, <2>1, <2>2, <2>3 DEF ConnIs, TcpIs
  <2>5. Unqueued(a, Sending)
    BY <1>1, <1>2, <2>4, SendingIs, SlotsUnqueued
  <2>6. Unqueued(b, Receiving)
    BY <1>1, <1>2, <2>4, ReceivingIs, SlotsUnqueued
  <2> QED BY <2>3, <2>5, <2>6
<1>5. IsFiniteSet(X) /\ \A x \in X : Unqueued(x.SendSlots, Sending) /\ Unqueued(x.RecvSlots, Receiving)
  <2>1. IsFiniteSet(X)
    BY <1>3 DEF Peers
  <2>2. ASSUME NEW x \in X
        PROVE  Unqueued(x.SendSlots, Sending) /\ Unqueued(x.RecvSlots, Receiving)
    <3>1. PICK d \in conns : d.PeerAddr = c.PeerAddr /\ d.SendSlots = x.SendSlots /\ d.RecvSlots = x.RecvSlots
      BY <1>3 DEF Peers
    <3> QED BY <1>1, <1>4, <3>1
  <2> QED BY <2>1, <2>2
<1>6. \A q : q = WeightedQuantile(SamplesOf(X, "SendSlots", "queue", "sent", 0), 1, 2)
               => q = None \/ (q \in Int /\ q < 4)
  <2>1. PICK w, t : w = Sending /\ t = SamplesOf(X, "SendSlots", w.samples, w.amount, w.base)
    OBVIOUS
  <2>2. w \in Ways /\ \A x \in X : Unqueued(x["SendSlots"], w)
    BY <1>5, <2>1, SendingIs
  <2>3. IsFiniteSet(t) /\ \A x \in t : x.weight \in Nat /\ x.value \in Int /\ x.value < 4
    BY <1>5, <2>1, <2>2, SamplesUnqueued
  <2>4. t = SamplesOf(X, "SendSlots", "queue", "sent", 0)
    BY <2>1, SendingIs
  <2>5. WeightedQuantile(t, 1, 2) = None \/ (WeightedQuantile(t, 1, 2) \in Int /\ WeightedQuantile(t, 1, 2) < 4)
    BY <2>3, QuantileBelow
  <2> QED BY <2>4, <2>5
<1>7. \A q : q = WeightedQuantile(SamplesOf(X, "RecvSlots", "rtts", "segs", 10), 3, 4)
               => q = None \/ (q \in Int /\ q < 4)
  <2>1. PICK w, t : w = Receiving /\ t = SamplesOf(X, "RecvSlots", w.samples, w.amount, w.base)
    OBVIOUS
  <2>2. w \in Ways /\ \A x \in X : Unqueued(x["RecvSlots"], w)
    BY <1>5, <2>1, ReceivingIs
  <2>3. IsFiniteSet(t) /\ \A x \in t : x.weight \in Nat /\ x.value \in Int /\ x.value < 4
    BY <1>5, <2>1, <2>2, SamplesUnqueued
  <2>4. t = SamplesOf(X, "RecvSlots", "rtts", "segs", 10)
    BY <2>1, ReceivingIs
  <2>5. WeightedQuantile(t, 3, 4) = None \/ (WeightedQuantile(t, 3, 4) \in Int /\ WeightedQuantile(t, 3, 4) < 4)
    BY <2>3, QuantileBelow
  <2> QED BY <2>4, <2>5
<1>8. c.PathSendQueueMS = WeightedQuantile(SamplesOf(X, "SendSlots", "queue", "sent", 0), 1, 2)
  BY <1>3 DEF Queued
<1>9. \/ c.PathRecvQueueMS = None
      \/ c.PathRecvQueueMS = WeightedQuantile(SamplesOf(X, "RecvSlots", "rtts", "segs", 10), 3, 4)
  BY <1>1, <1>3 DEF Queued
<1> QED BY <1>6, <1>7, <1>8, <1>9

(* What the complete slots say of these polls B: they are as many, and     *)
(* each measure of the slots is that of the polls.                         *)
Tells(done, l, s, w, B) ==
  /\ Len(done) = Cardinality(B)
  /\ SlotsWith(done, w.loss) = Cardinality({k \in B : Grew(l, k, s, w.loss) > 0})
  /\ Samples(done, w.samples) = Cardinality(B) /\ SamplesBelow(done, w.samples, w.base + 4) = Cardinality(B)
  /\ SumOf(done, w.amount) = Total(l, s, w.counter, B) /\ SumOf(done, w.loss) = Total(l, s, w.loss, B)
  /\ SumOf(done, w.amount) \in Nat /\ SumOf(done, w.amount) > 0 /\ SumOf(done, w.loss) \in Nat

(* Complete slots tell these polls when a slot begins at each of them and  *)
(* none found a queue.                                                     *)
LEMMA SlotsTell ==
  ASSUME NEW l, LogIs(l), NEW s \in Sockets, NEW w \in Ways, NEW slots, SlotsAre(slots, l, s, w),
         NEW since \in Int, slots # <<>> => slots[1].start >= since, Whole(slots),
         NEW B, B = Bulk(l, s, w) \cap Late(l, since), \A k \in B : Begun(slots, l[k - 1].at),
         B \subseteq Short(l, s), NEW done, done = CompleteSlots(slots)
  PROVE  /\ IsFiniteSet(B) /\ Cardinality(B) \in Nat
         /\ Cardinality(B) < 4 => done = <<>>
         /\ Cardinality(B) >= 4 => done # <<>> /\ Tells(done, l, s, w, B)
<1>1. PICK S : slots \in Seq(S)
  BY DEF SlotsAre
<1>2. PICK n : n = Len(slots)
  OBVIOUS
<1>3. n \in Nat /\ DOMAIN slots = 1 .. n
  BY <1>1, <1>2
<1>4. PICK p : PairsOff(p, 1 .. n, B) /\ OnePoll(p, slots, l, s, w)
  BY <1>2, OnePollEach
<1>5. PICK D : D = 1 .. n
  OBVIOUS
<1>6. IsFiniteSet(D) /\ Cardinality(D) = n
  BY <1>3, <1>5, UpTo
<1>7. /\ p \in [D -> B] /\ \A i, j \in D : p[i] = p[j] => i = j
      /\ \A k \in B : \E i \in D : p[i] = k
  BY <1>4, <1>5 DEF PairsOff
<1>11. PairsOff(p, D, B)
  BY <1>4, <1>5
<1>8. IsFiniteSet(B) /\ Cardinality(B) = n
  <2>1. D \in SUBSET D /\ B \in SUBSET B /\ \A x \in D : x \in D <=> p[x] \in B
    BY <1>7
  <2>2. IsFiniteSet(B) /\ Cardinality(B) = Cardinality(D)
    BY ONLY <1>6, <1>11, <2>1, SameSize
  <2> QED BY <1>6, <2>2
<1>9. done = IF n < 4 THEN <<>> ELSE slots
  <2>1. ~(slots # <<>> /\ ~SlotFull(slots[Len(slots)]))
    <3>1. slots # <<>> => Len(slots) \in 1 .. Len(slots)
      BY <1>1
    <3> QED BY <3>1 DEF Whole
  <2> QED BY <1>2, <2>1 DEF CompleteSlots, SlotMinCount
<1>10. ASSUME n >= 4
       PROVE  done # <<>> /\ Tells(done, l, s, w, B)
  <2>1. done = slots /\ slots # <<>> /\ DOMAIN done = D
    BY <1>1, <1>2, <1>3, <1>5, <1>9, <1>10
  <2>2. SlotsWith(done, w.loss) = Cardinality({k \in B : Grew(l, k, s, w.loss) > 0})
    <3>1. PICK A, L : /\ A = {i \in D : slots[i][w.loss] > 0}
                      /\ L = {k \in B : Grew(l, k, s, w.loss) > 0}
      OBVIOUS
    <3>2. A \in SUBSET D /\ L \in SUBSET B /\ \A x \in D : x \in A <=> p[x] \in L
      BY <1>2, <1>4, <1>5, <1>7, <3>1 DEF OnePoll
    <3>3. Cardinality(L) = Cardinality(A)
      BY ONLY <1>6, <1>11, <3>2, SameSize
    <3>4. SlotsWith(done, w.loss) = Cardinality(A)
      BY <2>1, <3>1 DEF SlotsWith
    <3> QED BY <3>1, <3>3, <3>4
  <2>3. Samples(done, w.samples) = n
    <3>1. PICK v : v = [i \in D |-> Len(slots[i][w.samples])]
      OBVIOUS
    <3>2. \A i \in D : v[i] = 1
      BY <1>2, <1>4, <1>5, <3>1 DEF OnePoll
    <3>3. Samples(done, w.samples) = SumFunctionOnSet(v, D)
      BY <2>1, <3>1, Zenon DEF Samples, SumFunction
    <3> QED BY <1>6, <3>2, <3>3, SumOfOnes
  <2>4. SamplesBelow(done, w.samples, w.base + 4) = n
    <3>1. PICK v : v = [i \in D |-> Cardinality({j \in DOMAIN slots[i][w.samples] :
                                                    slots[i][w.samples][j] < w.base + 4})]
      OBVIOUS
    <3>2. \A i \in D : v[i] = 1
      <4>1. ASSUME NEW i \in D
            PROVE  v[i] = 1
        <5>1. p[i] \in Short(l, s)
          BY <1>7
        <5>2. Cardinality(Below(slots[i][w.samples], w.base + 4)) = 1
          BY <1>2, <1>4, <1>5, <5>1 DEF OnePoll
        <5> QED BY <3>1, <5>2 DEF Below
      <4> QED BY <4>1
    <3>3. SamplesBelow(done, w.samples, w.base + 4) = SumFunctionOnSet(v, D)
      BY <2>1, <3>1, Zenon DEF SamplesBelow, SumFunction
    <3> QED BY <1>6, <3>2, <3>3, SumOfOnes
  <2>5. B = Held(l, s, w, slots)
    <3>1. ASSUME NEW k \in Bulk(l, s, w)
          PROVE  l[k - 1].at >= since <=> l[k - 1].at >= slots[1].start
      <4>1. k \in 2 .. Len(l) /\ k - 1 \in 1 .. Len(l)
        BY DEF Bulk, LogIs
      <4>2. l[k - 1].at \in Nat
        BY <4>1, SnapIs
      <4>3. slots[1].start \in Int /\ slots[1].start >= since
        <5>1. 1 \in 1 .. Len(slots)
          BY <1>2, <1>3, <1>10
        <5> QED BY <2>1, <5>1, SlotsStart
      <4>4. ASSUME l[k - 1].at >= since
            PROVE  l[k - 1].at >= slots[1].start
        <5>1. PICK at : at = l[k - 1].at
          OBVIOUS
        <5>2. k \in B
          BY <4>1, <4>4 DEF Late
        <5>3. Begun(slots, at)
          BY <5>1, <5>2
        <5>4. slots[1].start <= at
          BY <5>3, BegunFirst
        <5> QED BY <4>2, <4>3, <5>1, <5>4
      <4> QED BY <4>2, <4>3, <4>4
    <3>2. Bulk(l, s, w) \subseteq 2 .. Len(l)
      BY DEF Bulk
    <3> QED BY <3>1, <3>2 DEF Held, Late
  <2>6. SumOf(slots, w.amount) = Total(l, s, w.counter, B) /\ SumOf(slots, w.loss) = Total(l, s, w.loss, B)
    <3>1. PICK x, f : x = w.amount /\ f = w.counter
      OBVIOUS
    <3>5. LogIs(l) /\ s \in Sockets /\ w \in Ways /\ SlotsAre(slots, l, s, w) /\ slots # <<>>
      BY <2>1
    <3>6. (x = w.amount /\ f = w.counter) \/ (x = w.loss /\ f = w.loss)
      BY <3>1
    <3>2. SumOf(slots, x) = Total(l, s, f, B)
      BY ONLY <2>5, <3>5, <3>6, SlotsHold
    <3>3. PICK y, g : y = w.loss /\ g = w.loss
      OBVIOUS
    <3>7. (y = w.amount /\ g = w.counter) \/ (y = w.loss /\ g = w.loss)
      BY <3>3
    <3>4. SumOf(slots, y) = Total(l, s, g, B)
      BY ONLY <2>5, <3>5, <3>7, SlotsHold
    <3> QED BY <3>1, <3>2, <3>3, <3>4
  <2>7. B \subseteq 2 .. Len(l)
    BY DEF Late
  <2>8. w.counter \in DOMAIN NoCounts /\ w.loss \in DOMAIN NoCounts /\ w.unit \in Nat
    BY WaysAre
  <2>9. Total(l, s, w.counter, B) \in Nat /\ Total(l, s, w.loss, B) \in Nat
    BY <2>7, <2>8, TotalIs
  <2>10. Total(l, s, w.counter, B) > 0
    <3>1. PICK k \in B : k = p[1]
      BY <1>3, <1>5, <1>7, <1>10
    <3>2. Grew(l, k, s, w.counter) \in Nat /\ w.unit * Grew(l, k, s, w.counter) >= 10000
      BY <2>7, <2>8, GrewIsNat DEF Bulk, SlotMinBytes
    <3>3. w.unit * 0 = 0
      BY <2>8
    <3>4. Grew(l, k, s, w.counter) > 0
      BY <3>2, <3>3
    <3> QED BY <2>7, <2>8, <3>4, TotalIs
  <2> QED BY <1>2, <1>8, <2>1, <2>2, <2>3, <2>4, <2>6, <2>9, <2>10 DEF Tells
<1> QED BY <1>3, <1>8, <1>9, <1>10

(* Every poll after one of the window is of the window.                    *)
LEMMA LateGoesOn ==
  ASSUME NEW l, LogIs(l), NEW since \in Int, NEW k \in Late(l, since), NEW j \in k .. Len(l)
  PROVE  j \in Late(l, since)
<1>1. Len(l) \in Nat /\ k \in 2 .. Len(l) /\ l[k - 1].at >= since
  BY DEF LogIs, Late
<1>2. j \in 2 .. Len(l) /\ k - 1 \in 1 .. Len(l) /\ j - 1 \in 1 .. Len(l) /\ k - 1 <= j - 1
  BY <1>1
<1>3. l[k - 1].at \in Nat /\ l[j - 1].at \in Nat
  <2>1. \A i \in 1 .. Len(l) : l[i] \in Snap
    BY DEF LogIs
  <2>2. \A i \in 1 .. Len(l) : l[i].at \in Nat
    BY <2>1 DEF Snap
  <2> QED BY <1>2, <2>2
<1>4. k - 1 = j - 1 \/ l[k - 1].at < l[j - 1].at
  BY <1>2 DEF LogIs
<1> QED BY <1>1, <1>2, <1>3, <1>4 DEF Late

(* In the window no poll found a queue, and one begins a slot when it is   *)
(* bulk: what is reported of it was printed.                               *)
Clear(l, s, w, since) ==
  /\ \A gap \in scene.gaps : gap >= SlotMinMS
  /\ \A k \in Late(l, since) : PrintedIn(l, k - 1, w.counter) /\ s \in l[k - 1].listed
  /\ Late(l, since) \subseteq Short(l, s)

(* Then the complete slots tell the polls of the window.                   *)
LEMMA ClearTells ==
  ASSUME NEW l, LogIs(l), NEW s \in Sockets, NEW w \in Ways, NEW slots, SlotsAre(slots, l, s, w),
         NEW since \in Int, since = l[Len(l)].at - SlotWindow, slots # <<>> => slots[1].start >= since,
         SlotsReach(slots, l, s, w), Clear(l, s, w, since),
         NEW B, B = Bulk(l, s, w) \cap Late(l, since), NEW done, done = CompleteSlots(slots)
  PROVE  /\ IsFiniteSet(B) /\ Cardinality(B) \in Nat
         /\ Cardinality(B) < 4 => done = <<>>
         /\ Cardinality(B) >= 4 => done # <<>> /\ Tells(done, l, s, w, B)
<1>1. Whole(slots)
  BY DEF SlotsReach, Clear
<1>2. \A k \in B : Begun(slots, l[k - 1].at)
  <2>1. ASSUME NEW k \in B
        PROVE  Begun(slots, l[k - 1].at)
    <3>1. k \in Bulk(l, s, w) /\ k \in Late(l, since) /\ l[k - 1].at >= since
      BY DEF Late
    <3>2. Chain(l, k, s, w)
      <4>1. ASSUME NEW j \in k .. Len(l)
            PROVE  PrintedIn(l, j - 1, w.counter) /\ s \in l[j - 1].listed
        <5>1. j \in Late(l, since)
          BY <3>1, LateGoesOn
        <5> QED BY <5>1 DEF Clear
      <4> QED BY <4>1 DEF Chain
    <3> QED BY <3>1, <3>2 DEF SlotsReach, Clear
  <2> QED BY <2>1
<1>3. B \subseteq Short(l, s)
  BY DEF Clear
<1> QED BY <1>1, <1>2, <1>3, SlotsTell

(* What README.md asks of the polls B before loss is called steady.        *)
Documented(l, s, w, B, least) ==
  /\ Cardinality(B) >= 4
  /\ 2 * Cardinality({k \in B : Grew(l, k, s, w.loss) > 0}) >= Cardinality(B)
  /\ least * Total(l, s, w.loss, B) >= Total(l, s, w.counter, B)

(* PATH_LOSS is told when it should be,                                    *)
LEMMA PathLossIs ==
  ASSUME SignalsInv, NEW c \in JudgedTcp, NEW since, since = snapAt - SlotWindow, NEW s, s = c.LocalPort,
         Clear(log, s, Sending, since), \A t \in Sockets : Late(log, since) \subseteq Short(log, t),
         NEW B, B = Bulk(log, s, Sending) \cap Late(log, since)
  PROVE  Warned(c, "PATH_LOSS") <=> Documented(log, s, Sending, B, 2000)
<1>1. /\ LogIs(log) /\ s \in Sockets /\ TcpIs(c, log, s) /\ c.Protocol = "tcp" /\ c.State = "ESTAB"
      /\ Base(c, log[Len(log)].kernel[s], log[Len(log)].found[s]) /\ since = log[Len(log)].at - SlotWindow
  BY JudgedIs
<1>2. since \in Int /\ (c.SendSlots # <<>> => c.SendSlots[1].start >= since)
  BY WindowStart
<1>3. Warned(c, "PATH_LOSS") <=> PathLoss(c) > 0
  BY <1>1, SignalsSay DEF TcpIs
<1>4. PICK slots, done : slots = c.SendSlots /\ done = CompleteSlots(slots)
  OBVIOUS
<1>5. PICK w : w = Sending
  OBVIOUS
<1>6. /\ w \in Ways /\ w.loss = "retrans" /\ w.samples = "queue" /\ w.base = 0 /\ w.counter = "sent"
      /\ w.amount = "sent"
  BY <1>5, SendingIs
<1>7. /\ SlotsAre(slots, log, s, w) /\ (slots # <<>> => slots[1].start >= since) /\ SlotsReach(slots, log, s, w)
      /\ Clear(log, s, w, since) /\ B = Bulk(log, s, w) \cap Late(log, since)
  BY <1>1, <1>2, <1>4, <1>5 DEF TcpIs
<1>8. /\ IsFiniteSet(B) /\ Cardinality(B) \in Nat
      /\ Cardinality(B) < 4 => done = <<>>
      /\ Cardinality(B) >= 4 => done # <<>> /\ Tells(done, log, s, w, B)
  BY ONLY <1>1, <1>2, <1>4, <1>6, <1>7, ClearTells
<1>9. PathLoss(c) = IF Steady(c, done)
                      THEN Tier(10000 * SumOf(done, "retrans"), 5 * SumOf(done, "sent"), 100 * SumOf(done, "sent"))
                      ELSE 0
  BY <1>4 DEF PathLoss
<1>10. CASE Cardinality(B) < 4
  <2>1. SumOf(done, "sent") = 0
    BY <1>8, <1>10, NothingSummed
  <2>2. ~Steady(c, done)
    BY <2>1 DEF Steady
  <2>3. PathLoss(c) = 0
    BY <1>9, <2>2
  <2> QED BY <1>3, <1>8, <1>10, <2>3 DEF Documented
<1>11. CASE Cardinality(B) >= 4
  <2>1. Tells(done, log, s, w, B)
    BY <1>8, <1>11
  <2>2. PICK n, lossy, moved, lost :
          /\ n = Cardinality(B) /\ lossy = Cardinality({k \in B : Grew(log, k, s, w.loss) > 0})
          /\ moved = SumOf(done, "sent") /\ lost = SumOf(done, "retrans")
    OBVIOUS
  <2>3. /\ Len(done) = n /\ SlotsWith(done, "retrans") = lossy
        /\ Samples(done, "queue") = n /\ SamplesBelow(done, "queue", 4) = n
        /\ moved = Total(log, s, w.counter, B) /\ lost = Total(log, s, w.loss, B)
        /\ moved \in Nat /\ moved > 0 /\ lost \in Nat
    BY <1>6, <2>1, <2>2 DEF Tells
  <2>4. n \in Nat /\ n >= 4 /\ lossy \in Nat
    <3>1. {k \in B : Grew(log, k, s, w.loss) > 0} \in SUBSET B
      OBVIOUS
    <3> QED BY <1>8, <1>11, <2>2, <3>1, FS_Subset, FS_CardinalityType
  <2>5. c.MinRTT = 10 /\ c.CongAlgo = None
    BY <1>1 DEF Base, Shows
  <2>6. ~(Known(c.PathSendQueueMS) /\ c.PathSendQueueMS >= 4)
    <3>1. c.PathSendQueueMS = None \/ (c.PathSendQueueMS \in Int /\ c.PathSendQueueMS < 4)
      BY NoQueue
    <3> QED BY <3>1 DEF Known
  <2>7. Steady(c, done) <=> lossy * 2 >= n
    <3>1. Known(c.MinRTT) /\ ~Known(c.CongAlgo) /\ QueueLimit(c.MinRTT) = 4
      BY <2>5, LimitIs, NoneIsNoNumber DEF Known
    <3>2. n > n \div 2 /\ n > 0
      BY <2>4
    <3> QED BY <2>2, <2>3, <2>6, <3>1, <3>2 DEF Steady
  <2>8. Tier(10000 * lost, 5 * moved, 100 * moved) > 0 <=> 2000 * lost >= moved
    BY <2>3 DEF Tier
  <2>9. PathLoss(c) > 0 <=> lossy * 2 >= n /\ 2000 * lost >= moved
    BY <1>9, <2>2, <2>7, <2>8
  <2>10. Documented(log, s, w, B, 2000) <=> 2 * lossy >= n /\ 2000 * lost >= moved
    BY <1>11, <2>2, <2>3 DEF Documented
  <2> QED BY <1>3, <1>5, <2>4, <2>9, <2>10
<1> QED BY <1>8, <1>10, <1>11

(* and so is RX_LOSS.                                                      *)
LEMMA InboundLossIs ==
  ASSUME SignalsInv, NEW c \in JudgedTcp, NEW since, since = snapAt - SlotWindow, NEW s, s = c.LocalPort,
         Clear(log, s, Receiving, since), \A t \in Sockets : Late(log, since) \subseteq Short(log, t),
         NEW B, B = Bulk(log, s, Receiving) \cap Late(log, since)
  PROVE  Warned(c, "RX_LOSS") <=> Documented(log, s, Receiving, B, 50)
<1>1. /\ LogIs(log) /\ s \in Sockets /\ TcpIs(c, log, s) /\ c.Protocol = "tcp" /\ c.State = "ESTAB"
      /\ Base(c, log[Len(log)].kernel[s], log[Len(log)].found[s]) /\ since = log[Len(log)].at - SlotWindow
  BY JudgedIs
<1>2. since \in Int /\ (c.RecvSlots # <<>> => c.RecvSlots[1].start >= since)
  BY WindowStart
<1>3. Warned(c, "RX_LOSS") <=> InboundLoss(c) > 0
  BY <1>1, SignalsSay DEF TcpIs
<1>4. PICK slots, done : slots = c.RecvSlots /\ done = CompleteSlots(slots)
  OBVIOUS
<1>5. PICK w : w = Receiving
  OBVIOUS
<1>6. /\ w \in Ways /\ w.loss = "ooo" /\ w.samples = "rtts" /\ w.base = 10 /\ w.counter = "data"
      /\ w.amount = "segs"
  BY <1>5, ReceivingIs
<1>7. /\ SlotsAre(slots, log, s, w) /\ (slots # <<>> => slots[1].start >= since) /\ SlotsReach(slots, log, s, w)
      /\ Clear(log, s, w, since) /\ B = Bulk(log, s, w) \cap Late(log, since)
  BY <1>1, <1>2, <1>4, <1>5 DEF TcpIs
<1>8. /\ IsFiniteSet(B) /\ Cardinality(B) \in Nat
      /\ Cardinality(B) < 4 => done = <<>>
      /\ Cardinality(B) >= 4 => done # <<>> /\ Tells(done, log, s, w, B)
  BY ONLY <1>1, <1>2, <1>4, <1>6, <1>7, ClearTells
<1>9. InboundLoss(c) = IF Gappy(c, done)
                         THEN Tier(100 * SumOf(done, "ooo"), 2 * SumOf(done, "segs"), 10 * SumOf(done, "segs"))
                         ELSE 0
  BY <1>4 DEF InboundLoss
<1>10. CASE Cardinality(B) < 4
  <2>1. ~Gappy(c, done)
    BY <1>8, <1>10 DEF Gappy
  <2>2. InboundLoss(c) = 0
    BY <1>9, <2>1
  <2> QED BY <1>3, <1>8, <1>10, <2>2 DEF Documented
<1>11. CASE Cardinality(B) >= 4
  <2>1. Tells(done, log, s, w, B) /\ done # <<>>
    BY <1>8, <1>11
  <2>2. PICK n, lossy, moved, lost :
          /\ n = Cardinality(B) /\ lossy = Cardinality({k \in B : Grew(log, k, s, w.loss) > 0})
          /\ moved = SumOf(done, "segs") /\ lost = SumOf(done, "ooo")
    OBVIOUS
  <2>3. /\ Len(done) = n /\ SlotsWith(done, "ooo") = lossy
        /\ Samples(done, "rtts") = n /\ SamplesBelow(done, "rtts", 14) = n
        /\ moved = Total(log, s, w.counter, B) /\ lost = Total(log, s, w.loss, B)
        /\ moved \in Nat /\ moved > 0 /\ lost \in Nat
    BY <1>6, <2>1, <2>2 DEF Tells
  <2>4. n \in Nat /\ n >= 4 /\ lossy \in Nat
    <3>1. {k \in B : Grew(log, k, s, w.loss) > 0} \in SUBSET B
      OBVIOUS
    <3> QED BY <1>8, <1>11, <2>2, <3>1, FS_Subset, FS_CardinalityType
  <2>5. c.MinRTT = 10 /\ c.PathMinRTT \in {None, 10}
    BY <1>1 DEF Base, Shows, TcpIs
  <2>6. ~(Known(c.PathRecvQueueMS) /\ c.PathRecvQueueMS >= 4)
    <3>1. c.PathRecvQueueMS = None \/ (c.PathRecvQueueMS \in Int /\ c.PathRecvQueueMS < 4)
      BY NoQueue
    <3> QED BY <3>1 DEF Known
  <2>7. Gappy(c, done) <=> lossy * 2 >= n
    <3>1. Known(c.MinRTT)
      BY <2>5, NoneIsNoNumber DEF Known
    <3>2. (IF Known(c.PathMinRTT) THEN Min({c.MinRTT, c.PathMinRTT}) ELSE c.MinRTT) = 10
      BY <2>5, LimitIs DEF Known
    <3>3. QueueLimit(10) = 4 /\ 10 + 4 = 14
      BY LimitIs
    <3>4. n > (n * 3) \div 4 /\ n > 0
      BY <2>4
    <3>5. PICK base : base = IF Known(c.PathMinRTT) THEN Min({c.MinRTT, c.PathMinRTT}) ELSE c.MinRTT
      OBVIOUS
    <3>6. Gappy(c, done) <=>
            /\ done # <<>> /\ Known(c.MinRTT) /\ SumOf(done, "segs") > 0 /\ Samples(done, "rtts") > 0
            /\ SlotsWith(done, "ooo") * 2 >= Len(done)
            /\ SamplesBelow(done, "rtts", base + QueueLimit(base)) > (Samples(done, "rtts") * 3) \div 4
            /\ ~(Known(c.PathRecvQueueMS) /\ c.PathRecvQueueMS >= QueueLimit(base))
      BY Zenon, <3>5 DEF Gappy
    <3> QED BY <2>1, <2>2, <2>3, <2>6, <3>1, <3>2, <3>3, <3>4, <3>5, <3>6
  <2>8. Tier(100 * lost, 2 * moved, 10 * moved) > 0 <=> 50 * lost >= moved
    BY <2>3 DEF Tier
  <2>9. InboundLoss(c) > 0 <=> lossy * 2 >= n /\ 50 * lost >= moved
    BY <1>9, <2>2, <2>7, <2>8
  <2>10. Documented(log, s, w, B, 50) <=> 2 * lossy >= n /\ 50 * lost >= moved
    BY <1>11, <2>2, <2>3 DEF Documented
  <2> QED BY <1>3, <1>5, <2>4, <2>9, <2>10
<1> QED BY <1>8, <1>10, <1>11

(* Four polls that came in time are of the window when it has the room.    *)
LEMMA FourPolls ==
  ASSUME NEW l, LogIs(l), 44 * PollIntervalMS <= 10 * SlotWindow,
         NEW k \in 2 .. Len(l), k > Len(l) - 4,
         \A j \in k .. Len(l) : 10 * (l[j].at - l[j - 1].at) <= 11 * PollIntervalMS
  PROVE  k \in Late(l, l[Len(l)].at - SlotWindow)
<1>1. PICK n, p, w : n = Len(l) /\ p = PollIntervalMS /\ w = SlotWindow
  OBVIOUS
<1>2. n \in Nat /\ p \in Nat /\ w \in Int /\ 44 * p <= 10 * w
  BY <1>1, WindowIs, ClassifierAssumption DEF LogIs
<1>3. PICK at : at = [i \in 1 .. n |-> l[i].at]
  OBVIOUS
<1>4. \A i \in 1 .. n : at[i] = l[i].at /\ at[i] \in Int
  <2>1. \A i \in 1 .. n : l[i] \in Snap
    BY <1>1 DEF LogIs
  <2>2. \A i \in 1 .. n : l[i].at \in Nat
    BY <2>1 DEF Snap
  <2> QED BY <1>3, <2>2
<1>5. k \in 2 .. n /\ k > n - 4 /\ \A j \in k .. n : 10 * (at[j] - at[j - 1]) <= 11 * p
  <2>1. \A j \in k .. n : j \in 1 .. n /\ j - 1 \in 1 .. n
    BY <1>1, <1>2
  <2> QED BY <1>1, <1>4, <2>1
<1>6. k - 1 \in 1 .. n /\ n \in 1 .. n
  BY <1>2, <1>5
<1>7. 10 * (at[n] - at[k - 1]) <= 44 * p
  <2>1. k = n \/ k = n - 1 \/ k = n - 2 \/ k = n - 3
    BY <1>2, <1>5
  <2>2. \A i \in 1 .. n : at[i] \in Int
    BY <1>4
  <2>3. CASE k = n
    <3>1. 10 * (at[n] - at[n - 1]) <= 11 * p
      BY <1>2, <1>5, <2>3
    <3>2. at[n] \in Int /\ at[n - 1] \in Int
      BY <1>2, <1>6, <2>2, <2>3
    <3> QED BY <1>2, <2>3, <3>1, <3>2
  <2>4. CASE k = n - 1
    <3>1. PICK a, b, c : a = at[n] /\ b = at[n - 1] /\ c = at[n - 2]
      OBVIOUS
    <3>2. a \in Int /\ b \in Int /\ c \in Int
      BY <1>2, <1>5, <2>2, <2>4, <3>1
    <3>3. 10 * (a - b) <= 11 * p /\ 10 * (b - c) <= 11 * p
      <4>1. n - 1 - 1 = n - 2 /\ n \in k .. n /\ n - 1 \in k .. n
        BY <1>2, <2>4
      <4>2. 10 * (at[n] - at[n - 1]) <= 11 * p
        BY <1>5, <4>1
      <4>3. 10 * (at[n - 1] - at[n - 2]) <= 11 * p
        BY <1>5, <4>1
      <4> QED BY <3>1, <4>2, <4>3
    <3>4. at[k - 1] = c
      BY <1>2, <2>4, <3>1
    <3>5. 10 * (a - c) <= 44 * p
      BY <1>2, <3>2, <3>3
    <3> QED BY <3>1, <3>4, <3>5
  <2>5. CASE k = n - 2
    <3>1. PICK a, b, c, d : a = at[n] /\ b = at[n - 1] /\ c = at[n - 2] /\ d = at[n - 3]
      OBVIOUS
    <3>2. a \in Int /\ b \in Int /\ c \in Int /\ d \in Int
      BY <1>2, <1>5, <2>2, <2>5, <3>1
    <3>3. 10 * (a - b) <= 11 * p /\ 10 * (b - c) <= 11 * p /\ 10 * (c - d) <= 11 * p
      <4>1. n - 1 - 1 = n - 2 /\ n - 2 - 1 = n - 3 /\ n \in k .. n /\ n - 1 \in k .. n /\ n - 2 \in k .. n
        BY <1>2, <2>5
      <4>2. 10 * (at[n] - at[n - 1]) <= 11 * p
        BY <1>5, <4>1
      <4>3. 10 * (at[n - 1] - at[n - 2]) <= 11 * p
        BY <1>5, <4>1
      <4>4. 10 * (at[n - 2] - at[n - 3]) <= 11 * p
        BY <1>5, <4>1
      <4> QED BY <3>1, <4>2, <4>3, <4>4
    <3>4. at[k - 1] = d
      BY <1>2, <2>5, <3>1
    <3>5. 10 * (a - d) <= 44 * p
      BY <1>2, <3>2, <3>3
    <3> QED BY <3>1, <3>4, <3>5
  <2>6. CASE k = n - 3
    <3>1. PICK a, b, c, d, e : a = at[n] /\ b = at[n - 1] /\ c = at[n - 2] /\ d = at[n - 3] /\ e = at[n - 4]
      OBVIOUS
    <3>2. a \in Int /\ b \in Int /\ c \in Int /\ d \in Int /\ e \in Int
      BY <1>2, <1>5, <2>2, <2>6, <3>1
    <3>3. 10 * (a - b) <= 11 * p /\ 10 * (b - c) <= 11 * p /\ 10 * (c - d) <= 11 * p /\ 10 * (d - e) <= 11 * p
      <4>1. /\ n - 1 - 1 = n - 2 /\ n - 2 - 1 = n - 3 /\ n - 3 - 1 = n - 4
            /\ n \in k .. n /\ n - 1 \in k .. n /\ n - 2 \in k .. n /\ n - 3 \in k .. n
        BY <1>2, <2>6
      <4>2. 10 * (at[n] - at[n - 1]) <= 11 * p
        BY <1>5, <4>1
      <4>3. 10 * (at[n - 1] - at[n - 2]) <= 11 * p
        BY <1>5, <4>1
      <4>4. 10 * (at[n - 2] - at[n - 3]) <= 11 * p
        BY <1>5, <4>1
      <4>5. 10 * (at[n - 3] - at[n - 4]) <= 11 * p
        BY <1>5, <4>1
      <4> QED BY <3>1, <4>2, <4>3, <4>4, <4>5
    <3>4. at[k - 1] = e
      BY <1>2, <2>6, <3>1
    <3>5. 10 * (a - e) <= 44 * p
      BY <1>2, <3>2, <3>3
    <3> QED BY <3>1, <3>4, <3>5
  <2> QED BY <2>1, <2>3, <2>4, <2>5, <2>6
<1>8. at[k - 1] >= at[n] - w
  BY <1>2, <1>4, <1>6, <1>7
<1> QED BY <1>1, <1>4, <1>5, <1>6, <1>8 DEF Late

(* The window that README.md means.                                        *)
LEMMA WindowIsRecent ==
  ASSUME SignalsInv, NEW c \in JudgedTcp, 44 * PollIntervalMS <= 10 * SlotWindow, \A k \in Latest : OnTime(k)
  PROVE  Window = Late(log, snapAt - SlotWindow)
<1>1. LogIs(log) /\ Len(log) \in Nat /\ snapAt = log[Len(log)].at /\ Recent = Late(log, snapAt - SlotWindow)
  BY JudgedIs, WindowStart
<1>2. ASSUME NEW k \in Latest
      PROVE  k \in Late(log, snapAt - SlotWindow)
  <2>1. k \in 2 .. Len(log) /\ k > Len(log) - 4
    BY DEF Latest, Last, SlotMinCount
  <2>2. \A j \in k .. Len(log) : 10 * (log[j].at - log[j - 1].at) <= 11 * PollIntervalMS
    <3>1. ASSUME NEW j \in k .. Len(log)
          PROVE  j \in Latest
      BY <1>1, <2>1 DEF Latest, Last, SlotMinCount
    <3> QED BY <3>1 DEF OnTime
  <2> QED BY <1>1, <2>1, <2>2, FourPolls
<1> QED BY <1>1, <1>2 DEF Window

(* What was lost steadily, for the slots of a kind.                        *)
LEMMA SteadilyIs ==
  ASSUME NEW s \in Sockets, LogIs(log), NEW w \in Ways, NEW f, f = w.counter, NEW loss, loss = w.loss,
         NEW unit, unit = w.unit, NEW least, NEW since, Window = Late(log, since),
         NEW B, B = Bulk(log, s, w) \cap Late(log, since)
  PROVE  LostSteadily(s, f, unit, loss, least) <=> Documented(log, s, w, B, least)
<1> DEFINE bulk == {k \in Window : unit * Did(k, s, f) >= SlotMinBytes}
           lossy == {k \in bulk : Did(k, s, loss) > 0}
<1>1. LostSteadily(s, f, unit, loss, least) <=>
        /\ Cardinality(bulk) >= SlotMinCount
        /\ 2 * Cardinality(lossy) >= Cardinality(bulk)
        /\ least * SumFunction([k \in bulk |-> Did(k, s, loss)]) >= SumFunction([k \in bulk |-> Did(k, s, f)])
  BY Zenon DEF LostSteadily
<1>2. bulk = B
  BY DidIs DEF Bulk, Late
<1>3. lossy = {k \in B : Grew(log, k, s, w.loss) > 0}
  BY <1>2, DidIs
<1> HIDE DEF bulk, lossy
<1>4. SumFunction([k \in bulk |-> Did(k, s, loss)]) = Total(log, s, w.loss, B)
  <2>1. [k \in bulk |-> Did(k, s, loss)] = [k \in B |-> Grew(log, k, s, w.loss)]
    BY <1>2, DidIs
  <2> QED BY <2>1 DEF Total
<1>5. SumFunction([k \in bulk |-> Did(k, s, f)]) = Total(log, s, w.counter, B)
  <2>1. [k \in bulk |-> Did(k, s, f)] = [k \in B |-> Grew(log, k, s, w.counter)]
    BY <1>2, DidIs
  <2> QED BY <2>1 DEF Total
<1> QED BY <1>1, <1>2, <1>3, <1>4, <1>5 DEF Documented, SlotMinCount

(* The loss signals tell what README.md says of the polls of the window:   *)
(* whenever four polls that come in time fit into SlotWindow, as they do   *)
(* up to an interval of 2.7 s.                                             *)
THEOREM DocumentedSafety ==
  ASSUME 44 * PollIntervalMS <= 10 * SlotWindow
  PROVE  Spec => []LossIsToldAsDocumented
<1>1. ASSUME SignalsInv, NEW c \in JudgedTcp,
             \A k \in Window, s \in Sockets : log[k].found[s].queue < 4,
             \A k \in Latest : OnTime(k),
             \A gap \in scene.gaps : gap >= SlotMinMS,
             NEW s, s = c.LocalPort
      PROVE  /\ (\A k \in Window : Printed(k - 1, "sent") /\ s \in log[k - 1].listed)
                  => (Warned(c, "PATH_LOSS") <=> LostSteadily(s, "sent", 1, "retrans", 2000))
             /\ (\A k \in Window : Printed(k - 1, "data") /\ s \in log[k - 1].listed)
                  => (Warned(c, "RX_LOSS") <=> LostSteadily(s, "data", SegBytes, "ooo", 50))
  <2>1. PICK since : since = snapAt - SlotWindow
    OBVIOUS
  <2>2. Window = Late(log, since) /\ LogIs(log) /\ s \in Sockets
    BY <1>1, <2>1, WindowIsRecent, JudgedIs
  <2>3. \A t \in Sockets : Late(log, since) \subseteq Short(log, t)
    BY <1>1, <2>2 DEF Late, Short
  <2>4. ASSUME \A k \in Window : Printed(k - 1, "sent") /\ s \in log[k - 1].listed
        PROVE  Warned(c, "PATH_LOSS") <=> LostSteadily(s, "sent", 1, "retrans", 2000)
    <3>1. PICK B : B = Bulk(log, s, Sending) \cap Late(log, since)
      OBVIOUS
    <3>2. Clear(log, s, Sending, since)
      BY <1>1, <2>2, <2>3, <2>4, PrintedIs, SendingIs DEF Clear
    <3>3. Warned(c, "PATH_LOSS") <=> Documented(log, s, Sending, B, 2000)
      BY <1>1, <2>1, <2>3, <3>1, <3>2, PathLossIs
    <3>4. LostSteadily(s, "sent", 1, "retrans", 2000) <=> Documented(log, s, Sending, B, 2000)
      BY <2>2, <3>1, SendingIs, SteadilyIs
    <3> QED BY <3>3, <3>4
  <2>5. ASSUME \A k \in Window : Printed(k - 1, "data") /\ s \in log[k - 1].listed
        PROVE  Warned(c, "RX_LOSS") <=> LostSteadily(s, "data", SegBytes, "ooo", 50)
    <3>1. PICK B : B = Bulk(log, s, Receiving) \cap Late(log, since)
      OBVIOUS
    <3>2. Clear(log, s, Receiving, since)
      BY <1>1, <2>2, <2>3, <2>5, PrintedIs, ReceivingIs DEF Clear
    <3>3. Warned(c, "RX_LOSS") <=> Documented(log, s, Receiving, B, 50)
      BY <1>1, <2>1, <2>3, <3>1, <3>2, InboundLossIs
    <3>4. LostSteadily(s, "data", SegBytes, "ooo", 50) <=> Documented(log, s, Receiving, B, 50)
      BY <2>2, <3>1, ReceivingIs, SteadilyIs
    <3> QED BY <3>3, <3>4
  <2> QED BY <2>4, <2>5
<1>2. SignalsInv => LossIsToldAsDocumented
  BY <1>1 DEF LossIsToldAsDocumented
<1> QED BY <1>2, SignalsSafe, PTL

(* Polls so far apart that four of them take longer than the window.       *)
FarApart(l) == \A k \in 2 .. Len(l) : 4 * (l[k].at - l[k - 1].at) > SlotWindow

(* Then the window holds fewer slots than the loss signals ask for.        *)
LEMMA FewSlots ==
  ASSUME NEW l, LogIs(l), FarApart(l), NEW s \in Sockets, NEW w \in Ways, NEW slots, SlotsAre(slots, l, s, w),
         NEW since, since = l[Len(l)].at - SlotWindow, since \in Int, slots # <<>> => slots[1].start >= since
  PROVE  CompleteSlots(slots) = <<>>
<1> SUFFICES ASSUME CompleteSlots(slots) # <<>>
             PROVE  FALSE
  OBVIOUS
<1>1. PICK S : slots \in Seq(S)
  BY DEF SlotsAre
<1>2. PICK cut \in [1 .. Len(slots) + 1 -> 1 .. Len(l)] : Cuts(cut, slots, l, s, w)
  BY DEF SlotsAre
<1>3. PICK m, n : m = Len(slots) /\ n = Len(l)
  OBVIOUS
<1>4. m \in Nat /\ m >= 4 /\ n \in Nat
  <2>1. PICK done : done = CompleteSlots(slots)
    OBVIOUS
  <2>2. Len(done) \in 4 .. Len(slots)
    BY <1>1, <2>1, CompleteIs
  <2> QED BY <1>1, <1>3, <2>2 DEF LogIs
<1>5. \A i \in 1 .. m : cut[i] \in 1 .. n /\ cut[i + 1] \in 1 .. n /\ cut[i] < cut[i + 1]
  BY <1>2, <1>3, <1>4 DEF Cuts
<1>6. PICK j : j = cut[1]
  OBVIOUS
<1>7. j \in 1 .. n /\ j + 4 <= n
  <2>1. 1 \in 1 .. m /\ 2 \in 1 .. m /\ 3 \in 1 .. m /\ 4 \in 1 .. m /\ 1 + 1 = 2 /\ 2 + 1 = 3 /\ 3 + 1 = 4 /\ 4 + 1 = 5
    BY <1>4
  <2>2. PICK b, c, d, e : b = cut[2] /\ c = cut[3] /\ d = cut[4] /\ e = cut[5]
    OBVIOUS
  <2>3. j \in 1 .. n /\ b \in 1 .. n /\ j < b
    BY <1>5, <1>6, <2>1, <2>2
  <2>4. c \in 1 .. n /\ b < c
    BY <1>5, <2>1, <2>2
  <2>5. d \in 1 .. n /\ c < d
    BY <1>5, <2>1, <2>2
  <2>6. e \in 1 .. n /\ d < e
    BY <1>5, <2>1, <2>2
  <2> QED BY <1>4, <2>3, <2>4, <2>5, <2>6
<1>8. l[j].at >= since
  <2>1. 1 \in 1 .. Len(slots) /\ slots # <<>>
    BY <1>1, <1>3, <1>4
  <2>2. SlotIs(slots[1], l, s, w, cut[1], cut[1 + 1])
    BY <1>2, <2>1 DEF Cuts
  <2> QED BY <1>6, <2>1, <2>2 DEF SlotIs
<1>9. PICK x0, x1, x2, x3, x4, x5 :
        x0 = l[j].at /\ x1 = l[j + 1].at /\ x2 = l[j + 2].at /\ x3 = l[j + 3].at /\ x4 = l[j + 4].at /\ x5 = l[n].at
  OBVIOUS
<1>10. x0 \in Nat /\ x1 \in Nat /\ x2 \in Nat /\ x3 \in Nat /\ x4 \in Nat /\ x5 \in Nat
  <2>1. \A i \in 1 .. n : l[i] \in Snap
    BY <1>3 DEF LogIs
  <2>2. \A i \in 1 .. n : l[i].at \in Nat
    BY <2>1 DEF Snap
  <2>3. j + 1 \in 1 .. n /\ j + 2 \in 1 .. n /\ j + 3 \in 1 .. n /\ j + 4 \in 1 .. n /\ n \in 1 .. n
    BY <1>4, <1>7
  <2> QED BY <1>7, <1>9, <2>2, <2>3
<1>11. PICK width : width = SlotWindow
  OBVIOUS
<1>12. /\ 4 * (x1 - x0) > width /\ 4 * (x2 - x1) > width /\ 4 * (x3 - x2) > width /\ 4 * (x4 - x3) > width
  <2>1. ASSUME NEW i \in 1 .. n, NEW k \in 1 .. n, k = i + 1
        PROVE  4 * (l[k].at - l[i].at) > width
    <3>1. k \in 2 .. Len(l) /\ k - 1 = i
      BY <1>3, <1>4, <2>1
    <3> QED BY <1>11, <3>1 DEF FarApart
  <2>2. PICK a, b, c, d : a = j + 1 /\ b = j + 2 /\ c = j + 3 /\ d = j + 4
    OBVIOUS
  <2>3. a \in 1 .. n /\ b \in 1 .. n /\ c \in 1 .. n /\ d \in 1 .. n /\ b = a + 1 /\ c = b + 1 /\ d = c + 1
    BY <1>4, <1>7, <2>2
  <2>4. 4 * (x1 - x0) > width
    BY <1>7, <1>9, <2>1, <2>2, <2>3
  <2>5. 4 * (x2 - x1) > width
    BY <1>9, <2>1, <2>2, <2>3
  <2>6. 4 * (x3 - x2) > width
    BY <1>9, <2>1, <2>2, <2>3
  <2>7. 4 * (x4 - x3) > width
    BY <1>9, <2>1, <2>2, <2>3
  <2> QED BY <2>4, <2>5, <2>6, <2>7
<1>13. x4 <= x5
  <2>1. j + 4 \in 1 .. n /\ n \in 1 .. n
    BY <1>4, <1>7
  <2>2. j + 4 < n => x4 < x5
    BY <1>3, <1>9, <2>1 DEF LogIs
  <2>3. j + 4 = n => x4 = x5
    BY <1>9
  <2> QED BY <1>4, <1>7, <1>10, <2>2, <2>3
<1>14. x0 >= x5 - width /\ width \in Int
  BY <1>3, <1>8, <1>9, <1>11, WindowIs
<1> QED BY <1>10, <1>12, <1>13, <1>14

(* No loss is told.                                                        *)
LossIsNeverTold == \A c \in JudgedTcp : ~Warned(c, "PATH_LOSS") /\ ~Warned(c, "RX_LOSS")

(* When four polls always take longer than SlotWindow, as they do at every *)
(* interval of 3 s or more in the TUI, which waits the interval out after  *)
(* each answer of ss, the loss signals are never raised, whatever was      *)
(* lost: README.md's "four polls if slower" are not there to be judged.    *)
THEOREM SlowPollsAreSilent ==
  ASSUME \A x \in Scenes : \A gap \in x.gaps : 4 * gap > SlotWindow
  PROVE  Spec => []LossIsNeverTold
<1>1. ASSUME SignalsInv, NEW c \in JudgedTcp
      PROVE  ~Warned(c, "PATH_LOSS") /\ ~Warned(c, "RX_LOSS")
  <2>1. PICK s, since : s = c.LocalPort /\ since = snapAt - SlotWindow
    OBVIOUS
  <2>2. /\ LogIs(log) /\ s \in Sockets /\ TcpIs(c, log, s) /\ c.Protocol = "tcp" /\ c.State = "ESTAB"
        /\ since = log[Len(log)].at - SlotWindow
    BY <1>1, <2>1, JudgedIs
  <2>3. /\ since \in Int /\ (c.SendSlots # <<>> => c.SendSlots[1].start >= since)
        /\ (c.RecvSlots # <<>> => c.RecvSlots[1].start >= since)
    BY <1>1, <2>1, WindowStart
  <2>4. FarApart(log)
    <3>1. ASSUME NEW k \in 2 .. Len(log)
          PROVE  4 * (log[k].at - log[k - 1].at) > SlotWindow
      <4>1. PICK gap \in scene.gaps : log[k].at - log[k - 1].at >= gap
        BY <1>1 DEF SignalsInv, HistoryIs
      <4>2. scene \in Scenes /\ scene \in SceneType
        BY <1>1, SignalsAssumption DEF SignalsInv, KernelIs
      <4>3. gap \in Int /\ 4 * gap > SlotWindow
        BY <4>2 DEF SceneType
      <4>4. PICK a, b : a = log[k].at /\ b = log[k - 1].at
        OBVIOUS
      <4>5. a \in Int /\ b \in Int
        <5>1. Len(log) \in Nat /\ \A i \in 1 .. Len(log) : log[i] \in Snap
          BY <2>2 DEF LogIs
        <5>2. k \in 1 .. Len(log) /\ k - 1 \in 1 .. Len(log)
          BY <5>1
        <5>3. log[k] \in Snap /\ log[k - 1] \in Snap
          BY <5>1, <5>2
        <5> QED BY <4>4, <5>3 DEF Snap
      <4> QED BY <4>1, <4>3, <4>4, <4>5, WindowIs
    <3> QED BY <3>1 DEF FarApart
  <2>5. SlotsAre(c.SendSlots, log, s, Sending) /\ SlotsAre(c.RecvSlots, log, s, Receiving)
    BY <2>2 DEF TcpIs
  <2>6. CompleteSlots(c.SendSlots) = <<>>
    BY <2>2, <2>3, <2>4, <2>5, SendingIs, FewSlots
  <2>7. CompleteSlots(c.RecvSlots) = <<>>
    BY <2>2, <2>3, <2>4, <2>5, ReceivingIs, FewSlots
  <2>8. PathLoss(c) = 0
    <3>1. ~Steady(c, <<>>)
      BY NothingSummed DEF Steady
    <3> QED BY <2>6, <3>1 DEF PathLoss
  <2>9. InboundLoss(c) = 0
    <3>1. ~Gappy(c, <<>>)
      BY DEF Gappy
    <3> QED BY <2>7, <3>1 DEF InboundLoss
  <2> QED BY <2>2, <2>8, <2>9, SignalsSay DEF TcpIs
<1>2. SignalsInv => LossIsNeverTold
  BY <1>1 DEF LossIsNeverTold
<1> QED BY <1>2, SignalsSafe, PTL
=============================================================================
