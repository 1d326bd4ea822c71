--------------------------- MODULE Events_proofs ---------------------------
(***************************************************************************)
(* The Events tab, for every size of the buffer, every list of samples and *)
(* every height: its cache, what is collected and the paging through it.   *)
(***************************************************************************)
EXTENDS Events, FiniteSetTheorems, WellFoundedInduction, TLAPS

(* The cached events are those of an update the buffer has had, and while  *)
(* the tab is open of the last one.  CacheIsCurrent alone is not inductive:*)
(* a tab that opens trusts a cache made before it was closed.              *)
CacheInv ==
  /\ lastUpdate \in Nat
  /\ cache \in [version : Int, events : {cache.events}]
  /\ cache.version <= lastUpdate
  /\ cache.version = lastUpdate => cache.events = CollectEvents(ring)
  /\ open => cache.version = lastUpdate

(* Drawing the tab, or not, makes good on it. *)
LEMMA RenderKeeps ==
  ASSUME CacheInv, Render,
         lastUpdate' \in Nat,
         \/ lastUpdate' > lastUpdate
         \/ lastUpdate' = lastUpdate /\ ring' = ring
  PROVE  CacheInv'
<1>1. CASE open'
  <2>1. cache' = Cached(cache, ring', lastUpdate')
    BY <1>1 DEF Render
  <2>2. CASE cache.version = lastUpdate'
    <3>1. cache' = cache /\ lastUpdate' = lastUpdate /\ ring' = ring
      BY <2>1, <2>2 DEF Cached, CacheInv
    <3> QED BY <3>1, <2>2 DEF CacheInv
  <2>3. CASE cache.version # lastUpdate'
    <3>1. cache' = [version |-> lastUpdate', events |-> CollectEvents(ring')]
      BY <2>1, <2>3 DEF Cached
    <3> QED BY <3>1 DEF CacheInv
  <2> QED BY <2>2, <2>3
<1>2. CASE ~open'
  <2>1. cache' = cache
    BY <1>2 DEF Render
  <2> QED BY <1>2, <2>1 DEF CacheInv
<1> QED BY <1>1, <1>2

(* Every step keeps the cache in step with the buffer. *)
LEMMA CacheStep == CacheInv /\ [Next]_vars => CacheInv'
<1> SUFFICES ASSUME CacheInv, [Next]_vars
             PROVE  CacheInv'
  OBVIOUS
<1>1. ASSUME NEW samples \in Snapshots, NEW step \in Steps, Poll(samples, step)
      PROVE  CacheInv'
  <2>1. step \in Nat \ {0}
    BY EventsAssumption
  <2>2. Render /\ lastUpdate' = lastUpdate + step
    BY <1>1 DEF Poll
  <2>3. lastUpdate' \in Nat /\ lastUpdate' > lastUpdate
    BY <2>1, <2>2 DEF CacheInv
  <2> QED BY <2>2, <2>3, RenderKeeps
<1>2. ASSUME Render, UNCHANGED <<ring, lastUpdate>>
      PROVE  CacheInv'
  <2>1. lastUpdate' \in Nat
    BY <1>2 DEF CacheInv
  <2> QED BY <1>2, <2>1, RenderKeeps
<1>3. CASE Switch
  BY <1>2, <1>3 DEF Switch
<1>4. ASSUME NEW h \in Heights, Resize(h)
      PROVE  CacheInv'
  BY <1>2, <1>4 DEF Resize
<1>5. CASE Down \/ Up \/ PageDown \/ PageUp \/ Top \/ Bottom
  <2>1. PICK n : Scroll(n)
    BY <1>5 DEF Down, Up, PageDown, PageUp, Top, Bottom
  <2> QED BY <1>2, <2>1 DEF Scroll
<1>6. CASE UNCHANGED vars
  BY <1>6 DEF vars, CacheInv
<1> QED BY <1>1, <1>3, <1>4, <1>5, <1>6 DEF Next

(* What is on screen is of the buffer as it is now: a cache under the time *)
(* of the last update is sound as long as no two updates have one time     *)
(* (collectEventsCached).                                                  *)
THEOREM CacheSafety == Spec => []CacheIsCurrent
<1>1. Init => CacheInv
  BY DEF Init, CacheInv
<1>2. CacheInv => CacheIsCurrent
  BY DEF CacheInv, CacheIsCurrent
<1> QED BY <1>1, <1>2, CacheStep, PTL DEF Spec

-----------------------------------------------------------------------------
(* A set of numbers that is not empty has a least one: what the recursive  *)
(* definitions below need.                                                 *)
LEMMA Least ==
  ASSUME NEW T \in SUBSET Nat, T # {}
  PROVE  \E m \in T : \A n \in T : m <= n
<1> DEFINE Less == OpToRel(<, Nat)
<1>1. IsWellFoundedOn(Less, Nat)
  BY NatLessThanWellFounded
<1>2. ASSUME NEW x \in Nat, NEW y \in Nat, x < y
      PROVE  <<x, y>> \in Less
  <2>1. Less = {ss \in Nat \X Nat : ss[1] < ss[2]}
    BY Zenon DEF OpToRel
  <2>2. <<x, y>> \in Nat \X Nat /\ <<x, y>>[1] = x /\ <<x, y>>[2] = y
    OBVIOUS
  <2> HIDE DEF Less
  <2> QED BY <1>2, <2>1, <2>2
<1> HIDE DEF Less
<1>3. PICK m \in T : \A n \in T : ~(<<n, m>> \in Less)
  BY <1>1, WFMin
<1>4. ASSUME NEW n \in T
      PROVE  m <= n
  <2>1. ~(n < m)
    BY <1>2, <1>3
  <2> QED BY <2>1
<1> QED BY <1>4

-----------------------------------------------------------------------------
(* FlattenSeq: the sequences one after the other.                          *)

Flattens(f, ss, n) ==
  f = [i \in 1 .. n |-> IF i = 1 THEN ss[i] ELSE f[i - 1] \o ss[i]]

LEMMA FlattensExists ==
  ASSUME NEW ss, NEW n \in Nat
  PROVE  \E f : Flattens(f, ss, n)
<1> DEFINE Stuck == {k \in Nat : ~\E f : Flattens(f, ss, k)}
<1> SUFFICES ASSUME Stuck # {} PROVE FALSE
  OBVIOUS
<1>1. Stuck \in SUBSET Nat
  OBVIOUS
<1> HIDE DEF Stuck
<1>2. PICK k \in Stuck : \A j \in Stuck : k <= j
  BY <1>1, Least
<1>3. k \in Nat
  BY <1>1, <1>2
<1>4. CASE k = 0
  <2> DEFINE f == [i \in 1 .. 0 |-> <<>>]
  <2>1. Flattens(f, ss, 0)
    BY DEF Flattens
  <2> HIDE DEF f
  <2> QED BY <1>2, <1>4, <2>1 DEF Stuck
<1>5. CASE k # 0
  <2>1. k - 1 \in Nat /\ k - 1 \notin Stuck
    BY <1>2, <1>3, <1>5
  <2>2. PICK f : Flattens(f, ss, k - 1)
    BY <2>1 DEF Stuck
  <2> DEFINE g == [i \in 1 .. k |-> IF i < k THEN f[i] ELSE IF i = 1 THEN ss[i] ELSE f[i - 1] \o ss[i]]
  <2>3. ASSUME NEW i \in 1 .. k
        PROVE  g[i] = IF i = 1 THEN ss[i] ELSE g[i - 1] \o ss[i]
    <3>1. \A j \in 1 .. k - 1 : f[j] = IF j = 1 THEN ss[j] ELSE f[j - 1] \o ss[j]
      BY <2>2, Zenon DEF Flattens
    <3>2. \A j \in 1 .. k - 1 : g[j] = f[j]
      BY <1>3
    <3>3. g[k] = IF k = 1 THEN ss[k] ELSE f[k - 1] \o ss[k]
      BY <1>3, <1>5
    <3> HIDE DEF g
    <3>4. CASE i = k
      <4>1. i # 1 => g[k - 1] = f[k - 1]
        BY <1>3, <1>5, <3>2, <3>4
      <4> QED BY <3>3, <3>4, <4>1
    <3>5. CASE i # k
      <4>1. i \in 1 .. k - 1 /\ (i # 1 => i - 1 \in 1 .. k - 1)
        BY <1>3, <3>5
      <4> QED BY <3>1, <3>2, <4>1
    <3> QED BY <3>4, <3>5
  <2>4. g = [i \in 1 .. k |-> g[i]]
    OBVIOUS
  <2> HIDE DEF g
  <2>5. Flattens(g, ss, k)
    BY <2>3, <2>4 DEF Flattens
  <2> QED BY <1>2, <2>5 DEF Stuck
<1> QED BY <1>4, <1>5

(* Element i of s, of the first n of ss, is element a of ss[k].            *)
From(s, ss, i, k, a) == a \in 1 .. Len(ss[k]) /\ s[i] = ss[k][a]

(* s holds the elements of the first n of ss, each at least once, and in   *)
(* their order.                                                            *)
Flat(s, ss, n) ==
  /\ \A k \in 1 .. n : \A a \in 1 .. Len(ss[k]) : \E i \in 1 .. Len(s) : s[i] = ss[k][a]
  /\ \A i \in 1 .. Len(s) : \E k \in 1 .. n, a \in Nat : From(s, ss, i, k, a)
  /\ \A i, j \in 1 .. Len(s) : i < j =>
       \E k, l \in 1 .. n, a, b \in Nat :
         /\ From(s, ss, i, k, a) /\ From(s, ss, j, l, b)
         /\ k < l \/ (k = l /\ a < b)

LEMMA FlatStep ==
  ASSUME NEW S, NEW ss \in Seq(Seq(S)), NEW n \in Nat, n + 1 \in 1 .. Len(ss),
         NEW s \in Seq(S), Flat(s, ss, n)
  PROVE  s \o ss[n + 1] \in Seq(S) /\ Flat(s \o ss[n + 1], ss, n + 1)
<1>1. PICK t \in Seq(S) : t = ss[n + 1]
  OBVIOUS
<1>2. PICK u : u = s \o t
  OBVIOUS
<1>3. /\ u \in Seq(S) /\ Len(u) = Len(s) + Len(t) /\ Len(s) \in Nat /\ Len(t) \in Nat
      /\ \A i \in 1 .. Len(s) : u[i] = s[i]
      /\ \A i \in 1 .. Len(t) : u[Len(s) + i] = t[i]
      /\ \A i \in 1 .. Len(u) : i > Len(s) => i - Len(s) \in 1 .. Len(t) /\ u[i] = t[i - Len(s)]
  BY <1>2
<1>4. ASSUME NEW k \in 1 .. n + 1, NEW a \in 1 .. Len(ss[k])
      PROVE  \E i \in 1 .. Len(u) : u[i] = ss[k][a]
  <2>1. CASE k = n + 1
    <3>1. Len(s) + a \in 1 .. Len(u) /\ u[Len(s) + a] = t[a]
      BY <1>1, <1>3, <2>1
    <3> QED BY <1>1, <2>1, <3>1
  <2>2. CASE k # n + 1
    <3>1. PICK i \in 1 .. Len(s) : s[i] = ss[k][a]
      BY <2>2 DEF Flat
    <3> QED BY <1>3, <3>1
  <2> QED BY <2>1, <2>2
<1>5. ASSUME NEW i \in 1 .. Len(u), i <= Len(s), NEW k, NEW a, From(s, ss, i, k, a)
      PROVE  From(u, ss, i, k, a)
  BY <1>3, <1>5 DEF From
<1>6. ASSUME NEW i \in 1 .. Len(u), i > Len(s)
      PROVE  i - Len(s) \in Nat /\ From(u, ss, i, n + 1, i - Len(s))
  BY <1>1, <1>3, <1>6 DEF From
<1>7. ASSUME NEW i \in 1 .. Len(u)
      PROVE  \E k \in 1 .. n + 1, a \in Nat : From(u, ss, i, k, a)
  <2>1. CASE i > Len(s)
    <3>1. n + 1 \in 1 .. n + 1
      OBVIOUS
    <3> QED BY <1>6, <2>1, <3>1
  <2>2. CASE ~(i > Len(s))
    <3>1. i \in 1 .. Len(s) /\ i <= Len(s)
      BY <1>3, <2>2
    <3>2. PICK k \in 1 .. n, a \in Nat : From(s, ss, i, k, a)
      BY <3>1 DEF Flat
    <3>3. k \in 1 .. n + 1
      OBVIOUS
    <3> QED BY <1>5, <3>1, <3>2, <3>3
  <2> QED BY <2>1, <2>2
<1>8. ASSUME NEW i \in 1 .. Len(u), NEW j \in 1 .. Len(u), i < j
      PROVE  \E k, l \in 1 .. n + 1, a, b \in Nat :
               /\ From(u, ss, i, k, a) /\ From(u, ss, j, l, b)
               /\ k < l \/ (k = l /\ a < b)
  <2>1. CASE i > Len(s)
    <3>1. /\ j > Len(s) /\ n + 1 \in 1 .. n + 1 /\ i - Len(s) < j - Len(s)
      BY <1>3, <1>8, <2>1
    <3>2. /\ i - Len(s) \in Nat /\ From(u, ss, i, n + 1, i - Len(s))
          /\ j - Len(s) \in Nat /\ From(u, ss, j, n + 1, j - Len(s))
      BY <1>6, <2>1, <3>1
    <3> QED BY <3>1, <3>2
  <2>2. CASE i <= Len(s) /\ j > Len(s)
    <3>1. i \in 1 .. Len(s)
      BY <1>3, <2>2
    <3>2. PICK k \in 1 .. n, a \in Nat : From(s, ss, i, k, a)
      BY <3>1 DEF Flat
    <3>3. From(u, ss, i, k, a)
      BY <1>5, <2>2, <3>2
    <3>4. j - Len(s) \in Nat /\ From(u, ss, j, n + 1, j - Len(s))
      BY <1>6, <2>2
    <3>5. k \in 1 .. n + 1 /\ n + 1 \in 1 .. n + 1 /\ k < n + 1
      OBVIOUS
    <3> QED BY <3>3, <3>4, <3>5
  <2>3. CASE j <= Len(s)
    <3>1. i \in 1 .. Len(s) /\ j \in 1 .. Len(s) /\ i <= Len(s)
      BY <1>3, <1>8, <2>3
    <3>2. PICK k \in 1 .. n, l \in 1 .. n, a \in Nat, b \in Nat :
            /\ From(s, ss, i, k, a) /\ From(s, ss, j, l, b)
            /\ k < l \/ (k = l /\ a < b)
      BY <1>8, <3>1 DEF Flat
    <3>3. From(u, ss, i, k, a) /\ From(u, ss, j, l, b)
      BY <1>5, <2>3, <3>1, <3>2
    <3>4. k \in 1 .. n + 1 /\ l \in 1 .. n + 1
      OBVIOUS
    <3> QED BY <3>2, <3>3, <3>4
  <2> QED BY <1>3, <2>1, <2>2, <2>3
<1>9. Flat(u, ss, n + 1)
  BY <1>4, <1>7, <1>8 DEF Flat
<1> QED BY <1>1, <1>2, <1>3, <1>9

LEMMA FlattenIs ==
  ASSUME NEW S, NEW ss \in Seq(Seq(S))
  PROVE  FlattenSeq(ss) \in Seq(S) /\ Flat(FlattenSeq(ss), ss, Len(ss))
<1>1. CASE Len(ss) = 0
  <2>1. ss = <<>> /\ FlattenSeq(ss) = ss
    BY <1>1 DEF FlattenSeq
  <2>2. 1 .. Len(ss) = {} /\ <<>> \in Seq(S)
    BY <1>1
  <2>3. Flat(ss, ss, Len(ss))
    BY <2>2 DEF Flat
  <2> QED BY <2>1, <2>2, <2>3
<1>2. CASE Len(ss) # 0
  <2>1. PICK n \in Nat : n = Len(ss)
    OBVIOUS
  <2> DEFINE f == CHOOSE f : Flattens(f, ss, Len(ss))
  <2>2. Flattens(f, ss, n)
    BY <2>1, FlattensExists, Zenon
  <2>3. FlattenSeq(ss) = f[Len(ss)]
    BY <1>2, Zenon DEF FlattenSeq, Flattens
  <2> HIDE DEF f
  <2>4. \A i \in 1 .. n : f[i] = IF i = 1 THEN ss[i] ELSE f[i - 1] \o ss[i]
    BY <2>2, Zenon DEF Flattens
  <2> DEFINE Odd == {i \in 1 .. n : ~(f[i] \in Seq(S) /\ Flat(f[i], ss, i))}
  <2>5. Odd = {}
    <3> SUFFICES ASSUME Odd # {} PROVE FALSE
      OBVIOUS
    <3>1. Odd \in SUBSET Nat
      OBVIOUS
    <3> HIDE DEF Odd
    <3>2. PICK i \in Odd : \A j \in Odd : i <= j
      BY <3>1, Least
    <3>3. i \in 1 .. n /\ ~(f[i] \in Seq(S) /\ Flat(f[i], ss, i))
      BY <3>2 DEF Odd
    <3>4. CASE i = 1
      <4>1. f[1] = ss[1] /\ ss[1] \in Seq(S)
        BY <2>1, <2>4, <3>3, <3>4
      <4>2. PICK t \in Seq(S) : t = ss[1]
        BY <4>1
      <4>3. Flat(t, ss, 1)
        <5>1. \A a, b \in Nat : a \in 1 .. Len(t) => From(t, ss, a, 1, a)
          BY <4>2 DEF From
        <5>2. 1 \in 1 .. 1 /\ \A k \in 1 .. 1 : k = 1
          OBVIOUS
        <5>3. \A a \in 1 .. Len(t) : a \in Nat
          BY <4>2
        <5> QED BY <4>2, <5>1, <5>2, <5>3 DEF Flat
      <4> QED BY <3>3, <3>4, <4>1, <4>2, <4>3
    <3>5. CASE i # 1
      <4>1. i - 1 \in 1 .. n /\ i - 1 \notin Odd /\ (i - 1) + 1 = i /\ i - 1 \in Nat
        BY <3>2, <3>3, <3>5
      <4>2. f[i - 1] \in Seq(S) /\ Flat(f[i - 1], ss, i - 1)
        BY <4>1 DEF Odd
      <4>3. (i - 1) + 1 \in 1 .. Len(ss)
        BY <2>1, <3>3, <4>1
      <4>4. f[i - 1] \o ss[(i - 1) + 1] \in Seq(S) /\ Flat(f[i - 1] \o ss[(i - 1) + 1], ss, (i - 1) + 1)
        BY <4>1, <4>2, <4>3, FlatStep
      <4> QED BY <2>4, <3>3, <3>5, <4>1, <4>4
    <3> QED BY <3>4, <3>5
  <2>6. n \in 1 .. n /\ n \notin Odd
    BY <1>2, <2>1, <2>5
  <2> QED BY <2>1, <2>3, <2>6
<1> QED BY <1>1, <1>2

-----------------------------------------------------------------------------
(* The onsets of a sample.                                                 *)

Onset(before, s) == s.sev > 0 /\ ~HasSignal(before, s.type)

EventAt(at, sample, n) ==
  [at |-> at, key |-> sample.key, type |-> sample.signals[n].type, sev |-> sample.signals[n].sev]

Picks(f, at, before, sample, n) ==
  f = [m \in 0 .. n |->
         IF m = 0 THEN <<>>
         ELSE IF Onset(before, sample.signals[m]) THEN Append(f[m - 1], EventAt(at, sample, m)) ELSE f[m - 1]]

LEMMA PicksExists ==
  ASSUME NEW at, NEW before, NEW sample, NEW n \in Nat
  PROVE  \E f : Picks(f, at, before, sample, n)
<1> DEFINE Stuck == {k \in Nat : ~\E f : Picks(f, at, before, sample, k)}
<1> SUFFICES ASSUME Stuck # {} PROVE FALSE
  OBVIOUS
<1>1. Stuck \in SUBSET Nat
  OBVIOUS
<1> HIDE DEF Stuck
<1>2. PICK k \in Stuck : \A j \in Stuck : k <= j
  BY <1>1, Least
<1>3. k \in Nat
  BY <1>1, <1>2
<1>4. CASE k = 0
  <2> DEFINE f == [m \in 0 .. 0 |-> <<>>]
  <2>1. Picks(f, at, before, sample, 0)
    BY DEF Picks
  <2> HIDE DEF f
  <2> QED BY <1>2, <1>4, <2>1 DEF Stuck
<1>5. CASE k # 0
  <2>1. k - 1 \in Nat /\ k - 1 \notin Stuck
    BY <1>2, <1>3, <1>5
  <2>2. PICK f : Picks(f, at, before, sample, k - 1)
    BY <2>1 DEF Stuck
  <2> DEFINE last == IF Onset(before, sample.signals[k])
                     THEN Append(f[k - 1], EventAt(at, sample, k)) ELSE f[k - 1]
             g == [m \in 0 .. k |-> IF m < k THEN f[m] ELSE last]
  <2>3. ASSUME NEW m \in 0 .. k
        PROVE  g[m] = IF m = 0 THEN <<>>
                      ELSE IF Onset(before, sample.signals[m])
                           THEN Append(g[m - 1], EventAt(at, sample, m)) ELSE g[m - 1]
    <3>1. \A j \in 0 .. k - 1 :
            f[j] = IF j = 0 THEN <<>>
                   ELSE IF Onset(before, sample.signals[j])
                        THEN Append(f[j - 1], EventAt(at, sample, j)) ELSE f[j - 1]
      BY <2>2, Zenon DEF Picks
    <3>2. \A j \in 0 .. k - 1 : g[j] = f[j]
      BY <1>3
    <3>3. g[k] = last
      BY <1>3
    <3> HIDE DEF g
    <3>4. CASE m = k
      <4>1. g[k - 1] = f[k - 1]
        BY <1>3, <1>5, <3>2
      <4> QED BY <1>5, <3>3, <3>4, <4>1
    <3>5. CASE m # k
      <4>1. m \in 0 .. k - 1 /\ (m # 0 => m - 1 \in 0 .. k - 1)
        BY <1>3, <3>5
      <4> QED BY <3>1, <3>2, <4>1
    <3> QED BY <3>4, <3>5
  <2>4. g = [m \in 0 .. k |-> g[m]]
    OBVIOUS
  <2> HIDE DEF g
  <2>5. Picks(g, at, before, sample, k)
    BY <2>3, <2>4 DEF Picks
  <2> QED BY <1>2, <2>5 DEF Stuck
<1> QED BY <1>4, <1>5

(* Event i of s is that of signal m, an onset.                             *)
OnsetOf(s, at, before, sample, i, m) ==
  Onset(before, sample.signals[m]) /\ s[i] = EventAt(at, sample, m)

(* s holds the onsets of the first n signals, each, in their order.        *)
Picked(s, at, before, sample, n) ==
  /\ \A m \in 1 .. n : Onset(before, sample.signals[m]) =>
       \E i \in 1 .. Len(s) : s[i] = EventAt(at, sample, m)
  /\ \A i \in 1 .. Len(s) : \E m \in 1 .. n : OnsetOf(s, at, before, sample, i, m)
  /\ \A i, j \in 1 .. Len(s) : i < j =>
       \E m, l \in 1 .. n : /\ m < l
                            /\ OnsetOf(s, at, before, sample, i, m)
                            /\ OnsetOf(s, at, before, sample, j, l)

LEMMA PickedStep ==
  ASSUME NEW at, NEW before, NEW sample, NEW n \in Nat \ {0},
         NEW S, NEW s \in Seq(S), EventAt(at, sample, n) \in S,
         Picked(s, at, before, sample, n - 1)
  PROVE  IF Onset(before, sample.signals[n])
         THEN /\ Append(s, EventAt(at, sample, n)) \in Seq(S)
              /\ Picked(Append(s, EventAt(at, sample, n)), at, before, sample, n)
         ELSE Picked(s, at, before, sample, n)
<1>0. n \in 1 .. n /\ \A m \in 1 .. n - 1 : m \in 1 .. n /\ m < n
  OBVIOUS
<1>1. CASE Onset(before, sample.signals[n])
  <2>1. PICK e \in S : e = EventAt(at, sample, n)
    OBVIOUS
  <2>2. PICK u : u = Append(s, e)
    OBVIOUS
  <2>3. /\ u \in Seq(S) /\ Len(s) \in Nat /\ Len(u) = Len(s) + 1
        /\ u[Len(u)] = e /\ Len(u) \in 1 .. Len(u)
        /\ \A i \in 1 .. Len(s) : i \in 1 .. Len(u) /\ u[i] = s[i]
        /\ \A i \in 1 .. Len(u) : i \in 1 .. Len(s) \/ i = Len(u)
    BY <2>2
  <2>4. OnsetOf(u, at, before, sample, Len(u), n)
    BY <1>1, <2>1, <2>3 DEF OnsetOf
  <2>5. ASSUME NEW i \in 1 .. Len(s), NEW m, OnsetOf(s, at, before, sample, i, m)
        PROVE  OnsetOf(u, at, before, sample, i, m)
    BY <2>3, <2>5 DEF OnsetOf
  <2>6. ASSUME NEW m \in 1 .. n, Onset(before, sample.signals[m])
        PROVE  \E i \in 1 .. Len(u) : u[i] = EventAt(at, sample, m)
    <3>1. CASE m = n
      BY <2>1, <2>3, <3>1
    <3>2. CASE m # n
      <4>1. PICK i \in 1 .. Len(s) : s[i] = EventAt(at, sample, m)
        BY <2>6, <3>2 DEF Picked
      <4> QED BY <2>3, <4>1
    <3> QED BY <3>1, <3>2
  <2>7. ASSUME NEW i \in 1 .. Len(u)
        PROVE  \E m \in 1 .. n : OnsetOf(u, at, before, sample, i, m)
    <3>1. CASE i \in 1 .. Len(s)
      <4>1. PICK m \in 1 .. n - 1 : OnsetOf(s, at, before, sample, i, m)
        BY <3>1 DEF Picked
      <4> QED BY <1>0, <2>5, <3>1, <4>1
    <3> QED BY <1>0, <2>3, <2>4, <3>1
  <2>8. ASSUME NEW i \in 1 .. Len(u), NEW j \in 1 .. Len(u), i < j
        PROVE  \E m, l \in 1 .. n : /\ m < l
                                    /\ OnsetOf(u, at, before, sample, i, m)
                                    /\ OnsetOf(u, at, before, sample, j, l)
    <3>0. i \in 1 .. Len(s)
      BY <2>3, <2>8
    <3>1. CASE j \in 1 .. Len(s)
      <4>1. PICK m \in 1 .. n - 1, l \in 1 .. n - 1 :
              m < l /\ OnsetOf(s, at, before, sample, i, m) /\ OnsetOf(s, at, before, sample, j, l)
        BY <2>8, <3>0, <3>1 DEF Picked
      <4>2. OnsetOf(u, at, before, sample, i, m) /\ OnsetOf(u, at, before, sample, j, l)
        BY <2>5, <3>0, <3>1, <4>1
      <4> QED BY <1>0, <4>1, <4>2
    <3>2. CASE j = Len(u)
      <4>1. PICK m \in 1 .. n - 1 : OnsetOf(s, at, before, sample, i, m)
        BY <3>0 DEF Picked
      <4>2. OnsetOf(u, at, before, sample, i, m)
        BY <2>5, <3>0, <4>1
      <4> QED BY <1>0, <2>4, <3>2, <4>1, <4>2
    <3> QED BY <2>3, <3>1, <3>2
  <2>9. Picked(u, at, before, sample, n)
    BY <2>6, <2>7, <2>8 DEF Picked
  <2> QED BY <1>1, <2>1, <2>2, <2>3, <2>9
<1>2. CASE ~Onset(before, sample.signals[n])
  <2>1. ASSUME NEW m \in 1 .. n, Onset(before, sample.signals[m])
        PROVE  \E i \in 1 .. Len(s) : s[i] = EventAt(at, sample, m)
    <3>1. m # n
      BY <1>2, <2>1
    <3>2. m \in 1 .. n - 1
      BY <3>1
    <3> QED BY <2>1, <3>2 DEF Picked
  <2>2. ASSUME NEW i \in 1 .. Len(s)
        PROVE  \E m \in 1 .. n : OnsetOf(s, at, before, sample, i, m)
    <3>1. PICK m \in 1 .. n - 1 : OnsetOf(s, at, before, sample, i, m)
      BY DEF Picked
    <3> QED BY <1>0, <3>1
  <2>3. ASSUME NEW i \in 1 .. Len(s), NEW j \in 1 .. Len(s), i < j
        PROVE  \E m, l \in 1 .. n : /\ m < l
                                    /\ OnsetOf(s, at, before, sample, i, m)
                                    /\ OnsetOf(s, at, before, sample, j, l)
    <3>1. PICK m \in 1 .. n - 1, l \in 1 .. n - 1 :
            m < l /\ OnsetOf(s, at, before, sample, i, m) /\ OnsetOf(s, at, before, sample, j, l)
      BY <2>3 DEF Picked
    <3> QED BY <1>0, <3>1
  <2>4. Picked(s, at, before, sample, n)
    BY <2>1, <2>2, <2>3 DEF Picked
  <2> QED BY <1>2, <2>4
<1> QED BY <1>1, <1>2

LEMMA EventsOfIs ==
  ASSUME NEW at, NEW prev, NEW sample, Len(sample.signals) \in Nat,
         NEW S, \A m \in 1 .. Len(sample.signals) : EventAt(at, sample, m) \in S
  PROVE  /\ EventsOf(at, prev, sample) \in Seq(S)
         /\ Picked(EventsOf(at, prev, sample), at, Before(prev, sample.key), sample, Len(sample.signals))
<1> DEFINE before == Before(prev, sample.key)
           f == CHOOSE f : Picks(f, at, before, sample, Len(sample.signals))
<1>1. PICK n \in Nat : n = Len(sample.signals)
  OBVIOUS
<1>2. Picks(f, at, before, sample, n)
  BY <1>1, PicksExists, Zenon
<1>3. EventsOf(at, prev, sample) = f[Len(sample.signals)]
  BY Zenon DEF EventsOf, Picks, Onset, EventAt
<1> HIDE DEF f, before
<1>4. \A m \in 0 .. n :
        f[m] = IF m = 0 THEN <<>>
               ELSE IF Onset(before, sample.signals[m])
                    THEN Append(f[m - 1], EventAt(at, sample, m)) ELSE f[m - 1]
  BY <1>2, Zenon DEF Picks
<1> DEFINE Odd == {m \in 0 .. n : ~(f[m] \in Seq(S) /\ Picked(f[m], at, before, sample, m))}
<1>5. Odd = {}
  <2> SUFFICES ASSUME Odd # {} PROVE FALSE
    OBVIOUS
  <2>1. Odd \in SUBSET Nat
    OBVIOUS
  <2> HIDE DEF Odd
  <2>2. PICK m \in Odd : \A j \in Odd : m <= j
    BY <2>1, Least
  <2>3. m \in 0 .. n /\ ~(f[m] \in Seq(S) /\ Picked(f[m], at, before, sample, m))
    BY <2>2 DEF Odd
  <2>4. CASE m = 0
    <3>1. f[m] = <<>>
      BY <1>4, <2>3, <2>4
    <3>2. <<>> \in Seq(S) /\ 1 .. Len(<<>>) = {} /\ 1 .. m = {}
      BY <2>4
    <3>3. Picked(<<>>, at, before, sample, m)
      BY <3>2 DEF Picked
    <3> QED BY <2>3, <3>1, <3>2, <3>3
  <2>5. CASE m # 0
    <3>1. m - 1 \in 0 .. n /\ m - 1 \notin Odd /\ m \in Nat \ {0} /\ m \in 1 .. n
      BY <2>2, <2>3, <2>5
    <3>2. f[m - 1] \in Seq(S) /\ Picked(f[m - 1], at, before, sample, m - 1)
      BY <3>1 DEF Odd
    <3>3. PICK s \in Seq(S) : s = f[m - 1]
      BY <3>2
    <3>4. EventAt(at, sample, m) \in S
      BY <1>1, <3>1
    <3>5. PICK e : e = EventAt(at, sample, m)
      OBVIOUS
    <3>6. IF Onset(before, sample.signals[m])
          THEN Append(s, e) \in Seq(S) /\ Picked(Append(s, e), at, before, sample, m)
          ELSE Picked(s, at, before, sample, m)
      BY <3>1, <3>2, <3>3, <3>4, <3>5, PickedStep
    <3>7. f[m] = IF Onset(before, sample.signals[m]) THEN Append(s, e) ELSE s
      BY <1>4, <2>3, <2>5, <3>3, <3>5
    <3> QED BY <2>3, <3>6, <3>7, Zenon
  <2> QED BY <2>4, <2>5
<1>6. n \in 0 .. n /\ n \notin Odd
  BY <1>5
<1> QED BY <1>1, <1>3, <1>6 DEF before

-----------------------------------------------------------------------------
(* The signals of a poll before.                                           *)

(* A snapshot: the samples of a poll, in the order of their keys.          *)
LEMMA SamplesAre ==
  ASSUME NEW samples \in Snapshots
  PROVE  /\ Len(samples) \in Nat /\ DOMAIN samples = 1 .. Len(samples)
         /\ \A i \in 1 .. Len(samples) : Sampled(samples[i])
         /\ \A i, j \in 1 .. Len(samples) : i < j => samples[i].key < samples[j].key
<1>1. PICK X : samples \in Seq(X)
  BY EventsAssumption
<1>2. Len(samples) \in Nat /\ DOMAIN samples = 1 .. Len(samples)
  BY <1>1
<1>3. \A i \in DOMAIN samples : Sampled(samples[i])
  BY EventsAssumption
<1>4. \A i, j \in DOMAIN samples : i < j => samples[i].key < samples[j].key
  BY EventsAssumption
<1> QED BY <1>2, <1>3, <1>4

(* The merge finds the sample of a key when there is one.                  *)
LEMMA BeforeIs ==
  ASSUME NEW prev, prev \in Snapshots \cup {<<>>}, NEW key, NEW type
  PROVE  HasSignal(Before(prev, key), type)
           <=> \E j \in 1 .. Len(prev) : prev[j].key = key /\ HasSignal(prev[j].signals, type)
<1>1. /\ Len(prev) \in Nat /\ DOMAIN prev = 1 .. Len(prev)
      /\ \A i \in 1 .. Len(prev) : prev[i].key \in Int
      /\ \A i, j \in 1 .. Len(prev) : i < j => prev[i].key < prev[j].key
  <2>1. CASE prev \in Snapshots
    BY <2>1, SamplesAre DEF Sampled
  <2>2. CASE prev = <<>>
    BY <2>2
  <2> QED BY <2>1, <2>2
<1> DEFINE Less == {j \in DOMAIN prev : prev[j].key < key}
<1>2. Cardinality(Less) \in Nat
  <2>1. IsFiniteSet(1 .. Len(prev))
    BY <1>1, FS_Interval
  <2>2. IsFiniteSet(Less)
    BY <1>1, <2>1, FS_Subset
  <2> QED BY <2>2, FS_CardinalityType
<1>3. ASSUME NEW j \in 1 .. Len(prev), prev[j].key = key
      PROVE  Pointer(prev, key) = j
  <2>1. Less = 1 .. j - 1
    <3>1. ASSUME NEW i \in 1 .. Len(prev)
          PROVE  prev[i].key < key <=> i < j
      BY <1>1, <1>3, <3>1
    <3> QED BY <1>1, <3>1
  <2>2. Cardinality(1 .. j - 1) = j - 1
    <3>1. 1 \in Int /\ j - 1 \in Int
      BY <1>1
    <3> QED BY <1>1, <3>1, FS_Interval
  <2>3. Pointer(prev, key) = Cardinality(Less) + 1
    BY DEF Pointer
  <2> HIDE DEF Less
  <2>4. Pointer(prev, key) = (j - 1) + 1
    BY <2>1, <2>2, <2>3
  <2> QED BY <1>1, <2>4
<1>4. PICK p : p = Pointer(prev, key)
  OBVIOUS
<1>5. p \in Nat \ {0}
  BY <1>2, <1>4 DEF Pointer
<1>6. Before(prev, key) = IF p <= Len(prev) /\ prev[p].key = key THEN prev[p].signals ELSE <<>>
  BY <1>4 DEF Before
<1>7. CASE p <= Len(prev) /\ prev[p].key = key
  <2>1. p \in 1 .. Len(prev)
    BY <1>1, <1>5, <1>7
  <2>2. \A j \in 1 .. Len(prev) : prev[j].key = key => j = p
    BY <1>3, <1>4
  <2> QED BY <1>6, <1>7, <2>1, <2>2
<1>8. CASE ~(p <= Len(prev) /\ prev[p].key = key)
  <2>1. ~HasSignal(Before(prev, key), type)
    BY <1>6, <1>8 DEF HasSignal
  <2>2. \A j \in 1 .. Len(prev) : prev[j].key # key
    BY <1>1, <1>3, <1>4, <1>8
  <2> QED BY <2>1, <2>2
<1> QED BY <1>7, <1>8

-----------------------------------------------------------------------------
(* What is collected from a list of snapshots.                             *)

(* Snapshots of polls, one after the other.                                *)
Polled(snaps) ==
  /\ snaps \in Seq([at : Nat, samples : Snapshots])
  /\ \A k, l \in 1 .. Len(snaps) : k < l => snaps[k].at < snaps[l].at

Prev(snaps, k) == IF k = 1 THEN <<>> ELSE snaps[k - 1].samples

Event(snaps, k, i, m) == EventAt(snaps[k].at, snaps[k].samples[i], m)

(* Signal m of sample i of snapshot k is an onset.                         *)
IsOnset(snaps, k, i, m) ==
  /\ i \in 1 .. Len(snaps[k].samples)
  /\ m \in 1 .. Len(snaps[k].samples[i].signals)
  /\ Onset(Before(Prev(snaps, k), snaps[k].samples[i].key), snaps[k].samples[i].signals[m])

Events(snaps) == {Event(snaps, k, i, m) : k \in Nat, i \in Nat, m \in Nat}

SnapshotEvents(snaps, k) ==
  FlattenSeq([i \in DOMAIN snaps[k].samples |-> EventsOf(snaps[k].at, Prev(snaps, k), snaps[k].samples[i])])

LEMMA PolledIs ==
  ASSUME NEW snaps, Polled(snaps)
  PROVE  /\ Len(snaps) \in Nat /\ DOMAIN snaps = 1 .. Len(snaps)
         /\ \A k \in 1 .. Len(snaps) : k \in Nat /\ snaps[k].at \in Nat /\ snaps[k].samples \in Snapshots
         /\ \A k, l \in 1 .. Len(snaps) : k < l => snaps[k].at < snaps[l].at
<1> DEFINE Snap == [at : Nat, samples : Snapshots]
<1>1. snaps \in Seq(Snap)
  BY DEF Polled
<1>2. \A snap \in Snap : snap.at \in Nat /\ snap.samples \in Snapshots
  OBVIOUS
<1> HIDE DEF Snap
<1>3. Len(snaps) \in Nat /\ DOMAIN snaps = 1 .. Len(snaps) /\ \A k \in 1 .. Len(snaps) : snaps[k] \in Snap
  BY <1>1
<1> QED BY <1>2, <1>3 DEF Polled

(* Sample i of a snapshot has a signal m.                                  *)
Carries(samples, i, m) == i \in 1 .. Len(samples) /\ m \in 1 .. Len(samples[i].signals)

(* A sample has one signal of a type, a snapshot one sample of a key.      *)
LEMMA SignalsApart ==
  ASSUME NEW samples \in Snapshots, NEW at, NEW i, NEW j, NEW m, NEW n,
         Carries(samples, i, m), Carries(samples, j, n),
         EventAt(at, samples[i], m) = EventAt(at, samples[j], n)
  PROVE  i = j /\ m = n
<1>0. i \in 1 .. Len(samples) /\ j \in 1 .. Len(samples)
  BY DEF Carries
<1>1. samples[i].key \in Int /\ samples[j].key \in Int
  BY <1>0, SamplesAre DEF Sampled
<1>2. samples[i].key = samples[j].key /\ samples[i].signals[m].type = samples[j].signals[n].type
  BY DEF EventAt
<1>3. i = j
  BY <1>0, <1>1, <1>2, SamplesAre
<1>4. Sampled(samples[i])
  BY <1>0, SamplesAre
<1>5. PICK signals : signals = samples[i].signals
  OBVIOUS
<1>6. PICK X : signals \in Seq(X)
  BY <1>4, <1>5 DEF Sampled
<1>7. DOMAIN signals = 1 .. Len(signals)
  BY <1>6
<1>8. m \in DOMAIN signals /\ n \in DOMAIN signals
  BY <1>3, <1>5, <1>7 DEF Carries
<1>9. m = n
  BY <1>2, <1>3, <1>4, <1>5, <1>8 DEF Sampled
<1> QED BY <1>3, <1>9

(* The events of a snapshot are its onsets, each once.                     *)
LEMMA SnapshotEventsAre ==
  ASSUME NEW snaps, Polled(snaps), NEW k \in 1 .. Len(snaps),
         NEW t, t = SnapshotEvents(snaps, k)
  PROVE  /\ t \in Seq(Events(snaps))
         /\ \A i, m \in Nat : IsOnset(snaps, k, i, m) => \E a \in 1 .. Len(t) : t[a] = Event(snaps, k, i, m)
         /\ \A a \in 1 .. Len(t) : \E i, m \in Nat : IsOnset(snaps, k, i, m) /\ t[a] = Event(snaps, k, i, m)
         /\ \A a, b \in 1 .. Len(t) : a < b => t[a] # t[b]
<1>1. k \in Nat /\ snaps[k].samples \in Snapshots
  BY PolledIs
<1>2. PICK samples \in Snapshots : samples = snaps[k].samples
  BY <1>1
<1>3. Len(samples) \in Nat /\ DOMAIN samples = 1 .. Len(samples)
  BY SamplesAre
<1>4. PICK at : at = snaps[k].at
  OBVIOUS
<1>5. PICK prev : prev = Prev(snaps, k)
  OBVIOUS
<1> DEFINE S == Events(snaps)
           Collected(i) == EventsOf(at, prev, samples[i])
           before(i) == Before(prev, samples[i].key)
           Signals(i) == Len(samples[i].signals)
<1>6. PICK ss : ss = [i \in 1 .. Len(samples) |-> Collected(i)]
  OBVIOUS
<1>7. t = FlattenSeq(ss)
  BY <1>2, <1>3, <1>4, <1>5, <1>6 DEF SnapshotEvents
<1>8. ASSUME NEW i \in 1 .. Len(samples)
      PROVE  /\ Collected(i) \in Seq(S)
             /\ Picked(Collected(i), at, before(i), samples[i], Signals(i))
             /\ Signals(i) \in Nat
  <2>1. \A m \in 1 .. Signals(i) : EventAt(at, samples[i], m) \in S
    <3>1. \A m \in 1 .. Signals(i) : m \in Nat
      OBVIOUS
    <3>2. i \in Nat
      OBVIOUS
    <3>3. \A m \in Nat : EventAt(at, samples[i], m) = Event(snaps, k, i, m)
      BY <1>2, <1>4 DEF Event
    <3> QED BY <1>1, <3>1, <3>2, <3>3 DEF Events
  <2>2. Signals(i) \in Nat
    <3>1. Sampled(samples[i])
      BY SamplesAre
    <3>2. PICK X : samples[i].signals \in Seq(X)
      BY <3>1 DEF Sampled
    <3> QED BY <3>2
  <2>3. PICK sample : sample = samples[i]
    OBVIOUS
  <2> HIDE DEF S
  <2> QED BY <2>1, <2>2, <2>3, EventsOfIs
<1> HIDE DEF S, Collected, before, Signals
<1>9. Len(ss) = Len(samples) /\ ss \in Seq(Seq(S)) /\ \A i \in 1 .. Len(samples) : ss[i] = Collected(i)
  BY <1>3, <1>6, <1>8
<1>10. t \in Seq(S) /\ Flat(t, ss, Len(samples))
  BY <1>7, <1>9, FlattenIs
<1>11. ASSUME NEW i \in 1 .. Len(samples), NEW a \in 1 .. Len(Collected(i))
       PROVE  \E m \in 1 .. Signals(i) : OnsetOf(Collected(i), at, before(i), samples[i], a, m)
  BY <1>8 DEF Picked
<1>12. ASSUME NEW i \in 1 .. Len(samples), NEW a, NEW m \in 1 .. Signals(i),
              OnsetOf(Collected(i), at, before(i), samples[i], a, m)
       PROVE  m \in Nat /\ IsOnset(snaps, k, i, m) /\ Collected(i)[a] = Event(snaps, k, i, m)
  <2>1. Onset(before(i), samples[i].signals[m]) /\ Collected(i)[a] = EventAt(at, samples[i], m)
    BY <1>12 DEF OnsetOf
  <2>2. Collected(i)[a] = Event(snaps, k, i, m)
    BY <1>2, <1>4, <2>1 DEF Event
  <2>3. IsOnset(snaps, k, i, m)
    BY <1>2, <1>5, <2>1 DEF IsOnset, before, Signals
  <2> QED BY <1>8, <2>2, <2>3
<1>13. ASSUME NEW i \in Nat, NEW m \in Nat, IsOnset(snaps, k, i, m)
       PROVE  \E a \in 1 .. Len(t) : t[a] = Event(snaps, k, i, m)
  <2>1. i \in 1 .. Len(samples) /\ m \in 1 .. Signals(i) /\ Onset(before(i), samples[i].signals[m])
    BY <1>2, <1>5, <1>13 DEF IsOnset, before, Signals
  <2>2. PICK a \in 1 .. Len(Collected(i)) : Collected(i)[a] = EventAt(at, samples[i], m)
    BY <1>8, <2>1 DEF Picked
  <2>3. PICK b \in 1 .. Len(t) : t[b] = ss[i][a]
    BY <1>9, <1>10, <2>1, <2>2 DEF Flat
  <2> QED BY <1>2, <1>4, <1>9, <2>1, <2>2, <2>3 DEF Event
<1>14. ASSUME NEW b \in 1 .. Len(t)
       PROVE  \E i, m \in Nat : IsOnset(snaps, k, i, m) /\ t[b] = Event(snaps, k, i, m)
  <2>1. PICK i \in 1 .. Len(samples), a \in Nat : From(t, ss, b, i, a)
    BY <1>10 DEF Flat
  <2>2. a \in 1 .. Len(Collected(i)) /\ t[b] = Collected(i)[a] /\ i \in Nat
    BY <1>3, <1>9, <2>1 DEF From
  <2>3. PICK m \in 1 .. Signals(i) : OnsetOf(Collected(i), at, before(i), samples[i], a, m)
    BY <1>11, <2>2
  <2> QED BY <1>12, <2>2, <2>3
<1>15. ASSUME NEW c \in 1 .. Len(t), NEW d \in 1 .. Len(t), c < d, t[c] = t[d]
       PROVE  FALSE
  <2>1. PICK i \in 1 .. Len(samples), j \in 1 .. Len(samples), a \in Nat, b \in Nat :
          /\ From(t, ss, c, i, a) /\ From(t, ss, d, j, b)
          /\ i < j \/ (i = j /\ a < b)
    BY <1>10, <1>15 DEF Flat
  <2>2. /\ a \in 1 .. Len(Collected(i)) /\ t[c] = Collected(i)[a]
        /\ b \in 1 .. Len(Collected(j)) /\ t[d] = Collected(j)[b]
    BY <1>9, <2>1 DEF From
  <2>3. ASSUME NEW m \in 1 .. Signals(i), OnsetOf(Collected(i), at, before(i), samples[i], a, m),
               NEW n \in 1 .. Signals(j), OnsetOf(Collected(j), at, before(j), samples[j], b, n)
        PROVE  i = j /\ m = n
    <3>1. EventAt(at, samples[i], m) = EventAt(at, samples[j], n)
      BY <1>15, <2>2, <2>3 DEF OnsetOf
    <3>2. Carries(samples, i, m) /\ Carries(samples, j, n)
      BY DEF Carries, Signals
    <3> QED BY <3>1, <3>2, SignalsApart
  <2>4. CASE i < j
    <3>1. PICK m \in 1 .. Signals(i) : OnsetOf(Collected(i), at, before(i), samples[i], a, m)
      BY <1>11, <2>2
    <3>2. PICK n \in 1 .. Signals(j) : OnsetOf(Collected(j), at, before(j), samples[j], b, n)
      BY <1>11, <2>2
    <3>3. i = j
      BY <2>3, <3>1, <3>2
    <3> QED BY <2>4, <3>3
  <2>5. CASE i = j /\ a < b
    <3>1. PICK m \in 1 .. Signals(i), n \in 1 .. Signals(i) :
            /\ m < n
            /\ OnsetOf(Collected(i), at, before(i), samples[i], a, m)
            /\ OnsetOf(Collected(i), at, before(i), samples[i], b, n)
      BY <1>8, <2>2, <2>5 DEF Picked
    <3>2. m = n
      BY <2>3, <2>5, <3>1
    <3>3. m \in Int /\ n \in Int
      BY <1>8
    <3> QED BY <3>1, <3>2, <3>3
  <2> QED BY <2>1, <2>4, <2>5
<1> QED BY <1>10, <1>13, <1>14, <1>15 DEF S

(* The list holds the onsets of the snapshots, each once, in the order of  *)
(* time.                                                                   *)
AreOnsets(list, snaps) ==
  /\ list \in Seq(Events(snaps))
  /\ \A k \in 1 .. Len(snaps) : \A i, m \in Nat :
       IsOnset(snaps, k, i, m) => \E a \in 1 .. Len(list) : list[a] = Event(snaps, k, i, m)
  /\ \A a \in 1 .. Len(list) : \E k \in 1 .. Len(snaps), i, m \in Nat :
       IsOnset(snaps, k, i, m) /\ list[a] = Event(snaps, k, i, m)
  /\ \A a, b \in 1 .. Len(list) : a < b => list[a] # list[b] /\ list[a].at <= list[b].at

LEMMA CollectEventsAre ==
  ASSUME NEW snaps, Polled(snaps)
  PROVE  AreOnsets(CollectEvents(snaps), snaps)
<1>0. PICK t : t = CollectEvents(snaps)
  OBVIOUS
<1>1. /\ Len(snaps) \in Nat /\ DOMAIN snaps = 1 .. Len(snaps)
      /\ \A k \in 1 .. Len(snaps) : snaps[k].at \in Nat
  BY PolledIs
<1> DEFINE S == Events(snaps)
           Collected(k) == SnapshotEvents(snaps, k)
<1>2. PICK ss : ss = [k \in 1 .. Len(snaps) |-> Collected(k)]
  OBVIOUS
<1>3. t = FlattenSeq(ss)
  <2>1. CollectEvents(snaps) = FlattenSeq([k \in DOMAIN snaps |-> Collected(k)])
    BY DEF CollectEvents, SnapshotEvents, Prev
  <2> QED BY <1>0, <1>1, <1>2, <2>1
<1>4. ASSUME NEW k \in 1 .. Len(snaps)
      PROVE  Collected(k) \in Seq(S)
  BY SnapshotEventsAre
<1>5. ASSUME NEW k \in 1 .. Len(snaps), NEW i \in Nat, NEW m \in Nat, IsOnset(snaps, k, i, m)
      PROVE  \E a \in 1 .. Len(Collected(k)) : Collected(k)[a] = Event(snaps, k, i, m)
  BY <1>5, SnapshotEventsAre
<1>6. ASSUME NEW k \in 1 .. Len(snaps), NEW a \in 1 .. Len(Collected(k))
      PROVE  \E i, m \in Nat : IsOnset(snaps, k, i, m) /\ Collected(k)[a] = Event(snaps, k, i, m)
  BY SnapshotEventsAre
<1>7. ASSUME NEW k \in 1 .. Len(snaps), NEW a \in 1 .. Len(Collected(k)),
             NEW b \in 1 .. Len(Collected(k)), a < b
      PROVE  Collected(k)[a] # Collected(k)[b]
  BY <1>7, SnapshotEventsAre
<1> HIDE DEF S, Collected
<1>8. ASSUME NEW k \in 1 .. Len(snaps), NEW a \in 1 .. Len(Collected(k))
      PROVE  Collected(k)[a].at = snaps[k].at
  <2>1. PICK i \in Nat, m \in Nat : Collected(k)[a] = Event(snaps, k, i, m)
    BY <1>6
  <2>2. Event(snaps, k, i, m).at = snaps[k].at
    BY DEF Event, EventAt
  <2> QED BY <2>1, <2>2
<1>9. Len(ss) = Len(snaps) /\ ss \in Seq(Seq(S)) /\ \A k \in 1 .. Len(snaps) : ss[k] = Collected(k)
  BY <1>1, <1>2, <1>4
<1>10. t \in Seq(S) /\ Flat(t, ss, Len(snaps))
  BY <1>3, <1>9, FlattenIs
<1>11. ASSUME NEW k \in 1 .. Len(snaps), NEW i \in Nat, NEW m \in Nat, IsOnset(snaps, k, i, m)
       PROVE  \E b \in 1 .. Len(t) : t[b] = Event(snaps, k, i, m)
  <2>1. PICK a \in 1 .. Len(Collected(k)) : Collected(k)[a] = Event(snaps, k, i, m)
    BY <1>5, <1>11
  <2>2. PICK b \in 1 .. Len(t) : t[b] = ss[k][a]
    BY <1>9, <1>10 DEF Flat
  <2> QED BY <1>9, <2>1, <2>2
<1>12. ASSUME NEW b \in 1 .. Len(t)
       PROVE  \E k \in 1 .. Len(snaps), i, m \in Nat : IsOnset(snaps, k, i, m) /\ t[b] = Event(snaps, k, i, m)
  <2>1. PICK k \in 1 .. Len(snaps), a \in Nat : From(t, ss, b, k, a)
    BY <1>10 DEF Flat
  <2>2. a \in 1 .. Len(Collected(k)) /\ t[b] = Collected(k)[a]
    BY <1>9, <2>1 DEF From
  <2>3. PICK i \in Nat, m \in Nat : IsOnset(snaps, k, i, m) /\ Collected(k)[a] = Event(snaps, k, i, m)
    BY <1>6, <2>2
  <2> QED BY <2>2, <2>3
<1>13. ASSUME NEW c \in 1 .. Len(t), NEW d \in 1 .. Len(t), c < d
       PROVE  t[c] # t[d] /\ t[c].at <= t[d].at
  <2>1. PICK k \in 1 .. Len(snaps), l \in 1 .. Len(snaps), a \in Nat, b \in Nat :
          /\ From(t, ss, c, k, a) /\ From(t, ss, d, l, b)
          /\ k < l \/ (k = l /\ a < b)
    BY <1>10, <1>13 DEF Flat
  <2>2. /\ a \in 1 .. Len(Collected(k)) /\ t[c] = Collected(k)[a]
        /\ b \in 1 .. Len(Collected(l)) /\ t[d] = Collected(l)[b]
    BY <1>9, <2>1 DEF From
  <2>3. t[c].at = snaps[k].at /\ t[d].at = snaps[l].at
    BY <1>8, <2>2
  <2>4. CASE k < l
    <3>1. snaps[k].at < snaps[l].at /\ snaps[k].at \in Nat /\ snaps[l].at \in Nat
      BY <1>1, <2>4 DEF Polled
    <3> QED BY <2>3, <3>1
  <2>5. CASE k = l /\ a < b
    <3>1. t[c] # t[d]
      BY <1>7, <2>2, <2>5
    <3> QED BY <1>1, <2>3, <2>5, <3>1
  <2> QED BY <2>1, <2>4, <2>5
<1> QED BY <1>0, <1>10, <1>11, <1>12, <1>13 DEF S, AreOnsets

-----------------------------------------------------------------------------
(* The events are the onsets.                                              *)

(* The buffer is a list of polls, none of them after the last update.      *)
RingInv ==
  /\ lastUpdate \in Nat
  /\ Polled(ring)
  /\ \A k \in 1 .. Len(ring) : ring[k].at <= lastUpdate

LEMMA RingStep == RingInv /\ [Next]_vars => RingInv'
<1> SUFFICES ASSUME RingInv, [Next]_vars
             PROVE  RingInv'
  OBVIOUS
<1>1. ASSUME NEW samples \in Snapshots, NEW step \in Steps, Poll(samples, step)
      PROVE  RingInv'
  <2> DEFINE Snap == [at : Nat, samples : Snapshots]
  <2>1. PICK now : now = lastUpdate'
    OBVIOUS
  <2>2. now = lastUpdate + step /\ now \in Nat /\ now > lastUpdate
    BY <1>1, <2>1, EventsAssumption DEF Poll, RingInv
  <2>3. PICK snap : snap = [at |-> now, samples |-> samples]
    OBVIOUS
  <2>4. snap \in Snap /\ snap.at = now
    BY <2>2, <2>3
  <2>5. PICK longer : longer = Append(ring, snap)
    OBVIOUS
  <2>6. ring' = IF Len(longer) > BufferSize THEN Tail(longer) ELSE longer
    BY <1>1, <2>1, <2>3, <2>5 DEF Poll
  <2>7. PICK old \in Seq(Snap) : old = ring
    BY DEF RingInv, Polled
  <2>8. \A k, l \in 1 .. Len(old) : k < l => old[k].at < old[l].at
    BY <2>7 DEF RingInv, Polled
  <2>9. \A k \in 1 .. Len(old) : old[k].at \in Nat /\ old[k].at < now
    <3>1. \A k \in 1 .. Len(old) : old[k].at \in Nat
      BY <2>7, PolledIs DEF RingInv
    <3> QED BY <2>2, <2>7, <3>1 DEF RingInv
  <2> HIDE DEF Snap
  <2>10. /\ longer \in Seq(Snap) /\ Len(longer) = Len(old) + 1 /\ Len(old) \in Nat
         /\ \A k \in 1 .. Len(old) : longer[k] = old[k]
         /\ longer[Len(longer)] = snap
         /\ \A k \in 1 .. Len(longer) : k \in 1 .. Len(old) \/ k = Len(longer)
    BY <2>4, <2>5, <2>7
  <2>11. \A k \in 1 .. Len(longer) : longer[k].at <= now
    BY <2>2, <2>4, <2>9, <2>10
  <2>12. ASSUME NEW k \in 1 .. Len(longer), NEW l \in 1 .. Len(longer), k < l
         PROVE  longer[k].at < longer[l].at
    <3>1. k \in 1 .. Len(old)
      BY <2>10, <2>12
    <3> QED BY <2>4, <2>8, <2>9, <2>10, <2>12, <3>1
  <2>13. CASE ring' = longer
    <3>1. ring' \in Seq(Snap) /\ \A k, l \in 1 .. Len(ring') : k < l => ring'[k].at < ring'[l].at
      BY <2>10, <2>12, <2>13
    <3>2. \A k \in 1 .. Len(ring') : ring'[k].at <= lastUpdate'
      BY <2>1, <2>11, <2>13
    <3> QED BY <2>1, <2>2, <3>1, <3>2 DEF RingInv, Polled, Snap
  <2>14. CASE ring' = Tail(longer)
    <3>1. PICK t : t = Tail(longer)
      OBVIOUS
    <3>2. t \in Seq(Snap) /\ \A k \in 1 .. Len(t) : k + 1 \in 1 .. Len(longer) /\ t[k] = longer[k + 1]
      BY <2>10, <3>1
    <3>3. \A k, l \in 1 .. Len(t) : k < l => t[k].at < t[l].at
      BY <2>12, <3>2
    <3>4. \A k \in 1 .. Len(t) : t[k].at <= now
      BY <2>11, <3>2
    <3> QED BY <2>1, <2>2, <2>14, <3>1, <3>2, <3>3, <3>4 DEF RingInv, Polled, Snap
  <2> QED BY <2>6, <2>13, <2>14
<1>2. ASSUME UNCHANGED <<ring, lastUpdate>>
      PROVE  RingInv'
  BY <1>2 DEF RingInv, Polled
<1>3. CASE Switch
  BY <1>2, <1>3 DEF Switch
<1>4. ASSUME NEW h \in Heights, Resize(h)
      PROVE  RingInv'
  BY <1>2, <1>4 DEF Resize
<1>5. CASE Down \/ Up \/ PageDown \/ PageUp \/ Top \/ Bottom
  <2>1. PICK n : Scroll(n)
    BY <1>5 DEF Down, Up, PageDown, PageUp, Top, Bottom
  <2> QED BY <1>2, <2>1 DEF Scroll
<1>6. CASE UNCHANGED vars
  BY <1>2, <1>6 DEF vars
<1> QED BY <1>1, <1>3, <1>4, <1>5, <1>6 DEF Next

LEMMA RingInit == Init => RingInv
<1> SUFFICES ASSUME Init PROVE RingInv
  OBVIOUS
<1>1. ring = <<>> /\ lastUpdate = 0
  BY DEF Init
<1>2. 1 .. Len(ring) = {} /\ ring \in Seq([at : Nat, samples : Snapshots])
  BY <1>1
<1> QED BY <1>1, <1>2 DEF RingInv, Polled

(* An onset is a signal at warn or worse that the connection did not carry *)
(* in the snapshot before.                                                 *)
LEMMA OnsetIs ==
  ASSUME RingInv, NEW k \in 1 .. Len(ring), NEW i \in 1 .. Len(ring[k].samples), NEW s
  PROVE  Onset(Before(Prev(ring, k), ring[k].samples[i].key), s)
           <=> s.sev > 0 /\ (k > 1 => ~Carried(k - 1, ring[k].samples[i].key, s.type))
<1>1. PICK key : key = ring[k].samples[i].key
  OBVIOUS
<1>2. PICK prev : prev = Prev(ring, k)
  OBVIOUS
<1>3. Len(ring) \in Nat /\ \A l \in 1 .. Len(ring) : ring[l].samples \in Snapshots
  BY PolledIs DEF RingInv
<1>4. CASE k = 1
  <2>1. prev = <<>> /\ ~(k > 1) /\ 1 .. Len(prev) = {}
    BY <1>2, <1>4 DEF Prev
  <2>2. ~HasSignal(Before(prev, key), s.type)
    BY <2>1, BeforeIs
  <2> QED BY <1>1, <1>2, <2>1, <2>2 DEF Onset
<1>5. CASE k # 1
  <2>1. k - 1 \in 1 .. Len(ring) /\ k > 1
    BY <1>3, <1>5
  <2>2. prev = ring[k - 1].samples /\ prev \in Snapshots
    BY <1>2, <1>3, <1>5, <2>1 DEF Prev
  <2>3. DOMAIN prev = 1 .. Len(prev)
    BY <2>2, SamplesAre
  <2>4. HasSignal(Before(prev, key), s.type)
          <=> \E j \in 1 .. Len(prev) : prev[j].key = key /\ HasSignal(prev[j].signals, s.type)
    BY <2>2, BeforeIs
  <2>5. Carried(k - 1, key, s.type)
          <=> \E j \in 1 .. Len(prev) : prev[j].key = key /\ HasSignal(prev[j].signals, s.type)
    BY <2>2, <2>3 DEF Carried, SampleAt
  <2> QED BY <1>1, <1>2, <2>1, <2>4, <2>5 DEF Onset
<1> QED BY <1>4, <1>5

-----------------------------------------------------------------------------
LEMMA RingOnsets == RingInv => EventsAreOnsets
<1> SUFFICES ASSUME RingInv PROVE EventsAreOnsets
  OBVIOUS
<1> DEFINE signalsOf(k, i) == ring[k].samples[i].signals
           onsetsOf(k, i) == {[at |-> ring[k].at, key |-> ring[k].samples[i].key, type |-> s.type, sev |-> s.sev] :
                                s \in {signalsOf(k, i)[n] : n \in DOMAIN signalsOf(k, i)}}
           onsetsIn(k, i) == {e \in onsetsOf(k, i) : e.sev > 0 /\ (k > 1 => ~Carried(k - 1, e.key, e.type))}
           onsets == UNION {UNION {onsetsIn(k, i) : i \in DOMAIN ring[k].samples} : k \in DOMAIN ring}
<1>1. PICK events : events = CollectEvents(ring)
  OBVIOUS
<1>2. /\ Len(ring) \in Nat /\ DOMAIN ring = 1 .. Len(ring)
      /\ \A k \in 1 .. Len(ring) : k \in Nat /\ ring[k].samples \in Snapshots
  BY PolledIs DEF RingInv
<1>3. AreOnsets(events, ring)
  BY <1>1, CollectEventsAre DEF RingInv
<1>4. Len(events) \in Nat /\ DOMAIN events = 1 .. Len(events)
  BY <1>3 DEF AreOnsets
<1>5. ASSUME NEW k \in 1 .. Len(ring), NEW i \in 1 .. Len(ring[k].samples)
      PROVE  Len(signalsOf(k, i)) \in Nat /\ DOMAIN signalsOf(k, i) = 1 .. Len(signalsOf(k, i))
  <2>1. PICK samples \in Snapshots : samples = ring[k].samples
    BY <1>2
  <2>2. Sampled(samples[i])
    BY <2>1, SamplesAre
  <2>3. PICK signals : signals = samples[i].signals
    OBVIOUS
  <2>4. PICK X : signals \in Seq(X)
    BY <2>2, <2>3 DEF Sampled
  <2> QED BY <2>1, <2>3, <2>4
<1>6. ASSUME NEW k \in 1 .. Len(ring), NEW i \in 1 .. Len(ring[k].samples)
      PROVE  \A e : e \in onsetsIn(k, i) <=> \E m \in Nat : IsOnset(ring, k, i, m) /\ e = Event(ring, k, i, m)
  <2>1. PICK signals : signals = signalsOf(k, i)
    OBVIOUS
  <2>2. DOMAIN signals = 1 .. Len(signals) /\ Len(signals) \in Nat
    BY <1>5, <2>1
  <2>3. \A m : Event(ring, k, i, m) =
               [at |-> ring[k].at, key |-> ring[k].samples[i].key, type |-> signals[m].type, sev |-> signals[m].sev]
    BY <2>1 DEF Event, EventAt
  <2>4. onsetsOf(k, i) = {Event(ring, k, i, m) : m \in 1 .. Len(signals)}
    BY <2>1, <2>2, <2>3
  <2>5. \A m : IsOnset(ring, k, i, m) <=>
                 /\ m \in 1 .. Len(signals)
                 /\ signals[m].sev > 0
                 /\ k > 1 => ~Carried(k - 1, ring[k].samples[i].key, signals[m].type)
    <3>1. \A s : Onset(Before(Prev(ring, k), ring[k].samples[i].key), s)
                   <=> s.sev > 0 /\ (k > 1 => ~Carried(k - 1, ring[k].samples[i].key, s.type))
      BY OnsetIs
    <3> QED BY <2>1, <3>1 DEF IsOnset
  <2>6. \A m : LET e == Event(ring, k, i, m)
               IN  e.key = ring[k].samples[i].key /\ e.type = signals[m].type /\ e.sev = signals[m].sev
    BY <2>3
  <2>7. \A m \in 1 .. Len(signals) : m \in Nat
    BY <2>2
  <2> HIDE DEF onsetsOf, signalsOf
  <2>8. ASSUME NEW e, e \in onsetsIn(k, i)
        PROVE  \E m \in Nat : IsOnset(ring, k, i, m) /\ e = Event(ring, k, i, m)
    <3>1. PICK m \in 1 .. Len(signals) : e = Event(ring, k, i, m)
      BY <2>4, <2>8
    <3>2. e.sev > 0 /\ (k > 1 => ~Carried(k - 1, e.key, e.type))
      BY <2>8
    <3>3. IsOnset(ring, k, i, m)
      BY <2>5, <2>6, <3>1, <3>2
    <3> QED BY <2>7, <3>1, <3>3
  <2>9. ASSUME NEW m, IsOnset(ring, k, i, m)
        PROVE  Event(ring, k, i, m) \in onsetsIn(k, i)
    <3>1. m \in 1 .. Len(signals) /\ signals[m].sev > 0
          /\ (k > 1 => ~Carried(k - 1, ring[k].samples[i].key, signals[m].type))
      BY <2>5, <2>9
    <3>2. PICK e : e = Event(ring, k, i, m)
      OBVIOUS
    <3>3. e \in onsetsOf(k, i)
      BY <2>4, <3>1, <3>2
    <3>4. e.sev > 0 /\ (k > 1 => ~Carried(k - 1, e.key, e.type))
      BY <2>6, <3>1, <3>2
    <3> QED BY <3>2, <3>3, <3>4
  <2> HIDE DEF onsetsIn
  <2> QED BY <2>8, <2>9
<1>7. \A k \in 1 .. Len(ring) : DOMAIN ring[k].samples = 1 .. Len(ring[k].samples) /\ Len(ring[k].samples) \in Nat
  BY <1>2, SamplesAre
<1> HIDE DEF onsetsIn
<1>8. \A e : e \in onsets <=> \E k \in 1 .. Len(ring) : \E i \in 1 .. Len(ring[k].samples) : e \in onsetsIn(k, i)
  BY <1>2, <1>7
<1>9. EventsAreOnsets <=> /\ {events[a] : a \in DOMAIN events} = onsets
                          /\ Len(events) = Cardinality(onsets)
                          /\ \A a, b \in DOMAIN events : a < b => events[a].at <= events[b].at
  BY <1>1 DEF EventsAreOnsets, onsetsIn
<1> HIDE DEF onsets
<1>10. {events[a] : a \in DOMAIN events} = onsets
  <2>1. ASSUME NEW a \in 1 .. Len(events)
        PROVE  events[a] \in onsets
    <3>1. PICK k \in 1 .. Len(ring), i \in Nat, m \in Nat : IsOnset(ring, k, i, m) /\ events[a] = Event(ring, k, i, m)
      BY <1>3 DEF AreOnsets
    <3>2. i \in 1 .. Len(ring[k].samples)
      BY <3>1 DEF IsOnset
    <3>3. events[a] \in onsetsIn(k, i)
      BY <1>6, <3>1, <3>2
    <3> QED BY <1>8, <3>2, <3>3
  <2>2. ASSUME NEW e \in onsets
        PROVE  \E a \in 1 .. Len(events) : events[a] = e
    <3>1. PICK k \in 1 .. Len(ring) : \E i \in 1 .. Len(ring[k].samples) : e \in onsetsIn(k, i)
      BY <1>8
    <3>2. PICK i \in 1 .. Len(ring[k].samples) : e \in onsetsIn(k, i)
      BY <3>1
    <3>3. PICK m \in Nat : IsOnset(ring, k, i, m) /\ e = Event(ring, k, i, m)
      BY <1>6, <3>2
    <3>4. i \in Nat
      BY <1>7
    <3> QED BY <1>3, <3>3, <3>4 DEF AreOnsets
  <2> QED BY <1>4, <2>1, <2>2
<1>11. Len(events) = Cardinality(onsets)
  <2>1. PICK f : f = [a \in 1 .. Len(events) |-> events[a]]
    OBVIOUS
  <2>2. \A a, b \in 1 .. Len(events) : events[a] = events[b] => a = b
    <3>1. \A a, b \in 1 .. Len(events) : a < b \/ b < a \/ a = b
      BY <1>4
    <3> QED BY <1>3, <3>1 DEF AreOnsets
  <2>3. f \in Injection(1 .. Len(events), onsets)
    BY <1>4, <1>10, <2>1, <2>2 DEF Injection, IsInjective
  <2>4. f \in Surjection(1 .. Len(events), onsets)
    BY <1>4, <1>10, <2>1 DEF Surjection
  <2>5. ExistsBijection(1 .. Len(events), onsets)
    BY <2>3, <2>4 DEF ExistsBijection, Bijection
  <2> QED BY <1>4, <2>5, FS_CountingElements
<1> QED BY <1>3, <1>4, <1>9, <1>10, <1>11 DEF AreOnsets

(* The events are the onsets, each once and in the order of time, of       *)
(* whatever snapshots the buffer has (CollectEvents).                      *)
THEOREM OnsetSafety == Spec => []EventsAreOnsets
<1> QED BY RingInit, RingStep, RingOnsets, PTL DEF Spec

-----------------------------------------------------------------------------
(* Paging.                                                                 *)

(* What the tab shows is a list, and the window is never scrolled past the *)
(* newest event.                                                           *)
PageInv == RingInv /\ CacheInv /\ scroll \in Nat /\ height \in Heights

LEMMA ShownIs ==
  ASSUME CacheInv, RingInv
  PROVE  Len(Shown) \in Nat /\ DOMAIN Shown = 1 .. Len(Shown)
<1>1. Shown = CollectEvents(ring)
  BY DEF Shown, Cached, CacheInv
<1>2. PICK events : events = CollectEvents(ring)
  OBVIOUS
<1>3. events \in Seq(Events(ring))
  BY <1>2, CollectEventsAre DEF RingInv, AreOnsets
<1> QED BY <1>1, <1>2, <1>3

LEMMA LargerIs ==
  ASSUME NEW a \in Int, NEW b \in Int
  PROVE  /\ Max({a, b}) = IF a >= b THEN a ELSE b
         /\ Min({a, b}) = IF a <= b THEN a ELSE b
  BY DEF Max, Min

LEMMA ClampedIs ==
  ASSUME NEW events, Len(events) \in Nat, NEW h \in Int, NEW n \in Int
  PROVE  LET most == IF Len(events) > Rows(h) THEN Len(events) - Rows(h) ELSE 0
         IN  /\ Rows(h) \in Nat \ {0}
             /\ MaxEventsScroll(events, h) = most
             /\ Clamped(n, events, h) = IF n < 0 THEN 0 ELSE IF n > most THEN most ELSE n
<1>1. PICK l \in Nat : l = Len(events)
  OBVIOUS
<1>2. PICK r \in Nat \ {0} : r = Rows(h)
  BY DEF Rows
<1>3. PICK most : most = IF l > r THEN l - r ELSE 0
  OBVIOUS
<1> most \in Nat
  BY <1>3
<1>4. MaxEventsScroll(events, h) = most
  <2>1. l - r \in Int /\ 0 \in Int
    OBVIOUS
  <2>2. MaxEventsScroll(events, h) = Max({0, l - r})
    BY <1>1, <1>2 DEF MaxEventsScroll
  <2> QED BY <1>3, <2>1, <2>2, LargerIs
<1>5. Clamped(n, events, h) = IF n < 0 THEN 0 ELSE IF n > most THEN most ELSE n
  <2>1. PICK m : m = Min({n, most})
    OBVIOUS
  <2>2. m = IF n <= most THEN n ELSE most
    BY <2>1 DEF Min
  <2>3. Clamped(n, events, h) = Max({0, m})
    BY <1>4, <2>1 DEF Clamped
  <2>4. m \in Int /\ 0 \in Int
    BY <2>2
  <2>5. Clamped(n, events, h) = IF 0 >= m THEN 0 ELSE m
    BY <2>3, <2>4, LargerIs
  <2> QED BY <2>2, <2>5
<1> QED BY <1>1, <1>2, <1>3, <1>4, <1>5

LEMMA PageStep == PageInv /\ [Next]_vars => PageInv'
<1> SUFFICES ASSUME PageInv, [Next]_vars
             PROVE  PageInv'
  OBVIOUS
<1>1. RingInv' /\ CacheInv'
  BY RingStep, CacheStep DEF PageInv
<1>2. height \in Int /\ scroll \in Nat /\ Len(Shown) \in Nat
  BY EventsAssumption, ShownIs DEF PageInv
<1>3. \A n \in Int : Clamped(n, Shown, height) \in Nat
  <2> TAKE n \in Int
  <2>1. PICK events : events = Shown
    OBVIOUS
  <2> QED BY <1>2, <2>1, ClampedIs
<1>4. CASE \/ \E samples \in Snapshots, step \in Steps : Poll(samples, step)
           \/ Switch
           \/ UNCHANGED vars
  BY <1>1, <1>4 DEF PageInv, Poll, Switch, vars
<1>5. ASSUME NEW h \in Heights, Resize(h)
      PROVE  PageInv'
  BY <1>1, <1>5 DEF PageInv, Resize
<1>6. ASSUME NEW n \in Nat, Scroll(n)
      PROVE  PageInv'
  BY <1>1, <1>6 DEF PageInv, Scroll
<1>7. CASE Down \/ PageDown
  BY <1>2, <1>3, <1>6, <1>7 DEF Down, PageDown
<1>8. CASE Up \/ PageUp \/ Top
  <2>1. \A n \in Int : Max({0, n}) \in Nat
    BY LargerIs
  <2> QED BY <1>2, <1>6, <1>8, <2>1 DEF Up, PageUp, Top
<1>9. CASE Bottom
  <2>1. PICK events : events = Shown
    OBVIOUS
  <2>2. MaxEventsScroll(events, height) \in Nat
    BY <1>2, <2>1, ClampedIs
  <2> QED BY <1>6, <1>9, <2>1, <2>2 DEF Bottom
<1> QED BY <1>4, <1>5, <1>7, <1>8, <1>9 DEF Next

(* A page down starts at the last event of the page before, or goes        *)
(* nowhere.                                                                *)
LEMMA PageIsNext ==
  ASSUME PageInv, PageDown, Rows(height) > 1
  PROVE  LET old == Window(Shown, height, scroll)
             new == Window(Shown, height, scroll')
         IN  old = {} \/ new = old \/ old \cap new # {}
<1>1. PICK events : events = Shown
  OBVIOUS
<1>2. PICK l \in Nat : l = Len(events) /\ DOMAIN events = 1 .. l
  BY <1>1, ShownIs DEF PageInv
<1>3. PICK h \in Nat : h = height
  BY EventsAssumption DEF PageInv
<1>4. PICK r \in Nat : r = Rows(h) /\ r = h - 5 /\ r > 1
  BY <1>3 DEF Rows
<1>5. PICK most : most = IF l > r THEN l - r ELSE 0
  OBVIOUS
<1> most \in Nat
  BY <1>5
<1>6. \A n \in Int : Clamped(n, events, h) = IF n < 0 THEN 0 ELSE IF n > most THEN most ELSE n
  <2> TAKE n \in Int
  <2>1. Len(events) \in Nat /\ h \in Int
    BY <1>2
  <2>2. Clamped(n, events, h) =
          IF n < 0 THEN 0
          ELSE LET m == IF Len(events) > Rows(h) THEN Len(events) - Rows(h) ELSE 0
               IN  IF n > m THEN m ELSE n
    BY <2>1, ClampedIs
  <2> QED BY <1>2, <1>4, <1>5, <2>2
<1>7. PICK from \in Nat : from = scroll
  BY DEF PageInv
<1>8. scroll' = Clamped(from + h - 6, events, h)
  BY <1>1, <1>3, <1>7 DEF PageDown, Scroll
<1>9. PICK to \in Nat : to = scroll' /\ to = IF from + (r - 1) > most THEN most ELSE from + (r - 1)
  BY <1>4, <1>6, <1>8
<1>10. PICK c \in Nat : c = Clamped(from, events, h) /\ c = IF from > most THEN most ELSE from
  BY <1>6
<1>11. Clamped(to, events, h) = to
  BY <1>6, <1>9
<1>12. PICK old : old = Window(events, h, from)
  OBVIOUS
<1>13. PICK new : new = Window(events, h, to)
  OBVIOUS
<1>14. old = {i \in 1 .. l : i <= l - c /\ i > (l - c) - r}
  BY <1>2, <1>4, <1>10, <1>12 DEF Window
<1>15. new = {i \in 1 .. l : i <= l - to /\ i > (l - to) - r}
  BY <1>2, <1>4, <1>11, <1>13 DEF Window
<1>16. CASE l = 0
  BY <1>1, <1>3, <1>7, <1>12, <1>14, <1>16
<1>17. CASE l # 0
  <2>1. most < l /\ to <= most /\ c <= to /\ to <= c + (r - 1)
    BY <1>4, <1>5, <1>9, <1>10, <1>17
  <2>2. l - to \in 1 .. l /\ l - to <= l - c /\ l - to > (l - c) - r /\ l - to > (l - to) - r
    BY <1>4, <2>1
  <2>3. l - to \in old /\ l - to \in new
    BY <1>14, <1>15, <2>2
  <2> QED BY <1>1, <1>3, <1>7, <1>9, <1>12, <1>13, <2>3
<1> QED BY <1>16, <1>17

(* Paging through the events skips none of them (the pgdown of the tab),   *)
(* however many the buffer has and however high the terminal is.           *)
THEOREM PagingSafety == Spec => PagesLeaveNoGap
<1>1. Init => PageInv
  <2>1. Init => CacheInv
    BY DEF Init, CacheInv
  <2> QED BY <2>1, RingInit DEF Init, PageInv
<1>2. PageInv /\ [Next]_vars =>
        [PageDown /\ Rows(height) > 1 =>
           LET old == Window(Shown, height, scroll)
               new == Window(Shown, height, scroll')
           IN  old = {} \/ new = old \/ old \cap new # {}]_vars
  BY PageIsNext
<1> QED BY <1>1, <1>2, PageStep, PTL DEF Spec, PagesLeaveNoGap
=============================================================================
