-------------------------- MODULE Navigation_proofs --------------------------
(***************************************************************************)
(* Navigation for any connections, snapshots, queries, tab bar and heights;*)
(* then Resolver for every cache limit and any sets of addresses on        *)
(* screen; and Filter for any terms and texts of any length.               *)
(***************************************************************************)
EXTENDS Navigation, Resolver, Filter, FiniteSetTheorems, WellFoundedInduction, TLAPS

(* The prompt is open just while its tab is shown, and a closed one has no *)
(* error left over.                                                        *)
PromptInv ==
  /\ DOMAIN prompt = {"open", "text", "err", "prevTab"}
  /\ prompt.open \in BOOLEAN
  /\ prompt.open <=> tab = "filter"
  /\ prompt.err \in BOOLEAN
  /\ prompt.err => prompt.open /\ prompt.text \in Rejected

LEMMA NoFilterTab == "filter" \notin Tabs
<1>1. \A i \in DOMAIN TabBar :
        TabBar[i] \in {"findings", "live", "detail", "socket", "overview", "top", "perf", "events", "system"}
  BY NavigationAssumption
<1> QED BY <1>1 DEF Tabs

LEMMA PromptStep ==
  ASSUME PromptInv, [Next]_vars
  PROVE  PromptInv'
<1> USE DEF PromptInv
<1>1. CASE UNCHANGED <<prompt, tab>>
  BY <1>1
<1>2. CASE UNCHANGED vars
  BY <1>2 DEF vars
<1>3. CASE Resize \/ PollResult \/ Pause \/ ToggleHelp \/ Move \/ NextSort \/ ToggleListen
  BY <1>1, <1>3 DEF Resize, PollResult, Pause, ToggleHelp, Move, NextSort, ToggleListen
<1>4. CASE SwitchTab
  BY <1>4, NoFilterTab DEF SwitchTab, MainKey
<1>5. CASE OpenFinding
  BY <1>5 DEF OpenFinding
<1>6. CASE OpenDetail
  BY <1>6 DEF OpenDetail
<1>7. CASE Escape
  BY <1>7 DEF Escape, MainKey
<1>8. CASE OpenPrompt
  BY <1>8 DEF OpenPrompt, MainKey
<1>9. CASE Edit
  <2>1. PICK typed : prompt' = [prompt EXCEPT !.text = typed, !.err = FALSE]
    BY <1>9 DEF Edit
  <2> QED BY <1>9, <2>1 DEF Edit
<1>10. RestoreTab # "filter"
  BY DEF RestoreTab
<1>11. ASSUME prompt' = Closed, tab' = RestoreTab
       PROVE  PromptInv'
  BY <1>10, <1>11 DEF Closed
<1>12. CASE Cancel
  BY <1>11, <1>12 DEF Cancel
<1>13. CASE Apply
  <2>1. CASE prompt.text \in Rejected
    BY <1>13, <2>1 DEF Apply
  <2>2. CASE prompt.text \notin Rejected
    BY <1>11, <1>13, <2>2 DEF Apply
  <2> QED BY <2>1, <2>2
<1> QED BY <1>2, <1>3, <1>4, <1>5, <1>6, <1>7, <1>8, <1>9, <1>12, <1>13 DEF Next

(* Under an open prompt no message but the Enter of an accepted query      *)
(* changes the filter: the other handlers leave it alone or are not        *)
(* reached while the prompt takes the keys.                                *)
LEMMA PromptKeepsFilter ==
  ASSUME [Next]_vars, prompt.open, filter' # filter
  PROVE  /\ prompt' = Closed
         /\ prompt.text \notin Rejected
         /\ filter' = [filter EXCEPT !.query = prompt.text]
<1>1. ~UNCHANGED vars
  BY DEF vars
<1>2. ~(Resize \/ PollResult \/ Edit \/ Cancel)
  BY DEF Resize, PollResult, Edit, Cancel
<1>3. ~(Pause \/ ToggleHelp \/ SwitchTab \/ OpenFinding \/ OpenDetail \/ Escape)
  BY DEF Pause, ToggleHelp, SwitchTab, OpenFinding, OpenDetail, Escape, OpenKey, MainKey
<1>4. ~(Move \/ NextSort \/ ToggleListen \/ OpenPrompt)
  BY DEF Move, NextSort, ToggleListen, OpenPrompt, OpenKey, MainKey
<1>5. Apply
  BY <1>1, <1>2, <1>3, <1>4 DEF Next
<1> QED BY <1>5 DEF Apply

(* However the user moves between tabs, drills in and edits filters, the   *)
(* prompt is never left without its tab nor the tab without its prompt, an *)
(* error is shown for a rejected text and no other, and the filter changes *)
(* under the prompt only to a query that was accepted.                     *)
THEOREM PromptSafety == Spec => PromptOwnsItsTab
<1>1. Init => PromptInv
  BY DEF Init, PromptInv, Closed
<1>2. PromptInv => PromptWithTab
  BY DEF PromptInv, PromptWithTab
<1>3. PromptInv /\ [Next]_vars => PromptInv'
  BY PromptStep
<1>4. [Next]_vars => [prompt.open /\ filter' # filter =>
                        /\ ~prompt'.open
                        /\ prompt.text \notin Rejected
                        /\ filter' = [filter EXCEPT !.query = prompt.text]]_vars
  BY PromptKeepsFilter DEF Closed
<1> QED BY <1>1, <1>2, <1>3, <1>4, PTL DEF Spec, PromptOwnsItsTab

-----------------------------------------------------------------------------
(* Rows.                                                                   *)

(* A non-empty set of naturals has a least element: induction, in the form *)
(* of a least counterexample.                                              *)
LEMMA Least ==
  ASSUME NEW T \in SUBSET Nat, T # {}
  PROVE  \E m \in T : \A n \in T : m <= n
<1> DEFINE Less == OpToRel(<, Nat)
<1>1. IsWellFoundedOn(Less, Nat)
  BY NatLessThanWellFounded
<1>2. ASSUME NEW x \in Nat, NEW y \in Nat, x < y
      PROVE  <<x, y>> \in Less
  <2>1. Less = {ss \in Nat \X Nat : ss[1] < ss[2]}
    BY Zenon DEF OpToRel
  <2>2. <<x, y>> \in Nat \X Nat /\ <<x, y>>[1] = x /\ <<x, y>>[2] = y
    OBVIOUS
  <2> HIDE DEF Less
  <2> QED BY <1>2, <2>1, <2>2
<1> HIDE DEF Less
<1>3. PICK m \in T : \A n \in T : ~(<<n, m>> \in Less)
  BY <1>1, WFMin
<1>4. ASSUME NEW n \in T
      PROVE  m <= n
  <2>1. ~(n < m)
    BY <1>2, <1>3
  <2> QED BY <2>1
<1> QED BY <1>4

(* What a scan of the connections keeps of the first n of them. *)
Scan(g, s, f, m) ==
  g = [n \in 0 .. m |-> IF n = 0 THEN <<>>
                        ELSE IF Matches(f, s[n]) THEN Append(g[n - 1], s[n]) ELSE g[n - 1]]

LEMMA ScanExists ==
  ASSUME NEW s, NEW f, NEW m \in Nat
  PROVE  \E g : Scan(g, s, f, m)
<1> DEFINE Stuck == {k \in Nat : ~\E g : Scan(g, s, f, k)}
<1> SUFFICES Stuck = {}
  OBVIOUS
<1> SUFFICES ASSUME Stuck # {} PROVE FALSE
  OBVIOUS
<1>1. Stuck \in SUBSET Nat
  OBVIOUS
<1> HIDE DEF Stuck
<1>2. PICK k \in Stuck : \A j \in Stuck : k <= j
  BY <1>1, Least
<1>3. k \in Nat
  BY <1>1, <1>2
<1>4. CASE k = 0
  <2> DEFINE g == [n \in 0 .. 0 |-> <<>>]
  <2>1. Scan(g, s, f, 0)
    BY DEF Scan
  <2> HIDE DEF g
  <2> QED BY <1>2, <1>4, <2>1 DEF Stuck
<1>5. CASE k # 0
  <2>1. k - 1 \in Nat /\ k - 1 \notin Stuck
    BY <1>2, <1>3, <1>5
  <2>2. PICK g : Scan(g, s, f, k - 1)
    BY <2>1 DEF Stuck
  <2> DEFINE h == [n \in 0 .. k |-> IF n < k THEN g[n]
                     ELSE IF Matches(f, s[k]) THEN Append(g[k - 1], s[k]) ELSE g[k - 1]]
  <2>3. ASSUME NEW n \in 0 .. k
        PROVE  h[n] = IF n = 0 THEN <<>>
                      ELSE IF Matches(f, s[n]) THEN Append(h[n - 1], s[n]) ELSE h[n - 1]
    <3>1. \A j \in 0 .. k - 1 :
            g[j] = IF j = 0 THEN <<>>
                   ELSE IF Matches(f, s[j]) THEN Append(g[j - 1], s[j]) ELSE g[j - 1]
      BY <2>2, Zenon DEF Scan
    <3>2. \A j \in 0 .. k - 1 : h[j] = g[j]
      BY <1>3
    <3>3. h[k] = IF Matches(f, s[k]) THEN Append(g[k - 1], s[k]) ELSE g[k - 1]
      BY <1>3
    <3> HIDE DEF h
    <3>4. CASE n = k
      <4>1. h[k - 1] = g[k - 1]
        BY <1>3, <1>5, <3>2
      <4> QED BY <1>5, <3>3, <3>4, <4>1
    <3>5. CASE n # k
      <4>1. n \in 0 .. k - 1 /\ (n # 0 => n - 1 \in 0 .. k - 1)
        BY <1>3, <3>5
      <4> QED BY <3>1, <3>2, <4>1
    <3> QED BY <3>4, <3>5
  <2>4. h = [n \in 0 .. k |-> h[n]]
    OBVIOUS
  <2> HIDE DEF h
  <2>5. Scan(h, s, f, k)
    BY <2>3, <2>4 DEF Scan
  <2> QED BY <1>2, <2>5 DEF Stuck
<1> QED BY <1>4, <1>5

(* The filtered rows are connections. *)
LEMMA FilteredIsSeq ==
  ASSUME NEW t, NEW f,
         t.snap # None => t.snap[t.sort] \in Seq(Conns)
  PROVE  Filtered(t, f) \in Seq(Conns)
<1>1. CASE t.snap = None
  BY <1>1 DEF Filtered
<1>2. CASE t.snap # None
  <2> DEFINE s == t.snap[t.sort]
             kept == CHOOSE g : Scan(g, s, f, Len(s))
             Odd == {k \in 0 .. Len(s) : kept[k] \notin Seq(Conns)}
  <2>1. s \in Seq(Conns) /\ Len(s) \in Nat /\ \A k \in 1 .. Len(s) : s[k] \in Conns
    BY <1>2
  <2>2. Scan(kept, s, f, Len(s))
    BY <2>1, ScanExists, Zenon
  <2>3. Filtered(t, f) = kept[Len(s)]
    BY <1>2, Zenon DEF Filtered, Scan
  <2> HIDE DEF kept, s
  <2>4. \A k \in 0 .. Len(s) :
          kept[k] = IF k = 0 THEN <<>>
                    ELSE IF Matches(f, s[k]) THEN Append(kept[k - 1], s[k]) ELSE kept[k - 1]
    BY <2>2, Zenon DEF Scan
  <2>5. Odd = {}
    <3> SUFFICES ASSUME Odd # {} PROVE FALSE
      OBVIOUS
    <3>1. Odd \in SUBSET Nat
      BY <2>1
    <3> HIDE DEF Odd
    <3>2. PICK k \in Odd : \A j \in Odd : k <= j
      BY <3>1, Least
    <3>3. k \in 0 .. Len(s) /\ kept[k] \notin Seq(Conns) /\ k \in Nat
      BY <3>1, <3>2 DEF Odd
    <3>4. k # 0
      <4>1. <<>> \in Seq(Conns)
        OBVIOUS
      <4> QED BY <2>4, <3>3, <4>1
    <3>5. k - 1 \in 0 .. Len(s) /\ k - 1 \notin Odd /\ k \in 1 .. Len(s)
      BY <2>1, <3>2, <3>3, <3>4
    <3>6. kept[k - 1] \in Seq(Conns) /\ s[k] \in Conns
      BY <2>1, <3>5 DEF Odd
    <3>7. Append(kept[k - 1], s[k]) \in Seq(Conns)
      BY <3>6
    <3> QED BY <2>4, <3>3, <3>4, <3>6, <3>7
  <2>6. Len(s) \in 0 .. Len(s)
    BY <2>1
  <2> QED BY <2>3, <2>5, <2>6
<1> QED BY <1>1, <1>2

-----------------------------------------------------------------------------
(* The table.                                                              *)

TableType(t) ==
  t \in [snap     : Snapshots \cup {None},
         cached   : Seq(Conns) \cup {None},
         sort     : 1 .. SortModes,
         cursor   : Nat,
         page     : Nat,
         pageSize : Nat \ {0},
         selKey   : AllKeys \cup {None}]

(* Cached rows are those the filter leaves of the snapshot. *)
Good(t, f) == TableType(t) /\ (t.cached # None => t.cached = Filtered(t, f))

(* A table that shows the same snapshot, sorted the same way. *)
SameRows(t, u) == u.snap = t.snap /\ u.sort = t.sort

(* The cursor of u is on row pos of t's, and what is there is selected. *)
Placed(u, t, f, pos) ==
  /\ Good(u, f)
  /\ SameRows(t, u)
  /\ u.pageSize = t.pageSize
  /\ u.cursor < u.pageSize
  /\ Pos(u) = pos
  /\ pos < Len(Filtered(t, f)) => u.selKey = KeyOf[Filtered(t, f)[pos + 1]]

LEMMA Pages ==
  ASSUME NEW pos \in Nat, NEW size \in Nat \ {0}
  PROVE  /\ pos \div size \in Nat
         /\ pos % size \in 0 .. size - 1
         /\ ((pos \div size) * size) + (pos % size) = pos
OBVIOUS

LEMMA PosIs ==
  ASSUME NEW t, TableType(t)
  PROVE  /\ Pos(t) \in Nat /\ Pos(t) >= t.cursor
         /\ t.cursor > 0 => Pos(t) > 0
         /\ t.page > 0 => Pos(t) >= t.pageSize
<1>1. t.page \in Nat /\ t.pageSize \in Nat \ {0} /\ t.cursor \in Nat
  BY DEF TableType
<1>2. ASSUME NEW page \in Nat, NEW size \in Nat \ {0}
      PROVE  page * size \in Nat /\ (page > 0 => page * size >= size)
  OBVIOUS
<1>3. t.page * t.pageSize \in Nat /\ (t.page > 0 => t.page * t.pageSize >= t.pageSize)
  BY <1>1, <1>2
<1> QED BY <1>1, <1>3 DEF Pos

LEMMA FilteredIs ==
  ASSUME NEW t, NEW f, TableType(t)
  PROVE  /\ Filtered(t, f) \in Seq(Conns)
         /\ Len(Filtered(t, f)) \in Nat
         /\ DOMAIN Filtered(t, f) = 1 .. Len(Filtered(t, f))
         /\ \A i \in 1 .. Len(Filtered(t, f)) : /\ Filtered(t, f)[i] \in Conns
                                                /\ Filtered(t, f)[i] # None
                                                /\ KeyOf[Filtered(t, f)[i]] \in AllKeys
         /\ Len(Filtered(t, f)) = 0 <=> Filtered(t, f) = <<>>
<1>1. t.snap # None => t.snap[t.sort] \in Seq(Conns)
  <2>1. t.snap \in Snapshots \cup {None} /\ t.sort \in 1 .. SortModes
    BY DEF TableType
  <2>2. \A snap \in Snapshots : snap \in [1 .. SortModes -> Seq(Conns)]
    BY NavigationAssumption
  <2> QED BY <2>1, <2>2
<1>2. Filtered(t, f) \in Seq(Conns)
  BY <1>1, FilteredIsSeq
<1>3. None \notin Conns
  BY TableAssumption
<1> QED BY <1>2, <1>3 DEF AllKeys

LEMMA SameFiltered ==
  ASSUME NEW t, NEW u, NEW f, SameRows(t, u)
  PROVE  Filtered(u, f) = Filtered(t, f)
<1> DEFINE ScanOf(s) == (CHOOSE g : Scan(g, s, f, Len(s)))[Len(s)]
<1>1. \A v : v.snap # None => Filtered(v, f) = ScanOf(v.snap[v.sort])
  BY Zenon DEF Filtered, Scan
<1>2. \A v : v.snap = None => Filtered(v, f) = <<>>
  BY DEF Filtered
<1> HIDE DEF ScanOf
<1> QED BY <1>1, <1>2 DEF SameRows

LEMMA RowsIs ==
  ASSUME NEW t, NEW f, Good(t, f)
  PROVE  Rows(t, f) = Filtered(t, f)
BY DEF Good, Rows

LEMMA SelectedIs ==
  ASSUME NEW t, NEW f, Good(t, f)
  PROVE  /\ Pos(t) < Len(Filtered(t, f)) =>
              /\ Selected(t, f) = Filtered(t, f)[Pos(t) + 1]
              /\ Selected(t, f) # None
              /\ KeyOf[Selected(t, f)] \in AllKeys
         /\ ~(Pos(t) < Len(Filtered(t, f))) => Selected(t, f) = None
<1>1. TableType(t)
  BY DEF Good
<1> DEFINE F == Filtered(t, f)
<1>2. /\ Len(F) \in Nat /\ Pos(t) \in Nat
      /\ \A i \in 1 .. Len(F) : F[i] # None /\ KeyOf[F[i]] \in AllKeys
  BY <1>1, FilteredIs, PosIs
<1>3. Selected(t, f) = IF Pos(t) < Len(F) THEN F[Pos(t) + 1] ELSE None
  BY RowsIs DEF Selected
<1> HIDE DEF F
<1>4. Pos(t) < Len(F) => Pos(t) + 1 \in 1 .. Len(F)
  BY <1>2
<1>5. /\ Pos(t) < Len(F) => /\ Selected(t, f) = F[Pos(t) + 1]
                            /\ Selected(t, f) # None
                            /\ KeyOf[Selected(t, f)] \in AllKeys
      /\ ~(Pos(t) < Len(F)) => Selected(t, f) = None
  BY <1>2, <1>3, <1>4
<1> QED BY <1>5 DEF F

LEMMA CachedIs ==
  ASSUME NEW t, NEW f, Good(t, f)
  PROVE  LET u == Cached(t, f)
         IN  /\ Good(u, f) /\ SameRows(t, u) /\ Pos(u) = Pos(t)
             /\ u.pageSize = t.pageSize /\ u.cursor = t.cursor /\ u.page = t.page
             /\ u.selKey = t.selKey
<1> DEFINE u == Cached(t, f)
<1>1. TableType(t) /\ Filtered(t, f) \in Seq(Conns)
  BY FilteredIs DEF Good
<1>2. u = t \/ u = [t EXCEPT !.cached = Filtered(t, f)]
  BY DEF Cached
<1>3. CASE u = t
  BY <1>3 DEF SameRows
<1>4. CASE u = [t EXCEPT !.cached = Filtered(t, f)]
  <2>1. /\ TableType(u) /\ SameRows(t, u) /\ u.cached = Filtered(t, f)
        /\ u.pageSize = t.pageSize /\ u.cursor = t.cursor /\ u.page = t.page
        /\ u.selKey = t.selKey
    BY <1>1, <1>4 DEF TableType, SameRows
  <2> HIDE DEF u
  <2>2. Filtered(u, f) = Filtered(t, f)
    BY <2>1, SameFiltered
  <2>3. Good(u, f)
    BY <2>1, <2>2 DEF Good
  <2>4. Pos(u) = Pos(t)
    BY <2>1 DEF Pos
  <2> QED BY <2>1, <2>3, <2>4 DEF u
<1> QED BY <1>2, <1>3, <1>4

LEMMA SyncIs ==
  ASSUME NEW t, NEW f, Good(t, f), t.cursor < t.pageSize
  PROVE  Placed(SyncSelKey(t, f), t, f, Pos(t))
<1>1. PICK u : u = Cached(t, f)
  OBVIOUS
<1>2. /\ Good(u, f) /\ SameRows(t, u) /\ Pos(u) = Pos(t)
      /\ u.pageSize = t.pageSize /\ u.cursor = t.cursor /\ u.page = t.page
  BY <1>1, CachedIs
<1>3. Filtered(u, f) = Filtered(t, f)
  BY <1>2, SameFiltered
<1>4. PICK v : v = SyncSelKey(t, f)
  OBVIOUS
<1>5. v = IF Selected(u, f) = None THEN u ELSE [u EXCEPT !.selKey = KeyOf[Selected(u, f)]]
  BY <1>1, <1>4 DEF SyncSelKey
<1>6. CASE Pos(t) < Len(Filtered(t, f))
  <2>1. PICK key : key = KeyOf[Filtered(t, f)[Pos(t) + 1]]
    OBVIOUS
  <2>2. key \in AllKeys /\ v = [u EXCEPT !.selKey = key]
    BY <1>2, <1>3, <1>5, <1>6, <2>1, SelectedIs
  <2>3. TableType(u)
    BY <1>2 DEF Good
  <2>4. /\ TableType(v) /\ SameRows(u, v) /\ v.selKey = key /\ v.cached = u.cached
        /\ v.pageSize = u.pageSize /\ v.cursor = u.cursor /\ v.page = u.page
    BY <2>2, <2>3 DEF TableType, SameRows
  <2>5. Filtered(v, f) = Filtered(u, f)
    BY <2>4, SameFiltered
  <2>6. Good(v, f)
    BY <1>2, <2>4, <2>5 DEF Good
  <2>7. Pos(v) = Pos(t) /\ SameRows(t, v)
    BY <1>2, <2>4 DEF Pos, SameRows
  <2> QED BY <1>2, <1>4, <2>1, <2>4, <2>6, <2>7 DEF Placed
<1>7. CASE ~(Pos(t) < Len(Filtered(t, f)))
  <2>1. v = u
    BY <1>2, <1>3, <1>5, <1>7, SelectedIs
  <2> QED BY <1>2, <1>4, <1>7, <2>1 DEF Placed
<1> QED BY <1>6, <1>7

(* The highlight is on the selected connection. *)
OnRow(t, f) ==
  Filtered(t, f) # <<>> =>
    /\ Pos(t) < Len(Filtered(t, f))
    /\ KeyOf[Filtered(t, f)[Pos(t) + 1]] = t.selKey

Well(t, f) == Good(t, f) /\ t.cursor < t.pageSize /\ OnRow(t, f)

LEMMA PlacedIsWell ==
  ASSUME NEW u, NEW t, NEW f, NEW pos, Placed(u, t, f, pos), Good(t, f),
         Filtered(t, f) = <<>> \/ pos < Len(Filtered(t, f))
  PROVE  Well(u, f) /\ SameRows(t, u) /\ u.pageSize = t.pageSize
<1>1. Filtered(u, f) = Filtered(t, f)
  BY SameFiltered DEF Placed
<1> QED BY <1>1 DEF Placed, Well, OnRow

(* The row at a place on a page. *)
RowAt(page, size, cursor) == page * size + cursor

LEMMA RowAtIs ==
  ASSUME NEW page \in Nat, NEW size \in Nat \ {0}, NEW cursor \in Nat
  PROVE  /\ RowAt(page, size, 0) \in Nat
         /\ RowAt(page, size, cursor) = RowAt(page, size, 0) + cursor
         /\ RowAt(page + 1, size, 0) = RowAt(page, size, 0) + size
         /\ page > 0 => RowAt(page - 1, size, size - 1) = RowAt(page, size, 0) - 1
         /\ RowAt(0, size, 0) = 0
BY DEF RowAt

(* A table whose cursor was moved. *)
MovedTo(u, t, page, cursor) == u = [t EXCEPT !.page = page, !.cursor = cursor]

LEMMA CursorMoved ==
  ASSUME NEW t, NEW f, NEW page \in Nat, NEW cursor \in Nat, Good(t, f),
         NEW u, MovedTo(u, t, page, cursor)
  PROVE  /\ Good(u, f) /\ SameRows(t, u) /\ u.pageSize = t.pageSize /\ u.selKey = t.selKey
         /\ u.cursor = cursor /\ u.page = page
         /\ Pos(u) = RowAt(page, t.pageSize, cursor)
<1>1. /\ TableType(u) /\ SameRows(t, u) /\ u.cached = t.cached
      /\ u.pageSize = t.pageSize /\ u.selKey = t.selKey /\ u.cursor = cursor /\ u.page = page
  BY DEF Good, TableType, SameRows, MovedTo
<1>2. Filtered(u, f) = Filtered(t, f)
  BY <1>1, SameFiltered
<1>3. Good(u, f)
  BY <1>1, <1>2 DEF Good
<1>4. Pos(u) = RowAt(page, t.pageSize, cursor)
  BY <1>1 DEF Pos, RowAt
<1> QED BY <1>1, <1>3, <1>4

LEMMA AtIs ==
  ASSUME NEW t, NEW f, NEW pos \in Nat, Good(t, f)
  PROVE  /\ Good(At(t, pos), f) /\ SameRows(t, At(t, pos)) /\ Pos(At(t, pos)) = pos
         /\ At(t, pos).pageSize = t.pageSize /\ At(t, pos).selKey = t.selKey
         /\ At(t, pos).cursor < t.pageSize
<1>1. t.pageSize \in Nat \ {0}
  BY DEF Good, TableType
<1>2. PICK page, cursor : page = pos \div t.pageSize /\ cursor = pos % t.pageSize
  OBVIOUS
<1>3. page \in Nat /\ cursor \in Nat /\ cursor < t.pageSize /\ RowAt(page, t.pageSize, cursor) = pos
  <2>1. /\ page \in Nat /\ cursor \in 0 .. t.pageSize - 1
        /\ (page * t.pageSize) + cursor = pos
    BY <1>1, <1>2, Pages
  <2> QED BY <1>1, <2>1 DEF RowAt
<1>4. MovedTo(At(t, pos), t, page, cursor)
  BY <1>2 DEF At, MovedTo
<1>5. PICK v : v = At(t, pos)
  OBVIOUS
<1>6. /\ Good(v, f) /\ SameRows(t, v) /\ v.pageSize = t.pageSize /\ v.selKey = t.selKey
      /\ v.cursor = cursor /\ Pos(v) = RowAt(page, t.pageSize, cursor)
  BY <1>3, <1>4, <1>5, CursorMoved
<1> QED BY <1>3, <1>5, <1>6

LEMMA SetPosIs ==
  ASSUME NEW t, NEW f, NEW pos \in Nat, Good(t, f)
  PROVE  Placed(SetPos(t, f, pos), t, f, pos)
<1>1. PICK v : v = At(t, pos)
  OBVIOUS
<1>2. /\ Good(v, f) /\ SameRows(t, v) /\ Pos(v) = pos
      /\ v.pageSize = t.pageSize /\ v.cursor < v.pageSize
  BY <1>1, AtIs
<1>3. Filtered(v, f) = Filtered(t, f)
  BY <1>2, SameFiltered
<1>4. Placed(SetPos(t, f, pos), v, f, pos)
  BY <1>1, <1>2, SyncIs DEF SetPos
<1> QED BY <1>2, <1>3, <1>4 DEF Placed, SameRows

Clamp(pos, n) == IF pos < 0 THEN 0 ELSE IF pos >= n THEN n - 1 ELSE pos

LEMMA ClampIs ==
  ASSUME NEW pos \in Int, NEW n \in Nat \ {0}
  PROVE  Clamp(pos, n) \in Nat /\ Clamp(pos, n) < n
BY DEF Clamp

LEMMA SetCursorIs ==
  ASSUME NEW t, NEW f, NEW pos \in Int, Good(t, f)
  PROVE  LET u == SetCursor(t, f, pos)
         IN  /\ Well(u, f) /\ SameRows(t, u) /\ u.pageSize = t.pageSize
             /\ Filtered(t, f) # <<>> => Placed(u, t, f, Clamp(pos, Len(Filtered(t, f))))
<1>1. TableType(t)
  BY DEF Good
<1>2. PICK u : u = SetCursor(t, f, pos)
  OBVIOUS
<1>3. PICK n : n = Len(Filtered(t, f))
  OBVIOUS
<1>4. n \in Nat /\ (n = 0 <=> Filtered(t, f) = <<>>)
  BY <1>1, <1>3, FilteredIs
<1>5. u = IF n = 0 THEN [t EXCEPT !.page = 0, !.cursor = 0] ELSE SetPos(t, f, Clamp(pos, n))
  BY <1>2, <1>3, RowsIs DEF SetCursor, Clamp
<1>6. CASE n = 0
  <2>1. /\ Good(u, f) /\ SameRows(t, u) /\ u.pageSize = t.pageSize /\ u.cursor = 0
    <3>1. 0 \in Nat /\ MovedTo(u, t, 0, 0)
      BY <1>5, <1>6 DEF MovedTo
    <3> QED BY <3>1, CursorMoved
  <2>2. Filtered(u, f) = <<>>
    BY <1>4, <1>6, <2>1, SameFiltered
  <2>3. t.pageSize \in Nat \ {0}
    BY <1>1 DEF TableType
  <2> QED BY <1>2, <1>4, <1>6, <2>1, <2>2, <2>3 DEF Well, OnRow
<1>7. CASE n # 0
  <2>1. Clamp(pos, n) \in Nat /\ Clamp(pos, n) < n
    BY <1>4, <1>7, ClampIs
  <2>2. Placed(u, t, f, Clamp(pos, n))
    BY <1>5, <1>7, <2>1, SetPosIs
  <2> QED BY <1>2, <1>3, <2>1, <2>2, PlacedIsWell
<1> QED BY <1>6, <1>7

-----------------------------------------------------------------------------
(* Moving the cursor.                                                      *)

(* A step to another row that is one, or to the first. *)
LEMMA StepIs ==
  ASSUME NEW t, NEW f, NEW page \in Nat, NEW cursor \in Nat, Good(t, f),
         cursor < t.pageSize,
         \/ RowAt(page, t.pageSize, cursor) = 0
         \/ RowAt(page, t.pageSize, cursor) < Len(Filtered(t, f))
         \/ Filtered(t, f) = <<>>,
         NEW v, MovedTo(v, t, page, cursor)
  PROVE  LET u == SyncSelKey(v, f)
         IN  Well(u, f) /\ SameRows(t, u) /\ u.pageSize = t.pageSize
<1>2. /\ Good(v, f) /\ SameRows(t, v) /\ v.pageSize = t.pageSize /\ v.cursor = cursor
      /\ Pos(v) = RowAt(page, t.pageSize, cursor)
  BY CursorMoved
<1>3. Filtered(v, f) = Filtered(t, f)
  BY <1>2, SameFiltered
<1>4. Placed(SyncSelKey(v, f), v, f, Pos(v))
  BY <1>2, SyncIs
<1>5. Filtered(v, f) = <<>> \/ Pos(v) < Len(Filtered(v, f))
  <2>1. TableType(t)
    BY DEF Good
  <2>2. Len(Filtered(t, f)) \in Nat /\ (Len(Filtered(t, f)) = 0 <=> Filtered(t, f) = <<>>)
    BY <2>1, FilteredIs
  <2> QED BY <1>2, <1>3, <2>2
<1>6. Well(SyncSelKey(v, f), f) /\ SameRows(v, SyncSelKey(v, f)) /\ SyncSelKey(v, f).pageSize = v.pageSize
  BY <1>2, <1>4, <1>5, PlacedIsWell
<1> QED BY <1>2, <1>6 DEF SameRows

(* j k g G: the highlight moves, and the selection with it. *)
LEMMA MoveNextIs ==
  ASSUME NEW t, NEW f, Well(t, f)
  PROVE  Well(MoveNext(t, f), f) /\ SameRows(t, MoveNext(t, f)) /\ MoveNext(t, f).pageSize = t.pageSize
<1>1. PICK u : u = Cached(t, f)
  OBVIOUS
<1>2. /\ Good(u, f) /\ SameRows(t, u) /\ Pos(u) = Pos(t)
      /\ u.pageSize = t.pageSize /\ u.cursor = t.cursor /\ u.page = t.page
      /\ u.selKey = t.selKey
  BY <1>1, CachedIs DEF Well
<1>3. Filtered(u, f) = Filtered(t, f) /\ Rows(u, f) = Filtered(t, f)
  BY <1>2, SameFiltered, RowsIs
<1>4. Well(u, f)
  BY <1>2, <1>3 DEF Well, OnRow
<1>5. PICK n : n = Len(Filtered(t, f))
  OBVIOUS
<1>6. TableType(u)
  BY <1>2 DEF Good
<1>7. /\ n \in Nat /\ Pos(u) \in Nat /\ u.page \in Nat /\ u.cursor \in Nat
      /\ u.pageSize \in Nat \ {0} /\ Pos(u) = RowAt(u.page, u.pageSize, u.cursor)
  BY <1>3, <1>5, <1>6, FilteredIs, PosIs DEF TableType, Pos, RowAt
<1>8. CASE Pos(u) >= n - 1
  <2>1. MoveNext(t, f) = u
    BY <1>1, <1>3, <1>5, <1>8 DEF MoveNext
  <2> QED BY <1>2, <1>4, <2>1
<1>9. CASE ~(Pos(u) >= n - 1) /\ u.cursor < u.pageSize - 1
  <2>1. PICK v : v = [u EXCEPT !.cursor = u.cursor + 1]
    OBVIOUS
  <2>2. MoveNext(t, f) = SyncSelKey(v, f)
    BY <1>1, <1>3, <1>5, <1>9, <2>1 DEF MoveNext
  <2>3. MovedTo(v, u, u.page, u.cursor + 1)
    BY <1>6, <2>1 DEF MovedTo, TableType
  <2>4. u.cursor + 1 \in Nat /\ u.cursor + 1 < u.pageSize
    BY <1>7, <1>9
  <2>5. RowAt(u.page, u.pageSize, u.cursor + 1) < n
    <3>1. PICK base : base = RowAt(u.page, u.pageSize, 0)
      OBVIOUS
    <3>2. base \in Nat /\ RowAt(u.page, u.pageSize, u.cursor) = base + u.cursor
      BY <1>7, <3>1, RowAtIs
    <3>3. RowAt(u.page, u.pageSize, u.cursor + 1) = base + (u.cursor + 1)
      BY <1>7, <2>4, <3>1, RowAtIs
    <3> QED BY <1>7, <1>9, <3>2, <3>3
  <2> QED BY <1>2, <1>3, <1>5, <1>7, <2>2, <2>3, <2>4, <2>5, StepIs DEF SameRows
<1>10. CASE ~(Pos(u) >= n - 1) /\ ~(u.cursor < u.pageSize - 1)
  <2>1. PICK v : v = [u EXCEPT !.page = u.page + 1, !.cursor = 0]
    OBVIOUS
  <2>2. MoveNext(t, f) = SyncSelKey(v, f)
    BY <1>1, <1>3, <1>5, <1>10, <2>1 DEF MoveNext
  <2>3. MovedTo(v, u, u.page + 1, 0)
    BY <2>1 DEF MovedTo
  <2>4. u.page + 1 \in Nat /\ 0 \in Nat /\ 0 < u.pageSize
    BY <1>7
  <2>5. RowAt(u.page + 1, u.pageSize, 0) < n
    <3>1. u.cursor < u.pageSize
      BY <1>4 DEF Well
    <3>2. u.cursor = u.pageSize - 1
      BY <1>7, <1>10, <3>1
    <3>3. PICK base : base = RowAt(u.page, u.pageSize, 0)
      OBVIOUS
    <3>4. base \in Nat /\ RowAt(u.page, u.pageSize, u.cursor) = base + u.cursor
      BY <1>7, <3>3, RowAtIs
    <3>5. RowAt(u.page + 1, u.pageSize, 0) = base + u.pageSize
      BY <1>7, <3>3, RowAtIs
    <3> QED BY <1>7, <1>10, <3>2, <3>4, <3>5
  <2> QED BY <1>2, <1>3, <1>5, <1>7, <2>2, <2>3, <2>4, <2>5, StepIs DEF SameRows
<1> QED BY <1>8, <1>9, <1>10

LEMMA MovePrevIs ==
  ASSUME NEW t, NEW f, Well(t, f)
  PROVE  Well(MovePrev(t, f), f) /\ SameRows(t, MovePrev(t, f)) /\ MovePrev(t, f).pageSize = t.pageSize
<1>1. TableType(t) /\ Good(t, f) /\ t.cursor < t.pageSize
  BY DEF Well, Good
<1>2. PICK n : n = Len(Filtered(t, f))
  OBVIOUS
<1>3. /\ n \in Nat /\ Pos(t) \in Nat /\ t.page \in Nat /\ t.cursor \in Nat
      /\ t.pageSize \in Nat \ {0} /\ Pos(t) = RowAt(t.page, t.pageSize, t.cursor)
  BY <1>1, <1>2, FilteredIs, PosIs DEF TableType, Pos, RowAt
<1>4. Filtered(t, f) = <<>> \/ Pos(t) < n
  BY <1>2 DEF Well, OnRow
<1>5. CASE t.cursor > 0
  <2>1. PICK v : v = [t EXCEPT !.cursor = t.cursor - 1]
    OBVIOUS
  <2>2. MovePrev(t, f) = SyncSelKey(v, f)
    BY <1>5, <2>1 DEF MovePrev
  <2>3. MovedTo(v, t, t.page, t.cursor - 1)
    BY <1>1, <2>1 DEF MovedTo, TableType
  <2>4. t.cursor - 1 \in Nat /\ t.cursor - 1 < t.pageSize
    BY <1>1, <1>3, <1>5
  <2>5. Filtered(t, f) = <<>> \/ RowAt(t.page, t.pageSize, t.cursor - 1) < n
    <3>1. PICK base : base = RowAt(t.page, t.pageSize, 0)
      OBVIOUS
    <3>2. base \in Nat /\ RowAt(t.page, t.pageSize, t.cursor) = base + t.cursor
      BY <1>3, <3>1, RowAtIs
    <3>3. RowAt(t.page, t.pageSize, t.cursor - 1) = base + (t.cursor - 1)
      BY <1>3, <2>4, <3>1, RowAtIs
    <3> QED BY <1>3, <1>4, <3>2, <3>3
  <2> QED BY <1>1, <1>2, <1>3, <2>2, <2>3, <2>4, <2>5, StepIs
<1>6. CASE ~(t.cursor > 0) /\ t.page > 0
  <2>1. PICK v : v = [t EXCEPT !.page = t.page - 1, !.cursor = t.pageSize - 1]
    OBVIOUS
  <2>2. MovePrev(t, f) = SyncSelKey(v, f)
    BY <1>6, <2>1 DEF MovePrev
  <2>3. MovedTo(v, t, t.page - 1, t.pageSize - 1)
    BY <2>1 DEF MovedTo
  <2>4. t.page - 1 \in Nat /\ t.pageSize - 1 \in Nat /\ t.pageSize - 1 < t.pageSize
    BY <1>3, <1>6
  <2>5. Filtered(t, f) = <<>> \/ RowAt(t.page - 1, t.pageSize, t.pageSize - 1) < n
    <3>1. PICK base : base = RowAt(t.page, t.pageSize, 0)
      OBVIOUS
    <3>2. base \in Nat /\ RowAt(t.page, t.pageSize, t.cursor) = base + t.cursor
      BY <1>3, <3>1, RowAtIs
    <3>3. RowAt(t.page - 1, t.pageSize, t.pageSize - 1) = base - 1
      BY <1>3, <1>6, <3>1, RowAtIs
    <3> QED BY <1>3, <1>4, <3>2, <3>3
  <2> QED BY <1>1, <1>2, <1>3, <2>2, <2>3, <2>4, <2>5, StepIs
<1>7. CASE ~(t.cursor > 0) /\ ~(t.page > 0)
  <2>1. MovePrev(t, f) = SyncSelKey(t, f)
    BY <1>7 DEF MovePrev
  <2>2. Placed(SyncSelKey(t, f), t, f, Pos(t))
    BY <1>1, SyncIs
  <2> QED BY <1>1, <1>2, <1>4, <2>1, <2>2, PlacedIsWell
<1> QED BY <1>5, <1>6, <1>7

LEMMA MoveFirstIs ==
  ASSUME NEW t, NEW f, Well(t, f)
  PROVE  Well(MoveFirst(t, f), f) /\ SameRows(t, MoveFirst(t, f)) /\ MoveFirst(t, f).pageSize = t.pageSize
<1>1. PICK v : v = [t EXCEPT !.page = 0, !.cursor = 0]
  OBVIOUS
<1>2. MoveFirst(t, f) = SyncSelKey(v, f) /\ MovedTo(v, t, 0, 0)
  BY <1>1 DEF MoveFirst, MovedTo
<1>3. Good(t, f) /\ t.pageSize \in Nat \ {0}
  BY DEF Well, Good, TableType
<1>4. 0 \in Nat /\ 0 < t.pageSize /\ RowAt(0, t.pageSize, 0) = 0
  BY <1>3, RowAtIs
<1> QED BY <1>2, <1>3, <1>4, StepIs

LEMMA MoveLastIs ==
  ASSUME NEW t, NEW f, Well(t, f)
  PROVE  Well(MoveLast(t, f), f) /\ SameRows(t, MoveLast(t, f)) /\ MoveLast(t, f).pageSize = t.pageSize
<1>1. Good(t, f) /\ TableType(t) /\ Rows(t, f) = Filtered(t, f)
  BY RowsIs DEF Well, Good
<1>2. CASE Rows(t, f) = <<>>
  BY <1>2 DEF MoveLast, SameRows
<1>3. CASE Rows(t, f) # <<>>
  <2>1. PICK u : u = Cached(t, f)
    OBVIOUS
  <2>2. Good(u, f) /\ SameRows(t, u) /\ u.pageSize = t.pageSize
    BY <1>1, <2>1, CachedIs
  <2>3. PICK pos : pos = Len(Rows(t, f)) - 1
    OBVIOUS
  <2>4. pos \in Int
    BY <1>1, <2>3, FilteredIs
  <2>5. MoveLast(t, f) = SetCursor(u, f, pos)
    BY <1>3, <2>1, <2>3 DEF MoveLast
  <2>6. Well(SetCursor(u, f, pos), f) /\ SameRows(u, SetCursor(u, f, pos))
        /\ SetCursor(u, f, pos).pageSize = u.pageSize
    BY <2>2, <2>4, SetCursorIs
  <2> QED BY <2>2, <2>5, <2>6 DEF SameRows
<1> QED BY <1>2, <1>3

-----------------------------------------------------------------------------
(* Changing the rows.                                                      *)

LEMMA ReselectIs ==
  ASSUME NEW t, NEW f, Good(t, f)
  PROVE  LET u == Reselect(t, f)
             F == Filtered(t, f)
         IN  /\ Well(u, f) /\ SameRows(t, u) /\ u.pageSize = t.pageSize
             /\ F # <<>> => IF \E i \in DOMAIN F : KeyOf[F[i]] = t.selKey
                              THEN u.selKey = t.selKey
                              ELSE Pos(u) = IF Pos(t) < Len(F) THEN Pos(t) ELSE Len(F) - 1
<1>1. PICK u : u = Cached(t, f)
  OBVIOUS
<1>2. /\ Good(u, f) /\ SameRows(t, u) /\ Pos(u) = Pos(t)
      /\ u.pageSize = t.pageSize /\ u.selKey = t.selKey
  BY <1>1, CachedIs
<1>3. PICK F : F = Filtered(t, f)
  OBVIOUS
<1>4. Filtered(u, f) = F /\ Rows(u, f) = F
  BY <1>2, <1>3, SameFiltered, RowsIs
<1>5. TableType(u) /\ Len(F) \in Nat /\ DOMAIN F = 1 .. Len(F) /\ (Len(F) = 0 <=> F = <<>>)
  BY <1>2, <1>4, FilteredIs DEF Good
<1>6. PICK same : same = {i \in DOMAIN F : KeyOf[F[i]] = t.selKey}
  OBVIOUS
<1>7. PICK v : v = Reselect(t, f)
  OBVIOUS
<1>8. CASE same = {}
  <2>1. v = SetCursor(u, f, Pos(u))
    BY <1>1, <1>2, <1>4, <1>6, <1>7, <1>8 DEF Reselect
  <2>2. Pos(u) \in Nat
    BY <1>5, PosIs
  <2>3. /\ Well(v, f) /\ SameRows(u, v) /\ v.pageSize = u.pageSize
        /\ F # <<>> => Placed(v, u, f, Clamp(Pos(u), Len(F)))
    BY <1>2, <1>4, <2>1, <2>2, SetCursorIs
  <2>4. F # <<>> => Pos(v) = IF Pos(t) < Len(F) THEN Pos(t) ELSE Len(F) - 1
    BY <1>2, <1>5, <2>2, <2>3 DEF Placed, Clamp
  <2>5. ~\E i \in DOMAIN F : KeyOf[F[i]] = t.selKey
    BY <1>6, <1>8
  <2> QED BY <1>2, <1>3, <1>7, <2>3, <2>4, <2>5 DEF SameRows
<1>9. CASE same # {}
  <2>1. same \in SUBSET Nat /\ same \subseteq 1 .. Len(F)
    BY <1>5, <1>6
  <2>2. PICK m \in same : \A j \in same : m <= j
    BY <1>9, <2>1, Least
  <2>3. PICK i : i = CHOOSE k \in same : \A j \in same : k <= j
    OBVIOUS
  <2>4. i \in same
    BY <2>2, <2>3
  <2>5. v = SetPos(u, f, i - 1)
    BY <1>1, <1>2, <1>4, <1>6, <1>7, <1>9, <2>3, Zenon DEF Reselect
  <2>6. i - 1 \in Nat /\ i - 1 < Len(F) /\ KeyOf[F[i]] = t.selKey /\ (i - 1) + 1 = i
    BY <1>5, <1>6, <2>1, <2>4
  <2>7. Placed(v, u, f, i - 1)
    BY <1>2, <2>5, <2>6, SetPosIs
  <2>8. v.selKey = t.selKey
    BY <1>4, <2>6, <2>7 DEF Placed
  <2>9. Well(v, f) /\ SameRows(u, v) /\ v.pageSize = u.pageSize
    BY <1>2, <1>4, <2>6, <2>7, PlacedIsWell
  <2>10. \E k \in DOMAIN F : KeyOf[F[k]] = t.selKey
    BY <1>6, <2>4
  <2> QED BY <1>2, <1>3, <1>7, <2>8, <2>9, <2>10 DEF SameRows
<1> QED BY <1>8, <1>9

(* The rows a page holds in h lines. *)
PageFor(h) == IF h - Chrome < 1 THEN 1 ELSE h - Chrome

LEMMA SetSizeIs ==
  ASSUME NEW t, NEW f, NEW h \in Int, Good(t, f)
  PROVE  LET u == SetSize(t, h)
         IN  /\ Good(u, f) /\ SameRows(t, u) /\ Pos(u) = Pos(t) /\ u.selKey = t.selKey
             /\ u.pageSize = PageFor(h) /\ u.cursor < u.pageSize
             /\ OnRow(t, f) => Well(u, f)
<1>1. PageFor(h) \in Nat \ {0}
  BY DEF PageFor, Chrome
<1>2. TableType(t)
  BY DEF Good
<1>3. PICK v : v = [t EXCEPT !.pageSize = PageFor(h)]
  OBVIOUS
<1>4. /\ TableType(v) /\ SameRows(t, v) /\ v.cached = t.cached /\ v.selKey = t.selKey
      /\ v.pageSize = PageFor(h)
  BY <1>1, <1>2, <1>3 DEF TableType, SameRows
<1>5. Good(v, f)
  BY <1>4, SameFiltered DEF Good
<1>6. Pos(t) \in Nat
  BY <1>2, PosIs
<1>7. PICK u : u = SetSize(t, h)
  OBVIOUS
<1>8. u = At(v, Pos(t))
  BY <1>3, <1>7 DEF SetSize, PageFor
<1>9. /\ Good(u, f) /\ SameRows(v, u) /\ Pos(u) = Pos(t) /\ u.pageSize = v.pageSize
      /\ u.selKey = v.selKey /\ u.cursor < v.pageSize
  BY <1>5, <1>6, <1>8, AtIs
<1>10. SameRows(t, u) /\ Filtered(u, f) = Filtered(t, f)
  BY <1>4, <1>9, SameFiltered DEF SameRows
<1>11. OnRow(t, f) => Well(u, f)
  BY <1>4, <1>9, <1>10 DEF OnRow, Well
<1> QED BY <1>4, <1>7, <1>9, <1>10, <1>11

(* When the rows change, the selection stays with its connection, or else  *)
(* the highlight in its place.                                             *)
Follows(u, t, f) ==
  Filtered(u, f) # <<>> =>
    IF \E i \in DOMAIN Filtered(u, f) : KeyOf[Filtered(u, f)[i]] = t.selKey
      THEN u.selKey = t.selKey
      ELSE Pos(u) = IF Pos(t) < Len(Filtered(u, f)) THEN Pos(t) ELSE Len(Filtered(u, f)) - 1

(* A table about to be filled anew. *)
Emptied(v, t) == TableType(v) /\ v.cached = None /\ v.selKey = t.selKey /\ Pos(v) = Pos(t)

LEMMA RefillIs ==
  ASSUME NEW t, NEW v, NEW f, Emptied(v, t)
  PROVE  Well(Reselect(v, f), f) /\ Follows(Reselect(v, f), t, f)
<1>1. Good(v, f)
  BY DEF Emptied, Good
<1>2. PICK u : u = Reselect(v, f)
  OBVIOUS
<1>3. PICK F : F = Filtered(v, f)
  OBVIOUS
<1>4. /\ Well(u, f) /\ SameRows(v, u)
      /\ F # <<>> => IF \E i \in DOMAIN F : KeyOf[F[i]] = v.selKey
                       THEN u.selKey = v.selKey
                       ELSE Pos(u) = IF Pos(v) < Len(F) THEN Pos(v) ELSE Len(F) - 1
  BY <1>1, <1>2, <1>3, ReselectIs
<1>5. Filtered(u, f) = F
  BY <1>3, <1>4, SameFiltered
<1> QED BY <1>2, <1>4, <1>5 DEF Follows, Emptied

LEMMA InvalidateCacheIs ==
  ASSUME NEW t, NEW f, TableType(t)
  PROVE  Well(InvalidateCache(t, f), f) /\ Follows(InvalidateCache(t, f), t, f)
<1>1. PICK v : v = [t EXCEPT !.cached = None]
  OBVIOUS
<1>2. Emptied(v, t)
  BY <1>1 DEF TableType, Emptied, Pos
<1> QED BY <1>1, <1>2, RefillIs DEF InvalidateCache

LEMMA SetConnectionsIs ==
  ASSUME NEW t, NEW f, NEW snap \in Snapshots, TableType(t)
  PROVE  Well(SetConnections(t, f, snap), f) /\ Follows(SetConnections(t, f, snap), t, f)
<1>1. PICK v : v = [t EXCEPT !.snap = snap, !.cached = None]
  OBVIOUS
<1>2. Emptied(v, t)
  BY <1>1 DEF TableType, Emptied, Pos
<1> QED BY <1>1, <1>2, RefillIs DEF SetConnections

LEMMA CycleSortIs ==
  ASSUME NEW t, NEW f, TableType(t)
  PROVE  Well(CycleSort(t, f), f) /\ Follows(CycleSort(t, f), t, f)
<1>1. PICK mode : mode = (t.sort % SortModes) + 1
  OBVIOUS
<1>2. mode \in 1 .. SortModes
  <2>1. t.sort \in Nat /\ SortModes \in Nat \ {0}
    BY TableAssumption DEF TableType
  <2> QED BY <1>1, <2>1
<1>3. PICK v : v = [t EXCEPT !.sort = mode, !.cached = None]
  OBVIOUS
<1>4. Emptied(v, t)
  BY <1>2, <1>3 DEF TableType, Emptied, Pos
<1>5. CycleSort(t, f) = Reselect(v, f)
  BY <1>1, <1>3 DEF CycleSort
<1> QED BY <1>4, <1>5, RefillIs

-----------------------------------------------------------------------------
(* The UI.                                                                 *)

(* The table is filled, its cursor on its page and on the selection; once  *)
(* it has a snapshot it has been fitted to the frame.                      *)
NavInv ==
  /\ height \in Nat
  /\ Well(table, filter)
  /\ table.snap # None => table.pageSize = PageFor(ContentHeight(height, filter, paused))

(* What a handler made of the table, before the resize that ends it. *)
Handled(w) ==
  /\ height' \in Nat
  /\ Good(w, filter')
  /\ OnRow(w, filter')
  /\ table' = SetSize(w, ContentHeight(height', filter', paused'))
  /\ Filtered(w, filter') = Filtered(table, filter) \/ Follows(w, table, filter')

LEMMA ContentHeightIs ==
  ASSUME NEW h \in Nat, NEW f, NEW p
  PROVE  ContentHeight(h, f, p) \in Nat \ {0}
BY DEF ContentHeight

LEMMA HandlerIs ==
  ASSUME NavInv, Next
  PROVE  \E w : Handled(w)
<1>1. /\ height \in Nat /\ Well(table, filter) /\ Good(table, filter) /\ OnRow(table, filter)
      /\ TableType(table)
  BY DEF NavInv, Well, Good
<1>2. ASSUME height' \in Nat, Refit(table), filter' = filter
      PROVE  \E w : Handled(w)
  BY <1>1, <1>2 DEF Handled, Refit
<1>3. ASSUME NEW w, height' \in Nat, Refit(w), Well(w, filter'), SameRows(table, w), filter' = filter
      PROVE  \E v : Handled(v)
  BY <1>3, SameFiltered DEF Handled, Refit, Well
<1>4. ASSUME NEW w, height' \in Nat, Refit(w), Well(w, filter'), Follows(w, table, filter')
      PROVE  \E v : Handled(v)
  BY <1>4 DEF Handled, Refit, Well
<1>5. ASSUME height' \in Nat, Refit(InvalidateCache(table, filter'))
      PROVE  \E v : Handled(v)
  BY <1>1, <1>4, <1>5, InvalidateCacheIs
<1>6. ASSUME height' = height, filter' = filter, SyncTable
      PROVE  \E v : Handled(v)
  <2>1. PICK fitted : fitted = SetSize(table, ContentHeight(height', filter', paused'))
    OBVIOUS
  <2>2. ContentHeight(height', filter', paused') \in Int
    BY <1>1, <1>6, ContentHeightIs
  <2>3. /\ Well(fitted, filter) /\ SameRows(table, fitted) /\ Pos(fitted) = Pos(table)
        /\ fitted.selKey = table.selKey /\ TableType(fitted)
    BY <1>1, <2>1, <2>2, SetSizeIs DEF Good
  <2>4. CASE Refit(fitted)
    BY <1>1, <1>3, <1>6, <2>3, <2>4
  <2>5. ASSUME NEW snap \in Snapshots, Refit(SetConnections(fitted, filter', snap))
        PROVE  \E v : Handled(v)
    <3>1. PICK w : w = SetConnections(fitted, filter', snap)
      OBVIOUS
    <3>2. Well(w, filter') /\ Follows(w, fitted, filter')
      BY <2>3, <3>1, SetConnectionsIs
    <3>3. Follows(w, table, filter')
      BY <2>3, <3>2 DEF Follows
    <3> QED BY <1>1, <1>4, <1>6, <2>5, <3>1, <3>2, <3>3
  <2> QED BY <1>6, <2>1, <2>4, <2>5 DEF SyncTable
<1>7. CASE Resize
  <2>1. height' \in Nat /\ filter' = filter /\ Refit(table)
    BY <1>7, NavigationAssumption DEF Resize
  <2> QED BY <1>2, <2>1
<1>8. CASE PollResult \/ Pause
  BY <1>6, <1>8 DEF PollResult, Pause
<1>9. CASE ToggleHelp \/ SwitchTab \/ OpenPrompt \/ Edit \/ Cancel
  <2>1. height' = height /\ filter' = filter /\ Refit(table)
    BY <1>9 DEF ToggleHelp, SwitchTab, OpenPrompt, Edit, Cancel
  <2> QED BY <1>1, <1>2, <2>1
<1>10. CASE OpenFinding \/ ToggleListen
  <2>1. height' = height /\ Refit(InvalidateCache(table, filter'))
    BY <1>10 DEF OpenFinding, ToggleListen
  <2> QED BY <1>1, <1>5, <2>1
<1>11. CASE OpenDetail
  <2>1. PICK w : w = Cached(table, filter)
    OBVIOUS
  <2>2. height' = height /\ filter' = filter /\ Refit(w)
    BY <1>11, <2>1 DEF OpenDetail
  <2>3. /\ Good(w, filter) /\ SameRows(table, w) /\ Pos(w) = Pos(table)
        /\ w.pageSize = table.pageSize /\ w.cursor = table.cursor /\ w.selKey = table.selKey
    BY <1>1, <2>1, CachedIs
  <2>4. Well(w, filter)
    BY <1>1, <2>3, SameFiltered DEF Well, OnRow
  <2> QED BY <1>1, <1>3, <2>2, <2>3, <2>4
<1>12. CASE Escape
  <2>1. /\ height' = height
        /\ \/ filter' = filter /\ Refit(table)
           \/ Refit(InvalidateCache(table, filter'))
    BY <1>12 DEF Escape
  <2> QED BY <1>1, <1>2, <1>5, <2>1
<1>13. CASE Move
  <2>1. PICK w \in {MoveNext(table, filter), MovePrev(table, filter),
                    MoveFirst(table, filter), MoveLast(table, filter)} : Refit(w)
    BY <1>13 DEF Move
  <2>2. height' = height /\ filter' = filter
    BY <1>13 DEF Move
  <2>3. Well(w, filter) /\ SameRows(table, w)
    BY <1>1, MoveNextIs, MovePrevIs, MoveFirstIs, MoveLastIs
  <2> QED BY <1>1, <1>3, <2>1, <2>2, <2>3
<1>14. CASE NextSort
  <2>1. height' = height /\ filter' = filter /\ Refit(CycleSort(table, filter))
    BY <1>14 DEF NextSort
  <2>2. Well(CycleSort(table, filter), filter) /\ Follows(CycleSort(table, filter), table, filter)
    BY <1>1, CycleSortIs
  <2> QED BY <1>1, <1>4, <2>1, <2>2
<1>15. CASE Apply
  <2>1. /\ height' = height
        /\ \/ filter' = filter /\ Refit(table)
           \/ Refit(InvalidateCache(table, filter'))
    BY <1>15 DEF Apply
  <2> QED BY <1>1, <1>2, <1>5, <2>1
<1> QED BY <1>7, <1>8, <1>9, <1>10, <1>11, <1>12, <1>13, <1>14, <1>15 DEF Next

LEMMA NavStep ==
  ASSUME NavInv, [Next]_vars
  PROVE  NavInv'
<1>1. CASE UNCHANGED vars
  BY <1>1, Zenon DEF vars, NavInv
<1>2. CASE Next
  <2>1. PICK w : Handled(w)
    BY <1>2, HandlerIs
  <2>2. ContentHeight(height', filter', paused') \in Int
    BY <2>1, ContentHeightIs DEF Handled
  <2>3. /\ Well(table', filter')
        /\ table'.pageSize = PageFor(ContentHeight(height', filter', paused'))
    BY <2>1, <2>2, SetSizeIs DEF Handled
  <2> QED BY <2>1, <2>3 DEF Handled, NavInv
<1> QED BY <1>1, <1>2

LEMMA NavInit == Init => NavInv
<1> SUFFICES ASSUME Init PROVE NavInv
  OBVIOUS
<1>1. table = NewTable /\ height = 0
  BY DEF Init
<1>2. TableType(table) /\ table.snap = None /\ table.cached = None /\ table.cursor < table.pageSize
  BY <1>1, TableAssumption DEF TableType, NewTable
<1>3. Filtered(table, filter) = <<>>
  BY <1>2 DEF Filtered
<1> QED BY <1>1, <1>2, <1>3 DEF NavInv, Well, Good, OnRow

(* Whatever polls, filters, sorts, pauses and resizes come in whatever     *)
(* order, the rows on screen are those of the snapshot in view under the   *)
(* filter and the sort in force.                                           *)
THEOREM RowsSafety == Spec => []RowsAreCurrent
<1>1. NavInv => RowsAreCurrent
  BY RowsIs DEF NavInv, Well, RowsAreCurrent, TheRows
<1>2. NavInv /\ [Next]_vars => NavInv'
  BY NavStep
<1> QED BY <1>1, <1>2, NavInit, PTL DEF Spec

(* The row under the highlight exists, and is the connection that Enter    *)
(* and the line of signals are about.                                      *)
THEOREM HighlightSafety == Spec => []HighlightIsSelection
<1>1. NavInv => HighlightIsSelection
  <2> SUFFICES ASSUME NavInv, TheRows # <<>>
               PROVE  /\ Selected(table, filter) # None
                      /\ KeyOf[Selected(table, filter)] = table.selKey
    BY DEF HighlightIsSelection
  <2>1. Good(table, filter) /\ OnRow(table, filter) /\ TheRows = Filtered(table, filter)
    BY RowsIs DEF NavInv, Well, TheRows
  <2> QED BY <2>1, SelectedIs DEF OnRow
<1>2. NavInv /\ [Next]_vars => NavInv'
  BY NavStep
<1> QED BY <1>1, <1>2, NavInit, PTL DEF Spec

(* The highlighted row is drawn in a terminal of any height that leaves    *)
(* the table a header and a row, with and without the filter and scrub     *)
(* bars.                                                                   *)
THEOREM VisibleSafety == Spec => []CursorStaysVisible
<1>1. NavInv => CursorStaysVisible
  <2>1. PICK ch : ch = ContentHeight(height, filter, paused)
    OBVIOUS
  <2> SUFFICES ASSUME NavInv, TheRows # <<>>, ch >= 4
               PROVE  CursorDrawn
    BY <2>1 DEF CursorStaysVisible
  <2>2. ch \in Nat
    BY <2>1, ContentHeightIs DEF NavInv
  <2>3. Good(table, filter) /\ OnRow(table, filter) /\ TheRows = Filtered(table, filter)
        /\ table.cursor < table.pageSize
    BY RowsIs DEF NavInv, Well, TheRows
  <2>4. table.snap # None
    BY <2>3 DEF Filtered
  <2>5. table.pageSize = PageFor(ch)
    BY <2>1, <2>4 DEF NavInv
  <2>6. PICK n, start : n = Len(TheRows) /\ start = table.page * table.pageSize
    OBVIOUS
  <2>7. /\ n \in Nat /\ start \in Nat /\ table.cursor \in Nat /\ table.pageSize \in Nat \ {0}
        /\ start + table.cursor < n
    <3>1. TableType(table)
      BY <2>3 DEF Good
    <3>2. n \in Nat /\ Pos(table) < n
      BY <2>3, <2>6, <3>1, FilteredIs DEF OnRow
    <3>3. table.page \in Nat /\ table.cursor \in Nat /\ table.pageSize \in Nat \ {0}
      BY <3>1 DEF TableType
    <3>4. \A p \in Nat, s \in Nat : p * s \in Nat
      OBVIOUS
    <3> QED BY <2>6, <3>2, <3>3, <3>4 DEF Pos
  <2>8. Drawn = 2 + (IF n - start < table.pageSize THEN n - start ELSE table.pageSize) + 2
    BY <2>6 DEF Drawn, TheRows
  <2>9. 3 + table.cursor <= IF Drawn <= ch THEN ch ELSE ch - 1
    <3>1. ch = 4 => table.pageSize = 1
      BY <2>5 DEF PageFor, Chrome
    <3>2. ch > 4 => table.pageSize = ch - 4
      BY <2>2, <2>5 DEF PageFor, Chrome
    <3> QED BY <2>2, <2>3, <2>7, <2>8, <3>1, <3>2
  <2> QED BY <2>1, <2>3, <2>9 DEF CursorDrawn
<1>2. NavInv /\ [Next]_vars => NavInv'
  BY NavStep
<1> QED BY <1>1, <1>2, NavInit, PTL DEF Spec

(* The selection stays on its connection through every poll, filter, sort  *)
(* and resize that leaves it among the rows, and else the highlight stays  *)
(* in its place: for any snapshots and however many rows come and go.      *)
THEOREM FollowSafety == Spec => SelectionFollowsConnection
<1> DEFINE Followed ==
      LET rows == TheRows'
      IN  rows # TheRows /\ rows # <<>> =>
            IF \E i \in DOMAIN rows : KeyOf[rows[i]] = table.selKey
              THEN table'.selKey = table.selKey
              ELSE Pos(table') = IF Pos(table) < Len(rows) THEN Pos(table) ELSE Len(rows) - 1
<1>1. NavInv /\ [Next]_vars => [Followed]_vars
  <2> SUFFICES ASSUME NavInv, Next PROVE Followed
    OBVIOUS
  <2>1. PICK w : Handled(w)
    BY HandlerIs
  <2>2. ContentHeight(height', filter', paused') \in Int
    BY <2>1, ContentHeightIs DEF Handled
  <2>3. /\ Good(table', filter') /\ SameRows(w, table') /\ Pos(table') = Pos(w)
        /\ table'.selKey = w.selKey
    BY <2>1, <2>2, SetSizeIs DEF Handled
  <2>4. Filtered(table', filter') = Filtered(w, filter')
    BY <2>3, SameFiltered
  <2>5. TheRows = Filtered(table, filter) /\ TheRows' = Filtered(table', filter')
    BY <2>3, RowsIs DEF NavInv, Well, TheRows
  <2>6. CASE Filtered(w, filter') = Filtered(table, filter)
    BY <2>4, <2>5, <2>6
  <2>7. CASE Follows(w, table, filter')
    <3>1. PICK rows : rows = TheRows'
      OBVIOUS
    <3>2. rows = Filtered(w, filter')
      BY <2>4, <2>5, <3>1
    <3>3. rows # <<>> =>
            IF \E i \in DOMAIN rows : KeyOf[rows[i]] = table.selKey
              THEN w.selKey = table.selKey
              ELSE Pos(w) = IF Pos(table) < Len(rows) THEN Pos(table) ELSE Len(rows) - 1
      BY <2>7, <3>2 DEF Follows
    <3> QED BY <2>3, <3>1, <3>3
  <2> QED BY <2>1, <2>6, <2>7 DEF Handled
<1>2. NavInv /\ [Next]_vars => NavInv'
  BY NavStep
<1> HIDE DEF Followed
<1>3. Spec => [][Followed]_vars
  BY <1>1, <1>2, NavInit, PTL DEF Spec
<1> QED BY <1>3, Zenon DEF SelectionFollowsConnection, Followed

-----------------------------------------------------------------------------
(* The resolver.                                                           *)

(* A cache that may hold anything on screen is finite. *)
LEMMA CacheFinite ==
  ASSUME NEW C \in SUBSET (Ips \cup Others)
  PROVE  IsFiniteSet(C)
<1>1. IsFiniteSet(Ips \cup Others)
  BY ResolverAssumption, FS_Union
<1> QED BY <1>1, FS_Subset

(* What is no address takes no room from the addresses. *)
LEMMA FewerAddresses ==
  ASSUME NEW C \in SUBSET (Ips \cup Others)
  PROVE  /\ Cardinality(C \cap Ips) \in Nat
         /\ Cardinality(C) \in Nat
         /\ Cardinality(C \cap Ips) <= Cardinality(C)
<1>1. IsFiniteSet(C) /\ IsFiniteSet(C \cap Ips)
  BY CacheFinite, FS_Subset
<1>2. C \cap Ips \subseteq C
  OBVIOUS
<1> QED BY <1>1, <1>2, FS_Subset, FS_CardinalityType

-----------------------------------------------------------------------------

(* Every step keeps the types. *)
LEMMA TypesStep == TypeOK /\ [ResolverNext]_resolverVars => TypeOK'
<1> SUFFICES ASSUME TypeOK, [ResolverNext]_resolverVars
             PROVE  TypeOK'
  OBVIOUS
<1> USE DEF TypeOK
<1>1. CASE Toggle
  BY <1>1 DEF Toggle
<1>2. ASSUME NEW name \in Others, DisplayOther(name)
      PROVE  TypeOK'
  BY <1>2 DEF DisplayOther
<1>3. ASSUME NEW ip \in Ips, Display(ip)
      PROVE  TypeOK'
  BY <1>3 DEF Display
<1>4. ASSUME NEW ip \in Ips, Resolved(ip)
      PROVE  TypeOK'
  BY <1>4 DEF Resolved, Room, Landed
<1>5. CASE UNCHANGED resolverVars
  BY <1>5 DEF resolverVars
<1> QED BY <1>1, <1>2, <1>3, <1>4, <1>5 DEF ResolverNext

(* The variables of the resolver keep their types: nothing but what is on  *)
(* screen is cached or looked up.                                          *)
THEOREM ResolverTypes == ResolverSpec => []TypeOK
<1>1. ResolverInit => TypeOK
  BY DEF ResolverInit, TypeOK
<1> QED BY <1>1, TypesStep, PTL DEF ResolverSpec

-----------------------------------------------------------------------------

(* Every step keeps the mark of an address in step with its look-up. *)
LEMMA OneLookupStep == TypeOK /\ OneLookup /\ [ResolverNext]_resolverVars => OneLookup'
<1> SUFFICES ASSUME TypeOK, OneLookup, [ResolverNext]_resolverVars
             PROVE  OneLookup'
  OBVIOUS
<1> USE DEF TypeOK, OneLookup
<1>1. CASE Toggle
  BY <1>1 DEF Toggle
<1>2. ASSUME NEW name \in Others, DisplayOther(name)
      PROVE  OneLookup'
  BY <1>2 DEF DisplayOther
<1>3. ASSUME NEW ip \in Ips, Display(ip)
      PROVE  OneLookup'
  BY <1>3 DEF Display
<1>4. ASSUME NEW ip \in Ips, Resolved(ip)
      PROVE  OneLookup'
  BY <1>4 DEF Resolved, Landed
<1>5. CASE UNCHANGED resolverVars
  BY <1>5 DEF resolverVars
<1> QED BY <1>1, <1>2, <1>3, <1>4, <1>5 DEF ResolverNext

(* However often resolution is toggled and the cache emptied, an address   *)
(* is asked about once at a time, and marked exactly while it is.          *)
THEOREM LookupSafety == ResolverSpec => []OneLookup
<1>1. ResolverInit => OneLookup
  BY DEF ResolverInit, OneLookup
<1> QED BY <1>1, ResolverTypes, OneLookupStep, PTL DEF ResolverSpec

-----------------------------------------------------------------------------

(* A look-up that ends leaves room for no more addresses than the limit. *)
LEMMA ResolvedFits ==
  ASSUME TypeOK, NEW ip \in Ips, Resolved(ip)
  PROVE  CacheBounded'
<1>1. CASE Cardinality(cache) >= MaxCache
  <2>1. cache' \cap Ips = {ip}
    BY <1>1 DEF Resolved, Room
  <2>2. Cardinality(cache' \cap Ips) = 1
    BY <2>1, FS_Singleton
  <2> QED BY <2>2, ResolverAssumption DEF CacheBounded
<1>2. CASE ~(Cardinality(cache) >= MaxCache)
  <2>1. cache' = cache \cup {ip} /\ cache' \subseteq Ips \cup Others
    BY <1>2 DEF Resolved, Room, TypeOK
  <2>2. IsFiniteSet(cache)
    BY CacheFinite DEF TypeOK
  <2>3. Cardinality(cache) \in Nat /\ Cardinality(cache') <= Cardinality(cache) + 1
    <3>1. Cardinality(cache \cup {ip}) =
            IF ip \in cache THEN Cardinality(cache) ELSE Cardinality(cache) + 1
      BY <2>2, FS_AddElement
    <3>2. Cardinality(cache) \in Nat
      BY <2>2, FS_CardinalityType
    <3>3. Cardinality(cache') = Cardinality(cache \cup {ip})
      BY <2>1
    <3> QED BY <3>1, <3>2, <3>3
  <2>4. /\ Cardinality(cache' \cap Ips) \in Nat
        /\ Cardinality(cache') \in Nat
        /\ Cardinality(cache' \cap Ips) <= Cardinality(cache')
    BY <2>1, FewerAddresses
  <2> QED BY <1>2, <2>3, <2>4, ResolverAssumption DEF CacheBounded
<1> QED BY <1>1, <1>2

(* Every step keeps the bound. *)
LEMMA BoundedStep == TypeOK /\ CacheBounded /\ [ResolverNext]_resolverVars => CacheBounded'
<1> SUFFICES ASSUME TypeOK, CacheBounded, [ResolverNext]_resolverVars
             PROVE  CacheBounded'
  OBVIOUS
<1>1. CASE Toggle
  BY <1>1 DEF Toggle, CacheBounded
<1>2. ASSUME NEW name \in Others, DisplayOther(name)
      PROVE  CacheBounded'
  <2>1. cache' \cap Ips = cache \cap Ips
    BY <1>2, ResolverAssumption DEF DisplayOther
  <2> QED BY <2>1 DEF CacheBounded
<1>3. ASSUME NEW ip \in Ips, Display(ip)
      PROVE  CacheBounded'
  BY <1>3 DEF Display, CacheBounded
<1>4. ASSUME NEW ip \in Ips, Resolved(ip)
      PROVE  CacheBounded'
  BY <1>4, ResolvedFits
<1>5. CASE UNCHANGED resolverVars
  BY <1>5 DEF resolverVars, CacheBounded
<1> QED BY <1>1, <1>2, <1>3, <1>4, <1>5 DEF ResolverNext

(* The cache never holds more addresses than its limit, whatever comes and *)
(* goes on screen and in whatever order the look-ups end.                  *)
THEOREM CacheSafety == ResolverSpec => []CacheBounded
<1>1. ResolverInit => CacheBounded
  <2>1. {} \cap Ips = {}
    OBVIOUS
  <2> QED BY <2>1, FS_EmptySet, ResolverAssumption DEF ResolverInit, CacheBounded
<1> QED BY <1>1, ResolverTypes, BoundedStep, PTL DEF ResolverSpec

-----------------------------------------------------------------------------
(* Filter.  The parser and the grammar are recursive, and nothing is known *)
(* of a recursive function before it is shown to have a solution: first    *)
(* that, from a measure that each call decreases, then what they compute.  *)

(* h answers the calls of S whose measure mu is below n as F says. F is a  *)
(* recursion: from the answers f to all calls it makes F[f], each answered *)
(* by the body of the definition, with calls answered by f.                *)
Solves(h, n, F, S, mu, Fs) == h \in Fs /\ \A x \in S : mu[x] < n => h[x] = F[h][x]

(* Functions that give each x in S an answer of ok[x].                     *)
Suited(S, V, ok) == {f \in [S -> V] : \A x \in S : f[x] \in ok[x]}

(* What F answers to x depends only on the answers to what is below x.     *)
Contracts(F, S, mu, Fs) ==
  \A f, g \in Fs, x \in S : (\A y \in S : mu[y] < mu[x] => f[y] = g[y]) => F[f][x] = F[g][x]

(* A recursion whose answer to each call depends only on the answers to    *)
(* calls of a smaller measure has a solution: any two functions that       *)
(* answer the calls below some n as F says agree there, and the solution   *)
(* answers each call as one of them that reaches beyond it.                *)
LEMMA RecursionExists ==
  ASSUME NEW S, NEW V, NEW ok, NEW Fs, Fs = Suited(S, V, ok), Fs # {},
         NEW F \in [Fs -> Fs], NEW mu \in [S -> Nat], Contracts(F, S, mu, Fs)
  PROVE  \E f \in Fs : F[f] = f
<1> USE DEF Suited, Contracts
<1> DEFINE Sol(h, n) == Solves(h, n, F, S, mu, Fs)
           Unsolved == {n \in Nat : ~\E h : Sol(h, n)}
<1>1. Unsolved = {}
  <2> SUFFICES ASSUME Unsolved # {} PROVE FALSE
    OBVIOUS
  <2>1. PICK n \in Unsolved : \A k \in Unsolved : n <= k
    BY Least
  <2>2. \E h : Sol(h, 0)
    <3>1. PICK h \in Fs : TRUE
      OBVIOUS
    <3>2. \A x \in S : ~(mu[x] < 0)
      OBVIOUS
    <3>3. Sol(h, 0)
      BY <3>2 DEF Solves
    <3> QED BY <3>3
  <2>3. n \in Nat /\ n # 0 /\ \E h : Sol(h, n - 1)
    <3> HIDE DEF Sol
    <3>1. n \in Nat /\ n # 0
      BY <2>2
    <3>2. n - 1 \in Nat /\ ~(n <= n - 1)
      BY <3>1
    <3>3. n - 1 \notin Unsolved
      BY <2>1, <3>2
    <3> QED BY <3>1, <3>2, <3>3
  <2>4. PICK h : Sol(h, n - 1)
    BY <2>3
  <2>5. h \in Fs /\ F[h] \in Fs
    BY <2>4 DEF Solves
  <2>6. ASSUME NEW x \in S, mu[x] < n
        PROVE  F[h][x] = F[F[h]][x]
    <3>1. ASSUME NEW y \in S, mu[y] < mu[x]
          PROVE  h[y] = F[h][y]
      <4>1. mu[y] < n - 1
        BY <2>6, <3>1
      <4> QED BY <2>4, <4>1 DEF Solves
    <3> QED BY <2>5, <3>1
  <2>7. Sol(F[h], n)
    BY <2>5, <2>6 DEF Solves
  <2> HIDE DEF Sol
  <2> QED BY <2>7
<1>2. ASSUME NEW g, NEW h, NEW m \in Nat, NEW n \in Nat, Sol(g, m), Sol(h, n),
             NEW x \in S, mu[x] < m, mu[x] < n
      PROVE  g[x] = h[x]
  <2> DEFINE Apart == {k \in Nat : \E y \in S : k = mu[y] /\ k < m /\ k < n /\ g[y] # h[y]}
  <2>1. ASSUME Apart # {}
        PROVE  FALSE
    <3>1. PICK k \in Apart : \A j \in Apart : k <= j
      BY <2>1, Least
    <3>2. PICK y \in S : k = mu[y] /\ k < m /\ k < n /\ g[y] # h[y]
      BY <3>1
    <3>3. ASSUME NEW z \in S, mu[z] < mu[y]
          PROVE  g[z] = h[z]
      <4>1. mu[z] \notin Apart /\ mu[z] < m /\ mu[z] < n
        BY <3>1, <3>2, <3>3
      <4> QED BY <4>1
    <3>4. g[y] = F[g][y] /\ h[y] = F[h][y] /\ g \in Fs /\ h \in Fs
      BY <1>2, <3>2 DEF Solves
    <3>5. F[g][y] = F[h][y]
      BY <3>3, <3>4
    <3> QED BY <3>2, <3>4, <3>5
  <2> QED BY <1>2, <2>1
<1> HIDE DEF Unsolved
<1>3. PICK H : H = [n \in Nat |-> CHOOSE h : Sol(h, n)]
  OBVIOUS
<1>4. \A n \in Nat : Sol(H[n], n)
  <2>1. ASSUME NEW n \in Nat
        PROVE  Sol(H[n], n)
    <3>1. \E h : Sol(h, n)
      BY <1>1 DEF Unsolved
    <3>2. H[n] = CHOOSE h : Sol(h, n)
      BY <1>3
    <3> HIDE DEF Sol
    <3>3. Sol(CHOOSE h : Sol(h, n), n)
      BY <3>1
    <3> QED BY <3>2, <3>3
  <2> QED BY <2>1
<1>5. PICK f : f = [x \in S |-> H[mu[x] + 1][x]]
  OBVIOUS
<1>6. f \in Fs
  <2>1. ASSUME NEW x \in S
        PROVE  f[x] \in V /\ f[x] \in ok[x]
    <3>1. mu[x] + 1 \in Nat
      OBVIOUS
    <3>2. H[mu[x] + 1] \in Fs
      BY <1>4, <3>1 DEF Solves
    <3> QED BY <1>5, <3>2
  <2> QED BY <1>5, <2>1
<1>7. ASSUME NEW x \in S
      PROVE  F[f][x] = f[x]
  <2>1. PICK h : h = H[mu[x] + 1]
    OBVIOUS
  <2>2. mu[x] + 1 \in Nat /\ Sol(h, mu[x] + 1) /\ h \in Fs
    BY <1>4, <2>1 DEF Solves
  <2>3. ASSUME NEW y \in S, mu[y] < mu[x]
        PROVE  f[y] = h[y]
    <3>1. mu[y] + 1 \in Nat /\ mu[y] < mu[y] + 1 /\ mu[y] < mu[x] + 1
      BY <2>3
    <3>2. Sol(H[mu[y] + 1], mu[y] + 1)
      BY <1>4, <3>1
    <3>3. H[mu[y] + 1][y] = h[y]
      BY <1>2, <2>2, <3>1, <3>2
    <3> QED BY <1>5, <3>3
  <2>4. F[f][x] = F[h][x]
    BY <1>6, <2>2, <2>3
  <2>5. h[x] = F[h][x]
    BY <2>2 DEF Solves
  <2> QED BY <1>5, <2>1, <2>4, <2>5
<1>8. F[f] = f
  <2>1. F[f] \in Fs
    BY <1>6
  <2>2. f \in [S -> V] /\ F[f] \in [S -> V]
    BY <1>6, <2>1
  <2> QED BY <1>7, <2>2
<1> QED BY <1>6, <1>8

-----------------------------------------------------------------------------
(* The parser: it never goes back, and gets on between two calls of the    *)
(* same method. How far a call is from the end of the text q, a loop a     *)
(* little more:                                                            *)
Ahead(q) == [c \in Calls(q) |-> 2 * (Len(q) + 1 - c[2].pos) + (IF c[1] = "not" THEN 0 ELSE 1)]

(* The answers to call c that do not go back, and get on if they find a    *)
(* node where none was.                                                    *)
Forward(q, c) ==
  {r \in Results(q) : r.pos >= c[2].pos /\ (c[1] = "not" /\ r.node # NoNode => r.pos > c[2].pos)}

(* Parsers of q that never go back.                                        *)
Runs(q) == {run \in [Calls(q) -> Results(q)] : \A c \in Calls(q) : run[c] \in Forward(q, c)}

(* A node that was parsed is not the nil node.                             *)
LEMMA NodeType == NoNode \notin SUBSET Connections
  BY FilterAssumption DEF Connections

(* What Parsed and Peek give, and the parts of a result.                   *)
LEMMA ParsedType ==
  ASSUME NEW q \in Seq(Tokens), NEW node \in {NoNode} \cup SUBSET Connections,
         NEW pos \in 1 .. Len(q) + 1, NEW err \in BOOLEAN
  PROVE  /\ Parsed(node, pos, err) \in Results(q)
         /\ Parsed(node, pos, err).node = node
         /\ Parsed(node, pos, err).pos = pos
         /\ Parsed(node, pos, err).err = err
  BY DEF Parsed, Results

LEMMA ResultType ==
  ASSUME NEW q \in Seq(Tokens), NEW r \in Results(q)
  PROVE  /\ r.node \in {NoNode} \cup SUBSET Connections
         /\ r.pos \in 1 .. Len(q) + 1
         /\ r.err \in BOOLEAN
         /\ r = Parsed(r.node, r.pos, r.err)
  BY DEF Parsed, Results

LEMMA PeekType ==
  ASSUME NEW q \in Seq(Tokens), NEW pos \in 1 .. Len(q) + 1
  PROVE  /\ Peek(q, pos) \in Tokens \cup {""}
         /\ (Peek(q, pos) # "") <=> (pos <= Len(q))
         /\ pos <= Len(q) => pos + 1 \in 1 .. Len(q) + 1 /\ Peek(q, pos) = q[pos]
<1>1. "" \notin Tokens
  BY FilterAssumption DEF Tokens
<1>2. Len(q) \in Nat /\ \A k \in 1 .. Len(q) : q[k] \in Tokens
  OBVIOUS
<1>3. CASE pos <= Len(q)
  <2>1. pos \in 1 .. Len(q) /\ pos + 1 \in 1 .. Len(q) + 1
    BY <1>2, <1>3
  <2>2. Peek(q, pos) = q[pos] /\ q[pos] \in Tokens
    BY <1>2, <1>3, <2>1 DEF Peek
  <2> QED BY <1>1, <1>3, <2>1, <2>2
<1>4. CASE ~(pos <= Len(q))
  BY <1>4 DEF Peek
<1> QED BY <1>3, <1>4

(* A parse that has found nothing yet.                                     *)
LEMMA NothingType ==
  ASSUME NEW q \in Seq(Tokens), NEW pos \in 1 .. Len(q) + 1
  PROVE  /\ NothingAt(pos) \in Results(q)
         /\ NothingAt(pos).node = NoNode
         /\ NothingAt(pos).pos = pos
<1>1. NoNode \in {NoNode} \cup SUBSET Connections /\ FALSE \in BOOLEAN
  OBVIOUS
<1>2. NothingAt(pos) = [node |-> NoNode, pos |-> pos, err |-> FALSE]
  BY DEF NothingAt, Parsed
<1>3. NothingAt(pos) \in Results(q)
  BY <1>1, <1>2 DEF Results
<1> QED BY <1>2, <1>3

(* What a parser that never goes back answers to a call of parseNot,       *)
LEMMA NotCall ==
  ASSUME NEW q \in Seq(Tokens), NEW run \in Runs(q), NEW pos \in 1 .. Len(q) + 1
  PROVE  /\ <<"not", NothingAt(pos)>> \in Calls(q)
         /\ NothingAt(pos).pos = pos
         /\ Ahead(q)[<<"not", NothingAt(pos)>>] = 2 * (Len(q) + 1 - pos)
         /\ run[<<"not", NothingAt(pos)>>] \in Results(q)
         /\ run[<<"not", NothingAt(pos)>>].pos \in pos .. Len(q) + 1
         /\ run[<<"not", NothingAt(pos)>>].node # NoNode => run[<<"not", NothingAt(pos)>>].pos > pos
<1>1. NothingAt(pos) \in Results(q) /\ NothingAt(pos).pos = pos
  BY NothingType
<1>2. <<"not", NothingAt(pos)>> \in Calls(q)
  BY <1>1 DEF Calls
<1>3. run[<<"not", NothingAt(pos)>>] \in Forward(q, <<"not", NothingAt(pos)>>)
  BY <1>2 DEF Runs
<1>4. PICK r : r = run[<<"not", NothingAt(pos)>>]
  OBVIOUS
<1>5. r \in Results(q) /\ r.pos >= pos /\ (r.node # NoNode => r.pos > pos)
  BY <1>1, <1>3, <1>4 DEF Forward
<1>6. Len(q) \in Nat /\ r.pos \in 1 .. Len(q) + 1
  BY <1>5, ResultType
<1>7. Ahead(q)[<<"not", NothingAt(pos)>>] = 2 * (Len(q) + 1 - pos)
  BY <1>1, <1>2, <1>6 DEF Ahead
<1> QED BY <1>1, <1>2, <1>4, <1>5, <1>6, <1>7

(* to one of the loops of parseAnd and parseOr,                            *)
LEMMA LoopCall ==
  ASSUME NEW q \in Seq(Tokens), NEW run \in Runs(q), NEW l \in Results(q),
         NEW name \in {"andRest", "orRest"}
  PROVE  /\ <<name, l>> \in Calls(q)
         /\ Ahead(q)[<<name, l>>] = 2 * (Len(q) + 1 - l.pos) + 1
         /\ run[<<name, l>>] \in Results(q)
         /\ run[<<name, l>>].pos \in l.pos .. Len(q) + 1
<1>1. <<name, l>> \in Calls(q)
  BY DEF Calls
<1>2. run[<<name, l>>] \in Forward(q, <<name, l>>)
  BY <1>1 DEF Runs
<1>3. PICK r : r = run[<<name, l>>]
  OBVIOUS
<1>4. r \in Results(q) /\ r.pos >= l.pos
  BY <1>2, <1>3 DEF Forward
<1>5. Len(q) \in Nat /\ r.pos \in 1 .. Len(q) + 1 /\ l.pos \in 1 .. Len(q) + 1
  BY <1>4, ResultType
<1>6. Ahead(q)[<<name, l>>] = 2 * (Len(q) + 1 - l.pos) + 1
  BY <1>1, <1>5 DEF Ahead
<1> QED BY <1>1, <1>3, <1>4, <1>5, <1>6

(* and to one of these themselves.                                         *)
LEMMA BothCalls ==
  ASSUME NEW q \in Seq(Tokens), NEW run \in Runs(q), NEW pos \in 1 .. Len(q) + 1
  PROVE  /\ ParseAnd(run, pos) \in Results(q)
         /\ ParseAnd(run, pos).pos \in pos .. Len(q) + 1
         /\ ParseOr(run, pos) \in Results(q)
         /\ ParseOr(run, pos).pos \in pos .. Len(q) + 1
<1> DEFINE n == run[<<"not", NothingAt(pos)>>]
           a == ParseAnd(run, pos)
           o == ParseOr(run, pos)
<1>1. n \in Results(q) /\ n.pos \in pos .. Len(q) + 1
  BY NotCall
<1>2. a = run[<<"andRest", n>>] /\ o = run[<<"orRest", a>>]
  BY DEF ParseAnd, ParseOr
<1>3. Len(q) \in Nat
  OBVIOUS
<1> HIDE DEF n, a, o
<1>4. a \in Results(q) /\ a.pos \in n.pos .. Len(q) + 1
  BY <1>1, <1>2, LoopCall
<1>5. o \in Results(q) /\ o.pos \in a.pos .. Len(q) + 1
  BY <1>2, <1>4, LoopCall
<1> QED BY <1>1, <1>3, <1>4, <1>5 DEF n, a, o

(* parsePrimary and parseNot get on if they find a node.                   *)
LEMMA PrimaryForward ==
  ASSUME NEW q \in Seq(Tokens), NEW run \in Runs(q), NEW pos \in 1 .. Len(q) + 1
  PROVE  /\ ParsePrimary(run, q, pos) \in Results(q)
         /\ ParsePrimary(run, q, pos).pos >= pos
         /\ ParsePrimary(run, q, pos).node # NoNode => ParsePrimary(run, q, pos).pos > pos
<1> DEFINE t == Peek(q, pos)
           inner == ParseOr(run, pos + 1)
<1>1. CASE t \in {"", ")"}
  <2>1. ParsePrimary(run, q, pos) = NothingAt(pos)
    BY <1>1 DEF ParsePrimary
  <2>2. NothingAt(pos) \in Results(q) /\ NothingAt(pos).pos = pos /\ NothingAt(pos).node = NoNode
    BY NothingType
  <2> QED BY <2>1, <2>2
<1>2. CASE t = "("
  <2>1. pos + 1 \in 1 .. Len(q) + 1
    BY <1>2, PeekType
  <2>2. inner \in Results(q) /\ inner.pos \in pos + 1 .. Len(q) + 1
    BY <2>1, BothCalls
  <2>3. Peek(q, inner.pos) = ")" => inner.pos + 1 \in 1 .. Len(q) + 1
    <3>1. inner.pos \in 1 .. Len(q) + 1
      BY <2>2, ResultType
    <3> QED BY <3>1, PeekType
  <2>4. ParsePrimary(run, q, pos) = IF Peek(q, inner.pos) = ")" THEN [inner EXCEPT !.pos = @ + 1] ELSE inner
    BY <1>2 DEF ParsePrimary
  <2> HIDE DEF inner
  <2>5. inner = Parsed(inner.node, inner.pos, inner.err)
    BY <2>2, ResultType
  <2>6. [inner EXCEPT !.pos = @ + 1] = Parsed(inner.node, inner.pos + 1, inner.err)
    BY <2>5 DEF Parsed
  <2>7. CASE Peek(q, inner.pos) = ")"
    <3>1. ParsePrimary(run, q, pos) = Parsed(inner.node, inner.pos + 1, inner.err)
      BY <2>4, <2>6, <2>7
    <3>2. /\ inner.pos + 1 \in 1 .. Len(q) + 1
          /\ inner.node \in {NoNode} \cup SUBSET Connections
          /\ inner.err \in BOOLEAN
      BY <2>2, <2>3, <2>7, ResultType
    <3>3. inner.pos + 1 > pos
      BY <2>2
    <3> QED BY <3>1, <3>2, <3>3, ParsedType
  <2>8. CASE Peek(q, inner.pos) # ")"
    <3>1. ParsePrimary(run, q, pos) = inner
      BY <2>4, <2>8
    <3>2. inner.pos > pos
      BY <2>2
    <3> QED BY <2>2, <3>1, <3>2
  <2> QED BY <2>7, <2>8
<1>3. CASE t \notin {"", ")", "("}
  <2>1. ParsePrimary(run, q, pos) = MakePred(t, pos + 1)
    BY <1>3 DEF ParsePrimary
  <2>2. pos + 1 \in 1 .. Len(q) + 1
    BY <1>3, PeekType
  <2>3. {c \in Connections : t \in c} \in {NoNode} \cup SUBSET Connections /\ (t \in Unknown) \in BOOLEAN
    OBVIOUS
  <2>4. MakePred(t, pos + 1) = Parsed({c \in Connections : t \in c}, pos + 1, t \in Unknown)
    BY DEF MakePred
  <2>5. PICK n, e : n = {c \in Connections : t \in c} /\ e = (t \in Unknown)
    OBVIOUS
  <2>6. MakePred(t, pos + 1) = [node |-> n, pos |-> pos + 1, err |-> e]
    BY <2>4, <2>5 DEF Parsed
  <2>7. n \in {NoNode} \cup SUBSET Connections /\ e \in BOOLEAN
    BY <2>3, <2>5
  <2>8. MakePred(t, pos + 1) \in Results(q) /\ MakePred(t, pos + 1).pos = pos + 1
    BY ONLY <2>2, <2>6, <2>7 DEF Results
  <2>9. pos + 1 > pos
    OBVIOUS
  <2> QED BY <2>1, <2>8, <2>9
<1> QED BY <1>1, <1>2, <1>3

LEMMA NotForward ==
  ASSUME NEW q \in Seq(Tokens), NEW run \in Runs(q), NEW pos \in 1 .. Len(q) + 1
  PROVE  /\ ParseNot(run, q, pos) \in Results(q)
         /\ ParseNot(run, q, pos).pos >= pos
         /\ ParseNot(run, q, pos).node # NoNode => ParseNot(run, q, pos).pos > pos
<1> DEFINE child == run[<<"not", NothingAt(pos + 1)>>]
<1>1. CASE Peek(q, pos) # "not"
  BY <1>1, PrimaryForward DEF ParseNot
<1>2. CASE Peek(q, pos) = "not"
  <2>1. pos + 1 \in 1 .. Len(q) + 1
    BY <1>2, PeekType
  <2>2. child \in Results(q) /\ child.pos \in pos + 1 .. Len(q) + 1
    BY <2>1, NotCall
  <2>3. ParseNot(run, q, pos) = IF child.node = NoNode THEN child ELSE [child EXCEPT !.node = Connections \ @]
    BY <1>2 DEF ParseNot
  <2> HIDE DEF child
  <2>4. child.pos > pos
    BY <2>2
  <2>5. /\ child = Parsed(child.node, child.pos, child.err)
        /\ child.pos \in 1 .. Len(q) + 1
        /\ child.err \in BOOLEAN
    BY <2>2, ResultType
  <2>6. [child EXCEPT !.node = Connections \ @] = Parsed(Connections \ child.node, child.pos, child.err)
    <3>1. PICK n, p, e : child = Parsed(n, p, e) /\ n = child.node /\ p = child.pos /\ e = child.err
      BY <2>5
    <3>2. PICK other : other = Connections \ n
      OBVIOUS
    <3>3. [child EXCEPT !.node = other] = Parsed(other, p, e)
      BY ONLY <3>1 DEF Parsed
    <3> QED BY <3>1, <3>2, <3>3
  <2>7. Connections \ child.node \in {NoNode} \cup SUBSET Connections
    OBVIOUS
  <2>8. Parsed(Connections \ child.node, child.pos, child.err) \in Results(q)
        /\ Parsed(Connections \ child.node, child.pos, child.err).pos = child.pos
    BY <2>5, <2>7, ParsedType
  <2> QED BY <2>2, <2>3, <2>4, <2>6, <2>8
<1> QED BY <1>1, <1>2

(* What was parsed behind l, joined to it or not, ends where that ended.   *)
LEMMA JoinedForward ==
  ASSUME NEW q \in Seq(Tokens), NEW l \in Results(q), NEW r \in Results(q),
         NEW node \in SUBSET Connections
  PROVE  /\ Joined(l, r, node) \in Results(q) /\ Joined(l, r, node).pos = r.pos
         /\ Stopped(l, r) \in Results(q) /\ Stopped(l, r).pos = r.pos
<1>1. (IF l.node = NoNode THEN r.node ELSE node) \in {NoNode} \cup SUBSET Connections
  BY ResultType
<1>2. (l.err \/ r.err) \in BOOLEAN /\ r.pos \in 1 .. Len(q) + 1 /\ l.node \in {NoNode} \cup SUBSET Connections
  BY ResultType
<1>3. Joined(l, r, node) = Parsed(IF l.node = NoNode THEN r.node ELSE node, r.pos, l.err \/ r.err)
  BY DEF Joined
<1>4. Stopped(l, r) = Parsed(l.node, r.pos, l.err \/ r.err)
  BY DEF Stopped
<1>5. Joined(l, r, node) \in Results(q) /\ Joined(l, r, node).pos = r.pos
  BY <1>1, <1>2, <1>3 DEF Parsed, Results
<1>6. Stopped(l, r) \in Results(q) /\ Stopped(l, r).pos = r.pos
  BY <1>2, <1>4 DEF Parsed, Results
<1> QED BY <1>5, <1>6

(* The loops never go back.                                                *)
LEMMA AndRestForward ==
  ASSUME NEW q \in Seq(Tokens), NEW run \in Runs(q), NEW l \in Results(q)
  PROVE  AndRest(run, q, l) \in Results(q) /\ AndRest(run, q, l).pos >= l.pos
<1>1. l.pos \in 1 .. Len(q) + 1 /\ Len(q) \in Nat
  BY ResultType
<1>2. CASE Peek(q, l.pos) \in {"", ")", "or"}
  <2>1. AndRest(run, q, l) = l
    BY <1>2 DEF AndRest
  <2> QED BY <1>1, <2>1
<1>3. CASE Peek(q, l.pos) \notin {"", ")", "or"}
  <2>1. PICK from \in 1 .. Len(q) + 1 :
               from = (IF Peek(q, l.pos) = "and" THEN l.pos + 1 ELSE l.pos) /\ from >= l.pos
    <3>1. l.pos + 1 \in 1 .. Len(q) + 1
      BY <1>1, <1>3, PeekType
    <3> QED BY <1>1, <3>1
  <2>2. PICK r : r = run[<<"not", NothingAt(from)>>]
    OBVIOUS
  <2>3. r \in Results(q) /\ r.pos \in from .. Len(q) + 1
    BY <2>2, NotCall
  <2>4. r.pos \in l.pos .. Len(q) + 1
    BY <1>1, <2>1, <2>3
  <2>5. CASE r.node = NoNode
    <3>1. AndRest(run, q, l) = Stopped(l, r)
      BY <1>3, <2>1, <2>2, <2>5 DEF AndRest
    <3>2. {} \in SUBSET Connections
      OBVIOUS
    <3>3. Stopped(l, r) \in Results(q) /\ Stopped(l, r).pos = r.pos
      BY <2>3, <3>2, JoinedForward
    <3> QED BY <2>4, <3>1, <3>3
  <2>6. CASE r.node # NoNode
    <3>1. AndRest(run, q, l) = run[<<"andRest", Joined(l, r, l.node \cap r.node)>>]
      BY <1>3, <2>1, <2>2, <2>6 DEF AndRest
    <3>2. r.node \in SUBSET Connections
      BY <2>3, <2>6, ResultType
    <3>3. PICK j : j = Joined(l, r, l.node \cap r.node)
      OBVIOUS
    <3>4. j \in Results(q) /\ j.pos = r.pos
      <4>1. PICK node : node = l.node \cap r.node
        OBVIOUS
      <4>2. node \in SUBSET Connections
        BY <3>2, <4>1
      <4> QED BY <2>3, <3>3, <4>1, <4>2, JoinedForward
    <3>5. run[<<"andRest", j>>] \in Results(q) /\ run[<<"andRest", j>>].pos \in j.pos .. Len(q) + 1
      BY <3>4, LoopCall
    <3> QED BY <1>1, <2>4, <3>1, <3>3, <3>4, <3>5
  <2> QED BY <2>5, <2>6
<1> QED BY <1>2, <1>3

LEMMA OrRestForward ==
  ASSUME NEW q \in Seq(Tokens), NEW run \in Runs(q), NEW l \in Results(q)
  PROVE  OrRest(run, q, l) \in Results(q) /\ OrRest(run, q, l).pos >= l.pos
<1>1. l.pos \in 1 .. Len(q) + 1 /\ Len(q) \in Nat
  BY ResultType
<1>2. CASE Peek(q, l.pos) # "or"
  <2>1. OrRest(run, q, l) = l
    BY <1>2 DEF OrRest
  <2> QED BY <1>1, <2>1
<1>3. CASE Peek(q, l.pos) = "or"
  <2>1. l.pos + 1 \in 1 .. Len(q) + 1
    BY <1>1, <1>3, PeekType
  <2>2. PICK r : r = ParseAnd(run, l.pos + 1)
    OBVIOUS
  <2>3. r \in Results(q) /\ r.pos \in l.pos + 1 .. Len(q) + 1
    BY <2>1, <2>2, BothCalls
  <2>4. r.pos \in l.pos .. Len(q) + 1
    BY <1>1, <2>3
  <2>5. CASE r.node = NoNode
    <3>1. OrRest(run, q, l) = Stopped(l, r)
      BY <1>3, <2>2, <2>5 DEF OrRest
    <3>2. {} \in SUBSET Connections
      OBVIOUS
    <3>3. Stopped(l, r) \in Results(q) /\ Stopped(l, r).pos = r.pos
      BY <2>3, <3>2, JoinedForward
    <3> QED BY <2>4, <3>1, <3>3
  <2>6. CASE r.node # NoNode
    <3>1. OrRest(run, q, l) = run[<<"orRest", Joined(l, r, l.node \cup r.node)>>]
      BY <1>3, <2>2, <2>6 DEF OrRest
    <3>2. r.node \in SUBSET Connections /\ l.node \in {NoNode} \cup SUBSET Connections
      BY <2>3, <2>6, ResultType
    <3>3. PICK j : j = Joined(l, r, l.node \cup r.node)
      OBVIOUS
    <3>4. j \in Results(q) /\ j.pos = r.pos
      <4>1. PICK node \in SUBSET Connections : l.node # NoNode => node = l.node \cup r.node
        BY <3>2
      <4>2. j = Joined(l, r, node)
        BY <3>3, <4>1 DEF Joined
      <4> QED BY <2>3, <4>1, <4>2, JoinedForward
    <3>5. run[<<"orRest", j>>] \in Results(q) /\ run[<<"orRest", j>>].pos \in j.pos .. Len(q) + 1
      BY <3>4, LoopCall
    <3> QED BY <1>1, <2>4, <3>1, <3>3, <3>4, <3>5
  <2> QED BY <2>5, <2>6
<1> QED BY <1>2, <1>3

(* So each answer goes on from where its call starts,                      *)
LEMMA AnswerForward ==
  ASSUME NEW q \in Seq(Tokens), NEW run \in Runs(q), NEW c \in Calls(q)
  PROVE  Answer(run, q, c) \in Forward(q, c)
<1>1. c[1] \in {"not", "andRest", "orRest"} /\ c[2] \in Results(q)
  BY DEF Calls
<1>2. CASE c[1] = "not"
  <2>1. c[2].pos \in 1 .. Len(q) + 1
    BY <1>1, ResultType
  <2>2. Answer(run, q, c) = ParseNot(run, q, c[2].pos)
    BY <1>2 DEF Answer
  <2> QED BY <2>1, <2>2, NotForward DEF Forward
<1>3. CASE c[1] = "andRest"
  <2>1. Answer(run, q, c) = AndRest(run, q, c[2])
    BY <1>3 DEF Answer
  <2> QED BY <1>1, <1>3, <2>1, AndRestForward DEF Forward
<1>4. CASE c[1] = "orRest"
  <2>1. Answer(run, q, c) = OrRest(run, q, c[2])
    BY <1>4 DEF Answer
  <2> QED BY <1>1, <1>4, <2>1, OrRestForward DEF Forward
<1> QED BY <1>1, <1>2, <1>3, <1>4

(* The measure of a loop, and of parseNot, further on.                     *)
LEMMA Nearer ==
  ASSUME NEW n \in Int, NEW a \in Int, NEW b \in Int
  PROVE  /\ a <= b => 2 * (n + 1 - b) < 2 * (n + 1 - a) + 1
         /\ a < b => 2 * (n + 1 - b) + 1 < 2 * (n + 1 - a)
  OBVIOUS

(* Two parsers that agree on the calls nearer to the end than m.           *)
Agree(f, g, q, m) == \A d \in Calls(q) : Ahead(q)[d] < m => f[d] = g[d]

(* They agree on calls of parseNot and on what parseAnd and parseOr find.  *)
LEMMA AgreeOnCalls ==
  ASSUME NEW q \in Seq(Tokens), NEW f \in Runs(q), NEW g, NEW m \in Int, Agree(f, g, q, m),
         NEW pos \in 1 .. Len(q) + 1
  PROVE  /\ 2 * (Len(q) + 1 - pos) < m => f[<<"not", NothingAt(pos)>>] = g[<<"not", NothingAt(pos)>>]
         /\ 2 * (Len(q) + 1 - pos) + 1 < m =>
              ParseAnd(f, pos) = ParseAnd(g, pos) /\ ParseOr(f, pos) = ParseOr(g, pos)
<1>1. ASSUME 2 * (Len(q) + 1 - pos) < m
      PROVE  f[<<"not", NothingAt(pos)>>] = g[<<"not", NothingAt(pos)>>]
  BY <1>1, NotCall DEF Agree
<1>2. ASSUME NEW name \in {"andRest", "orRest"}, NEW l \in Results(q), 2 * (Len(q) + 1 - l.pos) + 1 < m
      PROVE  f[<<name, l>>] = g[<<name, l>>]
  BY <1>2, LoopCall DEF Agree
<1>3. ASSUME 2 * (Len(q) + 1 - pos) + 1 < m
      PROVE  ParseAnd(f, pos) = ParseAnd(g, pos) /\ ParseOr(f, pos) = ParseOr(g, pos)
  <2>1. Len(q) \in Nat /\ pos \in Int
    OBVIOUS
  <2>2. 2 * (Len(q) + 1 - pos) < m
    BY <1>3, <2>1
  <2>3. PICK n : n = f[<<"not", NothingAt(pos)>>] /\ n = g[<<"not", NothingAt(pos)>>]
    BY <1>1, <2>2
  <2>4. n \in Results(q) /\ n.pos \in pos .. Len(q) + 1
    BY <2>3, NotCall
  <2>5. 2 * (Len(q) + 1 - n.pos) + 1 < m
    BY <1>3, <2>1, <2>4
  <2>6. PICK a : a = f[<<"andRest", n>>] /\ a = g[<<"andRest", n>>]
    BY <1>2, <2>4, <2>5
  <2>7. a = ParseAnd(f, pos) /\ a = ParseAnd(g, pos)
    BY <2>3, <2>6 DEF ParseAnd
  <2>8. a \in Results(q) /\ a.pos \in pos .. Len(q) + 1
    BY <2>7, BothCalls
  <2>9. 2 * (Len(q) + 1 - a.pos) + 1 < m
    BY <1>3, <2>1, <2>8
  <2>10. f[<<"orRest", a>>] = g[<<"orRest", a>>]
    BY <1>2, <2>8, <2>9
  <2> QED BY <2>7, <2>10 DEF ParseOr
<1> QED BY <1>1, <1>3

(* Each method looks only at calls nearer to the end than its own; g need  *)
(* not be a parser that never goes back.                                   *)
LEMMA NotLocal ==
  ASSUME NEW q \in Seq(Tokens), NEW f \in Runs(q), NEW g, NEW pos \in 1 .. Len(q) + 1,
         Agree(f, g, q, 2 * (Len(q) + 1 - pos))
  PROVE  ParseNot(f, q, pos) = ParseNot(g, q, pos)
<1>1. PICK m \in Int : m = 2 * (Len(q) + 1 - pos)
  OBVIOUS
<1>2. Agree(f, g, q, m)
  BY <1>1
<1>3. CASE pos <= Len(q)
  <2>1. pos + 1 \in 1 .. Len(q) + 1
    BY <1>3, PeekType
  <2>2. 2 * (Len(q) + 1 - (pos + 1)) + 1 < m /\ 2 * (Len(q) + 1 - (pos + 1)) < m
    <3>1. Len(q) \in Nat /\ pos \in Int
      OBVIOUS
    <3> QED BY <1>1, <3>1
  <2>3. /\ f[<<"not", NothingAt(pos + 1)>>] = g[<<"not", NothingAt(pos + 1)>>]
        /\ ParseOr(f, pos + 1) = ParseOr(g, pos + 1)
    BY <1>2, <2>1, <2>2, AgreeOnCalls
  <2>4. ParsePrimary(f, q, pos) = ParsePrimary(g, q, pos)
    BY <2>3 DEF ParsePrimary
  <2> QED BY <2>3, <2>4 DEF ParseNot
<1>4. CASE ~(pos <= Len(q))
  <2>1. Peek(q, pos) = ""
    BY <1>4 DEF Peek
  <2> QED BY <2>1 DEF ParseNot, ParsePrimary
<1> QED BY <1>3, <1>4

LEMMA AndRestLocal ==
  ASSUME NEW q \in Seq(Tokens), NEW f \in Runs(q), NEW g, NEW l \in Results(q),
         Agree(f, g, q, 2 * (Len(q) + 1 - l.pos) + 1)
  PROVE  AndRest(f, q, l) = AndRest(g, q, l)
<1>1. l.pos \in 1 .. Len(q) + 1 /\ Len(q) \in Nat
  BY ResultType
<1>2. PICK m \in Int : m = 2 * (Len(q) + 1 - l.pos) + 1
  BY <1>1
<1>3. Agree(f, g, q, m)
  BY <1>2
<1>4. CASE Peek(q, l.pos) \in {"", ")", "or"}
  BY <1>4 DEF AndRest
<1>5. CASE Peek(q, l.pos) \notin {"", ")", "or"}
  <2>1. PICK from \in 1 .. Len(q) + 1 :
               from = (IF Peek(q, l.pos) = "and" THEN l.pos + 1 ELSE l.pos) /\ from >= l.pos
    <3>1. l.pos + 1 \in 1 .. Len(q) + 1
      BY <1>1, <1>5, PeekType
    <3> QED BY <1>1, <3>1
  <2>2. 2 * (Len(q) + 1 - from) < m
    <3>1. from \in Int /\ l.pos \in Int /\ Len(q) \in Int
      BY <1>1, <2>1
    <3>2. 2 * (Len(q) + 1 - from) < 2 * (Len(q) + 1 - l.pos) + 1
      BY <2>1, <3>1, Nearer
    <3> QED BY <1>2, <3>2
  <2>3. PICK r : r = f[<<"not", NothingAt(from)>>] /\ r = g[<<"not", NothingAt(from)>>]
    BY <1>3, <2>2, AgreeOnCalls
  <2>4. r \in Results(q) /\ r.pos \in from .. Len(q) + 1 /\ (r.node # NoNode => r.pos > from)
    <3>1. r = f[<<"not", NothingAt(from)>>]
      BY <2>3
    <3> QED BY <3>1, NotCall
  <2>5. CASE r.node = NoNode
    BY <1>5, <2>1, <2>3, <2>5 DEF AndRest
  <2>6. CASE r.node # NoNode
    <3>1. PICK node : node = l.node \cap r.node
      OBVIOUS
    <3>2. node \in SUBSET Connections
      <4>1. r.node \in SUBSET Connections
        BY <2>4, <2>6, ResultType
      <4> QED BY <3>1, <4>1
    <3>3. PICK j : j = Joined(l, r, node)
      OBVIOUS
    <3>4. j \in Results(q) /\ j.pos = r.pos
      BY <2>4, <3>2, <3>3, JoinedForward
    <3>5. <<"andRest", j>> \in Calls(q) /\ Ahead(q)[<<"andRest", j>>] = 2 * (Len(q) + 1 - j.pos) + 1
      BY <3>4, LoopCall
    <3>6. 2 * (Len(q) + 1 - j.pos) + 1 < m
      <4>1. PICK p \in Int : p = j.pos /\ p > l.pos
        BY <1>1, <2>1, <2>4, <2>6, <3>4
      <4>2. 2 * (Len(q) + 1 - p) + 1 < 2 * (Len(q) + 1 - l.pos)
        BY <1>1, <4>1, Nearer
      <4>3. PICK x \in Int : x = 2 * (Len(q) + 1 - l.pos)
        BY <1>1
      <4>4. 2 * (Len(q) + 1 - p) + 1 \in Int
        BY <1>1, <4>1
      <4>5. 2 * (Len(q) + 1 - p) + 1 < m
        BY <1>2, <4>2, <4>3, <4>4
      <4> QED BY <4>1, <4>5
    <3>7. f[<<"andRest", j>>] = g[<<"andRest", j>>]
      BY <1>3, <3>5, <3>6 DEF Agree
    <3>8. AndRest(f, q, l) = f[<<"andRest", j>>] /\ AndRest(g, q, l) = g[<<"andRest", j>>]
      <4>1. ASSUME NEW run, r = run[<<"not", NothingAt(from)>>]
            PROVE  AndRest(run, q, l) = run[<<"andRest", j>>]
        <5>1. AndRest(run, q, l) = run[<<"andRest", Joined(l, r, l.node \cap r.node)>>]
          BY <1>5, <2>1, <2>6, <4>1 DEF AndRest
        <5> QED BY <3>1, <3>3, <5>1
      <4> QED BY <2>3, <4>1
    <3> QED BY <3>7, <3>8
  <2> QED BY <2>5, <2>6
<1> QED BY <1>4, <1>5

LEMMA OrRestLocal ==
  ASSUME NEW q \in Seq(Tokens), NEW f \in Runs(q), NEW g, NEW l \in Results(q),
         Agree(f, g, q, 2 * (Len(q) + 1 - l.pos) + 1)
  PROVE  OrRest(f, q, l) = OrRest(g, q, l)
<1>1. l.pos \in 1 .. Len(q) + 1 /\ Len(q) \in Nat
  BY ResultType
<1>2. PICK m \in Int : m = 2 * (Len(q) + 1 - l.pos) + 1
  BY <1>1
<1>3. Agree(f, g, q, m)
  BY <1>2
<1>4. CASE Peek(q, l.pos) # "or"
  BY <1>4 DEF OrRest
<1>5. CASE Peek(q, l.pos) = "or"
  <2>1. l.pos + 1 \in 1 .. Len(q) + 1
    BY <1>1, <1>5, PeekType
  <2>2. 2 * (Len(q) + 1 - (l.pos + 1)) + 1 < m
    BY <1>1, <1>2
  <2>3. PICK r : r = ParseAnd(f, l.pos + 1) /\ r = ParseAnd(g, l.pos + 1)
    BY <1>3, <2>1, <2>2, AgreeOnCalls
  <2>4. r \in Results(q) /\ r.pos \in l.pos + 1 .. Len(q) + 1
    BY <2>1, <2>3, BothCalls
  <2>5. CASE r.node = NoNode
    BY <1>5, <2>3, <2>5 DEF OrRest
  <2>6. CASE r.node # NoNode
    <3>1. PICK node \in SUBSET Connections : l.node # NoNode => node = l.node \cup r.node
      <4>1. r.node \in SUBSET Connections /\ l.node \in {NoNode} \cup SUBSET Connections
        BY <2>4, <2>6, ResultType
      <4> QED BY <4>1
    <3>2. PICK j : j = Joined(l, r, node)
      OBVIOUS
    <3>3. j = Joined(l, r, l.node \cup r.node)
      BY <3>1, <3>2 DEF Joined
    <3>4. j \in Results(q) /\ j.pos = r.pos
      BY <2>4, <3>1, <3>2, JoinedForward
    <3>5. <<"orRest", j>> \in Calls(q) /\ Ahead(q)[<<"orRest", j>>] = 2 * (Len(q) + 1 - j.pos) + 1
      BY <3>4, LoopCall
    <3>6. 2 * (Len(q) + 1 - j.pos) + 1 < m
      <4>1. PICK p \in Int : p = j.pos /\ p > l.pos
        BY <1>1, <2>4, <3>4
      <4>2. 2 * (Len(q) + 1 - p) + 1 < 2 * (Len(q) + 1 - l.pos)
        BY <1>1, <4>1, Nearer
      <4>3. PICK x \in Int : x = 2 * (Len(q) + 1 - l.pos)
        BY <1>1
      <4>4. 2 * (Len(q) + 1 - p) + 1 \in Int
        BY <1>1, <4>1
      <4>5. 2 * (Len(q) + 1 - p) + 1 < m
        BY <1>2, <4>2, <4>3, <4>4
      <4> QED BY <4>1, <4>5
    <3>7. f[<<"orRest", j>>] = g[<<"orRest", j>>]
      BY <1>3, <3>5, <3>6 DEF Agree
    <3>8. OrRest(f, q, l) = f[<<"orRest", j>>] /\ OrRest(g, q, l) = g[<<"orRest", j>>]
      BY <1>5, <2>3, <2>6, <3>3 DEF OrRest
    <3> QED BY <3>7, <3>8
  <2> QED BY <2>5, <2>6
<1> QED BY <1>4, <1>5

(* and depends only on the answers to calls nearer to the end.             *)
LEMMA AnswerLocal ==
  ASSUME NEW q \in Seq(Tokens), NEW f \in Runs(q), NEW g, NEW c \in Calls(q),
         Agree(f, g, q, Ahead(q)[c])
  PROVE  Answer(f, q, c) = Answer(g, q, c)
<1>1. c[1] \in {"not", "andRest", "orRest"} /\ c[2] \in Results(q)
  BY DEF Calls
<1>2. c[2].pos \in 1 .. Len(q) + 1 /\ Len(q) \in Nat
  BY <1>1, ResultType
<1>3. CASE c[1] = "not"
  <2>1. Ahead(q)[c] = 2 * (Len(q) + 1 - c[2].pos)
    BY <1>2, <1>3 DEF Ahead
  <2> QED BY <1>2, <1>3, <2>1, NotLocal DEF Answer
<1>4. CASE c[1] \in {"andRest", "orRest"}
  <2>1. Ahead(q)[c] = 2 * (Len(q) + 1 - c[2].pos) + 1
    BY <1>2, <1>4 DEF Ahead
  <2>2. Agree(f, g, q, 2 * (Len(q) + 1 - c[2].pos) + 1)
    BY <2>1
  <2>3. AndRest(f, q, c[2]) = AndRest(g, q, c[2]) /\ OrRest(f, q, c[2]) = OrRest(g, q, c[2])
    BY <1>1, <2>2, AndRestLocal, OrRestLocal
  <2> QED BY <1>4, <2>3 DEF Answer
<1> QED BY <1>1, <1>3, <1>4

(* The parser is well defined: it answers each call as the method that is  *)
(* called, and never goes back.                                            *)
LEMMA ParserRecursive ==
  ASSUME NEW q \in Seq(Tokens)
  PROVE  /\ Parser(q) \in Runs(q)
         /\ \A c \in Calls(q) : Parser(q)[c] = Answer(Parser(q), q, c)
<1>1. Len(q) \in Nat
  OBVIOUS
<1>2. Ahead(q) \in [Calls(q) -> Nat]
  <2>1. ASSUME NEW c \in Calls(q)
        PROVE  2 * (Len(q) + 1 - c[2].pos) + (IF c[1] = "not" THEN 0 ELSE 1) \in Nat
    <3>1. c[2] \in Results(q)
      BY DEF Calls
    <3>2. PICK p \in 1 .. Len(q) + 1 : p = c[2].pos
      BY <3>1, ResultType
    <3>3. 2 * (Len(q) + 1 - p) \in Nat
      BY <1>1, <3>2
    <3> QED BY <3>2, <3>3
  <2> QED BY <2>1 DEF Ahead
<1>3. PICK F : F = [f \in Runs(q) |-> [c \in Calls(q) |-> Answer(f, q, c)]]
  OBVIOUS
<1>4. \A f \in Runs(q) : \A c \in Calls(q) : F[f][c] = Answer(f, q, c)
  BY <1>3
<1>5. F \in [Runs(q) -> Runs(q)]
  <2>1. ASSUME NEW f \in Runs(q)
        PROVE  [c \in Calls(q) |-> Answer(f, q, c)] \in Runs(q)
    <3>1. \A c \in Calls(q) : Answer(f, q, c) \in Forward(q, c) /\ Answer(f, q, c) \in Results(q)
      BY AnswerForward DEF Forward
    <3> QED BY <3>1 DEF Runs
  <2> QED BY <1>3, <2>1
<1>6. Runs(q) # {}
  <2>1. PICK f : f = [c \in Calls(q) |-> NothingAt(c[2].pos)]
    OBVIOUS
  <2>2. ASSUME NEW c \in Calls(q)
        PROVE  NothingAt(c[2].pos) \in Results(q) /\ NothingAt(c[2].pos) \in Forward(q, c)
    <3>1. c[2] \in Results(q)
      BY DEF Calls
    <3>2. PICK p \in 1 .. Len(q) + 1 : p = c[2].pos
      BY <3>1, ResultType
    <3>3. NothingAt(p) \in Results(q) /\ NothingAt(p).node = NoNode /\ NothingAt(p).pos = p
      BY NothingType
    <3> QED BY <3>2, <3>3 DEF Forward
  <2>3. f \in Runs(q)
    BY <2>1, <2>2 DEF Runs
  <2> QED BY <2>3
<1>7. ASSUME NEW f \in Runs(q), NEW g \in Runs(q), NEW c \in Calls(q),
             \A d \in Calls(q) : Ahead(q)[d] < Ahead(q)[c] => f[d] = g[d]
      PROVE  F[f][c] = F[g][c]
  <2>1. Agree(f, g, q, Ahead(q)[c])
    BY <1>7 DEF Agree
  <2> QED BY <1>4, <2>1, AnswerLocal
<1>8. PICK ok : ok = [c \in Calls(q) |-> Forward(q, c)]
  OBVIOUS
<1>9. Runs(q) = Suited(Calls(q), Results(q), ok)
  BY <1>8 DEF Runs, Suited
<1>10. Contracts(F, Calls(q), Ahead(q), Runs(q))
  BY <1>7 DEF Contracts
<1>11. PICK f \in Runs(q) : F[f] = f
  BY <1>2, <1>5, <1>6, <1>9, <1>10, RecursionExists
<1>12. f = [c \in Calls(q) |-> Answer(f, q, c)]
  BY <1>3, <1>11
<1>13. Parser(q) = CHOOSE run : run = [c \in Calls(q) |-> Answer(run, q, c)]
  BY DEF Parser
<1>14. PICK run : run = Parser(q) /\ run = [c \in Calls(q) |-> Answer(run, q, c)]
  BY <1>12, <1>13
<1>15. run = f
  <2> DEFINE Apart == {n \in Nat : \E c \in Calls(q) : n = Ahead(q)[c] /\ f[c] # run[c]}
  <2>1. ASSUME Apart # {}
        PROVE  FALSE
    <3>1. PICK n \in Apart : \A k \in Apart : n <= k
      BY <2>1, Least
    <3>2. PICK c \in Calls(q) : n = Ahead(q)[c] /\ f[c] # run[c]
      BY <3>1
    <3>3. Agree(f, run, q, n)
      <4>1. ASSUME NEW d \in Calls(q), Ahead(q)[d] < n
            PROVE  f[d] = run[d]
        <5>1. PICK k \in Nat : k = Ahead(q)[d]
          BY <1>2
        <5>2. k \notin Apart
          BY <3>1, <4>1, <5>1
        <5> QED BY <5>1, <5>2
      <4> QED BY <4>1 DEF Agree
    <3>4. Answer(f, q, c) = Answer(run, q, c)
      BY <3>2, <3>3, AnswerLocal
    <3> QED BY <1>12, <1>14, <3>2, <3>4
  <2>2. \A c \in Calls(q) : Ahead(q)[c] \in Nat /\ Ahead(q)[c] \notin Apart
    BY <1>2, <2>1
  <2>3. \A c \in Calls(q) : f[c] = run[c]
    BY <2>2
  <2> QED BY <1>12, <1>14, <2>3
<1> QED BY <1>14, <1>15

-----------------------------------------------------------------------------
(* The grammar. What a conjunction and a disjunction can mean:             *)
LEMMA MeetMember ==
  ASSUME NEW ms, NEW ns, NEW x
  PROVE  x \in Meets(ms, ns) <=> \E m \in ms : \E n \in ns : x = m \cap n
  BY DEF Meets

LEMMA JoinMember ==
  ASSUME NEW ms, NEW ns, NEW x
  PROVE  x \in Joins(ms, ns) <=> \E m \in ms : \E n \in ns : x = m \cup n
  BY DEF Joins

LEMMA AndMember ==
  ASSUME NEW means, NEW q, NEW i, NEW j, NEW x
  PROVE  x \in AndMeans(means, q, i, j) <=>
           \/ x \in means[<<"not", i, j>>]
           \/ \E k \in i + 1 .. j :
                x \in Meets(means[<<"and", i, k - 1>>], means[<<"not", Operand(q, k), j>>])
  BY DEF AndMeans

LEMMA OrMember ==
  ASSUME NEW means, NEW q, NEW i, NEW j, NEW x
  PROVE  x \in OrMeans(means, q, i, j) <=>
           \/ x \in means[<<"and", i, j>>]
           \/ \E k \in i + 1 .. j - 1 :
                q[k] = "or" /\ x \in Joins(means[<<"or", i, k - 1>>], means[<<"and", k + 1, j>>])
  BY DEF OrMeans

(* How wide a span is, and how many categories it has yet to go through:   *)
(* the measure of a meaning.                                               *)
Rank(cat) == CASE cat = "not" -> 0 [] cat = "and" -> 1 [] cat = "or" -> 2

Width(q) == [span \in Spans(q) |-> 3 * (span[3] - span[2] + 1 + Len(q)) + Rank(span[1])]

(* The measure is a natural number.                                        *)
LEMMA SpanType ==
  ASSUME NEW q \in Seq(Tokens), NEW cat \in {"or", "and", "not"},
         NEW i \in 1 .. Len(q) + 1, NEW j \in 0 .. Len(q)
  PROVE  /\ <<cat, i, j>> \in Spans(q)
         /\ Width(q)[<<cat, i, j>>] = 3 * (j - i + 1 + Len(q)) + Rank(cat)
         /\ Width(q)[<<cat, i, j>>] \in Nat
<1>1. Len(q) \in Nat
  OBVIOUS
<1>2. <<cat, i, j>> \in Spans(q)
  BY DEF Spans
<1>3. Width(q)[<<cat, i, j>>] = 3 * (j - i + 1 + Len(q)) + Rank(cat)
  BY <1>2 DEF Width
<1>4. Rank(cat) \in Nat
  BY DEF Rank
<1>5. 3 * (j - i + 1 + Len(q)) \in Nat
  BY <1>1
<1> QED BY <1>2, <1>3, <1>4, <1>5

(* f and g give the spans narrower than w the same meanings. *)
AgreeBelow(f, g, q, w) == \A s \in Spans(q) : Width(q)[s] < w => f[s] = g[s]

(* The meanings of a span follow from those of narrower ones. *)
LEMMA MeantLocal ==
  ASSUME NEW q \in Seq(Tokens), NEW f, NEW g, NEW span \in Spans(q), AgreeBelow(f, g, q, Width(q)[span])
  PROVE  Meant(f, q, span) = Meant(g, q, span)
<1> PICK cat \in {"or", "and", "not"}, i \in 1 .. Len(q) + 1, j \in 0 .. Len(q) : span = <<cat, i, j>>
  BY DEF Spans
<1>1. Len(q) \in Nat /\ i \in Int /\ j \in Int
  OBVIOUS
<1>2. Rank("not") = 0 /\ Rank("and") = 1 /\ Rank("or") = 2
  BY DEF Rank
<1>3. ASSUME NEW c \in {"or", "and", "not"}, NEW a \in 1 .. Len(q) + 1, NEW b \in 0 .. Len(q),
             3 * (b - a) + Rank(c) < 3 * (j - i) + Rank(cat)
      PROVE  f[<<c, a, b>>] = g[<<c, a, b>>]
  <2>1. <<c, a, b>> \in Spans(q) /\ Width(q)[<<c, a, b>>] = 3 * (b - a + 1 + Len(q)) + Rank(c)
    BY SpanType
  <2>2. Width(q)[<<cat, i, j>>] = 3 * (j - i + 1 + Len(q)) + Rank(cat)
    BY SpanType
  <2>3. Rank(c) \in Int /\ Rank(cat) \in Int
    BY DEF Rank
  <2>4. Width(q)[<<c, a, b>>] < Width(q)[<<cat, i, j>>]
    BY <1>1, <1>3, <2>1, <2>2, <2>3
  <2>5. AgreeBelow(f, g, q, Width(q)[<<cat, i, j>>])
    OBVIOUS
  <2> QED BY <2>1, <2>4, <2>5 DEF AgreeBelow
<1>4. CASE cat = "not"
  <2>1. i < j => f[<<"not", i + 1, j>>] = g[<<"not", i + 1, j>>]
    <3>1. i < j => i + 1 \in 1 .. Len(q) + 1
      BY <1>1
    <3>2. 3 * (j - (i + 1)) + 0 < 3 * (j - i) + 0
      BY <1>1
    <3> QED BY <1>2, <1>3, <1>4, <3>1, <3>2
  <2>2. i < j => f[<<"or", i + 1, j - 1>>] = g[<<"or", i + 1, j - 1>>]
    <3>1. i < j => i + 1 \in 1 .. Len(q) + 1 /\ j - 1 \in 0 .. Len(q)
      BY <1>1
    <3>2. 3 * (j - 1 - (i + 1)) + 2 < 3 * (j - i) + 0
      BY <1>1
    <3> QED BY <1>2, <1>3, <1>4, <3>1, <3>2
  <2>3. PrimaryMeans(f, q, i, j) = PrimaryMeans(g, q, i, j)
    <3>1. CASE i < j
      BY <2>2, <3>1 DEF PrimaryMeans
    <3>2. CASE i = j
      <4>1. q[i] = "(" /\ q[j] = ")" => FALSE
        BY <3>2
      <4> QED BY <3>2, <4>1 DEF PrimaryMeans
    <3>3. CASE i > j
      BY <3>3 DEF PrimaryMeans
    <3> QED BY <1>1, <3>1, <3>2, <3>3
  <2>4. NotMeans(f, q, i, j) = NotMeans(g, q, i, j)
    BY <2>1, <2>3 DEF NotMeans
  <2> QED BY <1>4, <2>4 DEF Meant
<1>5. CASE cat = "and"
  <2>1. f[<<"not", i, j>>] = g[<<"not", i, j>>]
    BY <1>1, <1>2, <1>3, <1>5
  <2>2. ASSUME NEW k \in i + 1 .. j
        PROVE  /\ f[<<"and", i, k - 1>>] = g[<<"and", i, k - 1>>]
               /\ f[<<"not", Operand(q, k), j>>] =
                    g[<<"not", Operand(q, k), j>>]
    <3>1. k \in Int /\ k - 1 \in 0 .. Len(q) /\ k \in 1 .. Len(q) + 1 /\ k + 1 \in 1 .. Len(q) + 1
      BY <1>1
    <3>2. 3 * (k - 1 - i) + 1 < 3 * (j - i) + 1 /\ 3 * (j - k) + 0 < 3 * (j - i) + 1
          /\ 3 * (j - (k + 1)) + 0 < 3 * (j - i) + 1
      BY <1>1
    <3>3. f[<<"and", i, k - 1>>] = g[<<"and", i, k - 1>>]
      BY <1>2, <1>3, <1>5, <3>1, <3>2
    <3>4. f[<<"not", k, j>>] = g[<<"not", k, j>>]
      BY <1>2, <1>3, <1>5, <3>1, <3>2
    <3>5. f[<<"not", k + 1, j>>] = g[<<"not", k + 1, j>>]
      BY <1>2, <1>3, <1>5, <3>1, <3>2
    <3> QED BY <3>3, <3>4, <3>5 DEF Operand
  <2>3. AndMeans(f, q, i, j) = AndMeans(g, q, i, j)
    <3>1. \A k \in i + 1 .. j :
            Meets(f[<<"and", i, k - 1>>], f[<<"not", Operand(q, k), j>>])
            = Meets(g[<<"and", i, k - 1>>], g[<<"not", Operand(q, k), j>>])
      BY <2>2
    <3> QED BY <2>1, <3>1 DEF AndMeans
  <2> QED BY <1>5, <2>3 DEF Meant
<1>6. CASE cat = "or"
  <2>1. f[<<"and", i, j>>] = g[<<"and", i, j>>]
    BY <1>1, <1>2, <1>3, <1>6
  <2>2. ASSUME NEW k \in i + 1 .. j - 1
        PROVE  /\ f[<<"or", i, k - 1>>] = g[<<"or", i, k - 1>>]
               /\ f[<<"and", k + 1, j>>] = g[<<"and", k + 1, j>>]
    <3>1. k \in Int /\ k - 1 \in 0 .. Len(q) /\ k + 1 \in 1 .. Len(q) + 1
      BY <1>1
    <3>2. 3 * (k - 1 - i) + 2 < 3 * (j - i) + 2 /\ 3 * (j - (k + 1)) + 1 < 3 * (j - i) + 2
      BY <1>1
    <3>3. f[<<"or", i, k - 1>>] = g[<<"or", i, k - 1>>]
      BY <1>2, <1>3, <1>6, <3>1, <3>2
    <3>4. f[<<"and", k + 1, j>>] = g[<<"and", k + 1, j>>]
      BY <1>2, <1>3, <1>6, <3>1, <3>2
    <3> QED BY <3>3, <3>4
  <2>3. OrMeans(f, q, i, j) = OrMeans(g, q, i, j)
    <3>1. \A k \in i + 1 .. j - 1 :
            Joins(f[<<"or", i, k - 1>>], f[<<"and", k + 1, j>>])
            = Joins(g[<<"or", i, k - 1>>], g[<<"and", k + 1, j>>])
      BY <2>2
    <3> QED BY <2>1, <3>1 DEF OrMeans
  <2> QED BY <1>6, <2>3 DEF Meant
<1> QED BY <1>4, <1>5, <1>6

(* They are sets of connections if those are. *)
Meanings(q) == [Spans(q) -> SUBSET SUBSET Connections]

LEMMA MeantType ==
  ASSUME NEW q \in Seq(Tokens), NEW f \in Meanings(q), NEW cat \in {"or", "and", "not"},
         NEW i \in 1 .. Len(q) + 1, NEW j \in 0 .. Len(q)
  PROVE  Meant(f, q, <<cat, i, j>>) \subseteq SUBSET Connections
<1>1. Len(q) \in Nat /\ i \in Int /\ j \in Int
  OBVIOUS
<1>2. ASSUME NEW c \in {"or", "and", "not"}, NEW a \in 1 .. Len(q) + 1, NEW b \in 0 .. Len(q)
      PROVE  f[<<c, a, b>>] \subseteq SUBSET Connections
  BY SpanType DEF Meanings
<1>3. CASE cat = "not"
  <2>1. i < j => f[<<"or", i + 1, j - 1>>] \subseteq SUBSET Connections
    <3>1. i < j => i + 1 \in 1 .. Len(q) + 1 /\ j - 1 \in 0 .. Len(q)
      BY <1>1
    <3> QED BY <1>2, <3>1
  <2>2. PrimaryMeans(f, q, i, j) \subseteq SUBSET Connections
    <3>1. CASE i < j
      BY <2>1, <3>1 DEF PrimaryMeans
    <3>2. CASE i = j
      <4>1. q[i] = "(" /\ q[j] = ")" => FALSE
        BY <3>2
      <4>2. {c \in Connections : q[i] \in c} \in SUBSET Connections
        OBVIOUS
      <4> QED BY <3>2, <4>1, <4>2 DEF PrimaryMeans
    <3>3. CASE i > j
      BY <3>3 DEF PrimaryMeans
    <3> QED BY <1>1, <3>1, <3>2, <3>3
  <2>3. {Connections \ m : m \in f[<<"not", i + 1, j>>]} \subseteq SUBSET Connections
    OBVIOUS
  <2>4. NotMeans(f, q, i, j) \subseteq SUBSET Connections
    BY <2>2, <2>3 DEF NotMeans
  <2> QED BY <1>3, <2>4 DEF Meant
<1>4. CASE cat = "and"
  <2>1. f[<<"not", i, j>>] \subseteq SUBSET Connections
    BY <1>2
  <2>2. ASSUME NEW k \in i + 1 .. j
        PROVE  f[<<"and", i, k - 1>>] \subseteq SUBSET Connections
    <3>1. k - 1 \in 0 .. Len(q)
      BY <1>1
    <3> QED BY <1>2, <3>1
  <2>3. AndMeans(f, q, i, j) \subseteq SUBSET Connections
    <3>1. ASSUME NEW x, x \in AndMeans(f, q, i, j)
          PROVE  x \in SUBSET Connections
      <4>1. CASE x \in f[<<"not", i, j>>]
        BY <2>1, <4>1
      <4>2. CASE x \notin f[<<"not", i, j>>]
        <5>1. PICK k \in i + 1 .. j :
                     x \in Meets(f[<<"and", i, k - 1>>], f[<<"not", Operand(q, k), j>>])
          BY <3>1, <4>2, AndMember
        <5>2. \E m \in f[<<"and", i, k - 1>>] : \E n \in f[<<"not", Operand(q, k), j>>] : x = m \cap n
          BY <5>1, MeetMember
        <5> QED BY <2>2, <5>2
      <4> QED BY <4>1, <4>2
    <3> QED BY <3>1
  <2> QED BY <1>4, <2>3 DEF Meant
<1>5. CASE cat = "or"
  <2>1. f[<<"and", i, j>>] \subseteq SUBSET Connections
    BY <1>2
  <2>2. ASSUME NEW k \in i + 1 .. j - 1
        PROVE  /\ f[<<"or", i, k - 1>>] \subseteq SUBSET Connections
               /\ f[<<"and", k + 1, j>>] \subseteq SUBSET Connections
    <3>1. k - 1 \in 0 .. Len(q) /\ k + 1 \in 1 .. Len(q) + 1
      BY <1>1
    <3> QED BY <1>2, <3>1
  <2>3. OrMeans(f, q, i, j) \subseteq SUBSET Connections
    <3>1. ASSUME NEW x, x \in OrMeans(f, q, i, j)
          PROVE  x \in SUBSET Connections
      <4>1. CASE x \in f[<<"and", i, j>>]
        BY <2>1, <4>1
      <4>2. CASE x \notin f[<<"and", i, j>>]
        <5>1. PICK k \in i + 1 .. j - 1 : x \in Joins(f[<<"or", i, k - 1>>], f[<<"and", k + 1, j>>])
          BY <3>1, <4>2, OrMember
        <5>2. \E m \in f[<<"or", i, k - 1>>] : \E n \in f[<<"and", k + 1, j>>] : x = m \cup n
          BY <5>1, JoinMember
        <5> QED BY <2>2, <5>2
      <4> QED BY <4>1, <4>2
    <3> QED BY <3>1
  <2> QED BY <1>5, <2>3 DEF Meant
<1> QED BY <1>3, <1>4, <1>5

(* The grammar is well defined: a span means what its category says.       *)
LEMMA GrammarRecursive ==
  ASSUME NEW q \in Seq(Tokens), NEW cat \in {"or", "and", "not"},
         NEW i \in 1 .. Len(q) + 1, NEW j \in 0 .. Len(q)
  PROVE  Grammar(q)[<<cat, i, j>>] = Meant(Grammar(q), q, <<cat, i, j>>)
<1>1. \A s \in Spans(q) :
        \E c \in {"or", "and", "not"}, a \in 1 .. Len(q) + 1, b \in 0 .. Len(q) : s = <<c, a, b>>
  BY DEF Spans
<1>2. Width(q) \in [Spans(q) -> Nat]
  <2>1. \A s \in Spans(q) : Width(q)[s] \in Nat
    BY <1>1, SpanType
  <2> QED BY <2>1 DEF Width
<1>3. PICK F : F = [f \in Meanings(q) |-> [s \in Spans(q) |-> Meant(f, q, s)]]
  OBVIOUS
<1>4. \A f \in Meanings(q) : \A s \in Spans(q) : F[f][s] = Meant(f, q, s)
  BY <1>3
<1>5. F \in [Meanings(q) -> Meanings(q)]
  <2>1. ASSUME NEW f \in Meanings(q)
        PROVE  [s \in Spans(q) |-> Meant(f, q, s)] \in Meanings(q)
    <3>1. \A s \in Spans(q) : Meant(f, q, s) \in SUBSET SUBSET Connections
      BY <1>1, MeantType
    <3> QED BY <3>1 DEF Meanings
  <2> QED BY <1>3, <2>1
<1>6. Meanings(q) # {}
  <2>1. [s \in Spans(q) |-> {}] \in Meanings(q)
    BY DEF Meanings
  <2> QED BY <2>1
<1>7. PICK ok : ok = [s \in Spans(q) |-> SUBSET SUBSET Connections]
  OBVIOUS
<1>8. Meanings(q) = Suited(Spans(q), SUBSET SUBSET Connections, ok)
  BY <1>7 DEF Meanings, Suited
<1>9. Contracts(F, Spans(q), Width(q), Meanings(q))
  <2>1. ASSUME NEW f \in Meanings(q), NEW g \in Meanings(q), NEW s \in Spans(q),
               \A t \in Spans(q) : Width(q)[t] < Width(q)[s] => f[t] = g[t]
        PROVE  F[f][s] = F[g][s]
    <3>1. AgreeBelow(f, g, q, Width(q)[s])
      BY <2>1 DEF AgreeBelow
    <3> QED BY <1>4, <3>1, MeantLocal
  <2> QED BY <2>1 DEF Contracts
<1>10. PICK f \in Meanings(q) : F[f] = f
  <2>1. PICK S, V, Fs, mu : S = Spans(q) /\ V = SUBSET SUBSET Connections /\ Fs = Meanings(q) /\ mu = Width(q)
    OBVIOUS
  <2>2. Fs = Suited(S, V, ok) /\ Fs # {} /\ F \in [Fs -> Fs] /\ mu \in [S -> Nat] /\ Contracts(F, S, mu, Fs)
    BY <1>2, <1>5, <1>6, <1>8, <1>9, <2>1
  <2>3. \E f \in Fs : F[f] = f
    BY <2>2, RecursionExists
  <2> QED BY <2>1, <2>3
<1>11. f = [s \in Spans(q) |-> Meant(f, q, s)]
  BY <1>3, <1>10
<1>12. Grammar(q) = CHOOSE means : means = [s \in Spans(q) |-> Meant(means, q, s)]
  BY DEF Grammar
<1>13. Grammar(q) = [s \in Spans(q) |-> Meant(Grammar(q), q, s)]
  BY <1>11, <1>12
<1>14. <<cat, i, j>> \in Spans(q)
  BY SpanType
<1> QED BY <1>13, <1>14

-----------------------------------------------------------------------------
(* What the parser finds where the grammar has a meaning. *)

(* A name in the tokens i to j of q is unknown. *)
Misnamed(q, i, j) == \E k \in i .. j : q[k] \in Unknown

(* m, as it was parsed from the tokens i to j.                             *)
Read(q, i, j, m) == Parsed(m, j + 1, Misnamed(q, i, j))

(* What the tokens i to j mean as a "not" is what parseNot finds at i;     *)
NotReads(q, i, j) ==
  \A m \in Grammar(q)[<<"not", i, j>>] :
    /\ i <= j /\ m \in SUBSET Connections
    /\ Parser(q)[<<"not", NothingAt(i)>>] = Read(q, i, j, m)

(* as a conjunction, parseAnd reaches its loop with it;                    *)
AndReads(q, i, j) ==
  \A m \in Grammar(q)[<<"and", i, j>>] :
    /\ i <= j /\ m \in SUBSET Connections
    /\ ParseAnd(Parser(q), i) = Parser(q)[<<"andRest", Read(q, i, j, m)>>]

(* and as a disjunction parseOr reaches its loop with it, if the           *)
(* conjunction at its end does not go on behind j.                         *)
Ends(q, j) == Peek(q, j + 1) \in {"", ")", "or"}

OrReads(q, i, j) ==
  \A m \in Grammar(q)[<<"or", i, j>>] :
    /\ i <= j /\ m \in SUBSET Connections
    /\ Ends(q, j) => ParseOr(Parser(q), i) = Parser(q)[<<"orRest", Read(q, i, j, m)>>]

AllRead(q, i, j) == NotReads(q, i, j) /\ AndReads(q, i, j) /\ OrReads(q, i, j)

(* The parts of such a result.                                             *)
LEMMA ReadType ==
  ASSUME NEW q \in Seq(Tokens), NEW i \in 1 .. Len(q) + 1, NEW j \in 0 .. Len(q), NEW m \in SUBSET Connections
  PROVE  /\ Read(q, i, j, m) \in Results(q)
         /\ Read(q, i, j, m).node = m /\ m # NoNode
         /\ Read(q, i, j, m).pos = j + 1
         /\ Read(q, i, j, m).err = Misnamed(q, i, j)
<1>1. j + 1 \in 1 .. Len(q) + 1
  OBVIOUS
<1>2. PICK e \in BOOLEAN : e = Misnamed(q, i, j)
  BY DEF Misnamed
<1>3. Read(q, i, j, m) = [node |-> m, pos |-> j + 1, err |-> e]
  BY <1>2 DEF Read, Parsed
<1>4. m # NoNode
  BY NodeType
<1> QED BY <1>1, <1>2, <1>3, <1>4 DEF Results

(* Among the tokens i to j, one expression ends at p and another begins at *)
(* b; a token between them names nothing unknown.                          *)
Adjoins(q, i, j, p, b) ==
  \E k \in i + 1 .. j : p = k - 1 /\ (b = k \/ (b = k + 1 /\ q[k] \notin Unknown))

(* Two expressions side by side, joined.                                   *)
LEMMA JoinedRead ==
  ASSUME NEW q \in Seq(Tokens), NEW i \in 1 .. Len(q) + 1, NEW j \in 0 .. Len(q),
         NEW p, NEW b, Adjoins(q, i, j, p, b),
         NEW m \in SUBSET Connections, NEW n \in SUBSET Connections, NEW node \in SUBSET Connections
  PROVE  Joined(Read(q, i, p, m), Read(q, b, j, n), node) = Read(q, i, j, node)
<1> PICK k \in i + 1 .. j : p = k - 1 /\ (b = k \/ (b = k + 1 /\ q[k] \notin Unknown))
  BY DEF Adjoins
<1>1. Len(q) \in Nat /\ p \in 0 .. Len(q) /\ b \in 1 .. Len(q) + 1
  OBVIOUS
<1>2. PICK l : l = Read(q, i, p, m) /\ l.node # NoNode /\ l.err = Misnamed(q, i, p)
  BY <1>1, ReadType
<1>3. PICK r : r = Read(q, b, j, n) /\ r.pos = j + 1 /\ r.err = Misnamed(q, b, j)
  BY <1>1, ReadType
<1>4. (Misnamed(q, i, p) \/ Misnamed(q, b, j)) <=> Misnamed(q, i, j)
  <2>1. \A x : x \in i .. j <=> x \in i .. p \/ x \in b .. j \/ (x = k /\ b = k + 1)
    OBVIOUS
  <2>2. k \in Int
    OBVIOUS
  <2> QED BY <2>1, <2>2 DEF Misnamed
<1>5. PICK e \in BOOLEAN : e = Misnamed(q, i, j)
  BY DEF Misnamed
<1>6. e = (l.err \/ r.err)
  BY <1>2, <1>3, <1>4, <1>5
<1>7. Joined(l, r, node) = [node |-> node, pos |-> j + 1, err |-> e]
  BY <1>2, <1>3, <1>6 DEF Joined, Parsed
<1>8. Read(q, i, j, node) = [node |-> node, pos |-> j + 1, err |-> e]
  BY <1>5 DEF Read, Parsed
<1> QED BY <1>2, <1>3, <1>7, <1>8

(* Terms are no keywords.                                                  *)
LEMMA Keywords ==
  \A tok \in Unknown \cup Terms : tok \notin {"(", ")", "and", "or", "not", ""}
  BY FilterAssumption

(* What the grammar reads as a "not" begins with a term, "(" or "not".     *)
LEMMA FirstToken ==
  ASSUME NEW q \in Seq(Tokens), NEW i \in 1 .. Len(q) + 1, NEW j \in 0 .. Len(q),
         Grammar(q)[<<"not", i, j>>] # {}
  PROVE  i <= j /\ Peek(q, i) = q[i] /\ q[i] \in Terms \cup Unknown \cup {"(", "not"}
<1>1. Grammar(q)[<<"not", i, j>>] = NotMeans(Grammar(q), q, i, j)
  BY GrammarRecursive DEF Meant
<1>2. i <= j /\ q[i] \in Terms \cup Unknown \cup {"(", "not"}
  BY <1>1 DEF NotMeans, PrimaryMeans
<1>3. i <= Len(q)
  <2>1. Len(q) \in Nat /\ i \in Int /\ j \in Int
    OBVIOUS
  <2> QED BY <1>2, <2>1
<1> QED BY <1>2, <1>3 DEF Peek

(* One step of parseNot, and of the loops.                                 *)
LEMMA NotUnfold ==
  ASSUME NEW q \in Seq(Tokens), NEW pos \in 1 .. Len(q) + 1
  PROVE  Parser(q)[<<"not", NothingAt(pos)>>] = ParseNot(Parser(q), q, pos)
<1>1. <<"not", NothingAt(pos)>> \in Calls(q) /\ NothingAt(pos).pos = pos
  BY ParserRecursive, NotCall
<1>2. Parser(q)[<<"not", NothingAt(pos)>>] = Answer(Parser(q), q, <<"not", NothingAt(pos)>>)
  BY <1>1, ParserRecursive
<1> QED BY <1>1, <1>2 DEF Answer

LEMMA LoopUnfold ==
  ASSUME NEW q \in Seq(Tokens), NEW l \in Results(q)
  PROVE  /\ Parser(q)[<<"andRest", l>>] = AndRest(Parser(q), q, l)
         /\ Parser(q)[<<"orRest", l>>] = OrRest(Parser(q), q, l)
<1>1. <<"andRest", l>> \in Calls(q) /\ <<"orRest", l>> \in Calls(q)
  BY DEF Calls
<1>2. Parser(q)[<<"andRest", l>>] = Answer(Parser(q), q, <<"andRest", l>>)
  BY <1>1, ParserRecursive
<1>3. Parser(q)[<<"orRest", l>>] = Answer(Parser(q), q, <<"orRest", l>>)
  BY <1>1, ParserRecursive
<1>4. Parser(q)[<<"andRest", l>>] = AndRest(Parser(q), q, l)
  BY <1>2 DEF Answer
<1>5. Parser(q)[<<"orRest", l>>] = OrRest(Parser(q), q, l)
  BY <1>3 DEF Answer
<1> QED BY <1>4, <1>5

(* What a primary means is what parsePrimary finds.                        *)
LEMMA PrimaryStep ==
  ASSUME NEW q \in Seq(Tokens), NEW i \in 1 .. Len(q) + 1, NEW j \in 0 .. Len(q),
         i < j => OrReads(q, i + 1, j - 1),
         NEW m, m \in PrimaryMeans(Grammar(q), q, i, j)
  PROVE  /\ i <= j /\ m \in SUBSET Connections
         /\ Peek(q, i) # "not"
         /\ ParsePrimary(Parser(q), q, i) = Read(q, i, j, m)
<1>1. Len(q) \in Nat /\ i \in Int /\ j \in Int /\ i <= j
  BY DEF PrimaryMeans
<1>2. Peek(q, i) = q[i] /\ Peek(q, j) = q[j]
  <2>1. i <= Len(q) /\ j <= Len(q)
    BY <1>1
  <2> QED BY <2>1 DEF Peek
<1>3. CASE i = j /\ q[i] \in Terms \cup Unknown
  <2>1. m = {c \in Connections : q[i] \in c}
    BY <1>3 DEF PrimaryMeans
  <2>2. Peek(q, i) \notin {"", ")", "(", "not"}
    BY <1>2, <1>3, Keywords
  <2>3. ParsePrimary(Parser(q), q, i) = MakePred(q[i], i + 1)
    BY <1>2, <2>2 DEF ParsePrimary
  <2>4. PICK e \in BOOLEAN : e = (q[i] \in Unknown) /\ e = Misnamed(q, i, j)
    <3>1. i .. j = {i}
      BY <1>1, <1>3
    <3>2. Misnamed(q, i, j) <=> q[i] \in Unknown
      BY <3>1 DEF Misnamed
    <3>3. PICK e \in BOOLEAN : e = Misnamed(q, i, j)
      BY DEF Misnamed
    <3>4. e = (q[i] \in Unknown)
      BY <3>2, <3>3
    <3> QED BY <3>3, <3>4
  <2>5. MakePred(q[i], i + 1) = Parsed(m, j + 1, e)
    BY <1>3, <2>1, <2>4 DEF MakePred, Parsed
  <2>6. Read(q, i, j, m) = Parsed(m, j + 1, e)
    BY <2>4 DEF Read, Parsed
  <2>7. m \in SUBSET Connections
    BY <2>1
  <2> QED BY <1>1, <2>2, <2>3, <2>5, <2>6, <2>7
<1>4. CASE ~(i = j /\ q[i] \in Terms \cup Unknown)
  <2>1. q[i] = "(" /\ q[j] = ")" /\ m \in Grammar(q)[<<"or", i + 1, j - 1>>]
    BY <1>1, <1>4 DEF PrimaryMeans
  <2>2. i < j
    <3>1. i # j
      BY <2>1
    <3> QED BY <1>1, <3>1
  <2>3. /\ i + 1 \in 1 .. Len(q) + 1 /\ j \in 1 .. Len(q) + 1 /\ j - 1 \in 0 .. Len(q)
        /\ j - 1 + 1 = j /\ i + 1 <= j
    BY <1>1, <2>2
  <2>4. m \in SUBSET Connections /\ (Ends(q, j - 1) =>
          ParseOr(Parser(q), i + 1) = Parser(q)[<<"orRest", Read(q, i + 1, j - 1, m)>>])
    BY <2>1, <2>2 DEF OrReads
  <2>5. Ends(q, j - 1)
    BY <1>2, <2>1, <2>3 DEF Ends
  <2>6. PICK r : r = Read(q, i + 1, j - 1, m)
    OBVIOUS
  <2>7. r \in Results(q) /\ r.pos = j /\ r.node = m /\ r.err = Misnamed(q, i + 1, j - 1)
    BY <2>3, <2>4, <2>6, ReadType
  <2>8. ParseOr(Parser(q), i + 1) = r
    <3>1. Peek(q, r.pos) # "or"
      BY <1>2, <2>1, <2>7
    <3>2. OrRest(Parser(q), q, r) = r
      BY <3>1 DEF OrRest
    <3>3. Parser(q)[<<"orRest", r>>] = r
      BY <2>7, <3>2, LoopUnfold
    <3> QED BY <2>4, <2>5, <2>6, <3>3
  <2>9. ParsePrimary(Parser(q), q, i) = [r EXCEPT !.pos = @ + 1]
    BY <1>2, <2>1, <2>7, <2>8 DEF ParsePrimary
  <2>10. PICK e \in BOOLEAN : e = Misnamed(q, i + 1, j - 1) /\ e = Misnamed(q, i, j)
    <3>1. q[i] \notin Unknown /\ q[j] \notin Unknown
      BY <2>1, Keywords
    <3>2. \A x : x \in i .. j <=> x \in i + 1 .. j - 1 \/ x = i \/ x = j
      BY <1>1
    <3>3. Misnamed(q, i, j) <=> Misnamed(q, i + 1, j - 1)
      BY <3>1, <3>2 DEF Misnamed
    <3> QED BY <3>3 DEF Misnamed
  <2>11. r = Parsed(m, j, e)
    BY <2>3, <2>6, <2>10 DEF Read
  <2>12. [r EXCEPT !.pos = @ + 1] = Parsed(m, j + 1, e)
    BY <2>11 DEF Parsed
  <2>13. Read(q, i, j, m) = Parsed(m, j + 1, e)
    BY <2>10 DEF Read
  <2> QED BY <1>1, <1>2, <2>1, <2>4, <2>9, <2>12, <2>13
<1> QED BY <1>3, <1>4

(* The induction step, for each category.                                  *)
LEMMA NotStep ==
  ASSUME NEW q \in Seq(Tokens), NEW i \in 1 .. Len(q) + 1, NEW j \in 0 .. Len(q),
         i < j => OrReads(q, i + 1, j - 1) /\ NotReads(q, i + 1, j)
  PROVE  NotReads(q, i, j)
<1> SUFFICES ASSUME NEW m, m \in Grammar(q)[<<"not", i, j>>]
             PROVE  /\ i <= j /\ m \in SUBSET Connections
                    /\ Parser(q)[<<"not", NothingAt(i)>>] = Read(q, i, j, m)
  BY DEF NotReads
<1>1. Len(q) \in Nat /\ i \in Int /\ j \in Int
  OBVIOUS
<1>2. m \in NotMeans(Grammar(q), q, i, j)
  BY GrammarRecursive DEF Meant
<1>3. Parser(q)[<<"not", NothingAt(i)>>] = ParseNot(Parser(q), q, i)
  BY NotUnfold
<1>4. CASE i < j /\ q[i] = "not"
  <2>1. PICK n \in Grammar(q)[<<"not", i + 1, j>>] : m = Connections \ n
    BY <1>2, <1>4 DEF NotMeans
  <2>2. n \in SUBSET Connections /\ Parser(q)[<<"not", NothingAt(i + 1)>>] = Read(q, i + 1, j, n)
    BY <1>4, <2>1 DEF NotReads
  <2>3. i + 1 \in 1 .. Len(q) + 1 /\ Peek(q, i) = "not" /\ i <= j
    <3>1. i <= Len(q)
      BY <1>1, <1>4
    <3> QED BY <1>1, <1>4, <3>1 DEF Peek
  <2>4. PICK r : r = Read(q, i + 1, j, n)
    OBVIOUS
  <2>5. r.node # NoNode
    BY <2>2, <2>3, <2>4, ReadType
  <2>6. ParseNot(Parser(q), q, i) = [r EXCEPT !.node = Connections \ @]
    BY <2>2, <2>3, <2>4, <2>5 DEF ParseNot
  <2>7. PICK e \in BOOLEAN : e = Misnamed(q, i + 1, j) /\ e = Misnamed(q, i, j)
    <3>1. q[i] \notin Unknown
      BY <1>4, Keywords
    <3>2. \A x : x \in i .. j <=> x \in i + 1 .. j \/ x = i
      BY <1>1, <1>4
    <3>3. Misnamed(q, i, j) <=> Misnamed(q, i + 1, j)
      BY <3>1, <3>2 DEF Misnamed
    <3> QED BY <3>3 DEF Misnamed
  <2>8. r = Parsed(n, j + 1, e) /\ r.node = n
    BY <2>4, <2>7 DEF Read, Parsed
  <2>9. [r EXCEPT !.node = m] = Parsed(m, j + 1, e)
    BY ONLY <2>8 DEF Parsed
  <2>10. Read(q, i, j, m) = Parsed(m, j + 1, e)
    BY <2>7 DEF Read
  <2>11. m \in SUBSET Connections
    BY <2>1
  <2> QED BY <1>3, <2>1, <2>3, <2>6, <2>8, <2>9, <2>10, <2>11
<1>5. CASE ~(i < j /\ q[i] = "not")
  <2>1. m \in PrimaryMeans(Grammar(q), q, i, j)
    BY <1>2, <1>5 DEF NotMeans
  <2>2. i < j => OrReads(q, i + 1, j - 1)
    OBVIOUS
  <2>3. /\ i <= j /\ m \in SUBSET Connections
        /\ Peek(q, i) # "not"
        /\ ParsePrimary(Parser(q), q, i) = Read(q, i, j, m)
    BY <2>1, <2>2, PrimaryStep
  <2> QED BY <1>3, <2>3 DEF ParseNot
<1> QED BY <1>4, <1>5

LEMMA AndStep ==
  ASSUME NEW q \in Seq(Tokens), NEW i \in 1 .. Len(q) + 1, NEW j \in 0 .. Len(q),
         NotReads(q, i, j),
         \A k \in i + 1 .. j : AndReads(q, i, k - 1) /\ NotReads(q, k, j) /\ NotReads(q, k + 1, j)
  PROVE  AndReads(q, i, j)
<1> SUFFICES ASSUME NEW m, m \in Grammar(q)[<<"and", i, j>>]
             PROVE  /\ i <= j /\ m \in SUBSET Connections
                    /\ ParseAnd(Parser(q), i) = Parser(q)[<<"andRest", Read(q, i, j, m)>>]
  BY DEF AndReads
<1>1. Len(q) \in Nat /\ i \in Int /\ j \in Int
  OBVIOUS
<1>2. m \in AndMeans(Grammar(q), q, i, j)
  BY GrammarRecursive DEF Meant
<1>3. CASE m \in Grammar(q)[<<"not", i, j>>]
  BY <1>3 DEF NotReads, ParseAnd
<1>4. CASE m \notin Grammar(q)[<<"not", i, j>>]
  <2>1. PICK k \in i + 1 .. j :
               m \in Meets(Grammar(q)[<<"and", i, k - 1>>], Grammar(q)[<<"not", Operand(q, k), j>>])
    BY <1>2, <1>4, AndMember
  <2>2. PICK a \in Grammar(q)[<<"and", i, k - 1>>], n \in Grammar(q)[<<"not", Operand(q, k), j>>] :
               m = a \cap n
    BY <2>1, MeetMember
  <2>3. PICK b : b = Operand(q, k)
    OBVIOUS
  <2>4. /\ k - 1 \in 0 .. Len(q) /\ k \in 1 .. Len(q) + 1 /\ k \in Int /\ i <= j /\ k - 1 + 1 = k
        /\ b \in {k, k + 1} /\ b \in 1 .. Len(q) + 1
    BY <1>1, <2>3 DEF Operand
  <2>5. /\ a \in SUBSET Connections
        /\ ParseAnd(Parser(q), i) = Parser(q)[<<"andRest", Read(q, i, k - 1, a)>>]
    BY <2>2 DEF AndReads
  <2>6. n \in SUBSET Connections /\ Parser(q)[<<"not", NothingAt(b)>>] = Read(q, b, j, n)
    BY <2>2, <2>3, <2>4 DEF NotReads
  <2>7. Peek(q, k) = q[k]
    <3>1. k <= Len(q)
      BY <1>1
    <3> QED BY <3>1 DEF Peek
  <2>8. Peek(q, k) \notin {"", ")", "or"}
    <3>1. CASE q[k] = "and"
      BY <2>7, <3>1
    <3>2. CASE q[k] # "and"
      <4>1. b = k
        BY <2>3, <3>2 DEF Operand
      <4>2. q[k] \in Terms \cup Unknown \cup {"(", "not"}
        BY <2>2, <2>3, <2>4, <4>1, FirstToken
      <4> QED BY <2>7, <4>2, Keywords
    <3> QED BY <3>1, <3>2
  <2>9. b = (IF Peek(q, k) = "and" THEN k + 1 ELSE k)
    BY <2>3, <2>7 DEF Operand
  <2>10. PICK p \in 0 .. Len(q) : p = k - 1 /\ p + 1 = k
    BY <2>4
  <2>11. PICK l : l = Read(q, i, p, a) /\ l = Read(q, i, k - 1, a)
    BY <2>10
  <2>12. l \in Results(q) /\ l.pos = k /\ l.node = a
    BY <2>5, <2>10, <2>11, ReadType
  <2>13. PICK r : r = Read(q, b, j, n)
    OBVIOUS
  <2>14. r.node = n /\ n # NoNode
    BY <2>4, <2>6, <2>13, ReadType
  <2>15. m \in SUBSET Connections
    BY <2>2, <2>5
  <2>16. Joined(l, r, m) = Read(q, i, j, m)
    <3>1. b = k \/ (b = k + 1 /\ q[k] = "and")
      BY <2>3 DEF Operand
    <3>2. Adjoins(q, i, j, p, b)
      BY <2>10, <3>1, Keywords DEF Adjoins
    <3>3. Joined(Read(q, i, p, a), Read(q, b, j, n), m) = Read(q, i, j, m)
      <4>1. /\ q \in Seq(Tokens) /\ i \in 1 .. Len(q) + 1 /\ j \in 0 .. Len(q)
            /\ a \in SUBSET Connections /\ n \in SUBSET Connections
        BY <2>5, <2>6
      <4> QED BY ONLY <2>15, <3>2, <4>1, JoinedRead
    <3> QED BY <2>11, <2>13, <3>3
  <2>17. Parser(q)[<<"andRest", l>>] = AndRest(Parser(q), q, l)
    BY <2>12, LoopUnfold
  <2>18. Parser(q)[<<"not", NothingAt(IF Peek(q, l.pos) = "and" THEN l.pos + 1 ELSE l.pos)>>] = r
    BY <2>6, <2>9, <2>12, <2>13
  <2>19. AndRest(Parser(q), q, l) = Parser(q)[<<"andRest", Joined(l, r, l.node \cap r.node)>>]
    BY <2>8, <2>12, <2>14, <2>18 DEF AndRest
  <2>20. l.node \cap r.node = m
    BY <2>2, <2>12, <2>14
  <2> QED BY <2>4, <2>5, <2>11, <2>15, <2>16, <2>17, <2>19, <2>20
<1> QED BY <1>3, <1>4

(* parseAnd stops behind a conjunction that does not go on.                *)
LEMMA AndEnds ==
  ASSUME NEW q \in Seq(Tokens), NEW i \in 1 .. Len(q) + 1, NEW j \in 0 .. Len(q),
         AndReads(q, i, j), Ends(q, j), NEW m \in Grammar(q)[<<"and", i, j>>]
  PROVE  ParseAnd(Parser(q), i) = Read(q, i, j, m)
<1>1. m \in SUBSET Connections /\ ParseAnd(Parser(q), i) = Parser(q)[<<"andRest", Read(q, i, j, m)>>]
  BY DEF AndReads
<1>2. PICK l : l = Read(q, i, j, m)
  OBVIOUS
<1>3. l \in Results(q) /\ l.pos = j + 1
  BY <1>1, <1>2, ReadType
<1>4. AndRest(Parser(q), q, l) = l
  BY <1>3 DEF AndRest, Ends
<1> QED BY <1>1, <1>2, <1>3, <1>4, LoopUnfold

LEMMA OrStep ==
  ASSUME NEW q \in Seq(Tokens), NEW i \in 1 .. Len(q) + 1, NEW j \in 0 .. Len(q),
         AndReads(q, i, j),
         \A k \in i + 1 .. j - 1 : OrReads(q, i, k - 1) /\ AndReads(q, k + 1, j)
  PROVE  OrReads(q, i, j)
<1> SUFFICES ASSUME NEW m, m \in Grammar(q)[<<"or", i, j>>]
             PROVE  /\ i <= j /\ m \in SUBSET Connections
                    /\ Ends(q, j) => ParseOr(Parser(q), i) = Parser(q)[<<"orRest", Read(q, i, j, m)>>]
  BY DEF OrReads
<1>1. Len(q) \in Nat /\ i \in Int /\ j \in Int
  OBVIOUS
<1>2. m \in OrMeans(Grammar(q), q, i, j)
  BY GrammarRecursive DEF Meant
<1>3. CASE m \in Grammar(q)[<<"and", i, j>>]
  <2>1. i <= j /\ m \in SUBSET Connections
    BY <1>3 DEF AndReads
  <2>2. Ends(q, j) => ParseAnd(Parser(q), i) = Read(q, i, j, m)
    BY <1>3, AndEnds
  <2> QED BY <2>1, <2>2 DEF ParseOr
<1>4. CASE m \notin Grammar(q)[<<"and", i, j>>]
  <2>1. PICK k \in i + 1 .. j - 1 :
               q[k] = "or" /\ m \in Joins(Grammar(q)[<<"or", i, k - 1>>], Grammar(q)[<<"and", k + 1, j>>])
    BY <1>2, <1>4, OrMember
  <2>2. PICK a \in Grammar(q)[<<"or", i, k - 1>>], n \in Grammar(q)[<<"and", k + 1, j>>] : m = a \cup n
    BY <2>1, JoinMember
  <2>3. /\ k - 1 \in 0 .. Len(q) /\ k + 1 \in 1 .. Len(q) + 1 /\ k \in i + 1 .. j /\ k \in Int
        /\ i <= j /\ k <= Len(q) /\ k - 1 + 1 = k
    BY <1>1
  <2>4. Peek(q, k) = "or"
    BY <2>1, <2>3 DEF Peek
  <2>5. Ends(q, k - 1)
    BY <2>3, <2>4 DEF Ends
  <2>6. a \in SUBSET Connections /\ ParseOr(Parser(q), i) = Parser(q)[<<"orRest", Read(q, i, k - 1, a)>>]
    BY <2>2, <2>5 DEF OrReads
  <2>7. n \in SUBSET Connections
    BY <2>2 DEF AndReads
  <2>8. m \in SUBSET Connections
    BY <2>2, <2>6, <2>7
  <2>9. ASSUME Ends(q, j)
        PROVE  ParseOr(Parser(q), i) = Parser(q)[<<"orRest", Read(q, i, j, m)>>]
    <3>1. ParseAnd(Parser(q), k + 1) = Read(q, k + 1, j, n)
      BY <2>2, <2>3, <2>9, AndEnds
    <3>2. PICK l : l = Read(q, i, k - 1, a)
      OBVIOUS
    <3>3. l \in Results(q) /\ l.pos = k /\ l.node = a
      BY <2>3, <2>6, <3>2, ReadType
    <3>4. PICK r : r = Read(q, k + 1, j, n)
      OBVIOUS
    <3>5. r.node = n /\ n # NoNode
      BY <2>3, <2>7, <3>4, ReadType
    <3>6. PICK p, b : p = k - 1 /\ b = k + 1
      OBVIOUS
    <3>7. Joined(l, r, m) = Read(q, i, j, m)
      <4>1. Adjoins(q, i, j, p, b)
        BY <2>1, <2>3, <3>6, Keywords DEF Adjoins
      <4>2. Joined(Read(q, i, p, a), Read(q, b, j, n), m) = Read(q, i, j, m)
        BY <2>6, <2>7, <2>8, <4>1, JoinedRead
      <4> QED BY <3>2, <3>4, <3>6, <4>2
    <3>8. OrRest(Parser(q), q, l) = Parser(q)[<<"orRest", Joined(l, r, l.node \cup r.node)>>]
      BY <2>4, <3>1, <3>3, <3>4, <3>5 DEF OrRest
    <3>9. l.node \cup r.node = m
      BY <2>2, <3>3, <3>5
    <3>10. Parser(q)[<<"orRest", l>>] = OrRest(Parser(q), q, l)
      BY <3>3, LoopUnfold
    <3> QED BY <2>6, <3>2, <3>7, <3>8, <3>9, <3>10
  <2> QED BY <2>3, <2>8, <2>9
<1> QED BY <1>3, <1>4

(* Where the grammar has a meaning, the parser finds it: by induction on   *)
(* the length of the span.                                                 *)
LEMMA AllIsRead ==
  ASSUME NEW q \in Seq(Tokens)
  PROVE  \A i \in 1 .. Len(q) + 1, j \in 0 .. Len(q) : AllRead(q, i, j)
<1> DEFINE Missed == {n \in Nat : \E i \in 1 .. Len(q) + 1, j \in 0 .. Len(q) :
                                    n = j - i + Len(q) + 1 /\ ~AllRead(q, i, j)}
<1>1. Len(q) \in Nat
  OBVIOUS
<1>2. ASSUME Missed # {}
      PROVE  FALSE
  <2>1. PICK n \in Missed : \A k \in Missed : n <= k
    BY <1>2, Least
  <2>2. PICK i \in 1 .. Len(q) + 1, j \in 0 .. Len(q) : n = j - i + Len(q) + 1 /\ ~AllRead(q, i, j)
    BY <2>1
  <2>3. ASSUME NEW a \in 1 .. Len(q) + 1, NEW b \in 0 .. Len(q), b - a < j - i
        PROVE  AllRead(q, a, b)
    <3>1. PICK k \in Nat : k = b - a + Len(q) + 1
      BY <1>1
    <3>2. ~(n <= k)
      BY <1>1, <2>2, <2>3, <3>1
    <3>3. k \notin Missed
      BY <2>1, <3>2
    <3> QED BY <3>1, <3>3
  <2> HIDE DEF Missed
  <2>4. i \in Int /\ j \in Int
    OBVIOUS
  <2>5. NotReads(q, i, j)
    <3>1. ASSUME i < j
          PROVE  OrReads(q, i + 1, j - 1) /\ NotReads(q, i + 1, j)
      <4>1. /\ i + 1 \in 1 .. Len(q) + 1 /\ j - 1 \in 0 .. Len(q)
            /\ j - 1 - (i + 1) < j - i /\ j - (i + 1) < j - i
        BY <1>1, <2>4, <3>1
      <4>2. AllRead(q, i + 1, j - 1) /\ AllRead(q, i + 1, j)
        BY <2>3, <4>1
      <4> QED BY <4>2 DEF AllRead
    <3> QED BY <3>1, NotStep
  <2>6. AndReads(q, i, j)
    <3>1. ASSUME NEW k \in i + 1 .. j
          PROVE  AndReads(q, i, k - 1) /\ NotReads(q, k, j) /\ NotReads(q, k + 1, j)
      <4>1. /\ k - 1 \in 0 .. Len(q) /\ k \in 1 .. Len(q) + 1 /\ k + 1 \in 1 .. Len(q) + 1
            /\ k - 1 - i < j - i /\ j - k < j - i /\ j - (k + 1) < j - i
        BY <1>1, <2>4
      <4>2. AllRead(q, i, k - 1) /\ AllRead(q, k, j) /\ AllRead(q, k + 1, j)
        BY <2>3, <4>1
      <4> QED BY <4>2 DEF AllRead
    <3> QED BY <2>5, <3>1, AndStep
  <2>7. OrReads(q, i, j)
    <3>1. ASSUME NEW k \in i + 1 .. j - 1
          PROVE  OrReads(q, i, k - 1) /\ AndReads(q, k + 1, j)
      <4>1. /\ k - 1 \in 0 .. Len(q) /\ k + 1 \in 1 .. Len(q) + 1
            /\ k - 1 - i < j - i /\ j - (k + 1) < j - i
        BY <1>1, <2>4
      <4>2. AllRead(q, i, k - 1) /\ AllRead(q, k + 1, j)
        BY <2>3, <4>1
      <4> QED BY <4>2 DEF AllRead
    <3> QED BY <2>6, <3>1, OrStep
  <2> QED BY <2>2, <2>5, <2>6, <2>7 DEF AllRead
<1>3. ASSUME NEW i \in 1 .. Len(q) + 1, NEW j \in 0 .. Len(q)
      PROVE  AllRead(q, i, j)
  <2>0. j - i + Len(q) + 1 \in Nat
    BY <1>1
  <2>1. PICK k \in Nat : k = j - i + Len(q) + 1
    BY <2>0
  <2>2. k \notin Missed
    BY <1>2
  <2> QED BY <2>1, <2>2
<1> QED BY <1>3

(* A text the grammar has a meaning for is parsed to its end, as that.     *)
LEMMA ParseMeans ==
  ASSUME NEW q \in Seq(Tokens), NEW m \in Means(q)
  PROVE  m \in SUBSET Connections /\ Parse(q) = Read(q, 1, Len(q), m)
<1>1. Len(q) \in Nat /\ 1 \in 1 .. Len(q) + 1 /\ Len(q) \in 0 .. Len(q)
  OBVIOUS
<1>2. OrReads(q, 1, Len(q))
  BY <1>1, AllIsRead DEF AllRead
<1>3. Peek(q, Len(q) + 1) = ""
  <2>1. ~(Len(q) + 1 <= Len(q))
    BY <1>1
  <2> QED BY <2>1 DEF Peek
<1>4. m \in SUBSET Connections /\ ParseOr(Parser(q), 1) = Parser(q)[<<"orRest", Read(q, 1, Len(q), m)>>]
  BY <1>2, <1>3 DEF OrReads, Means, Ends
<1>5. PICK l : l = Read(q, 1, Len(q), m)
  OBVIOUS
<1>6. l \in Results(q) /\ l.pos = Len(q) + 1
  BY <1>1, <1>4, <1>5, ReadType
<1>7. OrRest(Parser(q), q, l) = l
  BY <1>3, <1>6 DEF OrRest
<1> QED BY <1>4, <1>5, <1>6, <1>7, LoopUnfold DEF Parse

-----------------------------------------------------------------------------
(* What the parser notices in any text. *)

(* Every unknown name from i to where r ended was noticed.                 *)
Noticed(q, i, r) == \A k \in i .. r.pos - 1 : q[k] \in Unknown => r.err

(* The end of the text, or a ")", is at p or behind it.                    *)
Seen(q, p) == p > Len(q) \/ \E k \in 1 .. p : k <= Len(q) /\ q[k] = ")"

(* A conjunction that ended at r, for one of these or for an "or".         *)
Rests(q, r) == Seen(q, r.pos) \/ (r.node # NoNode /\ Peek(q, r.pos) = "or")

(* What answer r to call c leaves unnoticed, and where it ends.            *)
Heeds(q, c, r) ==
  /\ c[1] = "not" => Noticed(q, c[2].pos, r) /\ (r.node = NoNode => Seen(q, r.pos))
  /\ c[1] = "andRest" /\ (c[2].node = NoNode => Seen(q, c[2].pos)) =>
       Noticed(q, c[2].pos, r) /\ (c[2].err => r.err) /\ Rests(q, r)
  /\ c[1] = "orRest" /\ Rests(q, c[2]) =>
       Noticed(q, c[2].pos, r) /\ (c[2].err => r.err) /\ Seen(q, r.pos)

(* The calls nearer to the end than m do.                                  *)
HeedsBelow(q, m) == \A d \in Calls(q) : Ahead(q)[d] < m => Heeds(q, d, Parser(q)[d])

(* What was noticed to where l ended, and from there to where r did.       *)
LEMMA NoticedOn ==
  ASSUME NEW q, NEW i \in Int, NEW l, NEW r, l.pos \in Int,
         Noticed(q, i, l), Noticed(q, l.pos, r), l.err => r.err
  PROVE  Noticed(q, i, r)
<1> SUFFICES ASSUME NEW k \in i .. r.pos - 1, q[k] \in Unknown PROVE r.err
  BY DEF Noticed
<1>1. CASE k < l.pos
  <2>1. k \in i .. l.pos - 1
    BY <1>1
  <2> QED BY <2>1 DEF Noticed
<1>2. CASE ~(k < l.pos)
  <2>1. k \in l.pos .. r.pos - 1
    BY <1>2
  <2> QED BY <2>1 DEF Noticed
<1> QED BY <1>1, <1>2

(* A token that is no name, before what was noticed.                       *)
LEMMA NoticedBefore ==
  ASSUME NEW q, NEW i \in Int, NEW r, q[i] \notin Unknown, Noticed(q, i + 1, r)
  PROVE  Noticed(q, i, r)
<1> SUFFICES ASSUME NEW k \in i .. r.pos - 1, q[k] \in Unknown PROVE r.err
  BY DEF Noticed
<1>1. k # i
  OBVIOUS
<1>2. k \in i + 1 .. r.pos - 1
  BY <1>1
<1> QED BY <1>2 DEF Noticed

LEMMA SeenOn ==
  ASSUME NEW q \in Seq(Tokens), NEW p \in Int, NEW o \in Int, Seen(q, p), p <= o
  PROVE  Seen(q, o)
<1>1. Len(q) \in Nat
  OBVIOUS
<1> QED BY <1>1 DEF Seen

LEMMA SeenHere ==
  ASSUME NEW q \in Seq(Tokens), NEW pos \in 1 .. Len(q) + 1
  PROVE  Peek(q, pos) \in {"", ")"} => Seen(q, pos)
<1>1. Len(q) \in Nat /\ pos \in Int /\ pos \in 1 .. pos
  OBVIOUS
<1>2. CASE pos <= Len(q)
  <2>1. Peek(q, pos) = q[pos] /\ Peek(q, pos) # ""
    BY <1>2, PeekType
  <2> QED BY <1>1, <1>2, <2>1 DEF Seen
<1>3. CASE ~(pos <= Len(q))
  <2>1. pos > Len(q)
    BY <1>1, <1>3
  <2>2. Seen(q, pos)
    BY <2>1 DEF Seen
  <2> QED BY <2>2
<1> QED BY <1>2, <1>3

(* parseAnd and parseOr, if the calls they make heed.                      *)
LEMMA BothHeed ==
  ASSUME NEW q \in Seq(Tokens), NEW pos \in 1 .. Len(q) + 1, NEW m \in Nat,
         2 * (Len(q) + 1 - pos) + 1 < m, HeedsBelow(q, m)
  PROVE  /\ Noticed(q, pos, ParseAnd(Parser(q), pos)) /\ Rests(q, ParseAnd(Parser(q), pos))
         /\ Noticed(q, pos, ParseOr(Parser(q), pos)) /\ Seen(q, ParseOr(Parser(q), pos).pos)
<1>1. PICK run \in Runs(q) : run = Parser(q)
  BY ParserRecursive
<1>2. PICK n : n = run[<<"not", NothingAt(pos)>>]
  OBVIOUS
<1>3. PICK a : a = run[<<"andRest", n>>]
  OBVIOUS
<1>4. PICK o : o = run[<<"orRest", a>>]
  OBVIOUS
<1>5. ParseAnd(run, pos) = a /\ ParseOr(run, pos) = o
  BY <1>2, <1>3, <1>4 DEF ParseAnd, ParseOr
<1>6. Len(q) \in Nat
  OBVIOUS
<1>7. n \in Results(q) /\ n.pos \in pos .. Len(q) + 1
  BY <1>2, NotCall
<1>8. a \in Results(q) /\ a.pos \in n.pos .. Len(q) + 1
  BY <1>3, <1>7, LoopCall
<1>9. Noticed(q, pos, n) /\ (n.node = NoNode => Seen(q, n.pos))
  <2>1. /\ <<"not", NothingAt(pos)>> \in Calls(q)
        /\ NothingAt(pos).pos = pos
        /\ Ahead(q)[<<"not", NothingAt(pos)>>] = 2 * (Len(q) + 1 - pos)
    BY NotCall
  <2>2. 2 * (Len(q) + 1 - pos) < m
    BY <1>6
  <2>3. Heeds(q, <<"not", NothingAt(pos)>>, n)
    BY <1>1, <1>2, <2>1, <2>2 DEF HeedsBelow
  <2> QED BY <2>1, <2>3 DEF Heeds
<1>10. Noticed(q, n.pos, a) /\ (n.err => a.err) /\ Rests(q, a)
  <2>1. <<"andRest", n>> \in Calls(q) /\ Ahead(q)[<<"andRest", n>>] = 2 * (Len(q) + 1 - n.pos) + 1
    BY <1>7, LoopCall
  <2>2. 2 * (Len(q) + 1 - n.pos) + 1 < m
    BY <1>6, <1>7
  <2>3. Heeds(q, <<"andRest", n>>, a)
    BY <1>1, <1>3, <2>1, <2>2 DEF HeedsBelow
  <2> QED BY <1>9, <2>3 DEF Heeds
<1>11. Noticed(q, a.pos, o) /\ (a.err => o.err) /\ Seen(q, o.pos)
  <2>1. <<"orRest", a>> \in Calls(q) /\ Ahead(q)[<<"orRest", a>>] = 2 * (Len(q) + 1 - a.pos) + 1
    BY <1>8, LoopCall
  <2>2. 2 * (Len(q) + 1 - a.pos) + 1 < m
    BY <1>6, <1>7, <1>8
  <2>3. Heeds(q, <<"orRest", a>>, o)
    BY <1>1, <1>4, <2>1, <2>2 DEF HeedsBelow
  <2> QED BY <1>10, <2>3 DEF Heeds
<1>12. pos \in Int /\ n.pos \in Int /\ a.pos \in Int
  BY <1>6, <1>7, <1>8
<1>13. Noticed(q, pos, a)
  BY <1>9, <1>10, <1>12, NoticedOn
<1>14. Noticed(q, pos, o)
  BY <1>11, <1>12, <1>13, NoticedOn
<1> QED BY <1>1, <1>5, <1>10, <1>11, <1>13, <1>14

LEMMA PrimaryHeeds ==
  ASSUME NEW q \in Seq(Tokens), NEW pos \in 1 .. Len(q) + 1,
         HeedsBelow(q, 2 * (Len(q) + 1 - pos))
  PROVE  /\ Noticed(q, pos, ParsePrimary(Parser(q), q, pos))
         /\ ParsePrimary(Parser(q), q, pos).node = NoNode => Seen(q, ParsePrimary(Parser(q), q, pos).pos)
<1>1. PICK run \in Runs(q) : run = Parser(q)
  BY ParserRecursive
<1>2. PICK t : t = Peek(q, pos)
  OBVIOUS
<1>3. PICK r : r = ParsePrimary(run, q, pos)
  OBVIOUS
<1>4. Len(q) \in Nat /\ pos \in Int
  OBVIOUS
<1>5. CASE t \in {"", ")"}
  <2>1. r = NothingAt(pos)
    BY <1>2, <1>3, <1>5 DEF ParsePrimary
  <2>2. r.pos = pos
    BY <2>1, NothingType
  <2>3. Noticed(q, pos, r)
    BY <1>4, <2>2 DEF Noticed
  <2>4. Seen(q, pos)
    BY <1>2, <1>5, SeenHere
  <2> QED BY <1>1, <1>3, <2>2, <2>3, <2>4
<1>6. CASE t = "("
  <2>1. pos <= Len(q) /\ pos + 1 \in 1 .. Len(q) + 1 /\ q[pos] = "("
    BY <1>2, <1>6, PeekType
  <2>2. q[pos] \notin Unknown
    BY <2>1, Keywords
  <2>3. PICK inner : inner = ParseOr(run, pos + 1)
    OBVIOUS
  <2>4. inner \in Results(q) /\ inner.pos \in pos + 1 .. Len(q) + 1
    BY <2>1, <2>3, BothCalls
  <2>5. Noticed(q, pos + 1, inner) /\ Seen(q, inner.pos)
    <3>1. 2 * (Len(q) + 1 - pos) \in Nat /\ 2 * (Len(q) + 1 - (pos + 1)) + 1 < 2 * (Len(q) + 1 - pos)
      BY <1>4, <2>1
    <3> QED BY <1>1, <2>1, <2>3, <3>1, BothHeed
  <2>6. Noticed(q, pos, inner)
    BY <1>4, <2>2, <2>5, NoticedBefore
  <2>7. r = IF Peek(q, inner.pos) = ")" THEN [inner EXCEPT !.pos = @ + 1] ELSE inner
    BY <1>2, <1>3, <1>6, <2>3 DEF ParsePrimary
  <2>8. CASE Peek(q, inner.pos) # ")"
    BY <1>1, <1>3, <2>5, <2>6, <2>7, <2>8
  <2>9. CASE Peek(q, inner.pos) = ")"
    <3>1. PICK at \in 1 .. Len(q) + 1 : at = inner.pos
      BY <2>4, ResultType
    <3>2. at <= Len(q) /\ q[at] = ")"
      BY <2>9, <3>1, PeekType
    <3>3. q[at] \notin Unknown
      BY <3>2, Keywords
    <3>4. inner = Parsed(inner.node, at, inner.err)
      BY <2>4, <3>1, ResultType
    <3>5. r.pos = at + 1 /\ r.err = inner.err
      BY <2>7, <2>9, <3>1, <3>4 DEF Parsed
    <3>6. Noticed(q, pos, r)
      <4> SUFFICES ASSUME NEW k \in pos .. r.pos - 1, q[k] \in Unknown PROVE r.err
        BY DEF Noticed
      <4>1. k # at
        BY <3>3
      <4>2. k \in pos .. inner.pos - 1
        BY <1>4, <3>1, <3>5, <4>1
      <4> QED BY <2>6, <3>5, <4>2 DEF Noticed
    <3>7. Seen(q, r.pos)
      BY <2>5, <3>1, <3>5, SeenOn
    <3> QED BY <1>1, <1>3, <3>6, <3>7
  <2> QED BY <2>8, <2>9
<1>7. CASE t \notin {"", ")", "("}
  <2>1. pos <= Len(q) /\ t = q[pos]
    BY <1>2, <1>7, PeekType
  <2>2. r = MakePred(t, pos + 1)
    BY <1>2, <1>3, <1>7 DEF ParsePrimary
  <2>3. PICK n \in SUBSET Connections, e \in BOOLEAN : n = {c \in Connections : t \in c} /\ e = (t \in Unknown)
    <3>1. PICK n : n = {c \in Connections : t \in c}
      OBVIOUS
    <3>2. PICK e : e = (t \in Unknown)
      OBVIOUS
    <3>3. n \in SUBSET Connections /\ e \in BOOLEAN
      BY <3>1, <3>2
    <3> QED BY <3>1, <3>2, <3>3
  <2>4. r = [node |-> n, pos |-> pos + 1, err |-> e]
    BY <2>2, <2>3 DEF MakePred, Parsed
  <2>5. r.node = n /\ r.pos = pos + 1 /\ r.err = e
    BY <2>4
  <2>6. Noticed(q, pos, r)
    <3> SUFFICES ASSUME NEW k \in pos .. r.pos - 1, q[k] \in Unknown PROVE r.err
      BY DEF Noticed
    <3>1. k = pos
      BY <1>4, <2>5
    <3> QED BY <2>1, <2>3, <2>5, <3>1
  <2>7. r.node # NoNode
    BY <2>5, NodeType
  <2> QED BY <1>1, <1>3, <2>6, <2>7
<1> QED BY <1>5, <1>6, <1>7

LEMMA NotHeeds ==
  ASSUME NEW q \in Seq(Tokens), NEW pos \in 1 .. Len(q) + 1,
         HeedsBelow(q, 2 * (Len(q) + 1 - pos))
  PROVE  /\ Noticed(q, pos, ParseNot(Parser(q), q, pos))
         /\ ParseNot(Parser(q), q, pos).node = NoNode => Seen(q, ParseNot(Parser(q), q, pos).pos)
<1>1. CASE Peek(q, pos) # "not"
  BY <1>1, PrimaryHeeds DEF ParseNot
<1>2. CASE Peek(q, pos) = "not"
  <2>1. PICK run \in Runs(q) : run = Parser(q)
    BY ParserRecursive
  <2>2. pos <= Len(q) /\ pos + 1 \in 1 .. Len(q) + 1 /\ q[pos] = "not"
    BY <1>2, PeekType
  <2>3. q[pos] \notin Unknown
    BY <2>2, Keywords
  <2>4. PICK child : child = run[<<"not", NothingAt(pos + 1)>>]
    OBVIOUS
  <2>5. /\ <<"not", NothingAt(pos + 1)>> \in Calls(q)
        /\ NothingAt(pos + 1).pos = pos + 1
        /\ Ahead(q)[<<"not", NothingAt(pos + 1)>>] = 2 * (Len(q) + 1 - (pos + 1))
        /\ child \in Results(q)
    BY <2>2, <2>4, NotCall
  <2>6. Heeds(q, <<"not", NothingAt(pos + 1)>>, child)
    <3>1. 2 * (Len(q) + 1 - (pos + 1)) < 2 * (Len(q) + 1 - pos)
      BY <2>2
    <3> QED BY <2>1, <2>4, <2>5, <3>1 DEF HeedsBelow
  <2>7. Noticed(q, pos + 1, child) /\ (child.node = NoNode => Seen(q, child.pos))
    BY <2>5, <2>6 DEF Heeds
  <2>8. Noticed(q, pos, child)
    BY <2>3, <2>7, NoticedBefore
  <2>9. PICK r : r = ParseNot(run, q, pos)
    OBVIOUS
  <2>10. CASE child.node = NoNode
    <3>1. r = child
      BY <1>2, <2>4, <2>9, <2>10 DEF ParseNot
    <3> QED BY <2>1, <2>7, <2>8, <2>9, <3>1
  <2>11. CASE child.node # NoNode
    <3>1. PICK other : other = Connections \ child.node
      OBVIOUS
    <3>2. r = [child EXCEPT !.node = other]
      BY <1>2, <2>4, <2>9, <2>11, <3>1 DEF ParseNot
    <3>3. child = Parsed(child.node, child.pos, child.err)
      BY <2>5, ResultType
    <3>4. r.node = other /\ r.pos = child.pos /\ r.err = child.err
      BY <3>2, <3>3 DEF Parsed
    <3>5. other # NoNode
      BY <3>1, NodeType
    <3>6. Noticed(q, pos, r)
      BY <2>8, <3>4 DEF Noticed
    <3> QED BY <2>1, <2>9, <3>4, <3>5, <3>6
  <2> QED BY <2>10, <2>11
<1> QED BY <1>1, <1>2

(* What was noticed in l and behind it, joined to it or not.               *)
LEMMA JoinedHeeds ==
  ASSUME NEW q \in Seq(Tokens), NEW l \in Results(q), NEW r \in Results(q), NEW node,
         NEW i \in Int, Noticed(q, i, r)
  PROVE  /\ Noticed(q, i, Joined(l, r, node)) /\ Noticed(q, i, Stopped(l, r))
         /\ l.err => Joined(l, r, node).err /\ Stopped(l, r).err
         /\ Joined(l, r, node).pos = r.pos /\ Stopped(l, r).pos = r.pos
         /\ Stopped(l, r).node = l.node
<1>1. PICK e \in BOOLEAN : e = (l.err \/ r.err)
  BY ResultType
<1>2. PICK n : n = IF l.node = NoNode THEN r.node ELSE node
  OBVIOUS
<1>3. PICK j, s : j = Joined(l, r, node) /\ s = Stopped(l, r)
  OBVIOUS
<1>4. j = [node |-> n, pos |-> r.pos, err |-> e] /\ s = [node |-> l.node, pos |-> r.pos, err |-> e]
  BY <1>1, <1>2, <1>3 DEF Joined, Stopped, Parsed
<1>5. /\ j.node = n /\ j.pos = r.pos /\ j.err = e
      /\ s.node = l.node /\ s.pos = r.pos /\ s.err = e
  BY <1>4
<1>6. Noticed(q, i, j) /\ Noticed(q, i, s)
  BY <1>1, <1>5 DEF Noticed
<1> QED BY <1>1, <1>2, <1>3, <1>5, <1>6

LEMMA JoinedNode ==
  ASSUME NEW l, NEW r, NEW node, r.node # NoNode, node # NoNode
  PROVE  Joined(l, r, node).node # NoNode
<1>1. PICK n, e : n = (IF l.node = NoNode THEN r.node ELSE node) /\ e = (l.err \/ r.err)
  OBVIOUS
<1>2. n # NoNode
  BY <1>1
<1>3. Joined(l, r, node) = [node |-> n, pos |-> r.pos, err |-> e]
  BY <1>1 DEF Joined, Parsed
<1> QED BY <1>2, <1>3

LEMMA AndRestHeeds ==
  ASSUME NEW q \in Seq(Tokens), NEW l \in Results(q), l.node = NoNode => Seen(q, l.pos),
         HeedsBelow(q, 2 * (Len(q) + 1 - l.pos) + 1)
  PROVE  /\ Noticed(q, l.pos, AndRest(Parser(q), q, l))
         /\ l.err => AndRest(Parser(q), q, l).err
         /\ Rests(q, AndRest(Parser(q), q, l))
<1>1. l.pos \in 1 .. Len(q) + 1 /\ Len(q) \in Nat /\ l.pos \in Int
  BY ResultType
<1>2. PICK run \in Runs(q) : run = Parser(q)
  BY ParserRecursive
<1>3. PICK a : a = AndRest(run, q, l)
  OBVIOUS
<1>4. CASE Peek(q, l.pos) \in {"", ")", "or"}
  <2>1. a = l
    BY <1>3, <1>4 DEF AndRest
  <2>2. Noticed(q, l.pos, l)
    BY <1>1 DEF Noticed
  <2>3. Rests(q, l)
    <3>1. CASE Peek(q, l.pos) = "or"
      BY <3>1 DEF Rests
    <3>2. CASE Peek(q, l.pos) \in {"", ")"}
      <4>1. Seen(q, l.pos)
        BY <1>1, <3>2, SeenHere
      <4> QED BY <4>1 DEF Rests
    <3> QED BY <1>4, <3>1, <3>2
  <2> QED BY <1>2, <1>3, <2>1, <2>2, <2>3
<1>5. CASE Peek(q, l.pos) \notin {"", ")", "or"}
  <2>1. l.pos <= Len(q) /\ l.pos + 1 \in 1 .. Len(q) + 1 /\ Peek(q, l.pos) = q[l.pos]
    BY <1>1, <1>5, PeekType
  <2>2. PICK from \in 1 .. Len(q) + 1 : from = IF Peek(q, l.pos) = "and" THEN l.pos + 1 ELSE l.pos
    BY <1>1, <2>1
  <2>3. PICK r : r = run[<<"not", NothingAt(from)>>]
    OBVIOUS
  <2>4. /\ <<"not", NothingAt(from)>> \in Calls(q)
        /\ NothingAt(from).pos = from
        /\ Ahead(q)[<<"not", NothingAt(from)>>] = 2 * (Len(q) + 1 - from)
        /\ r \in Results(q)
        /\ r.pos \in from .. Len(q) + 1
        /\ r.node # NoNode => r.pos > from
    BY <2>3, NotCall
  <2>5. from >= l.pos /\ 2 * (Len(q) + 1 - from) < 2 * (Len(q) + 1 - l.pos) + 1
    BY <1>1, <2>2
  <2>6. Heeds(q, <<"not", NothingAt(from)>>, r)
    BY <1>2, <2>3, <2>4, <2>5 DEF HeedsBelow
  <2>7. Noticed(q, from, r) /\ (r.node = NoNode => Seen(q, r.pos))
    BY <2>4, <2>6 DEF Heeds
  <2>8. Noticed(q, l.pos, r)
    <3>1. CASE Peek(q, l.pos) = "and"
      <4>1. q[l.pos] \notin Unknown
        BY <2>1, <3>1, Keywords
      <4>2. from = l.pos + 1
        BY <2>2, <3>1
      <4> QED BY <1>1, <2>7, <4>1, <4>2, NoticedBefore
    <3>2. CASE Peek(q, l.pos) # "and"
      BY <2>2, <2>7, <3>2
    <3> QED BY <3>1, <3>2
  <2>9. CASE r.node = NoNode
    <3>1. a = Stopped(l, r)
      BY <1>3, <1>5, <2>2, <2>3, <2>9 DEF AndRest
    <3>2. Noticed(q, l.pos, a) /\ (l.err => a.err) /\ a.pos = r.pos
      BY <1>1, <2>4, <2>8, <3>1, JoinedHeeds
    <3>3. Rests(q, a)
      BY <2>7, <2>9, <3>2 DEF Rests
    <3> QED BY <1>2, <1>3, <3>2, <3>3
  <2>10. CASE r.node # NoNode
    <3>1. PICK node : node = l.node \cap r.node
      OBVIOUS
    <3>2. PICK j : j = Joined(l, r, node)
      OBVIOUS
    <3>3. a = run[<<"andRest", j>>]
      BY <1>3, <1>5, <2>2, <2>3, <2>10, <3>1, <3>2 DEF AndRest
    <3>4. r.node \in SUBSET Connections /\ node \in SUBSET Connections
      BY <2>4, <2>10, <3>1, ResultType
    <3>5. j \in Results(q) /\ j.pos = r.pos
      BY <2>4, <3>2, <3>4, JoinedForward
    <3>6. Noticed(q, l.pos, j) /\ (l.err => j.err)
      <4>1. Noticed(q, l.pos, Joined(l, r, node)) /\ (l.err => Joined(l, r, node).err)
        BY <1>1, <2>4, <2>8, JoinedHeeds
      <4> QED BY <3>2, <4>1
    <3>7. j.node # NoNode
      BY <2>10, <3>2, <3>4, NodeType, JoinedNode
    <3>8. <<"andRest", j>> \in Calls(q) /\ Ahead(q)[<<"andRest", j>>] = 2 * (Len(q) + 1 - j.pos) + 1
      BY <3>5, LoopCall
    <3>9. 2 * (Len(q) + 1 - j.pos) + 1 < 2 * (Len(q) + 1 - l.pos) + 1 /\ j.pos \in Int
      BY <1>1, <2>4, <2>5, <2>10, <3>5
    <3>10. Heeds(q, <<"andRest", j>>, a)
      BY <1>2, <3>3, <3>8, <3>9 DEF HeedsBelow
    <3>11. Noticed(q, j.pos, a) /\ (j.err => a.err) /\ Rests(q, a)
      BY <3>7, <3>10 DEF Heeds
    <3>12. Noticed(q, l.pos, a)
      BY <1>1, <3>6, <3>9, <3>11, NoticedOn
    <3> QED BY <1>2, <1>3, <3>6, <3>11, <3>12
  <2> QED BY <2>9, <2>10
<1> QED BY <1>4, <1>5

LEMMA OrRestHeeds ==
  ASSUME NEW q \in Seq(Tokens), NEW l \in Results(q), Rests(q, l),
         HeedsBelow(q, 2 * (Len(q) + 1 - l.pos) + 1)
  PROVE  /\ Noticed(q, l.pos, OrRest(Parser(q), q, l))
         /\ l.err => OrRest(Parser(q), q, l).err
         /\ Seen(q, OrRest(Parser(q), q, l).pos)
<1>1. l.pos \in 1 .. Len(q) + 1 /\ Len(q) \in Nat /\ l.pos \in Int
  BY ResultType
<1>2. PICK run \in Runs(q) : run = Parser(q)
  BY ParserRecursive
<1>3. PICK o : o = OrRest(run, q, l)
  OBVIOUS
<1>4. CASE Peek(q, l.pos) # "or"
  <2>1. o = l
    BY <1>3, <1>4 DEF OrRest
  <2>2. Noticed(q, l.pos, l)
    BY <1>1 DEF Noticed
  <2>3. Seen(q, l.pos)
    BY <1>4 DEF Rests
  <2> QED BY <1>2, <1>3, <2>1, <2>2, <2>3
<1>5. CASE Peek(q, l.pos) = "or"
  <2>1. l.pos <= Len(q) /\ l.pos + 1 \in 1 .. Len(q) + 1 /\ q[l.pos] = "or"
    BY <1>1, <1>5, PeekType
  <2>2. PICK r : r = ParseAnd(run, l.pos + 1)
    OBVIOUS
  <2>3. r \in Results(q) /\ r.pos \in l.pos + 1 .. Len(q) + 1
    BY <2>1, <2>2, BothCalls
  <2>4. Noticed(q, l.pos + 1, r) /\ Rests(q, r)
    <3>1. /\ 2 * (Len(q) + 1 - l.pos) + 1 \in Nat
          /\ 2 * (Len(q) + 1 - (l.pos + 1)) + 1 < 2 * (Len(q) + 1 - l.pos) + 1
      BY <1>1, <2>1
    <3> QED BY <1>2, <2>1, <2>2, <3>1, BothHeed
  <2>5. Noticed(q, l.pos, r)
    <3>1. q[l.pos] \notin Unknown
      BY <2>1, Keywords
    <3> QED BY <1>1, <2>4, <3>1, NoticedBefore
  <2>6. CASE r.node = NoNode
    <3>1. o = Stopped(l, r)
      BY <1>3, <1>5, <2>2, <2>6 DEF OrRest
    <3>2. Noticed(q, l.pos, o) /\ (l.err => o.err) /\ o.pos = r.pos
      BY <1>1, <2>3, <2>5, <3>1, JoinedHeeds
    <3>3. Seen(q, r.pos)
      BY <2>4, <2>6 DEF Rests
    <3> QED BY <1>2, <1>3, <3>2, <3>3
  <2>7. CASE r.node # NoNode
    <3>1. PICK either : either = l.node \cup r.node
      OBVIOUS
    <3>2. PICK j : j = Joined(l, r, either)
      OBVIOUS
    <3>3. o = run[<<"orRest", j>>]
      BY <1>3, <1>5, <2>2, <2>7, <3>1, <3>2 DEF OrRest
    <3>4. r.node \in SUBSET Connections /\ l.node \in {NoNode} \cup SUBSET Connections
      BY <2>3, <2>7, ResultType
    <3>5. PICK node \in SUBSET Connections : j = Joined(l, r, node)
      <4>1. PICK node \in SUBSET Connections : l.node # NoNode => node = either
        BY <3>1, <3>4
      <4>2. j = Joined(l, r, node)
        BY <3>2, <4>1 DEF Joined
      <4> QED BY <4>2
    <3>6. j \in Results(q) /\ j.pos = r.pos
      BY <2>3, <3>5, JoinedForward
    <3>7. Noticed(q, l.pos, j) /\ (l.err => j.err)
      <4>1. Noticed(q, l.pos, Joined(l, r, node)) /\ (l.err => Joined(l, r, node).err)
        BY <1>1, <2>3, <2>5, JoinedHeeds
      <4> QED BY <3>5, <4>1
    <3>8. j.node # NoNode
      BY <2>7, <3>5, NodeType, JoinedNode
    <3>9. Rests(q, j)
      BY <2>4, <3>6, <3>8 DEF Rests
    <3>10. <<"orRest", j>> \in Calls(q) /\ Ahead(q)[<<"orRest", j>>] = 2 * (Len(q) + 1 - j.pos) + 1
      BY <3>6, LoopCall
    <3>11. 2 * (Len(q) + 1 - j.pos) + 1 < 2 * (Len(q) + 1 - l.pos) + 1 /\ j.pos \in Int
      BY <1>1, <2>3, <3>6
    <3>12. Heeds(q, <<"orRest", j>>, o)
      BY <1>2, <3>3, <3>10, <3>11 DEF HeedsBelow
    <3>13. Noticed(q, j.pos, o) /\ (j.err => o.err) /\ Seen(q, o.pos)
      BY <3>9, <3>12 DEF Heeds
    <3>14. Noticed(q, l.pos, o)
      BY <1>1, <3>7, <3>11, <3>13, NoticedOn
    <3> QED BY <1>2, <1>3, <3>7, <3>13, <3>14
  <2> QED BY <2>6, <2>7
<1> QED BY <1>4, <1>5

(* Each answer of the parser heeds, if those nearer to the end do; so all  *)
(* of them do.                                                             *)
LEMMA AllHeed ==
  ASSUME NEW q \in Seq(Tokens)
  PROVE  \A c \in Calls(q) : Heeds(q, c, Parser(q)[c])
<1> DEFINE Careless == {n \in Nat : \E c \in Calls(q) : n = Ahead(q)[c] /\ ~Heeds(q, c, Parser(q)[c])}
<1>1. \A c \in Calls(q) : Ahead(q)[c] \in Nat
  <2> TAKE c \in Calls(q)
  <2>1. c[2] \in Results(q)
    BY DEF Calls
  <2>2. PICK p \in 1 .. Len(q) + 1 : p = c[2].pos
    BY <2>1, ResultType
  <2>3. Len(q) \in Nat /\ 2 * (Len(q) + 1 - p) \in Nat /\ 2 * (Len(q) + 1 - p) + 1 \in Nat
    BY <2>2
  <2>4. Ahead(q)[c] = 2 * (Len(q) + 1 - p) + (IF c[1] = "not" THEN 0 ELSE 1)
    BY <2>2 DEF Ahead
  <2> QED BY <2>3, <2>4
<1>2. ASSUME NEW c \in Calls(q), HeedsBelow(q, Ahead(q)[c])
      PROVE  Heeds(q, c, Parser(q)[c])
  <2>1. PICK l \in Results(q) : l = c[2]
    BY DEF Calls
  <2>2. l.pos \in 1 .. Len(q) + 1 /\ Len(q) \in Nat
    BY ResultType
  <2>3. c[1] \in {"not", "andRest", "orRest"} /\ c = <<c[1], l>>
    BY <2>1 DEF Calls
  <2>4. Ahead(q)[c] = 2 * (Len(q) + 1 - l.pos) + (IF c[1] = "not" THEN 0 ELSE 1)
    BY <2>1 DEF Ahead
  <2>5. CASE c[1] = "not"
    <3>1. Ahead(q)[c] = 2 * (Len(q) + 1 - l.pos)
      BY <2>2, <2>4, <2>5
    <3>2. Parser(q)[c] = ParseNot(Parser(q), q, l.pos)
      BY <2>1, <2>5, ParserRecursive DEF Answer
    <3>3. /\ Noticed(q, l.pos, Parser(q)[c])
          /\ Parser(q)[c].node = NoNode => Seen(q, Parser(q)[c].pos)
      BY <1>2, <2>2, <3>1, <3>2, NotHeeds
    <3> QED BY <2>1, <2>5, <3>3 DEF Heeds
  <2>6. CASE c[1] = "andRest"
    <3>1. Ahead(q)[c] = 2 * (Len(q) + 1 - l.pos) + 1
      BY <2>2, <2>4, <2>6
    <3>2. Parser(q)[c] = AndRest(Parser(q), q, l)
      <4>1. c = <<"andRest", l>>
        BY <2>3, <2>6
      <4> QED BY <4>1, LoopUnfold
    <3>3. (l.node = NoNode => Seen(q, l.pos)) =>
            /\ Noticed(q, l.pos, Parser(q)[c])
            /\ l.err => Parser(q)[c].err
            /\ Rests(q, Parser(q)[c])
      BY <1>2, <3>1, <3>2, AndRestHeeds
    <3> QED BY <2>1, <2>6, <3>3 DEF Heeds
  <2>7. CASE c[1] = "orRest"
    <3>1. Ahead(q)[c] = 2 * (Len(q) + 1 - l.pos) + 1
      BY <2>2, <2>4, <2>7
    <3>2. Parser(q)[c] = OrRest(Parser(q), q, l)
      <4>1. c = <<"orRest", l>>
        BY <2>3, <2>7
      <4> QED BY <4>1, LoopUnfold
    <3>3. Rests(q, l) =>
            /\ Noticed(q, l.pos, Parser(q)[c])
            /\ l.err => Parser(q)[c].err
            /\ Seen(q, Parser(q)[c].pos)
      BY <1>2, <3>1, <3>2, OrRestHeeds
    <3> QED BY <2>1, <2>7, <3>3 DEF Heeds
  <2> QED BY <2>3, <2>5, <2>6, <2>7
<1>3. ASSUME Careless # {}
      PROVE  FALSE
  <2>1. PICK n \in Careless : \A k \in Careless : n <= k
    BY <1>3, Least
  <2>2. PICK c \in Calls(q) : n = Ahead(q)[c] /\ ~Heeds(q, c, Parser(q)[c])
    BY <2>1
  <2>3. HeedsBelow(q, n)
    <3>1. ASSUME NEW d \in Calls(q), Ahead(q)[d] < n
          PROVE  Heeds(q, d, Parser(q)[d])
      <4>1. PICK k \in Nat : k = Ahead(q)[d]
        BY <1>1
      <4>2. k \notin Careless
        BY <2>1, <3>1, <4>1
      <4> QED BY <4>1, <4>2
    <3> QED BY <3>1 DEF HeedsBelow
  <2> QED BY <1>2, <2>2, <2>3
<1>4. \A c \in Calls(q) : Ahead(q)[c] \notin Careless
  BY <1>3
<1> QED BY <1>1, <1>4

(* So an unknown name in a query that is accepted is behind a ")".         *)
LEMMA UnknownIsHidden ==
  ASSUME NEW q \in Seq(Tokens), SetQuery(q) # NoNode,
         NEW i \in DOMAIN q, q[i] \in Unknown
  PROVE  \E k \in 1 .. i - 1 : q[k] = ")"
<1>1. Len(q) \in Nat /\ 1 \in 1 .. Len(q) + 1 /\ i \in 1 .. Len(q)
  OBVIOUS
<1>2. PICK m \in Nat : m = 2 * (Len(q) + 1 - 1) + 2
  BY <1>1
<1>3. HeedsBelow(q, m)
  BY AllHeed DEF HeedsBelow
<1>4. 2 * (Len(q) + 1 - 1) + 1 < m
  BY <1>1, <1>2
<1>5. PICK r : r = Parse(q)
  OBVIOUS
<1>6. Noticed(q, 1, r) /\ Seen(q, r.pos)
  BY <1>1, <1>3, <1>4, <1>5, BothHeed DEF Parse
<1>7. r \in Results(q)
  BY <1>1, <1>5, ParserRecursive, BothCalls DEF Parse
<1>8. PICK p \in 1 .. Len(q) + 1 : p = r.pos
  BY <1>7, ResultType
<1>9. ~r.err
  BY <1>5 DEF SetQuery
<1>10. i >= p
  <2>1. i \notin 1 .. r.pos - 1
    BY <1>6, <1>9 DEF Noticed
  <2> QED BY <1>1, <1>8, <2>1
<1>11. PICK k \in 1 .. p : q[k] = ")"
  BY <1>1, <1>6, <1>8, <1>10 DEF Seen
<1>12. k # i
  BY <1>11, Keywords
<1> QED BY <1>1, <1>8, <1>10, <1>11, <1>12

(* SelectsWhatGrammarSays, of any text.                                    *)
SelectsWhatGrammarMeans(q) ==
  /\ Means(q) # {} =>
       IF Names(q) \cap Unknown = {} THEN Means(q) = {SetQuery(q)}
                                     ELSE SetQuery(q) = NoNode
  /\ SetQuery(q) # NoNode =>
       \A i \in DOMAIN q :
         q[i] \in Unknown => \E k \in 1 .. i - 1 : q[k] = ")"

(* It holds of every text.                                                 *)
LEMMA EveryTextIsSound ==
  ASSUME NEW q \in Seq(Tokens)
  PROVE  SelectsWhatGrammarMeans(q)
<1>1. ASSUME NEW m \in Means(q)
      PROVE  IF Names(q) \cap Unknown = {} THEN m = SetQuery(q) ELSE SetQuery(q) = NoNode
  <2>1. Len(q) \in Nat /\ 1 \in 1 .. Len(q) + 1 /\ Len(q) \in 0 .. Len(q) /\ DOMAIN q = 1 .. Len(q)
    OBVIOUS
  <2>2. m \in SUBSET Connections /\ Parse(q) = Read(q, 1, Len(q), m)
    BY ParseMeans
  <2>3. Parse(q).node = m /\ m # NoNode /\ Parse(q).err = Misnamed(q, 1, Len(q))
    <3>1. PICK n \in 0 .. Len(q) : n = Len(q)
      BY <2>1
    <3>2. /\ Read(q, 1, n, m).node = m /\ m # NoNode
          /\ Read(q, 1, n, m).err = Misnamed(q, 1, n)
      BY <2>1, <2>2, ReadType
    <3> QED BY <2>2, <3>1, <3>2
  <2>4. Misnamed(q, 1, Len(q)) <=> Names(q) \cap Unknown # {}
    BY <2>1 DEF Misnamed, Names
  <2> QED BY <2>3, <2>4 DEF SetQuery
<1>2. CASE Names(q) \cap Unknown = {}
  <2>1. \A m \in Means(q) : m = SetQuery(q)
    BY <1>1, <1>2
  <2> QED BY <1>2, <2>1, UnknownIsHidden DEF SelectsWhatGrammarMeans
<1>3. CASE Names(q) \cap Unknown # {}
  <2>1. \A m \in Means(q) : SetQuery(q) = NoNode
    BY <1>1, <1>3
  <2> QED BY <1>3, <2>1, UnknownIsHidden DEF SelectsWhatGrammarMeans
<1> QED BY <1>2, <1>3

(* A query of the grammar, however long, selects the connections the       *)
(* grammar says, which is one set: "not" binds tighter than "and", written *)
(* or implied, and "and" tighter than "or". One with an unknown name is    *)
(* rejected; and so is any text with an unknown name that no ")" precedes. *)
THEOREM GrammarSafety == FilterSpec => []SelectsWhatGrammarSays
<1>1. FilterInit => text \in Seq(Tokens)
  BY DEF FilterInit
<1>2. text \in Seq(Tokens) /\ [Type]_text => (text \in Seq(Tokens))'
  <2> SUFFICES ASSUME text \in Seq(Tokens), [Type]_text PROVE text' \in Seq(Tokens)
    OBVIOUS
  <2>1. CASE Type
    BY <2>1 DEF Type
  <2>2. CASE UNCHANGED text
    BY <2>2
  <2> QED BY <2>1, <2>2
<1>3. text \in Seq(Tokens) => SelectsWhatGrammarSays
  BY EveryTextIsSound DEF SelectsWhatGrammarMeans, SelectsWhatGrammarSays
<1> QED BY <1>1, <1>2, <1>3, PTL DEF FilterSpec
=============================================================================
