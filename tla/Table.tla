------------------------------- MODULE Table -------------------------------
(***************************************************************************)
(* TableModel of ui/table.go: the rows of the Live tab, the cursor on them *)
(* and the selected connection.  A method is an operator from the table,   *)
(* and the filter it shares with the app, to the table it leaves behind.   *)
(*                                                                         *)
(* A snapshot gives, for every sort mode, the order that mode puts its     *)
(* connections in: it depends on their data, and may be any.               *)
(***************************************************************************)
EXTENDS Integers, Sequences, FiniteSets

CONSTANTS
  Conns,          \* connections
  KeyOf,          \* KeyOf[c]: the key of a connection; two may share one
  Listening,      \* the connections in state LISTEN
  Queries,        \* filter expressions
  Selects,        \* Selects[q]: the connections that match q
  SortModes,      \* how many sort modes there are
  None            \* nil; the empty query, the empty key

ASSUME TableAssumption ==
  /\ KeyOf \in [Conns -> {KeyOf[c] : c \in Conns}]
  /\ Listening \subseteq Conns
  /\ Selects \in [Queries -> SUBSET Conns]
  /\ SortModes \in Nat \ {0}
  /\ None \notin Queries
  /\ \A c \in Conns : KeyOf[c] # None
  /\ None \notin Conns
  /\ None \notin Seq(Conns)

AllKeys == {KeyOf[c] : c \in Conns}

Chrome == 4       \* tableChromeLines

(* NewTableModel: pages of twenty rows until the first resize. *)
NewTable ==
  [snap |-> None, cached |-> None, sort |-> 1, cursor |-> 0, page |-> 0,
   pageSize |-> 20, selKey |-> None]

-----------------------------------------------------------------------------
(* Rows.                                                                   *)

(* Filter.Matches, on an expression that was parsed. *)
Matches(f, c) ==
  /\ f.hideListen => c \notin Listening
  /\ f.query # None => c \in Selects[f.query]

(* The connections that pass the filter, sorted. *)
Filtered(t, f) ==
  IF t.snap = None
    THEN <<>>
    ELSE LET conns == t.snap[t.sort]
             kept[n \in 0 .. Len(conns)] ==
               IF n = 0 THEN <<>>
               ELSE IF Matches(f, conns[n]) THEN Append(kept[n - 1], conns[n]) ELSE kept[n - 1]
         IN  kept[Len(conns)]

(* getFiltered returns the rows ... *)
Rows(t, f) == IF t.cached # None THEN t.cached ELSE Filtered(t, f)

(* ... and caches them; an empty slice is nil, and is not a cached result. *)
Cached(t, f) ==
  LET rows == Filtered(t, f)
  IN  IF t.cached # None \/ rows = <<>> THEN t ELSE [t EXCEPT !.cached = rows]

(* The absolute position of the cursor. *)
Pos(t) == t.page * t.pageSize + t.cursor

(* GetSelected. *)
Selected(t, f) == IF Pos(t) < Len(Rows(t, f)) THEN Rows(t, f)[Pos(t) + 1] ELSE None

-----------------------------------------------------------------------------
(* Moving the cursor.                                                      *)

(* Mutant: the cursor is set without the page. *)
AtCursorOnly(t, pos) == [t EXCEPT !.cursor = pos % t.pageSize]

At(t, pos) == [t EXCEPT !.page = pos \div t.pageSize, !.cursor = pos % t.pageSize]

(* syncSelKey: what is under the cursor, if anything, is selected. *)
SyncSelKey(t, f) ==
  LET u == Cached(t, f)
  IN  IF Selected(u, f) = None THEN u ELSE [u EXCEPT !.selKey = KeyOf[Selected(u, f)]]

(* setPos. *)
SetPos(t, f, pos) == SyncSelKey(At(t, pos), f)

(* SetCursor: the position is clamped to the rows. *)
SetCursor(t, f, pos) ==
  LET n == Len(Rows(t, f))
  IN  IF n = 0
        THEN [t EXCEPT !.page = 0, !.cursor = 0]
        ELSE SetPos(t, f, IF pos < 0 THEN 0 ELSE IF pos >= n THEN n - 1 ELSE pos)

(* Next: one row down, over the page's end, up to the last row. *)
MoveNext(t, f) ==
  LET u == Cached(t, f)
  IN  IF Pos(u) >= Len(Rows(u, f)) - 1
        THEN u
        ELSE IF u.cursor < u.pageSize - 1
               THEN SyncSelKey([u EXCEPT !.cursor = @ + 1], f)
               ELSE SyncSelKey([u EXCEPT !.page = @ + 1, !.cursor = 0], f)

(* Prev: one row up. *)
MovePrev(t, f) ==
  IF t.cursor > 0 THEN SyncSelKey([t EXCEPT !.cursor = @ - 1], f)
  ELSE IF t.page > 0 THEN SyncSelKey([t EXCEPT !.page = @ - 1, !.cursor = t.pageSize - 1], f)
  ELSE SyncSelKey(t, f)

MoveFirst(t, f) == SyncSelKey([t EXCEPT !.page = 0, !.cursor = 0], f)

MoveLast(t, f) ==
  IF Rows(t, f) = <<>> THEN t ELSE SetCursor(Cached(t, f), f, Len(Rows(t, f)) - 1)

-----------------------------------------------------------------------------
(* Changing the rows.                                                      *)

(* Mutant: the cursor stays where it is. *)
ReselectInPlace(t, f) == SetCursor(Cached(t, f), f, Pos(t))

(* reselect: the cursor goes to the first row with the selected key; when  *)
(* it has none the cursor stays where it is, clamped, and selects that row. *)
Reselect(t, f) ==
  LET u    == Cached(t, f)
      rows == Rows(u, f)
      same == {i \in DOMAIN rows : KeyOf[rows[i]] = u.selKey}
  IN  IF same = {}
        THEN SetCursor(u, f, Pos(u))
        ELSE SetPos(u, f, (CHOOSE i \in same : \A j \in same : i <= j) - 1)

(* Mutant: the cached rows survive a change of the filter. *)
InvalidateCacheKept(t, f) == Reselect(t, f)

(* InvalidateCache. *)
InvalidateCache(t, f) == Reselect([t EXCEPT !.cached = None], f)

(* SetConnections. *)
SetConnections(t, f, snap) == Reselect([t EXCEPT !.snap = snap, !.cached = None], f)

(* CycleSort. *)
CycleSort(t, f) ==
  Reselect([t EXCEPT !.sort = (@ % SortModes) + 1, !.cached = None], f)

(* Mutant: the chrome is forgotten. *)
SetSizeWithoutChrome(t, height) ==
  At([t EXCEPT !.pageSize = IF height < 1 THEN 1 ELSE height], Pos(t))

(* SetSize: as many rows as fit in `height` lines, the position kept. *)
SetSize(t, height) ==
  At([t EXCEPT !.pageSize = IF height - Chrome < 1 THEN 1 ELSE height - Chrome], Pos(t))
=============================================================================
