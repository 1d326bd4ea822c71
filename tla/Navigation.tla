----------------------------- MODULE Navigation -----------------------------
(***************************************************************************)
(* Getting around the UI (main.go): the tabs, the filter prompt, the help  *)
(* panel, the table of the Live tab and the connection that Detail and     *)
(* Socket inspect.  Every message ends with a resize of the table, for     *)
(* the lines around it come and go with the filter and the pause.          *)
(*                                                                         *)
(* Which snapshot is in view is TimeTravel's subject: here a poll, a pause *)
(* or a step in time may bring any.  So is what the Findings tab lists:    *)
(* Enter there may ask for any filter.  A text in the prompt is one of     *)
(* Queries, empty, or one that Filter.SetQuery rejects.                    *)
(***************************************************************************)
EXTENDS Table

CONSTANTS
  Snapshots,      \* snapshots of the connections
  Heights,        \* heights of the terminal
  TabBar,         \* the tabs, in their order
  Rejected,       \* texts that SetQuery rejects
  Blank           \* queries without a term, as "()": accepted, and parsed to nil

ASSUME NavigationAssumption ==
  /\ \A snap \in Snapshots :
       /\ snap \in [1 .. SortModes -> Seq(Conns)]
       /\ \A m, n \in 1 .. SortModes :
            {snap[m][i] : i \in DOMAIN snap[m]} = {snap[n][i] : i \in DOMAIN snap[n]}
  /\ None \notin Snapshots
  /\ Heights \subseteq Nat
  /\ TabBar \in Seq({"findings", "live", "detail", "socket", "overview", "top", "perf",
                     "events", "system"})
  /\ Rejected \cap (Queries \cup {None}) = {}
  /\ Blank \subseteq Queries
  /\ \A q \in Blank : Selects[q] = Conns

VARIABLES
  height,         \* AppModel.height
  table,          \* AppModel.table
  filter,         \* AppModel.filter
  paused,         \* AppModel.paused
  tab,            \* AppModel.tab
  prompt,         \* AppModel.filterMode, with filterBuf, filterErr, filterPrevTab
  showHelp,       \* AppModel.showHelp
  selectedKey     \* AppModel.selectedKey

vars == <<height, table, filter, paused, tab, prompt, showHelp, selectedKey>>

Tabs == {TabBar[i] : i \in DOMAIN TabBar}

(* What a closed prompt remembers is never read again. *)
Closed == [open |-> FALSE, text |-> None, err |-> FALSE, prevTab |-> "findings"]

-----------------------------------------------------------------------------
(* Layout.                                                                 *)

(* Filter.IsActive: something was parsed. *)
IsActive(f) == f.query \notin Blank \cup {None}

(* contentHeightFor(ViewLive): the lines left by the header, the filter    *)
(* bar, the scrub bar and the two footers.                                 *)
ContentHeight(h, f, p) ==
  LET chrome == 6 + (IF IsActive(f) THEN 1 ELSE 0) + (IF p THEN 1 ELSE 0)
  IN  IF h - chrome < 1 THEN 1 ELSE h - chrome

(* Update: whatever the handler made of the table `t` is refitted. *)
Refit(t) == table' = SetSize(t, ContentHeight(height', filter', paused'))

(* The height of the table's content: two lines of header, the rows of the *)
(* page, and up to two lines of signals.                                   *)
Drawn ==
  LET n     == Len(Rows(table, filter))
      start == table.page * table.pageSize
  IN  2 + (IF n - start < table.pageSize THEN n - start ELSE table.pageSize) + 2

(* Whether the line of the cursor survives clipToHeight. *)
CursorDrawn ==
  LET ch == ContentHeight(height, filter, paused)
  IN  /\ table.cursor < table.pageSize
      /\ 3 + table.cursor <= IF Drawn <= ch THEN ch ELSE ch - 1

-----------------------------------------------------------------------------

Init ==
  /\ height = 0
  /\ table = NewTable
  /\ filter = [query |-> None, hideListen |-> TRUE]
  /\ paused = FALSE
  /\ tab = "findings"
  /\ prompt = Closed
  /\ showHelp = FALSE
  /\ selectedKey = None

(* WindowSizeMsg. *)
Resize ==
  /\ \E h \in Heights : height' = h
  /\ UNCHANGED <<filter, paused, tab, prompt, showHelp, selectedKey>>
  /\ Refit(table)

(* syncTable: the table is fitted, and filled when the snapshot in view is *)
(* another one.                                                            *)
SyncTable ==
  LET fitted == SetSize(table, ContentHeight(height', filter', paused'))
  IN  \/ Refit(fitted)
      \/ \E snap \in Snapshots : Refit(SetConnections(fitted, filter', snap))

(* A poll that had data; Space, [ ] { } of the main keys. *)
PollResult ==
  /\ UNCHANGED <<height, filter, paused, tab, prompt, showHelp, selectedKey>>
  /\ SyncTable

MainKey == ~prompt.open

(* Keys that the help panel blocks. *)
OpenKey == MainKey /\ ~showHelp

Pause ==
  /\ OpenKey
  /\ paused' \in BOOLEAN
  /\ UNCHANGED <<height, filter, tab, prompt, showHelp, selectedKey>>
  /\ SyncTable

ToggleHelp ==
  /\ MainKey
  /\ showHelp' = ~showHelp
  /\ UNCHANGED <<height, filter, paused, tab, prompt, selectedKey>>
  /\ Refit(table)

(* 1-9, Tab and Shift-Tab. *)
SwitchTab ==
  /\ MainKey
  /\ \E t \in Tabs : tab' = t
  /\ UNCHANGED <<height, filter, paused, prompt, showHelp, selectedKey>>
  /\ Refit(table)

(* Enter on the Findings tab, openFinding: Live, filtered to the finding's *)
(* sockets.  (A finding without a filter, or whose filter is rejected,     *)
(* only says so.)                                                          *)
OpenFinding ==
  /\ OpenKey
  /\ tab = "findings"
  /\ \E q \in Queries, showListen \in BOOLEAN :
       filter' = [query      |-> q,
                  hideListen |-> IF showListen THEN FALSE ELSE filter.hideListen]
  /\ tab' = "live"
  /\ UNCHANGED <<height, paused, prompt, showHelp, selectedKey>>
  /\ Refit(InvalidateCache(table, filter'))

(* Enter on the Live tab. *)
OpenDetail ==
  /\ OpenKey
  /\ tab = "live"
  /\ selectedKey' = IF Selected(table, filter) = None
                      THEN selectedKey ELSE KeyOf[Selected(table, filter)]
  /\ tab' = "detail"
  /\ UNCHANGED <<height, filter, paused, prompt, showHelp>>
  /\ Refit(Cached(table, filter))

(* Esc: leaves Detail and Socket, else clears the filter, else closes the  *)
(* help.                                                                   *)
Escape ==
  /\ MainKey
  /\ UNCHANGED <<height, paused, prompt>>
  /\ \/ /\ tab \in {"detail", "socket"}
        /\ selectedKey' = None
        /\ tab' = "live"
        /\ UNCHANGED <<filter, showHelp>>
        /\ Refit(table)
     \/ /\ tab \notin {"detail", "socket"}
        /\ IsActive(filter)
        /\ filter' = [filter EXCEPT !.query = None]
        /\ UNCHANGED <<tab, showHelp, selectedKey>>
        /\ Refit(InvalidateCache(table, filter'))
     \/ /\ tab \notin {"detail", "socket"}
        /\ ~IsActive(filter)
        /\ showHelp' = FALSE
        /\ UNCHANGED <<filter, tab, selectedKey>>
        /\ Refit(table)

(* syncSelectedKey: Detail and Socket inspect what the cursor moved to. *)
SyncSelectedKey(t) ==
  selectedKey' = IF tab \in {"detail", "socket"} /\ Selected(t, filter) # None
                   THEN KeyOf[Selected(t, filter)] ELSE selectedKey

(* j k g G where they move the table: on all but two tabs, also those that *)
(* do not show it.                                                         *)
Move ==
  /\ OpenKey
  /\ tab \notin {"findings", "events"}
  /\ UNCHANGED <<height, filter, paused, tab, prompt, showHelp>>
  /\ \E moved \in {MoveNext(table, filter), MovePrev(table, filter),
                   MoveFirst(table, filter), MoveLast(table, filter)} :
       /\ SyncSelectedKey(moved)
       /\ Refit(moved)

(* h. *)
NextSort ==
  /\ OpenKey
  /\ UNCHANGED <<height, filter, paused, tab, prompt, showHelp, selectedKey>>
  /\ Refit(CycleSort(table, filter))

(* L. *)
ToggleListen ==
  /\ MainKey
  /\ filter' = [filter EXCEPT !.hideListen = ~@]
  /\ UNCHANGED <<height, paused, tab, prompt, showHelp, selectedKey>>
  /\ Refit(InvalidateCache(table, filter'))

-----------------------------------------------------------------------------
(* The filter prompt.                                                      *)

(* / *)
OpenPrompt ==
  /\ MainKey
  /\ prompt' = [open |-> TRUE, text |-> filter.query, err |-> prompt.err, prevTab |-> tab]
  /\ tab' = "filter"
  /\ UNCHANGED <<height, filter, paused, showHelp, selectedKey>>
  /\ Refit(table)

(* A key that edits the text, or moves in it. *)
Edit ==
  /\ prompt.open
  /\ \E text \in Queries \cup Rejected \cup {None} :
       prompt' = [prompt EXCEPT !.text = text, !.err = FALSE]
  /\ UNCHANGED <<height, filter, paused, tab, showHelp, selectedKey>>
  /\ Refit(table)

RestoreTab == IF prompt.prevTab = "filter" THEN "live" ELSE prompt.prevTab

(* Esc. *)
Cancel ==
  /\ prompt.open
  /\ prompt' = Closed
  /\ tab' = RestoreTab
  /\ UNCHANGED <<height, filter, paused, showHelp, selectedKey>>
  /\ Refit(table)

(* Mutant: SetQuery drops the old expression before it parses the new one. *)
ApplyClearing ==
  /\ prompt.open
  /\ UNCHANGED <<height, paused, showHelp, selectedKey>>
  /\ IF prompt.text \in Rejected
       THEN /\ prompt' = [prompt EXCEPT !.err = TRUE]
            /\ filter' = [filter EXCEPT !.query = None]
            /\ UNCHANGED tab
            /\ Refit(table)
       ELSE /\ filter' = [filter EXCEPT !.query = prompt.text]
            /\ prompt' = Closed
            /\ tab' = RestoreTab
            /\ Refit(InvalidateCache(table, filter'))

(* Enter: a query that is rejected keeps the prompt open. *)
Apply ==
  /\ prompt.open
  /\ UNCHANGED <<height, paused, showHelp, selectedKey>>
  /\ IF prompt.text \in Rejected
       THEN /\ prompt' = [prompt EXCEPT !.err = TRUE]
            /\ UNCHANGED <<filter, tab>>
            /\ Refit(table)
       ELSE /\ filter' = [filter EXCEPT !.query = prompt.text]
            /\ prompt' = Closed
            /\ tab' = RestoreTab
            /\ Refit(InvalidateCache(table, filter'))

Next ==
  \/ Resize \/ PollResult
  \/ Pause \/ ToggleHelp \/ SwitchTab \/ OpenFinding \/ OpenDetail \/ Escape
  \/ Move \/ NextSort \/ ToggleListen
  \/ OpenPrompt \/ Edit \/ Cancel \/ Apply

Spec == Init /\ [][Next]_vars

-----------------------------------------------------------------------------
(* Properties.                                                             *)

TheRows == Rows(table, filter)

(* The table never shows rows of an earlier poll, filter or sort: the      *)
(* cached rows are those a fresh getFiltered would return.                 *)
RowsAreCurrent == TheRows = Filtered(table, filter)

(* The highlighted row is the selected connection, so that Enter, and the  *)
(* signals under the table, are about the row the user sees highlighted.   *)
HighlightIsSelection ==
  TheRows # <<>> =>
    /\ Selected(table, filter) # None
    /\ KeyOf[Selected(table, filter)] = table.selKey

(* The selection stays on its connection when the rows change under it, by *)
(* a poll, a filter, a sort or a resize, as long as it is among them; when *)
(* it is gone the highlight stays where it was, or at the end.             *)
SelectionFollowsConnection ==
  [][LET rows == TheRows'
     IN  rows # TheRows /\ rows # <<>> =>
           IF \E i \in DOMAIN rows : KeyOf[rows[i]] = table.selKey
             THEN table'.selKey = table.selKey
             ELSE Pos(table') = IF Pos(table) < Len(rows) THEN Pos(table) ELSE Len(rows) - 1]_vars

(* The selected row is drawn: it is on the page the table shows, and the   *)
(* page is not taller than the lines the frame leaves to it, unless the    *)
(* terminal leaves less than a header and one row.                         *)
CursorStaysVisible ==
  TheRows # <<>> /\ ContentHeight(height, filter, paused) >= 4 => CursorDrawn

(* The prompt is open just while its tab is shown, and it shows an error   *)
(* for a rejected text and for no other.                                   *)
PromptWithTab ==
  /\ prompt.open <=> tab = "filter"
  /\ prompt.err => prompt.open /\ prompt.text \in Rejected

(* The prompt and its tab come and go together, so the user is never left  *)
(* on the filter view without an input box (the comment of restoreTab);    *)
(* and from / to the Enter that closes the prompt the filter stays as it   *)
(* was, whatever is typed, rejected or abandoned and whatever else happens *)
(* meanwhile: it changes only to an accepted query, with LISTEN sockets    *)
(* hidden or shown as before (the comment of SetQuery).                    *)
PromptOwnsItsTab ==
  /\ []PromptWithTab
  /\ [][prompt.open /\ filter' # filter =>
          /\ ~prompt'.open
          /\ prompt.text \notin Rejected
          /\ filter' = [filter EXCEPT !.query = prompt.text]]_vars
=============================================================================
