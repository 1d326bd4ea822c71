----------------------------- MODULE TimeTravel -----------------------------
(***************************************************************************)
(* The update loop of the TUI (main.go) over a session: the poll loop, the *)
(* pause and scrub keys that freeze a moment of the history, the table and *)
(* the findings that have to show that moment, the findings selection, the *)
(* background export, recording, and replay of a recording.                *)
(*                                                                         *)
(* bubbletea runs commands (a poll, a tick, an export) on goroutines of    *)
(* their own and hands their messages to one update goroutine: a handler   *)
(* is one step, a command's end another.  The tabs, the table's cursor and *)
(* the filter prompt are left out: a key of the Findings tab may come at   *)
(* any time.                                                               *)
(***************************************************************************)
EXTENDS Integers, Sequences, FiniteSets

CONSTANTS
  BufferSize, Ids, HostId, GraceMisses, SlotWindow, SlotMin, Steps, Growth,
  MaxPolls, None, \* as in Session
  Answers,        \* what ss may answer: whether it failed, and what it listed
  RuleOrder,      \* the finding IDs in the order of the rules
  Modes           \* how sstui was started: "record" for --record, "replay",
                  \* or "live" for neither

VARIABLES
  now, counter, sysCur, sysPrev, sysHist, buf, history, seen, active, timeline,
  taken, reads, past,             \* the session
  mode,           \* the one of Modes
  phase,          \* "loading" a recording, "running", "quitting" or "exited"
  poll,           \* the poll loop: "running", "arrived", "waiting" or "off"
  msg,            \* the pollResultMsg that arrived
  rec,            \* whether AppModel.rec is set
  pollRec,        \* whether the poll under way was given the recorder
  closed,         \* Recorder.closed
  written,        \* how many polls the recording holds
  paused,         \* AppModel.paused
  scrubOffset,    \* AppModel.scrubOffset
  tableSnap,      \* AppModel.tableSnap
  findingSel,     \* AppModel.findingSel
  findingSelID,   \* AppModel.findingSelID; None is ""
  exporting,      \* AppModel.exporting
  exports         \* export goroutines that have not reported yet

sessionVars == <<now, counter, sysCur, sysPrev, sysHist, buf, history, seen,
                 active, timeline, taken, reads, past>>
recVars     == <<mode, rec, closed, written>>
viewVars    == <<paused, scrubOffset, tableSnap, findingSel, findingSelID>>
pollVars    == <<poll, msg, pollRec>>
exportVars  == <<exporting, exports>>

vars == <<sessionVars, phase, pollVars, recVars, viewVars, exportVars>>

S == INSTANCE Session

ASSUME TimeTravelAssumption ==
  /\ S!SessionAssumption
  /\ None \notin S!Snapshot
  /\ Answers \subseteq [err : BOOLEAN, listed : S!Listings]
  /\ Modes \subseteq {"live", "record", "replay"}
  /\ RuleOrder \in Seq(Ids \cup {HostId})
  /\ Ids \cup {HostId} \subseteq {RuleOrder[i] : i \in DOMAIN RuleOrder}
  /\ None \notin Ids \cup {HostId}

-----------------------------------------------------------------------------
(* What is on screen.                                                      *)

(* The snapshot `offset` polls back, None out of range. *)
SnapshotFromEnd(offset) == IF offset < Len(buf) THEN buf[Len(buf) - offset] ELSE None

(* The frozen snapshot while paused, else the latest. *)
ViewSnapshot ==
  IF paused /\ SnapshotFromEnd(scrubOffset) # None
    THEN SnapshotFromEnd(scrubOffset)
    ELSE SnapshotFromEnd(0)

(* Session.Report, empty before the first analysis. *)
NewestReport == IF history = <<>> THEN S!NoProblems ELSE history[Len(history)].found

(* Mutant: the Findings tab does not follow the scrub. *)
ShownReportNewest == NewestReport

(* The findings of the moment on screen. *)
ShownReport ==
  IF paused /\ ViewSnapshot # None /\ S!HasReport(ViewSnapshot.at)
    THEN S!ReportFor(ViewSnapshot.at).found
    ELSE NewestReport

(* The findings in the order the tab lists them: by severity, then in the  *)
(* order of the rules.  (How many sockets each is about is left out.)      *)
Ranked ==
  LET rule(id) == CHOOSE i \in DOMAIN RuleOrder : RuleOrder[i] = id
      before(found, x, y) == \/ found[x] > found[y]
                             \/ found[x] = found[y] /\ rule(x) < rule(y)
  IN  [found \in S!Found |->
         CHOOSE s \in [1 .. Cardinality(DOMAIN found) -> DOMAIN found] :
           \A i, j \in DOMAIN s : i < j => before(found, s[i], s[j])]

(* The time of the moment each tab shows; Events lists the whole buffer    *)
(* and Detail and Socket follow one connection.                            *)
ShownAt ==
  [findings |-> IF paused /\ S!HasReport(ViewSnapshot.at)
                  THEN ViewSnapshot.at
                  ELSE history[Len(history)].at,
   live     |-> tableSnap.at,
   overview |-> SnapshotFromEnd(0).at,
   top      |-> SnapshotFromEnd(0).at,
   perf     |-> SnapshotFromEnd(0).at]

-----------------------------------------------------------------------------
(* Helpers of the handlers; each sets the variables it names.              *)

Clamp(i, n) == IF n <= 0 \/ i < 0 THEN 0 ELSE IF i > n - 1 THEN n - 1 ELSE i

(* Mutant: the table is left alone while paused. *)
SyncTablePaused ==
  tableSnap' = IF ViewSnapshot' = None \/ paused' THEN tableSnap ELSE ViewSnapshot'

(* syncTable: the table holds the snapshot in view. *)
SyncTable == tableSnap' = IF ViewSnapshot' = None THEN tableSnap ELSE ViewSnapshot'

(* selectFinding: row i of the list `ids`, clamped to it. *)
SelectFinding(i, ids) ==
  /\ findingSel' = Clamp(i, Len(ids))
  /\ findingSelID' = IF ids = <<>> THEN None ELSE ids[Clamp(i, Len(ids)) + 1]

(* Mutant: the selection stays on its row. *)
RowOfSelectedKept(ids) == findingSel

(* The row of the selected finding, wherever it moved in the list, or the  *)
(* row it had when it is no longer listed.                                 *)
RowOfSelected(ids) ==
  LET rows == {i \in DOMAIN ids : ids[i] = findingSelID}
  IN  IF rows = {} THEN findingSel ELSE (CHOOSE i \in rows : TRUE) - 1

(* reselectFinding, on the list that is shown from now on. *)
ReselectFinding ==
  \E ids \in {Ranked[ShownReport']} : SelectFinding(RowOfSelected(ids), ids)

-----------------------------------------------------------------------------
(* The poll loop.                                                          *)

Init ==
  /\ S!Init
  /\ mode \in Modes
  /\ phase = IF mode = "replay" THEN "loading" ELSE "running"
  /\ poll = IF mode = "replay" THEN "off" ELSE "running"
  /\ msg = None
  /\ rec = (mode = "record")
  /\ pollRec = (mode = "record")
  /\ closed = FALSE
  /\ written = 0
  /\ paused = FALSE
  /\ scrubOffset = 0
  /\ tableSnap = None
  /\ findingSel = 0
  /\ findingSelID = None
  /\ exporting = FALSE
  /\ exports = 0

(* The polls ss and the kernel may answer with. *)
Polls == {[err |-> a.err, listed |-> a.listed, grown |-> g] : a \in Answers, g \in Growth}

(* pollCmd: the poll is taken and recorded on its own goroutine, even      *)
(* after the UI has quit; its result is queued for the UI.                 *)
PollDone ==
  /\ phase \in {"running", "quitting"}
  /\ poll = "running"
  /\ taken < MaxPolls
  /\ \E p \in Polls, fails \in BOOLEAN :
       LET recErr == pollRec /\ (closed \/ fails)
       IN  /\ fails => pollRec
           /\ msg' = [poll |-> p, recErr |-> recErr]
           /\ written' = IF pollRec /\ ~recErr THEN written + 1 ELSE written
  /\ poll' = "arrived"
  /\ UNCHANGED <<sessionVars, mode, phase, pollRec, rec, closed, viewVars, exportVars>>

(* Mutant: the offset counts from the newest poll and is not moved. *)
PinnedOffsetKept(n) == scrubOffset

(* The scrub offset after a poll when the buffer holds n snapshots: one    *)
(* more while paused, clamped.                                             *)
PinnedOffset(n) == IF paused THEN Clamp(scrubOffset + 1, n) ELSE scrubOffset

(* Mutant: a failed write leaves the recorder in place. *)
StopRecordingKept == UNCHANGED <<rec, closed>>

(* A failed write ends the recording. *)
StopRecording ==
  IF msg.recErr /\ rec
    THEN rec' = FALSE /\ closed' = TRUE
    ELSE UNCHANGED <<rec, closed>>

(* Mutant: the next tick is armed only when there is something to show. *)
AfterPollStops == IF S!NoData(msg.poll.err, msg.poll.listed) THEN "off" ELSE "waiting"

(* Each result arms the next tick, whatever came of the poll. *)
AfterPoll == "waiting"

(* The pollResultMsg handler. *)
PollResult ==
  /\ phase = "running"
  /\ poll = "arrived"
  /\ StopRecording
  /\ \E step \in Steps : S!Ingest(msg.poll.err, msg.poll.listed, step, msg.poll.grown)
  /\ taken' = taken + 1
  /\ paused' = paused
  /\ IF S!NoData(msg.poll.err, msg.poll.listed)
       THEN UNCHANGED <<scrubOffset, tableSnap, findingSel, findingSelID>>
       ELSE /\ scrubOffset' = PinnedOffset(Len(buf'))
            /\ SyncTable
            /\ ReselectFinding
  /\ poll' = AfterPoll
  /\ msg' = None
  /\ UNCHANGED <<mode, phase, pollRec, written, exportVars>>

(* The tick starts the next poll, which gets the recorder as it is now. *)
Tick ==
  /\ phase = "running"
  /\ poll = "waiting"
  /\ poll' = "running"
  /\ pollRec' = rec
  /\ UNCHANGED <<sessionVars, phase, msg, recVars, viewVars, exportVars>>

-----------------------------------------------------------------------------
(* Keys.                                                                   *)

(* Space: pause at the newest snapshot, or resume. *)
TogglePause ==
  /\ phase = "running"
  /\ paused' = ~paused
  /\ scrubOffset' = 0
  /\ UNCHANGED <<sessionVars, phase, pollVars, recVars, exportVars>>
  /\ SyncTable
  /\ ReselectFinding

(* [ ] { }: move the frozen view back or forward, pausing first when live. *)
Scrub(delta) ==
  /\ phase = "running"
  /\ paused' = TRUE
  /\ scrubOffset' = Clamp((IF paused THEN scrubOffset ELSE 0) + delta, Len(buf))
  /\ UNCHANGED <<sessionVars, phase, pollVars, recVars, exportVars>>
  /\ SyncTable
  /\ ReselectFinding

(* j k g G on the Findings tab. *)
MoveSelection ==
  /\ phase = "running"
  /\ UNCHANGED <<sessionVars, phase, pollVars, recVars, exportVars,
                 paused, scrubOffset, tableSnap>>
  /\ \E i \in {findingSel + 1, findingSel - 1, 0, Cardinality(DOMAIN ShownReport) - 1} :
       SelectFinding(i, Ranked[ShownReport])

MayExport == ~exporting

(* e E: start an export on its own goroutine, unless one is running. *)
StartExport ==
  /\ phase = "running"
  /\ MayExport
  /\ exporting' = TRUE
  /\ exports' = exports + 1
  /\ UNCHANGED <<sessionVars, phase, pollVars, recVars, viewVars>>

(* exportDoneMsg: the export ended, in whatever way. *)
ExportDone ==
  /\ phase = "running"
  /\ exports > 0
  /\ exporting' = FALSE
  /\ exports' = exports - 1
  /\ UNCHANGED <<sessionVars, phase, pollVars, recVars, viewVars>>

(* q: the UI handles nothing more. *)
Quit ==
  /\ phase = "running"
  /\ phase' = "quitting"
  /\ UNCHANGED <<sessionVars, pollVars, recVars, viewVars, exportVars>>

(* The deferred Close of runTUI, then the process exits. *)
Exit ==
  /\ phase = "quitting"
  /\ phase' = "exited"
  /\ closed' = IF rec THEN TRUE ELSE closed
  /\ UNCHANGED <<sessionVars, mode, pollVars, rec, written, viewVars, exportVars>>

-----------------------------------------------------------------------------
(* Replay: loadReplay ingests the whole recording, then opens the UI.      *)

LoadNext ==
  /\ phase = "loading"
  /\ taken < MaxPolls
  /\ \E p \in Polls, step \in Steps : S!Ingest(p.err, p.listed, step, p.grown)
  /\ taken' = taken + 1
  /\ UNCHANGED <<phase, pollVars, recVars, viewVars, exportVars>>

(* A recording without a poll that had data is refused. *)
EndLoad ==
  /\ phase = "loading"
  /\ UNCHANGED <<sessionVars, pollVars, recVars, exportVars, paused, scrubOffset>>
  /\ IF buf = <<>>
       THEN phase' = "exited" /\ UNCHANGED <<tableSnap, findingSel, findingSelID>>
       ELSE phase' = "running" /\ SyncTable /\ ReselectFinding

Next ==
  \/ PollDone \/ PollResult \/ Tick
  \/ TogglePause \/ MoveSelection \/ StartExport \/ ExportDone \/ Quit \/ Exit
  \/ \E delta \in {1, -1, 10, -10} : Scrub(delta)
  \/ LoadNext \/ EndLoad

(* Commands end and their messages are handled; no key need be pressed.    *)
Fairness ==
  /\ WF_vars(PollDone)
  /\ WF_vars(PollResult)
  /\ WF_vars(Tick)
  /\ WF_vars(ExportDone)
  /\ WF_vars(Exit)

Spec == Init /\ [][Next]_vars /\ Fairness

-----------------------------------------------------------------------------
(* Properties.                                                             *)

(* Table and findings show one moment, the one in view, and the findings   *)
(* are those of that moment's own analysis: the history of reports and the *)
(* buffer shift together while the user scrubs, and the table follows when *)
(* the snapshot in view is replaced by its demoted copy (syncTable         *)
(* compares pointers).                                                     *)
MomentIsShown ==
  phase = "running" /\ buf # <<>> =>
    /\ tableSnap = ViewSnapshot
    /\ \A tab \in {"live", "findings"} : ShownAt[tab] = ViewSnapshot.at
    /\ Len(history) = Len(buf)
    /\ ShownReport = history[Len(buf) - (IF paused THEN scrubOffset ELSE 0)].found

(* A frozen moment stays frozen: a poll that arrives while paused leaves   *)
(* the same poll in view, or the oldest one left once it fell off the      *)
(* buffer.                                                                 *)
PinnedMoment ==
  [][paused /\ buf # <<>> /\ buf' # buf =>
       ViewSnapshot'.at = IF ViewSnapshot.at >= buf'[1].at THEN ViewSnapshot.at ELSE buf'[1].at]_vars

(* When the list changes under the user, by a poll or by stepping through  *)
(* time, the selection stays on its finding as long as it is listed, and   *)
(* the highlighted row moves to it, so Enter acts on what the user sees.   *)
SelectionFollowsFinding ==
  [][ShownReport' # ShownReport /\ findingSelID \in DOMAIN ShownReport'
       => /\ findingSelID' = findingSelID
          /\ Ranked[ShownReport'][findingSel' + 1] = findingSelID]_vars

(* While the footer says a recording is going on, every poll the UI has    *)
(* analysed is in the file, and no recorder is left open at the end.       *)
RecordsWhatIsShown ==
  /\ rec => written >= taken
  /\ phase = "exited" => closed \/ mode # "record"

(* A live UI keeps polling, whatever becomes of a poll, until it quits (or *)
(* the bound on polls is reached).                                         *)
KeepsPolling ==
  \A n \in 0 .. MaxPolls - 1 :
    mode # "replay" /\ taken = n ~> taken > n \/ phase \in {"quitting", "exited"}
=============================================================================
