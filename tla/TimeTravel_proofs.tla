------------------------- MODULE TimeTravel_proofs -------------------------
(***************************************************************************)
(* TimeTravel for every buffer size, set of findings and number of polls.  *)
(* What Session_proofs shows of a session holds of the one the TUI drives: *)
(* SP names the operators of S once more.                                  *)
(***************************************************************************)
EXTENDS TimeTravel, SequenceTheorems, FiniteSetTheorems, TLAPS

SP == INSTANCE Session_proofs

-----------------------------------------------------------------------------
(* The session inside the TUI.                                             *)

LEMMA SessionAssumed == SP!SessionAssumption
BY TimeTravelAssumption DEF S!SessionAssumption, SP!SessionAssumption

LEMMA IngestIs ==
  ASSUME NEW err, NEW listed, NEW step, NEW grown
  PROVE  S!Ingest(err, listed, step, grown) <=> SP!Ingest(err, listed, step, grown)
<1>1. \A h, at : S!SysSlots(h, at) = SP!SysSlots(h, at)
  <2>1. \A h : S!Boundary(h) = SP!Boundary(h)
    BY DEF S!Boundary, SP!Boundary
  <2>2. \A T : S!Max(T) = SP!Max(T) /\ S!Cardinality(T) = SP!Cardinality(T)
    BY DEF S!Max, SP!Max, S!Cardinality, SP!Cardinality
  <2> QED BY <2>1, <2>2 DEF S!SysSlots, SP!SysSlots
<1>2. \A h, at : S!Trimmed(h, at) = SP!Trimmed(h, at)
  BY DEF S!Trimmed, SP!Trimmed, S!Min, SP!Min
<1>3. \A h, s : S!H!Published(h, s) = SP!H!Published(h, s)
  BY DEF S!H!Published, SP!H!Published, S!H!Newest, SP!H!Newest, S!Slim, SP!Slim
<1>4. \A h, e : S!Remembered(h, e) = SP!Remembered(h, e)
  BY DEF S!Remembered, SP!Remembered
<1>5. \A p, c, q : S!Analyze(p, c, q) = SP!Analyze(p, c, q)
  BY DEF S!Analyze, SP!Analyze
<1>6. \A f, at : S!Track(f, at) = SP!Track(f, at)
  BY DEF S!Track, SP!Track, S!Aged, SP!Aged
<1>7. \A f : S!LogChanges(f) = SP!LogChanges(f)
  BY DEF S!LogChanges, SP!LogChanges, S!Aged, SP!Aged
<1>8. \A f, at : S!Summarise(f, at) = SP!Summarise(f, at)
  BY DEF S!Summarise, SP!Summarise, S!Max, SP!Max
<1>9. \A at, g : S!RollCounters(at, g) <=> SP!RollCounters(at, g)
  BY <1>2 DEF S!RollCounters, SP!RollCounters
<1>10. \A at : S!IngestFailed(at, grown) <=> SP!IngestFailed(at, grown)
  BY <1>9 DEF S!IngestFailed, SP!IngestFailed
<1>11. \A at, problems : S!IngestData(at, grown, problems) <=> SP!IngestData(at, grown, problems)
  BY <1>1, <1>3, <1>4, <1>5, <1>6, <1>7, <1>8, <1>9 DEF S!IngestData, SP!IngestData
<1>12. S!ProblemsOf(listed) = SP!ProblemsOf(listed)
  BY DEF S!ProblemsOf, SP!ProblemsOf, S!NoProblems, SP!NoProblems
<1>13. S!NoData(err, listed) <=> SP!NoData(err, listed)
  BY DEF S!NoData, SP!NoData
<1>14. \A at : S!Observe(err, listed, at, grown) <=> SP!Observe(err, listed, at, grown)
  BY <1>5, <1>12 DEF S!Observe, SP!Observe
<1> QED BY <1>10, <1>11, <1>12, <1>13, <1>14 DEF S!Ingest, SP!Ingest

LEMMA ReportIs ==
  ASSUME NEW ts
  PROVE  /\ S!HasReport(ts) <=> SP!HasReport(ts)
         /\ S!ReportFor(ts) = SP!ReportFor(ts)
<1>1. S!LastUpTo(ts) = SP!LastUpTo(ts)
  BY DEF S!LastUpTo, SP!LastUpTo, S!Max, SP!Max
<1> QED BY <1>1 DEF S!HasReport, SP!HasReport, S!ReportFor, SP!ReportFor

(* A result is one of Polls and within their bound, and nothing is polled  *)
(* or paused while a recording loads.                                      *)
PollInv ==
  /\ phase = "loading" => poll = "off" /\ ~paused
  /\ poll = "arrived" => taken < MaxPolls /\ msg.poll \in Polls

LEMMA PollStep == PollInv /\ [Next]_vars => PollInv'
<1> SUFFICES ASSUME PollInv, [Next]_vars
             PROVE  PollInv'
  OBVIOUS
<1> USE DEF PollInv, sessionVars, viewVars, pollVars
<1>1. CASE UNCHANGED vars
  BY <1>1 DEF vars
<1>2. CASE PollDone
  BY <1>2 DEF PollDone
<1>3. CASE PollResult
  BY <1>3 DEF PollResult, AfterPoll
<1>4. CASE Tick
  BY <1>4 DEF Tick
<1>5. CASE TogglePause
  BY <1>5 DEF TogglePause
<1>6. ASSUME NEW delta, Scrub(delta)
      PROVE  PollInv'
  BY <1>6 DEF Scrub
<1>7. CASE MoveSelection
  BY <1>7 DEF MoveSelection
<1>8. CASE StartExport
  BY <1>8 DEF StartExport
<1>9. CASE ExportDone
  BY <1>9 DEF ExportDone
<1>10. CASE Quit \/ Exit
  BY <1>10 DEF Quit, Exit
<1>11. CASE LoadNext
  BY <1>11 DEF LoadNext
<1>12. CASE EndLoad
  BY <1>12 DEF EndLoad
<1> QED
  BY <1>1, <1>2, <1>3, <1>4, <1>5, <1>6, <1>7, <1>8, <1>9, <1>10, <1>11, <1>12 DEF Next

LEMMA PollIs ==
  ASSUME NEW p \in Polls
  PROVE  p.err \in BOOLEAN /\ p.listed \in SP!Listings /\ p.grown \in Growth
<1>1. S!Listings = SP!Listings
  BY DEF S!Listings, SP!Listings, S!Problems, SP!Problems
<1>2. Answers \subseteq [err : BOOLEAN, listed : SP!Listings]
  BY <1>1, TimeTravelAssumption
<1> QED BY <1>2 DEF Polls

(* What a step of the TUI is to its session: a poll ingested, or nothing.  *)
LEMMA SessionStep == PollInv /\ [Next]_vars => [SP!Next]_(SP!vars)
<1> SUFFICES ASSUME PollInv, [Next]_vars
             PROVE  [SP!Next]_(SP!vars)
  OBVIOUS
<1>1. ASSUME NEW p \in Polls, NEW step \in Steps, taken < MaxPolls, taken' = taken + 1,
             S!Ingest(p.err, p.listed, step, p.grown)
      PROVE  SP!Next
  <2>1. SP!Ingest(p.err, p.listed, step, p.grown)
    BY <1>1, IngestIs
  <2>2. p.err \in BOOLEAN /\ p.listed \in SP!Listings /\ p.grown \in Growth
    BY PollIs
  <2> QED BY <1>1, <2>1, <2>2 DEF SP!Next
<1>2. CASE UNCHANGED sessionVars
  BY <1>2 DEF sessionVars, SP!vars
<1>3. CASE PollResult
  <2>1. msg.poll \in Polls /\ taken < MaxPolls
    BY <1>3 DEF PollInv, PollResult
  <2> QED BY <1>1, <1>3, <2>1 DEF PollResult
<1>4. CASE LoadNext
  BY <1>1, <1>4 DEF LoadNext
<1>5. CASE ~(PollResult \/ LoadNext)
  BY <1>2, <1>5 DEF Next, vars, PollDone, Tick, TogglePause, Scrub, MoveSelection, StartExport,
                    ExportDone, Quit, Exit, EndLoad
<1> QED BY <1>3, <1>4, <1>5

(* However polls, keys, exports and the recorder interleave, and live as   *)
(* in a replay, the session is fed as module Session says: what is checked *)
(* and proved of a session holds of the one under the UI.                  *)
THEOREM SessionRefinement == Spec => SP!Spec
<1>1. Init => PollInv /\ SP!Init
  BY DEF Init, PollInv, S!Init, SP!Init
<1> QED BY <1>1, PollStep, SessionStep, PTL DEF Spec, SP!Spec

-----------------------------------------------------------------------------
(* The recording.                                                          *)

(* The recorder is open, and given to each poll, just while the UI has it; *)
(* a poll that arrived without an error is in the file.                    *)
RecInv ==
  /\ taken \in Nat /\ written \in Nat
  /\ rec \in BOOLEAN /\ closed \in BOOLEAN
  /\ phase = "loading" => mode = "replay"
  /\ rec => /\ mode = "record" /\ pollRec
            /\ phase # "exited" => ~closed
            /\ written >= taken
            /\ poll = "arrived" /\ ~msg.recErr => written >= taken + 1
  /\ ~rec /\ mode = "record" => closed
  /\ phase = "exited" => closed \/ mode # "record"

LEMMA RecStep == RecInv /\ [Next]_vars => RecInv'
<1> SUFFICES ASSUME RecInv, [Next]_vars
             PROVE  RecInv'
  OBVIOUS
<1> USE DEF RecInv, sessionVars, viewVars, pollVars, recVars
<1>1. CASE UNCHANGED vars
  BY <1>1 DEF vars
<1>2. CASE PollDone
  BY <1>2 DEF PollDone
<1>3. CASE PollResult
  <2>1. /\ phase = "running" /\ phase' = phase /\ mode' = mode
        /\ poll = "arrived" /\ poll' = "waiting" /\ pollRec' = pollRec
        /\ taken' = taken + 1 /\ written' = written
    BY <1>3 DEF PollResult, AfterPoll
  <2>2. CASE msg.recErr /\ rec
    <3>1. rec' = FALSE /\ closed' = TRUE
      BY <1>3, <2>2 DEF PollResult, StopRecording
    <3>2. ~rec' /\ closed' /\ rec' \in BOOLEAN /\ closed' \in BOOLEAN
      BY <3>1
    <3>3. taken' \in Nat /\ written' \in Nat
      BY <2>1
    <3>4. phase' # "loading" /\ phase' # "exited"
      BY <2>1
    <3> QED BY <3>2, <3>3, <3>4
  <2>3. CASE ~(msg.recErr /\ rec)
    BY <1>3, <2>1, <2>3 DEF PollResult, StopRecording
  <2> QED BY <2>2, <2>3
<1>4. CASE Tick
  BY <1>4 DEF Tick
<1>5. CASE TogglePause
  BY <1>5 DEF TogglePause
<1>6. ASSUME NEW delta, Scrub(delta)
      PROVE  RecInv'
  BY <1>6 DEF Scrub
<1>7. CASE MoveSelection
  BY <1>7 DEF MoveSelection
<1>8. CASE StartExport \/ ExportDone
  BY <1>8 DEF StartExport, ExportDone
<1>9. CASE Quit
  BY <1>9 DEF Quit
<1>10. CASE Exit
  BY <1>10 DEF Exit
<1>11. CASE LoadNext
  BY <1>11 DEF LoadNext
<1>12. CASE EndLoad
  BY <1>12 DEF EndLoad
<1> QED
  BY <1>1, <1>2, <1>3, <1>4, <1>5, <1>6, <1>7, <1>8, <1>9, <1>10, <1>11, <1>12 DEF Next

(* While the footer says a recording is going on, every poll the UI has    *)
(* analysed is in the file, and the recorder is closed at the end, though  *)
(* a poll may fail to be written, or go on when the UI has quit.           *)
THEOREM RecordingSafety == Spec => []RecordsWhatIsShown
<1>1. Init => RecInv
  <2> SUFFICES ASSUME Init
               PROVE  RecInv
    OBVIOUS
  <2>1. taken = 0 /\ written = 0 /\ closed = FALSE
    BY DEF Init, S!Init
  <2>2. \/ phase = "loading" /\ mode = "replay"
        \/ phase = "running" /\ poll = "running"
    BY DEF Init
  <2>3. CASE mode = "record"
    <3>1. rec = TRUE /\ pollRec = TRUE
      BY <2>3 DEF Init
    <3>2. phase # "loading" /\ phase # "exited" /\ poll # "arrived"
      BY <2>2, <2>3
    <3>3. taken \in Nat /\ written \in Nat /\ written >= taken
      BY <2>1
    <3> QED BY <2>1, <2>3, <3>1, <3>2, <3>3 DEF RecInv
  <2>4. CASE mode # "record"
    <3>1. rec = FALSE
      BY <2>4 DEF Init
    <3> QED BY <2>1, <2>2, <2>4, <3>1 DEF RecInv
  <2> QED BY <2>3, <2>4
<1>2. RecInv => RecordsWhatIsShown
  BY DEF RecInv, RecordsWhatIsShown
<1> QED BY <1>1, <1>2, RecStep, PTL DEF Spec

-----------------------------------------------------------------------------
(* The moment on screen.                                                   *)

(* How many snapshots back the view is. *)
Back == IF paused THEN scrubOffset ELSE 0

(* A frozen view is of a snapshot that is there. *)
OffsetInv ==
  /\ paused \in BOOLEAN
  /\ scrubOffset \in Nat
  /\ paused /\ buf # <<>> => scrubOffset < Len(buf)

MomentInv ==
  /\ SP!HistoryInv
  /\ PollInv
  /\ OffsetInv
  /\ phase = "running" /\ buf # <<>> => tableSnap = ViewSnapshot

LEMMA ClampIs ==
  ASSUME NEW i \in Int, NEW n \in Nat
  PROVE  /\ Clamp(i, n) \in Nat
         /\ n > 0 => Clamp(i, n) < n
         /\ i >= 0 /\ i < n => Clamp(i, n) = i
         /\ n > 0 /\ i >= n => Clamp(i, n) = n - 1
BY DEF Clamp

LEMMA BufIs ==
  ASSUME SP!HistoryInv
  PROVE  /\ Len(buf) \in Nat
         /\ buf # <<>> <=> Len(buf) > 0
         /\ \A i \in 1 .. Len(buf) : buf[i] # None
<1>1. PICK T : buf \in Seq(T)
  BY DEF SP!HistoryInv, SP!IsSequence
<1>2. Len(buf) \in Nat /\ (buf # <<>> <=> Len(buf) > 0)
  BY <1>1, LenProperties, EmptySeq
<1>3. \A i \in 1 .. Len(buf) : buf[i] \in SP!Snapshot
  BY DEF SP!HistoryInv
<1>4. None \notin SP!Snapshot
  BY TimeTravelAssumption DEF S!Snapshot, SP!Snapshot, S!Problems, SP!Problems
<1> QED BY <1>2, <1>3, <1>4

(* So there is a snapshot in view, the one so many back.                   *)
ViewFound ==
  SP!HistoryInv /\ OffsetInv /\ buf # <<>> =>
    /\ Len(buf) - Back \in 1 .. Len(buf)
    /\ ViewSnapshot = buf[Len(buf) - Back]
    /\ ViewSnapshot # None

LEMMA ViewIs == ViewFound
<1> SUFFICES ASSUME SP!HistoryInv, OffsetInv, buf # <<>>
             PROVE  /\ Len(buf) - Back \in 1 .. Len(buf)
                    /\ ViewSnapshot = buf[Len(buf) - Back]
                    /\ ViewSnapshot # None
  BY DEF ViewFound
<1>1. Len(buf) \in Nat /\ Len(buf) > 0 /\ Back \in Nat /\ Back < Len(buf)
  BY BufIs DEF OffsetInv, Back
<1>2. Len(buf) - Back \in 1 .. Len(buf)
  BY <1>1
<1>3. buf[Len(buf) - Back] # None
  BY <1>2, BufIs
<1>4. SnapshotFromEnd(Back) = buf[Len(buf) - Back]
  BY <1>1 DEF SnapshotFromEnd
<1>5. ViewSnapshot = SnapshotFromEnd(Back)
  BY <1>3, <1>4 DEF ViewSnapshot, Back
<1> QED BY <1>2, <1>3, <1>4, <1>5

(* A poll moves every snapshot one towards the oldest once the buffer is   *)
(* full, and is later than all of them.                                    *)
LEMMA DataShifts ==
  ASSUME Steps \subseteq Nat \ {0}, SP!HistoryInv,
         NEW step \in Steps, NEW grown, NEW problems \in SP!Problems,
         SP!IngestData(now + step, grown, problems)
  PROVE  LET N == BufferSize
             n == Len(buf)
             m == Len(buf')
         IN  /\ n \in Nat /\ n <= N /\ m = IF n = N THEN n ELSE n + 1
             /\ m > 0 /\ N \in Nat \ {0}
             /\ \A i \in 1 .. m - 1 : buf'[i].at = buf[IF n = N THEN i + 1 ELSE i].at
             /\ buf'[m].at \in Int
             /\ \A i \in 1 .. n : buf[i].at \in Int /\ buf[i].at < buf'[m].at
<1> DEFINE N == BufferSize
           n == Len(buf)
           snap == [at |-> now + step, problems |-> problems, full |-> TRUE]
<1>1. buf' = SP!H!Published(buf, snap)
  BY DEF SP!IngestData
<1>2. N \in Nat \ {0} /\ n \in Nat /\ n <= N /\ SP!IsSequence(buf)
  BY SessionAssumed, BufIs DEF SP!SessionAssumption, SP!HistoryInv
<1>3. snap.at = now + step
  OBVIOUS
<1> HIDE DEF snap
<1>4. /\ Len(buf') = IF n = N THEN N ELSE n + 1
      /\ buf'[Len(buf')] = snap
      /\ \A i \in 1 .. Len(buf') - 1 :
           LET j == IF n = N THEN i + 1 ELSE i
           IN  buf'[i] = IF j = n THEN SP!Slim(buf[j]) ELSE buf[j]
  BY <1>1, <1>2, SessionAssumed, SP!PublishedIs
<1>5. \A i \in 1 .. n : /\ SP!Slim(buf[i]).at = buf[i].at
                        /\ buf[i].at \in Int /\ buf[i].at <= now /\ now \in Int
  <2> TAKE i \in 1 .. n
  <2>1. buf[i] \in SP!Snapshot /\ buf[i].at <= now /\ now \in Int
    BY DEF SP!HistoryInv
  <2> QED BY <2>1, SessionAssumed, SP!SlimKeeps DEF SP!Snapshot
<1>6. now \in Int /\ now + step \in Int /\ now < now + step
  BY DEF SP!HistoryInv
<1>7. ASSUME NEW i \in 1 .. Len(buf') - 1
      PROVE  buf'[i].at = buf[IF n = N THEN i + 1 ELSE i].at
  <2> DEFINE j == IF n = N THEN i + 1 ELSE i
  <2>1. j \in 1 .. n
    BY <1>2, <1>4
  <2>2. buf'[i] = IF j = n THEN SP!Slim(buf[j]) ELSE buf[j]
    BY <1>4
  <2> HIDE DEF j
  <2>3. buf'[i].at = buf[j].at
    BY <1>5, <2>1, <2>2
  <2> QED BY <2>3 DEF j
<1>8. \A i \in 1 .. n : buf[i].at \in Int /\ buf[i].at < buf'[Len(buf')].at
  BY <1>3, <1>4, <1>5, <1>6
<1> QED BY <1>2, <1>3, <1>4, <1>6, <1>7, <1>8

LEMMA ViewIsNext == ViewFound'
BY ViewIs, PTL

(* The result of a poll either leaves what is on screen and in the buffer, *)
(* or brings a snapshot, moves a frozen view along, and syncs the table.   *)
LEMMA ResultIs ==
  ASSUME PollInv, PollResult
  PROVE  /\ phase = "running" /\ phase' = "running" /\ paused' = paused
         /\ \/ UNCHANGED <<buf, history, scrubOffset, tableSnap>>
            \/ /\ scrubOffset' = PinnedOffset(Len(buf')) /\ SyncTable
               /\ \E step \in Steps, grown \in Growth, problems \in SP!Problems :
                    SP!IngestData(now + step, grown, problems)
<1>1. phase = "running" /\ phase' = "running" /\ paused' = paused
  BY DEF PollResult
<1> DEFINE p == msg.poll
<1>2. PICK step \in Steps : S!Ingest(p.err, p.listed, step, p.grown)
  BY DEF PollResult
<1>3. p \in Polls
  BY DEF PollInv, PollResult
<1>4. p.grown \in Growth /\ SP!ProblemsOf(p.listed) \in SP!Problems
  <2>1. SP!NoProblems \in SP!Problems
    BY DEF SP!NoProblems, SP!Problems
  <2>2. p.grown \in Growth /\ p.listed \in SP!Listings
    BY <1>3, PollIs
  <2> HIDE DEF p
  <2> QED BY <2>1, <2>2 DEF SP!ProblemsOf, SP!Listings
<1>5. SP!Ingest(p.err, p.listed, step, p.grown)
  BY <1>2, IngestIs
<1>6. CASE S!NoData(p.err, p.listed)
  <2>1. UNCHANGED <<buf, history>>
    BY <1>5, <1>6 DEF SP!Ingest, SP!IngestFailed, SP!NoData, S!NoData
  <2>2. UNCHANGED <<scrubOffset, tableSnap>>
    BY <1>6 DEF PollResult
  <2> QED BY <1>1, <2>1, <2>2
<1>7. CASE ~S!NoData(p.err, p.listed)
  <2>1. SP!IngestData(now + step, p.grown, SP!ProblemsOf(p.listed))
    BY <1>5, <1>7 DEF SP!Ingest, SP!NoData, S!NoData
  <2>2. scrubOffset' = PinnedOffset(Len(buf')) /\ SyncTable
    BY <1>7 DEF PollResult
  <2> QED BY <1>1, <1>4, <2>1, <2>2
<1> QED BY <1>6, <1>7

LEMMA OffsetStep ==
  ASSUME Steps \subseteq Nat \ {0}, SP!HistoryInv, PollInv, OffsetInv, [Next]_vars
  PROVE  OffsetInv'
<1>1. CASE UNCHANGED <<buf, paused, scrubOffset>>
  BY <1>1 DEF OffsetInv
<1>2. CASE PollResult
  <2>1. CASE UNCHANGED <<buf, history, scrubOffset, tableSnap>>
    BY <1>2, <2>1, ResultIs DEF OffsetInv
  <2>2. ASSUME NEW step \in Steps, NEW grown \in Growth, NEW problems \in SP!Problems,
               SP!IngestData(now + step, grown, problems),
               scrubOffset' = PinnedOffset(Len(buf'))
        PROVE  OffsetInv'
    <3>1. Len(buf') \in Nat /\ Len(buf') > 0 /\ Len(buf) <= Len(buf') /\ Len(buf) \in Nat
      BY <2>2, DataShifts
    <3>2. paused' = paused /\ paused \in BOOLEAN /\ scrubOffset \in Nat
      BY <1>2 DEF PollResult, OffsetInv
    <3>3. CASE paused
      <4>1. scrubOffset' = Clamp(scrubOffset + 1, Len(buf'))
        BY <2>2, <3>3 DEF PinnedOffset
      <4>2. scrubOffset' \in Nat /\ scrubOffset' < Len(buf')
        BY <3>1, <3>2, <4>1, ClampIs
      <4> QED BY <3>2, <4>2 DEF OffsetInv
    <3>4. CASE ~paused
      <4>1. scrubOffset' = scrubOffset
        BY <2>2, <3>4 DEF PinnedOffset
      <4> QED BY <3>2, <3>4, <4>1 DEF OffsetInv
    <3> QED BY <3>3, <3>4
  <2> QED BY <1>2, <2>1, <2>2, ResultIs
<1>3. CASE TogglePause
  <2>1. paused' \in BOOLEAN /\ scrubOffset' = 0 /\ buf' = buf
    BY <1>3 DEF TogglePause, sessionVars
  <2> QED BY <2>1, BufIs DEF OffsetInv
<1>4. ASSUME NEW delta \in {1, -1, 10, -10}, Scrub(delta)
      PROVE  OffsetInv'
  <2> DEFINE from == IF paused THEN scrubOffset ELSE 0
  <2>1. paused' = TRUE /\ buf' = buf /\ scrubOffset' = Clamp(from + delta, Len(buf))
    BY <1>4 DEF Scrub, sessionVars
  <2>2. from + delta \in Int
    BY DEF OffsetInv
  <2> HIDE DEF from
  <2>3. scrubOffset' \in Nat /\ (Len(buf) > 0 => scrubOffset' < Len(buf))
    BY <2>1, <2>2, BufIs, ClampIs
  <2> QED BY <2>1, <2>3, BufIs DEF OffsetInv
<1>5. CASE LoadNext
  <2>1. ~paused /\ paused' = paused /\ scrubOffset' = scrubOffset
    BY <1>5 DEF LoadNext, PollInv, viewVars
  <2> QED BY <2>1 DEF OffsetInv
<1> QED
  BY <1>1, <1>2, <1>3, <1>4, <1>5 DEF Next, vars, sessionVars, viewVars, PollDone, Tick,
     MoveSelection, StartExport, ExportDone, Quit, Exit, EndLoad

LEMMA MomentStep ==
  ASSUME Steps \subseteq Nat \ {0}, MomentInv, [Next]_vars
  PROVE  MomentInv'
<1>1. SP!HistoryInv'
  BY SessionAssumed, SessionStep, SP!HistoryStep DEF MomentInv
<1>2. PollInv'
  BY PollStep DEF MomentInv
<1>3. OffsetInv'
  BY OffsetStep DEF MomentInv
<1>4. SyncTable /\ buf' # <<>> => tableSnap' = ViewSnapshot'
  BY <1>1, <1>3, ViewIsNext DEF ViewFound, SyncTable
<1>5. ASSUME UNCHANGED <<buf, paused, scrubOffset, tableSnap>>, phase = "running" \/ phase' # "running"
      PROVE  phase' = "running" /\ buf' # <<>> => tableSnap' = ViewSnapshot'
  <2>1. ViewSnapshot' = ViewSnapshot
    BY <1>5 DEF ViewSnapshot, SnapshotFromEnd
  <2> QED BY <1>5, <2>1 DEF MomentInv
<1>6. phase' = "running" /\ buf' # <<>> => tableSnap' = ViewSnapshot'
  <2>1. CASE PollResult
    <3>1. CASE UNCHANGED <<buf, history, scrubOffset, tableSnap>>
      BY <1>5, <2>1, <3>1, ResultIs DEF MomentInv
    <3>2. CASE SyncTable
      BY <1>4, <3>2
    <3> QED BY <2>1, <3>1, <3>2, ResultIs DEF MomentInv
  <2>2. CASE TogglePause \/ \E delta \in {1, -1, 10, -10} : Scrub(delta)
    BY <1>4, <2>2 DEF TogglePause, Scrub
  <2>3. CASE EndLoad
    <3>1. buf' = buf
      BY <2>3 DEF EndLoad, sessionVars
    <3>2. CASE buf = <<>>
      BY <3>1, <3>2
    <3>3. CASE buf # <<>>
      BY <1>4, <2>3, <3>3 DEF EndLoad
    <3> QED BY <3>2, <3>3
  <2>4. CASE LoadNext
    BY <2>4 DEF LoadNext
  <2>5. CASE PollDone \/ Tick \/ MoveSelection \/ StartExport \/ ExportDone \/ Quit \/ Exit \/ UNCHANGED vars
    <3>1. /\ UNCHANGED <<buf, paused, scrubOffset, tableSnap>>
          /\ phase = "running" \/ phase' # "running"
      BY <2>5 DEF vars, sessionVars, viewVars, PollDone, Tick, MoveSelection, StartExport,
                  ExportDone, Quit, Exit
    <3> QED BY <1>5, <3>1
  <2> QED BY <2>1, <2>2, <2>3, <2>4, <2>5 DEF Next
<1> QED BY <1>1, <1>2, <1>3, <1>6 DEF MomentInv

LEMMA MomentFound == MomentInv => MomentIsShown
<1> SUFFICES ASSUME MomentInv, phase = "running", buf # <<>>
             PROVE  /\ tableSnap = ViewSnapshot
                    /\ \A tab \in {"live", "findings"} : ShownAt[tab] = ViewSnapshot.at
                    /\ Len(history) = Len(buf)
                    /\ ShownReport = history[Len(buf) - Back].found
  BY DEF MomentIsShown, Back
<1> DEFINE i == Len(buf) - Back
<1>1. i \in 1 .. Len(buf) /\ ViewSnapshot = buf[i] /\ ViewSnapshot # None
  BY ViewIs DEF MomentInv, ViewFound
<1>2. tableSnap = ViewSnapshot
  BY DEF MomentInv
<1>3. SP!ReportsBeside
  BY SessionAssumed, SP!HistoryFound DEF MomentInv
<1>4. Len(history) = Len(buf) /\ Len(buf) > 0 /\ Len(buf) \in Nat /\ DOMAIN buf = 1 .. Len(buf)
  <2>1. PICK T : buf \in Seq(T)
    BY DEF MomentInv, SP!HistoryInv, SP!IsSequence
  <2> QED BY <1>1, <1>3, <2>1, LenProperties DEF SP!ReportsBeside
<1>5. history[i].at = buf[i].at /\ S!HasReport(buf[i].at) /\ S!ReportFor(buf[i].at) = history[i]
  BY <1>1, <1>3, <1>4, ReportIs DEF SP!ReportsBeside
<1>6. NewestReport = history[Len(history)].found
  <2>1. PICK T : history \in Seq(T)
    BY DEF MomentInv, SP!HistoryInv, SP!IsSequence
  <2> QED BY <1>4, <2>1, EmptySeq DEF NewestReport
<1>7. ~paused => i = Len(history)
  BY <1>4 DEF Back
<1> HIDE DEF i
<1>8. ShownAt["live"] = ViewSnapshot.at
  BY <1>2 DEF ShownAt
<1>9. ShownAt["findings"] = ViewSnapshot.at
  BY <1>1, <1>5, <1>7 DEF ShownAt
<1>10. ShownReport = history[i].found
  BY <1>1, <1>5, <1>6, <1>7 DEF ShownReport
<1> QED BY <1>2, <1>4, <1>8, <1>9, <1>10 DEF i

LEMMA MomentStart == Init => MomentInv
<1> SUFFICES ASSUME Init
             PROVE  MomentInv
  OBVIOUS
<1>1. SP!Init
  BY DEF Init, S!Init, SP!Init
<1>2. buf = <<>> /\ paused = FALSE /\ scrubOffset = 0
  BY DEF Init, S!Init
<1>3. SP!HistoryInv
  BY <1>1, SessionAssumed, SP!HistoryStart
<1>4. PollInv
  BY DEF Init, PollInv
<1> QED BY <1>2, <1>3, <1>4 DEF MomentInv, OffsetInv

(* While the clock of the host is not set back, the table and the findings *)
(* show the moment in view, with the findings of that moment's own         *)
(* analysis, live and in a replay, for every size of the buffer and        *)
(* however polls, failures, pauses and steps through time interleave.      *)
THEOREM MomentSafety ==
  ASSUME Steps \subseteq Nat \ {0}
  PROVE  Spec => []MomentIsShown
<1>1. MomentInv /\ [Next]_vars => MomentInv'
  BY MomentStep
<1> QED BY <1>1, MomentStart, MomentFound, PTL DEF Spec

(* The poll of the snapshot in view, or the oldest there is. *)
Pinned ==
  paused /\ buf # <<>> /\ buf' # buf =>
    ViewSnapshot'.at = IF ViewSnapshot.at >= buf'[1].at THEN ViewSnapshot.at ELSE buf'[1].at

LEMMA PinnedStep ==
  ASSUME Steps \subseteq Nat \ {0}, MomentInv, [Next]_vars
  PROVE  Pinned
<1> SUFFICES ASSUME paused, buf # <<>>, buf' # buf
             PROVE  ViewSnapshot'.at =
                      IF ViewSnapshot.at >= buf'[1].at THEN ViewSnapshot.at ELSE buf'[1].at
  BY DEF Pinned
<1>1. CASE PollResult
  <2>1. paused' = paused
    BY <1>1, ResultIs DEF MomentInv
  <2>2. PICK step \in Steps, grown \in Growth, problems \in SP!Problems :
          /\ SP!IngestData(now + step, grown, problems)
          /\ scrubOffset' = PinnedOffset(Len(buf'))
    BY <1>1, ResultIs DEF MomentInv
  <2> DEFINE N == BufferSize
             n == Len(buf)
             m == Len(buf')
             v == n - scrubOffset
             w == m - scrubOffset'
  <2>3. /\ n \in Nat /\ n <= N /\ m = IF n = N THEN n ELSE n + 1
        /\ \A i \in 1 .. m - 1 : buf'[i].at = buf[IF n = N THEN i + 1 ELSE i].at
        /\ buf'[m].at \in Int
        /\ \A i \in 1 .. n : buf[i].at \in Int /\ buf[i].at < buf'[m].at
    BY <2>2, DataShifts DEF MomentInv
  <2>4. v \in 1 .. n /\ ViewSnapshot = buf[v] /\ scrubOffset \in Nat
    BY ViewIs DEF MomentInv, ViewFound, Back, OffsetInv
  <2>5. ViewSnapshot' = buf'[w]
    <3>1. SP!HistoryInv' /\ OffsetInv'
      BY MomentStep DEF MomentInv
    <3>2. buf' # <<>>
      BY <2>3, <2>4
    <3>3. Back' = scrubOffset'
      BY <2>1 DEF Back
    <3> QED BY <3>1, <3>2, <3>3, ViewIsNext DEF ViewFound
  <2>6. scrubOffset' = IF scrubOffset + 1 < m THEN scrubOffset + 1 ELSE m - 1
    <3>1. scrubOffset' = Clamp(scrubOffset + 1, m)
      BY <2>2 DEF PinnedOffset
    <3>2. m \in Nat /\ m > 0 /\ scrubOffset + 1 \in Nat
      BY <2>3, <2>4
    <3> DEFINE k == scrubOffset + 1
    <3> HIDE DEF m, k
    <3>3. k \in Nat /\ m \in Nat /\ m > 0
      BY <3>2 DEF k
    <3>4. (k < m => Clamp(k, m) = k) /\ (k >= m => Clamp(k, m) = m - 1)
      BY <3>3 DEF Clamp
    <3>5. scrubOffset' = IF k < m THEN k ELSE m - 1
      BY <3>1, <3>3, <3>4 DEF k
    <3> QED BY <3>5 DEF k
  <2>7. \A i, j \in 1 .. n : i < j => buf[i].at < buf[j].at
    BY DEF MomentInv, SP!HistoryInv
  <2> HIDE DEF N, n, m, v, w
  <2>8. CASE n # N
    <3>1. m = n + 1 /\ w = v /\ v \in 1 .. m - 1 /\ 1 \in 1 .. m - 1
      BY <2>3, <2>4, <2>6, <2>8 DEF v, w
    <3>2. buf'[w].at = buf[v].at /\ buf'[1].at = buf[1].at
      BY <2>3, <2>8, <3>1
    <3>3. buf[v].at >= buf[1].at
      <4>1. CASE v = 1
        BY <2>3, <2>4, <4>1
      <4>2. CASE v # 1
        BY <2>3, <2>4, <2>7, <4>2
      <4> QED BY <4>1, <4>2
    <3> QED BY <2>4, <2>5, <3>2, <3>3
  <2>9. CASE n = N /\ v > 1
    <3>1. m = n /\ w = v - 1 /\ w \in 1 .. m - 1 /\ 1 \in 1 .. m - 1
      BY <2>3, <2>4, <2>6, <2>9 DEF v, w
    <3>2. buf'[w].at = buf[v].at /\ buf'[1].at = buf[2].at
      BY <2>3, <2>4, <2>9, <3>1
    <3>3. buf[v].at >= buf[2].at
      <4>1. 2 \in 1 .. n /\ v \in 1 .. n
        BY <2>3, <2>4, <2>9
      <4>2. CASE v = 2
        BY <2>3, <4>1, <4>2
      <4>3. CASE v # 2
        BY <2>3, <2>7, <2>9, <4>1, <4>3
      <4> QED BY <4>2, <4>3
    <3> QED BY <2>4, <2>5, <3>2, <3>3
  <2>10. CASE n = N /\ v = 1
    <3>1. m = n /\ w = 1
      BY <2>3, <2>4, <2>6, <2>10 DEF v, w
    <3>2. buf[1].at \in Int /\ buf'[1].at \in Int /\ buf[1].at < buf'[1].at
      <4>1. CASE m = 1
        BY <2>3, <2>4, <2>10, <4>1
      <4>2. CASE m # 1
        <5>1. 1 \in 1 .. m - 1 /\ 2 \in 1 .. n /\ 1 \in 1 .. n
          BY <2>3, <2>4, <3>1, <4>2
        <5>2. buf'[1].at = buf[2].at
          BY <2>3, <2>10, <5>1
        <5> QED BY <2>3, <2>7, <5>1, <5>2
      <4> QED BY <4>1, <4>2
    <3> QED BY <2>4, <2>5, <2>10, <3>1, <3>2
  <2> QED BY <2>3, <2>4, <2>8, <2>9, <2>10
<1>2. CASE LoadNext
  BY <1>2 DEF LoadNext, MomentInv, PollInv
<1>3. CASE ~(PollResult \/ LoadNext)
  BY <1>3 DEF Next, vars, sessionVars, PollDone, Tick, TogglePause, Scrub, MoveSelection,
              StartExport, ExportDone, Quit, Exit, EndLoad
<1> QED BY <1>1, <1>2, <1>3

(* A frozen moment stays frozen, for every size of the buffer and whatever *)
(* polls arrive: the poll in view stays in view until it falls off the     *)
(* buffer, and from then on the oldest is.                                 *)
THEOREM PinnedSafety ==
  ASSUME Steps \subseteq Nat \ {0}
  PROVE  Spec => PinnedMoment
<1>1. MomentInv /\ [Next]_vars => MomentInv'
  BY MomentStep
<1>2. MomentInv /\ [Next]_vars => [Pinned]_vars
  BY PinnedStep
<1> QED BY <1>1, <1>2, MomentStart, PTL DEF Spec, PinnedMoment, Pinned

-----------------------------------------------------------------------------
(* The list of findings.                                                   *)

RuleOf(id) == CHOOSE i \in DOMAIN RuleOrder : RuleOrder[i] = id
Before(found, x, y) ==
  \/ found[x] > found[y]
  \/ found[x] = found[y] /\ RuleOf(x) < RuleOf(y)

(* A list of all findings of a report, in order. *)
IsListing(found, s) ==
  /\ s \in [1 .. Cardinality(DOMAIN found) -> DOMAIN found]
  /\ \A i, j \in DOMAIN s : i < j => Before(found, s[i], s[j])

LEMMA RankedIs ==
  ASSUME NEW found \in S!Found
  PROVE  Ranked[found] = CHOOSE s : IsListing(found, s)
<1>1. Ranked[found] =
        CHOOSE s \in [1 .. Cardinality(DOMAIN found) -> DOMAIN found] :
          \A i, j \in DOMAIN s : i < j => Before(found, s[i], s[j])
  BY DEF Ranked, Before, RuleOf
<1>2. (CHOOSE s \in [1 .. Cardinality(DOMAIN found) -> DOMAIN found] :
          \A i, j \in DOMAIN s : i < j => Before(found, s[i], s[j]))
      = CHOOSE s : IsListing(found, s)
  BY DEF IsListing
<1> QED BY <1>1, <1>2

LEMMA RuleOfIs ==
  ASSUME NEW x \in Ids \cup {HostId}
  PROVE  /\ RuleOf(x) \in 1 .. Len(RuleOrder) /\ RuleOrder[RuleOf(x)] = x
         /\ Len(RuleOrder) \in Nat
<1>1. Len(RuleOrder) \in Nat /\ DOMAIN RuleOrder = 1 .. Len(RuleOrder)
  BY TimeTravelAssumption, LenProperties
<1>2. \E i \in DOMAIN RuleOrder : RuleOrder[i] = x
  BY TimeTravelAssumption
<1> QED BY <1>1, <1>2 DEF RuleOf

(* The IDs are finitely many, and so are the findings of a report. *)
LEMMA FoundFinite ==
  ASSUME NEW found \in S!Found
  PROVE  /\ DOMAIN found \subseteq Ids \cup {HostId} /\ IsFiniteSet(DOMAIN found)
         /\ Cardinality(DOMAIN found) \in Nat
         /\ \A x \in DOMAIN found : found[x] \in 1 .. 2
<1> DEFINE n == Len(RuleOrder)
           f == [x \in Ids \cup {HostId} |-> RuleOf(x)]
<1>1. \A x \in Ids \cup {HostId} : RuleOf(x) \in 1 .. n /\ RuleOrder[RuleOf(x)] = x
  BY RuleOfIs
<1>2. n \in Nat
  BY TimeTravelAssumption, LenProperties
<1>3. f \in Injection(Ids \cup {HostId}, 1 .. n)
  BY <1>1 DEF Injection, IsInjective
<1> HIDE DEF f, n
<1>4. IsFiniteSet(Ids \cup {HostId})
  BY <1>2, <1>3, FS_Interval, FS_Injection
<1>5. PICK T \in SUBSET (Ids \cup {HostId}) : found \in [T -> 1 .. 2]
  BY DEF S!Found, S!AllIds
<1> QED BY <1>4, <1>5, FS_Subset, FS_CardinalityType

LEMMA BeforeIs ==
  ASSUME NEW found \in S!Found, NEW x \in DOMAIN found, NEW y \in DOMAIN found
  PROVE  /\ x # y => Before(found, x, y) \/ Before(found, y, x)
         /\ ~(Before(found, x, y) /\ Before(found, y, x))
         /\ \A z \in DOMAIN found : Before(found, x, y) /\ Before(found, y, z) => Before(found, x, z)
<1>1. \A u \in DOMAIN found : /\ RuleOf(u) \in Int /\ RuleOrder[RuleOf(u)] = u
                              /\ found[u] \in Int
  BY FoundFinite, RuleOfIs
<1>2. x # y => RuleOf(x) # RuleOf(y)
  BY <1>1
<1> QED BY <1>1, <1>2 DEF Before

(* There is such a list: each finding has as many before it as it takes.   *)
LEMMA ListingExists ==
  ASSUME NEW found \in S!Found
  PROVE  \E s : IsListing(found, s)
<1> DEFINE D == DOMAIN found
           n == Cardinality(D)
           above(x) == {y \in D : Before(found, y, x)}
           row == [x \in D |-> Cardinality(above(x)) + 1]
<1>1. IsFiniteSet(D) /\ n \in Nat
  BY FoundFinite
<1>2. ASSUME NEW x \in D
      PROVE  /\ IsFiniteSet(above(x)) /\ Cardinality(above(x)) \in Nat
             /\ Cardinality(above(x)) < n
  <2>1. above(x) \in SUBSET D /\ x \notin above(x)
    BY BeforeIs
  <2>2. above(x) # D
    BY <2>1
  <2> HIDE DEF above, D
  <2>3. IsFiniteSet(above(x)) /\ Cardinality(above(x)) <= Cardinality(D)
        /\ Cardinality(above(x)) # Cardinality(D)
    BY <1>1, <2>1, <2>2, FS_Subset
  <2>4. Cardinality(above(x)) \in Nat
    BY <2>3, FS_CardinalityType
  <2> QED BY <1>1, <2>3, <2>4
<1>3. ASSUME NEW x \in D, NEW y \in D, Before(found, x, y)
      PROVE  Cardinality(above(x)) < Cardinality(above(y))
  <2>1. above(x) \in SUBSET above(y) /\ x \in above(y) /\ x \notin above(x)
    BY <1>3, BeforeIs
  <2>2. above(x) # above(y)
    BY <2>1
  <2>3. IsFiniteSet(above(y)) /\ Cardinality(above(x)) \in Nat /\ Cardinality(above(y)) \in Nat
    BY <1>2
  <2> HIDE DEF above, D
  <2>4. Cardinality(above(x)) <= Cardinality(above(y)) /\ Cardinality(above(x)) # Cardinality(above(y))
    BY <2>1, <2>2, <2>3, FS_Subset
  <2> QED BY <2>3, <2>4
<1>4. \A x \in D : row[x] \in 1 .. n
  <2> HIDE DEF above, D
  <2> QED BY <1>1, <1>2
<1>5. ASSUME NEW x \in D, NEW y \in D, Before(found, x, y)
      PROVE  row[x] < row[y]
  <2>1. Cardinality(above(x)) < Cardinality(above(y))
    BY <1>3, <1>5
  <2>2. Cardinality(above(x)) \in Nat /\ Cardinality(above(y)) \in Nat
    BY <1>2
  <2> HIDE DEF above, D
  <2> QED BY <2>1, <2>2
<1>6. row \in [D -> 1 .. n]
  <2> HIDE DEF above
  <2> QED BY <1>4
<1>7. \A x, y \in D : x # y => row[x] # row[y]
  <2> SUFFICES ASSUME NEW x \in D, NEW y \in D, x # y
               PROVE  row[x] # row[y]
    OBVIOUS
  <2>1. Before(found, x, y) \/ Before(found, y, x)
    BY BeforeIs
  <2>2. row[x] \in Int /\ row[y] \in Int
    BY <1>4
  <2>3. row[x] < row[y] \/ row[y] < row[x]
    BY <1>5, <2>1
  <2> HIDE DEF row
  <2> QED BY <2>2, <2>3
<1> HIDE DEF row, D, n
<1>8. row \in Surjection(D, 1 .. n)
  <2>1. row \in Injection(D, 1 .. n)
    BY <1>6, <1>7 DEF Injection, IsInjective
  <2>2. IsFiniteSet(1 .. n) /\ Cardinality(1 .. n) = n
    BY <1>1, FS_Interval
  <2> QED BY <2>1, <2>2, FS_Injection DEF n
<1>9. \A i \in 1 .. n : \E x \in D : row[x] = i
  BY <1>8 DEF Surjection
<1> DEFINE s == [i \in 1 .. n |-> CHOOSE x \in D : row[x] = i]
<1>10. \A i \in 1 .. n : s[i] \in D /\ row[s[i]] = i
  BY <1>9
<1>11. s \in [1 .. n -> D] /\ DOMAIN s = 1 .. n
  BY <1>10
<1> HIDE DEF s
<1>12. ASSUME NEW i \in 1 .. n, NEW j \in 1 .. n, i < j
       PROVE  Before(found, s[i], s[j])
  <2>1. s[i] \in D /\ s[j] \in D /\ row[s[i]] = i /\ row[s[j]] = j
    BY <1>10
  <2>2. s[i] # s[j]
    BY <1>12, <2>1
  <2>3. ~Before(found, s[j], s[i])
    <3>1. ASSUME Before(found, s[j], s[i])
          PROVE  FALSE
      <4>1. row[s[j]] < row[s[i]]
        BY <1>5, <2>1, <3>1
      <4> QED BY <1>12, <2>1, <4>1
    <3> QED BY <3>1
  <2> QED BY <2>1, <2>2, <2>3, BeforeIs DEF D
<1>13. IsListing(found, s)
  BY <1>11, <1>12 DEF IsListing, D, n
<1> QED BY <1>13

(* The tab lists each finding of the report once.                          *)
LEMMA ListsEach ==
  ASSUME NEW found \in S!Found, NEW ids, ids = Ranked[found]
  PROVE  /\ ids \in Seq(DOMAIN found) /\ Len(ids) = Cardinality(DOMAIN found)
         /\ DOMAIN ids = 1 .. Len(ids) /\ Len(ids) \in Nat
         /\ \A x \in DOMAIN found : \E i \in 1 .. Len(ids) : ids[i] = x
<1> DEFINE D == DOMAIN found
           n == Cardinality(D)
<1>1. IsFiniteSet(D) /\ n \in Nat
  BY FoundFinite
<1>2. IsListing(found, ids)
  BY RankedIs, ListingExists
<1>3. ids \in [1 .. n -> D] /\ DOMAIN ids = 1 .. n
  BY <1>2 DEF IsListing
<1>4. ids \in Seq(D) /\ Len(ids) = n
  BY <1>1, <1>3, SeqDef, LenProperties
<1>5. ASSUME NEW i \in 1 .. n, NEW j \in 1 .. n, i # j
      PROVE  ids[i] # ids[j]
  <2>1. ids[i] \in D /\ ids[j] \in D
    BY <1>3
  <2>2. Before(found, ids[i], ids[j]) \/ Before(found, ids[j], ids[i])
    <3>1. i < j \/ j < i
      BY <1>1, <1>5
    <3> QED BY <1>2, <1>3, <3>1 DEF IsListing
  <2> QED BY <2>1, <2>2, BeforeIs
<1> HIDE DEF D, n
<1>6. ids \in Surjection(1 .. n, D)
  <2>1. ids \in Injection(1 .. n, D)
    BY <1>3, <1>5 DEF Injection, IsInjective
  <2>2. Cardinality(1 .. n) = n /\ n = Cardinality(D)
    BY <1>1, FS_Interval DEF n
  <2> QED BY <1>1, <2>1, <2>2, FS_Injection
<1>7. \A x \in D : \E i \in 1 .. n : ids[i] = x
  BY <1>6 DEF Surjection
<1> QED BY <1>1, <1>3, <1>4, <1>7 DEF D, n

(* What the tab shows is one of these reports. *)
ShownFound == SP!ReportsInv => ShownReport \in S!Found

LEMMA ShownIs == ShownFound
<1> SUFFICES ASSUME SP!ReportsInv
             PROVE  ShownReport \in S!Found
  BY DEF ShownFound
<1>1. S!Found = SP!Found
  BY DEF S!Found, SP!Found, S!AllIds, SP!AllIds
<1>2. NewestReport \in S!Found
  <2>1. CASE history = <<>>
    <3>1. S!NoProblems \in [{} -> 1 .. 2]
      BY DEF S!NoProblems
    <3>2. {} \in SUBSET (Ids \cup {HostId})
      OBVIOUS
    <3> QED BY <2>1, <3>1, <3>2 DEF NewestReport, S!Found, S!AllIds
  <2>2. CASE history # <<>>
    <3>1. PICK T : history \in Seq(T)
      BY DEF SP!ReportsInv, SP!IsSequence
    <3>2. Len(history) \in 1 .. Len(history)
      BY <2>2, <3>1, EmptySeq, LenProperties
    <3> QED BY <1>1, <2>2, <3>2 DEF NewestReport, SP!ReportsInv
  <2> QED BY <2>1, <2>2
<1>3. S!HasReport(ViewSnapshot.at) => S!ReportFor(ViewSnapshot.at).found \in S!Found
  BY <1>1, SessionAssumed, ReportIs, SP!ReportFound
<1> QED BY <1>2, <1>3 DEF ShownReport

LEMMA ShownIsNext == ShownFound'
BY ShownIs, PTL

(* Reselecting finds the row of the selected finding. *)
LEMMA Reselected ==
  ASSUME NEW found \in S!Found, NEW ids, ids = Ranked[found], SelectFinding(RowOfSelected(ids), ids),
         findingSelID \in DOMAIN found
  PROVE  findingSelID' = findingSelID /\ ids[findingSel' + 1] = findingSelID
<1> DEFINE n == Len(ids)
           rows == {i \in DOMAIN ids : ids[i] = findingSelID}
           row == CHOOSE i \in rows : TRUE
<1>1. n \in Nat /\ DOMAIN ids = 1 .. n /\ \E i \in 1 .. n : ids[i] = findingSelID
  BY ListsEach
<1>2. row \in 1 .. n /\ ids[row] = findingSelID
  BY <1>1
<1>3. RowOfSelected(ids) = row - 1
  BY <1>1 DEF RowOfSelected
<1>4. ids # <<>>
  <2>1. PICK T : ids \in Seq(T)
    BY ListsEach
  <2> QED BY <1>2, <2>1, EmptySeq
<1> HIDE DEF row, n
<1>5. Clamp(row - 1, n) = row - 1
  BY <1>1, <1>2, ClampIs
<1>6. findingSel' = row - 1 /\ findingSelID' = ids[row - 1 + 1]
  BY <1>3, <1>4, <1>5 DEF SelectFinding, n
<1>7. row - 1 + 1 = row /\ findingSel' + 1 = row
  BY <1>1, <1>2, <1>6
<1> QED BY <1>2, <1>6, <1>7

(* Reports are of known findings, and nothing is selected in a recording   *)
(* that is still loading.                                                  *)
SelectionInv ==
  /\ SP!ReportsInv
  /\ PollInv
  /\ phase = "loading" => findingSelID = None

LEMMA SelectionStep == SelectionInv /\ [Next]_vars => SelectionInv'
<1> SUFFICES ASSUME SelectionInv, [Next]_vars
             PROVE  SelectionInv'
  OBVIOUS
<1>1. SP!ReportsInv' /\ PollInv'
  BY SessionAssumed, SessionStep, PollStep, SP!ReportsStep DEF SelectionInv
<1>2. phase' = "loading" => phase = "loading" /\ findingSelID' = findingSelID
  BY DEF Next, vars, viewVars, PollDone, PollResult, Tick, TogglePause, Scrub, MoveSelection, StartExport,
         ExportDone, Quit, Exit, LoadNext, EndLoad
<1> QED BY <1>1, <1>2 DEF SelectionInv

Follows ==
  ShownReport' # ShownReport /\ findingSelID \in DOMAIN ShownReport' =>
    /\ findingSelID' = findingSelID
    /\ Ranked[ShownReport'][findingSel' + 1] = findingSelID

LEMMA FollowsStep ==
  ASSUME SelectionInv, [Next]_vars
  PROVE  Follows
<1> SUFFICES ASSUME ShownReport' # ShownReport, findingSelID \in DOMAIN ShownReport'
             PROVE  /\ findingSelID' = findingSelID
                    /\ Ranked[ShownReport'][findingSel' + 1] = findingSelID
  BY DEF Follows
<1>1. ShownReport' \in S!Found
  BY SelectionStep, ShownIsNext DEF SelectionInv, ShownFound
<1>2. ~UNCHANGED <<buf, history, paused, scrubOffset>>
  <2> SUFFICES ASSUME UNCHANGED <<buf, history, paused, scrubOffset>>
               PROVE  ShownReport' = ShownReport
    OBVIOUS
  <2>1. ViewSnapshot' = ViewSnapshot /\ NewestReport' = NewestReport
    BY DEF ViewSnapshot, SnapshotFromEnd, NewestReport
  <2>2. \A ts : S!HasReport(ts)' = S!HasReport(ts) /\ S!ReportFor(ts)' = S!ReportFor(ts)
    BY DEF S!HasReport, S!ReportFor, S!LastUpTo
  <2> QED BY <2>1, <2>2 DEF ShownReport
<1>3. CASE ReselectFinding
  <2>1. PICK ids : ids = Ranked[ShownReport'] /\ SelectFinding(RowOfSelected(ids), ids)
    BY <1>3 DEF ReselectFinding
  <2> QED BY <1>1, <2>1, Reselected
<1>4. CASE LoadNext
  <2>1. findingSelID = None
    BY <1>4 DEF LoadNext, SelectionInv
  <2>2. findingSelID \in Ids \cup {HostId}
    BY <1>1, FoundFinite
  <2> QED BY <2>1, <2>2, TimeTravelAssumption
<1>5. ASSUME PollResult
      PROVE  ReselectFinding
  <2>1. PICK step \in Steps : S!Ingest(msg.poll.err, msg.poll.listed, step, msg.poll.grown)
    BY <1>5 DEF PollResult
  <2>2. S!NoData(msg.poll.err, msg.poll.listed) => UNCHANGED <<buf, history, paused, scrubOffset>>
    BY <1>5, <2>1 DEF PollResult, S!Ingest, S!IngestFailed
  <2>3. ~S!NoData(msg.poll.err, msg.poll.listed)
    BY <1>2, <2>2
  <2> QED BY <1>5, <2>3 DEF PollResult
<1> QED
  BY <1>2, <1>3, <1>4, <1>5 DEF Next, vars, sessionVars, viewVars, PollDone, Tick, TogglePause, Scrub,
     MoveSelection, StartExport, ExportDone, Quit, Exit, EndLoad

(* The selection of the Findings tab stays on its finding while the list   *)
(* changes under it, live and in a replay, wherever the clock is set, for  *)
(* any findings: the tab lists each finding of a report exactly once, and  *)
(* the row is looked up by the finding's ID.                               *)
THEOREM SelectionSafety == Spec => SelectionFollowsFinding
<1>1. Init => SelectionInv
  <2> SUFFICES ASSUME Init
               PROVE  SelectionInv
    OBVIOUS
  <2>1. SP!Init
    BY DEF Init, S!Init, SP!Init
  <2>2. PollInv /\ findingSelID = None
    BY DEF Init, PollInv
  <2> QED BY <2>1, <2>2, SessionAssumed, SP!ReportsStart DEF SelectionInv
<1>2. SelectionInv /\ [Next]_vars => [Follows]_vars
  BY FollowsStep
<1> QED BY <1>1, <1>2, SelectionStep, PTL DEF Spec, SelectionFollowsFinding, Follows
=============================================================================
