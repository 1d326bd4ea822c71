------------------------------ MODULE Session ------------------------------
(***************************************************************************)
(* The analysis pipeline of session/session.go: each poll goes into the    *)
(* history buffer, rolls the host counters forward, is analysed, and its   *)
(* findings are dated (findings.Tracker), logged (changeLog of `record`)   *)
(* and summarised (Timeline of `check` and `report`).  One goroutine owns  *)
(* a session, so a poll is ingested in one step.                           *)
(*                                                                         *)
(* A snapshot is reduced to the problems its sockets show, a finding to    *)
(* its ID and severity; one finding, HostId, depends on a host counter     *)
(* having grown.  The buffer is the bounded history that Buffer            *)
(* implements.                                                             *)
(***************************************************************************)
EXTENDS Integers, Sequences, FiniteSets, FiniteSetsExt

CONSTANTS
  BufferSize,     \* poller.BufferSize
  Ids,            \* finding IDs that come from sockets
  HostId,         \* the finding ID that comes from a host counter
  GraceMisses,    \* findings.GraceMisses
  SlotWindow,     \* poller.SlotWindow, in ticks
  SlotMin,        \* the shortest span for which model.SlotFull holds
  Steps,          \* ticks the wall clock may move between two polls
  Growth,         \* growth of the host counter in a poll; None: unreadable
  MaxPolls,       \* bound on the polls taken
  None            \* nil

ASSUME SessionAssumption ==
  /\ BufferSize \in Nat \ {0}
  /\ GraceMisses \in Nat
  /\ SlotMin \in Nat \ {0}
  /\ SlotWindow \in Nat /\ SlotWindow >= SlotMin
  /\ Steps \subseteq Int
  /\ Growth \subseteq Nat \cup {None}
  /\ None \notin Int
  /\ MaxPolls \in Nat
  /\ HostId \notin Ids

VARIABLES
  now,            \* wall clock at the last poll
  counter,        \* the host counter at the last poll
  sysCur,         \* Session.SysCur
  sysPrev,        \* Session.SysPrev
  sysHist,        \* Session.sysHist
  buf,            \* the snapshots of Session.Buf, oldest first
  history,        \* Session.history
  seen,           \* Tracker.seen
  active,         \* changeLog.active
  timeline,       \* Timeline, its occurrences by ID
  taken,          \* how many polls were taken, to bound them
  reads,          \* history variable: every host counter read
  past            \* history variable: every poll that brought anything

vars == <<now, counter, sysCur, sysPrev, sysHist, buf, history, seen, active,
          timeline, taken, reads, past>>

-----------------------------------------------------------------------------
(* Dating findings: what Update, changeLog.update and Timeline.Add do with *)
(* the findings of one poll, a function from their IDs to severities.      *)

Slim(snap) == [snap EXCEPT !.full = FALSE]

H == INSTANCE History WITH hist <- buf

(* Entries of `table` once the poll found `found`: a present entry is      *)
(* kept, or `fresh` when new, an absent one ages, and it is dropped when   *)
(* it was absent more than `grace` polls in a row.                         *)
Aged(table, found, grace, fresh) ==
  LET kept == {id \in DOMAIN table \ DOMAIN found : table[id].misses < grace}
  IN  [id \in DOMAIN found \cup kept |->
         IF id \in DOMAIN found
           THEN IF id \in DOMAIN table THEN [table[id] EXCEPT !.misses = 0] ELSE fresh
           ELSE [table[id] EXCEPT !.misses = @ + 1]]

(* Tracker.Update at the poll's time. *)
Track(found, at) == Aged(seen, found, GraceMisses, [since |-> at, misses |-> 0])

(* Mutant: the log gives up one poll before the ages do. *)
LogChangesEarly(found) == Aged(active, found, GraceMisses - 1, [misses |-> 0])

(* changeLog.update; its titles are left out. *)
LogChanges(found) == Aged(active, found, GraceMisses, [misses |-> 0])

(* Timeline.Add. *)
Summarise(found, at) ==
  [analyses |-> timeline.analyses + 1,
   byId |-> [id \in DOMAIN timeline.byId \cup DOMAIN found |->
     LET old == IF id \in DOMAIN timeline.byId
                  THEN timeline.byId[id]
                  ELSE [first |-> at, last |-> at, polls |-> 0, worst |-> 0, active |-> FALSE]
     IN  IF id \in DOMAIN found
           THEN [first  |-> old.first,
                 last   |-> at,
                 polls  |-> old.polls + 1,
                 worst  |-> Max({old.worst, found[id]}),
                 active |-> TRUE]
           ELSE [old EXCEPT !.active = FALSE]]]

(* Timeline.Worst, and the result that check's exit code reports. *)
Worst == Max({0} \cup {timeline.byId[id].worst : id \in DOMAIN timeline.byId})

Status ==
  IF timeline.analyses = 0
    THEN "UNKNOWN"
    ELSE CASE Worst = 2 -> "CRITICAL" [] Worst = 1 -> "WARNING" [] OTHER -> "OK"

-----------------------------------------------------------------------------
(* Host counters.                                                          *)

(* Mutant: trims until the oldest read is inside the window. *)
TrimmedShort(h, at) ==
  LET old == {j \in 1 .. Len(h) - 1 : at - h[j].at >= SlotWindow}
  IN  IF old = {} THEN h ELSE SubSeq(h, Max(old) + 1, Len(h))

(* The reads kept at time `at`: the loop drops the oldest while the one    *)
(* after it is already a window old.                                       *)
Trimmed(h, at) ==
  LET stop == {j \in 1 .. Len(h) : j = Len(h) \/ at - h[j + 1].at < SlotWindow}
  IN  SubSeq(h, Min(stop), Len(h))

(* Index of the last slot boundary among the first i reads: a read begins  *)
(* a slot when the one before it is full.                                  *)
Boundary(h) ==
  LET last[i \in 1 .. Len(h)] ==
        IF i = 1 THEN 1
        ELSE IF h[i].at - h[last[i - 1]].at >= SlotMin THEN i ELSE last[i - 1]
  IN  last

(* Mutant: the short tail becomes a slot of its own. *)
SysSlotsTail(h, at) ==
  IF Len(h) < 2 \/ at - h[1].at < SlotWindow
    THEN {}
    ELSE {i \in 1 .. Len(h) : Boundary(h)[i] = i} \cup {Len(h)}

(* The reads that bound the slots of the window, {} while the history is   *)
(* shorter than it: the latest read ends the last slot, taking the place   *)
(* of a boundary that has only a short tail behind it.                     *)
SysSlots(h, at) ==
  IF Len(h) < 2 \/ at - h[1].at < SlotWindow
    THEN {}
    ELSE LET full == {i \in 1 .. Len(h) : Boundary(h)[i] = i}
         IN  IF Max(full) = Len(h)
               THEN full
               ELSE (IF Cardinality(full) > 1 THEN full \ {Max(full)} ELSE full) \cup {Len(h)}

-----------------------------------------------------------------------------
(* One poll.                                                               *)

Problems == UNION {[S -> 1 .. 2] : S \in SUBSET Ids}

NoProblems == [id \in {} |-> 0]

(* What ss lists, whether or not it fails: None is no socket at all, which *)
(* is not the same as sockets without a problem.                           *)
Listings == Problems \cup {None}

ProblemsOf(listed) == IF listed = None THEN NoProblems ELSE listed

Snapshot == [at : Int, problems : Problems, full : BOOLEAN]

(* findings.Analyze: what the sockets show, plus the host finding when the *)
(* counter grew between the two reads given.                               *)
Analyze(problems, cur, prev) ==
  IF cur # None /\ prev # None /\ cur.count > prev.count
    THEN [id \in DOMAIN problems \cup {HostId} |-> IF id = HostId THEN 1 ELSE problems[id]]
    ELSE problems

(* Mutant: the history outgrows the buffer by one. *)
RememberedLate(h, entry) ==
  LET longer == Append(h, entry)
  IN  IF Len(longer) > BufferSize + 1 THEN Tail(longer) ELSE longer

(* The reports kept once `entry` is appended. *)
Remembered(h, entry) ==
  LET longer == Append(h, entry)
  IN  IF Len(longer) > BufferSize THEN Tail(longer) ELSE longer

Init ==
  /\ now = 0
  /\ counter = 0
  /\ sysCur = None
  /\ sysPrev = None
  /\ sysHist = <<>>
  /\ buf = <<>>
  /\ history = <<>>
  /\ seen = [id \in {} |-> 0]
  /\ active = [id \in {} |-> 0]
  /\ timeline = [analyses |-> 0, byId |-> [id \in {} |-> 0]]
  /\ taken = 0
  /\ reads = <<>>
  /\ past = <<>>

(* The host counters are rolled forward, when they could be read, whether  *)
(* or not ss returned anything.                                            *)
RollCounters(at, grown) ==
  IF grown = None
    THEN UNCHANGED <<counter, sysCur, sysPrev, sysHist, reads>>
    ELSE LET read == [at |-> at, count |-> counter + grown]
         IN  /\ counter' = counter + grown
             /\ sysPrev' = sysCur
             /\ sysCur' = read
             /\ sysHist' = Trimmed(Append(sysHist, read), at)
             /\ reads' = Append(reads, read)

(* Mutant: a poll that failed half way is skipped, whatever it brought. *)
NoDataStrict(err, listed) == err

(* ss failed and listed nothing.  A success without sockets is a poll like *)
(* any other, and so is a failure half way with some of them.              *)
NoData(err, listed) == err /\ listed = None

(* A poll without data: the last good snapshot stays. *)
IngestFailed(at, grown) ==
  /\ now' = at
  /\ RollCounters(at, grown)
  /\ UNCHANGED <<buf, history, seen, active, timeline>>

(* A poll with data is stored and analysed; the callers log and summarise  *)
(* it.                                                                     *)
IngestData(at, grown, problems) ==
  /\ now' = at
  /\ RollCounters(at, grown)
  /\ LET snap  == [at |-> at, problems |-> problems, full |-> TRUE]
         found == Analyze(problems, sysCur', sysPrev')
         slots == SysSlots(sysHist', at)
     IN  /\ buf' = H!Published(buf, snap)
         /\ history' = Remembered(history, [at |-> at, found |-> found, slots |-> slots])
         /\ seen' = Track(found, at)
         /\ active' = LogChanges(found)
         /\ timeline' = Summarise(found, at)

(* `past` takes every poll that succeeded or listed a socket, and what its *)
(* analysis has to find.                                                   *)
Observe(err, listed, at, grown) ==
  past' = IF ~err \/ listed # None
            THEN Append(past, [at    |-> at,
                               found |-> Analyze(ProblemsOf(listed), sysCur', sysPrev'),
                               read  |-> grown # None])
            ELSE past

(* Ingest of one poll, for which ss failed or not and listed `listed`. *)
Ingest(err, listed, step, grown) ==
  /\ IF NoData(err, listed)
       THEN IngestFailed(now + step, grown)
       ELSE IngestData(now + step, grown, ProblemsOf(listed))
  /\ Observe(err, listed, now + step, grown)

Next ==
  /\ taken < MaxPolls
  /\ taken' = taken + 1
  /\ \E err \in BOOLEAN, listed \in Listings, step \in Steps, grown \in Growth :
       Ingest(err, listed, step, grown)

Spec == Init /\ [][Next]_vars

(* ReportFor(ts) searches newest first and stops at the first report that  *)
(* is not after ts; HasReport is the `ok` it returns.                      *)
LastUpTo(ts) == Max({i \in DOMAIN history : history[i].at <= ts})

HasReport(ts) ==
  /\ \E i \in DOMAIN history : history[i].at <= ts
  /\ history[LastUpTo(ts)].at = ts

ReportFor(ts) == history[LastUpTo(ts)]

-----------------------------------------------------------------------------
(* Properties.                                                             *)

AllIds == Ids \cup {HostId}

Found == UNION {[S -> 1 .. 2] : S \in SUBSET AllIds}

(* The snapshots are of the last polls that brought anything. *)
LastPollsKept ==
  /\ Len(buf) = IF Len(past) < BufferSize THEN Len(past) ELSE BufferSize
  /\ \A i \in DOMAIN buf : buf[i].at = past[Len(past) - Len(buf) + i].at

(* There is a report for each, at its place. *)
ReportsBeside ==
  /\ Len(history) = Len(buf)
  /\ \A i \in DOMAIN buf :
       /\ history[i].at = buf[i].at
       /\ \A id \in Ids :
            /\ id \in DOMAIN history[i].found <=> id \in DOMAIN buf[i].problems
            /\ id \in DOMAIN buf[i].problems =>
                 history[i].found[id] = buf[i].problems[id]
       /\ HasReport(buf[i].at) /\ ReportFor(buf[i].at) = history[i]

(* The buffer holds the last BufferSize polls that brought anything, those *)
(* that failed half way with some sockets too ("skip only when nothing     *)
(* came back", Ingest), and the history the report of each, position by    *)
(* position, once both have filled up; ReportFor finds it: a view of an    *)
(* old snapshot never shows another poll's findings, nor none.             *)
HistoryMatchesBuffer == LastPollsKept /\ ReportsBeside

(* The reads kept are the last ones back to the newest that is at least a  *)
(* window old, and all of them while none is: the windowed retransmit rate *)
(* never looks back less than SlotWindow, nor further than the one read    *)
(* that reaches it, whichever polls failed in between (the trimming loop   *)
(* of Ingest).                                                             *)
WindowReachesBack ==
  LET n    == Len(reads)
      old  == {j \in 1 .. n : reads[n].at - reads[j].at >= SlotWindow}
      from == IF old = {} THEN 1 ELSE Max(old)
  IN  sysHist = SubSeq(reads, from, n)

(* The slots given to the rules cover the whole window, from the oldest    *)
(* read kept to the latest, and none is too short to judge; they are given *)
(* exactly once that much history exists.  (Of polls that could read the   *)
(* counters; the others are judged by the slots as they were.)             *)
SlotsCoverWindow ==
  past # <<>> /\ past[Len(past)].at = now /\ past[Len(past)].read =>
    LET n     == Len(sysHist)
        slots == history[Len(history)].slots
    IN  IF n < 2 \/ now - sysHist[1].at < SlotWindow
          THEN slots = {}
          ELSE /\ {1, n} \subseteq slots
               /\ slots \subseteq 1 .. n
               /\ \A i, j \in slots :
                    i < j => sysHist[j].at - sysHist[i].at >= SlotMin

(* The polls whose analysis found id, by their position; polls that failed *)
(* half way are among them.                                                *)
Appearances(id) == {n \in DOMAIN past : id \in DOMAIN past[n].found}

(* The first poll of the episode that poll n belongs to: absences of up to *)
(* GraceMisses polls in a row do not end an episode.                       *)
EpisodeStart(id, n) ==
  Min({j \in Appearances(id) :
         /\ j <= n
         /\ \A m \in j .. n - 1 :
              \E k \in Appearances(id) : m < k /\ k <= m + GraceMisses + 1})

(* A finding is tracked while its episode may still go on, and its age is  *)
(* counted from the first poll of the episode: neither a flicker nor a     *)
(* failed poll restarts it, nor does a poll that failed half way hide what *)
(* it listed, and one that was gone for longer starts anew.                *)
SinceIsStartOfEpisode ==
  \A id \in AllIds :
    LET alive == {n \in Appearances(id) : n >= Len(past) - GraceMisses}
    IN  /\ id \in DOMAIN seen <=> alive # {}
        /\ alive # {} => seen[id].since = past[EpisodeStart(id, Max(alive))].at

(* What `record` has announced and not yet called resolved is what the UI  *)
(* would still show an age for ("Like the TUI's finding ages", the comment *)
(* of changeLog), so the two never disagree about a finding being over.    *)
LogAgreesWithAges == DOMAIN active = DOMAIN seen

(* check's exit code is that of the worst finding of any poll it analysed, *)
(* however it went on, and UNKNOWN exactly when every poll failed.         *)
StatusIsWorstSeen ==
  LET severities == UNION {{past[n].found[id] : id \in DOMAIN past[n].found} : n \in DOMAIN past}
  IN  Status = IF past = <<>> THEN "UNKNOWN"
               ELSE IF 2 \in severities THEN "CRITICAL"
               ELSE IF 1 \in severities THEN "WARNING" ELSE "OK"
=============================================================================
