------------------------------- MODULE Record -------------------------------
(***************************************************************************)
(* `sstui record` (commands.go): the watch loop polls at every tick until  *)
(* its duration is over or a stop signal cancels its context; RunSS        *)
(* (parser/parser.go) falls back from one ss to two; each poll goes to the *)
(* Recorder (session/recording.go) and then to the session.  The Reader is *)
(* what replay and report make of the file, whatever state it was left in. *)
(*                                                                         *)
(* Concurrent with the loop: the ticker, signals, the goroutine that turns *)
(* a signal into a cancelled context, the ss process, and kill -9.         *)
(***************************************************************************)
EXTENDS Integers, Sequences

CONSTANTS
  Durations,      \* polls asked for, one of them chosen; 0: until stopped
  MaxPolls,       \* bound on the polls taken
  Readings,       \* what the kernel settings may read as
  Empty,          \* the reading without any setting
  Compressed,     \* whether the file is gzipped
  Prompt,         \* whether a signal cancels the context before ss dies of it
  None            \* nil

ASSUME RecordAssumption ==
  /\ Durations \subseteq 0 .. MaxPolls
  /\ MaxPolls \in Nat
  /\ Compressed \in BOOLEAN
  /\ Prompt \in BOOLEAN
  /\ None \notin Readings \cup {Empty}

VARIABLES
  pc,             \* where the loop is
  polls,          \* how many polls were asked for
  i,              \* the loop's counter
  tick,           \* whether the ticker's channel holds a tick
  signalled,      \* whether a stop signal was sent
  cancelled,      \* ctx.Err() # nil
  query,          \* the ss under way: its stage, whether the signal hit it, failures so far
  poll,           \* the poll it gave
  lastSysctl,     \* Recorder.lastSysctl
  werr,           \* whether a write failed, or Close
  file,           \* the complete lines after the header
  cut,            \* whether a partial line follows them
  trailer,        \* whether the gzip trailer was written
  live            \* history variable: the polls ingested, with the settings in effect

vars == <<pc, polls, i, tick, signalled, cancelled, query, poll, lastSysctl,
          werr, file, cut, trailer, live>>

recVars == <<lastSysctl, werr, file, cut, trailer, live>>

-----------------------------------------------------------------------------
(* The recording.                                                          *)

(* Mutant: settings are written whenever they were read, never repeated. *)
LineSettingsOnce(reading) == IF lastSysctl = Empty THEN reading ELSE None

(* The settings field of a poll's line: left out when they did not change, *)
(* and when there are none (omitempty).                                    *)
LineSettings(reading) == IF reading = lastSysctl \/ reading = Empty THEN None ELSE reading

(* The settings in effect after the first k lines, for a reader. *)
Settings[k \in 0 .. Len(file)] ==
  IF k = 0 THEN None
  ELSE IF file[k].sysctl = None THEN Settings[k - 1]
  ELSE file[k].sysctl

(* What a reader hands to the session: every complete line, up to the      *)
(* first cut.                                                              *)
Replayed == [k \in DOMAIN file |-> [n |-> file[k].n, err |-> file[k].err, sysctl |-> Settings[k]]]

(* Mutant: the missing gzip trailer is not noticed. *)
UnclosedByCut == cut

(* Reader.Unclosed at the end of the file. *)
Unclosed == cut \/ (Compressed /\ ~trailer)

-----------------------------------------------------------------------------
(* RunSS.                                                                  *)

Idle == [stage |-> "none", hit |-> FALSE, failed |-> {}, killed |-> {}]

Combined == [Idle EXCEPT !.stage = "combined"]

Init ==
  /\ pc = "query"
  /\ polls \in Durations
  /\ i = 0
  /\ tick = FALSE
  /\ signalled = FALSE
  /\ cancelled = FALSE
  /\ query = Combined
  /\ poll = None
  /\ lastSysctl = Empty
  /\ werr = FALSE
  /\ file = <<>>
  /\ cut = FALSE
  /\ trailer = FALSE
  /\ live = <<>>

(* mergeResults: the error of the two fallback queries. *)
Merged(failed) ==
  IF failed = {} THEN "none" ELSE IF failed = {"tcp", "udp"} THEN "total" ELSE "partial"

(* An ss exits: of its own, or killed along with sstui.  A failure of the  *)
(* combined query is followed by one query per protocol; a missing ss by   *)
(* none.                                                                   *)
QueryEnds ==
  /\ pc = "query"
  /\ Prompt /\ query.hit => cancelled
  /\ \E fails, missing \in BOOLEAN :
       LET failed == query.failed \cup (IF fails THEN {query.stage} ELSE {})
           killed == query.killed \cup (IF fails /\ query.hit THEN {query.stage} ELSE {})
           goOn(stage) == /\ query' = [stage |-> stage, hit |-> FALSE, failed |-> failed \ {"combined"},
                                       killed |-> killed \ {"combined"}]
                          /\ UNCHANGED <<pc, poll>>
           done(err) == /\ poll' = [n |-> i + 1, err |-> err, ours |-> killed # {} /\ err # "none"]
                        /\ pc' = "polled"
                        /\ query' = Idle
       IN  /\ missing => fails /\ query.stage = "combined" /\ ~query.hit
           /\ \/ query.stage = "combined" /\ ~fails /\ done("none")
              \/ query.stage = "combined" /\ missing /\ done("total")
              \/ query.stage = "combined" /\ fails /\ ~missing /\ goOn("tcp")
              \/ query.stage = "tcp" /\ goOn("udp")
              \/ query.stage = "udp" /\ done(Merged(failed))
  /\ UNCHANGED <<polls, i, tick, signalled, cancelled, recVars>>

-----------------------------------------------------------------------------
(* The watch loop.                                                         *)

(* The ticker fires; its channel holds one tick. *)
Tick ==
  /\ pc \notin {"ended", "killed"}
  /\ tick' = TRUE
  /\ UNCHANGED <<pc, polls, i, signalled, cancelled, query, poll, recVars>>

(* A stop signal: Ctrl-C reaches a running ss too, kill does not. *)
Signal ==
  /\ pc \notin {"ended", "killed"}
  /\ ~signalled
  /\ signalled' = TRUE
  /\ \E group \in BOOLEAN :
       query' = IF group /\ pc = "query" THEN [query EXCEPT !.hit = TRUE] ELSE query
  /\ UNCHANGED <<pc, polls, i, tick, cancelled, poll, recVars>>

(* The goroutine of signal.NotifyContext cancels the context. *)
Cancel ==
  /\ signalled
  /\ ~cancelled
  /\ cancelled' = TRUE
  /\ UNCHANGED <<pc, polls, i, tick, signalled, query, poll, recVars>>

(* Mutant: a failed poll is recorded whatever stopped it. *)
DiscardsNever == FALSE

(* A poll that failed once the context was cancelled is dropped. *)
Discards == cancelled /\ poll.err # "none"

(* The poll is handed on, or the loop returns. *)
HandOn ==
  /\ pc = "polled"
  /\ pc' = IF Discards THEN "closing" ELSE "writing"
  /\ UNCHANGED <<polls, i, tick, signalled, cancelled, query, poll, recVars>>

(* Mutant: the number of polls is not looked at. *)
AfterPollEndless == IF cancelled THEN "closing" ELSE "wait"

(* Where the loop goes after a poll was handed on, i' being counted up. *)
AfterPoll ==
  IF cancelled THEN "closing" ELSE IF polls # 0 /\ i' >= polls THEN "closing" ELSE "wait"

Line(reading) ==
  [n |-> poll.n, err |-> poll.err, ours |-> poll.ours, sysctl |-> LineSettings(reading)]

(* What is left of a line on its way: nothing, a part, or all of it. *)
LineLeft ==
  \/ UNCHANGED <<file, cut>>
  \/ cut' = TRUE /\ UNCHANGED file
  \/ /\ \E reading \in Readings : file' = Append(file, Line(reading))
     /\ UNCHANGED cut

(* The line is in the file, and the session ingests the poll. *)
WriteDone ==
  /\ pc = "writing"
  /\ \E reading \in Readings :
       /\ file' = Append(file, Line(reading))
       /\ live' = Append(live, [n |-> poll.n, err |-> poll.err, sysctl |-> reading])
       /\ lastSysctl' = reading
  /\ i' = i + 1
  /\ pc' = AfterPoll
  /\ poll' = None
  /\ UNCHANGED <<polls, tick, signalled, cancelled, query, werr, cut, trailer>>

(* The write or the flush behind it fails; the recording stops. *)
WriteFails ==
  /\ pc = "writing"
  /\ LineLeft
  /\ werr' = TRUE
  /\ cancelled' = TRUE
  /\ pc' = "closing"
  /\ poll' = None
  /\ UNCHANGED <<polls, i, tick, signalled, query, lastSysctl, trailer, live>>

(* Between polls: the next tick, or the cancelled context, whichever the   *)
(* select picks when both are ready.                                       *)
NextTick ==
  /\ pc = "wait"
  /\ tick
  /\ i < MaxPolls
  /\ tick' = FALSE
  /\ pc' = "query"
  /\ query' = Combined
  /\ UNCHANGED <<polls, i, signalled, cancelled, poll, recVars>>

Return ==
  /\ pc = "wait"
  /\ cancelled
  /\ pc' = "closing"
  /\ UNCHANGED <<polls, i, tick, signalled, cancelled, query, poll, recVars>>

(* Recorder.Close.  After a failed write gzip fails too, so there is no    *)
(* trailer; and Close may fail of itself, before or behind the trailer.    *)
(* The command reports either.                                             *)
Close ==
  /\ pc = "closing"
  /\ pc' = "ended"
  /\ \E fails \in BOOLEAN :
       /\ werr' = (werr \/ fails)
       /\ trailer' \in IF ~Compressed \/ werr THEN {FALSE} ELSE IF fails THEN BOOLEAN ELSE {TRUE}
  /\ UNCHANGED <<polls, i, tick, signalled, cancelled, query, poll, lastSysctl, file, cut, live>>

(* kill -9 or a power cut. *)
Kill ==
  /\ pc \notin {"ended", "killed"}
  /\ pc' = "killed"
  /\ IF pc = "writing" THEN LineLeft ELSE UNCHANGED <<file, cut>>
  /\ UNCHANGED <<polls, i, tick, signalled, cancelled, query, poll, lastSysctl,
                 werr, trailer, live>>

Next ==
  \/ QueryEnds \/ HandOn \/ WriteDone \/ WriteFails
  \/ NextTick \/ Return \/ Close
  \/ Tick \/ Signal \/ Cancel \/ Kill

(* The loop runs, ss ends, the ticker fires and a signal is delivered; no  *)
(* signal, failure or kill need ever come.                                 *)
Fairness ==
  /\ WF_vars(QueryEnds)
  /\ WF_vars(HandOn)
  /\ WF_vars(WriteDone \/ WriteFails)
  /\ WF_vars(NextTick)
  /\ WF_vars(Return)
  /\ WF_vars(Close)
  /\ WF_vars(Tick)
  /\ WF_vars(Cancel)

Spec == Init /\ [][Next]_vars /\ Fairness

-----------------------------------------------------------------------------
(* Properties.                                                             *)

(* The file read back gives the session what it saw live, poll for poll    *)
(* and under the same settings, at any moment and after any crash: only a  *)
(* line that was on its way when the process was killed, or its write      *)
(* failed, may come on top.                                                *)
ReplaySeesWhatLiveSaw ==
  /\ Len(live) <= Len(file)
  /\ Len(file) <= Len(live) + 1
  /\ \A k \in DOMAIN live : Replayed[k] = live[k]

(* A compressed recording that reads as closed can be trusted: whatever    *)
(* kill, failed write, signal or failed Close came, it holds every poll    *)
(* handed on, in order, which is all that were asked for unless it was     *)
(* stopped.  And where the command reports success, compressed or not, the *)
(* reader agrees with it.                                                  *)
CleanEndIsTrusted ==
  /\ Compressed /\ pc \in {"ended", "killed"} /\ ~Unclosed =>
       pc = "ended" /\ Len(file) = i /\ (~signalled => i = polls)
  /\ pc = "ended" /\ ~werr => ~Unclosed /\ Len(file) = i /\ (~signalled => i = polls)
  /\ \A k \in DOMAIN file : file[k].n = k

(* The comment of watch: "Ctrl-C reaches the whole foreground process      *)
(* group, so it kills a running ss too; that poll's failure is ours, not   *)
(* the host's", so it must not be recorded.                                *)
OwnFailureNotRecorded == \A k \in DOMAIN file : ~file[k].ours

(* A stop signal, or the duration, ends the command. *)
Stops ==
  /\ signalled ~> pc \in {"ended", "killed"}
  /\ polls # 0 ~> pc \in {"ended", "killed"}
=============================================================================
