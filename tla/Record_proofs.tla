---------------------------- MODULE Record_proofs ----------------------------
(***************************************************************************)
(* Record for any duration, settings and number of polls.                  *)
(***************************************************************************)
EXTENDS Record, SequenceTheorems, WellFoundedInduction, TLAPS

IsSequence(s) == \E S : s \in Seq(S)

LEMMA AppendIs ==
  ASSUME NEW s, IsSequence(s), NEW e
  PROVE  /\ IsSequence(Append(s, e)) /\ Len(s) \in Nat /\ Len(Append(s, e)) = Len(s) + 1
         /\ Append(s, e)[Len(s) + 1] = e
         /\ \A k \in 1 .. Len(s) : Append(s, e)[k] = s[k]
<1>1. PICK S : s \in Seq(S)
  BY DEF IsSequence
<1> DEFINE T == S \cup {e}
<1>2. s \in Seq(T) /\ e \in T
  BY <1>1
<1> HIDE DEF T
<1> QED BY <1>2, AppendProperties DEF IsSequence

LEMMA DomainIs ==
  ASSUME NEW s, IsSequence(s)
  PROVE  DOMAIN s = 1 .. Len(s) /\ Len(s) \in Nat
BY LenProperties DEF IsSequence

-----------------------------------------------------------------------------
(* Polls that our own signal broke.                                        *)

(* A query that the signal killed ended after the context was cancelled,   *)
(* and such a poll is not handed on.                                       *)
OwnInv ==
  /\ DOMAIN query = {"stage", "hit", "failed", "killed"}
  /\ query.killed # {} => cancelled
  /\ pc = "polled" => (poll.ours => cancelled /\ poll.err # "none")
  /\ pc = "writing" => ~poll.ours
  /\ IsSequence(file)
  /\ \A k \in 1 .. Len(file) : ~file[k].ours

LEMMA OwnStep ==
  ASSUME Prompt, OwnInv, [Next]_vars
  PROVE  OwnInv'
<1>1. CASE UNCHANGED vars
  BY <1>1 DEF vars, OwnInv
<1>2. CASE QueryEnds
  <2>1. UNCHANGED <<cancelled, file>>
    BY <1>2 DEF QueryEnds, recVars
  <2>2. PICK fails \in BOOLEAN, missing \in BOOLEAN :
          LET failed == query.failed \cup (IF fails THEN {query.stage} ELSE {})
              killed == query.killed \cup (IF fails /\ query.hit THEN {query.stage} ELSE {})
              goOn(stage) == /\ query' = [stage |-> stage, hit |-> FALSE, failed |-> failed \ {"combined"},
                                          killed |-> killed \ {"combined"}]
                             /\ UNCHANGED <<pc, poll>>
              done(err) == /\ poll' = [n |-> i + 1, err |-> err, ours |-> killed # {} /\ err # "none"]
                           /\ pc' = "polled"
                           /\ query' = Idle
          IN  \/ goOn("tcp") \/ goOn("udp")
              \/ \E err \in {"none", "total", "partial"} : done(err)
    BY <1>2 DEF QueryEnds, Merged
  <2> DEFINE failed == query.failed \cup (IF fails THEN {query.stage} ELSE {})
             killed == query.killed \cup (IF fails /\ query.hit THEN {query.stage} ELSE {})
  <2>3. killed # {} => cancelled
    BY <1>2 DEF QueryEnds, OwnInv
  <2> HIDE DEF failed, killed
  <2>4. CASE \E stage : /\ query' = [stage |-> stage, hit |-> FALSE, failed |-> failed \ {"combined"},
                                     killed |-> killed \ {"combined"}]
                        /\ UNCHANGED <<pc, poll>>
    BY <1>2, <2>1, <2>3, <2>4 DEF QueryEnds, OwnInv
  <2>5. CASE \E err : /\ poll' = [n |-> i + 1, err |-> err, ours |-> killed # {} /\ err # "none"]
                      /\ pc' = "polled" /\ query' = Idle
    <3>1. PICK err : /\ poll' = [n |-> i + 1, err |-> err, ours |-> killed # {} /\ err # "none"]
                     /\ pc' = "polled" /\ query' = Idle
      BY <2>5
    <3>2. poll'.err = err /\ (poll'.ours <=> killed # {} /\ err # "none")
      BY <3>1, Zenon
    <3>3. cancelled' = cancelled /\ file' = file
      BY <2>1
    <3>4. poll'.ours => cancelled' /\ poll'.err # "none"
      BY <2>3, <3>2, <3>3
    <3>5. DOMAIN query' = {"stage", "hit", "failed", "killed"} /\ query'.killed = {}
      BY <3>1 DEF Idle
    <3> QED BY <3>1, <3>3, <3>4, <3>5 DEF OwnInv
  <2> QED BY <2>2, <2>4, <2>5 DEF failed, killed
<1>3. CASE HandOn
  BY <1>3 DEF HandOn, Discards, recVars, OwnInv
<1>4. ASSUME NEW reading, pc = "writing", ~poll.ours,
             file' = Append(file, Line(reading))
      PROVE  IsSequence(file') /\ \A k \in 1 .. Len(file') : ~file'[k].ours
  <2> DEFINE line == Line(reading)
  <2>1. ~line.ours
    BY <1>4 DEF Line
  <2> HIDE DEF line
  <2>2. IsSequence(file) /\ file' = Append(file, line)
    BY <1>4 DEF OwnInv, line
  <2>3. /\ IsSequence(file') /\ Len(file) \in Nat /\ Len(file') = Len(file) + 1
        /\ file'[Len(file) + 1] = line
        /\ \A k \in 1 .. Len(file) : file'[k] = file[k]
    BY <2>2, AppendIs
  <2> QED BY <2>1, <2>3 DEF OwnInv
<1>5. CASE WriteDone
  <2>1. IsSequence(file') /\ \A k \in 1 .. Len(file') : ~file'[k].ours
    BY <1>4, <1>5 DEF WriteDone, OwnInv
  <2>2. pc' \in {"closing", "wait"} /\ UNCHANGED <<cancelled, query>>
    BY <1>5 DEF WriteDone, AfterPoll
  <2> QED BY <2>1, <2>2 DEF OwnInv
<1>6. CASE WriteFails
  <2>1. IsSequence(file') /\ \A k \in 1 .. Len(file') : ~file'[k].ours
    <3>1. CASE UNCHANGED file
      BY <3>1 DEF OwnInv
    <3>2. CASE ~UNCHANGED file
      BY <1>4, <1>6, <3>2 DEF WriteFails, LineLeft, OwnInv
    <3> QED BY <3>1, <3>2
  <2>2. pc' = "closing" /\ cancelled' = TRUE /\ UNCHANGED query
    BY <1>6 DEF WriteFails
  <2> QED BY <2>1, <2>2 DEF OwnInv
<1>7. CASE NextTick
  BY <1>7 DEF NextTick, OwnInv, Combined, Idle, recVars
<1>8. CASE Return \/ Close \/ Tick
  BY <1>8 DEF Return, Close, Tick, OwnInv, recVars
<1>9. CASE Signal
  BY <1>9 DEF Signal, OwnInv, recVars
<1>10. CASE Cancel
  BY <1>10 DEF Cancel, OwnInv, recVars
<1>11. CASE Kill
  <2>1. IsSequence(file') /\ \A k \in 1 .. Len(file') : ~file'[k].ours
    <3>1. CASE UNCHANGED file
      BY <3>1 DEF OwnInv
    <3>2. CASE ~UNCHANGED file
      BY <1>4, <1>11, <3>2 DEF Kill, LineLeft, OwnInv
    <3> QED BY <3>1, <3>2
  <2>2. pc' = "killed" /\ UNCHANGED <<cancelled, query>>
    BY <1>11 DEF Kill
  <2> QED BY <2>1, <2>2 DEF OwnInv
<1> QED BY <1>1, <1>2, <1>3, <1>5, <1>6, <1>7, <1>8, <1>9, <1>10, <1>11 DEF Next

(* If the context is cancelled before an ss can die of the same signal, no *)
(* poll that our own stop broke is in the file, at whatever stage of RunSS *)
(* and of the loop it came.                                                *)
THEOREM OwnFailureSafety ==
  ASSUME Prompt
  PROVE  Spec => []OwnFailureNotRecorded
<1>1. Init => OwnInv
  <2>1. Len(<<>>) = 0 /\ IsSequence(<<>>)
    BY DEF IsSequence
  <2> QED BY <2>1 DEF Init, OwnInv, Combined, Idle
<1>2. OwnInv => OwnFailureNotRecorded
  BY DomainIs DEF OwnInv, OwnFailureNotRecorded
<1>3. OwnInv /\ [Next]_vars => OwnInv'
  BY OwnStep
<1> QED BY <1>1, <1>2, <1>3, PTL DEF Spec

-----------------------------------------------------------------------------
(* The end of a recording.                                                 *)

(* The loop stops for the duration, a signal or a failed write; the lines  *)
(* are the polls in their order; the trailer comes with Close alone.       *)
EndInv ==
  /\ i \in Nat /\ polls \in Nat
  /\ cancelled => signalled \/ werr
  /\ werr => pc \in {"closing", "ended", "killed"}
  /\ pc \in {"query", "polled", "writing", "wait"} => polls = 0 \/ i < polls
  /\ pc = "closing" /\ ~signalled /\ ~werr => i = polls
  /\ pc = "ended" /\ ~signalled /\ ~werr => i = polls
  /\ pc \in {"polled", "writing"} => poll.n = i + 1
  /\ trailer => pc = "ended" /\ ~cut /\ Len(file) = i /\ (~signalled => i = polls)
  /\ pc = "ended" /\ ~werr /\ Compressed => trailer
  /\ cut => pc = "killed" \/ werr
  /\ IsSequence(file)
  /\ \A k \in 1 .. Len(file) : file[k].n = k
  /\ pc # "killed" /\ ~werr => Len(file) = i

LEMMA EndStep ==
  ASSUME EndInv, [Next]_vars
  PROVE  EndInv'
<1>1. CASE UNCHANGED vars
  BY <1>1 DEF vars, EndInv
<1>2. CASE QueryEnds
  <2>1. /\ pc = "query" /\ UNCHANGED <<polls, i, signalled, cancelled, werr, cut, trailer, file>>
        /\ \/ pc' = pc
           \/ pc' = "polled" /\ poll'.n = i + 1
    BY <1>2 DEF QueryEnds, recVars
  <2> QED BY <2>1 DEF EndInv
<1>3. CASE HandOn
  BY <1>3 DEF HandOn, Discards, recVars, EndInv
<1>4. ASSUME NEW reading, pc = "writing",
             file' = Append(file, Line(reading))
      PROVE  IsSequence(file') /\ Len(file') = i + 1 /\ \A k \in 1 .. Len(file') : file'[k].n = k
  <2> DEFINE line == Line(reading)
  <2>1. line.n = i + 1 /\ Len(file) = i /\ i \in Nat
    BY <1>4 DEF EndInv, Line
  <2> HIDE DEF line
  <2>2. IsSequence(file) /\ file' = Append(file, line)
    BY <1>4 DEF EndInv, line
  <2>3. /\ IsSequence(file') /\ Len(file) \in Nat /\ Len(file') = Len(file) + 1
        /\ file'[Len(file) + 1] = line
        /\ \A k \in 1 .. Len(file) : file'[k] = file[k]
    BY <2>2, AppendIs
  <2>4. ASSUME NEW k \in 1 .. Len(file')
        PROVE  file'[k].n = k
    <3>1. CASE k = Len(file) + 1
      BY <2>1, <2>3, <3>1
    <3>2. CASE k \in 1 .. Len(file)
      BY <2>3, <3>2 DEF EndInv
    <3> QED BY <2>3, <3>1, <3>2
  <2> QED BY <2>1, <2>3, <2>4
<1>5. CASE WriteDone
  <2>1. IsSequence(file') /\ Len(file') = i + 1 /\ \A k \in 1 .. Len(file') : file'[k].n = k
    BY <1>4, <1>5 DEF WriteDone
  <2>2. /\ pc = "writing" /\ i' = i + 1 /\ pc' = AfterPoll
        /\ UNCHANGED <<polls, signalled, cancelled, werr, cut, trailer>>
    BY <1>5 DEF WriteDone
  <2> QED BY <2>1, <2>2 DEF EndInv, AfterPoll
<1>6. CASE WriteFails
  <2>1. /\ pc = "writing" /\ werr' = TRUE /\ cancelled' = TRUE /\ pc' = "closing"
        /\ UNCHANGED <<polls, i, signalled, trailer>>
    BY <1>6 DEF WriteFails
  <2>2. IsSequence(file') /\ \A k \in 1 .. Len(file') : file'[k].n = k
    <3>1. CASE UNCHANGED file
      BY <3>1 DEF EndInv
    <3>2. CASE ~UNCHANGED file
      BY <1>4, <1>6, <3>2 DEF WriteFails, LineLeft
    <3> QED BY <3>1, <3>2
  <2> QED BY <2>1, <2>2 DEF EndInv
<1>7. CASE NextTick
  BY <1>7 DEF NextTick, EndInv, recVars
<1>8. CASE Return
  BY <1>8 DEF Return, EndInv, recVars
<1>9. CASE Close
  <2>1. /\ pc = "closing" /\ pc' = "ended" /\ UNCHANGED <<polls, i, signalled, cancelled, file, cut>>
        /\ trailer' => ~werr
        /\ ~werr' => ~werr /\ (Compressed => trailer')
        /\ werr => werr'
    BY <1>9, RecordAssumption DEF Close
  <2> QED BY <2>1 DEF EndInv
<1>10. CASE Tick \/ Signal
  BY <1>10 DEF Tick, Signal, EndInv, recVars
<1>11. CASE Cancel
  BY <1>11 DEF Cancel, EndInv, recVars
<1>12. CASE Kill
  <2>1. IsSequence(file') /\ \A k \in 1 .. Len(file') : file'[k].n = k
    <3>1. CASE UNCHANGED file
      BY <3>1 DEF EndInv
    <3>2. CASE ~UNCHANGED file
      BY <1>4, <1>12, <3>2 DEF Kill, LineLeft
    <3> QED BY <3>1, <3>2
  <2>2. /\ pc \notin {"ended", "killed"} /\ pc' = "killed"
        /\ UNCHANGED <<polls, i, signalled, cancelled, werr, trailer>>
    BY <1>12 DEF Kill
  <2> QED BY <2>1, <2>2 DEF EndInv
<1> QED BY <1>1, <1>2, <1>3, <1>5, <1>6, <1>7, <1>8, <1>9, <1>10, <1>11, <1>12 DEF Next

(* A compressed recording that reads as closed misses no poll, and one     *)
(* whose command reported success reads as closed, wherever a kill, a      *)
(* signal, a failed write or a failed Close came, for any duration.        *)
THEOREM EndSafety == Spec => []CleanEndIsTrusted
<1>1. Init => EndInv
  <2> SUFFICES ASSUME Init
               PROVE  EndInv
    OBVIOUS
  <2>1. Len(file) = 0 /\ IsSequence(file)
    BY DEF Init, IsSequence
  <2>2. polls \in Nat
    BY RecordAssumption DEF Init
  <2> QED BY <2>1, <2>2 DEF Init, EndInv
<1>2. EndInv => CleanEndIsTrusted
  BY DomainIs DEF EndInv, CleanEndIsTrusted, Unclosed
<1>3. EndInv /\ [Next]_vars => EndInv'
  BY EndStep
<1> QED BY <1>1, <1>2, <1>3, PTL DEF Spec

-----------------------------------------------------------------------------
(* What a reader makes of the file.                                        *)

(* A non-empty set of naturals has a least element: induction, in the form *)
(* of a least counterexample.                                              *)
LEMMA Least ==
  ASSUME NEW T \in SUBSET Nat, T # {}
  PROVE  \E m \in T : \A n \in T : m <= n
<1> DEFINE Less == OpToRel(<, Nat)
<1>1. IsWellFoundedOn(Less, Nat)
  BY NatLessThanWellFounded
<1>2. ASSUME NEW x \in Nat, NEW y \in Nat, x < y
      PROVE  <<x, y>> \in Less
  <2>1. Less = {ss \in Nat \X Nat : ss[1] < ss[2]}
    BY Zenon DEF OpToRel
  <2>2. <<x, y>> \in Nat \X Nat /\ <<x, y>>[1] = x /\ <<x, y>>[2] = y
    OBVIOUS
  <2> HIDE DEF Less
  <2> QED BY <1>2, <2>1, <2>2
<1> HIDE DEF Less
<1>3. PICK m \in T : \A n \in T : ~(<<n, m>> \in Less)
  BY <1>1, WFMin
<1>4. ASSUME NEW n \in T
      PROVE  m <= n
  <2>1. ~(n < m)
    BY <1>2, <1>3
  <2> QED BY <2>1
<1> QED BY <1>4

(* The settings after k lines are those of the last line that has any: it  *)
(* is what the definition of Settings, which looks one line back, asks of  *)
(* a function.                                                             *)
LEMMA SettingsUnfold ==
  ASSUME IsSequence(file)
  PROVE  Settings = [k \in 0 .. Len(file) |->
                       IF k = 0 THEN None
                       ELSE IF file[k].sysctl = None THEN Settings[k - 1]
                       ELSE file[k].sysctl]
<1> DEFINE Told(k) == {j \in 1 .. k : file[j].sysctl # None}
           Last(k) == CHOOSE j \in Told(k) : \A l \in Told(k) : l <= j
           g == [k \in 0 .. Len(file) |-> IF Told(k) = {} THEN None ELSE file[Last(k)].sysctl]
<1>1. Len(file) \in Nat
  BY DomainIs
<1>2. ASSUME NEW k \in 0 .. Len(file)
      PROVE  g[k] = IF k = 0 THEN None
                    ELSE IF file[k].sysctl = None THEN g[k - 1]
                    ELSE file[k].sysctl
  <2>1. CASE k = 0
    BY <2>1
  <2>2. CASE k # 0 /\ file[k].sysctl = None
    <3>1. k - 1 \in 0 .. Len(file) /\ Told(k) = Told(k - 1)
      BY <1>1, <2>2
    <3>2. g[k] = IF Told(k) = {} THEN None ELSE file[Last(k)].sysctl
      OBVIOUS
    <3>3. g[k - 1] = IF Told(k - 1) = {} THEN None ELSE file[Last(k - 1)].sysctl
      BY <3>1
    <3> HIDE DEF Told, g
    <3>4. Last(k) = Last(k - 1)
      BY <3>1
    <3> HIDE DEF Last
    <3> QED BY <2>2, <3>1, <3>2, <3>3, <3>4
  <2>3. CASE k # 0 /\ file[k].sysctl # None
    <3>1. k \in Told(k) /\ \A l \in Told(k) : l <= k /\ l \in Int
      BY <1>1, <2>3
    <3>2. \A j \in Told(k) : (\A l \in Told(k) : l <= j) => j = k
      BY <1>1, <3>1
    <3> HIDE DEF Told
    <3>3. Last(k) = k
      BY <3>1, <3>2, Zenon
    <3> QED BY <2>3, <3>1, <3>3
  <2> QED BY <2>1, <2>2, <2>3
<1>3. g = [k \in 0 .. Len(file) |-> IF k = 0 THEN None
                                    ELSE IF file[k].sysctl = None THEN g[k - 1]
                                    ELSE file[k].sysctl]
  <2>1. g = [k \in 0 .. Len(file) |-> g[k]]
    OBVIOUS
  <2> HIDE DEF g
  <2> QED BY <1>2, <2>1
<1> HIDE DEF g
<1>4. \E f : f = [k \in 0 .. Len(file) |-> IF k = 0 THEN None
                                    ELSE IF file[k].sysctl = None THEN f[k - 1]
                                    ELSE file[k].sysctl]
  BY <1>3
<1> QED BY <1>4, Zenon DEF Settings

(* A line holds the settings of its poll, or none when they are those of   *)
(* the poll before.                                                        *)
Explains(k) ==
  /\ file[k].n = live[k].n /\ file[k].err = live[k].err
  /\ live[k].sysctl # None
  /\ IF file[k].sysctl = None
       THEN k > 1 /\ live[k].sysctl = live[k - 1].sysctl
       ELSE file[k].sysctl = live[k].sysctl

ReplayInv ==
  /\ IsSequence(file) /\ IsSequence(live)
  /\ Len(live) <= Len(file) /\ Len(file) <= Len(live) + 1
  /\ pc \notin {"closing", "ended", "killed"} => Len(file) = Len(live)
  /\ lastSysctl = IF Len(live) = 0 THEN Empty ELSE live[Len(live)].sysctl
  /\ \A k \in 1 .. Len(live) : Explains(k)
  /\ \A k \in 1 .. Len(live) : live[k] = [n |-> live[k].n, err |-> live[k].err, sysctl |-> live[k].sysctl]

LEMMA ReplayFound ==
  ASSUME ReplayInv
  PROVE  ReplaySeesWhatLiveSaw
<1>1. /\ DOMAIN file = 1 .. Len(file) /\ Len(file) \in Nat
      /\ DOMAIN live = 1 .. Len(live) /\ Len(live) \in Nat
  BY DomainIs DEF ReplayInv
<1>2. ASSUME NEW k \in 1 .. Len(file)
      PROVE  Settings[k] = IF file[k].sysctl = None THEN Settings[k - 1] ELSE file[k].sysctl
  <2>1. k \in 0 .. Len(file) /\ k # 0
    BY <1>1
  <2>2. IsSequence(file)
    BY DEF ReplayInv
  <2>3. Settings = [j \in 0 .. Len(file) |->
                      IF j = 0 THEN None
                      ELSE IF file[j].sysctl = None THEN Settings[j - 1]
                      ELSE file[j].sysctl]
    BY <2>2, SettingsUnfold
  <2> QED BY <2>1, <2>3
<1> DEFINE Wrong == {k \in 1 .. Len(live) : Settings[k] # live[k].sysctl}
<1>3. Wrong = {}
  <2> SUFFICES ASSUME Wrong # {} PROVE FALSE
    OBVIOUS
  <2>1. Wrong \in SUBSET Nat
    BY <1>1
  <2> HIDE DEF Wrong
  <2>2. PICK k \in Wrong : \A j \in Wrong : k <= j
    BY <2>1, Least
  <2> USE DEF Wrong
  <2>3. k \in 1 .. Len(live) /\ k \in 1 .. Len(file) /\ Settings[k] # live[k].sysctl
    <3>1. k \in 1 .. Len(live) /\ Settings[k] # live[k].sysctl
      BY <2>2
    <3>2. Len(live) <= Len(file)
      BY DEF ReplayInv
    <3> QED BY <1>1, <3>1, <3>2
  <2>4. Explains(k)
    BY <2>3 DEF ReplayInv
  <2>5. file[k].sysctl = None /\ k > 1 /\ live[k].sysctl = live[k - 1].sysctl
    BY <1>2, <2>3, <2>4 DEF Explains
  <2>6. k - 1 \in 1 .. Len(live) /\ k - 1 \notin Wrong
    BY <1>1, <2>2, <2>3, <2>5
  <2> QED BY <1>2, <2>3, <2>5, <2>6
<1>4. \A k \in 1 .. Len(live) : Replayed[k] = live[k]
  <2> TAKE k \in 1 .. Len(live)
  <2>1. k \in DOMAIN file
    <3>1. Len(live) <= Len(file)
      BY DEF ReplayInv
    <3> QED BY <1>1, <3>1
  <2>2. Settings[k] = live[k].sysctl
    BY <1>3
  <2>3. /\ file[k].n = live[k].n /\ file[k].err = live[k].err
        /\ live[k] = [n |-> live[k].n, err |-> live[k].err, sysctl |-> live[k].sysctl]
    BY DEF ReplayInv, Explains
  <2>4. Replayed[k] = [n |-> file[k].n, err |-> file[k].err, sysctl |-> Settings[k]]
    BY <2>1 DEF Replayed
  <2> QED BY <2>2, <2>3, <2>4
<1> QED BY <1>1, <1>4 DEF ReplayInv, ReplaySeesWhatLiveSaw

LEMMA ReplayStep ==
  ASSUME Empty \notin Readings, ReplayInv, [Next]_vars
  PROVE  ReplayInv'
<1>1. CASE /\ UNCHANGED <<file, live, lastSysctl>>
           /\ pc' \notin {"closing", "ended", "killed"} => pc \notin {"closing", "ended", "killed"}
  BY <1>1 DEF ReplayInv, Explains
<1>2. ASSUME pc = "writing", NEW reading \in Readings,
             file' = Append(file, Line(reading))
      PROVE  /\ IsSequence(file') /\ Len(file') = Len(live) + 1
             /\ file'[Len(live) + 1].n = poll.n /\ file'[Len(live) + 1].err = poll.err
             /\ file'[Len(live) + 1].sysctl = LineSettings(reading)
             /\ \A k \in 1 .. Len(live) : file'[k] = file[k]
  <2> DEFINE line == Line(reading)
  <2>1. line.n = poll.n /\ line.err = poll.err /\ line.sysctl = LineSettings(reading)
    BY DEF Line
  <2> HIDE DEF line
  <2>2. IsSequence(file) /\ Len(file) = Len(live) /\ file' = Append(file, line)
    BY <1>2 DEF ReplayInv, line
  <2> QED BY <2>1, <2>2, AppendIs
<1>3. CASE WriteDone
  <2>1. PICK reading \in Readings :
          /\ file' = Append(file, Line(reading))
          /\ live' = Append(live, [n |-> poll.n, err |-> poll.err, sysctl |-> reading])
          /\ lastSysctl' = reading
    BY <1>3 DEF WriteDone
  <2>0. PICK m : m = Len(live)
    OBVIOUS
  <2> DEFINE entry == [n |-> poll.n, err |-> poll.err, sysctl |-> reading]
  <2>2. /\ pc = "writing" /\ IsSequence(live) /\ m \in Nat
    BY <1>3, <2>0, DomainIs DEF WriteDone, ReplayInv
  <2>3. /\ IsSequence(file') /\ Len(file') = m + 1
        /\ file'[m + 1].n = poll.n /\ file'[m + 1].err = poll.err
        /\ file'[m + 1].sysctl = LineSettings(reading)
        /\ \A k \in 1 .. m : file'[k] = file[k]
    BY <1>2, <2>0, <2>1, <2>2
  <2>4. /\ entry.n = poll.n /\ entry.err = poll.err /\ entry.sysctl = reading
        /\ entry = [n |-> entry.n, err |-> entry.err, sysctl |-> entry.sysctl]
    OBVIOUS
  <2> HIDE DEF entry
  <2>5. /\ IsSequence(live') /\ Len(live') = m + 1 /\ live'[m + 1] = entry
        /\ \A k \in 1 .. m : live'[k] = live[k]
    BY <2>0, <2>1, <2>2, AppendIs DEF entry
  <2>6. LineSettings(reading) = IF reading = lastSysctl THEN None ELSE reading
    BY DEF LineSettings
  <2>7. lastSysctl = IF m = 0 THEN Empty ELSE live[m].sysctl
    BY <2>0 DEF ReplayInv
  <2>8. reading # None /\ reading # Empty
    BY RecordAssumption
  <2>9. Explains(m + 1)'
    <3>1. /\ file'[m + 1].n = live'[m + 1].n /\ file'[m + 1].err = live'[m + 1].err
          /\ live'[m + 1].sysctl = reading /\ reading # None
      BY <2>3, <2>4, <2>5, <2>8
    <3>2. CASE reading = lastSysctl
      <4>1. m # 0 /\ reading = live[m].sysctl
        BY <2>7, <2>8, <3>2
      <4>2. m + 1 > 1 /\ (m + 1) - 1 = m /\ m \in 1 .. m
        BY <2>2, <4>1
      <4>3. file'[m + 1].sysctl = None /\ live'[m] = live[m]
        BY <2>3, <2>5, <2>6, <3>2, <4>2
      <4> QED BY <3>1, <4>1, <4>2, <4>3 DEF Explains
    <3>3. CASE reading # lastSysctl
      BY <2>3, <2>6, <2>8, <3>1, <3>3 DEF Explains
    <3> QED BY <3>2, <3>3
  <2>10. ASSUME NEW k \in 1 .. m
         PROVE  Explains(k)'
    <3>1. Explains(k) /\ (k > 1 => k - 1 \in 1 .. m)
      BY <2>0, <2>2 DEF ReplayInv
    <3> QED BY <2>3, <2>5, <3>1 DEF Explains
  <2>11. \A k \in 1 .. Len(live') : k \in 1 .. m \/ k = m + 1
    BY <2>2, <2>5
  <2>12. \A k \in 1 .. m : live[k] = [n |-> live[k].n, err |-> live[k].err, sysctl |-> live[k].sysctl]
    BY <2>0 DEF ReplayInv
  <2>13. \A k \in 1 .. Len(live') : Explains(k)'
    BY <2>9, <2>10, <2>11
  <2>14. \A k \in 1 .. Len(live') :
           live'[k] = [n |-> live'[k].n, err |-> live'[k].err, sysctl |-> live'[k].sysctl]
    BY <2>4, <2>5, <2>11, <2>12
  <2>15. lastSysctl' = IF Len(live') = 0 THEN Empty ELSE live'[Len(live')].sysctl
    BY <2>1, <2>2, <2>4, <2>5
  <2> QED BY <2>2, <2>3, <2>5, <2>13, <2>14, <2>15 DEF ReplayInv
<1>4. CASE Kill \/ WriteFails
  <2>1. pc' \in {"closing", "killed"} /\ UNCHANGED <<live, lastSysctl>>
    BY <1>4 DEF Kill, WriteFails
  <2>2. CASE UNCHANGED file
    BY <2>1, <2>2 DEF ReplayInv, Explains
  <2>3. CASE ~UNCHANGED file
    <3>1. /\ IsSequence(file') /\ Len(file') = Len(live) + 1
          /\ \A k \in 1 .. Len(live) : file'[k] = file[k]
      BY <1>2, <1>4, <2>3 DEF Kill, WriteFails, LineLeft
    <3>2. Len(live) \in Nat
      BY DomainIs DEF ReplayInv
    <3> QED BY <2>1, <3>1, <3>2 DEF ReplayInv, Explains
  <2> QED BY <2>2, <2>3
<1>5. CASE UNCHANGED vars
  BY <1>1, <1>5 DEF vars
<1>6. CASE QueryEnds \/ HandOn \/ NextTick \/ Return \/ Close \/ Tick \/ Signal \/ Cancel
  BY <1>1, <1>6 DEF QueryEnds, HandOn, NextTick, Return, Close, Tick, Signal, Cancel, recVars
<1> QED BY <1>3, <1>4, <1>5, <1>6 DEF Next

(* A replay shows what was seen live, poll for poll and under the settings *)
(* in effect, wherever the recording ended and for any number of polls, as *)
(* long as the settings are never unreadable (a line without settings      *)
(* says that they did not change).                                         *)
THEOREM ReplaySafety ==
  ASSUME Empty \notin Readings
  PROVE  Spec => []ReplaySeesWhatLiveSaw
<1>1. Init => ReplayInv
  <2> SUFFICES ASSUME Init
               PROVE  ReplayInv
    OBVIOUS
  <2>1. Len(file) = 0 /\ IsSequence(file) /\ Len(live) = 0 /\ IsSequence(live)
    BY DEF Init, IsSequence
  <2> QED BY <2>1 DEF Init, ReplayInv
<1>2. ReplayInv => ReplaySeesWhatLiveSaw
  BY ReplayFound
<1>3. ReplayInv /\ [Next]_vars => ReplayInv'
  BY ReplayStep
<1> QED BY <1>1, <1>2, <1>3, PTL DEF Spec
=============================================================================
