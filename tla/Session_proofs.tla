--------------------------- MODULE Session_proofs ---------------------------
(***************************************************************************)
(* Session for every buffer size, grace period, slot length and set of     *)
(* findings, and any number of polls.                                      *)
(***************************************************************************)
EXTENDS Session, SequenceTheorems, FiniteSetTheorems, WellFoundedInduction, TLAPS

SeenEntry   == [since : Int, misses : Nat]
ActiveEntry == [misses : Nat]

(* A poll without data, and one with, as the properties see them. *)
Failed(at, grown) == IngestFailed(at, grown) /\ past' = past
Data(at, grown, problems) ==
  /\ IngestData(at, grown, problems)
  /\ past' = Append(past, [at    |-> at,
                           found |-> Analyze(problems, sysCur', sysPrev'),
                           read  |-> grown # None])

(* The step of a poll, without what it does to the bound on polls: what is *)
(* taken to bring nothing is what `past` leaves out.                       *)
LEMMA PollCases ==
  ASSUME [Next]_vars
  PROVE  \/ UNCHANGED vars
         \/ \E step \in Steps, grown \in Growth : Failed(now + step, grown)
         \/ \E step \in Steps, grown \in Growth, problems \in Problems :
              Data(now + step, grown, problems)
<1>1. NoProblems \in Problems
  BY DEF NoProblems, Problems
<1>2. CASE Next
  <2>1. PICK err \in BOOLEAN, listed \in Listings, step \in Steps, grown \in Growth :
          Ingest(err, listed, step, grown)
    BY <1>2 DEF Next
  <2>2. ProblemsOf(listed) \in Problems
    BY <1>1 DEF ProblemsOf, Listings
  <2>3. CASE NoData(err, listed)
    <3>1. Failed(now + step, grown)
      BY <2>1, <2>3 DEF Ingest, Observe, NoData, Failed
    <3> QED BY <3>1
  <2>4. CASE ~NoData(err, listed)
    <3>1. Data(now + step, grown, ProblemsOf(listed))
      BY <2>1, <2>4 DEF Ingest, Observe, NoData, Data
    <3> QED BY <2>2, <3>1
  <2> QED BY <2>3, <2>4
<1> QED BY <1>2

-----------------------------------------------------------------------------
(* Ages and the change log.                                                *)

(* The tracker and the change log count the same misses. *)
AgesInv ==
  /\ now \in Int
  /\ seen \in [DOMAIN seen -> SeenEntry]
  /\ active \in [DOMAIN seen -> ActiveEntry]
  /\ \A id \in DOMAIN seen : active[id].misses = seen[id].misses

LEMMA AgesStep == AgesInv /\ [Next]_vars => AgesInv'
<1> SUFFICES ASSUME AgesInv, [Next]_vars
             PROVE  AgesInv'
  OBVIOUS
<1>1. CASE UNCHANGED vars
  BY <1>1 DEF vars, AgesInv
<1>2. ASSUME NEW step \in Steps, NEW grown \in Growth, Failed(now + step, grown)
      PROVE  AgesInv'
  BY <1>2, SessionAssumption DEF Failed, IngestFailed, AgesInv
<1>3. ASSUME NEW step \in Steps, NEW grown \in Growth, NEW problems \in Problems,
             Data(now + step, grown, problems)
      PROVE  AgesInv'
  <2> DEFINE at    == now + step
             found == Analyze(problems, sysCur', sysPrev')
             kept  == {id \in DOMAIN seen \ DOMAIN found : seen[id].misses < GraceMisses}
             gone  == {id \in DOMAIN active \ DOMAIN found : active[id].misses < GraceMisses}
  <2>1. /\ now' = at
        /\ seen' = Aged(seen, found, GraceMisses, [since |-> at, misses |-> 0])
        /\ active' = Aged(active, found, GraceMisses, [misses |-> 0])
    BY <1>3 DEF Data, IngestData, Track, LogChanges
  <2>2. at \in Int
    BY SessionAssumption DEF AgesInv
  <2>3. gone = kept
    BY DEF AgesInv
  <2> HIDE DEF found, at
  <2>4. [since |-> at, misses |-> 0] \in SeenEntry /\ [misses |-> 0] \in ActiveEntry
    BY <2>2 DEF SeenEntry, ActiveEntry
  <2> DEFINE new == [since |-> at, misses |-> 0]
  <2> HIDE DEF new, kept, gone
  <2>5. /\ seen' \in [DOMAIN found \cup kept -> SeenEntry]
        /\ \A id \in DOMAIN found :
             seen'[id] = IF id \in DOMAIN seen THEN [since |-> seen[id].since, misses |-> 0] ELSE new
        /\ \A id \in kept : seen'[id] = [since |-> seen[id].since, misses |-> seen[id].misses + 1]
    <3>1. seen \in [DOMAIN seen -> SeenEntry] /\ new \in SeenEntry
      BY <2>4 DEF AgesInv, new
    <3>2. kept = {id \in DOMAIN seen \ DOMAIN found : seen[id].misses < GraceMisses}
      BY DEF kept
    <3>3. seen' = Aged(seen, found, GraceMisses, new)
      BY <2>1 DEF new
    <3> QED BY <3>1, <3>2, <3>3 DEF Aged, SeenEntry
  <2>6. /\ active' \in [DOMAIN found \cup gone -> ActiveEntry]
        /\ \A id \in DOMAIN found :
             active'[id] = [misses |-> 0]
        /\ \A id \in gone : active'[id] = [misses |-> active[id].misses + 1]
    <3>1. active \in [DOMAIN active -> ActiveEntry]
      BY DEF AgesInv
    <3>2. gone = {id \in DOMAIN active \ DOMAIN found : active[id].misses < GraceMisses}
      BY DEF gone
    <3> QED BY <2>1, <2>4, <3>1, <3>2 DEF Aged, ActiveEntry
  <2>7. ASSUME NEW id \in DOMAIN found \cup kept
        PROVE  active'[id].misses = seen'[id].misses
    <3>1. CASE id \in DOMAIN found
      BY <3>1, <2>5, <2>6 DEF new
    <3>2. CASE id \in kept
      <4>1. id \in DOMAIN seen
        BY <3>2 DEF kept
      <4> QED BY <3>2, <4>1, <2>3, <2>5, <2>6 DEF AgesInv
    <3> QED BY <3>1, <3>2
  <2> QED BY <2>1, <2>2, <2>3, <2>5, <2>6, <2>7 DEF AgesInv
<1> QED BY <1>1, <1>2, <1>3, PollCases

(* What `record` has announced and not yet called resolved is what the UI  *)
(* still shows an age for, whatever comes and goes and for every grace     *)
(* period, though each keeps a count of its own.                           *)
THEOREM LogSafety == Spec => []LogAgreesWithAges
<1>1. Init => AgesInv
  BY DEF Init, AgesInv, SeenEntry, ActiveEntry
<1>2. AgesInv => LogAgreesWithAges
  BY DEF AgesInv, LogAgreesWithAges
<1> QED BY <1>1, <1>2, AgesStep, PTL DEF Spec

-----------------------------------------------------------------------------
(* The history of reports beside the buffer.                               *)

IsSequence(s) == \E S : s \in Seq(S)

(* Remembering a report drops the oldest once there are enough. *)
LEMMA RememberedIs ==
  ASSUME NEW s, IsSequence(s), NEW e, Len(s) <= BufferSize,
         NEW r, r = Remembered(s, e)
  PROVE  LET N == BufferSize
         IN  /\ IsSequence(r)
             /\ Len(r) = IF Len(s) = N THEN N ELSE Len(s) + 1
             /\ r[Len(r)] = e
             /\ \A i \in 1 .. Len(r) - 1 : r[i] = s[IF Len(s) = N THEN i + 1 ELSE i]
<1> DEFINE N == BufferSize
<1>0. N \in Nat \ {0} /\ Len(s) <= N
  BY SessionAssumption
<1>1. PICK S : s \in Seq(S)
  BY DEF IsSequence
<1> DEFINE T == S \cup {e}
<1>2. s \in Seq(T) /\ e \in T
  BY <1>1
<1> HIDE DEF T
<1> DEFINE longer == Append(s, e)
<1>3. /\ longer \in Seq(T) /\ Len(longer) = Len(s) + 1 /\ Len(s) \in Nat
      /\ longer[Len(s) + 1] = e
      /\ \A i \in 1 .. Len(s) : longer[i] = s[i]
  BY <1>2, AppendProperties
<1>4. r = IF Len(longer) > N THEN Tail(longer) ELSE longer
  BY DEF Remembered
<1> HIDE DEF longer
<1>5. CASE Len(s) = N
  <2>1. r = Tail(longer) /\ longer # <<>>
    BY <1>0, <1>3, <1>4, <1>5, EmptySeq
  <2>2. /\ r \in Seq(T) /\ Len(r) = Len(longer) - 1
        /\ \A i \in 1 .. Len(r) : r[i] = longer[i + 1]
    BY <1>3, <2>1, HeadTailProperties
  <2> QED BY <1>0, <1>3, <1>5, <2>2 DEF IsSequence
<1>6. CASE Len(s) # N
  BY <1>0, <1>3, <1>4, <1>6 DEF IsSequence
<1> QED BY <1>5, <1>6

(* The greatest element is the one no other exceeds. *)
LEMMA MaxIs ==
  ASSUME NEW S \in SUBSET Int, NEW m \in S, \A x \in S : m >= x
  PROVE  Max(S) = m
<1>1. \E x \in S : \A y \in S : x >= y
  OBVIOUS
<1> DEFINE top == Max(S)
<1>2. top \in S /\ \A y \in S : top >= y
  BY <1>1, Zenon DEF Max
<1> HIDE DEF top
<1>3. top = m
  <2>1. top \in Int /\ m \in Int /\ top >= m /\ m >= top
    BY <1>2
  <2> QED BY <2>1
<1> QED BY <1>3 DEF top

(* A report that is of this snapshot. *)
IsReportOf(entry, snap) ==
  /\ entry.at = snap.at
  /\ \A id \in Ids :
       /\ id \in DOMAIN entry.found <=> id \in DOMAIN snap.problems
       /\ id \in DOMAIN snap.problems => entry.found[id] = snap.problems[id]

(* Snapshots and reports go in pairs, in the order of time.                *)
HistoryInv ==
  /\ now \in Int
  /\ IsSequence(buf) /\ IsSequence(history)
  /\ Len(buf) <= BufferSize /\ Len(history) = Len(buf)
  /\ \A i \in 1 .. Len(buf) :
       /\ IsReportOf(history[i], buf[i])
       /\ buf[i] \in Snapshot /\ buf[i].at <= now
  /\ \A i, j \in 1 .. Len(buf) : i < j => buf[i].at < buf[j].at

(* Demoting a snapshot leaves its time and its problems. *)
LEMMA SlimKeeps ==
  ASSUME NEW snap \in Snapshot
  PROVE  /\ Slim(snap) \in Snapshot
         /\ Slim(snap).at = snap.at
         /\ Slim(snap).problems = snap.problems
BY DEF Slim, Snapshot

(* What the host's finding adds to a report is none of the sockets'.       *)
LEMMA AnalyzeKeeps ==
  ASSUME NEW problems \in Problems, NEW cur, NEW prev, NEW id \in Ids
  PROVE  LET found == Analyze(problems, cur, prev)
         IN  /\ id \in DOMAIN found <=> id \in DOMAIN problems
             /\ id \in DOMAIN problems => found[id] = problems[id]
BY SessionAssumption DEF Analyze, Problems

(* Publishing keeps the newest within the buffer's size: the new snapshot  *)
(* last, and before it the ones that were there, the oldest gone when it   *)
(* was full.                                                               *)
LEMMA PublishedIs ==
  ASSUME IsSequence(buf), Len(buf) <= BufferSize, NEW snap,
         NEW r, r = H!Published(buf, snap)
  PROVE  LET N == BufferSize
         IN  /\ IsSequence(r)
             /\ Len(r) = IF Len(buf) = N THEN N ELSE Len(buf) + 1
             /\ r[Len(r)] = snap
             /\ \A i \in 1 .. Len(r) - 1 :
                  LET j == IF Len(buf) = N THEN i + 1 ELSE i
                  IN  r[i] = IF j = Len(buf) THEN Slim(buf[j]) ELSE buf[j]
<1> DEFINE N == BufferSize
           kept == [i \in DOMAIN buf |-> IF i = Len(buf) THEN Slim(buf[i]) ELSE buf[i]]
           T == {kept[i] : i \in DOMAIN buf} \cup {snap}
           longer == Append(kept, snap)
<1>1. N \in Nat \ {0}
  BY SessionAssumption
<1>2. PICK S : buf \in Seq(S)
  BY DEF IsSequence
<1>3. Len(buf) \in Nat /\ DOMAIN buf = 1 .. Len(buf)
  BY <1>2, LenProperties
<1>4. kept \in Seq(T) /\ Len(kept) = Len(buf) /\ snap \in T
  <2>1. kept \in [1 .. Len(buf) -> T]
    BY <1>3
  <2> HIDE DEF kept
  <2> QED BY <1>3, <2>1, SeqDef, LenProperties
<1>5. \A i \in 1 .. Len(buf) : kept[i] = IF i = Len(buf) THEN Slim(buf[i]) ELSE buf[i]
  BY <1>3
<1> HIDE DEF kept, T
<1>6. /\ longer \in Seq(T) /\ Len(longer) = Len(buf) + 1
      /\ longer[Len(buf) + 1] = snap
      /\ \A i \in 1 .. Len(buf) : longer[i] = kept[i]
  BY <1>4, AppendProperties
<1>7. r = IF Len(longer) > N THEN SubSeq(longer, Len(longer) - N + 1, Len(longer)) ELSE longer
  BY DEF H!Published, H!Newest, kept, longer
<1> HIDE DEF longer
<1>8. CASE Len(buf) = N
  <2>1. r = SubSeq(longer, 2, N + 1)
    BY <1>1, <1>3, <1>6, <1>7, <1>8
  <2>2. /\ r \in Seq(T) /\ Len(r) = N
        /\ \A i \in 1 .. N : r[i] = longer[i + 1]
    BY <1>1, <1>6, <1>8, <2>1, SubSeqProperties
  <2> QED BY <1>1, <1>5, <1>6, <1>8, <2>2 DEF IsSequence
<1>9. CASE Len(buf) # N
  <2> DEFINE n == Len(buf)
  <2>1. /\ n \in Nat /\ n <= N /\ n # N
        /\ Len(longer) = n + 1
        /\ longer[n + 1] = snap
        /\ \A i \in 1 .. n : longer[i] = IF i = n THEN Slim(buf[i]) ELSE buf[i]
        /\ longer \in Seq(T)
    BY <1>3, <1>5, <1>6, <1>9
  <2>2. Len(buf) = n
    OBVIOUS
  <2> HIDE DEF n
  <2>3. ~ (Len(longer) > N)
    BY <1>1, <2>1
  <2>4. r = longer
    BY <1>7, <2>3, Zenon
  <2>5. /\ IsSequence(r) /\ Len(r) = n + 1 /\ r[Len(r)] = snap
        /\ \A i \in 1 .. n : r[i] = IF i = n THEN Slim(buf[i]) ELSE buf[i]
    BY <2>1, <2>4 DEF IsSequence
  <2>6. Len(r) - 1 = n /\ n # N
    BY <2>1, <2>5
  <2> HIDE DEF N
  <2> QED BY <2>2, <2>5, <2>6 DEF N
<1> QED BY <1>8, <1>9

LEMMA HistoryStep ==
  ASSUME Steps \subseteq Nat \ {0}, HistoryInv, [Next]_vars
  PROVE  HistoryInv'
<1>1. CASE UNCHANGED vars
  BY <1>1 DEF vars, HistoryInv
<1>2. ASSUME NEW step \in Steps, NEW grown \in Growth, Failed(now + step, grown)
      PROVE  HistoryInv'
  <2>1. /\ buf' = buf /\ history' = history /\ now' = now + step
    BY <1>2 DEF Failed, IngestFailed
  <2>2. now \in Int /\ now' \in Int /\ now <= now'
    BY <2>1 DEF HistoryInv
  <2>3. \A i \in 1 .. Len(buf) : buf[i].at \in Int /\ buf[i].at <= now'
    BY <2>2 DEF HistoryInv, Snapshot
  <2> QED BY <2>1, <2>2, <2>3 DEF HistoryInv
<1>3. ASSUME NEW step \in Steps, NEW grown \in Growth, NEW problems \in Problems,
             Data(now + step, grown, problems)
      PROVE  HistoryInv'
  <2> DEFINE N     == BufferSize
             n     == Len(buf)
             m     == IF n = N THEN N ELSE n + 1
             k(i)  == IF n = N THEN i + 1 ELSE i
             at    == now + step
             snap  == [at |-> at, problems |-> problems, full |-> TRUE]
             found == Analyze(problems, sysCur', sysPrev')
             entry == [at |-> at, found |-> found, slots |-> SysSlots(sysHist', at)]
  <2>1. /\ now' = at
        /\ buf' = H!Published(buf, snap)
        /\ history' = Remembered(history, entry)
    BY <1>3 DEF Data, IngestData
  <2>2. N \in Nat \ {0} /\ n \in Nat /\ n <= N /\ Len(history) = n
    BY SessionAssumption, LenProperties DEF HistoryInv, IsSequence
  <2>3. at \in Int /\ now \in Int /\ at > now
    BY DEF HistoryInv
  <2>4. IsReportOf(entry, snap)
    BY AnalyzeKeeps DEF IsReportOf
  <2>5. snap \in Snapshot /\ snap.at = at
    BY <2>3 DEF Snapshot
  <2> HIDE DEF at, snap, found, entry
  <2>6. /\ IsSequence(buf') /\ Len(buf') = m /\ buf'[m] = snap
        /\ \A i \in 1 .. m - 1 :
             buf'[i] = IF k(i) = n THEN Slim(buf[k(i)]) ELSE buf[k(i)]
    <3>1. IsSequence(buf) /\ Len(buf) <= BufferSize
      BY DEF HistoryInv
    <3> QED BY <2>1, <3>1, PublishedIs
  <2>7. /\ IsSequence(history') /\ Len(history') = m /\ history'[m] = entry
        /\ \A i \in 1 .. m - 1 : history'[i] = history[k(i)]
    <3>1. IsSequence(history) /\ Len(history) <= BufferSize
      BY <2>2 DEF HistoryInv
    <3> QED BY <2>1, <2>2, <3>1, RememberedIs
  <2>8. m \in Nat \ {0} /\ m <= N /\ \A i \in 1 .. m - 1 : k(i) \in 1 .. n
    BY <2>2
  <2>9. \A i, j \in 1 .. m - 1 : i < j => k(i) < k(j)
    BY <2>2
  <2> HIDE DEF N, n, m, k
  <2>10. ASSUME NEW i \in 1 .. m - 1
         PROVE  /\ IsReportOf(history'[i], buf'[i])
                /\ buf'[i] \in Snapshot
                /\ buf'[i].at \in Int /\ buf'[i].at <= now
                /\ buf'[i].at = buf[k(i)].at
    <3>1. k(i) \in 1 .. n
      BY <2>8
    <3>2. /\ IsReportOf(history[k(i)], buf[k(i)])
          /\ buf[k(i)] \in Snapshot
          /\ buf[k(i)].at \in Int /\ buf[k(i)].at <= now
      BY <3>1 DEF HistoryInv, Snapshot, n
    <3>3. /\ buf'[i] \in Snapshot
          /\ buf'[i].at = buf[k(i)].at
          /\ buf'[i].problems = buf[k(i)].problems
      BY <2>6, <3>2, SlimKeeps
    <3>4. history'[i] = history[k(i)]
      BY <2>7
    <3> QED BY <3>2, <3>3, <3>4 DEF IsReportOf
  <2>11. /\ IsReportOf(history'[m], buf'[m])
         /\ buf'[m] \in Snapshot
         /\ buf'[m].at = at
    BY <2>4, <2>5, <2>6, <2>7
  <2>12. ASSUME NEW i \in 1 .. m
         PROVE  /\ IsReportOf(history'[i], buf'[i])
                /\ buf'[i] \in Snapshot
                /\ buf'[i].at \in Int /\ buf'[i].at <= now'
    <3>1. CASE i = m
      BY <2>1, <2>3, <2>11, <3>1
    <3>2. CASE i \in 1 .. m - 1
      BY <2>1, <2>3, <2>10, <3>2
    <3> QED BY <2>8, <3>1, <3>2
  <2>13. ASSUME NEW i \in 1 .. m, NEW j \in 1 .. m, i < j
         PROVE  buf'[i].at < buf'[j].at
    <3>1. i \in 1 .. m - 1
      BY <2>8, <2>13
    <3>2. CASE j = m
      BY <2>3, <2>10, <2>11, <3>1, <3>2
    <3>3. CASE j \in 1 .. m - 1
      <4>1. k(i) \in 1 .. n /\ k(j) \in 1 .. n /\ k(i) < k(j)
        BY <2>8, <2>9, <2>13, <3>1, <3>3
      <4>2. buf[k(i)].at < buf[k(j)].at
        BY <4>1 DEF HistoryInv, n
      <4> QED BY <2>10, <3>1, <3>3, <4>2
    <3> QED BY <2>8, <3>2, <3>3
  <2>14. now' \in Int /\ Len(buf') <= BufferSize /\ Len(history') = Len(buf')
    BY <2>1, <2>3, <2>6, <2>7, <2>8 DEF N
  <2> QED BY <2>6, <2>7, <2>12, <2>13, <2>14 DEF HistoryInv
<1> QED BY <1>1, <1>2, <1>3, PollCases

LEMMA HistoryStart == Init => HistoryInv
<1> SUFFICES ASSUME Init
             PROVE  HistoryInv
  OBVIOUS
<1>1. Len(buf) = 0 /\ Len(history) = 0 /\ IsSequence(buf) /\ IsSequence(history)
  BY DEF Init, IsSequence
<1> QED BY <1>1, SessionAssumption DEF Init, HistoryInv

LEMMA HistoryFound == HistoryInv => ReportsBeside
<1> SUFFICES ASSUME HistoryInv
             PROVE  ReportsBeside
  OBVIOUS
<1>1. /\ Len(buf) \in Nat /\ Len(history) = Len(buf)
      /\ DOMAIN buf = 1 .. Len(buf) /\ DOMAIN history = 1 .. Len(buf)
  BY LenProperties DEF HistoryInv, IsSequence
<1>2. ASSUME NEW i \in DOMAIN buf
      PROVE  HasReport(buf[i].at) /\ ReportFor(buf[i].at) = history[i]
  <2> DEFINE older == {j \in DOMAIN history : history[j].at <= buf[i].at}
  <2>1. \A j \in 1 .. Len(buf) : history[j].at = buf[j].at /\ buf[j].at \in Int
    BY DEF HistoryInv, IsReportOf, Snapshot
  <2>2. ASSUME NEW j \in older
        PROVE  i >= j
    <3>1. j \in 1 .. Len(buf) /\ i \in 1 .. Len(buf)
      BY <1>1
    <3>2. ~ (i < j)
      <4>1. ASSUME i < j
            PROVE  FALSE
        <5>1. buf[i].at < buf[j].at
          BY <3>1, <4>1 DEF HistoryInv
        <5>2. buf[j].at <= buf[i].at
          BY <2>1, <3>1
        <5> QED BY <2>1, <3>1, <5>1, <5>2
      <4> QED BY <4>1
    <3> QED BY <1>1, <3>1, <3>2
  <2>3. older \in SUBSET Int /\ i \in older
    BY <1>1, <2>1
  <2>4. Max(older) = i
    <3> HIDE DEF older
    <3> QED BY <2>2, <2>3, MaxIs
  <2>5. older # {} /\ history[i].at = buf[i].at
    BY <1>1, <2>1, <2>3
  <2> HIDE DEF older
  <2> QED BY <2>4, <2>5 DEF HasReport, ReportFor, LastUpTo, older
<1> QED BY <1>1, <1>2 DEF HistoryInv, ReportsBeside, IsReportOf

(* The buffer keeps pace with the polls that brought anything.             *)
KeptInv ==
  /\ IsSequence(past)
  /\ Len(buf) = IF Len(past) < BufferSize THEN Len(past) ELSE BufferSize
  /\ \A i \in 1 .. Len(buf) : buf[i].at = past[Len(past) - Len(buf) + i].at

(* Where a snapshot and its poll are found after the next one. *)
LEMMA KeptPlaces ==
  ASSUME NEW N \in Nat \ {0}, NEW p \in Nat, NEW n \in Nat, n = IF p < N THEN p ELSE N,
         NEW m, m = IF n = N THEN N ELSE n + 1
  PROVE  /\ m = IF p + 1 < N THEN p + 1 ELSE N
         /\ m \in Nat \ {0}
         /\ \A i \in 1 .. m - 1 :
              LET j == IF n = N THEN i + 1 ELSE i
              IN  j \in 1 .. n /\ p + 1 - m + i = p - n + j /\ p - n + j \in 1 .. p
<1>1. CASE n = N
  BY <1>1
<1>2. CASE n # N
  <2>1. n = p /\ p < N /\ m = p + 1
    BY <1>2
  <2> QED BY <2>1, <1>2
<1> QED BY <1>1, <1>2

LEMMA KeptStep ==
  ASSUME HistoryInv, KeptInv, [Next]_vars
  PROVE  KeptInv'
<1>1. CASE UNCHANGED vars
  BY <1>1 DEF vars, KeptInv
<1>2. ASSUME NEW step \in Steps, NEW grown \in Growth, Failed(now + step, grown)
      PROVE  KeptInv'
  BY <1>2 DEF Failed, IngestFailed, KeptInv
<1>3. ASSUME NEW step \in Steps, NEW grown \in Growth, NEW problems \in Problems,
             Data(now + step, grown, problems)
      PROVE  KeptInv'
  <2> DEFINE N     == BufferSize
             n     == Len(buf)
             p     == Len(past)
             m     == IF n = N THEN N ELSE n + 1
             k(i)  == IF n = N THEN i + 1 ELSE i
             at    == now + step
             snap  == [at |-> at, problems |-> problems, full |-> TRUE]
             poll  == [at |-> at, found |-> Analyze(problems, sysCur', sysPrev'), read |-> grown # None]
  <2>1. buf' = H!Published(buf, snap) /\ past' = Append(past, poll)
    BY <1>3 DEF Data, IngestData
  <2>2. snap.at = at /\ poll.at = at
    OBVIOUS
  <2>3. N \in Nat \ {0} /\ n \in Nat /\ p \in Nat /\ n = IF p < N THEN p ELSE N
    BY SessionAssumption, LenProperties DEF HistoryInv, KeptInv, IsSequence
  <2> HIDE DEF at, snap, poll
  <2>4. /\ IsSequence(past') /\ Len(past') = p + 1 /\ past'[p + 1] = poll
        /\ \A i \in 1 .. p : past'[i] = past[i]
    <3>1. PICK S : past \in Seq(S)
      BY DEF KeptInv, IsSequence
    <3> DEFINE T == S \cup {poll}
    <3>2. past \in Seq(T) /\ poll \in T
      BY <3>1
    <3> HIDE DEF T
    <3> QED BY <2>1, <3>2, AppendProperties DEF IsSequence
  <2>5. /\ Len(buf') = m /\ buf'[m] = snap
        /\ \A i \in 1 .. m - 1 :
             buf'[i] = IF k(i) = n THEN Slim(buf[k(i)]) ELSE buf[k(i)]
    <3>1. IsSequence(buf) /\ Len(buf) <= BufferSize
      BY DEF HistoryInv
    <3> QED BY <2>1, <3>1, PublishedIs
  <2>13. m = (IF n = N THEN N ELSE n + 1) /\ \A i : k(i) = IF n = N THEN i + 1 ELSE i
    OBVIOUS
  <2>6. /\ m = IF p + 1 < N THEN p + 1 ELSE N
        /\ m \in Nat \ {0}
        /\ \A i \in 1 .. m - 1 : k(i) \in 1 .. n /\ p + 1 - m + i = p - n + k(i) /\ p - n + k(i) \in 1 .. p
    <3> HIDE DEF N, n, p, m, k
    <3> QED BY ONLY <2>3, <2>13, KeptPlaces
  <2>7. \A i \in 1 .. n : buf[i].at = past[p - n + i].at /\ buf[i] \in Snapshot
    BY DEF KeptInv, HistoryInv
  <2> HIDE DEF N, n, m, p, k
  <2>8. ASSUME NEW i \in 1 .. m - 1
        PROVE  buf'[i].at = past'[p + 1 - m + i].at
    <3>1. k(i) \in 1 .. n /\ p + 1 - m + i = p - n + k(i) /\ p - n + k(i) \in 1 .. p
      BY <2>6
    <3>2. buf'[i].at = buf[k(i)].at
      BY <2>5, <2>7, <3>1, SlimKeeps
    <3>3. buf[k(i)].at = past[p - n + k(i)].at
      BY <2>7, <3>1
    <3>4. past'[p + 1 - m + i] = past[p - n + k(i)]
      BY <2>4, <3>1
    <3> QED BY <3>2, <3>3, <3>4
  <2>9. buf'[m].at = past'[p + 1 - m + m].at
    <3>1. p + 1 - m + m = p + 1
      BY <2>3, <2>6 DEF p
    <3> QED BY <2>2, <2>4, <2>5, <3>1
  <2>10. \A i \in 1 .. m : buf'[i].at = past'[p + 1 - m + i].at
    BY <2>6, <2>8, <2>9
  <2>11. Len(buf') = IF Len(past') < BufferSize THEN Len(past') ELSE BufferSize
    BY <2>4, <2>5, <2>6 DEF N
  <2>12. \A i \in 1 .. Len(buf') : buf'[i].at = past'[Len(past') - Len(buf') + i].at
    <3>1. Len(past') = p + 1 /\ Len(buf') = m
      BY <2>4, <2>5
    <3> SUFFICES ASSUME NEW i \in 1 .. Len(buf')
                 PROVE  buf'[i].at = past'[Len(past') - Len(buf') + i].at
      OBVIOUS
    <3>2. buf'[i].at = past'[p + 1 - m + i].at
      BY <2>10, <3>1
    <3>3. Len(past') - Len(buf') + i = p + 1 - m + i
      BY <2>3, <2>6, <3>1
    <3> QED BY <3>2, <3>3
  <2> QED BY <2>4, <2>11, <2>12 DEF KeptInv
<1> QED BY <1>1, <1>2, <1>3, PollCases

LEMMA KeptFound == HistoryInv /\ KeptInv => LastPollsKept
<1> SUFFICES ASSUME HistoryInv, KeptInv
             PROVE  LastPollsKept
  OBVIOUS
<1>1. DOMAIN buf = 1 .. Len(buf)
  BY LenProperties DEF HistoryInv, IsSequence
<1> QED BY <1>1 DEF KeptInv, LastPollsKept

(* While the clock of the host is not set back, the buffer holds the last  *)
(* polls that brought anything, the history the report of each, and        *)
(* ReportFor finds it, for every size of the buffer and through any failed *)
(* polls.                                                                  *)
THEOREM HistorySafety ==
  ASSUME Steps \subseteq Nat \ {0}
  PROVE  Spec => []HistoryMatchesBuffer
<1>1. Init => HistoryInv /\ KeptInv
  <2>1. ASSUME Init
        PROVE  KeptInv
    <3>1. Len(buf) = 0 /\ Len(past) = 0 /\ IsSequence(past)
      BY <2>1 DEF Init, IsSequence
    <3> QED BY <3>1, SessionAssumption DEF KeptInv
  <2> QED BY <2>1, HistoryStart
<1>2. HistoryInv /\ KeptInv /\ [Next]_vars => HistoryInv' /\ KeptInv'
  BY HistoryStep, KeptStep
<1>3. HistoryInv /\ KeptInv => HistoryMatchesBuffer
  BY HistoryFound, KeptFound DEF HistoryMatchesBuffer
<1> QED BY <1>1, <1>2, <1>3, PTL DEF Spec

-----------------------------------------------------------------------------
(* The result of `check`.                                                  *)

Severity == 1 .. 2

(* The occurrences of the timeline are what the analyses found, and the    *)
(* worst of each was found by one of them and exceeded by none.            *)
StatusInv ==
  /\ IsSequence(past)
  /\ timeline.analyses = Len(past)
  /\ \A n \in 1 .. Len(past) : \A id \in DOMAIN past[n].found :
       /\ past[n].found[id] \in Severity
       /\ id \in DOMAIN timeline.byId
       /\ timeline.byId[id].worst >= past[n].found[id]
  /\ \A id \in DOMAIN timeline.byId :
       /\ timeline.byId[id].worst \in Severity
       /\ \E n \in 1 .. Len(past) :
            id \in DOMAIN past[n].found /\ past[n].found[id] = timeline.byId[id].worst

LEMMA AnalyzeSeverity ==
  ASSUME NEW problems \in Problems, NEW cur, NEW prev,
         NEW id \in DOMAIN Analyze(problems, cur, prev)
  PROVE  Analyze(problems, cur, prev)[id] \in Severity
BY DEF Analyze, Problems, Severity

LEMMA StatusStep ==
  ASSUME StatusInv, [Next]_vars
  PROVE  StatusInv'
<1>1. CASE UNCHANGED vars
  BY <1>1 DEF vars, StatusInv
<1>2. ASSUME NEW step \in Steps, NEW grown \in Growth, Failed(now + step, grown)
      PROVE  StatusInv'
  BY <1>2 DEF Failed, IngestFailed, StatusInv
<1>3. ASSUME NEW step \in Steps, NEW grown \in Growth, NEW problems \in Problems,
             Data(now + step, grown, problems)
      PROVE  StatusInv'
  <2> DEFINE at    == now + step
             found == Analyze(problems, sysCur', sysPrev')
             poll  == [at |-> at, found |-> found, read |-> grown # None]
             n     == Len(past)
             old   == timeline.byId
             new   == timeline'.byId
  <2>1. timeline' = Summarise(found, at) /\ past' = Append(past, poll)
    BY <1>3 DEF Data, IngestData
  <2>2. poll.found = found /\ \A id \in DOMAIN found : found[id] \in Severity
    BY AnalyzeSeverity
  <2> HIDE DEF found, at, poll
  <2>3. /\ n \in Nat /\ IsSequence(past') /\ Len(past') = n + 1
        /\ past'[n + 1] = poll
        /\ \A i \in 1 .. n : past'[i] = past[i]
    <3>1. PICK S : past \in Seq(S)
      BY DEF StatusInv, IsSequence
    <3>2. past \in Seq(S \cup {poll}) /\ poll \in S \cup {poll}
      BY <3>1
    <3> DEFINE T == S \cup {poll}
    <3> HIDE DEF T
    <3> QED BY <2>1, <3>2, AppendProperties DEF T, IsSequence
  <2>4. timeline'.analyses = n + 1 /\ DOMAIN new = DOMAIN old \cup DOMAIN found
    BY <2>1 DEF Summarise, StatusInv
  <2>5. ASSUME NEW id \in DOMAIN old \ DOMAIN found
        PROVE  new[id].worst = old[id].worst
    BY <2>1, <2>5 DEF Summarise
  <2>6. ASSUME NEW id \in DOMAIN found
        PROVE  new[id].worst = Max({IF id \in DOMAIN old THEN old[id].worst ELSE 0, found[id]})
    BY <2>1, <2>6 DEF Summarise
  <2>7. ASSUME NEW id \in DOMAIN found
        PROVE  /\ new[id].worst \in Severity
               /\ new[id].worst >= found[id]
               /\ id \in DOMAIN old => new[id].worst >= old[id].worst
               /\ \/ new[id].worst = found[id]
                  \/ id \in DOMAIN old /\ new[id].worst = old[id].worst
    <3> DEFINE w == IF id \in DOMAIN old THEN old[id].worst ELSE 0
               f == found[id]
    <3>1. w \in 0 .. 2 /\ f \in 1 .. 2 /\ (id \in DOMAIN old => w = old[id].worst)
      BY <2>2 DEF StatusInv, Severity
    <3>2. new[id].worst = Max({w, f})
      BY <2>6
    <3> HIDE DEF w, f
    <3>3. CASE w >= f
      <4>1. Max({w, f}) = w
        BY <3>1, <3>3, MaxIs
      <4>2. id \in DOMAIN old
        BY <3>1, <3>3 DEF w
      <4> QED BY <3>1, <3>2, <3>3, <4>1, <4>2 DEF Severity, f
    <3>4. CASE ~ (w >= f)
      <4>1. Max({w, f}) = f
        BY <3>1, <3>4, MaxIs
      <4> QED BY <3>1, <3>2, <3>4, <4>1 DEF Severity, f
    <3> QED BY <3>3, <3>4
  <2> HIDE DEF n, new, old
  <2>8. ASSUME NEW i \in 1 .. n + 1, NEW id \in DOMAIN past'[i].found
        PROVE  /\ past'[i].found[id] \in Severity
               /\ id \in DOMAIN new
               /\ new[id].worst >= past'[i].found[id]
    <3>1. CASE i = n + 1
      BY <2>2, <2>3, <2>4, <2>7, <3>1
    <3>2. CASE i \in 1 .. n
      <4>1. past'[i].found = past[i].found
        BY <2>3, <3>2
      <4>2. /\ past[i].found[id] \in Severity
            /\ id \in DOMAIN old
            /\ old[id].worst \in Severity
            /\ old[id].worst >= past[i].found[id]
        BY <3>2, <4>1 DEF StatusInv, n, old
      <4>3. new[id].worst \in Severity /\ new[id].worst >= old[id].worst
        <5>1. CASE id \in DOMAIN found
          BY <2>7, <4>2, <5>1
        <5>2. CASE id \notin DOMAIN found
          BY <2>5, <4>2, <5>2 DEF Severity
        <5> QED BY <5>1, <5>2
      <4> QED BY <2>4, <4>1, <4>2, <4>3 DEF Severity
    <3> QED BY <2>3, <3>1, <3>2
  <2>9. ASSUME NEW id \in DOMAIN new
        PROVE  /\ new[id].worst \in Severity
               /\ \E i \in 1 .. n + 1 :
                    id \in DOMAIN past'[i].found /\ past'[i].found[id] = new[id].worst
    <3>1. CASE id \in DOMAIN found /\ new[id].worst = found[id]
      <4>1. /\ n + 1 \in 1 .. n + 1 /\ id \in DOMAIN past'[n + 1].found
            /\ past'[n + 1].found[id] = new[id].worst
        BY <2>2, <2>3, <3>1
      <4> QED BY <2>7, <3>1, <4>1
    <3>2. CASE id \in DOMAIN old /\ new[id].worst = old[id].worst
      <4>1. PICK i \in 1 .. n :
              id \in DOMAIN past[i].found /\ past[i].found[id] = old[id].worst
        BY <3>2 DEF StatusInv, n, old
      <4>2. past'[i] = past[i] /\ i \in 1 .. n + 1
        BY <2>3, <4>1
      <4>3. old[id].worst \in Severity
        BY <3>2 DEF StatusInv, old
      <4> QED BY <3>2, <4>1, <4>2, <4>3
    <3>3. \/ id \in DOMAIN found /\ new[id].worst = found[id]
          \/ id \in DOMAIN old /\ new[id].worst = old[id].worst
      BY <2>4, <2>5, <2>7
    <3> QED BY <3>1, <3>2, <3>3
  <2> QED BY <2>3, <2>4, <2>8, <2>9 DEF StatusInv, n, new
<1> QED BY <1>1, <1>2, <1>3, PollCases

LEMMA StatusFound == StatusInv => StatusIsWorstSeen
<1> SUFFICES ASSUME StatusInv
             PROVE  StatusIsWorstSeen
  OBVIOUS
<1> DEFINE P          == 1 .. Len(past)
           severities == UNION {{past[n].found[id] : id \in DOMAIN past[n].found} : n \in P}
           worsts     == {0} \cup {timeline.byId[id].worst : id \in DOMAIN timeline.byId}
<1>1. DOMAIN past = P /\ Len(past) \in Nat /\ (past = <<>> <=> Len(past) = 0)
  <2>1. PICK S : past \in Seq(S)
    BY DEF StatusInv, IsSequence
  <2> QED BY <2>1, LenProperties, EmptySeq
<1> HIDE DEF P
<1>2. ASSUME NEW s \in severities
      PROVE  s \in Severity /\ \E w \in worsts : w >= s
  <2>1. PICK n \in P : s \in {past[n].found[id] : id \in DOMAIN past[n].found}
    OBVIOUS
  <2>2. PICK id \in DOMAIN past[n].found : s = past[n].found[id]
    BY <2>1
  <2>3. /\ s \in Severity /\ id \in DOMAIN timeline.byId
        /\ timeline.byId[id].worst >= s
    BY <2>2 DEF StatusInv, P
  <2>4. timeline.byId[id].worst \in worsts
    BY <2>3
  <2> QED BY <2>3, <2>4
<1>3. \A w \in worsts \ {0} : w \in severities /\ w \in Severity
  BY <1>1 DEF StatusInv, P, Severity
<1>4. 0 \in worsts
  OBVIOUS
<1>5. Worst = Max(worsts)
  BY DEF Worst
<1>6. past = <<>> => severities = {}
  BY <1>1 DEF P
<1> HIDE DEF severities, worsts
<1>7. worsts \in SUBSET Int
  BY <1>3 DEF Severity
<1>8. /\ 2 \in severities => Worst = 2
      /\ 2 \notin severities /\ 1 \in severities => Worst = 1
      /\ 2 \notin severities /\ 1 \notin severities => Worst = 0
  <2>1. ASSUME 2 \in severities
        PROVE  Worst = 2
    <3>1. 2 \in worsts /\ \A w \in worsts : 2 >= w
      BY <1>2, <1>3, <2>1 DEF Severity
    <3> QED BY <1>5, <1>7, <3>1, MaxIs
  <2>2. ASSUME 2 \notin severities, 1 \in severities
        PROVE  Worst = 1
    <3>1. 1 \in worsts /\ \A w \in worsts : 1 >= w
      BY <1>2, <1>3, <2>2 DEF Severity
    <3> QED BY <1>5, <1>7, <3>1, MaxIs
  <2>3. ASSUME 2 \notin severities, 1 \notin severities
        PROVE  Worst = 0
    <3>1. 0 \in worsts /\ \A w \in worsts : 0 >= w
      BY <1>3, <1>4, <2>3 DEF Severity
    <3> QED BY <1>5, <1>7, <3>1, MaxIs
  <2> QED BY <2>1, <2>2, <2>3
<1>9. Status = IF past = <<>> THEN "UNKNOWN"
               ELSE IF 2 \in severities THEN "CRITICAL"
               ELSE IF 1 \in severities THEN "WARNING" ELSE "OK"
  <2>1. timeline.analyses = 0 <=> past = <<>>
    BY <1>1 DEF StatusInv
  <2> QED BY <1>8, <2>1 DEF Status
<1> QED BY <1>1, <1>9 DEF StatusIsWorstSeen, severities, P

(* The result that `check` exits with is the worst severity of any poll it *)
(* analysed, and UNKNOWN exactly when it analysed none, whatever the       *)
(* number of polls and findings, and however the clock was set.            *)
THEOREM StatusSafety == Spec => []StatusIsWorstSeen
<1>1. Init => StatusInv
  <2> SUFFICES ASSUME Init
               PROVE  StatusInv
    OBVIOUS
  <2>1. Len(past) = 0 /\ IsSequence(past)
    BY DEF Init, IsSequence
  <2> QED BY <2>1 DEF Init, StatusInv
<1>2. StatusInv /\ [Next]_vars => StatusInv'
  BY StatusStep
<1> QED BY <1>1, <1>2, StatusFound, PTL DEF Spec

-----------------------------------------------------------------------------
(* Ages and episodes.                                                      *)

(* The polls of the episode that poll n belongs to.                        *)
Chain(id, n) ==
  {j \in Appearances(id) :
     /\ j <= n
     /\ \A m \in j .. n - 1 : \E k \in Appearances(id) : m < k /\ k <= m + GraceMisses + 1}

(* n is the last poll that found id. *)
IsLast(id, n) == n \in Appearances(id) /\ \A k \in Appearances(id) : k <= n

(* s is the first poll of the episode of poll n. *)
IsStart(id, s, n) == s \in Chain(id, n) /\ \A j \in Chain(id, n) : s <= j

(* The misses of a tracked finding count the polls since the last that     *)
(* found it, and its age goes back to the start of that poll's episode.    *)
Dated(id, entry) ==
  /\ entry.misses \in 0 .. GraceMisses
  /\ IsLast(id, Len(past) - entry.misses)
  /\ \E s : IsStart(id, s, Len(past) - entry.misses) /\ entry.since = past[s].at

EpisodeInv ==
  /\ now \in Int
  /\ IsSequence(past)
  /\ seen \in [DOMAIN seen -> SeenEntry]
  /\ \A id : id \in DOMAIN seen <=> \E n \in Appearances(id) : n >= Len(past) - GraceMisses
  /\ \A id \in DOMAIN seen : Dated(id, seen[id])

(* The least element is the one that exceeds no other. *)
LEMMA MinIs ==
  ASSUME NEW S \in SUBSET Int, NEW m \in S, \A x \in S : m <= x
  PROVE  Min(S) = m
<1>1. \E x \in S : \A y \in S : x <= y
  OBVIOUS
<1> DEFINE least == Min(S)
<1>2. least \in S /\ \A y \in S : least <= y
  BY <1>1, Zenon DEF Min
<1> HIDE DEF least
<1>3. least \in Int /\ m \in Int /\ least <= m /\ m <= least
  BY <1>2
<1> QED BY <1>3 DEF least

LEMMA EpisodeFound == EpisodeInv => SinceIsStartOfEpisode
<1> SUFFICES ASSUME EpisodeInv, NEW id \in AllIds
             PROVE  LET alive == {n \in Appearances(id) : n >= Len(past) - GraceMisses}
                    IN  /\ id \in DOMAIN seen <=> alive # {}
                        /\ alive # {} => seen[id].since = past[EpisodeStart(id, Max(alive))].at
  BY DEF SinceIsStartOfEpisode
<1> DEFINE alive == {n \in Appearances(id) : n >= Len(past) - GraceMisses}
<1>1. Appearances(id) \in SUBSET Int /\ Len(past) \in Nat /\ GraceMisses \in Nat
  <2>1. Len(past) \in Nat /\ DOMAIN past = 1 .. Len(past)
    BY LenProperties DEF EpisodeInv, IsSequence
  <2> QED BY <2>1, SessionAssumption DEF Appearances
<1>2. id \in DOMAIN seen <=> alive # {}
  BY DEF EpisodeInv
<1>3. ASSUME alive # {}
      PROVE  seen[id].since = past[EpisodeStart(id, Max(alive))].at
  <2> DEFINE last == Len(past) - seen[id].misses
  <2>1. seen[id].misses \in 0 .. GraceMisses /\ IsLast(id, last)
    BY <1>2, <1>3 DEF EpisodeInv, Dated
  <2>2. PICK s : IsStart(id, s, last) /\ seen[id].since = past[s].at
    BY <1>2, <1>3 DEF EpisodeInv, Dated
  <2>3. last \in alive /\ \A n \in alive : last >= n
    BY <1>1, <2>1 DEF IsLast
  <2>4. Max(alive) = last
    <3>1. alive \in SUBSET Int
      BY <1>1
    <3> HIDE DEF alive, last
    <3> QED BY <2>3, <3>1, MaxIs
  <2> HIDE DEF last, alive
  <2>5. Min(Chain(id, last)) = s
    <3>1. Chain(id, last) \in SUBSET Int
      BY <1>1 DEF Chain
    <3> QED BY <2>2, <3>1, MinIs DEF IsStart
  <2>6. EpisodeStart(id, last) = Min(Chain(id, last))
    BY DEF EpisodeStart, Chain
  <2> QED BY <2>2, <2>4, <2>5, <2>6
<1> QED BY <1>2, <1>3

(* A poll that found nothing of id leaves its episodes as they were.       *)
LEMMA ChainKept ==
  ASSUME NEW id, NEW n, Appearances(id)' = Appearances(id)
  PROVE  Chain(id, n)' = Chain(id, n)
BY DEF Chain

(* Found again within the grace period, it goes on with its episode; found *)
(* later, or for the first time, it begins one.                            *)
LEMMA ChainExtended ==
  ASSUME NEW id, NEW N \in Nat, Appearances(id) \in SUBSET (1 .. N - 1),
         Appearances(id)' = Appearances(id) \cup {N}
  PROVE  /\ IsLast(id, N)'
         /\ \A l : IsLast(id, l) /\ N <= l + GraceMisses + 1 =>
              (Chain(id, N)' = Chain(id, l) \cup {N})
         /\ (\A k \in Appearances(id) : N > k + GraceMisses + 1) => Chain(id, N)' = {N}
<1> DEFINE A == Appearances(id)
           G == GraceMisses
<1>0. G \in Nat
  BY SessionAssumption
<1>1. IsLast(id, N)'
  BY DEF IsLast
<1>1a. \A j : j \in Chain(id, N)' <=>
          /\ j \in A \cup {N} /\ j <= N
          /\ \A m \in j .. N - 1 : \E k \in A \cup {N} : m < k /\ k <= m + G + 1
  BY DEF Chain
<1>2. ASSUME NEW l, IsLast(id, l), N <= l + G + 1
      PROVE  Chain(id, N)' = Chain(id, l) \cup {N}
  <2>1. l \in A /\ l \in 1 .. N - 1 /\ \A k \in A : k \in 1 .. l
    BY <1>2 DEF IsLast
  <2>2. \A j : j \in Chain(id, l) <=>
               /\ j \in A /\ j <= l
               /\ \A m \in j .. l - 1 : \E k \in A : m < k /\ k <= m + G + 1
    BY DEF Chain
  <2> HIDE DEF A, G
  <2>3. ASSUME NEW j \in Chain(id, l)
        PROVE  j \in Chain(id, N)'
    <3>1. j \in A /\ j <= N /\ j \in Nat
      <4>1. j \in A
        BY <2>2
      <4> QED BY <2>1, <4>1
    <3>2. ASSUME NEW m \in j .. N - 1
          PROVE  \E k \in A \cup {N} : m < k /\ k <= m + G + 1
      <4>1. CASE m < l
        <5>1. m \in j .. l - 1
          BY <2>1, <3>1, <3>2, <4>1
        <5> QED BY <2>2, <5>1
      <4>2. CASE ~(m < l)
        <5>1. m < N /\ N <= m + G + 1
          BY <1>0, <1>2, <2>1, <3>1, <3>2, <4>2
        <5> QED BY <5>1
      <4> QED BY <4>1, <4>2
    <3> QED BY <1>1a, <3>1, <3>2
  <2>4. N \in Chain(id, N)'
    BY <1>1a
  <2>5. ASSUME NEW j \in Chain(id, N)', j # N
        PROVE  j \in Chain(id, l)
    <3>1. j \in A /\ j \in Nat /\ j <= l
      <4>1. j \in A
        BY <1>1a, <2>5
      <4> QED BY <2>1, <4>1
    <3>2. ASSUME NEW m \in j .. l - 1
          PROVE  \E k \in A : m < k /\ k <= m + G + 1
      <4>1. m \in j .. N - 1 /\ m \in Int /\ m < l
        BY <2>1, <3>1, <3>2
      <4>2. PICK k \in A \cup {N} : m < k /\ k <= m + G + 1
        BY <1>1a, <4>1
      <4>3. CASE k \in A
        BY <4>2, <4>3
      <4>4. CASE k = N
        <5>1. m < l /\ l <= m + G + 1
          BY <1>0, <2>1, <4>1, <4>2, <4>4
        <5> QED BY <2>1, <5>1
      <4> QED BY <4>3, <4>4
    <3> QED BY <2>2, <3>1, <3>2
  <2> QED BY <2>3, <2>4, <2>5
<1>3. ASSUME \A k \in A : N > k + G + 1
      PROVE  Chain(id, N)' = {N}
  <2>1. N \in Chain(id, N)'
    BY <1>1a
  <2>2. ASSUME NEW j \in Chain(id, N)', j # N
        PROVE  FALSE
    <3>1. j \in A /\ j \in 1 .. N - 1
      BY <1>1a, <2>2
    <3> DEFINE gap == N - G - 2
    <3>2. j <= gap /\ gap \in j .. N - 1
      BY <1>0, <1>3, <3>1
    <3>3. PICK k \in A \cup {N} : gap < k /\ k <= gap + G + 1
      BY <1>1a, <3>2
    <3>4. k # N
      BY <1>0, <3>3
    <3>5. k \in A /\ k \in 1 .. N - 1
      BY <3>3, <3>4
    <3> QED BY <1>0, <1>3, <3>3, <3>5
  <2> QED BY <2>1, <2>2
<1> QED BY <1>1, <1>2, <1>3

LEMMA EpisodeStep ==
  ASSUME EpisodeInv, [Next]_vars
  PROVE  EpisodeInv'
<1>1. CASE UNCHANGED vars
  BY <1>1 DEF vars, EpisodeInv, Dated, IsLast, IsStart, Chain, Appearances
<1>2. ASSUME NEW step \in Steps, NEW grown \in Growth, Failed(now + step, grown)
      PROVE  EpisodeInv'
  <2>1. now' \in Int /\ past' = past /\ seen' = seen
    BY <1>2, SessionAssumption DEF Failed, IngestFailed, EpisodeInv
  <2> QED BY <2>1 DEF EpisodeInv, Dated, IsLast, IsStart, Chain, Appearances
<1>3. ASSUME NEW step \in Steps, NEW grown \in Growth, NEW problems \in Problems,
             Data(now + step, grown, problems)
      PROVE  EpisodeInv'
  <2> DEFINE at    == now + step
             found == Analyze(problems, sysCur', sysPrev')
             poll  == [at |-> at, found |-> found, read |-> grown # None]
             new   == [since |-> at, misses |-> 0]
             kept  == {id \in DOMAIN seen \ DOMAIN found : seen[id].misses < GraceMisses}
             G     == GraceMisses
  <2>0. PICK n \in Nat : n = Len(past)
    BY LenProperties DEF EpisodeInv, IsSequence
  <2>1. /\ now' = at /\ past' = Append(past, poll)
        /\ seen' = Aged(seen, found, GraceMisses, new)
    BY <1>3 DEF Data, IngestData, Track
  <2>2. at \in Int /\ G \in Nat
    BY SessionAssumption DEF EpisodeInv
  <2>3. poll.found = found /\ poll.at = at
    OBVIOUS
  <2>4. new \in SeenEntry /\ new.since = at /\ new.misses = 0
    BY <2>2 DEF SeenEntry
  <2> HIDE DEF found, at, poll, new
  <2>5. /\ Len(past) = n /\ IsSequence(past') /\ Len(past') = n + 1
        /\ past'[n + 1] = poll
        /\ \A i \in 1 .. n : past'[i] = past[i]
        /\ DOMAIN past = 1 .. n /\ DOMAIN past' = 1 .. n + 1
    <3>1. PICK S : past \in Seq(S)
      BY DEF EpisodeInv, IsSequence
    <3>2. past \in Seq(S \cup {poll}) /\ poll \in S \cup {poll}
      BY <3>1
    <3> DEFINE T == S \cup {poll}
    <3> HIDE DEF T
    <3>3. past' \in Seq(T)
      BY <2>1, <3>2, AppendProperties DEF T
    <3> QED BY <2>0, <2>1, <3>2, <3>3, AppendProperties, LenProperties DEF T, IsSequence
  <2>6. ASSUME NEW id
        PROVE  /\ Appearances(id) \in SUBSET (1 .. n)
               /\ Appearances(id)' = IF id \in DOMAIN found THEN Appearances(id) \cup {n + 1}
                                     ELSE Appearances(id)
    <3>1. Appearances(id) = {i \in 1 .. n : id \in DOMAIN past[i].found}
      BY <2>5 DEF Appearances
    <3>2. Appearances(id)' = {i \in 1 .. n + 1 : id \in DOMAIN past'[i].found}
      BY <2>5 DEF Appearances
    <3>3. \A i \in 1 .. n : past'[i].found = past[i].found
      BY <2>5
    <3>4. past'[n + 1].found = found
      BY <2>3, <2>5
    <3> QED BY <2>5, <3>1, <3>2, <3>3, <3>4
  <2>7. /\ seen' \in [DOMAIN found \cup kept -> SeenEntry]
        /\ \A id \in DOMAIN found :
             seen'[id] = IF id \in DOMAIN seen THEN [since |-> seen[id].since, misses |-> 0] ELSE new
        /\ \A id \in kept : seen'[id] = [since |-> seen[id].since, misses |-> seen[id].misses + 1]
    <3>1. seen \in [DOMAIN seen -> SeenEntry] /\ new \in SeenEntry
      BY <2>4 DEF EpisodeInv
    <3>2. kept = {id \in DOMAIN seen \ DOMAIN found : seen[id].misses < GraceMisses}
      BY DEF kept
    <3> HIDE DEF kept
    <3> QED BY <2>1, <3>1, <3>2 DEF Aged, SeenEntry
  <2>8. \A id \in kept : id \in DOMAIN seen /\ id \notin DOMAIN found /\ seen[id].misses < G
    OBVIOUS
  <2>9. \A id \in DOMAIN seen : id \notin DOMAIN found /\ seen[id].misses < G => id \in kept
    OBVIOUS
  <2>10. /\ \A id : id \in DOMAIN seen <=> \E i \in Appearances(id) : i >= n - G
         /\ \A id \in DOMAIN seen :
              /\ seen[id].misses \in 0 .. G
              /\ IsLast(id, n - seen[id].misses)
              /\ \E s : IsStart(id, s, n - seen[id].misses) /\ seen[id].since = past[s].at
    BY <2>0 DEF EpisodeInv, Dated
  <2> HIDE DEF G, kept
  <2>11. ASSUME NEW id \in DOMAIN found
         PROVE  Dated(id, seen[id])'
    <3>1. /\ IsLast(id, n + 1)'
          /\ \A l : IsLast(id, l) /\ n + 1 <= l + G + 1 =>
               (Chain(id, n + 1)' = Chain(id, l) \cup {n + 1})
          /\ (\A k \in Appearances(id) : n + 1 > k + G + 1) => Chain(id, n + 1)' = {n + 1}
      <4>1. n + 1 \in Nat /\ Appearances(id) \in SUBSET (1 .. (n + 1) - 1)
        BY <2>5, <2>6
      <4>2. Appearances(id)' = Appearances(id) \cup {n + 1}
        BY <2>6
      <4> QED BY <4>1, <4>2, ChainExtended DEF G
    <3>2. seen'[id].misses = 0 /\ Len(past') - seen'[id].misses = n + 1
      BY <2>4, <2>5, <2>7
    <3>3. ASSUME NEW s, IsStart(id, s, n + 1)', seen'[id].since = past'[s].at
          PROVE  Dated(id, seen[id])'
      BY <2>2, <3>1, <3>2, <3>3 DEF Dated, G
    <3>4. CASE id \in DOMAIN seen
      <4>0. PICK l \in Int : l = n - seen[id].misses
        BY <2>2, <2>10, <3>4
      <4>1. PICK s : IsStart(id, s, l) /\ seen[id].since = past[s].at
        BY <2>10, <3>4, <4>0
      <4>2. IsLast(id, l) /\ l \in Int /\ l <= n /\ n + 1 <= l + G + 1
        BY <2>2, <2>5, <2>10, <3>4, <4>0
      <4>3. Chain(id, n + 1)' = Chain(id, l) \cup {n + 1}
        BY <3>1, <4>2
      <4>4. s \in 1 .. n
        BY <2>6, <4>1 DEF IsStart, Chain
      <4>5. IsStart(id, s, n + 1)'
        <5>1. s \in Chain(id, n + 1)'
          BY <4>1, <4>3 DEF IsStart
        <5>2. ASSUME NEW j \in Chain(id, n + 1)'
              PROVE  s <= j
          <6>1. j \in Chain(id, l) \/ j = n + 1
            BY <4>3, <5>2
          <6>2. CASE j \in Chain(id, l)
            BY <4>1, <6>2 DEF IsStart
          <6>3. CASE j = n + 1
            BY <4>4, <6>3
          <6> QED BY <6>1, <6>2, <6>3
        <5> QED BY <5>1, <5>2 DEF IsStart
      <4>6. seen'[id].since = past'[s].at
        BY <2>5, <2>7, <3>4, <4>1, <4>4
      <4> QED BY <3>3, <4>5, <4>6
    <3>5. CASE id \notin DOMAIN seen
      <4>1. \A k \in Appearances(id) : n + 1 > k + G + 1
        BY <2>2, <2>5, <2>6, <2>10, <3>5
      <4>2. Chain(id, n + 1)' = {n + 1}
        BY <3>1, <4>1
      <4>3. IsStart(id, n + 1, n + 1)'
        BY <2>5, <4>2 DEF IsStart
      <4>4. seen'[id].since = past'[n + 1].at
        BY <2>3, <2>4, <2>5, <2>7, <3>5
      <4> QED BY <3>3, <4>3, <4>4
    <3> QED BY <3>4, <3>5
  <2>12. ASSUME NEW id \in kept
         PROVE  Dated(id, seen[id])'
    <3>1. id \in DOMAIN seen /\ id \notin DOMAIN found /\ seen[id].misses < G
      BY <2>8
    <3>0. PICK l \in Int : l = n - seen[id].misses
      BY <2>2, <2>10, <3>1
    <3>2. seen[id].misses \in 0 .. G /\ IsLast(id, l)
      BY <2>10, <3>0, <3>1
    <3>3. PICK s : IsStart(id, s, l) /\ seen[id].since = past[s].at
      BY <2>10, <3>0, <3>1
    <3>4. Appearances(id)' = Appearances(id) /\ Appearances(id) \in SUBSET (1 .. n)
      BY <2>6, <3>1
    <3>5. /\ seen'[id].misses = seen[id].misses + 1 /\ seen'[id].since = seen[id].since
          /\ Len(past') - seen'[id].misses = l
      BY <2>2, <2>5, <2>7, <3>0, <3>2
    <3>6. seen'[id].misses \in 0 .. G
      BY <2>2, <3>1, <3>2, <3>5
    <3>7. Chain(id, l)' = Chain(id, l)
      BY <3>4, ChainKept
    <3>8. IsLast(id, l)' /\ IsStart(id, s, l)'
      BY <3>2, <3>3, <3>4, <3>7 DEF IsLast, IsStart
    <3>9. past'[s].at = past[s].at
      BY <2>5, <3>3, <3>4 DEF IsStart, Chain
    <3> QED BY <3>3, <3>5, <3>6, <3>8, <3>9 DEF Dated, G
  <2>13. ASSUME NEW id
         PROVE  id \in DOMAIN found \cup kept <=> \E i \in Appearances(id)' : i >= Len(past') - G
    <3>1. CASE id \in DOMAIN found
      <4>1. n + 1 \in Appearances(id)' /\ n + 1 >= Len(past') - G
        BY <2>2, <2>5, <2>6, <3>1
      <4> QED BY <3>1, <4>1
    <3>2. CASE id \notin DOMAIN found
      <4>1. Appearances(id)' = Appearances(id) /\ Appearances(id) \in SUBSET (1 .. n)
        BY <2>6, <3>2
      <4>2. ASSUME id \in kept
            PROVE  \E i \in Appearances(id) : i >= n + 1 - G
        <5>1. /\ seen[id].misses \in 0 .. G /\ seen[id].misses < G
              /\ n - seen[id].misses \in Appearances(id)
          BY <2>8, <2>10, <4>2 DEF IsLast
        <5> QED BY <2>2, <2>5, <5>1
      <4>3. ASSUME NEW i \in Appearances(id), i >= n + 1 - G
            PROVE  id \in kept
        <5>1. i \in 1 .. n /\ i >= n - G
          BY <2>2, <2>5, <4>1, <4>3
        <5>2. id \in DOMAIN seen
          BY <2>10, <5>1
        <5>3. seen[id].misses \in 0 .. G /\ i <= n - seen[id].misses
          BY <2>10, <5>2 DEF IsLast
        <5>4. seen[id].misses < G
          BY <2>2, <2>5, <4>3, <5>1, <5>3
        <5> QED BY <2>9, <3>2, <5>2, <5>4
      <4>4. id \in kept <=> \E i \in Appearances(id) : i >= n + 1 - G
        BY <4>2, <4>3
      <4>5. Appearances(id)' = Appearances(id) /\ Len(past') = n + 1
        BY <2>5, <4>1
      <4>6. id \in kept <=> id \in DOMAIN found \cup kept
        BY <3>2
      <4>7. (\E i \in Appearances(id)' : i >= Len(past') - G)
              <=> \E i \in Appearances(id) : i >= n + 1 - G
        BY <2>2, <4>1, <4>5
      <4> QED BY <4>4, <4>6, <4>7
    <3> QED BY <3>1, <3>2
  <2>14. now' \in Int /\ IsSequence(past') /\ DOMAIN seen' = DOMAIN found \cup kept
    BY <2>1, <2>2, <2>5, <2>7
  <2> QED BY <2>7, <2>11, <2>12, <2>13, <2>14 DEF EpisodeInv, G
<1> QED BY <1>1, <1>2, <1>3, PollCases

(* Whatever comes and goes, and for every grace period, a finding is       *)
(* tracked just while its episode may go on, and its age is counted from   *)
(* the first poll of the episode.                                          *)
THEOREM EpisodeSafety == Spec => []SinceIsStartOfEpisode
<1>1. Init => EpisodeInv
  <2> SUFFICES ASSUME Init
               PROVE  EpisodeInv
    OBVIOUS
  <2>1. Len(past) = 0 /\ IsSequence(past) /\ DOMAIN past = {}
    BY DEF Init, IsSequence
  <2>2. \A id : Appearances(id) = {}
    BY <2>1 DEF Appearances
  <2> QED BY <2>1, <2>2 DEF Init, EpisodeInv, SeenEntry
<1>2. EpisodeInv /\ [Next]_vars => EpisodeInv'
  BY EpisodeStep
<1> QED BY <1>1, <1>2, EpisodeFound, PTL DEF Spec

-----------------------------------------------------------------------------
(* Slots of the host counters.                                             *)

(* A non-empty set of naturals has a least element: induction, in the form *)
(* of a least counterexample.                                              *)
LEMMA Least ==
  ASSUME NEW T \in SUBSET Nat, T # {}
  PROVE  \E m \in T : \A n \in T : m <= n
<1> DEFINE Less == OpToRel(<, Nat)
<1>1. IsWellFoundedOn(Less, Nat)
  BY NatLessThanWellFounded
<1>2. ASSUME NEW x \in Nat, NEW y \in Nat, x < y
      PROVE  <<x, y>> \in Less
  <2>1. Less = {ss \in Nat \X Nat : ss[1] < ss[2]}
    BY Zenon DEF OpToRel
  <2>2. <<x, y>> \in Nat \X Nat /\ <<x, y>>[1] = x /\ <<x, y>>[2] = y
    OBVIOUS
  <2> HIDE DEF Less
  <2> QED BY <1>2, <2>1, <2>2
<1> HIDE DEF Less
<1>3. PICK m \in T : \A n \in T : ~(<<n, m>> \in Less)
  BY <1>1, WFMin
<1>4. ASSUME NEW n \in T
      PROVE  m <= n
  <2>1. ~(n < m)
    BY <1>2, <1>3
  <2> QED BY <2>1
<1> QED BY <1>4

(* The last slot boundary among the first i reads, for the first m of h.   *)
Bounds(g, h, m) ==
  g = [i \in 1 .. m |-> IF i = 1 THEN 1
                        ELSE IF h[i].at - h[g[i - 1]].at >= SlotMin THEN i ELSE g[i - 1]]

LEMMA BoundsExist ==
  ASSUME NEW h, NEW m \in Nat
  PROVE  \E g : Bounds(g, h, m)
<1> DEFINE Stuck == {k \in Nat : ~\E g : Bounds(g, h, k)}
<1> SUFFICES ASSUME Stuck # {} PROVE FALSE
  OBVIOUS
<1>1. Stuck \in SUBSET Nat
  OBVIOUS
<1> HIDE DEF Stuck
<1>2. PICK k \in Stuck : \A j \in Stuck : k <= j
  BY <1>1, Least
<1>3. k \in Nat
  BY <1>1, <1>2
<1>4. CASE k = 0
  <2> DEFINE g == [i \in 1 .. 0 |-> 1]
  <2>1. Bounds(g, h, 0)
    BY DEF Bounds
  <2> HIDE DEF g
  <2> QED BY <1>2, <1>4, <2>1 DEF Stuck
<1>5. CASE k # 0
  <2>1. k - 1 \in Nat /\ k - 1 \notin Stuck
    BY <1>2, <1>3, <1>5
  <2>2. PICK g : Bounds(g, h, k - 1)
    BY <2>1 DEF Stuck
  <2> DEFINE f == [i \in 1 .. k |-> IF i < k THEN g[i]
                     ELSE IF k = 1 THEN 1
                     ELSE IF h[k].at - h[g[k - 1]].at >= SlotMin THEN k ELSE g[k - 1]]
  <2>3. ASSUME NEW i \in 1 .. k
        PROVE  f[i] = IF i = 1 THEN 1
                      ELSE IF h[i].at - h[f[i - 1]].at >= SlotMin THEN i ELSE f[i - 1]
    <3>1. \A j \in 1 .. k - 1 :
            g[j] = IF j = 1 THEN 1
                   ELSE IF h[j].at - h[g[j - 1]].at >= SlotMin THEN j ELSE g[j - 1]
      BY <2>2, Zenon DEF Bounds
    <3>2. \A j \in 1 .. k - 1 : f[j] = g[j]
      BY <1>3
    <3>3. f[k] = IF k = 1 THEN 1
                 ELSE IF h[k].at - h[g[k - 1]].at >= SlotMin THEN k ELSE g[k - 1]
      BY <1>3, <1>5
    <3> HIDE DEF f
    <3>4. CASE i = k
      <4>1. k # 1 => f[k - 1] = g[k - 1]
        BY <1>3, <1>5, <3>2
      <4> QED BY <3>3, <3>4, <4>1
    <3>5. CASE i # k
      <4>1. i \in 1 .. k - 1 /\ (i # 1 => i - 1 \in 1 .. k - 1)
        BY <1>3, <3>5
      <4> QED BY <3>1, <3>2, <4>1
    <3> QED BY <3>4, <3>5
  <2>4. f = [i \in 1 .. k |-> f[i]]
    OBVIOUS
  <2> HIDE DEF f
  <2>5. Bounds(f, h, k)
    BY <2>3, <2>4 DEF Bounds
  <2> QED BY <1>2, <2>5 DEF Stuck
<1> QED BY <1>4, <1>5

LEMMA BoundaryUnfold ==
  ASSUME NEW h, Len(h) \in Nat, NEW i \in 1 .. Len(h)
  PROVE  Boundary(h)[i] = IF i = 1 THEN 1
                          ELSE IF h[i].at - h[Boundary(h)[i - 1]].at >= SlotMin THEN i
                          ELSE Boundary(h)[i - 1]
<1>1. \E g : Bounds(g, h, Len(h))
  BY BoundsExist
<1>2. Bounds(Boundary(h), h, Len(h))
  BY <1>1, Zenon DEF Boundary, Bounds
<1> QED BY <1>2, Zenon DEF Bounds

(* The times of reads, in their order. *)
Timed(h) ==
  /\ Len(h) \in Nat
  /\ \A i \in 1 .. Len(h) : h[i].at \in Int
  /\ \A i, j \in 1 .. Len(h) : i <= j => h[i].at <= h[j].at

(* The last boundary is one, is not after the read it is asked of, and     *)
(* never goes back.                                                        *)
LEMMA BoundaryIs ==
  ASSUME NEW h, Timed(h)
  PROVE  /\ \A i \in 1 .. Len(h) :
              /\ Boundary(h)[i] \in 1 .. i
              /\ Boundary(h)[Boundary(h)[i]] = Boundary(h)[i]
         /\ \A i, j \in 1 .. Len(h) : i <= j => Boundary(h)[i] <= Boundary(h)[j]
<1>0. PICK n \in Nat : n = Len(h)
  BY DEF Timed
<1>1. PICK b : b = Boundary(h)
  OBVIOUS
<1>2. \A i \in 1 .. n : b[i] = IF i = 1 THEN 1
                               ELSE IF h[i].at - h[b[i - 1]].at >= SlotMin THEN i ELSE b[i - 1]
  BY <1>0, <1>1, BoundaryUnfold
<1>3. \A i \in 1 .. n : IF i = 1 THEN b[i] = 1 ELSE b[i] = i \/ b[i] = b[i - 1]
  BY <1>2
<1> DEFINE Off == {k \in 1 .. n : ~(/\ b[k] \in 1 .. k /\ b[b[k]] = b[k]
                                    /\ \A i \in 1 .. k : b[i] <= b[k])}
<1>4. Off = {}
  <2> SUFFICES ASSUME Off # {} PROVE FALSE
    OBVIOUS
  <2>1. Off \in SUBSET Nat
    OBVIOUS
  <2> HIDE DEF Off
  <2>2. PICK k \in Off : \A j \in Off : k <= j
    BY <2>1, Least
  <2>3. k \in 1 .. n /\ k \in Nat
    BY <2>1, <2>2 DEF Off
  <2>4. \A j \in 1 .. k - 1 : j \notin Off /\ j \in 1 .. n
    BY <2>1, <2>2, <2>3
  <2>5. \A j \in 1 .. k - 1 : /\ b[j] \in 1 .. j /\ b[b[j]] = b[j]
                              /\ \A i \in 1 .. j : b[i] <= b[j]
    BY <2>4 DEF Off
  <2>6. /\ b[k] \in 1 .. k /\ b[b[k]] = b[k]
        /\ \A i \in 1 .. k : b[i] <= b[k]
    <3>1. CASE k = 1
      <4>1. b[1] = 1
        BY <1>3, <2>3, <3>1
      <4>2. \A i \in 1 .. k : i = 1
        BY <3>1
      <4> QED BY <3>1, <4>1, <4>2
    <3>2. CASE k # 1
      <4>1. /\ k - 1 \in 1 .. k - 1
            /\ \A i \in 1 .. k : i = k \/ i \in 1 .. k - 1
        BY <2>3, <3>2
      <4>2. /\ b[k - 1] \in 1 .. k - 1 /\ b[b[k - 1]] = b[k - 1]
            /\ \A i \in 1 .. k - 1 : b[i] <= b[k - 1]
        BY <2>5, <4>1
      <4>3. CASE b[k] = k
        BY <2>3, <4>1, <4>2, <4>3, <2>5
      <4>4. CASE b[k] = b[k - 1]
        <5>1. b[k] \in 1 .. k /\ b[b[k]] = b[k]
          BY <2>3, <4>2, <4>4
        <5>2. \A i \in 1 .. k : b[i] <= b[k]
          BY <2>3, <4>1, <4>2, <4>4
        <5> QED BY <5>1, <5>2
      <4> QED BY <1>3, <2>3, <3>2, <4>3, <4>4
    <3> QED BY <3>1, <3>2
  <2> QED BY <2>2, <2>6 DEF Off
<1>5. \A k \in 1 .. n : /\ b[k] \in 1 .. k /\ b[b[k]] = b[k]
                        /\ \A i \in 1 .. k : b[i] <= b[k]
  BY <1>4
<1> HIDE DEF Off
<1>6. \A i, j \in 1 .. n : i <= j => b[i] <= b[j]
  <2> TAKE i, j \in 1 .. n
  <2> HAVE i <= j
  <2>1. i \in 1 .. j
    OBVIOUS
  <2> QED BY <1>5, <2>1
<1> QED BY <1>0, <1>1, <1>5, <1>6

(* Two boundaries are a full slot apart. *)
LEMMA BoundariesApart ==
  ASSUME NEW h, Timed(h), NEW i \in 1 .. Len(h), NEW j \in 1 .. Len(h), i < j,
         Boundary(h)[i] = i, Boundary(h)[j] = j
  PROVE  h[j].at - h[i].at >= SlotMin
<1>1. PICK b : b = Boundary(h)
  OBVIOUS
<1>2. /\ Len(h) \in Nat /\ j # 1 /\ j - 1 \in 1 .. Len(h) /\ i <= j - 1
      /\ \A k \in 1 .. Len(h) : h[k].at \in Int
      /\ \A k, l \in 1 .. Len(h) : k <= l => h[k].at <= h[l].at
  <2>1. Len(h) \in Nat
    BY DEF Timed
  <2>2. j # 1 /\ j - 1 \in 1 .. Len(h) /\ i <= j - 1
    BY <2>1
  <2>3. \A k \in 1 .. Len(h) : h[k].at \in Int
    BY DEF Timed
  <2>4. \A k, l \in 1 .. Len(h) : k <= l => h[k].at <= h[l].at
    BY DEF Timed
  <2> QED BY <2>1, <2>2, <2>3, <2>4
<1>3. b[j] = IF h[j].at - h[b[j - 1]].at >= SlotMin THEN j ELSE b[j - 1]
  BY <1>1, <1>2, BoundaryUnfold
<1>4. b[j - 1] \in 1 .. j - 1 /\ b[i] <= b[j - 1]
  BY <1>1, <1>2, BoundaryIs
<1>5. h[j].at - h[b[j - 1]].at >= SlotMin
  BY <1>1, <1>3, <1>4
<1>6. h[i].at <= h[b[j - 1]].at /\ b[j - 1] \in 1 .. Len(h)
  BY <1>1, <1>2, <1>4
<1>7. SlotMin \in Nat
  BY SessionAssumption
<1> QED BY <1>2, <1>5, <1>6, <1>7

(* The slots of a history that is long enough cover it, each of them full. *)
LEMMA SlotsAre ==
  ASSUME NEW h, Timed(h), NEW at, Len(h) >= 2, at = h[Len(h)].at, at - h[1].at >= SlotWindow,
         NEW slots, slots = SysSlots(h, at)
  PROVE  /\ {1, Len(h)} \subseteq slots
         /\ slots \subseteq 1 .. Len(h)
         /\ \A i, j \in slots : i < j => h[j].at - h[i].at >= SlotMin
<1>1. PICK n \in Nat : n = Len(h)
  BY DEF Timed
<1>2. /\ \A i \in 1 .. n : h[i].at \in Int
      /\ \A i, j \in 1 .. n : i <= j => h[i].at <= h[j].at
      /\ n >= 2
  BY <1>1 DEF Timed
<1>3. SlotMin \in Nat /\ SlotWindow \in Nat /\ SlotWindow >= SlotMin
  BY SessionAssumption
<1>4. PICK full : full = {i \in 1 .. Len(h) : Boundary(h)[i] = i}
  OBVIOUS
<1>5. PICK last : last = Boundary(h)[n]
  OBVIOUS
<1>6. last \in full /\ last \in 1 .. n /\ \A i \in full : i \in 1 .. n /\ i <= last
  <2>1. \A i \in full : i \in 1 .. n /\ Boundary(h)[i] = i
    BY <1>1, <1>4
  <2>2. n \in 1 .. n
    BY <1>2
  <2> QED BY <1>1, <1>4, <1>5, <2>1, <2>2, BoundaryIs
<1>7. 1 \in full
  <2>1. 1 \in 1 .. n
    BY <1>2
  <2>2. Boundary(h)[1] = 1
    BY <1>1, <2>1, BoundaryUnfold
  <2> QED BY <1>1, <1>4, <2>1, <2>2
<1>8. Max(full) = last
  <2>1. full \in SUBSET Int
    BY <1>1, <1>4
  <2>2. \A x \in full : last >= x
    BY <1>6, <2>1
  <2> QED BY <1>6, <2>1, <2>2, MaxIs
<1>9. slots = IF Max(full) = Len(h)
                THEN full
                ELSE (IF Cardinality(full) > 1 THEN full \ {Max(full)} ELSE full) \cup {Len(h)}
  BY <1>2, <1>3, <1>1, <1>4 DEF SysSlots
<1>10. \A i, j \in full : i < j => h[j].at - h[i].at >= SlotMin
  BY <1>4, BoundariesApart
<1>11. CASE last = n
  BY <1>1, <1>6, <1>7, <1>8, <1>9, <1>10, <1>11
<1>12. CASE last # n
  <2>0. last < n
    BY <1>6, <1>12
  <2>1. IsFiniteSet(full)
    <3>1. IsFiniteSet(1 .. n)
      BY FS_Interval
    <3>2. full \in SUBSET (1 .. n)
      BY <1>6
    <3> QED BY <3>1, <3>2, FS_Subset
  <2>2. CASE Cardinality(full) > 1
    <3>1. slots = (full \ {last}) \cup {n}
      BY <1>1, <1>8, <1>9, <1>12, <2>2
    <3>2. last # 1
      <4> SUFFICES ASSUME last = 1 PROVE FALSE
        OBVIOUS
      <4>0. \A i \in full : i = 1
        BY <1>6
      <4>1. full = {1}
        BY <1>7, <4>0
      <4>2. Cardinality(full) = 1
        BY <4>1, FS_Singleton
      <4> QED BY <2>2, <4>2
    <3>3. ASSUME NEW i \in full, i # last
          PROVE  h[n].at - h[i].at >= SlotMin
      <4>1. i < last /\ i \in 1 .. n
        BY <1>6, <3>3
      <4>2. h[last].at - h[i].at >= SlotMin
        BY <1>6, <1>10, <3>3, <4>1
      <4>3. h[last].at <= h[n].at /\ h[last].at \in Int /\ h[n].at \in Int /\ h[i].at \in Int
        BY <1>2, <1>6, <2>0, <4>1
      <4> QED BY <1>3, <4>2, <4>3
    <3>4. ASSUME NEW i \in slots, NEW j \in slots, i < j
          PROVE  h[j].at - h[i].at >= SlotMin
      <4>1. i # n
        BY <1>6, <3>1, <3>4
      <4>2. i \in full /\ i # last
        BY <3>1, <4>1
      <4>3. CASE j = n
        BY <3>3, <4>2, <4>3
      <4>4. CASE j # n
        BY <1>10, <3>1, <3>4, <4>2, <4>4
      <4> QED BY <4>3, <4>4
    <3>5. {1, n} \subseteq slots /\ slots \subseteq 1 .. n
      BY <1>2, <1>6, <1>7, <3>1, <3>2
    <3> QED BY <1>1, <3>4, <3>5
  <2>3. CASE ~(Cardinality(full) > 1)
    <3>1. full = {1}
      <4>1. Cardinality({1}) = 1 /\ {1} \in SUBSET full
        BY <1>7, FS_Singleton
      <4>2. Cardinality(full) \in Nat
        BY <2>1, FS_CardinalityType
      <4>3. Cardinality({1}) <= Cardinality(full) /\ (Cardinality(full) = Cardinality({1}) => full = {1})
        BY <2>1, <4>1, FS_Subset
      <4> QED BY <2>3, <4>1, <4>2, <4>3
    <3>2. slots = {1, n}
      BY <1>1, <1>8, <1>9, <1>12, <2>3, <3>1
    <3>3. h[n].at - h[1].at >= SlotMin
      BY <1>1, <1>2, <1>3
    <3>4. \A i, j \in slots : i < j => i = 1 /\ j = n
      BY <1>2, <3>2
    <3>5. \A i, j \in slots : i < j => h[j].at - h[i].at >= SlotMin
      BY <3>3, <3>4
    <3> QED BY <1>1, <1>2, <3>2, <3>5
  <2> QED BY <2>2, <2>3
<1> QED BY <1>11, <1>12

-----------------------------------------------------------------------------
(* Trimming.                                                               *)

(* Trimming keeps a suffix: what is dropped was followed by a read that is *)
(* a window old already, what follows the first kept read is not.          *)
LEMMA TrimmedIs ==
  ASSUME NEW h, NEW at \in Int, NEW n \in Nat \ {0}, n = Len(h),
         \A i \in 1 .. n : h[i].at \in Int
  PROVE  \E j \in 1 .. n :
           /\ Trimmed(h, at) = SubSeq(h, j, n)
           /\ j # n => at - h[j + 1].at < SlotWindow
           /\ j # 1 => at - h[j].at >= SlotWindow
<1>1. PICK stop : stop = {j \in 1 .. Len(h) : j = Len(h) \/ at - h[j + 1].at < SlotWindow}
  OBVIOUS
<1>2. stop \in SUBSET Nat /\ stop \in SUBSET Int /\ n \in stop
  BY <1>1
<1>3. PICK j \in stop : \A k \in stop : j <= k
  BY <1>2, Least
<1>4. Min(stop) = j
  BY <1>2, <1>3, MinIs
<1>5. Trimmed(h, at) = SubSeq(h, j, n)
  BY <1>1, <1>4 DEF Trimmed
<1>6. j \in 1 .. n /\ (j # n => at - h[j + 1].at < SlotWindow)
  BY <1>1
<1>7. j # 1 => at - h[j].at >= SlotWindow
  <2> SUFFICES ASSUME j # 1 PROVE at - h[j].at >= SlotWindow
    OBVIOUS
  <2>1. j - 1 \in 1 .. n /\ j - 1 \notin stop /\ (j - 1) + 1 = j /\ j - 1 # n
    BY <1>2, <1>3, <1>6
  <2>2. ~(at - h[j].at < SlotWindow)
    BY <1>1, <2>1
  <2>3. SlotWindow \in Int /\ h[j].at \in Int
    BY <1>6, SessionAssumption
  <2> QED BY <2>2, <2>3
<1> QED BY <1>5, <1>6, <1>7

(* The reads kept are the last ones, from the one of number b on. *)
IsTail(h, r, b) ==
  /\ IsSequence(h) /\ b \in 1 .. Len(r)
  /\ Len(h) = Len(r) - b + 1
  /\ \A i \in 1 .. Len(h) : h[i] = r[b + i - 1]

LEMMA TailIs ==
  ASSUME NEW r, IsSequence(r), NEW b \in 1 .. Len(r)
  PROVE  IsTail(SubSeq(r, b, Len(r)), r, b)
<1>1. PICK S : r \in Seq(S)
  BY DEF IsSequence
<1>2. Len(r) \in Nat /\ \A i \in b .. Len(r) : r[i] \in S
  BY <1>1
<1>3. PICK h : h = SubSeq(r, b, Len(r))
  OBVIOUS
<1>4. /\ h \in Seq(S)
      /\ Len(h) = IF b <= Len(r) THEN Len(r) - b + 1 ELSE 0
      /\ \A i \in 1 .. Len(r) - b + 1 : h[i] = r[b + i - 1]
  BY <1>2, <1>3, SubSeqProperties
<1>5. Len(h) = Len(r) - b + 1
  BY <1>2, <1>4
<1> QED BY <1>3, <1>4, <1>5 DEF IsTail, IsSequence

LEMMA TailUnique ==
  ASSUME NEW r, IsSequence(r), NEW b, NEW h, IsTail(h, r, b)
  PROVE  h = SubSeq(r, b, Len(r))
<1>1. b \in 1 .. Len(r)
  BY DEF IsTail
<1>2. PICK g : g = SubSeq(r, b, Len(r))
  OBVIOUS
<1>3. IsTail(g, r, b)
  BY <1>1, <1>2, TailIs
<1>4. PICK S, T : h \in Seq(S) /\ g \in Seq(T)
  BY <1>3 DEF IsTail, IsSequence
<1>5. h \in Seq(S \cup T) /\ g \in Seq(S \cup T)
  BY <1>4
<1>6. Len(h) = Len(g) /\ \A i \in 1 .. Len(h) : h[i] = g[i]
  BY <1>3 DEF IsTail
<1> QED BY <1>2, <1>5, <1>6, SeqEqual

(* The reads kept begin with the newest one that is a window old, or with  *)
(* the very first.                                                         *)
WindowInv ==
  /\ now \in Int
  /\ IsSequence(reads) /\ Timed(reads)
  /\ \A i \in 1 .. Len(reads) : reads[i].at <= now
  /\ Len(reads) = 0 => sysHist = <<>>
  /\ Len(reads) # 0 =>
       \E b \in 1 .. Len(reads) :
         /\ IsTail(sysHist, reads, b)
         /\ b # 1 => reads[Len(reads)].at - reads[b].at >= SlotWindow
         /\ b # Len(reads) => reads[Len(reads)].at - reads[b + 1].at < SlotWindow

LEMMA AppendIs ==
  ASSUME NEW s, IsSequence(s), NEW e
  PROVE  /\ IsSequence(Append(s, e)) /\ Len(s) \in Nat /\ Len(Append(s, e)) = Len(s) + 1
         /\ Append(s, e)[Len(s) + 1] = e
         /\ \A k \in 1 .. Len(s) : Append(s, e)[k] = s[k]
<1>1. PICK S : s \in Seq(S)
  BY DEF IsSequence
<1> DEFINE T == S \cup {e}
<1>2. s \in Seq(T) /\ e \in T
  BY <1>1
<1> HIDE DEF T
<1> QED BY <1>2, AppendProperties DEF IsSequence

IsAppend(h, s, e) == h = Append(s, e)

LEMMA Appended ==
  ASSUME NEW s, IsSequence(s), NEW e, NEW h, IsAppend(h, s, e), NEW m, m = Len(s)
  PROVE  /\ IsSequence(h) /\ m \in Nat /\ Len(h) = m + 1 /\ h[Len(h)] = e
         /\ \A k \in 1 .. m : h[k] = s[k]
<1>1. /\ IsSequence(h) /\ m \in Nat /\ Len(h) = m + 1
      /\ \A k \in 1 .. m : h[k] = s[k]
  BY AppendIs DEF IsAppend
<1>2. Append(s, e)[Len(s) + 1] = e
  BY AppendIs
<1>3. h[m + 1] = e
  BY <1>2 DEF IsAppend
<1> QED BY <1>1, <1>3

(* The host counters as a poll leaves them. *)
LEMMA WindowRolled ==
  ASSUME Steps \subseteq Nat, WindowInv, NEW step \in Steps, NEW grown \in Growth,
         now' = now + step, RollCounters(now + step, grown)
  PROVE  /\ WindowInv'
         /\ grown # None => Len(reads') # 0 /\ reads'[Len(reads')].at = now'
<1>0. PICK at \in Int : at = now + step /\ at = now' /\ now <= at
  BY DEF WindowInv
<1>1. CASE grown = None
  <2>1. reads' = reads /\ sysHist' = sysHist
    BY <1>1 DEF RollCounters
  <2>2. \A i \in 1 .. Len(reads) : reads[i].at \in Int /\ reads[i].at <= now'
    BY <1>0 DEF WindowInv, Timed
  <2>3. WindowInv'
    BY <1>0, <2>1, <2>2 DEF WindowInv, Timed
  <2> QED BY <1>1, <2>3
<1>2. CASE grown # None
  <2>1. PICK read : read = [at |-> at, count |-> counter + grown]
    OBVIOUS
  <2>2. /\ reads' = Append(reads, read) /\ read.at = at
        /\ sysHist' = Trimmed(Append(sysHist, read), at)
    BY <1>0, <1>2, <2>1 DEF RollCounters
  <2>3. PICK n \in Nat : n = Len(reads)
    BY DEF WindowInv, Timed
  <2>4. /\ IsSequence(reads') /\ Len(reads') = n + 1 /\ reads'[n + 1] = read
        /\ \A i \in 1 .. n : reads'[i] = reads[i]
    BY <2>2, <2>3, AppendIs DEF WindowInv
  <2>5. /\ \A i \in 1 .. n : reads[i].at \in Int /\ reads[i].at <= at
        /\ \A i, j \in 1 .. n : i <= j => reads[i].at <= reads[j].at
    BY <1>0, <2>3 DEF WindowInv, Timed
  <2>6. /\ Timed(reads')
        /\ \A i \in 1 .. n + 1 : reads'[i].at \in Int /\ reads'[i].at <= at
    <3>1. \A i \in 1 .. n + 1 : i \in 1 .. n \/ i = n + 1
      OBVIOUS
    <3>2. \A i \in 1 .. n + 1 : reads'[i].at \in Int /\ reads'[i].at <= at
      BY <2>2, <2>4, <2>5, <3>1
    <3>3. ASSUME NEW i \in 1 .. n + 1, NEW j \in 1 .. n + 1, i <= j
          PROVE  reads'[i].at <= reads'[j].at
      <4>1. CASE j = n + 1
        BY <2>2, <2>4, <3>2, <4>1
      <4>2. CASE j # n + 1
        <5>1. i \in 1 .. n /\ j \in 1 .. n
          BY <3>3, <4>2
        <5> QED BY <2>4, <2>5, <3>3, <5>1
      <4> QED BY <4>1, <4>2
    <3> QED BY <2>4, <3>2, <3>3 DEF Timed
  <2>7. PICK h : IsAppend(h, sysHist, read)
    BY DEF IsAppend
  <2>7a. sysHist' = Trimmed(h, at)
    BY <2>2, <2>7 DEF IsAppend
  <2>8. \E c \in 1 .. n + 1 :
          /\ IsTail(h, reads', c)
          /\ c # 1 => at - reads'[c].at >= SlotWindow
    <3>1. CASE n = 0
      <4>1. sysHist = <<>> /\ IsSequence(sysHist)
        BY <2>3, <3>1 DEF WindowInv, IsSequence
      <4>2. IsSequence(h) /\ Len(h) = 1 /\ h[1] = read
        <5>1. PICK m : m = Len(sysHist)
          OBVIOUS
        <5>2. IsSequence(h) /\ Len(h) = m + 1
          BY <2>7, <4>1, <5>1, Appended
        <5>3. h[Len(h)] = read
          BY <2>7, <4>1, <5>1, Appended
        <5>4. m = 0
          BY <4>1, <5>1
        <5> QED BY <5>2, <5>3, <5>4
      <4>3. IsTail(h, reads', 1)
        BY <2>4, <3>1, <4>2 DEF IsTail
      <4> QED BY <3>1, <4>3
    <3>2. CASE n # 0
      <4>1. PICK b \in 1 .. n : /\ IsTail(sysHist, reads, b)
                                /\ b # 1 => reads[n].at - reads[b].at >= SlotWindow
        BY <2>3, <3>2 DEF WindowInv
      <4>2. PICK m : m = Len(sysHist)
        OBVIOUS
      <4>3. /\ m = n - b + 1 /\ IsSequence(sysHist)
            /\ \A i \in 1 .. m : sysHist[i] = reads[b + i - 1]
        BY <2>3, <4>1, <4>2 DEF IsTail
      <4>4. /\ IsSequence(h) /\ Len(h) = m + 1 /\ h[m + 1] = read
            /\ \A i \in 1 .. m : h[i] = sysHist[i]
        <5>1. IsSequence(sysHist)
          BY <4>3
        <5>2. Len(h) = m + 1 /\ h[Len(h)] = read
          BY <2>7, <4>2, <5>1, Appended
        <5>3. IsSequence(h) /\ \A i \in 1 .. m : h[i] = sysHist[i]
          BY <2>7, <4>2, <5>1, Appended
        <5> QED BY <5>2, <5>3
      <4>5. ASSUME NEW i \in 1 .. m + 1
            PROVE  h[i] = reads'[b + i - 1]
        <5>1. CASE i = m + 1
          BY <2>4, <4>3, <4>4, <5>1
        <5>2. CASE i # m + 1
          <6>1. i \in 1 .. m /\ b + i - 1 \in 1 .. n
            BY <4>3, <5>2
          <6> QED BY <2>4, <4>3, <4>4, <6>1
        <5> QED BY <5>1, <5>2
      <4>6. Len(h) = (n + 1) - b + 1 /\ b \in 1 .. n + 1
        BY <4>3, <4>4
      <4>7. IsTail(h, reads', b)
        BY <2>4, <4>4, <4>5, <4>6 DEF IsTail
      <4>8. b # 1 => at - reads'[b].at >= SlotWindow
        <5>1. reads'[b] = reads[b] /\ n \in 1 .. n
          BY <2>4, <3>2
        <5>2. reads[n].at <= at /\ reads[n].at \in Int /\ reads[b].at \in Int /\ SlotWindow \in Int
          BY <2>5, <5>1, SessionAssumption
        <5> QED BY <4>1, <5>1, <5>2
      <4> QED BY <4>6, <4>7, <4>8
    <3> QED BY <3>1, <3>2
  <2>9. PICK c \in 1 .. n + 1 : /\ IsTail(h, reads', c)
                                /\ c # 1 => at - reads'[c].at >= SlotWindow
    BY <2>8
  <2>10. PICK m \in Nat \ {0} : m = Len(h) /\ m = (n + 1) - c + 1
    BY <2>4, <2>9 DEF IsTail
  <2>11. \A i \in 1 .. m : h[i] = reads'[c + i - 1] /\ c + i - 1 \in 1 .. n + 1
    BY <2>9, <2>10 DEF IsTail
  <2>12. PICK j \in 1 .. m :
           /\ sysHist' = SubSeq(h, j, m)
           /\ j # m => at - h[j + 1].at < SlotWindow
           /\ j # 1 => at - h[j].at >= SlotWindow
    <3>1. \A i \in 1 .. m : h[i].at \in Int
      BY <2>6, <2>11
    <3> QED BY <2>7a, <2>10, <3>1, TrimmedIs
  <2>13. PICK b \in 1 .. n + 1 : b = c + j - 1
    BY <2>11
  <2>14. IsTail(sysHist', reads', b)
    <3>1. IsTail(sysHist', h, j)
      <4>1. IsSequence(h) /\ j \in 1 .. Len(h) /\ sysHist' = SubSeq(h, j, Len(h))
        BY <2>9, <2>10, <2>12 DEF IsTail
      <4> QED BY <4>1, TailIs
    <3>2. PICK l : l = Len(sysHist')
      OBVIOUS
    <3>3. /\ l = m - j + 1 /\ IsSequence(sysHist')
          /\ \A i \in 1 .. l : sysHist'[i] = h[j + i - 1]
      BY <2>10, <3>1, <3>2 DEF IsTail
    <3>4. l = (n + 1) - b + 1
      BY <2>10, <2>13, <3>3
    <3>5. ASSUME NEW i \in 1 .. l
          PROVE  sysHist'[i] = reads'[b + i - 1]
      <4>1. j + i - 1 \in 1 .. m
        BY <3>3
      <4>2. h[j + i - 1] = reads'[c + (j + i - 1) - 1]
        BY <2>11, <4>1
      <4>3. c + (j + i - 1) - 1 = b + i - 1
        BY <2>13
      <4> QED BY <3>3, <4>2, <4>3
    <3> QED BY <2>4, <3>2, <3>3, <3>4, <3>5 DEF IsTail
  <2>15. b # 1 => at - reads'[b].at >= SlotWindow
    <3>1. h[j] = reads'[b]
      BY <2>11, <2>13
    <3>2. j = 1 => b = c
      BY <2>13
    <3> QED BY <2>9, <2>12, <3>1, <3>2
  <2>16. b # n + 1 => at - reads'[b + 1].at < SlotWindow
    <3> SUFFICES ASSUME b # n + 1 PROVE at - reads'[b + 1].at < SlotWindow
      OBVIOUS
    <3>1. j # m /\ j + 1 \in 1 .. m /\ c + (j + 1) - 1 = b + 1
      BY <2>10, <2>13
    <3>2. h[j + 1] = reads'[b + 1]
      BY <2>11, <3>1
    <3> QED BY <2>12, <3>1, <3>2
  <2>17. reads'[n + 1].at = at
    BY <2>2, <2>4
  <2>18. WindowInv'
    <3>1. Len(reads') # 0 /\ now' \in Int /\ now' = at
      BY <1>0, <2>4
    <3>2. /\ b # 1 => reads'[Len(reads')].at - reads'[b].at >= SlotWindow
          /\ b # Len(reads') => reads'[Len(reads')].at - reads'[b + 1].at < SlotWindow
      BY <2>4, <2>15, <2>16, <2>17
    <3>3. b \in 1 .. Len(reads') /\ \A i \in 1 .. Len(reads') : reads'[i].at <= now'
      BY <2>4, <2>6, <3>1
    <3> QED BY <2>4, <2>6, <2>14, <3>1, <3>2, <3>3 DEF WindowInv
  <2> QED BY <1>0, <2>4, <2>17, <2>18
<1> QED BY <1>1, <1>2

LEMMA WindowStep ==
  ASSUME Steps \subseteq Nat, WindowInv, [Next]_vars
  PROVE  WindowInv'
<1>1. CASE UNCHANGED vars
  BY <1>1 DEF vars, WindowInv, Timed
<1>2. ASSUME NEW step \in Steps, NEW grown \in Growth, Failed(now + step, grown)
      PROVE  WindowInv'
  BY <1>2, WindowRolled DEF Failed, IngestFailed
<1>3. ASSUME NEW step \in Steps, NEW grown \in Growth, NEW problems \in Problems,
             Data(now + step, grown, problems)
      PROVE  WindowInv'
  BY <1>3, WindowRolled DEF Data, IngestData
<1> QED BY <1>1, <1>2, <1>3, PollCases

LEMMA WindowFound ==
  ASSUME WindowInv
  PROVE  WindowReachesBack
<1>1. PICK n \in Nat : n = Len(reads)
  BY DEF WindowInv, Timed
<1>2. PICK old : old = {j \in 1 .. n : reads[n].at - reads[j].at >= SlotWindow}
  OBVIOUS
<1>3. SUFFICES sysHist = SubSeq(reads, IF old = {} THEN 1 ELSE Max(old), n)
  BY <1>1, <1>2 DEF WindowReachesBack
<1>4. CASE n = 0
  <2>1. old = {} /\ sysHist = <<>>
    BY <1>1, <1>2, <1>4 DEF WindowInv
  <2>2. SubSeq(reads, 1, 0) = <<>>
    BY SubSeqEmpty
  <2> QED BY <1>4, <2>1, <2>2
<1>5. CASE n # 0
  <2>1. PICK b \in 1 .. n :
          /\ IsTail(sysHist, reads, b)
          /\ b # 1 => reads[n].at - reads[b].at >= SlotWindow
          /\ b # n => reads[n].at - reads[b + 1].at < SlotWindow
    BY <1>1, <1>5 DEF WindowInv
  <2>2. sysHist = SubSeq(reads, b, n)
    BY <1>1, <2>1, TailUnique DEF WindowInv
  <2>3. /\ \A i \in 1 .. n : reads[i].at \in Int
        /\ \A i, j \in 1 .. n : i <= j => reads[i].at <= reads[j].at
    BY <1>1 DEF WindowInv, Timed
  <2>4. SlotWindow \in Nat \ {0}
    BY SessionAssumption
  <2>5. ASSUME NEW j \in old
        PROVE  j \in 1 .. b
    <3>1. j \in 1 .. n /\ reads[n].at - reads[j].at >= SlotWindow
      BY <1>2
    <3>2. CASE b = n
      BY <3>1, <3>2
    <3>3. CASE b # n
      <4> SUFFICES ASSUME ~(j <= b) PROVE FALSE
        BY <3>1
      <4>1. b + 1 \in 1 .. n /\ b + 1 <= j /\ n \in 1 .. n
        BY <3>1, <3>3
      <4>2. /\ reads[b + 1].at <= reads[j].at /\ reads[b + 1].at \in Int
            /\ reads[j].at \in Int /\ reads[n].at \in Int
        BY <2>3, <3>1, <4>1
      <4> QED BY <2>1, <2>4, <3>1, <3>3, <4>2
    <3> QED BY <3>2, <3>3
  <2>6. CASE old = {}
    <3>1. b = 1
      <4> SUFFICES ASSUME b # 1 PROVE FALSE
        OBVIOUS
      <4>1. b \in old
        BY <1>2, <2>1
      <4> QED BY <2>6, <4>1
    <3> QED BY <2>2, <2>6, <3>1
  <2>7. CASE old # {}
    <3>1. b \in old
      <4>1. CASE b # 1
        BY <1>2, <2>1, <4>1
      <4>2. CASE b = 1
        <5>1. PICK j : j \in old
          BY <2>7
        <5>2. j = b
          BY <2>5, <4>2, <5>1
        <5> QED BY <5>1, <5>2
      <4> QED BY <4>1, <4>2
    <3>2. old \in SUBSET Int /\ \A j \in old : b >= j
      BY <1>2, <2>5
    <3>3. Max(old) = b
      BY <3>1, <3>2, MaxIs
    <3> QED BY <2>2, <2>7, <3>3
  <2> QED BY <2>6, <2>7
<1> QED BY <1>4, <1>5

(* The windowed retransmit rate looks back far enough and no further, for  *)
(* any window and any polls that fail in between, as long as the wall      *)
(* clock is not set back.                                                  *)
THEOREM WindowSafety ==
  ASSUME Steps \subseteq Nat
  PROVE  Spec => []WindowReachesBack
<1>1. Init => WindowInv
  <2> SUFFICES ASSUME Init
               PROVE  WindowInv
    OBVIOUS
  <2>1. Len(reads) = 0 /\ IsSequence(reads) /\ sysHist = <<>> /\ now \in Int
    BY DEF Init, IsSequence
  <2> QED BY <2>1 DEF WindowInv, Timed
<1>2. WindowInv /\ [Next]_vars => WindowInv'
  BY WindowStep
<1>3. WindowInv => WindowReachesBack
  BY WindowFound
<1> QED BY <1>1, <1>2, <1>3, PTL DEF Spec

(* The last report holds the slots as they were when it was made. *)
SlotsInv ==
  /\ WindowInv
  /\ IsSequence(history) /\ Len(history) <= BufferSize
  /\ IsSequence(past)
  /\ Len(past) # 0 =>
       /\ past[Len(past)].at \in Int /\ past[Len(past)].at <= now
       /\ past[Len(past)].at = now /\ past[Len(past)].read =>
            /\ Len(reads) # 0 /\ reads[Len(reads)].at = now
            /\ history[Len(history)].slots = SysSlots(sysHist, now)

LEMMA SlotsStep ==
  ASSUME Steps \subseteq Nat \ {0}, SlotsInv, [Next]_vars
  PROVE  SlotsInv'
<1>0. WindowInv'
  BY WindowStep DEF SlotsInv
<1>1. CASE UNCHANGED vars
  BY <1>0, <1>1 DEF vars, SlotsInv
<1>2. ASSUME NEW step \in Steps, NEW grown \in Growth, Failed(now + step, grown)
      PROVE  SlotsInv'
  <2>1. now' = now + step /\ UNCHANGED <<history, past>> /\ now \in Int /\ step \in Nat \ {0}
    BY <1>2 DEF Failed, IngestFailed, SlotsInv, WindowInv
  <2>2. Len(past) # 0 => /\ past[Len(past)].at \in Int
                         /\ past[Len(past)].at <= now' /\ past[Len(past)].at # now'
    BY <2>1 DEF SlotsInv
  <2> QED BY <1>0, <2>1, <2>2 DEF SlotsInv
<1>3. ASSUME NEW step \in Steps, NEW grown \in Growth, NEW problems \in Problems,
             Data(now + step, grown, problems)
      PROVE  SlotsInv'
  <2>1. PICK at \in Int : at = now + step
    <3>1. now \in Int
      BY DEF SlotsInv, WindowInv
    <3>2. step \in Nat
      OBVIOUS
    <3>3. now + step \in Int
      BY <3>1, <3>2
    <3> QED BY <3>3
  <2>2. PICK found : found = Analyze(problems, sysCur', sysPrev')
    OBVIOUS
  <2>3. PICK entry : entry = [at |-> at, found |-> found, slots |-> SysSlots(sysHist', at)]
    OBVIOUS
  <2>4. PICK poll : poll = [at |-> at, found |-> found, read |-> grown # None]
    OBVIOUS
  <2>5. /\ now' = at /\ history' = Remembered(history, entry) /\ past' = Append(past, poll)
        /\ RollCounters(now + step, grown)
    BY <1>3, <2>1, <2>2, <2>3, <2>4 DEF Data, IngestData
  <2>6. entry.slots = SysSlots(sysHist', at) /\ poll.at = at /\ (poll.read => grown # None)
    BY <2>3, <2>4
  <2>7. grown # None => Len(reads') # 0 /\ reads'[Len(reads')].at = now'
    <3>1. Steps \subseteq Nat /\ WindowInv /\ now' = now + step
      BY <2>1, <2>5 DEF SlotsInv
    <3> QED BY <2>5, <3>1, WindowRolled
  <2>8. IsSequence(history') /\ Len(history') <= BufferSize /\ history'[Len(history')] = entry
    <3>1. IsSequence(history) /\ Len(history) <= BufferSize /\ Len(history) \in Nat
      BY LenProperties DEF SlotsInv, IsSequence
    <3>2. /\ IsSequence(history') /\ history'[Len(history')] = entry
          /\ Len(history') = IF Len(history) = BufferSize THEN BufferSize ELSE Len(history) + 1
      BY <2>5, <3>1, RememberedIs
    <3>3. BufferSize \in Nat
      BY SessionAssumption
    <3> QED BY <3>1, <3>2, <3>3
  <2>9. IsSequence(past') /\ past'[Len(past')] = poll
    <3>1. IsAppend(past', past, poll) /\ IsSequence(past)
      BY <2>5 DEF IsAppend, SlotsInv
    <3> QED BY <3>1, Appended
  <2>10. /\ past'[Len(past')].at \in Int /\ past'[Len(past')].at <= now'
         /\ past'[Len(past')].read => /\ Len(reads') # 0 /\ reads'[Len(reads')].at = now'
                                      /\ history'[Len(history')].slots = SysSlots(sysHist', now')
    BY <2>5, <2>6, <2>7, <2>8, <2>9
  <2> QED BY <1>0, <2>8, <2>9, <2>10 DEF SlotsInv
<1> QED BY <1>1, <1>2, <1>3, PollCases

LEMMA SlotsFound ==
  ASSUME SlotsInv
  PROVE  SlotsCoverWindow
<1>1. PICK h, n : h = sysHist /\ n = Len(h)
  OBVIOUS
<1>2. PICK slots : slots = history[Len(history)].slots
  OBVIOUS
<1> SUFFICES ASSUME past # <<>>, past[Len(past)].at = now, past[Len(past)].read
             PROVE  IF n < 2 \/ now - h[1].at < SlotWindow
                      THEN slots = {}
                      ELSE /\ {1, n} \subseteq slots
                           /\ slots \subseteq 1 .. n
                           /\ \A i, j \in slots : i < j => h[j].at - h[i].at >= SlotMin
  BY <1>1, <1>2 DEF SlotsCoverWindow
<1>3. Len(past) # 0
  BY EmptySeq DEF SlotsInv, IsSequence
<1>4. /\ Len(reads) # 0 /\ reads[Len(reads)].at = now
      /\ slots = SysSlots(h, now)
  BY <1>1, <1>2, <1>3 DEF SlotsInv
<1>5. PICK b, m \in Nat : m = Len(reads) /\ b \in 1 .. m /\ IsTail(h, reads, b)
  BY <1>1, <1>4 DEF SlotsInv, WindowInv, Timed
<1>6. n = m - b + 1 /\ \A i \in 1 .. n : h[i] = reads[b + i - 1] /\ b + i - 1 \in 1 .. m
  <2>1. n = m - b + 1 /\ \A i \in 1 .. n : h[i] = reads[b + i - 1]
    BY <1>1, <1>5 DEF IsTail
  <2> QED BY <1>5, <2>1
<1>7. /\ \A i \in 1 .. m : reads[i].at \in Int
      /\ \A i, j \in 1 .. m : i <= j => reads[i].at <= reads[j].at
  BY <1>5 DEF SlotsInv, WindowInv, Timed
<1>8. Timed(h)
  <2>1. n \in Nat /\ \A i \in 1 .. n : h[i].at \in Int
    BY <1>5, <1>6, <1>7
  <2>2. ASSUME NEW i \in 1 .. n, NEW j \in 1 .. n, i <= j
        PROVE  h[i].at <= h[j].at
    <3>1. b + i - 1 \in 1 .. m /\ b + j - 1 \in 1 .. m /\ b + i - 1 <= b + j - 1
      BY <1>5, <1>6, <2>2
    <3> QED BY <1>6, <1>7, <3>1
  <2> QED BY <1>1, <2>1, <2>2 DEF Timed
<1>9. n \in 1 .. n /\ b + n - 1 = m /\ h[n].at = now
  <2>1. n \in 1 .. n /\ b + n - 1 = m
    BY <1>5, <1>6
  <2> QED BY <1>4, <1>5, <1>6, <2>1
<1>10. CASE n < 2 \/ now - h[1].at < SlotWindow
  BY <1>1, <1>4, <1>10 DEF SysSlots
<1>11. CASE ~(n < 2 \/ now - h[1].at < SlotWindow)
  <2>1. n \in Nat /\ n >= 2 /\ h[1].at \in Int /\ now \in Int /\ SlotWindow \in Int
    <3>1. n \in Nat /\ n >= 2
      BY <1>9, <1>5, <1>6, <1>11
    <3>2. now \in Int /\ h[1].at \in Int
      BY <1>1, <1>8, <3>1 DEF SlotsInv, WindowInv, Timed
    <3> QED BY <3>1, <3>2, SessionAssumption
  <2>2. now - h[1].at >= SlotWindow
    BY <1>11, <2>1
  <2>3. /\ {1, n} \subseteq slots
        /\ slots \subseteq 1 .. n
        /\ \A i, j \in slots : i < j => h[j].at - h[i].at >= SlotMin
    BY <1>1, <1>4, <1>8, <1>9, <2>1, <2>2, SlotsAre
  <2> QED BY <1>11, <2>3
<1> QED BY <1>10, <1>11

(* The slots that the rules judge by cover the window without one too      *)
(* short to judge, for any window, slot length and clock that moves on     *)
(* from poll to poll.                                                      *)
THEOREM SlotsSafety ==
  ASSUME Steps \subseteq Nat \ {0}
  PROVE  Spec => []SlotsCoverWindow
<1>1. Init => SlotsInv
  <2> SUFFICES ASSUME Init
               PROVE  SlotsInv
    OBVIOUS
  <2>1. /\ Len(reads) = 0 /\ IsSequence(reads) /\ sysHist = <<>> /\ now \in Int
        /\ Len(past) = 0 /\ IsSequence(past) /\ Len(history) = 0 /\ IsSequence(history)
    BY DEF Init, IsSequence
  <2>2. BufferSize \in Nat
    BY SessionAssumption
  <2> QED BY <2>1, <2>2 DEF SlotsInv, WindowInv, Timed
<1>2. SlotsInv /\ [Next]_vars => SlotsInv'
  BY SlotsStep
<1>3. SlotsInv => SlotsCoverWindow
  BY SlotsFound
<1> QED BY <1>1, <1>2, <1>3, PTL DEF Spec

-----------------------------------------------------------------------------
(* The reports that are kept, however the clock is set.                    *)

ReportsInv ==
  /\ IsSequence(history) /\ Len(history) <= BufferSize
  /\ \A i \in 1 .. Len(history) : history[i].found \in Found

LEMMA AnalyzeFound ==
  ASSUME NEW problems \in Problems, NEW cur, NEW prev
  PROVE  Analyze(problems, cur, prev) \in Found
<1>1. PICK T \in SUBSET Ids : problems \in [T -> 1 .. 2]
  BY DEF Problems
<1>2. problems \in Found
  BY <1>1 DEF Found, AllIds
<1> DEFINE more == [id \in DOMAIN problems \cup {HostId} |-> IF id = HostId THEN 1 ELSE problems[id]]
<1>3. more \in [T \cup {HostId} -> 1 .. 2] /\ T \cup {HostId} \in SUBSET AllIds
  BY <1>1 DEF AllIds
<1>4. more \in Found
  BY <1>3 DEF Found
<1> QED BY <1>2, <1>4 DEF Analyze

LEMMA ReportsStep == ReportsInv /\ [Next]_vars => ReportsInv'
<1> SUFFICES ASSUME ReportsInv, [Next]_vars
             PROVE  ReportsInv'
  OBVIOUS
<1>1. CASE history' = history
  BY <1>1 DEF ReportsInv
<1>2. ASSUME NEW step \in Steps, NEW grown \in Growth, NEW problems \in Problems,
             Data(now + step, grown, problems)
      PROVE  ReportsInv'
  <2> DEFINE found == Analyze(problems, sysCur', sysPrev')
             entry == [at |-> now + step, found |-> found, slots |-> SysSlots(sysHist', now + step)]
             N     == BufferSize
             n     == Len(history)
             m     == IF n = N THEN N ELSE n + 1
             k(i)  == IF n = N THEN i + 1 ELSE i
  <2>1. history' = Remembered(history, entry) /\ entry.found \in Found
    BY <1>2, AnalyzeFound DEF Data, IngestData
  <2>2. N \in Nat \ {0} /\ n \in Nat /\ n <= N
    BY SessionAssumption, LenProperties DEF ReportsInv, IsSequence
  <2> HIDE DEF found, entry
  <2>3. /\ IsSequence(history') /\ Len(history') = m /\ history'[m] = entry
        /\ \A i \in 1 .. m - 1 : history'[i] = history[k(i)]
    BY <2>1, <2>2, RememberedIs DEF ReportsInv
  <2>4. m \in Nat \ {0} /\ m <= N /\ \A i \in 1 .. m - 1 : k(i) \in 1 .. n
    BY <2>2
  <2> HIDE DEF N, n, m, k
  <2>5. ASSUME NEW i \in 1 .. m
        PROVE  history'[i].found \in Found
    <3>1. CASE i = m
      BY <2>1, <2>3, <3>1
    <3>2. CASE i \in 1 .. m - 1
      BY <2>3, <2>4, <3>2 DEF ReportsInv, n
    <3> QED BY <2>4, <3>1, <3>2
  <2> QED BY <2>3, <2>4, <2>5 DEF ReportsInv, N
<1> QED BY <1>1, <1>2, PollCases DEF vars, Failed, IngestFailed

LEMMA ReportsStart == Init => ReportsInv
<1> SUFFICES ASSUME Init
             PROVE  ReportsInv
  OBVIOUS
<1>1. Len(history) = 0 /\ IsSequence(history)
  BY DEF Init, IsSequence
<1> QED BY <1>1, SessionAssumption DEF ReportsInv

LEMMA MaxIsIn ==
  ASSUME NEW n \in Nat, NEW T \in SUBSET (1 .. n), T # {}
  PROVE  Max(T) \in T
<1> DEFINE far == {d \in Nat : \E i \in T : d = n - i}
<1>1. far \in SUBSET Nat /\ far # {}
  <2>1. PICK i \in T : TRUE
    OBVIOUS
  <2>2. n - i \in far
    OBVIOUS
  <2> QED BY <2>2
<1>2. PICK d \in far : \A e \in far : d <= e
  BY <1>1, Least
<1>3. PICK m \in T : d = n - m
  BY <1>2
<1>4. ASSUME NEW i \in T
      PROVE  m >= i
  <2>1. n - i \in far
    OBVIOUS
  <2>2. d <= n - i
    BY <1>2, <2>1
  <2> QED BY <1>3, <2>2
<1>5. Max(T) = m
  BY <1>4, MaxIs
<1> QED BY <1>3, <1>5

(* A report that is found is one of those kept. *)
LEMMA ReportFound ==
  ASSUME ReportsInv, NEW ts, HasReport(ts)
  PROVE  ReportFor(ts).found \in Found
<1> DEFINE older == {i \in DOMAIN history : history[i].at <= ts}
<1>1. Len(history) \in Nat /\ DOMAIN history = 1 .. Len(history)
  BY LenProperties DEF ReportsInv, IsSequence
<1>2. older \in SUBSET (1 .. Len(history)) /\ older # {}
  BY <1>1 DEF HasReport
<1>3. Max(older) \in older
  <2> HIDE DEF older
  <2> QED BY <1>1, <1>2, MaxIsIn
<1> HIDE DEF older
<1>4. Max(older) \in 1 .. Len(history)
  BY <1>2, <1>3
<1>5. ReportFor(ts) = history[Max(older)]
  BY DEF ReportFor, LastUpTo, older
<1> QED BY <1>4, <1>5 DEF ReportsInv
=============================================================================
