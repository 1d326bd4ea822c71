------------------------------- MODULE Buffer -------------------------------
(***************************************************************************)
(* The ring of snapshots behind every view (poller/poller.go) and the      *)
(* exports that read it from another goroutine (poller/export.go).         *)
(*                                                                         *)
(* Snapshots live on a heap and the ring holds pointers to them, because   *)
(* what has to hold is about pointers: a reader takes them under the lock  *)
(* and dereferences them after it was released, while the single writer    *)
(* (session.Ingest, on the UI goroutine or in the recording loop) keeps    *)
(* publishing.  Each action is a critical section of Buffer.mu, or the     *)
(* unlocked work between two of them that no other goroutine can see.      *)
(*                                                                         *)
(* Environment: sockets whose byte counter only grows.  A socket is its    *)
(* own inode; ss shows it, or hides it from an unprivileged user.          *)
(***************************************************************************)
EXTENDS Integers, Sequences, FiniteSets

CONSTANTS
  BufferSize,     \* slots in the ring
  Sockets,        \* sockets of the host
  Tuple,          \* Tuple[s]: protocol and addresses of socket s
  ShowsInode,     \* the sockets whose inode ss reports
  Exporters,      \* export goroutines
  MaxBytes,       \* bound on a socket's byte counter
  MaxPolls,       \* bound on the polls taken
  None            \* nil

ASSUME BufferSizeAssumption == BufferSize \in Nat \ {0}
ASSUME EnvironmentAssumption ==
  /\ MaxBytes \in Nat
  /\ MaxPolls \in Nat
  /\ ShowsInode \subseteq Sockets
  /\ None \notin Int

VARIABLES
  heap,           \* snapshots ever allocated; a pointer is an index, 0 is nil
  ring,           \* Buffer.snapshots
  head,           \* Buffer.head: the slot the next snapshot goes to
  count,          \* Buffer.count
  prevMap,        \* Buffer.prevMap: the last poll's connections by key
  staged,         \* the poll between the two critical sections of AddSnapshotAt
  export,         \* export[e]: what the export goroutine e is doing
  kernel,         \* kernel[s]: the true byte counter of socket s
  log             \* history variable: the connections of every published poll

vars == <<heap, ring, head, count, prevMap, staged, export, kernel, log>>

-----------------------------------------------------------------------------
(* Connections and snapshots.                                              *)

Slots == 0 .. BufferSize - 1

Conn == [sock : Sockets, bytes : 0 .. MaxBytes \cup {None}, delta : 0 .. MaxBytes \cup {None}]

Snapshot == [poll : Nat, full : BOOLEAN, conns : SUBSET Conn]

(* Mutant: sockets are told apart by their addresses alone. *)
ConnKeyNoInode(s) == <<Tuple[s]>>

(* The key that identifies a socket from poll to poll: its addresses, and  *)
(* its inode when ss shows it.                                             *)
ConnKey(s) == IF s \in ShowsInode THEN <<Tuple[s], s>> ELSE <<Tuple[s]>>

Keys == {ConnKey(s) : s \in Sockets}

(* Growth of the byte counter since the connection `prev` of the poll      *)
(* before; nil when either poll lacks the counter or it went back.         *)
Delta(cur, prev) ==
  IF cur.bytes # None /\ prev.bytes # None /\ cur.bytes >= prev.bytes
    THEN cur.bytes - prev.bytes
    ELSE None

(* The poll's connections with their deltas against the ones found in the  *)
(* previous map (computeDeltas).                                           *)
WithDeltas(conns, prevs) ==
  {[c EXCEPT !.delta = IF ConnKey(c.sock) \in DOMAIN prevs
                         THEN Delta(c, prevs[ConnKey(c.sock)])
                         ELSE None] : c \in conns}

(* A compact Sample keeps the delta and drops the counter. *)
Sample(c) == [c EXCEPT !.bytes = None]

Samples(conns) == {Sample(c) : c \in conns}

(* The copy of a snapshot with samples only. *)
Demote(snap) ==
  [snap EXCEPT !.full = FALSE, !.conns = Samples(@)]

(* Every way to file the poll's connections by key: when several share a   *)
(* key the last one in the sorted slice stays, and ties sort either way.   *)
ByKey(conns) ==
  {m \in [{ConnKey(c.sock) : c \in conns} -> conns] :
     \A k \in DOMAIN m : ConnKey(m[k].sock) = k}

-----------------------------------------------------------------------------
(* Reading the ring.                                                       *)

(* The slot of the snapshot `offset` positions back from the newest. *)
SlotFromEnd(offset) == (((head - 1 - offset) % BufferSize) + BufferSize) % BufferSize

(* The snapshot pointer at that offset, nil out of range. *)
SnapshotFromEnd(offset) ==
  IF offset < 0 \/ offset >= count THEN 0 ELSE ring[SlotFromEnd(offset)]

(* The newest snapshot pointer, nil when the buffer is empty. *)
GetLatest ==
  IF count = 0 THEN 0 ELSE ring[(head - 1 + BufferSize) % BufferSize]

(* Every snapshot pointer, oldest first. *)
GetAll ==
  [i \in 1 .. count |-> ring[(head - count + (i - 1) + BufferSize) % BufferSize]]

(* The connections of a snapshot that carry the key. *)
Matching(snap, key) == {c \in snap.conns : ConnKey(c.sock) = key}

(* Those of the first snapshot, newest first, that has the key; {} when    *)
(* none does.                                                              *)
LookupRecent(key) ==
  LET has == {o \in 0 .. count - 1 :
                Matching(heap[ring[SlotFromEnd(o)]], key) # {}}
  IN  IF has = {}
        THEN {}
        ELSE Matching(heap[ring[SlotFromEnd(CHOOSE o \in has : \A p \in has : o <= p)]], key)
-----------------------------------------------------------------------------
(* The writer: AddSnapshotAt.                                              *)

Idle == [kind |-> "idle", at |-> 0, refs |-> <<>>, out |-> <<>>]

Init ==
  /\ heap = <<>>
  /\ ring = [i \in Slots |-> 0]
  /\ head = 0
  /\ count = 0
  /\ prevMap = <<>>
  /\ staged = None
  /\ export = [e \in Exporters |-> Idle]
  /\ kernel = [s \in Sockets |-> 0]
  /\ log = <<>>

(* ss lists the sockets of `open`, some without a byte counter; the write  *)
(* to the buffer starts by copying, under the read lock, the previous      *)
(* connections with the same keys.                                         *)
ReadPrevs(open, silent, counters) ==
  /\ staged = None
  /\ Len(log) < MaxPolls
  /\ \A s \in Sockets : counters[s] >= kernel[s]
  /\ \A s \in Sockets \ open : counters[s] = kernel[s]
  /\ kernel' = counters
  /\ LET conns == {[sock  |-> s,
                    bytes |-> IF s \in silent THEN None ELSE counters[s],
                    delta |-> None] : s \in open}
         keys  == {ConnKey(s) : s \in open} \cap DOMAIN prevMap
     IN  staged' = [conns |-> conns, prevs |-> [k \in keys |-> prevMap[k]]]
  /\ UNCHANGED <<heap, ring, head, count, prevMap, export, log>>

(* Mutant: the slot about to be overwritten is demoted instead. *)
DemotedSlotHead == head

(* The slot of the snapshot that stops being the latest. *)
DemotedSlot == (head - 1 + BufferSize) % BufferSize

(* Mutant: the outgoing latest is stripped in place. *)
DemotedHeapInPlace ==
  IF ring[DemotedSlot] = 0
    THEN heap
    ELSE [heap EXCEPT ![ring[DemotedSlot]] = Demote(@)]

(* The heap and the ring with the outgoing latest replaced by a demoted    *)
(* copy; the snapshot it was is left as it is for whoever holds it.        *)
DemotedHeap ==
  IF ring[DemotedSlot] = 0 THEN heap ELSE Append(heap, Demote(heap[ring[DemotedSlot]]))

(* Mutant: the demoted copy is never stored. *)
DemotedRingKept == ring

DemotedRing ==
  IF ring[DemotedSlot] = 0 THEN ring ELSE [ring EXCEPT ![DemotedSlot] = Len(DemotedHeap)]

NextCount == IF count < BufferSize THEN count + 1 ELSE count

(* The deltas are computed unlocked, then the snapshot is published under  *)
(* the write lock.                                                         *)
Publish ==
  /\ staged # None
  /\ LET conns == WithDeltas(staged.conns, staged.prevs)
     IN  /\ heap' = Append(DemotedHeap,
                           [poll |-> Len(log) + 1, full |-> conns # {}, conns |-> conns])
         /\ prevMap' \in ByKey(conns)
         /\ log' = Append(log, conns)
  /\ ring' = [DemotedRing EXCEPT ![head] = Len(heap')]
  /\ head' = (head + 1) % BufferSize
  /\ count' = NextCount
  /\ staged' = None
  /\ UNCHANGED <<export, kernel>>
-----------------------------------------------------------------------------
(* The exports: pointers are taken under the lock, snapshots encoded later. *)

(* ExportJSON takes every snapshot. *)
StartJSON(e) ==
  /\ export[e].kind = "idle"
  /\ export' = [export EXCEPT
       ![e] = [kind |-> "json", at |-> Len(log), refs |-> GetAll, out |-> <<>>]]
  /\ UNCHANGED <<heap, ring, head, count, prevMap, staged, kernel, log>>

(* ExportCSV takes the latest one, and refuses an empty buffer. *)
StartCSV(e) ==
  /\ export[e].kind = "idle"
  /\ GetLatest # 0
  /\ export' = [export EXCEPT
       ![e] = [kind |-> "csv", at |-> Len(log), refs |-> <<GetLatest>>, out |-> <<>>]]
  /\ UNCHANGED <<heap, ring, head, count, prevMap, staged, kernel, log>>

(* What an export writes for a snapshot: JSON its connections, slim ones   *)
(* for a demoted snapshot; CSV its full-detail connections only.           *)
Written(kind, snap) ==
  IF kind = "json" THEN snap.conns ELSE IF snap.full THEN snap.conns ELSE {}

(* The next snapshot is encoded, or writing it fails and the export ends.  *)
EncodeNext(e) ==
  /\ export[e].kind # "idle"
  /\ Len(export[e].out) < Len(export[e].refs)
  /\ LET snap == heap[export[e].refs[Len(export[e].out) + 1]]
     IN  \/ export' = [export EXCEPT ![e].out = Append(@, Written(export[e].kind, snap))]
         \/ export' = [export EXCEPT ![e] = Idle]
  /\ UNCHANGED <<heap, ring, head, count, prevMap, staged, kernel, log>>

(* The file is complete and closed. *)
FinishExport(e) ==
  /\ export[e].kind # "idle"
  /\ Len(export[e].out) = Len(export[e].refs)
  /\ export' = [export EXCEPT ![e] = Idle]
  /\ UNCHANGED <<heap, ring, head, count, prevMap, staged, kernel, log>>

Next ==
  \/ \E open, silent \in SUBSET Sockets :
       \E counters \in [Sockets -> 0 .. MaxBytes] :
         silent \subseteq open /\ ReadPrevs(open, silent, counters)
  \/ Publish
  \/ \E e \in Exporters : StartJSON(e) \/ StartCSV(e) \/ EncodeNext(e) \/ FinishExport(e)

Spec == Init /\ [][Next]_vars
-----------------------------------------------------------------------------
(* Properties.                                                             *)

Export ==
  [kind : {"idle", "json", "csv"}, at : 0 .. Len(log),
   refs : Seq(1 .. Len(heap)), out : Seq(SUBSET Conn)]

(* The ring, its pointers and the maps stay well-formed whatever the       *)
(* writer and the exports do: no pointer leaves the heap, the head and the *)
(* count stay in range, nothing but a connection is filed by key.          *)
TypeOK ==
  /\ heap \in Seq(Snapshot)
  /\ ring \in [Slots -> 0 .. Len(heap)]
  /\ head \in Slots
  /\ count \in 0 .. BufferSize
  /\ \E K \in SUBSET Keys : prevMap \in [K -> Conn]
  /\ \/ staged = None
     \/ /\ staged.conns \in SUBSET Conn
        /\ \E K \in SUBSET Keys : staged.prevs \in [K -> Conn]
  /\ export \in [Exporters -> Export]
  /\ kernel \in [Sockets -> 0 .. MaxBytes]
  /\ log \in Seq(SUBSET Conn)

(* What a view may see of poll n when m polls had been taken: everything   *)
(* for the newest, samples for the ones before it.                         *)
PublishedAs(n, m) == IF n = m THEN log[n] ELSE Samples(log[n])

(* Stepping back o snapshots shows what was published o polls ago, and the *)
(* buffer holds as many as fit: the ring never skips, repeats or reorders  *)
(* a poll, wherever it has wrapped, and only the newest keeps full detail  *)
(* (AddSnapshotAt's demotion and the index arithmetic of SnapshotFromEnd). *)
OffsetIsAge ==
  /\ count = IF Len(log) < BufferSize THEN Len(log) ELSE BufferSize
  /\ \A o \in 0 .. count - 1 :
       /\ SnapshotFromEnd(o) # 0
       /\ LET snap == heap[SnapshotFromEnd(o)]
          IN  /\ snap.poll = Len(log) - o
              /\ snap.conns = PublishedAs(Len(log) - o, Len(log))
              /\ snap.full => o = 0

(* The three ways to address the ring agree: GetAll is the snapshots of    *)
(* SnapshotFromEnd read backwards, and GetLatest is the last of them.      *)
ReadersAgree ==
  /\ \A i \in 1 .. count : GetAll[i] = SnapshotFromEnd(count - i)
  /\ GetLatest = SnapshotFromEnd(0)

(* LookupRecent answers from the newest poll in the buffer that has the    *)
(* key, so the Detail view of a closed socket shows its last state and a   *)
(* live socket never shows an older one.                                   *)
LookupRecentIsNewest ==
  \A key \in Keys :
    LET seen == {n \in Len(log) - count + 1 .. Len(log) :
                   \E c \in log[n] : ConnKey(c.sock) = key}
    IN  IF seen = {}
          THEN LookupRecent(key) = {}
          ELSE LET n == CHOOSE m \in seen : \A p \in seen : p <= m
               IN  LookupRecent(key) =
                     {c \in PublishedAs(n, Len(log)) : ConnKey(c.sock) = key}

(* An export writes the buffer as it was at one instant, the one at which  *)
(* it took its pointers, however many polls are published while it         *)
(* encodes: a snapshot demoted meanwhile keeps its full detail for the     *)
(* export that already holds it (the comment of demote).                   *)
ExportIsOneInstant ==
  \A e \in Exporters :
    \A i \in DOMAIN export[e].out :
      export[e].out[i] =
        PublishedAs(export[e].at - Len(export[e].refs) + i, export[e].at)

(* A delta is what one socket sent during the last poll: it compares two   *)
(* counters of the same socket in consecutive polls, for every socket      *)
(* whose inode ss shows, and it is there whenever both counters are.       *)
DeltaIsLastPollOfSocket ==
  \A n \in DOMAIN log : \A c \in log[n] :
    c.sock \in ShowsInode =>
      LET before == IF n = 1 THEN {} ELSE {p \in log[n - 1] : p.sock = c.sock /\ p.bytes # None}
      IN  c.delta = IF before = {} \/ c.bytes = None
                      THEN None
                      ELSE c.bytes - (CHOOSE p \in before : TRUE).bytes

(* The ring implements the plain bounded history. *)
Kept == [i \in 1 .. count |-> heap[GetAll[i]]]

Abstract == INSTANCE History WITH hist <- Kept, Slim <- Demote

(* Every publication is one step of the history, and nothing else changes  *)
(* what it holds.                                                          *)
ImplementsHistory == Abstract!Spec
=============================================================================
