---------------------------- MODULE Buffer_proofs ----------------------------
(***************************************************************************)
(* Proofs about Buffer, for every size of the ring, every set of sockets   *)
(* and exporters and every bound: the types, that the ring is addressed by *)
(* age, that its readers agree, that an export is of one instant, and what *)
(* a delta compares.                                                       *)
(***************************************************************************)
EXTENDS Buffer, SequenceTheorems, TLAPS

(* The index arithmetic: `o` back from a head h, around the ring once at   *)
(* most.                                                                   *)
SlotAt(h, o) == (((h - 1 - o) % BufferSize) + BufferSize) % BufferSize

LEMMA SlotArithmetic ==
  ASSUME NEW h \in Slots, NEW o \in 0 .. BufferSize - 1
  PROVE  SlotAt(h, o) = IF o < h THEN h - 1 - o ELSE h - 1 - o + BufferSize
<1> DEFINE x == h - 1 - o
<1>1. BufferSize \in Nat \ {0} /\ h \in 0 .. BufferSize - 1
  BY BufferSizeAssumption DEF Slots
<1>2. x \in Int /\ x = h - 1 - o
  BY <1>1
<1> HIDE DEF x
<1>3. CASE o < h
  <2>1. x \in 0 .. BufferSize - 1
    BY <1>1, <1>2, <1>3
  <2>2. x % BufferSize = x
    BY <1>1, <1>2, <2>1
  <2>3. x + BufferSize \in BufferSize .. 2 * BufferSize - 1 /\ x + BufferSize \in Int
    BY <1>1, <2>1
  <2>4. (x + BufferSize) % BufferSize = x
    BY <1>1, <1>2, <2>3
  <2>5. QED BY <1>2, <1>3, <2>2, <2>4 DEF SlotAt
<1>4. CASE ~(o < h)
  <2>1. x \in -BufferSize .. -1
    BY <1>1, <1>2, <1>4
  <2>2. x % BufferSize = x + BufferSize
    BY <1>1, <1>2, <2>1
  <2>3. x + BufferSize + BufferSize \in BufferSize .. 2 * BufferSize - 1
    BY <1>1, <2>1
  <2>4. (x + BufferSize + BufferSize) % BufferSize = x + BufferSize
    BY <1>1, <1>2, <2>3
  <2>5. QED BY <1>2, <1>4, <2>2, <2>4 DEF SlotAt
<1>5. QED BY <1>3, <1>4

(* The slot `o` back from the newest. *)
LEMMA SlotOfOffset ==
  ASSUME TypeOK, NEW o \in 0 .. BufferSize - 1
  PROVE  SlotFromEnd(o) = IF o < head THEN head - 1 - o ELSE head - 1 - o + BufferSize
  BY SlotArithmetic DEF TypeOK, SlotFromEnd, SlotAt

(* The slot that AddSnapshotAt demotes and GetLatest reads is the newest.  *)
LEMMA NewestSlot ==
  ASSUME TypeOK
  PROVE  /\ DemotedSlot = SlotFromEnd(0)
         /\ DemotedSlot = IF head = 0 THEN BufferSize - 1 ELSE head - 1
         /\ DemotedSlot \in Slots
<1>1. BufferSize \in Nat \ {0} /\ head \in 0 .. BufferSize - 1
  BY BufferSizeAssumption DEF TypeOK, Slots
<1>2. DemotedSlot = IF head = 0 THEN BufferSize - 1 ELSE head - 1
  <2>1. CASE head = 0
    BY <1>1, <2>1, head - 1 + BufferSize \in 0 .. BufferSize - 1 DEF DemotedSlot
  <2>2. CASE head # 0
    BY <1>1, <2>2, head - 1 + BufferSize \in BufferSize .. 2 * BufferSize - 1
    DEF DemotedSlot
  <2>3. QED BY <2>1, <2>2
<1>3. SlotFromEnd(0) = IF 0 < head THEN head - 1 - 0 ELSE head - 1 - 0 + BufferSize
  BY <1>1, SlotOfOffset
<1>4. QED BY <1>1, <1>2, <1>3 DEF Slots

-----------------------------------------------------------------------------
(* Types.                                                                  *)

LEMMA DeltaType ==
  ASSUME NEW c \in Conn, NEW p \in Conn
  PROVE  Delta(c, p) \in 0 .. MaxBytes \cup {None}
  BY EnvironmentAssumption DEF Delta, Conn

LEMMA SampleType ==
  ASSUME NEW c \in Conn
  PROVE  Sample(c) \in Conn
  BY DEF Sample, Conn

LEMMA DemoteType ==
  ASSUME NEW snap \in Snapshot
  PROVE  /\ Demote(snap) \in Snapshot
         /\ Demote(snap).poll = snap.poll
         /\ Demote(snap).full = FALSE
         /\ Demote(snap).conns = Samples(snap.conns)
<1>1. Samples(snap.conns) \in SUBSET Conn
  BY SampleType DEF Snapshot, Samples
<1>2. QED BY <1>1 DEF Demote, Snapshot

LEMMA WithDeltasType ==
  ASSUME NEW conns \in SUBSET Conn, NEW K \in SUBSET Keys, NEW prevs \in [K -> Conn]
  PROVE  WithDeltas(conns, prevs) \in SUBSET Conn
<1>1. ASSUME NEW c \in conns
      PROVE  [c EXCEPT !.delta = IF ConnKey(c.sock) \in DOMAIN prevs
                                   THEN Delta(c, prevs[ConnKey(c.sock)])
                                   ELSE None] \in Conn
  <2>1. CASE ConnKey(c.sock) \in DOMAIN prevs
    <3>1. prevs[ConnKey(c.sock)] \in Conn
      BY <2>1
    <3>2. Delta(c, prevs[ConnKey(c.sock)]) \in 0 .. MaxBytes \cup {None}
      BY <3>1, DeltaType
    <3>3. QED BY <2>1, <3>2 DEF Conn
  <2>2. CASE ConnKey(c.sock) \notin DOMAIN prevs
    BY <2>2 DEF Conn
  <2>3. QED BY <2>1, <2>2
<1>2. QED BY <1>1 DEF WithDeltas

(* Filed by key, the connections of a poll are a function of some keys.    *)
LEMMA ByKeyType ==
  ASSUME NEW conns \in SUBSET Conn, NEW m \in ByKey(conns)
  PROVE  \E K \in SUBSET Keys : m \in [K -> Conn]
<1> DEFINE K == {ConnKey(c.sock) : c \in conns}
<1>1. K \in SUBSET Keys
  BY DEF Keys, Conn
<1>2. m \in [K -> conns]
  BY DEF ByKey
<1>3. m \in [K -> Conn]
  BY <1>2
<1>4. QED BY <1>1, <1>3

LEMMA InitType == Init => TypeOK
<1> SUFFICES ASSUME Init PROVE TypeOK
  OBVIOUS
<1>1. \E K \in SUBSET Keys : <<>> \in [K -> Conn]
  <2>1. <<>> \in [{} -> Conn]
    OBVIOUS
  <2>2. QED BY <2>1
<1>2. \A e \in Exporters : export[e] = Idle
  BY DEF Init
<1>3. Len(<<>>) = 0 /\ <<>> \in Seq(Snapshot) /\ <<>> \in Seq(SUBSET Conn)
  OBVIOUS
<1>4. ring \in [Slots -> 0 .. Len(heap)] /\ head \in Slots /\ count \in 0 .. BufferSize
  BY <1>3, BufferSizeAssumption DEF Init, Slots
<1>5. kernel \in [Sockets -> 0 .. MaxBytes]
  BY EnvironmentAssumption DEF Init
<1>6. export \in [Exporters -> Export]
  <2>1. <<>> \in Seq(1 .. Len(heap)) /\ 0 \in 0 .. Len(log)
    BY <1>3 DEF Init
  <2>2. Idle \in Export
    BY <1>3, <2>1 DEF Idle, Export
  <2>3. QED BY <2>2 DEF Init
<1>7. QED BY <1>1, <1>3, <1>4, <1>5, <1>6 DEF Init, TypeOK

(* What a publication does to the heap, the ring and the log: they keep    *)
(* all they had, but for the head and the demoted slot.                    *)
LEMMA PublishEffect ==
  ASSUME TypeOK, Publish
  PROVE  /\ heap' \in Seq(Snapshot)
         /\ Len(heap') > Len(heap)
         /\ \A p \in 1 .. Len(heap) : heap'[p] = heap[p]
         /\ log' \in Seq(SUBSET Conn)
         /\ Len(log') = Len(log) + 1
         /\ \A n \in 1 .. Len(log) : log'[n] = log[n]
         /\ ring' \in [Slots -> 0 .. Len(heap')]
         /\ ring'[head] = Len(heap')
         /\ heap'[Len(heap')] = [poll  |-> Len(log) + 1,
                                 full  |-> log'[Len(log) + 1] # {},
                                 conns |-> log'[Len(log) + 1]]
         /\ \A s \in Slots \ {head, DemotedSlot} : ring'[s] = ring[s]
         /\ DemotedSlot # head =>
              IF ring[DemotedSlot] = 0
                THEN ring'[DemotedSlot] = 0
                ELSE /\ ring'[DemotedSlot] # 0
                     /\ heap'[ring'[DemotedSlot]] = Demote(heap[ring[DemotedSlot]])
<1> DEFINE conns == WithDeltas(staged.conns, staged.prevs)
           new == [poll |-> Len(log) + 1, full |-> conns # {}, conns |-> conns]
           p == ring[DemotedSlot]
<1>1. conns \in SUBSET Conn
  BY WithDeltasType DEF TypeOK, Publish
<1>2. new \in Snapshot
  BY <1>1 DEF TypeOK, Snapshot
<1>3. heap' = Append(DemotedHeap, new) /\ log' = Append(log, conns)
      /\ ring' = [DemotedRing EXCEPT ![head] = Len(heap')]
  BY DEF Publish
<1> HIDE DEF new, conns
<1>4. DemotedSlot \in Slots /\ head \in Slots /\ p \in 0 .. Len(heap)
  BY NewestSlot DEF TypeOK
<1>5. /\ log' \in Seq(SUBSET Conn)
      /\ Len(log') = Len(log) + 1
      /\ \A n \in 1 .. Len(log) : log'[n] = log[n]
      /\ log'[Len(log) + 1] = conns
  BY <1>1, <1>3 DEF TypeOK
<1>6. new = [poll  |-> Len(log) + 1,
             full  |-> log'[Len(log) + 1] # {},
             conns |-> log'[Len(log) + 1]]
  BY <1>5 DEF new
<1>7. CASE p = 0
  <2>1. DemotedHeap = heap /\ DemotedRing = ring
    BY <1>7 DEF DemotedHeap, DemotedRing
  <2>2. /\ heap' \in Seq(Snapshot)
        /\ Len(heap') = Len(heap) + 1
        /\ \A q \in 1 .. Len(heap) : heap'[q] = heap[q]
        /\ heap'[Len(heap')] = new
    BY <1>2, <1>3, <2>1 DEF TypeOK
  <2>3. ring' = [ring EXCEPT ![head] = Len(heap')]
    BY <1>3, <2>1
  <2>4. /\ ring' \in [Slots -> 0 .. Len(heap')]
        /\ ring'[head] = Len(heap')
        /\ \A s \in Slots \ {head} : ring'[s] = ring[s]
    BY <1>4, <2>2, <2>3 DEF TypeOK
  <2>5. QED BY <1>4, <1>5, <1>6, <1>7, <2>2, <2>4 DEF TypeOK
<1>8. CASE p # 0
  <2> DEFINE copy == Demote(heap[p])
  <2>1. DemotedHeap = Append(heap, copy)
    BY <1>8 DEF DemotedHeap
  <2>2. copy \in Snapshot
    BY <1>4, <1>8, DemoteType, heap[p] \in Snapshot DEF TypeOK
  <2> HIDE DEF copy
  <2>3. /\ DemotedHeap \in Seq(Snapshot)
        /\ Len(DemotedHeap) = Len(heap) + 1
        /\ \A q \in 1 .. Len(heap) : DemotedHeap[q] = heap[q]
        /\ DemotedHeap[Len(heap) + 1] = copy
    BY <2>1, <2>2 DEF TypeOK
  <2>4. /\ heap' \in Seq(Snapshot)
        /\ Len(heap') = Len(heap) + 2
        /\ \A q \in 1 .. Len(heap) + 1 : heap'[q] = DemotedHeap[q]
        /\ heap'[Len(heap')] = new
    BY <1>2, <1>3, <2>3 DEF TypeOK
  <2>5. /\ heap'[Len(heap) + 1] = copy
        /\ \A q \in 1 .. Len(heap) : heap'[q] = heap[q]
    BY <2>3, <2>4 DEF TypeOK
  <2>6. DemotedRing = [ring EXCEPT ![DemotedSlot] = Len(heap) + 1]
    BY <1>8, <2>3 DEF DemotedRing
  <2>7. ring' = [[ring EXCEPT ![DemotedSlot] = Len(heap) + 1] EXCEPT ![head] = Len(heap')]
    BY <1>3, <2>6
  <2>8. /\ ring' \in [Slots -> 0 .. Len(heap')]
        /\ ring'[head] = Len(heap')
        /\ \A s \in Slots \ {head, DemotedSlot} : ring'[s] = ring[s]
        /\ DemotedSlot # head => ring'[DemotedSlot] = Len(heap) + 1
    <3> DEFINE mid == [ring EXCEPT ![DemotedSlot] = Len(heap) + 1]
    <3>1. Len(heap) \in Nat /\ Len(heap') \in Nat /\ Len(heap) + 1 \in 0 .. Len(heap')
      BY <2>4 DEF TypeOK
    <3>2. ring \in [Slots -> 0 .. Len(heap')]
      BY <3>1, <2>4 DEF TypeOK
    <3>3. /\ mid \in [Slots -> 0 .. Len(heap')]
          /\ mid[DemotedSlot] = Len(heap) + 1
          /\ \A s \in Slots \ {DemotedSlot} : mid[s] = ring[s]
      BY <1>4, <3>1, <3>2
    <3>4. ring' = [mid EXCEPT ![head] = Len(heap')]
      BY <2>7
    <3> HIDE DEF mid
    <3>5. QED BY <1>4, <3>1, <3>3, <3>4
  <2>9. QED BY <1>4, <1>5, <1>6, <1>8, <2>4, <2>5, <2>8 DEF TypeOK, copy
<1>9. QED BY <1>7, <1>8

LEMMA NextCountType ==
  ASSUME TypeOK
  PROVE  /\ NextCount \in 1 .. BufferSize
         /\ (head + 1) % BufferSize \in Slots
         /\ (head + 1) % BufferSize = IF head = BufferSize - 1 THEN 0 ELSE head + 1
<1>1. BufferSize \in Nat \ {0} /\ head \in 0 .. BufferSize - 1 /\ count \in 0 .. BufferSize
  BY BufferSizeAssumption DEF TypeOK, Slots
<1>2. NextCount \in 1 .. BufferSize
  BY <1>1 DEF NextCount
<1>3. (head + 1) % BufferSize = IF head = BufferSize - 1 THEN 0 ELSE head + 1
  <2>1. CASE head = BufferSize - 1
    BY <1>1, <2>1, head + 1 = BufferSize
  <2>2. CASE head # BufferSize - 1
    BY <1>1, <2>2, head + 1 \in 0 .. BufferSize - 1
  <2>3. QED BY <2>1, <2>2
<1>4. QED BY <1>1, <1>2, <1>3 DEF Slots

-----------------------------------------------------------------------------
(* The ring, addressed by age.                                             *)

(* How many polls ago the snapshot in slot s was published, if it was. *)
Age(s) == IF s < head THEN head - 1 - s ELSE head - 1 - s + BufferSize

LEMMA AgeOfSlot ==
  ASSUME TypeOK
  PROVE  /\ \A s \in Slots : Age(s) \in 0 .. BufferSize - 1
         /\ \A o \in 0 .. BufferSize - 1 : SlotFromEnd(o) \in Slots /\ Age(SlotFromEnd(o)) = o
         /\ Age(DemotedSlot) = 0
         /\ \A s \in Slots : Age(s) = 0 => s = DemotedSlot
<1>1. BufferSize \in Nat \ {0} /\ head \in 0 .. BufferSize - 1
  BY BufferSizeAssumption DEF TypeOK, Slots
<1>2. \A s \in Slots : Age(s) \in 0 .. BufferSize - 1
  BY <1>1 DEF Age, Slots
<1>3. ASSUME NEW o \in 0 .. BufferSize - 1
      PROVE  SlotFromEnd(o) \in Slots /\ Age(SlotFromEnd(o)) = o
  BY <1>1, SlotOfOffset DEF Age, Slots
<1>4. Age(DemotedSlot) = 0 /\ \A s \in Slots : Age(s) = 0 => s = DemotedSlot
  BY <1>1, NewestSlot DEF Age, Slots
<1>5. QED BY <1>2, <1>3, <1>4

(* GetAll and GetLatest read the slots of SnapshotFromEnd.                 *)
LEMMA ReadersBySlot ==
  ASSUME TypeOK
  PROVE  /\ GetAll = [i \in 1 .. count |-> ring[SlotFromEnd(count - i)]]
         /\ GetLatest = IF count = 0 THEN 0 ELSE ring[SlotFromEnd(0)]
         /\ \A o \in 0 .. count - 1 : SnapshotFromEnd(o) = ring[SlotFromEnd(o)]
<1>1. BufferSize \in Nat \ {0} /\ head \in 0 .. BufferSize - 1 /\ count \in 0 .. BufferSize
  BY BufferSizeAssumption DEF TypeOK, Slots
<1>2. ASSUME NEW i \in 1 .. count
      PROVE  (head - count + (i - 1) + BufferSize) % BufferSize = SlotFromEnd(count - i)
  <2> DEFINE o == count - i
             y == head - count + (i - 1) + BufferSize
  <2>1. o \in 0 .. BufferSize - 1 /\ y = head - 1 - o + BufferSize /\ y \in Int
    BY <1>1
  <2> HIDE DEF o, y
  <2>2. y % BufferSize = IF o < head THEN head - 1 - o ELSE head - 1 - o + BufferSize
    <3>1. CASE o < head
      <4>1. y \in BufferSize .. 2 * BufferSize - 1
        BY <1>1, <2>1, <3>1
      <4>2. y % BufferSize = y - BufferSize
        BY <1>1, <4>1
      <4>3. QED BY <1>1, <2>1, <3>1, <4>2
    <3>2. CASE ~(o < head)
      <4>1. y \in 0 .. BufferSize - 1
        BY <1>1, <2>1, <3>2
      <4>2. y % BufferSize = y
        BY <1>1, <4>1
      <4>3. QED BY <1>1, <2>1, <3>2, <4>2
    <3>3. QED BY <3>1, <3>2
  <2>3. y % BufferSize = SlotFromEnd(o)
    BY <2>1, <2>2, SlotOfOffset
  <2>4. QED BY <2>3 DEF o, y
<1>3. GetAll = [i \in 1 .. count |-> ring[SlotFromEnd(count - i)]]
  BY <1>2 DEF GetAll
<1>4. GetLatest = IF count = 0 THEN 0 ELSE ring[SlotFromEnd(0)]
  BY NewestSlot DEF GetLatest, DemotedSlot
<1>5. \A o \in 0 .. count - 1 : SnapshotFromEnd(o) = ring[SlotFromEnd(o)]
  BY <1>1 DEF SnapshotFromEnd
<1>6. QED BY <1>3, <1>4, <1>5

(* Slot s holds the snapshot of Age(s) polls ago, as its readers have to   *)
(* see it now: in full when it is the newest, samples otherwise.           *)
HoldsItsAge(s) ==
  IF Age(s) < count
    THEN /\ ring[s] # 0
         /\ heap[ring[s]].poll = Len(log) - Age(s)
         /\ heap[ring[s]].conns = PublishedAs(Len(log) - Age(s), Len(log))
         /\ heap[ring[s]].full <=> Age(s) = 0 /\ heap[ring[s]].conns # {}
    ELSE ring[s] = 0

RingInv ==
  /\ count = IF Len(log) < BufferSize THEN Len(log) ELSE BufferSize
  /\ \A s \in Slots : HoldsItsAge(s)

(* What the export x was given by the ring of poll x.at, and what it wrote *)
(* of it.                                                                  *)
ExportOK(x) ==
  /\ Len(x.out) <= Len(x.refs)
  /\ Len(x.refs) <= x.at
  /\ x.kind = "csv" => Len(x.refs) = 1
  /\ \A i \in 1 .. Len(x.refs) :
       /\ heap[x.refs[i]].conns = PublishedAs(x.at - Len(x.refs) + i, x.at)
       /\ x.kind = "csv" /\ ~heap[x.refs[i]].full => heap[x.refs[i]].conns = {}
  /\ \A i \in 1 .. Len(x.out) : x.out[i] = PublishedAs(x.at - Len(x.refs) + i, x.at)

ExportInv == \A e \in Exporters : ExportOK(export[e])

(* The inductive invariant: a pointer is only known to be one of the heap, *)
(* and not nil, from what the ring holds, so the types need the ring.      *)
IInv == TypeOK /\ RingInv /\ ExportInv

LEMMA InitInv == Init => IInv
<1> SUFFICES ASSUME Init PROVE IInv
  OBVIOUS
<1>1. TypeOK
  BY InitType
<1>2. Len(log) = 0 /\ count = 0 /\ \A s \in Slots : ring[s] = 0
  BY DEF Init
<1>3. RingInv
  BY <1>1, <1>2, AgeOfSlot, BufferSizeAssumption DEF RingInv, HoldsItsAge
<1>4. \A e \in Exporters : export[e].refs = <<>> /\ export[e].out = <<>>
                           /\ export[e].at = 0 /\ export[e].kind = "idle"
  BY DEF Init, Idle
<1>5. ExportInv
  BY <1>4 DEF ExportInv, ExportOK
<1>6. QED BY <1>1, <1>3, <1>5 DEF IInv

(* What PublishedAs(n, m) stands for outlives later polls. *)
LEMMA PublishedAsKept ==
  ASSUME Len(log') >= Len(log),
         \A n \in 1 .. Len(log) : log'[n] = log[n],
         NEW n \in 1 .. Len(log), NEW m \in 1 .. Len(log)
  PROVE  PublishedAs(n, m)' = PublishedAs(n, m)
  BY DEF PublishedAs

(* A publication moves every snapshot one further back, demotes the one    *)
(* that was newest and drops the oldest of a full ring.                    *)
LEMMA PublishKeepsRing ==
  ASSUME TypeOK, RingInv, Publish
  PROVE  RingInv'
<1> DEFINE m == Len(log)
<1>0. /\ BufferSize \in Nat \ {0} /\ head \in 0 .. BufferSize - 1 /\ count \in 0 .. BufferSize
      /\ m \in Nat
  BY BufferSizeAssumption DEF TypeOK, Slots
<1>1. head' = IF head = BufferSize - 1 THEN 0 ELSE head + 1
  BY NextCountType DEF Publish
<1>2. count' = IF count < BufferSize THEN count + 1 ELSE count
  BY DEF Publish, NextCount
<1>3. Len(log') = m + 1 /\ \A n \in 1 .. m : log'[n] = log[n]
  BY PublishEffect
<1>4. count' = IF Len(log') < BufferSize THEN Len(log') ELSE BufferSize
  BY <1>0, <1>2, <1>3 DEF RingInv
<1>5. \A s \in Slots : Age(s)' = IF s = head THEN 0 ELSE Age(s) + 1
  BY <1>0, <1>1 DEF Age, Slots
<1>6. ASSUME NEW s \in Slots
      PROVE  HoldsItsAge(s)'
  <2> DEFINE a == Age(s)
             b == Age(s)'
             snap == heap[ring[s]]
             next == heap'[ring'[s]]
  <2>1. a \in 0 .. BufferSize - 1 /\ HoldsItsAge(s)
    BY AgeOfSlot DEF RingInv
  <2>2. HoldsItsAge(s)' =
          IF b < count'
            THEN /\ ring'[s] # 0
                 /\ next.poll = Len(log') - b
                 /\ next.conns = IF Len(log') - b = Len(log')
                                   THEN log'[Len(log') - b] ELSE Samples(log'[Len(log') - b])
                 /\ next.full <=> b = 0 /\ next.conns # {}
            ELSE ring'[s] = 0
    BY DEF HoldsItsAge, PublishedAs
  <2>3. a < count =>
          /\ ring[s] # 0
          /\ snap.poll = m - a
          /\ snap.conns = IF m - a = m THEN log[m - a] ELSE Samples(log[m - a])
          /\ snap.full <=> a = 0 /\ snap.conns # {}
    BY <2>1 DEF HoldsItsAge, PublishedAs
  <2>4. b = IF s = head THEN 0 ELSE a + 1
    BY <1>5
  <2>5. ~(a < count) => ring[s] = 0
    BY <2>1 DEF HoldsItsAge
  <2>6. ring[s] # 0 => ring[s] \in 1 .. Len(heap) /\ snap \in Snapshot
    <3>1. ring[s] \in 0 .. Len(heap)
      BY DEF TypeOK
    <3>2. QED BY <3>1 DEF TypeOK
  <2>7. CASE s = head
    <3>1. b = 0 /\ 0 < count'
      BY <1>0, <1>2, <2>4, <2>7
    <3>2. /\ ring'[s] = Len(heap') /\ Len(heap') > Len(heap)
          /\ next = [poll  |-> m + 1, full |-> log'[m + 1] # {}, conns |-> log'[m + 1]]
      BY <2>7, PublishEffect
    <3>3. Len(heap) \in Nat /\ Len(heap') \in Nat
      BY PublishEffect DEF TypeOK
    <3>4. ring'[s] # 0 /\ Len(log') - b = m + 1
      BY <1>0, <1>3, <3>1, <3>2, <3>3
    <3>5. next.poll = m + 1 /\ next.conns = log'[m + 1] /\ (next.full <=> next.conns # {})
      <4> DEFINE l == log'[m + 1]
      <4>1. next = [poll |-> m + 1, full |-> l # {}, conns |-> l]
        BY <3>2
      <4> HIDE DEF next, l
      <4>2. next.poll = m + 1 /\ next.conns = l
        BY <4>1
      <4>3. CASE l = {}
        <5>1. next = [poll |-> m + 1, full |-> FALSE, conns |-> l]
          BY <4>1, <4>3
        <5>2. QED BY <4>2, <4>3, <5>1 DEF l
      <4>4. CASE l # {}
        <5>1. next = [poll |-> m + 1, full |-> TRUE, conns |-> l]
          BY <4>1, <4>4
        <5>2. QED BY <4>2, <4>4, <5>1 DEF l
      <4>5. QED BY <4>3, <4>4
    <3> HIDE DEF b, m, next
    <3>6. QED BY <1>3, <2>2, <3>1, <3>4, <3>5
  <2>8. CASE s # head /\ ~(a < count)
    <3>1. count < BufferSize /\ ~(b < count') /\ ring[s] = 0
      BY <1>0, <1>2, <2>1, <2>4, <2>5, <2>8
    <3>2. s # DemotedSlot \/ ring[DemotedSlot] = 0
      BY <3>1
    <3>3. ring'[s] = 0
      BY <2>8, <3>1, <3>2, PublishEffect
    <3>4. QED BY <2>2, <3>1, <3>3
  <2>9. CASE s # head /\ a < count
    <3>0. a # BufferSize - 1
      BY <1>0, <2>9 DEF Age, Slots
    <3>1. b = a + 1 /\ b # 0 /\ b < count'
      BY <1>0, <1>2, <2>1, <2>4, <2>9, <3>0
    <3>2. m - a \in 1 .. m /\ Len(log') - b = m - a /\ m - a # Len(log')
      BY <1>0, <1>3, <2>1, <2>9, <3>1 DEF RingInv
    <3>3. log'[m - a] = log[m - a]
      BY <1>3, <3>2
    <3>4. SUFFICES
            /\ ring'[s] # 0
            /\ next.poll = m - a
            /\ next.conns = Samples(log[m - a])
            /\ next.full = FALSE
      <4> HIDE DEF a, b, m, next
      <4>1. QED BY <2>2, <2>5, <3>1, <3>2, <3>3
    <3>5. ring[s] \in 1 .. Len(heap) /\ snap \in Snapshot
      BY <2>3, <2>6, <2>9
    <3>6. CASE a = 0
      <4>1. s = DemotedSlot /\ DemotedSlot # head /\ ring[DemotedSlot] # 0
        BY <2>3, <2>9, <3>6, AgeOfSlot
      <4>2. ring'[s] # 0 /\ next = Demote(snap)
        BY <4>1, PublishEffect
      <4>3. snap.conns = log[m - a] /\ snap.poll = m - a
        BY <1>0, <2>3, <2>9, <3>6
      <4>4. /\ Demote(snap).poll = m - a
            /\ Demote(snap).conns = Samples(log[m - a])
            /\ Demote(snap).full = FALSE
        <5> HIDE DEF snap, a, m
        <5>1. QED BY <3>5, <4>3, DemoteType
      <4>5. QED BY <4>2, <4>4
    <3>7. CASE a # 0
      <4>1. s # DemotedSlot
        BY <3>7, AgeOfSlot
      <4>2. ring'[s] = ring[s] /\ heap'[ring[s]] = snap
        BY <2>9, <3>5, <4>1, PublishEffect
      <4>3. /\ snap.conns = Samples(log[m - a])
            /\ snap.poll = m - a
            /\ snap.full = FALSE
        <5>1. m - a # m
          BY <1>0, <2>1, <3>7
        <5>2. snap.full \in BOOLEAN
          BY <3>5 DEF Snapshot
        <5> HIDE DEF snap, a, m
        <5>3. QED BY <2>3, <2>9, <3>7, <5>1, <5>2
      <4>4. QED BY <2>3, <2>9, <4>2, <4>3
    <3>8. QED BY <3>6, <3>7
  <2>10. QED BY <2>7, <2>8, <2>9
<1>7. QED BY <1>4, <1>6 DEF RingInv, Slots

(* What stepping back o snapshots shows. *)
LEMMA ReaderSees ==
  ASSUME TypeOK, RingInv, NEW o \in 0 .. count - 1
  PROVE  /\ SnapshotFromEnd(o) = ring[SlotFromEnd(o)]
         /\ ring[SlotFromEnd(o)] \in 1 .. Len(heap)
         /\ heap[ring[SlotFromEnd(o)]] \in Snapshot
         /\ heap[ring[SlotFromEnd(o)]].poll = Len(log) - o
         /\ heap[ring[SlotFromEnd(o)]].conns = PublishedAs(Len(log) - o, Len(log))
         /\ heap[ring[SlotFromEnd(o)]].full <=> o = 0 /\ heap[ring[SlotFromEnd(o)]].conns # {}
<1>1. count \in 0 .. BufferSize /\ BufferSize \in Nat
  BY BufferSizeAssumption DEF TypeOK
<1>2. o \in 0 .. BufferSize - 1 /\ o < count
  BY <1>1
<1> DEFINE s == SlotFromEnd(o)
<1>3. s \in Slots /\ Age(s) = o
  BY <1>2, AgeOfSlot
<1>4. HoldsItsAge(s)
  BY <1>3 DEF RingInv
<1>5. SnapshotFromEnd(o) = ring[s]
  BY ReadersBySlot
<1> HIDE DEF s
<1>6. /\ ring[s] # 0
      /\ heap[ring[s]].poll = Len(log) - o
      /\ heap[ring[s]].conns = PublishedAs(Len(log) - o, Len(log))
      /\ heap[ring[s]].full <=> o = 0 /\ heap[ring[s]].conns # {}
  BY <1>2, <1>3, <1>4 DEF HoldsItsAge
<1>7. ring[s] \in 1 .. Len(heap)
  <2>1. ring[s] \in 0 .. Len(heap) /\ Len(heap) \in Nat
    BY <1>3 DEF TypeOK
  <2>2. QED BY <1>6, <2>1
<1>8. heap[ring[s]] \in Snapshot
  BY <1>7 DEF TypeOK
<1>9. QED BY <1>5, <1>6, <1>7, <1>8 DEF s

(* The pointers of an export of the whole buffer, and what they point to.  *)
LEMMA GetAllSees ==
  ASSUME TypeOK, RingInv
  PROVE  /\ GetAll \in Seq(1 .. Len(heap))
         /\ Len(GetAll) = count
         /\ count <= Len(log)
         /\ \A i \in 1 .. count :
              heap[GetAll[i]].conns = PublishedAs(Len(log) - count + i, Len(log))
<1>1. count \in Nat /\ Len(log) \in Nat /\ count <= Len(log)
  BY BufferSizeAssumption DEF TypeOK, RingInv
<1>2. GetAll = [i \in 1 .. count |-> ring[SlotFromEnd(count - i)]]
  BY ReadersBySlot
<1>3. ASSUME NEW i \in 1 .. count
      PROVE  /\ ring[SlotFromEnd(count - i)] \in 1 .. Len(heap)
             /\ heap[ring[SlotFromEnd(count - i)]].conns =
                  PublishedAs(Len(log) - count + i, Len(log))
  <2>1. count - i \in 0 .. count - 1 /\ Len(log) - (count - i) = Len(log) - count + i
    BY <1>1
  <2>2. QED BY <2>1, ReaderSees
<1>4. GetAll \in [1 .. count -> 1 .. Len(heap)]
  BY <1>2, <1>3
<1>5. GetAll \in Seq(1 .. Len(heap)) /\ Len(GetAll) = count
  BY <1>1, <1>4
<1>6. QED BY <1>1, <1>2, <1>3, <1>5

(* The pointer of an export of the latest snapshot. *)
LEMMA GetLatestSees ==
  ASSUME TypeOK, RingInv, GetLatest # 0
  PROVE  /\ GetLatest \in 1 .. Len(heap)
         /\ 1 <= Len(log)
         /\ heap[GetLatest].conns = PublishedAs(Len(log), Len(log))
         /\ ~heap[GetLatest].full => heap[GetLatest].conns = {}
<1>1. count \in Nat /\ Len(log) \in Nat /\ count <= Len(log)
  BY BufferSizeAssumption DEF TypeOK, RingInv
<1>2. count # 0 /\ GetLatest = ring[SlotFromEnd(0)]
  BY ReadersBySlot
<1>3. 0 \in 0 .. count - 1 /\ Len(log) - 0 = Len(log)
  BY <1>1, <1>2
<1>4. QED BY <1>1, <1>2, <1>3, ReaderSees

-----------------------------------------------------------------------------
(* The steps.                                                              *)

(* A step that only moves one export on keeps the types. *)
LEMMA ExportStepType ==
  ASSUME TypeOK, UNCHANGED <<heap, ring, head, count, prevMap, staged, kernel, log>>,
         NEW e \in Exporters, NEW x \in Export, export' = [export EXCEPT ![e] = x]
  PROVE  TypeOK'
<1>1. export' \in [Exporters -> Export]
  BY DEF TypeOK
<1>2. Export' = Export
  BY DEF Export
<1>3. QED BY <1>1, <1>2 DEF TypeOK

(* The same for what an export has read. *)
LEMMA ExportStepKeeps ==
  ASSUME TypeOK, ExportInv, UNCHANGED <<heap, log>>,
         NEW e \in Exporters, NEW x, export' = [export EXCEPT ![e] = x], ExportOK(x)
  PROVE  ExportInv'
<1>1. \A y : ExportOK(y) => ExportOK(y)'
  BY DEF ExportOK, PublishedAs
<1>2. ASSUME NEW f \in Exporters
      PROVE  export'[f] = x \/ export'[f] = export[f]
  BY DEF TypeOK
<1>3. QED BY <1>1, <1>2 DEF ExportInv

LEMMA IdleOK ==
  ASSUME TypeOK
  PROVE  Idle \in Export /\ ExportOK(Idle)
<1>1. Len(heap) \in Nat /\ Len(log) \in Nat
  BY DEF TypeOK
<1>2. <<>> \in Seq(1 .. Len(heap)) /\ 0 \in 0 .. Len(log) /\ <<>> \in Seq(SUBSET Conn)
  BY <1>1
<1>3. Idle \in Export
  BY <1>2 DEF Idle, Export
<1>4. Idle.refs = <<>> /\ Idle.out = <<>> /\ Idle.at = 0 /\ Idle.kind = "idle"
  BY DEF Idle
<1>5. ExportOK(Idle)
  BY <1>4 DEF ExportOK
<1>6. QED BY <1>3, <1>5

LEMMA StartJSONKeeps ==
  ASSUME TypeOK, RingInv, ExportInv, NEW e \in Exporters, StartJSON(e)
  PROVE  TypeOK' /\ ExportInv'
<1> DEFINE x == [kind |-> "json", at |-> Len(log), refs |-> GetAll, out |-> <<>>]
<1>1. export' = [export EXCEPT ![e] = x]
  BY DEF StartJSON
<1>2. Len(log) \in 0 .. Len(log) /\ <<>> \in Seq(SUBSET Conn) /\ Len(<<>>) = 0
  BY DEF TypeOK
<1>3. x \in Export
  BY <1>2, GetAllSees DEF Export
<1>4. x.kind = "json" /\ x.at = Len(log) /\ x.refs = GetAll /\ x.out = <<>>
  OBVIOUS
<1> HIDE DEF x
<1>5. ExportOK(x)
  <2>0. count \in Nat
    BY DEF TypeOK
  <2>1. count \in Nat /\ Len(x.out) = 0 /\ Len(x.refs) = count
    BY <1>2, <1>4, <2>0, GetAllSees
  <2>2. \A i \in 1 .. Len(x.refs) :
          heap[x.refs[i]].conns = PublishedAs(x.at - Len(x.refs) + i, x.at)
    BY <1>4, <2>1, GetAllSees
  <2>3. x.kind # "csv" /\ Len(x.out) <= Len(x.refs) /\ Len(x.refs) <= x.at
    BY <1>4, <2>1, GetAllSees
  <2>4. 1 .. Len(x.out) = {}
    BY <2>1
  <2> HIDE DEF x
  <2>5. QED BY <2>2, <2>3, <2>4 DEF ExportOK
<1>6. QED BY <1>1, <1>3, <1>5, ExportStepType, ExportStepKeeps DEF StartJSON

LEMMA StartCSVKeeps ==
  ASSUME TypeOK, RingInv, ExportInv, NEW e \in Exporters, StartCSV(e)
  PROVE  TypeOK' /\ ExportInv'
<1> DEFINE x == [kind |-> "csv", at |-> Len(log), refs |-> <<GetLatest>>, out |-> <<>>]
<1>1. export' = [export EXCEPT ![e] = x] /\ GetLatest # 0
  BY DEF StartCSV
<1>2. Len(log) \in 0 .. Len(log) /\ <<>> \in Seq(SUBSET Conn) /\ Len(<<>>) = 0
      /\ Len(log) \in Nat
  BY DEF TypeOK
<1>3. /\ <<GetLatest>> \in Seq(1 .. Len(heap)) /\ Len(<<GetLatest>>) = 1
      /\ <<GetLatest>>[1] = GetLatest
  BY <1>1, GetLatestSees
<1>4. x \in Export
  BY <1>2, <1>3 DEF Export
<1>5. x.kind = "csv" /\ x.at = Len(log) /\ x.refs = <<GetLatest>> /\ x.out = <<>>
  OBVIOUS
<1> HIDE DEF x
<1>6. Len(log) - 1 + 1 = Len(log)
  BY <1>2
<1>7. \A i \in 1 .. 1 : i = 1
  OBVIOUS
<1>8. ExportOK(x)
  BY <1>1, <1>2, <1>3, <1>5, <1>6, <1>7, GetLatestSees DEF ExportOK
<1>9. QED BY <1>1, <1>4, <1>8, ExportStepType, ExportStepKeeps DEF StartCSV

LEMMA FinishExportKeeps ==
  ASSUME TypeOK, ExportInv, NEW e \in Exporters, FinishExport(e)
  PROVE  TypeOK' /\ ExportInv'
  BY IdleOK, ExportStepType, ExportStepKeeps DEF FinishExport

(* What is written of a snapshot is what was published, because nobody     *)
(* rewrites the snapshot an export points to.                              *)
LEMMA EncodeNextKeeps ==
  ASSUME TypeOK, ExportInv, NEW e \in Exporters, EncodeNext(e)
  PROVE  TypeOK' /\ ExportInv'
<1> DEFINE x    == export[e]
           i    == Len(x.out) + 1
           snap == heap[x.refs[i]]
           w    == Written(x.kind, snap)
           out  == Append(x.out, w)
           y    == [x EXCEPT !.out = out]
<1>1. x \in Export /\ ExportOK(x)
  BY DEF TypeOK, ExportInv
<1>2. x.kind # "idle" /\ Len(x.out) < Len(x.refs)
  BY DEF EncodeNext
<1>3. \/ export' = [export EXCEPT ![e] = y]
      \/ export' = [export EXCEPT ![e] = Idle]
  <2>1. \/ export' = [export EXCEPT ![e].out = Append(@, w)]
        \/ export' = [export EXCEPT ![e] = Idle]
    BY DEF EncodeNext
  <2> HIDE DEF w
  <2>2. [export EXCEPT ![e].out = Append(@, w)] = [export EXCEPT ![e].out = out]
    BY DEF TypeOK
  <2> HIDE DEF out
  <2>3. [export EXCEPT ![e].out = out] = [export EXCEPT ![e] = y]
    BY DEF TypeOK
  <2>4. QED BY <2>1, <2>2, <2>3
<1>4. x.kind \in {"json", "csv"} /\ x.refs \in Seq(1 .. Len(heap)) /\ x.out \in Seq(SUBSET Conn)
      /\ x.at \in Nat
  BY <1>1, <1>2 DEF Export, TypeOK
<1>5. i \in 1 .. Len(x.refs) /\ x.refs[i] \in 1 .. Len(heap) /\ snap \in Snapshot
  <2>1. i \in 1 .. Len(x.refs)
    <3> HIDE DEF x
    <3>1. QED BY <1>2, <1>4
  <2>2. x.refs[i] \in 1 .. Len(heap)
    <3> HIDE DEF x, i
    <3>1. QED BY <1>4, <2>1
  <2>3. snap \in Snapshot
    <3> HIDE DEF x, i
    <3>1. QED BY <2>2 DEF TypeOK
  <2>4. QED BY <2>1, <2>2, <2>3
<1>6. w = PublishedAs(x.at - Len(x.refs) + i, x.at) /\ w \in SUBSET Conn
  <2>1. snap.conns = PublishedAs(x.at - Len(x.refs) + i, x.at)
        /\ (x.kind = "csv" /\ ~snap.full => snap.conns = {})
    BY <1>1, <1>5 DEF ExportOK
  <2>2. w = snap.conns
    BY <1>4, <2>1 DEF Written
  <2>3. QED BY <1>5, <2>1, <2>2 DEF Snapshot
<1> HIDE DEF w
<1>7. /\ y.kind = x.kind /\ y.at = x.at /\ y.refs = x.refs /\ y.out = Append(x.out, w)
      /\ y \in Export
  <2>1. out \in Seq(SUBSET Conn)
    BY <1>4, <1>6
  <2>2. out = Append(x.out, w)
    OBVIOUS
  <2> HIDE DEF out, x
  <2>3. QED BY <1>1, <2>1, <2>2 DEF Export
<1>8. /\ Len(y.out) = i
      /\ y.out[i] = w
      /\ \A j \in 1 .. Len(x.out) : y.out[j] = x.out[j]
  BY <1>4, <1>6, <1>7
<1> HIDE DEF y, snap
<1>9. ExportOK(y)
  <2>1. Len(y.out) <= Len(y.refs)
    BY <1>4, <1>5, <1>7, <1>8
  <2>2. ASSUME NEW j \in 1 .. Len(y.out)
        PROVE  y.out[j] = PublishedAs(y.at - Len(y.refs) + j, y.at)
    <3>1. CASE j = i
      BY <1>6, <1>7, <1>8, <3>1
    <3>2. CASE j # i
      <4>1. j \in 1 .. Len(x.out)
        BY <1>4, <1>8, <3>2
      <4>2. QED BY <1>1, <1>7, <1>8, <4>1 DEF ExportOK
    <3>3. QED BY <3>1, <3>2
  <2>3. QED BY <1>1, <1>7, <2>1, <2>2 DEF ExportOK
<1>10. UNCHANGED <<heap, ring, head, count, prevMap, staged, kernel, log>>
  BY DEF EncodeNext
<1>11. QED BY <1>3, <1>7, <1>9, <1>10, IdleOK, ExportStepType, ExportStepKeeps

LEMMA ReadPrevsKeeps ==
  ASSUME IInv,
         NEW open \in SUBSET Sockets, NEW silent \in SUBSET Sockets,
         NEW counters \in [Sockets -> 0 .. MaxBytes],
         ReadPrevs(open, silent, counters)
  PROVE  IInv'
<1> DEFINE conns == {[sock  |-> s,
                      bytes |-> IF s \in silent THEN None ELSE counters[s],
                      delta |-> None] : s \in open}
           keys  == {ConnKey(s) : s \in open} \cap DOMAIN prevMap
           prevs == [k \in keys |-> prevMap[k]]
<1>0. TypeOK
  BY DEF IInv
<1>1. UNCHANGED <<heap, ring, head, count, prevMap, export, log>> /\ kernel' = counters
      /\ staged' = [conns |-> conns, prevs |-> prevs]
  BY DEF ReadPrevs
<1>2. conns \in SUBSET Conn
  BY DEF Conn
<1>3. \E K \in SUBSET Keys : prevs \in [K -> Conn]
  <2>1. keys \in SUBSET Keys
    BY DEF Keys
  <2>2. \A k \in keys : prevMap[k] \in Conn
    BY <1>0 DEF TypeOK
  <2>3. QED BY <2>1, <2>2
<1> HIDE DEF conns, prevs
<1>4. staged'.conns = conns /\ staged'.prevs = prevs
  BY <1>1
<1>5. Export' = Export
  BY <1>1 DEF Export
<1>6. TypeOK'
  BY <1>0, <1>1, <1>2, <1>3, <1>4, <1>5 DEF TypeOK
<1>7. RingInv'
  BY <1>1 DEF IInv, RingInv, HoldsItsAge, Age, PublishedAs
<1>8. ExportInv'
  BY <1>1 DEF IInv, ExportInv, ExportOK, PublishedAs
<1>9. QED BY <1>6, <1>7, <1>8 DEF IInv

LEMMA PublishKeepsType ==
  ASSUME TypeOK, Publish
  PROVE  TypeOK'
<1> DEFINE conns == WithDeltas(staged.conns, staged.prevs)
<1>1. conns \in SUBSET Conn
  BY WithDeltasType DEF TypeOK, Publish
<1>2. prevMap' \in ByKey(conns)
  BY DEF Publish
<1> HIDE DEF conns
<1>3. \E K \in SUBSET Keys : prevMap' \in [K -> Conn]
  BY <1>1, <1>2, ByKeyType
<1>4. heap' \in Seq(Snapshot) /\ log' \in Seq(SUBSET Conn) /\ ring' \in [Slots -> 0 .. Len(heap')]
  BY PublishEffect
<1>5. head' \in Slots /\ count' \in 0 .. BufferSize
  BY NextCountType, BufferSizeAssumption DEF Publish
<1>6. export' \in [Exporters -> Export']
  <2>0. Len(heap) \in Nat /\ Len(log) \in Nat
    BY DEF TypeOK
  <2>1. Len(heap) \in Nat /\ Len(heap') \in Nat /\ Len(heap') > Len(heap)
        /\ Len(log) \in Nat /\ Len(log') = Len(log) + 1
    BY <1>4, <2>0, PublishEffect
  <2>2. 1 .. Len(heap) \subseteq 1 .. Len(heap') /\ 0 .. Len(log) \subseteq 0 .. Len(log')
    BY <2>1
  <2>3. \A q \in Seq(1 .. Len(heap)) : q \in Seq(1 .. Len(heap'))
    <3>1. ASSUME NEW q \in Seq(1 .. Len(heap))
          PROVE  q \in Seq(1 .. Len(heap'))
      <4>1. Len(q) \in Nat /\ q \in [1 .. Len(q) -> 1 .. Len(heap)]
        OBVIOUS
      <4>2. q \in [1 .. Len(q) -> 1 .. Len(heap')]
        BY <2>2, <4>1
      <4>3. QED BY <4>1, <4>2
    <3>2. QED BY <3>1
  <2>4. Export \subseteq Export'
    BY <2>2, <2>3 DEF Export
  <2>5. QED BY <2>4 DEF TypeOK, Publish
<1>7. staged' = None /\ kernel' = kernel
  BY DEF Publish
<1>8. QED BY <1>3, <1>4, <1>5, <1>6, <1>7 DEF TypeOK

(* The snapshots an export points to are the ones it took: a publication   *)
(* only adds to the heap.                                                  *)
LEMMA PublishKeepsExports ==
  ASSUME TypeOK, ExportInv, Publish
  PROVE  ExportInv'
<1>0. Len(log) \in Nat
  BY DEF TypeOK
<1>1. /\ \A p \in 1 .. Len(heap) : heap'[p] = heap[p]
      /\ \A n \in 1 .. Len(log) : log'[n] = log[n]
      /\ Len(log') >= Len(log)
  BY <1>0, PublishEffect
<1>2. export' = export
  BY DEF Publish
<1>3. ASSUME NEW x \in Export, ExportOK(x)
      PROVE  ExportOK(x)'
  <2>1. /\ x.at \in 0 .. Len(log) /\ x.refs \in Seq(1 .. Len(heap)) /\ x.out \in Seq(SUBSET Conn)
        /\ Len(x.refs) \in Nat /\ Len(x.out) \in Nat
    BY DEF Export
  <2>2. /\ Len(x.out) <= Len(x.refs)
        /\ Len(x.refs) <= x.at
        /\ x.kind = "csv" => Len(x.refs) = 1
    BY <1>3 DEF ExportOK
  <2>3. ASSUME NEW i \in 1 .. Len(x.refs)
        PROVE  PublishedAs(x.at - Len(x.refs) + i, x.at)' = PublishedAs(x.at - Len(x.refs) + i, x.at)
    <3>1. x.at - Len(x.refs) + i \in 1 .. Len(log)
      BY <1>0, <2>1, <2>2
    <3> DEFINE n == x.at - Len(x.refs) + i
    <3>2. log'[n] = log[n]
      BY <1>1, <3>1
    <3>3. QED BY <3>2 DEF PublishedAs
  <2>4. ASSUME NEW i \in 1 .. Len(x.refs)
        PROVE  heap'[x.refs[i]] = heap[x.refs[i]]
    <3>1. x.refs[i] \in 1 .. Len(heap)
      BY <2>1
    <3>2. QED BY <1>1, <3>1
  <2>5. ASSUME NEW i \in 1 .. Len(x.out)
        PROVE  i \in 1 .. Len(x.refs)
    BY <2>1, <2>2
  <2>6. ASSUME NEW i \in 1 .. Len(x.refs)
        PROVE  /\ heap'[x.refs[i]].conns = PublishedAs(x.at - Len(x.refs) + i, x.at)'
               /\ x.kind = "csv" /\ ~heap'[x.refs[i]].full => heap'[x.refs[i]].conns = {}
    BY <1>3, <2>3, <2>4 DEF ExportOK
  <2>7. ASSUME NEW i \in 1 .. Len(x.out)
        PROVE  x.out[i] = PublishedAs(x.at - Len(x.refs) + i, x.at)'
    BY <1>3, <2>3, <2>5 DEF ExportOK
  <2>8. QED BY <2>2, <2>6, <2>7 DEF ExportOK
<1>4. \A e \in Exporters : export[e] \in Export /\ ExportOK(export[e])
  BY DEF TypeOK, ExportInv
<1>5. QED BY <1>2, <1>3, <1>4 DEF ExportInv

(* Every step of the specification keeps the inductive invariant. *)
LEMMA StepInv == IInv /\ [Next]_vars => IInv'
<1> SUFFICES ASSUME IInv, [Next]_vars PROVE IInv'
  OBVIOUS
<1>0. TypeOK /\ RingInv /\ ExportInv
  BY DEF IInv
<1>1. ASSUME NEW open \in SUBSET Sockets, NEW silent \in SUBSET Sockets,
             NEW counters \in [Sockets -> 0 .. MaxBytes], ReadPrevs(open, silent, counters)
      PROVE  IInv'
  BY <1>1, ReadPrevsKeeps
<1>2. CASE Publish
  BY <1>0, <1>2, PublishKeepsType, PublishKeepsRing, PublishKeepsExports DEF IInv
<1>3. ASSUME NEW e \in Exporters,
             StartJSON(e) \/ StartCSV(e) \/ EncodeNext(e) \/ FinishExport(e)
      PROVE  IInv'
  <2>1. TypeOK' /\ ExportInv'
    BY <1>0, <1>3, StartJSONKeeps, StartCSVKeeps, EncodeNextKeeps, FinishExportKeeps
  <2>2. UNCHANGED <<heap, ring, head, count, log>>
    BY <1>3 DEF StartJSON, StartCSV, EncodeNext, FinishExport
  <2>3. RingInv'
    BY <1>0, <2>2 DEF RingInv, HoldsItsAge, Age, PublishedAs
  <2>4. QED BY <2>1, <2>3 DEF IInv
<1>4. CASE UNCHANGED vars
  BY <1>0, <1>4 DEF vars, IInv, TypeOK, RingInv, ExportInv, HoldsItsAge, Age, PublishedAs,
                    ExportOK, Export
<1>5. QED BY <1>1, <1>2, <1>3, <1>4 DEF Next

LEMMA Invariance == Spec => []IInv
<1>1. QED BY InitInv, StepInv, PTL DEF Spec

(* The types hold for every ring size and any number of exports: the head  *)
(* stays a slot, the count within the capacity, and no slot and no export  *)
(* ever holds a pointer that is not on the heap.                           *)
THEOREM TypeSafety == Spec => []TypeOK
<1>1. IInv => TypeOK
  BY DEF IInv
<1>2. QED BY <1>1, Invariance, PTL

(* Stepping back o snapshots shows what was published o polls ago, for     *)
(* every ring size and however often the head has gone round, and only the *)
(* newest keeps full detail (AddSnapshotAt, SnapshotFromEnd).              *)
THEOREM AgeSafety == Spec => []OffsetIsAge
<1>1. ASSUME IInv
      PROVE  OffsetIsAge
  <2>1. TypeOK /\ RingInv
    BY <1>1 DEF IInv
  <2>2. ASSUME NEW o \in 0 .. count - 1
        PROVE  /\ SnapshotFromEnd(o) # 0
               /\ heap[SnapshotFromEnd(o)].poll = Len(log) - o
               /\ heap[SnapshotFromEnd(o)].conns = PublishedAs(Len(log) - o, Len(log))
               /\ heap[SnapshotFromEnd(o)].full => o = 0
    BY <2>1, ReaderSees
  <2>3. QED BY <2>1, <2>2 DEF OffsetIsAge, RingInv
<1>2. QED BY <1>1, Invariance, PTL

(* GetAll, GetLatest and SnapshotFromEnd address the ring alike, for every *)
(* ring size: what an export or a report lists is what the keys [ and ]    *)
(* step through.                                                           *)
THEOREM ReaderAgreement == Spec => []ReadersAgree
<1>1. ASSUME IInv
      PROVE  ReadersAgree
  <2>0. TypeOK
    BY <1>1 DEF IInv
  <2>1. count \in Nat
    BY <2>0 DEF TypeOK
  <2>2. ASSUME NEW i \in 1 .. count
        PROVE  GetAll[i] = SnapshotFromEnd(count - i)
    <3>1. count - i \in 0 .. count - 1
      BY <2>1
    <3>2. QED BY <2>0, <2>1, <3>1, ReadersBySlot
  <2>3. GetLatest = SnapshotFromEnd(0)
    <3>1. CASE count = 0
      BY <2>0, <2>1, <3>1, ReadersBySlot DEF SnapshotFromEnd
    <3>2. CASE count # 0
      <4>1. 0 \in 0 .. count - 1
        BY <2>1, <3>2
      <4>2. QED BY <2>0, <2>1, <3>2, <4>1, ReadersBySlot
    <3>3. QED BY <3>1, <3>2
  <2>4. QED BY <2>2, <2>3 DEF ReadersAgree
<1>2. QED BY <1>1, Invariance, PTL

(* An export writes the buffer as it was when it took its pointers,        *)
(* however many polls are published before it has encoded them             *)
(* (ExportJSON, ExportCSV and demote's copy).                              *)
THEOREM ExportSafety == Spec => []ExportIsOneInstant
<1>1. ASSUME IInv
      PROVE  ExportIsOneInstant
  <2>1. ASSUME NEW e \in Exporters
        PROVE  /\ DOMAIN export[e].out = 1 .. Len(export[e].out)
               /\ ExportOK(export[e])
    BY <1>1 DEF IInv, TypeOK, ExportInv, Export
  <2>2. QED BY <2>1 DEF ExportIsOneInstant, ExportOK
<1>2. QED BY <1>1, Invariance, PTL

-----------------------------------------------------------------------------
(* The ring implements the bounded history.                                *)

(* The kept snapshots, by the slot that holds them. *)
LEMMA KeptBySlot ==
  ASSUME TypeOK, RingInv
  PROVE  /\ Kept \in Seq(Snapshot)
         /\ Len(Kept) = count
         /\ \A i \in 1 .. count : Kept[i] = heap[ring[SlotFromEnd(count - i)]]
<1>1. count \in Nat
  BY DEF TypeOK
<1>2. \A i \in 1 .. count : GetAll[i] = ring[SlotFromEnd(count - i)]
  BY ReadersBySlot
<1>3. ASSUME NEW i \in 1 .. count
      PROVE  heap[GetAll[i]] \in Snapshot
  <2>1. count - i \in 0 .. count - 1
    BY <1>1
  <2>2. QED BY <1>2, <2>1, ReaderSees
<1>4. Kept \in [1 .. count -> Snapshot]
  BY <1>3 DEF Kept
<1>5. Kept \in Seq(Snapshot) /\ Len(Kept) = count
  BY <1>1, <1>4
<1>6. QED BY <1>2, <1>5 DEF Kept

(* The slot of an age after a publication held the age before it. *)
LEMMA SlotMoves ==
  ASSUME TypeOK, Publish, NEW o \in 0 .. BufferSize - 2
  PROVE  /\ SlotAt(head', o + 1) = SlotFromEnd(o)
         /\ SlotFromEnd(o) # head
<1>1. BufferSize \in Nat \ {0} /\ head \in 0 .. BufferSize - 1
  BY BufferSizeAssumption DEF TypeOK, Slots
<1>2. head' = IF head = BufferSize - 1 THEN 0 ELSE head + 1
  BY NextCountType DEF Publish
<1>3. o \in 0 .. BufferSize - 1 /\ o + 1 \in 0 .. BufferSize - 1
  BY <1>1
<1>4. SlotFromEnd(o) = IF o < head THEN head - 1 - o ELSE head - 1 - o + BufferSize
  BY <1>3, SlotOfOffset
<1>5. head' \in Slots
  BY <1>1, <1>2 DEF Slots
<1>6. SlotAt(head', o + 1) =
        IF o + 1 < head' THEN head' - 1 - (o + 1) ELSE head' - 1 - (o + 1) + BufferSize
  BY <1>3, <1>5, SlotArithmetic
<1>7. QED BY <1>1, <1>2, <1>3, <1>4, <1>6

(* The same facts as a predicate, to be used in the next state too. *)
KeptHolds ==
  /\ count \in Nat
  /\ Kept \in Seq(Snapshot)
  /\ Len(Kept) = count
  /\ \A i \in 1 .. count : Kept[i] = heap[ring[SlotAt(head, count - i)]]

LEMMA KeptFacts == IInv => KeptHolds
<1> SUFFICES ASSUME IInv PROVE KeptHolds
  OBVIOUS
<1>1. TypeOK /\ RingInv
  BY DEF IInv
<1>2. count \in Nat
  BY <1>1 DEF TypeOK
<1>3. \A i \in 1 .. count : SlotFromEnd(count - i) = SlotAt(head, count - i)
  BY DEF SlotFromEnd, SlotAt
<1>4. QED BY <1>1, <1>2, <1>3, KeptBySlot DEF KeptHolds

(* A publication is a step of the history: what was kept moves one back,   *)
(* the newest of it slimmed down, and the oldest of a full ring is gone.   *)
LEMMA PublishRefines ==
  ASSUME IInv, IInv', Publish
  PROVE  Kept' # <<>> /\ Kept' = Abstract!Published(Kept, Kept'[Len(Kept')])
<1>0. TypeOK /\ RingInv
  BY DEF IInv
<1>a. KeptHolds /\ KeptHolds'
  BY KeptFacts, PTL
<1>1. /\ count \in Nat /\ Kept \in Seq(Snapshot) /\ Len(Kept) = count
      /\ \A i \in 1 .. count : Kept[i] = heap[ring[SlotAt(head, count - i)]]
  BY <1>a DEF KeptHolds
<1>2. /\ count' \in Nat /\ Kept' \in Seq(Snapshot) /\ Len(Kept') = count'
      /\ \A i \in 1 .. count' : Kept'[i] = heap'[ring'[SlotAt(head', count' - i)]]
  BY <1>a DEF KeptHolds
<1>3. count' = IF count < BufferSize THEN count + 1 ELSE count
  BY DEF Publish, NextCount
<1>4. BufferSize \in Nat \ {0} /\ count <= BufferSize
  BY <1>0, BufferSizeAssumption DEF TypeOK
<1> DEFINE slim == [i \in 1 .. count |-> IF i = count THEN Demote(Kept[i]) ELSE Kept[i]]
           new  == Kept'[count']
           drop == count' - count - 1
<1>5. ASSUME NEW i \in 1 .. count' - 1
      PROVE  i - drop \in 1 .. count /\ Kept'[i] = slim[i - drop]
  <2> DEFINE j == i - drop
             s == SlotFromEnd(count - j)
  <2>1. j \in 1 .. count /\ count - j \in 0 .. BufferSize - 2 /\ count - j \in 0 .. count - 1
        /\ count' - i = count - j + 1 /\ i \in 1 .. count'
    BY <1>1, <1>3, <1>4
  <2>2. SlotAt(head', count' - i) = s /\ s # head
    BY <1>0, <2>1, SlotMoves
  <2>3. Kept'[i] = heap'[ring'[s]] /\ Kept[j] = heap[ring[s]]
    <3>1. s = SlotAt(head, count - j)
      BY DEF SlotFromEnd, SlotAt
    <3> HIDE DEF s, j
    <3>2. QED BY <1>1, <1>2, <2>1, <2>2, <3>1
  <2>4. s \in Slots /\ Age(s) = count - j /\ ring[s] \in 1 .. Len(heap)
    BY <1>0, <1>4, <2>1, AgeOfSlot, ReaderSees
  <2> HIDE DEF s
  <2>5. CASE j = count
    <3>1. s = DemotedSlot
      BY <1>0, <1>1, <2>1, <2>4, <2>5, AgeOfSlot
    <3>2. heap'[ring'[s]] = Demote(heap[ring[s]])
      BY <1>0, <2>2, <2>4, <3>1, PublishEffect
    <3>3. QED BY <2>1, <2>3, <2>5, <3>2
  <2>6. CASE j # count
    <3>1. s # DemotedSlot
      BY <1>0, <1>1, <2>1, <2>4, <2>6, AgeOfSlot
    <3>2. ring'[s] = ring[s] /\ heap'[ring[s]] = heap[ring[s]]
      BY <1>0, <2>2, <2>4, <3>1, PublishEffect
    <3>3. QED BY <2>1, <2>3, <2>6, <3>2
  <2>7. QED BY <2>1, <2>5, <2>6
<1>6. slim \in Seq(Snapshot) /\ Len(slim) = count
  <2>1. ASSUME NEW i \in 1 .. count
        PROVE  Kept[i] \in Snapshot /\ Demote(Kept[i]) \in Snapshot
    <3>1. Kept[i] \in Snapshot
      BY <1>1
    <3>2. QED BY <3>1, DemoteType
  <2>2. slim \in [1 .. count -> Snapshot]
    BY <2>1
  <2>3. QED BY <1>1, <2>2
<1>7. count' \in 1 .. count' /\ new \in Snapshot
  BY <1>2, <1>3, <1>4, <1>1
<1>8. Abstract!Published(Kept, new) = Abstract!Newest(Append(slim, new))
  <2>1. DOMAIN Kept = 1 .. count
    BY <1>1
  <2>2. QED BY <1>1, <2>1 DEF Abstract!Published
<1> HIDE DEF slim, new
<1>9. Kept' = Abstract!Newest(Append(slim, new))
  <2> DEFINE all == Append(slim, new)
  <2>1. all \in Seq(Snapshot) /\ Len(all) = count + 1 /\ all[count + 1] = new
        /\ \A i \in 1 .. count : all[i] = slim[i]
    BY <1>1, <1>6, <1>7
  <2> HIDE DEF all
  <2>2. CASE count < BufferSize
    <3>1. Abstract!Newest(all) = all
      BY <1>1, <1>4, <2>1, <2>2 DEF Abstract!Newest
    <3>2. Len(Kept') = Len(all) /\ drop = 0
      BY <1>1, <1>2, <1>3, <2>1, <2>2
    <3>3. ASSUME NEW i \in 1 .. count + 1
          PROVE  Kept'[i] = all[i]
      BY <1>1, <1>3, <1>5, <2>1, <2>2, <3>2, <3>3 DEF new
    <3> DEFINE k == Kept'
    <3> HIDE DEF k
    <3>4. \A i \in 1 .. Len(k) : k[i] = all[i]
      BY <2>1, <3>2, <3>3 DEF k
    <3>5. k \in Seq(Snapshot) /\ Len(k) = Len(all)
      BY <1>2, <3>2 DEF k
    <3>6. k = all
      BY <2>1, <3>4, <3>5, SeqEqual
    <3>7. QED BY <3>1, <3>6 DEF k, all
  <2>3. CASE ~(count < BufferSize)
    <3>1. count = BufferSize /\ count' = count /\ drop = -1
      BY <1>1, <1>3, <1>4, <2>3
    <3>2. Abstract!Newest(all) = SubSeq(all, 2, count + 1)
      BY <1>1, <2>1, <3>1 DEF Abstract!Newest
    <3>3. /\ SubSeq(all, 2, count + 1) \in Seq(Snapshot)
          /\ Len(SubSeq(all, 2, count + 1)) = count
          /\ \A i \in 1 .. count : SubSeq(all, 2, count + 1)[i] = all[i + 1]
      BY <1>1, <1>4, <2>1, <3>1
    <3>4. ASSUME NEW i \in 1 .. count
          PROVE  Kept'[i] = all[i + 1]
      BY <1>1, <1>5, <2>1, <3>1, <3>4 DEF new
    <3> DEFINE k == Kept'
               t == SubSeq(all, 2, count + 1)
    <3> HIDE DEF k, t
    <3>5. k \in Seq(Snapshot) /\ t \in Seq(Snapshot) /\ Len(k) = Len(t)
      BY <1>2, <3>1, <3>3 DEF k, t
    <3>6. \A i \in 1 .. Len(k) : k[i] = t[i]
      BY <1>2, <3>1, <3>3, <3>4 DEF k, t
    <3>7. k = t
      BY <3>5, <3>6, SeqEqual
    <3>8. QED BY <3>2, <3>7 DEF k, t, all
  <2>4. QED BY <2>2, <2>3 DEF all
<1>10. Kept' # <<>>
  BY <1>1, <1>2, <1>3, <1>4
<1>11. QED BY <1>2, <1>8, <1>9, <1>10 DEF new

(* The ring implements the bounded history of History, for every ring      *)
(* size: each publication is one Add, and nothing else, neither the writer *)
(* reading the previous map nor an export, changes what is kept.           *)
THEOREM Refinement == Spec => ImplementsHistory
<1>1. Init => Abstract!Init
  <2> SUFFICES ASSUME Init PROVE Kept = <<>>
    BY DEF Abstract!Init
  <2>1. count = 0
    BY DEF Init
  <2>2. QED BY <2>1 DEF Kept
<1>2. IInv /\ IInv' /\ [Next]_vars => [Abstract!Add]_Kept
  <2> SUFFICES ASSUME IInv, IInv', [Next]_vars PROVE Abstract!Add \/ Kept' = Kept
    OBVIOUS
  <2>1. CASE Publish
    BY <2>1, PublishRefines DEF Abstract!Add
  <2>2. CASE UNCHANGED <<heap, ring, head, count>>
    BY <2>2 DEF Kept, GetAll
  <2>3. CASE ~Publish
    BY <2>2, <2>3 DEF Next, vars, ReadPrevs, StartJSON, StartCSV, EncodeNext, FinishExport
  <2>4. QED BY <2>1, <2>3
<1>3. QED BY <1>1, <1>2, Invariance, PTL DEF Spec, ImplementsHistory, Abstract!Spec

-----------------------------------------------------------------------------
(* Deltas are of one socket and one poll.                                  *)

LastPoll == IF Len(log) = 0 THEN {} ELSE log[Len(log)]

OnePerSocket(conns) == \A c, d \in conns : c.sock = d.sock => c = d

(* What the poll before n knew of the counter of c's socket. *)
BeforeOf(n, c) == IF n = 1 THEN {} ELSE {p \in log[n - 1] : p.sock = c.sock /\ p.bytes # None}

DeltasRight(n) ==
  \A c \in log[n] :
    c.sock \in ShowsInode =>
      c.delta = IF BeforeOf(n, c) = {} \/ c.bytes = None
                  THEN None
                  ELSE c.bytes - (CHOOSE p \in BeforeOf(n, c) : TRUE).bytes

(* The map files the last poll by key, and no other. *)
PrevMapInv ==
  /\ \A c \in LastPoll : ConnKey(c.sock) \in DOMAIN prevMap
  /\ \A k \in DOMAIN prevMap : prevMap[k] \in LastPoll /\ ConnKey(prevMap[k].sock) = k

(* The poll on its way holds what the map had for its keys, and counters   *)
(* that did not go back.                                                   *)
StagedInv ==
  staged # None =>
    /\ OnePerSocket(staged.conns)
    /\ \A c \in staged.conns :
         /\ c.bytes # None => c.bytes <= kernel[c.sock]
         /\ \A p \in LastPoll :
              p.sock = c.sock /\ p.bytes # None /\ c.bytes # None => p.bytes <= c.bytes
         /\ ConnKey(c.sock) \in DOMAIN staged.prevs <=> ConnKey(c.sock) \in DOMAIN prevMap
         /\ ConnKey(c.sock) \in DOMAIN prevMap =>
              staged.prevs[ConnKey(c.sock)] = prevMap[ConnKey(c.sock)]

DeltaInv ==
  /\ \A n \in 1 .. Len(log) : OnePerSocket(log[n]) /\ DeltasRight(n)
  /\ \A c \in LastPoll : c.bytes # None => c.bytes <= kernel[c.sock]
  /\ PrevMapInv
  /\ StagedInv

(* A socket whose inode ss shows has a key of its own. *)
LEMMA OwnKey ==
  ASSUME NEW s \in ShowsInode, NEW r \in Sockets, ConnKey(r) = ConnKey(s)
  PROVE  r = s
<1>1. ConnKey(s) = <<Tuple[s], s>> /\ Len(ConnKey(s)) = 2 /\ ConnKey(s)[2] = s
  BY DEF ConnKey
<1>2. CASE r \in ShowsInode
  <2>1. ConnKey(r) = <<Tuple[r], r>> /\ ConnKey(r)[2] = r
    BY <1>2 DEF ConnKey
  <2> QED BY <1>1, <2>1
<1>3. CASE r \notin ShowsInode
  <2>1. ConnKey(r) = <<Tuple[r]>> /\ Len(ConnKey(r)) = 1
    BY <1>3 DEF ConnKey
  <2> QED BY <1>1, <2>1
<1> QED BY <1>2, <1>3

LEMMA ReadPrevsKeepsDeltas ==
  ASSUME TypeOK, DeltaInv,
         NEW open \in SUBSET Sockets, NEW silent \in SUBSET Sockets,
         NEW counters \in [Sockets -> 0 .. MaxBytes],
         ReadPrevs(open, silent, counters)
  PROVE  DeltaInv'
<1> DEFINE conns == {[sock  |-> s,
                      bytes |-> IF s \in silent THEN None ELSE counters[s],
                      delta |-> None] : s \in open}
           keys  == {ConnKey(s) : s \in open} \cap DOMAIN prevMap
           prevs == [k \in keys |-> prevMap[k]]
<1>1. UNCHANGED <<prevMap, log>> /\ kernel' = counters
      /\ staged' = [conns |-> conns, prevs |-> prevs]
      /\ \A s \in Sockets : counters[s] >= kernel[s]
  BY DEF ReadPrevs
<1>2. kernel \in [Sockets -> 0 .. MaxBytes] /\ \A c \in LastPoll : c \in Conn
  BY DEF TypeOK, LastPoll
<1>3. LastPoll' = LastPoll
  BY <1>1 DEF LastPoll
<1>4. ASSUME NEW c \in LastPoll, c.bytes # None
      PROVE  c.bytes \in Int /\ c.sock \in Sockets /\ c.bytes <= kernel[c.sock] /\ c.bytes <= counters[c.sock]
  <2>1. c.sock \in Sockets /\ c.bytes \in 0 .. MaxBytes /\ c.bytes <= kernel[c.sock]
    BY <1>2, <1>4 DEF DeltaInv, Conn
  <2> QED BY <1>1, <1>2, <2>1, EnvironmentAssumption
<1>5. ASSUME NEW c \in conns
      PROVE  /\ c.sock \in open
             /\ c.bytes # None => c.bytes = counters[c.sock]
             /\ c = [sock |-> c.sock, bytes |-> IF c.sock \in silent THEN None ELSE counters[c.sock],
                     delta |-> None]
  OBVIOUS
<1>6. ASSUME NEW c \in conns
      PROVE  /\ ConnKey(c.sock) \in DOMAIN prevs <=> ConnKey(c.sock) \in DOMAIN prevMap
             /\ ConnKey(c.sock) \in DOMAIN prevMap =>
                  prevs[ConnKey(c.sock)] = prevMap[ConnKey(c.sock)]
  <2>1. c.sock \in open
    BY <1>5
  <2> QED BY <2>1
<1> HIDE DEF conns, prevs
<1>7. staged'.conns = conns /\ staged'.prevs = prevs
  BY <1>1
<1>8. StagedInv'
  <2>1. OnePerSocket(conns)
    BY <1>5 DEF OnePerSocket
  <2>2. ASSUME NEW c \in conns
        PROVE  /\ c.bytes # None => c.bytes <= counters[c.sock]
               /\ \A p \in LastPoll :
                    p.sock = c.sock /\ p.bytes # None /\ c.bytes # None => p.bytes <= c.bytes
    <3>1. c.bytes # None => c.bytes = counters[c.sock] /\ counters[c.sock] \in 0 .. MaxBytes
      BY <1>5
    <3> QED BY <1>4, <3>1, EnvironmentAssumption
  <2> QED BY <1>1, <1>3, <1>6, <1>7, <2>1, <2>2 DEF StagedInv, OnePerSocket
<1>9. \A n \in 1 .. Len(log') : (OnePerSocket(log[n]) /\ DeltasRight(n))'
  BY <1>1 DEF DeltaInv, OnePerSocket, DeltasRight, BeforeOf
<1>10. PrevMapInv'
  BY <1>1, <1>3 DEF DeltaInv, PrevMapInv
<1> QED BY <1>1, <1>3, <1>4, <1>8, <1>9, <1>10 DEF DeltaInv

(* A published connection is a staged one with its delta. *)
LEMMA DeltaOf ==
  ASSUME NEW conns \in SUBSET Conn, NEW prevs, NEW d \in WithDeltas(conns, prevs)
  PROVE  \E c \in conns :
           /\ d.sock = c.sock /\ d.bytes = c.bytes
           /\ d.delta = IF ConnKey(c.sock) \in DOMAIN prevs
                          THEN Delta(c, prevs[ConnKey(c.sock)]) ELSE None
           /\ d = [c EXCEPT !.delta = d.delta]
<1>1. PICK c \in conns :
        d = [c EXCEPT !.delta = IF ConnKey(c.sock) \in DOMAIN prevs
                                  THEN Delta(c, prevs[ConnKey(c.sock)]) ELSE None]
  BY DEF WithDeltas
<1>2. c \in Conn
  OBVIOUS
<1> QED BY <1>1, <1>2 DEF Conn

LEMMA PublishKeepsDeltas ==
  ASSUME TypeOK, DeltaInv, Publish
  PROVE  DeltaInv'
<1> DEFINE conns == WithDeltas(staged.conns, staged.prevs)
           m     == Len(log)
<1>1. /\ staged # None /\ staged' = None /\ UNCHANGED kernel
      /\ log' = Append(log, conns) /\ prevMap' \in ByKey(conns)
  BY DEF Publish
<1>2. /\ staged.conns \in SUBSET Conn /\ log \in Seq(SUBSET Conn) /\ m \in Nat
      /\ kernel \in [Sockets -> 0 .. MaxBytes]
      /\ \E K \in SUBSET Keys : staged.prevs \in [K -> Conn]
  <2>1. staged # None
    BY DEF Publish
  <2>2. staged.conns \in SUBSET Conn /\ \E K \in SUBSET Keys : staged.prevs \in [K -> Conn]
    BY <2>1, Zenon DEF TypeOK
  <2>3. log \in Seq(SUBSET Conn) /\ kernel \in [Sockets -> 0 .. MaxBytes]
    BY DEF TypeOK
  <2> QED BY <2>2, <2>3
<1>3. conns \in SUBSET Conn
  BY <1>2, WithDeltasType
<1>4. \A d \in conns : \E c \in staged.conns :
           /\ d.sock = c.sock /\ d.bytes = c.bytes
           /\ d.delta = IF ConnKey(c.sock) \in DOMAIN staged.prevs
                          THEN Delta(c, staged.prevs[ConnKey(c.sock)]) ELSE None
           /\ d = [c EXCEPT !.delta = d.delta]
  BY <1>2, DeltaOf
<1> HIDE DEF conns
<1>5. Len(log') = m + 1 /\ log'[m + 1] = conns /\ \A n \in 1 .. m : log'[n] = log[n]
  BY <1>1, <1>2, <1>3
<1>6. LastPoll' = conns
  BY <1>2, <1>5 DEF LastPoll
<1>7. PrevMapInv'
  BY <1>1, <1>6 DEF PrevMapInv, ByKey
<1>8. StagedInv'
  BY <1>1 DEF StagedInv
<1>9. OnePerSocket(conns)
  <2> SUFFICES ASSUME NEW d \in conns, NEW e \in conns, d.sock = e.sock
               PROVE  d = e
    BY DEF OnePerSocket
  <2>1. PICK c \in staged.conns :
           /\ d.sock = c.sock /\ d = [c EXCEPT !.delta = d.delta]
           /\ d.delta = IF ConnKey(c.sock) \in DOMAIN staged.prevs
                          THEN Delta(c, staged.prevs[ConnKey(c.sock)]) ELSE None
    BY <1>4
  <2>2. PICK b \in staged.conns :
           /\ e.sock = b.sock /\ e = [b EXCEPT !.delta = e.delta]
           /\ e.delta = IF ConnKey(b.sock) \in DOMAIN staged.prevs
                          THEN Delta(b, staged.prevs[ConnKey(b.sock)]) ELSE None
    BY <1>4
  <2>3. b = c
    BY <1>1, <2>1, <2>2 DEF DeltaInv, StagedInv, OnePerSocket
  <2>4. d.delta = e.delta
    BY <2>1, <2>2, <2>3
  <2> QED BY <2>1, <2>2, <2>3, <2>4
<1>10. \A d \in conns : d.bytes # None => d.bytes <= kernel[d.sock]
  BY <1>1, <1>4 DEF DeltaInv, StagedInv
<1>11. ASSUME NEW d \in conns, d.sock \in ShowsInode
       PROVE  LET before == IF m + 1 = 1 THEN {} ELSE {p \in log[m] : p.sock = d.sock /\ p.bytes # None}
              IN  d.delta = IF before = {} \/ d.bytes = None
                              THEN None ELSE d.bytes - (CHOOSE p \in before : TRUE).bytes
  <2> DEFINE before == {p \in LastPoll : p.sock = d.sock /\ p.bytes # None}
             key    == ConnKey(d.sock)
  <2>0. before = IF m + 1 = 1 THEN {} ELSE {p \in log[m] : p.sock = d.sock /\ p.bytes # None}
    BY <1>2 DEF LastPoll
  <2>1. PICK c \in staged.conns :
           /\ d.sock = c.sock /\ d.bytes = c.bytes
           /\ d.delta = IF key \in DOMAIN staged.prevs THEN Delta(c, staged.prevs[key]) ELSE None
    BY <1>4
  <2>2. /\ key \in DOMAIN staged.prevs <=> key \in DOMAIN prevMap
        /\ key \in DOMAIN prevMap => staged.prevs[key] = prevMap[key]
        /\ \A p \in LastPoll :
             p.sock = c.sock /\ p.bytes # None /\ c.bytes # None => p.bytes <= c.bytes
    BY <1>1, <2>1 DEF DeltaInv, StagedInv
  <2>3. \A p \in LastPoll : p \in Conn
    BY <1>2 DEF LastPoll
  <2>4. OnePerSocket(LastPoll)
    BY <1>2 DEF LastPoll, DeltaInv, OnePerSocket
  <2>5. \A p \in LastPoll : p.sock = d.sock => key \in DOMAIN prevMap /\ prevMap[key] = p
    <3> SUFFICES ASSUME NEW p \in LastPoll, p.sock = d.sock
                 PROVE  key \in DOMAIN prevMap /\ prevMap[key] = p
      OBVIOUS
    <3>1. key \in DOMAIN prevMap /\ prevMap[key] \in LastPoll /\ ConnKey(prevMap[key].sock) = key
      BY DEF DeltaInv, PrevMapInv
    <3>2. prevMap[key].sock \in Sockets
      BY <2>3, <3>1 DEF Conn
    <3>3. prevMap[key].sock = d.sock
      BY <1>11, <3>1, <3>2, OwnKey
    <3> QED BY <2>4, <3>1, <3>3 DEF OnePerSocket
  <2>6. key \in DOMAIN prevMap =>
          prevMap[key] \in LastPoll /\ prevMap[key].sock = d.sock
    <3> SUFFICES ASSUME key \in DOMAIN prevMap
                 PROVE  prevMap[key] \in LastPoll /\ prevMap[key].sock = d.sock
      OBVIOUS
    <3>1. prevMap[key] \in LastPoll /\ ConnKey(prevMap[key].sock) = key
      BY DEF DeltaInv, PrevMapInv
    <3>2. prevMap[key].sock \in Sockets
      BY <2>3, <3>1 DEF Conn
    <3> QED BY <1>11, <3>1, <3>2, OwnKey
  <2>7. c.bytes \in 0 .. MaxBytes \cup {None}
    BY <1>2 DEF Conn
  <2>8. CASE before = {}
    <3>1. key \in DOMAIN prevMap => prevMap[key].bytes = None
      BY <2>6, <2>8
    <3> QED BY <2>0, <2>1, <2>2, <2>8, <3>1 DEF Delta
  <2>9. CASE before # {}
    <3>1. PICK p \in before : TRUE
      BY <2>9
    <3>2. key \in DOMAIN prevMap /\ prevMap[key] = p
      BY <2>5, <3>1
    <3>3. before = {p}
      BY <2>4, <3>1 DEF OnePerSocket
    <3>4. (CHOOSE q \in before : TRUE) = p
      BY <3>3
    <3>5. p.bytes \in 0 .. MaxBytes /\ p.bytes # None
      BY <2>3, <3>1 DEF Conn
    <3>6. d.delta = Delta(c, p)
      BY <2>1, <2>2, <3>2
    <3>7. c.bytes # None => p.bytes <= c.bytes
      BY <2>1, <2>2, <3>1
    <3> HIDE DEF before
    <3> QED BY <2>0, <2>1, <2>7, <2>9, <3>4, <3>5, <3>6, <3>7, EnvironmentAssumption DEF Delta
  <2> QED BY <2>8, <2>9
<1>12. ASSUME NEW n \in 1 .. Len(log')
       PROVE  (OnePerSocket(log[n]) /\ DeltasRight(n))'
  <2>1. CASE n = m + 1
    <3>1. m + 1 = 1 \/ log'[m] = log[m]
      BY <1>2, <1>5
    <3> QED BY <1>2, <1>5, <1>9, <1>11, <2>1, <3>1 DEF OnePerSocket, DeltasRight, BeforeOf
  <2>2. CASE n # m + 1
    <3>1. n \in 1 .. m /\ log'[n] = log[n] /\ (n # 1 => log'[n - 1] = log[n - 1])
      BY <1>2, <1>5, <1>12, <2>2
    <3> QED BY <3>1 DEF DeltaInv, OnePerSocket, DeltasRight, BeforeOf
  <2> QED BY <2>1, <2>2
<1> QED BY <1>1, <1>6, <1>7, <1>8, <1>10, <1>12 DEF DeltaInv

(* A delta compares two counters of one socket in consecutive polls, for   *)
(* every socket whose inode ss shows and however many sockets share its    *)
(* addresses (AddSnapshotAt's map of the poll before).                     *)
THEOREM DeltaSafety == Spec => []DeltaIsLastPollOfSocket
<1>1. Init => DeltaInv
  <2> SUFFICES ASSUME Init PROVE DeltaInv
    OBVIOUS
  <2>1. Len(log) = 0 /\ staged = None /\ DOMAIN prevMap = {}
    BY DEF Init
  <2> QED BY <2>1 DEF DeltaInv, LastPoll, PrevMapInv, StagedInv
<1>2. IInv /\ DeltaInv /\ [Next]_vars => DeltaInv'
  <2> SUFFICES ASSUME TypeOK, DeltaInv, [Next]_vars PROVE DeltaInv'
    BY DEF IInv
  <2>1. CASE UNCHANGED <<log, prevMap, staged, kernel>>
    BY <2>1 DEF DeltaInv, LastPoll, PrevMapInv, StagedInv, OnePerSocket, DeltasRight, BeforeOf
  <2>2. ASSUME NEW open \in SUBSET Sockets, NEW silent \in SUBSET Sockets,
               NEW counters \in [Sockets -> 0 .. MaxBytes], ReadPrevs(open, silent, counters)
        PROVE  DeltaInv'
    BY <2>2, ReadPrevsKeepsDeltas
  <2>3. CASE Publish
    BY <2>3, PublishKeepsDeltas
  <2>4. ASSUME NEW e \in Exporters,
               StartJSON(e) \/ StartCSV(e) \/ EncodeNext(e) \/ FinishExport(e)
        PROVE  DeltaInv'
    BY <2>1, <2>4 DEF StartJSON, StartCSV, EncodeNext, FinishExport
  <2>5. CASE UNCHANGED vars
    BY <2>1, <2>5 DEF vars
  <2> QED BY <2>2, <2>3, <2>4, <2>5 DEF Next
<1>3. IInv /\ DeltaInv => DeltaIsLastPollOfSocket
  <2> SUFFICES ASSUME TypeOK, DeltaInv PROVE DeltaIsLastPollOfSocket
    BY DEF IInv
  <2>1. DOMAIN log = 1 .. Len(log)
    BY DEF TypeOK
  <2> QED BY <2>1 DEF DeltaInv, DeltasRight, BeforeOf, DeltaIsLastPollOfSocket
<1> QED BY <1>1, <1>2, <1>3, Invariance, PTL DEF Spec
=============================================================================
