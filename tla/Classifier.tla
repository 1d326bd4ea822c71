----------------------------- MODULE Classifier -----------------------------
(***************************************************************************)
(* classifier/classifier.go: the signals of a connection.  A connection is *)
(* a record with the fields of model.Connection that the classifier reads, *)
(* under their names; None is a nil pointer.  Times are milliseconds, a    *)
(* RTT a whole number of them.  A signal is its type, by the label of      *)
(* model.SignalType, and its severity; the text beside it is left out.     *)
(***************************************************************************)
EXTENDS Integers, Sequences, FiniteSets, FiniteSetsExt

CONSTANTS
  None,            \* nil
  PollIntervalMS,  \* classifier.PollIntervalMS
  SlotMinMS,       \* the shortest span for which model.SlotFull holds
  CloseWaitWarn, CloseWaitCrit,   \* CLOSE-WAIT sockets of one process
  TimeWaitWarn, TimeWaitCrit      \* TIME-WAIT sockets toward one endpoint

ASSUME ClassifierAssumption ==
  /\ PollIntervalMS \in Nat \ {0}
  /\ SlotMinMS \in Nat \ {0}
  /\ {CloseWaitWarn, CloseWaitCrit, TimeWaitWarn, TimeWaitCrit} \subseteq Nat \ {0}
  /\ CloseWaitWarn <= CloseWaitCrit /\ TimeWaitWarn <= TimeWaitCrit
  /\ None \notin Int \cup BOOLEAN \cup STRING

Known(v) == v # None
Deref(v) == IF v = None THEN 0 ELSE v
Above(v, n) == v # None /\ v > n

(* The pointer fields of a connection, nil until something sets them. *)
PointerFields ==
  {"PID", "TimerType", "TimerRetrans", "LastAck", "RTO", "RTT", "MinRTT", "PathMinRTT", "PathSendQueueMS",
   "PathRecvQueueMS", "CongAlgo", "BBRCWndGain", "MSS", "PMTU", "AdvMSS", "RcvSSThresh", "CWnd", "PrevCWnd",
   "Lost", "RetransNow", "SndWnd", "RcvWnd", "RcvRTT", "RecvQ", "PrevRecvQ", "SendQ", "PrevSendQ", "SkmemR",
   "SkmemRB", "SkmemTB", "SkmemD", "Unacked", "PrevUnacked", "Delivered", "DeliveredCE", "BytesSent",
   "BytesRetrans", "BytesReceived", "BytesAcked", "SegsOut", "SegsIn", "DataSegsOut", "DataSegsIn", "RcvOOOPack",
   "ReordSeen", "DSACKDups", "BusyMS", "RwndLimitedMS", "SndbufLimitedMS", "DeltaSkmemD", "DeltaBytesSent",
   "DeltaBytesRetrans", "DeltaBytesReceived", "PrevDeltaBytesReceived", "DeltaDataSegsIn", "DeltaRcvOOOPack",
   "DeltaReordSeen", "DeltaBytesAcked", "DeltaDeliveredCE", "DeltaDSACKDups", "DeltaRwndLimitedMS",
   "PrevDeltaRwndLimitedMS", "DeltaSndbufLimitedMS", "PrevDeltaSndbufLimitedMS", "HostBufferDrops",
   "HostBacklogDrops"}

(* A connection of which only these fields are known. *)
Connection(known) ==
  LET zero == [AppLimited |-> 0, Timestamps |-> FALSE, SendSlots |-> <<>>, RecvSlots |-> <<>>, Signals |-> {}]
  IN  [f \in PointerFields \cup DOMAIN zero \cup DOMAIN known |->
         IF f \in DOMAIN known THEN known[f] ELSE IF f \in DOMAIN zero THEN zero[f] ELSE None]

(* Severities: warn is 1, crit is 2, and 0 is no signal.                   *)
Tier(n, warn, crit) == IF n >= crit THEN 2 ELSE IF n >= warn THEN 1 ELSE 0

(* A signal when its condition holds, and one when its severity is not 0.  *)
When(holds, type, sev) == IF holds THEN {[type |-> type, sev |-> sev]} ELSE {}
Tiered(type, sev) == When(sev > 0, type, sev)

Signalled(signals, types) == \E s \in signals : s.type \in types

-----------------------------------------------------------------------------
(* Slots: the several seconds that PATH_LOSS, RX_LOSS and REORDER judge.   *)

SumOf(slots, f) == SumFunction([i \in DOMAIN slots |-> slots[i][f]])
SlotsWith(slots, f) == Cardinality({i \in DOMAIN slots : slots[i][f] > 0})
Samples(slots, f) == SumFunction([i \in DOMAIN slots |-> Len(slots[i][f])])
SamplesBelow(slots, f, x) ==
  SumFunction([i \in DOMAIN slots |-> Cardinality({j \in DOMAIN slots[i][f] : slots[i][f][j] < x})])

(* What counts as a queue: max(4 ms, a tenth of the minimum RTT).          *)
QueueLimit(base) == Max({4, (base + 9) \div 10})

SlotMinCount == 4

(* Mutant: held to the whole 2 s of SendSlotMin. *)
SlotFullStrict(slot) == 9 * (slot.end - slot.start) >= 10 * SlotMinMS

SlotFull(slot) == slot.end - slot.start >= SlotMinMS

(* completeSlots: without the slot still filling; nil when too few. *)
CompleteSlots(slots) ==
  LET done == IF slots # <<>> /\ ~SlotFull(slots[Len(slots)])
                THEN SubSeq(slots, 1, Len(slots) - 1) ELSE slots
  IN  IF Len(done) < SlotMinCount THEN <<>> ELSE done

(* Mutant: one slot with a retransmit is enough. *)
SteadyOnce(c, slots) ==
  /\ SumOf(slots, "sent") > 0
  /\ SlotsWith(slots, "retrans") > 0

(* steadyRetrans: half of the slots retransmitted, and no queue was built  *)
(* (BBR keeps one anyway).  The queue is the median of the samples.        *)
Steady(c, slots) ==
  /\ SumOf(slots, "sent") > 0
  /\ SlotsWith(slots, "retrans") * 2 >= Len(slots)
  /\ \/ Known(c.CongAlgo) /\ c.CongAlgo = "bbr"
     \/ /\ Known(c.MinRTT)
        /\ Samples(slots, "queue") > 0
        /\ LET limit == QueueLimit(c.MinRTT)
           IN  /\ SamplesBelow(slots, "queue", limit) > Samples(slots, "queue") \div 2
               /\ ~(Known(c.PathSendQueueMS) /\ c.PathSendQueueMS >= limit)

(* PATH_LOSS at 0.05 % of the bytes sent, critical at 1 %. *)
PathLoss(c) ==
  LET slots == CompleteSlots(c.SendSlots)
  IN  IF Steady(c, slots)
        THEN Tier(10000 * SumOf(slots, "retrans"), 5 * SumOf(slots, "sent"), 100 * SumOf(slots, "sent"))
        ELSE 0

(* SteadyRetrans: half the share, over the slot still filling too. *)
SteadyRetrans(c) ==
  /\ Steady(c, c.SendSlots)
  /\ 20000 * SumOf(c.SendSlots, "retrans") >= 5 * SumOf(c.SendSlots, "sent")

(* inboundGaps: gaps in half of the slots, and three quarters of the RTT   *)
(* samples near the lowest RTT of the path.                                *)
Gappy(c, slots) ==
  /\ slots # <<>>
  /\ Known(c.MinRTT)
  /\ SumOf(slots, "segs") > 0
  /\ Samples(slots, "rtts") > 0
  /\ SlotsWith(slots, "ooo") * 2 >= Len(slots)
  /\ LET base  == IF Known(c.PathMinRTT) THEN Min({c.MinRTT, c.PathMinRTT}) ELSE c.MinRTT
         limit == QueueLimit(base)
     IN  /\ SamplesBelow(slots, "rtts", base + limit) > (Samples(slots, "rtts") * 3) \div 4
         /\ ~(Known(c.PathRecvQueueMS) /\ c.PathRecvQueueMS >= limit)

(* RX_LOSS at 2 % of the segments received, critical at 10 %. *)
InboundLoss(c) ==
  LET slots == CompleteSlots(c.RecvSlots)
  IN  IF Gappy(c, slots)
        THEN Tier(100 * SumOf(slots, "ooo"), 2 * SumOf(slots, "segs"), 10 * SumOf(slots, "segs"))
        ELSE 0

InboundGaps(c) ==
  /\ Gappy(c, c.RecvSlots)
  /\ 100 * SumOf(c.RecvSlots, "ooo") >= SumOf(c.RecvSlots, "segs")

(* REORDER at 0.1 % of the segments sent, critical at 5 %, and ten events  *)
(* per retransmitted segment.                                              *)
Reordering(c) ==
  LET slots  == CompleteSlots(c.SendSlots)
      events == SumOf(slots, "reord") * c.MSS
  IN  IF slots # <<>> /\ Above(c.MSS, 0)
         /\ SlotsWith(slots, "reord") * 2 >= Len(slots)
         /\ events >= 10 * SumOf(slots, "retrans")
        THEN Tier(1000 * events, SumOf(slots, "sent"), 50 * SumOf(slots, "sent"))
        ELSE 0

-----------------------------------------------------------------------------
(* Socket drops: whose they are.                                           *)

(* windowCutForMemory *)
WindowCutForMemory(c) ==
  /\ Known(c.RcvSSThresh) /\ Known(c.AdvMSS) /\ Known(c.SkmemRB)
  /\ c.RcvSSThresh <= 4 * c.AdvMSS
  /\ c.RcvSSThresh * 4 < c.SkmemRB

(* Under a quarter of its receive buffer is in use. *)
Roomy(c) == Known(c.SkmemR) /\ Known(c.SkmemRB) /\ c.SkmemR * 4 < c.SkmemRB

(* Mutant: a full backlog is forgotten. *)
OwnDiscardsNoBacklog(c) ==
  /\ Known(c.HostBufferDrops)
  /\ ~c.HostBufferDrops \/ (Roomy(c) /\ ~WindowCutForMemory(c))

(* ownDiscards: what TCP discards by design, not for want of memory. *)
OwnDiscards(c) ==
  /\ Known(c.HostBufferDrops)
  /\ \/ ~c.HostBufferDrops
     \/ Roomy(c) /\ ~WindowCutForMemory(c) /\ c.HostBacklogDrops = FALSE

(* dataSegsThisPoll is known to be zero: ss leaves the counter out while   *)
(* it is 0.                                                                *)
NoDataArrived(c) ==
  \/ c.DeltaDataSegsIn = 0
  \/ c.DeltaDataSegsIn = None /\ c.DataSegsIn = None /\ Known(c.SegsIn)

(* Drops of data out of order, behind a gap: the queue is not pressed. *)
ExplainedByLoss(c, signals) ==
  /\ Above(c.DeltaRcvOOOPack, 0)
  /\ ~OwnDiscards(c)
  /\ Signalled(signals, {"DROPS"})
  /\ ~Signalled(signals, {"RCV_Q"})

(* DropsExplainedByInboundLoss, on a classified connection. *)
DropsExplainedByInboundLoss(c) == ExplainedByLoss(c, c.Signals)

(* MemoryRefusedDrops, on a classified connection. *)
MemoryRefusedDrops(c) ==
  /\ c.Protocol = "tcp" /\ c.State # "LISTEN"
  /\ Roomy(c) /\ WindowCutForMemory(c)
  /\ \E s \in c.Signals : s.type = "DROPS" /\ s.sev > 0

(* HungAfterHandshake: nothing acknowledged since the SYN, with segments   *)
(* larger than every path must carry.                                      *)
HungAfterHandshake(c) ==
  /\ c.State = "ESTAB"
  /\ Known(c.Delivered) /\ c.Delivered <= 1
  /\ Above(c.Unacked, 0)
  /\ Above(c.MSS, 536)

(* Mutant: a socket's drops are the reader's fault whatever the host says. *)
DropSignalBlunt(c) ==
  Tiered("DROPS", IF Above(c.DeltaSkmemD, 0) THEN Tier(c.DeltaSkmemD, 1, 11) ELSE 0)

(* DROPS, before loss recovery is considered: info on a TCP socket for     *)
(* probes and what TCP discards by design.                                 *)
DropSignal(c) ==
  LET byDesign == /\ c.Protocol = "tcp" /\ c.State # "LISTEN"
                  /\ NoDataArrived(c) \/ OwnDiscards(c)
  IN  When(Above(c.DeltaSkmemD, 0), "DROPS", IF byDesign THEN 0 ELSE Tier(c.DeltaSkmemD, 1, 11))

-----------------------------------------------------------------------------
(* Queues and limits.                                                      *)

(* queueSeverity: half and four fifths of the capacity, or 16 and 64 KB. *)
QueueSeverity(q, cap) ==
  IF Above(cap, 0) THEN Tier(10 * q, 5 * cap, 8 * cap) ELSE Tier(q, 16384, 65536)

(* queuePressure: on this poll and the one before. *)
QueuePressure(cur, prev, cap) ==
  IF Known(cur) /\ Known(prev) /\ QueueSeverity(prev, cap) > 0 THEN QueueSeverity(cur, cap) ELSE 0

(* tcpRecvPayload: half of the buffer holds data. *)
RecvPayload(rb) == IF Known(rb) THEN rb \div 2 ELSE None

(* limitedLevel and limitedSeverity: a quarter and three quarters of the   *)
(* poll interval, on two polls in a row.                                   *)
LimitedLevel(ms) ==
  IF Above(ms, 0) THEN Tier(4 * ms, PollIntervalMS, 3 * PollIntervalMS) ELSE 0
LimitedSeverity(ms, prev) == IF LimitedLevel(prev) > 0 THEN LimitedLevel(ms) ELSE 0

(* sendBufferCaps: the buffer full on both polls and all of it in flight,  *)
(* with neither window holding the flight back.                            *)
SendBufferCaps(c) ==
  /\ Known(c.SendQ) /\ Known(c.PrevSendQ) /\ Above(c.SkmemTB, 0)
  /\ Known(c.Unacked) /\ Known(c.MSS) /\ Above(c.CWnd, 0)
  /\ \A q \in {c.SendQ, c.PrevSendQ} : 10 * q >= 4 * c.SkmemTB
  /\ LET flight == c.Unacked * c.MSS
     IN  /\ c.SendQ <= flight + 2 * c.MSS
         /\ Known(c.SndWnd) => flight + 2 * c.MSS < c.SndWnd
  /\ 10 * c.Unacked <= 8 * c.CWnd

(* receiveWindowFill: on both polls what arrives per round trip fills      *)
(* four fifths of the window, while the queue is short.                    *)
WindowFilled(c) ==
  /\ c.Timestamps /\ Above(c.RcvRTT, 0) /\ Above(c.RcvWnd, 0)
  /\ Known(c.SkmemRB) /\ Known(c.RecvQ) /\ 4 * c.RecvQ < c.SkmemRB
  /\ \A bytes \in {c.DeltaBytesReceived, c.PrevDeltaBytesReceived} :
       /\ Known(bytes) /\ bytes >= 10000
       /\ bytes * c.RcvRTT * 5 >= 4 * PollIntervalMS * c.RcvWnd

(* cwndCutCause is not empty, and the window fell below half. *)
WindowCollapsed(c) ==
  /\ Known(c.PrevCWnd) /\ Known(c.CWnd) /\ c.PrevCWnd >= 20
  /\ ~(Known(c.BBRCWndGain) /\ 2 * c.BBRCWndGain < 3)
  /\ \/ Above(c.DeltaBytesRetrans, 0) \/ Above(c.Lost, 0)
     \/ Above(c.DeltaDeliveredCE, 0)
  /\ c.CWnd < c.PrevCWnd \div 2

-----------------------------------------------------------------------------
(* Classify, in the order of the code.                                     *)

UdpSignals(c) ==
  Tiered("RCV_Q", QueuePressure(c.RecvQ, c.PrevRecvQ, c.SkmemRB))
  \cup Tiered("SEND_Q", QueuePressure(c.SendQ, c.PrevSendQ, c.SkmemTB))
  \cup When(c.State = "UDP_IDLE", "IDLE", 0)

(* A listener's Recv-Q is its accept queue, its Send-Q the backlog. *)
ListenSignals(c) ==
  LET rq == Deref(c.RecvQ)
      sq == Deref(c.SendQ)
  IN  Tiered("LISTEN_Q",
        CASE rq > 0 /\ sq > 0 -> IF 10 * rq > 8 * sq THEN Tier(rq, 1, sq) ELSE 0
          [] rq > 0 /\ sq <= 0 -> Tier(rq, 1, 101)
          [] OTHER -> 0)

(* Signals that are context, and no fault of their own. *)
InfoSignals(c) ==
  When(Above(c.RetransNow, 3), "RETRANS", 0)
  \cup When(c.AppLimited = 1, "APP_LIM", 0)
  \cup When(c.State = "ESTAB" /\ ~Above(c.SendQ, 0) /\ c.DeltaBytesSent = 0 /\ c.DeltaBytesReceived = 0, "IDLE", 0)
  \cup When(Above(c.Lost, 2), "LOSS", 0)
  \cup When(QueuePressure(c.SendQ, c.PrevSendQ, c.SkmemTB) > 0, "SEND_Q", 0)
  \cup When(/\ Known(c.DeltaBytesRetrans) /\ Above(c.DeltaBytesSent, 0)
            /\ 20 * c.DeltaBytesRetrans > c.DeltaBytesSent, "HI_RETRANS", 0)
  \cup When(/\ Above(c.Unacked, 10) /\ Above(c.CWnd, 0)
            /\ 10 * c.Unacked > 8 * c.CWnd, "CWND_LIM", 0)
  \cup When(WindowCollapsed(c), "CWND_DROP", 0)
  \cup When(Above(c.DeltaDSACKDups, 0), "DSACK", 0)

(* IsZeroWindow: ss omits a zero window, the persist timer tells. *)
IsZeroWindow(c) == IF Known(c.SndWnd) THEN c.SndWnd = 0 ELSE c.TimerType = "persist"

(* RTT above five and fifteen times the minimum, by at least 10 ms. *)
RttSignal(c) ==
  Tiered("RTT_SPIKE",
    IF Known(c.RTT) /\ Above(c.MinRTT, 0) /\ c.RTT - c.MinRTT >= 10
      THEN Tier(c.RTT, 5 * c.MinRTT + 1, 15 * c.MinRTT + 1) ELSE 0)

SendingStates == {"ESTAB", "CLOSE-WAIT", "FIN-WAIT-1", "LAST-ACK", "CLOSING"}

(* RTO: the same segment resent twice or more.  NO_ACK: data waited on     *)
(* both polls with not a byte acknowledged between, and the silence        *)
(* outlasted the retransmission timeout and a second.                      *)
StallSignals(c) ==
  Tiered("RTO", IF c.State = "ESTAB" /\ c.TimerType = "on" /\ Known(c.TimerRetrans)
                  THEN Tier(c.TimerRetrans, 2, 4) ELSE 0)
  \cup Tiered("NO_ACK",
        IF /\ c.State \in SendingStates
           /\ Above(c.Unacked, 0) /\ Above(c.PrevUnacked, 0) /\ c.DeltaBytesAcked = 0
           /\ Known(c.LastAck) /\ c.LastAck >= Max({1000, Deref(c.RTO)})
          THEN Tier(c.LastAck, 0, 10000) ELSE 0)

(* RWND_LIM, SNDBUF_LIM and RCVBUF_LIM: what caps the throughput. *)
LimitSignals(c) ==
  LET sndbuf == LimitedSeverity(c.DeltaSndbufLimitedMS, c.PrevDeltaSndbufLimitedMS)
  IN  (IF Above(c.DeltaBytesSent, 0)
         THEN Tiered("RWND_LIM", LimitedSeverity(c.DeltaRwndLimitedMS, c.PrevDeltaRwndLimitedMS))
              \cup Tiered("SNDBUF_LIM", IF sndbuf > 0 THEN sndbuf ELSE IF SendBufferCaps(c) THEN 1 ELSE 0)
         ELSE {})
      \cup When(WindowFilled(c), "RCVBUF_LIM", 1)

TcpSignals(c) ==
  Tiered("SYN_STALL", IF c.State = "SYN-SENT" /\ Known(c.TimerRetrans) THEN Tier(c.TimerRetrans, 2, 3) ELSE 0)
  \cup When(c.State = "ESTAB" /\ IsZeroWindow(c), "ZERO_WIN", 2)
  \cup When(Above(c.PMTU, 0) /\ Above(c.AdvMSS, 0) /\ c.PMTU < c.AdvMSS + 40, "PMTU", 1)
  \cup RttSignal(c)
  \cup Tiered("RCV_Q", QueuePressure(c.RecvQ, c.PrevRecvQ, RecvPayload(c.SkmemRB)))
  \cup Tiered("PATH_LOSS", PathLoss(c))
  \cup LimitSignals(c)
  \cup StallSignals(c)
  \cup Tiered("RX_LOSS", InboundLoss(c))
  \cup Tiered("REORDER", Reordering(c))
  \cup InfoSignals(c)

(* Drops that came with inbound loss and no queue are its consequence. *)
Classify(c) ==
  CASE c.Protocol = "udp" -> DropSignal(c) \cup UdpSignals(c)
    [] c.Protocol = "tcp" /\ c.State = "LISTEN" -> DropSignal(c) \cup ListenSignals(c)
    [] OTHER ->
         LET signals == DropSignal(c) \cup TcpSignals(c)
         IN  IF ExplainedByLoss(c, signals)
               THEN {s \in signals : s.type # "DROPS"} \cup When(TRUE, "DROPS", 0)
               ELSE signals

-----------------------------------------------------------------------------
(* ClassifyAggregate: signals that depend on a count over the snapshot.    *)

Endpoint(c) == <<c.PeerAddr, c.PeerPort>>

AggregateSignals(c, conns) ==
  CASE c.State = "CLOSE-WAIT" /\ Known(c.PID) ->
         Tiered("CW_LEAK",
           Tier(Cardinality({d \in conns : d.State = "CLOSE-WAIT" /\ d.PID = c.PID}), CloseWaitWarn, CloseWaitCrit))
    [] c.State = "TIME-WAIT" ->
         Tiered("TW_STORM",
           Tier(Cardinality({d \in conns : d.State = "TIME-WAIT" /\ Endpoint(d) = Endpoint(c)}), TimeWaitWarn, TimeWaitCrit))
    [] OTHER -> {}

(* The second half of AddSnapshotAt's phase 2, once the deltas are there. *)
Classified(conns) ==
  {[c EXCEPT !.Signals = Classify(c) \cup AggregateSignals(c, conns)] : c \in conns}

=============================================================================
