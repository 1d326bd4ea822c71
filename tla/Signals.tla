------------------------------ MODULE Signals ------------------------------
(***************************************************************************)
(* From the kernel's counters to a socket's signals, poll by poll:         *)
(*   parser/parser.go     what ss lists, and the zeros it leaves out       *)
(*   session/session.go   the roll of the host counters (Ingest)           *)
(*   poller/poller.go     deltas, slots and path queues (AddSnapshotAt)    *)
(*   classifier           the signals (module Classifier)                  *)
(*                                                                         *)
(* The kernel counts whether or not it is asked; a poll reads its sockets  *)
(* and its host counters, and either read may fail.  Times are ms, a data  *)
(* segment carries SegBytes, and every socket has the same peer and a      *)
(* minimum RTT of 10 ms.  `log` is what the kernel held at every poll that *)
(* was stored: it is not part of the program, the properties judge the     *)
(* program's signals by it.                                                *)
(***************************************************************************)
EXTENDS Classifier

CONSTANTS
  Sockets,         \* the sockets, by local port
  UdpSockets,      \* those of them that are UDP
  Scenes           \* see SceneType: what may happen, in each of several runs

(* What a socket does between two polls: bytes sent and retransmitted,     *)
(* data segments received and those of them behind a gap; segments dropped *)
(* in all, for want of buffer, and of these for a full backlog.  And what  *)
(* the poll finds: the receive queue and the queueing delay of the path.   *)
Growth == [sent : Nat, retrans : Nat, data : Nat, ooo : Nat, drops : Nat, want : Nat, backlog : Nat,
           recvq : Nat, queue : Nat]

(* `counters`: the kernel is new enough to report the counters added to    *)
(* tcp_info since 4.1.  An answer is the success of the TCP query, of the  *)
(* UDP query, and of the read of /proc.                                    *)
SceneType ==
  [gaps : SUBSET (Nat \ {0}), growth : [Sockets -> SUBSET Growth],
   answers : SUBSET [tcp : BOOLEAN, udp : BOOLEAN, sys : BOOLEAN], counters : BOOLEAN, polls : Nat]

(* None stands for a nil pointer: it is no read of the host counters.      *)
ASSUME SignalsAssumption ==
  /\ UdpSockets \subseteq Sockets
  /\ IsFiniteSet(Sockets)
  /\ None \notin [want : Int, backlog : Int]
  /\ Scenes \subseteq SceneType
  /\ \A x \in Scenes, s \in Sockets : \A g \in x.growth[s] : g.want <= g.drops /\ g.backlog <= g.want

SegBytes == 1000

VARIABLES
  scene,           \* the scene being played
  now, polls,      \* the time, and the polls so far
  kernel,          \* the counters of each socket
  conns,           \* the sockets of the last snapshot
  snapAt,          \* when it was taken
  sysCur, sysPrev, \* the last two reads of the host counters
  log              \* the polls that were stored

vars == <<scene, now, polls, kernel, conns, snapAt, sysCur, sysPrev, log>>

-----------------------------------------------------------------------------
(* What ss prints and the parser keeps.                                    *)

(* ss prints a counter that is not zero. *)
Shown(n) == IF n > 0 THEN n ELSE None

(* The row of a socket.  Its queue, its drops and its windows are always   *)
(* printed.                                                                *)
Row(s, k, g) ==
  IF s \in UdpSockets
    THEN Connection([Protocol |-> "udp", State |-> "UDP_IDLE", LocalAddr |-> "host", LocalPort |-> s,
                     PeerAddr |-> "*", PeerPort |-> "*", RecvQ |-> g.recvq, SendQ |-> 0, SkmemR |-> g.recvq,
                     SkmemRB |-> 100, SkmemD |-> k.drops])
    ELSE LET reported(n) == IF scene.counters THEN Shown(n) ELSE None
         IN  Connection([Protocol |-> "tcp", State |-> "ESTAB", LocalAddr |-> "host", LocalPort |-> s,
                         PeerAddr |-> "peer", PeerPort |-> "port", RecvQ |-> g.recvq, SendQ |-> 0,
                         SkmemR |-> g.recvq, SkmemRB |-> 100, SkmemD |-> k.drops, Timestamps |-> TRUE,
                         CWnd |-> 10, MSS |-> SegBytes, MinRTT |-> 10, RTT |-> 10 + g.queue,
                         RcvRTT |-> 10 + g.queue,
                         SegsOut |-> reported(1), SegsIn |-> reported(1), SndWnd |-> reported(65535),
                         BytesReceived |-> reported(SegBytes * k.data), DataSegsIn |-> reported(k.data),
                         RcvOOOPack |-> reported(k.ooo), BytesSent |-> reported(k.sent),
                         BytesRetrans |-> reported(k.retrans)])

(* RunSS: one query for both protocols, or the one that works; a failure   *)
(* when one failed and the other listed nothing.                           *)
Listed(rows, a) == {c \in rows : IF c.Protocol = "tcp" THEN a.tcp ELSE a.udp}
Failed(rows, a) == ~(a.tcp /\ a.udp) /\ Listed(rows, a) = {}

(* omittedGroups: counters that came to tcp_info together, and those of    *)
(* them that tell, when a socket has one, that the kernel reports them all.*)
OmittedGroups ==
  {[sentinel |-> {"SegsOut"}, fields |-> {"BytesAcked", "BytesReceived", "SegsOut", "SegsIn"}],
   [sentinel |-> {"CWnd"}, fields |-> {"Unacked"}],
   [sentinel |-> {"BusyMS"}, fields |-> {"BusyMS", "RwndLimitedMS", "SndbufLimitedMS"}],
   [sentinel |-> {"DataSegsOut", "DataSegsIn"}, fields |-> {"DataSegsOut", "DataSegsIn"}],
   [sentinel |-> {"BytesSent"}, fields |-> {"BytesSent", "BytesRetrans", "DSACKDups", "ReordSeen"}],
   [sentinel |-> {"Delivered"}, fields |-> {"Delivered", "DeliveredCE"}],
   [sentinel |-> {"SndWnd"}, fields |-> {"RcvOOOPack"}]}

HasTCPInfo(c) == c.Protocol = "tcp" /\ Known(c.CWnd)

(* Mutant: each socket vouches for itself. *)
FillOmittedZerosAlone(cs) ==
  {LET filled == UNION {g.fields : g \in {g \in OmittedGroups : \E f \in g.sentinel : Known(c[f])}}
   IN  [f \in DOMAIN c |-> IF HasTCPInfo(c) /\ f \in filled /\ c[f] = None THEN 0 ELSE c[f]] : c \in cs}

(* fillOmittedZeros: of a counter the kernel reports, a missing value is 0 *)
(* and not unknown.                                                        *)
FillOmittedZeros(cs) ==
  LET reported == {g \in OmittedGroups : \E c \in cs : HasTCPInfo(c) /\ \E f \in g.sentinel : Known(c[f])}
      filled   == UNION {g.fields : g \in reported}
  IN  {[f \in DOMAIN c |-> IF HasTCPInfo(c) /\ f \in filled /\ c[f] = None THEN 0 ELSE c[f]] : c \in cs}

-----------------------------------------------------------------------------
(* Host counters.                                                          *)

HostCounters(k) ==
  LET total(f) == SumFunction([s \in Sockets \ UdpSockets |-> k[s][f]])
  IN  [want |-> total("want"), backlog |-> total("backlog")]

(* Ingest's roll, then TCPBufferDrops over the last two reads.             *)
WithHostDrops(cs, cur, prev) ==
  {[c EXCEPT !.HostBufferDrops = cur.want > prev.want, !.HostBacklogDrops = cur.backlog > prev.backlog] : c \in cs}

-----------------------------------------------------------------------------
(* Deltas.                                                                 *)

DeltaOf ==
  [DeltaBytesSent |-> "BytesSent", DeltaBytesReceived |-> "BytesReceived", DeltaBytesRetrans |-> "BytesRetrans",
   DeltaDSACKDups |-> "DSACKDups", DeltaRcvOOOPack |-> "RcvOOOPack", DeltaDataSegsIn |-> "DataSegsIn",
   DeltaReordSeen |-> "ReordSeen", DeltaBytesAcked |-> "BytesAcked", DeltaDeliveredCE |-> "DeliveredCE",
   DeltaSkmemD |-> "SkmemD", DeltaRwndLimitedMS |-> "RwndLimitedMS", DeltaSndbufLimitedMS |-> "SndbufLimitedMS"]

PrevOf ==
  [PrevCWnd |-> "CWnd", PrevSendQ |-> "SendQ", PrevRecvQ |-> "RecvQ", PrevUnacked |-> "Unacked",
   PrevDeltaBytesReceived |-> "DeltaBytesReceived", PrevDeltaRwndLimitedMS |-> "DeltaRwndLimitedMS",
   PrevDeltaSndbufLimitedMS |-> "DeltaSndbufLimitedMS"]

Grown(cur, prev) == IF Known(cur) /\ Known(prev) /\ cur >= prev THEN cur - prev ELSE None

(* SlotWindow: always several slots. *)
SlotWindow == Max({12000, 4 * PollIntervalMS})

SlotMinBytes == 10000

(* The slots from the first one on that began late enough. *)
SlotsSince(slots, cut) ==
  SubSeq(slots, Min({i \in DOMAIN slots : slots[i].start >= cut} \cup {Len(slots) + 1}), Len(slots))

(* Mutant: a trickle counts like a transfer. *)
AdvanceSlotsAny(slots, bytes, part, from, to) == SlotsSince(Append(slots, part), to - SlotWindow)

(* The slots of the previous poll, with this one's part when it moved      *)
(* enough, less those that began too long ago.                             *)
AdvanceSlots(slots, bytes, part, from, to) ==
  LET last    == slots[Len(slots)]
      moved   == bytes >= SlotMinBytes
      open    == slots # <<>> /\ ~SlotFull(last)
      fresh   == [part EXCEPT !.start = from]
      merged  == [f \in DOMAIN part |->
                    CASE f = "start" -> last.start
                      [] f = "end"   -> to
                      [] f \in {"queue", "rtts"} -> last[f] \o part[f]
                      [] OTHER -> last[f] + part[f]]
      longer  == CASE ~moved         -> slots
                   [] moved /\ ~open -> Append(slots, fresh)
                   [] moved /\ open  -> [slots EXCEPT ![Len(slots)] = merged]
  IN  SlotsSince(longer, to - SlotWindow)

AdvanceSendSlots(c, prev, from, to) ==
  IF Known(c.DeltaBytesSent) /\ Known(c.DeltaBytesRetrans)
    THEN AdvanceSlots(prev.SendSlots, c.DeltaBytesSent,
           [start |-> from, end |-> to, sent |-> c.DeltaBytesSent, retrans |-> c.DeltaBytesRetrans,
            reord |-> Deref(c.DeltaReordSeen),
            queue |-> IF Known(c.RTT) /\ Known(c.MinRTT) THEN <<c.RTT - c.MinRTT>> ELSE <<>>], from, to)
    ELSE <<>>

AdvanceRecvSlots(c, prev, from, to) ==
  IF Known(c.DeltaBytesReceived) /\ Known(c.DeltaDataSegsIn) /\ Known(c.DeltaRcvOOOPack)
    THEN AdvanceSlots(prev.RecvSlots, c.DeltaBytesReceived,
           [start |-> from, end |-> to, segs |-> c.DeltaDataSegsIn, ooo |-> c.DeltaRcvOOOPack,
            rtts |-> IF c.Timestamps /\ Known(c.RcvRTT) THEN <<c.RcvRTT>> ELSE <<>>], from, to)
    ELSE <<>>

(* computeDeltas.  A socket lives as long as its port here: what becomes   *)
(* of a port taken by another socket is module Buffer's.                   *)
ComputeDeltas(c, prev, from, to) ==
  LET d == [f \in DOMAIN c |->
              CASE f \in DOMAIN DeltaOf -> Grown(c[DeltaOf[f]], prev[DeltaOf[f]])
                [] f \in DOMAIN PrevOf  -> prev[PrevOf[f]]
                [] OTHER -> c[f]]
  IN  [d EXCEPT !.SendSlots = AdvanceSendSlots(d, prev, from, to), !.RecvSlots = AdvanceRecvSlots(d, prev, from, to)]

-----------------------------------------------------------------------------
(* Paths: what the connections to one peer know together.                  *)

SamePeer(cs, c) == {d \in cs : d.PeerAddr = c.PeerAddr}

WithPathMinRTT(cs) ==
  {LET known == {d.MinRTT : d \in {d \in SamePeer(cs, c) : Above(d.MinRTT, 0)}}
   IN  [c EXCEPT !.PathMinRTT = IF known = {} THEN None ELSE Min(known)] : c \in cs}

(* Weights are bytes or segments over the samples of a slot, times 60 so   *)
(* that up to six samples divide them.                                     *)
WeightOf(samples) == SumFunction([x \in samples |-> x.weight])

(* weightedQuantile: the least sample with more than num/den of the weight *)
(* at or below it.                                                         *)
WeightedQuantile(samples, num, den) ==
  LET total == WeightOf(samples)
  IN  IF total = 0 THEN None
      ELSE Min({x.value : x \in {x \in samples :
                  den * WeightOf({y \in samples : y.value <= x.value}) > num * total}})

(* The samples f of the slots of several connections; `of` tells equal     *)
(* ones apart.                                                             *)
SamplesOf(cs, slots, f, amount, base) ==
  UNION {UNION {{[of |-> <<c.LocalPort, i, j>>, value |-> c[slots][i][f][j] - base,
                  weight |-> (60 * c[slots][i][amount]) \div Len(c[slots][i][f])] :
                   j \in DOMAIN c[slots][i][f]} : i \in DOMAIN c[slots]} : c \in cs}

(* setPathQueues *)
WithPathQueues(cs) ==
  {[c EXCEPT
      !.PathSendQueueMS = WeightedQuantile(SamplesOf(SamePeer(cs, c), "SendSlots", "queue", "sent", 0), 1, 2),
      !.PathRecvQueueMS = IF c.PathMinRTT = None THEN None
                          ELSE WeightedQuantile(SamplesOf(SamePeer(cs, c), "RecvSlots", "rtts", "segs", c.PathMinRTT), 3, 4)] :
     c \in cs}

(* AddSnapshotAt: deltas against the last snapshot, paths, then signals. *)
AddSnapshotAt(cs, from, to) ==
  LET last(c) == {p \in conns : p.LocalPort = c.LocalPort}
      deltas  == {IF last(c) = {} THEN c ELSE ComputeDeltas(c, CHOOSE p \in last(c) : TRUE, from, to) : c \in cs}
  IN  Classified(WithPathQueues(WithPathMinRTT(deltas)))

-----------------------------------------------------------------------------
(* Polls.                                                                  *)

NoCounts == [sent |-> 0, retrans |-> 0, data |-> 0, ooo |-> 0, drops |-> 0, want |-> 0, backlog |-> 0]

Init ==
  /\ scene \in Scenes
  /\ now = 0 /\ polls = 0
  /\ kernel = [s \in Sockets |-> NoCounts]
  /\ conns = {} /\ snapAt = None
  /\ sysCur = None /\ sysPrev = None
  /\ log = <<>>

(* The sockets went on for a while, then Collect and Ingest: the host      *)
(* counters roll even when ss fails, and the last snapshot stays.          *)
Poll(gap, growth, a) ==
  LET counts == [s \in Sockets |-> [f \in DOMAIN NoCounts |-> kernel[s][f] + growth[s][f]]]
      rows   == {Row(s, counts[s], growth[s]) : s \in Sockets}
      cs     == FillOmittedZeros(Listed(rows, a))
      cur    == IF a.sys THEN HostCounters(counts) ELSE sysCur
      prev   == IF a.sys THEN sysCur ELSE sysPrev
  IN  /\ polls < scene.polls
      /\ polls' = polls + 1
      /\ now' = now + gap
      /\ kernel' = counts
      /\ sysCur' = cur /\ sysPrev' = prev
      /\ IF Failed(rows, a)
           THEN UNCHANGED <<conns, snapAt, log>>
           ELSE /\ conns' = AddSnapshotAt(IF a.sys /\ prev # None THEN WithHostDrops(cs, cur, prev) ELSE cs,
                                          snapAt, now')
                /\ snapAt' = now'
                /\ log' = Append(log, [at |-> now', kernel |-> counts, found |-> growth,
                                     listed |-> {c.LocalPort : c \in cs}, sys |-> a.sys])
      /\ UNCHANGED scene

Next ==
  \E gap \in scene.gaps, a \in scene.answers :
    \E growth \in {g \in [Sockets -> UNION {scene.growth[s] : s \in Sockets}] : \A s \in Sockets : g[s] \in scene.growth[s]} :
      Poll(gap, growth, a)

Spec == Init /\ [][Next]_vars

-----------------------------------------------------------------------------
(* What the signals must say of what happened.                             *)

Last == Len(log)

(* Growth of a counter of the kernel up to the k-th stored poll. *)
Did(k, s, f) == log[k].kernel[s][f] - log[k - 1].kernel[s][f]

Judged == {c \in conns : Last > 1 /\ c.LocalPort \in log[Last - 1].listed}
JudgedTcp == {c \in Judged : c.Protocol = "tcp"}

Warned(c, type) == \E x \in c.Signals : x.type = type /\ x.sev > 0

(* Some socket of the poll had this counter off zero, so ss printed it. *)
Printed(k, f) == scene.counters /\ \E s \in log[k].listed \ UdpSockets : log[k].kernel[s][f] > 0

(* A delta is what the counter grew by between the two snapshots, or       *)
(* unknown; and it is known as soon as the counter's group was printed for *)
(* some socket at both polls, though the socket's own counter was zero and *)
(* left out.  A kernel that has no such counter never seems to say zero.   *)
DeltasAreGrowth ==
  LET group == [DeltaBytesSent |-> "sent", DeltaBytesRetrans |-> "sent", DeltaDataSegsIn |-> "data"]
      own   == [DeltaBytesSent |-> "sent", DeltaBytesRetrans |-> "retrans", DeltaDataSegsIn |-> "data"]
  IN  \A c \in JudgedTcp, f \in DOMAIN group :
        /\ c[f] \in {None, Did(Last, c.LocalPort, own[f])}
        /\ Printed(Last - 1, group[f]) /\ Printed(Last, group[f]) => c[f] # None
        /\ ~scene.counters => c[f] = None

(* The polls whose data the slots may hold. *)
Recent == {k \in 2 .. Last : log[k - 1].at >= snapAt - SlotWindow}

(* Loss is steady before it is called the path's: TCP overshooting a link  *)
(* once, or losing packets while its own queue builds, is no fault.        *)
LossIsSteady ==
  \A c \in JudgedTcp :
    LET in(s, f) == {k \in Recent : Did(k, s, f) > 0}
        short == {k \in Recent : log[k].found[c.LocalPort].queue < 4}
    IN  /\ Warned(c, "PATH_LOSS") => /\ Cardinality(in(c.LocalPort, "retrans")) >= 2
                                     /\ Cardinality(in(c.LocalPort, "sent") \cap short) >= 3
        /\ Warned(c, "RX_LOSS") => /\ Cardinality(in(c.LocalPort, "ooo")) >= 2
                                   /\ Cardinality(in(c.LocalPort, "data") \cap short) >= 3

(* The polls the loss signals judge, by README.md: "over the last ~12 s    *)
(* (or four polls if slower)".                                             *)
Latest == {k \in 2 .. Last : k > Last - SlotMinCount}
Window == Recent \cup Latest

(* The poll came no more than a tenth of the interval late. *)
OnTime(k) == 10 * (log[k].at - log[k - 1].at) <= 11 * PollIntervalMS

(* Enough polls moved enough of f, half of them lost some, and the share   *)
(* of one in `least` was lost of it all.                                   *)
LostSteadily(s, f, unit, loss, least) ==
  LET bulk     == {k \in Window : unit * Did(k, s, f) >= SlotMinBytes}
      lossy    == {k \in bulk : Did(k, s, loss) > 0}
      total(g) == SumFunction([k \in bulk |-> Did(k, s, g)])
  IN  /\ Cardinality(bulk) >= SlotMinCount
      /\ 2 * Cardinality(lossy) >= Cardinality(bulk)
      /\ least * total(loss) >= total(f)

(* Of a path that held no queue, the loss signals tell just what README.md *)
(* documents, judged by the kernel's counters poll by poll: the slots lose *)
(* no poll of the window and count none twice, though polls 2 s apart are  *)
(* often 1.99 s apart (model.SlotFull), and zeros that ss left out, idle   *)
(* spells and other sockets of the path change nothing.                    *)
LossIsToldAsDocumented ==
  LET quiet == /\ \A k \in Window, s \in Sockets : log[k].found[s].queue < 4
               /\ \A k \in Latest : OnTime(k)
               /\ \A gap \in scene.gaps : gap >= SlotMinMS
      seen(s, f) == \A k \in Window : Printed(k - 1, f) /\ s \in log[k - 1].listed
  IN  \A c \in JudgedTcp : quiet =>
        LET s == c.LocalPort
        IN  /\ seen(s, "sent") => (Warned(c, "PATH_LOSS") <=> LostSteadily(s, "sent", 1, "retrans", 2000))
            /\ seen(s, "data") => (Warned(c, "RX_LOSS") <=> LostSteadily(s, "data", SegBytes, "ooo", 50))

(* The slots hold what was sent since they began, no more and no less but  *)
(* for trickles; and when polls are a slot apart they begin no later than  *)
(* the window does.                                                        *)
SlotsHoldTheWindow ==
  \A c \in JudgedTcp :
    LET bulk == {k \in 2 .. Last : Did(k, c.LocalPort, "sent") >= SlotMinBytes}
        held(from) == SumFunction([k \in {k \in bulk : log[k - 1].at >= from} |-> Did(k, c.LocalPort, "sent")])
    IN  /\ c.SendSlots # <<>> => SumOf(c.SendSlots, "sent") = held(c.SendSlots[1].start)
        /\ \A k \in bulk \cap Recent :
             (\A j \in k .. Last : Printed(j - 1, "sent") /\ c.LocalPort \in log[j - 1].listed)
             /\ (\A gap \in scene.gaps : gap >= SlotMinMS)
             => c.SendSlots # <<>> /\ c.SendSlots[1].start <= log[k - 1].at

(* A TCP socket that lost data for want of buffer since the last snapshot, *)
(* and still shows why, has a DROPS warning: it is never excused as by     *)
(* design (model.Connection.HostBufferDrops, classifier.ownDiscards).      *)
BufferDropsAreBlamed ==
  \A c \in JudgedTcp :
    /\ Did(Last, c.LocalPort, "want") > 0
    /\ Did(Last, c.LocalPort, "data") > 0 /\ Did(Last, c.LocalPort, "ooo") = 0
    /\ \/ log[Last].found[c.LocalPort].recvq * 4 >= c.SkmemRB
       \/ Did(Last, c.LocalPort, "backlog") > 0
    => Warned(c, "DROPS")

(* And one that dropped what TCP discards by design has none, while /proc  *)
(* was read at both polls and no socket of the host lost data.             *)
DesignedDiscardsAreInfo ==
  \A c \in JudgedTcp :
    /\ log[Last - 1].sys /\ log[Last].sys /\ sysPrev = HostCounters(log[Last - 1].kernel)
    /\ sysCur.want = sysPrev.want
    => ~Warned(c, "DROPS")

=============================================================================
