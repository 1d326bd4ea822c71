------------------------------- MODULE Rules -------------------------------
(***************************************************************************)
(* findings/rules.go: from the classified sockets and the host counters of *)
(* a poll to its findings.  A rule is an operator that gives the findings  *)
(* it adds; titles, evidence and advice are left out.                      *)
(*                                                                         *)
(* A finding's ID is its rule and its key.  `conns` are the sockets it is  *)
(* about, and `shows` the selections of its filter expression in the Live  *)
(* tab: one set of sockets, or none when it has no filter.  Of a socket's  *)
(* process only the pid is kept (ss prints a name with it).  A poll is     *)
(* scanned socket by socket, then analysed.                                *)
(***************************************************************************)
EXTENDS Classifier

CONSTANTS
  Records,         \* the sockets ss may list
  HostReads,       \* what the host counters may tell: see HostReadType
  MaxSockets,      \* bound on the sockets of a poll
  ManyPeers,       \* this many peers at once are this host's problem,
  PeerShare,       \* when they are one in PeerShare of all peers or more
  PortLo, PortHi   \* net.ipv4.ip_local_port_range

(* Growth over the poll, but for `retrans`, the percentage over the slots  *)
(* of SysSlots, `steady` of which retransmitted, and `level`, TCP's memory *)
(* against tcp_mem.                                                        *)
HostReadType ==
  [overflows : BOOLEAN, refused : BOOLEAN, cookies : BOOLEAN, udpErrors : BOOLEAN,
   discarded : BOOLEAN, level : 0 .. 2, retrans : Nat, steady : Nat, slots : Nat,
   ssFilter : BOOLEAN]

ASSUME RulesAssumption ==
  /\ HostReads \subseteq HostReadType
  /\ \A c \in Records :
       /\ {"Protocol", "State", "LocalAddr", "LocalPort", "PeerAddr", "PeerPort", "Signals"} \subseteq DOMAIN c
       /\ c.Signals = {}
  /\ {MaxSockets, ManyPeers, PeerShare, PortLo, PortHi} \subseteq Nat

VARIABLES
  conns,           \* the sockets of the poll so far; classified once analysed
  sys,             \* the host counters it was analysed with; None before
  report           \* the findings

vars == <<conns, sys, report>>

-----------------------------------------------------------------------------
(* Groups of sockets and what a rule says of them.                         *)

(* Sockets that carry one of the types at warn or worse. *)
Carrying(cs, types) == {c \in cs : \E s \in c.Signals : s.type \in types /\ s.sev > 0}

(* groupBySignal, once the sockets of other rules are left out. *)
Groups(cs, Key(_)) == {{d \in cs : Key(d) = Key(c)} : c \in cs}

Worst(cs, types) == Max({0} \cup {s.sev : s \in {s \in UNION {c.Signals : c \in cs} : s.type \in types}})

ById(rule, key, sev, cs, shows) ==
  [rule |-> rule, key |-> key, sev |-> sev, conns |-> cs, count |-> Cardinality(cs), shows |-> {shows},
   others |-> 0]

(* A finding about the whole host, from its counters. *)
OfHost(rule, sev, filter) == [ById(rule, None, sev, {}, {}) EXCEPT !.shows = filter]

(* What the terms of a filter expression select. *)
WithSignal(cs, types) == {c \in cs : Signalled(c.Signals, types)}
OfProc(cs, pid) == IF Known(pid) THEN {c \in cs : c.PID = pid} ELSE cs
ToPeer(cs, addr) == {c \in cs : c.PeerAddr = addr}
ToEndpoint(cs, e) == {c \in cs : Endpoint(c) = e}

(* localPeer: the other end of a connection within this host. *)
LocalPeers(cs, c) ==
  {d \in cs : /\ d.Protocol = "tcp"
              /\ Endpoint(d) = <<c.LocalAddr, c.LocalPort>>
              /\ <<d.LocalAddr, d.LocalPort>> = Endpoint(c)}

Proc(c) == c.PID
Peer(c) == c.PeerAddr
The(g) == CHOOSE c \in g : TRUE

(* A rule that groups the carriers of one type by Key and says nothing     *)
(* else of them.                                                           *)
Plain(cs, rule, type, Key(_), Shows(_)) ==
  {ById(rule, Key(The(g)), Worst(g, {type}), g, Shows(The(g))) : g \in Groups(Carrying(cs, {type}), Key)}

-----------------------------------------------------------------------------
(* Readers, listeners and memory: who is behind dropped data.              *)

ZeroWindow(cs) ==
  Plain(cs, "zero_window", "ZERO_WIN", LAMBDA c : <<Proc(c), Endpoint(c)>>,
        LAMBDA c : WithSignal(OfProc(ToEndpoint(cs, Endpoint(c)), c.PID), {"ZERO_WIN"}))

(* Mutant: drops of listeners and of refused memory are the reader's too. *)
SlowReadersAny(cs) == Carrying(cs, {"RCV_Q", "DROPS"})

(* The sockets of ruleRecvBacklog: the others belong to ruleListenQueue    *)
(* and ruleRcvMemPressure.                                                 *)
SlowReaders(cs) ==
  {c \in Carrying(cs, {"RCV_Q", "DROPS"}) : c.State # "LISTEN" /\ ~MemoryRefusedDrops(c)}

Dropped(cs) == \E c \in cs : Above(c.DeltaSkmemD, 0)

(* Mutant: the filter also leaves out what was dropped as by design. *)
BacklogShownNarrow(cs, c) ==
  {d \in OfProc(cs, c.PID) : /\ d.State # "LISTEN"
                             /\ \E s \in d.Signals : s.type = "DROPS" /\ s.sev > 0}

(* "not state=LISTEN", "(signal=RCV_Q or signal=DROPS:warn)" and           *)
(* "not signal=DROPS:mem", beside the process.                             *)
BacklogShown(cs, c) ==
  {d \in OfProc(cs, c.PID) :
     /\ d.State # "LISTEN"
     /\ \/ Signalled(d.Signals, {"RCV_Q"})
        \/ \E s \in d.Signals : s.type = "DROPS" /\ s.sev > 0
     /\ ~MemoryRefusedDrops(d)}

RecvBacklog(cs) ==
  {ById("recv_backlog", Proc(The(g)),
        IF Dropped(g) THEN 2 ELSE Worst(g, {"RCV_Q", "DROPS"}),
        g, BacklogShown(cs, The(g))) : g \in Groups(SlowReaders(cs), Proc)}

Busy(cs) == {c \in Carrying(cs, {"LISTEN_Q", "DROPS"}) : c.State = "LISTEN"}
Listener(c) == <<c.LocalAddr, c.LocalPort>>

(* Drops at a listener that is not full are strays, unless the host says   *)
(* that connections were refused.                                          *)
ListenQueue(cs, h) ==
  {ById("listen_queue", Listener(The(g)), IF Dropped(g) THEN 2 ELSE Worst(g, {"LISTEN_Q", "DROPS"}),
        g, {c \in cs : c.State = "LISTEN" /\ c.LocalPort = The(g).LocalPort}) :
     g \in {g \in Groups(Busy(cs), Listener) :
              WithSignal(g, {"LISTEN_Q"}) # {} \/ h.overflows \/ h.refused}}

SynStall(cs) ==
  Plain(cs, "syn_stall", "SYN_STALL", Endpoint,
        LAMBDA c : {d \in ToEndpoint(cs, Endpoint(c)) : d.State = "SYN-SENT"})

-----------------------------------------------------------------------------
(* Loss: a peer's, this host's, or one flow's.                             *)

LossSignals == {"PATH_LOSS", "RTO", "NO_ACK"}

Stalled(cs) == {c \in Carrying(cs, LossSignals) : ~HungAfterHandshake(c)}
Hung(cs) == {c \in Carrying(cs, {"RTO", "NO_ACK"}) : HungAfterHandshake(c)}

PeersOf(cs) == {c.PeerAddr : c \in cs}
Established(cs) == {c \in cs : c.State = "ESTAB"}

(* manyPeers: n peers are too many to blame each of them. *)
TooMany(cs, n) == n >= ManyPeers /\ n * PeerShare >= Cardinality(PeersOf(Established(cs)))

(* symptomPeers: the blamed ones, and those with the symptom only. *)
SymptomPeers(blamed, symptomatic) == Cardinality(PeersOf(blamed) \cup PeersOf(symptomatic))

(* The sockets of the same path that had data acknowledged, when all of g  *)
(* is stuck on one segment for 3 s (selectiveStall).                       *)
WorkingBeside(cs, g) ==
  IF \A c \in g : Deref(c.TimerRetrans) >= 3 /\ Known(c.LastAck) /\ c.LastAck >= 3000
    THEN {d \in Established(cs) \ g :
            /\ \E c \in g : d.PeerAddr = c.PeerAddr /\ d.LocalAddr = c.LocalAddr
            /\ Above(d.DeltaBytesAcked, 0)}
    ELSE {}

LossShown(cs, c) == WithSignal(ToPeer(cs, c.PeerAddr), LossSignals)

(* The finding of selectiveStall has the ID of the plain one, and says how *)
(* many others get through.                                                *)
LossToward(cs, g) ==
  [ById("loss", Peer(The(g)), Worst(g, LossSignals), g, LossShown(cs, The(g)))
     EXCEPT !.others = Cardinality(WorkingBeside(cs, g))]

(* Mutant: the many peers are each blamed as well. *)
PathLossBoth(cs) ==
  LET blamed == Stalled(cs)
  IN  (IF blamed # {} /\ TooMany(cs, SymptomPeers(blamed, {c \in Established(cs) : SteadyRetrans(c)}))
         THEN {ById("loss_local", None, Worst(blamed, LossSignals), blamed, WithSignal(cs, LossSignals))}
         ELSE {})
      \cup {LossToward(cs, g) : g \in Groups(blamed, Peer)}

PathLossFindings(cs) ==
  LET blamed == Stalled(cs)
  IN  IF blamed # {} /\ TooMany(cs, SymptomPeers(blamed, {c \in Established(cs) : SteadyRetrans(c)}))
        THEN {ById("loss_local", None, Worst(blamed, LossSignals), blamed, WithSignal(cs, LossSignals))}
        ELSE {LossToward(cs, g) : g \in Groups(blamed, Peer)}

PMTUBlackHole(cs) ==
  LET blamed == Hung(cs)
      types  == {"RTO", "NO_ACK"}
  IN  IF blamed # {} /\ TooMany(cs, Cardinality(PeersOf(blamed)))
        THEN {ById("pmtu_blackhole_local", None, Worst(blamed, types), blamed, WithSignal(cs, types))}
        ELSE {ById("pmtu_blackhole", Peer(The(g)), Worst(g, types), g,
                   WithSignal(ToPeer(cs, Peer(The(g))), types)) : g \in Groups(blamed, Peer)}

InboundLossFindings(cs) ==
  LET blamed == Carrying(cs, {"RX_LOSS"})
  IN  IF blamed # {} /\ TooMany(cs, SymptomPeers(blamed, {c \in Established(cs) : InboundGaps(c)}))
        THEN {ById("rx_loss_local", None, Worst(blamed, {"RX_LOSS"}), blamed, WithSignal(cs, {"RX_LOSS"}))}
        ELSE Plain(cs, "rx_loss", "RX_LOSS", Peer, LAMBDA c : WithSignal(ToPeer(cs, Peer(c)), {"RX_LOSS"}))

-----------------------------------------------------------------------------
(* Paths, windows and buffers, and sockets left open.                      *)

ByPeer(cs, rule, type) == Plain(cs, rule, type, Peer, LAMBDA c : WithSignal(ToPeer(cs, Peer(c)), {type}))
ByProc(cs, rule, type) == Plain(cs, rule, type, Proc, LAMBDA c : WithSignal(OfProc(cs, c.PID), {type}))

(* ruleReordering, rulePMTU, ruleRTTInflation *)
PathRules(cs) == ByPeer(cs, "reorder", "REORDER") \cup ByPeer(cs, "pmtu", "PMTU") \cup ByPeer(cs, "rtt", "RTT_SPIKE")

(* Mutant: the sender is blamed even when its receiver is. *)
WindowBoundAll(cs) == Carrying(cs, {"RWND_LIM"})

(* ruleRwndLimited leaves out the senders whose receiver, on this host,    *)
(* has a finding of its own.                                               *)
WindowBound(cs) ==
  {c \in Carrying(cs, {"RWND_LIM"}) : \A d \in LocalPeers(cs, c) : ~Signalled(d.Signals, {"RCVBUF_LIM"})}

RwndLimited(cs) ==
  {ById("rwnd", Peer(The(g)), Worst(g, {"RWND_LIM"}), g, WithSignal(ToPeer(cs, Peer(The(g))), {"RWND_LIM"})) :
     g \in Groups(WindowBound(cs), Peer)}

(* ruleSndbufLimited, ruleRcvbufLimited *)
BufferRules(cs) == ByProc(cs, "sndbuf", "SNDBUF_LIM") \cup ByProc(cs, "rcvbuf", "RCVBUF_LIM")

CloseWaitLeak(cs) ==
  Plain(cs, "close_wait", "CW_LEAK", Proc, LAMBDA c : {d \in OfProc(cs, c.PID) : d.State = "CLOSE-WAIT"})

TimeWaitStorm(cs) ==
  Plain(cs, "time_wait", "TW_STORM", Endpoint, LAMBDA c : {d \in ToEndpoint(cs, Endpoint(c)) : d.State = "TIME-WAIT"})

(* PortsInUse, of TCP and UDP together. *)
PortsInUse(cs) == {c.LocalPort : c \in cs} \cap (PortLo .. PortHi)

EphemeralPorts(cs) ==
  LET used == Cardinality(PortsInUse(cs))
      size == PortHi - PortLo + 1
      sev  == Tier(100 * used, 70 * size, 90 * size)
  IN  IF PortHi > PortLo /\ sev > 0
        THEN {[OfHost("ephemeral_ports", sev, {}) EXCEPT !.count = used]} ELSE {}

SocketRules(cs, h) ==
  ZeroWindow(cs) \cup RecvBacklog(cs) \cup ListenQueue(cs, h) \cup SynStall(cs)
  \cup PMTUBlackHole(cs) \cup PathLossFindings(cs) \cup InboundLossFindings(cs)
  \cup PathRules(cs) \cup RwndLimited(cs) \cup BufferRules(cs)
  \cup CloseWaitLeak(cs) \cup TimeWaitStorm(cs) \cup EphemeralPorts(cs)

-----------------------------------------------------------------------------
(* Host counters, told unless a finding about sockets has told them.       *)

Found(findings, rules) == \E f \in findings : f.rule \in rules

ListenOverflowHost(found, h) ==
  IF (h.overflows \/ h.refused) /\ ~Found(found, {"listen_queue"})
    THEN {OfHost("listen_overflow_host", 2, {})} ELSE {}

SynBacklog(cs, h) ==
  IF h.cookies
    THEN {OfHost("syn_backlog", 1, IF h.ssFilter THEN {} ELSE {{c \in cs : c.State = "SYN-RECV"}})} ELSE {}

(* udpBacklog: the findings the UDP counter folds into. *)
UdpBacklog(found) ==
  {f \in found : f.rule = "recv_backlog" /\ \E c \in f.conns : c.Protocol = "udp"}

UDPRcvbufHost(cs, found, h) ==
  IF h.udpErrors /\ UdpBacklog(found) = {}
    THEN {OfHost("udp_rcvbuf_host", 2, IF h.ssFilter THEN {} ELSE {{c \in cs : c.Protocol = "udp"}})} ELSE {}

(* Steady, over at least half of the slots, and not told by loss_local.    *)
RetransHost(found, h) ==
  LET sev == Tier(h.retrans, 2, 10)
  IN  IF h.slots > 0 /\ h.steady * 2 >= h.slots /\ sev > 0 /\ ~Found(found, {"loss_local"})
        THEN {OfHost("retrans_host", sev, {})} ELSE {}

(* ruleRcvMemPressure, and ruleRcvPrune when nothing shows that TCP is     *)
(* short of memory.                                                        *)
RcvMemPressure(cs, h) ==
  LET dropping == {c \in cs : MemoryRefusedDrops(c)}
  IN  IF h.level = 0 /\ dropping = {}
        THEN IF h.discarded THEN {OfHost("rcv_prune", 1, {})} ELSE {}
        ELSE {[ById("rcv_mem_pressure", None,
                    IF h.discarded \/ h.level = 2 \/ dropping # {} THEN 2 ELSE 1,
                    dropping, dropping) EXCEPT !.shows = IF dropping = {} THEN {} ELSE {dropping}]}

(* Mutant: the rules on the host's counters run before those on sockets.   *)
AnalyzeHostFirst(cs, h) ==
  LET ofHost == ListenOverflowHost({}, h) \cup SynBacklog(cs, h) \cup UDPRcvbufHost(cs, {}, h)
                \cup RetransHost({}, h)
  IN  ofHost \cup SocketRules(cs, h) \cup RcvMemPressure(cs, h)

(* Analyze: each rule over what the rules before it found, in the order of *)
(* `rules`; the rank is left out.  SocketRules stands for the rules that   *)
(* look at no finding.                                                     *)
Analyze(cs, h) ==
  LET sockets   == SocketRules(cs, h)
      listeners == sockets \cup ListenOverflowHost(sockets, h)
      halfOpen  == listeners \cup SynBacklog(cs, h)
      datagrams == halfOpen \cup UDPRcvbufHost(cs, halfOpen, h)
      segments  == datagrams \cup RetransHost(datagrams, h)
  IN  segments \cup RcvMemPressure(cs, h)

-----------------------------------------------------------------------------
(* Polls.                                                                  *)

(* Only sockets bound with SO_REUSEPORT share their addresses. *)
SameConnection(c, d) ==
  /\ c.Protocol = "tcp" /\ c.State # "LISTEN"
  /\ \A k \in {"Protocol", "LocalAddr", "LocalPort", "PeerAddr", "PeerPort"} : c[k] = d[k]

Init == conns = {} /\ sys = None /\ report = None

(* ss lists one more socket. *)
Scan(c) ==
  /\ report = None
  /\ Cardinality(conns) < MaxSockets
  /\ \A d \in conns : ~SameConnection(c, d)
  /\ conns' = conns \cup {c}
  /\ UNCHANGED <<sys, report>>

(* AddSnapshotAt's classification, then Analyze over it. *)
Ingest(h) ==
  /\ report = None
  /\ conns' = Classified(conns)
  /\ sys' = h
  /\ report' = Analyze(conns', h)

NextPoll ==
  /\ report # None
  /\ conns' = {} /\ sys' = None /\ report' = None

Next ==
  \/ \E c \in Records : Scan(c)
  \/ \E h \in HostReads : Ingest(h)
  \/ NextPoll

Spec == Init /\ [][Next]_vars

-----------------------------------------------------------------------------
(* What a report must be.                                                  *)

Analysed == report # None
Findings == IF Analysed THEN report ELSE {}
Naming(c, rules) == {f \in Findings : f.rule \in rules /\ c \in f.conns}
Exactly(n, s) == Cardinality(s) = n
Warned(c, types) == \E s \in c.Signals : s.type \in types /\ s.sev > 0

(* Enter on a finding shows its sockets: all of them are selected by its   *)
(* filter, and a finding that has sockets has a filter (findings.go, the   *)
(* comment of Filter).  Each rule words its grouping a second time as a    *)
(* filter expression.                                                      *)
FilterShowsGroup ==
  \A f \in Findings : f.conns # {} => \E cs \in f.shows : f.conns \subseteq cs

(* A socket that dropped for want of something is blamed in one place: the *)
(* reader, the listener or the host's memory.  Only a listener that is not *)
(* full, on a host that refused no connection, is blamed nowhere.          *)
DropsBlamedOnce ==
  \A c \in conns :
    Analysed /\ Warned(c, {"DROPS"}) =>
      \/ Exactly(1, Naming(c, {"recv_backlog", "listen_queue", "rcv_mem_pressure"}))
      \/ /\ c.State = "LISTEN" /\ ~Warned(c, {"LISTEN_Q"}) /\ ~sys.overflows /\ ~sys.refused
         /\ Exactly(0, Naming(c, {"recv_backlog", "listen_queue", "rcv_mem_pressure"}))

(* A stalled or lossy socket is blamed in one place too: its peer's path,  *)
(* this host, or a path MTU black hole.  A connection hung from its first  *)
(* data shows no steady loss without a stall of its own.                   *)
StallsBlamedOnce ==
  \A c \in conns :
    Analysed /\ Warned(c, LossSignals) /\ ~(HungAfterHandshake(c) /\ ~Warned(c, {"RTO", "NO_ACK"})) =>
      Exactly(1, Naming(c, {"loss", "loss_local", "pmtu_blackhole", "pmtu_blackhole_local"}))

(* What the sockets of a poll say by themselves of the host's counters.    *)
ListenersTell == \E c \in conns : c.State = "LISTEN" /\ Warned(c, {"LISTEN_Q", "DROPS"})
ReadersTell ==
  \E c \in conns : c.Protocol = "udp" /\ c.State # "LISTEN" /\ Warned(c, {"RCV_Q", "DROPS"})
Lossy == {c \in conns : Warned(c, LossSignals) \/ (c.State = "ESTAB" /\ SteadyRetrans(c))}
HostRetransmits == sys.slots > 0 /\ 2 * sys.steady >= sys.slots /\ sys.retrans >= 2

(* What the host counted is told of the host as a last resort, when no     *)
(* socket in view accounts for it, and then always (rules.go, the comment  *)
(* of `rules`): refused connections when no listener is full or dropped,   *)
(* datagrams when no UDP socket is backed up, whatever else its process    *)
(* does.  A steady rate of retransmissions is told once: of the host, or   *)
(* as loss toward many peers; and loss toward fewer peers than those, or   *)
(* by flows the loss rule does not blame, never hides it (ruleRetransHost: *)
(* "a single lossy peer doesn't explain a high rate").                     *)
HostFindingsAreLastResort ==
  Analysed =>
    /\ Found(report, {"listen_overflow_host"}) <=> (sys.overflows \/ sys.refused) /\ ~ListenersTell
    /\ Found(report, {"udp_rcvbuf_host"}) <=> sys.udpErrors /\ ~ReadersTell
    /\ HostRetransmits =>
         /\ Found(report, {"retrans_host"}) <=> ~Found(report, {"loss_local"})
         /\ Cardinality(PeersOf(Lossy)) < ManyPeers => Found(report, {"retrans_host"})

(* A flow between two sockets of this host that the window limits is told  *)
(* once: of the receiver when its buffer caps the flow, else of the sender.*)
LocalFlowToldOnce ==
  \A c \in conns :
    Analysed /\ Warned(c, {"RWND_LIM"}) =>
      Exactly(1, Naming(c, {"rwnd"}) \cup
                 {f \in Findings : f.rule = "rcvbuf" /\ LocalPeers(conns, c) \cap f.conns # {}})

=============================================================================
