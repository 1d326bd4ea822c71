---------------------------- MODULE Rules_proofs ----------------------------
(***************************************************************************)
(* Rules for any sockets that ss may list and any host counters.           *)
(***************************************************************************)
EXTENDS Rules, FiniteSetTheorems, TLAPS

(* The signals that tell in which state a socket is.                       *)
Faithful(cs) ==
  \A c \in cs :
    /\ Signalled(c.Signals, {"SYN_STALL"}) => c.State = "SYN-SENT"
    /\ Signalled(c.Signals, {"CW_LEAK"}) => c.State = "CLOSE-WAIT"
    /\ Signalled(c.Signals, {"TW_STORM"}) => c.State = "TIME-WAIT"

(* Findings of these rules, whose sockets their filter selects.            *)
Sound(findings, rules) ==
  \A f \in findings :
    /\ f.rule \in rules
    /\ f.conns # {} => \E shown \in f.shows : f.conns \subseteq shown

-----------------------------------------------------------------------------
(* Groups of sockets.                                                      *)

LEMMA TheIsIn ==
  ASSUME NEW g, NEW c \in g
  PROVE  The(g) \in g
BY DEF The

LEMMA CarryingIs ==
  ASSUME NEW cs, NEW types, NEW c \in Carrying(cs, types)
  PROVE  c \in cs /\ Signalled(c.Signals, types)
BY DEF Carrying, Signalled

LEMMA SoundById ==
  ASSUME NEW rule, NEW key, NEW sev, NEW cs, NEW shown, cs \subseteq shown
  PROVE  Sound({ById(rule, key, sev, cs, shown)}, {rule})
BY DEF Sound, ById

LEMMA PeerGroup ==
  ASSUME NEW cs, NEW types, NEW blamed \in SUBSET Carrying(cs, types), NEW c \in blamed,
         NEW g, g = {d \in blamed : Peer(d) = Peer(c)}
  PROVE  g \subseteq WithSignal(ToPeer(cs, The(g).PeerAddr), types)
<1>1. The(g) \in g
  BY TheIsIn
<1> SUFFICES ASSUME NEW d \in g
             PROVE  d \in WithSignal(ToPeer(cs, The(g).PeerAddr), types)
  OBVIOUS
<1>2. d \in cs /\ Signalled(d.Signals, types)
  BY CarryingIs
<1>3. d.PeerAddr = The(g).PeerAddr
  BY <1>1 DEF Peer
<1> QED BY <1>2, <1>3 DEF WithSignal, ToPeer

LEMMA ProcGroup ==
  ASSUME NEW cs, NEW blamed \in SUBSET cs, NEW c \in blamed,
         NEW g, g = {d \in blamed : Proc(d) = Proc(c)}
  PROVE  g \subseteq OfProc(cs, The(g).PID)
<1>1. The(g) \in g
  BY TheIsIn
<1>2. \A d \in g : d \in cs /\ d.PID = The(g).PID
  BY <1>1 DEF Proc
<1> QED BY <1>2 DEF OfProc

LEMMA EndpointGroup ==
  ASSUME NEW cs, NEW blamed \in SUBSET cs, NEW c \in blamed,
         NEW g, g = {d \in blamed : Endpoint(d) = Endpoint(c)}
  PROVE  g \subseteq ToEndpoint(cs, Endpoint(The(g)))
<1>1. The(g) \in g
  BY TheIsIn
<1> QED BY <1>1 DEF ToEndpoint

-----------------------------------------------------------------------------
(* Each rule about sockets is sound.                                       *)

LEMMA ByPeerSound ==
  ASSUME NEW cs, NEW rule, NEW type
  PROVE  Sound(ByPeer(cs, rule, type), {rule})
<1> SUFFICES ASSUME NEW f \in ByPeer(cs, rule, type)
             PROVE  Sound({f}, {rule})
  BY DEF Sound
<1> DEFINE blamed == Carrying(cs, {type})
<1>1. PICK g \in {{d \in blamed : Peer(d) = Peer(c)} : c \in blamed} :
        f = ById(rule, Peer(The(g)), Worst(g, {type}), g,
                 WithSignal(ToPeer(cs, Peer(The(g))), {type}))
  BY DEF ByPeer, Plain, Groups
<1>2. g \subseteq WithSignal(ToPeer(cs, Peer(The(g))), {type})
  BY <1>1, PeerGroup DEF Peer
<1> QED BY <1>1, <1>2, SoundById

LEMMA ByProcSound ==
  ASSUME NEW cs, NEW rule, NEW type
  PROVE  Sound(ByProc(cs, rule, type), {rule})
<1> SUFFICES ASSUME NEW f \in ByProc(cs, rule, type)
             PROVE  Sound({f}, {rule})
  BY DEF Sound
<1> DEFINE blamed == Carrying(cs, {type})
<1>1. PICK g \in {{d \in blamed : Proc(d) = Proc(c)} : c \in blamed} :
        f = ById(rule, Proc(The(g)), Worst(g, {type}), g,
                 WithSignal(OfProc(cs, The(g).PID), {type}))
  BY DEF ByProc, Plain, Groups
<1>2. g \subseteq OfProc(cs, The(g).PID)
  <2>1. blamed \in SUBSET cs
    BY CarryingIs
  <2> QED BY <1>1, <2>1, ProcGroup
<1>3. \A d \in g : Signalled(d.Signals, {type})
  BY <1>1, CarryingIs
<1>4. g \subseteq WithSignal(OfProc(cs, The(g).PID), {type})
  BY <1>2, <1>3 DEF WithSignal
<1> QED BY <1>1, <1>4, SoundById

LEMMA ZeroWindowSound ==
  ASSUME NEW cs
  PROVE  Sound(ZeroWindow(cs), {"zero_window"})
<1> SUFFICES ASSUME NEW f \in ZeroWindow(cs)
             PROVE  Sound({f}, {"zero_window"})
  BY DEF Sound
<1> DEFINE blamed == Carrying(cs, {"ZERO_WIN"})
           shown(g) == WithSignal(OfProc(ToEndpoint(cs, Endpoint(The(g))), The(g).PID), {"ZERO_WIN"})
<1>1. PICK g \in {{d \in blamed : <<Proc(d), Endpoint(d)>> = <<Proc(c), Endpoint(c)>>} : c \in blamed} :
        f = ById("zero_window", <<Proc(The(g)), Endpoint(The(g))>>, Worst(g, {"ZERO_WIN"}), g, shown(g))
  BY DEF ZeroWindow, Plain, Groups
<1>2. The(g) \in g
  BY <1>1, TheIsIn
<1>3. ASSUME NEW d \in g
      PROVE  d \in shown(g)
  <2>1. d \in cs /\ Signalled(d.Signals, {"ZERO_WIN"})
    BY <1>1, CarryingIs
  <2>2. d.PID = The(g).PID /\ Endpoint(d) = Endpoint(The(g))
    BY <1>1, <1>2 DEF Proc
  <2> QED BY <2>1, <2>2 DEF WithSignal, OfProc, ToEndpoint
<1> QED BY <1>1, <1>3, SoundById

LEMMA SynStallSound ==
  ASSUME NEW cs, Faithful(cs)
  PROVE  Sound(SynStall(cs), {"syn_stall"})
<1> SUFFICES ASSUME NEW f \in SynStall(cs)
             PROVE  Sound({f}, {"syn_stall"})
  BY DEF Sound
<1> DEFINE blamed == Carrying(cs, {"SYN_STALL"})
           shown(g) == {d \in ToEndpoint(cs, Endpoint(The(g))) : d.State = "SYN-SENT"}
<1>1. PICK g \in {{d \in blamed : Endpoint(d) = Endpoint(c)} : c \in blamed} :
        f = ById("syn_stall", Endpoint(The(g)), Worst(g, {"SYN_STALL"}), g, shown(g))
  BY DEF SynStall, Plain, Groups
<1>2. g \subseteq ToEndpoint(cs, Endpoint(The(g)))
  <2>1. blamed \in SUBSET cs
    BY CarryingIs
  <2> QED BY <1>1, <2>1, EndpointGroup
<1>3. \A d \in g : d.State = "SYN-SENT"
  BY <1>1, CarryingIs DEF Faithful
<1> QED BY <1>1, <1>2, <1>3, SoundById

LEMMA CloseWaitLeakSound ==
  ASSUME NEW cs, Faithful(cs)
  PROVE  Sound(CloseWaitLeak(cs), {"close_wait"})
<1> SUFFICES ASSUME NEW f \in CloseWaitLeak(cs)
             PROVE  Sound({f}, {"close_wait"})
  BY DEF Sound
<1> DEFINE blamed == Carrying(cs, {"CW_LEAK"})
           shown(g) == {d \in OfProc(cs, The(g).PID) : d.State = "CLOSE-WAIT"}
<1>1. PICK g \in {{d \in blamed : Proc(d) = Proc(c)} : c \in blamed} :
        f = ById("close_wait", Proc(The(g)), Worst(g, {"CW_LEAK"}), g, shown(g))
  BY DEF CloseWaitLeak, Plain, Groups
<1>2. g \subseteq OfProc(cs, The(g).PID)
  <2>1. blamed \in SUBSET cs
    BY CarryingIs
  <2> QED BY <1>1, <2>1, ProcGroup
<1>3. \A d \in g : d.State = "CLOSE-WAIT"
  BY <1>1, CarryingIs DEF Faithful
<1> QED BY <1>1, <1>2, <1>3, SoundById

LEMMA TimeWaitStormSound ==
  ASSUME NEW cs, Faithful(cs)
  PROVE  Sound(TimeWaitStorm(cs), {"time_wait"})
<1> SUFFICES ASSUME NEW f \in TimeWaitStorm(cs)
             PROVE  Sound({f}, {"time_wait"})
  BY DEF Sound
<1> DEFINE blamed == Carrying(cs, {"TW_STORM"})
           shown(g) == {d \in ToEndpoint(cs, Endpoint(The(g))) : d.State = "TIME-WAIT"}
<1>1. PICK g \in {{d \in blamed : Endpoint(d) = Endpoint(c)} : c \in blamed} :
        f = ById("time_wait", Endpoint(The(g)), Worst(g, {"TW_STORM"}), g, shown(g))
  BY DEF TimeWaitStorm, Plain, Groups
<1>2. g \subseteq ToEndpoint(cs, Endpoint(The(g)))
  <2>1. blamed \in SUBSET cs
    BY CarryingIs
  <2> QED BY <1>1, <2>1, EndpointGroup
<1>3. \A d \in g : d.State = "TIME-WAIT"
  BY <1>1, CarryingIs DEF Faithful
<1> QED BY <1>1, <1>2, <1>3, SoundById

LEMMA RecvBacklogSound ==
  ASSUME NEW cs
  PROVE  Sound(RecvBacklog(cs), {"recv_backlog"})
<1> SUFFICES ASSUME NEW f \in RecvBacklog(cs)
             PROVE  Sound({f}, {"recv_backlog"})
  BY DEF Sound
<1> DEFINE blamed == SlowReaders(cs)
<1>1. PICK g \in {{d \in blamed : Proc(d) = Proc(c)} : c \in blamed} :
        f = ById("recv_backlog", Proc(The(g)),
                 IF Dropped(g) THEN 2 ELSE Worst(g, {"RCV_Q", "DROPS"}), g, BacklogShown(cs, The(g)))
  BY DEF RecvBacklog, Groups
<1>2. blamed \subseteq Carrying(cs, {"RCV_Q", "DROPS"})
  BY DEF SlowReaders
<1>3. g \subseteq OfProc(cs, The(g).PID)
  <2>1. blamed \in SUBSET cs
    BY <1>2, CarryingIs
  <2> QED BY <1>1, <2>1, ProcGroup
<1>4. ASSUME NEW d \in g
      PROVE  /\ d.State # "LISTEN" /\ ~MemoryRefusedDrops(d)
             /\ \/ Signalled(d.Signals, {"RCV_Q"})
                \/ \E s \in d.Signals : s.type = "DROPS" /\ s.sev > 0
  <2>1. d \in blamed
    BY <1>1
  <2>2. d \in Carrying(cs, {"RCV_Q", "DROPS"}) /\ d.State # "LISTEN" /\ ~MemoryRefusedDrops(d)
    BY <2>1 DEF SlowReaders
  <2> QED BY <2>2 DEF Carrying, Signalled
<1>5. g \subseteq BacklogShown(cs, The(g))
  BY <1>3, <1>4 DEF BacklogShown
<1> QED BY <1>1, <1>5, SoundById

LEMMA ListenQueueSound ==
  ASSUME NEW cs, NEW h
  PROVE  Sound(ListenQueue(cs, h), {"listen_queue"})
<1> SUFFICES ASSUME NEW f \in ListenQueue(cs, h)
             PROVE  Sound({f}, {"listen_queue"})
  BY DEF Sound
<1> DEFINE blamed == Busy(cs)
           shown(g) == {c \in cs : c.State = "LISTEN" /\ c.LocalPort = The(g).LocalPort}
<1>1. PICK g \in {{d \in blamed : Listener(d) = Listener(c)} : c \in blamed} :
        f = ById("listen_queue", Listener(The(g)),
                 IF Dropped(g) THEN 2 ELSE Worst(g, {"LISTEN_Q", "DROPS"}), g, shown(g))
  BY DEF ListenQueue, Groups
<1>2. The(g) \in g
  BY <1>1, TheIsIn
<1>3. ASSUME NEW d \in g
      PROVE  d \in shown(g)
  <2>1. d \in cs /\ d.State = "LISTEN"
    BY <1>1, CarryingIs DEF Busy
  <2>2. d.LocalPort = The(g).LocalPort
    BY <1>1, <1>2 DEF Listener
  <2> QED BY <2>1, <2>2
<1> QED BY <1>1, <1>3, SoundById

LEMMA StalledCarries ==
  ASSUME NEW cs
  PROVE  /\ Stalled(cs) \in SUBSET Carrying(cs, LossSignals)
         /\ Hung(cs) \in SUBSET Carrying(cs, {"RTO", "NO_ACK"})
         /\ WindowBound(cs) \in SUBSET Carrying(cs, {"RWND_LIM"})
BY DEF Stalled, Hung, WindowBound

LEMMA AllShown ==
  ASSUME NEW cs, NEW types, NEW blamed \in SUBSET Carrying(cs, types)
  PROVE  blamed \subseteq WithSignal(cs, types)
BY CarryingIs DEF WithSignal

LEMMA PathLossSound ==
  ASSUME NEW cs
  PROVE  Sound(PathLossFindings(cs), {"loss", "loss_local"})
<1> SUFFICES ASSUME NEW f \in PathLossFindings(cs)
             PROVE  Sound({f}, {"loss"}) \/ Sound({f}, {"loss_local"})
  BY DEF Sound
<1> DEFINE blamed == Stalled(cs)
<1>1. CASE f = ById("loss_local", None, Worst(blamed, LossSignals), blamed, WithSignal(cs, LossSignals))
  BY <1>1, StalledCarries, AllShown, SoundById
<1>2. CASE f \in {LossToward(cs, g) : g \in {{d \in blamed : Peer(d) = Peer(c)} : c \in blamed}}
  <2>1. PICK g \in {{d \in blamed : Peer(d) = Peer(c)} : c \in blamed} : f = LossToward(cs, g)
    BY <1>2
  <2>2. g \subseteq LossShown(cs, The(g))
    BY <2>1, StalledCarries, PeerGroup DEF LossShown
  <2>3. f.rule = "loss" /\ f.conns = g /\ f.shows = {LossShown(cs, The(g))}
    BY <2>1 DEF LossToward, ById
  <2> QED BY <2>2, <2>3 DEF Sound
<1> QED BY <1>1, <1>2 DEF PathLossFindings, Groups

LEMMA PMTUBlackHoleSound ==
  ASSUME NEW cs
  PROVE  Sound(PMTUBlackHole(cs), {"pmtu_blackhole", "pmtu_blackhole_local"})
<1> SUFFICES ASSUME NEW f \in PMTUBlackHole(cs)
             PROVE  Sound({f}, {"pmtu_blackhole"}) \/ Sound({f}, {"pmtu_blackhole_local"})
  BY DEF Sound
<1> DEFINE blamed == Hung(cs)
           types == {"RTO", "NO_ACK"}
           toward(g) == ById("pmtu_blackhole", Peer(The(g)), Worst(g, types), g,
                             WithSignal(ToPeer(cs, Peer(The(g))), types))
<1>1. CASE f = ById("pmtu_blackhole_local", None, Worst(blamed, types), blamed, WithSignal(cs, types))
  BY <1>1, StalledCarries, AllShown, SoundById
<1>2. CASE f \in {toward(g) : g \in {{d \in blamed : Peer(d) = Peer(c)} : c \in blamed}}
  <2>1. PICK g \in {{d \in blamed : Peer(d) = Peer(c)} : c \in blamed} : f = toward(g)
    BY <1>2
  <2>2. g \subseteq WithSignal(ToPeer(cs, Peer(The(g))), types)
    BY <2>1, StalledCarries, PeerGroup DEF Peer
  <2> QED BY <2>1, <2>2, SoundById
<1> QED BY <1>1, <1>2 DEF PMTUBlackHole, Groups

LEMMA InboundLossSound ==
  ASSUME NEW cs
  PROVE  Sound(InboundLossFindings(cs), {"rx_loss", "rx_loss_local"})
<1> SUFFICES ASSUME NEW f \in InboundLossFindings(cs)
             PROVE  Sound({f}, {"rx_loss"}) \/ Sound({f}, {"rx_loss_local"})
  BY DEF Sound
<1> DEFINE blamed == Carrying(cs, {"RX_LOSS"})
<1>1. CASE f = ById("rx_loss_local", None, Worst(blamed, {"RX_LOSS"}), blamed, WithSignal(cs, {"RX_LOSS"}))
  BY <1>1, AllShown, SoundById
<1>2. CASE f \in ByPeer(cs, "rx_loss", "RX_LOSS")
  BY <1>2, ByPeerSound DEF Sound
<1> QED BY <1>1, <1>2 DEF InboundLossFindings, ByPeer

LEMMA RwndLimitedSound ==
  ASSUME NEW cs
  PROVE  Sound(RwndLimited(cs), {"rwnd"})
<1> SUFFICES ASSUME NEW f \in RwndLimited(cs)
             PROVE  Sound({f}, {"rwnd"})
  BY DEF Sound
<1> DEFINE blamed == WindowBound(cs)
           shown(g) == WithSignal(ToPeer(cs, Peer(The(g))), {"RWND_LIM"})
<1>1. PICK g \in {{d \in blamed : Peer(d) = Peer(c)} : c \in blamed} :
        f = ById("rwnd", Peer(The(g)), Worst(g, {"RWND_LIM"}), g, shown(g))
  BY DEF RwndLimited, Groups
<1>2. g \subseteq shown(g)
  BY <1>1, StalledCarries, PeerGroup DEF Peer
<1> QED BY <1>1, <1>2, SoundById

SocketRuleNames ==
  {"zero_window", "recv_backlog", "listen_queue", "syn_stall", "pmtu_blackhole", "pmtu_blackhole_local",
   "loss", "loss_local", "rx_loss", "rx_loss_local", "reorder", "pmtu", "rtt", "rwnd", "sndbuf", "rcvbuf",
   "close_wait", "time_wait", "ephemeral_ports"}

LEMMA SocketRulesSound ==
  ASSUME NEW cs, Faithful(cs), NEW h
  PROVE  Sound(SocketRules(cs, h), SocketRuleNames)
<1> DEFINE Ok(F) == Sound(F, SocketRuleNames)
<1>1. Ok(ZeroWindow(cs)) /\ Ok(RecvBacklog(cs)) /\ Ok(ListenQueue(cs, h)) /\ Ok(RwndLimited(cs))
  BY ZeroWindowSound, RecvBacklogSound, ListenQueueSound, RwndLimitedSound DEF Sound, SocketRuleNames
<1>2. Ok(SynStall(cs)) /\ Ok(CloseWaitLeak(cs)) /\ Ok(TimeWaitStorm(cs))
  BY SynStallSound, CloseWaitLeakSound, TimeWaitStormSound DEF Sound, SocketRuleNames
<1>3. Ok(PathLossFindings(cs)) /\ Ok(PMTUBlackHole(cs)) /\ Ok(InboundLossFindings(cs))
  BY PathLossSound, PMTUBlackHoleSound, InboundLossSound DEF Sound, SocketRuleNames
<1>4. Ok(PathRules(cs))
  BY ByPeerSound DEF PathRules, Sound, SocketRuleNames
<1>5. Ok(BufferRules(cs))
  BY ByProcSound DEF BufferRules, Sound, SocketRuleNames
<1>6. Ok(EphemeralPorts(cs))
  <2> SUFFICES ASSUME NEW f \in EphemeralPorts(cs)
               PROVE  f.rule = "ephemeral_ports" /\ f.conns = {}
    BY DEF Sound, SocketRuleNames
  <2> QED BY DEF EphemeralPorts, OfHost, ById
<1> QED BY <1>1, <1>2, <1>3, <1>4, <1>5, <1>6 DEF SocketRules, Sound

HostRuleNames(cs, found, h) ==
  /\ Sound(ListenOverflowHost(found, h), {"listen_overflow_host"})
  /\ Sound(SynBacklog(cs, h), {"syn_backlog"})
  /\ Sound(UDPRcvbufHost(cs, found, h), {"udp_rcvbuf_host"})
  /\ Sound(RetransHost(found, h), {"retrans_host"})
  /\ Sound(RcvMemPressure(cs, h), {"rcv_mem_pressure", "rcv_prune"})

LEMMA HostRulesSound ==
  ASSUME NEW cs, NEW found, NEW h
  PROVE  HostRuleNames(cs, found, h)
<1>1. Sound(ListenOverflowHost(found, h), {"listen_overflow_host"})
  BY DEF ListenOverflowHost, Sound, OfHost, ById
<1>2. Sound(SynBacklog(cs, h), {"syn_backlog"})
  BY DEF SynBacklog, Sound, OfHost, ById
<1>3. Sound(UDPRcvbufHost(cs, found, h), {"udp_rcvbuf_host"})
  BY DEF UDPRcvbufHost, Sound, OfHost, ById
<1>4. Sound(RetransHost(found, h), {"retrans_host"})
  BY DEF RetransHost, Sound, OfHost, ById
<1>5. Sound(RcvMemPressure(cs, h), {"rcv_mem_pressure", "rcv_prune"})
  <2> DEFINE dropping == {c \in cs : MemoryRefusedDrops(c)}
  <2> SUFFICES ASSUME NEW f \in RcvMemPressure(cs, h)
               PROVE  /\ f.rule \in {"rcv_mem_pressure", "rcv_prune"}
                      /\ f.conns # {} => f.shows = {f.conns}
    BY DEF Sound
  <2> HIDE DEF dropping
  <2> QED BY DEF RcvMemPressure, OfHost, ById
<1> QED BY <1>1, <1>2, <1>3, <1>4, <1>5 DEF HostRuleNames

(* No host rule hides another: what it looks for among the findings before *)
(* it is a finding about sockets.                                          *)
LEMMA AnalyzeIs ==
  ASSUME NEW cs, NEW h
  PROVE  LET found == SocketRules(cs, h)
         IN  Analyze(cs, h) = found \cup ListenOverflowHost(found, h) \cup SynBacklog(cs, h)
                              \cup UDPRcvbufHost(cs, found, h) \cup RetransHost(found, h) \cup RcvMemPressure(cs, h)
<1> DEFINE found     == SocketRules(cs, h)
           overflow  == ListenOverflowHost(found, h)
           backlog   == SynBacklog(cs, h)
           halfOpen  == found \cup overflow \cup backlog
           datagrams == halfOpen \cup UDPRcvbufHost(cs, halfOpen, h)
<1>1. (\A f \in overflow : f.rule = "listen_overflow_host") /\ (\A f \in backlog : f.rule = "syn_backlog")
  BY HostRulesSound DEF HostRuleNames, Sound
<1>2. \A f \in UDPRcvbufHost(cs, halfOpen, h) : f.rule = "udp_rcvbuf_host"
  BY HostRulesSound DEF HostRuleNames, Sound
<1>3. UDPRcvbufHost(cs, halfOpen, h) = UDPRcvbufHost(cs, found, h)
  <2>1. UdpBacklog(halfOpen) = UdpBacklog(found)
    <3> HIDE DEF found, overflow, backlog
    <3> QED BY <1>1 DEF UdpBacklog
  <2> QED BY <2>1 DEF UDPRcvbufHost
<1>4. RetransHost(datagrams, h) = RetransHost(found, h)
  <2>1. Found(datagrams, {"loss_local"}) <=> Found(found, {"loss_local"})
    <3> HIDE DEF found, overflow, backlog
    <3> QED BY <1>1, <1>2 DEF Found
  <2> QED BY <2>1 DEF RetransHost
<1>5. Analyze(cs, h) = datagrams \cup RetransHost(datagrams, h) \cup RcvMemPressure(cs, h)
  BY DEF Analyze
<1> QED BY <1>3, <1>4, <1>5

-----------------------------------------------------------------------------
(* What the classifier says of a socket's state.                           *)

OfTypes(signals, types) == \A s \in signals : s.type \in types

Others == {"DROPS", "RCV_Q", "SEND_Q", "IDLE", "LISTEN_Q", "RETRANS", "APP_LIM", "LOSS", "HI_RETRANS", "CWND_LIM",
           "CWND_DROP", "DSACK", "RTT_SPIKE", "RTO", "NO_ACK", "RWND_LIM", "SNDBUF_LIM", "RCVBUF_LIM", "ZERO_WIN",
           "PMTU", "PATH_LOSS", "RX_LOSS", "REORDER"}

LEMMA WhenIs == \A holds, type, sev : OfTypes(When(holds, type, sev), {type})
BY DEF OfTypes, When

LEMMA TieredIs == \A type, sev : OfTypes(Tiered(type, sev), {type})
BY WhenIs DEF Tiered

LEMMA OthersAre ==
  ASSUME NEW c
  PROVE  /\ OfTypes(DropSignal(c) \cup UdpSignals(c) \cup ListenSignals(c), Others)
         /\ OfTypes(InfoSignals(c) \cup StallSignals(c) \cup LimitSignals(c) \cup RttSignal(c), Others)
<1>1. OfTypes(DropSignal(c), Others)
  BY WhenIs DEF DropSignal, OfTypes, Others
<1>2. OfTypes(UdpSignals(c), Others)
  BY WhenIs, TieredIs DEF UdpSignals, OfTypes, Others
<1>3. OfTypes(ListenSignals(c), Others)
  BY TieredIs DEF ListenSignals, OfTypes, Others
<1>4. OfTypes(InfoSignals(c), Others)
  <2> SUFFICES ASSUME NEW s \in InfoSignals(c)
               PROVE  s.type \in {"RETRANS", "APP_LIM", "IDLE", "LOSS", "SEND_Q", "HI_RETRANS", "CWND_LIM",
                                  "CWND_DROP", "DSACK"}
    BY DEF OfTypes, Others
  <2>1. \A holds, type, sev : s \in When(holds, type, sev) => s.type = type
    BY WhenIs DEF OfTypes
  <2> QED BY <2>1, Zenon DEF InfoSignals
<1>5. OfTypes(StallSignals(c), Others)
  BY TieredIs DEF StallSignals, OfTypes, Others
<1>6. OfTypes(LimitSignals(c), Others)
  BY WhenIs, TieredIs DEF LimitSignals, OfTypes, Others
<1>7. OfTypes(RttSignal(c), Others)
  BY TieredIs DEF RttSignal, OfTypes, Others
<1> QED BY <1>1, <1>2, <1>3, <1>4, <1>5, <1>6, <1>7 DEF OfTypes

LEMMA ClassifyIs ==
  ASSUME NEW c, NEW s \in Classify(c)
  PROVE  s.type \in Others \/ (s.type = "SYN_STALL" /\ c.State = "SYN-SENT")
<1> DEFINE Q(t) == t.type \in Others \/ (t.type = "SYN_STALL" /\ c.State = "SYN-SENT")
<1>1. ASSUME NEW t \in TcpSignals(c)
      PROVE  Q(t)
  <2> DEFINE retrans == IF c.State = "SYN-SENT" /\ Known(c.TimerRetrans) THEN Tier(c.TimerRetrans, 2, 3) ELSE 0
  <2>1. CASE t \in Tiered("SYN_STALL", retrans)
    <3>1. t.type = "SYN_STALL" /\ retrans > 0
      BY <2>1 DEF Tiered, When
    <3> QED BY <3>1
  <2>2. CASE t \in InfoSignals(c) \cup StallSignals(c) \cup LimitSignals(c) \cup RttSignal(c)
    BY <2>2, OthersAre DEF OfTypes
  <2>3. CASE \/ t \in When(c.State = "ESTAB" /\ IsZeroWindow(c), "ZERO_WIN", 2)
             \/ t \in When(Above(c.PMTU, 0) /\ Above(c.AdvMSS, 0) /\ c.PMTU < c.AdvMSS + 40, "PMTU", 1)
             \/ t \in Tiered("RCV_Q", QueuePressure(c.RecvQ, c.PrevRecvQ, RecvPayload(c.SkmemRB)))
             \/ t \in Tiered("PATH_LOSS", PathLoss(c))
             \/ t \in Tiered("RX_LOSS", InboundLoss(c))
             \/ t \in Tiered("REORDER", Reordering(c))
    BY <2>3, WhenIs, TieredIs DEF OfTypes, Others
  <2> HIDE DEF Q, retrans
  <2> QED BY <2>1, <2>2, <2>3 DEF TcpSignals, retrans
<1>2. ASSUME NEW t \in DropSignal(c) \cup UdpSignals(c) \cup ListenSignals(c)
      PROVE  Q(t)
  BY <1>2, OthersAre DEF OfTypes
<1>3. ASSUME NEW t \in When(TRUE, "DROPS", 0)
      PROVE  Q(t)
  <2>1. t.type = "DROPS"
    BY <1>3, WhenIs DEF OfTypes
  <2> QED BY <2>1 DEF Others
<1> HIDE DEF Q
<1>4. Q(s)
  BY <1>1, <1>2, <1>3 DEF Classify
<1> QED BY <1>4 DEF Q

LEMMA AggregateIs ==
  ASSUME NEW c, NEW cs, NEW s \in AggregateSignals(c, cs)
  PROVE  \/ s.type = "CW_LEAK" /\ c.State = "CLOSE-WAIT"
         \/ s.type = "TW_STORM" /\ c.State = "TIME-WAIT"
<1>1. CASE c.State = "CLOSE-WAIT"
  BY <1>1, TieredIs DEF AggregateSignals, OfTypes
<1>2. CASE c.State = "TIME-WAIT"
  BY <1>2, TieredIs DEF AggregateSignals, OfTypes
<1> QED BY <1>1, <1>2 DEF AggregateSignals

AreSockets(cs) ==
  \A c \in cs :
    {"Protocol", "State", "LocalAddr", "LocalPort", "PeerAddr", "PeerPort", "Signals"} \subseteq DOMAIN c

(* Every signal of a classified poll is true of its socket's state. *)
LEMMA ClassifiedFaithful ==
  ASSUME NEW cs, AreSockets(cs)
  PROVE  Faithful(Classified(cs)) /\ AreSockets(Classified(cs))
<1>1. ASSUME NEW d \in Classified(cs)
      PROVE  \E c \in cs : /\ DOMAIN d = DOMAIN c /\ d.State = c.State
                           /\ d.Signals = Classify(c) \cup AggregateSignals(c, cs)
  BY <1>1 DEF Classified, AreSockets
<1>2. AreSockets(Classified(cs))
  BY <1>1 DEF AreSockets
<1>3. ASSUME NEW d \in Classified(cs), NEW s \in d.Signals
      PROVE  /\ s.type = "SYN_STALL" => d.State = "SYN-SENT"
             /\ s.type = "CW_LEAK" => d.State = "CLOSE-WAIT"
             /\ s.type = "TW_STORM" => d.State = "TIME-WAIT"
  <2>1. PICK c \in cs : d.State = c.State /\ d.Signals = Classify(c) \cup AggregateSignals(c, cs)
    BY <1>1
  <2>2. CASE s \in Classify(c)
    BY <2>1, <2>2, ClassifyIs DEF Others
  <2>3. CASE s \in AggregateSignals(c, cs)
    BY <2>1, <2>3, AggregateIs
  <2> QED BY <2>1, <2>2, <2>3
<1> QED BY <1>2, <1>3 DEF Faithful, Signalled

-----------------------------------------------------------------------------
(* Reports.                                                                *)

(* A poll is classified and reported in one step, and nothing is listed in *)
(* it afterwards; ss lists a finite number of sockets.                     *)
ReportInv ==
  /\ AreSockets(conns) /\ IsFiniteSet(conns)
  /\ Analysed => Faithful(conns) /\ sys \in HostReads /\ report = Analyze(conns, sys)

LEMMA ReportStep ==
  ASSUME ReportInv, [Next]_vars
  PROVE  ReportInv'
<1>1. CASE UNCHANGED vars
  <2>1. conns' = conns /\ sys' = sys /\ report' = report
    BY <1>1 DEF vars
  <2> QED BY <2>1 DEF ReportInv, Analysed
<1>2. ASSUME NEW c \in Records, Scan(c)
      PROVE  ReportInv'
  <2>1. conns' = conns \cup {c} /\ ~Analysed'
    BY <1>2 DEF Scan, Analysed
  <2>2. IsFiniteSet(conns')
    BY <2>1, FS_AddElement DEF ReportInv
  <2>3. AreSockets(conns')
    BY <2>1, RulesAssumption DEF ReportInv, AreSockets
  <2> QED BY <2>1, <2>2, <2>3 DEF ReportInv
<1>3. ASSUME NEW h \in HostReads, Ingest(h)
      PROVE  ReportInv'
  <2>1. conns' = Classified(conns) /\ sys' \in HostReads /\ report' = Analyze(conns', sys')
    BY <1>3 DEF Ingest
  <2>2. Faithful(conns') /\ AreSockets(conns')
    BY <2>1, ClassifiedFaithful DEF ReportInv
  <2>3. IsFiniteSet(conns')
    <3> DEFINE sig == [c \in conns |-> [c EXCEPT !.Signals = Classify(c) \cup AggregateSignals(c, conns)]]
    <3>1. conns' = {sig[c] : c \in conns}
      BY <2>1 DEF Classified
    <3>2. sig = [c \in conns |-> sig[c]]
      OBVIOUS
    <3> HIDE DEF sig
    <3>3. sig \in Surjection(conns, conns')
      BY <3>1, <3>2 DEF Surjection
    <3> QED BY <3>3, FS_Surjection DEF ReportInv
  <2> QED BY <2>1, <2>2, <2>3 DEF ReportInv
<1>4. CASE NextPoll
  <2>1. conns' = {} /\ report' = None
    BY <1>4 DEF NextPoll
  <2> QED BY <2>1, FS_EmptySet DEF ReportInv, AreSockets, Analysed
<1> QED BY <1>1, <1>2, <1>3, <1>4 DEF Next

LEMMA ReportInvariant == Spec => []ReportInv
<1>1. Init => ReportInv
  BY FS_EmptySet DEF Init, ReportInv, AreSockets, Analysed
<1>2. ReportInv /\ [Next]_vars => ReportInv'
  BY ReportStep
<1> QED BY <1>1, <1>2, PTL DEF Spec

(* Every socket a finding is about is selected by the finding's filter,    *)
(* whatever sockets ss lists and whatever the host counters say: Enter on  *)
(* a finding never leaves one out.                                         *)
THEOREM FilterSafety == Spec => []FilterShowsGroup
<1>1. ReportInv => FilterShowsGroup
  <2> SUFFICES ASSUME ReportInv, Analysed, NEW f \in report
               PROVE  f.conns # {} => \E shown \in f.shows : f.conns \subseteq shown
    BY DEF FilterShowsGroup, Findings
  <2> DEFINE found == SocketRules(conns, sys)
  <2>1. Sound(found, SocketRuleNames) /\ HostRuleNames(conns, found, sys)
    BY SocketRulesSound, HostRulesSound DEF ReportInv
  <2>2. report = Analyze(conns, sys)
    BY DEF ReportInv
  <2> HIDE DEF found
  <2>3. \/ f \in found \/ f \in ListenOverflowHost(found, sys) \/ f \in SynBacklog(conns, sys)
        \/ f \in UDPRcvbufHost(conns, found, sys) \/ f \in RetransHost(found, sys)
        \/ f \in RcvMemPressure(conns, sys)
    BY <2>2, AnalyzeIs DEF found
  <2> QED BY <2>1, <2>3 DEF Sound, HostRuleNames
<1> QED BY <1>1, ReportInvariant, PTL

-----------------------------------------------------------------------------
(* Who is blamed, and how often.                                           *)

(* The findings among these that name socket c.                            *)
About(findings, c) == {f \in findings : c \in f.conns}

(* Of these findings just one names c if c is one of the blamed, and none  *)
(* if it is not.                                                           *)
BlamesOnce(findings, blamed, c) ==
  /\ c \in blamed => \E f : About(findings, c) = {f}
  /\ c \notin blamed => About(findings, c) = {}

LEMMA PathLossOnce ==
  ASSUME NEW cs, NEW c
  PROVE  BlamesOnce(PathLossFindings(cs), Stalled(cs), c)
<1> DEFINE blamed == Stalled(cs)
           local  == ById("loss_local", None, Worst(blamed, LossSignals), blamed, WithSignal(cs, LossSignals))
           group  == {d \in blamed : Peer(d) = Peer(c)}
           groups == {{d \in blamed : Peer(d) = Peer(e)} : e \in blamed}
<1>1. local.conns = blamed /\ \A g : LossToward(cs, g).conns = g
  BY DEF LossToward, ById
<1>2. c \in blamed => group \in groups /\ \A g \in groups : c \in g <=> g = group
  OBVIOUS
<1>3. c \notin blamed => \A g \in groups : c \notin g
  OBVIOUS
<1>4. \/ PathLossFindings(cs) = {local} /\ blamed # {}
      \/ PathLossFindings(cs) = {LossToward(cs, g) : g \in groups}
  BY DEF PathLossFindings, Groups
<1> HIDE DEF blamed, local, group, groups
<1>5. CASE PathLossFindings(cs) = {local}
  <2>1. About(PathLossFindings(cs), c) = IF c \in blamed THEN {local} ELSE {}
    BY <1>1, <1>5 DEF About
  <2> QED BY <2>1 DEF BlamesOnce, blamed
<1>6. CASE PathLossFindings(cs) = {LossToward(cs, g) : g \in groups}
  <2>1. About(PathLossFindings(cs), c) = {LossToward(cs, g) : g \in {g \in groups : c \in g}}
    BY <1>1, <1>6 DEF About
  <2>2. {g \in groups : c \in g} = IF c \in blamed THEN {group} ELSE {}
    BY <1>2, <1>3
  <2>3. About(PathLossFindings(cs), c) = IF c \in blamed THEN {LossToward(cs, group)} ELSE {}
    BY <2>1, <2>2
  <2> QED BY <2>3 DEF BlamesOnce, blamed
<1> QED BY <1>4, <1>5, <1>6

LEMMA PMTUBlackHoleOnce ==
  ASSUME NEW cs, NEW c
  PROVE  BlamesOnce(PMTUBlackHole(cs), Hung(cs), c)
<1> DEFINE blamed    == Hung(cs)
           types     == {"RTO", "NO_ACK"}
           local     == ById("pmtu_blackhole_local", None, Worst(blamed, types), blamed, WithSignal(cs, types))
           toward(g) == ById("pmtu_blackhole", Peer(The(g)), Worst(g, types), g,
                             WithSignal(ToPeer(cs, Peer(The(g))), types))
           group     == {d \in blamed : Peer(d) = Peer(c)}
           groups    == {{d \in blamed : Peer(d) = Peer(e)} : e \in blamed}
<1>1. local.conns = blamed /\ \A g : toward(g).conns = g
  BY DEF ById
<1>2. c \in blamed => group \in groups /\ \A g \in groups : c \in g <=> g = group
  OBVIOUS
<1>3. c \notin blamed => \A g \in groups : c \notin g
  OBVIOUS
<1>4. \/ PMTUBlackHole(cs) = {local}
      \/ PMTUBlackHole(cs) = {toward(g) : g \in groups}
  BY DEF PMTUBlackHole, Groups
<1> HIDE DEF blamed, local, group, groups, toward
<1>5. CASE PMTUBlackHole(cs) = {local}
  <2>1. About(PMTUBlackHole(cs), c) = IF c \in blamed THEN {local} ELSE {}
    BY <1>1, <1>5 DEF About
  <2> QED BY <2>1 DEF BlamesOnce, blamed
<1>6. CASE PMTUBlackHole(cs) = {toward(g) : g \in groups}
  <2>1. About(PMTUBlackHole(cs), c) = {toward(g) : g \in {g \in groups : c \in g}}
    BY <1>1, <1>6 DEF About
  <2>2. {g \in groups : c \in g} = IF c \in blamed THEN {group} ELSE {}
    BY <1>2, <1>3
  <2>3. About(PMTUBlackHole(cs), c) = IF c \in blamed THEN {toward(group)} ELSE {}
    BY <2>1, <2>2
  <2> QED BY <2>3 DEF BlamesOnce, blamed
<1> QED BY <1>4, <1>5, <1>6

LEMMA RecvBacklogOnce ==
  ASSUME NEW cs, NEW c
  PROVE  BlamesOnce(RecvBacklog(cs), SlowReaders(cs), c)
<1> DEFINE blamed    == SlowReaders(cs)
           reader(g) == ById("recv_backlog", Proc(The(g)),
                             IF Dropped(g) THEN 2 ELSE Worst(g, {"RCV_Q", "DROPS"}), g,
                             BacklogShown(cs, The(g)))
           group     == {d \in blamed : Proc(d) = Proc(c)}
           groups    == {{d \in blamed : Proc(d) = Proc(e)} : e \in blamed}
<1>1. \A g : reader(g).conns = g
  BY DEF ById
<1>2. {g \in groups : c \in g} = IF c \in blamed THEN {group} ELSE {}
  OBVIOUS
<1>3. RecvBacklog(cs) = {reader(g) : g \in groups}
  BY DEF RecvBacklog, Groups
<1> HIDE DEF blamed, reader, group, groups
<1>4. About(RecvBacklog(cs), c) = {reader(g) : g \in {g \in groups : c \in g}}
  BY <1>1, <1>3 DEF About
<1>5. About(RecvBacklog(cs), c) = IF c \in blamed THEN {reader(group)} ELSE {}
  BY <1>2, <1>4
<1> QED BY <1>5 DEF BlamesOnce, blamed

(* The listeners that are blamed: their own queue, or one at their address,*)
(* was not empty, or the host refused connections.                         *)
Overfull(cs, h) ==
  {c \in Busy(cs) : \/ h.overflows \/ h.refused
                    \/ WithSignal({d \in Busy(cs) : Listener(d) = Listener(c)}, {"LISTEN_Q"}) # {}}

LEMMA ListenQueueOnce ==
  ASSUME NEW cs, NEW h, NEW c
  PROVE  BlamesOnce(ListenQueue(cs, h), Overfull(cs, h), c)
<1> DEFINE busy        == Busy(cs)
           listener(g) == ById("listen_queue", Listener(The(g)),
                               IF Dropped(g) THEN 2 ELSE Worst(g, {"LISTEN_Q", "DROPS"}), g,
                               {d \in cs : d.State = "LISTEN" /\ d.LocalPort = The(g).LocalPort})
           full(g)     == WithSignal(g, {"LISTEN_Q"}) # {} \/ h.overflows \/ h.refused
           group       == {d \in busy : Listener(d) = Listener(c)}
           groups      == {g \in {{d \in busy : Listener(d) = Listener(e)} : e \in busy} : full(g)}
<1>1. \A g : listener(g).conns = g
  BY DEF ById
<1>2. ListenQueue(cs, h) = {listener(g) : g \in groups}
  BY DEF ListenQueue, Groups
<1>3. c \in Overfull(cs, h) <=> c \in busy /\ full(group)
  BY DEF Overfull
<1> HIDE DEF busy, listener, full
<1>4. {g \in groups : c \in g} = IF c \in busy /\ full(group) THEN {group} ELSE {}
  OBVIOUS
<1> HIDE DEF group, groups
<1>5. About(ListenQueue(cs, h), c) = {listener(g) : g \in {g \in groups : c \in g}}
  BY <1>1, <1>2 DEF About
<1>6. About(ListenQueue(cs, h), c) = IF c \in Overfull(cs, h) THEN {listener(group)} ELSE {}
  BY <1>3, <1>4, <1>5
<1> QED BY <1>6 DEF BlamesOnce

LEMMA MemoryOnce ==
  ASSUME NEW cs, NEW h, NEW c
  PROVE  BlamesOnce(RcvMemPressure(cs, h), {d \in cs : MemoryRefusedDrops(d)}, c)
<1> DEFINE dropping == {d \in cs : MemoryRefusedDrops(d)}
<1> HIDE DEF dropping
<1>1. \A f \in RcvMemPressure(cs, h) : f.conns = dropping
  BY DEF RcvMemPressure, OfHost, ById, dropping
<1>2. dropping # {} => \E f : RcvMemPressure(cs, h) = {f}
  BY DEF RcvMemPressure, dropping
<1>3. CASE c \in dropping
  BY <1>1, <1>2, <1>3 DEF About, BlamesOnce, dropping
<1>4. CASE c \notin dropping
  BY <1>1, <1>4 DEF About, BlamesOnce, dropping
<1> QED BY <1>3, <1>4

(* One finding, of two sets that may blame c but never both do. *)
LEMMA OneOf ==
  ASSUME NEW F, NEW A, NEW G, NEW B, NEW c,
         BlamesOnce(F, A, c), BlamesOnce(G, B, c), ~(c \in A /\ c \in B)
  PROVE  BlamesOnce(F \cup G, A \cup B, c)
<1>1. About(F \cup G, c) = About(F, c) \cup About(G, c)
  BY DEF About
<1>2. CASE c \in A
  BY <1>1, <1>2 DEF BlamesOnce
<1>3. CASE c \in B
  BY <1>1, <1>3 DEF BlamesOnce
<1>4. CASE c \notin A /\ c \notin B
  BY <1>1, <1>4 DEF BlamesOnce
<1> QED BY <1>2, <1>3, <1>4

(* The findings of a report about stalls, and about drops, are those of    *)
(* their rules.                                                            *)
StallRules == {"loss", "loss_local", "pmtu_blackhole", "pmtu_blackhole_local"}
DropRules == {"recv_backlog", "listen_queue", "rcv_mem_pressure"}

LEMMA RulesOfReport ==
  ASSUME NEW cs, Faithful(cs), NEW h, NEW f \in Analyze(cs, h)
  PROVE  /\ f.rule \in StallRules => f \in PathLossFindings(cs) \cup PMTUBlackHole(cs)
         /\ f.rule \in DropRules => f \in RecvBacklog(cs) \cup ListenQueue(cs, h) \cup RcvMemPressure(cs, h)
         /\ f.rule = "rwnd" => f \in RwndLimited(cs)
         /\ f.rule = "rcvbuf" => f \in ByProc(cs, "rcvbuf", "RCVBUF_LIM")
<1> DEFINE found == SocketRules(cs, h)
           Of(F, names) == f \in F => f.rule \in names
<1>1. /\ Of(ZeroWindow(cs), {"zero_window"}) /\ Of(RwndLimited(cs), {"rwnd"})
      /\ Of(SynStall(cs), {"syn_stall"}) /\ Of(CloseWaitLeak(cs), {"close_wait"})
      /\ Of(TimeWaitStorm(cs), {"time_wait"})
      /\ Of(InboundLossFindings(cs), {"rx_loss", "rx_loss_local"})
      /\ Of(PathLossFindings(cs), {"loss", "loss_local"})
      /\ Of(PMTUBlackHole(cs), {"pmtu_blackhole", "pmtu_blackhole_local"})
      /\ Of(RecvBacklog(cs), {"recv_backlog"}) /\ Of(ListenQueue(cs, h), {"listen_queue"})
  BY ZeroWindowSound, RwndLimitedSound, SynStallSound, CloseWaitLeakSound, TimeWaitStormSound,
     InboundLossSound, PathLossSound, PMTUBlackHoleSound, RecvBacklogSound, ListenQueueSound DEF Sound
<1>2. Of(PathRules(cs), {"reorder", "pmtu", "rtt"})
  BY ByPeerSound DEF PathRules, Sound
<1>3. Of(BufferRules(cs), {"sndbuf", "rcvbuf"})
  BY ByProcSound DEF BufferRules, Sound
<1>8. f \in BufferRules(cs) /\ f.rule = "rcvbuf" => f \in ByProc(cs, "rcvbuf", "RCVBUF_LIM")
  <2>1. \A e \in ByProc(cs, "sndbuf", "SNDBUF_LIM") : e.rule = "sndbuf"
    BY ByProcSound DEF Sound
  <2> QED BY <2>1 DEF BufferRules
<1>4. Of(EphemeralPorts(cs), {"ephemeral_ports"})
  BY DEF EphemeralPorts, OfHost, ById
<1>5. /\ Of(ListenOverflowHost(found, h), {"listen_overflow_host"}) /\ Of(SynBacklog(cs, h), {"syn_backlog"})
      /\ Of(UDPRcvbufHost(cs, found, h), {"udp_rcvbuf_host"}) /\ Of(RetransHost(found, h), {"retrans_host"})
      /\ Of(RcvMemPressure(cs, h), {"rcv_mem_pressure", "rcv_prune"})
  BY HostRulesSound DEF HostRuleNames, Sound
<1>6. \/ f \in ListenOverflowHost(found, h) \/ f \in SynBacklog(cs, h) \/ f \in UDPRcvbufHost(cs, found, h)
      \/ f \in RetransHost(found, h) \/ f \in RcvMemPressure(cs, h) \/ f \in found
  BY AnalyzeIs
<1>7. f \in found => \/ f \in ZeroWindow(cs) \/ f \in RecvBacklog(cs) \/ f \in ListenQueue(cs, h)
                     \/ f \in SynStall(cs) \/ f \in PMTUBlackHole(cs) \/ f \in PathLossFindings(cs)
                     \/ f \in InboundLossFindings(cs) \/ f \in PathRules(cs) \/ f \in RwndLimited(cs)
                     \/ f \in BufferRules(cs) \/ f \in CloseWaitLeak(cs) \/ f \in TimeWaitStorm(cs)
                     \/ f \in EphemeralPorts(cs)
  BY DEF SocketRules
<1> HIDE DEF found
<1> QED BY <1>1, <1>2, <1>3, <1>4, <1>5, <1>6, <1>7, <1>8 DEF StallRules, DropRules

LEMMA StallsNamed ==
  ASSUME ReportInv, Analysed, NEW c
  PROVE  Naming(c, StallRules) = About(PathLossFindings(conns) \cup PMTUBlackHole(conns), c)
<1> DEFINE blaming == PathLossFindings(conns) \cup PMTUBlackHole(conns)
<1>1. \A f \in report : f.rule \in StallRules => f \in blaming
  BY RulesOfReport DEF ReportInv
<1>2. blaming \subseteq report
  BY AnalyzeIs DEF ReportInv, SocketRules
<1>3. \A f \in blaming : f.rule \in StallRules
  BY PathLossSound, PMTUBlackHoleSound DEF Sound, StallRules
<1> HIDE DEF blaming
<1>4. Naming(c, StallRules) = {f \in report : f.rule \in StallRules /\ c \in f.conns}
  BY DEF Naming, Findings
<1>5. Naming(c, StallRules) = About(blaming, c)
  BY <1>1, <1>2, <1>3, <1>4 DEF About
<1> QED BY <1>5 DEF blaming

LEMMA DropsNamed ==
  ASSUME ReportInv, Analysed, NEW c
  PROVE  Naming(c, DropRules)
              = About(RecvBacklog(conns) \cup ListenQueue(conns, sys)
                        \cup {f \in RcvMemPressure(conns, sys) : f.rule = "rcv_mem_pressure"}, c)
<1> DEFINE memory  == {f \in RcvMemPressure(conns, sys) : f.rule = "rcv_mem_pressure"}
           blaming == RecvBacklog(conns) \cup ListenQueue(conns, sys) \cup memory
<1>1. \A f \in report : f.rule \in DropRules => f \in blaming
  <2>1. \A f \in RecvBacklog(conns) : f.rule = "recv_backlog"
    BY RecvBacklogSound DEF Sound
  <2>2. \A f \in RcvMemPressure(conns, sys) : f.rule \in {"rcv_mem_pressure", "rcv_prune"}
    BY HostRulesSound DEF HostRuleNames, Sound
  <2>3. \A f \in report : f.rule \in DropRules =>
          f \in RecvBacklog(conns) \cup ListenQueue(conns, sys) \cup RcvMemPressure(conns, sys)
    BY RulesOfReport DEF ReportInv
  <2> QED BY <2>2, <2>3 DEF DropRules
<1>2. blaming \subseteq report
  BY AnalyzeIs DEF ReportInv, SocketRules
<1>3. \A f \in blaming : f.rule \in DropRules
  BY RecvBacklogSound, ListenQueueSound DEF Sound, DropRules
<1> HIDE DEF blaming
<1>4. Naming(c, DropRules) = {f \in report : f.rule \in DropRules /\ c \in f.conns}
  BY DEF Naming, Findings
<1>5. Naming(c, DropRules) = About(blaming, c)
  BY <1>1, <1>2, <1>3, <1>4 DEF About
<1> QED BY <1>5 DEF blaming, memory

LEMMA ExactlyOnce ==
  ASSUME NEW S
  PROVE  (\E f : S = {f}) => Exactly(1, S)
BY FS_Singleton DEF Exactly

(* A stalled or lossy socket is named by exactly one finding about stalls, *)
(* however many sockets and peers there are: its peer's path, this host or *)
(* a path MTU black hole (but one that hangs from its first data and shows *)
(* only loss).                                                             *)
THEOREM StallsSafety == Spec => []StallsBlamedOnce
<1>1. ReportInv => StallsBlamedOnce
  <2> SUFFICES ASSUME ReportInv, Analysed, NEW c \in conns, Warned(c, LossSignals),
                      ~(HungAfterHandshake(c) /\ ~Warned(c, {"RTO", "NO_ACK"}))
               PROVE  Exactly(1, Naming(c, StallRules))
    BY DEF StallsBlamedOnce, StallRules
  <2>1. c \in Stalled(conns) \cup Hung(conns) /\ ~(c \in Stalled(conns) /\ c \in Hung(conns))
    BY DEF Stalled, Hung, Carrying, Warned
  <2>2. BlamesOnce(PathLossFindings(conns) \cup PMTUBlackHole(conns), Stalled(conns) \cup Hung(conns), c)
    BY <2>1, OneOf, PathLossOnce, PMTUBlackHoleOnce
  <2>3. \E f : Naming(c, StallRules) = {f}
    BY <2>1, <2>2, StallsNamed DEF BlamesOnce
  <2> QED BY <2>3, ExactlyOnce
<1> QED BY <1>1, ReportInvariant, PTL

(* A socket that dropped for want of something is named by exactly one     *)
(* finding about drops, its reader's, its listener's or the host's memory, *)
(* but for a listener that is not full on a host that refused nothing,     *)
(* which is named by none.                                                 *)
THEOREM DropsSafety == Spec => []DropsBlamedOnce
<1>1. ReportInv => DropsBlamedOnce
  <2> SUFFICES ASSUME ReportInv, Analysed, NEW c \in conns, Warned(c, {"DROPS"})
               PROVE  \/ Exactly(1, Naming(c, DropRules))
                      \/ /\ c.State = "LISTEN" /\ ~Warned(c, {"LISTEN_Q"}) /\ ~sys.overflows /\ ~sys.refused
                         /\ Exactly(0, Naming(c, DropRules))
    BY DEF DropsBlamedOnce, DropRules
  <2> DEFINE refused == {d \in conns : MemoryRefusedDrops(d)}
             memory  == {f \in RcvMemPressure(conns, sys) : f.rule = "rcv_mem_pressure"}
             slow    == SlowReaders(conns)
             full    == Overfull(conns, sys)
  <2>1. BlamesOnce(memory, refused, c)
    <3>1. BlamesOnce(RcvMemPressure(conns, sys), refused, c)
      BY MemoryOnce
    <3>2. c \in refused => memory = RcvMemPressure(conns, sys)
      BY DEF RcvMemPressure, ById
    <3>3. c \notin refused => About(memory, c) \subseteq About(RcvMemPressure(conns, sys), c)
      BY DEF About
    <3> HIDE DEF refused, memory
    <3> QED BY <3>1, <3>2, <3>3 DEF BlamesOnce
  <2>2. BlamesOnce(RecvBacklog(conns), slow, c) /\ BlamesOnce(ListenQueue(conns, sys), full, c)
    BY RecvBacklogOnce, ListenQueueOnce
  <2>3. c \in Carrying(conns, {"DROPS"})
    BY DEF Carrying, Warned
  <2>4. CASE c.State = "LISTEN"
    <3>1. c \in Busy(conns) /\ c \notin slow /\ c \notin refused
      BY <2>3, <2>4 DEF Busy, Carrying, SlowReaders, MemoryRefusedDrops
    <3>2. BlamesOnce(RecvBacklog(conns) \cup ListenQueue(conns, sys), slow \cup full, c)
      BY <2>2, <3>1, OneOf
    <3>3. BlamesOnce(RecvBacklog(conns) \cup ListenQueue(conns, sys) \cup memory, slow \cup full \cup refused, c)
      BY <2>1, <3>1, <3>2, OneOf
    <3>4. CASE c \in full
      <4>1. \E f : Naming(c, DropRules) = {f}
        BY <3>3, <3>4, DropsNamed DEF BlamesOnce
      <4> QED BY <4>1, ExactlyOnce
    <3>5. CASE c \notin full
      <4>1. Naming(c, DropRules) = {}
        BY <3>1, <3>3, <3>5, DropsNamed DEF BlamesOnce
      <4>2. /\ ~sys.overflows /\ ~sys.refused
            /\ WithSignal({d \in Busy(conns) : Listener(d) = Listener(c)}, {"LISTEN_Q"}) = {}
        BY <3>1, <3>5 DEF Overfull
      <4>3. ~Warned(c, {"LISTEN_Q"})
        BY <3>1, <4>2 DEF WithSignal, Signalled, Warned
      <4> QED BY <2>4, <4>1, <4>2, <4>3, FS_EmptySet DEF Exactly
    <3> QED BY <3>4, <3>5
  <2>5. CASE c.State # "LISTEN"
    <3>1. c \notin full /\ (c \in slow <=> c \notin refused)
      BY <2>3, <2>5 DEF Overfull, Busy, Carrying, SlowReaders
    <3>2. BlamesOnce(RecvBacklog(conns) \cup ListenQueue(conns, sys), slow \cup full, c)
      BY <2>2, <3>1, OneOf
    <3>3. BlamesOnce(RecvBacklog(conns) \cup ListenQueue(conns, sys) \cup memory, slow \cup full \cup refused, c)
      BY <2>1, <3>1, <3>2, OneOf
    <3>4. \E f : Naming(c, DropRules) = {f}
      BY <3>1, <3>3, DropsNamed DEF BlamesOnce
    <3> QED BY <3>4, ExactlyOnce
  <2> QED BY <2>4, <2>5
<1> QED BY <1>1, ReportInvariant, PTL

-----------------------------------------------------------------------------
(* What sockets tell of the host's counters.                               *)

LEMMA ListenQueueTold ==
  ASSUME NEW cs, NEW h, h.overflows \/ h.refused
  PROVE  Found(ListenQueue(cs, h), {"listen_queue"}) <=> Busy(cs) # {}
<1>1. \A f \in ListenQueue(cs, h) : f.rule = "listen_queue"
  BY ListenQueueSound DEF Sound
<1>2. ListenQueue(cs, h) # {} => Busy(cs) # {}
  BY DEF ListenQueue, Groups
<1>3. ASSUME NEW c \in Busy(cs)
      PROVE  ListenQueue(cs, h) # {}
  <2>1. c \in Overfull(cs, h)
    BY DEF Overfull
  <2> QED BY <2>1, ListenQueueOnce DEF BlamesOnce, About
<1> QED BY <1>1, <1>2, <1>3 DEF Found

LEMMA RecvBacklogAbout ==
  ASSUME NEW cs
  PROVE  /\ \A f \in RecvBacklog(cs) : f.rule = "recv_backlog" /\ f.conns \subseteq SlowReaders(cs)
         /\ \A c \in SlowReaders(cs) : \E f \in RecvBacklog(cs) : c \in f.conns
<1>1. \A f \in RecvBacklog(cs) : f.rule = "recv_backlog"
  BY RecvBacklogSound DEF Sound
<1>2. \A c : BlamesOnce(RecvBacklog(cs), SlowReaders(cs), c)
  BY RecvBacklogOnce
<1>3. \A c \in SlowReaders(cs) : \E f \in RecvBacklog(cs) : c \in f.conns
  BY <1>2 DEF BlamesOnce, About
<1>4. ASSUME NEW f \in RecvBacklog(cs), NEW c \in f.conns
      PROVE  c \in SlowReaders(cs)
  BY <1>2 DEF BlamesOnce, About
<1> QED BY <1>1, <1>3, <1>4

LEMMA PeersFinite ==
  ASSUME NEW cs, IsFiniteSet(cs)
  PROVE  IsFiniteSet(PeersOf(cs))
<1> DEFINE peer == [c \in cs |-> c.PeerAddr]
<1>1. peer \in Surjection(cs, PeersOf(cs))
  BY DEF Surjection, PeersOf
<1> QED BY <1>1, FS_Surjection

(* Loss is this host's only when that many peers show it. *)
LEMMA LocalLossPeers ==
  ASSUME ReportInv, Found(PathLossFindings(conns), {"loss_local"})
  PROVE  Cardinality(PeersOf(Lossy)) >= ManyPeers
<1> DEFINE blamed      == Stalled(conns)
           symptomatic == {c \in Established(conns) : SteadyRetrans(c)}
           shown       == PeersOf(blamed) \cup PeersOf(symptomatic)
<1>1. TooMany(conns, SymptomPeers(blamed, symptomatic))
  <2>1. \A g : LossToward(conns, g).rule = "loss"
    BY DEF LossToward, ById
  <2> QED BY <2>1 DEF PathLossFindings, Found
<1>2. Cardinality(shown) >= ManyPeers
  BY <1>1 DEF TooMany, SymptomPeers
<1>3. blamed \subseteq Lossy /\ symptomatic \subseteq Lossy
  <2>1. blamed \subseteq Lossy
    BY DEF Stalled, Carrying, Lossy, Warned
  <2>2. symptomatic \subseteq Lossy
    BY DEF Established, Lossy
  <2> QED BY <2>1, <2>2
<1>4. shown \in SUBSET PeersOf(Lossy)
  <2> HIDE DEF blamed, symptomatic
  <2> QED BY <1>3 DEF PeersOf
<1>5. IsFiniteSet(PeersOf(Lossy))
  <2>1. IsFiniteSet(Lossy)
    BY FS_Subset DEF ReportInv, Lossy
  <2> QED BY <2>1, PeersFinite
<1>6. IsFiniteSet(shown) /\ Cardinality(shown) <= Cardinality(PeersOf(Lossy))
  BY <1>4, <1>5, FS_Subset
<1>7. Cardinality(shown) \in Nat /\ Cardinality(PeersOf(Lossy)) \in Nat /\ ManyPeers \in Nat
  BY <1>5, <1>6, FS_CardinalityType, RulesAssumption
<1> QED BY <1>2, <1>6, <1>7

(* What is told of the host as a whole is what no socket of the poll       *)
(* accounts for: the rules on sockets, which run first, group and leave    *)
(* out sockets by state, process and peer, and the host rules give way to  *)
(* just the findings that mean the counter at hand.                        *)
THEOREM HostFindingsSafety == Spec => []HostFindingsAreLastResort
<1>1. ReportInv => HostFindingsAreLastResort
  <2> SUFFICES ASSUME ReportInv, Analysed
               PROVE  HostFindingsAreLastResort
    BY DEF HostFindingsAreLastResort
  <2> DEFINE found == SocketRules(conns, sys)
             lo    == ListenOverflowHost(found, sys)
             sb    == SynBacklog(conns, sys)
             ur    == UDPRcvbufHost(conns, found, sys)
             rh    == RetransHost(found, sys)
             mem   == RcvMemPressure(conns, sys)
  <2>1. /\ \A f \in found : f.rule \in SocketRuleNames
        /\ \A f \in lo : f.rule = "listen_overflow_host"
        /\ \A f \in sb : f.rule = "syn_backlog"
        /\ \A f \in ur : f.rule = "udp_rcvbuf_host"
        /\ \A f \in rh : f.rule = "retrans_host"
        /\ \A f \in mem : f.rule \in {"rcv_mem_pressure", "rcv_prune"}
    BY SocketRulesSound, HostRulesSound DEF ReportInv, HostRuleNames, Sound
  <2>2. report = found \cup lo \cup sb \cup ur \cup rh \cup mem
    BY AnalyzeIs DEF ReportInv
  <2>3. /\ Found(report, {"listen_overflow_host"}) <=> lo # {}
        /\ Found(report, {"udp_rcvbuf_host"}) <=> ur # {}
        /\ Found(report, {"retrans_host"}) <=> rh # {}
        /\ Found(report, {"loss_local"}) <=> Found(found, {"loss_local"})
    <3> HIDE DEF found, lo, sb, ur, rh, mem
    <3> QED BY <2>1, <2>2 DEF Found, SocketRuleNames
  <2>4. \A f \in found : /\ f.rule = "listen_queue" => f \in ListenQueue(conns, sys)
                         /\ f.rule = "recv_backlog" => f \in RecvBacklog(conns)
                         /\ f.rule = "loss_local" => f \in PathLossFindings(conns)
    <3> SUFFICES ASSUME NEW f \in found
                 PROVE  /\ f.rule = "listen_queue" => f \in ListenQueue(conns, sys)
                        /\ f.rule = "recv_backlog" => f \in RecvBacklog(conns)
                        /\ f.rule = "loss_local" => f \in PathLossFindings(conns)
      OBVIOUS
    <3>1. f \in Analyze(conns, sys)
      BY AnalyzeIs
    <3>2. /\ f.rule \in StallRules => f \in PathLossFindings(conns) \cup PMTUBlackHole(conns)
          /\ f.rule \in DropRules => f \in RecvBacklog(conns) \cup ListenQueue(conns, sys) \cup mem
      BY <3>1, RulesOfReport DEF ReportInv
    <3>3. /\ \A g \in RecvBacklog(conns) : g.rule = "recv_backlog"
          /\ \A g \in ListenQueue(conns, sys) : g.rule = "listen_queue"
          /\ \A g \in PMTUBlackHole(conns) : g.rule \in {"pmtu_blackhole", "pmtu_blackhole_local"}
      BY RecvBacklogSound, ListenQueueSound, PMTUBlackHoleSound DEF Sound
    <3> HIDE DEF found, mem
    <3> QED BY <2>1, <3>2, <3>3 DEF StallRules, DropRules
  <2>5. /\ ListenQueue(conns, sys) \subseteq found /\ RecvBacklog(conns) \subseteq found
        /\ PathLossFindings(conns) \subseteq found
    BY DEF SocketRules
  <2>6. Found(report, {"listen_overflow_host"}) <=> (sys.overflows \/ sys.refused) /\ ~ListenersTell
    <3>1. Busy(conns) # {} <=> ListenersTell
      BY DEF Busy, Carrying, ListenersTell, Warned
    <3>2. Found(found, {"listen_queue"}) <=> Found(ListenQueue(conns, sys), {"listen_queue"})
      <4> HIDE DEF found
      <4> QED BY <2>4, <2>5 DEF Found
    <3>3. lo # {} <=> (sys.overflows \/ sys.refused) /\ ~Found(found, {"listen_queue"})
      BY DEF ListenOverflowHost
    <3> HIDE DEF found, lo
    <3> QED BY <2>3, <3>1, <3>2, <3>3, ListenQueueTold
  <2>7. Found(report, {"udp_rcvbuf_host"}) <=> sys.udpErrors /\ ~ReadersTell
    <3>1. ur # {} <=> sys.udpErrors /\ UdpBacklog(found) = {}
      BY DEF UDPRcvbufHost
    <3>2. ReadersTell <=> \E c \in SlowReaders(conns) : c.Protocol = "udp"
      BY DEF ReadersTell, SlowReaders, Carrying, Warned, MemoryRefusedDrops
    <3>3. UdpBacklog(found) # {} <=> \E f \in RecvBacklog(conns) : \E c \in f.conns : c.Protocol = "udp"
      <4>1. \A f \in RecvBacklog(conns) : f.rule = "recv_backlog"
        BY RecvBacklogAbout
      <4> HIDE DEF found
      <4> QED BY <2>4, <2>5, <4>1 DEF UdpBacklog
    <3>4. UdpBacklog(found) # {} <=> ReadersTell
      BY <3>2, <3>3, RecvBacklogAbout
    <3> HIDE DEF found, ur
    <3> QED BY <2>3, <3>1, <3>4
  <2>8. ASSUME HostRetransmits
        PROVE  /\ Found(report, {"retrans_host"}) <=> ~Found(report, {"loss_local"})
               /\ Cardinality(PeersOf(Lossy)) < ManyPeers => Found(report, {"retrans_host"})
    <3>1. sys.retrans \in Nat /\ sys.steady \in Nat /\ sys.slots \in Nat
      BY RulesAssumption DEF ReportInv, HostReadType
    <3>2. sys.slots > 0 /\ sys.steady * 2 >= sys.slots /\ Tier(sys.retrans, 2, 10) > 0
      BY <2>8, <3>1 DEF HostRetransmits, Tier
    <3>3. rh # {} <=> ~Found(found, {"loss_local"})
      BY <3>2 DEF RetransHost
    <3>4. Found(found, {"loss_local"}) => Found(PathLossFindings(conns), {"loss_local"})
      <4> HIDE DEF found
      <4> QED BY <2>4 DEF Found
    <3>5. Found(found, {"loss_local"}) => Cardinality(PeersOf(Lossy)) >= ManyPeers
      BY <3>4, LocalLossPeers
    <3>6. Cardinality(PeersOf(Lossy)) \in Nat /\ ManyPeers \in Nat
      <4>1. IsFiniteSet(Lossy)
        BY FS_Subset DEF ReportInv, Lossy
      <4> QED BY <4>1, PeersFinite, FS_CardinalityType, RulesAssumption
    <3> HIDE DEF found, rh
    <3> QED BY <2>3, <3>3, <3>5, <3>6
  <2> HIDE DEF found, lo, sb, ur, rh, mem
  <2> QED BY <2>6, <2>7, <2>8 DEF HostFindingsAreLastResort
<1> QED BY <1>1, ReportInvariant, PTL

-----------------------------------------------------------------------------
(* Flows between two sockets of this host.                                 *)

(* No two connections share their addresses. *)
Distinct(cs) ==
  \A c, d \in cs : SameConnection(c, d) /\ d.State # "LISTEN" => c = d

LEMMA SameIs ==
  ASSUME NEW c, NEW d
  PROVE  SameConnection(c, d) <=>
           /\ c.Protocol = "tcp" /\ c.State # "LISTEN"
           /\ c.Protocol = d.Protocol /\ c.LocalAddr = d.LocalAddr /\ c.LocalPort = d.LocalPort
           /\ c.PeerAddr = d.PeerAddr /\ c.PeerPort = d.PeerPort
BY DEF SameConnection

(* Classifying a poll keeps its sockets apart.                             *)
LEMMA ClassifiedDistinct ==
  ASSUME NEW cs, AreSockets(cs), Distinct(cs)
  PROVE  Distinct(Classified(cs))
<1> DEFINE told(c) == [c EXCEPT !.Signals = Classify(c) \cup AggregateSignals(c, cs)]
<1>1. ASSUME NEW c \in cs
      PROVE  /\ told(c).Protocol = c.Protocol /\ told(c).State = c.State
             /\ told(c).LocalAddr = c.LocalAddr /\ told(c).LocalPort = c.LocalPort
             /\ told(c).PeerAddr = c.PeerAddr /\ told(c).PeerPort = c.PeerPort
  BY DEF AreSockets
<1>2. Classified(cs) = {told(c) : c \in cs}
  BY DEF Classified
<1> HIDE DEF told
<1>3. ASSUME NEW c \in cs, NEW d \in cs, SameConnection(told(c), told(d)), told(d).State # "LISTEN"
      PROVE  told(c) = told(d)
  <2>1. SameConnection(c, d) /\ d.State # "LISTEN"
    BY <1>1, <1>3, SameIs
  <2> QED BY <2>1 DEF Distinct
<1> QED BY <1>2, <1>3 DEF Distinct

(* A receive buffer that caps the flow is found on connections only, and   *)
(* always worth a warning.                                                 *)
LEMMA BufferLimitIs ==
  ASSUME NEW c, NEW s \in Classify(c), s.type = "RCVBUF_LIM"
  PROVE  s.sev = 1 /\ ~(c.Protocol = "tcp" /\ c.State = "LISTEN")
<1> DEFINE Other(t) == t.type # "RCVBUF_LIM"
<1>1. \A holds, type, sev : \A t \in When(holds, type, sev) \cup Tiered(type, sev) : t.type = type
  BY WhenIs, TieredIs DEF OfTypes
<1>2. \A t \in DropSignal(c) \cup When(TRUE, "DROPS", 0) : Other(t)
  BY <1>1 DEF DropSignal
<1>3. \A t \in UdpSignals(c) \cup ListenSignals(c) : Other(t)
  BY <1>1 DEF UdpSignals, ListenSignals
<1>4. ASSUME NEW t \in TcpSignals(c)
      PROVE  Other(t) \/ t.sev = 1
  <2>1. t \in LimitSignals(c) => Other(t) \/ t.sev = 1
    <3>1. t \in When(WindowFilled(c), "RCVBUF_LIM", 1) => t.sev = 1
      BY DEF When
    <3>2. \A sev : t \in Tiered("RWND_LIM", sev) \cup Tiered("SNDBUF_LIM", sev) => Other(t)
      BY <1>1
    <3> HIDE DEF Other
    <3> QED BY <3>1, <3>2, Zenon DEF LimitSignals
  <2>2. t \in RttSignal(c) \cup StallSignals(c) => Other(t)
    BY <1>1 DEF RttSignal, StallSignals
  <2>3. t \in InfoSignals(c) => Other(t)
    <3>1. \A holds, type, sev : t \in When(holds, type, sev) => t.type = type
      BY <1>1
    <3> QED BY <3>1, Zenon DEF InfoSignals
  <2>4. \/ t \in Tiered("SYN_STALL", IF c.State = "SYN-SENT" /\ Known(c.TimerRetrans)
                                       THEN Tier(c.TimerRetrans, 2, 3) ELSE 0)
        \/ t \in When(c.State = "ESTAB" /\ IsZeroWindow(c), "ZERO_WIN", 2)
        \/ t \in When(Above(c.PMTU, 0) /\ Above(c.AdvMSS, 0) /\ c.PMTU < c.AdvMSS + 40, "PMTU", 1)
        \/ t \in Tiered("RCV_Q", QueuePressure(c.RecvQ, c.PrevRecvQ, RecvPayload(c.SkmemRB)))
        \/ t \in Tiered("PATH_LOSS", PathLoss(c))
        \/ t \in Tiered("RX_LOSS", InboundLoss(c))
        \/ t \in Tiered("REORDER", Reordering(c))
        => Other(t)
    BY <1>1
  <2> HIDE DEF Other
  <2> QED BY <2>1, <2>2, <2>3, <2>4 DEF TcpSignals
<1> HIDE DEF Other
<1>5. (c.Protocol = "tcp" /\ c.State = "LISTEN") => Other(s)
  <2> SUFFICES ASSUME c.Protocol = "tcp", c.State = "LISTEN" PROVE Other(s)
    OBVIOUS
  <2>1. Classify(c) = DropSignal(c) \cup ListenSignals(c)
    BY DEF Classify
  <2> QED BY <2>1, <1>2, <1>3
<1>6. Other(s) \/ s.sev = 1
  BY <1>2, <1>3, <1>4 DEF Classify
<1> QED BY <1>5, <1>6 DEF Other

(* The sockets whose receive buffer caps the flow. *)
Capped(cs) == {c \in cs : Signalled(c.Signals, {"RCVBUF_LIM"})}

LEMMA CappedAre ==
  ASSUME NEW cs, AreSockets(cs), NEW d \in Capped(Classified(cs))
  PROVE  /\ ~(d.Protocol = "tcp" /\ d.State = "LISTEN")
         /\ d \in Carrying(Classified(cs), {"RCVBUF_LIM"})
<1>1. PICK c \in cs : /\ d.State = c.State /\ d.Protocol = c.Protocol
                      /\ d.Signals = Classify(c) \cup AggregateSignals(c, cs)
  BY DEF Capped, Classified, AreSockets
<1>2. PICK s \in d.Signals : s.type = "RCVBUF_LIM"
  BY DEF Capped, Signalled
<1>3. s \in Classify(c)
  BY <1>1, <1>2, AggregateIs
<1>4. s.sev = 1 /\ ~(c.Protocol = "tcp" /\ c.State = "LISTEN")
  BY <1>2, <1>3, BufferLimitIs
<1> QED BY <1>1, <1>2, <1>4 DEF Carrying, Capped

(* While a poll is listed no two connections share their addresses, and    *)
(* once it is analysed what caps a flow is a connection that is warned of. *)
FlowInv ==
  /\ Distinct(conns)
  /\ Analysed => \A d \in Capped(conns) : /\ ~(d.Protocol = "tcp" /\ d.State = "LISTEN")
                                          /\ d \in Carrying(conns, {"RCVBUF_LIM"})

LEMMA FlowStep ==
  ASSUME ReportInv, FlowInv, [Next]_vars
  PROVE  FlowInv'
<1>1. CASE UNCHANGED vars
  <2>1. conns' = conns /\ report' = report
    BY <1>1 DEF vars
  <2> QED BY <2>1 DEF FlowInv, Analysed
<1>2. ASSUME NEW c \in Records, Scan(c)
      PROVE  FlowInv'
  <2>1. conns' = conns \cup {c} /\ ~Analysed' /\ \A x \in conns : ~SameConnection(c, x)
    BY <1>2 DEF Scan, Analysed
  <2>2. ASSUME NEW d \in conns', NEW e \in conns', SameConnection(d, e), e.State # "LISTEN"
        PROVE  d = e
    <3>1. SameConnection(e, d)
      BY <2>2, SameIs
    <3> QED BY <2>1, <2>2, <3>1 DEF FlowInv, Distinct
  <2> QED BY <2>1, <2>2 DEF FlowInv, Distinct
<1>3. ASSUME NEW h \in HostReads, Ingest(h)
      PROVE  FlowInv'
  <2>1. conns' = Classified(conns) /\ AreSockets(conns)
    BY <1>3 DEF Ingest, ReportInv
  <2> QED BY <2>1, ClassifiedDistinct, CappedAre DEF FlowInv
<1>4. CASE NextPoll
  BY <1>4 DEF NextPoll, FlowInv, Distinct, Analysed
<1> QED BY <1>1, <1>2, <1>3, <1>4 DEF Next

LEMMA RwndLimitedOnce ==
  ASSUME NEW cs, NEW c
  PROVE  BlamesOnce(RwndLimited(cs), WindowBound(cs), c)
<1> DEFINE blamed    == WindowBound(cs)
           sender(g) == ById("rwnd", Peer(The(g)), Worst(g, {"RWND_LIM"}), g,
                             WithSignal(ToPeer(cs, Peer(The(g))), {"RWND_LIM"}))
           group     == {d \in blamed : Peer(d) = Peer(c)}
           groups    == {{d \in blamed : Peer(d) = Peer(e)} : e \in blamed}
<1>1. \A g : sender(g).conns = g
  BY DEF ById
<1>2. {g \in groups : c \in g} = IF c \in blamed THEN {group} ELSE {}
  OBVIOUS
<1>3. RwndLimited(cs) = {sender(g) : g \in groups}
  BY DEF RwndLimited, Groups
<1> HIDE DEF blamed, sender, group, groups
<1>4. About(RwndLimited(cs), c) = {sender(g) : g \in {g \in groups : c \in g}}
  BY <1>1, <1>3 DEF About
<1>5. About(RwndLimited(cs), c) = IF c \in blamed THEN {sender(group)} ELSE {}
  BY <1>2, <1>4
<1> QED BY <1>5 DEF BlamesOnce, blamed

LEMMA ByProcOnce ==
  ASSUME NEW cs, NEW rule, NEW type, NEW c
  PROVE  /\ BlamesOnce(ByProc(cs, rule, type), Carrying(cs, {type}), c)
         /\ \A f \in ByProc(cs, rule, type) : f.conns \subseteq Carrying(cs, {type})
<1> DEFINE blamed    == Carrying(cs, {type})
           finding(g) == ById(rule, Proc(The(g)), Worst(g, {type}), g, WithSignal(OfProc(cs, The(g).PID), {type}))
           group     == {d \in blamed : Proc(d) = Proc(c)}
           groups    == {{d \in blamed : Proc(d) = Proc(e)} : e \in blamed}
<1>1. \A g : finding(g).conns = g
  BY DEF ById
<1>2. /\ {g \in groups : c \in g} = IF c \in blamed THEN {group} ELSE {}
      /\ \A g \in groups : g \subseteq blamed
  OBVIOUS
<1>3. ByProc(cs, rule, type) = {finding(g) : g \in groups}
  BY DEF ByProc, Plain, Groups
<1> HIDE DEF blamed, finding, group, groups
<1>4. About(ByProc(cs, rule, type), c) = {finding(g) : g \in {g \in groups : c \in g}}
  BY <1>1, <1>3 DEF About
<1>5. About(ByProc(cs, rule, type), c) = IF c \in blamed THEN {finding(group)} ELSE {}
  BY <1>2, <1>4
<1>6. \A f \in ByProc(cs, rule, type) : f.conns \subseteq blamed
  BY <1>1, <1>2, <1>3
<1> QED BY <1>5, <1>6 DEF BlamesOnce, blamed

LEMMA FlowsNamed ==
  ASSUME ReportInv, Analysed, NEW c
  PROVE  /\ Naming(c, {"rwnd"}) = About(RwndLimited(conns), c)
         /\ {f \in Findings : f.rule = "rcvbuf"} = ByProc(conns, "rcvbuf", "RCVBUF_LIM")
<1> DEFINE senders == RwndLimited(conns)
           readers == ByProc(conns, "rcvbuf", "RCVBUF_LIM")
<1>1. /\ \A f \in report : f.rule = "rwnd" => f \in senders
      /\ \A f \in report : f.rule = "rcvbuf" => f \in readers
  BY RulesOfReport DEF ReportInv
<1>2. senders \subseteq report /\ readers \subseteq report
  BY AnalyzeIs DEF ReportInv, SocketRules, BufferRules
<1>3. (\A f \in senders : f.rule = "rwnd") /\ (\A f \in readers : f.rule = "rcvbuf")
  BY RwndLimitedSound, ByProcSound DEF Sound
<1> HIDE DEF senders, readers
<1>4. Findings = report
  BY DEF Findings
<1>5. Naming(c, {"rwnd"}) = About(senders, c) /\ {f \in Findings : f.rule = "rcvbuf"} = readers
  BY <1>1, <1>2, <1>3, <1>4 DEF About, Naming
<1> QED BY <1>5 DEF senders, readers

(* A flow between two sockets of this host that the window limits is named *)
(* by exactly one finding about windows: its receiver's, when a buffer of  *)
(* its own caps the flow, else its sender's.                               *)
THEOREM LocalFlowSafety == Spec => []LocalFlowToldOnce
<1>1. ReportInv /\ FlowInv => LocalFlowToldOnce
  <2> SUFFICES ASSUME ReportInv, FlowInv, Analysed, NEW c \in conns, Warned(c, {"RWND_LIM"})
               PROVE  Exactly(1, Naming(c, {"rwnd"}) \cup
                                 {f \in Findings : f.rule = "rcvbuf" /\ LocalPeers(conns, c) \cap f.conns # {}})
    BY DEF LocalFlowToldOnce
  <2> DEFINE peers   == LocalPeers(conns, c)
             capped  == Carrying(conns, {"RCVBUF_LIM"})
             readers == ByProc(conns, "rcvbuf", "RCVBUF_LIM")
             other   == {f \in Findings : f.rule = "rcvbuf" /\ peers \cap f.conns # {}}
  <2>1. other = {f \in readers : peers \cap f.conns # {}}
    BY FlowsNamed
  <2>2. \A f \in readers : f.conns \subseteq capped
    BY ByProcOnce
  <2>3. Naming(c, {"rwnd"}) = About(RwndLimited(conns), c) /\ BlamesOnce(RwndLimited(conns), WindowBound(conns), c)
    BY FlowsNamed, RwndLimitedOnce
  <2>4. c \in Carrying(conns, {"RWND_LIM"})
    BY DEF Carrying, Warned
  <2>5. peers \subseteq conns
    BY DEF LocalPeers
  <2>6. CASE c \in WindowBound(conns)
    <3>1. peers \cap capped = {}
      BY <2>6, CarryingIs DEF WindowBound
    <3>2. other = {}
      BY <2>1, <2>2, <3>1
    <3>3. \E f : Naming(c, {"rwnd"}) = {f}
      BY <2>3, <2>6 DEF BlamesOnce
    <3>4. \E f : Naming(c, {"rwnd"}) \cup other = {f}
      BY <3>2, <3>3
    <3> QED BY <3>4, ExactlyOnce
  <2>7. CASE c \notin WindowBound(conns)
    <3>1. PICK d \in peers : Signalled(d.Signals, {"RCVBUF_LIM"})
      BY <2>4, <2>7 DEF WindowBound
    <3>2. d \in capped
      BY <2>5, <3>1 DEF FlowInv, Capped
    <3>3. ASSUME NEW e \in peers \cap capped
          PROVE  e = d
      <4>1. /\ d \in conns /\ d \in Capped(conns)
            /\ e \in conns /\ e \in Capped(conns)
        BY <2>5, <3>1, <3>3, CarryingIs DEF Capped
      <4>2. /\ d.Protocol = "tcp" /\ e.Protocol = "tcp"
            /\ Endpoint(d) = <<c.LocalAddr, c.LocalPort>> /\ <<d.LocalAddr, d.LocalPort>> = Endpoint(c)
            /\ Endpoint(e) = <<c.LocalAddr, c.LocalPort>> /\ <<e.LocalAddr, e.LocalPort>> = Endpoint(c)
        BY DEF LocalPeers
      <4>3. d.State # "LISTEN" /\ e.State # "LISTEN"
        BY <4>1, <4>2 DEF FlowInv
      <4>4. SameConnection(e, d)
        BY <4>2, <4>3, SameIs DEF Endpoint
      <4> QED BY <4>1, <4>3, <4>4 DEF FlowInv, Distinct
    <3>4. \A f \in readers : peers \cap f.conns # {} <=> d \in f.conns
      BY <2>2, <3>1, <3>3
    <3>5. other = About(readers, d)
      BY <2>1, <3>4 DEF About
    <3>6. \E f : other = {f}
      <4>1. BlamesOnce(readers, capped, d)
        BY ByProcOnce
      <4> HIDE DEF other, readers, capped
      <4> QED BY <3>2, <3>5, <4>1 DEF BlamesOnce
    <3>7. Naming(c, {"rwnd"}) = {}
      BY <2>3, <2>7 DEF BlamesOnce
    <3>8. \E f : Naming(c, {"rwnd"}) \cup other = {f}
      BY <3>6, <3>7
    <3> QED BY <3>8, ExactlyOnce
  <2> QED BY <2>6, <2>7
<1>2. Init => FlowInv
  BY DEF Init, FlowInv, Distinct, Analysed
<1>3. ReportInv /\ FlowInv /\ [Next]_vars => FlowInv'
  BY FlowStep
<1> QED BY <1>1, <1>2, <1>3, ReportInvariant, PTL DEF Spec
=============================================================================
