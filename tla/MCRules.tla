------------------------------ MODULE MCRules ------------------------------
(***************************************************************************)
(* Rules over a catalogue of sockets, each near one of the rules, or where *)
(* two of them meet.                                                       *)
(***************************************************************************)
EXTENDS Rules, TLC

(* A healthy connection; an unprivileged sstui sees no process. *)
Blank ==
  Connection([Protocol |-> "tcp", State |-> "ESTAB", LocalAddr |-> "host", LocalPort |-> 22, PeerAddr |-> "p1",
              PeerPort |-> 443, SndWnd |-> 65535, Timestamps |-> TRUE])

Tcp(port, peer) == [Blank EXCEPT !.LocalPort = port, !.PeerAddr = peer]
Udp(port, pid) ==
  [Blank EXCEPT !.Protocol = "udp", !.State = "UDP_CONN", !.LocalPort = port, !.PID = pid]
Listening(pid) ==
  [Blank EXCEPT !.State = "LISTEN", !.LocalPort = 80, !.PeerAddr = "*", !.PeerPort = "*", !.PID = pid,
                !.RecvQ = 0, !.SendQ = 10]

(* Receivers that dropped two segments while data arrived: because their   *)
(* buffer was full, because memory was refused, and by design.             *)
Full == [SkmemR |-> 90, HostBufferDrops |-> TRUE, RcvSSThresh |-> 90]
Refused == [SkmemR |-> 1, HostBufferDrops |-> TRUE, RcvSSThresh |-> 4]
ByDesign == [SkmemR |-> 90, HostBufferDrops |-> FALSE, RcvSSThresh |-> 90]
Dropping(c, why) ==
  why @@ [c EXCEPT !.PID = 1, !.DeltaSkmemD = 2, !.DeltaDataSegsIn = 5, !.SkmemRB = 100, !.AdvMSS = 2,
                   !.HostBacklogDrops = FALSE]
Pressed(c) == [c EXCEPT !.PID = 1, !.RecvQ = 60, !.PrevRecvQ = 60, !.SkmemRB = 100]

SendSlot(i) == [start |-> 2000 * i, end |-> 2000 * i + 2000, sent |-> 1000, retrans |-> 2, reord |-> 0, queue |-> <<1, 2>>]
RecvSlot(i) == [start |-> 2000 * i, end |-> 2000 * i + 2000, segs |-> 20, ooo |-> 1, rtts |-> <<10, 11>>]
Losing(c, slots) == [c EXCEPT !.MinRTT = 10, !.SendSlots = [i \in 1 .. slots |-> SendSlot(i)]]
Gapped(c, slots) == [c EXCEPT !.MinRTT = 10, !.RecvSlots = [i \in 1 .. slots |-> RecvSlot(i)]]
Stuck(c) ==
  [c EXCEPT !.TimerType = "on", !.TimerRetrans = 3, !.Unacked = 3, !.PrevUnacked = 3, !.MSS = 1460,
            !.DeltaBytesAcked = 0, !.LastAck = 4000]
Hanging(c) == [Stuck(c) EXCEPT !.Delivered = 1]

Sending(c) == [c EXCEPT !.DeltaBytesSent = 50000]
Local(from, to) == [Blank EXCEPT !.LocalPort = from, !.PeerAddr = "host", !.PeerPort = to]

Catalogue == {
  Pressed(Tcp(10, "p1")), Dropping(Tcp(11, "p2"), Full), Dropping(Tcp(12, "p1"), Refused),
  Dropping(Tcp(13, "p2"), ByDesign), Dropping(Pressed(Tcp(14, "p1")), ByDesign),
  Dropping(Pressed(Tcp(15, "p2")), Full),
  [Udp(16, 1) EXCEPT !.DeltaSkmemD = 2], [Udp(17, None) EXCEPT !.DeltaSkmemD = 2], Udp(18, 1),
  [Listening(1) EXCEPT !.RecvQ = 11], [Listening(1) EXCEPT !.DeltaSkmemD = 2],
  [Listening(2) EXCEPT !.DeltaSkmemD = 1, !.LocalPort = 81],
  [Tcp(20, "p1") EXCEPT !.State = "SYN-SENT", !.TimerRetrans = 3],
  [Tcp(80, "p2") EXCEPT !.State = "SYN-RECV"],
  Losing(Tcp(21, "p1"), 4), Losing(Tcp(22, "p2"), 4), Losing(Tcp(23, "p3"), 2),
  Stuck(Tcp(24, "p1")), Stuck(Losing(Tcp(25, "p2"), 4)), [Tcp(26, "p1") EXCEPT !.DeltaBytesAcked = 5],
  Hanging(Tcp(27, "p1")), Hanging(Tcp(28, "p2")),
  Dropping(Gapped([Tcp(29, "p1") EXCEPT !.DeltaRcvOOOPack = 3], 4), Full), Gapped(Tcp(30, "p2"), 4), Gapped(Tcp(31, "p3"), 2),
  [Sending(Local(32, 33)) EXCEPT !.DeltaRwndLimitedMS = 1000, !.PrevDeltaRwndLimitedMS = 1000],
  [Local(33, 32) EXCEPT !.PID = 2, !.RcvRTT = 100, !.RcvWnd = 1000, !.SkmemRB = 9000, !.RecvQ = 0,
                        !.DeltaBytesReceived = 20000, !.PrevDeltaBytesReceived = 20000],
  [Pressed(Local(33, 32)) EXCEPT !.PID = 2],
  [Sending(Local(34, 33)) EXCEPT !.PID = 1, !.TimerType = "persist", !.SndWnd = None],
  [Tcp(35, "p1") EXCEPT !.State = "CLOSE-WAIT", !.PID = 1], [Tcp(36, "p2") EXCEPT !.State = "CLOSE-WAIT", !.PID = 1],
  [Tcp(37, "p1") EXCEPT !.State = "TIME-WAIT"], [Tcp(38, "p1") EXCEPT !.State = "TIME-WAIT"],
  [Sending(Tcp(39, "p3")) EXCEPT !.PID = 2, !.MinRTT = 10, !.RTT = 60, !.PMTU = 1400, !.AdvMSS = 1448, !.MSS = 1000,
     !.DeltaSndbufLimitedMS = 1500, !.PrevDeltaSndbufLimitedMS = 600,
     !.SendSlots = [i \in 1 .. 5 |-> [SendSlot(i) EXCEPT !.sent = 100000, !.reord = 1, !.retrans = 0]]]
}

Quiet ==
  [overflows |-> FALSE, refused |-> FALSE, cookies |-> FALSE, udpErrors |-> FALSE, discarded |-> FALSE,
   level |-> 0, retrans |-> 0, steady |-> 0, slots |-> 0, ssFilter |-> FALSE]
HostCases == {
  Quiet,
  [Quiet EXCEPT !.overflows = TRUE, !.refused = TRUE, !.discarded = TRUE],
  [Quiet EXCEPT !.refused = TRUE, !.cookies = TRUE, !.udpErrors = TRUE, !.level = 1],
  [Quiet EXCEPT !.udpErrors = TRUE, !.ssFilter = TRUE, !.cookies = TRUE, !.level = 2],
  [Quiet EXCEPT !.retrans = 5, !.steady = 2, !.slots = 4]}
=============================================================================
