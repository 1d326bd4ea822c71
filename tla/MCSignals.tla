----------------------------- MODULE MCSignals -----------------------------
(***************************************************************************)
(* Signals on two TCP sockets toward one peer and a UDP socket.  A scene   *)
(* opens the inputs of one question and holds the others still.            *)
(***************************************************************************)
EXTENDS Signals

Idle == [sent |-> 0, retrans |-> 0, data |-> 0, ooo |-> 0, drops |-> 0, want |-> 0, backlog |-> 0,
         recvq |-> 0, queue |-> 0]
Trickle == [Idle EXCEPT !.sent = 500]
Clean == [Idle EXCEPT !.sent = 20000]
Lossy == [Clean EXCEPT !.retrans = 20]
Filling == [Lossy EXCEPT !.queue = 8]
Fetch == [Idle EXCEPT !.data = 20]
Gaps == [Fetch EXCEPT !.ooo = 1]
GapsFilling == [Gaps EXCEPT !.queue = 8]
Discards == [Fetch EXCEPT !.drops = 1]
Probe == [Idle EXCEPT !.drops = 1]
Overrun == [Fetch EXCEPT !.drops = 2, !.want = 2, !.recvq = 60]
Backlog == [Fetch EXCEPT !.drops = 2, !.want = 2, !.backlog = 2]
Slow == [Fetch EXCEPT !.recvq = 60]

Answer(tcp, udp, proc) == [tcp |-> tcp, udp |-> udp, sys |-> proc]
Works == Answer(TRUE, TRUE, TRUE)

(* A scene in which socket a does one of these, and the others keep still. *)
Scene(gaps, a, b, u, answers, length) ==
  [gaps |-> gaps, growth |-> [s \in {"a", "b", "u"} |-> CASE s = "a" -> a [] s = "b" -> b [] s = "u" -> u],
   answers |-> answers, counters |-> TRUE, polls |-> length]

Jitter == Scene({1900, 2100}, {Trickle, Clean, Lossy}, {Idle}, {Idle}, {Works}, 6)
Quick == Scene({1000, 2000}, {Trickle, Lossy}, {Idle}, {Idle}, {Works}, 6)
Long == Scene({2000}, {Trickle, Lossy}, {Idle}, {Idle}, {Works}, 9)
Queues == Scene({2000}, {Lossy, Filling}, {Idle, Filling}, {Idle}, {Works}, 6)
Inbound == Scene({2000}, {Fetch, Gaps, GapsFilling}, {Idle}, {Idle}, {Works}, 6)
Old == [Scene({2000}, {Idle, Lossy, Gaps}, {Idle, Clean}, {Idle}, {Works}, 3) EXCEPT !.counters = FALSE]
First == Scene({2000}, {Idle, Lossy, Gaps}, {Idle, Clean}, {Idle}, {Works, Answer(FALSE, TRUE, TRUE)}, 3)
Drops == Scene({2000}, {Idle, Discards, Probe, Overrun, Backlog, Slow}, {Idle, Overrun}, {Idle, Slow}, {Works}, 3)
Partly == Scene({2000}, {Idle, Discards, Overrun}, {Idle}, {Idle, Overrun},
                {Works, Answer(TRUE, FALSE, FALSE), Answer(FALSE, TRUE, TRUE)}, 3)

AllScenes == {Jitter, Quick, Long, Queues, Inbound, Old, First, Drops, Partly}

(* ss fails outright now and then; /proc is read all the same. *)
Failing == {Scene({2000}, {Idle, Slow, Overrun}, {Idle}, {Idle}, {Works, Answer(FALSE, FALSE, TRUE)}, 4)}

(* Polls of --interval 5s: the TUI waits it out after each answer of ss.   *)
SlowPolls == {Scene({5010}, {Lossy, Gaps}, {Idle}, {Idle}, {Works}, 6)}
=============================================================================
