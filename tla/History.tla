------------------------------ MODULE History ------------------------------
(***************************************************************************)
(* What the history buffer promises its readers, without the ring: the     *)
(* last BufferSize polls in the order they were taken, of which only the   *)
(* newest still carries its connections in full detail (the Snapshot type  *)
(* of poller/poller.go).  Buffer implements it with a ring of slots; the   *)
(* session and the views are specified over it.                            *)
(***************************************************************************)
EXTENDS Integers, Sequences

CONSTANTS
  BufferSize,     \* how many snapshots are kept, at least one
  Slim(_)         \* a snapshot without its full-detail connections

VARIABLE hist     \* the snapshots kept, oldest first

(* The newest BufferSize elements of s. *)
Newest(s) ==
  IF Len(s) > BufferSize THEN SubSeq(s, Len(s) - BufferSize + 1, Len(s)) ELSE s

(* The kept snapshots once `snap` is published after those of h: the       *)
(* outgoing latest gives up its connections, and the oldest falls off.     *)
Published(h, snap) ==
  Newest(Append([i \in DOMAIN h |-> IF i = Len(h) THEN Slim(h[i]) ELSE h[i]], snap))

(* The newest first: 0 is the latest snapshot, 1 the one before it. *)
FromEnd(h, offset) == h[Len(h) - offset]

Init == hist = <<>>

(* A poll is published; `hist'` names the snapshot it published. *)
Add ==
  /\ hist' # <<>>
  /\ hist' = Published(hist, hist'[Len(hist')])

Spec == Init /\ [][Add]_hist
=============================================================================
