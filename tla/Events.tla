------------------------------- MODULE Events -------------------------------
(***************************************************************************)
(* ui/events.go and the keys of main.go that drive the Events tab: the     *)
(* onsets of signals over the whole history buffer, their cache, and the   *)
(* window of them on screen.  A snapshot is the sequence of its samples in *)
(* the order of their keys; a sample's signals are a sequence too.  The    *)
(* tab always shows the whole buffer, whatever moment the other tabs show. *)
(***************************************************************************)
EXTENDS Integers, SequencesExt

CONSTANTS
  BufferSize,      \* snapshots the buffer holds
  Snapshots,       \* the samples a poll may bring
  Steps,           \* how far apart in time two polls may be
  Heights,         \* heights of the tab's content
  MaxPolls         \* bound on the polls

(* A sample has one signal of a type at most: Classify appends each once.  *)
Sampled(sample) ==
  /\ sample.key \in Int
  /\ sample.signals \in Seq({sample.signals[n] : n \in DOMAIN sample.signals})
  /\ \A m, n \in DOMAIN sample.signals : sample.signals[m].type = sample.signals[n].type => m = n

ASSUME EventsAssumption ==
  /\ BufferSize \in Nat \ {0}
  /\ Steps \subseteq Nat \ {0}
  /\ Heights \subseteq Nat \ {0}
  /\ \A samples \in Snapshots :
       /\ samples \in Seq({samples[i] : i \in DOMAIN samples})
       /\ \A i \in DOMAIN samples : Sampled(samples[i])
       /\ \A i, j \in DOMAIN samples : i < j => samples[i].key < samples[j].key

VARIABLES
  ring,            \* the snapshots of the buffer: their time and samples
  lastUpdate,      \* poller.Buffer.LastUpdate
  cache,           \* evCacheVersion and evCacheEvents; events of no update before
  open,            \* the Events tab is the one shown
  scroll,          \* eventsScroll: events skipped from the newest
  height,          \* contentHeight
  polls

vars == <<ring, lastUpdate, cache, open, scroll, height, polls>>

-----------------------------------------------------------------------------
(* CollectEvents.                                                          *)

HasSignal(signals, type) == \E i \in DOMAIN signals : signals[i].type = type

(* Where the merge stands in prev when it comes to a key: at the first     *)
(* sample that is not before it.  Past the end when there is none.         *)
Pointer(prev, key) == Cardinality({j \in DOMAIN prev : prev[j].key < key}) + 1

(* Mutant: the merge stops one sample early. *)
BeforeShort(prev, key) ==
  LET j == Pointer(prev, key)
  IN  IF j < Len(prev) /\ prev[j].key = key THEN prev[j].signals ELSE <<>>

(* The signals the connection had a poll before; none when it was absent. *)
Before(prev, key) ==
  LET j == Pointer(prev, key)
  IN  IF j <= Len(prev) /\ prev[j].key = key THEN prev[j].signals ELSE <<>>

(* The onsets among the signals of a sample, in the order of the signals.  *)
EventsOf(at, prev, sample) ==
  LET before == Before(prev, sample.key)
      onset(s) == s.sev > 0 /\ ~HasSignal(before, s.type)
      event(s) == [at |-> at, key |-> sample.key, type |-> s.type, sev |-> s.sev]
      events[n \in 0 .. Len(sample.signals)] ==
        IF n = 0 THEN <<>>
        ELSE IF onset(sample.signals[n]) THEN Append(events[n - 1], event(sample.signals[n])) ELSE events[n - 1]
  IN  events[Len(sample.signals)]

(* Oldest first; the oldest snapshot is compared with nothing. *)
CollectEvents(snaps) ==
  FlattenSeq([k \in DOMAIN snaps |->
    LET prev == IF k = 1 THEN <<>> ELSE snaps[k - 1].samples
    IN  FlattenSeq([i \in DOMAIN snaps[k].samples |-> EventsOf(snaps[k].at, prev, snaps[k].samples[i])])])

(* Mutant: the cache is told apart by the number of snapshots. *)
CachedByCount(c, snaps, updated) ==
  IF c.version = Len(snaps) THEN c ELSE [version |-> Len(snaps), events |-> CollectEvents(snaps)]

(* collectEventsCached: the cache after a read of it. *)
Cached(c, snaps, updated) ==
  IF c.version = updated THEN c ELSE [version |-> updated, events |-> CollectEvents(snaps)]

-----------------------------------------------------------------------------
(* The window on screen.                                                   *)

Rows(h) == IF h - 5 < 1 THEN 1 ELSE h - 5

MaxEventsScroll(events, h) == Max({0, Len(events) - Rows(h)})

Clamped(n, events, h) == Max({0, Min({n, MaxEventsScroll(events, h)})})

(* RenderEvents: the events on screen, by their place in the list. *)
Window(events, h, skipped) ==
  LET newest == Len(events) - Clamped(skipped, events, h)
  IN  {i \in DOMAIN events : i <= newest /\ i > newest - Rows(h)}

-----------------------------------------------------------------------------
Init ==
  /\ ring = <<>> /\ lastUpdate = 0 /\ polls = 0
  /\ cache = [version |-> -1, events |-> <<>>]
  /\ open = FALSE /\ scroll = 0
  /\ height \in Heights

(* The tab is rendered after every message while it is shown. *)
Render == cache' = IF open' THEN Cached(cache, ring', lastUpdate') ELSE cache

Poll(samples, step) ==
  /\ polls < MaxPolls
  /\ polls' = polls + 1
  /\ lastUpdate' = lastUpdate + step
  /\ LET longer == Append(ring, [at |-> lastUpdate', samples |-> samples])
     IN  ring' = IF Len(longer) > BufferSize THEN Tail(longer) ELSE longer
  /\ UNCHANGED <<open, scroll, height>>
  /\ Render

Switch ==
  /\ open' = ~open
  /\ UNCHANGED <<ring, lastUpdate, scroll, height, polls>>
  /\ Render

Resize(h) ==
  /\ height' = h
  /\ UNCHANGED <<ring, lastUpdate, open, scroll, polls>>
  /\ Render

(* A key of the tab moves the window; those that go down are clamped. *)
Scroll(n) ==
  /\ open
  /\ scroll' = n
  /\ UNCHANGED <<ring, lastUpdate, open, height, polls>>
  /\ Render

Shown == Cached(cache, ring, lastUpdate).events

Down == Scroll(Clamped(scroll + 1, Shown, height))
Up == Scroll(Max({0, scroll - 1}))

(* Mutant: a page is what the content's height holds. *)
PageDownWhole == Scroll(Clamped(scroll + height, Shown, height))

PageDown == Scroll(Clamped(scroll + height - 6, Shown, height))
PageUp == Scroll(Max({0, scroll - (height - 6)}))
Top == Scroll(0)
Bottom == Scroll(MaxEventsScroll(Shown, height))

Next ==
  \/ \E samples \in Snapshots, step \in Steps : Poll(samples, step)
  \/ Switch
  \/ \E h \in Heights : Resize(h)
  \/ Down \/ Up \/ PageDown \/ PageUp \/ Top \/ Bottom

Spec == Init /\ [][Next]_vars

-----------------------------------------------------------------------------
(* What the tab must show.                                                 *)

SampleAt(k, key) == {i \in DOMAIN ring[k].samples : ring[k].samples[i].key = key}
Carried(k, key, type) == \E i \in SampleAt(k, key) : HasSignal(ring[k].samples[i].signals, type)

(* The events are the onsets, each once and in the order of time: a signal *)
(* at warn or worse that the connection did not carry at all a poll before *)
(* (the comment of Event), whatever samples came and went around it.       *)
EventsAreOnsets ==
  LET events == CollectEvents(ring)
      signalsOf(k, i) == ring[k].samples[i].signals
      onsetsOf(k, i) == {[at |-> ring[k].at, key |-> ring[k].samples[i].key, type |-> s.type, sev |-> s.sev] :
                           s \in {signalsOf(k, i)[n] : n \in DOMAIN signalsOf(k, i)}}
      onsets == UNION {UNION {{e \in onsetsOf(k, i) : e.sev > 0 /\ (k > 1 => ~Carried(k - 1, e.key, e.type))} :
                                i \in DOMAIN ring[k].samples} : k \in DOMAIN ring}
  IN  /\ {events[i] : i \in DOMAIN events} = onsets
      /\ Len(events) = Cardinality(onsets)
      /\ \A i, j \in DOMAIN events : i < j => events[i].at <= events[j].at

(* What is on screen is of the buffer as it is now, though the scan of the *)
(* whole buffer is kept from one key to the next: a full ring has as many  *)
(* snapshots after a poll as before.                                       *)
CacheIsCurrent == open => cache.events = CollectEvents(ring)

(* Paging through the events skips none of them, in a window of two rows   *)
(* or more.                                                                *)
PagesLeaveNoGap ==
  [][PageDown /\ Rows(height) > 1 =>
       LET old == Window(Shown, height, scroll)
           new == Window(Shown, height, scroll')
       IN  old = {} \/ new = old \/ old \cap new # {}]_vars

=============================================================================
