# sstui in TLA+

`sstui` is a terminal UI over `ss`: it polls the host's sockets, keeps a short history of
them, classifies what is wrong with each connection, turns that into findings about the host,
and lets the user step back through the history. `sstui check`, `record`, `replay` and
`report` run the same pipeline without the UI, once or from a file. This directory is a
specification of that program: what its state is, how it moves, what it promises, and which of
those promises were model-checked and which proved.

## 1. The system

| Part | Source | State it keeps | Operations |
|---|---|---|---|
| History buffer | `poller/poller.go` | ring of snapshots, head, count, last poll's connections by key | `AddSnapshotAt`, `GetLatest`, `SnapshotFromEnd`, `GetAll`, `LookupRecent` |
| Samples | `poller/sample.go` | compact copies of connections, an interner | `newSample`, `Conn`, demotion of a snapshot |
| Exports | `poller/export.go`, `main.go` | a goroutine holding pointers taken from the ring | `ExportJSON`, `ExportCSV` |
| Host counters | `poller/sysstat.go`, `sysctl.go` | the last two reads of `/proc/net`, and a window of them | read, diff, slots of a window |
| Session | `session/session.go` | the buffer, reads, a report per snapshot, the tracker | `Poll`, `Ingest`, `ReportFor` |
| Findings | `findings/*.go` | the age of each finding | `Analyze` (21 rules), `Tracker.Update` |
| Timeline, change log | `session/timeline.go`, `commands.go` | occurrences by finding | `Add`, `Worst`, `update` |
| Recording | `session/recording.go` | a gzip'd file of lines, the last settings written | `Create`, `Write`, `Close`, `Open`, `Next` |
| Commands | `commands.go` | a loop, a ticker, a context, a deadline | `check`, `record`, `replay`, `report` |
| TUI | `main.go` | `AppModel`: pause, scrub, selections, tab, filter prompt, flags | messages and keys |
| Table, filter | `ui/table.go`, `ui/filter.go` | cursor, page, selected key, sort, filter expression | moves, `reselect`, matching |
| Events | `ui/events.go` | a cache of signal onsets, the scroll of their window | `CollectEvents`, the tab's keys |
| Reverse DNS | `ui/resolver.go` | cache, look-ups in flight, switch | `display`, `resolve`, `toggle` |
| Classifier | `classifier/classifier.go` | none | `Classify`, `ClassifyAggregate` |
| Parser | `parser/parser.go` | none | run `ss`, fall back, merge, scan, fill omitted zeros |
| Views | `ui/overview.go`, `top.go`, `perf.go`, `detail.go`, ... | none | render |

How they meet. The TUI is one goroutine that handles messages in turn; a poll and an export
each run on a goroutine of their own and report by a message. One poll is in flight at a time,
because the handler of a poll's result arms the tick that starts the next. The poll's goroutine
writes to the recorder; the UI goroutine ingests the result into the session, which adds to the
buffer, reads the classifier and the rules, and dates the findings. Export goroutines read the
buffer under its lock and the snapshots after it. In `record` and `check` one loop polls and
ingests; beside it run the ticker, the goroutine of `signal.NotifyContext`, and `ss` itself,
which a Ctrl-C reaches directly. `replay` and `report` feed the session from a file.

What is hard here: index arithmetic that only matters once the ring wrapped; pointers
that outlive the lock; deltas, slots and host counters that must tell of the same interval; rules
that divide the blame between them, each in its own words; two bounded histories that must shift
together, through failed polls; state of the screen (offset, table, selected finding) that each
poll invalidates; a clock that is monotonic live and not in a recording; a file that must make
sense wherever the process died; signals that reach two processes at once. `PROJECT.json`
lists these hazards line by line with the properties that catch them.

What makes each part correct: the buffer is a bounded history of what was polled; an export is
one instant of it; the session keeps one report per snapshot and dates findings from the start
of their episode; the log and the exit status agree with the ages; a recording replays to what
was seen; every view shows the moment it claims to show, and the selection stays with its
subject; a signal says what the kernel counted; a finding shows all its sockets, and no socket
or counter is blamed twice for one thing; an event is an onset.

## 2. Modules

| Module | Models | Notes |
|---|---|---|
| `History` | what the buffer promises | a sequence of at most `BufferSize` snapshots, all but the newest slim |
| `Buffer` | `poller.go`, `sample.go`, `export.go` | heap of snapshots, ring of pointers, the writer's two critical sections, export goroutines |
| `Session` | `session.go`, `timeline.go`, `Tracker`, `changeLog` | takes the buffer at its promise (`H == INSTANCE History`) |
| `TimeTravel` | `main.go`, `ui/findings.go` | composes `Session` (`S == INSTANCE Session`) with the poll loop, the recorder, pause, scrub, selection, exports, replay |
| `Record` | `record`, `watch`, `RunSS`, `recording.go` | with the ticker, signals, the cancelled context, `ss` and `kill -9` |
| `Classifier` | `classifier.go`, helpers of `model` | a connection's signals as operators, no state |
| `Signals` | `parser.go`, `poller.go`, `session.go` | extends `Classifier`: kernel counters, what `ss` lists of them, deltas, slots, path queues, signals |
| `Rules` | `findings/rules.go` | extends `Classifier`: one operator per rule, from a classified poll to its findings |
| `Events` | `ui/events.go`, its keys in `main.go` | onsets over the buffer, the cache, the window |
| `Table` | `TableModel` of `ui/table.go` | its methods as operators from a table to a table |
| `Navigation` | `main.go`: tabs, help, filter prompt, drilling in | extends `Table`; every message ends with the resize of `Update` |
| `Filter` | the parser of `ui/filter.go` | and the grammar of its comment, as a second definition |
| `Resolver` | `ui/resolver.go` | frames, look-ups on goroutines |
| `*_proofs` | | the theorems about `Buffer`, `Session`, `TimeTravel`, `Rules`, `Events`, `Record`, `Navigation` (with `Resolver` and `Filter`), `Signals` |
| `MC*` | | small instances for TLC |

How state corresponds to code:

* `Buffer`. `heap` is Go's heap, a pointer an index into it; the distinction matters because
  `demote` replaces a snapshot by a copy instead of stripping it in place, for the readers that
  hold the old one. `ReadPrevs` is the read-locked part of `AddSnapshotAt`, `Publish` the rest:
  the unlocked middle part touches only the new connections. When two sockets of one poll share
  a key `prevMap` keeps either (`ByKey`). Readers that hold the lock throughout are operators,
  the exports actions. `log` remembers every poll, for the properties only. A connection is its
  socket, one byte counter and its delta: `Signals` has the other counters.
* `Session`. A snapshot is its time and the problems its sockets show, a map from finding IDs to
  severities; classification and rules are abstracted to that map. One finding, `HostId`,
  depends on a host counter having grown between the two reads the session holds. `Ingest` is
  one action, like the function: one goroutine owns a session. A poll is whether `ss` failed and
  what it listed: `None` where nothing came back, else the problems that shows, so that a failure
  half way has sockets, and `NoData` decides as `Ingest` does. Times are ticks. `HasReport(ts)`
  and `ReportFor(ts)` are the two results of the Go function of that name.
* `TimeTravel`. Each message and key handler is an action; `phase` is where `runTUI` is, `poll`
  and `msg` the poll loop and its message. A poll is recorded when its goroutine ends
  (`PollDone`), possibly after the UI has quit, and ingested when its message is handled
  (`PollResult`); `Answers` are what `ss` may come back with. Keys of the Findings tab may come at
  any time; the other tabs' keys and the filter prompt are in `Navigation` and `Events`, and none of
  them touches the state here.
* `Record`. `pc` is where the loop of `watch` is. `RunSS` is three stages of queries, each of
  which may fail of its own or be killed along with `sstui` (`hit`). A write that fails may have
  left nothing of its line, a part, or all of it, and `Close` may fail of itself; that a line cannot
  be encoded is left out, for JSON refuses only numbers that `ss` does not print. The reader is a
  function of the file (`Replayed`, `Unclosed`), so it is checked on every file any run can leave behind.
* `Classifier`. A connection is a record with the fields of `model.Connection` that are read,
  under their names; `None` is a nil pointer. A signal is its type and severity, and each
  condition is one operator. Thresholds on counts of sockets are constants, so that few sockets
  reach them; those on rates and times are the code's. `ClassifyAggregate` is the part that
  looks across connections.
* `Signals`. `kernel` counts whether or not it is asked. A row is what `ss` prints of it, a zero
  being left out, and `fillOmittedZeros` puts back what the poll's other rows show the kernel
  to know. A stored poll takes deltas against the last snapshot, advances the send and receive
  slots, shares the queue of a path among its sockets, and classifies. `log` is what the kernel
  held at each stored poll: the properties judge signals by it. The TCP query, the UDP query and
  `/proc` fail apart. Sockets keep their identity: the reuse of a tuple is `Buffer`'s subject.
* `Rules`. `Scan` adds a socket to the poll, `Ingest` classifies and analyses it. A finding is
  its rule and key, its severity, the sockets it is about (`conns`), and `shows`, the sockets of
  the poll that its filter selects: the filter is modelled by what it matches, from the terms
  the rule writes. The peer, process and port of a socket are fields of its record.
* `Events`. The ring is the buffer at its promise, a snapshot the sorted sequence of its
  samples. The merge of `CollectEvents` is modelled by where its pointer stands when it comes to
  a key (`Pointer`, `Before`), and the property defines an onset by look-up instead. The program
  renders after every message, so each action ends with `Render`, which fills the cache while
  the tab is open.
* `Table` and `Navigation`. A table is a record with the fields of `TableModel`; `cached` is
  `cachedConns`, and `None` where Go has a nil slice, which an empty result also is. A snapshot
  gives the order of its connections for each sort mode. Two connections may have one key, as
  sockets without an inode do. What a poll or a step in time brings into view is any snapshot:
  `TimeTravel` says which. `prompt` holds the fields of the filter input; the text in it is a
  query, the empty text, or one that `SetQuery` rejects; a `Blank` query, as `()`, is accepted
  and parsed to no expression, so that the filter has a text and is not active.
* `Filter`. A connection is the set of terms it matches and a parsed node the set of connections
  it selects, so two expressions are compared by what they let through. The state is the text in
  the prompt, typed token by token. A method takes the parser of the text, `run`, for the calls it
  makes; `Parser` ties them together as one recursive function from calls to results, a loop
  being a call with what was parsed before it. The grammar is a definition by spans of the text:
  what tokens `i` to `j` mean as an `or`, an `and`, a `not`, a primary.
* `Resolver`. Each critical section of `resolver.mu` is an action; `lookups` counts the
  goroutines, which the code does not.

## 3. What is checked

Every passing property has a mutant of the code, in the module, under which TLC finds it
violated (`PROJECT.json`, "mutants").

| Run | Question | Instance |
|---|---|---|
| `buffer` | Is an offset an age, is a delta of one socket and one poll, is an export one instant, is the ring a `History`? | ring of 2 with 4 polls, so it wraps twice; two sockets of one tuple, one with its inode hidden; an export at any time, and again |
| `session` | Does each snapshot keep its report, do ages and log tell the same story, do trimmed reads and slots cover the window? | buffer of 3, grace of 1, five polls 1 or 3 ticks apart, window of 5 and slots of at least 2; `ss` failing at any poll, with nothing or with what it listed before it failed, or listing no problem; `/proc` unreadable at any poll |
| `timetravel` | Does every view show its moment, and the file what was seen, under any interleaving? | live with `--record` and replay, buffer of 2, two findings, three polls, which fail with and without data |
| `record` | What does the file hold, wherever the command ended? | durations "2 polls" and "until stopped", at most 3 polls, settings that change and change back; a write, or the close, failing at any point |
| `signals` | Do signals say what the kernel counted? | nine scenes of two TCP sockets and a UDP one, below |
| `rules` | Is every socket blamed, once, and shown, and the host only for what no socket tells? | up to four sockets of a catalogue of 34, five states of the host |
| `events` | Are the events the onsets, and is none skipped by paging? | ring of 3, four polls, windows of 2 and 3 rows |
| `navigation` | Does the highlight stay with its connection, on screen, and the prompt with its tab? Does the filter change only when a query is accepted? | three connections, two under one key, one of which is there unless none is; two sort modes, the second in the order of the first or against it, a query of a term and one without, pages of one to three rows |
| `input` | Does a query select what the grammar says, and what is overlooked in a text that is none? One look-up at a time, names in the end? | every text of up to five tokens over two terms and an unknown one; three addresses and two other names over a cache of two |
| `record_interrupt` | *violation*: our own interrupt is not recorded | Ctrl-C kills `ss` before the context is cancelled |
| `signals_failed` | *violation*: drops for want of buffer are blamed | `ss` fails between two good polls |
| `signals_slow` | *violation*: loss is told as documented | polls of `--interval 5s`, as the TUI spaces them |

The bounds. A ring of 2 wraps within four polls and then each slot is the newest and the oldest in
turn; one poll more repeats a state up to names, and the proofs cover the other sizes. An age
needs `GraceMisses + 1` absences between two presences: five polls for a grace of 1 hold an episode,
a flicker inside the grace and a new episode. Steps of 1 and 3 against slots of 2 and a window of
5 make slots that merge, that are long enough alone and that reach back past the window, and tails
too short for a slot. The offset of the scrub is clamped to the buffer, so two snapshots reach both
ends. Pages of one, two and three rows over three connections have the selection on every row of
every page, and a page that the chrome around it shrinks under the cursor. Five tokens are enough
for each pair of operators with their operands and for a pair of parentheses around an operator.

A scene of `signals` opens the inputs of one question and holds the others still: polls that
jitter, polls faster than a slot, traffic too thin to fill one, the queue of a path seen by two
sockets, loss seen by the receiver, kernels without the counters, a first poll, drops of every
kind beside one another, a query that fails for one protocol. Six polls at two seconds close more
slots than a verdict of steady loss asks for, nine fill the window and drop from it. The catalogue
of `rules` has a socket for each condition of each rule and each reason to leave it to another; four
at once are the three of the largest threshold (the constants of the instance) and one beside them.
The heights of `events` are the smallest for which page keys work (see below).

Deadlock is not checked where polls or text are bounded or the program ends, and is checked in
`buffer`, `rules`, `events` and `navigation`, where something is always possible.
`MCInput` puts the prompt and the resolver into one run; they share nothing, so a behaviour is of
one or of the other.

Fairness. Go runs every goroutine, so commands end (`PollDone`, `ExportDone`), messages are
handled, timers fire, `NotifyContext` delivers a signal: weak fairness on each. `ss` is assumed
to end, for the code runs it without a timeout: if `ss` hung, the TUI would stop polling and
`record` would not end. In `Resolver` frames are drawn again and again and a look-up ends, at
the latest by its timeout of two seconds. No fairness on keys, signals, failures or kills. The
other modules state safety only, and need none.

### Where code and documentation part

With a run:

* `watch` discards a poll that its own Ctrl-C broke only if the context was cancelled before `ss`
  returned; nothing orders the two (`record_interrupt`). The run `record` assumes the order
  (`Prompt`).
* `Ingest` rolls the host counters also for a poll whose `ss` failed. At the next poll a socket's
  drops span two intervals and the host counters only the last, so a buffer that overflowed
  in the first passes for discards by design (`signals_failed`). `BufferDropsAreBlamed` holds
  in `signals` because no scene of it has such a failure (`AnswersSuffice`).
* `PATH_LOSS`, `RX_LOSS` and `REORDER` look at "the last ~12 s (or four polls if slower)", and want
  four complete slots. The window is four intervals, and slots that began before it are dropped;
  but the TUI waits the interval out after each answer of `ss`, so that four polls always take
  longer. With `--interval` of 3 s or more three slots are left and none of the three signals is ever
  raised (`signals_slow`, and `SlowPollsAreSilent` for every such interval). In `record` and
  `check`, whose ticker keeps the mean, it is a matter of jitter.

Seen while reading, without a run:

* `ReportFor` looks newest first and stops at the first older report (`session.go:166`, and its
  comment). Live times are monotonic, but a recording holds wall-clock times: once the clock was
  set back between polls, an earlier poll may have no report, or another's. `HistorySafety`,
  `MomentSafety` and `PinnedSafety` therefore assume that it was not.
* In a replay, Overview, Top and Perf stay at the end of the recording while the help
  (`commands.go:510`) says that every tab shows the moment.
* `parseFilter` does not look at what follows the expression it parsed, so an unmatched `)` ends
  a query silently, and so does an empty pair of parentheses behind a term: in `a () bogus=1` the
  unknown name is not rejected (`filter.go:190`). `SelectsWhatGrammarSays` says that nothing is
  overlooked elsewhere: an unknown name that goes unnoticed stands behind a `)`.
* `events.go:133` speaks of a warn or critical signal a socket did not have a poll ago; an info
  signal of the same type a poll ago suppresses the onset, as the comment on `Event` says.
* Of two samples with one key, `CollectEvents` compares both with the first of the poll before.
* The scroll of Events is not clamped when the ring evicts what it skipped, until the next key;
  with a content of less than six lines PageUp goes down, past the end.
* The filters of the loss, stalled-handshake and listen-queue findings select more sockets than
  the finding is about: `FilterShowsGroup` says that none is missing, not that none is added.
* `recv_backlog` sums the drops of all its sockets, so discards that are by design may make it
  critical. A hung connection that shows nothing but loss on its path is in no finding about
  stalls. Growth of a host counter during a failed poll is never told.
* `ownDiscards` cannot tell a buffer that overflowed and was drained before the poll from one
  that never overflowed, when the host dropped nothing for want of buffer.
* With intervals above 1.5 s and below 1.8 s a slot takes two polls and more than 3 s, so no
  more than three complete ones fit into 12 s, with the same result as for slow polls.
* With polls faster than a slot, a slot left unfilled over an idle gap is dropped as too old
  together with the newest poll's data in it.
* A poll that could not read `/proc/net` is judged by the last two reads again, and reports the
  same growth a second time.
* The resolver's `display` fills its cache with names that are no addresses without the limit
  that `resolve` honours (`CacheBounded` counts addresses).
* Enter on an empty Live table opens Detail on whatever was inspected last; `L` and Esc act under
  the help panel, which blocks most other keys.
* A recorder that sees the settings become unreadable omits the field (`omitempty`), so its reader
  keeps the old ones (`Empty` is left out of `Readings` in the runs).
* The CSV exports return `w.Error()` before their deferred flush, and lose its error.

## 4. What is proved

All theorems hold for every value of the constants that meets the named assumptions
(`BufferSizeAssumption`, `SessionAssumption`, ...), and any number of polls. Every safety
property that a run checks is proved but for those listed at the end of this section.

`Buffer_proofs`:

* `TypeSafety`: `Spec => []TypeOK`;
* `AgeSafety`: an offset is an age, `Spec => []OffsetIsAge`;
* `ReaderAgreement`: `GetAll`, `GetLatest` and `SnapshotFromEnd` agree;
* `ExportSafety`: an export is one instant, `Spec => []ExportIsOneInstant`;
* `Refinement`: `Spec => ImplementsHistory`, the ring is a bounded history;
* `DeltaSafety`: a delta compares counters of one socket in consecutive polls.

`OffsetIsAge` alone is not inductive: it speaks of offsets, the code moves slots, and it says
nothing of the exports. `IInv == TypeOK /\ RingInv /\ ExportInv` does. `RingInv` says, slot by
slot, that slot *s* points to the snapshot of the poll `Age(s)` polls ago, in full for age 0 and
as samples before, where `Age` inverts the index arithmetic; `ExportInv` says that what an
export's pointers reach is what was published when it took them, which no step changes because
the heap is only appended to. `Publish` is the one step that moves the ring
(`PublishKeepsRing`); the lemma `SlotArithmetic` confines the modulus to one place. Each reader
is then a lemma (`ReaderSees`, `GetAllSees`, `GetLatestSees`), and the refinement follows from
comparing what `GetAll` sees before and after (`PublishRefines`). `DeltaInv` says what `prevMap`
holds: under each key the last poll's counter of a socket with that key, also while a poll is
staged between the two critical sections. A socket with its inode shown has a key of its own
(`OwnKey`), whatever the others share.

`Session_proofs`. Every step is a poll without an answer, which changes neither buffer nor ages,
or one with (`PollCases`); each invariant is kept by both.

* `LogSafety`: log and ages agree. `AgesInv` adds that the two counts of misses are the same
  for each finding that both know.
* `HistorySafety`: the buffer holds the last polls that brought anything, failed or not, and the
  history the report of each, which `ReportFor` finds, if every step of the clock is positive.
  `KeptInv` compares the buffer with the log of polls; `HistoryInv` says that buffer and history are
  bounded alike, entry by entry of one poll, with times that grow, which the early exit of the
  look-up needs.
* `EpisodeSafety`: an age is counted from the start of the episode. `EpisodeInv` relates
  `misses` and `since` to the log of polls: the finding was last in the poll `misses` before the
  newest, and `since` is the time of the first poll of that one's episode.
* `StatusSafety`: the exit status of `check` is the worst severity seen, UNKNOWN if none was
  analysed (`StatusInv`); no run states this one.
* `WindowSafety`: the reads kept reach back over the window and no further than they must, if the
  clock is not set back (`Steps \subseteq Nat`). `WindowInv`: what is kept is a tail of all reads,
  which begins with the newest read that is a window old, or with the first of all.
* `SlotsSafety`: the slots cover the window, none too short to judge, if the clock moves on
  between polls. `SlotsInv` adds which slots the last report was made with; that the boundaries
  the code walks back over are apart, and reach both ends of what is kept, is `SlotsAre`.

`TimeTravel_proofs`. `SessionRefinement`, `Spec => SP!Spec`, shows that the TUI feeds its session
as `Session` says, so that the lemmas of `Session_proofs` (instantiated as `SP`) hold of it.

* `RecordingSafety`: what the footer calls recorded is in the file. `RecInv` adds which poll is
  on its way and whether the UI has seen its failure.
* `MomentSafety`: table and findings show the moment in view, if the clock is not set back.
  `MomentInv` is `HistoryInv` of the session, `PollInv` (what may be on its way in each phase),
  `OffsetInv` (a frozen view is of a snapshot that is there) and what the table holds.
* `PinnedSafety`: a frozen moment stays in view until it falls off, from the same invariant.
* `SelectionSafety`: the selection stays on its finding, wherever the clock is set. The list on
  screen is chosen by its order; that there is one, and that it has each finding of the report
  once, is shown by counting what comes before each (`ListingExists`, `ListsEach`).
  `SelectionInv`: reports are of known findings. `RuleOrder` must list every ID.

`Rules_proofs`. `ReportInv`: a report is the analysis of a classified poll. From there on
everything is about operators: each rule is shown `Sound` (its filter selects its sockets) and
what it takes is characterised. Every record is assumed to have its addresses and no signals yet.

* `FilterSafety`: a finding's filter selects every socket it is about;
* `HostFindingsSafety`: what the host counted is told of the host exactly when no socket in view
  accounts for it, and loss toward few peers does not hide a steady rate of retransmissions: the
  loss rule speaks only of groups of peers that the lossy sockets bear out;
* `StallsSafety`, `DropsSafety`: a stalled or a dropping socket is named exactly once. Each of
  the rules that divide them up names the sockets it takes exactly once and no other
  (`BlamesOnce`, a lemma per rule), and what they take is a partition.
* `LocalFlowSafety`: a flow within this host that the window limits is told by its receiver or by
  its sender, never both. `FlowInv`: no two connections share their addresses, so that the other
  end of a flow is one socket, and a socket whose buffer caps it is a connection that is warned of.

`Events_proofs`. `EventsAssumption` says what a buffer hands over: no two updates of one time,
samples in the order of their keys, in each at most one signal of a type.

* `CacheSafety`: the events shown are of the buffer as it is (`CacheInv`: a cache of this time is
  of this ring; times differ).
* `OnsetSafety`: the events are the onsets, each once and in the order of time. `RingInv` is that
  times grow along the ring. The merge is right because the samples before a key are a prefix
  (`Pointer`), and a bijection from the places in the list to the onsets makes "each once" a count.
* `PagingSafety`: no event is skipped by paging (`PageInv`).

`Record_proofs`.

* `EndSafety`: a compressed recording that reads as closed misses no poll that was handed on, and
  a command that reports success leaves one that does (`EndInv` follows file, trailer and error
  through `pc`).
* `OwnFailureSafety`: no poll that our own stop broke is recorded, assuming `Prompt`, which
  `record_interrupt` shows to be needed (`OwnInv`).
* `ReplaySafety`: a replay shows what was seen live, if the settings never become unreadable
  (`Empty \notin Readings`, see above). `ReplayInv`: each line of the file either holds the
  settings seen with its poll or leaves out the ones of the line before; a line that outlived its
  failed write is the last, and of a poll nobody saw.

`Navigation_proofs`.

* `PromptSafety`: prompt and tab come and go together (`PromptInv`), and while the prompt is open
  the filter changes only as a query is accepted: a rejected one leaves it as it was, by the cases
  of a step (`PromptKeepsFilter`).
* `RowsSafety`, `HighlightSafety`, `VisibleSafety`, `FollowSafety`: the rows are current, the
  highlight is the selection and on screen, and the selection follows its connection. They rest on
  one invariant, `NavInv`: the cached rows are the filtered ones, the cursor is on a row of its
  page, the row under it has the selected key, and the page fits the frame. Each method of the
  table is a lemma (`RefillIs`, ...): what it leaves is `Good`, and where its rows are new the
  selection has followed. The resize that ends every message restores the page.

Further in the same module, for `Resolver`:

* `LookupSafety` (an address is looked up once at a time) and `CacheSafety` (the cache is bounded)
  are inductive together with the types (`ResolverTypes`); the bound needs that the addresses in a
  cache are no more than its entries (`FewerAddresses`).

And for `Filter`:

* `GrammarSafety`: a query of the grammar, of any length and over any terms, selects what the
  grammar says, which is one set, and is rejected just if it has an unknown name. A recursive
  function is a `CHOOSE` of which nothing is known until there is one that fits, so the parser and
  the grammar are first shown to be well defined: every call depends on calls of a smaller measure
  only (`RecursionExists`, from `AnswerLocal` and `MeantLocal`), as the parser never goes back
  and gets on whenever it finds a node (`AnswerForward`). Then, by the least span that fails
  (`AllIsRead`): what a span means as a `not` is what `parseNot` finds there; as a conjunction or
  disjunction, `parseAnd` or `parseOr` is, at the end of the span, in its loop with that meaning,
  which for a disjunction needs that its last conjunction does not go on behind it. Of texts that
  are none of the grammar it says that an unknown name is overlooked only behind a `)`. Each call
  notices the unknown names it passes, and stops only at the end, behind or before a `)` or, in a
  conjunction, before an `or` (`Heeds`), by the least distance from the end at which one does not.

`Signals_proofs`, for any sockets, any scenes and any number of polls. The kernel's counters
only grow (`KernelIs`); the host reads the session holds are of two polls of the log, or of one
that failed after it (`HostIs`); and of each connection in the last snapshot (`SnapshotIs`,
`TcpIs`) the counters are those the kernel had, the deltas are what they grew by (`Measured`), the
slots are a cut of the log (`SlotsAre`): each is a run of whole polls, they follow one another up
to the newest poll, and what each holds is the sum of its polls, those that moved next to nothing
left out; none begins before the window. Polls are spaced as the scene has them, and the queue of
a path is that of the slots of its sockets (`HistoryIs`). `SignalsInv` is these
together, and every property follows from it (`SignalsSafe`). Failed and stored polls are the two
cases of a step (`FailedPollKeeps`, `StoredPollKeeps`); the pipeline of a stored poll (fill in
omitted zeros, deltas, slots, path queues, classify) has a lemma per stage.

* `DeltasSafety`: a delta is the growth of the kernel's counter between the two snapshots.
* `WindowSafety`: the slots hold what was sent since they began, and reach back over the window.
  The sums over slots and over polls meet in lemmas on sums over finite sets, which have to
  be proved without induction: the least set on which two sums differ is empty.
* `LossSafety`: loss is steady before it is called the path's. That at least half of the full
  slots lost something, and that the median (or the third quartile) of their samples is short,
  gives two polls with losses and three without a queue by counting what a full slot must hold.
* `DocumentedSafety`: where no poll found a queue, the polls came in time (a tenth of the interval
  late at most) and were a slot apart, the loss signals are told exactly when the kernel's
  counters meet what `README.md` asks of them: four polls that moved enough, half of them with a
  loss, and the share lost. It assumes `44 * PollIntervalMS <= 10 * SlotWindow`, that four such
  polls fit into the window, true up to an interval of 2.7 s. Complete slots and bulk polls
  of the window are then paired off (`OnePollEach`), so that counts and sums of the ones are those of
  the others (`SlotsTell`), and a weighted quantile of short samples is short (`QuantileBelow`),
  whoever shares the path (`QueuesAre`).
* `SlowPollsAreSilent`: where four polls always take longer than the window, no loss is ever told
  (`FewSlots`). It states the defect described above for every interval.
* `DiscardsSafety`: what TCP discards by design is no fault while no socket lost data.
* `BlameSafety`: a loss for want of buffer is told. It assumes `AnswersSuffice`: wherever `/proc`
  can be read `ss` lists something. The scenes of `signals` meet it, those of `signals_failed` do
  not, and there the property fails, as described above: the assumption is the very condition
  under which the host's interval is that of the sockets.

The library's induction theorems take an operator, which none of the provers can instantiate.
Facts about sequences of any length (filtered rows, trimmed reads, slots, replays, episodes, texts) are
proved by the least counterexample instead: if a set of naturals is not empty it has a least
element (lemma `Least`, from the well-founded order of the naturals), which contradicts one
unfolding of the recursive function. The definitions proved about are written as such
functions; a `RECURSIVE` operator has no unfolding the provers see. Where a function calls itself
at more than one place, as the parser does, that it exists is proved the same way.

Only model-checked:

* all liveness (`KeepsPolling`, `Stops`, `ShownIsNamed`), which is out of the prover's reach. Every
  other property of a passing run is stated by a theorem.

## 5. What is not modelled

* Rendering, wording and layout; the titles, evidence and advice of findings; the reports of
  `check` and `report`; durations: text, about which no property here speaks. The order of
  findings by kind is the constant `RuleOrder` of `TimeTravel`.
* The scanning of `ss` output: what a row keeps and leaves out is in `Signals`, the splitting of
  its text is not. The encoding of samples, and the interner behind it, likewise: `Buffer` says
  what a demoted snapshot keeps.
* Reading `/proc`, running `ss`, writing files as I/O; flag parsing; the lab and the packaging
  scripts.
* The grouping and ordering of Top and Perf. They are pure functions of a snapshot, and the next
  module worth adding.
