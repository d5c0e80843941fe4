# A verification of vkg

vkg (the repository `vanitykeygen`) searches for SSH keys whose fingerprint or
public key contains a wanted word. A server keeps *targets* (what to look for)
and *matches* (what was found) in SQLite and serves an API and a dashboard;
clients generate keys, test them and report what matches. This directory holds
TLA+ modules of the server's registry, its event hub and the fleet it keeps
track of, of the client, of the way from targets to patterns and from matches
back to targets, and of the dashboard in the browser, with TLC configurations
for small instances and proofs for all instances.

## Inventory

| Component | State | Operations | Interacts with | What is hard | Correct when |
|---|---|---|---|---|---|
| Registry (`routes_targets.go`, `routes_matches.go`, `store.go`) | tables `targets`, `matches` | POST, PUT, DELETE of targets, POST of matches | database, hub, clients | handlers of two store calls interleave; the interrupt cancels them halfway | deletions are final, what was acknowledged stays, a match never outlives its target |
| Server life (`server.go`) | phase of `Run` | start, seed, interrupt, drain, exit | registry, hub | a crash while seeding; requests in flight at shutdown | seeds are not doubled, an interrupted request leaves no half effect |
| Event hub (`sse.go`) | subscriber map, `closed`, one channel per stream | Subscribe, unsubscribe, Broadcast, Close, `handleSSE` | all writing handlers, browsers, `Run` | slow browsers, writes that never return, late subscribers, closing under traffic | no use of a closed channel, events in order, Close ends the streams of browsers that read |
| Client (`client/main.go`) | pattern list, counters, channel of hits | seekers, main loop, register, fetch, heartbeat, report | the API | a full channel, failing calls, shutdown, changing patterns | every key counted once, every hit accounted for and reported once at most, current patterns tested, shutdown ends |
| Fleet (`routes_clients.go`, reaper in `server.go`) | table `clients` | register, heartbeat, mark and delete stale rows | clients, hub | late heartbeats, reaper between heartbeats, restarts | a live client is listed as active |
| Compilation and attribution (`compile.go`, `attributeMatch`) | none (a cache of regexes) | targets to patterns, match to target | client, registry | two implementations of one question | a match goes to a target that asked for it |
| Dashboard (`web/js/app.js`) | the open tab and its panel, refreshes under way, the event stream | refresh by tab, event, timer; reconnect | API, hub | answers that overtake each other, missed events | the view converges to the database |
| Read-only handlers (lists, statistics) | none | one query each | client, dashboard | read at another time than they are drawn | see Attribution, Dashboard |
| Key generation, command line, store connection, packaging | none of interest | | | | |

The hazards of this code, with their lines and the properties that cover them,
are listed in `PROJECT.json` under `hazards`.

## Modules

**`Registry`** has one action per store call of each writing handler, since
net/http gives each request a goroutine and a store call is one SQLite
statement or transaction.

| Code | Model |
|---|---|
| tables of `store.go` | `targets` (id to row or `NoTarget`), `matches` (request that stored it to its `target_id` or `NoMatch`) |
| `vkg.NewID` | a fresh id outside `issued` |
| progress of a handler, its request, the id it works on | `stage`, `call`, `subject` |
| `handleCreateTarget` | `Reject`, `CreateTarget`, `Answer` |
| `handleUpdateTarget` | `GetTarget`, `Reject`, `UpdateTarget`, `Answer` |
| `handleDeleteTarget`, `Store.DeleteTarget` | `DeleteTarget`, `Answer` |
| `handlePostMatch` | `Reject`, `AttributeMatch`, `RecordMatch`, `Answer` |
| any 500 | `Fail` before the statement had an effect, `Wrote` after it |
| `Run`, `seedDefaultTarget` | `Start`, `ListForSeed`, `InsertSeed`, `Interrupt`, `Halt` |

Abstractions. Type, pattern, scope and case modes of a target are one value, a
*spec*; `ValidSpecs` are those the validation accepts, and a match carries the
set of specs that accept its key. `attributeMatch` takes the newest accepting
active target; creation times have a resolution of a second and a PUT does not
change them, so the model lets it take any accepting one. A path may name only
an id that was handed out, since no other can ever name a row. The broadcast of
a change is part of `Answer`; what the hub makes of it is the subject of `Hub`.
After the interrupt no store call begins, because every handler uses the
cancelled base context; a statement already begun may have taken effect and
still report an error. `Halt` also stands for a kill or a crash; committed
statements survive it, which is SQLite's promise to a process that dies (not to
a machine that loses power: `synchronous=NORMAL`). The seeds are the words
compiled in, or the one regex of `-t` or `VKG_TARGET`, which is not validated.

**`Client`** has one action per visible step of a goroutine: an atomic access, a
channel operation, the beginning or the end of an HTTP call.

| Code | Model |
|---|---|
| `c.patterns`, `c.keyCount`, `statusUpdates`, `ctx` | `patterns`, `counter`, `chan`, `cancelled` |
| `Run` up to the loop | `Register`, `FirstFetch` |
| `select` of the loop | `Tick("fetch")`, `Tick("beat")`, `Receive`, `Stop` |
| ends of the HTTP calls | `Fetched`, `FetchFails`, `HeartbeatReturns`, `Reported`, `ReportFails` |
| `wg.Wait` | `Finish` |
| one turn of `seeker` | `Exit`/`Enter`, `Sync`, `Generate`/`GenerateFails`, `TestMisses`/`TestHits` per pattern, `SendHit`/`AbandonHit`, `CheckTicker`, `SendCount` |

Whether a pattern matches a key is left open (`TestMisses`, `TestHits`). A hit
is a key and the index of a pattern. The tickers may fire at any time. `found`,
`recorded` (the server stored it), `failed` (the client saw its report fail,
logged that and dropped the key) and `abandoned` record the fate of hits for the
properties; no action reads them. A hit can be recorded and failed, when only
the answer is lost. `posted` stands for either. `Publish` is the server's list of
patterns changing, seen through `/api/targets/active`. The statistics ticker only
logs and is left out.

`Compilable` builds the list of what compiles one pattern at a time, as the loop
in `seeker` does.

**`ClientLedger`** is what the client promises, with seekers, buffer and calls
hidden: a generated key is counted once at most; a hit is of a generated key and
a place in some list of patterns, is found once, and goes into one report or is
left behind, once at most, left behind only after an interrupt; the report ends
with the hit stored, with an error, or with both; when `Run` has returned
nothing goes on. `Client` states the refinement as `KeepsLedger`, with the
variables of the same meaning (`counter`, `stats.keys`, `found`, `recorded`,
`failed`, `abandoned`, `cancelled`, and `main` being "done" or "failed"). That `Run` waits
for its seekers shows only here.

**`Hub`** has one action per method of `Hub`, each of which holds the mutex for
all it does to the map, and one per step of `handleSSE`. An event is its number
in the order of broadcasts; `joined` and `dropped` are kept for the properties.
A write to the browser, of an event (`Take`) or of a keep-alive (`KeepAlive`),
is a stage of its own, with the event in `hand`, since nothing bounds it:
`http.Server` is given no `WriteTimeout` (`server.go:212-218`). `WriteReturns`
ends it, with success or an error.
A hub that is closed drops events, so a broadcast then changes nothing and is no
step of the model.

**`Fleet`** has one action per step of a client's main goroutine that concerns
the table `clients`, two per handler (reading the clock, writing the row) and
one per statement of the reaper. Where `Client` looks inside the process,
`Fleet` sees it from the server.

| Code | Model |
|---|---|
| table `clients`; `last_seen` | `rows`; the field `age`, the time since |
| `c.keyCount`, `c.lastKeyCount` | `keyCount`, `lastCount` |
| `register`, `sendHeartbeat`, their return, the timeout of 10 seconds | `Register`, `SendHeartbeat`, `Return`, `GiveUp` |
| the end of the process | `Stop` |
| `handleRegister`, `handleHeartbeat` | `Stamp`, `UpsertClient`, `Fail` |
| a pass of `clientReaper` | `MarkOfflineClients`, `DeleteOfflineClients`, or `StatementFails` for either |
| the server process, the clock | `Start`, `Halt`, `Tick` |

Abstractions. Time is in ticks; ages stop growing at `Old`, where every test on
them has the outcome it will keep. A handler may stay between its clock and its
statement for `Stall`, and so may the reaper between computing a cut-off and its
statement; `Tick` waits for handlers. That is an assumption: no deadline in the
program bounds a statement of a handler. A client that hangs up after 10 seconds
cancels the context of its request, and `store.go:84-88` sets a `busy_timeout` of
5 seconds, but on one connection of the pool only. `HeardIsListed` is thus about
statements that take no longer than `Stall`. A call the client gave up on
goes on as a *stray*; one per process is followed. The two handlers differ only
in that a registration reports a count of zero and no rate, so they share
actions. The id of a client is never empty (`stableID`), so the branches for an
empty one are left out, as are host name, version, seekers and rate. The table
survives a restart, as on disk. `acked`, `gaveUp` and `heard` are kept for the
properties.

**`AtomicRegistry`** is what the API promises and `Registry` implements: a
request takes effect at one instant between its arrival and its answer, once or
not at all; it is answered with success only after that; seeds come while no
request is served; nothing else changes the tables. It knows no store calls,
look-ups or phases of the process. `Registry` maps its `stage` to the abstract
`status` (`Status`), and states the refinement as `RequestsAreAtomic`. The
abstract registry is weak where the code is: a match may name any id ever
issued, so orphans are allowed; an effect may be followed by an error; and a
DELETE that finds no target, and says so, may still take orphans away.

**`Attribution`** follows one match from the targets to the patterns, to a key,
and back to a target.

| Code | Model |
|---|---|
| a row of `targets`; `vkg.CompiledPattern` | `WordRow`, `RegexRow`; `WordPattern`, `RegexPattern` |
| case modes and `capitalize` | `ModesOf`, `Spellings` |
| `compilePatterns` | `WordGroup`, `WordPatterns`, `RegexPatterns`, `compilePatterns` |
| `seeker`'s test of a key | `Accepts`, `PartsHit`, `Hit` |
| `attributeMatch`, `containsWord` | `Takes`, `Takers`, `AttributeMatch`, `QueryFails` |
| POST and PUT, DELETE of targets | `SaveTarget`, `DeleteTarget` |
| `fetchTargets`, `reportMatch` that fails | `Fetch`, `ReportFails` |

Abstractions. A text (fingerprint or public key) is three sets: the words it
shows at its end, where the regex of a word looks with the default prefix and
suffix, the words it shows elsewhere, and the raw regexes that fit it. A word is
one of its spellings; `Fold` and `Cap` say which spelling is its lower-case and
its capitalized one. A regex that does not compile fits nothing, which is what
both sides make of it. Patterns are a set: their order and a regex sent twice
only decide how often a key is posted. The scope "both", and any unknown one, is
the set of both parts. An id may be used again by `SaveTarget`, which adds
behaviours the code does not have. As in `Registry`, the newest of the targets
that take a match is any of them.

**`Dashboard`** is the browser's side, with the hub and the handlers reduced to
what it hears of them: a change, later its broadcast, and a bounded queue of
events on the way.

| Code | Model |
|---|---|
| `currentTab`, its panel | `tab`, `view` |
| calls of `refreshDashboard`, `refreshTargets`, `refreshMatches`, `refreshFleet` under way | `calls`: `Refresh`, one `Read` per table, then `Draw` or `FetchFails` |
| `connectSSE`, `onerror`, 3 seconds, `connectSSE` | `Connect`, `Break`, `Connect` |
| `handleSSE` subscribing after the answer has begun | `Subscribe` |
| listeners for `match`, `client_update`, `target_update` | `Listeners`, `Hear` |
| tab buttons, `setInterval`, the target form and the delete button | `Click`, `Timer`, `AfterEdit` |
| a writing handler | `Change`, then `Broadcast` or `HandlerFails` |

Abstractions. What a table contains is left out. Each copy of a table, in the
panel or in an answer on its way, is `current`, or says what became of the news
of the change it lacks: `due` while an event is or was on its way to a listener,
`lost` when it was dropped or the refresh it started failed, `untold` when
nobody was told or no stream was live, `unheard` when an event told of the
change on a live stream but the open tab does not listen to it, `overtaken` when
an older answer was drawn over it. These marks are kept for the properties; the code's
decisions read only the tab, the stream, the queue and which answers are there.
The panel of a tab that is opened counts as `due` until its refresh is drawn.
The statistics are of the tables behind them (clients, matches), and a refresh
reads a table once. `FetchFails` needs a table still unread: once all answers
are there they are drawn. A click on the open tab does what the timer does. One
handler at a time is between its change and the broadcast of one event.

The `MC` modules give the constants values and define the symmetry set.
`RegistryProofs`, `RegistryRefinement`, `ClientProofs`, `HubProofs`,
`FleetProofs`, `AttributionProofs` and `DashboardProofs` hold the proofs,
`FoldLemmas` what they need about sums.
Definitions commented as *Fault* are plausible bugs of the definition below
them: `PROJECT.json` says under `mutants` which property notices which.

## Runs

| Run | Configuration | Question | Answer |
|---|---|---|---|
| registry | 2 requests of any kind, 3 ids, 2 specs, 2 seeds | Do interleaved handlers, restarts, kills and seeding keep `DeleteFinal`, `AcknowledgedKept`, `SeedsNeverDoubled`, `StoredMatchNeverOrphaned`? Do requests look atomic (`RequestsAreAtomic`)? | yes |
| registry_orphan | 2 requests, 2 ids | Does a match never name a deleted target (`NoOrphanMatch`)? | no |
| registry_reseed | 2 requests, 2 ids, 1 seed | Are seeds written on the first run only (`SeedsOnFirstRunOnly`)? | no |
| client_hits | 2 seekers, 2 patterns, 2 keys, buffer 4 | Are keys counted once (`CountsAddUp`), is every hit in some place until its report ends or an interrupt makes a seeker drop it (`HitsAccountedFor`), and in one only (`NoHitTwice`)? Does the client implement its ledger (`KeepsLedger`), and do its seekers only wind down after an interrupt (`SeekersWindDown`)? | yes |
| client_live | 1 seeker, 3 lists, 1 key, buffer 2, fair | Is a key tested against the list that was current (`TestsCurrentPatterns`), does the seeker come to follow a list that settles (`PatternsConverge`), does an interrupted client return (`ShutdownCompletes`), does every hit of an uninterrupted one get to a report (`HitsArrive`)? | yes |
| client_abandon | 1 seeker | Does the server have every match when `Run` has returned (`AllHitsReported`)? | no |
| hub | 2 streams, buffer 2, 4 events, fair | Are channels used only while open (`NoUseOfClosedChannel`), events in order (`EveryEventInOrder`)? Does Close end the streams of browsers that read (`CloseEndsStreams`), are buffered events written to them (`BufferedEventsAreWritten`)? | yes |
| fleet | 1 client, counts to 2, thresholds 2 and 3, stall 1, fair | Is a client the server heard of listed as active (`HeardIsListed`), with what it reported last (`RowIsLastReport`)? Do stopped clients leave the list (`SilentClientsLeave`)? | yes |
| attribution | 2 targets of 8 kinds, 5 words, 2 regexes, 5 keys | Do the patterns accept what some target wants (`CompiledAsWanted`)? Does a match whose pattern is still wanted find a target (`HitsFindTheirTarget`), one that wants it (`FiledWhereWanted`)? | yes, the last where the text shows words at its end only |
| attribution_wrong | the same | Does a match always go to a target that wants its key (`MatchBelongs`)? | no |
| dashboard | 3 tabs, 2 tables, 2 refreshes, queue 2, fair | Does every change that is heard of start a refresh that reads after it (`RestIsCurrent`)? Does the view come to show the tables (`ViewConverges`)? | yes |
| dashboard_stale | the same | Does the open tab, at rest, lack nothing that was announced on a live stream and not lost (`UpdatesStream`)? | no |

### Disagreements with the documentation

* *Orphaned matches.* `handlePostMatch` attributes a match and stores it in two
  calls (`routes_matches.go:62` and `:66`). A DELETE of the target in between
  finds no match to cascade to, and the insert leaves one whose target is gone.
  The comment at `store.go:220` promises the cascade of all matches.
  `StoredMatchNeverOrphaned`, proved for all instances, shows that this is the
  only way: nothing removes a target from under a match already stored.
* *Seeds come back.* `README.md:64` of the repository says that the seeds are
  written on the first run; `server.go:251` writes them whenever the table is
  empty, so also after all targets were deleted and the server restarted. (The
  help text at `server.go:45` says what the code does.)
* *Hits get lost.* On an interrupt the loop of `Run` is left without emptying
  the channel, and a seeker blocked on it returns with its hit (what the run
  shows). And at any time a call that reports a match may fail: the client logs
  that and drops the key (`main.go:486-488`). The package comment promises a
  report of any match. `HitsAccountedFor`, proved for all instances, shows that
  these are the only ways: every other hit is on its way or at the server.
* *Matches go to the wrong target.* The pattern of a word accepts it between
  prefix and suffix only, at the end of the text by default; `containsWord`
  finds it anywhere. A match found for one target is stored for another, newer
  one whose word happens to occur inside the text, and a DELETE of that target
  takes it away. `FiledWhereWanted`, proved for all instances, shows that this is
  the only way.
* *The view stays behind.* A DELETE takes matches with it, but its event,
  `target_update`, is not listened to by the matches tab (`app.js:421`), so the
  tab stays behind even when the stream is live and the event arrives, which is
  what the run shows; and of two refreshes that overlap, the answers that were
  read first may be drawn last. Until the timer goes off the open tab shows
  what is no longer true, although `README.md:34` of the repository says that
  updates stream in real time. `AtRestNothingIsDue` shows that news that is
  heard is never forgotten otherwise.

One more shows in the model, but in no run: closing the hub does not end every
stream. A handler in a write sees neither the closed channel nor the end of its
context, and the write has no deadline, so a browser that stays but does not
read keeps it there (a stream in stage "writing" need take no step). The
comments at `sse.go:48` and `server.go:233` say that all streams return;
`CloseEndsStreams` shows it of those whose browser reads.

### Bounds

Two requests race each pair of handlers, with the seeds of a run as the targets
they race for; an id for each seed and one more lets a table be emptied and
mixed with seeds, and a process die in the middle of seeding. The proofs of the
registry hold for any number of requests. Two seekers fill a buffer of four
while the main goroutine reports; one seeker fills its buffer of two in the run
with fairness. `MaxKeys` bounds the keys of a run, and two patterns let one key
hit twice. `BufferSize` is 2 where the code has 64, so that four events
(`MaxEvents`) overflow it. The lists of patterns are: none; three that one key
satisfies, so that a seeker blocks with the third hit; and the same regexes in
other scopes, with one more that does not compile. When keys or events run out,
the seekers go on looking for patterns and failing to generate, and streams go
on until they end; a run stops for good only where the program does (`Ended`).
In the fleet a tick is the longest stall and more, `MarkAfter` is two and
`DeleteAfter` three, so that one stalled write makes a difference at either
threshold; rows do not affect each other, so one suffices. `MaxCount` of 2
tells an old report, the last and the counter of now apart.

Two targets at a time are a pair that is grouped into one pattern, that competes
for a match, or that is replaced while a match travels; the eight rows have each
case mode, two modes and none, each scope, both kinds of regex, and a target
that is switched off; the five keys show a word in each spelling, in one part or
both, at the end or inside. The dashboard tab shows both tables followed, the
other two one each, of which one has a change without an event (the fleet's,
by the reaper, is of the same kind); two refreshes (`Slots`) can overtake each
other; a queue of two (`QueueSize`) overflows.

### Fairness

* Registry: none. A handler reads the body of its request without a deadline
  (`readJSON`, `server.go:121-125`; `http.Server` is given no timeouts,
  `server.go:212-218`), so nothing makes a request end, and nothing is claimed
  about its end.
* Client: goroutines run; HTTP calls end (the client's timeout is 10 seconds).
  Strong fairness for the cases of the loop's `select` (Go picks a ready case at
  random) and for each blocked sender (Go serves senders first in, first out).
  Nothing makes a fetch succeed: `PatternsConverge` assumes it in its premise.
  Nothing makes an interrupt happen.
* Hub: each stream's handler runs, and its `select` picks the channel some time
  when that is ready again and again (strong fairness: a keep-alive comes between
  now and then). No write has to return: that the writes to one stream do is the
  premise `Reads` of what `CloseEndsStreams` and `BufferedEventsAreWritten` say
  of that stream, and of no other. Nobody has to hang up, and no context has to
  be cancelled.
* Fleet: time passes, and each handler gets on with its call or fails it. That
  the reaper's two statements succeed again and again is a premise of
  `SilentClientsLeave`, as it needs a server that is up. Nothing makes clients
  start, beat or stop.
* Dashboard: requests are read and answers drawn; `setInterval` goes off again
  and again. It waits for a free slot in the model, which it need not do in a
  browser, hence strong fairness. Nothing makes the stream connect, an event
  arrive or a user act. That the tables settle, that the tab stays open and that
  requests succeed from some time on is `Settled`, the premise of
  `ViewConverges`.

## Proofs

All for any values of the constants that satisfy the named assumptions of the
modules: `SpecsAssumption`, `SeedsAssumption` and `SentinelAssumption` (valid
specs are specs, there is a seed, the markers for "none" are not values);
`SeekersAssumption`, `PatternsAssumption`, `KeysAssumption`, `NoHitAssumption`;
`BufferAssumption`, `EventsAssumption`; `IdAssumption`, `TimesAssumption`,
`CountAssumption` (a write does not stall for longer than the first threshold,
which is not above the second); `RowsAssumption`, `KeysAssumption`,
`WordsAssumption` of `Attribution` (rows and keys are of their types, spellings
map to spellings); `TabsAssumption`, `KindsAssumption`, `QueueAssumption` (the
page has a dashboard and a tab of targets, the queue holds an event).

* `RegistryProofs`: `TypeCorrect`, `DeletesAreFinal`, `AcknowledgedStays`,
  `StoredMatchesKeepTheirTarget`, `SeedsAreNeverDoubled`. `DeleteFinal` alone is
  not inductive: a new row could take the id of a deleted one. The invariant
  adds that rows and paths use only issued ids, that a request not yet received
  asks for nothing, and that a stored match carries the target its handler
  found, so a cascade that removes it names that target. `AskedStays` is the
  lemma that a request to delete, once handled, remains one. For the seeds the
  invariant counts (`SeedsCounted`): while seeding is under way there are fewer
  seeded rows than the index of the next seed, since it began with no rows at
  all; and a handler has no id before it inserts under a fresh one
  (`FreshSubject`), so none lets go of a row, which would then pass for a seed.
* `RegistryRefinement`: `RegistryIsAtomic`. Under the invariant of
  `RegistryProofs` each action of `Registry` is one of `AtomicRegistry` or
  changes nothing it sees. Added to that invariant: a match names an issued id,
  and no request is in a handler while seeds are inserted.
* `ClientProofs`: `HitsAreAccountedFor`, `HitsAreSingle`. The invariant adds who owns
  what: a key belongs to the one seeker that drew it from the counter, and a
  seeker has found the key it is testing only at patterns before the current
  one. So a hit is new when it is found, and from then on it moves from one
  place to the next. `AppendHits` and `TailHits` say what sends and receives do
  to the hits in the buffer, `AppendKeys` and `TailKeys` what they do to its
  keys. `CountsAreKept`: a count moves from a seeker to the buffer to the total;
  a hit that `Run` takes was not posted before, so the set of posted hits grows
  with its counter. `ClientTypes` and `CurrentPatternsTested`: whatever a seeker
  has compiled compiles (`CompiledGood`), so a list that `patternsMatch` accepts
  contains nothing that does not compile, and compiling it would yield it again
  (`CompilableAll`). `ClientKeepsLedger`, the refinement, needs all of these,
  and that a seeker tests against a pattern it has (`Testing`) and that all
  seekers have ended, or none has begun, when `Run` has returned
  (`SeekersOver`). `SeekersEndSoon` is the part of shutdown that needs no
  fairness: whatever step a seeker takes after an interrupt brings it nearer to
  its end, so it has boundedly many left; that it takes them is
  `ShutdownCompletes`, which only the run shows.
* `FoldLemmas`: induction over the numbers, stated for a set of numbers
  (`SetInduction`) and derived from the library's theorem that they are
  well-founded; and from it what `SumFunctionOnSet` of the community modules
  returns on any finite set: the value at any one index plus the sum over the
  others, whatever order `CHOOSE` takes them in.
* `HubProofs`: `ChannelsAreSafe`, `HubTypes`, `EventsComeInOrder`. For the first
  the invariant adds that a channel is closed only once its stream has
  subscribed; for the third, that a stream which has not subscribed has neither
  events nor gaps, and that none subscribed in the future. What was written,
  what is being written and what is buffered is then one ascending sequence: a broadcast
  extends it or a gap (`BroadcastInOrder`), and taking an event out or finishing
  its write leaves it as it is (`TakeInOrder`, `WriteInOrder`).
* `FleetProofs`: `FleetTypes`, `HeardListed`, `RowsAreReports`. For the second
  the invariant compares clocks: a row is at most a stall older than the last
  write, so a row that is marked, and one that is missing, was written longer
  ago than the threshold less a stall; and a call in a handler is within its
  stall. Clients may share ids in any way, which the run with its one client
  does not show. For the third it says of a client that was never disturbed that
  it has one call on its way at most, with the count it sent last, and that its
  row is no newer; once the call is acknowledged they are the same.
* `AttributionProofs`: `AttributionTypes`, `WantedIsTested`,
  `HitsAreAttributed`, `FiledRight`. The second and the third are about the
  operators and need only the types: a word of a group is a spelling of some
  target of the group's scope, and back. The last adds to the types that a match
  in flight reports the parts in which its pattern accepts its key, and that the
  row it was stored for took it.
* `DashboardProofs`: `DashboardTypes`, `AtRestNothingIsDue`. The invariant adds
  who waits for whom: a copy that is due has news for the open tab with a
  handler or in the queue, or a refresh of the tab under way that has not read
  the table or has read it after the change. What a step takes of these it
  starts anew, or no copy is due any more.

Every invariant and every safety property that a run checks is thus a theorem.
Only model-checked: liveness (`PatternsConverge`, `ShutdownCompletes`,
`HitsArrive`, `CloseEndsStreams`,
`BufferedEventsAreWritten`, `SilentClientsLeave`, `ViewConverges`), since the
provers have no rules for fairness or ENABLED. The runs that expect a violation
refute what they check, and prove nothing.

## Plan

1. `Registry`, `Client`, `Hub` with runs and first proofs: done.
2. `Fleet` with a run and the proof of `HeardIsListed`: done.
3. `Attribution` with runs and proofs of its invariants: done.
4. `Dashboard` with runs and the proof of `RestIsCurrent`: done.
5. `AtomicRegistry` and the refinement, checked and proved: done.
6. The theorems of the remaining invariants, and of `TestsCurrentPatterns`:
   done.
7. `ClientLedger` and the refinement, checked and proved: done.
8. Writes that never return in `Hub`, reports that fail in `Client` and
   `ClientLedger`: done.
9. To come: for the liveness properties of `Hub` the part that needs no fairness,
   as `SeekersWindDown` is for the client's shutdown.

## Not modelled

* The dashboard's dialogs, the details of a match, the version and the drawing
  itself: each reads one row at a click and shows it.
* Opening the database, pragmas, schema: calls of the driver. Its promise, that
  statements are atomic and survive the process, is assumed.
* Key generation: cryptography and encoding. `Client` models that it yields a
  new key or fails.
* Command line, log handler, niceness, flags and environment: sequential code
  that runs once. Build recipes and container image are not part of the program.
