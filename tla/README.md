# Verification of the mutable app framework

TLA+ models of `mutable-app-framework`, TLC runs on small instances and TLAPS
proofs. Paths are those of the repository; line numbers refer to the commit the
models were written from.

- `tlasany M.tla` parses a module, `tlc -config X.cfg M` model-checks it,
  `tlapm M.tla` checks its proofs. `PROJECT.json` lists the runs, says which lines
  each definition models, and which faulty variant of the code each property
  detects.
- Naming: definitions keep the names of the source where they can. `X_Y` is a
  plausible bug put into definition `X`; nothing uses it except the test that the
  property really catches it.

## 1. The system

A room is a small web app that can be edited while it is used. Each room has a
handful of Cloudflare Durable Objects: single-threaded objects with a private
SQLite database, whose async methods interleave wherever one of them awaits
something outside the object. They are the interesting part of the program; the
rest is routing, prompts, pages and pure functions.

| component | state | operations | talks to |
|---|---|---|---|
| **Version store**, `agent/app-host.ts`, `agent/schema.ts` | versions and files, live pointer and status, data version, build cache, one pending reload | seed, save (`setFiles`), reset, promote with data upgrade, rollback, daily GC, debounced reload | bundler, app sandbox, alarm, clients |
| **Realtime engine**, `realtime/coordinator.ts` | state, its version, seat pool and seats (`__room__` scope); sockets and a promise chain in memory | connect, action, close; keep / migrate / reset on a new version; broadcast or per-player views | app sandbox, version store, clients |
| **Scheduler**, `agent/app-scheduler.ts`, `capabilities/scoped-scheduler.ts` | task table, one alarm | after, at, every, cancel, alarm pass | AppHost (limit, code), app sandbox |
| **App data**, `agent/app-data.ts`, `agent/app-sql.ts` | key-value store, files, SQL, their caps | get, put, incr, compare-and-set, files, SQL | AppHost pushes caps |
| **Room policy**, `app-host.ts` (limits, egress, secrets, email) with `config/limits.ts` | limits, allowlist, secrets, daily email count | set, merge, clamp, reserve | all capability stubs |
| **Mediated capabilities**, `capabilities/*` | none of their own | fetch through the allowlist, email, blobs, room pushes | room policy, outside world |
| **Code assistant and author**, `assistant/code-assistant.ts`, `author/workers-ai-author.ts` | conversation | read, edit by line numbers, save, roll back | version store, AI model |
| **Example apps**, `templates/examples/*` | game states | pure reducers, views | realtime engine |
| **Sandbox runner**, `agent/runner.ts` | loaded workers | reduce, project, probe, migrate, onUpgrade, onSchedule | Worker Loader |
| **Front**, `server.ts`, `observability/*`, `public/*` | none | routing, logging, pages | all of the above |

What is hard here, and what the properties are for (the list with lines is under
`hazards` in `PROJECT.json`):

- *Interleaving at awaits.* Two saves are bundled at once; a rollback is validated
  while another one moves the pointer; a promote lands between the reducer call
  of a realtime action and the write of its result; a pass of the scheduler runs
  tasks while they are cancelled.
- *State read before an await and used after it*: the data version, the file set
  that is validated, the seat of an action, the version a state is stamped with,
  the limit a schedule is counted against.
- *Memory and storage drift apart* in a restart: schedule ids, the chain, passes
  under way against tables and alarms that survive.
- *Something must eventually happen*: clients get to the live version, handlers
  get their turn, tasks come due and run.

What makes each component correct:

- Version store: the live version exists and, when status says so, builds; undo
  history is complete; data is migrated forward only; clients follow the pointer.
- Realtime engine: one game, no lost update, state that fits the code, one player
  per seat, everybody sees the current state.
- Scheduler: no task forgotten, starved, run twice or over the limit.
- App data: caps hold, increments and compare-and-set are atomic, a pushed limit
  is the one in force.
- Policy and capabilities: at most the daily number of emails; no request leaves
  for a host that is not allowed, redirects included.
- Assistant: an edit is applied to the text it was made for.
- Example apps: chips are conserved, only the player whose turn it is moves, hands
  are not shown to others.

## 2. The plan

| # | modules | contents | composes | state |
|---|---|---|---|---|
| 1 | `AppVersions`, `AppVersions_proofs` | version store | | done, its safety proved |
| 2 | `RoomCoordinator`, `AtomicRoom`, `RoomCoordinator_proofs` | realtime engine and its abstract specification | implements `AtomicRoom` | done, safety and refinement proved |
| 3 | `AppScheduler`, `AppScheduler_proofs` | task scheduler | | done, its safety proved |
| 4 | `LineEdits`, `CodeAssistant`, `AssistantTools`, `AssistantTools_proofs` | line edits against a reference definition; the tools of the assistant on the version store, with other authors | `AppVersions` | done, its safety proved |
| 5 | `Poker`, `PokerHands`, `Blackjack`, `TicTacToe`, `ExampleApps`, `ExampleApps_proofs`, `PokerHands_proofs` | the games: rules, scoring, what viewers see | called as the reducer of `RoomCoordinator` | done, their safety proved |
| 6 | `AppStore`, `AppFiles` | store, incr, cas, SQL, caps and their pushes; files and blobs | | done |
| 7 | `Egress`, `AppEmail` | mediated fetch and secrets; email and its daily cap | | done |
| 8 | `Sandbox` | which worker a run gets | | done |
| 9 | `SandboxedApp`, `SandboxedApp_proofs` | an app and one of its capabilities at a time | 6, 7, 8 | done, the safety of 6, 7 and 8 proved |
| 10 | `OperatorLemmas` | lemmas on numbers, sequences and folds for the proofs of 4, 5 and 9 | | done |

Left on the plan, in the model: two rollbacks at a time with a claim that survives
them, and faults in the calls of `ensureFreshState` with a claim about the seat pool.

## 3. What is modelled

One action is the code of a handler from one await of something outside the object
to the next. Between two such awaits nothing else runs in a Durable Object; at one,
anything that is enabled may. Storage operations of the object do not yield.
Crashes (eviction, deploy, exception in the runtime) may happen between any two
actions and lose memory, not storage.

### AppVersions

| code | model |
|---|---|
| `versions`, `files` tables | `files`: version id to file set, for the rows that exist; `lastId` for AUTOINCREMENT |
| agent state | `activeVersion`, `status`, `templateId` |
| `__upgrade__` scope | `dataVersion` |
| `builds` table ordered by ts | `builds`, a sequence of file sets |
| a suspended RPC call | `call[c]`: the await it is at (`pc`) and the locals it resumes with |
| agent schedules of `flushReload`, `#pendingReloadScheduleId` | `reloads`, `pendingReload` |
| what the connected clients loaded | `page` |

`SetFiles` / `BuildOk` or `BuildFailed` / `UpgradeOk` or `UpgradeFailed` /
`ReloadCancelled` / `ReloadScheduled` are the stretches of `setFiles`; `Rollback` and
`Validated` those of `rollback`; `EnsureSeeded` and `SeedBuilt` those of the lazy
seed, which any entry point may start. A file set either builds or does not;
`onUpgrade` may succeed or fail each time. Error texts, notes and the egress list a
template brings are left out.

Bounds: `MaxVersion` 3 saves, `Keep` 2 (50 in the code), two calls at a time. Three
versions with a history of two are the least at which pruning removes a version
while a save is still being bundled and an older one is live. `BuildsStayRecent`
assumes that fewer than `Keep` newer versions are saved while one is bundled; with
50 that is what happens, and without it a version can be pruned before it is
promoted. `ReloadIds` bounds how many reload schedules exist at once.

### RoomCoordinator and AtomicRoom

`queue` is the promise chain of `#serialize`: the handlers of connects, messages and
closes, each with the sandbox call it awaits and its locals. `Turn` says that only
the first runs. `room` is the persistent scope: state, stateVersion, seat names,
seats. `link`, `seatOf` and `seen` are the sockets: closed, open (accepted, its
handler waits), joined (`setState` done), the seat they were told and the last
frame they got. The app is arbitrary code; its state is reduced to its *shape*
(what `probe` looks at) and the *log* of the actions that went into it, which is
what lost updates and resets show in. `Spectators` are the editor's connections.

`AtomicRoom` is what the engine promises: submitted actions are decided one by one,
at most once, each on the game all earlier ones left; the game starts over only
with a change of code; a restart loses only undecided actions.
`ImplementsAtomicRoom` checks it under the mapping game = stored log, pending =
actions in the chain whose reducer has not returned.

Environment: `PromoteAt` says at which points of a handler a promote may land,
`FaultsAt` which sandbox calls may throw, `Rejects` whether a reducer may fail,
`Crashes` whether the object restarts. `MaxQueue` bounds the chain. In `room_core` the
second version declares no seats, so that all players become spectators; in `room_seats`
it takes over one of the two seats.

### AppScheduler

`tasks` is the table, with times relative to now; `alarm` the storage alarm;
`pass` the alarm handler that runs, with the tasks it took; `call` the stub's
`#schedule`, which fixes the run time, then reads the limit from AppHost, then
inserts. `Tick` is time; it waits for whatever is `MaxLate` late, which bounds how
slow passes and RPCs are. `retry` is the platform calling a cut-off handler again.
`highest` is history: the highest limit the room has had so far, which
`PendingWithinCap` compares the table with. `Batch` is 1 (100 in the code), so that
every second due task overflows a pass. Two calls may read the limit (1 or 2) together;
two tasks that recur at the least interval, 1, keep the batch full.

### ExampleApps: Poker, PokerHands, Blackjack, TicTacToe

A room is created with one template (`app`), and a behaviour of `ExampleApps` plays
that one. `state`, `table` and `game` are the state objects of `poker.ts`,
`blackjack.ts` and `tictactoe.ts`, without texts. Each action is one type of action
of `applyAction`, with the seat of the sender; what the code returns unchanged is a
stuttering step. A reducer is one synchronous call, so `AfterAction`, `Progress`,
`DoShowdown`, `PlayDealerAndResolve` and the others are operators on tables: they
give the set of tables an action can lead to.

*Poker* comes in two parts. At the table (`Poker`) the deck and the cards are left
out and a showdown may rank the hands in any way; betting, street by street, is
exact, and a board that is run out because at most one player can still bet goes to
the showdown in one step, as in the code. `View` says whose hole cards a viewer sees.
`PokerHands` is one showdown with its cards: `score5`, `cmp` and `score7` against a
definition of the rules that does not rank by groups (`BestHandIsRight`).

*Blackjack* counts the cards of a hand by value; a draw gives any card. Its view
hides the dealer's second card, which is stated by exchanging that card. *Tic-tac-toe*
is complete. Counter and notes keep nothing but a number and a list in the store;
counter's loop is a client of `AppStore`.

Bounds: poker has three seats, the least at which the button, the blinds and the first
to act are three players and a third one can be out of the hand; 4 chips each with
blinds 1 and 2, so that a raise, a short call, a short blind and a remainder all happen
within a few hands, and raises of every amount. Blackjack has two seats, 4 chips and a
least bet of 2, so that a seat can double or split once, two hands after splits, cards
of 10 and 11 (naturals, soft hands, busts), no new round above 4 chips (`MaxChips`)
and no hit with four cards (`MaxCards`). A double after a split needs more chips; the
theorems cover it. `MaxDraws` 3 cuts off rounds in which the dealer would draw more cards,
for which it needs at least four aces. The showdown takes every seven of
fourteen cards (`SmallDeck`), from which hands of all nine kinds result: the wheel,
suited or not, and higher straights, four aces, two triples and three pairs, down to no
pair at all.

### AssistantTools: LineEdits, CodeAssistant

A behaviour is about one of two things, as `part` says.

`LineEdits` is one call of `apply_line_edits`: `edits` is what the AI model has put
into it, `Apply` the execution of the tool up to `setFiles`. A line is named by where
it comes from (the file or the body of an edit), which is all that decides whether an
edit landed right. `Accepted` gathers the checks that record a failure, `NewLines` folds
the splices in the order of the loop (`LastApplied`). The reference definition `AsAddressed` builds the new file line
by line from what the edits ask for, without any order of application. It applies to
`Unambiguous` calls: two insertions after the same line come out in reverse order of
the list, and an insertion right after a one-line range depends on which is listed
first.

`CodeAssistant` extends `AppVersions` with the tools: read the live files, save the
edited ones as a whole new version, ask for the status; nothing is held in between.
The code of a version is the set of edits in it. The editor saves, resets and rolls
back meanwhile. Two other authors can undo each other's work, which no document
excludes; the properties are about calls that nobody disturbs (`alone`): such an edit
is added to the live code and to nothing else, the version of such a save is live
exactly if it builds, and success is reported exactly if its data was upgraded too.
What the tool says when the upgrade failed is not true (section 4).

Bounds: files of up to 3 lines, up to 3 edits per call, bodies of no line or of two,
lines from one before the file to one after it: three edits are what it takes for an
edit that shifts lines to stand before, between and after two others. One tool call
and one call of the editor at a time, two edits of which one does not build, 3
versions with a history of 2, one rollback.

### SandboxedApp: Sandbox, AppStore, AppFiles, Egress, AppEmail

What an app runs on and reaches through its broker. The capabilities share nothing
but the broker, which gives them their room, so in a behaviour of `SandboxedApp` the
app uses one of them (`used`) and the others stay as they began.

| module | code | state |
|---|---|---|
| `AppStore` | `AppHost.setLimits`, `config/limits.ts`, `AppData` store, `AppSql`, `ScopedStore`, `ScopedSql` | `limits` of AppHost, `pushes` under way, `store` and `caps` of AppData, `database` with its size and caps, `client` (requests that count) |
| `AppFiles` | `ScopedFilesystem` and the files of AppData, `ScopedBlobStore` | `nodes` (one tree for all namespaces), `blobs` (one bucket) |
| `Egress` | `ScopedFetcher.send`, `ScopedSecrets`, allowlist and secrets of AppHost | `allow`, `secrets`, `net` (each call of `send`: where it is, the list it read, target, hop, what it carries) |
| `AppEmail` | `ScopedEmail.send`, `reserveEmail`, email policy | `policy`, `cap`, `day`, `sent` (counter per day), `mail` |
| `Sandbox` | `runner.ts`: `fingerprint`, `getWorker`, `loadWorker`, `runApp` | `live` and `builds` of each room, `worker` (what the Worker Loader keeps), `run` |

`setLimits` stores, pushes to AppData, then to AppSql; each push may fail or be
overtaken, each object may restart. A number is stored as its digits; texts have a size
in bytes, which the quota of a value uses, and a length in characters and one in UTF-16
units: the quota of the store adds the characters of what is stored and the units of
the new text (`Fits`), though its limit is one of bytes (section 4). A call of
`send` reads the allowlist once, injects secrets one by one, and follows redirects by
itself; servers answer anything; the owner changes allowlist and secrets between any
two steps. A path is the sequence of its segments, and dofs is modelled by how it
resolves `..` and makes directories. The files of a run are read by its caller, then
the worker is looked up by room and content hash, then the stored build by hash;
promotes, prunes and evictions fall in between.

Bounds: two clients that count from 9, so that the next digit meets the quota; limits
from 1 to 4 with overrides below, above and not finite; two calls of `setLimits`
(`MaxCalls`), so that pushes race; databases up to 3 (`MaxDb`). Two namespaces, two
names that are also those of the namespaces, paths of two segments with `..` and
empty ones, 4 nodes, 3 blobs. One call of `send`, one redirect, bodies of one chunk,
three hosts of which one is below another, one secret with two values. Three mails,
two days, caps 1 and 2. Two runs, two rooms, two file contents.

## 4. What the runs show

| run | question | result |
|---|---|---|
| `versions_core` | two saves, a seed and a rollback in flight, GC and restarts anywhere: does the live version keep its files, and is history complete? | yes |
| `versions_live` | no restarts: when all is quiet, is `ready` true of the live code, do clients run it, and do they get there? | yes |
| `room_core` | promotes to another shape and pool, faults and restarts at every await: is the room atomic, and does a handler that no promote overtook stamp a state only with a version whose shape and pool it has? | yes |
| `room_seats` | players, a second tab, an editor; promotes between turns to code with another shape and pool: do seats and frames stay right? | yes |
| `room_live` | throwing reducers and views, resets, restarts: does every handler end and every joiner get its welcome? | yes |
| `sched_core` | two schedules at once, slow and failed passes, restarts, changing limits: is no task forgotten, starved, repeated or over the highest limit so far? | yes |
| `games` | poker with late sitters, all-ins and splits, blackjack with doubles and splits, tic-tac-toe, a showdown of every seven cards: are chips and stakes conserved, streets answered, hands ranked and paid by the rules, hidden cards hidden, and do rounds end? | yes |
| `assistant` | up to three line edits in any order; tool calls while the editor saves and rolls back: do edits land as addressed, are bad calls refused whole, do undisturbed edits go live, and is success reported exactly when it is one? | yes |
| `sandboxed_app` | an app and one of its capabilities, with racing owners, servers that redirect, failures and restarts: see the table below | yes |
| `viol_upgrade` | is the data version forward-only with two saves in flight? | no |
| `viol_stamp` | promotes while a reducer or a view runs: is every state probed before new code works on it? | no |
| `viol_seat` | does a seat belong to one player? | not after a reset |

`sandboxed_app` in detail:

| property | what it says |
|---|---|
| `EveryIncrementCountsOnce` | the counter has grown by one for each request that was told so, with `incr` or with a loop of `get` and `cas` |
| `CapsInForceAreTheHosts` | once a `setLimits` that ran alone has answered, and whatever restarts, its caps are those that writes meet, the total in characters as the code measures it; increments and statements that begin with no word `isGrowthWrite` knows (`WITH`) are the exceptions the code makes |
| `NamespacesStayApart` | no path or key leads out of its namespace, and files stay a tree |
| `RequestsStayOnTheLists` | every hop goes to a host that was on the allowlist since the call began |
| `SecretsAreUsedNotRead` | no secret is told that was never readable, and none follows a redirect |
| `MailKeepsToTheCap` | the mails of a day are counted on it, once, and keep to its highest cap |
| `RunsWhatItWasGiven` | a run executes the files it was given, with the broker of its room |
| `CallsEnd` | requests that count end, and so does every call of `send` |

Disagreements with the documents (`findings`):

- **`viol_upgrade`.** `#runDataUpgrade` writes the data version after awaiting the
  app's `onUpgrade`. Two saves overlap, the older one ends last and writes 2 over 3;
  the next promote migrates again from 2. The comments say forward-only and
  serialized; the input gate does not serialize across an RPC.
- **`viol_stamp`.** `#writeState` stamps the version live *after* the reducer ran: a
  promote meanwhile makes the result of the old code count as the new version's, and
  `ensureFreshState` never probes it. The run lets promotes fall between turns and while
  a reducer or a view runs, so that this is what TLC finds. (With promotes during a
  refresh the seed may be stamped wrongly in the same way.)
- **`viol_seat`.** A reset empties the seat table but not the seats on the live
  connections, from which `ctx.seat` is read.

Two more disagreements, on which no run is spent. The models show both:

- *A report of failure.* `#outcome` takes every status but `ready` for a failed build. A
  version that builds is live before its `onUpgrade` runs; when that fails, the tool
  answers that the build failed and "this version was NOT applied"; its comments
  (code-assistant.ts:346-349, 364) take a version that is not reported as built for one
  that was not promoted. `UndisturbedSuccessIsReported` claims nothing of that report.
- *The total of the store.* `#enforceTotalSize` adds SQLite's `LENGTH` of texts, in characters,
  and the new text's length in UTF-16 units, and compares the sum with a limit that is
  documented in bytes (limits.ts:37, app-data.ts:158-159): text outside ASCII takes up to
  four times as many. `CapsInForceAreTheHosts` is about the measure of the code.

Behaviours TLC also shows, which no run is spent on (see the notes of the hazards): a
seed that ends after a save was promoted takes the live pointer back; a reconnect
that waits in the chain does not count as online and may lose its seat; one-shots are
gone when the code of their pass cannot be loaded; a restart during the seed leaves
a room that is never live; two overlapping rollbacks
leave the status of the wrong one; a restart forgets the pending reload's id; an
action may be played with a seat that was handed on while it waited; a waiting
connection and, without a view, editors get state frames; a state that was reset for
a rejected action is not broadcast; a promote during a migration resets the game; an insertion anchored inside a range
that is replaced or deleted is not an overlap for `applyEdits`, and the range removes
the inserted text and spares lines it should have removed; `incr` grows the store
past its quota, though app-data.ts:133 says that the caps are enforced on every write;
the pushes of two calls of `setLimits` may arrive in the other order and leave caps in
force that are not those of AppHost; a save of the assistant may undo one that
another author made since it read; a task that is cancelled after its pass took it
runs once more.

Fairness, where a run needs it: awaits resolve (the bundler ends, sandbox calls have
a CPU limit, RPCs are answered), alarms are delivered at least once, time passes.
That is what the platform promises. Nobody is obliged to connect, act, save or
cancel. `RoundsEnd` is the exception: it assumes that whoever is to act plays in the
end, which nothing in the code enforces, and shows that no sequence of legal plays
keeps a round of blackjack or a hand of poker going. `CallsEnd` assumes that calls of
AppHost answer and that timers fire, and that a request which has begun to count goes
on; of servers it assumes nothing. `PagesSettleOnLive` speaks of a pointer that comes to rest: while promotes
keep coming the debounce puts the reload off every time.

## 5. What is proved

The theorems hold for every value of the constants that the named assumptions of the
modules allow; what a theorem assumes besides is in its statement and explained here.
Each follows from an inductive invariant, which the initial states satisfy and every
action keeps; the lemma about an action has the action's name in it where one lemma
per action is needed.

### AppVersions_proofs

For every number of calls, versions and file sets and every `Keep`:

- `TypeCorrect`, `LiveVersionAlwaysHasFiles`, `UndoHistoryAlwaysComplete`, with
  crashes. The invariant is `IInv`: types, `CallsNameVersions` (a suspended call names
  a version that was inserted, and one that is still to be promoted is recent enough
  to have survived the collections since), completeness of history, and the claim.
  It is needed because `BuildOk` promotes a version inserted any number of steps
  earlier: that its rows are still there follows from its being among the newest
  `Keep`, which every insertion and collection must preserve. The lemmas on
  `PruneVersions` say what survives a collection.
- `ReadyMeansItBuilds`: `[]ReadyMeansLiveBuilds`, for at most one rollback and without
  crashes. `StatusInv` says that while a rollback is validated the live version builds
  or is the one it looks at. Two rollbacks that overlap break it, as the second
  validation may be of a version that is no longer live, and so does a restart, which
  forgets the validation with the call.
- `QuietPagesRunLiveVersion`: `[]QuietPagesAreCurrent`, when the room is seeded before
  anything is saved (`SeedFirst`) and without crashes. `PageInv` says that the clients
  run the live version or a reload that will tell them is pending, scheduled or about
  to be. A seed that races a save moves the pointer without a reload, and a restart
  forgets the call that was to schedule one.

- `SerializedUpgradesGoForward`: `Spec /\ []UpgradesAreSerialized =>
  DataVersionNeverGoesBack`, with crashes and any number of saves bundled at once. The
  hypothesis is that no two calls of the app's `onUpgrade` (or one and the seed) are under
  way together, which the comment in the code takes for granted and `viol_upgrade`
  refutes. `UpgradesAreAhead` says that each such call brings a version the data has not
  reached; that is true when it starts, and only another one could make it false. So
  the finding has this one cause, and a fix that serializes upgrades is enough.

### RoomCoordinator_proofs

For any connections, players, seats, actions and versions, any queue and any place
where promotes, faults and restarts may fall, unless said otherwise:

- `TypeCorrect`, and `RefinesAtomicRoom`: `Spec => ImplementsAtomicRoom`. Every step
  maps to a step of `AtomicRoom` or to a stutter. `IInv` says that what the first
  handler of the chain remembers agrees with the stored room, since nobody else writes
  it meanwhile; that a room has a state exactly if a version is stamped on it; and
  that an action is in the chain once (`SentOnce`), so that the set of pending actions
  loses one element when a reducer returns.
- `SeatsStayBound`: `Spec /\ [][NoReset]_vars => []SeatsAreBound`: as long as no
  handler resets the room, whoever was told a seat still holds it, and nobody else
  (`SeatInv`). A reset empties the seats while the connections live on; that is the
  finding of `viol_seat`.
- `StampsAreRight`: `Spec => StampsFit`, with promotes, faults, failing reducers
  and restarts anywhere. A write of a handler whose awaited code is that of the version
  it read, and whose reducer's result is stamped with that same version, keeps the state
  in the shape of its stamp, and a new stamp comes with its own seat pool. `ReadInv` says
  that while a handler refreshes the state, the pool stored is that of the version it
  read, and that the version it read is stamped when it calls the reducer. `viol_stamp`
  is what a handler that was overtaken does.
- `ClientsCatchUp`: `[]QuietClientsSeeState`, when no call throws and no reducer
  rejects. `SeenInv` says that if the chain holds nothing but a broadcast, it is one of
  the stored state to all who are joined. After a rejected action the code may have
  reset the state without a broadcast (see section 4).

The constants of `room_seats` satisfy the hypotheses of `ClientsCatchUp`, and `SeatsAreBound`
holds there because both versions migrate, so that no reset happens.

### AppScheduler_proofs

For any number of tasks and calls, any delays, batch size, limits and lateness, and
with restarts and retried alarms:

- `TypeCorrect`, `AlarmIsAlwaysEarliest`, `LimitHolds`, `OneShotsRunAtMostOnce`:
  `Spec => []Inv` for `TypeOK`, `AlarmIsEarliest`, `PendingWithinCap` and
  `OneShotsRunOnce`;
- `PassesTakeTasksOnce`: `Spec => TakenTasksAreNotDue`, an action property.

Here the invariants are nearly inductive together. `StateIsConsistent` adds what is
missing: the table is finite and every run time has a lower bound, a call that waits
to insert brings a limit no higher than `highest`, and a pass under way has tasks
left. The bound matters because the alarm is the *least* run time of the table:
`LeastExists` shows that a nonempty set of integers with a lower bound has a least
element, and with it `EarliestIsLeast` turns the `CHOOSE` in `Earliest` into an
inequality all step lemmas use. `NextRunIsLater` is the arithmetic of the rounding to
the next slot, `AfterPassTable` what a pass leaves in the table. The steps that
insert, cancel, take and tick have a lemma each; the others leave table and alarm
alone and are one case of `NextIInv`.

### ExampleApps_proofs

For any number of seats, any stakes, blinds and bets with `SB <= BB`:

- `PokerNeitherMakesNorLosesChips`, `PokerBetsAreCovered`, `StreetsEnd`: all chips are
  with the players and in the pot, what a player can lose is what it has put in, and a
  street ends only when everybody who can act has answered the last bet. The invariant
  `TableIsFair` describes the table in each phase: chips and pot together stay what
  was bought in, between hands the pot is empty, no bet is above the current one, and
  who has no chips is all in. A showdown hands out each layer of the pot once, odd chips
  included.
- `BlackjackPaysByTheRules`, `StakesAreSettled`: each hand is paid exactly by the rules,
  which `HandsArePaidByTheRules` states by rank: a natural above a drawn 21 above the
  other totals, split halves never naturals, a natural that wins at 3 to 2, ties the
  bet back, a busted hand nothing even if the dealer busts. A seat is paid once.
  `BoardIsFair` says where the stakes of each hand are, while
  they are played and when they are resolved, with splits and doubles.
- `HiddenCardsStayHidden`: what a viewer is shown of another's hand, or of the dealer's
  second card, does not depend on it.
- `TicTacToeBoardsAreLegal`: the players alternate and the winner is who has a line.

Sums over the seats are folds. `OperatorLemmas` shows that the equations of a fold
have a solution (`FoldExists`) and how to reason about it (`SubsetInduction`, which
takes a *set* of subsets where a predicate would need an operator as a parameter); from
them follow the sum over one element more and over a changed one.

### PokerHands_proofs

- `ShowdownsRankByTheRules`: `[]BestHandIsRight`, for any seven cards of any deck out of
  the 52, where TLC looks at the sevens of fourteen cards (`Dealt` is all the invariant
  there is: the cards stay what they are). The lemma behind it, `Score7IsByTheRules`, is
  about `score7` alone. Its argument does not enumerate hands:
  1. *Layout.* `Sorted` puts a card at the place of the number of cards before it, so
     five cards in the order of `score5` are laid out by groups: `FiveMakeTheirScore`
     says that they show the score they get, which is of one of nine kinds, and
     `FiveMakeNoBetter` that whatever else they show is of a lower category.
  2. *Choice.* By `MakesOneOfNine` and `NineAreMade`, five of the seven cards show a
     score exactly if the seven have its pairs, triples, suits or runs. From here on
     five-card hands are gone.
  3. *Kickers.* `First` and `Leads2` to `Leads5` say that ranks are the greatest of a
     set, in order, and `Top` of the rules takes those. Counting shows that seven cards
     have enough of them and that the rules need not choose: there are no two quadruples
     and no two suits of five cards.
  4. *Best.* For each category a `Best` lemma says that no score the seven make beats
     that of the rules: one of a higher category is not made, in the same category the
     first rank that differs is the greater one of the rules (`RulesAreBest`).
  5. *Only.* Of two different scores one beats the other, so the `CHOOSE` of `Score7` can
     find only this one (`BestOfSeven`).

### AssistantTools_proofs

- `ToolsImplementVersionStore`: `SpecTools => Spec`, the specification of
  `AppVersions`, so that what is proved of the version store holds with the assistant
  in it.
- `UndisturbedEditsGoLive`, `SuccessIsReported`: the two action properties, for
  any number of tools and editors. `ToolIInv` says what a tool relies on where it holds
  nothing: one that has read is in no call and, if nobody disturbed it, what it read is
  the live code; one that saves waits for its own version; when its save has answered,
  that version is live exactly if it builds, and the status is ready exactly if the data
  was upgraded as well.
- `WrongCallsChangeNothing`: `[]RefusedAsAWhole` for any number of edits on files of any
  length. The code sorts the ranges by their start and compares neighbours only;
  `OverlapsAreFound` shows that this misses no overlap (if two ranges share a line, the
  one that follows the first of them in that order overlaps it as well).
- `SeparateEditsLand`: `[]EditsLandAsAddressed` for files of any length, any bodies and
  any number of edits. `Segments` is what a set of edits makes of each line of the file,
  and `Result` their join, which is the reference definition of the property
  (`AddressedIsResult`). By induction over the edits in the order they are applied
  (`ClearOpsLand`, with `SubsetInduction`): the one that is applied last starts at or
  above all others, so what the others have made of the file begins with the lines of
  the file up to where it lands (`LastInsertion`, `LastRange`, `Untouched`), and
  splicing there changes only its own segment (`InsertLands`, `RangeLands`,
  `GrowAlike`). `FlattenJoins` turns the library's recursive `FlattenSeq` into the joins
  these lemmas speak of.

### SandboxedApp_proofs

The claims are about an app in the sandbox, `SpecApp`. Those of fetch and workers are
proved for the specification of the part alone; `ImplementsEgress` and `ImplementsSandbox`
show that the app implements it (its steps are steps of the part or leave it alone).

- `AppsStayOnTheLists` and `AppsUseSecretsWithoutReading`, for any number of
  calls, any hosts, lists and secrets. The invariant `IsSound` says of a call that is
  under way that its own list is part of what was in force since it began and allows
  its target, and that secrets go where the app wanted them; `ReadableIsRemembered`
  that a secret stored as readable is in the history. Every step but the owner's moves
  one call to a record that is sound again (`SoundMove`); that a list which grows
  allows no fewer hosts (`AllowedIsMonotone`) carries the claim over to the history.
  The only assumption is that the limits are numbers.
- `AppsKeepToTheMailCap`, for any number of mails and days, with numbers as caps and
  at least one day. Besides the claim the invariant `MailIInv` needs that a new mail is
  counted on no day, that the cap in force is one of today's (it is compared when a slot
  is reserved, and the claim is about the highest), and that later days are still empty
  (`Midnight` starts a day with its cap). The counts are cardinalities of sets to which
  a grant adds one element; no assumption that `Mails` is finite is needed.
- `AppsRunWhatTheyWereGiven`, for any rooms, runs and file sets. The invariant
  says that a stored build is the build of the files its hash belongs to and that a
  kept worker runs the files and the room of its id; `FingerprintIsInjective` and
  `WorkerIdIsInjective` say that ids tell rooms and file sets apart. SHA-256 is taken
  to be one to one by the definition of `Fingerprint`.
- `AppsCountEveryIncrementOnce`, for any number of clients, texts, caps and statements,
  from the assumption that the counter begins with a number. `CountIInv` adds to the
  claim that the counter holds a number and that only finitely many clients have been
  told so far; a compare-and-set needs no memory of who has written since the read, as
  it writes only what follows on the value that is there.
- `AppsMeetTheHostsCaps`, the action property, for any limits, calls and sizes.
  `CapsInv` follows the caps along their way: a `setLimits` that is alone carries the
  limits that are stored, AppData has its caps once they are pushed on, and AppSql when
  the call has answered. The total is in characters, as the code measures it
  (`UnitsCoverLength`: the characters of a text are no more than its units).
- `AppsKeepToTheirNamespace`, the action property, for any paths and keys. A path that
  `safePath` accepts has no `..` in it (`CleanedType`), dofs takes such a path as it is
  (`CanonicalIsPath`), and so everything a call touches begins with its namespace. The
  invariant `FilesIInv` is that the files are a tree: the parents of a file stay
  directories, whatever is made or removed.

### What is only model-checked

- Liveness (`RoundsEnd` and the other `~>` and `<>` properties): it needs fairness and
  `ENABLED`, which the provers do not handle.
- The three runs that expect a violation: they are about what the code does not do
  (`SerializedUpgradesGoForward` says under which order the first of them would hold).

Every invariant and every safety action property of the passing runs has a theorem.

## 6. What is not modelled

- The bundler, the Worker Loader, dofs and the AI model are external and appear as
  nondeterministic outcomes or by how the code uses them. The conversation with the
  model, its prompts and Code Mode (`code-assistant.ts`, `workers-ai-author.ts` up to
  the tools) decide which tools are called, and any call may come at any time.
- The limits of a worker (`cpuMs`, `subRequests`) are handed to the platform, which
  enforces them; a worker that is warm keeps those it was loaded with.
- `requestRoom` of an app sends frames that change no state; the rooms' own frames are
  in `RoomCoordinator`. `capabilities/manifest.ts` is text for the author.
- Calls that only read (lists, ranges, `getFiles`), the sizes of single files and
  blobs, the contents of tables and files.
- `notes.ts` has no state but a list it stores whole. `templates/types.ts`, `types.ts`
  and `author/types.ts` are types.
- `server.ts` routes; its API calls appear as the actions of owners and editors. Pages,
  logging and the smoke script keep no state. `vendor/dofs` is vendored,
  `worker-configuration.d.ts` generated.
