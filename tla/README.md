# Specifications of reality-ops

TLA+ models of the parts of this repository where processes run side by side,
messages are retried, files are replaced and things fail half way: the node agent
and its reports, the synchronisation of users, the publication of subscription
data, the deployment of a node, the pool of proxy egress and its use on a node, the
Telegram bot, and the status of nodes. TLC checks each on a small instance; TLAPS
proves the properties that matter most for every value of the constants.

## 1. The system

A **console** (one host; containers `web`, `bot`, `report`, `status` over one
SQLite database) manages users and nodes. A **node** runs Xray, the **node agent**
(`edge_reporter.py`, with `edge_egress.py`) beside it, and, during a deployment
(`edge.yml`), the **applier**. The **subscription service** serves what the
console publishes. Clients fetch their subscription there and connect to nodes.

| Component | State it keeps | Operations | Who it meets |
|---|---|---|---|
| Node agent, reports (`docker/edge-tools/edge_reporter.py`: Spool, collect, flush, run_once) | `state.json` (instance, sequence number, counters, log offset, dropped count), one file per unsent report | make a report, drop the oldest over the limit, save the state, post oldest first | Xray's counters and error log; `POST /report` |
| Report store (`console/reports.py`, `report_app.py`, `db.py`) | `report_seq`, traffic tables, `node_status` | store once per (node, instance, seq), keep the newest status and restart, purge old rows | agents of all nodes, pages, status |
| User sync (agent class `Sync`, `POST /sync`, `users.py` node_payload and record_sync) | agent: last list and whether it runs it; console: one `node_sync` row per node | read users, exchange, plan, remove, add, read again | Xray's API; the list changes, Xray restarts, deployments |
| Publishing (`console/publish.py`, watcher in `web_app.py`, publishers in `bot.py`) | users and tokens in the database, registration files, `publish.lock`, `tokens.json`, `catalog.json` | change and publish, look every 30 s and publish | pages, bot and watcher in threads and processes; the subscription service reads the files |
| Subscription service (`subs/server.py`, `catalog.py`) | the documents loaded and the stamps they had | reload when a stamp differs, answer or refuse | the two files being replaced |
| Applier and deployment (`roles/xray_edge`) | `conf.d/`, `last-good/`, keys, report token; the container | render, classify, test, save, install, API or restart, verify, restore; compose up; verify | console's list, Docker, Xray, the agent changing users meanwhile |
| User rules (`console/users.py`) | users, tiers, per-node overrides, bind links | who may use which node when; redeem a link; import | everything above |
| Egress pool (`console/egress.py`, `egress_web.py`, `edge_egress.py`, `egress_probe.py`) | outbounds, schemes, assignments, what checks found; agent: what it applied, its checks | pages that import, edit, switch, delete, assign and test; plan per node, check, fall back or block, apply through the API, report the version | agent, pages, status service |
| Status (`console/status.py`) | failure counts, incidents, rounds, days | probe, confirm, open, settle, close, alert, write the document | report store, bot, second vantage |
| Bot (`console/bot.py`) | update offset in the database, questions waiting for their button in memory | handle an update, ask and confirm by button, bind, send an address | Telegram, pages, publishing |
| Sharing detection (`sharing.py`) | samples of hashed networks per slot | insert, count | agents, pages |
| Pages (`web_app.py`, `egress_web.py`, `auth.py`, `queries.py`) | sessions | show and change the above | |
| Older monitor (`roles/monitor`), per-user containers and generators, host scripts, playbooks | files, a state file and a lock on the node | | being replaced |

What makes it hard: no component trusts that a call succeeded (reports and lists
are retried; answers get lost; late requests are still handled), nothing spans two
files or two statements atomically, Xray restarts at any time and forgets what was
done through its API, and three kinds of publishers and two kinds of writers of
Xray's users work without knowing of each other.

What makes each part correct: traffic is counted once and not lost silently; the
users that run are the console's, and nobody is cut off needlessly; a revoked
address is dead once the revocation was reported; a deployment either runs what it
was given or puts back what it found; the incidents of a node name, for every
moment, what was down then; an egress assignment runs as configured or falls back as it
says, and what its agent reports as applied runs; the pool never points at what was
deleted; a confirmation in the bot counts once and an address goes to the account its user
is bound to.

## 2. The modules

| Module | Models | Extends |
|---|---|---|
| `ReportLedger` | what the report pipeline promises: each report is counted at most once | |
| `ReportPipeline`, `MCReportPipeline` | agent, network and store, step by step; implements the ledger | |
| `CounterReading`, `MCCounterReading` | how counters and start lines become traffic | |
| `UserSync`, `MCUserSync` | a tick of the agent against Xray and the console | |
| `Publish` | the publishers, the lock, the database read statement by statement, both files | |
| `SubsStore`, `MCSubsStore` | request threads of the subscription service over `Publish` | `Publish` |
| `ApplyConverge` | a deployment against Xray, Docker, agent and console | |
| `EgressApply`, `MCEgressApply` | the egress pool, the agent's checks and its calls to Xray | |
| `EgressPool` | the pages of the pool as coroutines of one event loop, and the console's own checks | |
| `BotUpdates`, `MCBotUpdates` | the bot's loop and everything it handles, with the pages that change the same rows | |
| `StatusIncidents` | from probe results to the incidents of a node | |
| `StatusDocument` | a whole round: stored, purged, and the document built and written | `StatusIncidents` |
| `ReportPipelineProofs`, `CounterReadingProofs`, `UserSyncProofs`, `PublishProofs` (and `SubsStore`), `ApplyConvergeProofs`, `EgressApplyProofs`, `BotUpdatesProofs`, `ConsoleProofs` (of `EgressPool` and `StatusDocument`) | the theorems | their module |

**ReportPipeline.** `pc` is where `run_once` is: `WriteReport` (collect and
Spool.add's write), `DropOldest` (its loop over the limit), `SaveState`, `Post`,
`Remove`, `FlushDone`, `EndCycle`; `Crash` and `LoseState` may fall between any two.
`net` holds requests whose answer the agent no longer awaits, so `Receive` (one
transaction of `store`, with the purge it triggers) may come late or twice. A
report is a number; its traffic is one unit, so `counts[i]` says how often it was
added. `saved` is the point from which the traffic of a report is not read again.

**CounterReading.** Reading the counters (`FetchMetrics`) and looking at the error log
are two actions because Xray moves between them; the second ends the cycle, with the log
(`ScanAndReport`) or, when it cannot be opened or read, without (`ScanFails`: no restart
seen, the position stays, the counters are reported and saved all the same). A counter is
a direction of a user. Xray has an entry for a user from the user's first connection
(`Appear`) and keeps it as long as the process runs: an entry that is gone tells of a
restart, also at 0. Log lines are process numbers; logrotate's `copytruncate` empties the
file under the stored offset. Ghost variables hold what a reader that knew the processes
would count, and `fault` in which ways counters and log told of different times:
a start line written around a reading (`raced`), beyond the scan limit (`behind`), lost to
a truncation or before the agent had a position (`hidden`), or due in a cycle that could
not read the log (`unread`).

**UserSync.** One action per call: `ReadTag`, `Exchange`, `RemoveUsers`,
`AddUsers`; each may fail (`CallFails` after part of its work, `ExchangeFails`
before or after the console handled it, `HandleLate` afterwards). A list maps users
to credentials; its version is the list itself, for the code's version is a hash
of it. `row` is `node_sync`.

**Publish.** Every database statement of `_publish` is an action (`ReadCreds`,
`ReadNode`, `ReadTokens`, `ReadActive`), because SQLite commits the statements of
others in between; so are the two `os.replace`. `holder` is the `flock`. `said` is
raised when a handler tells its user it is done. `NewDay` stands for an expiry date.

**SubsStore.** `Begin`, `StatTokens`, `Enter`, `LoadCatalog`, `LoadTokens`, `End`
are a request thread; a stamp is the number of the write that made the file.

**ApplyConverge.** `Begin` renders, reads `conf.d` and classifies; then one action
per file saved, written or restored and per call to Docker or the API. `Around`
holds what happens meanwhile: the console changes users, the inventory changes,
Xray stops and Docker starts it with whatever is in `conf.d`, the agent applies the
console's list. A file holds a shape (all but users and proxy egress), the proxy egress
and the credentials. Whether the node's agent manages the proxy egress (`proxy_runtime`) is
chosen anew for each deployment: if so, one that differs in users and egress only does not
restart Xray, and the files are ahead of it until its next start. `handed` (a ghost) says
that this happened since Xray was started. What the agent then makes Xray run is
`EgressApply`. A configuration Xray does not start with is a shape (`Bad`), never an egress.

**EgressApply.** The pool of the console (`set_enabled`, `save`, `Reassign`, `Rematch`)
becomes a `plan`. A tick of the agent reads what Xray runs (`Read`), exchanges reports for
the plan (`Exchange`; both twice when users changed), probes (`check`) and makes Xray follow, one action per API call, each with a failure
that may come after a part of the work: `Look`, `RemoveRules`, `RemoveOutbounds`,
`AddOutbounds`, `AddRules`, `AddFallback`, `AddDefault`, `Verify`. Rules keep their
order, their match and where they lead; an outbound is its settings. `added` is
`outbound_state`, `applied` the signature. Xray restarts with `deployed` in another
network namespace, which the agent reaches only after its own restart; it may do so between
the reading and the exchange, which then still takes place. A request given up by the agent
(`ExchangeFails`) is handled at once, never, or later (`HandleLate`), when its report takes
the place of a newer one: `record_node_state` keeps no order. Schemes, users and websites only decide a match, so an edit of them
gives an assignment another match or takes it from the plan.

**StatusIncidents.** `Round` is one transaction of `record_round`, with any mix of
results; `ShowOrHide`, `Redeployed` and `RoundsMissed` happen around it. The unit of
time is half an interval, so that a node may be hidden or shown between rounds and
while one is probed. `heard` (a ghost) keeps the results that count, and `DownAt`
says from them by quantifiers what was down when; the code instead keeps two
counters per transport and replays what a round reveals over the table. The table is a
set of rows, which never has two alike (`Chronicle`). The loop over the sorted
transitions is a function on sets of transitions (`Replays`): the book after a set is that
after all but the last of it, with the last one noted and settled. Transitions of the same time and kind change
different transports; `LastOf` takes either, and what is settled in between has no
length and is deleted. Notes, latencies and the second vantage are left out.

**StatusDocument.** `StoreRound` is `Round` with what the same transaction does to the
day table and the purge; `Publish` builds and writes the document, `Cut` is a service that
stops in between (a stored round is not probed again). `build_document` cuts incidents at
midnight and at the horizon. The cells of the last hour and day, availability, notes and
the page's HTML are left out; the cells are counted the way days are. Until a new incident
is confirmed the interval at hand counts as known and not as outage (`known_seconds`), so
that availability trails the days' sums by the length of the confirmation.

**EgressPool.** A handler of the pages runs until it awaits (`Await`: the test of rules,
a check), so a page without one is one action and a form two: `SchemeForm`/`SaveScheme`,
`AssignForm`/`SaveAssignment`, `CheckForm`/`SaveCheck`, `Refused` for every way the second
half gives up. `lock` is SQLite's write lock where it is held across an await (saving a
scheme), `loop` the handler that waits for it with the event loop in its hands (`Stuck`)
until the busy timeout (`TimesOut`). `Probe` and `ProbeRecorded` are the status
service's thread. A finding carries the version of the proxy it is of, which the code does
not know (`of`, a ghost). Priorities, labels, the text of rules, their users (a match
in `EgressApply`) and the network
`tcp-block-udp` are left out.

**BotUpdates.** `Receive`, the handling of the update, and `Store` of the offset are
separate, and `Stop` falls between any of them: Telegram then delivers the update again.
Handlers that read, publish and read again (`Rotate`, `Tell`) are split where other
processes come in, and so are `/issue` and `/bind`, which look at the user and insert in two
statements (`Issue`, `InsertToken`, `Link`, `InsertLink`): a link may be left for a user
deleted in between, and bind whoever gets the name next. `Page` holds the pages that change
the same rows; their looks and writes have no other writer between them that matters, for
pages do not give way to one another and the bot deletes nobody. Time passes in the
units of `LinkTime` and `ConfirmTime`. `GiveUp` is an
update that fails, or meets the rate limit (before a button is taken out of `pending`). Texts, menus and commands that only show data
are left out; publishing itself is `Publish`.

## 3. The runs

Constants are as small as lets the cases named here happen; every bound is a
constant named in the module.

| Run | Module, instance | Shows |
|---|---|---|
| `report_safety` | `MCReportPipeline`: 4 reports, 2 instances, spool of 2, one day, rows kept 0 days, purge every 2 | nothing counted twice or deleted uncounted, only dropped files are lost, drops announced once, counted in order of making |
| `report_drains` | 3 reports, 2 instances, no purge | implements `ReportLedger`; the spool drains |
| `counters_exact` | `MCCounterReading`: 2 users (symmetric), one direction, 3 processes, counts to 1, log of 2, 2 files, 1 line a cycle | reports are exact unless one of four named faults happened; nothing is ever taken back, and a truncation alone never makes them too large |
| `sync_safety` | `MCUserSync`: 3 users and the probe account, 4 lists (one empty), 2 inbounds, 3 upsets | verified means running, nobody cut off needlessly, wrong lists refused, convergence |
| `publish_safety` | `Publish`: 1 user, 3 changes, 1 failure | a reported revocation stays true; files follow; one later publish repairs; the catalog settles |
| `subs_requests` | `MCSubsStore`: 1 user, 1 change, 1 failure, 2 requests (symmetric) | dead addresses are not served; an answer is of the files as they are, a refusal only of a pair that was torn during the request |
| `apply_safety` | `ApplyConverge`: 2 users (one with its own short id), 3 shapes (one Xray does not start with), 2 proxy egress in two of 3 files, inbounds in the middle, 3 upsets | success runs what was asked and `conf.d` is what runs, but for a proxy egress left to the agent; failures are rolled back, a node that served serves again |
| `egress_safety` | `MCEgressApply`: 2 egress, 3 assignments (two share an egress and differ in UDP and in what happens on failure, one blocks QUIC), recovery after 2 checks, 2 upsets | what the agent believes runs does run; a failed change blocks what is to block; assignments switch by their checks; what a tick first reports as applied runs; convergence |
| `egress_direct` (violation) | 1 upset | while any rule is changed, traffic that is to block goes direct |
| `egress_pool` | `EgressPool`: one egress, scheme and assignment, 2 handlers at a time, 5 requests | nothing points at what was deleted; UDP is not sent where none works; every request ends; a check in flight does not become another proxy's verdict |
| `bot_safety` | `MCBotUpdates`: 2 users, an account and an administrator, 3 updates, 2 events of pages, time or a stop, links and questions good for 1 | a confirmation counts once and in time; an address goes to its owner; only the newest link binds, once; no update holds up the rest |
| `status_incidents` | `StatusDocument`: 2 transports, 2 failures open and 1 success closes, 5 rounds, days of 3 half intervals, 2 shown and kept, a purge every 5, 2 upsets | incidents never overlap; the open one is what is down; at every past moment they name exactly what was down; the days' sums are that time; nothing shown is purged |

Why these bounds are enough to be interesting: two instances give one change of
instance with files of both in the spool; four reports over a spool of two give
drops of reports of either; the second user or list gives a change in each
direction and an unaffected bystander; two inbounds give an agreement of the first
while the second fails; three files with the inbounds in the middle give a torn
directory with old and new users. Two users in `counters_exact` are one whose counters fell
or whose entry is gone beside one that gives no sign, which is what decides a restart; the
directions of a user, and counts above one, are told apart by nothing but the same
comparison. One user is enough for `Publish`, whose code
treats users independently apart from the service's comparison of the users of both files.
Upsets (changes, crashes, failures) are counted together, so that every mix of
three (two for egress) is tried; for egress two are a failed or half-done call after an
edit, a restart or a change of what works, and two changes of what works. Five rounds are an outage of one transport that turns into one of
both and back; over days of one and a half rounds an incident crosses midnight, is dated
back over it, and ends before and after a purge. Five requests are a form, what changes
while it is tested, and three more that meet the result; one row of each kind is
enough for the pool, whose rows meet only through their references. Three updates are a
question, its button and one in between or again. `TellsTheTruth` needs the two counts
of `StatusIncidents` to differ by one at most, as the defaults 3 and 2 do: with 3 and 1,
TLC finds a transport whose failure is confirmed after a later recovery of the other was.

Deadlock is checked in `apply_safety`; in the others the bounds end the behaviour
and `CHECK_DEADLOCK FALSE` is set.

### Properties that look shallow and are not

- `AcceptedIsCounted`: the agent deletes a file on 200 or 409. A 409 only means
  that (instance, seq) is known, so this needs sequence numbers never to be reused
  for another report by the same instance: crash safety of the order write, trim,
  save, post.
- `LostWereDropped`: the traffic of a report is past the saved baseline and will not be read
  again, while its file may be dropped, written over by one with its number, or deleted on
  the answer to another request; each lost report must be one file that was dropped, and a
  stop between writing and saving must lose none.
- `SaidHolds`: a slow publish that read the table before a revocation may write
  after it; the lock must surround reading and writing, and everybody who reports
  success must have published after its own commit.
- `SuccessRuns`: verify compares names only. That credentials and short ids are
  right too follows from classify, from removing and adding every changed user,
  and from the restart when a call fails.
- `TellsTheTruth`: a round reveals, in one go, a recovery and a failure at two
  different times in the past; the incidents must be what they would be had each
  been known at its time, with an interruption of results between.
- `BelievesWhatRuns`: the agent compares tags with what Xray lists and its own memory
  with what it wants, never rules or settings; that these agree after any mix of failed
  calls, restarts and edits needs every outbound it is not sure of to be replaced.
- `ReportedRuns`: the report puts the version *received* last beside the states and the
  error of the apply before; that these fit at the first report of a tick, whatever call
  failed and whatever restarted before, needs every failed apply to forget what it applied or
  to leave an error. It speaks of the report as it is sent; what the console has may be of
  another moment, and section 6 names the cases. Without any one of the exceptions TLC finds
  a counterexample, but for `astray`, which takes four upsets.
- `CountsExactly`: two sources of different moments, each with ways of missing a restart of
  its own; that they agree but for the four named faults needs the position and the
  baseline to move together.
- `NoUdpWhereNone`: a check may find that UDP fails after a form was tested, before a
  switch or while a scheme that others follow is edited; each way in has to look again.
- `CheckedAsItIs`: a result may be recorded after the row was edited, and marks it as
  checked; only the round over all, every ten minutes, corrects it.
- `AddressOfOwner`: the button of a question asked earlier meets an account that
  was unbound or bound to another user since.
- `ShownIsKept`: purge and window use different clocks (a number of seconds before the
  round, midnights before it) and the document may have been left unwritten.
- `FilesRun`: an API change leaves Xray started from older files; that its next restart
  changes nothing but users, and a proxy egress only if it was left to the agent, needs the short-id rule of classify and the
  restart that ends every failed deployment.

## 4. Fairness

Safety runs use `Spec`, without fairness. Liveness uses weak fairness of the
code's own steps: the agent is a loop in one process restarted by Docker
(`main`, `restart: unless-stopped`), the watcher a thread in a loop, a handler or an
applier runs to its end unless it is stopped, which is an action of its own.
`SpoolDrains` also needs strong fairness of the link (a request that is sent again
and again is answered once); `Converges` holds after the last upset, which the
bound makes finitely many (in `EgressApply` the agent, cut off from Xray, also stops and
is started again by Docker, `main` after `MAX_METRICS_FAILURES`); `ServesAgain` needs strong fairness of `ComesUp`, since
deployments restart the container and a container that starts again and again
with a good configuration comes up in the end. `EgressPool`: a test or a check ends (each
has a timeout) and so does the wait for the lock (`busy_timeout`); the status service's
round over all egress comes again and again (`SF` of `Probe(TRUE)`, for a new round begins
only when the last has ended or failed). `UpdatesPass`: the bot is started again and
handles what it fetched. Environment actions (changes,
crashes, deployments, losses) are never fair.

## 5. What is proved

All theorems hold for every value of the constants that satisfies the module's
`ASSUME`: arbitrary users, lists, files and bounds.

- **ReportPipelineProofs**: `TypeCorrect`, `Invariance` (of `IInv`),
  `CountedAtMostOnce`, `AcceptedWasCounted`, `OnlyDropsLose`, `NewestIsShown` (that the
  status and the restart shown never go back, in no run), `OrderIsKept`,
  `AnnouncedAtMostOnce`, `ImplementsLedger`.
  The properties are not inductive: that a stored row belongs to a counted report
  says nothing about files not yet sent. `IInv` adds that two reports that still
  matter never share (instance, seq), that a report sent had its sequence number
  saved before, and that the agent's number is at least that of every file of its
  instance. A purge of a row that may still be needed is remembered in
  `purgedEarly` and excepted. `OrderIsKept` needs that no file is older than what was
  sent of its instance (`SentInOrder`). `AnnouncedAtMostOnce` is an account:
  what is announced, what the reports that may still be counted would announce (`Total`),
  what the state tells and what this cycle dropped are together at most the files dropped
  (`DropsCoverAll`). The report that is not saved yet tells what the state tells, so it is
  left out of the sum until the state moves on (`Unsaved`). `Total` is a sum over all reports: that
  it changes by what one report changes (`TotalDiffers`) is an induction, made with
  the least element of a set of numbers (`Induct`). `OnlyDropsLose` counts too (`LossIInv`):
  the reports past the baseline that are neither counted nor spooled, the one about to be
  saved among them, for its file may be dropped before (`ToBeSaved`); and no file of a saved
  report has the number drawn next (`SavedAreBehind`), so that no write takes one away.
- **CounterReadingProofs**: `Invariance`, `TypeCorrect`, `ExactCounting`,
  `NoOvercount`. `IInv`: unread start lines belong to processes newer than the last
  reading and every newer process has one, until a fault; and of one process a later reading
  has every user and counter of an earlier one, at no lower value. The model has it that
  entries never vanish while a process runs (`Appear`).
- **UserSyncProofs**: `Invariance`, `TypeCorrect`, `VerifiedIsTrue`,
  `KeptUsersRun`, `NoNeedlessCut`, `RefusalHolds`. `IInv` adds `TickIsTrue`: in an
  undisturbed tick what was read is what runs, and the inbounds done run the list.
  The two last are action properties: a step that takes users off acts on what was read
  before, and `IInv` says that this is still what runs.
- **PublishProofs**: of `Publish`, `TypeCorrect`, `Invariance`, `SaidIsTrue`,
  `FilesAreCurrent`. `PublishIInv` adds
  that whoever reads or writes holds the lock, that the database holds no token
  replaced by a change at hand or reported, and that what was read for a publish
  was read after its own change (`ViewIsGood`); the step that writes the file then
  keeps `SaidHolds`. `FollowIInv` adds that, unless a change still waits for its publish,
  what the publish that holds the lock has read is what the database says (`Fresh`) and
  with nobody at it the files say so (`Follows`).
  Of `SubsStore`, `SubsInvariance`, `DeadStaysDead`, `AnswersFromTheFiles`. `SubsIInv`
  adds that the thread that loads holds the lock, that what is loaded under the stamp the
  file has now is good now, and that what is loaded under the stamp a request took was
  good when the request began; it stands on `PublishIInv`. `ServeIInv` adds that what is
  loaded under the present stamps is what the files hold, and that a request whose files
  did not fit was open at a write that left them so (`UnbrokenFits`): the loaded
  catalog and tokens name the same users unless the files did not fit at some moment of it.
  `StoreAssumption`: "nobody" is not a request.
- **ApplyConvergeProofs**: `TypeCorrect`, `Invariance`, `RunsItsFiles`, `PutsBack`,
  `UsersInvariance`, `SucceedsWithWhatWasAsked`.
  `ApplyIInv` says what `conf.d` and `last-good` hold at each step (`Directories`),
  that an applier that finds the container finds a configuration (`Started`), and
  that Xray runs the files, but for users and for a proxy egress left to the agent since
  it was started, or is about to be started from them (`RunsFiles`).
  `AgreeOnward` carries agreement over an API change, `HalfInstalledAgrees` covers
  Xray crashing between two files of one. `UsersIInv` adds whose credentials Xray runs at
  each step (`RunsUsers`) and that every list at hand is of the console's past (`Older`):
  `verify` compares names, and the theorem says the credentials are right too, or newer.
- **EgressApplyProofs**: `EgressInvariance`, `BelievedRuns`, `BlocksWhenItFails`,
  `SwitchesAsChecked`, `ReportedPlanRuns`. `EgressIInv` says what the agent remembers of the outbounds it
  added while it reaches Xray (`Remembers`), what each call of an apply finds and leaves
  (`AsFarAs`), that an apply in which only the outbounds or only the rules failed keeps what
  blocks (`Guarded`), and that the streaks of an egress say what its last checks were
  (`Streaks`). The rules of a plan are a concatenation of one piece per assignment
  (`FlattenSeq`), so that each leads where it should is proved by induction along the plan.
  `ReportedPlanRuns` needs that what an apply decided still holds when the first report of a
  tick is sent (`Decided`), that, once a plan counts as applied, nothing but a check can have
  failed in the tick before (`OnlyChecksFail`), and that the rules of an assignment lead where
  its state says and carry its match (`LeadsAsDecided`).
  `EgressAssumption`: an assignment starts with its own rule and "none" is neither settings
  nor a match.
- **ConsoleProofs**, of `EgressPool`: `PoolInvariance`, `AlwaysReferenced`,
  `UdpOnlyWhereItWorks`. `PoolIInv` adds what each waiting handler has in hand (`JobsFit`): a form that passed
  its test is saved by code that looks the references up again. `PoolAssumption` keeps
  the constants that stand for "no row" apart from rows.
  Of `StatusDocument`: `StatusInvariance`, `IncidentsAreAChronicle`, `OpenIncidentIsDown`,
  `DocumentShowsWhatEnded`, `TruthInvariance`, `IncidentsTellTheTruth`,
  `DaysOnThePageTellTheTruth`. `StatusIInv` adds that nothing is dated later than the last
  round (`TimesPassed`), so that closing never ends a row in the future, and that a
  maintenance still to be opened begins after all that was found before
  (`HiddenSinceLast`): a hidden node joined, and was hidden, after its last round. Within a round,
  `settle` keeps a book whose floor is not before any end in the table (`Book`); that the
  replay keeps it for any number of transitions, and that the transports down at its end
  are those of the counters, is an induction on how many were replayed (`ReplaysBook`),
  after showing that the recursive function exists (`ReplayExists`). `DocIInv` adds that what
  ended and may still be shown is in the table (`PastIsThere`): the window moves forward
  only and lies within the time of keeping (`WindowMoves`, from `DocumentAssumption`).
  `TruthInvariance` and the two theorems on the truth assume `CloseCounts`, that the two counts
  differ by one at most: without it the property is false (section 3). `TruthIInv` adds that
  the counters of a transport are the end of what was heard of it (`AsHeard`), that the
  transports heard the same last rounds (`InStep`), and that no row begins or ends later than
  any moment that a transport may still be found to have changed at (`Settled`). A round
  goes on or begins anew; when it begins anew only its own moment is to be told of
  (`NewTruth`). When it goes on, each transition it reveals is one of `DownBy`
  (`Heeds`, `AdvanceHeard`), the table is settled for all of them (`VisibleDated`), and each
  transition of the replay leaves what the table says of earlier moments and says
  of later ones what is down after it (`ReplayedCovers`, `ReplaysTruth`); the moments of the
  transitions are themselves settled afterwards (`NewTime`), which is where the counts matter.
  `DaysOnThePageTellTheTruth` follows from `TruthIInv` (`DaysFollow`): a table in order has
  as many rows as times they begin at, so it is finite (`RowsAreFinite`); the sum over its rows
  exists and takes them one by one (`SumExists`, `SumSteps`); no moment is covered twice, so
  the sum is the number of moments that the rows cover (`TotalMoments`, by `OnSubsets`); and of
  each of those the incident names what was down, also after the last round (`TruthSince`)
  and as early as the page begins (`DayOnPage`).
- **BotUpdatesProofs**: `BotInvariance`, `ConfirmedAtMostOnce`, `AddressToOwner`,
  `LastLinkBinds`. `BotIInv` adds that no two questions share a code and none that was
  carried out is open (`Questions`), that a user has one link and it is the last made
  (`LinksAreLast`), and that whoever an update may be answered with an address of was bound
  to its sender while it was in hand (`InHand`). `BotAssumption` takes users to be finitely
  many, so that a bulk page can count the codes it draws.

Only model-checked: every liveness property (`SpoolDrains`, `Converges`,
`Settles`, `ServesAgain`, `RequestsEnd`, `UpdatesPass`), which the prover cannot state a
proof of, `CheckedAsItIs` of `EgressPool` among them. Every invariant of the runs, and
every action property, has a theorem. The inductive invariants are defined in the modules of
the proofs, beside the argument that uses them, and are in no configuration: each was
model-checked on the instances above before it was proved.

## 6. What the code does that its documents do not say

One run ends in a violation on purpose; `PROJECT.json` quotes the sentence it refutes:
while the agent changes any egress rule, an assignment that is to be cut rather than go
direct goes direct.

Seen while modelling, without a run of their own:

- A start line that is read in another cycle than the counters of its process (Xray
  restarts between the two reads, more than 1 MiB of log is unread, or the log could not
  be read for a cycle, `edge_reporter.py:151-152`) resets the baseline of unchanged
  counters, and everything they held is reported again, although `edge_reporter.py:98` says
  "After a restart every current value is new traffic". `CountsExactly` names the cases.
- `cmd_apply` compares with `conf.d`, not with what runs (`xray_edge_apply.py:618`): after
  an applier was cut off between install and restart (`TimeoutExpired` of docker is not
  caught at :643), the deployment run again finds nothing to do and succeeds while Xray runs
  the configuration before.
- The bot stores the offset after the update was handled (`bot.py:531-537`), so one that
  stops in between handles it twice, although :535 says "a restart never handles an update
  twice". Confirmations are not done twice: their questions went with the process
  (`ConfirmedOnce`).
- `do_reset` reads the token again after publishing and sends it to the account that
  asked (`bot.py:337-348`); when that account is unbound and the address reset again
  meanwhile, it gets the newest one. `AddressOfOwner` therefore speaks of accounts bound at
  some moment of the update. `/status` sends the address with `/status` appended, without
  `protect_content` (`bot.py:320-328`).
- Saving a scheme holds SQLite's write lock while its rules are tested
  (`egress_web.py:196-198`, `224-226`). Another page that writes meanwhile blocks the
  event loop, and with it the one that holds the lock, until the busy timeout of ten
  seconds, and fails (`Stuck`, `TimesOut`).
- The check of an egress that is edited meanwhile records what it found of the old proxy
  about UDP, although `egress.py:226` clears it as "another proxy: what was found about UDP no
  longer holds"; a form may be refused, or accepted, by it until the next check. The check of one
  deleted meanwhile leaves a row without its egress.
- A report the console refuses for good (400, after its node was renamed) stays at the
  head of the spool and holds up newer ones until the limit pushes it out
  (`edge_reporter.py:280`).
- A lost `state.json` restarts the sequence at 1, and a new report is written over an
  unsent one of the old instance with the same number (`Spool.add`), although
  `edge_reporter.py:6` says unsent reports stay.
- The watcher compares users, day and node lists with what it saw when it published
  last, not with what was published last: a publish by pages or bot while a node's list
  is another for a moment stays after the list came back (`past` in `Settles`;
  operations guide 14.9).
- The agent reports the version of the egress plan it holds, not of the one it applied
  (`edge_egress.py:59-60`), although `docs/project-memory.md:567-568` speaks of an agent that
  "has not applied that version" and `db.py:62` of "what each node's agent applied". In the
  second exchange of a tick the console is told of a plan that runs a moment later. After a
  tick whose check raised (its files cannot be written, say) it is told at every tick, as long
  as the check raises, that a plan runs which was never tried. And when Xray restarts after a
  tick has read it and before the report is sent, the report is of the Xray before.
  `ReportedRuns` excepts just these three (`pc = "send"`, `failed # {"check"}`,
  `reach = "yes"`), besides what `astray` names below. What the console has recorded is
  further off when a request the agent gave up is handled late, over a newer one
  (`egress.py:589-591` keeps no order): until the next exchange, as `Converges` says.
- With a proxy egress managed by the agent, a deployment that changes nothing else but users
  replaces the files and leaves Xray as it is (`classify`, :373); the node then runs what its
  agent applies, and the files only from its next start.
- When Xray removed an outbound but the call failed, the agent still remembers having
  added it. If adding it with other settings then fails after the work was done as
  well, and the edit is taken back, the outbound with the other settings is taken for
  the wanted one and stays (`astray`, excepted in `BelievesWhatRuns` and `ReportedRuns`; four upsets, more
  than the run has).
- After a lost state file the spool can drop the newest report when the directory
  is full, since order is by file name; a crash between Spool.add and save_state
  loses the count of the files dropped.
- A report kept spooled for more than 30 days after its answer was lost is counted
  again, because its row is purged (`Kept` in `ReportPipeline`, excepted by
  `purgedEarly`).
- The agent reports the version of a list as applied whenever its last tick ended
  verified, also when its own reading in this tick differs; it heals in that tick,
  and the console shows the truth after the next.
- An incident of a node that is hidden, or taken from the probe set, after the status
  service was down is closed at that time, before the gap is looked at; so it
  includes time without data, although the operations guide (14.8) ends it one round
  after the last data.
- The refusal of a list that removes most users applies only from four removals on.
- After a failed second write the two files do not fit and every subscription is
  refused until somebody publishes; if both name the same users, a pair of new
  addresses and old credentials is served for a moment.
- After a cut-off deployment `last-good` may be a mix of two configurations or one
  that never ran: it is copied from `conf.d`. The plan
  (`plan-single-instance-443`) also compares `RestartCount`, the code does not.
- The agent may change users between the applier's restart and its verification;
  the names then differ and a good deployment is rolled back (the next succeeds).

## 7. Not modelled

Formatting of subscriptions, links and pages; the installation playbooks; the
older per-user containers and generators and the older monitor (sequential, being
replaced); host scripts; sharing detection (rows that are only inserted and counted);
sessions. Within the modelled parts: the contents of reports, key pairs and the
rotation of the report token, file modes, rate limits, dates and tiers of users, the
cells of the last hour and day of the status document, priorities of assignments.

## 8. Plan

1. `EgressApply`: an abstract `EgressPolicy` it implements (the traffic of an
   assignment leaves by its egress, or as the assignment says, but for the window of
   `NeverDirect`).
2. Compositions: `UserSync` with `Publish` (the catalog never names a user before
   the node runs it, apart from the window the watcher needs), and `ApplyConverge`
   with `UserSync` (a deployment and a tick interleaved).
