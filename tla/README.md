# TLA+ models of the IG trading bot

The repository is an asyncio program that trades currency pairs through the IG
REST API: a loop reads prices, decides, passes each decision through gates and
risk controls, places orders, and keeps the broker, its own memory and a trade
database in agreement. Around it are a kill switch, an HTTP client with
retries, an HTTP API with a dashboard, news feeds, and a set of supporting
components. This directory holds TLA+ modules of the parts in which something
other than arithmetic can go wrong, the configurations that check them with
TLC, and proofs checked by TLAPS.

Paths below are relative to the Python package `src/src/`.

To check: `tlc -config X.cfg M` for the pairs in section 3, and
`tlapm M.tla` for the modules whose name ends in `_proofs`.

## 1. The system: an inventory

All components run in one process on one asyncio event loop. A coroutine runs
without interruption until its next `await`; every `await` of a request, a
sleep, a lock or a publisher is a point where the others run. Hence one action
per stretch of code between two awaits, and the "program counter" of a
coroutine is the await it is suspended in.

| Component | State it keeps | Operations | Hard behaviours | What makes it correct |
|---|---|---|---|---|
| Trading loop `trading/trading_loop.py` | positions of the last refresh, miss counters, daily counters, cooldowns, kill-switch flag | refresh, reconcile, flip exit, entry gate, risk and news checks, execute, persist, liquidity sweep | state read at the start of a cycle and used after many awaits; the broker and the API change the same deals; lost answers; midnight; restart; candles consumed by a second reader | caps, cooldown and loss cap hold; profit is booked once; database follows the broker; a sweep signal is one its definition gives |
| Life cycle `main.py`, `start`/`stop`/`_run_loop` of the loop | tasks, the running flag, the client | lifespan, start and stop routes, error budget, snapshot poller | a start during a stop; a stop that waits for tasks replaced meanwhile; a loop ended by its errors | a stop ends what runs |
| IG REST client `trading/ig_client.py` | session, rate-limit flag and resume task, running flag | `_request` with retries, login, refresh, heartbeat, reconnect, place/close/update position | retries of calls that may have been executed; a 429 during a wait; concurrent re-logins; stop during a request | bounded retries, waits end, no late HFT request |
| Kill switch `risk/kill_switch.py` | state, activation time and event, audit trail, lock | five triggers, `activate`, `deactivate`, `close_all_positions` | concurrent triggers around a lock held across an await | one activation per episode, minimum active time, events in order |
| Trading API `api/routes/trading.py` | none of its own | close a position, kill switch on/off, start/stop | works on the deals and flags the loop works on | no double booking, no close invented |
| Dashboard `api/websocket.py` | connections, broadcast task | connect, disconnect, broadcast | a list changed while it is walked, sockets that fail in a round | every listed client is served |
| Order manager `trading/order_manager.py` | orders, trailing stops | place, close, partial take profit, trail | retry of an executed call, update in flight while the stop moves | bounded deals per order, final statuses, stops that agree |
| HFT rate limiter `trading/hft_rate_limiter.py` | tokens, queue | submit, process queue, sweep | refill after idle time, staleness while queued | rate bound, FIFO, no stale order sent |
| HFT risk manager `risk/hft_risk.py` | sliding windows, breaker | rate check, PnL update, breaker, escalation | windows read at different times, lazily cleared flag | rate bounds, halts that last |
| HFT pipeline `trading/hft_pipeline.py` | one batch buffer, the mode | process a tick, batch and submit, enable, disable | several coroutines share the buffer; drain while they sleep | a signal is submitted or drained, once |
| Risk engine, drawdown monitor, exposure manager, position sizer `risk/*.py` | peak equity, the day's losses and start, regions of elevated risk | validate a signal, record a result, answer a crisis alert | lazy daily reset, positions and equity read earlier by the caller, a trip that queues for the switch's lock | no approval past a limit, limits hold across days |
| Stops `risk/stop_manager.py`, `risk/sentiment_stop_handler.py` | stop and trailing state per position | initial stop, trail, adjust on news, widen for an event | a stop read, awaited and written | the risk taken at entry does not grow |
| Price stream `trading/ig_stream.py` | session, table keys, subscriptions | start, stop, subscribe, unsubscribe, listen, reconnect | subscriptions that fail or are replaced across sessions | a tick reaches the instrument it belongs to |
| Candle buffer `trading/candle_buffer.py` | candles, the open one | record, read | late ticks, a clock set back, trimming | candles are the ticks of their period |
| Market hours `config/market_hours.py` | - | is it open, when does it open next | two separate sets of rules | they agree |
| Service manager `core/service_manager.py` | status and restart history per service | start, stop, start_all, stop_all, error handling | stop during a restart delay or a start | restart budget, restarts resolve |
| Event bus `core/event_bus.py` | handlers, listener task | subscribe, unsubscribe, publish, dispatch | registration during an awaited subscription, handlers that change the list | every handler registered hears every event |
| Degradation `core/degradation.py` | failed components | report, recover | several failures at once | one more failure never reassures |
| Notifications `notifications/*.py` | history | route, retry, fall back, broadcast | nested retries, a deadline over them | no channel tried too often or given up early |
| News engine and sources `news/news_engine.py`, `news/sources/*.py` | sources, health, mode, tasks | connect, probe, fail over, receive an article | a task that replaces itself; connect and disconnect during a reconnection | feeds recover, the mode follows the sources |
| Crisis detector `news/crisis_detector.py` | articles, crises | detect, escalate, recover | callers suspended between two of its calls | a story counts once, no escalation without its readings |
| Economic calendar `news/economic_calendar.py` | events, adjusted and notified ones | daily update, monitor | callbacks awaited while the calendar is replaced | each event is acted upon once |
| News safety layer `news/free_news_safety.py` | cached calendar and headlines | evaluate | a cache older than the window it must cover, failing providers | no entry near an event |
| Copy trading `copy_trading/*.py` | followed traders, copied trades, the pool | register, replicate, close, stop, rank, allocate | a stop while a validation is awaited | the books agree, the pool keeps the best |
| Signal path `strategy/*.py` | counters, cool-downs, weights | evaluate a snapshot, record a trade | several limits, timed release, midnight | a cool-down is whole |
| Performance monitor `strategy/performance_monitor.py` | state per strategy | evaluate daily, re-enable weekly, suspend | callbacks that raise, two schedules over one state | a disabled strategy's positions are closed |
| Learning `learning/*.py` | patterns in memory and in the database | record a loss, detect, resolve, reactivate | a write that fails or a restart between two writes | cache and rows agree |
| Strategies, ML models, sentiment, backtesting, security, configuration | - | pure or numeric computations, libraries | - | out of a model checker's reach |

Interactions: `main.py` constructs the loop with the client, the risk engine
and the kill switch. The loop calls the client (every call ends in `_request`,
except login, session refresh, heartbeat and the DELETE of `close_position`),
`RiskEngine.validate_signal` (which reads the kill switch), the news safety
layer, the mistake analyzer, and the database. The API calls the client and the
database directly, sets the loop's kill switch, and starts and stops the loop.
The broker closes positions by itself (stop and limit).

`main.py` constructs the news engine (with no sources), the HFT risk manager
(when enabled), the mistake analyzer, the news safety layer and the loop, which
makes its client, candle buffer, kill switch, risk engine and stop manager. The
other classes are complete and have tests, but nothing in the application makes
one: `OrderManager`, the rate limiter and the pipeline of the HFT path,
`IGStream`, `ServiceManager`, `EventBus`, `DegradationManager`,
`NotificationService`, the news sources, `EconomicCalendar`, the sentiment stop
handler, the strategy classes, copy trading. They are modelled as they stand,
with callers that do what their interface allows.

The hazards this leads to are in `PROJECT.json`, each at its line with the
properties that would catch it.

## 2. Modules

| Module | Code | State and actions |
|---|---|---|
| `KillSwitch` | `risk/kill_switch.py` | `state`, `activation_time`, `activation_event`, `trigger_sources` as in the class; `lock`, `waiters`, `pending`, `outgoing` are the asyncio lock and the coroutines around it. `Evaluate` is one of the five `check_*`/manual entries up to the lock, `Acquire` resumes the first waiter, `ActivateBody` is the body of `activate()`, `PublishReturns` the end of the awaited publisher, `Deactivate` takes no lock, as in the code. |
| `RiskEngine` | `risk/risk_engine.py`, `risk/drawdown_monitor.py`, `risk/exposure_manager.py`, `risk/position_sizer.py` | extends `KillSwitch`: the engine's coroutine is one of the switch's tasks. `peak_equity`, `daily_loss`, `daily_start`, `current_day`, `limit_hit` are the monitor's fields; `book` is what the broker holds, `seen` and `equity` what the caller last read. `SignalTrips`, `SignalApproved`, `SignalRejected` are the outcomes of `validate_signal`, `TradeCloses` and `ResetDaily` the monitor's other methods, `ClosedInCrisis` the selection of `handle_crisis_response`. `top` and `lost` are history. |
| `TradingLoop` | `trading/trading_loop.py`, `api/routes/trading.py` | `pc` is the await of the loop's coroutine. `Refresh` is the account refresh and reconciliation, `Trade` the walk over the instruments, `Environment` the broker, the API, time and a restart. The broker (`broker`, `deal`, `pnl`) is external; `db` is the persisted trade per deal. A transaction leaves the history's page for good by `TransactionExpires` (the code asks for one day and 200 rows). `booked`, `counted` (bookings since the daily roll-over), `failed` (failed commits of a close), `accepted_at`, `fills_killed` are history variables. |
| `OrderManager` | `trading/order_manager.py` | an order is driven by the coroutine that created it (`step`); `trail` is `_active_trailing_stops`, `update` the one stop update in flight, `pos` the broker's positions. `opened_by`, `closed_by`, `armed`, `unsent` are history. |
| `HFTRateLimiter` | `trading/hft_rate_limiter.py` | tokens in units, the queue as a sequence of which a pass keeps the places that stay (`Keep`); every method is one action because no critical section of `_queue_lock` contains an await. |
| `IGClient` | `trading/ig_client.py` | one coroutine per request, the heartbeat, and `main` (start/stop); `resume` is the task that lifts a rate limit, `window` the reset time the last 429 named. |
| `OrderContract` | `IGClient.place_order` | the abstract specification of an order: called, filled at most once, levels attached, reported accepted only when filled and guarded, refused otherwise. |
| `GuardedPosition` | `trading/ig_client.py`, `_manage_professional_position` and `_execute_signal` of `trading/trading_loop.py` | one position from the POST that opens it to the stop at breakeven. `onwire`, `opened`, `pos` are IG; `n` counts posts or reads. It implements `OrderContract`: `deal` is mapped to what IG holds under a reference. |
| `HFTRisk` | `risk/hft_risk.py` | a list of time stamps is a set of records with their ages, pruned as the code prunes; every method is one action. `since` and `escalated` are history: the second remembers until `ReEnableHft` that the maximum of activations fell into one window. |
| `ServiceManager` | `core/service_manager.py` | coroutines as `job` slots; `all`/`sweep` is the walk of `start_all` and `stop_all`; `alive` is the service itself; `restarts` holds the time stamps of a service as records with their ages. |
| `LoopLifecycle` | `main.py`, `start`/`stop`/`_run_loop`/`_snapshot_loop` of `trading/trading_loop.py`, the start and stop routes | each loop and its poller is a numbered task; `task` and `snapshot_task` are what the attributes name, `cancelled` the cancellations to deliver, `stops` the calls of `stop()` and the tasks they read when they began. A start is one step, a stop has three awaits (`StopStep`), `LoopStep` a cycle, its error, or the delivered cancellation. |
| `LiquiditySweep` | `_analyze_liquidity_sweep_1m` | `Analyze` begins a scan of the candles of the day closed since the state's last one, for the loop or the debug route, `AnalyzeCandle` is one candle of it (`unread` those to come; nothing comes in between, the scan has no await); `CandleCloses` is the environment. `SignalsAreEarned` is the reference definition of a signal on the whole list of candles, and `ideal`, history, the state of a reference that analyses each candle as it closes. |
| `MarketStream` | `trading/ig_stream.py` | `subs`, `tables`, `next_table` are the client's dictionaries and counter; `served` is what the server sends on which table of which session. `reader` is the listener, `call` the await of each `start()`, `subscribe()` or `unsubscribe()`; `StartStream` and `Started` are `start()` before and after its connection. It is not called again before it returned. |
| `CandleBuffer` | `trading/candle_buffer.py` | `closed`, `open` as in the class; `ticks` is the history the reference definition (`Beginnings`, `CandleOf`) is computed from. |
| `MarketHours` | `config/market_hours.py` | one variable, the minute of the week; `IsOpen` and `NextOpen` per asset class. |
| `Stops` | `risk/stop_manager.py`, `risk/sentiment_stop_handler.py` | one position: `TrailingUpdate`, the news handlers with their three awaits (`ReadPositions`, `ReadPrice`, `Tighten`), `EventWidening`. |
| `HFTPipeline` | `trading/hft_pipeline.py` | `caller` is where each coroutine sleeps; `ProcessTick`, `JoinBatch`, `TakeBatch`, `RecordBatch`, `Enable`, `Disable` with its drain. `fate` is history: the signals that entered the buffer, were submitted, were drained. |
| `EventBus` | `core/event_bus.py` | a handler list is an object named by a generation, so that a dispatch goes on over the one it began with. `Handled` is one awaited handler. `owed` is history: what a handler should have heard. |
| `Notifications` | `notifications/*.py` | one notification: `sending` are the requests under way with their number, `attempt` the attempt at the channel, `channel_status` the record's. |
| `Degradation` | `core/degradation.py` | the active failures and what is derived from them. |
| `PerformanceMonitor` | `strategy/performance_monitor.py` | `flow` holds the three coroutines (daily, weekly, manual) and the callback each awaits. |
| `NewsHealth` | `news/news_engine.py` | `engine_at` is the await of start() or of the health loop, which a stop() may overtake (start() is not called again before it returned); `reachable` the world. |
| `NewsPipeline` | `on_article_received` of `news/news_engine.py`, `news/crisis_detector.py` | `work` is where the task of each source is suspended in its article; `seen`, `crises`, `crisis_keys`, `pending` are the fields. Impact goes by the magnitude of a sentiment, recovery by its sign. |
| `ReutersFeed`, `BloombergFeed`, `TwitterFeed` | `news/sources/{base,reuters,bloomberg,social_media}.py` | the tasks of each source and the engine's `connect()`/`disconnect()` around them; the socket is the environment. |
| `NewsSafety` | `news/free_news_safety.py` | `lock` is the caller that refreshes and the provider it is at; `eval` each `evaluate()`. A calendar answers with any part of the window: a body that is not a list or no XML counts as an empty calendar, an event without a readable date is skipped. `unseen` is history: the events such an answer left out. |
| `EconomicCalendar` | `news/economic_calendar.py` | `monitor` and `updater` are the two coroutines; `monitor.work` is what is left of the list the monitor iterates over, in the order of the ids. |
| `SignalPath` | `strategy/{regime_detector,confidence_pipeline,overtrading_guard,hft_override,strategy_engine}.py` | `ProcessMarketData` is a snapshot through the engine, which passes on neither win rate, override nor penalties (`AsEngine`); `CheckSignals` is a caller that asks pipeline, override and guard itself. The repository constructs engine, pipeline and override in tests only. Trades are recorded and closed later. |
| `MistakeLearning` | `learning/mistake_analyzer.py`, `mistake_database.py`, `db/repositories/mistake_repo.py` | `db_*` survive a restart, `active_patterns` do not; the list of copies is a set of [id, pattern], because no order of them matters and equal ones are not listed twice; `learning` is the call in progress with what it has read. |
| `CopyTrading` | `copy_trading/copy_engine.py` | `validations` are the replications that await the risk engine. |
| `TraderSelection` | `copy_trading/{trader_ranker,allocation_manager}.py` | ranking, weekly re-evaluation and the split of the equity. The stable sort is the one arrangement in the order `Better` (score, then first place in the listings), a filter what is left `AtPlaces`, both by definition and not by recursion, so that they can be proved about. |
| `MCRiskEngine`, `MCTradingLoop` | | values for TLC: instruments, readings, prices. |
| `MCOrders`, `MCPrices`, `MCBackground`, `MCSupervision` | | several components checked by one run, see below. |
| `KillSwitch_proofs`, `RiskEngine_proofs`, `TradingLoop_proofs`, `IGClient_proofs` | | theorems about the module named. |
| `Orders_proofs`, `Prices_proofs`, `Background_proofs` | | theorems about components of the runs of that name; `Background_proofs` also about those of `Supervision`. |

Where components interact they are composed: `RiskEngine` extends `KillSwitch`,
`TradingLoop` contains the broker, the API, the switch's flag and the database,
`GuardedPosition` the client with the loop's management of a position. The four
modules `MCOrders`, `MCPrices`, `MCBackground` and `MCSupervision` are not
compositions in that sense. Their components share no variable, and a variable
`part`, chosen in the initial state, names the one that moves while the others
rest. A property of one component holds of such a specification exactly when it
holds of the component alone, and the states of the run are the sum of the
components', not their product.

A definition whose comment begins with "Mutant:" is a plausible mistake in the
definition that follows it; it is used to show that a property can fail.

Abstractions shared by the modules: prices, sizes and profits are small
integers; scores and confidences are a choice; time is a counter of ticks;
logging, metrics and formatting are left out. The strategies appear as a
nondeterministic signal. In `TradingLoop` the risk engine and the news layer
are their decision (the risk decision does read the kill switch, as the code
does), and market hours and spread a choice from `Markets`; `RiskEngine`
spells out the former. The component modules have a `TypeOK`; it is proved for
`KillSwitch`, `TradingLoop` and `GuardedPosition`, the invariants of the other
proofs contain the types they need, and elsewhere it documents the state.

## 3. Runs

Each run is the configuration `<run>.cfg` of the module named. A property that
is a conjunction names its parts in the second column.

| Run, module | Properties and what they say |
|---|---|
| `RiskEngine`, `MCRiskEngine` | The engine and the switch together; triggers, a tripping validation, midnight and an operator race. `TrailAgrees` (`OneActivationPerEpisode`, `EventIsLastActivation`, `PublishedInOrder`); `TriggersAreRecorded`: every waiting trigger gets the lock and is recorded; `ApprovedWithinLimits`: approvals respect the switch, the drawdown from the highest equity seen and the day's losses |
| `TradingLoop_entries`, `MCTradingLoop` | Two instruments, lost outcomes, answers without a level, midnight after two ticks. `EntriesAreLimited` (`DailyEntryCap`, `OneDealPerEpic`); `CooldownKept`; `OneFillInFlight`: at most one fill after a kill |
| `TradingLoop_books`, `MCTradingLoop` | One instrument, lagging lists, missing history, failed closes and commits, restarts, two midnights. `BookedOnce`: the profit of a deal is booked once, and once more only for a failed commit of its close; `BooksAreTrueAndObeyed` (`ReconcileOnlyClosed`; `CountedLossStopsEntries`: no entry passes the gate once what was booked since the daily roll-over is a loss of the cap) |
| `TradingLoop_live`, `MCTradingLoop` | `BrokerCloseIsPersisted`: a deal the broker closed does not stay open in the database, unless its transaction has left the page of the history the code asks for |
| `IGClient`, `IGClient` | `RetriesAreBounded` (`OneRetryBudget`, `RateLimitIsLifted`); `RequestsAreTimely` (`NoLateHftSend`, `RequestsFinish`) |
| `Orders`, `MCOrders` | Order manager: `DealsAreAccounted` (`AtMostTwoDeals`, `DealBelongsToOrder`), `StopsAgree`, `ProgressIsKept` (`TerminalIsFinal`, `LoosenedOnlyToBreakeven`). Client and guarded position, every fault at once: `TakenIsVerified`: `partial_taken` means breakeven at the broker; `ImplementsContract`: `place_order` implements `OrderContract`, liveness included |
| `Prices`, `MCPrices` | `TicksReachTheirInstrument` (stream), `CandlesMatchTicks` (against a reference definition), `SweepIsExact` (`SignalsAreEarned`: a signal is what the definition on the whole list of candles gives; `BatchesDoNotMatter`: between two candles of any analysis the state is that of the reference, however the candles were batched over analyses and whoever ran them), `NextOpenIsFirst` (for every class and minute of the week), `RiskNeverGrows` (stops), `EachSignalOnce` (HFT batches: every signal that entered is buffered, taken, submitted or drained, one of these and once), `LimiterHolds` (`RateBound`, `QueueIsOpenOrders`, `NoStaleSubmission`, `QueueIsFifo`, rate limiter), `HftIsLimited` (`OrderRateBounded`, `HaltLasts`, `EscalationHolds`, HFT risk manager) |
| `Background`, `MCBackground` | `StopEndsAll` (`StopLeavesNoLoop`: stop() ends the loop it found; `FlagStopsAll`: with the flag down everything ends), `ClientsAreServed` (dashboard), `HandlersHearAll` (event bus), `TriesAreExact` (`OnePassPerChannel`, `GivesUpLate`, notifications), `FailureNeverReassures` (degradation), `DisabledIsFlattened` (performance monitor), `ModeFollowsSources` (news health) |
| `Supervision`, `MCSupervision` | `RestartBudget` (services), `CooldownIsWhole` (`CooldownAgrees`, `CooldownHolds`, overtrading guard), `PatternsAgree` (`PenaltyIsPersistent`, `OnePatternPerClass`, learning), `BooksOfCopiesAgree` and `PoolKeepsTheBest` (copy trading), `FeedsRecover` (`OneListener` for Reuters, `HealthyIsWhole` for Bloomberg, `GivesUp` for Twitter), `PipelineBooksAgree` (`StoryOnce`, `EscalatedWithoutRecovery`), `NearEventsBlocked` (safety layer: a trade near a high-impact event is let through only if a calendar that answered left this event out, or in the last check interval of the window), `EachEventOnce` (`WidenedOnce`, `NoneOverlooked`, calendar) |
| `TradingLoop_v_openlimit`, `TradingLoop_v_closeconfirm` (`MCTradingLoop`), `MarketHours_v_gold` (`MarketHours`) | expected violations, see section 5 |

Bounds, and why they are enough for the cases in question:

- `RiskEngine`: two tasks are one holder of the lock and one waiter, two
  triggers an activation and one that is ignored or starts a second episode;
  the theorems lift both. Equities of 85 and 90 under a peak of 100 lie on and
  inside the thresholds of 15 and 10 percent; one loss of 2 is within the
  daily limit of 3, two are past it; midnight falls at tick 2. Three
  instruments in two classes reach both exposure limits, in a region whose
  risk score goes up and down. `MaxTrades` bounds the closed trades.
- `TradingLoop_entries`: two instruments quoted in one currency exercise the
  correlation gate and a cycle with two entries; `MaxDaily = 1`, `Cooldown = 2`
  and `DayLength = 2` make every limit bite and midnight fall between any two
  awaits. `MaxFailures` and `MaxClock` only bound the state space.
- `TradingLoop_books`: `DayLength = 1` and `MaxClock = 1`, midnight falls
  between any two awaits; two losses of 1 reach `LossCap = 2`, so that a loss on
  either side of midnight, and one booked twice after a failed commit
  (`MaxFailures = 1`), are told apart; two deals suffice for a deal that is closed
  and one that is opened after it.
- `TradingLoop_live`: one deal and every fault but a restart, the expiry of its
  transaction and two failed commits included (after a restart the loop starts
  over). Two deals with failed commits are in `TradingLoop_books`.
- `IGClient`: two requests (one HFT), two attempts each, two reconnections;
  windows of 1 and 2 ticks so that a second, longer 429 can overlap the first.
- `Orders`, order manager: three orders are an entry, a partial close and a
  close; the retry of a failed close opens the position in the other direction,
  so both directions occur although entries are `BUY`. Guarded position: the
  code's three reads, three posts instead of five, two orders (a late fill of
  the first beside the second), a size of five units so that halves round
  either way and reach the minimum.
- `Prices`, stream: two instruments and two clients are enough for a
  subscription that replaces another while that one's unsubscription waits; two
  sessions and three tables for a key handed out after a reconnection. Candles:
  `TickTimes` hits the same period, the next one, one with a gap, and an earlier
  one; one closed candle is kept, so that trimming happens. Sweep: a previous
  day between 4 and 6, shapes that break out to each side, turn, arm and
  trigger; five candles over three days, of which the later ones may be skipped, so
  that a state is carried over a day's end and a day may have no day before it. Hours: every minute of a week, nothing cut. Stops: prices on both
  sides of the stop and past each trailing stage, two handlers for the one
  that writes late. HFT pipeline: two coroutines sharing a buffer, two
  signals, three switches of the mode. Limiter: a bucket of one and a half
  tokens, two ticks per token, three orders: one is sent, two are queued, and
  refills meet the capacity at a fraction of a token. HFT risk: limits of 2 and
  1, an escalation window that holds more activations than are allowed, losses
  that cross the threshold alone and together. `Symmetry` permutes the
  instruments and the clients of the stream, between which nothing
  distinguishes; the run has only safety properties.
- `Background`: two generations of the loop beside one stopping caller and the
  shutdown; three sockets, one of them before, one after the one that fails;
  two handlers on one channel over three lists; three notification channels,
  one of which retries inside; two sources, a failover after two polls; one
  strategy over one suspension (each has its own state); `MaxSwings` and
  `MaxLives` bound how often the world changes.
- `Supervision`: two services, three coroutines, two restarts per window of two
  ticks; two strategies and snapshots of every kind of regime; two losses make
  a pattern, two profits resolve it; two traders with two deals; one feed of
  each kind, reconnecting twice; three sources with six articles, among them
  stories told twice, a recovery and a strongly positive report; three events, one of which is on a day other
  than the first's; three traders ranked from two overlapping listings.

`CHECK_DEADLOCK FALSE` is set where a bounded clock, or the end of all orders,
articles or restarts, lets the model stop.

Fairness, and what in the code justifies it:

- every fair specification lets the event loop resume coroutines that are ready
  and time pass (`WF`);
- `RiskEngine` (the fairness is `KillSwitch`'s): the publisher returns or
  raises. This is an assumption about the callback the switch is constructed
  with: `activate()` has no timeout around it and holds the lock meanwhile, and
  a publisher that hangs blocks every later trigger. Nothing is assumed of
  triggers or of the operator;
- `TradingLoop`: strong fairness says that a call that can succeed again and
  again does succeed: IG eventually answers with the current list, the history
  eventually shows a close that is still on its page, a commit eventually works. Nothing is assumed of
  signals, the market or the operator;
- `IGClient`: httpx requests answer or time out after 30 s;
- `Orders`: each order's coroutine and the loop's go on, because their requests
  are answered or time out;
- `Background`: a loop, a poller and a call of `stop()` go on (cycles end, and
  `stop()` waits with timeouts); the broadcast task wakes up and its sends end,
  which is assumed of the transport; an endpoint learns that its peer is gone;
  the callbacks a disabling awaits return or raise; the health loop probes.
  Nothing is assumed of starts, peers, sources or the daily schedule;
- `Prices` and `Supervision` state no fairness: their properties are safety.
  `HFTRateLimiter`, `HFTPipeline` and `ServiceManager` carry a fair
  specification of their own for the liveness they state (below).

Stated and true on the instances above, but not part of a run: `OrdersFinish`,
`CyclesEnd`, `DrawdownIsCaught`, `SharesFit`, `ConnectedIsRead`, `OneBroadcast`,
`CrisisHalves`, `MinActiveHeld`, `BufferIsAwaited` (in the run of their
component, by naming them in its configuration), and `RestartingResolves`,
`StaleOrdersLeave` (with `ServiceFairSpec`, `LimiterFairSpec` of the component's
module and the constants of `Supervision` and `Prices`).

## 4. Theorems

Proved with TLAPS for all values of the constants that satisfy the named
assumption of each module (`KillSwitchAssumption`, `TradingLoopAssumption`,
...). What a theorem assumes beyond that is in its statement and named below.
A theorem about a component is about the component's own specification; the
runs check it as one of the parts of an `MC` module, which is the same claim
(section 2).

`KillSwitch_proofs`:

- `TypeCorrect`. `TypeOK` alone is not inductive: when a waiter is handed the
  lock, `activate()` needs the source of *its* trigger. `TypeInv` adds that a
  task in `waiters` has a pending source (`WaitersPending`) and waits once
  (`WaitersDistinct`).
- `EpisodesMatch`, `EventIsLast`: inductive relative to `TypeInv`, by the lemma
  `StepKinds` that reduces every step to one of a few kinds of change of the
  audit trail, and `AppendTrail`, which says what appending to the trail does
  to the set of activations.
- `DeactivationWaits`: from `TimeInv`, that no recorded activation is later
  than `activation_time`, which is not later than the clock.
- `ActivationsPublishedInOrder`: from `OutgoingInv`, that an event being
  published belongs to the lock's holder and is newer than all delivered ones.
  This is where holding the lock across the await matters.
- `TrailAgreesAlways`: the three together, which is the invariant the run
  checks.

`RiskEngine_proofs`:

- `RiskEngineUsesSwitch`: the composition implements `KillSwitch!Spec`. A trip
  inside `validate_signal` is a step of the switch because it is an
  `activate()` call with a drawdown reading past the threshold
  (`SwitchStep`); `RiskEngineAssumption` asks for one such reading. Hence
  `SwitchGuaranteesHold`: the theorems about the switch alone hold of it in
  the composition.
- `ApprovalsRespectLimits`: from `MonitorInv`. The monitor's peak equals the
  highest equity it was shown; its day may lag behind the clock, but while it
  does nothing has been lost on the current day, and once it has caught up its
  counter equals the losses of the day. That is what makes the lazy reset
  safe, and it is not visible in `ApprovedWithinLimits` itself.

`TradingLoop_proofs`:

- `TypeCorrect`, with `ControlInv`: inside an instrument the index is in range,
  and where the code uses a deal there is one.
- `OneFillAfterKill`: `FillInv` says that between the risk check and the order
  nothing has been filled since the kill switch went active: the loop holds at
  most one order that passed the check before the switch, and the next one is
  refused by it.
- `CooldownIsKept`, under the assumption that no restart happens (`"restart"
  \notin Faults`; the code keeps the cooldowns in memory): `CoolInv` relates
  `last_trade` of an instrument to the acceptance times of its deals, and says
  that from the gate on the cooldown of the instrument in work has passed.
- `ReconciledWasClosed`: from `TodoInv`, that the work list of the
  reconciliation holds persisted deals, and once the history has been read only
  deals the broker closed; the API's close follows the broker's.
- `ProfitBookedOnce`, for all faults: `BookInv` says that a deal booked more
  often than commits of its close failed has a closed row, or one about to be
  closed by the flip exit that booked it, and that what is still to be reconciled
  has been booked once per failed commit. The two paths exclude each other
  through the row, not through a flag.
- `OneDealOnEachEpic`, when no instrument is listed twice and the positions
  call answers with every live deal (`"positions"` and `"lag"` are not in
  `Faults`): `LiveIsKnown` says that a live deal is in the list read at the
  start of the cycle, or is on an instrument the cycle has passed. Restarts and
  lost outcomes of orders are included.
- `LimitedEntries`: the former and `DailyEntryCap`, without a restart
  (section 5): `CapInv` relates `daily_count` to the acceptance times of the
  day it is kept for. Midnight may fall between the gate and the broker's
  answer, which is why it speaks of every later day too.

- `BooksAreTrue`, for all faults, through midnights and restarts: `LossInv` says
  that the day's realised profit is the sum, over the deals, of the profit times
  the bookings since the daily roll-over, and that a booked deal's profit no
  longer changes. `BooksNothing` and
  `BooksOne` are its two kinds of step. The sum is a fold of the community
  modules; that it grows by what is added (`SumOfOneMore`) is proved by a
  smallest counterexample, from the well-foundedness of `<` (`LeastNumber`,
  `SmallestSet`), which needs no theorem with an operator parameter.

`IGClient_proofs`:

- `RetriesStayBounded`: `BudgetInv` says that a request has been sent at most
  once per attempt of the loop it is in; the re-login and the 429 path return
  into the same loop. The other half, that a raised rate limit has a task that
  lowers it, is inductive by itself.
- `LateRequestsAreNotSent`: the age is tested in the step that sends.

`Orders_proofs`:

- `DealsAccounted`, with `MaxRetries = 1` as in the code, which is where the
  "two" of the property comes from: `DealInv` bounds the deals of an order by
  its attempts for every number of retries.
- `StopsStayAgreed`: `StopInv` says that the recorded stop is the broker's, or
  the level of the update in flight, and that only deals the broker opened are
  trailed.
- `ProgressKept`: relative to both.
- `GuardedTypesCorrect`, `TakenWasVerified`: the client's order placement and the
  loop's management of the position.
- `PlacementKeepsContract`: every step of `GuardedPosition` is a step of
  `OrderContract` or leaves its variables alone, under the refinement mapping
  of the run. `PlacementInv` says that a call is under way exactly while the
  loop awaits it, and that what is still on the wire has not been executed. The
  liveness half of `ImplementsContract` is checked by TLC only.

`Prices_proofs`:

- `RiskIsNotEnlarged`: `StopsInv` adds that what a news handler has read and not
  yet written back was no worse than the stop at entry.
- `TicksAreNotMixedUp`: `StreamInv` collects every pair of table key and
  instrument that is known anywhere - served, subscribed, in a call under way,
  pending removal - and says that a key stands for one instrument and is below
  the next one to be handed out.
- `SignalsAreSentOnce`: `PipeInv` says that buffer, submitted and drained are
  disjoint, repeat nothing and are together all that ever entered, and that what
  a coroutine still holds outside them is new and its own.
- `LimiterKeepsItsPromise`: `RateBound` counts the orders that left in every
  stretch of time and is not inductive, for it forgets the tokens at hand.
  `BucketInv` says that the tokens spent since any moment, and those still in
  the bucket, fit into a full bucket and the refills since; `Spend`,
  `BucketRests` and `OthersStay` are its three kinds of steps. `QueueInv` says
  that the queue holds the open orders once each, in the order of their
  submission. A pass keeps some places of the queue (`PlacesAreRanks`,
  `KeepsSome`), takes fresh ones from the front (`FirstFreshFits`) and never
  more than the bucket pays for (`WholeTokens`).
- `HftStaysLimited`: `OrdersInv` bounds the orders of a window in total and per
  instrument, because time only takes orders out of it (`OlderIsNoMore`) and a
  rate check precedes each one added (`NowAddsOne`). `BreakerInv` says that the
  breaker is up, with the very age of the last activation nobody lifted, until
  that has run its time or HFT is disabled, and that once the maximum of
  activations fell into one window HFT is disabled, also when they have grown old.

- `NextOpenIsTheFirst`: from any minute, the rules of `get_next_open` and of
  `is_market_open` agree; a case split over days and classes.
- `CandlesAlwaysMatch`, for any period, capacity, prices and clock, one that is
  set back included: `CandlesInv` says that the candle under construction is
  that of the ticks since the last beginning of a period, and that the closed
  ones are those of the beginnings before it, counted from the end because the
  buffer drops old ones.
- `SweepIsAlwaysExact`, for any candles: `SweepInv` says that the candles come
  in the order of their days (`DaysInOrder`), that each state of the reference
  follows from the one before it and is backed by candles up to its own - what
  it says was swept was swept, what it says armed was armed (`IdealsAreBacked`)
  -, that the analysis is at a state of the reference and has before it exactly
  the later candles of that day (`AnalysisFollows`), and that signals already
  given stay earned as candles are added (`TriggersAreEarned`).

`Background_proofs`:

- `RestartsStayInBudget`: `RestartInv` says that the time stamps of a service
  are finitely many and within the budget; growing older takes some away
  (`OlderRestarts`), and a restart adds one below the budget (`RestartStep`).
- `FailuresNeverReassure`: the level is monotonic in the set of failures.
- `CooldownStaysWhole`: `GuardInv` relates the loss count and the start of the
  cool-down to the losses of a streak.
- `CopiesAreInTheBooks`: `CopyInv` says that a deal is validated or active and
  not both, and that copies without a book are those of a trader that was
  registered again or stopped meanwhile.
- `TradesNearEventsAreBlocked`: `WindowsAreWhole` says that a calendar that
  counts as available holds the window its refresh asked for, but for the events
  an answer left out; a caller that waited at the lock asked at most a tick ago.
- `HandlersMissNothing`: `OwedIsToCome` says that in the middle of a dispatch
  exactly the handlers whose turn is to come in the list it walks are owed the
  event; `ListsAreClean`, that no handler is in a live list twice.
- `FeedsAlwaysRecover`: one invariant per feed (`ReutersInv`, `BloombergWhole`,
  `TwitterInv`). Bloomberg's holds until a disconnect meets the teardown of a
  failed heartbeat, as the property does.
- `EventsAreHandledOnce`, for every schedule: `WideningInv` says that a stop was
  widened for an event that counts as adjusted since the last update, or by a
  callback before the one the monitor is at, which survives an update that
  clears the marks while a callback is awaited. `UpToDate` says that a running
  monitor has the events of the day, but at midnight sharp (`SameDay`);
  `DueIsSeen`, that an event that is due is adjusted or in the work of the pass
  that looked for it.
- `PenaltiesAreBacked`: `PatternInv` says that there is at most one row and one
  active copy of it, that a copy waiting to be applied has its row written, and
  that a copy whose turn is to come in `update_resolution_progress` is still
  active. The order of the writes decides: a resolved copy is deactivated in
  memory first (`ProgressKeeps`), a new one is applied last (`DetectKeeps`).
- `PipelineKeepsItsBooks`, for a finite set of articles: `StoriesKept` says that
  while the cache has room for every story a story that was taken is still in
  it; `CrisisInv`, that a crisis with a calm reading is closed, and an open one
  is named by exactly the key it was raised for. The evaluation is split into
  the review of the open crises (`ReviewKeepsCrises`) and the raising of a new
  one (`RaisedKeyIsFree`).

- `TriesAreAlwaysExact`, for any channels and retries: `NotesInv` says that
  what is being tried, or is still to be, has no verdict yet (`InTurn`), that a
  channel has had no more requests than its attempts so far allow
  (`RequestsAreThose`), and that the channels that failed outside the targets
  keep up with the targets that failed, as long as there are others
  (`FallbacksKeepUp`), which is why a notification that is given up was given
  up late.
- `PoolAlwaysKeepsTheBest`, for any sources and statistics: `RankingInv` says
  that no score of the ranking is above an earlier one. That an order of the
  candidates exists is proved by counting who comes before whom
  (`AnOrderExists`), which needs the first places in the listings to tell them
  apart (`FirstPlaceIsOne`); of a ranking in order, those of at least the
  median score are a prefix past its middle (`TheUpperHalfIsAPrefix`).

Every safety property and action property of the runs is stated by one of these
theorems. Only model-checked, because liveness under fairness is out of the
prover's reach:

- `TriggersAreRecorded`, `BrokerCloseIsPersisted`, `RequestsFinish` (the other
  half of `RequestsAreTimely`), `StopEndsAll`, `ClientsAreServed`,
  `DisabledIsFlattened`, `ModeFollowsSources`, and the fairness of
  `ImplementsContract`;
- what is stated outside the runs (end of section 3), and the violations of
  section 5, which are counterexamples.

## 5. Known divergences

What the documentation, a comment or a docstring says and the code does not do.
Three are runs with expected violations:

| Run | Property | What happens |
|---|---|---|
| `TradingLoop_v_openlimit` | `OpenPositionLimit` | "Maximum open positions: 1": the limit is tested on the list read at the start of the cycle, so two instruments can be entered in one cycle |
| `TradingLoop_v_closeconfirm` | `CloseIsConfirmed` | a rejected close is persisted as a close |
| `MarketHours_v_gold` | `GoldRestsAtWeekend` | gold closes on Friday at 22:00, but is reported open from 23:00 to 24:00, because Friday is tested like any other weekday |

The others are stated in the modules and can be reproduced: in the
configuration named, replace the `INVARIANT` and `PROPERTY` lines by the
property, and the constants by those given; TLC then reports it violated.

| Property | Configuration | What happens |
|---|---|---|
| `EveryCloseIsPersisted` | `TradingLoop_live` | the loop asks for one day of transactions and 200 rows: a close that is not found in time is never reconciled, and its trade stays open in the database |
| `NoFillWhileKilled` | `TradingLoop_books` | the switch is read before the news check and the order are awaited |
| `KillSwitchFlattens` | `TradingLoop_live` | nothing closes the open positions when the switch is activated |
| `FlipReenters` | `TradingLoop_live` | the re-entry after a flip is refused because the list still holds the closed deal |
| `DailyEntryCap` | `TradingLoop_entries`, `Faults = {"restart"}` | the daily counters are not restored after a restart |
| `TripsOnRealDrawdown` | `RiskEngine` | the monitor's peak starts at the loop's assumed equity of 20000 (`trading_loop.py:122`, `:1252`), so a smaller account trips the switch on its first signal without having lost anything |
| `TotalExposureCapped` | `RiskEngine` | "maximum 70% total notional exposure": exposure is computed from the positions read at the start of the cycle, so two approvals of one cycle can pass it together |
| `PartialOnce` | `Orders` | when the stop update after a partial close raises, or the close's confirmation is missing, the next cycle closes another half |
| `RestAtBreakeven` | `Orders` | after such a failure the rest becomes too small to halve, the position counts as managed, and its stop never moves |
| `EmergencyMeansClosed` | `Orders` | a refused emergency close is reported as "emergency closed" |
| `CloseReducesPosition` | `Orders` | a failed close is retried as a new opening order |
| `TrailingUntilClosed` | `Orders` | a partial close removes the trailing stop |
| `UpdateNeverBackward` | `Orders` | an update in flight replaces the breakeven stop set meanwhile |
| `RetryAfterLimitClears` | `IGClient` | a 429 is retried while the limit is in force |
| `ResumesAfterWindow` | `IGClient` | a later, longer window does not extend the resume task |
| `WaitersBounded` | `IGClient`, `Reqs = {r1, r2, r3}`, `QueueMax = 1`, `Answers = {"429"}`, `CanFail` and `CanStop` `FALSE` | nothing is put in the bounded queue, so nothing is bounded |
| `NoOrderAfterShutdown` | `IGClient`, `Orders = {r1}`, `Hft = {}` | an order past the cycle's test is sent after reconnection was given up |
| `QueuedOrdersFirst` | `Prices` | a new order takes a token ahead of the queue |
| `BreachHalts` | `Prices` | a breach while the expired flag is still set starts no halt |
| `RejectionRateIsFraction` | `Prices`, `MaxRejections = 3`, `RejectWindow = 3`, `MaxInstrumentRate = 2` | refused attempts are not counted as orders, so the rate exceeds 1 |
| `SilentWhenDisabled` | `Prices` | a signal whose coroutine has left `process_tick` joins the buffer after `disable()` has drained it, and is submitted at the end of its window |
| `SubmissionRateBounded` | `Prices` | `batch_and_submit` records orders in the rate trackers and never asks `check_rate_limit` |
| `OnlyTightens` | `Prices` | a news handler writes a stop computed from the one it read, which the trailing stop has passed |
| `UnsubscribedIsSilent` | `Prices` | a subscription replaced while an unsubscription waits loses its entry and keeps its table |
| `RunningIsListening` | `Prices` | a `start()` that failed leaves the running flag and cannot be tried again |
| `ConnectedIsOpen` | `Prices` | `is_connected` survives a broken connection |
| `LoopHearsAll` | `Prices` | the debug route analyses, and thereby consumes, the candle that would have been the loop's signal |
| `OneLoopTrades` | `Background` | a start during a stop raises the flag before the loop being stopped has been cancelled: two loops |
| `OnePollerFeeds` | `Background` | a loop ended by its errors leaves its poller asleep, and the next start raises the flag the poller reads |
| `ClientIsHeld` | `Background` | the stop route does nothing on a loop that ended by its errors, and the next start replaces the client without stopping it |
| `TradesNeedTables` | `Background` | `main.py:172` verifies the tables the loop depends on before it starts the loop; the start route does not ask |
| `NobodySkipped` | `Background` | a dashboard client that leaves in front of another moves it to a place the round has passed |
| `RegisteredIsSubscribed` | `Background` | a Redis subscription that failed leaves an empty handler list, and later subscribers take the channel for subscribed |
| `UnsubscribedIsQuiet` | `Background` | a handler of a channel that was unsubscribed during a dispatch is still called |
| `CriticalEverywhere` | `Background` | a CRITICAL notification sent with the old-style call is routed as HIGH |
| `ReportIsTrue` | `Background` | a channel reported as failed may have received the message: its answer was lost, or came after the deadline |
| `SuspendedStays` | `Background` | the weekly pass re-enables a strategy it saw disabled before it was suspended |
| `RelapseIsSuspended` | `Background` | the daily evaluation disables a relapsing strategy without checking for the suspension |
| `ModeFollowsServices` | `Background` | the degraded mode is not left when a source can be reached again: the engine connects its sources only when it starts |
| `ConsumersAgree` | `Background` | a mode event whose publication fails is not sent again |
| `OneCallback` | `Background` | every start of the news engine registers its callback with the sources again |
| `FailedMeansExhausted` | `Supervision` | a start that raises ends the restarts early |
| `StoppedStaysDown` | `Supervision` | `stop_all` skips a service that is starting |
| `IntervalRespected` | `Supervision` | two strategies pass the minimum interval in one snapshot, before either trade is recorded |
| `ConsecutiveProfits` | `Supervision` | the loop feeds losses to the detection only, so a loss does not reset the progress of a pattern's resolution |
| `ReactivationNeedsNewLosses` | `Supervision` | losses from before a pattern's resolution count towards its return |
| `AppliedFromTheStart` | `Supervision` | when `load_patterns_on_startup` fails the list stays empty: `main.py` logs it and nothing loads the patterns later |
| `StoppedIsClosed` | `Supervision` | a replication that awaits the risk engine is executed after its trader was stopped, and nothing closes it |
| `DisconnectIsFinal`, `TopicsSurvive` | `Supervision` | a Bloomberg disconnect that meets the teardown of a failed heartbeat leaves the reconnection behind, which brings up a feed without its topics |
| `FreshIsHealthy` | `Supervision` | a source just connected is unhealthy, because the time of the last message survives |
| `HealthyIsFiltered` | `Supervision` | a Twitter subscription that fails after deleting the rules leaves the stream without any |
| `EscalationIsSent` | `Supervision` | one slot holds the pending kill switch event; a second crisis overwrites it, and an escalated crisis is not looked at again |
| `UnreadableCalendarBlocks` | `Supervision` | a calendar that answers with something unreadable counts as available and empty, so a trade near an event is let through |
| `WindowBlocked` | `Supervision` | the calendar is fetched up to `block_before` ahead and kept for `check_interval`, so an event enters the window unseen |
| `AdjustedAhead` | `Supervision` | an event shortly after midnight is not in the calendar the day before |

Further disagreements, seen while translating and not stated as properties:

- The daily counters are reset at the first gate of a UTC day. A loss booked
  between midnight and that gate is wiped, so that the day's loss may exceed the
  cap before entries stop. `CountedLossStopsEntries` therefore speaks of what was
  booked since the reset.
- When the commit of a close fails, its profit is booked again with the next
  attempt, and counts twice towards the cap. `BookedOnce` allows one booking
  more for each such failure.
- `docs/FREE_NEWS_SAFETY.md:42` has an unavailable FMP calendar block trades; any
  calendar provider that answers, ForexFactory included, makes it available.
- `handle_crisis_response` publishes which positions it would close and widens;
  it closes and widens nothing, and the alert the news engine publishes
  (`news_engine.py:803`) carries no `positions`, so the subscribed handler
  works on an empty list. The requirement is to "reduce total portfolio
  exposure by 50%".
- `_reset_daily_if_needed` starts a day without its equity: the daily limit
  stays a percentage of the equity of the last explicit `reset_daily`.
- The application calls neither `update_on_trade_close` nor `reset_daily` of
  the monitor; its daily loss stays 0 there. They are modelled as the class
  offers them.
- The switch's own drawdown trigger fires above 15 percent, the monitor's from
  15 percent on.
- With the `MarketOutcome` the loop makes up for a closed trade every loss is
  classified `counter_trend_entry`.
- `DiscordChannel` has no `name`, which the service asks of a channel, and
  `EmailChannel.send` takes another object than the service hands it.
- A copied trade is validated against an empty list of positions, and
  re-registering a trader forgets its open positions and history.
- `fetch_and_rank` says it keeps the most recent data of a trader listed twice;
  it keeps that of the source listed last.

## 6. Not modelled, and why

- Strategies, ML models, sentiment and geopolitical scores, model evaluation and
  retraining, backtesting, research: floating-point computations over price
  series and texts. The rest of the program sees a number, which the modules
  take from a small set.
- `security/`, `config/settings.py`, logging, the formatting of notifications:
  libraries, constants, text.
- SQL: a transaction of the loop is one step that commits or fails as a whole;
  of the mistake database, each call is one.
- The API's read-only endpoints, authentication, the debug route that closes
  every position.
- `KillSwitch.close_all_positions` and `CrisisDetector.check_persistence`,
  which nothing calls.
- An order that IG executes after `place_order` gave up is in
  `GuardedPosition` (fault `"late"`) but not in `TradingLoop`, whose
  `OneDealPerEpic` would not survive it. IG is assumed to open one deal per
  deal reference.

## 7. Plan

Done: the modules of section 2 and the proofs of section 4. What is left of the
code is mostly numeric (section 6). Open, in this order:

1. `CrisisHalves`, `SharesFit` and `MinActiveHeld`, which no run checks, as
   theorems; the sums by the lemmas `TradingLoop_proofs` has.
2. The types of the components whose invariant does not contain them.
3. A loss cap of the calendar day, when the lazy reset of the daily counters and
   the second booking after a failed commit are settled in the code (section 5).
