# A TLA+ model of the 24alert trading bot

The repository is a Go trading bot for the T-Invest broker API. Its core is the
*strategy runner*: strategy instances read candles, produce signals, and the
runner turns the signals into orders, books the executions in a ledger and keeps
the open positions protected. Beside it run a market-data stream shared by all
readers and an *AI trader* with sessions of its own. This directory models that
core: TLA+ modules translated from the Go code, TLC configurations that check
them on small instances, and TLAPS proofs.

## Inventory

| Component | State | Operations | Correct when |
|---|---|---|---|
| Execution dispatch (`internal/strategy/runner_exec.go`, `runner.go`) | `orderOwners`, `lastFilled`, `signalRefPx` under `Runner.mu` | `dispatchExecution`, `pollOrderStateAfterSubmit`, `consumeOrderStates`, the end of `handleSignals` | each executed lot is booked once; an order is forgotten when, and only when, it is over |
| Order service, repository, streams (`internal/order`) | `activeOrders`, `journal`, subscriber channels | `PostOrder`, `CancelOrder`, `GetOrderState`, `UpdateOrderState`, `StreamOrderStates`, `StreamTrades` | no live order is hidden from `GetActiveOrders` |
| Protective stops (`runner_exec.go`) | `stopOrders`, the broker's stop orders | `ensureProtectiveStop`, `cancelTrackedProtectiveStop` | an open position that can be protected (stop percentage configured, price known, strategy able to restore it) gets a stop order of its side; duplicates are few; no stop order is cancelled by two goroutines |
| Reconciliation and ledger (`runner.go`, `ledger/ledger.go`) | `QtyByInst`, `AvgByInst`, `RealizedRUB` | `ApplyFill`, `ReconcileFromBroker`, `syncBrokerState` | the ledger converges to the broker's position |
| Watchdog and flatten (`runner_exec.go`, `runner_control.go`) | `equityPeak` | `maybePauseOnLoss`, `flattenInstance`, `FlattenInstance`, `CheckStuckOrders` | after a loss limit no unprotected position is left |
| Candle hub (`candlehub.go`) | `groups`, `candleGroup.subs` | `Subscribe`, cleanup, `candleGroup.run` | one market-data subscription per key; no gap, no repetition; a group serves its maker, and ends |
| Instance lifecycle (`runner.go`, `admin.go`) | `instances`, `byID`, `strategiesCfg` | `StartInstanceByID`, `StopInstance`, `ReloadConfig`, `StopAll` | at most one runtime of an instance; it runs the configuration in force; what is stopped stays stopped |
| Signal gate (`handleSignals`, `session.go`) and risk (`internal/risk`) | circuit breaker | session guard, position limit, balance | the position exceeds its limit by no more than what the check does not count |
| Strategies (`sma`, `lb`, `orb`) | position, pending entry and exit, stops | `OnCandle`, `OnLiveCandle`, `OnExecution`, `OnSignalDispatchFailed`, `SyncBrokerPosition` | one order at a time; the belief follows the broker |
| Market data stream (`internal/marketdata/stream.go`) | SDK subscriptions with counts, fan-outs | `Subscribe…`, `Unsubscribe…`, `Listen`, `reconnect`, `resubscribeAll`, `publish` | a subscription lives and is served while it is referenced |
| AI trader (`ai_trader*.go`) | sessions, working orders, kill switch, snapshots | start, resume, start-trading, stop, flatten; the tick of the loop; polls | orders stay known; a halted trader is quiet; a stop request reaches what trades |
| Portfolio streams, gateway streams, rate limiter, remote strategies | subscriber maps, tokens | fan-out, WebSocket subscriptions | (not modelled) |
| Assistant, strategy lab, advisor, trade analyst | prompts, reports | language-model pipelines | (not modelled) |

How they interact. `startInstance` synchronises the instance with the broker,
then subscribes to the candle hub, which subscribes to the market-data stream;
each candle goes through the strategy to `handleSignals`, which asks the risk
service and calls `PostOrder`. Executions come back three ways: in the answer of
`PostOrder`, by the order-state stream, and from a poller. All three call
`dispatchExecution`, which books the fill, adjusts the stop order and calls
`OnExecution`. Beside them run the broker reconciler (every 15 s), the watchdog
and the handlers of the management API. The AI trader has loops, polls and
requests of its own, and shares the order and the risk service. The mutexes
protect single steps only, never a whole handler: that is where most of the
hazards listed in `PROJECT.json` come from.

## Modules

| Module | Models | Variables and the code they stand for |
|---|---|---|
| `Booking` | the promise of the dispatch, without its goroutines | `phase`, `executed`, `claimed`, `settled` of each order |
| `OrderExecution` | an order from `PostOrder` to the ledger; implements `Booking` | `status`, `executed`, `wire` (broker); `states` (the 512-slot channel); `activeOrders`, `priced` (Repository); `orderOwners`, `lastFilled` (Runner); per goroutine `pc`, `report`, `avgKnown`, `delta` (locals of `dispatchExecution`); `booked`, `unbooked`, `released` (history) |
| `ProtectiveStop` | position, ledger and stop orders of one instance and instrument | `pos`, `active`, `stops` (broker); `fills`; `mode` (instance); `ledger`; `tracked` (`stopOrders`); `pc`, `qty`, `stopID` (locals of each goroutine) |
| `CandleHub` | a group of the hub | `current` (`groups[key]`), `subs`, `cancelled`, `at`, `todo`, `candle` (a group and its goroutine); `src`, `outs`, `queue`, `item` (`streamFanout`); `sub`, `joined`, `chan`, `got` (instances) |
| `MarketStream` | `StreamManager` | `stream`, `refs`, `gen`, `subs` (subscriptions and fan-outs), `forwarders`, `listener`, `attempt`; `asked`, `closed` (broker streams); `phase`, `chan` (readers) |
| `RunnerLifecycle` | start, stop, reload, shutdown | `instances`, `byID`, `strategiesCfg` (Runner); `inst`, `loops`, `cancelled` (a runtime and its candle goroutines); `op`, `pc`, `stops`, `starts`, `cur`, `rt`, `left` (locals of a task) |
| `SmaStrategy`, `LbStrategy`, `OrbStrategy` | the strategies, as operators from a state and an input to the next state and signals | one record: position, pending entry and exit, and what the strategy computes from |
| `StrategyOrders` | a strategy, its orders, the reports and the reconciler | `strat`, `pending`, `work` (the instance's goroutine); `orders`, `pos`, `avg`, `price` (broker); `owned`, `inHand` (reports); `snapshot` (what the reconciler read); `disturbed`, `shut`, `reversed` (history) |
| `RiskGate` | circuit breaker and position limit, as operators | a breaker: failures in a row, tripped, cooled down |
| `AiTrader` | the AI trader in `armed_live` mode | `session`, `current`, `snap` (`AITraderManager`, session store); `kill`, `breaker`; `thread` (each loop, poll and request: the session it holds and what it has left to do); `orders`, `pos` (broker) |

The theorems of a module are in a module of their own that extends it:
`OrderExecution_proofs` (the refinement of `Booking` included),
`ProtectiveStop_proofs`, `RunnerLifecycle_proofs`, `CandleHub_proofs`,
`MarketStream_proofs`, `StrategyOrders_proofs`, `AiTrader_proofs`; and
`AiTrader_limit`, which extends the last with the position limit.

One action stands for the code between two points where another goroutine can
intervene: a critical section, a broker call, a channel operation. So
`dispatchExecution` is `LookUpOwner`/`IgnoreUnowned` (first lock), `ReadPrice`
(the wait for a trade), `TakeDelta` (second lock), `BookFill` (the ledger's
lock) and `FinishDispatch` (last lock). In `AiTrader` a goroutine carries the
steps it still has to take (`run`), each up to its next broker call. The
strategies have no lock at all; `StrategyOrders` makes each call of a method one
step. The `map` in `PROJECT.json` names the lines of every definition.

How the modules fit. `OrderExecution` ends where a fill is given to `ApplyFill`;
`ProtectiveStop` takes a fill as booked or lost, whichever `OrderExecution`
allows; `StrategyOrders` takes a report as delivered, late, repeated or lost.
`CandleHub` takes the stream as reliable, `MarketStream` says when it is. In
`CandleHub`, `ProtectiveStop` and `StrategyOrders` starting and stopping an
instance is an environment action; `RunnerLifecycle` models it. `AiTrader` uses
the operators of `RiskGate` at each approval.

**The refinement.** `Booking` has one claim of executed lots, one settlement of
what was claimed, and one forgetting, allowed only when the order is over and
nothing is unclaimed. `OrderExecution` implements it (`ImplementsBooking`):
`claimed` is `lastFilled` while the runner knows the order, `settled` what was
booked or dropped for want of a price, `phase` follows the broker's status and
`released`. The promise ends when the order is forgotten; the run
`order_execution_once` shows what the code does afterwards.

## Runs

| Run | Bounds | Shows |
|---|---|---|
| `order_execution` | 1 order, 2 lots, channel of 1, 3 polls | `EachLotTakenOnce`, `NothingSkipped`, `HiddenOrdersAreOver`, `ImplementsBooking`, `TerminalReportReleases` |
| `order_execution_once` | the same | **violated**: a lot can be booked twice (`EachLotBookedOnce`) |
| `candle_hub` | 2 subscribers, channels of 1, 3 candles | `ReceivedInOrder`, `OneGroup`, `MakerServed`, `CancelledGroupEnds`, `CandleDelivered` |
| `candle_hub_lifetime` | 1 candle | **violated**: a group dies with its maker (`CancelledWithLast`) |
| `protective_stop` | 1 dispatcher, 1 order of 1 lot, one loss limit, and one of: a triggered stop and a restart; a failed call and a failed listing; a manual flatten with 2 shares in a lot; a restart of an instance without a stop percentage, with a strategy that restores nothing, or with positions without a price | `CancelledByOne`, `DuplicatesBounded`, `PositionGetsProtected`, `LedgerConverges` |
| `protective_stop_watchdog` | none of these but the loss limit | **violated**: the watchdog can leave an unprotected position (`WatchdogClosesRisk`) |
| `runner_lifecycle` | 1 instance of 2 instruments, 2 configurations, 1 admin beside boot and watchdog, 3 runtimes, 2 requests, 1 failing start | `OneRuntime`, `RunsCurrentConfig`, `DeadEntryGoes`, `ShutdownQuiets` |
| `runner_lifecycle_reported` | 1 instrument, 1 configuration, 3 requests | **violated**: a runtime trades that no request can stop (`RunningIsReported`) |
| `market_stream` | 1 candle and 1 tick key, 2 readers of which 1 never unsubscribes, 1 reconnection attempt, 2 events, 2 faults | `ReaderKeepsSubscription`, `SubscriptionServed`, `RefsCountHolders`, `PublishEnds`, `ServedInTheEnd` |
| `strategy_orders` | each strategy with 3 candles, 2 or 3 orders, 1 refusal, outside close or restart, reports with and without an average price | `OneInFlight`, `BeliefMatches`, `ExposureBounded`, `ExitNeverOpens`, `SettlesToBroker` |
| `strategy_trailing` | the crossover, 4 candles, no trouble | **violated**: the trailing stop falls back (`TrailsTheBestPrice`) |
| `ai_trader` | the budgets of `MCAiTrader`: up to 2 sessions, 2 orders, 2 goroutines at a time, 1 or 2 shares in a lot, and each event once | `KilledStaysQuiet`, `WorkingOrdersKept`, `LoopsAreListed`, `LimitKeptButForExtra`, `ZeroIsAgreed` |

Every run of a module's main configuration also checks its type invariant.

Why the bounds are enough. Two lots give a partial fill and a completion, and the
three reporting goroutines all exist with one order; orders share nothing but
the channel, which a capacity of one already makes drop. With two subscribers and
channels of one, a full channel, a departed reader, a joining reader and the
replacement of a group all occur. One order and one stop order, together with
the closing orders, take the position through zero to the other side (a stop
that triggers beside the closing order; two closings of one position; a closing
order of two lots for two shares). `MaxStops` is no limit of the broker:
identifiers are reused, and seven are more than can be live or in hand at once,
so posting never waits for one. Three runtimes are one started by boot, one by
request and one by reload; two streams beside the current one are what a
subscription during the reconnection can leave. Three candles take each strategy
through an entry and an exit or a reversal, on each of its ways out (trailing or
structural stop, target, opposite signal, end of day), with reports from both
sources late or lost and the reconciler between any two steps. In `ai_trader`
everything at once is out of reach; a behaviour has one of twelve budgets, which
pair each event (stop, flatten, kill switch, time-out, crash and resumption,
failing, refused or lost calls) with the trading it races.

Five runs end on a statement of the code or of its docs that the code does not
keep; the wording is quoted in the findings of `PROJECT.json`.

* `EachLotBookedOnce`. Two reports of the final state pass the owner check; one
  finishes and deletes `lastFilled`; the other computes its delta from zero.
  `EachLotTakenOnce` says how far the design holds: exactly until then. The
  reconciler repairs the quantity (`LedgerConverges`), not the realized profit.
* `CancelledWithLast`. The comment asks for the runner's context as parent;
  `startInstance` passes the instance's.
* `WatchdogClosesRisk`. Positions are read before the orders are cancelled, and
  the instance is stopped whatever was closed.
* `RunningIsReported`. The check of the map and the registration are far apart,
  and the second runtime replaces the first in the map.
* `TrailsTheBestPrice`. The sync written for the start of trading runs every
  fifteen seconds and sets the best price anew.

Some properties carry the exception under which the code breaks them. They are
part of what the runs show:

* `disturbed` in `StrategyOrders`: a sync while something is in flight, a report
  of another order or a partial fill clears the pending flags, and a second exit
  may then turn the position; `OneInFlight` and `ExitNeverOpens` say nothing of
  that case. `reversed`: the crossover reverses with one quantity, so
  the broker goes flat while the strategy believes it has turned; the breakout
  trades twice the quantity. `shut`: the position was closed from outside.
* `raced` in `AiTrader`: an order posted while another goroutine was rewriting
  the list of working orders is lost from it. `extra`: the position limit does
  not count the orders in flight of the same side, and it adds the lots of the
  order to shares, so that with several shares in a lot one order alone may
  exceed it, the closing of a position adopted from the broker included. `over`: a session resumed
  while its predecessor's loop still runs is marked stopped when that loop ends,
  and then neither a stop request nor a later start cancels it.

Two properties hold under conditions. `PositionGetsProtected` asks for a stop
percentage, a price and a strategy that can restore a position (`Protectable`):
`ensureProtectiveStop` returns without one of the first two, and
`syncBrokerState` before it reaches the protection without the third, so that a
running instance may keep an open position without a stop for ever; the run
contains the three cases for the other properties. `KilledStaysQuiet` speaks of
the ticks and requests that begin while the kill switch is on: an order past its
risk gate when the switch is thrown is still posted
(`ai_trader_live_trading.go:336-348`).

Observations beside the findings, met while translating. A stop or closing order
has as many lots as the position has shares: with several shares in a lot,
flattening turns the position (the third scenario of `protective_stop` contains
it; a running instance protects and books the turned position, a stopped one does
not). The bounce and the breakout ignore a cancelled order until the next sync.
`dispatchExecution` calls `OnExecution` without the strategy checking whose order
it was. `validateInstanceSafety` refuses to run the breakout (`orb_breakout`) as an
instance, so what `strategy_orders` shows of it holds of its code and of no
deployment. The AI trader takes the broker's shares for its session's lots when it
adopts a position. It records one fill from a tick and from a poll; its broker
sync repairs only the difference between zero and non-zero; a time-out leaves the
broker orders; a tripped breaker or the kill switch also blocks closing; the kill
switch does not survive a restart; a session resumed in its trading phase keeps
entries paused for good. Several SDK subscriptions of one kind share one channel,
so a candle of one key may be taken by the forwarder of another (the reason
`MarketStream` promises subscriptions served and not every candle). The AI
trader's book is unsubscribed through the wrong call (`ai_trader_stream.go:27`)
and stays subscribed, as do the hub's.

Simplifications, none of which a property rests on. In `AiTrader` a session has a
name of its own, while `ai_trader.go:304` makes names with a resolution of one
second, and a resumption loads the snapshot and installs the session in one step
(`ai_trader_session_store.go:272`, 293-298). Reports of a `NEW` order are left out
of `StrategyOrders`: the dispatch hands them over and every strategy ignores them.
`RunnerLifecycle` compares configurations as values; `instanceChanged` takes a
missing parameter for an empty one. `StreamManager.Stop`, which only the shutdown
of the stand-alone market-data server calls, is left out of `MarketStream`.

Deadlock is not checked: in all models the bounded environment may fall silent.

## Fairness

Weak fairness of goroutines that can take a step: the Go scheduler runs them, and
a `select` with a ready case does not pass it over for ever (`ExitRun` in
`CandleHub`: whenever the group is at its `select`, the ended context is one of
the ready cases). In `ProtectiveStop` and `StrategyOrders` the reconciler's
ticker ticks, and broker calls fail only boundedly often, which is how "the
broker answers again" is expressed; `StrategyOrders` assumes nothing else, not
even that a report arrives. `AiTrader` has strong fairness of each session's
loop: its step is disabled while another goroutine holds the manager's lock, and
Go's mutex hands the lock to a waiter that starves; ticks find an order book, and
broker calls return. Nothing is assumed of the broker's executions or streams, of
the market, nor of anybody starting or stopping anything.

## Proofs

TLC shows a property on the small instances above. The theorems below hold for
every value of the constants that the module's named assumption allows; the
assumptions are the types of the constants, that a marker such as `Nil` is none
of the values it stands beside, and, where something is counted, that a set is
finite (the goroutines that dispatch, the readers of the stream, the budgets).

| Module | Proved of `Spec` | For all |
|---|---|---|
| `OrderExecution_proofs` | `TypeOK`, `EachLotTakenOnce`, `NothingSkipped`, `HiddenOrdersAreOver`; `ForgetsOnlyFinal`; `Promise!Safety`: the dispatch implements the safety part of `Booking` | orders, lots, channel capacity, polls |
| `ProtectiveStop_proofs` | `TypeOK`, `CancelledByOne`, `DuplicatesBounded` | dispatching goroutines, sizes, scenarios |
| `RunnerLifecycle_proofs` | `TypeOK`, `OneRuntime`, `RunsCurrentConfig` | instances, instruments, configurations, handlers, requests, failures |
| `CandleHub_proofs` | `TypeOK`, `OneGroup`, `MakerServed`, `ReceivedInOrder` | subscribers, candles, channel capacities |
| `MarketStream_proofs` | `TypeOK`, `ReaderKeepsSubscription`, `RefsCountHolders`, `SubscriptionServed` | keys, readers, reconnections, lost connections, failed calls |
| `StrategyOrders_proofs` | `TypeOK`, `OneInFlight`, `BeliefMatches`, `ExposureBounded`; `ExitNeverOpens` | the three strategies, candles, session times, orders, troubles |
| `AiTrader_proofs` | `TypeOK`, `KilledStaysQuiet`, `WorkingOrdersKept`, `LoopsAreListed` | budgets: sessions, orders, goroutines, events, limits |
| `AiTrader_limit` | `LimitKeptButForExtra` | the same, and any lot |

Each module proves `Invariant == Spec => []IInv` with one lemma for each action
(`BookFillKept`, `LeaveKept`, ...) that the action keeps `IInv`, and derives the
properties. None of them is inductive as it stands; what `IInv` adds, and why:

* `OrderExecution`. Every report in a queue or in a goroutine's hands tells a
  *past* state of its order (`Sound`: its count is not beyond the broker's, and
  final if it is terminal), so a stale report never moves the cursor too far; a
  delta is held only between the two steps that take and book it (`DeltaHeld`);
  past `TakeDelta` the cursor has reached the report's count (`CursorReached`),
  so that when a terminal report makes the runner forget the order, its lots are
  taken. The refinement needs no more: under `IInv` each action maps to
  `Execute`, `Claim`, `Settle` or `Forget` of `Booking`, or changes none of the
  mapped variables.
* `ProtectiveStop`. A stop is in the hands of exactly the goroutines that are
  about to track or cancel it, and one that may post a stop has read a position
  other than zero and is no closer (`TaskInv`): without this a second goroutine
  could take the same identifier out of `stopOrders`.
* `RunnerLifecycle`. `Clean(id)`, of an instance that no two tasks were at work
  on at once: the maps, the configuration and the one task at work agree
  (`Knows` says what that task may rely on between two of its steps). Beside it,
  for all instances, runtimes are handed out in order and each is set up by one
  task (`RuntimeInv`).
* `CandleHub`. What a channel still holds continues what was taken from it
  (`Carries`, `Position`): the candles of the instrument in it are the ones after
  the last taken, in order and without a gap, and each subscriber has been sent
  either that candle or, if it is still in the copy the group works through, the
  one before. `OneGroup` and `MakerServed` rest on membership: who is in
  `subs`, of one group only and once (`SubscriberInv`, `GroupInv`).
* `MarketStream`. The count of a key is the number of its holders as long as it
  is in the table and nobody holds it otherwise (`KeyInv`); at the points where
  the listener takes or reads a stream, each key of the table has been asked for
  on that stream and has a forwarder whose context lives (`ListenInv`). A
  forwarder is told from its predecessor by the key's generation, which grows
  with a subscribing reader only.
* `StrategyOrders`. What a strategy waits for is its only signal or its last
  order (`Asked`, `Waits`, `InFlight`), and the broker's position is the one it
  believes plus what that order has moved since (`Went`, `Believed`). Prices are
  not used: which branch `OnCandle` takes is left open, what it leaves pending is
  not (`Signalled`). That the position is bounded by the lots executed counts
  the lots as pairs of an order and a number (`Executed`).
* `AiTrader`. A goroutine that rewrites the list of working orders has, in what
  it read and has not thrown away, every order the session may not lose
  (`ThreadOK`), and so has the list itself when nobody rewrites it (`OrdersInv`).
  Sessions begin in the order of their numbers, and an unmarked loop that nobody
  cancelled is the current one's (`SessionInv`). `IInv` is `\E extra :
  Inv(extra)`: `extra` is the set of the values that a history variable, a sum
  over a set, has had; these properties do not need the sum unfolded. That a
  finite set of numbers has a largest (`LargestExists`) is shown by a smallest
  counterexample.
* The limit of `AiTrader`. `CheckPosition` adds the lots of the order to the
  shares of the position and counts nothing in flight, so the invariant (`LInv`,
  beside `IInv`) has to speak of what is in flight: on either side, the position
  with *any* of the working orders and of the orders about to be posted exceeds
  the limit by no more than the `extra` of one of these or of a filled order
  (`Covered`). An approval keeps it because `extra` is all that was in flight then
  and the shares the order has beyond its lots (`LotShares`, `LimitSum`); a fill,
  because it moves shares from the orders to the position. Sums are counted as
  sets with a pair for each share (`Units`); that this is what `MapThenSumSet` adds up, whatever order
  it takes the elements in, is `AddsTotal` and `AddsOnce`.

Model-checked only. The liveness properties `TerminalReportReleases`,
`CandleDelivered`, `CancelledGroupEnds`, `PositionGetsProtected`,
`LedgerConverges`, `DeadEntryGoes`, `ShutdownQuiets`, `PublishEnds`,
`ServedInTheEnd`, `SettlesToBroker`, `ZeroIsAgreed`, and with them the liveness
part (`Dealt`) of `ImplementsBooking`: fairness and `ENABLED` are outside the
prover's reach. Every invariant and every other action property of the passing
runs is proved. The five violated statements are refuted by TLC and need no
proof.

## Plan

1. Proofs. The invariants and action properties of the runs are proved. What is
   left is what the runs do not state yet: the invariants of the modules of items
   2 and 3, and in `RunnerLifecycle` that a runtime once cancelled never trades
   again, whatever its instance goes through.
2. `Ledger`: average price and realized profit as a pure module, checked against
   a fold over fills; the schedule arithmetic of `session.go`.
3. `PortfolioStream`, gateway subscriptions, `RateLimiter`, the time-out and
   fallback of a remote strategy.

## Not modelled

The assistant, strategy lab, advisor and trade analyst assemble prompts and
reports around calls of a language model; so does a large part of the AI trader,
where the plan, the levels and the answers are choices. Paper trading takes the
same tick without a broker. Configuration, logging, metrics, the journal's SQL,
the REST handlers, the command-line tools, the dashboard and the generated
protocol buffers, which are the largest files of the repository, are I/O and
formatting. Prices are numbers in the strategies and abstracted elsewhere. The
average price and the realized profit of the ledger, the schedule arithmetic and
the account allocation, the portfolio and gateway streams and the rate limiter are
planned or left out as the components' notes say.
