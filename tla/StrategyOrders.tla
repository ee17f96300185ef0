--------------------------- MODULE StrategyOrders ---------------------------
(***************************************************************************)
(* One strategy instance and its orders: the goroutine of the instance     *)
(* feeds candles and dispatches signals (handleSignals), reports of orders *)
(* come back through dispatchExecution, and the reconciler imposes the     *)
(* broker's position every fifteen seconds.  None of them takes a lock     *)
(* around the strategy.                                                    *)
(*                                                                         *)
(* Abstracted: the session guard, risk and the broker's refusal are one    *)
(* choice; a method of the strategy is one step; a report may be lost,     *)
(* late or repeated; the ledger and the protective stop have modules of    *)
(* their own, here the position may just be closed from outside.           *)
(*                                                                         *)
(* The breakout ("orb") is here for the interface it shares with the other *)
(* two: startInstance refuses it for live trading (validateInstanceSafety).*)
(***************************************************************************)
EXTENDS Integers, Sequences, FiniteSets

CONSTANTS
  Kinds,          \* strategies the instance may run: "sma", "lb", "orb"
  Candles,        \* per kind, the candles of the market: [high, low, close]
  Phases,         \* per kind, the times bars may have, in order: [day, late]
  Warm,           \* the last bars of the warm-up: [high, low, close]
  FastN, SlowN, SwingBars, TrailNum, TrailDen,       \* of SmaStrategy
  Daily, LevelDays, SlNum, TpNum, MultDen,           \* of LbStrategy
  RangeCandles, TopPrice,                            \* of OrbStrategy
  MaxCandles,     \* bound: candles that arrive, per kind
  MaxOrders,      \* bound: orders the instance posts, per kind
  MaxTroubles,    \* bound: refused signals, closes from outside and restarts
  Nil

Sma == INSTANCE SmaStrategy
Lb == INSTANCE LbStrategy
Orb == INSTANCE OrbStrategy

ASSUME OrdersAssumption ==
  /\ Kinds \subseteq {"sma", "lb", "orb"} /\ \A k \in Kinds : 1 \in DOMAIN Phases[k]
  /\ MaxTroubles \in Nat /\ \A k \in Kinds : {MaxCandles[k], MaxOrders[k]} \subseteq Nat
  /\ Sma!SmaAssumption /\ Lb!LbAssumption /\ Orb!OrbAssumption

VARIABLES
  strat,      \* the strategy
  pending,    \* the last candle of the stream, not known to be complete
  work,       \* what the instance's goroutine still has to do
  orders,     \* orders at the broker: [dir, lots, filled, status, exit]
  owned,      \* orderOwners: orders whose reports are looked at
  inHand,     \* reports that have passed the owner check: [order, status, via]
  pos, avg,   \* the broker's position in lots, and its price
  phase,      \* index of the time in Phases
  price,      \* the last price
  snapshot,   \* what the reconciler has read: [pos, avg, price], or Nil
  disturbed,  \* history: flags were cleared by a sync, another order or a part
  shut,       \* history: the position was closed from outside, or an order ended in part
  reversed,   \* history: a crossover order was sent against a position
  count       \* bounded things done so far

marketVars == <<pending, phase, price>>
brokerVars == <<orders, pos, avg>>
reportVars == <<owned, inHand>>
historyVars == <<disturbed, shut, reversed>>
vars == <<strat, work, marketVars, brokerVars, reportVars, snapshot, historyVars, count>>

Limit == [candles |-> MaxCandles[strat.kind], troubles |-> MaxTroubles]
Counts(k) == /\ count[k] < Limit[k]
             /\ count' = [count EXCEPT ![k] = @ + 1]

Sign(n) == IF n > 0 THEN 1 ELSE IF n < 0 THEN -1 ELSE 0
IsOpen(o) == orders[o].status \in {"new", "partially_filled"}
Terminal(status) == status \in {"filled", "cancelled", "rejected"}
Flat(S) == S.entry = 0 /\ ~S.exit

-----------------------------------------------------------------------------
(* The strategy behind its interface.                                      *)

OnCandle(S, k) == CASE S.kind = "sma" -> Sma!OnCandle(S, k)
                    [] S.kind = "lb" -> Lb!OnCandle(S, k)
                    [] S.kind = "orb" -> Orb!OnCandle(S, k)

OnExecution(S, status, px) == CASE S.kind = "sma" -> Sma!OnExecution(S, status, px)
                                [] S.kind = "lb" -> Lb!OnExecution(S, status, px)
                                [] S.kind = "orb" -> Orb!OnExecution(S, status, px)

OnSignalDispatchFailed(S, sig) == CASE S.kind = "sma" -> Sma!OnSignalDispatchFailed(S, sig)
                                    [] S.kind = "lb" -> Lb!OnSignalDispatchFailed(S, sig)
                                    [] S.kind = "orb" -> Orb!OnSignalDispatchFailed(S, sig)

ResetTradingState(S) == CASE S.kind = "sma" -> Sma!ResetTradingStateAfterWarmup(S)
                          [] S.kind = "lb" -> Lb!ResetTradingStateAfterWarmup(S)
                          [] S.kind = "orb" -> Orb!ResetTradingStateAfterWarmup(S)

SyncBrokerPosition(S, q, a, px) == CASE S.kind = "sma" -> Sma!SyncBrokerPosition(S, q, a, px)
                                     [] S.kind = "lb" -> Lb!SyncBrokerPosition(S, q, a, px)
                                     [] S.kind = "orb" -> Orb!SyncBrokerPosition(S, q, a, px)

-----------------------------------------------------------------------------
(* The instance's goroutine.                                               *)

\* Only the crossover handles live candles.
Live(k) == IF strat.kind = "sma" THEN <<[do |-> "live", candle |-> k]>> ELSE <<>>
Bar(k) == [do |-> "bar", candle |-> k]
Dispatch(sig) == [do |-> "dispatch", signal |-> sig]

\* A candle of the stream: the protective handler sees it as it is, and the
\* one before it is a completed bar when the time has moved on.
Arrive(k, p, newBar) ==
  /\ work = <<>>
  /\ Counts("candles")
  /\ p \in {phase, phase + 1} \cap DOMAIN Phases[strat.kind]
  /\ newBar \/ p = phase
  /\ LET c == [high |-> k.high, low |-> k.low, close |-> k.close,
               day |-> Phases[strat.kind][p].day, late |-> Phases[strat.kind][p].late]
     IN /\ work' = Live(c) \o (IF newBar /\ pending # Nil THEN <<Bar(pending)>> ELSE <<>>)
        /\ pending' = c
  /\ phase' = p
  /\ price' = k.close
  /\ UNCHANGED <<strat, brokerVars, reportVars, snapshot, historyVars>>

\* OnLiveCandle or OnCandle, and the signals it returns.
Evaluate ==
  /\ work # <<>>
  /\ Head(work).do \in {"live", "bar"}
  /\ LET k == Head(work).candle
         r == IF Head(work).do = "live" THEN Sma!OnLiveCandle(strat, k) ELSE OnCandle(strat, k)
     IN /\ strat' = r[1]
        /\ work' = [i \in DOMAIN r[2] |-> Dispatch(r[2][i])] \o Tail(work)
        /\ reversed' = (reversed \/ (/\ strat.kind = "sma" /\ strat.pos # 0
                                     /\ r[1].entry # strat.entry))
  /\ UNCHANGED <<marketVars, brokerVars, reportVars, snapshot, disturbed, shut, count>>

\* handleSignals: refused by the session, by risk or by the broker.
Refuse ==
  /\ work # <<>>
  /\ Head(work).do = "dispatch"
  /\ Counts("troubles")
  /\ strat' = OnSignalDispatchFailed(strat, Head(work).signal)
  /\ work' = Tail(work)
  /\ UNCHANGED <<marketVars, brokerVars, reportVars, snapshot, historyVars>>

\* Mutant: an order whose answer is late is posted again.
MutantPost ==
  /\ work # <<>>
  /\ Head(work).do = "dispatch"
  /\ Len(orders) < MaxOrders[strat.kind]
  /\ LET s == Head(work).signal
         new == [dir |-> s.dir, lots |-> s.lots, exit |-> s.exit, filled |-> 0, status |-> "new"]
     IN \E again \in {<<>>, <<new>>} :
          /\ orders' = orders \o <<new>> \o again
          /\ owned' = owned \cup (Len(orders) + 1 .. Len(orders'))
  /\ work' = Tail(work)
  /\ UNCHANGED <<strat, marketVars, pos, avg, inHand, snapshot, historyVars, count>>

\* handleSignals: PostOrder is accepted and its owner is recorded. A report that
\* comes in between is dropped, which is a report never received; the response
\* of the broker is handled as a report.
Post ==
  /\ work # <<>>
  /\ Head(work).do = "dispatch"
  /\ Len(orders) < MaxOrders[strat.kind]
  /\ LET s == Head(work).signal IN
       orders' = Append(orders, [dir |-> s.dir, lots |-> s.lots, exit |-> s.exit,
                                 filled |-> 0, status |-> "new"])
  /\ owned' = owned \cup {Len(orders) + 1}
  /\ work' = Tail(work)
  /\ UNCHANGED <<strat, marketVars, pos, avg, inHand, snapshot, historyVars, count>>

-----------------------------------------------------------------------------
(* The broker.                                                             *)

\* One lot of an order executes.
Fill(o) ==
  /\ IsOpen(o)
  /\ orders' = [orders EXCEPT ![o].filled = @ + 1,
                              ![o].status = IF orders[o].filled + 1 = orders[o].lots
                                              THEN "filled" ELSE "partially_filled"]
  /\ pos' = pos + orders[o].dir
  /\ avg' = IF pos = 0 THEN price ELSE IF pos' = 0 THEN 0 ELSE avg
  /\ UNCHANGED <<strat, work, marketVars, reportVars, snapshot, historyVars, count>>

EndOrder(o, status) ==
  /\ IsOpen(o)
  /\ status = "rejected" => orders[o].filled = 0
  /\ orders' = [orders EXCEPT ![o].status = status]
  /\ shut' = (shut \/ orders[o].filled > 0)
  /\ UNCHANGED <<strat, work, marketVars, pos, avg, reportVars, snapshot, disturbed, reversed, count>>

\* A protective stop, the watchdog or the operator closes the position.
CloseOutside ==
  /\ pos # 0
  /\ Counts("troubles")
  /\ pos' = 0 /\ avg' = 0
  /\ shut' = TRUE
  /\ UNCHANGED <<strat, work, marketVars, orders, reportVars, snapshot, disturbed, reversed>>

-----------------------------------------------------------------------------
(* Reports: the order stream and the polls after an order is posted bring   *)
(* the same one, in any order, or never. The stream has one goroutine, and  *)
(* each posted order one that polls.                                        *)

\* dispatchExecution: a report of an order nobody owns is dropped; one of an order
\* nothing has happened to changes nothing in any strategy, and is left out ...
Receive(o, via) ==
  /\ o \in owned
  /\ orders[o].status # "new"
  /\ \A r \in inHand : r.via = via => via = "poll" /\ r.order # o
  /\ inHand' = inHand \cup {[order |-> o, status |-> orders[o].status, via |-> via]}
  /\ UNCHANGED <<strat, work, marketVars, brokerVars, owned, snapshot, historyVars, count>>

\* ... the others reach the strategy, whatever it is waiting for; the end of an
\* order makes the runner forget it. It is expected when it is of the whole of
\* the order that was posted last, and the strategy waits for it.
Expected(r) ==
  r.order = Len(orders) /\ Terminal(r.status) /\ ~Flat(strat) /\ ~\E i \in DOMAIN work : work[i].do = "dispatch"

\* The average price may be missing from a report.
Execute(r) ==
  /\ r \in inHand
  /\ inHand' = inHand \ {r}
  /\ \E avgPrice \in {0, price} : strat' = OnExecution(strat, r.status, avgPrice)
  /\ owned' = IF Terminal(r.status) THEN owned \ {r.order} ELSE owned
  /\ disturbed' = (disturbed \/ ~Expected(r))
  /\ UNCHANGED <<work, marketVars, brokerVars, snapshot, shut, reversed, count>>

-----------------------------------------------------------------------------
(* The reconciler, and a restart.                                          *)

ReadPosition ==
  /\ snapshot = Nil
  /\ snapshot' = [pos |-> pos, avg |-> avg, price |-> price]
  /\ UNCHANGED <<strat, work, marketVars, brokerVars, reportVars, historyVars, count>>

\* Mutant: the strategy takes the quantity over, not the side it is on.
MutantSyncStrategy ==
  /\ snapshot # Nil
  /\ snapshot' = Nil
  /\ strat' = SyncBrokerPosition(strat, snapshot.pos, snapshot.avg, snapshot.price)
  /\ disturbed' = (disturbed \/ work # <<>> \/ snapshot.pos # pos \/ inHand # {}
                             \/ \E o \in DOMAIN orders : IsOpen(o))
  /\ UNCHANGED <<work, marketVars, brokerVars, reportVars, shut, reversed, count>>

SyncStrategy ==
  /\ snapshot # Nil
  /\ snapshot' = Nil
  /\ strat' = SyncBrokerPosition(strat, Sign(snapshot.pos), snapshot.avg, snapshot.price)
  /\ disturbed' = (disturbed \/ work # <<>> \/ snapshot.pos # pos \/ inHand # {}
                             \/ \E o \in DOMAIN orders : IsOpen(o))
  /\ UNCHANGED <<work, marketVars, brokerVars, reportVars, shut, reversed, count>>

\* The instance is stopped and started: warm-up, a sync before trading, and the
\* candle in progress for the protective handler.
Restart ==
  /\ Counts("troubles")
  /\ strat' = SyncBrokerPosition(ResetTradingState(strat), Sign(pos), avg, price)
  /\ work' = IF pending = Nil THEN <<>> ELSE Live(pending)
  /\ pending' = Nil
  /\ snapshot' = Nil
  /\ disturbed' = (disturbed \/ work # <<>> \/ inHand # {} \/ \E o \in DOMAIN orders : IsOpen(o))
  /\ UNCHANGED <<phase, price, brokerVars, reportVars, shut, reversed>>

-----------------------------------------------------------------------------
\* After the warm-up: the crossover has its closes, the breakout a range.
Warmed == [sma |-> [Sma!New EXCEPT !.closes = [i \in DOMAIN Warm |-> Warm[i].close],
                                   !.history = Sma!LastOf([i \in DOMAIN Warm |->
                                     [high |-> Warm[i].high, low |-> Warm[i].low]], SwingBars)],
           lb |-> Lb!New,
           orb |-> [Orb!New EXCEPT !.day = Phases["orb"][1].day, !.bars = RangeCandles,
                                   !.high = Warm[1].high, !.low = Warm[1].low]]

Init ==
  /\ strat \in {Warmed[k] : k \in Kinds}
  /\ pending = Nil /\ work = <<>> /\ orders = <<>>
  /\ owned = {} /\ inHand = {}
  /\ pos = 0 /\ avg = 0 /\ phase = 1 /\ price = 0 /\ snapshot = Nil
  /\ disturbed = FALSE /\ shut = FALSE /\ reversed = FALSE
  /\ count = [candles |-> 0, troubles |-> 0]

Instance == Evaluate \/ Refuse \/ Post

Next ==
  \/ \E k \in Candles[strat.kind], p \in DOMAIN Phases[strat.kind], new \in BOOLEAN : Arrive(k, p, new)
  \/ Instance
  \/ \E o \in DOMAIN orders : \/ Fill(o)
                              \/ \E s \in {"cancelled", "rejected"} : EndOrder(o, s)
                              \/ \E via \in {"stream", "poll"} : Receive(o, via)
  \/ CloseOutside
  \/ \E r \in inHand : Execute(r)
  \/ ReadPosition
  \/ SyncStrategy
  \/ Restart

\* The reconciler's ticker fires again and again, and the broker tells it the
\* position; nothing is assumed of orders, of their reports, nor of candles.
Fairness == WF_vars(ReadPosition \/ SyncStrategy)

Spec == Init /\ [][Next]_vars /\ Fairness

-----------------------------------------------------------------------------
TypeOK ==
  /\ strat.kind \in Kinds /\ {strat.pos, strat.entry} \subseteq -1 .. 1 /\ strat.exit \in BOOLEAN
  /\ \A i \in DOMAIN work : work[i].do \in {"live", "bar", "dispatch"}
  /\ \A o \in DOMAIN orders :
       /\ orders[o].filled \in 0 .. orders[o].lots
       /\ orders[o].status = "filled" <=> orders[o].filled = orders[o].lots
  /\ owned \subseteq DOMAIN orders
  /\ \A r \in inHand : r.order \in DOMAIN orders
  /\ phase \in DOMAIN Phases[strat.kind] /\ pos \in -2 * Len(orders) .. 2 * Len(orders)
  /\ {disturbed, shut, reversed} \subseteq BOOLEAN
  /\ \A k \in DOMAIN Limit : count[k] \in 0 .. Limit[k]

Untouched == {o \in DOMAIN orders : orders[o].status = "new"}
Dispatching == {i \in DOMAIN work : work[i].do = "dispatch"}

\* The pending flags of a strategy let one order be on its way at a time, from
\* the signal to its first fill, as long as no sync, no other order's report
\* and no part of a fill has cleared them meanwhile.
OneInFlight == ~disturbed => Cardinality(Untouched) + Cardinality(Dispatching) <= 1

\* When nothing is under way and the strategy waits for nothing, it believes
\* what the broker holds: no fill, no refusal and no restart was missed. (A
\* crossover that asked for the other side is the exception: it trades its
\* quantity once, and believes that it has turned.)
BeliefMatches ==
  (/\ ~disturbed /\ ~shut /\ ~reversed
   /\ work = <<>> /\ Flat(strat) /\ \A o \in DOMAIN orders : ~IsOpen(o)) => strat.pos = Sign(pos)

\* The strategies never hold more than one quantity, on either side.
ExposureBounded == (~disturbed /\ ~shut /\ ~reversed) => pos \in -1 .. 1

\* An order that is to close a position never opens one.
ExitNeverOpens ==
  [][\A o \in DOMAIN orders :
       (orders[o].exit /\ orders'[o].filled > orders[o].filled
        /\ ~disturbed /\ ~shut /\ ~reversed) => pos # 0 /\ pos' = 0]_vars

\* Whatever was lost, cancelled or closed from outside, the strategy ends up
\* with the broker's position and waiting for nothing: the reconciler frees a
\* strategy that ignores the end of its order.
SettlesToBroker == <>[](strat.pos = Sign(pos) /\ Flat(strat))

\* What docs/STRATEGIES_OVERVIEW.md says of trailing_stop_pct: the stop trails
\* the best price of the trade, so it never falls while a long is held, nor
\* rises over a short. The periodic sync sets the best price anew, though, also
\* one with fresh prices.
TrailsTheBestPrice ==
  [][\A side \in {-1, 1} :
       (/\ strat.kind = "sma" /\ Flat(strat) /\ strat.best > 0 /\ ~disturbed /\ work = <<>>
        /\ strat.pos = side /\ strat'.pos = side /\ strat'.entry = 0
        /\ snapshot # Nil => snapshot = [pos |-> pos, avg |-> avg, price |-> price])
       => side * strat'.best >= side * strat.best]_vars

=============================================================================
