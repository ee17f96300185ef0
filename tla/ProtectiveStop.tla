--------------------------- MODULE ProtectiveStop ---------------------------
(***************************************************************************)
(* One strategy instance and one instrument: the broker's position, the    *)
(* ledger the runner keeps of it, and the stop orders that protect it.     *)
(*                                                                         *)
(* Four kinds of goroutine act on them without a common lock: the ones in  *)
(* dispatchExecution, which book fills; the reconciler of syncBrokerState, *)
(* every 15 seconds and at the start; the watchdog of maybePauseOnLoss,    *)
(* which flattens the position and stops the instance; the operator's      *)
(* FlattenInstance.  Positions are in shares, orders in lots: the code     *)
(* asks for as many lots as the position has shares to protect or close it. *)
(*                                                                         *)
(* Abstracted: prices (a stop can trigger at any time).  Which fills reach *)
(* dispatchExecution, and how often, is the subject of OrderExecution:     *)
(* here a fill is booked or lost.                                          *)
(***************************************************************************)
EXTENDS Integers, Sequences, FiniteSets

CONSTANTS
  Dispatchers,  \* goroutines that call dispatchExecution
  Sizes,        \* lots the strategy trades in an order: > 0 buys, < 0 sells
  MaxLots,      \* max_position_lots of the risk configuration
  MaxStops,     \* bound: stop orders live or in the runner's hands at once
  Scenarios,    \* how the instance is set up, and bounds on what a behaviour contains
  Nil           \* no stop order

\* The strategy's orders, stops the market triggers, broker calls and listings of
\* the stops that fail, restarts, loss limits, the operator's requests to flatten.
Counted == {"orders", "fires", "failures", "lists", "restarts", "losses", "flattens"}

\* lot: shares in a lot of the instrument; stopPct: the instance has a stop percentage
\* (protectiveStopPct takes one between 0 and 0.5); priced: the broker reports the
\* position with a price; restores: the strategy is a BrokerPositionSyncer.
Setup == [lot : Nat \ {0}, stopPct : BOOLEAN, priced : BOOLEAN, restores : BOOLEAN,
          bound : [Counted -> Nat]]

ASSUME StopAssumption ==
  /\ MaxLots \in Nat \ {0} /\ MaxStops \in Nat /\ Sizes \subseteq Int \ {0}
  /\ Scenarios \subseteq Setup
  /\ Nil \notin Nat
  /\ IsFiniteSet(Dispatchers) /\ {"reconciler", "watchdog", "operator"} \cap Dispatchers = {}

VARIABLES
  pos,        \* the broker's position, in shares: long > 0, short < 0
  active,     \* GetActiveOrders: the lots not executed yet, by who sent them
  stops,      \* the broker's live stop orders: [id, lots]
  fills,      \* executions on their way to dispatchExecution
  mode,       \* of the instance
  ledger,     \* InstanceLedger.QtyByInst
  tracked,    \* Runner.stopOrders of this instrument
  pc,         \* where each goroutine is
  qty,        \* the position it acts on, read earlier
  stopID,     \* the stop order it has in hand
  count       \* [setup, used]: the scenario, and what was used of its bounds

brokerVars == <<pos, active, fills>>
taskVars == <<pc, qty, stopID>>
vars == <<brokerVars, stops, mode, ledger, tracked, taskVars, count>>

\* "starting" until the first GetPositions, then "synced" until its consequences
\* are over; "failed": it could not start; "stopped": the watchdog stopped it.
Running == {"starting", "synced", "trading"}
Modes == Running \cup {"failed", "stopped"}

Reconciler == "reconciler"
Watchdog == "watchdog"
Operator == "operator"
Closers == {Watchdog, Operator}
Tasks == Dispatchers \cup {Reconciler} \cup Closers
Senders == {"strategy"} \cup Closers

\* Shares in a lot of the instrument.
Lot == count.setup.lot

Counts(k) ==
  /\ count.used[k] < count.setup.bound[k]
  /\ count' = [count EXCEPT !.used[k] = @ + 1]

StopIDs == 1..MaxStops

Fails == Counts("failures")

Goto(t, l) == pc' = [pc EXCEPT ![t] = l]

\* The lots a stop order trades have the sign that closes the position q.
Closes(s, q) == (s.lots < 0 /\ q > 0) \/ (s.lots > 0 /\ q < 0)

-----------------------------------------------------------------------------
(* The broker and the strategy.                                            *)

\* The strategy sends an order when none is pending; the position limit counts
\* the broker's shares and the order's lots alike.
SendOrder ==
  /\ mode = "trading"
  /\ active["strategy"] = 0
  /\ \E n \in Sizes : pos + n \in (-MaxLots)..MaxLots /\ active' = [active EXCEPT !["strategy"] = n]
  /\ Counts("orders")
  /\ UNCHANGED <<pos, fills, stops, mode, ledger, tracked, taskVars>>

\* The lots that can execute out of n.
Parts(n) == IF n > 0 THEN 1..n ELSE n..(-1)

\* An order of the strategy executes in parts, a market order that closes at once.
ExecuteOrder ==
  /\ \E o \in Senders :
       /\ active[o] # 0
       /\ \E n \in IF o \in Closers THEN {active[o]} ELSE Parts(active[o]) :
            /\ pos' = pos + n * Lot
            /\ active' = [active EXCEPT ![o] = @ - n]
            /\ fills' = Append(fills, n)
  /\ UNCHANGED <<stops, mode, ledger, tracked, taskVars, count>>

\* A triggered stop trades at once; its order has no owner in the runner, so its
\* fill is not dispatched.
StopFires ==
  /\ \E s \in stops : stops' = stops \ {s} /\ pos' = pos + s.lots * Lot
  /\ Counts("fires")
  /\ UNCHANGED <<active, fills, mode, ledger, tracked, taskVars>>

-----------------------------------------------------------------------------
(* ensureProtectiveStop and cancelTrackedProtectiveStop, as the last steps *)
(* of every goroutine t that acts on a position qty[t].                    *)

\* Who flattens goes on to the closing order; the others drop what they read.
Leave(t) ==
  /\ Goto(t, IF t \in Closers THEN "close" ELSE "idle")
  /\ qty' = IF t \in Closers THEN qty ELSE [qty EXCEPT ![t] = Nil]

\* ensureProtectiveStop for a position, cancelTrackedProtectiveStop for none.
\* Mutant: without the guard quantity == 0.
MutantAlwaysEnsures(q) == "check"
Protect(q) == IF q = 0 THEN "untrack" ELSE "check"

\* Mutant: a stop of the position's own direction is taken for protection.
MutantWrongSide(q, all) == \E s \in all : Closes(s, -q)
\* Mutant: any stop order of the instrument is taken for protection.
MutantAnyStop(q, all) == all # {}
HasProtection(q, all) == \E s \in all : Closes(s, q)

\* No stop without a percentage, nor without a price to apply it to: the reconciler
\* may find none, whoever books a fill has at least the price of that fill.
SkipStop(t) ==
  /\ pc[t] = "check"
  /\ ~count.setup.stopPct \/ (t = Reconciler /\ ~count.setup.priced)
  /\ Leave(t)
  /\ UNCHANGED <<brokerVars, stops, mode, ledger, tracked, stopID, count>>

\* hasBrokerProtectiveStop: one GetStopOrders; its failure counts as "none".
CheckStops(t) ==
  /\ pc[t] = "check"
  /\ count.setup.stopPct
  /\ \/ HasProtection(qty[t], stops) /\ Leave(t) /\ UNCHANGED count
     \/ ~HasProtection(qty[t], stops) /\ Goto(t, "post") /\ UNCHANGED <<qty, count>>
     \/ Counts("lists") /\ Goto(t, "post") /\ UNCHANGED qty
  /\ UNCHANGED <<brokerVars, stops, mode, ledger, tracked, stopID>>

\* The broker gives it a new identifier: one that is in use nowhere.
UsedIDs == {s.id : s \in stops} \cup {tracked} \cup {stopID[t] : t \in Tasks}
FreshID(id) ==
  /\ id \in StopIDs \ UsedIDs
  /\ \A other \in StopIDs \ UsedIDs : id <= other

\* As many lots as the position has shares.
PostStopOrder(t) ==
  /\ pc[t] = "post"
  /\ \E id \in StopIDs :
       /\ FreshID(id)
       /\ stops' = stops \cup {[id |-> id, lots |-> -qty[t]]}
       /\ stopID' = [stopID EXCEPT ![t] = id]
  /\ Goto(t, "track")
  /\ UNCHANGED <<brokerVars, mode, ledger, tracked, qty, count>>

PostStopOrderFails(t) ==
  /\ pc[t] = "post"
  /\ Fails
  /\ Leave(t)
  /\ UNCHANGED <<brokerVars, stops, mode, ledger, tracked, stopID>>

\* Under mu: the last stop posted replaces the one tracked before.
TrackStop(t) ==
  /\ pc[t] = "track"
  /\ tracked' = stopID[t]
  /\ stopID' = [stopID EXCEPT ![t] = Nil]
  /\ Leave(t)
  /\ UNCHANGED <<brokerVars, stops, mode, ledger, count>>

\* Under mu: take the tracked stop out of the map.
\* Mutant: the entry stays in the map.
MutantKeepsEntry(id) == id
TrackedAfter(id) == Nil

UntrackStop(t) ==
  /\ pc[t] = "untrack"
  /\ stopID' = [stopID EXCEPT ![t] = tracked]
  /\ tracked' = TrackedAfter(tracked)
  /\ \/ tracked = Nil /\ Leave(t)
     \/ tracked # Nil /\ Goto(t, "cancel") /\ UNCHANGED qty
  /\ UNCHANGED <<brokerVars, stops, mode, ledger, count>>

\* CancelStopOrder, which fails for a stop that is not live; either way the
\* runner is done with it.
CancelStop(t) ==
  /\ pc[t] = "cancel"
  /\ \/ stops' = {s \in stops : s.id # stopID[t]} /\ UNCHANGED count
     \/ Fails /\ UNCHANGED stops
  /\ stopID' = [stopID EXCEPT ![t] = Nil]
  /\ Leave(t)
  /\ UNCHANGED <<brokerVars, mode, ledger, tracked>>

-----------------------------------------------------------------------------
(* dispatchExecution.                                                      *)

\* Of a stopped instance, or without a known price, a fill is not booked.
LoseFill ==
  /\ fills # <<>>
  /\ \/ mode \notin Running /\ UNCHANGED count
     \/ Fails
  /\ fills' = Tail(fills)
  /\ UNCHANGED <<pos, active, stops, mode, ledger, tracked, taskVars>>

ApplyFill(t) ==
  /\ t \in Dispatchers
  /\ pc[t] = "idle"
  /\ mode = "trading"
  /\ fills # <<>>
  /\ ledger' = ledger + Head(fills) * Lot
  /\ fills' = Tail(fills)
  /\ Goto(t, "snapshot")
  /\ UNCHANGED <<pos, active, stops, mode, tracked, qty, stopID, count>>

\* Snapshot takes the ledger's lock anew.
SnapshotLedger(t) ==
  /\ pc[t] = "snapshot"
  /\ qty' = [qty EXCEPT ![t] = ledger]
  /\ Goto(t, Protect(ledger))
  /\ UNCHANGED <<brokerVars, stops, mode, ledger, tracked, stopID, count>>

-----------------------------------------------------------------------------
(* syncBrokerState.                                                        *)

GetPositions ==
  /\ pc[Reconciler] = "idle"
  /\ mode \in {"starting", "trading"}
  /\ qty' = [qty EXCEPT ![Reconciler] = pos]
  /\ Goto(Reconciler, "sync")
  /\ UNCHANGED <<brokerVars, stops, mode, ledger, tracked, stopID, count>>

\* A failed read ends the start, and skips a periodic round.
GetPositionsFails ==
  /\ pc[Reconciler] = "idle"
  /\ mode \in {"starting", "trading"}
  /\ Fails
  /\ mode' = IF mode = "starting" THEN "failed" ELSE mode
  /\ UNCHANGED <<brokerVars, stops, ledger, tracked, taskVars>>

\* ReconcileFromBroker writes the position that was read, however old.  A
\* position of zero is written too: it is absent from the broker's list.
\* Mutant: as in ReconcileInstance, an instrument without position is skipped.
MutantSkipsFlat(book, read) == IF read = 0 THEN book ELSE read
Reconciled(book, read) == read

\* A strategy that cannot restore a position ends the round there, or the start.
CanSync == count.setup.restores \/ qty[Reconciler] = 0

SyncLedger ==
  /\ pc[Reconciler] = "sync"
  /\ ledger' = Reconciled(ledger, qty[Reconciler])
  /\ \/ /\ CanSync
        /\ mode' = IF mode = "starting" THEN "synced" ELSE mode
        /\ Goto(Reconciler, Protect(qty[Reconciler]))
        /\ UNCHANGED qty
     \/ /\ ~CanSync
        /\ mode' = IF mode = "starting" THEN "failed" ELSE mode
        /\ Leave(Reconciler)
  /\ UNCHANGED <<brokerVars, stops, tracked, stopID, count>>

\* The instance trades once its first synchronisation is over.
StartTrading ==
  /\ mode = "synced"
  /\ pc[Reconciler] = "idle"
  /\ mode' = "trading"
  /\ UNCHANGED <<brokerVars, stops, ledger, tracked, taskVars, count>>

-----------------------------------------------------------------------------
(* maybePauseOnLoss: flattenInstance, then StopInstance whatever it did;   *)
(* FlattenInstance of the operator: flattenInstance alone.                 *)

LossLimit ==
  /\ pc[Watchdog] = "idle"
  /\ mode = "trading"
  /\ Counts("losses")
  /\ Goto(Watchdog, "flatten")
  /\ UNCHANGED <<brokerVars, stops, mode, ledger, tracked, qty, stopID>>

\* The operator's request is refused unless the instance runs with a position.
ManualFlatten ==
  /\ pc[Operator] = "idle"
  /\ mode = "trading"
  /\ pos # 0
  /\ Counts("flattens")
  /\ Goto(Operator, "flatten")
  /\ UNCHANGED <<brokerVars, stops, mode, ledger, tracked, qty, stopID>>

AfterFlatten(t) == Goto(t, IF t = Watchdog THEN "stop" ELSE "idle")

FlattenPositions(t) ==
  /\ pc[t] = "flatten"
  /\ \/ mode # "stopped" /\ qty' = [qty EXCEPT ![t] = pos] /\ Goto(t, "orders") /\ UNCHANGED count
     \/ mode = "stopped" /\ AfterFlatten(t) /\ UNCHANGED <<qty, count>>
     \/ Fails /\ AfterFlatten(t) /\ UNCHANGED qty
  /\ UNCHANGED <<brokerVars, stops, mode, ledger, tracked, stopID>>

\* Cancel every active order, then act on the position read before that.
CancelOrders(t) ==
  /\ pc[t] = "orders"
  /\ \/ active' = [o \in Senders |-> 0] /\ UNCHANGED count
     \/ /\ Fails
        /\ \E kept \in Senders :
             active[kept] # 0 /\ active' = [o \in Senders |-> IF o = kept THEN active[o] ELSE 0]
  /\ IF qty[t] = 0 THEN AfterFlatten(t) ELSE Goto(t, "untrack")
  /\ UNCHANGED <<pos, fills, stops, mode, ledger, tracked, qty, stopID>>

\* Again as many lots as the position had shares.
ClosePosition(t) ==
  /\ pc[t] = "close"
  /\ \/ active' = [active EXCEPT ![t] = -qty[t]] /\ UNCHANGED count
     \/ Fails /\ UNCHANGED active
  /\ AfterFlatten(t)
  /\ qty' = IF t = Operator THEN [qty EXCEPT ![t] = Nil] ELSE qty
  /\ UNCHANGED <<pos, fills, stops, mode, ledger, tracked, stopID>>

\* StopInstance also removes the ledger.
StopInstance ==
  /\ pc[Watchdog] = "stop"
  /\ mode' = "stopped"
  /\ ledger' = 0
  /\ Goto(Watchdog, "idle")
  /\ qty' = [qty EXCEPT ![Watchdog] = Nil]
  /\ UNCHANGED <<brokerVars, stops, tracked, stopID, count>>

-----------------------------------------------------------------------------
(* A restart: the broker's orders survive it, the runner's memory does not. *)

Memory(m) == [t \in Tasks |-> m]

Restart ==
  /\ Counts("restarts")
  /\ mode' = "starting"
  /\ ledger' = 0
  /\ tracked' = Nil
  /\ fills' = <<>>
  /\ pc' = Memory("idle") /\ qty' = Memory(Nil) /\ stopID' = Memory(Nil)
  /\ UNCHANGED <<pos, active, stops>>

Init ==
  /\ pos = 0 /\ active = [o \in Senders |-> 0]
  /\ stops = {}
  /\ fills = <<>>
  /\ mode = "starting"
  /\ ledger = 0
  /\ tracked = Nil
  /\ pc = Memory("idle") /\ qty = Memory(Nil) /\ stopID = Memory(Nil)
  /\ \E s \in Scenarios : count = [setup |-> s, used |-> [k \in Counted |-> 0]]

Broker == SendOrder \/ ExecuteOrder \/ StopFires \/ LoseFill

KeepStops(t) ==
  SkipStop(t) \/ CheckStops(t) \/ PostStopOrder(t) \/ PostStopOrderFails(t)
  \/ TrackStop(t) \/ UntrackStop(t) \/ CancelStop(t)

Dispatch(t) == ApplyFill(t) \/ SnapshotLedger(t)
Sync == GetPositions \/ SyncLedger \/ StartTrading
Flatten(t) == FlattenPositions(t) \/ CancelOrders(t) \/ ClosePosition(t)

\* What goroutine t does next, once it has begun.
Continue(t) ==
  \/ KeepStops(t)
  \/ t \in Dispatchers /\ Dispatch(t)
  \/ t = Reconciler /\ Sync
  \/ t \in Closers /\ Flatten(t)
  \/ t = Watchdog /\ StopInstance

Next ==
  \/ Broker
  \/ \E t \in Tasks : Continue(t)
  \/ GetPositionsFails
  \/ LossLimit \/ ManualFlatten
  \/ Restart

\* Goroutines proceed and the reconciler's ticker ticks.  Failed calls are
\* bounded, that is, the broker answers again some day.
Fairness == \A t \in Tasks : WF_vars(Continue(t))

Spec == Init /\ [][Next]_vars /\ Fairness

-----------------------------------------------------------------------------
(* Properties.                                                             *)

Places == {"idle", "check", "post", "track", "untrack", "cancel", "snapshot", "sync",
           "flatten", "orders", "close", "stop"}
\* The types of the variables; no stop order is for zero lots.
TypeOK ==
  /\ pos \in Int /\ active \in [Senders -> Int] /\ ledger \in Int
  /\ \A s \in stops : s.id \in StopIDs /\ s.lots \in Int \ {0}
  /\ fills \in Seq(Int)
  /\ mode \in Modes
  /\ tracked \in StopIDs \cup {Nil}
  /\ pc \in [Tasks -> Places]
  /\ qty \in [Tasks -> Int \cup {Nil}]
  /\ stopID \in [Tasks -> StopIDs \cup {Nil}]
  /\ count.setup \in Scenarios /\ count.used \in [Counted -> Nat]

\* A stop order is in one place of the runner only: in the map, or in the hands
\* of one goroutine that is about to track or to cancel it; so no two cancel it,
\* and the map never keeps one that was cancelled (cancelTrackedProtectiveStop
\* against ensureProtectiveStop).
CancelledByOne ==
  \A t \in Tasks : pc[t] \in {"track", "cancel"} =>
    /\ stopID[t] # tracked
    /\ \A u \in Tasks \ {t} : stopID[u] # stopID[t]

\* ensureProtectiveStop looks first and posts later, so two goroutines may both
\* post; but the stops of one side never outnumber the goroutines that post,
\* plus the listings that failed.
Posting(sign) == {t \in Tasks : pc[t] = "post" /\ sign * qty[t] < 0}
StopsOf(sign) == {s \in stops : sign * s.lots > 0}

DuplicatesBounded ==
  \A sign \in {-1, 1} :
    Cardinality(StopsOf(sign)) + Cardinality(Posting(sign))
      <= Cardinality(Tasks \ Closers) + count.used["lists"]

Protected == pos # 0 => \E s \in stops : Closes(s, pos)

\* syncBrokerState can protect a position: a percentage, a price, and a strategy
\* that restores it.  Without any one of these a running instance may keep an open
\* position without a stop for ever.
Protectable == count.setup.stopPct /\ count.setup.priced /\ count.setup.restores

\* While an instance that can protect a position runs, the broker's open position
\* gets a stop order of the closing side, whatever was lost, failed, cancelled by
\* mistake or forgotten in a restart (syncBrokerState).
PositionGetsProtected ==
  (Protectable /\ mode \in Running /\ ~Protected) ~> (mode \notin Running \/ Protected)

\* In a running instance the ledger ends up equal to the broker's position, after
\* lost fills, stop orders nobody booked and stale readings (ReconcileFromBroker).
LedgerConverges == <>[](mode = "trading") => <>[](ledger = pos)

\* What the trading policy demands of the watchdog: when it has stopped the
\* instance and everything is quiet, the position is closed or protected.
\* The code breaks it.
Quiet == (\A o \in Senders : active[o] = 0) /\ fills = <<>> /\ \A t \in Tasks : pc[t] = "idle"
WatchdogClosesRisk == mode = "stopped" /\ Quiet => Protected
=============================================================================
