------------------------------ MODULE AiTrader ------------------------------
(***************************************************************************)
(* The AI trader on one account and instrument, in armed_live mode: the    *)
(* session manager, the loop of each session that observes and trades, the *)
(* goroutine that looks after a posted order, the operator's requests, the *)
(* kill switch, and the snapshots a restarted runner resumes from.         *)
(*                                                                         *)
(* A session is an object shared by its loop, its polls and the requests.  *)
(* aiTrader.mu covers the map of sessions and the whole of a start-trading *)
(* or stop request; the trading itself takes no lock.  Each call to the    *)
(* broker is a step of its own.                                            *)
(*                                                                         *)
(* Abstracted: the market, the levels, the plan and the model's answers    *)
(* are choices; every order but a closing one is for one lot, as in the    *)
(* code.  The broker's position is in shares, orders are in lots, and the  *)
(* session's lots are a mixture of both, as in the code.                   *)
(*                                                                         *)
(* Simplified: a session has a name no other has (the code's names have a  *)
(* resolution of one second); resuming loads the snapshot and installs the *)
(* session in one step.                                                    *)
(***************************************************************************)
EXTENDS Integers, Sequences, FiniteSets, FiniteSetsExt

CONSTANTS
  MaxActiveOrders,  \* limits of a session
  MaxPositionLots,
  Threshold, MaxLots,   \* of RiskGate
  Budgets,          \* bounds: what a behaviour may contain, one of these
  None

Risk == INSTANCE RiskGate

\* The shares in a lot of the instrument, and bounds: sessions started, sessions
\* resumed, orders the broker accepts, snapshots saved, goroutines under way at
\* a time, the sides entries are made on, and the events that may happen, once each.
Events == {"stop", "flatten", "kill on", "kill off", "timeout", "crash",
           "refused", "post fails", "cancel fails", "query fails", "read fails", "lost"}
Budget == [lot : Nat \ {0}, starts : Nat, resumes : Nat, orders : Nat, saves : Nat, busy : Nat,
           sides : SUBSET {1, -1}, may : SUBSET Events]

ASSUME AiTraderAssumption ==
  /\ {MaxActiveOrders, MaxPositionLots} \subseteq Nat
  /\ None \notin Nat
  /\ Budgets # {} /\ IsFiniteSet(Budgets) /\ Budgets \subseteq Budget
  /\ Risk!RiskAssumption

MaxSessions == Max({b.starts + b.resumes : b \in Budgets})
MaxOrders == Max({b.orders : b \in Budgets})

Sessions == 1 .. MaxSessions
Loop(s) == <<"loop", s>>
Poll(n) == <<"poll", n>>
Admin == <<"admin", 0>>
Flattening == <<"flatten", 0>>
Threads == {Loop(s) : s \in Sessions} \cup {Poll(n) : n \in 1 .. MaxOrders} \cup {Admin, Flattening}

VARIABLES
  session,    \* the session objects
  current,    \* aiTrader.sessions: the object under the key, or None
  snap,       \* ai_trader_sessions: a snapshot per session ID, or None
  kill,       \* the kill switch
  breaker,    \* the circuit breaker of the risk service
  thread,     \* what each goroutine has yet to do, and what it holds
  orders,     \* the broker's orders, in the order of posting
  pos,        \* the broker's position, in shares
  left        \* the lot, and what is left of the budget

vars == <<session, current, snap, kill, breaker, thread, orders, pos, left>>

Idle == [run |-> <<>>, obj |-> None, list |-> <<>>, keep |-> <<>>, seen |-> 0,
         killed |-> FALSE, holds |-> None]
Unused == [id |-> None, status |-> "stopped", phase |-> "preparing", loop |-> "none",
           cancelled |-> FALSE, paused |-> FALSE, halted |-> FALSE, lots |-> 0,
           stops |-> FALSE, work |-> <<>>, over |-> FALSE]

Found(id) == IF current # None /\ session[current].id = id THEN current ELSE None
Working(n) == orders[n].status = "working"
Abs(n) == IF n < 0 THEN -n ELSE n

Spend(what) == left[what] > 0 /\ left' = [left EXCEPT ![what] = @ - 1]
Happens(e) == e \in left.may /\ left' = [left EXCEPT !.may = @ \ {e}]

-----------------------------------------------------------------------------
(* Goroutines: a sequence of steps each, the head being the next.          *)

Do(x) == [do |-> x, kind |-> "limit", side |-> 0, lots |-> 0, shares |-> 0, extra |-> 0]
Place(side) == [Do("place") EXCEPT !.side = side, !.lots = 1]
At(t, x) == thread[t].run # <<>> /\ Head(thread[t].run).do = x
Step(t) == Head(thread[t].run)

\* aiTrader.mu: a start-trading or stop request holds it until its last save.
LockFree == thread[Admin].run = <<>> \/ At(Admin, "write")
Obj(t) == session[thread[t].obj]

\* The head is done; other steps may take its place.
Then(t, steps) == LET r == steps \o Tail(thread[t].run)
                  IN IF r = <<>> THEN Idle ELSE [thread[t] EXCEPT !.run = r]
Continue(t, steps) == thread' = [thread EXCEPT ![t] = Then(t, steps)]
Done(t) == Continue(t, <<>>)

\* A goroutine at its beginning, on the object o.
Starting(o, steps) == [Idle EXCEPT !.run = steps, !.obj = o, !.killed = kill]

\* Bound: how many goroutines are under way.
Busy == {t \in Threads : thread[t].run # <<>> /\ thread[t].run # <<Do("sync")>>}
Room == Cardinality(Busy) < left.busy

-----------------------------------------------------------------------------
(* Orders.                                                                 *)

\* History: shares on the side that may fill yet, posted or about to be.
InFlight(side) ==
  MapThenSumSet(LAMBDA n : orders[n].shares, {n \in DOMAIN orders : Working(n) /\ orders[n].side = side})
  + MapThenSumSet(LAMBDA t : Step(t).shares, {t \in Threads : At(t, "post") /\ Step(t).side = side})

\* The order approved, and in its history what the check did not count: what was in
\* flight, and its own shares beyond the number of its lots.
Approved(order) ==
  LET shares == order.lots * left.lot
  IN [order EXCEPT !.do = "post", !.shares = shares,
                   !.extra = InFlight(order.side) + shares - order.lots]

\* ValidateOrderIntent: a tripped breaker refuses; otherwise the checks are
\* made, the breaker is told, and an order that passes is posted next.  The
\* check adds the order's lots to the broker's shares.
Validate(t, order) ==
  LET b == Risk!Asked(breaker)
      allowed == Risk!CheckPosition(pos, order.side, order.lots)
  IN \/ /\ Risk!IsTripped(breaker)
        /\ Done(t)
        /\ UNCHANGED <<breaker, left>>
     \/ /\ ~Risk!IsTripped(breaker) /\ allowed
        /\ breaker' = Risk!RecordSuccess(b)
        /\ Continue(t, <<Approved(order)>>)
        /\ UNCHANGED left
     \/ /\ ~Risk!IsTripped(breaker)
        /\ IF allowed THEN Happens("refused") ELSE UNCHANGED left
        /\ breaker' = Risk!RecordFailure(b)
        /\ Done(t)

PlaceLimit(t) ==
  /\ At(t, "place")
  /\ IF /\ Len(Obj(t).work) < MaxActiveOrders
        /\ Obj(t).lots # 0 => Abs(Obj(t).lots) + 1 <= MaxPositionLots
     THEN Validate(t, Step(t))
     ELSE Done(t) /\ UNCHANGED <<breaker, left>>
  /\ UNCHANGED <<session, current, snap, kill, orders, pos>>

\* Closing cancels first, and takes the lots the session believes in then.
Close(t) ==
  /\ At(t, "close")
  /\ IF Obj(t).lots = 0 THEN Done(t) ELSE Continue(t, <<Do("cancel"), Do("shut")>>)
  /\ UNCHANGED <<session, current, snap, kill, breaker, orders, pos, left>>

\* applyLiveRiskGate: the kill switch, and for a flattening, whose data nobody
\* has looked at, stale data or a wide spread.
Blocked(t) == kill \/ t = Flattening

\* Mutant: the kill switch is not asked again.
MutantShutPosition(t) ==
  /\ At(t, "shut")
  /\ Validate(t, [Do("post") EXCEPT !.kind = "market", !.lots = Abs(Obj(t).lots),
                                    !.side = IF Obj(t).lots < 0 THEN 1 ELSE -1])
  /\ UNCHANGED <<session, current, snap, kill, orders, pos>>

ShutPosition(t) ==
  /\ At(t, "shut")
  /\ \/ Blocked(t) /\ Done(t) /\ UNCHANGED <<breaker, left>>
     \/ /\ ~kill
        /\ Validate(t, [Do("post") EXCEPT !.kind = "market", !.lots = Abs(Obj(t).lots),
                                            !.side = IF Obj(t).lots < 0 THEN 1 ELSE -1])
  /\ UNCHANGED <<session, current, snap, kill, orders, pos>>

\* History: the object's list is being rewritten by someone else.
Raced(t) == \E u \in Threads \ {t} : /\ thread[u].obj = thread[t].obj
                                     /\ At(u, "query") \/ At(u, "drop")

\* PostOrder.  A limit order joins the list and gets a goroutine that looks at
\* it after half a second; a closing order empties the position at once.
Post(t) ==
  /\ At(t, "post")
  /\ LET x == Step(t)
         o == thread[t].obj
         n == Len(orders) + 1
     IN \/ /\ x.lots > 0 /\ Spend("orders")
           /\ orders' = Append(orders, [side |-> x.side, lots |-> x.lots, shares |-> x.shares,
                                        kind |-> x.kind, by |-> o, status |-> "working",
                                        asked |-> FALSE, extra |-> x.extra,
                                        raced |-> Raced(t), late |-> kill /\ thread[t].killed])
           /\ IF x.kind = "limit"
              THEN /\ session' = [session EXCEPT ![o].work = Append(@, n)]
                   /\ thread' = [thread EXCEPT ![t] = Then(t, <<>>), ![Poll(n)] = Starting(o, <<Do("sync")>>)]
              ELSE /\ session' = [session EXCEPT ![o].lots = 0, ![o].stops = FALSE]
                   /\ Done(t)
        \/ /\ IF left.orders > 0 /\ x.lots > 0 THEN Happens("post fails") ELSE UNCHANGED left
           /\ Done(t)
           /\ UNCHANGED <<orders, session>>
  /\ UNCHANGED <<current, snap, kill, breaker, pos>>

\* CancelOrder: the broker cancels what is working, unless the call fails.
CancelOrder(n) ==
  \/ /\ orders' = [orders EXCEPT ![n].asked = TRUE,
                                 ![n].status = IF @ = "working" THEN "cancelled" ELSE @]
     /\ UNCHANGED left
  \/ /\ Working(n) /\ Happens("cancel fails")
     /\ orders' = [orders EXCEPT ![n].asked = TRUE]

\* cancelAllLiveOrders: the list of that moment, and then no list at all.
CancelAll(t) ==
  /\ At(t, "cancel")
  /\ IF Obj(t).work = <<>> THEN Done(t)
     ELSE thread' = [thread EXCEPT ![t].run = <<Do("drop")>> \o Tail(@), ![t].list = Obj(t).work]
  /\ UNCHANGED <<session, current, snap, kill, breaker, orders, pos, left>>

DropOrder(t) ==
  /\ At(t, "drop")
  /\ CancelOrder(Head(thread[t].list))
  /\ IF Len(thread[t].list) = 1
     THEN /\ thread' = [thread EXCEPT ![t] = [Then(t, <<>>) EXCEPT !.list = <<>>]]
          /\ session' = [session EXCEPT ![thread[t].obj].work = <<>>]
     ELSE /\ thread' = [thread EXCEPT ![t].list = Tail(@)]
          /\ UNCHANGED session
  /\ UNCHANGED <<current, snap, kill, breaker, pos>>

\* recordLiveFill, and the stops the caller sets when the position is nought
\* after it.  A closing fill may end the session for its losses.
RecordLiveFill(S, side, lots, lost) ==
  LET now == S.lots + side * lots
  IN [S EXCEPT !.lots = now, !.halted = @ \/ lost, !.stops = @ \/ now = 0]

\* syncLiveOrderStates: one query after another, and the list is replaced by
\* what was found to be working.
SyncOrders(t) ==
  /\ At(t, "sync") /\ (t \in Busy \/ Room)
  /\ IF Obj(t).work = <<>> THEN Done(t)
     ELSE thread' = [thread EXCEPT ![t].run = <<Do("query")>> \o Tail(@),
                                   ![t].list = Obj(t).work, ![t].keep = <<>>]
  /\ UNCHANGED <<session, current, snap, kill, breaker, orders, pos, left>>

\* Mutant: an order that was not answered for is dropped.
MutantKeeps(n, failed) == ~failed /\ Working(n)
Keeps(n, failed) == failed \/ Working(n)

\* Mutant: what still works joins the list.
MutantReplaced(S, last, list) == IF last THEN [S EXCEPT !.work = @ \o list] ELSE S
Replaced(S, last, list) == IF last THEN [S EXCEPT !.work = list] ELSE S

GetOrderState(t) ==
  /\ At(t, "query")
  /\ LET T == thread[t]
         n == Head(T.list)
         S == Obj(t)
         last == Len(T.list) = 1
     IN \E failed, lost \in BOOLEAN :
          LET keep == IF Keeps(n, failed) THEN Append(T.keep, n) ELSE T.keep
              fills == ~failed /\ orders[n].status = "filled"
          IN /\ lost => fills /\ S.lots * orders[n].side < 0
             /\ IF failed THEN Happens("query fails") ELSE IF lost THEN Happens("lost") ELSE UNCHANGED left
             /\ session' = [session EXCEPT ![T.obj] =
                  Replaced(IF fills THEN RecordLiveFill(S, orders[n].side, orders[n].lots, lost) ELSE S,
                           last, keep)]
             /\ thread' = [thread EXCEPT ![t] =
                  IF last THEN [Then(t, <<>>) EXCEPT !.list = <<>>, !.keep = <<>>]
                  ELSE [T EXCEPT !.list = Tail(@), !.keep = keep]]
  /\ UNCHANGED <<current, snap, kill, breaker, orders, pos>>

\* syncAITraderLiveFromBroker: the position is read, then only a difference
\* between nought and not nought is repaired; the broker's shares become the
\* session's lots.
ReadPosition(t) ==
  /\ At(t, "truth")
  /\ LockFree
  /\ \/ /\ Found(Obj(t).id) # None
        /\ thread' = [thread EXCEPT ![t].run = <<Do("adopt")>> \o Tail(@), ![t].seen = pos]
        /\ UNCHANGED left
     \/ /\ IF Found(Obj(t).id) # None THEN Happens("read fails") ELSE UNCHANGED left
        /\ Done(t)
  /\ UNCHANGED <<session, current, snap, kill, breaker, orders, pos>>

\* Mutant: a position the broker no longer has is believed in for ever.
MutantAdopt(S, quantity) == IF quantity # 0 /\ S.lots = 0 THEN [S EXCEPT !.lots = quantity] ELSE S

Adopt(S, quantity) ==
  IF quantity = 0 /\ S.lots # 0 THEN [S EXCEPT !.lots = 0, !.stops = FALSE]
  ELSE IF quantity # 0 /\ S.lots = 0 THEN [S EXCEPT !.lots = quantity]
  ELSE S

AdoptPosition(t) ==
  /\ At(t, "adopt")
  /\ session' = [session EXCEPT ![thread[t].obj] = Adopt(@, thread[t].seen)]
  /\ thread' = [thread EXCEPT ![t] = [Then(t, <<>>) EXCEPT !.seen = 0]]
  /\ UNCHANGED <<current, snap, kill, breaker, orders, pos, left>>

-----------------------------------------------------------------------------
(* A tick of a session's loop.                                             *)

NextPhases(p) == IF p = "trading" THEN {"trading"} ELSE {"preparing", "ready"}

\* A minute has passed since the last save, or it has not.
Saving == {<<>>} \cup IF left.saves > 0 THEN {<<Do("save")>>} ELSE {}

\* The phase is that of the object found under the session's ID; the tick goes
\* on with the loop's own object.
Tick(s) ==
  /\ session[s].loop = "on" /\ thread[Loop(s)].run = <<>>
  /\ LockFree /\ Room
  /\ LET c == Found(session[s].id)
     IN IF session[s].status = "running" /\ c # None
        THEN \E p \in NextPhases(session[c].phase) : session' = [session EXCEPT ![c].phase = p]
        ELSE UNCHANGED session
  /\ \E last \in Saving :
       LET steps == (IF session'[s].phase = "trading" THEN <<Do("truth"), Do("gates")>> ELSE <<>>) \o last
       IN thread' = IF steps = <<>> THEN thread ELSE [thread EXCEPT ![Loop(s)] = Starting(s, steps)]
  /\ UNCHANGED <<current, snap, kill, breaker, orders, pos, left>>

\* tickLiveTrading up to its signal: nothing happens without a mid price, not even
\* under the kill switch, nor on stale data or a wide spread; the model may ask to
\* cancel everything or to close.
TradingStops(S) == S.halted \/ kill
Gates(t) ==
  /\ At(t, "gates")
  /\ \/ /\ Done(t)
        /\ UNCHANGED session
     \/ /\ TradingStops(Obj(t))
        /\ session' = [session EXCEPT ![thread[t].obj].halted = TRUE]
        /\ Continue(t, <<Do("cancel")>>)
     \/ /\ ~TradingStops(Obj(t))
        /\ UNCHANGED session
        /\ \E a \in {<<>>, <<Do("cancel")>>, <<Do("close")>>} :
             Continue(t, a \o <<Do("sync"), Do("manage")>>)
  /\ UNCHANGED <<current, snap, kill, breaker, orders, pos, left>>

SameSide(S, side) == {i \in DOMAIN S.work : orders[S.work[i]].side = side}
First(I) == CHOOSE i \in I : \A j \in I : i <= j
Without(q, i) == SubSeq(q, 1, i - 1) \o SubSeq(q, i + 1, Len(q))

\* startLiveTradingFromPlaybook: support, resistance, both, or one order of
\* the model's.
Entries == {<<>>} \cup {<<Place(side)>> : side \in left.sides}
           \cup (IF {1, -1} \subseteq left.sides THEN {<<Place(1), Place(-1)>>} ELSE {})
StartLive(S, e) ==
  IF TradingStops(S) THEN <<>>
  ELSE (IF S.work # <<>> THEN <<Do("cancel")>> ELSE <<>>) \o e

\* What the end of a tick may begin, with nothing held and nothing working.
Openings(S) ==
  {<<>>} \cup IF ~S.paused /\ S.lots = 0 /\ S.work = <<>> THEN {StartLive(S, e) : e \in Entries} ELSE {}

\* With a position: its stop or target, or stops from the model.  Without one,
\* the model's signal: a limit order, in place of one on the same side, or,
\* when there were too many replacements in the minute, beside it.
Manage(t) ==
  /\ At(t, "manage")
  /\ LET S == Obj(t)
         o == thread[t].obj
     IN \/ /\ \E steps \in Openings(S) : Continue(t, steps)
           /\ UNCHANGED <<session, orders, left>>
        \/ /\ S.lots # 0 /\ S.stops
           /\ Continue(t, <<Do("close"), Do("enter")>>)
           /\ UNCHANGED <<session, orders, left>>
        \/ /\ S.lots # 0
           /\ session' = [session EXCEPT ![o].stops = TRUE]
           /\ Done(t)
           /\ UNCHANGED <<orders, left>>
        \/ \E side \in left.sides :
             /\ S.lots = 0 /\ ~S.paused
             /\ Continue(t, <<Place(side), Do("enter")>>)
             /\ \/ UNCHANGED <<session, orders, left>>
                \/ /\ SameSide(S, side) # {}
                   /\ LET i == First(SameSide(S, side))
                      IN /\ CancelOrder(S.work[i])
                         /\ session' = [session EXCEPT ![o].work = Without(@, i)]
  /\ UNCHANGED <<current, snap, kill, breaker, pos>>

Enter(t) ==
  /\ At(t, "enter")
  /\ \E steps \in Openings(Obj(t)) : Continue(t, steps)
  /\ UNCHANGED <<session, current, snap, kill, breaker, orders, pos, left>>

\* persistAITraderSessionSnapshot, of the object found, while it is running.
Snapshot(S) == [phase |-> S.phase, halted |-> S.halted, lots |-> S.lots, stops |-> S.stops, work |-> S.work]
Save(t) ==
  /\ At(t, "save")
  /\ LockFree
  /\ LET c == Found(Obj(t).id)
     IN IF Obj(t).status = "running" /\ c # None /\ session[c].status = "running"
        THEN thread' = [thread EXCEPT ![t].run = <<Do("write")>> \o Tail(@), ![t].holds = Snapshot(session[c])]
        ELSE Done(t)
  /\ UNCHANGED <<session, current, snap, kill, breaker, orders, pos, left>>

\* The snapshot taken is written, whatever became of the session.
WriteSnapshot(t) ==
  /\ At(t, "write")
  /\ thread' = [thread EXCEPT ![t] = [Then(t, <<>>) EXCEPT !.holds = None]]
  /\ \/ Spend("saves") /\ snap' = [snap EXCEPT ![Obj(t).id] = thread[t].holds]
     \/ left.saves = 0 /\ UNCHANGED <<snap, left>>
  /\ UNCHANGED <<session, current, kill, breaker, orders, pos>>

\* finishAITraderSession looks the session up by its ID.
Finish(s) ==
  /\ session[s].loop = "on" /\ thread[Loop(s)].run = <<>> /\ session[s].cancelled
  /\ LockFree
  /\ LET c == Found(session[s].id)
         over == c # None /\ session[c].status = "running"
     IN IF over
        THEN /\ session' = [session EXCEPT ![s].loop = "off", ![c].status = "stopped"]
             /\ snap' = [snap EXCEPT ![session[s].id] = None]
        ELSE /\ session' = [session EXCEPT ![s].loop = "off"]
             /\ UNCHANGED snap
  /\ UNCHANGED <<current, kill, breaker, thread, orders, pos, left>>

-----------------------------------------------------------------------------
(* Requests of the operator.                                               *)

Fresh == {o \in Sessions : session[o].loop = "none" /\ \A p \in 1 .. o - 1 : session[p].loop # "none"}

StartSession ==
  /\ LockFree
  /\ Spend("starts")
  /\ \E o \in Fresh :
       /\ session' = [p \in Sessions |->
            IF p = o THEN [Unused EXCEPT !.id = o, !.status = "running", !.loop = "on"]
            ELSE IF p = current /\ session[p].status = "running"
                 THEN [session[p] EXCEPT !.cancelled = TRUE, !.status = "stopped"]
                 ELSE session[p]]
       /\ current' = o
  /\ UNCHANGED <<snap, kill, breaker, thread, orders, pos>>

\* The object before is cancelled and otherwise left as it is.
ResumeSession ==
  /\ LockFree
  /\ Spend("resumes")
  /\ \E o \in Fresh, id \in Sessions, reconnectOnly \in BOOLEAN :
       /\ snap[id] # None
       /\ session' = [p \in Sessions |->
            IF p = o THEN [Unused EXCEPT !.id = id, !.status = "running", !.loop = "on",
                             !.phase = snap[id].phase, !.halted = snap[id].halted,
                             !.lots = snap[id].lots, !.stops = snap[id].stops,
                             !.work = snap[id].work, !.paused = reconnectOnly,
                             !.over = \E q \in Sessions : session[q].id = id /\ session[q].loop = "on"]
            ELSE IF p = current THEN [session[p] EXCEPT !.cancelled = TRUE]
            ELSE session[p]]
       /\ current' = o
  /\ UNCHANGED <<snap, kill, breaker, thread, orders, pos>>

\* start-trading: the lock is held until the orders are placed.
StartTrading ==
  /\ thread[Admin].run = <<>> /\ Room
  /\ current # None
  /\ session[current].status = "running" /\ session[current].phase = "ready"
  /\ session' = [session EXCEPT ![current].phase = "trading", ![current].paused = FALSE]
  /\ \E e \in Entries :
       thread' = [thread EXCEPT ![Admin] =
                    Starting(current, StartLive(session[current], e) \o <<Do("opened")>>)]
  /\ UNCHANGED <<current, snap, kill, breaker, orders, pos, left>>

\* The lock is released, and a snapshot is taken and then written.
Opened(t) ==
  /\ At(t, "opened")
  /\ IF Obj(t).status = "running"
     THEN thread' = [thread EXCEPT ![t].run = <<Do("write")>>, ![t].holds = Snapshot(Obj(t))]
     ELSE Done(t)
  /\ UNCHANGED <<session, current, snap, kill, breaker, orders, pos, left>>

StopSession ==
  /\ thread[Admin].run = <<>> /\ Room /\ Happens("stop")
  /\ current # None
  /\ thread' = [thread EXCEPT ![Admin] =
       Starting(current, (IF session[current].status = "running" THEN <<Do("cancel")>> ELSE <<>>)
                          \o <<Do("stopped")>>)]
  /\ UNCHANGED <<session, current, snap, kill, breaker, orders, pos>>

\* Mutant: the loop is not cancelled.
MutantEnded(S) == [S EXCEPT !.status = "stopped"]

\* A session that is not running is not cancelled.
Ended(S) == [S EXCEPT !.cancelled = @ \/ S.status = "running", !.status = "stopped"]
Stopped(t) ==
  /\ At(t, "stopped")
  /\ Done(t)
  /\ session' = [session EXCEPT ![thread[t].obj] = Ended(@)]
  /\ snap' = [snap EXCEPT ![Obj(t).id] = None]
  /\ UNCHANGED <<current, kill, breaker, orders, pos, left>>

Flatten ==
  /\ LockFree /\ Room /\ thread[Flattening].run = <<>> /\ Happens("flatten")
  /\ current # None
  /\ session[current].status = "running" /\ session[current].phase = "trading"
  /\ thread' = [thread EXCEPT ![Flattening] =
                  Starting(current, <<Do("cancel"), Do("close"), Do("truth")>>)]
  /\ UNCHANGED <<session, current, snap, kill, breaker, orders, pos>>

SetKillSwitch ==
  /\ Happens(IF kill THEN "kill off" ELSE "kill on")
  /\ kill' = ~kill
  /\ thread' = IF kill THEN [t \in Threads |-> [thread[t] EXCEPT !.killed = FALSE]] ELSE thread
  /\ UNCHANGED <<session, current, snap, breaker, orders, pos>>

-----------------------------------------------------------------------------
(* The broker, time, and the runner's end.                                 *)

Fill(n) ==
  /\ n \in DOMAIN orders /\ Working(n)
  /\ orders' = [orders EXCEPT ![n].status = "filled"]
  /\ pos' = pos + orders[n].side * orders[n].shares
  /\ UNCHANGED <<session, current, snap, kill, breaker, thread, left>>

CoolDown ==
  /\ Risk!IsTripped(breaker)
  /\ breaker' = [breaker EXCEPT !.cooled = TRUE]
  /\ UNCHANGED <<session, current, snap, kill, thread, orders, pos, left>>

SessionTimeout(s) ==
  /\ session[s].loop = "on" /\ ~session[s].cancelled /\ Happens("timeout")
  /\ session' = [session EXCEPT ![s].cancelled = TRUE]
  /\ UNCHANGED <<current, snap, kill, breaker, thread, orders, pos>>

\* What is not in the database is gone, the kill switch included.
Crash ==
  /\ current # None /\ Happens("crash")
  /\ session' = [o \in Sessions |-> IF session[o].loop = "none" THEN session[o] ELSE [Unused EXCEPT !.loop = "off"]]
  /\ current' = None
  /\ kill' = FALSE
  /\ breaker' = Risk!NewCircuitBreaker
  /\ thread' = [t \in Threads |-> Idle]
  /\ UNCHANGED <<snap, orders, pos>>

-----------------------------------------------------------------------------
Init ==
  /\ session = [o \in Sessions |-> Unused]
  /\ current = None
  /\ snap = [o \in Sessions |-> None]
  /\ kill = FALSE
  /\ breaker = Risk!NewCircuitBreaker
  /\ thread = [t \in Threads |-> Idle]
  /\ orders = <<>>
  /\ pos = 0
  /\ left \in Budgets

ThreadStep(t) ==
  \/ PlaceLimit(t) \/ Close(t) \/ ShutPosition(t) \/ Post(t)
  \/ CancelAll(t) \/ DropOrder(t) \/ SyncOrders(t) \/ GetOrderState(t)
  \/ ReadPosition(t) \/ AdoptPosition(t)
  \/ Gates(t) \/ Manage(t) \/ Enter(t) \/ Save(t) \/ WriteSnapshot(t) \/ Opened(t) \/ Stopped(t)

Request == StartSession \/ ResumeSession \/ StartTrading \/ StopSession \/ Flatten \/ SetKillSwitch

Next ==
  \/ \E t \in Threads : ThreadStep(t)
  \/ \E s \in Sessions : Tick(s) \/ Finish(s) \/ SessionTimeout(s)
  \/ Request
  \/ \E n \in 1 .. MaxOrders : Fill(n)
  \/ CoolDown \/ Crash

\* The ticker of each session fires again and again, whatever the other loops
\* do, and finds an order book; and goroutines, whose calls the broker answers, run to their end.  Nothing
\* is assumed of fills, of the operator, or of which answer comes.
LoopStep(s) == Tick(s) \/ Finish(s) \/ ThreadStep(Loop(s))
Fairness ==
  /\ \A s \in Sessions : SF_vars(LoopStep(s))
  /\ WF_vars(\E t \in Threads \ {Loop(s) : s \in Sessions} : ThreadStep(t))

Spec == Init /\ [][Next]_vars /\ Fairness

-----------------------------------------------------------------------------
SessionType == [id : Sessions \cup {None}, status : {"running", "stopped"},
                phase : {"preparing", "ready", "trading"},
                loop : {"none", "on", "off"}, cancelled : BOOLEAN, paused : BOOLEAN,
                halted : BOOLEAN, lots : Int, stops : BOOLEAN,
                work : Seq(1 .. MaxOrders), over : BOOLEAN]

\* The shape of the state; lists name orders once, and goroutines that hold a
\* list have something left in it.
TypeOK ==
  /\ \A s \in Sessions : /\ session[s] \in SessionType
                         /\ Cardinality(Range(session[s].work)) = Len(session[s].work)
  /\ current \in Sessions \cup {None}
  /\ kill \in BOOLEAN
  /\ breaker \in Risk!Breaker
  /\ pos \in Int
  /\ \A t \in Threads : /\ thread[t].run # <<>> => thread[t].obj \in Sessions
                        /\ At(t, "query") \/ At(t, "drop") => thread[t].list # <<>>

\* A tick or a request that begins while the kill switch is on posts no order,
\* whichever of its ways to the broker it takes (the switch is asked at each,
\* ai_trader_live_trading.go:74, 104 and applyLiveRiskGate).  It says nothing of one
\* under way when the switch is thrown, which may still post: the switch is not asked
\* between the risk gate and PostOrder (ai_trader_live_trading.go:336-348).
KilledStaysQuiet == \A n \in DOMAIN orders : ~orders[n].late

\* A session keeps track of each of its limit orders until it has asked for
\* its cancellation, however queries fail and whichever goroutine rewrites the
\* list; only an order posted while another goroutine was in the middle of
\* rewriting the list may be lost (st.WorkingOrders = remaining).
WorkingOrdersKept ==
  \A n \in DOMAIN orders :
    /\ Working(n) /\ orders[n].kind = "limit"
    /\ ~orders[n].asked /\ ~orders[n].raced
    /\ session[orders[n].by].id # None
    => n \in Range(session[orders[n].by].work)

\* A loop that nobody has cancelled belongs to the session the manager would
\* find, and that session is running, so that a stop request reaches it; the
\* exception is a session resumed while the loop it replaced was still there,
\* which the end of that loop marks as stopped.
LoopsAreListed ==
  \A s \in Sessions :
    session[s].loop = "on" /\ ~session[s].cancelled
    => session[s].over \/ (current = s /\ session[s].status = "running")

\* The position stays within the risk limit but for what the check of an order
\* that has filled did not count: the orders of its side that were in flight when
\* it was approved, and the shares it has beyond the number of its lots
\* (PositionLimitChecker adds lots to shares).
LimitKeptButForExtra ==
  \A side \in {1, -1} :
    side * pos <= MaxLots + Max({0} \cup {orders[n].extra :
      n \in {m \in DOMAIN orders : orders[m].status = "filled" /\ orders[m].side = side}})

Trades(s) == session[s].loop = "on" /\ ~session[s].cancelled /\ current = s /\ session[s].phase = "trading"
Agrees(s) == session[s].lots = 0 <=> pos = 0

\* A session that goes on trading comes back, again and again, to agreeing
\* with the broker on whether there is a position, however fills are counted
\* twice, closings presumed and answers late.
ZeroIsAgreed == []<>(\A s \in Sessions : Trades(s) => Agrees(s))
=============================================================================
