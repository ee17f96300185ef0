--------------------------- MODULE OrderExecution ---------------------------
(***************************************************************************)
(* How the executed lots of an order reach the position ledger of the      *)
(* strategy instance that sent it.                                         *)
(*                                                                         *)
(* Three goroutines may report the same order to Runner.dispatchExecution: *)
(* the consumer of the order-state stream, the submitter (handleSignals,   *)
(* when PostOrder already returned executions) and the poller that         *)
(* handleSignals spawns after it.  Each runs the whole handler; the only   *)
(* atomic parts are those under Runner.mu.                                 *)
(*                                                                         *)
(* Abstracted: a price is known or not, and the ledger is the number of    *)
(* lots of each order given to ApplyFill.  What the position and the stop  *)
(* orders become is the subject of ProtectiveStop.                         *)
(***************************************************************************)
EXTENDS Integers, Sequences

CONSTANTS
  Orders,        \* order identifiers
  Lots,          \* lots each order asks for
  ChanSize,      \* capacity of the runner's order-state channel (512 in code)
  PollAttempts,  \* len(delays) of pollOrderStateAfterSubmit (3 in code)
  Nil            \* no report

ASSUME OrderAssumption ==
  /\ Lots \in Nat \ {0}
  /\ ChanSize \in Nat
  /\ PollAttempts \in Nat

VARIABLES
  status,        \* the broker's status of each order, or "unsent"
  executed,      \* the broker's cumulative executed lots
  wire,          \* order-state reports on the broker's stream, in order
  states,        \* the runner's order-state channel
  priced,        \* Repository.journal holds a trade of the order
  activeOrders,  \* Repository.activeOrders: the status it shows, or "absent"
  cancelling,    \* a CancelOrder call returned, its repository update is due
  orderOwners,   \* orders in Runner.orderOwners
  lastFilled,    \* Runner.lastFilled, 0 where the map has no entry
  attempts,      \* polls the order's poller has left
  pc,            \* where each goroutine is
  report,        \* the OrderStateEvent each goroutine handles
  avgKnown,      \* dispatchExecution's avgPrice > 0
  delta,         \* dispatchExecution's deltaLots
  booked,        \* history: lots of the order ApplyFill was given
  unbooked,      \* history: lots whose delta was taken without a price
  released       \* history: the order has left orderOwners once

brokerVars == <<status, executed, wire, priced>>
repoVars   == <<activeOrders, cancelling>>
dedupVars  == <<orderOwners, lastFilled>>
taskVars   == <<attempts, pc, report, avgKnown, delta>>
histVars   == <<booked, unbooked, released>>
vars == <<brokerVars, states, repoVars, dedupVars, taskVars, histVars>>

\* The goroutines that call dispatchExecution.
StreamTask == <<"stream">>
Submit(o) == <<"submit", o>>
Poll(o)   == <<"poll", o>>
Tasks == {StreamTask} \cup {Submit(o) : o \in Orders} \cup {Poll(o) : o \in Orders}

\* Where a goroutine can be; in the Holding places it has a report.
Holding == {"save", "own", "store", "lookup", "price", "delta", "book", "notify"}
Places == Holding \cup {"post", "failed", "idle", "done"}

Live == {"NEW", "PARTIALLY_FILLED"}
Final == {"FILLED", "CANCELLED", "REJECTED"}
Statuses == Live \cup Final

IsTerminal(s) == s \in Final

Reports == [order : Orders, status : Statuses, qty : 0..Lots]
Report(o, s, q) == [order |-> o, status |-> s, qty |-> q]

-----------------------------------------------------------------------------
(* The broker.  Every change of an order goes out on the state stream.     *)

Publish(o, s, q) ==
  /\ status' = [status EXCEPT ![o] = s]
  /\ executed' = [executed EXCEPT ![o] = q]
  /\ wire' = Append(wire, Report(o, s, q))

FillStatus(q) ==
  IF q = Lots THEN "FILLED" ELSE IF q = 0 THEN "NEW" ELSE "PARTIALLY_FILLED"

BrokerExecute(o) ==
  /\ status[o] \in Live
  /\ \E q \in (executed[o] + 1)..Lots : Publish(o, FillStatus(q), q)
  /\ UNCHANGED <<priced, states, repoVars, dedupVars, taskVars, histVars>>

\* The broker or the exchange ends an order by itself.
BrokerCancel(o) ==
  /\ status[o] \in Live
  /\ Publish(o, "CANCELLED", executed[o])
  /\ UNCHANGED <<priced, states, repoVars, dedupVars, taskVars, histVars>>

-----------------------------------------------------------------------------
(* The stream goroutines of order.StreamManager.                           *)

SetRepo(o, s) ==
  activeOrders' = IF activeOrders[o] = "absent" THEN activeOrders
                  ELSE [activeOrders EXCEPT ![o] = s]

\* StreamOrderStates: store the state, then a send that drops when full.
StreamOrderStates ==
  /\ wire # <<>>
  /\ LET r == Head(wire) IN
       /\ SetRepo(r.order, r.status)
       /\ states' = IF Len(states) < ChanSize THEN Append(states, r) ELSE states
  /\ wire' = Tail(wire)
  /\ UNCHANGED <<status, executed, priced, cancelling, dedupVars,
                 taskVars, histVars>>

\* StreamTrades: the first trade gives the order an execution price.
StreamTrades(o) ==
  /\ executed[o] > 0
  /\ ~priced[o]
  /\ priced' = [priced EXCEPT ![o] = TRUE]
  /\ UNCHANGED <<status, executed, wire, states, repoVars, dedupVars,
                 taskVars, histVars>>

-----------------------------------------------------------------------------
(* Submitting: handleSignals around Service.PostOrder.                     *)

\* PostOrder reaches the broker, which answers with the order's first state.
PostOrder(o) ==
  /\ pc[Submit(o)] = "post"
  /\ \E q \in 0..Lots, s \in {"fill", "REJECTED"} :
       /\ s = "REJECTED" => q = 0
       /\ LET st == IF s = "fill" THEN FillStatus(q) ELSE s IN
            /\ Publish(o, st, q)
            /\ report' = [report EXCEPT ![Submit(o)] = Report(o, st, q)]
  /\ pc' = [pc EXCEPT ![Submit(o)] = "save"]
  /\ UNCHANGED <<priced, states, repoVars, dedupVars, attempts, avgKnown, delta,
                 histVars>>

\* PostOrder fails: not sent at all, or accepted with the answer lost.
PostOrderFails(o) ==
  /\ pc[Submit(o)] = "post"
  /\ \/ UNCHANGED brokerVars
     \/ \E q \in 0..Lots : Publish(o, FillStatus(q), q) /\ UNCHANGED priced
  /\ pc' = [pc EXCEPT ![Submit(o)] = "failed"]
  /\ UNCHANGED <<states, repoVars, dedupVars, attempts, report, avgKnown, delta,
                 histVars>>

\* Repository.SaveOrder, after the answer.
SaveOrder(o) ==
  /\ pc[Submit(o)] = "save"
  /\ activeOrders' = [activeOrders EXCEPT ![o] = "NEW"]
  /\ pc' = [pc EXCEPT ![Submit(o)] = "own"]
  /\ UNCHANGED <<brokerVars, states, cancelling, dedupVars, attempts, report,
                 avgKnown, delta, histVars>>

\* A PostOrder answer is dispatched only if it has lots or is terminal.
AnswerIsNews(r) == r.qty > 0 \/ IsTerminal(r.status)

TakeOwnership(o) ==
  /\ pc[Submit(o)] = "own"
  /\ orderOwners' = orderOwners \cup {o}
  /\ pc' = [pc EXCEPT ![Submit(o)] =
                IF AnswerIsNews(report[Submit(o)]) THEN "lookup" ELSE "done"]
  /\ UNCHANGED <<brokerVars, states, repoVars, lastFilled, attempts, report,
                 avgKnown, delta, histVars>>

-----------------------------------------------------------------------------
(* pollOrderStateAfterSubmit, spawned once the submitter is done.          *)

CanPoll(o) ==
  /\ pc[Submit(o)] = "done"
  /\ pc[Poll(o)] = "idle"
  /\ attempts[o] > 0

\* GetOrderState: the broker's answer ...
GetOrderState(o) ==
  /\ CanPoll(o)
  /\ attempts' = [attempts EXCEPT ![o] = @ - 1]
  /\ report' = [report EXCEPT ![Poll(o)] = Report(o, status[o], executed[o])]
  /\ pc' = [pc EXCEPT ![Poll(o)] = "store"]
  /\ UNCHANGED <<brokerVars, states, repoVars, dedupVars, avgKnown, delta,
                 histVars>>

GetOrderStateFails(o) ==
  /\ CanPoll(o)
  /\ attempts' = [attempts EXCEPT ![o] = @ - 1]
  /\ UNCHANGED <<brokerVars, states, repoVars, dedupVars, report, pc, avgKnown,
                 delta, histVars>>

\* ... then its repository update.
StorePolled(o) ==
  /\ pc[Poll(o)] = "store"
  /\ SetRepo(o, report[Poll(o)].status)
  /\ pc' = [pc EXCEPT ![Poll(o)] = "lookup"]
  /\ UNCHANGED <<brokerVars, states, cancelling, dedupVars, attempts, report,
                 avgKnown, delta, histVars>>

-----------------------------------------------------------------------------
(* Service.CancelOrder, as flattenInstance calls it on active orders.      *)

\* Mutant: the repository is updated whatever the broker answers.
MutantCancelUnchecked(o) ==
  /\ activeOrders[o] \in Live
  /\ ~cancelling[o]
  /\ cancelling' = [cancelling EXCEPT ![o] = TRUE]
  /\ UNCHANGED <<brokerVars, states, activeOrders, dedupVars, taskVars, histVars>>

CancelOrder(o) ==
  /\ activeOrders[o] \in Live
  /\ status[o] \in Live
  /\ ~cancelling[o]
  /\ Publish(o, "CANCELLED", executed[o])
  /\ cancelling' = [cancelling EXCEPT ![o] = TRUE]
  /\ UNCHANGED <<priced, states, activeOrders, dedupVars, taskVars, histVars>>

StoreCancelled(o) ==
  /\ cancelling[o]
  /\ SetRepo(o, "CANCELLED")
  /\ cancelling' = [cancelling EXCEPT ![o] = FALSE]
  /\ UNCHANGED <<brokerVars, states, dedupVars, taskVars, histVars>>

-----------------------------------------------------------------------------
(* consumeOrderStates and dispatchExecution.                               *)

ReceiveState ==
  /\ pc[StreamTask] = "idle"
  /\ states # <<>>
  /\ report' = [report EXCEPT ![StreamTask] = Head(states)]
  /\ states' = Tail(states)
  /\ pc' = [pc EXCEPT ![StreamTask] = "lookup"]
  /\ UNCHANGED <<brokerVars, repoVars, dedupVars, attempts, avgKnown, delta,
                 histVars>>

\* dispatchExecution returns: the submitter goes on to spawn the poller, the
\* poller stops after a terminal report, the consumer takes the next one.
Return(t) ==
  /\ pc' = [pc EXCEPT ![t] =
              IF t # StreamTask /\ (t[1] = "submit" \/ IsTerminal(report[t].status))
              THEN "done" ELSE "idle"]
  /\ report' = [report EXCEPT ![t] = Nil]

\* Under mu: only an order with an owner is dispatched.
IgnoreUnowned(t) ==
  /\ pc[t] = "lookup"
  /\ report[t].order \notin orderOwners
  /\ Return(t)
  /\ UNCHANGED <<brokerVars, states, repoVars, dedupVars, attempts, avgKnown, delta,
                 histVars>>

LookUpOwner(t) ==
  /\ pc[t] = "lookup"
  /\ report[t].order \in orderOwners
  /\ pc' = [pc EXCEPT ![t] = "price"]
  /\ UNCHANGED <<brokerVars, states, repoVars, dedupVars, attempts, report,
                 avgKnown, delta, histVars>>

\* avgPrice.  A filled report polls for a trade until one is recorded or two
\* seconds have passed, so the step may happen at any moment of that wait.
ReadPrice(t) ==
  /\ pc[t] = "price"
  /\ avgKnown' = [avgKnown EXCEPT ![t] = priced[report[t].order]]
  /\ pc' = [pc EXCEPT ![t] = "delta"]
  /\ UNCHANGED <<brokerVars, states, repoVars, dedupVars, attempts, report, delta,
                 histVars>>

\* deltaLots: what a report adds to what was reported before, never negative.
MutantIgnoresLastFilled(cumulative, prev) == cumulative
MutantUnclamped(cumulative, prev) == cumulative - prev
MutantOneLotPerReport(cumulative, prev) == IF cumulative > prev THEN 1 ELSE 0
NewLots(cumulative, prev) == IF cumulative > prev THEN cumulative - prev ELSE 0

\* Under mu: take the delta and advance lastFilled, price or no price.
TakeDelta(t) ==
  /\ pc[t] = "delta"
  /\ LET o == report[t].order
         d == NewLots(report[t].qty, lastFilled[o])
     IN  /\ delta' = [delta EXCEPT ![t] = d]
         /\ lastFilled' = [lastFilled EXCEPT ![o] = @ + d]
  /\ pc' = [pc EXCEPT ![t] = "book"]
  /\ UNCHANGED <<brokerVars, states, repoVars, orderOwners, attempts, report,
                 avgKnown, histVars>>

\* ApplyFill, skipped when the order has no price.
BookFill(t) ==
  /\ pc[t] = "book"
  /\ LET o == report[t].order IN
       IF avgKnown[t]
       THEN booked' = [booked EXCEPT ![o] = @ + delta[t]] /\ UNCHANGED unbooked
       ELSE unbooked' = [unbooked EXCEPT ![o] = @ + delta[t]] /\ UNCHANGED booked
  /\ delta' = [delta EXCEPT ![t] = 0]
  /\ avgKnown' = [avgKnown EXCEPT ![t] = FALSE]
  /\ pc' = [pc EXCEPT ![t] = "notify"]
  /\ UNCHANGED <<brokerVars, states, repoVars, dedupVars, attempts, report, released>>

\* OnExecution; then, under mu, a terminal report makes the runner forget the
\* order: its owner and its lastFilled entry.
MutantForgetsAnyFill(r) == r.qty > 0
MutantForgetsFilledOnly(r) == r.status = "FILLED"
ForgetsOrder(r) == IsTerminal(r.status)

FinishDispatch(t) ==
  /\ pc[t] = "notify"
  /\ LET o == report[t].order IN
       IF ForgetsOrder(report[t])
       THEN /\ orderOwners' = orderOwners \ {o}
            /\ lastFilled' = [lastFilled EXCEPT ![o] = 0]
            /\ released' = [released EXCEPT ![o] = TRUE]
       ELSE UNCHANGED <<dedupVars, released>>
  /\ Return(t)
  /\ UNCHANGED <<brokerVars, states, repoVars, attempts, avgKnown, delta,
                 booked, unbooked>>

-----------------------------------------------------------------------------

Init ==
  /\ status = [o \in Orders |-> "unsent"]
  /\ executed = [o \in Orders |-> 0]
  /\ wire = <<>>
  /\ states = <<>>
  /\ priced = [o \in Orders |-> FALSE]
  /\ activeOrders = [o \in Orders |-> "absent"]
  /\ cancelling = [o \in Orders |-> FALSE]
  /\ orderOwners = {}
  /\ lastFilled = [o \in Orders |-> 0]
  /\ attempts = [o \in Orders |-> PollAttempts]
  /\ pc = [t \in Tasks |-> IF t \in {Submit(o) : o \in Orders} THEN "post" ELSE "idle"]
  /\ report = [t \in Tasks |-> Nil]
  /\ avgKnown = [t \in Tasks |-> FALSE]
  /\ delta = [t \in Tasks |-> 0]
  /\ booked = [o \in Orders |-> 0]
  /\ unbooked = [o \in Orders |-> 0]
  /\ released = [o \in Orders |-> FALSE]

Dispatch(t) ==
  IgnoreUnowned(t) \/ LookUpOwner(t) \/ ReadPrice(t) \/ TakeDelta(t)
  \/ BookFill(t) \/ FinishDispatch(t)

Broker(o) == BrokerExecute(o) \/ BrokerCancel(o)

Post(o) == PostOrder(o) \/ PostOrderFails(o)
Submitter(o) == SaveOrder(o) \/ TakeOwnership(o)

Poller(o) == GetOrderState(o) \/ GetOrderStateFails(o) \/ StorePolled(o)

Next ==
  \/ \E o \in Orders : Broker(o) \/ Post(o) \/ Submitter(o) \/ Poller(o) \/ StreamTrades(o)
                         \/ CancelOrder(o) \/ StoreCancelled(o)
  \/ StreamOrderStates
  \/ ReceiveState
  \/ \E t \in Tasks : Dispatch(t)

\* Goroutines of a running process keep running.  Nothing is assumed of the
\* broker, nor of its two streams: the runner never reopens a closed one.
Fairness ==
  /\ \A o \in Orders : WF_vars(Submitter(o)) /\ WF_vars(Poller(o))
  /\ \A t \in Tasks : WF_vars(Dispatch(t))

Spec == Init /\ [][Next]_vars /\ Fairness

-----------------------------------------------------------------------------
(* Properties.                                                             *)

\* The types of the variables: the cursor and the deltas stay within the ordered
\* lots (NewLots, lastFilled).
TypeOK ==
  /\ status \in [Orders -> Statuses \cup {"unsent"}]
  /\ executed \in [Orders -> 0..Lots]
  /\ wire \in Seq(Reports)
  /\ states \in Seq(Reports)
  /\ priced \in [Orders -> BOOLEAN]
  /\ activeOrders \in [Orders -> Statuses \cup {"absent"}]
  /\ cancelling \in [Orders -> BOOLEAN]
  /\ orderOwners \subseteq Orders
  /\ lastFilled \in [Orders -> 0..Lots]
  /\ attempts \in [Orders -> 0..PollAttempts]
  /\ pc \in [Tasks -> Places]
  /\ report \in [Tasks -> Reports \cup {Nil}]
  /\ avgKnown \in [Tasks -> BOOLEAN]
  /\ delta \in [Tasks -> 0..Lots]
  /\ booked \in [Orders -> Nat]
  /\ unbooked \in [Orders -> Nat]
  /\ released \in [Orders -> BOOLEAN]

\* The part of delta d of a goroutine with report r that belongs to order o.
Share(d, r, o) == IF d > 0 /\ r.order = o THEN d ELSE 0

\* Lots of order o that some goroutine took and has not given to ApplyFill yet.
InFlight(dl, rp, o) ==
  Share(dl[StreamTask], rp[StreamTask], o) + Share(dl[Submit(o)], rp[Submit(o)], o)
    + Share(dl[Poll(o)], rp[Poll(o)], o)

Taken(o) == booked[o] + unbooked[o] + InFlight(delta, report, o)

\* However the stream, the submitter and the poller interleave, and whatever
\* stale or repeated counts they carry, they share out each executed lot once:
\* true until the runner forgets the order (dispatchExecution, lastFilled).
EachLotTakenOnce ==
  \A o \in Orders :
    /\ lastFilled[o] <= executed[o]
    /\ ~released[o] => Taken(o) = lastFilled[o]

\* When the runner forgets an order no executed lot was passed over, although
\* reports were dropped by a full channel, by failed polls or before the order
\* had an owner.
NothingSkipped ==
  \A o \in Orders : released[o] => Taken(o) >= executed[o]

\* The repository hides an order from GetActiveOrders, and so from the watchdog's
\* cancellations, only when it is over at the broker.
HiddenOrdersAreOver ==
  \A o \in Orders : activeOrders[o] \in Final => status[o] \in Final

\* The runner forgets an order only when the broker can no longer fill it.
ForgetsOnlyFinal ==
  [][\A o \in orderOwners \ orderOwners' : status[o] \in Final]_vars

\* A terminal report that passed the owner check ends with the order forgotten,
\* so that Runner's maps do not grow with every order.
TerminalReportReleases ==
  \A t \in Tasks, o \in Orders :
    (pc[t] = "price" /\ report[t] \in [order : {o}, status : Final, qty : 0..Lots])
      ~> o \notin orderOwners

\* The reports, whoever makes them, implement Booking: the cursor lastFilled is
\* what has been claimed, and a forgotten order is one that was fully claimed,
\* though goroutines may still hold what they claimed of it.
Settled(o) == IF booked[o] + unbooked[o] < executed[o] THEN booked[o] + unbooked[o] ELSE executed[o]
Promise == INSTANCE Booking WITH
  phase <- [o \in Orders |-> IF released[o] THEN "forgotten"
                             ELSE IF status[o] \in Final THEN "over" ELSE "live"],
  claimed <- [o \in Orders |-> IF released[o] THEN executed[o] ELSE lastFilled[o]],
  settled <- [o \in Orders |-> Settled(o)]

ImplementsBooking == Promise!Spec

\* What InstanceLedger's comment promises, a position made of the fills: no lot
\* is booked twice.  The code breaks it.
EachLotBookedOnce == \A o \in Orders : booked[o] <= executed[o]
=============================================================================
