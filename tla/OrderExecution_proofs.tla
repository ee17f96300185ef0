------------------------ MODULE OrderExecution_proofs ------------------------
(***************************************************************************)
(* EachLotTakenOnce, NothingSkipped, HiddenOrdersAreOver and               *)
(* ForgetsOnlyFinal for any set of orders, any number of lots, any channel *)
(* capacity and any number of polls; and that OrderExecution implements    *)
(* the safety of Booking.  The part of ImplementsBooking that this does    *)
(* not give is the liveness, Dealt.                                        *)
(***************************************************************************)
EXTENDS OrderExecution, SequenceTheorems, TLAPS

-----------------------------------------------------------------------------
(* The inductive invariant.                                                *)

\* A report tells a past state of its order: its count is not beyond the
\* broker's, and if it is terminal the order is over with just that count.
Sound(r, st, ex) ==
  /\ st[r.order] # "unsent"
  /\ r.qty <= ex[r.order]
  /\ r.status \in Final => st[r.order] \in Final /\ r.qty = ex[r.order]

QueuesSound ==
  /\ \A i \in 1..Len(wire) : Sound(wire[i], status, executed)
  /\ \A i \in 1..Len(states) : Sound(states[i], status, executed)

TasksSound ==
  /\ \A t \in Tasks : pc[t] \in Holding =>
       report[t] \in Reports /\ Sound(report[t], status, executed)
  /\ \A o \in Orders :
       /\ pc[Submit(o)] \in Holding => report[Submit(o)].order = o
       /\ pc[Poll(o)] \in Holding => report[Poll(o)].order = o

\* A delta is held only between TakeDelta and BookFill.
DeltaHeld == \A t \in Tasks : delta[t] > 0 => pc[t] = "book"

\* Past TakeDelta, the order's cursor has reached the report's count.
CursorReached ==
  \A t \in Tasks : pc[t] \in {"book", "notify"} =>
    (~released[report[t].order] => lastFilled[report[t].order] >= report[t].qty)

BrokerInv ==
  \A o \in Orders :
    /\ status[o] = "unsent" => executed[o] = 0
    /\ pc[Submit(o)] = "post" => status[o] = "unsent"
    /\ pc[Submit(o)] = "done" => status[o] # "unsent"
    /\ cancelling[o] => status[o] \in Final
    /\ released[o] => status[o] \in Final

BookInv == DeltaHeld /\ CursorReached /\ EachLotTakenOnce /\ NothingSkipped

IInv ==
  /\ TypeOK
  /\ QueuesSound
  /\ TasksSound
  /\ BookInv
  /\ BrokerInv
  /\ HiddenOrdersAreOver

-----------------------------------------------------------------------------
(* Tasks, reports and shares.                                              *)

LEMMA TaskFacts ==
  /\ StreamTask \in Tasks
  /\ \A o \in Orders : Submit(o) \in Tasks /\ Poll(o) \in Tasks
  /\ \A o, p \in Orders :
       /\ Submit(o) # Poll(p) /\ Submit(o) # StreamTask /\ Poll(o) # StreamTask
       /\ Submit(o) = Submit(p) => o = p
       /\ Poll(o) = Poll(p) => o = p
  /\ \A t \in Tasks : t = StreamTask \/ (\E o \in Orders : t = Submit(o) \/ t = Poll(o))
BY DEF Tasks, StreamTask, Submit, Poll

LEMMA ReportFacts ==
  /\ \A r \in Reports : r.order \in Orders /\ r.status \in Statuses /\ r.qty \in 0..Lots
  /\ \A o \in Orders, s \in Statuses, q \in 0..Lots :
       /\ Report(o, s, q) \in Reports
       /\ Report(o, s, q).order = o
       /\ Report(o, s, q).status = s
       /\ Report(o, s, q).qty = q
BY DEF Reports, Report

LEMMA FillStatusType == \A q \in 0..Lots : FillStatus(q) \in Statuses
BY DEF FillStatus, Statuses, Live, Final

LEMMA ShareType == \A d \in 0..Lots : \A r, o : Share(d, r, o) \in Nat
BY OrderAssumption DEF Share

LEMMA InFlightType ==
  ASSUME NEW dl \in [Tasks -> 0..Lots], NEW rp, NEW o \in Orders
  PROVE  InFlight(dl, rp, o) \in Nat
<1>1. \A t \in Tasks : Share(dl[t], rp[t], o) \in Nat
  BY OrderAssumption DEF Share
<1>2. QED
  BY <1>1, TaskFacts DEF InFlight

\* Only the shares of goroutines that hold a delta count.
LEMMA InFlightSame ==
  ASSUME NEW dl \in [Tasks -> 0..Lots], NEW rp, NEW rq,
         \A t \in Tasks : dl[t] > 0 => rq[t] = rp[t]
  PROVE  \A o \in Orders : InFlight(dl, rq, o) = InFlight(dl, rp, o)
<1>1. \A t \in Tasks, o \in Orders : Share(dl[t], rq[t], o) = Share(dl[t], rp[t], o)
  BY DEF Share
<1>2. QED
  BY <1>1, TaskFacts DEF InFlight

\* A goroutine that changes its delta changes the lots in flight of its order.
LEMMA InFlightChange ==
  ASSUME delta \in [Tasks -> 0..Lots], NEW t \in Tasks, NEW d \in 0..Lots,
         NEW o \in Orders, report[t].order = o,
         \A p \in Orders : t = Submit(p) \/ t = Poll(p) => p = o,
         delta' = [delta EXCEPT ![t] = d]
  PROVE  /\ InFlight(delta', report, o) = InFlight(delta, report, o) + d - delta[t]
         /\ \A p \in Orders \ {o} : InFlight(delta', report, p) = InFlight(delta, report, p)
<1>1. \A u \in Tasks \ {t}, p \in Orders : Share(delta'[u], report[u], p) = Share(delta[u], report[u], p)
  OBVIOUS
<1>2. /\ Share(delta'[t], report[t], o) = d
      /\ Share(delta[t], report[t], o) = delta[t]
      /\ \A p \in Orders \ {o} : Share(delta'[t], report[t], p) = 0 /\ Share(delta[t], report[t], p) = 0
  BY OrderAssumption DEF Share
<1>3. \A u \in Tasks, p \in Orders :
        Share(delta[u], report[u], p) \in Nat /\ Share(delta'[u], report[u], p) \in Nat
  <2>1. delta \in [Tasks -> 0..Lots] /\ delta' \in [Tasks -> 0..Lots]
    OBVIOUS
  <2>2. \A f \in [Tasks -> 0..Lots], u \in Tasks, p \in Orders :
          Share(f[u], report[u], p) \in Nat
    <3>1. TAKE f \in [Tasks -> 0..Lots], u \in Tasks, p \in Orders
    <3>2. f[u] \in 0..Lots
      OBVIOUS
    <3>3. QED
      BY <3>2, ShareType
  <2>3. QED
    BY <2>1, <2>2
<1>4. \A p \in Orders \ {o} : InFlight(delta', report, p) = InFlight(delta, report, p)
  <2>1. SUFFICES ASSUME NEW p \in Orders \ {o}
                 PROVE  InFlight(delta', report, p) = InFlight(delta, report, p)
    OBVIOUS
  <2>2. \A u \in Tasks : Share(delta'[u], report[u], p) = Share(delta[u], report[u], p)
    BY <1>1, <1>2
  <2>3. QED
    BY <2>2, TaskFacts DEF InFlight
<1>5. InFlight(delta', report, o) = InFlight(delta, report, o) + d - delta[t]
  <2>1. t = StreamTask \/ t = Submit(o) \/ t = Poll(o)
    BY TaskFacts
  <2>2. QED
    BY <1>1, <1>2, <1>3, <2>1, TaskFacts DEF InFlight
<1>6. QED
  BY <1>4, <1>5

-----------------------------------------------------------------------------
(* What every step does to the broker's orders: counts grow, a final order *)
(* is frozen, and sound reports stay sound.                                *)

Advances ==
  \A o \in Orders :
    /\ executed[o] <= executed'[o]
    /\ status'[o] = "unsent" => status[o] = "unsent" /\ executed'[o] = executed[o]
    /\ status[o] \in Final => status'[o] = status[o] /\ executed'[o] = executed[o]

LEMMA StillAdvances ==
  ASSUME TypeOK, UNCHANGED <<status, executed>>
  PROVE  Advances
BY OrderAssumption DEF TypeOK, Advances

LEMMA PublishAdvances ==
  ASSUME TypeOK, NEW o \in Orders, NEW s \in Statuses, NEW q \in executed[o]..Lots,
         status[o] \notin Final, s \in Final \/ q <= Lots, Publish(o, s, q)
  PROVE  /\ Advances
         /\ status' \in [Orders -> Statuses \cup {"unsent"}]
         /\ executed' \in [Orders -> 0..Lots]
         /\ Report(o, s, q) \in Reports
         /\ Sound(Report(o, s, q), status', executed')
         /\ status'[o] = s /\ executed'[o] = q
         /\ wire' = Append(wire, Report(o, s, q))
         /\ wire' \in Seq(Reports)
<1>1. executed[o] \in 0..Lots /\ q \in 0..Lots
  BY OrderAssumption DEF TypeOK
<1>2. /\ status' = [status EXCEPT ![o] = s]
      /\ executed' = [executed EXCEPT ![o] = q]
      /\ wire' = Append(wire, Report(o, s, q))
  BY DEF Publish
<1>3. status'[o] = s /\ executed'[o] = q
  BY <1>2 DEF TypeOK
<1>4. Advances
  <2>1. \A p \in Orders \ {o} : status'[p] = status[p] /\ executed'[p] = executed[p]
    BY <1>2 DEF TypeOK
  <2>2. executed \in [Orders -> 0..Lots] /\ s # "unsent"
    BY DEF TypeOK, Statuses, Live, Final
  <2>3. QED
    BY <1>1, <1>3, <2>1, <2>2, OrderAssumption DEF Advances
<1>5. /\ status' \in [Orders -> Statuses \cup {"unsent"}]
      /\ executed' \in [Orders -> 0..Lots]
  BY <1>1, <1>2 DEF TypeOK
<1>6. Report(o, s, q) \in Reports
  BY <1>1, ReportFacts
<1>7. Sound(Report(o, s, q), status', executed')
  BY <1>1, <1>3, ReportFacts DEF Sound, Statuses, Live, Final
<1>8. wire' \in Seq(Reports)
  BY <1>2, <1>6, AppendProperties DEF TypeOK
<1>9. QED
  BY <1>2, <1>3, <1>4, <1>5, <1>6, <1>7, <1>8

LEMMA SoundKept ==
  ASSUME TypeOK, Advances, NEW r \in Reports, Sound(r, status, executed),
         status' \in [Orders -> Statuses \cup {"unsent"}],
         executed' \in [Orders -> 0..Lots]
  PROVE  Sound(r, status', executed')
<1>1. r.order \in Orders /\ r.qty \in 0..Lots
  BY ReportFacts
<1>2. executed[r.order] \in 0..Lots /\ executed'[r.order] \in 0..Lots
  BY <1>1 DEF TypeOK
<1>3. QED
  BY <1>1, <1>2, OrderAssumption DEF Sound, Advances

LEMMA QueueKept ==
  ASSUME TypeOK, Advances,
         status' \in [Orders -> Statuses \cup {"unsent"}],
         executed' \in [Orders -> 0..Lots],
         NEW q \in Seq(Reports), NEW p,
         \A i \in 1..Len(q) : Sound(q[i], status, executed),
         \/ p = q
         \/ q # <<>> /\ p = Tail(q)
         \/ \E r \in Reports : Sound(r, status', executed') /\ p = Append(q, r)
  PROVE  /\ p \in Seq(Reports)
         /\ \A i \in 1..Len(p) : Sound(p[i], status', executed')
<1>1. \A i \in 1..Len(q) : q[i] \in Reports /\ Sound(q[i], status', executed')
  BY SoundKept, ElementOfSeq
<1>2. CASE p = q
  BY <1>1, <1>2
<1>3. CASE q # <<>> /\ p = Tail(q)
  <2>1. /\ p \in Seq(Reports)
        /\ Len(q) \in Nat /\ Len(p) = Len(q) - 1
        /\ \A i \in 1..Len(p) : p[i] = q[i+1]
    BY <1>3, HeadTailProperties, LenProperties
  <2>2. QED
    BY <1>1, <2>1
<1>4. CASE \E r \in Reports : Sound(r, status', executed') /\ p = Append(q, r)
  <2>1. PICK r \in Reports : Sound(r, status', executed') /\ p = Append(q, r)
    BY <1>4
  <2>2. /\ p \in Seq(Reports)
        /\ Len(q) \in Nat /\ Len(p) = Len(q) + 1
        /\ \A i \in 1..Len(q) : p[i] = q[i]
        /\ p[Len(q) + 1] = r
    BY <2>1, AppendProperties, LenProperties
  <2>3. QED
    BY <1>1, <2>1, <2>2
<1>5. QED
  BY <1>2, <1>3, <1>4

\* A goroutine keeps its sound report, gets a new one, or has none.
LEMMA TasksKept ==
  ASSUME TypeOK, TasksSound, Advances,
         status' \in [Orders -> Statuses \cup {"unsent"}],
         executed' \in [Orders -> 0..Lots],
         \A t \in Tasks : pc'[t] \in Holding =>
           \/ pc[t] \in Holding /\ report'[t] = report[t]
           \/ /\ report'[t] \in Reports
              /\ Sound(report'[t], status', executed')
              /\ \A o \in Orders : t = Submit(o) \/ t = Poll(o) => report'[t].order = o
  PROVE  TasksSound'
<1>1. ASSUME NEW t \in Tasks, pc'[t] \in Holding
      PROVE  report'[t] \in Reports /\ Sound(report'[t], status', executed')
  BY <1>1, SoundKept DEF TasksSound
<1>2. ASSUME NEW o \in Orders
      PROVE  /\ pc'[Submit(o)] \in Holding => report'[Submit(o)].order = o
             /\ pc'[Poll(o)] \in Holding => report'[Poll(o)].order = o
  BY TaskFacts DEF TasksSound
<1>3. QED
  BY <1>1, <1>2 DEF TasksSound

\* A step that books nothing and moves no goroutine into or out of the places
\* after TakeDelta keeps the four invariants of the bookkeeping.
Booking == {"book", "notify"}

LEMMA BookKept ==
  ASSUME TypeOK, TypeOK', BrokerInv, BookInv, Advances,
         UNCHANGED <<lastFilled, delta, booked, unbooked, released>>,
         \A t \in Tasks : \/ pc'[t] = pc[t] /\ report'[t] = report[t]
                          \/ pc[t] \notin Booking /\ pc'[t] \notin Booking
  PROVE  BookInv'
<1>1. DeltaHeld'
  BY DEF BookInv, DeltaHeld, Booking
<1>2. CursorReached'
  BY DEF BookInv, CursorReached, Booking
<1>3. \A o \in Orders : InFlight(delta', report', o) = InFlight(delta, report, o)
  <2>1. delta \in [Tasks -> 0..Lots]
    BY DEF TypeOK
  <2>2. \A t \in Tasks : delta[t] > 0 => report'[t] = report[t]
    BY DEF BookInv, DeltaHeld, Booking
  <2>3. \A o \in Orders : InFlight(delta, report', o) = InFlight(delta, report, o)
    BY <2>1, <2>2, InFlightSame
  <2>4. QED
    BY <2>3
<1>4. \A o \in Orders : Taken(o)' = Taken(o)
  BY <1>3 DEF Taken
<1>5. EachLotTakenOnce'
  <2>1. SUFFICES ASSUME NEW o \in Orders
                 PROVE  /\ lastFilled'[o] <= executed'[o]
                        /\ ~released'[o] => Taken(o)' = lastFilled'[o]
    BY DEF EachLotTakenOnce
  <2>2. /\ lastFilled[o] \in Int /\ executed[o] \in Int /\ executed'[o] \in Int
        /\ lastFilled'[o] = lastFilled[o] /\ executed[o] <= executed'[o]
        /\ released'[o] = released[o]
    BY OrderAssumption DEF TypeOK, Advances
  <2>3. QED
    BY <1>4, <2>2 DEF BookInv, EachLotTakenOnce
<1>6. NothingSkipped'
  BY <1>4 DEF BookInv, NothingSkipped, BrokerInv, Advances
<1>7. QED
  BY <1>1, <1>2, <1>5, <1>6 DEF BookInv

-----------------------------------------------------------------------------
(* A step that does not touch the bookkeeping, reduced to what it does to  *)
(* the queues, the goroutines and the broker's orders.                     *)

\* A queue of sound reports is left alone, shortened, or given a sound one.
QueueFed(q, p) ==
  \/ p = q
  \/ q # <<>> /\ p = Tail(q)
  \/ \E r \in Reports : Sound(r, status', executed') /\ p = Append(q, r)

TaskFed(t) ==
  \/ pc[t] \in Holding /\ report'[t] = report[t]
  \/ /\ report'[t] \in Reports
     /\ Sound(report'[t], status', executed')
     /\ \A o \in Orders : t = Submit(o) \/ t = Poll(o) => report'[t].order = o

OrderKept(o) ==
  /\ pc'[Submit(o)] = "post" => pc[Submit(o)] = "post" /\ status'[o] = status[o]
  /\ pc'[Submit(o)] = "done" => pc[Submit(o)] \in Holding \cup {"done"}
  /\ cancelling'[o] => cancelling[o] \/ status'[o] \in Final
  /\ activeOrders'[o] \in Final => activeOrders[o] \in Final \/ status'[o] \in Final

LEMMA ApartFromBooking ==
  ASSUME IInv, TypeOK', Advances,
         QueueFed(wire, wire'), QueueFed(states, states'),
         \A t \in Tasks : pc'[t] \in Holding => TaskFed(t),
         \A o \in Orders : OrderKept(o),
         \A o \in Orders : released'[o] => released[o] \/ status[o] \in Final
  PROVE  QueuesSound' /\ TasksSound' /\ BrokerInv' /\ HiddenOrdersAreOver'
<1>1. /\ status' \in [Orders -> Statuses \cup {"unsent"}]
      /\ executed' \in [Orders -> 0..Lots]
      /\ wire \in Seq(Reports) /\ states \in Seq(Reports)
  BY DEF IInv, TypeOK
<1>2. QueuesSound'
  <2>1. \A i \in 1..Len(wire') : Sound(wire'[i], status', executed')
    BY <1>1, QueueKept DEF IInv, QueuesSound, QueueFed
  <2>2. \A i \in 1..Len(states') : Sound(states'[i], status', executed')
    BY <1>1, QueueKept DEF IInv, QueuesSound, QueueFed
  <2>3. QED
    BY <2>1, <2>2 DEF QueuesSound
<1>3. TasksSound'
  BY <1>1, TasksKept DEF IInv, TaskFed
<1>4. BrokerInv'
  <2>1. SUFFICES ASSUME NEW o \in Orders
                 PROVE  /\ status'[o] = "unsent" => executed'[o] = 0
                        /\ pc'[Submit(o)] = "post" => status'[o] = "unsent"
                        /\ pc'[Submit(o)] = "done" => status'[o] # "unsent"
                        /\ cancelling'[o] => status'[o] \in Final
                        /\ released'[o] => status'[o] \in Final
    BY DEF BrokerInv
  <2>2. pc[Submit(o)] \in Holding => status[o] # "unsent"
    BY TaskFacts DEF IInv, TasksSound, Sound
  <2>3. QED
    BY <2>2 DEF IInv, BrokerInv, Advances, OrderKept
<1>5. HiddenOrdersAreOver'
  BY DEF IInv, HiddenOrdersAreOver, Advances, OrderKept
<1>6. QED
  BY <1>2, <1>3, <1>4, <1>5

LEMMA StepKept ==
  ASSUME IInv, TypeOK', Advances,
         QueueFed(wire, wire'), QueueFed(states, states'),
         \A t \in Tasks : pc'[t] \in Holding => TaskFed(t),
         \A o \in Orders : OrderKept(o),
         UNCHANGED <<lastFilled, delta, booked, unbooked, released>>,
         \A t \in Tasks : \/ pc'[t] = pc[t] /\ report'[t] = report[t]
                          \/ pc[t] \notin Booking /\ pc'[t] \notin Booking
  PROVE  IInv'
<1>1. BookInv'
  BY BookKept DEF IInv
<1>2. QueuesSound' /\ TasksSound' /\ BrokerInv' /\ HiddenOrdersAreOver'
  BY ApartFromBooking
<1>3. QED
  BY <1>1, <1>2 DEF IInv

-----------------------------------------------------------------------------
(* Each action keeps the invariant: first the broker and its streams.      *)

LEMMA BrokerExecuteKept ==
  ASSUME IInv, NEW o \in Orders, BrokerExecute(o)
  PROVE  IInv'
<1>1. PICK q \in (executed[o] + 1)..Lots : Publish(o, FillStatus(q), q)
  BY DEF BrokerExecute
<1>2. /\ executed[o] \in 0..Lots /\ q \in 0..Lots /\ q \in executed[o]..Lots
      /\ FillStatus(q) \in Statuses /\ status[o] \notin Final
  BY OrderAssumption, FillStatusType DEF IInv, TypeOK, BrokerExecute, Live, Final
<1>3. /\ Advances
      /\ status' \in [Orders -> Statuses \cup {"unsent"}]
      /\ executed' \in [Orders -> 0..Lots]
      /\ Report(o, FillStatus(q), q) \in Reports
      /\ Sound(Report(o, FillStatus(q), q), status', executed')
      /\ wire' = Append(wire, Report(o, FillStatus(q), q)) /\ wire' \in Seq(Reports)
  BY <1>1, <1>2, PublishAdvances DEF IInv
<1>4. TypeOK'
  BY <1>3 DEF IInv, TypeOK, BrokerExecute, repoVars, dedupVars, taskVars, histVars
<1>5. \A p \in Orders : OrderKept(p)
  BY <1>1, <1>2 DEF OrderKept, BrokerExecute, Publish, IInv, BrokerInv, TypeOK,
                    repoVars, taskVars, Live
<1>6. QED
  BY <1>3, <1>4, <1>5, StepKept
     DEF BrokerExecute, QueueFed, TaskFed, repoVars, dedupVars, taskVars, histVars

LEMMA BrokerCancelKept ==
  ASSUME IInv, NEW o \in Orders, BrokerCancel(o)
  PROVE  IInv'
<1>1. /\ executed[o] \in 0..Lots /\ executed[o] \in executed[o]..Lots
      /\ "CANCELLED" \in Statuses /\ status[o] \notin Final
      /\ Publish(o, "CANCELLED", executed[o])
  BY OrderAssumption DEF IInv, TypeOK, BrokerCancel, Statuses, Live, Final
<1>2. /\ Advances
      /\ status' \in [Orders -> Statuses \cup {"unsent"}]
      /\ executed' \in [Orders -> 0..Lots]
      /\ Report(o, "CANCELLED", executed[o]) \in Reports
      /\ Sound(Report(o, "CANCELLED", executed[o]), status', executed')
      /\ wire' = Append(wire, Report(o, "CANCELLED", executed[o]))
      /\ wire' \in Seq(Reports)
  BY <1>1, PublishAdvances DEF IInv
<1>3. TypeOK'
  BY <1>2 DEF IInv, TypeOK, BrokerCancel, repoVars, dedupVars, taskVars, histVars
<1>4. \A p \in Orders : OrderKept(p)
  BY <1>1 DEF OrderKept, BrokerCancel, Publish, IInv, BrokerInv, TypeOK,
              repoVars, taskVars, Live
<1>5. QED
  BY <1>2, <1>3, <1>4, StepKept
     DEF BrokerCancel, QueueFed, TaskFed, repoVars, dedupVars, taskVars, histVars

\* SetRepo shows an order as over only if the status it is given does.
LEMMA SetRepoFacts ==
  ASSUME TypeOK, NEW o \in Orders, NEW s \in Statuses, SetRepo(o, s)
  PROVE  /\ activeOrders' \in [Orders -> Statuses \cup {"absent"}]
         /\ \A p \in Orders : activeOrders'[p] \in Final =>
              activeOrders[p] \in Final \/ (p = o /\ s \in Final)
BY DEF TypeOK, SetRepo

LEMMA StreamOrderStatesKept ==
  ASSUME IInv, StreamOrderStates
  PROVE  IInv'
<1>1. Advances
  BY StillAdvances DEF IInv, StreamOrderStates
<1>2. /\ wire # <<>> /\ wire' = Tail(wire) /\ wire' \in Seq(Reports)
      /\ Head(wire) \in Reports /\ Sound(Head(wire), status', executed')
  <2>1. wire \in Seq(Reports) /\ wire # <<>>
    BY DEF IInv, TypeOK, StreamOrderStates
  <2>2. Len(wire) \in Nat /\ Len(wire) # 0 /\ Head(wire) = wire[1]
    BY <2>1, EmptySeq, LenProperties, HeadTailProperties
  <2>3. Sound(wire[1], status, executed)
    BY <2>2 DEF IInv, QueuesSound
  <2>4. QED
    BY <2>1, <2>2, <2>3, HeadTailProperties DEF StreamOrderStates
<1>3. states' = states \/ states' = Append(states, Head(wire))
  BY DEF StreamOrderStates
<1>4. /\ Head(wire).order \in Orders /\ Head(wire).status \in Statuses
      /\ SetRepo(Head(wire).order, Head(wire).status)
  BY <1>2, ReportFacts DEF StreamOrderStates
<1>5. /\ activeOrders' \in [Orders -> Statuses \cup {"absent"}]
      /\ \A p \in Orders : activeOrders'[p] \in Final =>
           activeOrders[p] \in Final \/ status'[p] \in Final
  BY <1>2, <1>4, SetRepoFacts DEF IInv, Sound
<1>6. states' \in Seq(Reports)
  <2>1. states \in Seq(Reports)
    BY DEF IInv, TypeOK
  <2>2. Append(states, Head(wire)) \in Seq(Reports)
    BY <1>2, <2>1, AppendProperties
  <2>3. QED
    BY <1>3, <2>1, <2>2
<1>7. TypeOK'
  BY <1>2, <1>5, <1>6 DEF IInv, TypeOK, StreamOrderStates, dedupVars, taskVars, histVars
<1>8. QueueFed(wire, wire') /\ QueueFed(states, states')
  BY <1>2, <1>3 DEF QueueFed
<1>9. \A p \in Orders : OrderKept(p)
  BY <1>5 DEF OrderKept, StreamOrderStates, taskVars
<1>10. QED
  BY <1>1, <1>7, <1>8, <1>9, StepKept
     DEF StreamOrderStates, TaskFed, dedupVars, taskVars, histVars

LEMMA StreamTradesKept ==
  ASSUME IInv, NEW o \in Orders, StreamTrades(o)
  PROVE  IInv'
<1>1. Advances
  BY StillAdvances DEF IInv, StreamTrades
<1>2. TypeOK'
  BY DEF IInv, TypeOK, StreamTrades, repoVars, dedupVars, taskVars, histVars
<1>3. \A p \in Orders : OrderKept(p)
  BY DEF OrderKept, StreamTrades, repoVars, taskVars
<1>4. QED
  BY <1>1, <1>2, <1>3, StepKept
     DEF StreamTrades, QueueFed, TaskFed, repoVars, dedupVars, taskVars, histVars

-----------------------------------------------------------------------------
(* The submitter and the poller.                                           *)

\* The goroutine of one order is the submitter, the poller or neither of another.
LEMMA PostOrderKept ==
  ASSUME IInv, NEW o \in Orders, PostOrder(o)
  PROVE  IInv'
<1>1. PICK q \in 0..Lots, s \in {"fill", "REJECTED"} :
        /\ s = "REJECTED" => q = 0
        /\ LET st == IF s = "fill" THEN FillStatus(q) ELSE s IN
             /\ Publish(o, st, q)
             /\ report' = [report EXCEPT ![Submit(o)] = Report(o, st, q)]
  BY DEF PostOrder
<1> DEFINE st == IF s = "fill" THEN FillStatus(q) ELSE s
           r == Report(o, st, q)
<1>2. /\ Submit(o) \in Tasks /\ pc[Submit(o)] = "post"
      /\ status[o] = "unsent" /\ executed[o] = 0
  BY TaskFacts DEF PostOrder, IInv, BrokerInv
<1>3. q \in 0..Lots /\ q \in executed[o]..Lots /\ st \in Statuses /\ status[o] \notin Final
  BY <1>2, OrderAssumption, FillStatusType DEF Statuses, Final
<1>4. /\ Publish(o, st, q)
      /\ report' = [report EXCEPT ![Submit(o)] = r]
      /\ pc' = [pc EXCEPT ![Submit(o)] = "save"]
  BY <1>1 DEF PostOrder
<1> HIDE DEF st
<1>5. /\ Advances
      /\ status' \in [Orders -> Statuses \cup {"unsent"}]
      /\ executed' \in [Orders -> 0..Lots]
      /\ r \in Reports /\ Sound(r, status', executed') /\ r.order = o
      /\ wire' = Append(wire, r) /\ wire' \in Seq(Reports)
  BY <1>3, <1>4, PublishAdvances, ReportFacts DEF IInv
<1> HIDE DEF r
<1>6. TypeOK'
  BY <1>2, <1>4, <1>5
     DEF IInv, TypeOK, PostOrder, repoVars, dedupVars, histVars, Places, Holding
<1>7. QueueFed(wire, wire') /\ QueueFed(states, states')
  BY <1>5 DEF QueueFed, PostOrder
<1>8. ASSUME NEW t \in Tasks, pc'[t] \in Holding
      PROVE  TaskFed(t)
  <2>1. CASE t = Submit(o)
    BY <1>2, <1>4, <1>5, <2>1, TaskFacts DEF TaskFed, IInv, TypeOK
  <2>2. CASE t # Submit(o)
    BY <1>4, <1>8, <2>2 DEF TaskFed, IInv, TypeOK
  <2>3. QED
    BY <2>1, <2>2
<1>9. \A p \in Orders : OrderKept(p)
  BY <1>2, <1>4, TaskFacts
     DEF OrderKept, Holding, PostOrder, Publish, IInv, TypeOK, repoVars
<1>10. \A t \in Tasks : \/ pc'[t] = pc[t] /\ report'[t] = report[t]
                        \/ pc[t] \notin Booking /\ pc'[t] \notin Booking
  <2>1. pc \in [Tasks -> Places] /\ report \in [Tasks -> Reports \cup {Nil}]
    BY DEF IInv, TypeOK
  <2>2. QED
    BY <1>2, <1>4, <2>1 DEF PostOrder, Booking
<1>11. UNCHANGED <<lastFilled, delta, booked, unbooked, released>>
  BY DEF PostOrder, dedupVars, histVars
<1>12. QED
  BY <1>5, <1>6, <1>7, <1>8, <1>9, <1>10, <1>11, StepKept

LEMMA PostOrderFailsKept ==
  ASSUME IInv, NEW o \in Orders, PostOrderFails(o)
  PROVE  IInv'
<1>1. /\ Submit(o) \in Tasks /\ pc[Submit(o)] = "post"
      /\ status[o] = "unsent" /\ executed[o] = 0
      /\ pc' = [pc EXCEPT ![Submit(o)] = "failed"]
      /\ priced' = priced
  BY TaskFacts DEF PostOrderFails, IInv, BrokerInv, brokerVars
<1>2. \A t \in Tasks : pc'[t] \in Holding => TaskFed(t)
  BY <1>1 DEF TaskFed, PostOrderFails, Holding, IInv, TypeOK
<1>3. CASE UNCHANGED brokerVars
  <2>1. Advances
    BY <1>3, StillAdvances DEF IInv, brokerVars
  <2>2. TypeOK'
    BY <1>1, <1>3
       DEF IInv, TypeOK, PostOrderFails, brokerVars, repoVars, dedupVars, histVars, Places
  <2>3. \A p \in Orders : OrderKept(p)
    BY <1>1, <1>3, TaskFacts
       DEF OrderKept, Holding, PostOrderFails, IInv, TypeOK, brokerVars, repoVars
  <2>4. QED
    BY <1>1, <1>2, <1>3, <2>1, <2>2, <2>3, StepKept
       DEF PostOrderFails, QueueFed, brokerVars, dedupVars, histVars, IInv, TypeOK, Booking
<1>4. CASE \E q \in 0..Lots : Publish(o, FillStatus(q), q)
  <2>1. PICK q \in 0..Lots : Publish(o, FillStatus(q), q)
    BY <1>4
  <2>2. q \in executed[o]..Lots /\ FillStatus(q) \in Statuses /\ status[o] \notin Final
    BY <1>1, OrderAssumption, FillStatusType DEF Final
  <2>3. /\ Advances
        /\ status' \in [Orders -> Statuses \cup {"unsent"}]
        /\ executed' \in [Orders -> 0..Lots]
        /\ Report(o, FillStatus(q), q) \in Reports
        /\ Sound(Report(o, FillStatus(q), q), status', executed')
        /\ wire' = Append(wire, Report(o, FillStatus(q), q)) /\ wire' \in Seq(Reports)
    BY <2>1, <2>2, PublishAdvances DEF IInv
  <2>4. TypeOK'
    BY <1>1, <2>3
       DEF IInv, TypeOK, PostOrderFails, repoVars, dedupVars, histVars, Places
  <2>5. \A p \in Orders : OrderKept(p)
    BY <1>1, <2>1, TaskFacts
       DEF OrderKept, Holding, PostOrderFails, Publish, IInv, TypeOK, repoVars
  <2>6. QueueFed(wire, wire') /\ QueueFed(states, states')
    BY <2>3 DEF QueueFed, PostOrderFails
  <2>7. QED
    BY <1>1, <1>2, <2>3, <2>4, <2>5, <2>6, StepKept
       DEF PostOrderFails, dedupVars, histVars, IInv, TypeOK, Booking
<1>5. QED
  BY <1>3, <1>4 DEF PostOrderFails

\* The actions below change neither the broker's orders nor the queues.
Quiet == UNCHANGED <<brokerVars, states>>

LEMMA QuietKept ==
  ASSUME IInv, TypeOK', Quiet,
         \A t \in Tasks : pc'[t] \in Holding => TaskFed(t),
         \A o \in Orders : OrderKept(o),
         UNCHANGED <<lastFilled, delta, booked, unbooked, released>>,
         \A t \in Tasks : \/ pc'[t] = pc[t] /\ report'[t] = report[t]
                          \/ pc[t] \notin Booking /\ pc'[t] \notin Booking
  PROVE  IInv'
<1>1. Advances
  BY StillAdvances DEF IInv, Quiet, brokerVars
<1>2. QueueFed(wire, wire') /\ QueueFed(states, states')
  BY DEF QueueFed, Quiet, brokerVars
<1>3. QED
  BY <1>1, <1>2, StepKept

LEMMA SaveOrderKept ==
  ASSUME IInv, NEW o \in Orders, SaveOrder(o)
  PROVE  IInv'
<1>1. TypeOK'
  BY TaskFacts DEF IInv, TypeOK, SaveOrder, brokerVars, dedupVars, histVars,
                   Places, Holding, Statuses, Live
<1>2. \A t \in Tasks : pc'[t] \in Holding => TaskFed(t)
  BY TaskFacts DEF TaskFed, SaveOrder, Holding, IInv, TypeOK
<1>3. \A p \in Orders : OrderKept(p)
  BY TaskFacts DEF OrderKept, Holding, SaveOrder, IInv, TypeOK, brokerVars, Final
<1>4. \A t \in Tasks : \/ pc'[t] = pc[t] /\ report'[t] = report[t]
                       \/ pc[t] \notin Booking /\ pc'[t] \notin Booking
  <2>1. pc \in [Tasks -> Places] /\ report \in [Tasks -> Reports \cup {Nil}]
    BY DEF IInv, TypeOK
  <2>2. pc[Submit(o)] \notin Booking /\ pc'[Submit(o)] \notin Booking
    BY TaskFacts, <2>1 DEF SaveOrder, Booking
  <2>3. \A t \in Tasks \ {Submit(o)} : pc'[t] = pc[t] /\ report'[t] = report[t]
    BY TaskFacts, <2>1 DEF SaveOrder
  <2>4. QED
    BY <2>2, <2>3
<1>5. Quiet /\ UNCHANGED <<lastFilled, delta, booked, unbooked, released>>
  BY DEF Quiet, SaveOrder, brokerVars, dedupVars, histVars
<1>6. QED
  BY <1>1, <1>2, <1>3, <1>4, <1>5, QuietKept

LEMMA TakeOwnershipKept ==
  ASSUME IInv, NEW o \in Orders, TakeOwnership(o)
  PROVE  IInv'
<1>1. TypeOK'
  BY TaskFacts DEF IInv, TypeOK, TakeOwnership, brokerVars, repoVars, histVars,
                   Places, Holding
<1>2. \A t \in Tasks : pc'[t] \in Holding => TaskFed(t)
  BY TaskFacts DEF TaskFed, TakeOwnership, Holding, IInv, TypeOK
<1>3. \A p \in Orders : OrderKept(p)
  BY TaskFacts DEF OrderKept, Holding, TakeOwnership, IInv, TypeOK, brokerVars, repoVars
<1>4. QED
  BY <1>1, <1>2, <1>3, QuietKept, TaskFacts
     DEF Quiet, TakeOwnership, histVars, IInv, TypeOK, Booking

LEMMA GetOrderStateKept ==
  ASSUME IInv, NEW o \in Orders, GetOrderState(o)
  PROVE  IInv'
<1> DEFINE r == Report(o, status[o], executed[o])
<1>1. /\ Poll(o) \in Tasks /\ pc[Poll(o)] = "idle"
      /\ report' = [report EXCEPT ![Poll(o)] = r]
      /\ pc' = [pc EXCEPT ![Poll(o)] = "store"]
  BY TaskFacts DEF GetOrderState, CanPoll
<1>2. /\ r \in Reports /\ r.order = o
      /\ Sound(r, status', executed')
  <2>1. status[o] \in Statuses /\ executed[o] \in 0..Lots
    BY DEF GetOrderState, CanPoll, IInv, BrokerInv, TypeOK
  <2>2. QED
    <3>1. r.order = o /\ r.status = status[o] /\ r.qty = executed[o] /\ r \in Reports
      BY <2>1, ReportFacts
    <3>2. status' = status /\ executed' = executed
      BY DEF GetOrderState, brokerVars
    <3>3. status[o] # "unsent" /\ executed[o] <= executed[o]
      BY <2>1, OrderAssumption DEF Statuses, Live, Final
    <3>4. QED
      BY <3>1, <3>2, <3>3 DEF Sound
<1> HIDE DEF r
<1>3. TypeOK'
  <2>1. attempts' \in [Orders -> 0..PollAttempts]
    BY OrderAssumption DEF IInv, TypeOK, GetOrderState, CanPoll
  <2>2. report' \in [Tasks -> Reports \cup {Nil}] /\ pc' \in [Tasks -> Places]
    BY <1>1, <1>2 DEF IInv, TypeOK, Places, Holding
  <2>3. QED
    BY <2>1, <2>2
       DEF IInv, TypeOK, GetOrderState, brokerVars, repoVars, dedupVars, histVars
<1>4. ASSUME NEW t \in Tasks, pc'[t] \in Holding
      PROVE  TaskFed(t)
  <2>1. CASE t = Poll(o)
    BY <1>1, <1>2, <2>1, TaskFacts DEF TaskFed, IInv, TypeOK
  <2>2. CASE t # Poll(o)
    BY <1>1, <1>4, <2>2 DEF TaskFed, IInv, TypeOK
  <2>3. QED
    BY <2>1, <2>2
<1>5. \A p \in Orders : OrderKept(p)
  BY TaskFacts DEF OrderKept, Holding, GetOrderState, IInv, TypeOK, brokerVars, repoVars
<1>6. \A t \in Tasks : \/ pc'[t] = pc[t] /\ report'[t] = report[t]
                       \/ pc[t] \notin Booking /\ pc'[t] \notin Booking
  <2>1. pc \in [Tasks -> Places] /\ report \in [Tasks -> Reports \cup {Nil}]
    BY DEF IInv, TypeOK
  <2>2. pc[Poll(o)] \notin Booking /\ pc'[Poll(o)] \notin Booking
    BY <1>1, <2>1 DEF Booking
  <2>3. \A t \in Tasks \ {Poll(o)} : pc'[t] = pc[t] /\ report'[t] = report[t]
    BY <1>1, <2>1
  <2>4. QED
    BY <2>2, <2>3
<1>7. Quiet /\ UNCHANGED <<lastFilled, delta, booked, unbooked, released>>
  BY DEF Quiet, GetOrderState, dedupVars, histVars
<1>8. QED
  BY <1>3, <1>4, <1>5, <1>6, <1>7, QuietKept

LEMMA GetOrderStateFailsKept ==
  ASSUME IInv, NEW o \in Orders, GetOrderStateFails(o)
  PROVE  IInv'
<1>1. TypeOK'
  <2>1. attempts' \in [Orders -> 0..PollAttempts]
    BY OrderAssumption DEF IInv, TypeOK, GetOrderStateFails, CanPoll
  <2>2. QED
    BY <2>1 DEF IInv, TypeOK, GetOrderStateFails, brokerVars, repoVars, dedupVars, histVars
<1>2. (\A t \in Tasks : pc'[t] \in Holding => TaskFed(t)) /\ (\A p \in Orders : OrderKept(p))
  BY DEF TaskFed, OrderKept, GetOrderStateFails, brokerVars, repoVars
<1>3. QED
  BY <1>1, <1>2, QuietKept DEF Quiet, GetOrderStateFails, dedupVars, histVars

LEMMA StorePolledKept ==
  ASSUME IInv, NEW o \in Orders, StorePolled(o)
  PROVE  IInv'
<1>1. /\ Poll(o) \in Tasks /\ pc[Poll(o)] = "store"
      /\ report[Poll(o)].status \in Statuses /\ report[Poll(o)].order = o
      /\ Sound(report[Poll(o)], status, executed)
  BY TaskFacts, ReportFacts DEF StorePolled, IInv, TasksSound, Holding
<1>2. /\ activeOrders' \in [Orders -> Statuses \cup {"absent"}]
      /\ \A p \in Orders : activeOrders'[p] \in Final =>
           activeOrders[p] \in Final \/ status[p] \in Final
  BY <1>1, SetRepoFacts DEF IInv, Sound, StorePolled
<1>3. TypeOK'
  BY <1>1, <1>2
     DEF IInv, TypeOK, StorePolled, brokerVars, dedupVars, histVars, Places, Holding
<1>4. \A t \in Tasks : pc'[t] \in Holding => TaskFed(t)
  BY <1>1 DEF TaskFed, StorePolled, Holding, IInv, TypeOK
<1>5. \A p \in Orders : OrderKept(p)
  BY <1>2, TaskFacts DEF OrderKept, Holding, StorePolled, IInv, TypeOK, brokerVars
<1>6. QED
  BY <1>1, <1>3, <1>4, <1>5, QuietKept
     DEF Quiet, StorePolled, dedupVars, histVars, IInv, TypeOK, Booking

-----------------------------------------------------------------------------
(* Cancellation.                                                           *)

LEMMA CancelOrderKept ==
  ASSUME IInv, NEW o \in Orders, CancelOrder(o)
  PROVE  IInv'
<1>1. /\ executed[o] \in 0..Lots /\ executed[o] \in executed[o]..Lots
      /\ "CANCELLED" \in Statuses /\ status[o] \notin Final
      /\ Publish(o, "CANCELLED", executed[o])
  BY OrderAssumption DEF IInv, TypeOK, CancelOrder, Statuses, Live, Final
<1>2. /\ Advances
      /\ status' \in [Orders -> Statuses \cup {"unsent"}]
      /\ executed' \in [Orders -> 0..Lots]
      /\ Report(o, "CANCELLED", executed[o]) \in Reports
      /\ Sound(Report(o, "CANCELLED", executed[o]), status', executed')
      /\ status'[o] = "CANCELLED"
      /\ wire' = Append(wire, Report(o, "CANCELLED", executed[o]))
      /\ wire' \in Seq(Reports)
  BY <1>1, PublishAdvances DEF IInv
<1>3. TypeOK'
  BY <1>2 DEF IInv, TypeOK, CancelOrder, dedupVars, taskVars, histVars
<1>4. \A p \in Orders : OrderKept(p)
  BY <1>1, <1>2 DEF OrderKept, CancelOrder, Publish, IInv, BrokerInv, TypeOK,
                    taskVars, Live, Final
<1>5. QED
  BY <1>2, <1>3, <1>4, StepKept
     DEF CancelOrder, QueueFed, TaskFed, dedupVars, taskVars, histVars

LEMMA StoreCancelledKept ==
  ASSUME IInv, NEW o \in Orders, StoreCancelled(o)
  PROVE  IInv'
<1>1. /\ status[o] \in Final
      /\ "CANCELLED" \in Statuses
      /\ SetRepo(o, "CANCELLED")
  BY DEF StoreCancelled, IInv, BrokerInv, Statuses, Final
<1>2. /\ activeOrders' \in [Orders -> Statuses \cup {"absent"}]
      /\ \A p \in Orders : activeOrders'[p] \in Final =>
           activeOrders[p] \in Final \/ status[p] \in Final
  BY <1>1, SetRepoFacts DEF IInv
<1>3. TypeOK'
  BY <1>2 DEF IInv, TypeOK, StoreCancelled, brokerVars, dedupVars, taskVars, histVars
<1>4. \A p \in Orders : OrderKept(p)
  BY <1>2 DEF OrderKept, StoreCancelled, IInv, TypeOK, brokerVars, taskVars
<1>5. QED
  BY <1>3, <1>4, QuietKept
     DEF Quiet, StoreCancelled, TaskFed, dedupVars, taskVars, histVars

-----------------------------------------------------------------------------
(* dispatchExecution.                                                      *)

LEMMA ReceiveStateKept ==
  ASSUME IInv, ReceiveState
  PROVE  IInv'
<1>1. Advances
  BY StillAdvances DEF IInv, ReceiveState, brokerVars
<1>2. /\ states # <<>> /\ states' = Tail(states) /\ states' \in Seq(Reports)
      /\ Head(states) \in Reports /\ Sound(Head(states), status', executed')
  <2>1. states \in Seq(Reports) /\ states # <<>>
    BY DEF IInv, TypeOK, ReceiveState
  <2>2. Len(states) \in Nat /\ Len(states) # 0 /\ Head(states) = states[1]
    BY <2>1, EmptySeq, LenProperties, HeadTailProperties
  <2>3. Sound(states[1], status, executed)
    BY <2>2 DEF IInv, QueuesSound
  <2>4. QED
    BY <2>1, <2>2, <2>3, HeadTailProperties DEF ReceiveState, brokerVars
<1>3. TypeOK'
  BY <1>2, TaskFacts
     DEF IInv, TypeOK, ReceiveState, brokerVars, repoVars, dedupVars, histVars,
         Places, Holding
<1>4. QueueFed(wire, wire') /\ QueueFed(states, states')
  BY <1>2 DEF QueueFed, ReceiveState, brokerVars
<1>5. ASSUME NEW t \in Tasks, pc'[t] \in Holding
      PROVE  TaskFed(t)
  <2>1. CASE t = StreamTask
    BY <1>2, <2>1, TaskFacts DEF TaskFed, ReceiveState, IInv, TypeOK
  <2>2. CASE t # StreamTask
    BY <1>5, <2>2 DEF TaskFed, ReceiveState, IInv, TypeOK
  <2>3. QED
    BY <2>1, <2>2
<1>6. \A p \in Orders : OrderKept(p)
  BY TaskFacts DEF OrderKept, ReceiveState, IInv, TypeOK, brokerVars, repoVars
<1>7. QED
  BY <1>1, <1>3, <1>4, <1>5, <1>6, StepKept
     DEF ReceiveState, dedupVars, histVars, IInv, TypeOK, Booking

LEMMA ReturnFacts ==
  ASSUME TypeOK, NEW t \in Tasks, pc[t] \in Holding, Return(t)
  PROVE  /\ pc' \in [Tasks -> Places]
         /\ report' \in [Tasks -> Reports \cup {Nil}]
         /\ pc'[t] \notin Holding
         /\ \A u \in Tasks \ {t} : pc'[u] = pc[u] /\ report'[u] = report[u]
         /\ \A u \in Tasks : pc'[u] \in Holding => TaskFed(u)
         /\ \A o \in Orders : /\ pc'[Submit(o)] = "post" => pc[Submit(o)] = "post"
                              /\ pc'[Submit(o)] = "done" =>
                                   pc[Submit(o)] \in Holding \cup {"done"}
<1>1. PICK x \in {"done", "idle"} : pc' = [pc EXCEPT ![t] = x]
  BY DEF Return
<1>2. report' = [report EXCEPT ![t] = Nil]
  BY DEF Return
<1>3. QED
  BY <1>1, <1>2, TaskFacts DEF TypeOK, Places, Holding, TaskFed

LEMMA IgnoreUnownedKept ==
  ASSUME IInv, NEW t \in Tasks, IgnoreUnowned(t)
  PROVE  IInv'
<1>1. pc[t] = "lookup" /\ pc[t] \in Holding /\ Return(t)
  BY DEF IgnoreUnowned, Holding
<1> USE <1>1, ReturnFacts
<1>2. TypeOK'
  BY DEF IInv, TypeOK, IgnoreUnowned, brokerVars, repoVars, dedupVars, histVars
<1>3. \A u \in Tasks : pc'[u] \in Holding => TaskFed(u)
  BY DEF IInv
<1>4. \A p \in Orders : OrderKept(p)
  BY DEF OrderKept, IgnoreUnowned, IInv, brokerVars, repoVars
<1>5. \A u \in Tasks : \/ pc'[u] = pc[u] /\ report'[u] = report[u]
                       \/ pc[u] \notin Booking /\ pc'[u] \notin Booking
  BY DEF IInv, Booking, Holding
<1>6. QED
  BY <1>2, <1>3, <1>4, <1>5, QuietKept DEF Quiet, IgnoreUnowned, dedupVars, histVars

LEMMA LookUpOwnerKept ==
  ASSUME IInv, NEW t \in Tasks, LookUpOwner(t)
  PROVE  IInv'
<1>1. TypeOK'
  BY DEF IInv, TypeOK, LookUpOwner, brokerVars, repoVars, dedupVars, histVars,
         Places, Holding
<1>2. \A u \in Tasks : pc'[u] \in Holding => TaskFed(u)
  BY DEF TaskFed, LookUpOwner, Holding, IInv, TypeOK
<1>3. \A p \in Orders : OrderKept(p)
  BY TaskFacts DEF OrderKept, Holding, LookUpOwner, IInv, TypeOK, brokerVars, repoVars
<1>4. QED
  BY <1>1, <1>2, <1>3, QuietKept
     DEF Quiet, LookUpOwner, dedupVars, histVars, IInv, TypeOK, Booking

LEMMA ReadPriceKept ==
  ASSUME IInv, NEW t \in Tasks, ReadPrice(t)
  PROVE  IInv'
<1>1. TypeOK'
  <2>1. report[t].order \in Orders
    BY ReportFacts DEF IInv, TasksSound, ReadPrice, Holding
  <2>2. QED
    BY <2>1 DEF IInv, TypeOK, ReadPrice, brokerVars, repoVars, dedupVars, histVars,
                Places, Holding
<1>2. \A u \in Tasks : pc'[u] \in Holding => TaskFed(u)
  BY DEF TaskFed, ReadPrice, Holding, IInv, TypeOK
<1>3. \A p \in Orders : OrderKept(p)
  BY TaskFacts DEF OrderKept, Holding, ReadPrice, IInv, TypeOK, brokerVars, repoVars
<1>4. QED
  BY <1>1, <1>2, <1>3, QuietKept
     DEF Quiet, ReadPrice, dedupVars, histVars, IInv, TypeOK, Booking

\* What is known of a goroutine that works on a report.
LEMMA HolderFacts ==
  ASSUME IInv, NEW t \in Tasks, pc[t] \in Holding
  PROVE  /\ report[t] \in Reports /\ report[t].order \in Orders
         /\ report[t].qty \in 0..Lots /\ report[t].status \in Statuses
         /\ Sound(report[t], status, executed)
         /\ \A p \in Orders : t = Submit(p) \/ t = Poll(p) => p = report[t].order
BY ReportFacts DEF IInv, TasksSound

LEMMA TakeDeltaKept ==
  ASSUME IInv, NEW t \in Tasks, TakeDelta(t)
  PROVE  IInv'
<1>1. PICK o, d :
      /\ o = report[t].order /\ d = NewLots(report[t].qty, lastFilled[o])
      /\ pc[t] = "delta" /\ pc[t] \in Holding
      /\ delta' = [delta EXCEPT ![t] = d]
      /\ lastFilled' = [lastFilled EXCEPT ![o] = lastFilled[o] + d]
      /\ pc' = [pc EXCEPT ![t] = "book"]
      /\ booked' = booked /\ unbooked' = unbooked /\ released' = released
      /\ report' = report /\ status' = status /\ executed' = executed
  BY DEF TakeDelta, Holding, brokerVars, histVars
<1>2. /\ o \in Orders /\ report[t].qty \in 0..Lots /\ report[t].qty <= executed[o]
      /\ \A p \in Orders : t = Submit(p) \/ t = Poll(p) => p = o
  BY <1>1, HolderFacts DEF Sound
<1>3. /\ lastFilled[o] \in 0..Lots /\ executed[o] \in 0..Lots
      /\ lastFilled[o] <= executed[o] /\ delta[t] = 0
  <2>1. /\ lastFilled[o] \in 0..Lots /\ executed[o] \in 0..Lots
        /\ lastFilled[o] <= executed[o]
    BY <1>2 DEF IInv, TypeOK, BookInv, EachLotTakenOnce
  <2>2. delta[t] \in 0..Lots /\ ~(delta[t] > 0)
    BY <1>1 DEF IInv, TypeOK, BookInv, DeltaHeld
  <2>3. QED
    BY <2>1, <2>2, OrderAssumption
<1>4. /\ d \in 0..Lots
      /\ lastFilled[o] + d \in 0..Lots
      /\ lastFilled[o] + d <= executed[o]
      /\ lastFilled[o] + d >= report[t].qty
      /\ lastFilled[o] + d >= lastFilled[o]
  BY <1>1, <1>2, <1>3, OrderAssumption DEF NewLots
<1>5. TypeOK'
  <2>1. lastFilled' \in [Orders -> 0..Lots]
    BY <1>1, <1>2, <1>4 DEF IInv, TypeOK
  <2>2. delta' \in [Tasks -> 0..Lots]
    BY <1>1, <1>4 DEF IInv, TypeOK
  <2>3. pc' \in [Tasks -> Places]
    BY <1>1 DEF IInv, TypeOK, Places, Holding
  <2>4. QED
    BY <2>1, <2>2, <2>3
       DEF IInv, TypeOK, TakeDelta, brokerVars, repoVars, histVars
<1>6. Advances
  BY <1>1, StillAdvances DEF IInv
<1>7. QueuesSound' /\ TasksSound' /\ BrokerInv' /\ HiddenOrdersAreOver'
  <2>1. \A u \in Tasks : pc'[u] \in Holding => TaskFed(u)
    BY <1>1 DEF TaskFed, IInv, TypeOK
  <2>2. \A p \in Orders : OrderKept(p)
    BY <1>1, TaskFacts DEF OrderKept, Holding, TakeDelta, repoVars, IInv, TypeOK
  <2>3. QED
    BY <1>1, <1>5, <1>6, <2>1, <2>2, ApartFromBooking
       DEF QueueFed, TakeDelta, brokerVars
<1>8. /\ Taken(o)' = Taken(o) + d
      /\ \A p \in Orders \ {o} : Taken(p)' = Taken(p)
      /\ \A p \in Orders : Taken(p) \in Nat
  <2>1. delta \in [Tasks -> 0..Lots]
    BY DEF IInv, TypeOK
  <2>2. /\ InFlight(delta', report, o) = InFlight(delta, report, o) + d - delta[t]
        /\ \A p \in Orders \ {o} : InFlight(delta', report, p) = InFlight(delta, report, p)
    <3>1. d \in 0..Lots /\ delta' = [delta EXCEPT ![t] = d] /\ report[t].order = o
      BY <1>1, <1>4
    <3>2. QED
      BY <1>2, <2>1, <3>1, InFlightChange
  <2>3. \A p \in Orders : /\ InFlight(delta, report, p) \in Nat
                          /\ booked[p] \in Nat /\ unbooked[p] \in Nat
    BY <2>1, InFlightType DEF IInv, TypeOK
  <2>4. QED
    <3>1. d \in Nat
      BY <1>4, OrderAssumption
    <3>2. \A p \in Orders : /\ Taken(p) = booked[p] + unbooked[p] + InFlight(delta, report, p)
                            /\ Taken(p)' = booked[p] + unbooked[p] + InFlight(delta', report, p)
      BY <1>1 DEF Taken
    <3>3. Taken(o)' = Taken(o) + d
      BY <1>2, <1>3, <2>2, <2>3, <3>1, <3>2
    <3>4. \A p \in Orders \ {o} : Taken(p)' = Taken(p)
      BY <2>2, <3>2
    <3>5. \A p \in Orders : Taken(p) \in Nat
      BY <2>3, <3>2
    <3>6. QED
      BY <3>3, <3>4, <3>5
<1>9. EachLotTakenOnce'
  <2>1. SUFFICES ASSUME NEW p \in Orders
                 PROVE  /\ lastFilled'[p] <= executed'[p]
                        /\ ~released'[p] => Taken(p)' = lastFilled'[p]
    BY DEF EachLotTakenOnce
  <2>2. /\ lastFilled[p] <= executed[p]
        /\ ~released[p] => Taken(p) = lastFilled[p]
    BY DEF IInv, BookInv, EachLotTakenOnce
  <2>3. CASE p = o
    BY <1>1, <1>4, <1>8, <2>2, <2>3 DEF IInv, TypeOK
  <2>4. CASE p # o
    BY <1>1, <1>8, <2>2, <2>4 DEF IInv, TypeOK
  <2>5. QED
    BY <2>3, <2>4
<1>10. NothingSkipped'
  <2>1. \A p \in Orders : Taken(p)' \in Int /\ Taken(p)' >= Taken(p) /\ executed[p] \in Int
    <3>1. d \in Nat
      BY <1>4, OrderAssumption
    <3>2. \A p \in Orders : Taken(p)' = Taken(p) \/ Taken(p)' = Taken(p) + d
      BY <1>8
    <3>3. executed \in [Orders -> 0..Lots]
      BY DEF IInv, TypeOK
    <3>4. QED
      BY <1>8, <3>1, <3>2, <3>3
  <2>2. QED
    BY <1>1, <1>8, <2>1 DEF IInv, BookInv, NothingSkipped
<1>11. DeltaHeld'
  BY <1>1 DEF IInv, TypeOK, BookInv, DeltaHeld
<1>12. CursorReached'
  <2>1. SUFFICES ASSUME NEW u \in Tasks, pc'[u] \in {"book", "notify"},
                        ~released'[report'[u].order]
                 PROVE  lastFilled'[report'[u].order] >= report'[u].qty
    BY DEF CursorReached
  <2>2. CASE u = t
    BY <1>1, <1>2, <1>4, <2>2 DEF IInv, TypeOK
  <2>3. CASE u # t
    <3>1. /\ pc[u] \in {"book", "notify"} /\ pc[u] \in Holding
          /\ ~released[report[u].order]
      BY <1>1, <2>1, <2>3 DEF IInv, TypeOK, Holding
    <3>2. report[u].order \in Orders /\ report[u].qty \in 0..Lots
      BY <3>1, HolderFacts
    <3>3. lastFilled[report[u].order] >= report[u].qty
      BY <3>1 DEF IInv, BookInv, CursorReached
    <3>4. /\ lastFilled'[report[u].order] >= lastFilled[report[u].order]
          /\ lastFilled[report[u].order] \in 0..Lots
          /\ lastFilled'[report[u].order] \in 0..Lots
      <4>1. lastFilled \in [Orders -> 0..Lots] /\ lastFilled' \in [Orders -> 0..Lots]
        BY <1>5 DEF IInv, TypeOK
      <4>2. \A p \in Orders : lastFilled'[p] = lastFilled[p] \/ (lastFilled'[p] = lastFilled[o] + d /\ p = o)
        BY <1>1, <1>2, <1>4, <4>1
      <4>3. lastFilled'[report[u].order] >= lastFilled[report[u].order]
        BY <1>4, <3>2, <4>1, <4>2, OrderAssumption
      <4>4. QED
        BY <3>2, <4>1, <4>3
    <3>5. QED
      BY <1>1, <3>2, <3>3, <3>4
  <2>4. QED
    BY <2>2, <2>3
<1>13. QED
  BY <1>5, <1>7, <1>9, <1>10, <1>11, <1>12 DEF IInv, BookInv

LEMMA BookFillKept ==
  ASSUME IInv, NEW t \in Tasks, BookFill(t)
  PROVE  IInv'
<1>1. PICK o :
      /\ o = report[t].order
      /\ pc[t] = "book" /\ pc[t] \in Holding
      /\ delta' = [delta EXCEPT ![t] = 0]
      /\ pc' = [pc EXCEPT ![t] = "notify"]
      /\ lastFilled' = lastFilled /\ released' = released
      /\ report' = report /\ status' = status /\ executed' = executed
      /\ \/ /\ booked' = [booked EXCEPT ![o] = booked[o] + delta[t]]
            /\ unbooked' = unbooked
         \/ /\ unbooked' = [unbooked EXCEPT ![o] = unbooked[o] + delta[t]]
            /\ booked' = booked
  BY DEF BookFill, Holding, brokerVars, dedupVars
<1>2. /\ o \in Orders
      /\ \A p \in Orders : t = Submit(p) \/ t = Poll(p) => p = o
  BY <1>1, HolderFacts
<1>3. /\ delta \in [Tasks -> 0..Lots] /\ delta[t] \in Nat /\ 0 \in 0..Lots
      /\ booked \in [Orders -> Nat] /\ unbooked \in [Orders -> Nat]
  BY OrderAssumption DEF IInv, TypeOK
<1>4. TypeOK'
  <2>1. booked' \in [Orders -> Nat] /\ unbooked' \in [Orders -> Nat]
    BY <1>1, <1>2, <1>3
  <2>2. delta' \in [Tasks -> 0..Lots] /\ pc' \in [Tasks -> Places]
    BY <1>1, <1>3 DEF IInv, TypeOK, Places, Holding
  <2>3. QED
    BY <2>1, <2>2 DEF IInv, TypeOK, BookFill, brokerVars, repoVars, dedupVars
<1>5. Advances
  BY <1>1, StillAdvances DEF IInv
<1>6. QueuesSound' /\ TasksSound' /\ BrokerInv' /\ HiddenOrdersAreOver'
  <2>1. \A u \in Tasks : pc'[u] \in Holding => TaskFed(u)
    BY <1>1 DEF TaskFed, IInv, TypeOK
  <2>2. \A p \in Orders : OrderKept(p)
    BY <1>1, TaskFacts DEF OrderKept, Holding, BookFill, repoVars, IInv, TypeOK
  <2>3. QED
    BY <1>1, <1>4, <1>5, <2>1, <2>2, ApartFromBooking
       DEF QueueFed, BookFill, brokerVars
<1>7. \A p \in Orders : Taken(p)' = Taken(p)
  <2>1. /\ InFlight(delta', report, o) = InFlight(delta, report, o) + 0 - delta[t]
        /\ \A p \in Orders \ {o} : InFlight(delta', report, p) = InFlight(delta, report, p)
    <3>1. delta \in [Tasks -> 0..Lots] /\ 0 \in 0..Lots
      BY <1>3
    <3>2. delta' = [delta EXCEPT ![t] = 0] /\ report[t].order = o
      BY <1>1
    <3>3. QED
      BY <1>2, <3>1, <3>2, InFlightChange
  <2>2. \A p \in Orders : InFlight(delta, report, p) \in Nat
    BY <1>3, InFlightType
  <2>3. \A p \in Orders : /\ Taken(p) = booked[p] + unbooked[p] + InFlight(delta, report, p)
                          /\ Taken(p)' = booked'[p] + unbooked'[p] + InFlight(delta', report, p)
    BY <1>1 DEF Taken
  <2>4. /\ booked'[o] + unbooked'[o] = booked[o] + unbooked[o] + delta[t]
        /\ \A p \in Orders \ {o} : booked'[p] = booked[p] /\ unbooked'[p] = unbooked[p]
        /\ \A p \in Orders : booked[p] + unbooked[p] \in Nat
    <3>1. CASE booked' = [booked EXCEPT ![o] = booked[o] + delta[t]] /\ unbooked' = unbooked
      BY <1>2, <1>3, <3>1
    <3>2. CASE unbooked' = [unbooked EXCEPT ![o] = unbooked[o] + delta[t]] /\ booked' = booked
      BY <1>2, <1>3, <3>2
    <3>3. QED
      BY <1>1, <3>1, <3>2
  <2>5. Taken(o)' = Taken(o) /\ \A p \in Orders \ {o} : Taken(p)' = Taken(p)
    BY <1>2, <1>3, <2>1, <2>2, <2>3, <2>4
  <2>6. QED
    BY <2>5
<1>8. BookInv'
  <2>1. EachLotTakenOnce' /\ NothingSkipped'
    BY <1>1, <1>7 DEF IInv, BookInv, EachLotTakenOnce, NothingSkipped
  <2>2. DeltaHeld'
    BY <1>1, <1>3 DEF IInv, TypeOK, BookInv, DeltaHeld
  <2>3. CursorReached'
    BY <1>1 DEF IInv, TypeOK, BookInv, CursorReached
  <2>4. QED
    BY <2>1, <2>2, <2>3 DEF BookInv
<1>9. QED
  BY <1>4, <1>6, <1>8 DEF IInv

LEMMA FinishDispatchKept ==
  ASSUME IInv, NEW t \in Tasks, FinishDispatch(t)
  PROVE  IInv'
<1>1. pc[t] = "notify" /\ pc[t] \in Holding /\ Return(t)
  BY DEF FinishDispatch, Holding
<1>2. /\ pc' \in [Tasks -> Places]
      /\ report' \in [Tasks -> Reports \cup {Nil}]
      /\ pc'[t] \notin Holding
      /\ \A u \in Tasks \ {t} : pc'[u] = pc[u] /\ report'[u] = report[u]
      /\ \A u \in Tasks : pc'[u] \in Holding => TaskFed(u)
      /\ \A p \in Orders : /\ pc'[Submit(p)] = "post" => pc[Submit(p)] = "post"
                           /\ pc'[Submit(p)] = "done" =>
                                pc[Submit(p)] \in Holding \cup {"done"}
  BY <1>1, ReturnFacts DEF IInv
<1>3. PICK o : o = report[t].order
  OBVIOUS
<1>4. /\ o \in Orders /\ report[t].qty \in 0..Lots /\ Sound(report[t], status, executed)
      /\ report[t].status \in Statuses
  BY <1>1, <1>3, HolderFacts
<1>5. /\ status' = status /\ executed' = executed /\ delta' = delta
      /\ booked' = booked /\ unbooked' = unbooked
  BY DEF FinishDispatch, brokerVars
<1>6. \/ lastFilled' = lastFilled /\ released' = released /\ orderOwners' = orderOwners
      \/ /\ report[t].status \in Final
         /\ lastFilled' = [lastFilled EXCEPT ![o] = 0]
         /\ released' = [released EXCEPT ![o] = TRUE]
         /\ orderOwners' = orderOwners \ {o}
  BY <1>3 DEF FinishDispatch, ForgetsOrder, IsTerminal, dedupVars
<1>7. TypeOK'
  <2>1. lastFilled' \in [Orders -> 0..Lots] /\ released' \in [Orders -> BOOLEAN]
    <3>1. /\ lastFilled \in [Orders -> 0..Lots] /\ released \in [Orders -> BOOLEAN]
          /\ 0 \in 0..Lots
      BY OrderAssumption DEF IInv, TypeOK
    <3>2. lastFilled' \in [Orders -> 0..Lots]
      BY <1>4, <1>6, <3>1
    <3>3. released' \in [Orders -> BOOLEAN]
      BY <1>4, <1>6, <3>1
    <3>4. QED
      BY <3>2, <3>3
  <2>2. orderOwners' \subseteq Orders
    BY <1>6 DEF IInv, TypeOK
  <2>3. QED
    BY <1>2, <2>1, <2>2 DEF IInv, TypeOK, FinishDispatch, brokerVars, repoVars
<1>8. Advances
  BY <1>5, StillAdvances DEF IInv
<1>9. QueuesSound' /\ TasksSound' /\ BrokerInv' /\ HiddenOrdersAreOver'
  <2>1. \A p \in Orders : OrderKept(p)
    BY <1>2, <1>5 DEF OrderKept, FinishDispatch, repoVars
  <2>2. \A p \in Orders : released'[p] => released[p] \/ status[p] \in Final
    BY <1>3, <1>4, <1>6 DEF IInv, TypeOK, Sound
  <2>3. QED
    BY <1>2, <1>7, <1>8, <2>1, <2>2, ApartFromBooking
       DEF QueueFed, FinishDispatch, brokerVars
<1>10. \A p \in Orders : Taken(p)' = Taken(p)
  <2>1. delta \in [Tasks -> 0..Lots]
    BY DEF IInv, TypeOK
  <2>2. \A u \in Tasks : delta[u] > 0 => report'[u] = report[u]
    BY <1>1, <1>2 DEF IInv, BookInv, DeltaHeld
  <2>3. \A p \in Orders : InFlight(delta, report', p) = InFlight(delta, report, p)
    BY <2>1, <2>2, InFlightSame
  <2>4. QED
    BY <1>5, <2>3 DEF Taken
<1>11. DeltaHeld'
  BY <1>1, <1>2, <1>5 DEF IInv, BookInv, DeltaHeld
<1>12. CursorReached'
  <2>1. SUFFICES ASSUME NEW u \in Tasks, pc'[u] \in {"book", "notify"},
                        ~released'[report'[u].order]
                 PROVE  lastFilled'[report'[u].order] >= report'[u].qty
    BY DEF CursorReached
  <2>2. u # t /\ pc[u] \in {"book", "notify"} /\ report'[u] = report[u]
    BY <1>2, <2>1 DEF Holding
  <2>3. report[u].order \in Orders
    BY <2>2, HolderFacts DEF Holding
  <2>4. /\ ~released[report[u].order]
        /\ lastFilled'[report[u].order] = lastFilled[report[u].order]
    BY <1>6, <2>1, <2>2, <2>3 DEF IInv, TypeOK
  <2>5. QED
    BY <2>2, <2>4 DEF IInv, BookInv, CursorReached
<1>13. EachLotTakenOnce'
  <2>1. SUFFICES ASSUME NEW p \in Orders
                 PROVE  /\ lastFilled'[p] <= executed'[p]
                        /\ ~released'[p] => Taken(p)' = lastFilled'[p]
    BY DEF EachLotTakenOnce
  <2>2. /\ lastFilled[p] <= executed[p] /\ executed[p] \in 0..Lots
        /\ ~released[p] => Taken(p) = lastFilled[p]
    BY DEF IInv, TypeOK, BookInv, EachLotTakenOnce
  <2>3. \/ lastFilled'[p] = lastFilled[p] /\ (released[p] => released'[p])
        \/ lastFilled'[p] = 0 /\ released'[p]
    BY <1>6 DEF IInv, TypeOK
  <2>4. QED
    BY <1>5, <1>10, <2>2, <2>3, OrderAssumption
<1>14. NothingSkipped'
  <2>1. SUFFICES ASSUME NEW p \in Orders, released'[p]
                 PROVE  Taken(p)' >= executed'[p]
    BY DEF NothingSkipped
  <2>2. CASE released[p]
    BY <1>5, <1>10, <2>2 DEF IInv, BookInv, NothingSkipped
  <2>3. CASE ~released[p]
    <3>1. p = o /\ report[t].status \in Final
      BY <1>6, <2>1, <2>3 DEF IInv, TypeOK
    <3>2. report[t].qty = executed[p] /\ Taken(p) = lastFilled[p]
      BY <1>3, <1>4, <2>3, <3>1 DEF Sound, IInv, BookInv, EachLotTakenOnce
    <3>3. lastFilled[p] >= report[t].qty
      BY <1>1, <1>3, <2>3, <3>1 DEF IInv, BookInv, CursorReached
    <3>4. QED
      BY <1>5, <1>10, <3>2, <3>3
  <2>4. QED
    BY <2>2, <2>3
<1>15. QED
  BY <1>7, <1>9, <1>11, <1>12, <1>13, <1>14 DEF IInv, BookInv

-----------------------------------------------------------------------------
(* The invariant of the specification.                                     *)

LEMMA InitIInv == Init => IInv
<1>1. SUFFICES ASSUME Init PROVE IInv
  OBVIOUS
<1>2. \A o \in Orders : Submit(o) \in Tasks /\ Poll(o) \in Tasks
  BY TaskFacts
<1>3. TypeOK
  <2>1. <<>> \in Seq(Reports)
    BY EmptySeq
  <2>2. pc \in [Tasks -> Places]
    BY <1>1 DEF Init, Places, Holding
  <2>3. QED
    BY <1>1, <2>1, <2>2, OrderAssumption DEF Init, TypeOK
<1>4. QueuesSound
  <2>1. wire = <<>> /\ states = <<>> /\ Len(<<>>) = 0
    BY <1>1, EmptySeq DEF Init
  <2>2. QED
    BY <2>1 DEF QueuesSound
<1>5. \A t \in Tasks : pc[t] \notin Holding /\ pc[t] # "done"
  BY <1>1 DEF Init, Holding
<1>6. TasksSound
  BY <1>2, <1>5 DEF TasksSound
<1>7. BookInv
  <2>1. DeltaHeld
    BY <1>1 DEF Init, DeltaHeld
  <2>2. CursorReached
    BY <1>5 DEF CursorReached, Holding
  <2>3. \A o \in Orders : Taken(o) = 0
    <3>1. \A t \in Tasks, o \in Orders : Share(delta[t], report[t], o) = 0
      BY <1>1 DEF Init, Share
    <3>2. SUFFICES ASSUME NEW o \in Orders PROVE Taken(o) = 0
      OBVIOUS
    <3>3. /\ Share(delta[StreamTask], report[StreamTask], o) = 0
          /\ Share(delta[Submit(o)], report[Submit(o)], o) = 0
          /\ Share(delta[Poll(o)], report[Poll(o)], o) = 0
      BY <3>1, TaskFacts
    <3>4. InFlight(delta, report, o) = 0
      BY <3>3 DEF InFlight
    <3>5. booked[o] = 0 /\ unbooked[o] = 0
      BY <1>1 DEF Init
    <3>6. QED
      BY <3>4, <3>5 DEF Taken
  <2>4. QED
    BY <1>1, <2>1, <2>2, <2>3 DEF Init, BookInv, EachLotTakenOnce, NothingSkipped
<1>8. BrokerInv /\ HiddenOrdersAreOver
  BY <1>1, <1>2, <1>5 DEF Init, BrokerInv, HiddenOrdersAreOver, Final
<1>9. QED
  BY <1>3, <1>4, <1>6, <1>7, <1>8 DEF IInv

LEMMA StutterKept ==
  ASSUME IInv, UNCHANGED vars
  PROVE  IInv'
<1>1. /\ status' = status /\ executed' = executed /\ wire' = wire /\ states' = states
      /\ activeOrders' = activeOrders /\ cancelling' = cancelling
      /\ pc' = pc /\ report' = report
      /\ UNCHANGED <<lastFilled, delta, booked, unbooked, released>>
  BY DEF vars, brokerVars, repoVars, dedupVars, taskVars, histVars
<1>2. TypeOK'
  BY DEF IInv, TypeOK, vars, brokerVars, repoVars, dedupVars, taskVars, histVars
<1>3. Advances
  BY <1>1, StillAdvances DEF IInv
<1>4. QED
  BY <1>1, <1>2, <1>3, StepKept DEF QueueFed, TaskFed, OrderKept

LEMMA NextIInv == IInv /\ [Next]_vars => IInv'
<1>1. SUFFICES ASSUME IInv, [Next]_vars
               PROVE  IInv'
  OBVIOUS
<1>2. CASE \E o \in Orders : Broker(o) \/ StreamTrades(o)
  BY <1>1, <1>2, BrokerExecuteKept, BrokerCancelKept, StreamTradesKept DEF Broker
<1>3. CASE \E o \in Orders : Post(o) \/ Submitter(o)
  BY <1>1, <1>3, PostOrderKept, PostOrderFailsKept, SaveOrderKept, TakeOwnershipKept
     DEF Post, Submitter
<1>4. CASE \E o \in Orders : Poller(o)
  BY <1>1, <1>4, GetOrderStateKept, GetOrderStateFailsKept, StorePolledKept DEF Poller
<1>5. CASE \E o \in Orders : CancelOrder(o) \/ StoreCancelled(o)
  BY <1>1, <1>5, CancelOrderKept, StoreCancelledKept
<1>6. CASE StreamOrderStates \/ ReceiveState
  BY <1>1, <1>6, StreamOrderStatesKept, ReceiveStateKept
<1>7. CASE \E t \in Tasks : Dispatch(t)
  BY <1>1, <1>7, IgnoreUnownedKept, LookUpOwnerKept, ReadPriceKept, TakeDeltaKept,
     BookFillKept, FinishDispatchKept DEF Dispatch
<1>8. CASE UNCHANGED vars
  BY <1>1, <1>8, StutterKept
<1>9. QED
  BY <1>1, <1>2, <1>3, <1>4, <1>5, <1>6, <1>7, <1>8 DEF Next

\* The inductive invariant holds in every reachable state.
THEOREM Invariant == Spec => []IInv
BY InitIInv, NextIInv, PTL DEF Spec

\* The types of the model, for any number of orders and lots.
THEOREM TypeCorrect == Spec => []TypeOK
<1>1. IInv => TypeOK
  BY DEF IInv
<1>2. QED
  BY <1>1, Invariant, PTL

\* However stream, submitter and poller interleave in dispatchExecution, each
\* executed lot is taken at most once until the order is forgotten.
THEOREM LotsTakenOnce == Spec => []EachLotTakenOnce
<1>1. IInv => EachLotTakenOnce
  BY DEF IInv, BookInv
<1>2. QED
  BY <1>1, Invariant, PTL

\* dispatchExecution forgets an order only after every executed lot was taken.
THEOREM NoLotSkipped == Spec => []NothingSkipped
<1>1. IInv => NothingSkipped
  BY DEF IInv, BookInv
<1>2. QED
  BY <1>1, Invariant, PTL

\* GetActiveOrders never hides an order that is still live at the broker.
THEOREM HiddenOver == Spec => []HiddenOrdersAreOver
<1>1. IInv => HiddenOrdersAreOver
  BY DEF IInv
<1>2. QED
  BY <1>1, Invariant, PTL

\* Only FinishDispatch takes an order out of orderOwners, after a sound terminal
\* report.
THEOREM OnlyFinalForgotten == Spec => ForgetsOnlyFinal
<1>1. IInv /\ [Next]_vars =>
        [\A o \in orderOwners \ orderOwners' : status[o] \in Final]_vars
  <2>1. SUFFICES ASSUME IInv, Next, NEW o \in orderOwners, o \notin orderOwners'
                 PROVE  status[o] \in Final
    OBVIOUS
  <2>2. PICK t \in Tasks : FinishDispatch(t)
    BY <2>1 DEF Next, Broker, BrokerExecute, BrokerCancel, Post, PostOrder,
       PostOrderFails, Submitter, SaveOrder, TakeOwnership, Poller, GetOrderState,
       GetOrderStateFails, StorePolled, StreamTrades, CancelOrder, StoreCancelled,
       StreamOrderStates, ReceiveState, Dispatch, IgnoreUnowned, LookUpOwner,
       ReadPrice, TakeDelta, BookFill, dedupVars
  <2>3. pc[t] \in Holding /\ o = report[t].order /\ report[t].status \in Final
    BY <2>1, <2>2 DEF FinishDispatch, ForgetsOrder, IsTerminal, Holding, dedupVars
  <2>4. QED
    BY <2>1, <2>3, HolderFacts DEF Sound
<1>2. QED
  BY <1>1, Invariant, PTL DEF Spec, ForgetsOnlyFinal

-----------------------------------------------------------------------------
(* The mapped variables, and what the invariant says of them.              *)

Phase(o) == IF released[o] THEN "forgotten"
            ELSE IF status[o] \in Final THEN "over" ELSE "live"
Claimed(o) == IF released[o] THEN executed[o] ELSE lastFilled[o]

\* Until an order is forgotten nothing is capped: what was given to the ledger
\* is at most what was claimed, which is at most what was executed.
LEMMA MappedFacts ==
  ASSUME IInv, NEW o \in Orders
  PROVE  /\ executed[o] \in 0..Lots /\ lastFilled[o] \in 0..Lots
         /\ booked[o] \in Nat /\ unbooked[o] \in Nat
         /\ released[o] => status[o] \in Final
         /\ lastFilled[o] <= executed[o]
         /\ ~released[o] => booked[o] + unbooked[o] <= lastFilled[o]
         /\ Claimed(o) \in 0..Lots /\ Claimed(o) <= executed[o]
         /\ Settled(o) \in Nat /\ Settled(o) <= Claimed(o)
         /\ ~released[o] => Settled(o) = booked[o] + unbooked[o]
<1>1. /\ executed[o] \in 0..Lots /\ lastFilled[o] \in 0..Lots
      /\ booked[o] \in Nat /\ unbooked[o] \in Nat
      /\ released[o] => status[o] \in Final
      /\ lastFilled[o] <= executed[o]
  BY DEF IInv, TypeOK, BrokerInv, BookInv, EachLotTakenOnce
<1>2. ~released[o] => booked[o] + unbooked[o] <= lastFilled[o]
  <2>1. InFlight(delta, report, o) \in Nat
    BY InFlightType DEF IInv, TypeOK
  <2>2. ~released[o] => booked[o] + unbooked[o] + InFlight(delta, report, o) = lastFilled[o]
    BY DEF IInv, BookInv, EachLotTakenOnce, Taken
  <2>3. QED
    BY <1>1, <2>1, <2>2, OrderAssumption
<1>3. QED
  BY <1>1, <1>2, OrderAssumption DEF Claimed, Settled

LEMMA PromiseStutters ==
  ASSUME executed' = executed,
         \A o \in Orders : /\ Phase(o)' = Phase(o)
                           /\ Claimed(o)' = Claimed(o)
                           /\ Settled(o)' = Settled(o)
  PROVE  UNCHANGED Promise!vars
<1>1. /\ [o \in Orders |-> Phase(o)]' = [o \in Orders |-> Phase(o)]
      /\ [o \in Orders |-> Claimed(o)]' = [o \in Orders |-> Claimed(o)]
      /\ [o \in Orders |-> Settled(o)]' = [o \in Orders |-> Settled(o)]
  OBVIOUS
<1>2. QED
  BY <1>1 DEF Promise!vars, Phase, Claimed

-----------------------------------------------------------------------------
(* The shapes a step can have for the promise.                             *)

\* The broker moves a live order: Execute.
LEMMA PublishImplements ==
  ASSUME IInv, NEW o \in Orders, NEW s \in Statuses, NEW q \in executed[o]..Lots,
         status[o] \notin Final, Publish(o, s, q),
         UNCHANGED <<lastFilled, booked, unbooked, released>>
  PROVE  Promise!Next
<1>1. /\ status' = [status EXCEPT ![o] = s] /\ executed' = [executed EXCEPT ![o] = q]
      /\ status \in [Orders -> Statuses \cup {"unsent"}] /\ executed \in [Orders -> 0..Lots]
      /\ ~released[o]
  BY MappedFacts DEF Publish, IInv, TypeOK
<1>2. q \in 0..Lots /\ executed[o] <= q
  BY <1>1, OrderAssumption
<1>3. Phase(o) = "live" /\ Phase(o)' \in {"live", "over"}
  BY <1>1 DEF Phase
<1>4. \A p \in Orders \ {o} : Phase(p)' = Phase(p)
  BY <1>1 DEF Phase
<1>5. \A p \in Orders : Claimed(p)' = Claimed(p) /\ Settled(p)' = Settled(p)
  <2>1. SUFFICES ASSUME NEW p \in Orders
                 PROVE  Claimed(p)' = Claimed(p) /\ Settled(p)' = Settled(p)
    OBVIOUS
  <2>2. CASE p = o
    <3>1. booked[o] + unbooked[o] <= executed[o] /\ booked[o] + unbooked[o] \in Int
          /\ executed[o] \in Int
      BY <1>1, MappedFacts, OrderAssumption
    <3>2. Settled(o) = booked[o] + unbooked[o] /\ Settled(o)' = booked[o] + unbooked[o]
      BY <1>1, <1>2, <3>1, OrderAssumption DEF Settled
    <3>3. QED
      BY <1>1, <2>2, <3>2 DEF Claimed
  <2>3. CASE p # o
    BY <1>1, <2>3 DEF Claimed, Settled
  <2>4. QED
    BY <2>2, <2>3
<1>6. /\ [p \in Orders |-> Claimed(p)]' = [p \in Orders |-> Claimed(p)]
      /\ [p \in Orders |-> Settled(p)]' = [p \in Orders |-> Settled(p)]
  BY <1>5
<1>7. /\ [p \in Orders |-> Phase(p)][o] = "live"
      /\ [p \in Orders |-> Phase(p)]' = [[p \in Orders |-> Phase(p)] EXCEPT ![o] = Phase(o)']
  BY <1>3, <1>4
<1>8. Promise!Execute(o)
  <2>1. q \in executed[o] .. Lots
    OBVIOUS
  <2>2. QED
    BY <1>1, <1>3, <1>6, <1>7, <2>1 DEF Promise!Execute, Phase, Claimed
<1>9. QED
  BY <1>8 DEF Promise!Next

\* A report's new lots move the cursor of an order not yet forgotten: Claim.
LEMMA ClaimImplements ==
  ASSUME IInv, NEW o \in Orders, ~released[o],
         NEW n \in lastFilled[o] + 1 .. executed[o],
         lastFilled' = [lastFilled EXCEPT ![o] = n],
         UNCHANGED <<status, executed, booked, unbooked, released>>
  PROVE  Promise!Next
<1>1. lastFilled \in [Orders -> 0..Lots]
  BY DEF IInv, TypeOK
<1>2. Phase(o) = IF status[o] \in Final THEN "over" ELSE "live"
  BY DEF Phase
<1>3. \A p \in Orders : Phase(p)' = Phase(p) /\ Settled(p)' = Settled(p)
  BY DEF Phase, Settled
<1>4. /\ [p \in Orders |-> Phase(p)]' = [p \in Orders |-> Phase(p)]
      /\ [p \in Orders |-> Settled(p)]' = [p \in Orders |-> Settled(p)]
  BY <1>3
<1>5. Claimed(o) = lastFilled[o] /\ Claimed(o)' = n
      /\ \A p \in Orders \ {o} : Claimed(p)' = Claimed(p)
  BY <1>1 DEF Claimed
<1>6. /\ [p \in Orders |-> Claimed(p)][o] = lastFilled[o]
      /\ [p \in Orders |-> Claimed(p)]' = [[p \in Orders |-> Claimed(p)] EXCEPT ![o] = n]
  BY <1>5
<1>7. [p \in Orders |-> Phase(p)][o] # "forgotten"
  BY <1>2
<1>8. Promise!Claim(o)
  BY <1>4, <1>6, <1>7 DEF Promise!Claim, Phase, Claimed
<1>9. QED
  BY <1>8 DEF Promise!Next

\* Lots given to the ledger or dropped: Settle, up to what was executed.
LEMMA SettleImplements ==
  ASSUME IInv, NEW o \in Orders, NEW n \in Nat, n > Settled(o), n <= Claimed(o),
         Settled(o)' = n,
         \A p \in Orders \ {o} : Settled(p)' = Settled(p),
         UNCHANGED <<status, executed, lastFilled, released>>
  PROVE  Promise!Next
<1>1. \A p \in Orders : Phase(p)' = Phase(p) /\ Claimed(p)' = Claimed(p)
  BY DEF Phase, Claimed
<1>2. /\ [p \in Orders |-> Phase(p)]' = [p \in Orders |-> Phase(p)]
      /\ [p \in Orders |-> Claimed(p)]' = [p \in Orders |-> Claimed(p)]
  BY <1>1
<1>3. [p \in Orders |-> Settled(p)]' = [[p \in Orders |-> Settled(p)] EXCEPT ![o] = n]
  OBVIOUS
<1>4. n \in Settled(o) + 1 .. Claimed(o)
  BY MappedFacts, OrderAssumption
<1>5. n \in [p \in Orders |-> Settled(p)][o] + 1 .. [p \in Orders |-> Claimed(p)][o]
  BY <1>4
<1>6. Promise!Settle(o)
  BY <1>2, <1>3, <1>5 DEF Promise!Settle, Phase, Claimed
<1>7. QED
  BY <1>6 DEF Promise!Next

\* An order is forgotten when it is over and fully claimed: Forget.
LEMMA ForgetImplements ==
  ASSUME IInv, NEW o \in Orders, ~released[o], status[o] \in Final,
         lastFilled[o] = executed[o],
         released' = [released EXCEPT ![o] = TRUE],
         \A p \in Orders \ {o} : lastFilled'[p] = lastFilled[p],
         UNCHANGED <<status, executed, booked, unbooked>>
  PROVE  Promise!Next
<1>1. released \in [Orders -> BOOLEAN] /\ released'[o]
      /\ \A p \in Orders \ {o} : released'[p] = released[p]
  BY DEF IInv, TypeOK
<1>2. \A p \in Orders : Claimed(p)' = Claimed(p) /\ Settled(p)' = Settled(p)
  BY <1>1 DEF Claimed, Settled
<1>3. /\ [p \in Orders |-> Claimed(p)]' = [p \in Orders |-> Claimed(p)]
      /\ [p \in Orders |-> Settled(p)]' = [p \in Orders |-> Settled(p)]
  BY <1>2
<1>4. Phase(o) = "over" /\ Phase(o)' = "forgotten"
      /\ \A p \in Orders \ {o} : Phase(p)' = Phase(p)
  BY <1>1 DEF Phase
<1>5. /\ [p \in Orders |-> Phase(p)][o] = "over"
      /\ [p \in Orders |-> Phase(p)]' = [[p \in Orders |-> Phase(p)] EXCEPT ![o] = "forgotten"]
  BY <1>4
<1>6. [p \in Orders |-> Claimed(p)][o] = executed[o]
  BY DEF Claimed
<1>7. Promise!Forget(o)
  BY <1>3, <1>5, <1>6 DEF Promise!Forget, Phase, Claimed
<1>8. QED
  BY <1>7 DEF Promise!Next

-----------------------------------------------------------------------------
(* Each action: a step of the promise, or none.                            *)

LEMMA QuietImplements ==
  ASSUME UNCHANGED <<status, executed, lastFilled, booked, unbooked, released>>
  PROVE  UNCHANGED Promise!vars
BY PromiseStutters DEF Phase, Claimed, Settled

LEMMA BrokerImplements ==
  ASSUME IInv, NEW o \in Orders, Broker(o) \/ CancelOrder(o)
  PROVE  Promise!Next
<1>1. executed[o] \in 0..Lots
  BY DEF IInv, TypeOK
<1>2. UNCHANGED <<lastFilled, booked, unbooked, released>>
  BY DEF Broker, BrokerExecute, BrokerCancel, CancelOrder, dedupVars, histVars
<1>3. status[o] \notin Final
  BY DEF Broker, BrokerExecute, BrokerCancel, CancelOrder, Live, Final
<1>4. CASE BrokerExecute(o)
  <2>1. PICK q \in (executed[o] + 1)..Lots : Publish(o, FillStatus(q), q)
    BY <1>4 DEF BrokerExecute
  <2>2. q \in executed[o]..Lots /\ FillStatus(q) \in Statuses
    BY <1>1, OrderAssumption, FillStatusType
  <2>3. QED
    BY <1>2, <1>3, <2>1, <2>2, PublishImplements
<1>5. CASE BrokerCancel(o) \/ CancelOrder(o)
  <2>1. Publish(o, "CANCELLED", executed[o])
    BY <1>5 DEF BrokerCancel, CancelOrder
  <2>2. executed[o] \in executed[o]..Lots /\ "CANCELLED" \in Statuses
    BY <1>1, OrderAssumption DEF Statuses, Final
  <2>3. QED
    BY <1>2, <1>3, <2>1, <2>2, PublishImplements
<1>6. QED
  BY <1>4, <1>5 DEF Broker

LEMMA PostImplements ==
  ASSUME IInv, NEW o \in Orders, Post(o)
  PROVE  [Promise!Next]_(Promise!vars)
<1>1. /\ executed[o] = 0 /\ status[o] \notin Final
      /\ UNCHANGED <<lastFilled, booked, unbooked, released>>
  BY DEF Post, PostOrder, PostOrderFails, IInv, BrokerInv, Final, dedupVars, histVars
<1>2. \A q \in 0..Lots : q \in executed[o]..Lots /\ FillStatus(q) \in Statuses
  BY <1>1, FillStatusType
<1>3. CASE PostOrder(o)
  <2>1. PICK q \in 0..Lots, s \in {"fill", "REJECTED"} :
          Publish(o, IF s = "fill" THEN FillStatus(q) ELSE s, q)
    BY <1>3 DEF PostOrder
  <2>2. (IF s = "fill" THEN FillStatus(q) ELSE s) \in Statuses
    BY <1>2 DEF Statuses, Final
  <2>3. QED
    BY <1>1, <1>2, <2>1, <2>2, PublishImplements
<1>4. CASE PostOrderFails(o)
  <2>1. CASE UNCHANGED brokerVars
    BY <1>1, <2>1, QuietImplements DEF brokerVars
  <2>2. CASE \E q \in 0..Lots : Publish(o, FillStatus(q), q)
    BY <1>1, <1>2, <2>2, PublishImplements
  <2>3. QED
    BY <1>4, <2>1, <2>2 DEF PostOrderFails
<1>5. QED
  BY <1>3, <1>4 DEF Post

LEMMA TakeDeltaImplements ==
  ASSUME IInv, NEW t \in Tasks, TakeDelta(t)
  PROVE  [Promise!Next]_(Promise!vars)
<1>1. PICK o, d :
      /\ o = report[t].order /\ d = NewLots(report[t].qty, lastFilled[o])
      /\ lastFilled' = [lastFilled EXCEPT ![o] = lastFilled[o] + d]
  BY DEF TakeDelta
<1>2. UNCHANGED <<status, executed, booked, unbooked, released>>
  BY DEF TakeDelta, brokerVars, histVars
<1>3. /\ o \in Orders /\ report[t].qty \in 0..Lots /\ report[t].qty <= executed[o]
      /\ lastFilled \in [Orders -> 0..Lots] /\ executed[o] \in 0..Lots
      /\ lastFilled[o] \in 0..Lots
  <2>1. pc[t] \in Holding
    BY DEF TakeDelta, Holding
  <2>2. QED
    BY <1>1, <2>1, HolderFacts DEF Sound, IInv, TypeOK
<1>4. CASE released[o] \/ d = 0
  <2>1. lastFilled[o] + 0 = lastFilled[o]
    BY <1>3, OrderAssumption
  <2>2. \A p \in Orders : Claimed(p)' = Claimed(p)
    BY <1>1, <1>2, <1>3, <1>4, <2>1 DEF Claimed
  <2>3. \A p \in Orders : Phase(p)' = Phase(p) /\ Settled(p)' = Settled(p)
    BY <1>2 DEF Phase, Settled
  <2>4. QED
    BY <1>2, <2>2, <2>3, PromiseStutters
<1>5. CASE ~released[o] /\ d # 0
  <2>1. lastFilled[o] + d \in lastFilled[o] + 1 .. executed[o]
    BY <1>1, <1>3, <1>5, OrderAssumption DEF NewLots
  <2>2. QED
    BY <1>1, <1>2, <1>3, <1>5, <2>1, ClaimImplements
<1>6. QED
  BY <1>4, <1>5

LEMMA BookFillImplements ==
  ASSUME IInv, NEW t \in Tasks, BookFill(t)
  PROVE  [Promise!Next]_(Promise!vars)
<1>1. PICK o :
      /\ o = report[t].order
      /\ \/ /\ booked' = [booked EXCEPT ![o] = booked[o] + delta[t]]
            /\ unbooked' = unbooked
         \/ /\ unbooked' = [unbooked EXCEPT ![o] = unbooked[o] + delta[t]]
            /\ booked' = booked
  BY DEF BookFill
<1>2. UNCHANGED <<status, executed, lastFilled, released>>
  BY DEF BookFill, brokerVars, dedupVars
<1>3. o \in Orders
  <2>1. pc[t] \in Holding
    BY DEF BookFill, Holding
  <2>2. QED
    BY <1>1, <2>1, HolderFacts
<1>4. /\ booked \in [Orders -> Nat] /\ unbooked \in [Orders -> Nat]
      /\ delta[t] \in Nat /\ booked[o] \in Nat /\ unbooked[o] \in Nat
      /\ executed[o] \in Nat /\ lastFilled[o] \in Nat
  BY <1>3, OrderAssumption DEF IInv, TypeOK
<1>5. /\ booked'[o] + unbooked'[o] = booked[o] + unbooked[o] + delta[t]
      /\ \A p \in Orders \ {o} : booked'[p] = booked[p] /\ unbooked'[p] = unbooked[p]
  <2>1. CASE booked' = [booked EXCEPT ![o] = booked[o] + delta[t]] /\ unbooked' = unbooked
    BY <1>3, <1>4, <2>1
  <2>2. CASE unbooked' = [unbooked EXCEPT ![o] = unbooked[o] + delta[t]] /\ booked' = booked
    BY <1>3, <1>4, <2>2
  <2>3. QED
    BY <1>1, <2>1, <2>2
<1>6. \A p \in Orders \ {o} : Settled(p)' = Settled(p)
  BY <1>2, <1>5 DEF Settled
<1>7. PICK n : n = Settled(o)'
  OBVIOUS
<1>8. n \in Nat /\ n >= Settled(o) /\ n <= executed[o]
  BY <1>2, <1>4, <1>5, <1>7 DEF Settled
<1>9. n <= Claimed(o)
  <2>1. CASE released[o]
    BY <1>8, <2>1 DEF Claimed
  <2>2. CASE ~released[o]
    \* The invariant of the next state bounds what was given by the cursor.
    <3>1. IInv'
      BY BookFillKept
    <3>2. booked'[o] + unbooked'[o] + InFlight(delta', report', o) = lastFilled[o]
      BY <1>2, <1>3, <2>2, <3>1 DEF IInv, BookInv, EachLotTakenOnce, Taken
    <3>3. InFlight(delta', report', o) \in Nat
      BY <1>3, <3>1, InFlightType DEF IInv, TypeOK
    <3>4. booked'[o] + unbooked'[o] <= lastFilled[o]
      BY <1>4, <1>5, <3>2, <3>3
    <3>5. n <= booked'[o] + unbooked'[o]
      BY <1>2, <1>4, <1>5, <1>7 DEF Settled
    <3>6. QED
      BY <1>4, <1>5, <1>8, <2>2, <3>4, <3>5 DEF Claimed
  <2>3. QED
    BY <2>1, <2>2
<1>10. Settled(o) \in Nat
  BY <1>3, MappedFacts
<1>11. CASE n = Settled(o)
  <2>1. \A p \in Orders : Settled(p)' = Settled(p)
    BY <1>6, <1>7, <1>11
  <2>2. \A p \in Orders : Phase(p)' = Phase(p) /\ Claimed(p)' = Claimed(p)
    BY <1>2 DEF Phase, Claimed
  <2>3. QED
    BY <1>2, <2>1, <2>2, PromiseStutters
<1>12. CASE n > Settled(o)
  BY <1>2, <1>3, <1>6, <1>7, <1>8, <1>9, <1>12, SettleImplements
<1>13. QED
  BY <1>8, <1>10, <1>11, <1>12

LEMMA FinishDispatchImplements ==
  ASSUME IInv, NEW t \in Tasks, FinishDispatch(t)
  PROVE  [Promise!Next]_(Promise!vars)
<1>1. PICK o : o = report[t].order
  OBVIOUS
<1>2. UNCHANGED <<status, executed, booked, unbooked>>
  BY DEF FinishDispatch, brokerVars
<1>3. /\ pc[t] = "notify" /\ o \in Orders
      /\ report[t].qty \in 0..Lots /\ Sound(report[t], status, executed)
  <2>1. pc[t] = "notify" /\ pc[t] \in Holding
    BY DEF FinishDispatch, Holding
  <2>2. QED
    BY <1>1, <2>1, HolderFacts
<1>4. CASE ~ForgetsOrder(report[t])
  BY <1>2, <1>4, QuietImplements DEF FinishDispatch, dedupVars
<1>5. CASE ForgetsOrder(report[t])
  <2>1. /\ report[t].status \in Final
        /\ lastFilled' = [lastFilled EXCEPT ![o] = 0]
        /\ released' = [released EXCEPT ![o] = TRUE]
        /\ lastFilled \in [Orders -> 0..Lots] /\ released \in [Orders -> BOOLEAN]
    BY <1>1, <1>5 DEF FinishDispatch, ForgetsOrder, IsTerminal, IInv, TypeOK
  <2>2. CASE released[o]
    <3>1. \A p \in Orders : /\ Phase(p)' = Phase(p)
                            /\ Claimed(p)' = Claimed(p)
                            /\ Settled(p)' = Settled(p)
      BY <1>2, <2>1, <2>2 DEF Phase, Claimed, Settled
    <3>2. QED
      BY <1>2, <3>1, PromiseStutters
  <2>3. CASE ~released[o]
    <3>1. status[o] \in Final /\ report[t].qty = executed[o]
      BY <1>1, <1>3, <2>1 DEF Sound
    <3>2. lastFilled[o] >= report[t].qty
      BY <1>1, <1>3, <2>3 DEF IInv, BookInv, CursorReached
    <3>3. lastFilled[o] = executed[o]
      BY <1>3, <3>1, <3>2, MappedFacts, OrderAssumption
    <3>4. QED
      BY <1>2, <1>3, <2>1, <2>3, <3>1, <3>3, ForgetImplements
  <2>4. QED
    BY <2>2, <2>3
<1>6. QED
  BY <1>4, <1>5

-----------------------------------------------------------------------------

LEMMA InitImplements == Init => Promise!Init
<1>1. ASSUME Init
      PROVE  \A o \in Orders : Phase(o) = "live" /\ Claimed(o) = 0 /\ Settled(o) = 0
  <2>1. SUFFICES ASSUME NEW o \in Orders
                 PROVE  Phase(o) = "live" /\ Claimed(o) = 0 /\ Settled(o) = 0
    OBVIOUS
  <2>2. /\ status[o] = "unsent" /\ executed[o] = 0 /\ lastFilled[o] = 0
        /\ booked[o] = 0 /\ unbooked[o] = 0 /\ released[o] = FALSE
    BY <1>1 DEF Init
  <2>3. QED
    BY <2>2 DEF Phase, Claimed, Settled, Final
<1>2. QED
  BY <1>1 DEF Init, Promise!Init, Phase, Claimed

LEMMA NextImplements == IInv /\ [Next]_vars => [Promise!Next]_(Promise!vars)
<1>1. SUFFICES ASSUME IInv, [Next]_vars
               PROVE  [Promise!Next]_(Promise!vars)
  OBVIOUS
<1>2. CASE \E o \in Orders : Broker(o) \/ CancelOrder(o)
  BY <1>1, <1>2, BrokerImplements
<1>3. CASE \E o \in Orders : Post(o)
  BY <1>1, <1>3, PostImplements
<1>4. CASE \E o \in Orders : Submitter(o) \/ Poller(o) \/ StreamTrades(o) \/ StoreCancelled(o)
  BY <1>4, QuietImplements
     DEF Submitter, SaveOrder, TakeOwnership, Poller, GetOrderState, GetOrderStateFails,
         StorePolled, StreamTrades, StoreCancelled, brokerVars, dedupVars, histVars
<1>5. CASE StreamOrderStates \/ ReceiveState
  BY <1>5, QuietImplements
     DEF StreamOrderStates, ReceiveState, brokerVars, dedupVars, histVars
<1>6. CASE \E t \in Tasks : IgnoreUnowned(t) \/ LookUpOwner(t) \/ ReadPrice(t)
  BY <1>6, QuietImplements
     DEF IgnoreUnowned, LookUpOwner, ReadPrice, brokerVars, dedupVars, histVars
<1>7. CASE \E t \in Tasks : TakeDelta(t) \/ BookFill(t) \/ FinishDispatch(t)
  BY <1>1, <1>7, TakeDeltaImplements, BookFillImplements, FinishDispatchImplements
<1>8. CASE UNCHANGED vars
  BY <1>8, QuietImplements DEF vars, brokerVars, dedupVars, histVars
<1>9. QED
  BY <1>1, <1>2, <1>3, <1>4, <1>5, <1>6, <1>7, <1>8 DEF Next, Dispatch

\* However the stream, the submitter and the poller interleave in
\* dispatchExecution, the runner keeps its promise on executed lots: each is
\* claimed once, only what was claimed is given to the ledger or dropped, and an
\* order is forgotten over and fully claimed.
THEOREM KeepsPromise == Spec => Promise!Safety
BY InitImplements, NextImplements, Invariant, PTL DEF Spec, Promise!Safety
=============================================================================
