------------------------ MODULE ProtectiveStop_proofs ------------------------
(***************************************************************************)
(* TypeOK, CancelledByOne and DuplicatesBounded for any number of          *)
(* dispatching goroutines, any order sizes and limits, and any scenario of *)
(* lot sizes, instances that cannot protect a position, triggered stops,   *)
(* failed calls, restarts and requests to flatten.                         *)
(***************************************************************************)
EXTENDS ProtectiveStop, SequenceTheorems, FiniteSetTheorems, TLAPS

-----------------------------------------------------------------------------
(* The inductive invariant.                                                *)

\* Where a goroutine acts on the position it read.
Acting == {"check", "post", "track", "untrack", "cancel", "sync", "orders", "close"}
InHand == {"track", "cancel"}

\* A goroutine that acts has read a position; one that may post a stop read a
\* position other than zero and does not flatten; and a stop is in the hands of
\* just the goroutines that are about to track or to cancel it.
TaskInv(t) ==
  /\ pc[t] \in Acting => qty[t] \in Int
  /\ pc[t] \in {"check", "post"} => qty[t] # 0 /\ t \notin Closers
  /\ pc[t] \in InHand <=> stopID[t] # Nil

CountOK == count = [setup |-> count.setup, used |-> count.used]

IInv ==
  /\ TypeOK
  /\ \A t \in Tasks : TaskInv(t)
  /\ CountOK
  /\ IsFiniteSet(stops)
  /\ CancelledByOne
  /\ DuplicatesBounded

-----------------------------------------------------------------------------
(* Goroutines and the scenario.                                            *)

LEMMA TaskFacts ==
  /\ Reconciler \in Tasks /\ Watchdog \in Tasks /\ Operator \in Tasks
  /\ Dispatchers \subseteq Tasks /\ Closers \subseteq Tasks
  /\ Reconciler \notin Closers /\ Dispatchers \cap Closers = {}
  /\ Watchdog \in Closers /\ Operator \in Closers
BY StopAssumption DEF Tasks, Closers, Reconciler, Watchdog, Operator

LEMMA NilNoStop == Nil \notin StopIDs
BY StopAssumption DEF StopIDs

\* The part of the state that the scenario bounds.
CountKept ==
  /\ CountOK'
  /\ count'.setup \in Scenarios
  /\ count'.used \in [Counted -> Nat]
  /\ count'.used["lists"] >= count.used["lists"]

LEMMA CountsKeep ==
  ASSUME IInv, count' = count \/ \E k \in Counted : Counts(k)
  PROVE  CountKept
<1>1. /\ count = [setup |-> count.setup, used |-> count.used] /\ count.setup \in Scenarios
      /\ count.used \in [Counted -> Nat] /\ "lists" \in Counted
  BY DEF IInv, TypeOK, CountOK, Counted
<1>2. CASE count' = count
  BY <1>1, <1>2 DEF CountKept, CountOK
<1>3. CASE \E k \in Counted : Counts(k)
  <2>1. PICK k \in Counted : count' = [count EXCEPT !.used[k] = @ + 1]
    BY <1>3 DEF Counts
  <2>2. /\ count'.setup = count.setup
        /\ count'.used = [count.used EXCEPT ![k] = count.used[k] + 1]
        /\ count' = [setup |-> count'.setup, used |-> count'.used]
    BY <1>1, <2>1
  <2>3. count'.used \in [Counted -> Nat] /\ count'.used["lists"] >= count.used["lists"]
    BY <1>1, <2>2
  <2>4. QED
    BY <1>1, <2>2, <2>3 DEF CountKept, CountOK
<1>4. QED
  BY <1>2, <1>3

LEMMA LotType == ASSUME IInv PROVE Lot \in Nat \ {0}
<1>1. count.setup \in Setup
  BY StopAssumption DEF IInv, TypeOK
<1>2. QED
  BY <1>1 DEF Lot, Setup

-----------------------------------------------------------------------------
(* A step of one goroutine.                                                *)

\* Goroutine t goes to l with the position q read and the stop i in hand.
Moves(t, l, q, i) ==
  /\ pc' = [pc EXCEPT ![t] = l]
  /\ qty' = [qty EXCEPT ![t] = q]
  /\ stopID' = [stopID EXCEPT ![t] = i]

\* What it may take along.
Fits(t, l, q, i) ==
  /\ l \in Places /\ q \in Int \cup {Nil} /\ i \in StopIDs \cup {Nil}
  /\ l \in Acting => q \in Int
  /\ l \in {"check", "post"} => q # 0 /\ t \notin Closers
  /\ l \in InHand <=> i # Nil

TasksKept ==
  /\ pc' \in [Tasks -> Places]
  /\ qty' \in [Tasks -> Int \cup {Nil}]
  /\ stopID' \in [Tasks -> StopIDs \cup {Nil}]
  /\ \A t \in Tasks : TaskInv(t)'

LEMMA MoveKeeps ==
  ASSUME IInv, NEW t \in Tasks, NEW l, NEW q, NEW i, Moves(t, l, q, i), Fits(t, l, q, i)
  PROVE  /\ TasksKept
         /\ pc'[t] = l /\ qty'[t] = q /\ stopID'[t] = i
         /\ \A u \in Tasks \ {t} : pc'[u] = pc[u] /\ qty'[u] = qty[u] /\ stopID'[u] = stopID[u]
<1>1. /\ pc \in [Tasks -> Places] /\ qty \in [Tasks -> Int \cup {Nil}]
      /\ stopID \in [Tasks -> StopIDs \cup {Nil}]
  BY DEF IInv, TypeOK
<1>2. /\ pc'[t] = l /\ qty'[t] = q /\ stopID'[t] = i
      /\ \A u \in Tasks \ {t} : pc'[u] = pc[u] /\ qty'[u] = qty[u] /\ stopID'[u] = stopID[u]
  BY <1>1 DEF Moves
<1>3. /\ pc' \in [Tasks -> Places] /\ qty' \in [Tasks -> Int \cup {Nil}]
      /\ stopID' \in [Tasks -> StopIDs \cup {Nil}]
  BY <1>1 DEF Moves, Fits
<1>4. \A u \in Tasks : TaskInv(u)'
  BY <1>2 DEF IInv, TaskInv, Fits
<1>5. QED
  BY <1>2, <1>3, <1>4 DEF TasksKept

LEMMA StayKeeps ==
  ASSUME IInv, UNCHANGED taskVars
  PROVE  TasksKept
BY DEF IInv, TypeOK, TaskInv, taskVars, TasksKept

\* Steps that put no stop into other hands than before.
LEMMA HandsKept ==
  ASSUME IInv, TasksKept, tracked' = tracked \/ tracked' = Nil,
         \A t \in Tasks : stopID'[t] = stopID[t] \/ stopID'[t] = Nil
  PROVE  CancelledByOne'
<1>1. SUFFICES ASSUME NEW t \in Tasks, pc'[t] \in InHand
               PROVE  /\ stopID'[t] # tracked'
                      /\ \A u \in Tasks \ {t} : stopID'[u] # stopID'[t]
  BY DEF CancelledByOne, InHand
<1>2. stopID'[t] # Nil /\ stopID'[t] = stopID[t] /\ pc[t] \in InHand
  BY <1>1 DEF TasksKept, TaskInv, IInv
<1>3. QED
  BY <1>2 DEF IInv, CancelledByOne, InHand

-----------------------------------------------------------------------------
(* Counting stops and the goroutines about to post one.                    *)

MayPost == Tasks \ Closers

LEMMA MayPostFinite == IsFiniteSet(MayPost) /\ Cardinality(MayPost) \in Nat
<1>1. MayPost = Dispatchers \cup {Reconciler}
  BY StopAssumption DEF MayPost, Tasks, Closers, Reconciler, Watchdog, Operator
<1>2. IsFiniteSet(Dispatchers \cup {Reconciler})
  BY StopAssumption, FS_AddElement
<1>3. QED
  BY <1>1, <1>2, FS_CardinalityType

LEMMA CountFacts ==
  ASSUME IInv, NEW sign \in {-1, 1}
  PROVE  /\ IsFiniteSet(StopsOf(sign)) /\ IsFiniteSet(Posting(sign))
         /\ Cardinality(StopsOf(sign)) \in Nat /\ Cardinality(Posting(sign)) \in Nat
         /\ Posting(sign) \subseteq MayPost
<1>1. StopsOf(sign) \in SUBSET stops
  BY DEF StopsOf
<1>2. Posting(sign) \in SUBSET MayPost
  BY DEF Posting, IInv, TaskInv, MayPost
<1>3. QED
  BY <1>1, <1>2, MayPostFinite, FS_Subset, FS_CardinalityType DEF IInv

\* No new stop and nobody new about to post one.
LEMMA FewerKept ==
  ASSUME IInv, CountKept, stops' \subseteq stops,
         \A t \in Tasks : pc'[t] = "post" => pc[t] = "post" /\ qty'[t] = qty[t]
  PROVE  IsFiniteSet(stops') /\ DuplicatesBounded'
<1>1. IsFiniteSet(stops')
  BY FS_Subset DEF IInv
<1>2. SUFFICES ASSUME NEW sign \in {-1, 1}
               PROVE  Cardinality(StopsOf(sign)') + Cardinality(Posting(sign)')
                        <= Cardinality(MayPost) + count'.used["lists"]
  BY <1>1 DEF DuplicatesBounded, MayPost
<1>3. StopsOf(sign)' \in SUBSET StopsOf(sign) /\ Posting(sign)' \in SUBSET Posting(sign)
  BY DEF StopsOf, Posting
<1>4. /\ Cardinality(StopsOf(sign)') <= Cardinality(StopsOf(sign))
      /\ Cardinality(Posting(sign)') <= Cardinality(Posting(sign))
      /\ Cardinality(StopsOf(sign)') \in Nat /\ Cardinality(Posting(sign)') \in Nat
  BY <1>3, CountFacts, FS_Subset, FS_CardinalityType
<1>5. Cardinality(StopsOf(sign)) + Cardinality(Posting(sign))
        <= Cardinality(MayPost) + count.used["lists"]
  BY DEF IInv, DuplicatesBounded, MayPost
<1>6. count.used["lists"] \in Nat /\ count'.used["lists"] \in Nat
  BY DEF IInv, TypeOK, CountKept, Counted
<1>7. QED
  BY <1>4, <1>5, <1>6, CountFacts, MayPostFinite DEF CountKept

-----------------------------------------------------------------------------
(* Steps of the broker: no goroutine moves.                                *)

\* The parts of TypeOK beside the goroutines and the scenario.
StateTyped ==
  /\ pos' \in Int /\ active' \in [Senders -> Int] /\ ledger' \in Int
  /\ \A s \in stops' : s.id \in StopIDs /\ s.lots \in Int \ {0}
  /\ fills' \in Seq(Int) /\ mode' \in Modes /\ tracked' \in StopIDs \cup {Nil}

\* Most steps post no stop and hand over none.
LEMMA PlainStep ==
  ASSUME IInv, StateTyped, TasksKept, CountKept, stops' \subseteq stops,
         tracked' = tracked \/ tracked' = Nil,
         \A t \in Tasks : stopID'[t] = stopID[t] \/ stopID'[t] = Nil,
         \A t \in Tasks : pc'[t] = "post" => pc[t] = "post" /\ qty'[t] = qty[t]
  PROVE  IInv'
<1>1. TypeOK'
  BY DEF StateTyped, TasksKept, CountKept, TypeOK
<1>2. CancelledByOne'
  BY HandsKept
<1>3. IsFiniteSet(stops') /\ DuplicatesBounded'
  BY FewerKept
<1>4. QED
  BY <1>1, <1>2, <1>3 DEF IInv, TasksKept, CountKept

LEMMA SendOrderKept ==
  ASSUME IInv, SendOrder
  PROVE  IInv'
<1>1. CountKept
  BY CountsKeep DEF SendOrder, Counted
<1>2. TasksKept
  BY StayKeeps DEF SendOrder
<1>3. StateTyped
  <2>1. PICK n \in Int : active' = [active EXCEPT !["strategy"] = n]
    BY StopAssumption DEF SendOrder
  <2>2. active' \in [Senders -> Int]
    BY <2>1 DEF IInv, TypeOK
  <2>3. QED
    BY <2>2 DEF SendOrder, StateTyped, IInv, TypeOK
<1>4. QED
  BY <1>1, <1>2, <1>3, PlainStep DEF SendOrder, taskVars

LEMMA ExecuteOrderKept ==
  ASSUME IInv, ExecuteOrder
  PROVE  IInv'
<1>1. CountKept /\ TasksKept
  BY StayKeeps, CountsKeep DEF ExecuteOrder
<1>2. PICK o \in Senders :
        \E n \in IF o \in Closers THEN {active[o]} ELSE Parts(active[o]) :
          /\ pos' = pos + n * Lot
          /\ active' = [active EXCEPT ![o] = active[o] - n]
          /\ fills' = Append(fills, n)
  BY DEF ExecuteOrder
<1>3. PICK n \in Int : /\ pos' = pos + n * Lot
                       /\ active' = [active EXCEPT ![o] = active[o] - n]
                       /\ fills' = Append(fills, n)
  <2>1. active[o] \in Int
    BY DEF IInv, TypeOK
  <2>2. Parts(active[o]) \subseteq Int
    BY <2>1 DEF Parts
  <2>3. QED
    BY <1>2, <2>1, <2>2
<1>4. StateTyped
  <2>1. n * Lot \in Int
    BY LotType
  <2>2. pos' \in Int
    BY <1>3, <2>1 DEF IInv, TypeOK
  <2>3. active' \in [Senders -> Int]
    BY <1>3 DEF IInv, TypeOK
  <2>4. fills' \in Seq(Int)
    BY <1>3, AppendProperties DEF IInv, TypeOK
  <2>5. QED
    BY <2>2, <2>3, <2>4 DEF ExecuteOrder, StateTyped, IInv, TypeOK
<1>5. QED
  BY <1>1, <1>4, PlainStep DEF ExecuteOrder, taskVars

LEMMA StopFiresKept ==
  ASSUME IInv, StopFires
  PROVE  IInv'
<1>1. CountKept
  BY CountsKeep DEF StopFires, Counted
<1>2. TasksKept
  BY StayKeeps DEF StopFires
<1>3. PICK s \in stops : stops' = stops \ {s} /\ pos' = pos + s.lots * Lot
  BY DEF StopFires
<1>4. StateTyped
  <2>1. s.lots \in Int /\ Lot \in Int
    BY LotType DEF IInv, TypeOK
  <2>2. s.lots * Lot \in Int
    BY <2>1
  <2>3. pos' \in Int
    BY <1>3, <2>2 DEF IInv, TypeOK
  <2>4. QED
    BY <1>3, <2>3 DEF StopFires, StateTyped, IInv, TypeOK
<1>5. QED
  BY <1>1, <1>2, <1>3, <1>4, PlainStep DEF StopFires, taskVars

LEMMA LoseFillKept ==
  ASSUME IInv, LoseFill
  PROVE  IInv'
<1>1. CountKept
  BY CountsKeep DEF LoseFill, Fails, Counted
<1>2. TasksKept
  BY StayKeeps DEF LoseFill
<1>3. StateTyped
  <2>1. fills' \in Seq(Int)
    BY HeadTailProperties DEF LoseFill, IInv, TypeOK
  <2>2. QED
    BY <2>1 DEF LoseFill, StateTyped, IInv, TypeOK
<1>4. QED
  BY <1>1, <1>2, <1>3, PlainStep DEF LoseFill, taskVars

-----------------------------------------------------------------------------
(* ensureProtectiveStop and cancelTrackedProtectiveStop.                   *)

\* Where Leave takes a goroutine, and with what.
After(t) == IF t \in Closers THEN "close" ELSE "idle"
Kept(t) == IF t \in Closers THEN qty[t] ELSE Nil

LEMMA LeaveMoves ==
  ASSUME IInv, NEW t \in Tasks, pc[t] \in Acting, Leave(t),
         NEW i, stopID' = [stopID EXCEPT ![t] = i]
  PROVE  /\ Moves(t, After(t), Kept(t), i)
         /\ i = Nil => Fits(t, After(t), Kept(t), i)
<1>1. qty \in [Tasks -> Int \cup {Nil}] /\ qty[t] \in Int
  BY DEF IInv, TypeOK, TaskInv
<1>2. qty' = [qty EXCEPT ![t] = Kept(t)]
  BY <1>1 DEF Leave, Kept
<1>3. Moves(t, After(t), Kept(t), i)
  BY <1>2 DEF Leave, Goto, Moves, After
<1>4. i = Nil => Fits(t, After(t), Kept(t), i)
  BY <1>1 DEF Fits, After, Kept, Places, Acting, InHand
<1>5. QED
  BY <1>3, <1>4

\* Those that leave with nothing new in hand.
LEMMA LeaveStep ==
  ASSUME IInv, NEW t \in Tasks, pc[t] \in Acting, Leave(t), StateTyped, CountKept,
         stopID' = [stopID EXCEPT ![t] = Nil], stops' \subseteq stops, tracked' = tracked
  PROVE  IInv'
<1>1. Moves(t, After(t), Kept(t), Nil) /\ Fits(t, After(t), Kept(t), Nil)
  BY LeaveMoves
<1>2. /\ TasksKept
      /\ pc'[t] = After(t) /\ stopID'[t] = Nil
      /\ \A u \in Tasks \ {t} : pc'[u] = pc[u] /\ qty'[u] = qty[u] /\ stopID'[u] = stopID[u]
  BY <1>1, MoveKeeps
<1>3. pc'[t] # "post"
  BY <1>2 DEF After
<1>4. QED
  BY <1>2, <1>3, PlainStep

LEMMA NothingInHand ==
  ASSUME IInv, NEW t \in Tasks, pc[t] \notin InHand
  PROVE  stopID[t] = Nil /\ stopID = [stopID EXCEPT ![t] = Nil]
BY DEF IInv, TypeOK, TaskInv

\* CheckStops goes on to post: nothing found, or the listing failed.
LEMMA CheckPostKept ==
  ASSUME IInv, NEW t \in Tasks, pc[t] = "check", Goto(t, "post"),
         UNCHANGED <<brokerVars, stops, mode, ledger, tracked, stopID, qty>>,
         \/ ~HasProtection(qty[t], stops) /\ count' = count
         \/ Counts("lists")
  PROVE  IInv'
<1>1. CountKept
  BY CountsKeep DEF Counted
<1>2. /\ qty[t] \in Int /\ qty[t] # 0 /\ t \notin Closers /\ stopID[t] = Nil
      /\ qty \in [Tasks -> Int \cup {Nil}] /\ pc \in [Tasks -> Places]
  BY NothingInHand DEF IInv, TypeOK, TaskInv, Acting, InHand
<1>3. Moves(t, "post", qty[t], Nil) /\ Fits(t, "post", qty[t], Nil)
  BY <1>2, NothingInHand DEF Moves, Fits, Goto, Places, InHand
<1>4. TasksKept /\ pc' = [pc EXCEPT ![t] = "post"]
  BY <1>3, MoveKeeps DEF Moves
<1>5. TypeOK'
  BY <1>1, <1>4 DEF IInv, TypeOK, TasksKept, CountKept, brokerVars
<1>6. CancelledByOne'
  BY <1>4, HandsKept
<1>7. ASSUME NEW sign \in {-1, 1}
      PROVE  Cardinality(StopsOf(sign)') + Cardinality(Posting(sign)')
               <= Cardinality(MayPost) + count'.used["lists"]
  <2>1. StopsOf(sign)' = StopsOf(sign)
    BY DEF StopsOf
  <2>2. /\ Posting(sign)' \in SUBSET (Posting(sign) \cup {t})
        /\ Posting(sign)' \in SUBSET MayPost
    BY <1>2, <1>4, CountFacts DEF Posting, MayPost
  <2>3. /\ count.used["lists"] \in Nat /\ count'.used["lists"] \in Nat
        /\ Cardinality(StopsOf(sign)) + Cardinality(Posting(sign))
             <= Cardinality(MayPost) + count.used["lists"]
    BY <1>1 DEF IInv, TypeOK, DuplicatesBounded, MayPost, CountKept, Counted
  <2>4. CASE sign * qty[t] < 0 /\ ~HasProtection(qty[t], stops)
    <3>1. StopsOf(sign) = {}
      <4>1. SUFFICES ASSUME NEW s \in stops, sign * s.lots > 0
                     PROVE  FALSE
        BY DEF StopsOf
      <4>2. s.lots \in Int /\ ~Closes(s, qty[t])
        BY <2>4 DEF HasProtection, IInv, TypeOK
      <4>3. CASE sign = 1
        BY <1>2, <2>4, <4>1, <4>2, <4>3 DEF Closes
      <4>4. CASE sign = -1
        BY <1>2, <2>4, <4>1, <4>2, <4>4 DEF Closes
      <4>5. QED
        BY <4>3, <4>4
    <3>2. /\ Cardinality(Posting(sign)') <= Cardinality(MayPost)
          /\ Cardinality(Posting(sign)') \in Nat
      BY <2>2, MayPostFinite, FS_Subset, FS_CardinalityType
    <3>3. QED
      BY <2>1, <2>3, <3>1, <3>2, FS_EmptySet, MayPostFinite
  <2>5. CASE ~(sign * qty[t] < 0)
    <3>1. Posting(sign)' = Posting(sign)
      BY <1>2, <1>4, <2>5 DEF Posting
    <3>2. QED
      BY <1>1, <2>1, <2>3, <3>1, CountFacts, MayPostFinite DEF CountKept
  <2>6. CASE Counts("lists")
    <3>1. count'.used["lists"] = count.used["lists"] + 1
      <4>1. /\ count = [setup |-> count.setup, used |-> count.used]
            /\ count.used \in [Counted -> Nat] /\ "lists" \in Counted
            /\ count' = [count EXCEPT !.used["lists"] = @ + 1]
        BY <2>6 DEF IInv, TypeOK, CountOK, Counted, Counts
      <4>2. QED
        BY <4>1
    <3>2. IsFiniteSet(Posting(sign)) /\ Cardinality(Posting(sign)) \in Nat
          /\ Cardinality(StopsOf(sign)) \in Nat
      BY CountFacts
    <3>3. /\ IsFiniteSet(Posting(sign) \cup {t})
          /\ Cardinality(Posting(sign) \cup {t}) <= Cardinality(Posting(sign)) + 1
      <4>1. /\ IsFiniteSet(Posting(sign) \cup {t})
            /\ Cardinality(Posting(sign) \cup {t})
                 = IF t \in Posting(sign) THEN Cardinality(Posting(sign))
                                          ELSE Cardinality(Posting(sign)) + 1
        BY <3>2, FS_AddElement
      <4>2. QED
        BY <3>2, <4>1
    <3>4. /\ Cardinality(Posting(sign)') <= Cardinality(Posting(sign) \cup {t})
          /\ Cardinality(Posting(sign)') \in Nat
          /\ Cardinality(Posting(sign) \cup {t}) \in Nat
      BY <2>2, <3>3, FS_Subset, FS_CardinalityType
    <3>5. QED
      BY <2>1, <2>3, <3>1, <3>2, <3>3, <3>4, MayPostFinite
  <2>7. QED
    BY <2>4, <2>5, <2>6
<1>8. DuplicatesBounded'
  BY <1>7 DEF DuplicatesBounded, MayPost
<1>9. QED
  BY <1>1, <1>4, <1>5, <1>6, <1>8 DEF IInv, TasksKept, CountKept

LEMMA SkipStopKept ==
  ASSUME IInv, NEW t \in Tasks, SkipStop(t)
  PROVE  IInv'
<1>1. /\ pc[t] \in Acting /\ pc[t] \notin InHand
      /\ UNCHANGED <<brokerVars, stops, mode, ledger, tracked, stopID>>
  BY DEF SkipStop, Acting, InHand
<1>2. StateTyped
  BY <1>1 DEF StateTyped, IInv, TypeOK, brokerVars
<1>3. CountKept
  BY CountsKeep DEF SkipStop
<1>4. QED
  BY <1>1, <1>2, <1>3, NothingInHand, LeaveStep DEF SkipStop

LEMMA CheckStopsKept ==
  ASSUME IInv, NEW t \in Tasks, CheckStops(t)
  PROVE  IInv'
<1>1. /\ pc[t] = "check" /\ pc[t] \in Acting /\ pc[t] \notin InHand
      /\ UNCHANGED <<brokerVars, stops, mode, ledger, tracked, stopID>>
  BY DEF CheckStops, Acting, InHand
<1>2. StateTyped
  BY <1>1 DEF StateTyped, IInv, TypeOK, brokerVars
<1>3. CASE Leave(t) /\ UNCHANGED count
  BY <1>1, <1>2, <1>3, NothingInHand, CountsKeep, LeaveStep
<1>4. CASE ~HasProtection(qty[t], stops) /\ Goto(t, "post") /\ UNCHANGED <<qty, count>>
  BY <1>1, <1>4, CheckPostKept
<1>5. CASE Counts("lists") /\ Goto(t, "post") /\ UNCHANGED qty
  BY <1>1, <1>5, CheckPostKept
<1>6. QED
  BY <1>3, <1>4, <1>5 DEF CheckStops

LEMMA PostStopOrderKept ==
  ASSUME IInv, NEW t \in Tasks, PostStopOrder(t)
  PROVE  IInv'
<1>1. PICK id \in StopIDs :
        /\ FreshID(id)
        /\ stops' = stops \cup {[id |-> id, lots |-> -qty[t]]}
        /\ stopID' = [stopID EXCEPT ![t] = id]
  BY DEF PostStopOrder
<1> DEFINE new == [id |-> id, lots |-> -qty[t]]
<1>2. /\ qty[t] \in Int /\ qty[t] # 0 /\ t \notin Closers /\ pc[t] = "post"
      /\ qty \in [Tasks -> Int \cup {Nil}] /\ id # Nil
  BY NilNoStop DEF PostStopOrder, IInv, TypeOK, TaskInv, Acting
<1>3. Moves(t, "track", qty[t], id) /\ Fits(t, "track", qty[t], id)
  BY <1>1, <1>2 DEF PostStopOrder, Moves, Fits, Goto, Places, InHand, Acting
<1>4. /\ TasksKept
      /\ pc'[t] = "track" /\ stopID'[t] = id
      /\ \A u \in Tasks \ {t} : pc'[u] = pc[u] /\ stopID'[u] = stopID[u]
      /\ qty' = qty /\ tracked' = tracked /\ count' = count
  BY <1>3, MoveKeeps DEF PostStopOrder
<1>5. CountKept
  BY <1>4, CountsKeep
<1>6. TypeOK'
  <2>1. \A s \in stops' : s.id \in StopIDs /\ s.lots \in Int \ {0}
    BY <1>1, <1>2 DEF IInv, TypeOK
  <2>2. QED
    BY <1>4, <1>5, <2>1 DEF IInv, TypeOK, TasksKept, CountKept, brokerVars, PostStopOrder
<1>7. CancelledByOne'
  <2>1. id # tracked /\ \A u \in Tasks : stopID[u] # id
    BY <1>1 DEF FreshID, UsedIDs
  <2>2. SUFFICES ASSUME NEW u \in Tasks, pc'[u] \in InHand
                 PROVE  /\ stopID'[u] # tracked'
                        /\ \A v \in Tasks \ {u} : stopID'[v] # stopID'[u]
    BY DEF CancelledByOne, InHand
  <2>3. CASE u = t
    BY <1>4, <2>1, <2>3
  <2>4. CASE u # t
    BY <1>4, <2>1, <2>2, <2>4 DEF IInv, CancelledByOne, InHand
  <2>5. QED
    BY <2>3, <2>4
<1>8. IsFiniteSet(stops')
  BY <1>1, FS_AddElement DEF IInv
<1>9. ASSUME NEW sign \in {-1, 1}
      PROVE  Cardinality(StopsOf(sign)') + Cardinality(Posting(sign)')
               <= Cardinality(MayPost) + count'.used["lists"]
  <2>1. /\ IsFiniteSet(StopsOf(sign)) /\ IsFiniteSet(Posting(sign))
        /\ Cardinality(StopsOf(sign)) \in Nat /\ Cardinality(Posting(sign)) \in Nat
        /\ Cardinality(StopsOf(sign)) + Cardinality(Posting(sign))
             <= Cardinality(MayPost) + count.used["lists"]
        /\ count.used["lists"] \in Nat /\ count' = count
    BY <1>4, CountFacts DEF IInv, TypeOK, DuplicatesBounded, MayPost, Counted
  <2>2. Posting(sign)' = Posting(sign) \ {t}
    BY <1>4 DEF Posting
  <2>3. CASE sign * qty[t] < 0
    <3>1. t \in Posting(sign)
      BY <1>2, <2>3 DEF Posting
    <3>2. StopsOf(sign)' \subseteq StopsOf(sign) \cup {new}
      BY <1>1 DEF StopsOf
    <3>3. Cardinality(Posting(sign)') = Cardinality(Posting(sign)) - 1
      BY <2>1, <2>2, <3>1, FS_RemoveElement
    <3>4. /\ IsFiniteSet(StopsOf(sign) \cup {new})
          /\ Cardinality(StopsOf(sign) \cup {new})
               = IF new \in StopsOf(sign) THEN Cardinality(StopsOf(sign))
                                          ELSE Cardinality(StopsOf(sign)) + 1
      BY <2>1, FS_AddElement
    <3>5. /\ Cardinality(StopsOf(sign)') <= Cardinality(StopsOf(sign) \cup {new})
          /\ Cardinality(StopsOf(sign)') \in Nat
          /\ Cardinality(StopsOf(sign) \cup {new}) \in Nat
      BY <3>2, <3>4, FS_Subset, FS_CardinalityType
    <3>6. Cardinality(StopsOf(sign)') <= Cardinality(StopsOf(sign)) + 1
      BY <2>1, <3>4, <3>5
    <3>7. QED
      BY <2>1, <3>3, <3>5, <3>6, MayPostFinite
  <2>4. CASE ~(sign * qty[t] < 0)
    <3>1. ~(sign * new.lots > 0)
      <4>1. CASE sign = 1
        BY <1>2, <2>4, <4>1
      <4>2. CASE sign = -1
        BY <1>2, <2>4, <4>2
      <4>3. QED
        BY <4>1, <4>2
    <3>2. StopsOf(sign)' = StopsOf(sign)
      BY <1>1, <3>1 DEF StopsOf
    <3>3. t \notin Posting(sign)
      BY <2>4 DEF Posting
    <3>4. QED
      BY <2>1, <2>2, <3>2, <3>3, MayPostFinite
  <2>5. QED
    BY <2>3, <2>4
<1>10. DuplicatesBounded'
  BY <1>9 DEF DuplicatesBounded, MayPost
<1>11. QED
  BY <1>4, <1>5, <1>6, <1>7, <1>8, <1>10 DEF IInv, TasksKept, CountKept

LEMMA PostStopOrderFailsKept ==
  ASSUME IInv, NEW t \in Tasks, PostStopOrderFails(t)
  PROVE  IInv'
<1>1. /\ pc[t] \in Acting /\ pc[t] \notin InHand
      /\ UNCHANGED <<brokerVars, stops, mode, ledger, tracked, stopID>>
  BY DEF PostStopOrderFails, Acting, InHand
<1>2. StateTyped
  BY <1>1 DEF StateTyped, IInv, TypeOK, brokerVars
<1>3. CountKept
  BY CountsKeep DEF PostStopOrderFails, Fails, Counted
<1>4. QED
  BY <1>1, <1>2, <1>3, NothingInHand, LeaveStep DEF PostStopOrderFails

\* What the goroutine had in hand is now in the map, and nowhere else.
LEMMA TrackStopKept ==
  ASSUME IInv, NEW t \in Tasks, TrackStop(t)
  PROVE  IInv'
<1>1. /\ pc[t] = "track" /\ pc[t] \in Acting /\ pc[t] \in InHand
      /\ tracked' = stopID[t] /\ stopID' = [stopID EXCEPT ![t] = Nil] /\ Leave(t)
      /\ UNCHANGED <<brokerVars, stops, mode, ledger, count>>
      /\ stopID[t] \in StopIDs
  BY DEF TrackStop, Acting, InHand, IInv, TypeOK, TaskInv
<1>2. Moves(t, After(t), Kept(t), Nil) /\ Fits(t, After(t), Kept(t), Nil)
  BY <1>1, LeaveMoves
<1>3. /\ TasksKept
      /\ pc'[t] = After(t) /\ stopID'[t] = Nil
      /\ \A u \in Tasks \ {t} : pc'[u] = pc[u] /\ qty'[u] = qty[u] /\ stopID'[u] = stopID[u]
  BY <1>2, MoveKeeps
<1>4. pc'[t] # "post" /\ pc'[t] \notin InHand
  BY <1>3 DEF After, InHand
<1>5. CountKept
  BY <1>1, CountsKeep
<1>6. TypeOK'
  BY <1>1, <1>3, <1>5 DEF IInv, TypeOK, TasksKept, CountKept, brokerVars
<1>7. CancelledByOne'
  <2>1. SUFFICES ASSUME NEW u \in Tasks, pc'[u] \in InHand
                 PROVE  /\ stopID'[u] # tracked'
                        /\ \A v \in Tasks \ {u} : stopID'[v] # stopID'[u]
    BY DEF CancelledByOne, InHand
  <2>2. /\ u # t /\ pc[u] \in InHand /\ stopID'[u] = stopID[u] /\ stopID[u] # Nil
    BY <1>3, <1>4, <2>1 DEF IInv, TaskInv
  <2>3. \A v \in Tasks \ {u} : stopID[v] # stopID[u]
    BY <2>2 DEF IInv, CancelledByOne, InHand
  <2>4. QED
    BY <1>1, <1>3, <2>2, <2>3
<1>8. IsFiniteSet(stops') /\ DuplicatesBounded'
  BY <1>1, <1>3, <1>4, <1>5, FewerKept
<1>9. QED
  BY <1>3, <1>5, <1>6, <1>7, <1>8 DEF IInv, TasksKept, CountKept

\* What was in the map is now in the hands of one goroutine.
LEMMA UntrackStopKept ==
  ASSUME IInv, NEW t \in Tasks, UntrackStop(t)
  PROVE  IInv'
<1>1. /\ pc[t] = "untrack" /\ pc[t] \in Acting /\ pc[t] \notin InHand
      /\ stopID' = [stopID EXCEPT ![t] = tracked] /\ tracked' = Nil
      /\ UNCHANGED <<brokerVars, stops, mode, ledger, count>>
  BY DEF UntrackStop, TrackedAfter, Acting, InHand
<1>2. CountKept
  BY <1>1, CountsKeep
<1>3. CASE tracked = Nil /\ Leave(t)
  <2>1. StateTyped
    BY <1>1 DEF StateTyped, IInv, TypeOK, brokerVars
  <2>2. QED
    BY <1>1, <1>2, <1>3, <2>1, LeaveStep
<1>4. CASE tracked # Nil /\ Goto(t, "cancel") /\ UNCHANGED qty
  <2>1. /\ qty[t] \in Int /\ qty \in [Tasks -> Int \cup {Nil}] /\ tracked \in StopIDs
    BY <1>1, <1>4 DEF IInv, TypeOK, TaskInv
  <2>2. Moves(t, "cancel", qty[t], tracked) /\ Fits(t, "cancel", qty[t], tracked)
    BY <1>1, <1>4, <2>1 DEF Moves, Fits, Goto, Places, InHand, Acting
  <2>3. /\ TasksKept
        /\ pc'[t] = "cancel" /\ stopID'[t] = tracked
        /\ \A u \in Tasks \ {t} : pc'[u] = pc[u] /\ qty'[u] = qty[u] /\ stopID'[u] = stopID[u]
    BY <2>2, MoveKeeps
  <2>4. TypeOK'
    BY <1>1, <1>2, <2>3 DEF IInv, TypeOK, TasksKept, CountKept, brokerVars
  <2>5. CancelledByOne'
    <3>1. SUFFICES ASSUME NEW u \in Tasks, pc'[u] \in InHand
                   PROVE  /\ stopID'[u] # tracked'
                          /\ \A v \in Tasks \ {u} : stopID'[v] # stopID'[u]
      BY DEF CancelledByOne, InHand
    <3>2. stopID'[u] # Nil
      BY <2>3, <3>1 DEF TasksKept, TaskInv
    <3>3. \A v \in Tasks \ {t} : stopID[v] # tracked
      BY <1>4 DEF IInv, CancelledByOne, TaskInv, InHand
    <3>4. CASE u = t
      BY <1>1, <2>3, <3>2, <3>3, <3>4
    <3>5. CASE u # t
      <4>1. pc[u] \in InHand
        BY <2>3, <3>1, <3>5
      <4>2. \A v \in Tasks \ {u} : stopID[v] # stopID[u]
        BY <4>1 DEF IInv, CancelledByOne, InHand
      <4>3. QED
        BY <1>1, <2>3, <3>2, <3>3, <3>5, <4>2
    <3>6. QED
      BY <3>4, <3>5
  <2>6. IsFiniteSet(stops') /\ DuplicatesBounded'
    BY <1>1, <1>2, <2>3, FewerKept
  <2>7. QED
    BY <1>2, <2>3, <2>4, <2>5, <2>6 DEF IInv, TasksKept, CountKept
<1>5. QED
  BY <1>3, <1>4 DEF UntrackStop

LEMMA CancelStopKept ==
  ASSUME IInv, NEW t \in Tasks, CancelStop(t)
  PROVE  IInv'
<1>1. /\ pc[t] \in Acting /\ Leave(t) /\ stopID' = [stopID EXCEPT ![t] = Nil]
      /\ stops' \subseteq stops /\ UNCHANGED <<brokerVars, mode, ledger, tracked>>
  BY DEF CancelStop, Acting
<1>2. CountKept
  BY CountsKeep DEF CancelStop, Fails, Counted
<1>3. StateTyped
  BY <1>1 DEF StateTyped, IInv, TypeOK, brokerVars
<1>4. QED
  BY <1>1, <1>2, <1>3, LeaveStep

-----------------------------------------------------------------------------
(* The other steps of one goroutine t, which has no stop in hand.          *)

LEMMA GoingStep ==
  ASSUME IInv, NEW t \in Tasks, NEW l \in Places, NEW q \in Int \cup {Nil},
         pc[t] \notin InHand, l \notin InHand \cup {"post"},
         l \in Acting => q \in Int,
         l = "check" => q # 0 /\ t \notin Closers,
         pc' = [pc EXCEPT ![t] = l], qty' = [qty EXCEPT ![t] = q], stopID' = stopID,
         StateTyped, CountKept, stops' = stops, tracked' = tracked
  PROVE  IInv'
<1>1. Moves(t, l, q, Nil) /\ Fits(t, l, q, Nil)
  BY NothingInHand DEF Moves, Fits
<1>2. /\ TasksKept /\ pc'[t] = l
      /\ \A u \in Tasks \ {t} : pc'[u] = pc[u] /\ qty'[u] = qty[u] /\ stopID'[u] = stopID[u]
  BY <1>1, MoveKeeps
<1>3. QED
  BY <1>2, PlainStep

LEMMA QtyStays ==
  ASSUME IInv, NEW t \in Tasks, qty' = qty
  PROVE  qty' = [qty EXCEPT ![t] = qty[t]] /\ qty[t] \in Int \cup {Nil}
BY DEF IInv, TypeOK

LEMMA ApplyFillKept ==
  ASSUME IInv, NEW t \in Dispatchers, ApplyFill(t)
  PROVE  IInv'
<1>1. t \in Tasks /\ CountKept
  BY TaskFacts, CountsKeep DEF ApplyFill
<1>2. StateTyped
  <2>1. Head(fills) \in Int /\ Tail(fills) \in Seq(Int)
    BY HeadTailProperties DEF ApplyFill, IInv, TypeOK
  <2>2. Head(fills) * Lot \in Int
    BY <2>1, LotType
  <2>3. ledger' \in Int
    BY <2>2 DEF ApplyFill, IInv, TypeOK
  <2>4. QED
    BY <2>1, <2>3 DEF ApplyFill, StateTyped, IInv, TypeOK
<1>3. QED
  BY <1>1, <1>2, QtyStays, GoingStep DEF ApplyFill, Goto, Places, InHand, Acting

\* A position read: protect it or, if it is zero, cancel the stop.
LEMMA ProtectPlace ==
  ASSUME NEW q \in Int
  PROVE  /\ Protect(q) \in Places \ (InHand \cup {"post"})
         /\ Protect(q) = "check" => q # 0
BY DEF Protect, Places, InHand

LEMMA SnapshotLedgerKept ==
  ASSUME IInv, NEW t \in Dispatchers, SnapshotLedger(t)
  PROVE  IInv'
<1>1. t \in Tasks /\ t \notin Closers /\ CountKept /\ ledger \in Int
  BY TaskFacts, CountsKeep DEF SnapshotLedger, IInv, TypeOK
<1>2. StateTyped
  BY DEF SnapshotLedger, StateTyped, IInv, TypeOK, brokerVars
<1>3. pc[t] = "snapshot"
  BY DEF SnapshotLedger
<1>4. QED
  BY <1>1, <1>2, <1>3, ProtectPlace, GoingStep DEF SnapshotLedger, Goto, InHand

LEMMA GetPositionsKept ==
  ASSUME IInv, GetPositions
  PROVE  IInv'
<1>1. Reconciler \in Tasks /\ CountKept /\ pos \in Int
  BY TaskFacts, CountsKeep DEF GetPositions, IInv, TypeOK
<1>2. StateTyped
  BY DEF GetPositions, StateTyped, IInv, TypeOK, brokerVars
<1>3. QED
  BY <1>1, <1>2, GoingStep DEF GetPositions, Goto, Places, InHand

LEMMA GetPositionsFailsKept ==
  ASSUME IInv, GetPositionsFails
  PROVE  IInv'
<1>1. CountKept
  BY CountsKeep DEF GetPositionsFails, Fails, Counted
<1>2. TasksKept
  BY StayKeeps DEF GetPositionsFails
<1>3. StateTyped
  BY DEF GetPositionsFails, StateTyped, IInv, TypeOK, brokerVars, Modes
<1>4. QED
  BY <1>1, <1>2, <1>3, PlainStep DEF GetPositionsFails, taskVars

LEMMA SyncLedgerKept ==
  ASSUME IInv, SyncLedger
  PROVE  IInv'
<1>1. /\ Reconciler \in Tasks /\ Reconciler \notin Closers /\ CountKept
      /\ pc[Reconciler] = "sync" /\ qty[Reconciler] \in Int
      /\ UNCHANGED <<stops, tracked, stopID>>
  BY TaskFacts, CountsKeep DEF SyncLedger, IInv, TaskInv, Acting
<1>2. StateTyped
  BY <1>1 DEF SyncLedger, Reconciled, StateTyped, IInv, TypeOK, brokerVars, Modes, Running
<1>3. CASE Goto(Reconciler, Protect(qty[Reconciler])) /\ UNCHANGED qty
  BY <1>1, <1>2, <1>3, ProtectPlace, QtyStays, GoingStep DEF Goto, InHand
<1>4. CASE Leave(Reconciler)
  BY <1>1, <1>2, <1>4, NothingInHand, LeaveStep DEF Acting, InHand
<1>5. QED
  BY <1>3, <1>4 DEF SyncLedger

LEMMA StartTradingKept ==
  ASSUME IInv, StartTrading
  PROVE  IInv'
<1>1. CountKept /\ TasksKept
  BY CountsKeep, StayKeeps DEF StartTrading
<1>2. StateTyped
  BY DEF StartTrading, StateTyped, IInv, TypeOK, brokerVars, Modes, Running
<1>3. QED
  BY <1>1, <1>2, PlainStep DEF StartTrading, taskVars

LEMMA LossLimitKept ==
  ASSUME IInv, LossLimit
  PROVE  IInv'
<1>1. Watchdog \in Tasks /\ CountKept
  BY TaskFacts, CountsKeep DEF LossLimit, Counted
<1>2. StateTyped
  BY DEF LossLimit, StateTyped, IInv, TypeOK, brokerVars
<1>3. QED
  BY <1>1, <1>2, QtyStays, GoingStep DEF LossLimit, Goto, Places, InHand, Acting

LEMMA ManualFlattenKept ==
  ASSUME IInv, ManualFlatten
  PROVE  IInv'
<1>1. Operator \in Tasks /\ CountKept
  BY TaskFacts, CountsKeep DEF ManualFlatten, Counted
<1>2. StateTyped
  BY DEF ManualFlatten, StateTyped, IInv, TypeOK, brokerVars
<1>3. QED
  BY <1>1, <1>2, QtyStays, GoingStep DEF ManualFlatten, Goto, Places, InHand, Acting

\* Where AfterFlatten takes a goroutine.
Over(t) == IF t = Watchdog THEN "stop" ELSE "idle"

LEMMA OverPlace ==
  ASSUME NEW t
  PROVE  Over(t) \in Places \ (InHand \cup {"post", "check"} \cup Acting)
BY DEF Over, Places, InHand, Acting

LEMMA FlattenPositionsKept ==
  ASSUME IInv, NEW t \in Closers, FlattenPositions(t)
  PROVE  IInv'
<1>1. /\ t \in Tasks /\ CountKept /\ pos \in Int /\ pc[t] = "flatten" /\ pc[t] \notin InHand
      /\ stopID' = stopID /\ stops' = stops /\ tracked' = tracked
  BY TaskFacts, CountsKeep DEF FlattenPositions, IInv, TypeOK, InHand, Fails, Counted
<1>2. StateTyped
  BY DEF FlattenPositions, StateTyped, IInv, TypeOK, brokerVars
<1>3. CASE qty' = [qty EXCEPT ![t] = pos] /\ Goto(t, "orders")
  BY <1>1, <1>2, <1>3, GoingStep DEF Goto, Places, InHand
<1>4. CASE AfterFlatten(t) /\ UNCHANGED qty
  BY <1>1, <1>2, <1>4, QtyStays, OverPlace, GoingStep DEF AfterFlatten, Goto, Over
<1>5. QED
  BY <1>3, <1>4 DEF FlattenPositions

LEMMA CancelOrdersKept ==
  ASSUME IInv, NEW t \in Closers, CancelOrders(t)
  PROVE  IInv'
<1>1. /\ t \in Tasks /\ CountKept /\ pc[t] = "orders" /\ pc[t] \notin InHand
      /\ stopID' = stopID /\ stops' = stops /\ tracked' = tracked /\ qty' = qty
      /\ qty[t] \in Int
  BY TaskFacts, CountsKeep
     DEF CancelOrders, IInv, TypeOK, TaskInv, InHand, Acting, Fails, Counted
<1>2. StateTyped
  <2>1. active' \in [Senders -> Int]
    <3>1. CASE active' = [o \in Senders |-> 0]
      BY <3>1
    <3>2. CASE \E kept \in Senders :
                 active' = [o \in Senders |-> IF o = kept THEN active[o] ELSE 0]
      BY <3>2 DEF IInv, TypeOK
    <3>3. QED
      BY <3>1, <3>2 DEF CancelOrders
  <2>2. QED
    BY <2>1 DEF CancelOrders, StateTyped, IInv, TypeOK
<1>3. CASE qty[t] = 0
  BY <1>1, <1>2, <1>3, QtyStays, OverPlace, GoingStep DEF CancelOrders, AfterFlatten, Goto, Over
<1>4. CASE qty[t] # 0
  BY <1>1, <1>2, <1>4, QtyStays, GoingStep DEF CancelOrders, Goto, Places, InHand
<1>5. QED
  BY <1>3, <1>4

LEMMA ClosePositionKept ==
  ASSUME IInv, NEW t \in Closers, ClosePosition(t)
  PROVE  IInv'
<1>1. /\ t \in Tasks /\ CountKept /\ pc[t] = "close" /\ pc[t] \notin InHand
      /\ stopID' = stopID /\ stops' = stops /\ tracked' = tracked
      /\ qty[t] \in Int
  BY TaskFacts, CountsKeep
     DEF ClosePosition, IInv, TypeOK, TaskInv, InHand, Acting, Fails, Counted
<1>2. StateTyped
  <2>1. active' \in [Senders -> Int]
    BY <1>1 DEF ClosePosition, IInv, TypeOK
  <2>2. QED
    BY <2>1 DEF ClosePosition, StateTyped, IInv, TypeOK
<1>3. pc' = [pc EXCEPT ![t] = Over(t)]
  BY DEF ClosePosition, AfterFlatten, Goto, Over
<1>4. CASE qty' = [qty EXCEPT ![t] = Nil]
  BY <1>1, <1>2, <1>3, <1>4, OverPlace, GoingStep
<1>5. CASE qty' = qty
  BY <1>1, <1>2, <1>3, <1>5, QtyStays, OverPlace, GoingStep
<1>6. QED
  BY <1>4, <1>5 DEF ClosePosition

LEMMA StopInstanceKept ==
  ASSUME IInv, StopInstance
  PROVE  IInv'
<1>1. Watchdog \in Tasks /\ CountKept
  BY TaskFacts, CountsKeep DEF StopInstance
<1>2. StateTyped
  BY DEF StopInstance, StateTyped, IInv, TypeOK, brokerVars, Modes
<1>3. QED
  BY <1>1, <1>2, GoingStep DEF StopInstance, Goto, Places, InHand, Acting

LEMMA RestartKept ==
  ASSUME IInv, Restart
  PROVE  IInv'
<1>1. CountKept
  BY CountsKeep DEF Restart, Counted
<1>2. \A t \in Tasks : pc'[t] = "idle" /\ qty'[t] = Nil /\ stopID'[t] = Nil
  BY DEF Restart, Memory
<1>3. TasksKept
  <2>1. /\ pc' \in [Tasks -> Places] /\ qty' \in [Tasks -> Int \cup {Nil}]
        /\ stopID' \in [Tasks -> StopIDs \cup {Nil}]
    BY DEF Restart, Memory, Places
  <2>2. QED
    BY <1>2, <2>1 DEF TasksKept, TaskInv, Acting, InHand
<1>4. StateTyped
  <2>1. <<>> \in Seq(Int)
    BY EmptySeq
  <2>2. QED
    BY <2>1 DEF Restart, StateTyped, IInv, TypeOK, Modes, Running
<1>5. QED
  BY <1>1, <1>2, <1>3, <1>4, PlainStep DEF Restart

-----------------------------------------------------------------------------
(* The invariant of the specification.                                     *)

LEMMA InitIInv == Init => IInv
<1>1. SUFFICES ASSUME Init PROVE IInv
  OBVIOUS
<1>2. PICK s \in Scenarios : count = [setup |-> s, used |-> [k \in Counted |-> 0]]
  BY <1>1 DEF Init
<1>3. \A t \in Tasks : pc[t] = "idle" /\ qty[t] = Nil /\ stopID[t] = Nil
  BY <1>1 DEF Init, Memory
<1>4. TypeOK
  <2>1. <<>> \in Seq(Int)
    BY EmptySeq
  <2>2. count.setup \in Scenarios
    BY <1>2
  <2>3. count.used \in [Counted -> Nat]
    BY <1>2
  <2>4. /\ pc \in [Tasks -> Places] /\ qty \in [Tasks -> Int \cup {Nil}]
        /\ stopID \in [Tasks -> StopIDs \cup {Nil}]
    BY <1>1 DEF Init, Memory, Places
  <2>5. QED
    BY <1>1, <2>1, <2>2, <2>3, <2>4 DEF Init, TypeOK, Modes, Running
<1>5. \A t \in Tasks : TaskInv(t)
  BY <1>3 DEF TaskInv, Acting, InHand
<1>6. CountOK
  BY <1>2 DEF CountOK
<1>7. IsFiniteSet(stops)
  BY <1>1, FS_EmptySet DEF Init
<1>8. CancelledByOne
  BY <1>3 DEF CancelledByOne
<1>9. DuplicatesBounded
  <2>1. SUFFICES ASSUME NEW sign \in {-1, 1}
                 PROVE  Cardinality(StopsOf(sign)) + Cardinality(Posting(sign))
                          <= Cardinality(MayPost) + count.used["lists"]
    BY DEF DuplicatesBounded, MayPost
  <2>2. StopsOf(sign) = {} /\ Posting(sign) = {}
    BY <1>1, <1>3 DEF Init, StopsOf, Posting
  <2>3. count.used["lists"] = 0
    BY <1>2 DEF Counted
  <2>4. QED
    BY <2>2, <2>3, FS_EmptySet, MayPostFinite
<1>10. QED
  BY <1>4, <1>5, <1>6, <1>7, <1>8, <1>9 DEF IInv

LEMMA StutterKept ==
  ASSUME IInv, UNCHANGED vars
  PROVE  IInv'
<1>1. UNCHANGED <<pos, active, fills, stops, mode, ledger, tracked, pc, qty, stopID, count>>
  BY DEF vars, brokerVars, taskVars
<1>2. CountKept /\ TasksKept
  BY <1>1, CountsKeep, StayKeeps DEF taskVars
<1>3. StateTyped
  BY <1>1 DEF StateTyped, IInv, TypeOK
<1>4. QED
  BY <1>1, <1>2, <1>3, PlainStep

LEMMA NextIInv == IInv /\ [Next]_vars => IInv'
<1>1. SUFFICES ASSUME IInv, [Next]_vars
               PROVE  IInv'
  OBVIOUS
<1>2. CASE Broker
  BY <1>1, <1>2, SendOrderKept, ExecuteOrderKept, StopFiresKept, LoseFillKept DEF Broker
<1>3. CASE \E t \in Tasks : KeepStops(t)
  BY <1>1, <1>3, SkipStopKept, CheckStopsKept, PostStopOrderKept, PostStopOrderFailsKept,
     TrackStopKept, UntrackStopKept, CancelStopKept DEF KeepStops
<1>4. CASE \E t \in Dispatchers : Dispatch(t)
  BY <1>1, <1>4, ApplyFillKept, SnapshotLedgerKept DEF Dispatch
<1>5. CASE Sync \/ GetPositionsFails
  BY <1>1, <1>5, GetPositionsKept, GetPositionsFailsKept, SyncLedgerKept, StartTradingKept
     DEF Sync
<1>6. CASE \E t \in Closers : Flatten(t)
  BY <1>1, <1>6, FlattenPositionsKept, CancelOrdersKept, ClosePositionKept DEF Flatten
<1>7. CASE LossLimit \/ ManualFlatten \/ StopInstance \/ Restart
  BY <1>1, <1>7, LossLimitKept, ManualFlattenKept, StopInstanceKept, RestartKept
<1>8. CASE UNCHANGED vars
  BY <1>1, <1>8, StutterKept
<1>9. QED
  BY <1>1, <1>2, <1>3, <1>4, <1>5, <1>6, <1>7, <1>8 DEF Next, Continue

\* The inductive invariant holds in every reachable state.
THEOREM Invariant == Spec => []IInv
BY InitIInv, NextIInv, PTL DEF Spec

\* The types of the model: the code never asks for a stop order of zero lots.
THEOREM TypeCorrect == Spec => []TypeOK
<1>1. IInv => TypeOK
  BY DEF IInv
<1>2. QED
  BY <1>1, Invariant, PTL

\* However many goroutines run ensureProtectiveStop and
\* cancelTrackedProtectiveStop at once, a tracked stop order is taken out of
\* Runner.stopOrders by one of them, and none is tracked again once cancelled.
THEOREM OneCanceller == Spec => []CancelledByOne
<1>1. IInv => CancelledByOne
  BY DEF IInv
<1>2. QED
  BY <1>1, Invariant, PTL

\* The duplicate stop orders that ensureProtectiveStop can leave at the broker
\* are bounded by the goroutines that post and the listings that failed.
THEOREM FewDuplicates == Spec => []DuplicatesBounded
<1>1. IInv => DuplicatesBounded
  BY DEF IInv
<1>2. QED
  BY <1>1, Invariant, PTL
=============================================================================
