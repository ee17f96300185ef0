----------------------- MODULE StrategyOrders_proofs -----------------------
(***************************************************************************)
(* What an instance and its orders keep, for every strategy it may run,    *)
(* every market and every bound.  Nothing is used of prices: which branch  *)
(* a strategy takes is left open, what it leaves pending is not.           *)
(***************************************************************************)
EXTENDS StrategyOrders, SequenceTheorems, FiniteSetTheorems, TLAPS

-----------------------------------------------------------------------------
(* The inductive invariant.                                                *)

\* The part of a strategy's state that orders depend on.
Fields == {"kind", "pos", "entry", "exit"}
StrategyOK(S) ==
  /\ Fields \subseteq DOMAIN S
  /\ S.kind \in Kinds /\ S.pos \in -1 .. 1 /\ S.entry \in -1 .. 1 /\ S.exit \in BOOLEAN
  /\ S.entry # 0 => ~S.exit

Signals == [dir : {-1, 1}, exit : BOOLEAN, lots : {1, 2}, eod : BOOLEAN]
Statuses == {"new", "partially_filled", "filled", "cancelled", "rejected"}
OrderShape == [dir : {-1, 1}, lots : {1, 2}, exit : BOOLEAN, filled : 0 .. 2, status : Statuses]
Stamp(k, b) == [high |-> k.high, low |-> k.low, close |-> k.close, day |-> b.day, late |-> b.late]
Ticks == UNION {Candles[s] : s \in Kinds}
Times == UNION {{Phases[s][p] : p \in DOMAIN Phases[s]} : s \in Kinds}
Stamped == UNION {{Stamp(k, b) : b \in Times} : k \in Ticks}
Items == [do : {"live", "bar"}, candle : Stamped] \cup [do : {"dispatch"}, signal : Signals]

Shapes ==
  /\ StrategyOK(strat)
  /\ work \in Seq(Items) /\ pending \in Stamped \cup {Nil}
  /\ orders \in Seq(OrderShape) /\ owned \subseteq DOMAIN orders
  /\ phase \in DOMAIN Phases[strat.kind]
  /\ pos \in Int /\ (snapshot # Nil => snapshot.pos \in Int)
  /\ disturbed \in BOOLEAN /\ shut \in BOOLEAN /\ reversed \in BOOLEAN
  /\ count \in [{"candles", "troubles"} -> Nat]
  /\ count["candles"] <= MaxCandles[strat.kind] /\ count["troubles"] <= MaxTroubles

\* An order has executed what its status says.
OrderOK(q) ==
  /\ q.filled <= q.lots
  /\ q.status = "filled" <=> q.filled = q.lots
  /\ q.status = "new" => q.filled = 0
OrdersOK == \A o \in DOMAIN orders : OrderOK(orders[o])

\* A report was true of its order, and its end stays so.
ReportOK(r) ==
  /\ r.order \in DOMAIN orders /\ r.status \in Statuses \ {"new"}
  /\ orders[r.order].status # "new"
  /\ Terminal(r.status) => orders[r.order].status = r.status
ReportsOK == \A r \in inHand : ReportOK(r)

\* The position has moved by one lot for each lot executed, or not at all.
Executed == UNION {{o} \X (1 .. orders[o].filled) : o \in DOMAIN orders}
PositionBounded == /\ IsFiniteSet(Executed)
                   /\ pos \in -Cardinality(Executed) .. Cardinality(Executed)

\* Undisturbed, a strategy waits for its only signal, or for its last order.
InFlight ==
  ~disturbed =>
    /\ Dispatching \subseteq {1}
    /\ Dispatching # {} => ~Flat(strat)
    /\ \A o \in DOMAIN orders : IsOpen(o) => o = Len(orders) /\ Dispatching = {} /\ ~Flat(strat)

\* What a strategy waits for is what it has asked for: to leave its position, or
\* to take one, from none or from the other side.
Asked(S, q) ==
  IF q.exit THEN S.exit /\ S.entry = 0 /\ S.pos # 0 /\ q.dir = -S.pos /\ q.lots = 1
  ELSE ~S.exit /\ S.entry = q.dir /\ (S.pos = 0 \/ S.pos = -q.dir)

\* ... with as many lots as bring it there.
Waits(S, q) == Asked(S, q) /\ (~q.exit => q.lots = IF S.pos = 0 THEN 1 ELSE 2)

Went(q) == IF q.dir = 1 THEN q.filled ELSE 0 - q.filled

\* Undisturbed, and with nothing shut or reversed, the broker's position is the
\* one believed, and what the last order has moved it since.
Calm == ~disturbed /\ ~shut /\ ~reversed
Believed ==
  Calm =>
    /\ Dispatching # {} => Waits(strat, work[1].signal) /\ pos = strat.pos
    /\ Flat(strat) => pos = strat.pos
    /\ (Dispatching = {} /\ ~Flat(strat)) =>
         /\ orders # <<>>
         /\ LET q == orders[Len(orders)]
            IN /\ Waits(strat, q) /\ pos = strat.pos + Went(q)
               /\ q.status \in {"cancelled", "rejected"} => q.filled = 0

IInv == Shapes /\ OrdersOK /\ ReportsOK /\ PositionBounded /\ InFlight /\ Believed

-----------------------------------------------------------------------------
(* The strategies: a method that returns a signal was called with nothing  *)
(* pending and leaves pending what it signals.                             *)

Same(S, T) == /\ StrategyOK(T) /\ T.kind = S.kind /\ T.pos = S.pos
              /\ T.entry = S.entry /\ T.exit = S.exit

\* A crossover that turns trades its quantity once.
Turned(S, T) == S.kind = "sma" /\ S.pos # 0 /\ T.entry # S.entry

Signalled(S, r) ==
  \/ r[2] = <<>> /\ Same(S, r[1])
  \/ /\ Flat(S) /\ ~Flat(r[1]) /\ StrategyOK(r[1]) /\ r[1].kind = S.kind /\ r[1].pos = S.pos
     /\ \E sig \in Signals : /\ r[2] = <<sig>> /\ Asked(r[1], sig)
                             /\ Waits(r[1], sig) \/ Turned(S, r[1])

LEMMA OtherField ==
  ASSUME NEW S, StrategyOK(S), NEW f, f \notin Fields, NEW v
  PROVE  Same(S, [S EXCEPT ![f] = v])
<1>1. PICK T : T = [S EXCEPT ![f] = v]
  OBVIOUS
<1>2. DOMAIN T = DOMAIN S /\ T.kind = S.kind /\ T.pos = S.pos /\ T.entry = S.entry /\ T.exit = S.exit
  BY <1>1 DEF StrategyOK, Fields
<1>3. QED
  BY <1>1, <1>2 DEF StrategyOK, Same

LEMMA SameTwice ==
  ASSUME NEW S, NEW T, NEW U, Same(S, T), Same(T, U)
  PROVE  Same(S, U)
BY DEF Same

LEMMA SetExit ==
  ASSUME NEW S, StrategyOK(S), S.entry = 0, NEW T, T = [S EXCEPT !.exit = TRUE]
  PROVE  StrategyOK(T) /\ T.kind = S.kind /\ T.pos = S.pos /\ T.entry = 0 /\ T.exit = TRUE
BY DEF StrategyOK, Fields

LEMMA SetEntry ==
  ASSUME NEW S, StrategyOK(S), ~S.exit, NEW dir \in {-1, 1}, NEW T, T = [S EXCEPT !.entry = dir]
  PROVE  StrategyOK(T) /\ T.kind = S.kind /\ T.pos = S.pos /\ T.entry = dir /\ ~T.exit
BY DEF StrategyOK, Fields

LEMMA SmaTrail ==
  ASSUME NEW S, StrategyOK(S), Flat(S), NEW favourable, NEW touching, NEW close
  PROVE  Signalled(S, Sma!Trail(S, favourable, touching, close))
<1>1. PICK r : r = Sma!Trail(S, favourable, touching, close)
  OBVIOUS
<1>2. CASE TrailNum = 0 \/ S.pos = 0
  <2>1. r = <<S, <<>>>>
    BY <1>1, <1>2 DEF Sma!Trail
  <2>2. QED
    BY <1>1, <2>1 DEF Signalled, Same
<1>3. CASE ~(TrailNum = 0 \/ S.pos = 0)
  <2>1. PICK best : \/ r = <<[[S EXCEPT !.best = best] EXCEPT !.exit = TRUE], <<Sma!Signal(-S.pos, TRUE)>>>>
                    \/ r = <<[S EXCEPT !.best = best], <<>>>>
    BY <1>1, <1>3, Zenon DEF Sma!Trail
  <2>2. PICK T : T = [S EXCEPT !.best = best]
    OBVIOUS
  <2>3. Same(S, T)
    <3>1. "best" \notin Fields
      BY DEF Fields
    <3>2. Same(S, [S EXCEPT !["best"] = best])
      BY <3>1, OtherField
    <3>3. QED
      BY <2>2, <3>2
  <2>4. CASE r = <<[S EXCEPT !.best = best], <<>>>>
    BY <1>1, <2>2, <2>3, <2>4 DEF Signalled
  <2>5. CASE r = <<[[S EXCEPT !.best = best] EXCEPT !.exit = TRUE], <<Sma!Signal(-S.pos, TRUE)>>>>
    <3>1. PICK U : U = [T EXCEPT !.exit = TRUE]
      OBVIOUS
    <3>2. PICK sig : sig = Sma!Signal(-S.pos, TRUE)
      OBVIOUS
    <3>3. r = <<U, <<sig>>>>
      BY <2>2, <2>5, <3>1, <3>2
    <3>4. StrategyOK(U) /\ U.kind = S.kind /\ U.pos = S.pos /\ U.entry = 0 /\ U.exit = TRUE
      BY <2>3, <3>1, SetExit, ZenonT(40) DEF Same, Flat
    <3>5. sig \in Signals /\ sig.exit = TRUE /\ sig.dir = -S.pos /\ sig.lots = 1
      BY <1>3, <3>2 DEF Sma!Signal, Signals, StrategyOK
    <3>6. Waits(U, sig) /\ Asked(U, sig)
      BY <1>3, <3>4, <3>5 DEF Waits, Asked
    <3>7. QED
      BY <1>1, <3>3, <3>4, <3>5, <3>6 DEF Signalled, Flat
  <2>6. QED
    BY <2>1, <2>4, <2>5
<1>4. QED
  BY <1>2, <1>3

LEMMA SameSignalled ==
  ASSUME NEW S, NEW T, NEW r, Same(S, T), Signalled(T, r)
  PROVE  Signalled(S, r)
BY DEF Same, Signalled, Flat, Turned

LEMMA SmaEnter ==
  ASSUME NEW S, StrategyOK(S), Flat(S), NEW dir \in {-1, 1}, S.kind = "sma",
         S.pos = 0 \/ S.pos = -dir
  PROVE  Signalled(S, Sma!Enter(S, dir))
<1>1. PICK T : T = [S EXCEPT !.entry = dir, !.best = 0, !.structural = 0]
  OBVIOUS
<1>2. StrategyOK(T) /\ T.kind = S.kind /\ T.pos = S.pos /\ T.entry = dir /\ ~T.exit
  BY <1>1 DEF StrategyOK, Fields, Flat
<1>3. PICK sig : sig = Sma!Signal(dir, FALSE)
  OBVIOUS
<1>4. sig \in Signals /\ sig.exit = FALSE /\ sig.dir = dir /\ sig.lots = 1
  BY <1>3 DEF Sma!Signal, Signals
<1>5. Asked(T, sig) /\ (Waits(T, sig) \/ Turned(S, T))
  BY <1>2, <1>4 DEF Asked, Waits, Turned, Flat
<1>6. Sma!Enter(S, dir) = <<T, <<sig>>>>
  BY <1>1, <1>3 DEF Sma!Enter
<1>7. QED
  BY <1>2, <1>4, <1>5, <1>6 DEF Signalled, Flat

LEMMA SmaCross ==
  ASSUME NEW S, StrategyOK(S), Flat(S), S.kind = "sma"
  PROVE  Signalled(S, Sma!Cross(S))
<1>1. PICK r : r = Sma!Cross(S)
  OBVIOUS
<1>2. \/ r = <<S, <<>>>>
      \/ r = Sma!Enter(S, 1) /\ S.pos <= 0
      \/ r = Sma!Enter(S, -1) /\ S.pos >= 0
  BY <1>1, Zenon DEF Sma!Cross
<1>3. CASE r = <<S, <<>>>>
  BY <1>1, <1>3 DEF Signalled, Same
<1>4. CASE r = Sma!Enter(S, 1) /\ S.pos <= 0
  <2>1. S.pos = 0 \/ S.pos = -1
    BY <1>4 DEF StrategyOK
  <2>2. QED
    BY <1>1, <1>4, <2>1, SmaEnter
<1>5. CASE r = Sma!Enter(S, -1) /\ S.pos >= 0
  <2>1. S.pos = 0 \/ S.pos = -(-1)
    BY <1>5 DEF StrategyOK
  <2>2. QED
    BY <1>1, <1>5, <2>1, SmaEnter
<1>6. QED
  BY <1>2, <1>3, <1>4, <1>5

LEMMA SmaOnCandle ==
  ASSUME NEW S, StrategyOK(S), S.kind = "sma", NEW k
  PROVE  Signalled(S, Sma!OnCandle(S, k))
<1>1. PICK r : r = Sma!OnCandle(S, k)
  OBVIOUS
<1>2. CASE ~Flat(S)
  <2>1. r = <<S, <<>>>>
    BY <1>1, <1>2, Zenon DEF Sma!OnCandle, Sma!Idle, Flat
  <2>2. QED
    BY <1>1, <2>1 DEF Signalled, Same
<1>3. CASE Flat(S)
  <2>1. PICK c, h, T, trailed :
          /\ T = [S EXCEPT !.closes = c, !.history = h] /\ trailed = Sma!TrailBar(T, k)
          /\ \/ r = <<T, <<>>>>
             \/ r = trailed
             \/ trailed[2] = <<>> /\ r = Sma!Cross(trailed[1])
    BY <1>1, <1>3, Zenon DEF Sma!OnCandle, Sma!Idle, Flat
  <2>2. Same(S, T)
    BY <2>1 DEF Same, StrategyOK, Fields
  <2>3. StrategyOK(T) /\ Flat(T) /\ T.kind = "sma"
    BY <1>3, <2>2 DEF Same, Flat
  <2>4. Signalled(T, trailed)
    BY <2>1, <2>3, SmaTrail, Zenon DEF Sma!TrailBar
  <2>5. CASE r = <<T, <<>>>>
    BY <1>1, <2>2, <2>5 DEF Signalled
  <2>6. CASE r = trailed
    BY <1>1, <2>2, <2>4, <2>6, SameSignalled
  <2>7. CASE trailed[2] = <<>> /\ r = Sma!Cross(trailed[1])
    <3>1. PICK U : U = trailed[1]
      OBVIOUS
    <3>2. Same(T, U)
      BY <2>4, <2>7, <3>1 DEF Signalled
    <3>3. StrategyOK(U) /\ Flat(U) /\ U.kind = "sma" /\ Same(S, U)
      BY <2>2, <2>3, <3>2 DEF Same, Flat
    <3>4. Signalled(U, r)
      BY <2>7, <3>1, <3>3, SmaCross
    <3>5. QED
      BY <1>1, <3>3, <3>4, SameSignalled
  <2>8. QED
    BY <2>1, <2>5, <2>6, <2>7
<1>4. QED
  BY <1>2, <1>3

\* A live candle is only given to a crossover; its exit is one of any strategy.
LEMMA SmaOnLiveCandle ==
  ASSUME NEW S, StrategyOK(S), NEW k
  PROVE  Signalled(S, Sma!OnLiveCandle(S, k))
<1>1. CASE Flat(S)
  BY <1>1, SmaTrail, Zenon DEF Sma!OnLiveCandle, Sma!TrailLive, Sma!Idle, Flat
<1>2. CASE ~Flat(S)
  <2>1. Sma!OnLiveCandle(S, k) = <<S, <<>>>>
    BY <1>2, Zenon DEF Sma!OnLiveCandle, Sma!Idle, Flat
  <2>2. QED
    BY <2>1 DEF Signalled, Same
<1>3. QED
  BY <1>1, <1>2

LEMMA LbLeave ==
  ASSUME NEW S, StrategyOK(S), Flat(S), S.pos # 0, NEW eod \in BOOLEAN
  PROVE  Signalled(S, Lb!Leave(S, eod))
<1>1. PICK T, v : T = [S EXCEPT !.exit = TRUE, !.eodSent = v] /\ v = (S.eodSent \/ eod)
  OBVIOUS
<1>2. StrategyOK(T) /\ T.kind = S.kind /\ T.pos = S.pos /\ T.entry = 0 /\ T.exit
  BY <1>1 DEF StrategyOK, Fields, Flat
<1>3. PICK sig : sig = Lb!Signal(-S.pos, TRUE, eod)
  OBVIOUS
<1>4. sig \in Signals /\ sig.exit = TRUE /\ sig.dir = -S.pos /\ sig.lots = 1
  BY <1>3 DEF Lb!Signal, Signals, StrategyOK
<1>5. Asked(T, sig) /\ Waits(T, sig)
  BY <1>2, <1>4 DEF Asked, Waits
<1>6. Lb!Leave(S, eod) = <<T, <<sig>>>>
  BY <1>1, <1>3, Zenon DEF Lb!Leave
<1>7. QED
  BY <1>2, <1>4, <1>5, <1>6 DEF Signalled, Flat

LEMMA LbEnter ==
  ASSUME NEW S, StrategyOK(S), Flat(S), S.pos = 0, NEW k, NEW level, NEW dir \in {-1, 1}
  PROVE  Signalled(S, Lb!Enter(S, k, level, dir))
<1>1. PICK T, a, b, c : /\ T = [S EXCEPT !.entry = dir, !.stop = a, !.target = b, !.last = c]
                        /\ a = Lb!StopAt(S, level, dir) /\ b = Lb!TargetAt(S, k.close, dir)
                        /\ c = <<S.day, dir, level>>
  OBVIOUS
<1>2. StrategyOK(T) /\ T.kind = S.kind /\ T.pos = S.pos /\ T.entry = dir /\ ~T.exit
  BY <1>1 DEF StrategyOK, Fields, Flat
<1>3. PICK sig : sig = Lb!Signal(dir, FALSE, FALSE)
  OBVIOUS
<1>4. sig \in Signals /\ sig.exit = FALSE /\ sig.dir = dir /\ sig.lots = 1
  BY <1>3 DEF Lb!Signal, Signals
<1>5. Asked(T, sig) /\ Waits(T, sig)
  BY <1>2, <1>4 DEF Asked, Waits
<1>6. Lb!Enter(S, k, level, dir) = <<T, <<sig>>>>
  BY <1>1, <1>3, Zenon DEF Lb!Enter
<1>7. QED
  BY <1>2, <1>4, <1>5, <1>6 DEF Signalled, Flat

LEMMA LbOnCandle ==
  ASSUME NEW S, StrategyOK(S), NEW k
  PROVE  Signalled(S, Lb!OnCandle(S, k))
<1>1. PICK r : r = Lb!OnCandle(S, k)
  OBVIOUS
<1>2. PICK T : T = IF k.day # S.day THEN [S EXCEPT !.day = k.day, !.eodSent = FALSE] ELSE S
  OBVIOUS
<1>3. Same(S, T) /\ StrategyOK(T)
  BY <1>2 DEF Same, StrategyOK, Fields
<1>4. \/ r = <<T, <<>>>>
      \/ T.entry = 0 /\ ~T.exit /\ T.pos # 0 /\ (r = Lb!Leave(T, TRUE) \/ r = Lb!Leave(T, FALSE))
      \/ T.entry = 0 /\ ~T.exit /\ T.pos = 0 /\ r = Lb!Bounce(T, k)
  BY <1>1, <1>2 DEF Lb!OnCandle
<1>5. CASE r = <<T, <<>>>>
  BY <1>1, <1>3, <1>5 DEF Signalled
<1>6. CASE T.entry = 0 /\ ~T.exit /\ T.pos # 0 /\ (r = Lb!Leave(T, TRUE) \/ r = Lb!Leave(T, FALSE))
  <2>1. Signalled(T, r)
    BY <1>3, <1>6, LbLeave DEF Flat
  <2>2. QED
    BY <1>1, <1>3, <2>1, SameSignalled
<1>7. CASE T.entry = 0 /\ ~T.exit /\ T.pos = 0 /\ r = Lb!Bounce(T, k)
  <2>1. PICK a, b : r = Lb!Enter(T, k, a, 1) \/ r = Lb!Enter(T, k, b, -1) \/ r = <<T, <<>>>>
    BY <1>7, Zenon DEF Lb!Bounce
  <2>2. Signalled(T, r)
    <3>1. Same(T, T)
      BY <1>3 DEF Same
    <3>2. CASE r = <<T, <<>>>>
      BY <3>1, <3>2 DEF Signalled
    <3>3. CASE r = Lb!Enter(T, k, a, 1) \/ r = Lb!Enter(T, k, b, -1)
      BY <1>3, <1>7, <3>3, LbEnter DEF Flat
    <3>4. QED
      BY <2>1, <3>2, <3>3
  <2>3. QED
    BY <1>1, <1>3, <2>2, SameSignalled
<1>8. QED
  BY <1>4, <1>5, <1>6, <1>7

LEMMA OrbEnter ==
  ASSUME NEW S, StrategyOK(S), Flat(S), NEW dir \in {-1, 1}, S.pos = 0 \/ S.pos = -dir
  PROVE  Signalled(S, Orb!Enter(S, dir))
<1>1. PICK T : T = [S EXCEPT !.entry = dir]
  OBVIOUS
<1>2. StrategyOK(T) /\ T.kind = S.kind /\ T.pos = S.pos /\ T.entry = dir /\ ~T.exit
  BY <1>1, SetEntry DEF Flat
<1>3. PICK n, sig : n = (IF S.pos = 0 THEN 1 ELSE 2) /\ sig = Orb!Signal(dir, FALSE, n)
  OBVIOUS
<1>4. sig \in Signals /\ sig.exit = FALSE /\ sig.dir = dir /\ sig.lots = n
  BY <1>3 DEF Orb!Signal, Signals
<1>5. Asked(T, sig) /\ Waits(T, sig)
  BY <1>2, <1>3, <1>4 DEF Asked, Waits
<1>6. Orb!Enter(S, dir) = <<T, <<sig>>>>
  BY <1>1, <1>3, Zenon DEF Orb!Enter
<1>7. QED
  BY <1>2, <1>4, <1>5, <1>6 DEF Signalled, Flat

LEMMA OrbOnCandle ==
  ASSUME NEW S, StrategyOK(S), NEW k
  PROVE  Signalled(S, Orb!OnCandle(S, k))
<1>1. PICK r : r = Orb!OnCandle(S, k)
  OBVIOUS
<1>2. CASE ~Flat(S)
  <2>1. r = <<S, <<>>>>
    BY <1>1, <1>2, Zenon DEF Orb!OnCandle, Orb!Idle, Flat
  <2>2. QED
    BY <1>1, <2>1 DEF Signalled, Same
<1>3. CASE Flat(S)
  <2>1. PICK T : T = Orb!OnDay(S, k)
    OBVIOUS
  <2>2. Same(S, T) /\ StrategyOK(T) /\ Flat(T)
    BY <1>3, <2>1 DEF Same, StrategyOK, Fields, Flat, Orb!OnDay
  <2>3. \/ r = <<[Orb!Observe(T, k) EXCEPT !.bars = @ + 1], <<>>>>
        \/ r = <<T, <<>>>>
        \/ T.pos # 0 /\ r = <<[T EXCEPT !.eodSent = TRUE, !.exit = TRUE], <<Orb!Signal(-T.pos, TRUE, 1)>>>>
        \/ T.pos <= 0 /\ r = Orb!Enter(T, 1)
        \/ T.pos >= 0 /\ r = Orb!Enter(T, -1)
    BY <1>1, <1>3, <2>1, Zenon DEF Orb!OnCandle, Orb!Idle, Flat
  <2>4. CASE r = <<[Orb!Observe(T, k) EXCEPT !.bars = @ + 1], <<>>>>
    <3>1. PICK a, b, c, V : V = [T EXCEPT !.high = a, !.low = b, !.bars = c] /\ r = <<V, <<>>>>
      <4>1. PICK V, W, n : V = Orb!Observe(T, k) /\ W = [V EXCEPT !.bars = n] /\ n = V.bars + 1
        OBVIOUS
      <4>2. r = <<W, <<>>>>
        BY <2>4, <4>1
      <4>3. PICK a, b : V = [T EXCEPT !.high = a, !.low = b]
        BY <4>1, Zenon DEF Orb!Observe
      <4>4. QED
        BY <4>1, <4>2, <4>3
    <3>2. Same(T, V)
      BY <2>2, <3>1 DEF Same, StrategyOK, Fields
    <3>3. QED
      BY <1>1, <2>2, <3>1, <3>2, SameTwice DEF Signalled
  <2>5. CASE r = <<T, <<>>>>
    BY <1>1, <2>2, <2>5 DEF Signalled
  <2>6. CASE T.pos # 0 /\ r = <<[T EXCEPT !.eodSent = TRUE, !.exit = TRUE], <<Orb!Signal(-T.pos, TRUE, 1)>>>>
    <3>1. PICK U, sig : U = [T EXCEPT !.eodSent = TRUE, !.exit = TRUE] /\ sig = Orb!Signal(-T.pos, TRUE, 1)
      OBVIOUS
    <3>2. StrategyOK(U) /\ U.kind = S.kind /\ U.pos = S.pos /\ U.entry = 0 /\ U.exit
      BY <2>2, <3>1 DEF StrategyOK, Fields, Flat, Same
    <3>3. sig \in Signals /\ sig.exit = TRUE /\ sig.dir = -S.pos /\ sig.lots = 1
      BY <2>2, <2>6, <3>1 DEF Orb!Signal, Signals, StrategyOK, Same
    <3>4. Asked(U, sig) /\ Waits(U, sig)
      BY <2>2, <2>6, <3>2, <3>3 DEF Asked, Waits, Same
    <3>5. r = <<U, <<sig>>>>
      BY <2>6, <3>1
    <3>6. QED
      BY <1>1, <1>3, <3>2, <3>3, <3>4, <3>5 DEF Signalled, Flat
  <2>7. CASE T.pos <= 0 /\ r = Orb!Enter(T, 1)
    <3>1. T.pos = 0 \/ T.pos = -1
      BY <2>2, <2>7 DEF StrategyOK
    <3>2. Signalled(T, r)
      BY <2>2, <2>7, <3>1, OrbEnter
    <3>3. QED
      BY <1>1, <2>2, <3>2, SameSignalled
  <2>8. CASE T.pos >= 0 /\ r = Orb!Enter(T, -1)
    <3>1. T.pos = 0 \/ T.pos = -(-1)
      BY <2>2, <2>8 DEF StrategyOK
    <3>2. Signalled(T, r)
      BY <2>2, <2>8, <3>1, OrbEnter
    <3>3. QED
      BY <1>1, <2>2, <3>2, SameSignalled
  <2>9. QED
    BY <2>3, <2>4, <2>5, <2>6, <2>7, <2>8
<1>4. QED
  BY <1>2, <1>3

LEMMA KindIs ==
  ASSUME NEW S, StrategyOK(S)
  PROVE  S.kind = "sma" \/ S.kind = "lb" \/ S.kind = "orb"
BY OrdersAssumption DEF OrdersAssumption, StrategyOK

LEMMA CandleSignals ==
  ASSUME NEW S, StrategyOK(S), NEW k
  PROVE  Signalled(S, OnCandle(S, k))
<1>1. CASE S.kind = "sma"
  <2>1. OnCandle(S, k) = Sma!OnCandle(S, k)
    BY <1>1 DEF OnCandle
  <2>2. QED
    BY <1>1, <2>1, SmaOnCandle
<1>2. CASE S.kind = "lb"
  <2>1. OnCandle(S, k) = Lb!OnCandle(S, k)
    BY <1>2 DEF OnCandle
  <2>2. QED
    BY <2>1, LbOnCandle
<1>3. CASE S.kind = "orb"
  <2>1. OnCandle(S, k) = Orb!OnCandle(S, k)
    BY <1>3 DEF OnCandle
  <2>2. QED
    BY <2>1, OrbOnCandle
<1>4. QED
  BY <1>1, <1>2, <1>3, KindIs

\* A report takes a position that was held or asked for, and lets flags go.
Moved(S, T) ==
  /\ Fields \subseteq DOMAIN T /\ T.kind = S.kind
  /\ T.pos = S.pos \/ T.pos = S.entry \/ T.pos = 0
  /\ T.entry = S.entry \/ T.entry = 0
  /\ T.exit = S.exit \/ T.exit = FALSE

LEMMA MovedOK ==
  ASSUME NEW S, StrategyOK(S), NEW T, Moved(S, T)
  PROVE  StrategyOK(T) /\ T.kind = S.kind
<1>1. T.pos \in -1 .. 1 /\ T.entry \in -1 .. 1
  BY DEF Moved, StrategyOK
<1>2. T.exit \in BOOLEAN
  BY Zenon DEF Moved, StrategyOK
<1>3. T.entry # 0 => ~T.exit
  <2>1. CASE T.exit = FALSE
    BY <2>1
  <2>2. CASE T.exit = S.exit
    BY <2>2 DEF Moved, StrategyOK
  <2>3. QED
    BY <2>1, <2>2 DEF Moved
<1>4. QED
  BY <1>1, <1>2, <1>3 DEF Moved, StrategyOK

\* The end of an order that is filled gives what was waited for; one that is not
\* filled, which bounce and breakout do not always look at, changes no belief.
Answered(S, status, T) ==
  /\ StrategyOK(T) /\ T.kind = S.kind
  /\ (status = "filled" /\ ~Flat(S)) => Flat(T) /\ T.pos = IF S.exit THEN 0 ELSE S.entry
  /\ (status \in {"cancelled", "rejected"} /\ ~Flat(S)) => Same(S, T) \/ (Flat(T) /\ T.pos = S.pos)

LEMMA ReportAnswered ==
  ASSUME NEW S, StrategyOK(S), NEW status \in Statuses, NEW px
  PROVE  Answered(S, status, OnExecution(S, status, px))
<1>1. PICK T : T = OnExecution(S, status, px)
  OBVIOUS
<1>2. CASE S.kind = "sma"
  <2>1. T = Sma!OnExecution(S, status, px)
    BY <1>1, <1>2 DEF OnExecution
  <2>2. PICK a :
          \/ /\ status \in {"filled", "partially_filled"} /\ S.exit
             /\ T = [S EXCEPT !.pos = 0, !.exit = FALSE, !.best = 0, !.structural = 0]
          \/ /\ status \in {"filled", "partially_filled"} /\ ~S.exit /\ S.entry # 0
             /\ T = [S EXCEPT !.pos = S.entry, !.entry = 0, !.best = px, !.structural = a]
          \/ /\ status \in {"cancelled", "rejected"}
             /\ T = [S EXCEPT !.entry = 0, !.exit = FALSE]
          \/ /\ ~(status \in {"filled", "partially_filled"} /\ (S.exit \/ S.entry # 0))
             /\ status \notin {"cancelled", "rejected"} /\ T = S
    BY <2>1 DEF Sma!OnExecution
  <2>3. StrategyOK(T) /\ T.kind = S.kind
    <3>1. Moved(S, T)
      BY <2>2 DEF Moved, StrategyOK, Fields
    <3>2. QED
      BY <3>1, MovedOK
  <2>4. (status = "filled" /\ ~Flat(S)) => Flat(T) /\ T.pos = IF S.exit THEN 0 ELSE S.entry
    BY <2>2 DEF StrategyOK, Fields, Flat
  <2>5. (status \in {"cancelled", "rejected"}) => Flat(T) /\ T.pos = S.pos
    BY <2>2 DEF StrategyOK, Fields, Flat
  <2>6. QED
    BY <1>1, <2>3, <2>4, <2>5 DEF Answered
<1>3. CASE S.kind = "lb"
  <2>1. T = Lb!OnExecution(S, status, px)
    BY <1>1, <1>3 DEF OnExecution
  <2>2. \/ /\ status \in {"filled", "partially_filled"} /\ S.entry # 0
           /\ T = [S EXCEPT !.pos = S.entry, !.entry = 0]
        \/ /\ status \in {"filled", "partially_filled"} /\ S.entry = 0 /\ S.exit
           /\ T = [S EXCEPT !.pos = 0, !.exit = FALSE, !.stop = 0, !.target = 0]
        \/ /\ status = "rejected" /\ S.entry # 0
           /\ T = [S EXCEPT !.entry = 0, !.stop = 0, !.target = 0]
        \/ status = "rejected" /\ S.entry = 0 /\ S.exit /\ T = [S EXCEPT !.exit = FALSE]
        \/ status = "rejected" /\ S.entry = 0 /\ ~S.exit /\ T = [S EXCEPT !.pos = 0]
        \/ /\ ~(status \in {"filled", "partially_filled"} /\ (S.exit \/ S.entry # 0))
           /\ status # "rejected" /\ T = S
    BY <2>1 DEF Lb!OnExecution
  <2>3. StrategyOK(T) /\ T.kind = S.kind
    <3>1. Moved(S, T)
      BY <2>2 DEF Moved, StrategyOK, Fields
    <3>2. QED
      BY <3>1, MovedOK
  <2>4. (status = "filled" /\ ~Flat(S)) => Flat(T) /\ T.pos = IF S.exit THEN 0 ELSE S.entry
    BY <2>2 DEF StrategyOK, Fields, Flat
  <2>5. (status = "rejected" /\ ~Flat(S)) => Flat(T) /\ T.pos = S.pos
    BY <2>2 DEF StrategyOK, Fields, Flat
  <2>6. status = "cancelled" => Same(S, T)
    BY <2>2 DEF Same, StrategyOK
  <2>7. QED
    BY <1>1, <2>3, <2>4, <2>5, <2>6 DEF Answered
<1>4. CASE S.kind = "orb"
  <2>1. T = Orb!OnExecution(S, status, px)
    BY <1>1, <1>4 DEF OnExecution
  <2>2. PICK p, v :
          /\ p = IF S.exit THEN 0 ELSE IF S.entry # 0 THEN S.entry ELSE S.pos
          /\ \/ /\ status \in {"filled", "partially_filled"}
                /\ T = [S EXCEPT !.pos = p, !.entry = 0, !.exit = FALSE]
             \/ status = "rejected" /\ T = [S EXCEPT !.entry = 0, !.exit = FALSE, !.eodSent = v]
             \/ status \notin {"filled", "partially_filled", "rejected"} /\ T = S
    BY <2>1 DEF Orb!OnExecution
  <2>3. StrategyOK(T) /\ T.kind = S.kind
    <3>1. Moved(S, T)
      BY <2>2 DEF Moved, StrategyOK, Fields
    <3>2. QED
      BY <3>1, MovedOK
  <2>4. (status = "filled" /\ ~Flat(S)) => Flat(T) /\ T.pos = IF S.exit THEN 0 ELSE S.entry
    BY <2>2 DEF StrategyOK, Fields, Flat
  <2>5. status = "rejected" => Flat(T) /\ T.pos = S.pos
    BY <2>2 DEF StrategyOK, Fields, Flat
  <2>6. status = "cancelled" => Same(S, T)
    BY <2>2 DEF Same, StrategyOK
  <2>7. QED
    BY <1>1, <2>3, <2>4, <2>5, <2>6 DEF Answered
<1>5. QED
  BY <1>2, <1>3, <1>4, KindIs

\* A signal that is refused leaves nothing pending, and the belief.
LEMMA RefusalFrees ==
  ASSUME NEW S, StrategyOK(S), NEW sig, NEW T, T = OnSignalDispatchFailed(S, sig)
  PROVE  StrategyOK(T) /\ T.kind = S.kind /\ T.pos = S.pos /\ Flat(T)
<1>1. CASE S.kind = "sma"
  <2>1. T = [S EXCEPT !.entry = 0, !.exit = FALSE]
    BY <1>1 DEF OnSignalDispatchFailed, Sma!OnSignalDispatchFailed
  <2>2. QED
    BY <2>1 DEF StrategyOK, Fields, Flat
<1>2. CASE S.kind = "lb"
  <2>1. PICK v : \/ S.exit /\ T = [S EXCEPT !.exit = FALSE, !.eodSent = v]
                 \/ ~S.exit /\ S.entry # 0 /\ T = [S EXCEPT !.entry = 0, !.stop = 0, !.target = 0]
                 \/ ~S.exit /\ S.entry = 0 /\ T = S
    BY <1>2 DEF OnSignalDispatchFailed, Lb!OnSignalDispatchFailed
  <2>2. Moved(S, T) /\ T.pos = S.pos /\ Flat(T)
    BY <2>1 DEF Moved, StrategyOK, Fields, Flat
  <2>3. QED
    BY <2>2, MovedOK
<1>3. CASE S.kind = "orb"
  <2>1. PICK v : T = [S EXCEPT !.entry = 0, !.exit = FALSE, !.eodSent = v]
    BY <1>3 DEF OnSignalDispatchFailed, Orb!OnSignalDispatchFailed
  <2>2. Moved(S, T) /\ T.pos = S.pos /\ Flat(T)
    BY <2>1 DEF Moved, StrategyOK, Fields, Flat
  <2>3. QED
    BY <2>2, MovedOK
<1>4. QED
  BY <1>1, <1>2, <1>3, KindIs

LEMMA ResetOK ==
  ASSUME NEW S, StrategyOK(S), NEW T, T = ResetTradingState(S)
  PROVE  StrategyOK(T) /\ T.kind = S.kind
<1>1. CASE S.kind = "sma"
  <2>1. T = [S EXCEPT !.pos = 0, !.entry = 0, !.exit = FALSE, !.best = 0, !.structural = 0]
    BY <1>1 DEF ResetTradingState, Sma!ResetTradingStateAfterWarmup
  <2>2. QED
    BY <2>1 DEF StrategyOK, Fields
<1>2. CASE S.kind = "lb"
  <2>1. T = Lb!New
    BY <1>2 DEF ResetTradingState, Lb!ResetTradingStateAfterWarmup
  <2>2. "lb" \in Kinds
    BY <1>2 DEF StrategyOK
  <2>3. QED
    BY <1>2, <2>1, <2>2 DEF Lb!New, StrategyOK, Fields
<1>3. CASE S.kind = "orb"
  <2>1. T = [S EXCEPT !.pos = 0, !.entry = 0, !.exit = FALSE, !.eodSent = FALSE]
    BY <1>3 DEF ResetTradingState, Orb!ResetTradingStateAfterWarmup
  <2>2. QED
    BY <2>1 DEF StrategyOK, Fields
<1>4. QED
  BY <1>1, <1>2, <1>3, KindIs

\* The reconciler imposes a position on any strategy, whatever it waits for.
LEMMA SyncImposes ==
  ASSUME NEW S, StrategyOK(S), NEW q \in -1 .. 1, NEW a, NEW px, NEW T,
         T = SyncBrokerPosition(S, q, a, px)
  PROVE  StrategyOK(T) /\ T.kind = S.kind /\ T.pos = q /\ Flat(T)
<1>1. CASE S.kind = "sma"
  <2>1. PICK b, c, d, U : /\ U = [S EXCEPT !.entry = 0, !.exit = FALSE, !.pos = q, !.best = b,
                                           !.structural = c]
                          /\ T = U \/ T = [U EXCEPT !.structural = d]
    BY <1>1, ZenonT(40) DEF SyncBrokerPosition, Sma!SyncBrokerPosition
  <2>2. StrategyOK(U) /\ U.kind = S.kind /\ U.pos = q /\ Flat(U)
    BY <2>1 DEF StrategyOK, Fields, Flat
  <2>3. QED
    BY <2>1, <2>2 DEF StrategyOK, Fields, Flat
<1>2. CASE S.kind = "lb"
  <2>1. PICK b, c, U : /\ U = [S EXCEPT !.entry = 0, !.exit = FALSE, !.pos = q, !.stop = 0, !.target = 0]
                       /\ T = U \/ T = [U EXCEPT !.stop = b, !.target = c]
    BY <1>2 DEF SyncBrokerPosition, Lb!SyncBrokerPosition
  <2>2. StrategyOK(U) /\ U.kind = S.kind /\ U.pos = q /\ Flat(U)
    BY <2>1 DEF StrategyOK, Fields, Flat
  <2>3. QED
    BY <2>1, <2>2 DEF StrategyOK, Fields, Flat
<1>3. CASE S.kind = "orb"
  <2>1. T = [S EXCEPT !.entry = 0, !.exit = FALSE, !.pos = q]
    BY <1>3 DEF SyncBrokerPosition, Orb!SyncBrokerPosition
  <2>2. QED
    BY <2>1 DEF StrategyOK, Fields, Flat
<1>4. QED
  BY <1>1, <1>2, <1>3, KindIs

-----------------------------------------------------------------------------
(* The work of the goroutine.                                              *)

Seen == [do : {"live", "bar"}, candle : Stamped]
Disp(w) == {i \in DOMAIN w : w[i].do = "dispatch"}

LEMMA DispIs ==
  Dispatching = Disp(work) /\ Dispatching' = Disp(work')
BY DEF Dispatching, Disp

LEMMA SeenOnly ==
  ASSUME NEW w \in Seq(Seen)
  PROVE  w \in Seq(Items) /\ Disp(w) = {}
<1>1. \A i \in DOMAIN w : w[i] \in Seen
  OBVIOUS
<1>2. Disp(w) = {}
  BY <1>1 DEF Disp, Seen
<1>3. Seen \subseteq Items
  BY DEF Seen, Items
<1>4. QED
  BY <1>2, <1>3

LEMMA Joined ==
  ASSUME NEW X, NEW a \in Seq(X), NEW b \in Seq(X), NEW q, q = a \o b
  PROVE  q \in Seq(X)
BY ConcatProperties

LEMMA TailItems ==
  ASSUME NEW w \in Seq(Items), w # <<>>, NEW t, t = Tail(w)
  PROVE  /\ t \in Seq(Items) /\ Head(w) = w[1] /\ w[1] \in Items
         /\ Disp(w) \subseteq {1} => Disp(t) = {}
<1>1. t \in Seq(Items) /\ Head(w) = w[1] /\ w[1] \in Items
  OBVIOUS
<1>2. Len(t) \in Nat /\ Len(w) \in Nat /\ Len(w) = Len(t) + 1
  OBVIOUS
<1>3. \A i \in DOMAIN t : i \in Nat /\ i + 1 \in DOMAIN w /\ i + 1 # 1 /\ t[i] = w[i + 1]
  BY <1>2
<1>4. ASSUME Disp(w) \subseteq {1}
      PROVE  Disp(t) = {}
  BY <1>3, <1>4 DEF Disp
<1>5. QED
  BY <1>1, <1>4

LEMMA HeadedBy ==
  ASSUME NEW t \in Seq(Items), NEW d \in Items, NEW q, q = <<d>> \o t, d.do = "dispatch"
  PROVE  q \in Seq(Items) /\ q[1] = d /\ (Disp(t) = {} => Disp(q) = {1})
<1>1. <<d>> \in Seq(Items)
  OBVIOUS
<1>2. q \in Seq(Items) /\ q[1] = d /\ Len(q) = Len(t) + 1
  BY <1>1
<1>3. \A i \in DOMAIN q : i = 1 \/ (i - 1 \in DOMAIN t /\ q[i] = t[i - 1])
  BY <1>1
<1>4. 1 \in DOMAIN q
  BY <1>2
<1>5. QED
  BY <1>2, <1>3, <1>4 DEF Disp

-----------------------------------------------------------------------------
(* One lemma per action.                                                   *)

LEMMA CountsKept ==
  ASSUME Shapes, NEW k \in {"candles", "troubles"}, Counts(k)
  PROVE  /\ count' \in [{"candles", "troubles"} -> Nat]
         /\ count'["candles"] <= MaxCandles[strat.kind] /\ count'["troubles"] <= MaxTroubles
<1>1. count \in [{"candles", "troubles"} -> Nat] /\ count' = [count EXCEPT ![k] = count[k] + 1]
  BY DEF Counts, Shapes
<1>2. MaxCandles[strat.kind] \in Nat /\ MaxTroubles \in Nat
  BY OrdersAssumption DEF OrdersAssumption, Shapes, StrategyOK
<1>3. CASE k = "candles"
  <2>1. count["candles"] < MaxCandles[strat.kind]
    BY <1>3 DEF Counts, Limit
  <2>2. QED
    BY <1>1, <1>2, <1>3, <2>1 DEF Shapes
<1>4. CASE k = "troubles"
  <2>1. count["troubles"] < MaxTroubles
    BY <1>4 DEF Counts, Limit
  <2>2. QED
    BY <1>1, <1>2, <1>4, <2>1 DEF Shapes
<1>5. QED
  BY <1>3, <1>4

LEMMA LiveSeen ==
  ASSUME NEW k \in Stamped
  PROVE  Live(k) \in Seq(Seen) /\ <<Bar(k)>> \in Seq(Seen) /\ <<>> \in Seq(Seen)
<1>1. [do |-> "live", candle |-> k] \in Seen /\ Bar(k) \in Seen
  BY DEF Seen, Bar
<1>2. QED
  BY <1>1 DEF Live

LEMMA ArriveKept ==
  ASSUME IInv, NEW k \in Candles[strat.kind], NEW p \in DOMAIN Phases[strat.kind],
         NEW new \in BOOLEAN, Arrive(k, p, new)
  PROVE  IInv'
<1>1. PICK c : /\ c = [high |-> k.high, low |-> k.low, close |-> k.close,
                       day |-> Phases[strat.kind][p].day, late |-> Phases[strat.kind][p].late]
               /\ work' = Live(c) \o (IF new /\ pending # Nil THEN <<Bar(pending)>> ELSE <<>>)
               /\ pending' = c
  BY Zenon DEF Arrive
<1>2. /\ UNCHANGED <<strat, orders, pos, avg, owned, inHand, snapshot, disturbed, shut, reversed>>
      /\ work = <<>> /\ phase' = p /\ Counts("candles")
  BY DEF Arrive, brokerVars, reportVars, historyVars
<1>3. c \in Stamped
  <2>1. PICK b : b = Phases[strat.kind][p]
    OBVIOUS
  <2>2. strat.kind \in Kinds
    BY DEF IInv, Shapes, StrategyOK
  <2>3. k \in Ticks
    BY <2>2 DEF Ticks
  <2>4. b \in Times
    BY <2>1, <2>2 DEF Times
  <2>5. c = Stamp(k, b)
    BY <1>1, <2>1 DEF Stamp
  <2>6. c \in {Stamp(k, x) : x \in Times}
    BY <2>4, <2>5
  <2>7. QED
    BY <2>3, <2>6 DEF Stamped
<1>4. work' \in Seq(Items) /\ Dispatching' = {}
  <2>1. PICK a, b : /\ work' = a \o b /\ a = Live(c)
                    /\ b = IF new /\ pending # Nil THEN <<Bar(pending)>> ELSE <<>>
    BY <1>1
  <2>2. a \in Seq(Seen) /\ b \in Seq(Seen)
    BY <1>3, <2>1, LiveSeen DEF IInv, Shapes
  <2>3. work' \in Seq(Seen)
    BY <2>1, <2>2, Joined
  <2>4. QED
    BY <2>3, SeenOnly, DispIs
<1>5. Dispatching = {}
  BY <1>2 DEF Dispatching
<1>6. Shapes'
  BY <1>1, <1>2, <1>3, <1>4, CountsKept DEF IInv, Shapes
<1>7. OrdersOK' /\ ReportsOK' /\ PositionBounded'
  BY <1>2 DEF IInv, OrdersOK, ReportsOK, ReportOK, PositionBounded, Executed
<1>8. InFlight'
  BY <1>2, <1>4, <1>5 DEF IInv, InFlight, IsOpen
<1>9. Believed'
  BY <1>2, <1>4, <1>5 DEF IInv, Believed, Calm
<1>10. QED
  BY <1>6, <1>7, <1>8, <1>9 DEF IInv

LEMMA EvaluateKept ==
  ASSUME IInv, Evaluate
  PROVE  IInv'
<1>1. PICK k, r :
        /\ r = Sma!OnLiveCandle(strat, k) \/ r = OnCandle(strat, k)
        /\ strat' = r[1]
        /\ work' = [i \in DOMAIN r[2] |-> Dispatch(r[2][i])] \o Tail(work)
        /\ reversed' = (reversed \/ (strat.kind = "sma" /\ strat.pos # 0 /\ r[1].entry # strat.entry))
  BY Zenon DEF Evaluate
<1>2. /\ UNCHANGED <<orders, pos, avg, pending, phase, price, owned, inHand, snapshot, disturbed, shut, count>>
      /\ work # <<>> /\ Head(work).do \in {"live", "bar"}
  BY DEF Evaluate, marketVars, brokerVars, reportVars
<1>3. Signalled(strat, r)
  BY <1>1, SmaOnLiveCandle, CandleSignals DEF IInv, Shapes
<1>4. PICK t : t = Tail(work)
  OBVIOUS
<1>5. /\ t \in Seq(Items) /\ (Dispatching \subseteq {1} => Dispatching = {} /\ Disp(t) = {})
  <2>1. work \in Seq(Items)
    BY DEF IInv, Shapes
  <2>2. t \in Seq(Items) /\ Head(work) = work[1] /\ (Disp(work) \subseteq {1} => Disp(t) = {})
    BY <1>2, <1>4, <2>1, TailItems
  <2>3. 1 \notin Disp(work)
    BY <1>2, <2>2 DEF Disp
  <2>4. QED
    BY <2>2, <2>3, DispIs
<1>6. reversed' \in BOOLEAN /\ (~reversed' => ~reversed /\ ~Turned(strat, strat'))
  BY <1>1 DEF IInv, Shapes, Turned
<1>7. ASSUME work' \in Seq(Items), StrategyOK(strat'), strat'.kind = strat.kind
      PROVE  Shapes' /\ OrdersOK' /\ ReportsOK' /\ PositionBounded'
  <2>1. Shapes'
    BY <1>2, <1>6, <1>7 DEF IInv, Shapes
  <2>2. OrdersOK' /\ ReportsOK' /\ PositionBounded'
    BY <1>2 DEF IInv, OrdersOK, ReportsOK, ReportOK, PositionBounded, Executed
  <2>3. QED
    BY <2>1, <2>2
<1>8. CASE r[2] = <<>> /\ Same(strat, r[1])
  <2>1. work' = t
    <3>1. PICK e : e = [i \in DOMAIN r[2] |-> Dispatch(r[2][i])]
      OBVIOUS
    <3>2. e = <<>>
      BY <1>8, <3>1
    <3>3. QED
      BY <1>1, <1>4, <1>5, <3>1, <3>2, ConcatEmptySeq
  <2>2. /\ StrategyOK(strat') /\ strat'.kind = strat.kind /\ strat'.pos = strat.pos
        /\ strat'.entry = strat.entry /\ strat'.exit = strat.exit
    BY <1>1, <1>8 DEF Same
  <2>3. Dispatching \subseteq {1} => Dispatching = {} /\ Dispatching' = {}
    BY <1>5, <2>1, DispIs
  <2>4. InFlight'
    BY <1>2, <2>2, <2>3 DEF IInv, InFlight, IsOpen, Flat
  <2>5. Believed'
    BY <1>2, <1>6, <2>2, <2>3 DEF IInv, InFlight, Believed, Calm, Flat, Waits, Asked
  <2>6. QED
    BY <1>5, <1>7, <2>1, <2>2, <2>4, <2>5 DEF IInv
<1>9. CASE /\ Flat(strat) /\ ~Flat(r[1]) /\ StrategyOK(r[1]) /\ r[1].kind = strat.kind /\ r[1].pos = strat.pos
           /\ \E sig \in Signals : /\ r[2] = <<sig>> /\ Asked(r[1], sig)
                                   /\ Waits(r[1], sig) \/ Turned(strat, r[1])
  <2>1. PICK sig \in Signals : /\ r[2] = <<sig>> /\ Asked(r[1], sig)
                               /\ Waits(r[1], sig) \/ Turned(strat, r[1])
    BY <1>9
  <2>2. PICK d : d = Dispatch(sig)
    OBVIOUS
  <2>3. d \in Items /\ d.do = "dispatch" /\ d.signal = sig
    BY <2>2 DEF Dispatch, Items
  <2>4. work' = <<d>> \o t
    <3>1. PICK e : e = [i \in DOMAIN r[2] |-> Dispatch(r[2][i])]
      OBVIOUS
    <3>2. e = <<d>>
      BY <2>1, <2>2, <3>1
    <3>3. QED
      BY <1>1, <1>4, <3>1, <3>2
  <2>5. work' \in Seq(Items) /\ work'[1] = d /\ (Dispatching \subseteq {1} => Dispatching' = {1})
    BY <1>5, <2>3, <2>4, HeadedBy, DispIs
  <2>6. Flat(strat) /\ ~Flat(strat') /\ strat'.pos = strat.pos /\ StrategyOK(strat') /\ strat'.kind = strat.kind
    BY <1>1, <1>9
  <2>7. InFlight'
    BY <1>2, <2>5, <2>6 DEF IInv, InFlight, IsOpen
  <2>8. Believed'
    <3>1. ASSUME Calm'
          PROVE  Waits(strat', work'[1].signal) /\ pos' = strat'.pos /\ Dispatching' # {}
      <4>1. Calm
        BY <1>2, <1>6, <3>1 DEF Calm
      <4>2. Dispatching \subseteq {1} /\ pos = strat.pos
        BY <2>6, <4>1 DEF IInv, InFlight, Believed, Calm
      <4>3. ~Turned(strat, r[1])
        BY <1>1, <1>6, <3>1 DEF Calm
      <4>4. QED
        BY <1>1, <1>2, <2>1, <2>3, <2>5, <2>6, <4>2, <4>3
    <3>2. QED
      BY <2>6, <3>1 DEF Believed
  <2>9. QED
    BY <1>7, <2>5, <2>6, <2>7, <2>8 DEF IInv
<1>10. QED
  BY <1>3, <1>8, <1>9 DEF Signalled

\* The head of the work is a signal: undisturbed, it is the only one.
LEMMA DispatchHead ==
  ASSUME IInv, work # <<>>, Head(work).do = "dispatch", NEW t, t = Tail(work)
  PROVE  /\ t \in Seq(Items) /\ Head(work) = work[1] /\ work[1].signal \in Signals
         /\ Dispatching # {} /\ (~disturbed => Disp(t) = {})
         /\ ~disturbed => \A o \in DOMAIN orders : ~IsOpen(o)
<1>1. work \in Seq(Items)
  BY DEF IInv, Shapes
<1>2. /\ t \in Seq(Items) /\ Head(work) = work[1] /\ work[1] \in Items
      /\ Disp(work) \subseteq {1} => Disp(t) = {}
  BY <1>1, TailItems
<1>3. 1 \in DOMAIN work
  BY <1>1
<1>4. 1 \in Dispatching
  BY <1>2, <1>3 DEF Dispatching
<1>5. work[1].signal \in Signals
  BY <1>2 DEF Items
<1>6. QED
  BY <1>2, <1>4, <1>5, DispIs DEF IInv, InFlight

LEMMA RefuseKept ==
  ASSUME IInv, Refuse
  PROVE  IInv'
<1>1. PICK t, sig : t = Tail(work) /\ sig = Head(work).signal
  OBVIOUS
<1>2. /\ work # <<>> /\ Head(work).do = "dispatch" /\ Counts("troubles")
      /\ strat' = OnSignalDispatchFailed(strat, sig) /\ work' = t
      /\ UNCHANGED <<pending, phase, price, orders, pos, avg, owned, inHand, snapshot>>
      /\ UNCHANGED <<disturbed, shut, reversed>>
  BY <1>1 DEF Refuse, marketVars, brokerVars, reportVars, historyVars
<1>3. /\ t \in Seq(Items) /\ Dispatching # {} /\ (~disturbed => Dispatching' = {})
      /\ ~disturbed => \A o \in DOMAIN orders : ~IsOpen(o)
  BY <1>1, <1>2, DispatchHead, DispIs
<1>4. StrategyOK(strat') /\ strat'.kind = strat.kind /\ strat'.pos = strat.pos /\ Flat(strat')
  BY <1>2, RefusalFrees DEF IInv, Shapes
<1>5. Shapes'
  BY <1>2, <1>3, <1>4, CountsKept DEF IInv, Shapes
<1>6. OrdersOK' /\ ReportsOK' /\ PositionBounded'
  BY <1>2 DEF IInv, OrdersOK, ReportsOK, ReportOK, PositionBounded, Executed
<1>7. InFlight'
  BY <1>2, <1>3 DEF InFlight, IsOpen
<1>8. Believed'
  BY <1>2, <1>3, <1>4 DEF IInv, Believed, Calm
<1>9. QED
  BY <1>5, <1>6, <1>7, <1>8 DEF IInv

LEMMA WentNothing ==
  ASSUME NEW q, q.filled = 0
  PROVE  Went(q) = 0
BY DEF Went

LEMMA PostKept ==
  ASSUME IInv, Post
  PROVE  IInv'
<1>1. PICK t, sig, n : t = Tail(work) /\ sig = work[1].signal /\ n = Len(orders)
  OBVIOUS
<1>2. PICK q : q = [dir |-> sig.dir, lots |-> sig.lots, exit |-> sig.exit, filled |-> 0, status |-> "new"]
  OBVIOUS
<1>3. /\ work # <<>> /\ Head(work).do = "dispatch"
      /\ owned' = owned \cup {n + 1} /\ work' = t
      /\ UNCHANGED <<strat, pending, phase, price, pos, avg, inHand, snapshot, disturbed, shut, reversed, count>>
  BY <1>1 DEF Post, marketVars, historyVars
<1>4. /\ t \in Seq(Items) /\ Head(work) = work[1] /\ sig \in Signals
      /\ Dispatching # {} /\ (~disturbed => Dispatching' = {})
      /\ ~disturbed => \A o \in DOMAIN orders : ~IsOpen(o)
  BY <1>1, <1>3, DispatchHead, DispIs
<1>5. orders' = Append(orders, q)
  BY <1>1, <1>2, <1>4 DEF Post
<1>6. q \in OrderShape
  BY <1>2, <1>4 DEF OrderShape, Signals, Statuses
<1>7. /\ orders \in Seq(OrderShape) /\ n \in Nat /\ DOMAIN orders = 1 .. n
      /\ orders' \in Seq(OrderShape) /\ Len(orders') = n + 1 /\ DOMAIN orders' = 1 .. n + 1
      /\ orders'[n + 1] = q /\ orders' # <<>>
      /\ \A o \in DOMAIN orders : o \in DOMAIN orders' /\ orders'[o] = orders[o]
  <2>1. orders \in Seq(OrderShape)
    BY DEF IInv, Shapes
  <2>2. QED
    BY <1>1, <1>5, <1>6, <2>1
<1>8. \A o \in DOMAIN orders' : o = n + 1 \/ o \in DOMAIN orders
  BY <1>7
<1>9. Shapes'
  <2>1. owned' \subseteq DOMAIN orders'
    BY <1>3, <1>7 DEF IInv, Shapes
  <2>2. QED
    BY <1>3, <1>4, <1>7, <2>1 DEF IInv, Shapes
<1>10. OrdersOK'
  <2>1. OrderOK(q)
    BY <1>2, <1>4 DEF OrderOK, Signals
  <2>2. QED
    BY <1>7, <1>8, <2>1 DEF IInv, OrdersOK
<1>11. ReportsOK'
  BY <1>3, <1>7 DEF IInv, ReportsOK, ReportOK
<1>12. Executed' = Executed
  <2>1. \A o \in DOMAIN orders' : \A x \in {o} \X (1 .. orders'[o].filled) : o \in DOMAIN orders
    BY <1>2, <1>7, <1>8
  <2>2. QED
    BY <1>7, <2>1 DEF Executed
<1>13. PositionBounded'
  BY <1>3, <1>12 DEF IInv, PositionBounded
<1>14. InFlight'
  <2>1. ASSUME ~disturbed', NEW o \in DOMAIN orders', IsOpen(o)'
        PROVE  o = n + 1
    <3>1. CASE o \in DOMAIN orders
      BY <1>3, <1>4, <1>7, <2>1, <3>1 DEF IsOpen
    <3>2. QED
      BY <1>8, <3>1
  <2>2. ~disturbed' => ~Flat(strat') /\ Dispatching' = {}
    BY <1>3, <1>4 DEF IInv, InFlight
  <2>3. QED
    BY <1>7, <2>1, <2>2 DEF InFlight
<1>15. Believed'
  <2>1. ASSUME Calm'
        PROVE  Waits(strat', q) /\ pos' = strat'.pos + Went(q) /\ ~Flat(strat') /\ Dispatching' = {}
    <3>1. Calm /\ ~disturbed
      BY <1>3, <2>1 DEF Calm
    <3>2. Waits(strat, sig) /\ pos = strat.pos /\ ~Flat(strat) /\ Dispatching' = {}
      BY <1>1, <1>4, <3>1 DEF IInv, Believed, InFlight
    <3>3. q.dir = sig.dir /\ q.lots = sig.lots /\ q.exit = sig.exit /\ Went(q) = 0
      <4>1. q.dir = sig.dir /\ q.lots = sig.lots /\ q.exit = sig.exit /\ q.filled = 0
        BY <1>2
      <4>2. Went(q) = 0
        BY <4>1, WentNothing
      <4>3. QED
        BY <4>1, <4>2
    <3>4. Waits(strat, q)
      BY <3>2, <3>3 DEF Waits, Asked
    <3>5. pos' = pos /\ strat' = strat /\ strat.pos \in Int
      BY <1>3 DEF IInv, Shapes, StrategyOK
    <3>6. QED
      BY <3>2, <3>3, <3>4, <3>5
  <2>2. q.status = "new"
    BY <1>2
  <2>3. QED
    BY <1>7, <2>1, <2>2 DEF Believed
<1>16. QED
  BY <1>9, <1>10, <1>11, <1>13, <1>14, <1>15 DEF IInv

LEMMA OrderReplaced ==
  ASSUME IInv, NEW o \in DOMAIN orders, NEW q \in OrderShape, orders' = [orders EXCEPT ![o] = q]
  PROVE  /\ orders' \in Seq(OrderShape) /\ DOMAIN orders' = DOMAIN orders /\ Len(orders') = Len(orders)
         /\ Len(orders) \in Nat /\ DOMAIN orders = 1 .. Len(orders)
         /\ orders'[o] = q /\ orders # <<>> /\ orders' # <<>>
         /\ \A i \in DOMAIN orders \ {o} : orders'[i] = orders[i]
<1>1. orders \in Seq(OrderShape)
  BY DEF IInv, Shapes
<1>2. QED
  BY <1>1

\* What a change of one open order leaves to show of the orders and the reports.
LEMMA OrderMoves ==
  ASSUME IInv, NEW o \in DOMAIN orders, IsOpen(o), NEW q \in OrderShape, OrderOK(q),
         q.status # "new", orders' = [orders EXCEPT ![o] = q], inHand' = inHand
  PROVE  OrdersOK' /\ ReportsOK'
<1>1. /\ DOMAIN orders' = DOMAIN orders /\ orders'[o] = q
      /\ \A i \in DOMAIN orders \ {o} : orders'[i] = orders[i]
  BY OrderReplaced
<1>2. OrdersOK'
  BY <1>1 DEF IInv, OrdersOK
<1>3. ASSUME NEW r \in inHand
      PROVE  ReportOK(r)'
  <2>1. ReportOK(r)
    BY DEF IInv, ReportsOK
  <2>2. CASE r.order = o
    BY <1>1, <2>1, <2>2 DEF ReportOK, IsOpen, Terminal
  <2>3. CASE r.order # o
    BY <1>1, <2>1, <2>3 DEF ReportOK
  <2>4. QED
    BY <2>2, <2>3
<1>4. QED
  BY <1>2, <1>3 DEF ReportsOK

LEMMA FillReplaces ==
  ASSUME NEW o \in DOMAIN orders, Fill(o)
  PROVE  \E q : orders' = [orders EXCEPT ![o] = q]
BY Zenon DEF Fill

LEMMA FillKept ==
  ASSUME IInv, NEW o \in DOMAIN orders, Fill(o)
  PROVE  IInv'
<1>1. PICK p, f, s : /\ p = orders[o] /\ f = orders[o].filled + 1
                     /\ s = IF orders[o].filled + 1 = orders[o].lots THEN "filled" ELSE "partially_filled"
  OBVIOUS
<1>2. PICK q : q = [p EXCEPT !.filled = f, !.status = s]
  OBVIOUS
<1>3. /\ IsOpen(o) /\ pos' = pos + p.dir
      /\ UNCHANGED <<strat, work, pending, phase, price, owned, inHand, snapshot, disturbed, shut, reversed, count>>
  BY <1>1 DEF Fill, marketVars, reportVars, historyVars
<1>4. p \in OrderShape /\ OrderOK(p) /\ p.status \in {"new", "partially_filled"}
  BY <1>1, <1>3 DEF IInv, Shapes, OrdersOK, IsOpen
<1>5. orders' = [orders EXCEPT ![o] = q]
  BY <1>1, <1>2 DEF Fill, IInv, Shapes
<1>6. p.filled \in Nat /\ f = p.filled + 1 /\ f <= p.lots /\ f \in 0 .. 2 /\ p.lots \in {1, 2}
  <2>1. p.filled \in 0 .. 2 /\ p.lots \in {1, 2} /\ p.filled <= p.lots /\ p.filled # p.lots
    BY <1>4 DEF OrderShape, OrderOK
  <2>2. QED
    BY <1>1, <2>1
<1>7. /\ q \in OrderShape /\ q.filled = f /\ q.status = s /\ q.dir = p.dir /\ q.lots = p.lots /\ q.exit = p.exit
  BY <1>1, <1>2, <1>4, <1>6 DEF OrderShape, Statuses
<1>8. OrderOK(q) /\ q.status \in {"filled", "partially_filled"}
  BY <1>1, <1>6, <1>7 DEF OrderOK
<1>9. OrdersOK' /\ ReportsOK'
  BY <1>3, <1>5, <1>7, <1>8, OrderMoves
<1>10. /\ orders' \in Seq(OrderShape) /\ DOMAIN orders' = DOMAIN orders /\ Len(orders') = Len(orders)
       /\ Len(orders) \in Nat /\ orders'[o] = q /\ orders # <<>> /\ orders' # <<>>
       /\ \A i \in DOMAIN orders \ {o} : orders'[i] = orders[i]
  BY <1>5, <1>7, OrderReplaced
<1>11. p.dir \in {-1, 1} /\ pos \in Int
  BY <1>4 DEF OrderShape, IInv, Shapes
<1>12. Shapes'
  BY <1>3, <1>10, <1>11 DEF IInv, Shapes
<1>13. PositionBounded'
  <2>1. Executed' = Executed \cup {<<o, f>>} /\ <<o, f>> \notin Executed
    <3>1. ASSUME NEW x
          PROVE  x \in Executed' <=> x \in Executed \cup {<<o, f>>}
      <4>1. x \in Executed' <=> \E i \in DOMAIN orders : x \in {i} \X (1 .. orders'[i].filled)
        BY <1>10 DEF Executed
      <4>2. x \in Executed <=> \E i \in DOMAIN orders : x \in {i} \X (1 .. orders[i].filled)
        BY DEF Executed
      <4>3. x \in {o} \X (1 .. orders'[o].filled) <=> x \in ({o} \X (1 .. orders[o].filled)) \cup {<<o, f>>}
        BY <1>1, <1>6, <1>7, <1>10
      <4>4. QED
        BY <1>10, <4>1, <4>2, <4>3
    <3>2. <<o, f>> \notin Executed
      BY <1>1, <1>6 DEF Executed
    <3>3. QED
      BY <3>1, <3>2
  <2>2. PICK c, d : c = Cardinality(Executed) /\ d = Cardinality(Executed')
    OBVIOUS
  <2>3. IsFiniteSet(Executed) /\ pos \in -c .. c /\ c \in Nat
    BY <2>2, FS_CardinalityType DEF IInv, PositionBounded
  <2>4. IsFiniteSet(Executed') /\ d = c + 1
    BY <2>1, <2>2, <2>3, FS_AddElement
  <2>5. pos' \in -d .. d
    BY <1>3, <1>11, <2>3, <2>4
  <2>6. QED
    BY <2>2, <2>4, <2>5 DEF PositionBounded
<1>14. \A i \in DOMAIN orders : IsOpen(i)' => IsOpen(i)
  BY <1>3, <1>10 DEF IsOpen
<1>15. Dispatching' = Dispatching
  BY <1>3 DEF Dispatching
<1>16. InFlight'
  BY <1>3, <1>10, <1>14, <1>15 DEF IInv, InFlight
<1>17. Believed'
  <2>1. SUFFICES ASSUME Calm'
                 PROVE  /\ Dispatching' = {} /\ ~Flat(strat') /\ Waits(strat', q)
                        /\ pos' = strat'.pos + Went(q) /\ o = Len(orders)
    BY <1>8, <1>10 DEF Believed
  <2>2. Calm /\ o = Len(orders) /\ Dispatching = {} /\ ~Flat(strat)
    BY <1>3, <2>1 DEF IInv, InFlight, Calm
  <2>3. Waits(strat, p) /\ pos = strat.pos + Went(p)
    BY <1>1, <2>2 DEF IInv, Believed
  <2>4. Waits(strat, q)
    BY <1>7, <2>3 DEF Waits, Asked
  <2>5. Went(p) \in Int /\ Went(q) = Went(p) + p.dir /\ strat.pos \in Int
    BY <1>6, <1>7, <1>11, SMTT(30) DEF Went, IInv, Shapes, StrategyOK
  <2>6. pos' = strat.pos + Went(q)
    BY <1>3, <1>11, <2>3, <2>5
  <2>7. QED
    BY <1>3, <1>15, <2>2, <2>4, <2>6
<1>18. QED
  BY <1>9, <1>12, <1>13, <1>16, <1>17 DEF IInv

LEMMA EndOrderKept ==
  ASSUME IInv, NEW o \in DOMAIN orders, NEW status \in {"cancelled", "rejected"}, EndOrder(o, status)
  PROVE  IInv'
<1>1. PICK p, q : p = orders[o] /\ q = [p EXCEPT !.status = status]
  OBVIOUS
<1>2. /\ IsOpen(o) /\ orders' = [orders EXCEPT ![o] = q] /\ shut' = (shut \/ p.filled > 0)
      /\ UNCHANGED <<strat, work, pending, phase, price, pos, avg, owned, inHand, snapshot, disturbed,
                     reversed, count>>
  BY <1>1 DEF EndOrder, marketVars, reportVars
<1>3. p \in OrderShape /\ OrderOK(p) /\ p.status \in {"new", "partially_filled"}
  BY <1>1, <1>2 DEF IInv, Shapes, OrdersOK, IsOpen
<1>4. /\ q \in OrderShape /\ q.filled = p.filled /\ q.status = status /\ q.dir = p.dir
      /\ q.lots = p.lots /\ q.exit = p.exit
  BY <1>1, <1>3 DEF OrderShape, Statuses
<1>5. OrderOK(q)
  BY <1>3, <1>4 DEF OrderOK
<1>6. OrdersOK' /\ ReportsOK'
  BY <1>2, <1>4, <1>5, OrderMoves
<1>7. /\ orders' \in Seq(OrderShape) /\ DOMAIN orders' = DOMAIN orders /\ Len(orders') = Len(orders)
      /\ orders'[o] = q /\ orders' # <<>>
      /\ \A i \in DOMAIN orders \ {o} : orders'[i] = orders[i]
  BY <1>2, <1>4, OrderReplaced
<1>8. Shapes'
  BY <1>2, <1>7 DEF IInv, Shapes
<1>9. PositionBounded'
  <2>1. Executed' = Executed
    <3>1. \A i \in DOMAIN orders : orders'[i].filled = orders[i].filled
      BY <1>1, <1>4, <1>7
    <3>2. QED
      BY <1>7, <3>1 DEF Executed
  <2>2. QED
    BY <1>2, <2>1 DEF IInv, PositionBounded
<1>10. \A i \in DOMAIN orders : IsOpen(i)' => IsOpen(i)
  BY <1>2, <1>7 DEF IsOpen
<1>11. Dispatching' = Dispatching
  BY <1>2 DEF Dispatching
<1>12. InFlight'
  BY <1>2, <1>7, <1>10, <1>11 DEF IInv, InFlight
<1>13. Believed'
  <2>1. SUFFICES ASSUME Calm'
                 PROVE  /\ Dispatching' = {} /\ ~Flat(strat') /\ Waits(strat', q)
                        /\ pos' = strat'.pos + Went(q) /\ o = Len(orders) /\ q.filled = 0
    BY <1>7 DEF Believed
  <2>2. Calm /\ o = Len(orders) /\ Dispatching = {} /\ ~Flat(strat) /\ ~(p.filled > 0)
    BY <1>2, <2>1 DEF IInv, InFlight, Calm
  <2>3. Waits(strat, p) /\ pos = strat.pos + Went(p)
    BY <1>1, <2>2 DEF IInv, Believed
  <2>4. Waits(strat, q) /\ Went(q) = Went(p)
    BY <1>4, <2>3 DEF Waits, Asked, Went
  <2>5. q.filled = 0
    BY <1>3, <1>4, <2>2 DEF OrderShape
  <2>6. QED
    BY <1>2, <1>11, <2>2, <2>3, <2>4, <2>5
<1>14. QED
  BY <1>6, <1>8, <1>9, <1>12, <1>13 DEF IInv

LEMMA CloseOutsideKept ==
  ASSUME IInv, CloseOutside
  PROVE  IInv'
<1>1. /\ pos' = 0 /\ shut' = TRUE /\ Counts("troubles")
      /\ UNCHANGED <<strat, work, pending, phase, price, orders, owned, inHand, snapshot, disturbed, reversed>>
  BY DEF CloseOutside, marketVars, reportVars
<1>2. Shapes'
  BY <1>1, CountsKept DEF IInv, Shapes
<1>3. OrdersOK' /\ ReportsOK'
  BY <1>1 DEF IInv, OrdersOK, ReportsOK, ReportOK
<1>4. PositionBounded'
  <2>1. IsFiniteSet(Executed) /\ Executed' = Executed
    BY <1>1 DEF IInv, PositionBounded, Executed
  <2>2. PICK c : c = Cardinality(Executed)
    OBVIOUS
  <2>3. c \in Nat
    BY <2>1, <2>2, FS_CardinalityType
  <2>4. pos' \in -c .. c
    BY <1>1, <2>3
  <2>5. QED
    BY <2>1, <2>2, <2>4 DEF PositionBounded
<1>5. InFlight'
  BY <1>1 DEF IInv, InFlight, IsOpen, Dispatching
<1>6. Believed'
  BY <1>1 DEF Believed, Calm
<1>7. QED
  BY <1>2, <1>3, <1>4, <1>5, <1>6 DEF IInv

\* What a step that touches neither orders, work nor belief keeps.
LEMMA Untroubled ==
  ASSUME IInv, UNCHANGED <<strat, work, orders, pos, disturbed, shut, reversed>>
  PROVE  OrdersOK' /\ PositionBounded' /\ InFlight' /\ Believed'
<1>1. OrdersOK' /\ PositionBounded'
  BY DEF IInv, OrdersOK, PositionBounded, Executed
<1>2. InFlight' /\ Believed'
  BY DEF IInv, InFlight, IsOpen, Dispatching, Believed, Calm
<1>3. QED
  BY <1>1, <1>2

LEMMA ReceiveKept ==
  ASSUME IInv, NEW o \in DOMAIN orders, NEW via, Receive(o, via)
  PROVE  IInv'
<1>1. PICK r : r = [order |-> o, status |-> orders[o].status, via |-> via]
  OBVIOUS
<1>2. /\ orders[o].status # "new" /\ inHand' = inHand \cup {r}
      /\ UNCHANGED <<strat, work, pending, phase, price, orders, pos, avg, owned, snapshot, disturbed, shut,
                     reversed, count>>
  BY <1>1 DEF Receive, marketVars, brokerVars, historyVars
<1>3. orders[o].status \in Statuses
  <2>1. orders[o] \in OrderShape
    BY DEF IInv, Shapes
  <2>2. QED
    BY <2>1 DEF OrderShape
<1>4. ReportOK(r)
  BY <1>1, <1>2, <1>3 DEF ReportOK
<1>5. ReportsOK'
  BY <1>2, <1>4 DEF IInv, ReportsOK, ReportOK
<1>6. Shapes'
  BY <1>2 DEF IInv, Shapes
<1>7. QED
  BY <1>2, <1>5, <1>6, Untroubled DEF IInv

LEMMA ReadPositionKept ==
  ASSUME IInv, ReadPosition
  PROVE  IInv'
<1>1. /\ snapshot' = [pos |-> pos, avg |-> avg, price |-> price]
      /\ UNCHANGED <<strat, work, pending, phase, price, orders, pos, avg, owned, inHand, disturbed, shut,
                     reversed, count>>
  BY DEF ReadPosition, marketVars, brokerVars, reportVars, historyVars
<1>2. Shapes'
  BY <1>1 DEF IInv, Shapes
<1>3. ReportsOK'
  BY <1>1 DEF IInv, ReportsOK, ReportOK
<1>4. QED
  BY <1>1, <1>2, <1>3, Untroubled DEF IInv

LEMMA ExecuteKept ==
  ASSUME IInv, NEW r \in inHand, Execute(r)
  PROVE  IInv'
<1>1. PICK px : /\ inHand' = inHand \ {r} /\ strat' = OnExecution(strat, r.status, px)
      /\ owned' \subseteq owned /\ disturbed' = (disturbed \/ ~Expected(r))
      /\ UNCHANGED <<work, pending, phase, price, orders, pos, avg, snapshot, shut, reversed, count>>
  BY DEF Execute, marketVars, brokerVars
<1>2. ReportOK(r) /\ StrategyOK(strat)
  BY DEF IInv, ReportsOK, Shapes
<1>3. Answered(strat, r.status, strat')
  BY <1>1, <1>2, ReportAnswered DEF ReportOK
<1>4. disturbed' \in BOOLEAN /\ (~disturbed' => ~disturbed /\ Expected(r))
  BY <1>1 DEF IInv, Shapes
<1>5. Shapes'
  BY <1>1, <1>3, <1>4 DEF IInv, Shapes, Answered
<1>6. OrdersOK' /\ ReportsOK' /\ PositionBounded'
  BY <1>1 DEF IInv, OrdersOK, ReportsOK, ReportOK, PositionBounded, Executed
<1>7. Dispatching' = Dispatching
  BY <1>1 DEF Dispatching
<1>8. ASSUME Expected(r)
      PROVE  /\ r.order = Len(orders) /\ Terminal(r.status) /\ ~Flat(strat) /\ Dispatching = {}
             /\ orders[Len(orders)].status = r.status /\ orders # <<>>
  <2>1. r.order = Len(orders) /\ Terminal(r.status) /\ ~Flat(strat) /\ Dispatching = {}
    BY <1>8 DEF Expected, Dispatching
  <2>2. orders[r.order].status = r.status /\ r.order \in DOMAIN orders
    BY <1>2, <2>1 DEF ReportOK
  <2>3. orders # <<>>
    BY <2>2
  <2>4. QED
    BY <2>1, <2>2, <2>3
<1>9. InFlight'
  <2>1. ASSUME ~disturbed', NEW o \in DOMAIN orders, IsOpen(o)
        PROVE  FALSE
    <3>1. o = Len(orders) /\ orders[o].status = r.status /\ Terminal(r.status)
      BY <1>4, <1>8, <2>1 DEF IInv, InFlight
    <3>2. QED
      BY <2>1, <3>1 DEF IsOpen, Terminal
  <2>2. \A o \in DOMAIN orders' : IsOpen(o)' => o \in DOMAIN orders /\ IsOpen(o)
    BY <1>1 DEF IsOpen
  <2>3. ~disturbed' => Dispatching' = {}
    BY <1>4, <1>7, <1>8
  <2>4. QED
    BY <2>1, <2>2, <2>3 DEF InFlight
<1>10. ASSUME Calm'
       PROVE  Calm /\ Expected(r) /\ ~Flat(strat) /\ Dispatching = {}
  BY <1>1, <1>4, <1>8, <1>10 DEF Calm
<1>11. ASSUME Calm', Same(strat, strat')
       PROVE  Believed'
  <2>1. ~Flat(strat') /\ strat'.pos = strat.pos /\ strat'.entry = strat.entry /\ strat'.exit = strat.exit
    BY <1>10, <1>11 DEF Same, Flat
  <2>2. QED
    BY <1>1, <1>7, <1>10, <1>11, <2>1 DEF IInv, Believed, Waits, Asked
<1>12. Believed'
  <2>1. SUFFICES ASSUME Calm'
                 PROVE  /\ Dispatching' = {}
                        /\ (Flat(strat') /\ pos' = strat'.pos) \/ Same(strat, strat')
    BY <1>11 DEF Believed
  <2>2. Calm /\ Expected(r) /\ ~Flat(strat)
    BY <1>10, <2>1
  <2>3. PICK q : q = orders[Len(orders)]
    OBVIOUS
  <2>4. /\ Waits(strat, q) /\ pos = strat.pos + Went(q) /\ q.status = r.status
        /\ q.status \in {"cancelled", "rejected"} => q.filled = 0
        /\ q \in OrderShape /\ OrderOK(q)
    <3>1. /\ r.order \in DOMAIN orders /\ r.order = Len(orders)
      BY <1>2, <1>8, <2>2 DEF ReportOK
    <3>2. q \in OrderShape /\ OrderOK(q)
      BY <2>3, <3>1 DEF IInv, Shapes, OrdersOK
    <3>3. QED
      BY <1>8, <2>2, <2>3, <3>2 DEF IInv, Believed
  <2>5. strat.pos \in -1 .. 1 /\ strat.entry \in -1 .. 1
    BY <1>2 DEF StrategyOK
  <2>6. CASE r.status = "filled"
    <3>1. q.filled = q.lots /\ q.lots \in {1, 2} /\ q.dir \in {-1, 1}
      BY <2>4, <2>6 DEF OrderShape, OrderOK
    <3>2. Flat(strat') /\ strat'.pos = IF strat.exit THEN 0 ELSE strat.entry
      BY <1>3, <2>2, <2>6 DEF Answered
    <3>3. CASE q.exit
      <4>1. strat.exit /\ q.dir = -strat.pos /\ q.lots = 1 /\ strat.pos # 0
        BY <2>4, <3>3 DEF Waits, Asked
      <4>2. Went(q) = -strat.pos
        BY <2>5, <3>1, <4>1 DEF Went
      <4>3. pos = 0
        BY <2>4, <2>5, <4>2
      <4>4. QED
        BY <1>1, <1>7, <1>8, <2>2, <3>2, <4>1, <4>3
    <3>4. CASE ~q.exit
      <4>1. /\ ~strat.exit /\ strat.entry = q.dir /\ (strat.pos = 0 \/ strat.pos = -q.dir)
            /\ q.lots = IF strat.pos = 0 THEN 1 ELSE 2
        BY <2>4, <3>4 DEF Waits, Asked
      <4>2. pos = q.dir
        BY <2>4, <2>5, <3>1, <4>1 DEF Went
      <4>3. QED
        BY <1>1, <1>7, <1>8, <2>2, <3>2, <4>1, <4>2
    <3>5. QED
      BY <3>3, <3>4
  <2>7. CASE r.status # "filled"
    <3>1. r.status \in {"cancelled", "rejected"}
      BY <1>8, <2>2, <2>7 DEF Terminal
    <3>2. q.filled = 0 /\ Went(q) = 0
      BY <2>4, <3>1 DEF Went
    <3>3. pos = strat.pos
      BY <2>4, <2>5, <3>2
    <3>4. Same(strat, strat') \/ (Flat(strat') /\ strat'.pos = strat.pos)
      BY <1>3, <2>2, <3>1 DEF Answered
    <3>5. QED
      BY <1>1, <1>7, <1>8, <2>2, <3>3, <3>4
  <2>8. QED
    BY <2>6, <2>7
<1>13. QED
  BY <1>5, <1>6, <1>9, <1>12 DEF IInv

LEMMA SignIs ==
  ASSUME NEW n \in Int
  PROVE  Sign(n) \in -1 .. 1 /\ (n \in -1 .. 1 => Sign(n) = n)
BY DEF Sign

\* Undisturbed, with nothing shut or reversed, the position is at most one quantity.
LEMMA CalmPosition ==
  ASSUME IInv, Calm
  PROVE  pos \in -1 .. 1
<1>1. strat.pos \in -1 .. 1
  BY DEF IInv, Shapes, StrategyOK
<1>2. CASE Dispatching # {} \/ Flat(strat)
  BY <1>1, <1>2 DEF IInv, Believed
<1>3. CASE Dispatching = {} /\ ~Flat(strat)
  <2>1. PICK q : q = orders[Len(orders)]
    OBVIOUS
  <2>2. Waits(strat, q) /\ pos = strat.pos + Went(q) /\ orders # <<>>
    BY <1>3, <2>1 DEF IInv, Believed
  <2>3. q \in OrderShape /\ OrderOK(q)
    <3>1. orders \in Seq(OrderShape)
      BY DEF IInv, Shapes
    <3>2. Len(orders) \in DOMAIN orders
      BY <2>2, <3>1
    <3>3. QED
      BY <2>1, <3>1, <3>2 DEF IInv, OrdersOK
  <2>4. q.filled \in 0 .. 2 /\ q.filled <= q.lots /\ q.dir \in {-1, 1}
    BY <2>3 DEF OrderShape, OrderOK
  <2>5. CASE q.exit
    <3>1. q.dir = -strat.pos /\ q.lots = 1 /\ (strat.pos = 1 \/ strat.pos = -1)
      BY <1>1, <2>2, <2>5 DEF Waits, Asked
    <3>2. q.filled = 0 \/ q.filled = 1
      BY <2>4, <3>1
    <3>3. QED
      BY <2>2, <2>4, <3>1, <3>2 DEF Went
  <2>6. CASE ~q.exit
    <3>1. (strat.pos = 0 /\ q.lots = 1) \/ (strat.pos = -q.dir /\ strat.pos # 0 /\ q.lots = 2)
      BY <2>2, <2>6 DEF Waits, Asked
    <3>2. CASE strat.pos = 0 /\ q.lots = 1
      <4>1. q.filled = 0 \/ q.filled = 1
        BY <2>4, <3>2
      <4>2. QED
        BY <2>2, <2>4, <3>2, <4>1 DEF Went
    <3>3. CASE strat.pos = -q.dir /\ q.lots = 2
      <4>1. q.filled = 0 \/ q.filled = 1 \/ q.filled = 2
        BY <2>4
      <4>2. QED
        BY <2>2, <2>4, <3>3, <4>1 DEF Went
    <3>4. QED
      BY <3>1, <3>2, <3>3
  <2>7. QED
    BY <2>5, <2>6
<1>4. QED
  BY <1>2, <1>3

LEMMA SyncStrategyKept ==
  ASSUME IInv, SyncStrategy
  PROVE  IInv'
<1>1. PICK open : open = (\E o \in DOMAIN orders : IsOpen(o))
  OBVIOUS
<1>2. /\ snapshot # Nil /\ snapshot' = Nil
      /\ strat' = SyncBrokerPosition(strat, Sign(snapshot.pos), snapshot.avg, snapshot.price)
      /\ disturbed' = (disturbed \/ work # <<>> \/ snapshot.pos # pos \/ inHand # {} \/ open)
      /\ UNCHANGED <<work, pending, phase, price, orders, pos, avg, owned, inHand, shut, reversed, count>>
  BY <1>1 DEF SyncStrategy, marketVars, brokerVars, reportVars
<1>3. Sign(snapshot.pos) \in -1 .. 1 /\ pos \in Int /\ StrategyOK(strat)
  BY <1>2, SignIs DEF IInv, Shapes
<1>4. StrategyOK(strat') /\ strat'.kind = strat.kind /\ strat'.pos = Sign(snapshot.pos) /\ Flat(strat')
  BY <1>2, <1>3, SyncImposes
<1>5. disturbed' \in BOOLEAN
  BY <1>1, <1>2 DEF IInv, Shapes
<1>6. ASSUME ~disturbed'
      PROVE  ~disturbed /\ work = <<>> /\ snapshot.pos = pos /\ \A o \in DOMAIN orders : ~IsOpen(o)
  BY <1>1, <1>2, <1>6
<1>7. Shapes'
  BY <1>2, <1>4, <1>5 DEF IInv, Shapes
<1>8. OrdersOK' /\ ReportsOK' /\ PositionBounded'
  BY <1>2 DEF IInv, OrdersOK, ReportsOK, ReportOK, PositionBounded, Executed
<1>9. ~disturbed' => Dispatching' = {} /\ Dispatching = {}
  BY <1>2, <1>6 DEF Dispatching
<1>10. InFlight'
  BY <1>2, <1>6, <1>9 DEF InFlight, IsOpen
<1>11. Believed'
  <2>1. SUFFICES ASSUME Calm'
                 PROVE  Dispatching' = {} /\ pos' = strat'.pos
    BY <1>4 DEF Believed
  <2>2. Calm /\ Dispatching = {} /\ \A o \in DOMAIN orders : ~IsOpen(o)
    BY <1>2, <1>6, <1>9, <2>1 DEF Calm
  <2>3. pos \in -1 .. 1
    BY <2>2, CalmPosition
  <2>4. QED
    BY <1>2, <1>3, <1>4, <1>6, <1>9, <2>1, <2>3, SignIs DEF Calm
<1>12. QED
  BY <1>7, <1>8, <1>10, <1>11 DEF IInv

LEMMA RestartKept ==
  ASSUME IInv, Restart
  PROVE  IInv'
<1>1. PICK open, R : open = (\E o \in DOMAIN orders : IsOpen(o)) /\ R = ResetTradingState(strat)
  OBVIOUS
<1>2. /\ Counts("troubles") /\ snapshot' = Nil /\ pending' = Nil
      /\ strat' = SyncBrokerPosition(R, Sign(pos), avg, price)
      /\ work' = (IF pending = Nil THEN <<>> ELSE Live(pending))
      /\ disturbed' = (disturbed \/ work # <<>> \/ inHand # {} \/ open)
      /\ UNCHANGED <<phase, price, orders, pos, avg, owned, inHand, shut, reversed>>
  BY <1>1 DEF Restart, brokerVars, reportVars
<1>3. Sign(pos) \in -1 .. 1 /\ pos \in Int /\ StrategyOK(R) /\ R.kind = strat.kind
  BY <1>1, SignIs, ResetOK DEF IInv, Shapes
<1>4. StrategyOK(strat') /\ strat'.kind = strat.kind /\ strat'.pos = Sign(pos) /\ Flat(strat')
  BY <1>2, <1>3, SyncImposes
<1>5. disturbed' \in BOOLEAN
  BY <1>1, <1>2 DEF IInv, Shapes
<1>6. ASSUME ~disturbed'
      PROVE  ~disturbed /\ work = <<>> /\ \A o \in DOMAIN orders : ~IsOpen(o)
  BY <1>1, <1>2, <1>6
<1>7. work' \in Seq(Items) /\ Dispatching' = {}
  <2>1. work' \in Seq(Seen)
    BY <1>2, LiveSeen DEF IInv, Shapes
  <2>2. QED
    BY <2>1, SeenOnly, DispIs
<1>8. Shapes'
  BY <1>2, <1>4, <1>5, <1>7, CountsKept DEF IInv, Shapes
<1>9. OrdersOK' /\ ReportsOK' /\ PositionBounded'
  BY <1>2 DEF IInv, OrdersOK, ReportsOK, ReportOK, PositionBounded, Executed
<1>10. InFlight'
  BY <1>2, <1>6, <1>7 DEF InFlight, IsOpen
<1>11. Believed'
  <2>1. SUFFICES ASSUME Calm'
                 PROVE  pos' = strat'.pos
    BY <1>4, <1>7 DEF Believed
  <2>2. Calm /\ Dispatching = {} /\ \A o \in DOMAIN orders : ~IsOpen(o)
    BY <1>2, <1>6, <2>1 DEF Calm, Dispatching
  <2>3. pos \in -1 .. 1
    BY <2>2, CalmPosition
  <2>4. QED
    BY <1>2, <1>3, <1>4, <2>3, SignIs
<1>12. QED
  BY <1>8, <1>9, <1>10, <1>11 DEF IInv

LEMMA StutterKept ==
  ASSUME IInv, UNCHANGED vars
  PROVE  IInv'
<1>1. UNCHANGED <<strat, work, pending, phase, price, orders, pos, avg, owned, inHand, snapshot, disturbed,
                  shut, reversed, count>>
  BY DEF vars, marketVars, brokerVars, reportVars, historyVars
<1>2. Shapes'
  BY <1>1 DEF IInv, Shapes
<1>3. ReportsOK'
  BY <1>1 DEF IInv, ReportsOK, ReportOK
<1>4. QED
  BY <1>1, <1>2, <1>3, Untroubled DEF IInv

-----------------------------------------------------------------------------
(* The theorems.                                                           *)

LEMMA InitIInv ==
  Init => IInv
<1>1. SUFFICES ASSUME Init
               PROVE  IInv
  OBVIOUS
<1>2. /\ pending = Nil /\ work = <<>> /\ orders = <<>> /\ owned = {} /\ inHand = {}
      /\ pos = 0 /\ phase = 1 /\ snapshot = Nil /\ disturbed = FALSE /\ shut = FALSE /\ reversed = FALSE
      /\ count = [candles |-> 0, troubles |-> 0]
  BY <1>1 DEF Init
<1>3. PICK k \in Kinds : strat = Warmed[k]
  BY <1>1 DEF Init
<1>4. StrategyOK(strat) /\ Flat(strat) /\ strat.pos = 0
  <2>1. CASE k = "sma"
    <3>1. PICK c, h : strat = [Sma!New EXCEPT !.closes = c, !.history = h]
      BY <1>3, <2>1 DEF Warmed
    <3>2. QED
      BY <2>1, <3>1 DEF Sma!New, StrategyOK, Fields, Flat
  <2>2. CASE k = "lb"
    <3>1. strat = Lb!New
      BY <1>3, <2>2 DEF Warmed
    <3>2. QED
      BY <2>2, <3>1 DEF Lb!New, StrategyOK, Fields, Flat
  <2>3. CASE k = "orb"
    <3>1. PICK c, d, h, l : strat = [Orb!New EXCEPT !.day = c, !.bars = d, !.high = h, !.low = l]
      BY <1>3, <2>3 DEF Warmed
    <3>2. QED
      BY <2>3, <3>1 DEF Orb!New, StrategyOK, Fields, Flat
  <2>4. QED
    BY <2>1, <2>2, <2>3, OrdersAssumption DEF OrdersAssumption
<1>5. Dispatching = {} /\ DOMAIN orders = {}
  BY <1>2 DEF Dispatching
<1>6. Shapes
  <2>1. strat.kind \in Kinds
    BY <1>4 DEF StrategyOK
  <2>2. phase \in DOMAIN Phases[strat.kind]
    BY <1>2, <2>1, OrdersAssumption DEF OrdersAssumption
  <2>3. MaxCandles[strat.kind] \in Nat /\ MaxTroubles \in Nat
    BY <2>1, OrdersAssumption DEF OrdersAssumption
  <2>4. /\ count \in [{"candles", "troubles"} -> Nat]
        /\ count["candles"] <= MaxCandles[strat.kind] /\ count["troubles"] <= MaxTroubles
    BY <1>2, <2>3
  <2>5. disturbed \in BOOLEAN /\ shut \in BOOLEAN /\ reversed \in BOOLEAN
    BY <1>2, Zenon
  <2>6. orders \in Seq(OrderShape) /\ work \in Seq(Items) /\ owned \subseteq DOMAIN orders /\ pos \in Int
    BY <1>2
  <2>7. QED
    BY <1>2, <1>4, <2>2, <2>4, <2>5, <2>6 DEF Shapes
<1>7. OrdersOK /\ ReportsOK
  BY <1>2, <1>5 DEF OrdersOK, ReportsOK
<1>8. PositionBounded
  <2>1. Executed = {}
    BY <1>5 DEF Executed
  <2>2. IsFiniteSet(Executed) /\ Cardinality(Executed) = 0
    BY <2>1, FS_EmptySet
  <2>3. QED
    BY <1>2, <2>2 DEF PositionBounded
<1>9. InFlight /\ Believed
  BY <1>2, <1>4, <1>5 DEF InFlight, Believed
<1>10. QED
  BY <1>6, <1>7, <1>8, <1>9 DEF IInv

LEMMA NextIInv ==
  IInv /\ [Next]_vars => IInv'
<1>1. SUFFICES ASSUME IInv, [Next]_vars
               PROVE  IInv'
  OBVIOUS
<1>2. ASSUME NEW k \in Candles[strat.kind], NEW p \in DOMAIN Phases[strat.kind], NEW new \in BOOLEAN,
             Arrive(k, p, new)
      PROVE  IInv'
  BY <1>1, <1>2, ArriveKept
<1>3. CASE Instance
  BY <1>1, <1>3, EvaluateKept, RefuseKept, PostKept DEF Instance
<1>4. ASSUME NEW o \in DOMAIN orders,
             \/ Fill(o)
             \/ \E s \in {"cancelled", "rejected"} : EndOrder(o, s)
             \/ \E via \in {"stream", "poll"} : Receive(o, via)
      PROVE  IInv'
  BY <1>1, <1>4, FillKept, EndOrderKept, ReceiveKept
<1>5. ASSUME NEW r \in inHand, Execute(r)
      PROVE  IInv'
  BY <1>1, <1>5, ExecuteKept
<1>6. CASE CloseOutside \/ ReadPosition \/ SyncStrategy \/ Restart
  BY <1>1, <1>6, CloseOutsideKept, ReadPositionKept, SyncStrategyKept, RestartKept
<1>7. CASE UNCHANGED vars
  BY <1>1, <1>7, StutterKept
<1>8. QED
  BY <1>1, <1>2, <1>3, <1>4, <1>5, <1>6, <1>7 DEF Next

\* The inductive invariant holds of every state.
THEOREM Invariant == Spec => []IInv
BY InitIInv, NextIInv, PTL DEF Spec

\* The position has at most two lots for each order that was posted: counted lot
\* by lot, the executed ones are among two for each order.
LEMMA PositionRange ==
  ASSUME IInv
  PROVE  pos \in -2 * Len(orders) .. 2 * Len(orders)
<1>1. PICK n, c, All : n = Len(orders) /\ c = Cardinality(Executed) /\ All = (1 .. n) \X (1 .. 2)
  OBVIOUS
<1>2. orders \in Seq(OrderShape) /\ n \in Nat /\ DOMAIN orders = 1 .. n
  BY <1>1 DEF IInv, Shapes
<1>3. Executed \subseteq All
  <2>1. ASSUME NEW o \in DOMAIN orders, NEW x \in {o} \X (1 .. orders[o].filled)
        PROVE  x \in All
    <3>1. orders[o] \in OrderShape
      BY <1>2
    <3>2. orders[o].filled \in 0 .. 2
      BY <3>1 DEF OrderShape
    <3>3. QED
      BY <1>1, <1>2, <3>2
  <2>2. QED
    BY <2>1 DEF Executed
<1>4. IsFiniteSet(All) /\ Cardinality(All) = n * 2
  <2>1. IsFiniteSet(1 .. n) /\ Cardinality(1 .. n) = n
    BY <1>2, FS_Interval
  <2>2. PICK m \in Nat : m = 2
    OBVIOUS
  <2>3. IsFiniteSet(1 .. m) /\ Cardinality(1 .. m) = m
    <3>1. 1 \in Int /\ m \in Int /\ ~(1 > m) /\ m - 1 + 1 = m
      BY <2>2
    <3>2. QED
      BY <3>1, FS_Interval
  <2>4. IsFiniteSet(All) /\ Cardinality(All) = n * m
    <3>1. PICK A, B : A = 1 .. n /\ B = 1 .. m
      OBVIOUS
    <3>2. IsFiniteSet(A) /\ IsFiniteSet(B) /\ Cardinality(A) = n /\ Cardinality(B) = m
      BY <2>1, <2>3, <3>1
    <3>3. IsFiniteSet(A \X B) /\ Cardinality(A \X B) = Cardinality(A) * Cardinality(B)
      BY <3>2, FS_Product, Zenon
    <3>4. All = A \X B
      BY <1>1, <2>2, <3>1
    <3>5. QED
      BY <3>2, <3>3, <3>4
  <2>5. QED
    BY <2>2, <2>4
<1>5. c <= n * 2 /\ c \in Nat
  <2>1. c <= Cardinality(All)
    BY <1>1, <1>3, <1>4, FS_Subset
  <2>2. c \in Nat
    BY <1>1, FS_CardinalityType DEF IInv, PositionBounded
  <2>3. QED
    BY <1>4, <2>1, <2>2
<1>6. pos \in -c .. c
  BY <1>1 DEF IInv, PositionBounded
<1>7. QED
  BY <1>1, <1>2, <1>5, <1>6

\* The strategy, the goroutine's work, the orders, their reports and the bounds
\* have the types the code gives them, and an order's lots are as its status says.
THEOREM TypeCorrect == Spec => []TypeOK
<1>1. IInv => TypeOK
  <2>1. SUFFICES ASSUME IInv
                 PROVE  TypeOK
    OBVIOUS
  <2>2. strat.kind \in Kinds /\ {strat.pos, strat.entry} \subseteq -1 .. 1 /\ strat.exit \in BOOLEAN
    BY <2>1 DEF IInv, Shapes, StrategyOK
  <2>3. \A i \in DOMAIN work : work[i].do \in {"live", "bar", "dispatch"}
    <3>1. \A i \in DOMAIN work : work[i] \in Items
      BY <2>1 DEF IInv, Shapes
    <3>2. QED
      BY <3>1 DEF Items
  <2>4. \A o \in DOMAIN orders : /\ orders[o].filled \in 0 .. orders[o].lots
                                 /\ orders[o].status = "filled" <=> orders[o].filled = orders[o].lots
    <3>1. \A o \in DOMAIN orders : orders[o] \in OrderShape /\ OrderOK(orders[o])
      BY <2>1 DEF IInv, Shapes, OrdersOK
    <3>2. QED
      BY <3>1 DEF OrderShape, OrderOK
  <2>5. \A r \in inHand : r.order \in DOMAIN orders
    BY <2>1 DEF IInv, ReportsOK, ReportOK
  <2>6. {disturbed, shut, reversed} \subseteq BOOLEAN
    BY <2>1, Zenon DEF IInv, Shapes
  <2>7. \A k \in DOMAIN Limit : count[k] \in 0 .. Limit[k]
    <3>1. DOMAIN Limit = {"candles", "troubles"} /\ Limit["candles"] = MaxCandles[strat.kind]
          /\ Limit["troubles"] = MaxTroubles
      BY DEF Limit
    <3>2. MaxCandles[strat.kind] \in Nat /\ MaxTroubles \in Nat
      BY <2>2, OrdersAssumption DEF OrdersAssumption
    <3>3. QED
      BY <2>1, <3>1, <3>2 DEF IInv, Shapes
  <2>8. owned \subseteq DOMAIN orders /\ phase \in DOMAIN Phases[strat.kind]
    BY <2>1 DEF IInv, Shapes
  <2>9. QED
    BY <2>1, <2>2, <2>3, <2>4, <2>5, <2>6, <2>7, <2>8, PositionRange DEF TypeOK
<1>2. QED
  BY <1>1, Invariant, PTL

\* The pending flags of sma.Crossover, lb.Bounce and orb.Breakout hold every
\* signal back until the last one is settled: undisturbed, one order is on its way.
THEOREM OneOnItsWay == Spec => []OneInFlight
<1>1. IInv => OneInFlight
  <2>1. SUFFICES ASSUME IInv, ~disturbed
                 PROVE  Cardinality(Untouched) + Cardinality(Dispatching) <= 1
    BY DEF OneInFlight
  <2>2. /\ Dispatching \subseteq {1}
        /\ \A o \in Untouched : o = Len(orders) /\ Dispatching = {}
    BY <2>1 DEF IInv, InFlight, Untouched, IsOpen
  <2>3. PICK l : l = Len(orders)
    OBVIOUS
  <2>4. CASE Dispatching = {}
    <3>1. Cardinality(Dispatching) = 0
      BY <2>4, FS_EmptySet
    <3>2. Untouched = {} \/ Untouched = {l}
      BY <2>2, <2>3
    <3>3. Cardinality(Untouched) = 0 \/ Cardinality(Untouched) = 1
      BY <3>2, FS_EmptySet, FS_Singleton
    <3>4. QED
      BY <3>1, <3>3
  <2>5. CASE Dispatching = {1}
    <3>1. Untouched = {}
      BY <2>2, <2>5
    <3>2. Cardinality(Untouched) = 0 /\ Cardinality(Dispatching) = 1
      BY <2>5, <3>1, FS_EmptySet, FS_Singleton
    <3>3. QED
      BY <3>2
  <2>6. QED
    BY <2>2, <2>4, <2>5
<1>2. QED
  BY <1>1, Invariant, PTL

\* At rest a strategy believes what the broker holds: what SyncBrokerPosition,
\* OnExecution and OnSignalDispatchFailed leave of it is true.
THEOREM BeliefIsTrue == Spec => []BeliefMatches
<1>1. IInv => BeliefMatches
  <2>1. SUFFICES ASSUME IInv, Calm, Flat(strat)
                 PROVE  strat.pos = Sign(pos)
    BY DEF BeliefMatches, Calm
  <2>2. pos = strat.pos /\ pos \in -1 .. 1
    BY <2>1, CalmPosition DEF IInv, Believed
  <2>3. QED
    BY <2>2, SignIs
<1>2. QED
  BY <1>1, Invariant, PTL

\* A strategy holds one quantity at most: it enters when flat, and reverses with two.
THEOREM OneQuantity == Spec => []ExposureBounded
<1>1. IInv => ExposureBounded
  BY CalmPosition DEF ExposureBounded, Calm
<1>2. QED
  BY <1>1, Invariant, PTL

\* What an order that leaves a position executes, closes that position: the
\* signals of a stop, of a target and of the end of the day open nothing.
THEOREM ExitsClose == Spec => ExitNeverOpens
<1>1. ASSUME IInv, [Next]_vars
      PROVE  [\A o \in DOMAIN orders :
                (orders[o].exit /\ orders'[o].filled > orders[o].filled
                 /\ ~disturbed /\ ~shut /\ ~reversed) => pos # 0 /\ pos' = 0]_vars
  <2>1. SUFFICES ASSUME NEW o \in DOMAIN orders, orders[o].exit, Calm,
                        orders'[o].filled > orders[o].filled
                 PROVE  pos # 0 /\ pos' = 0
    BY DEF Calm
  <2>2. PICK f : f = orders[o].filled
    OBVIOUS
  <2>3. orders \in Seq(OrderShape) /\ orders[o] \in OrderShape /\ f \in 0 .. 2 /\ ~(f > f)
    <3>1. orders \in Seq(OrderShape)
      BY <1>1 DEF IInv, Shapes
    <3>2. orders[o] \in OrderShape
      BY <3>1
    <3>3. f \in 0 .. 2
      BY <2>2, <3>2 DEF OrderShape
    <3>4. QED
      BY <3>1, <3>2, <3>3
  <2>4. orders'[o].filled # f
    BY <2>1, <2>2, <2>3
  <2>5. Fill(o)
    <3>1. orders' # orders
      BY <2>2, <2>4
    <3>2. ASSUME Post
          PROVE  FALSE
      <4>1. PICK q : orders' = Append(orders, q)
        BY <3>2, Zenon DEF Post
      <4>2. orders'[o] = orders[o]
        BY <2>3, <4>1
      <4>3. QED
        BY <2>2, <2>4, <4>2
    <3>3. ASSUME NEW i \in DOMAIN orders, NEW s, EndOrder(i, s)
          PROVE  FALSE
      <4>1. PICK q : q = [orders[i] EXCEPT !.status = s] /\ orders' = [orders EXCEPT ![i] = q]
        BY <3>3 DEF EndOrder
      <4>2. orders[i] \in OrderShape
        BY <2>3
      <4>3. q.filled = orders[i].filled
        BY <4>1, <4>2 DEF OrderShape
      <4>4. orders'[o].filled = f
        BY <2>2, <2>3, <4>1, <4>3
      <4>5. QED
        BY <2>4, <4>4
    <3>4. ASSUME NEW i \in DOMAIN orders, Fill(i)
          PROVE  i = o
      <4>1. PICK q : orders' = [orders EXCEPT ![i] = q]
        BY <3>4, FillReplaces
      <4>2. QED
        BY <2>2, <2>3, <2>4, <4>1
    <3>5. Post \/ \E i \in DOMAIN orders : Fill(i) \/ \E s \in {"cancelled", "rejected"} : EndOrder(i, s)
      BY <1>1, <3>1 DEF Next, Instance, Arrive, Evaluate, Refuse, Receive, CloseOutside, Execute,
         ReadPosition, SyncStrategy, Restart, vars, brokerVars
    <3>6. QED
      BY <3>2, <3>3, <3>4, <3>5
  <2>6. /\ o = Len(orders) /\ Dispatching = {} /\ ~Flat(strat) /\ pos' = pos + orders[o].dir
        /\ orders[o].status \in {"new", "partially_filled"}
    BY <1>1, <2>1, <2>5 DEF IInv, InFlight, Calm, Fill, IsOpen
  <2>7. Waits(strat, orders[o]) /\ pos = strat.pos + Went(orders[o])
    BY <1>1, <2>1, <2>6 DEF IInv, Believed
  <2>8. strat.pos # 0 /\ orders[o].dir = -strat.pos /\ orders[o].lots = 1 /\ strat.pos \in -1 .. 1
    BY <1>1, <2>1, <2>7 DEF Waits, Asked, IInv, Shapes, StrategyOK
  <2>9. f = 0
    <3>1. OrderOK(orders[o])
      BY <1>1 DEF IInv, OrdersOK
    <3>2. QED
      BY <2>2, <2>3, <2>6, <2>8, <3>1 DEF OrderOK
  <2>10. pos = strat.pos
    <3>1. Went(orders[o]) = 0
      BY <2>2, <2>9, WentNothing
    <3>2. QED
      BY <2>7, <2>8, <3>1
  <2>11. QED
    BY <2>6, <2>8, <2>10
<1>2. QED
  BY <1>1, Invariant, PTL DEF Spec, ExitNeverOpens

=============================================================================
