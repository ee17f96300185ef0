---------------------------- MODULE SmaStrategy ----------------------------
(***************************************************************************)
(* sma.Crossover as operators over its state: every method of the strategy *)
(* returns the next state, and those that signal a pair of it and the      *)
(* signals.                                                                *)
(*                                                                         *)
(* Abstracted: prices are natural numbers, an average is compared through  *)
(* its sum; closes and history keep only the tail that is read; the        *)
(* indicator buffers for the chart are left out.                           *)
(***************************************************************************)
EXTENDS Integers, Sequences, SequencesExt, FiniteSetsExt

CONSTANTS
  FastN, SlowN,      \* fast_period, slow_period
  SwingBars,         \* initial_stop_swing_bars
  TrailNum, TrailDen \* trailing_stop_pct as a fraction

\* What the module asks of its constants; its user assumes it.
SmaAssumption ==
  /\ FastN \in Nat \ {0} /\ SlowN \in Nat /\ FastN < SlowN
  /\ SwingBars \in Nat
  /\ TrailNum \in Nat /\ TrailDen \in Nat \ {0} /\ 2 * TrailNum < TrailDen

\* Configure.
New == [kind |-> "sma", closes |-> <<>>, history |-> <<>>, pos |-> 0, entry |-> 0,
        exit |-> FALSE, best |-> 0, structural |-> 0]

LastOf(s, n) == SubSeq(s, Max({1, Len(s) - n + 1}), Len(s))
Total(s) == FoldLeft(LAMBDA a, b : a + b, 0, s)

\* smaTail: the mean of the last n, and 0 of fewer, as its sum.
TailSum(s, n) == IF Len(s) < n THEN 0 ELSE Total(LastOf(s, n))

\* The fast mean less the slow one, times both periods.
Spread(s) == TailSum(s, FastN) * SlowN - TailSum(s, SlowN) * FastN

Signal(dir, exit) == [dir |-> dir, exit |-> exit, lots |-> 1, eod |-> FALSE]

MaxPositive(a, b) == IF a <= 0 THEN b ELSE IF b <= 0 THEN a ELSE Max({a, b})
MinPositive(a, b) == IF a <= 0 THEN b ELSE IF b <= 0 THEN a ELSE Min({a, b})

\* swingStructuralStop: the worst price of the last bars.
SwingStop(S, pos) ==
  IF SwingBars = 0 \/ S.history = <<>> \/ pos = 0 THEN 0
  ELSE LET bars == ToSet(LastOf(S.history, SwingBars))
       IN IF pos < 0 THEN Max({b.high : b \in bars}) ELSE Min({b.low : b \in bars})

\* The stop is the best price less the trailing share, or more when short.
Reached(pos, best, price) ==
  IF pos > 0 THEN price * TrailDen <= best * (TrailDen - TrailNum)
  ELSE price * TrailDen >= best * (TrailDen + TrailNum)

\* trailingStopSignal and liveTrailingStopSignal: move the best price with the
\* bar's range, or with the range and the last price of a live candle; leave
\* when the price touches the stop.
Trail(S, favourable, touching, close) ==
  IF TrailNum = 0 \/ S.pos = 0 THEN <<S, <<>>>>
  ELSE LET from == IF S.best <= 0 THEN close ELSE S.best
           best == IF S.pos > 0 THEN Max({from, favourable}) ELSE Min({from, favourable})
       IN IF Reached(S.pos, best, touching)
            THEN <<[S EXCEPT !.best = best, !.exit = TRUE], <<Signal(-S.pos, TRUE)>>>>
            ELSE <<[S EXCEPT !.best = best], <<>>>>

TrailBar(S, k) ==
  IF S.pos > 0 THEN Trail(S, k.high, k.low, k.close) ELSE Trail(S, k.low, k.high, k.close)

TrailLive(S, k) ==
  Trail(S, IF S.pos > 0 THEN MaxPositive(k.high, k.close) ELSE MinPositive(k.low, k.close),
        k.close, k.close)

\* Mutants: an order to enter, or one to leave, does not hold up the next.
MutantIdleEntry(S) == ~S.exit
MutantIdleExit(S) == S.entry = 0
Idle(S) == S.entry = 0 /\ ~S.exit

\* A cross of the averages against the position asks for the other side.
Enter(S, dir) ==
  <<[S EXCEPT !.entry = dir, !.best = 0, !.structural = 0], <<Signal(dir, FALSE)>>>>

Cross(S) ==
  LET prev == Front(S.closes) IN
    IF Len(prev) < SlowN THEN <<S, <<>>>>
    ELSE IF Spread(prev) <= 0 /\ Spread(S.closes) > 0 /\ S.pos <= 0 THEN Enter(S, 1)
    ELSE IF Spread(prev) >= 0 /\ Spread(S.closes) < 0 /\ S.pos >= 0 THEN Enter(S, -1)
    ELSE <<S, <<>>>>

\* OnCandle, a completed bar.
OnCandle(S, k) ==
  IF ~Idle(S) THEN <<S, <<>>>>
  ELSE LET T == [S EXCEPT !.closes = LastOf(Append(@, k.close), SlowN + 1),
                          !.history = LastOf(Append(@, [high |-> k.high, low |-> k.low]), SwingBars)]
           trailed == TrailBar(T, k)
       IN IF Len(T.closes) < SlowN THEN <<T, <<>>>>
          ELSE IF trailed[2] # <<>> THEN trailed
          ELSE Cross(trailed[1])

\* OnLiveCandle, a bar in progress.
OnLiveCandle(S, k) == IF Idle(S) THEN TrailLive(S, k) ELSE <<S, <<>>>>

\* OnExecution: any fill settles what is pending, whichever order it is of.
OnExecution(S, status, price) ==
  CASE status \in {"filled", "partially_filled"} /\ S.exit ->
         [S EXCEPT !.pos = 0, !.exit = FALSE, !.best = 0, !.structural = 0]
    [] status \in {"filled", "partially_filled"} /\ ~S.exit /\ S.entry # 0 ->
         [S EXCEPT !.pos = S.entry, !.entry = 0, !.best = price,
                   !.structural = SwingStop(S, S.entry)]
    [] status \in {"cancelled", "rejected"} -> [S EXCEPT !.entry = 0, !.exit = FALSE]
    [] OTHER -> S

\* Mutant: a refused exit is taken for one that was made.
MutantOnSignalDispatchFailed(S, sig) ==
  [S EXCEPT !.pos = IF S.exit THEN 0 ELSE @, !.entry = 0, !.exit = FALSE]

OnSignalDispatchFailed(S, sig) == [S EXCEPT !.entry = 0, !.exit = FALSE]

ResetTradingStateAfterWarmup(S) ==
  [S EXCEPT !.pos = 0, !.entry = 0, !.exit = FALSE, !.best = 0, !.structural = 0]

SyncBrokerPosition(S, pos, avg, price) ==
  LET T == [S EXCEPT !.entry = 0, !.exit = FALSE, !.pos = pos,
                     !.best = CASE pos > 0 -> MaxPositive(avg, price)
                                [] pos < 0 -> MinPositive(avg, price)
                                [] OTHER -> 0,
                     !.structural = IF pos = 0 THEN 0 ELSE @]
  IN IF pos # 0 /\ T.structural = 0 THEN [T EXCEPT !.structural = SwingStop(S, pos)] ELSE T

=============================================================================
