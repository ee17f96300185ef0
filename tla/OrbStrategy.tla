---------------------------- MODULE OrbStrategy ----------------------------
(***************************************************************************)
(* orb.Breakout as operators over its state: the range of the first bars   *)
(* of the day, breakouts of it, the end-of-day exit.                       *)
(***************************************************************************)
EXTENDS Integers, Sequences, FiniteSetsExt

CONSTANTS
  RangeCandles,  \* range_candles
  TopPrice       \* above every price: the range's low before the first bar

\* What the module asks of its constants; its user assumes it.
OrbAssumption == RangeCandles \in Nat \ {0} /\ TopPrice \in Nat

\* Configure.
New == [kind |-> "orb", pos |-> 0, entry |-> 0, exit |-> FALSE, day |-> 0, bars |-> 0,
        high |-> 0, low |-> 0, eodSent |-> FALSE]

Idle(S) == S.entry = 0 /\ ~S.exit

Signal(dir, exit, lots) == [dir |-> dir, exit |-> exit, lots |-> lots, eod |-> exit]

\* A new trading day: another range; the position stays.
OnDay(S, k) ==
  IF k.day = S.day THEN S
  ELSE [S EXCEPT !.day = k.day, !.bars = 0, !.high = 0, !.low = TopPrice, !.eodSent = FALSE]

Observe(S, k) == [S EXCEPT !.high = Max({@, k.high}), !.low = Min({@, k.low})]

\* An opposite breakout trades twice the quantity, to reverse.
Enter(S, side) ==
  <<[S EXCEPT !.entry = side], <<Signal(side, FALSE, IF S.pos = 0 THEN 1 ELSE 2)>>>>

\* OnCandle, a completed bar; bars are counted as far as the range goes.
OnCandle(S, k) ==
  IF ~Idle(S) THEN <<S, <<>>>>
  ELSE LET T == OnDay(S, k) IN
    IF T.bars < RangeCandles THEN <<[Observe(T, k) EXCEPT !.bars = @ + 1], <<>>>>
    ELSE IF k.late THEN
      IF T.pos # 0 /\ ~T.eodSent
        THEN <<[T EXCEPT !.eodSent = TRUE, !.exit = TRUE], <<Signal(-T.pos, TRUE, 1)>>>>
        ELSE <<T, <<>>>>
    ELSE IF k.close > T.high /\ T.pos <= 0 THEN Enter(T, 1)
    ELSE IF k.close < T.low /\ T.pos >= 0 THEN Enter(T, -1)
    ELSE <<T, <<>>>>

\* OnExecution: a cancellation is not looked at.
OnExecution(S, status, price) ==
  CASE status \in {"filled", "partially_filled"} ->
         [S EXCEPT !.pos = IF S.exit THEN 0 ELSE IF S.entry # 0 THEN S.entry ELSE @,
                   !.entry = 0, !.exit = FALSE]
    [] status = "rejected" -> [S EXCEPT !.entry = 0, !.exit = FALSE, !.eodSent = @ /\ ~S.exit]
    [] OTHER -> S

OnSignalDispatchFailed(S, sig) ==
  [S EXCEPT !.entry = 0, !.exit = FALSE, !.eodSent = @ /\ ~(S.exit /\ sig.eod)]

ResetTradingStateAfterWarmup(S) ==
  [S EXCEPT !.pos = 0, !.entry = 0, !.exit = FALSE, !.eodSent = FALSE]

SyncBrokerPosition(S, pos, avg, price) ==
  [S EXCEPT !.entry = 0, !.exit = FALSE, !.pos = pos]

=============================================================================
