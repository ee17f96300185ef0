----------------------------- MODULE LbStrategy -----------------------------
(***************************************************************************)
(* lb.Bounce as operators over its state: levels from daily bars, entries  *)
(* on a bounce, stop and target in multiples of the average true range,    *)
(* the end-of-day exit.                                                    *)
(*                                                                         *)
(* Abstracted: prices are natural numbers; what is computed from the       *)
(* average true range is kept times Scale, so that nothing is divided.     *)
(***************************************************************************)
EXTENDS Integers, Sequences, SequencesExt, FiniteSetsExt

CONSTANTS
  Daily,         \* the daily bars of the warm-up: [high, low, close]
  LevelDays,     \* level_days
  SlNum, TpNum,  \* sl_mult and tp_mult times MultDen
  MultDen

\* What the module asks of its constants; its user assumes it.
LbAssumption ==
  /\ LevelDays \in Nat \ {0} /\ Len(Daily) >= 3
  /\ SlNum \in Nat /\ TpNum \in Nat /\ MultDen \in Nat \ {0}

Abs(n) == IF n < 0 THEN -n ELSE n

\* OnDailyCandle: the true range of every bar but the first.
TrueRange(i) == Max({Daily[i].high - Daily[i].low,
                     Abs(Daily[i].high - Daily[i - 1].close),
                     Abs(Daily[i].low - Daily[i - 1].close)})

\* recomputeLevels: the three highest highs and lowest lows of the last days.
LastDays == SubSeq(Daily, Max({1, Len(Daily) - LevelDays + 1}), Len(Daily))
Top(s, Before(_, _)) == SubSeq(SortSeq(s, Before), 1, Min({3, Len(s)}))
Resistance == IF Len(LastDays) < 3 THEN <<>>
              ELSE Top([i \in DOMAIN LastDays |-> LastDays[i].high], LAMBDA a, b : a > b)
Support == IF Len(LastDays) < 3 THEN <<>>
           ELSE Top([i \in DOMAIN LastDays |-> LastDays[i].low], LAMBDA a, b : a < b)

\* Its average true range, of at most 14 bars, as a sum and a count.
AtrN == Min({14, Len(Daily) - 1})
AtrSum == LET sum[n \in 0 .. AtrN] == IF n = 0 THEN 0 ELSE sum[n - 1] + TrueRange(Len(Daily) - n + 1)
          IN sum[AtrN]

Scale == AtrN * MultDen
StopAt(S, price, side) == Scale * price - side * S.atr * SlNum
TargetAt(S, price, side) == Scale * price + side * S.atr * TpNum

\* Configure, and the daily warm-up.
New == [kind |-> "lb", pos |-> 0, entry |-> 0, exit |-> FALSE, stop |-> 0, target |-> 0,
        day |-> 0, eodSent |-> FALSE, last |-> <<>>,
        support |-> Support, resistance |-> Resistance, atr |-> AtrSum]

Signal(dir, exit, eod) == [dir |-> dir, exit |-> exit, lots |-> 1, eod |-> eod]

Leave(S, eod) ==
  <<[S EXCEPT !.exit = TRUE, !.eodSent = @ \/ eod], <<Signal(-S.pos, TRUE, eod)>>>>

\* The stop or the target is touched.
Hit(S, k) ==
  IF S.pos > 0 THEN Scale * k.low <= S.stop \/ Scale * k.high >= S.target
  ELSE Scale * k.high >= S.stop \/ Scale * k.low <= S.target

\* A bounce off a level that was not the last entry of the day, the first
\* level in the order of the table.
Bounces(S, k, levels, side) ==
  {i \in DOMAIN levels :
     /\ IF side > 0 THEN k.low <= levels[i] /\ k.close > levels[i]
        ELSE k.high >= levels[i] /\ k.close < levels[i]
     /\ S.last # <<S.day, side, levels[i]>>}

Enter(S, k, level, side) ==
  <<[S EXCEPT !.entry = side, !.stop = StopAt(S, level, side), !.target = TargetAt(S, k.close, side),
              !.last = <<S.day, side, level>>],
    <<Signal(side, FALSE, FALSE)>>>>

Bounce(S, k) ==
  LET ups == Bounces(S, k, S.support, 1)
      downs == Bounces(S, k, S.resistance, -1)
  IN IF ups # {} THEN Enter(S, k, S.support[Min(ups)], 1)
     ELSE IF downs # {} THEN Enter(S, k, S.resistance[Min(downs)], -1)
     ELSE <<S, <<>>>>

\* OnCandle, a completed bar.
OnCandle(S, k) ==
  LET T == IF k.day # S.day THEN [S EXCEPT !.day = k.day, !.eodSent = FALSE] ELSE S IN
    CASE S.support = <<>> \/ S.atr = 0 \/ T.exit \/ T.entry # 0 -> <<T, <<>>>>
      [] OTHER -> IF k.late THEN IF T.pos # 0 /\ ~T.eodSent THEN Leave(T, TRUE) ELSE <<T, <<>>>>
                  ELSE IF T.pos # 0 THEN IF Hit(T, k) THEN Leave(T, FALSE) ELSE <<T, <<>>>>
                  ELSE Bounce(T, k)

\* OnExecution: a cancellation is not looked at, a rejection with nothing
\* pending means flat.
OnExecution(S, status, price) ==
  CASE status \in {"filled", "partially_filled"} /\ S.entry # 0 ->
         [S EXCEPT !.pos = S.entry, !.entry = 0]
    [] status \in {"filled", "partially_filled"} /\ S.entry = 0 /\ S.exit ->
         [S EXCEPT !.pos = 0, !.exit = FALSE, !.stop = 0, !.target = 0]
    [] status = "rejected" /\ S.entry # 0 -> [S EXCEPT !.entry = 0, !.stop = 0, !.target = 0]
    [] status = "rejected" /\ S.entry = 0 /\ S.exit -> [S EXCEPT !.exit = FALSE]
    [] status = "rejected" /\ S.entry = 0 /\ ~S.exit -> [S EXCEPT !.pos = 0]
    [] OTHER -> S

OnSignalDispatchFailed(S, sig) ==
  IF S.exit THEN [S EXCEPT !.exit = FALSE, !.eodSent = @ /\ ~sig.eod]
  ELSE IF S.entry # 0 THEN [S EXCEPT !.entry = 0, !.stop = 0, !.target = 0]
  ELSE S

ResetTradingStateAfterWarmup(S) == New

\* Mutant: what is pending stays so.
MutantSyncBrokerPosition(S, pos, avg, price) == [S EXCEPT !.pos = pos]
SyncBrokerPosition(S, pos, avg, price) ==
  LET T == [S EXCEPT !.entry = 0, !.exit = FALSE, !.pos = pos, !.stop = 0, !.target = 0]
  IN IF pos = 0 THEN T ELSE [T EXCEPT !.stop = StopAt(S, avg, pos), !.target = TargetAt(S, avg, pos)]

=============================================================================
