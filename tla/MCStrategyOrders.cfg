CONSTANTS
  Kinds = {"sma", "lb", "orb"}
  Candles <- MCCandles
  Phases <- MCPhases
  Warm <- MCWarm
  FastN = 1
  SlowN = 2
  SwingBars = 1
  TrailNum = 1
  TrailDen = 4
  Daily <- MCDaily
  LevelDays = 3
  SlNum = 1
  TpNum = 1
  MultDen = 2
  RangeCandles = 1
  TopPrice = 100
  MaxCandles <- MCMaxCandles
  MaxOrders <- MCMaxOrders
  MaxTroubles = 1
  Nil = Nil
SPECIFICATION Spec
INVARIANTS
  TypeOK
  OneInFlight
  BeliefMatches
  ExposureBounded
PROPERTIES
  ExitNeverOpens
  SettlesToBroker
