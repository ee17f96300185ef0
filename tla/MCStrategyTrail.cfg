CONSTANTS
  Kinds = {"sma"}
  Candles <- MCTrailCandles
  Phases <- MCPhases
  Warm <- MCWarm
  FastN = 1
  SlowN = 2
  SwingBars = 1
  TrailNum = 1
  TrailDen = 4
  Daily <- MCDaily
  LevelDays = 3
  SlNum = 1
  TpNum = 1
  MultDen = 2
  RangeCandles = 1
  TopPrice = 100
  MaxCandles <- MCTrailMaxCandles
  MaxOrders <- MCMaxOrders
  MaxTroubles = 0
  Nil = Nil
SPECIFICATION Spec
PROPERTY TrailsTheBestPrice
