-------------------------- MODULE MCStrategyOrders --------------------------
EXTENDS StrategyOrders

Tick(p) == [high |-> p, low |-> p, close |-> p]
Wick(h, l, c) == [high |-> h, low |-> l, close |-> c]

\* The breakout moves by ticks; the crossover also has a bar that falls far enough
\* to be stopped out; the bounce has one for its support, one for its resistance,
\* and one for its stop.
MCCandles == [sma |-> {Tick(8), Wick(12, 8, 12)},
              lb |-> {Wick(12, 9, 12), Wick(22, 18, 18), Tick(4)},
              orb |-> {Tick(8), Tick(12)}]
\* Ticks closer than the trailing share.
MCTrailCandles == [sma |-> {Tick(8), Tick(9)}]
MCTrailMaxCandles == [sma |-> 4]
MCWarm == <<Tick(10), Tick(8)>>
MCDaily == [i \in 1 .. 3 |-> Wick(20, 10, 15)]
MCPhases == [sma |-> <<[day |-> 1, late |-> FALSE]>>,
             lb |-> <<[day |-> 1, late |-> FALSE], [day |-> 1, late |-> TRUE]>>,
             orb |-> <<[day |-> 1, late |-> FALSE], [day |-> 1, late |-> TRUE], [day |-> 2, late |-> FALSE]>>]
MCMaxOrders == [sma |-> 3, lb |-> 2, orb |-> 2]
MCMaxCandles == [sma |-> 3, lb |-> 3, orb |-> 3]
=============================================================================
