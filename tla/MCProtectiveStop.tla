-------------------------- MODULE MCProtectiveStop --------------------------
(* One dispatching goroutine beside the reconciler, the watchdog and the   *)
(* operator.                                                               *)
EXTENDS ProtectiveStop

CONSTANT d1

\* Long only: with one order the model is symmetric in the sign.
Sizes1 == {1}

Of(lot, fires, failures, restarts, flattens) ==
  [lot |-> lot, stopPct |-> TRUE, priced |-> TRUE, restores |-> TRUE,
   bound |-> [orders |-> 1, fires |-> fires, failures |-> failures, lists |-> failures,
              restarts |-> restarts, losses |-> 1, flattens |-> flattens]]

\* A triggered stop and a restart; failing calls; a manual flatten beside the
\* watchdog, of an instrument with two shares in a lot; instances without a stop
\* percentage, with a strategy that restores nothing, with positions without price.
Able == {Of(1, 1, 0, 1, 0), Of(1, 0, 1, 0, 0), Of(2, 0, 0, 0, 1)}
Unable ==
  {[Of(1, 0, 0, 1, 0) EXCEPT !.stopPct = FALSE],
   [Of(1, 0, 0, 1, 0) EXCEPT !.restores = FALSE],
   [Of(1, 0, 0, 1, 0) EXCEPT !.priced = FALSE]}
MCScenarios == Able \cup Unable
Undisturbed == {Of(1, 0, 0, 0, 0)}
=============================================================================
