------------------------------ MODULE RiskGate ------------------------------
(***************************************************************************)
(* The risk service every order of the runner passes: a circuit breaker,   *)
(* and a limit on the broker's position in the instrument.  The limit looks *)
(* at the position alone, not at the orders in flight, and adds the lots   *)
(* of the order to the broker's quantity, which is in shares.              *)
(*                                                                         *)
(* Abstracted: whether the trading session is open and the funds suffice   *)
(* is the caller's choice; of the cool-down, only whether it has passed.   *)
(***************************************************************************)
EXTENDS Integers

CONSTANTS
  Threshold,      \* failures in a row that trip the breaker
  MaxLots         \* max_position_lots: the position's limit on either side

\* What the module asks of its constants; its user assumes it.
RiskAssumption == Threshold \in Nat \ {0} /\ MaxLots \in Nat

Breaker == [failures : 0 .. Threshold, tripped : BOOLEAN, cooled : BOOLEAN]

NewCircuitBreaker == [failures |-> 0, tripped |-> FALSE, cooled |-> FALSE]

\* The counter is of no interest above the threshold.
RecordFailure(b) ==
  LET n == IF b.failures < Threshold THEN b.failures + 1 ELSE Threshold
  IN [failures |-> n, tripped |-> b.tripped \/ n >= Threshold, cooled |-> FALSE]

\* A success ends the row of failures and leaves a tripped breaker tripped.
RecordSuccess(b) == [b EXCEPT !.failures = 0]

IsTripped(b) == b.tripped /\ ~b.cooled

\* What asking the breaker leaves behind.
Asked(b) == IF b.tripped /\ b.cooled THEN NewCircuitBreaker ELSE b

\* Mutant: sells are not limited.
MutantCheckPosition(quantity, side, lots) == quantity + side * lots <= MaxLots

\* quantity: the broker's, in shares; lots: the order's.  The sum mixes the units.
CheckPosition(quantity, side, lots) ==
  /\ quantity + side * lots <= MaxLots
  /\ quantity + side * lots >= -MaxLots
=============================================================================
