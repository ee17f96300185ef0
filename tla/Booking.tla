------------------------------ MODULE Booking ------------------------------
(***************************************************************************)
(* What the runner promises of the executed lots of its orders, without    *)
(* saying who reports them: each is claimed once, what is claimed is dealt *)
(* with, and an order is forgotten only when it is over and nothing of it  *)
(* is unclaimed.  After that the promise says nothing of new claims.       *)
(***************************************************************************)
EXTENDS Naturals

CONSTANTS Orders, Lots

VARIABLES
  phase,      \* "live", "over" at the broker, or "forgotten" by the runner
  executed,   \* lots the broker has executed
  claimed,    \* lots some report has claimed
  settled     \* lots given to the ledger, or dropped for want of a price

vars == <<phase, executed, claimed, settled>>

Init ==
  /\ phase = [o \in Orders |-> "live"]
  /\ executed = [o \in Orders |-> 0]
  /\ claimed = [o \in Orders |-> 0]
  /\ settled = [o \in Orders |-> 0]

Execute(o) ==
  /\ phase[o] = "live"
  /\ \E p \in {"live", "over"} : phase' = [phase EXCEPT ![o] = p]
  /\ \E n \in executed[o] .. Lots : executed' = [executed EXCEPT ![o] = n]
  /\ UNCHANGED <<claimed, settled>>

Claim(o) ==
  /\ phase[o] # "forgotten"
  /\ \E n \in claimed[o] + 1 .. executed[o] : claimed' = [claimed EXCEPT ![o] = n]
  /\ UNCHANGED <<phase, executed, settled>>

Settle(o) ==
  /\ \E n \in settled[o] + 1 .. claimed[o] : settled' = [settled EXCEPT ![o] = n]
  /\ UNCHANGED <<phase, executed, claimed>>

Forget(o) ==
  /\ phase[o] = "over" /\ claimed[o] = executed[o]
  /\ phase' = [phase EXCEPT ![o] = "forgotten"]
  /\ UNCHANGED <<executed, claimed, settled>>

Next == \E o \in Orders : Execute(o) \/ Claim(o) \/ Settle(o) \/ Forget(o)

Safety == Init /\ [][Next]_vars

\* A claim is dealt with, whoever made it.
Dealt == \A o \in Orders, n \in 1 .. Lots : (claimed[o] >= n) ~> (settled[o] >= n)

Spec == Safety /\ Dealt
=============================================================================
