----------------------------- MODULE MCAiTrader -----------------------------
(* Two sessions at most, two orders, limits of one lot, one or two shares   *)
(* in a lot.                                                                *)
EXTENDS AiTrader

\* A budget, in the order of Budget's fields.
B(lot, starts, resumes, posts, saves, busy, sides, may) ==
  [lot |-> lot, starts |-> starts, resumes |-> resumes, orders |-> posts, saves |-> saves,
   busy |-> busy, sides |-> sides, may |-> may]

\* Goroutines that overlap; a crash and a resumption; each request against the
\* rest; failing calls; the manager of sessions alone; the kill switch; losses.
\* Where two orders can fill, an instrument with two shares in a lot.
MCBudgets ==
  {B(1, 1, 0, 2, 0, 2, {1}, {}), B(2, 1, 0, 2, 0, 2, {1}, {}), B(1, 1, 1, 1, 1, 1, {1}, {"crash"}),
   B(1, 1, 0, 1, 0, 2, {1}, {"flatten"}), B(1, 1, 0, 1, 0, 2, {1}, {"stop", "read fails"}),
   B(1, 1, 0, 1, 0, 2, {1, -1}, {"query fails", "cancel fails"}),
   B(1, 2, 0, 0, 1, 1, {}, {"stop", "timeout"}), B(1, 1, 1, 0, 1, 2, {}, {"stop", "timeout"}),
   B(1, 1, 0, 1, 0, 2, {1, -1}, {"kill on", "kill off"}), B(2, 1, 0, 2, 0, 1, {1}, {"kill on", "flatten"}),
   B(2, 1, 0, 2, 0, 1, {1, -1}, {"lost"}),
   B(1, 1, 0, 1, 0, 1, {1, -1}, {"refused", "post fails"})}
=============================================================================
