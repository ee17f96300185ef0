--------------------------- MODULE AiTrader_limit ---------------------------
(***************************************************************************)
(* LimitKeptButForExtra for any finite set of budgets, any lot and any     *)
(* limits: the risk service looks at the position alone and adds lots to   *)
(* shares, so that what it lets past the limit is what was in flight, on   *)
(* the same side, when it approved, and the shares beyond the order's lots.*)
(***************************************************************************)
EXTENDS AiTrader_proofs

-----------------------------------------------------------------------------
(* Sums of shares.  MapThenSumSet takes an element away at a time; here    *)
(* they are counted, a pair for each share.                                *)

Units(L, S) == UNION {{x} \X (1 .. L[x]) : x \in S}
Total(L, S) == Cardinality(Units(L, S))

LEMMA UnitsOf ==
  ASSUME NEW L, NEW S, IsFiniteSet(S), \A x \in S : L[x] \in Nat
  PROVE  IsFiniteSet(Units(L, S)) /\ Total(L, S) \in Nat
<1> DEFINE f == [x \in S |-> {x} \X (1 .. L[x])]
           P == {f[x] : x \in S}
<1>1. f \in Surjection(S, P)
  BY DEF Surjection
<1>2. IsFiniteSet(P)
  BY <1>1, FS_Surjection
<1>3. ASSUME NEW x \in S
      PROVE  IsFiniteSet({x} \X (1 .. L[x]))
  <2>1. 1 \in Int /\ L[x] \in Int
    OBVIOUS
  <2>2. IsFiniteSet(1 .. L[x]) /\ IsFiniteSet({x})
    BY <2>1, FS_Interval, FS_Singleton
  <2>3. QED
    BY <2>2, FS_Product
<1>4. \A T \in P : IsFiniteSet(T)
  BY <1>3
<1>5. IsFiniteSet(UNION P)
  <2> HIDE DEF P
  <2>1. QED
    BY <1>2, <1>4, FS_UNION
<1>6. UNION P = Units(L, S)
  <2>1. P = {{x} \X (1 .. L[x]) : x \in S}
    OBVIOUS
  <2>2. QED
    BY <2>1 DEF Units
<1>7. QED
  BY <1>5, <1>6, FS_CardinalityType DEF Total

LEMMA TotalNone ==
  ASSUME NEW L
  PROVE  Total(L, {}) = 0
<1>1. Units(L, {}) = {}
  BY DEF Units
<1>2. QED
  BY <1>1, FS_EmptySet DEF Total

LEMMA TotalAdd ==
  ASSUME NEW L, NEW S, IsFiniteSet(S), NEW x, x \notin S, \A y \in S \cup {x} : L[y] \in Nat
  PROVE  Total(L, S \cup {x}) = Total(L, S) + L[x]
<1> DEFINE A == Units(L, S)
           B == {x} \X (1 .. L[x])
<1>1. Units(L, S \cup {x}) = A \cup B
  BY DEF Units
<1>2. A \cap B = {}
  BY DEF Units
<1>3. IsFiniteSet(A) /\ Cardinality(A) \in Nat
  BY UnitsOf DEF Total
<1>4. IsFiniteSet(B) /\ Cardinality(B) = L[x]
  <2>1. 1 \in Int /\ L[x] \in Nat
    OBVIOUS
  <2>2. IsFiniteSet(1 .. L[x]) /\ Cardinality(1 .. L[x]) = L[x]
    <3>1. PICK k : k = L[x]
      OBVIOUS
    <3>2. k \in Nat /\ k \in Int
      BY <2>1, <3>1
    <3>3. IsFiniteSet(1 .. k) /\ Cardinality(1 .. k) = IF 1 > k THEN 0 ELSE k - 1 + 1
      BY <2>1, <3>2, FS_Interval
    <3>4. QED
      BY <3>1, <3>2, <3>3
  <2>3. IsFiniteSet({x}) /\ Cardinality({x}) = 1
    BY FS_Singleton
  <2>4. IsFiniteSet(B) /\ Cardinality(B) = Cardinality({x}) * Cardinality(1 .. L[x])
    BY <2>2, <2>3, FS_Product
  <2>5. Cardinality(B) = 1 * L[x]
    <3> HIDE DEF B
    <3>1. QED
      BY <2>2, <2>3, <2>4
  <2>6. QED
    BY <2>1, <2>4, <2>5
<1>5. Cardinality(A \cap B) = 0
  BY <1>2, FS_EmptySet
<1>6. Cardinality(A \cup B) = Cardinality(A) + Cardinality(B) - Cardinality(A \cap B)
  <2> HIDE DEF A, B
  <2>1. QED
    BY <1>3, <1>4, FS_Union
<1>7. QED
  <2>1. L[x] \in Nat
    OBVIOUS
  <2> HIDE DEF A, B
  <2>2. Cardinality(A \cup B) = Cardinality(A) + L[x]
    BY <1>3, <1>4, <1>5, <1>6, <2>1
  <2>3. QED
    BY <1>1, <2>2 DEF Total, A

LEMMA TotalRemove ==
  ASSUME NEW L, NEW S, IsFiniteSet(S), NEW x \in S, \A y \in S : L[y] \in Nat
  PROVE  Total(L, S) = L[x] + Total(L, S \ {x})
<1> DEFINE R == S \ {x}
<1>1. IsFiniteSet(R) /\ x \notin R /\ S = R \cup {x}
  BY FS_RemoveElement
<1>2. \A y \in R \cup {x} : L[y] \in Nat
  BY <1>1
<1> HIDE DEF R
<1>3. Total(L, R \cup {x}) = Total(L, R) + L[x]
  BY <1>1, <1>2, TotalAdd
<1>4. Total(L, R) \in Nat /\ L[x] \in Nat
  BY <1>1, <1>2, UnitsOf
<1>5. Total(L, S) = L[x] + Total(L, R)
  BY <1>1, <1>3, <1>4
<1>6. QED
  BY <1>5 DEF R

LEMMA TotalLess ==
  ASSUME NEW L, NEW S, IsFiniteSet(S), NEW T \in SUBSET S, \A y \in S : L[y] \in Nat
  PROVE  Total(L, T) <= Total(L, S)
<1>1. Units(L, T) \subseteq Units(L, S)
  BY DEF Units
<1>2. IsFiniteSet(Units(L, S))
  BY UnitsOf
<1>3. QED
  BY <1>1, <1>2, FS_Subset DEF Total

LEMMA TotalSame ==
  ASSUME NEW L, NEW M, NEW S, \A x \in S : L[x] = M[x]
  PROVE  Total(L, S) = Total(M, S)
<1>1. Units(L, S) = Units(M, S)
  BY DEF Units
<1>2. QED
  BY <1>1 DEF Total

\* The recursion has one solution.
Adds(iter, L, S) ==
  iter = [s \in SUBSET S |->
            IF s = {} THEN 0 ELSE L[CHOOSE x \in s : TRUE] + iter[s \ {CHOOSE x \in s : TRUE}]]

LEMMA AddsTotal ==
  ASSUME NEW L, NEW S, IsFiniteSet(S), \A x \in S : L[x] \in Nat
  PROVE  Adds([s \in SUBSET S |-> Total(L, s)], L, S)
<1> DEFINE f == [s \in SUBSET S |-> Total(L, s)]
           g == [s \in SUBSET S |->
                   IF s = {} THEN 0 ELSE L[CHOOSE x \in s : TRUE] + f[s \ {CHOOSE x \in s : TRUE}]]
<1>1. ASSUME NEW s \in SUBSET S
      PROVE  f[s] = g[s]
  <2>1. CASE s = {}
    BY <2>1, TotalNone
  <2>2. CASE s # {}
    <3>1. PICK c : c = CHOOSE x \in s : TRUE
      OBVIOUS
    <3>2. c \in s
      BY <2>2, <3>1
    <3>3. IsFiniteSet(s) /\ \A y \in s : L[y] \in Nat
      BY FS_Subset
    <3>4. Total(L, s) = L[c] + Total(L, s \ {c})
      BY <3>2, <3>3, TotalRemove
    <3>5. f[s] = Total(L, s) /\ f[s \ {c}] = Total(L, s \ {c})
      BY <3>2
    <3>6. g[s] = L[c] + f[s \ {c}]
      <4> HIDE DEF f
      <4>1. QED
        BY <2>2, <3>1
    <3>7. QED
      BY <3>4, <3>5, <3>6
  <2>3. QED
    BY <2>1, <2>2
<1>2. f = g
  <2>1. f = [s \in SUBSET S |-> f[s]] /\ g = [s \in SUBSET S |-> g[s]]
    OBVIOUS
  <2> HIDE DEF f, g
  <2>2. QED
    BY <1>1, <2>1
<1>3. QED
  BY <1>2 DEF Adds

LEMMA AddsOnce ==
  ASSUME NEW L, NEW S, IsFiniteSet(S), \A x \in S : L[x] \in Nat, NEW iter, Adds(iter, L, S)
  PROVE  iter[S] = Total(L, S)
<1> DEFINE Bad == {k \in Nat : \E U \in SUBSET S : Cardinality(U) = k /\ iter[U] # Total(L, U)}
<1>1. SUFFICES ASSUME iter[S] # Total(L, S)
               PROVE  FALSE
  OBVIOUS
<1>2. Cardinality(S) \in Bad
  BY <1>1, FS_CardinalityType
<1>3. PICK k \in Bad : \A j \in Bad : ~(<<j, k>> \in OpToRel(<, Nat))
  <2>1. Bad \subseteq Nat /\ Bad # {}
    BY <1>2
  <2> HIDE DEF Bad
  <2>2. QED
    BY <2>1, NatLessThanWellFounded, WFMin
<1>4. PICK U \in SUBSET S : Cardinality(U) = k /\ iter[U] # Total(L, U)
  BY <1>3
<1>5. IsFiniteSet(U) /\ \A x \in U : L[x] \in Nat
  BY FS_Subset
<1>6. PICK c : c = CHOOSE x \in U : TRUE
  OBVIOUS
<1>7. iter[U] = IF U = {} THEN 0 ELSE L[c] + iter[U \ {c}]
  BY <1>6 DEF Adds
<1>8. U # {}
  BY <1>4, <1>7, TotalNone
<1>9. c \in U
  BY <1>6, <1>8
<1>10. PICK V : V = U \ {c}
  OBVIOUS
<1>11. V \in SUBSET S /\ Cardinality(V) = k - 1 /\ IsFiniteSet(V)
  BY <1>4, <1>5, <1>9, <1>10, FS_RemoveElement
<1>12. k \in Nat /\ Cardinality(V) \in Nat
  BY <1>11, FS_CardinalityType
<1>13. <<Cardinality(V), k>> \in OpToRel(<, Nat)
  BY <1>11, <1>12 DEF OpToRel
<1>14. Cardinality(V) \notin Bad
  BY <1>3, <1>13
<1>15. iter[V] = Total(L, V)
  BY <1>11, <1>12, <1>14
<1>16. Total(L, U) = L[c] + Total(L, V)
  BY <1>5, <1>9, <1>10, TotalRemove
<1>17. QED
  BY <1>4, <1>7, <1>8, <1>10, <1>15, <1>16

-----------------------------------------------------------------------------
(* The invariant: on each side, the position together with any of the      *)
(* orders that may yet fill and of those about to be posted is within the  *)
(* limit, but for what was in flight at the approval of one of them or of  *)
(* an order that has filled, and the shares of that one beyond its lots.   *)

OrderShares == [n \in DOMAIN orders |-> orders[n].shares]
PostShares == [t \in Threads |-> Step(t).shares]

WorkingOn(side) == {n \in DOMAIN orders : Working(n) /\ orders[n].side = side}
FilledOn(side) == {n \in DOMAIN orders : orders[n].status = "filled" /\ orders[n].side = side}
PostingOn(side) == {t \in Threads : At(t, "post") /\ Step(t).side = side}

Extras(side, F, G) ==
  {0} \cup {orders[n].extra : n \in F \cup FilledOn(side)} \cup {Step(t).extra : t \in G}

Covered(side) ==
  \A F \in SUBSET WorkingOn(side), G \in SUBSET PostingOn(side) :
    \E a \in Extras(side, F, G) :
      side * pos + Total(OrderShares, F) + Total(PostShares, G) <= MaxLots + a

ExtraNat ==
  /\ \A n \in DOMAIN orders : orders[n].extra \in Nat
  /\ \A t \in Threads : At(t, "post") => Step(t).extra \in Nat

LInv == ExtraNat /\ \A side \in {1, -1} : Covered(side)

LEMMA ThreadsFinite == IsFiniteSet(Threads)
<1> DEFINE f == [s \in Sessions |-> Loop(s)]
           g == [n \in 1 .. MaxOrders |-> Poll(n)]
           A == {Loop(s) : s \in Sessions}
           B == {Poll(n) : n \in 1 .. MaxOrders}
<1>1. IsFiniteSet(Sessions) /\ IsFiniteSet(1 .. MaxOrders)
  <2>1. 1 \in Int /\ MaxSessions \in Int /\ MaxOrders \in Int
    BY Bounds, SessionBounds
  <2>2. QED
    BY <2>1, FS_Interval DEF Sessions
<1>2. f \in Surjection(Sessions, A) /\ g \in Surjection(1 .. MaxOrders, B)
  BY DEF Surjection
<1>3. IsFiniteSet(A) /\ IsFiniteSet(B)
  <2> HIDE DEF f, g, A, B
  <2>1. QED
    BY <1>1, <1>2, FS_Surjection
<1>4. IsFiniteSet({Admin, Flattening})
  <2>1. IsFiniteSet({Admin}) /\ {Admin, Flattening} = {Admin} \cup {Flattening}
    BY FS_Singleton
  <2>2. QED
    BY <2>1, FS_AddElement
<1>5. IsFiniteSet(A \cup B)
  <2> HIDE DEF A, B
  <2>1. QED
    BY <1>3, FS_Union
<1>6. IsFiniteSet((A \cup B) \cup {Admin, Flattening})
  <2> HIDE DEF A, B
  <2>1. QED
    BY <1>4, <1>5, FS_Union
<1>7. QED
  BY <1>6 DEF Threads

\* What the sums are of.
LEMMA Sizes ==
  ASSUME NEW extra, Inv(extra), NEW side
  PROVE  /\ IsFiniteSet(WorkingOn(side)) /\ IsFiniteSet(PostingOn(side))
         /\ \A n \in WorkingOn(side) : OrderShares[n] \in Nat /\ OrderShares[n] = orders[n].shares
         /\ \A t \in PostingOn(side) : PostShares[t] \in Nat /\ PostShares[t] = Step(t).shares
<1>1. IsFiniteSet(WorkingOn(side))
  <2>1. 1 \in Int /\ Len(orders) \in Int /\ DOMAIN orders = 1 .. Len(orders)
    BY OrderTyped
  <2>2. IsFiniteSet(DOMAIN orders)
    BY <2>1, FS_Interval
  <2>3. WorkingOn(side) \subseteq DOMAIN orders
    BY DEF WorkingOn
  <2>4. QED
    BY <2>2, <2>3, FS_Subset
<1>2. IsFiniteSet(PostingOn(side))
  <2>1. PostingOn(side) \subseteq Threads
    BY DEF PostingOn
  <2>2. QED
    BY <2>1, ThreadsFinite, FS_Subset
<1>3. ASSUME NEW n \in WorkingOn(side)
      PROVE  OrderShares[n] \in Nat /\ OrderShares[n] = orders[n].shares
  <2>1. n \in DOMAIN orders
    BY DEF WorkingOn
  <2>2. orders[n] \in OrderShape(extra)
    BY <2>1, OrderTyped
  <2>3. QED
    BY <2>1, <2>2 DEF OrderShares, OrderShape
<1>4. ASSUME NEW t \in PostingOn(side)
      PROVE  PostShares[t] \in Nat /\ PostShares[t] = Step(t).shares
  <2>1. t \in Threads /\ At(t, "post")
    BY DEF PostingOn
  <2>2. Step(t) \in StepShape(extra)
    BY <2>1, AtHead
  <2>3. QED
    BY <2>1, <2>2 DEF PostShares, StepShape
<1>5. QED
  BY <1>1, <1>2, <1>3, <1>4

\* Shares in flight, counted.
LEMMA InFlightIs ==
  ASSUME NEW extra, Inv(extra), NEW side
  PROVE  /\ InFlight(side) = Total(OrderShares, WorkingOn(side)) + Total(PostShares, PostingOn(side))
         /\ InFlight(side) \in Nat
<1>1. PICK W, P, L, M : /\ W = WorkingOn(side) /\ P = PostingOn(side)
                        /\ L = OrderShares /\ M = PostShares
  OBVIOUS
<1>2. /\ IsFiniteSet(W) /\ \A n \in W : L[n] \in Nat /\ L[n] = orders[n].shares
      /\ IsFiniteSet(P) /\ \A t \in P : M[t] \in Nat /\ M[t] = Step(t).shares
  BY <1>1, Sizes
<1>3. MapThenSumSet(LAMBDA n : orders[n].shares, W) = Total(L, W)
  <2> DEFINE Sums(h) == h = [s \in SUBSET W |->
                               IF s = {} THEN 0 ELSE orders[CHOOSE x \in s : TRUE].shares
                                                     + h[s \ {CHOOSE x \in s : TRUE}]]
  <2>1. MapThenSumSet(LAMBDA n : orders[n].shares, W) = (CHOOSE h : Sums(h))[W]
    BY Zenon DEF MapThenSumSet, MapThenFoldSet
  <2>2. ASSUME NEW h
        PROVE  Sums(h) <=> Adds(h, L, W)
    <3>1. [s \in SUBSET W |-> IF s = {} THEN 0 ELSE orders[CHOOSE x \in s : TRUE].shares
                                                    + h[s \ {CHOOSE x \in s : TRUE}]]
          = [s \in SUBSET W |-> IF s = {} THEN 0 ELSE L[CHOOSE x \in s : TRUE]
                                                      + h[s \ {CHOOSE x \in s : TRUE}]]
      <4>1. ASSUME NEW s \in SUBSET W, s # {}
            PROVE  orders[CHOOSE x \in s : TRUE].shares = L[CHOOSE x \in s : TRUE]
        BY <1>2, <4>1
      <4>2. QED
        BY <4>1
    <3>2. QED
      BY <3>1 DEF Adds
  <2> HIDE DEF Sums
  <2>3. PICK h : h = CHOOSE i : Sums(i)
    OBVIOUS
  <2>4. \E h2 : Sums(h2)
    BY <1>2, <2>2, AddsTotal
  <2>5. Sums(h)
    BY <2>3, <2>4
  <2>6. h[W] = Total(L, W)
    BY <1>2, <2>2, <2>5, AddsOnce
  <2>7. QED
    BY <2>1, <2>3, <2>6
<1>4. MapThenSumSet(LAMBDA t : Step(t).shares, P) = Total(M, P)
  <2> DEFINE Sums(h) == h = [s \in SUBSET P |->
                               IF s = {} THEN 0 ELSE Step(CHOOSE x \in s : TRUE).shares
                                                     + h[s \ {CHOOSE x \in s : TRUE}]]
  <2>1. MapThenSumSet(LAMBDA t : Step(t).shares, P) = (CHOOSE h : Sums(h))[P]
    BY Zenon DEF MapThenSumSet, MapThenFoldSet
  <2>2. ASSUME NEW h
        PROVE  Sums(h) <=> Adds(h, M, P)
    <3>1. [s \in SUBSET P |-> IF s = {} THEN 0 ELSE Step(CHOOSE x \in s : TRUE).shares
                                                    + h[s \ {CHOOSE x \in s : TRUE}]]
          = [s \in SUBSET P |-> IF s = {} THEN 0 ELSE M[CHOOSE x \in s : TRUE]
                                                      + h[s \ {CHOOSE x \in s : TRUE}]]
      <4>1. ASSUME NEW s \in SUBSET P, s # {}
            PROVE  Step(CHOOSE x \in s : TRUE).shares = M[CHOOSE x \in s : TRUE]
        BY <1>2, <4>1
      <4>2. QED
        BY <4>1
    <3>2. QED
      BY <3>1 DEF Adds
  <2> HIDE DEF Sums
  <2>3. PICK h : h = CHOOSE i : Sums(i)
    OBVIOUS
  <2>4. \E h2 : Sums(h2)
    BY <1>2, <2>2, AddsTotal
  <2>5. Sums(h)
    BY <2>3, <2>4
  <2>6. h[P] = Total(M, P)
    BY <1>2, <2>2, <2>5, AddsOnce
  <2>7. QED
    BY <2>1, <2>3, <2>6
<1>5. InFlight(side) = MapThenSumSet(LAMBDA n : orders[n].shares, W)
                       + MapThenSumSet(LAMBDA t : Step(t).shares, P)
  BY <1>1, Zenon DEF InFlight, WorkingOn, PostingOn
<1>6. Total(L, W) \in Nat /\ Total(M, P) \in Nat
  BY <1>2, UnitsOf
<1>7. QED
  BY <1>1, <1>3, <1>4, <1>5, <1>6

-----------------------------------------------------------------------------
(* What leaves the invariant alone: no order is approved, accepted or      *)
(* filled; a goroutine that comes to post was there.                       *)

OrdersCalm ==
  /\ DOMAIN orders' = DOMAIN orders
  /\ \A n \in DOMAIN orders :
       /\ orders'[n].side = orders[n].side /\ orders'[n].shares = orders[n].shares
       /\ orders'[n].extra = orders[n].extra
       /\ orders'[n].status = "working" => orders[n].status = "working"
       /\ orders'[n].status = "filled" <=> orders[n].status = "filled"

RunsCalm ==
  \A u \in Threads : At(u, "post")' => At(u, "post") /\ thread'[u].run = thread[u].run

\* What was in flight at the approvals is not forgotten.
LEMMA ExtrasKept ==
  ASSUME NEW side, NEW E, NEW F, NEW G, NEW a \in Extras(side, E, G),
         E \cup FilledOn(side) \subseteq F \cup FilledOn(side)',
         \A n \in E \cup FilledOn(side) : orders'[n].extra = orders[n].extra,
         \A u \in G : Step(u)' = Step(u)
  PROVE  a \in Extras(side, F, G)'
<1>1. a = 0 \/ a \in {orders[n].extra : n \in E \cup FilledOn(side)} \/ a \in {Step(u).extra : u \in G}
  BY DEF Extras
<1>2. CASE a = 0
  BY <1>2 DEF Extras
<1>3. CASE a \in {orders[n].extra : n \in E \cup FilledOn(side)}
  <2>1. PICK n \in E \cup FilledOn(side) : a = orders[n].extra
    BY <1>3
  <2>2. n \in F \cup FilledOn(side)' /\ a = orders'[n].extra
    BY <2>1
  <2>3. QED
    BY <2>2 DEF Extras
<1>4. CASE a \in {Step(u).extra : u \in G}
  <2>1. PICK u \in G : a = Step(u)'.extra
    BY <1>4
  <2>2. QED
    BY <2>1 DEF Extras
<1>5. QED
  BY <1>1, <1>2, <1>3, <1>4

LEMMA CalmKept ==
  ASSUME LInv, OrdersCalm, RunsCalm, UNCHANGED pos
  PROVE  LInv'
<1>1. \A u \in Threads : At(u, "post")' => At(u, "post") /\ Step(u)' = Step(u)
  BY DEF RunsCalm, Step
<1>2. ExtraNat'
  BY <1>1 DEF LInv, ExtraNat, OrdersCalm
<1>3. ASSUME NEW side \in {1, -1},
             NEW F \in SUBSET WorkingOn(side)', NEW G \in SUBSET PostingOn(side)'
      PROVE  \E a \in Extras(side, F, G)' :
               side * pos' + Total(OrderShares', F) + Total(PostShares', G) <= MaxLots + a
  <2>1. F \in SUBSET WorkingOn(side) /\ FilledOn(side)' = FilledOn(side) /\ F \subseteq DOMAIN orders
    BY DEF WorkingOn, FilledOn, Working, OrdersCalm
  <2>2. G \in SUBSET PostingOn(side) /\ G \subseteq Threads /\ \A u \in G : Step(u)' = Step(u)
    BY <1>1 DEF PostingOn
  <2>3. PICK a \in Extras(side, F, G) :
          side * pos + Total(OrderShares, F) + Total(PostShares, G) <= MaxLots + a
    BY <2>1, <2>2 DEF LInv, Covered
  <2>4. a \in Extras(side, F, G)'
    <3>1. F \cup FilledOn(side) \subseteq DOMAIN orders
      BY <2>1 DEF FilledOn
    <3>2. \A n \in F \cup FilledOn(side) : orders'[n].extra = orders[n].extra
      BY <3>1 DEF OrdersCalm
    <3>3. QED
      BY <2>1, <2>2, <2>3, <3>2, ExtrasKept
  <2>5. Total(OrderShares', F) = Total(OrderShares, F)
    <3>1. PICK L, M : L = OrderShares' /\ M = OrderShares
      OBVIOUS
    <3>2. \A n \in F : L[n] = M[n]
      BY <2>1, <3>1 DEF OrderShares, OrdersCalm
    <3>3. QED
      BY <3>1, <3>2, TotalSame
  <2>6. Total(PostShares', G) = Total(PostShares, G)
    <3>1. PICK L, M : L = PostShares' /\ M = PostShares
      OBVIOUS
    <3>2. \A u \in G : L[u] = M[u]
      BY <2>2, <3>1 DEF PostShares
    <3>3. QED
      BY <3>1, <3>2, TotalSame
  <2>7. QED
    BY <2>3, <2>4, <2>5, <2>6
<1>4. \A side \in {1, -1} : Covered(side)'
  BY <1>3 DEF Covered
<1>5. QED
  BY <1>2, <1>4 DEF LInv

LEMMA SameOrders ==
  ASSUME UNCHANGED orders
  PROVE  OrdersCalm
BY DEF OrdersCalm

\* Shares on either side, and what the limit says of them.
LEMMA SideTimes ==
  ASSUME NEW side \in {1, -1}, NEW p \in Int, NEW l \in Nat
  PROVE  /\ side * p \in Int /\ side * (p + side * l) = side * p + l
         /\ side * (p + (0 - side) * l) = side * p - l
         /\ Risk!CheckPosition(p, side, l) => side * p + l <= MaxLots
<1>1. MaxLots \in Nat
  BY AiTraderAssumption DEF Risk!RiskAssumption
<1>2. CASE side = 1
  BY <1>1, <1>2 DEF Risk!CheckPosition
<1>3. CASE side = -1
  BY <1>1, <1>3 DEF Risk!CheckPosition
<1>4. QED
  BY <1>2, <1>3

\* A lot is at least a share.
LEMMA LotShares ==
  ASSUME NEW m \in Nat, NEW k \in Nat \ {0}
  PROVE  m * k \in Nat /\ m * k >= m
<1>1. PICK j \in Nat : k = j + 1
  <2>1. k - 1 \in Nat /\ k = (k - 1) + 1
    OBVIOUS
  <2>2. QED
    BY <2>1
<1>2. m * j \in Nat
  OBVIOUS
<1>3. m * (j + 1) = m * j + m
  OBVIOUS
<1>4. QED
  BY <1>1, <1>2, <1>3

\* What is approved within the limit, with what was in flight.
LEMMA LimitSum ==
  ASSUME NEW y \in Int, NEW m \in Nat, NEW l \in Nat, NEW sh \in Nat, NEW c \in Nat,
         NEW f \in Nat, NEW h \in Nat, y + l <= m, f + h <= c
  PROVE  y + f + (sh + h) <= m + (c + sh - l)
<1>1. y + l + f + h <= m + c
  OBVIOUS
<1>2. y + f + h <= m + c - l
  BY <1>1
<1>3. y + f + (sh + h) = y + f + h + sh /\ m + (c + sh - l) = m + c - l + sh
  OBVIOUS
<1>4. QED
  BY <1>2, <1>3

\* An approval: of the orders with the new one, the others are part of what was in flight.
LEMMA ApprovedKept ==
  ASSUME NEW extra, Inv(extra), LInv, NEW t \in Threads, thread[t].run # <<>>, ~thread[t].killed,
         ~At(t, "post"), NEW order \in StepShape(extra),
         Risk!CheckPosition(pos, order.side, order.lots),
         Continue(t, <<Approved(order)>>),
         UNCHANGED <<orders, pos>>
  PROVE  LInv'
<1>1. PICK s, l, sh, c, b : /\ s = order.side /\ l = order.lots /\ sh = l * left.lot
                            /\ c = InFlight(s) /\ b = c + sh - l
  OBVIOUS
<1>2. PICK post : post = [order EXCEPT !.do = "post", !.shares = sh, !.extra = b]
  OBVIOUS
<1>0. post = Approved(order)
  BY <1>1, <1>2 DEF Approved
<1>3. /\ s \in {-1, 0, 1} /\ l \in Nat /\ c \in Nat /\ sh \in Nat /\ b \in Nat /\ b = c + sh - l
      /\ post.do = "post" /\ post.side = s /\ post.shares = sh /\ post.extra = b
  <2>1. c \in Nat
    BY <1>1, InFlightIs
  <2>2. l \in Nat /\ left.lot \in Nat \ {0}
    BY <1>1 DEF StepShape, Inv, Shapes, Budget
  <2>3. sh \in Nat /\ sh >= l
    BY <1>1, <2>2, LotShares
  <2>4. b \in Nat
    BY <1>1, <2>1, <2>2, <2>3
  <2>5. QED
    BY <1>1, <1>2, <2>1, <2>2, <2>3, <2>4 DEF StepShape
<1>4. PICK U : U = Then(t, <<post>>)
  OBVIOUS
<1>5. U.run # <<>> /\ Head(U.run) = post
  <2>1. PICK extra2 : extra2 = extra \cup {b}
    OBVIOUS
  <2>2. extra \subseteq extra2 /\ post \in StepShape(extra2)
    BY <1>2, <1>3, <2>1 DEF StepShape, StepNames
  <2>3. QED
    BY <1>3, <1>4, <2>2, PostNext
<1>6. thread'[t] = U /\ \A u \in Threads \ {t} : thread'[u] = thread[u]
  BY <1>0, <1>4 DEF Continue, Inv, ThreadsInv
<1>7. /\ At(t, "post")' /\ Step(t)' = post
      /\ \A u \in Threads \ {t} : (At(u, "post")' <=> At(u, "post")) /\ Step(u)' = Step(u)
  BY <1>3, <1>5, <1>6 DEF At, Step
<1>8. ExtraNat'
  BY <1>3, <1>7 DEF LInv, ExtraNat
<1>9. ASSUME NEW side \in {1, -1},
             NEW F \in SUBSET WorkingOn(side)', NEW G \in SUBSET PostingOn(side)'
      PROVE  \E a \in Extras(side, F, G)' :
               side * pos' + Total(OrderShares', F) + Total(PostShares', G) <= MaxLots + a
  <2>1. PICK O, L, M, W, P, H : /\ O = OrderShares /\ L = PostShares /\ M = PostShares'
                                /\ W = WorkingOn(side) /\ P = PostingOn(side) /\ H = G \ {t}
    OBVIOUS
  <2>2. /\ OrderShares' = O /\ F \in SUBSET W /\ t \notin P
        /\ G \subseteq Threads /\ H \in SUBSET P /\ (t \in G => s = side)
    BY <1>3, <1>7, <2>1 DEF OrderShares, WorkingOn, Working, PostingOn
  <2>3. \A u \in H : M[u] = L[u] /\ Step(u)' = Step(u)
    BY <1>7, <2>1, <2>2 DEF PostShares
  <2>4. PICK a \in Extras(side, F, H) : side * pos + Total(O, F) + Total(L, H) <= MaxLots + a
    BY <2>1, <2>2 DEF LInv, Covered
  <2>5. Total(M, H) = Total(L, H)
    BY <2>3, TotalSame
  <2>6. CASE t \notin G
    <3>1. H = G
      BY <2>1, <2>6
    <3>2. a \in Extras(side, F, G)'
      BY <2>3, <2>4, <3>1 DEF Extras, FilledOn
    <3>3. QED
      BY <2>1, <2>2, <2>4, <2>5, <3>1, <3>2
  <2>7. CASE t \in G
    <3>1. /\ IsFiniteSet(W) /\ IsFiniteSet(P)
          /\ (\A n \in W : O[n] \in Nat) /\ (\A u \in P : L[u] \in Nat)
      BY <2>1, Sizes
    <3>2. c = Total(O, W) + Total(L, P)
      BY <1>1, <2>1, <2>2, <2>7, InFlightIs
    <3>3. Total(O, F) <= Total(O, W) /\ Total(L, H) <= Total(L, P)
      BY <2>2, <3>1, TotalLess
    <3>4. Total(O, W) \in Nat /\ Total(L, P) \in Nat /\ Total(O, F) \in Nat /\ Total(L, H) \in Nat
      <4>1. IsFiniteSet(F) /\ IsFiniteSet(H) /\ (\A n \in F : O[n] \in Nat) /\ \A u \in H : L[u] \in Nat
        BY <2>2, <3>1, FS_Subset
      <4>2. QED
        BY <3>1, <4>1, UnitsOf
    <3>5. M[t] = sh
      BY <1>3, <1>7, <2>1 DEF PostShares
    <3>6. Total(M, G) = sh + Total(L, H)
      <4>1. IsFiniteSet(G)
        BY <2>2, ThreadsFinite, FS_Subset
      <4>2. \A u \in G : M[u] \in Nat
        BY <1>3, <2>1, <2>2, <2>3, <3>1, <3>5
      <4>3. Total(M, G) = M[t] + Total(M, G \ {t})
        BY <2>7, <4>1, <4>2, TotalRemove
      <4>4. QED
        BY <2>1, <2>5, <3>5, <4>3
    <3>7. side * pos \in Int /\ side * pos + l <= MaxLots
      <4>1. pos \in Int
        BY DEF Inv, Shapes
      <4>2. Risk!CheckPosition(pos, side, l)
        BY <1>1, <2>2, <2>7
      <4>3. QED
        BY <1>3, <4>1, <4>2, SideTimes
    <3>8. b \in Extras(side, F, G)'
      BY <1>3, <1>7, <2>7 DEF Extras
    <3>9. MaxLots \in Nat
      BY AiTraderAssumption DEF Risk!RiskAssumption
    <3>10. side * pos + Total(O, F) + Total(M, G) <= MaxLots + b
      <4>1. PICK y, f, h, w, p, g : /\ y = side * pos /\ f = Total(O, F) /\ h = Total(L, H)
                                    /\ w = Total(O, W) /\ p = Total(L, P) /\ g = Total(M, G)
        OBVIOUS
      <4>2. f <= w /\ h <= p /\ c = w + p /\ g = sh + h /\ y + l <= MaxLots
        BY <3>2, <3>3, <3>6, <3>7, <4>1
      <4>3. /\ y \in Int /\ MaxLots \in Nat /\ l \in Nat /\ sh \in Nat /\ c \in Nat
            /\ f \in Nat /\ h \in Nat /\ w \in Nat /\ p \in Nat
        BY <1>3, <3>4, <3>7, <3>9, <4>1
      <4>4. y + f + g <= MaxLots + b
        <5>1. y + l <= MaxLots /\ f + h <= c
          BY <4>2, <4>3
        <5>2. y + f + (sh + h) <= MaxLots + (c + sh - l)
          BY <4>3, <5>1, LimitSum
        <5>3. QED
          BY <1>3, <4>2, <5>2
      <4>5. QED
        BY <4>1, <4>4
    <3>11. QED
      BY <2>1, <2>2, <3>8, <3>10
  <2>8. QED
    BY <2>6, <2>7
<1>10. \A side \in {1, -1} : Covered(side)'
  BY <1>9 DEF Covered
<1>11. QED
  BY <1>8, <1>10 DEF LInv

\* The broker accepts an order: its shares were to be posted and now may fill.
LEMMA AcceptedKept ==
  ASSUME NEW extra, Inv(extra), LInv, NEW t \in Threads, At(t, "post"),
         NEW n, n = Len(orders) + 1, NEW new, orders' = Append(orders, new),
         new.side = Step(t).side, new.shares = Step(t).shares, new.extra = Step(t).extra,
         new.status = "working", RunsCalm, ~At(t, "post")', UNCHANGED pos
  PROVE  LInv'
<1>1. PICK x : x = Step(t)
  OBVIOUS
<1>2. x \in StepShape(extra) /\ x.shares \in Nat /\ x.extra \in Nat
  <2>1. x \in StepShape(extra)
    BY <1>1, AtHead
  <2>2. QED
    BY <1>1, <2>1 DEF StepShape, LInv, ExtraNat
<1>3. /\ DOMAIN orders' = DOMAIN orders \cup {n} /\ n \notin DOMAIN orders /\ orders'[n] = new
      /\ \A i \in DOMAIN orders : orders'[i] = orders[i]
  <2>1. orders \in Seq(OrderShape(extra)) /\ Len(orders) \in Nat /\ DOMAIN orders = 1 .. Len(orders)
    BY OrderTyped
  <2>2. PICK q, r : q = orders /\ r = orders'
    OBVIOUS
  <2>3. PICK S : S = OrderShape(extra) \cup {new}
    OBVIOUS
  <2>4. q \in Seq(S) /\ new \in S /\ r = Append(q, new)
    BY <2>1, <2>2, <2>3, SeqMonotonic
  <2>5. /\ r \in Seq(S) /\ Len(r) = Len(q) + 1 /\ r[Len(q) + 1] = new
        /\ \A i \in 1 .. Len(q) : r[i] = q[i]
    BY <2>4, AppendProperties
  <2>6. DOMAIN r = 1 .. Len(q) + 1
    BY <2>5, LenProperties
  <2>7. QED
    BY <2>1, <2>2, <2>5, <2>6
<1>4. \A u \in Threads : At(u, "post")' => u # t /\ At(u, "post") /\ Step(u)' = Step(u)
  BY DEF RunsCalm, Step
<1>5. ExtraNat'
  BY <1>1, <1>2, <1>3, <1>4 DEF LInv, ExtraNat
<1>6. ASSUME NEW side \in {1, -1},
             NEW F \in SUBSET WorkingOn(side)', NEW G \in SUBSET PostingOn(side)'
      PROVE  \E a \in Extras(side, F, G)' :
               side * pos' + Total(OrderShares', F) + Total(PostShares', G) <= MaxLots + a
  <2>1. PICK O, N, L, M, W, P, E : /\ O = OrderShares /\ N = OrderShares' /\ L = PostShares /\ M = PostShares'
                                   /\ W = WorkingOn(side) /\ P = PostingOn(side) /\ E = F \ {n}
    OBVIOUS
  <2>2. /\ E \in SUBSET W /\ (n \in F => x.side = side) /\ FilledOn(side)' = FilledOn(side)
        /\ E \subseteq DOMAIN orders
    BY <1>1, <1>3, <2>1 DEF WorkingOn, Working, FilledOn
  <2>3. /\ G \in SUBSET P /\ t \notin G /\ \A u \in G : u \in Threads /\ Step(u)' = Step(u)
    BY <1>4, <2>1 DEF PostingOn
  <2>4. Total(N, E) = Total(O, E)
    <3>1. \A i \in E : N[i] = O[i]
      BY <1>3, <2>1, <2>2 DEF OrderShares
    <3>2. QED
      BY <3>1, TotalSame
  <2>5. Total(M, G) = Total(L, G)
    <3>1. \A u \in G : M[u] = L[u]
      BY <2>1, <2>3 DEF PostShares
    <3>2. QED
      BY <3>1, TotalSame
  <2>6. \A i \in E \cup FilledOn(side) : orders'[i].extra = orders[i].extra
    BY <1>3, <2>2 DEF FilledOn
  <2>7. CASE n \notin F
    <3>1. E = F
      BY <2>1, <2>7
    <3>2. PICK a \in Extras(side, E, G) : side * pos + Total(O, E) + Total(L, G) <= MaxLots + a
      BY <2>1, <2>2, <2>3 DEF LInv, Covered
    <3>3. a \in Extras(side, F, G)'
      BY <2>2, <2>3, <2>6, <3>1, <3>2, ExtrasKept
    <3>4. QED
      BY <2>1, <2>4, <2>5, <3>1, <3>2, <3>3
  <2>8. CASE n \in F
    <3>1. PICK H : H = G \cup {t}
      OBVIOUS
    <3>2. t \in P /\ H \in SUBSET P
      BY <1>1, <2>1, <2>2, <2>3, <2>8, <3>1 DEF PostingOn
    <3>3. PICK a \in Extras(side, E, H) : side * pos + Total(O, E) + Total(L, H) <= MaxLots + a
      BY <2>1, <2>2, <3>2 DEF LInv, Covered
    <3>4. a \in Extras(side, F, G)'
      <4>1. CASE a \in Extras(side, E, G)
        <5>1. E \cup FilledOn(side) \subseteq F \cup FilledOn(side)'
          BY <2>1, <2>2
        <5>2. \A u \in G : Step(u)' = Step(u)
          BY <2>3
        <5>3. QED
          BY <2>6, <4>1, <5>1, <5>2, ExtrasKept
      <4>2. CASE a = x.extra
        <5>1. a = orders'[n].extra
          BY <1>1, <1>3, <4>2
        <5>2. QED
          BY <2>8, <5>1 DEF Extras
      <4>3. a \in Extras(side, E, G) \/ a = Step(t).extra
        BY <3>1, <3>3 DEF Extras
      <4>4. QED
        BY <1>1, <4>1, <4>2, <4>3
    <3>5. /\ IsFiniteSet(W) /\ IsFiniteSet(P)
          /\ (\A i \in W : O[i] \in Nat) /\ (\A u \in P : L[u] \in Nat)
      BY <2>1, Sizes
    <3>6. IsFiniteSet(E) /\ IsFiniteSet(G)
      BY <2>2, <2>3, <3>5, FS_Subset
    <3>7. Total(L, H) = Total(L, G) + x.shares
      <4>1. L[t] = x.shares
        BY <1>1, <2>1 DEF PostShares
      <4>2. \A u \in G \cup {t} : L[u] \in Nat
        BY <2>3, <3>2, <3>5
      <4>3. Total(L, G \cup {t}) = Total(L, G) + L[t]
        BY <2>3, <3>6, <4>2, TotalAdd
      <4>4. QED
        BY <3>1, <4>1, <4>3
    <3>8. Total(N, F) = Total(O, E) + x.shares
      <4>1. N[n] = x.shares
        BY <1>1, <1>3, <2>1 DEF OrderShares
      <4>2. \A i \in E \cup {n} : N[i] \in Nat
        BY <1>2, <1>3, <2>1, <2>2, <3>5, <4>1 DEF OrderShares
      <4>3. n \notin E /\ F = E \cup {n}
        BY <2>1, <2>8
      <4>4. Total(N, E \cup {n}) = Total(N, E) + N[n]
        BY <3>6, <4>2, <4>3, TotalAdd
      <4>5. QED
        BY <2>4, <4>1, <4>3, <4>4
    <3>9. Total(O, E) \in Nat /\ Total(L, G) \in Nat
      <4>1. (\A i \in E : O[i] \in Nat) /\ \A u \in G : L[u] \in Nat
        BY <2>2, <2>3, <3>5
      <4>2. QED
        BY <3>6, <4>1, UnitsOf
    <3>10. side * pos \in Int
      <4>1. pos \in Int
        BY DEF Inv, Shapes
      <4>2. QED
        BY <4>1
    <3>11. side * pos + Total(N, F) + Total(M, G) <= MaxLots + a
      BY <1>2, <2>5, <3>3, <3>7, <3>8, <3>9, <3>10
    <3>12. QED
      BY <2>1, <3>4, <3>11
  <2>9. QED
    BY <2>7, <2>8
<1>7. \A side \in {1, -1} : Covered(side)'
  BY <1>6 DEF Covered
<1>8. QED
  BY <1>5, <1>7 DEF LInv

\* An order fills: its shares join the position.
LEMMA FilledKept ==
  ASSUME NEW extra, Inv(extra), LInv, NEW n, Fill(n)
  PROVE  LInv'
<1>1. /\ n \in DOMAIN orders /\ Working(n) /\ UNCHANGED thread
      /\ orders' = [orders EXCEPT ![n].status = "filled"]
      /\ pos' = pos + orders[n].side * orders[n].shares
  BY DEF Fill
<1>2. PICK s, l : s = orders[n].side /\ l = orders[n].shares
  OBVIOUS
<1>3. s \in {-1, 0, 1} /\ l \in Nat /\ pos \in Int /\ orders[n] \in OrderShape(extra)
  <2>1. orders[n] \in OrderShape(extra)
    BY <1>1, OrderTyped
  <2>2. QED
    BY <1>2, <2>1 DEF OrderShape, Inv, Shapes
<1>4. /\ DOMAIN orders' = DOMAIN orders /\ orders'[n].status = "filled"
      /\ \A i \in DOMAIN orders : /\ orders'[i].side = orders[i].side /\ orders'[i].shares = orders[i].shares
                                  /\ orders'[i].extra = orders[i].extra
                                  /\ i # n => orders'[i] = orders[i]
  BY <1>1, <1>3 DEF OrderShape
<1>5. \A u \in Threads : At(u, "post")' = At(u, "post") /\ Step(u)' = Step(u)
  BY <1>1 DEF At, Step
<1>6. ExtraNat'
  BY <1>4, <1>5 DEF LInv, ExtraNat
<1>7. ASSUME NEW side \in {1, -1},
             NEW F \in SUBSET WorkingOn(side)', NEW G \in SUBSET PostingOn(side)'
      PROVE  \E a \in Extras(side, F, G)' :
               side * pos' + Total(OrderShares', F) + Total(PostShares', G) <= MaxLots + a
  <2>1. PICK O, L, W, P : /\ O = OrderShares /\ L = PostShares
                          /\ W = WorkingOn(side) /\ P = PostingOn(side)
    OBVIOUS
  <2>2. OrderShares' = O
    BY <1>4, <2>1 DEF OrderShares
  <2>3. PostShares' = L /\ PostingOn(side)' = P
    BY <1>5, <2>1 DEF PostShares, PostingOn
  <2>4. F \in SUBSET W /\ n \notin F /\ F \subseteq DOMAIN orders
    BY <1>4, <2>1 DEF WorkingOn, Working
  <2>5. /\ IsFiniteSet(W) /\ IsFiniteSet(P)
        /\ (\A i \in W : O[i] \in Nat) /\ (\A u \in P : L[u] \in Nat)
    BY <2>1, Sizes
  <2>6. IsFiniteSet(F) /\ Total(O, F) \in Nat /\ Total(L, G) \in Nat
    <3>1. IsFiniteSet(F) /\ IsFiniteSet(G) /\ (\A i \in F : O[i] \in Nat) /\ \A u \in G : L[u] \in Nat
      BY <2>3, <2>4, <2>5, FS_Subset
    <3>2. QED
      BY <3>1, UnitsOf
  <2>7. CASE s = side
    <3>1. PICK H : H = F \cup {n}
      OBVIOUS
    <3>2. H \in SUBSET W
      BY <1>1, <1>2, <2>1, <2>4, <2>7, <3>1 DEF WorkingOn
    <3>3. PICK a \in Extras(side, H, G) : side * pos + Total(O, H) + Total(L, G) <= MaxLots + a
      BY <2>1, <2>3, <3>2 DEF LInv, Covered
    <3>4. a \in Extras(side, F, G)'
      <4>1. FilledOn(side)' = FilledOn(side) \cup {n}
        <5>1. n \in FilledOn(side)'
          BY <1>1, <1>2, <1>4, <2>7 DEF FilledOn
        <5>2. \A i \in DOMAIN orders \ {n} : i \in FilledOn(side)' <=> i \in FilledOn(side)
          BY <1>4 DEF FilledOn
        <5>3. FilledOn(side) \subseteq DOMAIN orders /\ FilledOn(side)' \subseteq DOMAIN orders
          BY <1>4 DEF FilledOn
        <5>4. QED
          BY <1>1, <5>1, <5>2, <5>3
      <4>2. F \cup FilledOn(side)' = H \cup FilledOn(side)
        BY <3>1, <4>1
      <4>3. \A i \in H \cup FilledOn(side) : orders'[i].extra = orders[i].extra
        BY <1>1, <1>4, <2>4, <3>1 DEF FilledOn
      <4>4. \A u \in G : Step(u)' = Step(u)
        BY <1>5, <2>1, <2>3 DEF PostingOn
      <4>5. QED
        BY <3>3, <4>2, <4>3, <4>4, ExtrasKept
    <3>5. Total(O, H) = Total(O, F) + l
      <4>1. O[n] = l
        BY <1>1, <1>2, <2>1 DEF OrderShares
      <4>2. \A i \in F \cup {n} : O[i] \in Nat
        BY <2>5, <3>1, <3>2
      <4>3. Total(O, F \cup {n}) = Total(O, F) + O[n]
        BY <2>4, <2>6, <4>2, TotalAdd
      <4>4. QED
        BY <3>1, <4>1, <4>3
    <3>6. side * pos' = side * pos + l /\ side * pos \in Int
      BY <1>1, <1>2, <1>3, <2>7, SideTimes
    <3>7. side * pos' + Total(O, F) + Total(L, G) <= MaxLots + a
      BY <1>3, <2>6, <3>3, <3>5, <3>6
    <3>8. QED
      BY <2>2, <2>3, <3>4, <3>7
  <2>8. CASE s # side
    <3>1. PICK a \in Extras(side, F, G) : side * pos + Total(O, F) + Total(L, G) <= MaxLots + a
      BY <2>1, <2>3, <2>4 DEF LInv, Covered
    <3>2. a \in Extras(side, F, G)' /\ a \in Nat
      <4>1. \A i \in F \cup FilledOn(side) : i \in DOMAIN orders /\ orders'[i].extra = orders[i].extra
        BY <1>4, <2>4 DEF FilledOn
      <4>2. F \cup FilledOn(side) \subseteq F \cup FilledOn(side)'
        BY <1>1, <1>4 DEF FilledOn, Working
      <4>3. \A u \in G : At(u, "post") /\ u \in Threads /\ Step(u)' = Step(u)
        BY <1>5, <2>1, <2>3 DEF PostingOn
      <4>4. a \in Nat
        BY <3>1, <4>1, <4>3 DEF Extras, LInv, ExtraNat
      <4>5. a \in Extras(side, F, G)'
        BY <3>1, <4>1, <4>2, <4>3, ExtrasKept
      <4>6. QED
        BY <4>4, <4>5
    <3>3. side * pos' \in Int /\ side * pos \in Int /\ side * pos' <= side * pos
      <4>1. CASE s = 0
        BY <1>1, <1>2, <1>3, <4>1
      <4>2. CASE s # 0
        <5>1. s = 0 - side /\ pos' = pos + s * l
          BY <1>1, <1>2, <1>3, <2>8, <4>2
        <5>2. side * pos' = side * pos - l /\ side * pos \in Int
          BY <1>3, <5>1, SideTimes
        <5>3. QED
          BY <1>3, <5>2
      <4>3. QED
        BY <4>1, <4>2
    <3>4. MaxLots \in Nat
      BY AiTraderAssumption DEF Risk!RiskAssumption
    <3>5. side * pos' + Total(O, F) + Total(L, G) <= MaxLots + a
      BY <2>6, <3>1, <3>2, <3>3, <3>4
    <3>6. QED
      BY <2>2, <2>3, <3>2, <3>5
  <2>9. QED
    BY <2>7, <2>8
<1>8. \A side \in {1, -1} : Covered(side)'
  BY <1>7 DEF Covered
<1>9. QED
  BY <1>6, <1>8 DEF LInv

-----------------------------------------------------------------------------
(* A goroutine that goes on comes to post only from Validate.              *)

Free(steps, extra) ==
  /\ steps \in Seq(StepShape(extra))
  /\ \A i \in DOMAIN steps : steps[i].do # "post"

LEMMA RunsFree ==
  ASSUME NEW steps, NEW extra, NEW quiet, Runs(steps, extra, quiet)
  PROVE  Free(steps, extra)
BY DEF Runs, Free, Waiting

LEMMA FollowsFree ==
  ASSUME NEW t, NEW steps, NEW extra, Follows(t, steps, extra)
  PROVE  Free(steps, extra)
BY RunsFree DEF Follows

LEMMA FreeNone ==
  ASSUME NEW extra
  PROVE  Free(<<>>, extra)
BY DEF Free

LEMMA FreeOne ==
  ASSUME NEW extra, Inv(extra), NEW x \in (StepNames \ {"post"})
  PROVE  Free(<<Do(x)>>, extra)
<1>1. Do(x) \in StepShape(extra) /\ Do(x).do = x
  BY DoShape DEF Inv, Shapes
<1>2. QED
  BY <1>1 DEF Free

LEMMA FreeTwo ==
  ASSUME NEW extra, NEW a \in StepShape(extra), NEW b \in StepShape(extra),
         a.do # "post", b.do # "post"
  PROVE  Free(<<a, b>>, extra)
BY DEF Free

Heads(steps, run) == {steps[j] : j \in DOMAIN steps} \cup {run[j] : j \in DOMAIN run \ {1}}

LEMMA HeadThen ==
  ASSUME NEW S, NEW run \in Seq(S), run # <<>>, NEW steps \in Seq(S),
         NEW r, r = steps \o Tail(run), r # <<>>
  PROVE  Head(r) \in Heads(steps, run)
<1>1. PICK tail : tail = Tail(run)
  OBVIOUS
<1>2. /\ tail \in Seq(S) /\ Len(tail) = Len(run) - 1 /\ Len(run) \in Nat
      /\ \A i \in 1 .. Len(tail) : tail[i] = run[i + 1]
      /\ DOMAIN run = 1 .. Len(run) /\ DOMAIN steps = 1 .. Len(steps) /\ Len(steps) \in Nat
  BY <1>1, HeadTailProperties, LenProperties
<1>3. /\ r \in Seq(S) /\ Len(r) = Len(steps) + Len(tail)
      /\ \A i \in 1 .. Len(steps) + Len(tail) :
           r[i] = IF i <= Len(steps) THEN steps[i] ELSE tail[i - Len(steps)]
  BY <1>1, <1>2, ConcatProperties
<1>4. Len(r) >= 1 /\ Head(r) = r[1]
  BY <1>2, <1>3, EmptySeq, LenProperties, HeadTailProperties
<1>5. CASE Len(steps) >= 1
  <2>1. 1 \in DOMAIN steps /\ r[1] = steps[1]
    BY <1>2, <1>3, <1>4, <1>5
  <2>2. QED
    BY <1>4, <2>1 DEF Heads
<1>6. CASE ~(Len(steps) >= 1)
  <2>1. Len(steps) = 0 /\ 1 \in 1 .. Len(tail) /\ 2 \in DOMAIN run
    BY <1>2, <1>3, <1>4, <1>6
  <2>2. r[1] = tail[1] /\ tail[1] = run[2]
    BY <1>2, <1>3, <1>4, <2>1
  <2>3. QED
    BY <1>4, <2>1, <2>2 DEF Heads
<1>7. QED
  BY <1>5, <1>6

\* After such steps, what waited before is not an order to post either.
LEMMA NotPosting ==
  ASSUME NEW extra, Inv(extra), NEW t \in Threads, thread[t].run # <<>>,
         NEW steps, Free(steps, extra), thread'[t].run = steps \o Tail(thread[t].run)
  PROVE  ~At(t, "post")'
<1>1. PICK S, run, r : S = StepShape(extra) /\ run = thread[t].run /\ r = steps \o Tail(run)
  OBVIOUS
<1>2. run \in Seq(S) /\ run # <<>>
  BY <1>1, AsItIs DEF ThreadOK, ThreadShape
<1>3. steps \in Seq(S)
  BY <1>1 DEF Free
<1>4. ASSUME r # <<>>
      PROVE  Head(r).do # "post"
  <2>1. Head(r) \in Heads(steps, run)
    BY <1>1, <1>2, <1>3, <1>4, HeadThen
  <2>2. \A j \in DOMAIN run \ {1} : run[j].do # "post"
    <3>1. \A j \in DOMAIN run \ {1} : j > 1
      BY <1>2, LenProperties
    <3>2. \A j \in DOMAIN run : j > 1 => run[j].do # "post"
      BY <1>1, AsItIs DEF ThreadOK, Waiting
    <3>3. QED
      BY <3>1, <3>2
  <2>3. \A j \in DOMAIN steps : steps[j].do # "post"
    BY DEF Free
  <2>4. QED
    BY <2>1, <2>2, <2>3 DEF Heads
<1>5. QED
  BY <1>1, <1>4 DEF At

LEMMA WentOn ==
  ASSUME NEW extra, Inv(extra), NEW t \in Threads, thread[t].run # <<>>,
         NEW steps, Free(steps, extra), thread'[t].run = steps \o Tail(thread[t].run),
         \A u \in Threads \ {t} : thread'[u] = thread[u]
  PROVE  RunsCalm
<1>1. ~At(t, "post")'
  BY NotPosting
<1>2. ASSUME NEW u \in Threads, At(u, "post")'
      PROVE  At(u, "post") /\ thread'[u].run = thread[u].run
  BY <1>1, <1>2 DEF At
<1>3. QED
  BY <1>2 DEF RunsCalm

LEMMA ThenRun ==
  ASSUME NEW extra, Inv(extra), NEW t \in Threads, NEW steps
  PROVE  Then(t, steps).run = steps \o Tail(thread[t].run)
<1>1. PICK T, r : T = thread[t] /\ r = steps \o Tail(T.run)
  OBVIOUS
<1>2. T \in ThreadShape(extra, Len(orders))
  BY <1>1, AsItIs DEF ThreadOK
<1>3. [T EXCEPT !.run = r].run = r
  BY <1>2 DEF ThreadShape
<1>4. Idle.run = <<>>
  BY DEF Idle
<1>5. Then(t, steps) = IF r = <<>> THEN Idle ELSE [T EXCEPT !.run = r]
  BY <1>1, Zenon DEF Then
<1>6. QED
  BY <1>1, <1>3, <1>4, <1>5

\* The kinds of step that are left: one goroutine goes on, ...
LEMMA GoesOn ==
  ASSUME NEW extra, Inv(extra), LInv, NEW t \in Threads, thread[t].run # <<>>,
         NEW steps, Free(steps, extra), Continue(t, steps), OrdersCalm, UNCHANGED pos
  PROVE  LInv'
<1>1. PICK U : U = Then(t, steps)
  OBVIOUS
<1>2. U.run = steps \o Tail(thread[t].run)
  BY <1>1, ThenRun
<1>3. DOMAIN thread = Threads
  BY DEF Inv, ThreadsInv
<1>4. thread' = [thread EXCEPT ![t] = U]
  BY <1>1 DEF Continue
<1>5. thread'[t].run = steps \o Tail(thread[t].run) /\ \A u \in Threads \ {t} : thread'[u] = thread[u]
  BY <1>2, <1>3, <1>4
<1>6. RunsCalm
  BY <1>5, WentOn
<1>7. QED
  BY <1>6, CalmKept

LEMMA IsDone ==
  ASSUME NEW extra, Inv(extra), LInv, NEW t \in Threads, thread[t].run # <<>>, Done(t),
         OrdersCalm, UNCHANGED pos
  PROVE  LInv'
BY FreeNone, GoesOn DEF Done

\* ... with something else in what it holds, ...
LEMMA HoldsOn ==
  ASSUME NEW extra, Inv(extra), LInv, NEW t \in Threads, thread[t].run # <<>>,
         NEW U, thread' = [thread EXCEPT ![t] = U],
         NEW steps, Free(steps, extra), U.run = steps \o Tail(thread[t].run), OrdersCalm, UNCHANGED pos
  PROVE  LInv'
<1>1. DOMAIN thread = Threads
  BY DEF Inv, ThreadsInv
<1>2. thread'[t].run = steps \o Tail(thread[t].run) /\ \A u \in Threads \ {t} : thread'[u] = thread[u]
  BY <1>1
<1>3. RunsCalm
  BY <1>2, WentOn
<1>4. QED
  BY <1>3, CalmKept

\* ... one begins, ...
LEMMA Begins ==
  ASSUME NEW extra, Inv(extra), LInv, NEW t \in Threads, NEW o, NEW steps, Free(steps, extra),
         thread' = [thread EXCEPT ![t] = Starting(o, steps)], UNCHANGED <<orders, pos>>
  PROVE  LInv'
<1>1. DOMAIN thread = Threads
  BY DEF Inv, ThreadsInv
<1>2. PICK U : U = Starting(o, steps)
  OBVIOUS
<1>3. U.run = steps
  BY <1>2 DEF Starting, Idle
<1>4. thread'[t].run = steps /\ \A u \in Threads \ {t} : thread'[u] = thread[u]
  BY <1>1, <1>2, <1>3
<1>5. steps # <<>> => Head(steps).do # "post"
  <2>1. steps \in Seq(StepShape(extra)) /\ \A i \in DOMAIN steps : steps[i].do # "post"
    BY DEF Free
  <2>2. steps # <<>> => 1 \in DOMAIN steps /\ Head(steps) = steps[1]
    BY <2>1, EmptySeq, LenProperties, HeadTailProperties
  <2>3. QED
    BY <2>1, <2>2
<1>6. ASSUME NEW u \in Threads, At(u, "post")'
      PROVE  At(u, "post") /\ thread'[u].run = thread[u].run
  BY <1>4, <1>5, <1>6 DEF At
<1>7. RunsCalm
  BY <1>6 DEF RunsCalm
<1>8. QED
  BY <1>7, SameOrders, CalmKept

\* ... or none does anything.
LEMMA NoneRuns ==
  ASSUME LInv, \A u \in Threads : thread'[u].run = thread[u].run, UNCHANGED <<orders, pos>>
  PROVE  LInv'
<1>1. RunsCalm
  BY DEF RunsCalm, At
<1>2. QED
  BY <1>1, SameOrders, CalmKept

LEMMA CancelCalm ==
  ASSUME NEW extra, Inv(extra), NEW n \in DOMAIN orders, CancelOrder(n)
  PROVE  OrdersCalm
<1>1. PICK O : O = orders[n]
  OBVIOUS
<1>2. PICK N \in OrderShape(extra) :
        /\ orders' = [orders EXCEPT ![n] = N]
        /\ N.side = O.side /\ N.shares = O.shares /\ N.extra = O.extra
        /\ N.status = "working" => O.status = "working"
        /\ N.status = "filled" <=> O.status = "filled"
  BY <1>1, CancelChanges
<1>3. DOMAIN orders' = DOMAIN orders /\ orders'[n] = N /\ \A i \in DOMAIN orders \ {n} : orders'[i] = orders[i]
  BY <1>2
<1>4. QED
  BY <1>1, <1>2, <1>3 DEF OrdersCalm

-----------------------------------------------------------------------------
(* The actions.                                                            *)

LEMMA ValidatedLimit ==
  ASSUME NEW extra, Inv(extra), LInv, NEW t \in Threads, thread[t].run # <<>>, ~thread[t].killed,
         ~At(t, "post"), NEW order \in StepShape(extra), Validate(t, order), UNCHANGED <<orders, pos>>
  PROVE  LInv'
<1>1. CASE Done(t)
  BY <1>1, IsDone, SameOrders
<1>2. CASE /\ Risk!CheckPosition(pos, order.side, order.lots)
           /\ Continue(t, <<Approved(order)>>)
  BY <1>2, ApprovedKept
<1>3. QED
  BY <1>1, <1>2 DEF Validate

LEMMA PlaceLimitLimit ==
  ASSUME NEW extra, Inv(extra), LInv, NEW t \in Threads, PlaceLimit(t)
  PROVE  LInv'
<1>1. At(t, "place") /\ UNCHANGED <<orders, pos>>
  BY DEF PlaceLimit
<1>2. thread[t].run # <<>> /\ ~thread[t].killed /\ Step(t) \in StepShape(extra) /\ ~At(t, "post")
  BY <1>1, AtHead DEF Quiet, At
<1>3. CASE Validate(t, Step(t))
  BY <1>1, <1>2, <1>3, ValidatedLimit
<1>4. CASE Done(t)
  BY <1>1, <1>2, <1>4, IsDone, SameOrders
<1>5. QED
  BY <1>3, <1>4 DEF PlaceLimit

LEMMA ShutPositionLimit ==
  ASSUME NEW extra, Inv(extra), LInv, NEW t \in Threads, ShutPosition(t)
  PROVE  LInv'
<1>1. At(t, "shut") /\ UNCHANGED <<orders, pos>>
  BY DEF ShutPosition
<1>2. thread[t].run # <<>> /\ (thread[t].killed => kill) /\ thread[t].obj \in Sessions /\ ~At(t, "post")
  BY <1>1, AtHead DEF At
<1>3. CASE Done(t)
  BY <1>1, <1>2, <1>3, IsDone, SameOrders
<1>4. CASE ~kill /\ Validate(t, [Do("post") EXCEPT !.kind = "market", !.lots = Abs(Obj(t).lots),
                                                   !.side = IF Obj(t).lots < 0 THEN 1 ELSE -1])
  <2>1. PICK l : l = Obj(t).lots
    OBVIOUS
  <2>2. l \in Int
    BY <1>2, <2>1 DEF Inv, Shapes, SessionShape, Obj
  <2>3. Abs(l) \in Nat
    BY <2>2 DEF Abs
  <2>4. 0 \in extra
    BY DEF Inv, Shapes
  <2>5. PICK order : order = [Do("post") EXCEPT !.kind = "market", !.lots = Abs(l),
                                                !.side = IF l < 0 THEN 1 ELSE -1]
    OBVIOUS
  <2>6. order \in StepShape(extra)
    BY <2>3, <2>4, <2>5 DEF Do, StepShape, StepNames
  <2>7. Validate(t, order)
    BY <1>4, <2>1, <2>5
  <2>8. QED
    BY <1>1, <1>2, <1>4, <2>6, <2>7, ValidatedLimit
<1>5. QED
  BY <1>3, <1>4 DEF ShutPosition

LEMMA CloseLimit ==
  ASSUME NEW extra, Inv(extra), LInv, NEW t \in Threads, Close(t)
  PROVE  LInv'
<1>1. At(t, "close") /\ UNCHANGED <<orders, pos>>
  BY DEF Close
<1>2. thread[t].run # <<>>
  BY <1>1, AtHead
<1>3. CASE Done(t)
  BY <1>1, <1>2, <1>3, IsDone, SameOrders
<1>4. CASE Continue(t, <<Do("cancel"), Do("shut")>>)
  <2>1. Follows(t, <<Do("cancel"), Do("shut")>>, extra)
    BY FollowsQuietTwo DEF Waiting, Quiet, StepNames
  <2>2. QED
    BY <1>1, <1>2, <1>4, <2>1, FollowsFree, GoesOn, SameOrders
<1>5. QED
  BY <1>3, <1>4 DEF Close

\* The approved order is accepted, or the goroutine goes on without it.
LEMMA PostLimit ==
  ASSUME NEW extra, Inv(extra), LInv, NEW t \in Threads, Post(t)
  PROVE  LInv'
<1>1. At(t, "post") /\ UNCHANGED pos
  BY DEF Post
<1>2. thread[t].run # <<>> /\ DOMAIN thread = Threads
  BY <1>1, AtHead DEF Inv, ThreadsInv
<1>3. PICK o, n, x, new, V, P, q : /\ o = thread[t].obj /\ n = Len(orders) + 1 /\ x = Step(t)
                                   /\ new = Accepted(t, o, n, x) /\ V = Then(t, <<>>)
                                   /\ q = Poll(n) /\ P = Starting(o, <<Do("sync")>>)
  OBVIOUS
<1>4. /\ new.side = Step(t).side /\ new.shares = Step(t).shares /\ new.extra = Step(t).extra
      /\ new.status = "working"
  BY <1>3 DEF Accepted
<1>5. V.run = <<>> \o Tail(thread[t].run)
  BY <1>3, ThenRun
<1>6. P.run # <<>> /\ Head(P.run).do # "post"
  <2>1. P.run = <<Do("sync")>>
    BY <1>3 DEF Starting, Idle
  <2>2. QED
    BY <2>1 DEF Do
<1>7. CASE /\ orders' = Append(orders, new)
           /\ thread' = [thread EXCEPT ![t] = V, ![q] = P]
  <2>1. /\ thread'[t] = V \/ thread'[t] = P
        /\ \A u \in Threads \ {t} : thread'[u] = thread[u] \/ thread'[u] = P
    BY <1>2, <1>7
  <2>2. ASSUME thread'[t] = V
        PROVE  ~At(t, "post")'
    <3>1. thread'[t].run = <<>> \o Tail(thread[t].run)
      BY <1>5, <2>2
    <3>2. QED
      BY <1>2, <3>1, FreeNone, NotPosting
  <2>3. ~At(t, "post")'
    BY <1>6, <2>1, <2>2 DEF At
  <2>4. ASSUME NEW u \in Threads, At(u, "post")'
        PROVE  At(u, "post") /\ thread'[u].run = thread[u].run
    BY <1>6, <2>1, <2>3, <2>4 DEF At
  <2>5. RunsCalm
    BY <2>4 DEF RunsCalm
  <2>6. QED
    BY <1>1, <1>3, <1>4, <1>7, <2>3, <2>5, AcceptedKept
<1>8. CASE /\ orders' = Append(orders, new)
           /\ Done(t)
  <2>1. thread' = [thread EXCEPT ![t] = V]
    BY <1>3, <1>8 DEF Done, Continue
  <2>2. thread'[t].run = <<>> \o Tail(thread[t].run) /\ \A u \in Threads \ {t} : thread'[u] = thread[u]
    BY <1>2, <1>5, <2>1
  <2>3. ~At(t, "post")' /\ RunsCalm
    BY <1>2, <2>2, FreeNone, NotPosting, WentOn
  <2>4. QED
    BY <1>1, <1>3, <1>4, <1>8, <2>3, AcceptedKept
<1>9. CASE Done(t) /\ UNCHANGED orders
  BY <1>1, <1>2, <1>9, IsDone, SameOrders
<1>10. QED
  BY <1>3, <1>7, <1>8, <1>9 DEF Post, Accepted

LEMMA CancelAllLimit ==
  ASSUME NEW extra, Inv(extra), LInv, NEW t \in Threads, CancelAll(t)
  PROVE  LInv'
<1>1. At(t, "cancel") /\ UNCHANGED <<orders, pos>>
  BY DEF CancelAll
<1>2. thread[t].run # <<>> /\ thread[t] \in ThreadShape(extra, Len(orders))
  BY <1>1, AtHead
<1>3. CASE Done(t)
  BY <1>1, <1>2, <1>3, IsDone, SameOrders
<1>4. CASE thread' = [thread EXCEPT ![t].run = <<Do("drop")>> \o Tail(@), ![t].list = Obj(t).work]
  <2>1. PICK steps, U : /\ steps = <<Do("drop")>>
                        /\ U = [[thread[t] EXCEPT !.run = steps \o Tail(thread[t].run)]
                                  EXCEPT !.list = Obj(t).work]
    OBVIOUS
  <2>2. Free(steps, extra)
    BY <2>1, FreeOne DEF StepNames
  <2>3. U.run = steps \o Tail(thread[t].run)
    BY <1>2, <2>1 DEF ThreadShape
  <2>4. thread' = [thread EXCEPT ![t] = U]
    BY <1>4, <2>1
  <2>5. QED
    BY <1>1, <1>2, <2>2, <2>3, <2>4, HoldsOn, SameOrders
<1>5. QED
  BY <1>3, <1>4 DEF CancelAll

LEMMA DropOrderLimit ==
  ASSUME NEW extra, Inv(extra), LInv, NEW t \in Threads, DropOrder(t)
  PROVE  LInv'
<1>1. At(t, "drop") /\ UNCHANGED pos
  BY DEF DropOrder
<1>2. PICK T, m, q, n : T = thread[t] /\ m = Len(orders) /\ q = T.list /\ n = Head(q)
  OBVIOUS
<1>3. /\ T.run # <<>> /\ T \in ThreadShape(extra, m) /\ m \in Nat
      /\ q # <<>> /\ q \in Lists(m)
  <2>1. /\ T.run # <<>> /\ T \in ThreadShape(extra, m) /\ m \in Nat /\ T.run[1].do = "drop"
        /\ ThreadOK(T, extra, m, Live, kill, Owed)
    BY <1>1, <1>2, AtHead
  <2>2. QED
    BY <1>2, <2>1 DEF ThreadOK, ThreadShape
<1>4. n \in DOMAIN orders
  <2>1. n \in 1 .. m
    BY <1>2, <1>3, ListTail
  <2>2. QED
    BY <1>2, <2>1, OrderTyped
<1>5. OrdersCalm
  BY <1>2, <1>4, CancelCalm DEF DropOrder
<1>6. CASE thread' = [thread EXCEPT ![t] = [Then(t, <<>>) EXCEPT !.list = <<>>]]
  <2>1. PICK V, U : V = Then(t, <<>>) /\ U = [V EXCEPT !.list = <<>>]
    OBVIOUS
  <2>2. V \in ThreadShape(extra, m) /\ V.run = <<>> \o Tail(thread[t].run)
    BY <1>2, <1>3, <2>1, ThenShape, ThenRun
  <2>3. U.run = <<>> \o Tail(thread[t].run)
    BY <2>1, <2>2 DEF ThreadShape
  <2>4. thread' = [thread EXCEPT ![t] = U]
    BY <1>6, <2>1
  <2>5. QED
    BY <1>1, <1>2, <1>3, <1>5, <2>3, <2>4, FreeNone, HoldsOn
<1>7. CASE thread' = [thread EXCEPT ![t].list = Tail(@)]
  <2>1. PICK U : U = [T EXCEPT !.list = Tail(q)]
    OBVIOUS
  <2>2. U.run = T.run
    BY <1>3, <2>1 DEF ThreadShape
  <2>3. DOMAIN thread = Threads
    BY DEF Inv, ThreadsInv
  <2>4. thread' = [thread EXCEPT ![t] = U]
    BY <1>2, <1>7, <2>1
  <2>5. \A u \in Threads : thread'[u].run = thread[u].run
    BY <1>2, <2>2, <2>3, <2>4
  <2>6. RunsCalm
    BY <2>5 DEF RunsCalm, At
  <2>7. QED
    BY <1>1, <1>5, <2>6, CalmKept
<1>8. QED
  BY <1>6, <1>7 DEF DropOrder

LEMMA SyncOrdersLimit ==
  ASSUME NEW extra, Inv(extra), LInv, NEW t \in Threads, SyncOrders(t)
  PROVE  LInv'
<1>1. At(t, "sync") /\ UNCHANGED <<orders, pos>>
  BY DEF SyncOrders
<1>2. thread[t].run # <<>> /\ thread[t] \in ThreadShape(extra, Len(orders))
  BY <1>1, AtHead
<1>3. CASE Done(t)
  BY <1>1, <1>2, <1>3, IsDone, SameOrders
<1>4. CASE thread' = [thread EXCEPT ![t].run = <<Do("query")>> \o Tail(@),
                                    ![t].list = Obj(t).work, ![t].keep = <<>>]
  <2>1. PICK steps, Q, U : /\ steps = <<Do("query")>>
                           /\ Q = [[thread[t] EXCEPT !.run = steps \o Tail(thread[t].run)]
                                     EXCEPT !.list = Obj(t).work]
                           /\ U = [Q EXCEPT !.keep = <<>>]
    OBVIOUS
  <2>2. Free(steps, extra)
    BY <2>1, FreeOne DEF StepNames
  <2>3. U.run = steps \o Tail(thread[t].run)
    BY <1>2, <2>1 DEF ThreadShape
  <2>4. thread' = [thread EXCEPT ![t] = U]
    BY <1>4, <2>1
  <2>5. QED
    BY <1>1, <1>2, <2>2, <2>3, <2>4, HoldsOn, SameOrders
<1>5. QED
  BY <1>3, <1>4 DEF SyncOrders

LEMMA GetOrderStateLimit ==
  ASSUME NEW extra, Inv(extra), LInv, NEW t \in Threads, GetOrderState(t)
  PROVE  LInv'
<1>1. At(t, "query") /\ UNCHANGED <<orders, pos>>
  BY DEF GetOrderState
<1>2. PICK T, m : T = thread[t] /\ m = Len(orders)
  OBVIOUS
<1>3. T.run # <<>> /\ T \in ThreadShape(extra, m)
  BY <1>1, <1>2, AtHead
<1>4. CASE thread' = [thread EXCEPT ![t] = [Then(t, <<>>) EXCEPT !.list = <<>>, !.keep = <<>>]]
  <2>1. PICK V, Q, U : V = Then(t, <<>>) /\ Q = [V EXCEPT !.list = <<>>] /\ U = [Q EXCEPT !.keep = <<>>]
    OBVIOUS
  <2>2. V \in ThreadShape(extra, m) /\ V.run = <<>> \o Tail(thread[t].run)
    BY <1>2, <1>3, <2>1, ThenShape, ThenRun
  <2>3. U.run = <<>> \o Tail(thread[t].run)
    BY <2>1, <2>2 DEF ThreadShape
  <2>4. thread' = [thread EXCEPT ![t] = U]
    BY <1>4, <2>1
  <2>5. QED
    BY <1>1, <1>2, <1>3, <2>3, <2>4, FreeNone, HoldsOn, SameOrders
<1>5. ASSUME NEW keep, thread' = [thread EXCEPT ![t] = [T EXCEPT !.list = Tail(@), !.keep = keep]]
      PROVE  LInv'
  <2>1. PICK Q, U : Q = [T EXCEPT !.list = Tail(@)] /\ U = [Q EXCEPT !.keep = keep]
    OBVIOUS
  <2>2. U.run = T.run
    BY <1>3, <2>1 DEF ThreadShape
  <2>3. DOMAIN thread = Threads
    BY DEF Inv, ThreadsInv
  <2>4. thread' = [thread EXCEPT ![t] = U]
    BY <1>5, <2>1
  <2>5. \A u \in Threads : thread'[u].run = thread[u].run
    BY <1>2, <2>2, <2>3, <2>4
  <2>6. QED
    BY <1>1, <2>5, NoneRuns
<1>6. QED
  BY <1>2, <1>4, <1>5 DEF GetOrderState

LEMMA ReadPositionLimit ==
  ASSUME NEW extra, Inv(extra), LInv, NEW t \in Threads, ReadPosition(t)
  PROVE  LInv'
<1>1. At(t, "truth") /\ UNCHANGED <<orders, pos>>
  BY DEF ReadPosition
<1>2. thread[t].run # <<>> /\ thread[t] \in ThreadShape(extra, Len(orders))
  BY <1>1, AtHead
<1>3. CASE Done(t)
  BY <1>1, <1>2, <1>3, IsDone, SameOrders
<1>4. CASE thread' = [thread EXCEPT ![t].run = <<Do("adopt")>> \o Tail(@), ![t].seen = pos]
  <2>1. PICK steps, U : /\ steps = <<Do("adopt")>>
                        /\ U = [[thread[t] EXCEPT !.run = steps \o Tail(thread[t].run)]
                                  EXCEPT !.seen = pos]
    OBVIOUS
  <2>2. Free(steps, extra)
    BY <2>1, FreeOne DEF StepNames
  <2>3. U.run = steps \o Tail(thread[t].run)
    BY <1>2, <2>1 DEF ThreadShape
  <2>4. thread' = [thread EXCEPT ![t] = U]
    BY <1>4, <2>1
  <2>5. QED
    BY <1>1, <1>2, <2>2, <2>3, <2>4, HoldsOn, SameOrders
<1>5. QED
  BY <1>3, <1>4 DEF ReadPosition

LEMMA AdoptPositionLimit ==
  ASSUME NEW extra, Inv(extra), LInv, NEW t \in Threads, AdoptPosition(t)
  PROVE  LInv'
<1>1. At(t, "adopt") /\ UNCHANGED <<orders, pos>>
  BY DEF AdoptPosition
<1>2. thread[t].run # <<>>
  BY <1>1, AtHead
<1>3. PICK V, U : V = Then(t, <<>>) /\ U = [V EXCEPT !.seen = 0]
  OBVIOUS
<1>4. V \in ThreadShape(extra, Len(orders)) /\ V.run = <<>> \o Tail(thread[t].run)
  BY <1>2, <1>3, ThenShape, ThenRun
<1>5. U.run = <<>> \o Tail(thread[t].run)
  BY <1>3, <1>4 DEF ThreadShape
<1>6. thread' = [thread EXCEPT ![t] = U]
  BY <1>3 DEF AdoptPosition
<1>7. QED
  BY <1>1, <1>2, <1>5, <1>6, FreeNone, HoldsOn, SameOrders

LEMMA GatesLimit ==
  ASSUME NEW extra, Inv(extra), LInv, NEW t \in Threads, Gates(t)
  PROVE  LInv'
<1>1. At(t, "gates") /\ UNCHANGED <<orders, pos>>
  BY DEF Gates
<1>2. thread[t].run # <<>> /\ (thread[t].killed => kill)
  BY <1>1, AtHead
<1>3. CASE Continue(t, <<Do("cancel")>>)
  <2>1. Free(<<Do("cancel")>>, extra)
    BY FreeOne DEF StepNames
  <2>2. QED
    BY <1>1, <1>2, <1>3, <2>1, GoesOn, SameOrders
<1>4. CASE Done(t)
  BY <1>1, <1>2, <1>4, IsDone, SameOrders
<1>5. ASSUME ~TradingStops(Obj(t)), NEW a \in {<<>>, <<Do("cancel")>>, <<Do("close")>>},
             Continue(t, a \o <<Do("sync"), Do("manage")>>)
      PROVE  LInv'
  <2>1. PICK c : c = a \o <<Do("sync"), Do("manage")>>
    OBVIOUS
  <2>2. ~thread[t].killed
    BY <1>2, <1>5 DEF TradingStops
  <2>3. Follows(t, c, extra) /\ Continue(t, c)
    BY <1>5, <2>1, <2>2, GatesFollow
  <2>4. QED
    BY <1>1, <1>2, <2>3, FollowsFree, GoesOn, SameOrders
<1>6. QED
  BY <1>3, <1>4, <1>5 DEF Gates

LEMMA EnterLimit ==
  ASSUME NEW extra, Inv(extra), LInv, NEW t \in Threads, Enter(t)
  PROVE  LInv'
<1>1. At(t, "enter") /\ UNCHANGED <<orders, pos>>
  BY DEF Enter
<1>2. thread[t].run # <<>>
  BY <1>1, AtHead
<1>3. PICK S : S = Obj(t)
  OBVIOUS
<1>4. PICK steps \in Openings(S) : Continue(t, steps)
  BY <1>3 DEF Enter
<1>5. Free(steps, extra)
  BY OpeningsFollow, FollowsFree
<1>6. QED
  BY <1>1, <1>2, <1>4, <1>5, GoesOn, SameOrders

LEMMA ManageLimit ==
  ASSUME NEW extra, Inv(extra), LInv, NEW t \in Threads, Manage(t)
  PROVE  LInv'
<1>1. At(t, "manage") /\ UNCHANGED pos
  BY DEF Manage
<1>2. PICK n, o, S : n = Len(orders) /\ o = thread[t].obj /\ S = session[o]
  OBVIOUS
<1>3. thread[t].run # <<>> /\ o \in Sessions /\ S \in SessionShape(n) /\ 0 \in extra
  BY <1>1, <1>2, AtHead DEF Inv, Shapes
<1>4. ASSUME NEW steps \in Openings(S), Continue(t, steps), UNCHANGED orders
      PROVE  LInv'
  <2>1. Free(steps, extra)
    BY OpeningsFollow, FollowsFree
  <2>2. QED
    BY <1>1, <1>3, <1>4, <2>1, GoesOn, SameOrders
<1>5. \A x \in {"close", "enter"} : Do(x) \in StepShape(extra) /\ Do(x).do = x
  BY <1>3, DoShape DEF StepNames
<1>6. CASE Continue(t, <<Do("close"), Do("enter")>>) /\ UNCHANGED orders
  <2>1. PICK y, z : y = Do("close") /\ z = Do("enter")
    OBVIOUS
  <2>2. Free(<<y, z>>, extra)
    BY <1>5, <2>1, FreeTwo
  <2>3. Continue(t, <<y, z>>)
    BY <1>6, <2>1
  <2>4. QED
    BY <1>1, <1>3, <1>6, <2>2, <2>3, GoesOn, SameOrders
<1>7. CASE Done(t) /\ UNCHANGED orders
  BY <1>1, <1>3, <1>7, IsDone, SameOrders
<1>8. ASSUME NEW side \in left.sides, Continue(t, <<Place(side), Do("enter")>>),
             \/ UNCHANGED orders
             \/ /\ SameSide(S, side) # {}
                /\ CancelOrder(S.work[First(SameSide(S, side))])
      PROVE  LInv'
  <2>1. PICK y, z : y = Place(side) /\ z = Do("enter")
    OBVIOUS
  <2>2. y \in StepShape(extra) /\ y.do = "place"
    <3>1. side \in {-1, 1}
      BY DEF Inv, Shapes, Budget
    <3>2. QED
      BY <1>3, <2>1, <3>1, PlaceShape
  <2>3. Free(<<y, z>>, extra)
    BY <1>5, <2>1, <2>2, FreeTwo
  <2>4. Continue(t, <<y, z>>)
    BY <1>8, <2>1
  <2>5. CASE SameSide(S, side) # {} /\ CancelOrder(S.work[First(SameSide(S, side))])
    <3>1. PICK i, work, k : i = First(SameSide(S, side)) /\ work = S.work /\ k = work[i]
      OBVIOUS
    <3>2. work \in Lists(n) /\ n \in Nat
      BY <1>2, <1>3, <3>1, OrderTyped DEF SessionShape
    <3>3. DOMAIN work \subseteq Nat /\ \A j \in DOMAIN work : work[j] \in 1 .. n
      BY <3>2, LenProperties DEF Lists
    <3>4. SameSide(S, side) \subseteq DOMAIN work
      BY <3>1 DEF SameSide
    <3>5. i \in SameSide(S, side)
      BY <2>5, <3>1, <3>3, <3>4, FirstIs
    <3>6. k \in DOMAIN orders
      BY <1>2, <3>1, <3>3, <3>4, <3>5, OrderTyped
    <3>7. OrdersCalm
      BY <2>5, <3>1, <3>6, CancelCalm
    <3>8. QED
      BY <1>1, <1>3, <2>3, <2>4, <3>7, GoesOn
  <2>6. CASE UNCHANGED orders
    BY <1>1, <1>3, <2>3, <2>4, <2>6, GoesOn, SameOrders
  <2>7. QED
    BY <1>8, <2>5, <2>6
<1>9. QED
  BY <1>2, <1>4, <1>6, <1>7, <1>8 DEF Manage, Obj

LEMMA SaveLimit ==
  ASSUME NEW extra, Inv(extra), LInv, NEW t \in Threads, Save(t)
  PROVE  LInv'
<1>1. At(t, "save") /\ UNCHANGED <<orders, pos>>
  BY DEF Save
<1>2. thread[t].run # <<>> /\ thread[t] \in ThreadShape(extra, Len(orders))
  BY <1>1, AtHead
<1>3. CASE Done(t)
  BY <1>1, <1>2, <1>3, IsDone, SameOrders
<1>4. ASSUME NEW held, thread' = [thread EXCEPT ![t].run = <<Do("write")>> \o Tail(@), ![t].holds = held]
      PROVE  LInv'
  <2>1. PICK steps, U : /\ steps = <<Do("write")>>
                        /\ U = [[thread[t] EXCEPT !.run = steps \o Tail(thread[t].run)]
                                  EXCEPT !.holds = held]
    OBVIOUS
  <2>2. Free(steps, extra)
    BY <2>1, FreeOne DEF StepNames
  <2>3. U.run = steps \o Tail(thread[t].run)
    BY <1>2, <2>1 DEF ThreadShape
  <2>4. thread' = [thread EXCEPT ![t] = U]
    BY <1>4, <2>1
  <2>5. QED
    BY <1>1, <1>2, <2>2, <2>3, <2>4, HoldsOn, SameOrders
<1>5. QED
  BY <1>3, <1>4 DEF Save

LEMMA WriteSnapshotLimit ==
  ASSUME NEW extra, Inv(extra), LInv, NEW t \in Threads, WriteSnapshot(t)
  PROVE  LInv'
<1>1. At(t, "write") /\ UNCHANGED <<orders, pos>>
  BY DEF WriteSnapshot
<1>2. thread[t].run # <<>>
  BY <1>1, AtHead
<1>3. PICK V, U : V = Then(t, <<>>) /\ U = [V EXCEPT !.holds = None]
  OBVIOUS
<1>4. V \in ThreadShape(extra, Len(orders)) /\ V.run = <<>> \o Tail(thread[t].run)
  BY <1>2, <1>3, ThenShape, ThenRun
<1>5. U.run = <<>> \o Tail(thread[t].run)
  BY <1>3, <1>4 DEF ThreadShape
<1>6. thread' = [thread EXCEPT ![t] = U]
  BY <1>3 DEF WriteSnapshot
<1>7. QED
  BY <1>1, <1>2, <1>5, <1>6, FreeNone, HoldsOn, SameOrders

\* What start-trading leaves is a snapshot to write, and nothing after it.
LEMMA OpenedLimit ==
  ASSUME NEW extra, Inv(extra), LInv, NEW t \in Threads, Opened(t)
  PROVE  LInv'
<1>1. At(t, "opened") /\ UNCHANGED <<orders, pos>>
  BY DEF Opened
<1>2. thread[t].run # <<>> /\ thread[t] \in ThreadShape(extra, Len(orders)) /\ DOMAIN thread = Threads
  BY <1>1, AtHead DEF Inv, ThreadsInv
<1>3. CASE Done(t)
  BY <1>1, <1>2, <1>3, IsDone, SameOrders
<1>4. ASSUME NEW held, thread' = [thread EXCEPT ![t].run = <<Do("write")>>, ![t].holds = held]
      PROVE  LInv'
  <2>1. PICK U : U = [[thread[t] EXCEPT !.run = <<Do("write")>>] EXCEPT !.holds = held]
    OBVIOUS
  <2>2. U.run = <<Do("write")>>
    BY <1>2, <2>1 DEF ThreadShape
  <2>3. Head(U.run).do # "post"
    BY <2>2 DEF Do
  <2>4. thread' = [thread EXCEPT ![t] = U]
    BY <1>4, <2>1
  <2>5. thread'[t] = U /\ \A u \in Threads \ {t} : thread'[u] = thread[u]
    BY <1>2, <2>4
  <2>6. RunsCalm
    BY <2>3, <2>5 DEF RunsCalm, At
  <2>7. QED
    BY <1>1, <2>6, CalmKept, SameOrders
<1>5. QED
  BY <1>3, <1>4 DEF Opened

LEMMA StoppedLimit ==
  ASSUME NEW extra, Inv(extra), LInv, NEW t \in Threads, Stopped(t)
  PROVE  LInv'
<1>1. At(t, "stopped") /\ UNCHANGED <<orders, pos>> /\ Done(t)
  BY DEF Stopped
<1>2. thread[t].run # <<>>
  BY <1>1, AtHead
<1>3. QED
  BY <1>1, <1>2, IsDone, SameOrders

LEMMA TickLimit ==
  ASSUME NEW extra, Inv(extra), LInv, NEW s \in Sessions, Tick(s)
  PROVE  LInv'
<1>1. PICK t : t = Loop(s)
  OBVIOUS
<1>2. t \in Threads /\ UNCHANGED <<orders, pos>>
  BY <1>1 DEF Threads, Tick
<1>3. PICK steps : /\ Runs(steps, extra, kill)
                   /\ thread' = thread \/ thread' = [thread EXCEPT ![t] = Starting(s, steps)]
  BY <1>1, TickStarts
<1>4. CASE thread' = thread
  BY <1>2, <1>4, NoneRuns
<1>5. CASE thread' = [thread EXCEPT ![t] = Starting(s, steps)]
  BY <1>2, <1>3, <1>5, RunsFree, Begins
<1>6. QED
  BY <1>3, <1>4, <1>5

LEMMA StartTradingLimit ==
  ASSUME NEW extra, Inv(extra), LInv, StartTrading
  PROVE  LInv'
<1>1. PICK c, t : c = current /\ t = Admin
  OBVIOUS
<1>2. PICK steps : Runs(steps, extra, kill) /\ thread' = [thread EXCEPT ![t] = Starting(c, steps)]
  BY <1>1, TradingStarts
<1>3. t \in Threads /\ UNCHANGED <<orders, pos>>
  BY <1>1 DEF Threads, StartTrading
<1>4. QED
  BY <1>2, <1>3, RunsFree, Begins

LEMMA StopSessionLimit ==
  ASSUME NEW extra, Inv(extra), LInv, StopSession
  PROVE  LInv'
<1>1. PICK c, t : c = current /\ t = Admin
  OBVIOUS
<1>2. PICK steps : Runs(steps, extra, kill) /\ thread' = [thread EXCEPT ![t] = Starting(c, steps)]
  BY <1>1, StopStarts
<1>3. t \in Threads /\ UNCHANGED <<orders, pos>>
  BY <1>1 DEF Threads, StopSession
<1>4. QED
  BY <1>2, <1>3, RunsFree, Begins

LEMMA FlattenLimit ==
  ASSUME NEW extra, Inv(extra), LInv, Flatten
  PROVE  LInv'
<1>1. PICK c, t : c = current /\ t = Flattening
  OBVIOUS
<1>2. PICK steps : Runs(steps, extra, kill) /\ thread' = [thread EXCEPT ![t] = Starting(c, steps)]
  BY <1>1, FlattenStarts
<1>3. t \in Threads /\ UNCHANGED <<orders, pos>>
  BY <1>1 DEF Threads, Flatten
<1>4. QED
  BY <1>2, <1>3, RunsFree, Begins

LEMMA SetKillSwitchLimit ==
  ASSUME NEW extra, Inv(extra), LInv, SetKillSwitch
  PROVE  LInv'
<1>1. /\ thread' = IF kill THEN [t \in Threads |-> [thread[t] EXCEPT !.killed = FALSE]] ELSE thread
      /\ UNCHANGED <<orders, pos>>
  BY DEF SetKillSwitch
<1>2. ASSUME NEW u \in Threads
      PROVE  thread'[u].run = thread[u].run
  <2>1. PICK T, U : T = thread[u] /\ U = [T EXCEPT !.killed = FALSE]
    OBVIOUS
  <2>2. T \in ThreadShape(extra, Len(orders))
    BY <2>1, AsItIs DEF ThreadOK
  <2>3. U.run = T.run
    BY <2>1, <2>2 DEF ThreadShape
  <2>4. thread'[u] = U \/ thread'[u] = T
    BY <1>1, <2>1
  <2>5. QED
    BY <2>1, <2>3, <2>4
<1>3. QED
  BY <1>1, <1>2, NoneRuns

\* With the goroutines go the orders that were about to be posted.
LEMMA CrashLimit ==
  ASSUME LInv, Crash
  PROVE  LInv'
<1>1. thread' = [t \in Threads |-> Idle] /\ UNCHANGED <<orders, pos>>
  BY DEF Crash
<1>2. RunsCalm
  BY <1>1 DEF RunsCalm, At, Idle
<1>3. QED
  BY <1>1, <1>2, SameOrders, CalmKept

LEMMA InitLInv ==
  Init => LInv
<1>1. SUFFICES ASSUME Init
               PROVE  LInv
  OBVIOUS
<1>2. DOMAIN orders = {} /\ pos = 0 /\ \A t \in Threads : ~At(t, "post")
  BY <1>1 DEF Init, At, Idle
<1>3. ASSUME NEW side \in {1, -1},
             NEW F \in SUBSET WorkingOn(side), NEW G \in SUBSET PostingOn(side)
      PROVE  \E a \in Extras(side, F, G) :
               side * pos + Total(OrderShares, F) + Total(PostShares, G) <= MaxLots + a
  <2>1. F = {} /\ G = {}
    BY <1>2 DEF WorkingOn, PostingOn
  <2>2. Total(OrderShares, F) = 0 /\ Total(PostShares, G) = 0
    BY <2>1, TotalNone
  <2>3. 0 \in Extras(side, F, G) /\ MaxLots \in Nat /\ side * 0 = 0
    BY AiTraderAssumption DEF Extras, Risk!RiskAssumption
  <2>4. QED
    BY <1>2, <2>2, <2>3
<1>4. ExtraNat
  BY <1>2 DEF ExtraNat
<1>5. QED
  BY <1>3, <1>4 DEF LInv, Covered

LEMMA NextLInv ==
  IInv /\ LInv /\ [Next]_vars => LInv'
<1>1. SUFFICES ASSUME NEW extra, Inv(extra), LInv, [Next]_vars
               PROVE  LInv'
  BY DEF IInv
<1>2. ASSUME NEW t \in Threads, ThreadStep(t)
      PROVE  LInv'
  BY <1>1, <1>2, PlaceLimitLimit, CloseLimit, ShutPositionLimit, PostLimit, CancelAllLimit,
     DropOrderLimit, SyncOrdersLimit, GetOrderStateLimit, ReadPositionLimit, AdoptPositionLimit,
     GatesLimit, ManageLimit, EnterLimit, SaveLimit, WriteSnapshotLimit, OpenedLimit, StoppedLimit
     DEF ThreadStep
<1>3. ASSUME UNCHANGED <<thread, orders, pos>>
      PROVE  LInv'
  BY <1>1, <1>3, NoneRuns
<1>4. ASSUME NEW s \in Sessions, Tick(s) \/ Finish(s) \/ SessionTimeout(s)
      PROVE  LInv'
  BY <1>1, <1>3, <1>4, TickLimit DEF Finish, SessionTimeout
<1>5. CASE Request
  <2>1. CASE StartSession \/ ResumeSession
    BY <1>3, <2>1 DEF StartSession, ResumeSession
  <2>2. CASE StartTrading \/ StopSession \/ Flatten \/ SetKillSwitch
    BY <1>1, <2>2, StartTradingLimit, StopSessionLimit, FlattenLimit, SetKillSwitchLimit
  <2>3. QED
    BY <1>5, <2>1, <2>2 DEF Request
<1>6. ASSUME NEW n \in 1 .. MaxOrders, Fill(n)
      PROVE  LInv'
  BY <1>1, <1>6, FilledKept
<1>7. CASE CoolDown
  BY <1>3, <1>7 DEF CoolDown
<1>8. CASE Crash
  BY <1>1, <1>8, CrashLimit
<1>9. CASE UNCHANGED vars
  BY <1>3, <1>9 DEF vars
<1>10. QED
  BY <1>1, <1>2, <1>4, <1>5, <1>6, <1>7, <1>8, <1>9 DEF Next

\* The position on either side, with any of the orders in flight, exceeds the limit of
\* the risk service by no more than was in flight when one of them, or of the orders
\* that have filled, was approved, and the shares that one has beyond its lots.
THEOREM LimitInvariant == Spec => [](IInv /\ LInv)
<1>1. Init => IInv /\ LInv
  BY InitIInv, InitLInv
<1>2. (IInv /\ LInv) /\ [Next]_vars => (IInv /\ LInv)'
  BY NextIInv, NextLInv
<1>3. QED
  BY <1>1, <1>2, PTL DEF Spec

\* The position stays within max_position_lots of the risk service, on either side and
\* whatever the orders' sizes, but for what was in flight when an order that has filled
\* was approved, and the shares of that order beyond its lots: CheckPosition looks at
\* the position alone, and takes lots for shares.
THEOREM LimitKept == Spec => []LimitKeptButForExtra
<1>1. IInv /\ LInv => LimitKeptButForExtra
  <2>1. SUFFICES ASSUME NEW extra, Inv(extra), LInv, NEW side \in {1, -1}
                 PROVE  side * pos <= MaxLots + Max({0} \cup {orders[n].extra :
                          n \in {m \in DOMAIN orders : orders[m].status = "filled"
                                                       /\ orders[m].side = side}})
    BY DEF IInv, LimitKeptButForExtra
  <2>2. PICK X : X = {0} \cup {orders[n].extra : n \in FilledOn(side)}
    OBVIOUS
  <2>3. X = {0} \cup {orders[n].extra : n \in {m \in DOMAIN orders : orders[m].status = "filled"
                                                                    /\ orders[m].side = side}}
    BY <2>2 DEF FilledOn
  <2>4. X \subseteq Nat /\ X # {}
    BY <2>1, <2>2 DEF LInv, ExtraNat, FilledOn
  <2>5. IsFiniteSet(X)
    <3>1. FilledOn(side) \subseteq 1 .. Len(orders) /\ 1 \in Int /\ Len(orders) \in Int
      BY <2>1, OrderTyped DEF FilledOn
    <3>2. IsFiniteSet(FilledOn(side))
      BY <3>1, FS_Interval, FS_Subset
    <3>3. PICK P, f, Y : /\ P = FilledOn(side) /\ f = [n \in P |-> orders[n].extra]
                         /\ Y = {orders[n].extra : n \in P}
      OBVIOUS
    <3>4. f \in Surjection(P, Y)
      BY <3>3 DEF Surjection
    <3>5. IsFiniteSet(Y)
      BY <3>2, <3>3, <3>4, FS_Surjection
    <3>6. X = Y \cup {0}
      BY <2>2, <3>3
    <3>7. QED
      BY <3>5, <3>6, FS_AddElement
  <2>6. PICK a \in Extras(side, {}, {}) :
          side * pos + Total(OrderShares, {}) + Total(PostShares, {}) <= MaxLots + a
    BY <2>1 DEF LInv, Covered
  <2>7. Total(OrderShares, {}) = 0 /\ Total(PostShares, {}) = 0
    BY TotalNone
  <2>8. a \in X
    BY <2>2, <2>6 DEF Extras
  <2>9. Max(X) \in X /\ \A y \in X : Max(X) >= y
    <3>1. \E x \in X : \A y \in X : x >= y
      BY <2>4, <2>5, LargestExists
    <3>2. Max(X) = CHOOSE x \in X : \A y \in X : x >= y
      BY DEF Max
    <3>3. QED
      BY <3>1, <3>2
  <2>10. PICK m, p : m = Max(X) /\ p = side * pos
    OBVIOUS
  <2>11. a \in Nat /\ m \in Nat /\ m >= a /\ MaxLots \in Nat
    BY <2>4, <2>8, <2>9, <2>10, AiTraderAssumption DEF Risk!RiskAssumption
  <2>12. p \in Int /\ p + 0 + 0 <= MaxLots + a
    <3>1. pos \in Int
      BY <2>1 DEF Inv, Shapes
    <3>2. p \in Int
      BY <2>10, <3>1
    <3>3. QED
      BY <2>6, <2>7, <2>10, <3>2
  <2>13. p <= MaxLots + m
    BY <2>11, <2>12
  <2>14. QED
    BY <2>3, <2>10, <2>13
<1>2. QED
  BY <1>1, LimitInvariant, PTL

=============================================================================
