--------------------------- MODULE AiTrader_proofs ---------------------------
(***************************************************************************)
(* TypeOK, KilledStaysQuiet, WorkingOrdersKept and LoopsAreListed for any  *)
(* finite set of budgets: any number of sessions, orders, failures and     *)
(* goroutines under way, and any limits of the risk service.               *)
(***************************************************************************)
EXTENDS AiTrader, SequenceTheorems, FiniteSetTheorems, WellFoundedInduction, TLAPS

-----------------------------------------------------------------------------
(* The inductive invariant.  n is the number of orders the broker accepted, *)
(* and extra the set of the values of that history, which is a sum.        *)

StepNames == {"place", "post", "close", "shut", "cancel", "drop", "sync", "query", "truth",
              "adopt", "gates", "manage", "enter", "save", "write", "opened", "stopped"}

\* A list of orders names each of them once.
Lists(n) == {q \in Seq(1 .. n) : IsInjective(q)}

SessionShape(n) ==
  [id : Sessions \cup {None}, status : {"running", "stopped"},
   phase : {"preparing", "ready", "trading"},
   loop : {"none", "on", "off"}, cancelled : BOOLEAN, paused : BOOLEAN,
   halted : BOOLEAN, lots : Int, stops : BOOLEAN, work : Lists(n), over : BOOLEAN]

Snapshots(n) ==
  [phase : {"preparing", "ready", "trading"}, halted : BOOLEAN, lots : Int,
   stops : BOOLEAN, work : Lists(n)]

StepShape(extra) ==
  [do : StepNames, kind : {"limit", "market"}, side : {-1, 0, 1}, lots : Nat, shares : Nat,
   extra : extra]

ThreadShape(extra, n) ==
  [run : Seq(StepShape(extra)), obj : Sessions \cup {None}, list : Lists(n), keep : Lists(n),
   seen : Int, killed : BOOLEAN, holds : Snapshots(n) \cup {None}]

OrderShape(extra) ==
  [side : {-1, 0, 1}, lots : Nat, shares : Nat, kind : {"limit", "market"}, by : Sessions,
   status : {"working", "filled", "cancelled"}, asked : BOOLEAN, extra : extra,
   raced : BOOLEAN, late : BOOLEAN]

Shapes(extra) ==
  /\ 0 \in extra
  /\ session \in [Sessions -> SessionShape(Len(orders))]
  /\ current \in Sessions \cup {None}
  /\ snap \in [Sessions -> Snapshots(Len(orders)) \cup {None}]
  /\ kill \in BOOLEAN /\ breaker \in Risk!Breaker /\ pos \in Int
  /\ orders \in Seq(OrderShape(extra))
  /\ left \in Budget /\ Len(orders) + left.orders <= MaxOrders

\* The sessions that have not gone with a crash, and the orders an object may not lose.
Live == {o \in Sessions : session[o].id # None}
Owed == [o \in Sessions |-> {n \in DOMAIN orders : /\ Working(n) /\ orders[n].kind = "limit"
                                                   /\ ~orders[n].asked /\ ~orders[n].raced
                                                   /\ orders[n].by = o}]

\* Steps that may wait for the one before them, the others taking the place of the head
\* at once; and those that a goroutine does not come to while the kill switch is on.
Waiting == StepNames \ {"drop", "query", "write", "post"}
Quiet == StepNames \ {"place", "post", "manage", "enter"}

\* What a goroutine holds: while it rewrites the list of an object, each order the
\* object may not lose is in what it has read and not yet thrown away.
ThreadOK(T, extra, n, live, on, owed) ==
  /\ T \in ThreadShape(extra, n)
  /\ T.run # <<>> => T.obj \in live
  /\ T.killed => on
  /\ \A i \in DOMAIN T.run : /\ i > 1 => T.run[i].do \in Waiting
                             /\ T.killed => T.run[i].do \in Quiet
  /\ (T.run # <<>> /\ T.run[1].do = "drop") =>
       T.list # <<>> /\ owed[T.obj] \subseteq Range(T.list)
  /\ (T.run # <<>> /\ T.run[1].do = "query") =>
       /\ T.list # <<>> /\ Range(T.list) \cap Range(T.keep) = {}
       /\ owed[T.obj] \subseteq Range(T.list) \cup Range(T.keep)
  /\ (T.run # <<>> /\ T.run[1].do = "write") => T.holds \in Snapshots(n)

ThreadsInv(extra) ==
  /\ DOMAIN thread = Threads
  /\ \A t \in Threads : ThreadOK(thread[t], extra, Len(orders), Live, kill, Owed)

\* Sessions are numbered in the order in which they begin, and resumed under the ID of
\* an earlier one; a session that shares it with a loop not yet gone is marked.
SessionInv(s) ==
  /\ session[s].loop = "none" => session[s].id = None
  /\ session[s].loop # "none" => \A p \in Sessions : p < s => session[p].loop # "none"
  /\ session[s].loop = "on" => session[s].id # None
  /\ session[s].id # None => session[s].id <= s
  /\ \A q \in Sessions : (q > s /\ session[s].loop = "on" /\ session[q].id = session[s].id)
                           => session[q].over
  /\ session[s].loop = "on" /\ ~session[s].cancelled
       => session[s].over \/ (current = s /\ session[s].status = "running")

SessionsInv ==
  /\ \A s \in Sessions : SessionInv(s)
  /\ current # None => /\ current \in Live
                       /\ \A p \in Sessions : session[p].loop # "none" => p <= current
  /\ \A s \in Sessions : snap[s] # None => session[s].loop # "none"

OrdersInv ==
  /\ \A n \in DOMAIN orders : ~orders[n].late /\ session[orders[n].by].loop # "none"
  /\ \A o \in Live : Owed[o] \subseteq Range(session[o].work)

Inv(extra) == Shapes(extra) /\ ThreadsInv(extra) /\ SessionsInv /\ OrdersInv

IInv == \E extra : Inv(extra)

-----------------------------------------------------------------------------
(* The bounds.                                                             *)

\* A finite set of naturals has a largest element: otherwise one of the smallest sets
\* that have none would have it, with or without the element taken away.
LEMMA LargestExists ==
  ASSUME NEW S \in SUBSET Nat, IsFiniteSet(S), S # {}
  PROVE  \E x \in S : \A y \in S : x >= y
<1> DEFINE Bounded(U) == \E x \in U : \A y \in U : x >= y
           Bad == {k \in Nat : \E U \in SUBSET Nat : /\ IsFiniteSet(U) /\ U # {}
                                                     /\ Cardinality(U) = k /\ ~Bounded(U)}
<1>1. SUFFICES ASSUME ~Bounded(S)
               PROVE  FALSE
  OBVIOUS
<1>2. Cardinality(S) \in Bad
  BY <1>1, FS_CardinalityType
<1>3. PICK k \in Bad : \A j \in Bad : ~(<<j, k>> \in OpToRel(<, Nat))
  <2>1. Bad \subseteq Nat /\ Bad # {}
    BY <1>2
  <2> HIDE DEF Bad
  <2>2. QED
    BY <2>1, NatLessThanWellFounded, WFMin
<1>4. PICK U \in SUBSET Nat : /\ IsFiniteSet(U) /\ U # {} /\ Cardinality(U) = k
                              /\ ~Bounded(U)
  BY <1>3
<1>5. PICK u \in U : TRUE
  BY <1>4
<1> DEFINE V == U \ {u}
<1>6. IsFiniteSet(V) /\ Cardinality(V) = k - 1 /\ V \in SUBSET Nat
  BY <1>4, <1>5, FS_RemoveElement
<1>7. k \in Nat /\ Cardinality(V) \in Nat
  BY <1>3, <1>6, FS_CardinalityType
<1>8. Cardinality(V) \notin Bad
  <2>1. ASSUME Cardinality(V) \in Bad
        PROVE  FALSE
    <3>1. <<Cardinality(V), k>> \in OpToRel(<, Nat)
      BY <1>6, <1>7 DEF OpToRel
    <3>2. QED
      BY <1>3, <2>1, <3>1
  <2>2. QED
    BY <2>1
<1>9. V = {} \/ Bounded(V)
  BY <1>6, <1>7, <1>8
<1>10. CASE V = {}
  <2>1. U = {u} /\ u \in Nat
    BY <1>4, <1>5, <1>10
  <2>2. Bounded(U)
    BY <2>1
  <2>3. QED
    BY <1>4, <2>2
<1>11. CASE Bounded(V)
  <2>1. PICK v \in V : \A y \in V : v >= y
    BY <1>11
  <2>2. u \in Nat /\ v \in Nat /\ U = V \cup {u}
    BY <1>4, <1>5, <2>1
  <2>3. CASE v >= u
    <3>1. \A y \in U : v >= y
      BY <2>1, <2>2, <2>3
    <3>2. QED
      BY <1>4, <2>1, <3>1
  <2>4. CASE ~(v >= u)
    <3>1. \A y \in V : u >= y
      <4>1. ASSUME NEW y \in V
            PROVE  u >= y
        <5>1. y \in Nat /\ v >= y
          BY <1>6, <2>1, <4>1
        <5>2. QED
          BY <2>2, <2>4, <5>1
      <4>2. QED
        BY <4>1
    <3>2. \A y \in U : u >= y
      BY <2>2, <3>1
    <3>3. QED
      BY <1>4, <1>5, <3>2
  <2>5. QED
    BY <2>3, <2>4
<1>12. QED
  BY <1>9, <1>10, <1>11

\* What budgets have at most.
LEMMA MostOf ==
  ASSUME NEW f \in [Budgets -> Nat], NEW S, S = {f[b] : b \in Budgets}
  PROVE  Max(S) \in Nat /\ \A b \in Budgets : f[b] <= Max(S)
<1>1. Budgets # {} /\ IsFiniteSet(Budgets)
  BY AiTraderAssumption
<1>2. IsFiniteSet(S) /\ S # {} /\ S \in SUBSET Nat
  <2>1. f \in Surjection(Budgets, S)
    BY DEF Surjection
  <2>2. IsFiniteSet(S)
    BY <1>1, <2>1, FS_Surjection
  <2>3. QED
    BY <1>1, <2>2
<1>3. \E x \in S : \A y \in S : x >= y
  BY <1>2, LargestExists
<1>4. Max(S) = CHOOSE x \in S : \A y \in S : x >= y
  BY DEF Max
<1>5. Max(S) \in S /\ \A y \in S : Max(S) >= y
  BY <1>3, <1>4
<1>6. PICK m : m = Max(S)
  OBVIOUS
<1>7. m \in Nat /\ \A b \in Budgets : f[b] \in S /\ f[b] \in Nat /\ m >= f[b]
  BY <1>2, <1>5, <1>6
<1>8. QED
  BY <1>6, <1>7

\* MaxOrders is a number, and no budget has more.
LEMMA Bounds ==
  MaxOrders \in Nat /\ \A b \in Budgets : b.orders <= MaxOrders
<1> DEFINE f == [b \in Budgets |-> b.orders]
<1>1. f \in [Budgets -> Nat] /\ \A b \in Budgets : f[b] = b.orders
  BY AiTraderAssumption DEF Budget
<1>2. {f[b] : b \in Budgets} = {b.orders : b \in Budgets}
  BY <1>1
<1> HIDE DEF f
<1>3. PICK S : S = {f[b] : b \in Budgets}
  OBVIOUS
<1>4. Max(S) \in Nat /\ \A b \in Budgets : f[b] <= Max(S)
  BY <1>1, <1>3, MostOf
<1>5. MaxOrders = Max(S)
  BY <1>2, <1>3 DEF MaxOrders
<1>6. QED
  BY <1>1, <1>4, <1>5

\* So is MaxSessions.
LEMMA SessionBounds ==
  MaxSessions \in Nat /\ Sessions \subseteq Nat /\ None \notin Sessions
<1> DEFINE f == [b \in Budgets |-> b.starts + b.resumes]
<1>1. \A b \in Budgets : b.starts \in Nat /\ b.resumes \in Nat
  BY AiTraderAssumption DEF Budget
<1>2. f \in [Budgets -> Nat] /\ \A b \in Budgets : f[b] = b.starts + b.resumes
  BY <1>1
<1>3. {f[b] : b \in Budgets} = {b.starts + b.resumes : b \in Budgets}
  BY <1>2
<1> HIDE DEF f
<1>4. PICK S : S = {f[b] : b \in Budgets}
  OBVIOUS
<1>5. Max(S) \in Nat
  BY <1>2, <1>4, MostOf
<1>6. MaxSessions = Max(S)
  BY <1>3, <1>4 DEF MaxSessions
<1>7. Sessions \subseteq Nat
  BY <1>5, <1>6 DEF Sessions
<1>8. QED
  BY <1>5, <1>6, <1>7, AiTraderAssumption

-----------------------------------------------------------------------------
(* Lists of orders.                                                        *)

LEMMA ListDef ==
  ASSUME NEW n \in Nat, NEW q
  PROVE  q \in Lists(n) <=> /\ q \in Seq(1 .. n)
                            /\ \A i, j \in 1 .. Len(q) : q[i] = q[j] => i = j
<1>1. q \in Seq(1 .. n) => DOMAIN q = 1 .. Len(q)
  BY LenProperties
<1>2. QED
  BY <1>1 DEF Lists, IsInjective

LEMMA ListsGrow ==
  ASSUME NEW n \in Nat, NEW m \in Nat, n <= m
  PROVE  Lists(n) \subseteq Lists(m)
<1>1. 1 .. n \subseteq 1 .. m
  OBVIOUS
<1>2. Seq(1 .. n) \subseteq Seq(1 .. m)
  BY <1>1, SeqMonotonic
<1>3. QED
  BY <1>2 DEF Lists

LEMMA ListRange ==
  ASSUME NEW n \in Nat, NEW q \in Lists(n)
  PROVE  /\ \A x : x \in Range(q) <=> \E i \in 1 .. Len(q) : q[i] = x
         /\ Range(q) \subseteq 1 .. n
         /\ q = <<>> => Range(q) = {}
<1>1. q \in Seq(1 .. n) /\ DOMAIN q = 1 .. Len(q)
  BY LenProperties DEF Lists
<1>2. /\ \A x : x \in Range(q) <=> \E i \in 1 .. Len(q) : q[i] = x
      /\ \A i \in 1 .. Len(q) : q[i] \in 1 .. n
  BY <1>1, ElementOfSeq DEF Range
<1>3. q = <<>> => Range(q) = {}
  BY DEF Range
<1>4. QED
  BY <1>2, <1>3

LEMMA ListEmpty ==
  ASSUME NEW n \in Nat
  PROVE  <<>> \in Lists(n) /\ Range(<<>>) = {}
<1>1. <<>> \in Seq(1 .. n) /\ Len(<<>>) = 0
  BY EmptySeq
<1>2. <<>> \in Lists(n)
  BY <1>1 DEF Lists, IsInjective
<1>3. Range(<<>>) = {}
  BY <1>2, ListRange
<1>4. QED
  BY <1>2, <1>3

LEMMA ListAppend ==
  ASSUME NEW n \in Nat, NEW q \in Lists(n), NEW e \in 1 .. n, e \notin Range(q)
  PROVE  Append(q, e) \in Lists(n) /\ Range(Append(q, e)) = Range(q) \cup {e}
<1> DEFINE r == Append(q, e)
<1>1. /\ q \in Seq(1 .. n) /\ Len(q) \in Nat
      /\ \A i, j \in 1 .. Len(q) : q[i] = q[j] => i = j
      /\ \A i \in 1 .. Len(q) : q[i] # e
      /\ \A x : x \in Range(q) <=> \E i \in 1 .. Len(q) : q[i] = x
  BY ListDef, ListRange
<1>2. /\ r \in Seq(1 .. n) /\ Len(r) = Len(q) + 1
      /\ \A i \in 1 .. Len(q) : r[i] = q[i]
      /\ r[Len(q) + 1] = e
  BY <1>1, AppendProperties
<1> HIDE DEF r
<1>3. \A i \in 1 .. Len(r) : i \in 1 .. Len(q) \/ i = Len(q) + 1
  BY <1>1, <1>2
<1>4. ASSUME NEW i \in 1 .. Len(r), NEW j \in 1 .. Len(r), r[i] = r[j]
      PROVE  i = j
  <2>1. (i \in 1 .. Len(q) \/ i = Len(q) + 1) /\ (j \in 1 .. Len(q) \/ j = Len(q) + 1)
    BY <1>3
  <2>2. CASE i \in 1 .. Len(q) /\ j \in 1 .. Len(q)
    BY <1>1, <1>2, <1>4, <2>2
  <2>3. CASE i \in 1 .. Len(q) /\ j = Len(q) + 1
    BY <1>1, <1>2, <1>4, <2>3
  <2>4. CASE i = Len(q) + 1 /\ j \in 1 .. Len(q)
    BY <1>1, <1>2, <1>4, <2>4
  <2>5. QED
    BY <2>1, <2>2, <2>3, <2>4
<1>5. r \in Lists(n)
  BY <1>2, <1>4, ListDef
<1>6. \A x : x \in Range(r) <=> \E i \in 1 .. Len(r) : r[i] = x
  BY <1>5, ListRange
<1>7. Range(r) = Range(q) \cup {e}
  <2>1. \A i \in 1 .. Len(q) : i \in 1 .. Len(r)
    BY <1>1, <1>2
  <2>2. Len(q) + 1 \in 1 .. Len(r)
    BY <1>1, <1>2
  <2>3. Range(r) \subseteq Range(q) \cup {e}
    <3>1. ASSUME NEW i \in 1 .. Len(r)
          PROVE  r[i] \in Range(q) \cup {e}
      <4>1. CASE i \in 1 .. Len(q)
        BY <1>1, <1>2, <4>1
      <4>2. CASE i = Len(q) + 1
        BY <1>2, <4>2
      <4>3. QED
        BY <1>3, <3>1, <4>1, <4>2
    <3>2. QED
      BY <1>6, <3>1
  <2>4. Range(q) \cup {e} \subseteq Range(r)
    BY <1>1, <1>2, <1>6, <2>1, <2>2
  <2>5. QED
    BY <2>3, <2>4
<1>8. QED
  BY <1>5, <1>7 DEF r

LEMMA ListTail ==
  ASSUME NEW n \in Nat, NEW q \in Lists(n), q # <<>>
  PROVE  /\ Head(q) \in 1 .. n /\ Tail(q) \in Lists(n)
         /\ Head(q) \in Range(q) /\ Range(Tail(q)) = Range(q) \ {Head(q)}
         /\ Len(q) = 1 <=> Tail(q) = <<>>
<1> DEFINE r == Tail(q)
<1>1. /\ q \in Seq(1 .. n) /\ Len(q) \in Nat \ {0}
      /\ \A i, j \in 1 .. Len(q) : q[i] = q[j] => i = j
      /\ \A x : x \in Range(q) <=> \E i \in 1 .. Len(q) : q[i] = x
  BY ListDef, ListRange, EmptySeq
<1>2. /\ Head(q) = q[1] /\ Head(q) \in 1 .. n
      /\ r \in Seq(1 .. n) /\ Len(r) = Len(q) - 1
      /\ \A i \in 1 .. Len(r) : r[i] = q[i + 1]
  BY <1>1, HeadTailProperties
<1> HIDE DEF r
<1>3. \A i \in 1 .. Len(r) : i + 1 \in 1 .. Len(q) /\ i + 1 # 1
  BY <1>1, <1>2
<1>4. ASSUME NEW i \in 1 .. Len(r), NEW j \in 1 .. Len(r), r[i] = r[j]
      PROVE  i = j
  <2>1. i + 1 \in 1 .. Len(q) /\ j + 1 \in 1 .. Len(q) /\ i \in Int /\ j \in Int
    BY <1>3
  <2>2. q[i + 1] = q[j + 1]
    BY <1>2, <1>4
  <2>3. i + 1 = j + 1
    BY <1>1, <2>1, <2>2
  <2>4. QED
    BY <2>1, <2>3
<1>5. r \in Lists(n) /\ \A x : x \in Range(r) <=> \E i \in 1 .. Len(r) : r[i] = x
  BY <1>2, <1>4, ListDef, ListRange
<1>6. Range(r) \subseteq Range(q) \ {Head(q)}
  <2>1. 1 \in 1 .. Len(q)
    BY <1>1
  <2>2. ASSUME NEW j \in 1 .. Len(r)
        PROVE  r[j] \in Range(q) /\ r[j] # Head(q)
    <3>1. j + 1 \in 1 .. Len(q) /\ j + 1 # 1 /\ r[j] = q[j + 1]
      BY <1>2, <1>3
    <3>2. q[j + 1] # q[1]
      BY <1>1, <2>1, <3>1
    <3>3. QED
      BY <1>1, <1>2, <3>1, <3>2
  <2>3. QED
    BY <1>5, <2>2
<1>7. Range(q) \ {Head(q)} \subseteq Range(r)
  <2>1. ASSUME NEW i \in 1 .. Len(q), q[i] # Head(q)
        PROVE  q[i] \in Range(r)
    <3>1. i - 1 \in 1 .. Len(r) /\ (i - 1) + 1 = i
      BY <1>1, <1>2, <2>1
    <3>2. r[i - 1] = q[i]
      BY <1>2, <3>1
    <3>3. QED
      BY <1>5, <3>1, <3>2
  <2>2. QED
    BY <1>1, <2>1
<1>8. Head(q) \in Range(q)
  <2>1. 1 \in 1 .. Len(q)
    BY <1>1
  <2>2. QED
    BY <1>1, <1>2, <2>1
<1>9. Len(q) = 1 <=> r = <<>>
  <2>1. r = <<>> => Len(r) = 0
    OBVIOUS
  <2>2. r # <<>> => Len(r) \in Nat \ {0}
    BY <1>2, EmptySeq
  <2>3. QED
    BY <1>1, <1>2, <2>1, <2>2
<1>10. QED
  BY <1>2, <1>5, <1>6, <1>7, <1>8, <1>9 DEF r

\* A list without its order at one place.
LEMMA ListWithout ==
  ASSUME NEW n \in Nat, NEW q \in Lists(n), NEW i \in DOMAIN q
  PROVE  Without(q, i) \in Lists(n) /\ Range(Without(q, i)) = Range(q) \ {q[i]}
<1> DEFINE a == SubSeq(q, 1, i - 1)
           b == SubSeq(q, i + 1, Len(q))
           r == Without(q, i)
<1>1. /\ q \in Seq(1 .. n) /\ Len(q) \in Nat /\ i \in 1 .. Len(q)
      /\ \A j, k \in 1 .. Len(q) : q[j] = q[k] => j = k
      /\ \A j \in 1 .. Len(q) : q[j] \in 1 .. n
      /\ \A x : x \in Range(q) <=> \E j \in 1 .. Len(q) : q[j] = x
  BY ListDef, ListRange
<1>2. /\ a \in Seq(1 .. n) /\ Len(a) = i - 1
      /\ \A j \in 1 .. i - 1 : a[j] = q[j]
  <2>1. \A j \in 1 .. i - 1 : q[j] \in 1 .. n
    BY <1>1
  <2>2. /\ a \in Seq(1 .. n) /\ Len(a) = IF 1 <= i - 1 THEN i - 1 - 1 + 1 ELSE 0
        /\ \A j \in 1 .. i - 1 - 1 + 1 : a[j] = q[1 + j - 1]
    BY <1>1, <2>1, SubSeqProperties
  <2>3. i - 1 - 1 + 1 = i - 1 /\ \A j \in 1 .. i - 1 : 1 + j - 1 = j
    BY <1>1
  <2>4. QED
    BY <1>1, <2>2, <2>3
<1>3. /\ b \in Seq(1 .. n) /\ Len(b) = Len(q) - i
      /\ \A j \in 1 .. Len(q) - i : b[j] = q[i + j]
  <2>1. \A j \in i + 1 .. Len(q) : q[j] \in 1 .. n
    BY <1>1
  <2>2. /\ b \in Seq(1 .. n) /\ Len(b) = IF i + 1 <= Len(q) THEN Len(q) - (i + 1) + 1 ELSE 0
        /\ \A j \in 1 .. Len(q) - (i + 1) + 1 : b[j] = q[i + 1 + j - 1]
    <3>1. i + 1 \in Int /\ Len(q) \in Int
      BY <1>1
    <3>2. QED
      BY <2>1, <3>1, SubSeqProperties, SMTT(30)
  <2>3. /\ (IF i + 1 <= Len(q) THEN Len(q) - (i + 1) + 1 ELSE 0) = Len(q) - i
        /\ Len(q) - (i + 1) + 1 = Len(q) - i
        /\ \A j \in 1 .. Len(q) - i : i + 1 + j - 1 = i + j
    BY <1>1
  <2>4. \A j \in 1 .. Len(q) - i : b[j] = q[i + j]
    BY <2>2, <2>3
  <2>5. QED
    BY <2>2, <2>3, <2>4
<1>r. r = a \o b
  BY DEF Without
<1> HIDE DEF a, b, r
<1>4. /\ r \in Seq(1 .. n) /\ Len(r) = Len(q) - 1
      /\ \A j \in 1 .. Len(q) - 1 : r[j] = IF j <= i - 1 THEN a[j] ELSE b[j - (i - 1)]
  <2>1. Len(a) + Len(b) = Len(q) - 1
    <3>1. (i - 1) + (Len(q) - i) = Len(q) - 1
      BY <1>1
    <3>2. QED
      BY <1>2, <1>3, <3>1
  <2>2. /\ r \in Seq(1 .. n) /\ Len(r) = Len(a) + Len(b)
        /\ \A j \in 1 .. Len(a) + Len(b) : r[j] = IF j <= Len(a) THEN a[j] ELSE b[j - Len(a)]
    BY <1>2, <1>3, <1>r, ConcatProperties
  <2>3. QED
    BY <1>2, <2>1, <2>2
<1>5. ASSUME NEW j \in 1 .. Len(q) - 1
      PROVE  r[j] = IF j < i THEN q[j] ELSE q[j + 1]
  <2>1. CASE j < i
    <3>1. j \in 1 .. i - 1 /\ j <= i - 1
      BY <1>1, <1>5, <2>1
    <3>2. QED
      BY <1>2, <1>4, <1>5, <2>1, <3>1
  <2>2. CASE ~(j < i)
    <3>1. ~(j <= i - 1) /\ j - (i - 1) \in 1 .. Len(q) - i /\ i + (j - (i - 1)) = j + 1
      BY <1>1, <1>5, <2>2
    <3>2. r[j] = b[j - (i - 1)] /\ b[j - (i - 1)] = q[i + (j - (i - 1))]
      BY <1>3, <1>4, <1>5, <3>1
    <3>3. QED
      BY <2>2, <3>1, <3>2
  <2>3. QED
    BY <2>1, <2>2
<1> DEFINE at(j) == IF j < i THEN j ELSE j + 1
<1>6. ASSUME NEW j \in 1 .. Len(r)
      PROVE  r[j] = q[at(j)] /\ at(j) \in 1 .. Len(q) /\ at(j) # i
  <2>1. j \in 1 .. Len(q) - 1 /\ j \in Int /\ i \in Int /\ Len(q) \in Int /\ i <= Len(q) /\ i >= 1
    BY <1>1, <1>4
  <2>2. at(j) \in 1 .. Len(q) /\ at(j) # i
    BY <2>1
  <2>3. r[j] = q[at(j)]
    BY <1>5, <2>1
  <2>4. QED
    BY <2>2, <2>3
<1>7. ASSUME NEW j \in 1 .. Len(r), NEW k \in 1 .. Len(r), at(j) = at(k)
      PROVE  j = k
  <2>1. j \in Int /\ k \in Int /\ i \in Int
    BY <1>1, <1>4
  <2>2. QED
    BY <1>7, <2>1
<1>8. \A j \in 1 .. Len(q) : j # i => \E k \in 1 .. Len(r) : at(k) = j
  <2>1. ASSUME NEW j \in 1 .. Len(q), j # i
        PROVE  \E k \in 1 .. Len(r) : at(k) = j
    <3>1. CASE j < i
      <4>1. j \in 1 .. Len(r) /\ at(j) = j
        BY <1>1, <1>4, <3>1
      <4>2. QED
        BY <4>1
    <3>2. CASE j > i
      <4>1. j - 1 \in 1 .. Len(r) /\ at(j - 1) = j
        BY <1>1, <1>4, <3>2
      <4>2. QED
        BY <4>1
    <3>3. QED
      BY <1>1, <2>1, <3>1, <3>2
  <2>2. QED
    BY <2>1
<1> HIDE DEF at
<1>9. ASSUME NEW j \in 1 .. Len(r), NEW k \in 1 .. Len(r), r[j] = r[k]
      PROVE  j = k
  <2>1. q[at(j)] = q[at(k)] /\ at(j) \in 1 .. Len(q) /\ at(k) \in 1 .. Len(q)
    BY <1>6, <1>9
  <2>2. at(j) = at(k)
    BY <1>1, <2>1
  <2>3. QED
    BY <1>7, <2>2
<1>10. r \in Lists(n) /\ \A x : x \in Range(r) <=> \E j \in 1 .. Len(r) : r[j] = x
  BY <1>4, <1>9, ListDef, ListRange
<1>11. Range(r) \subseteq Range(q) \ {q[i]}
  <2>1. ASSUME NEW j \in 1 .. Len(r)
        PROVE  r[j] \in Range(q) \ {q[i]}
    <3>1. r[j] = q[at(j)] /\ at(j) \in 1 .. Len(q) /\ at(j) # i
      BY <1>6
    <3>2. q[at(j)] # q[i]
      BY <1>1, <3>1
    <3>3. QED
      BY <1>1, <3>1, <3>2
  <2>2. QED
    BY <1>10, <2>1
<1>12. Range(q) \ {q[i]} \subseteq Range(r)
  <2>1. ASSUME NEW j \in 1 .. Len(q), q[j] # q[i]
        PROVE  q[j] \in Range(r)
    <3>1. PICK k \in 1 .. Len(r) : at(k) = j
      BY <1>8, <2>1
    <3>2. r[k] = q[j]
      BY <1>6, <3>1
    <3>3. QED
      BY <1>10, <3>2
  <2>2. QED
    BY <1>1, <2>1
<1>13. QED
  BY <1>10, <1>11, <1>12 DEF r

\* Distinct orders: as many as there are places.
LEMMA ListCounted ==
  ASSUME NEW n \in Nat, NEW q \in Lists(n)
  PROVE  Cardinality(Range(q)) = Len(q)
<1>1. /\ q \in Seq(1 .. n) /\ Len(q) \in Nat /\ IsInjective(q)
      /\ \A x : x \in Range(q) <=> \E i \in 1 .. Len(q) : q[i] = x
      /\ q \in [1 .. Len(q) -> 1 .. n]
  BY ListRange, LenProperties DEF Lists
<1>2. q \in Bijection(1 .. Len(q), Range(q))
  BY <1>1 DEF Bijection, Injection, Surjection
<1>3. IsFiniteSet(1 .. Len(q)) /\ Cardinality(1 .. Len(q)) = Len(q)
  <2>1. 1 \in Int /\ Len(q) \in Int
    BY <1>1
  <2>2. /\ IsFiniteSet(1 .. Len(q))
        /\ Cardinality(1 .. Len(q)) = IF 1 > Len(q) THEN 0 ELSE Len(q) - 1 + 1
    BY <2>1, FS_Interval
  <2>3. (IF 1 > Len(q) THEN 0 ELSE Len(q) - 1 + 1) = Len(q)
    BY <1>1
  <2>4. QED
    BY <2>2, <2>3
<1>4. QED
  BY <1>2, <1>3, FS_Bijection DEF ExistsBijection

-----------------------------------------------------------------------------
(* Goroutines.                                                             *)

LEMMA RunThen ==
  ASSUME NEW S, NEW run \in Seq(S), run # <<>>, NEW steps \in Seq(S)
  PROVE  /\ steps \o Tail(run) \in Seq(S)
         /\ \A i \in DOMAIN (steps \o Tail(run)) :
              \/ \E j \in DOMAIN steps : (steps \o Tail(run))[i] = steps[j]
              \/ i > Len(steps) /\ \E j \in DOMAIN run : j > 1 /\ (steps \o Tail(run))[i] = run[j]
<1> DEFINE tail == Tail(run)
           r == steps \o tail
<1>1. /\ tail \in Seq(S) /\ Len(tail) = Len(run) - 1 /\ Len(run) \in Nat
      /\ \A i \in 1 .. Len(tail) : tail[i] = run[i + 1]
      /\ DOMAIN run = 1 .. Len(run) /\ DOMAIN steps = 1 .. Len(steps) /\ Len(steps) \in Nat
  BY HeadTailProperties, LenProperties
<1> HIDE DEF tail
<1>2. /\ r \in Seq(S) /\ Len(r) = Len(steps) + Len(tail) /\ DOMAIN r = 1 .. Len(r)
      /\ \A i \in 1 .. Len(steps) + Len(tail) :
           r[i] = IF i <= Len(steps) THEN steps[i] ELSE tail[i - Len(steps)]
  BY <1>1, ConcatProperties, LenProperties
<1> HIDE DEF r
<1>3. ASSUME NEW i \in DOMAIN r
      PROVE  \/ \E j \in DOMAIN steps : r[i] = steps[j]
             \/ i > Len(steps) /\ \E j \in DOMAIN run : j > 1 /\ r[i] = run[j]
  <2>1. i \in Int /\ i >= 1 /\ i <= Len(steps) + Len(tail)
        /\ r[i] = IF i <= Len(steps) THEN steps[i] ELSE tail[i - Len(steps)]
    BY <1>1, <1>2
  <2>2. CASE i <= Len(steps)
    <3>1. i \in DOMAIN steps
      BY <1>1, <2>1, <2>2
    <3>2. QED
      BY <2>1, <2>2, <3>1
  <2>3. CASE ~(i <= Len(steps))
    <3>1. i - Len(steps) \in 1 .. Len(tail) /\ (i - Len(steps)) + 1 \in DOMAIN run
          /\ (i - Len(steps)) + 1 > 1 /\ i > Len(steps)
      BY <1>1, <2>1, <2>3
    <3>2. r[i] = run[(i - Len(steps)) + 1]
      BY <1>1, <2>1, <2>3, <3>1
    <3>3. QED
      BY <3>1, <3>2
  <2>4. QED
    BY <2>2, <2>3
<1>4. QED
  BY <1>2, <1>3 DEF r, tail

\* A goroutine that has nothing to do.
LEMMA IdleOK ==
  ASSUME NEW extra, NEW n \in Nat, NEW live, NEW on, NEW owed
  PROVE  ThreadOK(Idle, extra, n, live, on, owed)
<1>1. <<>> \in Lists(n) /\ <<>> \in Seq(StepShape(extra)) /\ DOMAIN <<>> = {}
  BY ListEmpty
<1>2. QED
  BY <1>1 DEF ThreadOK, ThreadShape, Idle

\* A goroutine whose head is done, or takes its place by steps that may come next,
\* holds nothing that anyone could disturb.
LEMMA Continued ==
  ASSUME NEW extra, NEW n \in Nat, NEW live, NEW on, NEW owed,
         NEW T \in ThreadShape(extra, n), T.run # <<>>, T.obj \in live, T.killed => on,
         \A i \in DOMAIN T.run : /\ i > 1 => T.run[i].do \in Waiting
                                 /\ T.killed => T.run[i].do \in Quiet,
         NEW steps \in Seq(StepShape(extra)),
         \A i \in DOMAIN steps : steps[i].do \in Waiting /\ (T.killed => steps[i].do \in Quiet)
  PROVE  ThreadOK(IF steps \o Tail(T.run) = <<>> THEN Idle
                  ELSE [T EXCEPT !.run = steps \o Tail(T.run)], extra, n, live, on, owed)
<1> DEFINE r == steps \o Tail(T.run)
           U == [T EXCEPT !.run = r]
<1>1. PICK run \in Seq(StepShape(extra)) : run = T.run /\ run # <<>>
  BY DEF ThreadShape
<1>2. /\ r \in Seq(StepShape(extra))
      /\ \A i \in DOMAIN r :
           \/ \E j \in DOMAIN steps : r[i] = steps[j]
           \/ i > Len(steps) /\ \E j \in DOMAIN T.run : j > 1 /\ r[i] = T.run[j]
  <2> HIDE DEF U
  <2>1. PICK S : S = StepShape(extra)
    OBVIOUS
  <2>2. run \in Seq(S) /\ steps \in Seq(S) /\ run # <<>>
    BY <1>1, <2>1
  <2>3. /\ steps \o Tail(run) \in Seq(S)
        /\ \A i \in DOMAIN (steps \o Tail(run)) :
             \/ \E j \in DOMAIN steps : (steps \o Tail(run))[i] = steps[j]
             \/ i > Len(steps) /\ \E j \in DOMAIN run : j > 1 /\ (steps \o Tail(run))[i] = run[j]
    BY <2>2, RunThen
  <2>4. QED
    BY <1>1, <2>1, <2>3
<1>3. \A i \in DOMAIN r : r[i].do \in Waiting /\ (T.killed => r[i].do \in Quiet)
  BY <1>2
<1>4. r # <<>> => r[1].do \in Waiting
  <2>1. r # <<>> => 1 \in DOMAIN r
    BY <1>2, EmptySeq, LenProperties
  <2>2. QED
    BY <1>3, <2>1
<1> HIDE DEF r
<1>5. /\ U \in ThreadShape(extra, n) /\ U.run = r /\ U.obj = T.obj /\ U.killed = T.killed
  BY <1>2 DEF ThreadShape
<1> HIDE DEF U
<1>6. r # <<>> => ThreadOK(U, extra, n, live, on, owed)
  BY <1>3, <1>4, <1>5 DEF ThreadOK, Waiting
<1>7. QED
  BY <1>6, IdleOK DEF r, U

\* Nothing a goroutine relies on goes: the broker has more orders, the object owes less.
LEMMA StaysOK ==
  ASSUME NEW extra, NEW n \in Nat, NEW live, NEW on, NEW owed, NEW T,
         ThreadOK(T, extra, n, live, on, owed),
         NEW extra2, NEW m \in Nat, NEW live2, NEW on2, NEW owed2,
         extra \subseteq extra2, n <= m, on => on2,
         T.run # <<>> => T.obj \in live2,
         T.run # <<>> /\ T.run[1].do \in {"drop", "query"} => owed2[T.obj] \subseteq owed[T.obj]
  PROVE  ThreadOK(T, extra2, m, live2, on2, owed2)
<1>1. Lists(n) \subseteq Lists(m)
  BY ListsGrow
<1>2. Snapshots(n) \subseteq Snapshots(m)
  BY <1>1 DEF Snapshots
<1>3. T \in ThreadShape(extra, n)
  BY DEF ThreadOK
<1>4. T.run \in Seq(StepShape(extra2))
  <2>1. T.run \in Seq(StepShape(extra))
    BY <1>3 DEF ThreadShape
  <2>2. StepShape(extra) \subseteq StepShape(extra2)
    BY DEF StepShape
  <2>3. QED
    BY <2>1, <2>2, SeqMonotonic
<1>5. T \in ThreadShape(extra2, m)
  BY <1>1, <1>2, <1>3, <1>4 DEF ThreadShape
<1>6. QED
  BY <1>2, <1>5 DEF ThreadOK

\* The step a goroutine is at.
LEMMA AtHead ==
  ASSUME NEW extra, Inv(extra), NEW t \in Threads, NEW x, At(t, x)
  PROVE  /\ thread[t] \in ThreadShape(extra, Len(orders))
         /\ thread[t].run # <<>> /\ thread[t].run \in Seq(StepShape(extra))
         /\ Step(t) = thread[t].run[1] /\ Step(t) \in StepShape(extra) /\ Step(t).do = x
         /\ 1 \in DOMAIN thread[t].run
         /\ ThreadOK(thread[t], extra, Len(orders), Live, kill, Owed)
         /\ thread[t].obj \in Live /\ thread[t].obj \in Sessions
         /\ thread[t].killed => kill /\ x \in Quiet
         /\ Len(orders) \in Nat
<1>1. /\ ThreadOK(thread[t], extra, Len(orders), Live, kill, Owed)
      /\ thread[t] \in ThreadShape(extra, Len(orders))
      /\ thread[t].run # <<>> /\ thread[t].run \in Seq(StepShape(extra))
      /\ thread[t].obj \in Live
  BY DEF Inv, ThreadsInv, ThreadOK, ThreadShape, At
<1>2. /\ Head(thread[t].run) = thread[t].run[1] /\ Head(thread[t].run) \in StepShape(extra)
      /\ 1 \in DOMAIN thread[t].run
  <2>1. Len(thread[t].run) \in Nat \ {0} /\ DOMAIN thread[t].run = 1 .. Len(thread[t].run)
    BY <1>1, EmptySeq, LenProperties
  <2>2. 1 \in 1 .. Len(thread[t].run)
    BY <2>1
  <2>3. QED
    BY <1>1, <2>1, <2>2, HeadTailProperties
<1>3. thread[t].obj \in Sessions
  BY <1>1 DEF Live
<1>4. Len(orders) \in Nat
  BY LenProperties DEF Inv, Shapes
<1>5. thread[t].killed => kill /\ x \in Quiet
  BY <1>1, <1>2 DEF ThreadOK, At
<1>6. QED
  BY <1>1, <1>2, <1>3, <1>4, <1>5 DEF Step, At

-----------------------------------------------------------------------------
(* What a step of one goroutine leaves alone.                              *)

LeftKept == left' \in Budget /\ left'.orders = left.orders

LEMMA HappensKept ==
  ASSUME NEW extra, Inv(extra), (\E e \in Events : Happens(e)) \/ UNCHANGED left
  PROVE  LeftKept
<1>1. left \in Budget
  BY DEF Inv, Shapes
<1>2. CASE \E e \in Events : left' = [left EXCEPT !.may = left.may \ {e}]
  BY <1>1, <1>2 DEF LeftKept, Budget
<1>3. QED
  BY <1>1, <1>2 DEF LeftKept, Happens

SameSessions ==
  \A s \in Sessions : /\ session'[s].id = session[s].id
                      /\ session'[s].loop = session[s].loop
                      /\ session'[s].cancelled = session[s].cancelled
                      /\ session'[s].status = session[s].status
                      /\ session'[s].over = session[s].over

LEMMA LiveKept ==
  ASSUME SameSessions
  PROVE  Live' = Live
BY DEF SameSessions, Live

LEMMA SessionsKept ==
  ASSUME SessionsInv, SameSessions, UNCHANGED <<current, snap>>
  PROVE  SessionsInv'
<1>1. Live' = Live
  BY LiveKept
<1>2. \A s \in Sessions : SessionInv(s)'
  BY DEF SessionsInv, SessionInv, SameSessions
<1>3. QED
  BY <1>1, <1>2 DEF SessionsInv, SameSessions

\* A step of one goroutine: the objects remain, and owe no more than before.
LEMMA SteppedOn ==
  ASSUME NEW extra, Inv(extra), NEW extra2, extra \subseteq extra2, NEW t \in Threads,
         DOMAIN thread' = Threads, \A u \in Threads \ {t} : thread'[u] = thread[u],
         ThreadOK(thread'[t], extra2, Len(orders), Live, kill, Owed'),
         session' \in [Sessions -> SessionShape(Len(orders))], Live' = Live,
         \A o \in Sessions : session'[o].loop = session[o].loop, SessionsInv',
         snap' \in [Sessions -> Snapshots(Len(orders)) \cup {None}],
         UNCHANGED <<current, kill>>, breaker' \in Risk!Breaker, pos' \in Int, LeftKept,
         orders' \in Seq(OrderShape(extra2)), Len(orders') = Len(orders),
         \A n \in DOMAIN orders : orders'[n].late = orders[n].late /\ orders'[n].by = orders[n].by,
         \A o \in Sessions : Owed'[o] \subseteq Owed[o],
         \A o \in Live : Owed'[o] \subseteq Range(session'[o].work)
  PROVE  IInv'
<1>1. Len(orders) \in Nat /\ DOMAIN orders' = DOMAIN orders
  BY LenProperties DEF Inv, Shapes
<1>2. ASSUME NEW u \in Threads
      PROVE  ThreadOK(thread'[u], extra2, Len(orders'), Live', kill', Owed')
  <2>1. CASE u = t
    BY <1>1, <2>1
  <2>2. CASE u # t
    <3>1. PICK T : T = thread[u]
      OBVIOUS
    <3>2. ThreadOK(T, extra, Len(orders), Live, kill, Owed) /\ T = thread'[u]
      BY <2>2, <3>1 DEF Inv, ThreadsInv
    <3>3. T.run # <<>> => T.obj \in Live /\ T.obj \in Sessions
      BY <3>2 DEF ThreadOK, Live
    <3>4. PICK owed2 : owed2 = Owed'
      OBVIOUS
    <3>5. T.run # <<>> => owed2[T.obj] \subseteq Owed[T.obj]
      BY <3>3, <3>4
    <3>6. Len(orders) <= Len(orders)
      BY <1>1
    <3>7. ThreadOK(T, extra2, Len(orders), Live, kill, owed2)
      <4>1. PICK n, live, on, owed : n = Len(orders) /\ live = Live /\ on = kill /\ owed = Owed
        OBVIOUS
      <4>2. ThreadOK(T, extra2, n, live, on, owed2)
        BY <1>1, <3>2, <3>3, <3>5, <3>6, <4>1, StaysOK
      <4>3. QED
        BY <4>1, <4>2
    <3>8. QED
      BY <1>1, <3>2, <3>4, <3>7
  <2>3. QED
    BY <2>1, <2>2
<1>3. ThreadsInv(extra2)'
  BY <1>2 DEF ThreadsInv
<1>4. OrdersInv'
  <2>1. \A n \in DOMAIN orders' : ~orders'[n].late /\ session'[orders'[n].by].loop # "none"
    <3>1. \A n \in DOMAIN orders : orders[n].by \in Sessions
      <4>1. orders \in Seq(OrderShape(extra))
        BY DEF Inv, Shapes
      <4>2. \A n \in DOMAIN orders : orders[n] \in OrderShape(extra)
        BY <4>1, LenProperties, ElementOfSeq
      <4>3. QED
        BY <4>2 DEF OrderShape
    <3>2. QED
      BY <1>1, <3>1 DEF Inv, OrdersInv
  <2>2. QED
    BY <1>1, <2>1 DEF OrdersInv
<1>5. Shapes(extra2)'
  BY <1>1 DEF Inv, Shapes, LeftKept
<1>6. QED
  BY <1>3, <1>4, <1>5 DEF IInv, Inv

LEMMA Stepped ==
  ASSUME NEW extra, Inv(extra), NEW extra2, extra \subseteq extra2, NEW t \in Threads,
         DOMAIN thread' = Threads, \A u \in Threads \ {t} : thread'[u] = thread[u],
         ThreadOK(thread'[t], extra2, Len(orders), Live, kill, Owed'),
         session' \in [Sessions -> SessionShape(Len(orders))], SameSessions,
         UNCHANGED <<current, snap, kill>>, breaker' \in Risk!Breaker, pos' \in Int, LeftKept,
         orders' \in Seq(OrderShape(extra2)), Len(orders') = Len(orders),
         \A n \in DOMAIN orders : orders'[n].late = orders[n].late /\ orders'[n].by = orders[n].by,
         \A o \in Sessions : Owed'[o] \subseteq Owed[o],
         \A o \in Live : Owed'[o] \subseteq Range(session'[o].work)
  PROVE  IInv'
<1>1. SessionsInv' /\ Live' = Live
  BY LiveKept, SessionsKept DEF Inv
<1>2. /\ \A o \in Sessions : session'[o].loop = session[o].loop
      /\ snap' \in [Sessions -> Snapshots(Len(orders)) \cup {None}]
  BY DEF SameSessions, Inv, Shapes
<1>3. QED
  BY <1>1, <1>2, SteppedOn

\* A step that touches neither the objects nor the broker's orders.
LEMMA SteppedAlone ==
  ASSUME NEW extra, Inv(extra), NEW extra2, extra \subseteq extra2, NEW t \in Threads, NEW T,
         thread' = [thread EXCEPT ![t] = T],
         ThreadOK(T, extra2, Len(orders), Live, kill, Owed),
         UNCHANGED <<session, current, snap, kill, orders, pos>>,
         breaker' \in Risk!Breaker, LeftKept
  PROVE  IInv'
<1>1. DOMAIN thread = Threads
  BY DEF Inv, ThreadsInv
<1>2. /\ DOMAIN thread' = Threads /\ \A u \in Threads \ {t} : thread'[u] = thread[u]
      /\ thread'[t] = T
  BY <1>1
<1>3. Owed' = Owed
  BY DEF Owed, Working
<1>4. SameSessions
  BY DEF SameSessions
<1>5. orders' \in Seq(OrderShape(extra2))
  <2>1. orders \in Seq(OrderShape(extra))
    BY DEF Inv, Shapes
  <2>2. OrderShape(extra) \subseteq OrderShape(extra2)
    BY DEF OrderShape
  <2>3. QED
    BY <2>1, <2>2, SeqMonotonic
<1>6. /\ session' \in [Sessions -> SessionShape(Len(orders))] /\ pos' \in Int
      /\ \A o \in Live : Owed[o] \subseteq Range(session'[o].work)
  BY DEF Inv, Shapes, OrdersInv
<1>7. ThreadOK(thread'[t], extra2, Len(orders), Live, kill, Owed')
  BY <1>2, <1>3
<1>8. QED
  BY <1>2, <1>3, <1>4, <1>5, <1>6, <1>7, Stepped

\* Steps a goroutine may have to do, and those that may follow its head.
Runs(steps, extra, quiet) ==
  /\ steps \in Seq(StepShape(extra))
  /\ \A i \in DOMAIN steps : steps[i].do \in Waiting /\ (quiet => steps[i].do \in Quiet)
Follows(t, steps, extra) == Runs(steps, extra, thread[t].killed)

LEMMA ThenOK ==
  ASSUME NEW extra, Inv(extra), NEW t \in Threads, thread[t].run # <<>>,
         NEW extra2, extra \subseteq extra2, NEW steps, Follows(t, steps, extra2), NEW owed
  PROVE  ThreadOK(Then(t, steps), extra2, Len(orders), Live, kill, owed)
<1>1. PICK T : T = thread[t]
  OBVIOUS
<1>2. ThreadOK(T, extra, Len(orders), Live, kill, Owed) /\ T.run # <<>> /\ Len(orders) \in Nat
  BY <1>1, LenProperties DEF Inv, ThreadsInv, Shapes
<1>3. T \in ThreadShape(extra2, Len(orders))
  <2>1. T \in ThreadShape(extra, Len(orders))
    BY <1>2 DEF ThreadOK
  <2>2. T.run \in Seq(StepShape(extra2))
    <3>1. T.run \in Seq(StepShape(extra)) /\ StepShape(extra) \subseteq StepShape(extra2)
      BY <2>1 DEF ThreadShape, StepShape
    <3>2. QED
      BY <3>1, SeqMonotonic
  <2>3. QED
    BY <2>1, <2>2 DEF ThreadShape
<1>4. /\ T.obj \in Live /\ (T.killed => kill)
      /\ \A i \in DOMAIN T.run : /\ i > 1 => T.run[i].do \in Waiting
                                 /\ T.killed => T.run[i].do \in Quiet
  BY <1>2 DEF ThreadOK
<1>5. /\ steps \in Seq(StepShape(extra2))
      /\ \A i \in DOMAIN steps : steps[i].do \in Waiting /\ (T.killed => steps[i].do \in Quiet)
  BY <1>1 DEF Follows, Runs
<1>6. ThreadOK(IF steps \o Tail(T.run) = <<>> THEN Idle
               ELSE [T EXCEPT !.run = steps \o Tail(T.run)], extra2, Len(orders), Live, kill, owed)
  BY <1>2, <1>3, <1>4, <1>5, Continued
<1>7. QED
  BY <1>1, <1>6 DEF Then

LEMMA NothingFollows ==
  ASSUME NEW t, NEW extra
  PROVE  Follows(t, <<>>, extra)
BY DEF Follows, Runs

\* A goroutine goes on, and all else stays as it is.
LEMMA ContinueKept ==
  ASSUME NEW extra, Inv(extra), NEW t \in Threads, thread[t].run # <<>>,
         NEW steps, Follows(t, steps, extra), Continue(t, steps),
         UNCHANGED <<session, current, snap, kill, orders, pos>>,
         breaker' \in Risk!Breaker, LeftKept
  PROVE  IInv'
<1>1. ThreadOK(Then(t, steps), extra, Len(orders), Live, kill, Owed)
  BY ThenOK
<1>2. thread' = [thread EXCEPT ![t] = Then(t, steps)]
  BY DEF Continue
<1>3. QED
  BY <1>1, <1>2, SteppedAlone

LEMMA DoShape ==
  ASSUME NEW extra, 0 \in extra, NEW x \in StepNames
  PROVE  Do(x) \in StepShape(extra) /\ Do(x).do = x
BY DEF Do, StepShape

LEMMA PlaceShape ==
  ASSUME NEW extra, 0 \in extra, NEW side \in {-1, 1}
  PROVE  Place(side) \in StepShape(extra) /\ Place(side).do = "place"
BY DEF Place, Do, StepShape, StepNames

LEMMA FollowsOne ==
  ASSUME NEW t, NEW extra, NEW a \in StepShape(extra), a.do \in Waiting,
         thread[t].killed => a.do \in Quiet
  PROVE  Follows(t, <<a>>, extra)
BY DEF Follows, Runs

LEMMA RunsBoth ==
  ASSUME NEW quiet, NEW extra, NEW p, NEW q, Runs(p, extra, quiet), Runs(q, extra, quiet)
  PROVE  Runs(p \o q, extra, quiet)
<1>1. /\ p \in Seq(StepShape(extra)) /\ q \in Seq(StepShape(extra))
      /\ DOMAIN p = 1 .. Len(p) /\ DOMAIN q = 1 .. Len(q) /\ Len(p) \in Nat /\ Len(q) \in Nat
  BY LenProperties DEF Runs
<1>2. PICK r : r = p \o q
  OBVIOUS
<1>3. /\ r \in Seq(StepShape(extra)) /\ DOMAIN r = 1 .. (Len(p) + Len(q))
      /\ \A i \in 1 .. Len(p) + Len(q) : r[i] = IF i <= Len(p) THEN p[i] ELSE q[i - Len(p)]
  BY <1>1, <1>2, ConcatProperties, LenProperties
<1>4. ASSUME NEW i \in DOMAIN r
      PROVE  (\E j \in DOMAIN p : r[i] = p[j]) \/ (\E j \in DOMAIN q : r[i] = q[j])
  <2>1. i \in Int /\ i >= 1 /\ i <= Len(p) + Len(q)
    BY <1>1, <1>3
  <2>2. CASE i <= Len(p)
    BY <1>1, <1>3, <2>1, <2>2
  <2>3. CASE ~(i <= Len(p))
    <3>1. i - Len(p) \in 1 .. Len(q)
      BY <1>1, <2>1, <2>3
    <3>2. QED
      BY <1>1, <1>3, <2>3, <3>1
  <2>4. QED
    BY <2>2, <2>3
<1>5. \A i \in DOMAIN r : r[i].do \in Waiting /\ (quiet => r[i].do \in Quiet)
  BY <1>4 DEF Runs
<1>6. QED
  BY <1>2, <1>3, <1>5 DEF Runs

-----------------------------------------------------------------------------
(* Orders.                                                                 *)

LEMMA BreakerKept ==
  ASSUME breaker \in Risk!Breaker
  PROVE  /\ Risk!RecordSuccess(Risk!Asked(breaker)) \in Risk!Breaker
         /\ Risk!RecordFailure(Risk!Asked(breaker)) \in Risk!Breaker
         /\ Risk!NewCircuitBreaker \in Risk!Breaker
<1>1. Threshold \in Nat \ {0}
  BY AiTraderAssumption DEF Risk!RiskAssumption
<1>2. PICK b : b = Risk!Asked(breaker)
  OBVIOUS
<1>3. Risk!NewCircuitBreaker \in Risk!Breaker
  BY <1>1 DEF Risk!NewCircuitBreaker, Risk!Breaker
<1>4. b \in Risk!Breaker
  BY <1>2, <1>3 DEF Risk!Asked
<1>5. Risk!RecordSuccess(b) \in Risk!Breaker
  BY <1>1, <1>4 DEF Risk!RecordSuccess, Risk!Breaker
<1>6. Risk!RecordFailure(b) \in Risk!Breaker
  BY <1>1, <1>4 DEF Risk!RecordFailure, Risk!Breaker
<1>7. QED
  BY <1>2, <1>3, <1>5, <1>6

\* An order that was approved is posted next: it is the one step that does not wait.
LEMMA PostNext ==
  ASSUME NEW extra, Inv(extra), NEW t \in Threads, thread[t].run # <<>>, ~thread[t].killed,
         NEW extra2, extra \subseteq extra2, NEW post \in StepShape(extra2), post.do = "post"
  PROVE  /\ ThreadOK(Then(t, <<post>>), extra2, Len(orders), Live, kill, Owed)
         /\ Then(t, <<post>>).run # <<>> /\ Head(Then(t, <<post>>).run) = post
<1>1. PICK T, n : T = thread[t] /\ n = Len(orders)
  OBVIOUS
<1>2. /\ ThreadOK(T, extra, n, Live, kill, Owed) /\ T \in ThreadShape(extra, n)
      /\ T.run # <<>> /\ T.obj \in Live /\ ~T.killed
      /\ \A i \in DOMAIN T.run : i > 1 => T.run[i].do \in Waiting
  BY <1>1 DEF Inv, ThreadsInv, ThreadOK
<1>3. PICK S, run, steps, r : /\ S = StepShape(extra2) /\ run = T.run /\ steps = <<post>>
                              /\ r = steps \o Tail(run)
  OBVIOUS
<1>4. run \in Seq(S) /\ run # <<>>
  <2>1. run \in Seq(StepShape(extra)) /\ StepShape(extra) \subseteq S
    BY <1>2, <1>3 DEF ThreadShape, StepShape
  <2>2. QED
    BY <1>2, <1>3, <2>1, SeqMonotonic
<1>5. /\ steps \in Seq(S) /\ Len(steps) = 1 /\ steps[1] = post /\ DOMAIN steps = 1 .. 1
  BY <1>3
<1>6. PICK rest : /\ rest = Tail(run) /\ rest \in Seq(S)
                  /\ Len(rest) = Len(run) - 1 /\ Len(run) \in Nat \ {0}
                  /\ \A i \in 1 .. Len(rest) : rest[i] = run[i + 1]
  BY <1>4, HeadTailProperties, EmptySeq, LenProperties
<1>7. /\ r \in Seq(S) /\ Len(r) = Len(run) /\ DOMAIN r = 1 .. Len(run) /\ DOMAIN run = 1 .. Len(run)
      /\ \A i \in 1 .. Len(run) : r[i] = IF i <= 1 THEN post ELSE run[i]
  <2>1. /\ r \in Seq(S) /\ Len(r) = 1 + Len(rest)
        /\ \A i \in 1 .. 1 + Len(rest) : r[i] = IF i <= 1 THEN steps[i] ELSE rest[i - 1]
    <3>1. steps \in Seq(S) /\ rest \in Seq(S)
      BY <1>5, <1>6
    <3>2. PICK q : q = steps \o rest
      OBVIOUS
    <3>3. /\ q \in Seq(S) /\ Len(q) = Len(steps) + Len(rest)
          /\ \A i \in 1 .. Len(steps) + Len(rest) :
               q[i] = IF i <= Len(steps) THEN steps[i] ELSE rest[i - Len(steps)]
      BY <3>1, <3>2, ConcatProperties
    <3>4. r = q /\ Len(steps) = 1
      BY <1>3, <1>5, <1>6, <3>2
    <3>5. QED
      BY <3>3, <3>4
  <2>2. ASSUME NEW i \in 1 .. Len(run)
        PROVE  r[i] = IF i <= 1 THEN post ELSE run[i]
    <3>1. i \in 1 .. 1 + Len(rest) /\ (~(i <= 1) => i - 1 \in 1 .. Len(rest) /\ (i - 1) + 1 = i)
      BY <1>6
    <3>2. CASE i <= 1
      <4>1. i = 1
        BY <3>2
      <4>2. QED
        BY <1>5, <2>1, <3>1, <4>1
    <3>3. CASE ~(i <= 1)
      BY <1>6, <2>1, <3>1, <3>3
    <3>4. QED
      BY <3>2, <3>3
  <2>3. QED
    BY <1>4, <1>6, <2>1, <2>2, LenProperties
<1>8. /\ r # <<>> /\ r[1] = post /\ Head(r) = post
      /\ \A i \in DOMAIN r : /\ i = 1 \/ i > 1
                            /\ i > 1 => r[i] = run[i] /\ r[i].do \in Waiting
  <2>1. 1 \in DOMAIN r /\ r[1] = post
    BY <1>6, <1>7
  <2>2. r # <<>>
    BY <1>6, <1>7
  <2>3. \A i \in DOMAIN r : (i = 1 \/ i > 1) /\ (i > 1 => r[i] = run[i])
    BY <1>6, <1>7
  <2>4. \A i \in DOMAIN r : i > 1 => r[i].do \in Waiting
    BY <1>2, <1>3, <1>7, <2>3
  <2>5. QED
    BY <2>1, <2>2, <2>3, <2>4
<1>9. PICK U : U = [T EXCEPT !.run = r]
  OBVIOUS
<1>10. /\ U \in ThreadShape(extra2, n) /\ U.run = r /\ U.obj = T.obj /\ U.killed = T.killed
  BY <1>2, <1>3, <1>7, <1>9 DEF ThreadShape
<1>11. ThreadOK(U, extra2, n, Live, kill, Owed)
  BY <1>2, <1>8, <1>10 DEF ThreadOK
<1>12. U = Then(t, <<post>>)
  BY <1>1, <1>3, <1>8, <1>9 DEF Then
<1>13. QED
  BY <1>1, <1>8, <1>10, <1>11, <1>12

\* The risk service: the order is posted next, or the goroutine goes on without it.
LEMMA Validated ==
  ASSUME NEW extra, Inv(extra), NEW t \in Threads, thread[t].run # <<>>, ~thread[t].killed,
         NEW order \in StepShape(extra), Validate(t, order),
         UNCHANGED <<session, current, snap, kill, orders, pos>>
  PROVE  IInv'
<1>1. breaker \in Risk!Breaker
  BY DEF Inv, Shapes
<1>2. CASE Done(t) /\ UNCHANGED <<breaker, left>>
  BY <1>1, <1>2, NothingFollows, ContinueKept, HappensKept DEF Done
<1>3. CASE /\ breaker' = Risk!RecordSuccess(Risk!Asked(breaker)) /\ UNCHANGED left
           /\ Continue(t, <<Approved(order)>>)
  <2>1. PICK sh, a : /\ sh = order.lots * left.lot
                     /\ a = InFlight(order.side) + sh - order.lots
    OBVIOUS
  <2> DEFINE post == [order EXCEPT !.do = "post", !.shares = sh, !.extra = a]
             extra2 == extra \cup {a}
  <2>4. sh \in Nat
    <3>1. PICK m \in Nat, l \in Nat : m = order.lots /\ l = left.lot
      BY DEF Inv, Shapes, Budget, StepShape
    <3>2. m * l \in Nat
      OBVIOUS
    <3>3. QED
      BY <2>1, <3>1, <3>2
  <2>2. post \in StepShape(extra2) /\ post.do = "post"
    BY <2>4 DEF StepShape, StepNames
  <2>3. ThreadOK(Then(t, <<post>>), extra2, Len(orders), Live, kill, Owed)
    <3>1. extra \subseteq extra2
      OBVIOUS
    <3> HIDE DEF post, extra2
    <3>2. QED
      BY <2>2, <3>1, PostNext
  <2>5. thread' = [thread EXCEPT ![t] = Then(t, <<post>>)]
    BY <1>3, <2>1 DEF Continue, Approved
  <2>6. breaker' \in Risk!Breaker /\ LeftKept
    BY <1>1, <1>3, BreakerKept, HappensKept
  <2>7. extra \subseteq extra2
    OBVIOUS
  <2> HIDE DEF post, extra2
  <2>8. QED
    BY <2>3, <2>5, <2>6, <2>7, SteppedAlone
<1>4. CASE /\ Happens("refused") \/ UNCHANGED left
           /\ breaker' = Risk!RecordFailure(Risk!Asked(breaker)) /\ Done(t)
  <2>1. breaker' \in Risk!Breaker /\ LeftKept
    BY <1>1, <1>4, BreakerKept, HappensKept DEF Events
  <2>2. QED
    BY <1>4, <2>1, NothingFollows, ContinueKept DEF Done
<1>5. QED
  BY <1>2, <1>3, <1>4 DEF Validate

LEMMA PlaceLimitKept ==
  ASSUME NEW extra, Inv(extra), NEW t \in Threads, PlaceLimit(t)
  PROVE  IInv'
<1>1. At(t, "place") /\ UNCHANGED <<session, current, snap, kill, orders, pos>>
  BY DEF PlaceLimit
<1>2. thread[t].run # <<>> /\ ~thread[t].killed /\ Step(t) \in StepShape(extra)
  BY <1>1, AtHead DEF Quiet
<1>3. CASE Validate(t, Step(t))
  BY <1>1, <1>2, <1>3, Validated
<1>4. CASE Done(t) /\ UNCHANGED <<breaker, left>>
  <2>1. breaker' \in Risk!Breaker /\ LeftKept
    BY <1>4, HappensKept DEF Inv, Shapes
  <2>2. QED
    BY <1>1, <1>2, <1>4, <2>1, NothingFollows, ContinueKept DEF Done
<1>5. QED
  BY <1>3, <1>4 DEF PlaceLimit

\* Steps that the kill switch does not keep from coming next.
LEMMA FollowsQuiet ==
  ASSUME NEW extra, Inv(extra), NEW t, NEW x \in (Waiting \cap Quiet)
  PROVE  Follows(t, <<Do(x)>>, extra)
<1>1. 0 \in extra /\ x \in StepNames
  BY DEF Inv, Shapes, Waiting
<1>2. Do(x) \in StepShape(extra) /\ Do(x).do = x
  BY <1>1, DoShape
<1>3. QED
  BY <1>2, FollowsOne

LEMMA FollowsTwo ==
  ASSUME NEW t, NEW extra, NEW a \in StepShape(extra), a.do \in Waiting,
         thread[t].killed => a.do \in Quiet,
         NEW b \in StepShape(extra), b.do \in Waiting, thread[t].killed => b.do \in Quiet
  PROVE  Follows(t, <<a, b>>, extra)
BY DEF Follows, Runs

LEMMA FollowsQuietTwo ==
  ASSUME NEW extra, Inv(extra), NEW t, NEW x \in (Waiting \cap Quiet), NEW y \in (Waiting \cap Quiet)
  PROVE  Follows(t, <<Do(x), Do(y)>>, extra)
<1>1. 0 \in extra /\ x \in StepNames /\ y \in StepNames
  BY DEF Inv, Shapes, Waiting
<1>2. Do(x) \in StepShape(extra) /\ Do(x).do = x /\ Do(y) \in StepShape(extra) /\ Do(y).do = y
  BY <1>1, DoShape
<1>3. QED
  BY <1>2, FollowsTwo

LEMMA CloseKept ==
  ASSUME NEW extra, Inv(extra), NEW t \in Threads, Close(t)
  PROVE  IInv'
<1>1. At(t, "close") /\ UNCHANGED <<session, current, snap, kill, breaker, orders, pos, left>>
  BY DEF Close
<1>2. thread[t].run # <<>> /\ breaker' \in Risk!Breaker /\ LeftKept
  BY <1>1, AtHead, HappensKept DEF Inv, Shapes
<1>3. CASE Done(t)
  BY <1>1, <1>2, <1>3, NothingFollows, ContinueKept DEF Done
<1>4. CASE Continue(t, <<Do("cancel"), Do("shut")>>)
  <2>1. Follows(t, <<Do("cancel"), Do("shut")>>, extra)
    BY FollowsQuietTwo DEF Waiting, Quiet, StepNames
  <2>2. QED
    BY <1>1, <1>2, <1>4, <2>1, ContinueKept
<1>5. QED
  BY <1>3, <1>4 DEF Close

\* A goroutine that began while the switch was on finds it on.
LEMMA ShutPositionKept ==
  ASSUME NEW extra, Inv(extra), NEW t \in Threads, ShutPosition(t)
  PROVE  IInv'
<1>1. At(t, "shut") /\ UNCHANGED <<session, current, snap, kill, orders, pos>>
  BY DEF ShutPosition
<1>2. thread[t].run # <<>> /\ (thread[t].killed => kill) /\ thread[t].obj \in Sessions
  BY <1>1, AtHead
<1>3. CASE Done(t) /\ UNCHANGED <<breaker, left>>
  <2>1. breaker' \in Risk!Breaker /\ LeftKept
    BY <1>3, HappensKept DEF Inv, Shapes
  <2>2. QED
    BY <1>1, <1>2, <1>3, <2>1, NothingFollows, ContinueKept DEF Done
<1>4. CASE ~kill /\ Validate(t, [Do("post") EXCEPT !.kind = "market", !.lots = Abs(Obj(t).lots),
                                                   !.side = IF Obj(t).lots < 0 THEN 1 ELSE -1])
  <2>1. PICK l : l = Obj(t).lots
    OBVIOUS
  <2>2. l \in Int
    BY <1>2, <2>1 DEF Inv, Shapes, SessionShape, Obj
  <2>3. Abs(l) \in Nat
    BY <2>2 DEF Abs
  <2>4. 0 \in extra
    BY DEF Inv, Shapes
  <2>5. PICK order : order = [Do("post") EXCEPT !.kind = "market", !.lots = Abs(l),
                                                !.side = IF l < 0 THEN 1 ELSE -1]
    OBVIOUS
  <2>6. order \in StepShape(extra)
    BY <2>3, <2>4, <2>5 DEF Do, StepShape, StepNames
  <2>7. Validate(t, order)
    BY <1>4, <2>1, <2>5
  <2>8. QED
    BY <1>1, <1>2, <1>4, <2>6, <2>7, Validated
<1>5. QED
  BY <1>3, <1>4 DEF ShutPosition

\* A goroutine at its beginning, on an object that is there.
LEMMA StartOK ==
  ASSUME NEW extra, NEW n \in Nat, kill \in BOOLEAN, NEW live, NEW o \in live, o \in Sessions,
         NEW steps, Runs(steps, extra, kill), NEW owed
  PROVE  ThreadOK(Starting(o, steps), extra, n, live, kill, owed)
<1>1. PICK T : T = Starting(o, steps)
  OBVIOUS
<1>2. /\ <<>> \in Lists(n) /\ steps \in Seq(StepShape(extra))
      /\ \A i \in DOMAIN steps : steps[i].do \in Waiting /\ (kill => steps[i].do \in Quiet)
  BY ListEmpty DEF Runs
<1>3. T = [run |-> steps, obj |-> o, list |-> <<>>, keep |-> <<>>, seen |-> 0,
           killed |-> kill, holds |-> None]
  BY <1>1 DEF Starting, Idle
<1>4. T \in ThreadShape(extra, n) /\ T.run = steps /\ T.obj = o /\ T.killed = kill
  BY <1>2, <1>3 DEF ThreadShape
<1>5. steps # <<>> => steps[1].do \in Waiting
  <2>1. steps # <<>> => 1 \in DOMAIN steps
    BY <1>2, EmptySeq, LenProperties
  <2>2. QED
    BY <1>2, <2>1
<1>6. ThreadOK(T, extra, n, live, kill, owed)
  BY <1>2, <1>4, <1>5 DEF ThreadOK, Waiting
<1>7. QED
  BY <1>1, <1>6

LEMMA OrderTyped ==
  ASSUME NEW extra, Inv(extra)
  PROVE  /\ orders \in Seq(OrderShape(extra)) /\ DOMAIN orders = 1 .. Len(orders)
         /\ \A i \in DOMAIN orders : orders[i] \in OrderShape(extra)
         /\ Len(orders) \in Nat
         /\ \A o \in Sessions : /\ Owed[o] \subseteq DOMAIN orders
                                /\ \A i \in Owed[o] : orders[i].by = o
<1>1. /\ orders \in Seq(OrderShape(extra)) /\ DOMAIN orders = 1 .. Len(orders)
      /\ \A i \in DOMAIN orders : orders[i] \in OrderShape(extra)
      /\ Len(orders) \in Nat
  BY LenProperties, ElementOfSeq DEF Inv, Shapes
<1>2. \A o \in Sessions : Owed[o] \subseteq DOMAIN orders /\ \A i \in Owed[o] : orders[i].by = o
  BY DEF Owed
<1>3. QED
  BY <1>1, <1>2

\* The object's list grows with the orders.
LEMMA ObjectsGrow ==
  ASSUME NEW n \in Nat, NEW m \in Nat, n <= m
  PROVE  SessionShape(n) \subseteq SessionShape(m) /\ Snapshots(n) \subseteq Snapshots(m)
<1>1. Lists(n) \subseteq Lists(m)
  BY ListsGrow
<1>2. QED
  BY <1>1 DEF SessionShape, Snapshots

\* An order the broker accepts: its object owes it, unless somebody is rewriting the list.
Accepted(t, o, n, x) ==
  [side |-> x.side, lots |-> x.lots, shares |-> x.shares, kind |-> x.kind, by |-> o,
   status |-> "working", asked |-> FALSE, extra |-> x.extra, raced |-> Raced(t), late |-> kill /\ thread[t].killed]

LEMMA AcceptedOrders ==
  ASSUME NEW extra, Inv(extra), NEW t \in Threads, At(t, "post"), NEW o, o = thread[t].obj,
         NEW n, n = Len(orders) + 1, orders' = Append(orders, Accepted(t, o, n, Step(t)))
  PROVE  /\ orders' \in Seq(OrderShape(extra)) /\ Len(orders') = n /\ DOMAIN orders' = 1 .. n
         /\ \A i \in DOMAIN orders' : ~orders'[i].late /\ session[orders'[i].by].loop # "none"
         /\ \A i \in DOMAIN orders : i \in 1 .. n /\ orders'[i] = orders[i]
         /\ \A p \in Sessions : Owed'[p] \subseteq Owed[p] \cup {n}
         /\ \A p \in Sessions : (p # o \/ Raced(t) \/ Step(t).kind # "limit") => Owed'[p] \subseteq Owed[p]
         /\ n \in Nat /\ n \notin DOMAIN orders
<1>1. /\ Step(t) \in StepShape(extra) /\ o \in Sessions /\ o \in Live /\ ~thread[t].killed
  BY AtHead DEF Quiet
<1>2. PICK x \in StepShape(extra) : x = Step(t)
  BY <1>1
<1>3. PICK new : new = Accepted(t, o, n, x)
  OBVIOUS
<1>4. /\ new \in OrderShape(extra) /\ ~new.late /\ new.by = o /\ new.raced = Raced(t)
      /\ new.kind = x.kind
  <2>1. Raced(t) \in BOOLEAN
    BY DEF Raced
  <2>2. (kill /\ thread[t].killed) = FALSE
    BY <1>1
  <2>3. /\ x.side \in {-1, 0, 1} /\ x.lots \in Nat /\ x.shares \in Nat
        /\ x.kind \in {"limit", "market"} /\ x.extra \in extra
    BY <1>2 DEF StepShape
  <2>4. PICK raced \in BOOLEAN : raced = Raced(t)
    BY <2>1
  <2>5. new = [side |-> x.side, lots |-> x.lots, shares |-> x.shares, kind |-> x.kind, by |-> o,
               status |-> "working", asked |-> FALSE, extra |-> x.extra, raced |-> raced, late |-> FALSE]
    BY <1>3, <2>2, <2>4 DEF Accepted
  <2>6. QED
    BY <1>1, <2>3, <2>4, <2>5 DEF OrderShape
<1>5. /\ orders \in Seq(OrderShape(extra)) /\ Len(orders) \in Nat /\ DOMAIN orders = 1 .. Len(orders)
      /\ \A p \in Sessions : Owed[p] \subseteq DOMAIN orders
  BY OrderTyped
<1>6. orders' = Append(orders, new)
  BY <1>2, <1>3
<1>7. /\ orders' \in Seq(OrderShape(extra)) /\ Len(orders') = n
      /\ \A i \in 1 .. Len(orders) : orders'[i] = orders[i]
      /\ orders'[n] = new /\ DOMAIN orders' = 1 .. n /\ n \in Nat
  BY <1>4, <1>5, <1>6, AppendProperties, LenProperties
<1>8. /\ \A i \in 1 .. n : i \in DOMAIN orders \/ i = n
      /\ n \notin DOMAIN orders /\ \A i \in DOMAIN orders : i \in 1 .. n
  BY <1>5, <1>7
<1>9. session[o].loop # "none"
  BY <1>1 DEF Inv, SessionsInv, SessionInv, Live
<1>10. \A i \in DOMAIN orders' : ~orders'[i].late /\ session[orders'[i].by].loop # "none"
  BY <1>4, <1>5, <1>7, <1>8, <1>9 DEF Inv, OrdersInv
<1>11. ASSUME NEW p \in Sessions, NEW i \in Owed'[p]
       PROVE  /\ i \in Owed[p] \/ i = n
              /\ i = n => p = o /\ ~Raced(t) /\ Step(t).kind = "limit"
  <2>1. /\ i \in 1 .. n /\ orders'[i].status = "working" /\ orders'[i].kind = "limit"
        /\ ~orders'[i].asked /\ ~orders'[i].raced /\ orders'[i].by = p
    BY <1>7, <1>11 DEF Owed, Working
  <2>2. CASE i = n
    BY <1>2, <1>4, <1>7, <2>1, <2>2
  <2>3. CASE i \in DOMAIN orders
    BY <1>5, <1>7, <1>8, <2>1, <2>3 DEF Owed, Working
  <2>4. QED
    BY <1>8, <2>1, <2>2, <2>3
<1>12. \A p \in Sessions : Owed'[p] \subseteq Owed[p] \cup {n}
  BY <1>11
<1>13. \A p \in Sessions : (p # o \/ Raced(t) \/ Step(t).kind # "limit") => Owed'[p] \subseteq Owed[p]
  BY <1>11
<1>14. QED
  BY <1>5, <1>7, <1>8, <1>10, <1>12, <1>13

\* What the step of a post changes once the broker took the order, as n.
Posted(t, o, n) ==
  /\ n = Len(orders) + 1
  /\ orders' = Append(orders, Accepted(t, o, n, Step(t)))
  /\ Spend("orders")
  /\ UNCHANGED <<current, snap, kill, breaker, pos>>
  /\ \/ /\ Step(t).kind = "limit"
        /\ session' = [session EXCEPT ![o].work = Append(session[o].work, n)]
        /\ thread' = [thread EXCEPT ![t] = Then(t, <<>>), ![Poll(n)] = Starting(o, <<Do("sync")>>)]
     \/ /\ Step(t).kind # "limit"
        /\ session' = [session EXCEPT ![o].lots = 0, ![o].stops = FALSE]
        /\ thread' = [thread EXCEPT ![t] = Then(t, <<>>)]

LEMMA PostAccepted ==
  ASSUME NEW extra, Inv(extra), NEW t \in Threads, At(t, "post"), NEW o, o = thread[t].obj,
         NEW n, Posted(t, o, n)
  PROVE  IInv'
<1>1. /\ orders' \in Seq(OrderShape(extra)) /\ Len(orders') = n /\ DOMAIN orders' = 1 .. n
      /\ \A i \in DOMAIN orders' : ~orders'[i].late /\ session[orders'[i].by].loop # "none"
      /\ \A i \in DOMAIN orders : i \in 1 .. n /\ orders'[i] = orders[i]
      /\ \A p \in Sessions : Owed'[p] \subseteq Owed[p] \cup {n}
      /\ \A p \in Sessions : (p # o \/ Raced(t) \/ Step(t).kind # "limit") => Owed'[p] \subseteq Owed[p]
      /\ n \in Nat /\ n \notin DOMAIN orders
  <2>1. n = Len(orders) + 1 /\ orders' = Append(orders, Accepted(t, o, n, Step(t)))
    BY DEF Posted
  <2>2. QED
    BY <2>1, AcceptedOrders
<1>2. /\ o \in Live /\ o \in Sessions /\ thread[t].run # <<>>
      /\ Len(orders) \in Nat /\ Len(orders) <= n /\ DOMAIN orders = 1 .. Len(orders)
      /\ n = Len(orders) + 1
  <2>1. o \in Live /\ o \in Sessions /\ thread[t].run # <<>>
    BY AtHead
  <2>2. n = Len(orders) + 1
    BY DEF Posted
  <2>3. QED
    BY <2>1, <2>2, OrderTyped
<1>3. /\ left' \in Budget /\ left.orders > 0 /\ left'.orders = left.orders - 1
      /\ n + left'.orders <= MaxOrders /\ n <= MaxOrders
  <2>1. left \in Budget /\ Len(orders) + left.orders <= MaxOrders
    BY DEF Inv, Shapes
  <2>2. left.orders \in Nat
    BY <2>1 DEF Budget
  <2>3. left.orders > 0 /\ left' = [left EXCEPT !.orders = left.orders - 1]
    BY DEF Posted, Spend
  <2>4. left.orders - 1 \in Nat
    BY <2>2, <2>3
  <2>5. left' \in Budget /\ left'.orders = left.orders - 1
    BY <2>1, <2>3, <2>4 DEF Budget
  <2>6. QED
    BY <1>2, <2>1, <2>2, <2>3, <2>5, Bounds
<1>4. session \in [Sessions -> SessionShape(Len(orders))]
  BY DEF Inv, Shapes
<1>5. SessionShape(Len(orders)) \subseteq SessionShape(n) /\ Snapshots(Len(orders)) \subseteq Snapshots(n)
  BY <1>1, <1>2, ObjectsGrow
<1>6. PICK work \in Lists(Len(orders)) : work = session[o].work
  BY <1>2, <1>4 DEF SessionShape
<1>7. Append(work, n) \in Lists(n) /\ Range(Append(work, n)) = Range(work) \cup {n}
  <2>1. Range(work) \subseteq 1 .. Len(orders) /\ work \in Lists(n) /\ n \in 1 .. n
    BY <1>1, <1>2, <1>6, ListRange, ListsGrow
  <2>2. n \notin Range(work)
    BY <1>1, <1>2, <2>1
  <2>3. QED
    BY <1>1, <2>1, <2>2, ListAppend
<1>8. /\ session' \in [Sessions -> SessionShape(n)] /\ SameSessions
      /\ Step(t).kind # "limit" => \A p \in Sessions : session'[p].work = session[p].work
      /\ \A p \in Sessions \ {o} : session'[p].work = session[p].work
      /\ Step(t).kind = "limit" => session'[o].work = Append(work, n)
  <2>1. session \in [Sessions -> SessionShape(n)] /\ session[o] \in SessionShape(n)
    BY <1>2, <1>4, <1>5
  <2>2. PICK S \in SessionShape(n) : S = session[o] /\ S.work = work
    BY <1>6, <2>1
  <2>3. CASE Step(t).kind = "limit"
    <3>1. PICK R : R = [S EXCEPT !.work = Append(work, n)]
      OBVIOUS
    <3>2. /\ R \in SessionShape(n) /\ R.id = S.id /\ R.loop = S.loop /\ R.cancelled = S.cancelled
          /\ R.status = S.status /\ R.over = S.over /\ R.work = Append(work, n)
      BY <1>7, <3>1 DEF SessionShape
    <3>3. session' = [session EXCEPT ![o] = R]
      BY <2>2, <2>3, <3>1 DEF Posted
    <3>4. QED
      BY <1>2, <2>1, <2>2, <2>3, <3>2, <3>3 DEF SameSessions
  <2>4. CASE Step(t).kind # "limit"
    <3>1. PICK R : R = [S EXCEPT !.lots = 0, !.stops = FALSE]
      OBVIOUS
    <3>2. /\ R \in SessionShape(n) /\ R.id = S.id /\ R.loop = S.loop /\ R.cancelled = S.cancelled
          /\ R.status = S.status /\ R.over = S.over /\ R.work = S.work
      <4>1. PICK Q : Q = [S EXCEPT !.lots = 0]
        OBVIOUS
      <4>2. /\ Q \in SessionShape(n) /\ Q.id = S.id /\ Q.loop = S.loop /\ Q.cancelled = S.cancelled
            /\ Q.status = S.status /\ Q.over = S.over /\ Q.work = S.work
        BY <4>1 DEF SessionShape
      <4>3. R = [Q EXCEPT !.stops = FALSE]
        BY <3>1, <4>1 DEF SessionShape
      <4>4. QED
        BY <4>2, <4>3 DEF SessionShape
    <3>3. session' = [session EXCEPT ![o] = R]
      BY <2>2, <2>4, <3>1 DEF Posted
    <3>4. QED
      BY <1>2, <2>1, <2>2, <2>4, <3>2, <3>3 DEF SameSessions
  <2>5. QED
    BY <2>3, <2>4
<1>9. Live' = Live
  BY <1>8, LiveKept
<1>10. SessionsInv'
  <2>1. UNCHANGED <<current, snap>>
    BY DEF Posted
  <2>2. QED
    BY <1>8, <2>1, SessionsKept DEF Inv
<1>11. OrdersInv'
  <2>1. \A i \in DOMAIN orders' : ~orders'[i].late /\ session'[orders'[i].by].loop # "none"
    <3>1. \A i \in DOMAIN orders' : orders'[i].by \in Sessions
      <4>1. PICK q : q = orders'
        OBVIOUS
      <4>2. q \in Seq(OrderShape(extra)) /\ DOMAIN q = 1 .. Len(q)
        BY <1>1, <4>1
      <4>3. \A i \in DOMAIN q : q[i] \in OrderShape(extra)
        BY <4>2, ElementOfSeq
      <4>4. QED
        BY <4>1, <4>3 DEF OrderShape
    <3>2. QED
      BY <1>1, <1>8, <3>1 DEF SameSessions
  <2>2. ASSUME NEW p \in Live
        PROVE  Owed'[p] \subseteq Range(session'[p].work)
    <3>1. p \in Sessions /\ Owed[p] \subseteq Range(session[p].work)
      BY DEF Live, Inv, OrdersInv
    <3>2. CASE p = o /\ Step(t).kind = "limit"
      BY <1>1, <1>6, <1>7, <1>8, <3>1, <3>2
    <3>3. CASE p # o \/ Step(t).kind # "limit"
      BY <1>1, <1>8, <3>1, <3>3
    <3>4. QED
      BY <3>2, <3>3
  <2>3. QED
    BY <1>9, <2>1, <2>2 DEF OrdersInv
<1>12. Shapes(extra)'
  <2>1. /\ 0 \in extra /\ current \in Sessions \cup {None}
        /\ snap \in [Sessions -> Snapshots(Len(orders)) \cup {None}]
        /\ kill \in BOOLEAN /\ breaker \in Risk!Breaker /\ pos \in Int
    BY DEF Inv, Shapes
  <2>2. snap \in [Sessions -> Snapshots(n) \cup {None}]
    BY <1>5, <2>1
  <2>3. QED
    <3>1. UNCHANGED <<current, snap, kill, breaker, pos>>
      BY DEF Posted
    <3>2. QED
      BY <1>1, <1>3, <1>8, <2>1, <2>2, <3>1 DEF Shapes
<1>13. ASSUME NEW u \in Threads
       PROVE  ThreadOK(thread'[u], extra, n, Live, kill, Owed')
  <2>1. PICK owed : owed = Owed'
    OBVIOUS
  <2>2. DOMAIN thread = Threads
    BY DEF Inv, ThreadsInv
  <2>3. kill \in BOOLEAN /\ 0 \in extra
    BY DEF Inv, Shapes
  <2>4. ThreadOK(Starting(o, <<Do("sync")>>), extra, n, Live, kill, owed)
    <3>1. Do("sync") \in StepShape(extra) /\ Do("sync").do = "sync"
      BY <2>3, DoShape DEF StepNames
    <3>2. PICK s \in StepShape(extra) : s = Do("sync") /\ s.do \in Waiting /\ s.do \in Quiet
      BY <3>1 DEF Waiting, Quiet, StepNames
    <3>3. Runs(<<s>>, extra, kill)
      BY <3>2 DEF Runs
    <3>4. QED
      BY <1>1, <1>2, <2>3, <3>2, <3>3, StartOK
  <2>5. ThreadOK(Then(t, <<>>), extra, n, Live, kill, owed)
    <3>1. ThreadOK(Then(t, <<>>), extra, Len(orders), Live, kill, owed)
      BY <1>2, NothingFollows, ThenOK
    <3>2. PICK T : T = Then(t, <<>>)
      OBVIOUS
    <3>3. T.run # <<>> => T.obj \in Live
      BY <3>1, <3>2 DEF ThreadOK
    <3>4. QED
      BY <1>1, <1>2, <3>1, <3>2, <3>3, StaysOK
  <2>6. ASSUME u # t, thread'[u] = thread[u]
        PROVE  ThreadOK(thread[u], extra, n, Live, kill, owed)
    <3>1. PICK T : T = thread[u]
      OBVIOUS
    <3>2. ThreadOK(T, extra, Len(orders), Live, kill, Owed)
      BY <3>1 DEF Inv, ThreadsInv
    <3>3. T.run # <<>> => T.obj \in Live /\ T.obj \in Sessions /\ Head(T.run) = T.run[1]
      <4>1. T.run \in Seq(StepShape(extra))
        BY <3>2 DEF ThreadOK, ThreadShape
      <4>2. T.run # <<>> => Head(T.run) = T.run[1]
        BY <4>1
      <4>3. QED
        BY <3>2, <4>2 DEF ThreadOK, Live
    <3>4. ASSUME T.run # <<>>, T.run[1].do \in {"drop", "query"}
          PROVE  owed[T.obj] \subseteq Owed[T.obj]
      <4>1. T.obj = o => Raced(t)
        BY <2>6, <3>1, <3>3, <3>4 DEF Raced, At
      <4>2. QED
        BY <1>1, <2>1, <3>3, <3>4, <4>1
    <3>5. ThreadOK(T, extra, n, Live, kill, owed)
      BY <1>1, <1>2, <3>2, <3>3, <3>4, StaysOK
    <3>6. QED
      BY <3>1, <3>5
  <2>7. CASE Step(t).kind = "limit"
    <3>1. thread' = [thread EXCEPT ![t] = Then(t, <<>>), ![Poll(n)] = Starting(o, <<Do("sync")>>)]
      BY <2>7 DEF Posted
    <3>2. CASE u = Poll(n)
      BY <2>1, <2>2, <2>4, <3>1, <3>2
    <3>3. CASE u # Poll(n) /\ u = t
      BY <2>1, <2>2, <2>5, <3>1, <3>3
    <3>4. CASE u # Poll(n) /\ u # t
      <4>1. thread'[u] = thread[u]
        BY <2>2, <3>1, <3>4
      <4>2. QED
        BY <2>1, <2>6, <3>4, <4>1
    <3>5. QED
      BY <3>2, <3>3, <3>4
  <2>8. CASE Step(t).kind # "limit"
    <3>1. thread' = [thread EXCEPT ![t] = Then(t, <<>>)]
      BY <2>8 DEF Posted
    <3>2. CASE u = t
      BY <2>1, <2>2, <2>5, <3>1, <3>2
    <3>3. CASE u # t
      <4>1. thread'[u] = thread[u]
        BY <2>2, <3>1, <3>3
      <4>2. QED
        BY <2>1, <2>6, <3>3, <4>1
    <3>4. QED
      BY <3>2, <3>3
  <2>9. QED
    BY <2>7, <2>8
<1>14. ThreadsInv(extra)'
  <2>1. DOMAIN thread' = Threads
    <3>1. DOMAIN thread = Threads
      BY DEF Inv, ThreadsInv
    <3>2. QED
      BY <3>1, Zenon DEF Posted
  <2>2. kill' = kill
    BY DEF Posted
  <2>3. QED
    BY <1>1, <1>9, <1>13, <2>1, <2>2 DEF ThreadsInv
<1>15. QED
  BY <1>10, <1>11, <1>12, <1>14 DEF IInv, Inv

LEMMA PostKept ==
  ASSUME NEW extra, Inv(extra), NEW t \in Threads, Post(t)
  PROVE  IInv'
<1>1. At(t, "post") /\ UNCHANGED <<current, snap, kill, breaker, pos>>
  BY DEF Post
<1>2. thread[t].run # <<>>
  BY <1>1, AtHead
<1>3. CASE Done(t) /\ UNCHANGED <<orders, session>> /\ (Happens("post fails") \/ UNCHANGED left)
  <2>1. breaker' \in Risk!Breaker /\ LeftKept
    BY <1>1, <1>3, HappensKept DEF Inv, Shapes, Events
  <2>2. QED
    BY <1>1, <1>2, <1>3, <2>1, NothingFollows, ContinueKept DEF Done
<1>4. PICK o, n, x : o = thread[t].obj /\ n = Len(orders) + 1 /\ x = Step(t)
  OBVIOUS
<1>5. CASE /\ Spend("orders")
           /\ orders' = Append(orders, Accepted(t, o, n, x))
           /\ \/ /\ x.kind = "limit"
                 /\ session' = [session EXCEPT ![o].work = Append(session[o].work, n)]
                 /\ thread' = [thread EXCEPT ![t] = Then(t, <<>>), ![Poll(n)] = Starting(o, <<Do("sync")>>)]
              \/ /\ x.kind # "limit"
                 /\ session' = [session EXCEPT ![o].lots = 0, ![o].stops = FALSE]
                 /\ Done(t)
  <2>1. Posted(t, o, n)
    BY <1>1, <1>4, <1>5 DEF Posted, Done, Continue
  <2>2. QED
    BY <1>1, <1>4, <2>1, PostAccepted
<1>6. QED
  BY <1>3, <1>4, <1>5 DEF Post, Accepted

-----------------------------------------------------------------------------
(* Goroutines that hold what they read.                                    *)

\* The head gives its place to one step, of whatever name.
Headed(t, x) == <<Do(x)>> \o Tail(thread[t].run)

LEMMA HeadTaken ==
  ASSUME NEW extra, Inv(extra), NEW t \in Threads, thread[t].run # <<>>,
         NEW x \in StepNames, thread[t].killed => x \in Quiet,
         NEW r, r = Headed(t, x)
  PROVE  /\ r \in Seq(StepShape(extra)) /\ r # <<>> /\ r[1].do = x
         /\ \A i \in DOMAIN r : /\ i > 1 => r[i].do \in Waiting
                                /\ thread[t].killed => r[i].do \in Quiet
<1>1. PICK T : T = thread[t]
  OBVIOUS
<1>2. /\ T.run \in Seq(StepShape(extra)) /\ T.run # <<>> /\ 0 \in extra
      /\ \A i \in DOMAIN T.run : /\ i > 1 => T.run[i].do \in Waiting
                                 /\ T.killed => T.run[i].do \in Quiet
  BY <1>1 DEF Inv, Shapes, ThreadsInv, ThreadOK, ThreadShape
<1>3. PICK run, rest : run = T.run /\ rest = Tail(run)
  OBVIOUS
<1>4. /\ rest \in Seq(StepShape(extra)) /\ Len(rest) = Len(run) - 1 /\ Len(run) \in Nat
      /\ \A i \in 1 .. Len(rest) : rest[i] = run[i + 1]
      /\ DOMAIN run = 1 .. Len(run)
  BY <1>2, <1>3, HeadTailProperties, LenProperties
<1>5. PICK s \in StepShape(extra) : s = Do(x) /\ s.do = x
  BY <1>2, DoShape
<1>6. <<s>> \in Seq(StepShape(extra)) /\ Len(<<s>>) = 1 /\ <<s>>[1] = s
  OBVIOUS
<1>7. PICK first : first = <<s>>
  OBVIOUS
<1>8. r = first \o rest
  BY <1>1, <1>3, <1>5, <1>7 DEF Headed
<1>9. /\ r \in Seq(StepShape(extra)) /\ Len(r) = 1 + Len(rest) /\ DOMAIN r = 1 .. Len(r)
      /\ \A i \in 1 .. 1 + Len(rest) : r[i] = IF i <= 1 THEN first[i] ELSE rest[i - 1]
  <2>1. PICK S : S = StepShape(extra)
    OBVIOUS
  <2>2. first \in Seq(S) /\ rest \in Seq(S) /\ Len(first) = 1
    BY <1>4, <1>6, <1>7, <2>1
  <2>3. /\ r \in Seq(S) /\ Len(r) = Len(first) + Len(rest)
        /\ \A i \in 1 .. Len(first) + Len(rest) :
             r[i] = IF i <= Len(first) THEN first[i] ELSE rest[i - Len(first)]
    <3>1. PICK q : q = first \o rest
      OBVIOUS
    <3>2. /\ q \in Seq(S) /\ Len(q) = Len(first) + Len(rest)
          /\ \A i \in 1 .. Len(first) + Len(rest) :
               q[i] = IF i <= Len(first) THEN first[i] ELSE rest[i - Len(first)]
      BY <2>2, <3>1, ConcatProperties
    <3>3. QED
      BY <1>8, <3>1, <3>2
  <2>4. DOMAIN r = 1 .. Len(r)
    BY <2>3, LenProperties
  <2>5. QED
    BY <2>1, <2>2, <2>3, <2>4
<1>10. 1 \in DOMAIN r /\ r[1] = s /\ r # <<>>
  BY <1>4, <1>6, <1>7, <1>9
<1>11. ASSUME NEW i \in DOMAIN r, i > 1
       PROVE  i \in DOMAIN run /\ r[i] = run[i]
  <2>1. i - 1 \in 1 .. Len(rest) /\ (i - 1) + 1 = i /\ ~(i <= 1) /\ i \in 1 .. 1 + Len(rest)
    BY <1>4, <1>9, <1>11
  <2>2. QED
    BY <1>4, <1>9, <2>1
<1>12. \A i \in DOMAIN r : i > 1 \/ i = 1
  BY <1>9
<1>13. QED
  BY <1>1, <1>2, <1>3, <1>5, <1>9, <1>10, <1>11, <1>12

\* The steps of a goroutine that goes on hold nothing.
LEMMA ThenWaits ==
  ASSUME NEW extra, Inv(extra), NEW t \in Threads, thread[t].run # <<>>,
         NEW steps, Follows(t, steps, extra)
  PROVE  Then(t, steps).run # <<>> => Then(t, steps).run[1].do \in Waiting
<1>1. PICK T : T = thread[t]
  OBVIOUS
<1>2. /\ T.run \in Seq(StepShape(extra)) /\ T.run # <<>> /\ T \in ThreadShape(extra, Len(orders))
      /\ \A i \in DOMAIN T.run : i > 1 => T.run[i].do \in Waiting
  BY <1>1 DEF Inv, ThreadsInv, ThreadOK, ThreadShape
<1>3. steps \in Seq(StepShape(extra)) /\ \A i \in DOMAIN steps : steps[i].do \in Waiting
  BY DEF Follows, Runs
<1>4. PICK run, r : run = T.run /\ r = steps \o Tail(run)
  OBVIOUS
<1>5. PICK S : S = StepShape(extra)
  OBVIOUS
<1>6. run \in Seq(S) /\ run # <<>> /\ steps \in Seq(S)
  BY <1>2, <1>3, <1>4, <1>5
<1>7. /\ r \in Seq(S)
      /\ \A i \in DOMAIN r :
           \/ \E j \in DOMAIN steps : r[i] = steps[j]
           \/ i > Len(steps) /\ \E j \in DOMAIN run : j > 1 /\ r[i] = run[j]
  <2>1. /\ steps \o Tail(run) \in Seq(S)
        /\ \A i \in DOMAIN (steps \o Tail(run)) :
             \/ \E j \in DOMAIN steps : (steps \o Tail(run))[i] = steps[j]
             \/ i > Len(steps) /\ \E j \in DOMAIN run : j > 1 /\ (steps \o Tail(run))[i] = run[j]
    BY <1>6, RunThen, SMTT(30)
  <2>2. QED
    BY <1>4, <2>1
<1>8. \A i \in DOMAIN r : r[i].do \in Waiting
  BY <1>2, <1>3, <1>4, <1>7
<1>9. r # <<>> => 1 \in DOMAIN r
  BY <1>7, EmptySeq, LenProperties
<1>10. r # <<>> => Then(t, steps).run = r
  <2>1. r # <<>> => Then(t, steps) = [T EXCEPT !.run = r]
    BY <1>1, <1>4 DEF Then
  <2>2. [T EXCEPT !.run = r].run = r
    BY <1>2 DEF ThreadShape
  <2>3. QED
    BY <2>1, <2>2
<1>11. r = <<>> => Then(t, steps).run = <<>>
  BY <1>1, <1>4 DEF Then, Idle
<1>12. QED
  BY <1>8, <1>9, <1>10, <1>11

\* What a goroutine holds when it goes on does not matter.
LEMMA Emptied ==
  ASSUME NEW extra, Inv(extra), NEW t \in Threads, thread[t].run # <<>>,
         NEW owed, NEW V, V = Then(t, <<>>),
         NEW U \in ThreadShape(extra, Len(orders)),
         U.run = V.run, U.obj = V.obj, U.killed = V.killed
  PROVE  ThreadOK(U, extra, Len(orders), Live, kill, owed)
<1>1. ThreadOK(V, extra, Len(orders), Live, kill, owed)
  <2>1. extra \subseteq extra
    OBVIOUS
  <2>2. QED
    BY <2>1, NothingFollows, ThenOK
<1>2. V.run # <<>> => V.run[1].do \in Waiting
  BY NothingFollows, ThenWaits
<1>3. QED
  BY <1>1, <1>2 DEF ThreadOK, Waiting

LEMMA ThenShape ==
  ASSUME NEW extra, Inv(extra), NEW t \in Threads, thread[t].run # <<>>
  PROVE  Then(t, <<>>) \in ThreadShape(extra, Len(orders))
<1>1. extra \subseteq extra
  OBVIOUS
<1>2. ThreadOK(Then(t, <<>>), extra, Len(orders), Live, kill, Owed)
  BY <1>1, NothingFollows, ThenOK
<1>3. QED
  BY <1>2 DEF ThreadOK

\* cancelAllLiveOrders takes the list as it is: what the object owes is in it.
LEMMA CancelAllKept ==
  ASSUME NEW extra, Inv(extra), NEW t \in Threads, CancelAll(t)
  PROVE  IInv'
<1>1. At(t, "cancel") /\ UNCHANGED <<session, current, snap, kill, breaker, orders, pos, left>>
  BY DEF CancelAll
<1>2. PICK T, n, work : T = thread[t] /\ n = Len(orders) /\ work = Obj(t).work
  OBVIOUS
<1>3. /\ T.run # <<>> /\ breaker' \in Risk!Breaker /\ LeftKept
      /\ T \in ThreadShape(extra, n) /\ T.obj \in Live /\ T.obj \in Sessions
      /\ ThreadOK(T, extra, n, Live, kill, Owed)
  BY <1>1, <1>2, AtHead, HappensKept DEF Inv, Shapes
<1>4. work \in Lists(n) /\ Owed[T.obj] \subseteq Range(work)
  BY <1>2, <1>3 DEF Inv, Shapes, OrdersInv, SessionShape, Obj
<1>5. CASE work = <<>>
  <2>1. Done(t)
    BY <1>2, <1>5 DEF CancelAll
  <2>2. QED
    BY <1>1, <1>2, <1>3, <2>1, NothingFollows, ContinueKept DEF Done
<1>6. CASE work # <<>>
  <2>1. PICK r : r = <<Do("drop")>> \o Tail(T.run)
    OBVIOUS
  <2>2. /\ r \in Seq(StepShape(extra)) /\ r # <<>> /\ r[1].do = "drop"
        /\ \A i \in DOMAIN r : /\ i > 1 => r[i].do \in Waiting
                               /\ T.killed => r[i].do \in Quiet
    <3>1. PICK x : x = "drop"
      OBVIOUS
    <3>2. x \in StepNames /\ x \in Quiet
      BY <3>1 DEF StepNames, Quiet
    <3>3. r = Headed(t, x) /\ thread[t].run # <<>>
      BY <1>2, <1>3, <2>1, <3>1 DEF Headed
    <3>4. /\ r \in Seq(StepShape(extra)) /\ r # <<>> /\ r[1].do = x
          /\ \A i \in DOMAIN r : /\ i > 1 => r[i].do \in Waiting
                                 /\ thread[t].killed => r[i].do \in Quiet
      BY <3>2, <3>3, HeadTaken
    <3>5. QED
      BY <1>2, <3>1, <3>4
  <2>3. PICK Q : Q = [T EXCEPT !.run = r]
    OBVIOUS
  <2>4. Q \in ThreadShape(extra, n) /\ Q.run = r /\ Q.obj = T.obj /\ Q.killed = T.killed
    BY <1>3, <2>2, <2>3 DEF ThreadShape
  <2>5. PICK U : U = [Q EXCEPT !.list = work]
    OBVIOUS
  <2>6. /\ U \in ThreadShape(extra, n) /\ U.run = r /\ U.obj = T.obj /\ U.killed = T.killed
        /\ U.list = work
    BY <1>4, <2>4, <2>5 DEF ThreadShape
  <2>7. ThreadOK(U, extra, n, Live, kill, Owed)
    BY <1>3, <1>4, <1>6, <2>2, <2>6 DEF ThreadOK
  <2>8. thread' = [thread EXCEPT ![t] = U]
    <3>1. thread' = [thread EXCEPT ![t] = [[thread[t] EXCEPT !.run = <<Do("drop")>> \o Tail(thread[t].run)]
                                             EXCEPT !.list = Obj(t).work]]
      BY <1>2, <1>6 DEF CancelAll
    <3>2. QED
      BY <1>2, <2>1, <2>3, <2>5, <3>1
  <2>9. QED
    BY <1>1, <1>2, <1>3, <2>7, <2>8, SteppedAlone
<1>7. QED
  BY <1>5, <1>6

\* syncLiveOrderStates too, and has kept nothing yet.
LEMMA SyncOrdersKept ==
  ASSUME NEW extra, Inv(extra), NEW t \in Threads, SyncOrders(t)
  PROVE  IInv'
<1>1. At(t, "sync") /\ UNCHANGED <<session, current, snap, kill, breaker, orders, pos, left>>
  BY DEF SyncOrders
<1>2. PICK T, n, work : T = thread[t] /\ n = Len(orders) /\ work = Obj(t).work
  OBVIOUS
<1>3. /\ T.run # <<>> /\ breaker' \in Risk!Breaker /\ LeftKept
      /\ T \in ThreadShape(extra, n) /\ T.obj \in Live /\ T.obj \in Sessions
      /\ ThreadOK(T, extra, n, Live, kill, Owed) /\ n \in Nat
  BY <1>1, <1>2, AtHead, HappensKept DEF Inv, Shapes
<1>4. work \in Lists(n) /\ Owed[T.obj] \subseteq Range(work) /\ <<>> \in Lists(n) /\ Range(<<>>) = {}
  BY <1>2, <1>3, ListEmpty DEF Inv, Shapes, OrdersInv, SessionShape, Obj
<1>5. CASE work = <<>>
  <2>1. Done(t)
    BY <1>2, <1>5 DEF SyncOrders
  <2>2. QED
    BY <1>1, <1>2, <1>3, <2>1, NothingFollows, ContinueKept DEF Done
<1>6. CASE work # <<>>
  <2>1. PICK r : r = <<Do("query")>> \o Tail(T.run)
    OBVIOUS
  <2>2. /\ r \in Seq(StepShape(extra)) /\ r # <<>> /\ r[1].do = "query"
        /\ \A i \in DOMAIN r : /\ i > 1 => r[i].do \in Waiting
                               /\ T.killed => r[i].do \in Quiet
    <3>1. PICK x : x = "query"
      OBVIOUS
    <3>2. x \in StepNames /\ x \in Quiet
      BY <3>1 DEF StepNames, Quiet
    <3>3. r = Headed(t, x) /\ thread[t].run # <<>>
      BY <1>2, <1>3, <2>1, <3>1 DEF Headed
    <3>4. /\ r \in Seq(StepShape(extra)) /\ r # <<>> /\ r[1].do = x
          /\ \A i \in DOMAIN r : /\ i > 1 => r[i].do \in Waiting
                                 /\ thread[t].killed => r[i].do \in Quiet
      BY <3>2, <3>3, HeadTaken
    <3>5. QED
      BY <1>2, <3>1, <3>4
  <2>3. PICK Q : Q = [T EXCEPT !.run = r]
    OBVIOUS
  <2>4. Q \in ThreadShape(extra, n) /\ Q.run = r /\ Q.obj = T.obj /\ Q.killed = T.killed
    BY <1>3, <2>2, <2>3 DEF ThreadShape
  <2>5. PICK P : P = [Q EXCEPT !.list = work]
    OBVIOUS
  <2>6. /\ P \in ThreadShape(extra, n) /\ P.run = r /\ P.obj = T.obj /\ P.killed = T.killed
        /\ P.list = work
    BY <1>4, <2>4, <2>5 DEF ThreadShape
  <2>7. PICK U : U = [P EXCEPT !.keep = <<>>]
    OBVIOUS
  <2>8. /\ U \in ThreadShape(extra, n) /\ U.run = r /\ U.obj = T.obj /\ U.killed = T.killed
        /\ U.list = work /\ U.keep = <<>>
    BY <1>4, <2>6, <2>7 DEF ThreadShape
  <2>9. ThreadOK(U, extra, n, Live, kill, Owed)
    <3>1. Range(U.list) \cap Range(U.keep) = {} /\ Owed[U.obj] \subseteq Range(U.list) \cup Range(U.keep)
      BY <1>4, <2>8
    <3>2. QED
      BY <1>3, <1>6, <2>2, <2>8, <3>1 DEF ThreadOK
  <2>10. thread' = [thread EXCEPT ![t] = U]
    <3>1. thread' = [thread EXCEPT ![t] = [[[thread[t] EXCEPT !.run = <<Do("query")>> \o Tail(thread[t].run)]
                                              EXCEPT !.list = Obj(t).work] EXCEPT !.keep = <<>>]]
      BY <1>2, <1>6 DEF SyncOrders
    <3>2. QED
      BY <1>2, <2>1, <2>3, <2>5, <2>7, <3>1
  <2>11. QED
    BY <1>1, <1>2, <1>3, <2>9, <2>10, SteppedAlone
<1>7. QED
  BY <1>5, <1>6

\* A step that changes one object, but not whose it is.
Changed(o, R) == session' = [session EXCEPT ![o] = R]

LEMMA ObjectChanged ==
  ASSUME NEW extra, Inv(extra), NEW o \in Sessions, NEW S, S = session[o],
         NEW R \in SessionShape(Len(orders)), Changed(o, R),
         R.id = S.id, R.loop = S.loop, R.cancelled = S.cancelled, R.status = S.status, R.over = S.over
  PROVE  /\ session' \in [Sessions -> SessionShape(Len(orders))] /\ SameSessions
         /\ session'[o] = R /\ \A p \in Sessions \ {o} : session'[p] = session[p]
<1>1. session \in [Sessions -> SessionShape(Len(orders))]
  BY DEF Inv, Shapes
<1>2. PICK old, new : old = session /\ new = session'
  OBVIOUS
<1>3. /\ new \in [Sessions -> SessionShape(Len(orders))]
      /\ new[o] = R /\ \A p \in Sessions \ {o} : new[p] = old[p]
  BY <1>1, <1>2 DEF Changed
<1>4. SameSessions
  BY <1>2, <1>3 DEF SameSessions
<1>5. QED
  BY <1>2, <1>3, <1>4

\* The broker's account of one order changes; it neither works again nor is forgotten to
\* have been cancelled.
LEMMA OrderChanged ==
  ASSUME NEW extra, Inv(extra), NEW n \in DOMAIN orders, NEW O, O = orders[n],
         NEW N \in OrderShape(extra), orders' = [orders EXCEPT ![n] = N],
         N.late = O.late, N.by = O.by, N.kind = O.kind, N.raced = O.raced,
         N.status = "working" => O.status = "working", O.asked => N.asked
  PROVE  /\ orders' \in Seq(OrderShape(extra)) /\ Len(orders') = Len(orders)
         /\ \A i \in DOMAIN orders : orders'[i].late = orders[i].late /\ orders'[i].by = orders[i].by
         /\ \A p \in Sessions : Owed'[p] \subseteq Owed[p]
         /\ N.asked \/ N.status # "working" => \A p \in Sessions : n \notin Owed'[p]
<1>1. /\ orders \in Seq(OrderShape(extra)) /\ DOMAIN orders = 1 .. Len(orders) /\ Len(orders) \in Nat
  BY OrderTyped
<1>2. PICK q, r, T : q = orders /\ r = orders' /\ T = OrderShape(extra)
  OBVIOUS
<1>3. q \in Seq(T) /\ n \in 1 .. Len(q) /\ N \in T
  BY <1>1, <1>2
<1>4. r = [q EXCEPT ![n] = N]
  BY <1>2
<1>5. r \in Seq(T) /\ Len(r) = Len(q) /\ r[n] = N /\ \A i \in 1 .. Len(q) \ {n} : r[i] = q[i]
  <2>1. DOMAIN q = 1 .. Len(q) /\ Len(q) \in Nat /\ q \in [1 .. Len(q) -> T]
    BY <1>3, LenProperties
  <2>2. r \in [1 .. Len(q) -> T]
    BY <1>3, <1>4, <2>1
  <2>3. r \in Seq(T)
    BY <2>1, <2>2, IsASeq
  <2>4. Len(r) = Len(q)
    BY <2>1, <2>2, <2>3, LenProperties
  <2>5. QED
    BY <1>3, <1>4, <2>1, <2>3, <2>4
<1>6. DOMAIN r = 1 .. Len(q) /\ DOMAIN q = 1 .. Len(q)
  BY <1>3, <1>5, LenProperties
<1>7. \A i \in DOMAIN orders : i = n \/ orders'[i] = orders[i]
  BY <1>2, <1>5, <1>6
<1>8. \A i \in DOMAIN orders : orders'[i].late = orders[i].late /\ orders'[i].by = orders[i].by
  BY <1>2, <1>5, <1>7
<1>9. ASSUME NEW p \in Sessions, NEW i \in Owed'[p]
      PROVE  i \in Owed[p] /\ (i = n => ~N.asked /\ N.status = "working")
  <2>1. /\ i \in DOMAIN r /\ r[i].status = "working" /\ r[i].kind = "limit"
        /\ ~r[i].asked /\ ~r[i].raced /\ r[i].by = p
    BY <1>2, <1>9 DEF Owed, Working
  <2>2. /\ i \in DOMAIN q /\ q[i].status = "working" /\ q[i].kind = "limit"
        /\ ~q[i].asked /\ ~q[i].raced /\ q[i].by = p
    <3>1. CASE i = n
      BY <1>2, <1>5, <1>6, <2>1, <3>1
    <3>2. CASE i # n
      BY <1>5, <1>6, <2>1, <3>2
    <3>3. QED
      BY <3>1, <3>2
  <2>3. i \in Owed[p]
    BY <1>2, <2>2 DEF Owed, Working
  <2>4. QED
    BY <1>5, <2>1, <2>3
<1>10. QED
  BY <1>2, <1>5, <1>8, <1>9

\* CancelOrder changes what it was asked for and, it may be, from working to cancelled.
LEMMA CancelChanges ==
  ASSUME NEW extra, Inv(extra), NEW n \in DOMAIN orders, CancelOrder(n), NEW O, O = orders[n]
  PROVE  \E N \in OrderShape(extra) :
           /\ orders' = [orders EXCEPT ![n] = N]
           /\ N.late = O.late /\ N.by = O.by /\ N.kind = O.kind /\ N.raced = O.raced
           /\ N.side = O.side /\ N.lots = O.lots /\ N.shares = O.shares /\ N.extra = O.extra
           /\ N.status = "working" => O.status = "working"
           /\ N.status = "filled" <=> O.status = "filled"
           /\ N.asked
<1>1. O \in OrderShape(extra)
  BY OrderTyped
<1>2. PICK asked : asked = [O EXCEPT !.asked = TRUE]
  OBVIOUS
<1>3. /\ asked \in OrderShape(extra) /\ asked.late = O.late /\ asked.by = O.by /\ asked.kind = O.kind
      /\ asked.raced = O.raced /\ asked.status = O.status /\ asked.asked
      /\ asked.side = O.side /\ asked.lots = O.lots /\ asked.shares = O.shares
      /\ asked.extra = O.extra
  BY <1>1, <1>2 DEF OrderShape
<1>4. CASE orders' = [orders EXCEPT ![n].asked = TRUE]
  <2>1. orders' = [orders EXCEPT ![n] = asked]
    BY <1>2, <1>4
  <2>2. QED
    BY <1>3, <2>1
<1>5. CASE orders' = [orders EXCEPT ![n].asked = TRUE,
                                    ![n].status = IF @ = "working" THEN "cancelled" ELSE @]
  <2>1. PICK st : st = IF O.status = "working" THEN "cancelled" ELSE O.status
    OBVIOUS
  <2>2. /\ st \in {"working", "filled", "cancelled"} /\ st # "working"
        /\ st = "filled" <=> O.status = "filled"
    BY <1>1, <2>1 DEF OrderShape
  <2>3. PICK N : N = [asked EXCEPT !.status = st]
    OBVIOUS
  <2>4. /\ N \in OrderShape(extra) /\ N.late = O.late /\ N.by = O.by /\ N.kind = O.kind
        /\ N.raced = O.raced /\ N.asked /\ N.status = st
        /\ N.side = O.side /\ N.lots = O.lots /\ N.shares = O.shares /\ N.extra = O.extra
    BY <1>3, <2>2, <2>3 DEF OrderShape
  <2>5. orders' = [orders EXCEPT ![n] = N]
    <3>1. PICK q : q = [orders EXCEPT ![n] = asked]
      OBVIOUS
    <3>2. q[n] = asked
      BY <3>1
    <3>3. [orders EXCEPT ![n].asked = TRUE] = q
      BY <1>2, <3>1
    <3>4. orders' = [q EXCEPT ![n].status = st]
      BY <1>3, <1>5, <2>1, <3>2, <3>3
    <3>5. QED
      BY <2>3, <3>1, <3>2, <3>4
  <2>6. QED
    BY <2>2, <2>4, <2>5
<1>6. QED
  BY <1>4, <1>5 DEF CancelOrder

\* CancelOrder: whatever becomes of it, the order need not be kept track of any more.
LEMMA CancelAsked ==
  ASSUME NEW extra, Inv(extra), NEW n \in DOMAIN orders, CancelOrder(n)
  PROVE  /\ orders' \in Seq(OrderShape(extra)) /\ Len(orders') = Len(orders)
         /\ \A i \in DOMAIN orders : orders'[i].late = orders[i].late /\ orders'[i].by = orders[i].by
         /\ \A p \in Sessions : Owed'[p] \subseteq Owed[p] \ {n}
         /\ LeftKept
<1>1. PICK O \in OrderShape(extra) : O = orders[n]
  BY OrderTyped
<1>2. LeftKept
  BY HappensKept DEF CancelOrder, Events
<1>3. \E N \in OrderShape(extra) :
        /\ orders' = [orders EXCEPT ![n] = N]
        /\ N.late = O.late /\ N.by = O.by /\ N.kind = O.kind /\ N.raced = O.raced
        /\ N.status = "working" => O.status = "working"
        /\ N.asked
  BY <1>1, CancelChanges
<1>4. QED
  BY <1>1, <1>2, <1>3, OrderChanged

LEMMA DropOrderKept ==
  ASSUME NEW extra, Inv(extra), NEW t \in Threads, DropOrder(t)
  PROVE  IInv'
<1>1. At(t, "drop") /\ UNCHANGED <<current, snap, kill, breaker, pos>>
  BY DEF DropOrder
<1>2. PICK T, m, o, owed2, q : /\ T = thread[t] /\ m = Len(orders) /\ o = T.obj
                               /\ owed2 = Owed' /\ q = T.list
  OBVIOUS
<1>3. /\ T.run # <<>> /\ T \in ThreadShape(extra, m) /\ o \in Live /\ o \in Sessions
      /\ ThreadOK(T, extra, m, Live, kill, Owed) /\ m \in Nat /\ T.run[1].do = "drop"
  BY <1>1, <1>2, AtHead
<1>4. q # <<>> /\ Owed[o] \subseteq Range(q) /\ q \in Lists(m)
  BY <1>2, <1>3 DEF ThreadOK, ThreadShape
<1>5. /\ Head(q) \in 1 .. m /\ Tail(q) \in Lists(m) /\ Range(Tail(q)) = Range(q) \ {Head(q)}
      /\ (Len(q) = 1 <=> Tail(q) = <<>>) /\ <<>> \in Lists(m) /\ Range(<<>>) = {}
  BY <1>3, <1>4, ListTail, ListEmpty
<1>6. PICK n : n = Head(q)
  OBVIOUS
<1>7. n \in DOMAIN orders
  BY <1>2, <1>5, <1>6, OrderTyped
<1>8. CancelOrder(n)
  BY <1>2, <1>6 DEF DropOrder
<1>9. /\ orders' \in Seq(OrderShape(extra)) /\ Len(orders') = m
      /\ \A i \in DOMAIN orders : orders'[i].late = orders[i].late /\ orders'[i].by = orders[i].by
      /\ \A p \in Sessions : owed2[p] \subseteq Owed[p] \ {n}
      /\ LeftKept
  BY <1>2, <1>7, <1>8, CancelAsked
<1>10. owed2[o] \subseteq Range(Tail(q))
  BY <1>3, <1>4, <1>5, <1>6, <1>9
<1>11. /\ DOMAIN thread = Threads /\ breaker' \in Risk!Breaker /\ pos' \in Int
       /\ session \in [Sessions -> SessionShape(m)]
       /\ \A p \in Live : p \in Sessions /\ Owed[p] \subseteq Range(session[p].work)
  BY <1>1, <1>2 DEF Inv, ThreadsInv, Shapes, OrdersInv, Live
<1>12. CASE Len(q) = 1
  <2>1. PICK V : V = Then(t, <<>>)
    OBVIOUS
  <2>2. V \in ThreadShape(extra, m)
    BY <1>2, <1>3, <2>1, ThenShape
  <2>3. PICK U : U = [V EXCEPT !.list = <<>>]
    OBVIOUS
  <2>4. U \in ThreadShape(extra, m) /\ U.run = V.run /\ U.obj = V.obj /\ U.killed = V.killed
    BY <1>5, <2>2, <2>3 DEF ThreadShape
  <2>5. ThreadOK(U, extra, m, Live, kill, owed2)
    BY <1>2, <1>3, <2>1, <2>4, Emptied
  <2>6. thread' = [thread EXCEPT ![t] = U]
    BY <1>2, <1>12, <2>1, <2>3 DEF DropOrder
  <2>7. PICK S : S = session[o]
    OBVIOUS
  <2>8. PICK R : R = [S EXCEPT !.work = <<>>]
    OBVIOUS
  <2>9. /\ R \in SessionShape(m) /\ R.id = S.id /\ R.loop = S.loop /\ R.cancelled = S.cancelled
        /\ R.status = S.status /\ R.over = S.over /\ R.work = <<>>
    BY <1>3, <1>5, <1>11, <2>7, <2>8, SMTT(30) DEF SessionShape
  <2>10. Changed(o, R)
    <3>1. session' = [session EXCEPT ![o].work = <<>>]
      BY <1>2, <1>12 DEF DropOrder
    <3>2. QED
      BY <2>7, <2>8, <3>1 DEF Changed
  <2>11. /\ session' \in [Sessions -> SessionShape(m)] /\ SameSessions
         /\ session'[o] = R /\ \A p \in Sessions \ {o} : session'[p] = session[p]
    BY <1>2, <1>3, <2>7, <2>9, <2>10, ObjectChanged
  <2>12. \A p \in Live : owed2[p] \subseteq Range(session'[p].work)
    BY <1>5, <1>9, <1>10, <1>11, <1>12, <2>9, <2>11
  <2>13. thread'[t] = U /\ DOMAIN thread' = Threads /\ \A u \in Threads \ {t} : thread'[u] = thread[u]
    BY <1>11, <2>6
  <2>14. extra \subseteq extra /\ \A p \in Sessions : owed2[p] \subseteq Owed[p]
    BY <1>9
  <2>15. QED
    BY <1>1, <1>2, <1>9, <1>11, <2>5, <2>11, <2>12, <2>13, <2>14, Stepped
<1>13. CASE Len(q) # 1
  <2>1. PICK U : U = [T EXCEPT !.list = Tail(q)]
    OBVIOUS
  <2>2. /\ U \in ThreadShape(extra, m) /\ U.run = T.run /\ U.obj = T.obj /\ U.killed = T.killed
        /\ U.list = Tail(q)
    BY <1>3, <1>5, <2>1 DEF ThreadShape
  <2>3. ThreadOK(U, extra, m, Live, kill, owed2)
    BY <1>2, <1>3, <1>5, <1>10, <1>13, <2>2 DEF ThreadOK
  <2>4. thread' = [thread EXCEPT ![t] = U] /\ session' = session
    <3>1. thread' = [thread EXCEPT ![t].list = Tail(@)] /\ session' = session
      BY <1>2, <1>13 DEF DropOrder
    <3>2. QED
      BY <1>2, <2>1, <3>1
  <2>5. SameSessions /\ session' \in [Sessions -> SessionShape(m)]
    BY <1>11, <2>4 DEF SameSessions
  <2>6. \A p \in Live : owed2[p] \subseteq Range(session'[p].work)
    BY <1>9, <1>11, <2>4
  <2>7. thread'[t] = U /\ DOMAIN thread' = Threads /\ \A u \in Threads \ {t} : thread'[u] = thread[u]
    BY <1>11, <2>4
  <2>8. extra \subseteq extra /\ \A p \in Sessions : owed2[p] \subseteq Owed[p]
    BY <1>9
  <2>9. QED
    BY <1>1, <1>2, <1>9, <1>11, <2>3, <2>5, <2>6, <2>7, <2>8, Stepped
<1>14. QED
  BY <1>12, <1>13

\* A query: the order is answered for, kept, or no longer working, and then not owed.
LEMMA GetOrderStateKept ==
  ASSUME NEW extra, Inv(extra), NEW t \in Threads, GetOrderState(t)
  PROVE  IInv'
<1>1. At(t, "query") /\ UNCHANGED <<current, snap, kill, breaker, orders, pos>>
  BY DEF GetOrderState
<1>2. PICK T, m, o, q, k, S : /\ T = thread[t] /\ m = Len(orders) /\ o = T.obj
                              /\ q = T.list /\ k = T.keep /\ S = session[o]
  OBVIOUS
<1>3. /\ T.run # <<>> /\ T \in ThreadShape(extra, m) /\ o \in Live /\ o \in Sessions
      /\ ThreadOK(T, extra, m, Live, kill, Owed) /\ m \in Nat /\ T.run[1].do = "query"
  BY <1>1, <1>2, AtHead
<1>4. /\ q # <<>> /\ Owed[o] \subseteq Range(q) \cup Range(k) /\ Range(q) \cap Range(k) = {}
      /\ q \in Lists(m) /\ k \in Lists(m)
  BY <1>2, <1>3 DEF ThreadOK, ThreadShape
<1>5. /\ Head(q) \in 1 .. m /\ Tail(q) \in Lists(m) /\ Range(Tail(q)) = Range(q) \ {Head(q)}
      /\ Head(q) \in Range(q)
      /\ (Len(q) = 1 <=> Tail(q) = <<>>) /\ <<>> \in Lists(m) /\ Range(<<>>) = {}
  BY <1>3, <1>4, ListTail, ListEmpty
<1>6. PICK n : n = Head(q)
  OBVIOUS
<1>7. n \in DOMAIN orders /\ n \in 1 .. m
  BY <1>2, <1>5, <1>6, OrderTyped
<1>8. PICK failed \in BOOLEAN, lost \in BOOLEAN :
        LET keep == IF Keeps(n, failed) THEN Append(k, n) ELSE k
            fills == ~failed /\ orders[n].status = "filled"
        IN /\ IF failed THEN Happens("query fails") ELSE IF lost THEN Happens("lost") ELSE UNCHANGED left
           /\ session' = [session EXCEPT ![o] =
                Replaced(IF fills THEN RecordLiveFill(S, orders[n].side, orders[n].lots, lost) ELSE S,
                         Len(q) = 1, keep)]
           /\ thread' = [thread EXCEPT ![t] =
                IF Len(q) = 1 THEN [Then(t, <<>>) EXCEPT !.list = <<>>, !.keep = <<>>]
                ELSE [T EXCEPT !.list = Tail(q), !.keep = keep]]
  BY <1>2, <1>6, ZenonT(40) DEF GetOrderState, Obj
<1>k. PICK k2, fills : /\ k2 = IF Keeps(n, failed) THEN Append(k, n) ELSE k
                       /\ fills = (~failed /\ orders[n].status = "filled")
  OBVIOUS
<1>s. /\ session' = [session EXCEPT ![o] =
           Replaced(IF fills THEN RecordLiveFill(S, orders[n].side, orders[n].lots, lost) ELSE S,
                    Len(q) = 1, k2)]
      /\ thread' = [thread EXCEPT ![t] =
           IF Len(q) = 1 THEN [Then(t, <<>>) EXCEPT !.list = <<>>, !.keep = <<>>]
           ELSE [T EXCEPT !.list = Tail(q), !.keep = k2]]
  BY <1>8, <1>k, Zenon
<1>9. /\ k2 \in Lists(m) /\ Range(k2) \subseteq Range(k) \cup {n} /\ Range(k) \subseteq Range(k2)
      /\ n \in Owed[o] => n \in Range(k2)
  <2>1. n \notin Range(k)
    BY <1>4, <1>5, <1>6
  <2>2. Append(k, n) \in Lists(m) /\ Range(Append(k, n)) = Range(k) \cup {n}
    BY <1>3, <1>4, <1>7, <2>1, ListAppend
  <2>3. n \in Owed[o] => Working(n)
    BY <1>3 DEF Owed
  <2>4. QED
    BY <1>4, <1>k, <2>2, <2>3 DEF Keeps
<1>10. /\ Owed[o] \subseteq Range(Tail(q)) \cup Range(k2)
       /\ Range(Tail(q)) \cap Range(k2) = {}
  BY <1>4, <1>5, <1>6, <1>9
<1>11. /\ DOMAIN thread = Threads /\ breaker' \in Risk!Breaker /\ pos' \in Int
       /\ session \in [Sessions -> SessionShape(m)] /\ S \in SessionShape(m)
       /\ \A p \in Live : p \in Sessions /\ Owed[p] \subseteq Range(session[p].work)
  BY <1>1, <1>2, <1>3 DEF Inv, ThreadsInv, Shapes, OrdersInv, Live
<1>12. LeftKept /\ Owed' = Owed
  <2>1. LeftKept
    BY <1>8, HappensKept DEF Events
  <2>2. QED
    BY <1>1, <2>1 DEF Owed, Working
<1>13. PICK R0 : R0 = IF fills THEN RecordLiveFill(S, orders[n].side, orders[n].lots, lost) ELSE S
  OBVIOUS
<1>14. /\ R0 \in SessionShape(m) /\ R0.id = S.id /\ R0.loop = S.loop /\ R0.cancelled = S.cancelled
       /\ R0.status = S.status /\ R0.over = S.over /\ R0.work = S.work
  <2>1. CASE fills
    <3>1. PICK side, lots : side = orders[n].side /\ lots = orders[n].lots
      OBVIOUS
    <3>2. side \in {-1, 0, 1} /\ lots \in Nat
      BY <1>7, <3>1, OrderTyped DEF OrderShape
    <3>3. S.lots \in Int
      BY <1>11 DEF SessionShape
    <3>4. PICK now \in Int : now = S.lots + side * lots
      <4>1. side * lots \in Int
        BY <3>2
      <4>2. QED
        BY <3>3, <4>1
    <3>5. PICK A : A = [S EXCEPT !.lots = now]
      OBVIOUS
    <3>6. /\ A \in SessionShape(m) /\ A.id = S.id /\ A.loop = S.loop /\ A.cancelled = S.cancelled
          /\ A.status = S.status /\ A.over = S.over /\ A.work = S.work
          /\ A.halted = S.halted /\ A.stops = S.stops /\ A.halted \in BOOLEAN /\ A.stops \in BOOLEAN
      BY <1>11, <3>5 DEF SessionShape
    <3>7. PICK h \in BOOLEAN, st \in BOOLEAN : h = (S.halted \/ lost) /\ st = (S.stops \/ now = 0)
      BY <3>6
    <3>8. PICK B : B = [A EXCEPT !.halted = h]
      OBVIOUS
    <3>9. /\ B \in SessionShape(m) /\ B.id = S.id /\ B.loop = S.loop /\ B.cancelled = S.cancelled
          /\ B.status = S.status /\ B.over = S.over /\ B.work = S.work
      BY <3>6, <3>8 DEF SessionShape
    <3>10. R0 = [[[S EXCEPT !.lots = now] EXCEPT !.halted = h] EXCEPT !.stops = st]
      BY <1>13, <2>1, <3>1, <3>4, <3>7, Zenon DEF RecordLiveFill
    <3>11. R0 = [B EXCEPT !.stops = st]
      BY <3>5, <3>8, <3>10
    <3>12. QED
      BY <3>9, <3>11 DEF SessionShape
  <2>2. CASE ~fills
    BY <1>11, <1>13, <2>2
  <2>3. QED
    BY <2>1, <2>2
<1>15. CASE Len(q) = 1
  <2>1. PICK V : V = Then(t, <<>>)
    OBVIOUS
  <2>2. V \in ThreadShape(extra, m)
    BY <1>2, <1>3, <2>1, ThenShape
  <2>3. PICK W : W = [V EXCEPT !.list = <<>>]
    OBVIOUS
  <2>4. W \in ThreadShape(extra, m) /\ W.run = V.run /\ W.obj = V.obj /\ W.killed = V.killed
    BY <1>5, <2>2, <2>3 DEF ThreadShape
  <2>5. PICK U : U = [W EXCEPT !.keep = <<>>]
    OBVIOUS
  <2>6. U \in ThreadShape(extra, m) /\ U.run = V.run /\ U.obj = V.obj /\ U.killed = V.killed
    BY <1>5, <2>4, <2>5 DEF ThreadShape
  <2>7. ThreadOK(U, extra, m, Live, kill, Owed')
    <3>1. PICK owed2 : owed2 = Owed'
      OBVIOUS
    <3>2. ThreadOK(U, extra, m, Live, kill, owed2)
      BY <1>2, <1>3, <2>1, <2>6, Emptied
    <3>3. QED
      BY <3>1, <3>2
  <2>8. thread' = [thread EXCEPT ![t] = U]
    BY <1>s, <1>15, <2>1, <2>3, <2>5
  <2>9. PICK R : R = [R0 EXCEPT !.work = k2]
    OBVIOUS
  <2>10. /\ R \in SessionShape(m) /\ R.id = S.id /\ R.loop = S.loop /\ R.cancelled = S.cancelled
         /\ R.status = S.status /\ R.over = S.over /\ R.work = k2
    BY <1>9, <1>14, <2>9 DEF SessionShape
  <2>11. Changed(o, R)
    <3>1. PICK last : last = (Len(q) = 1)
      OBVIOUS
    <3>2. last /\ session' = [session EXCEPT ![o] = Replaced(R0, last, k2)]
      BY <1>s, <1>13, <1>15, <3>1
    <3>3. Replaced(R0, last, k2) = R
      BY <2>9, <3>2 DEF Replaced
    <3>4. QED
      BY <3>2, <3>3 DEF Changed
  <2>12. /\ session' \in [Sessions -> SessionShape(m)] /\ SameSessions
         /\ session'[o] = R /\ \A p \in Sessions \ {o} : session'[p] = session[p]
    BY <1>2, <1>3, <2>10, <2>11, ObjectChanged
  <2>13. \A p \in Live : Owed'[p] \subseteq Range(session'[p].work)
    BY <1>5, <1>10, <1>11, <1>12, <1>15, <2>10, <2>12
  <2>14. thread'[t] = U /\ DOMAIN thread' = Threads /\ \A u \in Threads \ {t} : thread'[u] = thread[u]
    BY <1>11, <2>8
  <2>15. QED
    BY <1>1, <1>2, <1>11, <1>12, <2>7, <2>12, <2>13, <2>14, OrderTyped, Stepped
<1>16. CASE Len(q) # 1
  <2>1. PICK W : W = [T EXCEPT !.list = Tail(q)]
    OBVIOUS
  <2>2. /\ W \in ThreadShape(extra, m) /\ W.run = T.run /\ W.obj = T.obj /\ W.killed = T.killed
        /\ W.list = Tail(q)
    BY <1>3, <1>5, <2>1 DEF ThreadShape
  <2>3. PICK U : U = [W EXCEPT !.keep = k2]
    OBVIOUS
  <2>4. /\ U \in ThreadShape(extra, m) /\ U.run = T.run /\ U.obj = T.obj /\ U.killed = T.killed
        /\ U.list = Tail(q) /\ U.keep = k2
    BY <1>9, <2>2, <2>3 DEF ThreadShape
  <2>5. ThreadOK(U, extra, m, Live, kill, Owed')
    BY <1>2, <1>3, <1>5, <1>10, <1>12, <1>16, <2>4 DEF ThreadOK
  <2>6. thread' = [thread EXCEPT ![t] = U]
    BY <1>s, <1>16, <2>1, <2>3
  <2>7. Changed(o, R0)
    <3>1. PICK last : last = (Len(q) = 1)
      OBVIOUS
    <3>2. ~last /\ session' = [session EXCEPT ![o] = Replaced(R0, last, k2)]
      BY <1>s, <1>13, <1>16, <3>1
    <3>3. Replaced(R0, last, k2) = R0
      BY <3>2 DEF Replaced
    <3>4. QED
      BY <3>2, <3>3 DEF Changed
  <2>8. /\ session' \in [Sessions -> SessionShape(m)] /\ SameSessions
        /\ session'[o] = R0 /\ \A p \in Sessions \ {o} : session'[p] = session[p]
    BY <1>2, <1>3, <1>14, <2>7, ObjectChanged
  <2>9. \A p \in Live : Owed'[p] \subseteq Range(session'[p].work)
    BY <1>2, <1>11, <1>12, <1>14, <2>8
  <2>10. thread'[t] = U /\ DOMAIN thread' = Threads /\ \A u \in Threads \ {t} : thread'[u] = thread[u]
    BY <1>11, <2>6
  <2>11. QED
    BY <1>1, <1>2, <1>11, <1>12, <2>5, <2>8, <2>9, <2>10, OrderTyped, Stepped
<1>17. QED
  BY <1>15, <1>16

\* A goroutine goes on, and one object changes that keeps its list.
LEMMA ObjectSteppedOn ==
  ASSUME NEW extra, Inv(extra), NEW t \in Threads, NEW U,
         thread'[t] = U, DOMAIN thread' = Threads, \A u \in Threads \ {t} : thread'[u] = thread[u],
         ThreadOK(U, extra, Len(orders), Live, kill, Owed),
         NEW o \in Sessions, NEW S, S = session[o],
         NEW R \in SessionShape(Len(orders)), Changed(o, R), R.work = S.work,
         R.id = S.id, R.loop = S.loop, R.cancelled = S.cancelled, R.status = S.status, R.over = S.over,
         UNCHANGED <<current, snap, kill, breaker, orders, pos>>, LeftKept
  PROVE  IInv'
<1>1. /\ session' \in [Sessions -> SessionShape(Len(orders))] /\ SameSessions
      /\ session'[o] = R /\ \A p \in Sessions \ {o} : session'[p] = session[p]
  BY ObjectChanged
<1>2. /\ breaker' \in Risk!Breaker /\ pos' \in Int
      /\ \A p \in Live : p \in Sessions /\ Owed[p] \subseteq Range(session[p].work)
  BY DEF Inv, Shapes, OrdersInv, Live
<1>3. Owed' = Owed
  BY DEF Owed, Working
<1>4. \A p \in Live : Owed'[p] \subseteq Range(session'[p].work)
  BY <1>1, <1>2, <1>3
<1>5. ThreadOK(thread'[t], extra, Len(orders), Live, kill, Owed')
  BY <1>3
<1>6. QED
  BY <1>1, <1>2, <1>3, <1>4, <1>5, OrderTyped, Stepped

LEMMA ObjectStepped ==
  ASSUME NEW extra, Inv(extra), NEW t \in Threads, NEW U,
         thread' = [thread EXCEPT ![t] = U], ThreadOK(U, extra, Len(orders), Live, kill, Owed),
         NEW o \in Sessions, NEW S, S = session[o],
         NEW R \in SessionShape(Len(orders)), Changed(o, R), R.work = S.work,
         R.id = S.id, R.loop = S.loop, R.cancelled = S.cancelled, R.status = S.status, R.over = S.over,
         UNCHANGED <<current, snap, kill, breaker, orders, pos>>, LeftKept
  PROVE  IInv'
<1>1. thread'[t] = U /\ DOMAIN thread' = Threads /\ \A u \in Threads \ {t} : thread'[u] = thread[u]
  BY DEF Inv, ThreadsInv
<1>2. QED
  BY <1>1, ObjectSteppedOn

LEMMA ReadPositionKept ==
  ASSUME NEW extra, Inv(extra), NEW t \in Threads, ReadPosition(t)
  PROVE  IInv'
<1>1. At(t, "truth") /\ UNCHANGED <<session, current, snap, kill, breaker, orders, pos>>
  BY DEF ReadPosition
<1>2. PICK T, n : T = thread[t] /\ n = Len(orders)
  OBVIOUS
<1>3. /\ T.run # <<>> /\ breaker' \in Risk!Breaker /\ pos \in Int
      /\ T \in ThreadShape(extra, n) /\ ThreadOK(T, extra, n, Live, kill, Owed)
  BY <1>1, <1>2, AtHead DEF Inv, Shapes
<1>4. LeftKept
  BY HappensKept DEF ReadPosition, Events
<1>5. CASE Done(t)
  BY <1>1, <1>2, <1>3, <1>4, <1>5, NothingFollows, ContinueKept DEF Done
<1>6. CASE thread' = [thread EXCEPT ![t].run = <<Do("adopt")>> \o Tail(@), ![t].seen = pos]
  <2>1. PICK x : x = "adopt"
    OBVIOUS
  <2>2. x \in StepNames /\ x \in Quiet
    BY <2>1 DEF StepNames, Quiet
  <2>3. PICK r : r = Headed(t, x)
    OBVIOUS
  <2>4. /\ r \in Seq(StepShape(extra)) /\ r # <<>> /\ r[1].do = x
        /\ \A i \in DOMAIN r : /\ i > 1 => r[i].do \in Waiting
                               /\ T.killed => r[i].do \in Quiet
    BY <1>2, <1>3, <2>2, <2>3, HeadTaken
  <2>5. PICK Q : Q = [T EXCEPT !.run = r]
    OBVIOUS
  <2>6. Q \in ThreadShape(extra, n) /\ Q.run = r /\ Q.obj = T.obj /\ Q.killed = T.killed
    BY <1>3, <2>4, <2>5 DEF ThreadShape
  <2>7. PICK U : U = [Q EXCEPT !.seen = pos]
    OBVIOUS
  <2>8. U \in ThreadShape(extra, n) /\ U.run = r /\ U.obj = T.obj /\ U.killed = T.killed
    BY <1>3, <2>6, <2>7 DEF ThreadShape
  <2>9. ThreadOK(U, extra, n, Live, kill, Owed)
    BY <1>3, <2>1, <2>4, <2>8 DEF ThreadOK
  <2>10. thread' = [thread EXCEPT ![t] = U]
    <3>1. thread' = [thread EXCEPT ![t] = [[thread[t] EXCEPT !.run = <<Do("adopt")>> \o Tail(thread[t].run)]
                                             EXCEPT !.seen = pos]]
      BY <1>6
    <3>2. QED
      BY <1>2, <2>1, <2>3, <2>5, <2>7, <3>1 DEF Headed
  <2>11. QED
    BY <1>1, <1>2, <1>3, <1>4, <2>9, <2>10, SteppedAlone
<1>7. QED
  BY <1>5, <1>6 DEF ReadPosition

LEMMA AdoptPositionKept ==
  ASSUME NEW extra, Inv(extra), NEW t \in Threads, AdoptPosition(t)
  PROVE  IInv'
<1>1. At(t, "adopt") /\ UNCHANGED <<current, snap, kill, breaker, orders, pos, left>>
  BY DEF AdoptPosition
<1>2. PICK T, n, o, S : T = thread[t] /\ n = Len(orders) /\ o = T.obj /\ S = session[o]
  OBVIOUS
<1>3. /\ T.run # <<>> /\ T \in ThreadShape(extra, n) /\ o \in Sessions /\ LeftKept
      /\ S \in SessionShape(n)
  BY <1>1, <1>2, AtHead, HappensKept DEF Inv, Shapes
<1>4. PICK seen \in Int : seen = T.seen
  BY <1>3 DEF ThreadShape
<1>5. PICK R : R = Adopt(S, seen)
  OBVIOUS
<1>6. /\ R \in SessionShape(n) /\ R.id = S.id /\ R.loop = S.loop /\ R.cancelled = S.cancelled
      /\ R.status = S.status /\ R.over = S.over /\ R.work = S.work
  <2>1. CASE seen = 0 /\ S.lots # 0
    <3>1. PICK Q : Q = [S EXCEPT !.lots = 0]
      OBVIOUS
    <3>2. /\ Q \in SessionShape(n) /\ Q.id = S.id /\ Q.loop = S.loop /\ Q.cancelled = S.cancelled
          /\ Q.status = S.status /\ Q.over = S.over /\ Q.work = S.work
      BY <1>3, <3>1 DEF SessionShape
    <3>3. R = [[S EXCEPT !.lots = 0] EXCEPT !.stops = FALSE]
      BY <1>5, <2>1, Zenon DEF Adopt
    <3>4. QED
      BY <3>1, <3>2, <3>3 DEF SessionShape
  <2>2. CASE ~(seen = 0 /\ S.lots # 0) /\ seen # 0 /\ S.lots = 0
    <3>1. R = [S EXCEPT !.lots = seen]
      BY <1>5, <2>2, Zenon DEF Adopt
    <3>2. QED
      BY <1>3, <1>4, <3>1 DEF SessionShape
  <2>3. CASE ~(seen = 0 /\ S.lots # 0) /\ ~(seen # 0 /\ S.lots = 0)
    <3>1. R = S
      BY <1>5, <2>3, Zenon DEF Adopt
    <3>2. QED
      BY <1>3, <3>1
  <2>4. QED
    BY <2>1, <2>2, <2>3
<1>7. Changed(o, R)
  <2>1. session' = [session EXCEPT ![o] = Adopt(session[o], thread[t].seen)]
    BY <1>2 DEF AdoptPosition
  <2>2. QED
    BY <1>2, <1>4, <1>5, <2>1 DEF Changed
<1>8. PICK V : V = Then(t, <<>>)
  OBVIOUS
<1>9. V \in ThreadShape(extra, n)
  BY <1>2, <1>3, <1>8, ThenShape
<1>10. PICK U : U = [V EXCEPT !.seen = 0]
  OBVIOUS
<1>11. U \in ThreadShape(extra, n) /\ U.run = V.run /\ U.obj = V.obj /\ U.killed = V.killed
  BY <1>9, <1>10 DEF ThreadShape
<1>12. ThreadOK(U, extra, n, Live, kill, Owed)
  BY <1>2, <1>3, <1>8, <1>11, Emptied
<1>13. thread' = [thread EXCEPT ![t] = U]
  BY <1>8, <1>10 DEF AdoptPosition
<1>14. QED
  BY <1>1, <1>2, <1>3, <1>6, <1>7, <1>12, <1>13, ObjectStepped

-----------------------------------------------------------------------------
(* A tick.                                                                 *)

\* A goroutine that began while the kill switch was on comes to nothing but a
\* cancellation here: the switch is on still.
\* Past the gates, what is extra of the signal.
LEMMA GatesFollow ==
  ASSUME NEW extra, Inv(extra), NEW t \in Threads, ~thread[t].killed,
         NEW a \in {<<>>, <<Do("cancel")>>, <<Do("close")>>}
  PROVE  Follows(t, a \o <<Do("sync"), Do("manage")>>, extra)
<1>1. Follows(t, a, extra)
  <2>1. Follows(t, <<>>, extra)
    BY NothingFollows
  <2>2. Follows(t, <<Do("cancel")>>, extra)
    BY FollowsQuiet DEF Waiting, Quiet, StepNames
  <2>3. Follows(t, <<Do("close")>>, extra)
    BY FollowsQuiet DEF Waiting, Quiet, StepNames
  <2>4. QED
    BY <2>1, <2>2, <2>3
<1>2. PICK y, z : y = Do("sync") /\ z = Do("manage")
  OBVIOUS
<1>3. y \in StepShape(extra) /\ y.do = "sync" /\ z \in StepShape(extra) /\ z.do = "manage"
  <2>1. 0 \in extra
    BY DEF Inv, Shapes
  <2>2. QED
    BY <1>2, <2>1, DoShape DEF StepNames
<1>4. y.do \in Waiting /\ z.do \in Waiting
  BY <1>3 DEF Waiting, StepNames
<1>5. Follows(t, <<y, z>>, extra)
  BY <1>3, <1>4, FollowsTwo
<1>6. PICK b : b = <<y, z>>
  OBVIOUS
<1>7. Runs(a \o b, extra, thread[t].killed)
  BY <1>1, <1>5, <1>6, RunsBoth DEF Follows
<1>8. QED
  BY <1>2, <1>6, <1>7 DEF Follows

LEMMA GatesKept ==
  ASSUME NEW extra, Inv(extra), NEW t \in Threads, Gates(t)
  PROVE  IInv'
<1>1. At(t, "gates") /\ UNCHANGED <<current, snap, kill, breaker, orders, pos, left>>
  BY DEF Gates
<1>2. PICK T, n, o, S : T = thread[t] /\ n = Len(orders) /\ o = T.obj /\ S = session[o]
  OBVIOUS
<1>3. /\ T.run # <<>> /\ T \in ThreadShape(extra, n) /\ o \in Sessions /\ LeftKept
      /\ S \in SessionShape(n) /\ (T.killed => kill) /\ breaker' \in Risk!Breaker /\ 0 \in extra
  BY <1>1, <1>2, AtHead, HappensKept DEF Inv, Shapes
<1>4. CASE /\ TradingStops(S) /\ session' = [session EXCEPT ![o].halted = TRUE]
           /\ Continue(t, <<Do("cancel")>>)
  <2>1. PICK R : R = [S EXCEPT !.halted = TRUE]
    OBVIOUS
  <2>2. /\ R \in SessionShape(n) /\ R.id = S.id /\ R.loop = S.loop /\ R.cancelled = S.cancelled
        /\ R.status = S.status /\ R.over = S.over /\ R.work = S.work
    BY <1>3, <2>1 DEF SessionShape
  <2>3. Changed(o, R) /\ Continue(t, <<Do("cancel")>>)
    BY <1>2, <1>4, <2>1 DEF Changed
  <2>4. Follows(t, <<Do("cancel")>>, extra)
    BY FollowsQuiet DEF Waiting, Quiet, StepNames
  <2>5. PICK steps, U : steps = <<Do("cancel")>> /\ U = Then(t, steps)
    OBVIOUS
  <2>6. ThreadOK(U, extra, n, Live, kill, Owed)
    BY <1>2, <1>3, <2>4, <2>5, ThenOK
  <2>7. thread' = [thread EXCEPT ![t] = U]
    BY <2>3, <2>5 DEF Continue
  <2>8. QED
    BY <1>1, <1>2, <1>3, <2>2, <2>3, <2>6, <2>7, ObjectStepped
<1>5. CASE Done(t) /\ UNCHANGED session
  BY <1>1, <1>2, <1>3, <1>5, NothingFollows, ContinueKept DEF Done
<1>6. ASSUME ~TradingStops(S), UNCHANGED session, NEW a \in {<<>>, <<Do("cancel")>>, <<Do("close")>>},
             Continue(t, a \o <<Do("sync"), Do("manage")>>)
      PROVE  IInv'
  <2>1. ~T.killed
    BY <1>3, <1>6 DEF TradingStops
  <2>2. PICK c : c = a \o <<Do("sync"), Do("manage")>>
    OBVIOUS
  <2>3. Follows(t, c, extra) /\ Continue(t, c)
    BY <1>2, <2>1, <1>6, <2>2, GatesFollow
  <2>4. QED
    BY <1>1, <1>2, <1>3, <1>6, <2>3, ContinueKept
<1>7. QED
  BY <1>2, <1>4, <1>5, <1>6 DEF Gates, Obj

LEMMA RunsLess ==
  ASSUME NEW steps, NEW extra, NEW q1, Runs(steps, extra, q1), NEW q2, q2 => q1
  PROVE  Runs(steps, extra, q2)
BY DEF Runs

\* Orders are placed only while the kill switch is off.
LEMMA StartLiveRuns ==
  ASSUME NEW extra, Inv(extra), NEW S, NEW e \in Entries
  PROVE  Runs(StartLive(S, e), extra, kill)
<1>1. 0 \in extra /\ left.sides \subseteq {1, -1} /\ kill \in BOOLEAN
  BY DEF Inv, Shapes, Budget
<1>2. Runs(<<>>, extra, kill) /\ Runs(<<>>, extra, FALSE)
  BY DEF Runs
<1>3. CASE TradingStops(S)
  BY <1>2, <1>3 DEF StartLive
<1>4. CASE ~TradingStops(S)
  <2>1. ~kill
    BY <1>4 DEF TradingStops
  <2>2. ASSUME NEW a \in StepShape(extra), a.do \in Waiting
        PROVE  Runs(<<a>>, extra, FALSE)
    BY <2>2 DEF Runs
  <2>3. ASSUME NEW a \in StepShape(extra), a.do \in Waiting, NEW b \in StepShape(extra), b.do \in Waiting
        PROVE  Runs(<<a, b>>, extra, FALSE)
    BY <2>3 DEF Runs
  <2>4. \A side \in {1, -1} : Place(side) \in StepShape(extra) /\ Place(side).do \in Waiting
    BY <1>1, PlaceShape DEF Waiting, StepNames
  <2>5. Runs(e, extra, FALSE)
    <3>1. CASE e = <<>>
      BY <1>2, <3>1
    <3>2. ASSUME NEW side \in left.sides, e = <<Place(side)>>
          PROVE  Runs(e, extra, FALSE)
      <4>1. PICK a : a = Place(side)
        OBVIOUS
      <4>2. Runs(<<a>>, extra, FALSE)
        BY <1>1, <2>2, <2>4, <4>1
      <4>3. QED
        BY <3>2, <4>1, <4>2
    <3>3. CASE e = <<Place(1), Place(-1)>>
      <4>1. PICK a, b : a = Place(1) /\ b = Place(-1)
        OBVIOUS
      <4>2. Runs(<<a, b>>, extra, FALSE)
        BY <2>3, <2>4, <4>1
      <4>3. QED
        BY <3>3, <4>1, <4>2
    <3>4. QED
      BY <3>1, <3>2, <3>3 DEF Entries
  <2>6. Runs(<<Do("cancel")>>, extra, FALSE)
    <3>1. Do("cancel") \in StepShape(extra) /\ Do("cancel").do = "cancel"
      BY <1>1, DoShape DEF StepNames
    <3>2. PICK a : a = Do("cancel")
      OBVIOUS
    <3>3. Runs(<<a>>, extra, FALSE)
      BY <2>2, <3>1, <3>2 DEF Waiting, StepNames
    <3>4. QED
      BY <3>2, <3>3
  <2>7. PICK p : p = IF S.work # <<>> THEN <<Do("cancel")>> ELSE <<>>
    OBVIOUS
  <2>8. Runs(p, extra, FALSE)
    BY <1>2, <2>6, <2>7
  <2>9. Runs(p \o e, extra, FALSE)
    BY <2>5, <2>8, RunsBoth
  <2>10. StartLive(S, e) = p \o e
    BY <1>4, <2>7 DEF StartLive
  <2>11. kill = FALSE
    BY <1>1, <2>1
  <2>12. QED
    BY <2>9, <2>10, <2>11
<1>5. QED
  BY <1>3, <1>4

LEMMA OpeningsFollow ==
  ASSUME NEW extra, Inv(extra), NEW t \in Threads, NEW S, NEW steps \in Openings(S)
  PROVE  Follows(t, steps, extra)
<1>1. thread[t].killed => kill
  BY DEF Inv, ThreadsInv, ThreadOK
<1>2. CASE steps = <<>>
  BY <1>2, NothingFollows
<1>3. ASSUME NEW e \in Entries, steps = StartLive(S, e)
      PROVE  Follows(t, steps, extra)
  <2>1. Runs(steps, extra, kill)
    BY <1>3, StartLiveRuns
  <2>2. QED
    BY <1>1, <2>1, RunsLess DEF Follows
<1>4. QED
  BY <1>2, <1>3 DEF Openings

LEMMA EnterKept ==
  ASSUME NEW extra, Inv(extra), NEW t \in Threads, Enter(t)
  PROVE  IInv'
<1>1. At(t, "enter") /\ UNCHANGED <<session, current, snap, kill, breaker, orders, pos, left>>
  BY DEF Enter
<1>2. thread[t].run # <<>> /\ breaker' \in Risk!Breaker /\ LeftKept
  BY <1>1, AtHead, HappensKept DEF Inv, Shapes
<1>3. PICK S : S = Obj(t)
  OBVIOUS
<1>4. PICK steps \in Openings(S) : Continue(t, steps)
  BY <1>3 DEF Enter
<1>5. QED
  BY <1>1, <1>2, <1>4, OpeningsFollow, ContinueKept

\* The first of a set of places is one of them.
LEMMA FirstIs ==
  ASSUME NEW I \in SUBSET Nat, I # {}
  PROVE  First(I) \in I
<1>1. PICK x \in I : \A y \in I : ~(<<y, x>> \in OpToRel(<, Nat))
  BY NatLessThanWellFounded, WFMin
<1>2. \A y \in I : x <= y
  <2>1. ASSUME NEW y \in I, ~(x <= y)
        PROVE  FALSE
    <3>1. y < x /\ x \in Nat /\ y \in Nat
      BY <2>1
    <3>2. <<y, x>> \in OpToRel(<, Nat)
      BY <3>1 DEF OpToRel
    <3>3. QED
      BY <1>1, <3>2
  <2>2. QED
    BY <2>1
<1>3. QED
  BY <1>2 DEF First

\* A replacement asks for the old order's cancellation before it forgets the order.
LEMMA ReplaceKept ==
  ASSUME NEW extra, Inv(extra), NEW t \in Threads, NEW U,
         thread' = [thread EXCEPT ![t] = U],
         \A owed : ThreadOK(U, extra, Len(orders), Live, kill, owed),
         NEW o \in Sessions, NEW S, S = session[o], NEW side, NEW i, i = First(SameSide(S, side)),
         SameSide(S, side) # {}, CancelOrder(S.work[i]),
         session' = [session EXCEPT ![o].work = Without(@, i)],
         UNCHANGED <<current, snap, kill, breaker, pos>>
  PROVE  IInv'
<1>1. PICK m, work : m = Len(orders) /\ work = S.work
  OBVIOUS
<1>2. /\ S \in SessionShape(m) /\ work \in Lists(m) /\ m \in Nat
      /\ DOMAIN thread = Threads /\ breaker' \in Risk!Breaker /\ pos' \in Int
      /\ \A p \in Live : p \in Sessions /\ Owed[p] \subseteq Range(session[p].work)
  <2>1. S \in SessionShape(m)
    BY <1>1 DEF Inv, Shapes
  <2>2. work \in Lists(m)
    BY <1>1, <2>1 DEF SessionShape
  <2>3. QED
    BY <1>1, <2>1, <2>2, OrderTyped DEF Inv, ThreadsInv, Shapes, OrdersInv, Live
<1>3. i \in DOMAIN work
  <2>1. DOMAIN work \subseteq Nat
    BY <1>2, LenProperties DEF Lists
  <2>2. SameSide(S, side) \subseteq DOMAIN work
    BY <1>1 DEF SameSide
  <2>3. i \in SameSide(S, side)
    BY <2>1, <2>2, FirstIs
  <2>4. QED
    BY <2>2, <2>3
<1>4. PICK n : n = work[i]
  OBVIOUS
<1>5. PICK w : w = Without(work, i)
  OBVIOUS
<1>6. w \in Lists(m) /\ Range(w) = Range(work) \ {n}
  BY <1>2, <1>3, <1>4, <1>5, ListWithout
<1>7. n \in DOMAIN orders
  <2>1. n \in 1 .. m
    BY <1>2, <1>3, <1>4, LenProperties DEF Lists
  <2>2. QED
    BY <1>1, <2>1, OrderTyped
<1>8. CancelOrder(n)
  BY <1>1, <1>4
<1>9. /\ orders' \in Seq(OrderShape(extra)) /\ Len(orders') = m
      /\ \A j \in DOMAIN orders : orders'[j].late = orders[j].late /\ orders'[j].by = orders[j].by
      /\ \A p \in Sessions : Owed'[p] \subseteq Owed[p] \ {n}
      /\ LeftKept
  BY <1>1, <1>7, <1>8, CancelAsked
<1>10. PICK R : R = [S EXCEPT !.work = w]
  OBVIOUS
<1>11. /\ R \in SessionShape(m) /\ R.id = S.id /\ R.loop = S.loop /\ R.cancelled = S.cancelled
       /\ R.status = S.status /\ R.over = S.over /\ R.work = w
  BY <1>2, <1>6, <1>10 DEF SessionShape
<1>12. Changed(o, R)
  <2>1. session' = [session EXCEPT ![o].work = Without(session[o].work, i)]
    OBVIOUS
  <2>2. QED
    BY <1>1, <1>5, <1>10, <2>1 DEF Changed
<1>13. /\ session' \in [Sessions -> SessionShape(m)] /\ SameSessions
       /\ session'[o] = R /\ \A p \in Sessions \ {o} : session'[p] = session[p]
  BY <1>1, <1>11, <1>12, ObjectChanged
<1>14. \A p \in Live : Owed'[p] \subseteq Range(session'[p].work)
  BY <1>1, <1>2, <1>6, <1>9, <1>11, <1>13
<1>15. thread'[t] = U /\ DOMAIN thread' = Threads /\ \A u \in Threads \ {t} : thread'[u] = thread[u]
  BY <1>2
<1>16. ThreadOK(thread'[t], extra, m, Live, kill, Owed')
  <2>1. PICK owed : owed = Owed'
    OBVIOUS
  <2>2. ThreadOK(U, extra, m, Live, kill, owed)
    BY <1>1
  <2>3. QED
    BY <1>15, <2>1, <2>2
<1>17. \A p \in Sessions : Owed'[p] \subseteq Owed[p]
  BY <1>9
<1>18. QED
  BY <1>1, <1>2, <1>9, <1>13, <1>14, <1>15, <1>16, <1>17, Stepped

LEMMA ManageKept ==
  ASSUME NEW extra, Inv(extra), NEW t \in Threads, Manage(t)
  PROVE  IInv'
<1>1. At(t, "manage") /\ UNCHANGED <<current, snap, kill, breaker, pos>>
  BY DEF Manage
<1>2. PICK T, n, o, S : T = thread[t] /\ n = Len(orders) /\ o = T.obj /\ S = session[o]
  OBVIOUS
<1>3. /\ T.run # <<>> /\ T \in ThreadShape(extra, n) /\ o \in Sessions /\ ~T.killed
      /\ S \in SessionShape(n) /\ breaker' \in Risk!Breaker /\ 0 \in extra
  BY <1>1, <1>2, AtHead DEF Inv, Shapes, Quiet
<1>4. UNCHANGED left => LeftKept
  BY HappensKept
<1>5. ASSUME NEW steps \in Openings(S), Continue(t, steps), UNCHANGED <<session, orders, left>>
      PROVE  IInv'
  BY <1>1, <1>2, <1>3, <1>4, <1>5, OpeningsFollow, ContinueKept
<1>6. \A x \in {"close", "enter"} : Do(x) \in StepShape(extra) /\ Do(x).do = x /\ x \in Waiting
  BY <1>3, DoShape DEF StepNames, Waiting
<1>7. CASE /\ Continue(t, <<Do("close"), Do("enter")>>)
           /\ UNCHANGED <<session, orders, left>>
  <2>1. PICK y, z : y = Do("close") /\ z = Do("enter")
    OBVIOUS
  <2>2. Follows(t, <<y, z>>, extra)
    BY <1>2, <1>3, <1>6, <2>1, FollowsTwo
  <2>3. PICK steps : steps = <<y, z>>
    OBVIOUS
  <2>4. Follows(t, steps, extra) /\ Continue(t, steps)
    BY <1>7, <2>1, <2>2, <2>3
  <2>5. QED
    BY <1>1, <1>2, <1>3, <1>4, <1>7, <2>4, ContinueKept
<1>8. CASE /\ session' = [session EXCEPT ![o].stops = TRUE]
           /\ Done(t)
           /\ UNCHANGED <<orders, left>>
  <2>1. PICK R : R = [S EXCEPT !.stops = TRUE]
    OBVIOUS
  <2>2. /\ R \in SessionShape(n) /\ R.id = S.id /\ R.loop = S.loop /\ R.cancelled = S.cancelled
        /\ R.status = S.status /\ R.over = S.over /\ R.work = S.work
    BY <1>3, <2>1 DEF SessionShape
  <2>3. Changed(o, R)
    BY <1>2, <1>8, <2>1 DEF Changed
  <2>4. PICK V : V = Then(t, <<>>)
    OBVIOUS
  <2>5. extra \subseteq extra
    OBVIOUS
  <2>6. ThreadOK(V, extra, n, Live, kill, Owed)
    BY <1>2, <1>3, <2>4, <2>5, NothingFollows, ThenOK
  <2>7. thread' = [thread EXCEPT ![t] = V]
    BY <1>8, <2>4 DEF Done, Continue
  <2>8. QED
    BY <1>1, <1>2, <1>3, <1>4, <1>8, <2>2, <2>3, <2>6, <2>7, ObjectStepped
<1>9. ASSUME NEW side \in left.sides, Continue(t, <<Place(side), Do("enter")>>),
             \/ UNCHANGED <<session, orders, left>>
             \/ /\ SameSide(S, side) # {}
                /\ LET i == First(SameSide(S, side))
                   IN /\ CancelOrder(S.work[i])
                      /\ session' = [session EXCEPT ![o].work = Without(@, i)]
      PROVE  IInv'
  <2>1. side \in {-1, 1}
    BY DEF Inv, Shapes, Budget
  <2>2. PICK y, z : y = Place(side) /\ z = Do("enter")
    OBVIOUS
  <2>3. y \in StepShape(extra) /\ y.do \in Waiting
    BY <1>3, <2>1, <2>2, PlaceShape DEF Waiting, StepNames
  <2>4. Follows(t, <<y, z>>, extra)
    BY <1>2, <1>3, <1>6, <2>2, <2>3, FollowsTwo
  <2>5. PICK steps : steps = <<y, z>>
    OBVIOUS
  <2>6. Follows(t, steps, extra) /\ Continue(t, steps)
    BY <1>9, <2>2, <2>4, <2>5
  <2>7. CASE UNCHANGED <<session, orders, left>>
    BY <1>1, <1>2, <1>3, <1>4, <2>6, <2>7, ContinueKept
  <2>8. CASE /\ SameSide(S, side) # {}
             /\ LET i == First(SameSide(S, side))
                IN /\ CancelOrder(S.work[i])
                   /\ session' = [session EXCEPT ![o].work = Without(@, i)]
    <3>1. PICK i : i = First(SameSide(S, side))
      OBVIOUS
    <3>2. CancelOrder(S.work[i]) /\ session' = [session EXCEPT ![o].work = Without(@, i)]
      BY <2>8, <3>1
    <3>3. PICK U : U = Then(t, steps)
      OBVIOUS
    <3>4. thread' = [thread EXCEPT ![t] = U]
      BY <2>6, <3>3 DEF Continue
    <3>5. extra \subseteq extra
      OBVIOUS
    <3>6. ASSUME NEW owed
          PROVE  ThreadOK(U, extra, Len(orders), Live, kill, owed)
      BY <1>2, <1>3, <2>6, <3>3, <3>5, ThenOK
    <3>7. QED
      BY <1>1, <1>2, <1>3, <2>8, <3>1, <3>2, <3>4, <3>6, ReplaceKept
  <2>9. QED
    BY <1>9, <2>7, <2>8
<1>10. QED
  BY <1>2, <1>5, <1>7, <1>8, <1>9 DEF Manage, Obj

\* A snapshot of an object keeps to the orders there are.
LEMMA SnapshotShape ==
  ASSUME NEW n, NEW S \in SessionShape(n)
  PROVE  Snapshot(S) \in Snapshots(n)
BY DEF Snapshot, SessionShape, Snapshots

LEMMA SaveKept ==
  ASSUME NEW extra, Inv(extra), NEW t \in Threads, Save(t)
  PROVE  IInv'
<1>1. At(t, "save") /\ UNCHANGED <<session, current, snap, kill, breaker, orders, pos, left>>
  BY DEF Save
<1>2. PICK T, n, c : T = thread[t] /\ n = Len(orders) /\ c = Found(Obj(t).id)
  OBVIOUS
<1>3. /\ T.run # <<>> /\ breaker' \in Risk!Breaker /\ LeftKept
      /\ T \in ThreadShape(extra, n) /\ ThreadOK(T, extra, n, Live, kill, Owed)
  BY <1>1, <1>2, AtHead, HappensKept DEF Inv, Shapes
<1>4. CASE Done(t)
  BY <1>1, <1>2, <1>3, <1>4, NothingFollows, ContinueKept DEF Done
<1>5. CASE /\ c # None
           /\ thread' = [thread EXCEPT ![t].run = <<Do("write")>> \o Tail(@), ![t].holds = Snapshot(session[c])]
  <2>1. c \in Sessions
    BY <1>2, <1>5 DEF Found, Inv, Shapes
  <2>2. PICK h : h = Snapshot(session[c])
    OBVIOUS
  <2>3. h \in Snapshots(n)
    BY <1>2, <2>1, <2>2, SnapshotShape DEF Inv, Shapes
  <2>4. PICK x : x = "write"
    OBVIOUS
  <2>5. x \in StepNames /\ x \in Quiet
    BY <2>4 DEF StepNames, Quiet
  <2>6. PICK r : r = Headed(t, x)
    OBVIOUS
  <2>7. /\ r \in Seq(StepShape(extra)) /\ r # <<>> /\ r[1].do = x
        /\ \A i \in DOMAIN r : /\ i > 1 => r[i].do \in Waiting
                               /\ T.killed => r[i].do \in Quiet
    BY <1>2, <1>3, <2>5, <2>6, HeadTaken
  <2>8. PICK Q : Q = [T EXCEPT !.run = r]
    OBVIOUS
  <2>9. Q \in ThreadShape(extra, n) /\ Q.run = r /\ Q.obj = T.obj /\ Q.killed = T.killed
    BY <1>3, <2>7, <2>8 DEF ThreadShape
  <2>10. PICK U : U = [Q EXCEPT !.holds = h]
    OBVIOUS
  <2>11. /\ U \in ThreadShape(extra, n) /\ U.run = r /\ U.obj = T.obj /\ U.killed = T.killed
         /\ U.holds = h
    BY <2>3, <2>9, <2>10 DEF ThreadShape
  <2>12. ThreadOK(U, extra, n, Live, kill, Owed)
    BY <1>3, <2>3, <2>4, <2>7, <2>11 DEF ThreadOK
  <2>13. thread' = [thread EXCEPT ![t] = U]
    <3>1. thread' = [thread EXCEPT ![t] = [[thread[t] EXCEPT !.run = <<Do("write")>> \o Tail(thread[t].run)]
                                             EXCEPT !.holds = Snapshot(session[c])]]
      BY <1>5
    <3>2. QED
      BY <1>2, <2>2, <2>4, <2>6, <2>8, <2>10, <3>1 DEF Headed
  <2>14. QED
    BY <1>1, <1>2, <1>3, <2>12, <2>13, SteppedAlone
<1>6. QED
  BY <1>2, <1>4, <1>5 DEF Save

LEMMA OpenedKept ==
  ASSUME NEW extra, Inv(extra), NEW t \in Threads, Opened(t)
  PROVE  IInv'
<1>1. At(t, "opened") /\ UNCHANGED <<session, current, snap, kill, breaker, orders, pos, left>>
  BY DEF Opened
<1>2. PICK T, n, o : T = thread[t] /\ n = Len(orders) /\ o = T.obj
  OBVIOUS
<1>3. /\ T.run # <<>> /\ breaker' \in Risk!Breaker /\ LeftKept /\ o \in Sessions /\ 0 \in extra
      /\ T \in ThreadShape(extra, n) /\ ThreadOK(T, extra, n, Live, kill, Owed)
  BY <1>1, <1>2, AtHead, HappensKept DEF Inv, Shapes
<1>4. CASE Done(t)
  BY <1>1, <1>2, <1>3, <1>4, NothingFollows, ContinueKept DEF Done
<1>5. CASE thread' = [thread EXCEPT ![t].run = <<Do("write")>>, ![t].holds = Snapshot(Obj(t))]
  <2>1. PICK h : h = Snapshot(session[o])
    OBVIOUS
  <2>2. h \in Snapshots(n)
    BY <1>2, <1>3, <2>1, SnapshotShape DEF Inv, Shapes
  <2>3. PICK s \in StepShape(extra) : s = Do("write") /\ s.do = "write"
    BY <1>3, DoShape DEF StepNames
  <2>4. PICK r : r = <<s>>
    OBVIOUS
  <2>5. r \in Seq(StepShape(extra)) /\ r # <<>> /\ r[1].do = "write" /\ DOMAIN r = {1}
    BY <2>3, <2>4
  <2>6. \A i \in DOMAIN r : ~(i > 1) /\ r[i].do \in Quiet
    BY <2>5 DEF Quiet, StepNames
  <2>7. PICK Q : Q = [T EXCEPT !.run = r]
    OBVIOUS
  <2>8. Q \in ThreadShape(extra, n) /\ Q.run = r /\ Q.obj = T.obj /\ Q.killed = T.killed
    BY <1>3, <2>5, <2>7 DEF ThreadShape
  <2>9. PICK U : U = [Q EXCEPT !.holds = h]
    OBVIOUS
  <2>10. /\ U \in ThreadShape(extra, n) /\ U.run = r /\ U.obj = T.obj /\ U.killed = T.killed
         /\ U.holds = h
    BY <2>2, <2>8, <2>9 DEF ThreadShape
  <2>11. ThreadOK(U, extra, n, Live, kill, Owed)
    BY <1>3, <2>2, <2>5, <2>6, <2>10 DEF ThreadOK
  <2>12. thread' = [thread EXCEPT ![t] = U]
    <3>1. thread' = [thread EXCEPT ![t] = [[thread[t] EXCEPT !.run = <<Do("write")>>]
                                             EXCEPT !.holds = Snapshot(session[thread[t].obj])]]
      BY <1>5 DEF Obj
    <3>2. QED
      BY <1>2, <2>1, <2>3, <2>4, <2>7, <2>9, <3>1
  <2>13. QED
    BY <1>1, <1>2, <1>3, <2>11, <2>12, SteppedAlone
<1>6. QED
  BY <1>4, <1>5 DEF Opened

-----------------------------------------------------------------------------
(* Sessions.                                                               *)

\* The ID of an object is that of a session that has begun.
LEMMA IdBegun ==
  ASSUME NEW extra, Inv(extra), NEW o \in Live
  PROVE  session[o].id \in Sessions /\ session[session[o].id].loop # "none" /\ o \in Sessions
<1>1. o \in Sessions /\ session[o].id # None
  BY DEF Live
<1>2. session[o].id \in Sessions
  BY <1>1 DEF Inv, Shapes, SessionShape
<1>3. SessionInv(o)
  BY <1>1 DEF Inv, SessionsInv
<1>4. PICK i : i = session[o].id
  OBVIOUS
<1>5. i <= o /\ session[o].loop # "none" /\ \A p \in Sessions : p < o => session[p].loop # "none"
  BY <1>1, <1>3, <1>4 DEF SessionInv
<1>6. i = o \/ i < o
  <2>1. i \in Nat /\ o \in Nat
    BY <1>1, <1>2, <1>4, SessionBounds
  <2>2. QED
    BY <1>5, <2>1
<1>7. QED
  BY <1>1, <1>2, <1>4, <1>5, <1>6

LEMMA WriteSnapshotKept ==
  ASSUME NEW extra, Inv(extra), NEW t \in Threads, WriteSnapshot(t)
  PROVE  IInv'
<1>1. At(t, "write") /\ UNCHANGED <<session, current, kill, breaker, orders, pos>>
  BY DEF WriteSnapshot
<1>2. PICK T, n, o, i : T = thread[t] /\ n = Len(orders) /\ o = T.obj /\ i = session[o].id
  OBVIOUS
<1>3. /\ T.run # <<>> /\ T \in ThreadShape(extra, n) /\ o \in Live /\ T.run[1].do = "write"
      /\ breaker' \in Risk!Breaker /\ DOMAIN thread = Threads
      /\ snap \in [Sessions -> Snapshots(n) \cup {None}] /\ left \in Budget /\ pos' \in Int
  BY <1>1, <1>2, AtHead DEF Inv, Shapes, ThreadsInv
<1>4. T.holds \in Snapshots(n)
  <2>1. ThreadOK(T, extra, n, Live, kill, Owed)
    BY <1>1, <1>2, AtHead
  <2>2. QED
    BY <1>3, <2>1 DEF ThreadOK
<1>5. i \in Sessions /\ session[i].loop # "none"
  BY <1>2, <1>3, IdBegun
<1>6. PICK V : V = Then(t, <<>>)
  OBVIOUS
<1>7. V \in ThreadShape(extra, n)
  BY <1>2, <1>3, <1>6, ThenShape
<1>8. PICK U : U = [V EXCEPT !.holds = None]
  OBVIOUS
<1>9. U \in ThreadShape(extra, n) /\ U.run = V.run /\ U.obj = V.obj /\ U.killed = V.killed
  BY <1>7, <1>8 DEF ThreadShape
<1>10. \A owed : ThreadOK(U, extra, n, Live, kill, owed)
  <2>1. ASSUME NEW owed
        PROVE  ThreadOK(U, extra, n, Live, kill, owed)
    BY <1>2, <1>3, <1>6, <1>9, Emptied
  <2>2. QED
    BY <2>1
<1>11. thread' = [thread EXCEPT ![t] = U]
  BY <1>6, <1>8 DEF WriteSnapshot
<1>12. thread'[t] = U /\ DOMAIN thread' = Threads /\ \A u \in Threads \ {t} : thread'[u] = thread[u]
  BY <1>3, <1>11
<1>13. /\ snap' \in [Sessions -> Snapshots(n) \cup {None}] /\ LeftKept
       /\ \A s \in Sessions : snap'[s] # None => s = i \/ snap[s] # None
  <2>1. CASE Spend("saves") /\ snap' = [snap EXCEPT ![Obj(t).id] = thread[t].holds]
    <3>1. snap' = [snap EXCEPT ![i] = T.holds]
      BY <1>2, <2>1 DEF Obj
    <3>2. snap' \in [Sessions -> Snapshots(n) \cup {None}]
      BY <1>3, <1>4, <1>5, <3>1
    <3>3. LeftKept
      <4>1. left.saves \in Nat /\ left.saves > 0 /\ left' = [left EXCEPT !.saves = left.saves - 1]
        BY <1>3, <2>1 DEF Spend, Budget
      <4>2. left.saves - 1 \in Nat
        BY <4>1
      <4>3. QED
        BY <1>3, <4>1, <4>2 DEF LeftKept, Budget
    <3>4. QED
      BY <1>3, <3>1, <3>2, <3>3
  <2>2. CASE UNCHANGED <<snap, left>>
    BY <1>3, <2>2, HappensKept
  <2>3. QED
    BY <2>1, <2>2 DEF WriteSnapshot
<1>14. Live' = Live /\ Owed' = Owed /\ \A p \in Sessions : session'[p].loop = session[p].loop
  BY <1>1 DEF Live, Owed, Working
<1>15. SessionsInv'
  <2>1. \A s \in Sessions : SessionInv(s)'
    BY <1>1 DEF Inv, SessionsInv, SessionInv
  <2>2. \A s \in Sessions : snap'[s] # None => session'[s].loop # "none"
    BY <1>1, <1>5, <1>13 DEF Inv, SessionsInv
  <2>3. QED
    BY <1>1, <1>14, <2>1, <2>2 DEF Inv, SessionsInv
<1>16. /\ session' \in [Sessions -> SessionShape(n)]
       /\ \A p \in Live : Owed'[p] \subseteq Range(session'[p].work)
  BY <1>1, <1>2, <1>14 DEF Inv, Shapes, OrdersInv
<1>17. ThreadOK(thread'[t], extra, n, Live, kill, Owed')
  <2>1. PICK owed : owed = Owed'
    OBVIOUS
  <2>2. QED
    BY <1>10, <1>12, <2>1
<1>18. extra \subseteq extra /\ \A p \in Sessions : Owed'[p] \subseteq Owed[p]
  BY <1>14
<1>19. QED
  BY <1>1, <1>2, <1>3, <1>12, <1>13, <1>14, <1>15, <1>16, <1>17, <1>18, OrderTyped, SteppedOn

\* A session that is stopped is cancelled, or was marked or is not running.
LEMMA StoppedKept ==
  ASSUME NEW extra, Inv(extra), NEW t \in Threads, Stopped(t)
  PROVE  IInv'
<1>1. At(t, "stopped") /\ UNCHANGED <<current, kill, breaker, orders, pos, left>>
  BY DEF Stopped
<1>2. PICK T, n, o, S, i : /\ T = thread[t] /\ n = Len(orders) /\ o = T.obj /\ S = session[o]
                           /\ i = S.id
  OBVIOUS
<1>3. /\ T.run # <<>> /\ T \in ThreadShape(extra, n) /\ o \in Live /\ o \in Sessions
      /\ breaker' \in Risk!Breaker /\ DOMAIN thread = Threads /\ S \in SessionShape(n)
      /\ session \in [Sessions -> SessionShape(n)]
      /\ snap \in [Sessions -> Snapshots(n) \cup {None}] /\ pos' \in Int /\ LeftKept
  BY <1>1, <1>2, AtHead, HappensKept DEF Inv, Shapes, ThreadsInv
<1>4. PICK cancelled \in BOOLEAN : cancelled = (S.cancelled \/ S.status = "running")
  BY <1>3 DEF SessionShape
<1>5. PICK Q : Q = [S EXCEPT !.cancelled = cancelled]
  OBVIOUS
<1>6. /\ Q \in SessionShape(n) /\ Q.id = S.id /\ Q.loop = S.loop /\ Q.cancelled = cancelled
      /\ Q.over = S.over /\ Q.work = S.work
  BY <1>3, <1>5 DEF SessionShape
<1>7. PICK R : R = [Q EXCEPT !.status = "stopped"]
  OBVIOUS
<1>8. /\ R \in SessionShape(n) /\ R.id = S.id /\ R.loop = S.loop /\ R.cancelled = cancelled
      /\ R.over = S.over /\ R.work = S.work /\ R.status = "stopped"
  BY <1>6, <1>7 DEF SessionShape
<1>9. session' = [session EXCEPT ![o] = R] /\ snap' = [snap EXCEPT ![i] = None]
  <2>1. Ended(S) = [[S EXCEPT !.cancelled = S.cancelled \/ S.status = "running"] EXCEPT !.status = "stopped"]
    BY Zenon DEF Ended
  <2>2. Ended(S) = R
    BY <1>4, <1>5, <1>7, <2>1
  <2>3. session' = [session EXCEPT ![o] = Ended(session[o])] /\ snap' = [snap EXCEPT ![session[o].id] = None]
    BY <1>2 DEF Stopped, Obj
  <2>4. QED
    BY <1>2, <2>2, <2>3
<1>10. /\ session' \in [Sessions -> SessionShape(n)] /\ session'[o] = R
       /\ \A p \in Sessions \ {o} : session'[p] = session[p]
       /\ snap' \in [Sessions -> Snapshots(n) \cup {None}]
       /\ \A s \in Sessions : snap'[s] # None => snap[s] # None
  BY <1>3, <1>8, <1>9
<1>11. \A p \in Sessions : /\ session'[p].id = session[p].id /\ session'[p].loop = session[p].loop
                           /\ session'[p].over = session[p].over /\ session'[p].work = session[p].work
                           /\ session[p].cancelled => session'[p].cancelled
                           /\ ~session'[p].cancelled => p # o \/ session[p].status # "running"
                           /\ p # o => session'[p].status = session[p].status
  BY <1>2, <1>4, <1>8, <1>10
<1>12. Live' = Live /\ Owed' = Owed
  BY <1>1, <1>11 DEF Live, Owed, Working
<1>13. SessionsInv'
  <2>1. ASSUME NEW s \in Sessions
        PROVE  SessionInv(s)'
    <3>1. SessionInv(s)
      BY DEF Inv, SessionsInv
    <3>2. session'[s].loop = "on" /\ ~session'[s].cancelled
            => session'[s].over \/ (current' = s /\ session'[s].status = "running")
      BY <1>1, <1>11, <3>1 DEF SessionInv
    <3>3. QED
      BY <1>11, <3>1, <3>2 DEF SessionInv
  <2>2. QED
    BY <1>1, <1>10, <1>11, <1>12, <2>1 DEF Inv, SessionsInv
<1>14. PICK V : V = Then(t, <<>>)
  OBVIOUS
<1>15. thread' = [thread EXCEPT ![t] = V]
  BY <1>14 DEF Stopped, Done, Continue
<1>16. thread'[t] = V /\ DOMAIN thread' = Threads /\ \A u \in Threads \ {t} : thread'[u] = thread[u]
  BY <1>3, <1>15
<1>17. extra \subseteq extra /\ \A p \in Sessions : Owed'[p] \subseteq Owed[p]
  BY <1>12
<1>18. ThreadOK(thread'[t], extra, n, Live, kill, Owed')
  <2>1. PICK owed : owed = Owed'
    OBVIOUS
  <2>2. ThreadOK(V, extra, n, Live, kill, owed)
    BY <1>2, <1>3, <1>14, <1>17, NothingFollows, ThenOK
  <2>3. QED
    BY <1>16, <2>1, <2>2
<1>19. \A p \in Live : Owed'[p] \subseteq Range(session'[p].work)
  BY <1>11, <1>12 DEF Inv, OrdersInv, Live
<1>20. QED
  BY <1>1, <1>2, <1>3, <1>10, <1>11, <1>12, <1>13, <1>16, <1>17, <1>18, <1>19, OrderTyped, SteppedOn

\* A step that leaves every goroutine as it is, or starts one that had nothing to do.
LEMMA Started ==
  ASSUME NEW extra, Inv(extra), NEW t \in Threads, NEW o \in Live,
         NEW steps, Runs(steps, extra, kill), NEW U, U = Starting(o, steps), NEW owed
  PROVE  ThreadOK(U, extra, Len(orders), Live, kill, owed)
<1>1. o \in Sessions /\ kill \in BOOLEAN /\ Len(orders) \in Nat
  BY OrderTyped DEF Live, Inv, Shapes
<1>2. PICK live, n : live = Live /\ n = Len(orders)
  OBVIOUS
<1>3. ThreadOK(Starting(o, steps), extra, n, live, kill, owed)
  BY <1>1, <1>2, StartOK
<1>4. QED
  BY <1>2, <1>3

\* A goroutine as it is.
LEMMA AsItIs ==
  ASSUME NEW extra, Inv(extra), NEW t \in Threads
  PROVE  DOMAIN thread = Threads /\ ThreadOK(thread[t], extra, Len(orders), Live, kill, Owed)
BY DEF Inv, ThreadsInv

\* One object changes, and one goroutine, if any, starts.
LEMMA StartKept ==
  ASSUME NEW extra, Inv(extra), NEW t \in Threads, NEW o \in Live, NEW S, S = session[o],
         NEW R \in SessionShape(Len(orders)), Changed(o, R), R.work = S.work,
         R.id = S.id, R.loop = S.loop, R.cancelled = S.cancelled, R.status = S.status, R.over = S.over,
         UNCHANGED <<current, snap, kill, breaker, orders, pos>>, LeftKept,
         NEW p \in Live, NEW steps, Runs(steps, extra, kill),
         thread' = thread \/ thread' = [thread EXCEPT ![t] = Starting(p, steps)]
  PROVE  IInv'
<1>1. PICK U : U = IF thread' = thread THEN thread[t] ELSE Starting(p, steps)
  OBVIOUS
<1>2. ThreadOK(U, extra, Len(orders), Live, kill, Owed)
  <2>1. CASE thread' = thread
    BY <1>1, <2>1, AsItIs
  <2>2. CASE thread' # thread
    <3>1. U = Starting(p, steps)
      BY <1>1, <2>2
    <3>2. PICK owed : owed = Owed
      OBVIOUS
    <3>3. ThreadOK(U, extra, Len(orders), Live, kill, owed)
      BY <3>1, Started
    <3>4. QED
      BY <3>2, <3>3
  <2>3. QED
    BY <2>1, <2>2
<1>3. thread'[t] = U /\ DOMAIN thread' = Threads /\ \A u \in Threads \ {t} : thread'[u] = thread[u]
  BY <1>1, AsItIs
<1>4. o \in Sessions
  BY DEF Live
<1>5. QED
  BY <1>2, <1>3, <1>4, ObjectSteppedOn

LEMMA OnIsLive ==
  ASSUME NEW extra, Inv(extra), NEW s \in Sessions, session[s].loop = "on"
  PROVE  s \in Live
BY DEF Inv, SessionsInv, SessionInv, Live

LEMMA RunsQuiet ==
  ASSUME NEW extra, Inv(extra), NEW x \in (Waiting \cap Quiet), NEW quiet
  PROVE  Runs(<<Do(x)>>, extra, quiet)
<1>1. 0 \in extra /\ x \in StepNames
  BY DEF Inv, Shapes, Waiting
<1>2. PICK a \in StepShape(extra) : a = Do(x) /\ a.do = x
  BY <1>1, DoShape
<1>3. Runs(<<a>>, extra, quiet)
  BY <1>2 DEF Runs
<1>4. QED
  BY <1>2, <1>3

LEMMA RunsQuietTwo ==
  ASSUME NEW extra, Inv(extra), NEW x \in (Waiting \cap Quiet), NEW y \in (Waiting \cap Quiet), NEW quiet
  PROVE  Runs(<<Do(x), Do(y)>>, extra, quiet)
<1>1. 0 \in extra /\ x \in StepNames /\ y \in StepNames
  BY DEF Inv, Shapes, Waiting
<1>2. PICK a \in StepShape(extra), b \in StepShape(extra) :
        a = Do(x) /\ a.do = x /\ b = Do(y) /\ b.do = y
  BY <1>1, DoShape
<1>3. Runs(<<a, b>>, extra, quiet)
  BY <1>2 DEF Runs
<1>4. QED
  BY <1>2, <1>3

LEMMA Unchanged ==
  ASSUME NEW extra, Inv(extra), NEW o \in Sessions, UNCHANGED session
  PROVE  Changed(o, session[o])
<1>1. session \in [Sessions -> SessionShape(Len(orders))]
  BY DEF Inv, Shapes
<1>2. PICK f : f = session
  OBVIOUS
<1>3. f = [f EXCEPT ![o] = f[o]]
  BY <1>1, <1>2
<1>4. QED
  BY <1>2, <1>3 DEF Changed

\* A tick asks the broker, passes the gates and may save, or does nothing.
LEMMA TickStarts ==
  ASSUME NEW extra, Inv(extra), NEW s \in Sessions, Tick(s), NEW t, t = Loop(s)
  PROVE  \E steps : /\ Runs(steps, extra, kill)
                    /\ thread' = thread \/ thread' = [thread EXCEPT ![t] = Starting(s, steps)]
<1>1. PICK last \in Saving :
        LET all == (IF session'[s].phase = "trading" THEN <<Do("truth"), Do("gates")>> ELSE <<>>) \o last
        IN thread' = IF all = <<>> THEN thread ELSE [thread EXCEPT ![t] = Starting(s, all)]
  BY DEF Tick
<1>2. PICK first : first = IF session'[s].phase = "trading" THEN <<Do("truth"), Do("gates")>> ELSE <<>>
  OBVIOUS
<1>3. Runs(<<>>, extra, kill)
  BY DEF Runs
<1>4. Runs(<<Do("truth"), Do("gates")>>, extra, kill)
  BY RunsQuietTwo DEF Waiting, Quiet, StepNames
<1>5. Runs(first, extra, kill)
  BY <1>2, <1>3, <1>4
<1>6. Runs(<<Do("save")>>, extra, kill)
  BY RunsQuiet DEF Waiting, Quiet, StepNames
<1>7. Runs(last, extra, kill)
  BY <1>3, <1>6 DEF Saving
<1>8. Runs(first \o last, extra, kill)
  BY <1>5, <1>7, RunsBoth
<1>9. thread' = thread \/ thread' = [thread EXCEPT ![t] = Starting(s, first \o last)]
  BY <1>1, <1>2
<1>10. QED
  BY <1>8, <1>9

LEMMA TickKept ==
  ASSUME NEW extra, Inv(extra), NEW s \in Sessions, Tick(s)
  PROVE  IInv'
<1>1. /\ session[s].loop = "on" /\ thread[Loop(s)].run = <<>>
      /\ UNCHANGED <<current, snap, kill, breaker, orders, pos, left>>
  BY DEF Tick
<1>2. PICK c, n, t : c = Found(session[s].id) /\ n = Len(orders) /\ t = Loop(s)
  OBVIOUS
<1>3. /\ t \in Threads /\ s \in Live /\ LeftKept
      /\ session \in [Sessions -> SessionShape(n)]
  BY <1>1, <1>2, OnIsLive, HappensKept DEF Threads, Inv, Shapes
<1>4. PICK steps : /\ Runs(steps, extra, kill)
                   /\ thread' = thread \/ thread' = [thread EXCEPT ![t] = Starting(s, steps)]
  BY <1>2, TickStarts
<1>5. CASE UNCHANGED session
  <2>1. Changed(s, session[s]) /\ session[s] \in SessionShape(n)
    BY <1>3, <1>5, Unchanged
  <2>2. QED
    BY <1>1, <1>2, <1>3, <1>4, <2>1, StartKept
<1>6. ASSUME c # None, NEW p \in NextPhases(session[c].phase),
             session' = [session EXCEPT ![c].phase = p]
      PROVE  IInv'
  <2>1. c \in Live /\ c \in Sessions
    BY <1>2, <1>6 DEF Found, Inv, SessionsInv, Live
  <2>2. PICK S \in SessionShape(n) : S = session[c]
    BY <1>3, <2>1
  <2>3. p \in {"preparing", "ready", "trading"}
    BY <1>6 DEF NextPhases
  <2>4. PICK R : R = [S EXCEPT !.phase = p]
    OBVIOUS
  <2>5. /\ R \in SessionShape(n) /\ R.id = S.id /\ R.loop = S.loop /\ R.cancelled = S.cancelled
        /\ R.status = S.status /\ R.over = S.over /\ R.work = S.work
    BY <2>2, <2>3, <2>4 DEF SessionShape
  <2>6. Changed(c, R)
    BY <1>6, <2>2, <2>4 DEF Changed
  <2>7. QED
    BY <1>1, <1>2, <1>3, <1>4, <2>1, <2>2, <2>5, <2>6, StartKept
<1>7. QED
  BY <1>2, <1>5, <1>6 DEF Tick

\* Steps of the session manager: objects begin, end or are marked, and nothing else.
LEMMA Managed ==
  ASSUME NEW extra, Inv(extra), session' \in [Sessions -> SessionShape(Len(orders))],
         \A p \in Sessions : session[p].loop # "none" => session'[p].loop # "none",
         \A p \in Live : p \in Live' /\ session'[p].work = session[p].work,
         \A p \in Live' : p \in Live \/ session[p].loop = "none",
         SessionsInv', current' \in Sessions \cup {None},
         snap' \in [Sessions -> Snapshots(Len(orders)) \cup {None}],
         UNCHANGED <<kill, breaker, thread, orders, pos>>, LeftKept
  PROVE  IInv'
<1>1. Owed' = Owed
  BY DEF Owed, Working
<1>2. Len(orders) \in Nat /\ \A n \in DOMAIN orders : orders[n].by \in Sessions
  <2>1. \A n \in DOMAIN orders : orders[n] \in OrderShape(extra)
    BY OrderTyped
  <2>2. QED
    BY <2>1, OrderTyped DEF OrderShape
<1>3. OrdersInv'
  <2>1. \A n \in DOMAIN orders' : ~orders'[n].late /\ session'[orders'[n].by].loop # "none"
    BY <1>2 DEF Inv, OrdersInv
  <2>2. ASSUME NEW o \in Live'
        PROVE  Owed'[o] \subseteq Range(session'[o].work)
    <3>1. CASE o \in Live
      BY <1>1, <3>1 DEF Inv, OrdersInv
    <3>2. CASE o \notin Live
      <4>1. session[o].loop = "none" /\ o \in Sessions
        BY <2>2, <3>2 DEF Live
      <4>2. Owed[o] = {}
        BY <4>1 DEF Owed, Inv, OrdersInv
      <4>3. QED
        BY <1>1, <4>2
    <3>3. QED
      BY <3>1, <3>2
  <2>3. QED
    BY <2>1, <2>2 DEF OrdersInv
<1>4. ASSUME NEW u \in Threads
      PROVE  ThreadOK(thread'[u], extra, Len(orders'), Live', kill', Owed')
  <2>1. PICK T, n, live, live2, on, owed : /\ T = thread[u] /\ n = Len(orders) /\ live = Live
                                           /\ live2 = Live' /\ on = kill /\ owed = Owed
    OBVIOUS
  <2>2. ThreadOK(T, extra, n, live, on, owed)
    BY <2>1, AsItIs
  <2>3. T.run # <<>> => T.obj \in live2
    BY <2>1, <2>2 DEF ThreadOK
  <2>4. n \in Nat /\ n <= n /\ extra \subseteq extra
    BY <1>2, <2>1
  <2>5. ThreadOK(T, extra, n, live2, on, owed)
    BY <2>2, <2>3, <2>4, StaysOK
  <2>6. QED
    BY <1>1, <2>1, <2>5
<1>5. ThreadsInv(extra)'
  BY <1>4 DEF Inv, ThreadsInv
<1>6. Shapes(extra)'
  BY DEF Inv, Shapes, LeftKept
<1>7. QED
  BY <1>3, <1>5, <1>6 DEF IInv, Inv

LEMMA SpendKept ==
  ASSUME NEW extra, Inv(extra), Spend("starts") \/ Spend("resumes")
  PROVE  LeftKept
<1>1. left \in Budget
  BY DEF Inv, Shapes
<1>2. CASE left.starts > 0 /\ left' = [left EXCEPT !.starts = left.starts - 1]
  <2>1. left.starts - 1 \in Nat
    BY <1>1, <1>2 DEF Budget
  <2>2. QED
    BY <1>1, <1>2, <2>1 DEF LeftKept, Budget
<1>3. CASE left.resumes > 0 /\ left' = [left EXCEPT !.resumes = left.resumes - 1]
  <2>1. left.resumes - 1 \in Nat
    BY <1>1, <1>3 DEF Budget
  <2>2. QED
    BY <1>1, <1>3, <2>1 DEF LeftKept, Budget
<1>4. QED
  BY <1>2, <1>3 DEF Spend

\* A session whose time is over is cancelled.
LEMMA SessionTimeoutKept ==
  ASSUME NEW extra, Inv(extra), NEW s \in Sessions, SessionTimeout(s)
  PROVE  IInv'
<1>1. /\ session[s].loop = "on" /\ UNCHANGED <<current, snap, kill, breaker, thread, orders, pos>>
      /\ session' = [session EXCEPT ![s].cancelled = TRUE]
  BY DEF SessionTimeout
<1>2. LeftKept
  BY HappensKept DEF SessionTimeout, Events
<1>3. PICK n, S : n = Len(orders) /\ S = session[s]
  OBVIOUS
<1>4. /\ session \in [Sessions -> SessionShape(n)] /\ S \in SessionShape(n)
      /\ current \in Sessions \cup {None} /\ snap \in [Sessions -> Snapshots(n) \cup {None}]
  BY <1>3 DEF Inv, Shapes
<1>5. PICK R : R = [S EXCEPT !.cancelled = TRUE]
  OBVIOUS
<1>6. /\ R \in SessionShape(n) /\ R.id = S.id /\ R.loop = S.loop /\ R.status = S.status
      /\ R.over = S.over /\ R.work = S.work /\ R.cancelled
  BY <1>4, <1>5 DEF SessionShape
<1>7. session' = [session EXCEPT ![s] = R]
  BY <1>1, <1>3, <1>5
<1>8. /\ session' \in [Sessions -> SessionShape(n)] /\ session'[s] = R
      /\ \A p \in Sessions \ {s} : session'[p] = session[p]
  BY <1>4, <1>6, <1>7
<1>9. \A p \in Sessions : /\ session'[p].id = session[p].id /\ session'[p].loop = session[p].loop
                          /\ session'[p].over = session[p].over /\ session'[p].work = session[p].work
                          /\ session'[p].status = session[p].status
                          /\ session[p].cancelled => session'[p].cancelled
  BY <1>3, <1>6, <1>8
<1>10. Live' = Live
  BY <1>9 DEF Live
<1>11. SessionsInv'
  <2>1. ASSUME NEW p \in Sessions
        PROVE  SessionInv(p)'
    BY <1>1, <1>9 DEF Inv, SessionsInv, SessionInv
  <2>2. QED
    BY <1>1, <1>9, <1>10, <2>1 DEF Inv, SessionsInv
<1>12. \A p \in Live : p \in Sessions
  BY DEF Live
<1>13. QED
  BY <1>1, <1>2, <1>3, <1>4, <1>8, <1>9, <1>10, <1>11, <1>12, Managed

\* The object found at the end of a loop is its own, or a later one under the same ID,
\* which was marked when it was resumed.
LEMMA FinishKept ==
  ASSUME NEW extra, Inv(extra), NEW s \in Sessions, Finish(s)
  PROVE  IInv'
<1>1. session[s].loop = "on" /\ UNCHANGED <<current, kill, breaker, thread, orders, pos, left>>
  BY DEF Finish
<1>2. PICK n, c, S : n = Len(orders) /\ c = Found(session[s].id) /\ S = session[s]
  OBVIOUS
<1>3. /\ session \in [Sessions -> SessionShape(n)] /\ S \in SessionShape(n)
      /\ current \in Sessions \cup {None} /\ snap \in [Sessions -> Snapshots(n) \cup {None}]
      /\ s \in Live
  BY <1>1, <1>2, OnIsLive DEF Inv, Shapes
<1>4. PICK Q : Q = [S EXCEPT !.loop = "off"]
  OBVIOUS
<1>5. /\ Q \in SessionShape(n) /\ Q.id = S.id /\ Q.loop = "off" /\ Q.status = S.status
      /\ Q.over = S.over /\ Q.work = S.work /\ Q.cancelled = S.cancelled
  BY <1>3, <1>4 DEF SessionShape
<1>6. CASE session' = [session EXCEPT ![s].loop = "off"] /\ UNCHANGED snap
  <2>1. /\ session' \in [Sessions -> SessionShape(n)] /\ session'[s] = Q
        /\ \A p \in Sessions \ {s} : session'[p] = session[p]
    <3>1. session' = [session EXCEPT ![s] = Q]
      BY <1>2, <1>4, <1>6
    <3>2. QED
      BY <1>3, <1>5, <3>1
  <2>2. \A p \in Sessions : /\ session'[p].id = session[p].id
                            /\ session'[p].loop = "none" <=> session[p].loop = "none"
                            /\ session'[p].loop = "on" => session[p].loop = "on"
                            /\ session'[p].over = session[p].over /\ session'[p].work = session[p].work
                            /\ session'[p].status = session[p].status
                            /\ session'[p].cancelled = session[p].cancelled
    BY <1>1, <1>2, <1>5, <2>1
  <2>3. Live' = Live
    BY <2>2 DEF Live
  <2>4. SessionsInv'
    <3>1. ASSUME NEW p \in Sessions
          PROVE  SessionInv(p)'
      BY <1>1, <2>2 DEF Inv, SessionsInv, SessionInv
    <3>2. QED
      BY <1>1, <1>6, <2>2, <2>3, <3>1 DEF Inv, SessionsInv
  <2>5. LeftKept /\ \A p \in Live : p \in Sessions
    BY <1>1, HappensKept DEF Live
  <2>6. QED
    BY <1>1, <1>2, <1>3, <1>6, <2>1, <2>2, <2>3, <2>4, <2>5, Managed
<1>7. ASSUME c # None, session' = [session EXCEPT ![s].loop = "off", ![c].status = "stopped"],
             snap' = [snap EXCEPT ![session[s].id] = None]
      PROVE  IInv'
  <2>1. /\ c = current /\ c \in Sessions /\ c \in Live /\ session[c].id = session[s].id
        /\ \A p \in Sessions : session[p].loop # "none" => p <= c
    BY <1>2, <1>3, <1>7 DEF Found, Inv, SessionsInv, Live
  <2>2. PICK M : M = [session EXCEPT ![s] = Q]
    OBVIOUS
  <2>3. M \in [Sessions -> SessionShape(n)] /\ M[s] = Q /\ \A p \in Sessions \ {s} : M[p] = session[p]
    BY <1>3, <1>5, <2>2
  <2>4. PICK N : N = [M[c] EXCEPT !.status = "stopped"]
    OBVIOUS
  <2>5. /\ N \in SessionShape(n) /\ N.id = M[c].id /\ N.loop = M[c].loop /\ N.status = "stopped"
        /\ N.over = M[c].over /\ N.work = M[c].work /\ N.cancelled = M[c].cancelled
    <3>1. PICK K \in SessionShape(n) : K = M[c]
      BY <2>1, <2>3
    <3>2. N = [K EXCEPT !.status = "stopped"]
      BY <2>4, <3>1
    <3>3. QED
      BY <3>1, <3>2 DEF SessionShape
  <2>6. session' = [M EXCEPT ![c] = N]
    <3>1. session' = [[session EXCEPT ![s].loop = "off"] EXCEPT ![c].status = "stopped"]
      BY <1>7
    <3>2. [session EXCEPT ![s].loop = "off"] = M
      BY <1>2, <1>4, <2>2
    <3>3. QED
      BY <2>4, <3>1, <3>2
  <2>7. /\ session' \in [Sessions -> SessionShape(n)] /\ session'[c] = N
        /\ \A p \in Sessions \ {c} : session'[p] = M[p]
    BY <2>1, <2>3, <2>5, <2>6
  <2>8. \A p \in Sessions : /\ session'[p].id = session[p].id
                            /\ session'[p].loop = "none" <=> session[p].loop = "none"
                            /\ session'[p].loop = "on" => session[p].loop = "on" /\ p # s
                            /\ session'[p].over = session[p].over /\ session'[p].work = session[p].work
                            /\ p # c => session'[p].status = session[p].status
                            /\ session'[p].cancelled = session[p].cancelled
    <3>1. \A p \in Sessions : /\ M[p].id = session[p].id
                              /\ M[p].loop = "none" <=> session[p].loop = "none"
                              /\ M[p].loop = "on" => session[p].loop = "on" /\ p # s
                              /\ M[p].over = session[p].over /\ M[p].work = session[p].work
                              /\ M[p].status = session[p].status
                              /\ M[p].cancelled = session[p].cancelled
      BY <1>1, <1>2, <1>5, <2>3
    <3>2. QED
      BY <2>1, <2>5, <2>7, <3>1
  <2>9. Live' = Live
    BY <2>8 DEF Live
  <2>10. session'[c].loop = "on" => session'[c].over
    <3>1. SUFFICES ASSUME session'[c].loop = "on"
                   PROVE  session[c].over
      BY <2>1, <2>8
    <3>2. c # s
      BY <2>1, <2>8, <3>1
    <3>3. s <= c /\ s \in Nat /\ c \in Nat
      BY <1>1, <2>1, SessionBounds
    <3>4. c > s
      BY <3>2, <3>3
    <3>5. SessionInv(s)
      BY DEF Inv, SessionsInv
    <3>6. QED
      BY <1>1, <2>1, <3>4, <3>5 DEF SessionInv
  <2>11. snap' \in [Sessions -> Snapshots(n) \cup {None}] /\ \A p \in Sessions : snap'[p] # None => snap[p] # None
    <3>1. session[s].id \in Sessions
      BY <1>3, IdBegun
    <3>2. QED
      BY <1>3, <1>7, <3>1
  <2>12. SessionsInv'
    <3>1. ASSUME NEW p \in Sessions
          PROVE  SessionInv(p)'
      <4>1. SessionInv(p)
        BY DEF Inv, SessionsInv
      <4>2. session'[p].loop = "on" /\ ~session'[p].cancelled
              => session'[p].over \/ (current' = p /\ session'[p].status = "running")
        BY <1>1, <2>1, <2>8, <2>10, <4>1 DEF SessionInv
      <4>3. QED
        BY <1>1, <2>8, <4>1, <4>2 DEF SessionInv
    <3>2. QED
      BY <1>1, <2>8, <2>9, <2>11, <3>1 DEF Inv, SessionsInv
  <2>13. LeftKept /\ \A p \in Live : p \in Sessions
    BY <1>1, HappensKept DEF Live
  <2>14. QED
    BY <1>1, <1>2, <1>3, <2>7, <2>8, <2>9, <2>11, <2>12, <2>13, Managed
<1>8. QED
  BY <1>2, <1>6, <1>7 DEF Finish

\* A session begins under an ID, that of its number or of an earlier session; whoever
\* was current is cancelled, or was not running.
LEMMA Begun ==
  ASSUME NEW extra, Inv(extra), NEW o \in Fresh, NEW id \in Sessions, id <= o,
         session' \in [Sessions -> SessionShape(Len(orders))],
         session'[o].id = id, session'[o].loop = "on", session'[o].status = "running",
         \A q \in Sessions : session[q].loop = "on" /\ session[q].id = id => session'[o].over,
         \A p \in Sessions \ {o} :
           /\ session'[p].id = session[p].id /\ session'[p].loop = session[p].loop
           /\ session'[p].over = session[p].over /\ session'[p].work = session[p].work
           /\ session[p].cancelled => session'[p].cancelled
           /\ p = current /\ ~session'[p].cancelled => session[p].status # "running",
         current' = o, UNCHANGED <<snap, kill, breaker, thread, orders, pos>>, LeftKept
  PROVE  IInv'
<1>1. /\ o \in Sessions /\ session[o].loop = "none" /\ session[o].id = None
      /\ \A p \in 1 .. o - 1 : session[p].loop # "none"
      /\ \A p \in Sessions : SessionInv(p)
      /\ current \in Sessions \cup {None} /\ snap \in [Sessions -> Snapshots(Len(orders)) \cup {None}]
  BY DEF Fresh, Inv, Shapes, SessionsInv, SessionInv
<1>2. Sessions \subseteq Nat /\ None \notin Sessions
  BY SessionBounds
<1>3. \A p \in Sessions : p < o => session[p].loop # "none"
  <2>1. ASSUME NEW p \in Sessions, p < o
        PROVE  p \in 1 .. o - 1
    <3>1. p \in Nat /\ o \in Nat /\ p >= 1
      BY <1>1, <1>2, SessionBounds DEF Sessions
    <3>2. QED
      BY <2>1, <3>1
  <2>2. QED
    BY <1>1, <2>1
<1>4. \A p \in Sessions : session[p].loop # "none" => p < o
  <2>1. ASSUME NEW p \in Sessions, session[p].loop # "none"
        PROVE  p < o
    <3>1. p # o /\ ~(o < p)
      BY <1>1, <2>1 DEF SessionInv
    <3>2. p \in Nat /\ o \in Nat
      BY <1>1, <1>2
    <3>3. QED
      BY <3>1, <3>2
  <2>2. QED
    BY <2>1
<1>5. \A p \in Sessions : p # o => session'[p].loop = session[p].loop /\ session'[p].id = session[p].id
  OBVIOUS
<1>6. o \in Live' /\ Live' = Live \cup {o} /\ o \notin Live
  <2>1. o \in Live' /\ o \notin Live
    <3>1. session'[o].id = id /\ id # None
      BY <1>2
    <3>2. QED
      BY <1>1, <3>1 DEF Live
  <2>2. ASSUME NEW p, p # o
        PROVE  p \in Live' <=> p \in Live
    BY <1>5, <2>2 DEF Live
  <2>3. QED
    BY <2>1, <2>2
<1>7. ASSUME NEW s \in Sessions
      PROVE  SessionInv(s)'
  <2>1. SessionInv(s)
    BY <1>1
  <2>2. session'[s].loop = "none" => session'[s].id = None
    BY <1>5, <2>1 DEF SessionInv
  <2>3. ASSUME session'[s].loop # "none", NEW p \in Sessions, p < s
        PROVE  session'[p].loop # "none"
    <3>1. CASE s = o
      BY <1>3, <1>5, <2>3, <3>1
    <3>2. CASE s # o
      BY <1>5, <2>1, <2>3, <3>2 DEF SessionInv
    <3>3. QED
      BY <3>1, <3>2
  <2>4. session'[s].loop = "on" => session'[s].id # None
    BY <1>2, <1>5, <2>1 DEF SessionInv
  <2>5. session'[s].id # None => session'[s].id <= s
    BY <1>5, <2>1 DEF SessionInv
  <2>6. ASSUME NEW q \in Sessions, q > s, session'[s].loop = "on", session'[q].id = session'[s].id
        PROVE  session'[q].over
    <3>1. CASE q = o
      <4>1. s # o
        BY <1>1, <1>2, <2>6, <3>1
      <4>2. QED
        BY <1>5, <2>6, <3>1, <4>1
    <3>2. CASE s = o
      <4>1. session[q].loop = "none" /\ q # o
        <5>1. q \in Nat /\ o \in Nat
          BY <1>1, <1>2
        <5>2. ~(q < o) /\ q # o
          BY <2>6, <3>2, <5>1
        <5>3. QED
          BY <1>1, <1>4, <5>2
      <4>2. session'[q].id = None
        BY <1>1, <1>5, <4>1 DEF SessionInv
      <4>3. QED
        BY <1>2, <2>6, <3>2, <4>2
    <3>3. CASE q # o /\ s # o
      BY <2>1, <2>6, <3>3 DEF SessionInv
    <3>4. QED
      BY <3>1, <3>2, <3>3
  <2>7. session'[s].loop = "on" /\ ~session'[s].cancelled
          => session'[s].over \/ (current' = s /\ session'[s].status = "running")
    <3>1. CASE s = o
      BY <3>1
    <3>2. CASE s # o
      BY <2>1, <3>2 DEF SessionInv
    <3>3. QED
      BY <3>1, <3>2
  <2>8. QED
    BY <2>2, <2>3, <2>4, <2>5, <2>6, <2>7 DEF SessionInv
<1>8. \A p \in Sessions : session'[p].loop # "none" => p <= o
  <2>1. ASSUME NEW p \in Sessions, session'[p].loop # "none"
        PROVE  p <= o
    <3>1. p \in Nat /\ o \in Nat
      BY <1>1, <1>2
    <3>2. p = o \/ p < o
      BY <1>4, <1>5, <2>1
    <3>3. QED
      BY <3>1, <3>2
  <2>2. QED
    BY <2>1
<1>9. \A s \in Sessions : snap'[s] # None => session'[s].loop # "none"
  BY <1>5 DEF Inv, SessionsInv
<1>10. SessionsInv'
  BY <1>6, <1>7, <1>8, <1>9 DEF SessionsInv
<1>11. \A p \in Live : p \in Live' /\ session'[p].work = session[p].work
  BY <1>6 DEF Live
<1>12. \A p \in Sessions : session[p].loop # "none" => session'[p].loop # "none"
  BY <1>5
<1>13. \A p \in Live' : p \in Live \/ session[p].loop = "none"
  BY <1>1, <1>6
<1>14. current' \in Sessions \cup {None} /\ snap' \in [Sessions -> Snapshots(Len(orders)) \cup {None}]
  BY <1>1
<1>15. QED
  BY <1>10, <1>11, <1>12, <1>13, <1>14, Managed

LEMMA StartSessionKept ==
  ASSUME NEW extra, Inv(extra), StartSession
  PROVE  IInv'
<1>1. PICK o \in Fresh :
        /\ session' = [p \in Sessions |->
             IF p = o THEN [Unused EXCEPT !.id = o, !.status = "running", !.loop = "on"]
             ELSE IF p = current /\ session[p].status = "running"
                  THEN [session[p] EXCEPT !.cancelled = TRUE, !.status = "stopped"]
                  ELSE session[p]]
        /\ current' = o
  BY DEF StartSession
<1>2. UNCHANGED <<snap, kill, breaker, thread, orders, pos>> /\ LeftKept
  BY SpendKept DEF StartSession
<1>3. PICK n, N : n = Len(orders) /\ N = [Unused EXCEPT !.id = o, !.status = "running", !.loop = "on"]
  OBVIOUS
<1>4. /\ o \in Sessions /\ session[o].loop = "none" /\ n \in Nat
      /\ session \in [Sessions -> SessionShape(n)]
  BY <1>3, OrderTyped DEF Fresh, Inv, Shapes
<1>5. /\ N \in SessionShape(n) /\ N.id = o /\ N.loop = "on" /\ N.status = "running"
  <2>1. <<>> \in Lists(n)
    BY <1>4, ListEmpty
  <2>2. N = [id |-> o, status |-> "running", phase |-> "preparing", loop |-> "on",
             cancelled |-> FALSE, paused |-> FALSE, halted |-> FALSE, lots |-> 0,
             stops |-> FALSE, work |-> <<>>, over |-> FALSE]
    BY <1>3 DEF Unused
  <2>3. QED
    BY <1>4, <2>1, <2>2 DEF SessionShape
<1>6. ASSUME NEW p \in Sessions \ {o}
      PROVE  /\ session'[p] \in SessionShape(n)
             /\ session'[p].id = session[p].id /\ session'[p].loop = session[p].loop
             /\ session'[p].over = session[p].over /\ session'[p].work = session[p].work
             /\ session[p].cancelled => session'[p].cancelled
             /\ p = current /\ ~session'[p].cancelled => session[p].status # "running"
  <2>1. PICK S \in SessionShape(n) : S = session[p]
    BY <1>4
  <2>2. CASE p = current /\ S.status = "running"
    <3>1. session'[p] = [[S EXCEPT !.cancelled = TRUE] EXCEPT !.status = "stopped"]
      BY <1>1, <2>1, <2>2
    <3>2. PICK Q : Q = [S EXCEPT !.cancelled = TRUE]
      OBVIOUS
    <3>3. /\ Q \in SessionShape(n) /\ Q.id = S.id /\ Q.loop = S.loop /\ Q.over = S.over
          /\ Q.work = S.work /\ Q.cancelled
      BY <2>1, <3>2 DEF SessionShape
    <3>4. PICK R : R = session'[p]
      OBVIOUS
    <3>5. R = [Q EXCEPT !.status = "stopped"]
      BY <3>1, <3>2, <3>4
    <3>6. /\ R \in SessionShape(n) /\ R.id = S.id /\ R.loop = S.loop /\ R.over = S.over
          /\ R.work = S.work /\ R.cancelled
      BY <3>3, <3>5 DEF SessionShape
    <3>7. QED
      BY <2>1, <3>4, <3>6
  <2>3. CASE ~(p = current /\ S.status = "running")
    <3>1. session'[p] = S
      BY <1>1, <2>1, <2>3
    <3>2. QED
      BY <2>1, <2>3, <3>1
  <2>4. QED
    BY <2>2, <2>3
<1>7. session'[o] = N
  BY <1>1, <1>3, <1>4
<1>8. session' \in [Sessions -> SessionShape(n)]
  <2>1. \A p \in Sessions : session'[p] \in SessionShape(n)
    BY <1>5, <1>6, <1>7
  <2>2. PICK f : f = session'
    OBVIOUS
  <2>3. f = [p \in Sessions |-> f[p]]
    BY <1>1, <2>2
  <2>4. QED
    BY <2>1, <2>2, <2>3
<1>9. \A q \in Sessions : session[q].loop = "on" => session[q].id # o
  <2>1. ASSUME NEW q \in Sessions, session[q].loop = "on", session[q].id = o
        PROVE  FALSE
    <3>1. SessionInv(q)
      BY DEF Inv, SessionsInv
    <3>2. o \in Nat /\ q \in Nat /\ o # None
      BY <1>4, SessionBounds
    <3>3. o <= q /\ ~(o < q) /\ o # q
      BY <1>4, <2>1, <3>1, <3>2 DEF SessionInv
    <3>4. QED
      BY <3>2, <3>3
  <2>2. QED
    BY <2>1
<1>10. o <= o /\ current' = o
  <2>1. o \in Nat
    BY <1>4, SessionBounds
  <2>2. o <= o
    BY <2>1
  <2>3. current' = o
    BY <1>1, Zenon
  <2>4. QED
    BY <2>2, <2>3
<1>11. session'[o].id = o /\ session'[o].loop = "on" /\ session'[o].status = "running"
  BY <1>5, <1>7
<1>12. \A p \in Sessions \ {o} :
           /\ session'[p].id = session[p].id /\ session'[p].loop = session[p].loop
           /\ session'[p].over = session[p].over /\ session'[p].work = session[p].work
           /\ session[p].cancelled => session'[p].cancelled
           /\ p = current /\ ~session'[p].cancelled => session[p].status # "running"
  BY <1>6
<1>13. session' \in [Sessions -> SessionShape(Len(orders))]
  BY <1>3, <1>8
<1>14. \A q \in Sessions : session[q].loop = "on" /\ session[q].id = o => session'[o].over
  BY <1>9
<1>15. QED
  BY <1>2, <1>4, <1>10, <1>11, <1>12, <1>13, <1>14, Begun

\* A resumed session gets an ID that a snapshot has, so of a session that has begun.
LEMMA ResumeSessionKept ==
  ASSUME NEW extra, Inv(extra), ResumeSession
  PROVE  IInv'
<1>1. PICK o \in Fresh, id \in Sessions, reconnectOnly \in BOOLEAN :
        /\ snap[id] # None
        /\ session' = [p \in Sessions |->
             IF p = o THEN [Unused EXCEPT !.id = id, !.status = "running", !.loop = "on",
                              !.phase = snap[id].phase, !.halted = snap[id].halted,
                              !.lots = snap[id].lots, !.stops = snap[id].stops,
                              !.work = snap[id].work, !.paused = reconnectOnly,
                              !.over = \E q \in Sessions : session[q].id = id /\ session[q].loop = "on"]
             ELSE IF p = current THEN [session[p] EXCEPT !.cancelled = TRUE]
             ELSE session[p]]
        /\ current' = o
  BY DEF ResumeSession
<1>2. UNCHANGED <<snap, kill, breaker, thread, orders, pos>> /\ LeftKept
  BY SpendKept DEF ResumeSession
<1>3. PICK n, K, over, N :
        /\ n = Len(orders) /\ K = snap[id]
        /\ over = (\E q \in Sessions : session[q].id = id /\ session[q].loop = "on")
        /\ N = [Unused EXCEPT !.id = id, !.status = "running", !.loop = "on",
                  !.phase = K.phase, !.halted = K.halted, !.lots = K.lots, !.stops = K.stops,
                  !.work = K.work, !.paused = reconnectOnly, !.over = over]
  OBVIOUS
<1>4. /\ o \in Sessions /\ session[o].loop = "none" /\ n \in Nat
      /\ session \in [Sessions -> SessionShape(n)] /\ K \in Snapshots(n) /\ over \in BOOLEAN
  BY <1>1, <1>3, OrderTyped DEF Fresh, Inv, Shapes
<1>5. /\ N \in SessionShape(n) /\ N.id = id /\ N.loop = "on" /\ N.status = "running"
      /\ N.over = over
  <2>1. N = [id |-> id, status |-> "running", phase |-> K.phase, loop |-> "on",
             cancelled |-> FALSE, paused |-> reconnectOnly, halted |-> K.halted, lots |-> K.lots,
             stops |-> K.stops, work |-> K.work, over |-> over]
    BY <1>3, ZenonT(40) DEF Unused
  <2>2. /\ K.phase \in {"preparing", "ready", "trading"} /\ K.halted \in BOOLEAN /\ K.lots \in Int
        /\ K.stops \in BOOLEAN /\ K.work \in Lists(n)
    BY <1>4 DEF Snapshots
  <2>3. QED
    BY <1>4, <2>1, <2>2 DEF SessionShape
<1>6. ASSUME NEW p \in Sessions \ {o}
      PROVE  /\ session'[p] \in SessionShape(n)
             /\ session'[p].id = session[p].id /\ session'[p].loop = session[p].loop
             /\ session'[p].over = session[p].over /\ session'[p].work = session[p].work
             /\ session[p].cancelled => session'[p].cancelled
             /\ p = current /\ ~session'[p].cancelled => session[p].status # "running"
  <2>1. PICK S \in SessionShape(n) : S = session[p]
    BY <1>4
  <2>2. CASE p = current
    <3>1. PICK R : R = session'[p]
      OBVIOUS
    <3>2. R = [S EXCEPT !.cancelled = TRUE]
      BY <1>1, <2>1, <2>2, <3>1
    <3>3. /\ R \in SessionShape(n) /\ R.id = S.id /\ R.loop = S.loop /\ R.over = S.over
          /\ R.work = S.work /\ R.cancelled
      BY <2>1, <3>2 DEF SessionShape
    <3>4. QED
      BY <2>1, <3>1, <3>3
  <2>3. CASE p # current
    <3>1. session'[p] = S
      BY <1>1, <2>1, <2>3
    <3>2. QED
      BY <2>1, <2>3, <3>1
  <2>4. QED
    BY <2>2, <2>3
<1>7. session'[o] = N
  BY <1>1, <1>3, <1>4
<1>8. session' \in [Sessions -> SessionShape(n)]
  <2>1. \A p \in Sessions : session'[p] \in SessionShape(n)
    BY <1>5, <1>6, <1>7
  <2>2. PICK f : f = session'
    OBVIOUS
  <2>3. f = [p \in Sessions |-> f[p]]
    BY <1>1, <2>2
  <2>4. QED
    BY <2>1, <2>2, <2>3
<1>9. id <= o
  <2>1. session[id].loop # "none" /\ SessionInv(id)
    BY <1>1 DEF Inv, SessionsInv
  <2>2. ~(o < id) /\ id \in Nat /\ o \in Nat
    BY <1>4, <2>1, SessionBounds DEF SessionInv
  <2>3. QED
    BY <2>2
<1>10. session'[o].id = id /\ session'[o].loop = "on" /\ session'[o].status = "running" /\ current' = o
  BY <1>1, <1>5, <1>7
<1>11. \A p \in Sessions \ {o} :
           /\ session'[p].id = session[p].id /\ session'[p].loop = session[p].loop
           /\ session'[p].over = session[p].over /\ session'[p].work = session[p].work
           /\ session[p].cancelled => session'[p].cancelled
           /\ p = current /\ ~session'[p].cancelled => session[p].status # "running"
  BY <1>6
<1>12. session' \in [Sessions -> SessionShape(Len(orders))]
  BY <1>3, <1>8
<1>13. \A q \in Sessions : session[q].loop = "on" /\ session[q].id = id => session'[o].over
  BY <1>3, <1>5, <1>7
<1>14. QED
  BY <1>2, <1>4, <1>9, <1>10, <1>11, <1>12, <1>13, Begun

-----------------------------------------------------------------------------
(* Requests.                                                               *)

LEMMA CurrentLive ==
  ASSUME NEW extra, Inv(extra), current # None
  PROVE  current \in Live /\ current \in Sessions
BY DEF Inv, Shapes, SessionsInv

\* start-trading cancels what there is, places what the plan has, and saves.
LEMMA TradingStarts ==
  ASSUME NEW extra, Inv(extra), StartTrading, NEW c, c = current
  PROVE  \E steps : Runs(steps, extra, kill) /\ thread' = [thread EXCEPT ![Admin] = Starting(c, steps)]
<1>1. PICK S : S = session[c]
  OBVIOUS
<1>2. PICK e \in Entries :
        thread' = [thread EXCEPT ![Admin] = Starting(c, StartLive(S, e) \o <<Do("opened")>>)]
  BY <1>1 DEF StartTrading
<1>3. PICK a, b : a = StartLive(S, e) /\ b = <<Do("opened")>>
  OBVIOUS
<1>4. Runs(a, extra, kill)
  BY <1>3, StartLiveRuns
<1>5. Runs(b, extra, kill)
  BY <1>3, RunsQuiet DEF Waiting, Quiet, StepNames
<1>6. Runs(a \o b, extra, kill)
  BY <1>4, <1>5, RunsBoth
<1>7. QED
  BY <1>2, <1>3, <1>6

\* start-trading: nothing is placed while the kill switch is on.
LEMMA StartTradingKept ==
  ASSUME NEW extra, Inv(extra), StartTrading
  PROVE  IInv'
<1>1. /\ current # None /\ UNCHANGED <<current, snap, kill, breaker, orders, pos, left>>
      /\ session' = [session EXCEPT ![current].phase = "trading", ![current].paused = FALSE]
  BY DEF StartTrading
<1>2. PICK n, c, S : n = Len(orders) /\ c = current /\ S = session[c]
  OBVIOUS
<1>3. /\ c \in Live /\ c \in Sessions /\ S \in SessionShape(n) /\ LeftKept
      /\ Admin \in Threads /\ session \in [Sessions -> SessionShape(n)]
  BY <1>1, <1>2, CurrentLive, HappensKept DEF Threads, Inv, Shapes
<1>4. PICK steps : /\ Runs(steps, extra, kill)
                   /\ thread' = [thread EXCEPT ![Admin] = Starting(c, steps)]
  BY <1>2, TradingStarts
<1>5. PICK Q : Q = [S EXCEPT !.phase = "trading"]
  OBVIOUS
<1>6. /\ Q \in SessionShape(n) /\ Q.id = S.id /\ Q.loop = S.loop /\ Q.cancelled = S.cancelled
      /\ Q.status = S.status /\ Q.over = S.over /\ Q.work = S.work
  BY <1>3, <1>5 DEF SessionShape
<1>7. PICK R : R = [Q EXCEPT !.paused = FALSE]
  OBVIOUS
<1>8. /\ R \in SessionShape(n) /\ R.id = S.id /\ R.loop = S.loop /\ R.cancelled = S.cancelled
       /\ R.status = S.status /\ R.over = S.over /\ R.work = S.work
  BY <1>6, <1>7 DEF SessionShape
<1>9. Changed(c, R)
  <2>1. PICK M : M = [session EXCEPT ![c] = Q]
    OBVIOUS
  <2>2. M = [session EXCEPT ![c].phase = "trading"] /\ M[c] = Q
    BY <1>2, <1>3, <1>5, <2>1
  <2>3. session' = [M EXCEPT ![c].paused = FALSE]
    BY <1>1, <1>2, <2>2
  <2>4. session' = [M EXCEPT ![c] = R]
    BY <1>7, <2>2, <2>3
  <2>5. QED
    BY <2>1, <2>4 DEF Changed
<1>10. QED
  BY <1>1, <1>2, <1>3, <1>4, <1>8, <1>9, StartKept

LEMMA StopStarts ==
  ASSUME NEW extra, Inv(extra), StopSession, NEW c, c = current
  PROVE  \E steps : Runs(steps, extra, kill) /\ thread' = [thread EXCEPT ![Admin] = Starting(c, steps)]
<1>1. PICK first, last :
        /\ last = <<Do("stopped")>>
        /\ first = IF session[c].status = "running" THEN <<Do("cancel")>> ELSE <<>>
  OBVIOUS
<1>2. Runs(<<>>, extra, kill)
  BY DEF Runs
<1>3. Runs(<<Do("cancel")>>, extra, kill) /\ Runs(<<Do("stopped")>>, extra, kill)
  BY RunsQuiet DEF Waiting, Quiet, StepNames
<1>4. Runs(first, extra, kill) /\ Runs(last, extra, kill)
  BY <1>1, <1>2, <1>3
<1>5. Runs(first \o last, extra, kill)
  BY <1>4, RunsBoth
<1>6. thread' = [thread EXCEPT ![Admin] = Starting(c, first \o last)]
  BY <1>1 DEF StopSession
<1>7. QED
  BY <1>5, <1>6

LEMMA StopSessionKept ==
  ASSUME NEW extra, Inv(extra), StopSession
  PROVE  IInv'
<1>1. current # None /\ UNCHANGED <<session, current, snap, kill, breaker, orders, pos>>
  BY DEF StopSession
<1>2. PICK n, c : n = Len(orders) /\ c = current
  OBVIOUS
<1>3. LeftKept
  BY HappensKept DEF StopSession, Events
<1>4. /\ c \in Live /\ c \in Sessions /\ Admin \in Threads /\ session[c] \in SessionShape(n)
  BY <1>1, <1>2, CurrentLive DEF Threads, Inv, Shapes
<1>5. PICK steps : Runs(steps, extra, kill) /\ thread' = [thread EXCEPT ![Admin] = Starting(c, steps)]
  BY <1>2, StopStarts
<1>6. Changed(c, session[c])
  BY <1>1, <1>4, Unchanged
<1>7. QED
  BY <1>1, <1>2, <1>3, <1>4, <1>5, <1>6, StartKept

LEMMA FlattenStarts ==
  ASSUME NEW extra, Inv(extra), Flatten, NEW c, c = current
  PROVE  \E steps : Runs(steps, extra, kill) /\ thread' = [thread EXCEPT ![Flattening] = Starting(c, steps)]
<1>1. \A x \in {"cancel", "close", "truth"} :
        Do(x) \in StepShape(extra) /\ Do(x).do \in Waiting /\ Do(x).do \in Quiet
  BY DoShape DEF Inv, Shapes, StepNames, Waiting, Quiet
<1>2. PICK x, y, z : x = Do("cancel") /\ y = Do("close") /\ z = Do("truth")
  OBVIOUS
<1>3. Runs(<<x, y, z>>, extra, kill)
  BY <1>1, <1>2 DEF Runs
<1>4. thread' = [thread EXCEPT ![Flattening] = Starting(c, <<x, y, z>>)]
  BY <1>2 DEF Flatten
<1>5. QED
  BY <1>3, <1>4

LEMMA FlattenKept ==
  ASSUME NEW extra, Inv(extra), Flatten
  PROVE  IInv'
<1>1. current # None /\ UNCHANGED <<session, current, snap, kill, breaker, orders, pos>>
  BY DEF Flatten
<1>2. PICK n, c : n = Len(orders) /\ c = current
  OBVIOUS
<1>3. LeftKept
  BY HappensKept DEF Flatten, Events
<1>4. /\ c \in Live /\ c \in Sessions /\ Flattening \in Threads /\ session[c] \in SessionShape(n)
  BY <1>1, <1>2, CurrentLive DEF Threads, Inv, Shapes
<1>5. PICK steps : Runs(steps, extra, kill) /\ thread' = [thread EXCEPT ![Flattening] = Starting(c, steps)]
  BY <1>2, FlattenStarts
<1>6. Changed(c, session[c])
  BY <1>1, <1>4, Unchanged
<1>7. QED
  BY <1>1, <1>2, <1>3, <1>4, <1>5, <1>6, StartKept

\* The operator's switch; once it is off, nobody is said to have found it on.
LEMMA SetKillSwitchKept ==
  ASSUME NEW extra, Inv(extra), SetKillSwitch
  PROVE  IInv'
<1>1. /\ kill' = ~kill /\ UNCHANGED <<session, current, snap, breaker, orders, pos>>
      /\ thread' = IF kill THEN [t \in Threads |-> [thread[t] EXCEPT !.killed = FALSE]] ELSE thread
  BY DEF SetKillSwitch
<1>2. LeftKept
  BY HappensKept DEF SetKillSwitch, Events
<1>3. Live' = Live /\ Owed' = Owed /\ kill \in BOOLEAN
  BY <1>1 DEF Live, Owed, Working, Inv, Shapes
<1>4. ASSUME NEW t \in Threads
      PROVE  ThreadOK(thread'[t], extra, Len(orders), Live, kill', Owed)
  <2>1. PICK T, n : T = thread[t] /\ n = Len(orders)
    OBVIOUS
  <2>2. ThreadOK(T, extra, n, Live, kill, Owed) /\ T \in ThreadShape(extra, n)
    BY <2>1, AsItIs DEF ThreadOK
  <2>3. CASE kill
    <3>1. PICK U : U = [T EXCEPT !.killed = FALSE]
      OBVIOUS
    <3>2. /\ U \in ThreadShape(extra, n) /\ U.run = T.run /\ U.obj = T.obj /\ U.list = T.list
          /\ U.keep = T.keep /\ U.holds = T.holds /\ ~U.killed
      BY <2>2, <3>1 DEF ThreadShape
    <3>3. ThreadOK(U, extra, n, Live, FALSE, Owed)
      BY <2>2, <3>2 DEF ThreadOK
    <3>4. thread'[t] = U /\ kill' = FALSE
      BY <1>1, <2>1, <2>3, <3>1
    <3>5. QED
      BY <2>1, <3>3, <3>4
  <2>4. CASE ~kill
    <3>1. ThreadOK(T, extra, n, Live, TRUE, Owed)
      BY <2>2, <2>4 DEF ThreadOK
    <3>2. thread'[t] = T /\ kill' = TRUE
      BY <1>1, <2>1, <2>4
    <3>3. QED
      BY <2>1, <3>1, <3>2
  <2>5. QED
    BY <2>3, <2>4
<1>5. DOMAIN thread' = Threads
  <2>1. DOMAIN thread = Threads
    BY DEF Inv, ThreadsInv
  <2>2. QED
    BY <1>1, <2>1
<1>6. ThreadsInv(extra)'
  <2>1. ASSUME NEW t \in Threads
        PROVE  ThreadOK(thread'[t], extra, Len(orders'), Live', kill', Owed')
    BY <1>1, <1>3, <1>4
  <2>2. QED
    BY <1>5, <2>1 DEF ThreadsInv
<1>7. SessionsInv'
  BY <1>1, <1>3 DEF Inv, SessionsInv, SessionInv
<1>8. OrdersInv'
  BY <1>1, <1>3 DEF Inv, OrdersInv
<1>9. kill' \in BOOLEAN
  BY <1>1
<1>10. Shapes(extra)'
  BY <1>1, <1>2, <1>9 DEF Inv, Shapes, LeftKept
<1>11. QED
  BY <1>6, <1>7, <1>8, <1>10 DEF IInv, Inv

-----------------------------------------------------------------------------
(* The broker, time, and the runner's end.                                 *)

\* What the broker fills need not be kept track of.
LEMMA FillKept ==
  ASSUME NEW extra, Inv(extra), NEW n, Fill(n)
  PROVE  IInv'
<1>1. /\ n \in DOMAIN orders /\ orders[n].status = "working"
      /\ UNCHANGED <<session, current, snap, kill, breaker, thread, left>>
      /\ orders' = [orders EXCEPT ![n].status = "filled"]
      /\ pos' = pos + orders[n].side * orders[n].shares
  BY DEF Fill, Working
<1>2. PICK O \in OrderShape(extra) : O = orders[n]
  BY <1>1, OrderTyped
<1>3. PICK N : N = [O EXCEPT !.status = "filled"]
  OBVIOUS
<1>4. /\ N \in OrderShape(extra) /\ N.late = O.late /\ N.by = O.by /\ N.kind = O.kind
      /\ N.raced = O.raced /\ N.asked = O.asked /\ N.status # "working"
  BY <1>2, <1>3 DEF OrderShape
<1>5. orders' = [orders EXCEPT ![n] = N]
  BY <1>1, <1>2, <1>3
<1>6. /\ orders' \in Seq(OrderShape(extra)) /\ Len(orders') = Len(orders)
      /\ \A i \in DOMAIN orders : orders'[i].late = orders[i].late /\ orders'[i].by = orders[i].by
      /\ \A p \in Sessions : Owed'[p] \subseteq Owed[p]
  BY <1>1, <1>2, <1>4, <1>5, OrderChanged, ZenonT(40)
<1>7. pos' \in Int
  <2>1. O.side \in {-1, 0, 1} /\ O.shares \in Nat /\ pos \in Int
    BY <1>2 DEF OrderShape, Inv, Shapes
  <2>2. O.side * O.shares \in Int
    BY <2>1
  <2>3. pos' = pos + O.side * O.shares
    BY <1>1, <1>2
  <2>4. QED
    BY <2>1, <2>2, <2>3
<1>8. Admin \in Threads /\ DOMAIN thread' = Threads /\ LeftKept /\ breaker' \in Risk!Breaker
  BY <1>1, HappensKept DEF Threads, Inv, ThreadsInv, Shapes
<1>9. ThreadOK(thread'[Admin], extra, Len(orders), Live, kill, Owed')
  <2>1. PICK T, m, live, on, owed, owed2 : /\ T = thread[Admin] /\ m = Len(orders) /\ live = Live
                                           /\ on = kill /\ owed = Owed /\ owed2 = Owed'
    OBVIOUS
  <2>2. ThreadOK(T, extra, m, live, on, owed)
    BY <1>8, <2>1, AsItIs
  <2>3. T.run # <<>> => T.obj \in live /\ owed2[T.obj] \subseteq owed[T.obj]
    BY <1>6, <2>1, <2>2 DEF ThreadOK, Live
  <2>4. m \in Nat /\ m <= m /\ extra \subseteq extra
    BY <2>1, OrderTyped
  <2>5. ThreadOK(T, extra, m, live, on, owed2)
    BY <2>2, <2>3, <2>4, StaysOK
  <2>6. QED
    BY <1>1, <2>1, <2>5
<1>10. SameSessions /\ session' \in [Sessions -> SessionShape(Len(orders))]
  BY <1>1 DEF SameSessions, Inv, Shapes
<1>11. \A p \in Live : Owed'[p] \subseteq Range(session'[p].work)
  BY <1>1, <1>6 DEF Inv, OrdersInv, Live
<1>12. extra \subseteq extra /\ \A u \in Threads \ {Admin} : thread'[u] = thread[u]
  BY <1>1
<1>13. QED
  BY <1>1, <1>6, <1>7, <1>8, <1>9, <1>10, <1>11, <1>12, Stepped

\* Nothing but the breaker changes.
LEMMA StillKept ==
  ASSUME NEW extra, Inv(extra), breaker' \in Risk!Breaker,
         UNCHANGED <<session, current, snap, kill, thread, orders, pos, left>>
  PROVE  IInv'
<1>1. Live' = Live /\ Owed' = Owed
  BY DEF Live, Owed, Working
<1>2. SessionsInv'
  BY <1>1 DEF Inv, SessionsInv, SessionInv
<1>3. ThreadsInv(extra)' /\ OrdersInv'
  BY <1>1 DEF Inv, ThreadsInv, OrdersInv
<1>4. Shapes(extra)'
  BY DEF Inv, Shapes
<1>5. QED
  BY <1>2, <1>3, <1>4 DEF IInv, Inv

LEMMA CoolDownKept ==
  ASSUME NEW extra, Inv(extra), CoolDown
  PROVE  IInv'
<1>1. breaker \in Risk!Breaker /\ breaker' = [breaker EXCEPT !.cooled = TRUE]
  BY DEF CoolDown, Inv, Shapes
<1>2. breaker' \in Risk!Breaker
  BY <1>1 DEF Risk!Breaker
<1>3. QED
  BY <1>2, StillKept DEF CoolDown

\* A crash leaves no object that owes an order.
LEMMA CrashKept ==
  ASSUME NEW extra, Inv(extra), Crash
  PROVE  IInv'
<1>1. /\ session' = [o \in Sessions |->
           IF session[o].loop = "none" THEN session[o] ELSE [Unused EXCEPT !.loop = "off"]]
      /\ current' = None /\ kill' = FALSE /\ breaker' = Risk!NewCircuitBreaker
      /\ thread' = [t \in Threads |-> Idle] /\ UNCHANGED <<snap, orders, pos>>
  BY DEF Crash
<1>2. LeftKept
  BY HappensKept DEF Crash, Events
<1>3. PICK n, N, f : n = Len(orders) /\ N = [Unused EXCEPT !.loop = "off"] /\ f = session'
  OBVIOUS
<1>4. session \in [Sessions -> SessionShape(n)] /\ n \in Nat /\ \A p \in Sessions : SessionInv(p)
  BY <1>3, OrderTyped DEF Inv, Shapes, SessionsInv
<1>5. N \in SessionShape(n) /\ N.loop = "off" /\ N.id = None
  <2>1. <<>> \in Lists(n)
    BY <1>4, ListEmpty
  <2>2. N = [id |-> None, status |-> "stopped", phase |-> "preparing", loop |-> "off",
             cancelled |-> FALSE, paused |-> FALSE, halted |-> FALSE, lots |-> 0,
             stops |-> FALSE, work |-> <<>>, over |-> FALSE]
    BY <1>3 DEF Unused
  <2>3. QED
    BY <2>1, <2>2 DEF SessionShape
<1>6. f \in [Sessions -> SessionShape(n)] /\ \A p \in Sessions : f[p] = IF session[p].loop = "none" THEN session[p] ELSE N
  BY <1>1, <1>3, <1>4, <1>5
<1>7. \A p \in Sessions : /\ session'[p].id = None /\ session'[p].loop # "on"
                          /\ session'[p].loop = "none" <=> session[p].loop = "none"
  BY <1>3, <1>4, <1>5, <1>6 DEF SessionInv
<1>8. Live' = {}
  BY <1>7 DEF Live
<1>9. \A p \in Sessions : SessionInv(p)'
  BY <1>4, <1>7 DEF SessionInv
<1>10. SessionsInv'
  BY <1>1, <1>7, <1>9 DEF SessionsInv, Inv
<1>11. OrdersInv'
  <2>1. \A i \in DOMAIN orders : orders[i].by \in Sessions
    BY OrderTyped DEF OrderShape
  <2>2. QED
    BY <1>1, <1>7, <1>8, <2>1 DEF OrdersInv, Inv
<1>12. ThreadsInv(extra)'
  <2>1. PICK owed, live, m : owed = Owed' /\ live = Live' /\ m = Len(orders')
    OBVIOUS
  <2>2. m \in Nat
    BY <1>1, <2>1, OrderTyped
  <2>3. ThreadOK(Idle, extra, m, live, FALSE, owed)
    BY <2>2, IdleOK
  <2>4. ASSUME NEW t \in Threads
        PROVE  ThreadOK(thread'[t], extra, Len(orders'), Live', kill', Owed')
    BY <1>1, <2>1, <2>3
  <2>5. QED
    BY <1>1, <2>4 DEF ThreadsInv
<1>13. breaker' \in Risk!Breaker
  BY <1>1, BreakerKept DEF Inv, Shapes
<1>14. Shapes(extra)'
  BY <1>1, <1>2, <1>3, <1>6, <1>13 DEF Inv, Shapes, LeftKept
<1>15. QED
  BY <1>10, <1>11, <1>12, <1>14 DEF IInv, Inv

-----------------------------------------------------------------------------
(* The theorems.                                                           *)

LEMMA InitIInv ==
  Init => IInv
<1>1. SUFFICES ASSUME Init
               PROVE  IInv
  OBVIOUS
<1>2. PICK extra : extra = {0}
  OBVIOUS
<1>3. orders = <<>> /\ Len(orders) = 0 /\ DOMAIN orders = {}
  BY <1>1 DEF Init
<1>4. <<>> \in Lists(0)
  BY ListEmpty
<1>5. Unused \in SessionShape(0) /\ Unused.id = None /\ Unused.loop = "none"
  BY <1>4 DEF SessionShape, Unused
<1>6. \A p \in Sessions : session[p] = Unused /\ snap[p] = None
  BY <1>1 DEF Init
<1>7. Shapes(extra)
  <2>1. breaker \in Risk!Breaker
    <3>1. Threshold \in Nat \ {0}
      BY AiTraderAssumption DEF Risk!RiskAssumption
    <3>2. QED
      BY <1>1, <3>1 DEF Init, Risk!NewCircuitBreaker, Risk!Breaker
  <2>2. left \in Budget /\ left.orders <= MaxOrders /\ left.orders \in Nat
    BY <1>1, Bounds, AiTraderAssumption DEF Init, Budget
  <2>3. session \in [Sessions -> SessionShape(0)] /\ snap \in [Sessions -> Snapshots(0) \cup {None}]
    BY <1>1, <1>5 DEF Init
  <2>4. orders \in Seq(OrderShape(extra))
    BY <1>3
  <2>5. 0 + left.orders <= MaxOrders
    BY <2>2
  <2>6. 0 \in extra /\ current \in Sessions \cup {None} /\ kill \in BOOLEAN /\ pos \in Int
    <3>1. 0 \in extra
      BY <1>2
    <3>2. current = None /\ kill = FALSE /\ pos = 0
      BY <1>1, Zenon DEF Init
    <3>3. kill \in BOOLEAN
      BY <3>2, Zenon
    <3>4. current \in Sessions \cup {None} /\ pos \in Int
      BY <3>2
    <3>5. QED
      BY <3>1, <3>3, <3>4
  <2>7. PICK n : n = Len(orders)
    OBVIOUS
  <2>8. n = 0
    BY <1>3, <2>7
  <2>9. /\ session \in [Sessions -> SessionShape(n)] /\ snap \in [Sessions -> Snapshots(n) \cup {None}]
        /\ n + left.orders <= MaxOrders
    BY <2>3, <2>5, <2>8
  <2>10. QED
    BY <2>1, <2>2, <2>4, <2>6, <2>7, <2>9 DEF Shapes
<1>8. Live = {}
  BY <1>5, <1>6 DEF Live
<1>9. ThreadsInv(extra)
  <2>1. ASSUME NEW t \in Threads
        PROVE  ThreadOK(thread[t], extra, Len(orders), Live, kill, Owed)
    <3>1. PICK owed, live, on : owed = Owed /\ live = Live /\ on = kill
      OBVIOUS
    <3>2. ThreadOK(Idle, extra, 0, live, on, owed)
      BY IdleOK
    <3>3. thread[t] = Idle
      BY <1>1 DEF Init
    <3>4. QED
      BY <1>3, <3>1, <3>2, <3>3
  <2>2. DOMAIN thread = Threads
    BY <1>1 DEF Init
  <2>3. QED
    BY <2>1, <2>2 DEF ThreadsInv
<1>10. SessionsInv
  <2>1. current = None
    BY <1>1 DEF Init
  <2>2. \A p \in Sessions : SessionInv(p)
    BY <1>5, <1>6 DEF SessionInv
  <2>3. QED
    BY <1>6, <2>1, <2>2 DEF SessionsInv
<1>11. OrdersInv
  BY <1>3, <1>8 DEF OrdersInv
<1>12. QED
  BY <1>7, <1>9, <1>10, <1>11 DEF IInv, Inv

LEMMA NextIInv ==
  IInv /\ [Next]_vars => IInv'
<1>1. SUFFICES ASSUME NEW extra, Inv(extra), [Next]_vars
               PROVE  IInv'
  BY DEF IInv
<1>2. ASSUME NEW t \in Threads, ThreadStep(t)
      PROVE  IInv'
  BY <1>1, <1>2, PlaceLimitKept, CloseKept, ShutPositionKept, PostKept, CancelAllKept,
     DropOrderKept, SyncOrdersKept, GetOrderStateKept, ReadPositionKept, AdoptPositionKept,
     GatesKept, ManageKept, EnterKept, SaveKept, WriteSnapshotKept, OpenedKept, StoppedKept
     DEF ThreadStep
<1>3. ASSUME NEW s \in Sessions, Tick(s) \/ Finish(s) \/ SessionTimeout(s)
      PROVE  IInv'
  BY <1>1, <1>3, TickKept, FinishKept, SessionTimeoutKept
<1>4. CASE Request
  BY <1>1, <1>4, StartSessionKept, ResumeSessionKept, StartTradingKept, StopSessionKept,
     FlattenKept, SetKillSwitchKept DEF Request
<1>5. ASSUME NEW n \in 1 .. MaxOrders, Fill(n)
      PROVE  IInv'
  BY <1>1, <1>5, FillKept
<1>6. CASE CoolDown
  BY <1>1, <1>6, CoolDownKept
<1>7. CASE Crash
  BY <1>1, <1>7, CrashKept
<1>8. CASE UNCHANGED vars
  <2>1. breaker' \in Risk!Breaker /\ UNCHANGED <<session, current, snap, kill, thread, orders, pos, left>>
    BY <1>1, <1>8 DEF vars, Inv, Shapes
  <2>2. QED
    BY <1>1, <2>1, StillKept
<1>9. QED
  BY <1>1, <1>2, <1>3, <1>4, <1>5, <1>6, <1>7, <1>8 DEF Next

\* The inductive invariant holds throughout: each goroutine that is rewriting a session's
\* list holds every order the session may not lose, and sessions are begun in order.
THEOREM Invariant == Spec => []IInv
BY InitIInv, NextIInv, PTL DEF Spec

\* The state keeps its shape, whatever the budget: a list of working orders names each
\* once, and a goroutine between two calls of cancelAllLiveOrders or syncLiveOrderStates
\* has an order left.
THEOREM TypeCorrect == Spec => []TypeOK
<1>1. IInv => TypeOK
  <2>1. SUFFICES ASSUME NEW extra, Inv(extra)
                 PROVE  TypeOK
    BY DEF IInv
  <2>2. PICK n : n = Len(orders)
    OBVIOUS
  <2>3. n \in Nat /\ n <= MaxOrders
    <3>1. left.orders \in Nat /\ Len(orders) + left.orders <= MaxOrders /\ Len(orders) \in Nat
      BY <2>1, OrderTyped DEF Inv, Shapes, Budget
    <3>2. QED
      BY <2>2, <3>1, Bounds
  <2>4. ASSUME NEW s \in Sessions
        PROVE  session[s] \in SessionType /\ Cardinality(Range(session[s].work)) = Len(session[s].work)
    <3>1. PICK S \in SessionShape(n) : S = session[s]
      BY <2>1, <2>2 DEF Inv, Shapes
    <3>2. S.work \in Lists(n) /\ S.work \in Lists(MaxOrders)
      BY <2>3, <3>1, ListsGrow, Bounds DEF SessionShape
    <3>3. S.work \in Seq(1 .. MaxOrders)
      BY <3>2 DEF Lists
    <3>4. S \in SessionType
      BY <3>1, <3>3 DEF SessionShape, SessionType
    <3>5. Cardinality(Range(S.work)) = Len(S.work)
      BY <2>3, <3>2, ListCounted
    <3>6. QED
      BY <3>1, <3>4, <3>5
  <2>5. ASSUME NEW t \in Threads
        PROVE  /\ thread[t].run # <<>> => thread[t].obj \in Sessions
               /\ At(t, "query") \/ At(t, "drop") => thread[t].list # <<>>
    <3>1. thread[t].run # <<>> => thread[t].obj \in Sessions
      BY <2>1 DEF Inv, ThreadsInv, ThreadOK, Live
    <3>2. ASSUME NEW x \in {"query", "drop"}, At(t, x)
          PROVE  thread[t].list # <<>>
      BY <2>1, <3>2, AtHead DEF ThreadOK
    <3>3. QED
      BY <3>1, <3>2
  <2>6. QED
    BY <2>1, <2>4, <2>5 DEF Inv, Shapes, TypeOK
<1>2. QED
  BY <1>1, Invariant, PTL

\* No order is posted by a tick or a request that began while the kill switch was on and
\* has stayed on: the gate of the tick, start-trading and the risk gate of a closing order
\* each ask again, and nothing else leads to an order.
THEOREM KilledQuiet == Spec => []KilledStaysQuiet
<1>1. IInv => KilledStaysQuiet
  BY DEF IInv, Inv, OrdersInv, KilledStaysQuiet
<1>2. QED
  BY <1>1, Invariant, PTL

\* An order that works is in its session's list until its cancellation was asked for, but
\* for one posted into the middle of a rewriting of the list.
THEOREM KeepsOrders == Spec => []WorkingOrdersKept
<1>1. IInv => WorkingOrdersKept
  <2>1. SUFFICES ASSUME NEW extra, Inv(extra), NEW n \in DOMAIN orders,
                        Working(n), orders[n].kind = "limit", ~orders[n].asked, ~orders[n].raced,
                        session[orders[n].by].id # None
                 PROVE  n \in Range(session[orders[n].by].work)
    BY DEF IInv, WorkingOrdersKept
  <2>2. PICK o : o = orders[n].by
    OBVIOUS
  <2>3. o \in Sessions
    BY <2>1, <2>2, OrderTyped DEF OrderShape
  <2>4. o \in Live /\ n \in Owed[o]
    BY <2>1, <2>2, <2>3 DEF Live, Owed
  <2>5. QED
    BY <2>1, <2>2, <2>4 DEF Inv, OrdersInv
<1>2. QED
  BY <1>1, Invariant, PTL

\* A loop that nobody cancelled is found by the session manager under its ID and is running,
\* or was resumed beside the loop it replaced, whose end marks it as stopped.
THEOREM LoopsListed == Spec => []LoopsAreListed
<1>1. IInv => LoopsAreListed
  BY DEF IInv, Inv, SessionsInv, SessionInv, LoopsAreListed
<1>2. QED
  BY <1>1, Invariant, PTL
=============================================================================
