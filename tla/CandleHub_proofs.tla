---------------------------- MODULE CandleHub_proofs ----------------------------
(***************************************************************************)
(* TypeOK, OneGroup, MakerServed and ReceivedInOrder for any number of     *)
(* subscribers and candles and any capacity of the channels.               *)
(***************************************************************************)
EXTENDS CandleHub, SequenceTheorems, TLAPS

-----------------------------------------------------------------------------
(* The inductive invariant.                                                *)

\* The candles of the instrument in a channel are those after lo up to hi, in order.
Carries(seq, lo, hi) ==
  /\ lo <= hi
  /\ \A i \in 1..Len(seq) : seq[i] # Foreign => seq[i] \in (lo + 1)..hi
  /\ \A c \in (lo + 1)..hi : \E i \in 1..Len(seq) : seq[i] = c
  /\ \A i, j \in 1..Len(seq) :
       i < j /\ seq[i] # Foreign /\ seq[j] # Foreign => seq[i] < seq[j]

\* The last candle of the instrument that went into a group's channel.
Fed(g) == IF g \in queue /\ item # Foreign THEN closed - 1 ELSE closed

\* The last candle that was sent to a subscriber, 0 for none.
Sent(s) == IF chan[s] = <<>> THEN got[s] ELSE chan[s][Len(chan[s])]

\* p is the last candle that group g took from its channel.
Position(g, p) ==
  /\ \E hi \in Candles : Carries(src[g], p, hi) /\ (g \in outs \cup queue => hi = Fed(g))
  /\ at[g] = "send" => candle[g] = p
  /\ \A s \in Subscribers :
       /\ Contains(todo[g], s) => Sent(s) = 0 \/ Sent(s) + 1 = p
       /\ Contains(subs[g], s) /\ ~Contains(todo[g], s) => Sent(s) = 0 \/ Sent(s) = p

SubscriberInv(s) ==
  /\ sub[s] = "new" => /\ joined[s] = Nil /\ chan[s] = <<>> /\ got[s] = 0
                       /\ at[s] = "none" /\ src[s] = <<>> /\ s \notin outs \cup queue
  /\ sub[s] \in {"on", "off", "last"} => joined[s] # Nil
  /\ joined[s] # Nil => joined[joined[s]] = joined[s]
  /\ sub[s] \in {"on", "off"} => Contains(subs[joined[s]], s)
  /\ sub[s] = "last" => InstanceDone(joined[s])

GroupInv(g) ==
  /\ cancelled[g] => InstanceDone(g)
  /\ current = g => joined[g] = g
  /\ \A s \in Subscribers : Contains(subs[g], s) => joined[s] = g /\ sub[s] \in {"on", "off"}
  /\ \A s \in Subscribers : Contains(todo[g], s) => joined[s] = g
  /\ IsInjective(subs[g]) /\ IsInjective(todo[g])
  /\ at[g] = "send" => todo[g] # <<>> /\ candle[g] # Foreign
  /\ at[g] # "send" => todo[g] = <<>>
  /\ sub[g] = "on" /\ joined[g] = g => at[g] \in {"select", "send"}

FlowInv(g) == at[g] \in {"select", "send"} => \E p \in Candles : Position(g, p)

IInv ==
  /\ TypeOK
  /\ OneGroup
  /\ \A s \in Subscribers : SubscriberInv(s)
  /\ \A g \in Subscribers : GroupInv(g) /\ FlowInv(g)
  /\ queue # {} /\ item # Foreign => item = closed
  /\ ReceivedInOrder

-----------------------------------------------------------------------------
(* Sequences.                                                              *)

LEMMA ContainsAppend ==
  ASSUME NEW S, NEW seq \in Seq(S), NEW e \in S
  PROVE  /\ Append(seq, e) \in Seq(S)
         /\ \A x : Contains(Append(seq, e), x) <=> Contains(seq, x) \/ x = e
         /\ IsInjective(seq) /\ ~Contains(seq, e) => IsInjective(Append(seq, e))
<1>1. /\ Append(seq, e) \in Seq(S) /\ Len(seq) \in Nat /\ Len(Append(seq, e)) = Len(seq) + 1
      /\ \A i \in 1..Len(seq) : Append(seq, e)[i] = seq[i]
      /\ Append(seq, e)[Len(seq) + 1] = e
  BY AppendProperties
<1>2. \A i \in 1..(Len(seq) + 1) : i \in 1..Len(seq) \/ i = Len(seq) + 1
  BY <1>1
<1>3. \A x : Contains(Append(seq, e), x) <=> Contains(seq, x) \/ x = e
  BY <1>1, <1>2 DEF Contains
<1>4. IsInjective(seq) /\ ~Contains(seq, e) => IsInjective(Append(seq, e))
  BY <1>1, <1>2 DEF Contains, IsInjective
<1>5. QED
  BY <1>1, <1>3, <1>4

LEMMA ContainsTail ==
  ASSUME NEW S, NEW seq \in Seq(S), seq # <<>>
  PROVE  /\ Tail(seq) \in Seq(S) /\ Head(seq) \in S /\ Contains(seq, Head(seq))
         /\ \A x : Contains(seq, x) <=> x = Head(seq) \/ Contains(Tail(seq), x)
         /\ IsInjective(seq) => IsInjective(Tail(seq)) /\ ~Contains(Tail(seq), Head(seq))
<1>1. /\ Tail(seq) \in Seq(S) /\ Head(seq) \in S /\ Len(seq) \in Nat \ {0}
      /\ Len(Tail(seq)) = Len(seq) - 1 /\ Head(seq) = seq[1]
      /\ \A i \in 1..Len(Tail(seq)) : Tail(seq)[i] = seq[i + 1]
  BY HeadTailProperties, EmptySeq, LenProperties
<1>2. \A i \in 1..Len(Tail(seq)) : i + 1 \in 1..Len(seq)
  BY <1>1
<1>3. \A i \in 1..Len(seq) : i = 1 \/ (i - 1 \in 1..Len(Tail(seq)) /\ Tail(seq)[i - 1] = seq[i])
  BY <1>1
<1>4. ASSUME NEW x
      PROVE  Contains(seq, x) <=> x = Head(seq) \/ Contains(Tail(seq), x)
  <2>1. ASSUME NEW i \in 1..Len(seq), seq[i] = x
        PROVE  x = Head(seq) \/ \E j \in 1..Len(Tail(seq)) : Tail(seq)[j] = x
    BY <1>1, <1>3, <2>1
  <2>2. 1 \in 1..Len(seq)
    BY <1>1
  <2>3. QED
    BY <1>1, <1>2, <2>1, <2>2 DEF Contains
<1>5. IsInjective(seq) => IsInjective(Tail(seq)) /\ ~Contains(Tail(seq), Head(seq))
  BY <1>1, <1>2 DEF Contains, IsInjective
<1>6. QED
  BY <1>1, <1>4, <1>5

LEMMA RestLength ==
  \A n \in Nat : \A j \in 1..n : (IF j + 1 <= n THEN n - (j + 1) + 1 ELSE 0) = n - j
OBVIOUS

LEMMA ContainsRemove ==
  ASSUME NEW S, NEW seq \in Seq(S), NEW e \in S, Contains(seq, e), IsInjective(seq)
  PROVE  /\ RemoveFirst(seq, e) \in Seq(S) /\ IsInjective(RemoveFirst(seq, e))
         /\ \A x : Contains(RemoveFirst(seq, e), x) <=> Contains(seq, x) /\ x # e
<1>1. PICK k \in 1..Len(seq) : seq[k] = e
  BY DEF Contains
<1>2. Len(seq) \in Nat /\ DOMAIN seq = 1..Len(seq) /\ k \in Int /\ 1 <= k /\ k <= Len(seq)
  BY LenProperties
<1>3. SelectInSeq(seq, LAMBDA v : v = e) = k
  <2>1. {i \in 1..Len(seq) : seq[i] = e} = {k}
    BY <1>1, <1>2 DEF IsInjective
  <2>2. Min({k}) = k
    BY DEF Min
  <2>3. QED
    BY <2>1, <2>2 DEF SelectInSeq
<1>4. RemoveFirst(seq, e) = SubSeq(seq, 1, k - 1) \o SubSeq(seq, k + 1, Len(seq))
  <2>1. \E i \in 1..Len(seq) : seq[i] = e
    BY <1>1
  <2>2. RemoveFirst(seq, e) = RemoveAt(seq, SelectInSeq(seq, LAMBDA v : v = e))
    BY <2>1 DEF RemoveFirst
  <2>3. QED
    BY <1>3, <2>2 DEF RemoveAt
<1> DEFINE pre == SubSeq(seq, 1, k - 1)
           post == SubSeq(seq, k + 1, Len(seq))
           rest == pre \o post
<1>5. /\ pre \in Seq(S) /\ Len(pre) = k - 1 /\ \A i \in 1..(k - 1) : pre[i] = seq[i]
  <2>1. \A i \in 1..(k - 1) : seq[i] \in S /\ 1 + i - 1 = i
    BY <1>2, ElementOfSeq
  <2>2. 1 \in Int /\ k - 1 \in Int /\ k - 1 - 1 + 1 = k - 1
        /\ (IF 1 <= k - 1 THEN k - 1 - 1 + 1 ELSE 0) = k - 1
    BY <1>1, <1>2
  <2>3. /\ pre \in Seq(S) /\ Len(pre) = (IF 1 <= k - 1 THEN k - 1 - 1 + 1 ELSE 0)
        /\ \A i \in 1..(k - 1 - 1 + 1) : pre[i] = seq[1 + i - 1]
    BY <2>1, <2>2, SubSeqProperties
  <2>4. QED
    BY <2>1, <2>2, <2>3
<1>6. /\ post \in Seq(S) /\ Len(post) = Len(seq) - k
      /\ \A i \in 1..(Len(seq) - k) : post[i] = seq[k + i]
  <2>1. \A i \in (k + 1)..Len(seq) : seq[i] \in S
    BY <1>2, ElementOfSeq
  <2>2. k + 1 \in Int /\ Len(seq) \in Int
    BY <1>2
  <2>3. /\ post \in Seq(S)
        /\ Len(post) = (IF k + 1 <= Len(seq) THEN Len(seq) - (k + 1) + 1 ELSE 0)
        /\ \A i \in 1..(Len(seq) - (k + 1) + 1) : post[i] = seq[k + 1 + i - 1]
    BY ONLY <2>1, <2>2, SubSeqProperties
  <2>4. Len(post) = Len(seq) - k
    BY <1>1, <1>2, <2>3, RestLength
  <2>5. ASSUME NEW i \in 1..(Len(seq) - k)
        PROVE  post[i] = seq[k + i]
    <3>1. i \in 1..(Len(seq) - (k + 1) + 1) /\ k + 1 + i - 1 = k + i
      BY <1>2
    <3>2. QED
      BY <2>3, <3>1
  <2>6. QED
    BY <2>3, <2>4, <2>5
<1>7. /\ rest \in Seq(S) /\ Len(rest) = Len(seq) - 1
      /\ \A i \in 1..(Len(seq) - 1) : rest[i] = IF i < k THEN seq[i] ELSE seq[i + 1]
  <2>1. Len(pre) + Len(post) = Len(seq) - 1
    <3>1. Len(pre) = k - 1 /\ Len(post) = Len(seq) - k
      BY <1>5, <1>6
    <3>2. k - 1 + (Len(seq) - k) = Len(seq) - 1
      BY <1>2
    <3>3. QED
      BY <3>1, <3>2
  <2>2. /\ rest \in Seq(S) /\ Len(rest) = Len(pre) + Len(post)
        /\ \A i \in 1..(Len(pre) + Len(post)) :
             rest[i] = IF i <= Len(pre) THEN pre[i] ELSE post[i - Len(pre)]
    BY <1>5, <1>6, ConcatProperties
  <2>3. ASSUME NEW i \in 1..(Len(seq) - 1)
        PROVE  rest[i] = IF i < k THEN seq[i] ELSE seq[i + 1]
    <3>1. CASE i < k
      <4>1. i \in 1..(k - 1) /\ i <= Len(pre)
        BY <1>1, <1>2, <1>5, <3>1
      <4>2. QED
        BY <1>5, <2>1, <2>2, <3>1, <4>1
    <3>2. CASE ~(i < k)
      <4>1. /\ i - (k - 1) \in 1..(Len(seq) - k) /\ ~(i <= Len(pre)) /\ k + (i - (k - 1)) = i + 1
        BY <1>1, <1>2, <1>5, <3>2
      <4>2. QED
        BY <1>5, <1>6, <2>1, <2>2, <3>2, <4>1, ZenonT(40)
    <3>3. QED
      BY <3>1, <3>2
  <2>4. QED
    BY <2>1, <2>2, <2>3
<1> HIDE DEF rest
<1>8. DOMAIN rest = 1..(Len(seq) - 1)
  BY <1>7, LenProperties
<1>9. IsInjective(rest)
  BY <1>1, <1>2, <1>7, <1>8, SMTT(30) DEF IsInjective
<1>10. ASSUME NEW x
      PROVE  Contains(rest, x) <=> Contains(seq, x) /\ x # e
  <2>1. ASSUME NEW i \in 1..(Len(seq) - 1), rest[i] = x
        PROVE  Contains(seq, x) /\ x # e
    <3>1. PICK j \in 1..Len(seq) : j # k /\ seq[j] = x
      <4>1. CASE i < k
        BY <1>1, <1>7, <2>1, <4>1
      <4>2. CASE i >= k
        <5>1. i + 1 \in 1..Len(seq) /\ i + 1 # k /\ seq[i + 1] = x
          BY <1>1, <1>7, <2>1, <4>2
        <5>2. QED
          BY <5>1
      <4>3. QED
        BY <1>1, <4>1, <4>2
    <3>2. x # e
      BY <1>1, <1>2, <3>1 DEF IsInjective
    <3>3. QED
      BY <1>2, <3>1, <3>2 DEF Contains
  <2>2. ASSUME NEW i \in 1..Len(seq), seq[i] = x, x # e
        PROVE  Contains(rest, x)
    <3>1. CASE i < k
      BY <1>1, <1>2, <1>7, <2>2, <3>1 DEF Contains
    <3>2. CASE i > k
      <4>1. i - 1 \in 1..(Len(seq) - 1) /\ rest[i - 1] = seq[i]
        BY <1>1, <1>2, <1>7, <3>2
      <4>2. QED
        BY <1>7, <2>2, <4>1 DEF Contains
    <3>3. QED
      BY <1>1, <1>2, <2>2, <3>1, <3>2
  <2>3. QED
    BY <1>7, <2>1, <2>2 DEF Contains
<1>11. QED
  BY <1>4, <1>7, <1>9, <1>10 DEF rest

-----------------------------------------------------------------------------
(* Channels.                                                               *)

LEMMA CarriesNothing == ASSUME NEW n \in Nat PROVE Carries(<<>>, n, n)
<1>1. Len(<<>>) = 0
  OBVIOUS
<1>2. QED
  BY <1>1 DEF Carries

LEMMA CarriesMore ==
  ASSUME NEW seq \in Seq(Nat), NEW lo \in Nat, NEW hi \in Nat, Carries(seq, lo, hi)
  PROVE  /\ Carries(Append(seq, Foreign), lo, hi)
         /\ Carries(Append(seq, hi + 1), lo, hi + 1)
<1>1. ASSUME NEW c \in {Foreign, hi + 1}, NEW top \in Nat, top = IF c = Foreign THEN hi ELSE c
      PROVE  Carries(Append(seq, c), lo, top)
  <2> DEFINE more == Append(seq, c)
  <2>1. /\ Len(seq) \in Nat /\ Len(more) = Len(seq) + 1
        /\ \A i \in 1..Len(seq) : more[i] = seq[i] /\ seq[i] \in Nat
        /\ more[Len(seq) + 1] = c
    BY AppendProperties, ElementOfSeq DEF Foreign
  <2> HIDE DEF more
  <2>2. \A i \in 1..Len(more) : i \in 1..Len(seq) \/ i = Len(seq) + 1
    BY <2>1
  <2>3. \A i \in 1..Len(seq) : i \in 1..Len(more) /\ i < Len(seq) + 1
    BY <2>1
  <2>4. Len(seq) + 1 \in 1..Len(more)
    BY <2>1
  <2>5. lo <= top /\ hi <= top
    BY <1>1 DEF Carries
  <2>6. \A i \in 1..Len(more) : more[i] # Foreign => more[i] \in (lo + 1)..top
    BY <1>1, <2>1, <2>2, <2>5 DEF Carries, Foreign
  <2>7. ASSUME NEW x \in (lo + 1)..top
        PROVE  \E i \in 1..Len(more) : more[i] = x
    <3>1. x \in (lo + 1)..hi \/ x = c
      BY <1>1 DEF Foreign
    <3>2. QED
      BY <2>1, <2>3, <2>4, <3>1 DEF Carries
  <2>8. ASSUME NEW i \in 1..Len(more), NEW j \in 1..Len(more), i < j, more[i] # Foreign,
               more[j] # Foreign
        PROVE  more[i] < more[j]
    <3>1. i \in 1..Len(seq) /\ more[i] = seq[i]
      BY <2>1, <2>2, <2>8
    <3>2. CASE j \in 1..Len(seq)
      BY <2>1, <2>8, <3>1, <3>2 DEF Carries
    <3>3. CASE j = Len(seq) + 1
      <4>1. seq[i] \in (lo + 1)..hi /\ more[j] = hi + 1
        BY <1>1, <2>1, <2>8, <3>1, <3>3 DEF Carries
      <4>2. QED
        BY <3>1, <4>1
    <3>4. QED
      BY <2>2, <3>2, <3>3
  <2>9. QED
    BY <2>5, <2>6, <2>7, <2>8 DEF Carries, more
<1>2. QED
  BY <1>1 DEF Foreign

LEMMA CarriesRest ==
  ASSUME NEW seq \in Seq(Nat), seq # <<>>, NEW lo \in Nat, NEW hi \in Nat, Carries(seq, lo, hi)
  PROVE  /\ Head(seq) = Foreign => Carries(Tail(seq), lo, hi)
         /\ Head(seq) # Foreign => Head(seq) = lo + 1 /\ lo + 1 <= hi
                                   /\ Carries(Tail(seq), lo + 1, hi)
<1> DEFINE rest == Tail(seq)
<1>1. /\ Len(seq) \in Nat \ {0} /\ Len(rest) = Len(seq) - 1 /\ Head(seq) = seq[1]
      /\ \A i \in 1..Len(rest) : rest[i] = seq[i + 1]
      /\ \A i \in 1..Len(seq) : seq[i] \in Nat
  BY HeadTailProperties, EmptySeq, LenProperties, ElementOfSeq
<1> HIDE DEF rest
<1>2. /\ 1 \in 1..Len(seq)
      /\ \A i \in 1..Len(rest) : i + 1 \in 1..Len(seq) /\ 1 < i + 1
      /\ \A i, j \in 1..Len(rest) : i < j => i + 1 < j + 1
  BY <1>1
<1>3. \A i \in 1..Len(seq) : i = 1 \/ (i - 1 \in 1..Len(rest) /\ rest[i - 1] = seq[i])
  BY <1>1
<1>4. \A i \in 1..Len(rest) : rest[i] # Foreign => rest[i] \in (lo + 1)..hi
  BY <1>1, <1>2 DEF Carries
<1>5. \A i, j \in 1..Len(rest) :
        i < j /\ rest[i] # Foreign /\ rest[j] # Foreign => rest[i] < rest[j]
  BY <1>1, <1>2 DEF Carries
<1>6. \A c \in (lo + 1)..hi : c = seq[1] \/ \E i \in 1..Len(rest) : rest[i] = c
  BY <1>3 DEF Carries
<1>7. CASE seq[1] = Foreign
  <2>1. \A c \in (lo + 1)..hi : c # seq[1]
    BY <1>7 DEF Foreign
  <2>2. QED
    BY <1>1, <1>4, <1>5, <1>6, <1>7, <2>1 DEF Carries, rest
<1>8. CASE seq[1] # Foreign
  <2>1. seq[1] \in (lo + 1)..hi
    BY <1>2, <1>8 DEF Carries
  <2>2. \A i \in 1..Len(rest) : rest[i] # Foreign => seq[1] < rest[i]
    BY <1>1, <1>2, <1>8 DEF Carries
  <2>3. seq[1] = lo + 1
    <3>1. SUFFICES ASSUME seq[1] # lo + 1 PROVE FALSE
      OBVIOUS
    <3>2. lo + 1 \in (lo + 1)..hi /\ lo + 1 # Foreign
      BY <2>1 DEF Foreign
    <3>3. PICK i \in 1..Len(rest) : rest[i] = lo + 1
      BY <1>6, <3>1, <3>2
    <3>4. seq[1] < lo + 1
      BY <2>2, <3>2, <3>3
    <3>5. QED
      BY <2>1, <3>4
  <2>4. \A i \in 1..Len(rest) : rest[i] # Foreign => rest[i] \in (lo + 1 + 1)..hi
    BY <1>4, <2>2, <2>3
  <2>5. \A c \in (lo + 1 + 1)..hi : c \in (lo + 1)..hi /\ c # seq[1]
    BY <2>3
  <2>6. \A c \in (lo + 1 + 1)..hi : \E i \in 1..Len(rest) : rest[i] = c
    BY <1>6, <2>5
  <2>7. lo + 1 <= hi
    BY <2>1, <2>3
  <2>8. Carries(rest, lo + 1, hi)
    BY <1>5, <2>4, <2>6, <2>7 DEF Carries
  <2>9. QED
    BY <1>1, <1>8, <2>3, <2>7, <2>8 DEF rest
<1>9. QED
  BY <1>7, <1>8

\* ReceivedInOrder for one subscriber.
InOrder(before, seq) ==
  \A i \in 1..Len(seq) :
    LET previous == IF i = 1 THEN before ELSE seq[i-1] IN
      seq[i] # Foreign /\ (previous # 0 => seq[i] = previous + 1)

LEMMA InOrderAppend ==
  ASSUME NEW seq \in Seq(Nat), NEW before \in Nat, InOrder(before, seq),
         NEW c \in Nat, c # Foreign,
         LET last == IF seq = <<>> THEN before ELSE seq[Len(seq)] IN last # 0 => c = last + 1
  PROVE  InOrder(before, Append(seq, c))
<1> DEFINE more == Append(seq, c)
<1>1. /\ Len(seq) \in Nat /\ Len(more) = Len(seq) + 1
      /\ \A i \in 1..Len(seq) : more[i] = seq[i] /\ seq[i] \in Nat
      /\ more[Len(seq) + 1] = c
  BY AppendProperties, ElementOfSeq
<1>2. seq = <<>> <=> Len(seq) = 0
  BY EmptySeq
<1> HIDE DEF more
<1>3. ASSUME NEW i \in 1..Len(more)
      PROVE  LET previous == IF i = 1 THEN before ELSE more[i-1] IN
               more[i] # Foreign /\ (previous # 0 => more[i] = previous + 1)
  <2>1. CASE i \in 1..Len(seq)
    <3>1. i # 1 => i - 1 \in 1..Len(seq)
      BY <1>1, <2>1
    <3>2. QED
      BY <1>1, <2>1, <3>1 DEF InOrder
  <2>2. CASE i = Len(seq) + 1
    <3>1. i = 1 <=> Len(seq) = 0
      BY <1>1, <2>2
    <3>2. i # 1 => i - 1 = Len(seq) /\ Len(seq) \in 1..Len(seq)
      BY <1>1, <2>2
    <3>3. QED
      BY <1>1, <1>2, <2>2, <3>1, <3>2
  <2>3. QED
    BY <1>1, <2>1, <2>2
<1>4. QED
  BY <1>3 DEF InOrder, more

LEMMA InOrderTail ==
  ASSUME NEW seq \in Seq(Nat), seq # <<>>, NEW before \in Nat, InOrder(before, seq)
  PROVE  /\ InOrder(Head(seq), Tail(seq))
         /\ (IF Tail(seq) = <<>> THEN Head(seq) ELSE Tail(seq)[Len(Tail(seq))]) = seq[Len(seq)]
<1> DEFINE rest == Tail(seq)
<1>1. /\ Len(seq) \in Nat \ {0} /\ Len(rest) = Len(seq) - 1 /\ Head(seq) = seq[1]
      /\ \A i \in 1..Len(rest) : rest[i] = seq[i + 1]
      /\ rest = <<>> <=> Len(rest) = 0
  <2>1. rest \in Seq(Nat)
    BY HeadTailProperties
  <2>2. rest = <<>> <=> Len(rest) = 0
    BY <2>1, EmptySeq
  <2>3. QED
    BY <2>2, HeadTailProperties, EmptySeq, LenProperties
<1> HIDE DEF rest
<1>2. ASSUME NEW i \in 1..Len(rest)
      PROVE  LET previous == IF i = 1 THEN Head(seq) ELSE rest[i-1] IN
               rest[i] # Foreign /\ (previous # 0 => rest[i] = previous + 1)
  <2>1. i + 1 \in 1..Len(seq) /\ i + 1 # 1 /\ i + 1 - 1 = i
    BY <1>1
  <2>2. seq[i + 1] # Foreign /\ (seq[i] # 0 => seq[i + 1] = seq[i] + 1)
    BY <2>1 DEF InOrder
  <2>3. i # 1 => i - 1 \in 1..Len(rest) /\ i - 1 + 1 = i
    BY <1>1
  <2>4. QED
    BY <1>1, <2>2, <2>3
<1>3. rest = <<>> => Head(seq) = seq[Len(seq)]
  <2>1. Len(rest) = 0 => Len(seq) = 1
    BY <1>1
  <2>2. QED
    BY <1>1, <2>1
<1>4. rest # <<>> => rest[Len(rest)] = seq[Len(seq)]
  <2>1. rest # <<>> => Len(rest) \in 1..Len(rest) /\ Len(rest) + 1 = Len(seq)
    BY <1>1
  <2>2. QED
    BY <1>1, <2>1
<1>5. QED
  BY <1>2, <1>3, <1>4 DEF InOrder, rest

-----------------------------------------------------------------------------
(* What a step leaves alone.                                               *)

LEMMA Channels ==
  ASSUME IInv, NEW s \in Subscribers
  PROVE  /\ src[s] \in Seq(Nat) /\ chan[s] \in Seq(Nat) /\ got[s] \in Nat /\ closed \in Nat
         /\ src[s] \in Seq(Candles) /\ chan[s] \in Seq(Candles)
         /\ subs[s] \in Seq(Subscribers) /\ todo[s] \in Seq(Subscribers)
         /\ candle[s] \in Candles /\ Sent(s) \in Candles /\ Candles \subseteq Nat
<1>1. /\ src[s] \in Seq(Candles) /\ chan[s] \in Seq(Candles) /\ got[s] \in Candles
      /\ subs[s] \in Seq(Subscribers) /\ todo[s] \in Seq(Subscribers)
      /\ closed \in Candles /\ candle[s] \in Candles /\ Candles \subseteq Nat
  BY DEF IInv, TypeOK, Candles
<1>2. src[s] \in Seq(Nat) /\ chan[s] \in Seq(Nat)
  BY <1>1, SeqMonotonic
<1>3. chan[s] # <<>> => chan[s][Len(chan[s])] \in Candles
  <2>1. chan[s] # <<>> => Len(chan[s]) \in 1..Len(chan[s])
    BY <1>1, EmptySeq
  <2>2. QED
    BY <1>1, <2>1, ElementOfSeq
<1>4. QED
  BY <1>1, <1>2, <1>3 DEF Sent

LEMMA OrderKept == ASSUME IInv, UNCHANGED <<chan, got>> PROVE ReceivedInOrder'
BY DEF IInv, ReceivedInOrder

LEMMA FlowKept ==
  ASSUME IInv, NEW g \in Subscribers,
         src'[g] = src[g], at'[g] = at[g], candle'[g] = candle[g], todo'[g] = todo[g],
         g \in outs' \cup queue' => g \in outs \cup queue /\ Fed(g)' = Fed(g),
         \A s \in Subscribers :
           /\ Sent(s)' = Sent(s)
           /\ Contains(subs'[g], s) => Contains(subs[g], s) \/ Sent(s) = 0
  PROVE  FlowInv(g)'
<1>1. SUFFICES ASSUME at[g] \in {"select", "send"}
               PROVE  \E p \in Candles : Position(g, p)'
  BY DEF FlowInv, Candles
<1>2. PICK p \in Candles : Position(g, p)
  BY <1>1 DEF IInv, FlowInv
<1>3. PICK hi \in Candles : Carries(src[g], p, hi) /\ (g \in outs \cup queue => hi = Fed(g))
  BY <1>2 DEF Position
<1>4. Carries(src'[g], p, hi) /\ (g \in outs' \cup queue' => hi = Fed(g)')
  BY <1>3
<1>5. \A s \in Subscribers :
        /\ Contains(todo'[g], s) => Sent(s)' = 0 \/ Sent(s)' + 1 = p
        /\ Contains(subs'[g], s) /\ ~Contains(todo'[g], s) => Sent(s)' = 0 \/ Sent(s)' = p
  BY <1>2 DEF Position
<1>6. at'[g] = "send" => candle'[g] = p
  BY <1>2 DEF Position
<1>7. \E h \in Candles' : Carries(src'[g], p, h) /\ (g \in outs' \cup queue' => h = Fed(g)')
  BY <1>4 DEF Candles
<1>8. Position(g, p)'
  BY <1>5, <1>6, <1>7 DEF Position, Carries
<1>9. QED
  BY <1>8

\* A step of an instance or of the hub that is not about candles.
LEMMA FlowsKept ==
  ASSUME IInv, UNCHANGED <<src, at, candle, todo, queue, item, closed, chan, got, subs>>,
         outs' \subseteq outs
  PROVE  \A g \in Subscribers : FlowInv(g)'
<1>1. SUFFICES ASSUME NEW g \in Subscribers PROVE FlowInv(g)'
  OBVIOUS
<1>2. \A s \in Subscribers : Sent(s)' = Sent(s)
  BY DEF Sent
<1>3. Fed(g)' = Fed(g)
  BY DEF Fed
<1>4. g \in outs' \cup queue' => g \in outs \cup queue
  OBVIOUS
<1>5. QED
  BY <1>2, <1>3, <1>4, FlowKept

LEMMA NotYetIn ==
  ASSUME IInv, NEW s \in Subscribers, sub[s] = "new", NEW g \in Subscribers
  PROVE  /\ joined[s] = Nil /\ ~Contains(subs[g], s) /\ ~Contains(todo[g], s)
         /\ current # s /\ ~cancelled[s] /\ joined[g] # s
<1>1. SubscriberInv(s) /\ GroupInv(g) /\ GroupInv(s) /\ SubscriberInv(g)
  BY DEF IInv
<1>2. joined[s] = Nil /\ s # Nil /\ g # Nil
  BY <1>1, HubAssumption DEF SubscriberInv
<1>3. current # s /\ ~cancelled[s]
  BY <1>1, <1>2 DEF GroupInv, InstanceDone
<1>4. joined[g] # s
  BY <1>1, <1>2 DEF SubscriberInv
<1>5. QED
  BY <1>1, <1>2, <1>3, <1>4 DEF GroupInv

-----------------------------------------------------------------------------
(* Subscribers.                                                            *)

LEMMA SubscribeFailsKept ==
  ASSUME IInv, NEW s \in Subscribers, SubscribeFails(s)
  PROVE  IInv'
<1>1. /\ sub[s] = "new" /\ sub' = [sub EXCEPT ![s] = "gone"]
      /\ UNCHANGED <<joined, chan, got, groupVars, runVars, src, feedVars>>
      /\ sub \in [Subscribers -> {"new", "on", "off", "last", "gone"}]
  BY DEF SubscribeFails, IInv, TypeOK
<1>2. /\ sub'[s] = "gone" /\ \A t \in Subscribers \ {s} : sub'[t] = sub[t]
      /\ \A t \in Subscribers : InstanceDone(t) => InstanceDone(t)'
  BY <1>1 DEF InstanceDone
<1>3. TypeOK'
  BY <1>1 DEF IInv, TypeOK, groupVars, runVars, feedVars, Candles
<1>4. OneGroup'
  BY <1>1 DEF IInv, OneGroup, groupVars, runVars
<1>5. ASSUME NEW t \in Subscribers
      PROVE  SubscriberInv(t)' /\ GroupInv(t)'
  <2>1. SubscriberInv(t) /\ GroupInv(t) /\ joined[t] \in Subscribers \cup {Nil}
    BY DEF IInv, TypeOK
  <2>2. SubscriberInv(t)'
    BY <1>1, <1>2, <2>1 DEF SubscriberInv, groupVars, runVars, feedVars
  <2>3. GroupInv(t)'
    BY <1>1, <1>2, <2>1, NotYetIn DEF GroupInv, groupVars, runVars, feedVars
  <2>4. QED
    BY <2>2, <2>3
<1>6. \A g \in Subscribers : FlowInv(g)'
  BY <1>1, FlowsKept DEF groupVars, runVars, feedVars
<1>7. QED
  BY <1>1, <1>3, <1>4, <1>5, <1>6, OrderKept DEF IInv, feedVars

LEMMA StopInstanceKept ==
  ASSUME IInv, NEW s \in Subscribers, StopInstance(s)
  PROVE  IInv'
<1>1. /\ sub[s] = "on" /\ sub' = [sub EXCEPT ![s] = "off"]
      /\ UNCHANGED <<joined, chan, got, groupVars, runVars, src, feedVars>>
      /\ sub \in [Subscribers -> {"new", "on", "off", "last", "gone"}]
  BY DEF StopInstance, IInv, TypeOK
<1>2. /\ sub'[s] = "off" /\ \A t \in Subscribers \ {s} : sub'[t] = sub[t]
      /\ \A t \in Subscribers : InstanceDone(t) => InstanceDone(t)'
  BY <1>1 DEF InstanceDone
<1>3. TypeOK'
  BY <1>1 DEF IInv, TypeOK, groupVars, runVars, feedVars, Candles
<1>4. OneGroup'
  BY <1>1 DEF IInv, OneGroup, groupVars, runVars
<1>5. ASSUME NEW t \in Subscribers
      PROVE  SubscriberInv(t)' /\ GroupInv(t)'
  <2>1. SubscriberInv(t) /\ GroupInv(t) /\ joined[t] \in Subscribers \cup {Nil}
    BY DEF IInv, TypeOK
  <2>2. SubscriberInv(t)'
    BY <1>1, <1>2, <2>1 DEF SubscriberInv, groupVars, runVars, feedVars
  <2>3. GroupInv(t)'
    BY <1>1, <1>2, <2>1 DEF GroupInv, groupVars, runVars, feedVars
  <2>4. QED
    BY <2>2, <2>3
<1>6. \A g \in Subscribers : FlowInv(g)'
  BY <1>1, FlowsKept DEF groupVars, runVars, feedVars
<1>7. QED
  BY <1>1, <1>3, <1>4, <1>5, <1>6, OrderKept DEF IInv, feedVars

\* When the last subscriber leaves, the maker of the group has left.
LEMMA CancelGroupKept ==
  ASSUME IInv, NEW s \in Subscribers, CancelGroup(s)
  PROVE  IInv'
<1>1. /\ sub[s] = "last" /\ sub' = [sub EXCEPT ![s] = "gone"]
      /\ cancelled' = [cancelled EXCEPT ![joined[s]] = TRUE]
      /\ UNCHANGED <<joined, chan, got, current, subs, runVars, src, feedVars>>
      /\ sub \in [Subscribers -> {"new", "on", "off", "last", "gone"}]
      /\ cancelled \in [Subscribers -> BOOLEAN]
  BY DEF CancelGroup, IInv, TypeOK
<1>2. /\ sub'[s] = "gone" /\ \A t \in Subscribers \ {s} : sub'[t] = sub[t]
      /\ \A t \in Subscribers : InstanceDone(t) => InstanceDone(t)'
      /\ \A g \in Subscribers : cancelled'[g] => cancelled[g] \/ g = joined[s]
      /\ InstanceDone(joined[s])
  BY <1>1 DEF InstanceDone, IInv, SubscriberInv
<1>3. TypeOK'
  BY <1>1 DEF IInv, TypeOK, runVars, feedVars, Candles
<1>4. OneGroup'
  BY <1>1 DEF IInv, OneGroup, runVars
<1>5. ASSUME NEW t \in Subscribers
      PROVE  SubscriberInv(t)' /\ GroupInv(t)'
  <2>1. SubscriberInv(t) /\ GroupInv(t) /\ joined[t] \in Subscribers \cup {Nil}
    BY DEF IInv, TypeOK
  <2>2. SubscriberInv(t)'
    BY <1>1, <1>2, <2>1 DEF SubscriberInv, runVars, feedVars
  <2>3. GroupInv(t)'
    BY <1>1, <1>2, <2>1 DEF GroupInv, runVars, feedVars
  <2>4. QED
    BY <2>2, <2>3
<1>6. \A g \in Subscribers : FlowInv(g)'
  BY <1>1, FlowsKept DEF runVars, feedVars
<1>7. QED
  BY <1>1, <1>3, <1>4, <1>5, <1>6, OrderKept DEF IInv, feedVars

LEMMA LeaveKept ==
  ASSUME IInv, NEW s \in Subscribers, Leave(s)
  PROVE  IInv'
<1> DEFINE g == joined[s]
           rest == RemoveFirst(subs[g], s)
<1>1. /\ sub[s] = "off"
      /\ sub' = [sub EXCEPT ![s] = IF rest = <<>> THEN "last" ELSE "gone"]
      /\ subs' = [subs EXCEPT ![g] = rest]
      /\ UNCHANGED <<joined, chan, got, current, cancelled, runVars, src, feedVars>>
      /\ sub \in [Subscribers -> {"new", "on", "off", "last", "gone"}]
      /\ subs \in [Subscribers -> Seq(Subscribers)]
  BY DEF Leave, WasLast, IInv, TypeOK
<1>2. /\ g \in Subscribers /\ Contains(subs[g], s) /\ IsInjective(subs[g])
      /\ subs[g] \in Seq(Subscribers)
  BY <1>1 DEF IInv, TypeOK, SubscriberInv, GroupInv
<1>3. /\ rest \in Seq(Subscribers) /\ IsInjective(rest)
      /\ \A x : Contains(rest, x) <=> Contains(subs[g], x) /\ x # s
  BY <1>2, ContainsRemove
<1> HIDE DEF rest
<1>4. /\ sub'[s] = (IF rest = <<>> THEN "last" ELSE "gone") /\ sub'[s] \in {"last", "gone"}
      /\ \A t \in Subscribers \ {s} : sub'[t] = sub[t]
      /\ \A t \in Subscribers : InstanceDone(t) => InstanceDone(t)'
      /\ subs'[g] = rest /\ \A h \in Subscribers \ {g} : subs'[h] = subs[h]
      /\ sub' \in [Subscribers -> {"new", "on", "off", "last", "gone"}]
      /\ subs' \in [Subscribers -> Seq(Subscribers)]
  BY <1>1, <1>2, <1>3 DEF InstanceDone
<1>5. \A h \in Subscribers, t \in Subscribers :
        /\ Contains(subs'[h], t) => Contains(subs[h], t) /\ t # s
        /\ Contains(subs[h], t) /\ t # s => Contains(subs'[h], t)
  <2>1. \A h \in Subscribers : Contains(subs[h], s) => h = g
    BY DEF IInv, GroupInv
  <2>2. QED
    BY <1>3, <1>4, <2>1, ZenonT(40)
<1>6. rest = <<>> => InstanceDone(g)
  <2>1. SUFFICES ASSUME ~InstanceDone(g) PROVE rest # <<>>
    OBVIOUS
  <2>2. joined[g] = g /\ g # Nil /\ g # s
    BY <1>1, <1>2, <2>1, HubAssumption DEF IInv, SubscriberInv, InstanceDone
  <2>3. sub[g] = "on"
    BY <1>2, <2>1, <2>2 DEF IInv, SubscriberInv, InstanceDone
  <2>4. Contains(rest, g)
    BY <1>2, <1>3, <2>2, <2>3 DEF IInv, SubscriberInv
  <2>5. QED
    BY <2>4 DEF Contains
<1>7. TypeOK'
  BY <1>1, <1>4 DEF IInv, TypeOK, runVars, feedVars, Candles
<1>8. OneGroup'
  BY <1>1 DEF IInv, OneGroup, runVars
<1>9. ASSUME NEW t \in Subscribers
      PROVE  SubscriberInv(t)' /\ GroupInv(t)'
  <2>1. SubscriberInv(t) /\ GroupInv(t) /\ joined[t] \in Subscribers \cup {Nil}
    BY DEF IInv, TypeOK
  <2>2. SubscriberInv(t)'
    BY <1>1, <1>4, <1>5, <1>6, <2>1 DEF SubscriberInv, runVars, feedVars
  <2>3. IsInjective(subs'[t])
    BY <1>3, <1>4, <2>1 DEF GroupInv
  <2>4. GroupInv(t)'
    BY <1>1, <1>4, <1>5, <2>1, <2>3 DEF GroupInv, runVars, feedVars
  <2>5. QED
    BY <2>2, <2>4
<1>10. ASSUME NEW h \in Subscribers
       PROVE  FlowInv(h)'
  <2>1. \A t \in Subscribers : Sent(t)' = Sent(t)
    BY <1>1 DEF Sent
  <2>2. Fed(h)' = Fed(h)
    BY <1>1 DEF Fed, feedVars
  <2>3. QED
    BY <1>1, <1>5, <2>1, <2>2, FlowKept DEF runVars, feedVars
<1>11. QED
  BY <1>1, <1>7, <1>8, <1>9, <1>10, OrderKept DEF IInv, feedVars

\* A candle that is read was the last one the subscriber was sent, or is followed by it.
LEMMA ReadCandleKept ==
  ASSUME IInv, NEW s \in Subscribers, ReadCandle(s)
  PROVE  IInv'
<1>1. /\ sub[s] \in {"on", "off"} /\ chan[s] # <<>>
      /\ got' = [got EXCEPT ![s] = Head(chan[s])] /\ got'[s] = Head(chan[s])
      /\ chan' = [chan EXCEPT ![s] = Tail(chan[s])] /\ chan'[s] = Tail(chan[s])
      /\ \A t \in Subscribers \ {s} : got'[t] = got[t] /\ chan'[t] = chan[t]
      /\ UNCHANGED <<subVars, groupVars, runVars, src, feedVars>>
      /\ got \in [Subscribers -> Candles] /\ chan \in [Subscribers -> Seq(Candles)]
  BY DEF ReadCandle, IInv, TypeOK
<1>2. /\ Tail(chan[s]) \in Seq(Candles) /\ Head(chan[s]) \in Candles
      /\ Len(Tail(chan[s])) = Len(chan[s]) - 1 /\ Len(chan[s]) \in Nat
      /\ Len(chan[s]) <= ChanSize
  BY <1>1, HeadTailProperties, EmptySeq, LenProperties DEF IInv, TypeOK
<1>3. TypeOK'
  <2>1. Len(Tail(chan[s])) <= ChanSize
    BY <1>2, HubAssumption
  <2>2. got' \in [Subscribers -> Candles] /\ chan' \in [Subscribers -> Seq(Candles)]
        /\ \A t \in Subscribers : Len(chan'[t]) <= ChanSize
    BY <1>1, <1>2, <2>1 DEF IInv, TypeOK
  <2>3. QED
    BY <1>1, <2>2 DEF IInv, TypeOK, subVars, groupVars, runVars, feedVars, Candles
<1>4. OneGroup'
  BY <1>1 DEF IInv, OneGroup, groupVars, runVars
<1>5. /\ \A t \in Subscribers : InOrder(got[t], chan[t])
      /\ chan[s] \in Seq(Nat) /\ got[s] \in Nat
  BY Channels DEF IInv, ReceivedInOrder, InOrder
<1>6. /\ InOrder(got'[s], chan'[s])
      /\ Sent(s)' = Sent(s)
  BY <1>1, <1>5, InOrderTail DEF Sent
<1>7. \A t \in Subscribers : InOrder(got'[t], chan'[t]) /\ Sent(t)' = Sent(t)
  BY <1>1, <1>5, <1>6 DEF Sent
<1>8. ReceivedInOrder'
  BY <1>7 DEF ReceivedInOrder, InOrder
<1>9. ASSUME NEW t \in Subscribers
      PROVE  SubscriberInv(t)' /\ GroupInv(t)'
  <2>1. SubscriberInv(t) /\ GroupInv(t)
    BY DEF IInv
  <2>2. QED
    BY <1>1, <2>1
       DEF SubscriberInv, GroupInv, InstanceDone, subVars, groupVars, runVars, feedVars
<1>10. ASSUME NEW g \in Subscribers
       PROVE  FlowInv(g)'
  <2>1. Fed(g)' = Fed(g)
    BY <1>1 DEF Fed, feedVars
  <2>2. QED
    BY <1>1, <1>7, <2>1, FlowKept DEF groupVars, runVars, feedVars
<1>11. QED
  BY <1>1, <1>3, <1>4, <1>8, <1>9, <1>10 DEF IInv, feedVars

LEMMA SubscribeKept ==
  ASSUME IInv, NEW s \in Subscribers, Subscribe(s)
  PROVE  IInv'
<1> DEFINE g == IF current = Nil THEN s ELSE current
<1>1. /\ sub[s] = "new" /\ sub' = [sub EXCEPT ![s] = "on"]
      /\ current' = g
      /\ subs' = [subs EXCEPT ![g] = Append(subs[g], s)]
      /\ joined' = [joined EXCEPT ![s] = g]
      /\ UNCHANGED <<chan, got, cancelled, todo, candle, src, queue, item, closed>>
      /\ sub \in [Subscribers -> {"new", "on", "off", "last", "gone"}]
      /\ subs \in [Subscribers -> Seq(Subscribers)]
      /\ joined \in [Subscribers -> Subscribers \cup {Nil}]
      /\ at \in [Subscribers -> Running \cup {"none", "gone"}]
      /\ current \in Subscribers \cup {Nil} /\ outs \subseteq Subscribers
  BY DEF Subscribe, IInv, TypeOK
<1>2. g \in Subscribers /\ g # Nil /\ SubscriberInv(s) /\ ~Contains(subs[g], s)
  BY <1>1, NotYetIn, HubAssumption DEF IInv
<1>3. /\ Append(subs[g], s) \in Seq(Subscribers)
      /\ \A x : Contains(Append(subs[g], s), x) <=> Contains(subs[g], x) \/ x = s
      /\ IsInjective(Append(subs[g], s))
  BY <1>1, <1>2, ContainsAppend DEF IInv, GroupInv
<1>4. \/ /\ current = Nil /\ g = s /\ at' = [at EXCEPT ![s] = "select"] /\ outs' = outs \cup {s}
      \/ current = g /\ at' = at /\ outs' = outs
  BY DEF Subscribe
<1> HIDE DEF g
<1>5. /\ sub'[s] = "on" /\ \A t \in Subscribers \ {s} : sub'[t] = sub[t]
      /\ joined'[s] = g /\ \A t \in Subscribers \ {s} : joined'[t] = joined[t]
      /\ subs'[g] = Append(subs[g], s) /\ \A h \in Subscribers \ {g} : subs'[h] = subs[h]
      /\ sub' \in [Subscribers -> {"new", "on", "off", "last", "gone"}]
      /\ subs' \in [Subscribers -> Seq(Subscribers)]
      /\ joined' \in [Subscribers -> Subscribers \cup {Nil}]
      /\ at' \in [Subscribers -> Running \cup {"none", "gone"}]
      /\ outs' \subseteq Subscribers
  BY <1>1, <1>2, <1>3, <1>4 DEF Running
<1>6. \A h \in Subscribers, t \in Subscribers :
        Contains(subs'[h], t) <=> Contains(subs[h], t) \/ (h = g /\ t = s)
  BY <1>2, <1>3, <1>5
<1>7. /\ current = Nil => at'[s] = "select" /\ outs' = outs \cup {s} /\ g = s
      /\ current # Nil => at'[s] = at[s] /\ outs' = outs /\ g = current
      /\ \A h \in Subscribers \ {s} : at'[h] = at[h]
      /\ at[s] = "none"
  BY <1>1, <1>2, <1>4 DEF SubscriberInv
<1>8. TypeOK'
  BY <1>1, <1>2, <1>5 DEF IInv, TypeOK, Candles
<1>9. OneGroup'
  <2>1. \A h \in Subscribers : at[h] \in Running <=> current = h
    BY DEF IInv, OneGroup
  <2>2. \A h \in Subscribers : at'[h] \in Running <=> h = g
    BY <1>2, <1>7, <2>1, HubAssumption DEF Running
  <2>3. QED
    BY <1>1, <2>2 DEF OneGroup, Running
<1>10. joined'[g] = g
  <2>1. CASE current = Nil
    BY <1>5, <1>7, <2>1
  <2>2. CASE current # Nil
    <3>1. g # s /\ joined[g] = g
      BY <1>1, <1>2, <1>7, <2>2, NotYetIn DEF IInv, GroupInv
    <3>2. QED
      BY <1>2, <1>5, <3>1
  <2>3. QED
    BY <2>1, <2>2
<1>11. ASSUME NEW t \in Subscribers
       PROVE  SubscriberInv(t)'
  <2>1. SubscriberInv(t) /\ joined[t] \in Subscribers \cup {Nil} /\ joined[t] # s
    BY <1>1, NotYetIn DEF IInv
  <2>2. CASE t = s
    BY <1>2, <1>3, <1>5, <1>10, <2>2 DEF SubscriberInv
  <2>3. CASE t # s
    <3>1. /\ sub'[t] = sub[t] /\ joined'[t] = joined[t] /\ chan'[t] = chan[t] /\ got'[t] = got[t]
          /\ src'[t] = src[t] /\ at'[t] = at[t] /\ queue' = queue
          /\ t \in outs' <=> t \in outs
      BY <1>1, <1>5, <1>7, <2>3
    <3>2. joined[t] # Nil =>
            /\ joined'[joined[t]] = joined[joined[t]] /\ sub'[joined[t]] = sub[joined[t]]
            /\ Contains(subs[joined[t]], t) => Contains(subs'[joined[t]], t)
      BY <1>5, <1>6, <2>1
    <3>3. QED
      BY <2>1, <3>1, <3>2 DEF SubscriberInv, InstanceDone
  <2>4. QED
    BY <2>2, <2>3
<1>12. ASSUME NEW h \in Subscribers
       PROVE  GroupInv(h)'
  <2>1. GroupInv(h)
    BY DEF IInv
  <2>2. cancelled'[h] => InstanceDone(h)'
    BY <1>1, <1>5, <2>1, NotYetIn DEF GroupInv, InstanceDone
  <2>3. /\ \A t \in Subscribers : Contains(subs'[h], t) => joined'[t] = h /\ sub'[t] \in {"on", "off"}
        /\ \A t \in Subscribers : Contains(todo'[h], t) => joined'[t] = h
    BY <1>1, <1>5, <1>6, <2>1, NotYetIn DEF GroupInv
  <2>4. IsInjective(subs'[h]) /\ IsInjective(todo'[h])
    BY <1>1, <1>3, <1>5, <2>1 DEF GroupInv
  <2>5. /\ at'[h] = "send" => todo'[h] # <<>> /\ candle'[h] # Foreign
        /\ at'[h] # "send" => todo'[h] = <<>>
    BY <1>1, <1>7, <2>1 DEF GroupInv
  <2>6. sub'[h] = "on" /\ joined'[h] = h => at'[h] \in {"select", "send"}
    <3>1. CASE h = s
      BY <1>5, <1>7, <3>1, NotYetIn, <1>1
    <3>2. CASE h # s
      BY <1>5, <1>7, <2>1, <3>2 DEF GroupInv
    <3>3. QED
      BY <3>1, <3>2
  <2>7. QED
    BY <1>1, <1>10, <2>2, <2>3, <2>4, <2>5, <2>6 DEF GroupInv, Foreign
<1>13. \A t \in Subscribers : Sent(t)' = Sent(t)
  BY <1>1 DEF Sent
<1>14. Sent(s) = 0
  BY <1>1, <1>2 DEF SubscriberInv, Sent
<1>15. ASSUME NEW h \in Subscribers
       PROVE  FlowInv(h)'
  <2>1. Fed(h)' = Fed(h)
    BY <1>1 DEF Fed
  <2>2. CASE at'[h] = at[h] /\ outs' = outs
    BY <1>1, <1>6, <1>13, <1>14, <2>1, <2>2, FlowKept
  <2>3. CASE at'[h] = at[h] /\ h # s /\ outs' = outs \cup {s}
    BY <1>1, <1>6, <1>13, <1>14, <2>1, <2>3, FlowKept
  <2>4. CASE current = Nil /\ h = s
    <3>1. closed \in Candles /\ closed \in Nat
      BY DEF IInv, TypeOK, Candles
    <3>2. Carries(src'[s], closed, closed)
      BY <1>1, <1>2, <3>1, CarriesNothing DEF SubscriberInv
    <3>3. Fed(s)' = closed
      BY <1>1, <1>2 DEF Fed, SubscriberInv
    <3>4. todo'[s] = <<>> /\ at'[s] = "select" /\ \A t \in Subscribers : ~Contains(todo'[s], t)
      BY <1>1, <1>7, <2>4 DEF IInv, GroupInv, Contains
    <3>5. \A t \in Subscribers : Contains(subs'[s], t) => Sent(t)' = 0
      <4>1. \A t \in Subscribers : ~Contains(subs[s], t)
        BY <1>1, NotYetIn DEF IInv, GroupInv
      <4>2. QED
        BY <1>6, <1>13, <1>14, <4>1
    <3>6. \E hi \in Candles' : Carries(src'[s], closed, hi)
                               /\ (s \in outs' \cup queue' => hi = Fed(s)')
      BY <3>1, <3>2, <3>3 DEF Candles
    <3>7. Position(s, closed)'
      BY <1>1, <3>4, <3>5, <3>6 DEF Position, Carries
    <3>8. QED
      BY <1>1, <2>4, <3>1, <3>7 DEF FlowInv, Candles
  <2>5. QED
    BY <1>7, <2>2, <2>3, <2>4
<1>16. QED
  BY <1>1, <1>8, <1>9, <1>11, <1>12, <1>15, OrderKept DEF IInv

-----------------------------------------------------------------------------
(* The market-data stream.                                                 *)

LEMMA DetachKept ==
  ASSUME IInv, NEW g \in Subscribers, Detach(g)
  PROVE  IInv'
<1>1. /\ outs' = outs \ {g}
      /\ UNCHANGED <<subVars, chan, got, groupVars, runVars, src, queue, item, closed>>
  BY DEF Detach
<1>2. TypeOK'
  BY <1>1 DEF IInv, TypeOK, subVars, groupVars, runVars, Candles
<1>3. OneGroup'
  BY <1>1 DEF IInv, OneGroup, groupVars, runVars
<1>4. ASSUME NEW t \in Subscribers
      PROVE  SubscriberInv(t)' /\ GroupInv(t)'
  <2>1. SubscriberInv(t) /\ GroupInv(t)
    BY DEF IInv
  <2>2. QED
    BY <1>1, <2>1 DEF SubscriberInv, GroupInv, InstanceDone, subVars, groupVars, runVars
<1>5. \A h \in Subscribers : FlowInv(h)'
  BY <1>1, FlowsKept DEF groupVars, runVars
<1>6. QED
  BY <1>1, <1>2, <1>3, <1>4, <1>5, OrderKept DEF IInv

LEMMA PublishCandleKept ==
  ASSUME IInv, PublishCandle
  PROVE  IInv'
<1>1. PICK c \in {Foreign, closed + 1} :
        /\ closed' = IF c = Foreign THEN closed ELSE c
        /\ item' = IF outs = {} THEN Foreign ELSE c
  BY DEF PublishCandle
<1>2. /\ queue = {} /\ queue' = outs /\ closed' <= MaxCandles
      /\ UNCHANGED <<subVars, chan, got, groupVars, runVars, src, outs>>
      /\ closed \in Candles
  BY DEF PublishCandle, IInv, TypeOK
<1>3. closed' \in Candles /\ item' \in Candles
  BY <1>1, <1>2, HubAssumption DEF Candles, Foreign
<1>4. TypeOK'
  BY <1>2, <1>3 DEF IInv, TypeOK, subVars, groupVars, runVars, Candles
<1>5. OneGroup'
  BY <1>2 DEF IInv, OneGroup, groupVars, runVars
<1>6. ASSUME NEW t \in Subscribers
      PROVE  SubscriberInv(t)' /\ GroupInv(t)'
  <2>1. SubscriberInv(t) /\ GroupInv(t)
    BY DEF IInv
  <2>2. QED
    BY <1>2, <2>1 DEF SubscriberInv, GroupInv, InstanceDone, subVars, groupVars, runVars
<1>7. ASSUME NEW g \in Subscribers
      PROVE  FlowInv(g)'
  <2>1. g \in outs' \cup queue' => g \in outs
    BY <1>2
  <2>2. g \in outs => Fed(g)' = Fed(g)
    BY <1>1, <1>2, HubAssumption DEF Fed, Foreign, Candles
  <2>3. \A t \in Subscribers : Sent(t)' = Sent(t)
    BY <1>2 DEF Sent
  <2>4. QED
    BY <1>2, <2>1, <2>2, <2>3, FlowKept DEF groupVars, runVars
<1>8. queue' # {} /\ item' # Foreign => item' = closed'
  BY <1>1, <1>2
<1>9. QED
  BY <1>2, <1>4, <1>5, <1>6, <1>7, <1>8, OrderKept DEF IInv

LEMMA FeedKept ==
  ASSUME IInv, NEW g \in Subscribers, Feed(g)
  PROVE  IInv'
<1>1. /\ g \in queue /\ queue' = queue \ {g} /\ Len(src[g]) < SrcSize
      /\ src' = [src EXCEPT ![g] = Append(src[g], item)]
      /\ item' = IF queue = {g} THEN Foreign ELSE item
      /\ UNCHANGED <<subVars, chan, got, groupVars, runVars, outs, closed>>
      /\ src \in [Subscribers -> Seq(Candles)] /\ item \in Candles /\ closed \in Candles
  BY DEF Feed, IInv, TypeOK
<1>2. /\ Append(src[g], item) \in Seq(Candles)
      /\ Len(Append(src[g], item)) = Len(src[g]) + 1 /\ Len(src[g]) \in Nat
  BY <1>1, AppendProperties, LenProperties
<1>3. /\ src'[g] = Append(src[g], item) /\ \A h \in Subscribers \ {g} : src'[h] = src[h]
      /\ src' \in [Subscribers -> Seq(Candles)]
      /\ \A h \in Subscribers : Len(src'[h]) <= SrcSize
      /\ item' \in Candles
  <2>1. Len(Append(src[g], item)) <= SrcSize
    BY <1>1, <1>2, HubAssumption
  <2>2. Foreign \in Candles
    BY HubAssumption DEF Foreign, Candles
  <2>3. QED
    BY <1>1, <1>2, <2>1, <2>2 DEF IInv, TypeOK
<1>4. TypeOK'
  BY <1>1, <1>3 DEF IInv, TypeOK, subVars, groupVars, runVars, Candles
<1>5. OneGroup'
  BY <1>1 DEF IInv, OneGroup, groupVars, runVars
<1>6. ASSUME NEW t \in Subscribers
      PROVE  SubscriberInv(t)' /\ GroupInv(t)'
  <2>1. SubscriberInv(t) /\ GroupInv(t)
    BY DEF IInv
  <2>2. sub[t] = "new" => t # g
    BY <1>1, <2>1 DEF SubscriberInv
  <2>3. QED
    BY <1>1, <1>3, <2>1, <2>2
       DEF SubscriberInv, GroupInv, InstanceDone, subVars, groupVars, runVars
<1>7. \A t \in Subscribers : Sent(t)' = Sent(t)
  BY <1>1 DEF Sent
<1>8. item # Foreign => item = closed
  BY <1>1 DEF IInv
<1>9. ASSUME NEW h \in Subscribers
      PROVE  FlowInv(h)'
  <2>1. CASE h # g
    <3>1. h \in outs' \cup queue' => h \in outs \cup queue
      BY <1>1
    <3>2. Fed(h)' = Fed(h)
      BY <1>1, <2>1 DEF Fed
    <3>3. QED
      BY <1>1, <1>3, <1>7, <2>1, <3>1, <3>2, FlowKept DEF groupVars, runVars
  <2>2. CASE h = g
    <3>1. SUFFICES ASSUME at[g] \in {"select", "send"}
                   PROVE  \E p \in Candles : Position(g, p)'
      BY <1>1, <2>2 DEF FlowInv, Candles, runVars
    <3>2. PICK p \in Candles : Position(g, p)
      BY <3>1 DEF IInv, FlowInv
    <3>3. PICK hi \in Candles : Carries(src[g], p, hi) /\ hi = Fed(g)
      BY <1>1, <3>2 DEF Position
    <3>4. hi \in Nat /\ p \in Nat /\ src[g] \in Seq(Nat) /\ closed \in Nat
      BY Channels DEF Candles
    <3>5. Fed(g)' = closed
      BY <1>1 DEF Fed
    <3>6. Carries(src'[g], p, closed)
      <4>1. CASE item = Foreign
        <5>1. hi = closed
          BY <3>3, <4>1 DEF Fed
        <5>2. QED
          BY <1>3, <3>3, <3>4, <4>1, <5>1, CarriesMore
      <4>2. CASE item # Foreign
        <5>1. hi = closed - 1 /\ item = closed /\ hi + 1 = item
          BY <1>1, <1>8, <3>3, <3>4, <4>2 DEF Fed
        <5>2. QED
          BY <1>3, <3>3, <3>4, <5>1, CarriesMore
      <4>3. QED
        BY <4>1, <4>2
    <3>7. \E top \in Candles' : Carries(src'[g], p, top)
                                /\ (g \in outs' \cup queue' => top = Fed(g)')
      BY <1>1, <3>5, <3>6 DEF Candles
    <3>8. /\ at'[g] = "send" => candle'[g] = p
          /\ \A t \in Subscribers :
               /\ Contains(todo'[g], t) => Sent(t)' = 0 \/ Sent(t)' + 1 = p
               /\ Contains(subs'[g], t) /\ ~Contains(todo'[g], t) => Sent(t)' = 0 \/ Sent(t)' = p
      BY <1>1, <1>7, <3>2 DEF Position, groupVars, runVars
    <3>9. Position(g, p)'
      BY <3>7, <3>8 DEF Position, Carries
    <3>10. QED
      BY <3>9
  <2>3. QED
    BY <2>1, <2>2
<1>10. queue' # {} /\ item' # Foreign => item' = closed'
  BY <1>1, <1>8
<1>11. QED
  BY <1>1, <1>4, <1>5, <1>6, <1>9, <1>10, OrderKept DEF IInv

-----------------------------------------------------------------------------
(* The goroutine of a group.                                               *)

LEMMA ExitRunKept ==
  ASSUME IInv, NEW g \in Subscribers, ExitRun(g)
  PROVE  IInv'
<1>1. /\ at[g] \in {"select", "send"} /\ CtxDone(g)
      /\ at' = [at EXCEPT ![g] = "exit"] /\ at'[g] = "exit"
      /\ todo' = [todo EXCEPT ![g] = <<>>] /\ todo'[g] = <<>>
      /\ candle' = [candle EXCEPT ![g] = Foreign]
      /\ \A h \in Subscribers \ {g} : at'[h] = at[h] /\ todo'[h] = todo[h] /\ candle'[h] = candle[h]
      /\ UNCHANGED <<subVars, chan, got, groupVars, src, feedVars>>
      /\ at \in [Subscribers -> Running \cup {"none", "gone"}]
      /\ todo \in [Subscribers -> Seq(Subscribers)] /\ candle \in [Subscribers -> Candles]
  BY DEF ExitRun, SeesDone, IInv, TypeOK
<1>2. Foreign \in Candles /\ <<>> \in Seq(Subscribers) /\ IsInjective(<<>>)
      /\ \A t : ~Contains(<<>>, t)
  BY HubAssumption, EmptySeq DEF Foreign, Candles, IsInjective, Contains
<1>3. TypeOK'
  <2>1. at' \in [Subscribers -> Running \cup {"none", "gone"}]
    BY <1>1 DEF Running
  <2>2. QED
    BY <1>1, <1>2, <2>1 DEF IInv, TypeOK, subVars, groupVars, feedVars, Candles, Running
<1>4. OneGroup'
  BY <1>1 DEF IInv, OneGroup, groupVars, Running
<1>5. InstanceDone(g)
  BY <1>1 DEF CtxDone, IInv, GroupInv
<1>6. ASSUME NEW t \in Subscribers
      PROVE  SubscriberInv(t)' /\ GroupInv(t)'
  <2>1. SubscriberInv(t) /\ GroupInv(t)
    BY DEF IInv
  <2>2. SubscriberInv(t)'
    BY <1>1, <1>5, <2>1 DEF SubscriberInv, InstanceDone, subVars, groupVars, feedVars
  <2>3. GroupInv(t)'
    BY <1>1, <1>2, <1>5, <2>1 DEF GroupInv, InstanceDone, subVars, groupVars
  <2>4. QED
    BY <2>2, <2>3
<1>7. ASSUME NEW h \in Subscribers
      PROVE  FlowInv(h)'
  <2>1. CASE h = g
    BY <1>1, <2>1 DEF FlowInv
  <2>2. CASE h # g
    <3>1. Fed(h)' = Fed(h) /\ \A t \in Subscribers : Sent(t)' = Sent(t)
      BY <1>1 DEF Fed, Sent, feedVars
    <3>2. QED
      BY <1>1, <2>2, <3>1, FlowKept DEF groupVars, feedVars
  <2>3. QED
    BY <2>1, <2>2
<1>8. QED
  BY <1>1, <1>3, <1>4, <1>6, <1>7, OrderKept DEF IInv, feedVars

LEMMA DeleteGroupKept ==
  ASSUME IInv, NEW g \in Subscribers, DeleteGroup(g)
  PROVE  IInv'
<1>1. /\ at[g] = "exit" /\ current' = Nil
      /\ at' = [at EXCEPT ![g] = "gone"] /\ at'[g] = "gone"
      /\ \A h \in Subscribers \ {g} : at'[h] = at[h]
      /\ UNCHANGED <<subVars, chan, got, subs, cancelled, todo, candle, src, feedVars>>
      /\ at \in [Subscribers -> Running \cup {"none", "gone"}]
  BY DEF DeleteGroup, IInv, TypeOK
<1>2. TypeOK'
  BY <1>1 DEF IInv, TypeOK, subVars, feedVars, Candles, Running
<1>3. OneGroup'
  <2>1. current = g
    BY <1>1 DEF IInv, OneGroup, Running
  <2>2. \A h \in Subscribers : at'[h] \notin Running /\ Nil # h
    BY <1>1, <2>1, HubAssumption DEF IInv, OneGroup, Running
  <2>3. QED
    BY <1>1, <2>2 DEF OneGroup, Running
<1>4. ASSUME NEW t \in Subscribers
      PROVE  SubscriberInv(t)' /\ GroupInv(t)'
  <2>1. SubscriberInv(t) /\ GroupInv(t)
    BY DEF IInv
  <2>2. SubscriberInv(t)'
    BY <1>1, <2>1 DEF SubscriberInv, InstanceDone, subVars, feedVars
  <2>3. GroupInv(t)'
    BY <1>1, <2>1, HubAssumption DEF GroupInv, InstanceDone, subVars
  <2>4. QED
    BY <2>2, <2>3
<1>5. ASSUME NEW h \in Subscribers
      PROVE  FlowInv(h)'
  <2>1. CASE h = g
    BY <1>1, <2>1 DEF FlowInv
  <2>2. CASE h # g
    <3>1. Fed(h)' = Fed(h) /\ \A t \in Subscribers : Sent(t)' = Sent(t)
      BY <1>1 DEF Fed, Sent, feedVars
    <3>2. QED
      BY <1>1, <2>2, <3>1, FlowKept DEF feedVars
  <2>3. QED
    BY <2>1, <2>2
<1>6. QED
  BY <1>1, <1>2, <1>3, <1>4, <1>5, OrderKept DEF IInv, feedVars

\* A candle of the instrument that is taken is the next one.
LEMMA TakeCandleKept ==
  ASSUME IInv, NEW g \in Subscribers, TakeCandle(g)
  PROVE  IInv'
<1> DEFINE c == Head(src[g])
           to == Recipients(g, c)
<1>1. /\ at[g] = "select" /\ src[g] # <<>>
      /\ candle' = [candle EXCEPT ![g] = IF to = <<>> THEN Foreign ELSE c]
      /\ todo' = [todo EXCEPT ![g] = to]
      /\ at' = [at EXCEPT ![g] = IF to = <<>> THEN "select" ELSE "send"]
      /\ src' = [src EXCEPT ![g] = Tail(src[g])]
      /\ UNCHANGED <<subVars, chan, got, groupVars, feedVars>>
  BY DEF TakeCandle
<1>2. /\ at \in [Subscribers -> Running \cup {"none", "gone"}]
      /\ todo \in [Subscribers -> Seq(Subscribers)] /\ candle \in [Subscribers -> Candles]
      /\ src \in [Subscribers -> Seq(Candles)] /\ subs[g] \in Seq(Subscribers)
  BY DEF IInv, TypeOK
<1>3. /\ c \in Candles /\ Tail(src[g]) \in Seq(Candles)
      /\ Len(Tail(src[g])) = Len(src[g]) - 1 /\ Len(src[g]) \in Nat
  BY <1>1, <1>2, HeadTailProperties, LenProperties, EmptySeq
<1>4. /\ to \in Seq(Subscribers) /\ IsInjective(to)
      /\ \A t \in Subscribers : Contains(to, t) <=> c # Foreign /\ Contains(subs[g], t)
      /\ to # <<>> => c # Foreign /\ to = subs[g]
      /\ to = <<>> => c = Foreign \/ subs[g] = <<>>
  <2>1. IsInjective(<<>>) /\ <<>> \in Seq(Subscribers) /\ \A t : ~Contains(<<>>, t)
    BY EmptySeq DEF IsInjective, Contains
  <2>2. IsInjective(subs[g])
    BY DEF IInv, GroupInv
  <2>3. QED
    BY <1>2, <2>1, <2>2 DEF Recipients
<1> HIDE DEF c, to
<1>5. /\ candle'[g] = (IF to = <<>> THEN Foreign ELSE c) /\ todo'[g] = to
      /\ at'[g] = (IF to = <<>> THEN "select" ELSE "send") /\ src'[g] = Tail(src[g])
      /\ \A h \in Subscribers \ {g} :
           candle'[h] = candle[h] /\ todo'[h] = todo[h] /\ at'[h] = at[h] /\ src'[h] = src[h]
      /\ at' \in [Subscribers -> Running \cup {"none", "gone"}]
      /\ todo' \in [Subscribers -> Seq(Subscribers)] /\ src' \in [Subscribers -> Seq(Candles)]
      /\ candle' \in [Subscribers -> Candles]
  <2>1. Foreign \in Candles
    BY HubAssumption DEF Foreign, Candles
  <2>2. QED
    BY <1>1, <1>2, <1>3, <1>4, <2>1 DEF Running
<1>6. TypeOK'
  <2>1. \A h \in Subscribers : Len(src'[h]) <= SrcSize
    <3>1. Len(src[g]) <= SrcSize
      BY DEF IInv, TypeOK
    <3>2. Len(Tail(src[g])) <= SrcSize
      BY <1>3, <3>1, HubAssumption
    <3>3. QED
      BY <1>5, <3>2 DEF IInv, TypeOK
  <2>2. QED
    BY <1>1, <1>5, <2>1 DEF IInv, TypeOK, subVars, groupVars, feedVars, Candles, Running
<1>7. OneGroup'
  BY <1>1, <1>5 DEF IInv, OneGroup, groupVars, Running
<1>8. ASSUME NEW t \in Subscribers
      PROVE  SubscriberInv(t)' /\ GroupInv(t)'
  <2>1. SubscriberInv(t) /\ GroupInv(t)
    BY DEF IInv
  <2>2. SubscriberInv(t)'
    BY <1>1, <1>5, <2>1 DEF SubscriberInv, InstanceDone, subVars, groupVars, feedVars
  <2>3. IsInjective(todo'[t]) /\ \A u \in Subscribers : Contains(todo'[t], u) => joined[u] = t
    BY <1>4, <1>5, <2>1 DEF GroupInv
  <2>4. /\ at'[t] = "send" => todo'[t] # <<>> /\ candle'[t] # Foreign
        /\ at'[t] # "send" => todo'[t] = <<>>
    BY <1>4, <1>5, <2>1 DEF GroupInv
  <2>5. at[t] \in {"select", "send"} => at'[t] \in {"select", "send"}
    BY <1>5
  <2>6. GroupInv(t)'
    BY <1>1, <2>1, <2>3, <2>4, <2>5 DEF GroupInv, InstanceDone, subVars, groupVars, Foreign
  <2>7. QED
    BY <2>2, <2>6
<1>9. \A t \in Subscribers : Sent(t)' = Sent(t)
  BY <1>1 DEF Sent
<1>10. ASSUME NEW h \in Subscribers
       PROVE  FlowInv(h)'
  <2>1. Fed(h)' = Fed(h)
    BY <1>1 DEF Fed, feedVars
  <2>2. CASE h # g
    BY <1>1, <1>5, <1>9, <2>1, <2>2, FlowKept DEF groupVars, feedVars
  <2>3. CASE h = g
    <3>1. PICK p \in Candles : Position(g, p)
      BY <1>1 DEF IInv, FlowInv
    <3>2. PICK hi \in Candles : Carries(src[g], p, hi) /\ (g \in outs \cup queue => hi = Fed(g))
      BY <3>1 DEF Position
    <3>3. /\ p \in Nat /\ hi \in Nat /\ src[g] \in Seq(Nat)
          /\ \A t \in Subscribers : Sent(t) \in Nat
      BY Channels DEF Candles
    <3>4. /\ c = Foreign => Carries(src'[g], p, hi)
          /\ c # Foreign => c = p + 1 /\ p + 1 <= hi /\ Carries(src'[g], p + 1, hi)
      BY <1>1, <1>5, <3>2, <3>3, CarriesRest DEF c
    <3>5. \A t \in Subscribers : Contains(subs[g], t) => Sent(t) = 0 \/ Sent(t) = p
      <4>1. \A t \in Subscribers : ~Contains(todo[g], t)
        BY <1>1 DEF IInv, GroupInv, Contains
      <4>2. QED
        BY <3>1, <4>1 DEF Position
    <3>6. PICK q \in Candles : q = (IF c = Foreign THEN p ELSE p + 1) /\ Carries(src'[g], q, hi)
      <4>1. CASE c = Foreign
        BY <3>4, <4>1
      <4>2. CASE c # Foreign
        <5>1. p + 1 \in Candles
          BY <3>3, <3>4, <4>2, HubAssumption DEF Candles
        <5>2. QED
          BY <3>4, <4>2, <5>1
      <4>3. QED
        BY <4>1, <4>2
    <3>7. \E top \in Candles' : Carries(src'[g], q, top)
                                /\ (g \in outs' \cup queue' => top = Fed(g)')
      <4>1. outs' = outs /\ queue' = queue
        BY <1>1 DEF feedVars
      <4>2. QED
        BY <2>1, <2>3, <3>2, <3>6, <4>1 DEF Candles
    <3>8. at'[g] = "send" => candle'[g] = q
      BY <1>4, <1>5, <3>4, <3>6
    <3>9. \A t \in Subscribers :
            /\ Contains(todo'[g], t) => Sent(t)' = 0 \/ Sent(t)' + 1 = q
            /\ Contains(subs'[g], t) /\ ~Contains(todo'[g], t) => Sent(t)' = 0 \/ Sent(t)' = q
      <4>1. ASSUME NEW t \in Subscribers
            PROVE  /\ Contains(todo'[g], t) => Sent(t)' = 0 \/ Sent(t)' + 1 = q
                   /\ Contains(subs'[g], t) /\ ~Contains(todo'[g], t) => Sent(t)' = 0 \/ Sent(t)' = q
        <5>1. Sent(t)' = Sent(t) /\ subs'[g] = subs[g] /\ todo'[g] = to
          BY <1>1, <1>5, <1>9 DEF groupVars
        <5>2. /\ Contains(to, t) => c # Foreign /\ Contains(subs[g], t)
              /\ Contains(subs[g], t) /\ ~Contains(to, t) => c = Foreign
              /\ Contains(subs[g], t) => Sent(t) = 0 \/ Sent(t) = p
          BY <1>4, <3>5
        <5>3. QED
          BY <3>6, <5>1, <5>2
      <4>2. QED
        BY <4>1
    <3>10. Position(g, q)'
      BY <3>7, <3>8, <3>9 DEF Position, Carries
    <3>11. QED
      BY <2>3, <3>6, <3>10 DEF FlowInv
  <2>4. QED
    BY <2>2, <2>3
<1>11. QED
  BY <1>1, <1>6, <1>7, <1>8, <1>10, OrderKept DEF IInv, feedVars

\* The first of those a candle has still to be sent to gets it after the one before.
LEMMA SendCandleKept ==
  ASSUME IInv, NEW g \in Subscribers, SendCandle(g)
  PROVE  IInv'
<1> DEFINE c == candle[g]
           rest == Tail(todo[g])
<1>0. PICK s : s = Head(todo[g])
  OBVIOUS
<1>1. /\ at[g] = "send" /\ Len(chan[s]) < ChanSize
      /\ chan' = [chan EXCEPT ![s] = Append(chan[s], c)]
      /\ todo' = [todo EXCEPT ![g] = rest]
      /\ at' = [at EXCEPT ![g] = IF rest = <<>> THEN "select" ELSE "send"]
      /\ candle' = [candle EXCEPT ![g] = IF rest = <<>> THEN Foreign ELSE c]
      /\ UNCHANGED <<subVars, got, groupVars, src, feedVars>>
  BY <1>0 DEF SendCandle
<1>2. /\ at \in [Subscribers -> Running \cup {"none", "gone"}]
      /\ todo \in [Subscribers -> Seq(Subscribers)] /\ candle \in [Subscribers -> Candles]
      /\ chan \in [Subscribers -> Seq(Candles)]
      /\ GroupInv(g) /\ todo[g] # <<>> /\ c # Foreign /\ c \in Candles
  BY <1>1 DEF IInv, TypeOK, GroupInv
<1>3. /\ s \in Subscribers /\ rest \in Seq(Subscribers)
      /\ IsInjective(rest) /\ ~Contains(rest, s)
      /\ \A t : Contains(todo[g], t) <=> t = s \/ Contains(rest, t)
  BY <1>0, <1>2, ContainsTail DEF GroupInv
<1>4. joined[s] = g
  BY <1>2, <1>3 DEF GroupInv
<1> HIDE DEF rest
<1>5. /\ Append(chan[s], c) \in Seq(Candles) /\ Len(Append(chan[s], c)) = Len(chan[s]) + 1
      /\ Len(chan[s]) \in Nat /\ Append(chan[s], c)[Len(chan[s]) + 1] = c
  BY <1>2, <1>3, AppendProperties, LenProperties
<1>6. /\ chan'[s] = Append(chan[s], c) /\ \A t \in Subscribers \ {s} : chan'[t] = chan[t]
      /\ chan' \in [Subscribers -> Seq(Candles)]
      /\ \A t \in Subscribers : Len(chan'[t]) <= ChanSize
  <2>1. Len(Append(chan[s], c)) <= ChanSize
    BY <1>1, <1>5, HubAssumption
  <2>2. QED
    BY <1>1, <1>2, <1>3, <1>5, <2>1 DEF IInv, TypeOK
<1>7. /\ candle'[g] = (IF rest = <<>> THEN Foreign ELSE c) /\ todo'[g] = rest
      /\ at'[g] = (IF rest = <<>> THEN "select" ELSE "send")
      /\ \A h \in Subscribers \ {g} :
           candle'[h] = candle[h] /\ todo'[h] = todo[h] /\ at'[h] = at[h]
      /\ at' \in [Subscribers -> Running \cup {"none", "gone"}]
      /\ todo' \in [Subscribers -> Seq(Subscribers)]
      /\ candle' \in [Subscribers -> Candles]
  <2>1. Foreign \in Candles
    BY HubAssumption DEF Foreign, Candles
  <2>2. QED
    BY <1>1, <1>2, <1>3, <2>1 DEF Running
<1>8. TypeOK'
  BY <1>1, <1>6, <1>7 DEF IInv, TypeOK, subVars, groupVars, feedVars, Candles, Running
<1>9. OneGroup'
  BY <1>1, <1>7 DEF IInv, OneGroup, groupVars, Running
<1>10. sub[s] # "new"
  <2>1. SUFFICES ASSUME sub[s] = "new" PROVE FALSE
    OBVIOUS
  <2>2. joined[s] = Nil /\ g # Nil
    BY <1>3, <2>1, HubAssumption DEF IInv, SubscriberInv
  <2>3. QED
    BY <1>4, <2>2
<1>11. ASSUME NEW t \in Subscribers
       PROVE  SubscriberInv(t)' /\ GroupInv(t)'
  <2>1. SubscriberInv(t) /\ GroupInv(t)
    BY DEF IInv
  <2>2. /\ sub[t] = "new" => t # s
        /\ sub[t] = "new" => t # g
    BY <1>1, <1>10, <2>1 DEF SubscriberInv
  <2>3. SubscriberInv(t)'
    BY <1>1, <1>6, <1>7, <2>1, <2>2 DEF SubscriberInv, InstanceDone, subVars, groupVars, feedVars
  <2>4. IsInjective(todo'[t]) /\ \A u \in Subscribers : Contains(todo'[t], u) => joined[u] = t
    BY <1>3, <1>7, <2>1 DEF GroupInv
  <2>5. /\ at'[t] = "send" => todo'[t] # <<>> /\ candle'[t] # Foreign
        /\ at'[t] # "send" => todo'[t] = <<>>
    BY <1>2, <1>7, <2>1 DEF GroupInv
  <2>6. at[t] \in {"select", "send"} => at'[t] \in {"select", "send"}
    BY <1>7
  <2>7. GroupInv(t)'
    BY <1>1, <2>1, <2>4, <2>5, <2>6 DEF GroupInv, InstanceDone, subVars, groupVars, Foreign
  <2>8. QED
    BY <2>3, <2>7
<1>12. PICK p \in Candles : Position(g, p)
  BY <1>1 DEF IInv, FlowInv
<1>13. p = c /\ p \in Nat /\ c \in Nat /\ (Sent(s) = 0 \/ Sent(s) + 1 = c) /\ Sent(s) \in Nat
  BY <1>1, <1>3, <1>12, Channels DEF Position
<1>14. /\ Sent(s)' = c /\ \A t \in Subscribers \ {s} : Sent(t)' = Sent(t)
  <2>1. chan'[s] # <<>> /\ Len(chan'[s]) = Len(chan[s]) + 1
    BY <1>5, <1>6, EmptySeq
  <2>2. QED
    BY <1>1, <1>5, <1>6, <2>1 DEF Sent
<1>15. ASSUME NEW h \in Subscribers
       PROVE  FlowInv(h)'
  <2>1. Fed(h)' = Fed(h)
    BY <1>1 DEF Fed, feedVars
  <2>2. CASE h # g
    <3>1. ~Contains(subs[h], s) /\ ~Contains(todo[h], s)
      BY <1>3, <1>4, <2>2 DEF IInv, GroupInv
    <3>2. SUFFICES ASSUME at[h] \in {"select", "send"}
                   PROVE  \E q \in Candles : Position(h, q)'
      BY <1>7, <2>2 DEF FlowInv, Candles
    <3>3. PICK q \in Candles : Position(h, q)
      BY <3>2 DEF IInv, FlowInv
    <3>4. /\ at'[h] = "send" => candle'[h] = q
          /\ \A t \in Subscribers :
               /\ Contains(todo'[h], t) => Sent(t)' = 0 \/ Sent(t)' + 1 = q
               /\ Contains(subs'[h], t) /\ ~Contains(todo'[h], t) => Sent(t)' = 0 \/ Sent(t)' = q
      BY <1>1, <1>7, <1>14, <2>2, <3>1, <3>3 DEF Position, groupVars
    <3>5. \E hi \in Candles' : Carries(src'[h], q, hi) /\ (h \in outs' \cup queue' => hi = Fed(h)')
      BY <1>1, <2>1, <3>3 DEF Position, Candles, feedVars
    <3>6. Position(h, q)'
      BY <3>4, <3>5 DEF Position, Carries
    <3>7. QED
      BY <3>6
  <2>3. CASE h = g
    <3>1. /\ at'[g] = "send" => candle'[g] = p
          /\ \A t \in Subscribers :
               /\ Contains(todo'[g], t) => Sent(t)' = 0 \/ Sent(t)' + 1 = p
               /\ Contains(subs'[g], t) /\ ~Contains(todo'[g], t) => Sent(t)' = 0 \/ Sent(t)' = p
      <4>1. at'[g] = "send" => candle'[g] = p
        BY <1>7, <1>13
      <4>2. Sent(s)' = p /\ ~Contains(todo'[g], s)
        BY <1>3, <1>7, <1>13, <1>14
      <4>3. ASSUME NEW t \in Subscribers \ {s}
            PROVE  /\ Contains(todo'[g], t) => Sent(t)' = 0 \/ Sent(t)' + 1 = p
                   /\ Contains(subs'[g], t) /\ ~Contains(todo'[g], t) => Sent(t)' = 0 \/ Sent(t)' = p
        <5>1. Sent(t)' = Sent(t) /\ subs'[g] = subs[g]
          BY <1>1, <1>14 DEF groupVars
        <5>2. Contains(todo'[g], t) <=> Contains(todo[g], t)
          BY <1>3, <1>7
        <5>3. QED
          BY <1>12, <5>1, <5>2 DEF Position
      <4>4. QED
        BY <4>1, <4>2, <4>3
    <3>2. \E hi \in Candles' : Carries(src'[g], p, hi) /\ (g \in outs' \cup queue' => hi = Fed(g)')
      BY <1>1, <1>12, <2>1, <2>3 DEF Position, Candles, feedVars
    <3>3. Position(g, p)'
      BY <3>1, <3>2 DEF Position, Carries
    <3>4. QED
      BY <2>3, <3>3 DEF FlowInv, Candles
  <2>4. QED
    BY <2>2, <2>3
<1>16. ReceivedInOrder'
  <2>1. \A t \in Subscribers : InOrder(got[t], chan[t])
    BY DEF IInv, ReceivedInOrder, InOrder
  <2>2. InOrder(got[s], chan'[s])
    <3>1. chan[s] \in Seq(Nat) /\ got[s] \in Nat
      BY <1>3, Channels
    <3>2. Sent(s) # 0 => c = Sent(s) + 1
      BY <1>13
    <3>3. QED
      BY <1>2, <1>3, <1>6, <1>13, <2>1, <3>1, <3>2, InOrderAppend DEF Sent
  <2>3. \A t \in Subscribers : InOrder(got'[t], chan'[t])
    BY <1>1, <1>6, <2>1, <2>2
  <2>4. QED
    BY <2>3 DEF ReceivedInOrder, InOrder
<1>17. QED
  BY <1>1, <1>8, <1>9, <1>11, <1>15, <1>16 DEF IInv, feedVars

-----------------------------------------------------------------------------
(* The theorems.                                                           *)

LEMMA InitIInv == Init => IInv
<1> SUFFICES ASSUME Init PROVE IInv
  OBVIOUS
<1> USE DEF Init
<1>1. /\ 0 \in Candles /\ <<>> \in Seq(Candles) /\ <<>> \in Seq(Subscribers)
      /\ IsInjective(<<>>) /\ Len(<<>>) = 0 /\ \A t : ~Contains(<<>>, t)
      /\ 0 <= ChanSize /\ 0 <= SrcSize
  BY HubAssumption, EmptySeq DEF Candles, IsInjective, Contains
<1>2. TypeOK
  BY <1>1 DEF TypeOK, Foreign, Running
<1>3. OneGroup
  BY HubAssumption DEF OneGroup, Running
<1>4. ASSUME NEW t \in Subscribers
      PROVE  SubscriberInv(t) /\ GroupInv(t) /\ FlowInv(t)
  <2>1. SubscriberInv(t)
    BY DEF SubscriberInv
  <2>2. GroupInv(t)
    BY <1>1, HubAssumption DEF GroupInv
  <2>3. FlowInv(t)
    BY DEF FlowInv
  <2>4. QED
    BY <2>1, <2>2, <2>3
<1>5. ReceivedInOrder
  BY <1>1 DEF ReceivedInOrder
<1>6. QED
  BY <1>2, <1>3, <1>4, <1>5 DEF IInv

LEMMA StutterKept == ASSUME IInv, UNCHANGED vars PROVE IInv'
<1>1. UNCHANGED <<sub, joined, chan, got, current, subs, cancelled, at, todo, candle, src,
                  outs, queue, item, closed>>
  BY DEF vars, subVars, groupVars, runVars, feedVars
<1>2. TypeOK' /\ OneGroup'
  BY <1>1 DEF IInv, TypeOK, OneGroup, Candles, Running
<1>3. ASSUME NEW t \in Subscribers
      PROVE  SubscriberInv(t)' /\ GroupInv(t)'
  <2>1. SubscriberInv(t) /\ GroupInv(t)
    BY DEF IInv
  <2>2. QED
    BY <1>1, <2>1 DEF SubscriberInv, GroupInv, InstanceDone
<1>4. \A h \in Subscribers : FlowInv(h)'
  BY <1>1, FlowsKept
<1>5. QED
  BY <1>1, <1>2, <1>3, <1>4, OrderKept DEF IInv

LEMMA NextIInv == IInv /\ [Next]_vars => IInv'
<1> SUFFICES ASSUME IInv, [Next]_vars PROVE IInv'
  OBVIOUS
<1>1. ASSUME NEW s \in Subscribers,
             Subscribe(s) \/ SubscribeFails(s) \/ StopInstance(s) \/ Instance(s)
      PROVE  IInv'
  BY <1>1, SubscribeKept, SubscribeFailsKept, StopInstanceKept, ReadCandleKept, LeaveKept,
     CancelGroupKept DEF Instance
<1>2. ASSUME NEW g \in Subscribers, Run(g) \/ Feed(g) \/ Detach(g)
      PROVE  IInv'
  BY <1>2, TakeCandleKept, SendCandleKept, ExitRunKept, DeleteGroupKept, FeedKept, DetachKept
     DEF Run
<1>3. QED
  BY <1>1, <1>2, PublishCandleKept, StutterKept DEF Next

\* Whatever instances start and stop, and whatever the stream brings, the
\* invariant above holds of the hub's map, its groups and their channels.
THEOREM Invariant == Spec => []IInv
BY InitIInv, NextIInv, PTL DEF Spec

\* The types of the hub's variables; no channel holds more than its capacity.
THEOREM TypeCorrect == Spec => []TypeOK
<1>1. IInv => TypeOK
  BY DEF IInv
<1>2. QED
  BY <1>1, Invariant, PTL

\* The group of CandleHub.groups is the only one that runs, so that the deferred
\* delete of candleGroup.run removes its own entry and no other's.
THEOREM OneGroupRuns == Spec => []OneGroup
<1>1. IInv => OneGroup
  BY DEF IInv
<1>2. QED
  BY <1>1, Invariant, PTL

\* No cleanup cancels a group that the instance that made it still uses: the test
\* for the last subscriber and the cancellation that follows it are not atomic.
THEOREM MakerIsServed == Spec => []MakerServed
<1>1. IInv => MakerServed
  BY DEF IInv, GroupInv, SubscriberInv, MakerServed
<1>2. QED
  BY <1>1, Invariant, PTL

\* A subscriber gets consecutive candles of its instrument, whoever joins and
\* leaves while candleGroup.run copies them.
THEOREM CandlesInOrder == Spec => []ReceivedInOrder
<1>1. IInv => ReceivedInOrder
  BY DEF IInv
<1>2. QED
  BY <1>1, Invariant, PTL
=============================================================================
