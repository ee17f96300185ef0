--------------------------- MODULE MarketStream_proofs ---------------------------
(***************************************************************************)
(* TypeOK, ReaderKeepsSubscription, RefsCountHolders and SubscriptionServed *)
(* for any keys, any finite number of subscribers, and any number of lost  *)
(* connections, failed calls and reconnection attempts.                    *)
(***************************************************************************)
EXTENDS MarketStream, FiniteSetTheorems, TLAPS

-----------------------------------------------------------------------------
(* The inductive invariant.                                                *)

ForwarderType ==
  [key : Keys, gen : Nat, on : Streams, by : {"subscribe", "resubscribe"}, todo : SUBSET Clients]

\* The clients that ever subscribed to a key.
Subscribed(k) == {c \in Clients : client[c] = k}

ClientInv(c) ==
  /\ phase[c] \in {"new", "refused"} => client[c] = None
  /\ phase[c] \in {"on", "left"} => client[c] \in Keys
  /\ phase[c] = "on" => c \in subs[client[c]]

KeyInv(k) ==
  /\ gen[k] <= Cardinality(Subscribed(k))
  /\ k \in Open => gen[k] >= 1 /\ refs[k] = Cardinality(Holders(k))
  /\ k \notin Open => Holders(k) = {}

\* The broker was asked for k on the current stream, and a forwarder reads it.
Forwarded(k) ==
  /\ k \in asked[stream]
  /\ \E f \in forwarders : f.key = k /\ f.on = stream /\ ~CtxDone(f)

\* Before it listens, too, the listener has no stream only when there is nothing to
\* listen to.
ListenInv ==
  /\ listener \in {"listen", "lost"} => listening = stream /\ stream # None
  /\ listener = "listen" => stream \notin closed
  /\ listener \in {"take", "listen"} =>
       /\ stream = None => Open = {}
       /\ \A k \in Open : Forwarded(k)

IInv ==
  /\ TypeOK
  /\ forwarders \subseteq ForwarderType
  /\ \A c \in Clients : ClientInv(c)
  /\ \A k \in Keys : KeyInv(k)
  /\ ListenInv

-----------------------------------------------------------------------------
(* Counting readers.                                                       *)

LEMMA Counts ==
  ASSUME NEW k
  PROVE  /\ IsFiniteSet(Holders(k)) /\ IsFiniteSet(Subscribed(k))
         /\ Cardinality(Holders(k)) \in 0..Cardinality(Clients)
         /\ Cardinality(Subscribed(k)) \in 0..Cardinality(Clients)
         /\ Cardinality(Clients) \in Nat
<1>1. /\ Holders(k) \subseteq Clients /\ Subscribed(k) \subseteq Clients /\ IsFiniteSet(Clients)
  BY StreamAssumption DEF Holders, Subscribed
<1>2. /\ IsFiniteSet(Holders(k)) /\ IsFiniteSet(Subscribed(k))
      /\ Cardinality(Holders(k)) <= Cardinality(Clients)
      /\ Cardinality(Subscribed(k)) <= Cardinality(Clients)
  BY <1>1, FS_Subset
<1>3. /\ Cardinality(Holders(k)) \in Nat /\ Cardinality(Subscribed(k)) \in Nat
      /\ Cardinality(Clients) \in Nat
  BY <1>1, <1>2, FS_CardinalityType
<1>4. QED
  BY <1>2, <1>3

\* A client that was new joins the readers of a key.
Joins(c, k) ==
  /\ phase[c] = "new"
  /\ phase' = [phase EXCEPT ![c] = "on"]
  /\ client' = [client EXCEPT ![c] = k]

LEMMA JoinCounted ==
  ASSUME IInv, NEW c \in Clients, NEW k \in Keys, Joins(c, k)
  PROVE  /\ Cardinality(Holders(k)') = Cardinality(Holders(k)) + 1
         /\ Cardinality(Subscribed(k)') = Cardinality(Subscribed(k)) + 1
         /\ \A j \in Keys \ {k} : Holders(j)' = Holders(j) /\ Subscribed(j)' = Subscribed(j)
         /\ Cardinality(Holders(k)') \in 0..Cardinality(Clients)
         /\ Cardinality(Subscribed(k)') \in 0..Cardinality(Clients)
         /\ phase'[c] = "on" /\ client'[c] = k
         /\ \A d \in Clients \ {c} : phase'[d] = phase[d] /\ client'[d] = client[d]
         /\ phase' \in [Clients -> {"new", "on", "left", "gone", "refused"}]
         /\ client' \in [Clients -> Keys \cup {None}]
<1>1. /\ phase \in [Clients -> {"new", "on", "left", "gone", "refused"}]
      /\ client \in [Clients -> Keys \cup {None}] /\ client[c] = None /\ k # None
      /\ \A j \in Keys : j # None
  BY StreamAssumption DEF IInv, TypeOK, ClientInv, Joins
<1>2. /\ phase'[c] = "on" /\ client'[c] = k
      /\ \A d \in Clients \ {c} : phase'[d] = phase[d] /\ client'[d] = client[d]
      /\ phase' \in [Clients -> {"new", "on", "left", "gone", "refused"}]
      /\ client' \in [Clients -> Keys \cup {None}]
  BY <1>1 DEF Joins
<1>3. /\ Holders(k)' = Holders(k) \cup {c} /\ c \notin Holders(k)
      /\ Subscribed(k)' = Subscribed(k) \cup {c} /\ c \notin Subscribed(k)
  BY <1>1, <1>2 DEF Holders, Subscribed
<1>4. \A j \in Keys \ {k} : Holders(j)' = Holders(j) /\ Subscribed(j)' = Subscribed(j)
  BY <1>1, <1>2 DEF Holders, Subscribed
<1>5. /\ Cardinality(Holders(k)') = Cardinality(Holders(k)) + 1
      /\ Cardinality(Subscribed(k)') = Cardinality(Subscribed(k)) + 1
  BY <1>3, Counts, FS_AddElement
<1>6. /\ Holders(k)' \subseteq Clients /\ Subscribed(k)' \subseteq Clients
  BY DEF Holders, Subscribed
<1>7. /\ Cardinality(Holders(k)') <= Cardinality(Clients)
      /\ Cardinality(Subscribed(k)') <= Cardinality(Clients)
  BY <1>6, StreamAssumption, FS_Subset
<1>8. /\ Cardinality(Holders(k)') \in Nat /\ Cardinality(Subscribed(k)') \in Nat
  BY <1>5, Counts
<1>9. QED
  BY <1>2, <1>4, <1>5, <1>7, <1>8, Counts

\* A reader that has left unsubscribes.
LEMMA LeaverCounted ==
  ASSUME IInv, NEW c \in Clients, phase[c] = "left", phase' = [phase EXCEPT ![c] = "gone"],
         client' = client
  PROVE  /\ client[c] \in Open
         /\ Cardinality(Holders(client[c])) = Cardinality(Holders(client[c])') + 1
         /\ Cardinality(Holders(client[c])') \in Nat
         /\ Cardinality(Holders(client[c])') = 0 => Holders(client[c])' = {}
         /\ \A j \in Keys \ {client[c]} : Holders(j)' = Holders(j)
         /\ \A j : Holders(j)' \subseteq Holders(j)
         /\ phase'[c] = "gone" /\ \A d \in Clients \ {c} : phase'[d] = phase[d]
         /\ phase' \in [Clients -> {"new", "on", "left", "gone", "refused"}]
<1> DEFINE k == client[c]
<1>1. /\ phase'[c] = "gone" /\ \A d \in Clients \ {c} : phase'[d] = phase[d]
      /\ phase' \in [Clients -> {"new", "on", "left", "gone", "refused"}]
      /\ k \in Keys /\ c \in Holders(k)
  BY DEF IInv, TypeOK, ClientInv, Holders
<1>2. k \in Open
  BY <1>1 DEF IInv, KeyInv
<1>3. Holders(client[c])' = Holders(k) \ {c}
  BY <1>1 DEF Holders
<1>4. \A j \in Keys \ {k} : Holders(j)' = Holders(j)
  BY <1>1 DEF Holders
<1>5. /\ IsFiniteSet(Holders(k) \ {c})
      /\ Cardinality(Holders(k) \ {c}) = Cardinality(Holders(k)) - 1
  BY <1>1, Counts, FS_RemoveElement
<1>6. /\ Cardinality(Holders(k) \ {c}) \in Nat
      /\ Cardinality(Holders(k) \ {c}) = 0 => Holders(k) \ {c} = {}
  BY <1>5, FS_CardinalityType, FS_EmptySet
<1>7. \A j : Holders(j)' \subseteq Holders(j)
  BY <1>1 DEF Holders
<1>8. Cardinality(Holders(k)) \in Nat
  BY Counts
<1>9. QED
  BY <1>1, <1>2, <1>3, <1>4, <1>5, <1>6, <1>7, <1>8

-----------------------------------------------------------------------------
(* What a step leaves alone.                                               *)

\* A subscription is forwarded as long as its forwarder, or the copy of it that has
\* other readers to serve, runs.
LEMMA ForwardedKept ==
  ASSUME NEW k \in Keys, Forwarded(k), stream' = stream, k \in asked'[stream],
         refs'[k] # None, gen'[k] = gen[k],
         \A f \in forwarders :
           f.key = k /\ f.on = stream /\ ~CtxDone(f) =>
             \E h \in forwarders' : h.key = f.key /\ h.on = f.on /\ h.gen = f.gen
  PROVE  Forwarded(k)'
<1>1. PICK f \in forwarders : f.key = k /\ f.on = stream /\ ~CtxDone(f)
  BY DEF Forwarded
<1>2. PICK h \in forwarders' : h.key = k /\ h.on = stream /\ h.gen = f.gen
  BY <1>1
<1>3. h.gen = gen'[k]
  BY <1>1, <1>2 DEF CtxDone
<1>4. QED
  BY <1>2, <1>3 DEF Forwarded, CtxDone

LEMMA KeysKept ==
  ASSUME IInv, UNCHANGED <<refs, gen, client>>,
         \A c \in Clients : phase'[c] \in {"on", "left"} <=> phase[c] \in {"on", "left"}
  PROVE  \A k \in Keys : KeyInv(k)'
<1>1. Open' = Open
  BY DEF Open
<1>2. \A k \in Keys : Holders(k)' = Holders(k) /\ Subscribed(k)' = Subscribed(k)
  BY DEF Holders, Subscribed
<1>3. QED
  BY <1>1, <1>2 DEF IInv, KeyInv

LEMMA ListenKept ==
  ASSUME IInv, UNCHANGED <<listener, listening, stream, refs, gen, asked>>,
         listener = "listen" => stream \notin closed',
         \A f \in forwarders :
           f.on = stream /\ ~CtxDone(f) /\ listener \in {"take", "listen"} =>
             \E h \in forwarders' : h.key = f.key /\ h.on = f.on /\ h.gen = f.gen
  PROVE  ListenInv'
<1>1. Open' = Open /\ ListenInv
  BY DEF Open, IInv
<1>2. ASSUME listener \in {"take", "listen"}, NEW k \in Open
      PROVE  Forwarded(k)'
  <2>1. k \in Keys /\ Forwarded(k) /\ refs[k] # None
    BY <1>1, <1>2 DEF ListenInv, Open
  <2>2. k \in asked'[stream]
    BY <2>1 DEF Forwarded
  <2>3. QED
    BY <1>2, <2>1, <2>2, ForwardedKept
<1>3. QED
  BY <1>1, <1>2 DEF ListenInv

\* ensureStream: the current stream, or a new one with the keys ks.
LEMMA Ensured ==
  ASSUME IInv, NEW s \in Streams, NEW ks \in SUBSET Keys, EnsureStream(s), Serve(s, ks)
  PROVE  /\ asked' \in [Streams -> SUBSET Keys] /\ ks \subseteq asked'[s]
         /\ closed' \subseteq closed
         /\ s # None
         /\ stream # None => s = stream /\ asked[s] \subseteq asked'[s] /\ closed' = closed
         /\ listener \in {"take", "retry", "listen"} => s \notin closed'
         /\ stream = None => s \notin closed'
<1>1. asked \in [Streams -> SUBSET Keys] /\ s # None
  BY StreamAssumption DEF IInv, TypeOK, Streams
<1>2. asked' = [asked EXCEPT ![s] = IF stream = None THEN ks ELSE asked[s] \cup ks]
  BY DEF Serve
<1>3. asked' \in [Streams -> SUBSET Keys] /\ ks \subseteq asked'[s]
      /\ (stream # None => asked[s] \subseteq asked'[s])
  BY <1>1, <1>2
<1>4. stream # None => s = stream
  BY DEF EnsureStream
<1>5. closed' = IF stream = None THEN closed \ {s} ELSE closed
  BY DEF Serve
<1>6. listener \in {"take", "retry", "listen"} => stream \notin closed
  BY DEF IInv, TypeOK, ListenInv
<1>7. QED
  BY <1>1, <1>3, <1>4, <1>5, <1>6

LEMMA Types ==
  ASSUME IInv
  PROVE  /\ stream \in Streams \cup {None}
         /\ refs \in [Keys -> 0 .. Cardinality(Clients) \cup {None}]
         /\ gen \in [Keys -> 0 .. Cardinality(Clients)]
         /\ subs \in [Keys -> SUBSET Clients]
         /\ phase \in [Clients -> {"new", "on", "left", "gone", "refused"}]
         /\ client \in [Clients -> Keys \cup {None}]
         /\ chan \in [Clients -> 0 .. Buffer]
         /\ asked \in [Streams -> SUBSET Keys]
         /\ closed \subseteq Streams
BY DEF IInv, TypeOK

\* The forwarders' part of TypeOK.
ForwardersTyped ==
  \A f \in forwarders : /\ f.key \in Keys /\ f.gen \in 1 .. gen[f.key]
                        /\ f.on \in Streams /\ f.by \in {"subscribe", "resubscribe"}
                        /\ f.todo \subseteq Clients

LEMMA NewForwarder ==
  ASSUME IInv, NEW k \in Keys, NEW s \in Streams, NEW by \in {"subscribe", "resubscribe"},
         NEW g \in 1..gen'[k], gen'[k] \in Nat
  PROVE  /\ Forwarder(k, g, s, by) \in ForwarderType
         /\ Forwarder(k, g, s, by).key = k /\ Forwarder(k, g, s, by).gen = g
         /\ Forwarder(k, g, s, by).on = s /\ Forwarder(k, g, s, by).by = by
         /\ Forwarder(k, g, s, by).todo = {}
BY DEF Forwarder, ForwarderType

-----------------------------------------------------------------------------
(* Clients.                                                                *)

LEMMA SubscribeSharedKept ==
  ASSUME IInv, NEW c \in Clients, NEW k \in Keys, SubscribeShared(c, k)
  PROVE  IInv'
<1>1. /\ phase[c] = "new" /\ k \in Open /\ refs[k] # None
      /\ refs' = [refs EXCEPT ![k] = refs[k] + 1]
      /\ subs' = [subs EXCEPT ![k] = subs[k] \cup {c}]
      /\ Joins(c, k)
      /\ UNCHANGED <<gen, chan, listenVars, forwarders, bounds>>
  BY DEF SubscribeShared, Counted, Joins, Open
<1>2. PICK s \in Streams : EnsureStream(s) /\ stream' = s /\ Serve(s, {})
  BY DEF SubscribeShared
<1>3. /\ asked' \in [Streams -> SUBSET Keys] /\ closed' \subseteq closed /\ s # None
      /\ stream # None => s = stream /\ asked[s] \subseteq asked'[s] /\ closed' = closed
      /\ listener \in {"take", "retry", "listen"} => s \notin closed'
  BY <1>2, Ensured
<1>4. /\ refs[k] = Cardinality(Holders(k)) /\ gen[k] >= 1
  BY <1>1 DEF IInv, KeyInv
<1>5. /\ refs'[k] = Cardinality(Holders(k)') /\ refs'[k] \in 0..Cardinality(Clients)
      /\ refs'[k] # None
      /\ \A j \in Keys \ {k} : refs'[j] = refs[j]
      /\ refs' \in [Keys -> 0..Cardinality(Clients) \cup {None}]
  <2>1. refs[k] + 1 = Cardinality(Holders(k)') /\ refs[k] + 1 \in 0..Cardinality(Clients)
    BY <1>1, <1>4, JoinCounted
  <2>2. refs[k] + 1 # None
    BY <2>1, Counts, StreamAssumption
  <2>3. QED
    BY <1>1, <2>1, <2>2, Types
<1>6. Open' = Open
  BY <1>1, <1>5 DEF Open
<1>7. /\ subs' \in [Keys -> SUBSET Clients] /\ \A j \in Keys : subs[j] \subseteq subs'[j]
      /\ c \in subs'[k]
  BY <1>1, Types
<1>8. TypeOK'
  BY <1>1, <1>2, <1>3, <1>5, <1>7, JoinCounted DEF IInv, TypeOK, listenVars
<1>9. \A d \in Clients : ClientInv(d)'
  BY <1>1, <1>7, JoinCounted DEF IInv, ClientInv
<1>10. ASSUME NEW j \in Keys
       PROVE  KeyInv(j)'
  <2>1. KeyInv(j) /\ gen[j] \in Nat /\ Cardinality(Subscribed(j)) \in Nat
    BY Types, Counts DEF IInv
  <2>2. CASE j = k
    <3>1. gen[k] <= Cardinality(Subscribed(k)')
      BY <1>1, <2>1, <2>2, JoinCounted DEF KeyInv
    <3>2. QED
      BY <1>1, <1>4, <1>5, <1>6, <2>2, <3>1 DEF KeyInv
  <2>3. CASE j # k
    BY <1>1, <1>5, <1>6, <2>1, <2>3, JoinCounted DEF KeyInv
  <2>4. QED
    BY <2>2, <2>3
<1>11. ListenInv'
  <2>1. ASSUME listener \in {"take", "listen"}
        PROVE  stream # None
    BY <1>1, <2>1 DEF IInv, ListenInv
  <2>2. ASSUME listener \in {"take", "listen"}, NEW j \in Open
        PROVE  Forwarded(j)'
    <3>1. Forwarded(j) /\ j \in Keys /\ stream' = stream /\ asked[stream] \subseteq asked'[stream]
      BY <1>2, <1>3, <2>1, <2>2 DEF IInv, ListenInv, Open
    <3>2. j \in asked'[stream] /\ refs'[j] # None
      BY <1>5, <2>2, <3>1 DEF Forwarded, Open
    <3>3. QED
      BY <1>1, <3>1, <3>2, ForwardedKept
  <2>3. listener \in {"listen", "lost"} => stream' = stream
    BY <1>2, <1>3 DEF IInv, ListenInv
  <2>4. QED
    BY <1>1, <1>2, <1>3, <1>6, <2>2, <2>3 DEF IInv, ListenInv, listenVars
<1>12. QED
  BY <1>1, <1>8, <1>9, <1>10, <1>11 DEF IInv, ForwarderType

LEMMA SubscribeNewKept ==
  ASSUME IInv, NEW c \in Clients, NEW k \in Keys, SubscribeNew(c, k)
  PROVE  IInv'
<1>1. /\ phase[c] = "new" /\ k \notin Open
      /\ refs' = [refs EXCEPT ![k] = 1] /\ gen' = [gen EXCEPT ![k] = gen[k] + 1]
      /\ subs' = [subs EXCEPT ![k] = {c}]
      /\ Joins(c, k)
      /\ UNCHANGED <<chan, listenVars, bounds>>
  BY DEF SubscribeNew, Joins
<1>2. PICK s \in Streams :
        /\ EnsureStream(s) /\ stream' = s /\ Serve(s, {k})
        /\ forwarders' = forwarders \cup {Forwarder(k, gen[k] + 1, s, "subscribe")}
  BY DEF SubscribeNew
<1>3. /\ asked' \in [Streams -> SUBSET Keys] /\ k \in asked'[s] /\ closed' \subseteq closed
      /\ s # None
      /\ stream # None => s = stream /\ asked[s] \subseteq asked'[s] /\ closed' = closed
      /\ listener \in {"take", "retry", "listen"} => s \notin closed'
  <2>1. {k} \in SUBSET Keys
    OBVIOUS
  <2>2. QED
    BY <1>2, <2>1, Ensured
<1>4. Holders(k) = {} /\ Cardinality(Holders(k)) = 0
  BY <1>1, FS_EmptySet DEF IInv, KeyInv
<1>5. /\ refs'[k] = 1 /\ 1 = Cardinality(Holders(k)') /\ 1 \in 0..Cardinality(Clients) /\ 1 # None
      /\ \A j \in Keys \ {k} : refs'[j] = refs[j]
      /\ refs' \in [Keys -> 0..Cardinality(Clients) \cup {None}]
  <2>1. /\ Cardinality(Holders(k)') = Cardinality(Holders(k)) + 1
        /\ Cardinality(Holders(k)') \in 0..Cardinality(Clients)
    BY <1>1, JoinCounted
  <2>2. Cardinality(Holders(k)') = 1
    BY <1>4, <2>1
  <2>3. 1 \in 0..Cardinality(Clients) /\ 1 # None
    BY <2>1, <2>2, StreamAssumption
  <2>4. QED
    BY <1>1, <2>2, <2>3, Types
<1>6. /\ gen'[k] = gen[k] + 1 /\ gen[k] + 1 \in 0..Cardinality(Clients)
      /\ gen[k] + 1 <= Cardinality(Subscribed(k)') /\ gen[k] \in Nat
      /\ \A j \in Keys \ {k} : gen'[j] = gen[j]
      /\ gen' \in [Keys -> 0..Cardinality(Clients)]
  <2>1. gen[k] \in Nat /\ gen[k] <= Cardinality(Subscribed(k))
    BY Types DEF IInv, KeyInv
  <2>2. /\ Cardinality(Subscribed(k)') = Cardinality(Subscribed(k)) + 1
        /\ Cardinality(Subscribed(k)') \in 0..Cardinality(Clients)
    BY <1>1, JoinCounted
  <2>3. Cardinality(Subscribed(k)) \in Nat /\ Cardinality(Clients) \in Nat
    BY Counts
  <2>4. gen[k] + 1 \in 0..Cardinality(Clients) /\ gen[k] + 1 <= Cardinality(Subscribed(k)')
    BY <2>1, <2>2, <2>3
  <2>5. QED
    BY <1>1, <2>1, <2>4, Types
<1>7. Open' = Open \cup {k}
  BY <1>1, <1>5 DEF Open
<1>8. /\ subs' \in [Keys -> SUBSET Clients] /\ \A j \in Keys \ {k} : subs'[j] = subs[j]
      /\ subs'[k] = {c}
  BY <1>1, Types
<1> DEFINE new == Forwarder(k, gen[k] + 1, s, "subscribe")
<1>9. /\ new \in ForwarderType /\ new.key = k /\ new.gen = gen[k] + 1 /\ new.on = s
      /\ new.by = "subscribe" /\ new.todo = {}
  <2>1. gen[k] + 1 \in 1..gen'[k] /\ gen'[k] \in Nat
    BY <1>6
  <2>2. QED
    BY <2>1, NewForwarder
<1> HIDE DEF new
<1>10. forwarders' = forwarders \cup {new} /\ forwarders' \subseteq ForwarderType
  BY <1>2, <1>9 DEF IInv, new
<1>11. ForwardersTyped'
  <2>1. ASSUME NEW f \in forwarders
        PROVE  f.key \in Keys /\ f.gen \in 1..gen'[f.key]
    <3>1. f.key \in Keys /\ f.gen \in 1..gen[f.key]
      BY DEF IInv, TypeOK
    <3>2. f.key = k => f.gen \in 1..(gen[k] + 1)
      BY <1>6, <3>1
    <3>3. QED
      BY <1>6, <3>1, <3>2
  <2>2. gen[k] + 1 \in 1..gen'[k]
    BY <1>6
  <2>3. QED
    BY <1>9, <1>10, <2>1, <2>2 DEF ForwardersTyped, IInv, TypeOK
<1>12. TypeOK'
  BY <1>1, <1>2, <1>3, <1>5, <1>6, <1>8, <1>11, JoinCounted
     DEF IInv, TypeOK, ForwardersTyped, listenVars
<1>13. ASSUME NEW d \in Clients
       PROVE  ClientInv(d)'
  <2>1. CASE d = c
    BY <1>1, <1>8, <2>1, JoinCounted DEF ClientInv
  <2>2. CASE d # c
    <3>1. phase[d] = "on" => client[d] # k
      BY <1>4 DEF Holders
    <3>2. QED
      BY <1>1, <1>8, <2>2, <3>1, JoinCounted DEF IInv, ClientInv
  <2>3. QED
    BY <2>1, <2>2
<1>14. ASSUME NEW j \in Keys
       PROVE  KeyInv(j)'
  <2>1. CASE j = k
    BY <1>5, <1>6, <1>7, <2>1 DEF KeyInv
  <2>2. CASE j # k
    BY <1>1, <1>5, <1>6, <1>7, <2>2, JoinCounted DEF IInv, KeyInv
  <2>3. QED
    BY <2>1, <2>2
<1>15. ListenInv'
  <2>1. ASSUME listener \in {"take", "listen"}, NEW j \in Open
        PROVE  Forwarded(j)'
    <3>1. Forwarded(j) /\ j \in Keys /\ stream # None /\ j # k
      BY <1>1, <2>1 DEF IInv, ListenInv, Open
    <3>2. j \in asked'[stream] /\ refs'[j] # None /\ stream' = stream
      BY <1>2, <1>3, <1>5, <2>1, <3>1 DEF Forwarded, Open
    <3>3. QED
      BY <1>6, <1>10, <3>1, <3>2, ForwardedKept
  <2>2. Forwarded(k)'
    <3>1. new \in forwarders' /\ new.key = k /\ new.on = stream' /\ new.gen = gen'[k]
      BY <1>2, <1>6, <1>9, <1>10
    <3>2. QED
      BY <1>2, <1>3, <1>5, <3>1 DEF Forwarded, CtxDone
  <2>3. listener \in {"listen", "lost"} => stream' = stream
    BY <1>2, <1>3 DEF IInv, ListenInv
  <2>4. QED
    BY <1>1, <1>2, <1>3, <1>7, <2>1, <2>2, <2>3 DEF IInv, ListenInv, listenVars
<1>16. QED
  BY <1>10, <1>12, <1>13, <1>14, <1>15 DEF IInv, ForwarderType

LEMMA SubscribeRefusedKept ==
  ASSUME IInv, NEW c \in Clients, NEW k \in Keys, SubscribeRefused(c, k)
  PROVE  IInv'
<1>1. /\ phase[c] = "new" /\ phase' = [phase EXCEPT ![c] = "refused"]
      /\ UNCHANGED <<refs, gen, subs, client, chan, listenVars, forwarders, events>>
  BY DEF SubscribeRefused
<1>2. /\ phase' \in [Clients -> {"new", "on", "left", "gone", "refused"}]
      /\ phase'[c] = "refused" /\ client[c] = None
      /\ \A d \in Clients \ {c} : phase'[d] = phase[d]
      /\ \A d \in Clients : phase'[d] \in {"on", "left"} <=> phase[d] \in {"on", "left"}
  BY <1>1, Types DEF IInv, ClientInv
<1>3. \A j \in Keys : KeyInv(j)'
  BY <1>1, <1>2, KeysKept
<1>4. \A d \in Clients : ClientInv(d)'
  BY <1>1, <1>2 DEF IInv, ClientInv
<1>5. /\ stream' \in Streams \cup {None} /\ asked' \in [Streams -> SUBSET Keys]
      /\ closed' \subseteq Streams /\ (listener \in {"take", "retry"} => stream' \notin closed')
      /\ ListenInv'
  <2>1. CASE UNCHANGED <<stream, asked, closed>>
    <3>1. ListenInv'
      BY <1>1, <2>1, ListenKept DEF listenVars, IInv, ListenInv
    <3>2. QED
      BY <2>1, <3>1 DEF IInv, TypeOK
  <2>2. CASE \E s \in Streams : EnsureStream(s) /\ stream' = s /\ Serve(s, {})
    <3>1. PICK s \in Streams : EnsureStream(s) /\ stream' = s /\ Serve(s, {})
      BY <2>2
    <3>2. /\ asked' \in [Streams -> SUBSET Keys] /\ closed' \subseteq closed /\ s # None
          /\ stream # None => s = stream /\ asked[s] \subseteq asked'[s] /\ closed' = closed
          /\ listener \in {"take", "retry", "listen"} => s \notin closed'
      BY <3>1, Ensured
    <3>3. Open' = Open
      BY <1>1 DEF Open
    <3>4. ASSUME listener \in {"take", "listen"}, NEW j \in Open
          PROVE  Forwarded(j)'
      <4>1. Forwarded(j) /\ j \in Keys /\ stream # None /\ refs[j] # None
        BY <3>4 DEF IInv, ListenInv, Open
      <4>2. j \in asked'[stream] /\ stream' = stream
        BY <3>1, <3>2, <4>1 DEF Forwarded
      <4>3. QED
        BY <1>1, <4>1, <4>2, ForwardedKept
    <3>5. listener \in {"listen", "lost"} => stream' = stream
      BY <3>1, <3>2 DEF IInv, ListenInv
    <3>6. ListenInv'
      BY <1>1, <3>1, <3>2, <3>3, <3>4, <3>5 DEF IInv, ListenInv, listenVars
    <3>7. QED
      BY <3>1, <3>2, <3>6, Types
  <2>3. QED
    BY <2>1, <2>2 DEF SubscribeRefused, brokerVars
<1>6. TypeOK'
  BY <1>1, <1>2, <1>5 DEF IInv, TypeOK, listenVars
<1>7. QED
  BY <1>1, <1>3, <1>4, <1>5, <1>6 DEF IInv, ForwarderType

LEMMA LeaveKept ==
  ASSUME IInv, NEW c \in Clients, Leave(c)
  PROVE  IInv'
<1>1. /\ phase[c] = "on" /\ phase' = [phase EXCEPT ![c] = "left"]
      /\ UNCHANGED <<managerVars, subs, client, chan, listenVars, forwarders, brokerVars, bounds>>
  BY DEF Leave
<1>2. /\ phase' \in [Clients -> {"new", "on", "left", "gone", "refused"}]
      /\ phase'[c] = "left" /\ \A d \in Clients \ {c} : phase'[d] = phase[d]
      /\ \A d \in Clients : phase'[d] \in {"on", "left"} <=> phase[d] \in {"on", "left"}
  BY <1>1, Types
<1>3. \A j \in Keys : KeyInv(j)'
  BY <1>1, <1>2, KeysKept DEF managerVars
<1>4. \A d \in Clients : ClientInv(d)'
  BY <1>1, <1>2 DEF IInv, ClientInv
<1>5. ListenInv'
  BY <1>1, ListenKept DEF managerVars, listenVars, brokerVars, IInv, ListenInv
<1>6. TypeOK'
  BY <1>1, <1>2 DEF IInv, TypeOK, managerVars, listenVars, brokerVars
<1>7. QED
  BY <1>1, <1>3, <1>4, <1>5, <1>6 DEF IInv, ForwarderType

LEMMA RemoveDoneKept ==
  ASSUME IInv, NEW c \in Clients, RemoveDone(c)
  PROVE  IInv'
<1>1. /\ phase[c] \in {"left", "gone"} /\ client[c] # None
      /\ subs' = [subs EXCEPT ![client[c]] = subs[client[c]] \ {c}]
      /\ UNCHANGED <<managerVars, clientVars, listenVars, forwarders, brokerVars, bounds>>
  BY DEF RemoveDone
<1>2. /\ subs' \in [Keys -> SUBSET Clients]
      /\ \A k \in Keys, d \in Clients \ {c} : d \in subs[k] => d \in subs'[k]
  BY <1>1, Types
<1>3. \A j \in Keys : KeyInv(j)'
  BY <1>1, KeysKept DEF managerVars, clientVars
<1>4. \A d \in Clients : ClientInv(d)'
  BY <1>1, <1>2, Types DEF IInv, ClientInv, clientVars
<1>5. ListenInv'
  BY <1>1, ListenKept DEF managerVars, listenVars, brokerVars, IInv, ListenInv
<1>6. TypeOK'
  BY <1>1, <1>2 DEF IInv, TypeOK, managerVars, clientVars, listenVars, brokerVars
<1>7. QED
  BY <1>1, <1>3, <1>4, <1>5, <1>6 DEF IInv, ForwarderType

LEMMA ReadKept ==
  ASSUME IInv, NEW c \in Clients, Read(c)
  PROVE  IInv'
<1>1. /\ chan[c] > 0 /\ chan' = [chan EXCEPT ![c] = chan[c] - 1]
      /\ UNCHANGED <<managerVars, subs, phase, client, listenVars, forwarders, brokerVars, bounds>>
  BY DEF Read
<1>2. chan' \in [Clients -> 0..Buffer]
  <2>1. chan[c] \in 0..Buffer /\ Buffer \in Nat
    BY Types, StreamAssumption
  <2>2. chan[c] - 1 \in 0..Buffer
    BY <1>1, <2>1
  <2>3. QED
    BY <1>1, <2>2, Types
<1>3. \A j \in Keys : KeyInv(j)'
  BY <1>1, KeysKept DEF managerVars
<1>4. \A d \in Clients : ClientInv(d)'
  BY <1>1 DEF IInv, ClientInv
<1>5. ListenInv'
  BY <1>1, ListenKept DEF managerVars, listenVars, brokerVars, IInv, ListenInv
<1>6. TypeOK'
  BY <1>1, <1>2 DEF IInv, TypeOK, managerVars, listenVars, brokerVars
<1>7. QED
  BY <1>1, <1>3, <1>4, <1>5, <1>6 DEF IInv, ForwarderType

LEMMA UnsubscribeKept ==
  ASSUME IInv, NEW c \in Clients, Unsubscribe(c)
  PROVE  IInv'
<1>1. /\ phase[c] = "left" /\ phase' = [phase EXCEPT ![c] = "gone"]
      /\ UNCHANGED <<stream, gen, client, chan, listenVars, forwarders, src, closed, events>>
  BY DEF Unsubscribe
<1>2. PICK k \in Keys : k = client[c]
  BY <1>1 DEF IInv, ClientInv
<1>3. /\ k \in Open
      /\ Cardinality(Holders(k)) = Cardinality(Holders(k)') + 1
      /\ Cardinality(Holders(k)') \in Nat
      /\ Cardinality(Holders(k)') = 0 => Holders(k)' = {}
      /\ \A j \in Keys \ {k} : Holders(j)' = Holders(j)
      /\ phase'[c] = "gone" /\ \A d \in Clients \ {c} : phase'[d] = phase[d]
      /\ phase' \in [Clients -> {"new", "on", "left", "gone", "refused"}]
  <2>1. client' = client
    BY <1>1
  <2>2. Holders(client[c])' = Holders(k)'
    BY <1>2, <2>1 DEF Holders
  <2>3. QED
    BY <1>1, <1>2, <2>1, <2>2, LeaverCounted
<1>4. /\ refs[k] = Cardinality(Holders(k)) /\ gen[k] >= 1 /\ refs[k] # None
      /\ Cardinality(Holders(k)) \in 0..Cardinality(Clients) /\ Cardinality(Clients) \in Nat
  BY <1>3, Counts DEF IInv, KeyInv, Open
<1>5. \A j \in Keys : Subscribed(j)' = Subscribed(j)
  BY <1>1 DEF Subscribed
<1>6. CASE refs' = [refs EXCEPT ![k] = refs[k] - 1] /\ UNCHANGED <<subs, asked>>
  <2>1. /\ refs[k] - 1 = Cardinality(Holders(k)') /\ refs[k] - 1 \in 0..Cardinality(Clients)
    BY <1>3, <1>4
  <2>2. refs[k] - 1 # None
    BY <2>1, StreamAssumption
  <2>3. /\ refs'[k] = Cardinality(Holders(k)') /\ refs'[k] # None
        /\ \A j \in Keys \ {k} : refs'[j] = refs[j]
        /\ refs' \in [Keys -> 0..Cardinality(Clients) \cup {None}]
    BY <1>6, <2>1, <2>2, Types
  <2>4. Open' = Open
    BY <1>4, <2>3 DEF Open
  <2>5. \A j \in Keys : KeyInv(j)'
    BY <1>1, <1>3, <1>4, <1>5, <2>3, <2>4 DEF IInv, KeyInv
  <2>6. \A d \in Clients : ClientInv(d)'
    BY <1>1, <1>2, <1>3, <1>6 DEF IInv, ClientInv
  <2>7. ASSUME listener \in {"take", "listen"}, NEW j \in Open
        PROVE  Forwarded(j)'
    <3>1. Forwarded(j) /\ j \in Keys /\ refs'[j] # None
      BY <2>3, <2>7 DEF IInv, ListenInv, Open
    <3>2. j \in asked'[stream]
      BY <1>6, <3>1 DEF Forwarded
    <3>3. QED
      BY <1>1, <3>1, <3>2, ForwardedKept
  <2>8. ListenInv'
    BY <1>1, <2>4, <2>7 DEF IInv, ListenInv, listenVars
  <2>9. TypeOK'
    BY <1>1, <1>3, <1>6, <2>3 DEF IInv, TypeOK, listenVars
  <2>10. QED
    BY <1>1, <2>5, <2>6, <2>8, <2>9 DEF IInv, ForwarderType
<1>7. CASE LastReader(k) /\ Drop(k)
  <2>1. Cardinality(Holders(k)') = 0 /\ Holders(k)' = {}
    <3>1. refs[k] <= 1
      BY <1>7 DEF LastReader
    <3>2. Cardinality(Holders(k)') = 0
      BY <1>3, <1>4, <3>1
    <3>3. QED
      BY <1>3, <3>2
  <2>2. /\ refs'[k] = None /\ \A j \in Keys \ {k} : refs'[j] = refs[j] /\ subs'[j] = subs[j]
        /\ refs' \in [Keys -> 0..Cardinality(Clients) \cup {None}]
        /\ subs' \in [Keys -> SUBSET Clients]
    BY <1>7, Types DEF Drop
  <2>3. Open' = Open \ {k}
    BY <2>2 DEF Open
  <2>4. \A j \in Keys : KeyInv(j)'
    BY <1>1, <1>3, <1>4, <1>5, <2>1, <2>2, <2>3 DEF IInv, KeyInv
  <2>5. ASSUME NEW d \in Clients
        PROVE  ClientInv(d)'
    <3>1. phase'[d] = "on" => d # c /\ phase[d] = "on"
      BY <1>3
    <3>2. phase'[d] = "on" => client[d] # k
      <4>1. phase'[d] = "on" /\ client'[d] = k => d \in Holders(k)'
        BY DEF Holders
      <4>2. QED
        BY <1>1, <2>1, <4>1
    <3>3. QED
      BY <1>1, <1>2, <1>3, <2>2, <3>1, <3>2 DEF IInv, ClientInv
  <2>6. /\ asked' \in [Streams -> SUBSET Keys]
        /\ stream # None => \A j \in Keys \ {k} : j \in asked[stream] => j \in asked'[stream]
    BY <1>7, Types DEF Drop
  <2>7. ASSUME listener \in {"take", "listen"}, NEW j \in Open'
        PROVE  Forwarded(j)'
    <3>1. Forwarded(j) /\ j \in Keys \ {k} /\ refs'[j] # None /\ stream # None
      BY <1>3, <2>2, <2>3, <2>7 DEF IInv, ListenInv, Open
    <3>2. j \in asked'[stream]
      BY <2>6, <3>1 DEF Forwarded
    <3>3. QED
      BY <1>1, <3>1, <3>2, ForwardedKept
  <2>8. ListenInv'
    BY <1>1, <2>3, <2>7 DEF IInv, ListenInv, listenVars
  <2>9. TypeOK'
    BY <1>1, <1>3, <2>2, <2>6 DEF IInv, TypeOK, listenVars
  <2>10. QED
    BY <1>1, <2>4, <2>5, <2>8, <2>9 DEF IInv, ForwarderType
<1>8. QED
  BY <1>2, <1>3, <1>6, <1>7 DEF Unsubscribe

-----------------------------------------------------------------------------
(* Forwarders.                                                             *)

\* A forwarder that changes only what it has to do.
LEMMA Replaced ==
  ASSUME IInv, NEW f \in forwarders, NEW todo \in SUBSET Clients, NEW g,
         g = [f EXCEPT !.todo = todo], Replace(f, g)
  PROVE  /\ forwarders' \subseteq ForwarderType
         /\ \A e \in forwarders :
              \E h \in forwarders' : h.key = e.key /\ h.on = e.on /\ h.gen = e.gen
         /\ gen' = gen => ForwardersTyped'
<1>1. f \in ForwarderType /\ forwarders \subseteq ForwarderType
  BY DEF IInv
<1>2. /\ g \in ForwarderType /\ g.key = f.key /\ g.gen = f.gen /\ g.on = f.on /\ g.by = f.by
      /\ g.todo = todo
  BY <1>1 DEF ForwarderType
<1>3. forwarders' = (forwarders \ {f}) \cup {g}
  BY DEF Replace
<1>4. ForwardersTyped
  BY DEF IInv, TypeOK, ForwardersTyped
<1>5. \A e \in forwarders :
        \E h \in forwarders' : h.key = e.key /\ h.on = e.on /\ h.gen = e.gen
  BY <1>2, <1>3
<1>6. ASSUME gen' = gen
      PROVE  ForwardersTyped'
  BY <1>2, <1>3, <1>4, <1>6 DEF ForwardersTyped
<1>7. QED
  BY <1>1, <1>2, <1>3, <1>5, <1>6

LEMMA TakeKept ==
  ASSUME IInv, NEW f, Take(f)
  PROVE  IInv'
<1>1. /\ f \in forwarders
      /\ Replace(f, [f EXCEPT !.todo = IF CtxDone(f) THEN {} ELSE subs[f.key]])
      /\ UNCHANGED <<managerVars, subs, clientVars, listenVars, asked, closed, bounds>>
  BY DEF Take
<1>2. (IF CtxDone(f) THEN {} ELSE subs[f.key]) \in SUBSET Clients
  <2>1. f.key \in Keys
    BY <1>1 DEF IInv, ForwarderType
  <2>2. QED
    BY <2>1, Types
<1>3. /\ forwarders' \subseteq ForwarderType
      /\ \A e \in forwarders :
           \E h \in forwarders' : h.key = e.key /\ h.on = e.on /\ h.gen = e.gen
      /\ gen' = gen => ForwardersTyped'
  BY <1>1, <1>2, Replaced
<1>4. \A j \in Keys : KeyInv(j)'
  BY <1>1, KeysKept DEF managerVars, clientVars
<1>5. \A d \in Clients : ClientInv(d)'
  BY <1>1 DEF IInv, ClientInv, clientVars
<1>6. ListenInv'
  BY <1>1, <1>3, ListenKept DEF managerVars, listenVars, IInv, ListenInv
<1>7. TypeOK'
  BY <1>1, <1>3 DEF IInv, TypeOK, ForwardersTyped, managerVars, clientVars, listenVars
<1>8. QED
  BY <1>3, <1>4, <1>5, <1>6, <1>7 DEF IInv, ForwarderType

LEMMA SendKept ==
  ASSUME IInv, NEW f, NEW c, Send(f, c)
  PROVE  IInv'
<1>1. /\ f \in forwarders /\ c \in f.todo
      /\ chan' = IF chan[c] < Buffer THEN [chan EXCEPT ![c] = chan[c] + 1] ELSE chan
      /\ Replace(f, [f EXCEPT !.todo = f.todo \ {c}])
      /\ UNCHANGED <<managerVars, subs, phase, client, listenVars, brokerVars, bounds>>
  BY DEF Send
<1>2. f.todo \ {c} \in SUBSET Clients /\ c \in Clients
  BY <1>1 DEF IInv, ForwarderType
<1>3. chan' \in [Clients -> 0..Buffer]
  <2>1. chan[c] \in 0..Buffer /\ Buffer \in Nat
    BY <1>2, Types, StreamAssumption
  <2>2. chan[c] < Buffer => chan[c] + 1 \in 0..Buffer
    BY <2>1
  <2>3. QED
    BY <1>1, <2>2, Types
<1>4. /\ forwarders' \subseteq ForwarderType
      /\ \A e \in forwarders :
           \E h \in forwarders' : h.key = e.key /\ h.on = e.on /\ h.gen = e.gen
      /\ gen' = gen => ForwardersTyped'
  BY <1>1, <1>2, Replaced
<1>5. \A j \in Keys : KeyInv(j)'
  BY <1>1, KeysKept DEF managerVars
<1>6. \A d \in Clients : ClientInv(d)'
  BY <1>1 DEF IInv, ClientInv
<1>7. ListenInv'
  BY <1>1, <1>4, ListenKept DEF managerVars, listenVars, brokerVars, IInv, ListenInv
<1>8. TypeOK'
  BY <1>1, <1>3, <1>4 DEF IInv, TypeOK, ForwardersTyped, managerVars, listenVars, brokerVars
<1>9. QED
  BY <1>4, <1>5, <1>6, <1>7, <1>8 DEF IInv, ForwarderType

\* A forwarder of the current stream ends only with its subscription: the stream is open.
LEMMA ForwarderEndsKept ==
  ASSUME IInv, NEW f, ForwarderEnds(f)
  PROVE  IInv'
<1>1. /\ f \in forwarders /\ (CtxDone(f) \/ f.on \in closed)
      /\ forwarders' = forwarders \ {f}
      /\ UNCHANGED <<managerVars, subs, clientVars, listenVars, brokerVars, bounds>>
  BY DEF ForwarderEnds
<1>2. listener \in {"take", "listen"} => stream \notin closed
  BY DEF IInv, TypeOK, ListenInv
<1>3. \A e \in forwarders :
        e.on = stream /\ ~CtxDone(e) /\ listener \in {"take", "listen"} => e \in forwarders'
  BY <1>1, <1>2
<1>4. \A j \in Keys : KeyInv(j)'
  BY <1>1, KeysKept DEF managerVars, clientVars
<1>5. \A d \in Clients : ClientInv(d)'
  BY <1>1 DEF IInv, ClientInv, clientVars
<1>6. ListenInv'
  BY <1>1, <1>3, ListenKept DEF managerVars, listenVars, brokerVars, IInv, ListenInv
<1>7. TypeOK'
  BY <1>1 DEF IInv, TypeOK, managerVars, clientVars, listenVars, brokerVars
<1>8. QED
  BY <1>1, <1>4, <1>5, <1>6, <1>7 DEF IInv, ForwarderType

-----------------------------------------------------------------------------
(* Listen and reconnect.                                                   *)

LEMMA ListenTakeKept ==
  ASSUME IInv, ListenTake
  PROVE  IInv'
<1>1. /\ listener = "take" /\ stream # None /\ listener' = "listen" /\ listening' = stream
      /\ UNCHANGED <<managerVars, subs, clientVars, attempt, forwarders, brokerVars, bounds>>
  BY DEF ListenTake
<1>2. \A j \in Keys : KeyInv(j)'
  BY <1>1, KeysKept DEF managerVars, clientVars
<1>3. \A d \in Clients : ClientInv(d)'
  BY <1>1 DEF IInv, ClientInv, clientVars
<1>4. Open' = Open /\ stream \notin closed
  BY <1>1 DEF Open, managerVars, IInv, TypeOK
<1>5. \A j \in Open : Forwarded(j)'
  BY <1>1 DEF Forwarded, CtxDone, IInv, ListenInv, managerVars, brokerVars
<1>6. ListenInv'
  BY <1>1, <1>4, <1>5 DEF IInv, ListenInv, managerVars, brokerVars
<1>7. TypeOK'
  BY <1>1 DEF IInv, TypeOK, managerVars, clientVars, brokerVars
<1>8. QED
  BY <1>1, <1>2, <1>3, <1>6, <1>7 DEF IInv, ForwarderType

LEMMA StopStreamKept ==
  ASSUME IInv, StopStream
  PROVE  IInv'
<1>1. /\ listener' = "retry" /\ listening' = None /\ stream' = None
      /\ asked' = [s \in Streams |-> {}]
      /\ closed' = IF stream = None THEN closed ELSE closed \cup {stream}
      /\ UNCHANGED <<refs, gen, subs, clientVars, attempt, forwarders, src, bounds>>
  BY DEF StopStream
<1>2. \A j \in Keys : KeyInv(j)'
  BY <1>1, KeysKept DEF clientVars
<1>3. \A d \in Clients : ClientInv(d)'
  BY <1>1 DEF IInv, ClientInv, clientVars
<1>4. ListenInv'
  BY <1>1 DEF ListenInv
<1>5. closed' \subseteq Streams /\ None \notin closed'
  <2>1. closed' \subseteq Streams
    BY <1>1, Types
  <2>2. None \notin Streams
    BY StreamAssumption DEF Streams
  <2>3. QED
    BY <2>1, <2>2
<1>6. asked' \in [Streams -> SUBSET Keys]
  BY <1>1
<1>7. TypeOK'
  BY <1>1, <1>5, <1>6 DEF IInv, TypeOK, clientVars
<1>8. QED
  BY <1>1, <1>2, <1>3, <1>4, <1>7 DEF IInv, ForwarderType

\* A stream on which every key of ks is asked for again, and their forwarders.
Again(s, ks) == forwarders \cup {Forwarder(k, gen[k], s, "resubscribe") : k \in ks}

LEMMA AgainTyped ==
  ASSUME IInv, NEW s \in Streams, NEW ks \in SUBSET Open, gen' = gen, forwarders' = Again(s, ks)
  PROVE  /\ forwarders' \subseteq ForwarderType /\ ForwardersTyped'
         /\ \A k \in ks : \E f \in forwarders' : f.key = k /\ f.on = s /\ f.gen = gen[k]
<1>1. ASSUME NEW k \in ks
      PROVE  /\ Forwarder(k, gen[k], s, "resubscribe") \in ForwarderType
             /\ Forwarder(k, gen[k], s, "resubscribe").key = k
             /\ Forwarder(k, gen[k], s, "resubscribe").gen = gen[k]
             /\ Forwarder(k, gen[k], s, "resubscribe").on = s
             /\ Forwarder(k, gen[k], s, "resubscribe").by = "resubscribe"
             /\ Forwarder(k, gen[k], s, "resubscribe").todo = {}
             /\ k \in Keys /\ gen[k] \in 1..gen[k]
  <2>1. k \in Keys /\ gen[k] \in Nat /\ gen[k] >= 1
    BY Types DEF IInv, KeyInv, Open
  <2>2. gen[k] \in 1..gen'[k] /\ gen'[k] \in Nat
    BY <2>1
  <2>3. QED
    BY <2>1, <2>2, NewForwarder
<1>2. forwarders \subseteq ForwarderType /\ ForwardersTyped
  BY DEF IInv, TypeOK, ForwardersTyped
<1>3. ASSUME NEW f \in forwarders'
      PROVE  /\ f \in ForwarderType
             /\ f.key \in Keys /\ f.gen \in 1..gen'[f.key] /\ f.on \in Streams
             /\ f.by \in {"subscribe", "resubscribe"} /\ f.todo \subseteq Clients
  <2>1. CASE f \in forwarders
    BY <1>2, <2>1 DEF ForwardersTyped
  <2>2. CASE \E k \in ks : f = Forwarder(k, gen[k], s, "resubscribe")
    BY <1>1, <2>2
  <2>3. QED
    BY <2>1, <2>2 DEF Again
<1>4. QED
  BY <1>1, <1>3 DEF ForwardersTyped, Again

LEMMA ReconnectKept ==
  ASSUME IInv, Reconnect
  PROVE  IInv'
<1>1. /\ listener = "retry" /\ listener' = "take" /\ attempt' = 0
      /\ UNCHANGED <<refs, gen, subs, clientVars, listening, bounds>>
  BY DEF Reconnect
<1>2. PICK s \in Streams :
        EnsureStream(s) /\ stream' = s /\ Serve(s, Open) /\ forwarders' = Again(s, Open)
  BY DEF Reconnect, Resubscribed, Again
<1>3. /\ asked' \in [Streams -> SUBSET Keys] /\ Open \subseteq asked'[s]
      /\ closed' \subseteq closed /\ s # None /\ s \notin closed'
  BY <1>1, <1>2, Ensured DEF Open
<1>4. /\ forwarders' \subseteq ForwarderType /\ ForwardersTyped'
      /\ \A k \in Open : \E f \in forwarders' : f.key = k /\ f.on = s /\ f.gen = gen[k]
  BY <1>1, <1>2, AgainTyped
<1>5. \A j \in Keys : KeyInv(j)'
  BY <1>1, KeysKept DEF clientVars
<1>6. \A d \in Clients : ClientInv(d)'
  BY <1>1 DEF IInv, ClientInv, clientVars
<1>7. Open' = Open
  BY <1>1 DEF Open
<1>8. ASSUME NEW k \in Open
      PROVE  Forwarded(k)'
  <2>1. k \in asked'[stream'] /\ refs'[k] # None
    BY <1>1, <1>2, <1>3 DEF Open
  <2>2. PICK f \in forwarders' : f.key = k /\ f.on = s /\ f.gen = gen'[k]
    BY <1>1, <1>4
  <2>3. QED
    BY <1>2, <2>1, <2>2 DEF Forwarded, CtxDone
<1>9. ListenInv'
  BY <1>1, <1>2, <1>3, <1>7, <1>8 DEF ListenInv
<1>10. attempt' \in 0..MaxAttempts
  BY <1>1, StreamAssumption
<1>11. TypeOK'
  BY <1>1, <1>2, <1>3, <1>4, <1>10, Types DEF IInv, TypeOK, ForwardersTyped, clientVars
<1>12. QED
  BY <1>1, <1>4, <1>5, <1>6, <1>9, <1>11 DEF IInv

LEMMA ReconnectFailsKept ==
  ASSUME IInv, ReconnectFails
  PROVE  IInv'
<1>1. /\ listener = "retry" /\ attempt < MaxAttempts /\ attempt' = attempt + 1
      /\ UNCHANGED <<refs, gen, subs, clientVars, listener, listening, events>>
  BY DEF ReconnectFails, AttemptsLeft
<1>2. \A j \in Keys : KeyInv(j)'
  BY <1>1, KeysKept DEF clientVars
<1>3. \A d \in Clients : ClientInv(d)'
  BY <1>1 DEF IInv, ClientInv, clientVars
<1>4. ListenInv'
  BY <1>1 DEF ListenInv
<1>5. attempt' \in 0..MaxAttempts
  <2>1. attempt \in 0..MaxAttempts /\ MaxAttempts \in Nat
    BY StreamAssumption DEF IInv, TypeOK
  <2>2. QED
    BY <1>1, <2>1
<1>6. /\ stream' = None \/ UNCHANGED <<stream, closed>>
      /\ asked' \in [Streams -> SUBSET Keys] /\ closed' \subseteq Streams
      /\ forwarders' \subseteq ForwarderType /\ ForwardersTyped'
  <2>1. CASE UNCHANGED <<stream, forwarders, brokerVars>>
    BY <1>1, <2>1, Types DEF IInv, TypeOK, ForwardersTyped, ForwarderType, brokerVars
  <2>2. CASE \E s \in Streams, ks \in SUBSET Open :
               /\ stream' = None /\ closed' = closed \cup {s}
               /\ asked' = [t \in Streams |-> {}] /\ forwarders' = Again(s, ks)
    <3>1. PICK s \in Streams, ks \in SUBSET Open :
            /\ stream' = None /\ closed' = closed \cup {s}
            /\ asked' = [t \in Streams |-> {}] /\ forwarders' = Again(s, ks)
      BY <2>2
    <3>2. forwarders' \subseteq ForwarderType /\ ForwardersTyped'
      BY <1>1, <3>1, AgainTyped
    <3>3. QED
      BY <3>1, <3>2, Types
  <2>3. QED
    BY <2>1, <2>2 DEF ReconnectFails, Again
<1>7. stream' \in Streams \cup {None} /\ stream' \notin closed'
  <2>1. stream \notin closed /\ stream \in Streams \cup {None}
    BY <1>1 DEF IInv, TypeOK
  <2>2. None \notin Streams
    BY StreamAssumption DEF Streams
  <2>3. QED
    BY <1>6, <2>1, <2>2
<1>8. TypeOK'
  BY <1>1, <1>5, <1>6, <1>7 DEF IInv, TypeOK, ForwardersTyped, clientVars
<1>9. QED
  BY <1>2, <1>3, <1>4, <1>6, <1>8 DEF IInv

LEMMA GiveUpKept ==
  ASSUME IInv, GiveUp
  PROVE  IInv'
<1>1. /\ listener' = "ended"
      /\ UNCHANGED <<managerVars, subs, clientVars, listening, attempt, forwarders, brokerVars, bounds>>
  BY DEF GiveUp
<1>2. \A j \in Keys : KeyInv(j)'
  BY <1>1, KeysKept DEF managerVars, clientVars
<1>3. \A d \in Clients : ClientInv(d)'
  BY <1>1 DEF IInv, ClientInv, clientVars
<1>4. ListenInv'
  BY <1>1 DEF ListenInv
<1>5. TypeOK'
  BY <1>1 DEF IInv, TypeOK, managerVars, clientVars, brokerVars
<1>6. QED
  BY <1>1, <1>2, <1>3, <1>4, <1>5 DEF IInv, ForwarderType

LEMMA ReceiveKept ==
  ASSUME IInv, NEW k \in Keys, Receive(k)
  PROVE  IInv'
<1>1. UNCHANGED <<managerVars, subs, clientVars, listenVars, forwarders, asked, closed>>
  BY DEF Receive
<1>2. \A j \in Keys : KeyInv(j)'
  BY <1>1, KeysKept DEF managerVars, clientVars
<1>3. \A d \in Clients : ClientInv(d)'
  BY <1>1 DEF IInv, ClientInv, clientVars
<1>4. ListenInv'
  BY <1>1, ListenKept DEF managerVars, listenVars, IInv, ListenInv
<1>5. TypeOK'
  BY <1>1 DEF IInv, TypeOK, managerVars, clientVars, listenVars
<1>6. QED
  BY <1>1, <1>2, <1>3, <1>4, <1>5 DEF IInv, ForwarderType

LEMMA DisconnectKept ==
  ASSUME IInv, Disconnect
  PROVE  IInv'
<1>1. /\ listener = "listen" /\ listener' = "lost" /\ closed' = closed \cup {listening}
      /\ UNCHANGED <<managerVars, subs, clientVars, listening, attempt, forwarders, asked, src, events>>
  BY DEF Disconnect
<1>2. \A j \in Keys : KeyInv(j)'
  BY <1>1, KeysKept DEF managerVars, clientVars
<1>3. \A d \in Clients : ClientInv(d)'
  BY <1>1 DEF IInv, ClientInv, clientVars
<1>4. listening = stream /\ stream # None /\ listening \in Streams
  BY <1>1 DEF IInv, ListenInv, TypeOK
<1>5. ListenInv'
  BY <1>1, <1>4 DEF ListenInv, managerVars
<1>6. TypeOK'
  BY <1>1, <1>4 DEF IInv, TypeOK, managerVars, clientVars
<1>7. QED
  BY <1>1, <1>2, <1>3, <1>5, <1>6 DEF IInv, ForwarderType

-----------------------------------------------------------------------------
(* The theorems.                                                           *)

LEMMA InitIInv == Init => IInv
<1> SUFFICES ASSUME Init
             PROVE  IInv
  OBVIOUS
<1>1. Cardinality(Clients) \in Nat
  BY Counts
<1>2. \A c \in Clients : ClientInv(c)
  BY DEF Init, ClientInv
<1>3. Open = {}
  BY DEF Init, Open
<1>4. ASSUME NEW k \in Keys
      PROVE  KeyInv(k)
  <2>1. Holders(k) = {} /\ gen[k] = 0 /\ Cardinality(Subscribed(k)) \in Nat
    BY Counts DEF Init, Holders
  <2>2. QED
    BY <1>3, <2>1 DEF KeyInv
<1>5. ListenInv
  BY <1>3 DEF Init, ListenInv
<1>6. TypeOK
  BY <1>1, StreamAssumption DEF Init, TypeOK
<1>7. QED
  BY <1>2, <1>4, <1>5, <1>6 DEF Init, IInv

LEMMA StutterKept == IInv /\ UNCHANGED vars => IInv'
<1> SUFFICES ASSUME IInv, UNCHANGED vars
             PROVE  IInv'
  OBVIOUS
<1>1. UNCHANGED <<managerVars, subs, clientVars, listenVars, forwarders, brokerVars, bounds>>
  BY DEF vars
<1>2. \A j \in Keys : KeyInv(j)'
  BY <1>1, KeysKept DEF managerVars, clientVars
<1>3. \A d \in Clients : ClientInv(d)'
  BY <1>1 DEF IInv, ClientInv, clientVars
<1>4. ListenInv'
  BY <1>1, ListenKept DEF managerVars, listenVars, brokerVars, IInv, ListenInv
<1>5. TypeOK'
  BY <1>1 DEF IInv, TypeOK, managerVars, clientVars, listenVars, brokerVars
<1>6. QED
  BY <1>1, <1>2, <1>3, <1>4, <1>5 DEF IInv, ForwarderType

LEMMA NextIInv == IInv /\ [Next]_vars => IInv'
<1> SUFFICES ASSUME IInv, [Next]_vars
             PROVE  IInv'
  OBVIOUS
<1>1. ASSUME NEW c \in Clients, Subscribe(c) \/ Leave(c) \/ RemoveDone(c) \/ Read(c) \/ Unsubscribe(c)
      PROVE  IInv'
  <2>1. CASE Subscribe(c)
    BY <2>1, SubscribeSharedKept, SubscribeNewKept, SubscribeRefusedKept DEF Subscribe
  <2>2. QED
    BY <1>1, <2>1, LeaveKept, RemoveDoneKept, ReadKept, UnsubscribeKept
<1>2. CASE ForwarderStep
  BY <1>2, TakeKept, SendKept, ForwarderEndsKept DEF ForwarderStep
<1>3. CASE Listen
  BY <1>3, ListenTakeKept, StopStreamKept, ReconnectKept, GiveUpKept DEF Listen
<1>4. ASSUME NEW k \in Keys, Receive(k)
      PROVE  IInv'
  BY <1>4, ReceiveKept
<1>5. CASE Disconnect
  BY <1>5, DisconnectKept
<1>6. CASE ReconnectFails
  BY <1>6, ReconnectFailsKept
<1>7. CASE UNCHANGED vars
  BY <1>7, StutterKept
<1>8. QED
  BY <1>1, <1>2, <1>3, <1>4, <1>5, <1>6, <1>7 DEF Next

\* The manager's table, its fan-outs, the listener and the forwarders agree in every
\* state, for any keys and any finite number of readers (StreamManager, reconnect,
\* resubscribeAll, the forward* goroutines).
THEOREM Invariant == Spec => []IInv
BY InitIInv, NextIInv, PTL DEF Spec

\* The table, the fan-outs, the channels and the forwarders keep their types, and the
\* stream that Subscribe and reconnect use is never one that reconnect has stopped.
THEOREM TypeCorrect == Spec => []TypeOK
<1>1. IInv => TypeOK
  BY DEF IInv
<1>2. QED
  BY <1>1, Invariant, PTL

\* A reader that has not left is in the fan-out of a live subscription of its key: no
\* other reader's Unsubscribe, and no reconnect, ends it.
THEOREM ReaderKeepsIt == Spec => []ReaderKeepsSubscription
<1>1. IInv => ReaderKeepsSubscription
  <2> SUFFICES ASSUME IInv, NEW c \in Clients, phase[c] = "on"
               PROVE  client[c] \in Open /\ c \in subs[client[c]]
    BY DEF ReaderKeepsSubscription
  <2>1. client[c] \in Keys /\ c \in subs[client[c]] /\ c \in Holders(client[c])
    BY DEF IInv, ClientInv, Holders
  <2>2. QED
    BY <2>1 DEF IInv, KeyInv
<1>2. QED
  BY <1>1, Invariant, PTL

\* The reference count of a subscription is the number of readers that have not given it
\* back, through unsubscribes that the broker refuses as well.
THEOREM CountsReaders == Spec => []RefsCountHolders
<1>1. IInv => RefsCountHolders
  BY DEF IInv, KeyInv, RefsCountHolders, Open
<1>2. QED
  BY <1>1, Invariant, PTL

\* While the listener is in the current stream, the broker was asked for every key of the
\* table on it and a forwarder reads it, after any sequence of lost connections, failed
\* attempts and subscriptions made in between.
THEOREM AllServed == Spec => []SubscriptionServed
<1>1. IInv => SubscriptionServed
  BY DEF IInv, ListenInv, Forwarded, SubscriptionServed, Served
<1>2. QED
  BY <1>1, Invariant, PTL
=============================================================================
