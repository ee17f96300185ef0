---------------------------- MODULE MarketStream ----------------------------
(***************************************************************************)
(* marketdata.StreamManager: the subscriptions of one process over one     *)
(* broker stream, the listener that reconnects it, and the forwarders that *)
(* copy its events to the fan-out of a subscription.                       *)
(*                                                                         *)
(* The SDK (external) gives a stream one channel per kind of event: every  *)
(* subscription of that kind reads the same channel.                       *)
(*                                                                         *)
(* Abstracted: what an event says, and with it the price cache; left out   *)
(* is StreamManager.Stop, which only the shutdown of the stand-alone       *)
(* market-data server calls.                                               *)
(***************************************************************************)
EXTENDS Integers, Sequences, FiniteSets

CONSTANTS
  CandleKeys,        \* subscription keys of candles: publish blocks
  TickKeys,          \* keys of books, trades and prices: publish drops
  Clients,           \* calls of Subscribe, one per reader
  Leaky,             \* clients that never unsubscribe: the candle hub, and
                     \* the AI trader's book, which calls the wrong function
  MaxSubscriptions,  \* streamCfg.MaxSubscriptions (300)
  MaxAttempts,       \* streamCfg.MaxReconnectAttempts (10)
  Buffer,            \* capacity of a subscriber's channel (256, 64)
  MaxStreams,        \* streams are numbered up to it, reused when forgotten
  MaxEvents,         \* bound: events the broker sends
  MaxFaults,         \* bound: lost connections and failed calls
  None

Keys == CandleKeys \cup TickKeys
Streams == 1 .. MaxStreams

ASSUME StreamAssumption ==
  /\ CandleKeys \cap TickKeys = {} /\ None \notin Keys \cup Nat
  /\ Leaky \subseteq Clients /\ IsFiniteSet(Clients)
  /\ {MaxSubscriptions, MaxAttempts, Buffer, MaxStreams} \subseteq Nat \ {0}
  /\ {MaxEvents, MaxFaults} \subseteq Nat

VARIABLES
  stream,      \* StreamManager.stream
  refs,        \* StreamManager.subscriptions: refs of a key, None if absent
  gen,         \* which subscription of the key this is: its context
  subs,        \* streamFanout.subs of the key's current fan-out
  phase,       \* where each client is: "new", "on", "left", "gone", "refused"
  client,      \* the key a client subscribed to
  chan,        \* events in a client's channel
  listener,    \* Listen: "take", "listen", "lost", "retry" or "ended"
  listening,   \* the stream Listen is in
  attempt,     \* failed attempts of this reconnect
  forwarders,  \* the running forward* goroutines
  asked,       \* keys the broker serves on a stream
  src,         \* an event waits in a stream's channel of the kind
  closed,      \* streams whose channels are closed
  events,      \* events sent so far
  faults       \* faults so far

managerVars == <<stream, refs, gen>>
clientVars == <<phase, client, chan>>
listenVars == <<listener, listening, attempt>>
brokerVars == <<asked, src, closed>>
bounds == <<events, faults>>
vars == <<managerVars, subs, clientVars, listenVars, forwarders, brokerVars, bounds>>

Kinds == {"candle", "tick"}
Kind(k) == IF k \in CandleKeys THEN "candle" ELSE "tick"
Silent == [kind \in Kinds |-> FALSE]
Open == {k \in Keys : refs[k] # None}
Full == Cardinality(Open) >= MaxSubscriptions

\* A client holds a key from Subscribe until its Unsubscribe; a leaky one
\* never gives it back.
Holders(k) == {c \in Clients : client[c] = k /\ phase[c] \in {"on", "left"}}

Fault == /\ faults < MaxFaults
         /\ faults' = faults + 1

-----------------------------------------------------------------------------
(* The broker's streams.                                                   *)

\* A stream nobody refers to any more: its name stands for a new one.
Known == {stream, listening} \cup {f.on : f \in forwarders}
Fresh(s) == /\ s \notin Known
            /\ 1 .. s - 1 \subseteq Known

\* ensureStream, under the manager's mutex, when it does not fail.
EnsureStream(s) == IF stream = None THEN Fresh(s) ELSE s = stream

\* The streams with s, if it is new, opened with the keys ks.
Serve(s, ks) ==
  LET new == stream = None IN
    /\ asked' = [asked EXCEPT ![s] = IF new THEN ks ELSE @ \cup ks]
    /\ closed' = IF new THEN closed \ {s} ELSE closed
    /\ src' = IF new THEN [src EXCEPT ![s] = Silent] ELSE src

Forwarder(k, g, s, by) ==
  [key |-> k, gen |-> g, on |-> s, by |-> by, todo |-> {}]

-----------------------------------------------------------------------------
(* Clients.                                                                *)

\* Mutant: a shared subscription is not counted.
MutantCounted(k) == refs
Counted(k) == [refs EXCEPT ![k] = @ + 1]

\* A subscription that exists: one more reader of its fan-out.
SubscribeShared(c, k) ==
  /\ phase[c] = "new"
  /\ k \in Open
  /\ \E s \in Streams : /\ EnsureStream(s)
                        /\ stream' = s
                        /\ Serve(s, {})
  /\ refs' = Counted(k)
  /\ subs' = [subs EXCEPT ![k] = @ \cup {c}]
  /\ phase' = [phase EXCEPT ![c] = "on"]
  /\ client' = [client EXCEPT ![c] = k]
  /\ UNCHANGED <<gen, chan, listenVars, forwarders, bounds>>

\* The first subscription of a key: ask the broker, make the fan-out and its
\* forwarder.
SubscribeNew(c, k) ==
  /\ phase[c] = "new"
  /\ k \notin Open
  /\ ~Full
  /\ \E s \in Streams :
       /\ EnsureStream(s)
       /\ stream' = s
       /\ Serve(s, {k})
       /\ forwarders' = forwarders \cup {Forwarder(k, gen[k] + 1, s, "subscribe")}
  /\ refs' = [refs EXCEPT ![k] = 1]
  /\ gen' = [gen EXCEPT ![k] = @ + 1]
  /\ subs' = [subs EXCEPT ![k] = {c}]
  /\ phase' = [phase EXCEPT ![c] = "on"]
  /\ client' = [client EXCEPT ![c] = k]
  /\ UNCHANGED <<chan, listenVars, bounds>>

\* The stream cannot be made, the table is full, or the broker refuses; a
\* stream that was made stays.
SubscribeRefused(c, k) ==
  /\ phase[c] = "new"
  /\ \/ /\ stream = None
        /\ Fault
        /\ UNCHANGED <<stream, brokerVars>>
     \/ /\ k \notin Open
        /\ \/ Full /\ UNCHANGED faults
           \/ ~Full /\ Fault
        /\ \E s \in Streams : /\ EnsureStream(s)
                              /\ stream' = s
                              /\ Serve(s, {})
  /\ phase' = [phase EXCEPT ![c] = "refused"]
  /\ UNCHANGED <<refs, gen, subs, client, chan, listenVars, forwarders, events>>

\* The context of a client ends: the session closes, the instance stops.
Leave(c) ==
  /\ phase[c] = "on"
  /\ phase' = [phase EXCEPT ![c] = "left"]
  /\ UNCHANGED <<managerVars, subs, client, chan, listenVars, forwarders, brokerVars, bounds>>

\* streamFanout.subscribe: a goroutine waits for that and removes the channel.
RemoveDone(c) ==
  /\ phase[c] \in {"left", "gone"}
  /\ client[c] # None
  /\ c \in subs[client[c]]
  /\ subs' = [subs EXCEPT ![client[c]] = @ \ {c}]
  /\ UNCHANGED <<managerVars, clientVars, listenVars, forwarders, brokerVars, bounds>>

\* A reader whose context has ended may still win one more select.
Read(c) ==
  /\ phase[c] \in {"on", "left"}
  /\ chan[c] > 0
  /\ chan' = [chan EXCEPT ![c] = @ - 1]
  /\ UNCHANGED <<managerVars, subs, phase, client, listenVars, forwarders, brokerVars, bounds>>

\* UnsubscribeCandles, UnsubscribeOrderbook, Unsubscribe: count down; the last
\* reader cancels the subscription, closes its fan-out and deletes the entry.
\* Mutant: the count is not looked at.
MutantLastReader(k) == refs[k] >= 1
LastReader(k) == refs[k] <= 1

\* The subscription is gone: the forwarders' context is cancelled.
Drop(k) ==
  /\ refs' = [refs EXCEPT ![k] = None]
  /\ subs' = [subs EXCEPT ![k] = {}]
  /\ asked' = IF stream = None THEN asked ELSE [asked EXCEPT ![stream] = @ \ {k}]

Unsubscribe(c) ==
  /\ phase[c] = "left"
  /\ c \notin Leaky
  /\ phase' = [phase EXCEPT ![c] = "gone"]
  /\ LET k == client[c] IN
       IF k \notin Open THEN UNCHANGED <<refs, subs, asked, faults>>
       ELSE \/ /\ ~LastReader(k)
               /\ refs' = [refs EXCEPT ![k] = @ - 1]
               /\ UNCHANGED <<subs, asked, faults>>
            \/ /\ LastReader(k)
               /\ Drop(k)
               /\ UNCHANGED faults
            \/ \* the broker refuses: the entry stays with no reader
               /\ LastReader(k)
               /\ stream # None
               /\ Fault
               /\ refs' = [refs EXCEPT ![k] = @ - 1]
               /\ UNCHANGED <<subs, asked>>
  /\ UNCHANGED <<stream, gen, client, chan, listenVars, forwarders, src, closed, events>>

-----------------------------------------------------------------------------
(* Forwarders: forwardCandles, forwardOrderbooks, forwardTrades,           *)
(* forwardLastPrices.                                                      *)

Replace(f, g) == forwarders' = (forwarders \ {f}) \cup {g}

\* The context of the forwarder's subscription.
CtxDone(f) == refs[f.key] = None \/ f.gen # gen[f.key]

\* Take an event of the shared channel; publish copies the readers.
Take(f) ==
  /\ f \in forwarders
  /\ f.todo = {}
  /\ src[f.on][Kind(f.key)]
  /\ src' = [src EXCEPT ![f.on][Kind(f.key)] = FALSE]
  /\ Replace(f, [f EXCEPT !.todo = IF CtxDone(f) THEN {} ELSE subs[f.key]])
  /\ UNCHANGED <<managerVars, subs, clientVars, listenVars, asked, closed, bounds>>

\* publish, one reader: a candle waits for room, anything else is dropped.
\* Mutant: a tick waits like a candle.
MutantMustWait(f, c) == chan[c] >= Buffer
MustWait(f, c) == chan[c] >= Buffer /\ f.key \in CandleKeys

Send(f, c) ==
  /\ f \in forwarders
  /\ c \in f.todo
  /\ ~MustWait(f, c)
  /\ chan' = IF chan[c] < Buffer THEN [chan EXCEPT ![c] = @ + 1] ELSE chan
  /\ Replace(f, [f EXCEPT !.todo = @ \ {c}])
  /\ UNCHANGED <<managerVars, subs, phase, client, listenVars, brokerVars, bounds>>

\* The goroutine returns: its context has ended, or the channel is closed.
ForwarderEnds(f) ==
  /\ f \in forwarders
  /\ \/ CtxDone(f)
     \/ /\ f.todo = {}
        /\ f.on \in closed
        /\ ~src[f.on][Kind(f.key)]
  /\ forwarders' = forwarders \ {f}
  /\ UNCHANGED <<managerVars, subs, clientVars, listenVars, brokerVars, bounds>>

ForwarderStep ==
  \E f \in forwarders : \/ Take(f)
                        \/ \E c \in f.todo : Send(f, c)
                        \/ ForwarderEnds(f)

-----------------------------------------------------------------------------
(* Listen and reconnect.                                                   *)

\* The listener polls until some subscriber has made the stream.
ListenTake ==
  /\ listener = "take"
  /\ stream # None
  /\ listener' = "listen"
  /\ listening' = stream
  /\ UNCHANGED <<managerVars, subs, clientVars, attempt, forwarders, brokerVars, bounds>>

\* An event of a key the broker serves arrives.
Receive(k) ==
  /\ listener = "listen"
  /\ events < MaxEvents
  /\ k \in asked[listening]
  /\ ~src[listening][Kind(k)]
  /\ src' = [src EXCEPT ![listening][Kind(k)] = TRUE]
  /\ events' = events + 1
  /\ UNCHANGED <<managerVars, subs, clientVars, listenVars, forwarders, asked, closed, faults>>

\* The SDK's Listen returns and closes its channels.
Disconnect ==
  /\ listener = "listen"
  /\ Fault
  /\ listener' = "lost"
  /\ closed' = closed \cup {listening}
  /\ UNCHANGED <<managerVars, subs, clientVars, listening, attempt, forwarders, asked, src, events>>

\* Mutant: the dead stream stays, and the next attempt takes it for a new one.
MutantStopStream ==
  /\ listener = "lost"
  /\ listener' = "retry"
  /\ listening' = None
  /\ UNCHANGED <<managerVars, subs, clientVars, attempt, forwarders, brokerVars, bounds>>

\* reconnect: stop the stream under the mutex and start to wait.
StopStream ==
  /\ listener = "lost"
  /\ listener' = "retry"
  /\ listening' = None
  /\ stream' = None
  /\ asked' = [s \in Streams |-> {}]
  /\ closed' = IF stream = None THEN closed ELSE closed \cup {stream}
  /\ UNCHANGED <<refs, gen, subs, clientVars, attempt, forwarders, src, bounds>>

\* resubscribeAll: ask for every key again.
\* Mutant: only for the keys with more than one reader.
MutantResubscribed == {k \in Open : refs[k] > 1}
Resubscribed == Open

\* for attempt := 1; attempt <= maxAttempts; with no attempt counted yet.
AttemptsLeft == attempt < MaxAttempts

\* After the delay, under the mutex: a stream, which a subscriber may have
\* made meanwhile, and every subscription again on it.
Reconnect ==
  /\ listener = "retry"
  /\ AttemptsLeft
  /\ \E s \in Streams :
       /\ EnsureStream(s)
       /\ stream' = s
       /\ Serve(s, Resubscribed)
       /\ forwarders' = forwarders \cup {Forwarder(k, gen[k], s, "resubscribe") : k \in Resubscribed}
  /\ listener' = "take"
  /\ attempt' = 0
  /\ UNCHANGED <<refs, gen, subs, clientVars, listening, bounds>>

\* An attempt that fails: no stream, or a subscription is refused after some
\* others, whose forwarders run on the stream that is now stopped.
ReconnectFails ==
  /\ listener = "retry"
  /\ AttemptsLeft
  /\ Fault
  /\ attempt' = attempt + 1
  /\ \/ /\ stream = None
        /\ UNCHANGED <<stream, forwarders, brokerVars>>
     \/ \E s \in Streams, ks \in SUBSET Open :
          /\ ks # Open
          /\ EnsureStream(s)
          /\ stream' = None
          /\ closed' = closed \cup {s}
          /\ asked' = [t \in Streams |-> {}]
          /\ src' = IF stream = None
                      THEN [src EXCEPT ![s] = Silent]
                      ELSE src
          /\ forwarders' = forwarders \cup {Forwarder(k, gen[k], s, "resubscribe") : k \in ks}
  /\ UNCHANGED <<refs, gen, subs, clientVars, listener, listening, events>>

\* The last attempt failed: Listen returns, its caller only logs that.
GiveUp ==
  /\ listener = "retry"
  /\ ~AttemptsLeft
  /\ listener' = "ended"
  /\ UNCHANGED <<managerVars, subs, clientVars, listening, attempt, forwarders, brokerVars, bounds>>

-----------------------------------------------------------------------------
Init ==
  /\ stream = None
  /\ refs = [k \in Keys |-> None]
  /\ gen = [k \in Keys |-> 0]
  /\ subs = [k \in Keys |-> {}]
  /\ phase = [c \in Clients |-> "new"]
  /\ client = [c \in Clients |-> None]
  /\ chan = [c \in Clients |-> 0]
  /\ listener = "take"
  /\ listening = None
  /\ attempt = 0
  /\ forwarders = {}
  /\ asked = [s \in Streams |-> {}]
  /\ src = [s \in Streams |-> Silent]
  /\ closed = {}
  /\ events = 0
  /\ faults = 0

Subscribe(c) ==
  \E k \in Keys : SubscribeShared(c, k) \/ SubscribeNew(c, k) \/ SubscribeRefused(c, k)

Listen == \/ ListenTake
          \/ StopStream
          \/ Reconnect
          \/ GiveUp

Next ==
  \/ \E c \in Clients : Subscribe(c) \/ Leave(c) \/ RemoveDone(c) \/ Read(c) \/ Unsubscribe(c)
  \/ ForwarderStep
  \/ Listen
  \/ \E k \in Keys : Receive(k)
  \/ Disconnect
  \/ ReconnectFails

\* Goroutines run: forwarders, readers that have not left, the clean-up of a
\* reader that has, and the listener.  Nobody has to subscribe or leave, and
\* the broker owes neither an event nor a working call.
Fairness ==
  /\ WF_vars(ForwarderStep)
  /\ WF_vars(Listen)
  /\ \A c \in Clients : /\ WF_vars(phase[c] = "on" /\ Read(c))
                        /\ WF_vars(RemoveDone(c))
                        /\ WF_vars(Unsubscribe(c))

Spec == Init /\ [][Next]_vars /\ Fairness

-----------------------------------------------------------------------------
(* Properties.                                                             *)

\* Types, and the current stream is not one that reconnect has stopped.
TypeOK ==
  /\ stream \in Streams \cup {None}
  /\ refs \in [Keys -> 0 .. Cardinality(Clients) \cup {None}]
  /\ gen \in [Keys -> 0 .. Cardinality(Clients)]
  /\ subs \in [Keys -> SUBSET Clients]
  /\ phase \in [Clients -> {"new", "on", "left", "gone", "refused"}]
  /\ client \in [Clients -> Keys \cup {None}]
  /\ chan \in [Clients -> 0 .. Buffer]
  /\ listener \in {"take", "listen", "lost", "retry", "ended"}
  /\ listening \in Streams \cup {None}
  /\ attempt \in 0 .. MaxAttempts
  /\ \A f \in forwarders : /\ f.key \in Keys /\ f.gen \in 1 .. gen[f.key]
                           /\ f.on \in Streams /\ f.by \in {"subscribe", "resubscribe"}
                           /\ f.todo \subseteq Clients
  /\ asked \in [Streams -> SUBSET Keys]
  /\ closed \subseteq Streams
  /\ listener \in {"take", "retry"} => stream \notin closed

\* A reader that has not left is in the fan-out of a live subscription of its
\* key, whoever else came, went or failed to unsubscribe (the reference count
\* and the entries of StreamManager.subscriptions).
ReaderKeepsSubscription ==
  \A c \in Clients : phase[c] = "on" => /\ client[c] \in Open
                                        /\ c \in subs[client[c]]

\* The broker was asked for k on the listened stream, and a forwarder of the
\* subscription's current context reads it.
Served(k) == /\ listener = "listen"
             /\ k \in asked[listening]
             /\ \E f \in forwarders : f.key = k /\ f.on = listening /\ ~CtxDone(f)

\* While the listener is in the current stream every subscription is served,
\* across reconnects and the subscriptions made meanwhile (resubscribeAll).
SubscriptionServed ==
  (listener = "listen" /\ listening = stream) => \A k \in Open : Served(k)

\* The count covers the readers that have not unsubscribed, so that no early
\* Unsubscribe ends the subscription, and misses none: only a reader that
\* gives nothing back keeps it open.
RefsCountHolders ==
  \A k \in Open : refs[k] = Cardinality(Holders(k))

\* A candle waits for room in the channel of a reader that has left.
HeldUp(f) == /\ f.key \in CandleKeys
             /\ \E c \in f.todo : chan[c] >= Buffer /\ phase[c] # "on"

\* streamFanout.publish ends, however slow a reader is: ticks never wait, a
\* candle waits only for readers that read, or for good for one that has left.
PublishEnds == <>[](\A f \in forwarders : f.todo # {} => HeldUp(f))

\* After the last lost connection every subscription is served again, unless
\* reconnect has used up its attempts and Listen has returned.
ServedInTheEnd == <>[](listener = "ended" \/ \A k \in Open : Served(k))

=============================================================================
