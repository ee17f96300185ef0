----------------------------- MODULE CandleHub -----------------------------
(***************************************************************************)
(* strategy.CandleHub for one (instrument, interval): the strategy         *)
(* instances of the runner share one market-data subscription through a    *)
(* group, whose goroutine copies every candle to each subscriber.          *)
(*                                                                         *)
(* A group is named after the subscriber that made it, because its context *)
(* derives from that subscriber's: Runner.startInstance passes the context *)
(* of the instance.  A restarted instance is another subscriber.           *)
(*                                                                         *)
(* Abstracted: a candle is its number in the stream, or Foreign for one of *)
(* another instrument, which the shared SDK stream also carries.           *)
(***************************************************************************)
EXTENDS Integers, Sequences, SequencesExt

CONSTANTS
  Subscribers,  \* calls of Subscribe, one per instance start
  ChanSize,     \* capacity of a subscriber's channel (512 in code)
  SrcSize,      \* capacity of the market-data channel (256 in code)
  MaxCandles,   \* bound: candles the exchange closes
  Nil           \* no group

ASSUME HubAssumption ==
  /\ ChanSize \in Nat \ {0} /\ SrcSize \in Nat \ {0} /\ MaxCandles \in Nat
  /\ Nil \notin Subscribers

VARIABLES
  sub,        \* where each subscriber's goroutine is
  joined,     \* the group it subscribed to
  chan,       \* its candle channel
  got,        \* history: the last candle it read, 0 before
  current,    \* CandleHub.groups[key]
  subs,       \* candleGroup.subs
  cancelled,  \* candleGroup.cancel was called
  at,         \* where each group's goroutine is
  todo,       \* the copy of subs it still has to serve
  candle,     \* the candle it serves
  src,        \* its market-data channel
  outs,       \* streamFanout.subs: groups whose channel the fan-out serves
  queue,      \* publish's copy of outs, those still to be served
  item,       \* the candle publish sends
  closed      \* candles of the instrument the exchange has closed

subVars == <<sub, joined>>
groupVars == <<current, subs, cancelled>>
runVars == <<at, todo, candle>>
feedVars == <<outs, queue, item, closed>>
vars == <<subVars, chan, got, groupVars, runVars, src, feedVars>>

Foreign == 0

Running == {"select", "send", "exit"}

\* The group's context: its own cancel, or the end of its maker's context.
InstanceDone(s) == sub[s] \notin {"new", "on"}
CtxDone(g) == cancelled[g] \/ InstanceDone(g)

-----------------------------------------------------------------------------
(* Subscribers.                                                            *)

\* Subscribe, under the hub's mutex: join the group of the map or make one.
Subscribe(s) ==
  /\ sub[s] = "new"
  /\ LET g == IF current = Nil THEN s ELSE current IN
       /\ current' = g
       /\ subs' = [subs EXCEPT ![g] = Append(@, s)]
       /\ joined' = [joined EXCEPT ![s] = g]
       /\ at' = IF current = Nil THEN [at EXCEPT ![g] = "select"] ELSE at
       /\ outs' = IF current = Nil THEN outs \cup {g} ELSE outs
  /\ sub' = [sub EXCEPT ![s] = "on"]
  /\ UNCHANGED <<chan, got, cancelled, todo, candle, src, queue, item, closed>>

\* A new group needs a market-data subscription, which may be refused.
SubscribeFails(s) ==
  /\ sub[s] = "new"
  /\ current = Nil
  /\ sub' = [sub EXCEPT ![s] = "gone"]
  /\ UNCHANGED <<joined, chan, got, groupVars, runVars, src, feedVars>>

ReadCandle(s) ==
  /\ sub[s] \in {"on", "off"}
  /\ chan[s] # <<>>
  /\ got' = [got EXCEPT ![s] = Head(chan[s])]
  /\ chan' = [chan EXCEPT ![s] = Tail(@)]
  /\ UNCHANGED <<subVars, groupVars, runVars, src, feedVars>>

\* StopInstance cancels the instance's context.
StopInstance(s) ==
  /\ sub[s] = "on"
  /\ sub' = [sub EXCEPT ![s] = "off"]
  /\ UNCHANGED <<joined, chan, got, groupVars, runVars, src, feedVars>>

\* cleanup, first half, under the group's mutex ...
\* Mutant: tested before the removal, with one subscriber left.
MutantLastOfTwo(rest) == Len(rest) <= 1
WasLast(rest) == rest = <<>>

Leave(s) ==
  /\ sub[s] = "off"
  /\ LET g == joined[s]
         rest == RemoveFirst(subs[g], s)
     IN  /\ sub' = [sub EXCEPT ![s] = IF WasLast(rest) THEN "last" ELSE "gone"]
         /\ subs' = [subs EXCEPT ![g] = rest]
  /\ UNCHANGED <<joined, chan, got, current, cancelled, runVars, src, feedVars>>

\* ... and the cancellation after it, outside the mutex.
\* Mutant: the last subscriber also takes the group out of the map.
MutantCancelDeletes(s) ==
  /\ sub[s] = "last"
  /\ sub' = [sub EXCEPT ![s] = "gone"]
  /\ cancelled' = [cancelled EXCEPT ![joined[s]] = TRUE]
  /\ current' = Nil
  /\ UNCHANGED <<joined, chan, got, subs, runVars, src, feedVars>>

CancelGroup(s) ==
  /\ sub[s] = "last"
  /\ sub' = [sub EXCEPT ![s] = "gone"]
  /\ cancelled' = [cancelled EXCEPT ![joined[s]] = TRUE]
  /\ UNCHANGED <<joined, chan, got, current, subs, runVars, src, feedVars>>

-----------------------------------------------------------------------------
(* The market-data stream and the group's goroutine.                       *)

\* streamFanout.publish copies its set of channels ...
PublishCandle ==
  /\ queue = {}
  /\ \E c \in {Foreign, closed + 1} :
       /\ closed' = IF c = Foreign THEN closed ELSE c
       /\ item' = IF outs = {} THEN Foreign ELSE c
  /\ closed' <= MaxCandles
  /\ queue' = outs
  /\ UNCHANGED <<subVars, chan, got, groupVars, runVars, src, outs>>

\* ... and sends to each in turn, waiting for room.
\* Mutant: it does not wait.
MutantFeedsFull(g) ==
  /\ g \in queue
  /\ src' = [src EXCEPT ![g] = Append(@, item)]
  /\ queue' = queue \ {g}
  /\ item' = IF queue = {g} THEN Foreign ELSE item
  /\ UNCHANGED <<subVars, chan, got, groupVars, runVars, outs, closed>>

Feed(g) ==
  /\ g \in queue
  /\ Len(src[g]) < SrcSize
  /\ src' = [src EXCEPT ![g] = Append(@, item)]
  /\ queue' = queue \ {g}
  /\ item' = IF queue = {g} THEN Foreign ELSE item
  /\ UNCHANGED <<subVars, chan, got, groupVars, runVars, outs, closed>>

\* The fan-out's own goroutine drops a channel some time after its context ended.
Detach(g) ==
  /\ g \in outs
  /\ CtxDone(g)
  /\ outs' = outs \ {g}
  /\ UNCHANGED <<subVars, chan, got, groupVars, runVars, src, queue, item, closed>>

\* Mutants of the filter and of the copy of subs.
MutantNoFilter(g, c) == subs[g]
MutantNewestOnly(g, c) ==
  IF c = Foreign \/ subs[g] = <<>> THEN <<>> ELSE <<subs[g][Len(subs[g])]>>
Recipients(g, c) == IF c = Foreign THEN <<>> ELSE subs[g]

TakeCandle(g) ==
  /\ at[g] = "select"
  /\ src[g] # <<>>
  /\ LET c == Head(src[g]) IN
       /\ candle' = [candle EXCEPT ![g] = IF Recipients(g, c) = <<>> THEN Foreign ELSE c]
       /\ todo' = [todo EXCEPT ![g] = Recipients(g, c)]
       /\ at' = [at EXCEPT ![g] = IF Recipients(g, c) = <<>> THEN "select" ELSE "send"]
  /\ src' = [src EXCEPT ![g] = Tail(@)]
  /\ UNCHANGED <<subVars, chan, got, groupVars, feedVars>>

\* A send waits for room in the subscriber's channel, or for the context.
\* Mutant: a full channel is passed over.
MutantSkipsFull(g) ==
  /\ at[g] = "send"
  /\ LET s == Head(todo[g]) IN
       chan' = IF Len(chan[s]) < ChanSize
               THEN [chan EXCEPT ![s] = Append(@, candle[g])] ELSE chan
  /\ todo' = [todo EXCEPT ![g] = Tail(@)]
  /\ at' = [at EXCEPT ![g] = IF Tail(todo[g]) = <<>> THEN "select" ELSE "send"]
  /\ candle' = [candle EXCEPT ![g] = IF Tail(todo[g]) = <<>> THEN Foreign ELSE @]
  /\ UNCHANGED <<subVars, got, groupVars, src, feedVars>>

\* Mutant: the same subscriber is served again.
MutantKeepsHead(g) ==
  /\ at[g] = "send"
  /\ LET s == Head(todo[g]) IN
       /\ Len(chan[s]) < ChanSize
       /\ chan' = [chan EXCEPT ![s] = Append(@, candle[g])]
  /\ UNCHANGED <<subVars, got, groupVars, runVars, src, feedVars>>

SendCandle(g) ==
  /\ at[g] = "send"
  /\ LET s == Head(todo[g]) IN
       /\ Len(chan[s]) < ChanSize
       /\ chan' = [chan EXCEPT ![s] = Append(@, candle[g])]
  /\ todo' = [todo EXCEPT ![g] = Tail(@)]
  /\ at' = [at EXCEPT ![g] = IF Tail(todo[g]) = <<>> THEN "select" ELSE "send"]
  /\ candle' = [candle EXCEPT ![g] = IF Tail(todo[g]) = <<>> THEN Foreign ELSE @]
  /\ UNCHANGED <<subVars, got, groupVars, src, feedVars>>

\* Mutant: the send has no case for the context.
MutantSeesDone(g) == at[g] = "select" /\ CtxDone(g)
SeesDone(g) == at[g] \in {"select", "send"} /\ CtxDone(g)

ExitRun(g) ==
  /\ SeesDone(g)
  /\ at' = [at EXCEPT ![g] = "exit"]
  /\ todo' = [todo EXCEPT ![g] = <<>>]
  /\ candle' = [candle EXCEPT ![g] = Foreign]
  /\ UNCHANGED <<subVars, chan, got, groupVars, src, feedVars>>

\* The deferred delete of whatever the map holds.
DeleteGroup(g) ==
  /\ at[g] = "exit"
  /\ current' = Nil
  /\ at' = [at EXCEPT ![g] = "gone"]
  /\ UNCHANGED <<subVars, chan, got, subs, cancelled, todo, candle, src, feedVars>>

-----------------------------------------------------------------------------

Init ==
  /\ sub = [s \in Subscribers |-> "new"]
  /\ joined = [s \in Subscribers |-> Nil]
  /\ chan = [s \in Subscribers |-> <<>>]
  /\ got = [s \in Subscribers |-> 0]
  /\ current = Nil
  /\ subs = [g \in Subscribers |-> <<>>]
  /\ cancelled = [g \in Subscribers |-> FALSE]
  /\ at = [g \in Subscribers |-> "none"]
  /\ todo = [g \in Subscribers |-> <<>>]
  /\ candle = [g \in Subscribers |-> Foreign]
  /\ src = [g \in Subscribers |-> <<>>]
  /\ outs = {}
  /\ queue = {}
  /\ item = Foreign
  /\ closed = 0

Instance(s) == ReadCandle(s) \/ Leave(s) \/ CancelGroup(s)
Run(g) == TakeCandle(g) \/ SendCandle(g) \/ ExitRun(g) \/ DeleteGroup(g)

Next ==
  \/ \E s \in Subscribers : Subscribe(s) \/ SubscribeFails(s) \/ StopInstance(s)
                              \/ Instance(s) \/ Run(s) \/ Feed(s) \/ Detach(s)
  \/ PublishCandle

\* Started goroutines run, and a select does not pass over a ready case for ever;
\* nobody has to start or stop, nor any candle to come.
Fairness ==
  /\ \A s \in Subscribers : WF_vars(ReadCandle(s)) /\ WF_vars(Leave(s) \/ CancelGroup(s))
  /\ \A g \in Subscribers : WF_vars(Run(g)) /\ WF_vars(ExitRun(g))

Spec == Init /\ [][Next]_vars /\ Fairness

-----------------------------------------------------------------------------
(* Properties.                                                             *)

Candles == 0..MaxCandles

\* The types of the variables, and the capacities of the channels.
TypeOK ==
  /\ \A s \in Subscribers : Len(chan[s]) <= ChanSize /\ Len(src[s]) <= SrcSize
  /\ sub \in [Subscribers -> {"new", "on", "off", "last", "gone"}]
  /\ joined \in [Subscribers -> Subscribers \cup {Nil}]
  /\ chan \in [Subscribers -> Seq(Candles)]
  /\ got \in [Subscribers -> Candles]
  /\ current \in Subscribers \cup {Nil}
  /\ subs \in [Subscribers -> Seq(Subscribers)]
  /\ cancelled \in [Subscribers -> BOOLEAN]
  /\ at \in [Subscribers -> Running \cup {"none", "gone"}]
  /\ todo \in [Subscribers -> Seq(Subscribers)]
  /\ candle \in [Subscribers -> Candles]
  /\ src \in [Subscribers -> Seq(Candles)]
  /\ outs \subseteq Subscribers /\ queue \subseteq Subscribers
  /\ item \in Candles /\ closed \in Candles

\* A subscriber gets a run of consecutive candles of its instrument: none is
\* skipped, repeated or reordered, although subscribers come and go during the
\* copying (candleGroup.run).
ReceivedInOrder ==
  \A s \in Subscribers :
    \A i \in 1..Len(chan[s]) :
      LET previous == IF i = 1 THEN got[s] ELSE chan[s][i-1] IN
        chan[s][i] # Foreign /\ (previous # 0 => chan[s][i] = previous + 1)

\* One market-data subscription at a time: the group of the map is the only one
\* that runs, so the deferred delete never removes somebody else's group.
OneGroup == \A g \in Subscribers : at[g] \in Running <=> current = g

\* As long as the instance that made a group runs, the group serves it: however
\* others join and leave, and whenever the cancellation that follows a leave
\* happens, it never hits a group its maker is still using (cleanup).
MakerServed ==
  \A s \in Subscribers :
    sub[s] = "on" /\ joined[s] = s => at[s] \in {"select", "send"} /\ Contains(subs[s], s)

\* A cancelled group leaves the map, even when it is stuck sending to a
\* subscriber that reads no more; a later Subscribe then makes a new one.
CancelledGroupEnds ==
  \A g \in Subscribers : (at[g] \in Running /\ CtxDone(g)) ~> at[g] = "gone"

\* The candle in hand has still to be sent to s.
Waiting(s) == sub[s] = "on" /\ at[joined[s]] = "send" /\ Contains(todo[joined[s]], s)

\* A subscriber that left with its channel full holds up the group.
Blocked(g) ==
  /\ at[g] = "send"
  /\ LET t == Head(todo[g]) IN InstanceDone(t) /\ Len(chan[t]) = ChanSize

\* A slow subscriber delays the others' candle but never costs them it, unless
\* the group is cancelled or a full channel is abandoned (candleGroup.run).
CandleDelivered ==
  \A s \in Subscribers :
    Waiting(s) ~> (~Waiting(s) \/ CtxDone(joined[s]) \/ Blocked(joined[s]))

\* What Subscribe's comment promises: the group is cancelled with its last
\* subscriber.  The code breaks it.
CancelledWithLast ==
  \A g, s \in Subscribers : CtxDone(g) /\ joined[s] = g => InstanceDone(s)
=============================================================================
