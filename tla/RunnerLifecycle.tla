--------------------------- MODULE RunnerLifecycle ---------------------------
(***************************************************************************)
(* Starting, stopping and reloading strategy instances.                    *)
(*                                                                         *)
(* Runner.Start (the boot task), the handlers of the management API and    *)
(* the watchdog all call startInstance and StopInstance.  Runner.mu is     *)
(* held only to read or write the map of runtimes, never across one of     *)
(* these procedures, so the callers interleave.                            *)
(*                                                                         *)
(* Abstracted: what a runtime trades (StrategyOrders, ProtectiveStop) and how  *)
(* it gets its candles (CandleHub).  A runtime is a number, handed out in  *)
(* the order of registration; a configuration gives each instance one of   *)
(* Variants, "off" (present and disabled) or "absent".                     *)
(***************************************************************************)
EXTENDS Integers, FiniteSets

CONSTANTS
  Ids,          \* instance identifiers
  Variants,     \* enabled configurations of an instance that differ
  AtBoot,       \* the configuration the process starts with
  Admins,       \* concurrent handlers of the management API
  Instruments,  \* instruments, and so candle goroutines, of an instance
  MaxStarts,    \* bound on runtimes
  MaxRequests,  \* bound on management requests and watchdog stops
  MaxFailures   \* bound on failing starts

ASSUME LifecycleAssumption ==
  /\ AtBoot \in [Ids -> Variants \cup {"off", "absent"}]
  /\ Instruments \in Nat \ {0}
  /\ MaxStarts \in Nat /\ MaxRequests \in Nat /\ MaxFailures \in Nat
  /\ {"off", "absent"} \cap Variants = {} /\ {"boot", "watchdog"} \cap Admins = {}

VARIABLES
  strategiesCfg, \* Runner.strategiesCfg: the configuration of each instance
  byID,          \* Runner.byID
  instances,     \* Runner.instances: the runtime of each instance, 0 for none
  inst,          \* the instance and the configuration of each runtime
  loops,         \* candle goroutines of each runtime (instanceRuntime.wg)
  cancelled,     \* runtimes whose context is cancelled
  retired,       \* runtimes whose strategy got Stop()
  down,          \* the root context is cancelled
  op,            \* what each task is doing, or "none"
  pc,            \* where it is in startInstance or StopInstance, or "choose"
  stops, starts, \* instances it has still to stop, and to start
  old, plan,     \* the configurations before and after, as it read them
  cur, rt,       \* the instance and the runtime at hand
  left,          \* instruments it has still to subscribe to
  requests, failures, \* environment bounds
  clash          \* history: two tasks were at work on the instance at once

cfgVars  == <<strategiesCfg, byID>>
rtVars   == <<inst, loops, cancelled, retired>>
planVars == <<old, plan>>
taskVars == <<op, pc, stops, starts, planVars, cur, rt, left>>
envVars  == <<requests, failures>>
vars == <<cfgVars, instances, rtVars, down, taskVars, envVars, clash>>

Boot == "boot"
Watchdog == "watchdog"
Tasks == {Boot, Watchdog} \cup Admins

Values == Variants \cup {"off", "absent"}
Configs == [Ids -> Values]
NoConfig == [id \in Ids |-> "absent"]
Enabled(c) == c \in Variants

Runtimes == 1..MaxStarts
Unused == [id |-> "none", cfg |-> "absent"]
Registered == {r \in Runtimes : inst[r] # Unused}
InstanceRunning(id) == instances[id] # 0

\* The runtimes of an instance that handle candles and were not told to end.
Trading(id) ==
  {r \in Registered : inst[r].id = id /\ loops[r] > 0 /\ r \notin cancelled /\ ~down}

\* The instances a task may still start or stop.
Touches(t) ==
  IF op[t] \in {"reload", "store", "restart"} THEN Ids
  ELSE stops[t] \cup starts[t] \cup (IF pc[t] = "choose" THEN {} ELSE {cur[t]})

-----------------------------------------------------------------------------
(* Requests: what a task is to stop, and then to start.                    *)

Begin(t, what, toStop, toStart, touched) ==
  /\ op' = [op EXCEPT ![t] = what]
  /\ stops' = [stops EXCEPT ![t] = toStop]
  /\ starts' = [starts EXCEPT ![t] = toStart]
  /\ clash' = [id \in Ids |->
       clash[id] \/ (id \in touched /\ \E u \in Tasks \ {t} : id \in Touches(u))]

NewRequest(t) ==
  /\ op[t] = "none"
  /\ requests < MaxRequests
  /\ requests' = requests + 1
  /\ UNCHANGED <<cfgVars, instances, rtVars, down, pc, cur, rt, left, failures>>

\* StartInstanceByID: refused when unknown, disabled or in the map.
MutantMayStart(id) == Enabled(byID[id])
MayStart(id) == Enabled(byID[id]) /\ ~InstanceRunning(id)

StartInstanceByID(t, id) ==
  /\ NewRequest(t)
  /\ MayStart(id)
  /\ Begin(t, "start", {}, {id}, {id})
  /\ plan' = [plan EXCEPT ![t] = byID]
  /\ UNCHANGED old

\* POST /instances/{id}/stop, or maybePauseOnLoss in the watchdog, which runs
\* once the boot is over.
RequestStop(t, id) ==
  /\ t = Watchdog => op[Boot] \in {"booted", "stopall"}
  /\ NewRequest(t)
  /\ InstanceRunning(id)
  /\ Begin(t, "stop", {id}, {}, {id})
  /\ UNCHANGED planVars

\* ReloadConfig: the file read differs from the configuration in force.  The code
\* compares field by field, and in params takes a missing key for an empty value
\* where the number of keys is the same: such two files count as one here.
MutantComparesEnabled(a, b) == Enabled(a) # Enabled(b)
InstanceChanged(a, b) == a # b

ReloadConfig(t, new) ==
  /\ NewRequest(t)
  /\ Begin(t, "reload",
           {id \in Ids : /\ strategiesCfg[id] # "absent"
                         /\ InstanceChanged(strategiesCfg[id], new[id])},
           {}, Ids)
  /\ old' = [old EXCEPT ![t] = strategiesCfg]
  /\ plan' = [plan EXCEPT ![t] = new]

\* Once the old instances are stopped: the new configuration, in two
\* assignments of which only the second is made under the lock ...
StoreConfig(t) ==
  /\ op[t] = "reload"
  /\ pc[t] = "choose"
  /\ stops[t] = {}
  /\ strategiesCfg' = plan[t]
  /\ op' = [op EXCEPT ![t] = "store"]
  /\ UNCHANGED <<byID, instances, rtVars, down, pc, stops, starts, planVars, cur, rt,
                 left, envVars, clash>>

\* ... and the instances to start: enabled, and new or changed.
StoreByID(t) ==
  /\ op[t] = "store"
  /\ byID' = plan[t]
  /\ starts' = [starts EXCEPT ![t] =
       {id \in Ids : Enabled(plan[t][id]) /\ InstanceChanged(old[t][id], plan[t][id])}]
  /\ op' = [op EXCEPT ![t] = "restart"]
  /\ UNCHANGED <<strategiesCfg, instances, rtVars, down, pc, stops, planVars, cur, rt,
                 left, envVars, clash>>

\* The task has nothing left to do (and forgets what it had in hand);
\* Runner.Start then waits for the shutdown.
Idle(t) ==
  /\ old' = [old EXCEPT ![t] = NoConfig]
  /\ plan' = [plan EXCEPT ![t] = NoConfig]
  /\ cur' = [cur EXCEPT ![t] = "none"]
  /\ rt' = [rt EXCEPT ![t] = 0]
  /\ left' = [left EXCEPT ![t] = 0]

Finish(t) ==
  /\ op[t] \in {"boot", "start", "stop", "restart", "stopall"}
  /\ pc[t] = "choose"
  /\ stops[t] = {}
  /\ starts[t] = {}
  /\ op' = [op EXCEPT ![t] = IF @ = "boot" THEN "booted" ELSE "none"]
  /\ Idle(t)
  /\ UNCHANGED <<cfgVars, instances, rtVars, down, pc, stops, starts, envVars, clash>>

\* The root context is cancelled, by a signal ...
Shutdown ==
  /\ ~down
  /\ down' = TRUE
  /\ UNCHANGED <<cfgVars, instances, rtVars, taskVars, envVars, clash>>

\* ... and Runner.Start stops what the map holds at that moment.
StopAll ==
  /\ down
  /\ op[Boot] = "booted"
  /\ Begin(Boot, "stopall", {id \in Ids : InstanceRunning(id)}, {},
           {id \in Ids : InstanceRunning(id)})
  /\ UNCHANGED <<cfgVars, instances, rtVars, down, pc, planVars, cur, rt, left, envVars>>

-----------------------------------------------------------------------------
(* StopInstance.                                                           *)

Goto(t, place) == pc' = [pc EXCEPT ![t] = place]

\* The lookup, and the cancellation of the runtime found.
StopLookup(t, id) ==
  /\ pc[t] = "choose"
  /\ id \in stops[t]
  /\ stops' = [stops EXCEPT ![t] = @ \ {id}]
  /\ cur' = [cur EXCEPT ![t] = id]
  /\ IF InstanceRunning(id)
     THEN /\ rt' = [rt EXCEPT ![t] = instances[id]]
          /\ cancelled' = cancelled \cup {instances[id]}
          /\ Goto(t, "wait")
     ELSE UNCHANGED <<rt, cancelled, pc>>
  /\ UNCHANGED <<cfgVars, instances, inst, loops, retired, down, op, starts, planVars,
                 left, envVars, clash>>

\* wg.Wait; then the strategy's state is saved and the strategy stopped.
StopWait(t) ==
  /\ pc[t] = "wait"
  /\ loops[rt[t]] = 0
  /\ retired' = retired \cup {rt[t]}
  /\ Goto(t, "delete")
  /\ UNCHANGED <<cfgVars, instances, inst, loops, cancelled, down, op, stops, starts,
                 planVars, cur, rt, left, envVars, clash>>

\* An entry is deleted by instance, whatever runtime it holds by now.
MutantWithoutEntry(id) == instances
WithoutEntry(id) == [instances EXCEPT ![id] = 0]

StopDelete(t) ==
  /\ pc[t] = "delete"
  /\ instances' = WithoutEntry(cur[t])
  /\ Goto(t, "choose")
  /\ UNCHANGED <<cfgVars, rtVars, down, op, stops, starts, planVars, cur, rt, left,
                 envVars, clash>>

-----------------------------------------------------------------------------
(* startInstance.                                                          *)

\* ReloadConfig passes over an instance that is in the map.
StartNext(t, id) ==
  /\ op[t] \in {"boot", "start", "restart"}
  /\ pc[t] = "choose"
  /\ id \in starts[t]
  /\ starts' = [starts EXCEPT ![t] = @ \ {id}]
  /\ IF op[t] = "restart" /\ InstanceRunning(id)
     THEN UNCHANGED <<cur, pc>>
     ELSE cur' = [cur EXCEPT ![t] = id] /\ Goto(t, "sync")
  /\ UNCHANGED <<cfgVars, instances, rtVars, down, op, stops, planVars, rt, left,
                 envVars, clash>>

\* A start failed: a reload goes on with its next instance; Runner.Start
\* returns the error, and main cancels the root context.
Abandon(t) ==
  /\ Goto(t, "choose")
  /\ IF op[t] = "boot"
     THEN /\ down' = TRUE
          /\ op' = [op EXCEPT ![t] = "none"]
          /\ starts' = [starts EXCEPT ![t] = {}]
     ELSE UNCHANGED <<down, op, starts>>

Fail ==
  /\ failures < MaxFailures \/ down
  /\ failures' = IF down THEN failures ELSE failures + 1

\* Validation, Configure or the broker synchronisation fails.
StartFails(t) ==
  /\ pc[t] = "sync"
  /\ Fail
  /\ Abandon(t)
  /\ UNCHANGED <<cfgVars, instances, rtVars, stops, planVars, cur, rt, left, requests,
                 clash>>

NextRuntime == Cardinality(Registered) + 1

\* The strategy is ready: its runtime enters the map, whatever was there.
Register(t) ==
  /\ pc[t] = "sync"
  /\ NextRuntime \in Runtimes
  /\ inst' = [inst EXCEPT ![NextRuntime] = [id |-> cur[t], cfg |-> plan[t][cur[t]]]]
  /\ instances' = [instances EXCEPT ![cur[t]] = NextRuntime]
  /\ rt' = [rt EXCEPT ![t] = NextRuntime]
  /\ left' = [left EXCEPT ![t] = Instruments]
  /\ Goto(t, "subscribe")
  /\ UNCHANGED <<cfgVars, loops, cancelled, retired, down, op, stops, starts, planVars,
                 cur, envVars, clash>>

\* One subscription and one goroutine for each instrument.
MutantIsLast(n) == n = 0
IsLast(n) == n = 1

Subscribe(t) ==
  /\ pc[t] = "subscribe"
  /\ loops' = [loops EXCEPT ![rt[t]] = @ + 1]
  /\ left' = [left EXCEPT ![t] = @ - 1]
  /\ Goto(t, IF IsLast(left[t]) THEN "choose" ELSE "subscribe")
  /\ UNCHANGED <<cfgVars, instances, inst, cancelled, retired, down, op, stops, starts,
                 planVars, cur, rt, envVars, clash>>

\* A subscription fails: what was started is cancelled, but not waited for ...
SubscribeFails(t) ==
  /\ pc[t] = "subscribe"
  /\ Fail
  /\ cancelled' = cancelled \cup {rt[t]}
  /\ Goto(t, "undo")
  /\ UNCHANGED <<cfgVars, instances, inst, loops, retired, down, op, stops, starts,
                 planVars, cur, rt, left, requests, clash>>

\* ... the entry is deleted and the strategy stopped.
UndoStart(t) ==
  /\ pc[t] = "undo"
  /\ instances' = WithoutEntry(cur[t])
  /\ retired' = retired \cup {rt[t]}
  /\ Abandon(t)
  /\ UNCHANGED <<cfgVars, inst, loops, cancelled, stops, planVars, cur, rt, left,
                 envVars, clash>>

\* A candle goroutine sees the end of its context, a child of the root context.
MutantContextEnded(r) == r \in cancelled
ContextEnded(r) == r \in cancelled \/ down

LoopEnds(r) ==
  /\ loops[r] > 0
  /\ ContextEnded(r)
  /\ loops' = [loops EXCEPT ![r] = @ - 1]
  /\ UNCHANGED <<cfgVars, instances, inst, cancelled, retired, down, taskVars, envVars,
                 clash>>

-----------------------------------------------------------------------------

Init ==
  /\ strategiesCfg = AtBoot
  /\ byID = AtBoot
  /\ instances = [id \in Ids |-> 0]
  /\ inst = [r \in Runtimes |-> Unused]
  /\ loops = [r \in Runtimes |-> 0]
  /\ cancelled = {}
  /\ retired = {}
  /\ down = FALSE
  /\ op = [t \in Tasks |-> IF t = Boot THEN "boot" ELSE "none"]
  /\ pc = [t \in Tasks |-> "choose"]
  /\ stops = [t \in Tasks |-> {}]
  /\ starts = [t \in Tasks |-> IF t = Boot THEN {id \in Ids : Enabled(AtBoot[id])} ELSE {}]
  /\ old = [t \in Tasks |-> NoConfig]
  /\ plan = [t \in Tasks |-> IF t = Boot THEN AtBoot ELSE NoConfig]
  /\ cur = [t \in Tasks |-> "none"]
  /\ rt = [t \in Tasks |-> 0]
  /\ left = [t \in Tasks |-> 0]
  /\ requests = 0
  /\ failures = 0
  /\ clash = [id \in Ids |-> FALSE]

Stopping(t) == StopWait(t) \/ StopDelete(t) \/ \E id \in Ids : StopLookup(t, id)
Starting(t) ==
  StartFails(t) \/ Register(t) \/ Subscribe(t) \/ SubscribeFails(t) \/ UndoStart(t)
  \/ \E id \in Ids : StartNext(t, id)
Work(t) == Stopping(t) \/ Starting(t) \/ StoreConfig(t) \/ StoreByID(t) \/ Finish(t)

Request ==
  \/ \E t \in Admins, id \in Ids : StartInstanceByID(t, id)
  \/ \E t \in Admins \cup {Watchdog}, id \in Ids : RequestStop(t, id)
  \/ \E t \in Admins, new \in Configs : ReloadConfig(t, new)

Next ==
  \/ Request
  \/ Shutdown
  \/ StopAll
  \/ \E t \in Tasks : Work(t)
  \/ \E r \in Runtimes : LoopEnds(r)

\* Goroutines of a running process run on.  Nobody need send a request or a signal.
Fairness ==
  /\ \A t \in Tasks : WF_vars(Work(t))
  /\ \A r \in Runtimes : WF_vars(LoopEnds(r))
  /\ WF_vars(StopAll)

Spec == Init /\ [][Next]_vars /\ Fairness

-----------------------------------------------------------------------------
(* Properties.                                                             *)

\* The types of the variables.
TypeOK ==
  /\ strategiesCfg \in Configs /\ byID \in Configs
  /\ instances \in [Ids -> {0} \cup Registered]
  /\ inst \in [Runtimes -> [id : Ids, cfg : Variants] \cup {Unused}]
  /\ loops \in [Runtimes -> 0..Instruments]
  /\ cancelled \subseteq Runtimes /\ retired \subseteq Runtimes
  /\ down \in BOOLEAN
  /\ op \in [Tasks -> {"none", "boot", "booted", "start", "stop", "reload", "store",
                       "restart", "stopall"}]
  /\ pc \in [Tasks -> {"choose", "wait", "delete", "sync", "subscribe", "undo"}]
  /\ stops \in [Tasks -> SUBSET Ids] /\ starts \in [Tasks -> SUBSET Ids]
  /\ old \in [Tasks -> Configs] /\ plan \in [Tasks -> Configs]
  /\ cur \in [Tasks -> Ids \cup {"none"}]
  /\ rt \in [Tasks -> {0} \cup Registered]
  /\ left \in [Tasks -> 0..Instruments]
  /\ requests \in 0..MaxRequests /\ failures \in 0..MaxFailures
  /\ clash \in [Ids -> BOOLEAN]

\* As long as no two tasks were at work on an instance at once, at most one
\* runtime trades for it, and it is the one in the map, so that it can be
\* stopped (startInstance, StopInstance, ReloadConfig).
OneRuntime ==
  \A id \in Ids : ~clash[id] => Trading(id) \subseteq {instances[id]}

\* An instance at rest runs with the configuration in force, after any sequence
\* of reloads, starts and stops that did not clash (ReloadConfig).
RunsCurrentConfig ==
  \A id \in Ids :
    (~clash[id] /\ InstanceRunning(id) /\ \A t \in Tasks : id \notin Touches(t))
      => byID[id] = inst[instances[id]].cfg

\* Clashes or not, a runtime whose context is cancelled leaves the map: no dead
\* entry keeps StartInstanceByID from starting the instance again.
DeadEntryGoes ==
  \A id \in Ids : instances[id] \in cancelled ~> instances[id] \notin cancelled

\* After the root context has ended every candle goroutine ends, also those of a
\* runtime that StopAll did not see, or that no map entry leads to.
ShutdownQuiets == <>down => <>[](\A r \in Runtimes : loops[r] = 0)

\* What InstanceRunning's comment promises: a runtime that trades is reported.
\* The code breaks it.
RunningIsReported == \A id \in Ids : Trading(id) # {} => InstanceRunning(id)
=============================================================================
