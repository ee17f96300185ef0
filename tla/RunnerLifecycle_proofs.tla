------------------------ MODULE RunnerLifecycle_proofs ------------------------
(***************************************************************************)
(* TypeOK, OneRuntime and RunsCurrentConfig for any number of instances,   *)
(* configurations, concurrent management handlers, requests and failures.  *)
(***************************************************************************)
EXTENDS RunnerLifecycle, FiniteSetTheorems, TLAPS

-----------------------------------------------------------------------------
(* The inductive invariant.                                                *)

Stop == {"stop", "reload", "stopall"}
Start == {"boot", "start", "restart"}
AtStop == {"wait", "delete"}
AtStart == {"sync", "subscribe", "undo"}

\* What a task has in hand, whoever works beside it.
TaskInv(t) ==
  /\ op[t] \notin Start => starts[t] = {}
  /\ op[t] \notin Stop => stops[t] = {}
  /\ pc[t] # "choose" => cur[t] \in Ids
  /\ pc[t] \in AtStop => op[t] \in Stop /\ rt[t] \in cancelled
  /\ pc[t] \in AtStart => op[t] \in Start
  /\ pc[t] \in {"subscribe", "undo"} => rt[t] \in Registered /\ inst[rt[t]].id = cur[t]
  /\ pc[t] = "undo" => rt[t] \in cancelled
  /\ pc[t] = "subscribe" => left[t] > 0 /\ loops[rt[t]] + left[t] <= Instruments
  /\ \A id \in Ids : id \in starts[t] => Enabled(plan[t][id])
  /\ pc[t] = "sync" => Enabled(plan[t][cur[t]])
  /\ op[t] \in {"boot", "start"} /\ pc[t] \in AtStart => cur[t] \notin starts[t]

\* Runtimes are handed out in order, and each is set up by one task.
RuntimeInv ==
  /\ \E n \in 0..MaxStarts : Registered = 1..n
  /\ \A r \in Runtimes \ Registered : loops[r] = 0
  /\ \A t, u \in Tasks : pc[t] = "subscribe" /\ pc[u] = "subscribe" /\ rt[t] = rt[u] => t = u
  /\ \A id \in Ids : instances[id] # 0 => inst[instances[id]].id = id

At(t, id) == pc[t] # "choose" /\ cur[t] = id

\* What a task that is the only one at work on an instance knows of it.
Knows(t, id) ==
  /\ op[t] \in {"boot", "start"} /\ id \in starts[t] => instances[id] = 0
  /\ At(t, id) /\ pc[t] = "sync" => instances[id] = 0
  /\ At(t, id) /\ pc[t] # "sync" => instances[id] = rt[t]
  /\ op[t] \in Start => plan[t][id] = byID[id]
  /\ op[t] \in {"reload", "store"} => old[t][id] = byID[id]
  /\ op[t] = "store" => strategiesCfg[id] = plan[t][id]
  /\ op[t] # "store" => strategiesCfg[id] = byID[id]
  /\ op[t] \in {"reload", "store"} /\ InstanceChanged(old[t][id], plan[t][id]) =>
       id \in stops[t] \/ At(t, id) \/ instances[id] = 0

\* An instance no two tasks were at work on at once.
Clean(id) ==
  /\ \A t, u \in Tasks : id \in Touches(t) /\ id \in Touches(u) => t = u
  /\ \A t \in Tasks : id \in Touches(t) => Knows(t, id)
  /\ (\A t \in Tasks : id \notin Touches(t)) => strategiesCfg[id] = byID[id]
  /\ Trading(id) \subseteq {instances[id]}
  /\ instances[id] # 0 => inst[instances[id]].cfg = byID[id]

IInv ==
  /\ TypeOK
  /\ \A t \in Tasks : TaskInv(t)
  /\ RuntimeInv
  /\ \A id \in Ids : ~clash[id] => Clean(id)

-----------------------------------------------------------------------------
(* Steps of one task.                                                      *)

\* Only task t moves.
Others(t) ==
  \A u \in Tasks \ {t} :
    /\ op'[u] = op[u] /\ pc'[u] = pc[u] /\ stops'[u] = stops[u] /\ starts'[u] = starts[u]
    /\ old'[u] = old[u] /\ plan'[u] = plan[u] /\ cur'[u] = cur[u] /\ rt'[u] = rt[u]
    /\ left'[u] = left[u]

\* The types of the tasks' variables after a step.
TasksTyped ==
  /\ op' \in [Tasks -> {"none", "boot", "booted", "start", "stop", "reload", "store",
                        "restart", "stopall"}]
  /\ pc' \in [Tasks -> {"choose", "wait", "delete", "sync", "subscribe", "undo"}]
  /\ stops' \in [Tasks -> SUBSET Ids] /\ starts' \in [Tasks -> SUBSET Ids]
  /\ old' \in [Tasks -> Configs] /\ plan' \in [Tasks -> Configs]
  /\ cur' \in [Tasks -> Ids \cup {"none"}]
  /\ rt' \in [Tasks -> {0} \cup Registered']
  /\ left' \in [Tasks -> 0..Instruments]

\* The types of the other variables.
RunnerTyped ==
  /\ strategiesCfg' \in Configs /\ byID' \in Configs
  /\ instances' \in [Ids -> {0} \cup Registered']
  /\ inst' \in [Runtimes -> [id : Ids, cfg : Variants] \cup {Unused}]
  /\ loops' \in [Runtimes -> 0..Instruments]
  /\ cancelled' \subseteq Runtimes /\ retired' \subseteq Runtimes
  /\ down' \in BOOLEAN
  /\ requests' \in 0..MaxRequests /\ failures' \in 0..MaxFailures
  /\ clash' \in [Ids -> BOOLEAN]

LEMMA Typed == ASSUME TasksTyped, RunnerTyped PROVE TypeOK'
BY DEF TasksTyped, RunnerTyped, TypeOK

LEMMA SameRegistered == inst' = inst => Registered' = Registered
BY DEF Registered

LEMMA OthersTouch ==
  ASSUME NEW t \in Tasks, Others(t), NEW u \in Tasks \ {t}
  PROVE  Touches(u)' = Touches(u)
BY DEF Others, Touches

\* What the others have in hand is still there.
LEMMA OthersInv ==
  ASSUME IInv, NEW t \in Tasks, Others(t),
         cancelled \subseteq cancelled', Registered \subseteq Registered',
         \A r \in Registered : inst'[r] = inst[r],
         \A r \in Registered : loops'[r] <= loops[r] \/ (pc[t] = "subscribe" /\ r = rt[t]),
         loops' \in [Runtimes -> 0..Instruments],
         TaskInv(t)'
  PROVE  \A u \in Tasks : TaskInv(u)'
<1>1. SUFFICES ASSUME NEW u \in Tasks \ {t}
               PROVE  TaskInv(u)'
  OBVIOUS
<1>2. TaskInv(u)
  BY DEF IInv
<1>3. /\ op'[u] = op[u] /\ pc'[u] = pc[u] /\ stops'[u] = stops[u] /\ starts'[u] = starts[u]
      /\ plan'[u] = plan[u] /\ cur'[u] = cur[u] /\ rt'[u] = rt[u] /\ left'[u] = left[u]
  BY DEF Others
<1>4. ASSUME pc[u] = "subscribe"
      PROVE  loops'[rt[u]] + left[u] <= Instruments
  <2>1. rt[u] \in Registered /\ rt[u] \in Runtimes
    BY <1>2, <1>4 DEF TaskInv, Registered
  <2>2. ~(pc[t] = "subscribe" /\ rt[u] = rt[t])
    BY <1>4 DEF IInv, RuntimeInv
  <2>3. loops'[rt[u]] <= loops[rt[u]]
    BY <2>1, <2>2
  <2>4. /\ loops'[rt[u]] \in 0..Instruments /\ loops[rt[u]] \in 0..Instruments
        /\ left[u] \in 0..Instruments
    BY <2>1 DEF IInv, TypeOK
  <2>5. loops[rt[u]] + left[u] <= Instruments
    BY <1>2, <1>4 DEF TaskInv
  <2>6. QED
    BY <2>3, <2>4, <2>5, LifecycleAssumption
<1>5. QED
  BY <1>2, <1>3, <1>4 DEF TaskInv

\* No runtime is registered by the step.
LEMMA RuntimesKept ==
  ASSUME IInv, NEW t \in Tasks, Others(t), inst' = inst,
         \A r \in Runtimes \ Registered : loops'[r] = 0,
         pc'[t] = "subscribe" => pc[t] = "subscribe" /\ rt'[t] = rt[t],
         \A id \in Ids : instances'[id] = instances[id] \/ instances'[id] = 0
  PROVE  RuntimeInv'
<1>1. Registered' = Registered
  BY SameRegistered
<1>2. \A u \in Tasks : pc'[u] = "subscribe" => pc[u] = "subscribe" /\ rt'[u] = rt[u]
  BY DEF Others
<1>3. \A u, v \in Tasks :
        pc'[u] = "subscribe" /\ pc'[v] = "subscribe" /\ rt'[u] = rt'[v] => u = v
  BY <1>2 DEF IInv, RuntimeInv
<1>4. QED
  BY <1>1, <1>3 DEF IInv, RuntimeInv

-----------------------------------------------------------------------------
(* What a step does to an instance that no two tasks were at work on.      *)

\* The step is not about the instance.
LEMMA Untouched ==
  ASSUME NEW t \in Tasks, Others(t), NEW id \in Ids, Clean(id),
         id \notin Touches(t), id \notin Touches(t)',
         instances'[id] = instances[id], byID'[id] = byID[id],
         strategiesCfg'[id] = strategiesCfg[id],
         instances[id] # 0 => inst'[instances[id]] = inst[instances[id]],
         Trading(id)' \subseteq Trading(id)
  PROVE  Clean(id)'
<1>1. \A u \in Tasks \ {t} : Touches(u)' = Touches(u)
  BY OthersTouch
<1>2. \A u \in Tasks : id \in Touches(u)' => u # t /\ id \in Touches(u)
  BY <1>1
<1>3. ASSUME NEW u \in Tasks, id \in Touches(u)'
      PROVE  Knows(u, id)'
  <2>1. u \in Tasks \ {t} /\ Knows(u, id)
    BY <1>2, <1>3 DEF Clean
  <2>2. QED
    BY <2>1 DEF Knows, Others, At
<1>4. ASSUME \A u \in Tasks : id \notin Touches(u)'
      PROVE  strategiesCfg'[id] = byID'[id]
  <2>1. \A u \in Tasks : id \notin Touches(u)
    BY <1>1, <1>4
  <2>2. QED
    BY <2>1 DEF Clean
<1>5. QED
  BY <1>2, <1>3, <1>4 DEF Clean

\* The step is that of the only task at work on the instance.
LEMMA Touched ==
  ASSUME NEW t \in Tasks, Others(t), NEW id \in Ids, Clean(id), id \in Touches(t),
         id \in Touches(t)' => Knows(t, id)',
         id \notin Touches(t)' => strategiesCfg'[id] = byID'[id],
         Trading(id)' \subseteq {instances'[id]},
         instances'[id] # 0 => inst'[instances'[id]].cfg = byID'[id]
  PROVE  Clean(id)'
<1>1. \A u \in Tasks \ {t} : id \notin Touches(u)'
  <2>1. SUFFICES ASSUME NEW u \in Tasks \ {t}, id \in Touches(u)'
                 PROVE  FALSE
    OBVIOUS
  <2>2. id \in Touches(u)
    BY <2>1, OthersTouch
  <2>3. QED
    BY <2>2 DEF Clean
<1>2. QED
  BY <1>1 DEF Clean

\* The step is a request, of a task that was at work on nothing.
LEMMA Requested ==
  ASSUME NEW t \in Tasks, Others(t), NEW id \in Ids, Clean(id),
         Touches(t) = {}, id \in Touches(t)',
         \A u \in Tasks \ {t} : id \notin Touches(u),
         Knows(t, id)',
         UNCHANGED <<instances, byID, strategiesCfg, inst, loops, cancelled, down>>
  PROVE  Clean(id)'
<1>1. \A u \in Tasks \ {t} : id \notin Touches(u)'
  BY OthersTouch
<1>2. Trading(id)' = Trading(id)
  BY DEF Trading, Registered
<1>3. QED
  BY <1>1, <1>2 DEF Clean

-----------------------------------------------------------------------------
(* Requests.                                                               *)

LEMMA RestingTask ==
  ASSUME IInv, NEW t \in Tasks, op[t] \in {"none", "booted"}
  PROVE  /\ pc[t] = "choose" /\ stops[t] = {} /\ starts[t] = {} /\ Touches(t) = {}
<1>1. op[t] \notin Start /\ op[t] \notin Stop /\ op[t] \notin {"reload", "store", "restart"}
  BY DEF Start, Stop
<1>2. pc[t] = "choose" /\ stops[t] = {} /\ starts[t] = {}
  BY <1>1 DEF IInv, TypeOK, TaskInv, AtStop, AtStart
<1>3. QED
  BY <1>1, <1>2 DEF Touches

\* A resting task t begins to stop and to start instances, with the configurations
\* a and b in hand.
Asked(what, toStop, toStart) == IF what = "reload" THEN Ids ELSE toStop \cup toStart

Asks(t, what, toStop, toStart, a, b) ==
  /\ op[t] \in {"none", "booted"} /\ what \in {"start", "stop", "reload", "stopall"}
  /\ Begin(t, what, toStop, toStart, Asked(what, toStop, toStart))
  /\ old' = [old EXCEPT ![t] = a] /\ plan' = [plan EXCEPT ![t] = b]
  /\ UNCHANGED <<cfgVars, instances, rtVars, down, pc, cur, rt, left, failures>>
  /\ requests' \in 0..MaxRequests
  /\ what \notin Start => toStart = {}
  /\ what \notin Stop => toStop = {}
  /\ \A id \in toStart : Enabled(b[id])

LEMMA BeginKept ==
  ASSUME IInv, NEW t \in Tasks, NEW what, NEW toStop \in SUBSET Ids,
         NEW toStart \in SUBSET Ids, NEW a \in Configs, NEW b \in Configs,
         Asks(t, what, toStop, toStart, a, b),
         \A id \in Asked(what, toStop, toStart) :
           Clean(id) /\ strategiesCfg[id] = byID[id] => Knows(t, id)'
  PROVE  IInv'
<1> USE DEF Asks
<1> DEFINE touched == Asked(what, toStop, toStart)
<1>1. /\ op \in [Tasks -> {"none", "boot", "booted", "start", "stop", "reload", "store",
                           "restart", "stopall"}]
      /\ pc \in [Tasks -> {"choose", "wait", "delete", "sync", "subscribe", "undo"}]
      /\ stops \in [Tasks -> SUBSET Ids] /\ starts \in [Tasks -> SUBSET Ids]
      /\ old \in [Tasks -> Configs] /\ plan \in [Tasks -> Configs]
      /\ clash \in [Ids -> BOOLEAN]
  BY DEF IInv, TypeOK
<1>2. /\ op' = [op EXCEPT ![t] = what]
      /\ stops' = [stops EXCEPT ![t] = toStop]
      /\ starts' = [starts EXCEPT ![t] = toStart]
      /\ \A id \in Ids : ~clash'[id] =>
           ~clash[id] /\ (id \in touched => \A u \in Tasks \ {t} : id \notin Touches(u))
      /\ clash' \in [Ids -> BOOLEAN]
  <2>1. clash' = [id \in Ids |-> clash[id] \/ (id \in touched /\ \E u \in Tasks \ {t} : id \in Touches(u))]
    BY DEF Begin
  <2>2. clash' \in [Ids -> BOOLEAN]
    BY <1>1, <2>1
  <2>3. QED
    BY <2>1, <2>2 DEF Begin
<1>3. /\ op'[t] = what /\ pc'[t] = "choose" /\ stops'[t] = toStop /\ starts'[t] = toStart
      /\ old'[t] = a /\ plan'[t] = b
  BY <1>1, <1>2, RestingTask
<1>4. Others(t)
  BY <1>1, <1>2 DEF Others
<1>5. Registered' = Registered
  BY SameRegistered DEF rtVars
<1>6. TypeOK'
  <2>1. TasksTyped
    BY <1>1, <1>2, <1>5 DEF IInv, TypeOK, TasksTyped
  <2>2. RunnerTyped
    BY <1>2, <1>5 DEF IInv, TypeOK, RunnerTyped, cfgVars, rtVars
  <2>3. QED
    BY <2>1, <2>2, Typed
<1>7. TaskInv(t)'
  BY <1>3 DEF TaskInv, AtStop, AtStart
<1>8. \A u \in Tasks : TaskInv(u)'
  <2>1. \A r \in Registered : loops'[r] <= loops[r]
    <3>1. \A r \in Registered : loops'[r] = loops[r] /\ loops[r] \in 0..Instruments
      BY DEF rtVars, IInv, TypeOK, Registered
    <3>2. QED
      BY <3>1, LifecycleAssumption
  <2>2. QED
    BY <1>4, <1>5, <1>6, <1>7, <2>1, OthersInv DEF rtVars, TypeOK
<1>9. RuntimeInv'
  BY <1>4, <1>3, RuntimesKept DEF rtVars, IInv, RuntimeInv
<1>10. ASSUME NEW id \in Ids, ~clash'[id]
       PROVE  Clean(id)'
  <2>1. Clean(id) /\ (id \in touched => \A u \in Tasks \ {t} : id \notin Touches(u))
    BY <1>2, <1>10 DEF IInv
  <2>2. Touches(t) = {} /\ Touches(t)' \subseteq touched /\ (id \in touched => id \in Touches(t)')
    BY <1>3, RestingTask DEF Touches, Asked
  <2>3. Trading(id)' = Trading(id)
    BY <1>5 DEF Trading, rtVars
  <2>4. CASE id \in touched
    <3>1. strategiesCfg[id] = byID[id]
      BY <2>1, <2>2, <2>4 DEF Clean
    <3>2. Knows(t, id)'
      BY <2>1, <2>4, <3>1
    <3>3. QED
      BY <1>4, <2>1, <2>2, <2>4, <3>2, Requested DEF cfgVars, rtVars
  <2>5. CASE id \notin touched
    BY <1>4, <2>1, <2>2, <2>3, <2>5, Untouched DEF cfgVars, rtVars
  <2>6. QED
    BY <2>4, <2>5
<1>11. QED
  BY <1>6, <1>8, <1>9, <1>10 DEF IInv

LEMMA TaskNames ==
  /\ Boot \in Tasks /\ Watchdog \in Tasks /\ Admins \subseteq Tasks
  /\ Boot \notin Admins
BY LifecycleAssumption DEF Tasks, Boot, Watchdog

LEMMA KeepsPlans ==
  ASSUME IInv, NEW t \in Tasks, UNCHANGED planVars
  PROVE  /\ old[t] \in Configs /\ plan[t] \in Configs
         /\ old' = [old EXCEPT ![t] = old[t]] /\ plan' = [plan EXCEPT ![t] = plan[t]]
BY DEF IInv, TypeOK, planVars

LEMMA RequestType == ASSUME IInv, NEW t, NewRequest(t) PROVE requests' \in 0..MaxRequests
BY LifecycleAssumption DEF IInv, TypeOK, NewRequest

LEMMA StartInstanceByIDKept ==
  ASSUME IInv, NEW t \in Admins, NEW id \in Ids, StartInstanceByID(t, id)
  PROVE  IInv'
<1>1. /\ t \in Tasks /\ op[t] = "none" /\ byID \in Configs /\ requests' \in 0..MaxRequests
      /\ UNCHANGED <<cfgVars, instances, rtVars, down, pc, cur, rt, left, failures>>
      /\ Enabled(byID[id]) /\ instances[id] = 0
  BY TaskNames, RequestType
     DEF StartInstanceByID, NewRequest, MayStart, InstanceRunning, IInv, TypeOK
<1>2. /\ old[t] \in Configs /\ old' = [old EXCEPT ![t] = old[t]]
      /\ plan' = [plan EXCEPT ![t] = byID]
      /\ Begin(t, "start", {}, {id}, {id})
  BY <1>1 DEF StartInstanceByID, IInv, TypeOK
<1>3. /\ op'[t] = "start" /\ pc'[t] = "choose" /\ starts'[t] = {id} /\ plan'[t] = byID
  BY <1>1, <1>2, RestingTask DEF Begin, IInv, TypeOK
<1>4. ASSUME NEW x \in Ids, x \in {id}, strategiesCfg[x] = byID[x]
      PROVE  Knows(t, x)'
  BY <1>1, <1>3, <1>4 DEF Knows, At, cfgVars
<1>5. Asks(t, "start", {}, {id}, old[t], byID)
  BY <1>1, <1>2 DEF Asks, Asked, Start, Stop
<1>6. {} \in SUBSET Ids /\ {id} \in SUBSET Ids /\ Asked("start", {}, {id}) = {id}
  BY DEF Asked
<1>7. QED
  BY <1>1, <1>2, <1>4, <1>5, <1>6, BeginKept

LEMMA StopBeginKept ==
  ASSUME IInv, NEW t \in Tasks, op[t] \in {"none", "booted"}, NEW what \in {"stop", "stopall"},
         NEW toStop \in SUBSET Ids, Begin(t, what, toStop, {}, toStop),
         UNCHANGED <<cfgVars, instances, rtVars, down, pc, planVars, cur, rt, left, failures>>,
         requests' \in 0..MaxRequests
  PROVE  IInv'
<1>1. op'[t] = what /\ pc'[t] = "choose"
  BY RestingTask DEF Begin, IInv, TypeOK
<1>2. ASSUME NEW x \in Ids, strategiesCfg[x] = byID[x]
      PROVE  Knows(t, x)'
  BY <1>1, <1>2 DEF Knows, At, cfgVars, Start
<1>3. Asked(what, toStop, {}) = toStop /\ what \notin Start /\ what \in Stop
  BY DEF Asked, Start, Stop
<1>4. Asks(t, what, toStop, {}, old[t], plan[t])
  BY <1>3, KeepsPlans DEF Asks
<1>5. {} \in SUBSET Ids /\ old[t] \in Configs /\ plan[t] \in Configs
  BY KeepsPlans
<1>6. QED
  BY <1>2, <1>3, <1>4, <1>5, BeginKept

LEMMA RequestStopKept ==
  ASSUME IInv, NEW t \in Admins \cup {Watchdog}, NEW id \in Ids, RequestStop(t, id)
  PROVE  IInv'
<1>1. t \in Tasks /\ requests' \in 0..MaxRequests
  BY TaskNames, RequestType DEF RequestStop
<1>2. QED
  BY <1>1, StopBeginKept DEF RequestStop, NewRequest

LEMMA StopAllKept ==
  ASSUME IInv, StopAll
  PROVE  IInv'
BY TaskNames, StopBeginKept DEF StopAll, envVars, IInv, TypeOK

LEMMA ReloadConfigKept ==
  ASSUME IInv, NEW t \in Admins, NEW new \in Configs, ReloadConfig(t, new)
  PROVE  IInv'
<1> DEFINE toStop == {id \in Ids : /\ strategiesCfg[id] # "absent"
                                   /\ InstanceChanged(strategiesCfg[id], new[id])}
<1>1. /\ t \in Tasks /\ op[t] = "none" /\ strategiesCfg \in Configs
      /\ requests' \in 0..MaxRequests
      /\ UNCHANGED <<cfgVars, instances, rtVars, down, pc, cur, rt, left, failures>>
      /\ Begin(t, "reload", toStop, {}, Ids)
      /\ old' = [old EXCEPT ![t] = strategiesCfg] /\ plan' = [plan EXCEPT ![t] = new]
  BY TaskNames, RequestType DEF ReloadConfig, NewRequest, IInv, TypeOK
<1>2. /\ op'[t] = "reload" /\ pc'[t] = "choose" /\ stops'[t] = toStop /\ starts'[t] = {}
      /\ old'[t] = strategiesCfg /\ plan'[t] = new
  BY <1>1, RestingTask DEF Begin, IInv, TypeOK
<1>3. ASSUME NEW x \in Ids, Clean(x), strategiesCfg[x] = byID[x]
      PROVE  Knows(t, x)'
  <2>1. instances[x] # 0 => strategiesCfg[x] # "absent"
    <3>1. SUFFICES ASSUME instances[x] # 0 PROVE byID[x] # "absent"
      BY <1>3
    <3>2. instances[x] \in Registered /\ byID[x] = inst[instances[x]].cfg
      BY <1>3, <3>1 DEF IInv, TypeOK, Clean
    <3>3. inst[instances[x]].cfg \in Variants
      BY <3>2 DEF IInv, TypeOK, Registered
    <3>4. QED
      BY <3>2, <3>3, LifecycleAssumption
  <2>2. InstanceChanged(strategiesCfg[x], new[x]) => x \in toStop \/ instances[x] = 0
    BY <2>1
  <2>3. QED
    BY <1>1, <1>2, <1>3, <2>2 DEF Knows, At, Start, cfgVars
<1>4. QED
  <2>1. toStop \in SUBSET Ids /\ {} \in SUBSET Ids /\ Asked("reload", toStop, {}) = Ids
    BY DEF Asked
  <2>2. Asks(t, "reload", toStop, {}, strategiesCfg, new)
    BY <1>1, <2>1 DEF Asks, Stop, Start
  <2>3. QED
    BY <1>1, <1>3, <2>1, <2>2, BeginKept

-----------------------------------------------------------------------------
(* Work.                                                                   *)

\* A step that registers no runtime.
LEMMA WorkKept ==
  ASSUME IInv, NEW t \in Tasks, Others(t), TypeOK', inst' = inst, clash' = clash,
         cancelled \subseteq cancelled',
         \A r \in Registered : loops'[r] <= loops[r] \/ (pc[t] = "subscribe" /\ r = rt[t]),
         \A r \in Runtimes \ Registered : loops'[r] = 0,
         pc'[t] = "subscribe" => pc[t] = "subscribe" /\ rt'[t] = rt[t],
         \A id \in Ids : instances'[id] = instances[id] \/ instances'[id] = 0,
         TaskInv(t)',
         \A id \in Ids : Clean(id) => Clean(id)'
  PROVE  IInv'
<1>1. Registered' = Registered
  BY SameRegistered
<1>2. \A u \in Tasks : TaskInv(u)'
  BY <1>1, OthersInv DEF TypeOK
<1>3. RuntimeInv'
  BY RuntimesKept
<1>4. QED
  BY <1>2, <1>3 DEF IInv

LEMMA LoopsStay ==
  ASSUME IInv, loops' = loops
  PROVE  /\ \A r \in Registered : loops'[r] <= loops[r]
         /\ \A r \in Runtimes \ Registered : loops'[r] = 0
<1>1. \A r \in Registered : loops[r] \in 0..Instruments
  BY DEF IInv, TypeOK, Registered
<1>2. QED
  BY <1>1, LifecycleAssumption DEF IInv, RuntimeInv

\* The types of what a task has, and the others' share in a step of its own.
LEMMA TaskTypes ==
  ASSUME IInv
  PROVE  /\ op \in [Tasks -> {"none", "boot", "booted", "start", "stop", "reload", "store",
                              "restart", "stopall"}]
         /\ pc \in [Tasks -> {"choose", "wait", "delete", "sync", "subscribe", "undo"}]
         /\ stops \in [Tasks -> SUBSET Ids] /\ starts \in [Tasks -> SUBSET Ids]
         /\ old \in [Tasks -> Configs] /\ plan \in [Tasks -> Configs]
         /\ cur \in [Tasks -> Ids \cup {"none"}]
         /\ rt \in [Tasks -> {0} \cup Registered]
         /\ left \in [Tasks -> 0..Instruments]
         /\ instances \in [Ids -> {0} \cup Registered]
BY DEF IInv, TypeOK

LEMMA StoreConfigKept ==
  ASSUME IInv, NEW t \in Tasks, StoreConfig(t)
  PROVE  IInv'
<1>1. /\ op[t] = "reload" /\ pc[t] = "choose" /\ stops[t] = {}
      /\ strategiesCfg' = plan[t] /\ op' = [op EXCEPT ![t] = "store"]
      /\ UNCHANGED <<byID, instances, rtVars, down, pc, stops, starts, planVars, cur, rt,
                     left, envVars, clash>>
  BY DEF StoreConfig
<1>2. op'[t] = "store" /\ Others(t)
  BY <1>1, TaskTypes DEF Others, planVars
<1>3. Registered' = Registered
  BY <1>1, SameRegistered DEF rtVars
<1>4. TypeOK'
  <2>1. plan[t] \in Configs /\ op' \in [Tasks -> {"none", "boot", "booted", "start", "stop",
                                                  "reload", "store", "restart", "stopall"}]
    BY <1>1, TaskTypes
  <2>2. QED
    BY <1>1, <1>3, <2>1 DEF IInv, TypeOK, rtVars, planVars, envVars
<1>5. starts[t] = {} /\ TaskInv(t)
  BY <1>1 DEF IInv, TaskInv, Start
<1>6. TaskInv(t)'
  BY <1>1, <1>2, <1>5 DEF TaskInv, AtStop, AtStart, rtVars, planVars
<1>7. ASSUME NEW id \in Ids, Clean(id)
      PROVE  Clean(id)'
  <2>1. id \in Touches(t) /\ id \in Touches(t)'
    BY <1>1, <1>2 DEF Touches
  <2>2. Knows(t, id)
    BY <1>7, <2>1 DEF Clean
  <2>3. Knows(t, id)'
    BY <1>1, <1>2, <2>2 DEF Knows, At, Start, planVars
  <2>4. Trading(id)' = Trading(id)
    BY <1>1, <1>3 DEF Trading, rtVars
  <2>5. QED
    BY <1>1, <1>2, <1>7, <2>1, <2>3, <2>4, Touched DEF Clean, rtVars
<1>8. QED
  BY <1>1, <1>2, <1>4, <1>6, <1>7, LoopsStay, WorkKept DEF rtVars

LEMMA StoreByIDKept ==
  ASSUME IInv, NEW t \in Tasks, StoreByID(t)
  PROVE  IInv'
<1>1. /\ op[t] = "store" /\ byID' = plan[t] /\ op' = [op EXCEPT ![t] = "restart"]
      /\ starts' = [starts EXCEPT ![t] =
           {id \in Ids : Enabled(plan[t][id]) /\ InstanceChanged(old[t][id], plan[t][id])}]
      /\ UNCHANGED <<strategiesCfg, instances, rtVars, down, pc, stops, planVars, cur, rt,
                     left, envVars, clash>>
  BY DEF StoreByID
<1>2. /\ op'[t] = "restart" /\ Others(t)
      /\ starts'[t] = {id \in Ids : Enabled(plan[t][id]) /\ InstanceChanged(old[t][id], plan[t][id])}
  BY <1>1, TaskTypes DEF Others, planVars
<1>3. Registered' = Registered
  BY <1>1, SameRegistered DEF rtVars
<1>4. TypeOK'
  <2>1. plan[t] \in Configs /\ op' \in [Tasks -> {"none", "boot", "booted", "start", "stop",
                                                  "reload", "store", "restart", "stopall"}]
    BY <1>1, TaskTypes
  <2>2. starts' \in [Tasks -> SUBSET Ids]
    BY <1>1, TaskTypes
  <2>3. QED
    BY <1>1, <1>3, <2>1, <2>2 DEF IInv, TypeOK, rtVars, planVars, envVars
<1>5. pc[t] = "choose" /\ stops[t] = {}
  BY <1>1, TaskTypes DEF IInv, TaskInv, Stop, Start, AtStop, AtStart
<1>6. TaskInv(t)'
  BY <1>1, <1>2, <1>5 DEF TaskInv, AtStop, AtStart, Start, rtVars, planVars
<1>7. ASSUME NEW id \in Ids, Clean(id)
      PROVE  Clean(id)'
  <2>1. id \in Touches(t) /\ id \in Touches(t)'
    BY <1>1, <1>2 DEF Touches
  <2>2. Knows(t, id)
    BY <1>7, <2>1 DEF Clean
  <2>3. Knows(t, id)'
    BY <1>1, <1>2, <1>5, <2>2 DEF Knows, At, Start, planVars
  <2>4. Trading(id)' = Trading(id)
    BY <1>1, <1>3 DEF Trading, rtVars
  <2>5. instances[id] # 0 => byID'[id] = byID[id]
    BY <1>1, <1>5, <2>2 DEF Knows, InstanceChanged, At
  <2>6. QED
    BY <1>1, <1>2, <1>7, <2>1, <2>3, <2>4, <2>5, Touched DEF Clean, rtVars
<1>8. QED
  BY <1>1, <1>2, <1>4, <1>6, <1>7, LoopsStay, WorkKept DEF rtVars

LEMMA FinishKept ==
  ASSUME IInv, NEW t \in Tasks, Finish(t)
  PROVE  IInv'
<1>1. /\ op[t] \in {"boot", "start", "stop", "restart", "stopall"} /\ pc[t] = "choose"
      /\ stops[t] = {} /\ starts[t] = {}
      /\ op' = [op EXCEPT ![t] = IF op[t] = "boot" THEN "booted" ELSE "none"]
      /\ Idle(t)
      /\ UNCHANGED <<cfgVars, instances, rtVars, down, pc, stops, starts, envVars, clash>>
  BY DEF Finish
<1>2. /\ op'[t] \in {"booted", "none"} /\ Others(t)
  BY <1>1, TaskTypes DEF Others, Idle
<1>3. Registered' = Registered
  BY <1>1, SameRegistered DEF rtVars
<1>4. TypeOK'
  <2>1. NoConfig \in Configs
    BY DEF NoConfig, Configs, Values
  <2>2. 0 \in 0..Instruments
    BY LifecycleAssumption
  <2>3. TasksTyped
    BY <1>1, <1>3, <2>1, <2>2, TaskTypes DEF TasksTyped, Idle
  <2>4. RunnerTyped
    BY <1>1, <1>3 DEF IInv, TypeOK, RunnerTyped, cfgVars, rtVars, envVars
  <2>5. QED
    BY <2>3, <2>4, Typed
<1>5. TaskInv(t)'
  BY <1>1, <1>2 DEF TaskInv, AtStop, AtStart
<1>6. ASSUME NEW id \in Ids, Clean(id)
      PROVE  Clean(id)'
  <2>1. id \notin Touches(t)'
    BY <1>1, <1>2 DEF Touches
  <2>2. Trading(id)' = Trading(id)
    BY <1>1, <1>3 DEF Trading, rtVars
  <2>3. CASE id \in Touches(t)
    <3>1. strategiesCfg[id] = byID[id]
      BY <1>1, <1>6, <2>3 DEF Clean, Knows
    <3>2. QED
      BY <1>1, <1>2, <1>6, <2>1, <2>2, <2>3, <3>1, Touched DEF Clean, cfgVars, rtVars
  <2>4. CASE id \notin Touches(t)
    BY <1>1, <1>2, <1>6, <2>1, <2>2, <2>4, Untouched DEF cfgVars, rtVars
  <2>5. QED
    BY <2>3, <2>4
<1>7. QED
  BY <1>1, <1>2, <1>4, <1>5, <1>6, LoopsStay, WorkKept DEF rtVars

-----------------------------------------------------------------------------
(* StopInstance.                                                           *)

LEMMA StopLookupKept ==
  ASSUME IInv, NEW t \in Tasks, NEW x \in Ids, StopLookup(t, x)
  PROVE  IInv'
<1>1. /\ pc[t] = "choose" /\ x \in stops[t] /\ op[t] \in Stop
      /\ stops' = [stops EXCEPT ![t] = stops[t] \ {x}]
      /\ cur' = [cur EXCEPT ![t] = x]
      /\ UNCHANGED <<cfgVars, instances, inst, loops, retired, down, op, starts, planVars,
                     left, envVars, clash>>
  BY DEF StopLookup, IInv, TaskInv
<1>2. /\ stops'[t] = stops[t] \ {x} /\ cur'[t] = x
      /\ \/ /\ instances[x] # 0 /\ rt'[t] = instances[x] /\ pc'[t] = "wait"
            /\ rt' = [rt EXCEPT ![t] = instances[x]] /\ pc' = [pc EXCEPT ![t] = "wait"]
            /\ cancelled' = cancelled \cup {instances[x]}
         \/ instances[x] = 0 /\ rt' = rt /\ pc' = pc /\ cancelled' = cancelled
  BY <1>1, TaskTypes DEF StopLookup, Goto, InstanceRunning
<1>3. Others(t)
  BY <1>1, <1>2, TaskTypes DEF Others, planVars
<1>4. Registered' = Registered /\ instances[x] \in {0} \cup Registered /\ Registered \subseteq Runtimes
  BY <1>1, SameRegistered, TaskTypes DEF Registered
<1>5. TypeOK'
  <2>1. TasksTyped
    BY <1>1, <1>2, <1>4, TaskTypes DEF TasksTyped, planVars
  <2>2. RunnerTyped
    BY <1>1, <1>2, <1>4 DEF IInv, TypeOK, RunnerTyped, cfgVars, envVars
  <2>3. QED
    BY <2>1, <2>2, Typed
<1>6. TaskInv(t)'
  <2>1. TaskInv(t)
    BY DEF IInv
  <2>2. op[t] \notin Start
    BY <1>1 DEF Stop, Start
  <2>3. QED
    BY <1>1, <1>2, <2>1, <2>2 DEF TaskInv, AtStop, AtStart, planVars, Stop
<1>7. cancelled \subseteq cancelled'
  BY <1>2
<1>8. ASSUME NEW id \in Ids, Clean(id)
      PROVE  Clean(id)'
  <2>1. Trading(id)' \subseteq Trading(id)
    BY <1>1, <1>4, <1>7 DEF Trading
  <2>2. op[t] \notin {"store", "restart", "boot", "start"}
    BY <1>1 DEF Stop
  <2>3. CASE id \in Touches(t)
    <3>1. Knows(t, id)
      BY <1>8, <2>3 DEF Clean
    <3>2. Knows(t, id)'
      BY <1>1, <1>2, <2>2, <3>1 DEF Knows, At, Start, cfgVars, planVars
    <3>3. strategiesCfg[id] = byID[id]
      BY <2>2, <3>1 DEF Knows
    <3>4. QED
      BY <1>1, <1>3, <1>8, <2>1, <2>3, <3>2, <3>3, Touched DEF Clean, cfgVars
  <2>4. CASE id \notin Touches(t)
    <3>1. id \notin Touches(t)'
      BY <1>1, <1>2, <2>4 DEF Touches
    <3>2. QED
      BY <1>1, <1>3, <1>8, <2>1, <2>4, <3>1, Untouched DEF cfgVars
  <2>5. QED
    BY <2>3, <2>4
<1>9. QED
  BY <1>1, <1>2, <1>3, <1>5, <1>6, <1>7, <1>8, LoopsStay, WorkKept

LEMMA StopWaitKept ==
  ASSUME IInv, NEW t \in Tasks, StopWait(t)
  PROVE  IInv'
<1>1. /\ pc[t] = "wait" /\ pc' = [pc EXCEPT ![t] = "delete"] /\ pc'[t] = "delete"
      /\ retired' = retired \cup {rt[t]}
      /\ UNCHANGED <<cfgVars, instances, inst, loops, cancelled, down, op, stops, starts,
                     planVars, cur, rt, left, envVars, clash>>
  BY TaskTypes DEF StopWait, Goto
<1>2. Others(t)
  BY <1>1, TaskTypes DEF Others, planVars
<1>3. /\ Registered' = Registered /\ TaskInv(t)
      /\ rt[t] \in cancelled /\ cancelled \subseteq Runtimes
  BY <1>1, SameRegistered DEF IInv, TypeOK, TaskInv, AtStop
<1>4. TypeOK'
  <2>1. TasksTyped
    BY <1>1, <1>3, TaskTypes DEF TasksTyped, planVars
  <2>2. RunnerTyped
    BY <1>1, <1>3 DEF IInv, TypeOK, RunnerTyped, cfgVars, envVars
  <2>3. QED
    BY <2>1, <2>2, Typed
<1>5. TaskInv(t)'
  BY <1>1, <1>3 DEF TaskInv, AtStop, AtStart, planVars
<1>6. ASSUME NEW id \in Ids, Clean(id)
      PROVE  Clean(id)'
  <2>1. Trading(id)' = Trading(id)
    BY <1>1, <1>3 DEF Trading
  <2>2. id \in Touches(t)' <=> id \in Touches(t)
    BY <1>1 DEF Touches
  <2>3. CASE id \in Touches(t)
    <3>1. Knows(t, id)'
      BY <1>1, <1>6, <2>3 DEF Clean, Knows, At, cfgVars, planVars
    <3>2. QED
      BY <1>1, <1>2, <1>6, <2>1, <2>2, <2>3, <3>1, Touched DEF Clean, cfgVars
  <2>4. CASE id \notin Touches(t)
    BY <1>1, <1>2, <1>6, <2>1, <2>2, <2>4, Untouched DEF cfgVars
  <2>5. QED
    BY <2>3, <2>4
<1>7. QED
  BY <1>1, <1>2, <1>4, <1>5, <1>6, LoopsStay, WorkKept

\* The runtime that leaves the map was cancelled, so that none trades on.
LEMMA StopDeleteKept ==
  ASSUME IInv, NEW t \in Tasks, StopDelete(t)
  PROVE  IInv'
<1>1. /\ pc[t] = "delete" /\ pc' = [pc EXCEPT ![t] = "choose"] /\ pc'[t] = "choose"
      /\ UNCHANGED <<cfgVars, rtVars, down, op, stops, starts, planVars, cur, rt, left,
                     envVars, clash>>
  BY TaskTypes DEF StopDelete, Goto
<1>2. Others(t)
  BY <1>1, TaskTypes DEF Others, planVars
<1>3. /\ Registered' = Registered /\ TaskInv(t)
      /\ rt[t] \in cancelled /\ cur[t] \in Ids /\ op[t] \in Stop
  BY <1>1, SameRegistered DEF IInv, TypeOK, TaskInv, AtStop, rtVars
<1>4. /\ instances' = [instances EXCEPT ![cur[t]] = 0] /\ instances'[cur[t]] = 0
      /\ \A id \in Ids \ {cur[t]} : instances'[id] = instances[id]
      /\ instances' \in [Ids -> {0} \cup Registered]
  BY <1>3, TaskTypes DEF StopDelete, WithoutEntry
<1>5. TypeOK'
  <2>1. TasksTyped
    BY <1>1, <1>3, TaskTypes DEF TasksTyped, planVars
  <2>2. RunnerTyped
    BY <1>1, <1>3, <1>4 DEF IInv, TypeOK, RunnerTyped, cfgVars, rtVars, envVars
  <2>3. QED
    BY <2>1, <2>2, Typed
<1>6. TaskInv(t)'
  BY <1>1, <1>3 DEF TaskInv, AtStop, AtStart, planVars
<1>7. ASSUME NEW id \in Ids, Clean(id)
      PROVE  Clean(id)'
  <2>1. Trading(id)' = Trading(id)
    BY <1>1, <1>3 DEF Trading, rtVars
  <2>2. CASE id \in Touches(t)
    <3>1. Knows(t, id)
      BY <1>7, <2>2 DEF Clean
    <3>2. Knows(t, id)'
      BY <1>1, <1>3, <1>4, <3>1 DEF Knows, At, Stop, Start, cfgVars, planVars
    <3>3. id = cur[t] => instances[id] = rt[t]
      BY <1>1, <3>1 DEF Knows, At
    <3>4. Trading(id)' \subseteq {instances'[id]}
      <4>1. CASE id = cur[t]
        BY <1>3, <1>7, <2>1, <3>3, <4>1 DEF Clean, Trading
      <4>2. CASE id # cur[t]
        BY <1>4, <1>7, <2>1, <4>2 DEF Clean
      <4>3. QED
        BY <4>1, <4>2
    <3>5. instances'[id] # 0 => inst'[instances'[id]].cfg = byID'[id]
      BY <1>1, <1>4, <1>7 DEF Clean, cfgVars, rtVars
    <3>6. id \notin Touches(t)' => strategiesCfg'[id] = byID'[id]
      BY <1>1, <1>3, <3>1 DEF Knows, Stop, cfgVars
    <3>7. QED
      BY <1>2, <1>7, <2>2, <3>2, <3>4, <3>5, <3>6, Touched
  <2>3. CASE id \notin Touches(t)
    <3>1. id \notin Touches(t)' /\ id # cur[t]
      BY <1>1, <2>3 DEF Touches
    <3>2. QED
      BY <1>1, <1>2, <1>4, <1>7, <2>1, <2>3, <3>1, Untouched DEF cfgVars, rtVars
  <2>4. QED
    BY <2>2, <2>3
<1>8. QED
  BY <1>1, <1>2, <1>4, <1>5, <1>6, <1>7, LoopsStay, WorkKept DEF rtVars

-----------------------------------------------------------------------------
(* startInstance.                                                          *)

LEMMA StartNextKept ==
  ASSUME IInv, NEW t \in Tasks, NEW x \in Ids, StartNext(t, x)
  PROVE  IInv'
<1>1. /\ op[t] \in Start /\ pc[t] = "choose" /\ x \in starts[t]
      /\ starts' = [starts EXCEPT ![t] = starts[t] \ {x}] /\ starts'[t] = starts[t] \ {x}
      /\ UNCHANGED <<cfgVars, instances, rtVars, down, op, stops, planVars, rt, left,
                     envVars, clash>>
      /\ \/ op[t] = "restart" /\ cur' = cur /\ pc' = pc
         \/ /\ op[t] = "restart" => instances[x] = 0
            /\ cur' = [cur EXCEPT ![t] = x] /\ cur'[t] = x
            /\ pc' = [pc EXCEPT ![t] = "sync"] /\ pc'[t] = "sync"
  BY TaskTypes DEF StartNext, Goto, InstanceRunning, Start
<1>2. Others(t) /\ pc'[t] # "subscribe"
  BY <1>1, TaskTypes DEF Others, planVars
<1>3. Registered' = Registered /\ TaskInv(t)
  BY <1>1, SameRegistered DEF IInv, rtVars
<1>4. TypeOK'
  <2>1. TasksTyped
    BY <1>1, <1>3, TaskTypes DEF TasksTyped, planVars
  <2>2. RunnerTyped
    BY <1>1, <1>3 DEF IInv, TypeOK, RunnerTyped, cfgVars, rtVars, envVars
  <2>3. QED
    BY <2>1, <2>2, Typed
<1>5. TaskInv(t)'
  BY <1>1, <1>3 DEF TaskInv, AtStop, AtStart, planVars
<1>6. ASSUME NEW id \in Ids, Clean(id)
      PROVE  Clean(id)'
  <2>1. Trading(id)' = Trading(id)
    BY <1>1, <1>3 DEF Trading, rtVars
  <2>2. CASE id \in Touches(t)
    <3>1. Knows(t, id)
      BY <1>6, <2>2 DEF Clean
    <3>2. x = id => op[t] = "restart" \/ instances[id] = 0
      BY <1>1, <3>1 DEF Knows, Start
    <3>3. Knows(t, id)'
      BY <1>1, <3>1, <3>2 DEF Knows, At, Start, cfgVars, planVars
    <3>4. strategiesCfg[id] = byID[id]
      BY <1>1, <3>1 DEF Knows, Start
    <3>5. QED
      BY <1>1, <1>2, <1>6, <2>1, <2>2, <3>3, <3>4, Touched DEF Clean, cfgVars, rtVars
  <2>3. CASE id \notin Touches(t)
    <3>1. id \notin Touches(t)'
      BY <1>1, <2>3 DEF Touches
    <3>2. QED
      BY <1>1, <1>2, <1>6, <2>1, <2>3, <3>1, Untouched DEF cfgVars, rtVars
  <2>4. QED
    BY <2>2, <2>3
<1>7. QED
  BY <1>1, <1>2, <1>4, <1>5, <1>6, LoopsStay, WorkKept DEF rtVars

LEMMA FailType == ASSUME IInv, Fail PROVE failures' \in 0..MaxFailures
BY LifecycleAssumption DEF IInv, TypeOK, Fail

\* A start is given up; a runtime that leaves the map was cancelled.
LEMMA AbandonKept ==
  ASSUME IInv, NEW t \in Tasks, Abandon(t),
         UNCHANGED <<cfgVars, inst, loops, cancelled, stops, planVars, cur, rt, left,
                     requests, clash>>,
         retired' \subseteq Runtimes, failures' \in 0..MaxFailures,
         \/ pc[t] = "sync" /\ instances' = instances
         \/ pc[t] = "undo" /\ instances' = WithoutEntry(cur[t])
  PROVE  IInv'
<1>1. /\ pc' = [pc EXCEPT ![t] = "choose"] /\ pc'[t] = "choose"
      /\ \/ /\ op[t] = "boot" /\ down' = TRUE /\ op' = [op EXCEPT ![t] = "none"]
            /\ starts' = [starts EXCEPT ![t] = {}] /\ op'[t] = "none" /\ starts'[t] = {}
         \/ op[t] # "boot" /\ down' = down /\ op' = op /\ starts' = starts
  BY TaskTypes DEF Abandon, Goto
<1>2. Others(t)
  BY <1>1, TaskTypes DEF Others, planVars
<1>3. /\ Registered' = Registered /\ TaskInv(t) /\ cur[t] \in Ids /\ op[t] \in Start
      /\ stops[t] = {}
  BY SameRegistered DEF IInv, TypeOK, TaskInv, AtStart, Start, Stop
<1>4. /\ instances' \in [Ids -> {0} \cup Registered]
      /\ \A id \in Ids \ {cur[t]} : instances'[id] = instances[id]
      /\ \/ pc[t] = "sync" /\ instances' = instances
         \/ pc[t] = "undo" /\ instances'[cur[t]] = 0 /\ rt[t] \in cancelled
  BY <1>3, TaskTypes DEF WithoutEntry, TaskInv
<1>5. TypeOK'
  <2>1. TasksTyped
    BY <1>1, <1>3, TaskTypes DEF TasksTyped, planVars
  <2>2. RunnerTyped
    BY <1>1, <1>3, <1>4 DEF IInv, TypeOK, RunnerTyped, cfgVars
  <2>3. QED
    BY <2>1, <2>2, Typed
<1>6. TaskInv(t)'
  BY <1>1, <1>3 DEF TaskInv, AtStop, AtStart, planVars, Start, Stop
<1>7. ASSUME NEW id \in Ids, Clean(id)
      PROVE  Clean(id)'
  <2>1. Trading(id)' \subseteq Trading(id)
    BY <1>1, <1>3 DEF Trading, IInv, TypeOK
  <2>2. CASE id \in Touches(t)
    <3>1. Knows(t, id)
      BY <1>7, <2>2 DEF Clean
    <3>2. op[t] # "restart" /\ id \in starts'[t] => id # cur[t]
      BY <1>1, <1>3 DEF TaskInv, Start, AtStart
    <3>3. Knows(t, id)'
      BY <1>1, <1>3, <1>4, <3>1, <3>2 DEF Knows, At, Start, cfgVars, planVars
    <3>4. id = cur[t] => instances[id] = IF pc[t] = "sync" THEN 0 ELSE rt[t]
      BY <1>4, <3>1 DEF Knows, At
    <3>5. Trading(id)' \subseteq {instances'[id]}
      <4>1. CASE id = cur[t] /\ pc[t] = "undo"
        BY <1>4, <1>7, <2>1, <3>4, <4>1 DEF Clean, Trading
      <4>2. CASE id # cur[t] \/ pc[t] = "sync"
        BY <1>4, <1>7, <2>1, <4>2 DEF Clean
      <4>3. QED
        BY <1>4, <4>1, <4>2
    <3>6. instances'[id] # 0 => inst'[instances'[id]].cfg = byID'[id]
      BY <1>4, <1>7 DEF Clean, cfgVars
    <3>7. strategiesCfg'[id] = byID'[id]
      BY <1>3, <3>1 DEF Knows, Start, cfgVars
    <3>8. QED
      BY <1>2, <1>7, <2>2, <3>3, <3>5, <3>6, <3>7, Touched
  <2>3. CASE id \notin Touches(t)
    <3>1. id \notin Touches(t)' /\ id # cur[t]
      BY <1>1, <1>4, <2>3 DEF Touches
    <3>2. QED
      BY <1>2, <1>4, <1>7, <2>1, <2>3, <3>1, Untouched DEF cfgVars
  <2>4. QED
    BY <2>2, <2>3
<1>8. QED
  BY <1>1, <1>2, <1>4, <1>5, <1>6, <1>7, LoopsStay, WorkKept

LEMMA StartFailsKept ==
  ASSUME IInv, NEW t \in Tasks, StartFails(t)
  PROVE  IInv'
BY AbandonKept, FailType DEF StartFails, rtVars, IInv, TypeOK

LEMMA UndoStartKept ==
  ASSUME IInv, NEW t \in Tasks, UndoStart(t)
  PROVE  IInv'
<1>1. rt[t] \in Runtimes
  BY DEF UndoStart, IInv, TaskInv, Registered
<1>2. retired' \subseteq Runtimes /\ failures' \in 0..MaxFailures
  BY <1>1 DEF UndoStart, envVars, IInv, TypeOK
<1>3. QED
  BY <1>2, AbandonKept DEF UndoStart, envVars

LEMMA SubscribeKept ==
  ASSUME IInv, NEW t \in Tasks, Subscribe(t)
  PROVE  IInv'
<1>1. /\ pc[t] = "subscribe"
      /\ loops' = [loops EXCEPT ![rt[t]] = loops[rt[t]] + 1]
      /\ left' = [left EXCEPT ![t] = left[t] - 1] /\ left'[t] = left[t] - 1
      /\ pc' = [pc EXCEPT ![t] = IF left[t] = 1 THEN "choose" ELSE "subscribe"]
      /\ pc'[t] = IF left[t] = 1 THEN "choose" ELSE "subscribe"
      /\ UNCHANGED <<cfgVars, instances, inst, cancelled, retired, down, op, stops, starts,
                     planVars, cur, rt, envVars, clash>>
  BY TaskTypes DEF Subscribe, Goto, IsLast
<1>2. Others(t)
  BY <1>1, TaskTypes DEF Others, planVars
<1>3. /\ Registered' = Registered /\ TaskInv(t) /\ rt[t] \in Registered /\ rt[t] \in Runtimes
      /\ inst[rt[t]].id = cur[t] /\ cur[t] \in Ids /\ op[t] \in Start
      /\ left[t] > 0 /\ loops[rt[t]] + left[t] <= Instruments
      /\ left[t] \in 0..Instruments /\ loops[rt[t]] \in 0..Instruments
  BY <1>1, SameRegistered DEF IInv, TypeOK, TaskInv, AtStart, Registered
<1>4. /\ loops[rt[t]] + 1 \in 0..Instruments /\ left[t] - 1 \in 0..Instruments
      /\ loops' \in [Runtimes -> 0..Instruments] /\ loops'[rt[t]] = loops[rt[t]] + 1
      /\ \A r \in Runtimes \ {rt[t]} : loops'[r] = loops[r]
  <2>1. loops[rt[t]] + 1 \in 0..Instruments /\ left[t] - 1 \in 0..Instruments
    BY <1>3, LifecycleAssumption
  <2>2. loops \in [Runtimes -> 0..Instruments]
    BY DEF IInv, TypeOK
  <2>3. QED
    BY <1>1, <1>3, <2>1, <2>2
<1>5. TypeOK'
  <2>1. TasksTyped
    BY <1>1, <1>3, <1>4, TaskTypes DEF TasksTyped, planVars
  <2>2. RunnerTyped
    BY <1>1, <1>3, <1>4 DEF IInv, TypeOK, RunnerTyped, cfgVars, envVars
  <2>3. QED
    BY <2>1, <2>2, Typed
<1>6. TaskInv(t)'
  <2>1. pc'[t] = "subscribe" => left'[t] > 0
    BY <1>1, <1>3, LifecycleAssumption
  <2>2. loops'[rt[t]] + left'[t] <= Instruments
    BY <1>1, <1>3, <1>4, LifecycleAssumption
  <2>3. QED
    BY <1>1, <1>3, <2>1, <2>2 DEF TaskInv, AtStop, AtStart, planVars
<1>7. \A r \in Registered : loops'[r] <= loops[r] \/ r = rt[t]
  <2>1. \A r \in Registered : r \in Runtimes /\ loops[r] \in 0..Instruments
    BY DEF IInv, TypeOK, Registered
  <2>2. QED
    BY <1>4, <2>1, LifecycleAssumption
<1>8. \A r \in Runtimes \ Registered : loops'[r] = 0
  BY <1>3, <1>4 DEF IInv, RuntimeInv
<1>9. ASSUME NEW id \in Ids, Clean(id)
      PROVE  Clean(id)'
  <2>1. Trading(id)' \subseteq Trading(id) \cup (IF id = cur[t] THEN {rt[t]} ELSE {})
    BY <1>1, <1>3, <1>4 DEF Trading, Registered
  <2>2. CASE id \in Touches(t)
    <3>1. Knows(t, id)
      BY <1>9, <2>2 DEF Clean
    <3>2. Knows(t, id)'
      BY <1>1, <1>3, <3>1 DEF Knows, At, Start, cfgVars, planVars
    <3>3. id = cur[t] => instances[id] = rt[t]
      BY <1>1, <3>1 DEF Knows, At
    <3>4. Trading(id)' \subseteq {instances'[id]}
      BY <1>1, <1>9, <2>1, <3>3 DEF Clean
    <3>5. strategiesCfg[id] = byID[id]
      BY <1>3, <3>1 DEF Knows, Start
    <3>6. QED
      BY <1>1, <1>2, <1>9, <2>2, <3>2, <3>4, <3>5, Touched DEF Clean, cfgVars
  <2>3. CASE id \notin Touches(t)
    <3>1. id \notin Touches(t)' /\ id # cur[t]
      BY <1>1, <2>3 DEF Touches
    <3>2. QED
      BY <1>1, <1>2, <1>9, <2>1, <2>3, <3>1, Untouched DEF cfgVars
  <2>4. QED
    BY <2>2, <2>3
<1>10. QED
  BY <1>1, <1>2, <1>5, <1>6, <1>7, <1>8, <1>9, WorkKept

LEMMA SubscribeFailsKept ==
  ASSUME IInv, NEW t \in Tasks, SubscribeFails(t)
  PROVE  IInv'
<1>1. /\ pc[t] = "subscribe" /\ pc' = [pc EXCEPT ![t] = "undo"] /\ pc'[t] = "undo"
      /\ cancelled' = cancelled \cup {rt[t]} /\ failures' \in 0..MaxFailures
      /\ UNCHANGED <<cfgVars, instances, inst, loops, retired, down, op, stops, starts,
                     planVars, cur, rt, left, requests, clash>>
  BY TaskTypes, FailType DEF SubscribeFails, Goto
<1>2. Others(t)
  BY <1>1, TaskTypes DEF Others, planVars
<1>3. /\ Registered' = Registered /\ TaskInv(t) /\ rt[t] \in Runtimes /\ op[t] \in Start
  BY <1>1, SameRegistered DEF IInv, TaskInv, AtStart, Registered
<1>4. TypeOK'
  <2>1. TasksTyped
    BY <1>1, <1>3, TaskTypes DEF TasksTyped, planVars
  <2>2. RunnerTyped
    BY <1>1, <1>3 DEF IInv, TypeOK, RunnerTyped, cfgVars
  <2>3. QED
    BY <2>1, <2>2, Typed
<1>5. TaskInv(t)'
  BY <1>1, <1>3 DEF TaskInv, AtStop, AtStart, planVars
<1>6. ASSUME NEW id \in Ids, Clean(id)
      PROVE  Clean(id)'
  <2>1. Trading(id)' \subseteq Trading(id)
    BY <1>1, <1>3 DEF Trading
  <2>2. id \in Touches(t)' <=> id \in Touches(t)
    BY <1>1 DEF Touches
  <2>3. CASE id \in Touches(t)
    <3>1. Knows(t, id)'
      BY <1>1, <1>6, <2>3 DEF Clean, Knows, At, cfgVars, planVars
    <3>2. QED
      BY <1>1, <1>2, <1>6, <2>1, <2>2, <2>3, <3>1, Touched DEF Clean, cfgVars
  <2>4. CASE id \notin Touches(t)
    BY <1>1, <1>2, <1>6, <2>1, <2>2, <2>4, Untouched DEF cfgVars
  <2>5. QED
    BY <2>3, <2>4
<1>7. QED
  BY <1>1, <1>2, <1>4, <1>5, <1>6, LoopsStay, WorkKept

\* The runtime handed out is the one after those in use.
LEMMA NextRegistered ==
  ASSUME IInv, NEW n \in 0..MaxStarts, Registered = 1..n, NEW t \in Tasks, Register(t)
  PROVE  /\ NextRuntime = n + 1 /\ NextRuntime \notin Registered
         /\ NextRuntime \in Runtimes /\ n + 1 \in 0..MaxStarts
         /\ Registered' = Registered \cup {NextRuntime}
         /\ Registered' = 1..(n + 1)
<1>1. n \in Nat /\ MaxStarts \in Nat
  BY LifecycleAssumption
<1>2. Cardinality(1..n) = n
  <2>1. IF 1 > n THEN Cardinality(1..n) = 0 ELSE Cardinality(1..n) = n - 1 + 1
    BY <1>1, FS_Interval
  <2>2. QED
    BY <1>1, <2>1
<1>3. NextRuntime = n + 1 /\ NextRuntime \in 1..MaxStarts
  BY <1>2 DEF NextRuntime, Register, Runtimes
<1>4. NextRuntime \notin Registered /\ n + 1 \in 0..MaxStarts
  BY <1>1, <1>3
<1>5. Registered' = Registered \cup {NextRuntime}
  <2>1. inst \in [Runtimes -> [id : Ids, cfg : Variants] \cup {Unused}]
    BY DEF IInv, TypeOK
  <2>2. /\ inst' = [inst EXCEPT ![NextRuntime] = [id |-> cur[t], cfg |-> plan[t][cur[t]]]]
        /\ NextRuntime \in Runtimes /\ plan[t][cur[t]] \in Variants
    BY DEF Register, IInv, TaskInv, Enabled
  <2>3. [id |-> cur[t], cfg |-> plan[t][cur[t]]] # Unused
    BY <2>2, LifecycleAssumption DEF Unused
  <2>4. QED
    BY <2>1, <2>2, <2>3 DEF Registered
<1>6. 1..(n + 1) = (1..n) \cup {n + 1}
  BY <1>1
<1>7. QED
  BY <1>3, <1>4, <1>5, <1>6 DEF Runtimes

LEMMA RegisterKept ==
  ASSUME IInv, NEW t \in Tasks, Register(t)
  PROVE  IInv'
<1> DEFINE new == NextRuntime
<1>1. PICK n \in 0..MaxStarts : Registered = 1..n
  BY DEF IInv, RuntimeInv
<1>2. /\ new \notin Registered /\ new \in Runtimes /\ new # 0 /\ n + 1 \in 0..MaxStarts
      /\ Registered' = Registered \cup {new} /\ Registered' = 1..(n + 1)
  BY <1>1, NextRegistered DEF Runtimes
<1>3. /\ pc[t] = "sync" /\ pc' = [pc EXCEPT ![t] = "subscribe"] /\ pc'[t] = "subscribe"
      /\ inst' = [inst EXCEPT ![new] = [id |-> cur[t], cfg |-> plan[t][cur[t]]]]
      /\ instances' = [instances EXCEPT ![cur[t]] = new]
      /\ rt' = [rt EXCEPT ![t] = new] /\ rt'[t] = new
      /\ left' = [left EXCEPT ![t] = Instruments] /\ left'[t] = Instruments
      /\ UNCHANGED <<cfgVars, loops, cancelled, retired, down, op, stops, starts, planVars,
                     cur, envVars, clash>>
  BY TaskTypes DEF Register, Goto
<1>4. Others(t)
  BY <1>3, TaskTypes DEF Others, planVars
<1>5. /\ TaskInv(t) /\ cur[t] \in Ids /\ op[t] \in Start /\ plan[t][cur[t]] \in Variants
      /\ stops[t] = {}
  BY <1>3 DEF IInv, TaskInv, AtStart, Enabled, Start, Stop
<1>6. /\ inst'[new] = [id |-> cur[t], cfg |-> plan[t][cur[t]]]
      /\ \A r \in Runtimes \ {new} : inst'[r] = inst[r]
      /\ inst' \in [Runtimes -> [id : Ids, cfg : Variants] \cup {Unused}]
  <2>1. inst \in [Runtimes -> [id : Ids, cfg : Variants] \cup {Unused}]
    BY DEF IInv, TypeOK
  <2>2. QED
    BY <1>2, <1>3, <1>5, <2>1
<1>7. /\ instances'[cur[t]] = new
      /\ \A id \in Ids \ {cur[t]} : instances'[id] = instances[id]
      /\ instances' \in [Ids -> {0} \cup Registered']
  BY <1>2, <1>3, <1>5, TaskTypes
<1>8. \A r \in Registered : r \in Runtimes /\ inst'[r] = inst[r]
  BY <1>2, <1>6 DEF Registered
<1>9. TypeOK'
  <2>1. Instruments \in 0..Instruments
    BY LifecycleAssumption
  <2>2. TasksTyped
    BY <1>2, <1>3, <2>1, TaskTypes DEF TasksTyped, planVars
  <2>3. RunnerTyped
    BY <1>3, <1>6, <1>7 DEF IInv, TypeOK, RunnerTyped, cfgVars, envVars
  <2>4. QED
    BY <2>2, <2>3, Typed
<1>10. loops[new] = 0
  BY <1>2 DEF IInv, RuntimeInv
<1>11. TaskInv(t)'
  <2>1. left'[t] > 0 /\ loops'[rt'[t]] + left'[t] <= Instruments
    BY <1>3, <1>10, LifecycleAssumption
  <2>2. rt'[t] \in Registered' /\ inst'[rt'[t]].id = cur'[t]
    BY <1>2, <1>3, <1>6
  <2>3. QED
    BY <1>3, <1>5, <2>1, <2>2 DEF TaskInv, AtStop, AtStart, planVars
<1>12. \A u \in Tasks : TaskInv(u)'
  BY <1>2, <1>3, <1>4, <1>8, <1>9, <1>11, LoopsStay, OthersInv DEF TypeOK
<1>13. RuntimeInv'
  <2>1. \A u \in Tasks \ {t} :
          /\ pc'[u] = pc[u] /\ rt'[u] = rt[u]
          /\ pc[u] = "subscribe" => rt[u] # new
    BY <1>2, <1>4 DEF Others, IInv, TaskInv
  <2>2. \A u, v \in Tasks :
          pc'[u] = "subscribe" /\ pc'[v] = "subscribe" /\ rt'[u] = rt'[v] => u = v
    BY <1>3, <2>1 DEF IInv, RuntimeInv
  <2>3. \A r \in Runtimes \ Registered' : loops'[r] = 0
    BY <1>2, <1>3 DEF IInv, RuntimeInv
  <2>4. \A id \in Ids : instances'[id] # 0 => inst'[instances'[id]].id = id
    <3>1. SUFFICES ASSUME NEW id \in Ids, instances'[id] # 0
                   PROVE  inst'[instances'[id]].id = id
      OBVIOUS
    <3>2. CASE id = cur[t]
      BY <1>6, <1>7, <3>2
    <3>3. CASE id # cur[t]
      <4>1. instances[id] \in Registered /\ instances'[id] = instances[id]
        BY <1>7, <3>1, <3>3, TaskTypes
      <4>2. inst[instances[id]].id = id
        BY <3>1, <4>1 DEF IInv, RuntimeInv
      <4>3. QED
        BY <1>8, <4>1, <4>2
    <3>4. QED
      BY <3>2, <3>3
  <2>5. QED
    BY <1>2, <2>2, <2>3, <2>4 DEF RuntimeInv
<1>14. ASSUME NEW id \in Ids, Clean(id)
       PROVE  Clean(id)'
  <2>1. Trading(id)' \subseteq Trading(id)
    BY <1>2, <1>3, <1>8, <1>10 DEF Trading
  <2>2. CASE id \in Touches(t)
    <3>1. Knows(t, id)
      BY <1>14, <2>2 DEF Clean
    <3>2. id = cur[t] => instances[id] = 0
      BY <1>3, <3>1 DEF Knows, At
    <3>3. op[t] \in {"boot", "start"} /\ id \in starts[t] => id # cur[t]
      BY <1>3, <1>5 DEF TaskInv, AtStart
    <3>4. Knows(t, id)'
      BY <1>3, <1>5, <1>7, <3>1, <3>3 DEF Knows, At, Start, cfgVars, planVars
    <3>5. Trading(id)' \subseteq {instances'[id]}
      <4>1. CASE id = cur[t]
        <5>1. Trading(id) = {}
          <6>1. 0 \notin Registered
            BY DEF Registered, Runtimes
          <6>2. QED
            BY <1>14, <3>2, <4>1, <6>1 DEF Clean, Trading
        <5>2. QED
          BY <2>1, <5>1
      <4>2. CASE id # cur[t]
        BY <1>7, <1>14, <2>1, <4>2 DEF Clean
      <4>3. QED
        BY <4>1, <4>2
    <3>6. instances'[id] # 0 => inst'[instances'[id]].cfg = byID'[id]
      <4>1. CASE id = cur[t]
        BY <1>3, <1>5, <1>6, <1>7, <3>1, <4>1 DEF Knows, cfgVars
      <4>2. CASE id # cur[t]
        <5>1. SUFFICES ASSUME instances[id] # 0
                       PROVE  inst'[instances[id]].cfg = byID[id]
          BY <1>3, <1>7, <4>2 DEF cfgVars
        <5>2. instances[id] \in Registered /\ inst[instances[id]].cfg = byID[id]
          BY <1>14, <5>1, TaskTypes DEF Clean
        <5>3. QED
          BY <1>8, <5>2
      <4>3. QED
        BY <4>1, <4>2
    <3>7. strategiesCfg'[id] = byID'[id]
      BY <1>3, <1>5, <3>1 DEF Knows, Start, cfgVars
    <3>8. QED
      BY <1>4, <1>14, <2>2, <3>4, <3>5, <3>6, <3>7, Touched
  <2>3. CASE id \notin Touches(t)
    <3>1. id \notin Touches(t)' /\ id # cur[t]
      BY <1>3, <2>3 DEF Touches
    <3>2. instances[id] # 0 => inst'[instances[id]] = inst[instances[id]]
      BY <1>8, TaskTypes
    <3>3. QED
      BY <1>3, <1>4, <1>7, <1>14, <2>1, <2>3, <3>1, <3>2, Untouched DEF cfgVars
  <2>4. QED
    BY <2>2, <2>3
<1>15. QED
  BY <1>3, <1>9, <1>12, <1>13, <1>14 DEF IInv

-----------------------------------------------------------------------------
(* Steps of no task: the end of a candle goroutine, and of the process.    *)

LEMMA ShrinkKept ==
  ASSUME IInv, TypeOK',
         UNCHANGED <<cfgVars, instances, inst, cancelled, taskVars, clash>>,
         \A r \in Runtimes : loops'[r] <= loops[r],
         down => down'
  PROVE  IInv'
<1>1. Registered' = Registered
  BY SameRegistered
<1>2. \A r \in Runtimes : loops[r] \in 0..Instruments /\ loops'[r] \in 0..Instruments
  BY DEF IInv, TypeOK
<1>3. ASSUME NEW u \in Tasks
      PROVE  TaskInv(u)'
  <2>1. TaskInv(u)
    BY DEF IInv
  <2>2. pc[u] = "subscribe" => loops'[rt[u]] + left[u] <= Instruments
    <3>1. SUFFICES ASSUME pc[u] = "subscribe"
                   PROVE  loops'[rt[u]] + left[u] <= Instruments
      OBVIOUS
    <3>2. rt[u] \in Runtimes /\ loops[rt[u]] + left[u] <= Instruments
      BY <2>1, <3>1 DEF TaskInv, Registered
    <3>3. loops'[rt[u]] <= loops[rt[u]] /\ left[u] \in 0..Instruments
      BY <3>2, TaskTypes
    <3>4. QED
      BY <1>2, <3>2, <3>3, LifecycleAssumption
  <2>3. QED
    BY <1>1, <2>1, <2>2 DEF TaskInv, taskVars, planVars
<1>4. RuntimeInv'
  <2>1. ASSUME NEW r \in Runtimes \ Registered
        PROVE  loops'[r] = 0
    <3>1. loops[r] = 0 /\ loops'[r] <= loops[r] /\ loops'[r] \in 0..Instruments
      BY <1>2 DEF IInv, RuntimeInv
    <3>2. QED
      BY <3>1, LifecycleAssumption
  <2>2. QED
    BY <1>1, <2>1 DEF IInv, RuntimeInv, taskVars
<1>5. ASSUME NEW id \in Ids, Clean(id)
      PROVE  Clean(id)'
  <2>1. Trading(id)' \subseteq Trading(id)
    <3>1. \A r \in Runtimes : loops'[r] > 0 => loops[r] > 0
      BY <1>2, LifecycleAssumption
    <3>2. QED
      BY <1>1, <3>1 DEF Trading, Registered
  <2>2. \A u \in Tasks : Touches(u)' = Touches(u)
    BY DEF Touches, taskVars
  <2>3. \A u \in Tasks : Knows(u, id) => Knows(u, id)'
    BY DEF Knows, At, taskVars, planVars, cfgVars
  <2>4. QED
    BY <1>5, <2>1, <2>2, <2>3 DEF Clean, cfgVars
<1>6. QED
  BY <1>3, <1>4, <1>5 DEF IInv

LEMMA LoopEndsKept ==
  ASSUME IInv, NEW r \in Runtimes, LoopEnds(r)
  PROVE  IInv'
<1>1. /\ loops[r] > 0 /\ loops' = [loops EXCEPT ![r] = loops[r] - 1]
      /\ loops \in [Runtimes -> 0..Instruments]
      /\ UNCHANGED <<cfgVars, instances, inst, cancelled, retired, down, taskVars, envVars,
                     clash>>
  BY DEF LoopEnds, IInv, TypeOK
<1>2. loops[r] - 1 \in 0..Instruments /\ loops[r] - 1 <= loops[r]
  BY <1>1, LifecycleAssumption
<1>3. /\ loops' \in [Runtimes -> 0..Instruments]
      /\ \A s \in Runtimes : loops'[s] <= loops[s]
  <2>1. \A s \in Runtimes : loops[s] \in 0..Instruments
    BY <1>1
  <2>2. QED
    BY <1>1, <1>2, <2>1, LifecycleAssumption
<1>4. TypeOK'
  BY <1>1, <1>3, SameRegistered DEF IInv, TypeOK, cfgVars, taskVars, planVars, envVars
<1>5. QED
  BY <1>1, <1>3, <1>4, ShrinkKept

LEMMA SameLoops ==
  ASSUME IInv, loops' = loops
  PROVE  \A r \in Runtimes : loops'[r] <= loops[r]
<1>1. \A r \in Runtimes : loops[r] \in 0..Instruments
  BY DEF IInv, TypeOK
<1>2. QED
  BY <1>1, LifecycleAssumption

LEMMA ShutdownKept ==
  ASSUME IInv, Shutdown
  PROVE  IInv'
<1>1. UNCHANGED <<cfgVars, instances, rtVars, taskVars, envVars, clash>> /\ down' = TRUE
  BY DEF Shutdown
<1>2. TypeOK'
  BY <1>1, SameRegistered
     DEF IInv, TypeOK, cfgVars, rtVars, taskVars, planVars, envVars
<1>3. QED
  BY <1>1, <1>2, SameLoops, ShrinkKept DEF rtVars

LEMMA StutterKept ==
  ASSUME IInv, UNCHANGED vars
  PROVE  IInv'
<1>1. UNCHANGED <<cfgVars, instances, rtVars, down, taskVars, envVars, clash>>
  BY DEF vars
<1>2. TypeOK'
  BY <1>1, SameRegistered
     DEF IInv, TypeOK, cfgVars, rtVars, taskVars, planVars, envVars
<1>3. QED
  BY <1>1, <1>2, SameLoops, ShrinkKept DEF rtVars

-----------------------------------------------------------------------------
(* The theorems.                                                           *)

LEMMA InitIInv == Init => IInv
<1> SUFFICES ASSUME Init PROVE IInv
  OBVIOUS
<1> USE DEF Init
<1>1. Registered = {}
  BY DEF Registered
<1>2. NoConfig \in Configs /\ AtBoot \in Configs /\ 0 \in 0..Instruments
      /\ 0 \in 0..MaxRequests /\ 0 \in 0..MaxFailures
  BY LifecycleAssumption DEF NoConfig, Configs, Values
<1>3. TypeOK
  BY <1>2 DEF TypeOK
<1>4. \A t \in Tasks : TaskInv(t)
  BY <1>1 DEF TaskInv, Stop, Start, AtStop, AtStart, Boot
<1>5. RuntimeInv
  <2>1. 1..0 = {} /\ 0 \in 0..MaxStarts
    BY LifecycleAssumption
  <2>2. QED
    BY <1>1, <2>1 DEF RuntimeInv
<1>6. ASSUME NEW id \in Ids
      PROVE  Clean(id)
  <2>1. \A t \in Tasks \ {Boot} : Touches(t) = {}
    BY DEF Touches, Boot
  <2>2. \A t \in Tasks : id \in Touches(t) => t = Boot
    BY <2>1
  <2>3. Knows(Boot, id)
    BY TaskNames DEF Knows, At, Start, Boot
  <2>4. Trading(id) = {}
    BY <1>1 DEF Trading
  <2>5. QED
    BY <2>2, <2>3, <2>4 DEF Clean
<1>7. QED
  BY <1>3, <1>4, <1>5, <1>6 DEF IInv

LEMMA NextIInv == IInv /\ [Next]_vars => IInv'
<1> SUFFICES ASSUME IInv, [Next]_vars PROVE IInv'
  OBVIOUS
<1>1. CASE Request
  BY <1>1, StartInstanceByIDKept, RequestStopKept, ReloadConfigKept DEF Request
<1>2. ASSUME NEW t \in Tasks, Work(t)
      PROVE  IInv'
  <2>1. CASE Stopping(t)
    BY <2>1, StopWaitKept, StopDeleteKept, StopLookupKept DEF Stopping
  <2>2. CASE Starting(t)
    BY <2>2, StartFailsKept, RegisterKept, SubscribeKept, SubscribeFailsKept, UndoStartKept,
       StartNextKept DEF Starting
  <2>3. CASE StoreConfig(t) \/ StoreByID(t) \/ Finish(t)
    BY <2>3, StoreConfigKept, StoreByIDKept, FinishKept
  <2>4. QED
    BY <1>2, <2>1, <2>2, <2>3 DEF Work
<1>3. QED
  BY <1>1, <1>2, ShutdownKept, StopAllKept, LoopEndsKept, StutterKept DEF Next

\* Whatever the management handlers, the watchdog, the boot and the shutdown do,
\* the invariant above holds of Runner's maps and of each task's place in
\* startInstance, StopInstance and ReloadConfig.
THEOREM Invariant == Spec => []IInv
BY InitIInv, NextIInv, PTL DEF Spec

\* The types of Runner's maps, of its runtimes and of what the tasks have in hand.
THEOREM TypeCorrect == Spec => []TypeOK
<1>1. IInv => TypeOK
  BY DEF IInv
<1>2. QED
  BY <1>1, Invariant, PTL

\* An instance no two tasks were at work on at once is traded by at most one
\* runtime, the one Runner.instances holds (startInstance, StopInstance).
THEOREM OneTrades == Spec => []OneRuntime
<1>1. IInv => OneRuntime
  BY DEF IInv, Clean, OneRuntime
<1>2. QED
  BY <1>1, Invariant, PTL

\* Such an instance, when it is at rest and in the map, runs with the
\* configuration that byID holds, after any number of reloads (ReloadConfig).
THEOREM CurrentConfig == Spec => []RunsCurrentConfig
<1>1. IInv => RunsCurrentConfig
  BY DEF IInv, Clean, RunsCurrentConfig, InstanceRunning
<1>2. QED
  BY <1>1, Invariant, PTL
=============================================================================
