------------------------------- MODULE Engine -------------------------------
(***************************************************************************)
(* The compose engine (compose/engine.go): agents run layer by layer, the  *)
(* agents of a layer in goroutines of their own, each one fed with the     *)
(* outputs of the agents it depends on.  Execute starts at the first       *)
(* layer; ExecuteFromNode starts after the layer of an agent that was      *)
(* resumed by itself.                                                      *)
(*                                                                         *)
(* One action is one look at the next layer, one step of an agent's        *)
(* goroutine, one change of an agent's process, or the collection of a     *)
(* layer's results.  An agent's goroutine learns of its process through    *)
(* the first value of Done, whoever sends it; that the stream from the     *)
(* daemon carries that value to the engine is taken for granted.           *)
(***************************************************************************)
EXTENDS Integers, FiniteSets

CONSTANTS
    Agents,
    Graphs,     \* the dependency graphs to run: agent -> the agents it depends on
    Budget      \* tokens in the pool; an agent uses none or one

\* The layer of each agent: one more than the last layer it depends on.
IsLayering(g, level) ==
    \A n \in Agents :
        /\ \A d \in g[n] : level[d] < level[n]
        /\ level[n] > 1 => \E d \in g[n] : level[d] = level[n] - 1

\* A graph with a cycle is refused before anything runs.
ASSUME GraphsAssumption ==
    /\ IsFiniteSet(Agents)
    /\ \A g \in Graphs :
         /\ g \in [Agents -> SUBSET Agents]
         /\ \E level \in [Agents -> 1..Cardinality(Agents)] : IsLayering(g, level)

ASSUME BudgetAssumption == Budget \in Nat

VARIABLES
    deps,       \* the graph this engine was built from
    resumed,    \* the agent ExecuteFromNode was called for, as a set; {} for Execute
    seen,       \* agents of the layers before the current one
    layer,      \* agents of the current layer
    thread,     \* agent -> where its goroutine is
    proc,       \* agent -> its process
    told,       \* agent -> what the first value in its process's Done says
    prompt,     \* agent -> dependencies whose output it was given
    outcome,    \* agent -> its entry of layerResults
    result,     \* agent -> its entry of resultMap
    used,       \* tokens recorded in the budget pool
    phase,      \* where runLayers is
    cancelled   \* ctx is done

engineVars == <<deps, resumed, seen, layer, thread, proc, told, prompt, outcome,
                result, used, phase, cancelled>>

Outcomes == {"ok", "failed", "skipped", "exhausted", "cancelled"}

\* Mutant: a layer holds whatever depends on something that is sorted already.
NextLayerAny(before) ==
    {n \in Agents \ before : deps[n] = {} \/ deps[n] \intersect before # {}}

\* Kahn's algorithm: the agents whose in-degree the layers so far bring to 0.
NextLayer(before) == {n \in Agents \ before : deps[n] \subseteq before}

Layering == CHOOSE level \in [Agents -> 1..Cardinality(Agents)] : IsLayering(deps, level)

\* The layers up to and including that of agent r.
ThroughLayerOf(r) == LET level == Layering IN {n \in Agents : level[n] <= level[r]}

\* What r depends on, directly or not.
TransitiveUpstream(r) ==
    {n \in Agents : \A S \in SUBSET Agents :
        deps[r] \subseteq S /\ (\A m \in S : deps[m] \subseteq S) => n \in S}

\* A resume needs a history for everything upstream and is given no other.
Seeded == resumed \union UNION {TransitiveUpstream(r) : r \in resumed}

EngineInit ==
    /\ deps \in Graphs
    /\ resumed \in {{}} \union {{r} : r \in Agents}
    /\ seen = UNION {ThroughLayerOf(r) : r \in resumed}
    /\ layer = {}
    /\ thread = [n \in Agents |-> "none"]
    /\ proc = [n \in Agents |-> IF n \in Seeded THEN "ok" ELSE "none"]
    /\ told = proc
    /\ prompt = [n \in Agents |-> {}]
    /\ outcome = [n \in Agents |-> "none"]
    /\ result = [n \in Agents |-> IF n \in Seeded THEN "ok" ELSE "none"]
    /\ used = 0
    /\ phase = "layers"
    /\ cancelled = FALSE

-----------------------------------------------------------------------------
\* Between layers: the context, the budget, then the next layer.
Stop ==
    /\ phase = "layers"
    /\ cancelled \/ NextLayer(seen) = {}
    /\ phase' = "over"
    /\ UNCHANGED <<deps, resumed, seen, layer, thread, proc, told, prompt, outcome, result, used, cancelled>>

Exhausted ==
    /\ phase = "layers" /\ ~cancelled
    /\ NextLayer(seen) # {} /\ used >= Budget
    /\ result' = [n \in Agents |-> IF n \notin seen /\ result[n] = "none"
                                   THEN "exhausted" ELSE result[n]]
    /\ phase' = "over"
    /\ UNCHANGED <<deps, resumed, seen, layer, thread, proc, told, prompt, outcome, used, cancelled>>

\* An agent without a result counts as one that succeeded.
DepsFailed(n) == \E d \in deps[n] : result[d] \notin {"none", "ok"}

StartLayer ==
    /\ phase = "layers" /\ ~cancelled
    /\ NextLayer(seen) # {} /\ used < Budget
    /\ layer' = NextLayer(seen)
    /\ thread' = [n \in Agents |-> IF n \in layer' /\ ~DepsFailed(n) THEN "spawn" ELSE "none"]
    /\ outcome' = [n \in Agents |-> IF n \in layer' /\ DepsFailed(n) THEN "skipped" ELSE "none"]
    /\ phase' = "waiting"
    /\ UNCHANGED <<deps, resumed, seen, proc, told, prompt, result, used, cancelled>>

-----------------------------------------------------------------------------
(* executeNode, in the goroutine of agent n.                                *)

Return(n, o) ==
    /\ thread' = [thread EXCEPT ![n] = "none"]
    /\ outcome' = [outcome EXCEPT ![n] = o]

\* The agent cannot be loaded, or its process not spawned.
SpawnFails(n) ==
    /\ thread[n] = "spawn"
    /\ Return(n, "failed")
    /\ UNCHANGED <<deps, resumed, seen, layer, proc, told, prompt, result, used, phase, cancelled>>

\* The prompt takes the output of each dependency whose PID is known.
SpawnAgent(n) ==
    /\ thread[n] = "spawn"
    /\ prompt' = [prompt EXCEPT ![n] = {d \in deps[n] : proc[d] # "none"}]
    /\ proc' = [proc EXCEPT ![n] = "running"]
    /\ thread' = [thread EXCEPT ![n] = "wait"]
    /\ UNCHANGED <<deps, resumed, seen, layer, told, outcome, result, used, phase, cancelled>>

\* Done has room for one value: what is there when the next one comes stays.
Says(n, x) ==
    /\ told' = [told EXCEPT ![n] = IF @ = "none" THEN x ELSE @]
    /\ UNCHANGED <<deps, resumed, seen, layer, thread, prompt, outcome, result, used, phase, cancelled>>

\* A suspended process can only be killed.
ProcessEnds(n) ==
    /\ proc[n] \in {"running", "suspended"}
    /\ \E x \in {"ok", "failed"} :
         /\ proc[n] = "suspended" => x = "failed"
         /\ proc' = [proc EXCEPT ![n] = x]
         /\ Says(n, x)

\* For quota, by a pause or with the daemon's shutdown: the exit code that
\* Done is sent is that of a failure.
Suspends(n) ==
    /\ proc[n] = "running"
    /\ proc' = [proc EXCEPT ![n] = "suspended"]
    /\ Says(n, "failed")

\* A resume, or the quota watch; nobody tells the engine.
Wakes(n) ==
    /\ proc[n] = "suspended"
    /\ proc' = [proc EXCEPT ![n] = "running"]
    /\ UNCHANGED <<deps, resumed, seen, layer, thread, told, prompt, outcome, result, used, phase, cancelled>>

Waited(n) ==
    /\ thread[n] = "wait" /\ told[n] # "none"
    /\ Return(n, told[n])
    /\ UNCHANGED <<deps, resumed, seen, layer, proc, told, prompt, result, used, phase, cancelled>>

\* A cancelled wait leaves the process to itself.
WaitCancelled(n) ==
    /\ thread[n] = "wait" /\ cancelled
    /\ Return(n, "cancelled")
    /\ UNCHANGED <<deps, resumed, seen, layer, proc, told, prompt, result, used, phase, cancelled>>

-----------------------------------------------------------------------------
\* Mutant: the results of a layer are taken before all of it has returned.
CollectEarly ==
    /\ phase = "waiting"
    /\ \E n \in layer : thread[n] = "none"
    /\ result' = [n \in Agents |-> IF n \in layer THEN outcome[n] ELSE result[n]]
    /\ used' \in used..(used + Cardinality({n \in layer : outcome[n] \in {"ok", "failed"} /\ proc[n] # "none"}))
    /\ seen' = seen \union layer
    /\ layer' = {}
    /\ phase' = "layers"
    /\ UNCHANGED <<deps, resumed, thread, proc, told, prompt, outcome, cancelled>>

\* wg.Wait returns: the results, and what their agents used, are recorded.
CollectLayer ==
    /\ phase = "waiting"
    /\ \A n \in layer : thread[n] = "none"
    /\ result' = [n \in Agents |-> IF n \in layer THEN outcome[n] ELSE result[n]]
    /\ used' \in used..(used + Cardinality({n \in layer : outcome[n] \in {"ok", "failed"} /\ proc[n] # "none"}))
    /\ seen' = seen \union layer
    /\ layer' = {}
    /\ phase' = "layers"
    /\ UNCHANGED <<deps, resumed, thread, proc, told, prompt, outcome, cancelled>>

Cancel ==
    /\ ~cancelled /\ phase # "over"
    /\ cancelled' = TRUE
    /\ UNCHANGED <<deps, resumed, seen, layer, thread, proc, told, prompt, outcome, result, used, phase>>

RunLayers == Stop \/ Exhausted \/ StartLayer \/ CollectLayer

ExecuteNode(n) == SpawnFails(n) \/ SpawnAgent(n) \/ Waited(n) \/ WaitCancelled(n)

Process(n) == ProcessEnds(n) \/ Suspends(n) \/ Wakes(n)

EngineNext ==
    \/ RunLayers
    \/ \E n \in Agents : ExecuteNode(n) \/ Process(n)
    \/ Cancel

EngineSpec == EngineInit /\ [][EngineNext]_engineVars

-----------------------------------------------------------------------------
EngineTypeOK ==
    /\ deps \in Graphs
    /\ resumed \in SUBSET Agents
    /\ seen \in SUBSET Agents
    /\ layer \in SUBSET Agents
    /\ thread \in [Agents -> {"none", "spawn", "wait"}]
    /\ proc \in [Agents -> {"none", "running", "suspended", "ok", "failed"}]
    /\ told \in [Agents -> {"none", "ok", "failed"}]
    /\ prompt \in [Agents -> SUBSET Agents]
    /\ outcome \in [Agents -> Outcomes \union {"none"}]
    /\ result \in [Agents -> Outcomes \union {"none"}]
    /\ used \in Nat
    /\ phase \in {"layers", "waiting", "over"}
    /\ cancelled \in BOOLEAN

Started(n) == n \notin Seeded /\ proc[n] # "none"

\* ExecuteFromNode's blind spot: the agents of the layers it does not run that
\* are not upstream of the resumed one.  They have no result.
Forgotten == (UNION {ThroughLayerOf(r) : r \in resumed}) \ Seeded

(* No agent works before, or without, the output of everything it depends   *)
(* on: its dependencies have all ended well and all are in its prompt.      *)
UpstreamDone ==
    \A n \in Agents : Started(n) =>
        \A d \in deps[n] \ Forgotten : proc[d] = "ok" /\ d \in prompt[n]

(* A run that was not cancelled accounts for every agent it knows of: "ok"  *)
(* is the result of an agent that ended well, and whoever has a process has *)
(* the result that process was the first to tell.  An agent still at work,  *)
(* or one that ended well in the end, has suspended itself before and is    *)
(* recorded as failed.                                                      *)
RunComplete ==
    phase = "over" /\ ~cancelled =>
        \A n \in Agents \ Forgotten :
            /\ result[n] # "none"
            /\ result[n] = "ok" => proc[n] = "ok"
            /\ proc[n] # "none" => told[n] # "none" /\ result[n] = told[n]
=============================================================================
