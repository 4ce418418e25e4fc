----------------------------- MODULE Reconciler -----------------------------
(***************************************************************************)
(* The reconciler of one intent tree (intent/reconciler.go): Execute, the  *)
(* goroutines that run the tree's nodes, and the incremental merges that   *)
(* change the tree while it runs (intent/merge.go).                        *)
(*                                                                         *)
(* One action is one lock section of Execute or MergeAndInject, or one     *)
(* step of a goroutine.  A node may have several attempts in flight, each  *)
(* in a slot of its own; an attempt that has ended keeps its slot until    *)
(* Execute takes its event from eventCh.                                   *)
(***************************************************************************)
EXTENDS Integers, FiniteSets

CONSTANTS
    Nodes,
    Slots,          \* bound on the attempts of one node in flight
    MaxRetries,
    Trees,          \* dependency graphs: node -> the nodes it depends on
    FirstNodes,     \* nodes of the tree before any merge
    MergeKinds,     \* what merges do: "add", "change", "rejected", "late"
    MaxMerges

ReconcilerConstants ==
    /\ IsFiniteSet(Nodes) /\ IsFiniteSet(Slots)
    /\ MaxRetries \in Nat
    /\ Trees \subseteq [Nodes -> SUBSET Nodes]
    /\ FirstNodes \subseteq Nodes

VARIABLES
    nodes,      \* ids in tree.Nodes
    deps,       \* node -> DependsOn
    status,         \* node -> State
    retries,    \* node -> RetryCount
    thread,     \* node, slot -> the attempt's goroutine, or the event it sent
    active,     \* goroutines in flight, as the reconciler counts them
    phase,      \* where Execute is
    tree,       \* State of the tree
    listening,  \* execCtx is set: merges schedule what they make runnable
    merges      \* merges so far

reconcilerVars == <<nodes, deps, status, retries, thread, active, phase, tree, listening, merges>>

Events == {"completed", "failed", "timeout"}

Acyclic(ns, g) ==
    \A S \in SUBSET ns : S # {} => \E n \in S : g[n] \intersect S = {}

ReconcilerInit ==
    /\ nodes = FirstNodes
    /\ deps \in {g \in Trees : Acyclic(nodes, g) /\ \A n \in nodes : g[n] \subseteq nodes}
    /\ status = [n \in Nodes |-> "pending"]
    /\ retries = [n \in Nodes |-> 0]
    /\ thread = [n \in Nodes |-> [k \in Slots |-> "idle"]]
    /\ active = 0
    /\ phase = "new"
    /\ tree = "executing"
    /\ listening = FALSE
    /\ merges = 0

-----------------------------------------------------------------------------
\* Mutant: a dependency that has ended is enough.
RunnableEnded(ns, g, s) ==
    {n \in ns : s[n] \in {"pending", "retrying"}
                /\ \A d \in g[n] : d \in ns /\ s[d] \in {"completed", "failed"}}

RunnableNodes(ns, g, s) ==
    {n \in ns : s[n] \in {"pending", "retrying"}
                /\ \A d \in g[n] : d \in ns /\ s[d] = "completed"}

HasSlot(t, n) == \E k \in Slots : t[n][k] = "idle"
FreeSlot(t, n) == CHOOSE k \in Slots : t[n][k] = "idle"

\* Start an attempt of every runnable node, in a free slot.
spawnRunnable(ns, g, s, t, count) ==
    LET run == RunnableNodes(ns, g, s) IN
    /\ \A n \in run : HasSlot(t, n)
    /\ status' = [n \in Nodes |-> IF n \in run THEN "executing" ELSE s[n]]
    /\ thread' = [n \in Nodes |->
                    IF n \in run THEN [t[n] EXCEPT ![FreeSlot(t, n)] = "spawn"] ELSE t[n]]
    /\ active' = count + Cardinality(run)

\* No node is left to run: the tree has failed if one of its nodes has.
finalizeTreeState(s) ==
    tree' = IF \E n \in nodes : s[n] = "failed" THEN "failed" ELSE "completed"

\* MarkFailed: the node and, transitively, whatever depends on it and has
\* not ended yet.
Downstream(n) ==
    {m \in nodes : \A S \in SUBSET nodes :
        /\ n \in S
        /\ \A x \in nodes : status[x] \notin {"failed", "completed"} /\ deps[x] \intersect S # {} => x \in S
        => m \in S}

IsTerminal(s) == \A n \in nodes : s[n] \in {"completed", "failed"}

-----------------------------------------------------------------------------
(* Execute.                                                                 *)

Begin ==
    /\ phase = "new"
    /\ phase' = "begun"
    /\ active' = 0
    /\ listening' = TRUE
    /\ UNCHANGED <<nodes, deps, status, retries, thread, tree, merges>>

SpawnFirst ==
    /\ phase = "begun"
    /\ spawnRunnable(nodes, deps, status, thread, active)
    /\ IF active' = 0
       THEN phase' = "returned" /\ tree' = "completed"
       ELSE phase' = "loop" /\ UNCHANGED tree
    /\ UNCHANGED <<nodes, deps, retries, listening, merges>>

\* The event is taken and the attempt it came from is over.
Taken(n, k) == [thread EXCEPT ![n][k] = "idle"]

ReturnOrWait(s) ==
    IF IsTerminal(s) \/ active' = 0
    THEN phase' = "returned" /\ finalizeTreeState(s)
    ELSE UNCHANGED <<phase, tree>>

HandleCompleted(n, k) ==
    /\ phase = "loop" /\ thread[n][k] = "completed"
    /\ LET s == [status EXCEPT ![n] = "completed"] IN
       IF IsTerminal(s)
       THEN /\ status' = s /\ thread' = Taken(n, k) /\ active' = active - 1
            /\ phase' = "returned" /\ finalizeTreeState(s)
       ELSE /\ spawnRunnable(nodes, deps, s, Taken(n, k), active - 1)
            /\ ReturnOrWait(s)
    /\ UNCHANGED <<nodes, deps, retries, listening, merges>>

\* Mutant: a retry is not counted as in flight.
HandleRetryUncounted(n, k) ==
    /\ phase = "loop" /\ thread[n][k] \in {"failed", "timeout"}
    /\ retries[n] + 1 < MaxRetries
    /\ retries' = [retries EXCEPT ![n] = @ + 1]
    /\ spawnRunnable(nodes, deps, [status EXCEPT ![n] = "retrying"], Taken(n, k), active - 2)
    /\ ReturnOrWait(status')
    /\ UNCHANGED <<nodes, deps, listening, merges>>

HandleRetry(n, k) ==
    /\ phase = "loop" /\ thread[n][k] \in {"failed", "timeout"}
    /\ retries[n] + 1 < MaxRetries
    /\ retries' = [retries EXCEPT ![n] = @ + 1]
    /\ spawnRunnable(nodes, deps, [status EXCEPT ![n] = "retrying"], Taken(n, k), active - 1)
    /\ ReturnOrWait(status')
    /\ UNCHANGED <<nodes, deps, listening, merges>>

\* Mutant: the failed attempt is still counted as in flight.
HandleFailedCounted(n, k) ==
    /\ phase = "loop" /\ thread[n][k] \in {"failed", "timeout"}
    /\ retries[n] + 1 >= MaxRetries
    /\ retries' = [retries EXCEPT ![n] = IF @ < MaxRetries THEN @ + 1 ELSE @]
    /\ status' = [m \in Nodes |-> IF m \in Downstream(n) THEN "failed" ELSE status[m]]
    /\ thread' = Taken(n, k)
    /\ UNCHANGED active
    /\ ReturnOrWait(status')
    /\ UNCHANGED <<nodes, deps, listening, merges>>

HandleFailed(n, k) ==
    /\ phase = "loop" /\ thread[n][k] \in {"failed", "timeout"}
    /\ retries[n] + 1 >= MaxRetries
    /\ retries' = [retries EXCEPT ![n] = IF @ < MaxRetries THEN @ + 1 ELSE @]
    /\ status' = [m \in Nodes |-> IF m \in Downstream(n) THEN "failed" ELSE status[m]]
    /\ thread' = Taken(n, k)
    /\ active' = active - 1
    /\ ReturnOrWait(status')
    /\ UNCHANGED <<nodes, deps, listening, merges>>

\* The context is cancelled; the goroutines end by themselves.
Cancelled ==
    /\ phase = "loop"
    /\ phase' = "returned"
    /\ tree' = "failed"
    /\ listening' = FALSE
    /\ UNCHANGED <<nodes, deps, status, retries, thread, active, merges>>

-----------------------------------------------------------------------------
(* executeNodeWithTimeout.                                                  *)

Advance(n, k, from, to) ==
    /\ thread[n][k] = from
    /\ thread' = [thread EXCEPT ![n][k] = to]
    /\ UNCHANGED <<nodes, deps, status, retries, active, phase, tree, listening, merges>>

SpawnIntent(n, k) == \E to \in {"wait", "failed", "timeout"} : Advance(n, k, "spawn", to)

\* The process ends, or the node's timeout kills it.
NodeEnds(n, k) == \E to \in Events : Advance(n, k, "wait", to)

-----------------------------------------------------------------------------
(* MergeAndInject: new nodes are added, nodes with another intent start     *)
(* over, and all of them get the dependencies they came with.               *)

\* Mutant: what the merge has made runnable is not counted as in flight.
MergeUncounted(added, changed, g) ==
    LET ns == nodes \union added
        s == [n \in Nodes |-> IF n \in changed THEN "pending" ELSE status[n]]
    IN  /\ nodes' = ns
        /\ deps' = g
        /\ retries' = [n \in Nodes |-> IF n \in changed THEN 0 ELSE retries[n]]
        /\ IF listening
           THEN spawnRunnable(ns, g, s, thread, active - Cardinality(RunnableNodes(ns, g, s)))
           ELSE status' = s /\ UNCHANGED <<thread, active>>

Merge(added, changed, g) ==
    LET ns == nodes \union added
        s == [n \in Nodes |-> IF n \in changed THEN "pending" ELSE status[n]]
    IN  /\ nodes' = ns
        /\ deps' = g
        /\ retries' = [n \in Nodes |-> IF n \in changed THEN 0 ELSE retries[n]]
        /\ IF listening
           THEN spawnRunnable(ns, g, s, thread, active)
           ELSE status' = s /\ UNCHANGED <<thread, active>>

\* The merger got the reconciler from the manager before a decomposition by a
\* model, so Execute may have returned meanwhile.
MayMerge ==
    /\ merges < MaxMerges
    /\ merges' = merges + 1
    /\ phase = "returned" => "late" \in MergeKinds
    /\ UNCHANGED <<phase, tree, listening>>

Valid(ns, g) == Acyclic(ns, g) /\ \A n \in ns : g[n] \subseteq ns

MergeAndInject(added, changed, g) ==
    /\ MayMerge
    /\ added \intersect nodes = {} /\ changed \subseteq nodes
    /\ changed # {} => "change" \in MergeKinds
    /\ added \union changed # {}
    /\ \A n \in nodes \ changed : g[n] = deps[n]
    /\ Valid(nodes \union added, g)
    /\ Merge(added, changed, g)

\* A merge whose graph is refused is rolled back, except for the dependencies
\* of the nodes that came with an unchanged intent.
MergeRejected(added, same, g) ==
    /\ "rejected" \in MergeKinds
    /\ MayMerge
    /\ added \intersect nodes = {} /\ same \subseteq nodes
    /\ \A n \in nodes \ same : g[n] = deps[n]
    /\ ~Valid(nodes \union added, g)
    /\ deps' = [n \in Nodes |-> IF n \in same THEN g[n] ELSE deps[n]]
    /\ UNCHANGED <<nodes, status, retries, thread, active>>

-----------------------------------------------------------------------------
Handle(n, k) == HandleCompleted(n, k) \/ HandleRetry(n, k) \/ HandleFailed(n, k)

Thread(n, k) == SpawnIntent(n, k) \/ NodeEnds(n, k)

ReconcilerNext ==
    \/ Begin \/ SpawnFirst \/ Cancelled
    \/ \E n \in Nodes, k \in Slots : Handle(n, k) \/ Thread(n, k)
    \/ \E a, c \in SUBSET Nodes, g \in Trees : MergeAndInject(a, c, g) \/ MergeRejected(a, c, g)

ReconcilerSpec == ReconcilerInit /\ [][ReconcilerNext]_reconcilerVars

-----------------------------------------------------------------------------
ReconcilerTypes ==
    /\ nodes \subseteq Nodes
    /\ deps \in [Nodes -> SUBSET Nodes]
    /\ status \in [Nodes -> {"pending", "executing", "retrying", "completed", "failed"}]
    /\ retries \in [Nodes -> 0..MaxRetries]
    /\ thread \in [Nodes -> [Slots -> {"idle", "spawn", "wait"} \union Events]]
    /\ active \in Int
    /\ phase \in {"new", "begun", "loop", "returned"}
    /\ tree \in {"executing", "completed", "failed"}
    /\ listening \in BOOLEAN

InFlight == {x \in Nodes \X Slots : thread[x[1]][x[2]] # "idle"}

(* The count on which Execute decides that nothing more can come is the     *)
(* number of goroutines and events there are, whatever merges schedule.     *)
ActiveExact == phase \in {"begun", "loop"} => active = Cardinality(InFlight)

(* A node works only once everything it depends on has completed, in one    *)
(* attempt at a time, and Execute is not over while it does: with merges    *)
(* that only add nodes.                                                     *)
DepsCompleted ==
    \A n \in nodes : status[n] \in {"executing", "retrying", "completed"} =>
        /\ \A d \in deps[n] : d \in nodes /\ status[d] = "completed"
        /\ Cardinality({k \in Slots : thread[n][k] # "idle"}) = (IF status[n] = "executing" THEN 1 ELSE 0)

(* A tree that is reported completed is: all its nodes have completed.      *)
CompletedIsComplete ==
    phase = "returned" /\ tree = "completed" => \A n \in nodes : status[n] = "completed"

-----------------------------------------------------------------------------
(* Execute's loop, each goroutine, each process up to its timeout.          *)
ReconcilerFairness ==
    /\ WF_reconcilerVars(Begin) /\ WF_reconcilerVars(SpawnFirst)
    /\ \A n \in Nodes, k \in Slots : WF_reconcilerVars(Handle(n, k)) /\ WF_reconcilerVars(Thread(n, k))

(* Execute returns.                                                         *)
ExecuteReturns == <>(phase = "returned")
=============================================================================
