-------------------------- MODULE ReconcilerProofs --------------------------
(***************************************************************************)
(* An intent tree is executed correctly for any finite set of nodes, each  *)
(* time with the merges that allow it.                                     *)
(*                                                                         *)
(* RecInv: the count on which Execute returns is exact, whatever merges    *)
(* do.  OrderInv: no node starts before its dependencies and each is in    *)
(* one attempt at a time, unless a merge changes a node at work or leaves  *)
(* the dependencies of a graph that was refused.  CompleteInv: a tree that *)
(* is reported completed is, unless dependencies were left or a merge      *)
(* comes after Execute has returned.  TLC violates both without these      *)
(* hypotheses.                                                             *)
(***************************************************************************)
EXTENDS Reconciler, FiniteSetTheorems, TLAPS

Stages     == {"idle", "spawn", "wait"} \union Events
NodeStates == {"pending", "executing", "retrying", "completed", "failed"}
Threads    == [Nodes -> [Slots -> Stages]]

InFlightOf(t) == {x \in Nodes \X Slots : t[x[1]][x[2]] # "idle"}

\* Nothing is scheduled before Execute.
FreshStart == phase = "new" => ~listening /\ InFlight = {}

RecInv == ReconcilerTypes /\ FreshStart /\ ActiveExact

\* The slots of a node that an attempt is in.
Busy(t, n) == {k \in Slots : t[n][k] # "idle"}

\* A node works in one attempt exactly while it is executing, and only after
\* all that it depends on.
OneAttempt(s, t) ==
    \A n \in Nodes :
        /\ s[n] = "executing" => \E k \in Slots : Busy(t, n) = {k}
        /\ s[n] # "executing" => Busy(t, n) = {}

AfterDeps(ns, g, s) ==
    \A n \in ns : s[n] \in {"executing", "retrying", "completed"} =>
        \A d \in g[n] : d \in ns /\ s[d] = "completed"

OrderInv ==
    /\ RecInv
    /\ Valid(nodes, deps)
    /\ \A n \in Nodes \ nodes : status[n] = "pending"
    /\ OneAttempt(status, thread)
    /\ AfterDeps(nodes, deps, status)

\* An executing node has an attempt in flight, and only nodes of the tree do.
Attended(ns, s, t) ==
    \A n \in Nodes :
        /\ s[n] = "executing" => Busy(t, n) # {}
        /\ Busy(t, n) # {} => n \in ns

CompleteInv ==
    /\ RecInv
    /\ Valid(nodes, deps)
    /\ Attended(nodes, status, thread)
    /\ phase \in {"new", "begun"} => \A n \in Nodes : status[n] \in {"pending", "executing"}
    /\ CompletedIsComplete

-----------------------------------------------------------------------------
(* Counting what is in flight.                                              *)

LEMMA FlightFinite ==
    ASSUME ReconcilerConstants, NEW t
    PROVE  IsFiniteSet(InFlightOf(t)) /\ Cardinality(InFlightOf(t)) \in Nat
  <1>1. IsFiniteSet(Nodes \X Slots)
    BY FS_Product DEF ReconcilerConstants
  <1>2. InFlightOf(t) \subseteq Nodes \X Slots
    BY DEF InFlightOf
  <1> QED  BY <1>1, <1>2, FS_Subset, FS_CardinalityType

LEMMA FreeSlotFree ==
    ASSUME NEW t, NEW n, HasSlot(t, n)
    PROVE  FreeSlot(t, n) \in Slots /\ t[n][FreeSlot(t, n)] = "idle"
  BY DEF HasSlot, FreeSlot

\* What spawnRunnable starts it counts, one attempt for each runnable node.
LEMMA SpawnCounts ==
    ASSUME ReconcilerConstants, NEW ns \in SUBSET Nodes, NEW g, NEW s \in [Nodes -> NodeStates],
           NEW t \in Threads, NEW count \in Int, spawnRunnable(ns, g, s, t, count)
    PROVE  /\ status' \in [Nodes -> NodeStates] /\ thread' \in Threads
           /\ Cardinality(RunnableNodes(ns, g, s)) \in Nat
           /\ active' = count + Cardinality(RunnableNodes(ns, g, s))
           /\ Cardinality(InFlightOf(thread')) =
                 Cardinality(InFlightOf(t)) + Cardinality(RunnableNodes(ns, g, s))
  <1> DEFINE run == RunnableNodes(ns, g, s)
             new == {x \in Nodes \X Slots : x[1] \in run /\ x[2] = FreeSlot(t, x[1])}
             f   == [n \in run |-> <<n, FreeSlot(t, n)>>]
  <1>1. run \subseteq Nodes
    BY DEF RunnableNodes
  <1>2. IsFiniteSet(run) /\ Cardinality(run) \in Nat
    BY <1>1, FS_Subset, FS_CardinalityType DEF ReconcilerConstants
  <1>3. \A n \in run : FreeSlot(t, n) \in Slots /\ t[n][FreeSlot(t, n)] = "idle"
    BY FreeSlotFree DEF spawnRunnable
  <1>4. /\ status' = [n \in Nodes |-> IF n \in run THEN "executing" ELSE s[n]]
        /\ thread' = [n \in Nodes |->
                        IF n \in run THEN [t[n] EXCEPT ![FreeSlot(t, n)] = "spawn"] ELSE t[n]]
        /\ active' = count + Cardinality(run)
    BY DEF spawnRunnable
  <1> HIDE DEF run
  <1>5. status' \in [Nodes -> NodeStates]
    BY <1>4 DEF NodeStates
  <1>6. thread' \in Threads
    <2>1. \A n \in Nodes : /\ t[n] \in [Slots -> Stages]
                          /\ [t[n] EXCEPT ![FreeSlot(t, n)] = "spawn"] \in [Slots -> Stages]
      BY DEF Threads, Stages
    <2> QED  BY <1>4, <2>1 DEF Threads
  <1>7. InFlightOf(thread') = InFlightOf(t) \union new
    <2>1. ASSUME NEW n \in Nodes, NEW k \in Slots
          PROVE  thread'[n][k] # "idle" <=> t[n][k] # "idle" \/ (n \in run /\ k = FreeSlot(t, n))
      <3>1. t[n] \in [Slots -> Stages]  BY DEF Threads
      <3> QED  BY <1>3, <1>4, <3>1
    <2>2. \A x \in Nodes \X Slots : x \in InFlightOf(thread') <=> x \in InFlightOf(t) \union new
      BY <2>1 DEF InFlightOf
    <2>3. InFlightOf(thread') \subseteq Nodes \X Slots /\ InFlightOf(t) \union new \subseteq Nodes \X Slots
      BY DEF InFlightOf
    <2> QED  BY <2>2, <2>3
  <1>8. InFlightOf(t) \intersect new = {}
    BY <1>3 DEF InFlightOf
  <1>9. IsFiniteSet(new) /\ Cardinality(new) = Cardinality(run)
    <2>1. f \in Bijection(run, new)
      <3>1. f \in [run -> new]
        BY <1>1, <1>3
      <3>2. \A a, b \in run : f[a] = f[b] => a = b
        OBVIOUS
      <3>3. \A x \in new : \E a \in run : f[a] = x
        OBVIOUS
      <3> QED  BY <3>1, <3>2, <3>3 DEF Bijection, Injection, Surjection, IsInjective
    <2>2. ExistsBijection(run, new)
      BY <2>1 DEF ExistsBijection
    <2> QED  BY <1>2, <2>2, FS_Bijection
  <1>10. Cardinality(InFlightOf(thread')) = Cardinality(InFlightOf(t)) + Cardinality(run)
    <2>1. Cardinality(InFlightOf(t) \intersect new) = 0
      BY <1>8, FS_EmptySet
    <2>2. IsFiniteSet(InFlightOf(t)) /\ Cardinality(InFlightOf(t)) \in Nat
      BY FlightFinite
    <2>3. Cardinality(InFlightOf(t) \union new) =
             Cardinality(InFlightOf(t)) + Cardinality(new) - Cardinality(InFlightOf(t) \intersect new)
      BY <1>9, <2>2, FS_Union
    <2> QED  BY <1>2, <1>7, <1>9, <2>1, <2>2, <2>3
  <1> QED  BY <1>2, <1>4, <1>5, <1>6, <1>10 DEF run

\* Execute takes one event, and what is in flight is one less.
LEMMA TakenCounts ==
    ASSUME ReconcilerConstants, thread \in Threads, NEW n \in Nodes, NEW k \in Slots,
           thread[n][k] # "idle"
    PROVE  /\ Taken(n, k) \in Threads
           /\ Cardinality(InFlightOf(Taken(n, k))) = Cardinality(InFlightOf(thread)) - 1
           /\ \A m \in Nodes : Busy(Taken(n, k), m) = IF m = n THEN Busy(thread, m) \ {k} ELSE Busy(thread, m)
  <1>1. Taken(n, k) \in Threads
    BY DEF Taken, Threads, Stages
  <1>2. \A m \in Nodes : \A j \in Slots :
            Taken(n, k)[m][j] = IF m = n /\ j = k THEN "idle" ELSE thread[m][j]
    BY DEF Taken, Threads
  <1>3. InFlightOf(Taken(n, k)) = InFlightOf(thread) \ {<<n, k>>} /\ <<n, k>> \in InFlightOf(thread)
    BY <1>2 DEF InFlightOf
  <1>4. \A m \in Nodes : Busy(Taken(n, k), m) = IF m = n THEN Busy(thread, m) \ {k} ELSE Busy(thread, m)
    BY <1>2 DEF Busy
  <1> QED  BY <1>1, <1>3, <1>4, FlightFinite, FS_RemoveElement

-----------------------------------------------------------------------------
(* The count of what is in flight.                                          *)

LEMMA RecTypes ==
    ASSUME ReconcilerConstants, ReconcilerTypes
    PROVE  /\ status \in [Nodes -> NodeStates] /\ thread \in Threads /\ active \in Int
           /\ nodes \in SUBSET Nodes /\ InFlight = InFlightOf(thread)
           /\ InFlight' = InFlightOf(thread')
           /\ \A n \in Nodes : \A ns, g, s : RunnableNodes(ns, g, s) \subseteq ns
  BY DEF ReconcilerTypes, NodeStates, Threads, Stages, InFlight, InFlightOf, RunnableNodes

\* spawnRunnable keeps an exact count exact.
LEMMA SpawnExact ==
    ASSUME ReconcilerConstants, NEW ns \in SUBSET Nodes, NEW g, NEW s \in [Nodes -> NodeStates],
           NEW t \in Threads, NEW count \in Int, spawnRunnable(ns, g, s, t, count),
           count = Cardinality(InFlightOf(t))
    PROVE  /\ status' \in [Nodes -> NodeStates] /\ thread' \in Threads /\ active' \in Int
           /\ active' = Cardinality(InFlight')
  <1>1. InFlight' = InFlightOf(thread')
    BY DEF InFlight, InFlightOf
  <1> DEFINE more == Cardinality(RunnableNodes(ns, g, s))
  <1>2. /\ status' \in [Nodes -> NodeStates] /\ thread' \in Threads /\ more \in Nat
        /\ active' = count + more
        /\ Cardinality(InFlightOf(thread')) = Cardinality(InFlightOf(t)) + more
    BY SpawnCounts
  <1> HIDE DEF more
  <1> QED  BY <1>1, <1>2

LEMMA ReturnTypes ==
    ASSUME NEW s, ReturnOrWait(s), phase = "loop", tree \in {"executing", "completed", "failed"}
    PROVE  phase' \in {"loop", "returned"} /\ tree' \in {"executing", "completed", "failed"}
  BY DEF ReturnOrWait, finalizeTreeState

LEMMA HandleCounts ==
    ASSUME ReconcilerConstants, RecInv, NEW n \in Nodes, NEW k \in Slots, Handle(n, k)
    PROVE  RecInv'
  <1> USE DEF RecInv
  <1>a. /\ phase = "loop" /\ thread[n][k] # "idle"
        /\ UNCHANGED <<nodes, deps, listening, merges>>
    BY DEF Handle, HandleCompleted, HandleRetry, HandleFailed
  <1>b. /\ status \in [Nodes -> NodeStates] /\ thread \in Threads /\ active \in Int
        /\ nodes \in SUBSET Nodes /\ tree \in {"executing", "completed", "failed"}
        /\ active - 1 = Cardinality(InFlightOf(Taken(n, k))) /\ active - 1 \in Int
        /\ Taken(n, k) \in Threads
    BY <1>a, RecTypes, TakenCounts, FlightFinite DEF ActiveExact, ReconcilerTypes
  <1>c. phase' \in {"loop", "returned"} /\ tree' \in {"executing", "completed", "failed"}
    <2>1. CASE \E s : ReturnOrWait(s)
      BY <1>a, <1>b, <2>1, ReturnTypes
    <2>2. CASE phase' = "returned" /\ finalizeTreeState([status EXCEPT ![n] = "completed"])
      BY <2>2 DEF finalizeTreeState
    <2> QED  BY <2>1, <2>2 DEF Handle, HandleCompleted, HandleRetry, HandleFailed
  <1>d. retries' \in [Nodes -> 0..MaxRetries]
    BY DEF Handle, HandleCompleted, HandleRetry, HandleFailed, ReconcilerTypes, ReconcilerConstants
  <1>1. CASE \E s \in [Nodes -> NodeStates] : spawnRunnable(nodes, deps, s, Taken(n, k), active - 1)
    <2>1. /\ status' \in [Nodes -> NodeStates] /\ thread' \in Threads /\ active' \in Int
          /\ active' = Cardinality(InFlight')
      BY <1>b, <1>1, SpawnExact
    <2> QED  BY <1>a, <1>c, <1>d, <2>1
             DEF ReconcilerTypes, FreshStart, ActiveExact, Threads, Stages, NodeStates
  <1>2. CASE status' \in [Nodes -> NodeStates] /\ thread' = Taken(n, k) /\ active' = active - 1
    <2>1. InFlight' = InFlightOf(Taken(n, k))
      BY <1>2 DEF InFlight, InFlightOf
    <2> QED  BY <1>a, <1>b, <1>c, <1>d, <1>2, <2>1
             DEF ReconcilerTypes, FreshStart, ActiveExact, Threads, Stages, NodeStates
  <1>3. CASE HandleCompleted(n, k)
    <2>1. [status EXCEPT ![n] = "completed"] \in [Nodes -> NodeStates]
      BY <1>b DEF NodeStates
    <2> QED  BY <1>1, <1>2, <1>3, <2>1 DEF HandleCompleted
  <1>4. CASE HandleRetry(n, k)
    <2>1. [status EXCEPT ![n] = "retrying"] \in [Nodes -> NodeStates]
      BY <1>b DEF NodeStates
    <2> QED  BY <1>1, <1>4, <2>1 DEF HandleRetry
  <1>5. CASE HandleFailed(n, k)
    <2>1. status' \in [Nodes -> NodeStates] /\ thread' = Taken(n, k) /\ active' = active - 1
      BY <1>5, <1>b DEF HandleFailed, NodeStates
    <2> QED  BY <1>2, <2>1
  <1> QED  BY <1>3, <1>4, <1>5 DEF Handle

LEMMA ThreadCounts ==
    ASSUME ReconcilerConstants, RecInv, NEW n \in Nodes, NEW k \in Slots, Thread(n, k)
    PROVE  RecInv' /\ \A m \in Nodes : Busy(thread', m) = Busy(thread, m)
  <1>1. PICK from \in Stages \ {"idle"}, to \in Stages \ {"idle"} : Advance(n, k, from, to)
    BY DEF Thread, SpawnIntent, NodeEnds, Stages, Events
  <1>2. thread' \in Threads /\ thread \in Threads
    BY <1>1, RecTypes DEF RecInv, Advance, Threads, Stages
  <1>3. \A m \in Nodes : \A j \in Slots : thread'[m][j] = "idle" <=> thread[m][j] = "idle"
    <2>1. \A m \in Nodes : \A j \in Slots :
              thread'[m][j] = IF m = n /\ j = k THEN to ELSE thread[m][j]
      BY <1>1, <1>2 DEF Advance, Threads
    <2> QED  BY <1>1, <2>1 DEF Advance
  <1>4. InFlight' = InFlight
    BY <1>3 DEF InFlight
  <1>5. UNCHANGED <<nodes, deps, status, retries, active, phase, tree, listening, merges>>
    BY <1>1 DEF Advance
  <1>6. RecInv'
    BY <1>2, <1>4, <1>5 DEF RecInv, ReconcilerTypes, FreshStart, ActiveExact, Threads, Stages
  <1> QED  BY <1>3, <1>6 DEF Busy

LEMMA ExecuteCounts ==
    ASSUME ReconcilerConstants, RecInv, Begin \/ SpawnFirst \/ Cancelled
    PROVE  RecInv'
  <1> USE DEF RecInv
  <1>1. CASE Begin
    <2>1. InFlight' = InFlight /\ InFlight = {}
      BY <1>1 DEF Begin, InFlight, FreshStart
    <2> QED  BY <1>1, <2>1, FS_EmptySet DEF Begin, ReconcilerTypes, FreshStart, ActiveExact
  <1>2. CASE SpawnFirst
    <2>1. /\ phase = "begun" /\ spawnRunnable(nodes, deps, status, thread, active)
          /\ phase' \in {"returned", "loop"} /\ tree' \in {tree, "completed"}
          /\ UNCHANGED <<nodes, deps, retries, listening, merges>>
      BY <1>2 DEF SpawnFirst
    <2>2. /\ status' \in [Nodes -> NodeStates] /\ thread' \in Threads /\ active' \in Int
          /\ active' = Cardinality(InFlight')
      BY <2>1, RecTypes, SpawnExact DEF ActiveExact
    <2> QED  BY <2>1, <2>2 DEF ReconcilerTypes, FreshStart, ActiveExact, Threads, Stages, NodeStates
  <1>3. CASE Cancelled
    BY <1>3 DEF Cancelled, ReconcilerTypes, FreshStart, ActiveExact
  <1> QED  BY <1>1, <1>2, <1>3

LEMMA MergeCounts ==
    ASSUME ReconcilerConstants, RecInv, NEW a \in SUBSET Nodes, NEW c \in SUBSET Nodes,
           NEW g \in Trees, MergeAndInject(a, c, g) \/ MergeRejected(a, c, g)
    PROVE  RecInv'
  <1> USE DEF RecInv
  <1>a. UNCHANGED <<phase, tree, listening>> /\ g \in [Nodes -> SUBSET Nodes]
    BY DEF MergeAndInject, MergeRejected, MayMerge, ReconcilerConstants
  <1>1. CASE MergeAndInject(a, c, g)
    <2> DEFINE s == [n \in Nodes |-> IF n \in c THEN "pending" ELSE status[n]]
    <2>1. /\ nodes' = nodes \union a /\ deps' = g
          /\ retries' = [n \in Nodes |-> IF n \in c THEN 0 ELSE retries[n]]
          /\ IF listening
             THEN spawnRunnable(nodes \union a, g, s, thread, active)
             ELSE status' = s /\ UNCHANGED <<thread, active>>
      BY <1>1 DEF MergeAndInject, Merge
    <2>2. s \in [Nodes -> NodeStates]
      BY RecTypes DEF NodeStates
    <2> HIDE DEF s
    <2>3. nodes' \subseteq Nodes /\ deps' \in [Nodes -> SUBSET Nodes] /\ retries' \in [Nodes -> 0..MaxRetries]
      BY <1>a, <2>1 DEF ReconcilerTypes, ReconcilerConstants
    <2>4. CASE listening
      <3>1. CASE phase \in {"begun", "loop"}
        <4>1. /\ status' \in [Nodes -> NodeStates] /\ thread' \in Threads /\ active' \in Int
              /\ active' = Cardinality(InFlight')
          <5>1. active = Cardinality(InFlightOf(thread)) /\ nodes \union a \in SUBSET Nodes
            BY <3>1, RecTypes DEF ActiveExact
          <5> QED  BY <2>1, <2>2, <2>4, <5>1, RecTypes, SpawnExact
        <4> QED  BY <1>a, <2>3, <2>4, <4>1, <3>1
                 DEF ReconcilerTypes, FreshStart, ActiveExact, Threads, Stages, NodeStates
      <3>2. CASE phase \notin {"begun", "loop"}
        <4>1. phase # "new"
          BY <2>4 DEF FreshStart
        <4>2. status' \in [Nodes -> NodeStates] /\ thread' \in Threads /\ active' \in Int
          <5>1. nodes \union a \in SUBSET Nodes
            BY RecTypes
          <5>2. spawnRunnable(nodes \union a, g, s, thread, active) /\ thread \in Threads /\ active \in Int
            BY <2>1, <2>4, RecTypes
          <5>3. /\ status' \in [Nodes -> NodeStates] /\ thread' \in Threads
                /\ Cardinality(RunnableNodes(nodes \union a, g, s)) \in Nat
                /\ active' = active + Cardinality(RunnableNodes(nodes \union a, g, s))
            BY <2>2, <5>1, <5>2, SpawnCounts
          <5> QED  BY <5>2, <5>3
        <4> QED  BY <1>a, <2>3, <3>2, <4>1, <4>2
                 DEF ReconcilerTypes, FreshStart, ActiveExact, Threads, Stages, NodeStates
      <3> QED  BY <3>1, <3>2
    <2>5. CASE ~listening
      <3>1. InFlight' = InFlight
        BY <2>1, <2>5 DEF InFlight
      <3> QED  BY <1>a, <2>1, <2>2, <2>3, <2>5, <3>1 DEF ReconcilerTypes, FreshStart, ActiveExact, NodeStates
    <2> QED  BY <2>4, <2>5
  <1>2. CASE MergeRejected(a, c, g)
    <2>1. /\ deps' = [n \in Nodes |-> IF n \in c THEN g[n] ELSE deps[n]]
          /\ UNCHANGED <<nodes, status, retries, thread, active>>
      BY <1>2 DEF MergeRejected
    <2>2. InFlight' = InFlight
      BY <2>1 DEF InFlight
    <2> QED  BY <1>a, <2>1, <2>2 DEF ReconcilerTypes, FreshStart, ActiveExact
  <1> QED  BY <1>1, <1>2

LEMMA RecInvInit ==
    ASSUME ReconcilerConstants, ReconcilerInit
    PROVE  RecInv
  <1>1. ReconcilerTypes
    <2>1. deps \in Trees /\ 0 \in 0..MaxRetries
      BY DEF ReconcilerInit, ReconcilerConstants
    <2>2. retries \in [Nodes -> 0..MaxRetries]
      BY <2>1 DEF ReconcilerInit
    <2>3. nodes \subseteq Nodes /\ deps \in [Nodes -> SUBSET Nodes]
      BY <2>1 DEF ReconcilerConstants, ReconcilerInit
    <2>4. thread \in [Nodes -> [Slots -> {"idle", "spawn", "wait"} \union Events]]
      BY DEF ReconcilerInit
    <2>5. /\ status \in [Nodes -> {"pending", "executing", "retrying", "completed", "failed"}]
          /\ active \in Int /\ phase = "new" /\ tree = "executing" /\ listening = FALSE
      BY DEF ReconcilerInit
    <2> QED  BY <2>2, <2>3, <2>4, <2>5 DEF ReconcilerTypes
  <1>2. InFlight = {}
    BY DEF ReconcilerInit, InFlight
  <1> QED  BY <1>1, <1>2 DEF ReconcilerInit, RecInv, FreshStart, ActiveExact

LEMMA RecInvStep ==
    ASSUME ReconcilerConstants, RecInv, [ReconcilerNext]_reconcilerVars
    PROVE  RecInv'
  <1>1. CASE ReconcilerNext
    BY <1>1, HandleCounts, ThreadCounts, ExecuteCounts, MergeCounts DEF ReconcilerNext
  <1>2. CASE UNCHANGED reconcilerVars
    BY <1>2 DEF reconcilerVars, RecInv, ReconcilerTypes, FreshStart, ActiveExact, InFlight
  <1> QED  BY <1>1, <1>2

\* For every finite set of nodes and every kind of merge: the count of
\* attempts on which Execute decides that nothing more can come is exact
\* (reconciler.go: active in Execute, and what MergeAndInject adds to it).
THEOREM CountIsExact == ASSUME ReconcilerConstants PROVE ReconcilerSpec => []ActiveExact
  <1>1. RecInv => ActiveExact
    BY DEF RecInv
  <1> QED  BY <1>1, RecInvInit, RecInvStep, PTL DEF ReconcilerSpec

-----------------------------------------------------------------------------
(* Dependencies.                                                            *)

LEMMA SpawnOrdered ==
    ASSUME ReconcilerConstants, NEW ns \in SUBSET Nodes, NEW g, NEW s \in [Nodes -> NodeStates],
           NEW t \in Threads, NEW count \in Int, spawnRunnable(ns, g, s, t, count),
           OneAttempt(s, t), AfterDeps(ns, g, s), \A n \in ns : g[n] \subseteq Nodes
    PROVE  /\ OneAttempt(status', thread') /\ AfterDeps(ns, g, status')
           /\ \A n \in Nodes : status'[n] = IF n \in RunnableNodes(ns, g, s) THEN "executing" ELSE s[n]
  <1> DEFINE run == RunnableNodes(ns, g, s)
  <1>1. /\ \A n \in Nodes : status'[n] = IF n \in run THEN "executing" ELSE s[n]
        /\ \A n \in Nodes : thread'[n] =
              IF n \in run THEN [t[n] EXCEPT ![FreeSlot(t, n)] = "spawn"] ELSE t[n]
        /\ \A n \in run : FreeSlot(t, n) \in Slots
    BY FreeSlotFree DEF spawnRunnable
  <1>2. \A n \in run : n \in Nodes /\ s[n] \in {"pending", "retrying"}
                       /\ \A d \in g[n] : d \in ns /\ s[d] = "completed"
    BY DEF RunnableNodes
  <1> HIDE DEF run
  <1>3. ASSUME NEW n \in Nodes
        PROVE  /\ status'[n] = "executing" => \E k \in Slots : Busy(thread', n) = {k}
               /\ status'[n] # "executing" => Busy(thread', n) = {}
    <2>1. CASE n \in run
      <3>1. Busy(t, n) = {} /\ t[n] \in [Slots -> Stages]
        BY <1>2, <2>1 DEF OneAttempt, Threads
      <3>2. \A k \in Slots : thread'[n][k] = IF k = FreeSlot(t, n) THEN "spawn" ELSE t[n][k]
        BY <1>1, <2>1, <3>1
      <3>3. Busy(thread', n) = {FreeSlot(t, n)}
        BY <1>1, <2>1, <3>1, <3>2 DEF Busy
      <3> QED  BY <1>1, <2>1, <3>3
    <2>2. CASE n \notin run
      <3>1. thread'[n] = t[n] /\ status'[n] = s[n]
        BY <1>1, <2>2
      <3>2. Busy(thread', n) = Busy(t, n)
        BY <3>1 DEF Busy
      <3> QED  BY <3>1, <3>2 DEF OneAttempt
    <2> QED  BY <2>1, <2>2
  <1>4. ASSUME NEW n \in ns, status'[n] \in {"executing", "retrying", "completed"}, NEW d \in g[n]
        PROVE  d \in ns /\ status'[d] = "completed"
    <2>1. d \in ns /\ s[d] = "completed"
      BY <1>1, <1>2, <1>4 DEF AfterDeps
    <2>2. d \notin run
      BY <1>2, <2>1
    <2> QED  BY <1>1, <2>1, <2>2
  <1> QED  BY <1>1, <1>3, <1>4 DEF OneAttempt, AfterDeps, run

\* A graph without a cycle has something to run as long as a node is neither
\* at work nor over, unless one it waits for has failed.
LEMMA NothingLeft ==
    ASSUME NEW ns, NEW g, Valid(ns, g), NEW s, RunnableNodes(ns, g, s) = {},
           \A n \in ns : s[n] \in NodeStates \ {"executing", "failed"}
    PROVE  \A n \in ns : s[n] = "completed"
  <1> DEFINE left == {n \in ns : s[n] \in {"pending", "retrying"}}
  <1>1. left = {}
    <2> SUFFICES ASSUME left # {}  PROVE FALSE
      OBVIOUS
    <2>1. PICK n \in left : g[n] \intersect left = {}
      BY DEF Valid, Acyclic
    <2>2. \A d \in g[n] : d \in ns /\ s[d] = "completed"
      BY <2>1 DEF Valid, NodeStates
    <2>3. n \in RunnableNodes(ns, g, s)
      BY <2>2 DEF RunnableNodes
    <2> QED  BY <2>3
  <1> QED  BY <1>1 DEF NodeStates

\* When nothing is in flight after a spawn, nothing was runnable.
LEMMA SpawnedNothing ==
    ASSUME ReconcilerConstants, NEW ns \in SUBSET Nodes, NEW g, NEW s \in [Nodes -> NodeStates],
           status' \in [Nodes -> NodeStates], Attended(ns, status', thread'),
           Cardinality(InFlightOf(thread')) = 0,
           \A n \in Nodes : status'[n] = IF n \in RunnableNodes(ns, g, s) THEN "executing" ELSE s[n]
    PROVE  /\ RunnableNodes(ns, g, s) = {}
           /\ \A n \in Nodes : s[n] # "executing" /\ status'[n] = s[n]
  <1>1. InFlightOf(thread') = {}
    BY FlightFinite, FS_EmptySet
  <1>2. \A n \in Nodes : status'[n] # "executing"
    <2> SUFFICES ASSUME NEW n \in Nodes, status'[n] = "executing"  PROVE FALSE
      OBVIOUS
    <2>1. PICK k \in Slots : k \in Busy(thread', n)
      BY DEF Attended, Busy
    <2>2. <<n, k>> \in InFlightOf(thread')
      BY <2>1 DEF Busy, InFlightOf
    <2> QED  BY <1>1, <2>2
  <1>3. RunnableNodes(ns, g, s) \subseteq Nodes
    BY DEF RunnableNodes
  <1> QED  BY <1>2, <1>3

\* The node whose event is taken was executing, in this attempt.
LEMMA HandledNode ==
    ASSUME ReconcilerConstants, OrderInv, NEW n \in Nodes, NEW k \in Slots, thread[n][k] # "idle",
           NEW x \in NodeStates \ {"executing"}
    PROVE  /\ n \in nodes /\ status[n] = "executing"
           /\ OneAttempt([status EXCEPT ![n] = x], Taken(n, k))
           /\ \A m \in nodes : status[m] \in {"executing", "retrying", "completed"} => n \notin deps[m]
  <1>1. k \in Busy(thread, n)
    BY DEF Busy
  <1>2. status[n] = "executing" /\ Busy(thread, n) = {k}
    BY <1>1 DEF OrderInv, OneAttempt
  <1>3. n \in nodes
    BY <1>2 DEF OrderInv
  <1>4. \A m \in nodes : status[m] \in {"executing", "retrying", "completed"} => n \notin deps[m]
    BY <1>2 DEF OrderInv, AfterDeps
  <1>5. OneAttempt([status EXCEPT ![n] = x], Taken(n, k))
    <2>1. \A m \in Nodes : [status EXCEPT ![n] = x][m] = IF m = n THEN x ELSE status[m]
      BY RecTypes DEF OrderInv, RecInv
    <2>2. \A m \in Nodes : Busy(Taken(n, k), m) = IF m = n THEN Busy(thread, m) \ {k} ELSE Busy(thread, m)
      BY RecTypes, TakenCounts DEF OrderInv, RecInv
    <2>3. Busy(Taken(n, k), n) = {}
      BY <1>2, <2>2
    <2> QED  BY <2>1, <2>2, <2>3 DEF OrderInv, OneAttempt
  <1> QED  BY <1>2, <1>3, <1>4, <1>5

\* A handled event after which what is runnable has been started.
LEMMA HandleSpawns ==
    ASSUME ReconcilerConstants, OrderInv, RecInv', NEW n \in Nodes, NEW k \in Slots,
           phase = "loop", thread[n][k] # "idle", UNCHANGED <<nodes, deps>>,
           NEW x \in {"completed", "retrying"},
           spawnRunnable(nodes, deps, [status EXCEPT ![n] = x], Taken(n, k), active - 1)
    PROVE  OrderInv'
  <1> DEFINE t0 == [status EXCEPT ![n] = x]
  <1>1. /\ n \in nodes /\ status[n] = "executing" /\ OneAttempt(t0, Taken(n, k))
        /\ \A m \in nodes : status[m] \in {"executing", "retrying", "completed"} => n \notin deps[m]
    BY HandledNode DEF NodeStates
  <1>2. /\ nodes \in SUBSET Nodes /\ status \in [Nodes -> NodeStates] /\ thread \in Threads
        /\ active - 1 \in Int /\ Taken(n, k) \in Threads
    BY RecTypes, TakenCounts DEF OrderInv, RecInv
  <1>3. /\ t0 \in [Nodes -> NodeStates]
        /\ \A m \in Nodes : t0[m] = IF m = n THEN x ELSE status[m]
    BY <1>2 DEF NodeStates
  <1>4. \A m \in nodes : deps[m] \subseteq Nodes
    BY <1>2 DEF OrderInv, Valid
  <1>5. AfterDeps(nodes, deps, t0)
    <2> SUFFICES ASSUME NEW m \in nodes, t0[m] \in {"executing", "retrying", "completed"},
                        NEW d \in deps[m]
                 PROVE  d \in nodes /\ t0[d] = "completed"
      BY DEF AfterDeps
    <2>1. status[m] \in {"executing", "retrying", "completed"}
      BY <1>1, <1>2, <1>3
    <2>2. d # n /\ d \in nodes /\ status[d] = "completed"
      BY <1>1, <2>1 DEF OrderInv, AfterDeps
    <2> QED  BY <1>2, <1>3, <2>2
  <1> HIDE DEF t0
  <1>6. spawnRunnable(nodes, deps, t0, Taken(n, k), active - 1)
    BY DEF t0
  <1>7. /\ OneAttempt(status', thread') /\ AfterDeps(nodes, deps, status')
        /\ \A m \in Nodes : status'[m] = IF m \in RunnableNodes(nodes, deps, t0) THEN "executing" ELSE t0[m]
    BY <1>1, <1>2, <1>3, <1>4, <1>5, <1>6, SpawnOrdered
  <1>8. \A m \in Nodes \ nodes : status'[m] = "pending"
    <2>1. RunnableNodes(nodes, deps, t0) \subseteq nodes
      BY DEF RunnableNodes
    <2> QED  BY <1>1, <1>3, <1>7, <2>1 DEF OrderInv
  <1> QED  BY <1>7, <1>8 DEF OrderInv

\* A failure ends what waits for the node, and nothing that works or is done.
LEMMA DownstreamWaits ==
    ASSUME ReconcilerConstants, OrderInv, NEW n \in nodes, status[n] = "executing"
    PROVE  /\ Downstream(n) \subseteq nodes /\ n \in Downstream(n)
           /\ \A m \in Downstream(n) : m = n \/ status[m] \in {"pending", "retrying"}
  <1> DEFINE S == {n} \union {m \in nodes : status[m] \in {"pending", "retrying"}}
  <1>1. status \in [Nodes -> NodeStates] /\ nodes \subseteq Nodes
    BY RecTypes DEF OrderInv, RecInv
  <1>2. ASSUME NEW x \in nodes, status[x] \notin {"failed", "completed"}, deps[x] \intersect S # {}
        PROVE  x \in S
    <2>1. status[x] \in {"pending", "retrying", "executing"}
      BY <1>1, <1>2 DEF NodeStates
    <2>2. status[x] # "executing"
      BY <1>2 DEF OrderInv, AfterDeps
    <2> QED  BY <2>1, <2>2
  <1>3. S \in SUBSET nodes /\ n \in S
    OBVIOUS
  <1>4. Downstream(n) \subseteq S
    BY <1>2, <1>3 DEF Downstream
  <1> QED  BY <1>4 DEF Downstream

LEMMA FailedOrdered ==
    ASSUME ReconcilerConstants, OrderInv, RecInv', NEW n \in Nodes, NEW k \in Slots, HandleFailed(n, k)
    PROVE  OrderInv'
  <1>a. /\ phase = "loop" /\ thread[n][k] # "idle"
        /\ status' = [m \in Nodes |-> IF m \in Downstream(n) THEN "failed" ELSE status[m]]
        /\ thread' = Taken(n, k) /\ UNCHANGED <<nodes, deps>>
    BY DEF HandleFailed
  <1>b. /\ n \in nodes /\ status[n] = "executing" /\ OneAttempt([status EXCEPT ![n] = "failed"], Taken(n, k))
    BY <1>a, HandledNode DEF NodeStates
  <1>c. /\ Downstream(n) \subseteq nodes /\ n \in Downstream(n) /\ nodes \subseteq Nodes
        /\ \A m \in Downstream(n) : m = n \/ status[m] \in {"pending", "retrying"}
        /\ status \in [Nodes -> NodeStates]
    BY <1>b, DownstreamWaits, RecTypes DEF OrderInv, RecInv
  <1>d. \A m \in Nodes : status'[m] = IF m \in Downstream(n) THEN "failed" ELSE status[m]
    BY <1>a
  <1>1. OneAttempt(status', thread')
    <2>1. ASSUME NEW m \in Nodes
          PROVE  (status'[m] = "executing" <=> [status EXCEPT ![n] = "failed"][m] = "executing")
      BY <1>c, <1>d
    <2> QED  BY <1>a, <1>b, <2>1 DEF OneAttempt
  <1>2. AfterDeps(nodes, deps, status')
    <2> SUFFICES ASSUME NEW m \in nodes, status'[m] \in {"executing", "retrying", "completed"},
                        NEW d \in deps[m]
                 PROVE  d \in nodes /\ status'[d] = "completed"
      BY DEF AfterDeps
    <2>1. status[m] \in {"executing", "retrying", "completed"}
      BY <1>c, <1>d
    <2>2. d \in nodes /\ status[d] = "completed"
      BY <2>1 DEF OrderInv, AfterDeps
    <2>3. d \notin Downstream(n)
      BY <1>b, <1>c, <2>2
    <2> QED  BY <1>c, <1>d, <2>2, <2>3
  <1>3. \A m \in Nodes \ nodes : status'[m] = "pending"
    BY <1>c, <1>d DEF OrderInv
  <1> QED  BY <1>a, <1>1, <1>2, <1>3 DEF OrderInv

LEMMA HandleOrdered ==
    ASSUME ReconcilerConstants, OrderInv, RecInv', NEW n \in Nodes, NEW k \in Slots, Handle(n, k)
    PROVE  OrderInv'
  <1>1. CASE HandleCompleted(n, k)
    <2> DEFINE s == [status EXCEPT ![n] = "completed"]
    <2>a. /\ phase = "loop" /\ thread[n][k] # "idle" /\ UNCHANGED <<nodes, deps>>
      BY <1>1 DEF HandleCompleted
    <2>1. CASE ~IsTerminal(s)
      BY <1>1, <2>a, <2>1, HandleSpawns DEF HandleCompleted
    <2>2. CASE IsTerminal(s)
      <3>1. /\ status' = s /\ thread' = Taken(n, k)
        BY <1>1, <2>2 DEF HandleCompleted
      <3>2. /\ n \in nodes /\ status[n] = "executing" /\ OneAttempt(s, Taken(n, k))
            /\ \A m \in nodes : status[m] \in {"executing", "retrying", "completed"} => n \notin deps[m]
        BY <2>a, HandledNode DEF NodeStates
      <3>3. /\ status \in [Nodes -> NodeStates] /\ nodes \subseteq Nodes
            /\ \A m \in Nodes : s[m] = IF m = n THEN "completed" ELSE status[m]
        BY RecTypes DEF OrderInv, RecInv
      <3> HIDE DEF s
      <3>4. AfterDeps(nodes, deps, s)
        <4> SUFFICES ASSUME NEW m \in nodes, s[m] \in {"executing", "retrying", "completed"},
                            NEW d \in deps[m]
                     PROVE  d \in nodes /\ s[d] = "completed"
          BY DEF AfterDeps
        <4>1. status[m] \in {"executing", "retrying", "completed"}
          BY <3>2, <3>3
        <4>2. d # n /\ d \in nodes /\ status[d] = "completed"
          BY <3>2, <4>1 DEF OrderInv, AfterDeps
        <4> QED  BY <3>3, <4>2
      <3>5. \A m \in Nodes \ nodes : s[m] = "pending"
        BY <3>2, <3>3 DEF OrderInv
      <3> QED  BY <2>a, <3>1, <3>2, <3>4, <3>5 DEF OrderInv
    <2> QED  BY <2>1, <2>2
  <1>2. CASE HandleRetry(n, k)
    <2>1. /\ phase = "loop" /\ thread[n][k] # "idle" /\ UNCHANGED <<nodes, deps>>
          /\ spawnRunnable(nodes, deps, [status EXCEPT ![n] = "retrying"], Taken(n, k), active - 1)
      BY <1>2 DEF HandleRetry
    <2> QED  BY <2>1, HandleSpawns
  <1>3. CASE HandleFailed(n, k)
    BY <1>3, FailedOrdered
  <1> QED  BY <1>1, <1>2, <1>3 DEF Handle

LEMMA ExecuteOrdered ==
    ASSUME ReconcilerConstants, OrderInv, RecInv', Begin \/ SpawnFirst \/ Cancelled
    PROVE  OrderInv'
  <1>1. CASE Begin \/ Cancelled
    BY <1>1 DEF Begin, Cancelled, OrderInv
  <1>2. CASE SpawnFirst
    <2>a. spawnRunnable(nodes, deps, status, thread, active) /\ UNCHANGED <<nodes, deps>>
      BY <1>2 DEF SpawnFirst
    <2>b. /\ nodes \in SUBSET Nodes /\ status \in [Nodes -> NodeStates] /\ thread \in Threads /\ active \in Int
          /\ \A n \in nodes : deps[n] \subseteq nodes
      BY RecTypes DEF OrderInv, RecInv, Valid
    <2>1. /\ OneAttempt(status', thread') /\ AfterDeps(nodes, deps, status')
          /\ \A n \in Nodes : status'[n] = IF n \in RunnableNodes(nodes, deps, status) THEN "executing" ELSE status[n]
      BY <2>a, <2>b, SpawnOrdered DEF OrderInv
    <2>2. \A n \in Nodes \ nodes : status'[n] = "pending"
      BY <2>1 DEF OrderInv, RunnableNodes
    <2> QED  BY <2>a, <2>1, <2>2 DEF OrderInv
  <1> QED  BY <1>1, <1>2

LEMMA MergeOrdered ==
    ASSUME ReconcilerConstants, MergeKinds \subseteq {"add", "late"}, OrderInv, RecInv',
           NEW a \in SUBSET Nodes, NEW c \in SUBSET Nodes, NEW g \in Trees,
           MergeAndInject(a, c, g) \/ MergeRejected(a, c, g)
    PROVE  OrderInv'
  <1>1. ~MergeRejected(a, c, g) /\ c = {} /\ MergeAndInject(a, c, g)
    BY DEF MergeAndInject, MergeRejected
  <1> DEFINE ns == nodes \union a
  <1>2. /\ nodes' = ns /\ deps' = g /\ Valid(ns, g)
        /\ \A n \in nodes : g[n] = deps[n]
    BY <1>1 DEF MergeAndInject, Merge
  <1>3. /\ nodes \in SUBSET Nodes /\ ns \in SUBSET Nodes /\ status \in [Nodes -> NodeStates]
        /\ thread \in Threads /\ active \in Int /\ \A n \in ns : g[n] \subseteq Nodes
    BY <1>2, RecTypes DEF OrderInv, RecInv, Valid
  <1>4. IF listening THEN spawnRunnable(ns, g, status, thread, active)
                     ELSE UNCHANGED <<status, thread, active>>
    <2>1. [n \in Nodes |-> IF n \in c THEN "pending" ELSE status[n]] = status
      BY <1>1, <1>3
    <2> QED  BY <1>1, <2>1 DEF MergeAndInject, Merge
  <1>5. AfterDeps(ns, g, status)
    <2> SUFFICES ASSUME NEW n \in ns, status[n] \in {"executing", "retrying", "completed"}, NEW d \in g[n]
                 PROVE  d \in ns /\ status[d] = "completed"
      BY DEF AfterDeps
    <2>1. n \in nodes
      BY <1>3 DEF OrderInv
    <2> QED  BY <1>2, <2>1 DEF OrderInv, AfterDeps
  <1>6. \A n \in Nodes \ ns : status[n] = "pending"
    BY DEF OrderInv
  <1> HIDE DEF ns
  <1>7. CASE listening
    <2>1. /\ OneAttempt(status', thread') /\ AfterDeps(ns, g, status')
          /\ \A n \in Nodes : status'[n] = IF n \in RunnableNodes(ns, g, status) THEN "executing" ELSE status[n]
      BY <1>3, <1>4, <1>5, <1>7, SpawnOrdered DEF OrderInv
    <2>2. \A n \in Nodes \ ns : status'[n] = "pending"
      BY <1>6, <2>1 DEF RunnableNodes
    <2> QED  BY <1>2, <2>1, <2>2 DEF OrderInv
  <1>8. CASE ~listening
    <2>1. UNCHANGED <<status, thread>>
      BY <1>4, <1>8
    <2> QED  BY <1>2, <1>5, <1>6, <2>1 DEF OrderInv
  <1> QED  BY <1>7, <1>8

LEMMA OrderInit ==
    ASSUME ReconcilerConstants, ReconcilerInit
    PROVE  OrderInv
  <1>1. OneAttempt(status, thread)
    BY DEF ReconcilerInit, OneAttempt, Busy
  <1>2. Valid(nodes, deps) /\ AfterDeps(nodes, deps, status)
    BY DEF ReconcilerInit, Valid, AfterDeps, ReconcilerConstants
  <1> QED  BY <1>1, <1>2, RecInvInit DEF ReconcilerInit, OrderInv, ReconcilerConstants

LEMMA OrderStep ==
    ASSUME ReconcilerConstants, MergeKinds \subseteq {"add", "late"}, OrderInv, [ReconcilerNext]_reconcilerVars
    PROVE  OrderInv'
  <1>1. RecInv'
    BY RecInvStep DEF OrderInv
  <1>2. CASE \E n \in Nodes, k \in Slots : Thread(n, k)
    <2>1. PICK n \in Nodes, k \in Slots : Thread(n, k)
      BY <1>2
    <2>2. \A m \in Nodes : Busy(thread', m) = Busy(thread, m)
      BY <2>1, ThreadCounts DEF OrderInv
    <2>3. UNCHANGED <<nodes, deps, status, phase, tree>>
      BY <2>1 DEF Thread, SpawnIntent, NodeEnds, Advance
    <2> QED  BY <1>1, <2>2, <2>3 DEF OrderInv, OneAttempt
  <1>3. CASE UNCHANGED reconcilerVars
    BY <1>1, <1>3 DEF reconcilerVars, OrderInv
  <1> QED  BY <1>1, <1>2, <1>3, HandleOrdered, ExecuteOrdered, MergeOrdered DEF ReconcilerNext

LEMMA OrderAlways ==
    ASSUME ReconcilerConstants, MergeKinds \subseteq {"add", "late"}
    PROVE  ReconcilerSpec => []OrderInv
  <1> QED  BY OrderInit, OrderStep, PTL DEF ReconcilerSpec

\* For every finite set of nodes and every graph without a cycle, with merges
\* that add nodes at any time: a node works only after all that it depends on has
\* completed, and in one attempt at a time (spawnRunnable, RunnableNodes,
\* MarkFailed).
THEOREM DependenciesFirst ==
    ASSUME ReconcilerConstants, MergeKinds \subseteq {"add", "late"}
    PROVE  ReconcilerSpec => []DepsCompleted
  <1>1. ASSUME OrderInv  PROVE DepsCompleted
    <2> SUFFICES ASSUME NEW n \in nodes, status[n] \in {"executing", "retrying", "completed"}
                 PROVE  /\ \A d \in deps[n] : d \in nodes /\ status[d] = "completed"
                        /\ Cardinality(Busy(thread, n)) = IF status[n] = "executing" THEN 1 ELSE 0
      BY DEF DepsCompleted, Busy
    <2>1. n \in Nodes
      BY <1>1 DEF OrderInv, RecInv, ReconcilerTypes
    <2>2. \A d \in deps[n] : d \in nodes /\ status[d] = "completed"
      BY <1>1 DEF OrderInv, AfterDeps
    <2>3. CASE status[n] = "executing"
      <3>1. PICK k \in Slots : Busy(thread, n) = {k}
        BY <1>1, <2>1, <2>3 DEF OrderInv, OneAttempt
      <3> QED  BY <2>2, <2>3, <3>1, FS_Singleton
    <2>4. CASE status[n] # "executing"
      <3>1. Busy(thread, n) = {}
        BY <1>1, <2>1, <2>4 DEF OrderInv, OneAttempt
      <3> QED  BY <2>2, <2>4, <3>1, FS_EmptySet
    <2> QED  BY <2>3, <2>4
  <1> QED  BY <1>1, OrderAlways, PTL

-----------------------------------------------------------------------------
(* The end of Execute.                                                      *)

LEMMA SpawnAttended ==
    ASSUME ReconcilerConstants, NEW ns \in SUBSET Nodes, NEW g, NEW s \in [Nodes -> NodeStates],
           NEW t \in Threads, NEW count \in Int, spawnRunnable(ns, g, s, t, count),
           Attended(ns, s, t)
    PROVE  /\ Attended(ns, status', thread')
           /\ \A n \in Nodes : status'[n] = IF n \in RunnableNodes(ns, g, s) THEN "executing" ELSE s[n]
  <1> DEFINE run == RunnableNodes(ns, g, s)
  <1>1. /\ \A n \in Nodes : status'[n] = IF n \in run THEN "executing" ELSE s[n]
        /\ \A n \in Nodes : thread'[n] =
              IF n \in run THEN [t[n] EXCEPT ![FreeSlot(t, n)] = "spawn"] ELSE t[n]
        /\ \A n \in run : FreeSlot(t, n) \in Slots
    BY FreeSlotFree DEF spawnRunnable
  <1>2. run \subseteq ns
    BY DEF RunnableNodes
  <1> HIDE DEF run
  <1>3. ASSUME NEW n \in Nodes
        PROVE  /\ status'[n] = "executing" => Busy(thread', n) # {}
               /\ Busy(thread', n) # {} => n \in ns
    <2>1. CASE n \in run
      <3>1. t[n] \in [Slots -> Stages]
        BY DEF Threads
      <3>2. thread'[n][FreeSlot(t, n)] = "spawn"
        BY <1>1, <2>1, <3>1
      <3>3. FreeSlot(t, n) \in Busy(thread', n)
        BY <1>1, <2>1, <3>2 DEF Busy
      <3> QED  BY <1>2, <2>1, <3>3
    <2>2. CASE n \notin run
      <3>1. thread'[n] = t[n] /\ status'[n] = s[n]
        BY <1>1, <2>2
      <3>2. Busy(thread', n) = Busy(t, n)
        BY <3>1 DEF Busy
      <3> QED  BY <3>1, <3>2 DEF Attended
    <2> QED  BY <2>1, <2>2
  <1> QED  BY <1>1, <1>3 DEF Attended, run

\* Nothing is in flight after a spawn that ends in an exact count of zero:
\* then, unless a node has failed, all have completed.
LEMMA CompleteAtZero ==
    ASSUME ReconcilerConstants, NEW ns \in SUBSET Nodes, NEW g, Valid(ns, g),
           NEW s \in [Nodes -> NodeStates], NEW t \in Threads, NEW count \in Int,
           spawnRunnable(ns, g, s, t, count), Attended(ns, s, t),
           count = Cardinality(InFlightOf(t)), active' = 0,
           \A n \in ns : s[n] # "failed"
    PROVE  \A n \in ns : status'[n] = "completed"
  <1>1. /\ Attended(ns, status', thread')
        /\ \A n \in Nodes : status'[n] = IF n \in RunnableNodes(ns, g, s) THEN "executing" ELSE s[n]
    BY SpawnAttended
  <1>2. Cardinality(InFlightOf(thread')) = 0 /\ status' \in [Nodes -> NodeStates]
    <2>1. active' = Cardinality(InFlight') /\ status' \in [Nodes -> NodeStates]
      BY SpawnExact
    <2>2. InFlight' = InFlightOf(thread')
      BY DEF InFlight, InFlightOf
    <2> QED  BY <2>1, <2>2
  <1>3. /\ RunnableNodes(ns, g, s) = {}
        /\ \A n \in Nodes : s[n] # "executing" /\ status'[n] = s[n]
    BY <1>1, <1>2, SpawnedNothing
  <1>4. \A n \in ns : s[n] \in NodeStates \ {"executing", "failed"}
    BY <1>3
  <1>5. \A n \in ns : s[n] = "completed"
    BY <1>3, <1>4, NothingLeft
  <1> QED  BY <1>3, <1>5

\* The attempt an event comes from leaves its node attended by the others.
LEMMA TakenAttended ==
    ASSUME ReconcilerConstants, CompleteInv, NEW n \in Nodes, NEW k \in Slots,
           thread[n][k] # "idle", NEW x \in NodeStates \ {"executing"}
    PROVE  n \in nodes /\ Attended(nodes, [status EXCEPT ![n] = x], Taken(n, k))
  <1>1. \A m \in Nodes : [status EXCEPT ![n] = x][m] = IF m = n THEN x ELSE status[m]
    BY RecTypes DEF CompleteInv, RecInv
  <1>2. \A m \in Nodes : Busy(Taken(n, k), m) = IF m = n THEN Busy(thread, m) \ {k} ELSE Busy(thread, m)
    BY RecTypes, TakenCounts DEF CompleteInv, RecInv
  <1>3. k \in Busy(thread, n)
    BY DEF Busy
  <1>4. n \in nodes
    BY <1>3 DEF CompleteInv, Attended
  <1>5. Attended(nodes, [status EXCEPT ![n] = x], Taken(n, k))
    BY <1>1, <1>2, <1>4 DEF CompleteInv, Attended
  <1> QED  BY <1>4, <1>5

\* A handled event after which what is runnable has been started.
LEMMA HandleCompletes ==
    ASSUME ReconcilerConstants, CompleteInv, RecInv', NEW n \in Nodes, NEW k \in Slots,
           phase = "loop", thread[n][k] # "idle", UNCHANGED <<nodes, deps>>,
           NEW x \in {"completed", "retrying"}, NEW s,
           spawnRunnable(nodes, deps, [status EXCEPT ![n] = x], Taken(n, k), active - 1),
           s = [status EXCEPT ![n] = x] \/ s = status', ReturnOrWait(s)
    PROVE  CompleteInv'
  <1> DEFINE t0 == [status EXCEPT ![n] = x]
  <1>1. /\ nodes \in SUBSET Nodes /\ status \in [Nodes -> NodeStates] /\ thread \in Threads
        /\ active \in Int /\ Taken(n, k) \in Threads
        /\ active - 1 = Cardinality(InFlightOf(Taken(n, k)))
    BY RecTypes, TakenCounts, FlightFinite DEF CompleteInv, RecInv, ActiveExact
  <1>2. t0 \in [Nodes -> NodeStates]
    BY <1>1 DEF NodeStates
  <1>3. Attended(nodes, t0, Taken(n, k))
    BY TakenAttended DEF NodeStates
  <1> HIDE DEF t0
  <1>4. spawnRunnable(nodes, deps, t0, Taken(n, k), active - 1) /\ (s = t0 \/ s = status')
    BY DEF t0
  <1>5. /\ Attended(nodes, status', thread')
        /\ \A m \in Nodes : status'[m] = IF m \in RunnableNodes(nodes, deps, t0) THEN "executing" ELSE t0[m]
    BY <1>1, <1>2, <1>3, <1>4, SpawnAttended
  <1>6. CompletedIsComplete'
    <2> SUFFICES ASSUME phase' = "returned", tree' = "completed"
                 PROVE  \A m \in nodes : status'[m] = "completed"
      BY DEF CompletedIsComplete
    <2>1. \A m \in nodes : s[m] # "failed"
      BY DEF ReturnOrWait, finalizeTreeState
    <2>2. \A m \in nodes : t0[m] # "failed" /\ (s[m] = "completed" <=> t0[m] = "completed")
      BY <1>1, <1>4, <1>5, <2>1 DEF RunnableNodes
    <2>3. CASE IsTerminal(s)
      <3>1. \A m \in nodes : t0[m] = "completed"
        BY <2>1, <2>2, <2>3 DEF IsTerminal
      <3>2. \A m \in nodes : m \notin RunnableNodes(nodes, deps, t0)
        BY <3>1 DEF RunnableNodes
      <3> QED  BY <1>1, <1>5, <3>1, <3>2
    <2>4. CASE active' = 0
      <3>1. Valid(nodes, deps) /\ active - 1 \in Int
        BY <1>1 DEF CompleteInv
      <3> QED  BY <1>1, <1>2, <1>3, <1>4, <2>2, <2>4, <3>1, CompleteAtZero
    <2> QED  BY <2>3, <2>4 DEF ReturnOrWait
  <1>7. phase' \notin {"new", "begun"}
    BY DEF ReturnOrWait
  <1> QED  BY <1>5, <1>6, <1>7 DEF CompleteInv

LEMMA FailedCompletes ==
    ASSUME ReconcilerConstants, CompleteInv, RecInv', NEW n \in Nodes, NEW k \in Slots,
           HandleFailed(n, k)
    PROVE  CompleteInv'
  <1>1. /\ phase = "loop" /\ thread[n][k] # "idle"
        /\ \A m \in Nodes : status'[m] = IF m \in Downstream(n) THEN "failed" ELSE status[m]
        /\ thread' = Taken(n, k) /\ UNCHANGED <<nodes, deps>> /\ ReturnOrWait(status')
    BY DEF HandleFailed
  <1>2. n \in nodes /\ Attended(nodes, [status EXCEPT ![n] = "failed"], Taken(n, k))
    BY <1>1, TakenAttended DEF NodeStates
  <1>3. n \in Downstream(n)
    BY <1>2 DEF Downstream
  <1>4. \A m \in Nodes : status'[m] = "executing" => [status EXCEPT ![n] = "failed"][m] = "executing"
    BY <1>1, <1>3, RecTypes DEF CompleteInv, RecInv
  <1>5. Attended(nodes, status', thread')
    BY <1>1, <1>2, <1>4 DEF Attended
  <1>6. phase' = "returned" => tree' = "failed"
    BY <1>1, <1>2, <1>3 DEF ReturnOrWait, finalizeTreeState
  <1>7. phase' \notin {"new", "begun"}
    BY <1>1 DEF ReturnOrWait
  <1> QED  BY <1>1, <1>5, <1>6, <1>7 DEF CompleteInv, CompletedIsComplete

LEMMA AnyHandleCompletes ==
    ASSUME ReconcilerConstants, CompleteInv, RecInv', NEW n \in Nodes, NEW k \in Slots, Handle(n, k)
    PROVE  CompleteInv'
  <1>1. CASE HandleCompleted(n, k)
    <2> DEFINE s == [status EXCEPT ![n] = "completed"]
    <2>1. /\ phase = "loop" /\ thread[n][k] # "idle" /\ UNCHANGED <<nodes, deps>>
      BY <1>1 DEF HandleCompleted
    <2>2. CASE ~IsTerminal(s)
      BY <1>1, <2>1, <2>2, HandleCompletes DEF HandleCompleted
    <2>3. CASE IsTerminal(s)
      <3>1. /\ status' = s /\ thread' = Taken(n, k) /\ phase' = "returned" /\ finalizeTreeState(s)
        BY <1>1, <2>3 DEF HandleCompleted
      <3>2. Attended(nodes, s, Taken(n, k))
        BY <2>1, TakenAttended DEF NodeStates
      <3> HIDE DEF s
      <3>3. CompletedIsComplete'
        BY <2>1, <2>3, <3>1 DEF CompletedIsComplete, IsTerminal, finalizeTreeState
      <3> QED  BY <2>1, <3>1, <3>2, <3>3 DEF CompleteInv
    <2> QED  BY <2>2, <2>3
  <1>2. CASE HandleRetry(n, k)
    <2>1. /\ phase = "loop" /\ thread[n][k] # "idle" /\ UNCHANGED <<nodes, deps>>
          /\ spawnRunnable(nodes, deps, [status EXCEPT ![n] = "retrying"], Taken(n, k), active - 1)
          /\ ReturnOrWait(status')
      BY <1>2 DEF HandleRetry
    <2> QED  BY <2>1, HandleCompletes
  <1>3. CASE HandleFailed(n, k)
    BY <1>3, FailedCompletes
  <1> QED  BY <1>1, <1>2, <1>3 DEF Handle

LEMMA ExecuteCompletes ==
    ASSUME ReconcilerConstants, CompleteInv, RecInv', Begin \/ SpawnFirst \/ Cancelled
    PROVE  CompleteInv'
  <1>1. CASE Begin
    BY <1>1 DEF Begin, CompleteInv, CompletedIsComplete
  <1>2. CASE SpawnFirst
    <2>1. /\ phase = "begun" /\ spawnRunnable(nodes, deps, status, thread, active)
          /\ UNCHANGED <<nodes, deps>> /\ phase' \in {"returned", "loop"}
          /\ phase' = "returned" => active' = 0
      BY <1>2 DEF SpawnFirst
    <2>2. /\ nodes \in SUBSET Nodes /\ status \in [Nodes -> NodeStates] /\ thread \in Threads
          /\ active \in Int /\ active = Cardinality(InFlightOf(thread))
          /\ Attended(nodes, status, thread) /\ Valid(nodes, deps)
      BY <2>1, RecTypes DEF CompleteInv, RecInv, ActiveExact
    <2>3. Attended(nodes, status', thread')
      BY <2>1, <2>2, SpawnAttended
    <2>4. \A n \in nodes : status[n] # "failed"
      BY <2>1, <2>2 DEF CompleteInv
    <2>5. phase' = "returned" => \A n \in nodes : status'[n] = "completed"
      BY <2>1, <2>2, <2>4, CompleteAtZero
    <2> QED  BY <2>1, <2>3, <2>5 DEF CompleteInv, CompletedIsComplete
  <1>3. CASE Cancelled
    BY <1>3 DEF Cancelled, CompleteInv, CompletedIsComplete
  <1> QED  BY <1>1, <1>2, <1>3

LEMMA MergeCompletes ==
    ASSUME ReconcilerConstants, MergeKinds \subseteq {"add", "change"}, CompleteInv, RecInv',
           NEW a \in SUBSET Nodes, NEW c \in SUBSET Nodes, NEW g \in Trees,
           MergeAndInject(a, c, g) \/ MergeRejected(a, c, g)
    PROVE  CompleteInv'
  <1> DEFINE ns == nodes \union a
             s  == [n \in Nodes |-> IF n \in c THEN "pending" ELSE status[n]]
  <1>1. /\ phase # "returned" /\ UNCHANGED phase
        /\ nodes' = ns /\ deps' = g /\ Valid(ns, g)
        /\ IF listening THEN spawnRunnable(ns, g, s, thread, active)
                        ELSE status' = s /\ UNCHANGED <<thread, active>>
        /\ a \intersect nodes = {}
    BY DEF MergeAndInject, MergeRejected, MayMerge, Merge
  <1>2. /\ nodes \in SUBSET Nodes /\ ns \in SUBSET Nodes /\ status \in [Nodes -> NodeStates]
        /\ thread \in Threads /\ active \in Int
    BY RecTypes DEF CompleteInv, RecInv
  <1>3. s \in [Nodes -> NodeStates] /\ \A n \in Nodes : s[n] = IF n \in c THEN "pending" ELSE status[n]
    BY <1>2 DEF NodeStates
  <1>4. Attended(ns, s, thread)
    BY <1>3 DEF CompleteInv, Attended
  <1>5. phase \in {"new", "begun"} => \A n \in Nodes : s[n] \in {"pending", "executing"}
    BY <1>1, <1>2, <1>3 DEF CompleteInv
  <1> HIDE DEF ns, s
  <1>6. CASE listening
    <2>1. /\ Attended(ns, status', thread')
          /\ \A n \in Nodes : status'[n] = IF n \in RunnableNodes(ns, g, s) THEN "executing" ELSE s[n]
      <3>1. spawnRunnable(ns, g, s, thread, active)
        BY <1>1, <1>6
      <3> QED  BY <1>2, <1>3, <1>4, <3>1, SpawnAttended
    <2>2. phase \in {"new", "begun"} => \A n \in Nodes : status'[n] \in {"pending", "executing"}
      BY <1>2, <1>5, <2>1
    <2> QED  BY <1>1, <2>1, <2>2 DEF CompleteInv, CompletedIsComplete
  <1>7. CASE ~listening
    <2>1. status' = s /\ thread' = thread
      BY <1>1, <1>7
    <2> QED  BY <1>1, <1>4, <1>5, <2>1 DEF CompleteInv, CompletedIsComplete
  <1> QED  BY <1>6, <1>7

LEMMA CompleteInit ==
    ASSUME ReconcilerConstants, ReconcilerInit
    PROVE  CompleteInv
  <1>1. Attended(nodes, status, thread)
    BY DEF ReconcilerInit, Attended, Busy
  <1>2. Valid(nodes, deps)
    BY DEF ReconcilerInit, Valid
  <1> QED  BY <1>1, <1>2, RecInvInit
           DEF ReconcilerInit, CompleteInv, CompletedIsComplete, ReconcilerConstants

LEMMA CompleteStep ==
    ASSUME ReconcilerConstants, MergeKinds \subseteq {"add", "change"}, CompleteInv, [ReconcilerNext]_reconcilerVars
    PROVE  CompleteInv'
  <1>1. RecInv'
    BY RecInvStep DEF CompleteInv
  <1>2. CASE \E n \in Nodes, k \in Slots : Thread(n, k)
    <2>1. PICK n \in Nodes, k \in Slots : Thread(n, k)
      BY <1>2
    <2>2. \A m \in Nodes : Busy(thread', m) = Busy(thread, m)
      BY <2>1, ThreadCounts DEF CompleteInv
    <2>3. UNCHANGED <<nodes, deps, status, phase, tree>>
      BY <2>1 DEF Thread, SpawnIntent, NodeEnds, Advance
    <2> QED  BY <1>1, <2>2, <2>3 DEF CompleteInv, Attended, CompletedIsComplete
  <1>3. CASE UNCHANGED reconcilerVars
    BY <1>1, <1>3 DEF reconcilerVars, CompleteInv, CompletedIsComplete
  <1> QED  BY <1>1, <1>2, <1>3, AnyHandleCompletes, ExecuteCompletes, MergeCompletes DEF ReconcilerNext

LEMMA CompleteAlways ==
    ASSUME ReconcilerConstants, MergeKinds \subseteq {"add", "change"}
    PROVE  ReconcilerSpec => []CompleteInv
  <1> QED  BY CompleteInit, CompleteStep, PTL DEF ReconcilerSpec

\* For every finite set of nodes and every graph without a cycle, with merges
\* that add and change nodes until Execute returns: when it returns with the
\* tree completed, every node of it has completed (the exits of Execute,
\* finalizeTreeState).
THEOREM CompleteWhenReported ==
    ASSUME ReconcilerConstants, MergeKinds \subseteq {"add", "change"}
    PROVE  ReconcilerSpec => []CompletedIsComplete
  <1>1. CompleteInv => CompletedIsComplete
    BY DEF CompleteInv
  <1> QED  BY <1>1, CompleteAlways, PTL
=============================================================================
