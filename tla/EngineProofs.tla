---------------------------- MODULE EngineProofs ----------------------------
(***************************************************************************)
(* A compose run feeds every agent with the outputs of all it depends on,  *)
(* and accounts for every agent, for any acyclic graph of any size.        *)
(***************************************************************************)
EXTENDS Engine, FiniteSetTheorems, WellFoundedInduction, TLAPS

\* The layers done so far are closed under dependencies, and the current one
\* depends on them only.
LayersInOrder ==
    /\ \A n \in seen : deps[n] \subseteq seen
    /\ \A n \in layer : deps[n] \subseteq seen /\ n \notin seen
    /\ Seeded \subseteq seen
    /\ phase # "waiting" => layer = {}

\* Where a goroutine is tells whether its agent has a process.
ThreadOfLayer ==
    /\ \A n \in Agents : thread[n] # "none" => n \in layer
    /\ \A n \in Agents : n \notin seen \union layer => proc[n] = "none"
    /\ \A n \in Agents : thread[n] = "spawn" => proc[n] = "none" /\ ~DepsFailed(n)
    /\ \A n \in layer : thread[n] = "none" => outcome[n] # "none" /\ (outcome[n] = "ok" => proc[n] = "ok")

\* Every agent of the layers done has a result, and "ok" is never a guess:
\* neither as a result nor as the first value of Done.
ResultsTell ==
    /\ \A n \in seen \ Forgotten : result[n] # "none"
    /\ \A n \in Agents : result[n] = "ok" => proc[n] = "ok"
    /\ \A n \in Agents : told[n] = "ok" => proc[n] = "ok"

\* Unless the run is cancelled, a goroutine that has returned has heard from
\* its process, and passed on what it heard.
NothingLeft ==
    ~cancelled =>
        /\ \A n \in seen : proc[n] # "none" => told[n] # "none" /\ result[n] = told[n]
        /\ \A n \in layer : thread[n] = "none" /\ proc[n] # "none" => told[n] # "none" /\ outcome[n] = told[n]
        /\ phase = "over" => \A n \in Agents \ seen : result[n] # "none"

EngineInv ==
    /\ EngineTypeOK
    /\ LayersInOrder
    /\ ThreadOfLayer
    /\ ResultsTell
    /\ UpstreamDone
    /\ NothingLeft

-----------------------------------------------------------------------------
(* Facts about graphs.                                                      *)

LEMMA LayeringExists ==
    ASSUME deps \in Graphs
    PROVE  /\ deps \in [Agents -> SUBSET Agents]
           /\ Layering \in [Agents -> 1..Cardinality(Agents)]
           /\ IsLayering(deps, Layering)
           /\ \A n \in Agents : Layering[n] \in Nat
  <1>1. deps \in [Agents -> SUBSET Agents] /\ \E level \in [Agents -> 1..Cardinality(Agents)] : IsLayering(deps, level)
    BY GraphsAssumption
  <1>2. Layering \in [Agents -> 1..Cardinality(Agents)] /\ IsLayering(deps, Layering)
    BY <1>1 DEF Layering
  <1>3. Cardinality(Agents) \in Nat  BY GraphsAssumption, FS_CardinalityType
  <1> QED  BY <1>1, <1>2, <1>3

(* As long as an agent is left there is a next layer: an agent of the least *)
(* level among those left depends on none of them.                          *)
LEMMA NextLayerNonempty ==
    ASSUME deps \in Graphs, NEW S \in SUBSET Agents, S # Agents
    PROVE  NextLayer(S) # {}
  <1> DEFINE T == {Layering[n] : n \in Agents \ S}
  <1>1. T \subseteq Nat /\ T # {}  BY LayeringExists
  <1>2. PICK x \in T : \A y \in T : ~(<<y, x>> \in OpToRel(<, Nat))
    BY <1>1, NatLessThanWellFounded, WFMin
  <1>3. \A y \in T : ~(y < x)
    <2> TAKE y \in T
    <2>1. y \in Nat /\ x \in Nat  BY <1>1
    <2> HIDE DEF T
    <2>2. y < x => <<y, x>> \in OpToRel(<, Nat)  BY <2>1 DEF OpToRel
    <2> QED  BY <2>2, <1>2
  <1>4. PICK n \in Agents \ S : x = Layering[n]  BY <1>2
  <1>5. \A d \in deps[n] : d \in S
    BY <1>3, <1>4, LayeringExists DEF IsLayering
  <1> QED  BY <1>4, <1>5, LayeringExists DEF NextLayer

(* The layers that a resume skips are closed under dependencies and hold    *)
(* everything the resumed agent depends on.                                 *)
LEMMA SkippedClosed ==
    ASSUME deps \in Graphs, NEW r \in Agents
    PROVE  /\ ThroughLayerOf(r) \in SUBSET Agents
           /\ r \in ThroughLayerOf(r)
           /\ \A n \in ThroughLayerOf(r) : deps[n] \subseteq ThroughLayerOf(r)
           /\ TransitiveUpstream(r) \subseteq ThroughLayerOf(r)
  <1> DEFINE P == ThroughLayerOf(r)
  <1>1. P \in SUBSET Agents /\ r \in P  BY LayeringExists DEF ThroughLayerOf
  <1>2. \A n \in P : \A d \in deps[n] : d \in P
    BY LayeringExists DEF ThroughLayerOf, IsLayering
  <1>3. deps[r] \subseteq P /\ \A m \in P : deps[m] \subseteq P  BY <1>1, <1>2
  <1> HIDE DEF P
  <1>4. TransitiveUpstream(r) \subseteq P  BY <1>1, <1>3 DEF TransitiveUpstream
  <1> QED  BY <1>1, <1>3, <1>4 DEF P

-----------------------------------------------------------------------------
LEMMA InitEngineInv == EngineInit => EngineInv
  <1> SUFFICES ASSUME EngineInit PROVE EngineInv  OBVIOUS
  <1>1. deps \in Graphs /\ resumed \in SUBSET Agents  BY DEF EngineInit
  <1>2. seen \in SUBSET Agents /\ (\A n \in seen : deps[n] \subseteq seen) /\ Seeded \subseteq seen
    <2>1. seen = UNION {ThroughLayerOf(r) : r \in resumed}  BY DEF EngineInit
    <2>2. \A r \in resumed : r \in ThroughLayerOf(r) /\ TransitiveUpstream(r) \subseteq ThroughLayerOf(r)
      BY <1>1, SkippedClosed
    <2>3. \A r \in resumed : ThroughLayerOf(r) \in SUBSET Agents /\ \A n \in ThroughLayerOf(r) : deps[n] \subseteq ThroughLayerOf(r)
      BY <1>1, SkippedClosed
    <2>4. seen \in SUBSET Agents /\ \A n \in seen : deps[n] \subseteq seen  BY <2>1, <2>3
    <2>5. Seeded \subseteq seen  BY <2>1, <2>2 DEF Seeded
    <2> QED  BY <2>4, <2>5
  <1>3. seen \ Forgotten \subseteq Seeded
    <2>1. seen = UNION {ThroughLayerOf(r) : r \in resumed}  BY DEF EngineInit
    <2>2. Forgotten = seen \ Seeded  BY ONLY <2>1 DEF Forgotten
    <2> QED  BY <2>2
  <1>4. EngineTypeOK  BY <1>1, <1>2 DEF EngineTypeOK, EngineInit, Outcomes
  <1>5. LayersInOrder  BY <1>2 DEF LayersInOrder, EngineInit
  <1>6. ThreadOfLayer  BY <1>2 DEF ThreadOfLayer, EngineInit
  <1>7. ResultsTell  BY <1>2, <1>3 DEF ResultsTell, EngineInit
  <1>8. UpstreamDone  BY DEF UpstreamDone, Started, EngineInit
  <1>9. NothingLeft  BY <1>2 DEF NothingLeft, EngineInit
  <1> QED  BY <1>4, <1>5, <1>6, <1>7, <1>8, <1>9 DEF EngineInv

(* Which agents a resume seeds and forgets is settled when it starts.       *)
LEMMA SeedsFixed ==
    ASSUME UNCHANGED <<deps, resumed>>
    PROVE  Seeded' = Seeded /\ Forgotten' = Forgotten
  BY DEF Seeded, Forgotten, TransitiveUpstream, ThroughLayerOf, Layering, IsLayering

(* An agent that is started has its whole upstream behind it.               *)
LEMMA UpstreamReady ==
    ASSUME EngineInv, NEW n \in Agents, thread[n] = "spawn", NEW d \in deps[n] \ Forgotten
    PROVE  d \in Agents /\ d \in seen /\ proc[d] = "ok"
  <1>1. n \in layer /\ ~DepsFailed(n)  BY DEF EngineInv, ThreadOfLayer
  <1>2. d \in seen  BY <1>1 DEF EngineInv, LayersInOrder
  <1>3. result[d] = "ok"  BY <1>1, <1>2 DEF EngineInv, ResultsTell, DepsFailed
  <1> QED  BY <1>2, <1>3 DEF EngineInv, EngineTypeOK, ResultsTell

LEMMA StopStep == EngineInv /\ Stop => EngineInv'
  <1> SUFFICES ASSUME EngineInv, Stop PROVE EngineInv'  OBVIOUS
  <1> USE DEF Stop, EngineInv
  <1>1. Seeded' = Seeded /\ Forgotten' = Forgotten  BY SeedsFixed
  <1>2. EngineTypeOK'  BY DEF EngineTypeOK
  <1>3. LayersInOrder'  BY <1>1 DEF LayersInOrder
  <1>4. ThreadOfLayer'  BY DEF ThreadOfLayer, DepsFailed
  <1>5. ResultsTell'  BY <1>1 DEF ResultsTell
  <1>6. UpstreamDone'  BY <1>1 DEF UpstreamDone, Started
  <1>7. NothingLeft'
    <2>1. ~cancelled => seen = Agents
      BY NextLayerNonempty DEF EngineTypeOK
    <2> QED  BY <2>1 DEF NothingLeft, LayersInOrder
  <1> QED  BY <1>2, <1>3, <1>4, <1>5, <1>6, <1>7

LEMMA ExhaustedStep == EngineInv /\ Exhausted => EngineInv'
  <1> SUFFICES ASSUME EngineInv, Exhausted PROVE EngineInv'  OBVIOUS
  <1> USE DEF Exhausted, EngineInv
  <1>1. Seeded' = Seeded /\ Forgotten' = Forgotten  BY SeedsFixed
  <1>2. EngineTypeOK'  BY DEF EngineTypeOK, Outcomes
  <1>3. LayersInOrder'  BY <1>1 DEF LayersInOrder
  <1>4. layer = {}  BY DEF LayersInOrder
  <1>5. ThreadOfLayer'  BY <1>4 DEF ThreadOfLayer
  <1>6. ResultsTell'  BY <1>1 DEF ResultsTell, EngineTypeOK
  <1>7. UpstreamDone'  BY <1>1 DEF UpstreamDone, Started
  <1>8. NothingLeft'  BY <1>4 DEF NothingLeft, EngineTypeOK
  <1> QED  BY <1>2, <1>3, <1>5, <1>6, <1>7, <1>8

LEMMA StartLayerStep == EngineInv /\ StartLayer => EngineInv'
  <1> SUFFICES ASSUME EngineInv, StartLayer PROVE EngineInv'  OBVIOUS
  <1> USE DEF StartLayer, EngineInv
  <1>1. Seeded' = Seeded /\ Forgotten' = Forgotten  BY SeedsFixed
  <1>2. layer' = {n \in Agents \ seen : deps[n] \subseteq seen} /\ layer = {}
    BY DEF NextLayer, LayersInOrder
  <1>3. \A n \in Agents : DepsFailed(n)' = DepsFailed(n)  BY DEF DepsFailed
  <1>4. EngineTypeOK'  BY <1>2 DEF EngineTypeOK, Outcomes
  <1>5. LayersInOrder'  BY <1>1, <1>2 DEF LayersInOrder
  <1>6. ThreadOfLayer'  BY <1>2, <1>3 DEF ThreadOfLayer
  <1>7. ResultsTell'  BY <1>1 DEF ResultsTell
  <1>8. UpstreamDone'  BY <1>1 DEF UpstreamDone, Started
  <1>9. NothingLeft'  BY <1>2 DEF NothingLeft, ThreadOfLayer
  <1> QED  BY <1>4, <1>5, <1>6, <1>7, <1>8, <1>9

LEMMA CollectLayerStep == EngineInv /\ CollectLayer => EngineInv'
  <1> SUFFICES ASSUME EngineInv, CollectLayer PROVE EngineInv'  OBVIOUS
  <1> USE DEF CollectLayer, EngineInv
  <1>1. Seeded' = Seeded /\ Forgotten' = Forgotten  BY SeedsFixed
  <1>2. used' \in Nat
    <2> DEFINE Paid == {n \in layer : outcome[n] \in {"ok", "failed"} /\ proc[n] # "none"}
    <2>1. IsFiniteSet(Paid)  BY GraphsAssumption, FS_Subset DEF EngineTypeOK
    <2>2. Cardinality(Paid) \in Nat  BY <2>1, FS_CardinalityType
    <2> HIDE DEF Paid
    <2>3. used' \in used..(used + Cardinality(Paid))  BY DEF Paid
    <2> QED  BY <2>2, <2>3 DEF EngineTypeOK
  <1>3. EngineTypeOK'  BY <1>2 DEF EngineTypeOK
  <1>4. LayersInOrder'  BY <1>1 DEF LayersInOrder
  <1>5. ThreadOfLayer'  BY DEF ThreadOfLayer
  <1>6. ResultsTell'  BY <1>1 DEF ResultsTell, EngineTypeOK, ThreadOfLayer
  <1>7. UpstreamDone'  BY <1>1 DEF UpstreamDone, Started
  <1>8. NothingLeft'  BY DEF NothingLeft, EngineTypeOK, LayersInOrder
  <1> QED  BY <1>3, <1>4, <1>5, <1>6, <1>7, <1>8

(* A goroutine that returns says what it was told.                          *)
LEMMA ReturnStep ==
    ASSUME EngineInv, NEW n \in Agents, thread[n] # "none", NEW o \in Outcomes, Return(n, o),
           UNCHANGED <<deps, resumed, seen, layer, proc, told, prompt, result, used, phase, cancelled>>,
           o = "ok" => proc[n] = "ok",
           ~cancelled /\ proc[n] # "none" => told[n] # "none" /\ o = told[n]
    PROVE  EngineInv'
  <1> USE DEF Return, EngineInv
  <1>1. Seeded' = Seeded /\ Forgotten' = Forgotten  BY SeedsFixed
  <1>2. EngineTypeOK'  BY DEF EngineTypeOK
  <1>3. LayersInOrder'  BY <1>1 DEF LayersInOrder
  <1>4. ThreadOfLayer'  BY DEF ThreadOfLayer, DepsFailed, EngineTypeOK, Outcomes
  <1>5. ResultsTell'  BY <1>1 DEF ResultsTell
  <1>6. UpstreamDone'  BY <1>1 DEF UpstreamDone, Started
  <1>7. NothingLeft'  BY DEF NothingLeft, EngineTypeOK
  <1> QED  BY <1>2, <1>3, <1>4, <1>5, <1>6, <1>7

LEMMA SpawnAgentStep ==
    ASSUME EngineInv, NEW n \in Agents, SpawnAgent(n)
    PROVE  EngineInv'
  <1> USE DEF SpawnAgent, EngineInv
  <1>1. Seeded' = Seeded /\ Forgotten' = Forgotten  BY SeedsFixed
  <1>2. n \in layer /\ n \notin seen /\ proc[n] = "none"  BY DEF ThreadOfLayer, LayersInOrder
  <1>3. deps[n] \in SUBSET Agents  BY GraphsAssumption DEF EngineTypeOK
  <1>4. EngineTypeOK'  BY <1>3 DEF EngineTypeOK
  <1>5. LayersInOrder'  BY <1>1 DEF LayersInOrder
  <1>6. ThreadOfLayer'  BY <1>2 DEF ThreadOfLayer, DepsFailed, EngineTypeOK
  <1>7. ResultsTell'  BY <1>1, <1>2 DEF ResultsTell, EngineTypeOK
  <1>8. UpstreamDone'
    <2> SUFFICES ASSUME NEW m \in Agents, Started(m)', NEW d \in deps[m] \ Forgotten
                 PROVE  proc'[d] = "ok" /\ d \in prompt'[m]
      BY <1>1 DEF UpstreamDone
    <2>1. CASE m = n  BY <2>1, <1>2, UpstreamReady DEF EngineTypeOK
    <2>2. CASE m # n
      <3>1. Started(m)  BY <2>2, <1>1 DEF Started, EngineTypeOK
      <3>2. proc[d] = "ok" /\ d \in prompt[m]  BY <3>1 DEF UpstreamDone
      <3> QED  BY <3>2, <2>2, <1>2 DEF EngineTypeOK
    <2> QED  BY <2>1, <2>2
  <1>9. NothingLeft'  BY <1>2 DEF NothingLeft, EngineTypeOK, LayersInOrder
  <1> QED  BY <1>4, <1>5, <1>6, <1>7, <1>8, <1>9

(* What a process does, ending well for good or anything else, changes no   *)
(* first value that is there.                                               *)
LEMMA ProcessStep ==
    ASSUME EngineInv, NEW n \in Agents, Process(n)
    PROVE  EngineInv'
  <1> USE DEF EngineInv
  <1>1. PICK x \in {"running", "suspended", "ok", "failed"} :
          proc[n] \in {"running", "suspended"} /\ proc' = [proc EXCEPT ![n] = x]
    BY DEF Process, ProcessEnds, Suspends, Wakes
  <1>2. UNCHANGED <<deps, resumed, seen, layer, thread, prompt, outcome, result, used, phase, cancelled>>
    BY DEF Process, ProcessEnds, Suspends, Wakes, Says
  <1>3. /\ told' \in [Agents -> {"none", "ok", "failed"}]
        /\ \A m \in Agents : told[m] # "none" => told'[m] = told[m]
        /\ \A m \in Agents : told'[m] = "ok" /\ told[m] # "ok" => proc'[m] = "ok"
    <2>1. CASE ProcessEnds(n)  BY <2>1 DEF ProcessEnds, Says, EngineTypeOK
    <2>2. CASE Suspends(n)  BY <2>2 DEF Suspends, Says, EngineTypeOK
    <2>3. CASE Wakes(n)  BY <2>3 DEF Wakes, EngineTypeOK
    <2> QED  BY <2>1, <2>2, <2>3 DEF Process
  <1>4. \A d \in Agents : /\ proc[d] = "ok" => proc'[d] = "ok"
                          /\ proc[d] = "none" <=> proc'[d] = "none"
    BY <1>1 DEF EngineTypeOK
  <1>5. Seeded' = Seeded /\ Forgotten' = Forgotten  BY <1>2, SeedsFixed
  <1>6. EngineTypeOK'  BY <1>1, <1>2, <1>3 DEF EngineTypeOK
  <1>7. LayersInOrder'  BY <1>2, <1>5 DEF LayersInOrder
  <1>8. ThreadOfLayer'  BY <1>2, <1>4 DEF ThreadOfLayer, DepsFailed, EngineTypeOK
  <1>9. ResultsTell'  BY <1>2, <1>3, <1>4, <1>5 DEF ResultsTell
  <1>10. UpstreamDone'
    <2>1. \A m \in Agents : Started(m)' => Started(m)  BY <1>4, <1>5 DEF Started
    <2>2. \A m \in Agents : deps[m] \in SUBSET Agents  BY GraphsAssumption DEF EngineTypeOK
    <2> QED  BY <1>2, <1>4, <1>5, <2>1, <2>2 DEF UpstreamDone
  <1>11. NothingLeft'  BY <1>2, <1>3, <1>4 DEF NothingLeft, EngineTypeOK
  <1> QED  BY <1>6, <1>7, <1>8, <1>9, <1>10, <1>11

LEMMA CancelStep == EngineInv /\ Cancel => EngineInv'
  <1> SUFFICES ASSUME EngineInv, Cancel PROVE EngineInv'  OBVIOUS
  <1> USE DEF Cancel, EngineInv
  <1>1. Seeded' = Seeded /\ Forgotten' = Forgotten  BY SeedsFixed
  <1>2. EngineTypeOK'  BY DEF EngineTypeOK
  <1>3. LayersInOrder'  BY <1>1 DEF LayersInOrder
  <1>4. ThreadOfLayer'  BY DEF ThreadOfLayer, DepsFailed
  <1>5. ResultsTell'  BY <1>1 DEF ResultsTell
  <1>6. UpstreamDone'  BY <1>1 DEF UpstreamDone, Started
  <1>7. NothingLeft'  BY DEF NothingLeft
  <1> QED  BY <1>2, <1>3, <1>4, <1>5, <1>6, <1>7

LEMMA EngineStep == EngineInv /\ [EngineNext]_engineVars => EngineInv'
  <1> SUFFICES ASSUME EngineInv, [EngineNext]_engineVars PROVE EngineInv'  OBVIOUS
  <1>1. CASE RunLayers
    BY <1>1, StopStep, ExhaustedStep, StartLayerStep, CollectLayerStep DEF RunLayers
  <1>2. ASSUME NEW n \in Agents, SpawnFails(n) PROVE EngineInv'
    <2>1. thread[n] = "spawn" /\ proc[n] = "none"  BY <1>2 DEF SpawnFails, EngineInv, ThreadOfLayer
    <2> QED  BY <1>2, <2>1, ReturnStep DEF SpawnFails, Outcomes
  <1>3. ASSUME NEW n \in Agents, SpawnAgent(n) PROVE EngineInv'  BY <1>3, SpawnAgentStep
  <1>4. ASSUME NEW n \in Agents, Waited(n) PROVE EngineInv'
    <2>1. told[n] \in {"ok", "failed"} /\ (told[n] = "ok" => proc[n] = "ok")
      BY <1>4 DEF Waited, EngineInv, EngineTypeOK, ResultsTell
    <2> QED  BY <1>4, <2>1, ReturnStep DEF Waited, Outcomes
  <1>5. ASSUME NEW n \in Agents, WaitCancelled(n) PROVE EngineInv'
    BY <1>5, ReturnStep DEF WaitCancelled, Outcomes
  <1>6. ASSUME NEW n \in Agents, Process(n) PROVE EngineInv'  BY <1>6, ProcessStep
  <1>7. CASE Cancel  BY <1>7, CancelStep
  <1>8. CASE UNCHANGED engineVars
    <2> USE <1>8 DEF engineVars, EngineInv
    <2>1. Seeded' = Seeded /\ Forgotten' = Forgotten  BY SeedsFixed
    <2>2. EngineTypeOK'  BY DEF EngineTypeOK
    <2>3. LayersInOrder'  BY <2>1 DEF LayersInOrder
    <2>4. ThreadOfLayer'  BY DEF ThreadOfLayer, DepsFailed
    <2>5. ResultsTell'  BY <2>1 DEF ResultsTell
    <2>6. UpstreamDone'  BY <2>1 DEF UpstreamDone, Started
    <2>7. NothingLeft'  BY DEF NothingLeft
    <2> QED  BY <2>2, <2>3, <2>4, <2>5, <2>6, <2>7
  <1> QED  BY <1>1, <1>2, <1>3, <1>4, <1>5, <1>6, <1>7, <1>8 DEF EngineNext, ExecuteNode

(* The layers, the goroutines, the processes and the results agree.         *)
THEOREM EngineInvariant == EngineSpec => []EngineInv
  <1>1. EngineInit => EngineInv  BY InitEngineInv
  <1>2. EngineInv /\ [EngineNext]_engineVars => EngineInv'  BY EngineStep
  <1> QED  BY <1>1, <1>2, PTL DEF EngineSpec

(* executeNode and runLayers: for any acyclic graph, resumed anywhere or    *)
(* not, an agent is started only when all it depends on has ended well, and *)
(* its prompt has the output of all of it.                                  *)
THEOREM FedByUpstream == EngineSpec => []UpstreamDone
  <1>1. EngineInv => UpstreamDone  BY DEF EngineInv
  <1> QED  BY <1>1, EngineInvariant, PTL

(* runLayers: a run that ends uncancelled, for spent budget too, has a      *)
(* result for every agent: "ok" for none but those that ended well, and for *)
(* each that was spawned what the first value of its Done says.             *)
THEOREM AccountsForAll == EngineSpec => []RunComplete
  <1>1. EngineInv => RunComplete
    <2> SUFFICES ASSUME EngineInv, phase = "over", ~cancelled, NEW n \in Agents \ Forgotten
                 PROVE  /\ result[n] # "none"
                        /\ result[n] = "ok" => proc[n] = "ok"
                        /\ proc[n] # "none" => told[n] # "none" /\ result[n] = told[n]
      BY DEF RunComplete
    <2> USE DEF EngineInv
    <2>1. layer = {}  BY DEF LayersInOrder
    <2>2. CASE n \in seen  BY <2>2 DEF NothingLeft, ResultsTell
    <2>3. CASE n \notin seen  BY <2>1, <2>3 DEF NothingLeft, ResultsTell, ThreadOfLayer
    <2> QED  BY <2>2, <2>3
  <1> QED  BY <1>1, EngineInvariant, PTL
=============================================================================
