------------------------------ MODULE MCParts ------------------------------
(***************************************************************************)
(* Safety of four parts that share no state: the mount table, a compose    *)
(* engine, a supervisor and the recovery of one suspended process.  One of *)
(* them, chosen initially, takes steps; the others stay where they start,  *)
(* so the states reached are those of each part by itself.                 *)
(*                                                                         *)
(* Two processes with the same mount path: a thread refers to at most one  *)
(* entry and the table to one more, so three entries never run out.  Every *)
(* acyclic graph of four agents.  Two children under each strategy and     *)
(* each policy.  Two objects of one UUID, one in the table and one in the  *)
(* hands of the scanner or of the goroutine that suspended it.             *)
(***************************************************************************)
EXTENDS MountTable, Engine, Supervisor, QuotaWake

CONSTANTS p1, p2, e1, e2, e3, o1, o2

VARIABLE part

partsVars == <<part, vars, engineVars, supervisorVars, quotaVars>>

\* Agents depend on agents with smaller numbers: every shape there is.
AllGraphs == {g \in [Agents -> SUBSET Agents] : \A n \in Agents : \A d \in g[n] : d < n}

SupervisorSpecs ==
    {[strategy |-> "one_for_one",  policy |-> <<"transient", "permanent">>],
     [strategy |-> "one_for_all",  policy |-> <<"permanent", "temporary">>],
     [strategy |-> "rest_for_one", policy |-> <<"transient", "permanent">>]}

\* What the theorems about these parts assume of their constants.
ASSUME PartConstants == SupervisorConstants /\ QuotaConstants

\* The initial state of a part that stays where it starts is one of its own.
PartsInit ==
    /\ part \in {"mounts", "engine", "supervisor", "quota"}
    /\ Init
    /\ EngineInit /\ (part # "engine" => deps = [n \in Agents |-> {}] /\ resumed = {})
    /\ SupervisorInit /\ (part # "supervisor" => spec.strategy = "one_for_one")
    /\ QuotaInit /\ table = CHOOSE o \in Objects : TRUE

\* Objects that nobody refers to differ in name only: the first one is taken.
FirstFresh ==
    table' \notin {table, NoObject} => table' = CHOOSE o \in Objects : Fresh(o)

\* Bound: what becomes of a child given up is not followed; no property of the
\* supervisor speaks of it, and its events are stale.
StraysStay == \A p \in strays : state'[p] = state[p]

PartsNext ==
    \/ part = "mounts" /\ Next /\ UNCHANGED <<part, engineVars, supervisorVars, quotaVars>>
    \/ part = "engine" /\ EngineNext /\ UNCHANGED <<part, vars, supervisorVars, quotaVars>>
    \/ /\ part = "supervisor" /\ SupervisorNext /\ StraysStay
       /\ UNCHANGED <<part, vars, engineVars, quotaVars>>
    \/ /\ part = "quota" /\ QuotaNext /\ FirstFresh
       /\ UNCHANGED <<part, vars, engineVars, supervisorVars>>

PartsSpec == PartsInit /\ [][PartsNext]_partsVars
=============================================================================
