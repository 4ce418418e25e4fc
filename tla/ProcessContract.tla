--------------------------- MODULE ProcessContract ---------------------------
(***************************************************************************)
(* What the lifecycle promises to everyone who holds a process: it is      *)
(* created, runs, may be suspended and resumed, ends, and is buried; at    *)
(* most one reasoner drives it, a suspended process has none, and a        *)
(* process that was suspended is brought back with a new one or not at     *)
(* all.  There are no flags, channels, locks or goroutine stages.          *)
(***************************************************************************)
CONSTANT Reasoners

VARIABLES
    phase,   \* "created", "running", "suspended", "ended", "buried"
    active   \* the reasoners that have begun and not yet left

cvars == <<phase, active>>

CInit == phase = "created" /\ \E g \in Reasoners : active = {g}

Start == phase = "created" /\ phase' = "running" /\ UNCHANGED active

Pause == phase = "running" /\ active = {} /\ phase' = "suspended" /\ UNCHANGED active

Unpause == phase = "suspended" /\ phase' = "running" /\ UNCHANGED active

Join(g) == phase = "running" /\ active = {} /\ active' = {g} /\ UNCHANGED phase

Leave(g) ==
    /\ phase # "created"
    /\ active' = active \ {g}
    /\ UNCHANGED phase

\* The process ends by its own reasoner, or because no reasoner could be started.
End == phase = "running" /\ phase' = "ended" /\ UNCHANGED active

Bury == phase \in {"suspended", "ended"} /\ phase' = "buried" /\ UNCHANGED active

CNext == Start \/ Pause \/ Unpause \/ End \/ Bury \/ \E g \in Reasoners : Join(g) \/ Leave(g)

CSpec == CInit /\ [][CNext]_cvars
=============================================================================
