-------------------------- MODULE AdmissionControl --------------------------
(***************************************************************************)
(* What a per-provider concurrency gate promises, with no queue, channel   *)
(* or clock: once a provider has a capacity, that capacity never changes,  *)
(* a caller is inside at most one provider at a time, and never more       *)
(* callers are inside a provider than its capacity.  ProviderGate          *)
(* implements it.                                                          *)
(***************************************************************************)
EXTENDS Naturals, FiniteSets

CONSTANTS Callers, Providers

VARIABLES
    capacity,   \* provider -> its capacity, 0 before the provider is first seen
    inside      \* provider -> the callers with a request in flight to it

avars == <<capacity, inside>>

AInit ==
    /\ capacity = [p \in Providers |-> 0]
    /\ inside = [p \in Providers |-> {}]

\* The first sight of a provider fixes its capacity for good.
Open(p) ==
    /\ capacity[p] = 0
    /\ capacity'[p] \in Nat \ {0}
    /\ capacity' = [capacity EXCEPT ![p] = capacity'[p]]
    /\ UNCHANGED inside

Admit(c, p) ==
    /\ \A q \in Providers : c \notin inside[q]
    /\ Cardinality(inside[p]) < capacity[p]
    /\ inside' = [inside EXCEPT ![p] = @ \union {c}]
    /\ UNCHANGED capacity

Depart(c, p) ==
    /\ c \in inside[p]
    /\ inside' = [inside EXCEPT ![p] = @ \ {c}]
    /\ UNCHANGED capacity

ANext ==
    \E p \in Providers :
        \/ Open(p)
        \/ \E c \in Callers : Admit(c, p) \/ Depart(c, p)

ASpec == AInit /\ [][ANext]_avars
=============================================================================
