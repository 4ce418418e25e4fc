--------------------------- MODULE MCProviderGate ---------------------------
(***************************************************************************)
(* Three processes on two providers.  c1 and c2 are each other's fallback; *)
(* c3 runs on a bare device and falls back on a.  They disagree on a's     *)
(* limit, and c3's declaration is not positive, so the first to reach the  *)
(* gate decides.                                                           *)
(***************************************************************************)
EXTENDS ProviderGate

CONSTANTS c1, c2, c3, a, b

MCPrimaryOf ==
    [c \in Callers |-> CASE c = c1 -> a [] c = c2 -> b [] OTHER -> NoProvider]
MCFallbackOf == [c \in Callers |-> IF c = c1 THEN b ELSE a]
MCProjectLimit ==
    [c \in Callers |-> [p \in Providers |->
        IF p = b THEN 0 ELSE CASE c = c1 -> 1 [] c = c2 -> 2 [] OTHER -> -1]]
MCGlobalLimit == [p \in Providers |-> IF p = a THEN 1 ELSE 0]
=============================================================================
