-------------------------- MODULE MCProcLifecycle --------------------------
(***************************************************************************)
(* Instances of the lifecycle.  c1 and c2 stand for users, schedulers and  *)
(* other processes, c3 for a parent that waits.                            *)
(***************************************************************************)
EXTENDS ProcLifecycle, TLC

CONSTANTS c1, c2, c3, g1, g2, g3

Locked == {"SuspendSubtree", "ResumeSubtree", "SIGKILL", "SIGTERM"}

\* Suspends and resumes that hold resumeMu, every kill, and a waiting parent.
LockedOps == [c \in Callers |-> IF c = c3 THEN {"WaitChild", "Reap"} ELSE Locked]

\* Every call that the locked instance leaves out, against a resume and a kill.
AnyOps ==
    [c \in Callers |-> CASE c = c1 -> {"Suspend", "SIGPAUSE"}
                         [] c = c2 -> {"ResumeSubtree", "SIGKILL", "Wait"}
                         [] c = c3 -> {"WaitChild"}]

\* One suspender, one resumer, one parent, and both kinds of kill.
HandOverOps ==
    [c \in Callers |-> CASE c = c1 -> {"SuspendSubtree", "SIGKILL"}
                         [] c = c2 -> {"ResumeSubtree"}
                         [] c = c3 -> {"WaitChild", "SIGTERM"}]

KillOps  == [c \in Callers |-> {"SIGKILL"}]
PauseOps == [c \in Callers |-> IF c = c3 THEN {"ResumeSubtree"} ELSE {"SIGPAUSE"}]
WaitOps  == [c \in Callers |-> IF c = c1 THEN {"Suspend"} ELSE {"Wait"}]

Interchangeable == Permutations({g2, g3}) \union Permutations({c1, c2})
=============================================================================
