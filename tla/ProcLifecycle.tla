---------------------------- MODULE ProcLifecycle ----------------------------
(***************************************************************************)
(* The life of one reasonStep-driven process, seen from everything that    *)
(* acts on it at once: its reasoning goroutines, the kernel calls made by  *)
(* other goroutines (signals, suspend, resume, wait, reap) and the         *)
(* two-phase SIGTERM goroutine.                                            *)
(*                                                                         *)
(* One action is one section under proc.mu, one atomic, channel or         *)
(* WaitGroup operation.  The process has one incarnation of its reasoning  *)
(* goroutine per resume; `Lives' bounds how many are modelled.             *)
(***************************************************************************)
EXTENDS Naturals, FiniteSets

CONSTANTS
    Callers,      \* goroutines that call the kernel about this process
    Lives,        \* incarnations of the reasoning goroutine
    FirstLife,    \* the incarnation that Spawn starts
    Shutdown,     \* the twoPhaseShutdown goroutine
    Nobody,       \* no holder of resumeMu
    OpsOf,        \* caller -> the kernel calls it makes
    SelfSuspends  \* the process may suspend itself: loop, budget, context, quota

Ops == {"Suspend", "SuspendSubtree", "SIGPAUSE", "ResumeSubtree", "SIGKILL",
        "SIGTERM", "Wait", "WaitChild", "Reap"}

ASSUME LifecycleConstants ==
    /\ FirstLife \in Lives
    /\ Callers \intersect Lives = {}
    /\ Shutdown \notin Callers \union Lives
    /\ Nobody \notin Callers
    /\ OpsOf \in [Callers -> SUBSET Ops]
    /\ SelfSuspends \in BOOLEAN

Agents == Callers \union Lives \union {Shutdown}

VARIABLES
    state,             \* Process.State
    suspendRequested,  \* Process.suspendRequested
    suspendReason,     \* Process.SuspendReason, "none" when empty
    exit,              \* Process.Exit, "none" when nil
    done,              \* the one value buffered in Process.Done, "none" if empty
    terminated,        \* Process.terminated is closed
    ctxDone,           \* the context now in Process.ctx is cancelled
    fdOpen,            \* the process has its LLM device open in the VFS
    resumeMu,          \* holder of KernelImpl.resumeMu
    reapOnce,          \* Process.reapOnce: "fresh", "running" or "done"
    pc,                \* agent -> where it is
    op,                \* caller -> the call it is making
    pass,              \* caller -> completed passes of suspendSubtree
    val                \* agent -> exit status in its hands

procVars == <<state, suspendRequested, suspendReason, exit, terminated>>
hostVars == <<ctxDone, fdOpen, resumeMu, reapOnce>>
callVars == <<op, pass>>
vars == <<procVars, hostVars, callVars, done, pc, val>>

States   == {"Created", "Running", "Suspended", "Zombie", "Dead"}
Outcomes == {"completed", "failed", "unexpected", "killed"}
Exits    == Outcomes \union {"suspended", "none"}

SuspendProcessPCs == {"sp_trans", "sp_reason", "sp_exit"}
SuspendPCs == {"ss_check", "ss_recheck", "s_flag", "s_exit", "s_cancel", "s_wait"}
                \union SuspendProcessPCs
ResumePCs  == {"r_check", "r_trans", "r_flag", "r_reason", "r_exit", "r_drain",
               "r_ctx", "r_open"}
FinishPCs  == {"fp_clear", "fp_term", "fp_done"}
KillPCs    == {"k_check", "k_cancel", "ks_trans", "ks_exit", "ks_done", "ks_term", "ks_reap"}
WaitPCs    == {"w_recv", "wc_recv", "wc_check", "rp_check", "rp_once", "rp_wg", "rp_dead"}
CallerPCs  == {"idle"} \union SuspendPCs \union ResumePCs \union FinishPCs
                \union KillPCs \union WaitPCs
LifePCs    == {"unborn", "start", "loop", "defer", "notify", "send", "close", "gone"}
                \union SuspendProcessPCs \union FinishPCs
ShutdownPCs == {"off", "grace", "over"} \union KillPCs
PCs        == CallerPCs \union LifePCs \union ShutdownPCs

maxPasses == 3

\* proc.wg counts the incarnations that have been started and have not returned.
LiveReasoners == {g \in Lives : pc[g] \notin {"unborn", "gone"}}

Terminal == state \in {"Zombie", "Dead"}

validTransitions ==
    [s \in States |->
        CASE s = "Created"   -> {"Running"}
          [] s = "Running"   -> {"Zombie", "Suspended"}
          [] s = "Zombie"    -> {"Dead"}
          [] s = "Suspended" -> {"Running", "Dead"}
          [] s = "Dead"      -> {}]

CanGo(target) == target \in validTransitions[state]

Init ==
    /\ state = "Created"
    /\ suspendRequested = FALSE
    /\ suspendReason = "none"
    /\ exit = "none"
    /\ done = "none"
    /\ terminated = FALSE
    /\ ctxDone = FALSE
    /\ fdOpen = TRUE
    /\ resumeMu = Nobody
    /\ reapOnce = "fresh"
    /\ pc = [a \in Agents |->
               CASE a = FirstLife -> "start"
                 [] a \in Lives \ {FirstLife} -> "unborn"
                 [] a = Shutdown -> "off"
                 [] a \in Callers -> "idle"]
    /\ op = [c \in Callers |-> "none"]
    /\ pass = [c \in Callers |-> 0]
    /\ val = [a \in Agents |-> "none"]

Goto(a, label) == pc' = [pc EXCEPT ![a] = label]

\* A call returns to its caller; a deferred resumeMu.Unlock runs on the way.
Return(c) ==
    /\ Goto(c, IF c = Shutdown THEN "over" ELSE "idle")
    /\ op' = [a \in Callers |-> IF a = c THEN "none" ELSE op[a]]
    /\ pass' = [a \in Callers |-> IF a = c THEN 0 ELSE pass[a]]
    /\ val' = [val EXCEPT ![c] = "none"]
    /\ resumeMu' = IF resumeMu = c THEN Nobody ELSE resumeMu

\* A non-blocking send on Done, whose capacity is one.
TrySend(v) == done' = IF done = "none" THEN v ELSE done
-----------------------------------------------------------------------------
(* Calls begin.  The first test of a call is part of its first step when it *)
(* is made under no lock of the caller's own.                               *)

Call(c, o, label) ==
    /\ pc[c] = "idle"
    /\ o \in OpsOf[c]
    /\ op' = [op EXCEPT ![c] = o]
    /\ Goto(c, label)
    /\ UNCHANGED <<procVars, ctxDone, fdOpen, reapOnce, done, pass, val>>

\* Kernel.Suspend rejects a process that is not Running, and takes no lock.
CallSuspend(c) ==
    /\ state = "Running"
    /\ Call(c, "Suspend", "s_flag")
    /\ UNCHANGED resumeMu

LockResumeMu(c) == resumeMu = Nobody /\ resumeMu' = c

\* Mutant: the public entry point forgets resumeMu too.
SuspendSubtreeUnlocked(c) == Call(c, "SuspendSubtree", "ss_check") /\ UNCHANGED resumeMu

CallSuspendSubtree(c) == Call(c, "SuspendSubtree", "ss_check") /\ LockResumeMu(c)

\* Signal and Kill deliver SIGPAUSE to a process they saw neither suspended
\* nor terminal by calling suspendSubtree, without resumeMu.
CallSIGPAUSE(c) ==
    /\ state \in {"Created", "Running"}
    /\ Call(c, "SIGPAUSE", "ss_check")
    /\ UNCHANGED resumeMu

CallResumeSubtree(c) == Call(c, "ResumeSubtree", "r_check") /\ LockResumeMu(c)

CallKill(c) ==
    /\ \E o \in {"SIGKILL", "SIGTERM"} : Call(c, o, "k_check")
    /\ UNCHANGED resumeMu

CallWait(c) ==
    /\ \/ Call(c, "Wait", "w_recv")
       \/ Call(c, "WaitChild", "wc_recv")
    /\ UNCHANGED resumeMu

CallReap(c) == Call(c, "Reap", "rp_check") /\ UNCHANGED resumeMu
-----------------------------------------------------------------------------
(* suspendSubtree, suspendOneForSubtree and Kernel.Suspend.                 *)

SubtreeCheck(c) ==
    /\ pc[c] = "ss_check"
    /\ IF state = "Running" /\ pass[c] < maxPasses
       THEN /\ Goto(c, "ss_recheck")
            /\ UNCHANGED <<callVars, val, resumeMu>>
       ELSE Return(c)
    /\ UNCHANGED <<procVars, ctxDone, fdOpen, reapOnce, done>>

\* A process that stopped running meanwhile still counts as affected.
SubtreeRecheck(c) ==
    /\ pc[c] = "ss_recheck"
    /\ IF state = "Running"
       THEN Goto(c, "s_flag") /\ UNCHANGED pass
       ELSE Goto(c, "ss_check") /\ pass' = [pass EXCEPT ![c] = @ + 1]
    /\ UNCHANGED <<procVars, hostVars, op, done, val>>

SuspendFlag(c) ==
    /\ pc[c] = "s_flag"
    /\ suspendRequested' = TRUE
    /\ Goto(c, IF op[c] = "Suspend" THEN "s_exit" ELSE "s_cancel")
    /\ UNCHANGED <<state, suspendReason, exit, terminated, hostVars, callVars, done, val>>

\* Kernel.Suspend alone presets Exit for notifySuspendDone to send.
SuspendPresetExit(c) ==
    /\ pc[c] = "s_exit"
    /\ exit' = "suspended"
    /\ Goto(c, "s_cancel")
    /\ UNCHANGED <<state, suspendRequested, suspendReason, terminated, hostVars, callVars, done, val>>

\* Mutant: the suspender waits for a goroutine it has not cancelled.
SuspendForgetsCancel(c) ==
    /\ pc[c] = "s_cancel"
    /\ Goto(c, "s_wait")
    /\ UNCHANGED <<procVars, hostVars, callVars, done, val>>

SuspendCancel(c) ==
    /\ pc[c] = "s_cancel"
    /\ ctxDone' = TRUE
    /\ Goto(c, "s_wait")
    /\ UNCHANGED <<procVars, fdOpen, resumeMu, reapOnce, callVars, done, val>>

\* Mutant: the suspender does not wait for the goroutine.
SuspendNoWait(c) ==
    /\ pc[c] = "s_wait"
    /\ Goto(c, "sp_trans")
    /\ UNCHANGED <<procVars, hostVars, callVars, done, val>>

SuspendWait(c) ==
    /\ pc[c] = "s_wait"
    /\ LiveReasoners = {}
    /\ Goto(c, "sp_trans")
    /\ UNCHANGED <<procVars, hostVars, callVars, done, val>>
-----------------------------------------------------------------------------
(* suspendProcess, run by a caller or by the reasoning goroutine itself.    *)

\* A failed transition makes a caller give up and a goroutine terminate.
SuspendTransition(a) ==
    /\ pc[a] = "sp_trans"
    /\ IF CanGo("Suspended")
       THEN /\ state' = "Suspended"
            /\ Goto(a, "sp_reason")
            /\ UNCHANGED <<callVars, val, resumeMu>>
       ELSE /\ UNCHANGED state
            /\ \/ /\ a \in Lives
                  /\ val' = [val EXCEPT ![a] = "failed"]
                  /\ Goto(a, "fp_clear")
                  /\ UNCHANGED <<callVars, resumeMu>>
               \/ a \in Callers /\ Return(a)
    /\ UNCHANGED <<suspendRequested, suspendReason, exit, terminated, ctxDone, fdOpen, reapOnce, done>>

SuspendStampReason(a) ==
    /\ pc[a] = "sp_reason"
    /\ suspendReason' = "stamped"
    /\ Goto(a, "sp_exit")
    /\ UNCHANGED <<state, suspendRequested, exit, terminated, hostVars, callVars, done, val>>

\* The subtree walk makes another pass; the other callers are done.
SuspendStampExit(a) ==
    /\ pc[a] = "sp_exit"
    /\ exit' = "suspended"
    /\ \/ /\ a \in Lives
          /\ Goto(a, "defer")
          /\ UNCHANGED <<callVars, val, resumeMu>>
       \/ /\ a \in Callers
          /\ op[a] = "Suspend"
          /\ Return(a)
       \/ /\ a \in Callers
          /\ op[a] # "Suspend"
          /\ pass' = [pass EXCEPT ![a] = @ + 1]
          /\ Goto(a, "ss_check")
          /\ UNCHANGED <<op, val, resumeMu>>
    /\ UNCHANGED <<state, suspendRequested, suspendReason, terminated, ctxDone, fdOpen, reapOnce, done>>
-----------------------------------------------------------------------------
(* ResumeSubtree and resumeOneForSubtree.                                   *)

\* Only a Suspended process is resumed.  The model stops resuming when it has
\* no incarnation left.
ResumeCheck(c) ==
    /\ pc[c] = "r_check"
    /\ IF state = "Suspended" /\ \E g \in Lives : pc[g] = "unborn"
       THEN Goto(c, "r_trans") /\ UNCHANGED <<callVars, val, resumeMu>>
       ELSE Return(c)
    /\ UNCHANGED <<procVars, ctxDone, fdOpen, reapOnce, done>>

\* Process.Unsuspend: the flag is cleared only after the transition.
ResumeTransition(c) ==
    /\ pc[c] = "r_trans"
    /\ IF CanGo("Running")
       THEN state' = "Running" /\ Goto(c, "r_flag") /\ UNCHANGED <<callVars, val, resumeMu>>
       ELSE Return(c) /\ UNCHANGED state
    /\ UNCHANGED <<suspendRequested, suspendReason, exit, terminated, ctxDone, fdOpen, reapOnce, done>>

ResumeClearFlag(c) ==
    /\ pc[c] = "r_flag"
    /\ suspendRequested' = FALSE
    /\ Goto(c, "r_reason")
    /\ UNCHANGED <<state, suspendReason, exit, terminated, hostVars, callVars, done, val>>

ResumeClearReason(c) ==
    /\ pc[c] = "r_reason"
    /\ suspendReason' = "none"
    /\ Goto(c, "r_exit")
    /\ UNCHANGED <<state, suspendRequested, exit, terminated, hostVars, callVars, done, val>>

\* Mutant: the ExitStatus of the suspend stays on the running process.
ResumeKeepsExit(c) ==
    /\ pc[c] = "r_exit"
    /\ Goto(c, "r_drain")
    /\ UNCHANGED <<procVars, hostVars, callVars, done, val>>

ResumeClearExit(c) ==
    /\ pc[c] = "r_exit"
    /\ exit' = "none"
    /\ Goto(c, "r_drain")
    /\ UNCHANGED <<state, suspendRequested, suspendReason, terminated, hostVars, callVars, done, val>>

\* A stale suspend notification is taken out of Done.
ResumeDrain(c) ==
    /\ pc[c] = "r_drain"
    /\ done' = "none"
    /\ Goto(c, "r_ctx")
    /\ UNCHANGED <<procVars, hostVars, callVars, val>>

ResumeNewContext(c) ==
    /\ pc[c] = "r_ctx"
    /\ ctxDone' = FALSE
    /\ Goto(c, "r_open")
    /\ UNCHANGED <<procVars, fdOpen, resumeMu, reapOnce, callVars, done, val>>

\* Mutant: the new incarnation is handed the descriptor of the old one.
ResumeReusesDevice(c) ==
    /\ pc[c] = "r_open"
    /\ \E g \in Lives :
         /\ pc[g] = "unborn"
         /\ pc' = [pc EXCEPT ![g] = "loop", ![c] = "idle"]
         /\ op' = [op EXCEPT ![c] = "none"]
    /\ resumeMu' = Nobody
    /\ UNCHANGED <<procVars, ctxDone, fdOpen, reapOnce, pass, done, val>>

\* The device opens and a new incarnation starts, or the process is finished.
ResumeOpen(c) ==
    /\ pc[c] = "r_open"
    /\ \/ \E g \in Lives :
            /\ pc[g] = "unborn"
            /\ fdOpen' = TRUE
            /\ pc' = [pc EXCEPT ![g] = "loop", ![c] = "idle"]
            /\ op' = [op EXCEPT ![c] = "none"]
            /\ resumeMu' = Nobody
            /\ UNCHANGED val
       \/ /\ val' = [val EXCEPT ![c] = "failed"]
          /\ Goto(c, "fp_clear")
          /\ UNCHANGED <<fdOpen, op, resumeMu>>
    /\ UNCHANGED <<procVars, ctxDone, reapOnce, pass, done>>
-----------------------------------------------------------------------------
(* The reasoning goroutine.                                                 *)

LifeStart(g) ==
    /\ pc[g] = "start"
    /\ state' = IF CanGo("Running") THEN "Running" ELSE state
    /\ Goto(g, "loop")
    /\ UNCHANGED <<suspendRequested, suspendReason, exit, terminated, hostVars, callVars, done, val>>

FinishWith(g, verdict) ==
    /\ val' = [val EXCEPT ![g] = verdict]
    /\ Goto(g, "fp_clear")

\* The answer completes the intent; completionVerdict overrides it when a
\* signal, not a suspend, has cancelled the context.
Complete(g) ==
    /\ pc[g] = "loop"
    /\ FinishWith(g, IF ctxDone /\ ~suspendRequested THEN "failed" ELSE "completed")
    /\ UNCHANGED <<procVars, hostVars, callVars, done>>

\* An unrecoverable step error, or a debugger pause that was cancelled.
Fail(g) ==
    /\ pc[g] = "loop"
    /\ FinishWith(g, "failed")
    /\ UNCHANGED <<procVars, hostVars, callVars, done>>

\* The check at the top of the loop and the interrupted-write branch.
ObserveCancel(g) ==
    /\ pc[g] = "loop"
    /\ ctxDone
    /\ \/ suspendRequested /\ Goto(g, "defer") /\ UNCHANGED val
       \/ ~suspendRequested /\ FinishWith(g, "failed")
    /\ UNCHANGED <<procVars, hostVars, callVars, done>>

selfSuspend(g) ==
    /\ SelfSuspends
    /\ pc[g] = "loop"
    /\ suspendRequested' = TRUE
    /\ Goto(g, "sp_trans")
    /\ UNCHANGED <<state, suspendReason, exit, terminated, hostVars, callVars, done, val>>

\* The deferred function of reasonStep: a suspend notifies, anything else
\* that left the process Running is an unexpected exit.
Defer(g) ==
    /\ pc[g] = "defer"
    /\ \/ suspendRequested /\ Goto(g, "notify") /\ UNCHANGED val
       \/ ~suspendRequested /\ state = "Running" /\ FinishWith(g, "unexpected")
       \/ ~suspendRequested /\ state # "Running" /\ Goto(g, "close") /\ UNCHANGED val
    /\ UNCHANGED <<procVars, hostVars, callVars, done>>

NotifyRead(g) ==
    /\ pc[g] = "notify"
    /\ val' = [val EXCEPT ![g] = IF exit = "none" THEN "suspended" ELSE exit]
    /\ Goto(g, "send")
    /\ UNCHANGED <<procVars, hostVars, callVars, done>>

NotifySend(g) ==
    /\ pc[g] = "send"
    /\ TrySend(val[g])
    /\ Goto(g, "close")
    /\ UNCHANGED <<procVars, hostVars, callVars, val>>

\* The goroutine closes every descriptor of the process and leaves the group.
LifeClose(g) ==
    /\ pc[g] = "close"
    /\ fdOpen' = FALSE
    /\ val' = [val EXCEPT ![g] = "none"]
    /\ Goto(g, "gone")
    /\ UNCHANGED <<procVars, ctxDone, resumeMu, reapOnce, callVars, done>>
-----------------------------------------------------------------------------
(* finishProcess, run by a reasoning goroutine or by a failed resume.       *)

FinishClearReason(a) ==
    /\ pc[a] = "fp_clear"
    /\ suspendReason' = IF val[a] = "completed" THEN suspendReason ELSE "none"
    /\ Goto(a, "fp_term")
    /\ UNCHANGED <<state, suspendRequested, exit, terminated, hostVars, callVars, done, val>>

\* Terminate; its error is ignored.
FinishTerminate(a) ==
    /\ pc[a] = "fp_term"
    /\ IF CanGo("Zombie")
       THEN state' = "Zombie" /\ exit' = val[a] /\ terminated' = TRUE
       ELSE UNCHANGED <<state, exit, terminated>>
    /\ Goto(a, "fp_done")
    /\ UNCHANGED <<suspendRequested, suspendReason, hostVars, callVars, done, val>>

\* Mutant: a failed resume goes on as if it were the reasoning goroutine.
FinishSendDefers(a) ==
    /\ pc[a] = "fp_done"
    /\ TrySend(val[a])
    /\ Goto(a, IF val[a] = "unexpected" THEN "close" ELSE "defer")
    /\ UNCHANGED <<procVars, hostVars, callVars, val>>

FinishSend(a) ==
    /\ pc[a] = "fp_done"
    /\ TrySend(val[a])
    /\ \/ /\ a \in Lives
          /\ Goto(a, IF val[a] = "unexpected" THEN "close" ELSE "defer")
          /\ UNCHANGED <<callVars, val, resumeMu>>
       \/ a \in Callers /\ Return(a)
    /\ UNCHANGED <<procVars, ctxDone, fdOpen, reapOnce>>
-----------------------------------------------------------------------------
(* KillWithOrigin, killSuspendedProcess and twoPhaseShutdown.               *)

KillCheck(a) ==
    /\ pc[a] = "k_check"
    /\ \/ Terminal /\ Return(a)
       \/ state = "Suspended" /\ Goto(a, "ks_trans") /\ UNCHANGED <<callVars, val, resumeMu>>
       \/ state \in {"Created", "Running"} /\ Goto(a, "k_cancel")
            /\ UNCHANGED <<callVars, val, resumeMu>>
    /\ UNCHANGED <<procVars, ctxDone, fdOpen, reapOnce, done>>

IsSIGTERM(a) == a \in Callers /\ op[a] = "SIGTERM"

\* Mutant: the default action of SIGKILL forgets to cancel.
SignalKillIgnored(a) ==
    /\ pc[a] = "k_cancel"
    /\ ~IsSIGTERM(a)
    /\ Return(a)
    /\ UNCHANGED <<procVars, ctxDone, fdOpen, reapOnce, done>>

\* SIGKILL cancels the context.
SignalKill(a) ==
    /\ pc[a] = "k_cancel"
    /\ ~IsSIGTERM(a)
    /\ ctxDone' = TRUE
    /\ Return(a)
    /\ UNCHANGED <<procVars, fdOpen, reapOnce, done>>

\* The first SIGTERM cancels and starts the grace period; later ones do nothing.
SignalTerm(c) ==
    /\ pc[c] = "k_cancel"
    /\ IsSIGTERM(c)
    /\ IF pc[Shutdown] = "off"
       THEN ctxDone' = TRUE /\ pc' = [pc EXCEPT ![c] = "idle", ![Shutdown] = "grace"]
       ELSE UNCHANGED ctxDone /\ Goto(c, "idle")
    /\ op' = [op EXCEPT ![c] = "none"]
    /\ UNCHANGED <<procVars, fdOpen, resumeMu, reapOnce, pass, done, val>>

GraceCompleted ==
    /\ pc[Shutdown] = "grace"
    /\ terminated
    /\ Goto(Shutdown, "over")
    /\ UNCHANGED <<procVars, hostVars, callVars, done, val>>

GraceTimeout ==
    /\ pc[Shutdown] = "grace"
    /\ Goto(Shutdown, "k_check")
    /\ UNCHANGED <<procVars, hostVars, callVars, done, val>>

\* Mutant: the state read by the caller is taken to hold still.
KillStale(a) ==
    /\ pc[a] = "ks_trans"
    /\ state' = "Dead"
    /\ Goto(a, "ks_exit")
    /\ UNCHANGED <<suspendRequested, suspendReason, exit, terminated, hostVars, callVars, done, val>>

KillTransition(a) ==
    /\ pc[a] = "ks_trans"
    /\ IF CanGo("Dead")
       THEN state' = "Dead" /\ Goto(a, "ks_exit") /\ UNCHANGED <<callVars, val, resumeMu>>
       ELSE Return(a) /\ UNCHANGED state
    /\ UNCHANGED <<suspendRequested, suspendReason, exit, terminated, ctxDone, fdOpen, reapOnce, done>>

\* SuspendReason is left as it is.
KillStampExit(a) ==
    /\ pc[a] = "ks_exit"
    /\ exit' = "killed"
    /\ Goto(a, "ks_done")
    /\ UNCHANGED <<state, suspendRequested, suspendReason, terminated, hostVars, callVars, done, val>>

KillSend(a) ==
    /\ pc[a] = "ks_done"
    /\ TrySend("killed")
    /\ Goto(a, "ks_term")
    /\ UNCHANGED <<procVars, hostVars, callVars, val>>

KillCloseTerminated(a) ==
    /\ pc[a] = "ks_term"
    /\ terminated' = TRUE
    /\ Goto(a, "ks_reap")
    /\ UNCHANGED <<state, suspendRequested, suspendReason, exit, hostVars, callVars, done, val>>

\* reapSuspendedProcess under reapOnce; it waits for no goroutine.
KillReap(a) ==
    /\ pc[a] = "ks_reap"
    /\ reapOnce # "running"
    /\ reapOnce' = "done"
    /\ Return(a)
    /\ UNCHANGED <<procVars, ctxDone, fdOpen, done>>
-----------------------------------------------------------------------------
(* Wait, WaitChildInReason, SpawnAndWait, Reap and reapProcess.             *)

\* Wait takes whatever Done holds for the end of the process.
WaitReceive(c) ==
    /\ pc[c] = "w_recv"
    /\ done # "none"
    /\ val' = [val EXCEPT ![c] = done]
    /\ done' = "none"
    /\ Goto(c, "rp_once")
    /\ UNCHANGED <<procVars, hostVars, callVars>>

WaitChildReceive(c) ==
    /\ pc[c] = "wc_recv"
    /\ done # "none"
    /\ val' = [val EXCEPT ![c] = done]
    /\ done' = "none"
    /\ Goto(c, "wc_check")
    /\ UNCHANGED <<procVars, hostVars, callVars>>

\* Mutant: every value in Done is taken for the end of the child.
WaitChildTrusts(c) ==
    /\ pc[c] = "wc_check"
    /\ Goto(c, "rp_once")
    /\ UNCHANGED <<procVars, hostVars, callVars, done, val>>

\* Mutant: a child that went straight to Dead is not recognised as over.
WaitChildZombieOnly(c) ==
    /\ pc[c] = "wc_check"
    /\ \/ state = "Zombie" /\ Goto(c, "rp_once") /\ UNCHANGED val
       \/ state # "Zombie" /\ Goto(c, "wc_recv") /\ val' = [val EXCEPT ![c] = "none"]
    /\ UNCHANGED <<procVars, hostVars, callVars, done>>

\* Done also carries suspend notifications: those are dropped.
WaitChildCheck(c) ==
    /\ pc[c] = "wc_check"
    /\ \/ Terminal /\ Goto(c, "rp_once") /\ UNCHANGED val
       \/ ~Terminal /\ Goto(c, "wc_recv") /\ val' = [val EXCEPT ![c] = "none"]
    /\ UNCHANGED <<procVars, hostVars, callVars, done>>

\* The waiting parent's own context is cancelled.
WaitChildAbandon(c) ==
    /\ pc[c] = "wc_recv"
    /\ Return(c)
    /\ UNCHANGED <<procVars, ctxDone, fdOpen, reapOnce, done>>

ReapCheck(c) ==
    /\ pc[c] = "rp_check"
    /\ \/ state = "Zombie" /\ Goto(c, "rp_once") /\ UNCHANGED <<callVars, val, resumeMu>>
       \/ state # "Zombie" /\ Return(c)
    /\ UNCHANGED <<procVars, ctxDone, fdOpen, reapOnce, done>>

\* sync.Once: the first caller runs the body, the others wait for its end.
ReapEnter(c) ==
    /\ pc[c] = "rp_once"
    /\ \/ /\ reapOnce = "fresh"
          /\ reapOnce' = "running"
          /\ ctxDone' = TRUE
          /\ Goto(c, "rp_wg")
          /\ UNCHANGED <<callVars, val, resumeMu>>
       \/ /\ reapOnce = "done"
          /\ Return(c)
          /\ UNCHANGED <<reapOnce, ctxDone>>
    /\ UNCHANGED <<procVars, fdOpen, done>>

ReapWait(c) ==
    /\ pc[c] = "rp_wg"
    /\ LiveReasoners = {}
    /\ Goto(c, "rp_dead")
    /\ UNCHANGED <<procVars, hostVars, callVars, done, val>>

\* Process.Reap; its error is ignored.
ReapDead(c) ==
    /\ pc[c] = "rp_dead"
    /\ state' = IF CanGo("Dead") THEN "Dead" ELSE state
    /\ reapOnce' = "done"
    /\ Return(c)
    /\ UNCHANGED <<suspendRequested, suspendReason, exit, terminated, ctxDone, fdOpen, done>>
-----------------------------------------------------------------------------
Begin(c) ==
    \/ CallSuspend(c) \/ CallSuspendSubtree(c) \/ CallSIGPAUSE(c) \/ CallResumeSubtree(c)
    \/ CallKill(c) \/ CallWait(c) \/ CallReap(c)

SuspendStep(c) ==
    \/ SubtreeCheck(c) \/ SubtreeRecheck(c) \/ SuspendFlag(c) \/ SuspendPresetExit(c)
    \/ SuspendCancel(c) \/ SuspendWait(c)

SuspendProcessStep(a) ==
    SuspendTransition(a) \/ SuspendStampReason(a) \/ SuspendStampExit(a)

ResumeStep(c) ==
    \/ ResumeCheck(c) \/ ResumeTransition(c) \/ ResumeClearFlag(c) \/ ResumeClearReason(c)
    \/ ResumeClearExit(c) \/ ResumeDrain(c) \/ ResumeNewContext(c) \/ ResumeOpen(c)

FinishStep(a) == FinishClearReason(a) \/ FinishTerminate(a) \/ FinishSend(a)

KillStep(a) ==
    \/ KillCheck(a) \/ SignalKill(a) \/ KillTransition(a) \/ KillStampExit(a)
    \/ KillSend(a) \/ KillCloseTerminated(a) \/ KillReap(a)

WaitStep(c) ==
    \/ WaitReceive(c) \/ WaitChildReceive(c) \/ WaitChildCheck(c)
    \/ ReapCheck(c) \/ ReapEnter(c) \/ ReapWait(c) \/ ReapDead(c)

CallerStep(c) ==
    \/ SuspendStep(c) \/ SuspendProcessStep(c) \/ ResumeStep(c) \/ FinishStep(c)
    \/ KillStep(c) \/ SignalTerm(c) \/ WaitStep(c)

\* What the goroutine does whatever the LLM answers.
LifeRuns(g) ==
    \/ LifeStart(g) \/ ObserveCancel(g) \/ Defer(g) \/ NotifyRead(g) \/ NotifySend(g)
    \/ LifeClose(g) \/ FinishStep(g) \/ SuspendProcessStep(g)

LifeStep(g) == LifeRuns(g) \/ Complete(g) \/ Fail(g) \/ selfSuspend(g)

ShutdownStep == GraceCompleted \/ GraceTimeout \/ KillStep(Shutdown)

Next ==
    \/ \E c \in Callers : Begin(c) \/ CallerStep(c) \/ WaitChildAbandon(c)
    \/ \E g \in Lives : LifeStep(g)
    \/ ShutdownStep

Spec == Init /\ [][Next]_vars

\* A goroutine that can take its next step takes it, a cancelled context ends
\* the write or the tool it is passed to, and the grace timer fires.  Nothing
\* obliges anyone to make a call, or a model to answer.
Fairness ==
    /\ \A c \in Callers : WF_vars(CallerStep(c))
    /\ \A g \in Lives : WF_vars(LifeRuns(g))
    /\ WF_vars(ShutdownStep)

FairSpec == Spec /\ Fairness
-----------------------------------------------------------------------------
TypeOK ==
    /\ state \in States
    /\ suspendRequested \in BOOLEAN
    /\ suspendReason \in {"none", "stamped"}
    /\ exit \in Exits
    /\ done \in Exits
    /\ terminated \in BOOLEAN
    /\ ctxDone \in BOOLEAN
    /\ fdOpen \in BOOLEAN
    /\ resumeMu \in Callers \union {Nobody}
    /\ reapOnce \in {"fresh", "running", "done"}
    /\ pc \in [Agents -> PCs]
    /\ \A c \in Callers : pc[c] \in CallerPCs
    /\ \A g \in Lives : pc[g] \in LifePCs
    /\ pc[Shutdown] \in ShutdownPCs
    /\ op \in [Callers -> Ops \union {"none"}]
    /\ pass \in [Callers -> 0..maxPasses]
    /\ val \in [Agents -> Exits]

\* signal.go, on a Suspended process: "no running goroutine to deliver
\* signals through context".  The wait group is empty while it is Suspended.
SuspendedIsQuiet == state = "Suspended" => LiveReasoners = {}

\* There is never a second reasoning goroutine beside the first, however
\* suspends, resumes, kills and completions interleave.
SingleReasoner == Cardinality(LiveReasoners) <= 1

\* A goroutine that is reasoning has its LLM device open: no CloseAll of an
\* earlier incarnation takes it away.
ReasonerHasDevice == \A g \in Lives : pc[g] = "loop" => fdOpen

Resuming   == \E c \in Callers : pc[c] \in {"r_flag", "r_reason", "r_exit"}
Suspending == \E a \in Agents : pc[a] \in {"sp_reason", "sp_exit"}

\* invariant.go, Running row: no suspend reason and no exit status, except
\* while a resume is between the lock sections that clear them.
RunningRow ==
    state = "Running" /\ ~Resuming => suspendReason = "none" /\ exit = "none"

\* invariant.go, Suspended row: both are stamped, once the suspend is past the
\* lock sections that stamp them.
SuspendedRow ==
    state = "Suspended" /\ ~Suspending => suspendReason = "stamped" /\ exit = "suspended"

\* invariant.go, Zombie row: an exit status of its own and no suspend reason.
ZombieRow ==
    state = "Zombie" => suspendReason = "none" /\ exit \in Outcomes

\* The fields written by suspend, resume and finish, each in several lock
\* sections, agree with the state as the matrix in invariant.go requires.
FieldMatrix == RunningRow /\ SuspendedRow /\ ZombieRow

\* process.go: "By the time this channel is closed, proc.Exit is guaranteed
\* non-nil".
ExitWhenTerminated == terminated => exit # "none"

AboutToReap(c) == pc[c] \in {"rp_once", "rp_wg", "rp_dead"}

\* WaitChildInReason and SpawnAndWait take a process for finished only if it
\* is, whichever of the two meanings the value in Done had.
WaitChildSeesEnd == \A c \in Callers : AboutToReap(c) /\ op[c] = "WaitChild" => Terminal

\* reap.go: Wait "blocks until the target process enters Zombie state".
WaitSeesEnd == \A c \in Callers : AboutToReap(c) /\ op[c] = "Wait" => Terminal

\* A suspend returns: it does not wait forever on a goroutine, and so never
\* keeps resumeMu.
SuspendReturns ==
    \A c \in Callers : (pc[c] \in SuspendPCs) ~> (pc[c] \notin SuspendPCs)

\* A parent waiting for its child when the child's end is announced is told
\* of it, whatever notifications of earlier suspends went through Done.
WaiterReturns ==
    \A c \in Callers :
        (pc[c] = "wc_recv" /\ \E a \in Agents : pc[a] \in {"fp_done", "ks_done"})
            ~> (pc[c] = "idle")

\* signal.go, default action: "SIGKILL: immediate termination, no grace period".
KillTerminates ==
    (\E c \in Callers : pc[c] = "k_cancel" /\ op[c] = "SIGKILL") ~> Terminal

TermTerminates == (pc[Shutdown] = "grace") ~> Terminal

\* A SIGKILL, and a SIGTERM by itself or when its grace period is over, ends
\* every process that nobody asks to suspend, however completions, failures
\* and the escalation interleave.
SignalsTerminate == [](~suspendRequested) => KillTerminates /\ TermTerminates

PhaseOf == [Created |-> "created", Running |-> "running", Suspended |-> "suspended",
            Zombie |-> "ended", Dead |-> "buried"]

Contract == INSTANCE ProcessContract
    WITH Reasoners <- Lives, active <- LiveReasoners, phase <- PhaseOf[state]

\* The lifecycle implements the contract: the phase is the state, and the
\* active reasoners are the goroutines the wait group counts.
ImplementsContract == Contract!CSpec
=============================================================================
