------------------------- MODULE ProcLifecycleProofs -------------------------
(***************************************************************************)
(* Proofs about ProcLifecycle, for any number of callers and incarnations. *)
(*                                                                         *)
(* The first part allows every call.  It proves type correctness, that     *)
(* every step follows the table of transitions, and that a waiting parent  *)
(* takes its child for finished only when it is.  The second assumes that  *)
(* every suspend holds resumeMu and that the process does not suspend      *)
(* itself, and proves that a suspended process is quiet, that one goroutine *)
(* at most reasons and has its device open, that the fields agree with the *)
(* state, and that the lifecycle implements ProcessContract.               *)
(***************************************************************************)
EXTENDS ProcLifecycle, FiniteSetTheorems, TLAPS

LEMMA AgentKinds ==
    /\ \A c \in Callers : c \in Agents /\ c \notin Lives /\ c # Shutdown
    /\ \A g \in Lives : g \in Agents /\ g \notin Callers /\ g # Shutdown
    /\ Shutdown \in Agents
  BY LifecycleConstants DEF Agents

\* TypeOK is not inductive: that `pass' stays in range follows from the test
\* that opens each pass, which the later steps of the pass must remember.
InPass == {"ss_recheck", "s_flag", "s_exit", "s_cancel", "s_wait"} \union SuspendProcessPCs

PassBounded ==
    \A c \in Callers :
        pc[c] = "ss_recheck" \/ (pc[c] \in InPass /\ op[c] # "Suspend") => pass[c] < maxPasses

TypeInv == TypeOK /\ PassBounded

LEMMA TypeInit == Init => TypeInv
  <1> SUFFICES ASSUME Init PROVE TypeInv  OBVIOUS
  <1>1. /\ \A c \in Callers : pc[c] = "idle"
        /\ \A g \in Lives : pc[g] \in {"start", "unborn"}
        /\ pc[Shutdown] = "off"
    <2>1. \A c \in Callers : c # FirstLife  BY LifecycleConstants, AgentKinds
    <2>2. Shutdown # FirstLife  BY LifecycleConstants, AgentKinds
    <2> QED  BY <2>1, <2>2, AgentKinds, LifecycleConstants DEF Init
  <1>2. pc \in [Agents -> PCs]
    <2>1. \A a \in Agents : pc[a] \in {"idle", "start", "unborn", "off"}  BY <1>1 DEF Agents
    <2>2. {"idle", "start", "unborn", "off"} \subseteq PCs
      BY DEF PCs, CallerPCs, LifePCs, ShutdownPCs
    <2> QED  BY <2>1, <2>2 DEF Init
  <1>3. /\ \A c \in Callers : pc[c] \in CallerPCs
        /\ \A g \in Lives : pc[g] \in LifePCs
        /\ pc[Shutdown] \in ShutdownPCs
    BY <1>1 DEF CallerPCs, LifePCs, ShutdownPCs
  <1>4. op \in [Callers -> Ops \union {"none"}] /\ pass \in [Callers -> 0..maxPasses]
    BY DEF Init, maxPasses
  <1>5. val \in [Agents -> Exits]  BY DEF Init, Exits
  <1>6. TypeOK  BY <1>2, <1>3, <1>4, <1>5 DEF Init, TypeOK, States, Exits
  <1>7. PassBounded  BY <1>1 DEF PassBounded, InPass, SuspendProcessPCs
  <1> QED  BY <1>6, <1>7 DEF TypeInv

LEMMA TypeBegin ==
    ASSUME TypeInv, NEW c \in Callers, Begin(c)
    PROVE  TypeInv'
  <1>1. TypeOK'
    BY AgentKinds, LifecycleConstants
    DEF TypeInv, TypeOK, Begin, CallSuspend, CallSuspendSubtree, CallSIGPAUSE,
        CallResumeSubtree, CallKill, CallWait, CallReap, Call, LockResumeMu, Goto, procVars, PCs,
        CallerPCs, SuspendPCs, ResumePCs, KillPCs, WaitPCs, Ops
  <1>2. PassBounded'
    BY AgentKinds
    DEF TypeInv, TypeOK, PassBounded, InPass, SuspendProcessPCs, Begin, CallSuspend,
        CallSuspendSubtree, CallSIGPAUSE, CallResumeSubtree, CallKill, CallWait, CallReap, Call,
        Goto
  <1> QED  BY <1>1, <1>2 DEF TypeInv

LEMMA TypeReturn ==
    ASSUME TypeInv, NEW c \in Callers \union {Shutdown}, Return(c)
    PROVE  /\ pc' \in [Agents -> PCs]
           /\ \A a \in Callers : pc'[a] \in CallerPCs
           /\ \A g \in Lives : pc'[g] \in LifePCs
           /\ pc'[Shutdown] \in ShutdownPCs
           /\ op' \in [Callers -> Ops \union {"none"}]
           /\ pass' \in [Callers -> 0..maxPasses]
           /\ val' \in [Agents -> Exits]
           /\ resumeMu' \in Callers \union {Nobody}
           /\ PassBounded'
  <1> USE AgentKinds DEF TypeInv, TypeOK, Return, Goto
  <1>1. pc' \in [Agents -> PCs]  BY DEF PCs, CallerPCs, ShutdownPCs
  <1>2. PassBounded'  BY DEF PassBounded, InPass, SuspendProcessPCs
  <1> QED  BY <1>1, <1>2 DEF CallerPCs, ShutdownPCs, Exits, maxPasses

LEMMA TypeSuspend ==
    ASSUME TypeInv, NEW c \in Callers, SuspendStep(c)
    PROVE  TypeInv'
  <1>1. CASE SubtreeCheck(c)
    <2>1. CASE Return(c)
      BY <1>1, <2>1, TypeReturn
      DEF TypeInv, TypeOK, SubtreeCheck, procVars
    <2>2. CASE ~Return(c)
      BY <1>1, <2>2, AgentKinds
      DEF TypeInv, TypeOK, PassBounded, InPass, SubtreeCheck, Goto, procVars, callVars, PCs,
          CallerPCs, SuspendPCs
    <2> QED  BY <2>1, <2>2
  <1>2. CASE SubtreeRecheck(c)
    <2> USE AgentKinds DEF TypeInv, TypeOK, SubtreeRecheck, Goto, procVars, hostVars
    <2>1. pass' \in [Callers -> 0..maxPasses]
      BY <1>2 DEF PassBounded, InPass, maxPasses
    <2>2. TypeOK'
      BY <1>2, <2>1 DEF PCs, CallerPCs, SuspendPCs
    <2>3. PassBounded'
      BY <1>2 DEF PassBounded, InPass, SuspendProcessPCs
    <2> QED  BY <2>2, <2>3
  <1>3. CASE SuspendFlag(c)
    BY <1>3, AgentKinds
    DEF TypeInv, TypeOK, PassBounded, InPass, SuspendFlag, Goto, hostVars, callVars, PCs,
        CallerPCs, SuspendPCs
  <1>4. CASE SuspendPresetExit(c)
    BY <1>4, AgentKinds
    DEF TypeInv, TypeOK, PassBounded, InPass, SuspendPresetExit, Goto, hostVars, callVars, PCs,
        CallerPCs, SuspendPCs, Exits
  <1>5. CASE SuspendCancel(c) \/ SuspendWait(c)
    <2> USE AgentKinds DEF TypeInv, TypeOK, SuspendCancel, SuspendWait, Goto, procVars, hostVars,
        callVars
    <2>1. TypeOK'  BY <1>5 DEF PCs, CallerPCs, SuspendPCs, SuspendProcessPCs
    <2>2. PassBounded'  BY <1>5 DEF PassBounded, InPass, SuspendProcessPCs
    <2> QED  BY <2>1, <2>2
  <1> QED  BY <1>1, <1>2, <1>3, <1>4, <1>5 DEF SuspendStep

LEMMA TypeSuspendProcess ==
    ASSUME TypeInv, NEW a \in Callers \union Lives, SuspendProcessStep(a)
    PROVE  TypeInv'
  <1> USE AgentKinds DEF TypeInv, TypeOK, PassBounded, InPass, SuspendProcessPCs
  <1>1. CASE SuspendTransition(a)
    <2>1. CASE a \in Callers /\ Return(a)
      BY <1>1, <2>1, TypeReturn DEF SuspendTransition, States
    <2>2. CASE ~(a \in Callers /\ Return(a))
      BY <1>1, <2>2
      DEF SuspendTransition, Goto, callVars, PCs, CallerPCs, LifePCs, SuspendPCs, FinishPCs,
          States, Exits, Outcomes
    <2> QED  BY <2>1, <2>2
  <1>2. CASE SuspendStampReason(a)
    BY <1>2
    DEF SuspendStampReason, Goto, hostVars, callVars, PCs, CallerPCs, LifePCs, SuspendPCs
  <1>3. CASE SuspendStampExit(a)
    <2>1. CASE a \in Callers /\ Return(a)
      BY <1>3, <2>1, TypeReturn DEF SuspendStampExit, Exits
    <2>2. CASE a \in Lives
      BY <1>3, <2>2
      DEF SuspendStampExit, Goto, callVars, PCs, LifePCs, Exits
    <2>3. CASE a \in Callers /\ ~Return(a)
      <3>1. pass' \in [Callers -> 0..maxPasses]
        BY <1>3, <2>3 DEF SuspendStampExit, maxPasses
      <3> QED
        BY <1>3, <2>3, <3>1
        DEF SuspendStampExit, Goto, callVars, PCs, CallerPCs, SuspendPCs, Exits
    <2> QED  BY <2>1, <2>2, <2>3
  <1> QED  BY <1>1, <1>2, <1>3 DEF SuspendProcessStep

LEMMA TypeResume ==
    ASSUME TypeInv, NEW c \in Callers, ResumeStep(c)
    PROVE  TypeInv'
  <1> USE AgentKinds DEF TypeInv, TypeOK, PassBounded, InPass, SuspendProcessPCs
  <1>1. CASE ResumeCheck(c) \/ ResumeTransition(c)
    <2>1. CASE Return(c)
      BY <1>1, <2>1, TypeReturn DEF ResumeCheck, ResumeTransition, procVars, States
    <2>2. CASE ~Return(c)
      BY <1>1, <2>2
      DEF ResumeCheck, ResumeTransition, Goto, procVars, callVars, PCs, CallerPCs, ResumePCs,
          States
    <2> QED  BY <2>1, <2>2
  <1>2. CASE ResumeClearFlag(c) \/ ResumeClearReason(c) \/ ResumeClearExit(c)
    BY <1>2
    DEF ResumeClearFlag, ResumeClearReason, ResumeClearExit, Goto, hostVars, callVars, PCs,
        CallerPCs, ResumePCs, Exits
  <1>3. CASE ResumeDrain(c) \/ ResumeNewContext(c)
    BY <1>3
    DEF ResumeDrain, ResumeNewContext, Goto, procVars, hostVars, callVars, PCs, CallerPCs,
        ResumePCs, Exits
  <1>4. CASE ResumeOpen(c)
    <2>1. CASE \E g \in Lives :
                 /\ pc[g] = "unborn"
                 /\ fdOpen' = TRUE
                 /\ pc' = [pc EXCEPT ![g] = "loop", ![c] = "idle"]
                 /\ op' = [op EXCEPT ![c] = "none"]
                 /\ resumeMu' = Nobody
                 /\ UNCHANGED val
      <3>1. PICK g \in Lives : pc' = [pc EXCEPT ![g] = "loop", ![c] = "idle"]
        BY <2>1
      <3>2. fdOpen' = TRUE /\ op' = [op EXCEPT ![c] = "none"] /\ resumeMu' = Nobody
              /\ UNCHANGED val
        BY <2>1
      <3>3. "loop" \in LifePCs /\ "idle" \in CallerPCs  BY DEF LifePCs, CallerPCs
      <3>4. pc' \in [Agents -> PCs]  BY <3>1, <3>3 DEF PCs
      <3> QED  BY <1>4, <3>1, <3>2, <3>3, <3>4 DEF ResumeOpen, procVars
    <2>2. CASE Goto(c, "fp_clear") /\ UNCHANGED <<fdOpen, op, resumeMu>>
               /\ val' = [val EXCEPT ![c] = "failed"]
      BY <1>4, <2>2
      DEF ResumeOpen, Goto, procVars, PCs, CallerPCs, FinishPCs, Exits, Outcomes
    <2> QED  BY <1>4, <2>1, <2>2 DEF ResumeOpen
  <1> QED  BY <1>1, <1>2, <1>3, <1>4 DEF ResumeStep

LEMMA TypeFinish ==
    ASSUME TypeInv, NEW a \in Callers \union Lives, FinishStep(a)
    PROVE  TypeInv'
  <1> USE AgentKinds DEF TypeInv, TypeOK, PassBounded, InPass, SuspendProcessPCs
  <1>1. CASE FinishClearReason(a)
    BY <1>1
    DEF FinishClearReason, Goto, hostVars, callVars, PCs, CallerPCs, LifePCs, FinishPCs
  <1>2. CASE FinishTerminate(a)
    <2> USE DEF FinishTerminate, Goto, hostVars, callVars
    <2>1. /\ state' \in States
          /\ exit' \in Exits
          /\ terminated' \in BOOLEAN
      BY <1>2 DEF States
    <2>2. /\ pc' \in [Agents -> PCs]
          /\ \A c \in Callers : pc'[c] \in CallerPCs
          /\ \A g \in Lives : pc'[g] \in LifePCs
          /\ pc'[Shutdown] \in ShutdownPCs
      BY <1>2 DEF PCs, CallerPCs, LifePCs, FinishPCs
    <2>3. PassBounded'  BY <1>2
    <2> QED  BY <1>2, <2>1, <2>2, <2>3
  <1>3. CASE FinishSend(a)
    <2>1. done' \in Exits  BY <1>3 DEF FinishSend, TrySend
    <2>2. CASE a \in Callers /\ Return(a)
      BY <1>3, <2>1, <2>2, TypeReturn DEF FinishSend, procVars
    <2>3. CASE a \in Lives
      BY <1>3, <2>1, <2>3
      DEF FinishSend, Goto, procVars, callVars, PCs, LifePCs
    <2> QED  BY <1>3, <2>2, <2>3 DEF FinishSend
  <1> QED  BY <1>1, <1>2, <1>3 DEF FinishStep

LEMMA TypeLife ==
    ASSUME TypeInv, NEW g \in Lives, LifeStep(g)
    PROVE  TypeInv'
  <1> USE AgentKinds DEF TypeInv, TypeOK, PassBounded, InPass, SuspendProcessPCs
  <1>1. CASE LifeStart(g) \/ selfSuspend(g)
    BY <1>1
    DEF LifeStart, selfSuspend, Goto, hostVars, callVars, PCs, LifePCs, States
  <1>2. CASE Complete(g) \/ Fail(g) \/ ObserveCancel(g) \/ Defer(g)
    BY <1>2
    DEF Complete, Fail, ObserveCancel, Defer, FinishWith, Goto, procVars, hostVars, callVars, PCs,
        LifePCs, FinishPCs, Exits, Outcomes
  <1>3. CASE NotifyRead(g)
    BY <1>3 DEF NotifyRead, Goto, procVars, hostVars, callVars, PCs, LifePCs, Exits
  <1>4. CASE NotifySend(g)
    <2>1. done' \in Exits  BY <1>4 DEF NotifySend, TrySend
    <2> QED  BY <1>4, <2>1 DEF NotifySend, Goto, procVars, hostVars, callVars, PCs, LifePCs
  <1>5. CASE LifeClose(g)
    BY <1>5 DEF LifeClose, Goto, procVars, callVars, PCs, LifePCs, Exits
  <1> QED
    BY <1>1, <1>2, <1>3, <1>4, <1>5, TypeFinish, TypeSuspendProcess DEF LifeStep, LifeRuns

LEMMA TypeKill ==
    ASSUME TypeInv, NEW a \in Callers \union {Shutdown}, KillStep(a)
    PROVE  TypeInv'
  <1> USE AgentKinds DEF TypeInv, TypeOK, PassBounded, InPass, SuspendProcessPCs
  <1>1. CASE KillCheck(a) \/ KillTransition(a)
    <2>1. CASE Return(a)
      BY <1>1, <2>1, TypeReturn DEF KillCheck, KillTransition, procVars, States
    <2>2. CASE ~Return(a)
      BY <1>1, <2>2
      DEF KillCheck, KillTransition, Goto, procVars, callVars, PCs, CallerPCs, ShutdownPCs,
          KillPCs, States
    <2> QED  BY <2>1, <2>2
  <1>2. CASE SignalKill(a) \/ KillReap(a)
    BY <1>2, TypeReturn DEF SignalKill, KillReap, procVars
  <1>3. CASE KillStampExit(a) \/ KillCloseTerminated(a)
    <2> USE DEF KillStampExit, KillCloseTerminated, Goto, hostVars, callVars
    <2>1. /\ pc' \in [Agents -> PCs]
          /\ \A c \in Callers : pc'[c] \in CallerPCs
          /\ \A g \in Lives : pc'[g] \in LifePCs
          /\ pc'[Shutdown] \in ShutdownPCs
      BY <1>3 DEF PCs, CallerPCs, ShutdownPCs, KillPCs
    <2>2. exit' \in Exits /\ terminated' \in BOOLEAN
      BY <1>3 DEF Exits, Outcomes
    <2>3. PassBounded'  BY <1>3
    <2> QED  BY <1>3, <2>1, <2>2, <2>3
  <1>4. CASE KillSend(a)
    <2>1. done' \in Exits  BY <1>4 DEF KillSend, TrySend, Exits, Outcomes
    <2> QED
      BY <1>4, <2>1
      DEF KillSend, Goto, procVars, hostVars, callVars, PCs, CallerPCs, ShutdownPCs, KillPCs
  <1> QED  BY <1>1, <1>2, <1>3, <1>4 DEF KillStep

LEMMA TypeWait ==
    ASSUME TypeInv, NEW c \in Callers, WaitStep(c) \/ WaitChildAbandon(c) \/ SignalTerm(c)
    PROVE  TypeInv'
  <1> USE AgentKinds DEF TypeInv, TypeOK, PassBounded, InPass, SuspendProcessPCs
  <1>1. CASE WaitReceive(c) \/ WaitChildReceive(c) \/ WaitChildCheck(c) \/ ReapWait(c)
    BY <1>1
    DEF WaitReceive, WaitChildReceive, WaitChildCheck, ReapWait, Goto, procVars, hostVars,
        callVars, PCs, CallerPCs, WaitPCs, Exits
  <1>2. CASE ReapCheck(c) \/ ReapEnter(c)
    <2>1. CASE Return(c)
      BY <1>2, <2>1, TypeReturn DEF ReapCheck, ReapEnter, procVars
    <2>2. CASE ~Return(c)
      BY <1>2, <2>2
      DEF ReapCheck, ReapEnter, Goto, procVars, callVars, PCs, CallerPCs, WaitPCs
    <2> QED  BY <2>1, <2>2
  <1>3. CASE WaitChildAbandon(c) \/ ReapDead(c)
    BY <1>3, TypeReturn DEF WaitChildAbandon, ReapDead, procVars, States
  <1>4. CASE SignalTerm(c)
    <2>1. "idle" \in CallerPCs /\ "grace" \in ShutdownPCs  BY DEF CallerPCs, ShutdownPCs
    <2>2. \/ pc' = [pc EXCEPT ![c] = "idle", ![Shutdown] = "grace"] /\ ctxDone' = TRUE
          \/ pc' = [pc EXCEPT ![c] = "idle"] /\ UNCHANGED ctxDone
      BY <1>4 DEF SignalTerm, Goto
    <2>3. pc' \in [Agents -> PCs]  BY <2>1, <2>2 DEF PCs
    <2> QED  BY <1>4, <2>1, <2>2, <2>3 DEF SignalTerm, procVars
  <1> QED  BY <1>1, <1>2, <1>3, <1>4 DEF WaitStep

LEMMA TypeGrace ==
    ASSUME TypeInv, GraceCompleted \/ GraceTimeout
    PROVE  TypeInv'
  BY AgentKinds
  DEF TypeInv, TypeOK, PassBounded, InPass, SuspendProcessPCs, GraceCompleted, GraceTimeout, Goto,
      procVars, hostVars, callVars, PCs, ShutdownPCs, KillPCs

LEMMA TypeStep == TypeInv /\ [Next]_vars => TypeInv'
  <1> SUFFICES ASSUME TypeInv, [Next]_vars PROVE TypeInv'  OBVIOUS
  <1>1. CASE UNCHANGED vars
    BY <1>1
    DEF TypeInv, TypeOK, PassBounded, InPass, vars, procVars, hostVars, callVars
  <1>2. ASSUME NEW c \in Callers, Begin(c) \/ CallerStep(c) \/ WaitChildAbandon(c)
        PROVE  TypeInv'
    BY <1>2, TypeBegin, TypeSuspend, TypeSuspendProcess, TypeResume, TypeFinish, TypeKill,
       TypeWait
    DEF CallerStep
  <1>3. CASE ShutdownStep
    BY <1>3, TypeKill, TypeGrace DEF ShutdownStep
  <1> QED  BY <1>1, <1>2, <1>3, TypeLife DEF Next

(* Whatever calls are made, in whatever order, every field keeps its type,  *)
(* no call runs the code of a goroutine, and suspendSubtree never makes     *)
(* more than its three passes.                                              *)
THEOREM TypeCorrect == Spec => []TypeOK
  <1>1. TypeInv => TypeOK  BY DEF TypeInv
  <1> QED  BY <1>1, TypeInit, TypeStep, PTL DEF Spec
-----------------------------------------------------------------------------
(* Every step leaves the state alone or makes a transition of the table: a  *)
(* Terminate, Reap or Suspend whose error is ignored changes nothing.       *)

Moves == state' = state \/ CanGo(state')

LEMMA CallerMoves ==
    ASSUME NEW c \in Callers, Begin(c) \/ CallerStep(c) \/ WaitChildAbandon(c)
    PROVE  Moves
  <1> USE DEF Moves, procVars
  <1>1. CASE Begin(c)
    BY <1>1
    DEF Begin, CallSuspend, CallSuspendSubtree, CallSIGPAUSE, CallResumeSubtree, CallKill,
        CallWait, CallReap, Call
  <1>2. CASE SuspendStep(c) \/ SuspendProcessStep(c)
    BY <1>2
    DEF SuspendStep, SubtreeCheck, SubtreeRecheck, SuspendFlag, SuspendPresetExit,
        SuspendCancel, SuspendWait, SuspendProcessStep, SuspendTransition, SuspendStampReason,
        SuspendStampExit
  <1>3. CASE ResumeStep(c) \/ FinishStep(c)
    BY <1>3
    DEF ResumeStep, ResumeCheck, ResumeTransition, ResumeClearFlag, ResumeClearReason,
        ResumeClearExit, ResumeDrain, ResumeNewContext, ResumeOpen, FinishStep,
        FinishClearReason, FinishTerminate, FinishSend
  <1>4. CASE KillStep(c) \/ SignalTerm(c)
    BY <1>4
    DEF KillStep, KillCheck, SignalKill, KillTransition, KillStampExit, KillSend,
        KillCloseTerminated, KillReap, SignalTerm
  <1>5. CASE WaitStep(c) \/ WaitChildAbandon(c)
    BY <1>5
    DEF WaitStep, WaitReceive, WaitChildReceive, WaitChildCheck, WaitChildAbandon, ReapCheck,
        ReapEnter, ReapWait, ReapDead
  <1> QED  BY <1>1, <1>2, <1>3, <1>4, <1>5 DEF CallerStep

LEMMA LifeMoves ==
    ASSUME NEW g \in Lives, LifeStep(g)
    PROVE  Moves
  BY DEF Moves, procVars, LifeStep, LifeRuns, LifeStart, ObserveCancel, Defer, NotifyRead,
     NotifySend, LifeClose, FinishStep, FinishClearReason, FinishTerminate, FinishSend,
     SuspendProcessStep, SuspendTransition, SuspendStampReason, SuspendStampExit, Complete, Fail,
     FinishWith, selfSuspend

LEMMA ShutdownMoves == ShutdownStep => Moves
  BY DEF Moves, procVars, ShutdownStep, GraceCompleted, GraceTimeout, KillStep, KillCheck,
     SignalKill, KillTransition, KillStampExit, KillSend, KillCloseTerminated, KillReap
-----------------------------------------------------------------------------
(* A caller that is about to reap remembers by which way it came: only      *)
(* WaitChild's way passes the test that the process is over, and a process  *)
(* that is over stays so.                                                   *)

ReapPath == {"w_recv", "rp_check", "rp_once", "rp_wg", "rp_dead"}

CameBy(c) ==
    /\ pc[c] = "w_recv" => op[c] = "Wait"
    /\ pc[c] = "rp_check" => op[c] = "Reap"
    /\ AboutToReap(c) /\ op[c] = "WaitChild" => Terminal

WaitInv == TypeInv /\ \A c \in Callers : CameBy(c)

LEMMA OverIsOver == TypeInv /\ Moves /\ Terminal => Terminal'
  BY DEF TypeInv, TypeOK, Moves, CanGo, validTransitions, Terminal, States

\* Where a caller that waits or reaps is heard of by nobody else.
LEMMA OthersKeepWaiting ==
    ASSUME WaitInv, Moves, NEW c \in Callers, pc'[c] = pc[c], op'[c] = op[c]
    PROVE  CameBy(c)'
  BY OverIsOver DEF WaitInv, CameBy, AboutToReap

LEMMA OffReapPath ==
    ASSUME NEW c \in Callers, pc'[c] \notin ReapPath
    PROVE  CameBy(c)'
  BY DEF CameBy, AboutToReap, ReapPath

LEMMA CallerMovesItself ==
    ASSUME WaitInv, NEW c \in Callers, Begin(c) \/ CallerStep(c) \/ WaitChildAbandon(c),
           NEW d \in Callers, d # c
    PROVE  pc'[d] = pc[d] /\ op'[d] = op[d]
  <1> USE AgentKinds DEF WaitInv, TypeInv, TypeOK, Goto, Return, callVars
  <1>1. CASE Begin(c)
    BY <1>1
    DEF Begin, CallSuspend, CallSuspendSubtree, CallSIGPAUSE, CallResumeSubtree, CallKill,
        CallWait, CallReap, Call
  <1>2. CASE SuspendStep(c) \/ SuspendProcessStep(c)
    BY <1>2
    DEF SuspendStep, SubtreeCheck, SubtreeRecheck, SuspendFlag, SuspendPresetExit,
        SuspendCancel, SuspendWait, SuspendProcessStep, SuspendTransition, SuspendStampReason,
        SuspendStampExit
  <1>3. CASE ResumeStep(c)
    BY <1>3
    DEF ResumeStep, ResumeCheck, ResumeTransition, ResumeClearFlag, ResumeClearReason,
        ResumeClearExit, ResumeDrain, ResumeNewContext, ResumeOpen
  <1>4. CASE FinishStep(c)
    BY <1>4 DEF FinishStep, FinishClearReason, FinishTerminate, FinishSend
  <1>5. CASE KillStep(c) \/ SignalTerm(c)
    BY <1>5
    DEF KillStep, KillCheck, SignalKill, KillTransition, KillStampExit, KillSend,
        KillCloseTerminated, KillReap, SignalTerm
  <1>6. CASE WaitStep(c) \/ WaitChildAbandon(c)
    BY <1>6
    DEF WaitStep, WaitReceive, WaitChildReceive, WaitChildCheck, WaitChildAbandon, ReapCheck,
        ReapEnter, ReapWait, ReapDead
  <1> QED  BY <1>1, <1>2, <1>3, <1>4, <1>5, <1>6 DEF CallerStep

LEMMA BeginsItsWay ==
    ASSUME WaitInv, NEW c \in Callers, Begin(c)
    PROVE  CameBy(c)'
  <1> USE AgentKinds DEF WaitInv, TypeInv, TypeOK, Goto, Call
  <1>1. CASE \/ CallSuspend(c) \/ CallSuspendSubtree(c) \/ CallSIGPAUSE(c)
             \/ CallResumeSubtree(c) \/ CallKill(c)
    <2>1. pc'[c] \notin ReapPath
      BY <1>1
      DEF CallSuspend, CallSuspendSubtree, CallSIGPAUSE, CallResumeSubtree, CallKill, ReapPath
    <2> QED  BY <2>1, OffReapPath
  <1>2. CASE CallWait(c)
    BY <1>2 DEF CallWait, CameBy, AboutToReap
  <1>3. CASE CallReap(c)
    BY <1>3 DEF CallReap, CameBy, AboutToReap
  <1> QED  BY <1>1, <1>2, <1>3 DEF Begin

LEMMA StaysOffReapPath ==
    ASSUME WaitInv, NEW c \in Callers,
           \/ SuspendStep(c) \/ SuspendProcessStep(c) \/ ResumeStep(c) \/ FinishStep(c)
           \/ KillStep(c) \/ SignalTerm(c) \/ WaitChildAbandon(c)
    PROVE  pc'[c] \notin ReapPath
  <1> USE AgentKinds DEF WaitInv, TypeInv, TypeOK, Goto, Return, ReapPath
  <1>1. CASE SuspendStep(c)
    BY <1>1
    DEF SuspendStep, SubtreeCheck, SubtreeRecheck, SuspendFlag, SuspendPresetExit,
        SuspendCancel, SuspendWait
  <1>2. CASE SuspendProcessStep(c)
    BY <1>2 DEF SuspendProcessStep, SuspendTransition, SuspendStampReason, SuspendStampExit
  <1>3. CASE ResumeStep(c)
    BY <1>3
    DEF ResumeStep, ResumeCheck, ResumeTransition, ResumeClearFlag, ResumeClearReason,
        ResumeClearExit, ResumeDrain, ResumeNewContext, ResumeOpen
  <1>4. CASE FinishStep(c)
    BY <1>4 DEF FinishStep, FinishClearReason, FinishTerminate, FinishSend
  <1>5. CASE KillStep(c) \/ SignalTerm(c) \/ WaitChildAbandon(c)
    BY <1>5
    DEF KillStep, KillCheck, SignalKill, KillTransition, KillStampExit, KillSend,
        KillCloseTerminated, KillReap, SignalTerm, WaitChildAbandon
  <1> QED  BY <1>1, <1>2, <1>3, <1>4, <1>5

LEMMA WaitsItsWay ==
    ASSUME WaitInv, NEW c \in Callers, WaitStep(c), Moves
    PROVE  CameBy(c)'
  <1> USE AgentKinds DEF WaitInv, TypeInv, TypeOK, Goto
  <1>1. CASE Return(c)
    BY <1>1, OffReapPath DEF Return, ReapPath
  <1>2. CASE WaitReceive(c)
    BY <1>2 DEF WaitReceive, callVars, CameBy, AboutToReap
  <1>3. CASE WaitChildReceive(c)
    <2>1. pc'[c] \notin ReapPath  BY <1>3 DEF WaitChildReceive, ReapPath
    <2> QED  BY <2>1, OffReapPath
  <1>4. CASE WaitChildCheck(c)
    BY <1>4 DEF WaitChildCheck, procVars, callVars, CameBy, AboutToReap, Terminal
  <1>5. CASE ~Return(c) /\ ReapCheck(c)
    BY <1>5 DEF ReapCheck, procVars, callVars, CameBy, AboutToReap
  <1>6. CASE ~Return(c) /\ (ReapEnter(c) \/ ReapWait(c))
    <2>1. AboutToReap(c) /\ UNCHANGED op
      BY <1>6 DEF ReapEnter, ReapWait, callVars, AboutToReap
    <2>2. pc'[c] \in {"rp_wg", "rp_dead"}  BY <1>6 DEF ReapEnter, ReapWait
    <2> QED  BY <2>1, <2>2, OverIsOver DEF CameBy
  <1>7. CASE ReapDead(c)
    BY <1>7, <1>1 DEF ReapDead
  <1> QED  BY <1>1, <1>2, <1>3, <1>4, <1>5, <1>6, <1>7 DEF WaitStep

LEMMA WaitInvStep == WaitInv /\ [Next]_vars => WaitInv'
  <1> SUFFICES ASSUME WaitInv, [Next]_vars PROVE WaitInv'  OBVIOUS
  <1>1. TypeInv'  BY TypeStep DEF WaitInv
  <1>2. CASE UNCHANGED vars
    BY <1>1, <1>2
    DEF WaitInv, CameBy, AboutToReap, Terminal, vars, procVars, callVars
  <1>3. ASSUME NEW c \in Callers, Begin(c) \/ CallerStep(c) \/ WaitChildAbandon(c)
        PROVE  \A d \in Callers : CameBy(d)'
    <2>1. Moves  BY <1>3, CallerMoves
    <2>2. CameBy(c)'
      BY <1>3, <2>1, BeginsItsWay, StaysOffReapPath, OffReapPath, WaitsItsWay DEF CallerStep
    <2> QED  BY <1>3, <2>1, <2>2, CallerMovesItself, OthersKeepWaiting
  <1>4. ASSUME NEW g \in Lives, LifeStep(g)
        PROVE  \A d \in Callers : CameBy(d)'
    <2>1. Moves  BY <1>4, LifeMoves
    <2>2. \A d \in Callers : pc'[d] = pc[d] /\ op'[d] = op[d]
      <3> USE <1>4, AgentKinds
          DEF WaitInv, TypeInv, TypeOK, Goto, callVars, LifeStep, LifeRuns, LifeStart, Complete,
              Fail, ObserveCancel, Defer, NotifyRead, NotifySend, LifeClose, FinishWith,
              FinishStep, FinishClearReason, FinishTerminate, FinishSend, selfSuspend,
              SuspendProcessStep, SuspendTransition, SuspendStampReason, SuspendStampExit
      <3>1. UNCHANGED op  OBVIOUS
      <3>2. \E l : Goto(g, l)  OBVIOUS
      <3> QED  BY <3>1, <3>2
    <2> QED  BY <2>1, <2>2, OthersKeepWaiting
  <1>5. ASSUME ShutdownStep
        PROVE  \A d \in Callers : CameBy(d)'
    <2>1. Moves  BY <1>5, ShutdownMoves
    <2>2. \A d \in Callers : pc'[d] = pc[d] /\ op'[d] = op[d]
      BY <1>5, AgentKinds
      DEF WaitInv, TypeInv, TypeOK, Goto, Return, callVars, ShutdownStep, GraceCompleted,
          GraceTimeout, KillStep, KillCheck, SignalKill, KillTransition, KillStampExit,
          KillSend, KillCloseTerminated, KillReap
    <2> QED  BY <2>1, <2>2, OthersKeepWaiting
  <1> QED  BY <1>1, <1>2, <1>3, <1>4, <1>5 DEF WaitInv, Next

(* A parent that waits for its child with WaitChildInReason or SpawnAndWait *)
(* goes on to reap it only when it is over, whatever suspends, resumes and  *)
(* kills put into Done meanwhile, with or without resumeMu.                 *)
THEOREM ParentSeesEnd == Spec => []WaitChildSeesEnd
  <1>1. Init => WaitInv
    <2> SUFFICES ASSUME Init, NEW c \in Callers PROVE CameBy(c)
      BY TypeInit DEF WaitInv
    <2>1. pc[c] = "idle"  BY AgentKinds, LifecycleConstants DEF Init
    <2> QED  BY <2>1 DEF CameBy, AboutToReap
  <1>2. WaitInv => WaitChildSeesEnd
    BY DEF WaitInv, CameBy, WaitChildSeesEnd
  <1> QED  BY <1>1, <1>2, WaitInvStep, PTL DEF Spec
-----------------------------------------------------------------------------
(* The second part: calls that take resumeMu, and no self-suspend.          *)

Calls == {"Suspend", "SIGPAUSE"}
LockedCalls == SelfSuspends = FALSE /\ \A c \in Callers : OpsOf[c] \intersect Calls = {}

Guarded   == SuspendPCs \union ResumePCs \union FinishPCs
Reviving  == {"r_flag", "r_reason", "r_exit", "r_drain", "r_ctx", "r_open"}
Exclusive == {"sp_trans", "r_trans"} \union Reviving

Quiet == \A g \in Lives : pc[g] \in {"unborn", "gone"}

\* The holder of resumeMu is the only caller inside a suspend or a resume.
MutexInv == \A c \in Callers : pc[c] \in Guarded => resumeMu = c

\* What the callers between their wait for the goroutine and the start of the
\* next one rely on, and what keeps it true: a goroutine starts only where
\* none lives and the process runs.
QuietInv ==
    /\ \A g \in Lives : pc[g] \notin SuspendProcessPCs
    /\ state = "Suspended" => Quiet
    /\ \A c \in Callers : pc[c] \in Exclusive => Quiet
    /\ \A c \in Callers : pc[c] \in Reviving => state = "Running"

AloneInv ==
    /\ \A g, h \in Lives :
          pc[g] \notin {"unborn", "gone"} /\ pc[h] \notin {"unborn", "gone"} => g = h
    /\ state = "Created" => \A g \in Lives : pc[g] \in {"unborn", "start"}

LockInv == TypeInv /\ MutexInv /\ QuietInv /\ AloneInv

LEMMA LockInit == Init => LockInv
  <1> SUFFICES ASSUME Init PROVE LockInv  OBVIOUS
  <1>1. TypeInv  BY TypeInit
  <1>2. /\ \A c \in Callers : pc[c] = "idle"
        /\ \A g \in Lives : pc[g] = IF g = FirstLife THEN "start" ELSE "unborn"
        /\ state = "Created"
    BY AgentKinds, LifecycleConstants DEF Init
  <1>3. MutexInv /\ QuietInv /\ AloneInv
    BY <1>2
    DEF MutexInv, QuietInv, AloneInv, Guarded, Exclusive, Reviving, SuspendPCs, ResumePCs,
        FinishPCs, SuspendProcessPCs
  <1> QED  BY <1>1, <1>3 DEF LockInv

LEMMA PcFacts ==
    ASSUME TypeInv
    PROVE  /\ pc \in [Agents -> PCs]
           /\ \A c \in Callers : pc[c] \in CallerPCs
           /\ \A g \in Lives : pc[g] \in LifePCs
  BY DEF TypeInv, TypeOK

LEMMA TypeInvStates == TypeInv => state \in States
  BY DEF TypeInv, TypeOK

LEMMA PcSets ==
    /\ Exclusive \subseteq Guarded
    /\ Reviving \subseteq Exclusive
    /\ Guarded \subseteq CallerPCs
  BY DEF Exclusive, Reviving, Guarded, SuspendPCs, SuspendProcessPCs, ResumePCs, FinishPCs,
     CallerPCs

LockStable == MutexInv' /\ QuietInv' /\ AloneInv'

\* A step outside the guarded calls, or out of one: the agents that move are
\* not goroutines and end up unguarded, and the state goes nowhere but to Dead.
MovesOutside ==
    \A b \in Agents :
        pc'[b] = pc[b] \/ (b \notin Lives /\ (b \in Callers => pc'[b] \notin Guarded))
UnlocksOutside ==
    resumeMu' = resumeMu \/ \A c \in Callers : resumeMu = c => pc'[c] \notin Guarded
BuriesAtMost == UNCHANGED state \/ (state' = "Dead" /\ state # "Running")

LEMMA LockOutside ==
    ASSUME LockInv, MovesOutside, UnlocksOutside, BuriesAtMost
    PROVE  LockStable
  <1> USE AgentKinds, PcFacts, PcSets DEF LockInv, MovesOutside, UnlocksOutside, BuriesAtMost
  <1>1. \A g \in Lives : pc'[g] = pc[g]  OBVIOUS
  <1>2. \A c \in Callers : pc'[c] \in Guarded => pc'[c] = pc[c]  OBVIOUS
  <1>3. MutexInv'  BY <1>2 DEF MutexInv
  <1>4. QuietInv'  BY <1>1, <1>2 DEF QuietInv, Quiet
  <1>5. AloneInv'  BY <1>1 DEF AloneInv
  <1> QED  BY <1>3, <1>4, <1>5 DEF LockStable

\* A step of the caller that holds resumeMu, or takes it.
LEMMA LockInside ==
    ASSUME LockInv, NEW c \in Callers, NEW l, Goto(c, l),
           resumeMu \in {c, Nobody}, resumeMu' = c,
           l \in Exclusive => Quiet,
           l \in Reviving => state' = "Running",
           state' = "Suspended" => state = "Suspended" \/ Quiet,
           state' = "Created" => state = "Created"
    PROVE  LockStable
  <1> USE AgentKinds, PcFacts, PcSets DEF LockInv
  <1>1. \A b \in Agents : pc'[b] = IF b = c THEN l ELSE pc[b]  BY DEF Goto
  <1>2. \A g \in Lives : pc'[g] = pc[g]  BY <1>1
  <1>3. \A d \in Callers : pc'[d] \in Guarded => d = c
    BY <1>1, LifecycleConstants DEF MutexInv
  <1>4. MutexInv'  BY <1>3 DEF MutexInv
  <1>5. QuietInv'  BY <1>1, <1>2, <1>3 DEF QuietInv, Quiet
  <1>6. AloneInv'  BY <1>2 DEF AloneInv
  <1> QED  BY <1>4, <1>5, <1>6 DEF LockStable

\* A step of a goroutine that lives.
LEMMA LockAlive ==
    ASSUME LockInv, NEW g \in Lives, NEW l, Goto(g, l),
           pc[g] \notin {"unborn", "gone"},
           l \notin SuspendProcessPCs \union {"unborn"},
           UNCHANGED resumeMu,
           state' \notin {"Created", "Suspended"}
    PROVE  LockStable
  <1> USE AgentKinds, PcFacts, PcSets DEF LockInv
  <1>1. \A b \in Agents : pc'[b] = IF b = g THEN l ELSE pc[b]  BY DEF Goto
  <1>2. \A c \in Callers : pc'[c] = pc[c]  BY <1>1
  <1>3. ~Quiet  BY DEF Quiet
  <1>4. MutexInv'  BY <1>2 DEF MutexInv
  <1>5. QuietInv'  BY <1>1, <1>2, <1>3 DEF QuietInv
  <1>6. AloneInv'  BY <1>1 DEF AloneInv
  <1> QED  BY <1>4, <1>5, <1>6 DEF LockStable

LEMMA LockReturn ==
    ASSUME LockInv, NEW a \in Callers \union {Shutdown}, Return(a),
           BuriesAtMost
    PROVE  LockStable
  <1>1. \A b \in Agents : pc'[b] = IF b = a THEN (IF a = Shutdown THEN "over" ELSE "idle")
                                  ELSE pc[b]
    BY AgentKinds, PcFacts DEF LockInv, Return, Goto
  <1>2. "idle" \notin Guarded
    BY DEF Guarded, SuspendPCs, SuspendProcessPCs, ResumePCs, FinishPCs
  <1>3. MovesOutside  BY <1>1, <1>2, AgentKinds DEF MovesOutside
  <1>4. UnlocksOutside  BY <1>1, <1>2, AgentKinds DEF UnlocksOutside, Return
  <1> QED  BY <1>3, <1>4, LockOutside

LEMMA LockKill ==
    ASSUME LockInv, NEW a \in Callers \union {Shutdown}, KillStep(a)
    PROVE  LockStable
  <1> USE AgentKinds
  <1>1. CASE Return(a)
    BY <1>1, LockReturn
    DEF KillStep, KillCheck, SignalKill, KillTransition, KillStampExit, KillSend,
        KillCloseTerminated, KillReap, Goto, procVars, BuriesAtMost, CanGo, validTransitions, States
  <1>2. CASE ~Return(a)
    <2>1. PICK l \in KillPCs : Goto(a, l)
      BY <1>2
      DEF KillStep, KillCheck, SignalKill, KillTransition, KillStampExit, KillSend,
          KillCloseTerminated, KillReap, KillPCs
    <2>2. UNCHANGED resumeMu
      BY <1>2
      DEF KillStep, KillCheck, SignalKill, KillTransition, KillStampExit, KillSend,
          KillCloseTerminated, KillReap, hostVars
    <2>3. BuriesAtMost
      BY <1>2, TypeInvStates
      DEF LockInv, BuriesAtMost, KillStep, KillCheck, SignalKill, KillTransition,
          KillStampExit, KillSend, KillCloseTerminated, KillReap, procVars, CanGo,
          validTransitions
    <2>4. l \notin Guarded
      BY DEF KillPCs, Guarded, SuspendPCs, SuspendProcessPCs, ResumePCs, FinishPCs
    <2>5. \A b \in Agents : pc'[b] = IF b = a THEN l ELSE pc[b]
      BY <2>1, PcFacts DEF LockInv, Goto
    <2>6. MovesOutside /\ UnlocksOutside
      BY <2>2, <2>4, <2>5, AgentKinds DEF MovesOutside, UnlocksOutside
    <2> QED  BY <2>3, <2>6, LockOutside
  <1> QED  BY <1>1, <1>2

LEMMA LockWait ==
    ASSUME LockInv, NEW c \in Callers, WaitStep(c) \/ WaitChildAbandon(c) \/ SignalTerm(c)
    PROVE  LockStable
  <1> USE AgentKinds
  <1>1. CASE Return(c)
    BY <1>1, LockReturn, TypeInvStates
    DEF LockInv, WaitStep, WaitReceive, WaitChildReceive, WaitChildCheck, WaitChildAbandon,
        SignalTerm, ReapCheck, ReapEnter, ReapWait, ReapDead, procVars, BuriesAtMost,
        CanGo, validTransitions
  <1>2. CASE WaitStep(c) /\ ~Return(c)
    <2>1. PICK l \in WaitPCs : Goto(c, l)
      BY <1>2
      DEF WaitStep, WaitReceive, WaitChildReceive, WaitChildCheck, ReapCheck, ReapEnter,
          ReapWait, ReapDead, WaitPCs
    <2>2. UNCHANGED <<resumeMu, state>>
      BY <1>2
      DEF WaitStep, WaitReceive, WaitChildReceive, WaitChildCheck, ReapCheck, ReapEnter,
          ReapWait, ReapDead, hostVars, procVars
    <2>3. l \notin Guarded
      BY DEF WaitPCs, Guarded, SuspendPCs, SuspendProcessPCs, ResumePCs, FinishPCs
    <2>4. \A b \in Agents : pc'[b] = IF b = c THEN l ELSE pc[b]
      BY <2>1, PcFacts DEF LockInv, Goto
    <2>5. MovesOutside /\ UnlocksOutside /\ BuriesAtMost
      BY <2>2, <2>3, <2>4 DEF MovesOutside, UnlocksOutside, BuriesAtMost
    <2> QED  BY <2>5, LockOutside
  <1>3. CASE SignalTerm(c)
    <2>1. \A b \in Agents : pc'[b] = pc[b] \/ (b = c /\ pc'[b] = "idle") \/ b = Shutdown
      BY <1>3, PcFacts DEF LockInv, SignalTerm, Goto
    <2>2. "idle" \notin Guarded
      BY DEF Guarded, SuspendPCs, SuspendProcessPCs, ResumePCs, FinishPCs
    <2>3. UNCHANGED <<resumeMu, state>>  BY <1>3 DEF SignalTerm, procVars
    <2>4. MovesOutside /\ UnlocksOutside /\ BuriesAtMost
      BY <2>1, <2>2, <2>3 DEF MovesOutside, UnlocksOutside, BuriesAtMost
    <2> QED  BY <2>4, LockOutside
  <1> QED
    BY <1>1, <1>2, <1>3 DEF WaitChildAbandon

LEMMA LockGrace ==
    ASSUME LockInv, GraceCompleted \/ GraceTimeout
    PROVE  LockStable
  <1>1. \A b \in Agents : pc'[b] = pc[b] \/ b = Shutdown
    BY PcFacts DEF LockInv, GraceCompleted, GraceTimeout, Goto
  <1>2. UNCHANGED <<resumeMu, state>>
    BY DEF GraceCompleted, GraceTimeout, procVars, hostVars
  <1>3. MovesOutside /\ UnlocksOutside /\ BuriesAtMost
    BY <1>1, <1>2, AgentKinds DEF MovesOutside, UnlocksOutside, BuriesAtMost
  <1> QED  BY <1>3, LockOutside

LEMMA LockBegin ==
    ASSUME LockedCalls, LockInv, NEW c \in Callers, Begin(c)
    PROVE  LockStable
  <1>1. ~CallSuspend(c) /\ ~CallSIGPAUSE(c)
    BY DEF LockedCalls, Calls, CallSuspend, CallSIGPAUSE, Call
  <1>2. CASE CallSuspendSubtree(c) \/ CallResumeSubtree(c)
    <2>1. PICK l \in {"ss_check", "r_check"} : Goto(c, l)
      BY <1>2 DEF CallSuspendSubtree, CallResumeSubtree, Call
    <2>2. resumeMu = Nobody /\ resumeMu' = c /\ UNCHANGED state
      BY <1>2 DEF CallSuspendSubtree, CallResumeSubtree, Call, LockResumeMu, procVars
    <2>3. l \notin Exclusive /\ l \notin Reviving  BY DEF Exclusive, Reviving
    <2> QED  BY <2>1, <2>2, <2>3, LockInside
  <1>3. CASE CallKill(c) \/ CallWait(c) \/ CallReap(c)
    <2>1. PICK l \in {"k_check", "w_recv", "wc_recv", "rp_check"} : Goto(c, l)
      BY <1>3 DEF CallKill, CallWait, CallReap, Call
    <2>2. UNCHANGED <<resumeMu, state>>
      BY <1>3 DEF CallKill, CallWait, CallReap, Call, procVars
    <2>3. l \notin Guarded
      BY DEF Guarded, SuspendPCs, SuspendProcessPCs, ResumePCs, FinishPCs
    <2>4. \A b \in Agents : pc'[b] = IF b = c THEN l ELSE pc[b]
      BY <2>1, PcFacts, AgentKinds DEF LockInv, Goto
    <2>5. MovesOutside /\ UnlocksOutside /\ BuriesAtMost
      BY <2>2, <2>3, <2>4, AgentKinds DEF MovesOutside, UnlocksOutside, BuriesAtMost
    <2> QED  BY <2>5, LockOutside
  <1> QED  BY <1>1, <1>2, <1>3 DEF Begin

\* What a caller in a guarded call knows.
LEMMA GuardedHolds ==
    ASSUME LockInv, NEW c \in Callers, pc[c] \in Guarded
    PROVE  resumeMu = c
  BY DEF LockInv, MutexInv

LEMMA LiveReasonersMeans ==
    /\ (LiveReasoners = {}) <=> Quiet
    /\ (LiveReasoners' = {}) <=> Quiet'
  BY DEF LiveReasoners, Quiet

LEMMA LockSuspend ==
    ASSUME LockInv, NEW c \in Callers, SuspendStep(c)
    PROVE  LockStable
  <1>1. pc[c] \in Guarded
    BY DEF SuspendStep, SubtreeCheck, SubtreeRecheck, SuspendFlag, SuspendPresetExit,
       SuspendCancel, SuspendWait, Guarded, SuspendPCs
  <1>2. resumeMu = c  BY <1>1, GuardedHolds
  <1>3. UNCHANGED state
    BY DEF SuspendStep, SubtreeCheck, SubtreeRecheck, SuspendFlag, SuspendPresetExit,
       SuspendCancel, SuspendWait, procVars
  <1>4. CASE Return(c)
    BY <1>3, <1>4, LockReturn DEF BuriesAtMost
  <1>5. CASE SuspendWait(c)
    <2>1. Goto(c, "sp_trans") /\ Quiet /\ UNCHANGED resumeMu
      BY <1>5, LiveReasonersMeans DEF SuspendWait, hostVars
    <2>2. "sp_trans" \notin Reviving  BY DEF Reviving
    <2> QED  BY <1>2, <1>3, <2>1, <2>2, LockInside
  <1>6. CASE ~Return(c) /\ ~SuspendWait(c)
    <2>1. PICK l \in {"ss_check", "ss_recheck", "s_flag", "s_exit", "s_cancel", "s_wait"} :
             Goto(c, l)
      BY <1>6
      DEF SuspendStep, SubtreeCheck, SubtreeRecheck, SuspendFlag, SuspendPresetExit,
          SuspendCancel
    <2>2. UNCHANGED resumeMu
      BY <1>6
      DEF SuspendStep, SubtreeCheck, SubtreeRecheck, SuspendFlag, SuspendPresetExit,
          SuspendCancel, hostVars
    <2>3. l \notin Exclusive /\ l \notin Reviving  BY DEF Exclusive, Reviving
    <2> QED  BY <1>2, <1>3, <2>1, <2>2, <2>3, LockInside
  <1> QED  BY <1>4, <1>5, <1>6

LEMMA LockSuspendProcess ==
    ASSUME LockInv, NEW c \in Callers, SuspendProcessStep(c)
    PROVE  LockStable
  <1> USE AgentKinds
  <1>1. pc[c] \in Guarded
    BY DEF SuspendProcessStep, SuspendTransition, SuspendStampReason, SuspendStampExit, Guarded,
       SuspendPCs, SuspendProcessPCs
  <1>2. resumeMu = c  BY <1>1, GuardedHolds
  <1>3. CASE SuspendTransition(c) /\ CanGo("Suspended")
    <2>1. Quiet
      BY <1>3 DEF SuspendTransition, LockInv, QuietInv, Exclusive
    <2>2. Goto(c, "sp_reason") /\ UNCHANGED resumeMu /\ state' = "Suspended"
      BY <1>3 DEF SuspendTransition
    <2>3. "sp_reason" \notin Exclusive /\ "sp_reason" \notin Reviving
      BY DEF Exclusive, Reviving
    <2> QED  BY <1>2, <2>1, <2>2, <2>3, LockInside
  <1>4. CASE SuspendTransition(c) /\ ~CanGo("Suspended")
    BY <1>4, LockReturn DEF SuspendTransition, BuriesAtMost
  <1>5. CASE SuspendStampReason(c)
    <2>1. Goto(c, "sp_exit") /\ UNCHANGED <<resumeMu, state>>
      BY <1>5 DEF SuspendStampReason, hostVars
    <2>2. "sp_exit" \notin Exclusive /\ "sp_exit" \notin Reviving  BY DEF Exclusive, Reviving
    <2> QED  BY <1>2, <2>1, <2>2, LockInside
  <1>6. CASE SuspendStampExit(c)
    <2>1. CASE Return(c)
      BY <1>6, <2>1, LockReturn DEF SuspendStampExit, BuriesAtMost
    <2>2. CASE ~Return(c)
      <3>1. Goto(c, "ss_check") /\ UNCHANGED <<resumeMu, state>>
        BY <1>6, <2>2 DEF SuspendStampExit
      <3>2. "ss_check" \notin Exclusive /\ "ss_check" \notin Reviving
        BY DEF Exclusive, Reviving
      <3> QED  BY <1>2, <3>1, <3>2, LockInside
    <2> QED  BY <2>1, <2>2
  <1> QED  BY <1>3, <1>4, <1>5, <1>6 DEF SuspendProcessStep

LEMMA LockResume ==
    ASSUME LockInv, NEW c \in Callers, ResumeStep(c)
    PROVE  LockStable
  <1> USE AgentKinds
  <1>1. pc[c] \in Guarded
    BY DEF ResumeStep, ResumeCheck, ResumeTransition, ResumeClearFlag, ResumeClearReason,
       ResumeClearExit, ResumeDrain, ResumeNewContext, ResumeOpen, Guarded, ResumePCs
  <1>2. resumeMu = c  BY <1>1, GuardedHolds
  <1>3. CASE ResumeCheck(c)
    <2>1. CASE Return(c)
      BY <1>3, <2>1, LockReturn DEF ResumeCheck, procVars, BuriesAtMost
    <2>2. CASE ~Return(c)
      <3>1. Goto(c, "r_trans") /\ state = "Suspended" /\ UNCHANGED <<resumeMu, state>>
        BY <1>3, <2>2 DEF ResumeCheck, procVars
      <3>2. Quiet /\ "r_trans" \notin Reviving
        BY <3>1 DEF LockInv, QuietInv, Reviving
      <3> QED  BY <1>2, <3>1, <3>2, LockInside
    <2> QED  BY <2>1, <2>2
  <1>4. CASE ResumeTransition(c)
    <2>1. CASE ~CanGo("Running")
      BY <1>4, <2>1, LockReturn DEF ResumeTransition, BuriesAtMost
    <2>2. CASE CanGo("Running")
      <3>1. Goto(c, "r_flag") /\ state' = "Running" /\ UNCHANGED resumeMu
        BY <1>4, <2>2 DEF ResumeTransition
      <3>2. Quiet  BY <1>4 DEF ResumeTransition, LockInv, QuietInv, Exclusive
      <3> QED  BY <1>2, <3>1, <3>2, LockInside
    <2> QED  BY <2>1, <2>2
  <1>5. CASE \/ ResumeClearFlag(c) \/ ResumeClearReason(c) \/ ResumeClearExit(c)
             \/ ResumeDrain(c) \/ ResumeNewContext(c)
    <2>1. PICK l : Goto(c, l)
      BY <1>5
      DEF ResumeClearFlag, ResumeClearReason, ResumeClearExit, ResumeDrain, ResumeNewContext
    <2>2. UNCHANGED <<resumeMu, state>>
      BY <1>5
      DEF ResumeClearFlag, ResumeClearReason, ResumeClearExit, ResumeDrain, ResumeNewContext,
          hostVars, procVars
    <2>3. pc[c] \in Reviving /\ pc[c] \in Exclusive
      BY <1>5
      DEF ResumeClearFlag, ResumeClearReason, ResumeClearExit, ResumeDrain, ResumeNewContext,
          Reviving, Exclusive
    <2>4. Quiet /\ state = "Running"  BY <2>3 DEF LockInv, QuietInv
    <2> QED  BY <1>2, <2>1, <2>2, <2>4, LockInside
  <1>6. CASE ResumeOpen(c)
    <2>1. Quiet /\ state = "Running" /\ UNCHANGED state
      BY <1>6 DEF ResumeOpen, LockInv, QuietInv, Reviving, Exclusive, procVars
    <2>2. CASE Goto(c, "fp_clear") /\ UNCHANGED resumeMu
      <3>1. "fp_clear" \notin Exclusive /\ "fp_clear" \notin Reviving
        BY DEF Exclusive, Reviving
      <3> QED  BY <1>2, <2>1, <2>2, <3>1, LockInside
    <2>3. ASSUME NEW g \in Lives, pc' = [pc EXCEPT ![g] = "loop", ![c] = "idle"],
                 resumeMu' = Nobody
          PROVE  LockStable
      <3>1. /\ \A h \in Lives : pc'[h] = IF h = g THEN "loop" ELSE pc[h]
            /\ \A d \in Callers : pc'[d] = IF d = c THEN "idle" ELSE pc[d]
        BY <2>3, PcFacts DEF LockInv
      <3>2. "idle" \notin Guarded
        BY DEF Guarded, SuspendPCs, SuspendProcessPCs, ResumePCs, FinishPCs
      <3>3. \A d \in Callers : pc'[d] \notin Guarded
        BY <1>2, <3>1, <3>2 DEF LockInv, MutexInv
      <3>4. MutexInv'  BY <3>3 DEF MutexInv
      <3>5. QuietInv'
        BY <2>1, <3>1, <3>3, PcSets DEF LockInv, QuietInv, SuspendProcessPCs
      <3>6. AloneInv'  BY <2>1, <3>1 DEF Quiet, AloneInv
      <3> QED  BY <3>4, <3>5, <3>6 DEF LockStable
    <2> QED  BY <1>6, <2>2, <2>3 DEF ResumeOpen
  <1> QED  BY <1>3, <1>4, <1>5, <1>6 DEF ResumeStep

\* finishProcess when a resume that could not open the device runs it.
LEMMA LockFinish ==
    ASSUME LockInv, NEW c \in Callers, FinishStep(c)
    PROVE  LockStable
  <1> USE AgentKinds
  <1>1. pc[c] \in Guarded
    BY DEF FinishStep, FinishClearReason, FinishTerminate, FinishSend, Guarded, FinishPCs
  <1>2. resumeMu = c  BY <1>1, GuardedHolds
  <1>3. CASE FinishSend(c)
    BY <1>3, LockReturn DEF FinishSend, procVars, BuriesAtMost
  <1>4. CASE FinishClearReason(c) \/ FinishTerminate(c)
    <2>1. PICK l \in {"fp_term", "fp_done"} : Goto(c, l)
      BY <1>4 DEF FinishClearReason, FinishTerminate
    <2>2. UNCHANGED resumeMu /\ (state' = state \/ state' = "Zombie")
      BY <1>4 DEF FinishClearReason, FinishTerminate, hostVars
    <2>3. l \notin Exclusive /\ l \notin Reviving  BY DEF Exclusive, Reviving
    <2> QED  BY <1>2, <2>1, <2>2, <2>3, LockInside
  <1> QED  BY <1>3, <1>4 DEF FinishStep

LEMMA LockLife ==
    ASSUME LockedCalls, LockInv, NEW g \in Lives, LifeStep(g)
    PROVE  LockStable
  <1> USE AgentKinds
  <1>1. ~SuspendProcessStep(g) /\ ~selfSuspend(g)
    BY DEF LockedCalls, LockInv, QuietInv, SuspendProcessStep, SuspendTransition,
       SuspendStampReason, SuspendStampExit, SuspendProcessPCs, selfSuspend
  <1>2. CASE LifeStart(g)
    <2>1. Goto(g, "loop") /\ UNCHANGED resumeMu /\ pc[g] = "start"
      BY <1>2 DEF LifeStart, hostVars
    <2>2. state # "Suspended"  BY <2>1 DEF LockInv, QuietInv, Quiet
    <2>3. state' \notin {"Created", "Suspended"}
      BY <1>2, <2>2, TypeInvStates DEF LockInv, LifeStart, CanGo, validTransitions, States
    <2>4. "loop" \notin SuspendProcessPCs \union {"unborn"}  BY DEF SuspendProcessPCs
    <2> QED  BY <2>1, <2>3, <2>4, LockAlive
  <1>3. CASE ~LifeStart(g)
    <2> USE <1>1, <1>3
        DEF LifeStep, LifeRuns, Complete, Fail, ObserveCancel, Defer, NotifyRead, NotifySend,
            LifeClose, FinishStep, FinishClearReason, FinishTerminate, FinishSend, FinishWith
    <2>1. PICK l \in {"fp_clear", "fp_term", "fp_done", "defer", "notify", "send", "close",
                      "gone"} : Goto(g, l)
      OBVIOUS
    <2>2. pc[g] \notin {"unborn", "gone", "start"}  OBVIOUS
    <2>3. UNCHANGED resumeMu /\ (state' = state \/ state' = "Zombie")
      BY DEF hostVars, procVars
    <2> HIDE <1>1, <1>3
        DEF LifeStep, LifeRuns, Complete, Fail, ObserveCancel, Defer, NotifyRead, NotifySend,
            LifeClose, FinishStep, FinishClearReason, FinishTerminate, FinishSend, FinishWith
    <2>4. state' \notin {"Created", "Suspended"}
      BY <2>2, <2>3 DEF LockInv, QuietInv, Quiet, AloneInv
    <2>5. l \notin SuspendProcessPCs \union {"unborn"}  BY DEF SuspendProcessPCs
    <2> QED  BY <2>1, <2>2, <2>3, <2>4, <2>5, LockAlive
  <1> QED  BY <1>2, <1>3

LEMMA LockStep == LockedCalls /\ LockInv /\ [Next]_vars => LockInv'
  <1> SUFFICES ASSUME LockedCalls, LockInv, [Next]_vars PROVE LockInv'  OBVIOUS
  <1>1. TypeInv'  BY TypeStep DEF LockInv
  <1>2. CASE UNCHANGED vars
    BY <1>1, <1>2
    DEF LockInv, MutexInv, QuietInv, Quiet, AloneInv, vars, procVars, hostVars
  <1>3. CASE Next
    <2>1. ASSUME NEW c \in Callers, Begin(c) \/ CallerStep(c) \/ WaitChildAbandon(c)
          PROVE  LockStable
      BY <2>1, LockBegin, LockSuspend, LockSuspendProcess, LockResume, LockFinish, LockKill,
         LockWait
      DEF CallerStep
    <2>2. ASSUME ShutdownStep PROVE LockStable
      BY <2>2, LockKill, LockGrace DEF ShutdownStep
    <2>3. LockStable  BY <1>3, <2>1, <2>2, LockLife DEF Next
    <2> QED  BY <1>1, <2>3 DEF LockInv, LockStable
  <1> QED  BY <1>2, <1>3

(* When every suspend holds resumeMu and the process does not suspend       *)
(* itself, no sequence of suspends, resumes, kills, waits and reaps leaves  *)
(* a goroutine behind in a Suspended process: reapSuspendedProcess, which   *)
(* waits for none, has none to wait for.                                    *)
THEOREM LockedIsQuiet == ASSUME LockedCalls PROVE Spec => []SuspendedIsQuiet
  <1>1. LockInv /\ [Next]_vars => LockInv'  BY LockStep
  <1>2. LockInv => SuspendedIsQuiet
    BY LiveReasonersMeans DEF LockInv, QuietInv, SuspendedIsQuiet
  <1> QED  BY <1>1, <1>2, LockInit, PTL DEF Spec

(* Under the same locking, a resume never starts a second reasoning         *)
(* goroutine beside one that has not returned.                              *)
THEOREM LockedSingleReasoner == ASSUME LockedCalls PROVE Spec => []SingleReasoner
  <1>1. LockInv /\ [Next]_vars => LockInv'  BY LockStep
  <1>2. ASSUME LockInv PROVE SingleReasoner
    <2>1. \A g, h \in LiveReasoners : g = h
      BY <1>2 DEF LockInv, AloneInv, LiveReasoners
    <2>2. CASE LiveReasoners = {}
      BY <2>2, FS_EmptySet DEF SingleReasoner
    <2>3. CASE LiveReasoners # {}
      <3>1. PICK g : LiveReasoners = {g}  BY <2>1, <2>3
      <3>2. Cardinality(LiveReasoners) = 1  BY <3>1, FS_Singleton
      <3> QED  BY <3>2 DEF SingleReasoner
    <2> QED  BY <2>2, <2>3
  <1> QED  BY <1>1, <1>2, LockInit, PTL DEF Spec

-----------------------------------------------------------------------------
(* Under the same locking: the device of a goroutine that reasons.          *)

DeviceInv == \A g \in Lives : pc[g] \in {"start", "loop"} => fdOpen

LEMMA CallersLeaveLives ==
    ASSUME TypeInv, NEW c \in Callers,
           Begin(c) \/ CallerStep(c) \/ WaitChildAbandon(c), ~ResumeOpen(c)
    PROVE  UNCHANGED fdOpen /\ \A g \in Lives : pc'[g] = pc[g]
  <1> USE AgentKinds, PcFacts DEF Goto, Return, hostVars
  <1>1. CASE Begin(c)
    BY <1>1
    DEF Begin, CallSuspend, CallSuspendSubtree, CallSIGPAUSE, CallResumeSubtree, CallKill,
        CallWait, CallReap, Call
  <1>2. CASE SuspendStep(c) \/ SuspendProcessStep(c)
    BY <1>2
    DEF SuspendStep, SubtreeCheck, SubtreeRecheck, SuspendFlag, SuspendPresetExit,
        SuspendCancel, SuspendWait, SuspendProcessStep, SuspendTransition, SuspendStampReason,
        SuspendStampExit
  <1>3. CASE ResumeStep(c) \/ FinishStep(c)
    BY <1>3
    DEF ResumeStep, ResumeCheck, ResumeTransition, ResumeClearFlag, ResumeClearReason,
        ResumeClearExit, ResumeDrain, ResumeNewContext, FinishStep, FinishClearReason,
        FinishTerminate, FinishSend
  <1>4. CASE KillStep(c) \/ SignalTerm(c)
    BY <1>4
    DEF KillStep, KillCheck, SignalKill, KillTransition, KillStampExit, KillSend,
        KillCloseTerminated, KillReap, SignalTerm
  <1>5. CASE WaitStep(c) \/ WaitChildAbandon(c)
    BY <1>5
    DEF WaitStep, WaitReceive, WaitChildReceive, WaitChildCheck, WaitChildAbandon, ReapCheck,
        ReapEnter, ReapWait, ReapDead
  <1> QED  BY <1>1, <1>2, <1>3, <1>4, <1>5 DEF CallerStep

LEMMA DeviceStep == LockInv /\ DeviceInv /\ [Next]_vars => DeviceInv'
  <1> SUFFICES ASSUME LockInv, DeviceInv, [Next]_vars PROVE DeviceInv'  OBVIOUS
  <1> USE AgentKinds, PcFacts DEF LockInv, DeviceInv
  <1>1. CASE UNCHANGED vars  BY <1>1 DEF vars, hostVars
  <1>2. ASSUME NEW c \in Callers, Begin(c) \/ CallerStep(c) \/ WaitChildAbandon(c)
        PROVE  DeviceInv'
    <2>1. CASE ResumeOpen(c)
      <3>1. CASE Goto(c, "fp_clear") /\ UNCHANGED fdOpen  BY <3>1 DEF Goto
      <3>2. CASE fdOpen'  BY <3>2
      <3> QED  BY <2>1, <3>1, <3>2 DEF ResumeOpen
    <2> QED  BY <1>2, <2>1, CallersLeaveLives
  <1>3. ASSUME NEW g \in Lives, LifeStep(g) PROVE DeviceInv'
    <2>1. CASE LifeClose(g)
      <3>1. \A h \in Lives : pc[h] \in {"start", "loop"} => h = g
        BY <2>1 DEF LifeClose, AloneInv
      <3>2. \A h \in Lives : pc'[h] = IF h = g THEN "gone" ELSE pc[h]
        BY <2>1 DEF LifeClose, Goto
      <3> QED  BY <3>1, <3>2
    <2>2. CASE LifeStart(g)
      BY <2>2 DEF LifeStart, Goto, hostVars
    <2>3. CASE ~LifeClose(g) /\ ~LifeStart(g)
      <3> USE <1>3, <2>3
          DEF LifeStep, LifeRuns, Complete, Fail, ObserveCancel, Defer, NotifyRead, NotifySend,
              FinishWith, FinishStep, FinishClearReason, FinishTerminate, FinishSend, selfSuspend,
              SuspendProcessStep, SuspendTransition, SuspendStampReason, SuspendStampExit
      <3>1. UNCHANGED fdOpen  BY DEF hostVars
      <3>2. \E l : Goto(g, l) /\ l \notin {"start", "loop"}  OBVIOUS
      <3> QED  BY <3>1, <3>2 DEF Goto
    <2> QED  BY <2>1, <2>2, <2>3
  <1>4. ASSUME ShutdownStep PROVE DeviceInv'
    <2>1. UNCHANGED fdOpen
      BY <1>4
      DEF ShutdownStep, GraceCompleted, GraceTimeout, KillStep, KillCheck, SignalKill,
          KillTransition, KillStampExit, KillSend, KillCloseTerminated, KillReap, hostVars
    <2>2. \E l : Goto(Shutdown, l)
      BY <1>4
      DEF ShutdownStep, GraceCompleted, GraceTimeout, KillStep, KillCheck, SignalKill,
          KillTransition, KillStampExit, KillSend, KillCloseTerminated, KillReap, Return
    <2> QED  BY <2>1, <2>2 DEF Goto
  <1> QED  BY <1>1, <1>2, <1>3, <1>4 DEF Next

(* Under the same locking, the CloseAll with which an incarnation ends      *)
(* never takes the LLM device from the incarnation a resume started.        *)
THEOREM LockedKeepsDevice == ASSUME LockedCalls PROVE Spec => []ReasonerHasDevice
  <1>1. LockInv /\ [Next]_vars => LockInv'  BY LockStep
  <1>2. Init => DeviceInv  BY DEF Init, DeviceInv
  <1>3. DeviceInv => ReasonerHasDevice  BY DEF DeviceInv, ReasonerHasDevice
  <1> QED  BY <1>1, <1>2, <1>3, DeviceStep, LockInit, PTL DEF Spec

-----------------------------------------------------------------------------
(* Under the same locking: the fields that suspend, resume, finish and kill *)
(* write one lock section at a time.                                        *)

\* Where a caller's or a goroutine's place tells what the fields are.
Shown == FinishPCs \union {"sp_reason", "sp_exit", "r_flag", "r_reason", "r_exit", "ks_exit",
                           "s_exit"}

\* What an agent in the middle of its lock sections relies on.
Midway(a) ==
    /\ pc[a] \in FinishPCs => val[a] \in Outcomes
    /\ pc[a] = "ks_exit" => state = "Dead"

CallerMidway(c) ==
    /\ op[c] # "Suspend" /\ pc[c] # "s_exit"
    /\ pc[c] \in FinishPCs => state # "Suspended"
    /\ pc[c] \in {"sp_reason", "sp_exit"} => state \in {"Suspended", "Dead"}
    /\ pc[c] = "sp_exit" => suspendReason = "stamped" \/ state = "Dead"
    /\ pc[c] = "r_exit" => suspendReason = "none"

CreatedRow == state = "Created" => suspendReason = "none" /\ exit = "none"

Rows == CreatedRow /\ RunningRow /\ SuspendedRow /\ ZombieRow

FieldInv ==
    /\ \A a \in Agents : Midway(a)
    /\ \A c \in Callers : CallerMidway(c)
    /\ Rows

LEMMA FieldInit == ASSUME LockedCalls PROVE Init => FieldInv
  <1> SUFFICES ASSUME Init PROVE FieldInv  OBVIOUS
  <1>1. \A a \in Agents : pc[a] \in {"idle", "start", "unborn", "off"}
    BY AgentKinds, LifecycleConstants DEF Init, Agents
  <1> QED
    BY <1>1, AgentKinds
    DEF FieldInv, Midway, CallerMidway, Rows, CreatedRow, RunningRow, SuspendedRow, ZombieRow,
        FinishPCs, Init

\* A step of a to l: where everybody is afterwards, and that nobody but a has
\* a new exit status in hand.
Step(a, l) ==
    /\ \A b \in Agents : pc'[b] = IF b = a THEN l ELSE pc[b]
    /\ \A b \in Agents \ {a} : val'[b] = val[b]
    /\ \A c \in Callers : op'[c] \in {op[c], "none"}

\* A step that writes none of the fields, to a place that shows none.
LEMMA FieldStill ==
    ASSUME FieldInv, UNCHANGED <<state, suspendReason, exit>>,
           NEW a \in Agents, NEW l, Step(a, l),
           pc[a] \in Shown => pc[a] \in FinishPCs, l \notin Shown
    PROVE  FieldInv'
  <1>1. \A b \in Agents : \/ pc'[b] = pc[b] /\ val'[b] = val[b]
                          \/ (pc[b] \in Shown => pc[b] \in FinishPCs) /\ pc'[b] \notin Shown
    BY DEF Step
  <1>2. \A b \in Agents : Midway(b)'
    BY <1>1 DEF FieldInv, Midway, Shown
  <1>3. \A c \in Callers : CallerMidway(c)'
    BY <1>1, AgentKinds DEF FieldInv, CallerMidway, Shown, Step
  <1>4. (Resuming' <=> Resuming) /\ (Suspending' <=> Suspending)
    BY <1>1, AgentKinds DEF Resuming, Suspending, Shown, FinishPCs
  <1>5. Rows'
    BY <1>4 DEF FieldInv, Rows, CreatedRow, RunningRow, SuspendedRow, ZombieRow
  <1> QED  BY <1>2, <1>3, <1>5 DEF FieldInv

\* The same for the two steps that move two agents, a caller and a goroutine.
LEMMA FieldStillTwo ==
    ASSUME FieldInv, UNCHANGED <<state, suspendReason, exit, val>>,
           \A b \in Agents : pc'[b] = pc[b] \/ (pc[b] \notin Shown /\ pc'[b] \notin Shown),
           \A c \in Callers : op'[c] \in {op[c], "none"}
    PROVE  FieldInv'
  <1>1. \A b \in Agents : Midway(b)'
    BY DEF FieldInv, Midway, Shown
  <1>2. \A c \in Callers : CallerMidway(c)'
    BY AgentKinds DEF FieldInv, CallerMidway, Shown
  <1>3. (Resuming' <=> Resuming) /\ (Suspending' <=> Suspending)
    BY AgentKinds DEF Resuming, Suspending, Shown
  <1>4. Rows'
    BY <1>3 DEF FieldInv, Rows, CreatedRow, RunningRow, SuspendedRow, ZombieRow
  <1> QED  BY <1>1, <1>2, <1>4 DEF FieldInv

LEMMA FieldBegin ==
    ASSUME LockedCalls, LockInv, FieldInv, NEW c \in Callers, Begin(c)
    PROVE  FieldInv'
  <1> USE AgentKinds, PcFacts DEF LockInv, Goto
  <1>1. ~CallSuspend(c) /\ ~CallSIGPAUSE(c)
    BY DEF LockedCalls, Calls, CallSuspend, CallSIGPAUSE, Call
  <1>2. PICK o \in Ops \ {"Suspend"}, l \in {"ss_check", "r_check", "k_check", "w_recv", "wc_recv",
                                             "rp_check"} : Call(c, o, l)
    BY <1>1 DEF Begin, CallSuspendSubtree, CallResumeSubtree, CallKill, CallWait, CallReap, Ops
  <1>3. pc[c] = "idle" /\ pc' = [pc EXCEPT ![c] = l] /\ op' = [op EXCEPT ![c] = o]
        /\ UNCHANGED <<state, suspendReason, exit, val>>
    BY <1>2 DEF Call, procVars
  <1>4. \A b \in Agents : pc'[b] = pc[b] \/ (pc[b] \notin Shown /\ pc'[b] \notin Shown)
    BY <1>3 DEF Shown, FinishPCs
  <1>5. \A b \in Agents : Midway(b)'
    BY <1>3, <1>4 DEF FieldInv, Midway, Shown
  <1>6. \A d \in Callers : CallerMidway(d)'
    BY <1>3, <1>4 DEF FieldInv, CallerMidway, Shown, TypeInv, TypeOK
  <1>7. (Resuming' <=> Resuming) /\ (Suspending' <=> Suspending)
    BY <1>4 DEF Resuming, Suspending, Shown
  <1>8. Rows'
    BY <1>3, <1>7 DEF FieldInv, Rows, CreatedRow, RunningRow, SuspendedRow, ZombieRow
  <1> QED  BY <1>5, <1>6, <1>8 DEF FieldInv

-----------------------------------------------------------------------------
LEMMA FieldReturn ==
    ASSUME LockInv, NEW a \in Callers \union {Shutdown}, Return(a)
    PROVE  Step(a, IF a = Shutdown THEN "over" ELSE "idle")
  <1> USE AgentKinds, PcFacts DEF LockInv, TypeInv, TypeOK
  <1> QED  BY DEF Return, Goto, Step

LEMMA ShowsNot ==
    /\ {"idle", "over", "grace", "k_check", "k_cancel", "ks_trans", "ks_done", "ks_term", "ks_reap",
        "w_recv", "wc_recv", "wc_check", "rp_check", "rp_once", "rp_wg", "rp_dead",
        "ss_check", "ss_recheck", "s_flag", "s_cancel", "s_wait", "sp_trans",
        "r_check", "r_trans", "r_drain", "r_ctx", "r_open",
        "unborn", "start", "loop", "defer", "notify", "send", "close", "gone"} \intersect Shown = {}
    /\ Shown = {"fp_clear", "fp_term", "fp_done", "sp_reason", "sp_exit", "r_flag", "r_reason",
                "r_exit", "ks_exit", "s_exit"}
  BY DEF Shown, FinishPCs

LEMMA FieldSuspend ==
    ASSUME LockInv, FieldInv, NEW c \in Callers, SuspendStep(c)
    PROVE  FieldInv'
  <1> USE AgentKinds, PcFacts, ShowsNot DEF LockInv
  <1>1. ~SuspendPresetExit(c) /\ op[c] # "Suspend"
    BY DEF FieldInv, CallerMidway, SuspendPresetExit
  <1>2. UNCHANGED <<state, suspendReason, exit>> /\ pc[c] \notin Shown
    BY <1>1
    DEF SuspendStep, SubtreeCheck, SubtreeRecheck, SuspendFlag, SuspendCancel, SuspendWait,
        procVars
  <1>3. CASE Return(c)
    BY <1>2, <1>3, FieldReturn, FieldStill
  <1>4. CASE ~Return(c)
    <2>1. PICK l \in {"ss_check", "ss_recheck", "s_flag", "s_cancel", "s_wait", "sp_trans"} :
             Goto(c, l)
      BY <1>1, <1>4
      DEF SuspendStep, SubtreeCheck, SubtreeRecheck, SuspendFlag, SuspendCancel, SuspendWait
    <2>2. UNCHANGED <<op, val>>
      BY <1>1, <1>4
      DEF SuspendStep, SubtreeCheck, SubtreeRecheck, SuspendFlag, SuspendCancel, SuspendWait,
          callVars
    <2>3. Step(c, l)  BY <2>1, <2>2 DEF Step, Goto
    <2> QED  BY <1>2, <2>1, <2>3, FieldStill
  <1> QED  BY <1>3, <1>4

\* The holder of resumeMu is alone in the calls that guard themselves with it.
LEMMA HolderAlone ==
    ASSUME LockInv, NEW c \in Callers, pc[c] \in Guarded
    PROVE  \A d \in Callers : pc[d] \in Guarded => d = c
  BY DEF LockInv, MutexInv

LEMMA GuardedPCs ==
    /\ {"sp_trans", "sp_reason", "sp_exit", "s_exit", "r_check", "r_trans", "r_flag", "r_reason",
        "r_exit", "r_drain", "r_ctx", "r_open", "fp_clear", "fp_term", "fp_done"} \subseteq Guarded
    /\ {"r_flag", "r_reason", "r_exit"} \subseteq Reviving
    /\ {"sp_trans", "r_trans", "r_flag", "r_reason", "r_exit", "r_drain", "r_ctx", "r_open"}
          = Exclusive
    /\ SuspendProcessPCs = {"sp_trans", "sp_reason", "sp_exit"}
    /\ FinishPCs = {"fp_clear", "fp_term", "fp_done"}
  BY DEF Guarded, Reviving, Exclusive, SuspendPCs, ResumePCs, FinishPCs, SuspendProcessPCs

LEMMA FieldSuspendProcess ==
    ASSUME LockInv, FieldInv, NEW c \in Callers, SuspendProcessStep(c)
    PROVE  FieldInv'
  <1> USE AgentKinds, PcFacts, ShowsNot, GuardedPCs DEF LockInv
  <1>1. pc[c] \in Guarded /\ \A d \in Callers : pc[d] \in Guarded => d = c
    <2>1. pc[c] \in {"sp_trans", "sp_reason", "sp_exit"}
      BY DEF SuspendProcessStep, SuspendTransition, SuspendStampReason, SuspendStampExit
    <2> QED  BY <2>1, HolderAlone
  <1>2. CASE SuspendTransition(c) /\ ~CanGo("Suspended")
    <2>1. Return(c) /\ UNCHANGED <<state, suspendReason, exit>> /\ pc[c] = "sp_trans"
      BY <1>2 DEF SuspendTransition
    <2> QED  BY <2>1, FieldReturn, FieldStill
  <1>3. CASE SuspendTransition(c) /\ CanGo("Suspended")
    <2>1. /\ pc[c] = "sp_trans" /\ state = "Running" /\ state' = "Suspended"
          /\ UNCHANGED <<suspendReason, exit, val, op>>
          /\ Goto(c, "sp_reason")
      BY <1>3, TypeInvStates DEF SuspendTransition, CanGo, validTransitions, callVars, States
    <2>2. \A b \in Agents : pc'[b] = IF b = c THEN "sp_reason" ELSE pc[b]
      BY <2>1 DEF Goto
    <2>3. \A b \in Agents : Midway(b)'  BY <2>1, <2>2 DEF FieldInv, Midway
    <2>4. \A d \in Callers : CallerMidway(d)'
      BY <1>1, <2>1, <2>2 DEF FieldInv, CallerMidway
    <2>5. Suspending'  BY <2>2 DEF Suspending
    <2>6. Rows'
      BY <2>1, <2>5 DEF Rows, CreatedRow, RunningRow, SuspendedRow, ZombieRow
    <2> QED  BY <2>3, <2>4, <2>6 DEF FieldInv
  <1>4. CASE SuspendStampReason(c)
    <2>1. /\ pc[c] = "sp_reason" /\ state \in {"Suspended", "Dead"} /\ suspendReason' = "stamped"
          /\ UNCHANGED <<state, exit, val, op>>
          /\ Goto(c, "sp_exit")
      BY <1>4 DEF SuspendStampReason, callVars, FieldInv, CallerMidway
    <2>2. \A b \in Agents : pc'[b] = IF b = c THEN "sp_exit" ELSE pc[b]
      BY <2>1 DEF Goto
    <2>3. \A b \in Agents : Midway(b)'  BY <2>1, <2>2 DEF FieldInv, Midway
    <2>4. \A d \in Callers : CallerMidway(d)'
      BY <1>1, <2>1, <2>2 DEF FieldInv, CallerMidway
    <2>5. Suspending'  BY <2>2 DEF Suspending
    <2>6. Rows'
      BY <2>1, <2>5 DEF Rows, CreatedRow, RunningRow, SuspendedRow, ZombieRow
    <2> QED  BY <2>3, <2>4, <2>6 DEF FieldInv
  <1>5. CASE SuspendStampExit(c)
    <2>1. PICK l \in {"idle", "ss_check"} : Goto(c, l)
      BY <1>5 DEF SuspendStampExit, Return
    <2>2. /\ pc[c] = "sp_exit" /\ state \in {"Suspended", "Dead"} /\ exit' = "suspended"
          /\ suspendReason = "stamped" \/ state = "Dead"
          /\ UNCHANGED <<state, suspendReason>>
          /\ \A d \in Callers : op'[d] \in {op[d], "none"}
          /\ \A b \in Agents \ {c} : val'[b] = val[b]
      BY <1>5
      DEF SuspendStampExit, Return, FieldInv, CallerMidway, TypeInv, TypeOK
    <2>3. \A b \in Agents : pc'[b] = IF b = c THEN l ELSE pc[b]
      BY <2>1 DEF Goto
    <2>4. \A b \in Agents : Midway(b)'  BY <2>1, <2>2, <2>3 DEF FieldInv, Midway
    <2>5. \A d \in Callers : CallerMidway(d)'
      BY <1>1, <2>1, <2>2, <2>3 DEF FieldInv, CallerMidway
    <2>6. Rows'
      BY <2>2 DEF Rows, CreatedRow, RunningRow, SuspendedRow, ZombieRow
    <2> QED  BY <2>4, <2>5, <2>6 DEF FieldInv
  <1> QED
    BY <1>2, <1>3, <1>4, <1>5 DEF SuspendProcessStep

\* The transition of a resume, and the three sections that clear the fields.
LEMMA FieldResumeClears ==
    ASSUME LockInv, FieldInv, NEW c \in Callers,
           \/ ResumeTransition(c) /\ CanGo("Running")
           \/ ResumeClearFlag(c) \/ ResumeClearReason(c) \/ ResumeClearExit(c)
    PROVE  FieldInv'
  <1> USE AgentKinds, PcFacts, ShowsNot, GuardedPCs DEF LockInv
  <1>1. pc[c] \in Guarded /\ \A d \in Callers : pc[d] \in Guarded => d = c
    <2>1. pc[c] \in {"r_trans", "r_flag", "r_reason", "r_exit"}
      BY DEF ResumeTransition, ResumeClearFlag, ResumeClearReason, ResumeClearExit
    <2> QED  BY <2>1, HolderAlone
  <1>2. PICK l \in {"r_flag", "r_reason", "r_exit", "r_drain"} : Goto(c, l)
    BY DEF ResumeTransition, ResumeClearFlag, ResumeClearReason, ResumeClearExit
  <1>3. \A b \in Agents : pc'[b] = IF b = c THEN l ELSE pc[b]
    BY <1>2 DEF Goto
  <1>4. state' = "Running"
    BY DEF QuietInv, ResumeTransition, ResumeClearFlag, ResumeClearReason, ResumeClearExit
  <1>5. UNCHANGED <<val, op>>
    BY DEF ResumeTransition, ResumeClearFlag, ResumeClearReason, ResumeClearExit, callVars
  <1>6. l = "r_exit" => suspendReason' = "none"
    BY <1>2 DEF ResumeTransition, ResumeClearFlag, ResumeClearReason, ResumeClearExit, Goto
  <1>7. l = "r_drain" => suspendReason' = "none" /\ exit' = "none"
    BY <1>2
    DEF ResumeTransition, ResumeClearFlag, ResumeClearReason, ResumeClearExit, Goto, FieldInv,
        CallerMidway
  <1>8. state # "Dead"
    BY TypeInvStates
    DEF QuietInv, ResumeTransition, ResumeClearFlag, ResumeClearReason, ResumeClearExit, CanGo,
        validTransitions, States
  <1>9. \A b \in Agents : Midway(b)'
    BY <1>2, <1>3, <1>5, <1>8 DEF FieldInv, Midway
  <1>10. \A d \in Callers : CallerMidway(d)'
    BY <1>1, <1>2, <1>3, <1>5, <1>6, <1>4 DEF FieldInv, CallerMidway
  <1>11. l # "r_drain" => Resuming'
    BY <1>2, <1>3 DEF Resuming
  <1>12. Rows'
    BY <1>4, <1>7, <1>11 DEF Rows, CreatedRow, RunningRow, SuspendedRow, ZombieRow
  <1> QED  BY <1>9, <1>10, <1>12 DEF FieldInv

LEMMA FieldResume ==
    ASSUME LockInv, FieldInv, NEW c \in Callers, ResumeStep(c)
    PROVE  FieldInv'
  <1> USE AgentKinds, PcFacts, ShowsNot, GuardedPCs DEF LockInv
  <1>1. CASE \/ ResumeTransition(c) /\ CanGo("Running")
             \/ ResumeClearFlag(c) \/ ResumeClearReason(c) \/ ResumeClearExit(c)
    BY <1>1, FieldResumeClears
  <1>2. CASE ResumeCheck(c) \/ (ResumeTransition(c) /\ ~CanGo("Running"))
    <2>1. UNCHANGED <<state, suspendReason, exit>> /\ pc[c] \in {"r_check", "r_trans"}
      BY <1>2 DEF ResumeCheck, ResumeTransition, procVars
    <2>2. CASE Return(c)
      BY <2>1, <2>2, FieldReturn, FieldStill
    <2>3. CASE ~Return(c)
      <3>1. Goto(c, "r_trans") /\ UNCHANGED <<op, val>>
        BY <1>2, <2>3 DEF ResumeCheck, ResumeTransition, callVars
      <3>2. Step(c, "r_trans")  BY <3>1 DEF Step, Goto
      <3> QED  BY <2>1, <3>2, FieldStill
    <2> QED  BY <2>2, <2>3
  <1>3. CASE ResumeDrain(c) \/ ResumeNewContext(c)
    <2>1. PICK l \in {"r_ctx", "r_open"} : Goto(c, l)
      BY <1>3 DEF ResumeDrain, ResumeNewContext
    <2>2. /\ UNCHANGED <<state, suspendReason, exit, op, val>>
          /\ pc[c] \in {"r_drain", "r_ctx"}
      BY <1>3 DEF ResumeDrain, ResumeNewContext, procVars, callVars
    <2>3. Step(c, l)  BY <2>1, <2>2 DEF Step, Goto
    <2> QED  BY <2>1, <2>2, <2>3, FieldStill
  <1>4. CASE ResumeOpen(c)
    <2>1. UNCHANGED <<state, suspendReason, exit>> /\ pc[c] = "r_open" /\ state = "Running"
      BY <1>4 DEF ResumeOpen, procVars, QuietInv, Reviving
    <2>2. ASSUME NEW g \in Lives, pc[g] = "unborn", UNCHANGED val,
                 pc' = [pc EXCEPT ![g] = "loop", ![c] = "idle"],
                 op' = [op EXCEPT ![c] = "none"]
          PROVE  FieldInv'
      <3>1. \A b \in Agents : pc'[b] = pc[b] \/ (pc[b] \notin Shown /\ pc'[b] \notin Shown)
        BY <2>1, <2>2
      <3>2. \A d \in Callers : op'[d] \in {op[d], "none"}
        BY <2>2 DEF TypeInv, TypeOK
      <3> QED  BY <2>1, <2>2, <3>1, <3>2, FieldStillTwo
    <2>3. CASE val' = [val EXCEPT ![c] = "failed"] /\ Goto(c, "fp_clear") /\ UNCHANGED op
      <3>1. \A b \in Agents : pc'[b] = IF b = c THEN "fp_clear" ELSE pc[b]
        BY <2>3 DEF Goto
      <3>2. \A b \in Agents : val'[b] = IF b = c THEN "failed" ELSE val[b]
        BY <2>3 DEF TypeInv, TypeOK
      <3>3. \A b \in Agents : Midway(b)'
        BY <2>1, <3>1, <3>2 DEF FieldInv, Midway, Outcomes
      <3>4. \A d \in Callers : CallerMidway(d)'
        BY <2>1, <2>3, <3>1 DEF FieldInv, CallerMidway
      <3>5. (Resuming' <=> Resuming) /\ (Suspending' <=> Suspending)
        BY <2>1, <3>1 DEF Resuming, Suspending
      <3>6. Rows'
        BY <2>1, <3>5 DEF FieldInv, Rows, CreatedRow, RunningRow, SuspendedRow, ZombieRow
      <3> QED  BY <3>3, <3>4, <3>6 DEF FieldInv
    <2> QED  BY <1>4, <2>2, <2>3 DEF ResumeOpen
  <1> QED  BY <1>1, <1>2, <1>3, <1>4 DEF ResumeStep

\* finishProcess, whoever runs it: never on a Suspended process, and never
\* beside a resume that is still clearing the fields.
LEMMA FieldFinish ==
    ASSUME LockInv, FieldInv, NEW a \in Callers \union Lives, FinishStep(a)
    PROVE  FieldInv'
  <1> USE AgentKinds, PcFacts, ShowsNot, GuardedPCs DEF LockInv
  <1>1. pc[a] \in FinishPCs /\ val[a] \in Outcomes
    BY DEF FinishStep, FinishClearReason, FinishTerminate, FinishSend, FieldInv, Midway
  <1>2. state # "Suspended"
    <2>1. CASE a \in Lives
      <3>1. ~Quiet  BY <1>1, <2>1 DEF Quiet
      <3> QED  BY <3>1 DEF QuietInv
    <2>2. CASE a \in Callers
      BY <1>1, <2>2 DEF FieldInv, CallerMidway
    <2> QED  BY <2>1, <2>2
  <1>3. ~Resuming
    <2>1. CASE a \in Lives
      <3>1. ~Quiet  BY <1>1, <2>1 DEF Quiet
      <3> QED  BY <3>1 DEF QuietInv, Resuming
    <2>2. CASE a \in Callers
      BY <1>1, <2>2, HolderAlone DEF Resuming
    <2> QED  BY <2>1, <2>2
  <1>4. CASE FinishClearReason(a)
    <2>1. /\ UNCHANGED <<state, exit, op, val>> /\ suspendReason' \in {suspendReason, "none"}
          /\ Goto(a, "fp_term")
      BY <1>4 DEF FinishClearReason, callVars
    <2>2. \A b \in Agents : pc'[b] = IF b = a THEN "fp_term" ELSE pc[b]
      BY <2>1 DEF Goto
    <2>3. \A b \in Agents : Midway(b)'  BY <1>1, <2>1, <2>2 DEF FieldInv, Midway
    <2>4. \A d \in Callers : CallerMidway(d)'
      BY <1>2, <2>1, <2>2 DEF FieldInv, CallerMidway
    <2>5. Rows'
      BY <1>2, <1>3, <2>1 DEF FieldInv, Rows, CreatedRow, RunningRow, SuspendedRow, ZombieRow
    <2> QED  BY <2>3, <2>4, <2>5 DEF FieldInv
  <1>5. CASE FinishTerminate(a)
    <2>1. /\ UNCHANGED <<suspendReason, op, val>>
          /\ \/ state = "Running" /\ state' = "Zombie" /\ exit' = val[a]
             \/ UNCHANGED <<state, exit>>
          /\ Goto(a, "fp_done")
      BY <1>5, <1>2, TypeInvStates
      DEF FinishTerminate, callVars, CanGo, validTransitions, States
    <2>2. \A b \in Agents : pc'[b] = IF b = a THEN "fp_done" ELSE pc[b]
      BY <2>1 DEF Goto
    <2>3. \A b \in Agents : Midway(b)'  BY <1>1, <2>1, <2>2 DEF FieldInv, Midway
    <2>4. \A d \in Callers : CallerMidway(d)'
      BY <1>2, <2>1, <2>2 DEF FieldInv, CallerMidway
    <2>5. Rows'
      BY <1>1, <1>2, <1>3, <2>1
      DEF FieldInv, Rows, CreatedRow, RunningRow, SuspendedRow, ZombieRow
    <2> QED  BY <2>3, <2>4, <2>5 DEF FieldInv
  <1>6. CASE FinishSend(a)
    <2>1. UNCHANGED <<state, suspendReason, exit>>
      BY <1>6 DEF FinishSend, procVars
    <2>2. CASE a \in Callers
      <3>1. Return(a)  BY <1>6, <2>2 DEF FinishSend
      <3> QED  BY <1>1, <2>1, <2>2, <3>1, FieldReturn, FieldStill
    <2>3. CASE a \in Lives
      <3>1. PICK l \in {"close", "defer"} : Goto(a, l)
        BY <1>6, <2>3 DEF FinishSend
      <3>2. UNCHANGED <<op, val>>  BY <1>6, <2>3 DEF FinishSend, callVars
      <3>3. Step(a, l)  BY <3>1, <3>2 DEF Step, Goto
      <3> QED  BY <1>1, <2>1, <3>1, <3>3, FieldStill
    <2> QED  BY <2>2, <2>3
  <1> QED  BY <1>4, <1>5, <1>6 DEF FinishStep


\* A process that is buried: the matrix asks nothing of it.
LEMMA FieldBury ==
    ASSUME LockInv, FieldInv, NEW a \in Agents, NEW l, Step(a, l), l \notin Shown \ {"ks_exit"},
           state' = "Dead", UNCHANGED suspendReason
    PROVE  FieldInv'
  <1> USE AgentKinds, ShowsNot, GuardedPCs
  <1>1. \A b \in Agents : Midway(b)'
    BY DEF FieldInv, Midway, Step
  <1>2. \A c \in Callers : CallerMidway(c)'
    BY DEF FieldInv, CallerMidway, Step
  <1>3. Rows'
    BY DEF Rows, CreatedRow, RunningRow, SuspendedRow, ZombieRow
  <1> QED  BY <1>1, <1>2, <1>3 DEF FieldInv

LEMMA FieldKill ==
    ASSUME LockInv, FieldInv, NEW a \in Callers \union {Shutdown}, KillStep(a)
    PROVE  FieldInv'
  <1> USE AgentKinds, PcFacts, ShowsNot DEF LockInv
  <1>1. CASE KillTransition(a) /\ CanGo("Dead")
    <2>1. Goto(a, "ks_exit") /\ state' = "Dead" /\ UNCHANGED <<op, val, suspendReason>>
      BY <1>1 DEF KillTransition, callVars
    <2>2. Step(a, "ks_exit")  BY <2>1 DEF Step, Goto
    <2> QED  BY <2>1, <2>2, FieldBury
  <1>2. CASE KillStampExit(a)
    <2>1. Goto(a, "ks_done") /\ UNCHANGED <<state, op, val, suspendReason>>
      BY <1>2 DEF KillStampExit, callVars
    <2>2. Step(a, "ks_done")  BY <2>1 DEF Step, Goto
    <2>3. state = "Dead"  BY <1>2 DEF KillStampExit, FieldInv, Midway
    <2> QED  BY <2>1, <2>2, <2>3, FieldBury
  <1>3. CASE \/ KillCheck(a) \/ SignalKill(a) \/ (KillTransition(a) /\ ~CanGo("Dead"))
             \/ KillSend(a) \/ KillCloseTerminated(a) \/ KillReap(a)
    <2>1. /\ UNCHANGED <<state, suspendReason, exit>>
          /\ pc[a] \in {"k_check", "k_cancel", "ks_trans", "ks_done", "ks_term", "ks_reap"}
      BY <1>3
      DEF KillCheck, SignalKill, KillTransition, KillSend, KillCloseTerminated, KillReap, procVars
    <2>2. CASE Return(a)
      BY <2>1, <2>2, FieldReturn, FieldStill
    <2>3. CASE ~Return(a)
      <3>1. PICK l \in {"ks_trans", "k_cancel", "ks_term", "ks_reap"} : Goto(a, l)
        BY <1>3, <2>3
        DEF KillCheck, SignalKill, KillTransition, KillSend, KillCloseTerminated, KillReap
      <3>2. UNCHANGED <<op, val>>
        BY <1>3, <2>3
        DEF KillCheck, SignalKill, KillTransition, KillSend, KillCloseTerminated, KillReap,
            callVars
      <3>3. Step(a, l)  BY <3>1, <3>2 DEF Step, Goto
      <3> QED  BY <2>1, <3>1, <3>3, FieldStill
    <2> QED  BY <2>2, <2>3
  <1> QED  BY <1>1, <1>2, <1>3 DEF KillStep

LEMMA FieldWait ==
    ASSUME LockInv, FieldInv, NEW c \in Callers,
           WaitStep(c) \/ WaitChildAbandon(c) \/ SignalTerm(c)
    PROVE  FieldInv'
  <1> USE AgentKinds, PcFacts, ShowsNot DEF LockInv
  <1>1. CASE ReapDead(c)
    <2>1. Step(c, "idle")  BY <1>1, FieldReturn DEF ReapDead
    <2>2. CASE state' = "Dead"
      BY <1>1, <2>1, <2>2, FieldBury DEF ReapDead
    <2>3. CASE state' = state
      BY <1>1, <2>1, <2>3, FieldStill DEF ReapDead
    <2> QED  BY <1>1, <2>2, <2>3 DEF ReapDead
  <1>2. CASE WaitChildAbandon(c)
    BY <1>2, FieldReturn, FieldStill DEF WaitChildAbandon, procVars
  <1>3. CASE SignalTerm(c)
    <2>1. /\ UNCHANGED <<state, suspendReason, exit, val>>
          /\ \A d \in Callers : op'[d] \in {op[d], "none"}
      BY <1>3 DEF SignalTerm, procVars, TypeInv, TypeOK
    <2>2. \A b \in Agents : pc'[b] = pc[b] \/ (pc[b] \notin Shown /\ pc'[b] \notin Shown)
      BY <1>3 DEF SignalTerm, Goto
    <2> QED  BY <2>1, <2>2, FieldStillTwo
  <1>4. CASE \/ WaitReceive(c) \/ WaitChildReceive(c) \/ WaitChildCheck(c) \/ ReapCheck(c)
             \/ ReapEnter(c) \/ ReapWait(c)
    <2>1. /\ UNCHANGED <<state, suspendReason, exit>>
          /\ pc[c] \in {"w_recv", "wc_recv", "wc_check", "rp_check", "rp_once", "rp_wg"}
      BY <1>4
      DEF WaitReceive, WaitChildReceive, WaitChildCheck, ReapCheck, ReapEnter, ReapWait, procVars
    <2>2. CASE Return(c)
      BY <2>1, <2>2, FieldReturn, FieldStill
    <2>3. CASE ~Return(c)
      <3>1. PICK l \in {"rp_once", "wc_check", "wc_recv", "rp_wg", "rp_dead"} : Goto(c, l)
        BY <1>4, <2>3
        DEF WaitReceive, WaitChildReceive, WaitChildCheck, ReapCheck, ReapEnter, ReapWait
      <3>2. UNCHANGED op /\ \A b \in Agents \ {c} : val'[b] = val[b]
        BY <1>4, <2>3
        DEF WaitReceive, WaitChildReceive, WaitChildCheck, ReapCheck, ReapEnter, ReapWait,
            callVars, TypeInv, TypeOK
      <3>3. Step(c, l)  BY <3>1, <3>2 DEF Step, Goto
      <3> QED  BY <2>1, <3>1, <3>3, FieldStill
    <2> QED  BY <2>2, <2>3
  <1> QED  BY <1>1, <1>2, <1>3, <1>4 DEF WaitStep

LEMMA FieldLife ==
    ASSUME LockedCalls, LockInv, FieldInv, NEW g \in Lives, LifeStep(g)
    PROVE  FieldInv'
  <1> USE AgentKinds, PcFacts, ShowsNot DEF LockInv
  <1>1. ~SuspendProcessStep(g) /\ ~selfSuspend(g)
    BY DEF LockedCalls, QuietInv, SuspendProcessStep, SuspendTransition, SuspendStampReason,
       SuspendStampExit, SuspendProcessPCs, selfSuspend
  <1>2. CASE FinishStep(g)  BY <1>2, FieldFinish
  <1>3. CASE LifeStart(g)
    <2>1. /\ UNCHANGED <<suspendReason, exit, op, val>> /\ pc[g] = "start"
          /\ pc' = [pc EXCEPT ![g] = "loop"]
      BY <1>3 DEF LifeStart, Goto, callVars
    <2>2. Step(g, "loop")  BY <2>1 DEF Step
    <2>3. CASE UNCHANGED state
      BY <2>1, <2>2, <2>3, FieldStill
    <2>4. CASE state = "Created" /\ state' = "Running"
      <3>a. \A b \in Agents : pc'[b] = IF b = g THEN "loop" ELSE pc[b]
        BY <2>1 DEF TypeInv, TypeOK
      <3>b. "loop" \notin FinishPCs /\ "loop" # "ks_exit"
        BY DEF FinishPCs
      <3>1. ASSUME NEW b \in Agents  PROVE Midway(b)'
        BY <2>1, <2>4, <3>a, <3>b, <3>1 DEF FieldInv, Midway
      <3>2. \A c \in Callers : CallerMidway(c)'
        BY <2>1, <2>4 DEF FieldInv, CallerMidway
      <3>3. Rows'
        BY <2>1, <2>4 DEF FieldInv, Rows, CreatedRow, RunningRow, SuspendedRow, ZombieRow
      <3> QED  BY <3>1, <3>2, <3>3 DEF FieldInv
    <2>5. state = "Created" \/ UNCHANGED state
      <3>1. state # "Suspended"  BY <2>1 DEF QuietInv, Quiet
      <3> QED  BY <1>3, <3>1, TypeInvStates DEF LifeStart, CanGo, validTransitions, States
    <2> QED  BY <1>3, <2>3, <2>4, <2>5 DEF LifeStart
  <1>4. CASE Complete(g) \/ Fail(g) \/ ObserveCancel(g) \/ Defer(g)
    <2>1. UNCHANGED <<state, suspendReason, exit, op>> /\ pc[g] \in {"loop", "defer"}
      BY <1>4 DEF Complete, Fail, ObserveCancel, Defer, procVars, callVars
    <2>2. CASE \E v \in Outcomes : FinishWith(g, v)
      <3>1. PICK v \in Outcomes : FinishWith(g, v)  BY <2>2
      <3>2. /\ \A b \in Agents : pc'[b] = IF b = g THEN "fp_clear" ELSE pc[b]
            /\ \A b \in Agents : val'[b] = IF b = g THEN v ELSE val[b]
        BY <3>1 DEF FinishWith, Goto, TypeInv, TypeOK
      <3>3. \A b \in Agents : Midway(b)'
        BY <2>1, <3>2 DEF FieldInv, Midway
      <3>4. \A c \in Callers : CallerMidway(c)'
        BY <2>1, <3>2 DEF FieldInv, CallerMidway
      <3>5. (Resuming' <=> Resuming) /\ (Suspending' <=> Suspending)
        BY <2>1, <3>2 DEF Resuming, Suspending
      <3>6. Rows'
        BY <2>1, <3>5 DEF FieldInv, Rows, CreatedRow, RunningRow, SuspendedRow, ZombieRow
      <3> QED  BY <3>3, <3>4, <3>6 DEF FieldInv
    <2>3. CASE \E l \in {"defer", "notify", "close"} : Goto(g, l) /\ UNCHANGED val
      <3>1. PICK l \in {"defer", "notify", "close"} : Goto(g, l) /\ UNCHANGED val  BY <2>3
      <3>2. Step(g, l)  BY <2>1, <3>1 DEF Step, Goto
      <3> QED  BY <2>1, <3>2, FieldStill
    <2> QED  BY <1>4, <2>2, <2>3 DEF Complete, Fail, ObserveCancel, Defer, Outcomes
  <1>5. CASE NotifyRead(g) \/ NotifySend(g) \/ LifeClose(g)
    <2>1. UNCHANGED <<state, suspendReason, exit, op>> /\ pc[g] \in {"notify", "send", "close"}
      BY <1>5 DEF NotifyRead, NotifySend, LifeClose, procVars, callVars
    <2>2. PICK l \in {"send", "close", "gone"} : Goto(g, l)
      BY <1>5 DEF NotifyRead, NotifySend, LifeClose
    <2>3. \A b \in Agents \ {g} : val'[b] = val[b]
      BY <1>5 DEF NotifyRead, NotifySend, LifeClose, TypeInv, TypeOK
    <2>4. Step(g, l)  BY <2>1, <2>2, <2>3 DEF Step, Goto
    <2> QED  BY <2>1, <2>4, FieldStill
  <1> QED  BY <1>1, <1>2, <1>3, <1>4, <1>5 DEF LifeStep, LifeRuns

LEMMA FieldStep ==
    ASSUME LockedCalls
    PROVE  LockInv /\ FieldInv /\ [Next]_vars => FieldInv'
  <1> SUFFICES ASSUME LockInv, FieldInv, [Next]_vars PROVE FieldInv'  OBVIOUS
  <1>1. CASE UNCHANGED vars
    BY <1>1
    DEF FieldInv, Midway, CallerMidway, Rows, CreatedRow, RunningRow, SuspendedRow, ZombieRow,
        Resuming, Suspending, vars, procVars, callVars
  <1>2. ASSUME NEW c \in Callers, Begin(c) \/ CallerStep(c) \/ WaitChildAbandon(c)
        PROVE  FieldInv'
    BY <1>2, FieldBegin, FieldSuspend, FieldSuspendProcess, FieldResume, FieldFinish, FieldKill,
       FieldWait
    DEF CallerStep
  <1>3. ASSUME ShutdownStep PROVE FieldInv'
    <2>1. CASE KillStep(Shutdown)  BY <2>1, FieldKill
    <2>2. CASE GraceCompleted \/ GraceTimeout
      <3> USE AgentKinds, PcFacts, ShowsNot DEF LockInv
      <3>1. /\ UNCHANGED <<state, suspendReason, exit, op, val>> /\ pc[Shutdown] = "grace"
            /\ \E l \in {"over", "k_check"} : Goto(Shutdown, l)
        BY <2>2 DEF GraceCompleted, GraceTimeout, procVars, callVars
      <3>2. PICK l \in {"over", "k_check"} : Goto(Shutdown, l)  BY <3>1
      <3>3. Step(Shutdown, l)  BY <3>1, <3>2 DEF Step, Goto
      <3> QED  BY <3>1, <3>3, FieldStill
    <2> QED  BY <1>3, <2>1, <2>2 DEF ShutdownStep
  <1> QED  BY <1>1, <1>2, <1>3, FieldLife DEF Next

(* Under the same locking, the state and the fields that suspend, resume,   *)
(* finish and kill write in separate lock sections agree as the matrix of   *)
(* invariant.go demands, for any number of callers and incarnations.        *)
THEOREM LockedKeepsFields == ASSUME LockedCalls PROVE Spec => []FieldMatrix
  <1>1. LockInv /\ [Next]_vars => LockInv'  BY LockStep
  <1>2. Init => FieldInv  BY FieldInit
  <1>3. LockInv /\ FieldInv /\ [Next]_vars => FieldInv'  BY FieldStep
  <1>4. FieldInv => FieldMatrix  BY DEF FieldInv, Rows, FieldMatrix
  <1> QED  BY <1>1, <1>2, <1>3, <1>4, LockInit, PTL DEF Spec

\* How a step that does more than stutter looks through the mapping.
Changes ==
    \/ CanGo(state') /\ LiveReasoners' = LiveReasoners /\ (state' = "Suspended" => Quiet)
    \/ state = "Running" /\ UNCHANGED state /\ Quiet /\ \E g \in Lives : LiveReasoners' = {g}
    \/ state # "Created" /\ UNCHANGED state
         /\ \E g \in Lives : LiveReasoners' = LiveReasoners \ {g}

StepsOnContract == UNCHANGED <<state, LiveReasoners>> \/ Changes

LEMMA ChangesMeans == TypeInv /\ Changes => Contract!CNext
  <1> SUFFICES ASSUME TypeInv, Changes PROVE Contract!CNext  OBVIOUS
  <1>1. state \in States  BY TypeInvStates
  <1> USE DEF Contract!CNext, Contract!Start, Contract!Pause, Contract!Unpause, Contract!End,
          Contract!Bury, Contract!Join, Contract!Leave, PhaseOf
  <1>2. CASE CanGo(state') /\ LiveReasoners' = LiveReasoners /\ (state' = "Suspended" => Quiet)
    BY <1>1, <1>2, LiveReasonersMeans DEF CanGo, validTransitions, States
  <1>3. CASE state = "Running" /\ UNCHANGED state /\ Quiet
               /\ \E g \in Lives : LiveReasoners' = {g}
    BY <1>3, LiveReasonersMeans
  <1>4. CASE state # "Created" /\ UNCHANGED state
               /\ \E g \in Lives : LiveReasoners' = LiveReasoners \ {g}
    BY <1>1, <1>4 DEF States
  <1> QED  BY <1>2, <1>3, <1>4 DEF Changes

\* Only a resume that opens the device adds a goroutine.
LEMMA CallersKeepReasoners ==
    ASSUME TypeInv, NEW c \in Callers,
           Begin(c) \/ CallerStep(c) \/ WaitChildAbandon(c), ~ResumeOpen(c)
    PROVE  LiveReasoners' = LiveReasoners
  <1> USE AgentKinds, PcFacts DEF Goto, Return
  <1>1. CASE Begin(c)
    <2>1. \E l : Goto(c, l)
      BY <1>1
      DEF Begin, CallSuspend, CallSuspendSubtree, CallSIGPAUSE, CallResumeSubtree, CallKill,
          CallWait, CallReap, Call
    <2> QED  BY <2>1 DEF LiveReasoners
  <1>2. CASE SignalTerm(c)
    BY <1>2 DEF SignalTerm, LiveReasoners
  <1>3. CASE ~Begin(c) /\ ~SignalTerm(c)
    <2>1. \E l : Goto(c, l)
      <3>1. CASE SuspendStep(c) \/ SuspendProcessStep(c)
        BY <3>1
        DEF SuspendStep, SubtreeCheck, SubtreeRecheck, SuspendFlag, SuspendPresetExit,
            SuspendCancel, SuspendWait, SuspendProcessStep, SuspendTransition,
            SuspendStampReason, SuspendStampExit
      <3>2. CASE ResumeStep(c) \/ FinishStep(c)
        BY <3>2
        DEF ResumeStep, ResumeCheck, ResumeTransition, ResumeClearFlag, ResumeClearReason,
            ResumeClearExit, ResumeDrain, ResumeNewContext, FinishStep, FinishClearReason,
            FinishTerminate, FinishSend
      <3>3. CASE KillStep(c)
        BY <3>3
        DEF KillStep, KillCheck, SignalKill, KillTransition, KillStampExit, KillSend,
            KillCloseTerminated, KillReap
      <3>4. CASE WaitStep(c) \/ WaitChildAbandon(c)
        BY <3>4
        DEF WaitStep, WaitReceive, WaitChildReceive, WaitChildCheck, WaitChildAbandon,
            ReapCheck, ReapEnter, ReapWait, ReapDead
      <3> QED  BY <1>3, <3>1, <3>2, <3>3, <3>4 DEF CallerStep
    <2> QED  BY <2>1 DEF LiveReasoners
  <1> QED  BY <1>1, <1>2, <1>3

LEMMA ShutdownKeepsReasoners ==
    ASSUME TypeInv, ShutdownStep
    PROVE  LiveReasoners' = LiveReasoners
  <1>1. \E l : Goto(Shutdown, l)
    BY DEF ShutdownStep, GraceCompleted, GraceTimeout, KillStep, KillCheck, SignalKill,
       KillTransition, KillStampExit, KillSend, KillCloseTerminated, KillReap, Return
  <1> QED  BY <1>1, AgentKinds, PcFacts DEF Goto, LiveReasoners

LEMMA LivesStepOnContract ==
    ASSUME LockInv, NEW g \in Lives, LifeStep(g), LockInv'
    PROVE  StepsOnContract
  <1> USE AgentKinds, PcFacts DEF LockInv
  <1>1. CASE LifeClose(g)
    <2>1. pc[g] = "close" /\ Goto(g, "gone") /\ UNCHANGED state
      BY <1>1 DEF LifeClose, procVars
    <2>2. state # "Created"  BY <2>1 DEF AloneInv
    <2>3. LiveReasoners' = LiveReasoners \ {g}  BY <2>1 DEF LiveReasoners, Goto
    <2> QED  BY <2>1, <2>2, <2>3 DEF StepsOnContract, Changes
  <1>2. CASE ~LifeClose(g)
    <2>1. \E l : Goto(g, l) /\ l \notin {"unborn", "gone"}
      BY <1>2
      DEF LifeStep, LifeRuns, LifeStart, ObserveCancel, Defer, NotifyRead, NotifySend,
          FinishStep, FinishClearReason, FinishTerminate, FinishSend, SuspendProcessStep,
          SuspendTransition, SuspendStampReason, SuspendStampExit, Complete, Fail, FinishWith,
          selfSuspend
    <2>2. pc[g] \notin {"unborn", "gone"}
      BY DEF LifeStep, LifeRuns, LifeStart, ObserveCancel, Defer, NotifyRead, NotifySend,
         LifeClose, FinishStep, FinishClearReason, FinishTerminate, FinishSend,
         SuspendProcessStep, SuspendTransition, SuspendStampReason, SuspendStampExit, Complete,
         Fail, FinishWith, selfSuspend
    <2>3. LiveReasoners' = LiveReasoners  BY <2>1, <2>2 DEF LiveReasoners, Goto
    <2>4. state' # "Suspended"
      BY <2>1, <2>2 DEF QuietInv, Quiet, Goto
    <2> QED  BY <2>3, <2>4, LifeMoves DEF Moves, StepsOnContract, Changes
  <1> QED  BY <1>1, <1>2

LEMMA CallersStepOnContract ==
    ASSUME LockInv, NEW c \in Callers, LockInv',
           Begin(c) \/ CallerStep(c) \/ WaitChildAbandon(c)
    PROVE  StepsOnContract
  <1>1. CASE ResumeOpen(c)
    <2>1. Quiet /\ state = "Running" /\ UNCHANGED state
      BY <1>1 DEF ResumeOpen, LockInv, QuietInv, Reviving, Exclusive, procVars
    <2>2. CASE Goto(c, "fp_clear")
      <3>1. LiveReasoners' = LiveReasoners
        BY <2>2, AgentKinds, PcFacts DEF LockInv, Goto, LiveReasoners
      <3> QED  BY <2>1, <3>1 DEF StepsOnContract
    <2>3. ASSUME NEW g \in Lives, pc' = [pc EXCEPT ![g] = "loop", ![c] = "idle"]
          PROVE  StepsOnContract
      <3>1. \A h \in Lives : pc'[h] = IF h = g THEN "loop" ELSE pc[h]
        BY <2>3, AgentKinds, PcFacts DEF LockInv
      <3>2. LiveReasoners' = {g}  BY <2>1, <3>1 DEF LiveReasoners, Quiet
      <3> QED  BY <2>1, <3>2 DEF StepsOnContract, Changes
    <2> QED  BY <1>1, <2>2, <2>3 DEF ResumeOpen
  <1>2. CASE ~ResumeOpen(c)
    <2>1. LiveReasoners' = LiveReasoners  BY <1>2, CallersKeepReasoners DEF LockInv
    <2>2. Quiet' => Quiet  BY <2>1, LiveReasonersMeans
    <2> QED
      BY <2>1, <2>2, CallerMoves DEF LockInv, QuietInv, Moves, StepsOnContract, Changes
  <1> QED  BY <1>1, <1>2

(* Under the same locking, the lifecycle with all its flags, channels,      *)
(* reference counts and late steps implements the contract of               *)
(* ProcessContract: suspended means no reasoner, a resumed process gets one *)
(* new reasoner, and what is over stays over.                               *)
THEOREM LockedImplementsContract == ASSUME LockedCalls PROVE Spec => ImplementsContract
  <1>1. Init => Contract!CInit
    <2> SUFFICES ASSUME Init PROVE Contract!CInit  OBVIOUS
    <2>1. \A g \in Lives : pc[g] = IF g = FirstLife THEN "start" ELSE "unborn"
      BY AgentKinds, LifecycleConstants DEF Init
    <2>2. LiveReasoners = {FirstLife}
      BY <2>1, LifecycleConstants DEF LiveReasoners
    <2> QED  BY <2>2, LifecycleConstants DEF Init, Contract!CInit, PhaseOf
  <1>2. LockInv /\ [Next]_vars => LockInv'  BY LockStep
  <1>3. LockInv /\ LockInv' /\ [Next]_vars => [Contract!CNext]_Contract!cvars
    <2> SUFFICES ASSUME LockInv, LockInv', [Next]_vars
                 PROVE  [Contract!CNext]_Contract!cvars
      OBVIOUS
    <2>1. CASE UNCHANGED vars
      BY <2>1 DEF vars, procVars, Contract!cvars, LiveReasoners
    <2>2. ASSUME Next PROVE StepsOnContract
      <3>1. ASSUME ShutdownStep PROVE StepsOnContract
        <4>1. LiveReasoners' = LiveReasoners
          BY <3>1, ShutdownKeepsReasoners DEF LockInv
        <4>2. Quiet' => Quiet  BY <4>1, LiveReasonersMeans
        <4> QED
          BY <3>1, <4>1, <4>2, ShutdownMoves
          DEF LockInv, QuietInv, Moves, StepsOnContract, Changes
      <3> QED  BY <2>2, <3>1, CallersStepOnContract, LivesStepOnContract DEF Next
    <2>3. CASE UNCHANGED <<state, LiveReasoners>>
      BY <2>3 DEF Contract!cvars
    <2> QED
      BY <2>1, <2>2, <2>3, ChangesMeans DEF StepsOnContract, LockInv
  <1> QED  BY <1>1, <1>2, <1>3, LockInit, PTL DEF Spec, ImplementsContract, Contract!CSpec
=============================================================================
