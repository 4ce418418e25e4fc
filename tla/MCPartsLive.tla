---------------------------- MODULE MCPartsLive ----------------------------
(***************************************************************************)
(* The safety of an intent reconciler, and what must eventually happen in  *)
(* it and three other parts, on instances small enough for liveness.  The  *)
(* parts share no state: one of them, chosen initially, takes steps.  Each *)
(* liveness property assumes the fairness of its own part only, since the  *)
(* parts that stay still are not fair.                                     *)
(*                                                                         *)
(* One object, which a detached resume replaces when nobody refers to it   *)
(* any more.  Three intent nodes, one of them added by a merge, and        *)
(* another tree of two nodes with every kind of merge.  Two processes on   *)
(* one mount path.  One supervised child with three incarnations.          *)
(***************************************************************************)
EXTENDS Reconciler

CONSTANTS
    o1, p1, p2, e1, e2, e3,
    Objects, NoObject, Window, Backoff, MaxLeaving,
    Users, Entries, NoEntry, NoUser, CleansReleased,
    Children, MaxRestarts, MaxGen, WakesInGate

VARIABLES
    part,
    qTable, qSt, qWakeIn, qReason, qDrivers, qLeaving, qCutShort, qLlm,
    qResumeMu, qScan, qScanned, qAge, qUser, qUnsaved, qDisk, qWriting,
    qOvertaken, qFailedAgo, qUp,
    mMounts, mDevice, mLock, mRefCount, mConnected, mRunning, mPc, mLoc, mAfter, mOwned,
    sSpec, sState, sDone, sArmed, sExitCh, sGen, sAlive, sRestarts, sStep,
    sCursor, sUpto, sNext, sEvent, sStrays,
    rNodes, rDeps, rStatus, rRetries, rThread, rActive, rPhase, rTree, rListening, rMerges

wakeVars == <<qTable, qSt, qWakeIn, qReason, qDrivers, qLeaving, qCutShort, qLlm,
              qResumeMu, qScan, qScanned, qAge, qUser, qUnsaved,
              qDisk, qWriting, qOvertaken, qFailedAgo, qUp>>
mountVars == <<mMounts, mDevice, mLock, mRefCount, mConnected, mRunning, mPc, mLoc,
               mAfter, mOwned>>
childVars == <<sSpec, sState, sDone, sArmed, sExitCh, sGen, sAlive, sRestarts, sStep,
               sCursor, sUpto, sNext, sEvent, sStrays>>
mergeVars == <<rNodes, rDeps, rStatus, rRetries, rThread, rActive, rPhase, rTree,
               rListening, rMerges>>
partsVars == <<part, wakeVars, reconcilerVars, mountVars, childVars, mergeVars>>

SupervisorSpecs == {[strategy |-> s, policy |-> <<p>>] :
                        s \in {"one_for_one", "one_for_all"}, p \in {"permanent", "transient"}}

\* Chains, a fork, a join, a dependency against the order of the names, and a
\* cycle that is refused.
IntentTrees ==
    {<<{}, {1}, {2}>>, <<{}, {1}, {1}>>, <<{}, {}, {1, 2}>>, <<{2}, {1}, {}>>,
     <<{}, {}, {}>>, <<{3}, {1}, {2}>>}

IntentPairs == {<<{}, {}>>, <<{}, {1}>>, <<{2}, {}>>, <<{2}, {1}>>}

Wak == INSTANCE QuotaWake WITH
    table <- qTable, st <- qSt, wakeIn <- qWakeIn, reason <- qReason,
    drivers <- qDrivers, leaving <- qLeaving, cutShort <- qCutShort, llm <- qLlm,
    resumeMu <- qResumeMu, scan <- qScan, scanned <- qScanned,
    age <- qAge, user <- qUser, unsaved <- qUnsaved, disk <- qDisk,
    writing <- qWriting, overtaken <- qOvertaken, failedAgo <- qFailedAgo,
    up <- qUp

Mnt == INSTANCE MountTable WITH
    mounts <- mMounts, device <- mDevice, lock <- mLock, refCount <- mRefCount,
    connected <- mConnected, running <- mRunning, pc <- mPc, loc <- mLoc,
    after <- mAfter, owned <- mOwned

Sup == INSTANCE Supervisor WITH
    Specs <- SupervisorSpecs,
    spec <- sSpec, state <- sState, done <- sDone, armed <- sArmed, exitCh <- sExitCh,
    gen <- sGen, alive <- sAlive, restarts <- sRestarts, step <- sStep,
    cursor <- sCursor, upto <- sUpto, next <- sNext, event <- sEvent,
    strays <- sStrays

Mrg == INSTANCE Reconciler WITH
    Nodes <- {1, 2}, FirstNodes <- {1}, Trees <- IntentPairs,
    MergeKinds <- {"add", "change", "rejected", "late"}, MaxMerges <- 2,
    nodes <- rNodes, deps <- rDeps, status <- rStatus, retries <- rRetries,
    thread <- rThread, active <- rActive, phase <- rPhase, tree <- rTree,
    listening <- rListening, merges <- rMerges

\* What the theorems about these parts assume of their constants.
ASSUME PartConstants ==
    /\ Sup!SupervisorConstants /\ Wak!QuotaConstants
    /\ ReconcilerConstants /\ Mrg!ReconcilerConstants

\* The initial state of a part that stays where it starts is one of its own.
PartsInit ==
    /\ part \in {"quota", "reconciler", "mounts", "supervisor", "merges"}
    /\ Wak!QuotaInit
    /\ ReconcilerInit /\ (part # "reconciler" => deps = <<{}, {}, {}>>)
    /\ Mnt!Init
    /\ Sup!SupervisorInit
    /\ part # "supervisor" => sSpec.strategy = "one_for_one" /\ sSpec.policy[1] = "permanent"
    /\ Mrg!ReconcilerInit /\ (part # "merges" => rDeps = <<{}, {}>>)

\* Free entries differ in name only: a mount takes the first one.
FirstFree ==
    mMounts' \in {mMounts, NoEntry} \/ mMounts' = CHOOSE e \in Entries : Mnt!Free(e)

PartsNext ==
    \/ /\ part = "quota" /\ Wak!QuotaNext
       /\ UNCHANGED <<part, reconcilerVars, mountVars, childVars, mergeVars>>
    \/ /\ part = "reconciler" /\ ReconcilerNext
       /\ UNCHANGED <<part, wakeVars, mountVars, childVars, mergeVars>>
    \/ /\ part = "mounts" /\ Mnt!Next /\ FirstFree
       /\ UNCHANGED <<part, wakeVars, reconcilerVars, childVars, mergeVars>>
    \/ /\ part = "supervisor" /\ Sup!SupervisorNext
       /\ UNCHANGED <<part, wakeVars, reconcilerVars, mountVars, mergeVars>>
    \/ /\ part = "merges" /\ Mrg!ReconcilerNext
       /\ UNCHANGED <<part, wakeVars, reconcilerVars, mountVars, childVars>>

PartsSpec == PartsInit /\ [][PartsNext]_partsVars

-----------------------------------------------------------------------------
(* See QuotaWake: a suspended process with an instant is woken.             *)
WokenInTheEnd == part = "quota" /\ Wak!QuotaFairness => Wak!Woken

(* See MountTable: attaching ends.                                          *)
AttachReturns == part = "mounts" /\ Mnt!Fairness => Mnt!AttachReturns

(* See Supervisor: a shutdown ends.                                         *)
ShutdownEnds == part = "supervisor" /\ Sup!SupervisorFairness => Sup!ShutdownEnds

(* See Reconciler: Execute returns, whatever merges do.                     *)
ExecuteEnds == part = "merges" /\ Mrg!ReconcilerFairness => Mrg!ExecuteReturns
=============================================================================
