----------------------------- MODULE Supervisor -----------------------------
(***************************************************************************)
(* A supervisor process (kernel/supervisor.go), its children and the       *)
(* monitor goroutines between them.  A child incarnation is <<i, g>>: the  *)
(* g-th process started for child i.  Its Done channel holds one exit; a   *)
(* one-shot monitor moves it to exitCh, and the supervisor handles events  *)
(* one at a time while children go on exiting, running out of quota, being *)
(* woken, paused and killed.                                               *)
(*                                                                         *)
(* One action is one receive, one spawn, one signal or one wait of the     *)
(* supervisor, one step of a monitor, or one event in a child's life.      *)
(***************************************************************************)
EXTENDS Integers

CONSTANTS
    Children,       \* 1..n, the specs in start order
    Specs,          \* the supervisor specs to run: strategy and policy per child
    MaxRestarts,    \* intensity limit
    MaxGen,         \* bound on the incarnations of one child
    WakesInGate     \* a child may be woken between the quota gate's two reads

Last == CHOOSE n \in Children : \A m \in Children : m <= n

SupervisorConstants ==
    /\ Last \in Nat \ {0} /\ Children = 1..Last
    /\ Specs \subseteq [strategy : {"one_for_one", "one_for_all", "rest_for_one"},
                       policy : [Children -> {"permanent", "transient", "temporary"}]]
    /\ MaxRestarts \in Nat \ {0}
    /\ MaxGen \in Nat \ {0}
    /\ WakesInGate \in BOOLEAN

Pids == Children \X (1..MaxGen)

States == {"absent", "running", "quota", "paused", "zombie", "dead"}
Exits  == {"ok", "fail", "quota", "paused"}

VARIABLES
    spec,       \* the spec passed to SpawnSupervisor
    state,      \* incarnation -> state of its process
    done,       \* incarnation -> the exit in its Done channel, or "none"
    armed,      \* incarnations with a monitor waiting on Done
    exitCh,     \* events received by monitors, sent or about to be
    gen,        \* child -> its current incarnation, 0 before the first
    alive,      \* child -> supervisedChild.alive
    restarts,   \* restarts recorded and still inside the window
    step,       \* where the supervisor's goroutine is
    cursor,     \* child being stopped or started
    upto,       \* last child to start, and first to stop
    next,       \* what follows the stops
    event,      \* the event being handled
    strays      \* history: incarnations given up that had not ended

supVars == <<gen, alive, restarts, step, cursor, upto, next, event, strays>>
chanVars == <<armed, exitCh>>
supervisorVars == <<spec, state, done, armed, exitCh, gen, alive, restarts, step,
          cursor, upto, next, event, strays>>

NoEvent == [pid |-> <<0, 0>>, exit |-> "none"]

SupervisorInit ==
    /\ spec \in Specs
    /\ state = [p \in Pids |-> "absent"]
    /\ done = [p \in Pids |-> "none"]
    /\ armed = {}
    /\ exitCh = {}
    /\ gen = [i \in Children |-> 0]
    /\ alive = [i \in Children |-> FALSE]
    /\ restarts = 0
    /\ step = "boot"
    /\ cursor = 1
    /\ upto = Last
    /\ next = "loop"
    /\ event = NoEvent
    /\ strays = {}

Pid(i) == <<i, gen[i]>>

-----------------------------------------------------------------------------
(* A child's life, as far as its Done channel shows it.                     *)

\* Done has room for one exit; a send that finds it full is dropped.
TrySend(p, x) == done' = [done EXCEPT ![p] = IF @ = "none" THEN x ELSE @]

\* The last exit of an incarnation; without a monitor nobody will read it.
FinalSend(p, x) == IF p \in armed THEN TrySend(p, x) ELSE done' = [done EXCEPT ![p] = "none"]

Become(p, s) == state' = [state EXCEPT ![p] = s]

Exit(p) ==
    /\ state[p] = "running"
    /\ Become(p, "zombie")
    /\ \E x \in {"ok", "fail"} : FinalSend(p, x)
    /\ UNCHANGED <<spec, chanVars, supVars>>

\* A suspension: for spent quota, or for any other reason.
Suspend(p) ==
    /\ state[p] = "running"
    /\ \E s \in {"quota", "paused"} : Become(p, s) /\ TrySend(p, s)
    /\ UNCHANGED <<spec, chanVars, supVars>>

\* The quota scan, or a resume in place: Done is drained first.
Wake(p) ==
    /\ state[p] \in {"quota", "paused"}
    /\ step = "regate" => WakesInGate
    /\ Become(p, "running")
    /\ done' = [done EXCEPT ![p] = "none"]
    /\ UNCHANGED <<spec, chanVars, supVars>>

KillSuspendedChild(p) == Become(p, "dead") /\ FinalSend(p, "fail")

\* Somebody kills a suspended child, or the grace timer of a SIGTERM does that
\* finds the child suspended when the supervisor has gone on long since.
KilledWhileSuspended(p) ==
    /\ state[p] \in {"quota", "paused"}
    /\ KillSuspendedChild(p)
    /\ UNCHANGED <<spec, chanVars, supVars>>

-----------------------------------------------------------------------------
(* Monitor goroutines.  A monitor may be slow between its receive and its   *)
(* send, and exitCh has room for every child, so the events in between are  *)
(* a set: the supervisor may receive any of them next.                      *)

MonitorReceive(p) ==
    /\ p \in armed /\ done[p] # "none"
    /\ exitCh' = exitCh \union {[pid |-> p, exit |-> done[p]]}
    /\ armed' = armed \ {p}
    /\ done' = [done EXCEPT ![p] = "none"]
    /\ UNCHANGED <<spec, state, supVars>>

-----------------------------------------------------------------------------
(* The supervisor's goroutine.                                              *)

\* startChild: spawn, record, monitor.
Spawned(i) ==
    /\ gen' = [gen EXCEPT ![i] = @ + 1]
    /\ alive' = [alive EXCEPT ![i] = TRUE]
    /\ state' = [state EXCEPT ![<<i, gen[i] + 1>>] = "running"]
    /\ armed' = armed \union {<<i, gen[i] + 1>>}

\* Start the children from cursor to upto in order.
StartNext ==
    /\ step = "boot" /\ cursor <= upto
    /\ Spawned(cursor)
    /\ cursor' = cursor + 1
    /\ UNCHANGED <<spec, done, exitCh, restarts, step, upto, next, event, strays>>

\* The locals of a handled event are gone.
Idle == cursor' = 1 /\ upto' = Last /\ next' = "loop" /\ event' = NoEvent

StartedAll ==
    /\ step = "boot" /\ cursor > upto
    /\ step' = "loop"
    /\ Idle
    /\ UNCHANGED <<spec, state, done, chanVars, gen, alive, restarts, strays>>

\* Stop the children from hi down to lo, then go on as `then' says.
StopThen(hi, lo, then) ==
    /\ step' = "stop"
    /\ cursor' = hi
    /\ upto' = lo
    /\ next' = then

\* Mutant: a failed start leaves what was already started running.
StartFailsNoRollback ==
    /\ step = "boot" /\ cursor <= upto
    /\ step' = "over"
    /\ UNCHANGED <<spec, state, done, chanVars, gen, alive, restarts>>
    /\ UNCHANGED <<cursor, upto, next, event, strays>>

\* A start that fails rolls back what was started before it, except that
\* restartOneForOne stops nothing.
StartFails ==
    /\ step = "boot" /\ cursor <= upto
    /\ IF spec.strategy = "one_for_one" /\ next = "restarted"
       THEN step' = "over" /\ next' = "abandon" /\ UNCHANGED <<cursor, upto>>
       ELSE StopThen(cursor - 1, 1, "finish")
    /\ UNCHANGED <<spec, state, done, chanVars, gen, alive, restarts, event, strays>>

shouldRestart(i, exit) ==
    \/ spec.policy[i] = "permanent"
    \/ spec.policy[i] = "transient" /\ exit # "ok"

\* A stale event: the child was stopped or replaced meanwhile.
Stale(e) == ~alive[e.pid[1]] \/ e.pid # Pid(e.pid[1])

\* The supervisor's own process is Running here: only this goroutine finishes it,
\* a kill or a suspension cancels its context and waits for it.  So the return
\* before the handler is never taken, and the one after it is "over".
Receive(e) ==
    /\ step = "loop" /\ e \in exitCh
    /\ event' = e
    /\ exitCh' = exitCh \ {e}
    /\ step' = IF Stale(e) THEN "settle" ELSE "gate"
    /\ UNCHANGED <<spec, state, done, armed, gen, alive, restarts, cursor, upto, next, strays>>

Rearm ==
    /\ armed' = armed \union {event.pid}
    /\ step' = "settle"
    /\ UNCHANGED <<alive, strays>>

GivenUp(p) == strays' = IF state[p] \in {"zombie", "dead"} THEN strays ELSE strays \union {p}

\* What is not a suspension for quota counts as an exit, a pause too.
ToExit ==
    /\ alive' = [alive EXCEPT ![event.pid[1]] = FALSE]
    /\ step' = "exited"
    /\ IF "paused" \in {event.exit, state[event.pid]} THEN GivenUp(event.pid) ELSE UNCHANGED strays
    /\ UNCHANGED armed

\* Mutant: a child woken while its event was queued is not looked for.
GateSuspendedOnly ==
    /\ step = "gate"
    /\ IF event.exit = "quota"
       THEN step' = "regate" /\ UNCHANGED <<armed, alive, strays>>
       ELSE ToExit
    /\ UNCHANGED <<spec, state, done, exitCh, gen, restarts, cursor, upto, next, event>>

\* The quota gate: an event that says "quota" is settled by the live state,
\* which the code reads once for Running ...
Gate ==
    /\ step = "gate"
    /\ CASE event.exit # "quota" -> ToExit
         [] event.exit = "quota" /\ state[event.pid] = "running" -> Rearm
         [] OTHER -> step' = "regate" /\ UNCHANGED <<armed, alive, strays>>
    /\ UNCHANGED <<spec, state, done, exitCh, gen, restarts, cursor, upto, next, event>>

\* Mutant: a suspended child is kept but its monitor is not armed again.
GateForgetsMonitor ==
    /\ step = "regate"
    /\ IF state[event.pid] = "quota"
       THEN step' = "settle" /\ UNCHANGED <<armed, alive, strays>>
       ELSE ToExit
    /\ UNCHANGED <<spec, state, done, exitCh, gen, restarts, cursor, upto, next, event>>

\* ... and again for Suspended.
GateAgain ==
    /\ step = "regate"
    /\ IF state[event.pid] = "quota" THEN Rearm ELSE ToExit
    /\ UNCHANGED <<spec, state, done, exitCh, gen, restarts, cursor, upto, next, event>>

\* Kernel.Reap acts on a zombie only.
Reaped(p) == state' = IF state[p] = "zombie" THEN [state EXCEPT ![p] = "dead"] ELSE state

\* The exit is final and calls for no restart.
NoRestart ==
    /\ step = "exited"
    /\ ~shouldRestart(event.pid[1], event.exit)
    /\ Reaped(event.pid)
    /\ step' = "settle"
    /\ UNCHANGED <<spec, done, chanVars, gen, alive, restarts, cursor, upto, next, event, strays>>

\* recordRestart, then exceedsRestartLimit prunes: the restarts of before that
\* are still inside the window, and this one, are left.  The bound keeps the
\* restarts that the rest of the window allows within MaxGen.
Recorded(kept) ==
    /\ kept <= restarts
    /\ \A i \in Children : gen[i] + MaxRestarts - (kept + 1) <= MaxGen
    /\ restarts' = IF kept + 1 < MaxRestarts THEN kept + 1 ELSE MaxRestarts

\* First child a restart of child i has to stop, besides i itself.
StopsFrom(i) ==
    CASE spec.strategy = "one_for_one"  -> Last + 1
      [] spec.strategy = "one_for_all"  -> 1
      [] spec.strategy = "rest_for_one" -> i + 1

\* Mutant: rest_for_one starts the crashed child only.
StartsToSelf(i) == IF spec.strategy = "one_for_all" THEN Last ELSE i

StartsTo(i) == IF spec.strategy = "one_for_one" THEN i ELSE Last

\* Within the limit: stop what the strategy says, reap the crashed child.
Restart ==
    /\ step = "exited"
    /\ shouldRestart(event.pid[1], event.exit)
    /\ \E kept \in 0..MaxRestarts : Recorded(kept) /\ kept + 1 < MaxRestarts
    /\ StopThen(Last, StopsFrom(event.pid[1]), "restart")
    /\ UNCHANGED <<spec, state, done, chanVars, gen, alive, event, strays>>

\* The limit is reached: everything is shut down.
GiveUp ==
    /\ step = "exited"
    /\ shouldRestart(event.pid[1], event.exit)
    /\ \E kept \in 0..MaxRestarts : Recorded(kept) /\ kept + 1 >= MaxRestarts
    /\ StopThen(Last, 1, "finish")
    /\ UNCHANGED <<spec, state, done, chanVars, gen, alive, event, strays>>

\* The limit is reached, but the immune daemon moves the child's work to
\* another agent: the supervisor goes on without the child.
Migrate ==
    /\ step = "exited"
    /\ shouldRestart(event.pid[1], event.exit)
    /\ \E kept \in 0..MaxRestarts : Recorded(kept) /\ kept + 1 >= MaxRestarts
    /\ Reaped(event.pid)
    /\ step' = "settle"
    /\ UNCHANGED <<spec, done, chanVars, gen, alive, cursor, upto, next, event, strays>>

\* stopChild: SIGTERM, or the kill of a suspended child.
StopSignal ==
    /\ step = "stop" /\ cursor >= upto
    /\ IF alive[cursor]
       THEN LET p == Pid(cursor) IN
            /\ alive' = [alive EXCEPT ![cursor] = FALSE]
            /\ IF state[p] \in {"quota", "paused"}
               THEN KillSuspendedChild(p)
               ELSE UNCHANGED <<state, done>>
            /\ step' = "await"
            /\ UNCHANGED cursor
       ELSE /\ cursor' = cursor - 1
            /\ UNCHANGED <<alive, state, done, step>>
    /\ UNCHANGED <<spec, chanVars, gen, restarts, upto, next, event, strays>>

\* Mutant: the wait for the child's goroutine is left out.
StopNoWait ==
    /\ step = "await"
    /\ step' = "stop"
    /\ cursor' = cursor - 1
    /\ UNCHANGED <<spec, state, done, chanVars, gen, alive, restarts, upto, next, event, strays>>

\* Mutant: a child that suspended instead of ending is waited for too.
StopWaitForEnd ==
    /\ step = "await"
    /\ state[Pid(cursor)] \in {"zombie", "dead"}
    /\ Reaped(Pid(cursor))
    /\ step' = "stop"
    /\ cursor' = cursor - 1
    /\ UNCHANGED <<spec, done, chanVars, gen, alive, restarts, upto, next, event, strays>>

\* The child's goroutine is over, and Reap takes the child if it has ended.  One
\* that suspended itself instead is left as it is.
StopWait ==
    /\ step = "await"
    /\ state[Pid(cursor)] # "running"
    /\ Reaped(Pid(cursor))
    /\ GivenUp(Pid(cursor))
    /\ step' = "stop"
    /\ cursor' = cursor - 1
    /\ UNCHANGED <<spec, done, chanVars, gen, alive, restarts, upto, next, event>>

\* Both timers run out on a goroutine that does not look at its cancelled
\* context; or it suspended itself, and a wake has already started the next.
StopTimeout ==
    /\ step = "await"
    /\ state[Pid(cursor)] = "running"
    /\ GivenUp(Pid(cursor))
    /\ step' = "stop"
    /\ cursor' = cursor - 1
    /\ UNCHANGED <<spec, state, done, chanVars, gen, alive, restarts, upto, next, event>>

StoppedAll ==
    /\ step = "stop" /\ cursor < upto
    /\ LET i == event.pid[1] IN
       IF next = "finish"
       THEN step' = "over" /\ UNCHANGED <<state, cursor, upto, next>>
       ELSE /\ Reaped(event.pid)
            /\ step' = "boot"
            /\ next' = "restarted"
            /\ cursor' = IF spec.strategy = "one_for_all" THEN 1 ELSE i
            /\ upto' = StartsTo(i)
    /\ UNCHANGED <<spec, done, chanVars, gen, alive, restarts, event, strays>>

\* After an event: all done, or wait for the next one.
Settle ==
    /\ step = "settle"
    /\ step' = IF \A i \in Children : ~alive[i] THEN "over" ELSE "loop"
    /\ Idle
    /\ UNCHANGED <<spec, state, done, chanVars, gen, alive, restarts, strays>>

\* Cancelling the supervisor has no effect before it is back in the loop, so
\* the cancellation and its observation are one step.
ObserveCancel ==
    /\ step = "loop"
    /\ StopThen(Last, 1, "finish")
    /\ UNCHANGED <<spec, state, done, chanVars, gen, alive, restarts, event, strays>>

Sup ==
    \/ StartNext \/ StartedAll \/ StartFails \/ (\E e \in exitCh : Receive(e)) \/ Gate \/ GateAgain
    \/ NoRestart \/ Restart \/ GiveUp \/ Migrate
    \/ StopSignal \/ StopWait \/ StopTimeout \/ StoppedAll \/ Settle \/ ObserveCancel

Monitor == \E p \in Pids : MonitorReceive(p)

Life(p) == Exit(p) \/ Suspend(p) \/ Wake(p) \/ KilledWhileSuspended(p)

SupervisorNext == Sup \/ Monitor \/  \E p \in Pids : Life(p)

SupervisorSpec == SupervisorInit /\ [][SupervisorNext]_supervisorVars

-----------------------------------------------------------------------------
Events == [pid : Pids, exit : Exits]

SupervisorTypes ==
    /\ spec \in Specs
    /\ state \in [Pids -> States]
    /\ done \in [Pids -> Exits \union {"none"}]
    /\ armed \subseteq Pids
    /\ exitCh \subseteq Events
    /\ gen \in [Children -> 0..MaxGen]
    /\ alive \in [Children -> BOOLEAN]
    /\ restarts \in 0..MaxRestarts
    /\ step \in {"boot", "loop", "gate", "regate", "exited", "settle", "stop", "await", "over"}
    /\ next \in {"loop", "restart", "restarted", "finish", "abandon"}
    /\ event \in Events \union {NoEvent}
    /\ strays \subseteq Pids

\* Running, or to be resumed by the quota scan, and still the supervisor's.  The
\* code gives up three kinds of child that have not ended: one that suspended
\* itself while it was being stopped, one that outlasted stopChild's timers, and
\* one suspended for another reason than quota, whose exit it takes for an end.
AtWork(p) == state[p] \in {"running", "quota"} /\ p \notin strays

(* However suspensions, wakes, kills and queued events interleave, a child  *)
(* never has two incarnations at work, strays aside: no restart beside a    *)
(* woken original (supervisor.go, the quota gate of handleChildExit).       *)
OneIncarnation ==
    \A i \in Children : \A g, h \in 1..MaxGen :
        AtWork(<<i, g>>) /\ AtWork(<<i, h>>) => g = h

(* While the supervisor waits, each child it counts as alive has a monitor  *)
(* on its Done channel or an event on its way: no exit goes unnoticed.      *)
Watched ==
    step = "loop" =>
        \A i \in Children : alive[i] =>
            \/ Pid(i) \in armed
            \/ \E e \in exitCh : e.pid = Pid(i)

(* What the strategies promise about who was restarted together: the whole  *)
(* set for one_for_all, everything started after the crashed child for      *)
(* rest_for_one.                                                            *)
StrategyKept ==
    step = "loop" =>
        \A i, j \in Children :
            /\ spec.strategy = "one_for_all" => gen[i] = gen[j]
            /\ spec.strategy = "rest_for_one" /\ i < j => gen[i] <= gen[j]

(* A restart under one_for_all or rest_for_one starts a child only when     *)
(* nothing the crash took down with it is still at work, strays aside.      *)
CleanRestart ==
    step = "boot" /\ next = "restarted" =>
        \A i \in Children : (i >= cursor /\ i <= upto) \/ ~alive[i] => ~AtWork(Pid(i))

(* When the supervisor is over it leaves no child at work behind, whatever  *)
(* ended it, but strays; the one exception is restartOneForOne's failed     *)
(* spawn.                                                                   *)
NoneLeftBehind ==
    step = "over" /\ next # "abandon" => \A p \in Pids : ~AtWork(p)

-----------------------------------------------------------------------------
(* The supervisor's and the monitors' goroutines run, and so do the timers  *)
(* that limit the wait for a child that is being stopped.  Nobody need ever *)
(* cancel the supervisor.                                                   *)
SupervisorFairness ==
    /\ WF_supervisorVars(Sup /\ ~ObserveCancel)
    /\ \A p \in Pids : WF_supervisorVars(MonitorReceive(p))

(* A shutdown ends: no child can keep the supervisor in it.                 *)
ShutdownEnds == step = "stop" /\ next = "finish" ~> step = "over"
=============================================================================
