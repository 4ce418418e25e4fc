-------------------------- MODULE SupervisorProofs --------------------------
(***************************************************************************)
(* What a supervisor keeps with any number of children, any strategy and   *)
(* policies, any limit on restarts.                                        *)
(*                                                                         *)
(* SupInv holds whatever the children do.  It says how far the supervisor  *)
(* is with starting and stopping, and from it follow the supervision of    *)
(* every living child and what a strategy promises.  EndedInv adds what a  *)
(* recorded exit says of the process it came from, and that everything the *)
(* supervisor has given up has ended or is a stray.  It is inductive only  *)
(* if no child is woken between the two reads of the quota gate: with      *)
(* WakesInGate a child may have a second incarnation at work, which the    *)
(* run supervisor_double shows.                                            *)
(***************************************************************************)
EXTENDS Supervisor, TLAPS

\* States that a process does not leave.
Off == {"zombie", "dead"}

\* The supervisor need not expect work of the incarnation any more.
Gone(p) == state[p] \in Off \/ p \in strays

Serving ==
    \/ step \in {"loop", "gate", "regate", "exited", "settle"}
    \/ step \in {"stop", "await"} /\ next = "restart"

\* An incarnation exists from its spawn on.
History ==
    /\ \A i \in Children : \A g \in 1..MaxGen : state[<<i, g>>] = "absent" <=> g > gen[i]
    /\ \A i \in Children : alive[i] => gen[i] > 0
    /\ Serving \/ (step = "boot" /\ next = "restarted") => \A i \in Children : gen[i] > 0
    /\ step = "boot" => \A i \in Children : i < cursor => gen[i] > 0

\* The event being handled is about a child that is still supervised up to
\* the gate, and no longer after it.
Handling ==
    /\ step \in {"gate", "regate"} =>
          event \in Events /\ alive[event.pid[1]] /\ event.pid = Pid(event.pid[1])
    /\ step = "exited" \/ (step \in {"stop", "await"} /\ next = "restart") =>
          event \in Events /\ ~alive[event.pid[1]]

\* Children are stopped from the last one down.
Stopping ==
    /\ step \in {"stop", "await"} =>
          /\ next \in {"restart", "finish"}
          /\ cursor \in 0..Last
          /\ upto \in 1..(Last + 1)
          /\ \A j \in Children : j > cursor => ~alive[j]
          /\ next = "finish" => upto = 1
          /\ next = "restart" => upto = StopsFrom(event.pid[1]) /\ \A i \in Children : gen[i] < MaxGen
    /\ step = "await" => cursor \in Children /\ ~alive[cursor] /\ gen[cursor] > 0

\* Whatever is still to be started has been stopped.
Starting ==
    step = "boot" =>
        /\ next \in {"loop", "restarted"}
        /\ cursor \in 1..(Last + 1)
        /\ upto \in Children
        /\ next = "loop" \/ spec.strategy # "one_for_one" => upto = Last
        /\ \A j \in Children : cursor <= j /\ j <= upto => ~alive[j] /\ gen[j] < MaxGen

\* A supervisor that is over watches nobody.
Over == step = "over" /\ next # "abandon" => \A i \in Children : ~alive[i]

\* A start or a restart takes the children of one strategy one incarnation
\* further, in order.
Together ==
    \A i, j \in Children :
        /\ spec.strategy = "one_for_all" =>
              /\ Serving => gen[i] = gen[j]
              /\ step = "boot" => gen[i] = IF i < cursor /\ cursor <= j THEN gen[j] + 1
                                         ELSE IF j < cursor /\ cursor <= i THEN gen[j] - 1
                                         ELSE gen[j]
        /\ spec.strategy = "rest_for_one" /\ i < j =>
              /\ Serving => gen[i] <= gen[j]
              /\ step = "boot" => gen[i] <= IF i < cursor /\ cursor <= j THEN gen[j] + 1 ELSE gen[j]

\* The exit of a child that counts as alive is awaited, on its way, or being
\* looked at.
WatchedInv ==
    \A i \in Children : alive[i] =>
        \/ Pid(i) \in armed
        \/ \E e \in exitCh : e.pid = Pid(i)
        \/ step \in {"gate", "regate"} /\ event.pid = Pid(i)

SupInv ==
    /\ SupervisorTypes
    /\ History
    /\ Handling
    /\ Stopping
    /\ Starting
    /\ Over
    /\ Together
    /\ WatchedInv

\* The exit of a process that ended is final, and everything the supervisor has
\* given up has ended or is a stray: the only process that it does not count as
\* alive and that may be at work is the one it is waiting for.
EndedInv ==
    /\ \A p \in Pids : done[p] \in {"ok", "fail"} => state[p] \in Off
    /\ \A e \in exitCh : e.exit \in {"ok", "fail"} => state[e.pid] \in Off
    /\ step = "gate" /\ event.exit \in {"ok", "fail"} => state[event.pid] \in Off
    /\ step = "regate" => state[event.pid] # "running"
    /\ \A i \in Children : \A g \in 1..MaxGen : g < gen[i] => Gone(<<i, g>>)
    /\ \A i \in Children : gen[i] > 0 /\ ~alive[i] =>
          Gone(Pid(i)) \/ (step = "await" /\ cursor = i)
-----------------------------------------------------------------------------
\* What a step may do to the processes while it starts none.
Aging ==
    /\ state' \in [Pids -> States]
    /\ done' \in [Pids -> Exits \union {"none"}]
    /\ \A p \in Pids :
          /\ state'[p] = "absent" <=> state[p] = "absent"
          /\ state[p] \in Off => state'[p] \in Off
          /\ done'[p] \in {"ok", "fail"} => done'[p] = done[p] \/ state'[p] \in Off

LEMMA ReapedAges ==
    ASSUME SupervisorTypes, NEW p \in Pids, Reaped(p), UNCHANGED done
    PROVE  Aging /\ \A q \in Pids : state'[q] = state[q] \/ state'[q] = "dead"
  BY DEF SupervisorTypes, Reaped, Aging, States, Exits, Off

LEMMA KilledAges ==
    ASSUME SupervisorTypes, NEW p \in Pids, state[p] \in {"quota", "paused"}, KillSuspendedChild(p)
    PROVE  Aging /\ \A q \in Pids : state'[q] = IF q = p THEN "dead" ELSE state[q]
  BY DEF SupervisorTypes, KillSuspendedChild, Become, FinalSend, TrySend, Aging, States, Exits, Off

LEMMA EventFacts ==
    \A e \in Events : e.pid \in Pids /\ e.pid[1] \in Children /\ e.pid[2] \in 1..MaxGen
                     /\ e.pid = <<e.pid[1], e.pid[2]>> /\ e.exit \in Exits
  BY DEF Events, Pids

\* The history of a child that is not started only grows older.
LEMMA HistoryAges ==
    ASSUME SupervisorConstants, History, Aging, UNCHANGED gen,
           \A i \in Children : alive'[i] => alive[i],
           step' # "boot", Serving' => Serving
    PROVE  History'
  <1>1. \A i \in Children : \A g \in 1..MaxGen : <<i, g>> \in Pids  BY DEF Pids
  <1> QED  BY <1>1 DEF History, Aging

LEMMA StartNextKeeps ==
    ASSUME SupervisorConstants, SupInv, StartNext
    PROVE  SupInv'
  <1> USE DEF SupervisorConstants, SupInv
  <1>a. /\ step = "boot" /\ cursor \in Children /\ cursor <= upto /\ upto \in Children
        /\ gen[cursor] \in 0..MaxGen /\ gen[cursor] < MaxGen /\ ~alive[cursor]
        /\ cursor' = cursor + 1
        /\ UNCHANGED <<spec, done, exitCh, restarts, step, upto, next, event, strays>>
    BY DEF StartNext, Starting, SupervisorTypes
  <1>b. <<cursor, gen[cursor] + 1>> \in Pids
    BY <1>a DEF Pids
  <1>c. /\ \A i \in Children : gen'[i] = IF i = cursor THEN gen[i] + 1 ELSE gen[i]
        /\ \A i \in Children : alive'[i] = IF i = cursor THEN TRUE ELSE alive[i]
        /\ \A p \in Pids : state'[p] = IF p = <<cursor, gen[cursor] + 1>> THEN "running" ELSE state[p]
        /\ armed' = armed \union {<<cursor, gen[cursor] + 1>>}
    BY DEF StartNext, Spawned, SupervisorTypes
  <1>d. /\ gen' \in [Children -> 0..MaxGen] /\ alive' \in [Children -> BOOLEAN]
        /\ state' \in [Pids -> States]
    BY <1>a, <1>b DEF StartNext, Spawned, SupervisorTypes, States
  <1>1. SupervisorTypes'
    BY <1>a, <1>b, <1>c, <1>d DEF SupervisorTypes
  <1>2. History'
    <2>1. ASSUME NEW i \in Children, NEW g \in 1..MaxGen
          PROVE  state'[<<i, g>>] = "absent" <=> g > gen'[i]
      <3>1. <<i, g>> \in Pids  BY DEF Pids
      <3>2. gen[i] \in 0..MaxGen /\ (state[<<i, g>>] = "absent" <=> g > gen[i])
        BY DEF History, SupervisorTypes
      <3>3. <<i, g>> = <<cursor, gen[cursor] + 1>> <=> i = cursor /\ g = gen[cursor] + 1
        OBVIOUS
      <3>4. state'[<<i, g>>] = IF i = cursor /\ g = gen[cursor] + 1 THEN "running" ELSE state[<<i, g>>]
        BY <1>c, <3>1, <3>3
      <3>5. gen'[i] = IF i = cursor THEN gen[i] + 1 ELSE gen[i]
        BY <1>c
      <3> QED  BY <1>a, <3>2, <3>4, <3>5
    <2>2. ASSUME NEW i \in Children, alive'[i]  PROVE gen'[i] > 0
      <3>1. gen[i] \in Nat /\ (alive[i] => gen[i] > 0)
        BY DEF History, SupervisorTypes
      <3>2. CASE i = cursor  BY <1>a, <1>c, <3>2, <3>1
      <3>3. CASE i # cursor  BY <1>c, <2>2, <3>3, <3>1
      <3> QED  BY <3>2, <3>3
    <2>3. next = "restarted" => \A i \in Children : gen'[i] > 0
      BY <1>a, <1>c DEF History, SupervisorTypes
    <2>4. \A i \in Children : i < cursor' => gen'[i] > 0
      BY <1>a, <1>c DEF History, SupervisorTypes
    <2> QED  BY <1>a, <2>1, <2>2, <2>3, <2>4 DEF History, Serving
  <1>3. Handling'
    BY <1>a, <1>b, <1>c, <1>d DEF Handling, Pid
  <1>4. Stopping'
    BY <1>a, <1>b, <1>c, <1>d DEF Stopping
  <1>5. Starting'
    <2>1. ASSUME NEW j \in Children, cursor' <= j, j <= upto'  PROVE ~alive'[j] /\ gen'[j] < MaxGen
      <3>1. cursor \in Int /\ j \in Int /\ j # cursor /\ cursor <= j /\ j <= upto
        BY <1>a, <2>1
      <3> QED  BY <1>a, <1>c, <3>1 DEF Starting
    <2> QED  BY <1>a, <2>1 DEF Starting
  <1>6. Over'
    BY <1>a, <1>b, <1>c, <1>d DEF Over
  <1>7. Together'
    <2> SUFFICES ASSUME NEW i \in Children, NEW j \in Children
        PROVE /\ spec.strategy = "one_for_all" =>
                    gen'[i] = IF i < cursor' /\ cursor' <= j THEN gen'[j] + 1
                              ELSE IF j < cursor' /\ cursor' <= i THEN gen'[j] - 1 ELSE gen'[j]
              /\ spec.strategy = "rest_for_one" /\ i < j =>
                    gen'[i] <= IF i < cursor' /\ cursor' <= j THEN gen'[j] + 1 ELSE gen'[j]
      BY <1>a DEF Together, Serving
    <2>1. gen[i] \in Int /\ gen[j] \in Int /\ cursor \in Int /\ i \in Int /\ j \in Int
      BY <1>a DEF SupervisorTypes
    <2>2. CASE spec.strategy = "one_for_all"
      <3>1. gen[i] = IF i < cursor /\ cursor <= j THEN gen[j] + 1
                     ELSE IF j < cursor /\ cursor <= i THEN gen[j] - 1 ELSE gen[j]
        BY <1>a, <2>2 DEF Together
      <3> QED  BY <1>a, <1>c, <2>1, <2>2, <3>1
    <2>3. CASE spec.strategy = "rest_for_one"
      <3>1. i < j => gen[i] <= IF i < cursor /\ cursor <= j THEN gen[j] + 1 ELSE gen[j]
        BY <1>a, <2>3 DEF Together
      <3> QED  BY <1>a, <1>c, <2>1, <2>3, <3>1
    <2> QED  BY <2>2, <2>3
  <1>8. WatchedInv'
    BY <1>a, <1>b, <1>c, <1>d DEF WatchedInv, Pid
  <1> QED  BY <1>1, <1>2, <1>3, <1>4, <1>5, <1>6, <1>7, <1>8

LEMMA StartedAllKeeps ==
    ASSUME SupervisorConstants, SupInv, StartedAll
    PROVE  SupInv'
  <1> USE DEF SupervisorConstants, SupInv, SupervisorTypes, StartedAll, Idle, chanVars
  <1>1. SupervisorTypes'
    OBVIOUS
  <1>2. History'
    <2>1. \A i \in Children : i \in Int /\ i <= Last
      OBVIOUS
    <2>2. \A i \in Children : gen[i] > 0
      BY <2>1 DEF Starting, History
    <2> QED  BY <2>2 DEF History, Serving
  <1>3. Handling'
    BY DEF Handling, Pid
  <1>4. Stopping'
    BY DEF Stopping, StopsFrom
  <1>5. Starting'
    BY DEF Starting
  <1>6. Over'
    BY DEF Over
  <1>7. Together'
    <2>1. spec.strategy # "one_for_one" => upto = Last /\ cursor > Last /\ cursor \in Int /\ Last \in Int
      BY DEF Starting
    <2>2. \A i \in Children : i \in Int /\ i <= Last
      OBVIOUS
    <2>3. ASSUME NEW i \in Children, NEW j \in Children
          PROVE /\ spec.strategy = "one_for_all" => gen[i] = gen[j]
                /\ spec.strategy = "rest_for_one" /\ i < j => gen[i] <= gen[j]
      BY <2>1, <2>2 DEF Together
    <2> QED  BY <2>3 DEF Together, Serving
  <1>8. WatchedInv'
    BY DEF WatchedInv, Pid
  <1> QED  BY <1>1, <1>2, <1>3, <1>4, <1>5, <1>6, <1>7, <1>8

LEMMA StartFailsKeeps ==
    ASSUME SupervisorConstants, SupInv, StartFails
    PROVE  SupInv'
  <1> USE DEF SupervisorConstants, SupInv, SupervisorTypes, StartFails, StopThen, chanVars
  <1>1. SupervisorTypes'
    OBVIOUS
  <1>2. History'
    BY DEF History, Serving
  <1>3. Handling'
    BY DEF Handling, Pid
  <1>4. Stopping'
    <2>1. CASE step' = "over"
      BY <2>1 DEF Stopping
    <2>2. CASE StopThen(cursor - 1, 1, "finish")
      <3>1. upto = Last /\ cursor \in 1..(Last + 1)
        BY <2>2 DEF Starting
      <3>2. \A j \in Children : j > cursor - 1 => ~alive[j]
        BY <3>1 DEF Starting
      <3> QED  BY <2>2, <3>1, <3>2 DEF Stopping
    <2> QED  BY <2>1, <2>2 DEF StartFails
  <1>5. Starting'
    BY DEF Starting
  <1>6. Over'
    BY DEF Over
  <1>7. Together'
    BY DEF Together, Serving
  <1>8. WatchedInv'
    BY DEF WatchedInv, Pid
  <1> QED  BY <1>1, <1>2, <1>3, <1>4, <1>5, <1>6, <1>7, <1>8

LEMMA GateKeeps ==
    ASSUME SupervisorConstants, SupInv, Gate
    PROVE  SupInv'
  <1> USE DEF SupervisorConstants, SupInv, SupervisorTypes, chanVars
  <1>a. event \in Events /\ event.pid \in Pids /\ event.pid[1] \in Children
    BY EventFacts DEF Gate, Handling
  <1>b. /\ ToExit \/ Rearm \/ (step' = "regate" /\ UNCHANGED <<armed, alive, strays>>)
        /\ strays' \subseteq Pids
    BY <1>a DEF Gate, ToExit, Rearm, GivenUp
  <1>1. SupervisorTypes'
    BY <1>a, <1>b DEF Gate, ToExit, Rearm
  <1>2. History'
    BY <1>a, <1>b DEF Gate, ToExit, Rearm, History, Serving
  <1>3. Handling'
    BY <1>a, <1>b DEF Gate, ToExit, Rearm, Handling, Pid
  <1>4. Stopping'
    BY <1>a, <1>b DEF Gate, ToExit, Rearm, Stopping
  <1>5. Starting'
    BY <1>a, <1>b DEF Gate, ToExit, Rearm, Starting
  <1>6. Over'
    BY <1>a, <1>b DEF Gate, ToExit, Rearm, Over
  <1>7. Together'
    BY <1>a, <1>b DEF Gate, ToExit, Rearm, Together, Serving
  <1>8. WatchedInv'
    <2> SUFFICES ASSUME NEW i \in Children, alive'[i]
                 PROVE  Pid(i)' \in armed' \/ (\E e \in exitCh' : e.pid = Pid(i)')
                          \/ (step' = "regate" /\ event'.pid = Pid(i)')
      BY DEF WatchedInv
    <2>1. UNCHANGED <<exitCh, gen, event>> /\ step \in {"gate", "regate"}
      BY DEF Gate
    <2>2. alive[i] /\ event.pid = Pid(event.pid[1])
      BY <1>a, <1>b, <2>1 DEF ToExit, Rearm, Handling
    <2>3. Pid(i) \in armed \/ (\E e \in exitCh : e.pid = Pid(i)) \/ event.pid = Pid(i)
      BY <2>2 DEF WatchedInv
    <2>4. event.pid = Pid(i) => i = event.pid[1]
      BY DEF Pid
    <2> QED  BY <1>a, <1>b, <2>1, <2>3, <2>4 DEF ToExit, Rearm, Pid
  <1> QED  BY <1>1, <1>2, <1>3, <1>4, <1>5, <1>6, <1>7, <1>8

LEMMA GateAgainKeeps ==
    ASSUME SupervisorConstants, SupInv, GateAgain
    PROVE  SupInv'
  <1> USE DEF SupervisorConstants, SupInv, SupervisorTypes, chanVars
  <1>a. event \in Events /\ event.pid \in Pids /\ event.pid[1] \in Children
    BY EventFacts DEF GateAgain, Handling
  <1>b. (ToExit \/ Rearm) /\ strays' \subseteq Pids
    BY <1>a DEF GateAgain, ToExit, Rearm, GivenUp
  <1>1. SupervisorTypes'
    BY <1>a, <1>b DEF GateAgain, ToExit, Rearm
  <1>2. History'
    BY <1>a, <1>b DEF GateAgain, ToExit, Rearm, History, Serving
  <1>3. Handling'
    BY <1>a, <1>b DEF GateAgain, ToExit, Rearm, Handling, Pid
  <1>4. Stopping'
    BY <1>a, <1>b DEF GateAgain, ToExit, Rearm, Stopping
  <1>5. Starting'
    BY <1>a, <1>b DEF GateAgain, ToExit, Rearm, Starting
  <1>6. Over'
    BY <1>a, <1>b DEF GateAgain, ToExit, Rearm, Over
  <1>7. Together'
    BY <1>a, <1>b DEF GateAgain, ToExit, Rearm, Together, Serving
  <1>8. WatchedInv'
    <2> SUFFICES ASSUME NEW i \in Children, alive'[i]
                 PROVE  Pid(i)' \in armed' \/ (\E e \in exitCh' : e.pid = Pid(i)')
                          \/ (step' = "regate" /\ event'.pid = Pid(i)')
      BY DEF WatchedInv
    <2>1. UNCHANGED <<exitCh, gen, event>> /\ step \in {"gate", "regate"}
      BY DEF GateAgain
    <2>2. alive[i] /\ event.pid = Pid(event.pid[1])
      BY <1>a, <1>b, <2>1 DEF ToExit, Rearm, Handling
    <2>3. Pid(i) \in armed \/ (\E e \in exitCh : e.pid = Pid(i)) \/ event.pid = Pid(i)
      BY <2>2 DEF WatchedInv
    <2>4. event.pid = Pid(i) => i = event.pid[1]
      BY DEF Pid
    <2> QED  BY <1>a, <1>b, <2>1, <2>3, <2>4 DEF ToExit, Rearm, Pid
  <1> QED  BY <1>1, <1>2, <1>3, <1>4, <1>5, <1>6, <1>7, <1>8

LEMMA NoRestartKeeps ==
    ASSUME SupervisorConstants, SupInv, NoRestart
    PROVE  SupInv'
  <1> USE DEF SupervisorConstants, SupInv, SupervisorTypes, NoRestart, Reaped, chanVars
  <1>0. event \in Events /\ event.pid \in Pids
    BY EventFacts DEF Handling
  <1>a. Aging
    BY <1>0, ReapedAges
  <1>1. SupervisorTypes'
    BY <1>0, <1>a DEF Aging
  <1>2. History'
    BY <1>a, HistoryAges DEF Serving
  <1>3. Handling'
    BY DEF Handling, Pid
  <1>4. Stopping'
    BY DEF Stopping, StopsFrom
  <1>5. Starting'
    BY DEF Starting
  <1>6. Over'
    BY DEF Over
  <1>7. Together'
    BY DEF Together, Serving
  <1>8. WatchedInv'
    BY DEF WatchedInv, Pid
  <1> QED  BY <1>1, <1>2, <1>3, <1>4, <1>5, <1>6, <1>7, <1>8

LEMMA RestartKeeps ==
    ASSUME SupervisorConstants, SupInv, Restart
    PROVE  SupInv'
  <1> USE DEF SupervisorConstants, SupInv, SupervisorTypes, Restart, Recorded, StopThen, chanVars
  <1>1. SupervisorTypes'
    OBVIOUS
  <1>2. History'
    BY DEF History, Serving
  <1>3. Handling'
    BY DEF Handling, Pid
  <1>4. Stopping'
    <2>1. event \in Events /\ event.pid[1] \in Children
      BY EventFacts DEF Handling
    <2>2. StopsFrom(event.pid[1]) \in 1..(Last + 1)
      BY <2>1 DEF StopsFrom
    <2>3. PICK kept \in 0..MaxRestarts : Recorded(kept) /\ kept + 1 < MaxRestarts
      BY DEF Restart
    <2>4. \A i \in Children : gen[i] < MaxGen
      BY <2>3 DEF Recorded
    <2>5. UNCHANGED <<spec, gen, alive, event>> /\ StopThen(Last, StopsFrom(event.pid[1]), "restart")
      BY DEF Restart
    <2>6. StopsFrom(event.pid[1])' = StopsFrom(event.pid[1])
      BY <2>5 DEF StopsFrom
    <2> QED  BY <2>1, <2>2, <2>4, <2>5, <2>6 DEF Stopping, StopThen
  <1>5. Starting'
    BY DEF Starting
  <1>6. Over'
    BY DEF Over
  <1>7. Together'
    BY DEF Together, Serving
  <1>8. WatchedInv'
    BY DEF WatchedInv, Pid
  <1> QED  BY <1>1, <1>2, <1>3, <1>4, <1>5, <1>6, <1>7, <1>8

LEMMA GiveUpKeeps ==
    ASSUME SupervisorConstants, SupInv, GiveUp
    PROVE  SupInv'
  <1> USE DEF SupervisorConstants, SupInv, SupervisorTypes, GiveUp, Recorded, StopThen, chanVars
  <1>1. SupervisorTypes'
    OBVIOUS
  <1>2. History'
    BY DEF History, Serving
  <1>3. Handling'
    BY DEF Handling, Pid
  <1>4. Stopping'
    BY DEF Stopping, StopsFrom
  <1>5. Starting'
    BY DEF Starting
  <1>6. Over'
    BY DEF Over
  <1>7. Together'
    BY DEF Together, Serving
  <1>8. WatchedInv'
    BY DEF WatchedInv, Pid
  <1> QED  BY <1>1, <1>2, <1>3, <1>4, <1>5, <1>6, <1>7, <1>8

LEMMA MigrateKeeps ==
    ASSUME SupervisorConstants, SupInv, Migrate
    PROVE  SupInv'
  <1> USE DEF SupervisorConstants, SupInv, SupervisorTypes, Migrate, Recorded, Reaped, chanVars
  <1>0. event \in Events /\ event.pid \in Pids
    BY EventFacts DEF Handling
  <1>a. Aging
    BY <1>0, ReapedAges
  <1>1. SupervisorTypes'
    BY <1>0, <1>a DEF Aging
  <1>2. History'
    BY <1>a, HistoryAges DEF Serving
  <1>3. Handling'
    BY DEF Handling, Pid
  <1>4. Stopping'
    BY DEF Stopping, StopsFrom
  <1>5. Starting'
    BY DEF Starting
  <1>6. Over'
    BY DEF Over
  <1>7. Together'
    BY DEF Together, Serving
  <1>8. WatchedInv'
    BY DEF WatchedInv, Pid
  <1> QED  BY <1>1, <1>2, <1>3, <1>4, <1>5, <1>6, <1>7, <1>8

LEMMA StopSignalKeeps ==
    ASSUME SupervisorConstants, SupInv, StopSignal
    PROVE  SupInv'
  <1> USE DEF SupervisorConstants, SupInv, SupervisorTypes
  <1>a. /\ cursor \in Int /\ upto \in Int /\ cursor >= upto /\ cursor \in Children
        /\ UNCHANGED <<spec, armed, exitCh, gen, restarts, upto, next, event, strays>>
        /\ step = "stop"
    BY DEF StopSignal, Stopping, chanVars
  <1>b. CASE ~alive[cursor]
    <2>1. cursor' = cursor - 1 /\ UNCHANGED <<alive, state, done, step>>
      BY <1>b DEF StopSignal
    <2>2. \A j \in Children : j > cursor - 1 => ~alive[j]
      BY <1>a, <1>b DEF Stopping
    <2>3. StopsFrom(event.pid[1])' = StopsFrom(event.pid[1])
      BY <1>a DEF StopsFrom
    <2>4. SupervisorTypes' /\ History'
      BY <1>a, <2>1 DEF History, Serving
    <2>5. Handling' /\ Over' /\ Starting'
      BY <1>a, <2>1 DEF Handling, Over, Starting
    <2>6. Together' /\ WatchedInv'
      BY <1>a, <2>1 DEF Together, Serving, WatchedInv, Pid
    <2>7. Stopping'
      BY <1>a, <2>1, <2>2, <2>3 DEF Stopping
    <2> QED  BY <2>4, <2>5, <2>6, <2>7
  <1> SUFFICES ASSUME alive[cursor]  PROVE SupInv'
    BY <1>b
  <1>c. /\ alive' = [alive EXCEPT ![cursor] = FALSE]
        /\ step' = "await" /\ UNCHANGED cursor
    BY DEF StopSignal
  <1>d. gen[cursor] \in 1..MaxGen /\ Pid(cursor) \in Pids
    BY <1>a DEF History, Pid, Pids
  <1>e. Aging
    <2>1. CASE state[Pid(cursor)] \in {"quota", "paused"}
      BY <1>d, <2>1, KilledAges DEF StopSignal
    <2>2. CASE UNCHANGED <<state, done>>
      BY <2>2 DEF Aging
    <2> QED  BY <2>1, <2>2 DEF StopSignal
  <1>1. SupervisorTypes'
    BY <1>a, <1>c, <1>d, <1>e DEF Aging
  <1>2. History'
    BY <1>a, <1>c, <1>d, <1>e, HistoryAges DEF Serving
  <1>3. Handling'
    BY <1>a, <1>c, <1>d, <1>e DEF Handling
  <1>4. Stopping'
    <2>1. StopsFrom(event.pid[1])' = StopsFrom(event.pid[1])
      BY <1>a DEF StopsFrom
    <2> QED  BY <1>a, <1>c, <1>d, <1>e, <2>1 DEF Stopping
  <1>5. Starting'
    BY <1>a, <1>c, <1>d, <1>e DEF Starting
  <1>6. Over'
    BY <1>a, <1>c, <1>d, <1>e DEF Over
  <1>7. Together'
    BY <1>a, <1>c, <1>d, <1>e DEF Together, Serving
  <1>8. WatchedInv'
    BY <1>a, <1>c, <1>d, <1>e DEF WatchedInv, Pid
  <1> QED  BY <1>1, <1>2, <1>3, <1>4, <1>5, <1>6, <1>7, <1>8

LEMMA StopWaitKeeps ==
    ASSUME SupervisorConstants, SupInv, StopWait \/ StopTimeout
    PROVE  SupInv'
  <1> USE DEF SupervisorConstants, SupInv, SupervisorTypes
  <1>a. /\ step = "await" /\ step' = "stop" /\ cursor' = cursor - 1
        /\ cursor \in Children /\ ~alive[cursor] /\ gen[cursor] \in 1..MaxGen
        /\ UNCHANGED <<spec, armed, exitCh, gen, alive, restarts, upto, next, event>>
    BY DEF StopWait, StopTimeout, Stopping, chanVars
  <1>d. Pid(cursor) \in Pids
    BY <1>a DEF Pid, Pids
  <1>e. Aging /\ strays' \subseteq Pids
    <2>1. CASE StopWait
      BY <1>d, <2>1, ReapedAges DEF StopWait, GivenUp
    <2>2. CASE StopTimeout
      BY <1>d, <2>2 DEF StopTimeout, GivenUp, Aging
    <2> QED  BY <2>1, <2>2
  <1>1. SupervisorTypes'
    BY <1>a, <1>d, <1>e DEF Aging
  <1>2. History'
    BY <1>a, <1>d, <1>e, HistoryAges DEF Serving
  <1>3. Handling'
    BY <1>a, <1>d, <1>e DEF Handling
  <1>4. Stopping'
    <2>1. StopsFrom(event.pid[1])' = StopsFrom(event.pid[1])
      BY <1>a DEF StopsFrom
    <2>2. \A j \in Children : j > cursor - 1 => ~alive[j]
      BY <1>a DEF Stopping
    <2> QED  BY <1>a, <1>d, <1>e, <2>1, <2>2 DEF Stopping
  <1>5. Starting'
    BY <1>a, <1>d, <1>e DEF Starting
  <1>6. Over'
    BY <1>a, <1>d, <1>e DEF Over
  <1>7. Together'
    BY <1>a, <1>d, <1>e DEF Together, Serving
  <1>8. WatchedInv'
    BY <1>a, <1>d, <1>e DEF WatchedInv, Pid
  <1> QED  BY <1>1, <1>2, <1>3, <1>4, <1>5, <1>6, <1>7, <1>8

LEMMA StoppedAllKeeps ==
    ASSUME SupervisorConstants, SupInv, StoppedAll
    PROVE  SupInv'
  <1> USE DEF SupervisorConstants, SupInv, SupervisorTypes
  <1>a. /\ step = "stop" /\ cursor < upto /\ cursor \in 0..Last /\ upto \in 1..(Last + 1)
        /\ next \in {"restart", "finish"}
        /\ \A j \in Children : j > cursor => ~alive[j]
        /\ UNCHANGED <<spec, done, armed, exitCh, gen, alive, restarts, event, strays>>
    BY DEF StoppedAll, Stopping, chanVars
  <1>b. CASE next = "finish"
    <2>1. step' = "over" /\ UNCHANGED <<state, cursor, upto, next>>
      BY <1>b DEF StoppedAll
    <2>2. \A i \in Children : ~alive[i]
      BY <1>a, <1>b DEF Stopping
    <2>3. SupervisorTypes' /\ History' /\ Over'
      BY <1>a, <2>1, <2>2 DEF History, Serving, Over
    <2>4. Handling' /\ Stopping' /\ Starting'
      BY <2>1 DEF Handling, Stopping, Starting
    <2>5. Together' /\ WatchedInv'
      BY <1>a, <2>1, <2>2 DEF Together, Serving, WatchedInv
    <2> QED  BY <2>3, <2>4, <2>5
  <1> SUFFICES ASSUME next = "restart"  PROVE SupInv'
    BY <1>a, <1>b
  <1>c. /\ Reaped(event.pid) /\ step' = "boot" /\ next' = "restarted"
        /\ cursor' = (IF spec.strategy = "one_for_all" THEN 1 ELSE event.pid[1])
        /\ upto' = StartsTo(event.pid[1])
    BY DEF StoppedAll
  <1>d. /\ event.pid \in Pids /\ event.pid[1] \in Children /\ ~alive[event.pid[1]]
        /\ upto = StopsFrom(event.pid[1])
        /\ \A i \in Children : gen[i] < MaxGen /\ gen[i] > 0
    BY <1>a, EventFacts DEF Handling, Stopping, History, Serving
  <1>e. Aging
    BY <1>a, <1>c, <1>d, ReapedAges
  <1>1. SupervisorTypes'
    BY <1>a, <1>c, <1>d, <1>e DEF Aging
  <1>2. History'
    <2>1. \A i \in Children : \A g \in 1..MaxGen : <<i, g>> \in Pids
      BY DEF Pids
    <2> QED  BY <1>a, <1>c, <1>d, <1>e, <2>1 DEF History, Aging
  <1>3. Handling'
    BY <1>a, <1>c, <1>d, <1>e DEF Handling
  <1>4. Stopping'
    BY <1>a, <1>c, <1>d, <1>e DEF Stopping
  <1>5. Starting'
    <2>1. spec.strategy \in {"one_for_one", "one_for_all", "rest_for_one"}
      OBVIOUS
    <2>2. CASE spec.strategy = "one_for_one"
      BY <1>a, <1>c, <1>d, <1>e, <2>2 DEF Starting, StopsFrom, StartsTo
    <2>3. CASE spec.strategy = "one_for_all"
      BY <1>a, <1>c, <1>d, <1>e, <2>3 DEF Starting, StopsFrom, StartsTo
    <2>4. CASE spec.strategy = "rest_for_one"
      BY <1>a, <1>c, <1>d, <1>e, <2>4 DEF Starting, StopsFrom, StartsTo
    <2> QED  BY <2>1, <2>2, <2>3, <2>4
  <1>6. Over'
    BY <1>a, <1>c, <1>d, <1>e DEF Over
  <1>7. Together'
    <2>1. \A i \in Children : gen[i] \in Int /\ i >= 1
      OBVIOUS
    <2> QED  BY <1>a, <1>c, <1>d, <1>e, <2>1 DEF Together, Serving
  <1>8. WatchedInv'
    BY <1>a, <1>c, <1>d, <1>e DEF WatchedInv, Pid
  <1> QED  BY <1>1, <1>2, <1>3, <1>4, <1>5, <1>6, <1>7, <1>8

LEMMA SettleKeeps ==
    ASSUME SupervisorConstants, SupInv, Settle
    PROVE  SupInv'
  <1> USE DEF SupervisorConstants, SupInv, SupervisorTypes, Settle, Idle, chanVars
  <1>1. SupervisorTypes'
    OBVIOUS
  <1>2. History'
    BY DEF History, Serving
  <1>3. Handling'
    BY DEF Handling, Pid
  <1>4. Stopping'
    BY DEF Stopping, StopsFrom
  <1>5. Starting'
    BY DEF Starting
  <1>6. Over'
    BY DEF Over
  <1>7. Together'
    BY DEF Together, Serving
  <1>8. WatchedInv'
    BY DEF WatchedInv, Pid
  <1> QED  BY <1>1, <1>2, <1>3, <1>4, <1>5, <1>6, <1>7, <1>8

LEMMA ObserveCancelKeeps ==
    ASSUME SupervisorConstants, SupInv, ObserveCancel
    PROVE  SupInv'
  <1> USE DEF SupervisorConstants, SupInv, SupervisorTypes, ObserveCancel, StopThen, chanVars
  <1>1. SupervisorTypes'
    OBVIOUS
  <1>2. History'
    BY DEF History, Serving
  <1>3. Handling'
    BY DEF Handling, Pid
  <1>4. Stopping'
    BY DEF Stopping, StopsFrom
  <1>5. Starting'
    BY DEF Starting
  <1>6. Over'
    BY DEF Over
  <1>7. Together'
    BY DEF Together, Serving
  <1>8. WatchedInv'
    BY DEF WatchedInv, Pid
  <1> QED  BY <1>1, <1>2, <1>3, <1>4, <1>5, <1>6, <1>7, <1>8

LEMMA ReceiveKeeps ==
    ASSUME SupervisorConstants, SupInv, NEW e \in exitCh, Receive(e)
    PROVE  SupInv'
  <1> USE DEF SupervisorConstants, SupInv, SupervisorTypes
  <1>a. /\ step = "loop" /\ e \in Events /\ e.pid \in Pids /\ e.pid[1] \in Children
        /\ event' = e /\ exitCh' = exitCh \ {e}
        /\ step' = IF Stale(e) THEN "settle" ELSE "gate"
        /\ UNCHANGED <<spec, state, done, armed, gen, alive, restarts, cursor, upto, next, strays>>
    BY EventFacts DEF Receive
  <1>1. SupervisorTypes'
    BY <1>a
  <1>2. History'
    BY <1>a DEF History, Serving
  <1>3. Handling'
    BY <1>a DEF Handling, Stale, Pid
  <1>4. Stopping' /\ Starting' /\ Over'
    BY <1>a DEF Stopping, Starting, Over
  <1>5. Together'
    BY <1>a DEF Together, Serving
  <1>6. WatchedInv'
    <2> SUFFICES ASSUME NEW i \in Children, alive[i], Pid(i) \notin armed
                 PROVE  (\E d \in exitCh \ {e} : d.pid = Pid(i)) \/ (step' = "gate" /\ e.pid = Pid(i))
      BY <1>a DEF WatchedInv, Pid
    <2>1. PICK d \in exitCh : d.pid = Pid(i)
      BY <1>a DEF WatchedInv
    <2>2. CASE d = e
      <3>1. e.pid[1] = i  BY <2>1, <2>2 DEF Pid
      <3> QED  BY <1>a, <2>1, <2>2, <3>1 DEF Stale
    <2> QED  BY <2>1, <2>2
  <1> QED  BY <1>1, <1>2, <1>3, <1>4, <1>5, <1>6

LEMMA MonitorKeeps ==
    ASSUME SupervisorConstants, SupInv, NEW p \in Pids, MonitorReceive(p)
    PROVE  SupInv'
  <1> USE DEF SupervisorConstants, SupInv, SupervisorTypes, supVars
  <1>a. /\ exitCh' = exitCh \union {[pid |-> p, exit |-> done[p]]}
        /\ armed' = armed \ {p} /\ done[p] \in Exits
        /\ done' = [done EXCEPT ![p] = "none"]
        /\ UNCHANGED <<spec, state, gen, alive, restarts, step, cursor, upto, next, event, strays>>
    BY DEF MonitorReceive
  <1>1. SupervisorTypes'
    BY <1>a DEF Events
  <1>2. History' /\ Handling' /\ Stopping' /\ Starting' /\ Over' /\ Together'
    <2>1. Serving' <=> Serving
      BY <1>a DEF Serving
    <2>2. \A i \in Children : Pid(i)' = Pid(i) /\ StopsFrom(i)' = StopsFrom(i)
      BY <1>a DEF Pid, StopsFrom
    <2>3. History' /\ Together'
      BY <1>a, <2>1 DEF History, Together
    <2>4. Handling' /\ Starting' /\ Over'
      BY <1>a, <2>2 DEF Handling, Starting, Over, Pid
    <2>5. Stopping'
      BY <1>a DEF Stopping, StopsFrom
    <2> QED  BY <2>3, <2>4, <2>5
  <1>3. WatchedInv'
    <2> SUFFICES ASSUME NEW i \in Children, alive[i]
                 PROVE  \/ Pid(i) \in armed'
                        \/ \E e \in exitCh' : e.pid = Pid(i)
                        \/ step \in {"gate", "regate"} /\ event.pid = Pid(i)
      BY <1>a DEF WatchedInv, Pid
    <2>1. CASE Pid(i) = p
      <3>1. /\ [pid |-> p, exit |-> done[p]] \in exitCh'
            /\ [pid |-> p, exit |-> done[p]].pid = Pid(i)
        BY <1>a, <2>1
      <3> QED  BY <3>1
    <2>2. CASE Pid(i) # p
      BY <1>a, <2>2 DEF WatchedInv
    <2> QED  BY <2>1, <2>2
  <1> QED  BY <1>1, <1>2, <1>3

\* What children do and what is done to them ages them, and concerns the
\* supervisor through their Done channels only.
LEMMA LifeAges ==
    ASSUME SupervisorTypes, NEW p \in Pids, Life(p)
    PROVE  Aging
  <1> USE DEF SupervisorTypes, Become, FinalSend, TrySend, Aging, States, Exits, Off
  <1>1. CASE Exit(p)  BY <1>1 DEF Exit
  <1>2. CASE Suspend(p)  BY <1>2 DEF Suspend
  <1>3. CASE Wake(p)  BY <1>3 DEF Wake
  <1>4. CASE KilledWhileSuspended(p)  BY <1>4, KilledAges DEF KilledWhileSuspended
  <1> QED  BY <1>1, <1>2, <1>3, <1>4 DEF Life

LEMMA LifeKeeps ==
    ASSUME SupervisorConstants, SupInv, NEW p \in Pids, Life(p)
    PROVE  SupInv'
  <1> USE DEF SupervisorConstants, SupInv
  <1>a. /\ UNCHANGED <<spec, armed, exitCh, gen, alive, restarts, step, cursor, upto, next>>
        /\ UNCHANGED <<event, strays>>
    BY DEF Life, Exit, Suspend, Wake, KilledWhileSuspended, chanVars, supVars
  <1>b. Aging
    BY LifeAges
  <1>1. SupervisorTypes'
    BY <1>a, <1>b DEF SupervisorTypes, Aging
  <1>2. History'
    <2>1. \A i \in Children : \A g \in 1..MaxGen : <<i, g>> \in Pids
      BY DEF Pids
    <2> QED  BY <1>a, <1>b, <2>1 DEF History, Serving, Aging
  <1>3. Handling' /\ Starting' /\ Over'
    BY <1>a DEF Handling, Starting, Over, Pid
  <1>4. Stopping'
    BY <1>a DEF Stopping, StopsFrom
  <1>5. Together'
    <2>1. Serving' = Serving  BY <1>a DEF Serving
    <2>2. Together  OBVIOUS
    <2> HIDE DEF SupInv, SupervisorConstants
    <2> QED  BY <1>a, <2>1, <2>2 DEF Together
  <1>6. WatchedInv'
    <2>1. WatchedInv  OBVIOUS
    <2> HIDE DEF SupInv, SupervisorConstants
    <2> QED  BY <1>a, <2>1 DEF WatchedInv, Pid
  <1> QED  BY <1>1, <1>2, <1>3, <1>4, <1>5, <1>6

LEMMA SupInvInit ==
    ASSUME SupervisorConstants, SupervisorInit
    PROVE  SupInv
  <1> USE DEF SupervisorConstants, SupervisorInit
  <1>1. SupervisorTypes
    BY DEF SupervisorTypes, States
  <1>2. History
    <2>1. \A i \in Children : \A g \in 1..MaxGen : <<i, g>> \in Pids
      BY DEF Pids
    <2> QED  BY <2>1 DEF History, Serving
  <1>3. Handling /\ Stopping /\ Starting /\ Over
    BY DEF Handling, Stopping, Starting, Over
  <1>4. Together /\ WatchedInv
    BY DEF Together, Serving, WatchedInv
  <1> QED  BY <1>1, <1>2, <1>3, <1>4 DEF SupInv

LEMMA SupInvStep ==
    ASSUME SupervisorConstants, SupInv, [SupervisorNext]_supervisorVars
    PROVE  SupInv'
  <1>1. CASE Sup
    BY <1>1, StartNextKeeps, StartedAllKeeps, StartFailsKeeps, ReceiveKeeps, GateKeeps,
       GateAgainKeeps, NoRestartKeeps, RestartKeeps, GiveUpKeeps, MigrateKeeps,
       StopSignalKeeps, StopWaitKeeps, StoppedAllKeeps, SettleKeeps, ObserveCancelKeeps
    DEF Sup
  <1>2. CASE Monitor
    BY <1>2, MonitorKeeps DEF Monitor
  <1>3. CASE \E p \in Pids : Life(p)
    BY <1>3, LifeKeeps
  <1>4. CASE UNCHANGED supervisorVars
    <2>1. SupervisorTypes' /\ History'
      BY <1>4 DEF supervisorVars, SupInv, SupervisorTypes, History, Serving
    <2>2. Handling' /\ Starting' /\ Over'
      BY <1>4 DEF supervisorVars, SupInv, Handling, Starting, Over, Pid
    <2>3. Stopping'
      BY <1>4 DEF supervisorVars, SupInv, Stopping, StopsFrom
    <2>4. Together' /\ WatchedInv'
      BY <1>4 DEF supervisorVars, SupInv, Together, Serving, WatchedInv, Pid
    <2> QED  BY <2>1, <2>2, <2>3, <2>4 DEF SupInv
  <1> QED  BY <1>1, <1>2, <1>3, <1>4 DEF SupervisorNext

LEMMA SupInvAlways ==
    ASSUME SupervisorConstants
    PROVE  SupervisorSpec => []SupInv
  <1> QED  BY SupInvInit, SupInvStep, PTL DEF SupervisorSpec

\* For every set of children: a supervisor that waits has, for each child it
\* counts as alive, a monitor on its Done channel or an event to come, so
\* that no exit goes unnoticed (startChild, and the monitor that
\* handleChildExit arms again for a child that only waits for its quota).
THEOREM ChildrenWatched == ASSUME SupervisorConstants PROVE SupervisorSpec => []Watched
  <1>1. SupInv => Watched
    BY DEF SupInv, WatchedInv, Watched
  <1> QED  BY <1>1, SupInvAlways, PTL

\* For every set of children: when a supervisor waits for events, the children
\* of one_for_all have been started equally often, and under rest_for_one no
\* child less often than one before it, whatever starts, restarts and
\* failures there were (restartOneForAll, restartRestForOne).
THEOREM RestartedTogether == ASSUME SupervisorConstants PROVE SupervisorSpec => []StrategyKept
  <1>1. SupInv => StrategyKept
    BY DEF SupInv, Together, Serving, StrategyKept
  <1> QED  BY <1>1, SupInvAlways, PTL

-----------------------------------------------------------------------------
(* No child is at work twice.                                               *)

\* Incarnations that are over stay so while processes only age.
LEMMA EndedAges ==
    ASSUME SupervisorConstants, SupInv, EndedInv, Aging, UNCHANGED gen,
           strays \subseteq strays',
           \A i \in Children : alive[i] => alive'[i],
           \A i \in Children : step = "await" /\ cursor = i =>
                (step' = "await" /\ cursor' = i) \/ Gone(Pid(i))',
           \A e \in exitCh' : e \in exitCh,
           step' \notin {"gate", "regate"}
    PROVE  EndedInv'
  <1> USE DEF SupervisorConstants, SupInv, SupervisorTypes, EndedInv, Aging, Gone
  <1>1. \A p \in Pids : done'[p] \in {"ok", "fail"} => state'[p] \in Off
    OBVIOUS
  <1>2. \A e \in exitCh' : e.exit \in {"ok", "fail"} => state'[e.pid] \in Off
    BY EventFacts
  <1>3. \A i \in Children : \A g \in 1..MaxGen : g < gen[i] => Gone(<<i, g>>)'
    <2>1. \A i \in Children : \A g \in 1..MaxGen : <<i, g>> \in Pids  BY DEF Pids
    <2> QED  BY <2>1
  <1>4. ASSUME NEW i \in Children, gen[i] > 0, ~alive'[i]
        PROVE  Gone(Pid(i))' \/ (step' = "await" /\ cursor' = i)
    <2>1. Pid(i) \in Pids  BY <1>4 DEF Pid, Pids
    <2>2. Pid(i)' = Pid(i)  BY DEF Pid
    <2> QED  BY <1>4, <2>1, <2>2
  <1> QED  BY <1>1, <1>2, <1>3, <1>4 DEF Pid

LEMMA EndedStill ==
    ASSUME SupervisorConstants, SupInv, EndedInv,
           UNCHANGED <<state, done, gen, alive, exitCh, strays>>, step # "await",
           step' \notin {"gate", "regate"}
    PROVE  EndedInv'
  <1>1. Aging  BY DEF SupInv, SupervisorTypes, Aging
  <1> QED  BY <1>1, EndedAges

LEMMA EndedStart ==
    ASSUME SupervisorConstants, SupInv, EndedInv, StartNext
    PROVE  EndedInv'
  <1> USE DEF SupervisorConstants, SupInv, SupervisorTypes
  <1>a. /\ step = "boot" /\ step' = "boot" /\ cursor \in Children
        /\ gen[cursor] \in 0..MaxGen /\ gen[cursor] < MaxGen /\ ~alive[cursor]
        /\ UNCHANGED <<done, exitCh, strays>>
    BY DEF StartNext, Starting
  <1>b. /\ \A i \in Children : gen'[i] = IF i = cursor THEN gen[i] + 1 ELSE gen[i]
        /\ alive'[cursor] /\ \A i \in Children : i # cursor => (alive'[i] <=> alive[i])
        /\ \A p \in Pids : p # <<cursor, gen[cursor] + 1>> => state'[p] = state[p]
    <2>1. \A i \in Children : gen'[i] = IF i = cursor THEN gen[i] + 1 ELSE gen[i]
      BY <1>a DEF StartNext, Spawned
    <2>2. alive'[cursor] /\ \A i \in Children : i # cursor => (alive'[i] <=> alive[i])
      BY <1>a DEF StartNext, Spawned
    <2>3. \A p \in Pids : p # <<cursor, gen[cursor] + 1>> => state'[p] = state[p]
      BY <1>a DEF StartNext, Spawned
    <2> QED  BY <2>1, <2>2, <2>3
  <1>c. \A p \in Pids : state[p] \in Off => state'[p] = state[p]
    <2>1. state[<<cursor, gen[cursor] + 1>>] = "absent"
      BY <1>a DEF History
    <2> QED  BY <1>b, <2>1 DEF Off
  <1>1. \A p \in Pids : done'[p] \in {"ok", "fail"} => state'[p] \in Off
    BY <1>a, <1>c DEF EndedInv
  <1>2. \A e \in exitCh' : e.exit \in {"ok", "fail"} => state'[e.pid] \in Off
    BY <1>a, <1>c, EventFacts DEF EndedInv
  <1>3. ASSUME NEW i \in Children, NEW g \in 1..MaxGen, g < gen'[i]
        PROVE  Gone(<<i, g>>)'
    <2>1. <<i, g>> \in Pids /\ gen[i] \in Int  BY DEF Pids
    <2>2. CASE g < gen[i]
      BY <1>a, <1>c, <2>1, <2>2 DEF EndedInv, Gone
    <2>3. CASE i = cursor /\ g = gen[i]
      BY <1>a, <1>c, <2>1, <2>3 DEF EndedInv, Gone, Pid
    <2> QED  BY <1>b, <1>3, <2>1, <2>2, <2>3
  <1>4. ASSUME NEW i \in Children, gen'[i] > 0, ~alive'[i]
        PROVE  Gone(<<i, gen[i]>>)'
    <2>1. i # cursor /\ gen'[i] = gen[i] /\ ~alive[i] /\ gen[i] \in 1..MaxGen
      BY <1>b, <1>4
    <2>2. Pid(i) \in Pids /\ Pid(i) = <<i, gen[i]>>  BY <2>1 DEF Pid, Pids
    <2>3. Gone(Pid(i))
      BY <1>a, <2>1 DEF EndedInv
    <2> QED  BY <1>a, <1>c, <2>1, <2>2, <2>3 DEF Gone
  <1> QED  BY <1>a, <1>1, <1>2, <1>3, <1>4 DEF EndedInv, Pid

LEMMA EndedReceive ==
    ASSUME SupervisorConstants, SupInv, EndedInv, NEW e \in exitCh, Receive(e)
    PROVE  EndedInv'
  <1>1. /\ UNCHANGED <<state, done, gen, alive, cursor, strays>> /\ exitCh' \subseteq exitCh
        /\ event' = e /\ step = "loop" /\ step' \in {"settle", "gate"}
    BY DEF Receive
  <1> QED  BY <1>1 DEF EndedInv, Gone, Pid

\* The child is given up at the gate for a final exit, or because it is neither
\* running nor suspended for its quota at the second look, or as a stray.
LEMMA EndedGate ==
    ASSUME SupervisorConstants, SupInv, EndedInv, Gate \/ GateAgain
    PROVE  EndedInv'
  <1> USE DEF SupervisorConstants, SupInv, SupervisorTypes
  <1>a. /\ event \in Events /\ event.pid \in Pids /\ event.pid[1] \in Children
        /\ event.pid = Pid(event.pid[1]) /\ event.exit \in Exits
        /\ UNCHANGED <<state, done, gen, exitCh, cursor, event>>
        /\ step \in {"gate", "regate"}
    BY EventFacts DEF Gate, GateAgain, Handling
  <1>1. state[event.pid] # "absent"
    <2>1. gen[event.pid[1]] \in 1..MaxGen
      BY <1>a DEF Handling, History
    <2>2. event.pid = <<event.pid[1], gen[event.pid[1]]>>
      BY <1>a DEF Pid
    <2>3. ~(gen[event.pid[1]] > gen[event.pid[1]])
      BY <2>1
    <2> QED  BY <1>a, <2>1, <2>2, <2>3 DEF History
  <1>b. strays \subseteq strays'
    BY DEF Gate, GateAgain, ToExit, Rearm, GivenUp
  <1>c. \A i \in Children : Pid(i)' = Pid(i)
    BY <1>a DEF Pid
  <1>d. /\ \A p \in Pids : done'[p] \in {"ok", "fail"} => state'[p] \in Off
        /\ \A e \in exitCh' : e.exit \in {"ok", "fail"} => state'[e.pid] \in Off
        /\ \A i \in Children : \A g \in 1..MaxGen : g < gen'[i] => Gone(<<i, g>>)'
    BY <1>a, <1>b DEF EndedInv, Gone
  <1>e. ASSUME NEW i \in Children, gen[i] > 0, ~alive[i]  PROVE Gone(Pid(i))'
    BY <1>a, <1>b, <1>c, <1>e DEF EndedInv, Gone
  <1>2. CASE ToExit
    <2>1. Gone(event.pid)'
      <3>1. CASE "paused" \in {event.exit, state[event.pid]}
        BY <1>2, <1>a, <3>1 DEF ToExit, GivenUp, Gone, Off
      <3>2. CASE step = "gate" /\ event.exit # "paused"
        <4>1. event.exit # "quota"
          BY <1>2, <3>2 DEF Gate, GateAgain, ToExit, Rearm
        <4> QED  BY <1>a, <3>2, <4>1 DEF EndedInv, Gone, Exits
      <3>3. CASE step = "regate" /\ state[event.pid] # "paused"
        <4>1. state[event.pid] # "quota"
          BY <1>2, <3>3 DEF Gate, GateAgain, ToExit, Rearm
        <4> QED  BY <1>a, <1>1, <3>3, <4>1 DEF EndedInv, States, Off, Gone
      <3> QED  BY <1>a, <3>1, <3>2, <3>3
    <2>2. ASSUME NEW i \in Children, gen[i] > 0, ~alive'[i]  PROVE Gone(Pid(i))'
      <3>1. i = event.pid[1] \/ ~alive[i]
        BY <1>2, <2>2 DEF ToExit
      <3> QED  BY <1>a, <1>c, <1>e, <2>1, <2>2, <3>1
    <2>3. step' = "exited"
      BY <1>2 DEF ToExit
    <2> QED  BY <1>a, <1>d, <2>2, <2>3 DEF EndedInv
  <1>3. CASE Rearm
    <2>1. UNCHANGED alive /\ step' = "settle"
      BY <1>3 DEF Rearm
    <2> QED  BY <1>a, <1>d, <1>e, <2>1 DEF EndedInv
  <1>4. CASE /\ step' = "regate" /\ UNCHANGED <<armed, alive, strays>>
             /\ step = "gate" /\ state[event.pid] # "running"
    BY <1>a, <1>d, <1>e, <1>4 DEF EndedInv
  <1> QED  BY <1>2, <1>3, <1>4 DEF Gate, GateAgain

LEMMA EndedStop ==
    ASSUME SupervisorConstants, SupInv, EndedInv, StopSignal \/ StopWait \/ StopTimeout
    PROVE  EndedInv'
  <1> USE DEF SupervisorConstants, SupInv, SupervisorTypes
  <1>1. CASE StopSignal
    <2>1. CASE ~alive[cursor]
      BY <1>1, <2>1, EndedStill DEF StopSignal, chanVars
    <2>2. CASE alive[cursor]
      <3>1. /\ cursor \in Children /\ step = "stop" /\ step' = "await"
            /\ UNCHANGED <<exitCh, gen, cursor, event, strays>>
            /\ \A i \in Children : i # cursor => (alive'[i] <=> alive[i])
        BY <1>1, <2>2 DEF StopSignal, Stopping, chanVars
      <3>2. Pid(cursor) \in Pids
        BY <2>2, <3>1 DEF History, Pid, Pids
      <3>3. Aging
        <4>1. CASE state[Pid(cursor)] \in {"quota", "paused"}
          BY <1>1, <2>2, <3>2, <4>1, KilledAges DEF StopSignal
        <4>2. CASE UNCHANGED <<state, done>>
          BY <4>2 DEF Aging
        <4> QED  BY <1>1, <2>2, <4>1, <4>2 DEF StopSignal
      <3>4. \A p \in Pids : done'[p] \in {"ok", "fail"} => state'[p] \in Off
        BY <3>3 DEF Aging, EndedInv
      <3>5. \A e \in exitCh' : e.exit \in {"ok", "fail"} => state'[e.pid] \in Off
        BY <3>1, <3>3, EventFacts DEF Aging, EndedInv
      <3>6. \A i \in Children : \A g \in 1..MaxGen : g < gen[i] => Gone(<<i, g>>)'
        <4>1. \A i \in Children : \A g \in 1..MaxGen : <<i, g>> \in Pids  BY DEF Pids
        <4> QED  BY <3>1, <3>3, <4>1 DEF Aging, EndedInv, Gone
      <3>7. ASSUME NEW i \in Children, i # cursor, gen[i] > 0, ~alive'[i]
            PROVE  Gone(Pid(i))'
        <4>1. Pid(i) \in Pids /\ Pid(i)' = Pid(i)  BY <3>1, <3>7 DEF Pid, Pids
        <4>2. Gone(Pid(i))
          BY <3>1, <3>7 DEF EndedInv
        <4> QED  BY <3>1, <3>3, <4>1, <4>2 DEF Aging, Gone
      <3> QED  BY <3>1, <3>4, <3>5, <3>6, <3>7 DEF EndedInv
    <2> QED  BY <2>1, <2>2
  <1>2. CASE StopWait \/ StopTimeout
    <2>1. /\ step = "await" /\ step' = "stop" /\ cursor \in Children /\ gen[cursor] \in 1..MaxGen
          /\ UNCHANGED <<done, exitCh, gen, alive>> /\ GivenUp(Pid(cursor))
      BY <1>2 DEF StopWait, StopTimeout, Stopping, chanVars
    <2>2. Pid(cursor) \in Pids /\ Pid(cursor)' = <<cursor', gen[cursor']>>
      BY <2>1 DEF Pid, Pids
    <2>3. Aging
      BY <1>2, <2>2, ReapedAges DEF StopWait, StopTimeout, Aging
    <2>4. strays \subseteq strays' /\ (state[Pid(cursor)] \in Off \/ Pid(cursor) \in strays')
      BY <2>1 DEF GivenUp, Off
    <2>5. ASSUME NEW i \in Children, cursor = i  PROVE Gone(Pid(i))'
      <3>1. Pid(i)' = Pid(cursor)  BY <2>1, <2>5 DEF Pid
      <3> QED  BY <2>2, <2>3, <2>4, <3>1 DEF Aging, Gone
    <2> QED  BY <2>1, <2>3, <2>4, <2>5, EndedAges
  <1> QED  BY <1>1, <1>2

LEMMA EndedMonitor ==
    ASSUME SupervisorConstants, SupInv, EndedInv, NEW p \in Pids, MonitorReceive(p)
    PROVE  EndedInv'
  <1>1. /\ done[p] \in Exits
        /\ exitCh' = exitCh \union {[pid |-> p, exit |-> done[p]]}
        /\ \A q \in Pids : done'[q] \in {done[q], "none"}
        /\ UNCHANGED <<state, gen, alive, step, cursor, event, strays>>
    BY DEF MonitorReceive, SupInv, SupervisorTypes, supVars
  <1>2. done[p] \in {"ok", "fail"} => state[p] \in Off
    BY <1>1 DEF EndedInv
  <1>3. \A e \in exitCh' : e.exit \in {"ok", "fail"} => state[e.pid] \in Off
    BY <1>1, <1>2 DEF EndedInv
  <1>4. \A q \in Pids : done'[q] \in {"ok", "fail"} => state[q] \in Off
    BY <1>1 DEF EndedInv
  <1> QED  BY <1>1, <1>3, <1>4 DEF EndedInv, Gone, Pid

LEMMA EndedLife ==
    ASSUME SupervisorConstants, ~WakesInGate, SupInv, EndedInv, NEW p \in Pids, Life(p)
    PROVE  EndedInv'
  <1> USE DEF SupervisorConstants, SupInv, SupervisorTypes
  <1>a. UNCHANGED <<exitCh, gen, alive, step, cursor, event, strays>>
    BY DEF Life, Exit, Suspend, Wake, KilledWhileSuspended, chanVars, supVars
  <1>b. Aging
    BY LifeAges
  <1>1. \A q \in Pids : done'[q] \in {"ok", "fail"} => state'[q] \in Off
    BY <1>b DEF Aging, EndedInv
  <1>2. \A e \in exitCh : e.exit \in {"ok", "fail"} => state'[e.pid] \in Off
    BY <1>b, EventFacts DEF Aging, EndedInv
  <1>3. step = "gate" /\ event.exit \in {"ok", "fail"} => state'[event.pid] \in Off
    BY <1>b, EventFacts DEF Aging, EndedInv, Handling
  <1>4. step = "regate" => state'[event.pid] # "running"
    <2> SUFFICES ASSUME step = "regate"  PROVE state'[event.pid] # "running"
      OBVIOUS
    <2>1. event.pid \in Pids /\ state[event.pid] # "running"
      BY EventFacts DEF Handling, EndedInv
    <2>2. \A q \in Pids : state'[q] = "running" => state[q] = "running"
      BY DEF Life, Exit, Suspend, Wake, KilledWhileSuspended, KillSuspendedChild, Become
    <2> QED  BY <2>1, <2>2
  <1>5. \A i \in Children : \A g \in 1..MaxGen : g < gen[i] => Gone(<<i, g>>)'
    <2>1. \A i \in Children : \A g \in 1..MaxGen : <<i, g>> \in Pids  BY DEF Pids
    <2> QED  BY <1>a, <1>b, <2>1 DEF Aging, EndedInv, Gone
  <1>6. ASSUME NEW i \in Children, gen[i] > 0, ~alive[i]
        PROVE  Gone(Pid(i))' \/ (step = "await" /\ cursor = i)
    <2>1. Pid(i) \in Pids /\ Pid(i)' = Pid(i)  BY <1>a, <1>6 DEF Pid, Pids
    <2>2. Gone(Pid(i)) \/ (step = "await" /\ cursor = i)
      BY <1>6 DEF EndedInv
    <2> QED  BY <1>a, <1>b, <2>1, <2>2 DEF Aging, Gone
  <1> QED  BY <1>a, <1>1, <1>2, <1>3, <1>4, <1>5, <1>6 DEF EndedInv

LEMMA EndedInit ==
    ASSUME SupervisorConstants, SupervisorInit
    PROVE  EndedInv
  BY DEF SupervisorConstants, SupervisorInit, EndedInv

LEMMA EndedStep ==
    ASSUME SupervisorConstants, ~WakesInGate, SupInv, EndedInv, [SupervisorNext]_supervisorVars
    PROVE  EndedInv'
  <1> USE DEF SupInv
  <1>1. CASE StartedAll \/ StartFails \/ Restart \/ GiveUp \/ Settle \/ ObserveCancel
    <2>1. /\ UNCHANGED <<state, done, gen, alive, exitCh, strays>> /\ step # "await"
          /\ step' \notin {"gate", "regate"}
      BY <1>1 DEF StartedAll, StartFails, Restart, GiveUp, Settle, ObserveCancel, StopThen, chanVars
    <2> QED  BY <2>1, EndedStill
  <1>2. CASE NoRestart \/ Migrate
    <2>1. /\ event.pid \in Pids /\ Reaped(event.pid) /\ step = "exited" /\ step' = "settle"
          /\ UNCHANGED <<done, gen, alive, exitCh, strays>>
      BY <1>2, EventFacts DEF NoRestart, Migrate, Handling, chanVars
    <2>2. Aging
      BY <2>1, ReapedAges
    <2> QED  BY <2>1, <2>2, EndedAges
  <1>3. CASE StoppedAll
    <2>1. /\ step = "stop" /\ step' \in {"over", "boot"} /\ UNCHANGED <<done, gen, alive, exitCh, strays>>
      BY <1>3 DEF StoppedAll, chanVars
    <2>2. Aging
      <3>1. CASE next = "finish"
        BY <1>3, <3>1 DEF StoppedAll, Aging, SupervisorTypes
      <3>2. CASE next # "finish"
        <4>1. event.pid \in Pids /\ Reaped(event.pid)
          BY <1>3, <2>1, <3>2, EventFacts DEF StoppedAll, Handling, Stopping
        <4> QED  BY <2>1, <4>1, ReapedAges
      <3> QED  BY <3>1, <3>2
    <2> QED  BY <2>1, <2>2, EndedAges
  <1>4. CASE Sup
    BY <1>1, <1>2, <1>3, <1>4, EndedStart, EndedReceive, EndedGate, EndedStop DEF Sup
  <1>5. CASE Monitor
    BY <1>5, EndedMonitor DEF Monitor
  <1>6. CASE \E p \in Pids : Life(p)
    BY <1>6, EndedLife
  <1>7. CASE UNCHANGED supervisorVars
    BY <1>7 DEF supervisorVars, EndedInv, Gone, Pid
  <1> QED  BY <1>4, <1>5, <1>6, <1>7 DEF SupervisorNext

LEMMA EndedAlways ==
    ASSUME SupervisorConstants, ~WakesInGate
    PROVE  SupervisorSpec => [](SupInv /\ EndedInv)
  <1>1. SupervisorInit => SupInv /\ EndedInv
    BY SupInvInit, EndedInit
  <1>2. SupInv /\ EndedInv /\ [SupervisorNext]_supervisorVars => (SupInv /\ EndedInv)'
    BY SupInvStep, EndedStep
  <1> QED  BY <1>1, <1>2, PTL DEF SupervisorSpec

\* For every set of children: a supervised child never has two incarnations
\* at work, however exits, suspensions, wakes and restarts interleave, other
\* than strays, unless it is woken between the two reads of its state in
\* handleChildExit.
THEOREM OneAtWork ==
    ASSUME SupervisorConstants, ~WakesInGate PROVE SupervisorSpec => []OneIncarnation
  <1>1. ASSUME SupInv, EndedInv  PROVE OneIncarnation
    <2> SUFFICES ASSUME NEW i \in Children, NEW g \in 1..MaxGen, AtWork(<<i, g>>)
                 PROVE  g = gen[i]
      BY DEF OneIncarnation
    <2>1. gen[i] \in Int /\ g \in Int /\ (state[<<i, g>>] = "absent" <=> g > gen[i])
          /\ (g < gen[i] => Gone(<<i, g>>))
      BY <1>1 DEF SupInv, EndedInv, History, SupervisorTypes, SupervisorConstants
    <2> QED  BY <2>1 DEF AtWork, Gone, Off
  <1> QED  BY <1>1, EndedAlways, PTL

\* For every set of children: under one_for_all and rest_for_one a restart
\* starts its first child when all that it stopped is no longer at work or has
\* been given up as a stray (restartOneForAll, restartRestForOne: stopChild
\* waits for each child).
THEOREM RestartIsClean ==
    ASSUME SupervisorConstants, ~WakesInGate PROVE SupervisorSpec => []CleanRestart
  <1>1. ASSUME SupInv, EndedInv  PROVE CleanRestart
    <2> SUFFICES ASSUME step = "boot", next = "restarted", NEW i \in Children,
                        ~alive[i] \/ (i >= cursor /\ i <= upto)
                 PROVE  ~AtWork(Pid(i))
      BY DEF CleanRestart
    <2>1. ~alive[i] /\ gen[i] > 0
      BY <1>1 DEF SupInv, Starting, History, SupervisorConstants
    <2> QED  BY <1>1, <2>1 DEF EndedInv, Gone, Off, AtWork
  <1> QED  BY <1>1, EndedAlways, PTL

\* For every set of children: a supervisor that is over leaves no child at
\* work behind but strays (shutdownAll, shutdownStarted), except after a failed spawn in
\* restartOneForOne, which stops nothing.
THEOREM NobodyLeftBehind ==
    ASSUME SupervisorConstants, ~WakesInGate PROVE SupervisorSpec => []NoneLeftBehind
  <1>1. ASSUME SupInv, EndedInv  PROVE NoneLeftBehind
    <2> SUFFICES ASSUME step = "over", next # "abandon", NEW i \in Children, NEW g \in 1..MaxGen
                 PROVE  ~AtWork(<<i, g>>)
      BY DEF NoneLeftBehind, Pids
    <2>1. /\ ~alive[i] /\ gen[i] \in 0..MaxGen /\ g \in Int
          /\ (state[<<i, g>>] = "absent" <=> g > gen[i])
          /\ (g < gen[i] => Gone(<<i, g>>))
          /\ (gen[i] > 0 => Gone(<<i, gen[i]>>))
      BY <1>1 DEF SupInv, EndedInv, History, Over, SupervisorTypes, Pid, SupervisorConstants
    <2> QED  BY <2>1 DEF AtWork, Gone, Off
  <1> QED  BY <1>1, EndedAlways, PTL
=============================================================================
