-------------------------- MODULE QuotaWakeProofs ---------------------------
(***************************************************************************)
(* One agent is driven by one reasoning loop however suspends, wakes,      *)
(* resumes, kills and crashes interleave, but for a loop whose process a   *)
(* leaving goroutine has ended; a wake never ends a process; a failed wake *)
(* waits for its backoff; a saved suspension survives a crash.  For any    *)
(* number of process objects and of goroutines leaving them, and any       *)
(* length of window and backoff.                                           *)
(***************************************************************************)
EXTENDS QuotaWake, TLAPS

Locked == {"probe", "unsuspend", "reopen", "failed", "postpone", "persist"}
States == {"free", "running", "suspended", "dead"}
Instants == {w \in Int : w >= Never}

(* The typing the prover needs; "drivers" has no bound of its own.          *)
QuotaTypes ==
    /\ table \in Objects \union {NoObject}
    /\ st \in [Objects -> States]
    /\ wakeIn \in [Objects -> Instants]
    /\ reason \in [Objects -> BOOLEAN]
    /\ drivers \in [Objects -> Nat]
    /\ leaving \in [Objects -> [Phases -> Nat]]
    /\ cutShort \in [Objects -> BOOLEAN]
    /\ scan \in {"idle", "collected"} \union Locked
    /\ scanned \in Objects \union {NoObject}
    /\ age \in 0..Backoff
    /\ disk \in [st : States, wakeIn : Instants, reason : BOOLEAN]
    /\ writing \in BOOLEAN
    /\ overtaken \in BOOLEAN
    /\ unsaved \in BOOLEAN
    /\ failedAgo \in 0..Backoff
    /\ up \in BOOLEAN
    /\ user \in {"idle", "reopen", "replace"}

(* resumeMu excludes the scanner's wake and the user's resumes from each    *)
(* other, and only its holder changes what the table names.                 *)
MutexInv ==
    /\ resumeMu = "scan" <=> scan \in Locked
    /\ resumeMu = "user" <=> user # "idle"
    /\ scan \in Locked => scanned \in Objects /\ table = scanned
    /\ scan = "collected" => scanned \in Objects
    /\ scan = "reopen" => st[scanned] = "running" \/ cutShort[scanned]
    /\ scan = "failed" => st[scanned] # "running" /\ (st[scanned] = "suspended" => reason[scanned])
    /\ user = "reopen" => table \in Objects /\ (st[table] = "running" \/ cutShort[table])
    /\ user = "replace" => table = NoObject
    /\ ~up => table = NoObject /\ scan = "idle" /\ user = "idle"

(* Only the object in the table runs, and what was cut short stays ended.   *)
ObjectInv ==
    \A o \in Objects :
        /\ st[o] = "running" => table = o
        /\ cutShort[o] => st[o] = "dead"
        /\ ~up => st[o] = "free"

(* Between an unsuspend and the reopening nobody drives the object yet.     *)
HandOver ==
    scan = "reopen" \/ user = "reopen" =>
        /\ drivers[table] = 0
        /\ \A o \in Objects : drivers[o] > 0 => cutShort[o]

WakeInv == QuotaTypes /\ MutexInv /\ ObjectInv /\ OneDriver /\ HandOver

-----------------------------------------------------------------------------
(* While nothing runs in the table only loops that were cut short go on.    *)
LEMMA NoDriver ==
    ASSUME WakeInv, table = NoObject \/ (table \in Objects /\ st[table] # "running"),
           NEW o \in Objects, drivers[o] > 0
    PROVE  cutShort[o] /\ st[o] = "dead"
  BY QuotaConstants DEF WakeInv, QuotaTypes, OneDriver, ObjectInv

LEMMA InstantsKnown ==
    /\ Never \in Instants /\ Window \in Instants
    /\ \A a \in 0..Backoff : Backoff - a \in Instants
    /\ \A w \in Instants : Down(w) \in Instants
    /\ \A a \in 0..Backoff : Older(a) \in 0..Backoff
  BY QuotaConstants DEF Instants, Never, Down, Older

PutTypes ==
    /\ st' \in [Objects -> States]
    /\ wakeIn' \in [Objects -> Instants]
    /\ reason' \in [Objects -> BOOLEAN]

LEMMA PutKeepsTypes ==
    ASSUME QuotaTypes, NEW o, NEW s \in States, NEW q \in BOOLEAN, Put(o, s, Never, q)
    PROVE  PutTypes
  <1>1. Never \in Instants  BY InstantsKnown
  <1> QED  BY <1>1 DEF QuotaTypes, Put, PutTypes

LEMMA InitWakeInv == QuotaInit => WakeInv
  <1> SUFFICES ASSUME QuotaInit PROVE WakeInv  OBVIOUS
  <1>1. PICK o \in Objects :
            /\ table = o
            /\ st = [p \in Objects |-> IF p = o THEN "running" ELSE "free"]
            /\ drivers = [p \in Objects |-> IF p = o THEN 1 ELSE 0]
    BY DEF QuotaInit
  <1>2. QuotaTypes
    <2>1. drivers \in [Objects -> Nat]  BY <1>1
    <2>2. failedAgo \in 0..Backoff /\ age \in 0..Backoff  BY QuotaConstants DEF QuotaInit
    <2>3. wakeIn \in [Objects -> Instants]  BY InstantsKnown DEF QuotaInit
    <2>4. disk \in [st : States, wakeIn : Instants, reason : BOOLEAN]
      BY InstantsKnown DEF QuotaInit, Running, States
    <2>5. leaving \in [Objects -> [Phases -> Nat]]  BY DEF QuotaInit, Nobody
    <2>6. st \in [Objects -> States]  BY <1>1 DEF States
    <2> QED
      BY <1>1, <2>1, <2>2, <2>3, <2>4, <2>5, <2>6 DEF QuotaTypes, QuotaInit, Locked
  <1>3. MutexInv  BY DEF MutexInv, QuotaInit, Locked
  <1>4. OneDriver /\ ObjectInv  BY <1>1 DEF OneDriver, ObjectInv, QuotaInit
  <1>5. HandOver  BY DEF HandOver, QuotaInit
  <1> QED  BY <1>2, <1>3, <1>4, <1>5 DEF WakeInv

(* The loop suspends its process, or ends it.                               *)
LEMMA LoopStep ==
    ASSUME WakeInv, NEW o \in Objects, QuotaSuspend(o) \/ Finishes(o)
    PROVE  WakeInv'
  <1> USE DEF WakeInv
  <1>1. drivers[o] = 1 /\ drivers' = [drivers EXCEPT ![o] = 0]
    <2>1. drivers[o] > 0 /\ drivers' = [drivers EXCEPT ![o] = drivers[o] - 1]
      BY DEF QuotaSuspend, Finishes
    <2>2. drivers[o] = 1  BY <2>1 DEF OneDriver
    <2> QED  BY <2>1, <2>2
  <1>2. st[o] = "running" => table = o /\ scan # "reopen" /\ user # "reopen"
    BY <1>1 DEF HandOver, ObjectInv
  <1>3. PICK s \in {"suspended", "dead"}, w \in Instants, q \in BOOLEAN :
            IF st[o] = "running"
            THEN /\ st' = [st EXCEPT ![o] = s]
                 /\ wakeIn' = [wakeIn EXCEPT ![o] = w]
                 /\ reason' = [reason EXCEPT ![o] = q]
            ELSE UNCHANGED <<st, wakeIn, reason>>
    <2>1. CASE QuotaSuspend(o)
      <3>1. PICK w \in {Never, Window} : wakeIn' = [wakeIn EXCEPT ![o] = w]
        BY <2>1 DEF QuotaSuspend
      <3>2. w \in Instants  BY <3>1, InstantsKnown
      <3>3. reason' = [reason EXCEPT ![o] = reason[o]] /\ reason[o] \in BOOLEAN
        BY <2>1 DEF QuotaSuspend, QuotaTypes
      <3> QED  BY <2>1, <3>1, <3>2, <3>3 DEF QuotaSuspend
    <2>2. CASE Finishes(o)  BY <2>2, InstantsKnown DEF Finishes, Put
    <2> QED  BY <2>1, <2>2
  <1>4. /\ unsaved' \in BOOLEAN
        /\ failedAgo' \in 0..Backoff
        /\ leaving' \in [Objects -> [Phases -> Nat]]
        /\ UNCHANGED <<table, cutShort, threadVars, disk, overtaken, worldVars>>
    <2>1. CASE QuotaSuspend(o)
      <3>1. leaving[o] \in [Phases -> Nat]  BY DEF QuotaTypes
      <3>2. [leaving[o] EXCEPT !["stamp"] = @ + 1] \in [Phases -> Nat]  BY <3>1 DEF Phases
      <3>3. leaving' = [leaving EXCEPT ![o] = [leaving[o] EXCEPT !["stamp"] = @ + 1]]
        BY <2>1 DEF QuotaSuspend
      <3>4. leaving' \in [Objects -> [Phases -> Nat]]  BY <3>2, <3>3 DEF QuotaTypes
      <3> QED  BY <2>1, <3>4, QuotaConstants DEF QuotaSuspend, QuotaTypes
    <2>2. CASE Finishes(o)  BY <2>2 DEF Finishes, QuotaTypes
    <2> QED  BY <2>1, <2>2
  <1> USE <1>4 DEF threadVars, worldVars
  <1>5. QuotaTypes'
    <2>1. st' \in [Objects -> States] /\ wakeIn' \in [Objects -> Instants]
          /\ reason' \in [Objects -> BOOLEAN] /\ drivers' \in [Objects -> Nat]
      BY <1>1, <1>3 DEF QuotaTypes, States
    <2> QED  BY <2>1 DEF QuotaTypes
  <1>6. MutexInv'  BY <1>2, <1>3 DEF MutexInv, QuotaTypes
  <1>7. ObjectInv'  BY <1>3 DEF ObjectInv, QuotaTypes
  <1>8. \A p \in Objects \ {o} : drivers'[p] = drivers[p] /\ st'[p] = st[p]
    BY <1>1, <1>3 DEF QuotaTypes
  <1>9. drivers'[o] = 0  BY <1>1 DEF QuotaTypes
  <1>10. OneDriver'  BY <1>8, <1>9 DEF OneDriver
  <1>11. HandOver'
    <2> SUFFICES ASSUME scan = "reopen" \/ user = "reopen" PROVE HandOver'  BY DEF HandOver
    <2>1. table \in Objects  BY DEF MutexInv, Locked
    <2> QED  BY <1>8, <1>9, <2>1 DEF HandOver
  <1> QED  BY <1>5, <1>6, <1>7, <1>10, <1>11

(* The goroutine that suspended a process leaves it.                        *)
LEMMA LeaveStep == ASSUME WakeInv, NEW o \in Objects, Leave(o) PROVE WakeInv'
  <1> USE DEF WakeInv
  <1>1. leaving' \in [Objects -> [Phases -> Nat]]
    <2>1. PICK f \in [Phases -> Nat] : leaving' = [leaving EXCEPT ![o] = f]
      <3>0. leaving[o] \in [Phases -> Nat]  BY DEF QuotaTypes
      <3>1. CASE Stamp(o)
        <4>1. [leaving[o] EXCEPT !["stamp"] = @ - 1, !["save"] = @ + 1] \in [Phases -> Nat]
          BY <3>0, <3>1 DEF Stamp, Phases
        <4> QED  BY <3>1, <4>1 DEF Stamp
      <3>2. CASE SaveSuspension(o)
        <4>1. [leaving[o] EXCEPT !["save"] = @ - 1, !["defer"] = @ + 1] \in [Phases -> Nat]
          BY <3>0, <3>2 DEF SaveSuspension, Phases
        <4> QED  BY <3>2, <4>1 DEF SaveSuspension
      <3>3. CASE Defer(o)
        <4>1. [leaving[o] EXCEPT !["defer"] = @ - 1] \in [Phases -> Nat]
          BY <3>0, <3>3 DEF Defer, Phases
        <4> QED  BY <3>3, <4>1 DEF Defer
      <3> QED  BY <3>1, <3>2, <3>3 DEF Leave
    <2> QED  BY <2>1 DEF QuotaTypes
  <1>2. CASE Stamp(o)
    <2> USE <1>2 DEF Stamp, threadVars, worldVars
    <2>1. QuotaTypes'  BY <1>1 DEF QuotaTypes
    <2>2. MutexInv'  BY DEF MutexInv, QuotaTypes
    <2>3. ObjectInv' /\ OneDriver' /\ HandOver'  BY DEF ObjectInv, OneDriver, HandOver
    <2> QED  BY <2>1, <2>2, <2>3
  <1>3. CASE SaveSuspension(o)
    <2> USE <1>3 DEF SaveSuspension, threadVars, worldVars, diskVars, procVars
    <2>1. Info(o) \in [st : States, wakeIn : Instants, reason : BOOLEAN]
      BY DEF QuotaTypes, Info
    <2>2. QuotaTypes'  BY <1>1, <2>1 DEF QuotaTypes
    <2>3. MutexInv'  BY DEF MutexInv
    <2>4. ObjectInv' /\ OneDriver' /\ HandOver'  BY DEF ObjectInv, OneDriver, HandOver
    <2> QED  BY <2>2, <2>3, <2>4
  <1>4. CASE Defer(o)
    <2> USE <1>4 DEF Defer, threadVars, worldVars, procVars
    <2>1. CASE st[o] = "running"
      <3> USE <2>1 DEF Put
      <3>0. PutTypes
        <4>1. "dead" \in States  BY DEF States
        <4> QED  BY <4>1, PutKeepsTypes
      <3>1. QuotaTypes'
        <4>1. cutShort' \in [Objects -> BOOLEAN] /\ unsaved' \in BOOLEAN  BY DEF QuotaTypes
        <4> HIDE DEF Put
        <4> QED  BY <1>1, <3>0, <4>1 DEF QuotaTypes, PutTypes
      <3>2. MutexInv'  BY DEF MutexInv, QuotaTypes
      <3>3. ObjectInv'  BY DEF ObjectInv, QuotaTypes
      <3>4. OneDriver' /\ HandOver'  BY DEF OneDriver, HandOver, QuotaTypes
      <3> QED  BY <3>1, <3>2, <3>3, <3>4
    <2>2. CASE st[o] # "running"
      <3> USE <2>2
      <3>1. QuotaTypes'  BY <1>1 DEF QuotaTypes
      <3>2. MutexInv'  BY DEF MutexInv
      <3>3. ObjectInv' /\ OneDriver' /\ HandOver'  BY DEF ObjectInv, OneDriver, HandOver
      <3> QED  BY <3>1, <3>2, <3>3
    <2> QED  BY <2>1, <2>2
  <1> QED  BY <1>2, <1>3, <1>4 DEF Leave

LEMMA FileStep ==
    ASSUME WakeInv, \/ SaveProcInfo \/ CheckpointWrite \/ DeviceFlips \/ Tick
                    \/ \E o \in Objects : Checkpoint(o)
    PROVE  WakeInv'
  <1> USE DEF WakeInv
  <1>1. UNCHANGED <<table, st, reason, cutShort, drivers, leaving, resumeMu, scan, scanned,
                    user, up>>
    BY DEF SaveProcInfo, Checkpoint, CheckpointWrite, DeviceFlips, Tick, memVars, procVars,
           threadVars, worldVars
  <1> USE <1>1
  <1>2. QuotaTypes'
    <2> USE DEF QuotaTypes, memVars, procVars, threadVars, diskVars, worldVars
    <2>1. CASE SaveProcInfo
      <3>1. table \in Objects  BY <2>1 DEF SaveProcInfo
      <3>2. disk' \in [st : States, wakeIn : Instants, reason : BOOLEAN]
        BY <2>1, <3>1 DEF SaveProcInfo, Info
      <3> QED  BY <2>1, <3>2 DEF SaveProcInfo
    <2>2. CASE \E o \in Objects : Checkpoint(o)  BY <2>2 DEF Checkpoint
    <2>3. CASE CheckpointWrite
      <3>1. disk' \in [st : States, wakeIn : Instants, reason : BOOLEAN]
        BY <2>3, InstantsKnown DEF CheckpointWrite, Running, States
      <3>2. overtaken' \in BOOLEAN  BY <2>3 DEF CheckpointWrite
      <3> QED  BY <2>3, <3>1, <3>2 DEF CheckpointWrite
    <2>4. CASE DeviceFlips  BY <2>4 DEF DeviceFlips
    <2>5. CASE Tick
      <3>1. wakeIn' \in [Objects -> Instants]  BY <2>5, InstantsKnown DEF Tick
      <3>2. disk' \in [st : States, wakeIn : Instants, reason : BOOLEAN]
        BY <2>5, InstantsKnown DEF Tick
      <3>3. failedAgo' \in 0..Backoff /\ age' \in 0..Backoff
        BY <2>5, InstantsKnown, QuotaConstants DEF Tick
      <3> QED  BY <2>5, <3>1, <3>2, <3>3 DEF Tick
    <2> QED  BY <2>1, <2>2, <2>3, <2>4, <2>5
  <1>3. MutexInv'  BY DEF MutexInv
  <1>4. ObjectInv' /\ OneDriver' /\ HandOver'  BY DEF ObjectInv, OneDriver, HandOver
  <1> QED  BY <1>2, <1>3, <1>4

LEMMA KillStep == WakeInv /\ KillWhileSuspended => WakeInv'
  <1> SUFFICES ASSUME WakeInv, KillWhileSuspended PROVE WakeInv'  OBVIOUS
  <1> USE DEF WakeInv, KillWhileSuspended, Put, threadVars, worldVars
  <1>1. table \in Objects  BY DEF QuotaTypes
  <1>2. QuotaTypes'  BY <1>1, InstantsKnown DEF QuotaTypes, States
  <1>3. MutexInv'  BY <1>1 DEF MutexInv, QuotaTypes
  <1>4. ObjectInv'  BY <1>1 DEF ObjectInv, QuotaTypes
  <1>5. OneDriver'  BY <1>1 DEF OneDriver, QuotaTypes
  <1>6. HandOver'  BY DEF HandOver
  <1> QED  BY <1>2, <1>3, <1>4, <1>5, <1>6

(* The scanner's steps.                                                     *)
LEMMA ScannerStep == WakeInv /\ Scanner => WakeInv'
  <1> SUFFICES ASSUME WakeInv, Scanner PROVE WakeInv'  OBVIOUS
  <1> USE DEF WakeInv, ScanDone, Unlock, memVars, procVars, diskVars, worldVars, Put
  <1>0. 0 \in 0..Backoff  BY QuotaConstants
  <1>1. CASE Collect
    <2> USE <1>1 DEF Collect
    <2>1. QuotaTypes'  BY DEF QuotaTypes
    <2>2. MutexInv'  BY DEF MutexInv, Locked, QuotaTypes
    <2>3. ObjectInv' /\ OneDriver' /\ HandOver'  BY DEF ObjectInv, OneDriver, HandOver
    <2> QED  BY <2>1, <2>2, <2>3
  <1>2. CASE WakeRecheck
    <2> USE <1>2 DEF WakeRecheck
    <2>1. QuotaTypes'  BY <1>0 DEF QuotaTypes, Locked
    <2>2. MutexInv'  BY DEF MutexInv, Locked, QuotaTypes
    <2>3. ObjectInv' /\ OneDriver' /\ HandOver'  BY DEF ObjectInv, OneDriver, HandOver
    <2> QED  BY <2>1, <2>2, <2>3
  <1>3. CASE Probe
    <2> USE <1>3 DEF Probe
    <2>1. QuotaTypes'  BY DEF QuotaTypes, Locked
    <2>2. MutexInv'  BY DEF MutexInv, Locked, QuotaTypes
    <2>3. ObjectInv' /\ OneDriver' /\ HandOver'  BY DEF ObjectInv, OneDriver, HandOver
    <2> QED  BY <2>1, <2>2, <2>3
  <1>4. CASE Postpone
    <2> USE <1>4 DEF Postpone
    <2>0. wakeIn' \in [Objects -> Instants]  BY InstantsKnown DEF QuotaTypes
    <2>1. QuotaTypes'  BY <1>0, <2>0 DEF QuotaTypes, Locked
    <2>2. MutexInv'  BY DEF MutexInv, Locked, QuotaTypes
    <2>3. ObjectInv' /\ OneDriver' /\ HandOver'  BY DEF ObjectInv, OneDriver, HandOver
    <2> QED  BY <2>1, <2>2, <2>3
  <1>5. CASE WakeUnsuspend
    <2> USE <1>5 DEF WakeUnsuspend
    <2>1. scanned \in Objects /\ table = scanned /\ user = "idle"
      BY DEF MutexInv, Locked, QuotaTypes
    <2>2. QuotaTypes'
      <3>1. PutTypes
        <4>1. CASE st[scanned] = "suspended"
          <5>1. "running" \in States  BY DEF States
          <5>2. Put(scanned, "running", Never, FALSE)  BY <4>1
          <5> QED  BY <5>1, <5>2, PutKeepsTypes
        <4>2. CASE st[scanned] # "suspended"  BY <4>2 DEF PutTypes, QuotaTypes
        <4> QED  BY <4>1, <4>2
      <3>2. unsaved' \in BOOLEAN /\ age' \in 0..Backoff /\ scanned' \in Objects \union {NoObject}
            /\ scan' \in {"idle", "reopen"}
        BY <1>0 DEF QuotaTypes
      <3> QED  BY <3>1, <3>2 DEF QuotaTypes, Locked, PutTypes
    <2>3. MutexInv'  BY <2>1 DEF MutexInv, Locked, QuotaTypes
    <2>4. ASSUME st[scanned] = "suspended"
          PROVE  drivers[table] = 0 /\ \A o \in Objects : drivers[o] > 0 => cutShort[o]
      <3>1. \A o \in Objects : drivers[o] > 0 => cutShort[o] /\ st[o] = "dead"
        BY <2>1, <2>4, NoDriver
      <3>2. drivers[table] \in Nat  BY <2>1 DEF QuotaTypes
      <3> QED  BY <2>1, <2>4, <3>1, <3>2
    <2>5. HandOver'  BY <2>1, <2>4 DEF HandOver
    <2>6. ObjectInv'  BY <2>1 DEF ObjectInv, QuotaTypes
    <2>7. OneDriver'  BY <2>1, <2>4 DEF OneDriver, QuotaTypes
    <2> QED  BY <2>2, <2>3, <2>5, <2>6, <2>7
  <1>6. CASE WakeReopen
    <2> USE <1>6 DEF WakeReopen
    <2>1. /\ scanned \in Objects /\ table = scanned /\ user = "idle"
          /\ st[scanned] = "running" \/ cutShort[scanned]
          /\ drivers[scanned] = 0
          /\ \A o \in Objects : drivers[o] > 0 => cutShort[o]
      BY DEF MutexInv, Locked, QuotaTypes, HandOver
    <2>2. QuotaTypes'
      <3>1. drivers' \in [Objects -> Nat]  BY DEF QuotaTypes
      <3>2. PutTypes
        <4>1. CASE llm \/ st[scanned] # "running"  BY <4>1 DEF PutTypes, QuotaTypes
        <4>2. CASE ~llm /\ st[scanned] = "running"
          <5>1. "suspended" \in States  BY DEF States
          <5>2. Put(scanned, "suspended", Never, TRUE)  BY <4>2
          <5> QED  BY <5>1, <5>2, PutKeepsTypes
        <4> QED  BY <4>1, <4>2
      <3>3. age' \in 0..Backoff /\ scanned' \in Objects \union {NoObject}
            /\ scan' \in {"idle", "failed"}
        BY <1>0 DEF QuotaTypes
      <3> QED  BY <3>1, <3>2, <3>3 DEF QuotaTypes, Locked, PutTypes
    <2>3. MutexInv'
      <3>1. CASE llm  BY <2>1, <3>1 DEF MutexInv, Locked, QuotaTypes
      <3>2. CASE ~llm
        <4>1. scan' = "failed" /\ UNCHANGED <<scanned, resumeMu, table, user, cutShort, up>>
          BY <3>2
        <4>2. st'[scanned] # "running" /\ (st'[scanned] = "suspended" => reason'[scanned])
          BY <2>1, <3>2 DEF QuotaTypes, ObjectInv
        <4> QED  BY <2>1, <4>1, <4>2 DEF MutexInv, Locked
      <3> QED  BY <3>1, <3>2
    <2>4. ObjectInv'  BY <2>1 DEF ObjectInv, QuotaTypes
    <2>5. OneDriver'
      <3>1. CASE llm
        <4>1. drivers'[scanned] = 1  BY <2>1, <3>1 DEF QuotaTypes
        <4>2. \A o \in Objects \ {scanned} : drivers'[o] = drivers[o]  BY <3>1 DEF QuotaTypes
        <4>3. UNCHANGED <<st, table, cutShort>>  BY <3>1
        <4> QED  BY <2>1, <4>1, <4>2, <4>3 DEF OneDriver
      <3>2. CASE ~llm
        <4>1. UNCHANGED <<drivers, table, cutShort>>  BY <3>2
        <4> QED  BY <2>1, <4>1 DEF OneDriver
      <3> QED  BY <3>1, <3>2
    <2>6. HandOver'  BY <2>1 DEF HandOver
    <2> QED  BY <2>2, <2>3, <2>4, <2>5, <2>6
  <1>7. CASE WakeFailed
    <2> USE <1>7 DEF WakeFailed
    <2>1. QuotaTypes'  BY <1>0 DEF QuotaTypes, Locked
    <2>2. MutexInv'  BY DEF MutexInv, Locked, QuotaTypes
    <2>3. ObjectInv' /\ OneDriver' /\ HandOver'  BY DEF ObjectInv, OneDriver, HandOver
    <2> QED  BY <2>1, <2>2, <2>3
  <1>8. CASE Persist
    <2> USE <1>8 DEF Persist
    <2>0. scanned \in Objects  BY DEF MutexInv, Locked
    <2>1. QuotaTypes'
      <3>1. Info(scanned) \in [st : States, wakeIn : Instants, reason : BOOLEAN]
        BY <2>0 DEF QuotaTypes, Info
      <3> QED  BY <1>0, <3>1 DEF QuotaTypes
    <2>2. MutexInv'  BY DEF MutexInv, Locked, QuotaTypes
    <2>3. ObjectInv' /\ OneDriver' /\ HandOver'  BY DEF ObjectInv, OneDriver, HandOver
    <2> QED  BY <2>1, <2>2, <2>3
  <1> QED  BY <1>1, <1>2, <1>3, <1>4, <1>5, <1>6, <1>7, <1>8 DEF Scanner

(* The user's resumes.                                                      *)
LEMMA ResumeStep ==
    ASSUME WakeInv, ResumeInPlace \/ ReopenInPlace \/ ResumeDetached \/ ResumeReplace
    PROVE  WakeInv'
  <1> USE DEF WakeInv, Unlock, procVars, diskVars, worldVars, Put
  <1>1. CASE ResumeInPlace
    <2> USE <1>1 DEF ResumeInPlace
    <2>1. table \in Objects /\ scan \in {"idle", "collected"}  BY DEF QuotaTypes, MutexInv, Locked
    <2>2. \A o \in Objects : drivers[o] > 0 => cutShort[o] /\ st[o] = "dead"  BY <2>1, NoDriver
    <2>3. drivers[table] = 0  BY <2>1, <2>2 DEF QuotaTypes
    <2>4. QuotaTypes'  BY <2>1, InstantsKnown DEF QuotaTypes, States
    <2>5. MutexInv'  BY <2>1 DEF MutexInv, Locked, QuotaTypes
    <2>6. ObjectInv'  BY <2>1 DEF ObjectInv, QuotaTypes
    <2>7. OneDriver' /\ HandOver'  BY <2>2, <2>3 DEF OneDriver, HandOver
    <2> QED  BY <2>4, <2>5, <2>6, <2>7
  <1>2. CASE ReopenInPlace
    <2> USE <1>2 DEF ReopenInPlace
    <2>1. /\ table \in Objects /\ scan \in {"idle", "collected"} /\ up
          /\ st[table] = "running" \/ cutShort[table]
          /\ drivers[table] = 0
          /\ \A o \in Objects : drivers[o] > 0 => cutShort[o]
      BY DEF MutexInv, QuotaTypes, Locked, HandOver
    <2>2. QuotaTypes'
      <3>1. drivers' \in [Objects -> Nat]  BY DEF QuotaTypes
      <3>2. PutTypes /\ unsaved' \in BOOLEAN
        <4>1. CASE llm \/ st[table] # "running"  BY <4>1 DEF PutTypes, QuotaTypes
        <4>2. CASE ~llm /\ st[table] = "running"
          <5>1. "dead" \in States  BY DEF States
          <5>2. Put(table, "dead", Never, FALSE)  BY <4>2
          <5>3. unsaved' = TRUE  BY <4>2
          <5> QED  BY <5>1, <5>2, <5>3, PutKeepsTypes
        <4> QED  BY <4>1, <4>2
      <3> QED  BY <3>1, <3>2 DEF QuotaTypes, PutTypes
    <2>3. MutexInv'  BY <2>1 DEF MutexInv, Locked, QuotaTypes
    <2>4. ObjectInv'  BY <2>1 DEF ObjectInv, QuotaTypes
    <2>5. OneDriver'
      <3>1. CASE llm
        <4>1. drivers'[table] = 1  BY <2>1, <3>1 DEF QuotaTypes
        <4>2. \A o \in Objects \ {table} : drivers'[o] = drivers[o]  BY <3>1 DEF QuotaTypes
        <4>3. UNCHANGED <<st, table, cutShort>>  BY <3>1
        <4> QED  BY <2>1, <4>1, <4>2, <4>3 DEF OneDriver
      <3>2. CASE ~llm
        <4>1. UNCHANGED <<drivers, table, cutShort>>  BY <3>2
        <4> QED  BY <2>1, <4>1 DEF OneDriver
      <3> QED  BY <3>1, <3>2
    <2>6. HandOver'  BY <2>1 DEF HandOver
    <2> QED  BY <2>2, <2>3, <2>4, <2>5, <2>6
  <1>3. CASE ResumeDetached
    <2> USE <1>3 DEF ResumeDetached
    <2>1. \A o \in Objects : drivers[o] > 0 => cutShort[o]  BY NoDriver DEF QuotaTypes
    <2>2. \A o \in Objects : st[o] # "running"
      BY QuotaConstants DEF ObjectInv, QuotaTypes
    <2>3. scan \in {"idle", "collected"}  BY DEF MutexInv, Locked, QuotaTypes
    <2>4. QuotaTypes'  BY DEF QuotaTypes
    <2>5. MutexInv'  BY <2>3 DEF MutexInv, Locked, QuotaTypes
    <2>6. ObjectInv'  BY <2>2 DEF ObjectInv
    <2>7. OneDriver' /\ HandOver'  BY <2>1, <2>3 DEF OneDriver, HandOver
    <2> QED  BY <2>4, <2>5, <2>6, <2>7
  <1>4. CASE ResumeReplace
    <2> USE <1>4 DEF ResumeReplace
    <2>1. PICK o \in Objects :
              /\ o # scanned /\ drivers[o] = 0
              /\ table' = o
              /\ st' = [st EXCEPT ![o] = "running"]
              /\ wakeIn' = [wakeIn EXCEPT ![o] = Never]
              /\ reason' = [reason EXCEPT ![o] = FALSE]
              /\ cutShort' = [cutShort EXCEPT ![o] = FALSE]
              /\ drivers' = [drivers EXCEPT ![o] = 1]
      BY DEF Fresh
    <2>2. table = NoObject /\ scan \in {"idle", "collected"} /\ up
      BY DEF MutexInv, Locked, QuotaTypes
    <2>3. \A p \in Objects : drivers[p] > 0 => cutShort[p]  BY <2>2, NoDriver
    <2>4. \A p \in Objects : st[p] # "running"  BY <2>2, QuotaConstants DEF ObjectInv
    <2>5. QuotaTypes'
      <3>1. /\ drivers' \in [Objects -> Nat] /\ wakeIn' \in [Objects -> Instants]
            /\ st' \in [Objects -> States]
        BY <2>1, InstantsKnown DEF QuotaTypes, States
      <3>2. disk' \in [st : States, wakeIn : Instants, reason : BOOLEAN]
        BY InstantsKnown DEF Running, States
      <3> QED  BY <2>1, <3>1, <3>2 DEF QuotaTypes
    <2>6. MutexInv'  BY <2>1, <2>2 DEF MutexInv, Locked, QuotaTypes
    <2>7. ObjectInv'  BY <2>1, <2>2, <2>4 DEF ObjectInv, QuotaTypes
    <2>8. OneDriver'  BY <2>1, <2>3 DEF OneDriver, QuotaTypes
    <2>9. HandOver'  BY <2>2 DEF HandOver
    <2> QED  BY <2>5, <2>6, <2>7, <2>8, <2>9
  <1> QED  BY <1>1, <1>2, <1>3, <1>4

LEMMA CrashStep == WakeInv /\ (Crash \/ Reload) => WakeInv'
  <1> SUFFICES ASSUME WakeInv, Crash \/ Reload PROVE WakeInv'  OBVIOUS
  <1> USE DEF WakeInv
  <1>1. CASE Crash
    <2> USE <1>1 DEF Crash, ScanDone, Unlock
    <2>1. QuotaTypes'
      <3>1. /\ drivers' \in [Objects -> Nat] /\ st' \in [Objects -> States]
            /\ wakeIn' \in [Objects -> Instants]
            /\ leaving' \in [Objects -> [Phases -> Nat]]
        BY InstantsKnown DEF States, Nobody
      <3>2. failedAgo' \in 0..Backoff /\ age' \in 0..Backoff  BY QuotaConstants DEF QuotaTypes
      <3> QED  BY <3>1, <3>2 DEF QuotaTypes
    <2>2. MutexInv'  BY DEF MutexInv, Locked
    <2>3. ObjectInv' /\ OneDriver' /\ HandOver'  BY DEF ObjectInv, OneDriver, HandOver
    <2> QED  BY <2>1, <2>2, <2>3
  <1>2. CASE Reload
    <2> USE <1>2 DEF Reload, threadVars, diskVars, Put
    <2>1. scan = "idle" /\ user = "idle" /\ table = NoObject  BY DEF MutexInv
    <2>2. \A o \in Objects : st[o] = "free" /\ drivers[o] = 0
      BY <2>1, NoDriver DEF ObjectInv, QuotaTypes
    <2>3. QuotaTypes'
      <3>1. CASE disk.st = "suspended"
        <4>1. PICK o \in Objects :
                  /\ table' = o
                  /\ st' = [st EXCEPT ![o] = "suspended"]
                  /\ wakeIn' = [wakeIn EXCEPT ![o] = disk.wakeIn]
                  /\ reason' = [reason EXCEPT ![o] = disk.reason]
          BY <3>1
        <4> QED  BY <4>1 DEF QuotaTypes, States
      <3>2. CASE disk.st # "suspended"  BY <3>2 DEF QuotaTypes
      <3> QED  BY <3>1, <3>2
    <2>4. MutexInv'  BY <2>1 DEF MutexInv, Locked
    <2>5. ObjectInv'
      <3>1. \A o \in Objects : st'[o] \in {"free", "suspended"} /\ ~cutShort[o]
        BY <2>2 DEF ObjectInv, QuotaTypes
      <3> QED  BY <3>1 DEF ObjectInv
    <2>6. OneDriver' /\ HandOver'  BY <2>1, <2>2 DEF OneDriver, HandOver
    <2> QED  BY <2>3, <2>4, <2>5, <2>6
  <1> QED  BY <1>1, <1>2

LEMMA WakeStep == WakeInv /\ [QuotaNext]_quotaVars => WakeInv'
  <1> SUFFICES ASSUME WakeInv, [QuotaNext]_quotaVars PROVE WakeInv'  OBVIOUS
  <1>1. CASE QuotaNext
    BY <1>1, LoopStep, LeaveStep, FileStep, KillStep, ScannerStep, ResumeStep, CrashStep
       DEF QuotaNext
  <1>2. CASE UNCHANGED quotaVars
    BY <1>2 DEF quotaVars, memVars, procVars, threadVars, diskVars, worldVars, WakeInv,
                QuotaTypes, MutexInv, ObjectInv, OneDriver, HandOver
  <1> QED  BY <1>1, <1>2

(* The lock, the table and the reasoning loops agree, whoever is still      *)
(* leaving a process that has been resumed meanwhile.                       *)
THEOREM WakeInvariant == QuotaSpec => []WakeInv
  <1>1. QuotaInit => WakeInv  BY InitWakeInv
  <1>2. WakeInv /\ [QuotaNext]_quotaVars => WakeInv'  BY WakeStep
  <1> QED  BY <1>1, <1>2, PTL DEF QuotaSpec

(* wakeQuotaProcess against every kind of resume, a kill, a restart and the *)
(* goroutines of earlier suspends: no two reasoning loops run one agent,    *)
(* but for a loop whose process such a goroutine has ended.                 *)
THEOREM DrivenByOne == QuotaSpec => []OneDriver
  <1>1. WakeInv => OneDriver  BY DEF WakeInv
  <1> QED  BY <1>1, WakeInvariant, PTL

-----------------------------------------------------------------------------
(* A wake never ends a process.                                             *)

NoneEnded == scan' # scan => \A o \in Objects : st'[o] = "dead" => st[o] = "dead"

LEMMA WakeEndsNone == WakeInv /\ [QuotaNext]_quotaVars => NoneEnded
  <1> SUFFICES ASSUME WakeInv, [QuotaNext]_quotaVars, scan' # scan,
                      NEW o \in Objects, st'[o] = "dead"
               PROVE  st[o] = "dead"
    BY DEF NoneEnded
  <1> USE DEF WakeInv, memVars, procVars, threadVars, worldVars, Put
  <1>1. ASSUME NEW p \in Objects, QuotaSuspend(p) \/ Leave(p) \/ Finishes(p) \/ Checkpoint(p)
        PROVE  scan' = scan
    BY <1>1 DEF QuotaSuspend, Leave, Stamp, SaveSuspension, Defer, Finishes, Checkpoint
  <1>2. CASE SaveProcInfo \/ CheckpointWrite \/ DeviceFlips \/ Tick
    BY <1>2 DEF SaveProcInfo, CheckpointWrite, DeviceFlips, Tick
  <1>3. CASE KillWhileSuspended  BY <1>3 DEF KillWhileSuspended
  <1>4. CASE Scanner
    <2>1. scan \in Locked => scanned \in Objects  BY DEF MutexInv
    <2> QED
      BY <1>4, <2>1 DEF Scanner, Collect, WakeRecheck, Probe, WakeUnsuspend, WakeReopen,
                        WakeFailed, Postpone, Persist, QuotaTypes, Locked
  <1>5. CASE ResumeInPlace \/ ReopenInPlace \/ ResumeDetached \/ ResumeReplace
    BY <1>5 DEF ResumeInPlace, ReopenInPlace, ResumeDetached, ResumeReplace
  <1>6. CASE Crash  BY <1>6 DEF Crash
  <1>7. CASE Reload  BY <1>7 DEF Reload
  <1>8. CASE UNCHANGED quotaVars  BY <1>8 DEF quotaVars
  <1> QED  BY <1>1, <1>2, <1>3, <1>4, <1>5, <1>6, <1>7, <1>8 DEF QuotaNext

(* probeQuotaWakeReopen and rollbackQuotaWakeResume: no step of the scanner *)
(* ends a process.                                                          *)
THEOREM WakesSpareProcesses == QuotaSpec => WakeNeverKills
  <1>1. WakeInv /\ [QuotaNext]_quotaVars => [NoneEnded]_quotaVars  BY WakeEndsNone
  <1>2. QuotaSpec => [][NoneEnded]_quotaVars  BY <1>1, WakeInvariant, PTL DEF QuotaSpec
  <1>3. NoneEnded => (scan' # scan => \A o \in Objects : st'[o] = "dead" => st[o] = "dead")
    BY DEF NoneEnded
  <1> QED  BY <1>2, <1>3, PTL DEF WakeNeverKills

-----------------------------------------------------------------------------
(* A failed wake waits for its backoff.                                     *)

NotDue(w) == w = Never \/ w + failedAgo >= Backoff

BackoffInv ==
    failedAgo < Backoff =>
        /\ scan \notin {"probe", "unsuspend", "reopen"}
        /\ table # NoObject /\ st[table] = "suspended" => NotDue(wakeIn[table])
        /\ disk.st = "suspended" /\ scan # "persist" => NotDue(disk.wakeIn)

(* One tick leaves what is not due that much nearer, and not due.           *)
LEMMA StillNotDue ==
    ASSUME failedAgo \in 0..Backoff, NEW w \in Instants, failedAgo' = Older(failedAgo),
           failedAgo' < Backoff, NotDue(w)
    PROVE  failedAgo < Backoff /\ (Down(w) = Never \/ Down(w) + failedAgo' >= Backoff)
  BY QuotaConstants DEF NotDue, Down, Never, Older, Instants

LEMMA BackoffStep == WakeInv /\ BackoffInv /\ [QuotaNext]_quotaVars => BackoffInv'
  <1> SUFFICES ASSUME WakeInv, BackoffInv, [QuotaNext]_quotaVars, failedAgo' < Backoff
               PROVE  /\ scan' \notin {"probe", "unsuspend", "reopen"}
                      /\ table' # NoObject /\ st'[table'] = "suspended" => NotDue(wakeIn[table])'
                      /\ disk'.st = "suspended" /\ scan' # "persist" => NotDue(disk.wakeIn)'
    BY DEF BackoffInv
  <1> USE DEF WakeInv, BackoffInv, NotDue, memVars, procVars, threadVars, diskVars,
              worldVars, Put, Info, Running
  <1>0. /\ failedAgo \in Nat /\ Backoff \in Nat /\ failedAgo <= Backoff
        /\ age \in Nat /\ age <= Backoff
    BY QuotaConstants DEF QuotaTypes
  <1>1. ASSUME NEW o \in Objects, QuotaSuspend(o) PROVE BackoffInv'
    BY <1>0, <1>1 DEF QuotaSuspend
  <1>2. ASSUME NEW o \in Objects, Stamp(o) \/ Checkpoint(o) PROVE BackoffInv'
    BY <1>2 DEF Stamp, Checkpoint
  <1>3. ASSUME NEW o \in Objects, SaveSuspension(o) PROVE BackoffInv'
    <2>1. o # NoObject  BY QuotaConstants
    <2> QED  BY <1>3, <2>1 DEF SaveSuspension
  <1>4. ASSUME NEW o \in Objects, Defer(o) \/ Finishes(o) PROVE BackoffInv'
    <2>1. CASE st[o] = "running"
      <3>1. table = o  BY <2>1 DEF ObjectInv
      <3> QED  BY <1>4, <2>1, <3>1 DEF Defer, Finishes, QuotaTypes
    <2>2. CASE st[o] # "running"  BY <1>4, <2>2 DEF Defer, Finishes
    <2> QED  BY <2>1, <2>2
  <1>5. CASE SaveProcInfo  BY <1>5 DEF SaveProcInfo
  <1>6. CASE DeviceFlips  BY <1>6 DEF DeviceFlips
  <1>7. CASE CheckpointWrite  BY <1>7 DEF CheckpointWrite
  <1>8. CASE Tick
    <2> USE <1>8 DEF Tick
    <2>1. failedAgo < Backoff  BY <1>0 DEF Older
    <2>2. table \in Objects => wakeIn[table] \in Instants /\ wakeIn'[table] = Down(wakeIn[table])
      BY DEF QuotaTypes
    <2>3. disk.wakeIn \in Instants /\ disk'.wakeIn = Down(disk.wakeIn) /\ disk'.st = disk.st
      BY DEF QuotaTypes
    <2>4. table # NoObject /\ st[table] = "suspended" => NotDue(wakeIn[table])'
      BY <2>1, <2>2, StillNotDue DEF QuotaTypes
    <2>5. disk.st = "suspended" /\ scan # "persist" => NotDue(disk.wakeIn)'
      BY <2>1, <2>3, StillNotDue DEF QuotaTypes
    <2> QED  BY <2>1, <2>3, <2>4, <2>5
  <1>9. CASE KillWhileSuspended  BY <1>9 DEF KillWhileSuspended, QuotaTypes
  <1>10. CASE Collect  BY <1>10 DEF Collect
  <1>11. CASE WakeRecheck
    <2>1. scanned \in Objects /\ scanned # NoObject
      BY <1>11, QuotaConstants DEF WakeRecheck, MutexInv
    <2>2. wakeIn[scanned] \in Int  BY <2>1 DEF QuotaTypes, Instants
    <2>3. isQuotaWakeCandidate(scanned, age) /\ table = scanned => failedAgo >= Backoff
      BY <1>0, <2>1, <2>2 DEF isQuotaWakeCandidate
    <2> QED  BY <1>0, <1>11, <2>3 DEF WakeRecheck, ScanDone
  <1>12. CASE Probe \/ WakeUnsuspend \/ WakeReopen
    BY <1>0, <1>12 DEF Probe, WakeUnsuspend, WakeReopen
  <1>13. CASE WakeFailed  BY <1>13 DEF WakeFailed, ScanDone
  <1>14. CASE Postpone
    <2>1. table = scanned /\ scanned \in Objects  BY <1>14 DEF Postpone, MutexInv, Locked
    <2>2. wakeIn'[table] = Backoff - age /\ failedAgo' = age  BY <1>14, <2>1 DEF Postpone, QuotaTypes
    <2>3. NotDue(wakeIn[table])'  BY <1>0, <1>14, <2>2 DEF Postpone
    <2> QED  BY <1>14, <2>3 DEF Postpone
  <1>15. CASE Persist
    <2>1. table = scanned /\ scanned \in Objects  BY <1>15 DEF Persist, MutexInv, Locked
    <2> QED  BY <1>15, <2>1, QuotaConstants DEF Persist, ScanDone
  <1>16. CASE ResumeInPlace  BY <1>16 DEF ResumeInPlace, QuotaTypes
  <1>17. CASE ReopenInPlace  BY <1>17 DEF ReopenInPlace, QuotaTypes, MutexInv
  <1>18. CASE ResumeDetached  BY <1>18 DEF ResumeDetached
  <1>19. CASE ResumeReplace  BY <1>19 DEF ResumeReplace, QuotaTypes
  <1>20. CASE Crash
    <2>1. scan # "persist" /\ failedAgo' = failedAgo  BY <1>0, <1>20 DEF Crash
    <2> QED  BY <1>20, <2>1 DEF Crash, ScanDone
  <1>21. CASE Reload
    <2>1. table = NoObject /\ scan = "idle"  BY <1>21 DEF Reload, MutexInv
    <2> QED  BY <1>21, <2>1 DEF Reload, QuotaTypes
  <1>22. CASE UNCHANGED quotaVars  BY <1>22 DEF quotaVars
  <1> QED
    BY <1>1, <1>2, <1>3, <1>4, <1>5, <1>6, <1>7, <1>8, <1>9, <1>10, <1>11, <1>12, <1>13,
       <1>14, <1>15, <1>16, <1>17, <1>18, <1>19, <1>20, <1>21, <1>22 DEF QuotaNext, Scanner, Leave

(* postponeQuotaWake: after a wake that failed, the next attempt is a whole *)
(* backoff away from the tick that started the failed scan, also when the   *)
(* daemon restarts in between.                                              *)
THEOREM BackoffRespected == QuotaSpec => []BackoffKept
  <1>1. QuotaInit => BackoffInv  BY QuotaConstants DEF QuotaInit, BackoffInv
  <1>2. WakeInv /\ BackoffInv /\ [QuotaNext]_quotaVars => BackoffInv'  BY BackoffStep
  <1>3. BackoffInv => BackoffKept  BY DEF BackoffInv, BackoffKept
  <1> QED  BY <1>1, <1>2, <1>3, WakeInvariant, PTL DEF QuotaSpec

-----------------------------------------------------------------------------
(* A saved suspension survives a crash.                                     *)

\* What the disk says of a suspended process that has been saved; or else a
\* checkpoint has just overwritten it, and there is none behind that one.
SavedInv ==
    /\ overtaken => disk.st = "running"
    /\ /\ table # NoObject /\ st[table] = "suspended" /\ ~unsaved
       /\ scan \notin {"failed", "postpone", "persist"}
       => (overtaken /\ ~writing) \/ disk = Info(table)

LEMMA SavedStep == WakeInv /\ SavedInv /\ [QuotaNext]_quotaVars => SavedInv'
  <1> SUFFICES ASSUME WakeInv, SavedInv, [QuotaNext]_quotaVars PROVE SavedInv'  OBVIOUS
  <1> USE DEF WakeInv, SavedInv, memVars, procVars, threadVars, diskVars, worldVars, Put,
              Info, Running
  <1>1. ASSUME NEW o \in Objects, QuotaSuspend(o) PROVE SavedInv'
    <2>1. table = o  BY <1>1 DEF QuotaSuspend, ObjectInv
    <2> QED  BY <1>1, <2>1 DEF QuotaSuspend
  <1>2. ASSUME NEW o \in Objects, Stamp(o) PROVE SavedInv'
    <2>1. CASE table = o  BY <1>2, <2>1 DEF Stamp
    <2>2. CASE table # o
      <3>1. table # NoObject => reason'[table] = reason[table]
        BY <1>2, <2>2 DEF Stamp, QuotaTypes
      <3> QED  BY <1>2, <2>2, <3>1 DEF Stamp
    <2> QED  BY <2>1, <2>2
  <1>3. ASSUME NEW o \in Objects, SaveSuspension(o) PROVE SavedInv'
    BY <1>3 DEF SaveSuspension
  <1>4. ASSUME NEW o \in Objects, Defer(o) \/ Finishes(o) PROVE SavedInv'
    <2>1. CASE st[o] = "running"
      <3>1. table = o  BY <2>1 DEF ObjectInv
      <3> QED  BY <1>4, <2>1, <3>1 DEF Defer, Finishes, QuotaTypes
    <2>2. CASE st[o] # "running"  BY <1>4, <2>2 DEF Defer, Finishes
    <2> QED  BY <2>1, <2>2
  <1>5. ASSUME NEW o \in Objects, Checkpoint(o) PROVE SavedInv'
    <2>1. table = o /\ st[table] = "running"  BY <1>5 DEF Checkpoint, ObjectInv
    <2> QED  BY <1>5, <2>1 DEF Checkpoint
  <1>6. CASE SaveProcInfo  BY <1>6 DEF SaveProcInfo
  <1>7. CASE DeviceFlips  BY <1>7 DEF DeviceFlips
  <1>8. CASE CheckpointWrite
    <2> USE <1>8 DEF CheckpointWrite
    <2>1. disk'.st = "running"  OBVIOUS
    <2>2. ASSUME table # NoObject, st[table] = "suspended", ~unsaved,
                 scan \notin {"failed", "postpone", "persist"}
          PROVE  overtaken'
      <3>1. disk = Info(table)  BY <2>2
      <3>2. disk.st = "suspended"  BY <2>2, <3>1
      <3> QED  BY <2>2, <3>2
    <2>3. UNCHANGED <<table, st, unsaved, scan>> /\ ~writing'  OBVIOUS
    <2> QED  BY <2>1, <2>2, <2>3
  <1>9. CASE Tick
    <2>1. table # NoObject => wakeIn'[table] = Down(wakeIn[table])
      BY <1>9 DEF Tick, QuotaTypes
    <2>2. disk' = [disk EXCEPT !.wakeIn = Down(disk.wakeIn)] /\ disk'.st = disk.st
      BY <1>9 DEF Tick, QuotaTypes
    <2>3. UNCHANGED <<table, st, reason, unsaved, scan, overtaken, writing>>
      BY <1>9 DEF Tick
    <2>4. disk = Info(table) /\ table # NoObject => disk' = Info(table)'  BY <2>1, <2>2, <2>3
    <2> QED  BY <2>2, <2>3, <2>4
  <1>10. CASE KillWhileSuspended  BY <1>10 DEF KillWhileSuspended, QuotaTypes
  <1>11. CASE Collect  BY <1>11 DEF Collect
  <1>12. CASE WakeRecheck  BY <1>12 DEF WakeRecheck, ScanDone
  <1>13. CASE Probe  BY <1>13 DEF Probe
  <1>14. CASE Postpone  BY <1>14 DEF Postpone
  <1>15. CASE WakeUnsuspend
    <2>1. table = scanned /\ scanned \in Objects  BY <1>15 DEF WakeUnsuspend, MutexInv, Locked
    <2> QED  BY <1>15, <2>1 DEF WakeUnsuspend, ScanDone, QuotaTypes
  <1>16. CASE WakeReopen
    <2>1. /\ table = scanned /\ scanned \in Objects
          /\ st[scanned] = "running" \/ st[scanned] = "dead"
      BY <1>16 DEF WakeReopen, MutexInv, Locked, ObjectInv
    <2> QED  BY <1>16, <2>1 DEF WakeReopen, ScanDone
  <1>17. CASE WakeFailed
    <2>1. table = scanned /\ (st[scanned] = "suspended" => reason[scanned])
      BY <1>17 DEF WakeFailed, MutexInv, Locked
    <2> QED  BY <1>17, <2>1 DEF WakeFailed, ScanDone
  <1>18. CASE Persist
    <2>1. table = scanned  BY <1>18 DEF Persist, MutexInv, Locked
    <2> QED  BY <1>18, <2>1 DEF Persist, ScanDone
  <1>19. CASE ResumeInPlace  BY <1>19 DEF ResumeInPlace, QuotaTypes
  <1>20. CASE ReopenInPlace
    <2>1. table \in Objects /\ st[table] \in {"running", "dead"}
      BY <1>20 DEF ReopenInPlace, MutexInv, ObjectInv
    <2> QED  BY <1>20, <2>1 DEF ReopenInPlace, QuotaTypes
  <1>21. CASE ResumeDetached  BY <1>21 DEF ResumeDetached
  <1>22. CASE ResumeReplace  BY <1>22 DEF ResumeReplace, QuotaTypes
  <1>23. CASE Crash  BY <1>23 DEF Crash
  <1>24. CASE Reload
    <2>1. table = NoObject /\ scan = "idle"  BY <1>24 DEF Reload, MutexInv
    <2>2. CASE disk.st = "suspended"
      <3>1. PICK o \in Objects :
                /\ table' = o
                /\ st' = [st EXCEPT ![o] = "suspended"]
                /\ wakeIn' = [wakeIn EXCEPT ![o] = disk.wakeIn]
                /\ reason' = [reason EXCEPT ![o] = disk.reason]
        BY <1>24, <2>2 DEF Reload
      <3>2. /\ st'[table'] = disk.st /\ wakeIn'[table'] = disk.wakeIn
            /\ reason'[table'] = disk.reason
        BY <2>2, <3>1 DEF QuotaTypes
      <3>3. disk = [st |-> disk.st, wakeIn |-> disk.wakeIn, reason |-> disk.reason]
        BY DEF QuotaTypes
      <3> QED  BY <1>24, <2>2, <3>2, <3>3 DEF Reload
    <2>3. CASE disk.st # "suspended"  BY <1>24, <2>1, <2>3 DEF Reload
    <2> QED  BY <2>2, <2>3
  <1>25. CASE UNCHANGED quotaVars  BY <1>25 DEF quotaVars
  <1> QED
    BY <1>1, <1>2, <1>3, <1>4, <1>5, <1>6, <1>7, <1>8, <1>9, <1>10, <1>11, <1>12, <1>13,
       <1>14, <1>15, <1>16, <1>17, <1>18, <1>19, <1>20, <1>21, <1>22, <1>23, <1>24, <1>25
       DEF QuotaNext, Scanner, Leave

(* suspend.go saves proc-info, quota_wake.go saves what it postpones, and   *)
(* load_suspended.go reads it back: unless a stale checkpoint overtook the  *)
(* save, the disk has the suspension with its instant and its reason.       *)
THEOREM SavedSurvives == QuotaSpec => []SuspensionSurvives
  <1>1. QuotaInit => SavedInv
    <2>1. QuotaInit => overtaken = FALSE  BY DEF QuotaInit
    <2>2. QuotaInit => table # NoObject /\ st[table] = "running"
      BY QuotaConstants DEF QuotaInit
    <2> QED  BY <2>1, <2>2 DEF SavedInv
  <1>2. WakeInv /\ SavedInv /\ [QuotaNext]_quotaVars => SavedInv'  BY SavedStep
  <1>3. SavedInv => SuspensionSurvives  BY DEF SavedInv, SuspensionSurvives
  <1> QED  BY <1>1, <1>2, <1>3, WakeInvariant, PTL DEF QuotaSpec
=============================================================================
