----------------------------- MODULE QuotaWake ------------------------------
(***************************************************************************)
(* How one process (one UUID) comes back after a spent quota window: the   *)
(* wake scanner of kernel/quota_wake.go, the user who resumes it in place  *)
(* or as a new process object, the user who kills it, and the daemon that  *)
(* crashes and reloads it from disk (load_suspended.go).                   *)
(*                                                                         *)
(* Objects are *Process values; `table' is the one procTable holds for the *)
(* UUID.  An object taken out of the table by a detached resume keeps its  *)
(* fields: it is a husk that the scanner may still refer to, and that the  *)
(* goroutine which suspended it may still be leaving.  Instants are kept   *)
(* as the number of clock ticks left until them.                           *)
(*                                                                         *)
(* A save reads the process and writes proc-info in one step; suspends     *)
(* from outside (SIGPAUSE, Kernel.Suspend) are those of ProcLifecycle.     *)
(***************************************************************************)
EXTENDS Integers, FiniteSets

CONSTANTS
    Objects, NoObject,
    Window,     \* ticks until the server's reset instant
    Backoff,    \* quotaWakeRetryBackoff, in ticks
    MaxLeaving  \* bound: goroutines that have suspended an object and not yet exited

ASSUME QuotaConstants ==
    /\ NoObject \notin Objects
    /\ Window \in Nat /\ Backoff \in Nat /\ MaxLeaving \in Nat \ {0}

Never == -(Backoff + 1)     \* a zero ResumeAt; -Backoff is an instant that long ago, or longer

\* What a goroutine still does after the transition of its own suspend.
Phases == {"stamp", "save", "defer"}
Nobody == [p \in Phases |-> 0]

VARIABLES
    table,      \* the object in procTable
    st,         \* object -> state ("free": no such object)
    wakeIn,     \* object -> ticks until ResumeAt, or Never
    reason,     \* object -> SuspendReason is quota_exhausted
    drivers,    \* object -> reasoning goroutines running it
    leaving,    \* object -> phase -> goroutines that suspended it and are there
    cutShort,   \* object -> a goroutine that was leaving has ended it
    llm,        \* the LLM device can be opened
    resumeMu,   \* holder of resumeMu
    scan,       \* where the scanner is
    scanned,    \* the object the scanner has collected
    age,        \* ticks since the ticker sent the scan its `now', up to Backoff
    user,       \* where the resuming user's thread is
    unsaved,    \* the table's object has changed since proc-info was saved
    disk,       \* proc-info.json: state, ResumeAt and SuspendReason
    writing,    \* a checkpoint of a running object is being written
    overtaken,  \* the last save was a checkpoint older than a suspension
    failedAgo,  \* ticks since the `now' of the scan whose wake failed, up to Backoff
    up          \* the daemon is running

procVars == <<st, wakeIn, reason, cutShort>>
memVars == <<table, procVars, drivers, leaving>>
threadVars == <<resumeMu, scan, scanned, age, user>>
diskVars == <<unsaved, disk, overtaken>>
worldVars == <<llm, writing, up>>
quotaVars == <<memVars, threadVars, diskVars, failedAgo, worldVars>>

Info(o) == [st |-> st[o], wakeIn |-> wakeIn[o], reason |-> reason[o]]
Running == [st |-> "running", wakeIn |-> Never, reason |-> FALSE]

QuotaInit ==
    /\ \E o \in Objects :
         /\ table = o
         /\ st = [p \in Objects |-> IF p = o THEN "running" ELSE "free"]
         /\ drivers = [p \in Objects |-> IF p = o THEN 1 ELSE 0]
    /\ wakeIn = [o \in Objects |-> Never]
    /\ reason = [o \in Objects |-> FALSE]
    /\ leaving = [o \in Objects |-> Nobody]
    /\ cutShort = [o \in Objects |-> FALSE]
    /\ llm = TRUE
    /\ resumeMu = "free" /\ scan = "idle" /\ scanned = NoObject /\ age = 0 /\ user = "idle"
    /\ unsaved = FALSE
    /\ disk = Running
    /\ writing = FALSE
    /\ overtaken = FALSE
    /\ failedAgo = Backoff
    /\ up = TRUE

Put(o, s, w, q) ==
    /\ st' = [st EXCEPT ![o] = s]
    /\ wakeIn' = [wakeIn EXCEPT ![o] = w]
    /\ reason' = [reason EXCEPT ![o] = q]

Unlock == resumeMu' = "free"

-----------------------------------------------------------------------------
(* The process itself.                                                      *)

\* quotaSuspendProcess: with the server's instant, or with none at all, set
\* just before the transition.  A resume may come before any of the rest.
QuotaSuspend(o) ==
    /\ drivers[o] > 0 /\ st[o] = "running" /\ up
    /\ leaving[o]["stamp"] + leaving[o]["save"] + leaving[o]["defer"] < MaxLeaving
    /\ st' = [st EXCEPT ![o] = "suspended"]
    /\ \E w \in {Never, Window} : wakeIn' = [wakeIn EXCEPT ![o] = w]
    /\ drivers' = [drivers EXCEPT ![o] = @ - 1]
    /\ leaving' = [leaving EXCEPT ![o]["stamp"] = @ + 1]
    /\ unsaved' = (unsaved \/ table = o)
    /\ failedAgo' = Backoff
    /\ UNCHANGED <<table, reason, cutShort, threadVars, disk, overtaken, worldVars>>

\* suspendProcess stamps whatever state the process is in by now ...
Stamp(o) ==
    /\ leaving[o]["stamp"] > 0
    /\ reason' = [reason EXCEPT ![o] = TRUE]
    /\ leaving' = [leaving EXCEPT ![o]["stamp"] = @ - 1, ![o]["save"] = @ + 1]
    /\ unsaved' = (unsaved \/ table = o)
    /\ UNCHANGED <<table, st, wakeIn, cutShort, drivers, threadVars, disk, overtaken,
                   failedAgo, worldVars>>

\* ... and saves proc-info; GetProcInfo finds the object through the table.
SaveSuspension(o) ==
    /\ leaving[o]["save"] > 0
    /\ leaving' = [leaving EXCEPT ![o]["save"] = @ - 1, ![o]["defer"] = @ + 1]
    /\ IF table = o
       THEN disk' = Info(o) /\ unsaved' = FALSE /\ overtaken' = FALSE
       ELSE UNCHANGED diskVars
    /\ UNCHANGED <<table, procVars, drivers, threadVars, failedAgo, worldVars>>

\* reasonStep's deferred function: when a resume has been faster, the process
\* no longer asks for a suspend and is Running, and is finished.
Defer(o) ==
    /\ leaving[o]["defer"] > 0
    /\ leaving' = [leaving EXCEPT ![o]["defer"] = @ - 1]
    /\ IF st[o] = "running"
       THEN /\ Put(o, "dead", Never, FALSE)
            /\ cutShort' = [cutShort EXCEPT ![o] = TRUE]
            /\ unsaved' = (unsaved \/ table = o)
       ELSE UNCHANGED <<procVars, unsaved>>
    /\ UNCHANGED <<table, drivers, threadVars, disk, overtaken, failedAgo, worldVars>>

Leave(o) == Stamp(o) \/ SaveSuspension(o) \/ Defer(o)

\* Terminate refuses when the process has been ended already.
Finishes(o) ==
    /\ drivers[o] > 0
    /\ drivers' = [drivers EXCEPT ![o] = @ - 1]
    /\ IF st[o] = "running"
       THEN Put(o, "dead", Never, FALSE) /\ unsaved' = (unsaved \/ table = o)
       ELSE UNCHANGED <<st, wakeIn, reason, unsaved>>
    /\ UNCHANGED <<table, leaving, cutShort, threadVars, disk, overtaken, failedAgo,
                   worldVars>>

\* killSuspendedProcess does not take resumeMu.
KillWhileSuspended ==
    /\ up /\ table # NoObject /\ st[table] = "suspended"
    /\ Put(table, "dead", Never, reason[table])
    /\ unsaved' = TRUE
    /\ UNCHANGED <<table, drivers, leaving, cutShort, threadVars, disk, overtaken,
                   failedAgo, worldVars>>

\* The saves of a resume, a kill and a reap, of whatever the process is by then:
\* a resumed process may have suspended itself once more.
SaveProcInfo ==
    /\ up /\ unsaved /\ table # NoObject
    /\ disk' = Info(table)
    /\ unsaved' = FALSE
    /\ overtaken' = FALSE
    /\ UNCHANGED <<memVars, threadVars, failedAgo, worldVars>>

\* asyncWriteCheckpoint: a goroutine that a process suspending itself does not
\* wait for finds the process Running for the last time ...
Checkpoint(o) ==
    /\ st[o] = "running" /\ ~writing
    /\ writing' = TRUE
    /\ UNCHANGED <<memVars, llm, threadVars, diskVars, failedAgo, up>>

\* ... and then saves its snapshot, whatever has been saved meanwhile.
CheckpointWrite ==
    /\ writing
    /\ disk' = Running
    /\ overtaken' = (disk.st = "suspended" /\ (table # NoObject => st[table] # "running"))
    /\ writing' = FALSE
    /\ UNCHANGED <<memVars, llm, threadVars, unsaved, failedAgo, up>>

-----------------------------------------------------------------------------
(* The scanner.                                                             *)

\* Suspended for quota, and due at the scan's `now', which was a ago.
isQuotaWakeCandidate(o, a) ==
    st[o] = "suspended" /\ reason[o] /\ wakeIn[o] # Never /\ wakeIn[o] <= -a

\* scanQuotaWakeups collects without a lock.  The ticker's value may have
\* waited in its channel while an earlier scan was held up.
Collect ==
    /\ up /\ scan = "idle" /\ table # NoObject
    /\ age' \in 0..Backoff
    /\ isQuotaWakeCandidate(table, age')
    /\ scanned' = table
    /\ scan' = "collected"
    /\ UNCHANGED <<memVars, resumeMu, user, diskVars, failedAgo, worldVars>>

ScanDone == scan' = "idle" /\ scanned' = NoObject /\ age' = 0 /\ Unlock

\* Mutant: membership in the table is not checked.
WakeRecheckState ==
    /\ scan = "collected" /\ resumeMu = "free"
    /\ IF isQuotaWakeCandidate(scanned, age)
       THEN scan' = "probe" /\ resumeMu' = "scan" /\ UNCHANGED <<scanned, age>>
       ELSE ScanDone
    /\ UNCHANGED <<memVars, user, diskVars, failedAgo, worldVars>>

\* wakeQuotaProcess checks the state, and the table, again under resumeMu.
WakeRecheck ==
    /\ scan = "collected" /\ resumeMu = "free"
    /\ IF isQuotaWakeCandidate(scanned, age) /\ table = scanned
       THEN scan' = "probe" /\ resumeMu' = "scan" /\ UNCHANGED <<scanned, age>>
       ELSE ScanDone
    /\ UNCHANGED <<memVars, user, diskVars, failedAgo, worldVars>>

Probe ==
    /\ scan = "probe"
    /\ scan' = IF llm THEN "unsuspend" ELSE "postpone"
    /\ UNCHANGED <<memVars, resumeMu, scanned, age, user, diskVars, failedAgo,
                   worldVars>>

\* A kill may have come first: Unsuspend then refuses.
WakeUnsuspend ==
    /\ scan = "unsuspend"
    /\ IF st[scanned] = "suspended"
       THEN /\ Put(scanned, "running", Never, FALSE)
            /\ unsaved' = (unsaved \/ table = scanned)
            /\ scan' = "reopen"
            /\ UNCHANGED <<resumeMu, scanned, age>>
       ELSE ScanDone /\ UNCHANGED <<st, wakeIn, reason, unsaved>>
    /\ UNCHANGED <<table, cutShort, drivers, leaving, user, disk, overtaken, failedAgo,
                   worldVars>>

\* Mutant: the manual resume's handling of a device that does not open.
WakeReopenTerminal ==
    /\ scan = "reopen"
    /\ IF llm
       THEN drivers' = [drivers EXCEPT ![scanned] = @ + 1] /\ UNCHANGED <<st, wakeIn,
                                                                          reason>>
       ELSE Put(scanned, "dead", Never, FALSE) /\ UNCHANGED drivers
    /\ ScanDone
    /\ UNCHANGED <<table, cutShort, leaving, user, diskVars, failedAgo, worldVars>>

\* The device opens and the reasoning loop starts, or the wake is rolled back
\* if there is still something to roll back.
WakeReopen ==
    /\ scan = "reopen"
    /\ IF llm
       THEN /\ drivers' = [drivers EXCEPT ![scanned] = @ + 1]
            /\ ScanDone
            /\ UNCHANGED <<st, wakeIn, reason>>
       ELSE /\ IF st[scanned] = "running"
               THEN Put(scanned, "suspended", Never, TRUE)
               ELSE UNCHANGED <<st, wakeIn, reason>>
            /\ scan' = "failed"
            /\ UNCHANGED <<drivers, scanned, age, resumeMu>>
    /\ UNCHANGED <<table, cutShort, leaving, user, diskVars, failedAgo, worldVars>>

\* Mutant: a wake that was rolled back gets no new instant.
WakeFailedForgets ==
    /\ scan = "failed"
    /\ ScanDone
    /\ UNCHANGED <<memVars, user, diskVars, failedAgo, worldVars>>

WakeFailed ==
    /\ scan = "failed"
    /\ IF st[scanned] = "suspended" /\ reason[scanned]
       THEN scan' = "postpone" /\ UNCHANGED <<scanned, age, resumeMu>>
       ELSE ScanDone
    /\ UNCHANGED <<memVars, user, diskVars, failedAgo, worldVars>>

\* Mutant: the postponed instant is anchored at the old one, which is due.
PostponeFromInstant ==
    /\ scan = "postpone"
    /\ wakeIn' = [wakeIn EXCEPT ![scanned] = 0]
    /\ scan' = "persist"
    /\ failedAgo' = age /\ age' = 0
    /\ UNCHANGED <<table, st, reason, cutShort, drivers, leaving, resumeMu, scanned,
                   user, diskVars, worldVars>>

\* postponeQuotaWake: a full backoff from the scan's `now', in memory ...
Postpone ==
    /\ scan = "postpone"
    /\ wakeIn' = [wakeIn EXCEPT ![scanned] = Backoff - age]
    /\ scan' = "persist"
    /\ failedAgo' = age /\ age' = 0
    /\ UNCHANGED <<table, st, reason, cutShort, drivers, leaving, resumeMu, scanned,
                   user, diskVars, worldVars>>

\* Mutant: the postponed instant stays in memory only.
PersistSkipped ==
    /\ scan = "persist"
    /\ ScanDone
    /\ UNCHANGED <<memVars, user, diskVars, failedAgo, worldVars>>

\* ... and then on disk.
Persist ==
    /\ scan = "persist"
    /\ IF table = scanned
       THEN disk' = Info(scanned) /\ unsaved' = FALSE /\ overtaken' = FALSE
       ELSE UNCHANGED diskVars
    /\ ScanDone
    /\ UNCHANGED <<memVars, user, failedAgo, worldVars>>

Scanner ==
    \/ Collect \/ WakeRecheck \/ Probe \/ WakeUnsuspend \/ WakeReopen \/ WakeFailed
    \/ Postpone \/ Persist

-----------------------------------------------------------------------------
(* The user's resumes, both under resumeMu.                                 *)

\* ResumeSubtree wakes the object in place.
ResumeInPlace ==
    /\ up /\ user = "idle" /\ resumeMu = "free"
    /\ table # NoObject /\ st[table] = "suspended"
    /\ Put(table, "running", Never, FALSE)
    /\ unsaved' = TRUE
    /\ resumeMu' = "user" /\ user' = "reopen"
    /\ UNCHANGED <<table, cutShort, drivers, leaving, scan, scanned, age, disk,
                   overtaken, failedAgo, worldVars>>

\* A device that does not open finishes the process, if nobody has yet.
ReopenInPlace ==
    /\ user = "reopen"
    /\ IF llm
       THEN /\ drivers' = [drivers EXCEPT ![table] = @ + 1]
            /\ UNCHANGED <<st, wakeIn, reason, unsaved>>
       ELSE /\ IF st[table] = "running"
               THEN Put(table, "dead", Never, FALSE) /\ unsaved' = TRUE
               ELSE UNCHANGED <<st, wakeIn, reason, unsaved>>
            /\ UNCHANGED drivers
    /\ Unlock /\ user' = "idle"
    /\ UNCHANGED <<table, cutShort, leaving, scan, scanned, age, disk, overtaken,
                   failedAgo, worldVars>>

\* Nobody refers to it: it may stand for the next *Process allocated.
Fresh(o) == o # scanned /\ drivers[o] = 0 /\ leaving[o] = Nobody

\* ResumeWithOpts: the old object leaves the table as it is ...
ResumeDetached ==
    /\ up /\ user = "idle" /\ resumeMu = "free" /\ llm
    /\ table # NoObject => st[table] \in {"suspended", "dead"}
    /\ \E o \in Objects : Fresh(o)
    /\ table' = NoObject
    /\ resumeMu' = "user" /\ user' = "replace"
    /\ UNCHANGED <<procVars, drivers, leaving, scan, scanned, age, diskVars, failedAgo,
                   worldVars>>

\* ... and a new one under the same UUID takes its place.
ResumeReplace ==
    /\ user = "replace"
    /\ \E o \in Objects :
         /\ Fresh(o)
         /\ table' = o
         /\ Put(o, "running", Never, FALSE)
         /\ cutShort' = [cutShort EXCEPT ![o] = FALSE]
         /\ drivers' = [drivers EXCEPT ![o] = 1]
    /\ disk' = Running
    /\ unsaved' = FALSE /\ overtaken' = FALSE
    /\ Unlock /\ user' = "idle"
    /\ UNCHANGED <<leaving, scan, scanned, age, failedAgo, worldVars>>

-----------------------------------------------------------------------------
(* The world.                                                               *)

DeviceFlips == llm' = ~llm /\ UNCHANGED <<memVars, threadVars, diskVars, writing,
                                          failedAgo, up>>

\* How long something has been due is of interest up to a backoff.
Down(w) == IF w > -Backoff THEN w - 1 ELSE w
Older(a) == IF a < Backoff THEN a + 1 ELSE Backoff

Tick ==
    /\ wakeIn' = [o \in Objects |-> Down(wakeIn[o])]
    /\ disk' = [disk EXCEPT !.wakeIn = Down(@)]
    /\ age' = IF scan \in {"idle", "persist"} THEN 0 ELSE Older(age)
    /\ failedAgo' = Older(failedAgo)
    /\ UNCHANGED <<table, st, reason, cutShort, drivers, leaving, resumeMu, scan,
                   scanned, user, unsaved, overtaken, worldVars>>

\* Only the disk survives.  A crash between a postpone and its save is the one
\* case that forgets the backoff.
Crash ==
    /\ up
    /\ up' = FALSE
    /\ table' = NoObject
    /\ st' = [o \in Objects |-> "free"]
    /\ wakeIn' = [o \in Objects |-> Never]
    /\ reason' = [o \in Objects |-> FALSE]
    /\ drivers' = [o \in Objects |-> 0]
    /\ leaving' = [o \in Objects |-> Nobody]
    /\ cutShort' = [o \in Objects |-> FALSE]
    /\ ScanDone /\ user' = "idle"
    /\ unsaved' = FALSE
    /\ writing' = FALSE
    /\ failedAgo' = IF scan = "persist" THEN Backoff ELSE failedAgo
    /\ UNCHANGED <<llm, disk, overtaken>>

\* LoadSuspendedFromDisk: a placeholder for a process saved as suspended.
Reload ==
    /\ ~up
    /\ up' = TRUE
    /\ IF disk.st = "suspended"
       THEN \E o \in Objects :
              table' = o /\ Put(o, "suspended", disk.wakeIn, disk.reason)
       ELSE UNCHANGED <<table, st, wakeIn, reason>>
    /\ UNCHANGED <<cutShort, drivers, leaving, llm, threadVars, diskVars, writing,
                   failedAgo>>

QuotaNext ==
    \/ \E o \in Objects : QuotaSuspend(o) \/ Leave(o) \/ Finishes(o) \/ Checkpoint(o)
    \/ CheckpointWrite
    \/ KillWhileSuspended \/ SaveProcInfo \/ Scanner
    \/ ResumeInPlace \/ ReopenInPlace \/ ResumeDetached \/ ResumeReplace
    \/ DeviceFlips \/ Tick \/ Crash \/ Reload

QuotaSpec == QuotaInit /\ [][QuotaNext]_quotaVars

-----------------------------------------------------------------------------
QuotaTypeOK ==
    /\ table \in Objects \union {NoObject}
    /\ st \in [Objects -> {"free", "running", "suspended", "dead"}]
    /\ \A o \in Objects : wakeIn[o] \in Never..Window \/ wakeIn[o] \in Never..Backoff
    /\ reason \in [Objects -> BOOLEAN]
    /\ drivers \in [Objects -> 0..1]
    /\ leaving \in [Objects -> [Phases -> 0..MaxLeaving]]
    /\ cutShort \in [Objects -> BOOLEAN]
    /\ resumeMu \in {"free", "scan", "user"}
    /\ scan \in {"idle", "collected", "probe", "unsuspend", "reopen", "failed", "postpone", "persist"}
    /\ scanned \in Objects \union {NoObject}
    /\ age \in 0..Backoff
    /\ user \in {"idle", "reopen", "replace"}
    /\ writing \in BOOLEAN
    /\ failedAgo \in 0..Backoff

(* One agent, one reasoning loop (quota_wake.go: "double-run the agent"):   *)
(* whatever is resumed by whom, a loop runs a Running process that is the   *)
(* UUID's in the table, and there is no second one, although goroutines of  *)
(* earlier suspends may still be leaving.  The exception is a loop whose    *)
(* process such a goroutine has ended as an "unexpected exit" (reason.go):  *)
(* nothing cancels that loop, so it may still run when the user resumes the *)
(* UUID once more.                                                          *)
OneDriver ==
    \A o \in Objects :
        drivers[o] > 0 =>
            /\ drivers[o] = 1
            /\ ~cutShort[o] =>
                 /\ st[o] = "running" /\ table = o
                 /\ \A p \in Objects \ {o} : drivers[p] > 0 => cutShort[p]

(* An automated wake never ends a process: only its own goroutines, a kill  *)
(* or a user's failed resume do (D3).                                       *)
WakeNeverKills ==
    [][scan' # scan => \A o \in Objects : st'[o] = "dead" => st[o] = "dead"]_quotaVars

(* A failed wake is not tried again before the whole backoff has passed     *)
(* since the tick that started the failed scan, a daemon restart included.  *)
(* That is not the gap between attempts: a scan that waited for resumeMu    *)
(* fails long after its tick, and what it waited counts towards the backoff *)
(* (quota_wake.go claims "the full quotaWakeRetryBackoff gap between        *)
(* attempts in every case").                                                *)
BackoffKept == failedAgo < Backoff => scan \notin {"probe", "unsuspend", "reopen"}

(* A suspension that was saved survives a crash: the placeholder a restart  *)
(* builds waits for the same instant, postponed or not, and for the same    *)
(* reason.  The exception is a checkpoint of before the suspension that is  *)
(* written after it.                                                        *)
SuspensionSurvives ==
    /\ table # NoObject /\ st[table] = "suspended" /\ ~unsaved /\ ~overtaken
    /\ scan \notin {"failed", "postpone", "persist"}
    => disk = Info(table)

-----------------------------------------------------------------------------
QuotaFairness ==
    /\ WF_quotaVars(Scanner) /\ WF_quotaVars(Tick) /\ SF_quotaVars(WakeRecheck)
    /\ WF_quotaVars(ReopenInPlace) /\ WF_quotaVars(ResumeReplace)
    /\ \A o \in Objects : WF_quotaVars(Leave(o))

QuotaFairSpec == QuotaSpec /\ QuotaFairness

(* A quota-suspended process with a reset instant is back at work in the    *)
(* end, or killed or replaced, if the device comes back for good and the    *)
(* daemon stays up: no failed wake leaves it without an instant, and once   *)
(* it is saved it is resumed however often the daemon crashed before.       *)
Woken ==
    <>[](llm /\ up) /\ []~overtaken =>
        /\ \A o \in Objects :
            table = o /\ st[o] = "suspended" /\ wakeIn[o] # Never
                /\ (reason[o] \/ leaving[o]["stamp"] > 0)
                ~> drivers[o] > 0 \/ st[o] = "dead" \/ table # o
        /\ disk.st = "suspended" /\ disk.reason /\ disk.wakeIn # Never /\ ~unsaved
                ~> \E o \in Objects : st[o] \in {"running", "dead"}
=============================================================================
