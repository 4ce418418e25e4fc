----------------------------- MODULE MountTable -----------------------------
(***************************************************************************)
(* One path of vfs.MountManager and the callers that share its MCP server: *)
(* processes that are resumed or forked from one another and so carry the  *)
(* same canonical mount path.                                              *)
(*                                                                         *)
(* An entry is one *MCPMount object.  The registry slot (mounts) is an     *)
(* atomic map cell; everything else about an entry is guarded by its own   *)
(* mutex, which Mount takes before it publishes the entry and keeps over   *)
(* the whole Connect.  One action is one atomic map operation, one lock    *)
(* section or one call on the transport.                                   *)
(***************************************************************************)
EXTENDS Naturals, FiniteSets

CONSTANTS
    Users,          \* process objects that carry the path in MCPMounts
    Entries,        \* MCPMount objects; a freed one may be reused
    NoEntry, NoUser,
    CleansReleased  \* cleanupOldProcessAndHistory unmounts a dead process's paths

ASSUME MountConstants ==
    /\ NoEntry \notin Entries
    /\ NoUser \notin Users
    /\ IsFiniteSet(Users)
    /\ CleansReleased \in BOOLEAN

VARIABLES
    mounts,     \* the entry registered at the path
    device,     \* the entry whose driver the device registry routes to
    lock,       \* entry -> holder of its mutex
    refCount,   \* entry -> refCount
    connected,  \* entry -> Status is Connected and transport is set
    running,    \* entry -> the transport's server process is alive
    pc,         \* user -> where the thread acting for it is
    loc,        \* user -> the entry its thread has loaded
    after,      \* user -> where the thread goes when Unmount returns
    owned       \* user -> the entry it holds a reference on

vars == <<mounts, device, lock, refCount, connected, running, pc, loc, after, owned>>
entryVars == <<mounts, device, lock, refCount, connected, running>>

Resting   == {"out", "attached", "kept", "dead"}
Attaching == {"list", "listing", "acquire", "acquiring", "mount", "connect",
              "register", "retry", "retrying"}
Releasing == {"unmount", "unmounting", "unregister", "close"}
PCs       == Resting \union Attaching \union Releasing

Init ==
    /\ mounts = NoEntry
    /\ device = NoEntry
    /\ lock = [e \in Entries |-> NoUser]
    /\ refCount = [e \in Entries |-> 0]
    /\ connected = [e \in Entries |-> FALSE]
    /\ running = [e \in Entries |-> FALSE]
    /\ pc = [u \in Users |-> "out"]
    /\ loc = [u \in Users |-> NoEntry]
    /\ after = [u \in Users |-> "out"]
    /\ owned = [u \in Users |-> NoEntry]

Goto(u, label) == pc' = [pc EXCEPT ![u] = label]

\* Nothing refers to the object: Go may hand its memory out again.
Free(e) ==
    /\ e # mounts /\ e # device /\ ~running[e] /\ lock[e] = NoUser
    /\ \A u \in Users : loc[u] # e /\ owned[u] # e

-----------------------------------------------------------------------------
(* The callers.                                                             *)

\* A new process object is rehydrated with the path of an older one: a fork,
\* or a suspended process loaded from disk.
Rehydrate(u) ==
    /\ pc[u] = "out"
    /\ Goto(u, "list")
    /\ UNCHANGED <<entryVars, loc, after, owned>>

\* finishProcess unmounts a snapshot of MCPMounts and leaves the field set.
Finish(u) ==
    /\ pc[u] = "attached"
    /\ Goto(u, "unmount")
    /\ after' = [after EXCEPT ![u] = "dead"]
    /\ UNCHANGED <<entryVars, loc, owned>>

\* A suspended process is killed or reaped: its mounts are not released.
KillSuspended(u) ==
    /\ pc[u] = "attached"
    /\ Goto(u, "kept")
    /\ UNCHANGED <<entryVars, loc, after, owned>>

\* Mutant: the reference of the process being replaced is forgotten.
ReplaceForgets(u) ==
    /\ pc[u] \in {"attached", "kept", "dead"}
    /\ owned' = [owned EXCEPT ![u] = NoEntry]
    /\ Goto(u, "list")
    /\ UNCHANGED <<entryVars, loc, after>>

\* A resume that is not a fork replaces the old object: its mounts are
\* released first, then the new object attaches (from history) or does not
\* (from a checkpoint, which restores no mounts).
Replace(u) ==
    /\ pc[u] \in {"attached", "kept", "dead"}
    /\ \E then \in {"list", "out"} :
         IF pc[u] = "dead" /\ ~CleansReleased
         THEN Goto(u, then) /\ UNCHANGED after
         ELSE Goto(u, "unmount") /\ after' = [after EXCEPT ![u] = then]
    /\ UNCHANGED <<entryVars, loc, owned>>

-----------------------------------------------------------------------------
(* reattachMCPMounts: look, acquire, else mount, else acquire once more.    *)

ListLoad(u) ==
    /\ pc[u] = "list"
    /\ IF mounts = NoEntry
       THEN Goto(u, "mount") /\ UNCHANGED loc
       ELSE Goto(u, "listing") /\ loc' = [loc EXCEPT ![u] = mounts]
    /\ UNCHANGED <<entryVars, after, owned>>

\* ListMounts copies the entry under its lock, whatever its status.
ListLocked(u) ==
    /\ pc[u] = "listing"
    /\ lock[loc[u]] = NoUser
    /\ Goto(u, "acquire")
    /\ loc' = [loc EXCEPT ![u] = NoEntry]
    /\ UNCHANGED <<entryVars, after, owned>>

\* Mutant: the last attempt falls back on a fresh mount too.
AcquireFailsLoops(from) == "mount"

AcquireFails(from) == IF from = "acquire" THEN "mount" ELSE "out"

AcquireLoad(u) ==
    /\ pc[u] \in {"acquire", "retry"}
    /\ IF mounts = NoEntry
       THEN Goto(u, AcquireFails(pc[u])) /\ UNCHANGED loc
       ELSE /\ Goto(u, IF pc[u] = "acquire" THEN "acquiring" ELSE "retrying")
            /\ loc' = [loc EXCEPT ![u] = mounts]
    /\ UNCHANGED <<entryVars, after, owned>>

\* Mutant: the entry is not compared with the registered one again.
AcquireStale(u) ==
    /\ pc[u] \in {"acquiring", "retrying"}
    /\ LET e == loc[u] IN
       /\ lock[e] = NoUser
       /\ IF connected[e]
          THEN /\ refCount' = [refCount EXCEPT ![e] = @ + 1]
               /\ owned' = [owned EXCEPT ![u] = e]
               /\ Goto(u, "attached")
          ELSE /\ Goto(u, AcquireFails(IF pc[u] = "acquiring" THEN "acquire" ELSE "retry"))
               /\ UNCHANGED <<refCount, owned>>
    /\ loc' = [loc EXCEPT ![u] = NoEntry]
    /\ UNCHANGED <<mounts, device, lock, connected, running, after>>

\* The entry was loaded before the lock was taken, so it is compared again.
AcquireLocked(u) ==
    /\ pc[u] \in {"acquiring", "retrying"}
    /\ LET e == loc[u] IN
       /\ lock[e] = NoUser
       /\ IF mounts = e /\ connected[e]
          THEN /\ refCount' = [refCount EXCEPT ![e] = @ + 1]
               /\ owned' = [owned EXCEPT ![u] = e]
               /\ Goto(u, "attached")
          ELSE /\ Goto(u, AcquireFails(IF pc[u] = "acquiring" THEN "acquire" ELSE "retry"))
               /\ UNCHANGED <<refCount, owned>>
    /\ loc' = [loc EXCEPT ![u] = NoEntry]
    /\ UNCHANGED <<mounts, device, lock, connected, running, after>>

\* Reserve: a locked placeholder is published, or ErrAlreadyMounted.
MountReserve(u) ==
    /\ pc[u] = "mount"
    /\ IF mounts # NoEntry
       THEN Goto(u, "retry") /\ UNCHANGED <<entryVars, loc>>
       ELSE /\ \E e \in Entries :
               /\ Free(e)
               /\ mounts' = e
               /\ lock' = [lock EXCEPT ![e] = u]
               /\ refCount' = [refCount EXCEPT ![e] = 0]
               /\ connected' = [connected EXCEPT ![e] = FALSE]
               /\ loc' = [loc EXCEPT ![u] = e]
            /\ Goto(u, "connect")
            /\ UNCHANGED <<device, running>>
    /\ UNCHANGED <<after, owned>>

\* Connect runs with the entry locked and no other path held up.
ConnectOk(u) ==
    /\ pc[u] = "connect"
    /\ LET e == loc[u] IN
       /\ running' = [running EXCEPT ![e] = TRUE]
       /\ connected' = [connected EXCEPT ![e] = TRUE]
       /\ refCount' = [refCount EXCEPT ![e] = 1]
       /\ owned' = [owned EXCEPT ![u] = e]
    /\ Goto(u, "register")
    /\ UNCHANGED <<mounts, device, lock, loc, after>>

\* The placeholder goes, the lock is released, and a child that was half
\* started is closed.
ConnectFails(u) ==
    /\ pc[u] = "connect"
    /\ mounts' = NoEntry
    /\ lock' = [lock EXCEPT ![loc[u]] = NoUser]
    /\ \E started \in BOOLEAN : running' = [running EXCEPT ![loc[u]] = started]
    /\ Goto(u, "close")
    /\ after' = [after EXCEPT ![u] = "out"]
    /\ UNCHANGED <<device, refCount, connected, loc, owned>>

\* Mutant: an older registration is overwritten.
RegisterOverwrites(u) ==
    /\ pc[u] = "register"
    /\ device' = loc[u]
    /\ lock' = [lock EXCEPT ![loc[u]] = NoUser]
    /\ loc' = [loc EXCEPT ![u] = NoEntry]
    /\ Goto(u, "attached")
    /\ UNCHANGED <<mounts, refCount, connected, running, after, owned>>

\* The device registry refuses a path it still routes: the mount before this
\* one has left the table but is not unregistered yet.
Register(u) ==
    /\ pc[u] = "register"
    /\ lock' = [lock EXCEPT ![loc[u]] = NoUser]
    /\ IF device = NoEntry
       THEN /\ device' = loc[u]
            /\ loc' = [loc EXCEPT ![u] = NoEntry]
            /\ Goto(u, "attached")
            /\ UNCHANGED <<mounts, after, owned>>
       ELSE /\ mounts' = NoEntry
            /\ owned' = [owned EXCEPT ![u] = NoEntry]
            /\ after' = [after EXCEPT ![u] = "out"]
            /\ Goto(u, "close")
            /\ UNCHANGED <<device, loc>>
    /\ UNCHANGED <<refCount, connected, running>>

-----------------------------------------------------------------------------
(* Unmount.                                                                 *)

UnmountLoad(u) ==
    /\ pc[u] = "unmount"
    /\ IF mounts = NoEntry
       THEN Goto(u, after[u]) /\ UNCHANGED loc
       ELSE Goto(u, "unmounting") /\ loc' = [loc EXCEPT ![u] = mounts]
    /\ UNCHANGED <<entryVars, after, owned>>

\* Drop one reference; the last one takes the entry out of the table and goes
\* on holding its lock.
UnmountLocked(u) ==
    /\ pc[u] = "unmounting"
    /\ LET e == loc[u]
           last == refCount[e] = 1
       IN  /\ lock[e] = NoUser
           /\ IF mounts # e \/ refCount[e] <= 0
              THEN /\ Goto(u, after[u])
                   /\ loc' = [loc EXCEPT ![u] = NoEntry]
                   /\ UNCHANGED <<entryVars, owned>>
              ELSE /\ refCount' = [refCount EXCEPT ![e] = @ - 1]
                   /\ owned' = [owned EXCEPT ![u] = NoEntry]
                   /\ mounts' = IF last THEN NoEntry ELSE mounts
                   /\ lock' = IF last THEN [lock EXCEPT ![e] = u] ELSE lock
                   /\ Goto(u, IF last THEN "unregister" ELSE after[u])
                   /\ loc' = IF last THEN loc ELSE [loc EXCEPT ![u] = NoEntry]
                   /\ UNCHANGED <<device, connected, running>>
    /\ UNCHANGED after

Unregister(u) ==
    /\ pc[u] = "unregister"
    /\ device' = NoEntry
    /\ lock' = [lock EXCEPT ![loc[u]] = NoUser]
    /\ Goto(u, "close")
    /\ UNCHANGED <<mounts, refCount, connected, running, loc, after, owned>>

\* Mutant: a half-started or unregistered transport is not closed.
CloseSkipped(u) ==
    /\ pc[u] = "close"
    /\ loc' = [loc EXCEPT ![u] = NoEntry]
    /\ Goto(u, after[u])
    /\ UNCHANGED <<mounts, device, lock, refCount, connected, running, after, owned>>

\* transport.Close, after the entry's lock is released.
Close(u) ==
    /\ pc[u] = "close"
    /\ running' = [running EXCEPT ![loc[u]] = FALSE]
    /\ loc' = [loc EXCEPT ![u] = NoEntry]
    /\ Goto(u, after[u])
    /\ UNCHANGED <<mounts, device, lock, refCount, connected, after, owned>>

-----------------------------------------------------------------------------
Attach(u) ==
    \/ ListLoad(u) \/ ListLocked(u) \/ AcquireLoad(u) \/ AcquireLocked(u)
    \/ MountReserve(u) \/ ConnectOk(u) \/ ConnectFails(u) \/ Register(u)

Release(u) == UnmountLoad(u) \/ UnmountLocked(u) \/ Unregister(u) \/ Close(u)

Step(u) == Attach(u) \/ Release(u)

Next ==
    \E u \in Users :
        Rehydrate(u) \/ Finish(u) \/ KillSuspended(u) \/ Replace(u) \/ Step(u)

Spec == Init /\ [][Next]_vars

-----------------------------------------------------------------------------
TypeOK ==
    /\ mounts \in Entries \union {NoEntry}
    /\ device \in Entries \union {NoEntry}
    /\ lock \in [Entries -> Users \union {NoUser}]
    /\ refCount \in [Entries -> Nat]
    /\ connected \in [Entries -> BOOLEAN]
    /\ running \in [Entries -> BOOLEAN]
    /\ pc \in [Users -> PCs]
    /\ loc \in [Users -> Entries \union {NoEntry}]
    /\ after \in [Users -> {"out", "list", "dead"}]
    /\ owned \in [Users -> Entries \union {NoEntry}]

Owners(e) == {u \in Users : owned[u] = e}

(* An entry counts exactly the processes that own it, and a process that    *)
(* owns one owns the registered one: no Acquire lands on an entry that was  *)
(* torn down between its load and its lock.                                 *)
RefCountIsOwners ==
    /\ \A u \in Users : owned[u] # NoEntry => owned[u] = mounts
    /\ mounts # NoEntry => refCount[mounts] = Cardinality(Owners(mounts))

(* A process that is attached has a live server behind the path it was      *)
(* given, and opening the path reaches that server and no earlier one       *)
(* (mount.go, Unmount: "without one's exit stranding the other").           *)
OwnersServed ==
    \A u \in Users :
        pc[u] \in {"attached", "kept"} =>
            /\ owned[u] # NoEntry
            /\ device = owned[u]
            /\ running[owned[u]]

(* Every server process alive is the registered one or is about to be       *)
(* closed by a thread that still refers to it: none is leaked.              *)
NoOrphanServer ==
    \A e \in Entries :
        running[e] => mounts = e \/ \E u \in Users : loc[u] = e /\ pc[u] \in {"unregister", "close"}

(* The device registry never routes to an entry without a server, except    *)
(* between an unmount's two steps.                                          *)
RoutedIsLive ==
    device # NoEntry =>
        /\ running[device]
        /\ mounts = device \/ \E u \in Users : loc[u] = device /\ pc[u] = "unregister"

Shared == INSTANCE SharedServer WITH
    owners <- {u \in Users : owned[u] # NoEntry /\ pc[u] # "register"},
    up <- device # NoEntry /\ device = mounts

(* The mount table implements a server owned in common.                     *)
ImplementsShared == Shared!SSpec

(* Threads in an operation keep running; a mutex that is freed again and    *)
(* again is in the end handed to a waiter (sync.Mutex starvation mode).     *)
Fairness ==
    \A u \in Users :
        WF_vars(Step(u)) /\ SF_vars(ListLocked(u)) /\ SF_vars(AcquireLocked(u))
                         /\ SF_vars(UnmountLocked(u))

FairSpec == Spec /\ Fairness

(* Attaching always ends, attached or pruned: Acquire falling back to Mount *)
(* and Mount to Acquire is no endless loop (mount.go: "no ErrAlreadyMounted *)
(* death loop"), and no thread waits for ever on an entry's lock.           *)
AttachReturns ==
    \A u \in Users : pc[u] \in Attaching ~> pc[u] \in {"attached", "out"}
=============================================================================
