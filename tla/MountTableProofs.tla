-------------------------- MODULE MountTableProofs --------------------------
(***************************************************************************)
(* A mounted server is shared correctly by any number of processes, as     *)
(* long as a caller releases once per reference (CleansReleased is FALSE). *)
(* The inductive invariant MountInv says where every entry is in its life: *)
(* being connected by the thread that holds its lock, registered by it,    *)
(* live with the device routed to it, or out of the table on its way to    *)
(* being closed.                                                           *)
(***************************************************************************)
EXTENDS MountTable, FiniteSetTheorems, TLAPS

Locking == {"connect", "register", "unregister"}
Loaded  == {"listing", "acquiring", "retrying", "unmounting", "close"}
Owning  == {"register", "attached", "kept", "unmount", "unmounting"}

\* A thread has loaded an entry exactly in the sections that use one, and an
\* entry's lock is held exactly by the thread inside its locked section.
LockDiscipline ==
    /\ \A u \in Users : loc[u] # NoEntry <=> pc[u] \in Locking \union Loaded
    /\ \A u \in Users : pc[u] \in Locking => lock[loc[u]] = u
    /\ \A e \in Entries : lock[e] # NoUser => pc[lock[e]] \in Locking /\ loc[lock[e]] = e

\* What is private to a thread that mounts or unmounts.
EntryLife ==
    /\ \A u \in Users : pc[u] \in {"connect", "register"} =>
          /\ loc[u] = mounts
          /\ device # loc[u]
          /\ \A v \in Users : v # u => owned[v] = NoEntry
    /\ \A u \in Users : pc[u] = "connect" => ~running[loc[u]] /\ ~connected[loc[u]]
    /\ \A u \in Users : pc[u] = "unregister" => mounts # loc[u] /\ device = loc[u] /\ running[loc[u]]
    /\ \A u \in Users : pc[u] = "close" => mounts # loc[u] /\ device # loc[u]

\* A registered entry whose lock is free is live, routed and owned.
LiveEntry ==
    mounts # NoEntry =>
        \/ \E u \in Users : pc[u] = "connect" /\ loc[u] = mounts
        \/ \E u \in Users : pc[u] = "register" /\ loc[u] = mounts /\ running[mounts]
        \/ running[mounts] /\ device = mounts /\ refCount[mounts] > 0

Ownership ==
    /\ \A u \in Users : owned[u] # NoEntry <=> pc[u] \in Owning
    /\ \A u \in Users : owned[u] # NoEntry => owned[u] = mounts
    /\ \A u \in Users : pc[u] = "unmounting" => loc[u] = owned[u]

Counted == mounts # NoEntry => refCount[mounts] = Cardinality(Owners(mounts))

MountInv ==
    /\ TypeOK
    /\ LockDiscipline
    /\ EntryLife
    /\ LiveEntry
    /\ Ownership
    /\ Counted
    /\ NoOrphanServer
    /\ RoutedIsLive

-----------------------------------------------------------------------------
(* Counting owners.                                                         *)

LEMMA OwnersFinite ==
    ASSUME NEW e
    PROVE  IsFiniteSet(Owners(e)) /\ Cardinality(Owners(e)) \in Nat
  <1>1. Owners(e) \in SUBSET Users  BY DEF Owners
  <1>2. IsFiniteSet(Owners(e))  BY <1>1, MountConstants, FS_Subset
  <1> QED  BY <1>2, FS_CardinalityType

LEMMA OwnerGained ==
    ASSUME TypeOK, NEW u \in Users, NEW e \in Entries,
           owned[u] = NoEntry, owned' = [owned EXCEPT ![u] = e]
    PROVE  Cardinality(Owners(e)') = Cardinality(Owners(e)) + 1
  <1>1. u \notin Owners(e)  BY MountConstants DEF Owners
  <1>2. Owners(e)' = Owners(e) \union {u}  BY MountConstants DEF Owners, TypeOK
  <1> QED  BY <1>1, <1>2, OwnersFinite, FS_AddElement

LEMMA OwnerLost ==
    ASSUME TypeOK, NEW u \in Users, NEW e \in Entries,
           owned[u] = e, owned' = [owned EXCEPT ![u] = NoEntry]
    PROVE  Cardinality(Owners(e)') = Cardinality(Owners(e)) - 1
  <1>1. u \in Owners(e)  BY DEF Owners
  <1>2. Owners(e)' = Owners(e) \ {u}  BY MountConstants DEF Owners, TypeOK
  <1> QED  BY <1>1, <1>2, OwnersFinite, FS_RemoveElement

LEMMA SoleOwner ==
    ASSUME NEW u \in Users, NEW e \in Entries,
           owned[u] = e, Cardinality(Owners(e)) = 1
    PROVE  \A v \in Users : owned[v] = e => v = u
  <1>1. PICK x : Owners(e) = {x}  BY OwnersFinite, FS_Singleton
  <1> QED  BY <1>1 DEF Owners

LEMMA NoOwner ==
    ASSUME NEW e, \A v \in Users : owned[v] # e
    PROVE  Cardinality(Owners(e)) = 0
  <1>1. Owners(e) = {}  BY DEF Owners
  <1> QED  BY <1>1, FS_EmptySet

LEMMA HasOwner ==
    ASSUME NEW e, Cardinality(Owners(e)) > 0
    PROVE  \E v \in Users : owned[v] = e
  <1>1. Owners(e) # {}  BY FS_EmptySet
  <1> QED  BY <1>1 DEF Owners

-----------------------------------------------------------------------------
(* A thread that is in no locked section moves to another such place, and   *)
(* perhaps loads or forgets an entry: nothing shared changes.               *)
LEMMA Moves ==
    ASSUME MountInv, UNCHANGED entryVars, UNCHANGED owned,
           NEW u \in Users, NEW label \in PCs, NEW e \in Entries \union {NoEntry},
           pc' = [pc EXCEPT ![u] = label], loc' = [loc EXCEPT ![u] = e],
           after' \in [Users -> {"out", "list", "dead"}],
           pc[u] \notin Locking \union {"close"}, label \notin Locking \union {"close"},
           label \in Owning <=> pc[u] \in Owning,
           e # NoEntry <=> label \in Loaded,
           label = "unmounting" => e = mounts
    PROVE  MountInv'
  <1> USE DEF MountInv, entryVars
  <1>t. TypeOK'  BY DEF TypeOK
  <1>pc. \A v \in Users : pc'[v] = IF v = u THEN label ELSE pc[v]  BY DEF TypeOK
  <1>loc. \A v \in Users : loc'[v] = IF v = u THEN e ELSE loc[v]  BY DEF TypeOK
  <1>1. LockDiscipline'  BY <1>pc, <1>loc DEF LockDiscipline, TypeOK, Locking, Loaded
  <1>2. EntryLife'  BY <1>pc, <1>loc DEF EntryLife, Locking
  <1>3. LiveEntry'  BY <1>pc, <1>loc DEF LiveEntry, Locking
  <1>4. Ownership'  BY <1>pc, <1>loc DEF Ownership, Owning
  <1>5. Counted'  BY DEF Counted, Owners
  <1>6. NoOrphanServer'  BY <1>pc, <1>loc DEF NoOrphanServer, Locking
  <1>7. RoutedIsLive'  BY <1>pc, <1>loc DEF RoutedIsLive, Locking
  <1> QED  BY <1>t, <1>1, <1>2, <1>3, <1>4, <1>5, <1>6, <1>7

\* The steps of a thread that change nothing shared.
LEMMA MovingSteps ==
    ASSUME MountInv, ~CleansReleased, NEW u \in Users,
           \/ Rehydrate(u) \/ Finish(u) \/ KillSuspended(u) \/ Replace(u)
           \/ ListLoad(u) \/ ListLocked(u) \/ AcquireLoad(u) \/ UnmountLoad(u)
           \/ pc[u] = "mount" /\ mounts # NoEntry /\ MountReserve(u)
    PROVE  MountInv'
  <1> USE DEF Goto, PCs, Resting, Attaching, Releasing, Locking, Loaded, Owning
  <1>t. TypeOK /\ LockDiscipline /\ Ownership  BY DEF MountInv
  <1>l. loc = [loc EXCEPT ![u] = loc[u]] /\ loc[u] \in Entries \union {NoEntry}
    BY <1>t DEF TypeOK
  <1>1. CASE Rehydrate(u) \/ Finish(u) \/ KillSuspended(u)
    BY <1>1, <1>t, <1>l, Moves, MountConstants
       DEF Rehydrate, Finish, KillSuspended, TypeOK, LockDiscipline
  <1>2. CASE Replace(u)
    <2>1. PICK then \in {"list", "out"} :
              \/ pc' = [pc EXCEPT ![u] = then] /\ after' = after /\ pc[u] = "dead"
              \/ pc' = [pc EXCEPT ![u] = "unmount"] /\ after' = [after EXCEPT ![u] = then]
                 /\ pc[u] \in {"attached", "kept"}
      BY <1>2 DEF Replace
    <2> QED
      BY <1>2, <2>1, <1>t, <1>l, Moves, MountConstants DEF Replace, TypeOK, LockDiscipline
  <1>3. CASE ListLoad(u) \/ ListLocked(u)
    BY <1>3, <1>t, <1>l, Moves, MountConstants DEF ListLoad, ListLocked, TypeOK, LockDiscipline
  <1>4. CASE AcquireLoad(u)
    BY <1>4, <1>t, <1>l, Moves, MountConstants
       DEF AcquireLoad, AcquireFails, TypeOK, LockDiscipline
  <1>5. CASE UnmountLoad(u)
    <2>1. mounts # NoEntry  BY <1>5, <1>t DEF UnmountLoad, Ownership, TypeOK
    <2> QED
      BY <1>5, <2>1, <1>t, <1>l, Moves, MountConstants DEF UnmountLoad, TypeOK, LockDiscipline
  <1>6. CASE pc[u] = "mount" /\ mounts # NoEntry /\ MountReserve(u)
    BY <1>6, <1>t, <1>l, Moves, MountConstants DEF MountReserve, TypeOK, LockDiscipline
  <1> QED  BY <1>1, <1>2, <1>3, <1>4, <1>5, <1>6

-----------------------------------------------------------------------------
(* The steps that change an entry, the table or the device registry.        *)

LEMMA AcquirePreserves ==
    ASSUME MountInv, NEW u \in Users, AcquireLocked(u)
    PROVE  MountInv'
  <1> USE DEF Goto, PCs, Resting, Attaching, Releasing, Locking, Loaded, Owning, MountInv
  <1> DEFINE e == loc[u]
  <1>e. e \in Entries /\ lock[e] = NoUser /\ pc[u] \in {"acquiring", "retrying"}
    BY DEF AcquireLocked, LockDiscipline, TypeOK
  <1>1. CASE mounts = e /\ connected[e]
    <2>0. /\ refCount' = [refCount EXCEPT ![e] = @ + 1]
          /\ owned' = [owned EXCEPT ![u] = e]
          /\ pc' = [pc EXCEPT ![u] = "attached"]
          /\ loc' = [loc EXCEPT ![u] = NoEntry]
          /\ UNCHANGED <<mounts, device, lock, connected, running, after>>
      BY <1>1 DEF AcquireLocked
    <2>t. TypeOK'  BY <2>0, <1>e DEF TypeOK
    <2>p. \A v \in Users : /\ pc'[v] = IF v = u THEN "attached" ELSE pc[v]
                           /\ loc'[v] = IF v = u THEN NoEntry ELSE loc[v]
                           /\ owned'[v] = IF v = u THEN e ELSE owned[v]
      BY <2>0 DEF TypeOK
    <2>f. \A v \in Users : pc[v] \in {"connect", "register"} => FALSE
      BY <1>1, <1>e, MountConstants DEF EntryLife, LockDiscipline
    <2>1. LockDiscipline'  BY <2>0, <2>p, <1>e, MountConstants DEF LockDiscipline
    <2>2. EntryLife'  BY <2>0, <2>p, <2>f, <1>e DEF EntryLife
    <2>3. LiveEntry'  BY <2>0, <2>p, <2>f, <1>e, <1>1 DEF LiveEntry, TypeOK
    <2>4. Ownership'  BY <2>0, <2>p, <1>1, <1>e, MountConstants DEF Ownership
    <2>5. Counted'
      <3>1. owned[u] = NoEntry  BY <1>e DEF Ownership
      <3> QED  BY <2>0, <3>1, <1>1, <1>e, OwnerGained DEF Counted, TypeOK
    <2>6. NoOrphanServer'  BY <2>0, <2>p, <1>e DEF NoOrphanServer
    <2>7. RoutedIsLive'  BY <2>0, <2>p, <1>e DEF RoutedIsLive
    <2> QED  BY <2>t, <2>1, <2>2, <2>3, <2>4, <2>5, <2>6, <2>7
  <1>2. CASE ~(mounts = e /\ connected[e])
    <2>1. PICK label \in {"mount", "out"} : pc' = [pc EXCEPT ![u] = label]
      BY <1>2, <1>e DEF AcquireLocked, AcquireFails
    <2>2. UNCHANGED <<entryVars, owned, after>> /\ loc' = [loc EXCEPT ![u] = NoEntry]
      BY <1>2 DEF AcquireLocked, entryVars
    <2>3. after' \in [Users -> {"out", "list", "dead"}]  BY <2>2 DEF TypeOK
    <2> QED  BY <1>e, <2>1, <2>2, <2>3, Moves, MountConstants
  <1> QED  BY <1>1, <1>2

LEMMA ReservePreserves ==
    ASSUME MountInv, NEW u \in Users, MountReserve(u), mounts = NoEntry
    PROVE  MountInv'
  <1> USE DEF PCs, Resting, Attaching, Releasing, Locking, Loaded, Owning, MountInv
  <1>1. PICK e \in Entries :
          /\ Free(e)
          /\ mounts' = e
          /\ lock' = [lock EXCEPT ![e] = u]
          /\ refCount' = [refCount EXCEPT ![e] = 0]
          /\ connected' = [connected EXCEPT ![e] = FALSE]
          /\ loc' = [loc EXCEPT ![u] = e]
          /\ pc' = [pc EXCEPT ![u] = "connect"]
          /\ UNCHANGED <<device, running, after, owned>>
          /\ pc[u] = "mount"
    BY DEF MountReserve, Goto
  <1>f. /\ e # device /\ ~running[e] /\ lock[e] = NoUser
        /\ \A v \in Users : loc[v] # e /\ owned[v] # e
    BY <1>1 DEF Free
  <1>n. \A v \in Users : owned[v] = NoEntry  BY DEF Ownership
  <1>t. TypeOK'  BY <1>1 DEF TypeOK
  <1>p. \A v \in Users : /\ pc'[v] = IF v = u THEN "connect" ELSE pc[v]
                         /\ loc'[v] = IF v = u THEN e ELSE loc[v]
    BY <1>1 DEF TypeOK
  <1>q. \A v \in Users : pc[v] \notin {"connect", "register"}
    <2>1. \A v \in Users : pc[v] \in {"connect", "register"} => loc[v] = NoEntry  BY DEF EntryLife
    <2> QED  BY <2>1 DEF LockDiscipline
  <1>2. LockDiscipline'  BY <1>1, <1>p, <1>f, MountConstants DEF LockDiscipline, TypeOK
  <1>3. EntryLife'  BY <1>1, <1>p, <1>q, <1>f, <1>n, <1>t DEF EntryLife, TypeOK
  <1>4. LiveEntry'  BY <1>1, <1>p DEF LiveEntry
  <1>5. Ownership'  BY <1>1, <1>p, <1>n DEF Ownership
  <1>6. Counted'
    <2>1. Cardinality(Owners(e)) = 0  BY <1>f, NoOwner
    <2>2. Owners(e)' = Owners(e)  BY <1>1 DEF Owners
    <2> QED  BY <1>1, <2>1, <2>2 DEF Counted, TypeOK
  <1>7. NoOrphanServer'  BY <1>1, <1>p, MountConstants DEF NoOrphanServer
  <1>8. RoutedIsLive'  BY <1>1, <1>p, <1>f DEF RoutedIsLive
  <1> QED  BY <1>t, <1>2, <1>3, <1>4, <1>5, <1>6, <1>7, <1>8

LEMMA ConnectOkPreserves ==
    ASSUME MountInv, NEW u \in Users, ConnectOk(u)
    PROVE  MountInv'
  <1> USE DEF PCs, Resting, Attaching, Releasing, Locking, Loaded, Owning, MountInv
  <1>0. PICK e \in Entries : e = loc[u]
    BY MountConstants DEF ConnectOk, LockDiscipline, TypeOK
  <1>1. /\ running' = [running EXCEPT ![e] = TRUE]
        /\ connected' = [connected EXCEPT ![e] = TRUE]
        /\ refCount' = [refCount EXCEPT ![e] = 1]
        /\ owned' = [owned EXCEPT ![u] = e]
        /\ pc' = [pc EXCEPT ![u] = "register"]
        /\ UNCHANGED <<mounts, device, lock, loc, after>>
        /\ pc[u] = "connect"
    BY <1>0 DEF ConnectOk, Goto
  <1>e. loc[u] = e /\ mounts = e /\ device # e  BY <1>0, <1>1 DEF LockDiscipline, EntryLife, TypeOK
  <1>n. \A v \in Users : owned[v] = NoEntry
    BY <1>1 DEF EntryLife, Ownership
  <1>t. TypeOK'  BY <1>1, <1>e DEF TypeOK
  <1>p. \A v \in Users : /\ pc'[v] = IF v = u THEN "register" ELSE pc[v]
                         /\ owned'[v] = IF v = u THEN e ELSE owned[v]
    BY <1>1 DEF TypeOK
  <1>r. running'[e] /\ connected'[e] /\ \A d \in Entries : d # e => running'[d] = running[d] /\ connected'[d] = connected[d]
    BY <1>1, <1>e DEF TypeOK
  <1>2. LockDiscipline'  BY <1>1, <1>p, <1>e DEF LockDiscipline, TypeOK
  <1>3. EntryLife'
    <2>1. \A v \in Users : v # u => pc[v] # "connect" /\ pc[v] # "register"
      BY <1>1, <1>e DEF EntryLife, LockDiscipline
    <2> QED  BY <1>1, <1>p, <1>n, <1>e, <1>r, <2>1 DEF EntryLife, TypeOK, LockDiscipline
  <1>4. LiveEntry'  BY <1>1, <1>p, <1>r, <1>e DEF LiveEntry
  <1>5. Ownership'  BY <1>1, <1>p, <1>n, <1>e, MountConstants DEF Ownership
  <1>6. Counted'
    <2>1. Cardinality(Owners(e)) = 0  BY <1>n, <1>e, NoOwner, MountConstants
    <2>2. Cardinality(Owners(e)') = Cardinality(Owners(e)) + 1
      BY <1>1, <1>n, OwnerGained
    <2> QED  BY <1>1, <1>e, <2>1, <2>2 DEF Counted, TypeOK
  <1>7. NoOrphanServer'  BY <1>1, <1>p, <1>r, <1>e DEF NoOrphanServer
  <1>8. RoutedIsLive'  BY <1>1, <1>p, <1>r, <1>e DEF RoutedIsLive, TypeOK
  <1> QED  BY <1>t, <1>2, <1>3, <1>4, <1>5, <1>6, <1>7, <1>8

LEMMA ConnectFailsPreserves ==
    ASSUME MountInv, NEW u \in Users, ConnectFails(u)
    PROVE  MountInv'
  <1> USE DEF PCs, Resting, Attaching, Releasing, Locking, Loaded, Owning, MountInv
  <1>0. PICK e \in Entries : e = loc[u]
    BY MountConstants DEF ConnectFails, LockDiscipline, TypeOK
  <1>1. PICK started \in BOOLEAN :
        /\ mounts' = NoEntry
        /\ running' = [running EXCEPT ![e] = started]
        /\ lock' = [lock EXCEPT ![e] = NoUser]
        /\ pc' = [pc EXCEPT ![u] = "close"]
        /\ after' = [after EXCEPT ![u] = "out"]
        /\ UNCHANGED <<device, refCount, connected, loc, owned>>
        /\ pc[u] = "connect"
    BY <1>0 DEF ConnectFails, Goto
  <1>e. mounts = e /\ device # e /\ lock[e] = u  BY <1>0, <1>1 DEF LockDiscipline, EntryLife
  <1>n. \A v \in Users : owned[v] = NoEntry  BY <1>1 DEF EntryLife, Ownership
  <1>t. TypeOK'  BY <1>1 DEF TypeOK
  <1>p. \A v \in Users : pc'[v] = IF v = u THEN "close" ELSE pc[v]  BY <1>1 DEF TypeOK
  <1>q. \A v \in Users : v # u => pc[v] \notin {"connect", "register"}
    BY <1>e, <1>0 DEF EntryLife, LockDiscipline
  <1>2. LockDiscipline'  BY <1>0, <1>1, <1>p, <1>e, MountConstants DEF LockDiscipline, TypeOK
  <1>3. EntryLife'
    BY <1>0, <1>1, <1>p, <1>q, <1>e, MountConstants DEF EntryLife, LockDiscipline, TypeOK
  <1>4. LiveEntry'  BY <1>1 DEF LiveEntry
  <1>5. Ownership'  BY <1>1, <1>p, <1>n DEF Ownership
  <1>6. Counted'  BY <1>1 DEF Counted
  <1>7. NoOrphanServer'  BY <1>0, <1>1, <1>p, <1>e DEF NoOrphanServer, TypeOK
  <1>8. RoutedIsLive'  BY <1>0, <1>1, <1>p, <1>e DEF RoutedIsLive, TypeOK
  <1> QED  BY <1>t, <1>2, <1>3, <1>4, <1>5, <1>6, <1>7, <1>8

LEMMA RegisterPreserves ==
    ASSUME MountInv, NEW u \in Users, Register(u)
    PROVE  MountInv'
  <1> USE DEF PCs, Resting, Attaching, Releasing, Locking, Loaded, Owning, MountInv
  <1>0. PICK e \in Entries : e = loc[u] /\ pc[u] = "register"
    BY MountConstants DEF Register, LockDiscipline, TypeOK
  <1>e. mounts = e /\ device # e /\ lock[e] = u /\ owned[u] = e
    BY <1>0 DEF LockDiscipline, EntryLife, Ownership
  <1>n. \A v \in Users : v # u => owned[v] = NoEntry  BY <1>0 DEF EntryLife
  <1>q. \A v \in Users : v # u => pc[v] \notin {"connect", "register"}
    BY <1>e, <1>0 DEF EntryLife, LockDiscipline
  <1>r. running[e] /\ refCount[e] = 1
    <2>1. running[e]  BY <1>0, <1>e, <1>q, MountConstants DEF LiveEntry
    <2>2. Owners(e) = {u}  BY <1>e, <1>n, MountConstants DEF Owners
    <2> QED  BY <2>1, <2>2, <1>e, FS_Singleton, MountConstants DEF Counted
  <1>1. CASE device = NoEntry
    <2>1. /\ device' = e
          /\ lock' = [lock EXCEPT ![e] = NoUser]
          /\ loc' = [loc EXCEPT ![u] = NoEntry]
          /\ pc' = [pc EXCEPT ![u] = "attached"]
          /\ UNCHANGED <<mounts, refCount, connected, running, after, owned>>
      BY <1>0, <1>1 DEF Register, Goto
    <2>t. TypeOK'  BY <2>1 DEF TypeOK
    <2>p. \A v \in Users : /\ pc'[v] = IF v = u THEN "attached" ELSE pc[v]
                           /\ loc'[v] = IF v = u THEN NoEntry ELSE loc[v]
      BY <2>1 DEF TypeOK
    <2>2. LockDiscipline'  BY <2>1, <2>p, <1>e, <1>0, MountConstants DEF LockDiscipline, TypeOK
    <2>3. EntryLife'
      BY <2>1, <2>p, <1>q, <1>e, <1>1, MountConstants DEF EntryLife, LockDiscipline, TypeOK
    <2>4. LiveEntry'  BY <2>1, <1>e, <1>r DEF LiveEntry, TypeOK
    <2>5. Ownership'  BY <2>1, <2>p, <1>0 DEF Ownership
    <2>6. Counted'  BY <2>1 DEF Counted, Owners
    <2>7. NoOrphanServer'  BY <2>1, <2>p, <1>0, <1>e DEF NoOrphanServer
    <2>8. RoutedIsLive'  BY <2>1, <1>e, <1>r DEF RoutedIsLive
    <2> QED  BY <2>t, <2>2, <2>3, <2>4, <2>5, <2>6, <2>7, <2>8
  <1>2. CASE device # NoEntry
    <2>1. /\ mounts' = NoEntry
          /\ owned' = [owned EXCEPT ![u] = NoEntry]
          /\ after' = [after EXCEPT ![u] = "out"]
          /\ lock' = [lock EXCEPT ![e] = NoUser]
          /\ pc' = [pc EXCEPT ![u] = "close"]
          /\ UNCHANGED <<device, loc, refCount, connected, running>>
      BY <1>0, <1>2 DEF Register, Goto
    <2>t. TypeOK'  BY <2>1 DEF TypeOK
    <2>p. \A v \in Users : /\ pc'[v] = IF v = u THEN "close" ELSE pc[v]
                           /\ owned'[v] = NoEntry
      BY <2>1, <1>n DEF TypeOK
    <2>2. LockDiscipline'  BY <2>1, <2>p, <1>e, <1>0, MountConstants DEF LockDiscipline, TypeOK
    <2>3. EntryLife'
      BY <2>1, <2>p, <1>0, <1>q, <1>e, MountConstants DEF EntryLife, LockDiscipline, TypeOK
    <2>4. LiveEntry'  BY <2>1 DEF LiveEntry
    <2>5. Ownership'
      <3>1. \A v \in Users : v # u => pc[v] \notin Owning  BY <1>n DEF Ownership
      <3> QED  BY <3>1, <2>1, <2>p DEF Ownership
    <2>6. Counted'  BY <2>1 DEF Counted
    <2>7. NoOrphanServer'  BY <2>1, <2>p, <1>0, <1>e DEF NoOrphanServer
    <2>8. RoutedIsLive'  BY <2>1, <2>p, <1>0, <1>e DEF RoutedIsLive
    <2> QED  BY <2>t, <2>2, <2>3, <2>4, <2>5, <2>6, <2>7, <2>8
  <1> QED  BY <1>1, <1>2

LEMMA UnmountPreserves ==
    ASSUME MountInv, NEW u \in Users, UnmountLocked(u)
    PROVE  MountInv'
  <1> USE DEF PCs, Resting, Attaching, Releasing, Locking, Loaded, Owning, MountInv
  <1>0. PICK e \in Entries : e = loc[u] /\ pc[u] = "unmounting" /\ lock[e] = NoUser
    BY MountConstants DEF UnmountLocked, LockDiscipline, TypeOK
  <1>e. owned[u] = e /\ mounts = e  BY <1>0 DEF Ownership
  <1>q. \A v \in Users : pc[v] \notin {"connect", "register"}
    BY <1>0, <1>e, MountConstants DEF EntryLife, LockDiscipline
  <1>r. running[e] /\ device = e /\ refCount[e] > 0  BY <1>q, <1>e, MountConstants DEF LiveEntry
  <1>a. /\ refCount' = [refCount EXCEPT ![e] = @ - 1]
        /\ owned' = [owned EXCEPT ![u] = NoEntry]
        /\ UNCHANGED <<device, connected, running, after>>
    BY <1>0, <1>e, <1>r DEF UnmountLocked, TypeOK
  <1>c. Cardinality(Owners(e)') = refCount[e] - 1
    <2>1. Cardinality(Owners(e)') = Cardinality(Owners(e)) - 1  BY <1>a, <1>e, OwnerLost
    <2> QED  BY <2>1, <1>e, MountConstants DEF Counted
  <1>1. CASE refCount[e] = 1
    <2>1. /\ mounts' = NoEntry
          /\ lock' = [lock EXCEPT ![e] = u]
          /\ pc' = [pc EXCEPT ![u] = "unregister"]
          /\ loc' = loc
      BY <1>0, <1>1, <1>e, <1>r DEF UnmountLocked, Goto
    <2>n. \A v \in Users : v # u => owned[v] = NoEntry
      BY <1>1, <1>e, SoleOwner DEF Counted, Ownership
    <2>t. TypeOK'  BY <2>1, <1>a, <1>r DEF TypeOK
    <2>p. \A v \in Users : /\ pc'[v] = IF v = u THEN "unregister" ELSE pc[v]
                           /\ owned'[v] = NoEntry
      BY <2>1, <2>n, <1>a DEF TypeOK
    <2>2. LockDiscipline'  BY <2>1, <2>p, <1>0, MountConstants DEF LockDiscipline, TypeOK
    <2>3. EntryLife'
      BY <2>1, <2>p, <1>a, <1>0, <1>q, <1>r, MountConstants DEF EntryLife, LockDiscipline
    <2>4. LiveEntry'  BY <2>1 DEF LiveEntry
    <2>5. Ownership'
      <3>1. \A v \in Users : v # u => pc[v] \notin Owning  BY <2>n DEF Ownership
      <3> QED  BY <3>1, <2>1, <2>p DEF Ownership
    <2>6. Counted'  BY <2>1 DEF Counted
    <2>7. NoOrphanServer'  BY <2>1, <2>p, <1>a, <1>0, <1>e DEF NoOrphanServer
    <2>8. RoutedIsLive'  BY <2>1, <2>p, <1>a, <1>0, <1>r DEF RoutedIsLive
    <2> QED  BY <2>t, <2>2, <2>3, <2>4, <2>5, <2>6, <2>7, <2>8
  <1>2. CASE refCount[e] # 1
    <2>1. /\ UNCHANGED <<mounts, lock>>
          /\ pc' = [pc EXCEPT ![u] = after[u]]
          /\ loc' = [loc EXCEPT ![u] = NoEntry]
      BY <1>0, <1>2, <1>e, <1>r DEF UnmountLocked, Goto, TypeOK
    <2>g. refCount[e] - 1 > 0 /\ refCount[e] \in Nat  BY <1>2, <1>r DEF TypeOK
    <2>h. after[u] \in {"out", "list", "dead"}  BY DEF TypeOK
    <2>t. TypeOK'  BY <2>1, <2>g, <2>h, <1>a DEF TypeOK
    <2>p. \A v \in Users : /\ pc'[v] = IF v = u THEN after[u] ELSE pc[v]
                           /\ owned'[v] = IF v = u THEN NoEntry ELSE owned[v]
                           /\ loc'[v] = IF v = u THEN NoEntry ELSE loc[v]
      BY <2>1, <1>a DEF TypeOK
    <2>2. LockDiscipline'  BY <2>1, <2>p, <2>h, <1>0, MountConstants DEF LockDiscipline, TypeOK
    <2>3. EntryLife'  BY <2>1, <2>p, <2>h, <1>a, <1>q DEF EntryLife
    <2>4. LiveEntry'  BY <2>1, <2>g, <1>a, <1>e, <1>r DEF LiveEntry, TypeOK
    <2>5. Ownership'  BY <2>1, <2>p, <2>h DEF Ownership
    <2>6. Counted'  BY <2>1, <2>g, <1>a, <1>c, <1>e DEF Counted, TypeOK
    <2>7. NoOrphanServer'  BY <2>1, <2>p, <2>h, <1>a, <1>0 DEF NoOrphanServer
    <2>8. RoutedIsLive'  BY <2>1, <2>p, <2>h, <1>a, <1>0 DEF RoutedIsLive
    <2> QED  BY <2>t, <2>2, <2>3, <2>4, <2>5, <2>6, <2>7, <2>8
  <1> QED  BY <1>1, <1>2

LEMMA UnregisterPreserves ==
    ASSUME MountInv, NEW u \in Users, Unregister(u)
    PROVE  MountInv'
  <1> USE DEF PCs, Resting, Attaching, Releasing, Locking, Loaded, Owning, MountInv
  <1>0. PICK e \in Entries : e = loc[u] /\ pc[u] = "unregister"
    BY MountConstants DEF Unregister, LockDiscipline, TypeOK
  <1>e. mounts # e /\ device = e /\ lock[e] = u  BY <1>0 DEF LockDiscipline, EntryLife
  <1>q. \A v \in Users : v # u => ~(pc[v] = "unregister" /\ loc[v] = device)
    BY <1>0, <1>e DEF LockDiscipline
  <1>1. /\ device' = NoEntry
        /\ lock' = [lock EXCEPT ![e] = NoUser]
        /\ pc' = [pc EXCEPT ![u] = "close"]
        /\ UNCHANGED <<mounts, refCount, connected, running, loc, after, owned>>
    BY <1>0 DEF Unregister, Goto
  <1>t. TypeOK'  BY <1>1 DEF TypeOK
  <1>p. \A v \in Users : pc'[v] = IF v = u THEN "close" ELSE pc[v]  BY <1>1 DEF TypeOK
  <1>2. LockDiscipline'  BY <1>0, <1>1, <1>p, <1>e, MountConstants DEF LockDiscipline, TypeOK
  <1>3. EntryLife'
    <2>1. \A v \in Users : v # u => pc[v] # "unregister"
      BY <1>q DEF EntryLife
    <2> QED  BY <2>1, <1>0, <1>1, <1>p, <1>e, MountConstants DEF EntryLife, LockDiscipline
  <1>4. LiveEntry'
    <2>1. CASE mounts = NoEntry  BY <2>1, <1>1 DEF LiveEntry
    <2>2. CASE mounts # NoEntry  BY <2>2, <1>0, <1>1, <1>p, <1>e DEF LiveEntry
    <2> QED  BY <2>1, <2>2
  <1>5. Ownership'  BY <1>0, <1>1, <1>p DEF Ownership
  <1>6. Counted'  BY <1>1 DEF Counted, Owners
  <1>7. NoOrphanServer'  BY <1>1, <1>p DEF NoOrphanServer
  <1>8. RoutedIsLive'  BY <1>1 DEF RoutedIsLive
  <1> QED  BY <1>t, <1>2, <1>3, <1>4, <1>5, <1>6, <1>7, <1>8

LEMMA ClosePreserves ==
    ASSUME MountInv, NEW u \in Users, Close(u)
    PROVE  MountInv'
  <1> USE DEF PCs, Resting, Attaching, Releasing, Locking, Loaded, Owning, MountInv
  <1>0. PICK e \in Entries : e = loc[u] /\ pc[u] = "close"
    BY MountConstants DEF Close, LockDiscipline, TypeOK
  <1>e. mounts # e /\ device # e  BY <1>0 DEF EntryLife
  <1>1. /\ running' = [running EXCEPT ![e] = FALSE]
        /\ loc' = [loc EXCEPT ![u] = NoEntry]
        /\ pc' = [pc EXCEPT ![u] = after[u]]
        /\ UNCHANGED <<mounts, device, lock, refCount, connected, after, owned>>
    BY <1>0 DEF Close, Goto
  <1>h. after[u] \in {"out", "list", "dead"}  BY DEF TypeOK
  <1>t. TypeOK'  BY <1>1, <1>h DEF TypeOK
  <1>p. /\ \A v \in Users : /\ pc'[v] = IF v = u THEN after[u] ELSE pc[v]
                            /\ loc'[v] = IF v = u THEN NoEntry ELSE loc[v]
        /\ \A d \in Entries : running'[d] = IF d = e THEN FALSE ELSE running[d]
    BY <1>1 DEF TypeOK
  <1>2. LockDiscipline'  BY <1>0, <1>1, <1>p, <1>h, MountConstants DEF LockDiscipline, TypeOK
  <1>3. EntryLife'
    <2>1. \A v \in Users : pc[v] = "unregister" => loc[v] # e
      BY <1>e DEF EntryLife
    <2> QED  BY <2>1, <1>0, <1>1, <1>p, <1>h, <1>e, MountConstants DEF EntryLife, TypeOK, LockDiscipline
  <1>4. LiveEntry'
    <2>1. CASE mounts = NoEntry  BY <2>1, <1>1 DEF LiveEntry
    <2>2. CASE mounts # NoEntry
      <3>1. mounts \in Entries  BY <2>2 DEF TypeOK
      <3> QED  BY <2>2, <3>1, <1>0, <1>1, <1>p, <1>e, <1>h DEF LiveEntry
    <2> QED  BY <2>1, <2>2
  <1>5. Ownership'  BY <1>0, <1>1, <1>p, <1>h DEF Ownership
  <1>6. Counted'  BY <1>1 DEF Counted, Owners
  <1>7. NoOrphanServer'
    <2> SUFFICES ASSUME NEW d \in Entries, running[d], d # e, mounts # d
                 PROVE  \E v \in Users : loc'[v] = d /\ pc'[v] \in {"unregister", "close"}
      BY <1>1, <1>p DEF NoOrphanServer
    <2>1. PICK v \in Users : loc[v] = d /\ pc[v] \in {"unregister", "close"}  BY DEF NoOrphanServer
    <2> QED  BY <2>1, <1>0, <1>p
  <1>8. RoutedIsLive'
    <2>1. device # NoEntry => device \in Entries  BY DEF TypeOK
    <2> QED  BY <2>1, <1>0, <1>1, <1>p, <1>e DEF RoutedIsLive
  <1> QED  BY <1>t, <1>2, <1>3, <1>4, <1>5, <1>6, <1>7, <1>8

-----------------------------------------------------------------------------
LEMMA MountInit == Init => MountInv
  <1> SUFFICES ASSUME Init PROVE MountInv  OBVIOUS
  <1> USE MountConstants DEF Init
  <1>1. TypeOK  BY DEF TypeOK, PCs, Resting
  <1>2. LockDiscipline  BY DEF LockDiscipline, Locking, Loaded
  <1>3. EntryLife /\ Ownership  BY DEF EntryLife, Ownership, Owning
  <1>4. LiveEntry /\ Counted /\ NoOrphanServer /\ RoutedIsLive
    BY DEF LiveEntry, Counted, NoOrphanServer, RoutedIsLive
  <1> QED  BY <1>1, <1>2, <1>3, <1>4 DEF MountInv

LEMMA MountStep ==
    ASSUME MountInv, ~CleansReleased, [Next]_vars
    PROVE  MountInv'
  <1>1. CASE Next
    <2>1. PICK u \in Users :
              Rehydrate(u) \/ Finish(u) \/ KillSuspended(u) \/ Replace(u) \/ Step(u)
      BY <1>1 DEF Next
    <2>2. CASE MountReserve(u)
      <3>1. pc[u] = "mount"  BY <2>2 DEF MountReserve
      <3> QED  BY <2>2, <3>1, MovingSteps, ReservePreserves
    <2> QED
      BY <2>1, <2>2, MovingSteps, AcquirePreserves, ConnectOkPreserves, ConnectFailsPreserves,
         RegisterPreserves, UnmountPreserves, UnregisterPreserves, ClosePreserves
         DEF Step, Attach, Release
  <1>2. CASE UNCHANGED vars
    BY <1>2 DEF vars, MountInv, TypeOK, LockDiscipline, EntryLife, LiveEntry, Ownership,
                Counted, Owners, NoOrphanServer, RoutedIsLive
  <1> QED  BY <1>1, <1>2

(* Correct use of the table keeps the invariant for ever.                   *)
THEOREM MountInvariant == ~CleansReleased => (Spec => []MountInv)
  <1> SUFFICES ASSUME ~CleansReleased PROVE Spec => []MountInv  OBVIOUS
  <1>1. Init => MountInv  BY MountInit
  <1>2. MountInv /\ [Next]_vars => MountInv'  BY MountStep
  <1> QED  BY <1>1, <1>2, PTL DEF Spec

(* An entry counts its owners, and every owner owns the registered entry,   *)
(* for any number of processes sharing the path.                            *)
THEOREM CountsOwners == ~CleansReleased => (Spec => []RefCountIsOwners)
  <1> SUFFICES ASSUME ~CleansReleased PROVE Spec => []RefCountIsOwners  OBVIOUS
  <1>1. MountInv => RefCountIsOwners  BY DEF MountInv, Ownership, Counted, RefCountIsOwners
  <1> QED  BY <1>1, MountInvariant, PTL

(* No owner is ever left without the server it was given.                   *)
THEOREM ServesOwners == ~CleansReleased => (Spec => []OwnersServed)
  <1> SUFFICES ASSUME ~CleansReleased PROVE Spec => []OwnersServed  OBVIOUS
  <1>1. ASSUME MountInv PROVE OwnersServed
    <2> SUFFICES ASSUME NEW u \in Users, pc[u] \in {"attached", "kept"}
                 PROVE  owned[u] # NoEntry /\ device = owned[u] /\ running[owned[u]]
      BY DEF OwnersServed
    <2>1. owned[u] # NoEntry /\ owned[u] = mounts  BY <1>1 DEF MountInv, Ownership, Owning
    <2>2. \A v \in Users : pc[v] \notin {"connect", "register"}
      BY <1>1, <2>1 DEF MountInv, EntryLife
    <2> QED  BY <1>1, <2>1, <2>2 DEF MountInv, LiveEntry
  <1> QED  BY <1>1, MountInvariant, PTL

(* No server process is leaked, and none is routed to after it is stopped.  *)
THEOREM NoServerLost == ~CleansReleased => (Spec => [](NoOrphanServer /\ RoutedIsLive))
  <1> SUFFICES ASSUME ~CleansReleased PROVE Spec => [](NoOrphanServer /\ RoutedIsLive)  OBVIOUS
  <1>1. MountInv => NoOrphanServer /\ RoutedIsLive  BY DEF MountInv
  <1> QED  BY <1>1, MountInvariant, PTL

-----------------------------------------------------------------------------
(* The refinement.                                                          *)

SOwners == {u \in Users : owned[u] # NoEntry /\ pc[u] # "register"}
SUp     == device # NoEntry /\ device = mounts

LEMMA SharedSame ==
    ASSUME SOwners' = SOwners, SUp' = SUp
    PROVE  [Shared!SNext]_(Shared!svars)
  BY DEF SOwners, SUp, Shared!svars

LEMMA SharedStep ==
    ASSUME MountInv, ~CleansReleased, [Next]_vars
    PROVE  [Shared!SNext]_(Shared!svars)
  <1> USE DEF Goto
  <1>t. TypeOK /\ Ownership /\ EntryLife /\ LockDiscipline /\ LiveEntry /\ Counted  BY DEF MountInv
  <1>1. CASE UNCHANGED vars
    BY <1>1 DEF vars, Shared!svars
  <1>2. ASSUME NEW u \in Users, Rehydrate(u) \/ Finish(u) \/ KillSuspended(u) \/ Replace(u)
        PROVE  [Shared!SNext]_(Shared!svars)
    <2>1. /\ UNCHANGED <<owned, device, mounts>>
          /\ pc[u] # "register" /\ pc'[u] # "register"
          /\ \A v \in Users : v # u => pc'[v] = pc[v]
      BY <1>2, <1>t DEF Rehydrate, Finish, KillSuspended, Replace, entryVars, TypeOK
    <2>2. SOwners' = SOwners /\ SUp' = SUp  BY <2>1 DEF SOwners, SUp
    <2> QED  BY <2>2, SharedSame
  <1>3. ASSUME NEW u \in Users, ListLoad(u) \/ ListLocked(u) \/ AcquireLoad(u) \/ UnmountLoad(u)
        PROVE  [Shared!SNext]_(Shared!svars)
    <2>1. /\ UNCHANGED <<owned, device, mounts>>
          /\ pc[u] # "register" /\ pc'[u] # "register"
          /\ \A v \in Users : v # u => pc'[v] = pc[v]
      BY <1>3, <1>t DEF ListLoad, ListLocked, AcquireLoad, UnmountLoad, AcquireFails, entryVars, TypeOK
    <2>2. SOwners' = SOwners /\ SUp' = SUp  BY <2>1 DEF SOwners, SUp
    <2> QED  BY <2>2, SharedSame
  <1>4. ASSUME NEW u \in Users, Close(u) \/ Unregister(u)
        PROVE  [Shared!SNext]_(Shared!svars)
    <2>1. /\ UNCHANGED <<owned, mounts>>
          /\ pc[u] \in {"close", "unregister"} /\ pc'[u] # "register"
          /\ \A v \in Users : v # u => pc'[v] = pc[v]
          /\ device' = device \/ (pc[u] = "unregister" /\ device' = NoEntry)
      BY <1>4, <1>t DEF Close, Unregister, TypeOK
    <2>2. SOwners' = SOwners  BY <2>1 DEF SOwners
    <2>3. SUp' = SUp  BY <2>1, <1>t DEF SUp, EntryLife
    <2> QED  BY <2>2, <2>3, SharedSame
  <1>5. ASSUME NEW u \in Users, MountReserve(u)
        PROVE  [Shared!SNext]_(Shared!svars)
    <2>1. /\ UNCHANGED <<owned, device>>
          /\ mounts' = mounts \/ (mounts = NoEntry /\ mounts' # device)
          /\ pc[u] = "mount" /\ pc'[u] \in {"retry", "connect"}
          /\ \A v \in Users : v # u => pc'[v] = pc[v]
      BY <1>5, <1>t DEF MountReserve, Free, entryVars, TypeOK
    <2>2. SOwners' = SOwners  BY <2>1 DEF SOwners
    <2>3. SUp' = SUp  BY <2>1 DEF SUp
    <2> QED  BY <2>2, <2>3, SharedSame
  <1>6. ASSUME NEW u \in Users, ConnectOk(u) \/ ConnectFails(u)
        PROVE  [Shared!SNext]_(Shared!svars)
    <2>1. /\ UNCHANGED device
          /\ mounts' = mounts \/ mounts' = NoEntry
          /\ device # mounts
          /\ pc[u] = "connect" /\ pc'[u] \in {"register", "close"}
          /\ owned[u] = NoEntry
          /\ \A v \in Users : v # u => pc'[v] = pc[v] /\ owned'[v] = owned[v]
          /\ pc'[u] = "close" => owned'[u] = NoEntry
      BY <1>6, <1>t DEF ConnectOk, ConnectFails, EntryLife, Ownership, Owning, TypeOK
    <2>2. SOwners' = SOwners  BY <2>1 DEF SOwners
    <2>3. SUp' = SUp  BY <2>1 DEF SUp
    <2> QED  BY <2>2, <2>3, SharedSame
  <1>7. ASSUME NEW u \in Users, Register(u)
        PROVE  [Shared!SNext]_(Shared!svars)
    <2>1. /\ pc[u] = "register" /\ owned[u] = mounts /\ mounts # NoEntry /\ device # mounts
          /\ loc[u] = mounts
          /\ \A v \in Users : v # u => owned[v] = NoEntry
      BY <1>7, <1>t DEF Register, EntryLife, Ownership, Owning
    <2>2. SOwners = {} /\ SUp = FALSE  BY <2>1 DEF SOwners, SUp
    <2>3. CASE device = NoEntry
      <3>1. /\ device' = mounts /\ mounts' = mounts /\ owned' = owned
            /\ pc'[u] = "attached"
        BY <1>7, <2>1, <2>3, <1>t DEF Register, TypeOK
      <3>2. SOwners' = {u}  BY <3>1, <2>1 DEF SOwners
      <3>3. SUp' = TRUE  BY <3>1, <2>1 DEF SUp
      <3>4. Shared!Join(u)  BY <3>2, <3>3, <2>2 DEF SOwners, SUp, Shared!Join
      <3> QED  BY <3>4 DEF Shared!SNext
    <2>4. CASE device # NoEntry
      <3>1. /\ device' = device /\ mounts' = NoEntry
            /\ \A v \in Users : owned'[v] = NoEntry
        BY <1>7, <2>1, <2>4, <1>t DEF Register, TypeOK
      <3>2. SOwners' = {}  BY <3>1 DEF SOwners
      <3>3. SUp' = FALSE  BY <3>1, <2>4 DEF SUp
      <3> QED  BY <2>2, <3>2, <3>3, SharedSame
    <2> QED  BY <2>3, <2>4
  <1>8. ASSUME NEW u \in Users, AcquireLocked(u)
        PROVE  [Shared!SNext]_(Shared!svars)
    <2>0. pc[u] \in {"acquiring", "retrying"} /\ loc[u] \in Entries /\ lock[loc[u]] = NoUser
          /\ owned[u] = NoEntry
      BY <1>8, <1>t DEF AcquireLocked, LockDiscipline, Loaded, Locking, TypeOK, Ownership, Owning
    <2>1. CASE mounts = loc[u] /\ connected[loc[u]]
      <3>1. /\ UNCHANGED <<device, mounts>>
            /\ owned'[u] = mounts /\ pc'[u] = "attached"
            /\ \A v \in Users : v # u => pc'[v] = pc[v] /\ owned'[v] = owned[v]
        BY <1>8, <2>1, <1>t DEF AcquireLocked, TypeOK
      <3>2. \A v \in Users : pc[v] \notin {"connect", "register"}
        BY <2>0, <2>1, <1>t, MountConstants DEF EntryLife, LockDiscipline, Locking
      <3>3. device = mounts /\ mounts # NoEntry /\ refCount[mounts] > 0
        BY <2>0, <2>1, <3>2, <1>t, MountConstants DEF LiveEntry
      <3>4. SOwners # {}
        <4>1. PICK v \in Users : owned[v] = mounts
          BY <3>3, <1>t, HasOwner DEF Counted
        <4> QED  BY <4>1, <3>2, <3>3 DEF SOwners
      <3>5. u \notin SOwners /\ SUp = TRUE  BY <2>0, <3>3 DEF SOwners, SUp
      <3>6. SOwners' = SOwners \union {u}  BY <3>1, <3>3 DEF SOwners
      <3>7. SUp' = TRUE  BY <3>1, <3>3 DEF SUp
      <3>8. Shared!Join(u)  BY <3>4, <3>5, <3>6, <3>7 DEF SOwners, SUp, Shared!Join
      <3> QED  BY <3>8 DEF Shared!SNext
    <2>2. CASE ~(mounts = loc[u] /\ connected[loc[u]])
      <3>1. /\ UNCHANGED <<owned, device, mounts>>
            /\ pc'[u] # "register"
            /\ \A v \in Users : v # u => pc'[v] = pc[v]
        BY <1>8, <2>2, <1>t DEF AcquireLocked, AcquireFails, TypeOK
      <3>2. SOwners' = SOwners /\ SUp' = SUp  BY <2>0, <3>1 DEF SOwners, SUp
      <3> QED  BY <3>2, SharedSame
    <2> QED  BY <2>1, <2>2
  <1>9. ASSUME NEW u \in Users, UnmountLocked(u)
        PROVE  [Shared!SNext]_(Shared!svars)
    <2>0. pc[u] = "unmounting" /\ loc[u] = mounts /\ owned[u] = mounts /\ mounts \in Entries
          /\ lock[mounts] = NoUser
      BY <1>9, <1>t DEF UnmountLocked, LockDiscipline, Loaded, Locking, TypeOK, Ownership, Owning
    <2>1. \A v \in Users : pc[v] \notin {"connect", "register"}
      BY <2>0, <1>t, MountConstants DEF EntryLife, LockDiscipline, Locking
    <2>2. device = mounts /\ refCount[mounts] > 0
      BY <2>0, <2>1, <1>t, MountConstants DEF LiveEntry
    <2>3. /\ device' = device
          /\ mounts' = IF refCount[mounts] = 1 THEN NoEntry ELSE mounts
          /\ \A v \in Users : v # u => pc'[v] = pc[v] /\ owned'[v] = owned[v]
          /\ owned'[u] = NoEntry
      BY <1>9, <2>0, <2>2, <1>t DEF UnmountLocked, TypeOK
    <2>4. u \in SOwners /\ SOwners' = SOwners \ {u}
      BY <2>0, <2>1, <2>3, MountConstants DEF SOwners
    <2>5. refCount[mounts] = Cardinality(Owners(mounts))  BY <2>0, <1>t, MountConstants DEF Counted
    <2>6. SOwners = Owners(mounts)
      BY <2>1, <2>0, <1>t, MountConstants DEF SOwners, Owners, Ownership
    <2>7. SUp' = (SOwners' # {})
      <3>1. CASE refCount[mounts] = 1
        <4>1. SOwners = {u}  BY <3>1, <2>4, <2>5, <2>6, OwnersFinite, FS_Singleton
        <4> QED  BY <3>1, <4>1, <2>0, <2>2, <2>3, <2>4, MountConstants DEF SUp
      <3>2. CASE refCount[mounts] # 1
        <4>1. SOwners # {u}  BY <3>2, <2>5, <2>6, OwnersFinite, FS_Singleton
        <4> QED  BY <3>2, <4>1, <2>0, <2>2, <2>3, <2>4, MountConstants DEF SUp
      <3> QED  BY <3>1, <3>2
    <2>8. Shared!Leave(u)  BY <2>4, <2>7 DEF SOwners, SUp, Shared!Leave
    <2> QED  BY <2>8 DEF Shared!SNext
  <1> QED
    BY <1>1, <1>2, <1>3, <1>4, <1>5, <1>6, <1>7, <1>8, <1>9 DEF Next, Step, Attach, Release

(* The mount table implements a server owned in common: it is up exactly    *)
(* while somebody owns it, and only the last owner to leave stops it.       *)
THEOREM TableShares == ~CleansReleased => (Spec => ImplementsShared)
  <1> SUFFICES ASSUME ~CleansReleased PROVE Spec => ImplementsShared  OBVIOUS
  <1>1. Init => Shared!SInit
    BY MountConstants DEF Init, Shared!SInit
  <1>2. MountInv /\ [Next]_vars => [Shared!SNext]_(Shared!svars)  BY SharedStep
  <1> QED  BY <1>1, <1>2, MountInvariant, PTL DEF Spec, ImplementsShared, Shared!SSpec
=============================================================================
