------------------------- MODULE ProviderGateProofs -------------------------
(***************************************************************************)
(* The gate's safety properties hold for every finite set of callers, any  *)
(* providers and any limits.  The inductive invariant GateInv adds to the  *)
(* typing and to SlotConservation where the token is: a caller holds its   *)
(* target's token exactly between the receive and the release.  That the   *)
(* reported number of waiters is exact (WaitersCounted) is inductive on    *)
(* top of it.                                                              *)
(***************************************************************************)
EXTENDS ProviderGate, FiniteSetTheorems, TLAPS

HoldsSlot(c) == pc[c] = "write" \/ (pc[c] = "leave" /\ result[c] = "none")

TokenFollowsControl ==
    \A c \in Callers :
        /\ held[c] = IF HoldsSlot(c) THEN target[c] ELSE NoProvider
        /\ pc[c] \in Queued \union {"leave"} => target[c] \in Providers
        /\ pc[c] \in Queued => result[c] = "none"

GateInv == TypeOK /\ SlotConservation /\ TokenFollowsControl

-----------------------------------------------------------------------------
(* Every level of the limit's resolution yields a positive limit.           *)
LEMMA ResolvedPositive ==
    ASSUME NEW c \in Callers, NEW p \in Providers
    PROVE  resolveProviderConcurrencyLimit(c, p) \in Nat \ {0}
  BY GateConstants DEF resolveProviderConcurrencyLimit

LEMMA HoldersFinite ==
    ASSUME NEW p
    PROVE  IsFiniteSet(Holders(p)) /\ Cardinality(Holders(p)) \in Nat
  <1>1. Holders(p) \in SUBSET Callers  BY DEF Holders
  <1>2. IsFiniteSet(Holders(p))  BY <1>1, FiniteCallers, FS_Subset
  <1> QED  BY <1>2, FS_CardinalityType

(* Receiving a token adds one holder to its provider and to no other.       *)
LEMMA HoldersGain ==
    ASSUME TypeOK, NEW c \in Callers, NEW p \in Providers,
           held[c] = NoProvider, held' = [held EXCEPT ![c] = p]
    PROVE  \A q \in Providers :
             /\ Holders(q)' = IF q = p THEN Holders(q) \union {c} ELSE Holders(q)
             /\ Cardinality(Holders(q)') = IF q = p THEN Cardinality(Holders(q)) + 1
                                           ELSE Cardinality(Holders(q))
  <1> TAKE q \in Providers
  <1>1. c \notin Holders(q)  BY GateConstants DEF Holders
  <1>2. Holders(q)' = IF q = p THEN Holders(q) \union {c} ELSE Holders(q)
    BY <1>1 DEF Holders, TypeOK
  <1> QED  BY <1>1, <1>2, HoldersFinite, FS_AddElement

(* Releasing the token one holds removes one holder from its provider.      *)
LEMMA HoldersLose ==
    ASSUME TypeOK, NEW c \in Callers, NEW p \in Providers,
           held[c] = p, held' = [held EXCEPT ![c] = NoProvider]
    PROVE  \A q \in Providers :
             /\ Holders(q)' = IF q = p THEN Holders(q) \ {c} ELSE Holders(q)
             /\ Cardinality(Holders(q)') = IF q = p THEN Cardinality(Holders(q)) - 1
                                           ELSE Cardinality(Holders(q))
  <1> TAKE q \in Providers
  <1>1. c \in Holders(q) <=> q = p  BY DEF Holders
  <1>2. Holders(q)' = IF q = p THEN Holders(q) \ {c} ELSE Holders(q)
    BY <1>1, GateConstants DEF Holders, TypeOK
  <1> QED  BY <1>1, <1>2, HoldersFinite, FS_RemoveElement

(* A step that moves no token and re-creates no entry conserves the slots.  *)
LEMMA ConservedWhenStill ==
    ASSUME SlotConservation, UNCHANGED <<gateLimit, slots, held>>
    PROVE  SlotConservation'
  BY DEF SlotConservation, Holders

-----------------------------------------------------------------------------
LEMMA GateInit == Init => GateInv
  <1> SUFFICES ASSUME Init PROVE GateInv  OBVIOUS
  <1>1. TypeOK
    BY GateConstants DEF Init, TypeOK, PCs, Queued, Sites, Results
  <1>2. \A p \in Providers : Holders(p) = {}
    BY GateConstants DEF Init, Holders
  <1>3. SlotConservation
    BY <1>2, FS_EmptySet DEF Init, SlotConservation
  <1>4. TokenFollowsControl
    BY DEF Init, TokenFollowsControl, HoldsSlot, Queued
  <1> QED  BY <1>1, <1>3, <1>4 DEF GateInv

(* The token received on the fast path or in the select.                    *)
LEMMA ReceiveConserves ==
    ASSUME GateInv, NEW c \in Callers, target[c] \in Providers,
           held[c] = NoProvider, ReceiveSlot(c), UNCHANGED gateLimit
    PROVE  SlotConservation'
  <1> USE DEF GateInv
  <1>1. \A q \in Providers :
          Cardinality(Holders(q)') = IF q = target[c] THEN Cardinality(Holders(q)) + 1
                                     ELSE Cardinality(Holders(q))
    BY HoldersGain DEF ReceiveSlot
  <1> SUFFICES ASSUME NEW q \in Providers
               PROVE  slots'[q] + Cardinality(Holders(q)') = gateLimit'[q]
    BY DEF SlotConservation
  <1>2. slots[q] \in Nat /\ Cardinality(Holders(q)) \in Nat
    BY HoldersFinite DEF TypeOK
  <1>3. slots'[q] = IF q = target[c] THEN slots[q] - 1 ELSE slots[q]
    BY DEF ReceiveSlot, TypeOK
  <1> QED  BY <1>1, <1>2, <1>3 DEF SlotConservation

(* The over-release branch is dead code: while a caller holds a token its   *)
(* provider's channel is not full, so the token always goes back.           *)
LEMMA ReleaseConserves ==
    ASSUME GateInv, NEW c \in Callers, held[c] = target[c],
           release(c), UNCHANGED gateLimit
    PROVE  SlotConservation'
  <1> USE DEF GateInv
  <1>1. CASE target[c] \notin Providers
    <2>1. target[c] = NoProvider  BY <1>1 DEF TypeOK
    <2>2. UNCHANGED <<slots, held>>  BY <1>1, <2>1 DEF release, TypeOK
    <2> QED  BY <2>2, ConservedWhenStill
  <1>2. CASE target[c] \in Providers
    <2>1. \A q \in Providers :
            Cardinality(Holders(q)') = IF q = target[c] THEN Cardinality(Holders(q)) - 1
                                       ELSE Cardinality(Holders(q))
      BY <1>2, HoldersLose DEF release
    <2> SUFFICES ASSUME NEW q \in Providers
                 PROVE  slots'[q] + Cardinality(Holders(q)') = gateLimit'[q]
      BY DEF SlotConservation
    <2>2. /\ \A r \in Providers : slots[r] \in Nat /\ gateLimit[r] \in Nat
          /\ \A r \in Providers : Cardinality(Holders(r)) \in Nat
      BY HoldersFinite DEF TypeOK
    <2>3. c \in Holders(target[c])  BY DEF Holders
    <2>4. Cardinality(Holders(target[c])) # 0
      BY <2>3, HoldersFinite, FS_EmptySet
    <2>5. slots[target[c]] < gateLimit[target[c]]
      BY <1>2, <2>2, <2>4 DEF SlotConservation
    <2>6. slots'[q] = IF q = target[c] THEN slots[q] + 1 ELSE slots[q]
      BY <1>2, <2>5 DEF release, TypeOK
    <2> QED  BY <2>1, <2>2, <2>6 DEF SlotConservation
  <1> QED  BY <1>1, <1>2

LEMMA GateStep == GateInv /\ [Next]_vars => GateInv'
  <1> SUFFICES ASSUME GateInv, [Next]_vars PROVE GateInv'  OBVIOUS
  <1> USE DEF GateInv
  <1>1. CASE UNCHANGED vars
    BY <1>1 DEF vars, TypeOK, SlotConservation, Holders, TokenFollowsControl, HoldsSlot
  <1>2. ASSUME NEW c \in Callers, Step(c) PROVE GateInv'
    <2> USE DEF Goto, Queued, PCs, Sites, Results, HoldsSlot
    <2>1. CASE \E s \in Sites, p \in Providers \union {NoProvider} :
                 Request(c, s, p) /\ pc[c] \in {"idle", "decide"}
      <3>1. TypeOK'  BY <2>1 DEF TypeOK, Request
      <3>2. SlotConservation'  BY <2>1, ConservedWhenStill DEF Request
      <3>3. TokenFollowsControl'
        BY <2>1, GateConstants DEF TypeOK, TokenFollowsControl, Request
      <3> QED  BY <3>1, <3>2, <3>3
    <2>2. CASE Begin(c)
      BY <2>1, <2>2, GateConstants DEF Begin
    <2>3. CASE Fallback(c)
      BY <2>1, <2>3, GateConstants DEF Fallback
    <2>4. CASE Retry(c)
      BY <2>1, <2>4, GateConstants DEF Retry
    <2>5. CASE Entry(c)
      <3>1. target[c] \in Providers  BY <2>5 DEF Entry, TokenFollowsControl
      <3>2. resolveProviderConcurrencyLimit(c, target[c]) \in Nat \ {0}
        BY <3>1, ResolvedPositive
      <3>3. TypeOK'  BY <2>5, <3>2 DEF TypeOK, Entry
      <3>4. SlotConservation'
        <4> SUFFICES ASSUME NEW q \in Providers
                     PROVE  slots'[q] + Cardinality(Holders(q)') = gateLimit'[q]
          BY DEF SlotConservation
        <4>1. Holders(q)' = Holders(q)  BY <2>5 DEF Entry, Holders
        <4>2. Cardinality(Holders(q)) \in Nat /\ slots[q] \in Nat /\ gateLimit[q] \in Nat
          BY HoldersFinite DEF TypeOK
        <4>3. slots[q] + Cardinality(Holders(q)) = gateLimit[q]
          BY DEF SlotConservation
        <4>4. CASE gateLimit[target[c]] = 0 /\ q = target[c]
          BY <2>5, <3>2, <4>1, <4>2, <4>3, <4>4 DEF Entry, TypeOK
        <4>5. CASE ~(gateLimit[target[c]] = 0 /\ q = target[c])
          BY <2>5, <4>1, <4>3, <4>5 DEF Entry, TypeOK
        <4> QED  BY <4>4, <4>5
      <3>5. TokenFollowsControl'  BY <2>5 DEF TypeOK, TokenFollowsControl, Entry
      <3> QED  BY <3>3, <3>4, <3>5
    <2>6. CASE FastAcquire(c)
      <3>1. target[c] \in Providers /\ held[c] = NoProvider /\ result[c] = "none"
        BY <2>6 DEF FastAcquire, TokenFollowsControl
      <3>2. TypeOK'  BY <2>6, <3>1 DEF TypeOK, FastAcquire, ReceiveSlot
      <3>3. SlotConservation'  BY <2>6, <3>1, ReceiveConserves DEF FastAcquire
      <3>4. TokenFollowsControl'
        BY <2>6, <3>1 DEF TypeOK, TokenFollowsControl, FastAcquire, ReceiveSlot
      <3> QED  BY <3>2, <3>3, <3>4
    <2>7. CASE WaitAcquire(c)
      <3>1. target[c] \in Providers /\ held[c] = NoProvider /\ result[c] = "none"
        BY <2>7 DEF WaitAcquire, TokenFollowsControl
      <3>2. TypeOK'  BY <2>7, <3>1 DEF TypeOK, WaitAcquire, ReceiveSlot
      <3>3. SlotConservation'  BY <2>7, <3>1, ReceiveConserves DEF WaitAcquire
      <3>4. TokenFollowsControl'
        BY <2>7, <3>1 DEF TypeOK, TokenFollowsControl, WaitAcquire, ReceiveSlot
      <3> QED  BY <3>2, <3>3, <3>4
    <2>8. CASE WriteReturns(c)
      <3>1. held[c] = target[c]  BY <2>8 DEF WriteReturns, TokenFollowsControl
      <3>2. TypeOK'  BY <2>8 DEF TypeOK, WriteReturns, release
      <3>3. SlotConservation'  BY <2>8, <3>1, ReleaseConserves DEF WriteReturns
      <3>4. TokenFollowsControl'
        BY <2>8 DEF TypeOK, TokenFollowsControl, WriteReturns, release
      <3> QED  BY <3>2, <3>3, <3>4
    <2>9. CASE FastMiss(c)
      <3>1. TypeOK'  BY <2>9 DEF TypeOK, FastMiss
      <3>2. SlotConservation'  BY <2>9, ConservedWhenStill DEF FastMiss
      <3>3. TokenFollowsControl'  BY <2>9 DEF TypeOK, TokenFollowsControl, FastMiss
      <3> QED  BY <3>1, <3>2, <3>3
    <2>10. CASE Register(c)
      <3>1. TypeOK'
        <4>1. target[c] \in Providers  BY <2>10 DEF Register, TokenFollowsControl
        <4> QED  BY <2>10, <4>1 DEF TypeOK, Register
      <3>2. SlotConservation'  BY <2>10, ConservedWhenStill DEF Register
      <3>3. TokenFollowsControl'  BY <2>10 DEF TypeOK, TokenFollowsControl, Register
      <3> QED  BY <3>1, <3>2, <3>3
    <2>11. CASE WaitCancelled(c)
      <3>1. TypeOK'  BY <2>11 DEF TypeOK, WaitCancelled
      <3>2. SlotConservation'  BY <2>11, ConservedWhenStill DEF WaitCancelled
      <3>3. TokenFollowsControl'  BY <2>11 DEF TypeOK, TokenFollowsControl, WaitCancelled
      <3> QED  BY <3>1, <3>2, <3>3
    <2>12. CASE ChunkElapsed(c)
      <3>1. TypeOK'  BY <2>12 DEF TypeOK, ChunkElapsed
      <3>2. SlotConservation'  BY <2>12, ConservedWhenStill DEF ChunkElapsed
      <3>3. TokenFollowsControl'  BY <2>12 DEF TypeOK, TokenFollowsControl, ChunkElapsed
      <3> QED  BY <3>1, <3>2, <3>3
    <2>13. CASE Leave(c)
      <3>1. TypeOK'
        <4>1. target[c] \in Providers  BY <2>13 DEF Leave, TokenFollowsControl
        <4> QED  BY <2>13, <4>1 DEF TypeOK, Leave
      <3>2. SlotConservation'  BY <2>13, ConservedWhenStill DEF Leave
      <3>3. TokenFollowsControl'  BY <2>13 DEF TypeOK, TokenFollowsControl, Leave
      <3> QED  BY <3>1, <3>2, <3>3
    <2>14. CASE StepOver(c)
      <3>1. TypeOK'  BY <2>14, GateConstants DEF TypeOK, StepOver
      <3>2. SlotConservation'  BY <2>14, ConservedWhenStill DEF StepOver
      <3>3. TokenFollowsControl'  BY <2>14 DEF TypeOK, TokenFollowsControl, StepOver
      <3> QED  BY <3>1, <3>2, <3>3
    <2>15. CASE Cancel(c)
      <3>1. TypeOK'  BY <2>15 DEF TypeOK, Cancel
      <3>2. SlotConservation'  BY <2>15, ConservedWhenStill DEF Cancel
      <3>3. TokenFollowsControl'  BY <2>15 DEF TypeOK, TokenFollowsControl, Cancel
      <3> QED  BY <3>1, <3>2, <3>3
    <2>16. CASE FreshContext(c)
      <3>1. TypeOK'  BY <2>16 DEF TypeOK, FreshContext
      <3>2. SlotConservation'  BY <2>16, ConservedWhenStill DEF FreshContext
      <3>3. TokenFollowsControl'  BY <2>16 DEF TypeOK, TokenFollowsControl, FreshContext
      <3> QED  BY <3>1, <3>2, <3>3
    <2> QED
      BY <1>2, <2>2, <2>3, <2>4, <2>5, <2>6, <2>7, <2>8, <2>9, <2>10, <2>11, <2>12,
         <2>13, <2>14, <2>15, <2>16 DEF Step
  <1> QED  BY <1>1, <1>2 DEF Next
-----------------------------------------------------------------------------
(* The gate's variables stay well typed: in particular every limit that is  *)
(* ever installed is a natural number, whatever the configuration declares. *)
THEOREM TypeCorrect == Spec => []TypeOK
  <1>1. Spec => []GateInv  BY GateInit, GateStep, PTL DEF Spec
  <1>2. GateInv => TypeOK  BY DEF GateInv
  <1> QED  BY <1>1, <1>2, PTL

(* No interleaving of writes, cancellations and timeouts loses or mints a   *)
(* token, for any number of processes, providers and limits.                *)
THEOREM SlotsConserved == Spec => []SlotConservation
  <1>1. Spec => []GateInv  BY GateInit, GateStep, PTL DEF Spec
  <1>2. GateInv => SlotConservation  BY DEF GateInv
  <1> QED  BY <1>1, <1>2, PTL

(* The requests in flight to a provider never exceed the limit installed    *)
(* for it: each of them holds one of its tokens.                            *)
THEOREM InFlightBounded == Spec => []InFlightWithinLimit
  <1>1. GateInv => InFlightWithinLimit
    <2> SUFFICES ASSUME GateInv, NEW p \in Providers
                 PROVE  Cardinality({c \in Callers : pc[c] = "write" /\ target[c] = p})
                          <= gateLimit[p]
      BY DEF InFlightWithinLimit
    <2> DEFINE W == {c \in Callers : pc[c] = "write" /\ target[c] = p}
    <2>1. W \in SUBSET Holders(p)
      BY DEF GateInv, TokenFollowsControl, HoldsSlot, Holders
    <2>2. IsFiniteSet(Holders(p)) /\ Cardinality(Holders(p)) \in Nat
      BY HoldersFinite
    <2>3. Cardinality(W) <= Cardinality(Holders(p))  BY <2>1, <2>2, FS_Subset
    <2>4. IsFiniteSet(W)  BY <2>1, <2>2, FS_Subset
    <2>5. Cardinality(W) \in Nat  BY <2>4, FS_CardinalityType
    <2>6. slots[p] + Cardinality(Holders(p)) = gateLimit[p] /\ slots[p] \in Nat
      BY DEF GateInv, SlotConservation, TypeOK
    <2> HIDE DEF W
    <2>7. Cardinality(W) <= gateLimit[p]  BY <2>2, <2>3, <2>5, <2>6
    <2> QED  BY <2>7 DEF W
  <1>2. Spec => []GateInv  BY GateInit, GateStep, PTL DEF Spec
  <1> QED  BY <1>1, <1>2, PTL

(* A queued goroutine holds no token, so gates cannot deadlock against each *)
(* other through crossed primary and fallback providers.                    *)
THEOREM NoCrossedGates == Spec => []NoHoldAndWait
  <1>1. GateInv => NoHoldAndWait
    BY DEF GateInv, TokenFollowsControl, HoldsSlot, NoHoldAndWait, Queued
  <1>2. Spec => []GateInv  BY GateInit, GateStep, PTL DEF Spec
  <1> QED  BY <1>1, <1>2, PTL
-----------------------------------------------------------------------------
(* The `queued' count of the user's view.                                   *)

Waiting(p) == {c \in Callers : pc[c] \in {"wait", "leave"} /\ target[c] = p}

LEMMA WaitingFinite ==
    ASSUME NEW p
    PROVE  IsFiniteSet(Waiting(p)) /\ Cardinality(Waiting(p)) \in Nat
  <1>1. Waiting(p) \in SUBSET Callers  BY DEF Waiting
  <1>2. IsFiniteSet(Waiting(p))  BY <1>1, FiniteCallers, FS_Subset
  <1> QED  BY <1>2, FS_CardinalityType

(* A step that neither enters nor leaves the wait loop counts nobody.       *)
LEMMA CountWhenStill ==
    ASSUME WaitersExact, UNCHANGED waiters, \A p \in Providers : Waiting(p)' = Waiting(p)
    PROVE  WaitersExact'
  BY DEF WaitersExact, Waiting

LEMMA RegisterCounts ==
    ASSUME GateInv, WaitersExact, NEW c \in Callers, Register(c)
    PROVE  WaitersExact'
  <1> SUFFICES ASSUME NEW p \in Providers PROVE waiters'[p] = Cardinality(Waiting(p)')
    BY DEF WaitersExact, Waiting
  <1> USE DEF GateInv, Register, Goto
  <1>1. Waiting(p)' = IF target[c] = p THEN Waiting(p) \union {c} ELSE Waiting(p)
    BY DEF Waiting, TypeOK
  <1>2. c \notin Waiting(p)  BY DEF Waiting
  <1>3. waiters[p] = Cardinality(Waiting(p)) /\ Cardinality(Waiting(p)) \in Nat
    BY WaitingFinite DEF WaitersExact, Waiting
  <1>4. waiters'[p] = IF target[c] = p THEN waiters[p] + 1 ELSE waiters[p]
    BY DEF TypeOK
  <1>5. Cardinality(Waiting(p) \union {c}) = Cardinality(Waiting(p)) + 1
    BY <1>2, WaitingFinite, FS_AddElement
  <1> QED  BY <1>1, <1>3, <1>4, <1>5

LEMMA LeaveUncounts ==
    ASSUME GateInv, WaitersExact, NEW c \in Callers, Leave(c)
    PROVE  WaitersExact'
  <1> SUFFICES ASSUME NEW p \in Providers PROVE waiters'[p] = Cardinality(Waiting(p)')
    BY DEF WaitersExact, Waiting
  <1> USE DEF GateInv, Leave, Goto
  <1>1. Waiting(p)' = IF target[c] = p THEN Waiting(p) \ {c} ELSE Waiting(p)
    BY DEF Waiting, TypeOK
  <1>2. c \in Waiting(p) <=> target[c] = p  BY DEF Waiting
  <1>3. waiters[p] = Cardinality(Waiting(p)) /\ Cardinality(Waiting(p)) \in Nat
    BY WaitingFinite DEF WaitersExact, Waiting
  <1>4. waiters'[p] = IF target[c] = p THEN waiters[p] - 1 ELSE waiters[p]
    BY DEF TypeOK
  <1>5. target[c] = p => Cardinality(Waiting(p) \ {c}) = Cardinality(Waiting(p)) - 1
    BY <1>2, WaitingFinite, FS_RemoveElement
  <1> QED  BY <1>1, <1>3, <1>4, <1>5

LEMMA WaitersStep == GateInv /\ WaitersExact /\ [Next]_vars => WaitersExact'
  <1> SUFFICES ASSUME GateInv, WaitersExact, [Next]_vars PROVE WaitersExact'  OBVIOUS
  <1> USE DEF GateInv
  <1>1. CASE UNCHANGED vars  BY <1>1 DEF vars, WaitersExact
  <1>2. ASSUME NEW c \in Callers, Step(c) PROVE WaitersExact'
    <2>1. CASE Begin(c) \/ Fallback(c) \/ Retry(c)
      <3>1. PICK s, p : Request(c, s, p)  BY <2>1 DEF Begin, Fallback, Retry
      <3>2. pc[c] \in {"idle", "decide"}  BY <2>1 DEF Begin, Fallback, Retry
      <3>3. \A p2 \in Providers : Waiting(p2)' = Waiting(p2)
        BY <3>1, <3>2 DEF Request, Goto, Waiting, TypeOK
      <3> QED  BY <3>1, <3>3, CountWhenStill DEF Request
    <2>2. CASE Register(c)  BY <2>2, RegisterCounts
    <2>3. CASE Leave(c)  BY <2>3, LeaveUncounts
    <2>4. CASE StepOver(c)
      <3>1. \A p \in Providers : Waiting(p)' = Waiting(p)
        BY <2>4 DEF StepOver, Goto, Waiting, TypeOK
      <3> QED  BY <2>4, <3>1, CountWhenStill DEF StepOver
    <2>5. CASE \/ Entry(c) \/ FastAcquire(c) \/ FastMiss(c) \/ WriteReturns(c) \/ Cancel(c)
               \/ FreshContext(c)
      <3> USE DEF Entry, FastAcquire, FastMiss, WriteReturns, Cancel, FreshContext, Goto
      <3>1. UNCHANGED <<waiters, target>>  BY <2>5
      <3>2. \/ UNCHANGED pc
            \/ \E l \in {"try", "write", "register", "decide"} :
                  /\ pc' = [pc EXCEPT ![c] = l]
                  /\ pc[c] \in {"entry", "try", "write"}
        BY <2>5
      <3>3. \A p \in Providers : Waiting(p)' = Waiting(p)
        BY <3>1, <3>2 DEF Waiting, TypeOK
      <3> QED  BY <3>1, <3>3, CountWhenStill
    <2>6. CASE WaitAcquire(c) \/ WaitCancelled(c) \/ ChunkElapsed(c)
      <3> USE DEF WaitAcquire, WaitCancelled, ChunkElapsed, Goto
      <3>1. UNCHANGED <<waiters, target>>  BY <2>6
      <3>2. pc[c] = "wait" /\ (UNCHANGED pc \/ pc' = [pc EXCEPT ![c] = "leave"])  BY <2>6
      <3>3. \A p \in Providers : Waiting(p)' = Waiting(p)
        BY <3>1, <3>2 DEF Waiting, TypeOK
      <3> QED  BY <3>1, <3>3, CountWhenStill
    <2> QED  BY <1>2, <2>1, <2>2, <2>3, <2>4, <2>5, <2>6 DEF Step
  <1> QED  BY <1>1, <1>2 DEF Next

(* The number of queued requests shown to the user is the number of         *)
(* goroutines in the wait loop, whatever ends their waits.                  *)
THEOREM WaitersCounted == Spec => []WaitersExact
  <1>1. Init => WaitersExact
    <2> SUFFICES ASSUME Init, NEW p \in Providers PROVE waiters[p] = Cardinality(Waiting(p))
      BY DEF WaitersExact, Waiting
    <2>1. Waiting(p) = {}  BY DEF Init, Waiting
    <2> QED  BY <2>1, FS_EmptySet DEF Init
  <1> QED  BY <1>1, WaitersStep, GateInit, GateStep, PTL DEF Spec
-----------------------------------------------------------------------------
(* A step that moves neither limits nor tokens is a stutter of the          *)
(* abstract admission control.                                              *)
LEMMA StillIsStutter ==
    ASSUME UNCHANGED <<gateLimit, held>>
    PROVE  UNCHANGED Admission!avars
  BY DEF Admission!avars, Holders

LEMMA ReceiveAdmits ==
    ASSUME GateInv, NEW c \in Callers, target[c] \in Providers,
           held[c] = NoProvider, ReceiveSlot(c), UNCHANGED gateLimit
    PROVE  Admission!Admit(c, target[c])
  <1> USE DEF GateInv
  <1>1. \A q \in Providers : c \notin Holders(q)
    BY GateConstants DEF Holders
  <1>2. Cardinality(Holders(target[c])) < gateLimit[target[c]]
    <2>1. slots[target[c]] \in Nat /\ slots[target[c]] > 0
      BY DEF ReceiveSlot, TypeOK
    <2>2. slots[target[c]] + Cardinality(Holders(target[c])) = gateLimit[target[c]]
      BY DEF SlotConservation
    <2> QED  BY <2>1, <2>2, HoldersFinite
  <1>3. \A q \in Providers :
          Holders(q)' = IF q = target[c] THEN Holders(q) \union {c} ELSE Holders(q)
    BY HoldersGain DEF ReceiveSlot
  <1>4. [q \in Providers |-> Holders(q)]'
          = [[q \in Providers |-> Holders(q)] EXCEPT ![target[c]] = @ \union {c}]
    BY <1>3
  <1>5. \A q \in Providers : c \notin [r \in Providers |-> Holders(r)][q]  BY <1>1
  <1>6. Cardinality([q \in Providers |-> Holders(q)][target[c]]) < gateLimit[target[c]]
    <2>1. [q \in Providers |-> Holders(q)][target[c]] = Holders(target[c])  OBVIOUS
    <2> QED  BY <1>2, <2>1
  <1>7. Admission!Cardinality([q \in Providers |-> Holders(q)][target[c]])
          = Cardinality([q \in Providers |-> Holders(q)][target[c]])
    BY DEF Admission!Cardinality, Cardinality
  <1> QED  BY <1>5, <1>6, <1>7, <1>4 DEF Admission!Admit

(* Under the mapping "a caller is inside while it holds the token", every   *)
(* step of the gate is a step of the abstract admission control or leaves   *)
(* it unchanged.                                                            *)
THEOREM GateImplementsAdmission == Spec => ImplementsAdmission
  <1>1. Init => Admission!AInit
    BY GateConstants DEF Init, Admission!AInit, Holders
  <1>2. GateInv /\ [Next]_vars => [Admission!ANext]_(Admission!avars)
    <2> SUFFICES ASSUME GateInv, [Next]_vars
                 PROVE  [Admission!ANext]_(Admission!avars)
      OBVIOUS
    <2> USE DEF GateInv
    <2>1. CASE UNCHANGED vars  BY <2>1, StillIsStutter DEF vars
    <2>2. ASSUME NEW c \in Callers, Step(c)
          PROVE  [Admission!ANext]_(Admission!avars)
      <3>1. CASE Entry(c)
        <4>1. target[c] \in Providers  BY <3>1 DEF Entry, TokenFollowsControl, Queued
        <4>2. resolveProviderConcurrencyLimit(c, target[c]) \in Nat \ {0}
          BY <4>1, ResolvedPositive
        <4>3. CASE gateLimit[target[c]] = 0
          <5>1. gateLimit'[target[c]] \in Nat \ {0}
            BY <3>1, <4>1, <4>2, <4>3 DEF Entry, TypeOK
          <5>2. gateLimit' = [gateLimit EXCEPT ![target[c]] = gateLimit'[target[c]]]
            BY <3>1, <4>1, <4>3 DEF Entry, TypeOK
          <5>3. [q \in Providers |-> Holders(q)]' = [q \in Providers |-> Holders(q)]
            BY <3>1 DEF Entry, Holders
          <5>4. Admission!Open(target[c])
            BY <4>3, <5>1, <5>2, <5>3 DEF Admission!Open
          <5> QED  BY <4>1, <5>4 DEF Admission!ANext
        <4>4. CASE gateLimit[target[c]] # 0
          BY <3>1, <4>4, StillIsStutter DEF Entry
        <4> QED  BY <4>3, <4>4
      <3>2. CASE FastAcquire(c) \/ WaitAcquire(c)
        <4>1. target[c] \in Providers /\ held[c] = NoProvider
          BY <3>2 DEF FastAcquire, WaitAcquire, TokenFollowsControl, Queued, HoldsSlot
        <4>2. Admission!Admit(c, target[c])
          BY <3>2, <4>1, ReceiveAdmits DEF FastAcquire, WaitAcquire
        <4> QED  BY <4>1, <4>2 DEF Admission!ANext
      <3>3. CASE WriteReturns(c)
        <4>1. held[c] = target[c] /\ held' = [held EXCEPT ![c] = NoProvider]
          BY <3>3 DEF WriteReturns, release, TokenFollowsControl, HoldsSlot
        <4>2. CASE target[c] \in Providers
          <5>1. c \in Holders(target[c])  BY <4>1 DEF Holders
          <5>2. \A q \in Providers :
                  Holders(q)' = IF q = target[c] THEN Holders(q) \ {c} ELSE Holders(q)
            BY <4>1, <4>2, HoldersLose
          <5>3. [q \in Providers |-> Holders(q)]'
                  = [[q \in Providers |-> Holders(q)] EXCEPT ![target[c]] = @ \ {c}]
            BY <5>2
          <5>4. Admission!Depart(c, target[c])
            BY <3>3, <4>2, <5>1, <5>3 DEF Admission!Depart, WriteReturns
          <5> QED  BY <4>2, <5>4 DEF Admission!ANext
        <4>3. CASE target[c] \notin Providers
          <5>1. held[c] = NoProvider  BY <4>1, <4>3 DEF TypeOK
          <5>2. UNCHANGED held  BY <4>1, <5>1 DEF TypeOK
          <5> QED  BY <3>3, <5>2, StillIsStutter DEF WriteReturns
        <4> QED  BY <4>2, <4>3
      <3>4. CASE Begin(c) \/ Fallback(c) \/ Retry(c)
        BY <3>4, StillIsStutter DEF Begin, Fallback, Retry, Request
      <3>5. CASE FastMiss(c) \/ Register(c) \/ WaitCancelled(c) \/ ChunkElapsed(c)
                 \/ Leave(c) \/ StepOver(c) \/ Cancel(c) \/ FreshContext(c)
        BY <3>5, StillIsStutter DEF FastMiss, Register, WaitCancelled, ChunkElapsed,
           Leave, StepOver, Cancel, FreshContext
      <3> QED  BY <2>2, <3>1, <3>2, <3>3, <3>4, <3>5 DEF Step
    <2> QED  BY <2>1, <2>2 DEF Next
  <1>3. Spec => []GateInv  BY GateInit, GateStep, PTL DEF Spec
  <1> QED  BY <1>1, <1>2, <1>3, PTL DEF Spec, ImplementsAdmission, Admission!ASpec
=============================================================================
