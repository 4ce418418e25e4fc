---------------------------- MODULE ProviderGate ----------------------------
(***************************************************************************)
(* The per-provider concurrency gate of kernel/provider_gate.go and the    *)
(* three places that write to an LLM through it: the primary write of      *)
(* reasonStep, attemptFallback and the compaction request.                 *)
(*                                                                         *)
(* A caller is the reasoning goroutine of one process.  A gate entry is a  *)
(* buffered channel pre-filled with `limit' tokens: acquiring receives a   *)
(* token, releasing sends one back.  One action is one lock section, one   *)
(* channel operation or one arm of the select.                             *)
(***************************************************************************)
EXTENDS Integers, FiniteSets

CONSTANTS
    Callers,        \* reasoning goroutines
    Providers,      \* provider names, the keys of the gate's map
    NoProvider,     \* the empty provider name: a bare device path, not gated
    PrimaryOf,      \* caller -> provider of its primary device, or NoProvider
    FallbackOf,     \* caller -> provider of its fallback device, or NoProvider
    ProjectLimit,   \* caller -> provider -> limit its project declares, 0 if none
    GlobalLimit,    \* provider -> limit the global snapshot declares, 0 if none
    DefaultLimit,   \* defaultMaxConcurrency
    MaxChunks       \* gateAcquireTimeout / heartbeatRefreshInterval

ASSUME GateConstants ==
    /\ NoProvider \notin Providers
    /\ PrimaryOf \in [Callers -> Providers \union {NoProvider}]
    /\ FallbackOf \in [Callers -> Providers \union {NoProvider}]
    /\ ProjectLimit \in [Callers -> [Providers -> Int]]
    /\ GlobalLimit \in [Providers -> Int]
    /\ DefaultLimit \in Nat \ {0}
    /\ MaxChunks \in Nat \ {0}

ASSUME FiniteCallers == IsFiniteSet(Callers)

VARIABLES
    gateLimit,  \* provider -> gateEntry.limit, 0 while the map has no entry
    slots,      \* provider -> tokens in the entry's channel
    waiters,    \* provider -> gateEntry.waiters
    pc,         \* caller -> where its goroutine is
    site,       \* caller -> which write site is running
    target,     \* caller -> provider name passed to acquire and release
    result,     \* caller -> how the current request ended
    waited,     \* caller -> heartbeat chunks spent in the wait loop
    ctxDone,    \* caller -> the context passed to acquire is cancelled
    held        \* caller -> provider whose token it received and has not returned

callerVars == <<pc, site, target, result, waited, ctxDone>>
vars == <<gateLimit, slots, waiters, pc, site, target, result, waited, ctxDone, held>>

Sites   == {"primary", "fallback", "compact"}
Results == {"none", "ok", "failed", "timeout", "cancelled"}
Queued  == {"entry", "try", "register", "wait"}
PCs     == Queued \union {"leave", "write", "decide", "idle"}

Holders(p) == {c \in Callers : held[c] = p}

\* Mutant: any declared value is taken, negative ones included.
resolveUnchecked(c, p) ==
    CASE ProjectLimit[c][p] # 0 -> ProjectLimit[c][p]
      [] ProjectLimit[c][p] = 0 /\ GlobalLimit[p] # 0 -> GlobalLimit[p]
      [] OTHER -> DefaultLimit

resolveProviderConcurrencyLimit(c, p) ==
    CASE ProjectLimit[c][p] > 0 -> ProjectLimit[c][p]
      [] ProjectLimit[c][p] <= 0 /\ GlobalLimit[p] > 0 -> GlobalLimit[p]
      [] OTHER -> DefaultLimit

Init ==
    /\ gateLimit = [p \in Providers |-> 0]
    /\ slots     = [p \in Providers |-> 0]
    /\ waiters   = [p \in Providers |-> 0]
    /\ pc        = [c \in Callers |-> "idle"]
    /\ site      = [c \in Callers |-> "primary"]
    /\ target    = [c \in Callers |-> NoProvider]
    /\ result    = [c \in Callers |-> "none"]
    /\ waited    = [c \in Callers |-> 0]
    /\ ctxDone   = [c \in Callers |-> FALSE]
    /\ held      = [c \in Callers |-> NoProvider]

Goto(c, label) == pc' = [pc EXCEPT ![c] = label]

\* A write site calls acquireProviderGate; the empty name passes ungated.
Request(c, s, p) ==
    /\ site' = [site EXCEPT ![c] = s]
    /\ target' = [target EXCEPT ![c] = p]
    /\ result' = [result EXCEPT ![c] = "none"]
    /\ Goto(c, IF p = NoProvider THEN "write" ELSE "entry")
    /\ UNCHANGED <<gateLimit, slots, waiters, waited, ctxDone, held>>

\* One iteration of the reasoning loop, or a compaction, builds a request.
Begin(c) ==
    /\ pc[c] = "idle"
    /\ ~ctxDone[c]
    /\ \E s \in {"primary", "compact"} : Request(c, s, PrimaryOf[c])

\* Mutant: a later caller's limit replaces the first one.
EntryRelimits(c) ==
    /\ pc[c] = "entry"
    /\ LET p == target[c]
           n == resolveProviderConcurrencyLimit(c, p)
       IN  /\ gateLimit' = [gateLimit EXCEPT ![p] = n]
           /\ slots' = IF gateLimit[p] = 0 THEN [slots EXCEPT ![p] = n] ELSE slots
    /\ Goto(c, "try")
    /\ UNCHANGED <<waiters, site, target, result, waited, ctxDone, held>>

\* Mutant: the channel is filled with one token too many.
EntryOverfills(c) ==
    /\ pc[c] = "entry"
    /\ LET p == target[c]
           n == resolveProviderConcurrencyLimit(c, p)
       IN  IF gateLimit[p] = 0
           THEN /\ gateLimit' = [gateLimit EXCEPT ![p] = n]
                /\ slots' = [slots EXCEPT ![p] = n + 1]
           ELSE UNCHANGED <<gateLimit, slots>>
    /\ Goto(c, "try")
    /\ UNCHANGED <<waiters, site, target, result, waited, ctxDone, held>>

\* providerGate.entry: created full on first sight; the first limit wins.
Entry(c) ==
    /\ pc[c] = "entry"
    /\ LET p == target[c]
           n == resolveProviderConcurrencyLimit(c, p)
       IN  IF gateLimit[p] = 0
           THEN /\ gateLimit' = [gateLimit EXCEPT ![p] = n]
                /\ slots' = [slots EXCEPT ![p] = n]
           ELSE UNCHANGED <<gateLimit, slots>>
    /\ Goto(c, "try")
    /\ UNCHANGED <<waiters, site, target, result, waited, ctxDone, held>>

ReceiveSlot(c) ==
    /\ slots[target[c]] > 0
    /\ slots' = [slots EXCEPT ![target[c]] = @ - 1]
    /\ held' = [held EXCEPT ![c] = target[c]]

\* The non-blocking fast path: no waiter is counted and no event is emitted.
FastAcquire(c) ==
    /\ pc[c] = "try"
    /\ ReceiveSlot(c)
    /\ Goto(c, "write")
    /\ UNCHANGED <<gateLimit, waiters, site, target, result, waited, ctxDone>>

FastMiss(c) ==
    /\ pc[c] = "try"
    /\ slots[target[c]] = 0
    /\ Goto(c, "register")
    /\ UNCHANGED <<gateLimit, slots, waiters, site, target, result, waited, ctxDone, held>>

Register(c) ==
    /\ pc[c] = "register"
    /\ waiters' = [waiters EXCEPT ![target[c]] = @ + 1]
    /\ Goto(c, "wait")
    /\ UNCHANGED <<gateLimit, slots, site, target, result, waited, ctxDone, held>>

\* The three arms of the select in the wait loop.  When several are ready the
\* runtime picks any of them.
WaitAcquire(c) ==
    /\ pc[c] = "wait"
    /\ ReceiveSlot(c)
    /\ Goto(c, "leave")
    /\ UNCHANGED <<gateLimit, waiters, site, target, result, waited, ctxDone>>

WaitCancelled(c) ==
    /\ pc[c] = "wait"
    /\ ctxDone[c]
    /\ result' = [result EXCEPT ![c] = "cancelled"]
    /\ Goto(c, "leave")
    /\ UNCHANGED <<gateLimit, slots, waiters, site, target, waited, ctxDone, held>>

\* Mutant: each heartbeat restarts the wait's budget.
ChunkNotCounted(c) ==
    /\ pc[c] = "wait"
    /\ waited' = [waited EXCEPT ![c] = 1]
    /\ UNCHANGED <<gateLimit, slots, waiters, pc, site, target, result, ctxDone, held>>

ChunkElapsed(c) ==
    /\ pc[c] = "wait"
    /\ waited' = [waited EXCEPT ![c] = @ + 1]
    /\ IF waited[c] + 1 >= MaxChunks
       THEN /\ result' = [result EXCEPT ![c] = "timeout"]
            /\ Goto(c, "leave")
       ELSE UNCHANGED <<result, pc>>
    /\ UNCHANGED <<gateLimit, slots, waiters, site, target, ctxDone, held>>

\* Mutant: a cancelled wait returns without waiters--.
LeaveUncounted(c) ==
    /\ pc[c] = "leave"
    /\ waiters' = IF result[c] = "cancelled" THEN waiters
                  ELSE [waiters EXCEPT ![target[c]] = @ - 1]
    /\ waited' = [waited EXCEPT ![c] = 0]
    /\ Goto(c, IF result[c] = "none" THEN "write" ELSE "decide")
    /\ UNCHANGED <<gateLimit, slots, site, target, result, ctxDone, held>>

\* The deferred waiters-- runs before acquire returns, whatever the outcome,
\* and the wait loop's local count goes out of scope.
Leave(c) ==
    /\ pc[c] = "leave"
    /\ waiters' = [waiters EXCEPT ![target[c]] = @ - 1]
    /\ waited' = [waited EXCEPT ![c] = 0]
    /\ Goto(c, IF result[c] = "none" THEN "write" ELSE "decide")
    /\ UNCHANGED <<gateLimit, slots, site, target, result, ctxDone, held>>

\* Mutant: the slot goes back to the primary provider's channel.
releasePrimary(c) ==
    LET p == PrimaryOf[c] IN
    /\ slots' = IF p \in Providers /\ slots[p] < gateLimit[p]
                THEN [slots EXCEPT ![p] = @ + 1]
                ELSE slots
    /\ held' = [held EXCEPT ![c] = NoProvider]

\* providerGate.release: no entry, nothing to do; a full channel drops the token.
release(c) ==
    LET p == target[c] IN
    /\ slots' = IF p \in Providers /\ slots[p] < gateLimit[p]
                THEN [slots EXCEPT ![p] = @ + 1]
                ELSE slots
    /\ held' = [held EXCEPT ![c] = NoProvider]

\* Mutant: a failed write forgets to release its slot.
WriteLeaks(c) ==
    /\ pc[c] = "write"
    /\ \E r \in {"ok", "failed"} :
         /\ ctxDone[c] => r = "failed"
         /\ result' = [result EXCEPT ![c] = r]
         /\ IF r = "ok" THEN release(c) ELSE UNCHANGED <<slots, held>>
    /\ Goto(c, "decide")
    /\ UNCHANGED <<gateLimit, waiters, site, target, waited, ctxDone>>

\* The driver's Write returns, failing if the context is cancelled, and the
\* slot is released on both paths before anything else happens.
WriteReturns(c) ==
    /\ pc[c] = "write"
    /\ \E r \in {"ok", "failed"} :
         /\ ctxDone[c] => r = "failed"
         /\ result' = [result EXCEPT ![c] = r]
         /\ release(c)
    /\ Goto(c, "decide")
    /\ UNCHANGED <<gateLimit, waiters, site, target, waited, ctxDone>>

\* attemptFallback: a primary request that failed or timed out at the gate,
\* never one that was cancelled, queues on the fallback provider's bucket.
Fallback(c) ==
    /\ pc[c] = "decide"
    /\ site[c] = "primary"
    /\ result[c] \in {"failed", "timeout"}
    /\ ~ctxDone[c]
    /\ FallbackOf[c] # NoProvider
    /\ Request(c, "fallback", FallbackOf[c])

\* A transient failure retries the step; a gate timeout never does.
Retry(c) ==
    /\ pc[c] = "decide"
    /\ site[c] = "primary"
    /\ result[c] = "failed"
    /\ ~ctxDone[c]
    /\ Request(c, "primary", PrimaryOf[c])

\* The step is over: answered, given up, interrupted or suspended.
StepOver(c) ==
    /\ pc[c] = "decide"
    /\ Goto(c, "idle")
    /\ site' = [site EXCEPT ![c] = "primary"]
    /\ target' = [target EXCEPT ![c] = NoProvider]
    /\ result' = [result EXCEPT ![c] = "none"]
    /\ UNCHANGED <<gateLimit, slots, waiters, waited, ctxDone, held>>

\* A signal, a pause or the compaction timeout cancels the context.
Cancel(c) ==
    /\ pc[c] # "idle"
    /\ ~ctxDone[c]
    /\ ctxDone' = [ctxDone EXCEPT ![c] = TRUE]
    /\ UNCHANGED <<gateLimit, slots, waiters, pc, site, target, result, waited, held>>

\* The process is resumed, the heartbeat monitor's retry of the step begins,
\* or another process starts: the next request has a fresh context.
FreshContext(c) ==
    /\ pc[c] = "idle"
    /\ ctxDone[c]
    /\ ctxDone' = [ctxDone EXCEPT ![c] = FALSE]
    /\ UNCHANGED <<gateLimit, slots, waiters, pc, site, target, result, waited, held>>

Step(c) ==
    \/ Begin(c) \/ Entry(c) \/ FastAcquire(c) \/ FastMiss(c) \/ Register(c)
    \/ WaitAcquire(c) \/ WaitCancelled(c) \/ ChunkElapsed(c) \/ Leave(c)
    \/ WriteReturns(c) \/ Fallback(c) \/ Retry(c) \/ StepOver(c)
    \/ Cancel(c) \/ FreshContext(c)

Next == \E c \in Callers : Step(c)

Spec == Init /\ [][Next]_vars

\* Time passes in the wait loop, and code that is not blocked runs on.  Nothing
\* is assumed of which arm the select picks, nor that a driver's Write returns.
Fairness == \A c \in Callers : WF_vars(ChunkElapsed(c)) /\ WF_vars(Leave(c))

FairSpec == Spec /\ Fairness
-----------------------------------------------------------------------------
TypeOK ==
    /\ gateLimit \in [Providers -> Nat]
    /\ slots \in [Providers -> Nat]
    /\ waiters \in [Providers -> Int]
    /\ pc \in [Callers -> PCs]
    /\ site \in [Callers -> Sites]
    /\ target \in [Callers -> Providers \union {NoProvider}]
    /\ result \in [Callers -> Results]
    /\ waited \in [Callers -> Nat]
    /\ ctxDone \in [Callers -> BOOLEAN]
    /\ held \in [Callers -> Providers \union {NoProvider}]

\* No token is lost or minted: over any interleaving of writes, failures,
\* cancellations and timeouts, the tokens in the channel and the tokens held
\* add up to the limit fixed when the entry was created.
SlotConservation ==
    \A p \in Providers : slots[p] + Cardinality(Holders(p)) = gateLimit[p]

\* At most `limit' requests are in flight to one provider, whichever of the
\* three write sites they come from and whatever limit each process resolved.
InFlightWithinLimit ==
    \A p \in Providers :
        Cardinality({c \in Callers : pc[c] = "write" /\ target[c] = p}) <= gateLimit[p]

\* A goroutine that queues at a gate holds no token of any gate, so two
\* processes whose primary and fallback providers are each other's cannot
\* wait on one another.
NoHoldAndWait == \A c \in Callers : pc[c] \in Queued => held[c] = NoProvider

\* The `queued' count reported to the user is exactly the number of waiters.
WaitersExact ==
    \A p \in Providers :
        waiters[p] = Cardinality({c \in Callers : pc[c] \in {"wait", "leave"} /\ target[c] = p})

\* gateAcquireTimeout bounds every wait, even when no Write ever returns.
WaitBounded == \A c \in Callers : (pc[c] = "wait") ~> (pc[c] # "wait")

Admission == INSTANCE AdmissionControl
    WITH capacity <- gateLimit, inside <- [p \in Providers |-> Holders(p)]

\* The gate implements the abstract admission control: a caller is inside a
\* provider from the moment it receives the token until it gives it back.
ImplementsAdmission == Admission!ASpec
=============================================================================
