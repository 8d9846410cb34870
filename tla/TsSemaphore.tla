---------------------------- MODULE TsSemaphore -----------------------------
(***************************************************************************)
(* concurrency.ts of a generated TypeScript SDK: createSemaphore, and the  *)
(* use ApiClient.request makes of it (acquire, dispatch, release in a      *)
(* finally).  JavaScript runs one callback at a time, so the executor of   *)
(* acquire and the body of release are one step each; resolving a promise  *)
(* only schedules its continuation, so a caller that was given a slot runs *)
(* in a later step of its own.                                             *)
(***************************************************************************)
EXTENDS Naturals, Sequences, FiniteSets

CONSTANTS Callers,        \* concurrent calls of ApiClient.request
          MaxConcurrent   \* ApiClientOptions.maxConcurrent

(* createSemaphore throws a RangeError for anything else. *)
ASSUME MaxConcurrentAssumption == MaxConcurrent \in Nat \ {0}
ASSUME CallersAssumption == IsFiniteSet(Callers)

VARIABLES active,    \* slots taken
          waiters,   \* resolve functions of the callers that wait, in order
          pc         \* pc[c]: where the call c stands

vars == <<active, waiters, pc>>

(* "granted": the promise is resolved and the continuation is scheduled;   *)
(* "dispatching": the call runs dispatchWithRetry and holds its slot.      *)
PcStates == {"idle", "waiting", "granted", "dispatching"}

Holders == {c \in Callers : pc[c] \in {"granted", "dispatching"}}
Waiting == {c \in Callers : pc[c] = "waiting"}

Init ==
    /\ active = 0
    /\ waiters = << >>
    /\ pc = [c \in Callers |-> "idle"]

(* Faulty acquire: "active <= max" lets one call too many in. *)
AcquireOneTooMany(c) ==
    /\ pc[c] = "idle"
    /\ IF active <= MaxConcurrent
       THEN /\ active' = active + 1
            /\ pc' = [pc EXCEPT ![c] = "granted"]
            /\ UNCHANGED waiters
       ELSE /\ waiters' = Append(waiters, c)
            /\ pc' = [pc EXCEPT ![c] = "waiting"]
            /\ UNCHANGED active

(* acquire(): take a free slot and resolve at once, or queue up. *)
Acquire(c) ==
    /\ pc[c] = "idle"
    /\ IF active < MaxConcurrent
       THEN /\ active' = active + 1
            /\ pc' = [pc EXCEPT ![c] = "granted"]
            /\ UNCHANGED waiters
       ELSE /\ waiters' = Append(waiters, c)
            /\ pc' = [pc EXCEPT ![c] = "waiting"]
            /\ UNCHANGED active

(* Faulty continuation: the promise that acquire returned is never resolved. *)
ResumeNever(c) == pc[c] = "granted" /\ UNCHANGED vars

(* The continuation after "await this.semaphore.acquire()". *)
Resume(c) ==
    /\ pc[c] = "granted"
    /\ pc' = [pc EXCEPT ![c] = "dispatching"]
    /\ UNCHANGED <<active, waiters>>

(* How many waiters the loop "while (active < max && waiters.length > 0)"  *)
(* of release wakes when it starts with n slots taken.                     *)
WakeCount(n) ==
    IF n >= MaxConcurrent THEN 0
    ELSE IF Len(waiters) < MaxConcurrent - n THEN Len(waiters)
    ELSE MaxConcurrent - n

Woken(n) == {waiters[i] : i \in 1 .. WakeCount(n)}

(* Faulty releases: ReleaseWith(c, a, w, woken) leaves active = a, the     *)
(* queue w and the calls in woken granted.                                 *)
ReleaseWith(c, a, w, woken) ==
    /\ pc[c] = "dispatching"
    /\ active' = a
    /\ waiters' = w
    /\ pc' = [d \in Callers |-> IF d = c THEN "idle"
                                ELSE IF d \in woken THEN "granted" ELSE pc[d]]

Rest(n) == SubSeq(waiters, WakeCount(n) + 1, Len(waiters))

ReleaseForgetsCount(c) ==   \* no "active++" in the wake-up loop
    ReleaseWith(c, active - 1, Rest(active - 1), Woken(active - 1))
ReleaseWakesNobody(c) ==    \* no wake-up loop
    ReleaseWith(c, active - 1, waiters, {})

(* release(), called once by the finally block of dispatch: a no-op when   *)
(* no slot is taken, else hand the free slots to the waiters in order.     *)
Release(c) ==
    /\ pc[c] = "dispatching"
    /\ IF active = 0
       THEN /\ pc' = [pc EXCEPT ![c] = "idle"]
            /\ UNCHANGED <<active, waiters>>
       ELSE LET n == active - 1
            IN  /\ active' = n + WakeCount(n)
                /\ waiters' = SubSeq(waiters, WakeCount(n) + 1, Len(waiters))
                /\ pc' = [d \in Callers |-> IF d = c THEN "idle"
                                            ELSE IF d \in Woken(n) THEN "granted"
                                            ELSE pc[d]]

Next == \E c \in Callers : Acquire(c) \/ Resume(c) \/ Release(c)

Spec == Init /\ [][Next]_vars

(* The microtask queue runs every continuation, and a dispatch always      *)
(* settles (each attempt has a timeout and the retries are bounded), so    *)
(* its finally block runs.                                                 *)
Fairness == \A c \in Callers : WF_vars(Resume(c)) /\ WF_vars(Release(c))

FairSpec == Spec /\ Fairness

-----------------------------------------------------------------------------
(* Type invariant. *)
TypeOK ==
    /\ active \in Nat
    /\ waiters \in Seq(Callers)
    /\ pc \in [Callers -> PcStates]

(* The counter is exact: it counts the calls that were given a slot and    *)
(* have not released it.  A wake-up that forgets active++, or a release    *)
(* that runs twice, breaks it some steps later.                            *)
CountExact == active = Cardinality(Holders)

(* No more than maxConcurrent requests are between their acquire and their *)
(* release, counted over the calls and not over the counter.               *)
AtMostMax == Cardinality(Holders) <= MaxConcurrent

(* No lost wake-up: while somebody waits, every slot is taken.             *)
NoIdleSlot == waiters # << >> => active = MaxConcurrent

(* The queue holds exactly the waiting calls, each once: nobody waits      *)
(* without being queued and nobody is woken twice.                         *)
QueueExact ==
    /\ Waiting = {waiters[i] : i \in DOMAIN waiters}
    /\ \A i, j \in DOMAIN waiters : waiters[i] = waiters[j] => i = j

Inv == TypeOK /\ CountExact /\ AtMostMax /\ NoIdleSlot /\ QueueExact

(* The file's comment says "FIFO": a call is never given a slot while one  *)
(* that queued before it still waits, whether it waited too or just came.  *)
Fifo ==
    [][/\ \A i, j \in DOMAIN waiters :
             (i < j /\ pc'[waiters[j]] = "granted") => pc'[waiters[i]] # "waiting"
       /\ \A c \in Callers :
             (pc[c] = "idle" /\ pc'[c] = "granted") => Waiting = {}]_vars

(* Every call that waits for a slot eventually dispatches its request.     *)
EveryWaiterDispatches ==
    \A c \in Callers : pc[c] = "waiting" ~> pc[c] = "dispatching"

(* How the bounded gate sees the calls. *)
Phase == [c \in Callers |->
            IF pc[c] \in {"granted", "dispatching"} THEN "holding" ELSE pc[c]]

(* The semaphore implements the bounded gate: acquire enters it or asks,   *)
(* its continuation is invisible, release leaves and lets the woken in.    *)
Slots == INSTANCE BoundedSlots WITH Max <- MaxConcurrent, phase <- Phase
ImplementsSlots == Slots!Spec
=============================================================================
