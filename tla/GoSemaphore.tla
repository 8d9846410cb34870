---------------------------- MODULE GoSemaphore -----------------------------
(***************************************************************************)
(* concurrency.go of a generated Go SDK (a buffered channel used as a      *)
(* counting semaphore) behind the gate at the head of Client.DoJSON and    *)
(* Client.DoStream.  The gate reads the pointer c.sem three times: for the *)
(* nil test, for Acquire and for the deferred Release, and creates the     *)
(* semaphore when it is nil.  Nothing locks c.sem, so other goroutines run *)
(* between the reads.                                                      *)
(***************************************************************************)
EXTENDS Naturals, FiniteSets

CONSTANTS Callers,         \* goroutines that share one Client
          MaxConcurrent,   \* Client.MaxConcurrent, above 0: 0 skips the gate
          NoSem,           \* the nil pointer
          OptionSem        \* the semaphore that WithMaxConcurrent makes

(* A goroutine creates at most one semaphore, which is named after it. *)
Sems == Callers \cup {OptionSem}

VARIABLES sem,    \* Client.sem
          held,   \* held[s]: elements in the channel of semaphore s
          pc,     \* pc[c]: where goroutine c stands
          acq,    \* acq[c]: the semaphore c acquires
          rel     \* rel[c]: the semaphore c's deferred Release frees

vars == <<sem, held, pc, acq, rel>>

PcStates == {"idle", "create", "load", "acquiring", "acquired", "inflight"}

(* A client that was built with WithMaxConcurrent has its semaphore from   *)
(* the start; one whose exported field was set has a nil pointer.          *)
Init ==
    /\ sem \in {OptionSem, NoSem}
    /\ held = [s \in Sems |-> 0]
    /\ pc = [c \in Callers |-> "idle"]
    /\ acq = [c \in Callers |-> NoSem]
    /\ rel = [c \in Callers |-> NoSem]

(* if c.sem == nil *)
CheckSem(c) ==
    /\ pc[c] = "idle"
    /\ pc' = [pc EXCEPT ![c] = IF sem = NoSem THEN "create" ELSE "load"]
    /\ UNCHANGED <<sem, held, acq, rel>>

(* c.sem = NewSemaphore(c.MaxConcurrent) *)
CreateSem(c) ==
    /\ pc[c] = "create"
    /\ sem' = c
    /\ pc' = [pc EXCEPT ![c] = "load"]
    /\ UNCHANGED <<held, acq, rel>>

(* The receiver of c.sem.Acquire(ctx) is evaluated. *)
LoadSem(c) ==
    /\ pc[c] = "load"
    /\ acq' = [acq EXCEPT ![c] = sem]
    /\ pc' = [pc EXCEPT ![c] = "acquiring"]
    /\ UNCHANGED <<sem, held, rel>>

(* Acquire, first case of its select: the channel has room. *)
Acquire(c) ==
    /\ pc[c] = "acquiring"
    /\ held[acq[c]] < MaxConcurrent
    /\ held' = [held EXCEPT ![acq[c]] = @ + 1]
    /\ pc' = [pc EXCEPT ![c] = "acquired"]
    /\ UNCHANGED <<sem, acq, rel>>

(* Acquire, second case: ctx is done; the call returns before the defer.   *)
AcquireCancelled(c) ==
    /\ pc[c] = "acquiring"
    /\ pc' = [pc EXCEPT ![c] = "idle"]
    /\ acq' = [acq EXCEPT ![c] = NoSem]
    /\ UNCHANGED <<sem, held, rel>>

(* defer c.sem.Release() evaluates its receiver, then the request runs. *)
DeferRelease(c) ==
    /\ pc[c] = "acquired"
    /\ rel' = [rel EXCEPT ![c] = sem]
    /\ pc' = [pc EXCEPT ![c] = "inflight"]
    /\ UNCHANGED <<sem, held, acq>>

(* Release on return: receive from the channel, or nothing when it is empty. *)
Release(c) ==
    /\ pc[c] = "inflight"
    /\ held' = [held EXCEPT ![rel[c]] = IF @ > 0 THEN @ - 1 ELSE @]
    /\ pc' = [pc EXCEPT ![c] = "idle"]
    /\ acq' = [acq EXCEPT ![c] = NoSem]
    /\ rel' = [rel EXCEPT ![c] = NoSem]
    /\ UNCHANGED sem

Next == \E c \in Callers :
            \/ CheckSem(c) \/ CreateSem(c) \/ LoadSem(c) \/ Acquire(c)
            \/ AcquireCancelled(c) \/ DeferRelease(c) \/ Release(c)

Spec == Init /\ [][Next]_vars

(* Goroutines are scheduled; a send that blocks on a channel is served in  *)
(* the order of the channel's queue, hence strong fairness of Acquire; a   *)
(* request returns because every attempt has a timeout.                    *)
Fairness == \A c \in Callers :
                /\ WF_vars(CreateSem(c)) /\ WF_vars(LoadSem(c))
                /\ SF_vars(Acquire(c))
                /\ WF_vars(DeferRelease(c)) /\ WF_vars(Release(c))

FairSpec == Spec /\ Fairness

-----------------------------------------------------------------------------
(* Type invariant; that a channel holds at most MaxConcurrent elements is   *)
(* ImplementsSlots.                                                        *)
TypeOK ==
    /\ sem \in Sems \cup {NoSem}
    /\ held \in [Sems -> Nat]
    /\ pc \in [Callers -> PcStates]
    /\ acq \in [Callers -> Sems \cup {NoSem}]
    /\ rel \in [Callers -> Sems \cup {NoSem}]

InFlight == {c \in Callers : pc[c] \in {"acquired", "inflight"}}

(* Nobody replaces the semaphore of WithMaxConcurrent, nobody makes it later. *)
BuiltWithOption == sem = OptionSem

(* Acquire and Release never run on a nil semaphore, which would panic,    *)
(* however the goroutines that create it lazily interleave.                *)
NoNilSem ==
    \A c \in Callers :
        /\ pc[c] \in {"acquiring", "acquired", "inflight"} => acq[c] # NoSem
        /\ pc[c] = "inflight" => rel[c] # NoSem

(* On a client built with WithMaxConcurrent every element of a channel     *)
(* belongs to a goroutine in flight that took it there and will free it    *)
(* there: no slot leaks, none is freed for somebody else.                  *)
SlotsExact ==
    BuiltWithOption =>
        /\ \A s \in Sems : held[s] = Cardinality({c \in InFlight : acq[c] = s})
        /\ \A c \in Callers : pc[c] = "inflight" => rel[c] = acq[c]

(* On such a client a goroutine blocked in Acquire passes the gate or      *)
(* gives up.                                                               *)
EveryCallPasses ==
    \A c \in Callers :
        (BuiltWithOption /\ pc[c] = "acquiring") ~> pc[c] \in {"acquired", "idle"}

(* How the bounded gate sees the goroutines.  Where the semaphore is made  *)
(* lazily there is no such gate (two first calls may each make one), so    *)
(* those clients are shown idle.                                           *)
Phase == [c \in Callers |->
            IF pc[c] = "idle" \/ ~BuiltWithOption THEN "idle"
            ELSE IF c \in InFlight THEN "holding" ELSE "waiting"]

(* A client built with the option implements the bounded gate. *)
Slots == INSTANCE BoundedSlots WITH Max <- MaxConcurrent, phase <- Phase
ImplementsSlots == Slots!Spec
=============================================================================
