-------------------------- MODULE TsSlidingWindow ---------------------------
(***************************************************************************)
(* ratelimit.ts of a generated TypeScript SDK: SlidingWindow.acquire.  The *)
(* code before and after its one await is a step each.  A full window is   *)
(* waited for once: after the timer the request is recorded without a new  *)
(* look at the limit.                                                      *)
(***************************************************************************)
EXTENDS Naturals, Sequences

CONSTANTS Callers,       \* async calls that share one limiter
          MaxRequests,   \* new SlidingWindow(maxRequests, windowMs)
          Window         \* windowMs in ticks of the model's clock

VARIABLES requests,   \* this.requests, each as its age in ticks
          pc,         \* pc[c]: "idle" or "sleeping" (in setTimeout)
          timer,      \* timer[c]: ticks until its timer is due
          recent      \* history: ages of the admissions in the window

vars == <<requests, pc, timer, recent>>

Abs == INSTANCE RollingWindow

Init ==
    /\ requests = << >>
    /\ pc = [c \in Callers |-> "idle"]
    /\ timer = [c \in Callers |-> 0]
    /\ recent = << >>

(* evict(): shift while the first request is at or before the cutoff. *)
Evicted(list) ==
    LET n == CHOOSE m \in 0 .. Len(list) :
                 /\ \A i \in 1 .. m : list[i] >= Window
                 /\ m < Len(list) => list[m + 1] < Window
    IN  SubSeq(list, n + 1, Len(list))

(* acquire() up to its await.  After evict the oldest request is younger   *)
(* than the window, so waitMs is positive.                                 *)
Acquire(c) ==
    /\ pc[c] = "idle"
    /\ IF Len(Evicted(requests)) >= MaxRequests
       THEN /\ requests' = Evicted(requests)
            /\ timer' = [timer EXCEPT ![c] = Window - Head(Evicted(requests))]
            /\ pc' = [pc EXCEPT ![c] = "sleeping"]
            /\ UNCHANGED recent
       ELSE /\ requests' = Append(Evicted(requests), 0)
            /\ recent' = Append(recent, 0)
            /\ UNCHANGED <<pc, timer>>

(* The timer fires: evict() and push, and the promise resolves. *)
Fire(c) ==
    /\ pc[c] = "sleeping"
    /\ timer[c] = 0
    /\ requests' = Append(Evicted(requests), 0)
    /\ recent' = Append(recent, 0)
    /\ pc' = [pc EXCEPT ![c] = "idle"]
    /\ UNCHANGED timer

(* The clock advances.  Ages stop at Window: nothing tells older ones apart. *)
Tick ==
    /\ requests' = [i \in DOMAIN requests |->
                        IF requests[i] < Window THEN requests[i] + 1 ELSE Window]
    /\ timer' = [c \in Callers |-> IF timer[c] > 0 THEN timer[c] - 1 ELSE 0]
    /\ recent' = Abs!Aged(recent)
    /\ UNCHANGED pc

Next == (\E c \in Callers : Acquire(c) \/ Fire(c)) \/ Tick

Spec == Init /\ [][Next]_vars

(* Time passes and a timer that is due fires. *)
Fairness == WF_vars(Tick) /\ \A c \in Callers : WF_vars(Fire(c))

FairSpec == Spec /\ Fairness

-----------------------------------------------------------------------------
(* Type invariant. *)
TypeOK ==
    /\ requests \in Seq(0 .. Window)
    /\ pc \in [Callers -> {"idle", "sleeping"}]
    /\ timer \in [Callers -> 0 .. Window]
    /\ recent \in Seq(0 .. Window - 1)

(* The list forgets no request that still counts.                          *)
ListComplete == recent = Evicted(requests)

(* Every call that waits is admitted when its timer fires: there is no     *)
(* starvation, at the price of the bound.                                  *)
EveryCallAdmitted == \A c \in Callers : pc[c] = "sleeping" ~> pc[c] = "idle"
=============================================================================
