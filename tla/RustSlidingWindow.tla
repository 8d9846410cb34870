------------------------- MODULE RustSlidingWindow --------------------------
(***************************************************************************)
(* ratelimit.rs of a generated Rust SDK: SlidingWindow::acquire.  The loop *)
(* locks the state, drops the requests that left the window, and either    *)
(* records one more or sleeps until the oldest leaves.  It reads the clock *)
(* again for the sleep, after other work, so time passes inside the lock.  *)
(***************************************************************************)
EXTENDS Naturals, Sequences, FiniteSets

CONSTANTS Callers,       \* tasks that share one limiter
          MaxRequests,   \* SlidingWindow::new(max_requests, window)
          Window         \* in ticks of the model's clock

VARIABLES requests,   \* inner.requests, each as its age in ticks, capped
          pc,         \* pc[c]: where task c stands
          sleep,      \* sleep[c]: ticks until its sleep is over
          recent      \* history: ages of the admissions in the window

vars == <<requests, pc, sleep, recent>>

(* Ages are capped one above Window: older than the window is all that the *)
(* subtraction in acquire tells apart.                                     *)
Cap == Window + 1
Older(a) == IF a < Cap THEN a + 1 ELSE Cap

Abs == INSTANCE RollingWindow

PcStates == {"idle", "locking", "pruned", "sleeping", "panicked"}

Init ==
    /\ requests = << >>
    /\ pc = [c \in Callers |-> "idle"]
    /\ sleep = [c \in Callers |-> 0]
    /\ recent = << >>

(* tokio's Mutex is held between prune and the decision. *)
Locked == \E c \in Callers : pc[c] = "pruned"

Call(c) ==
    /\ pc[c] = "idle"
    /\ pc' = [pc EXCEPT ![c] = "locking"]
    /\ UNCHANGED <<requests, sleep, recent>>

(* retain(|t| *t > cutoff): the j-th request that stays is the one with    *)
(* j - 1 before it that stay.                                              *)
Retained(list) ==
    LET kept == {i \in DOMAIN list : list[i] < Window}
        nth(j) == CHOOSE i \in kept : Cardinality({k \in kept : k < i}) = j - 1
    IN  [j \in 1 .. Cardinality(kept) |-> list[nth(j)]]

(* lock().await, retain *)
Prune(c) ==
    /\ pc[c] = "locking"
    /\ ~Locked
    /\ requests' = Retained(requests)
    /\ pc' = [pc EXCEPT ![c] = "pruned"]
    /\ UNCHANGED <<sleep, recent>>

(* len() < max_requests: record the request and return Ok. *)
Admit(c) ==
    /\ pc[c] = "pruned"
    /\ Len(requests) < MaxRequests
    /\ requests' = Append(requests, 0)
    /\ recent' = Append(recent, 0)
    /\ pc' = [pc EXCEPT ![c] = "idle"]
    /\ UNCHANGED sleep

(* The window is full: sleep for window - elapsed(oldest).  Subtracting    *)
(* Durations panics when the oldest left the window since the prune; with  *)
(* max_requests = 0 there is no oldest and the loop locks again at once.   *)
Wait(c) ==
    /\ pc[c] = "pruned"
    /\ Len(requests) >= MaxRequests
    /\ IF requests = << >>
       THEN /\ pc' = [pc EXCEPT ![c] = "locking"]
            /\ UNCHANGED sleep
       ELSE IF Head(requests) > Window
       THEN /\ pc' = [pc EXCEPT ![c] = "panicked"]
            /\ UNCHANGED sleep
       ELSE /\ sleep' = [sleep EXCEPT ![c] = Window - Head(requests)]
            /\ pc' = [pc EXCEPT ![c] = "sleeping"]
    /\ UNCHANGED <<requests, recent>>

(* Faulty wake-up: the task returns without recording its request. *)
WakeReturns(c) ==
    /\ pc[c] = "sleeping"
    /\ sleep[c] = 0
    /\ pc' = [pc EXCEPT ![c] = "idle"]
    /\ UNCHANGED <<requests, sleep, recent>>

(* The sleep is over: the loop starts again. *)
Wake(c) ==
    /\ pc[c] = "sleeping"
    /\ sleep[c] = 0
    /\ pc' = [pc EXCEPT ![c] = "locking"]
    /\ UNCHANGED <<requests, sleep, recent>>

(* The clock advances; a sleep may end late, never early. *)
Tick ==
    /\ requests' = [i \in DOMAIN requests |-> Older(requests[i])]
    /\ sleep' = [c \in Callers |-> IF sleep[c] > 0 THEN sleep[c] - 1 ELSE 0]
    /\ recent' = Abs!Aged(recent)
    /\ UNCHANGED pc

Next == \/ \E c \in Callers : Call(c) \/ Prune(c) \/ Admit(c) \/ Wait(c) \/ Wake(c)
        \/ Tick

Spec == Init /\ [][Next]_vars

(* Time passes and tasks are polled; tokio's Mutex is fair, so a task that *)
(* waits for it gets it although others come and go.                       *)
Fairness ==
    /\ WF_vars(Tick)
    /\ \A c \in Callers : /\ SF_vars(Prune(c))
                          /\ WF_vars(Admit(c) \/ Wait(c)) /\ WF_vars(Wake(c))

FairSpec == Spec /\ Fairness

-----------------------------------------------------------------------------
(* Type invariant. *)
TypeOK ==
    /\ requests \in Seq(0 .. Cap)
    /\ Len(requests) <= MaxRequests
    /\ pc \in [Callers -> PcStates]
    /\ sleep \in [Callers -> 0 .. Window]
    /\ recent \in Seq(0 .. Window - 1)

(* The list forgets no request that still counts: the admissions in the    *)
(* window are exactly the young end of the list.                           *)
ListComplete == recent = Retained(requests)

(* While tasks wait, the limiter keeps admitting (or a task panicked).     *)
KeepsAdmitting ==
    (\E c \in Callers : pc[c] \in {"locking", "pruned", "sleeping"})
        ~> \/ recent # << >> /\ recent[Len(recent)] = 0
           \/ \E c \in Callers : pc[c] = "panicked"

(* The limiter implements the rolling window. *)
ImplementsWindow == Abs!Spec
=============================================================================
