-------------------------- MODULE GoSlidingWindow ---------------------------
(***************************************************************************)
(* ratelimit.go of a generated Go SDK: SlidingWindow.Acquire.  It locks    *)
(* mu, defers the Unlock, and while the window is full unlocks mu itself   *)
(* around a select on the context and a timer.  sync.Mutex has no owner:   *)
(* Unlock frees it whoever locked it, and is a fatal error when nobody     *)
(* did.                                                                    *)
(***************************************************************************)
EXTENDS Naturals, Sequences

CONSTANTS Callers,       \* goroutines that share one limiter
          MaxRequests,   \* NewSlidingWindow(maxRequests, window)
          Window         \* in ticks of the model's clock

(* With maxRequests = 0 Acquire would index an empty slice. *)
VARIABLES requests,   \* sw.requests, each as its age in ticks
          locked,     \* sw.mu
          pc,         \* pc[c]: where goroutine c stands
          timer,      \* timer[c]: ticks until its timer is due
          crashed,    \* "fatal error: sync: unlock of unlocked mutex"
          recent      \* history: ages of the admissions in the window

vars == <<requests, locked, pc, timer, crashed, recent>>

Abs == INSTANCE RollingWindow

(* "critical": holds mu at the loop's test; "returning": the deferred      *)
(* Unlock is left to run.                                                  *)
PcStates == {"idle", "locking", "critical", "waiting", "returning"}

Init ==
    /\ requests = << >>
    /\ locked = FALSE
    /\ pc = [c \in Callers |-> "idle"]
    /\ timer = [c \in Callers |-> 0]
    /\ crashed = FALSE
    /\ recent = << >>

Call(c) ==
    /\ pc[c] = "idle"
    /\ pc' = [pc EXCEPT ![c] = "locking"]
    /\ UNCHANGED <<requests, locked, timer, crashed, recent>>

(* evict(): count up to the first request after the cutoff, keep the rest. *)
Evicted(list) ==
    LET n == CHOOSE m \in 0 .. Len(list) :
                 /\ \A i \in 1 .. m : list[i] >= Window
                 /\ m < Len(list) => list[m + 1] < Window
    IN  SubSeq(list, n + 1, Len(list))

(* sw.mu.Lock() and evict(), at the start and after the timer. *)
Lock(c) ==
    /\ pc[c] = "locking"
    /\ ~locked
    /\ locked' = TRUE
    /\ requests' = Evicted(requests)
    /\ pc' = [pc EXCEPT ![c] = "critical"]
    /\ UNCHANGED <<timer, crashed, recent>>

(* Faulty test: "len(sw.requests) > sw.maxRequests". *)
AdmitOneTooMany(c) ==
    /\ pc[c] = "critical"
    /\ Len(requests) <= MaxRequests
    /\ requests' = Append(requests, 0)
    /\ recent' = Append(recent, 0)
    /\ pc' = [pc EXCEPT ![c] = "returning"]
    /\ UNCHANGED <<locked, timer, crashed>>

(* The window has room: append(sw.requests, time.Now()), return nil. *)
Admit(c) ==
    /\ pc[c] = "critical"
    /\ Len(requests) < MaxRequests
    /\ requests' = Append(requests, 0)
    /\ recent' = Append(recent, 0)
    /\ pc' = [pc EXCEPT ![c] = "returning"]
    /\ UNCHANGED <<locked, timer, crashed>>

(* The window is full: compute the wait, sw.mu.Unlock().  A wait that is   *)
(* not positive makes a timer that is due at once.                         *)
Wait(c) ==
    /\ pc[c] = "critical"
    /\ Len(requests) >= MaxRequests
    /\ timer' = [timer EXCEPT ![c] = Window - Head(requests)]
    /\ locked' = FALSE
    /\ crashed' = (crashed \/ ~locked)
    /\ pc' = [pc EXCEPT ![c] = "waiting"]
    /\ UNCHANGED <<requests, recent>>

(* case <-time.After(wait) *)
Fire(c) ==
    /\ pc[c] = "waiting"
    /\ timer[c] = 0
    /\ pc' = [pc EXCEPT ![c] = "locking"]
    /\ UNCHANGED <<requests, locked, timer, crashed, recent>>

(* case <-ctx.Done(): return ctx.Err(), with mu unlocked. *)
Cancel(c) ==
    /\ pc[c] = "waiting"
    /\ pc' = [pc EXCEPT ![c] = "returning"]
    /\ UNCHANGED <<requests, locked, timer, crashed, recent>>

(* The deferred sw.mu.Unlock() of every return. *)
Return(c) ==
    /\ pc[c] = "returning"
    /\ locked' = FALSE
    /\ crashed' = (crashed \/ ~locked)
    /\ pc' = [pc EXCEPT ![c] = "idle"]
    /\ UNCHANGED <<requests, timer, recent>>

(* The clock advances.  Ages stop at Window: nothing tells older ones apart. *)
Tick ==
    /\ requests' = [i \in DOMAIN requests |->
                        IF requests[i] < Window THEN requests[i] + 1 ELSE Window]
    /\ timer' = [c \in Callers |-> IF timer[c] > 0 THEN timer[c] - 1 ELSE 0]
    /\ recent' = Abs!Aged(recent)
    /\ UNCHANGED <<locked, pc, crashed>>

(* Contexts that are never cancelled while they wait. *)
Next == \/ \E c \in Callers : \/ Call(c) \/ Lock(c) \/ Admit(c)
                             \/ Wait(c) \/ Fire(c) \/ Return(c)
        \/ Tick

Spec == Init /\ [][Next]_vars

(* Time passes, goroutines run, and a Mutex in starvation mode hands over  *)
(* to the goroutine that waited longest: strong fairness of Lock.          *)
Fairness ==
    /\ WF_vars(Tick)
    /\ \A c \in Callers : /\ SF_vars(Lock(c)) /\ WF_vars(Admit(c) \/ Wait(c))
                          /\ WF_vars(Fire(c)) /\ WF_vars(Return(c))

FairSpec == Spec /\ Fairness

(* Contexts that may be; a fatal error stops the process. *)
CancelNext == ~crashed /\ (Next \/ \E c \in Callers : Cancel(c))

CancelSpec == Init /\ [][CancelNext]_vars

-----------------------------------------------------------------------------
(* Type invariant. *)
TypeOK ==
    /\ requests \in Seq(0 .. Window)
    /\ locked \in BOOLEAN
    /\ pc \in [Callers -> PcStates]
    /\ timer \in [Callers -> 0 .. Window]
    /\ crashed \in BOOLEAN
    /\ recent \in Seq(0 .. Window - 1)

(* The mutex protects the list: the goroutines between Lock and Unlock are *)
(* at most one, and exactly then the mutex is locked.                      *)
MutexExact ==
    LET inside == {c \in Callers : pc[c] \in {"critical", "returning"}}
    IN  /\ \A c, d \in inside : c = d
        /\ locked <=> inside # {}

(* The comment of Acquire: it "blocks until a request slot is available or *)
(* ctx is cancelled"; it does not take the process down.                   *)
NoFatalError == ~crashed

(* While goroutines wait, the limiter keeps admitting. *)
KeepsAdmitting ==
    (\E c \in Callers : pc[c] \in {"locking", "critical", "waiting"})
        ~> recent # << >> /\ recent[Len(recent)] = 0

(* The limiter implements the rolling window. *)
ImplementsWindow == Abs!Spec
=============================================================================
