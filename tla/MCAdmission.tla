---------------------------- MODULE MCAdmission -----------------------------
(***************************************************************************)
(* What a call passes before its request is sent: the concurrency gates    *)
(* and the rate limiters of the generated SDKs in one model.  The initial  *)
(* state chooses the one that runs; the others stay where they start.      *)
(***************************************************************************)
EXTENDS TsSemaphore

CONSTANTS Goroutines, NoSem, OptionSem,   \* the Go gate
          MaxRequests, Window,            \* the sliding windows
          Burst, Unit, Rate               \* the token buckets

ASSUME MaxRequestsAssumption == MaxRequests \in Nat \ {0}
ASSUME WindowAssumption == Window \in Nat \ {0}
ASSUME GoroutinesAssumption == IsFiniteSet(Goroutines)
ASSUME SemsAssumption ==
    NoSem # OptionSem /\ NoSem \notin Goroutines /\ OptionSem \notin Goroutines
ASSUME BucketAssumption ==
    Burst \in Nat /\ Unit \in Nat \ {0} /\ Rate \in Nat \ {0}

VARIABLES part,
          goSem, goHeld, goPc, goAcq, goRel,
          rustRequests, rustPc, rustSleep, rustRecent,
          goRequests, goLocked, goAt, goTimer, goCrashed, goRecent,
          tsRequests, tsPc, tsTimer, tsRecent,
          bucketSdk, tokens, age, at, pause, broken, credit

gateVars == <<goSem, goHeld, goPc, goAcq, goRel>>
rustVars == <<rustRequests, rustPc, rustSleep, rustRecent>>
goVars == <<goRequests, goLocked, goAt, goTimer, goCrashed, goRecent>>
tsVars == <<tsRequests, tsPc, tsTimer, tsRecent>>
bucketVars == <<bucketSdk, tokens, age, at, pause, broken, credit>>

GoGate == INSTANCE GoSemaphore WITH
              Callers <- Goroutines,
              sem <- goSem, held <- goHeld, pc <- goPc, acq <- goAcq, rel <- goRel
RustWindow == INSTANCE RustSlidingWindow WITH
              Callers <- Goroutines, requests <- rustRequests, pc <- rustPc,
              sleep <- rustSleep, recent <- rustRecent
GoWindow == INSTANCE GoSlidingWindow WITH
              Callers <- Goroutines, requests <- goRequests, locked <- goLocked,
              pc <- goAt, timer <- goTimer, crashed <- goCrashed, recent <- goRecent
TsWindow == INSTANCE TsSlidingWindow WITH
              Callers <- Goroutines, requests <- tsRequests, pc <- tsPc,
              timer <- tsTimer, recent <- tsRecent
Bucket == INSTANCE TokenBuckets WITH Callers <- Goroutines

MCInit ==
    /\ part \in {"ts gate", "go gate", "rust window", "go window", "ts window", "bucket"}
    /\ Init /\ GoGate!Init
    /\ RustWindow!Init /\ GoWindow!Init /\ TsWindow!Init /\ Bucket!Init
    /\ part # "go gate" => goSem = OptionSem
    /\ part # "bucket" => bucketSdk = "rust"

MCNext ==
    \/ /\ part = "ts gate" /\ Next
       /\ UNCHANGED <<part, gateVars, rustVars, goVars, tsVars, bucketVars>>
    \/ /\ part = "go gate" /\ GoGate!Next
       /\ UNCHANGED <<part, vars, rustVars, goVars, tsVars, bucketVars>>
    \/ /\ part = "rust window" /\ RustWindow!Next
       /\ UNCHANGED <<part, vars, gateVars, goVars, tsVars, bucketVars>>
    \/ /\ part = "go window" /\ GoWindow!Next
       /\ UNCHANGED <<part, vars, gateVars, rustVars, tsVars, bucketVars>>
    \/ /\ part = "ts window" /\ TsWindow!Next
       /\ UNCHANGED <<part, vars, gateVars, rustVars, goVars, bucketVars>>
    \/ /\ part = "bucket" /\ Bucket!Next
       /\ UNCHANGED <<part, vars, gateVars, rustVars, goVars, tsVars>>

MCSpec ==
    /\ MCInit
    /\ [][MCNext]_<<part, vars, gateVars, rustVars, goVars, tsVars, bucketVars>>
    /\ \/ part = "ts gate" /\ Fairness
       \/ part = "go gate" /\ GoGate!Fairness
       \/ part = "rust window" /\ RustWindow!Fairness
       \/ part = "go window" /\ GoWindow!Fairness
       \/ part = "ts window" /\ TsWindow!Fairness
       \/ part = "bucket" /\ Bucket!Fairness

-----------------------------------------------------------------------------
(* The books of both gates are exact.  TypeScript: the counter counts the  *)
(* calls that hold a slot and the queue holds the calls that wait, each    *)
(* once.  Go: no slot leaks and none is freed for another goroutine,       *)
(* cancelled contexts included, and no operation runs on a nil semaphore,  *)
(* however the lazy creations interleave.  The variables keep their types. *)
GatesExact ==
    /\ TypeOK /\ CountExact /\ QueueExact
    /\ GoGate!TypeOK /\ GoGate!SlotsExact /\ GoGate!NoNilSem

(* Every TypeScript call that waits dispatches its request, and in the     *)
(* order of the queue; every goroutine blocked in Acquire of a client      *)
(* built with WithMaxConcurrent gets in or gives up.                       *)
NoStarvation == Fifo /\ EveryWaiterDispatches /\ GoGate!EveryCallPasses

(* createSemaphore of TypeScript and, with WithMaxConcurrent, the channel  *)
(* behind DoJSON and DoStream of Go implement the bounded gate.            *)
GatesImplementSlots == ImplementsSlots /\ GoGate!ImplementsSlots

(* The limiters' books are exact too.  Pruning (retain in Rust, evict in   *)
(* TypeScript) forgets no request that still counts, wherever the clock    *)
(* advances; the Go mutex is locked exactly while one goroutine works on   *)
(* the list, although Acquire unlocks it around its wait; and a token      *)
(* bucket, refilled only when a caller asks, holds what one refilled at    *)
(* every instant would, so that no burst exceeds maxTokens nor the rate    *)
(* refillRate.  No sleep is longer than the window.                        *)
LimitersExact ==
    /\ RustWindow!TypeOK /\ RustWindow!ListComplete
    /\ GoWindow!TypeOK /\ GoWindow!MutexExact
    /\ TsWindow!TypeOK /\ TsWindow!ListComplete
    /\ Bucket!BucketExact

(* While callers wait, the Rust and the Go window and every token bucket   *)
(* keep admitting; in the TypeScript window every waiting call is admitted.*)
LimitersAdmit ==
    /\ RustWindow!KeepsAdmitting /\ GoWindow!KeepsAdmitting
    /\ TsWindow!EveryCallAdmitted
    /\ Bucket!KeepsAdmitting

(* The Rust and the Go limiter implement the rolling window. *)
WindowsKept == RustWindow!ImplementsWindow /\ GoWindow!ImplementsWindow
=============================================================================
