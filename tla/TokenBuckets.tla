---------------------------- MODULE TokenBuckets ----------------------------
(***************************************************************************)
(* TokenBucket of the generated SDKs.  acquire refills the bucket from the *)
(* time that passed since the last refill, takes a token if there is one,  *)
(* and otherwise sleeps and looks again: Rust and Go for a fixed 100 ms,   *)
(* TypeScript until the missing part of a token should be there.  No lock  *)
(* is held and nothing is reserved while a caller sleeps.                  *)
(*                                                                         *)
(* A token is Unit parts, and Rate parts come in per tick of the clock.    *)
(***************************************************************************)
EXTENDS Naturals, FiniteSetsExt

CONSTANTS Callers, Burst, Unit, Rate

VARIABLES bucketSdk,
          tokens,      \* parts in the bucket at the last refill
          age,         \* ticks since then, capped where the bucket is full
          at,          \* at[c]: "idle", "asking", "asleep" or "admitted"
          pause,       \* ticks a caller still sleeps
          broken,      \* a Go waiter unlocked a mutex it does not hold
          credit       \* history: a bucket that is refilled at every tick

vars == <<bucketSdk, tokens, age, at, pause, broken, credit>>

Full == Burst * Unit
AgeCap == Full \div Rate + 1

(* Mutant: the cap is applied before the refill is added. *)
RefilledUncapped == Min({Full, tokens}) + age * Rate

Refilled == Min({Full, tokens + age * Rate})

Call(c) ==
  /\ at[c] \in {"idle", "admitted"}
  /\ at' = [at EXCEPT ![c] = "asking"]
  /\ UNCHANGED <<bucketSdk, tokens, age, pause, broken, credit>>

(* Refill and test, under the mutex or without an await in between; a caller that
   finds no token sleeps for nap ticks. *)
Take(c, nap) ==
  /\ at[c] = "asking" /\ ~broken
  /\ age' = 0
  /\ IF Refilled >= Unit
     THEN /\ tokens' = Refilled - Unit
          /\ credit' = credit - Unit
          /\ at' = [at EXCEPT ![c] = "admitted"]
          /\ UNCHANGED pause
     ELSE /\ tokens' = Refilled
          /\ at' = [at EXCEPT ![c] = "asleep"]
          /\ pause' = [pause EXCEPT ![c] = nap]
          /\ UNCHANGED credit
  /\ UNCHANGED <<bucketSdk, broken>>

RustAcquire(c) == bucketSdk = "rust" /\ Take(c, 1)       \* 100 ms
GoAcquire(c) == bucketSdk = "go" /\ Take(c, 1)           \* 100 ms
TsAcquire(c) ==                                          \* rounded up
  bucketSdk = "ts" /\ Take(c, (Unit - Refilled + Rate - 1) \div Rate)

Acquire(c) == RustAcquire(c) \/ GoAcquire(c) \/ TsAcquire(c)

Wake(c) ==
  /\ at[c] = "asleep" /\ pause[c] = 0
  /\ at' = [at EXCEPT ![c] = "asking"]
  /\ UNCHANGED <<bucketSdk, tokens, age, pause, broken, credit>>

(* ctx.Done() in Go: Acquire returns and its deferred Unlock hits a mutex that
   is free, a fatal error, or that another goroutine holds.  The model of this
   bucket ends there. *)
Cancel(c) ==
  /\ bucketSdk = "go" /\ at[c] = "asleep" /\ ~broken
  /\ broken' = TRUE
  /\ at' = [at EXCEPT ![c] = "idle"]
  /\ UNCHANGED <<bucketSdk, tokens, age, pause, credit>>

Tick ==
  /\ age' = Min({AgeCap, age + 1})
  /\ credit' = Min({Full, credit + Rate})
  /\ pause' = [c \in Callers |-> IF pause[c] > 0 THEN pause[c] - 1 ELSE 0]
  /\ UNCHANGED <<bucketSdk, tokens, at, broken>>

Init ==
  /\ bucketSdk \in {"rust", "go", "ts"}
  /\ tokens = Full /\ credit = Full /\ age = 0
  /\ at = [c \in Callers |-> "idle"]
  /\ pause = [c \in Callers |-> 0]
  /\ broken = FALSE

Next ==
  \/ Tick
  \/ \E c \in Callers : Call(c) \/ Acquire(c) \/ Wake(c) \/ Cancel(c)

(* The clock runs, timers fire and woken tasks run. *)
Fairness ==
  /\ WF_vars(Tick)
  /\ \A c \in Callers : WF_vars(Acquire(c)) /\ WF_vars(Wake(c))

-----------------------------------------------------------------------------
(* The bucket that is refilled only when somebody asks always holds what one
   refilled all the time would: no burst is larger than Burst, and over any
   stretch of time no more tokens are handed out than came in. *)
BucketExact == ~broken => Refilled = credit

(* While a caller sleeps, callers keep being admitted. *)
KeepsAdmitting ==
  (\E c \in Callers : at[c] = "asleep")
    ~> (broken \/ \E c \in Callers : at[c] = "admitted")
=============================================================================
