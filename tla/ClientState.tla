----------------------------- MODULE ClientState -----------------------------
(***************************************************************************)
(* What one call through a generated client goes through in every SDK: a   *)
(* concurrency gate, a rate limiter, telemetry hooks, deduplication, a     *)
(* chain of middlewares around the transport, and retries.  The modules    *)
(* RustClient, GoClient and TsClient put these stages in the order of      *)
(* their source.  The caches, the deduper's own steps and the idempotency  *)
(* key have modules of their own.                                          *)
(***************************************************************************)
EXTENDS Naturals, Sequences, FiniteSets, SequencesExt

CONSTANTS Calls,        \* concurrent calls, all of the same GET
          Slots,        \* maxConcurrent
          MaxRetries

ASSUME ClientAssumption ==
  /\ IsFiniteSet(Calls) /\ 0 \notin Calls
  /\ Slots \in Nat /\ MaxRetries \in Nat

VARIABLES pc,           \* pc[c]: the stage a call is in
          free,         \* free slots of the gate
          attempt,      \* attempt[c]
          hooks,        \* hooks[c]: the telemetry hooks called for c, in order
          flight,       \* the call that leads the flight of the key, or 0
          dedupe,       \* the option
          kind,         \* kind[c]: "json" or "stream"
          result        \* result[c]: "none", "ok" or "error"

vars == <<pc, free, attempt, hooks, flight, dedupe, kind, result>>

Hook(c, names) == hooks' = [hooks EXCEPT ![c] = @ \o names]
Goto(c, stage) == pc' = [pc EXCEPT ![c] = stage]

Count(c, names) == Cardinality({i \in DOMAIN hooks[c] : hooks[c][i] \in names})

ClientInit ==
  /\ pc = [c \in Calls |-> "idle"]
  /\ free = Slots
  /\ attempt = [c \in Calls |-> 0]
  /\ hooks = [c \in Calls |-> <<>>]
  /\ flight = 0
  /\ dedupe \in BOOLEAN
  /\ kind \in [Calls -> {"json", "stream"}]
  /\ result = [c \in Calls |-> "none"]
==============================================================================
