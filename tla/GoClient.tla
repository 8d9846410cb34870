------------------------------ MODULE GoClient -------------------------------
(***************************************************************************)
(* client.go of a generated Go SDK: DoJSON, DoStream, doWithRetry, doOnce, *)
(* and doOnceStream.  Release is deferred right after Acquire succeeded;   *)
(* OnRequestStart comes after the limiter.                                 *)
(***************************************************************************)
EXTENDS ClientState

(* Marshalling the intercepted body may fail. *)
Start(c) ==
  /\ pc[c] = "idle"
  /\ \/ Goto(c, "gate") /\ UNCHANGED result
     \/ Goto(c, "done") /\ result' = [result EXCEPT ![c] = "error"]
  /\ UNCHANGED <<free, attempt, hooks, flight, dedupe, kind>>

Gate(c) ==
  /\ pc[c] = "gate" /\ free > 0
  /\ free' = free - 1
  /\ Goto(c, "limiter")
  /\ UNCHANGED <<attempt, hooks, flight, dedupe, kind, result>>

(* ctx is done before a slot is free: nothing to release. *)
GateCancelled(c) ==
  /\ pc[c] = "gate"
  /\ Goto(c, "done")
  /\ result' = [result EXCEPT ![c] = "error"]
  /\ UNCHANGED <<free, attempt, hooks, flight, dedupe, kind>>

(* Mutant: the limiter's error path returns without the deferred Release. *)
LimiterFailsKeeping(c) ==
  /\ pc[c] = "limiter"
  /\ Goto(c, "done")
  /\ result' = [result EXCEPT ![c] = "error"]
  /\ UNCHANGED <<free, attempt, hooks, flight, dedupe, kind>>

LimiterFails(c) ==
  /\ pc[c] = "limiter"
  /\ free' = free + 1
  /\ Goto(c, "done")
  /\ result' = [result EXCEPT ![c] = "error"]
  /\ UNCHANGED <<attempt, hooks, flight, dedupe, kind>>

Limiter(c) ==
  /\ pc[c] = "limiter" /\ kind[c] = "json"
  /\ Hook(c, <<"start", "cache">>)
  /\ IF dedupe /\ flight # 0
     THEN Goto(c, "follow") /\ UNCHANGED flight
     ELSE Goto(c, "send") /\ flight' = IF dedupe THEN c ELSE flight
  /\ UNCHANGED <<free, attempt, dedupe, kind, result>>

(* DoStream: one request without hooks; the slot is given back when the headers
   are there, the stream is still open. *)
StreamOpen(c) ==
  /\ pc[c] = "limiter" /\ kind[c] = "stream"
  /\ free' = free + 1
  /\ Goto(c, "done")
  /\ \E r \in {"ok", "error"} : result' = [result EXCEPT ![c] = r]
  /\ UNCHANGED <<attempt, hooks, flight, dedupe, kind>>

(* Mutant: the outcome is not handed to the followers. *)
LandAlone(c, r) ==
  /\ Goto(c, "landed")
  /\ result' = [result EXCEPT ![c] = r]
  /\ flight' = IF flight = c THEN 0 ELSE flight

(* run() returned r; the deduper hands it to the followers. *)
Land(c, r) ==
  /\ pc' = [d \in Calls |-> IF d = c \/ (flight = c /\ pc[d] = "follow")
                            THEN "landed" ELSE pc[d]]
  /\ result' = [d \in Calls |-> IF d = c \/ (flight = c /\ pc[d] = "follow")
                                THEN r ELSE result[d]]
  /\ flight' = IF flight = c THEN 0 ELSE flight

FailWith(c, retriable) ==
  LET again == retriable /\ attempt[c] < MaxRetries
  IN /\ Hook(c, IF again THEN <<"retry">> ELSE <<>>)
     /\ IF again THEN Goto(c, "backoff") /\ UNCHANGED <<result, flight>>
                 ELSE Land(c, "error")

(* buildHeaders: an auth error is an attempt's error like any other. *)
AuthFails(c, retriable) ==
  /\ pc[c] = "send"
  /\ FailWith(c, retriable)
  /\ UNCHANGED <<free, attempt, dedupe, kind>>

Send(c) ==
  /\ pc[c] = "send"
  /\ Goto(c, "network")
  /\ UNCHANGED <<free, attempt, hooks, flight, dedupe, kind, result>>

(* A 2xx or a 304. *)
Succeed(c) ==
  /\ pc[c] = "network"
  /\ Land(c, "ok")
  /\ UNCHANGED <<free, attempt, hooks, dedupe, kind>>

AttemptFails(c, retriable) ==
  /\ pc[c] = "network"
  /\ FailWith(c, retriable)
  /\ UNCHANGED <<free, attempt, dedupe, kind>>

(* The timer, or ctx: then the loop returns its error. *)
Backoff(c) ==
  /\ pc[c] = "backoff"
  /\ attempt' = [attempt EXCEPT ![c] = @ + 1]
  /\ Goto(c, "send")
  /\ UNCHANGED <<free, hooks, flight, dedupe, kind, result>>

BackoffCancelled(c) ==
  /\ pc[c] = "backoff"
  /\ Land(c, "error")
  /\ UNCHANGED <<free, attempt, hooks, dedupe, kind>>

(* Mutant: the error is returned before the telemetry is told. *)
ReturnSilent(c) ==
  /\ pc[c] = "landed"
  /\ free' = free + 1
  /\ Hook(c, IF result[c] = "ok" THEN <<"end">> ELSE <<>>)
  /\ Goto(c, "done")
  /\ UNCHANGED <<attempt, flight, dedupe, kind, result>>

(* The hook of the outcome, then the cache and the decoding. *)
Return(c) ==
  /\ pc[c] = "landed"
  /\ free' = free + 1
  /\ Hook(c, IF result[c] = "ok" THEN <<"end">> ELSE <<"error">>)
  /\ \E r \in {result[c], "error"} : result' = [result EXCEPT ![c] = r]
  /\ Goto(c, "done")
  /\ UNCHANGED <<attempt, flight, dedupe, kind>>

Next ==
  \E c \in Calls :
    \/ Start(c) \/ Gate(c) \/ GateCancelled(c) \/ Limiter(c) \/ LimiterFails(c)
    \/ StreamOpen(c) \/ Send(c) \/ Succeed(c)
    \/ \E retriable \in BOOLEAN : AuthFails(c, retriable) \/ AttemptFails(c, retriable)
    \/ Backoff(c) \/ BackoffCancelled(c) \/ Return(c)

Progress(c) ==
  \/ Gate(c) \/ Limiter(c) \/ StreamOpen(c) \/ Send(c) \/ Succeed(c)
  \/ \E retriable \in BOOLEAN : AttemptFails(c, retriable)
  \/ Backoff(c) \/ Return(c)
==============================================================================
