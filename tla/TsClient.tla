------------------------------ MODULE TsClient -------------------------------
(***************************************************************************)
(* client.ts of a generated TypeScript SDK: request, requestJson,          *)
(* and dispatchWithRetry.  Only the leader of a flight                     *)
(* takes a slot of the gate, and the constructor reads no rate limiter.    *)
(***************************************************************************)
EXTENDS ClientState

(* A malformed path is refused; the cache is asked; dedupe. *)
Start(c) ==
  /\ pc[c] = "idle"
  /\ \/ /\ Goto(c, "done")
        /\ result' = [result EXCEPT ![c] = "error"]
        /\ UNCHANGED <<hooks, flight>>
     \/ /\ Hook(c, <<"cache">>)
        /\ IF dedupe /\ flight # 0
           THEN Goto(c, "follow") /\ UNCHANGED flight
           ELSE Goto(c, "gate") /\ flight' = IF dedupe THEN c ELSE flight
        /\ UNCHANGED result
  /\ UNCHANGED <<free, attempt, dedupe, kind>>

Gate(c) ==
  /\ pc[c] = "gate" /\ free > 0
  /\ free' = free - 1
  /\ Goto(c, "send")
  /\ UNCHANGED <<attempt, hooks, flight, dedupe, kind, result>>

(* dispatch settles: release runs in its finally block, then the deduper's
   promise settles for the leader and the followers. *)
Settle(c, r) ==
  /\ free' = free + 1
  /\ pc' = [d \in Calls |-> IF d = c \/ (flight = c /\ pc[d] = "follow")
                            THEN "landed" ELSE pc[d]]
  /\ result' = [d \in Calls |-> IF d = c \/ (flight = c /\ pc[d] = "follow")
                                THEN r ELSE result[d]]
  /\ flight' = IF flight = c THEN 0 ELSE flight

(* The call fails without an end or an error hook; the mark is the model's. *)
Unreported == <<"unreported">>

(* applyAuth is awaited outside the try block. *)
AuthFails(c) ==
  /\ pc[c] = "send"
  /\ Hook(c, Unreported)
  /\ Settle(c, "error")
  /\ UNCHANGED <<attempt, dedupe, kind>>

(* serializeBody throws after onRequestStart, before the try block. *)
BodyFails(c) ==
  /\ pc[c] = "send"
  /\ Hook(c, IF attempt[c] = 0 THEN <<"start", "unreported">> ELSE Unreported)
  /\ Settle(c, "error")
  /\ UNCHANGED <<attempt, dedupe, kind>>

Send(c) ==
  /\ pc[c] = "send"
  /\ Hook(c, IF attempt[c] = 0 THEN <<"start">> ELSE <<>>)
  /\ Goto(c, "network")
  /\ UNCHANGED <<free, attempt, flight, dedupe, kind, result>>

Succeed(c) ==
  /\ pc[c] = "network"
  /\ Hook(c, <<"end">>)
  /\ Settle(c, "ok")
  /\ UNCHANGED <<attempt, dedupe, kind>>

(* A status that is not ok, or an error that is neither a timeout nor an abort. *)
AttemptFails(c, retryable) ==
  /\ pc[c] = "network"
  /\ IF retryable /\ attempt[c] < MaxRetries
     THEN Hook(c, <<"retry">>) /\ Goto(c, "backoff") /\ UNCHANGED <<free, result, flight>>
     ELSE Hook(c, <<"error">>) /\ Settle(c, "error")
  /\ UNCHANGED <<attempt, dedupe, kind>>

TimedOut(c) ==
  /\ pc[c] = "network"
  /\ Hook(c, <<"error">>)
  /\ Settle(c, "error")
  /\ UNCHANGED <<attempt, dedupe, kind>>

(* callerSignal.aborted, or isApiError of what a middleware threw: no hook. *)
Aborted(c) ==
  /\ pc[c] = "network"
  /\ Hook(c, Unreported)
  /\ Settle(c, "error")
  /\ UNCHANGED <<attempt, dedupe, kind>>

Backoff(c) ==
  /\ pc[c] = "backoff"
  /\ attempt' = [attempt EXCEPT ![c] = @ + 1]
  /\ Goto(c, "send")
  /\ UNCHANGED <<free, hooks, flight, dedupe, kind, result>>

(* The cache is filled; requestJson parses and transforms the body. *)
Return(c) ==
  /\ pc[c] = "landed"
  /\ Goto(c, "done")
  /\ \E r \in {result[c], "error"} : result' = [result EXCEPT ![c] = r]
  /\ UNCHANGED <<free, attempt, hooks, flight, dedupe, kind>>

Next ==
  \E c \in Calls :
    \/ Start(c) \/ Gate(c) \/ AuthFails(c) \/ BodyFails(c) \/ Send(c)
    \/ Succeed(c) \/ \E retryable \in BOOLEAN : AttemptFails(c, retryable)
    \/ TimedOut(c) \/ Aborted(c) \/ Backoff(c) \/ Return(c)

Progress(c) ==
  \/ Gate(c) \/ Send(c) \/ Succeed(c) \/ TimedOut(c) \/ Backoff(c) \/ Return(c)
  \/ \E retryable \in BOOLEAN : AttemptFails(c, retryable)
==============================================================================
