----------------------------- MODULE RustClient ------------------------------
(***************************************************************************)
(* client.rs of a generated Rust SDK: request_json, request_stream,        *)
(* do_with_retry and do_once.  The permit is dropped with the future, so   *)
(* every return and every drop gives it back.                              *)
(***************************************************************************)
EXTENDS ClientState

(* The body is intercepted and serialised before the gate. *)
Start(c) ==
  /\ pc[c] = "idle" /\ kind[c] = "json"
  /\ \/ Goto(c, "gate") /\ UNCHANGED result
     \/ Goto(c, "done") /\ result' = [result EXCEPT ![c] = "error"]
  /\ UNCHANGED <<free, attempt, hooks, flight, dedupe, kind>>

Gate(c) ==
  /\ pc[c] = "gate" /\ free > 0
  /\ free' = free - 1
  /\ Hook(c, <<"start">>)
  /\ Goto(c, "limiter")
  /\ UNCHANGED <<attempt, flight, dedupe, kind, result>>

(* The call ends with r, its permit is dropped. *)
Leave(c, r) ==
  /\ free' = free + 1
  /\ Goto(c, "done")
  /\ result' = [result EXCEPT ![c] = r]

LimiterFails(c) ==
  /\ pc[c] = "limiter"
  /\ Leave(c, "error")
  /\ UNCHANGED <<attempt, hooks, flight, dedupe, kind>>

(* Admitted; the cache is asked, then the deduper. *)
Limiter(c) ==
  /\ pc[c] = "limiter"
  /\ Hook(c, <<"cache">>)
  /\ IF dedupe /\ flight # 0
     THEN Goto(c, "follow") /\ UNCHANGED flight
     ELSE Goto(c, "send") /\ flight' = IF dedupe THEN c ELSE flight
  /\ UNCHANGED <<free, attempt, dedupe, kind, result>>

(* do_with_retry returned r: the deduper's leader sends it to the followers and
   removes its entry. *)
Land(c, r) ==
  /\ pc' = [d \in Calls |-> IF d = c \/ (flight = c /\ pc[d] = "follow")
                            THEN "landed" ELSE pc[d]]
  /\ result' = [d \in Calls |-> IF d = c \/ (flight = c /\ pc[d] = "follow")
                                THEN r ELSE result[d]]
  /\ flight' = IF flight = c THEN 0 ELSE flight

(* do_once: auth may fail; then the middlewares and the transport are entered,
   any of which may answer. *)
AuthFails(c) ==
  /\ pc[c] = "send"
  /\ Land(c, "error")
  /\ UNCHANGED <<free, attempt, hooks, dedupe, kind>>

Send(c) ==
  /\ pc[c] = "send"
  /\ Goto(c, "network")
  /\ UNCHANGED <<free, attempt, hooks, flight, dedupe, kind, result>>

Succeed(c) ==
  /\ pc[c] = "network"
  /\ Hook(c, <<"end">>)
  /\ Land(c, "ok")
  /\ UNCHANGED <<free, attempt, dedupe, kind>>

(* A 304 is passed on before the hooks. *)
NotModified(c) ==
  /\ pc[c] = "network"
  /\ Land(c, "ok")
  /\ UNCHANGED <<free, attempt, hooks, dedupe, kind>>

(* The error of an attempt is retried, or ends the loop. *)
FailWith(c, reported, retriable) ==
  LET again == retriable /\ attempt[c] < MaxRetries
  IN /\ Hook(c, reported \o (IF again THEN <<"retry">> ELSE <<>>))
     /\ IF again THEN Goto(c, "backoff") /\ UNCHANGED <<result, flight>>
                 ELSE Land(c, "error")

(* A status outside 2xx is reported; a transport error, a timeout or the error
   of a middleware leaves do_once before the hooks. *)
HttpError(c, retriable) ==
  /\ pc[c] = "network"
  /\ FailWith(c, <<"error">>, retriable)
  /\ UNCHANGED <<free, attempt, dedupe, kind>>

TransportError(c, retriable) ==
  /\ pc[c] = "network"
  /\ FailWith(c, <<>>, retriable)
  /\ UNCHANGED <<free, attempt, dedupe, kind>>

Backoff(c) ==
  /\ pc[c] = "backoff"
  /\ attempt' = [attempt EXCEPT ![c] = @ + 1]
  /\ Goto(c, "send")
  /\ UNCHANGED <<free, hooks, flight, dedupe, kind, result>>

(* The cache is filled, the body decoded and transformed. *)
Return(c) ==
  /\ pc[c] = "landed"
  /\ \E r \in {result[c], "error"} : Leave(c, r)
  /\ UNCHANGED <<attempt, hooks, flight, dedupe, kind>>

(* request_stream: no gate, no hooks, no retry; the limiter, auth, the stream
   middlewares or the transport may fail. *)
StreamStart(c) ==
  /\ pc[c] = "idle" /\ kind[c] = "stream"
  /\ Goto(c, "streaming")
  /\ UNCHANGED <<free, attempt, hooks, flight, dedupe, kind, result>>

StreamOpen(c) ==
  /\ pc[c] = "streaming"
  /\ Goto(c, "done")
  /\ \E r \in {"ok", "error"} : result' = [result EXCEPT ![c] = r]
  /\ UNCHANGED <<free, attempt, hooks, flight, dedupe, kind>>

(* The caller drops the future at an await.  A leader leaves its entry, and its
   sender, in the deduper. *)
Drop(c) ==
  /\ pc[c] \in {"gate", "limiter", "network", "backoff", "follow", "streaming"}
  /\ free' = IF pc[c] \in {"gate", "streaming"} THEN free ELSE free + 1
  /\ Goto(c, "done")
  /\ UNCHANGED <<attempt, hooks, flight, dedupe, kind, result>>

Next ==
  \E c \in Calls :
    \/ Start(c) \/ Gate(c) \/ Limiter(c) \/ LimiterFails(c)
    \/ AuthFails(c) \/ Send(c) \/ Succeed(c) \/ NotModified(c)
    \/ \E retriable \in BOOLEAN : HttpError(c, retriable) \/ TransportError(c, retriable)
    \/ Backoff(c) \/ Return(c) \/ StreamStart(c) \/ StreamOpen(c) \/ Drop(c)

(* Tasks run, limiters admit, transports answer or time out. *)
Progress(c) ==
  \/ Gate(c) \/ Limiter(c) \/ Send(c) \/ Backoff(c) \/ Return(c)
  \/ StreamOpen(c) \/ Succeed(c) \/ NotModified(c)
  \/ \E retriable \in BOOLEAN : HttpError(c, retriable) \/ TransportError(c, retriable)

Orphaned == flight # 0 /\ pc[flight] = "done"
==============================================================================
