----------------------------- MODULE RustRetry ------------------------------
(***************************************************************************)
(* The retry loop of a generated Rust client: one call of request_json     *)
(* from the idempotency key on, through do_with_retry, do_once and         *)
(* is_error_retriable, against an API that may run an attempt the client   *)
(* gave up on.  The counters are those of MetricsCollector.                *)
(***************************************************************************)
EXTENDS ApiServer

CONSTANTS MaxRetries,   \* RetryOptions::max_retries
          Key           \* the key new_idempotency_key() returns

ASSUME MaxRetriesAssumption == MaxRetries \in Nat
ASSUME KeyAssumption == Key # NoKey

VARIABLES method,       \* the HTTP method of the call
          idempotency,  \* Client::idempotency
          idemKey,      \* idem_key: generated once, before the loop
          attempt,      \* the loop's counter
          phase,        \* "start", "ready", "inflight", "backoff" or "done"
          outcome,      \* what the call returned
          metrics       \* requests, ended, errors, retries

clientVars == <<method, idempotency, idemKey, attempt, phase, outcome, metrics>>
vars == <<clientVars, serverVars>>

Methods == {"GET", "PUT", "DELETE", "POST", "PATCH"}

(* is_retriable_method; HEAD and OPTIONS behave as GET. *)
RetriableMethods == {"GET", "PUT", "DELETE"}

(* is_idempotency_candidate *)
Candidates == {"POST", "PUT", "PATCH", "DELETE"}

Pending == "pending"
Outcomes == {"ok", "http", "timeout", "transport"}

Init ==
    /\ ServerInit
    /\ method \in Methods
    /\ idempotency \in BOOLEAN
    /\ idemKey = NoKey
    /\ attempt = 0
    /\ phase = "start"
    /\ outcome = Pending
    /\ metrics = [requests |-> 0, ended |-> 0, errors |-> 0, retries |-> 0]

(* Faulty start: no key is made. *)
StartKeyless ==
    /\ phase = "start"
    /\ metrics' = [metrics EXCEPT !.requests = @ + 1]
    /\ phase' = "ready"
    /\ UNCHANGED <<method, idempotency, idemKey, attempt, outcome, serverVars>>

(* request_json up to the loop: on_request_start and the one key. *)
Start ==
    /\ phase = "start"
    /\ metrics' = [metrics EXCEPT !.requests = @ + 1]
    /\ idemKey' = IF idempotency /\ method \in Candidates THEN Key ELSE NoKey
    /\ phase' = "ready"
    /\ UNCHANGED <<method, idempotency, attempt, outcome, serverVars>>

(* do_once up to the transport: headers with the key, send(). *)
Send ==
    /\ phase = "ready"
    /\ Post(attempt, idemKey)
    /\ phase' = "inflight"
    /\ UNCHANGED <<method, idempotency, idemKey, attempt, outcome, metrics>>

(* do_once fails with an error that is_error_retriable judges as given: go *)
(* to the next attempt, or return the last error.                          *)
FailWith(retriable, kind, counted) ==
    LET m == [metrics EXCEPT !.errors = @ + counted]
    IN  /\ IF retriable /\ attempt < MaxRetries
           THEN /\ phase' = "backoff"
                /\ metrics' = [m EXCEPT !.retries = @ + 1]
                /\ UNCHANGED outcome
           ELSE /\ phase' = "done"
                /\ outcome' = kind
                /\ metrics' = m
        /\ UNCHANGED <<method, idempotency, idemKey, attempt, serverVars>>

(* A 2xx answer: on_request_end, Ok. *)
Succeed ==
    /\ phase = "inflight"
    /\ Answered(attempt, "ok")
    /\ phase' = "done"
    /\ outcome' = "ok"
    /\ metrics' = [metrics EXCEPT !.ended = @ + 1]
    /\ UNCHANGED <<method, idempotency, idemKey, attempt, serverVars>>

(* Faulty verdict: the method is not asked. *)
HttpErrorAnyMethod ==
    /\ phase = "inflight"
    /\ \/ Answered(attempt, "busy") /\ FailWith(TRUE, "http", 1)
       \/ Answered(attempt, "bad") /\ FailWith(FALSE, "http", 1)

(* An error status: on_request_error, whether or not it will be retried;   *)
(* retriable for a listed status and a retriable method.                   *)
HttpError ==
    /\ phase = "inflight"
    /\ \/ Answered(attempt, "busy") /\ FailWith(method \in RetriableMethods, "http", 1)
       \/ Answered(attempt, "bad") /\ FailWith(FALSE, "http", 1)

(* Error::Timeout: always retriable; no hook is called. *)
TimeOut ==
    /\ phase = "inflight"
    /\ FailWith(TRUE, "timeout", 0)

(* Error::Transport: retriable when the connection or the sending failed,  *)
(* not when reading the body did; no hook is called either way.            *)
TransportError ==
    /\ phase = "inflight"
    /\ \E retriable \in BOOLEAN : FailWith(retriable, "transport", 0)

(* Faulty loop: the backoff sleep never ends. *)
NextAttemptNever == phase = "backoff" /\ UNCHANGED vars

(* The backoff sleep is over. *)
NextAttempt ==
    /\ phase = "backoff"
    /\ attempt' = attempt + 1
    /\ phase' = "ready"
    /\ UNCHANGED <<method, idempotency, idemKey, outcome, metrics, serverVars>>

Server == ServerNext /\ UNCHANGED clientVars

Client == Start \/ Send \/ Succeed \/ HttpError \/ TimeOut \/ TransportError \/ NextAttempt

(* The call has returned and nothing of it is left in the network. *)
Terminated == phase = "done" /\ wire = {} /\ UNCHANGED vars

Next == Client \/ Server \/ Terminated

Spec == Init /\ [][Next]_vars

(* The task is polled and every attempt has a timeout, so the client       *)
(* always takes some step; the server owes nothing.                        *)
Fairness == WF_vars(Client)

FairSpec == Spec /\ Fairness

-----------------------------------------------------------------------------
(* Type invariant. *)
TypeOK ==
    /\ method \in Methods
    /\ idempotency \in BOOLEAN
    /\ idemKey \in {Key, NoKey}
    /\ attempt \in 0 .. MaxRetries
    /\ phase \in {"start", "ready", "inflight", "backoff", "done"}
    /\ outcome \in Outcomes \cup {Pending}
    /\ metrics \in [{"requests", "ended", "errors", "retries"} -> 0 .. MaxRetries + 1]
    /\ wire \subseteq [attempt : 0 .. MaxRetries, key : {Key, NoKey}]
    /\ reply \subseteq [attempt : 0 .. MaxRetries, status : {"ok", "busy", "bad"}]
    /\ seen \subseteq {Key}
    /\ executed \in 0 .. MaxRetries + 1

(* README: "Safe retries on POST/PUT/PATCH/DELETE without duplicate side   *)
(* effects": with idempotency on, an unsafe request is run at most once,   *)
(* although timed-out attempts may reach the server after their successor. *)
AtMostOnce == (idempotency /\ method \in Candidates) => executed <= 1

(* The caller is told "ok" only for a request that was run. *)
OkMeansExecuted == outcome = "ok" => executed > 0

(* A POST or PATCH that was answered with an error status is not sent      *)
(* again: the first such answer is the result of the call.                 *)
NoReplayAfterAnswer ==
    (method \notin RetriableMethods /\ metrics.errors > 0)
        => phase = "done" /\ outcome = "http"

(* Every call returns. *)
EveryCallReturns == phase = "start" ~> phase = "done"
=============================================================================
