------------------------------ MODULE TsRetry -------------------------------
(***************************************************************************)
(* The retry loop of a generated TypeScript client: one call of            *)
(* ApiClient.dispatchWithRetry, with a caller's AbortSignal and telemetry  *)
(* hooks, against an API that may run an attempt the client gave up on.    *)
(* The loop body up to its first await, and from an await to the next, is  *)
(* one step; the signal may be aborted between two steps.                  *)
(***************************************************************************)
EXTENDS ApiServer

CONSTANTS MaxRetries,   \* RetryOptions.maxRetries
          Key           \* the key newIdempotencyKey() returns

VARIABLES method,       \* the HTTP method of the call
          retryable,    \* RequestOptions.retry.retryable, or isRetriableMethod
          idempotency,  \* ApiClientOptions.idempotency
          attempt,      \* the loop's counter
          phase,        \* "ready", "inflight", "backoff" or "done"
          aborted,      \* the caller's signal is aborted
          linked,       \* the abort event of the signal reaches this attempt
          outcome,      \* how the promise settled
          hooks         \* calls of onRequestStart, End, Error and Retry

clientVars == <<method, retryable, idempotency, attempt, phase, aborted,
                linked, outcome, hooks>>
vars == <<clientVars, serverVars>>

Methods == {"GET", "PUT", "DELETE", "POST", "PATCH"}

(* isRetriableMethod *)
RetriableMethods == {"GET", "HEAD", "PUT", "DELETE"}

(* isIdempotencyCandidate *)
Candidates == {"POST", "PUT", "PATCH", "DELETE"}

Pending == "pending"
Outcomes == {"ok", "http", "timeout", "network", "aborted", "auth", "body", "thrown"}

(* The outcomes after which dispatchWithRetry calls no hook. *)
Unreported == {"aborted", "auth", "body", "thrown"}

Init ==
    /\ ServerInit
    /\ method \in Methods
    /\ retryable \in BOOLEAN    \* RequestOptions may override the method's default
    /\ idempotency \in BOOLEAN
    /\ attempt = 0
    /\ phase = "ready"
    /\ aborted = FALSE
    /\ linked = FALSE
    /\ outcome = Pending
    /\ hooks = [start |-> 0, end |-> 0, error |-> 0, retry |-> 0]

(* The headers are built anew for each attempt, the key is added to the    *)
(* first one's.                                                            *)
HeaderKey ==
    IF attempt = 0 /\ idempotency /\ method \in Candidates THEN Key ELSE NoKey

(* From the loop's head to the await of the fetch.  addEventListener on a  *)
(* signal that is aborted already never fires.                             *)
Send ==
    /\ phase = "ready"
    /\ Post(attempt, HeaderKey)
    /\ linked' = ~aborted
    /\ hooks' = [hooks EXCEPT !.start = IF attempt = 0 THEN @ + 1 ELSE @]
    /\ phase' = "inflight"
    /\ UNCHANGED <<method, retryable, idempotency, attempt, aborted, outcome>>

(* applyAuth rejects, on a first attempt or on a retry: outside the try,   *)
(* before onRequestStart, and no hook is told.                             *)
AuthFails ==
    /\ phase = "ready"
    /\ phase' = "done"
    /\ outcome' = "auth"
    /\ UNCHANGED <<method, retryable, idempotency, attempt, aborted, linked,
                   hooks, serverVars>>

(* serializeBody throws after onRequestStart and before the try: nothing   *)
(* is sent, and the listener on the signal stays.                          *)
SerializeFails ==
    /\ phase = "ready"
    /\ phase' = "done"
    /\ outcome' = "body"
    /\ linked' = ~aborted
    /\ hooks' = [hooks EXCEPT !.start = IF attempt = 0 THEN @ + 1 ELSE @]
    /\ UNCHANGED <<method, retryable, idempotency, attempt, aborted, serverVars>>

(* The promise settles. *)
Settle(kind, ended, failed) ==
    /\ phase' = "done"
    /\ outcome' = kind
    /\ linked' = FALSE
    /\ hooks' = [hooks EXCEPT !.end = @ + ended, !.error = @ + failed]
    /\ UNCHANGED <<method, retryable, idempotency, attempt, aborted, serverVars>>

(* onRetry, then the backoff sleep; the listener is gone. *)
BackOff ==
    /\ phase' = "backoff"
    /\ linked' = FALSE
    /\ hooks' = [hooks EXCEPT !.retry = @ + 1]
    /\ UNCHANGED <<method, retryable, idempotency, attempt, aborted, outcome, serverVars>>

(* response.ok *)
Succeed ==
    /\ phase = "inflight"
    /\ Answered(attempt, "ok")
    /\ Settle("ok", 1, 0)

(* An error status: retried when listed, else onRequestError and throw. *)
HttpError ==
    /\ phase = "inflight"
    /\ \/ Answered(attempt, "busy") /\ attempt < MaxRetries /\ retryable /\ BackOff
       \/ Answered(attempt, "busy") /\ ~(attempt < MaxRetries /\ retryable) /\ Settle("http", 0, 1)
       \/ Answered(attempt, "bad") /\ Settle("http", 0, 1)

(* A middleware throws an ApiError of its own: isApiError takes it for one *)
(* that was reported and throws it again.                                  *)
MiddlewareThrows ==
    /\ phase = "inflight"
    /\ Settle("thrown", 0, 0)

(* fetch rejects for a reason of the network.  An aborted caller is told   *)
(* so, without a hook.                                                     *)
NetworkError ==
    /\ phase = "inflight"
    /\ \/ aborted /\ Settle("aborted", 0, 0)
       \/ ~aborted /\ attempt < MaxRetries /\ retryable /\ BackOff
       \/ ~aborted /\ ~(attempt < MaxRetries /\ retryable) /\ Settle("network", 0, 1)

(* The timer aborts the fetch: no retry. *)
TimeOut ==
    /\ phase = "inflight"
    /\ \/ aborted /\ Settle("aborted", 0, 0)
       \/ ~aborted /\ Settle("timeout", 0, 1)

(* The caller aborts; while an attempt is in flight that cancels its fetch. *)
Abort ==
    /\ phase # "done"
    /\ ~aborted
    /\ aborted' = TRUE
    /\ UNCHANGED <<method, retryable, idempotency, attempt, phase, linked,
                   outcome, hooks, serverVars>>

(* The fetch rejects because the abort reached it. *)
AbortReaches ==
    /\ phase = "inflight"
    /\ aborted /\ linked
    /\ Settle("aborted", 0, 0)

(* The backoff sleep is over. *)
NextAttempt ==
    /\ phase = "backoff"
    /\ attempt' = attempt + 1
    /\ phase' = "ready"
    /\ UNCHANGED <<method, retryable, idempotency, aborted, linked, outcome,
                   hooks, serverVars>>

Server == ServerNext /\ UNCHANGED clientVars

Client == \/ AuthFails \/ SerializeFails \/ Send \/ Succeed \/ HttpError
          \/ MiddlewareThrows \/ NetworkError \/ TimeOut \/ AbortReaches
          \/ NextAttempt

Terminated == phase = "done" /\ wire = {} /\ UNCHANGED vars

Next == Client \/ Abort \/ Server \/ Terminated

Spec == Init /\ [][Next]_vars

(* The event loop runs, and every attempt has a timer. *)
Fairness == WF_vars(Client)

FairSpec == Spec /\ Fairness

-----------------------------------------------------------------------------
(* Type invariant. *)
TypeOK ==
    /\ method \in Methods
    /\ {retryable, idempotency, aborted, linked} \subseteq BOOLEAN
    /\ attempt \in 0 .. MaxRetries
    /\ phase \in {"ready", "inflight", "backoff", "done"}
    /\ outcome \in Outcomes \cup {Pending}
    /\ hooks \in [{"start", "end", "error", "retry"} -> 0 .. MaxRetries + 1]
    /\ wire \subseteq [attempt : 0 .. MaxRetries, key : {Key, NoKey}]
    /\ reply \subseteq [attempt : 0 .. MaxRetries, status : {"ok", "busy", "bad"}]
    /\ seen \subseteq {Key}
    /\ executed \in 0 .. MaxRetries + 1

(* A call that may not be retried runs at most once on the server, with or *)
(* without a key, however late its answer and its timeout race.            *)
UnretriedAtMostOnce == ~retryable => executed <= 1

(* The promise resolves only for a request that was run. *)
OkMeansExecuted == outcome = "ok" => executed > 0

(* The hooks dispatchWithRetry calls.  At most one start; one retry for    *)
(* each attempt after the first; one end or one error, as the promise      *)
(* settles, and with it a start; and neither of them for a call that is    *)
(* pending, was aborted by its caller, could not build its credentials or  *)
(* its body, or was ended by the ApiError of a middleware.                 *)
HooksBalanced ==
    /\ hooks.start <= 1
    /\ hooks.end = IF outcome = "ok" THEN 1 ELSE 0
    /\ hooks.error = IF outcome \in Outcomes \ ({"ok"} \cup Unreported) THEN 1 ELSE 0
    /\ hooks.end + hooks.error <= hooks.start
    /\ phase = "done" => hooks.retry = attempt

(* Every call settles. *)
EveryCallSettles == phase = "ready" ~> phase = "done"

(* ApiClient's comment: "POST/PUT/PATCH/DELETE get auto Idempotency-Key    *)
(* headers so retries never double-execute server-side".                   *)
AtMostOnce == (idempotency /\ method \in Candidates) => executed <= 1
=============================================================================
