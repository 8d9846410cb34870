------------------------------ MODULE GoRetry -------------------------------
(***************************************************************************)
(* The retry loop of a generated Go client: one call of DoJSON from the    *)
(* idempotency key on, through doWithRetry, doOnce and isRetriable, with a *)
(* context that may be cancelled at any time, against an API that may run  *)
(* an attempt the client gave up on.                                       *)
(***************************************************************************)
EXTENDS ApiServer

CONSTANTS MaxRetries,   \* RetryOptions.MaxRetries; above 0, for the zero value
                        \* of RetryOptions means the defaults, 2 retries
          Key           \* the key NewIdempotencyKey() returns, not NoKey

VARIABLES method,       \* the HTTP method of the call
          idempotency,  \* Client.Idempotency
          idemKey,      \* idemKey: generated once, before the loop
          ctxDone,      \* the caller's context is cancelled
          attempt,      \* the loop's counter
          phase,        \* "start", "ready", "inflight", "backoff" or "done"
          outcome,      \* what the call returned
          answers,      \* history: error statuses the loop looked at
          timeoutText   \* whether APIError.Error(), which prints the URL and
                        \* the body, contains the word "timeout"

clientVars == <<method, idempotency, idemKey, ctxDone, attempt, phase, outcome,
                answers, timeoutText>>
vars == <<clientVars, serverVars>>
request == <<method, idempotency, timeoutText>>   \* fixed during the call

Methods == {"GET", "PUT", "DELETE", "POST", "PATCH"}

(* isRetriableMethod; HEAD and OPTIONS behave as GET. *)
RetriableMethods == {"GET", "PUT", "DELETE"}

(* IsIdempotencyCandidate *)
Candidates == {"POST", "PUT", "PATCH", "DELETE"}

Pending == "pending"
Outcomes == {"ok", "http", "network", "ctx"}

Init ==
    /\ ServerInit
    /\ method \in Methods
    /\ idempotency \in BOOLEAN
    /\ idemKey = NoKey
    /\ ctxDone = FALSE
    /\ attempt = 0
    /\ phase = "start"
    /\ outcome = Pending
    /\ answers = 0
    /\ timeoutText \in BOOLEAN

(* Faulty start: a key only for the methods that are retried anyway. *)
StartKeyless ==
    /\ phase = "start"
    /\ idemKey' = IF idempotency /\ method \in Candidates \cap RetriableMethods
                  THEN Key ELSE NoKey
    /\ phase' = "ready"
    /\ UNCHANGED <<request, ctxDone, attempt, outcome, answers, serverVars>>

(* DoJSON up to the loop: one key for the whole of it. *)
Start ==
    /\ phase = "start"
    /\ idemKey' = IF idempotency /\ method \in Candidates THEN Key ELSE NoKey
    /\ phase' = "ready"
    /\ UNCHANGED <<request, ctxDone, attempt, outcome, answers, serverVars>>

(* The caller cancels, or its deadline passes. *)
Cancel ==
    /\ phase # "done"
    /\ ~ctxDone
    /\ ctxDone' = TRUE
    /\ UNCHANGED <<request, idemKey, attempt, phase, outcome, answers, serverVars>>

(* doOnce up to the transport, which refuses a context that is done. *)
Send ==
    /\ phase = "ready"
    /\ phase' = "inflight"
    /\ IF ctxDone THEN UNCHANGED serverVars ELSE Post(attempt, idemKey)
    /\ UNCHANGED <<request, idemKey, ctxDone, attempt, outcome, answers>>

(* doOnce failed with an error that isRetriable judges as given. *)
FailWith(retriable, kind) ==
    /\ IF retriable /\ attempt < MaxRetries
       THEN /\ phase' = "backoff"
            /\ UNCHANGED outcome
       ELSE /\ phase' = "done"
            /\ outcome' = kind
    /\ UNCHANGED <<request, idemKey, ctxDone, attempt, serverVars>>

(* Faulty success: any answer is one. *)
SucceedAnyAnswer ==
    /\ phase = "inflight"
    /\ \E s \in {"ok", "busy", "bad"} : Answered(attempt, s)
    /\ phase' = "done"
    /\ outcome' = "ok"
    /\ UNCHANGED <<request, idemKey, ctxDone, attempt, answers, serverVars>>

(* A 2xx answer. *)
Succeed ==
    /\ phase = "inflight"
    /\ Answered(attempt, "ok")
    /\ phase' = "done"
    /\ outcome' = "ok"
    /\ UNCHANGED <<request, idemKey, ctxDone, attempt, answers, serverVars>>

(* An error status.  isRetriable first looks for "timeout" in the text of  *)
(* the error, then at the method and the status.                           *)
HttpError ==
    /\ phase = "inflight"
    /\ answers' = answers + 1
    /\ \/ /\ Answered(attempt, "busy")
          /\ FailWith(timeoutText \/ method \in RetriableMethods, "http")
       \/ /\ Answered(attempt, "bad")
          /\ FailWith(timeoutText, "http")

(* The transport fails or times out.  Its errors are net.Errors, and so    *)
(* retriable, the cancelled context's too; an error while the body is read *)
(* may be none.                                                            *)
NetworkError ==
    /\ phase = "inflight"
    /\ \E retriable \in BOOLEAN : FailWith(retriable, "network")
    /\ UNCHANGED answers

(* The select of the backoff: the timer, which may be due at once, ... *)
NextAttempt ==
    /\ phase = "backoff"
    /\ attempt' = attempt + 1
    /\ phase' = "ready"
    /\ UNCHANGED <<request, idemKey, ctxDone, outcome, answers, serverVars>>

(* ... or ctx.Done(). *)
BackoffCancelled ==
    /\ phase = "backoff"
    /\ ctxDone
    /\ phase' = "done"
    /\ outcome' = "ctx"
    /\ UNCHANGED <<request, idemKey, ctxDone, attempt, answers, serverVars>>

Server == ServerNext /\ UNCHANGED clientVars

Client == \/ Start \/ Send \/ Succeed \/ HttpError \/ NetworkError
          \/ NextAttempt \/ BackoffCancelled

Terminated == phase = "done" /\ wire = {} /\ UNCHANGED vars

Next == Client \/ Cancel \/ Server \/ Terminated

Spec == Init /\ [][Next]_vars

(* The goroutine runs and every attempt has a timeout. *)
Fairness == WF_vars(Client)

FairSpec == Spec /\ Fairness

-----------------------------------------------------------------------------
(* Type invariant. *)
TypeOK ==
    /\ method \in Methods
    /\ idempotency \in BOOLEAN
    /\ {ctxDone, timeoutText} \subseteq BOOLEAN
    /\ idemKey \in {Key, NoKey}
    /\ attempt \in 0 .. MaxRetries
    /\ phase \in {"start", "ready", "inflight", "backoff", "done"}
    /\ outcome \in Outcomes \cup {Pending}
    /\ answers \in 0 .. MaxRetries + 1
    /\ wire \subseteq [attempt : 0 .. MaxRetries, key : {Key, NoKey}]
    /\ reply \subseteq [attempt : 0 .. MaxRetries, status : {"ok", "busy", "bad"}]
    /\ seen \subseteq {Key}
    /\ executed \in 0 .. MaxRetries + 1

(* README: "Safe retries on POST/PUT/PATCH/DELETE without duplicate side   *)
(* effects": with Idempotency on, an unsafe request is run at most once.   *)
AtMostOnce == (idempotency /\ method \in Candidates) => executed <= 1

(* The caller is told nil only for a request that was run. *)
OkMeansExecuted == outcome = "ok" => executed > 0

(* "HTTP status errors: only if method is safe and status is listed": the  *)
(* first error status of a POST or PATCH is the result of the call, when   *)
(* its text does not hold the word "timeout".                              *)
NoReplayAfterAnswer ==
    (method \notin RetriableMethods /\ answers > 0 /\ ~timeoutText)
        => phase = "done" /\ outcome = "http"

(* Every call returns, a cancelled one too. *)
EveryCallReturns == phase = "start" ~> phase = "done"
=============================================================================
