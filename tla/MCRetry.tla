------------------------------ MODULE MCRetry -------------------------------
(***************************************************************************)
(* The retry loops of the generated SDKs in one model, against one server: *)
(* the initial state chooses the SDK that calls, the others stay where     *)
(* they start, with a request that no property is about.                   *)
(***************************************************************************)
EXTENDS RustRetry

VARIABLES sdk,
          goMethod, goIdempotency, goIdemKey, goCtxDone, goAttempt, goPhase,
          goOutcome, goAnswers, goTimeoutText,
          tsMethod, tsRetryable, tsIdempotency, tsAttempt, tsPhase, tsAborted,
          tsLinked, tsOutcome, tsHooks

goVars == <<goMethod, goIdempotency, goIdemKey, goCtxDone, goAttempt, goPhase,
            goOutcome, goAnswers, goTimeoutText>>
tsVars == <<tsMethod, tsRetryable, tsIdempotency, tsAttempt, tsPhase, tsAborted,
            tsLinked, tsOutcome, tsHooks>>

Go == INSTANCE GoRetry WITH
          method <- goMethod, idempotency <- goIdempotency, idemKey <- goIdemKey,
          ctxDone <- goCtxDone, attempt <- goAttempt, phase <- goPhase,
          outcome <- goOutcome, answers <- goAnswers, timeoutText <- goTimeoutText
Ts == INSTANCE TsRetry WITH
          method <- tsMethod, retryable <- tsRetryable,
          idempotency <- tsIdempotency, attempt <- tsAttempt, phase <- tsPhase,
          aborted <- tsAborted, linked <- tsLinked, outcome <- tsOutcome,
          hooks <- tsHooks

MCInit ==
    /\ sdk \in {"rust", "go", "ts"}
    /\ Init /\ Go!Init /\ Ts!Init
    /\ sdk # "rust" => method = "GET" /\ ~idempotency
    /\ sdk # "go" => goMethod = "GET" /\ ~goIdempotency /\ ~goTimeoutText
    /\ sdk # "ts" => tsMethod = "GET" /\ tsRetryable /\ ~tsIdempotency

MCNext ==
    \/ sdk = "rust" /\ Next /\ UNCHANGED <<sdk, goVars, tsVars>>
    \/ sdk = "go" /\ Go!Next /\ UNCHANGED <<sdk, clientVars, tsVars>>
    \/ sdk = "ts" /\ Ts!Next /\ UNCHANGED <<sdk, clientVars, goVars>>

MCSpec ==
    /\ MCInit
    /\ [][MCNext]_<<sdk, vars, goVars, tsVars>>
    /\ \/ sdk = "rust" /\ Fairness
       \/ sdk = "go" /\ Go!Fairness
       \/ sdk = "ts" /\ Ts!Fairness

-----------------------------------------------------------------------------
(* What the caller and its telemetry are told is what happened at the      *)
(* server.  No client reports success for a request that the server did    *)
(* not run.  Go: with Idempotency on an unsafe request runs at most once,  *)
(* cancelled contexts and late attempts included, and no answered POST or  *)
(* PATCH is sent again unless the text of the error holds "timeout".       *)
(* TypeScript: a call that may not be retried runs at most once.  Its loop *)
(* calls onRequestStart at most once and, after a start, onRequestEnd for  *)
(* a call that succeeded and onRequestError for one that failed, once and  *)
(* never both; it calls neither for a call that was aborted, whose         *)
(* credentials or body could not be built, or that a middleware ended with *)
(* an ApiError.  No loop makes more than MaxRetries retries.               *)
HonestSuccess ==
    /\ TypeOK /\ OkMeansExecuted
    /\ Go!TypeOK /\ Go!OkMeansExecuted /\ Go!AtMostOnce /\ Go!NoReplayAfterAnswer
    /\ Ts!TypeOK /\ Ts!OkMeansExecuted /\ Ts!UnretriedAtMostOnce /\ Ts!HooksBalanced

(* Every call of request_json, DoJSON and request ends, cancelled and      *)
(* aborted ones too.                                                       *)
EveryCallEnds ==
    /\ sdk = "rust" => EveryCallReturns
    /\ sdk = "go" => Go!EveryCallReturns
    /\ sdk = "ts" => Ts!EveryCallSettles
=============================================================================
