------------------------------ MODULE MCClients ------------------------------
(***************************************************************************)
(* Concurrent calls through one client of each SDK; the initial state      *)
(* chooses the SDK.                                                        *)
(***************************************************************************)
EXTENDS ClientState

VARIABLE sdk

Rust == INSTANCE RustClient
Go == INSTANCE GoClient
Ts == INSTANCE TsClient

MCInit ==
  /\ sdk \in {"rust", "go", "ts"}
  /\ ClientInit
  /\ sdk = "ts" => kind = [c \in Calls |-> "json"]

MCNext ==
  \/ sdk = "rust" /\ Rust!Next /\ UNCHANGED sdk
  \/ sdk = "go" /\ Go!Next /\ UNCHANGED sdk
  \/ sdk = "ts" /\ Ts!Next /\ UNCHANGED sdk

Progress(c) ==
  /\ \/ sdk = "rust" /\ Rust!Progress(c)
     \/ sdk = "go" /\ Go!Progress(c)
     \/ sdk = "ts" /\ Ts!Progress(c)
  /\ UNCHANGED sdk

(* Tasks run, limiters admit, timers fire, and the transport answers or times
   out (every attempt has a timeout). *)
MCSpec ==
  /\ MCInit
  /\ [][MCNext]_<<sdk, vars>>
  /\ \A c \in Calls : WF_<<sdk, vars>>(Progress(c))

------------------------------------------------------------------------------
(* The stages in which a call owns a slot. *)
Holders ==
  {c \in Calls : pc[c] \in {"limiter", "send", "network", "backoff"}
                           \cup (IF sdk = "ts" THEN {} ELSE {"follow", "landed"})}

(* Whatever stage a call fails, is cancelled, dropped or aborted in, its slot
   comes back exactly once: slots are neither lost nor minted, and no more than
   maxConcurrent JSON calls are at the transport. *)
SlotsReturned ==
  /\ free + Cardinality(Holders) = Slots
  /\ Cardinality({c \in Calls : pc[c] = "network"}) <= Slots

(* Telemetry, as request_json, DoJSON and dispatchWithRetry report it.  A Go
   call that was started has one end or one error hook when it is done, none
   before, and no hook after it.  So has a TypeScript call, which is started at
   most once; but one that its caller aborted, whose credentials or body could
   not be built, or that a middleware ended with an ApiError has neither.  A
   Rust call has at most one end, as its last hook, and at most one error for
   each attempt.  In Rust and TypeScript an end means that the call was answered
   with success, although its body may still turn out not to decode. *)
Closing == {"end", "error"}

IsLast(c, names) == \A i \in DOMAIN hooks[c] : hooks[c][i] \in names => i = Len(hooks[c])

EndIsAnswered(c) ==
  Count(c, {"end"}) > 0 => \/ pc[c] = "landed" /\ result[c] = "ok"
                           \/ pc[c] = "done" /\ result[c] \in {"ok", "error"}

HooksBalanced ==
  \A c \in Calls :
    /\ sdk = "go" => /\ pc[c] # "done" => Count(c, Closing) = 0
                     /\ pc[c] = "done" => Count(c, Closing) = Count(c, {"start"})
                     /\ IsLast(c, Closing)
    /\ sdk = "ts" => /\ Count(c, {"start"}) <= 1
                     /\ Count(c, Closing) = IF \/ pc[c] \notin {"landed", "done"}
                                               \/ Count(c, {"unreported"}) > 0
                                            THEN 0 ELSE Count(c, {"start"})
                     /\ IsLast(c, Closing)
                     /\ EndIsAnswered(c)
    /\ sdk = "rust" => /\ Count(c, {"end"}) <= 1
                       /\ IsLast(c, {"end"})
                       /\ EndIsAnswered(c)
                       /\ Count(c, {"error"}) <= attempt[c] + 1
                       /\ Count(c, {"retry"}) <= MaxRetries

(* Gate, limiter, deduplication and retries together do not block each other: a
   call that was made ends, except behind a Rust leader that was dropped. *)
CallsEnd ==
  \A c \in Calls :
    pc[c] = "gate" ~> (pc[c] = "done" \/ (sdk = "rust" /\ Rust!Orphaned))
==============================================================================
