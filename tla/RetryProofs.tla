----------------------------- MODULE RetryProofs -----------------------------
(***************************************************************************)
(* Proofs about the retry loops of the generated SDKs, for every number of *)
(* retries.  None of the properties is inductive.  That an unsafe request  *)
(* runs at most once needs that every attempt on the wire, however old,    *)
(* carries the one key of the call, so that the server's record of keys    *)
(* covers them all; that a loop never makes the server run more than       *)
(* MaxRetries + 1 attempts needs an account of what is on the wire.        *)
(***************************************************************************)
EXTENDS MCRetry, TLAPS, FiniteSetTheorems

(* What can be on the wire, and on its way back. *)
Messages == [attempt : 0 .. MaxRetries, key : {Key, NoKey}]
Replies == [attempt : 0 .. MaxRetries, status : {"ok", "busy", "bad"}]

(* The network and the server, whichever client calls.  A known key was    *)
(* run, and nobody is answered "ok" for a request that was not.            *)
Traffic ==
  /\ wire \subseteq Messages /\ IsFiniteSet(wire)
  /\ reply \subseteq Replies
  /\ seen \subseteq {Key}
  /\ executed \in Nat
  /\ seen # {} => executed > 0
  /\ \A r \in reply : r.status = "ok" => executed > 0

(* Attempts that ran or may still run. *)
Load == executed + Cardinality(wire)

(* The server ran the keyed request once if it knows its key, else never. *)
Once == executed = IF Key \in seen THEN 1 ELSE 0

LEMMA InitTraffic ==
    ASSUME ServerInit
    PROVE  Traffic /\ Load = 0 /\ Once
  BY FS_EmptySet DEF ServerInit, Traffic, Load, Once

LEMMA LoadType ==
    ASSUME Traffic
    PROVE  Load \in Nat /\ executed \in Nat /\ executed <= Load
  <1>1. Cardinality(wire) \in Nat /\ executed \in Nat
    BY FS_CardinalityType DEF Traffic
  <1> QED  BY <1>1 DEF Load

(* An attempt is handed to the network. *)
LEMMA PostTraffic ==
    ASSUME Traffic, NEW a \in 0 .. MaxRetries, NEW k \in {Key, NoKey}, Post(a, k)
    PROVE  Traffic' /\ Load' \in Nat /\ Load' <= Load + 1
  <1> DEFINE m == [attempt |-> a, key |-> k]
  <1>1. m \in Messages
    BY DEF Messages
  <1>2. wire' = wire \cup {m} /\ UNCHANGED <<reply, seen, executed>>
    BY DEF Post
  <1> HIDE DEF m
  <1>3. IsFiniteSet(wire) /\ Cardinality(wire) \in Nat /\ executed \in Nat
    BY FS_CardinalityType DEF Traffic
  <1>4. /\ IsFiniteSet(wire \cup {m})
        /\ \/ Cardinality(wire \cup {m}) = Cardinality(wire)
           \/ Cardinality(wire \cup {m}) = Cardinality(wire) + 1
    BY <1>3, FS_AddElement
  <1>5. Load' \in Nat /\ Load' <= Load + 1
    BY <1>2, <1>3, <1>4 DEF Load
  <1>6. Traffic'
    BY <1>1, <1>2, <1>4 DEF Traffic
  <1> QED  BY <1>5, <1>6

(* The server takes an attempt from the wire; it runs one only if it does  *)
(* not know its key.                                                       *)
LEMMA ServerTraffic ==
    ASSUME Traffic, ServerNext
    PROVE  /\ Traffic' /\ Load' \in Nat /\ Load' <= Load
           /\ wire' \subseteq wire
           /\ executed' >= executed
           /\ Once /\ (\A m \in wire : m.key = Key) => Once'
  <1>1. PICK m \in wire : Serve(m) \/ Refuse(m) \/ Lose(m)
    BY DEF ServerNext
  <1>2. /\ wire' = wire \ {m} /\ IsFiniteSet(wire')
        /\ Cardinality(wire') = Cardinality(wire) - 1
        /\ Cardinality(wire) \in Nat /\ Cardinality(wire') \in Nat
    BY <1>1, FS_RemoveElement, FS_CardinalityType DEF Serve, Refuse, Lose, Traffic
  <1>3. m \in Messages /\ m.attempt \in 0 .. MaxRetries /\ m.key \in {Key, NoKey}
    BY DEF Traffic, Messages
  <1>4. CASE Serve(m)
    <2>1. /\ executed' = IF m.key \in seen THEN executed ELSE executed + 1
          /\ seen' = seen \cup ({m.key} \ {NoKey})
      BY <1>4 DEF Serve
    <2>2. PICK s \in {"ok", "busy"} : reply' = reply \cup {[attempt |-> m.attempt, status |-> s]}
      BY <1>4 DEF Serve
    <2>3. executed' \in Nat /\ executed' >= executed /\ executed' > 0 /\ executed' <= executed + 1
      BY <2>1 DEF Traffic
    <2>4. Load' \in Nat /\ Load' <= Load
      BY <1>2, <2>3 DEF Load, Traffic
    <2>5. reply' \subseteq Replies
      BY <1>3, <2>2 DEF Traffic, Replies
    <2>6. Traffic'
      BY <1>2, <1>3, <2>1, <2>3, <2>5 DEF Traffic
    <2>7. Once /\ (\A x \in wire : x.key = Key) => Once'
      BY <2>1, KeyAssumption DEF Once, Traffic
    <2> QED  BY <1>2, <2>3, <2>4, <2>6, <2>7
  <1>5. CASE Refuse(m)
    <2>1. PICK s \in {"busy", "bad"} : reply' = reply \cup {[attempt |-> m.attempt, status |-> s]}
      BY <1>5 DEF Refuse
    <2>2. UNCHANGED <<seen, executed>>
      BY <1>5 DEF Refuse
    <2>3. reply' \subseteq Replies
      BY <1>3, <2>1 DEF Traffic, Replies
    <2>4. \A r \in reply' : r.status = "ok" => r \in reply
      BY <2>1
    <2>5. Traffic'
      BY <1>2, <2>2, <2>3, <2>4 DEF Traffic
    <2> QED  BY <1>2, <2>2, <2>5 DEF Load, Once, Traffic
  <1>6. CASE Lose(m)
    <2>1. UNCHANGED <<reply, seen, executed>>
      BY <1>6 DEF Lose
    <2> QED  BY <1>2, <2>1 DEF Traffic, Load, Once
  <1> QED  BY <1>1, <1>4, <1>5, <1>6

-----------------------------------------------------------------------------
(* The Rust loop. *)

Counters == {"requests", "ended", "errors", "retries"}

RustTypes ==
  /\ method \in Methods /\ idempotency \in BOOLEAN /\ idemKey \in {Key, NoKey}
  /\ attempt \in 0 .. MaxRetries
  /\ phase \in {"start", "ready", "inflight", "backoff", "done"}
  /\ outcome \in Outcomes \cup {Pending}
  /\ metrics \in [Counters -> Nat]

(* What the counters of MetricsCollector say of the attempts so far. *)
RustCounts ==
  /\ phase = "backoff" => attempt < MaxRetries
  /\ metrics["requests"] = IF phase = "start" THEN 0 ELSE 1
  /\ metrics["ended"] <= IF phase = "done" THEN 1 ELSE 0
  /\ metrics["errors"] <= attempt + IF phase \in {"backoff", "done"} THEN 1 ELSE 0
  /\ metrics["retries"] = attempt + IF phase = "backoff" THEN 1 ELSE 0

(* Attempts handed to the transport. *)
RustSent == IF phase \in {"start", "ready"} THEN attempt ELSE attempt + 1

(* The key of the call, once it is made. *)
CallKey == IF idempotency /\ method \in Candidates THEN Key ELSE NoKey

(* One key for the whole loop: nothing is sent before it is made, every    *)
(* attempt on the wire carries it, and the server knows it once it ran.    *)
OneKey ==
  /\ phase = "start" => wire = {}
  /\ phase # "start" => idemKey = CallKey
  /\ \A m \in wire : m.key = CallKey
  /\ CallKey = Key => Once

RustIInv ==
  /\ RustTypes /\ RustCounts /\ Traffic /\ Load <= RustSent /\ OneKey
  /\ OkMeansExecuted /\ NoReplayAfterAnswer

LEMMA RustInit == Init => RustIInv
  <1> SUFFICES ASSUME Init PROVE RustIInv
    OBVIOUS
  <1>1. Traffic /\ Load = 0 /\ Once /\ wire = {} /\ executed = 0
    BY InitTraffic DEF Init, ServerInit
  <1>2. RustTypes /\ RustCounts
    BY MaxRetriesAssumption DEF Init, RustTypes, RustCounts, Counters, Outcomes
  <1>3. RustSent = 0
    BY DEF Init, RustSent
  <1>4. OneKey /\ OkMeansExecuted /\ NoReplayAfterAnswer
    BY <1>1 DEF Init, OneKey, OkMeansExecuted, NoReplayAfterAnswer, Pending
  <1> QED  BY <1>1, <1>2, <1>3, <1>4 DEF RustIInv

(* A step adds e to the counter of errors and r to that of retries. *)
Counts(e, r) ==
  /\ metrics' \in [Counters -> Nat]
  /\ metrics'["requests"] = metrics["requests"]
  /\ metrics'["ended"] = metrics["ended"]
  /\ metrics'["errors"] = metrics["errors"] + e
  /\ metrics'["retries"] = metrics["retries"] + r

(* What FailWith does to the counters, in each of its branches. *)
LEMMA CountsErrors ==
    ASSUME RustTypes, NEW e \in {0, 1}
    PROVE  /\ metrics' = [[metrics EXCEPT !.errors = @ + e] EXCEPT !.retries = @ + 1]
                 => Counts(e, 1)
           /\ metrics' = [metrics EXCEPT !.errors = @ + e] => Counts(e, 0)
  <1> DEFINE m == [metrics EXCEPT !.errors = @ + e]
             r == [m EXCEPT !.retries = @ + 1]
  <1>1. metrics \in [Counters -> Nat] /\ metrics["errors"] \in Nat /\ metrics["retries"] \in Nat
    BY DEF RustTypes, Counters
  <1>2. /\ m \in [Counters -> Nat] /\ m["errors"] = metrics["errors"] + e
        /\ m["requests"] = metrics["requests"] /\ m["ended"] = metrics["ended"]
        /\ m["retries"] = metrics["retries"]
    BY <1>1 DEF Counters
  <1>3. /\ r \in [Counters -> Nat] /\ r["errors"] = m["errors"]
        /\ r["requests"] = m["requests"] /\ r["ended"] = m["ended"]
        /\ r["retries"] = m["retries"] + 1
    <2> HIDE DEF m
    <2>1. m["retries"] \in Nat
      BY <1>1, <1>2
    <2> QED  BY <1>2, <2>1 DEF Counters
  <1>4. metrics' = r => Counts(e, 1)
    <2> HIDE DEF m, r
    <2> QED  BY <1>2, <1>3 DEF Counts
  <1>5. metrics' = m => Counts(e, 0)
    <2> HIDE DEF m, r
    <2> QED  BY <1>1, <1>2 DEF Counts
  <1> QED  BY <1>4, <1>5

LEMMA AttemptsAreNumbers == \A a \in 0 .. MaxRetries : a \in Nat /\ a + 1 \in Nat
  BY MaxRetriesAssumption

LEMMA SentType == RustTypes' => RustSent' \in Nat
  BY AttemptsAreNumbers DEF RustTypes, RustSent

(* What a step of the client that touches neither network nor server owes. *)
LEMMA RustQuiet ==
    ASSUME RustIInv, UNCHANGED <<method, idempotency, serverVars>>,
           RustTypes', RustCounts', RustSent' >= RustSent,
           phase # "start" => phase' # "start" /\ idemKey' = idemKey,
           phase = "start" /\ phase' # "start" => idemKey' = CallKey,
           OkMeansExecuted', NoReplayAfterAnswer'
    PROVE  RustIInv'
  <1>1. Traffic' /\ Load' = Load /\ Once' = Once /\ CallKey' = CallKey
    BY DEF RustIInv, serverVars, Traffic, Load, Once, CallKey
  <1>2. OneKey'
    BY <1>1 DEF RustIInv, OneKey, serverVars
  <1>3. Load' <= RustSent'
    <2>1. Load \in Nat /\ Load <= RustSent
      BY LoadType DEF RustIInv
    <2>2. attempt \in Nat /\ attempt' \in Nat
      BY MaxRetriesAssumption DEF RustIInv, RustTypes
    <2>3. RustSent \in Nat
      BY <2>2 DEF RustSent
    <2>4. RustSent' \in Nat
      BY SentType
    <2> QED  BY <1>1, <2>1, <2>3, <2>4
  <1> QED  BY <1>1, <1>2, <1>3 DEF RustIInv

(* A failed attempt, counted as an error or not, retried or not. *)
LEMMA RustFails ==
    ASSUME RustIInv, phase = "inflight", NEW retriable \in BOOLEAN,
           NEW kind \in {"http", "timeout", "transport"}, NEW counted \in {0, 1},
           counted = 1 => kind = "http" /\ (retriable => method \in RetriableMethods),
           FailWith(retriable, kind, counted)
    PROVE  RustIInv'
  <1>0. RustTypes /\ RustCounts /\ OkMeansExecuted /\ NoReplayAfterAnswer /\ attempt \in Nat
    BY MaxRetriesAssumption DEF RustIInv, RustTypes
  <1>1. UNCHANGED <<method, idempotency, idemKey, attempt, serverVars>>
    BY DEF FailWith
  <1>2. \/ /\ retriable /\ attempt < MaxRetries /\ phase' = "backoff" /\ outcome' = outcome
           /\ Counts(counted, 1)
        \/ phase' = "done" /\ outcome' = kind /\ Counts(counted, 0)
    BY <1>0, CountsErrors DEF FailWith
  <1>3. RustTypes'
    BY <1>0, <1>1, <1>2 DEF RustTypes, Counts, Outcomes
  <1>4. RustCounts'
    <2>1. \A x \in Counters : metrics[x] \in Nat
      BY <1>0 DEF RustTypes
    <2> QED  BY <1>0, <1>1, <1>2, <2>1 DEF RustCounts, Counts, Counters
  <1>5. RustSent' = RustSent
    BY <1>1, <1>2 DEF RustSent
  <1>6. OkMeansExecuted'
    BY <1>0, <1>1, <1>2 DEF OkMeansExecuted, serverVars
  <1>7. NoReplayAfterAnswer'
    <2>1. method \notin RetriableMethods => metrics["errors"] = 0
      <3>1. metrics["errors"] \in Nat
        BY <1>0 DEF RustTypes, Counters
      <3> QED  BY <1>0, <3>1 DEF NoReplayAfterAnswer
    <2>2. CASE counted = 0
      <3>1. metrics'["errors"] = metrics["errors"]
        BY <1>0, <1>2, <2>2 DEF Counts, RustTypes, Counters
      <3> QED  BY <1>1, <2>1, <3>1 DEF NoReplayAfterAnswer
    <2>3. CASE counted = 1
      BY <1>1, <1>2, <2>3 DEF NoReplayAfterAnswer
    <2> QED  BY <2>2, <2>3
  <1>8. RustSent' >= RustSent
    BY <1>0, <1>5 DEF RustSent
  <1> QED  BY <1>1, <1>2, <1>3, <1>4, <1>6, <1>7, <1>8, RustQuiet

LEMMA RustClient ==
    ASSUME RustIInv, Client
    PROVE  RustIInv'
  <1>0. RustTypes /\ RustCounts /\ OkMeansExecuted /\ NoReplayAfterAnswer /\ attempt \in Nat
    BY MaxRetriesAssumption DEF RustIInv, RustTypes
  <1>1. CASE Start
    <2>1. /\ metrics' \in [Counters -> Nat]
          /\ metrics'["requests"] = metrics["requests"] + 1
          /\ metrics'["ended"] = metrics["ended"] /\ metrics'["errors"] = metrics["errors"]
          /\ metrics'["retries"] = metrics["retries"]
      BY <1>0, <1>1 DEF Start, RustTypes, Counters
    <2>2. RustTypes'
      BY <1>0, <1>1, <2>1 DEF Start, RustTypes
    <2>3. RustCounts'
      BY <1>0, <1>1, <2>1 DEF Start, RustTypes, RustCounts, Counters
    <2>4. RustSent' >= RustSent
      BY <1>0, <1>1 DEF Start, RustSent
    <2>5. OkMeansExecuted' /\ NoReplayAfterAnswer'
      BY <1>0, <1>1, <2>1 DEF Start, OkMeansExecuted, NoReplayAfterAnswer, serverVars
    <2> QED  BY <1>1, <2>2, <2>3, <2>4, <2>5, RustQuiet DEF Start, CallKey
  <1>2. CASE Send
    <2>1. /\ phase = "ready" /\ phase' = "inflight" /\ Post(attempt, idemKey)
          /\ UNCHANGED <<method, idempotency, idemKey, attempt, outcome, metrics, reply, seen, executed>>
      BY <1>2 DEF Send, Post
    <2>2. Traffic' /\ Load' \in Nat /\ Load' <= Load + 1
      BY <1>0, <2>1, PostTraffic DEF RustIInv, RustTypes
    <2>3. RustTypes' /\ RustCounts'
      BY <1>0, <2>1 DEF RustTypes, RustCounts
    <2>4. Load' <= RustSent'
      <3>1. Load \in Nat /\ Load <= RustSent
        BY LoadType DEF RustIInv
      <3>2. RustSent' = attempt + 1 /\ RustSent = attempt
        BY <1>0, <2>1 DEF RustSent
      <3> QED  BY <1>0, <2>2, <3>1, <3>2
    <2>5. OneKey'
      BY <2>1 DEF RustIInv, OneKey, Post, CallKey, Once
    <2>6. OkMeansExecuted' /\ NoReplayAfterAnswer'
      BY <1>0, <2>1 DEF OkMeansExecuted, NoReplayAfterAnswer
    <2> QED  BY <2>2, <2>3, <2>4, <2>5, <2>6 DEF RustIInv
  <1>3. CASE Succeed
    <2>1. /\ metrics' \in [Counters -> Nat]
          /\ metrics'["ended"] = metrics["ended"] + 1
          /\ metrics'["requests"] = metrics["requests"] /\ metrics'["errors"] = metrics["errors"]
          /\ metrics'["retries"] = metrics["retries"]
      BY <1>0, <1>3 DEF Succeed, RustTypes, Counters
    <2>2. RustTypes'
      BY <1>0, <1>3, <2>1 DEF Succeed, RustTypes, Outcomes
    <2>3. RustCounts'
      <3>1. \A x \in Counters : metrics[x] \in Nat
        BY <1>0 DEF RustTypes
      <3> QED  BY <1>0, <1>3, <2>1, <3>1 DEF Succeed, RustCounts, Counters
    <2>4. RustSent' >= RustSent
      BY <1>0, <1>3 DEF Succeed, RustSent
    <2>5. executed' > 0
      BY <1>3 DEF Succeed, Answered, RustIInv, Traffic, serverVars
    <2>6. OkMeansExecuted' /\ NoReplayAfterAnswer'
      BY <1>0, <1>3, <2>1, <2>5 DEF Succeed, OkMeansExecuted, NoReplayAfterAnswer
    <2> QED  BY <1>3, <2>2, <2>3, <2>4, <2>6, RustQuiet DEF Succeed
  <1>4. CASE HttpError
    <2>1. (method \in RetriableMethods) \in BOOLEAN
      OBVIOUS
    <2>2. CASE FailWith(method \in RetriableMethods, "http", 1)
      BY <1>4, <2>1, <2>2, RustFails DEF HttpError
    <2>3. CASE FailWith(FALSE, "http", 1)
      BY <1>4, <2>3, RustFails DEF HttpError
    <2> QED  BY <1>4, <2>2, <2>3 DEF HttpError
  <1>5. CASE TimeOut
    <2>1. phase = "inflight" /\ FailWith(TRUE, "timeout", 0)
      BY <1>5 DEF TimeOut
    <2>2. TRUE \in BOOLEAN /\ 0 \in {0, 1} /\ 0 # 1
      OBVIOUS
    <2>3. "timeout" \in {"http", "timeout", "transport"}
      OBVIOUS
    <2> QED  BY <2>1, <2>2, <2>3, RustFails, Zenon
  <1>6. CASE TransportError
    BY <1>6, RustFails DEF TransportError
  <1>7. CASE NextAttempt
    <2>1. RustTypes' /\ RustCounts'
      BY <1>0, <1>7, MaxRetriesAssumption DEF NextAttempt, RustTypes, RustCounts
    <2>2. RustSent' >= RustSent
      BY <1>0, <1>7 DEF NextAttempt, RustSent
    <2>3. OkMeansExecuted' /\ NoReplayAfterAnswer'
      BY <1>0, <1>7 DEF NextAttempt, OkMeansExecuted, NoReplayAfterAnswer, serverVars
    <2> QED  BY <1>7, <2>1, <2>2, <2>3, RustQuiet DEF NextAttempt
  <1> QED  BY <1>1, <1>2, <1>3, <1>4, <1>5, <1>6, <1>7 DEF Client

LEMMA RustServer ==
    ASSUME RustIInv, Server
    PROVE  RustIInv'
  <1>0. RustTypes /\ RustCounts /\ OneKey /\ OkMeansExecuted /\ NoReplayAfterAnswer /\ Traffic
    BY DEF RustIInv
  <1>1. UNCHANGED clientVars /\ ServerNext
    BY DEF Server
  <1>2. /\ Traffic' /\ Load' \in Nat /\ Load' <= Load /\ wire' \subseteq wire /\ executed' >= executed
        /\ Once /\ (\A m \in wire : m.key = Key) => Once'
    BY <1>0, <1>1, ServerTraffic
  <1>3. RustTypes' /\ RustCounts' /\ NoReplayAfterAnswer' /\ RustSent' = RustSent /\ CallKey' = CallKey
    BY <1>0, <1>1 DEF clientVars, RustTypes, RustCounts, NoReplayAfterAnswer, RustSent, CallKey
  <1>4. Load' <= RustSent'
    <2>1. Load \in Nat /\ Load <= RustSent
      BY LoadType DEF RustIInv
    <2>2. RustSent \in Nat
      BY <1>0, MaxRetriesAssumption DEF RustSent, RustTypes
    <2> QED  BY <1>2, <1>3, <2>1, <2>2
  <1>5. OneKey'
    BY <1>0, <1>1, <1>2, <1>3 DEF OneKey, clientVars
  <1>6. OkMeansExecuted'
    BY <1>0, <1>1, <1>2 DEF OkMeansExecuted, clientVars, Traffic
  <1> QED  BY <1>2, <1>3, <1>4, <1>5, <1>6 DEF RustIInv

LEMMA RustNext == RustIInv /\ [Next]_vars => RustIInv'
  <1> SUFFICES ASSUME RustIInv, [Next]_vars PROVE RustIInv'
    OBVIOUS
  <1>1. CASE UNCHANGED vars
    BY <1>1
       DEF vars, clientVars, serverVars, RustIInv, RustTypes, RustCounts, RustSent,
           Traffic,
                Load, Once, OneKey, CallKey, OkMeansExecuted, NoReplayAfterAnswer
  <1> QED  BY <1>1, RustClient, RustServer DEF Next, Terminated

(* The types, with the bounds on attempts, counters and runs. *)
LEMMA RustBounds == RustIInv => TypeOK
  <1> SUFFICES ASSUME RustIInv PROVE TypeOK
    OBVIOUS
  <1>1. executed \in 0 .. MaxRetries + 1
    BY LoadType, MaxRetriesAssumption DEF RustIInv, RustSent, RustTypes
  <1>2. \A x \in Counters : metrics[x] \in 0 .. MaxRetries + 1
    BY MaxRetriesAssumption DEF RustIInv, RustTypes, RustCounts, Counters
  <1>3. metrics \in [Counters -> 0 .. MaxRetries + 1]
    BY <1>2 DEF RustIInv, RustTypes
  <1> QED  BY <1>1, <1>3 DEF RustIInv, RustTypes, Traffic, Messages, Replies, TypeOK, Counters

(* The inductive invariant of the Rust loop holds in every behaviour. *)
THEOREM RustInvariance == Spec => []RustIInv
  BY RustInit, RustNext, PTL DEF Spec

(* With idempotency on, do_with_retry makes the server run a POST, PUT,    *)
(* PATCH or DELETE at most once, whatever the number of retries and        *)
(* however late its attempts arrive.                                       *)
THEOREM RetriesAreSafe == Spec => []AtMostOnce
  <1>1. RustIInv => AtMostOnce
    BY DEF RustIInv, OneKey, Once, CallKey, AtMostOnce
  <1> QED  BY <1>1, RustInvariance, PTL

(* request_json returns Ok only for a request the server ran. *)
THEOREM OkIsHonest == Spec => []OkMeansExecuted
  <1>1. RustIInv => OkMeansExecuted
    BY DEF RustIInv
  <1> QED  BY <1>1, RustInvariance, PTL

(* is_error_retriable: a POST or PATCH that was answered with an error     *)
(* status is not sent again.                                               *)
THEOREM AnswerIsFinal == Spec => []NoReplayAfterAnswer
  <1>1. RustIInv => NoReplayAfterAnswer
    BY DEF RustIInv
  <1> QED  BY <1>1, RustInvariance, PTL

-----------------------------------------------------------------------------
(* The Go loop. *)

GoTypes ==
  /\ goMethod \in Go!Methods /\ goIdempotency \in BOOLEAN /\ goIdemKey \in {Key, NoKey}
  /\ goCtxDone \in BOOLEAN /\ goTimeoutText \in BOOLEAN
  /\ goAttempt \in 0 .. MaxRetries
  /\ goPhase \in {"start", "ready", "inflight", "backoff", "done"}
  /\ goOutcome \in Go!Outcomes \cup {Go!Pending}
  /\ goAnswers \in Nat

GoCounts ==
  /\ goPhase = "backoff" => goAttempt < MaxRetries
  /\ goPhase \in {"start", "ready", "inflight"} => goAnswers <= goAttempt
  /\ goAnswers <= goAttempt + 1

GoSent == IF goPhase \in {"start", "ready"} THEN goAttempt ELSE goAttempt + 1

GoCallKey == IF goIdempotency /\ goMethod \in Go!Candidates THEN Key ELSE NoKey

GoOneKey ==
  /\ goPhase = "start" => wire = {}
  /\ goPhase # "start" => goIdemKey = GoCallKey
  /\ \A m \in wire : m.key = GoCallKey
  /\ GoCallKey = Key => Once

GoIInv ==
  /\ GoTypes /\ GoCounts /\ Traffic /\ Load <= GoSent /\ GoOneKey
  /\ Go!OkMeansExecuted /\ Go!NoReplayAfterAnswer

LEMMA GoInit == Go!Init => GoIInv
  <1> SUFFICES ASSUME Go!Init PROVE GoIInv
    OBVIOUS
  <1>1. Traffic /\ Load = 0 /\ Once /\ wire = {} /\ executed = 0
    <2>1. ServerInit
      BY DEF Go!Init, Go!ServerInit, ServerInit
    <2> QED  BY <2>1, InitTraffic DEF ServerInit
  <1>2. GoTypes /\ GoCounts
    <2>1. goCtxDone \in BOOLEAN
      BY DEF Go!Init
    <2>2. goAttempt \in 0 .. MaxRetries /\ GoCounts
      BY MaxRetriesAssumption DEF Go!Init, GoCounts
    <2> QED  BY <2>1, <2>2 DEF Go!Init, GoTypes
  <1>3. GoSent = 0
    BY DEF Go!Init, GoSent
  <1>4. GoOneKey /\ Go!OkMeansExecuted /\ Go!NoReplayAfterAnswer
    BY <1>1 DEF Go!Init, GoOneKey, Go!OkMeansExecuted, Go!NoReplayAfterAnswer, Go!Pending
  <1> QED  BY <1>1, <1>2, <1>3, <1>4 DEF GoIInv

LEMMA GoSentType == GoTypes' => GoSent' \in Nat
  BY AttemptsAreNumbers DEF GoTypes, GoSent

LEMMA GoQuiet ==
    ASSUME GoIInv, UNCHANGED <<goMethod, goIdempotency, wire, reply, seen, executed>>,
           GoTypes', GoCounts', GoSent' >= GoSent,
           goPhase # "start" => goPhase' # "start" /\ goIdemKey' = goIdemKey,
           goPhase = "start" /\ goPhase' # "start" => goIdemKey' = GoCallKey,
           Go!OkMeansExecuted', Go!NoReplayAfterAnswer'
    PROVE  GoIInv'
  <1>1. Traffic' /\ Load' = Load /\ Once' = Once /\ GoCallKey' = GoCallKey
    BY DEF GoIInv, Traffic, Load, Once, GoCallKey
  <1>2. GoOneKey'
    BY <1>1 DEF GoIInv, GoOneKey
  <1>3. Load' <= GoSent'
    <2>1. Load \in Nat /\ Load <= GoSent
      BY LoadType DEF GoIInv
    <2>2. GoSent \in Nat
      BY AttemptsAreNumbers DEF GoIInv, GoTypes, GoSent
    <2>3. GoSent' \in Nat
      BY GoSentType
    <2> QED  BY <1>1, <2>1, <2>2, <2>3
  <1> QED  BY <1>1, <1>2, <1>3 DEF GoIInv

(* A failed attempt, answered with an error status or not. *)
LEMMA GoFails ==
    ASSUME GoIInv, goPhase = "inflight", NEW retriable \in BOOLEAN,
           NEW kind \in {"http", "network"}, NEW counted \in {0, 1},
           counted = 1 => kind = "http"
                          /\ (retriable => goTimeoutText \/ goMethod \in Go!RetriableMethods),
           goAnswers' = goAnswers + counted,
           Go!FailWith(retriable, kind)
    PROVE  GoIInv'
  <1>0. GoTypes /\ GoCounts /\ Go!OkMeansExecuted /\ Go!NoReplayAfterAnswer /\ goAttempt \in Nat
    BY AttemptsAreNumbers DEF GoIInv, GoTypes
  <1>1. UNCHANGED <<goMethod, goIdempotency, goTimeoutText, goIdemKey, goCtxDone, goAttempt,
                    wire, reply, seen, executed>>
    BY DEF Go!FailWith, Go!request, Go!serverVars
  <1>2. \/ retriable /\ goAttempt < MaxRetries /\ goPhase' = "backoff" /\ goOutcome' = goOutcome
        \/ goPhase' = "done" /\ goOutcome' = kind
    BY DEF Go!FailWith
  <1>3. GoTypes'
    BY <1>0, <1>1, <1>2 DEF GoTypes, Go!Outcomes
  <1>4. GoCounts'
    BY <1>0, <1>1, <1>2 DEF GoCounts, GoTypes
  <1>5. GoSent' >= GoSent
    BY <1>0, <1>1, <1>2 DEF GoSent
  <1>6. Go!OkMeansExecuted'
    BY <1>0, <1>1, <1>2 DEF Go!OkMeansExecuted
  <1>7. Go!NoReplayAfterAnswer'
    <2>1. goMethod \notin Go!RetriableMethods /\ ~goTimeoutText => goAnswers = 0
      BY <1>0 DEF Go!NoReplayAfterAnswer, GoTypes
    <2>2. CASE counted = 0
      BY <1>0, <1>1, <2>1, <2>2 DEF Go!NoReplayAfterAnswer, GoTypes
    <2>3. CASE counted = 1
      BY <1>1, <1>2, <2>3 DEF Go!NoReplayAfterAnswer
    <2> QED  BY <2>2, <2>3
  <1> QED  BY <1>1, <1>2, <1>3, <1>4, <1>5, <1>6, <1>7, GoQuiet

LEMMA GoClient ==
    ASSUME GoIInv, Go!Client \/ Go!Cancel
    PROVE  GoIInv'
  <1>0. GoTypes /\ GoCounts /\ Go!OkMeansExecuted /\ Go!NoReplayAfterAnswer /\ goAttempt \in Nat
    BY AttemptsAreNumbers DEF GoIInv, GoTypes
  <1> USE DEF Go!request, Go!serverVars
  <1>1. CASE Go!Start
    <2>1. GoTypes' /\ GoCounts'
      BY <1>0, <1>1 DEF Go!Start, GoTypes, GoCounts
    <2>2. GoSent' >= GoSent
      BY <1>0, <1>1 DEF Go!Start, GoSent
    <2>3. Go!OkMeansExecuted' /\ Go!NoReplayAfterAnswer'
      BY <1>0, <1>1 DEF Go!Start, Go!OkMeansExecuted, Go!NoReplayAfterAnswer
    <2> QED  BY <1>1, <2>1, <2>2, <2>3, GoQuiet DEF Go!Start, GoCallKey
  <1>8. CASE Go!Cancel
    <2>1. goCtxDone' \in BOOLEAN
      BY <1>8 DEF Go!Cancel
    <2>2. UNCHANGED <<goMethod, goIdempotency, goTimeoutText, goIdemKey, goAttempt, goPhase,
                      goOutcome, goAnswers, wire, reply, seen, executed>>
      BY <1>8 DEF Go!Cancel
    <2>3. GoTypes' /\ GoCounts'
      BY <1>0, <2>1, <2>2 DEF GoTypes, GoCounts
    <2>4. GoSent' >= GoSent
      BY <1>0, <2>2 DEF GoSent
    <2>5. Go!OkMeansExecuted' /\ Go!NoReplayAfterAnswer'
      BY <1>0, <2>2 DEF Go!OkMeansExecuted, Go!NoReplayAfterAnswer
    <2> QED  BY <2>2, <2>3, <2>4, <2>5, GoQuiet
  <1>2. CASE Go!Send
    <2>1. /\ goPhase = "ready" /\ goPhase' = "inflight"
          /\ UNCHANGED <<goMethod, goIdempotency, goTimeoutText, goIdemKey, goCtxDone, goAttempt,
                         goOutcome, goAnswers, reply, seen, executed>>
      BY <1>2 DEF Go!Send, Go!Post
    <2>2. GoTypes' /\ GoCounts' /\ GoSent' >= GoSent
      BY <1>0, <2>1 DEF GoTypes, GoCounts, GoSent
    <2>3. Go!OkMeansExecuted' /\ Go!NoReplayAfterAnswer'
      BY <1>0, <2>1 DEF Go!OkMeansExecuted, Go!NoReplayAfterAnswer
    <2>4. CASE UNCHANGED wire
      BY <2>1, <2>2, <2>3, <2>4, GoQuiet
    <2>5. CASE Go!Post(goAttempt, goIdemKey)
      <3>1. Post(goAttempt, goIdemKey)
        BY <2>5 DEF Go!Post, Post
      <3>2. Traffic' /\ Load' \in Nat /\ Load' <= Load + 1
        BY <1>0, <3>1, PostTraffic DEF GoIInv, GoTypes
      <3>3. Load \in Nat /\ Load <= GoSent
        BY LoadType DEF GoIInv
      <3>4. GoSent' = goAttempt + 1 /\ GoSent = goAttempt
        BY <1>0, <2>1 DEF GoSent
      <3>5. Load' <= GoSent'
        BY <1>0, <3>2, <3>3, <3>4
      <3>6. GoOneKey'
        BY <2>1, <3>1 DEF GoIInv, GoOneKey, Post, GoCallKey, Once
      <3> QED  BY <2>2, <2>3, <3>2, <3>5, <3>6 DEF GoIInv
    <2> QED  BY <1>2, <2>4, <2>5 DEF Go!Send
  <1>3. CASE Go!Succeed
    <2>1. GoTypes' /\ GoCounts' /\ GoSent' >= GoSent
      BY <1>0, <1>3 DEF Go!Succeed, GoTypes, GoCounts, GoSent, Go!Outcomes
    <2>2. executed > 0
      BY <1>3 DEF Go!Succeed, Go!Answered, GoIInv, Traffic
    <2>3. Go!OkMeansExecuted' /\ Go!NoReplayAfterAnswer'
      BY <1>0, <1>3, <2>2 DEF Go!Succeed, Go!OkMeansExecuted, Go!NoReplayAfterAnswer
    <2> QED  BY <1>3, <2>1, <2>3, GoQuiet DEF Go!Succeed
  <1>4. CASE Go!HttpError
    <2>1. PICK v \in BOOLEAN : /\ Go!FailWith(v, "http")
                               /\ v => goTimeoutText \/ goMethod \in Go!RetriableMethods
      <3>1. (goTimeoutText \/ goMethod \in Go!RetriableMethods) \in BOOLEAN /\ goTimeoutText \in BOOLEAN
        BY <1>0 DEF GoTypes
      <3> QED  BY <1>4, <3>1 DEF Go!HttpError
    <2>2. goPhase = "inflight" /\ goAnswers' = goAnswers + 1
      BY <1>4 DEF Go!HttpError
    <2> QED  BY <2>1, <2>2, GoFails
  <1>5. CASE Go!NetworkError
    <2>1. PICK v \in BOOLEAN : Go!FailWith(v, "network")
      BY <1>5 DEF Go!NetworkError
    <2>2. goPhase = "inflight" /\ goAnswers' = goAnswers + 0
      BY <1>0, <1>5 DEF Go!NetworkError, GoTypes
    <2>3. 0 # 1 /\ 0 \in {0, 1}
      OBVIOUS
    <2> QED  BY <2>1, <2>2, <2>3, GoFails
  <1>6. CASE Go!NextAttempt
    <2>1. GoTypes' /\ GoCounts'
      BY <1>0, <1>6, MaxRetriesAssumption DEF Go!NextAttempt, GoTypes, GoCounts
    <2>2. GoSent' >= GoSent
      BY <1>0, <1>6 DEF Go!NextAttempt, GoSent
    <2>3. Go!OkMeansExecuted' /\ Go!NoReplayAfterAnswer'
      BY <1>0, <1>6 DEF Go!NextAttempt, Go!OkMeansExecuted, Go!NoReplayAfterAnswer
    <2> QED  BY <1>6, <2>1, <2>2, <2>3, GoQuiet DEF Go!NextAttempt
  <1>7. CASE Go!BackoffCancelled
    <2>1. GoTypes' /\ GoCounts' /\ GoSent' >= GoSent
      BY <1>0, <1>7 DEF Go!BackoffCancelled, GoTypes, GoCounts, GoSent, Go!Outcomes
    <2>2. Go!OkMeansExecuted' /\ Go!NoReplayAfterAnswer'
      BY <1>0, <1>7 DEF Go!BackoffCancelled, Go!OkMeansExecuted, Go!NoReplayAfterAnswer
    <2> QED  BY <1>7, <2>1, <2>2, GoQuiet DEF Go!BackoffCancelled
  <1> QED  BY <1>1, <1>2, <1>3, <1>4, <1>5, <1>6, <1>7, <1>8 DEF Go!Client

LEMMA GoServer ==
    ASSUME GoIInv, Go!Server
    PROVE  GoIInv'
  <1>0. GoTypes /\ GoCounts /\ GoOneKey /\ Go!OkMeansExecuted /\ Go!NoReplayAfterAnswer /\ Traffic
    BY DEF GoIInv
  <1>1. UNCHANGED Go!clientVars /\ ServerNext
    BY DEF Go!Server, Go!ServerNext, Go!Serve, Go!Refuse, Go!Lose, ServerNext, Serve,
           Refuse, Lose
  <1>2. /\ Traffic' /\ Load' \in Nat /\ Load' <= Load /\ wire' \subseteq wire
        /\ executed' >= executed
        /\ Once /\ (\A m \in wire : m.key = Key) => Once'
    BY <1>0, <1>1, ServerTraffic
  <1>3. GoTypes' /\ GoCounts' /\ Go!NoReplayAfterAnswer' /\ GoSent' = GoSent /\ GoCallKey' = GoCallKey
    BY <1>0, <1>1
       DEF Go!clientVars, GoTypes, GoCounts, Go!NoReplayAfterAnswer, GoSent, GoCallKey
  <1>4. Load' <= GoSent'
    <2>1. Load \in Nat /\ Load <= GoSent
      BY LoadType DEF GoIInv
    <2>2. GoSent \in Nat
      BY <1>0, AttemptsAreNumbers DEF GoSent, GoTypes
    <2> QED  BY <1>2, <1>3, <2>1, <2>2
  <1>5. GoOneKey'
    BY <1>0, <1>1, <1>2, <1>3 DEF GoOneKey, Go!clientVars
  <1>6. Go!OkMeansExecuted'
    BY <1>0, <1>1, <1>2 DEF Go!OkMeansExecuted, Go!clientVars, Traffic
  <1> QED  BY <1>2, <1>3, <1>4, <1>5, <1>6 DEF GoIInv

LEMMA GoNext == GoIInv /\ [Go!Next]_(Go!vars) => GoIInv'
  <1> SUFFICES ASSUME GoIInv, [Go!Next]_(Go!vars) PROVE GoIInv'
    OBVIOUS
  <1>1. CASE UNCHANGED Go!vars
    BY <1>1
       DEF Go!vars, Go!clientVars, Go!serverVars, GoIInv, GoTypes, GoCounts, GoSent,
           Traffic,
                Load, Once, GoOneKey, GoCallKey, Go!OkMeansExecuted, Go!NoReplayAfterAnswer
  <1> QED  BY <1>1, GoClient, GoServer DEF Go!Next, Go!Terminated

LEMMA GoBounds == GoIInv => Go!TypeOK /\ Go!AtMostOnce
  <1> SUFFICES ASSUME GoIInv PROVE Go!TypeOK /\ Go!AtMostOnce
    OBVIOUS
  <1>1. executed \in 0 .. MaxRetries + 1
    BY LoadType, MaxRetriesAssumption DEF GoIInv, GoSent, GoTypes
  <1>2. goAnswers \in 0 .. MaxRetries + 1
    BY MaxRetriesAssumption DEF GoIInv, GoTypes, GoCounts
  <1>3. Go!AtMostOnce
    BY DEF GoIInv, GoOneKey, Once, GoCallKey, Go!AtMostOnce
  <1> QED  BY <1>1, <1>2, <1>3 DEF GoIInv, GoTypes, Traffic, Messages, Replies, Go!TypeOK

-----------------------------------------------------------------------------
(* The TypeScript loop. *)

Hooks == {"start", "end", "error", "retry"}

TsTypes ==
  /\ tsMethod \in Ts!Methods
  /\ {tsRetryable, tsIdempotency, tsAborted, tsLinked} \subseteq BOOLEAN
  /\ tsAttempt \in 0 .. MaxRetries
  /\ tsPhase \in {"ready", "inflight", "backoff", "done"}
  /\ tsOutcome \in Ts!Outcomes \cup {Ts!Pending}
  /\ tsHooks \in [Hooks -> Nat]

(* What the telemetry was told of the attempts so far, and that a call     *)
(* that may not be retried stays at its first attempt.                     *)
TsCounts ==
  /\ tsPhase = "backoff" => tsAttempt < MaxRetries
  /\ ~tsRetryable => tsAttempt = 0 /\ tsPhase # "backoff"
  /\ tsHooks["start"] \in {0, 1}
  /\ tsPhase \notin {"ready", "done"} => tsHooks["start"] = 1
  /\ tsPhase = "ready" => tsHooks["start"] = IF tsAttempt = 0 THEN 0 ELSE 1
  /\ tsOutcome \notin Ts!Unreported \cup {Ts!Pending} => tsHooks["start"] = 1
  /\ tsPhase # "done" <=> tsOutcome = Ts!Pending
  /\ tsHooks["retry"] = IF tsPhase = "backoff" THEN tsAttempt + 1 ELSE tsAttempt
  /\ tsHooks["end"] = IF tsPhase = "done" /\ tsOutcome = "ok" THEN 1 ELSE 0
  /\ tsHooks["error"] = IF tsPhase = "done" /\ tsOutcome \notin {"ok"} \cup Ts!Unreported THEN 1 ELSE 0

TsSent == IF tsPhase = "ready" THEN tsAttempt ELSE tsAttempt + 1

TsIInv == TsTypes /\ TsCounts /\ Traffic /\ Load <= TsSent /\ Ts!OkMeansExecuted

LEMMA TsInit == Ts!Init => TsIInv
  <1> SUFFICES ASSUME Ts!Init PROVE TsIInv
    OBVIOUS
  <1>1. Traffic /\ Load = 0 /\ executed = 0
    <2>1. ServerInit
      BY DEF Ts!Init, Ts!ServerInit, ServerInit
    <2> QED  BY <2>1, InitTraffic DEF ServerInit
  <1>2. tsAborted \in BOOLEAN /\ tsLinked \in BOOLEAN
    BY DEF Ts!Init
  <1>3. tsAttempt \in 0 .. MaxRetries /\ TsCounts /\ tsHooks \in [Hooks -> Nat]
    BY MaxRetriesAssumption DEF Ts!Init, TsCounts, Hooks
  <1>4. TsTypes
    BY <1>2, <1>3 DEF Ts!Init, TsTypes
  <1>5. TsSent = 0
    BY DEF Ts!Init, TsSent
  <1>6. Ts!OkMeansExecuted
    BY DEF Ts!Init, Ts!OkMeansExecuted, Ts!Pending
  <1> QED  BY <1>1, <1>3, <1>4, <1>5, <1>6 DEF TsIInv

LEMMA TsSentType == TsTypes' => TsSent' \in Nat
  BY AttemptsAreNumbers DEF TsTypes, TsSent

LEMMA TsQuiet ==
    ASSUME TsIInv, UNCHANGED <<wire, reply, seen, executed>>,
           TsTypes', TsCounts', TsSent' >= TsSent, Ts!OkMeansExecuted'
    PROVE  TsIInv'
  <1>1. Traffic' /\ Load' = Load
    BY DEF TsIInv, Traffic, Load
  <1>2. Load' <= TsSent'
    <2>1. Load \in Nat /\ Load <= TsSent
      BY LoadType DEF TsIInv
    <2>2. TsSent \in Nat
      BY AttemptsAreNumbers DEF TsIInv, TsTypes, TsSent
    <2>3. TsSent' \in Nat
      BY TsSentType
    <2> QED  BY <1>1, <2>1, <2>2, <2>3
  <1> QED  BY <1>1, <1>2 DEF TsIInv

(* The promise settles as kind, with the hook that belongs to it. *)
LEMMA TsSettles ==
    ASSUME TsIInv, tsPhase = "inflight", NEW kind \in Ts!Outcomes,
           NEW ended \in {0, 1}, NEW failed \in {0, 1},
           ended = IF kind = "ok" THEN 1 ELSE 0,
           failed = IF kind \in {"ok"} \cup Ts!Unreported THEN 0 ELSE 1,
           kind = "ok" => executed > 0,
           Ts!Settle(kind, ended, failed)
    PROVE  TsIInv'
  <1>0. TsTypes /\ TsCounts /\ tsAttempt \in Nat
    BY AttemptsAreNumbers DEF TsIInv, TsTypes
  <1>1. /\ tsPhase' = "done" /\ tsOutcome' = kind
        /\ UNCHANGED <<tsMethod, tsRetryable, tsIdempotency, tsAttempt, tsAborted,
                       wire, reply, seen, executed>>
    BY DEF Ts!Settle, Ts!serverVars
  <1>2. tsLinked' \in BOOLEAN
    BY DEF Ts!Settle
  <1>3. /\ tsHooks' \in [Hooks -> Nat]
        /\ tsHooks'["start"] = tsHooks["start"] /\ tsHooks'["retry"] = tsHooks["retry"]
        /\ tsHooks'["end"] = tsHooks["end"] + ended
        /\ tsHooks'["error"] = tsHooks["error"] + failed
    <2> DEFINE h == [tsHooks EXCEPT !.end = @ + ended]
               g == [h EXCEPT !.error = @ + failed]
    <2>1. tsHooks \in [Hooks -> Nat] /\ tsHooks["end"] \in Nat /\ tsHooks["error"] \in Nat
      BY <1>0 DEF TsTypes, Hooks
    <2>2. /\ h \in [Hooks -> Nat] /\ h["end"] = tsHooks["end"] + ended
          /\ h["start"] = tsHooks["start"] /\ h["retry"] = tsHooks["retry"]
          /\ h["error"] = tsHooks["error"]
      BY <2>1 DEF Hooks
    <2>3. tsHooks' = g
      BY DEF Ts!Settle
    <2>4. /\ g \in [Hooks -> Nat] /\ g["end"] = h["end"] /\ g["error"] = h["error"] + failed
          /\ g["start"] = h["start"] /\ g["retry"] = h["retry"]
      <3> HIDE DEF h
      <3> QED  BY <2>1, <2>2 DEF Hooks
    <2> HIDE DEF h, g
    <2> QED  BY <2>2, <2>3, <2>4
  <1>4. TsTypes'
    BY <1>0, <1>1, <1>2, <1>3 DEF TsTypes
  <1>5. TsCounts'
    BY <1>0, <1>1, <1>3 DEF TsCounts, Ts!Outcomes, Ts!Unreported, Ts!Pending
  <1>6. TsSent' >= TsSent
    BY <1>0, <1>1 DEF TsSent
  <1>7. Ts!OkMeansExecuted'
    BY <1>1 DEF Ts!OkMeansExecuted
  <1> QED  BY <1>1, <1>4, <1>5, <1>6, <1>7, TsQuiet

(* onRetry and the sleep. *)
LEMMA TsBacksOff ==
    ASSUME TsIInv, tsPhase = "inflight", tsAttempt < MaxRetries, tsRetryable, Ts!BackOff
    PROVE  TsIInv'
  <1>0. TsTypes /\ TsCounts /\ tsAttempt \in Nat
    BY AttemptsAreNumbers DEF TsIInv, TsTypes
  <1>1. /\ tsPhase' = "backoff"
        /\ UNCHANGED <<tsMethod, tsRetryable, tsIdempotency, tsAttempt, tsAborted, tsOutcome,
                       wire, reply, seen, executed>>
    BY DEF Ts!BackOff, Ts!serverVars
  <1>2. tsLinked' \in BOOLEAN
    BY DEF Ts!BackOff
  <1>3. /\ tsHooks' \in [Hooks -> Nat]
        /\ tsHooks'["start"] = tsHooks["start"] /\ tsHooks'["retry"] = tsHooks["retry"] + 1
        /\ tsHooks'["end"] = tsHooks["end"] /\ tsHooks'["error"] = tsHooks["error"]
    BY <1>0 DEF Ts!BackOff, TsTypes, Hooks
  <1>4. TsTypes'
    BY <1>0, <1>1, <1>2, <1>3 DEF TsTypes
  <1>5. TsCounts'
    BY <1>0, <1>1, <1>3 DEF TsCounts
  <1>6. TsSent' >= TsSent
    BY <1>0, <1>1 DEF TsSent
  <1>7. Ts!OkMeansExecuted'
    BY <1>1 DEF TsIInv, Ts!OkMeansExecuted
  <1> QED  BY <1>1, <1>4, <1>5, <1>6, <1>7, TsQuiet

(* The call ends before its attempt is sent, and neither end nor error is  *)
(* reported.                                                               *)
LEMMA TsGivesUp ==
    ASSUME TsIInv, tsPhase = "ready", tsPhase' = "done", tsOutcome' \in {"auth", "body"},
           UNCHANGED <<tsMethod, tsRetryable, tsIdempotency, tsAttempt, tsAborted,
                       wire, reply, seen, executed>>,
           \/ tsLinked' = tsLinked /\ tsHooks' = tsHooks
           \/ /\ tsLinked' \in BOOLEAN /\ tsHooks' \in [Hooks -> Nat]
              /\ tsHooks'["start"] \in {0, 1}
              /\ tsHooks'["retry"] = tsHooks["retry"]
              /\ tsHooks'["end"] = tsHooks["end"] /\ tsHooks'["error"] = tsHooks["error"]
    PROVE  TsIInv'
  <1>0. TsTypes /\ TsCounts /\ tsAttempt \in Nat
    BY AttemptsAreNumbers DEF TsIInv, TsTypes
  <1>1. /\ tsLinked' \in BOOLEAN /\ tsHooks' \in [Hooks -> Nat]
        /\ tsHooks'["start"] \in {0, 1} /\ tsHooks'["retry"] = tsHooks["retry"]
        /\ tsHooks'["end"] = tsHooks["end"] /\ tsHooks'["error"] = tsHooks["error"]
    BY <1>0 DEF TsTypes, TsCounts, Hooks
  <1>2. TsTypes'
    BY <1>0, <1>1 DEF TsTypes, Ts!Outcomes
  <1>3. TsCounts'
    BY <1>0, <1>1 DEF TsCounts, Ts!Unreported, Ts!Pending
  <1>4. TsSent' >= TsSent
    BY <1>0 DEF TsSent
  <1>5. Ts!OkMeansExecuted'
    BY DEF Ts!OkMeansExecuted
  <1> QED  BY <1>2, <1>3, <1>4, <1>5, TsQuiet

LEMMA TsClient ==
    ASSUME TsIInv, Ts!Client \/ Ts!Abort
    PROVE  TsIInv'
  <1>0. TsTypes /\ TsCounts /\ tsAttempt \in Nat
    BY AttemptsAreNumbers DEF TsIInv, TsTypes
  <1> USE DEF Ts!Outcomes
  <1>1. CASE Ts!Send
    <2>1. /\ tsPhase = "ready" /\ tsPhase' = "inflight" /\ Ts!Post(tsAttempt, Ts!HeaderKey)
          /\ UNCHANGED <<tsMethod, tsRetryable, tsIdempotency, tsAttempt, tsAborted, tsOutcome>>
      BY <1>1 DEF Ts!Send
    <2>2. tsLinked' \in BOOLEAN
      BY <1>1 DEF Ts!Send
    <2>3. /\ tsHooks' \in [Hooks -> Nat]
          /\ tsHooks'["start"] = IF tsAttempt = 0 THEN tsHooks["start"] + 1 ELSE tsHooks["start"]
          /\ tsHooks'["retry"] = tsHooks["retry"]
          /\ tsHooks'["end"] = tsHooks["end"] /\ tsHooks'["error"] = tsHooks["error"]
      BY <1>0, <1>1 DEF Ts!Send, TsTypes, Hooks
    <2>4. TsTypes'
      BY <1>0, <2>1, <2>2, <2>3 DEF TsTypes
    <2>5. TsCounts'
      BY <1>0, <2>1, <2>3 DEF TsCounts
    <2>6. Post(tsAttempt, Ts!HeaderKey)
      BY <2>1 DEF Ts!Post, Post
    <2>7. Ts!HeaderKey \in {Key, NoKey}
      BY DEF Ts!HeaderKey
    <2>8. Traffic' /\ Load' \in Nat /\ Load' <= Load + 1
      BY <1>0, <2>6, <2>7, PostTraffic DEF TsIInv, TsTypes
    <2>9. Load' <= TsSent'
      <3>1. Load \in Nat /\ Load <= TsSent
        BY LoadType DEF TsIInv
      <3>2. TsSent' = tsAttempt + 1 /\ TsSent = tsAttempt
        BY <1>0, <2>1 DEF TsSent
      <3> QED  BY <1>0, <2>8, <3>1, <3>2
    <2>10. Ts!OkMeansExecuted'
      BY <2>1, <2>6 DEF Post, TsIInv, Ts!OkMeansExecuted
    <2> QED  BY <2>4, <2>5, <2>8, <2>9, <2>10 DEF TsIInv
  <1>2. CASE Ts!Succeed
    <2>1. tsPhase = "inflight" /\ Ts!Settle("ok", 1, 0) /\ executed > 0
      BY <1>2 DEF Ts!Succeed, Ts!Answered, TsIInv, Traffic
    <2> QED  BY <2>1, TsSettles
  <1>3. ASSUME NEW kind \in {"http", "network", "timeout"}, tsPhase = "inflight",
               Ts!Settle(kind, 0, 1)
        PROVE  TsIInv'
    BY <1>3, TsSettles DEF Ts!Unreported
  <1>4. ASSUME NEW kind \in {"aborted", "thrown"}, tsPhase = "inflight",
               Ts!Settle(kind, 0, 0)
        PROVE  TsIInv'
    BY <1>4, TsSettles DEF Ts!Unreported
  <1>5. CASE Ts!HttpError
    BY <1>3, <1>5, TsBacksOff DEF Ts!HttpError
  <1>6. CASE Ts!NetworkError
    BY <1>3, <1>4, <1>6, TsBacksOff DEF Ts!NetworkError
  <1>7. CASE Ts!TimeOut \/ Ts!AbortReaches \/ Ts!MiddlewareThrows
    BY <1>3, <1>4, <1>7 DEF Ts!TimeOut, Ts!AbortReaches, Ts!MiddlewareThrows
  <1>8. CASE Ts!NextAttempt
    <2>1. /\ tsPhase = "backoff" /\ tsPhase' = "ready" /\ tsAttempt' = tsAttempt + 1
          /\ UNCHANGED <<tsMethod, tsRetryable, tsIdempotency, tsAborted, tsLinked, tsOutcome,
                         tsHooks, wire, reply, seen, executed>>
      BY <1>8 DEF Ts!NextAttempt, Ts!serverVars
    <2>2. tsAttempt' \in 0 .. MaxRetries
      BY <1>0, <2>1, MaxRetriesAssumption DEF TsCounts
    <2>3. TsTypes'
      BY <1>0, <2>1, <2>2 DEF TsTypes
    <2>4. TsCounts'
      BY <1>0, <2>1 DEF TsCounts
    <2>5. TsSent' >= TsSent
      BY <1>0, <2>1 DEF TsSent
    <2>6. Ts!OkMeansExecuted'
      BY <2>1 DEF TsIInv, Ts!OkMeansExecuted
    <2> QED  BY <2>1, <2>3, <2>4, <2>5, <2>6, TsQuiet
  <1>9. CASE Ts!Abort
    <2>1. UNCHANGED <<tsMethod, tsRetryable, tsIdempotency, tsAttempt, tsPhase, tsLinked, tsOutcome,
                      tsHooks, wire, reply, seen, executed>>
      BY <1>9 DEF Ts!Abort, Ts!serverVars
    <2>2. tsAborted' \in BOOLEAN
      BY <1>9 DEF Ts!Abort
    <2>3. TsTypes'
      BY <1>0, <2>1, <2>2 DEF TsTypes
    <2>4. TsCounts'
      BY <1>0, <2>1 DEF TsCounts
    <2>5. TsSent' >= TsSent
      BY <1>0, <2>1 DEF TsSent
    <2>6. Ts!OkMeansExecuted'
      BY <2>1 DEF TsIInv, Ts!OkMeansExecuted
    <2> QED  BY <2>1, <2>3, <2>4, <2>5, <2>6, TsQuiet
  <1>10. CASE Ts!AuthFails
    BY <1>10, TsGivesUp DEF Ts!AuthFails, Ts!serverVars
  <1>11. CASE Ts!SerializeFails
    <2>1. /\ tsPhase = "ready" /\ tsPhase' = "done" /\ tsOutcome' = "body"
          /\ UNCHANGED <<tsMethod, tsRetryable, tsIdempotency, tsAttempt, tsAborted,
                         wire, reply, seen, executed>>
      BY <1>11 DEF Ts!SerializeFails, Ts!serverVars
    <2>2. tsLinked' \in BOOLEAN
      BY <1>11 DEF Ts!SerializeFails
    <2>3. /\ tsHooks' \in [Hooks -> Nat]
          /\ tsHooks'["start"] = IF tsAttempt = 0 THEN tsHooks["start"] + 1 ELSE tsHooks["start"]
          /\ tsHooks'["retry"] = tsHooks["retry"]
          /\ tsHooks'["end"] = tsHooks["end"] /\ tsHooks'["error"] = tsHooks["error"]
      BY <1>0, <1>11 DEF Ts!SerializeFails, TsTypes, Hooks
    <2>4. tsHooks'["start"] \in {0, 1}
      BY <1>0, <2>1, <2>3 DEF TsCounts
    <2> QED  BY <2>1, <2>2, <2>3, <2>4, TsGivesUp
  <1> QED
    BY <1>1, <1>2, <1>5, <1>6, <1>7, <1>8, <1>9, <1>10, <1>11 DEF Ts!Client

LEMMA TsServer ==
    ASSUME TsIInv, Ts!Server
    PROVE  TsIInv'
  <1>1. UNCHANGED Ts!clientVars /\ ServerNext
    BY DEF Ts!Server, Ts!ServerNext, Ts!Serve, Ts!Refuse, Ts!Lose, ServerNext, Serve,
           Refuse, Lose
  <1>2. Traffic' /\ Load' \in Nat /\ Load' <= Load /\ executed' >= executed
    BY <1>1, ServerTraffic DEF TsIInv
  <1>3. TsTypes' /\ TsCounts' /\ TsSent' = TsSent
    BY <1>1 DEF Ts!clientVars, TsIInv, TsTypes, TsCounts, TsSent
  <1>4. Load' <= TsSent'
    <2>1. Load \in Nat /\ Load <= TsSent
      BY LoadType DEF TsIInv
    <2>2. TsSent \in Nat
      BY AttemptsAreNumbers DEF TsIInv, TsSent, TsTypes
    <2> QED  BY <1>2, <1>3, <2>1, <2>2
  <1>5. Ts!OkMeansExecuted'
    BY <1>1, <1>2 DEF TsIInv, Ts!OkMeansExecuted, Ts!clientVars, Traffic
  <1> QED  BY <1>2, <1>3, <1>4, <1>5 DEF TsIInv

LEMMA TsNext == TsIInv /\ [Ts!Next]_(Ts!vars) => TsIInv'
  <1> SUFFICES ASSUME TsIInv, [Ts!Next]_(Ts!vars) PROVE TsIInv'
    OBVIOUS
  <1>1. CASE UNCHANGED Ts!vars
    BY <1>1
       DEF Ts!vars, Ts!clientVars, Ts!serverVars, TsIInv, TsTypes, TsCounts, TsSent,
           Traffic, Load, Ts!OkMeansExecuted
  <1> QED  BY <1>1, TsClient, TsServer DEF Ts!Next, Ts!Terminated

LEMMA TsBounds == TsIInv => Ts!TypeOK /\ Ts!UnretriedAtMostOnce /\ Ts!HooksBalanced
  <1> SUFFICES ASSUME TsIInv PROVE Ts!TypeOK /\ Ts!UnretriedAtMostOnce /\ Ts!HooksBalanced
    OBVIOUS
  <1>0. /\ executed \in Nat /\ Load \in Nat /\ executed <= Load /\ Load <= TsSent
        /\ tsAttempt \in 0 .. MaxRetries
    BY LoadType DEF TsIInv, TsTypes
  <1>1. executed \in 0 .. MaxRetries + 1
    BY <1>0, MaxRetriesAssumption DEF TsSent
  <1>2. \A x \in Hooks : tsHooks[x] \in 0 .. MaxRetries + 1
    BY MaxRetriesAssumption DEF TsIInv, TsTypes, TsCounts, Hooks
  <1>3. tsHooks \in [Hooks -> 0 .. MaxRetries + 1]
    BY <1>2 DEF TsIInv, TsTypes
  <1>4. Ts!TypeOK
    BY <1>1, <1>3 DEF TsIInv, TsTypes, Traffic, Messages, Replies, Ts!TypeOK, Hooks
  <1>5. Ts!UnretriedAtMostOnce
    BY <1>0 DEF TsIInv, TsCounts, TsSent, Ts!UnretriedAtMostOnce
  <1>6. Ts!HooksBalanced
    <2>1. TsTypes /\ TsCounts
      BY DEF TsIInv
    <2>2. CASE tsPhase # "done"
      BY <2>1, <2>2 DEF TsTypes, TsCounts, Ts!HooksBalanced, Ts!Outcomes, Ts!Unreported, Ts!Pending
    <2>3. CASE tsPhase = "done"
      BY <2>1, <2>3 DEF TsTypes, TsCounts, Ts!HooksBalanced, Ts!Outcomes, Ts!Unreported, Ts!Pending
    <2> QED  BY <2>2, <2>3
  <1> QED  BY <1>4, <1>5, <1>6

-----------------------------------------------------------------------------
(* The three loops against one server: the SDK that calls keeps its        *)
(* invariant, the others stay where they start.                            *)

RustIdle ==
  /\ method = "GET" /\ idempotency = FALSE /\ idemKey = NoKey /\ attempt = 0
  /\ phase = "start" /\ outcome = Pending
  /\ metrics = [requests |-> 0, ended |-> 0, errors |-> 0, retries |-> 0]

GoIdle ==
  /\ goMethod = "GET" /\ goIdempotency = FALSE /\ goTimeoutText = FALSE /\ goCtxDone = FALSE
  /\ goIdemKey = NoKey /\ goAttempt = 0
  /\ goPhase = "start" /\ goOutcome = Go!Pending /\ goAnswers = 0

TsIdle ==
  /\ tsMethod = "GET" /\ tsRetryable = TRUE /\ tsIdempotency = FALSE /\ tsAborted = FALSE
  /\ tsLinked = FALSE /\ tsAttempt = 0 /\ tsPhase = "ready" /\ tsOutcome = Ts!Pending
  /\ tsHooks = [start |-> 0, end |-> 0, error |-> 0, retry |-> 0]

OneLoop ==
  /\ sdk \in {"rust", "go", "ts"}
  /\ IF sdk = "rust" THEN RustIInv ELSE RustIdle
  /\ IF sdk = "go" THEN GoIInv ELSE GoIdle
  /\ IF sdk = "ts" THEN TsIInv ELSE TsIdle

LEMMA OneLoopInit == MCInit => OneLoop
  <1> SUFFICES ASSUME MCInit PROVE OneLoop
    OBVIOUS
  <1>1. RustIInv /\ GoIInv /\ TsIInv
    BY RustInit, GoInit, TsInit DEF MCInit
  <1>2. sdk # "rust" => RustIdle
    <2>1. sdk # "rust" => idempotency = FALSE
      BY DEF MCInit, Init
    <2> QED  BY <2>1 DEF MCInit, Init, RustIdle
  <1>3. sdk # "go" => GoIdle
    <2>1. sdk # "go" => goIdempotency = FALSE /\ goTimeoutText = FALSE
      BY DEF MCInit, Go!Init
    <2> QED  BY <2>1 DEF MCInit, Go!Init, GoIdle
  <1>4. sdk # "ts" => TsIdle
    <2>1. sdk # "ts" => tsIdempotency = FALSE /\ tsRetryable = TRUE
      BY DEF MCInit, Ts!Init
    <2> QED  BY <2>1 DEF MCInit, Ts!Init, TsIdle
  <1>5. sdk \in {"rust", "go", "ts"}
    BY DEF MCInit
  <1> QED  BY <1>1, <1>2, <1>3, <1>4, <1>5 DEF OneLoop

LEMMA OneLoopNext == OneLoop /\ [MCNext]_<<sdk, vars, goVars, tsVars>> => OneLoop'
  <1> SUFFICES ASSUME OneLoop, [MCNext]_<<sdk, vars, goVars, tsVars>> PROVE OneLoop'
    OBVIOUS
  <1>a. UNCHANGED clientVars => (RustIdle => RustIdle')
    BY DEF clientVars, RustIdle
  <1>b. UNCHANGED goVars => (GoIdle => GoIdle')
    BY DEF goVars, GoIdle, Go!Pending
  <1>c. UNCHANGED tsVars => (TsIdle => TsIdle')
    BY DEF tsVars, TsIdle, Ts!Pending
  <1>1. CASE sdk = "rust" /\ Next /\ UNCHANGED <<sdk, goVars, tsVars>>
    BY <1>1, <1>b, <1>c, RustNext DEF OneLoop
  <1>2. CASE sdk = "go" /\ Go!Next /\ UNCHANGED <<sdk, clientVars, tsVars>>
    BY <1>2, <1>a, <1>c, GoNext DEF OneLoop
  <1>3. CASE sdk = "ts" /\ Ts!Next /\ UNCHANGED <<sdk, clientVars, goVars>>
    BY <1>3, <1>a, <1>b, TsNext DEF OneLoop
  <1>4. CASE UNCHANGED <<sdk, vars, goVars, tsVars>>
    <2>1. UNCHANGED <<sdk, clientVars, goVars, tsVars>> /\ UNCHANGED vars
      BY <1>4 DEF vars
    <2>2. UNCHANGED Go!vars /\ UNCHANGED Ts!vars
      BY <1>4 DEF vars, goVars, tsVars, serverVars, Go!vars, Go!clientVars, Go!serverVars,
                  Ts!vars, Ts!clientVars, Ts!serverVars
    <2> QED  BY <2>1, <2>2, <1>a, <1>b, <1>c, RustNext, GoNext, TsNext DEF OneLoop
  <1> QED  BY <1>1, <1>2, <1>3, <1>4 DEF MCNext

(* The loop of the chosen SDK keeps its invariant, the others stay idle. *)
THEOREM LoopInvariance == MCSpec => []OneLoop
  BY OneLoopInit, OneLoopNext, PTL DEF MCSpec

(* The types of the server's variables, as each loop states them. *)
ServerBounds ==
  /\ wire \subseteq Messages /\ reply \subseteq Replies
  /\ seen \subseteq {Key} /\ executed \in 0 .. MaxRetries + 1

(* In each SDK the caller and its telemetry are told what happened at the  *)
(* server, for every number of retries.                                    *)
THEOREM SuccessIsHonest == MCSpec => []HonestSuccess
  <1>1. OneLoop => HonestSuccess
    <2> SUFFICES ASSUME OneLoop PROVE HonestSuccess
      OBVIOUS
    <2>1. ServerBounds
      BY RustBounds, GoBounds, TsBounds
         DEF OneLoop, ServerBounds, Messages, Replies, TypeOK, Go!TypeOK, Ts!TypeOK
    <2>2. 0 \in 0 .. MaxRetries /\ 0 \in 0 .. MaxRetries + 1
      BY MaxRetriesAssumption
    <2>3. TypeOK /\ OkMeansExecuted
      <3>1. CASE sdk = "rust"
        BY <3>1, RustBounds DEF OneLoop, RustIInv
      <3>2. CASE sdk # "rust"
        <4>1. RustIdle
          BY <3>2 DEF OneLoop
        <4>2. metrics \in [{"requests", "ended", "errors", "retries"} -> 0 .. MaxRetries + 1]
          BY <2>2, <4>1 DEF RustIdle
        <4>3. idempotency \in BOOLEAN
          BY <4>1 DEF RustIdle
        <4>4. TypeOK
          BY <2>1, <2>2, <4>1, <4>2, <4>3
             DEF RustIdle, ServerBounds, Messages, Replies, TypeOK, Methods
        <4> QED  BY <4>1, <4>4 DEF RustIdle, OkMeansExecuted, Pending
      <3> QED  BY <3>1, <3>2
    <2>4. Go!TypeOK /\ Go!OkMeansExecuted /\ Go!AtMostOnce /\ Go!NoReplayAfterAnswer
      <3>1. CASE sdk = "go"
        BY <3>1, GoBounds DEF OneLoop, GoIInv
      <3>2. CASE sdk # "go"
        <4>1. GoIdle
          BY <3>2 DEF OneLoop
        <4>2. goIdempotency \in BOOLEAN /\ {goCtxDone, goTimeoutText} \subseteq BOOLEAN
          BY <4>1 DEF GoIdle
        <4>3. Go!TypeOK
          BY <2>1, <2>2, <4>1, <4>2
             DEF GoIdle, ServerBounds, Messages, Replies, Go!TypeOK, Go!Methods
        <4> QED  BY <4>1, <4>3 DEF GoIdle, Go!OkMeansExecuted, Go!AtMostOnce,
                                   Go!NoReplayAfterAnswer, Go!Pending
      <3> QED  BY <3>1, <3>2
    <2>5. Ts!TypeOK /\ Ts!OkMeansExecuted /\ Ts!UnretriedAtMostOnce /\ Ts!HooksBalanced
      <3>1. CASE sdk = "ts"
        BY <3>1, TsBounds DEF OneLoop, TsIInv
      <3>2. CASE sdk # "ts"
        <4>1. TsIdle
          BY <3>2 DEF OneLoop
        <4>2. {tsRetryable, tsIdempotency, tsAborted, tsLinked} \subseteq BOOLEAN
          BY <4>1 DEF TsIdle
        <4>3. tsHooks \in [{"start", "end", "error", "retry"} -> 0 .. MaxRetries + 1]
          BY <2>2, <4>1 DEF TsIdle
        <4>4. Ts!TypeOK
          BY <2>1, <2>2, <4>1, <4>2, <4>3
             DEF TsIdle, ServerBounds, Messages, Replies, Ts!TypeOK, Ts!Methods
        <4> QED  BY <4>1, <4>4 DEF TsIdle, Ts!OkMeansExecuted, Ts!UnretriedAtMostOnce,
                                   Ts!HooksBalanced, Ts!Outcomes, Ts!Unreported, Ts!Pending
      <3> QED  BY <3>1, <3>2
    <2> QED  BY <2>3, <2>4, <2>5 DEF HonestSuccess
  <1> QED  BY <1>1, LoopInvariance, PTL
==============================================================================
