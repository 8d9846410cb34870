----------------------------- MODULE ApiServer ------------------------------
(***************************************************************************)
(* The remote API and the network, as the retry loops of the generated     *)
(* clients meet them (external to the repository).  An attempt travels to  *)
(* the server, which may run it long after the client gave up on it; the   *)
(* server runs a request whose Idempotency-Key it has seen only once.  A   *)
(* request without a key runs every time.                                  *)
(***************************************************************************)
EXTENDS Naturals

CONSTANT NoKey      \* the request has no Idempotency-Key header

VARIABLES wire,     \* attempts on their way: [attempt, key]
          reply,    \* answers on their way back: [attempt, status]
          seen,     \* keys of the requests the server ran
          executed  \* how often the server ran the request

serverVars == <<wire, reply, seen, executed>>

ServerInit ==
    /\ wire = {}
    /\ reply = {}
    /\ seen = {}
    /\ executed = 0

(* The client's transport hands an attempt to the network. *)
Post(a, k) ==
    /\ wire' = wire \cup {[attempt |-> a, key |-> k]}
    /\ UNCHANGED <<reply, seen, executed>>

(* The server runs the request, or finds its key and replays the answer. A *)
(* gateway in between may turn the answer into one of the retried statuses. *)
Serve(m) ==
    /\ m \in wire
    /\ wire' = wire \ {m}
    /\ executed' = IF m.key \in seen THEN executed ELSE executed + 1
    /\ seen' = seen \cup ({m.key} \ {NoKey})
    /\ \E s \in {"ok", "busy"} :
            reply' = reply \cup {[attempt |-> m.attempt, status |-> s]}

(* The server or a gateway refuses the request without running it: "busy"  *)
(* is one of 408, 429, 502, 503, 504, "bad" any other error status.        *)
Refuse(m) ==
    /\ m \in wire
    /\ wire' = wire \ {m}
    /\ \E s \in {"busy", "bad"} :
            reply' = reply \cup {[attempt |-> m.attempt, status |-> s]}
    /\ UNCHANGED <<seen, executed>>

(* The request is lost. *)
Lose(m) ==
    /\ m \in wire
    /\ wire' = wire \ {m}
    /\ UNCHANGED <<reply, seen, executed>>

ServerNext == \E m \in wire : Serve(m) \/ Refuse(m) \/ Lose(m)

Answered(a, s) == [attempt |-> a, status |-> s] \in reply
=============================================================================
