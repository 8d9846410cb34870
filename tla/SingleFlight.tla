---------------------------- MODULE SingleFlight ----------------------------
(***************************************************************************)
(* What request deduplication promises: a call for a key with no flight    *)
(* starts one, a call for a key whose flight is still listed rides along,  *)
(* and everybody aboard gets the outcome the flight lands with.            *)
(***************************************************************************)
CONSTANTS Callers,    \* concurrent calls of the client
          Keys,       \* method and URL of a request
          Outcomes,   \* what a request can end with
          Nothing     \* no flight, no call, no outcome yet

VARIABLES flight,     \* flight[k]: Nothing, "open", or the outcome it landed with
          call        \* call[c]: Nothing, or the key and what the call got

Aboard(k) == {c \in Callers : call[c] # Nothing /\ call[c].key = k}

Init ==
    /\ flight = [k \in Keys |-> Nothing]
    /\ call = [c \in Callers |-> Nothing]

Lead(c, k) ==
    /\ call[c] = Nothing
    /\ flight[k] = Nothing
    /\ flight' = [flight EXCEPT ![k] = "open"]
    /\ call' = [call EXCEPT ![c] = [key |-> k, got |-> Nothing]]

(* A flight that has landed and is still listed may be joined too. *)
Join(c, k) ==
    /\ call[c] = Nothing
    /\ flight[k] # Nothing
    /\ call' = [call EXCEPT ![c] =
                  [key |-> k, got |-> IF flight[k] = "open" THEN Nothing ELSE flight[k]]]
    /\ UNCHANGED flight

Land(k, o) ==
    /\ flight[k] = "open"
    /\ flight' = [flight EXCEPT ![k] = o]
    /\ call' = [c \in Callers |->
                  IF c \in Aboard(k) /\ call[c].got = Nothing
                  THEN [key |-> k, got |-> o] ELSE call[c]]

Retire(k) ==
    /\ flight[k] \in Outcomes
    /\ flight' = [flight EXCEPT ![k] = Nothing]
    /\ UNCHANGED call

Leave(c) ==
    /\ call[c] # Nothing
    /\ call[c].got # Nothing
    /\ call' = [call EXCEPT ![c] = Nothing]
    /\ UNCHANGED flight

Next == \/ \E c \in Callers, k \in Keys : Lead(c, k) \/ Join(c, k)
        \/ \E k \in Keys : Retire(k) \/ \E o \in Outcomes : Land(k, o)
        \/ \E c \in Callers : Leave(c)

Spec == Init /\ [][Next]_<<flight, call>>
=============================================================================
