------------------------------ MODULE TsDedup -------------------------------
(***************************************************************************)
(* dedup.ts of a generated TypeScript SDK: RequestDeduper.dedupe for the   *)
(* safe methods.  The flight is a promise: run() settles, its body is      *)
(* buffered, finally() deletes the entry, and every caller that shares the *)
(* promise then builds a Response of its own from the buffer.  Callbacks   *)
(* run one at a time; each is one step.                                    *)
(***************************************************************************)
EXTENDS Naturals, FiniteSets

CONSTANTS Callers,      \* async calls that share one ApiClient
          Keys,         \* `${method} ${url}`
          Bodied,       \* responses whose status may have a body
          NullBody,     \* responses with a null body status: 204, 205, 304
          Errors,       \* rejections of run()
          TypeError,    \* thrown by the Response constructor
          Nothing

Outcomes == Bodied \cup NullBody \cup Errors

(* Promises: one per flight, reused once nobody waits for it. *)
Promises == 1 .. Cardinality(Callers)

VARIABLES inFlight,   \* this.inFlight: key -> promise
          settled,    \* settled[p]: the outcome of run() and the buffering
          resolved,   \* resolved[p]: finally() has run, p itself is settled
          pc,         \* pc[c]: "idle", "waiting" (for its promise), "returned"
          key,        \* key[c]: the key it called dedupe with
          ride,       \* ride[c]: the promise it shares
          result      \* result[c]: what its own promise settles with

vars == <<inFlight, settled, resolved, pc, key, ride, result>>

Init ==
    /\ inFlight = [k \in Keys |-> Nothing]
    /\ settled = [p \in Promises |-> Nothing]
    /\ resolved = [p \in Promises |-> FALSE]
    /\ pc = [c \in Callers |-> "idle"]
    /\ key = [c \in Callers |-> Nothing]
    /\ ride = [c \in Callers |-> Nothing]
    /\ result = [c \in Callers |-> Nothing]

Fresh == CHOOSE p \in Promises : \A c \in Callers : ride[c] # p

(* dedupe(): share the promise of the key, or start run() and list it. *)
Dedupe(c, k) ==
    /\ pc[c] = "idle"
    /\ pc' = [pc EXCEPT ![c] = "waiting"]
    /\ key' = [key EXCEPT ![c] = k]
    /\ IF inFlight[k] # Nothing
       THEN /\ ride' = [ride EXCEPT ![c] = inFlight[k]]
            /\ UNCHANGED <<inFlight, settled, resolved>>
       ELSE /\ ride' = [ride EXCEPT ![c] = Fresh]
            /\ inFlight' = [inFlight EXCEPT ![k] = Fresh]
            /\ settled' = [settled EXCEPT ![Fresh] = Nothing]
            /\ resolved' = [resolved EXCEPT ![Fresh] = FALSE]
    /\ UNCHANGED result

(* run() settles, and with a response the body is read into the buffer. *)
Settle(k, o) ==
    /\ inFlight[k] # Nothing
    /\ settled[inFlight[k]] = Nothing
    /\ settled' = [settled EXCEPT ![inFlight[k]] = o]
    /\ UNCHANGED <<inFlight, resolved, pc, key, ride, result>>

(* Faulty finally: it returns a promise that never settles, so neither     *)
(* does the shared one.                                                    *)
FinallyHangs(k) ==
    /\ inFlight[k] # Nothing
    /\ settled[inFlight[k]] # Nothing
    /\ UNCHANGED vars

(* finally(() => this.inFlight.delete(key)), then the shared promise settles. *)
Finally(k) ==
    /\ inFlight[k] # Nothing
    /\ settled[inFlight[k]] # Nothing
    /\ inFlight' = [inFlight EXCEPT ![k] = Nothing]
    /\ resolved' = [resolved EXCEPT ![inFlight[k]] = TRUE]
    /\ UNCHANGED <<settled, pc, key, ride, result>>

(* new Response(parts.body.slice(0), { status }): the Fetch standard lets  *)
(* a response with a null body status have no body, not even an empty one. *)
Rebuild(o) == IF o \in NullBody THEN TypeError ELSE o

(* The then() of one caller. *)
Deliver(c) ==
    /\ pc[c] = "waiting"
    /\ resolved[ride[c]]
    /\ result' = [result EXCEPT ![c] = Rebuild(settled[ride[c]])]
    /\ pc' = [pc EXCEPT ![c] = "returned"]
    /\ UNCHANGED <<inFlight, settled, resolved, key, ride>>

(* The caller goes on; a promise nobody waits for is garbage. *)
Leave(c) ==
    LET kept == {ride[d] : d \in Callers \ {c}}
    IN  /\ pc[c] = "returned"
        /\ pc' = [pc EXCEPT ![c] = "idle"]
        /\ key' = [key EXCEPT ![c] = Nothing]
        /\ ride' = [ride EXCEPT ![c] = Nothing]
        /\ result' = [result EXCEPT ![c] = Nothing]
        /\ settled' = [p \in Promises |-> IF p \in kept THEN settled[p] ELSE Nothing]
        /\ resolved' = [p \in Promises |-> p \in kept /\ resolved[p]]
        /\ UNCHANGED inFlight

Next == \/ \E c \in Callers : Deliver(c) \/ Leave(c) \/ \E k \in Keys : Dedupe(c, k)
        \/ \E k \in Keys : Finally(k) \/ \E o \in Outcomes : Settle(k, o)

Spec == Init /\ [][Next]_vars

(* The microtask queue runs every reaction; run() settles, because every   *)
(* attempt has a timeout, and so does the reading of a finite body.        *)
Fairness == /\ \A k \in Keys : /\ WF_vars(\E o \in Outcomes : Settle(k, o))
                               /\ WF_vars(Finally(k))
            /\ \A c \in Callers : WF_vars(Deliver(c))

FairSpec == Spec /\ Fairness

-----------------------------------------------------------------------------
(* Type invariant. *)
TypeOK ==
    /\ inFlight \in [Keys -> Promises \cup {Nothing}]
    /\ settled \in [Promises -> Outcomes \cup {Nothing}]
    /\ resolved \in [Promises -> BOOLEAN]
    /\ pc \in [Callers -> {"idle", "waiting", "returned"}]
    /\ key \in [Callers -> Keys \cup {Nothing}]
    /\ ride \in [Callers -> Promises \cup {Nothing}]
    /\ result \in [Callers -> Outcomes \cup {TypeError, Nothing}]

(* Every call of dedupe settles. *)
EveryCallSettles == \A c \in Callers : pc[c] = "waiting" ~> pc[c] = "returned"

(* No promise is listed once it is settled: a call never joins a flight    *)
(* that others have already been told about.                               *)
ListedIsOpen == \A k \in Keys : inFlight[k] # Nothing => ~resolved[inFlight[k]]

(* A flight and a call as the abstract specification sees them: what       *)
(* counts is what the callers are given.                                   *)
Flight == [k \in Keys |-> IF inFlight[k] = Nothing THEN Nothing
                          ELSE IF settled[inFlight[k]] = Nothing THEN "open"
                          ELSE Rebuild(settled[inFlight[k]])]
Riding == [c \in Callers |->
             IF pc[c] = "idle" THEN Nothing
             ELSE [key |-> key[c], got |-> IF pc[c] = "returned" THEN result[c]
                                          ELSE Rebuild(settled[ride[c]])]]

(* With what the callers see the deduper implements the single flight: it  *)
(* lands when its shared promise settles, and with a null body status it   *)
(* lands as the TypeError that rebuilding the response throws.             *)
Abs == INSTANCE SingleFlight WITH
          Outcomes <- Bodied \cup Errors \cup {TypeError},
          flight <- Flight, call <- Riding
ImplementsSingleFlight == Abs!Spec
=============================================================================
