------------------------------ MODULE GoDedup -------------------------------
(***************************************************************************)
(* dedup.go of a generated Go SDK: RequestDeduper.Do.  A call object with  *)
(* a WaitGroup stands for the flight; the leader publishes the outcome,    *)
(* counts the WaitGroup down, and only then locks the map again to delete  *)
(* the entry, so a call may still join a flight that has landed.           *)
(***************************************************************************)
EXTENDS Naturals, FiniteSets

CONSTANTS Callers,    \* goroutines that share one client
          Keys,       \* method + " " + url
          Outcomes,   \* (data, status, err) triples that fn returns
          Nothing

(* Call objects: one per leader, reused once nobody points to it. *)
Calls == 1 .. Cardinality(Callers)

VARIABLES inflight,   \* d.inflight: key -> call object
          outcome,    \* outcome[f]: data, status and err of call object f
          done,       \* done[f]: its WaitGroup is at zero
          pc,         \* pc[g]: where goroutine g stands
          key,        \* key[g]: the key it calls Do with
          ride,       \* ride[g]: the call object it leads or waits for
          result      \* result[g]: what its Do returns

vars == <<inflight, outcome, done, pc, key, ride, result>>

PcStates == {"idle", "running", "publishing", "deleting", "waiting", "returned"}

Init ==
    /\ inflight = [k \in Keys |-> Nothing]
    /\ outcome = [f \in Calls |-> Nothing]
    /\ done = [f \in Calls |-> FALSE]
    /\ pc = [g \in Callers |-> "idle"]
    /\ key = [g \in Callers |-> Nothing]
    /\ ride = [g \in Callers |-> Nothing]
    /\ result = [g \in Callers |-> Nothing]

Fresh == CHOOSE f \in Calls : \A g \in Callers : ride[g] # f

(* Do, up to the first Unlock: the key is in flight, wait for its leader. *)
Join(g, k) ==
    /\ pc[g] = "idle"
    /\ inflight[k] # Nothing
    /\ pc' = [pc EXCEPT ![g] = "waiting"]
    /\ key' = [key EXCEPT ![g] = k]
    /\ ride' = [ride EXCEPT ![g] = inflight[k]]
    /\ UNCHANGED <<inflight, outcome, done, result>>

(* Do, up to the second Unlock: register a new call object and run fn. *)
Lead(g, k) ==
    /\ pc[g] = "idle"
    /\ inflight[k] = Nothing
    /\ inflight' = [inflight EXCEPT ![k] = Fresh]
    /\ outcome' = [outcome EXCEPT ![Fresh] = Nothing]
    /\ done' = [done EXCEPT ![Fresh] = FALSE]
    /\ pc' = [pc EXCEPT ![g] = "running"]
    /\ key' = [key EXCEPT ![g] = k]
    /\ ride' = [ride EXCEPT ![g] = Fresh]
    /\ UNCHANGED result

(* Faulty order: wg.Done() before the outcome is stored. *)
FinishDoneFirst(g, o) ==
    /\ pc[g] = "running"
    /\ result' = [result EXCEPT ![g] = o]
    /\ done' = [done EXCEPT ![ride[g]] = TRUE]
    /\ pc' = [pc EXCEPT ![g] = "publishing"]
    /\ UNCHANGED <<inflight, outcome, key, ride>>

(* fn() returns; c.data, c.status, c.err are stored. *)
Finish(g, o) ==
    /\ pc[g] = "running"
    /\ result' = [result EXCEPT ![g] = o]
    /\ outcome' = [outcome EXCEPT ![ride[g]] = o]
    /\ pc' = [pc EXCEPT ![g] = "publishing"]
    /\ UNCHANGED <<inflight, done, key, ride>>

(* c.wg.Done() *)
Publish(g) ==
    /\ pc[g] = "publishing"
    /\ done' = [done EXCEPT ![ride[g]] = TRUE]
    /\ pc' = [pc EXCEPT ![g] = "deleting"]
    /\ UNCHANGED <<inflight, outcome, key, ride, result>>

(* d.mu.Lock(); delete(d.inflight, key); d.mu.Unlock(); return *)
Delete(g) ==
    /\ pc[g] = "deleting"
    /\ inflight' = [inflight EXCEPT ![key[g]] = Nothing]
    /\ pc' = [pc EXCEPT ![g] = "returned"]
    /\ UNCHANGED <<outcome, done, key, ride, result>>

(* c.wg.Wait() returns; the call object's fields are read. *)
WaitDone(g) ==
    /\ pc[g] = "waiting"
    /\ done[ride[g]]
    /\ result' = [result EXCEPT ![g] = outcome[ride[g]]]
    /\ pc' = [pc EXCEPT ![g] = "returned"]
    /\ UNCHANGED <<inflight, outcome, done, key, ride>>

(* The caller of Do goes on and drops its pointers; a call object nobody   *)
(* points to is garbage.                                                   *)
Leave(g) ==
    LET kept == {ride[h] : h \in Callers \ {g}}
    IN  /\ pc[g] = "returned"
        /\ pc' = [pc EXCEPT ![g] = "idle"]
        /\ key' = [key EXCEPT ![g] = Nothing]
        /\ ride' = [ride EXCEPT ![g] = Nothing]
        /\ result' = [result EXCEPT ![g] = Nothing]
        /\ outcome' = [f \in Calls |-> IF f \in kept THEN outcome[f] ELSE Nothing]
        /\ done' = [f \in Calls |-> f \in kept /\ done[f]]
        /\ UNCHANGED inflight

Next == \E g \in Callers :
            \/ \E k \in Keys : Join(g, k) \/ Lead(g, k)
            \/ \E o \in Outcomes : Finish(g, o)
            \/ Publish(g) \/ Delete(g) \/ WaitDone(g) \/ Leave(g)

Spec == Init /\ [][Next]_vars

(* Goroutines are scheduled, and fn returns: every attempt has a timeout   *)
(* and the retries are bounded.                                            *)
Fairness == \A g \in Callers :
                /\ WF_vars(\E o \in Outcomes : Finish(g, o))
                /\ WF_vars(Publish(g)) /\ WF_vars(Delete(g)) /\ WF_vars(WaitDone(g))

FairSpec == Spec /\ Fairness

-----------------------------------------------------------------------------
(* Type invariant. *)
TypeOK ==
    /\ inflight \in [Keys -> Calls \cup {Nothing}]
    /\ outcome \in [Calls -> Outcomes \cup {Nothing}]
    /\ done \in [Calls -> BOOLEAN]
    /\ pc \in [Callers -> PcStates]
    /\ key \in [Callers -> Keys \cup {Nothing}]
    /\ ride \in [Callers -> Calls \cup {Nothing}]
    /\ result \in [Callers -> Outcomes \cup {Nothing}]

Leading(g) == pc[g] \in {"running", "publishing", "deleting"}

(* The map lists exactly the flights whose leader is still inside Do:      *)
(* there is one leader per key, no entry outlives its leader, and no       *)
(* leader deletes the entry of another.                                    *)
MapExact ==
    /\ \A g \in Callers : Leading(g) => inflight[key[g]] = ride[g]
    /\ \A k \in Keys : inflight[k] # Nothing =>
            \E g \in Callers : Leading(g) /\ key[g] = k

(* A call that waits eventually returns. *)
EveryCallReturns ==
    \A g \in Callers : pc[g] \in {"running", "waiting"} ~> pc[g] = "returned"

(* A goroutine's call as the abstract specification sees it: the outcome   *)
(* counts from the moment the WaitGroup reaches zero.                      *)
FlightOf(f) == IF done[f] THEN outcome[f] ELSE "open"
GotOf(g) == IF pc[g] = "returned" THEN result[g]
            ELSE IF done[ride[g]] THEN outcome[ride[g]] ELSE Nothing
Flight == [k \in Keys |-> IF inflight[k] = Nothing THEN Nothing
                          ELSE FlightOf(inflight[k])]
Riding == [g \in Callers |-> IF pc[g] = "idle" THEN Nothing
                             ELSE [key |-> key[g], got |-> GotOf(g)]]

(* The deduper implements the single flight: whoever rode along returns    *)
(* the outcome its flight landed with, late joiners included.              *)
Abs == INSTANCE SingleFlight WITH flight <- Flight, call <- Riding
ImplementsSingleFlight == Abs!Spec
=============================================================================
