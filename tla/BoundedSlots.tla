---------------------------- MODULE BoundedSlots ----------------------------
(***************************************************************************)
(* What every generated concurrency gate promises, whatever its language:  *)
(* a caller that asks for a slot waits until it holds one, at most Max     *)
(* callers hold a slot at a time, and a slot that is given back may be     *)
(* handed to waiting callers in the same step.                             *)
(***************************************************************************)
EXTENDS Naturals, FiniteSets

CONSTANTS Callers,  \* the calls of request() / DoJSON() that share one client
          Max       \* maxConcurrent

VARIABLE phase      \* phase[c]: "idle", "waiting" or "holding"

Phases == {"idle", "waiting", "holding"}

In(p) == {c \in Callers : phase[c] = p}

Init == phase = [c \in Callers |-> "idle"]

(* A caller queues up. *)
Ask(c) ==
    /\ phase[c] = "idle"
    /\ phase' = [phase EXCEPT ![c] = "waiting"]

(* A caller gets a slot, at once or after waiting. *)
Enter(c) ==
    /\ phase[c] # "holding"
    /\ Cardinality(In("holding")) < Max
    /\ phase' = [phase EXCEPT ![c] = "holding"]

(* A holder gives its slot back; some of the waiting callers, as many as   *)
(* fit, get theirs in the same step.                                       *)
Leave(c, next) ==
    /\ phase[c] = "holding"
    /\ next \subseteq In("waiting")
    /\ Cardinality((In("holding") \ {c}) \cup next) <= Max
    /\ phase' = [d \in Callers |-> IF d = c THEN "idle"
                                   ELSE IF d \in next THEN "holding"
                                   ELSE phase[d]]

(* A waiting caller gives up (its context is cancelled). *)
GiveUp(c) ==
    /\ phase[c] = "waiting"
    /\ phase' = [phase EXCEPT ![c] = "idle"]

Next == \E c \in Callers :
            \/ Ask(c)
            \/ Enter(c)
            \/ \E next \in SUBSET Callers : Leave(c, next)
            \/ GiveUp(c)

Spec == Init /\ [][Next]_phase
=============================================================================
