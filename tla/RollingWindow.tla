--------------------------- MODULE RollingWindow ----------------------------
(***************************************************************************)
(* What a sliding-window limiter promises: "at most maxRequests within any *)
(* rolling window".  Time is kept relative to the present: an admission is *)
(* its age in ticks, and one that is Window old has left the window.       *)
(***************************************************************************)
EXTENDS Naturals, Sequences

CONSTANTS MaxRequests,   \* requests per window
          Window         \* length of the window in ticks

VARIABLE recent          \* ages of the admissions still in the window

(* How many of the ages, which stand in the order of admission and so the  *)
(* oldest first, have left the window, and those that have not.            *)
Departed(ages) ==
    CHOOSE n \in 0 .. Len(ages) :
        \A i \in DOMAIN ages : i <= n <=> ages[i] >= Window

Inside(ages) == SubSeq(ages, Departed(ages) + 1, Len(ages))

(* The window a tick later. *)
Aged(ages) == Inside([i \in DOMAIN ages |-> ages[i] + 1])

Init == recent = << >>

Admit ==
    /\ Len(recent) < MaxRequests
    /\ recent' = Append(recent, 0)

Tick == recent' = Aged(recent)

Next == Admit \/ Tick

Spec == Init /\ [][Next]_recent
=============================================================================
