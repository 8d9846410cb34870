-------------------------- MODULE AdmissionProofs ---------------------------
(***************************************************************************)
(* Proofs about what a call passes before its request is sent, for every   *)
(* set of callers and every limit, window and rate: the gates are exact    *)
(* and implement BoundedSlots, the limiters are exact, and the Rust and    *)
(* the Go window implement RollingWindow.                                  *)
(***************************************************************************)
EXTENDS MCAdmission, TLAPS, FiniteSetTheorems, SequenceTheorems, WellFoundedInduction

-----------------------------------------------------------------------------
(* The TypeScript gate.  AtMostMax is not inductive: release hands out     *)
(* max - active slots, so the proof must know that the counter is the      *)
(* number of holders (CountExact), which needs that the queue names        *)
(* distinct calls and only calls that wait (QueueExact).  Inv is the       *)
(* conjunction.                                                            *)

(* The wake-up loop of release, started with n slots taken, wakes no more  *)
(* calls than there are waiters, and stops at the limit.                   *)
LEMMA WakeCountBounds ==
    ASSUME TypeOK, NEW n \in Nat
    PROVE  /\ WakeCount(n) \in 0 .. Len(waiters)
           /\ n <= MaxConcurrent => n + WakeCount(n) <= MaxConcurrent
           /\ (n < MaxConcurrent /\ WakeCount(n) < Len(waiters))
                => n + WakeCount(n) = MaxConcurrent
  BY MaxConcurrentAssumption DEF TypeOK, WakeCount

(* The calls the loop wakes are as many as it counts, and they all waited. *)
LEMMA WokenProperties ==
    ASSUME TypeOK, QueueExact, NEW n \in Nat
    PROVE  /\ Woken(n) \subseteq Waiting
           /\ IsFiniteSet(Woken(n))
           /\ Cardinality(Woken(n)) = WakeCount(n)
  <1> DEFINE k == WakeCount(n)
             f == [i \in 1 .. k |-> waiters[i]]
  <1>1. k \in Nat /\ 1 .. k \subseteq DOMAIN waiters
    BY WakeCountBounds DEF TypeOK
  <1>2. Woken(n) \subseteq Waiting
    BY <1>1 DEF Woken, QueueExact
  <1>3. f \in Bijection(1 .. k, Woken(n))
    <2>1. f \in [1 .. k -> Woken(n)]
      BY DEF Woken
    <2>2. \A i, j \in 1 .. k : f[i] = f[j] => i = j
      BY <1>1 DEF QueueExact
    <2>3. \A w \in Woken(n) : \E i \in 1 .. k : f[i] = w
      BY DEF Woken
    <2> QED  BY <2>1, <2>2, <2>3 DEF Bijection, Injection, Surjection, IsInjective
  <1>4. IsFiniteSet(1 .. k) /\ Cardinality(1 .. k) = k
    BY <1>1, FS_Interval
  <1>5. ExistsBijection(1 .. k, Woken(n))
    BY <1>3 DEF ExistsBijection
  <1>6. IsFiniteSet(Woken(n)) /\ Cardinality(Woken(n)) = k
    BY <1>4, <1>5, FS_Bijection
  <1> QED  BY <1>2, <1>6

(* Any set of callers is finite, as the callers are. *)
LEMMA CallerSetsFinite ==
    ASSUME NEW S \in SUBSET Callers
    PROVE  IsFiniteSet(S) /\ Cardinality(S) \in Nat
  BY CallersAssumption, FS_Subset, FS_CardinalityType

LEMMA InitInv == Init => Inv
  <1> SUFFICES ASSUME Init PROVE Inv
    OBVIOUS
  <1>1. TypeOK
    BY DEF Init, TypeOK, PcStates
  <1>2. Holders = {} /\ Waiting = {}
    BY DEF Init, Holders, Waiting
  <1>3. CountExact /\ AtMostMax
    BY <1>2, FS_EmptySet, MaxConcurrentAssumption DEF Init, CountExact, AtMostMax
  <1>4. NoIdleSlot /\ QueueExact
    BY <1>2 DEF Init, NoIdleSlot, QueueExact
  <1> QED  BY <1>1, <1>3, <1>4 DEF Inv

(* acquire() keeps the invariant: it takes a slot that is free, or adds a  *)
(* call that was not queued to the queue.                                  *)
LEMMA AcquireInv ==
    ASSUME Inv, NEW c \in Callers, Acquire(c)
    PROVE  Inv'
  <1> USE DEF Inv
  <1>1. CASE active < MaxConcurrent
    <2>1. /\ active' = active + 1
          /\ pc' = [pc EXCEPT ![c] = "granted"]
          /\ waiters' = waiters
      BY <1>1 DEF Acquire
    <2>2. TypeOK'
      BY <2>1 DEF TypeOK, PcStates
    <2>3. Holders' = Holders \cup {c} /\ c \notin Holders /\ Waiting' = Waiting
      BY <2>1 DEF Acquire, Holders, Waiting, TypeOK
    <2>4. Cardinality(Holders') = active + 1
      <3>1. IsFiniteSet(Holders)
        BY CallerSetsFinite DEF Holders
      <3> QED  BY <2>3, <3>1, FS_AddElement DEF CountExact
    <2>5. CountExact' /\ AtMostMax'
      BY <1>1, <2>1, <2>4, MaxConcurrentAssumption DEF CountExact, AtMostMax, TypeOK
    <2>6. NoIdleSlot'
      BY <1>1, <2>1, MaxConcurrentAssumption DEF NoIdleSlot, TypeOK
    <2>7. QueueExact'
      BY <2>1, <2>3 DEF QueueExact
    <2> QED  BY <2>2, <2>5, <2>6, <2>7
  <1>2. CASE ~(active < MaxConcurrent)
    <2>1. /\ active' = active
          /\ pc' = [pc EXCEPT ![c] = "waiting"]
          /\ waiters' = Append(waiters, c)
      BY <1>2 DEF Acquire
    <2>2. TypeOK'
      BY <2>1 DEF TypeOK, PcStates
    <2>3. Holders' = Holders /\ Waiting' = Waiting \cup {c} /\ c \notin Waiting
      BY <2>1 DEF Acquire, Holders, Waiting, TypeOK
    <2>4. CountExact' /\ AtMostMax'
      BY <2>1, <2>3 DEF CountExact, AtMostMax
    <2>5. NoIdleSlot'
      BY <1>2, <2>1, MaxConcurrentAssumption
      DEF NoIdleSlot, TypeOK, CountExact, AtMostMax
    <2>6. QueueExact'
      <3> DEFINE n == Len(waiters)
      <3>1. /\ n \in Nat /\ DOMAIN waiters = 1 .. n
            /\ DOMAIN waiters' = 1 .. n + 1
            /\ \A i \in 1 .. n : waiters'[i] = waiters[i]
            /\ waiters'[n + 1] = c
        BY <2>1 DEF TypeOK
      <3>2. \A i \in 1 .. n : waiters[i] # c
        BY <2>3, <3>1 DEF QueueExact
      <3>3. {waiters'[i] : i \in DOMAIN waiters'}
              = {waiters[i] : i \in DOMAIN waiters} \cup {c}
        BY <3>1
      <3>4. \A i, j \in DOMAIN waiters' : waiters'[i] = waiters'[j] => i = j
        BY <3>1, <3>2 DEF QueueExact
      <3>5. Waiting' = {waiters'[i] : i \in DOMAIN waiters'}
        BY <2>3, <3>3 DEF QueueExact
      <3> QED  BY <3>4, <3>5 DEF QueueExact
    <2> QED  BY <2>2, <2>4, <2>5, <2>6
  <1> QED  BY <1>1, <1>2

(* The continuation of acquire() changes no count and no queue. *)
LEMMA ResumeInv ==
    ASSUME Inv, NEW c \in Callers, Resume(c)
    PROVE  Inv'
  <1>1. /\ active' = active /\ waiters' = waiters
        /\ pc[c] = "granted" /\ pc' = [pc EXCEPT ![c] = "dispatching"]
    BY DEF Resume
  <1>2. TypeOK'
    BY <1>1 DEF Inv, TypeOK, PcStates
  <1>3. Holders' = Holders /\ Waiting' = Waiting
    BY <1>1 DEF Inv, Holders, Waiting, TypeOK
  <1>4. CountExact' /\ AtMostMax' /\ NoIdleSlot' /\ QueueExact'
    BY <1>1, <1>3 DEF Inv, CountExact, AtMostMax, NoIdleSlot, QueueExact
  <1> QED  BY <1>2, <1>4 DEF Inv

(* release() keeps the invariant: its early return is never taken, the     *)
(* slot of the caller and those of the woken calls are counted, and the    *)
(* loop ends with a full gate or an empty queue.                           *)
LEMMA ReleaseInv ==
    ASSUME Inv, NEW c \in Callers, Release(c)
    PROVE  Inv'
  <1> DEFINE n == active - 1
             k == WakeCount(n)
             len == Len(waiters)
  <1>1. c \in Holders /\ c \notin Waiting
    BY DEF Release, Holders, Waiting
  <1>2. IsFiniteSet(Holders) /\ Cardinality(Holders) \in Nat
    BY CallerSetsFinite DEF Holders
  <1>3. active # 0
    BY <1>1, <1>2, FS_EmptySet DEF Inv, CountExact
  <1>4. n \in Nat /\ n < MaxConcurrent
    BY <1>3, MaxConcurrentAssumption DEF Inv, TypeOK, CountExact, AtMostMax
  <1>5. /\ active' = n + k
        /\ waiters' = SubSeq(waiters, k + 1, len)
        /\ pc' = [d \in Callers |-> IF d = c THEN "idle"
                                    ELSE IF d \in Woken(n) THEN "granted"
                                    ELSE pc[d]]
    BY <1>3 DEF Release
  <1>6. /\ k \in 0 .. len
        /\ n + k <= MaxConcurrent
        /\ k < len => n + k = MaxConcurrent
    BY <1>4, WakeCountBounds, MaxConcurrentAssumption DEF Inv
  <1>7. /\ Woken(n) \subseteq Waiting
        /\ IsFiniteSet(Woken(n))
        /\ Cardinality(Woken(n)) = k
    BY <1>4, WokenProperties DEF Inv
  <1>8. /\ len \in Nat /\ DOMAIN waiters = 1 .. len
        /\ waiters' \in Seq(Callers)
        /\ Len(waiters') = len - k
        /\ DOMAIN waiters' = 1 .. len - k
        /\ \A i \in 1 .. len - k : waiters'[i] = waiters[i + k]
    BY <1>5, <1>6 DEF Inv, TypeOK
  <1>9. TypeOK'
    BY <1>4, <1>5, <1>6, <1>8 DEF Inv, TypeOK, PcStates
  <1>10. Holders' = (Holders \ {c}) \cup Woken(n)
    BY <1>1, <1>5, <1>7 DEF Holders, Waiting
  <1>11. Cardinality(Holders') = n + k
    <2>1. IsFiniteSet(Holders \ {c}) /\ Cardinality(Holders \ {c}) = n
      BY <1>1, <1>2, FS_RemoveElement DEF Inv, CountExact
    <2>2. (Holders \ {c}) \cap Woken(n) = {}
      BY <1>7 DEF Holders, Waiting
    <2>3. Cardinality((Holders \ {c}) \cup Woken(n)) = n + k - Cardinality({})
      BY <1>7, <2>1, <2>2, FS_Union
    <2> QED  BY <1>4, <1>6, <1>10, <2>3, FS_EmptySet
  <1>12. CountExact' /\ AtMostMax'
    BY <1>5, <1>6, <1>11 DEF CountExact, AtMostMax
  <1>13. NoIdleSlot'
    <2>1. ASSUME waiters' # << >> PROVE k < len
      BY <1>6, <1>8, <2>1
    <2> QED  BY <1>5, <1>6, <2>1 DEF NoIdleSlot
  <1>14. QueueExact'
    <2>1. Waiting' = Waiting \ Woken(n)
      BY <1>1, <1>5, <1>7 DEF Waiting
    <2>2. {waiters'[i] : i \in DOMAIN waiters'} = {waiters[i] : i \in k + 1 .. len}
      <3>1. ASSUME NEW i \in 1 .. len - k
            PROVE  waiters'[i] \in {waiters[j] : j \in k + 1 .. len}
        BY <1>6, <1>8
      <3>2. ASSUME NEW j \in k + 1 .. len
            PROVE  waiters[j] \in {waiters'[i] : i \in 1 .. len - k}
        <4>1. j - k \in 1 .. len - k /\ (j - k) + k = j
          BY <1>6, <1>8
        <4>2. waiters'[j - k] = waiters[j]
          BY <1>8, <4>1
        <4> QED  BY <4>1, <4>2
      <3> QED  BY <1>8, <3>1, <3>2
    <2>3. {waiters[i] : i \in k + 1 .. len} = Waiting \ Woken(n)
      <3>1. Waiting = {waiters[i] : i \in 1 .. len}
        BY <1>8 DEF Inv, QueueExact
      <3>2. \A i, j \in 1 .. len : waiters[i] = waiters[j] => i = j
        BY <1>8 DEF Inv, QueueExact
      <3>3. Woken(n) = {waiters[i] : i \in 1 .. k}
        BY DEF Woken
      <3> QED  BY <1>6, <1>8, <3>1, <3>2, <3>3
    <2>4. \A i, j \in DOMAIN waiters' : waiters'[i] = waiters'[j] => i = j
      BY <1>6, <1>8 DEF Inv, QueueExact
    <2> QED  BY <2>1, <2>2, <2>3, <2>4 DEF QueueExact
  <1> QED  BY <1>9, <1>12, <1>13, <1>14 DEF Inv

LEMMA NextInv == Inv /\ [Next]_vars => Inv'
  <1> SUFFICES ASSUME Inv, [Next]_vars PROVE Inv'
    OBVIOUS
  <1>1. CASE Next
    BY <1>1, AcquireInv, ResumeInv, ReleaseInv DEF Next
  <1>2. CASE UNCHANGED vars
    BY <1>2 DEF vars, Inv, TypeOK, CountExact, AtMostMax, NoIdleSlot, QueueExact,
                Holders, Waiting
  <1> QED  BY <1>1, <1>2

(* The inductive invariant holds in every reachable state. *)
THEOREM Invariance == Spec => []Inv
  BY InitInv, NextInv, PTL DEF Spec

(* The semaphore's variables keep their types. *)
THEOREM TypeCorrect == Spec => []TypeOK
  <1>1. Inv => TypeOK
    BY DEF Inv
  <1> QED  BY <1>1, Invariance, PTL

(* createSemaphore(max): never more than max requests are between their    *)
(* acquire and their release, for every max and any number of callers.     *)
THEOREM MutualBound == Spec => []AtMostMax
  <1>1. Inv => AtMostMax
    BY DEF Inv
  <1> QED  BY <1>1, Invariance, PTL

(* release(): while a call waits every slot is taken; no wake-up is lost.  *)
THEOREM NoLostWakeup == Spec => []NoIdleSlot
  <1>1. Inv => NoIdleSlot
    BY DEF Inv
  <1> QED  BY <1>1, Invariance, PTL

-----------------------------------------------------------------------------
(* The holders and the waiting calls of the mapped gate are those of the   *)
(* semaphore.                                                              *)
LEMMA MappedSets ==
    ASSUME TypeOK
    PROVE  Slots!In("holding") = Holders /\ Slots!In("waiting") = Waiting
  BY DEF Slots!In, Phase, Holders, Waiting, TypeOK, PcStates

(* The gate counts as the semaphore does. *)
LEMMA SameCardinality == \A S : Slots!Cardinality(S) = Cardinality(S)
  BY DEF Slots!Cardinality, Cardinality

LEMMA InitRefines == Init => Slots!Init
  BY DEF Init, Phase, Slots!Init

LEMMA AcquireRefines ==
    ASSUME Inv, NEW c \in Callers, Acquire(c)
    PROVE  Slots!Next
  <1>1. CASE active < MaxConcurrent
    <2>1. Phase[c] # "holding"
      BY DEF Acquire, Phase
    <2>2. Cardinality(Slots!In("holding")) < MaxConcurrent
      BY <1>1, MappedSets DEF Inv, CountExact
    <2>3. Phase' = [Phase EXCEPT ![c] = "holding"]
      BY <1>1 DEF Acquire, Phase, Inv, TypeOK
    <2>4. Slots!Enter(c)
      BY <2>1, <2>2, <2>3, SameCardinality DEF Slots!Enter
    <2> QED  BY <2>4 DEF Slots!Next
  <1>2. CASE ~(active < MaxConcurrent)
    <2>1. Phase[c] = "idle" /\ Phase' = [Phase EXCEPT ![c] = "waiting"]
      BY <1>2 DEF Acquire, Phase, Inv, TypeOK
    <2>2. Slots!Ask(c)
      BY <2>1 DEF Slots!Ask
    <2> QED  BY <2>2 DEF Slots!Next
  <1> QED  BY <1>1, <1>2

LEMMA ReleaseRefines ==
    ASSUME Inv, Inv', NEW c \in Callers, Release(c)
    PROVE  Slots!Next
  <1> DEFINE n == active - 1
  <1>1. c \in Holders /\ c \notin Waiting
    BY DEF Release, Holders, Waiting
  <1>2. active # 0
    BY <1>1, CallerSetsFinite, FS_EmptySet DEF Inv, CountExact, Holders
  <1>3. pc' = [d \in Callers |-> IF d = c THEN "idle"
                                 ELSE IF d \in Woken(n) THEN "granted"
                                 ELSE pc[d]]
    BY <1>2 DEF Release
  <1>4. n \in Nat
    BY <1>2 DEF Inv, TypeOK
  <1>5. Woken(n) \subseteq Waiting
    BY <1>4, WokenProperties DEF Inv
  <1>6. Holders' = (Holders \ {c}) \cup Woken(n)
    BY <1>1, <1>3, <1>5 DEF Holders, Waiting
  <1>7. Phase[c] = "holding"
    BY DEF Release, Phase
  <1>8. Phase' = [d \in Callers |-> IF d = c THEN "idle"
                                    ELSE IF d \in Woken(n) THEN "holding"
                                    ELSE Phase[d]]
    BY <1>3 DEF Phase
  <1>9. Cardinality((Holders \ {c}) \cup Woken(n)) <= MaxConcurrent
    BY <1>6 DEF Inv, AtMostMax
  <1>10. Slots!Leave(c, Woken(n))
    BY <1>5, <1>7, <1>8, <1>9, MappedSets, SameCardinality DEF Slots!Leave, Inv
  <1>11. Woken(n) \in SUBSET Callers
    BY <1>5 DEF Waiting
  <1> QED  BY <1>10, <1>11 DEF Slots!Next

LEMMA NextRefines == Inv /\ Inv' /\ [Next]_vars => [Slots!Next]_Phase
  <1> SUFFICES ASSUME Inv, Inv', [Next]_vars PROVE [Slots!Next]_Phase
    OBVIOUS
  <1>1. ASSUME NEW c \in Callers, Resume(c) PROVE Phase' = Phase
    BY <1>1 DEF Resume, Phase, Inv, TypeOK
  <1>2. CASE Next
    BY <1>1, <1>2, AcquireRefines, ReleaseRefines DEF Next
  <1>3. CASE UNCHANGED vars
    BY <1>3 DEF vars, Phase
  <1> QED  BY <1>2, <1>3

(* createSemaphore implements the bounded gate that the other runtimes     *)
(* promise too: the refinement, step by step.                              *)
THEOREM Refinement == Spec => ImplementsSlots
  BY Invariance, InitRefines, NextRefines, PTL DEF Spec, ImplementsSlots, Slots!Spec

-----------------------------------------------------------------------------
(* The Go gate.  What a channel holds is exact only while the semaphore    *)
(* that was acquired, the one that will be released and c.sem are one and  *)
(* the same: on a client built with WithMaxConcurrent nobody is about to   *)
(* create another, and whoever holds an element acquired that semaphore.   *)
(* On every client c.sem is set once a goroutine is past the nil test.     *)
GateIInv ==
    /\ GoGate!TypeOK
    /\ \A c \in Goroutines : goPc[c] \notin {"idle", "create"} => goSem # NoSem
    /\ GoGate!NoNilSem
    /\ GoGate!BuiltWithOption =>
          /\ \A c \in Goroutines :
                /\ goPc[c] # "create"
                /\ goPc[c] \in {"acquiring", "acquired", "inflight"} => goAcq[c] = OptionSem
                /\ goPc[c] = "inflight" => goRel[c] = OptionSem
          /\ \A s \in GoGate!Sems :
                goHeld[s] = IF s = OptionSem THEN Cardinality(GoGate!InFlight) ELSE 0
          /\ goHeld[OptionSem] <= MaxConcurrent

LEMMA InFlightFinite == IsFiniteSet(GoGate!InFlight) /\ Cardinality(GoGate!InFlight) \in Nat
  BY GoroutinesAssumption, FS_Subset, FS_CardinalityType DEF GoGate!InFlight

LEMMA InitGate == GoGate!Init => GateIInv
  <1> SUFFICES ASSUME GoGate!Init PROVE GateIInv
    OBVIOUS
  <1>1. GoGate!InFlight = {}
    BY DEF GoGate!Init, GoGate!InFlight
  <1>2. GoGate!TypeOK
    BY DEF GoGate!Init, GoGate!TypeOK, GoGate!PcStates, GoGate!Sems
  <1> QED  BY <1>1, <1>2, FS_EmptySet, MaxConcurrentAssumption
           DEF GoGate!Init, GateIInv, GoGate!NoNilSem, GoGate!Sems

LEMMA GateStep ==
    ASSUME GateIInv, [GoGate!Next]_(GoGate!vars)
    PROVE  GateIInv'
  <1> USE SemsAssumption DEF GateIInv, GoGate!BuiltWithOption
  <1>1. ASSUME NEW c \in Goroutines, GoGate!CheckSem(c)
        PROVE  GateIInv'
    <2>1. GoGate!InFlight' = GoGate!InFlight
      BY <1>1 DEF GoGate!CheckSem, GoGate!InFlight, GoGate!TypeOK
    <2>2. GoGate!TypeOK'
      BY <1>1 DEF GoGate!CheckSem, GoGate!TypeOK, GoGate!PcStates
    <2> QED  BY <1>1, <2>1, <2>2 DEF GoGate!CheckSem, GoGate!TypeOK, GoGate!NoNilSem
  <1>2. ASSUME NEW c \in Goroutines, GoGate!CreateSem(c)
        PROVE  GateIInv'
    <2>1. GoGate!TypeOK'
      BY <1>2 DEF GoGate!CreateSem, GoGate!TypeOK, GoGate!PcStates, GoGate!Sems
    <2> QED  BY <1>2, <2>1 DEF GoGate!CreateSem, GoGate!TypeOK, GoGate!NoNilSem
  <1>3. ASSUME NEW c \in Goroutines, GoGate!LoadSem(c)
        PROVE  GateIInv'
    <2>1. GoGate!InFlight' = GoGate!InFlight
      BY <1>3 DEF GoGate!LoadSem, GoGate!InFlight, GoGate!TypeOK
    <2>2. GoGate!TypeOK'
      BY <1>3 DEF GoGate!LoadSem, GoGate!TypeOK, GoGate!PcStates
    <2> QED  BY <1>3, <2>1, <2>2 DEF GoGate!LoadSem, GoGate!TypeOK, GoGate!NoNilSem
  <1>4. ASSUME NEW c \in Goroutines, GoGate!Acquire(c)
        PROVE  GateIInv'
    <2>1. goAcq[c] \in GoGate!Sems
      BY <1>4 DEF GoGate!Acquire, GoGate!NoNilSem, GoGate!TypeOK
    <2>2. GoGate!TypeOK'
      BY <1>4, <2>1 DEF GoGate!Acquire, GoGate!TypeOK, GoGate!PcStates
    <2>3. GoGate!InFlight' = GoGate!InFlight \cup {c} /\ c \notin GoGate!InFlight
      BY <1>4 DEF GoGate!Acquire, GoGate!InFlight, GoGate!TypeOK
    <2>4. Cardinality(GoGate!InFlight') = Cardinality(GoGate!InFlight) + 1
      BY <2>3, InFlightFinite, FS_AddElement
    <2>5. ASSUME goSem = OptionSem
          PROVE  /\ \A s \in GoGate!Sems :
                       goHeld'[s] = IF s = OptionSem THEN Cardinality(GoGate!InFlight') ELSE 0
                 /\ goHeld'[OptionSem] <= MaxConcurrent
      <3>1. goAcq[c] = OptionSem /\ OptionSem \in GoGate!Sems
        BY <1>4, <2>5 DEF GoGate!Acquire, GoGate!Sems
      <3>2. /\ goHeld[OptionSem] < MaxConcurrent
            /\ goHeld' = [goHeld EXCEPT ![OptionSem] = @ + 1]
        BY <1>4, <3>1 DEF GoGate!Acquire
      <3>3. goHeld'[OptionSem] = Cardinality(GoGate!InFlight')
        BY <2>4, <2>5, <3>1, <3>2 DEF GoGate!TypeOK
      <3>4. \A s \in GoGate!Sems \ {OptionSem} : goHeld'[s] = 0
        BY <2>5, <3>2 DEF GoGate!TypeOK
      <3>5. goHeld'[OptionSem] <= MaxConcurrent
        BY <3>1, <3>2, MaxConcurrentAssumption DEF GoGate!TypeOK
      <3> QED  BY <3>3, <3>4, <3>5
    <2> QED  BY <1>4, <2>2, <2>5 DEF GoGate!Acquire, GoGate!TypeOK, GoGate!NoNilSem
  <1>5. ASSUME NEW c \in Goroutines, GoGate!AcquireCancelled(c)
        PROVE  GateIInv'
    <2>1. GoGate!InFlight' = GoGate!InFlight
      BY <1>5 DEF GoGate!AcquireCancelled, GoGate!InFlight, GoGate!TypeOK
    <2>2. GoGate!TypeOK'
      BY <1>5 DEF GoGate!AcquireCancelled, GoGate!TypeOK, GoGate!PcStates
    <2> QED  BY <1>5, <2>1, <2>2 DEF GoGate!AcquireCancelled, GoGate!TypeOK, GoGate!NoNilSem
  <1>6. ASSUME NEW c \in Goroutines, GoGate!DeferRelease(c)
        PROVE  GateIInv'
    <2>1. GoGate!InFlight' = GoGate!InFlight
      BY <1>6 DEF GoGate!DeferRelease, GoGate!InFlight, GoGate!TypeOK
    <2>2. GoGate!TypeOK'
      BY <1>6 DEF GoGate!DeferRelease, GoGate!TypeOK, GoGate!PcStates
    <2> QED  BY <1>6, <2>1, <2>2 DEF GoGate!DeferRelease, GoGate!TypeOK, GoGate!NoNilSem
  <1>7. ASSUME NEW c \in Goroutines, GoGate!Release(c)
        PROVE  GateIInv'
    <2>1. goRel[c] \in GoGate!Sems
      BY <1>7 DEF GoGate!Release, GoGate!NoNilSem, GoGate!TypeOK
    <2>2. GoGate!TypeOK'
      BY <1>7, <2>1 DEF GoGate!Release, GoGate!TypeOK, GoGate!PcStates
    <2>3. GoGate!InFlight' = GoGate!InFlight \ {c} /\ c \in GoGate!InFlight
      BY <1>7 DEF GoGate!Release, GoGate!InFlight, GoGate!TypeOK
    <2>4. /\ Cardinality(GoGate!InFlight') = Cardinality(GoGate!InFlight) - 1
          /\ Cardinality(GoGate!InFlight) > 0
      BY <2>3, InFlightFinite, FS_RemoveElement, FS_EmptySet
    <2>5. ASSUME goSem = OptionSem
          PROVE  /\ \A s \in GoGate!Sems :
                       goHeld'[s] = IF s = OptionSem THEN Cardinality(GoGate!InFlight') ELSE 0
                 /\ goHeld'[OptionSem] <= MaxConcurrent
      <3>1. goRel[c] = OptionSem /\ OptionSem \in GoGate!Sems
        BY <1>7, <2>5 DEF GoGate!Release, GoGate!Sems
      <3>2. goHeld' = [goHeld EXCEPT ![OptionSem] = IF @ > 0 THEN @ - 1 ELSE @]
        BY <1>7, <3>1 DEF GoGate!Release
      <3>3. /\ goHeld[OptionSem] = Cardinality(GoGate!InFlight)
            /\ goHeld[OptionSem] <= MaxConcurrent
        BY <2>5, <3>1
      <3>4. goHeld'[OptionSem] = Cardinality(GoGate!InFlight')
        BY <2>4, <3>1, <3>2, <3>3, InFlightFinite DEF GoGate!TypeOK
      <3>5. \A s \in GoGate!Sems \ {OptionSem} : goHeld'[s] = 0
        BY <2>5, <3>2 DEF GoGate!TypeOK
      <3>6. goHeld'[OptionSem] <= MaxConcurrent
        BY <2>4, <3>3, <3>4, InFlightFinite, MaxConcurrentAssumption
      <3> QED  BY <3>4, <3>5, <3>6
    <2> QED  BY <1>7, <2>2, <2>5 DEF GoGate!Release, GoGate!TypeOK, GoGate!NoNilSem
  <1>8. CASE UNCHANGED GoGate!vars
    BY <1>8 DEF GoGate!vars, GoGate!TypeOK, GoGate!NoNilSem, GoGate!InFlight
  <1> QED  BY <1>1, <1>2, <1>3, <1>4, <1>5, <1>6, <1>7, <1>8 DEF GoGate!Next

(* The gate's module counts as this one does. *)
LEMMA GateCardinality == \A S : /\ GoGate!Cardinality(S) = Cardinality(S)
                                /\ GoGate!Slots!Cardinality(S) = Cardinality(S)
  BY DEF GoGate!Cardinality, GoGate!Slots!Cardinality, Cardinality

LEMMA GateIsExact == GateIInv => GoGate!TypeOK /\ GoGate!SlotsExact /\ GoGate!NoNilSem
  <1> SUFFICES ASSUME GateIInv PROVE GoGate!SlotsExact
    BY DEF GateIInv
  <1> SUFFICES ASSUME GoGate!BuiltWithOption
               PROVE  /\ \A s \in GoGate!Sems :
                            goHeld[s] = Cardinality({c \in GoGate!InFlight : goAcq[c] = s})
                      /\ \A c \in Goroutines : goPc[c] = "inflight" => goRel[c] = goAcq[c]
    BY GateCardinality DEF GoGate!SlotsExact
  <1>1. ASSUME NEW s \in GoGate!Sems
        PROVE  {c \in GoGate!InFlight : goAcq[c] = s} =
                  IF s = OptionSem THEN GoGate!InFlight ELSE {}
    BY DEF GateIInv, GoGate!InFlight
  <1> QED  BY <1>1, FS_EmptySet DEF GateIInv

(* The steps of the Go gate, seen through GoGate!Phase. *)
LEMMA GateMapped ==
    ASSUME GateIInv, GoGate!BuiltWithOption
    PROVE  /\ GoGate!Slots!In("holding") = GoGate!InFlight
           /\ Cardinality(GoGate!InFlight) = goHeld[OptionSem]
           /\ goHeld[OptionSem] <= MaxConcurrent
  <1>1. GoGate!Slots!In("holding") = GoGate!InFlight
    BY DEF GoGate!Slots!In, GoGate!Phase, GoGate!InFlight
  <1>2. OptionSem \in GoGate!Sems
    BY DEF GoGate!Sems
  <1> QED  BY <1>1, <1>2 DEF GateIInv

LEMMA GateRefinesInit == GoGate!Init => GoGate!Slots!Init
  BY DEF GoGate!Init, GoGate!Phase, GoGate!Slots!Init

LEMMA GateRefinesNext ==
    ASSUME GateIInv, GateIInv', [GoGate!Next]_(GoGate!vars)
    PROVE  [GoGate!Slots!Next]_(GoGate!Phase)
  <1> USE SemsAssumption
  <1>0. CASE UNCHANGED GoGate!vars
    BY <1>0 DEF GoGate!vars, GoGate!Phase, GoGate!InFlight, GoGate!BuiltWithOption
  <1> SUFFICES ASSUME NEW c \in Goroutines,
                      \/ GoGate!CheckSem(c) \/ GoGate!CreateSem(c) \/ GoGate!LoadSem(c)
                      \/ GoGate!Acquire(c) \/ GoGate!AcquireCancelled(c)
                      \/ GoGate!DeferRelease(c) \/ GoGate!Release(c)
               PROVE  [GoGate!Slots!Next]_(GoGate!Phase)
    BY <1>0 DEF GoGate!Next
  <1>1. GoGate!BuiltWithOption' <=> GoGate!BuiltWithOption
    BY DEF GateIInv, GoGate!BuiltWithOption, GoGate!CheckSem, GoGate!CreateSem,
           GoGate!LoadSem, GoGate!Acquire, GoGate!AcquireCancelled,
           GoGate!DeferRelease, GoGate!Release
  <1>2. CASE ~GoGate!BuiltWithOption
    BY <1>1, <1>2 DEF GoGate!Phase
  <1> SUFFICES ASSUME GoGate!BuiltWithOption
               PROVE  [GoGate!Slots!Next]_(GoGate!Phase)
    BY <1>2
  <1> USE <1>1
  <1>3. goPc \in [Goroutines -> GoGate!PcStates] /\ goPc[c] # "create" /\ goSem # NoSem
    BY DEF GateIInv, GoGate!TypeOK, GoGate!BuiltWithOption
  <1>4. CASE GoGate!CheckSem(c)
    <2>1. GoGate!Phase[c] = "idle" /\ GoGate!Phase' = [GoGate!Phase EXCEPT ![c] = "waiting"]
      BY <1>3, <1>4 DEF GoGate!CheckSem, GoGate!Phase, GoGate!InFlight
    <2> QED  BY <2>1 DEF GoGate!Slots!Ask, GoGate!Slots!Next
  <1>5. CASE GoGate!LoadSem(c) \/ GoGate!DeferRelease(c)
    BY <1>3, <1>5 DEF GoGate!LoadSem, GoGate!DeferRelease, GoGate!Phase, GoGate!InFlight
  <1>6. CASE GoGate!Acquire(c)
    <2>1. GoGate!Phase[c] = "waiting" /\ GoGate!Phase' = [GoGate!Phase EXCEPT ![c] = "holding"]
      BY <1>3, <1>6 DEF GoGate!Acquire, GoGate!Phase, GoGate!InFlight
    <2>2. goHeld[OptionSem] < MaxConcurrent
      BY <1>6 DEF GoGate!Acquire, GateIInv
    <2>3. Cardinality(GoGate!Slots!In("holding")) < MaxConcurrent
      BY <2>2, GateMapped
    <2>4. GoGate!Slots!Enter(c)
      BY <2>1, <2>3, GateCardinality DEF GoGate!Slots!Enter
    <2> QED  BY <2>4 DEF GoGate!Slots!Next
  <1>7. CASE GoGate!AcquireCancelled(c)
    <2>1. GoGate!Phase[c] = "waiting" /\ GoGate!Phase' = [GoGate!Phase EXCEPT ![c] = "idle"]
      BY <1>3, <1>7 DEF GoGate!AcquireCancelled, GoGate!Phase, GoGate!InFlight
    <2> QED  BY <2>1 DEF GoGate!Slots!GiveUp, GoGate!Slots!Next
  <1>8. CASE GoGate!Release(c)
    <2>1. /\ GoGate!Phase[c] = "holding"
          /\ GoGate!Phase' = [d \in Goroutines |-> IF d = c THEN "idle"
                                                   ELSE IF d \in {} THEN "holding"
                                                   ELSE GoGate!Phase[d]]
      BY <1>3, <1>8 DEF GoGate!Release, GoGate!Phase, GoGate!InFlight
    <2>2. c \in GoGate!InFlight
      BY <1>8 DEF GoGate!Release, GoGate!InFlight
    <2>3. Cardinality((GoGate!InFlight \ {c}) \cup {}) <= MaxConcurrent
      <3>1. (GoGate!InFlight \ {c}) \cup {} = GoGate!InFlight \ {c}
        OBVIOUS
      <3>2. Cardinality(GoGate!InFlight \ {c}) = Cardinality(GoGate!InFlight) - 1
        BY <2>2, InFlightFinite, FS_RemoveElement
      <3> QED  BY <3>1, <3>2, GateMapped, InFlightFinite, MaxConcurrentAssumption
    <2>4. GoGate!Slots!Leave(c, {})
      BY <2>1, <2>3, GateMapped, GateCardinality DEF GoGate!Slots!Leave
    <2> QED  BY <2>4 DEF GoGate!Slots!Next
  <1> QED  BY <1>3, <1>4, <1>5, <1>6, <1>7, <1>8 DEF GoGate!CreateSem

-----------------------------------------------------------------------------
(* Lists of ages in the order of the requests, the oldest first.  All that *)
(* the limiters and the rolling window do to such a list is the same: they *)
(* keep the end of it that is younger than the window.                     *)
Ordered(s) == \A i, j \in 1 .. Len(s) : i <= j => s[i] >= s[j]

IsCut(s, n) == n \in 0 .. Len(s) /\ \A i \in 1 .. Len(s) : i <= n <=> s[i] >= Window

Young(s) == RustWindow!Abs!Inside(s)

LEMMA CutExists ==
    ASSUME NEW s \in Seq(Nat), Ordered(s)
    PROVE  \E n \in 0 .. Len(s) : IsCut(s, n)
  <1> DEFINE T == {k \in 1 .. Len(s) : s[k] < Window}
  <1>0. Len(s) \in Nat /\ \A i \in 1 .. Len(s) : s[i] \in Nat
    OBVIOUS
  <1>1. CASE T = {}
    <2>1. IsCut(s, Len(s))
      BY <1>0, <1>1, WindowAssumption DEF IsCut
    <2> QED  BY <1>0, <2>1
  <1>2. CASE T # {}
    <2>1. T \subseteq Nat
      OBVIOUS
    <2>2. PICK m \in T : \A k \in T : ~(<<k, m>> \in OpToRel(<, Nat))
      BY <1>2, <2>1, NatLessThanWellFounded, WFMin
    <2>3. ASSUME NEW k \in T, k < m PROVE FALSE
      <3>1. <<k, m>> \in Nat \X Nat
        BY <2>1
      <3>2. <<k, m>> \in OpToRel(<, Nat)
        BY <2>3, <3>1 DEF OpToRel
      <3> QED  BY <2>2, <3>2
    <2>4. /\ m \in 1 .. Len(s) /\ s[m] < Window
          /\ \A k \in 1 .. Len(s) : k < m => ~(s[k] < Window)
      BY <2>2, <2>3
    <2>5. \A k \in 1 .. Len(s) : m <= k => s[k] < Window
      BY <1>0, <2>4, WindowAssumption DEF Ordered
    <2>6. IsCut(s, m - 1)
      BY <1>0, <2>4, <2>5, WindowAssumption DEF IsCut
    <2> QED  BY <1>0, <2>4, <2>6
  <1> QED  BY <1>1, <1>2

LEMMA CutUnique ==
    ASSUME NEW s \in Seq(Nat), NEW n, NEW m, IsCut(s, n), IsCut(s, m)
    PROVE  n = m
  <1>1. n \in 0 .. Len(s) /\ m \in 0 .. Len(s) /\ Len(s) \in Nat
    BY DEF IsCut
  <1>2. CASE n < m
    BY <1>1, <1>2 DEF IsCut
  <1>3. CASE m < n
    BY <1>1, <1>3 DEF IsCut
  <1> QED  BY <1>1, <1>2, <1>3

(* The abstract window keeps what follows the cut. *)
LEMMA YoungIs ==
    ASSUME NEW s \in Seq(Nat), NEW n, IsCut(s, n)
    PROVE  /\ RustWindow!Abs!Inside(s) = SubSeq(s, n + 1, Len(s))
           /\ GoWindow!Abs!Inside(s) = SubSeq(s, n + 1, Len(s))
           /\ TsWindow!Abs!Inside(s) = SubSeq(s, n + 1, Len(s))
  <1> DEFINE P(m) == \A i \in DOMAIN s : i <= m <=> s[i] >= Window
             d == CHOOSE m \in 0 .. Len(s) : P(m)
  <1>1. \A m \in 0 .. Len(s) : P(m) <=> IsCut(s, m)
    BY DEF IsCut
  <1>2. n \in 0 .. Len(s) /\ P(n)
    BY <1>1 DEF IsCut
  <1>3. d \in 0 .. Len(s) /\ P(d)
    <2> HIDE DEF P
    <2> QED  BY <1>2
  <1>4. IsCut(s, d)
    BY <1>1, <1>3
  <1>5. d = n
    <2> HIDE DEF d
    <2> QED  BY <1>4, CutUnique
  <1> QED  BY <1>5
           DEF RustWindow!Abs!Inside, RustWindow!Abs!Departed, GoWindow!Abs!Inside,
               GoWindow!Abs!Departed, TsWindow!Abs!Inside, TsWindow!Abs!Departed

(* evict of Go and TypeScript finds the same cut. *)
LEMMA EvictedIs ==
    ASSUME NEW s \in Seq(Nat), Ordered(s)
    PROVE  GoWindow!Evicted(s) = Young(s) /\ TsWindow!Evicted(s) = Young(s)
  <1> DEFINE P(m) == /\ \A i \in 1 .. m : s[i] >= Window
                     /\ m < Len(s) => s[m + 1] < Window
             d == CHOOSE m \in 0 .. Len(s) : P(m)
  <1>1. PICK n \in 0 .. Len(s) : IsCut(s, n)
    BY CutExists
  <1>2. Len(s) \in Nat /\ \A i \in 1 .. Len(s) : s[i] \in Nat
    OBVIOUS
  <1>3. P(n)
    BY <1>1, <1>2, WindowAssumption DEF IsCut
  <1>4. d \in 0 .. Len(s) /\ P(d)
    <2> HIDE DEF P
    <2> QED  BY <1>3
  <1>5. IsCut(s, d)
    <2> HIDE DEF d
    <2>1. /\ \A i \in 1 .. d : s[i] >= Window
          /\ d < Len(s) => s[d + 1] < Window
      BY <1>4
    <2>2. ASSUME NEW i \in 1 .. Len(s), ~(i <= d) PROVE ~(s[i] >= Window)
      <3>1. d + 1 \in 1 .. Len(s) /\ d + 1 <= i /\ d < Len(s)
        BY <1>2, <1>4, <2>2
      <3>2. s[d + 1] >= s[i] /\ s[d + 1] < Window
        BY <2>1, <3>1 DEF Ordered
      <3> QED  BY <1>2, <3>1, <3>2, WindowAssumption
    <2>3. ASSUME NEW i \in 1 .. Len(s), i <= d PROVE s[i] >= Window
      BY <1>2, <1>4, <2>1, <2>3
    <2> QED  BY <1>4, <2>2, <2>3 DEF IsCut
  <1>6. d = n
    <2> HIDE DEF d
    <2> QED  BY <1>1, <1>5, CutUnique
  <1> QED  BY <1>1, <1>6, YoungIs DEF GoWindow!Evicted, TsWindow!Evicted, Young

(* retain of Rust keeps the end that follows the cut, in its order. *)
LEMMA RetainedIs ==
    ASSUME NEW s \in Seq(Nat), Ordered(s)
    PROVE  RustWindow!Retained(s) = Young(s)
  <1>1. PICK n \in 0 .. Len(s) : IsCut(s, n)
    BY CutExists
  <1> DEFINE len == Len(s)
             kept == {i \in DOMAIN s : s[i] < Window}
             P(i, j) == RustWindow!Cardinality({k \in kept : k < i}) = j - 1
             nth(j) == CHOOSE i \in kept : P(i, j)
  <1>0. len \in Nat /\ n \in 0 .. len /\ \A i \in 1 .. len : s[i] \in Nat
    BY <1>1
  <1>2. kept = n + 1 .. len
    BY <1>0, <1>1, WindowAssumption DEF IsCut
  <1>3. \A S : RustWindow!Cardinality(S) = Cardinality(S)
    BY DEF RustWindow!Cardinality, Cardinality
  <1> HIDE DEF kept
  <1>4. \A i \in kept : Cardinality({k \in kept : k < i}) = i - (n + 1)
    <2> SUFFICES ASSUME NEW i \in kept PROVE Cardinality({k \in kept : k < i}) = i - (n + 1)
      OBVIOUS
    <2>1. {k \in kept : k < i} = n + 1 .. i - 1
      BY <1>0, <1>2
    <2>2. i \in Nat /\ i >= n + 1 /\ n + 1 \in Int /\ i - 1 \in Int
      BY <1>0, <1>2
    <2>3. Cardinality(n + 1 .. i - 1) = IF n + 1 > i - 1 THEN 0 ELSE (i - 1) - (n + 1) + 1
      BY <2>2, FS_Interval
    <2>4. Cardinality(n + 1 .. i - 1) = i - (n + 1)
      BY <1>0, <2>2, <2>3
    <2> QED  BY <2>1, <2>4
  <1>5. Cardinality(kept) = len - n
    <2>1. n + 1 \in Int /\ len \in Int
      BY <1>0
    <2>2. Cardinality(n + 1 .. len) = IF n + 1 > len THEN 0 ELSE len - (n + 1) + 1
      BY <2>1, FS_Interval
    <2> QED  BY <1>0, <1>2, <2>2
  <1>6. ASSUME NEW j \in 1 .. len - n PROVE nth(j) = n + j
    <2>1. n + j \in kept /\ P(n + j, j)
      BY <1>0, <1>2, <1>3, <1>4
    <2>2. ASSUME NEW i \in kept, P(i, j) PROVE i = n + j
      <3>1. i - (n + 1) = j - 1
        BY <1>3, <1>4, <2>2
      <3> QED  BY <1>0, <1>2, <3>1
    <2> HIDE DEF P
    <2> QED  BY <2>1, <2>2
  <1>7. RustWindow!Retained(s) = [j \in 1 .. len - n |-> s[nth(j)]]
    BY <1>3, <1>5 DEF RustWindow!Retained, kept
  <1>8. RustWindow!Retained(s) = [j \in 1 .. len - n |-> s[n + j]]
    <2> HIDE DEF nth
    <2> QED  BY <1>6, <1>7
  <1>9. SubSeq(s, n + 1, len) = [j \in 1 .. len - n |-> s[n + j]]
    <2>1. SubSeq(s, n + 1, len) \in Seq(Nat) /\ Len(SubSeq(s, n + 1, len)) = len - n
      BY <1>0
    <2>2. \A j \in 1 .. len - n : SubSeq(s, n + 1, len)[j] = s[n + j]
      BY <1>0
    <2> QED  BY <1>0, <2>1, <2>2
  <1> QED  BY <1>1, <1>8, <1>9, YoungIs DEF Young

LEMMA FunctionIsSeq ==
    ASSUME NEW S, NEW n \in Nat, NEW f \in [1 .. n -> S]
    PROVE  f \in Seq(S) /\ Len(f) = n
  <1>1. f \in Seq(S)
    BY SeqDef
  <1>2. DOMAIN f = 1 .. n
    OBVIOUS
  <1> QED  BY <1>1, <1>2, LenProperties

(* What is left is young, in order and no longer than the list. *)
LEMMA YoungFacts ==
    ASSUME NEW s \in Seq(Nat), Ordered(s)
    PROVE  /\ Young(s) \in Seq(0 .. Window - 1)
           /\ Ordered(Young(s))
           /\ Len(Young(s)) <= Len(s)
  <1>1. PICK n \in 0 .. Len(s) : IsCut(s, n)
    BY CutExists
  <1> DEFINE y == Young(s)
             len == Len(s)
  <1>2. len \in Nat /\ n \in 0 .. len /\ \A i \in 1 .. len : s[i] \in Nat
    BY <1>1
  <1>3. y = SubSeq(s, n + 1, len)
    BY <1>1, YoungIs DEF Young
  <1> HIDE DEF y
  <1>4. /\ y \in Seq(Nat) /\ Len(y) = len - n /\ DOMAIN y = 1 .. len - n
        /\ \A j \in 1 .. len - n : y[j] = s[n + j]
    BY <1>2, <1>3
  <1>5. ASSUME NEW j \in 1 .. len - n PROVE y[j] \in 0 .. Window - 1
    <2>1. n + j \in 1 .. len /\ ~(n + j <= n)
      BY <1>2
    <2>2. s[n + j] \in Nat /\ ~(s[n + j] >= Window)
      BY <1>1, <1>2, <2>1 DEF IsCut
    <2>3. s[n + j] \in 0 .. Window - 1
      BY <2>2, WindowAssumption
    <2> QED  BY <1>4, <2>3
  <1>6. y \in Seq(0 .. Window - 1)
    <2>1. len - n \in Nat
      BY <1>2
    <2> HIDE DEF len
    <2>2. y \in [1 .. len - n -> Nat]
      BY <1>4, LenProperties
    <2>3. y \in [1 .. len - n -> 0 .. Window - 1]
      BY <1>5, <2>2
    <2> QED  BY <2>1, <2>3, FunctionIsSeq
  <1>7. Ordered(y)
    <2> SUFFICES ASSUME NEW i \in 1 .. len - n, NEW j \in 1 .. len - n, i <= j
                 PROVE  s[n + i] >= s[n + j]
      BY <1>4 DEF Ordered
    <2>1. n + i \in 1 .. len /\ n + j \in 1 .. len /\ n + i <= n + j
      BY <1>2
    <2> QED  BY <2>1 DEF Ordered
  <1> QED  BY <1>2, <1>4, <1>6, <1>7 DEF y

(* Cutting a list that is young already changes nothing. *)
LEMMA YoungStays ==
    ASSUME NEW s \in Seq(0 .. Window - 1)
    PROVE  Young(s) = s
  <1>1. s \in Seq(Nat) /\ Len(s) \in Nat /\ \A i \in 1 .. Len(s) : s[i] \in 0 .. Window - 1
    <2>1. 0 .. Window - 1 \subseteq Nat
      BY WindowAssumption
    <2> QED  BY <2>1, SeqMonotonic, LenProperties
  <1>2. IsCut(s, 0)
    BY <1>1, WindowAssumption DEF IsCut
  <1>3. Young(s) = SubSeq(s, 0 + 1, Len(s))
    BY <1>1, <1>2, YoungIs DEF Young
  <1> QED  BY <1>1, <1>3

(* A request that is added now is young. *)
LEMMA YoungAppend ==
    ASSUME NEW s \in Seq(Nat), Ordered(s)
    PROVE  Ordered(Append(s, 0)) /\ Young(Append(s, 0)) = Append(Young(s), 0)
  <1>1. PICK n \in 0 .. Len(s) : IsCut(s, n)
    BY CutExists
  <1> DEFINE t == Append(s, 0)
             len == Len(s)
  <1>2. len \in Nat /\ n \in 0 .. len /\ \A i \in 1 .. len : s[i] \in Nat
    BY <1>1
  <1>3. /\ t \in Seq(Nat) /\ Len(t) = len + 1 /\ t[len + 1] = 0
        /\ \A i \in 1 .. len : t[i] = s[i]
    OBVIOUS
  <1> HIDE DEF t
  <1>4. Ordered(t)
    BY <1>2, <1>3 DEF Ordered
  <1>5. IsCut(t, n)
    <2> SUFFICES ASSUME NEW i \in 1 .. len + 1 PROVE i <= n <=> t[i] >= Window
      BY <1>2, <1>3 DEF IsCut
    <2>1. CASE i \in 1 .. len
      BY <1>1, <1>3, <2>1 DEF IsCut
    <2>2. CASE i = len + 1
      BY <1>2, <1>3, <2>2, WindowAssumption
    <2> QED  BY <1>2, <2>1, <2>2
  <1>6. Young(t) = SubSeq(t, n + 1, len + 1) /\ Young(s) = SubSeq(s, n + 1, len)
    BY <1>1, <1>3, <1>5, YoungIs DEF Young
  <1>7. SubSeq(t, n + 1, len + 1) = Append(SubSeq(s, n + 1, len), 0)
    <2> DEFINE a == SubSeq(t, n + 1, len + 1)
               y == SubSeq(s, n + 1, len)
               b == Append(y, 0)
    <2>1. /\ a \in Seq(Nat) /\ Len(a) = len + 1 - n
          /\ \A j \in 1 .. len + 1 - n : a[j] = t[n + j]
      BY <1>2, <1>3
    <2>2. /\ y \in Seq(Nat) /\ Len(y) = len - n
          /\ \A j \in 1 .. len - n : y[j] = s[n + j]
      BY <1>2
    <2>3. /\ b \in Seq(Nat) /\ Len(b) = len + 1 - n /\ b[len + 1 - n] = 0
          /\ \A j \in 1 .. len - n : b[j] = y[j]
      BY <1>2, <2>2
    <2> HIDE DEF a, b, y
    <2>4. ASSUME NEW j \in 1 .. len + 1 - n PROVE a[j] = b[j]
      <3>1. CASE j \in 1 .. len - n
        <4>1. n + j \in 1 .. len
          BY <1>2, <3>1
        <4> QED  BY <1>3, <2>1, <2>2, <2>3, <3>1, <4>1
      <3>2. CASE j = len + 1 - n
        <4>1. n + j = len + 1
          BY <1>2, <3>2
        <4> QED  BY <1>3, <2>1, <2>3, <3>2, <4>1
      <3> QED  BY <1>2, <3>1, <3>2
    <2>5. a = b
      BY <2>1, <2>3, <2>4, SeqEqual
    <2> QED  BY <2>5 DEF a, b, y
  <1> QED  BY <1>4, <1>6, <1>7 DEF t

(* A tick later: cutting the aged list gives what aging the young end and  *)
(* cutting it gives, even if the ages outside the window are capped.       *)
LEMMA YoungAges ==
    ASSUME NEW s \in Seq(Nat), Ordered(s),
           NEW t \in Seq(Nat), Len(t) = Len(s),
           \A i \in 1 .. Len(s) : /\ s[i] < Window => t[i] = s[i] + 1
                                  /\ s[i] >= Window => t[i] >= Window,
           Ordered(t)
    PROVE  Young(t) = RustWindow!Abs!Aged(Young(s))
  <1>1. PICK n \in 0 .. Len(s) : IsCut(s, n)
    BY CutExists
  <1>2. PICK m \in 0 .. Len(t) : IsCut(t, m)
    BY CutExists
  <1> DEFINE len == Len(s)
             y == Young(s)
             z == [i \in DOMAIN y |-> y[i] + 1]
  <1>3. /\ len \in Nat /\ n \in 0 .. len /\ m \in 0 .. len /\ Len(t) = len
        /\ \A i \in 1 .. len : s[i] \in Nat /\ t[i] \in Nat
    BY <1>1, <1>2
  <1>4. n <= m
    <2> SUFFICES ASSUME m < n PROVE FALSE
      BY <1>3
    <2> QED  BY <1>1, <1>2, <1>3, WindowAssumption DEF IsCut
  <1>5. y = SubSeq(s, n + 1, len) /\ Young(t) = SubSeq(t, m + 1, len)
    BY <1>1, <1>2, <1>3, YoungIs DEF Young
  <1> HIDE DEF y
  <1>6. /\ y \in Seq(Nat) /\ Len(y) = len - n /\ DOMAIN y = 1 .. len - n
        /\ \A j \in 1 .. len - n : y[j] = s[n + j]
    BY <1>3, <1>5
  <1>7. z \in Seq(Nat) /\ Len(z) = len - n /\ \A j \in 1 .. len - n : z[j] = y[j] + 1
    <2>1. len - n \in Nat
      BY <1>3
    <2> HIDE DEF len
    <2>2. y \in [1 .. len - n -> Nat]
      BY <1>6, LenProperties
    <2>3. z \in [1 .. len - n -> Nat] /\ \A j \in 1 .. len - n : z[j] = y[j] + 1
      BY <2>2
    <2> QED  BY <2>1, <2>3, FunctionIsSeq
  <1> HIDE DEF z
  <1>8. ASSUME NEW j \in 1 .. len - n PROVE z[j] = t[n + j]
    <2>1. n + j \in 1 .. len /\ ~(n + j <= n)
      BY <1>3
    <2>2. s[n + j] < Window
      BY <1>1, <1>3, <2>1, WindowAssumption DEF IsCut
    <2> QED  BY <1>6, <1>7, <2>1, <2>2
  <1>9. IsCut(z, m - n)
    <2>1. m - n \in 0 .. len - n
      BY <1>3, <1>4
    <2>2. ASSUME NEW j \in 1 .. len - n PROVE j <= m - n <=> z[j] >= Window
      <3>1. n + j \in 1 .. len /\ (n + j <= m <=> j <= m - n)
        BY <1>3, <1>4
      <3> QED  BY <1>2, <1>3, <1>8, <3>1 DEF IsCut
    <2> QED  BY <1>7, <2>1, <2>2 DEF IsCut
  <1>10. RustWindow!Abs!Aged(y) = SubSeq(z, (m - n) + 1, len - n)
    BY <1>7, <1>9, YoungIs DEF RustWindow!Abs!Aged, z
  <1>11. SubSeq(z, (m - n) + 1, len - n) = SubSeq(t, m + 1, len)
    <2> DEFINE a == SubSeq(z, (m - n) + 1, len - n)
               b == SubSeq(t, m + 1, len)
    <2>1. /\ a \in Seq(Nat) /\ Len(a) = len - m
          /\ \A j \in 1 .. len - m : a[j] = z[(m - n) + j]
      BY <1>3, <1>4, <1>7
    <2>2. /\ b \in Seq(Nat) /\ Len(b) = len - m
          /\ \A j \in 1 .. len - m : b[j] = t[m + j]
      BY <1>3
    <2> HIDE DEF a, b
    <2>3. \A j \in 1 .. len - m : a[j] = b[j]
      <3> SUFFICES ASSUME NEW j \in 1 .. len - m PROVE a[j] = b[j]
        OBVIOUS
      <3>1. (m - n) + j \in 1 .. len - n /\ n + ((m - n) + j) = m + j
        BY <1>3, <1>4
      <3> QED  BY <1>8, <2>1, <2>2, <3>1
    <2>4. a = b
      BY <2>1, <2>2, <2>3, SeqEqual
    <2> QED  BY <2>4 DEF a, b
  <1> QED  BY <1>5, <1>10, <1>11 DEF y

(* The three instances of the rolling window are one. *)
LEMMA SameWindow ==
    \A s : /\ GoWindow!Abs!Aged(s) = RustWindow!Abs!Aged(s)
           /\ TsWindow!Abs!Aged(s) = RustWindow!Abs!Aged(s)
  BY DEF GoWindow!Abs!Aged, TsWindow!Abs!Aged, RustWindow!Abs!Aged,
         GoWindow!Abs!Inside, TsWindow!Abs!Inside, RustWindow!Abs!Inside,
         GoWindow!Abs!Departed, TsWindow!Abs!Departed, RustWindow!Abs!Departed

(* A limiter's list a tick later, its ages capped at or above the window.  *)
LEMMA TickedList ==
    ASSUME NEW cap \in {Window, Window + 1}, NEW s \in Seq(0 .. cap), Ordered(s),
           NEW t, t = [i \in DOMAIN s |-> IF s[i] < cap THEN s[i] + 1 ELSE cap]
    PROVE  /\ t \in Seq(0 .. cap) /\ Len(t) = Len(s) /\ Ordered(t)
           /\ Young(t) = RustWindow!Abs!Aged(Young(s))
           /\ Young(t) \in Seq(0 .. Window - 1)
  <1> DEFINE len == Len(s)
  <1>1. /\ cap \in Nat /\ cap >= Window /\ len \in Nat /\ DOMAIN s = 1 .. len
        /\ \A i \in 1 .. len : s[i] \in 0 .. cap
    BY WindowAssumption, LenProperties, ElementOfSeq
  <1>2. t \in [1 .. len -> 0 .. cap]
    BY <1>1
  <1>3. t \in Seq(0 .. cap) /\ Len(t) = len
    BY <1>1, <1>2, FunctionIsSeq
  <1>4. \A i \in 1 .. len : t[i] = IF s[i] < cap THEN s[i] + 1 ELSE cap
    BY <1>1
  <1>5. Ordered(t)
    BY <1>1, <1>3, <1>4 DEF Ordered
  <1>6. 0 .. cap \subseteq Nat
    BY <1>1
  <1>7. s \in Seq(Nat) /\ t \in Seq(Nat)
    BY <1>3, <1>6, SeqMonotonic
  <1>8. \A i \in 1 .. len : /\ s[i] < Window => t[i] = s[i] + 1
                            /\ s[i] >= Window => t[i] >= Window
    BY <1>1, <1>4, WindowAssumption
  <1>9. Young(t) = RustWindow!Abs!Aged(Young(s))
    BY <1>3, <1>5, <1>7, <1>8, YoungAges
  <1>10. Young(t) \in Seq(0 .. Window - 1)
    BY <1>5, <1>7, YoungFacts
  <1> QED  BY <1>3, <1>5, <1>9, <1>10

(* The list of a limiter after it forgot what left the window, and after   *)
(* it recorded a request.                                                  *)
LEMMA PrunedList ==
    ASSUME NEW cap \in {Window, Window + 1}, NEW s \in Seq(0 .. cap), Ordered(s)
    PROVE  /\ s \in Seq(Nat)
           /\ Young(s) \in Seq(0 .. cap) /\ Young(s) \in Seq(0 .. Window - 1)
           /\ Ordered(Young(s)) /\ Young(Young(s)) = Young(s)
           /\ Len(Young(s)) \in Nat /\ Len(s) \in Nat /\ Len(Young(s)) <= Len(s)
  <1>1. 0 .. cap \subseteq Nat /\ 0 .. Window - 1 \subseteq 0 .. cap
    BY WindowAssumption
  <1>2. s \in Seq(Nat)
    BY <1>1, SeqMonotonic
  <1>3. /\ Young(s) \in Seq(0 .. Window - 1) /\ Ordered(Young(s))
        /\ Len(Young(s)) <= Len(s)
    BY <1>2, YoungFacts
  <1>4. Young(s) \in Seq(0 .. cap)
    BY <1>1, <1>3, SeqMonotonic
  <1> QED  BY <1>2, <1>3, <1>4, YoungStays, LenProperties

LEMMA RecordedList ==
    ASSUME NEW cap \in {Window, Window + 1}, NEW s \in Seq(0 .. cap), Ordered(s)
    PROVE  /\ Append(s, 0) \in Seq(0 .. cap) /\ Len(Append(s, 0)) = Len(s) + 1
           /\ Ordered(Append(s, 0)) /\ Young(Append(s, 0)) = Append(Young(s), 0)
           /\ Append(Young(s), 0) \in Seq(0 .. Window - 1)
  <1>1. s \in Seq(Nat) /\ Young(s) \in Seq(0 .. Window - 1)
    BY PrunedList
  <1>2. 0 \in 0 .. cap /\ 0 \in 0 .. Window - 1
    BY WindowAssumption
  <1> QED  BY <1>1, <1>2, AppendProperties, YoungAppend

LEMMA HeadOf ==
    ASSUME NEW S, NEW s \in Seq(S), s # << >>
    PROVE  Head(s) \in S
  <1>1. Len(s) \in Nat \ {0}
    BY EmptySeq
  <1>2. 1 \in 1 .. Len(s)
    BY <1>1
  <1>3. s[1] \in S
    BY <1>2, ElementOfSeq
  <1> QED  BY <1>3

LEMMA EmptyList ==
    /\ Ordered(<< >>) /\ Young(<< >>) = << >>
    /\ \A S : << >> \in Seq(S)
    /\ Len(<< >>) = 0
  <1>1. /\ \A S : << >> \in Seq(S)
        /\ Len(<< >>) = 0
    BY EmptySeq
  <1>2. Young(<< >>) = << >>
    BY <1>1, YoungStays
  <1>3. Ordered(<< >>)
    BY <1>1 DEF Ordered
  <1> QED  BY <1>1, <1>2, <1>3

-----------------------------------------------------------------------------
(* The Rust window.  ListComplete needs that the list is in order: only    *)
(* then are the requests that retain drops and those that leave the        *)
(* window the same end of it.                                              *)
RustIInv == RustWindow!TypeOK /\ Ordered(rustRequests) /\ rustRecent = Young(rustRequests)

LEMMA RustInit == RustWindow!Init => RustIInv
  BY EmptyList, WindowAssumption, MaxRequestsAssumption
  DEF RustWindow!Init, RustIInv, RustWindow!TypeOK, RustWindow!PcStates, RustWindow!Cap

LEMMA RustStep ==
    ASSUME RustIInv, [RustWindow!Next]_(RustWindow!vars)
    PROVE  RustIInv'
  <1> USE DEF RustIInv, RustWindow!TypeOK, RustWindow!Cap
  <1>0. /\ Window + 1 \in {Window, Window + 1} /\ rustRequests \in Seq(0 .. Window + 1)
        /\ Ordered(rustRequests)
    OBVIOUS
  <1>1. ASSUME NEW c \in Goroutines, RustWindow!Call(c) \/ RustWindow!Wake(c)
        PROVE  RustIInv'
    BY <1>1 DEF RustWindow!Call, RustWindow!Wake, RustWindow!PcStates
  <1>2. ASSUME NEW c \in Goroutines, RustWindow!Prune(c)
        PROVE  RustIInv'
    <2>1. rustRequests' = Young(rustRequests)
      BY <1>0, <1>2, RetainedIs, PrunedList DEF RustWindow!Prune
    <2>2. /\ rustRequests' \in Seq(0 .. Window + 1) /\ Ordered(rustRequests')
          /\ Young(rustRequests') = Young(rustRequests)
          /\ Len(rustRequests') \in Nat /\ Len(rustRequests) \in Nat
          /\ Len(rustRequests') <= Len(rustRequests)
      BY <1>0, <2>1, PrunedList
    <2>3. Len(rustRequests') <= MaxRequests
      BY <2>2, MaxRequestsAssumption
    <2>4. /\ rustPc' \in [Goroutines -> RustWindow!PcStates]
          /\ UNCHANGED <<rustSleep, rustRecent>>
      BY <1>2 DEF RustWindow!Prune, RustWindow!PcStates
    <2> QED  BY <2>2, <2>3, <2>4
  <1>3. ASSUME NEW c \in Goroutines, RustWindow!Admit(c)
        PROVE  RustIInv'
    <2>1. /\ rustRequests' = Append(rustRequests, 0) /\ rustRecent' = Append(rustRecent, 0)
          /\ Len(rustRequests) < MaxRequests /\ UNCHANGED rustSleep
          /\ rustPc' \in [Goroutines -> RustWindow!PcStates]
      BY <1>3 DEF RustWindow!Admit, RustWindow!PcStates
    <2>2. /\ rustRequests' \in Seq(0 .. Window + 1) /\ Ordered(rustRequests')
          /\ Young(rustRequests') = rustRecent' /\ rustRecent' \in Seq(0 .. Window - 1)
          /\ Len(rustRequests') = Len(rustRequests) + 1 /\ Len(rustRequests) \in Nat
      BY <1>0, <2>1, RecordedList
    <2>3. Len(rustRequests') <= MaxRequests
      BY <2>1, <2>2, MaxRequestsAssumption
    <2> QED  BY <2>1, <2>2, <2>3
  <1>4. ASSUME NEW c \in Goroutines, RustWindow!Wait(c)
        PROVE  RustIInv'
    <2>1. rustPc' \in [Goroutines -> RustWindow!PcStates]
      BY <1>4 DEF RustWindow!Wait, RustWindow!PcStates
    <2>2. rustSleep' \in [Goroutines -> 0 .. Window]
      <3>1. ASSUME rustRequests # << >> PROVE Head(rustRequests) \in 0 .. Window + 1
        BY <1>0, <3>1, HeadOf
      <3>2. ASSUME rustRequests # << >>, ~(Head(rustRequests) > Window)
            PROVE  Window - Head(rustRequests) \in 0 .. Window
        BY <3>1, <3>2, WindowAssumption
      <3> QED  BY <1>4, <3>2 DEF RustWindow!Wait
    <2>3. UNCHANGED <<rustRequests, rustRecent>>
      BY <1>4 DEF RustWindow!Wait
    <2> QED  BY <2>1, <2>2, <2>3
  <1>5. CASE RustWindow!Tick
    <2>1. /\ rustRequests' = [i \in DOMAIN rustRequests |->
                                IF rustRequests[i] < Window + 1 THEN rustRequests[i] + 1
                                ELSE Window + 1]
          /\ rustRecent' = RustWindow!Abs!Aged(Young(rustRequests)) /\ UNCHANGED rustPc
      BY <1>5 DEF RustWindow!Tick, RustWindow!Older
    <2>2. rustSleep' \in [Goroutines -> 0 .. Window]
      BY <1>5, WindowAssumption DEF RustWindow!Tick
    <2>3. /\ rustRequests' \in Seq(0 .. Window + 1) /\ Len(rustRequests') = Len(rustRequests)
          /\ Ordered(rustRequests') /\ Young(rustRequests') = rustRecent'
          /\ rustRecent' \in Seq(0 .. Window - 1)
      BY <1>0, <2>1, TickedList
    <2> QED  BY <2>1, <2>2, <2>3
  <1>6. CASE UNCHANGED RustWindow!vars
    BY <1>6 DEF RustWindow!vars
  <1> QED  BY <1>1, <1>2, <1>3, <1>4, <1>5, <1>6 DEF RustWindow!Next

LEMMA RustIsExact == RustIInv => RustWindow!TypeOK /\ RustWindow!ListComplete
  <1> SUFFICES ASSUME RustIInv PROVE RustWindow!ListComplete
    BY DEF RustIInv
  <1>1. rustRequests \in Seq(Nat) /\ Ordered(rustRequests)
    BY PrunedList DEF RustIInv, RustWindow!TypeOK, RustWindow!Cap
  <1> QED  BY <1>1, RetainedIs DEF RustIInv, RustWindow!ListComplete

LEMMA RustRefinesNext ==
    ASSUME RustIInv, [RustWindow!Next]_(RustWindow!vars)
    PROVE  [RustWindow!Abs!Next]_rustRecent
  <1>1. ASSUME NEW c \in Goroutines, RustWindow!Admit(c) PROVE RustWindow!Abs!Admit
    <2>1. /\ Len(rustRecent) <= Len(rustRequests)
          /\ Len(rustRecent) \in Nat /\ Len(rustRequests) \in Nat
      BY PrunedList DEF RustIInv, RustWindow!TypeOK, RustWindow!Cap
    <2> QED  BY <1>1, <2>1, MaxRequestsAssumption DEF RustWindow!Admit, RustWindow!Abs!Admit
  <1>2. CASE RustWindow!Tick
    BY <1>2 DEF RustWindow!Tick, RustWindow!Abs!Tick, RustWindow!Abs!Next
  <1>3. ASSUME NEW c \in Goroutines,
               \/ RustWindow!Call(c) \/ RustWindow!Prune(c)
               \/ RustWindow!Wait(c) \/ RustWindow!Wake(c)
        PROVE  UNCHANGED rustRecent
    BY <1>3 DEF RustWindow!Call, RustWindow!Prune, RustWindow!Wait, RustWindow!Wake
  <1>4. CASE UNCHANGED RustWindow!vars
    BY <1>4 DEF RustWindow!vars
  <1> QED  BY <1>1, <1>2, <1>3, <1>4 DEF RustWindow!Next, RustWindow!Abs!Next

-----------------------------------------------------------------------------
(* The Go window.  The refinement needs the list to be complete here too,  *)
(* and the mutex to be locked by whoever works on it.                      *)
GoIInv ==
    /\ GoWindow!TypeOK /\ GoWindow!MutexExact /\ GoWindow!NoFatalError
    /\ Ordered(goRequests) /\ goRecent = Young(goRequests)

LEMMA GoInit == GoWindow!Init => GoIInv
  <1> SUFFICES ASSUME GoWindow!Init PROVE GoIInv
    OBVIOUS
  <1>1. goLocked \in BOOLEAN /\ goCrashed \in BOOLEAN /\ GoWindow!NoFatalError
    BY DEF GoWindow!Init, GoWindow!NoFatalError
  <1>2. GoWindow!TypeOK
    BY <1>1, EmptyList, WindowAssumption DEF GoWindow!Init, GoWindow!TypeOK, GoWindow!PcStates
  <1>3. GoWindow!MutexExact
    BY DEF GoWindow!Init, GoWindow!MutexExact
  <1> QED  BY <1>1, <1>2, <1>3, EmptyList DEF GoWindow!Init, GoIInv

(* Lock and Unlock keep the mutex exact, whatever happens to the list; an  *)
(* Unlock is run by the goroutine inside, so the mutex is locked then.     *)
LEMMA GoMutex ==
    ASSUME GoIInv, NEW c \in Goroutines,
           \/ GoWindow!Call(c) \/ GoWindow!Lock(c) \/ GoWindow!Admit(c)
           \/ GoWindow!Wait(c) \/ GoWindow!Fire(c) \/ GoWindow!Return(c)
    PROVE  /\ GoWindow!MutexExact'
           /\ goAt' \in [Goroutines -> GoWindow!PcStates]
           /\ goLocked' \in BOOLEAN /\ goCrashed' \in BOOLEAN /\ ~goCrashed'
  <1> DEFINE In == {d \in Goroutines : goAt[d] \in {"critical", "returning"}}
  <1>1. /\ goAt \in [Goroutines -> GoWindow!PcStates]
        /\ goLocked \in BOOLEAN /\ goCrashed \in BOOLEAN /\ ~goCrashed
        /\ \A d, e \in In : d = e
        /\ goLocked <=> In # {}
    BY DEF GoIInv, GoWindow!TypeOK, GoWindow!MutexExact, GoWindow!NoFatalError
  <1>2. TRUE \in BOOLEAN /\ FALSE \in BOOLEAN
    OBVIOUS
  <1>3. CASE GoWindow!Call(c) \/ GoWindow!Fire(c)
    <2>1. In' = In /\ UNCHANGED <<goLocked, goCrashed>>
      BY <1>1, <1>3 DEF GoWindow!Call, GoWindow!Fire
    <2>2. goAt' \in [Goroutines -> GoWindow!PcStates]
      BY <1>1, <1>3 DEF GoWindow!Call, GoWindow!Fire, GoWindow!PcStates
    <2>3. GoWindow!MutexExact'
      BY <1>1, <2>1 DEF GoWindow!MutexExact
    <2> QED  BY <1>1, <2>1, <2>2, <2>3
  <1>4. CASE GoWindow!Lock(c)
    <2>1. In' = {c} /\ goLocked' = TRUE /\ UNCHANGED goCrashed
      BY <1>1, <1>4 DEF GoWindow!Lock
    <2>2. goAt' \in [Goroutines -> GoWindow!PcStates]
      BY <1>1, <1>4 DEF GoWindow!Lock, GoWindow!PcStates
    <2>3. GoWindow!MutexExact'
      BY <2>1 DEF GoWindow!MutexExact
    <2> QED  BY <1>1, <1>2, <2>1, <2>2, <2>3
  <1>5. CASE GoWindow!Admit(c)
    <2>1. In' = In /\ UNCHANGED <<goLocked, goCrashed>>
      BY <1>1, <1>5 DEF GoWindow!Admit
    <2>2. goAt' \in [Goroutines -> GoWindow!PcStates]
      BY <1>1, <1>5 DEF GoWindow!Admit, GoWindow!PcStates
    <2>3. GoWindow!MutexExact'
      BY <1>1, <2>1 DEF GoWindow!MutexExact
    <2> QED  BY <1>1, <2>1, <2>2, <2>3
  <1>6. CASE GoWindow!Wait(c) \/ GoWindow!Return(c)
    <2>1. In' = {} /\ goLocked' = FALSE
      BY <1>1, <1>6 DEF GoWindow!Wait, GoWindow!Return
    <2>2. goAt' \in [Goroutines -> GoWindow!PcStates]
      BY <1>1, <1>6 DEF GoWindow!Wait, GoWindow!Return, GoWindow!PcStates
    <2>3. goCrashed' = FALSE
      <3>1. goCrashed' = (goCrashed \/ ~goLocked) /\ c \in In
        BY <1>6 DEF GoWindow!Wait, GoWindow!Return
      <3> QED  BY <1>1, <3>1
    <2>4. GoWindow!MutexExact'
      BY <2>1 DEF GoWindow!MutexExact
    <2> QED  BY <1>1, <1>2, <2>1, <2>2, <2>3, <2>4
  <1> QED  BY <1>3, <1>4, <1>5, <1>6

LEMMA GoStep ==
    ASSUME GoIInv, [GoWindow!Next]_(GoWindow!vars)
    PROVE  GoIInv'
  <1> DEFINE List == /\ goRequests \in Seq(0 .. Window) /\ Ordered(goRequests)
                     /\ goRecent = Young(goRequests) /\ goRecent \in Seq(0 .. Window - 1)
                     /\ goTimer \in [Goroutines -> 0 .. Window]
  <1>0. List /\ Window \in {Window, Window + 1}
    BY DEF GoIInv, GoWindow!TypeOK
  <1>1. ASSUME NEW c \in Goroutines,
               \/ GoWindow!Call(c) \/ GoWindow!Lock(c) \/ GoWindow!Admit(c)
               \/ GoWindow!Wait(c) \/ GoWindow!Fire(c) \/ GoWindow!Return(c)
        PROVE  List'
    <2>1. CASE GoWindow!Call(c) \/ GoWindow!Fire(c) \/ GoWindow!Return(c)
      BY <1>0, <2>1 DEF GoWindow!Call, GoWindow!Fire, GoWindow!Return
    <2>2. CASE GoWindow!Lock(c)
      <3>1. goRequests' = Young(goRequests) /\ UNCHANGED <<goTimer, goRecent>>
        BY <1>0, <2>2, EvictedIs, PrunedList DEF GoWindow!Lock
      <3>2. /\ goRequests' \in Seq(0 .. Window) /\ Ordered(goRequests')
            /\ Young(goRequests') = Young(goRequests)
        BY <1>0, <3>1, PrunedList
      <3> QED  BY <1>0, <3>1, <3>2
    <2>3. CASE GoWindow!Admit(c)
      <3>1. /\ goRequests' = Append(goRequests, 0) /\ goRecent' = Append(goRecent, 0)
            /\ UNCHANGED goTimer
        BY <2>3 DEF GoWindow!Admit
      <3>2. /\ goRequests' \in Seq(0 .. Window) /\ Ordered(goRequests')
            /\ Young(goRequests') = goRecent' /\ goRecent' \in Seq(0 .. Window - 1)
        BY <1>0, <3>1, RecordedList
      <3> QED  BY <1>0, <3>1, <3>2
    <2>4. CASE GoWindow!Wait(c)
      <3>1. /\ goTimer' = [goTimer EXCEPT ![c] = Window - Head(goRequests)]
            /\ Len(goRequests) >= MaxRequests /\ UNCHANGED <<goRequests, goRecent>>
        BY <2>4 DEF GoWindow!Wait
      <3>2. goRequests # << >>
        BY <3>1, EmptyList, MaxRequestsAssumption
      <3>3. Head(goRequests) \in 0 .. Window
        BY <1>0, <3>2, HeadOf
      <3>4. Window - Head(goRequests) \in 0 .. Window
        BY <3>3, WindowAssumption
      <3> QED  BY <1>0, <3>1, <3>4
    <2> QED  BY <1>1, <2>1, <2>2, <2>3, <2>4
  <1>2. CASE GoWindow!Tick
    <2>1. /\ goRequests' = [i \in DOMAIN goRequests |->
                              IF goRequests[i] < Window THEN goRequests[i] + 1 ELSE Window]
          /\ goRecent' = RustWindow!Abs!Aged(Young(goRequests))
          /\ UNCHANGED <<goLocked, goAt, goCrashed>>
      BY <1>0, <1>2, SameWindow DEF GoWindow!Tick
    <2>2. goTimer' \in [Goroutines -> 0 .. Window]
      BY <1>0, <1>2, WindowAssumption DEF GoWindow!Tick
    <2>3. /\ goRequests' \in Seq(0 .. Window) /\ Ordered(goRequests')
          /\ Young(goRequests') = goRecent' /\ goRecent' \in Seq(0 .. Window - 1)
      BY <1>0, <2>1, TickedList
    <2>4. GoWindow!MutexExact'
      BY <2>1 DEF GoIInv, GoWindow!MutexExact
    <2> QED  BY <2>1, <2>2, <2>3, <2>4 DEF GoIInv, GoWindow!TypeOK, GoWindow!NoFatalError
  <1>3. CASE UNCHANGED GoWindow!vars
    BY <1>3
       DEF GoWindow!vars, GoIInv, GoWindow!TypeOK, GoWindow!MutexExact,
           GoWindow!NoFatalError
  <1>4. ASSUME NEW c \in Goroutines,
               \/ GoWindow!Call(c) \/ GoWindow!Lock(c) \/ GoWindow!Admit(c)
               \/ GoWindow!Wait(c) \/ GoWindow!Fire(c) \/ GoWindow!Return(c)
        PROVE  GoIInv'
    <2>1. List'
      BY <1>1, <1>4
    <2>2. /\ GoWindow!MutexExact' /\ goAt' \in [Goroutines -> GoWindow!PcStates]
          /\ goLocked' \in BOOLEAN /\ goCrashed' \in BOOLEAN /\ ~goCrashed'
      BY <1>4, GoMutex
    <2> QED  BY <2>1, <2>2 DEF GoIInv, GoWindow!TypeOK, GoWindow!NoFatalError
  <1> QED  BY <1>2, <1>3, <1>4 DEF GoWindow!Next

LEMMA GoRefinesNext ==
    ASSUME GoIInv, [GoWindow!Next]_(GoWindow!vars)
    PROVE  [GoWindow!Abs!Next]_goRecent
  <1>1. ASSUME NEW c \in Goroutines, GoWindow!Admit(c) PROVE GoWindow!Abs!Admit
    <2>1. /\ Len(goRecent) <= Len(goRequests)
          /\ Len(goRecent) \in Nat /\ Len(goRequests) \in Nat
      BY PrunedList DEF GoIInv, GoWindow!TypeOK
    <2> QED  BY <1>1, <2>1, MaxRequestsAssumption DEF GoWindow!Admit, GoWindow!Abs!Admit
  <1>2. CASE GoWindow!Tick
    BY <1>2 DEF GoWindow!Tick, GoWindow!Abs!Tick, GoWindow!Abs!Next
  <1>3. ASSUME NEW c \in Goroutines,
               \/ GoWindow!Call(c) \/ GoWindow!Lock(c) \/ GoWindow!Wait(c)
               \/ GoWindow!Fire(c) \/ GoWindow!Return(c)
        PROVE  UNCHANGED goRecent
    BY <1>3 DEF GoWindow!Call, GoWindow!Lock, GoWindow!Wait, GoWindow!Fire, GoWindow!Return
  <1>4. CASE UNCHANGED GoWindow!vars
    BY <1>4 DEF GoWindow!vars
  <1> QED  BY <1>1, <1>2, <1>3, <1>4 DEF GoWindow!Next, GoWindow!Abs!Next

-----------------------------------------------------------------------------
(* The TypeScript window, whose list is complete although it may hold more *)
(* than maxRequests.                                                       *)
TsIInv == TsWindow!TypeOK /\ Ordered(tsRequests) /\ tsRecent = Young(tsRequests)

LEMMA TsInit == TsWindow!Init => TsIInv
  BY EmptyList, WindowAssumption DEF TsWindow!Init, TsIInv, TsWindow!TypeOK

LEMMA TsStep ==
    ASSUME TsIInv, [TsWindow!Next]_(TsWindow!vars)
    PROVE  TsIInv'
  <1> USE DEF TsIInv, TsWindow!TypeOK
  <1>0. /\ Window \in {Window, Window + 1} /\ tsRequests \in Seq(0 .. Window)
        /\ Ordered(tsRequests)
    OBVIOUS
  <1>1. /\ TsWindow!Evicted(tsRequests) = Young(tsRequests)
        /\ Young(tsRequests) \in Seq(0 .. Window) /\ Young(tsRequests) \in Seq(0 .. Window - 1)
        /\ Ordered(Young(tsRequests)) /\ Young(Young(tsRequests)) = Young(tsRequests)
    BY <1>0, EvictedIs, PrunedList
  <1>2. /\ Append(Young(tsRequests), 0) \in Seq(0 .. Window)
        /\ Ordered(Append(Young(tsRequests), 0))
        /\ Young(Append(Young(tsRequests), 0)) = Append(Young(tsRequests), 0)
        /\ Append(Young(tsRequests), 0) \in Seq(0 .. Window - 1)
    BY <1>0, <1>1, RecordedList
  <1>3. ASSUME NEW c \in Goroutines, TsWindow!Acquire(c)
        PROVE  TsIInv'
    <2>1. CASE Len(Young(tsRequests)) >= MaxRequests
      <3>1. /\ tsRequests' = Young(tsRequests)
            /\ tsTimer' = [tsTimer EXCEPT ![c] = Window - Head(Young(tsRequests))]
            /\ tsPc' = [tsPc EXCEPT ![c] = "sleeping"] /\ UNCHANGED tsRecent
        BY <1>1, <1>3, <2>1 DEF TsWindow!Acquire
      <3>2. Young(tsRequests) # << >>
        BY <2>1, EmptyList, MaxRequestsAssumption
      <3>3. Head(Young(tsRequests)) \in 0 .. Window
        BY <1>1, <3>2, HeadOf
      <3>4. Window - Head(Young(tsRequests)) \in 0 .. Window
        BY <3>3, WindowAssumption
      <3>5. /\ tsTimer' \in [Goroutines -> 0 .. Window]
            /\ tsPc' \in [Goroutines -> {"idle", "sleeping"}]
        BY <3>1, <3>4
      <3> QED  BY <1>1, <3>1, <3>5
    <2>2. CASE ~(Len(Young(tsRequests)) >= MaxRequests)
      <3>1. /\ tsRequests' = Append(Young(tsRequests), 0) /\ tsRecent' = Append(tsRecent, 0)
            /\ UNCHANGED <<tsPc, tsTimer>>
        BY <1>1, <1>3, <2>2 DEF TsWindow!Acquire
      <3> QED  BY <1>2, <3>1
    <2> QED  BY <2>1, <2>2
  <1>4. ASSUME NEW c \in Goroutines, TsWindow!Fire(c)
        PROVE  TsIInv'
    <2>1. /\ tsRequests' = Append(Young(tsRequests), 0) /\ tsRecent' = Append(tsRecent, 0)
          /\ tsPc' = [tsPc EXCEPT ![c] = "idle"] /\ UNCHANGED tsTimer
      BY <1>1, <1>4 DEF TsWindow!Fire
    <2>2. tsPc' \in [Goroutines -> {"idle", "sleeping"}]
      BY <2>1
    <2> QED  BY <1>2, <2>1, <2>2
  <1>5. CASE TsWindow!Tick
    <2>1. /\ tsRequests' = [i \in DOMAIN tsRequests |->
                              IF tsRequests[i] < Window THEN tsRequests[i] + 1 ELSE Window]
          /\ tsRecent' = RustWindow!Abs!Aged(Young(tsRequests)) /\ UNCHANGED tsPc
      BY <1>5, SameWindow DEF TsWindow!Tick
    <2>2. tsTimer' \in [Goroutines -> 0 .. Window]
      BY <1>5, WindowAssumption DEF TsWindow!Tick
    <2>3. /\ tsRequests' \in Seq(0 .. Window) /\ Ordered(tsRequests')
          /\ Young(tsRequests') = tsRecent' /\ tsRecent' \in Seq(0 .. Window - 1)
      BY <1>0, <2>1, TickedList
    <2> QED  BY <2>1, <2>2, <2>3
  <1>6. CASE UNCHANGED TsWindow!vars
    BY <1>6 DEF TsWindow!vars
  <1> QED  BY <1>3, <1>4, <1>5, <1>6 DEF TsWindow!Next

LEMMA TsIsExact == TsIInv => TsWindow!TypeOK /\ TsWindow!ListComplete
  <1> SUFFICES ASSUME TsIInv PROVE TsWindow!ListComplete
    BY DEF TsIInv
  <1>1. tsRequests \in Seq(Nat) /\ Ordered(tsRequests)
    BY PrunedList DEF TsIInv, TsWindow!TypeOK
  <1> QED  BY <1>1, EvictedIs DEF TsIInv, TsWindow!ListComplete

-----------------------------------------------------------------------------
(* The token buckets.  The cap on the age is out of sight: when it bites,  *)
(* the bucket is full whatever it held.                                    *)
BucketIInv ==
    /\ tokens \in 0 .. Bucket!Full
    /\ age \in 0 .. Bucket!AgeCap
    /\ Bucket!Refilled = credit

LEMMA MinOfTwo ==
    ASSUME NEW a \in Int, NEW b \in Int
    PROVE  Bucket!Min({a, b}) = IF a <= b THEN a ELSE b
  <1> DEFINE P(x) == \A y \in {a, b} : x <= y
             m == IF a <= b THEN a ELSE b
  <1>1. m \in {a, b} /\ P(m)
    OBVIOUS
  <1>2. \A x \in {a, b} : P(x) => x = m
    OBVIOUS
  <1>3. (CHOOSE x \in {a, b} : P(x)) = m
    <2> HIDE DEF P, m
    <2> QED  BY <1>1, <1>2
  <1> QED  BY <1>3 DEF Bucket!Min

LEMMA FullIsNat == Bucket!Full \in Nat
  BY BucketAssumption DEF Bucket!Full

(* Rate parts come in per tick, and in AgeCap ticks a bucket is filled. *)
LEMMA AgeCapFills == Bucket!AgeCap \in Nat /\ Bucket!AgeCap * Rate >= Bucket!Full
  <1> DEFINE q == Bucket!Full \div Rate
             f == Bucket!Full
  <1>1. f \in Nat /\ Rate \in Nat /\ Rate > 0
    BY FullIsNat, BucketAssumption
  <1> HIDE DEF f
  <1>2. (f \div Rate) \in Nat /\ f < ((f \div Rate) + 1) * Rate
    BY <1>1
  <1> QED  BY <1>1, <1>2 DEF Bucket!AgeCap, f

LEMMA RefilledIs ==
    ASSUME NEW t \in Nat, NEW a \in Nat
    PROVE  /\ a * Rate \in Nat
           /\ Bucket!Min({Bucket!Full, t + a * Rate}) =
                 IF Bucket!Full <= t + a * Rate THEN Bucket!Full ELSE t + a * Rate
  <1>1. a * Rate \in Nat
    BY BucketAssumption
  <1>2. t + a * Rate \in Nat
    BY <1>1
  <1> QED  BY <1>1, <1>2, FullIsNat, MinOfTwo

LEMMA BucketInit == Bucket!Init => BucketIInv
  <1> SUFFICES ASSUME Bucket!Init PROVE BucketIInv
    OBVIOUS
  <1>1. tokens = Bucket!Full /\ age = 0 /\ credit = Bucket!Full
    BY DEF Bucket!Init
  <1>2. tokens + age * Rate = Bucket!Full
    BY <1>1, FullIsNat, BucketAssumption
  <1>3. Bucket!Refilled = Bucket!Full
    BY <1>2, FullIsNat, MinOfTwo DEF Bucket!Refilled
  <1> QED  BY <1>1, <1>3, FullIsNat, AgeCapFills DEF BucketIInv

LEMMA BucketStep ==
    ASSUME BucketIInv, [Bucket!Next]_(Bucket!vars)
    PROVE  BucketIInv'
  <1> DEFINE full == Bucket!Full
             now == Bucket!Refilled
  <1>0. /\ full \in Nat /\ Rate \in Nat \ {0} /\ Unit \in Nat \ {0}
        /\ tokens \in Nat /\ tokens <= full
        /\ age \in Nat /\ age <= Bucket!AgeCap /\ Bucket!AgeCap \in Nat
        /\ Bucket!AgeCap * Rate >= full
    BY FullIsNat, AgeCapFills, BucketAssumption DEF BucketIInv
  <1>1. /\ age * Rate \in Nat
        /\ now = IF full <= tokens + age * Rate THEN full ELSE tokens + age * Rate
    <2>1. now = Bucket!Min({full, tokens + age * Rate})
      BY DEF Bucket!Refilled
    <2> HIDE DEF now
    <2> QED  BY <1>0, <2>1, RefilledIs
  <1>2. now \in 0 .. full /\ credit = now
    BY <1>0, <1>1 DEF BucketIInv
  <1> HIDE DEF full, now
  <1>3. CASE Bucket!Tick
    <2>1. /\ age' = Bucket!Min({Bucket!AgeCap, age + 1})
          /\ credit' = Bucket!Min({full, credit + Rate}) /\ tokens' = tokens
      BY <1>3 DEF Bucket!Tick, full
    <2>2. age' = IF Bucket!AgeCap <= age + 1 THEN Bucket!AgeCap ELSE age + 1
      BY <1>0, <2>1, MinOfTwo
    <2>3. credit' = IF full <= now + Rate THEN full ELSE now + Rate
      <3>1. full \in Int /\ credit + Rate \in Int
        BY <1>0, <1>2
      <3> QED  BY <1>2, <2>1, <3>1, MinOfTwo
    <2>4. age' \in 0 .. Bucket!AgeCap /\ age' \in Nat
      BY <1>0, <2>2
    <2>5. /\ age' * Rate \in Nat
          /\ now' = IF full <= tokens + age' * Rate THEN full ELSE tokens + age' * Rate
      <3>1. now' = Bucket!Min({Bucket!Full, tokens + age' * Rate})
        BY <2>1 DEF Bucket!Refilled, now
      <3> QED  BY <1>0, <2>4, <3>1, RefilledIs DEF full
    <2>6. now' = credit'
      <3>1. CASE age + 1 <= Bucket!AgeCap
        <4>1. age' = age + 1
          BY <1>0, <2>2, <3>1
        <4>2. (age + 1) * Rate = age * Rate + Rate
          BY <1>0
        <4>3. tokens + age' * Rate = (tokens + age * Rate) + Rate
          BY <1>0, <1>1, <4>1, <4>2
        <4> QED  BY <1>0, <1>1, <2>3, <2>5, <4>3
      <3>2. CASE ~(age + 1 <= Bucket!AgeCap)
        <4>1. age = Bucket!AgeCap /\ age' = age
          BY <1>0, <2>2, <3>2
        <4>2. now = full
          BY <1>0, <1>1, <4>1
        <4>3. now' = full
          BY <1>0, <1>1, <2>5, <4>1
        <4> QED  BY <1>0, <2>3, <4>2, <4>3
      <3> QED  BY <3>1, <3>2
    <2> QED  BY <1>0, <2>1, <2>4, <2>6 DEF BucketIInv, full, now
  <1>4. ASSUME NEW c \in Goroutines, NEW nap, Bucket!Take(c, nap)
        PROVE  BucketIInv'
    <2>1. age' = 0 /\ \/ now >= Unit /\ tokens' = now - Unit /\ credit' = credit - Unit
                      \/ tokens' = now /\ credit' = credit
      BY <1>4 DEF Bucket!Take, now
    <2>2. tokens' \in Nat /\ tokens' <= full /\ credit' = tokens'
      BY <1>0, <1>2, <2>1
    <2>3. tokens' + age' * Rate = tokens'
      <3>1. 0 * Rate = 0
        BY <1>0
      <3> QED  BY <2>1, <2>2, <3>1
    <2>4. now' = tokens'
      <3>1. full \in Int /\ tokens' \in Int
        BY <1>0, <2>2
      <3>2. Bucket!Min({full, tokens'}) = IF full <= tokens' THEN full ELSE tokens'
        BY <3>1, MinOfTwo
      <3>3. now' = Bucket!Min({full, tokens'})
        BY <2>3 DEF Bucket!Refilled, full, now
      <3> QED  BY <1>0, <2>2, <3>2, <3>3
    <2> QED  BY <1>0, <2>1, <2>2, <2>4 DEF BucketIInv, full, now
  <1>5. ASSUME NEW c \in Goroutines, Bucket!Acquire(c)
        PROVE  BucketIInv'
    BY <1>4, <1>5 DEF Bucket!Acquire, Bucket!RustAcquire, Bucket!GoAcquire, Bucket!TsAcquire
  <1>6. ASSUME NEW c \in Goroutines, Bucket!Call(c) \/ Bucket!Wake(c) \/ Bucket!Cancel(c)
        PROVE  BucketIInv'
    BY <1>6 DEF Bucket!Call, Bucket!Wake, Bucket!Cancel, BucketIInv, Bucket!Refilled
  <1>7. CASE UNCHANGED Bucket!vars
    BY <1>7 DEF Bucket!vars, BucketIInv, Bucket!Refilled
  <1> QED  BY <1>3, <1>5, <1>6, <1>7 DEF Bucket!Next

-----------------------------------------------------------------------------
(* All of them in one model. *)
allVars == <<part, vars, gateVars, rustVars, goVars, tsVars, bucketVars>>

(* The inductive invariant. *)
Admission == Inv /\ GateIInv /\ RustIInv /\ GoIInv /\ TsIInv /\ BucketIInv

(* A step of the model is a step of one part, and the others stand still. *)
LEMMA Parts ==
    ASSUME [MCNext]_allVars
    PROVE  /\ [Next]_vars
           /\ [GoGate!Next]_(GoGate!vars)
           /\ [RustWindow!Next]_(RustWindow!vars)
           /\ [GoWindow!Next]_(GoWindow!vars)
           /\ [TsWindow!Next]_(TsWindow!vars)
           /\ [Bucket!Next]_(Bucket!vars)
  BY DEF MCNext, allVars, gateVars, rustVars, goVars, tsVars, bucketVars,
         GoGate!vars, RustWindow!vars, GoWindow!vars, TsWindow!vars, Bucket!vars

LEMMA InitAdmission == MCInit => Admission
  BY InitInv, InitGate, RustInit, GoInit, TsInit, BucketInit DEF MCInit, Admission

LEMMA NextAdmission == Admission /\ [MCNext]_allVars => Admission'
  BY Parts, NextInv, GateStep, RustStep, GoStep, TsStep, BucketStep DEF Admission

(* The inductive invariant of gates and limiters holds in every reachable  *)
(* state, whichever of them runs.                                          *)
THEOREM AdmissionInvariance == MCSpec => []Admission
  BY InitAdmission, NextAdmission, PTL DEF MCSpec, allVars

(* createSemaphore of TypeScript and the gate of Go's DoJSON and DoStream  *)
(* keep exact books, for every number of callers and every limit.          *)
THEOREM GatesAreExact == MCSpec => []GatesExact
  <1>1. Admission => GatesExact
    BY GateIsExact DEF Admission, Inv, GatesExact
  <1> QED  BY <1>1, AdmissionInvariance, PTL

(* The lists of the sliding windows forget no request that still counts,   *)
(* Go's mutex is held by whoever works on its list, and a token bucket     *)
(* that is refilled on demand holds what one refilled at every instant     *)
(* would: for every number of callers, window, limit, burst and rate.      *)
THEOREM LimitersAreExact == MCSpec => []LimitersExact
  <1>1. Admission => LimitersExact
    BY RustIsExact, TsIsExact
       DEF Admission, GoIInv, BucketIInv, Bucket!BucketExact, LimitersExact
  <1> QED  BY <1>1, AdmissionInvariance, PTL

(* Without a cancelled wait the deferred Unlock of Go's SlidingWindow      *)
(* always finds the mutex locked: the fatal error that a cancelled context *)
(* leads to has no other cause.                                            *)
THEOREM OnlyCancelIsFatal == MCSpec => []GoWindow!NoFatalError
  <1>1. Admission => GoWindow!NoFatalError
    BY DEF Admission, GoIInv
  <1> QED  BY <1>1, AdmissionInvariance, PTL

(* createSemaphore, and the channel of concurrency.go on a client built    *)
(* with WithMaxConcurrent, implement the bounded gate, for every number of *)
(* callers and every limit, cancelled contexts included: nobody makes a    *)
(* second Go semaphore, so a slot is freed where it was taken.             *)
THEOREM GatesAreSlots == MCSpec => GatesImplementSlots
  <1>1. MCInit => Slots!Init /\ GoGate!Slots!Init
    BY InitRefines, GateRefinesInit DEF MCInit
  <1>2. Admission /\ Admission' /\ [MCNext]_allVars => /\ [Slots!Next]_Phase
                                                     /\ [GoGate!Slots!Next]_(GoGate!Phase)
    BY Parts, NextRefines, GateRefinesNext DEF Admission
  <1> QED  BY <1>1, <1>2, AdmissionInvariance, PTL
           DEF MCSpec, allVars, GatesImplementSlots, ImplementsSlots, Slots!Spec,
               GoGate!ImplementsSlots, GoGate!Slots!Spec

(* The Rust and the Go limiter implement the rolling window: the requests  *)
(* they admit in any Window ticks are at most MaxRequests.                 *)
THEOREM WindowsAreKept == MCSpec => WindowsKept
  <1>1. MCInit => RustWindow!Abs!Init /\ GoWindow!Abs!Init
    BY DEF MCInit, RustWindow!Init, GoWindow!Init, RustWindow!Abs!Init, GoWindow!Abs!Init
  <1>2. Admission /\ [MCNext]_allVars => /\ [RustWindow!Abs!Next]_rustRecent
                                         /\ [GoWindow!Abs!Next]_goRecent
    BY Parts, RustRefinesNext, GoRefinesNext DEF Admission
  <1> QED  BY <1>1, <1>2, AdmissionInvariance, PTL
           DEF MCSpec, allVars, WindowsKept, RustWindow!ImplementsWindow,
               GoWindow!ImplementsWindow, RustWindow!Abs!Spec, GoWindow!Abs!Spec

-----------------------------------------------------------------------------
(* What the comment "FIFO" says of a step. *)
InOrder ==
    /\ \A i, j \in DOMAIN waiters :
          (i < j /\ pc'[waiters[j]] = "granted") => pc'[waiters[i]] # "waiting"
    /\ \A c \in Callers : (pc[c] = "idle" /\ pc'[c] = "granted") => Waiting = {}

LEMMA StepsInOrder == Inv /\ [Next]_vars => [InOrder]_vars
  <1> SUFFICES ASSUME Inv, Next PROVE InOrder
    OBVIOUS
  <1>0. /\ pc \in [Callers -> PcStates]
        /\ \A i \in DOMAIN waiters : waiters[i] \in Callers /\ pc[waiters[i]] = "waiting"
    BY DEF Inv, TypeOK, QueueExact, Waiting
  <1>1. ASSUME NEW c \in Callers, Acquire(c) PROVE InOrder
    <2>1. CASE active < MaxConcurrent
      <3>1. pc' = [pc EXCEPT ![c] = "granted"] /\ pc[c] = "idle"
        BY <1>1, <2>1 DEF Acquire
      <3>2. waiters = << >>
        BY <2>1, MaxConcurrentAssumption DEF Inv, TypeOK, NoIdleSlot
      <3>3. Waiting = {}
        BY <3>2 DEF Inv, QueueExact
      <3> QED  BY <1>0, <3>2, <3>3 DEF InOrder
    <2>2. CASE ~(active < MaxConcurrent)
      BY <1>0, <1>1, <2>2 DEF Acquire, InOrder
    <2> QED  BY <2>1, <2>2
  <1>2. ASSUME NEW c \in Callers, Resume(c) PROVE InOrder
    BY <1>0, <1>2 DEF Resume, InOrder
  <1>3. ASSUME NEW c \in Callers, Release(c) PROVE InOrder
    <2> DEFINE n == active - 1
    <2>1. active # 0
      <3>1. c \in Holders
        BY <1>3 DEF Release, Holders
      <3> QED  BY <3>1, CallerSetsFinite, FS_EmptySet DEF Inv, CountExact, Holders
    <2>2. /\ pc[c] = "dispatching"
          /\ pc' = [d \in Callers |-> IF d = c THEN "idle"
                                      ELSE IF d \in Woken(n) THEN "granted"
                                      ELSE pc[d]]
      BY <1>3, <2>1 DEF Release
    <2>3. n \in Nat
      BY <2>1 DEF Inv, TypeOK
    <2>4. WakeCount(n) \in Nat /\ DOMAIN waiters = 1 .. Len(waiters) /\ Len(waiters) \in Nat
      BY <2>3, WakeCountBounds DEF Inv, TypeOK
    <2>5. ASSUME NEW i \in DOMAIN waiters, NEW j \in DOMAIN waiters, i < j,
                 pc'[waiters[j]] = "granted"
          PROVE  pc'[waiters[i]] # "waiting"
      <3>1. waiters[j] \in Woken(n)
        BY <1>0, <2>2, <2>5
      <3>2. PICK k \in 1 .. WakeCount(n) : waiters[j] = waiters[k]
        BY <3>1 DEF Woken
      <3>3. WakeCount(n) <= Len(waiters)
        BY <2>3, WakeCountBounds DEF Inv, TypeOK
      <3>4. k \in DOMAIN waiters
        BY <2>4, <3>2, <3>3
      <3>5. j = k
        BY <3>2, <3>4 DEF Inv, QueueExact
      <3>6. i \in 1 .. WakeCount(n)
        BY <2>4, <2>5, <3>2, <3>5
      <3>7. waiters[i] \in Woken(n)
        BY <3>6 DEF Woken
      <3> QED  BY <1>0, <2>2, <3>7
    <2>6. \A d \in Callers : pc[d] = "idle" => pc'[d] # "granted"
      <3>1. Woken(n) \subseteq Waiting
        BY <2>3, WokenProperties DEF Inv
      <3> QED  BY <2>2, <3>1 DEF Waiting
    <2> QED  BY <2>5, <2>6 DEF InOrder
  <1> QED  BY <1>1, <1>2, <1>3 DEF Next

(* A call is never given a slot while one that queued before it waits:     *)
(* release takes the waiters from the front, and acquire grants at once    *)
(* only when nobody waits.                                                 *)
THEOREM FirstComeFirstServed == Spec => Fifo
  <1>1. Inv /\ [Next]_vars => [InOrder]_vars
    BY StepsInOrder
  <1> QED  BY <1>1, Invariance, PTL DEF Spec, Fifo, InOrder
=============================================================================
