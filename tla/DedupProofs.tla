---------------------------- MODULE DedupProofs -----------------------------
(***************************************************************************)
(* Proofs about the request dedupers of the three SDKs, for any finite     *)
(* number of callers.  What a caller returns depends on which of two       *)
(* flights of a key it joined, so the inductive invariants say who holds   *)
(* an end of which channel (Rust) or rides on which call (Go) or promise   *)
(* (TypeScript), and when the names of finished flights are free again.    *)
(***************************************************************************)
EXTENDS MCDedup, TLAPS, FiniteSetTheorems

(* A set smaller than 1 .. n leaves one of these numbers out. *)
LEMMA FreeIndex ==
    ASSUME NEW U, IsFiniteSet(U), NEW n \in Nat, Cardinality(U) < n
    PROVE  \E f \in 1 .. n : f \notin U
  <1> SUFFICES ASSUME 1 .. n \subseteq U PROVE FALSE
    OBVIOUS
  <1>1. Cardinality(1 .. n) = n
    BY FS_Interval
  <1>2. Cardinality(1 .. n) <= Cardinality(U)
    BY FS_Subset
  <1> QED  BY <1>1, <1>2, FS_CardinalityType

(* The values of a function on a finite set are no more than its arguments. *)
LEMMA FewValues ==
    ASSUME NEW S, IsFiniteSet(S), NEW F
    PROVE  /\ IsFiniteSet({F[x] : x \in S})
           /\ Cardinality({F[x] : x \in S}) \in Nat
           /\ Cardinality({F[x] : x \in S}) <= Cardinality(S)
  <1> DEFINE T == {F[x] : x \in S}
             f == [x \in S |-> F[x]]
  <1>1. f \in Surjection(S, T)
    BY DEF Surjection
  <1>2. IsFiniteSet(T) /\ Cardinality(T) <= Cardinality(S)
    BY <1>1, FS_Surjection
  <1> QED  BY <1>2, FS_CardinalityType

(* Of as many numbers as there are callers, the others leave one over. *)
LEMMA FreeOfOthers ==
    ASSUME NEW c \in Callers, NEW F
    PROVE  \E f \in 1 .. Cardinality(Callers) : f \notin {F[d] : d \in Callers \ {c}}
  <1> DEFINE A == {F[d] : d \in Callers \ {c}}
  <1>1. /\ Cardinality(Callers) \in Nat /\ IsFiniteSet(Callers \ {c})
        /\ Cardinality(Callers \ {c}) = Cardinality(Callers) - 1
    BY CallersAssumption, FS_CardinalityType, FS_RemoveElement
  <1>2. /\ IsFiniteSet(A) /\ Cardinality(A) \in Nat
        /\ Cardinality(A) <= Cardinality(Callers \ {c})
    BY <1>1, FewValues
  <1> HIDE DEF A
  <1>3. Cardinality(A) < Cardinality(Callers)
    BY <1>1, <1>2
  <1>4. \E f \in 1 .. Cardinality(Callers) : f \notin A
    BY <1>1, <1>2, <1>3, FreeIndex
  <1> QED  BY <1>4 DEF A

-----------------------------------------------------------------------------
(* RustDedup. *)

(* A task inside dedupe has a key and holds an end of a channel, an idle   *)
(* one holds nothing.                                                      *)
HoldsChannel ==
    \A t \in Callers :
        /\ pc[t] = "idle" => chan[t] = Nothing /\ inbox[t] = Nothing /\ ~late[t]
        /\ pc[t] # "idle" => chan[t] \in Chans /\ key[t] \in Keys
        /\ pc[t] # "receiving" /\ pc[t] # "returned" => inbox[t] = Nothing

(* No two keys share a channel, no two leaders a key. *)
OwnChannels ==
    /\ \A k, l \in Keys : inflight[k] = inflight[l] /\ inflight[k] # Nothing => k = l
    /\ \A t, u \in Callers : Leading(t) /\ Leading(u) /\ key[t] = key[u] => t = u

(* What f returned is recorded for the leader's channel, and nobody else   *)
(* has seen anything of that channel before the send.                      *)
LeaderFirst ==
    /\ \A t \in Callers :
          /\ pc[t] = "running" => landed[chan[t]] = Nothing
          /\ pc[t] \in {"sending", "removing"} =>
                result[t] \in Outcomes /\ result[t] = landed[chan[t]]
    /\ \A t, u \in Callers :
          /\ pc[t] \in {"running", "sending"} /\ chan[u] = chan[t]
          => pc[u] # "returned" /\ inbox[u] = Nothing

(* What a receiver holds is what its own flight sent. *)
InboxHonest ==
    \A t \in Callers : inbox[t] # Nothing => inbox[t] = Wire(landed[chan[t]])

(* Who subscribed in time holds the outcome once it was sent, and until    *)
(* then a sender is left.                                                  *)
InTime ==
    /\ \A t, u \in Callers :
          (/\ pc[t] = "removing" /\ pc[u] = "receiving"
           /\ chan[u] = chan[t] /\ ~late[u]) => inbox[u] # Nothing
    /\ \A t \in Callers :
          (pc[t] = "receiving" /\ ~late[t] /\ inbox[t] = Nothing) => SenderLeft(chan[t])

(* The inductive invariant of the Rust deduper. *)
RustIInv == /\ TypeOK /\ HoldsChannel /\ OneLeader /\ OwnChannels /\ LeaderFirst
            /\ InboxHonest /\ InTime /\ NoForeignResult /\ EarlyFollowersServed

LEMMA InitRust == Init => RustIInv
  BY DEF Init, RustIInv, TypeOK, PcStates, HoldsChannel, OneLeader, Leading, OwnChannels,
         LeaderFirst, InboxHonest, InTime, NoForeignResult, EarlyFollowersServed

(* While a task is idle and a key is not listed there is a channel nobody  *)
(* holds an end of.                                                        *)
LEMMA FreshChannel ==
    ASSUME TypeOK, HoldsChannel, NEW t \in Callers, pc[t] = "idle"
    PROVE  /\ Fresh \in Chans
           /\ \A u \in Callers : chan[u] # Fresh
           /\ \A k \in Keys : inflight[k] # Fresh
  <1> DEFINE A == {chan[u] : u \in Callers \ {t}}
             B == {inflight[k] : k \in Keys}
             n == Cardinality(Callers) + Cardinality(Keys)
  <1>1. /\ Cardinality(Callers) \in Nat /\ Cardinality(Keys) \in Nat
        /\ IsFiniteSet(Callers \ {t})
        /\ Cardinality(Callers \ {t}) = Cardinality(Callers) - 1
    BY CallersAssumption, FS_CardinalityType, FS_RemoveElement
  <1>2. IsFiniteSet(A) /\ Cardinality(A) \in Nat /\ Cardinality(A) < Cardinality(Callers)
    <2>1. /\ IsFiniteSet(A) /\ Cardinality(A) \in Nat
          /\ Cardinality(A) <= Cardinality(Callers \ {t})
      BY <1>1, FewValues
    <2> HIDE DEF A
    <2> QED  BY <1>1, <2>1
  <1>3. IsFiniteSet(B) /\ Cardinality(B) \in Nat /\ Cardinality(B) <= Cardinality(Keys)
    BY <1>1, CallersAssumption, FewValues
  <1>4. /\ IsFiniteSet(A \cup B)
        /\ Cardinality(A \cup B) = Cardinality(A) + Cardinality(B) - Cardinality(A \cap B)
        /\ Cardinality(A \cap B) \in Nat
    BY <1>2, <1>3, FS_Union, FS_Intersection, FS_CardinalityType
  <1>5. Cardinality(A \cup B) < n /\ n \in Nat
    BY <1>1, <1>2, <1>3, <1>4
  <1>6. \E f \in Chans : f \notin A \cup B
    <2> HIDE DEF A, B, n
    <2>1. \E f \in 1 .. n : f \notin A \cup B
      BY <1>4, <1>5, FreeIndex
    <2> QED  BY <2>1 DEF Chans, n
  <1>7. chan[t] \notin Chans
    BY <1>1, ValuesAssumption DEF HoldsChannel, Chans
  <1>8. \E f \in Chans : (\A u \in Callers : chan[u] # f) /\ (\A k \in Keys : inflight[k] # f)
    BY <1>6, <1>7
  <1> QED  BY <1>8 DEF Fresh

LEMMA ChansNatural == Nothing \notin Chans
  BY ValuesAssumption, CallersAssumption, FS_CardinalityType DEF Chans

LEMMA WireIsSomething == \A o \in Outcomes : Wire(o) \in (Oks \cup {Message}) \ {Nothing, Closed}
  BY ValuesAssumption DEF Outcomes, Wire

LEMMA RustFollow ==
    ASSUME RustIInv, NEW t \in Callers, NEW k \in Keys, Follow(t, k)
    PROVE  RustIInv'
  <1> USE DEF RustIInv
  <1>1. TypeOK'
    BY DEF TypeOK, Follow, PcStates
  <1> QED  BY <1>1, ChansNatural
              DEF Follow, TypeOK, HoldsChannel, OneLeader, OwnChannels, Leading,
                  LeaderFirst, InboxHonest,
     InTime, SenderLeft, NoForeignResult, EarlyFollowersServed

LEMMA RustLead ==
    ASSUME RustIInv, NEW t \in Callers, NEW k \in Keys, Lead(t, k)
    PROVE  RustIInv'
  <1> USE DEF RustIInv
  <1> DEFINE f == Fresh
  <1>0. f \in Chans /\ (\A u \in Callers : chan[u] # f) /\ (\A l \in Keys : inflight[l] # f)
    BY FreshChannel DEF Lead
  <1>00. /\ pc[t] = "idle" /\ inflight[k] = Nothing
         /\ inflight' = [inflight EXCEPT ![k] = f]
    /\ landed' = [landed EXCEPT ![f] = Nothing]
    /\ pc' = [pc EXCEPT ![t] = "running"]
    /\ key' = [key EXCEPT ![t] = k]
    /\ chan' = [chan EXCEPT ![t] = f]
    /\ UNCHANGED <<inbox, result, late>>
    BY DEF Lead
  <1> HIDE DEF f
  <1>1. TypeOK'
    BY <1>0, <1>00 DEF TypeOK, PcStates
  <1>2. HoldsChannel' /\ OneLeader' /\ OwnChannels'
    BY <1>0, <1>00, <1>1, ChansNatural DEF TypeOK, HoldsChannel, OneLeader, OwnChannels, Leading
  <1>3. LeaderFirst'
    BY <1>0, <1>00, <1>1, ChansNatural
       DEF TypeOK, HoldsChannel, OneLeader, OwnChannels, Leading, LeaderFirst
  <1>4. InboxHonest' /\ NoForeignResult' /\ EarlyFollowersServed'
    BY <1>0, <1>00, <1>1, ChansNatural
       DEF TypeOK, HoldsChannel, InboxHonest, NoForeignResult, EarlyFollowersServed, Wire
  <1>5. InTime'
    BY <1>0, <1>00, <1>1, ChansNatural DEF TypeOK, HoldsChannel, InTime, SenderLeft, Leading
  <1> QED  BY <1>1, <1>2, <1>3, <1>4, <1>5

LEMMA RustFinish ==
    ASSUME RustIInv, NEW t \in Callers, NEW o \in Outcomes, Finish(t, o)
    PROVE  RustIInv'
  <1> USE DEF RustIInv
  <1>1. TypeOK'
    BY DEF TypeOK, Finish, PcStates, HoldsChannel
  <1>2. HoldsChannel' /\ OneLeader' /\ OwnChannels'
    BY <1>1 DEF Finish, TypeOK, HoldsChannel, OneLeader, OwnChannels, Leading
  <1>3. chan[t] \in Chans /\ key[t] \in Keys /\ Leading(t) /\ o # Nothing
    BY ValuesAssumption DEF Finish, HoldsChannel, Leading, Outcomes
  <1>4. \A u \in Callers : Leading(u) /\ chan[u] = chan[t] => u = t
    BY <1>3, ChansNatural DEF TypeOK, HoldsChannel, OneLeader, OwnChannels, Leading
  <1>5. LeaderFirst'
    BY <1>1, <1>3, <1>4 DEF Finish, TypeOK, HoldsChannel, Leading, LeaderFirst
  <1>6. InboxHonest' /\ NoForeignResult' /\ EarlyFollowersServed'
    BY <1>1, <1>3, <1>4
       DEF Finish, TypeOK, HoldsChannel, LeaderFirst, InboxHonest, NoForeignResult,
           EarlyFollowersServed, Wire
  <1>7. InTime'
    BY <1>1 DEF Finish, TypeOK, HoldsChannel, InTime, SenderLeft, Leading
  <1> QED  BY <1>1, <1>2, <1>5, <1>6, <1>7

LEMMA RustSend ==
    ASSUME RustIInv, NEW t \in Callers, Send(t)
    PROVE  RustIInv'
  <1> USE DEF RustIInv
  <1>0. Wire(result[t]) \in (Oks \cup {Message}) \ {Nothing, Closed}
    BY WireIsSomething DEF Send, LeaderFirst
  <1>1. TypeOK'
    BY <1>0 DEF TypeOK, Send, PcStates
  <1>2. HoldsChannel' /\ OneLeader' /\ OwnChannels'
    BY <1>1 DEF Send, TypeOK, HoldsChannel, OneLeader, OwnChannels, Leading
  <1>3. chan[t] \in Chans /\ key[t] \in Keys /\ Leading(t) 
    BY DEF Send, HoldsChannel, Leading
  <1>4. \A u \in Callers : Leading(u) /\ chan[u] = chan[t] => u = t
    BY <1>3, ChansNatural DEF TypeOK, HoldsChannel, OneLeader, OwnChannels, Leading
  <1>5. LeaderFirst'
    BY <1>1, <1>3, <1>4 DEF Send, TypeOK, HoldsChannel, Leading, LeaderFirst
  <1>6. InboxHonest' /\ NoForeignResult' /\ EarlyFollowersServed'
    BY <1>1, <1>3, <1>4
       DEF Send, TypeOK, HoldsChannel, LeaderFirst, InboxHonest, NoForeignResult,
           EarlyFollowersServed, Wire
  <1>7. InTime'
    BY <1>0, <1>1, <1>4 DEF Send, TypeOK, HoldsChannel, InTime, SenderLeft, Leading
  <1> QED  BY <1>1, <1>2, <1>5, <1>6, <1>7

LEMMA RustRemove ==
    ASSUME RustIInv, NEW t \in Callers, Remove(t)
    PROVE  RustIInv'
  <1> USE DEF RustIInv
  <1>1. TypeOK'
    BY DEF TypeOK, Remove, PcStates
  <1>3. chan[t] \in Chans /\ key[t] \in Keys /\ Leading(t) /\ inflight[key[t]] = chan[t]
    BY DEF Remove, HoldsChannel, Leading, OneLeader
  <1>4. \A u \in Callers : Leading(u) /\ chan[u] = chan[t] => u = t
    BY <1>3, ChansNatural DEF TypeOK, HoldsChannel, OneLeader, OwnChannels, Leading
  <1>2. HoldsChannel' /\ OneLeader' /\ OwnChannels'
    BY <1>1, <1>3, <1>4 DEF Remove, TypeOK, HoldsChannel, OneLeader, OwnChannels, Leading
  <1>5. LeaderFirst'
    BY <1>1, <1>3, <1>4 DEF Remove, TypeOK, HoldsChannel, Leading, LeaderFirst
  <1>6. InboxHonest' /\ NoForeignResult' /\ EarlyFollowersServed'
    BY <1>1, <1>3, <1>4, ValuesAssumption
       DEF Remove, TypeOK, HoldsChannel, LeaderFirst, InboxHonest, NoForeignResult,
           EarlyFollowersServed, Wire, Outcomes
  <1>7. InTime'
    BY <1>1, <1>3, <1>4 DEF Remove, TypeOK, HoldsChannel, InTime, SenderLeft, Leading
  <1> QED  BY <1>1, <1>2, <1>5, <1>6, <1>7

LEMMA RustRecv ==
    ASSUME RustIInv, NEW t \in Callers, Recv(t) \/ RecvClosed(t)
    PROVE  RustIInv'
  <1> USE DEF RustIInv
  <1>1. TypeOK'
    BY DEF TypeOK, Recv, RecvClosed, PcStates, Outcomes
  <1>2. HoldsChannel' /\ OneLeader' /\ OwnChannels'
    BY <1>1 DEF Recv, RecvClosed, TypeOK, HoldsChannel, OneLeader, OwnChannels, Leading
  <1>5. LeaderFirst'
    BY <1>1 DEF Recv, RecvClosed, TypeOK, HoldsChannel, Leading, LeaderFirst, SenderLeft
  <1>6. InboxHonest' /\ NoForeignResult'
    BY <1>1
       DEF Recv, RecvClosed, TypeOK, HoldsChannel, LeaderFirst, InboxHonest,
           NoForeignResult, Wire
  <1>7. InTime' /\ EarlyFollowersServed'
    BY <1>1, ValuesAssumption
       DEF Recv, RecvClosed, TypeOK, HoldsChannel, InTime, SenderLeft, Leading,
           EarlyFollowersServed
  <1> QED  BY <1>1, <1>2, <1>5, <1>6, <1>7

LEMMA RustForget ==
    ASSUME RustIInv, NEW t \in Callers, Leave(t) \/ Drop(t)
    PROVE  RustIInv'
  <1> USE DEF RustIInv
  <1>0. Forget(t)
    BY DEF Leave, Drop
  <1>1. TypeOK'
    BY <1>0 DEF TypeOK, Forget, PcStates
  <1>2. HoldsChannel' /\ OneLeader' /\ OwnChannels'
    BY <1>0, <1>1 DEF Forget, TypeOK, HoldsChannel, OneLeader, OwnChannels, Leading
  <1>3. \A u \in Callers \ {t} : chan[u] \in Chans => landed'[chan[u]] = landed[chan[u]]
    BY <1>0 DEF Forget, TypeOK
  <1>5. LeaderFirst'
    BY <1>0, <1>1, <1>3 DEF Forget, TypeOK, HoldsChannel, Leading, LeaderFirst
  <1>6. InboxHonest' /\ NoForeignResult' /\ EarlyFollowersServed'
    BY <1>0, <1>1, <1>3
       DEF Forget, TypeOK, HoldsChannel, LeaderFirst, InboxHonest, NoForeignResult,
           EarlyFollowersServed, Wire
  <1>7. InTime'
    BY <1>0, <1>1
       DEF Forget, TypeOK, HoldsChannel, InTime, SenderLeft, Leading, OneLeader, Leave,
           Drop
  <1> QED  BY <1>1, <1>2, <1>5, <1>6, <1>7

LEMMA NextRust == RustIInv /\ [Next]_vars => RustIInv'
  <1> SUFFICES ASSUME RustIInv, [Next]_vars PROVE RustIInv'
    OBVIOUS
  <1>1. CASE UNCHANGED vars
    BY <1>1 DEF vars, RustIInv, TypeOK, HoldsChannel, OneLeader, Leading, OwnChannels,
         LeaderFirst, InboxHonest, InTime, SenderLeft, NoForeignResult, EarlyFollowersServed
  <1> QED  BY <1>1, RustFollow, RustLead, RustFinish, RustSend, RustRemove, RustRecv,
              RustForget DEF Next

(* It holds in every behaviour, dropped futures included. *)
THEOREM RustInvariance == Spec => []RustIInv
  BY InitRust, NextRust, PTL DEF Spec

-----------------------------------------------------------------------------
(* GoDedup. *)

(* A goroutine inside Do has a key and a call, an idle one has no call. *)
GoHolds ==
    \A g \in Callers :
        /\ goPc[g] = "idle" => goRide[g] = Nothing
        /\ goPc[g] # "idle" => goRide[g] \in Go!Calls /\ goKey[g] \in TwoKeys

(* No two leaders have a key or a call in common. *)
GoOneFlight ==
    \A g, h \in Callers :
        (Go!Leading(g) /\ Go!Leading(h) /\ (goKey[g] = goKey[h] \/ goRide[g] = goRide[h]))
        => g = h

(* wg.Done is called once the outcome is in the call, before the deletion. *)
GoPublished ==
    \A g \in Callers :
        /\ goPc[g] = "running" => ~goDone[goRide[g]]
        /\ goPc[g] = "publishing" => ~goDone[goRide[g]]
        /\ goPc[g] = "deleting" => goDone[goRide[g]]
        /\ goPc[g] \in {"publishing", "deleting", "returned"} =>
              goResult[g] \in Outcomes
        /\ goPc[g] \in {"publishing", "deleting"} => goResult[g] = goOutcome[goRide[g]]
        /\ goPc[g] # "idle" /\ goDone[goRide[g]] => goOutcome[goRide[g]] \in Outcomes
        /\ goPc[g] = "returned" => goDone[goRide[g]]

(* Who waits for a call waits for its leader, and asked for the same key. *)
GoAboard ==
    \A g \in Callers :
        goPc[g] # "idle" /\ ~goDone[goRide[g]] =>
            \E h \in Callers : /\ Go!Leading(h) /\ goRide[h] = goRide[g] /\ goKey[h] = goKey[g]

GoIInv == Go!TypeOK /\ GoHolds /\ Go!MapExact /\ GoOneFlight /\ GoPublished /\ GoAboard

LEMMA GoCallsAre == Go!Calls = 1 .. Cardinality(Callers) /\ Nothing \notin Go!Calls
  <1>1. Go!Cardinality(Callers) = Cardinality(Callers)
    BY DEF Go!Cardinality, Cardinality
  <1> QED  BY <1>1, ValuesAssumption, CallersAssumption, FS_CardinalityType DEF Go!Calls

(* While a goroutine is idle, some call object is nobody's. *)
LEMMA FreshCall ==
    ASSUME Go!TypeOK, GoHolds, NEW g \in Callers, goPc[g] = "idle"
    PROVE  Go!Fresh \in Go!Calls /\ \A h \in Callers : goRide[h] # Go!Fresh
  <1>1. \E f \in 1 .. Cardinality(Callers) : f \notin {goRide[h] : h \in Callers \ {g}}
    BY FreeOfOthers
  <1>2. \E f \in Go!Calls : \A h \in Callers : goRide[h] # f
    BY <1>1, GoCallsAre DEF GoHolds
  <1> QED  BY <1>2 DEF Go!Fresh

LEMMA InitGo == Go!Init => GoIInv
  BY DEF Go!Init, GoIInv, Go!TypeOK, Go!PcStates, GoHolds, Go!MapExact, Go!Leading, GoOneFlight,
         GoPublished, GoAboard

LEMMA NextGo == GoIInv /\ [Go!Next]_(Go!vars) => GoIInv'
  <1> SUFFICES ASSUME GoIInv, [Go!Next]_(Go!vars) PROVE GoIInv'
    OBVIOUS
  <1> USE DEF GoIInv
  <1> USE GoCallsAre
  <1>1. ASSUME NEW g \in Callers, NEW k \in TwoKeys, Go!Join(g, k)
        PROVE  GoIInv'
    <2>1. Go!TypeOK'
      BY <1>1 DEF Go!TypeOK, Go!PcStates, Go!Join
    <2>2. PICK l \in Callers : Go!Leading(l) /\ goKey[l] = k /\ goRide[l] = goInflight[k]
      BY <1>1 DEF Go!Join, Go!MapExact
    <2>3. GoHolds' /\ Go!MapExact' /\ GoOneFlight'
      BY <1>1, <2>1 DEF Go!Join, Go!TypeOK, GoHolds, Go!MapExact, GoOneFlight, Go!Leading
    <2>4. GoPublished' /\ GoAboard'
      BY <1>1, <2>1, <2>2 DEF Go!Join, Go!TypeOK, GoHolds, GoPublished, GoAboard, Go!Leading
    <2> QED  BY <2>1, <2>3, <2>4
  <1>2. ASSUME NEW g \in Callers, NEW k \in TwoKeys, Go!Lead(g, k)
        PROVE  GoIInv'
    <2> DEFINE f == Go!Fresh
    <2>1. f \in Go!Calls /\ \A h \in Callers : goRide[h] # f
      BY <1>2, FreshCall DEF Go!Lead
    <2>2. /\ goPc[g] = "idle" /\ goInflight[k] = Nothing
          /\ goInflight' = [goInflight EXCEPT ![k] = f]
          /\ goOutcome' = [goOutcome EXCEPT ![f] = Nothing]
          /\ goDone' = [goDone EXCEPT ![f] = FALSE]
          /\ goPc' = [goPc EXCEPT ![g] = "running"]
          /\ goKey' = [goKey EXCEPT ![g] = k]
          /\ goRide' = [goRide EXCEPT ![g] = f]
          /\ goResult' = goResult
      BY <1>2 DEF Go!Lead
    <2> HIDE DEF f
    <2>3. Go!TypeOK'
      BY <2>1, <2>2 DEF Go!TypeOK, Go!PcStates
    <2>4. GoHolds' /\ Go!MapExact' /\ GoOneFlight'
      BY <2>1, <2>2, <2>3 DEF Go!TypeOK, GoHolds, Go!MapExact, GoOneFlight, Go!Leading
    <2>5. GoPublished' /\ GoAboard'
      BY <2>1, <2>2, <2>3 DEF Go!TypeOK, GoHolds, GoPublished, GoAboard, Go!Leading
    <2> QED  BY <2>3, <2>4, <2>5
  <1>3. ASSUME NEW g \in Callers, NEW o \in Outcomes, Go!Finish(g, o)
        PROVE  GoIInv'
    <2>1. Go!TypeOK'
      BY <1>3 DEF Go!TypeOK, Go!PcStates, Go!Finish
    <2>2. GoHolds' /\ Go!MapExact' /\ GoOneFlight'
      BY <1>3, <2>1 DEF Go!Finish, Go!TypeOK, GoHolds, Go!MapExact, GoOneFlight, Go!Leading
    <2>3. GoPublished' /\ GoAboard'
      BY <1>3, <2>1
         DEF Go!Finish, Go!TypeOK, GoHolds, GoOneFlight, GoPublished, GoAboard, Go!Leading
    <2> QED  BY <2>1, <2>2, <2>3
  <1>4. ASSUME NEW g \in Callers, Go!Publish(g)
        PROVE  GoIInv'
    <2>1. Go!TypeOK'
      BY <1>4 DEF Go!TypeOK, Go!PcStates, Go!Publish
    <2>2. GoHolds' /\ Go!MapExact' /\ GoOneFlight'
      BY <1>4, <2>1 DEF Go!Publish, Go!TypeOK, GoHolds, Go!MapExact, GoOneFlight, Go!Leading
    <2>3. GoPublished' /\ GoAboard'
      BY <1>4, <2>1
         DEF Go!Publish, Go!TypeOK, GoHolds, GoOneFlight, GoPublished, GoAboard, Go!Leading
    <2> QED  BY <2>1, <2>2, <2>3
  <1>5. ASSUME NEW g \in Callers, Go!Delete(g)
        PROVE  GoIInv'
    <2>1. Go!TypeOK'
      BY <1>5 DEF Go!TypeOK, Go!PcStates, Go!Delete
    <2>2. GoHolds' /\ Go!MapExact' /\ GoOneFlight'
      BY <1>5, <2>1 DEF Go!Delete, Go!TypeOK, GoHolds, Go!MapExact, GoOneFlight, Go!Leading
    <2>3. GoPublished' /\ GoAboard'
      BY <1>5, <2>1
         DEF Go!Delete, Go!TypeOK, GoHolds, GoOneFlight, GoPublished, GoAboard, Go!Leading
    <2> QED  BY <2>1, <2>2, <2>3
  <1>6. ASSUME NEW g \in Callers, Go!WaitDone(g)
        PROVE  GoIInv'
    <2>1. Go!TypeOK'
      BY <1>6 DEF Go!TypeOK, Go!PcStates, Go!WaitDone, GoPublished
    <2>2. GoHolds' /\ Go!MapExact' /\ GoOneFlight'
      BY <1>6, <2>1 DEF Go!WaitDone, Go!TypeOK, GoHolds, Go!MapExact, GoOneFlight, Go!Leading
    <2>3. GoPublished' /\ GoAboard'
      BY <1>6, <2>1
         DEF Go!WaitDone, Go!TypeOK, GoHolds, GoOneFlight, GoPublished, GoAboard,
             Go!Leading
    <2> QED  BY <2>1, <2>2, <2>3
  <1>7. ASSUME NEW g \in Callers, Go!Leave(g)
        PROVE  GoIInv'
    <2>1. Go!TypeOK'
      BY <1>7 DEF Go!TypeOK, Go!PcStates, Go!Leave
    <2>2. GoHolds' /\ Go!MapExact' /\ GoOneFlight'
      BY <1>7, <2>1 DEF Go!Leave, Go!TypeOK, GoHolds, Go!MapExact, GoOneFlight, Go!Leading
    <2>3. \A h \in Callers \ {g} : goRide[h] \in Go!Calls =>
             /\ goOutcome'[goRide[h]] = goOutcome[goRide[h]]
             /\ goDone'[goRide[h]] = goDone[goRide[h]]
      BY <1>7 DEF Go!Leave, Go!TypeOK
    <2>4. GoPublished' /\ GoAboard'
      BY <1>7, <2>1, <2>3
         DEF Go!Leave, Go!TypeOK, GoHolds, GoOneFlight, GoPublished, GoAboard, Go!Leading
    <2> QED  BY <2>1, <2>2, <2>4
  <1>8. CASE UNCHANGED Go!vars
    BY <1>8
       DEF Go!vars, Go!TypeOK, GoHolds, Go!MapExact, Go!Leading, GoOneFlight, GoPublished,
           GoAboard
  <1> QED  BY <1>1, <1>2, <1>3, <1>4, <1>5, <1>6, <1>7, <1>8 DEF Go!Next

LEMMA GoRefinesInit == Go!Init => Go!Abs!Init
  BY DEF Go!Init, Go!Abs!Init, Go!Flight, Go!Riding

LEMMA GoRiding ==
    ASSUME GoIInv, NEW g \in Callers
    PROVE  /\ goPc[g] = "idle" => Go!Riding[g] = Nothing
           /\ goPc[g] # "idle" => /\ Go!Riding[g] # Nothing
                                  /\ Go!Riding[g] = [key |-> goKey[g], got |-> Go!GotOf(g)]
                                  /\ Go!Riding[g].key = goKey[g] /\ Go!Riding[g].got = Go!GotOf(g)
                                  /\ Go!GotOf(g) \in Outcomes \cup {Nothing}
  <1>1. ASSUME goPc[g] # "idle" PROVE Go!GotOf(g) \in Outcomes \cup {Nothing}
    BY <1>1 DEF GoIInv, Go!TypeOK, GoPublished, Go!GotOf
  <1>2. ASSUME goPc[g] # "idle"
        PROVE  [key |-> goKey[g], got |-> Go!GotOf(g)]
                 \in [key : TwoKeys, got : Outcomes \cup {TypeError, Nothing}]
    BY <1>1, <1>2 DEF GoIInv, GoHolds
  <1> QED BY <1>1, <1>2, TsValuesAssumption DEF Go!Riding

LEMMA GoRefinesNext ==
    ASSUME GoIInv, GoIInv', [Go!Next]_(Go!vars)
    PROVE  [Go!Abs!Next]_<<Go!Flight, Go!Riding>>
  <1> USE DEF GoIInv
  <1> USE GoCallsAre
  <1>1. ASSUME NEW g \in Callers, NEW k \in TwoKeys, Go!Join(g, k)
        PROVE  Go!Abs!Join(g, k)
    <2>1. Go!Riding[g] = Nothing /\ Go!Flight[k] # Nothing
      BY <1>1, TsValuesAssumption
         DEF Go!Join, Go!Riding, Go!Flight, Go!FlightOf, Go!TypeOK, GoPublished,
             Go!MapExact, Go!Leading, GoHolds
    <2>2. Go!Flight' = Go!Flight
      BY <1>1 DEF Go!Join, Go!Flight, Go!FlightOf
    <2>3. Go!Riding' = [Go!Riding EXCEPT ![g] =
             [key |-> k, got |-> IF Go!Flight[k] = "open" THEN Nothing ELSE Go!Flight[k]]]
      <3>1. Go!GotOf(g)' = IF Go!Flight[k] = "open" THEN Nothing ELSE Go!Flight[k]
        BY <1>1, TsValuesAssumption
           DEF Go!Join, Go!TypeOK, Go!GotOf, Go!Flight, Go!FlightOf, GoPublished,
               Go!MapExact, Go!Leading, GoHolds
      <3>2. goPc'[g] # "idle" /\ goKey'[g] = k
        BY <1>1 DEF Go!Join, Go!TypeOK
      <3>3. \A h \in Callers \ {g} : /\ goPc'[h] = goPc[h] /\ goKey'[h] = goKey[h]
                                     /\ Go!GotOf(h)' = Go!GotOf(h)
        BY <1>1 DEF Go!Join, Go!TypeOK, Go!GotOf
      <3> QED BY <3>1, <3>2, <3>3 DEF Go!Riding
    <2> QED  BY <2>1, <2>2, <2>3 DEF Go!Abs!Join
  <1>2. ASSUME NEW g \in Callers, NEW k \in TwoKeys, Go!Lead(g, k)
        PROVE  Go!Abs!Lead(g, k)
    <2> DEFINE f == Go!Fresh
    <2>1. f \in Go!Calls /\ \A h \in Callers : goRide[h] # f
      BY <1>2, FreshCall DEF Go!Lead
    <2>2. /\ goPc[g] = "idle" /\ goInflight[k] = Nothing
          /\ goInflight' = [goInflight EXCEPT ![k] = f]
          /\ goOutcome' = [goOutcome EXCEPT ![f] = Nothing]
          /\ goDone' = [goDone EXCEPT ![f] = FALSE]
          /\ goPc' = [goPc EXCEPT ![g] = "running"]
          /\ goKey' = [goKey EXCEPT ![g] = k]
          /\ goRide' = [goRide EXCEPT ![g] = f]
          /\ goResult' = goResult
      BY <1>2 DEF Go!Lead
    <2> HIDE DEF f
    <2>3. Go!Riding[g] = Nothing /\ Go!Flight[k] = Nothing
      BY <2>2 DEF Go!Riding, Go!Flight
    <2>4. Go!Flight' = [Go!Flight EXCEPT ![k] = "open"]
      <3>1. \A l \in TwoKeys : goInflight[l] # f
        BY <2>1 DEF Go!MapExact
      <3>2. /\ goInflight'[k] = f /\ f # Nothing /\ ~goDone'[f]
            /\ \A l \in TwoKeys \ {k} : /\ goInflight'[l] = goInflight[l]
                                        /\ goInflight[l] # Nothing =>
                                             /\ goDone'[goInflight[l]] = goDone[goInflight[l]]
                                             /\ goOutcome'[goInflight[l]] = goOutcome[goInflight[l]]
        BY <2>1, <2>2, <3>1 DEF Go!TypeOK
      <3> QED  BY <3>2 DEF Go!Flight, Go!FlightOf
    <2>5. Go!Riding' = [Go!Riding EXCEPT ![g] = [key |-> k, got |-> Nothing]]
      <3>1. Go!GotOf(g)' = Nothing
        BY <2>1, <2>2 DEF Go!TypeOK, Go!GotOf
      <3>2. goPc'[g] # "idle" /\ goKey'[g] = k
        BY <2>2 DEF Go!TypeOK
      <3>3. \A h \in Callers \ {g} : /\ goPc'[h] = goPc[h] /\ goKey'[h] = goKey[h]
                                     /\ goPc[h] # "idle" => Go!GotOf(h)' = Go!GotOf(h)
        BY <2>1, <2>2 DEF Go!TypeOK, Go!GotOf, GoHolds
      <3> QED BY <3>1, <3>2, <3>3 DEF Go!Riding
    <2> QED  BY <2>3, <2>4, <2>5 DEF Go!Abs!Lead
  <1>3. ASSUME NEW g \in Callers, NEW o \in Outcomes, Go!Finish(g, o)
        PROVE  UNCHANGED <<Go!Flight, Go!Riding>>
    <2>1. Go!Flight' = Go!Flight
      BY <1>3 DEF Go!Finish, Go!TypeOK, Go!Flight, Go!FlightOf, GoPublished
    <2>2. \A h \in Callers : goPc[h] # "idle" => Go!GotOf(h)' = Go!GotOf(h)
      BY <1>3 DEF Go!Finish, Go!TypeOK, Go!GotOf, GoPublished
    <2>3. Go!Riding' = Go!Riding
      BY <1>3, <2>2 DEF Go!Finish, Go!TypeOK, Go!Riding
    <2> QED  BY <2>1, <2>3
  <1>4. ASSUME NEW g \in Callers, Go!Publish(g)
        PROVE  Go!Abs!Land(goKey[g], goResult[g])
    <2> DEFINE k == goKey[g]
               f == goRide[g]
               o == goResult[g]
    <2>1. /\ Go!Leading(g) /\ k \in TwoKeys /\ f \in Go!Calls /\ goInflight[k] = f
          /\ o \in Outcomes /\ o = goOutcome[f] /\ ~goDone[f] /\ o # Nothing
      BY <1>4, TsValuesAssumption DEF Go!Publish, Go!Leading, GoHolds, Go!MapExact, GoPublished
    <2>2. \A l \in TwoKeys : goInflight[l] = f => l = k
      BY <2>1 DEF Go!MapExact, GoOneFlight
    <2>3. \A h \in Callers : goPc[h] # "idle" /\ ~goDone[goRide[h]] => (goKey[h] = k <=> goRide[h] = f)
      BY <2>1 DEF GoAboard, GoOneFlight
    <2>4. Go!Flight[k] = "open" /\ Go!Flight' = [Go!Flight EXCEPT ![k] = o]
      <3>1. /\ goInflight' = goInflight /\ goDone'[f] /\ goOutcome'[f] = o /\ f # Nothing
            /\ \A l \in TwoKeys \ {k} : goInflight[l] # Nothing =>
                  /\ goDone'[goInflight[l]] = goDone[goInflight[l]]
                  /\ goOutcome'[goInflight[l]] = goOutcome[goInflight[l]]
        BY <1>4, <2>1, <2>2 DEF Go!Publish, Go!TypeOK
      <3> QED  BY <2>1, <3>1 DEF Go!Flight, Go!FlightOf
    <2>5. \A h \in Callers : /\ goPc[h] = "idle" <=> goPc'[h] = "idle"
                             /\ goKey'[h] = goKey[h]
                             /\ goPc[h] # "idle" =>
                                  Go!GotOf(h)' = IF goKey[h] = k /\ Go!GotOf(h) = Nothing
                                                 THEN o ELSE Go!GotOf(h)
      BY <1>4, <2>1, <2>3, TsValuesAssumption DEF Go!Publish, Go!TypeOK, Go!GotOf, GoPublished
    <2>6. Go!Riding' = [h \in Callers |-> IF h \in Go!Abs!Aboard(k) /\ Go!Riding[h].got = Nothing
                                          THEN [key |-> k, got |-> o] ELSE Go!Riding[h]]
      BY <2>5, GoRiding DEF Go!Riding, Go!Abs!Aboard
    <2> QED  BY <2>4, <2>6 DEF Go!Abs!Land
  <1>5. ASSUME NEW g \in Callers, Go!Delete(g)
        PROVE  Go!Abs!Retire(goKey[g])
    <2> DEFINE k == goKey[g]
               f == goRide[g]
    <2>1. /\ k \in TwoKeys /\ f \in Go!Calls /\ goInflight[k] = f
          /\ goDone[f] /\ goOutcome[f] \in Outcomes /\ goResult[g] = goOutcome[f]
      BY <1>5 DEF Go!Delete, Go!Leading, GoHolds, Go!MapExact, GoPublished
    <2>2. Go!Flight[k] \in Outcomes /\ Go!Flight' = [Go!Flight EXCEPT ![k] = Nothing]
      BY <1>5, <2>1 DEF Go!Delete, Go!TypeOK, Go!Flight, Go!FlightOf
    <2>3. \A h \in Callers : /\ goPc[h] = "idle" <=> goPc'[h] = "idle"
                             /\ Go!GotOf(h)' = Go!GotOf(h)
      BY <1>5, <2>1 DEF Go!Delete, Go!TypeOK, Go!GotOf
    <2>4. Go!Riding' = Go!Riding
      BY <1>5, <2>3 DEF Go!Delete, Go!Riding
    <2> QED  BY <2>2, <2>4 DEF Go!Abs!Retire
  <1>6. ASSUME NEW g \in Callers, Go!WaitDone(g)
        PROVE  UNCHANGED <<Go!Flight, Go!Riding>>
    <2>1. Go!Flight' = Go!Flight
      BY <1>6 DEF Go!WaitDone, Go!Flight, Go!FlightOf
    <2>2. \A h \in Callers : /\ goPc[h] = "idle" <=> goPc'[h] = "idle"
                             /\ Go!GotOf(h)' = Go!GotOf(h)
      BY <1>6 DEF Go!WaitDone, Go!TypeOK, Go!GotOf
    <2>3. Go!Riding' = Go!Riding
      BY <1>6, <2>2 DEF Go!WaitDone, Go!Riding
    <2> QED  BY <2>1, <2>3
  <1>7. ASSUME NEW g \in Callers, Go!Leave(g)
        PROVE  Go!Abs!Leave(g)
    <2>1. goPc[g] = "returned" /\ goResult[g] # Nothing
      BY <1>7, TsValuesAssumption DEF Go!Leave, GoPublished
    <2>2. Go!Riding[g] # Nothing /\ Go!Riding[g].got # Nothing
      BY <2>1, GoRiding DEF Go!GotOf
    <2>3. \A h \in Callers \ {g} : goRide[h] \in Go!Calls =>
             /\ goOutcome'[goRide[h]] = goOutcome[goRide[h]]
             /\ goDone'[goRide[h]] = goDone[goRide[h]]
      BY <1>7 DEF Go!Leave, Go!TypeOK
    <2>4. \A k \in TwoKeys : goInflight[k] # Nothing =>
            \E h \in Callers \ {g} : goRide[h] = goInflight[k] /\ goRide[h] \in Go!Calls
      BY <2>1 DEF Go!MapExact, Go!Leading, GoHolds
    <2>5. Go!Flight' = Go!Flight
      BY <1>7, <2>3, <2>4 DEF Go!Leave, Go!Flight, Go!FlightOf
    <2>6. \A h \in Callers \ {g} : /\ goPc'[h] = goPc[h] /\ goKey'[h] = goKey[h]
                                   /\ goPc[h] # "idle" => Go!GotOf(h)' = Go!GotOf(h)
      BY <1>7, <2>3 DEF Go!Leave, Go!TypeOK, Go!GotOf, GoHolds
    <2>7. goPc'[g] = "idle"
      BY <1>7 DEF Go!Leave, Go!TypeOK
    <2>8. Go!Riding' = [Go!Riding EXCEPT ![g] = Nothing]
      BY <2>6, <2>7 DEF Go!Riding
    <2> QED  BY <2>2, <2>5, <2>8 DEF Go!Abs!Leave
  <1>8. CASE UNCHANGED Go!vars
    BY <1>8 DEF Go!vars, Go!Flight, Go!FlightOf, Go!Riding, Go!GotOf
  <1>9. ASSUME NEW g \in Callers, Go!Publish(g) \/ Go!Delete(g)
        PROVE  Go!Abs!Next
    <2>1. goKey[g] \in TwoKeys /\ (Go!Publish(g) => goResult[g] \in Outcomes)
      BY <1>9 DEF Go!Publish, Go!Delete, GoHolds, GoPublished
    <2> QED  BY <1>4, <1>5, <1>9, <2>1 DEF Go!Abs!Next
  <1>10. ASSUME NEW g \in Callers,
               \/ \E k \in TwoKeys : Go!Join(g, k) \/ Go!Lead(g, k)
               \/ Go!Leave(g)
        PROVE  Go!Abs!Next
    BY <1>1, <1>2, <1>7, <1>10 DEF Go!Abs!Next
  <1> QED  BY <1>3, <1>6, <1>8, <1>9, <1>10 DEF Go!Next

(* The inductive invariant of the Go deduper holds in every behaviour. *)
THEOREM GoInvariance == Go!Spec => []GoIInv
  BY InitGo, NextGo, PTL DEF Go!Spec

(* Do implements the single flight: a call that joins between wg.Done and  *)
(* the deletion of the entry gets the outcome of the flight that landed.   *)
THEOREM GoSharesFlights == Go!Spec => Go!ImplementsSingleFlight
  <1>1. GoIInv /\ GoIInv' /\ [Go!Next]_(Go!vars) => [Go!Abs!Next]_<<Go!Flight, Go!Riding>>
    BY GoRefinesNext
  <1> QED  BY <1>1, GoInvariance, GoRefinesInit, PTL
           DEF Go!Spec, Go!ImplementsSingleFlight, Go!Abs!Spec

-----------------------------------------------------------------------------
(* TsDedup. *)

(* A call inside dedupe has a key and a promise, an idle one none. *)
TsHolds ==
    \A c \in Callers :
        /\ tsPc[c] = "idle" => tsRide[c] = Nothing
        /\ tsPc[c] # "idle" => tsRide[c] \in Ts!Promises /\ tsKey[c] \in TwoKeys

(* A listed promise is open, somebody awaits it, and no two keys list it. *)
TsListed ==
    /\ \A k \in TwoKeys : tsInFlight[k] # Nothing =>
          /\ ~tsResolved[tsInFlight[k]]
          /\ \E c \in Callers : tsPc[c] = "waiting" /\ tsRide[c] = tsInFlight[k]
    /\ \A k, l \in TwoKeys : tsInFlight[k] # Nothing /\ tsInFlight[k] = tsInFlight[l] => k = l

(* Who awaits an open promise finds it listed under its own key; who       *)
(* awaits a settled one gets what it settled with.                         *)
TsAboard ==
    \A c \in Callers :
       /\ tsPc[c] # "idle" /\ ~tsResolved[tsRide[c]] =>
             tsPc[c] = "waiting" /\ tsInFlight[tsKey[c]] = tsRide[c]
       /\ tsPc[c] # "idle" /\ tsResolved[tsRide[c]] => tsSettled[tsRide[c]] \in Ts!Outcomes
       /\ tsPc[c] = "returned" => tsResult[c] = Ts!Rebuild(tsSettled[tsRide[c]])

TsIInv == Ts!TypeOK /\ TsHolds /\ TsListed /\ TsAboard

LEMMA TsPromisesAre == Ts!Promises = 1 .. Cardinality(Callers) /\ Nothing \notin Ts!Promises
  <1>1. Ts!Cardinality(Callers) = Cardinality(Callers)
    BY DEF Ts!Cardinality, Cardinality
  <1> QED  BY <1>1, ValuesAssumption, CallersAssumption, FS_CardinalityType DEF Ts!Promises

LEMMA FreshPromise ==
    ASSUME Ts!TypeOK, TsHolds, NEW c \in Callers, tsPc[c] = "idle"
    PROVE  Ts!Fresh \in Ts!Promises /\ \A d \in Callers : tsRide[d] # Ts!Fresh
  <1> DEFINE A == {tsRide[d] : d \in Callers \ {c}}
  <1>1. \E p \in 1 .. Cardinality(Callers) : p \notin A
    BY FreeOfOthers
  <1>2. \E p \in Ts!Promises : \A d \in Callers : tsRide[d] # p
    BY <1>1, TsPromisesAre DEF TsHolds
  <1> QED  BY <1>2 DEF Ts!Fresh

LEMMA InitTs == Ts!Init => TsIInv
  BY DEF Ts!Init, TsIInv, Ts!TypeOK, TsHolds, TsListed, TsAboard

(* Rebuilding a response keeps it apart from what is no outcome. *)
LEMMA RebuiltIsSomething ==
    /\ \A o \in Ts!Outcomes : Ts!Rebuild(o) \in Oks \cup Errs \cup {TypeError}
    /\ \A o \in Ts!Outcomes : Ts!Rebuild(o) \notin {Nothing, "open"}
    /\ Ts!Rebuild(Nothing) = Nothing
    /\ Nothing \notin Ts!Outcomes
  BY TsValuesAssumption, ValuesAssumption DEF Ts!Rebuild, Ts!Outcomes, Outcomes

LEMMA NextTs == TsIInv /\ [Ts!Next]_(Ts!vars) => TsIInv'
  <1> SUFFICES ASSUME TsIInv, [Ts!Next]_(Ts!vars) PROVE TsIInv'
    OBVIOUS
  <1> USE DEF TsIInv
  <1> USE TsPromisesAre
  <1>1. ASSUME NEW c \in Callers, NEW k \in TwoKeys, Ts!Dedupe(c, k), tsInFlight[k] # Nothing
        PROVE  TsIInv'
    <2>1. Ts!TypeOK' /\ TsHolds'
      BY <1>1 DEF Ts!TypeOK, Ts!Dedupe, TsHolds
    <2>2. TsListed' /\ TsAboard'
      BY <1>1, <2>1 DEF Ts!TypeOK, Ts!Dedupe, TsHolds, TsListed, TsAboard
    <2> QED  BY <2>1, <2>2
  <1>2. ASSUME NEW c \in Callers, NEW k \in TwoKeys, Ts!Dedupe(c, k), tsInFlight[k] = Nothing
        PROVE  TsIInv'
    <2> DEFINE p == Ts!Fresh
    <2>1. p \in Ts!Promises /\ \A d \in Callers : tsRide[d] # p
      BY <1>2, FreshPromise DEF Ts!Dedupe
    <2>2. /\ tsPc[c] = "idle"
          /\ tsPc' = [tsPc EXCEPT ![c] = "waiting"]
          /\ tsKey' = [tsKey EXCEPT ![c] = k]
          /\ tsRide' = [tsRide EXCEPT ![c] = p]
          /\ tsInFlight' = [tsInFlight EXCEPT ![k] = p]
          /\ tsSettled' = [tsSettled EXCEPT ![p] = Nothing]
          /\ tsResolved' = [tsResolved EXCEPT ![p] = FALSE]
          /\ tsResult' = tsResult
      BY <1>2 DEF Ts!Dedupe
    <2> HIDE DEF p
    <2>3. Ts!TypeOK' /\ TsHolds'
      BY <2>1, <2>2 DEF Ts!TypeOK, TsHolds
    <2>4. \A l \in TwoKeys : tsInFlight[l] # p
      BY <2>1 DEF TsListed
    <2>5. TsListed' /\ TsAboard'
      BY <2>1, <2>2, <2>3, <2>4, <1>2 DEF Ts!TypeOK, TsHolds, TsListed, TsAboard
    <2> QED  BY <2>3, <2>5
  <1>3. ASSUME NEW k \in TwoKeys, NEW o \in Ts!Outcomes, Ts!Settle(k, o)
        PROVE  TsIInv'
    <2>1. Ts!TypeOK' /\ TsHolds'
      BY <1>3 DEF Ts!TypeOK, Ts!Settle, TsHolds
    <2>2. TsListed' /\ TsAboard'
      BY <1>3, <2>1 DEF Ts!TypeOK, Ts!Settle, TsHolds, TsListed, TsAboard
    <2> QED  BY <2>1, <2>2
  <1>4. ASSUME NEW k \in TwoKeys, Ts!Finally(k)
        PROVE  TsIInv'
    <2>1. Ts!TypeOK' /\ TsHolds'
      BY <1>4 DEF Ts!TypeOK, Ts!Finally, TsHolds
    <2>2. TsListed' /\ TsAboard'
      BY <1>4, <2>1 DEF Ts!TypeOK, Ts!Finally, TsHolds, TsListed, TsAboard
    <2> QED  BY <2>1, <2>2
  <1>5. ASSUME NEW c \in Callers, Ts!Deliver(c)
        PROVE  TsIInv'
    <2>1. Ts!TypeOK' /\ TsHolds'
      BY <1>5, RebuiltIsSomething
         DEF Ts!TypeOK, Ts!Deliver, TsHolds, TsAboard, Outcomes, Ts!Outcomes
    <2>2. TsListed' /\ TsAboard'
      BY <1>5, <2>1 DEF Ts!TypeOK, Ts!Deliver, TsHolds, TsListed, TsAboard
    <2> QED  BY <2>1, <2>2
  <1>6. ASSUME NEW c \in Callers, Ts!Leave(c)
        PROVE  TsIInv'
    <2>1. Ts!TypeOK' /\ TsHolds'
      BY <1>6 DEF Ts!TypeOK, Ts!Leave, TsHolds
    <2>3. \A d \in Callers \ {c} : tsRide[d] \in Ts!Promises =>
             /\ tsSettled'[tsRide[d]] = tsSettled[tsRide[d]]
             /\ tsResolved'[tsRide[d]] = tsResolved[tsRide[d]]
      BY <1>6 DEF Ts!Leave, Ts!TypeOK
    <2>2. TsListed' /\ TsAboard'
      BY <1>6, <2>1, <2>3 DEF Ts!TypeOK, Ts!Leave, TsHolds, TsListed, TsAboard
    <2> QED  BY <2>1, <2>2
  <1>7. CASE UNCHANGED Ts!vars
    BY <1>7 DEF Ts!vars, Ts!TypeOK, TsHolds, TsListed, TsAboard
  <1> QED  BY <1>1, <1>2, <1>3, <1>4, <1>5, <1>6, <1>7 DEF Ts!Next

(* The inductive invariant of the TypeScript deduper holds in every        *)
(* behaviour.                                                              *)
THEOREM TsInvariance == Ts!Spec => []TsIInv
  BY InitTs, NextTs, PTL DEF Ts!Spec


LEMMA TsRefinesInit == Ts!Init => Ts!Abs!Init
  BY DEF Ts!Init, Ts!Abs!Init, Ts!Flight, Ts!Riding

(* What caller c has been given, as SingleFlight sees it. *)
TsGot(c) == IF tsPc[c] = "returned" THEN tsResult[c] ELSE Ts!Rebuild(tsSettled[tsRide[c]])

LEMMA TsRiding ==
    ASSUME TsIInv, NEW c \in Callers
    PROVE  /\ tsPc[c] = "idle" => Ts!Riding[c] = Nothing
           /\ tsPc[c] # "idle" => /\ Ts!Riding[c] # Nothing
                                  /\ Ts!Riding[c] = [key |-> tsKey[c], got |-> TsGot(c)]
                                  /\ Ts!Riding[c].key = tsKey[c]
                                  /\ Ts!Riding[c].got = TsGot(c)
  <1>1. ASSUME tsPc[c] # "idle"
        PROVE  /\ TsGot(c) \in Outcomes \cup {TypeError, Nothing}
               /\ tsKey[c] \in TwoKeys
    BY <1>1, RebuiltIsSomething DEF TsIInv, Ts!TypeOK, TsHolds, TsAboard, TsGot, Outcomes
  <1>2. ASSUME tsPc[c] # "idle"
        PROVE  Nothing # [key |-> tsKey[c], got |-> TsGot(c)]
    BY <1>1, <1>2, TsValuesAssumption
  <1> QED  BY <1>2 DEF Ts!Riding, TsGot

LEMMA TsRefinesNext ==
    ASSUME TsIInv, TsIInv', [Ts!Next]_(Ts!vars)
    PROVE  [Ts!Abs!Next]_<<Ts!Flight, Ts!Riding>>
  <1> USE DEF TsIInv
  <1> USE TsPromisesAre
  <1>1. ASSUME NEW c \in Callers, NEW k \in TwoKeys, Ts!Dedupe(c, k), tsInFlight[k] # Nothing
        PROVE  Ts!Abs!Join(c, k)
    <2> DEFINE p == tsInFlight[k]
               got == IF Ts!Flight[k] = "open" THEN Nothing ELSE Ts!Flight[k]
    <2>1. tsPc[c] = "idle" /\ p \in Ts!Promises /\ tsSettled[p] \in Ts!Outcomes \cup {Nothing}
      BY <1>1 DEF Ts!Dedupe, Ts!TypeOK
    <2>2. Ts!Riding[c] = Nothing /\ Ts!Flight[k] # Nothing /\ Ts!Rebuild(tsSettled[p]) = got
      BY <1>1, <2>1, RebuiltIsSomething, TsValuesAssumption DEF Ts!Riding, Ts!Flight
    <2>3. Ts!Flight' = Ts!Flight
      BY <1>1 DEF Ts!Dedupe, Ts!Flight
    <2>4. /\ tsPc'[c] = "waiting" /\ tsKey'[c] = k
          /\ Ts!Rebuild(tsSettled[tsRide[c]])' = Ts!Rebuild(tsSettled[p])
          /\ \A d \in Callers \ {c} : UNCHANGED <<tsPc[d], tsKey[d], tsRide[d]>>
          /\ tsResult' = tsResult /\ tsSettled' = tsSettled
      BY <1>1, <2>1 DEF Ts!Dedupe, Ts!TypeOK
    <2> HIDE DEF p, got
    <2>5. Ts!Riding' = [Ts!Riding EXCEPT ![c] = [key |-> k, got |-> got]]
      <3>1. \A d \in Callers \ {c} : Ts!Riding'[d] = Ts!Riding[d]
        BY <2>4 DEF Ts!Riding
      <3>2. Ts!Riding'[c] = [key |-> k, got |-> got]
        BY <2>2, <2>4 DEF Ts!Riding
      <3>3. /\ Ts!Riding = [d \in Callers |-> Ts!Riding[d]]
            /\ Ts!Riding' = [d \in Callers |-> Ts!Riding'[d]]
        BY DEF Ts!Riding
      <3> HIDE DEF TsIInv
      <3> QED  BY <3>1, <3>2, <3>3
    <2> QED  BY <2>2, <2>3, <2>5 DEF Ts!Abs!Join, got
  <1>2. ASSUME NEW c \in Callers, NEW k \in TwoKeys, Ts!Dedupe(c, k), tsInFlight[k] = Nothing
        PROVE  Ts!Abs!Lead(c, k)
    <2> DEFINE p == Ts!Fresh
    <2>1. p \in Ts!Promises /\ \A d \in Callers : tsRide[d] # p
      BY <1>2, FreshPromise DEF Ts!Dedupe
    <2>2. /\ tsPc[c] = "idle"
          /\ tsPc' = [tsPc EXCEPT ![c] = "waiting"]
          /\ tsKey' = [tsKey EXCEPT ![c] = k]
          /\ tsRide' = [tsRide EXCEPT ![c] = p]
          /\ tsInFlight' = [tsInFlight EXCEPT ![k] = p]
          /\ tsSettled' = [tsSettled EXCEPT ![p] = Nothing]
          /\ tsResult' = tsResult
      BY <1>2 DEF Ts!Dedupe
    <2> HIDE DEF p
    <2>3. \A l \in TwoKeys : tsInFlight[l] # p
      BY <2>1 DEF TsListed
    <2>4. Ts!Riding[c] = Nothing /\ Ts!Flight[k] = Nothing
      BY <1>2, <2>2 DEF Ts!Riding, Ts!Flight
    <2>5. /\ tsInFlight'[k] = p /\ p # Nothing /\ tsSettled'[p] = Nothing
          /\ \A l \in TwoKeys \ {k} : /\ tsInFlight'[l] = tsInFlight[l]
                                      /\ tsInFlight[l] # Nothing =>
                                            tsSettled'[tsInFlight[l]] = tsSettled[tsInFlight[l]]
      BY <2>1, <2>2, <2>3 DEF Ts!TypeOK
    <2>6. Ts!Flight' = [Ts!Flight EXCEPT ![k] = "open"]
      <3>1. \A l \in TwoKeys \ {k} : Ts!Flight'[l] = Ts!Flight[l]
        BY <2>5 DEF Ts!Flight, Ts!Rebuild
      <3>2. Ts!Flight'[k] = "open"
        BY <2>5 DEF Ts!Flight
      <3>3. /\ Ts!Flight = [l \in TwoKeys |-> Ts!Flight[l]]
            /\ Ts!Flight' = [l \in TwoKeys |-> Ts!Flight'[l]]
        BY DEF Ts!Flight
      <3> HIDE DEF TsIInv
      <3> QED  BY <3>1, <3>2, <3>3
    <2>7. /\ tsPc'[c] = "waiting" /\ tsKey'[c] = k
          /\ Ts!Rebuild(tsSettled[tsRide[c]])' = Nothing
          /\ \A d \in Callers \ {c} :
                /\ UNCHANGED <<tsPc[d], tsKey[d], tsResult[d]>>
                /\ tsPc[d] # "idle" =>
                     Ts!Rebuild(tsSettled[tsRide[d]])' = Ts!Rebuild(tsSettled[tsRide[d]])
      BY <2>1, <2>2, RebuiltIsSomething DEF Ts!TypeOK, TsHolds
    <2>8. Ts!Riding' = [Ts!Riding EXCEPT ![c] = [key |-> k, got |-> Nothing]]
      BY <2>7 DEF Ts!Riding
    <2> QED  BY <2>4, <2>6, <2>8 DEF Ts!Abs!Lead
  <1>3. ASSUME NEW k \in TwoKeys, NEW o \in Ts!Outcomes, Ts!Settle(k, o)
        PROVE  Ts!Abs!Land(k, Ts!Rebuild(o))
    <2> DEFINE p == tsInFlight[k]
               r == Ts!Rebuild(o)
    <2>1. /\ p \in Ts!Promises /\ p # Nothing /\ tsSettled[p] = Nothing
          /\ tsSettled' = [tsSettled EXCEPT ![p] = o] /\ o # Nothing
          /\ UNCHANGED <<tsInFlight, tsPc, tsKey, tsRide, tsResult>>
      BY <1>3, RebuiltIsSomething DEF Ts!Settle, Ts!TypeOK
    <2>2. \A l \in TwoKeys : tsInFlight[l] = p => l = k
      BY <2>1 DEF TsListed
    <2>3. Ts!Flight[k] = "open" /\ Ts!Flight' = [Ts!Flight EXCEPT ![k] = r]
      <3>1. /\ tsSettled'[p] = o
            /\ \A l \in TwoKeys \ {k} : tsInFlight[l] # Nothing =>
                  tsSettled'[tsInFlight[l]] = tsSettled[tsInFlight[l]]
        BY <2>1, <2>2 DEF Ts!TypeOK
      <3>2. /\ Ts!Flight[k] = "open" /\ Ts!Flight'[k] = r
            /\ \A l \in TwoKeys \ {k} : Ts!Flight'[l] = Ts!Flight[l]
        BY <2>1, <3>1 DEF Ts!Flight, Ts!Rebuild
      <3>3. /\ Ts!Flight = [l \in TwoKeys |-> Ts!Flight[l]]
            /\ Ts!Flight' = [l \in TwoKeys |-> Ts!Flight'[l]]
        BY DEF Ts!Flight
      <3> HIDE DEF TsIInv
      <3> QED  BY <3>2, <3>3
    <2>4. \A d \in Callers : tsPc[d] # "idle" =>
            TsGot(d)' = IF tsKey[d] = k /\ TsGot(d) = Nothing THEN r ELSE TsGot(d)
      <3> SUFFICES ASSUME NEW d \in Callers, tsPc[d] # "idle"
                   PROVE  TsGot(d)' = IF tsKey[d] = k /\ TsGot(d) = Nothing THEN r ELSE TsGot(d)
        OBVIOUS
      <3>1. CASE tsRide[d] = p
        <4>1. ~tsResolved[p]
          BY <2>1 DEF TsListed
        <4>2. tsPc[d] = "waiting" /\ tsInFlight[tsKey[d]] = p /\ tsKey[d] \in TwoKeys
          BY <3>1, <4>1 DEF TsAboard, TsHolds
        <4> QED  BY <2>1, <2>2, <3>1, <4>2, RebuiltIsSomething DEF TsGot, Ts!TypeOK
      <3>2. CASE tsRide[d] # p
        <4>1. tsRide[d] \in Ts!Promises /\ TsGot(d)' = TsGot(d)
          BY <2>1, <3>2 DEF TsGot, Ts!TypeOK, TsHolds
        <4>2. tsKey[d] = k => tsResolved[tsRide[d]]
          BY <3>2 DEF TsAboard
        <4>3. tsKey[d] = k => TsGot(d) # Nothing
          BY <4>2, RebuiltIsSomething DEF TsAboard, TsGot
        <4> QED  BY <4>1, <4>3
      <3> QED  BY <3>1, <3>2
    <2>5. Ts!Riding' = [d \in Callers |-> IF d \in Ts!Abs!Aboard(k) /\ Ts!Riding[d].got = Nothing
                                          THEN [key |-> k, got |-> r] ELSE Ts!Riding[d]]
      BY <2>1, <2>4, TsRiding DEF Ts!Riding, TsGot, Ts!Abs!Aboard
    <2> QED  BY <2>3, <2>5 DEF Ts!Abs!Land
  <1>4. ASSUME NEW k \in TwoKeys, Ts!Finally(k)
        PROVE  Ts!Abs!Retire(k)
    <2>1. /\ tsInFlight[k] # Nothing /\ tsSettled[tsInFlight[k]] \in Ts!Outcomes
          /\ tsInFlight' = [tsInFlight EXCEPT ![k] = Nothing]
          /\ UNCHANGED <<tsSettled, tsPc, tsKey, tsRide, tsResult>>
      BY <1>4 DEF Ts!Finally, Ts!TypeOK
    <2>2. /\ Ts!Flight[k] \in Oks \cup Errs \cup {TypeError}
          /\ Ts!Flight' = [Ts!Flight EXCEPT ![k] = Nothing]
      BY <2>1, RebuiltIsSomething DEF Ts!Flight, Ts!TypeOK
    <2>3. Ts!Riding' = Ts!Riding
      BY <2>1 DEF Ts!Riding
    <2> QED  BY <2>2, <2>3 DEF Ts!Abs!Retire
  <1>5. ASSUME NEW c \in Callers, Ts!Deliver(c)
        PROVE  UNCHANGED <<Ts!Flight, Ts!Riding>>
    <2>1. Ts!Flight' = Ts!Flight
      BY <1>5 DEF Ts!Deliver, Ts!Flight
    <2>2. \A d \in Callers : /\ tsPc'[d] = "idle" <=> tsPc[d] = "idle"
                             /\ TsGot(d)' = TsGot(d)
      BY <1>5 DEF Ts!Deliver, Ts!TypeOK, TsGot
    <2>3. Ts!Riding' = Ts!Riding
      BY <1>5, <2>2 DEF Ts!Deliver, Ts!Riding, TsGot
    <2> QED  BY <2>1, <2>3
  <1>6. ASSUME NEW c \in Callers, Ts!Leave(c)
        PROVE  Ts!Abs!Leave(c)
    <2>1. tsPc[c] = "returned" /\ TsGot(c) # Nothing
      BY <1>6, RebuiltIsSomething DEF Ts!Leave, TsAboard, TsGot
    <2>2. Ts!Riding[c] # Nothing /\ Ts!Riding[c].got # Nothing
      BY <2>1, TsRiding
    <2>3. \A d \in Callers \ {c} : tsRide[d] \in Ts!Promises =>
             tsSettled'[tsRide[d]] = tsSettled[tsRide[d]]
      BY <1>6 DEF Ts!Leave, Ts!TypeOK
    <2>4. \A k \in TwoKeys : tsInFlight[k] # Nothing =>
            \E d \in Callers \ {c} : tsRide[d] = tsInFlight[k] /\ tsRide[d] \in Ts!Promises
      BY <2>1 DEF TsListed, TsHolds
    <2>5. Ts!Flight' = Ts!Flight
      BY <1>6, <2>3, <2>4 DEF Ts!Leave, Ts!Flight
    <2>6. \A d \in Callers \ {c} : /\ UNCHANGED <<tsPc[d], tsKey[d]>>
                                   /\ tsPc[d] # "idle" => TsGot(d)' = TsGot(d)
      BY <1>6, <2>3 DEF Ts!Leave, Ts!TypeOK, TsGot, TsHolds
    <2>7. tsPc'[c] = "idle"
      BY <1>6 DEF Ts!Leave, Ts!TypeOK
    <2>8. Ts!Riding' = [Ts!Riding EXCEPT ![c] = Nothing]
      BY <2>6, <2>7 DEF Ts!Riding, TsGot
    <2> QED  BY <2>2, <2>5, <2>8 DEF Ts!Abs!Leave
  <1>7. CASE UNCHANGED Ts!vars
    BY <1>7 DEF Ts!vars, Ts!Flight, Ts!Riding
  <1>8. ASSUME NEW c \in Callers, NEW k \in TwoKeys, Ts!Dedupe(c, k)
        PROVE  Ts!Abs!Next
    BY <1>1, <1>2, <1>8 DEF Ts!Abs!Next
  <1>9. ASSUME NEW k \in TwoKeys, Ts!Finally(k) \/ \E o \in Ts!Outcomes : Ts!Settle(k, o)
        PROVE  Ts!Abs!Next
    BY <1>3, <1>4, <1>9, RebuiltIsSomething DEF Ts!Abs!Next
  <1>10. ASSUME NEW c \in Callers, Ts!Leave(c) PROVE Ts!Abs!Next
    BY <1>6, <1>10 DEF Ts!Abs!Next
  <1> QED  BY <1>5, <1>7, <1>8, <1>9, <1>10 DEF Ts!Next

(* dedupe implements the single flight, for responses that cannot be       *)
(* rebuilt, too.                                                           *)
THEOREM TsSharesFlights == Ts!Spec => Ts!ImplementsSingleFlight
  <1>1. TsIInv /\ TsIInv' /\ [Ts!Next]_(Ts!vars) => [Ts!Abs!Next]_<<Ts!Flight, Ts!Riding>>
    BY TsRefinesNext
  <1> QED  BY <1>1, TsInvariance, TsRefinesInit, PTL
           DEF Ts!Spec, Ts!ImplementsSingleFlight, Ts!Abs!Spec

-----------------------------------------------------------------------------
(* A behaviour of the three dedupers together is one of each of them. *)
LEMMA EachDeduper == MCSpec => Spec /\ Go!Spec /\ Ts!Spec
  <1>1. MCInit => Init /\ Go!Init /\ Ts!Init
    BY DEF MCInit
  <1>2. [MCNext]_<<sdk, vars, goVars, tsVars>>
          => [Next]_vars /\ [Go!Next]_(Go!vars) /\ [Ts!Next]_(Ts!vars)
    BY DEF MCNext, vars, goVars, tsVars, Go!vars, Ts!vars
  <1> QED  BY <1>1, <1>2, PTL DEF MCSpec, Spec, Go!Spec, Ts!Spec

(* The in-flight maps of the three SDKs list flights in progress only, and *)
(* a key's entry is its only leader's.                                     *)
THEOREM DedupersKeepTheirMaps == MCSpec => []MapsExact
  <1>1. RustIInv /\ GoIInv /\ TsIInv => MapsExact
    BY DEF RustIInv, GoIInv, TsIInv, TsListed, MapsExact, Ts!ListedIsOpen
  <1> QED  BY <1>1, EachDeduper, RustInvariance, GoInvariance, TsInvariance, PTL

(* A Rust follower returns what its own flight landed with, or the error   *)
(* of a closed channel, never the outcome of another flight of the key.    *)
THEOREM OwnResults == Spec => []NoForeignResult
  <1>1. RustIInv => NoForeignResult
    BY DEF RustIInv
  <1> QED  BY <1>1, RustInvariance, PTL

(* A Rust follower that subscribed before the leader's send gets what was  *)
(* sent, however removal, reception and later flights interleave.          *)
THEOREM EarlyFollowers == Spec => []EarlyFollowersServed
  <1>1. RustIInv => EarlyFollowersServed
    BY DEF RustIInv
  <1> QED  BY <1>1, RustInvariance, PTL

(* In every behaviour of the composed model the Go and the TypeScript      *)
(* deduper implement the single flight.                                    *)
THEOREM FlightsAreShared == MCSpec => SharesFlights
  BY EachDeduper, GoSharesFlights, TsSharesFlights, PTL DEF SharesFlights

(* A Rust map entry is left without a leader only by a step that drops the *)
(* leader's future at an await.                                            *)
THEOREM OrphansComeFromDrops == Spec => OnlyDropsOrphan
  <1>1. ASSUME RustIInv, [Next]_vars, NEW k \in Keys, Orphaned(k)', ~Orphaned(k)
        PROVE  \E t \in Callers : Drop(t)
    <2>1. CASE inflight[k] = Nothing
      BY <1>1, <2>1 DEF Next, vars, Orphaned, Leading, RustIInv, TypeOK, Follow, Lead, Finish,
         Send, Remove, Recv, RecvClosed, Leave, Forget
    <2>2. CASE inflight[k] # Nothing
      <3>1. PICK t \in Callers : Leading(t) /\ key[t] = k
        BY <1>1, <2>2 DEF Orphaned
      <3> QED BY <1>1, <2>2, <3>1
                 DEF Next, vars, Orphaned, Leading, RustIInv, TypeOK, Follow, Lead, Finish,
         Send, Remove, Recv, RecvClosed, Leave, Forget
    <2> QED  BY <2>1, <2>2
  <1>2. RustIInv /\ [Next]_vars =>
          [\A k \in Keys : Orphaned(k)' => Orphaned(k) \/ \E t \in Callers : Drop(t)]_vars
    BY <1>1
  <1> QED  BY <1>2, RustInvariance, PTL DEF Spec, OnlyDropsOrphan
=============================================================================
