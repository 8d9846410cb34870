---------------------------- MODULE ClientProofs -----------------------------
(***************************************************************************)
(* Proofs about calls through a client of each SDK, for any finite number  *)
(* of calls, any number of slots and any number of retries.  A slot is     *)
(* owned by the stage a call is in; that the telemetry is balanced needs,  *)
(* stage by stage, which hooks a call has fired so far.                    *)
(***************************************************************************)
EXTENDS MCClients, TLAPS, FiniteSetTheorems, SequenceTheorems

(* Where a call can stand, and the hooks it can fire. *)
Stages == {"idle", "gate", "limiter", "follow", "send", "network", "backoff", "landed",
           "streaming", "done"}
HookNames == {"start", "cache", "end", "error", "retry", "unreported"}

Types ==
  /\ sdk \in {"rust", "go", "ts"}
  /\ pc \in [Calls -> Stages]
  /\ free \in Nat
  /\ attempt \in [Calls -> Nat]
  /\ hooks \in [Calls -> Seq(HookNames)]
  /\ dedupe \in BOOLEAN
  /\ kind \in [Calls -> {"json", "stream"}]
  /\ result \in [Calls -> {"none", "ok", "error"}]

SlotsInv == Types /\ free + Cardinality(Holders) = Slots

LEMMA InitSlots == MCInit => SlotsInv
  <1> SUFFICES ASSUME MCInit PROVE SlotsInv
    OBVIOUS
  <1>1. Types
    BY ClientAssumption DEF MCInit, ClientInit, Types, Stages
  <1>2. Holders = {}
    BY DEF MCInit, ClientInit, Holders
  <1> QED  BY <1>1, <1>2, FS_EmptySet, ClientAssumption DEF MCInit, ClientInit, SlotsInv

LEMMA HoldersFinite == IsFiniteSet(Holders) /\ Cardinality(Holders) \in Nat
  BY ClientAssumption, FS_Subset, FS_CardinalityType DEF Holders

(* The three things a step can do to the slots. *)
Keep == free' = free /\ Holders' = Holders
Take(c) == free > 0 /\ free' = free - 1 /\ c \notin Holders /\ Holders' = Holders \cup {c}
Give(c) == free' = free + 1 /\ c \in Holders /\ Holders' = Holders \ {c}

LEMMA SlotSteps ==
    ASSUME SlotsInv, Types', NEW c \in Calls, Keep \/ Take(c) \/ Give(c)
    PROVE  SlotsInv'
  <1>1. CASE Keep
    BY <1>1 DEF SlotsInv, Keep
  <1>2. CASE Take(c)
    <2>1. Cardinality(Holders') = Cardinality(Holders) + 1
      BY <1>2, HoldersFinite, FS_AddElement DEF Take
    <2>2. free \in Nat /\ free + Cardinality(Holders) = Slots
      BY DEF SlotsInv, Types
    <2>3. free' + Cardinality(Holders') = Slots
      BY <1>2, <2>1, <2>2, HoldersFinite DEF Take
    <2> QED  BY <2>3 DEF SlotsInv
  <1>3. CASE Give(c)
    <2>1. Cardinality(Holders') = Cardinality(Holders) - 1
      BY <1>3, HoldersFinite, FS_RemoveElement DEF Give
    <2>2. free \in Nat /\ free + Cardinality(Holders) = Slots
      BY DEF SlotsInv, Types
    <2>3. free' + Cardinality(Holders') = Slots
      BY <1>3, <2>1, <2>2, HoldersFinite DEF Give
    <2> QED  BY <2>3 DEF SlotsInv
  <1> QED  BY <1>1, <1>2, <1>3

-----------------------------------------------------------------------------
(* How often the names of N occur among the hooks s. *)
Tally(s, N) == Cardinality({i \in DOMAIN s : s[i] \in N})

LEMMA TallyType ==
    ASSUME NEW s \in Seq(HookNames), NEW N
    PROVE  /\ IsFiniteSet({i \in DOMAIN s : s[i] \in N})
           /\ Tally(s, N) \in Nat
  <1>1. DOMAIN s = 1 .. Len(s) /\ Len(s) \in Nat
    OBVIOUS
  <1>2. IsFiniteSet(DOMAIN s)
    BY <1>1, FS_Interval
  <1> QED  BY <1>2, FS_Subset, FS_CardinalityType DEF Tally

LEMMA TallyOne ==
    ASSUME NEW s \in Seq(HookNames), NEW x \in HookNames, NEW N
    PROVE  /\ s \o <<x>> \in Seq(HookNames)
           /\ Tally(s \o <<x>>, N) = Tally(s, N) + (IF x \in N THEN 1 ELSE 0)
  <1> DEFINE t == s \o <<x>>
             A == {i \in DOMAIN s : s[i] \in N}
             B == {i \in DOMAIN t : t[i] \in N}
  <1>0. <<x>> \in Seq(HookNames) /\ Len(<<x>>) = 1 /\ <<x>>[1] = x
    OBVIOUS
  <1>1. /\ t \in Seq(HookNames) /\ Len(t) = Len(s) + 1
        /\ \A i \in 1 .. Len(s) + 1 : t[i] = IF i <= Len(s) THEN s[i] ELSE <<x>>[i - Len(s)]
    BY <1>0, ConcatProperties
  <1>2. /\ DOMAIN t = 1 .. Len(s) + 1 /\ DOMAIN s = 1 .. Len(s) /\ Len(s) \in Nat
        /\ t[Len(s) + 1] = x
        /\ \A i \in 1 .. Len(s) : t[i] = s[i]
    <2> HIDE DEF t
    <2> QED  BY <1>0, <1>1
  <1>3. B = A \cup (IF x \in N THEN {Len(s) + 1} ELSE {})
    <2> HIDE DEF t
    <2> QED  BY <1>2
  <1>4. Len(s) + 1 \notin A /\ IsFiniteSet(A)
    <2>1. Len(s) + 1 \notin DOMAIN s
      BY <1>2
    <2> QED  BY <2>1, TallyType
  <1>5. Cardinality(B) = Cardinality(A) + (IF x \in N THEN 1 ELSE 0)
    <2> HIDE DEF A, B
    <2>1. Cardinality(A) \in Nat
      BY <1>4, FS_CardinalityType
    <2>2. CASE x \in N
      BY <1>3, <1>4, <2>2, FS_AddElement
    <2>3. CASE x \notin N
      BY <1>3, <2>1, <2>3
    <2> QED  BY <2>2, <2>3
  <1> QED  BY <1>1, <1>5 DEF Tally

LEMMA TwoHooks ==
    ASSUME NEW s \in Seq(HookNames), NEW x \in HookNames, NEW y \in HookNames
    PROVE  /\ s \o <<x, y>> = (s \o <<x>>) \o <<y>>
           /\ <<x>> \o <<y>> = <<x, y>>
  <1>1. <<x>> \in Seq(HookNames) /\ <<y>> \in Seq(HookNames) /\ <<x, y>> \in Seq(HookNames)
    OBVIOUS
  <1>2. /\ <<x>> \o <<y>> \in Seq(HookNames) /\ Len(<<x>> \o <<y>>) = 2
        /\ (<<x>> \o <<y>>)[1] = x /\ (<<x>> \o <<y>>)[2] = y
    OBVIOUS
  <1>3. <<x>> \o <<y>> = <<x, y>>
    <2> DEFINE t == <<x>> \o <<y>>
               u == <<x, y>>
    <2>1. Len(u) = 2 /\ u[1] = x /\ u[2] = y
      OBVIOUS
    <2>2. \A i \in 1 .. 2 : t[i] = u[i]
      BY <1>2, <2>1
    <2>3. t = u
      <3> HIDE DEF t, u
      <3> QED  BY <1>1, <1>2, <2>1, <2>2, SeqEqual DEF t, u
    <2> QED  BY <2>3
  <1>4. s \o (<<x>> \o <<y>>) = (s \o <<x>>) \o <<y>>
    BY <1>1, ConcatAssociative
  <1> QED  BY <1>3, <1>4

(* The tallies that matter. *)
Starts(s) == Tally(s, {"start"})
Ends(s) == Tally(s, {"end"})
Errors(s) == Tally(s, {"error"})
Retries(s) == Tally(s, {"retry"})
Closings(s) == Tally(s, Closing)
Excuses(s) == Tally(s, {"unreported"})

Numbers(s) ==
  {Starts(s), Ends(s), Errors(s), Retries(s), Closings(s), Excuses(s)} \subseteq Nat

(* The hooks t are s and one call of x more. *)
Adds(s, x, t) ==
  /\ Starts(t) = Starts(s) + (IF x = "start" THEN 1 ELSE 0)
  /\ Ends(t) = Ends(s) + (IF x = "end" THEN 1 ELSE 0)
  /\ Errors(t) = Errors(s) + (IF x = "error" THEN 1 ELSE 0)
  /\ Retries(t) = Retries(s) + (IF x = "retry" THEN 1 ELSE 0)
  /\ Closings(t) = Closings(s) + (IF x \in {"end", "error"} THEN 1 ELSE 0)
  /\ Excuses(t) = Excuses(s) + (IF x = "unreported" THEN 1 ELSE 0)

LEMMA OneHook ==
    ASSUME NEW s \in Seq(HookNames), NEW x \in HookNames
    PROVE  s \o <<x>> \in Seq(HookNames) /\ Adds(s, x, s \o <<x>>)
  <1>1. \A N : Tally(s \o <<x>>, N) = Tally(s, N) + (IF x \in N THEN 1 ELSE 0)
    BY TallyOne
  <1>2. x \in Closing <=> x \in {"end", "error"}
    BY DEF Closing
  <1> QED  BY <1>1, <1>2, TallyOne DEF Adds, Starts, Ends, Errors, Retries, Closings, Excuses

(* What a step that calls hook x, or x and then y, for call c does. *)
LEMMA SaysOne ==
    ASSUME Types, NEW c \in Calls, NEW x \in HookNames,
           hooks' = [hooks EXCEPT ![c] = @ \o <<x>>]
    PROVE  /\ hooks' \in [Calls -> Seq(HookNames)]
           /\ \A d \in Calls \ {c} : hooks'[d] = hooks[d]
           /\ hooks'[c] = hooks[c] \o <<x>>
           /\ Adds(hooks[c], x, hooks'[c])
  <1>1. hooks[c] \in Seq(HookNames)
    BY DEF Types
  <1>2. hooks'[c] = hooks[c] \o <<x>> /\ hooks[c] \o <<x>> \in Seq(HookNames)
    BY <1>1, OneHook DEF Types
  <1> QED  BY <1>1, <1>2, OneHook DEF Types

LEMMA SaysTwo ==
    ASSUME Types, NEW c \in Calls, NEW x \in HookNames, NEW y \in HookNames,
           hooks' = [hooks EXCEPT ![c] = @ \o <<x, y>>]
    PROVE  /\ hooks' \in [Calls -> Seq(HookNames)]
           /\ \A d \in Calls \ {c} : hooks'[d] = hooks[d]
           /\ \E s \in Seq(HookNames) : /\ s = hooks[c] \o <<x>> /\ hooks'[c] = s \o <<y>>
                                        /\ Adds(hooks[c], x, s) /\ Adds(s, y, hooks'[c])
  <1> DEFINE s == hooks[c] \o <<x>>
  <1>1. hooks[c] \in Seq(HookNames)
    BY DEF Types
  <1>2. s \in Seq(HookNames) /\ Adds(hooks[c], x, s)
    BY <1>1, OneHook
  <1>3. hooks'[c] = s \o <<y>>
    BY <1>1, TwoHooks DEF Types
  <1>4. s \o <<y>> \in Seq(HookNames) /\ Adds(s, y, s \o <<y>>)
    <2> HIDE DEF s
    <2> QED  BY <1>2, OneHook
  <1>5. hooks' \in [Calls -> Seq(HookNames)] /\ \A d \in Calls \ {c} : hooks'[d] = hooks[d]
    <2> HIDE DEF s
    <2> QED  BY <1>1, <1>2, <1>3, <1>4 DEF Types
  <1> QED  BY <1>2, <1>3, <1>4, <1>5

LEMMA SaysNothing ==
    ASSUME Types, NEW c \in Calls, hooks' = [hooks EXCEPT ![c] = @ \o <<>>]
    PROVE  hooks' = hooks
  <1>1. hooks[c] \o <<>> = hooks[c]
    BY ConcatEmptySeq DEF Types
  <1> QED  BY <1>1 DEF Types

(* A hook of N is the last one. *)
OnlyLast(s, N) == \A i \in DOMAIN s : s[i] \in N => i = Len(s)

LEMMA NoneYet ==
    ASSUME NEW s \in Seq(HookNames), NEW N, Tally(s, N) = 0
    PROVE  /\ OnlyLast(s, N)
           /\ \A x \in HookNames : OnlyLast(s \o <<x>>, N)
  <1>1. \A i \in DOMAIN s : s[i] \notin N
    <2>1. {i \in DOMAIN s : s[i] \in N} = {}
      BY TallyType, FS_EmptySet DEF Tally
    <2> QED  BY <2>1
  <1>2. ASSUME NEW x \in HookNames PROVE OnlyLast(s \o <<x>>, N)
    <2> DEFINE t == s \o <<x>>
    <2>1. <<x>> \in Seq(HookNames) /\ Len(<<x>>) = 1
      OBVIOUS
    <2>2. /\ t \in Seq(HookNames) /\ Len(t) = Len(s) + 1 /\ Len(s) \in Nat
          /\ \A i \in 1 .. Len(s) + 1 : t[i] = IF i <= Len(s) THEN s[i] ELSE <<x>>[i - Len(s)]
      BY <2>1, ConcatProperties
    <2>3. DOMAIN t = 1 .. Len(s) + 1 /\ DOMAIN s = 1 .. Len(s)
      <3> HIDE DEF t
      <3> QED  BY <2>2
    <2>4. \A i \in DOMAIN t : t[i] \in N => i = Len(t)
      <3> HIDE DEF t
      <3> QED  BY <1>1, <2>2, <2>3
    <2> QED  BY <2>4 DEF OnlyLast
  <1> QED  BY <1>1, <1>2 DEF OnlyLast

(* The same for an end, and for an end or an error. *)
EndLast(s) == OnlyLast(s, {"end"})
ClosedLast(s) == OnlyLast(s, Closing)

LEMMA NoEndYet ==
    ASSUME NEW s \in Seq(HookNames), Ends(s) = 0
    PROVE  EndLast(s) /\ \A x \in HookNames : EndLast(s \o <<x>>)
  BY NoneYet DEF EndLast, Ends

LEMMA NoClosingYet ==
    ASSUME NEW s \in Seq(HookNames), Closings(s) = 0
    PROVE  ClosedLast(s) /\ \A x \in HookNames : ClosedLast(s \o <<x>>)
  BY NoneYet DEF ClosedLast, Closings

-----------------------------------------------------------------------------
(* An end was reported for an answer: the call landed with it and may have *)
(* returned since.                                                         *)
Answered(p, s, r) ==
  Ends(s) > 0 => \/ p = "landed" /\ r = "ok"
                 \/ p = "done" /\ r \in {"ok", "error"}

(* What the hooks s of a Rust call say at stage p, attempt a and result r: *)
(* errors and retries are counted by the attempts, and an end comes last.  *)
RustTold(p, s, a, r) ==
  /\ a <= MaxRetries
  /\ EndLast(s) /\ Ends(s) <= 1
  /\ Answered(p, s, r)
  /\ p \in {"idle", "gate", "limiter", "follow", "streaming"} =>
        a = 0 /\ Errors(s) = 0 /\ Retries(s) = 0
  /\ p \in {"send", "network"} => Errors(s) <= a /\ Retries(s) <= a
  /\ p = "backoff" => a < MaxRetries /\ Retries(s) <= a + 1
  /\ p \in {"backoff", "landed", "done"} =>
        Errors(s) <= a + 1 /\ Retries(s) <= MaxRetries

(* Of a Go call: it is started once it passed the limiter, and closed when *)
(* it returns.                                                             *)
GoTold(p, s) ==
  /\ ClosedLast(s)
  /\ p \in {"idle", "gate", "limiter"} => Starts(s) = 0
  /\ p \in {"follow", "send", "network", "backoff", "landed"} => Starts(s) = 1
  /\ p # "done" => Closings(s) = 0
  /\ p = "done" => Closings(s) = Starts(s)

(* Of a TypeScript call: its first attempt starts it, and it is closed or  *)
(* marked, once, as it lands.                                              *)
TsTold(p, s, a, r) ==
  /\ ClosedLast(s)
  /\ Answered(p, s, r)
  /\ Starts(s) <= 1
  /\ p \in {"idle", "gate", "follow"} => a = 0 /\ Starts(s) = 0
  /\ p = "send" => Starts(s) = IF a = 0 THEN 0 ELSE 1
  /\ p \in {"network", "backoff"} => Starts(s) = 1
  /\ p \notin {"landed", "done"} => Closings(s) = 0 /\ Excuses(s) = 0
  /\ p \in {"landed", "done"} =>
        Closings(s) = IF Excuses(s) > 0 THEN 0 ELSE Starts(s)

Told ==
  \A c \in Calls :
    /\ sdk = "rust" => RustTold(pc[c], hooks[c], attempt[c], result[c])
    /\ sdk = "go" => GoTold(pc[c], hooks[c])
    /\ sdk = "ts" => TsTold(pc[c], hooks[c], attempt[c], result[c])

IInv == SlotsInv /\ Told

LEMMA InitIInv == MCInit => IInv
  <1> SUFFICES ASSUME MCInit PROVE Told
    BY InitSlots DEF IInv
  <1>1. \A N : Tally(<<>>, N) = 0
    BY FS_EmptySet DEF Tally
  <1>2. EndLast(<<>>) /\ ClosedLast(<<>>)
    BY DEF EndLast, ClosedLast, OnlyLast
  <1>3. \A c \in Calls : pc[c] = "idle" /\ hooks[c] = <<>> /\ attempt[c] = 0
    BY DEF MCInit, ClientInit
  <1> QED  BY <1>1, <1>2, <1>3, ClientAssumption
           DEF Told, RustTold, GoTold, TsTold, Answered, Starts, Ends, Errors, Retries,
               Closings, Excuses

(* The tallies of a call are numbers. *)
LEMMA TalliesAreNumbers ==
    ASSUME Types, NEW c \in Calls
    PROVE  /\ hooks[c] \in Seq(HookNames) /\ attempt[c] \in Nat
           /\ Numbers(hooks[c])
  <1>1. hooks[c] \in Seq(HookNames) /\ attempt[c] \in Nat
    BY DEF Types
  <1>2. \A N : Tally(hooks[c], N) \in Nat
    BY <1>1, TallyType
  <1> QED  BY <1>1, <1>2 DEF Numbers, Starts, Ends, Errors, Retries, Closings, Excuses

(* The calls other than c stay where they are, or a flight lands for them. *)
Others(c) ==
  \A d \in Calls \ {c} :
    /\ hooks'[d] = hooks[d] /\ attempt'[d] = attempt[d]
    /\ \/ pc'[d] = pc[d] /\ result'[d] = result[d]
       \/ pc[d] = "follow" /\ pc'[d] = "landed"

(* What a step of call c has to show. *)
LEMMA StepIInv ==
    ASSUME IInv, NEW c \in Calls, sdk' = sdk, Types', Keep \/ Take(c) \/ Give(c), Others(c),
           sdk = "rust" => RustTold(pc'[c], hooks'[c], attempt'[c], result'[c]),
           sdk = "go" => GoTold(pc'[c], hooks'[c]),
           sdk = "ts" => TsTold(pc'[c], hooks'[c], attempt'[c], result'[c])
    PROVE  IInv'
  <1>1. SlotsInv'
    BY SlotSteps DEF IInv
  <1>2. ASSUME NEW d \in Calls, d # c
        PROVE  /\ sdk = "rust" => RustTold(pc'[d], hooks'[d], attempt'[d], result'[d])
               /\ sdk = "go" => GoTold(pc'[d], hooks'[d])
               /\ sdk = "ts" => TsTold(pc'[d], hooks'[d], attempt'[d], result'[d])
    <2>1. hooks'[d] = hooks[d] /\ attempt'[d] = attempt[d]
      BY <1>2 DEF Others
    <2>2. CASE pc'[d] = pc[d] /\ result'[d] = result[d]
      BY <2>1, <2>2 DEF IInv, Told
    <2>3. Numbers(hooks[d])
      BY TalliesAreNumbers DEF IInv, SlotsInv
    <2>4. CASE pc[d] = "follow" /\ pc'[d] = "landed"
      <3>1. sdk = "rust" => RustTold(pc'[d], hooks'[d], attempt'[d], result'[d])
        BY <2>1, <2>4, ClientAssumption DEF IInv, Told, RustTold, Answered
      <3>2. sdk = "go" => GoTold(pc'[d], hooks'[d])
        BY <2>1, <2>4 DEF IInv, Told, GoTold
      <3>3. sdk = "ts" => TsTold(pc'[d], hooks'[d], attempt'[d], result'[d])
        BY <2>1, <2>3, <2>4 DEF IInv, Told, TsTold, Answered, Numbers
      <3> QED  BY <3>1, <3>2, <3>3
    <2> QED  BY <1>2, <2>2, <2>4 DEF Others
  <1>3. Told'
    BY <1>2 DEF Told
  <1> QED  BY <1>1, <1>3 DEF IInv

LEMMA RustStep ==
    ASSUME IInv, sdk = "rust", UNCHANGED sdk, Rust!Next
    PROVE  IInv'
  <1> PICK c \in Calls :
           \/ Rust!Start(c) \/ Rust!Gate(c) \/ Rust!Limiter(c) \/ Rust!LimiterFails(c)
           \/ Rust!AuthFails(c) \/ Rust!Send(c) \/ Rust!Succeed(c) \/ Rust!NotModified(c)
           \/ \E retriable \in BOOLEAN :
                 Rust!HttpError(c, retriable) \/ Rust!TransportError(c, retriable)
           \/ Rust!Backoff(c) \/ Rust!Return(c) \/ Rust!StreamStart(c)
           \/ Rust!StreamOpen(c) \/ Rust!Drop(c)
    BY DEF Rust!Next
  <1>0. /\ Types /\ RustTold(pc[c], hooks[c], attempt[c], result[c]) /\ attempt[c] \in Nat
        /\ hooks[c] \in Seq(HookNames) /\ Numbers(hooks[c])
    BY TalliesAreNumbers DEF IInv, SlotsInv, Told
  <1> DEFINE Fine == RustTold(pc'[c], hooks'[c], attempt'[c], result'[c])
  <1> USE DEF Rust!Goto, Rust!Hook, HookNames
  <1>1. CASE Rust!Start(c)
    <2>1. Types' /\ Keep /\ Others(c)
      BY <1>0, <1>1 DEF Rust!Start, Keep, Holders, Others, Types, Stages
    <2>2. Fine
      BY <1>0, <1>1, ClientAssumption DEF Rust!Start, Types, RustTold, Answered, Numbers
    <2> QED  BY <2>1, <2>2, StepIInv
  <1>2. CASE Rust!Gate(c)
    <2>1. hooks' = [hooks EXCEPT ![c] = @ \o <<"start">>]
      BY <1>2 DEF Rust!Gate
    <2>2. /\ hooks' \in [Calls -> Seq(HookNames)]
          /\ \A d \in Calls \ {c} : hooks'[d] = hooks[d]
          /\ hooks'[c] = hooks[c] \o <<"start">> /\ Adds(hooks[c], "start", hooks'[c])
      BY <1>0, <2>1, SaysOne
    <2>3. Types' /\ Take(c) /\ Others(c)
      BY <1>0, <1>2, <2>2 DEF Rust!Gate, Take, Holders, Others, Types, Stages
    <2>4. Fine
      BY <1>0, <1>2, <2>2, NoEndYet DEF Rust!Gate, Types, RustTold, Answered, Numbers, Adds
    <2> QED  BY <2>3, <2>4, StepIInv
  <1>3. CASE Rust!LimiterFails(c)
    <2>1. Types' /\ Give(c) /\ Others(c)
      BY <1>0, <1>3 DEF Rust!LimiterFails, Rust!Leave, Give, Holders, Others, Types, Stages
    <2>2. Fine
      BY <1>0, <1>3, ClientAssumption
         DEF Rust!LimiterFails, Rust!Leave, Types, RustTold, Answered, Numbers
    <2> QED  BY <2>1, <2>2, StepIInv
  <1>4. CASE Rust!Limiter(c)
    <2>1. hooks' = [hooks EXCEPT ![c] = @ \o <<"cache">>]
      BY <1>4 DEF Rust!Limiter
    <2>2. /\ hooks' \in [Calls -> Seq(HookNames)]
          /\ \A d \in Calls \ {c} : hooks'[d] = hooks[d]
          /\ hooks'[c] = hooks[c] \o <<"cache">> /\ Adds(hooks[c], "cache", hooks'[c])
      BY <1>0, <2>1, SaysOne
    <2>3. Types' /\ Keep /\ Others(c)
      <3>1. Types'
        BY <1>0, <1>4, <2>2 DEF Rust!Limiter, Types, Stages
      <3>2. Keep
        BY <1>0, <1>4 DEF Rust!Limiter, Keep, Holders, Types
      <3>3. Others(c)
        BY <1>0, <1>4, <2>2 DEF Rust!Limiter, Others, Types
      <3> QED  BY <3>1, <3>2, <3>3
    <2>4. Fine
      BY <1>0, <1>4, <2>2, NoEndYet DEF Rust!Limiter, Types, RustTold, Answered, Numbers, Adds
    <2> QED  BY <2>3, <2>4, StepIInv
  <1>5. CASE Rust!AuthFails(c) \/ Rust!NotModified(c)
    <2>1. Types' /\ Keep /\ Others(c)
      BY <1>0, <1>5 DEF Rust!AuthFails, Rust!NotModified, Rust!Land, Keep, Holders, Others,
                        Types, Stages
    <2>2. Fine
      BY <1>0, <1>5, ClientAssumption
         DEF Rust!AuthFails, Rust!NotModified, Rust!Land, Types, RustTold, Answered, Numbers
    <2> QED  BY <2>1, <2>2, StepIInv
  <1>6. CASE Rust!Send(c)
    <2>1. Types' /\ Keep /\ Others(c)
      BY <1>0, <1>6 DEF Rust!Send, Keep, Holders, Others, Types, Stages
    <2>2. Fine
      BY <1>0, <1>6 DEF Rust!Send, Types, RustTold, Answered
    <2> QED  BY <2>1, <2>2, StepIInv
  <1>7. CASE Rust!Backoff(c)
    <2>1. attempt' \in [Calls -> Nat] /\ attempt'[c] = attempt[c] + 1
      BY <1>0, <1>7 DEF Rust!Backoff, Types
    <2>2. Types' /\ Keep /\ Others(c)
      BY <1>0, <1>7, <2>1 DEF Rust!Backoff, Keep, Holders, Others, Types, Stages
    <2>3. Fine
      BY <1>0, <1>7, <2>1, ClientAssumption DEF Rust!Backoff, Types, RustTold, Answered, Numbers
    <2> QED  BY <2>2, <2>3, StepIInv
  <1>8. CASE Rust!Succeed(c)
    <2>1. hooks' = [hooks EXCEPT ![c] = @ \o <<"end">>]
      BY <1>8 DEF Rust!Succeed
    <2>2. /\ hooks' \in [Calls -> Seq(HookNames)]
          /\ \A d \in Calls \ {c} : hooks'[d] = hooks[d]
          /\ hooks'[c] = hooks[c] \o <<"end">> /\ Adds(hooks[c], "end", hooks'[c])
      BY <1>0, <2>1, SaysOne
    <2>3. Types' /\ Keep /\ Others(c)
      BY <1>0, <1>8, <2>2 DEF Rust!Succeed, Rust!Land, Keep, Holders, Others, Types, Stages
    <2>4. Fine
      BY <1>0, <1>8, <2>2, NoEndYet, ClientAssumption
         DEF Rust!Succeed, Rust!Land, Types, RustTold, Answered, Numbers, Adds
    <2> QED  BY <2>3, <2>4, StepIInv
  <1>9. ASSUME NEW retriable \in BOOLEAN,
               Rust!HttpError(c, retriable) \/ Rust!TransportError(c, retriable)
        PROVE  IInv'
    <2> DEFINE again == retriable /\ attempt[c] < MaxRetries
    <2>1. /\ pc[c] = "network"
          /\ \/ Rust!FailWith(c, <<"error">>, retriable)
             \/ Rust!FailWith(c, <<>>, retriable)
          /\ UNCHANGED <<free, attempt, dedupe, kind>>
      BY <1>9 DEF Rust!HttpError, Rust!TransportError
    <2>2. /\ \/ hooks' = [hooks EXCEPT ![c] = @ \o <<"error", "retry">>] /\ again
             \/ hooks' = [hooks EXCEPT ![c] = @ \o <<"error">>] /\ ~again
             \/ hooks' = [hooks EXCEPT ![c] = @ \o <<"retry">>] /\ again
             \/ hooks' = hooks /\ ~again
      <3>1. /\ <<"error">> \o <<"retry">> = <<"error", "retry">>
            /\ <<"error">> \o <<>> = <<"error">>
            /\ <<>> \o <<"retry">> = <<"retry">>
            /\ <<>> \o <<>> = <<>>
        <4>1. /\ <<"error">> \in Seq(HookNames) /\ <<"retry">> \in Seq(HookNames)
              /\ <<>> \in Seq(HookNames)
          OBVIOUS
        <4>2. <<"error">> \o <<"retry">> = <<"error", "retry">>
          BY <4>1, TwoHooks
        <4> QED  BY <4>1, <4>2, ConcatEmptySeq
      <3>2. hooks' = [hooks EXCEPT ![c] = @ \o <<>>] => hooks' = hooks
        BY <1>0, SaysNothing
      <3> QED  BY <2>1, <3>1, <3>2 DEF Rust!FailWith
    <2>3. /\ again => pc' = [pc EXCEPT ![c] = "backoff"] /\ UNCHANGED <<result, flight>>
          /\ ~again => Rust!Land(c, "error")
      BY <2>1 DEF Rust!FailWith
    <2>4. /\ hooks' \in [Calls -> Seq(HookNames)]
          /\ \A d \in Calls \ {c} : hooks'[d] = hooks[d]
      BY <1>0, <2>2, SaysOne, SaysTwo DEF Types
    <2>5. /\ Ends(hooks'[c]) = 0 /\ EndLast(hooks'[c])
          /\ Errors(hooks'[c]) <= Errors(hooks[c]) + 1
          /\ Retries(hooks'[c]) <= Retries(hooks[c]) + (IF again THEN 1 ELSE 0)
      <3>0. Ends(hooks[c]) = 0
        BY <1>0, <2>1 DEF RustTold, Answered, Numbers
      <3>1. CASE hooks' = [hooks EXCEPT ![c] = @ \o <<"error", "retry">>] /\ again
        <4>1. PICK s \in Seq(HookNames) : /\ hooks'[c] = s \o <<"retry">>
                                          /\ Adds(hooks[c], "error", s)
                                          /\ Adds(s, "retry", hooks'[c])
          BY <1>0, <3>1, SaysTwo
        <4>2. Ends(s) = 0
          BY <3>0, <4>1 DEF Adds
        <4>3. EndLast(hooks'[c])
          BY <4>1, <4>2, NoEndYet
        <4>4. again /\ Numbers(hooks[c])
          BY <1>0, <3>1
        <4> HIDE DEF again
        <4> QED  BY <3>0, <4>1, <4>2, <4>3, <4>4 DEF Adds, Numbers
      <3>2. CASE hooks' = [hooks EXCEPT ![c] = @ \o <<"error">>] /\ ~again
        <4>1. hooks'[c] = hooks[c] \o <<"error">> /\ Adds(hooks[c], "error", hooks'[c])
          BY <1>0, <3>2, SaysOne
        <4>2. EndLast(hooks'[c])
          BY <1>0, <3>0, <4>1, NoEndYet
        <4>3. ~again /\ Numbers(hooks[c])
          BY <1>0, <3>2
        <4> HIDE DEF again
        <4> QED  BY <3>0, <4>1, <4>2, <4>3 DEF Adds, Numbers
      <3>3. CASE hooks' = [hooks EXCEPT ![c] = @ \o <<"retry">>] /\ again
        <4>1. hooks'[c] = hooks[c] \o <<"retry">> /\ Adds(hooks[c], "retry", hooks'[c])
          BY <1>0, <3>3, SaysOne
        <4>2. EndLast(hooks'[c])
          BY <1>0, <3>0, <4>1, NoEndYet
        <4>3. again /\ Numbers(hooks[c])
          BY <1>0, <3>3
        <4> HIDE DEF again
        <4> QED  BY <3>0, <4>1, <4>2, <4>3 DEF Adds, Numbers
      <3>4. CASE hooks' = hooks /\ ~again
        BY <1>0, <3>0, <3>4, NoEndYet DEF Numbers
      <3> QED  BY <2>2, <3>1, <3>2, <3>3, <3>4
    <2>6. Numbers(hooks'[c])
      BY <2>4, TallyType DEF Numbers, Starts, Ends, Errors, Retries, Closings, Excuses
    <2>7. Types' /\ Keep /\ Others(c)
      <3> HIDE DEF again
      <3>1. pc' \in [Calls -> Stages]
        <4>1. pc \in [Calls -> Stages] /\ {"backoff", "landed"} \subseteq Stages
          BY <1>0 DEF Types, Stages
        <4>2. CASE again
          BY <2>3, <4>1, <4>2
        <4>3. CASE ~again
          BY <2>3, <4>1, <4>3 DEF Rust!Land
        <4> QED  BY <4>2, <4>3
      <3>2. result' \in [Calls -> {"none", "ok", "error"}]
        BY <1>0, <2>3 DEF Rust!Land, Types
      <3>3. Types'
        BY <1>0, <2>1, <2>4, <3>1, <3>2 DEF Types
      <3>4. Holders' = Holders
        BY <1>0, <2>1, <2>3 DEF Rust!Land, Holders, Types
      <3>5. Keep
        BY <2>1, <3>4 DEF Keep
      <3>6. Others(c)
        BY <1>0, <2>1, <2>3, <2>4 DEF Rust!Land, Others, Types
      <3> QED  BY <3>3, <3>5, <3>6
    <2>8. pc'[c] = IF again THEN "backoff" ELSE "landed"
      BY <1>0, <2>3 DEF Rust!Land, Types
    <2>9. Fine
      <3>1. /\ attempt'[c] = attempt[c] /\ attempt[c] <= MaxRetries
            /\ Errors(hooks[c]) <= attempt[c] /\ Retries(hooks[c]) <= attempt[c]
        BY <1>0, <2>1 DEF RustTold, Answered
      <3>2. /\ again => attempt[c] < MaxRetries
            /\ {Ends(hooks'[c]), Errors(hooks'[c]), Retries(hooks'[c])} \subseteq Nat
            /\ {Errors(hooks[c]), Retries(hooks[c]), attempt[c]} \subseteq Nat
        BY <1>0, <2>6 DEF Numbers
      <3> HIDE DEF again
      <3>3. CASE again
        BY <2>5, <2>8, <3>1, <3>2, <3>3, ClientAssumption DEF RustTold, Answered
      <3>4. CASE ~again
        BY <2>5, <2>8, <3>1, <3>2, <3>4, ClientAssumption DEF RustTold, Answered
      <3> QED  BY <3>3, <3>4
    <2> QED  BY <2>7, <2>9, StepIInv
  <1>10. CASE Rust!Return(c)
    <2>1. PICK r \in {result[c], "error"} : Rust!Leave(c, r)
      BY <1>10 DEF Rust!Return
    <2>2. r \in {"none", "ok", "error"}
      BY <1>0 DEF Types
    <2>3. Types' /\ Give(c) /\ Others(c)
      BY <1>0, <1>10, <2>1, <2>2
         DEF Rust!Return, Rust!Leave, Give, Holders, Others, Types, Stages
    <2>4. Fine
      BY <1>0, <1>10, <2>1 DEF Rust!Return, Rust!Leave, Types, RustTold, Answered
    <2> QED  BY <2>3, <2>4, StepIInv
  <1>11. CASE Rust!StreamStart(c) \/ Rust!StreamOpen(c)
    <2>1. Types' /\ Keep /\ Others(c)
      <3>1. CASE Rust!StreamStart(c)
        BY <1>0, <3>1 DEF Rust!StreamStart, Keep, Holders, Others, Types, Stages
      <3>2. CASE Rust!StreamOpen(c)
        BY <1>0, <3>2 DEF Rust!StreamOpen, Keep, Holders, Others, Types, Stages
      <3> QED  BY <1>11, <3>1, <3>2
    <2>2. Fine
      BY <1>0, <1>11, ClientAssumption
         DEF Rust!StreamStart, Rust!StreamOpen, Types, RustTold, Answered, Numbers
    <2> QED  BY <2>1, <2>2, StepIInv
  <1>12. CASE Rust!Drop(c)
    <2>1. Types' /\ (Keep \/ Give(c)) /\ Others(c)
      BY <1>0, <1>12 DEF Rust!Drop, Keep, Give, Holders, Others, Types, Stages
    <2>2. Fine
      BY <1>0, <1>12, ClientAssumption DEF Rust!Drop, Types, RustTold, Answered, Numbers
    <2> QED  BY <2>1, <2>2, StepIInv
  <1> QED  BY <1>1, <1>2, <1>3, <1>4, <1>5, <1>6, <1>7, <1>8, <1>9, <1>10, <1>11, <1>12

LEMMA GoStep ==
    ASSUME IInv, sdk = "go", UNCHANGED sdk, Go!Next
    PROVE  IInv'
  <1> PICK c \in Calls :
           \/ Go!Start(c) \/ Go!Gate(c) \/ Go!GateCancelled(c) \/ Go!Limiter(c)
           \/ Go!LimiterFails(c) \/ Go!StreamOpen(c) \/ Go!Send(c) \/ Go!Succeed(c)
           \/ \E retriable \in BOOLEAN :
                 Go!AuthFails(c, retriable) \/ Go!AttemptFails(c, retriable)
           \/ Go!Backoff(c) \/ Go!BackoffCancelled(c) \/ Go!Return(c)
    BY DEF Go!Next
  <1>0. /\ Types /\ GoTold(pc[c], hooks[c]) /\ attempt[c] \in Nat
        /\ hooks[c] \in Seq(HookNames) /\ Numbers(hooks[c])
    BY TalliesAreNumbers DEF IInv, SlotsInv, Told
  <1> DEFINE Fine == GoTold(pc'[c], hooks'[c])
  <1> USE DEF Go!Goto, Go!Hook, HookNames
  <1>1. CASE Go!Start(c) \/ Go!GateCancelled(c)
    <2>1. Types' /\ Keep /\ Others(c)
      BY <1>0, <1>1 DEF Go!Start, Go!GateCancelled, Keep, Holders, Others, Types, Stages
    <2>2. Fine
      BY <1>0, <1>1 DEF Go!Start, Go!GateCancelled, Types, GoTold, Numbers
    <2> QED  BY <2>1, <2>2, StepIInv
  <1>2. CASE Go!Gate(c)
    <2>1. Types' /\ Take(c) /\ Others(c)
      BY <1>0, <1>2 DEF Go!Gate, Take, Holders, Others, Types, Stages
    <2>2. Fine
      BY <1>0, <1>2 DEF Go!Gate, Types, GoTold
    <2> QED  BY <2>1, <2>2, StepIInv
  <1>3. CASE Go!LimiterFails(c) \/ Go!StreamOpen(c)
    <2>a. /\ pc[c] = "limiter" /\ pc' = [pc EXCEPT ![c] = "done"] /\ free' = free + 1
          /\ UNCHANGED <<attempt, hooks, dedupe, kind>>
      BY <1>3 DEF Go!LimiterFails, Go!StreamOpen
    <2>b. /\ result' \in [Calls -> {"none", "ok", "error"}]
          /\ \A d \in Calls \ {c} : result'[d] = result[d]
      BY <1>0, <1>3 DEF Go!LimiterFails, Go!StreamOpen, Types
    <2>c. Types' /\ Others(c)
      <3>1. pc' \in [Calls -> Stages] /\ free' \in Nat
        BY <1>0, <2>a DEF Types, Stages
      <3>2. Types'
        BY <1>0, <2>a, <2>b, <3>1 DEF Types
      <3>3. Others(c)
        BY <1>0, <2>a, <2>b DEF Others, Types
      <3> QED  BY <3>2, <3>3
    <2>d. Give(c)
      BY <1>0, <2>a DEF Give, Holders, Types
    <2>1. Types' /\ Give(c) /\ Others(c)
      BY <2>c, <2>d
    <2>2. Fine
      BY <1>0, <1>3 DEF Go!LimiterFails, Go!StreamOpen, Types, GoTold, Numbers
    <2> QED  BY <2>1, <2>2, StepIInv
  <1>4. CASE Go!Limiter(c)
    <2>1. hooks' = [hooks EXCEPT ![c] = @ \o <<"start", "cache">>]
      BY <1>4 DEF Go!Limiter
    <2>2. /\ hooks' \in [Calls -> Seq(HookNames)]
          /\ \A d \in Calls \ {c} : hooks'[d] = hooks[d]
      BY <1>0, <2>1, SaysTwo
    <2>3. PICK s \in Seq(HookNames) :
              /\ hooks'[c] = s \o <<"cache">>
              /\ Adds(hooks[c], "start", s) /\ Adds(s, "cache", hooks'[c])
      BY <1>0, <2>1, SaysTwo
    <2>a. PICK p \in {"follow", "send"} : pc[c] = "limiter" /\ pc' = [pc EXCEPT ![c] = p]
      BY <1>4 DEF Go!Limiter
    <2>b. UNCHANGED <<free, attempt, dedupe, kind, result>>
      BY <1>4 DEF Go!Limiter
    <2>c. Types' /\ Others(c)
      BY <1>0, <2>2, <2>a, <2>b DEF Others, Types, Stages
    <2>d. Keep
      BY <1>0, <2>a, <2>b DEF Keep, Holders, Types
    <2>4. Types' /\ Keep /\ Others(c)
      BY <2>c, <2>d
    <2>5. pc[c] = "limiter" /\ pc'[c] \in {"follow", "send"}
      BY <1>0, <2>a DEF Types
    <2>e. Starts(hooks[c]) = 0 /\ Closings(hooks[c]) = 0
      BY <1>0, <2>5 DEF GoTold
    <2>f. Starts(s) = 1 /\ Closings(s) = 0
      BY <2>3, <2>e DEF Adds
    <2>h. ClosedLast(hooks'[c])
      BY <2>3, <2>f, NoClosingYet
    <2>g. Starts(hooks'[c]) = 1 /\ Closings(hooks'[c]) = 0
      BY <2>3, <2>f DEF Adds
    <2>6. Fine
      BY <2>5, <2>g, <2>h DEF GoTold
    <2> QED  BY <2>4, <2>6, StepIInv
  <1>5. CASE Go!Send(c)
    <2>1. Types' /\ Keep /\ Others(c)
      BY <1>0, <1>5 DEF Go!Send, Keep, Holders, Others, Types, Stages
    <2>2. Fine
      BY <1>0, <1>5 DEF Go!Send, Types, GoTold
    <2> QED  BY <2>1, <2>2, StepIInv
  <1>6. CASE Go!Succeed(c) \/ Go!BackoffCancelled(c)
    <2>a. PICK r \in {"ok", "error"} : Go!Land(c, r)
      BY <1>6 DEF Go!Succeed, Go!BackoffCancelled
    <2>b. /\ pc[c] \in {"network", "backoff"}
          /\ UNCHANGED <<free, attempt, hooks, dedupe, kind>>
      BY <1>6 DEF Go!Succeed, Go!BackoffCancelled
    <2>c. Types' /\ Others(c)
      BY <1>0, <2>a, <2>b DEF Go!Land, Others, Types, Stages
    <2>d. Keep
      BY <1>0, <2>a, <2>b DEF Go!Land, Keep, Holders, Types
    <2>1. Types' /\ Keep /\ Others(c)
      BY <2>c, <2>d
    <2>2. Fine
      BY <1>0, <1>6 DEF Go!Succeed, Go!BackoffCancelled, Go!Land, Types, GoTold
    <2> QED  BY <2>1, <2>2, StepIInv
  <1>7. ASSUME NEW retriable \in BOOLEAN,
               Go!AuthFails(c, retriable) \/ Go!AttemptFails(c, retriable)
        PROVE  IInv'
    <2> DEFINE again == retriable /\ attempt[c] < MaxRetries
    <2>1. /\ pc[c] \in {"send", "network"}
          /\ Go!FailWith(c, retriable)
          /\ UNCHANGED <<free, attempt, dedupe, kind>>
      BY <1>7 DEF Go!AuthFails, Go!AttemptFails
    <2>2. \/ hooks' = [hooks EXCEPT ![c] = @ \o <<"retry">>] /\ again
          \/ hooks' = hooks /\ ~again
      <3>1. hooks' = [hooks EXCEPT ![c] = @ \o <<>>] => hooks' = hooks
        BY <1>0, SaysNothing
      <3> QED  BY <2>1, <3>1 DEF Go!FailWith
    <2>3. /\ again => pc' = [pc EXCEPT ![c] = "backoff"] /\ UNCHANGED <<result, flight>>
          /\ ~again => Go!Land(c, "error")
      BY <2>1 DEF Go!FailWith
    <2>4. /\ hooks' \in [Calls -> Seq(HookNames)]
          /\ \A d \in Calls \ {c} : hooks'[d] = hooks[d]
          /\ \/ hooks'[c] = hooks[c]
             \/ hooks'[c] = hooks[c] \o <<"retry">> /\ Adds(hooks[c], "retry", hooks'[c])
      BY <1>0, <2>2, SaysOne DEF Types
    <2>5. Types' /\ Keep /\ Others(c)
      <3>1. /\ hooks' \in [Calls -> Seq(HookNames)]
            /\ \A d \in Calls \ {c} : hooks'[d] = hooks[d]
        BY <2>4
      <3>2. CASE again
        BY <1>0, <2>1, <2>3, <3>1, <3>2 DEF Keep, Holders, Others, Types, Stages
      <3>3. CASE ~again
        BY <1>0, <2>1, <2>3, <3>1, <3>3 DEF Go!Land, Keep, Holders, Others, Types, Stages
      <3> QED  BY <3>2, <3>3
    <2>6. pc'[c] \in {"backoff", "landed"}
      BY <1>0, <2>3 DEF Go!Land, Types
    <2>7. Fine
      BY <1>0, <2>1, <2>4, <2>6, NoClosingYet DEF GoTold, Numbers, Adds
    <2> QED  BY <2>5, <2>7, StepIInv
  <1>8. CASE Go!Backoff(c)
    <2>1. attempt' \in [Calls -> Nat]
      BY <1>0, <1>8 DEF Go!Backoff, Types
    <2>2. Types' /\ Keep /\ Others(c)
      BY <1>0, <1>8, <2>1 DEF Go!Backoff, Keep, Holders, Others, Types, Stages
    <2>3. Fine
      BY <1>0, <1>8 DEF Go!Backoff, Types, GoTold
    <2> QED  BY <2>2, <2>3, StepIInv
  <1>9. CASE Go!Return(c)
    <2>1. PICK x \in {"end", "error"} : hooks' = [hooks EXCEPT ![c] = @ \o <<x>>]
      BY <1>9 DEF Go!Return
    <2>2. /\ hooks' \in [Calls -> Seq(HookNames)]
          /\ \A d \in Calls \ {c} : hooks'[d] = hooks[d]
          /\ hooks'[c] = hooks[c] \o <<x>> /\ Adds(hooks[c], x, hooks'[c])
      BY <1>0, <2>1, SaysOne
    <2>3. result' \in [Calls -> {"none", "ok", "error"}]
      BY <1>0, <1>9 DEF Go!Return, Types
    <2>4. Types' /\ Give(c) /\ Others(c)
      BY <1>0, <1>9, <2>2, <2>3 DEF Go!Return, Give, Holders, Others, Types, Stages
    <2>5. pc[c] = "landed" /\ pc'[c] = "done"
      BY <1>0, <1>9 DEF Go!Return, Types
    <2>6. Fine
      BY <1>0, <2>2, <2>5, NoClosingYet DEF GoTold, Numbers, Adds
    <2> QED  BY <2>4, <2>6, StepIInv
  <1> QED  BY <1>1, <1>2, <1>3, <1>4, <1>5, <1>6, <1>7, <1>8, <1>9

LEMMA TsStep ==
    ASSUME IInv, sdk = "ts", UNCHANGED sdk, Ts!Next
    PROVE  IInv'
  <1> PICK c \in Calls :
           \/ Ts!Start(c) \/ Ts!Gate(c) \/ Ts!AuthFails(c) \/ Ts!BodyFails(c) \/ Ts!Send(c)
           \/ Ts!Succeed(c) \/ \E retryable \in BOOLEAN : Ts!AttemptFails(c, retryable)
           \/ Ts!TimedOut(c) \/ Ts!Aborted(c) \/ Ts!Backoff(c) \/ Ts!Return(c)
    BY DEF Ts!Next
  <1>0. /\ Types /\ TsTold(pc[c], hooks[c], attempt[c], result[c]) /\ attempt[c] \in Nat
        /\ hooks[c] \in Seq(HookNames) /\ Numbers(hooks[c])
    BY TalliesAreNumbers DEF IInv, SlotsInv, Told
  <1> DEFINE Fine == TsTold(pc'[c], hooks'[c], attempt'[c], result'[c])
  <1> USE DEF Ts!Goto, Ts!Hook, HookNames
  <1>1. CASE Ts!Start(c)
    <2>1. \/ hooks' = [hooks EXCEPT ![c] = @ \o <<"cache">>]
          \/ hooks' = hooks
      BY <1>1 DEF Ts!Start
    <2>2. /\ hooks' \in [Calls -> Seq(HookNames)]
          /\ \A d \in Calls \ {c} : hooks'[d] = hooks[d]
          /\ \/ hooks'[c] = hooks[c]
             \/ hooks'[c] = hooks[c] \o <<"cache">> /\ Adds(hooks[c], "cache", hooks'[c])
      BY <1>0, <2>1, SaysOne DEF Types
    <2>3. Types' /\ Keep /\ Others(c)
      <3>1. Types'
        BY <1>0, <1>1, <2>2 DEF Ts!Start, Types, Stages
      <3>2. Keep
        BY <1>0, <1>1 DEF Ts!Start, Keep, Holders, Types
      <3>3. Others(c)
        BY <1>0, <1>1, <2>2 DEF Ts!Start, Others, Types
      <3> QED  BY <3>1, <3>2, <3>3
    <2>4. pc[c] = "idle" /\ pc'[c] \in {"done", "follow", "gate"} /\ attempt' = attempt
      BY <1>0, <1>1 DEF Ts!Start, Types
    <2>5. Fine
      BY <1>0, <2>2, <2>4, NoClosingYet DEF TsTold, Answered, Numbers, Adds
    <2> QED  BY <2>3, <2>5, StepIInv
  <1>2. CASE Ts!Gate(c)
    <2>a. Types' /\ Others(c)
      BY <1>0, <1>2 DEF Ts!Gate, Others, Types, Stages
    <2>b. Take(c)
      BY <1>0, <1>2 DEF Ts!Gate, Take, Holders, Types
    <2>1. Types' /\ Take(c) /\ Others(c)
      BY <2>a, <2>b
    <2>2. Fine
      BY <1>0, <1>2 DEF Ts!Gate, Types, TsTold, Answered
    <2> QED  BY <2>1, <2>2, StepIInv
  <1>3. CASE Ts!Send(c)
    <2>1. \/ hooks' = [hooks EXCEPT ![c] = @ \o <<"start">>] /\ attempt[c] = 0
          \/ hooks' = hooks /\ attempt[c] # 0
      <3>1. hooks' = [hooks EXCEPT ![c] = @ \o <<>>] => hooks' = hooks
        BY <1>0, SaysNothing
      <3> QED  BY <1>3, <3>1 DEF Ts!Send
    <2>2. /\ hooks' \in [Calls -> Seq(HookNames)]
          /\ \A d \in Calls \ {c} : hooks'[d] = hooks[d]
          /\ \/ hooks'[c] = hooks[c] /\ attempt[c] # 0
             \/ /\ hooks'[c] = hooks[c] \o <<"start">> /\ attempt[c] = 0
                /\ Adds(hooks[c], "start", hooks'[c])
      BY <1>0, <2>1, SaysOne DEF Types
    <2>3. Types' /\ Keep /\ Others(c)
      BY <1>0, <1>3, <2>2 DEF Ts!Send, Keep, Holders, Others, Types, Stages
    <2>4. pc[c] = "send" /\ pc'[c] = "network" /\ attempt' = attempt
      BY <1>0, <1>3 DEF Ts!Send, Types
    <2>5. Fine
      BY <1>0, <2>2, <2>4, NoClosingYet DEF TsTold, Answered, Numbers, Adds
    <2> QED  BY <2>3, <2>5, StepIInv
  <1>4. ASSUME NEW x \in {"end", "error", "unreported"}, NEW r \in {"ok", "error"},
               x = "end" => r = "ok",
               pc[c] = "network" \/ (pc[c] = "send" /\ x = "unreported"),
               hooks' = [hooks EXCEPT ![c] = @ \o <<x>>],
               Ts!Settle(c, r), UNCHANGED <<attempt, dedupe, kind>>
        PROVE  IInv'
    <2>1. /\ hooks' \in [Calls -> Seq(HookNames)]
          /\ \A d \in Calls \ {c} : hooks'[d] = hooks[d]
          /\ hooks'[c] = hooks[c] \o <<x>> /\ Adds(hooks[c], x, hooks'[c])
      BY <1>0, <1>4, SaysOne
    <2>2. Types' /\ Give(c) /\ Others(c)
      BY <1>0, <1>4, <2>1 DEF Ts!Settle, Give, Holders, Others, Types, Stages
    <2>3. pc'[c] = "landed" /\ result'[c] = r /\ attempt'[c] = attempt[c]
      BY <1>4 DEF Ts!Settle
    <2>4. Fine
      <3>1. /\ Closings(hooks[c]) = 0 /\ Excuses(hooks[c]) = 0 /\ Ends(hooks[c]) = 0
            /\ Starts(hooks[c]) \in {0, 1}
            /\ pc[c] = "network" => Starts(hooks[c]) = 1
        BY <1>0, <1>4 DEF TsTold, Answered, Numbers
      <3>2. ClosedLast(hooks'[c])
        BY <1>0, <2>1, <3>1, NoClosingYet
      <3>3. Answered(pc'[c], hooks'[c], result'[c])
        BY <1>4, <2>1, <2>3, <3>1 DEF Answered, Adds
      <3>4. /\ x \in {"end", "error"} \/ x = "unreported"
            /\ pc[c] = "network" \/ x = "unreported"
            /\ Adds(hooks[c], x, hooks'[c])
        BY <1>4, <2>1
      <3>5. /\ Starts(hooks'[c]) = Starts(hooks[c])
            /\ x = "unreported" => Closings(hooks'[c]) = 0 /\ Excuses(hooks'[c]) = 1
            /\ x # "unreported" => Closings(hooks'[c]) = 1 /\ Excuses(hooks'[c]) = 0
        <4>1. CASE x = "unreported"
          BY <3>1, <3>4, <4>1 DEF Adds
        <4>2. CASE x \in {"end", "error"}
          BY <3>1, <3>4, <4>2 DEF Adds
        <4> QED  BY <3>4, <4>1, <4>2
      <3>6. Closings(hooks'[c]) = IF Excuses(hooks'[c]) > 0 THEN 0 ELSE Starts(hooks'[c])
        BY <3>1, <3>4, <3>5
      <3> QED  BY <2>3, <3>1, <3>2, <3>3, <3>5, <3>6 DEF TsTold
    <2> QED  BY <2>2, <2>4, StepIInv
  <1>5. CASE Ts!Succeed(c)
    BY <1>4, <1>5 DEF Ts!Succeed
  <1>6. CASE Ts!TimedOut(c) \/ Ts!Aborted(c)
    BY <1>4, <1>6 DEF Ts!TimedOut, Ts!Aborted, Ts!Unreported
  <1>7. CASE Ts!AuthFails(c)
    BY <1>7, <1>4 DEF Ts!AuthFails, Ts!Unreported
  <1>8. CASE Ts!BodyFails(c)
    <2>1. CASE attempt[c] # 0
      BY <1>4, <1>8, <2>1 DEF Ts!BodyFails, Ts!Unreported
    <2>2. CASE attempt[c] = 0
      <3>1. /\ pc[c] = "send" /\ Ts!Settle(c, "error")
            /\ hooks' = [hooks EXCEPT ![c] = @ \o <<"start", "unreported">>]
            /\ UNCHANGED <<attempt, dedupe, kind>>
        BY <1>8, <2>2 DEF Ts!BodyFails
      <3>2. /\ hooks' \in [Calls -> Seq(HookNames)]
            /\ \A d \in Calls \ {c} : hooks'[d] = hooks[d]
        BY <1>0, <3>1, SaysTwo
      <3>3. PICK s \in Seq(HookNames) :
                /\ hooks'[c] = s \o <<"unreported">>
                /\ Adds(hooks[c], "start", s) /\ Adds(s, "unreported", hooks'[c])
        BY <1>0, <3>1, SaysTwo
      <3>4. Types' /\ Give(c) /\ Others(c)
        BY <1>0, <3>1, <3>2 DEF Ts!Settle, Give, Holders, Others, Types, Stages
      <3>5. pc'[c] = "landed" /\ attempt'[c] = 0
        BY <2>2, <3>1 DEF Ts!Settle
      <3>6. /\ Starts(s) = 1 /\ Closings(s) = 0 /\ Excuses(s) = 0 /\ Ends(s) = 0
        BY <1>0, <2>2, <3>1, <3>3 DEF TsTold, Answered, Numbers, Adds
      <3>7. ClosedLast(hooks'[c])
        BY <3>3, <3>6, NoClosingYet
      <3>8. Fine
        BY <3>3, <3>5, <3>6, <3>7 DEF TsTold, Answered, Adds
      <3> QED  BY <3>4, <3>8, StepIInv
    <2> QED  BY <2>1, <2>2
  <1>9. ASSUME NEW retryable \in BOOLEAN, Ts!AttemptFails(c, retryable)
        PROVE  IInv'
    <2>1. CASE ~(retryable /\ attempt[c] < MaxRetries)
      BY <1>4, <1>9, <2>1 DEF Ts!AttemptFails
    <2>2. CASE retryable /\ attempt[c] < MaxRetries
      <3>1. /\ pc[c] = "network" /\ pc' = [pc EXCEPT ![c] = "backoff"]
            /\ hooks' = [hooks EXCEPT ![c] = @ \o <<"retry">>]
            /\ UNCHANGED <<free, result, flight, attempt, dedupe, kind>>
        BY <1>9, <2>2 DEF Ts!AttemptFails
      <3>2. /\ hooks' \in [Calls -> Seq(HookNames)]
            /\ \A d \in Calls \ {c} : hooks'[d] = hooks[d]
            /\ hooks'[c] = hooks[c] \o <<"retry">> /\ Adds(hooks[c], "retry", hooks'[c])
        BY <1>0, <3>1, SaysOne
      <3>3. Types' /\ Keep /\ Others(c)
        BY <1>0, <3>1, <3>2 DEF Keep, Holders, Others, Types, Stages
      <3>4. pc'[c] = "backoff"
        BY <1>0, <3>1 DEF Types
      <3>5. Fine
        BY <1>0, <3>1, <3>2, <3>4, NoClosingYet DEF TsTold, Answered, Numbers, Adds
      <3> QED  BY <3>3, <3>5, StepIInv
    <2> QED  BY <2>1, <2>2
  <1>10. CASE Ts!Backoff(c)
    <2>1. attempt' \in [Calls -> Nat] /\ attempt'[c] = attempt[c] + 1
      BY <1>0, <1>10 DEF Ts!Backoff, Types
    <2>2. Types' /\ Keep /\ Others(c)
      BY <1>0, <1>10, <2>1 DEF Ts!Backoff, Keep, Holders, Others, Types, Stages
    <2>3. pc[c] = "backoff" /\ pc'[c] = "send" /\ hooks' = hooks
      BY <1>0, <1>10 DEF Ts!Backoff, Types
    <2>4. Fine
      BY <1>0, <2>1, <2>3 DEF TsTold, Answered, Numbers
    <2> QED  BY <2>2, <2>4, StepIInv
  <1>11. CASE Ts!Return(c)
    <2>1. result' \in [Calls -> {"none", "ok", "error"}]
      BY <1>0, <1>11 DEF Ts!Return, Types
    <2>2. Types' /\ Keep /\ Others(c)
      BY <1>0, <1>11, <2>1 DEF Ts!Return, Keep, Holders, Others, Types, Stages
    <2>3. Fine
      BY <1>0, <1>11 DEF Ts!Return, Types, TsTold, Answered, Numbers
    <2> QED  BY <2>2, <2>3, StepIInv
  <1> QED  BY <1>1, <1>2, <1>3, <1>5, <1>6, <1>7, <1>8, <1>9, <1>10, <1>11

LEMMA NextIInv == IInv /\ [MCNext]_<<sdk, vars>> => IInv'
  <1> SUFFICES ASSUME IInv, [MCNext]_<<sdk, vars>> PROVE IInv'
    OBVIOUS
  <1>1. CASE UNCHANGED <<sdk, vars>>
    BY <1>1 DEF vars, IInv, SlotsInv, Types, Holders, Told
  <1> QED  BY <1>1, RustStep, GoStep, TsStep DEF MCNext

(* The inductive invariant holds in every behaviour of the three clients. *)
THEOREM Invariance == MCSpec => []IInv
  BY InitIInv, NextIInv, PTL DEF MCSpec

(* Whatever stage a call fails, is cancelled, dropped or aborted in, its   *)
(* slot comes back exactly once, and no more than maxConcurrent calls are  *)
(* at the transport.                                                       *)
THEOREM SlotsAreReturned == MCSpec => []SlotsReturned
  <1>1. IInv => SlotsReturned
    <2> SUFFICES ASSUME IInv PROVE SlotsReturned
      OBVIOUS
    <2> DEFINE N == {c \in Calls : pc[c] = "network"}
    <2>1. free \in Nat /\ free + Cardinality(Holders) = Slots
      BY DEF IInv, SlotsInv, Types
    <2>2. N \subseteq Holders
      BY DEF Holders
    <2>3. Cardinality(N) <= Cardinality(Holders) /\ Cardinality(N) \in Nat
      BY <2>2, HoldersFinite, FS_Subset, FS_CardinalityType
    <2>4. Cardinality(N) <= Slots
      BY <2>1, <2>3, HoldersFinite, ClientAssumption
    <2> QED  BY <2>1, <2>4 DEF SlotsReturned
  <1> QED  BY <1>1, Invariance, PTL

(* The telemetry of a call is balanced as MCClients says for each SDK. *)
THEOREM HooksAreBalanced == MCSpec => []HooksBalanced
  <1>1. IInv => HooksBalanced
    <2> SUFFICES ASSUME IInv, NEW c \in Calls
                 PROVE  /\ sdk = "go" => /\ pc[c] # "done" => Closings(hooks[c]) = 0
                                         /\ pc[c] = "done" => Closings(hooks[c]) = Starts(hooks[c])
                                         /\ ClosedLast(hooks[c])
                        /\ sdk = "ts" => /\ Starts(hooks[c]) <= 1
                                         /\ Closings(hooks[c]) =
                                              IF \/ pc[c] \notin {"landed", "done"}
                                                 \/ Excuses(hooks[c]) > 0
                                              THEN 0 ELSE Starts(hooks[c])
                                         /\ ClosedLast(hooks[c])
                                         /\ Answered(pc[c], hooks[c], result[c])
                        /\ sdk = "rust" => /\ Ends(hooks[c]) <= 1
                                           /\ EndLast(hooks[c])
                                           /\ Answered(pc[c], hooks[c], result[c])
                                           /\ Errors(hooks[c]) <= attempt[c] + 1
                                           /\ Retries(hooks[c]) <= MaxRetries
      BY DEF HooksBalanced, IsLast, EndIsAnswered, Count, Tally, Closings, Starts, Ends, Errors,
             Retries, Excuses, EndLast, ClosedLast, OnlyLast, Answered
    <2>1. /\ pc[c] \in Stages /\ attempt[c] \in Nat /\ Numbers(hooks[c])
      BY TalliesAreNumbers DEF IInv, SlotsInv, Types
    <2>2. CASE sdk = "go"
      BY <2>2 DEF IInv, Told, GoTold
    <2>3. CASE sdk = "ts"
      BY <2>1, <2>3 DEF IInv, Told, TsTold, Numbers, Stages
    <2>4. CASE sdk = "rust"
      BY <2>1, <2>4, ClientAssumption DEF IInv, Told, RustTold, Numbers, Stages
    <2> QED  BY <2>2, <2>3, <2>4
  <1> QED  BY <1>1, Invariance, PTL
==============================================================================
