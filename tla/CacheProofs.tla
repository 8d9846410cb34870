----------------------------- MODULE CacheProofs -----------------------------
(***************************************************************************)
(* Proofs about the GET paths of the generated SDKs, for any sets of       *)
(* resources and concurrent calls and any number of versions.  What a call *)
(* returns was looked up or answered earlier, while the resource changed   *)
(* and other calls wrote the cache and, in Go, the shared header: the      *)
(* invariants say how old an entry or an answer may be, and who is still   *)
(* to delete what is in the header.                                        *)
(***************************************************************************)
EXTENDS MCCaches, TLAPS

LEMMA VersionsAreNumbers == Versions \subseteq Nat /\ 1 \in Versions
  BY MaxVersionAssumption DEF Versions

LEMMA BodyIs ==
    ASSUME NEW r \in Resources, NEW v \in Versions
    PROVE  /\ Body(r, v) \in Bodies /\ Body(r, v) # Nothing
           /\ Body(r, v).of = r /\ Body(r, v).version = v
  BY NothingAssumption DEF Body, Bodies

LEMMA BodyParts ==
    ASSUME NEW b \in Bodies
    PROVE  b.of \in Resources /\ b.version \in Versions /\ b = Body(b.of, b.version)
  BY DEF Bodies, Body

VersionsOK == version \in [Resources -> Versions]

(* What the origin answers to a conditional GET. *)
LEMMA AnswerIs ==
    ASSUME VersionsOK, NEW r \in Resources, NEW i
    PROVE  /\ Answer(r, i) \in Answers /\ Answer(r, i) # Nothing
           /\ Answer(r, i).status \in {200, 304}
           /\ Answer(r, i).etag = version[r]
           /\ Answer(r, i).status = 200 => Answer(r, i).body = Body(r, version[r])
           /\ Answer(r, i).status = 304 => Answer(r, i).body = Nothing /\ i = version[r]
  <1>1. version[r] \in Versions
    BY DEF VersionsOK
  <1>2. Body(r, version[r]) \in Bodies
    BY <1>1, BodyIs
  <1>3. Answer(r, i) \in Answers
    BY <1>1, <1>2 DEF Answer, Answers
  <1> QED  BY <1>3, NothingAssumption DEF Answer

LEMMA AnswerParts ==
    ASSUME NEW a \in Answers
    PROVE  a.status \in {200, 304} /\ a.body \in Bodies \cup {Nothing} /\ a.etag \in Versions
  BY DEF Answers

(* A resource only gets newer. *)
LEMMA UpdateIs ==
    ASSUME VersionsOK, NEW r \in Resources, Update(r)
    PROVE  VersionsOK' /\ \A s \in Resources : version'[s] >= version[s]
  BY VersionsAreNumbers, MaxVersionAssumption DEF Update, VersionsOK, Versions

LEMMA SameVersions ==
    ASSUME VersionsOK, UNCHANGED version
    PROVE  VersionsOK' /\ \A s \in Resources : version'[s] >= version[s]
  <1>1. \A s \in Resources : version[s] \in Nat
    BY VersionsAreNumbers DEF VersionsOK
  <1>2. \A s \in Resources : version'[s] >= version[s]
    BY <1>1
  <1> QED  BY <1>2 DEF VersionsOK

-----------------------------------------------------------------------------
(* The Rust client. *)

(* An entry that a full answer brought. *)
Sound(e) == e.etag = e.data.version /\ e.data.version <= version[e.data.of]

(* The answer of call t: a full one is the current or an earlier version   *)
(* of the resource it asked for, no older than what it found in the cache; *)
(* an empty one confirms what the call, or its leader, found there.        *)
AnswerOK(t) ==
  /\ answer[t] # Nothing
  /\ answer[t].status = 200 =>
        /\ answer[t].body = Body(get[t], answer[t].etag)
        /\ answer[t].etag <= version[get[t]]
        /\ (cached[t] # Nothing /\ cached[t].data.of = get[t])
              => answer[t].etag >= cached[t].data.version
  /\ answer[t].status = 304 => answer[t].body = Nothing /\ (~dedupe => cached[t] # Nothing)

(* What a call found belongs to its path; its result follows from what it  *)
(* found and what it was answered.                                         *)
CallOK(t) ==
  /\ pc[t] # "idle" => get[t] \in Resources
  /\ cached[t] # Nothing => /\ pc[t] # "idle" /\ Sound(cached[t])
                            /\ Path(cached[t].data.of) = Path(get[t])
  /\ pc[t] \in {"answered", "returned"} => AnswerOK(t)
  /\ pc[t] = "returned" => result[t] = IF answer[t].status = 304 /\ cached[t] # Nothing
                                       THEN cached[t].data ELSE answer[t].body

(* Entries are sound, and those of a path belong to it. *)
CacheOK == \A p \in Paths : cache[p] # Nothing => Sound(cache[p]) /\ Path(cache[p].data.of) = p

(* The inductive invariant of the Rust GET path. *)
RustIInv == TypeOK /\ CacheOK /\ \A t \in Tasks : CallOK(t)

LEMMA EntryParts ==
    ASSUME NEW e \in Entries
    PROVE  /\ e.etag \in Versions /\ e.data \in Bodies
           /\ e.data.of \in Resources /\ e.data.version \in Versions
  <1>1. e.etag \in Versions /\ e.data \in Bodies
    BY DEF Entries
  <1> QED  BY <1>1, BodyParts

LEMMA RustInit == Init => RustIInv
  <1> SUFFICES ASSUME Init PROVE RustIInv
    OBVIOUS
  <1>1. TypeOK
    BY VersionsAreNumbers DEF Init, OriginInit, TypeOK, PcStates
  <1> QED  BY <1>1 DEF Init, RustIInv, CacheOK, CallOK

(* Newer versions leave what is known of entries and answers true. *)
LEMMA SoundStays ==
    ASSUME VersionsOK, VersionsOK', \A s \in Resources : version'[s] >= version[s],
           NEW e \in Entries, Sound(e)
    PROVE  e.etag = e.data.version /\ e.data.version <= version'[e.data.of]
  <1>1. e.data.of \in Resources /\ e.data.version \in Versions
    BY EntryParts
  <1>2. version[e.data.of] \in Nat /\ version'[e.data.of] \in Nat /\ e.data.version \in Nat
    BY <1>1, VersionsAreNumbers DEF VersionsOK
  <1> QED  BY <1>1, <1>2 DEF Sound

(* A call that a step leaves alone. *)
LEMMA CallStays ==
    ASSUME RustIInv, VersionsOK', \A s \in Resources : version'[s] >= version[s],
           dedupe' = dedupe, NEW t \in Tasks,
           pc'[t] = pc[t], get'[t] = get[t], cached'[t] = cached[t],
           answer'[t] = answer[t], result'[t] = result[t]
    PROVE  CallOK(t)'
  <1>0. VersionsOK /\ CallOK(t) /\ cached[t] \in Entries \cup {Nothing}
        /\ answer[t] \in Answers \cup {Nothing}
    BY DEF RustIInv, TypeOK, VersionsOK
  <1>1. cached[t] # Nothing => Sound(cached[t])'
    BY <1>0, SoundStays DEF CallOK, Sound
  <1>2. pc[t] \in {"answered", "returned"} => AnswerOK(t)'
    <2> SUFFICES ASSUME pc[t] \in {"answered", "returned"} PROVE AnswerOK(t)'
      OBVIOUS
    <2>1. AnswerOK(t) /\ get[t] \in Resources /\ answer[t] \in Answers
      BY <1>0 DEF CallOK, AnswerOK
    <2>2. answer[t].etag \in Nat
      <3>1. answer[t].etag \in Versions
        BY <2>1, AnswerParts
      <3> QED  BY <3>1, VersionsAreNumbers
    <2>4. version[get[t]] \in Nat /\ version'[get[t]] \in Nat
      BY <1>0, <2>1, VersionsAreNumbers DEF VersionsOK
    <2>3. version'[get[t]] >= version[get[t]]
      BY <2>1
    <2> QED  BY <2>1, <2>2, <2>3, <2>4 DEF AnswerOK
  <1> QED  BY <1>0, <1>1, <1>2 DEF CallOK

LEMMA CacheStays ==
    ASSUME RustIInv, VersionsOK', \A s \in Resources : version'[s] >= version[s],
           NEW p \in Paths, cache'[p] = cache[p]
    PROVE  cache'[p] # Nothing => Sound(cache[p])' /\ Path(cache'[p].data.of) = p
  <1>1. VersionsOK /\ cache[p] \in Entries \cup {Nothing}
    BY DEF RustIInv, TypeOK, VersionsOK
  <1>2. cache[p] # Nothing => Sound(cache[p]) /\ Path(cache[p].data.of) = p
    BY DEF RustIInv, CacheOK
  <1> QED  BY <1>1, <1>2, SoundStays DEF Sound

(* What every step owes: the types, the cache, and the calls it touches. *)
LEMMA RustQuiet ==
    ASSUME RustIInv, UNCHANGED <<version, dedupe, cache>>, TypeOK', NEW T,
           \A d \in Tasks \ T : /\ pc'[d] = pc[d] /\ get'[d] = get[d] /\ cached'[d] = cached[d]
                                /\ answer'[d] = answer[d] /\ result'[d] = result[d],
           \A d \in Tasks \cap T : CallOK(d)'
    PROVE  RustIInv'
  <1>1. VersionsOK' /\ \A s \in Resources : version'[s] >= version[s]
    BY SameVersions DEF RustIInv, TypeOK, VersionsOK
  <1>2. CacheOK'
    BY DEF RustIInv, CacheOK, Sound, Paths
  <1>3. ASSUME NEW d \in Tasks \ T PROVE CallOK(d)'
    BY <1>1, <1>3, CallStays
  <1> QED  BY <1>2, <1>3 DEF RustIInv

LEMMA RustOne ==
    ASSUME RustIInv, UNCHANGED <<version, dedupe, cache>>, TypeOK', NEW t \in Tasks,
           \A d \in Tasks \ {t} : /\ pc'[d] = pc[d] /\ get'[d] = get[d] /\ cached'[d] = cached[d]
                                  /\ answer'[d] = answer[d] /\ result'[d] = result[d],
           CallOK(t)'
    PROVE  RustIInv'
  <1>1. ASSUME NEW d \in Tasks \cap {t} PROVE CallOK(d)'
    BY <1>1 DEF CallOK, AnswerOK, Sound
  <1> QED  BY <1>1, RustQuiet

LEMMA RustLookup ==
    ASSUME RustIInv, NEW t \in Tasks, NEW r \in Resources, Lookup(t, r)
    PROVE  RustIInv'
  <1>0. TypeOK /\ CacheOK /\ CallOK(t) /\ Path(r) \in Paths
    BY DEF RustIInv, Paths
  <1>1. TypeOK'
    BY <1>0 DEF Lookup, TypeOK, PcStates
  <1>2. /\ pc'[t] = "looked" /\ get'[t] = r /\ cached'[t] = cache[Path(r)]
        /\ UNCHANGED <<version, dedupe, cache>>
    BY <1>0 DEF Lookup, TypeOK
  <1>3. CallOK(t)'
    BY <1>0, <1>2 DEF CacheOK, CallOK, Sound
  <1>4. \A d \in Tasks \ {t} : /\ pc'[d] = pc[d] /\ get'[d] = get[d] /\ cached'[d] = cached[d]
                                /\ answer'[d] = answer[d] /\ result'[d] = result[d]
    BY <1>0 DEF Lookup, TypeOK
  <1> QED  BY <1>1, <1>2, <1>3, <1>4, RustOne

LEMMA RustRideLead ==
    ASSUME RustIInv, NEW t \in Tasks, Ride(t) \/ Lead(t)
    PROVE  RustIInv'
  <1>0. TypeOK /\ CallOK(t)
    BY DEF RustIInv
  <1>1. pc[t] = "looked" /\ get[t] \in Resources
    BY <1>0 DEF CallOK, Ride, Lead
  <1>2. PICK s \in {"riding", "leading"} : pc' = [pc EXCEPT ![t] = s]
    BY DEF Ride, Lead
  <1>3. UNCHANGED <<version, dedupe, cache, get, cached, answer, result>>
    BY DEF Ride, Lead
  <1>4. flight' \in [Resources -> Tasks \cup {Nothing}]
    BY <1>0, <1>1 DEF Ride, Lead, TypeOK
  <1>5. TypeOK'
    BY <1>0, <1>2, <1>3, <1>4 DEF TypeOK, PcStates
  <1>6. CallOK(t)'
    BY <1>0, <1>1, <1>2, <1>3 DEF TypeOK, CallOK, Sound
  <1>7. \A d \in Tasks \ {t} : /\ pc'[d] = pc[d] /\ get'[d] = get[d] /\ cached'[d] = cached[d]
                                /\ answer'[d] = answer[d] /\ result'[d] = result[d]
    BY <1>0, <1>2, <1>3 DEF TypeOK
  <1> QED  BY <1>3, <1>5, <1>6, <1>7, RustOne

LEMMA RustRespond ==
    ASSUME RustIInv, NEW t \in Tasks, Respond(t)
    PROVE  RustIInv'
  <1> DEFINE r == get[t]
             aboard == {t} \cup (IF dedupe THEN Riders(r) ELSE {})
             a == Answer(r, IfNoneMatch(t))
  <1>0. TypeOK /\ CallOK(t) /\ VersionsOK /\ pc[t] = "leading" /\ r \in Resources
    BY DEF RustIInv, TypeOK, VersionsOK, CallOK, Respond
  <1>1. /\ a \in Answers /\ a # Nothing /\ a.status \in {200, 304} /\ a.etag = version[r]
        /\ a.status = 200 => a.body = Body(r, version[r])
        /\ a.status = 304 => a.body = Nothing /\ IfNoneMatch(t) = version[r]
    BY <1>0, AnswerIs
  <1>2. a.status = 304 => cached[t] # Nothing
    BY <1>0, <1>1, NothingAssumption DEF IfNoneMatch, VersionsOK
  <1>3. /\ answer' = [d \in Tasks |-> IF d \in aboard THEN a ELSE answer[d]]
        /\ pc' = [d \in Tasks |-> IF d \in aboard THEN "answered" ELSE pc[d]]
        /\ flight' = IF dedupe THEN [flight EXCEPT ![r] = Nothing] ELSE flight
        /\ UNCHANGED <<version, dedupe, cache, get, cached, result>>
    BY DEF Respond
  <1>4. \A d \in Tasks \cap aboard : get[d] = r /\ pc[d] \in {"leading", "riding"}
    BY <1>0 DEF Riders
  <1>5. ~dedupe => aboard = {t}
    OBVIOUS
  <1> HIDE DEF r, aboard, a
  <1>6. TypeOK'
    BY <1>0, <1>1, <1>3 DEF TypeOK, PcStates
  <1>7. ASSUME NEW d \in Tasks \cap aboard PROVE CallOK(d)'
    <2>1. CallOK(d) /\ get[d] = r /\ d \in Tasks /\ cached[d] \in Entries \cup {Nothing}
      BY <1>0, <1>4, <1>7 DEF RustIInv, TypeOK
    <2>2. answer'[d] = a /\ pc'[d] = "answered" /\ get'[d] = r /\ cached'[d] = cached[d]
      BY <1>3, <1>7, <2>1
    <2>3. version[r] \in Nat /\ version'[r] = version[r]
      BY <1>0, <1>3, VersionsAreNumbers DEF VersionsOK
    <2>4. (cached[d] # Nothing /\ cached[d].data.of = r) => version[r] >= cached[d].data.version
      <3>1. cached[d] # Nothing => cached[d].data.version \in Nat
        BY <2>1, EntryParts, VersionsAreNumbers
      <3> QED  BY <2>1, <2>3, <3>1 DEF CallOK, Sound
    <2>5. ~dedupe' => (a.status = 304 => cached[d] # Nothing)
      BY <1>2, <1>3, <1>5, <1>7
    <2>6. AnswerOK(d)'
      BY <1>1, <2>2, <2>3, <2>4, <2>5 DEF AnswerOK
    <2>7. cached[d] # Nothing => Sound(cached[d])' /\ Path(cached[d].data.of) = Path(r)
      BY <1>3, <2>1 DEF CallOK, Sound
    <2> QED  BY <1>0, <2>2, <2>6, <2>7 DEF CallOK
  <1>8. \A d \in Tasks \ aboard : /\ pc'[d] = pc[d] /\ get'[d] = get[d] /\ cached'[d] = cached[d]
                                   /\ answer'[d] = answer[d] /\ result'[d] = result[d]
    BY <1>3
  <1> QED  BY <1>3, <1>6, <1>7, <1>8, RustQuiet

LEMMA RustFinish ==
    ASSUME RustIInv, NEW t \in Tasks, Finish(t)
    PROVE  RustIInv'
  <1> DEFINE x == IF answer[t].status = 304 /\ cached[t] # Nothing
                  THEN cached[t].data ELSE answer[t].body
             e == [etag |-> answer[t].etag, data |-> answer[t].body]
  <1>0. /\ TypeOK /\ CacheOK /\ CallOK(t) /\ VersionsOK /\ pc[t] = "answered" /\ AnswerOK(t)
        /\ get[t] \in Resources /\ Path(get[t]) \in Paths
        /\ cached[t] \in Entries \cup {Nothing} /\ answer[t] \in Answers
    BY DEF RustIInv, TypeOK, VersionsOK, CallOK, AnswerOK, Finish, Paths
  <1>1. answer[t].status \in {200, 304} /\ answer[t].body \in Bodies \cup {Nothing}
        /\ answer[t].etag \in Versions
    BY <1>0, AnswerParts
  <1>2. x \in Bodies \cup {Nothing}
    BY <1>0, <1>1, EntryParts
  <1>3. /\ result' = [result EXCEPT ![t] = x]
        /\ cache' = IF answer[t].status = 200 THEN [cache EXCEPT ![Path(get[t])] = e] ELSE cache
        /\ pc' = [pc EXCEPT ![t] = "returned"]
        /\ UNCHANGED <<version, dedupe, flight, get, cached, answer>>
    BY DEF Finish
  <1>4. answer[t].status = 200 => /\ e \in Entries /\ e.etag = e.data.version
                                  /\ e.data.of = get[t] /\ e.data.version <= version[get[t]]
    <2> SUFFICES ASSUME answer[t].status = 200
                 PROVE  /\ e \in Entries /\ e.etag = e.data.version
                        /\ e.data.of = get[t] /\ e.data.version <= version[get[t]]
      OBVIOUS
    <2>1. answer[t].body = Body(get[t], answer[t].etag) /\ answer[t].etag <= version[get[t]]
      BY <1>0 DEF AnswerOK
    <2>2. /\ answer[t].body \in Bodies /\ answer[t].body.of = get[t]
          /\ answer[t].body.version = answer[t].etag
      BY <1>0, <1>1, <2>1, BodyIs
    <2> QED  BY <1>1, <2>1, <2>2 DEF Entries
  <1>5. /\ pc'[t] = "returned" /\ result'[t] = x /\ get'[t] = get[t]
        /\ cached'[t] = cached[t] /\ answer'[t] = answer[t]
        /\ \A d \in Tasks \ {t} : /\ pc'[d] = pc[d] /\ get'[d] = get[d] /\ cached'[d] = cached[d]
                                   /\ answer'[d] = answer[d] /\ result'[d] = result[d]
    BY <1>0, <1>3 DEF TypeOK
  <1>6. TypeOK'
    <2> HIDE DEF x, e
    <2>1. cache' \in [Paths -> Entries \cup {Nothing}]
      BY <1>0, <1>3, <1>4 DEF TypeOK
    <2> QED  BY <1>0, <1>2, <1>3, <2>1 DEF TypeOK, PcStates
  <1>7. CacheOK'
    <2> HIDE DEF e
    <2> SUFFICES ASSUME NEW p \in Paths, cache'[p] # Nothing
                 PROVE  Sound(cache[p])' /\ Path(cache'[p].data.of) = p
      BY DEF CacheOK, Paths
    <2>1. CASE cache'[p] = cache[p]
      BY <1>0, <1>3, <2>1 DEF CacheOK, Sound
    <2>2. CASE cache'[p] # cache[p]
      <3>1. answer[t].status = 200 /\ p = Path(get[t]) /\ cache'[p] = e
        BY <1>0, <1>3, <2>2 DEF TypeOK
      <3> QED  BY <1>3, <1>4, <3>1 DEF Sound
    <2> QED  BY <2>1, <2>2
  <1>8. CallOK(t)'
    <2>1. AnswerOK(t)'
      BY <1>0, <1>3, <1>5 DEF AnswerOK
    <2>2. cached[t] # Nothing => Sound(cached[t])'
      BY <1>0, <1>3 DEF CallOK, Sound
    <2> QED  BY <1>0, <1>5, <2>1, <2>2 DEF CallOK
  <1>9. VersionsOK' /\ \A s \in Resources : version'[s] >= version[s]
    BY <1>0, <1>3, SameVersions
  <1>10. ASSUME NEW d \in Tasks \ {t} PROVE CallOK(d)'
    BY <1>3, <1>5, <1>9, <1>10, CallStays
  <1> QED  BY <1>6, <1>7, <1>8, <1>10 DEF RustIInv

LEMMA RustLeave ==
    ASSUME RustIInv, NEW t \in Tasks, Leave(t)
    PROVE  RustIInv'
  <1>0. TypeOK
    BY DEF RustIInv
  <1>1. TypeOK' /\ UNCHANGED <<version, dedupe, cache>>
    BY <1>0 DEF Leave, TypeOK, PcStates
  <1>2. pc'[t] = "idle" /\ cached'[t] = Nothing
    BY <1>0 DEF Leave, TypeOK
  <1>3. CallOK(t)'
    BY <1>2 DEF CallOK
  <1>4. \A d \in Tasks \ {t} : /\ pc'[d] = pc[d] /\ get'[d] = get[d] /\ cached'[d] = cached[d]
                                /\ answer'[d] = answer[d] /\ result'[d] = result[d]
    BY <1>0 DEF Leave, TypeOK
  <1> QED  BY <1>1, <1>3, <1>4, RustOne

LEMMA RustWorld ==
    ASSUME RustIInv, Origin \/ \E p \in Paths : Expire(p)
    PROVE  RustIInv'
  <1>0. TypeOK /\ VersionsOK
    BY DEF RustIInv, TypeOK, VersionsOK
  <1>1. /\ VersionsOK' /\ \A s \in Resources : version'[s] >= version[s]
        /\ UNCHANGED <<dedupe, flight, pc, get, cached, answer, result>>
    <2>1. CASE Origin
      BY <1>0, <2>1, UpdateIs DEF Origin
    <2>2. CASE \E p \in Paths : Expire(p)
      BY <1>0, <2>2, SameVersions DEF Expire
    <2> QED  BY <2>1, <2>2
  <1>2. /\ cache' \in [Paths -> Entries \cup {Nothing}]
        /\ \A p \in Paths : cache'[p] \in {cache[p], Nothing}
    BY <1>0 DEF Origin, Expire, TypeOK
  <1>3. TypeOK'
    BY <1>0, <1>1, <1>2 DEF TypeOK, VersionsOK
  <1>4. CacheOK'
    BY <1>1, <1>2, CacheStays DEF CacheOK, Paths
  <1>5. ASSUME NEW d \in Tasks PROVE CallOK(d)'
    BY <1>1, CallStays
  <1> QED  BY <1>3, <1>4, <1>5 DEF RustIInv

LEMMA RustNext == RustIInv /\ [Next]_vars => RustIInv'
  <1> SUFFICES ASSUME RustIInv, [Next]_vars PROVE RustIInv'
    OBVIOUS
  <1>1. CASE UNCHANGED vars
    BY <1>1 DEF vars, RustIInv, TypeOK, CacheOK, Sound, CallOK, AnswerOK
  <1> QED  BY <1>1, RustLookup, RustRideLead, RustRespond, RustFinish, RustLeave, RustWorld
           DEF Next

-----------------------------------------------------------------------------
(* The Go client. *)

GoEntries == [etag : Versions, data : Bodies, expired : BOOLEAN]
GoAnswers == [status : {0, 200, 304}, body : Bodies \cup {Nothing}, etag : Versions \cup {Nothing}]

GoTypes ==
  /\ version \in [Resources -> Versions]
  /\ goDedupe \in BOOLEAN
  /\ goCache \in [Resources -> GoEntries \cup {Nothing}]
  /\ goInm \in Versions \cup {Nothing}
  /\ goFlight \in [Resources -> Tasks \cup {Nothing}]
  /\ goPc \in [Tasks -> Go!PcStates]
  /\ goGet \in [Tasks -> Resources \cup {Nothing}]
  /\ goAtStart \in [Tasks -> Versions \cup {Nothing}]
  /\ goCached \in [Tasks -> GoEntries \cup {Nothing}]
  /\ goSent \in [Tasks -> Versions \cup {Nothing}]
  /\ goAnswer \in [Tasks -> GoAnswers \cup {Nothing}]
  /\ goResult \in [Tasks -> Bodies \cup {Nothing}]

(* An entry that a full answer for u brought. *)
GoSound(e, u) == e.data = Body(u, e.etag) /\ e.etag <= version[u]

(* The round-trip of g is over. *)
GoAnswered(g) == goPc[g] \in {"answered", "deleting", "cleaned", "returned", "failed"}

(* What holds of a call however the calls overlap. *)
GoCall(g) ==
  /\ goPc[g] # "idle" => goGet[g] \in Resources
  /\ goCached[g] # Nothing => /\ goPc[g] \notin {"idle", "evicting"}
                              /\ GoSound(goCached[g], goGet[g])
  /\ goPc[g] = "setting" => goCached[g] # Nothing
  /\ GoAnswered(g) =>
        /\ goAnswer[g] \in GoAnswers
        /\ goAnswer[g].status = 200 =>
              /\ goAnswer[g].body = Body(goGet[g], goAnswer[g].body.version)
              /\ goAnswer[g].body \in Bodies
              /\ goAnswer[g].body.version <= version[goGet[g]]
              /\ goAnswer[g].etag \in {goAnswer[g].body.version, Nothing}
              /\ goCached[g] # Nothing => goAnswer[g].body.version >= goCached[g].etag
        /\ goAnswer[g].status # 200 => goAnswer[g].body = Nothing
  /\ goPc[g] = "returned" =>
        /\ goAnswer[g].status # 0
        /\ goResult[g] = IF goAnswer[g].status = 304 /\ goCached[g] # Nothing
                         THEN goCached[g].data ELSE goAnswer[g].body

(* The ETag that a call which no other overlaps sends. *)
GoOwnEtag(g) == IF goCached[g] = Nothing THEN Nothing ELSE goCached[g].etag

(* What holds of a call that no other overlaps: nobody else is at work,    *)
(* the shared header holds its own ETag or nothing, and what it was told   *)
(* is at least as new as its start.                                        *)
GoAlone(g) ==
  goAtStart[g] # Nothing =>
    /\ goPc[g] # "idle" /\ \A d \in Tasks \ {g} : goPc[d] = "idle"
    /\ goAtStart[g] <= version[goGet[g]]
    /\ goPc[g] \in {"evicting", "setting"} => goInm = Nothing
    /\ goPc[g] \in {"looked", "copying"} => goInm = GoOwnEtag(g)
    /\ goPc[g] = "waiting" => goSent[g] = GoOwnEtag(g)
    /\ GoAnswered(g) =>
          /\ goAnswer[g].status = 200 => goAnswer[g].body.version >= goAtStart[g]
          /\ goAnswer[g].status = 304 => goCached[g] # Nothing /\ goCached[g].etag >= goAtStart[g]

(* Whoever left an ETag in the shared header is still to delete it. *)
GoDeletes(g) ==
  goCached[g] # Nothing
    /\ goPc[g] \in {"looked", "copying", "waiting", "riding", "answered", "deleting"}
GoHeader == goInm # Nothing => \E g \in Tasks : GoDeletes(g)

GoCacheOK == \A u \in Resources : goCache[u] # Nothing => GoSound(goCache[u], u)

(* The inductive invariant of the Go GET path. *)
GoIInv ==
  /\ GoTypes /\ GoCacheOK /\ GoHeader
  /\ \A g \in Tasks : GoCall(g) /\ GoAlone(g)

LEMMA GoNames ==
  /\ Go!Versions = Versions /\ Go!Bodies = Bodies /\ Go!Entries = GoEntries
  /\ \A r, v : Go!Body(r, v) = Body(r, v)
  /\ \A r, i : Go!Answer(r, i) = Answer(r, i)
  BY DEF Go!Versions, Versions, Go!Bodies, Bodies, Go!Entries, GoEntries, Go!Body, Body,
         Go!Answer, Answer

LEMMA GoNothing == Nothing \notin GoEntries
  BY GoNames, GoEntriesAssumption

LEMMA GoEntryParts ==
    ASSUME NEW e \in GoEntries
    PROVE  e.etag \in Versions /\ e.data \in Bodies /\ e.expired \in BOOLEAN
  BY DEF GoEntries

LEMMA GoAnswerParts ==
    ASSUME NEW a \in GoAnswers
    PROVE  /\ a.status \in {0, 200, 304} /\ a.body \in Bodies \cup {Nothing}
           /\ a.etag \in Versions \cup {Nothing}
  BY DEF GoAnswers

LEMMA GoInit == Go!Init => GoIInv
  <1> SUFFICES ASSUME Go!Init PROVE GoIInv
    OBVIOUS
  <1>1. GoTypes
    BY VersionsAreNumbers DEF Go!Init, Go!OriginInit, GoTypes, Go!PcStates
  <1>2. \A g \in Tasks : GoCall(g) /\ GoAlone(g)
    BY DEF Go!Init, GoCall, GoAlone, GoAnswered
  <1> QED  BY <1>1, <1>2 DEF Go!Init, GoIInv, GoCacheOK, GoHeader

(* While a call is at work, no other is alone. *)
LEMMA GoCompany ==
    ASSUME GoIInv, NEW g \in Tasks, goPc[g] # "idle"
    PROVE  \A d \in Tasks \ {g} : goAtStart[d] = Nothing
  BY DEF GoIInv, GoAlone

(* A call that a step leaves where it is. *)
LEMMA GoCallStays ==
    ASSUME GoIInv, VersionsOK', \A s \in Resources : version'[s] >= version[s], NEW d \in Tasks,
           goPc'[d] = goPc[d], goGet'[d] = goGet[d], goCached'[d] = goCached[d],
           goAnswer'[d] = goAnswer[d], goResult'[d] = goResult[d]
    PROVE  GoCall(d)'
  <1>0. GoCall(d) /\ VersionsOK
    BY DEF GoIInv, GoTypes, VersionsOK
  <1>1. goPc[d] # "idle" => /\ goGet[d] \in Resources
                            /\ version[goGet[d]] \in Nat /\ version'[goGet[d]] \in Nat
                            /\ version'[goGet[d]] >= version[goGet[d]]
    BY <1>0, VersionsAreNumbers DEF GoCall, VersionsOK
  <1>2. goCached[d] # Nothing => GoSound(goCached[d], goGet[d])'
    <2> SUFFICES ASSUME goCached[d] # Nothing PROVE GoSound(goCached[d], goGet[d])'
      OBVIOUS
    <2>1. goCached[d] \in GoEntries /\ goPc[d] # "idle" /\ GoSound(goCached[d], goGet[d])
      BY <1>0 DEF GoIInv, GoTypes, GoCall
    <2>2. goCached[d].etag \in Nat
      BY <2>1, GoEntryParts, VersionsAreNumbers
    <2> QED  BY <1>1, <2>1, <2>2 DEF GoSound
  <1>3. GoAnswered(d) /\ goAnswer[d].status = 200
           => goAnswer[d].body.version <= version'[goGet[d]]
    <2> SUFFICES ASSUME GoAnswered(d), goAnswer[d].status = 200
                 PROVE  goAnswer[d].body.version <= version'[goGet[d]]
      OBVIOUS
    <2>1. goAnswer[d].body \in Bodies /\ goAnswer[d].body.version <= version[goGet[d]]
      BY <1>0 DEF GoCall
    <2>2. goAnswer[d].body.version \in Nat
      BY <2>1, BodyParts, VersionsAreNumbers
    <2>3. goPc[d] # "idle"
      BY DEF GoAnswered
    <2> QED  BY <1>1, <2>1, <2>2, <2>3
  <1> QED  BY <1>0, <1>1, <1>2, <1>3 DEF GoCall, GoAnswered

LEMMA GoCacheStays ==
    ASSUME GoIInv, VersionsOK', \A s \in Resources : version'[s] >= version[s],
           NEW u \in Resources, goCache[u] # Nothing
    PROVE  goCache[u].data = Body(u, goCache[u].etag) /\ goCache[u].etag <= version'[u]
  <1>1. goCache[u] \in GoEntries /\ GoSound(goCache[u], u)
    BY DEF GoIInv, GoTypes, GoCacheOK
  <1>2. goCache[u].etag \in Nat
    BY <1>1, GoEntryParts, VersionsAreNumbers
  <1>3. version[u] \in Nat /\ version'[u] \in Nat
    BY VersionsAreNumbers DEF GoIInv, GoTypes, VersionsOK
  <1> QED  BY <1>1, <1>2, <1>3 DEF GoSound

(* What a step of call g owes when it leaves the other calls alone. *)
LEMMA GoOne ==
    ASSUME GoIInv, NEW g \in Tasks, UNCHANGED version, GoTypes', GoCacheOK', GoHeader',
           GoCall(g)', GoAlone(g)',
           \A d \in Tasks \ {g} : /\ goPc'[d] = goPc[d] /\ goGet'[d] = goGet[d]
                                  /\ goCached'[d] = goCached[d] /\ goAnswer'[d] = goAnswer[d]
                                  /\ goResult'[d] = goResult[d] /\ goAtStart'[d] = Nothing
    PROVE  GoIInv'
  <1>1. VersionsOK' /\ \A s \in Resources : version'[s] >= version[s]
    BY SameVersions DEF GoIInv, GoTypes, VersionsOK
  <1>2. ASSUME NEW d \in Tasks PROVE (GoCall(d) /\ GoAlone(d))'
    <2>1. CASE d = g
      BY <2>1 DEF GoCall, GoAlone, GoSound, GoAnswered, GoOwnEtag
    <2>2. CASE d # g
      <3>1. GoCall(d)'
        BY <1>1, <2>2, GoCallStays
      <3>2. GoAlone(d)'
        BY <2>2 DEF GoAlone
      <3> QED  BY <3>1, <3>2
    <2> QED  BY <2>1, <2>2
  <1> QED  BY <1>2 DEF GoIInv

LEMMA GoLookup ==
    ASSUME GoIInv, NEW g \in Tasks, NEW u \in Resources, Go!Lookup(g, u)
    PROVE  GoIInv'
  <1>0. /\ GoTypes /\ GoCacheOK /\ GoHeader /\ GoCall(g) /\ goPc[g] = "idle"
        /\ version[u] \in Versions /\ goCache[u] \in GoEntries \cup {Nothing}
    BY DEF GoIInv, GoTypes, Go!Lookup
  <1>1. /\ goGet' = [goGet EXCEPT ![g] = u]
        /\ goAtStart' = [h \in Tasks |-> IF h = g /\ \A d \in Tasks \ {g} : goPc[d] = "idle"
                                         THEN version[u] ELSE Nothing]
        /\ UNCHANGED <<version, goDedupe, goCache, goInm, goFlight, goSent, goAnswer, goResult>>
    BY DEF Go!Lookup
  <1>2. PICK p \in {"looked", "evicting", "setting"} :
          /\ goPc' = [goPc EXCEPT ![g] = p]
          /\ p = "setting" => /\ goCache[u] # Nothing
                              /\ goCached' = [goCached EXCEPT ![g] = goCache[u]]
          /\ p # "setting" => goCached' = goCached
    BY DEF Go!Lookup, Go!Goto
  <1>3. goCached[g] = Nothing
    BY <1>0 DEF GoCall
  <1>4. GoTypes'
    <2>1. goCached' \in [Tasks -> GoEntries \cup {Nothing}]
      BY <1>0, <1>2 DEF GoTypes
    <2>2. goAtStart' \in [Tasks -> Versions \cup {Nothing}]
      BY <1>0, <1>1
    <2>3. goPc' \in [Tasks -> Go!PcStates]
      BY <1>0, <1>2 DEF GoTypes, Go!PcStates
    <2>4. goGet' \in [Tasks -> Resources \cup {Nothing}]
      BY <1>0, <1>1 DEF GoTypes
    <2> QED  BY <1>0, <1>1, <2>1, <2>2, <2>3, <2>4 DEF GoTypes
  <1>5. GoCacheOK'
    BY <1>0, <1>1 DEF GoCacheOK, GoSound
  <1>6. \A d \in Tasks \ {g} : /\ goPc'[d] = goPc[d] /\ goGet'[d] = goGet[d]
                                /\ goCached'[d] = goCached[d] /\ goAnswer'[d] = goAnswer[d]
                                /\ goResult'[d] = goResult[d] /\ goAtStart'[d] = Nothing
    BY <1>0, <1>1, <1>2 DEF GoTypes
  <1>7. /\ goPc'[g] = p /\ goGet'[g] = u
        /\ goCached'[g] = IF p = "setting" THEN goCache[u] ELSE Nothing
        /\ goAtStart'[g] = IF \A d \in Tasks \ {g} : goPc[d] = "idle"
                           THEN version[u] ELSE Nothing
    BY <1>0, <1>1, <1>2, <1>3 DEF GoTypes
  <1>8. GoHeader'
    <2>1. \A d \in Tasks : GoDeletes(d) => GoDeletes(d)'
      BY <1>0, <1>3, <1>6 DEF GoDeletes
    <2> QED  BY <1>0, <1>1, <2>1 DEF GoHeader
  <1>9. GoCall(g)'
    <2>1. goCached'[g] # Nothing => p = "setting" /\ GoSound(goCached[g], goGet[g])'
      BY <1>0, <1>1, <1>2, <1>7 DEF GoCacheOK, GoSound
    <2> QED  BY <1>2, <1>7, <2>1 DEF GoCall, GoAnswered
  <1>10. GoAlone(g)'
    <2> SUFFICES ASSUME \A d \in Tasks \ {g} : goPc[d] = "idle"
                 PROVE  GoAlone(g)'
      BY <1>7 DEF GoAlone
    <2>1. goInm = Nothing
      BY <1>0 DEF GoHeader, GoDeletes
    <2>2. version[u] \in Nat
      BY <1>0, VersionsAreNumbers
    <2>3. goPc'[g] = "looked" => GoOwnEtag(g)' = Nothing
      BY <1>7 DEF GoOwnEtag
    <2> QED  BY <1>1, <1>2, <1>6, <1>7, <2>1, <2>2, <2>3 DEF GoAlone, GoAnswered
  <1> QED  BY <1>1, <1>4, <1>5, <1>6, <1>8, <1>9, <1>10, GoOne

(* A step that only moves call g on, and perhaps touches the header, the   *)
(* map of flights or what g sent.                                          *)
LEMMA GoMoves ==
    ASSUME GoIInv, NEW g \in Tasks, goPc[g] # "idle", NEW p \in Go!PcStates,
           goPc' = [goPc EXCEPT ![g] = p],
           UNCHANGED <<version, goDedupe, goGet, goAtStart, goCached, goAnswer, goResult>>,
           goInm' \in Versions \cup {Nothing},
           goFlight' \in [Resources -> Tasks \cup {Nothing}],
           goSent' \in [Tasks -> Versions \cup {Nothing}],
           goCache' \in [Resources -> GoEntries \cup {Nothing}],
           \A u \in Resources : goCache'[u] \in {goCache[u], Nothing},
           GoHeader', GoAlone(g)',
           p \notin {"idle", "evicting", "setting", "returned", "failed"},
           p \in {"answered", "deleting", "cleaned"} => GoAnswered(g)
    PROVE  GoIInv'
  <1>0. GoTypes /\ GoCacheOK /\ GoCall(g) /\ \A d \in Tasks \ {g} : goAtStart[d] = Nothing
    BY GoCompany DEF GoIInv
  <1>1. GoTypes'
    BY <1>0 DEF GoTypes
  <1>2. GoCacheOK'
    BY <1>0 DEF GoCacheOK, GoSound
  <1>3. \A d \in Tasks \ {g} : /\ goPc'[d] = goPc[d] /\ goGet'[d] = goGet[d]
                                /\ goCached'[d] = goCached[d] /\ goAnswer'[d] = goAnswer[d]
                                /\ goResult'[d] = goResult[d] /\ goAtStart'[d] = Nothing
    BY <1>0 DEF GoTypes
  <1>4. goPc'[g] = p
    BY <1>0 DEF GoTypes
  <1>5. GoAnswered(g)' => GoAnswered(g)
    BY <1>4 DEF GoAnswered
  <1>6. GoCall(g)'
    BY <1>0, <1>4, <1>5 DEF GoCall, GoSound
  <1> QED  BY <1>1, <1>2, <1>3, <1>6, GoOne

(* Moving on, g is still to delete what it set, until it does. *)
LEMMA GoHeaderStays ==
    ASSUME GoIInv, NEW g \in Tasks, NEW p, goPc' = [goPc EXCEPT ![g] = p],
           UNCHANGED <<goCached, goInm>>,
           GoDeletes(g) => p \in {"looked", "copying", "waiting", "riding", "answered", "deleting"}
    PROVE  GoHeader'
  <1>1. \A d \in Tasks : GoDeletes(d) => GoDeletes(d)'
    BY DEF GoIInv, GoTypes, GoDeletes
  <1> QED  BY <1>1 DEF GoIInv, GoHeader

LEMMA GoBefore ==
    ASSUME GoIInv, NEW g \in Tasks,
           Go!Evict(g) \/ Go!SetHeader(g) \/ Go!Ride(g) \/ Go!Run(g) \/ Go!CopyHeaders(g)
    PROVE  GoIInv'
  <1>0. GoTypes /\ GoCacheOK /\ GoHeader /\ GoCall(g) /\ GoAlone(g)
    BY DEF GoIInv
  <1> USE DEF Go!Goto, Go!calls
  <1>1. CASE Go!Evict(g)
    <2>1. /\ goPc[g] = "evicting" /\ goPc' = [goPc EXCEPT ![g] = "looked"]
          /\ goCache' = [goCache EXCEPT ![goGet[g]] = Nothing]
          /\ UNCHANGED <<version, goDedupe, goInm, goFlight, goGet, goAtStart, goCached, goSent,
                         goAnswer, goResult>>
      BY <1>1 DEF Go!Evict
    <2>2. goCached[g] = Nothing /\ goGet[g] \in Resources
      BY <1>0, <2>1 DEF GoCall
    <2>3. GoHeader'
      BY <2>1, <2>2, GoHeaderStays DEF GoDeletes
    <2>4. goPc'[g] = "looked" /\ \A d \in Tasks \ {g} : goPc'[d] = goPc[d]
      BY <1>0, <2>1 DEF GoTypes
    <2>5. GoAlone(g)'
      BY <1>0, <2>1, <2>2, <2>4 DEF GoAlone, GoOwnEtag, GoAnswered
    <2>6. /\ goCache' \in [Resources -> GoEntries \cup {Nothing}]
          /\ \A u \in Resources : goCache'[u] \in {goCache[u], Nothing}
      BY <1>0, <2>1, <2>2 DEF GoTypes
    <2>7. "looked" \in Go!PcStates
      BY DEF Go!PcStates
    <2> QED  BY <1>0, <2>1, <2>3, <2>5, <2>6, <2>7, GoMoves DEF GoTypes
  <1>2. CASE Go!SetHeader(g)
    <2>1. /\ goPc[g] = "setting" /\ goPc' = [goPc EXCEPT ![g] = "looked"]
          /\ goInm' = goCached[g].etag
          /\ UNCHANGED <<version, goDedupe, goCache, goFlight, goGet, goAtStart, goCached, goSent,
                         goAnswer, goResult>>
      BY <1>2 DEF Go!SetHeader
    <2>2. goCached[g] # Nothing /\ goCached[g] \in GoEntries /\ goCached[g].etag \in Versions
      <3>1. goCached[g] # Nothing /\ goCached[g] \in GoEntries
        BY <1>0, <2>1 DEF GoCall, GoTypes
      <3> QED  BY <3>1, GoEntryParts
    <2>4. goPc'[g] = "looked" /\ \A d \in Tasks \ {g} : goPc'[d] = goPc[d]
      BY <1>0, <2>1 DEF GoTypes
    <2>3. GoHeader'
      BY <2>1, <2>2, <2>4 DEF GoHeader, GoDeletes
    <2>5. GoAlone(g)'
      BY <1>0, <2>1, <2>2, <2>4 DEF GoAlone, GoOwnEtag, GoAnswered
    <2>7. "looked" \in Go!PcStates
      BY DEF Go!PcStates
    <2> QED  BY <1>0, <2>1, <2>2, <2>3, <2>5, <2>7, GoMoves DEF GoTypes
  <1>3. CASE Go!Ride(g) \/ Go!Run(g)
    <2>1. /\ goPc[g] = "looked"
          /\ UNCHANGED <<version, goDedupe, goCache, goInm, goGet, goAtStart, goCached, goSent,
                         goAnswer, goResult>>
      BY <1>3 DEF Go!Ride, Go!Run
    <2>2. PICK p \in {"riding", "copying"} : goPc' = [goPc EXCEPT ![g] = p]
      BY <1>3 DEF Go!Ride, Go!Run
    <2>3. goFlight' \in [Resources -> Tasks \cup {Nothing}]
      <3>1. goGet[g] \in Resources
        BY <1>0, <2>1 DEF GoCall
      <3> QED  BY <1>0, <1>3, <3>1 DEF Go!Ride, Go!Run, GoTypes
    <2>4. goPc'[g] = p /\ \A d \in Tasks \ {g} : goPc'[d] = goPc[d]
      BY <1>0, <2>2 DEF GoTypes
    <2>5. GoHeader'
      BY <2>1, <2>2, GoHeaderStays
    <2>6. GoAlone(g)'
      BY <1>0, <2>1, <2>2, <2>4 DEF GoAlone, GoOwnEtag, GoAnswered
    <2>7. p \in Go!PcStates
      BY DEF Go!PcStates
    <2> QED  BY <1>0, <2>1, <2>2, <2>3, <2>5, <2>6, <2>7, GoMoves DEF GoTypes
  <1>4. CASE Go!CopyHeaders(g)
    <2>1. /\ goPc[g] = "copying" /\ goPc' = [goPc EXCEPT ![g] = "waiting"]
          /\ goSent' = [goSent EXCEPT ![g] = goInm]
          /\ UNCHANGED <<version, goDedupe, goCache, goInm, goFlight, goGet, goAtStart, goCached,
                         goAnswer, goResult>>
      BY <1>4 DEF Go!CopyHeaders
    <2>2. goSent'[g] = goInm /\ goSent' \in [Tasks -> Versions \cup {Nothing}]
      BY <1>0, <2>1 DEF GoTypes
    <2>3. goPc'[g] = "waiting" /\ \A d \in Tasks \ {g} : goPc'[d] = goPc[d]
      BY <1>0, <2>1 DEF GoTypes
    <2>4. GoHeader'
      BY <2>1, GoHeaderStays
    <2>5. GoAlone(g)'
      BY <1>0, <2>1, <2>2, <2>3 DEF GoAlone, GoOwnEtag, GoAnswered
    <2>6. "waiting" \in Go!PcStates
      BY DEF Go!PcStates
    <2> QED  BY <1>0, <2>1, <2>2, <2>4, <2>5, <2>6, GoMoves DEF GoTypes
  <1> QED  BY <1>1, <1>2, <1>3, <1>4

LEMMA GoCleans ==
    ASSUME GoIInv, NEW g \in Tasks, Go!CleanUp(g) \/ Go!DelHeader(g)
    PROVE  GoIInv'
  <1>0. GoTypes /\ GoCacheOK /\ GoHeader /\ GoCall(g) /\ GoAlone(g)
    BY DEF GoIInv
  <1> USE DEF Go!Goto, Go!calls
  <1>1. CASE Go!CleanUp(g)
    <2>1. /\ goPc[g] = "answered"
          /\ UNCHANGED <<version, goDedupe, goCache, goInm, goFlight, goGet, goAtStart, goCached,
                         goSent, goAnswer, goResult>>
      BY <1>1 DEF Go!CleanUp
    <2>2. PICK p \in {"deleting", "cleaned"} : /\ goPc' = [goPc EXCEPT ![g] = p]
                                               /\ p = "cleaned" => goCached[g] = Nothing
      BY <1>1 DEF Go!CleanUp
    <2>3. goPc'[g] = p /\ \A d \in Tasks \ {g} : goPc'[d] = goPc[d]
      BY <1>0, <2>2 DEF GoTypes
    <2>4. GoHeader'
      BY <2>1, <2>2, GoHeaderStays DEF GoDeletes
    <2>5. GoAlone(g)'
      BY <1>0, <2>1, <2>2, <2>3 DEF GoAlone, GoOwnEtag, GoAnswered
    <2>6. p \in Go!PcStates /\ GoAnswered(g)
      BY <2>1 DEF Go!PcStates, GoAnswered
    <2> QED  BY <1>0, <2>1, <2>2, <2>4, <2>5, <2>6, GoMoves DEF GoTypes
  <1>2. CASE Go!DelHeader(g)
    <2>1. /\ goPc[g] = "deleting" /\ goPc' = [goPc EXCEPT ![g] = "cleaned"] /\ goInm' = Nothing
          /\ UNCHANGED <<version, goDedupe, goCache, goFlight, goGet, goAtStart, goCached,
                         goSent, goAnswer, goResult>>
      BY <1>2 DEF Go!DelHeader
    <2>3. goPc'[g] = "cleaned" /\ \A d \in Tasks \ {g} : goPc'[d] = goPc[d]
      BY <1>0, <2>1 DEF GoTypes
    <2>4. GoHeader'
      BY <2>1 DEF GoHeader
    <2>5. GoAlone(g)'
      BY <1>0, <2>1, <2>3 DEF GoAlone, GoOwnEtag, GoAnswered
    <2>6. "cleaned" \in Go!PcStates /\ GoAnswered(g)
      BY <2>1 DEF Go!PcStates, GoAnswered
    <2> QED  BY <1>0, <2>1, <2>4, <2>5, <2>6, GoMoves DEF GoTypes
  <1> QED  BY <1>1, <1>2

LEMMA GoFinish ==
    ASSUME GoIInv, NEW g \in Tasks, Go!Finish(g)
    PROVE  GoIInv'
  <1> DEFINE x == IF goAnswer[g].status = 304 /\ goCached[g] # Nothing
                  THEN goCached[g].data ELSE goAnswer[g].body
             e == Go!Stored(g)
             stores == goAnswer[g].status = 200 /\ goAnswer[g].etag # Nothing
             p == IF goAnswer[g].status = 0 THEN "failed" ELSE "returned"
  <1>0. /\ GoTypes /\ GoCacheOK /\ GoHeader /\ GoCall(g) /\ GoAlone(g) /\ goPc[g] = "cleaned"
        /\ \A d \in Tasks \ {g} : goAtStart[d] = Nothing
        /\ goGet[g] \in Resources /\ GoAnswered(g)
        /\ goAnswer[g] \in GoAnswers /\ goCached[g] \in GoEntries \cup {Nothing}
    <2>1. goPc[g] = "cleaned"
      BY DEF Go!Finish
    <2> QED  BY <2>1, GoCompany DEF GoIInv, GoTypes, GoCall, GoAnswered
  <1>1. /\ goResult' = [goResult EXCEPT ![g] = x]
        /\ goCache' = IF stores THEN [goCache EXCEPT ![goGet[g]] = e] ELSE goCache
        /\ goPc' = [goPc EXCEPT ![g] = p]
        /\ UNCHANGED <<version, goDedupe, goInm, goFlight, goGet, goAtStart, goCached, goSent,
                       goAnswer>>
    BY DEF Go!Finish, Go!Goto, Go!calls
  <1>2. x \in Bodies \cup {Nothing}
    BY <1>0, GoAnswerParts, GoEntryParts
  <1>3. stores => e \in GoEntries /\ e.data = Body(goGet[g], e.etag) /\ e.etag <= version[goGet[g]]
    <2> SUFFICES ASSUME stores
                 PROVE  e \in GoEntries /\ e.data = Body(goGet[g], e.etag)
                        /\ e.etag <= version[goGet[g]]
      OBVIOUS
    <2>1. /\ goAnswer[g].body = Body(goGet[g], goAnswer[g].body.version)
          /\ goAnswer[g].body \in Bodies
          /\ goAnswer[g].body.version <= version[goGet[g]]
          /\ goAnswer[g].etag = goAnswer[g].body.version
      BY <1>0 DEF GoCall
    <2>2. goAnswer[g].etag \in Versions
      BY <1>0, GoAnswerParts
    <2>3. FALSE \in BOOLEAN
      OBVIOUS
    <2> QED  BY <2>1, <2>2, <2>3 DEF Go!Stored, GoEntries
  <1>4. p \in {"returned", "failed"} /\ p \in Go!PcStates /\ (p = "returned" => goAnswer[g].status # 0)
    BY DEF Go!PcStates
  <1> HIDE DEF e, stores, p
  <1>5. /\ goPc'[g] = p /\ goResult'[g] = x
        /\ \A d \in Tasks \ {g} : /\ goPc'[d] = goPc[d] /\ goGet'[d] = goGet[d]
                                   /\ goCached'[d] = goCached[d] /\ goAnswer'[d] = goAnswer[d]
                                   /\ goResult'[d] = goResult[d] /\ goAtStart'[d] = Nothing
    BY <1>0, <1>1 DEF GoTypes
  <1>6. GoTypes'
    <2> HIDE DEF x
    <2>1. goCache' \in [Resources -> GoEntries \cup {Nothing}]
      BY <1>0, <1>1, <1>3 DEF GoTypes
    <2>2. goResult' \in [Tasks -> Bodies \cup {Nothing}] /\ goPc' \in [Tasks -> Go!PcStates]
      BY <1>0, <1>1, <1>2, <1>4 DEF GoTypes
    <2> QED  BY <1>0, <1>1, <2>1, <2>2 DEF GoTypes
  <1>7. GoCacheOK'
    <2> SUFFICES ASSUME NEW u \in Resources, goCache'[u] # Nothing
                 PROVE  GoSound(goCache[u], u)'
      BY DEF GoCacheOK
    <2>1. CASE goCache'[u] = goCache[u]
      BY <1>0, <1>1, <2>1 DEF GoCacheOK, GoSound
    <2>2. CASE goCache'[u] # goCache[u]
      <3>1. stores /\ u = goGet[g] /\ goCache'[u] = e
        BY <1>0, <1>1, <2>2 DEF GoTypes
      <3> QED  BY <1>1, <1>3, <3>1 DEF GoSound
    <2> QED  BY <2>1, <2>2
  <1>8. GoHeader'
    BY <1>0, <1>1, GoHeaderStays DEF GoDeletes
  <1>9. GoCall(g)'
    <2>1. GoAnswered(g)'
      BY <1>4, <1>5 DEF GoAnswered
    <2> QED  BY <1>0, <1>1, <1>4, <1>5, <2>1 DEF GoCall, GoSound
  <1>10. GoAlone(g)'
    BY <1>0, <1>1, <1>4, <1>5 DEF GoAlone, GoAnswered, GoOwnEtag
  <1> QED  BY <1>1, <1>5, <1>6, <1>7, <1>8, <1>9, <1>10, GoOne

LEMMA GoLeave ==
    ASSUME GoIInv, NEW g \in Tasks, Go!Leave(g)
    PROVE  GoIInv'
  <1>0. /\ GoTypes /\ GoCacheOK /\ GoHeader /\ goPc[g] \in {"returned", "failed"}
        /\ \A d \in Tasks \ {g} : goAtStart[d] = Nothing
    <2>1. goPc[g] \in {"returned", "failed"}
      BY DEF Go!Leave
    <2> QED  BY <2>1, GoCompany DEF GoIInv
  <1>1. GoTypes' /\ GoCacheOK'
    BY <1>0 DEF Go!Leave, Go!Goto, GoTypes, Go!PcStates, GoCacheOK, GoSound
  <1>2. goPc'[g] = "idle" /\ goCached'[g] = Nothing /\ goAtStart'[g] = Nothing
    BY <1>0 DEF Go!Leave, Go!Goto, GoTypes
  <1>3. \A d \in Tasks \ {g} : /\ goPc'[d] = goPc[d] /\ goGet'[d] = goGet[d]
                                /\ goCached'[d] = goCached[d] /\ goAnswer'[d] = goAnswer[d]
                                /\ goResult'[d] = goResult[d] /\ goAtStart'[d] = Nothing
    BY <1>0 DEF Go!Leave, Go!Goto, GoTypes
  <1>4. GoHeader'
    <2>1. \A d \in Tasks : GoDeletes(d) => GoDeletes(d)'
      BY <1>0, <1>3 DEF GoDeletes
    <2> QED  BY <1>0, <2>1 DEF GoHeader, Go!Leave
  <1>5. GoCall(g)' /\ GoAlone(g)'
    BY <1>2 DEF GoCall, GoAlone, GoAnswered
  <1> QED  BY <1>1, <1>3, <1>4, <1>5, GoOne DEF Go!Leave

(* The outcome of g's round-trip, as far as g and its riders rely on it. *)
GoOutcome(g, a) ==
  /\ a \in GoAnswers
  /\ a.status = 200 => a.body = Body(goGet[g], version[goGet[g]]) /\ a.etag = version[goGet[g]]
  /\ a.status # 200 => a.body = Nothing
  /\ a.status = 304 => goSent[g] = version[goGet[g]]

LEMMA GoRespondOutcome ==
    ASSUME VersionsOK, NEW g \in Tasks, goGet[g] \in Resources
    PROVE  GoOutcome(g, Go!Answer(goGet[g], goSent[g]))
  <1> DEFINE a == Answer(goGet[g], goSent[g])
  <1>1. /\ a \in Answers /\ a # Nothing /\ a.status \in {200, 304} /\ a.etag = version[goGet[g]]
        /\ a.status = 200 => a.body = Body(goGet[g], version[goGet[g]])
        /\ a.status = 304 => a.body = Nothing /\ goSent[g] = version[goGet[g]]
    BY AnswerIs
  <1> HIDE DEF a
  <1>2. a \in GoAnswers
    BY <1>1 DEF Answers, GoAnswers
  <1>3. GoOutcome(g, a)
    BY <1>1, <1>2 DEF GoOutcome
  <1> QED  BY <1>3, GoNames DEF a

LEMMA GoFailureOutcome ==
    ASSUME NEW g \in Tasks
    PROVE  GoOutcome(g, Go!Failure)
  <1>1. Go!Failure \in GoAnswers /\ Go!Failure.status = 0 /\ Go!Failure.body = Nothing
    BY DEF Go!Failure, GoAnswers
  <1> QED  BY <1>1 DEF GoOutcome

LEMMA GoLand ==
    ASSUME GoIInv, NEW g \in Tasks, NEW a, GoOutcome(g, a), Go!Land(g, a)
    PROVE  GoIInv'
  <1> DEFINE u == goGet[g]
             aboard == IF goDedupe THEN Go!Riders(u) ELSE {}
             b == [a EXCEPT !.etag = Nothing]
  <1>0. /\ GoTypes /\ GoCacheOK /\ GoHeader /\ GoCall(g) /\ GoAlone(g) /\ VersionsOK
        /\ goPc[g] = "waiting" /\ u \in Resources
        /\ \A d \in Tasks \ {g} : goAtStart[d] = Nothing
    <2>1. goPc[g] = "waiting"
      BY DEF Go!Land
    <2> QED  BY <2>1, GoCompany DEF GoIInv, GoTypes, GoCall, VersionsOK
  <1>1. /\ goAnswer' = [d \in Tasks |-> IF d = g THEN a
                                        ELSE IF d \in aboard THEN b ELSE goAnswer[d]]
        /\ goPc' = [d \in Tasks |-> IF d \in aboard \cup {g} THEN "answered" ELSE goPc[d]]
        /\ goFlight' = IF goDedupe THEN [goFlight EXCEPT ![u] = Nothing] ELSE goFlight
        /\ goSent' = [goSent EXCEPT ![g] = Nothing]
        /\ UNCHANGED <<version, goDedupe, goCache, goInm, goGet, goAtStart, goCached, goResult>>
    BY DEF Go!Land, Go!calls
  <1>2. \A d \in Tasks : d \in aboard => goPc[d] = "riding" /\ goGet[d] = u
    BY DEF Go!Riders
  <1>3. /\ a \in GoAnswers
        /\ a.status = 200 => a.body = Body(u, version[u]) /\ a.etag = version[u]
        /\ a.status # 200 => a.body = Nothing
        /\ a.status = 304 => goSent[g] = version[u]
    BY DEF GoOutcome
  <1>4. b \in GoAnswers /\ b.status = a.status /\ b.body = a.body /\ b.etag = Nothing
    BY <1>3 DEF GoAnswers
  <1>5. version[u] \in Versions /\ version[u] \in Nat
    BY <1>0, VersionsAreNumbers DEF VersionsOK
  <1> HIDE DEF u, aboard, b
  <1>6. GoTypes'
    <2>1. goPc' \in [Tasks -> Go!PcStates]
      BY <1>0, <1>1 DEF GoTypes, Go!PcStates
    <2>2. goAnswer' \in [Tasks -> GoAnswers \cup {Nothing}]
      BY <1>0, <1>1, <1>3, <1>4 DEF GoTypes
    <2>3. goFlight' \in [Resources -> Tasks \cup {Nothing}]
      BY <1>0, <1>1 DEF GoTypes
    <2>4. goSent' \in [Tasks -> Versions \cup {Nothing}]
      BY <1>0, <1>1 DEF GoTypes
    <2> QED  BY <1>0, <1>1, <2>1, <2>2, <2>3, <2>4 DEF GoTypes
  <1>7. GoCacheOK'
    BY <1>0, <1>1 DEF GoCacheOK, GoSound
  <1>8. GoHeader'
    <2>1. \A d \in Tasks : GoDeletes(d) => GoDeletes(d)'
      BY <1>1 DEF GoDeletes
    <2> QED  BY <1>0, <1>1, <2>1 DEF GoHeader
  <1>9. ASSUME NEW d \in Tasks, d \in aboard \cup {g} PROVE GoCall(d)'
    <2>1. GoCall(d) /\ goGet[d] = u /\ goPc[d] \in {"waiting", "riding"}
      BY <1>0, <1>2, <1>9 DEF GoIInv, u
    <2>2. /\ goPc'[d] = "answered" /\ goGet'[d] = u /\ goCached'[d] = goCached[d]
          /\ goAnswer'[d] \in GoAnswers /\ goAnswer'[d].status = a.status
          /\ goAnswer'[d].body = a.body /\ goAnswer'[d].etag \in {a.etag, Nothing}
      BY <1>1, <1>3, <1>4, <1>9, <2>1
    <2>3. goCached[d] # Nothing => GoSound(goCached[d], u) /\ goCached[d].etag \in Nat
      <3>1. goCached[d] # Nothing => goCached[d] \in GoEntries
        BY <1>0 DEF GoTypes
      <3>2. goCached[d] # Nothing => goCached[d].etag \in Versions
        BY <3>1, GoEntryParts
      <3> QED  BY <2>1, <3>2, VersionsAreNumbers DEF GoCall
    <2>4. goCached[d] # Nothing => GoSound(goCached[d], goGet[d])'
      BY <1>1, <2>2, <2>3 DEF GoSound
    <2>5. a.status = 200 => /\ a.body \in Bodies /\ a.body.version = version[u]
                            /\ a.body = Body(u, a.body.version)
      BY <1>0, <1>3, <1>5, BodyIs
    <2>6. a.status = 200 => /\ goAnswer'[d].body = Body(goGet'[d], goAnswer'[d].body.version)
                            /\ goAnswer'[d].body \in Bodies
                            /\ goAnswer'[d].body.version <= version'[goGet'[d]]
                            /\ goAnswer'[d].etag \in {goAnswer'[d].body.version, Nothing}
      BY <1>1, <1>3, <1>5, <2>2, <2>5
    <2>7. a.status = 200 /\ goCached[d] # Nothing => goAnswer'[d].body.version >= goCached[d].etag
      BY <1>5, <2>2, <2>3, <2>5 DEF GoSound
    <2> QED  BY <1>0, <1>3, <2>2, <2>4, <2>6, <2>7 DEF GoCall, GoAnswered
  <1>10. ASSUME NEW d \in Tasks, d \notin aboard \cup {g} PROVE GoCall(d)'
    <2>1. VersionsOK' /\ \A s \in Resources : version'[s] >= version[s]
      BY <1>0, <1>1, SameVersions
    <2> QED  BY <1>1, <1>10, <2>1, GoCallStays
  <1>11. ASSUME goAtStart[g] # Nothing PROVE aboard \cap Tasks = {}
    BY <1>0, <1>2, <1>11 DEF GoAlone
  <1>12. GoAlone(g)'
    <2> SUFFICES ASSUME goAtStart[g] # Nothing PROVE GoAlone(g)'
      BY <1>1 DEF GoAlone
    <2>1. /\ \A d \in Tasks \ {g} : goPc[d] = "idle"
          /\ goAtStart[g] <= version[u] /\ goSent[g] = GoOwnEtag(g)
      BY <1>0 DEF GoAlone, u
    <2>2. /\ goPc'[g] = "answered" /\ \A d \in Tasks \ {g} : goPc'[d] = "idle"
          /\ goAnswer'[g] = a /\ goGet'[g] = u /\ goAtStart'[g] = goAtStart[g]
          /\ goCached'[g] = goCached[g] /\ version'[u] = version[u]
      BY <1>1, <1>11, <2>1 DEF u
    <2>3. goAtStart[g] \in Nat
      BY <1>0, VersionsAreNumbers DEF GoTypes
    <2>4. a.status = 200 => a.body.version >= goAtStart[g]
      BY <1>0, <1>3, <1>5, <2>1, <2>3, BodyIs
    <2>5. a.status = 304 => goCached[g] # Nothing /\ goCached[g].etag >= goAtStart[g]
      <3>1. a.status = 304 => GoOwnEtag(g) = version[u]
        BY <1>3, <2>1
      <3> QED  BY <1>5, <2>1, <2>3, <3>1, NothingAssumption DEF GoOwnEtag
    <2> QED  BY <2>1, <2>2, <2>4, <2>5 DEF GoAlone, GoAnswered
  <1>13. ASSUME NEW d \in Tasks PROVE GoAlone(d)'
    <2>1. CASE d = g
      BY <1>12, <2>1 DEF GoAlone, GoAnswered, GoOwnEtag
    <2>2. CASE d # g
      BY <1>0, <1>1, <2>2 DEF GoAlone
    <2> QED  BY <2>1, <2>2
  <1> QED  BY <1>6, <1>7, <1>8, <1>9, <1>10, <1>13 DEF GoIInv

LEMMA GoAloneStays ==
    ASSUME GoIInv, VersionsOK', \A s \in Resources : version'[s] >= version[s], NEW d \in Tasks,
           UNCHANGED <<goInm, goPc, goGet, goAtStart, goCached, goSent, goAnswer>>
    PROVE  GoAlone(d)'
  <1> SUFFICES ASSUME goAtStart[d] # Nothing PROVE GoAlone(d)'
    BY DEF GoAlone
  <1>1. GoAlone(d) /\ goGet[d] \in Resources
    BY DEF GoIInv, GoCall, GoAlone
  <1>2. goAtStart[d] \in Nat /\ version[goGet[d]] \in Nat /\ version'[goGet[d]] \in Nat
    BY <1>1, VersionsAreNumbers DEF GoIInv, GoTypes, VersionsOK
  <1>3. goAtStart[d] <= version'[goGet[d]]
    BY <1>1, <1>2 DEF GoAlone
  <1> QED  BY <1>1, <1>3 DEF GoAlone, GoAnswered, GoOwnEtag

(* The TTL passes, the cache is cleared, the resource changes. *)
LEMMA GoWorld ==
    ASSUME GoIInv, Go!Clear \/ Go!Origin \/ \E u \in Resources : Go!Expire(u)
    PROVE  GoIInv'
  <1>0. GoTypes /\ VersionsOK /\ GoHeader
    BY DEF GoIInv, GoTypes, VersionsOK
  <1>1. /\ VersionsOK' /\ \A s \in Resources : version'[s] >= version[s]
        /\ UNCHANGED <<goDedupe, goInm, goFlight, goPc, goGet, goAtStart, goCached, goSent,
                       goAnswer, goResult>>
    <2>1. CASE Go!Origin
      <3>1. \A u \in Resources : Go!Update(u) => Update(u)
        BY DEF Go!Update, Update
      <3> QED  BY <1>0, <2>1, <3>1, UpdateIs DEF Go!Origin, Go!calls
    <2>2. CASE Go!Clear \/ \E u \in Resources : Go!Expire(u)
      BY <1>0, <2>2, SameVersions DEF Go!Expire, Go!Clear, Go!calls
    <2> QED  BY <2>1, <2>2
  <1>2. /\ goCache' \in [Resources -> GoEntries \cup {Nothing}]
        /\ \A s \in Resources : goCache'[s] # Nothing =>
              goCache[s] # Nothing /\ goCache'[s].data = goCache[s].data
              /\ goCache'[s].etag = goCache[s].etag
    <2>1. CASE Go!Origin \/ Go!Clear
      BY <1>0, <2>1 DEF Go!Origin, Go!Clear, GoTypes
    <2>2. CASE \E u \in Resources : Go!Expire(u)
      <3>1. PICK u \in Resources : Go!Expire(u)
        BY <2>2
      <3> DEFINE e == [goCache[u] EXCEPT !.expired = TRUE]
      <3>2. goCache[u] # Nothing /\ goCache[u] \in GoEntries /\ goCache' = [goCache EXCEPT ![u] = e]
        BY <1>0, <3>1 DEF Go!Expire, GoTypes
      <3>3. e \in GoEntries /\ e.data = goCache[u].data /\ e.etag = goCache[u].etag
        <4>1. TRUE \in BOOLEAN
          OBVIOUS
        <4> QED  BY <3>2, <4>1 DEF GoEntries
      <3> HIDE DEF e
      <3> QED  BY <1>0, <3>2, <3>3 DEF GoTypes
    <2> QED  BY <2>1, <2>2
  <1>3. GoTypes'
    BY <1>0, <1>1, <1>2 DEF GoTypes, VersionsOK
  <1>4. GoCacheOK'
    BY <1>1, <1>2, GoCacheStays DEF GoCacheOK, GoSound
  <1>5. GoHeader'
    BY <1>0, <1>1 DEF GoHeader, GoDeletes
  <1>6. ASSUME NEW d \in Tasks PROVE GoCall(d)'
    BY <1>1, GoCallStays
  <1>7. ASSUME NEW d \in Tasks PROVE GoAlone(d)'
    BY <1>1, GoAloneStays
  <1> QED  BY <1>3, <1>4, <1>5, <1>6, <1>7 DEF GoIInv

LEMMA GoNext == GoIInv /\ [Go!Next]_(Go!vars) => GoIInv'
  <1> SUFFICES ASSUME GoIInv, [Go!Next]_(Go!vars) PROVE GoIInv'
    OBVIOUS
  <1>1. CASE UNCHANGED Go!vars
    BY <1>1 DEF Go!vars, GoIInv, GoTypes, GoCacheOK, GoSound, GoHeader, GoDeletes, GoCall,
                GoAnswered, GoAlone, GoOwnEtag
  <1>2. ASSUME NEW g \in Tasks, Go!Respond(g) \/ Go!RoundTripFails(g) PROVE GoIInv'
    <2>1. VersionsOK /\ goGet[g] \in Resources
      BY <1>2 DEF GoIInv, GoTypes, VersionsOK, GoCall, Go!Respond, Go!RoundTripFails, Go!Land
    <2>2. PICK a : GoOutcome(g, a) /\ Go!Land(g, a)
      BY <1>2, <2>1, GoRespondOutcome, GoFailureOutcome DEF Go!Respond, Go!RoundTripFails
    <2> QED  BY <2>2, GoLand
  <1>3. ASSUME NEW g \in Tasks, Go!Call(g) PROVE GoIInv'
    BY <1>2, <1>3, GoLookup, GoBefore, GoCleans, GoFinish, GoLeave DEF Go!Call
  <1> QED  BY <1>1, <1>3, GoWorld DEF Go!Next

LEMMA GoResults ==
  GoIInv => /\ Go!TypeOK /\ Go!CacheCoherent /\ Go!HeaderCleaned
            /\ Go!NotOlderThanCached /\ Go!FreshAlone
  <1> SUFFICES ASSUME GoIInv PROVE /\ Go!TypeOK /\ Go!CacheCoherent /\ Go!HeaderCleaned
                                   /\ Go!NotOlderThanCached /\ Go!FreshAlone
    OBVIOUS
  <1>1. Go!TypeOK
    BY GoNames DEF GoIInv, GoTypes, Go!TypeOK
  <1>2. Go!CacheCoherent
    BY GoNames DEF GoIInv, GoCacheOK, GoSound, Go!CacheCoherent
  <1>3. Go!HeaderCleaned
    BY DEF GoIInv, GoHeader, GoDeletes, Go!HeaderCleaned
  <1>4. ASSUME NEW g \in Tasks, goCached[g] # Nothing
        PROVE  goGet[g] \in Resources /\ goCached[g].etag \in Nat
               /\ goCached[g].data = Body(goGet[g], goCached[g].etag)
               /\ goCached[g].data.version = goCached[g].etag
    <2>1. goGet[g] \in Resources /\ GoSound(goCached[g], goGet[g])
      BY <1>4 DEF GoIInv, GoCall
    <2>2. goCached[g] \in GoEntries
      BY <1>4 DEF GoIInv, GoTypes
    <2>3. goCached[g].etag \in Versions
      BY <2>2, GoEntryParts
    <2>4. goCached[g].etag \in Nat
      BY <2>3, VersionsAreNumbers
    <2>5. goCached[g].data = Body(goGet[g], goCached[g].etag)
      BY <2>1 DEF GoSound
    <2>6. Body(goGet[g], goCached[g].etag).version = goCached[g].etag
      BY <2>1, <2>3, BodyIs
    <2> QED  BY <2>1, <2>4, <2>5, <2>6
  <1>5. ASSUME NEW g \in Tasks, goPc[g] = "returned"
        PROVE  /\ goAnswer[g].status \in {200, 304}
               /\ goAnswer[g].status = 200 => /\ goResult[g] = goAnswer[g].body
                                              /\ goAnswer[g].body \in Bodies
                                              /\ goCached[g] # Nothing =>
                                                    goAnswer[g].body.version >= goCached[g].etag
               /\ goAnswer[g].status = 304 =>
                    goResult[g] = IF goCached[g] # Nothing THEN goCached[g].data ELSE Nothing
    <2>1. GoCall(g) /\ GoAnswered(g)
      BY <1>5 DEF GoIInv, GoAnswered
    <2>2. goAnswer[g] \in GoAnswers /\ goAnswer[g].status # 0
      BY <1>5, <2>1 DEF GoCall
    <2>3. goAnswer[g].status \in {200, 304}
      BY <2>2, GoAnswerParts
    <2> QED  BY <1>5, <2>1, <2>3 DEF GoCall
  <1>6. Go!NotOlderThanCached
    BY <1>4, <1>5 DEF Go!NotOlderThanCached
  <1>7. Go!FreshAlone
    <2> SUFFICES ASSUME NEW g \in Tasks, goPc[g] = "returned", goAtStart[g] # Nothing
                 PROVE  goResult[g] # Nothing /\ goResult[g].version >= goAtStart[g]
      BY DEF Go!FreshAlone
    <2>1. /\ goAnswer[g].status = 200 => goAnswer[g].body.version >= goAtStart[g]
          /\ goAnswer[g].status = 304 => goCached[g] # Nothing /\ goCached[g].etag >= goAtStart[g]
      BY DEF GoIInv, GoAlone, GoAnswered
    <2>2. CASE goAnswer[g].status = 200
      BY <1>5, <2>1, <2>2, NothingAssumption
    <2>3. CASE goAnswer[g].status = 304
      <3>1. goCached[g] # Nothing /\ goCached[g] \in GoEntries
        BY <2>1, <2>3 DEF GoIInv, GoTypes
      <3>2. goCached[g].data # Nothing
        BY <3>1, GoEntryParts, NothingAssumption
      <3> QED  BY <1>4, <1>5, <2>1, <2>3, <3>1, <3>2
    <2> QED  BY <1>5, <2>2, <2>3
  <1> QED  BY <1>1, <1>2, <1>3, <1>6, <1>7

-----------------------------------------------------------------------------
(* The TypeScript client. *)

TsTypes ==
  /\ version \in [Resources -> Versions]
  /\ tsDedupe \in BOOLEAN
  /\ tsCache \in [Resources -> Entries \cup {Nothing}]
  /\ tsFlight \in [Resources -> Tasks \cup {Nothing}]
  /\ tsPc \in [Tasks -> Ts!PcStates]
  /\ tsGet \in [Tasks -> Resources \cup {Nothing}]
  /\ tsAtStart \in [Tasks -> Versions \cup {Nothing}]
  /\ tsCached \in [Tasks -> Entries \cup {Nothing}]
  /\ tsAnswer \in [Tasks -> Answers \cup {Nothing}]

(* A call at work started with a version that is still current or past;    *)
(* the full answer it got is no older.                                     *)
TsCall(c) ==
  /\ tsPc[c] # "idle" => /\ tsGet[c] \in Resources /\ tsAtStart[c] \in Versions
                         /\ tsAtStart[c] <= version[tsGet[c]]
  /\ tsPc[c] \in {"reading", "returned"} =>
        /\ tsAnswer[c] # Nothing
        /\ tsAnswer[c].body = Body(tsGet[c], tsAnswer[c].etag)
        /\ tsAnswer[c].etag >= tsAtStart[c]

TsCacheOK == \A u \in Resources : tsCache[u] # Nothing => tsCache[u].data = Body(u, tsCache[u].etag)

(* The inductive invariant of the TypeScript GET path. *)
TsIInv == TsTypes /\ TsCacheOK /\ \A c \in Tasks : TsCall(c)

LEMMA TsNames ==
  /\ Ts!Versions = Versions /\ Ts!Bodies = Bodies /\ Ts!Entries = Entries /\ Ts!Answers = Answers
  /\ \A r, v : Ts!Body(r, v) = Body(r, v)
  /\ \A r, i : Ts!Answer(r, i) = Answer(r, i)
  BY DEF Ts!Versions, Versions, Ts!Bodies, Bodies, Ts!Entries, Entries, Ts!Answers, Answers,
         Ts!Body, Body, Ts!Answer, Answer

LEMMA TsInit == Ts!Init => TsIInv
  <1> SUFFICES ASSUME Ts!Init PROVE TsIInv
    OBVIOUS
  <1>1. TsTypes
    BY VersionsAreNumbers DEF Ts!Init, Ts!OriginInit, TsTypes, Ts!PcStates
  <1> QED  BY <1>1 DEF Ts!Init, TsIInv, TsCacheOK, TsCall

(* What every step owes: the types, the cache, the calls it touches. *)
LEMMA TsStep ==
    ASSUME TsIInv, TsTypes', TsCacheOK', \A s \in Resources : version'[s] >= version[s], NEW T,
           \A d \in Tasks \ T : /\ tsPc'[d] = tsPc[d] /\ tsGet'[d] = tsGet[d]
                                /\ tsAtStart'[d] = tsAtStart[d] /\ tsAnswer'[d] = tsAnswer[d],
           \A d \in Tasks \cap T : TsCall(d)'
    PROVE  TsIInv'
  <1>1. ASSUME NEW d \in Tasks \ T PROVE TsCall(d)'
    <2>1. TsCall(d)
      BY <1>1 DEF TsIInv
    <2>2. tsPc[d] # "idle" => /\ version'[tsGet[d]] >= version[tsGet[d]]
                              /\ version[tsGet[d]] \in Nat /\ version'[tsGet[d]] \in Nat
                              /\ tsAtStart[d] \in Nat
      BY <2>1, VersionsAreNumbers DEF TsIInv, TsTypes, TsCall
    <2>3. tsPc[d] # "idle" => tsAtStart[d] <= version'[tsGet[d]]
      BY <2>1, <2>2 DEF TsCall
    <2> QED  BY <1>1, <2>1, <2>3 DEF TsCall
  <1> QED  BY <1>1 DEF TsIInv

LEMMA TsStart ==
    ASSUME TsIInv, NEW c \in Tasks, NEW u \in Resources, Ts!Start(c, u)
    PROVE  TsIInv'
  <1>0. TsTypes /\ TsCacheOK /\ version[u] \in Versions /\ version[u] \in Nat
    BY VersionsAreNumbers DEF TsIInv, TsTypes
  <1>1. /\ tsGet' = [tsGet EXCEPT ![c] = u] /\ tsAtStart' = [tsAtStart EXCEPT ![c] = version[u]]
        /\ tsCached' = [tsCached EXCEPT ![c] = tsCache[u]]
        /\ UNCHANGED <<version, tsDedupe, tsCache, tsAnswer>>
    BY DEF Ts!Start
  <1>2. PICK p \in {"riding", "dispatched"} : tsPc' = [tsPc EXCEPT ![c] = p]
    BY DEF Ts!Start
  <1>3. tsFlight' \in [Resources -> Tasks \cup {Nothing}]
    BY <1>0 DEF Ts!Start, TsTypes
  <1>4. TsTypes' /\ TsCacheOK'
    BY <1>0, <1>1, <1>2, <1>3 DEF TsTypes, TsCacheOK, Ts!PcStates
  <1>5. ASSUME NEW d \in Tasks \cap {c} PROVE TsCall(d)'
    BY <1>0, <1>1, <1>2, <1>5 DEF TsCall, TsTypes
  <1>6. \A d \in Tasks \ {c} : /\ tsPc'[d] = tsPc[d] /\ tsGet'[d] = tsGet[d]
                                /\ tsAtStart'[d] = tsAtStart[d] /\ tsAnswer'[d] = tsAnswer[d]
    BY <1>0, <1>1, <1>2 DEF TsTypes
  <1>7. \A s \in Resources : version'[s] >= version[s]
    BY <1>0, <1>1, SameVersions DEF TsTypes, VersionsOK
  <1> QED  BY <1>4, <1>5, <1>6, <1>7, TsStep

LEMMA TsRespond ==
    ASSUME TsIInv, NEW c \in Tasks, Ts!Respond(c)
    PROVE  TsIInv'
  <1> DEFINE u == tsGet[c]
             aboard == {c} \cup (IF tsDedupe THEN Ts!Riders(u) ELSE {})
             a == Ts!Answer(u, Ts!IfNoneMatch(c))
             p == IF a.status = 200 THEN "reading" ELSE "threw"
  <1>0. /\ TsTypes /\ TsCacheOK /\ VersionsOK /\ tsPc[c] = "dispatched" /\ u \in Resources
        /\ version[u] \in Versions /\ version[u] \in Nat
    BY VersionsAreNumbers DEF TsIInv, TsTypes, TsCall, VersionsOK, Ts!Respond
  <1>1. /\ a \in Answers /\ a # Nothing /\ a.etag = version[u]
        /\ a.status = 200 => a.body = Body(u, version[u])
    BY <1>0, TsNames, AnswerIs
  <1>2. /\ tsAnswer' = [d \in Tasks |-> IF d \in aboard THEN a ELSE tsAnswer[d]]
        /\ tsPc' = [d \in Tasks |-> IF d \notin aboard THEN tsPc[d] ELSE p]
        /\ tsFlight' = IF tsDedupe THEN [tsFlight EXCEPT ![u] = Nothing] ELSE tsFlight
        /\ UNCHANGED <<version, tsDedupe, tsCache, tsGet, tsAtStart, tsCached>>
    BY DEF Ts!Respond
  <1>3. \A d \in Tasks \cap aboard : tsGet[d] = u /\ tsPc[d] \in {"dispatched", "riding"}
    BY <1>0 DEF Ts!Riders
  <1>4. p \in {"reading", "threw"} /\ (p = "reading" => a.status = 200)
    OBVIOUS
  <1> HIDE DEF u, aboard, a, p
  <1>5. TsTypes' /\ TsCacheOK'
    BY <1>0, <1>1, <1>2, <1>4 DEF TsTypes, TsCacheOK, Ts!PcStates
  <1>6. ASSUME NEW d \in Tasks \cap aboard PROVE TsCall(d)'
    <2>1. TsCall(d) /\ tsGet[d] = u /\ tsPc[d] # "idle"
      BY <1>3, <1>6 DEF TsIInv
    <2>2. tsAtStart[d] \in Versions /\ tsAtStart[d] <= version[u]
      BY <2>1 DEF TsCall
    <2>3. tsAtStart[d] \in Nat
      BY <2>2, VersionsAreNumbers
    <2>4. version[u] >= tsAtStart[d]
      BY <1>0, <2>2, <2>3
    <2> QED  BY <1>0, <1>1, <1>2, <1>4, <1>6, <2>1, <2>2, <2>4 DEF TsCall
  <1>7. \A d \in Tasks \ aboard : /\ tsPc'[d] = tsPc[d] /\ tsGet'[d] = tsGet[d]
                                   /\ tsAtStart'[d] = tsAtStart[d] /\ tsAnswer'[d] = tsAnswer[d]
    BY <1>2
  <1>8. \A s \in Resources : version'[s] >= version[s]
    BY <1>0, <1>2, SameVersions
  <1> QED  BY <1>5, <1>6, <1>7, <1>8, TsStep

LEMMA TsStore ==
    ASSUME TsIInv, NEW c \in Tasks, Ts!Store(c)
    PROVE  TsIInv'
  <1> DEFINE e == [etag |-> tsAnswer[c].etag, data |-> tsAnswer[c].body]
  <1>0. /\ TsTypes /\ TsCacheOK /\ TsCall(c) /\ tsPc[c] = "reading" /\ tsGet[c] \in Resources
        /\ tsAnswer[c] \in Answers /\ tsAnswer[c].body = Body(tsGet[c], tsAnswer[c].etag)
    BY DEF TsIInv, TsTypes, TsCall, Ts!Store
  <1>1. tsAnswer[c].etag \in Versions
    BY <1>0, AnswerParts
  <1>2. e \in Entries /\ e.data = Body(tsGet[c], e.etag)
    BY <1>0, <1>1, BodyIs DEF Entries
  <1>3. /\ tsCache' = [tsCache EXCEPT ![tsGet[c]] = e] /\ tsPc' = [tsPc EXCEPT ![c] = "returned"]
        /\ UNCHANGED <<version, tsDedupe, tsFlight, tsGet, tsAtStart, tsCached, tsAnswer>>
    BY DEF Ts!Store
  <1> HIDE DEF e
  <1>4. TsTypes'
    BY <1>0, <1>2, <1>3 DEF TsTypes, Ts!PcStates
  <1>5. TsCacheOK'
    BY <1>0, <1>2, <1>3 DEF TsTypes, TsCacheOK
  <1>6. ASSUME NEW d \in Tasks \cap {c} PROVE TsCall(d)'
    BY <1>0, <1>3, <1>6 DEF TsCall, TsTypes
  <1>7. \A d \in Tasks \ {c} : /\ tsPc'[d] = tsPc[d] /\ tsGet'[d] = tsGet[d]
                                /\ tsAtStart'[d] = tsAtStart[d] /\ tsAnswer'[d] = tsAnswer[d]
    BY <1>0, <1>3 DEF TsTypes
  <1>8. \A s \in Resources : version'[s] >= version[s]
    BY <1>0, <1>3, SameVersions DEF TsTypes, VersionsOK
  <1> QED  BY <1>4, <1>5, <1>6, <1>7, <1>8, TsStep

LEMMA TsLeave ==
    ASSUME TsIInv, NEW c \in Tasks, Ts!Leave(c)
    PROVE  TsIInv'
  <1>0. TsTypes /\ TsCacheOK
    BY DEF TsIInv
  <1>1. TsTypes' /\ TsCacheOK'
    BY <1>0 DEF Ts!Leave, TsTypes, TsCacheOK, Ts!PcStates
  <1>2. ASSUME NEW d \in Tasks \cap {c} PROVE TsCall(d)'
    BY <1>0, <1>2 DEF Ts!Leave, TsTypes, TsCall
  <1>3. \A d \in Tasks \ {c} : /\ tsPc'[d] = tsPc[d] /\ tsGet'[d] = tsGet[d]
                                /\ tsAtStart'[d] = tsAtStart[d] /\ tsAnswer'[d] = tsAnswer[d]
    BY <1>0 DEF Ts!Leave, TsTypes
  <1>4. \A s \in Resources : version'[s] >= version[s]
    BY <1>0, SameVersions DEF TsTypes, VersionsOK, Ts!Leave
  <1> QED  BY <1>1, <1>2, <1>3, <1>4, TsStep

LEMMA TsWorld ==
    ASSUME TsIInv, Ts!Origin \/ \E u \in Resources : Ts!Expire(u)
    PROVE  TsIInv'
  <1>0. TsTypes /\ TsCacheOK /\ VersionsOK
    BY DEF TsIInv, TsTypes, VersionsOK
  <1>1. /\ VersionsOK' /\ \A s \in Resources : version'[s] >= version[s]
        /\ UNCHANGED <<tsDedupe, tsFlight, tsPc, tsGet, tsAtStart, tsCached, tsAnswer>>
    <2>1. CASE Ts!Origin
      <3>1. \A u \in Resources : Ts!Update(u) => Update(u)
        BY DEF Ts!Update, Update
      <3> QED  BY <1>0, <2>1, <3>1, UpdateIs DEF Ts!Origin
    <2>2. CASE \E u \in Resources : Ts!Expire(u)
      BY <1>0, <2>2, SameVersions DEF Ts!Expire
    <2> QED  BY <2>1, <2>2
  <1>2. TsTypes' /\ TsCacheOK'
    BY <1>0, <1>1 DEF Ts!Origin, Ts!Expire, TsTypes, TsCacheOK, VersionsOK
  <1>3. \A d \in Tasks \ {} : /\ tsPc'[d] = tsPc[d] /\ tsGet'[d] = tsGet[d]
                               /\ tsAtStart'[d] = tsAtStart[d] /\ tsAnswer'[d] = tsAnswer[d]
    BY <1>1
  <1>4. \A d \in Tasks \cap {} : TsCall(d)'
    OBVIOUS
  <1> QED  BY <1>1, <1>2, <1>3, <1>4, TsStep

LEMMA TsNext == TsIInv /\ [Ts!Next]_(Ts!vars) => TsIInv'
  <1> SUFFICES ASSUME TsIInv, [Ts!Next]_(Ts!vars) PROVE TsIInv'
    OBVIOUS
  <1>1. CASE UNCHANGED Ts!vars
    BY <1>1 DEF Ts!vars, TsIInv, TsTypes, TsCacheOK, TsCall
  <1> QED  BY <1>1, TsStart, TsRespond, TsStore, TsLeave, TsWorld DEF Ts!Next

LEMMA TsResults == TsIInv => Ts!TypeOK /\ Ts!CacheCoherent /\ Ts!Fresh
  <1> SUFFICES ASSUME TsIInv PROVE Ts!TypeOK /\ Ts!CacheCoherent /\ Ts!Fresh
    OBVIOUS
  <1>1. Ts!TypeOK
    BY TsNames DEF TsIInv, TsTypes, Ts!TypeOK
  <1>2. Ts!CacheCoherent
    BY TsNames DEF TsIInv, TsCacheOK, Ts!CacheCoherent
  <1>3. Ts!Fresh
    <2> SUFFICES ASSUME NEW c \in Tasks, tsPc[c] = "returned"
                 PROVE  tsAnswer[c].body.version >= tsAtStart[c]
      BY DEF Ts!Fresh
    <2>1. /\ tsGet[c] \in Resources /\ tsAnswer[c] \in Answers
          /\ tsAnswer[c].body = Body(tsGet[c], tsAnswer[c].etag)
          /\ tsAnswer[c].etag >= tsAtStart[c]
      BY DEF TsIInv, TsTypes, TsCall
    <2>2. tsAnswer[c].etag \in Versions
      BY <2>1, AnswerParts
    <2> QED  BY <2>1, <2>2, BodyIs
  <1> QED  BY <1>1, <1>2, <1>3

-----------------------------------------------------------------------------
(* The three clients in one model: while one of them calls, the others     *)
(* wait, and see only that resources get newer.                            *)

Caches == RustIInv /\ GoIInv /\ TsIInv

(* No resource gets older. *)
Newer == VersionsOK /\ VersionsOK' /\ \A s \in Resources : version'[s] >= version[s]

LEMMA RustWaits == RustIInv /\ Newer /\ UNCHANGED rustVars => RustIInv'
  <1> SUFFICES ASSUME RustIInv, Newer, UNCHANGED rustVars PROVE RustIInv'
    OBVIOUS
  <1> USE DEF rustVars
  <1>1. VersionsOK' /\ \A s \in Resources : version'[s] >= version[s]
    BY DEF Newer
  <1>2. TypeOK'
    BY <1>1 DEF RustIInv, TypeOK, VersionsOK
  <1>3. CacheOK'
    BY <1>1, CacheStays DEF CacheOK, Paths
  <1>4. ASSUME NEW d \in Tasks PROVE CallOK(d)'
    BY <1>1, CallStays
  <1> QED  BY <1>2, <1>3, <1>4 DEF RustIInv

LEMMA GoWaits == GoIInv /\ Newer /\ UNCHANGED goVars => GoIInv'
  <1> SUFFICES ASSUME GoIInv, Newer, UNCHANGED goVars PROVE GoIInv'
    OBVIOUS
  <1> USE DEF goVars
  <1>1. VersionsOK' /\ \A s \in Resources : version'[s] >= version[s]
    BY DEF Newer
  <1>2. GoTypes' /\ GoHeader'
    BY <1>1 DEF GoIInv, GoTypes, VersionsOK, GoHeader, GoDeletes
  <1>3. GoCacheOK'
    BY <1>1, GoCacheStays DEF GoCacheOK, GoSound
  <1>4. ASSUME NEW d \in Tasks PROVE GoCall(d)' /\ GoAlone(d)'
    BY <1>1, GoCallStays, GoAloneStays
  <1> QED  BY <1>2, <1>3, <1>4 DEF GoIInv

LEMMA TsWaits == TsIInv /\ Newer /\ UNCHANGED tsVars => TsIInv'
  <1> SUFFICES ASSUME TsIInv, Newer, UNCHANGED tsVars PROVE TsIInv'
    OBVIOUS
  <1> USE DEF tsVars
  <1>1. VersionsOK' /\ \A s \in Resources : version'[s] >= version[s]
    BY DEF Newer
  <1>2. TsTypes' /\ TsCacheOK'
    BY <1>1 DEF TsIInv, TsTypes, TsCacheOK, VersionsOK
  <1>3. \A d \in Tasks \ {} : /\ tsPc'[d] = tsPc[d] /\ tsGet'[d] = tsGet[d]
                               /\ tsAtStart'[d] = tsAtStart[d] /\ tsAnswer'[d] = tsAnswer[d]
    OBVIOUS
  <1>4. \A d \in Tasks \cap {} : TsCall(d)'
    OBVIOUS
  <1> QED  BY <1>1, <1>2, <1>3, <1>4, TsStep

(* Whoever calls, resources only get newer. *)
LEMMA OnlyNewer == VersionsOK /\ (Next \/ Go!Next \/ Ts!Next) => Newer
  <1> SUFFICES ASSUME VersionsOK, Next \/ Go!Next \/ Ts!Next PROVE Newer
    OBVIOUS
  <1>1. UNCHANGED version \/ \E r \in Resources : Update(r)
    <2>1. CASE Next
      BY <2>1 DEF Next, Lookup, Ride, Lead, Respond, Finish, Leave, Expire, Origin
    <2>2. CASE Go!Next
      BY <2>2 DEF Go!Next, Go!Call, Go!Lookup, Go!Evict, Go!SetHeader, Go!Ride, Go!Run,
                  Go!CopyHeaders, Go!Respond, Go!RoundTripFails, Go!Land, Go!CleanUp,
                  Go!DelHeader, Go!Finish, Go!Leave, Go!Expire, Go!Clear, Go!Origin,
                  Go!Update, Update
    <2>3. CASE Ts!Next
      BY <2>3 DEF Ts!Next, Ts!Start, Ts!Respond, Ts!Store, Ts!Leave, Ts!Expire, Ts!Origin,
                  Ts!Update, Update
    <2> QED  BY <2>1, <2>2, <2>3
  <1> QED  BY <1>1, UpdateIs, SameVersions DEF Newer

(* The inductive invariants of the three GET paths hold together. *)
THEOREM CachesInvariance == MCSpec => []Caches
  <1>1. MCInit => Caches
    BY RustInit, GoInit, TsInit DEF MCInit, Caches
  <1>2. Caches /\ [MCNext]_<<sdk, vars, goVars, tsVars>> => Caches'
    <2> SUFFICES ASSUME Caches, [MCNext]_<<sdk, vars, goVars, tsVars>> PROVE Caches'
      OBVIOUS
    <2>0. VersionsOK
      BY DEF Caches, RustIInv, TypeOK, VersionsOK
    <2>1. CASE Next /\ UNCHANGED <<sdk, goVars, tsVars>>
      BY <2>0, <2>1, OnlyNewer, RustNext, GoWaits, TsWaits DEF Caches
    <2>2. CASE Go!Next /\ UNCHANGED <<sdk, rustVars, tsVars>>
      BY <2>0, <2>2, OnlyNewer, GoNext, RustWaits, TsWaits DEF Caches
    <2>3. CASE Ts!Next /\ UNCHANGED <<sdk, rustVars, goVars>>
      BY <2>0, <2>3, OnlyNewer, TsNext, RustWaits, GoWaits DEF Caches
    <2>4. CASE UNCHANGED <<sdk, vars, goVars, tsVars>>
      <3>1. Newer
        BY <2>0, <2>4, SameVersions DEF vars, Newer
      <3>2. UNCHANGED rustVars
        BY <2>4 DEF vars, rustVars
      <3> QED  BY <2>4, <3>1, <3>2, RustWaits, GoWaits, TsWaits DEF Caches
    <2> QED  BY <2>1, <2>2, <2>3, <2>4 DEF MCNext
  <1> QED  BY <1>1, <1>2, PTL DEF MCSpec

LEMMA RustResult ==
    ASSUME RustIInv, NEW t \in Tasks, pc[t] = "returned"
    PROVE  /\ get[t] \in Resources /\ AnswerOK(t) /\ answer[t] \in Answers
           /\ answer[t].status \in {200, 304}
           /\ answer[t].status = 200 =>
                 /\ result[t] = Body(get[t], answer[t].etag) /\ result[t] # Nothing
                 /\ result[t].of = get[t] /\ result[t].version = answer[t].etag
           /\ (answer[t].status = 304 /\ cached[t] # Nothing) =>
                 /\ result[t] = cached[t].data /\ result[t] # Nothing
                 /\ result[t].of \in Resources /\ result[t].version \in Nat
                 /\ Path(result[t].of) = Path(get[t])
           /\ (answer[t].status = 304 /\ cached[t] = Nothing) => result[t] = Nothing /\ dedupe
  <1>1. /\ CallOK(t) /\ AnswerOK(t) /\ get[t] \in Resources /\ answer[t] \in Answers
        /\ cached[t] \in Entries \cup {Nothing}
    BY DEF RustIInv, TypeOK, CallOK, AnswerOK
  <1>2. answer[t].status \in {200, 304} /\ answer[t].etag \in Versions
    BY <1>1, AnswerParts
  <1>3. answer[t].status = 200 =>
                 /\ result[t] = Body(get[t], answer[t].etag) /\ result[t] # Nothing
                 /\ result[t].of = get[t] /\ result[t].version = answer[t].etag
    <2>1. answer[t].status = 200 => result[t] = Body(get[t], answer[t].etag)
      BY <1>1 DEF CallOK, AnswerOK
    <2> QED  BY <1>1, <1>2, <2>1, BodyIs
  <1>4. cached[t] # Nothing => /\ cached[t].data # Nothing /\ cached[t].data.of \in Resources
                               /\ cached[t].data.version \in Nat
    <2>1. cached[t] # Nothing => /\ cached[t].data \in Bodies /\ cached[t].data.of \in Resources
                                 /\ cached[t].data.version \in Versions
      BY <1>1, EntryParts
    <2> QED  BY <2>1, NothingAssumption, VersionsAreNumbers
  <1> QED  BY <1>1, <1>2, <1>3, <1>4 DEF CallOK, AnswerOK

LEMMA RustResults == RustIInv => TypeOK /\ NoEmptyResult /\ NotOlderThanCached
  <1> SUFFICES ASSUME RustIInv PROVE TypeOK /\ NoEmptyResult /\ NotOlderThanCached
    OBVIOUS
  <1>1. TypeOK
    BY DEF RustIInv
  <1>2. NoEmptyResult
    BY RustResult DEF NoEmptyResult
  <1>3. NotOlderThanCached
    BY RustResult DEF NotOlderThanCached, AnswerOK
  <1> QED  BY <1>1, <1>2, <1>3

(* A Rust or Go call never returns a version older than the entry it       *)
(* revalidates, with and without deduplication, however calls, expiry and  *)
(* changes of the resource interleave.                                     *)
THEOREM NothingGoesBack == MCSpec => []NeverOlder
  <1>1. Caches => NeverOlder
    BY RustResults, GoResults DEF Caches, NeverOlder
  <1> QED  BY <1>1, CachesInvariance, PTL

(* The entries of the Go and the TypeScript cache pair the ETag and the    *)
(* body of one version of their own URL, the shared If-None-Match of the   *)
(* Go client is gone when no call is in progress, and the variables of the *)
(* three caches keep their types.                                          *)
THEOREM EntriesStayCoherent == MCSpec => []EntriesCoherent
  <1>1. Caches => EntriesCoherent
    BY RustResults, GoResults, TsResults DEF Caches, EntriesCoherent
  <1> QED  BY <1>1, CachesInvariance, PTL

(* A TypeScript call, leader or rider, and a Go call that no other         *)
(* overlaps return the resource as it was at or after their start; a Rust  *)
(* call without deduplication never returns the empty body of a 304.       *)
THEOREM ResultsAreFresh == MCSpec => []FreshResults
  <1>1. Caches => FreshResults
    BY RustResults, GoResults, TsResults DEF Caches, FreshResults
  <1> QED  BY <1>1, CachesInvariance, PTL

(* If no two resources share a path, that is, if no GET carries a query, a *)
(* Rust call returns the body of the resource it asked for.  (With queries *)
(* it may not: the cache is asked without them.)                           *)
THEOREM OwnBodyWithoutQueries ==
    ASSUME \A r, s \in Resources : Path(r) = Path(s) => r = s
    PROVE  Spec => []OwnBody
  <1>1. Init => RustIInv
    BY RustInit
  <1>2. RustIInv /\ [Next]_vars => RustIInv'
    BY RustNext
  <1>3. RustIInv => OwnBody
    BY RustResult DEF OwnBody
  <1> QED  BY <1>1, <1>2, <1>3, PTL DEF Spec
==============================================================================
