---------------------------- MODULE PayloadProofs ----------------------------
(***************************************************************************)
(* Proofs about event streams, pagination and validation in the generated  *)
(* SDKs: for any bodies cut in any way, any list and page size, any routes *)
(* and values.                                                             *)
(***************************************************************************)
EXTENDS MCPayloads, TLAPS, SequenceTheorems, WellFoundedInduction, NaturalsInduction

(* A set of natural numbers that is not empty has a least element. *)
LEMMA LeastElement ==
    ASSUME NEW S, S \subseteq Nat, S # {}
    PROVE  \E m \in S : \A k \in S : m <= k
  <1>1. IsWellFoundedOn(OpToRel(<, Nat), Nat)
    BY NatLessThanWellFounded
  <1>2. PICK m \in S : \A k \in S : ~(<<k, m>> \in OpToRel(<, Nat))
    BY <1>1, WFMin
  <1>3. \A k \in S : ~(k < m)
    BY <1>2 DEF OpToRel
  <1> QED  BY <1>3

LEMMA MinIsLeast ==
    ASSUME NEW S, S \subseteq Nat, S # {}
    PROVE  Min(S) \in S /\ \A k \in S : Min(S) <= k
  BY LeastElement DEF Min

LEMMA MinOfTwo ==
    ASSUME NEW a \in Nat, NEW b \in Nat
    PROVE  Min({a, b}) = IF a <= b THEN a ELSE b
  <1>1. Min({a, b}) \in {a, b} /\ \A k \in {a, b} : Min({a, b}) <= k
    BY MinIsLeast
  <1> QED  BY <1>1

(* What joining two sequences gives, element by element. *)
LEMMA JoinFacts ==
    ASSUME NEW S, NEW s \in Seq(S), NEW t \in Seq(S)
    PROVE  /\ s \o t \in Seq(S) /\ Len(s \o t) = Len(s) + Len(t)
           /\ \A i \in 1 .. Len(s) : (s \o t)[i] = s[i]
           /\ \A i \in 1 .. Len(t) : (s \o t)[Len(s) + i] = t[i]
  <1>1. s \o t \in Seq(S) /\ Len(s \o t) = Len(s) + Len(t)
    BY ConcatProperties
  <1>2. \A i \in 1 .. Len(s) : (s \o t)[i] = s[i]
    OBVIOUS
  <1>3. ASSUME NEW i \in 1 .. Len(t) PROVE (s \o t)[Len(s) + i] = t[i]
    OBVIOUS
  <1> QED  BY <1>1, <1>2, <1>3

(* The first `n` steps of a recursion over the natural numbers. *)
Runs(f, n, X, zero, step) ==
  /\ f \in [0 .. n -> X] /\ f[0] = zero
  /\ \A k \in 0 .. n : k # n => f[k + 1] = step[f[k]]

LEMMA RunsExist ==
    ASSUME NEW X, NEW zero \in X, NEW step \in [X -> X]
    PROVE  \A n \in Nat : \E f : Runs(f, n, X, zero, step)
  <1> DEFINE S == {n \in Nat : ~\E f : Runs(f, n, X, zero, step)}
  <1> SUFFICES ASSUME S # {} PROVE FALSE
    OBVIOUS
  <1>1. S \subseteq Nat
    OBVIOUS
  <1>2. PICK m \in S : \A k \in S : m <= k
    <2> HIDE DEF S
    <2> QED  BY <1>1, LeastElement
  <1>3. CASE m = 0
    <2> DEFINE f == [k \in 0 .. 0 |-> zero]
    <2>1. f \in [0 .. 0 -> X] /\ f[0] = zero
      OBVIOUS
    <2>2. \A k \in 0 .. 0 : k = 0
      OBVIOUS
    <2>3. Runs(f, 0, X, zero, step)
      BY <2>1, <2>2 DEF Runs
    <2> QED  BY <1>2, <1>3, <2>3
  <1>4. CASE m # 0
    <2>1. m - 1 \in Nat /\ ~(m <= m - 1) /\ m \in Nat
      BY <1>1, <1>2, <1>4
    <2>2. PICK g : Runs(g, m - 1, X, zero, step)
      BY <1>2, <2>1
    <2>3. /\ g \in [0 .. m - 1 -> X] /\ g[0] = zero
          /\ \A k \in 0 .. m - 1 : k # m - 1 => g[k + 1] = step[g[k]]
      BY <2>2 DEF Runs
    <2> DEFINE f == [k \in 0 .. m |-> IF k = m THEN step[g[m - 1]] ELSE g[k]]
    <2>4. step[g[m - 1]] \in X
      BY <2>1, <2>3
    <2>5. f \in [0 .. m -> X]
      <3>1. ASSUME NEW k \in 0 .. m PROVE (IF k = m THEN step[g[m - 1]] ELSE g[k]) \in X
        <4>1. CASE k = m  BY <2>4, <4>1
        <4>2. CASE k # m
          <5>1. k \in 0 .. m - 1  BY <2>1, <4>2
          <5> QED  BY <2>3, <4>2, <5>1
        <4> QED  BY <4>1, <4>2
      <3> QED  BY <3>1
    <2>6. f[0] = zero
      BY <1>4, <2>1, <2>3
    <2>7. ASSUME NEW k \in 0 .. m, k # m PROVE f[k + 1] = step[f[k]]
      <3>1. k \in 0 .. m - 1 /\ f[k] = g[k] /\ k + 1 \in 0 .. m
        BY <2>1, <2>7
      <3>2. CASE k + 1 = m
        <4>1. k = m - 1  BY <2>1, <3>2
        <4>2. f[k + 1] = step[g[m - 1]]  BY <3>1, <3>2
        <4> QED  BY <3>1, <4>1, <4>2
      <3>3. CASE k + 1 # m
        <4>1. k # m - 1  BY <2>1, <3>3
        <4>2. f[k + 1] = g[k + 1]  BY <3>1, <3>3
        <4> QED  BY <2>3, <3>1, <4>1, <4>2
      <3> QED  BY <3>2, <3>3
    <2>8. Runs(f, m, X, zero, step)
      <3> HIDE DEF f
      <3> QED  BY <2>5, <2>6, <2>7 DEF Runs
    <2> QED  BY <1>2, <2>8
  <1> QED  BY <1>3, <1>4

LEMMA RunsAgree ==
    ASSUME NEW X, NEW zero \in X, NEW step \in [X -> X], NEW n \in Nat, NEW f, NEW g,
           Runs(f, n, X, zero, step), Runs(g, n + 1, X, zero, step)
    PROVE  f[n] = g[n]
  <1> DEFINE S == {k \in 0 .. n : f[k] # g[k]}
  <1> SUFFICES ASSUME S # {} PROVE FALSE
    OBVIOUS
  <1>1. S \subseteq Nat
    OBVIOUS
  <1>2. PICK m \in S : \A k \in S : m <= k
    <2> HIDE DEF S
    <2> QED  BY <1>1, LeastElement
  <1>3. m \in 0 .. n /\ f[m] # g[m]
    BY <1>2
  <1>4. f[0] = g[0]
    BY DEF Runs
  <1>5. m # 0
    BY <1>3, <1>4
  <1>6. m - 1 \in 0 .. n /\ m - 1 # n /\ m - 1 \in 0 .. n + 1 /\ m - 1 # n + 1 /\ (m - 1) + 1 = m
        /\ ~(m <= m - 1)
    BY <1>3, <1>5
  <1>7. f[m - 1] = g[m - 1]
    BY <1>2, <1>6
  <1>8. f[m] = step[f[m - 1]]
    BY <1>6 DEF Runs
  <1>9. g[m] = step[g[m - 1]]
    BY <1>6 DEF Runs
  <1> QED  BY <1>3, <1>7, <1>8, <1>9

LEMMA NatRecursion ==
    ASSUME NEW X, NEW zero \in X, NEW step \in [X -> X]
    PROVE  \E f \in [Nat -> X] : f[0] = zero /\ \A n \in Nat : f[n + 1] = step[f[n]]
  <1> DEFINE run(n) == CHOOSE f : Runs(f, n, X, zero, step)
             F == [n \in Nat |-> run(n)[n]]
  <1>1. \A n \in Nat : Runs(run(n), n, X, zero, step)
    BY RunsExist
  <1> HIDE DEF run
  <1>2. \A n \in Nat : run(n) \in [0 .. n -> X] /\ run(n)[0] = zero
    BY <1>1 DEF Runs
  <1>3. F \in [Nat -> X] /\ F[0] = zero
    BY <1>2
  <1>4. ASSUME NEW n \in Nat PROVE F[n + 1] = step[F[n]]
    <2>1. n + 1 \in Nat /\ n \in 0 .. n + 1 /\ n # n + 1
      OBVIOUS
    <2>2. F[n + 1] = run(n + 1)[n + 1] /\ F[n] = run(n)[n]
      BY <2>1
    <2>3. Runs(run(n + 1), n + 1, X, zero, step)
      BY <1>1, <2>1
    <2>4. run(n + 1)[n + 1] = step[run(n + 1)[n]]
      BY <2>1, <2>3 DEF Runs
    <2>5. run(n)[n] = run(n + 1)[n]
      BY <1>1, <2>3, RunsAgree
    <2> QED  BY <2>2, <2>4, <2>5
  <1> HIDE DEF F
  <1> QED  BY <1>3, <1>4

-----------------------------------------------------------------------------
(* Event streams. *)

(* The first line of what has arrived is the first line of the whole. *)
LEMMA FirstLineStays ==
    ASSUME NEW b \in Seq(STRING), NEW r \in Seq(STRING), Contains(b, "\n")
    PROVE  /\ FirstNewline(b) \in 1 .. Len(b)
           /\ FirstNewline(b \o r) = FirstNewline(b)
           /\ Contains(b \o r, "\n")
  <1> DEFINE H == {k \in 1 .. Len(b) : b[k] = "\n"}
             T == {k \in 1 .. Len(b \o r) : (b \o r)[k] = "\n"}
  <1>1. /\ Len(b \o r) = Len(b) + Len(r) /\ Len(b) \in Nat /\ Len(r) \in Nat
        /\ \A k \in 1 .. Len(b) : (b \o r)[k] = b[k]
    OBVIOUS
  <1>2. H # {} /\ H \subseteq Nat /\ T \subseteq Nat /\ \A k \in H : k <= Len(b)
    BY DEF Contains
  <1>3. H \subseteq T /\ \A k \in T : k <= Len(b) => k \in H
    BY <1>1
  <1>4. Min(H) \in H /\ \A k \in H : Min(H) <= k
    BY <1>2, MinIsLeast
  <1>5. Min(T) \in T /\ \A k \in T : Min(T) <= k
    BY <1>2, <1>3, MinIsLeast
  <1> HIDE DEF H, T
  <1>6. Min(T) <= Min(H)
    BY <1>3, <1>4, <1>5
  <1>7. Min(T) \in H
    <2>1. Min(H) \in Nat /\ Min(T) \in Nat /\ Min(H) <= Len(b)
      BY <1>2, <1>4, <1>5
    <2>2. Min(T) <= Len(b)
      BY <2>1, <1>1, <1>6
    <2> QED  BY <2>2, <1>3, <1>5
  <1>8. Min(T) = Min(H)
    <2>1. Min(T) \in Nat /\ Min(H) \in Nat /\ Min(H) <= Min(T)
      BY <1>2, <1>4, <1>5, <1>7
    <2> QED  BY <2>1, <1>6
  <1> QED  BY <1>1, <1>3, <1>4, <1>8 DEF H, T, FirstNewline, Contains

(* What a text is after its first `k`. *)
LEMMA AfterFacts ==
    ASSUME NEW S, NEW t \in Seq(S), NEW k \in 0 .. Len(t)
    PROVE  /\ SubSeq(t, k + 1, Len(t)) \in Seq(S)
           /\ Len(SubSeq(t, k + 1, Len(t))) = Len(t) - k
           /\ \A i \in 1 .. Len(t) - k : SubSeq(t, k + 1, Len(t))[i] = t[k + i]
  OBVIOUS

(* Two parts that follow each other are the text they were cut from. *)
LEMMA PartsJoin ==
    ASSUME NEW S, NEW x \in Seq(S), NEW y \in Seq(S), NEW t \in Seq(S),
           Len(t) = Len(x) + Len(y),
           \A i \in 1 .. Len(x) : x[i] = t[i],
           \A i \in 1 .. Len(y) : y[i] = t[Len(x) + i]
    PROVE  x \o y = t
  <1>1. /\ x \o y \in Seq(S) /\ Len(x \o y) = Len(t)
        /\ \A i \in 1 .. Len(x) : (x \o y)[i] = x[i]
        /\ \A i \in 1 .. Len(y) : (x \o y)[Len(x) + i] = y[i]
    BY JoinFacts
  <1>2. ASSUME NEW i \in 1 .. Len(t) PROVE (x \o y)[i] = t[i]
    <2>1. CASE i <= Len(x)
      BY <2>1, <1>1
    <2>2. CASE ~(i <= Len(x))
      <3>1. i - Len(x) \in 1 .. Len(y) /\ i = Len(x) + (i - Len(x))
        BY <2>2
      <3> QED  BY <3>1, <1>1
    <2> QED  BY <2>1, <2>2
  <1> QED  BY <1>1, <1>2, SeqEqual

(* Cutting a prefix that has arrived off the whole. *)
LEMMA CutPrefix ==
    ASSUME NEW S, NEW b \in Seq(S), NEW r \in Seq(S), NEW k \in 1 .. Len(b)
    PROVE  /\ SubSeq(b \o r, 1, k - 1) = SubSeq(b, 1, k - 1)
           /\ SubSeq(b \o r, k + 1, Len(b \o r)) = SubSeq(b, k + 1, Len(b)) \o r
           /\ SubSeq(b, k + 1, Len(b)) \in Seq(S)
  <1>1. PICK w \in Seq(S) : w = b \o r
    BY JoinFacts
  <1>2. PICK s \in Seq(S) : s = SubSeq(b, k + 1, Len(b))
    <2>1. k \in 0 .. Len(b)  OBVIOUS
    <2>2. SubSeq(b, k + 1, Len(b)) \in Seq(S)  BY <2>1, AfterFacts
    <2> QED  BY <2>2, Zenon
  <1>3. PICK p \in Seq(S) : p = SubSeq(w, k + 1, Len(w))
    <2>1. k \in 0 .. Len(w)  BY <1>1, JoinFacts
    <2>2. SubSeq(w, k + 1, Len(w)) \in Seq(S)  BY <2>1, AfterFacts
    <2> QED  BY <2>2, Zenon
  <1>4. /\ Len(w) = Len(b) + Len(r)
        /\ \A i \in 1 .. Len(b) : w[i] = b[i]
        /\ \A i \in 1 .. Len(r) : w[Len(b) + i] = r[i]
    BY <1>1, JoinFacts
  <1>5. Len(s) = Len(b) - k /\ \A i \in 1 .. Len(b) - k : s[i] = b[k + i]
    BY <1>2, AfterFacts
  <1>6. Len(p) = Len(w) - k /\ \A i \in 1 .. Len(w) - k : p[i] = w[k + i]
    BY <1>3, <1>4, AfterFacts
  <1>7. SubSeq(w, 1, k - 1) = SubSeq(b, 1, k - 1)
    BY <1>4
  <1>8. s \o r = p
    <2>1. Len(p) = Len(s) + Len(r)
      BY <1>4, <1>5, <1>6
    <2>2. ASSUME NEW i \in 1 .. Len(s) PROVE s[i] = p[i]
      <3>1. i \in 1 .. Len(b) - k /\ i \in 1 .. Len(w) - k /\ k + i \in 1 .. Len(b)
        BY <1>4, <1>5
      <3>2. s[i] = b[k + i] /\ p[i] = w[k + i]
        BY <1>5, <1>6, <3>1
      <3>3. w[k + i] = b[k + i]
        BY <1>4, <3>1
      <3> QED  BY <3>2, <3>3
    <2>3. ASSUME NEW i \in 1 .. Len(r) PROVE r[i] = p[Len(s) + i]
      <3>1. Len(s) + i \in 1 .. Len(w) - k /\ k + (Len(s) + i) = Len(b) + i
        BY <1>4, <1>5
      <3> QED  BY <3>1, <1>4, <1>6
    <2> QED  BY <2>1, <2>2, <2>3, PartsJoin
  <1> QED  BY <1>1, <1>2, <1>3, <1>7, <1>8

(* The parts that a chunk makes are texts, and it changes nothing of the whole. *)
LEMMA ChunkTypes ==
    ASSUME NEW b \in Seq(STRING), NEW r \in Seq(STRING), NEW n \in 1 .. Len(r)
    PROVE  /\ b \o SubSeq(r, 1, n) \in Seq(STRING)
           /\ SubSeq(r, n + 1, Len(r)) \in Seq(STRING)
  <1>1. PICK x \in Seq(STRING) : x = SubSeq(r, 1, n)
    <2>1. SubSeq(r, 1, n) \in Seq(STRING)  OBVIOUS
    <2> QED  BY <2>1, Zenon
  <1>2. b \o x \in Seq(STRING)
    BY JoinFacts
  <1>3. n \in 0 .. Len(r)
    OBVIOUS
  <1>4. SubSeq(r, n + 1, Len(r)) \in Seq(STRING)
    BY <1>3, AfterFacts
  <1> QED  BY <1>1, <1>2, <1>4

LEMMA ChunkJoins ==
    ASSUME NEW b \in Seq(STRING), NEW r \in Seq(STRING), NEW n \in 1 .. Len(r)
    PROVE  (b \o SubSeq(r, 1, n)) \o SubSeq(r, n + 1, Len(r)) = b \o r
  <1>1. PICK x \in Seq(STRING) : x = SubSeq(r, 1, n)
    <2>1. SubSeq(r, 1, n) \in Seq(STRING)  OBVIOUS
    <2> QED  BY <2>1, Zenon
  <1>2. PICK y \in Seq(STRING) : y = SubSeq(r, n + 1, Len(r))
    <2>1. SubSeq(r, n + 1, Len(r)) \in Seq(STRING)  BY ChunkTypes
    <2> QED  BY <2>1, Zenon
  <1>3. PICK w \in Seq(STRING) : w = b \o x
    BY JoinFacts
  <1>4. PICK t \in Seq(STRING) : t = b \o r
    BY JoinFacts
  <1>5. Len(x) = n /\ \A i \in 1 .. n : x[i] = r[i]
    BY <1>1
  <1>6. Len(y) = Len(r) - n /\ \A i \in 1 .. Len(r) - n : y[i] = r[n + i]
    <2>1. n \in 0 .. Len(r)  OBVIOUS
    <2> QED  BY <1>2, <2>1, AfterFacts
  <1>7. /\ Len(w) = Len(b) + Len(x)
        /\ \A i \in 1 .. Len(b) : w[i] = b[i]
        /\ \A i \in 1 .. Len(x) : w[Len(b) + i] = x[i]
    BY <1>3, JoinFacts
  <1>8. /\ Len(t) = Len(b) + Len(r)
        /\ \A i \in 1 .. Len(b) : t[i] = b[i]
        /\ \A i \in 1 .. Len(r) : t[Len(b) + i] = r[i]
    BY <1>4, JoinFacts
  <1>9. Len(t) = Len(w) + Len(y)
    BY <1>5, <1>6, <1>7, <1>8
  <1>10. ASSUME NEW i \in 1 .. Len(w) PROVE w[i] = t[i]
    <2>1. CASE i <= Len(b)
      <3>1. i \in 1 .. Len(b)
        BY <2>1
      <3> QED  BY <1>7, <1>8, <3>1
    <2>2. CASE ~(i <= Len(b))
      <3>1. PICK j \in 1 .. n : i = Len(b) + j
        <4>1. i - Len(b) \in 1 .. n /\ i = Len(b) + (i - Len(b))
          BY <1>5, <1>7, <2>2
        <4> QED  BY <4>1
      <3>2. j \in 1 .. Len(x) /\ j \in 1 .. Len(r)
        BY <1>5
      <3> QED  BY <1>5, <1>7, <1>8, <3>1, <3>2
    <2> QED  BY <2>1, <2>2
  <1>11. ASSUME NEW i \in 1 .. Len(y) PROVE y[i] = t[Len(w) + i]
    <2>1. i \in 1 .. Len(r) - n /\ n + i \in 1 .. Len(r)
      BY <1>6
    <2>2. Len(w) + i = Len(b) + (n + i)
      BY <1>5, <1>7
    <2> QED  BY <1>6, <1>8, <2>1, <2>2
  <1>12. w \o y = t
    BY <1>9, <1>10, <1>11, PartsJoin
  <1> QED  BY <1>1, <1>2, <1>3, <1>4, <1>12

(* The line parsers hold texts. *)
TextsInv == sdk = "rust" \/ (buffer \in Seq(STRING) /\ rest \in Seq(STRING))

LEMMA TextsStart == MCInit => TextsInv
  BY BodiesAssumption DEF MCInit, StreamInit, TextsInv

LEMMA TextsStep == TextsInv /\ [MCNext]_allVars => TextsInv'
  <1> SUFFICES ASSUME TextsInv, [MCNext]_allVars PROVE TextsInv'
    OBVIOUS
  <1>1. CASE UNCHANGED streamVars
    BY <1>1 DEF streamVars, TextsInv
  <1>2. CASE sdk # "rust" /\ StreamNext
    <2> USE <1>2
    <2>0. buffer \in Seq(STRING) /\ rest \in Seq(STRING)
      BY DEF TextsInv
    <2>1. CASE TakeLine
      <3>1. FirstNewline(buffer) \in 1 .. Len(buffer)
        BY <2>0, <2>1, FirstLineStays DEF TakeLine
      <3>2. SubSeq(buffer, FirstNewline(buffer) + 1, Len(buffer)) \in Seq(STRING)
        BY <2>0, <3>1, CutPrefix
      <3> QED  BY <2>0, <2>1, <3>2 DEF TakeLine, TextsInv
    <2>2. CASE NeedMore \/ Break
      BY <2>0, <2>2 DEF NeedMore, Break, TextsInv
    <2>3. CASE GoEnd \/ TsEnd
      BY <2>0, <2>3 DEF GoEnd, TsEnd, TextsInv
    <2>4. ASSUME NEW n \in 1 .. Len(rest), LineChunk(n) PROVE TextsInv'
      <3>1. /\ buffer \o SubSeq(rest, 1, n) \in Seq(STRING)
            /\ SubSeq(rest, n + 1, Len(rest)) \in Seq(STRING)
        BY <2>0, ChunkTypes
      <3> QED  BY <2>4, <3>1 DEF LineChunk, TextsInv
    <2> QED  BY <2>1, <2>2, <2>3, <2>4 DEF StreamNext, DrainOne, RustEnd, RustChunk
  <1>3. CASE sdk = "rust" /\ StreamNext
    BY <1>3 DEF StreamNext, DrainOne, RustEnd, RustChunk, TakeLine, NeedMore, GoEnd, TsEnd,
                LineChunk, Break, TextsInv
  <1> QED  BY <1>1, <1>2, <1>3 DEF MCNext, allVars

(* The definitions of the instance that do not depend on the variables. *)
LEMMA SameWords ==
    /\ Whole!NoFields = NoFields
    /\ \A f : Whole!IsEvent(f) = IsEvent(f)
    /\ \A l : Whole!StripCr(l) = StripCr(l)
    /\ \A f, l : Whole!Field(f, l) = Field(f, l)
    /\ \A t : Whole!FirstNewline(t) = FirstNewline(t)
    /\ \A t : Whole!Contains(t, "\n") = Contains(t, "\n")
  <1>1. Whole!NoFields = NoFields
    BY DEF Whole!NoFields, NoFields
  <1>2. \A f : Whole!IsEvent(f) = IsEvent(f)
    BY DEF Whole!IsEvent, IsEvent
  <1>3. \A l : Whole!StripCr(l) = StripCr(l)
    BY DEF Whole!StripCr, StripCr, Whole!Last, Last, Whole!Front, Front
  <1>4. \A f, l : Whole!Field(f, l) = Field(f, l)
    BY DEF Whole!Field, Field
  <1>5. \A t : Whole!FirstNewline(t) = FirstNewline(t)
    BY DEF Whole!FirstNewline, FirstNewline, Whole!Min, Min
  <1>6. \A t : Whole!Contains(t, "\n") = Contains(t, "\n")
    BY DEF Whole!Contains, Contains
  <1> QED  BY <1>1, <1>2, <1>3, <1>4, <1>5, <1>6
WholeStep == sdk = "rust" \/ Whole!TakeLine \/ Whole!NeedMore \/ Whole!GoEnd
             \/ Whole!TsEnd \/ Whole!BreakOff

(* Each step of a line parser is a step of the parser that has the whole body, or
   changes nothing there. *)
LEMMA ChunkStep == TextsInv /\ [MCNext]_allVars => [WholeStep]_(Whole!streamVars)
  <1> SUFFICES ASSUME TextsInv, [MCNext]_allVars, sdk # "rust"
               PROVE  WholeStep \/ UNCHANGED Whole!streamVars
    BY DEF WholeStep
  <1> DEFINE bar == IF pc = "read" /\ rest # <<>> THEN "drain" ELSE pc
  <1>0. buffer \in Seq(STRING) /\ rest \in Seq(STRING)
    BY DEF TextsInv
  <1>1. CASE UNCHANGED streamVars
    BY <1>1 DEF streamVars, Whole!streamVars
  <1>2. CASE StreamNext
    <2>1. CASE TakeLine
      <3> DEFINE e == FirstNewline(buffer)
                 w == buffer \o rest
      <3>1. /\ e \in 1 .. Len(buffer) /\ FirstNewline(w) = e /\ Contains(w, "\n")
        BY <1>0, <2>1, FirstLineStays DEF TakeLine
      <3>2. /\ SubSeq(w, 1, e - 1) = SubSeq(buffer, 1, e - 1)
            /\ SubSeq(w, e + 1, Len(w)) = SubSeq(buffer, e + 1, Len(buffer)) \o rest
        BY <1>0, <3>1, CutPrefix
      <3>3. Whole!TakeLine
        <4>1. sdk # "rust" /\ bar = "drain" /\ Contains(w, "\n")
          BY <2>1, <3>1 DEF TakeLine
        <4>2. w' = SubSeq(w, e + 1, Len(w))
          BY <2>1, <3>2 DEF TakeLine
        <4>3. bar' = bar /\ UNCHANGED <<sdk, body>>
          BY <2>1 DEF TakeLine
        <4>4. LET line == StripCr(SubSeq(w, 1, e - 1))
              IN /\ out' = IF line = <<>> /\ IsEvent(current) THEN Append(out, current)
                           ELSE out
                 /\ current' = IF line = <<>> THEN NoFields ELSE Field(current, line)
          BY <2>1, <3>2 DEF TakeLine
        <4> HIDE DEF e
        <4> QED  BY <3>1, <4>1, <4>2, <4>3, <4>4, SameWords DEF Whole!TakeLine
      <3> QED  BY <3>3 DEF WholeStep
    <2>2. CASE NeedMore /\ rest # <<>>
      BY <2>2 DEF NeedMore, Whole!streamVars
    <2>3. CASE NeedMore /\ rest = <<>>
      <3>1. buffer \o rest = buffer /\ (buffer \o rest)' = buffer
        BY <1>0, <2>3, ConcatEmptySeq DEF NeedMore
      <3>2. Whole!NeedMore
        BY <2>3, <3>1, SameWords DEF NeedMore, Whole!NeedMore
      <3> QED  BY <3>2 DEF WholeStep
    <2>4. CASE GoEnd \/ TsEnd
      <3>1. buffer \o rest = buffer /\ (buffer \o rest)' = <<>>
        BY <1>0, <2>4, ConcatEmptySeq DEF GoEnd, TsEnd
      <3>2. CASE GoEnd
        <4>1. Whole!GoEnd
          BY <3>1, <3>2, SameWords DEF GoEnd, Whole!GoEnd
        <4> QED  BY <4>1 DEF WholeStep
      <3>3. CASE TsEnd
        <4>1. Whole!TsEnd
          BY <3>1, <3>3, SameWords DEF TsEnd, Whole!TsEnd
        <4> QED  BY <4>1 DEF WholeStep
      <3> QED  BY <2>4, <3>2, <3>3
    <2>5. ASSUME NEW n \in 1 .. Len(rest), LineChunk(n)
          PROVE  UNCHANGED Whole!streamVars
      <3>1. (buffer \o rest)' = buffer \o rest
        <4>1. /\ buffer' = buffer \o SubSeq(rest, 1, n)
              /\ rest' = SubSeq(rest, n + 1, Len(rest))
          BY <2>5 DEF LineChunk
        <4>2. (buffer \o SubSeq(rest, 1, n)) \o SubSeq(rest, n + 1, Len(rest)) = buffer \o rest
          BY <1>0, ChunkJoins
        <4> QED  BY <4>1, <4>2
      <3>2. rest # <<>>
        BY <1>0, <2>5
      <3>3. bar' = bar /\ UNCHANGED <<sdk, body, current, out>>
        BY <2>5, <3>2 DEF LineChunk
      <3> QED  BY <3>1, <3>3 DEF Whole!streamVars
    <2>6. CASE Break
      <3>1. Whole!BreakOff
        BY <2>6 DEF Break, Whole!BreakOff
      <3> QED  BY <3>1 DEF WholeStep
    <2>7. ~DrainOne /\ ~RustEnd /\ \A n : ~RustChunk(n)
      BY DEF DrainOne, RustEnd, RustChunk
    <2> QED  BY <1>2, <2>1, <2>2, <2>3, <2>4, <2>5, <2>6, <2>7 DEF StreamNext
  <1> QED  BY <1>1, <1>2 DEF MCNext, allVars

(* The refinement that MCPayloads.cfg checks (ChunksDoNotShow), for every body and
   every way to cut it: what an application sees of the Go and TypeScript
   streams does not depend on where the chunks end. *)
THEOREM ChunksHidden == MCSpec => ChunksDoNotShow
  <1>1. MCInit => /\ body \in Bodies /\ buffer \o rest = body /\ current = Whole!NoFields
                  /\ out = <<>> /\ pc = "drain"
    <2>1. \A b \in Bodies : <<>> \o b = b
      BY BodiesAssumption, ConcatEmptySeq
    <2> QED  BY <2>1, SameWords DEF MCInit, StreamInit
  <1>2. MCInit => /\ body \in Bodies /\ buffer \o rest = body /\ <<>> = <<>>
                  /\ current = Whole!NoFields /\ out = <<>>
                  /\ (IF pc = "read" /\ rest # <<>> THEN "drain" ELSE pc) = "drain"
    BY <1>1
  <1> QED  BY <1>2, TextsStart, TextsStep, ChunkStep, PTL
           DEF MCSpec, ChunksDoNotShow, Whole!AtOnce, WholeStep
-----------------------------------------------------------------------------
(* Pagination.  The invariant: what was handed over and what the fetched page
   holds lie before the rest of the list, and nothing was skipped on the way. *)
Increasing(s) == \A i, j \in DOMAIN s : i < j => s[i] < s[j]

Has(s, x) == \E i \in DOMAIN s : s[i] = x
Have(x) == Has(seen, x) \/ (walk = "handle" /\ Has(page, x))

PagesTypes ==
  /\ walk \in {"fetch", "handle", "done", "stopped"} /\ mode \in {"offset", "cursor"}
  /\ limit \in Nat /\ from \in Nat /\ next \in Nat /\ shrunk \in BOOLEAN
  /\ items \in Seq(Nat) /\ seen \in Seq(Nat) /\ page \in Seq(Nat)

ListOrdered ==
  /\ Increasing(items) /\ \A k \in DOMAIN items : items[k] > 0
  /\ items # <<>> => items[Len(items)] >= FirstItems

SeenOrdered ==
  /\ Increasing(seen)
  /\ \A i \in DOMAIN seen : seen[i] <= Newest
  /\ walk = "handle" =>
       /\ Increasing(page)
       /\ \A j \in DOMAIN page : page[j] <= Newest
       /\ \A i \in DOMAIN seen, j \in DOMAIN page : seen[i] < page[j]

Reach == IF walk = "handle" THEN from + Len(page) ELSE from

(* Offsets: the list up to Reach was taken, what follows comes later. *)
OffsetInv ==
  (mode = "offset" /\ walk \in {"fetch", "handle"}) =>
    /\ \A i \in DOMAIN seen, k \in DOMAIN items : k > Reach => seen[i] < items[k]
    /\ walk = "handle" =>
         \A j \in DOMAIN page, k \in DOMAIN items : k > Reach => page[j] < items[k]
    /\ ~shrunk => /\ Reach <= Len(items)
                  /\ \A k \in DOMAIN items : k <= Reach => Have(items[k])
    /\ (~shrunk /\ walk = "handle" /\ Len(page) < PageSize) =>
         \A k \in DOMAIN items : items[k] <= FirstItems => Have(items[k])

Edge == IF walk = "handle" THEN next ELSE from

(* Cursors: everything up to the cursor was taken; without a next cursor,
   everything there was. *)
CursorInv ==
  (mode = "cursor" /\ walk \in {"fetch", "handle"}) =>
    /\ (walk = "fetch" \/ next # 0) =>
         /\ \A i \in DOMAIN seen : seen[i] <= Edge
         /\ walk = "handle" => \A j \in DOMAIN page : page[j] <= Edge
         /\ \A k \in DOMAIN items :
              items[k] <= Edge /\ items[k] <= FirstItems => Have(items[k])
    /\ (walk = "handle" /\ next = 0) =>
         \A k \in DOMAIN items : items[k] <= FirstItems => Have(items[k])

DoneInv ==
  (walk = "done" /\ (mode = "cursor" \/ ~shrunk)) =>
    \A k \in DOMAIN items : items[k] <= FirstItems => Has(seen, items[k])

PagesInv == /\ PagesTypes /\ ListOrdered /\ SeenOrdered
            /\ OffsetInv /\ CursorInv /\ DoneInv
LEMMA SliceFacts ==
    ASSUME NEW s \in Seq(Nat), NEW a \in Nat, NEW m \in Nat, m <= Len(s)
    PROVE  /\ SubSeq(s, a + 1, m) \in Seq(Nat)
           /\ Len(SubSeq(s, a + 1, m)) = IF a + 1 <= m THEN m - a ELSE 0
           /\ \A j \in 1 .. Len(SubSeq(s, a + 1, m)) : SubSeq(s, a + 1, m)[j] = s[a + j]
  <1>1. CASE a + 1 <= m
    BY <1>1
  <1>2. CASE ~(a + 1 <= m)
    <2>1. SubSeq(s, a + 1, m) = <<>>
      BY <1>2
    <2> QED  BY <1>2, <2>1
  <1> QED  BY <1>1, <1>2

(* A page: what it holds and where it ends. *)
LEMMA PageFacts ==
    ASSUME items \in Seq(Nat), NEW a \in Nat, NEW n \in Nat
    PROVE  /\ PageAfter(a, n) \in Seq(Nat)
           /\ Len(PageAfter(a, n)) \in Nat
           /\ a >= Len(items) => Len(PageAfter(a, n)) = 0
           /\ a < Len(items) /\ a + n <= Len(items) => Len(PageAfter(a, n)) = n
           /\ a < Len(items) /\ a + n > Len(items) => a + Len(PageAfter(a, n)) = Len(items)
           /\ \A j \in 1 .. Len(PageAfter(a, n)) :
                a + j \in 1 .. Len(items) /\ PageAfter(a, n)[j] = items[a + j]
  <1> DEFINE m == Min({a + n, Len(items)})
             p == SubSeq(items, a + 1, m)
  <1>1. m = IF a + n <= Len(items) THEN a + n ELSE Len(items)
    BY MinOfTwo
  <1>2. m \in Nat /\ m <= Len(items)
    BY <1>1
  <1> HIDE DEF m
  <1>3. /\ p \in Seq(Nat) /\ Len(p) = (IF a + 1 <= m THEN m - a ELSE 0)
        /\ \A j \in 1 .. Len(p) : p[j] = items[a + j]
    BY <1>2, SliceFacts
  <1>4. PageAfter(a, n) = p
    BY DEF PageAfter, m
  <1> HIDE DEF p
  <1>5. /\ Len(p) \in Nat /\ a >= Len(items) => Len(p) = 0
        /\ a < Len(items) /\ a + n <= Len(items) => Len(p) = n
        /\ a < Len(items) /\ a + n > Len(items) => a + Len(p) = Len(items)
    BY <1>1, <1>2, <1>3
  <1>6. \A j \in 1 .. Len(p) : a + j \in 1 .. Len(items)
    BY <1>5
  <1> QED  BY <1>3, <1>4, <1>5, <1>6

(* Joining two increasing sequences, the first below the second. *)
LEMMA JoinOrdered ==
    ASSUME NEW s \in Seq(Nat), NEW t \in Seq(Nat), Increasing(s), Increasing(t),
           \A i \in DOMAIN s, j \in DOMAIN t : s[i] < t[j]
    PROVE  /\ s \o t \in Seq(Nat) /\ Increasing(s \o t)
           /\ \A x : Has(s \o t, x) <=> Has(s, x) \/ Has(t, x)
  <1>1. PICK w \in Seq(Nat) : w = s \o t
    BY JoinFacts
  <1>2. /\ Len(w) = Len(s) + Len(t)
        /\ \A i \in 1 .. Len(s) : w[i] = s[i]
        /\ \A i \in 1 .. Len(t) : w[Len(s) + i] = t[i]
    BY <1>1, JoinFacts
  <1>3. DOMAIN w = 1 .. Len(w) /\ DOMAIN s = 1 .. Len(s) /\ DOMAIN t = 1 .. Len(t)
    OBVIOUS
  <1>4. \A k \in DOMAIN w : \/ k \in DOMAIN s /\ w[k] = s[k]
                            \/ /\ k > Len(s) /\ k - Len(s) \in DOMAIN t
                               /\ w[k] = t[k - Len(s)]
    <2> TAKE k \in DOMAIN w
    <2>1. CASE k <= Len(s)
      BY <1>2, <1>3, <2>1
    <2>2. CASE ~(k <= Len(s))
      <3>1. k - Len(s) \in 1 .. Len(t) /\ k = Len(s) + (k - Len(s)) /\ k > Len(s)
        BY <1>2, <1>3, <2>2
      <3> QED  BY <1>2, <1>3, <3>1
    <2> QED  BY <2>1, <2>2
  <1>5. Increasing(w)
    <2> SUFFICES ASSUME NEW i \in DOMAIN w, NEW j \in DOMAIN w, i < j PROVE w[i] < w[j]
      BY DEF Increasing
    <2>1. i \in Nat /\ j \in Nat
      BY <1>3
    <2>2. CASE j \in DOMAIN s
      <3>1. i \in DOMAIN s
        BY <1>3, <2>1, <2>2
      <3> QED  BY <1>2, <1>3, <2>2, <3>1 DEF Increasing
    <2>3. CASE j \notin DOMAIN s
      <3>1. j > Len(s) /\ j - Len(s) \in DOMAIN t /\ w[j] = t[j - Len(s)]
        BY <1>4, <2>3
      <3>2. CASE i \in DOMAIN s
        BY <1>2, <1>3, <3>1, <3>2
      <3>3. CASE i \notin DOMAIN s
        <4>1. i - Len(s) \in DOMAIN t /\ w[i] = t[i - Len(s)]
          BY <1>4, <3>3
        <4>2. i - Len(s) < j - Len(s)
          BY <2>1
        <4> QED  BY <3>1, <4>1, <4>2 DEF Increasing
      <3> QED  BY <3>2, <3>3
    <2> QED  BY <2>2, <2>3
  <1>6. ASSUME NEW x PROVE Has(w, x) <=> Has(s, x) \/ Has(t, x)
    <2>1. Has(s, x) => Has(w, x)
      BY <1>2, <1>3 DEF Has
    <2>2. ASSUME Has(t, x) PROVE Has(w, x)
      <3>1. PICK j \in DOMAIN t : t[j] = x
        BY <2>2 DEF Has
      <3>2. Len(s) + j \in DOMAIN w /\ w[Len(s) + j] = x
        BY <1>2, <1>3, <3>1
      <3> QED  BY <3>2 DEF Has
    <2>3. ASSUME Has(w, x) PROVE Has(s, x) \/ Has(t, x)
      <3>1. PICK k \in DOMAIN w : w[k] = x
        BY <2>3 DEF Has
      <3> QED  BY <1>4, <3>1 DEF Has
    <2> QED  BY <2>1, <2>2, <2>3
  <1> QED  BY <1>1, <1>5, <1>6

(* A list with one more item, and with one item less. *)
LEMMA AppendFacts ==
    ASSUME NEW s \in Seq(Nat), NEW x \in Nat
    PROVE  /\ Append(s, x) \in Seq(Nat) /\ Len(Append(s, x)) = Len(s) + 1
           /\ DOMAIN Append(s, x) = 1 .. Len(s) + 1 /\ DOMAIN s = 1 .. Len(s)
           /\ \A i \in 1 .. Len(s) : Append(s, x)[i] = s[i]
           /\ Append(s, x)[Len(s) + 1] = x
  OBVIOUS

LEMMA ShiftFacts ==
    ASSUME NEW m \in Nat, NEW k \in 1 .. m, NEW i \in 1 .. m - 1, ~(i < k)
    PROVE  i - (k - 1) \in 1 .. m - k /\ k + (i - (k - 1)) = i + 1
  OBVIOUS

LEMMA RemoveFacts ==
    ASSUME NEW s \in Seq(Nat), NEW k \in DOMAIN s
    PROVE  /\ RemoveAt(s, k) \in Seq(Nat) /\ Len(RemoveAt(s, k)) = Len(s) - 1
           /\ DOMAIN RemoveAt(s, k) = 1 .. Len(s) - 1 /\ DOMAIN s = 1 .. Len(s)
           /\ \A i \in 1 .. Len(s) - 1 : RemoveAt(s, k)[i] = IF i < k THEN s[i] ELSE s[i + 1]
  <1>1. k \in 1 .. Len(s) /\ DOMAIN s = 1 .. Len(s)
    OBVIOUS
  <1>2. PICK x \in Seq(Nat) : x = SubSeq(s, 1, k - 1)
    <2>1. SubSeq(s, 1, k - 1) \in Seq(Nat)  BY <1>1
    <2> QED  BY <2>1, Zenon
  <1>3. PICK y \in Seq(Nat) : y = SubSeq(s, k + 1, Len(s))
    <2>1. SubSeq(s, k + 1, Len(s)) \in Seq(Nat)  BY <1>1
    <2> QED  BY <2>1, Zenon
  <1>4. Len(x) = k - 1 /\ \A i \in 1 .. k - 1 : x[i] = s[i]
    BY <1>1, <1>2
  <1>5. Len(y) = Len(s) - k /\ \A i \in 1 .. Len(s) - k : y[i] = s[k + i]
    <2>1. k \in 0 .. Len(s)  BY <1>1
    <2> QED  BY <1>3, <2>1, AfterFacts
  <1>6. PICK w \in Seq(Nat) : w = x \o y
    BY JoinFacts
  <1>7. /\ Len(w) = Len(x) + Len(y)
        /\ \A i \in 1 .. Len(x) : w[i] = x[i]
        /\ \A i \in 1 .. Len(y) : w[Len(x) + i] = y[i]
    BY <1>6, JoinFacts
  <1>8. Len(w) = Len(s) - 1 /\ DOMAIN w = 1 .. Len(s) - 1
    BY <1>1, <1>4, <1>5, <1>7
  <1>9. ASSUME NEW i \in 1 .. Len(s) - 1 PROVE w[i] = IF i < k THEN s[i] ELSE s[i + 1]
    <2>1. CASE i < k
      <3>1. i \in 1 .. Len(x) /\ i \in 1 .. k - 1
        BY <1>1, <1>4, <2>1
      <3>2. w[i] = s[i]
        BY <1>4, <1>7, <3>1
      <3> QED  BY <2>1, <3>2
    <2>2. CASE ~(i < k)
      <3>1. /\ i - (k - 1) \in 1 .. Len(s) - k /\ i = Len(x) + (i - (k - 1))
            /\ k + (i - (k - 1)) = i + 1
        <4>1. PICK m \in Nat : m = Len(s)
          OBVIOUS
        <4>2. Len(x) = k - 1 /\ k \in 1 .. m /\ i \in 1 .. m - 1
          BY <1>1, <1>4, <4>1
        <4>3. i - (k - 1) \in 1 .. m - k /\ k + (i - (k - 1)) = i + 1
          BY <2>2, <4>2, ShiftFacts, Zenon
        <4> QED  BY <4>1, <4>2, <4>3
      <3>2. w[i] = y[i - (k - 1)] /\ y[i - (k - 1)] = s[i + 1]
        BY <1>5, <1>7, <3>1
      <3> QED  BY <2>2, <3>2
    <2> QED  BY <2>1, <2>2
  <1> QED  BY <1>1, <1>2, <1>3, <1>6, <1>8, <1>9 DEF RemoveAt
LEMMA NewestFacts ==
    ASSUME items \in Seq(Nat), ListOrdered
    PROVE  /\ Newest \in Nat /\ FirstItems <= Newest
           /\ \A k \in DOMAIN items : items[k] <= Newest
  <1>1. CASE items = <<>>
    BY <1>1, PagesAssumption DEF Newest
  <1>2. CASE items # <<>>
    <2>1. Newest = items[Len(items)] /\ Len(items) \in DOMAIN items
      BY <1>2 DEF Newest, Last
    <2>2. \A k \in DOMAIN items : k = Len(items) \/ k < Len(items)
      OBVIOUS
    <2>3. \A k \in DOMAIN items : items[k] \in Nat
      OBVIOUS
    <2> QED  BY <1>2, <2>1, <2>2, <2>3, PagesAssumption DEF ListOrdered, Increasing
  <1> QED  BY <1>1, <1>2

(* The position a cursor names exists. *)
LEMMA PassedFacts ==
    ASSUME items \in Seq(Nat), from \in Nat, Increasing(items)
    PROVE  /\ Passed \in 0 .. Len(items)
           /\ \A j \in 1 .. Len(items) : j <= Passed <=> items[j] <= from
  <1> DEFINE S == {j \in 1 .. Len(items) : items[j] > from}
  <1>0. DOMAIN items = 1 .. Len(items) /\ \A j \in DOMAIN items : items[j] \in Nat
    OBVIOUS
  <1>1. \E k \in 0 .. Len(items) : \A j \in 1 .. Len(items) : j <= k <=> items[j] <= from
    <2>1. CASE S = {}
      <3>1. \A j \in 1 .. Len(items) : j <= Len(items) <=> items[j] <= from
        BY <1>0, <2>1
      <3> QED  BY <3>1
    <2>2. CASE S # {}
      <3>0. S \subseteq Nat
        OBVIOUS
      <3>1. PICK m \in S : \A k \in S : m <= k
        <4> HIDE DEF S
        <4> QED  BY <2>2, <3>0, LeastElement
      <3>2. m - 1 \in 0 .. Len(items)
        BY <3>1
      <3>3. ASSUME NEW j \in 1 .. Len(items) PROVE j <= m - 1 <=> items[j] <= from
        <4>1. CASE j < m
          <5>1. j \notin S
            BY <3>1, <4>1
          <5> QED  BY <1>0, <3>1, <4>1, <5>1
        <4>2. CASE ~(j < m)
          <5>1. j = m \/ m < j
            BY <3>1, <4>2
          <5>2. items[m] <= items[j]
            BY <1>0, <3>1, <5>1 DEF Increasing
          <5> QED  BY <1>0, <3>1, <4>2, <5>2
        <4> QED  BY <4>1, <4>2
      <3> QED  BY <3>2, <3>3
    <2> QED  BY <2>1, <2>2
  <1> QED  BY <1>1 DEF Passed

(* A page fetched after everything that was seen is in order. *)
LEMMA FetchOrdered ==
    ASSUME PagesTypes, ListOrdered, NEW a \in Nat, NEW n \in Nat,
           \A i \in DOMAIN seen, k \in DOMAIN items : k > a => seen[i] < items[k]
    PROVE  LET p == PageAfter(a, n)
           IN /\ p \in Seq(Nat) /\ Increasing(p) /\ \A j \in DOMAIN p : p[j] <= Newest
              /\ \A i \in DOMAIN seen, j \in DOMAIN p : seen[i] < p[j]
              /\ \A j \in DOMAIN p, k \in DOMAIN items : k > a + Len(p) => p[j] < items[k]
              /\ \A k \in DOMAIN items : k > a /\ k <= a + Len(p) => Has(p, items[k])
  <1>0. items \in Seq(Nat)
    BY DEF PagesTypes
  <1>1. PICK p \in Seq(Nat) : p = PageAfter(a, n)
    BY <1>0, PageFacts
  <1>2. \A j \in 1 .. Len(p) : a + j \in 1 .. Len(items) /\ p[j] = items[a + j]
    BY <1>0, <1>1, PageFacts
  <1>3. /\ DOMAIN p = 1 .. Len(p) /\ DOMAIN items = 1 .. Len(items)
        /\ Len(p) \in Nat /\ Len(items) \in Nat
    BY <1>0
  <1>4. \A i, j \in DOMAIN items : i < j => items[i] < items[j]
    BY DEF ListOrdered, Increasing
  <1>5. Increasing(p)
    <2> SUFFICES ASSUME NEW i \in DOMAIN p, NEW j \in DOMAIN p, i < j PROVE p[i] < p[j]
      BY DEF Increasing
    <2>1. a + i < a + j
      BY <1>3
    <2> QED  BY <1>2, <1>3, <1>4, <2>1
  <1>6. \A j \in DOMAIN p : p[j] <= Newest
    BY <1>0, <1>2, <1>3, NewestFacts
  <1>7. \A i \in DOMAIN seen, j \in DOMAIN p : seen[i] < p[j]
    <2> TAKE i \in DOMAIN seen, j \in DOMAIN p
    <2>1. a + j > a /\ a + j \in DOMAIN items
      BY <1>2, <1>3
    <2> QED  BY <1>2, <1>3, <2>1
  <1>8. \A j \in DOMAIN p, k \in DOMAIN items : k > a + Len(p) => p[j] < items[k]
    <2> TAKE j \in DOMAIN p, k \in DOMAIN items
    <2> HAVE k > a + Len(p)
    <2>1. a + j < k /\ a + j \in DOMAIN items
      BY <1>2, <1>3
    <2> QED  BY <1>2, <1>3, <1>4, <2>1
  <1>9. \A k \in DOMAIN items : k > a /\ k <= a + Len(p) => Has(p, items[k])
    <2> TAKE k \in DOMAIN items
    <2> HAVE k > a /\ k <= a + Len(p)
    <2>1. k - a \in DOMAIN p /\ a + (k - a) = k
      BY <1>3
    <2> QED  BY <1>2, <1>3, <2>1 DEF Has
  <1> QED  BY <1>1, <1>5, <1>6, <1>7, <1>8, <1>9
LEMMA PageSizeNat == PagesTypes => PageSize \in Nat
  BY PagesAssumption DEF PagesTypes, PageSize

LEMMA PagesStart == PagesInit => PagesInv
  <1> SUFFICES ASSUME PagesInit PROVE PagesInv
    OBVIOUS
  <1>1. /\ items \in Seq(Nat) /\ Len(items) = FirstItems /\ DOMAIN items = 1 .. FirstItems
        /\ \A k \in 1 .. FirstItems : items[k] = k
    BY PagesAssumption DEF PagesInit
  <1>2. PagesTypes
    <2>1. limit \in Nat /\ from \in Nat /\ next \in Nat /\ shrunk \in BOOLEAN
      BY PagesAssumption DEF PagesInit
    <2>2. seen \in Seq(Nat) /\ page \in Seq(Nat)
      BY DEF PagesInit
    <2> QED  BY <1>1, <2>1, <2>2 DEF PagesInit, PagesTypes
  <1>3. ListOrdered
    BY <1>1, PagesAssumption DEF ListOrdered, Increasing
  <1>4. SeenOrdered
    BY DEF PagesInit, SeenOrdered, Increasing
  <1>5. OffsetInv
    BY <1>1, PagesAssumption DEF PagesInit, OffsetInv, Reach
  <1>6. CursorInv
    BY <1>1, PagesAssumption DEF PagesInit, CursorInv, Edge
  <1>7. DoneInv
    BY DEF PagesInit, DoneInv
  <1> QED  BY <1>2, <1>3, <1>4, <1>5, <1>6, <1>7 DEF PagesInv

LEMMA FetchStep == PagesInv /\ Fetch => PagesInv'
  <1> SUFFICES ASSUME PagesInv, Fetch PROVE PagesInv'
    OBVIOUS
  <1>0. PagesTypes /\ ListOrdered /\ SeenOrdered
    BY DEF PagesInv
  <1>m. PICK m \in Nat : m = Len(items)
    BY <1>0 DEF PagesTypes
  <1>1. /\ items \in Seq(Nat) /\ from \in Nat /\ m = Len(items)
        /\ DOMAIN items = 1 .. m /\ \A k \in DOMAIN items : items[k] \in Nat
    BY <1>0, <1>m DEF PagesTypes
  <1>2. /\ walk = "fetch" /\ walk' = "handle"
        /\ UNCHANGED <<walkSdk, mode, limit, items, from, seen, shrunk>>
    BY DEF Fetch
  <1>3. /\ Passed \in 0 .. m
        /\ \A j \in 1 .. m : j <= Passed <=> items[j] <= from
    BY <1>0, <1>1, PassedFacts DEF ListOrdered
  <1>4. PICK a \in Nat : a = IF mode = "offset" THEN from ELSE Passed
    BY <1>1, <1>3
  <1>n. PICK n \in Nat : n = IF mode = "offset" THEN PageSize ELSE DefaultLimit
    BY <1>0, PageSizeNat, PagesAssumption
  <1>5. \A i \in DOMAIN seen, k \in DOMAIN items : k > a => seen[i] < items[k]
    <2>1. CASE mode = "offset"
      BY <1>2, <1>4, <2>1 DEF PagesInv, OffsetInv, Reach
    <2>2. CASE mode = "cursor"
      <3> TAKE i \in DOMAIN seen, k \in DOMAIN items
      <3> HAVE k > a
      <3>1. seen[i] <= from /\ seen[i] \in Nat
        BY <1>0, <1>2, <2>2 DEF PagesInv, CursorInv, Edge, PagesTypes
      <3>2. ~(items[k] <= from)
        BY <1>1, <1>3, <1>4, <2>2
      <3> QED  BY <1>1, <3>1, <3>2
    <2> QED  BY <1>0, <2>1, <2>2 DEF PagesTypes
  <1>6. PICK p \in Seq(Nat) : p = PageAfter(a, n)
    BY <1>1, <1>4, PageFacts
  <1>7. PICK l \in Nat : l = Len(p)
    OBVIOUS
  <1>8. /\ Increasing(p) /\ \A j \in DOMAIN p : p[j] <= Newest
        /\ \A i \in DOMAIN seen, j \in DOMAIN p : seen[i] < p[j]
        /\ \A j \in DOMAIN p, k \in DOMAIN items : k > a + l => p[j] < items[k]
        /\ \A k \in DOMAIN items : k > a /\ k <= a + l => Has(p, items[k])
    BY <1>0, <1>4, <1>5, <1>6, <1>7, FetchOrdered
  <1>9. /\ a >= m => l = 0
        /\ a < m /\ a + n <= m => l = n
        /\ a < m /\ a + n > m => a + l = m
        /\ \A j \in 1 .. l : a + j \in 1 .. m /\ p[j] = items[a + j]
        /\ DOMAIN p = 1 .. l
    <2>1. /\ Len(PageAfter(a, n)) \in Nat
          /\ a >= Len(items) => Len(PageAfter(a, n)) = 0
          /\ a < Len(items) /\ a + n <= Len(items) => Len(PageAfter(a, n)) = n
          /\ a < Len(items) /\ a + n > Len(items) => a + Len(PageAfter(a, n)) = Len(items)
          /\ \A j \in 1 .. Len(PageAfter(a, n)) :
                a + j \in 1 .. Len(items) /\ PageAfter(a, n)[j] = items[a + j]
      BY <1>1, PageFacts
    <2>2. PageAfter(a, n) = p /\ Len(p) = l /\ Len(items) = m /\ DOMAIN p = 1 .. Len(p)
      BY <1>1, <1>6, <1>7
    <2> QED  BY <2>1, <2>2
  <1>10. /\ page' = p /\ Newest' = Newest
         /\ \A x : Have(x)' <=> Has(seen, x) \/ Has(p, x)
         /\ \A x : Have(x) <=> Has(seen, x)
    BY <1>2, <1>4, <1>n, <1>6 DEF Fetch, OffsetPage, CursorPage, Have, Has, Newest
  <1>11. SeenOrdered'
    BY <1>0, <1>2, <1>8, <1>10 DEF SeenOrdered, Increasing
  <1>12. ListOrdered'
    BY <1>0, <1>2 DEF ListOrdered, Increasing
  <1>13. OffsetInv'
    <2> SUFFICES ASSUME mode = "offset" PROVE OffsetInv'
      BY <1>2 DEF OffsetInv
    <2>1. a = from /\ n = PageSize /\ Reach = from /\ Reach' = from + l
      BY <1>2, <1>4, <1>n, <1>7, <1>10 DEF Reach
    <2>2. \A i \in DOMAIN seen, k \in DOMAIN items : k > from + l => seen[i] < items[k]
      BY <1>1, <1>5, <2>1
    <2>3. ~shrunk => from <= m /\ \A k \in DOMAIN items : k <= from => Have(items[k])
      BY <1>1, <1>2, <2>1 DEF PagesInv, OffsetInv
    <2>4. ~shrunk => from + l <= m
      BY <1>1, <1>4, <1>9, <2>1, <2>3
    <2>5. ~shrunk => \A k \in DOMAIN items : k <= from + l => Have(items[k])'
      BY <1>1, <1>2, <1>8, <1>10, <2>1, <2>3
    <2>6. ~shrunk /\ l < PageSize => \A k \in DOMAIN items : Have(items[k])'
      <3> SUFFICES ASSUME ~shrunk, l < PageSize, NEW k \in DOMAIN items
                   PROVE  Have(items[k])'
        OBVIOUS
      <3>1. k <= from + l
        BY <1>1, <1>4, <1>9, <2>1, <2>3
      <3> QED  BY <2>5, <3>1
    <2>7. PageSize' = PageSize
      BY <1>2 DEF PageSize
    <2>8. OffsetInv' = ((mode = "offset" /\ walk' \in {"fetch", "handle"}) =>
            /\ \A i \in DOMAIN seen, k \in DOMAIN items : k > Reach' => seen[i] < items[k]
            /\ \A j \in DOMAIN p, k \in DOMAIN items : k > Reach' => p[j] < items[k]
            /\ ~shrunk => /\ Reach' <= m
                          /\ \A k \in DOMAIN items : k <= Reach' => Have(items[k])'
            /\ (~shrunk /\ l < PageSize) =>
                 \A k \in DOMAIN items : items[k] <= FirstItems => Have(items[k])')
      BY <1>1, <1>2, <1>7, <1>10, <2>7 DEF OffsetInv
    <2> QED  BY <1>8, <2>1, <2>2, <2>4, <2>5, <2>6, <2>8
  <1>14. CursorInv'
    <2> SUFFICES ASSUME mode = "cursor" PROVE CursorInv'
      BY <1>2 DEF CursorInv
    <2>1. a = Passed /\ n = DefaultLimit /\ n > 0
      BY <1>4, <1>n, PagesAssumption
    <2>2. /\ \A i \in DOMAIN seen : seen[i] <= from
          /\ \A k \in DOMAIN items : items[k] <= from /\ items[k] <= FirstItems => Have(items[k])
      BY <1>2 DEF PagesInv, CursorInv, Edge
    <2>3. next' = IF p # <<>> /\ Last(items) > Last(p) THEN Last(p) ELSE 0
      BY <1>2, <1>6, <2>1 DEF Fetch, CursorPage
    <2>4. \A k \in DOMAIN items : k <= a + l /\ items[k] <= FirstItems => Have(items[k])'
      BY <1>1, <1>2, <1>3, <1>8, <1>10, <2>1, <2>2
    <2>5. CASE p # <<>> /\ Last(items) > Last(p)
      <3>1. l \in DOMAIN p /\ Last(p) = p[l] /\ a + l \in DOMAIN items /\ p[l] = items[a + l]
        <4>1. l \in DOMAIN p /\ Last(p) = p[l]
          BY <1>7, <1>9, <2>5 DEF Last
        <4> QED  BY <1>1, <1>9, <4>1
      <3>2. next' = p[l] /\ p[l] > 0 /\ p[l] \in Nat
        BY <1>0, <1>1, <2>3, <2>5, <3>1 DEF ListOrdered
      <3>3. \A j \in DOMAIN p : p[j] <= p[l]
        <4> TAKE j \in DOMAIN p
        <4>1. j = l \/ j < l
          BY <1>9
        <4>2. p[j] \in Nat
          OBVIOUS
        <4> QED  BY <1>8, <3>1, <4>1, <4>2 DEF Increasing
      <3>4. ASSUME NEW i \in DOMAIN seen PROVE seen[i] <= p[l]
        <4>1. seen[i] < p[l]
          BY <1>8, <3>1
        <4>2. seen[i] \in Nat
          BY <1>0 DEF PagesTypes
        <4> QED  BY <3>2, <4>1, <4>2
      <3>5. \A k \in DOMAIN items : items[k] <= p[l] => k <= a + l
        <4> TAKE k \in DOMAIN items
        <4>1. CASE k > a + l
          <5>1. items[a + l] < items[k]
            BY <1>0, <3>1, <4>1 DEF ListOrdered, Increasing
          <5> QED  BY <1>1, <3>1, <5>1
        <4> QED  BY <1>1, <1>4, <4>1
      <3>6. /\ next' # 0 /\ Edge' = p[l]
        BY <1>2, <3>2 DEF Edge
      <3> QED  BY <1>2, <1>10, <2>4, <3>3, <3>4, <3>5, <3>6 DEF CursorInv
    <2>6. CASE ~(p # <<>> /\ Last(items) > Last(p))
      <3>1. next' = 0
        BY <2>3, <2>6
      <3>2. \A k \in DOMAIN items : k <= a + l
        <4>1. CASE p = <<>>
          <5>1. l = 0
            BY <1>7, <4>1
          <5>2. a >= m
            BY <1>1, <1>4, <1>9, <2>1, <5>1
          <5> QED  BY <1>1, <1>4, <5>1, <5>2
        <4>2. CASE p # <<>>
          <5>1. l \in DOMAIN p /\ Last(p) = p[l] /\ a + l \in DOMAIN items /\ p[l] = items[a + l]
            <6>1. l \in DOMAIN p /\ Last(p) = p[l]
              BY <1>7, <1>9, <4>2 DEF Last
            <6> QED  BY <1>1, <1>9, <6>1
          <5>2. m \in DOMAIN items /\ Last(items) = items[m]
            BY <1>1, <5>1 DEF Last
          <5>3. ~(a + l < m)
            BY <1>0, <1>1, <2>6, <4>2, <5>1, <5>2 DEF ListOrdered, Increasing
          <5> QED  BY <1>1, <1>4, <5>3
        <4> QED  BY <4>1, <4>2
      <3> QED  BY <1>2, <2>4, <3>1, <3>2 DEF CursorInv
    <2> QED  BY <2>5, <2>6
  <1>15. DoneInv'
    BY <1>2 DEF DoneInv
  <1>16. PagesTypes'
    <2>1. next' \in Nat
      <3>1. CASE p = <<>>
        BY <1>2, <1>4, <1>n, <1>6, <3>1 DEF Fetch, OffsetPage, CursorPage
      <3>2. CASE p # <<>>
        <4>1. Last(p) \in Nat
          BY <3>2 DEF Last
        <4> QED  BY <1>4, <1>n, <1>6, <4>1 DEF Fetch, OffsetPage, CursorPage
      <3> QED  BY <3>1, <3>2
    <2> QED  BY <1>0, <1>2, <1>10, <2>1 DEF PagesTypes
  <1> QED  BY <1>11, <1>12, <1>13, <1>14, <1>15, <1>16 DEF PagesInv
LEMMA HandleStep == PagesInv /\ (HandleOffset \/ HandleCursor) => PagesInv'
  <1> SUFFICES ASSUME PagesInv, HandleOffset \/ HandleCursor PROVE PagesInv'
    OBVIOUS
  <1>0. PagesTypes /\ ListOrdered /\ SeenOrdered
    BY DEF PagesInv
  <1>1. /\ walk = "handle" /\ walk' \in {"fetch", "done"} /\ seen' = seen \o page
        /\ UNCHANGED <<walkSdk, mode, limit, items, page, next, shrunk>>
    BY DEF HandleOffset, HandleCursor
  <1>2. /\ seen \in Seq(Nat) /\ page \in Seq(Nat) /\ Increasing(seen) /\ Increasing(page)
        /\ \A i \in DOMAIN seen, j \in DOMAIN page : seen[i] < page[j]
    BY <1>0, <1>1 DEF PagesTypes, SeenOrdered
  <1>3. PICK w \in Seq(Nat) : w = seen \o page
    BY <1>2, JoinOrdered
  <1>4. Increasing(w) /\ \A x : Has(w, x) <=> Has(seen, x) \/ Has(page, x)
    BY <1>2, <1>3, JoinOrdered
  <1>5. /\ seen' = w /\ Newest' = Newest
        /\ \A x : Have(x)' <=> Have(x)
        /\ \A x : Have(x) <=> Has(w, x)
    BY <1>1, <1>3, <1>4 DEF Have, Has, Newest
  <1>6. \A k \in DOMAIN w : \/ \E i \in DOMAIN seen : w[k] = seen[i]
                            \/ \E j \in DOMAIN page : w[k] = page[j]
    BY <1>4 DEF Has
  <1>7. SeenOrdered'
    <2>1. \A k \in DOMAIN w : w[k] <= Newest
      BY <1>0, <1>1, <1>6 DEF SeenOrdered
    <2> QED  BY <1>1, <1>4, <1>5, <2>1 DEF SeenOrdered, Increasing
  <1>8. ListOrdered'
    BY <1>0, <1>1 DEF ListOrdered, Increasing
  <1>9. CASE HandleOffset
    <2>1. mode = "offset" /\ from \in Nat /\ Len(page) \in Nat /\ Reach = from + Len(page)
      BY <1>0, <1>1, <1>2, <1>9 DEF HandleOffset, PagesTypes, Reach
    <2>2. CASE Len(page) < PageSize
      <3>1. walk' = "done" /\ from' = from
        BY <1>9, <2>2 DEF HandleOffset
      <3>2. ~shrunk => \A k \in DOMAIN items : items[k] <= FirstItems => Have(items[k])
        BY <1>1, <2>1, <2>2 DEF PagesInv, OffsetInv
      <3>3. DoneInv'
        <4>1. \A x : Has(w, x) = Has(seen', x)
          BY <1>5
        <4> QED  BY <1>1, <1>5, <2>1, <3>1, <3>2, <4>1 DEF DoneInv, Has
      <3>4. OffsetInv' /\ CursorInv'
        BY <3>1 DEF OffsetInv, CursorInv
      <3>5. PagesTypes'
        BY <1>0, <1>1, <1>5, <3>1 DEF PagesTypes
      <3> QED  BY <1>7, <1>8, <3>3, <3>4, <3>5 DEF PagesInv
    <2>3. CASE ~(Len(page) < PageSize)
      <3>1. walk' = "fetch" /\ from' = from + Len(page)
        BY <1>9, <2>3 DEF HandleOffset
      <3>2. Reach' = Reach
        BY <2>1, <3>1 DEF Reach
      <3>3. \A k \in DOMAIN w, h \in DOMAIN items : h > Reach => w[k] < items[h]
        BY <1>1, <1>6, <2>1 DEF PagesInv, OffsetInv
      <3>4. ~shrunk => /\ Reach <= Len(items)
                       /\ \A k \in DOMAIN items : k <= Reach => Have(items[k])
        BY <1>1, <2>1 DEF PagesInv, OffsetInv
      <3>5. OffsetInv'
        BY <1>1, <1>5, <3>1, <3>2, <3>3, <3>4 DEF OffsetInv
      <3>6. CursorInv' /\ DoneInv'
        BY <1>1, <2>1, <3>1 DEF CursorInv, DoneInv
      <3>7. PagesTypes'
        BY <1>0, <1>1, <1>5, <2>1, <3>1 DEF PagesTypes
      <3> QED  BY <1>7, <1>8, <3>5, <3>6, <3>7 DEF PagesInv
    <2> QED  BY <2>2, <2>3
  <1>10. CASE HandleCursor
    <2>1. mode = "cursor" /\ from \in Nat /\ next \in Nat /\ Edge = next
      BY <1>0, <1>1, <1>10 DEF HandleCursor, PagesTypes, Edge
    <2>2. CASE next = 0
      <3>1. walk' = "done" /\ from' = from
        BY <1>10, <2>2 DEF HandleCursor
      <3>2. \A k \in DOMAIN items : items[k] <= FirstItems => Have(items[k])
        BY <1>1, <2>1, <2>2 DEF PagesInv, CursorInv
      <3>3. DoneInv'
        <4>1. \A x : Has(w, x) = Has(seen', x)
          BY <1>5
        <4> QED  BY <1>1, <1>5, <2>1, <3>1, <3>2, <4>1 DEF DoneInv, Has
      <3>4. OffsetInv' /\ CursorInv'
        BY <3>1 DEF OffsetInv, CursorInv
      <3>5. PagesTypes'
        BY <1>0, <1>1, <1>5, <3>1 DEF PagesTypes
      <3> QED  BY <1>7, <1>8, <3>3, <3>4, <3>5 DEF PagesInv
    <2>3. CASE next # 0
      <3>1. walk' = "fetch" /\ from' = next /\ Edge' = next
        BY <1>10, <2>3 DEF HandleCursor, Edge
      <3>2. /\ \A k \in DOMAIN w : w[k] <= next
            /\ \A k \in DOMAIN items :
                 items[k] <= next /\ items[k] <= FirstItems => Have(items[k])
        BY <1>1, <1>6, <2>1, <2>3 DEF PagesInv, CursorInv
      <3>3. CursorInv'
        BY <1>1, <1>5, <3>1, <3>2 DEF CursorInv
      <3>4. OffsetInv' /\ DoneInv'
        BY <1>1, <2>1, <3>1 DEF OffsetInv, DoneInv
      <3>5. PagesTypes'
        BY <1>0, <1>1, <1>5, <2>1, <3>1 DEF PagesTypes
      <3> QED  BY <1>7, <1>8, <3>3, <3>4, <3>5 DEF PagesInv
    <2> QED  BY <2>2, <2>3
  <1> QED  BY <1>9, <1>10

LEMMA StopStep == PagesInv /\ (Stop \/ HandleFails) => PagesInv'
  <1> SUFFICES ASSUME PagesInv, Stop \/ HandleFails PROVE PagesInv'
    OBVIOUS
  <1>1. /\ walk' = "stopped"
        /\ UNCHANGED <<walkSdk, mode, limit, items, from, seen, page, next, shrunk>>
    BY DEF Stop, HandleFails
  <1>2. Newest' = Newest
    BY <1>1 DEF Newest
  <1>3. PagesTypes'
    BY <1>1 DEF PagesInv, PagesTypes
  <1>4. ListOrdered' /\ SeenOrdered'
    BY <1>1, <1>2 DEF PagesInv, ListOrdered, SeenOrdered, Increasing
  <1> QED  BY <1>1, <1>3, <1>4 DEF PagesInv, OffsetInv, CursorInv, DoneInv

LEMMA AppendStep == PagesInv /\ AppendItem => PagesInv'
  <1> SUFFICES ASSUME PagesInv, AppendItem PROVE PagesInv'
    OBVIOUS
  <1>0. /\ PagesTypes /\ ListOrdered /\ SeenOrdered
        /\ items \in Seq(Nat) /\ seen \in Seq(Nat) /\ page \in Seq(Nat)
        /\ from \in Nat /\ next \in Nat
    BY DEF PagesInv, PagesTypes
  <1>1. /\ walk \in {"fetch", "handle"}
        /\ UNCHANGED <<walkSdk, mode, limit, from, seen, walk, page, next, shrunk>>
    BY DEF AppendItem
  <1>2. /\ Newest \in Nat /\ FirstItems <= Newest
        /\ \A k \in DOMAIN items : items[k] <= Newest
    BY <1>0, NewestFacts
  <1>3. PICK m \in Nat : m = Len(items)
    BY <1>0
  <1>4. PICK x \in Nat : x = Newest + 1
    BY <1>2
  <1>5. PICK s \in Seq(Nat) : s = Append(items, x)
    <2>1. Append(items, x) \in Seq(Nat)  BY <1>0, AppendFacts
    <2> QED  BY <2>1, Zenon
  <1>6. /\ items' = s /\ Len(s) = m + 1 /\ s[m + 1] = x
        /\ DOMAIN s = 1 .. m + 1 /\ DOMAIN items = 1 .. m
        /\ \A i \in 1 .. m : s[i] = items[i]
        /\ \A i \in 1 .. m : items[i] \in Nat
    BY <1>0, <1>3, <1>4, <1>5, AppendFacts DEF AppendItem
  <1>7. Newest' = x /\ Newest < x /\ FirstItems < x
    BY <1>2, <1>4, <1>6, PagesAssumption DEF Newest, Last
  <1>8. \A k \in DOMAIN s : \/ k \in DOMAIN items /\ s[k] = items[k]
                            \/ k = m + 1 /\ s[k] = x
    BY <1>6
  <1>9. ListOrdered'
    <2>1. Increasing(s)
      <3> SUFFICES ASSUME NEW i \in DOMAIN s, NEW j \in DOMAIN s, i < j PROVE s[i] < s[j]
        BY DEF Increasing
      <3>1. i \in DOMAIN items /\ s[i] = items[i]
        BY <1>6
      <3>2. CASE j \in DOMAIN items
        BY <1>0, <1>6, <3>1, <3>2 DEF ListOrdered, Increasing
      <3>3. CASE j \notin DOMAIN items
        BY <1>2, <1>6, <1>7, <1>8, <3>1, <3>3
      <3> QED  BY <3>2, <3>3
    <2>2. \A k \in DOMAIN s : s[k] > 0
      <3>1. x > 0
        BY <1>2, <1>4
      <3>2. \A k \in DOMAIN items : items[k] > 0
        BY <1>0 DEF ListOrdered
      <3> QED  BY <1>8, <3>1, <3>2
    <2>3. s[Len(s)] >= FirstItems
      BY <1>6, <1>7, PagesAssumption
    <2> QED  BY <1>6, <2>1, <2>2, <2>3 DEF ListOrdered, Increasing
  <1>10. /\ \A i \in DOMAIN seen : seen[i] <= Newest /\ seen[i] \in Nat
         /\ walk = "handle" => \A j \in DOMAIN page : page[j] <= Newest /\ page[j] \in Nat
    BY <1>0 DEF SeenOrdered
  <1>11. SeenOrdered'
    BY <1>0, <1>1, <1>2, <1>7, <1>10 DEF SeenOrdered, Increasing
  <1>12. /\ \A y : Have(y)' = Have(y)
         /\ Reach' = Reach /\ Edge' = Edge /\ PageSize' = PageSize /\ Reach \in Nat
    BY <1>0, <1>1 DEF Have, Has, Reach, Edge, PageSize
  <1>13. OffsetInv'
    <2> SUFFICES ASSUME mode = "offset" PROVE OffsetInv'
      BY <1>1 DEF OffsetInv
    <2>1. \A i \in DOMAIN seen, k \in DOMAIN s : k > Reach => seen[i] < s[k]
      BY <1>1, <1>2, <1>7, <1>8, <1>10 DEF PagesInv, OffsetInv
    <2>2. walk = "handle" => \A j \in DOMAIN page, k \in DOMAIN s : k > Reach => page[j] < s[k]
      BY <1>1, <1>2, <1>7, <1>8, <1>10 DEF PagesInv, OffsetInv
    <2>3. ~shrunk => /\ Reach <= m + 1 /\ Reach <= m
                     /\ \A k \in DOMAIN items : k <= Reach => Have(items[k])
      BY <1>1, <1>3, <1>12 DEF PagesInv, OffsetInv
    <2>4. ~shrunk => \A k \in DOMAIN s : k <= Reach => Have(s[k])
      BY <1>8, <1>12, <2>3
    <2>5. (~shrunk /\ walk = "handle" /\ Len(page) < PageSize) =>
             \A k \in DOMAIN s : s[k] <= FirstItems => Have(s[k])
      BY <1>1, <1>7, <1>8, PagesAssumption DEF PagesInv, OffsetInv
    <2> QED  BY <1>1, <1>6, <1>12, <2>1, <2>2, <2>3, <2>4, <2>5 DEF OffsetInv
  <1>14. CursorInv'
    <2> SUFFICES ASSUME mode = "cursor" PROVE CursorInv'
      BY <1>1 DEF CursorInv
    <2>1. \A k \in DOMAIN s : s[k] <= FirstItems => k \in DOMAIN items /\ s[k] = items[k]
      BY <1>7, <1>8, PagesAssumption
    <2> QED  BY <1>1, <1>6, <1>12, <2>1 DEF PagesInv, CursorInv
  <1>15. PagesTypes' /\ DoneInv'
    BY <1>0, <1>1, <1>6 DEF PagesTypes, DoneInv
  <1> QED  BY <1>9, <1>11, <1>13, <1>14, <1>15 DEF PagesInv
LEMMA DeleteStep ==
    ASSUME PagesInv, NEW d \in DOMAIN items, DeleteItem(d)
    PROVE  PagesInv'
  <1>0. /\ PagesTypes /\ ListOrdered /\ SeenOrdered
        /\ items \in Seq(Nat) /\ seen \in Seq(Nat) /\ page \in Seq(Nat)
        /\ from \in Nat /\ next \in Nat
    BY DEF PagesInv, PagesTypes
  <1>1. /\ walk \in {"fetch", "handle"} /\ shrunk' = TRUE /\ items[d] < FirstItems
        /\ UNCHANGED <<walkSdk, mode, limit, from, seen, walk, page, next>>
    BY DEF DeleteItem
  <1>3. PICK m \in Nat : m = Len(items)
    BY <1>0
  <1>5. PICK s \in Seq(Nat) : s = RemoveAt(items, d)
    <2>1. RemoveAt(items, d) \in Seq(Nat)  BY <1>0, RemoveFacts
    <2> QED  BY <2>1, Zenon
  <1>6. /\ items' = s /\ Len(s) = m - 1 /\ d \in 1 .. m
        /\ DOMAIN s = 1 .. m - 1 /\ DOMAIN items = 1 .. m
        /\ \A i \in 1 .. m - 1 : s[i] = IF i < d THEN items[i] ELSE items[i + 1]
        /\ \A i \in 1 .. m : items[i] \in Nat
    <2>1. /\ Len(RemoveAt(items, d)) = Len(items) - 1
          /\ DOMAIN RemoveAt(items, d) = 1 .. Len(items) - 1 /\ DOMAIN items = 1 .. Len(items)
          /\ \A i \in 1 .. Len(items) - 1 :
               RemoveAt(items, d)[i] = IF i < d THEN items[i] ELSE items[i + 1]
      BY <1>0, RemoveFacts
    <2>2. RemoveAt(items, d) = s /\ Len(items) = m
      BY <1>3, <1>5
    <2>3. items' = s
      BY <2>2 DEF DeleteItem
    <2>4. \A i \in DOMAIN items : items[i] \in Nat
      BY <1>0
    <2> QED  BY <2>1, <2>2, <2>3, <2>4
  <1>7. items[m] >= FirstItems /\ d < m
    <2>1. items # <<>>
      BY <1>0, <1>6
    <2>2. items[m] >= FirstItems
      BY <1>0, <1>3, <2>1 DEF ListOrdered
    <2>3. d # m
      BY <1>1, <1>6, <2>2, PagesAssumption
    <2> QED  BY <1>6, <2>2, <2>3
  <1>8. ASSUME NEW k \in DOMAIN s
        PROVE  \E h \in DOMAIN items : /\ s[k] = items[h] /\ h >= k
                                       /\ h = (IF k < d THEN k ELSE k + 1)
    <2>1. CASE k < d
      BY <1>6, <2>1
    <2>2. CASE ~(k < d)
      <3>1. k + 1 \in DOMAIN items /\ s[k] = items[k + 1] /\ k + 1 >= k
        BY <1>6, <2>2
      <3> QED  BY <2>2, <3>1
    <2> QED  BY <2>1, <2>2
  <1>9. ListOrdered'
    <2>1. Increasing(s)
      <3> SUFFICES ASSUME NEW i \in DOMAIN s, NEW j \in DOMAIN s, i < j PROVE s[i] < s[j]
        BY DEF Increasing
      <3>1. PICK h \in DOMAIN items : s[i] = items[h] /\ h = (IF i < d THEN i ELSE i + 1)
        BY <1>8
      <3>2. PICK g \in DOMAIN items : s[j] = items[g] /\ g = (IF j < d THEN j ELSE j + 1)
        BY <1>8
      <3>3. h < g
        <4>1. DOMAIN s = 1 .. m - 1 /\ d \in 1 .. m
          BY <1>6, Zenon
        <4>2. i \in Nat /\ j \in Nat /\ d \in Nat
          BY <4>1
        <4> QED  BY <3>1, <3>2, <4>2
      <3> QED  BY <1>0, <3>1, <3>2, <3>3 DEF ListOrdered, Increasing
    <2>2. \A k \in DOMAIN s : s[k] > 0
      BY <1>0, <1>8 DEF ListOrdered
    <2>3. s[Len(s)] = items[m] /\ Len(s) \in DOMAIN s
      BY <1>6, <1>7
    <2> QED  BY <1>6, <1>7, <2>1, <2>2, <2>3 DEF ListOrdered, Increasing
  <1>10. Newest' = Newest
    <2>1. s # <<>> /\ items # <<>>
      BY <1>0, <1>6, <1>7
    <2>2. Last(s) = Last(items)
      BY <1>3, <1>6, <1>7 DEF Last
    <2> QED  BY <1>6, <2>1, <2>2 DEF Newest
  <1>11. SeenOrdered'
    BY <1>0, <1>1, <1>10 DEF SeenOrdered, Increasing
  <1>12. /\ \A y : Have(y)' = Have(y)
         /\ Reach' = Reach /\ Edge' = Edge /\ PageSize' = PageSize /\ Reach \in Nat
    BY <1>0, <1>1 DEF Have, Has, Reach, Edge, PageSize
  <1>13. OffsetInv'
    <2> SUFFICES ASSUME mode = "offset" PROVE OffsetInv'
      BY <1>1 DEF OffsetInv
    <2>1. \A k \in DOMAIN s : k > Reach => \E h \in DOMAIN items : s[k] = items[h] /\ h > Reach
      <3> TAKE k \in DOMAIN s
      <3> HAVE k > Reach
      <3>1. PICK h \in DOMAIN items : s[k] = items[h] /\ h >= k
        BY <1>8
      <3>2. h > Reach
        BY <1>6, <1>12, <3>1
      <3> QED  BY <3>1, <3>2
    <2>2. \A i \in DOMAIN seen, k \in DOMAIN s : k > Reach => seen[i] < s[k]
      BY <1>1, <2>1 DEF PagesInv, OffsetInv
    <2>3. walk = "handle" => \A j \in DOMAIN page, k \in DOMAIN s : k > Reach => page[j] < s[k]
      BY <1>1, <2>1 DEF PagesInv, OffsetInv
    <2> QED  BY <1>1, <1>6, <1>12, <2>2, <2>3 DEF OffsetInv
  <1>14. CursorInv'
    <2> SUFFICES ASSUME mode = "cursor" PROVE CursorInv'
      BY <1>1 DEF CursorInv
    <2>1. \A k \in DOMAIN s : \E h \in DOMAIN items : s[k] = items[h]
      BY <1>8
    <2> QED  BY <1>1, <1>6, <1>12, <2>1 DEF PagesInv, CursorInv
  <1>15. PagesTypes' /\ DoneInv'
    BY <1>0, <1>1, <1>6 DEF PagesTypes, DoneInv
  <1> QED  BY <1>9, <1>11, <1>13, <1>14, <1>15 DEF PagesInv

LEMMA PagesStep == PagesInv /\ [PagesNext]_pageVars => PagesInv'
  <1>1. PagesInv /\ UNCHANGED pageVars => PagesInv'
    BY DEF pageVars, PagesInv, PagesTypes, ListOrdered, SeenOrdered, OffsetInv, CursorInv,
           DoneInv, Increasing, Has, Have, Reach, Edge, PageSize, Newest
  <1> QED  BY <1>1, FetchStep, HandleStep, StopStep, AppendStep, DeleteStep DEF PagesNext

LEMMA PagesMean == PagesInv => PagesComplete
  <1> SUFFICES ASSUME PagesInv PROVE PagesComplete
    OBVIOUS
  <1>1. \A i, j \in DOMAIN seen : i < j => seen[i] < seen[j]
    BY DEF PagesInv, SeenOrdered, Increasing
  <1>2. ASSUME walk = "done", mode = "cursor" \/ ~shrunk,
               NEW x \in 1 .. FirstItems \cap ToSet(items)
        PROVE  x \in ToSet(seen)
    <2>1. PICK k \in DOMAIN items : items[k] = x
      BY <1>2 DEF ToSet
    <2>2. x <= FirstItems
      BY PagesAssumption
    <2>3. Has(seen, x)
      BY <1>2, <2>1, <2>2 DEF PagesInv, DoneInv
    <2> QED  BY <2>3 DEF Has, ToSet
  <1> QED  BY <1>1, <1>2 DEF PagesComplete

(* PagesComplete for every list, page size and interleaving with other clients:
   no item twice or out of order, and none that stayed is skipped, but for
   offsets after a deletion. *)
THEOREM PagesAreComplete == MCSpec => []PagesComplete
  <1>1. MCInit => PagesInv
    BY PagesStart DEF MCInit
  <1>2. [MCNext]_allVars => [PagesNext]_pageVars
    BY DEF MCNext, allVars, pageVars
  <1> QED  BY <1>1, <1>2, PagesStep, PagesMean, PTL DEF MCSpec
-----------------------------------------------------------------------------
(* Validation.  The recursive functions are what their equations say. *)
Verdicts == [Leaves \X Values -> BOOLEAN]

ConformsEq(f) ==
  f = [n \in Nat |->
        [x \in Leaves \X Values |->
           IF n = 0 THEN LeafConforms(x[1], x[2])
           ELSE x[2].t = "arr" /\ \A i \in DOMAIN x[2].items : f[n - 1][<<x[1], x[2].items[i]>>]]]

LEMMA ConformsUnfolds == ConformsEq(Conforms)
  <1> DEFINE zero == [x \in Leaves \X Values |-> LeafConforms(x[1], x[2])]
             more(g) == [x \in Leaves \X Values |->
                           /\ x[2].t = "arr"
                           /\ \A i \in DOMAIN x[2].items : g[<<x[1], x[2].items[i]>>]]
             step == [g \in Verdicts |-> more(g)]
  <1>1. zero \in Verdicts
    BY DEF Verdicts, LeafConforms
  <1>2. step \in [Verdicts -> Verdicts]
    BY DEF Verdicts
  <1> HIDE DEF zero, step
  <1>3. PICK f \in [Nat -> Verdicts] : f[0] = zero /\ \A n \in Nat : f[n + 1] = step[f[n]]
    BY <1>1, <1>2, NatRecursion
  <1> DEFINE rhs(n) == [x \in Leaves \X Values |->
           IF n = 0 THEN LeafConforms(x[1], x[2])
           ELSE x[2].t = "arr" /\ \A i \in DOMAIN x[2].items : f[n - 1][<<x[1], x[2].items[i]>>]]
  <1>4. ASSUME NEW n \in Nat PROVE f[n] = rhs(n)
    <2>1. CASE n = 0
      BY <1>3, <2>1 DEF zero
    <2>2. CASE n # 0
      <3>1. n - 1 \in Nat /\ (n - 1) + 1 = n
        BY <2>2
      <3>2. f[n] = step[f[n - 1]] /\ f[n - 1] \in Verdicts
        BY <1>3, <3>1
      <3>3. f[n] = more(f[n - 1])
        BY <3>2 DEF step
      <3> QED  BY <2>2, <3>3
    <2> QED  BY <2>1, <2>2
  <1>5. f = [n \in Nat |-> rhs(n)]
    BY <1>3, <1>4
  <1>6. ConformsEq(f)
    BY <1>5 DEF ConformsEq
  <1>7. Conforms = CHOOSE g : ConformsEq(g)
    BY DEF Conforms, ConformsEq
  <1> QED  BY <1>6, <1>7
TsAcceptsEq(f) ==
  f = [n \in Nat |->
        [x \in Leaves \X Values |->
           \/ x[2].t = "null"
           \/ IF n = 0 THEN TsLeafAccepts(x[1], x[2])
              ELSE /\ x[2].t = "arr"
                   /\ \A i \in DOMAIN x[2].items : f[n - 1][<<x[1], x[2].items[i]>>]]]

LEMMA TsAcceptsUnfolds == TsAcceptsEq(TsAccepts)
  <1> DEFINE zero == [x \in Leaves \X Values |-> x[2].t = "null" \/ TsLeafAccepts(x[1], x[2])]
             more(g) == [x \in Leaves \X Values |->
                           \/ x[2].t = "null"
                           \/ /\ x[2].t = "arr"
                              /\ \A i \in DOMAIN x[2].items : g[<<x[1], x[2].items[i]>>]]
             step == [g \in Verdicts |-> more(g)]
  <1>1. zero \in Verdicts
    BY DEF Verdicts
  <1>2. step \in [Verdicts -> Verdicts]
    BY DEF Verdicts
  <1> HIDE DEF zero, step
  <1>3. PICK f \in [Nat -> Verdicts] : f[0] = zero /\ \A n \in Nat : f[n + 1] = step[f[n]]
    BY <1>1, <1>2, NatRecursion
  <1> DEFINE rhs(n) == [x \in Leaves \X Values |->
           \/ x[2].t = "null"
           \/ IF n = 0 THEN TsLeafAccepts(x[1], x[2])
              ELSE /\ x[2].t = "arr"
                   /\ \A i \in DOMAIN x[2].items : f[n - 1][<<x[1], x[2].items[i]>>]]
  <1>4. ASSUME NEW n \in Nat PROVE f[n] = rhs(n)
    <2>1. CASE n = 0
      BY <1>3, <2>1 DEF zero
    <2>2. CASE n # 0
      <3>1. n - 1 \in Nat /\ (n - 1) + 1 = n
        BY <2>2
      <3>2. f[n] = step[f[n - 1]] /\ f[n - 1] \in Verdicts
        BY <1>3, <3>1
      <3>3. f[n] = more(f[n - 1])
        BY <3>2 DEF step
      <3> QED  BY <2>2, <3>3
    <2> QED  BY <2>1, <2>2
  <1>5. f = [n \in Nat |-> rhs(n)]
    BY <1>3, <1>4
  <1>6. TsAcceptsEq(f)
    BY <1>5 DEF TsAcceptsEq
  <1>7. TsAccepts = CHOOSE g : TsAcceptsEq(g)
    BY DEF TsAccepts, TsAcceptsEq
  <1> QED  BY <1>6, <1>7

(* The two, one value at a time. *)
LEMMA ConformsFacts ==
    ASSUME NEW n \in Nat, NEW leaf \in Leaves, NEW v \in Values
    PROVE  /\ n = 0 => Conforms[n][<<leaf, v>>] = LeafConforms(leaf, v)
           /\ n # 0 => Conforms[n][<<leaf, v>>] =
                         (v.t = "arr" /\ \A i \in DOMAIN v.items :
                                           Conforms[n - 1][<<leaf, v.items[i]>>])
  <1> DEFINE val(k, x) == IF k = 0 THEN LeafConforms(x[1], x[2])
                          ELSE /\ x[2].t = "arr"
                               /\ \A i \in DOMAIN x[2].items :
                                    Conforms[k - 1][<<x[1], x[2].items[i]>>]
             at(k) == [x \in Leaves \X Values |-> val(k, x)]
  <1>1. Conforms = [k \in Nat |-> at(k)]
    BY ConformsUnfolds, Zenon DEF ConformsEq
  <1> HIDE DEF at
  <1>2. Conforms[n] = at(n)
    BY <1>1, Zenon
  <1> USE DEF at
  <1> HIDE DEF val
  <1>3. Conforms[n][<<leaf, v>>] = val(n, <<leaf, v>>)
    BY <1>2
  <1> QED  BY <1>3 DEF val

LEMMA TsAcceptsFacts ==
    ASSUME NEW n \in Nat, NEW leaf \in Leaves, NEW v \in Values
    PROVE  /\ n = 0 => TsAccepts[n][<<leaf, v>>] = (v.t = "null" \/ TsLeafAccepts(leaf, v))
           /\ n # 0 => TsAccepts[n][<<leaf, v>>] =
                         \/ v.t = "null"
                         \/ v.t = "arr" /\ \A i \in DOMAIN v.items :
                                             TsAccepts[n - 1][<<leaf, v.items[i]>>]
  <1> DEFINE val(k, x) == \/ x[2].t = "null"
                          \/ IF k = 0 THEN TsLeafAccepts(x[1], x[2])
                             ELSE /\ x[2].t = "arr"
                                  /\ \A i \in DOMAIN x[2].items :
                                       TsAccepts[k - 1][<<x[1], x[2].items[i]>>]
             at(k) == [x \in Leaves \X Values |-> val(k, x)]
  <1>1. TsAccepts = [k \in Nat |-> at(k)]
    BY TsAcceptsUnfolds, Zenon DEF TsAcceptsEq
  <1> HIDE DEF at
  <1>2. TsAccepts[n] = at(n)
    BY <1>1, Zenon
  <1> USE DEF at
  <1> HIDE DEF val
  <1>3. TsAccepts[n][<<leaf, v>>] = val(n, <<leaf, v>>)
    BY <1>2
  <1> QED  BY <1>3 DEF val
PlainLeaf(leaf) == leaf.type = "StringEnum" \/ (leaf.type = "Scalar" /\ leaf.scalar # "Integer64")

(* What conforms to a type that TypeScript describes as it is passes there, in
   however many arrays. *)
LEMMA PlainPasses ==
    ASSUME NEW leaf \in Leaves, PlainLeaf(leaf)
    PROVE  \A n \in Nat : \A v \in Values :
             Conforms[n][<<leaf, v>>] => TsAccepts[n][<<leaf, v>>]
  <1> DEFINE S == {n \in Nat : \E v \in Values :
                     Conforms[n][<<leaf, v>>] /\ ~TsAccepts[n][<<leaf, v>>]}
  <1> SUFFICES ASSUME S # {} PROVE FALSE
    OBVIOUS
  <1>1. S \subseteq Nat
    OBVIOUS
  <1>2. PICK n \in S : \A k \in S : n <= k
    <2> HIDE DEF S
    <2> QED  BY <1>1, LeastElement
  <1>3. n \in Nat
    BY <1>1, <1>2
  <1>4. PICK v \in Values : Conforms[n][<<leaf, v>>] /\ ~TsAccepts[n][<<leaf, v>>]
    BY <1>2
  <1>5. CASE n = 0
    <2>1. LeafConforms(leaf, v) /\ ~TsLeafAccepts(leaf, v)
      BY <1>3, <1>4, <1>5, ConformsFacts, TsAcceptsFacts
    <2> QED  BY <2>1 DEF PlainLeaf, LeafConforms, TsLeafAccepts
  <1>6. CASE n # 0
    <2> HIDE DEF S
    <2>1. /\ v.t = "arr" /\ \A i \in DOMAIN v.items : Conforms[n - 1][<<leaf, v.items[i]>>]
          /\ ~\A i \in DOMAIN v.items : TsAccepts[n - 1][<<leaf, v.items[i]>>]
      <3>1. Conforms[n][<<leaf, v>>] =
              (v.t = "arr" /\ \A i \in DOMAIN v.items : Conforms[n - 1][<<leaf, v.items[i]>>])
        BY <1>3, <1>6, ConformsFacts
      <3>2. TsAccepts[n][<<leaf, v>>] =
              \/ v.t = "null"
              \/ v.t = "arr" /\ \A i \in DOMAIN v.items : TsAccepts[n - 1][<<leaf, v.items[i]>>]
        BY <1>3, <1>6, TsAcceptsFacts
      <3> QED  BY <1>4, <3>1, <3>2, Zenon
    <2>2. PICK i \in DOMAIN v.items : ~TsAccepts[n - 1][<<leaf, v.items[i]>>]
      BY <2>1
    <2>3. v.items[i] \in Values
      BY <2>1, PartsAssumption
    <2>4. n - 1 \in Nat /\ ~(n <= n - 1)
      BY <1>3, <1>6
    <2>5. n - 1 \in S
      BY <2>1, <2>2, <2>3, <2>4 DEF S
    <2> QED  BY <1>2, <2>4, <2>5
  <1> QED  BY <1>5, <1>6

(* No false alarm, value by value. *)
LEMMA ConformingPasses ==
    ASSUME NEW m, IsModel(m), m # NoModel, NEW v \in Values, ModelConforms(m, v),
           vsdk \in {"rust", "go", "ts"}, vsdk = "ts" => Plain(m)
    PROVE  Accepts(m, v)
  <1>1. CASE m.model = "Enum"
    BY <1>1 DEF ModelConforms, Accepts, RustAccepts, GoAccepts, TsModelAccepts, EnumAccepts
  <1>2. CASE m.model # "Enum"
    <2>1. m.model = "Object" /\ \A p \in DOMAIN m.props :
                                 m.props[p].ty.arrays \in Nat /\ m.props[p].ty.leaf \in Leaves
      BY <1>2 DEF IsModel
    <2>2. /\ v.t = "obj" /\ Required(m) \subseteq DOMAIN v.fields
          /\ \A p \in DOMAIN m.props \cap DOMAIN v.fields :
               Conforms[m.props[p].ty.arrays][<<m.props[p].ty.leaf, v.fields[p]>>]
      BY <1>2 DEF ModelConforms
    <2>3. \A p \in DOMAIN v.fields : v.fields[p] \in Values
      BY <2>2, PartsAssumption
    <2>4. FieldsAccept(m, v)
      <3> SUFFICES ASSUME NEW p \in EnumProps(m) \cap DOMAIN v.fields
                   PROVE  v.fields[p].s \in m.props[p].ty.leaf.variants
        BY <2>2 DEF FieldsAccept
      <3>1. /\ p \in DOMAIN m.props /\ m.props[p].ty.arrays = 0
            /\ m.props[p].ty.leaf.type = "StringEnum"
        BY DEF EnumProps
      <3>2. Conforms[0][<<m.props[p].ty.leaf, v.fields[p]>>]
        BY <2>2, <3>1
      <3>3. LeafConforms(m.props[p].ty.leaf, v.fields[p])
        BY <2>1, <2>3, <3>1, <3>2, ConformsFacts
      <3> QED  BY <3>1, <3>3 DEF LeafConforms
    <2>5. CASE vsdk # "ts"
      BY <1>2, <2>2, <2>4, <2>5 DEF Accepts, RustAccepts, GoAccepts
    <2>6. CASE vsdk = "ts"
      <3>1. ASSUME NEW p \in DOMAIN m.props \cap DOMAIN v.fields
            PROVE  TsAccepts[m.props[p].ty.arrays][<<m.props[p].ty.leaf, v.fields[p]>>]
        <4>1. PlainLeaf(m.props[p].ty.leaf)
          BY <2>1, <2>6 DEF Plain, PlainLeaf
        <4> QED  BY <2>1, <2>2, <2>3, <4>1, PlainPasses
      <3> QED  BY <1>2, <2>2, <2>6, <3>1 DEF Accepts, TsModelAccepts
    <2> QED  BY <2>5, <2>6
  <1> QED  BY <1>1, <1>2

(* What passes has the required properties. *)
LEMMA PassingHasRequired ==
    ASSUME NEW m, m.model = "Object", NEW v, v.t = "obj", Accepts(m, v)
    PROVE  Required(m) \subseteq DOMAIN v.fields
  BY DEF Accepts, RustAccepts, GoAccepts, TsModelAccepts, FieldsAccept

(* Which route was taken and what its checks said. *)
ValidTypes ==
  /\ vsdk \in {"rust", "go", "ts"}
  /\ vpc \in {"start", "sent", "refused", "answered", "done", "rejected"}
  /\ call.path \in Paths /\ call.body \in BodyChoices /\ response.body \in BodyChoices
Routed ==
  vpc # "start" => (Candidates = {} /\ route = NoModel) \/ route \in Candidates
RequestChecked ==
  /\ vpc = "refused" => /\ route \in Routes /\ route.request # NoModel /\ call.body # <<>>
                        /\ ~Accepts(route.request, call.body[1])
  /\ (/\ vpc \in {"sent", "answered", "done", "rejected"}
      /\ route # NoModel /\ route.request # NoModel
      /\ call.body # <<>> /\ Checked(call.body[1]))
       => Accepts(route.request, call.body[1])
ResponseChecked ==
  vpc = "rejected" => /\ route \in Routes /\ route.response # NoModel /\ response.body # <<>>
                      /\ ~Accepts(route.response, response.body[1])
ValidInv == ValidTypes /\ Routed /\ RequestChecked /\ ResponseChecked

LEMMA ValidStart == ValidInit => ValidInv
  BY DEF ValidInit, ValidInv, ValidTypes, Routed, RequestChecked, ResponseChecked, BodyChoices

LEMMA CandidatesAreRoutes == Candidates \subseteq Routes
  BY DEF Candidates

LEMMA ValidStep == ValidInv /\ [ValidNext]_validVars => ValidInv'
  <1> SUFFICES ASSUME ValidInv, [ValidNext]_validVars PROVE ValidInv'
    OBVIOUS
  <1>1. UNCHANGED <<vsdk, base, call>>
    BY DEF ValidNext, validVars, CheckRequest, CheckResponse, Respond
  <1>2. /\ Candidates' = Candidates /\ \A m, v : Accepts(m, v)' = Accepts(m, v)
        /\ \A v : Checked(v)' = Checked(v)
    BY <1>1 DEF Candidates, Accepts, Checked
  <1>3. CASE UNCHANGED validVars
    BY <1>2, <1>3 DEF ValidInv, validVars, ValidTypes, Routed, RequestChecked, ResponseChecked
  <1>4. CASE CheckRequest
    <2>1. PICK r \in IF Candidates = {} THEN {NoModel} ELSE Candidates :
            /\ route' = r
            /\ vpc' = IF r # NoModel /\ r.request # NoModel /\ call.body # <<>>
                         /\ Checked(call.body[1]) /\ ~Accepts(r.request, call.body[1])
                      THEN "refused" ELSE "sent"
      BY <1>4 DEF CheckRequest
    <2>2. Routed'
      BY <1>2, <2>1 DEF Routed
    <2>3. r # NoModel => r \in Routes
      BY <2>1, CandidatesAreRoutes
    <2>4. RequestChecked'
      BY <1>1, <1>2, <2>1, <2>3 DEF RequestChecked
    <2> QED  BY <1>1, <1>4, <2>1, <2>2, <2>4
             DEF CheckRequest, ValidInv, ValidTypes, ResponseChecked
  <1>5. ASSUME NEW ok \in BOOLEAN, NEW json \in BodyChoices, Respond(ok, json)
        PROVE  ValidInv'
    BY <1>2, <1>5 DEF Respond, ValidInv, ValidTypes, Routed, RequestChecked, ResponseChecked
  <1>6. CASE CheckResponse
    <2>1. route # NoModel => route \in Routes
      BY <1>6, CandidatesAreRoutes DEF CheckResponse, ValidInv, Routed
    <2> QED  BY <1>2, <1>6, <2>1
             DEF CheckResponse, ValidInv, ValidTypes, Routed, RequestChecked, ResponseChecked
  <1> QED  BY <1>3, <1>4, <1>5, <1>6 DEF ValidNext

LEMMA ValidMeans == ValidInv => ValidationSound
  <1> SUFFICES ASSUME ValidInv PROVE ValidationSound
    OBVIOUS
  <1>1. \A b \in BodyChoices : b # <<>> => b[1] \in Values
    BY DEF BodyChoices
  <1>2. ASSUME vpc = "refused", vsdk = "ts" => Plain(route.request)
        PROVE  ~ModelConforms(route.request, call.body[1])
    <2>1. /\ route \in Routes /\ route.request # NoModel
          /\ ~Accepts(route.request, call.body[1]) /\ call.body[1] \in Values
      BY <1>1, <1>2 DEF ValidInv, ValidTypes, RequestChecked
    <2> QED  BY <1>2, <2>1, ConformingPasses, RoutesAssumption DEF ValidInv, ValidTypes
  <1>3. ASSUME vpc = "rejected", vsdk = "ts" => Plain(route.response)
        PROVE  ~ModelConforms(route.response, response.body[1])
    <2>1. /\ route \in Routes /\ route.response # NoModel
          /\ ~Accepts(route.response, response.body[1]) /\ response.body[1] \in Values
      BY <1>1, <1>3 DEF ValidInv, ValidTypes, ResponseChecked
    <2> QED  BY <1>3, <2>1, ConformingPasses, RoutesAssumption DEF ValidInv, ValidTypes
  <1>4. ASSUME vpc \in {"sent", "answered", "done", "rejected"},
               call.body # <<>>, call.body[1].t = "obj",
               NEW q \in Routes, q.method = call.method,
               MatchesPath(q.path, base \o call.path)
        PROVE  /\ route \in Routes /\ route.method = call.method
               /\ MatchesPath(route.path, base \o call.path)
               /\ route.request.model = "Object" =>
                    Required(route.request) \subseteq DOMAIN call.body[1].fields
    <2>1. Candidates # {}
      BY <1>4 DEF Candidates
    <2>2. route \in Candidates
      BY <1>4, <2>1 DEF ValidInv, Routed
    <2>3. /\ route \in Routes /\ route.method = call.method
          /\ route.path = base \o call.path \/ MatchesPath(route.path, base \o call.path)
      BY <2>2 DEF Candidates
    <2>4. MatchesPath(route.path, base \o call.path)
      BY <2>3 DEF MatchesPath
    <2>5. ASSUME route.request.model = "Object"
          PROVE  Required(route.request) \subseteq DOMAIN call.body[1].fields
      <3>1. route # NoModel /\ route.request # NoModel
        BY <2>3, <2>5, RoutesAssumption DEF NoModel
      <3>2. Accepts(route.request, call.body[1])
        BY <1>4, <3>1 DEF ValidInv, RequestChecked, Checked
      <3> QED  BY <1>4, <2>5, <3>2, PassingHasRequired
    <2> QED  BY <2>3, <2>4, <2>5
  <1> QED  BY <1>2, <1>3, <1>4 DEF ValidationSound

(* ValidationSound for every set of routes, models, values and base URLs: no
   false alarm (in TypeScript for the types it describes as they are), and an
   object that goes to a URL, base included, that a route matches has what that
   route requires. *)
THEOREM BodiesAreValidated == MCSpec => []ValidationSound
  <1>1. MCInit => ValidInv
    BY ValidStart DEF MCInit
  <1>2. [MCNext]_allVars => [ValidNext]_validVars
    BY DEF MCNext, allVars, validVars
  <1> QED  BY <1>1, <1>2, ValidStep, ValidMeans, PTL DEF MCSpec
==============================================================================
