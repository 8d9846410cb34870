------------------------------ MODULE GoCache -------------------------------
(***************************************************************************)
(* The GET path of a generated Go client: DoJSON with a ResponseCache and  *)
(* deduplication.  The ETag of the cached entry travels through c.Header,  *)
(* a map that every goroutine using the client shares: DoJSON sets         *)
(* If-None-Match there, buildHeaders copies the map, DoJSON deletes it     *)
(* after the round-trip.  Get evicts an expired entry under a second lock. *)
(***************************************************************************)
EXTENDS OriginServer

CONSTANT Goroutines     \* concurrent DoJSON calls on one Client

VARIABLES dedupe,   \* Client.Dedupe
          cache,    \* cache[u]: ResponseCache.entries: [etag, data, expired]
          inm,      \* c.Header["If-None-Match"]
          flight,   \* flight[u]: the goroutine whose request for u is in flight
          pc,       \* pc[g]: where goroutine g stands
          get,      \* get[g]: the URL it asks for
          atStart,  \* atStart[g]: history, the version of the URL when it
                    \* called, as long as no other call overlaps its own
          cached,   \* cached[g]: cachedEntry and hasCache
          sent,     \* sent[g]: the If-None-Match it copied
          answer,   \* answer[g]: what doWithRetry or the deduper returned
          result    \* result[g]: the data it decodes into out

vars == <<version, dedupe, cache, inm, flight, pc, get, atStart, cached, sent,
          answer, result>>

calls == <<dedupe, get, atStart>>

Entries == [etag : Versions, data : Bodies, expired : BOOLEAN]

Failure == [status |-> 0, body |-> Nothing, etag |-> Nothing]

(* "setting", "copying" and "deleting": inside an operation on c.Header.   *)
PcStates == {"idle", "evicting", "setting", "looked", "copying", "waiting",
             "riding", "answered", "deleting", "cleaned", "returned", "failed"}

Init ==
    /\ OriginInit
    /\ dedupe \in BOOLEAN
    /\ cache = [u \in Resources |-> Nothing]
    /\ inm = Nothing
    /\ flight = [u \in Resources |-> Nothing]
    /\ pc = [g \in Goroutines |-> "idle"]
    /\ get = [g \in Goroutines |-> Nothing]
    /\ atStart = [g \in Goroutines |-> Nothing]
    /\ cached = [g \in Goroutines |-> Nothing]
    /\ sent = [g \in Goroutines |-> Nothing]
    /\ answer = [g \in Goroutines |-> Nothing]
    /\ result = [g \in Goroutines |-> Nothing]

Goto(g, s) == pc' = [pc EXCEPT ![g] = s]

(* c.Cache.Get(u): a miss, a hit, or an expired entry that is deleted next. *)
Lookup(g, u) ==
    /\ pc[g] = "idle"
    /\ get' = [get EXCEPT ![g] = u]
    /\ atStart' = [h \in Goroutines |->
                     IF h = g /\ \A d \in Goroutines \ {g} : pc[d] = "idle"
                     THEN version[u] ELSE Nothing]
    /\ \/ /\ cache[u] = Nothing
          /\ Goto(g, "looked")
          /\ UNCHANGED cached
       \/ /\ cache[u] # Nothing /\ cache[u].expired
          /\ Goto(g, "evicting")
          /\ UNCHANGED cached
       \/ /\ cache[u] # Nothing /\ ~cache[u].expired
          /\ Goto(g, "setting")
          /\ cached' = [cached EXCEPT ![g] = cache[u]]
    /\ UNCHANGED <<version, dedupe, cache, inm, flight, sent, answer, result>>

(* Get: the write lock and delete(c.entries, url), whatever is there now. *)
Evict(g) ==
    /\ pc[g] = "evicting"
    /\ cache' = [cache EXCEPT ![get[g]] = Nothing]
    /\ Goto(g, "looked")
    /\ UNCHANGED <<version, inm, flight, calls, cached, sent, answer, result>>

(* c.Header.Set("If-None-Match", cachedEntry.ETag) *)
SetHeader(g) ==
    /\ pc[g] = "setting"
    /\ inm' = cached[g].etag
    /\ Goto(g, "looked")
    /\ UNCHANGED <<version, cache, flight, calls, cached, sent, answer, result>>

(* deduper.Do: a request for the same URL is in flight. *)
Ride(g) ==
    /\ pc[g] = "looked"
    /\ dedupe
    /\ flight[get[g]] # Nothing
    /\ Goto(g, "riding")
    /\ UNCHANGED <<version, cache, inm, flight, calls, cached, sent, answer, result>>

(* No request for the URL is in flight: run() starts doWithRetry. *)
Run(g) ==
    /\ pc[g] = "looked"
    /\ dedupe => flight[get[g]] = Nothing
    /\ flight' = IF dedupe THEN [flight EXCEPT ![get[g]] = g] ELSE flight
    /\ Goto(g, "copying")
    /\ UNCHANGED <<version, cache, inm, calls, cached, sent, answer, result>>

(* buildHeaders has copied c.Header; the request goes out. *)
CopyHeaders(g) ==
    /\ pc[g] = "copying"
    /\ sent' = [sent EXCEPT ![g] = inm]
    /\ Goto(g, "waiting")
    /\ UNCHANGED <<version, cache, inm, flight, calls, cached, answer, result>>

Riders(u) == {g \in Goroutines : pc[g] = "riding" /\ get[g] = u}

(* The outcome a of g's round-trip reaches g and the riders.  The riders   *)
(* get data, status and error; respETag is set by the run closure of g     *)
(* alone.                                                                  *)
Land(g, a) ==
    LET u == get[g]
        aboard == IF dedupe THEN Riders(u) ELSE {}
    IN  /\ pc[g] = "waiting"
        /\ answer' = [d \in Goroutines |->
                        IF d = g THEN a
                        ELSE IF d \in aboard THEN [a EXCEPT !.etag = Nothing]
                        ELSE answer[d]]
        /\ pc' = [d \in Goroutines |->
                    IF d \in aboard \cup {g} THEN "answered" ELSE pc[d]]
        /\ flight' = IF dedupe THEN [flight EXCEPT ![u] = Nothing] ELSE flight
        /\ sent' = [sent EXCEPT ![g] = Nothing]
        /\ UNCHANGED <<version, cache, inm, calls, cached, result>>

Respond(g) == Land(g, Answer(get[g], sent[g]))

RoundTripFails(g) == Land(g, Failure)

(* if hasCache: the Del of the clean-up follows. *)
CleanUp(g) ==
    /\ pc[g] = "answered"
    /\ Goto(g, IF cached[g] # Nothing THEN "deleting" ELSE "cleaned")
    /\ UNCHANGED <<version, cache, inm, flight, calls, cached, sent, answer, result>>

(* c.Header.Del("If-None-Match") *)
DelHeader(g) ==
    /\ pc[g] = "deleting"
    /\ inm' = Nothing
    /\ Goto(g, "cleaned")
    /\ UNCHANGED <<version, cache, flight, calls, cached, sent, answer, result>>

Stored(g) == [etag |-> answer[g].etag, data |-> answer[g].body, expired |-> FALSE]

(* The error is returned; or 304 with an entry: its data; or 2xx with an   *)
(* ETag: c.Cache.Set.  An empty body is a nil error with out untouched.    *)
Finish(g) ==
    /\ pc[g] = "cleaned"
    /\ result' = [result EXCEPT ![g] =
                    IF answer[g].status = 304 /\ cached[g] # Nothing
                    THEN cached[g].data ELSE answer[g].body]
    /\ cache' = IF answer[g].status = 200 /\ answer[g].etag # Nothing
                THEN [cache EXCEPT ![get[g]] = Stored(g)] ELSE cache
    /\ Goto(g, IF answer[g].status = 0 THEN "failed" ELSE "returned")
    /\ UNCHANGED <<version, inm, flight, calls, cached, sent, answer>>

(* The goroutine makes its next call. *)
Leave(g) ==
    /\ pc[g] \in {"returned", "failed"}
    /\ Goto(g, "idle")
    /\ get' = [get EXCEPT ![g] = Nothing]
    /\ atStart' = [atStart EXCEPT ![g] = Nothing]
    /\ cached' = [cached EXCEPT ![g] = Nothing]
    /\ sent' = [sent EXCEPT ![g] = Nothing]
    /\ answer' = [answer EXCEPT ![g] = Nothing]
    /\ result' = [result EXCEPT ![g] = Nothing]
    /\ UNCHANGED <<version, dedupe, cache, inm, flight>>

(* The TTL of an entry passes. *)
Expire(u) ==
    /\ cache[u] # Nothing /\ ~cache[u].expired
    /\ cache' = [cache EXCEPT ![u].expired = TRUE]
    /\ UNCHANGED <<version, inm, flight, pc, calls, cached, sent, answer, result>>

(* Clear() *)
Clear ==
    /\ \E u \in Resources : cache[u] # Nothing
    /\ cache' = [u \in Resources |-> Nothing]
    /\ UNCHANGED <<version, inm, flight, pc, calls, cached, sent, answer, result>>

Origin ==
    /\ \E u \in Resources : Update(u)
    /\ UNCHANGED <<cache, inm, flight, pc, calls, cached, sent, answer, result>>

Call(g) ==
    \/ \E u \in Resources : Lookup(g, u)
    \/ Evict(g) \/ SetHeader(g) \/ Ride(g) \/ Run(g) \/ CopyHeaders(g)
    \/ Respond(g) \/ RoundTripFails(g)
    \/ CleanUp(g) \/ DelHeader(g) \/ Finish(g) \/ Leave(g)

Next == \/ \E g \in Goroutines : Call(g)
        \/ \E u \in Resources : Expire(u)
        \/ Clear
        \/ Origin

Spec == Init /\ [][Next]_vars

-----------------------------------------------------------------------------
(* Type invariant. *)
TypeOK ==
    /\ version \in [Resources -> Versions]
    /\ dedupe \in BOOLEAN
    /\ cache \in [Resources -> Entries \cup {Nothing}]
    /\ inm \in Versions \cup {Nothing}
    /\ flight \in [Resources -> Goroutines \cup {Nothing}]
    /\ pc \in [Goroutines -> PcStates]
    /\ get \in [Goroutines -> Resources \cup {Nothing}]
    /\ atStart \in [Goroutines -> Versions \cup {Nothing}]
    /\ cached \in [Goroutines -> Entries \cup {Nothing}]
    /\ sent \in [Goroutines -> Versions \cup {Nothing}]
    /\ result \in [Goroutines -> Bodies \cup {Nothing}]

(* "Clean up the If-None-Match header we may have set": when no call is in *)
(* progress the shared header is gone, however the calls overlapped and    *)
(* whether they succeeded or not; a leftover would condition a later,      *)
(* unrelated request.                                                      *)
HeaderCleaned == (\A g \in Goroutines : pc[g] = "idle") => inm = Nothing

(* An entry is what a full answer for its own URL brought, ETag and body   *)
(* of one version, whoever stored it and whatever was in flight.           *)
CacheCoherent ==
    \A u \in Resources :
        cache[u] # Nothing => cache[u].data = Body(u, cache[u].etag)

(* A call never returns a version older than the entry it revalidates,     *)
(* even when another call's ETag went out with its request.                *)
NotOlderThanCached ==
    \A g \in Goroutines :
        (pc[g] = "returned" /\ result[g] # Nothing /\ cached[g] # Nothing)
        => result[g].version >= cached[g].data.version

(* A call that no other call overlaps returns the resource as it was at or *)
(* after its start, with a nil error only when it has data: cached data is *)
(* returned when the server confirmed it, whatever earlier calls that did  *)
(* overlap left behind in the cache and in the shared header.              *)
FreshAlone ==
    \A g \in Goroutines :
        (pc[g] = "returned" /\ atStart[g] # Nothing)
        => result[g] # Nothing /\ result[g].version >= atStart[g]
=============================================================================
