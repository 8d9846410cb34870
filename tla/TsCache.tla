------------------------------ MODULE TsCache -------------------------------
(***************************************************************************)
(* The GET path of a generated TypeScript client: ApiClient.request with a *)
(* ResponseCache and deduplication.  The look-up and the entry into the    *)
(* deduper run without an await, so they are one step; the round-trip and  *)
(* the "await cloned.text()" before cache.set let other calls run.         *)
(***************************************************************************)
EXTENDS OriginServer

CONSTANT Calls      \* concurrent calls of ApiClient.request("GET", ...)

VARIABLES dedupe,   \* ApiClientOptions.dedupe
          cache,    \* cache[u]: ResponseCache: [etag, data], or Nothing
          flight,   \* flight[u]: the call whose request for u is in flight
          pc,       \* pc[c]: where call c stands
          get,      \* get[c]: the URL it asks for
          atStart,  \* atStart[c]: history, the version of the URL at its call
          cached,   \* cached[c]: cachedEntry
          answer    \* answer[c]: the Response it returns, or the status of
                    \* the HttpError it throws

vars == <<version, dedupe, cache, flight, pc, get, atStart, cached, answer>>

Entries == [etag : Versions, data : Bodies]

PcStates == {"idle", "dispatched", "riding", "reading", "returned", "threw"}

Init ==
    /\ OriginInit
    /\ dedupe \in BOOLEAN
    /\ cache = [u \in Resources |-> Nothing]
    /\ flight = [u \in Resources |-> Nothing]
    /\ pc = [c \in Calls |-> "idle"]
    /\ get = [c \in Calls |-> Nothing]
    /\ atStart = [c \in Calls |-> Nothing]
    /\ cached = [c \in Calls |-> Nothing]
    /\ answer = [c \in Calls |-> Nothing]

(* request(): cache.get(url), then deduper.dedupe: ride with the request   *)
(* in flight, or start one.                                                *)
Start(c, u) ==
    /\ pc[c] = "idle"
    /\ get' = [get EXCEPT ![c] = u]
    /\ atStart' = [atStart EXCEPT ![c] = version[u]]
    /\ cached' = [cached EXCEPT ![c] = cache[u]]
    /\ \/ /\ dedupe /\ flight[u] # Nothing
          /\ pc' = [pc EXCEPT ![c] = "riding"]
          /\ UNCHANGED flight
       \/ /\ dedupe => flight[u] = Nothing
          /\ pc' = [pc EXCEPT ![c] = "dispatched"]
          /\ flight' = IF dedupe THEN [flight EXCEPT ![u] = c] ELSE flight
    /\ UNCHANGED <<version, dedupe, cache, answer>>

IfNoneMatch(c) == IF cached[c] = Nothing THEN Nothing ELSE cached[c].etag

Riders(u) == {c \in Calls : pc[c] = "riding" /\ get[c] = u}

(* Faulty round-trip: a cached entry is returned without asking the server. *)
RespondFromCache(c) ==
    /\ pc[c] = "dispatched"
    /\ LET u == get[c]
           a == IF cached[c] = Nothing THEN Answer(u, Nothing)
                ELSE [status |-> 200, body |-> cached[c].data, etag |-> cached[c].etag]
           aboard == {c} \cup (IF dedupe THEN Riders(u) ELSE {})
       IN  /\ answer' = [d \in Calls |-> IF d \in aboard THEN a ELSE answer[d]]
           /\ pc' = [d \in Calls |-> IF d \in aboard THEN "reading" ELSE pc[d]]
           /\ flight' = IF dedupe THEN [flight EXCEPT ![u] = Nothing] ELSE flight
    /\ UNCHANGED <<version, dedupe, cache, get, atStart, cached>>

(* dispatchWithRetry: 2xx is a Response; anything else, 304 included, is   *)
(* not response.ok and, not being a status to retry, is thrown as an       *)
(* HttpError.  Everybody aboard gets the same outcome.                     *)
Respond(c) ==
    /\ pc[c] = "dispatched"
    /\ LET u == get[c]
           a == Answer(u, IfNoneMatch(c))
           aboard == {c} \cup (IF dedupe THEN Riders(u) ELSE {})
       IN  /\ answer' = [d \in Calls |-> IF d \in aboard THEN a ELSE answer[d]]
           /\ pc' = [d \in Calls |->
                        IF d \notin aboard THEN pc[d]
                        ELSE IF a.status = 200 THEN "reading" ELSE "threw"]
           /\ flight' = IF dedupe THEN [flight EXCEPT ![u] = Nothing] ELSE flight
    /\ UNCHANGED <<version, dedupe, cache, get, atStart, cached>>

(* Faulty store: the ETag of the entry that was looked up is kept. *)
StoreOldEtag(c) ==
    /\ pc[c] = "reading"
    /\ cache' = [cache EXCEPT ![get[c]] =
                    [etag |-> IF cached[c] = Nothing THEN answer[c].etag
                              ELSE cached[c].etag,
                     data |-> answer[c].body]]
    /\ pc' = [pc EXCEPT ![c] = "returned"]
    /\ UNCHANGED <<version, dedupe, flight, get, atStart, cached, answer>>

(* The body was read: cache.set(url, etag, JSON.parse(body)). *)
Store(c) ==
    /\ pc[c] = "reading"
    /\ cache' = [cache EXCEPT ![get[c]] =
                    [etag |-> answer[c].etag, data |-> answer[c].body]]
    /\ pc' = [pc EXCEPT ![c] = "returned"]
    /\ UNCHANGED <<version, dedupe, flight, get, atStart, cached, answer>>

(* The caller makes its next call. *)
Leave(c) ==
    /\ pc[c] \in {"returned", "threw"}
    /\ pc' = [pc EXCEPT ![c] = "idle"]
    /\ get' = [get EXCEPT ![c] = Nothing]
    /\ atStart' = [atStart EXCEPT ![c] = Nothing]
    /\ cached' = [cached EXCEPT ![c] = Nothing]
    /\ answer' = [answer EXCEPT ![c] = Nothing]
    /\ UNCHANGED <<version, dedupe, cache, flight>>

(* The TTL passes (get deletes the entry when it is next asked) or clear(). *)
Expire(u) ==
    /\ cache[u] # Nothing
    /\ cache' = [cache EXCEPT ![u] = Nothing]
    /\ UNCHANGED <<version, dedupe, flight, pc, get, atStart, cached, answer>>

Origin ==
    /\ \E u \in Resources : Update(u)
    /\ UNCHANGED <<dedupe, cache, flight, pc, get, atStart, cached, answer>>

Next == \/ \E c \in Calls : \/ \E u \in Resources : Start(c, u)
                            \/ Respond(c) \/ Store(c) \/ Leave(c)
        \/ \E u \in Resources : Expire(u)
        \/ Origin

Spec == Init /\ [][Next]_vars

-----------------------------------------------------------------------------
(* Type invariant. *)
TypeOK ==
    /\ version \in [Resources -> Versions]
    /\ dedupe \in BOOLEAN
    /\ cache \in [Resources -> Entries \cup {Nothing}]
    /\ flight \in [Resources -> Calls \cup {Nothing}]
    /\ pc \in [Calls -> PcStates]
    /\ get \in [Calls -> Resources \cup {Nothing}]
    /\ atStart \in [Calls -> Versions \cup {Nothing}]
    /\ cached \in [Calls -> Entries \cup {Nothing}]
    /\ answer \in [Calls -> Answers \cup {Nothing}]

(* A call that returns has the resource as it was at or after its start,   *)
(* whether it led or rode: nothing cached is handed out unconfirmed.       *)
Fresh ==
    \A c \in Calls : pc[c] = "returned" => answer[c].body.version >= atStart[c]

(* cache_source's comment: "GET responses are cached; subsequent requests  *)
(* send `If-None-Match` and return the cached body on 304 Not Modified".   *)
(* A call that sent the ETag of its entry and is told that it still holds  *)
(* does not throw.                                                         *)
CachedBodyOn304 ==
    \A c \in Calls :
        (pc[c] = "threw" /\ cached[c] # Nothing) => answer[c].status # 304

(* An entry pairs the ETag and the body of one version of its own URL,     *)
(* however the awaits of concurrent calls interleave.                      *)
CacheCoherent ==
    \A u \in Resources :
        cache[u] # Nothing => cache[u].data = Body(u, cache[u].etag)
=============================================================================
