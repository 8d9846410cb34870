----------------------------- MODULE RustCache ------------------------------
(***************************************************************************)
(* The GET path of a generated Rust client: request_json with a cache and  *)
(* deduplication.  The cache is asked and filled under base URL and path;  *)
(* the deduplication key has the query too.  Between the look-up and the   *)
(* answer other tasks fill the cache, entries expire, and the resource     *)
(* changes.                                                                *)
(***************************************************************************)
EXTENDS OriginServer

CONSTANTS Tasks,        \* concurrent request_json calls
          Path(_)       \* Path(r): the URL of r without its query

Paths == {Path(r) : r \in Resources}

VARIABLES dedupe,   \* Client::dedupe, fixed when the client is built
          cache,    \* cache[p]: the entry of URL p: [etag, data], or Nothing
          flight,   \* flight[r]: the task whose request for r is in flight
          pc,       \* pc[t]: where task t stands
          get,      \* get[t]: the resource it asks for
          cached,   \* cached[t]: cached_entry, from its look-up
          answer,   \* answer[t]: data, status and ETag of its round-trip
          result    \* result[t]: the body it hands to serde

vars == <<version, dedupe, cache, flight, pc, get, cached, answer, result>>

Entries == [etag : Versions, data : Bodies]

ASSUME EntriesAssumption == Nothing \notin Entries

PcStates == {"idle", "looked", "leading", "riding", "answered", "returned"}

Init ==
    /\ OriginInit
    /\ dedupe \in BOOLEAN
    /\ cache = [p \in Paths |-> Nothing]
    /\ flight = [r \in Resources |-> Nothing]
    /\ pc = [t \in Tasks |-> "idle"]
    /\ get = [t \in Tasks |-> Nothing]
    /\ cached = [t \in Tasks |-> Nothing]
    /\ answer = [t \in Tasks |-> Nothing]
    /\ result = [t \in Tasks |-> Nothing]

(* Faulty look-up: every path shares one entry. *)
LookupAnyPath(t, r) ==
    /\ pc[t] = "idle"
    /\ get' = [get EXCEPT ![t] = r]
    /\ \E p \in Paths : cached' = [cached EXCEPT ![t] = cache[p]]
    /\ pc' = [pc EXCEPT ![t] = "looked"]
    /\ UNCHANGED <<version, dedupe, cache, flight, answer, result>>

(* cache.get(&url): url has no query. *)
Lookup(t, r) ==
    /\ pc[t] = "idle"
    /\ get' = [get EXCEPT ![t] = r]
    /\ cached' = [cached EXCEPT ![t] = cache[Path(r)]]
    /\ pc' = [pc EXCEPT ![t] = "looked"]
    /\ UNCHANGED <<version, dedupe, cache, flight, answer, result>>

(* dedupe: a request for the same method, URL and query is in flight. *)
Ride(t) ==
    /\ pc[t] = "looked"
    /\ dedupe
    /\ flight[get[t]] # Nothing
    /\ pc' = [pc EXCEPT ![t] = "riding"]
    /\ UNCHANGED <<version, dedupe, cache, flight, get, cached, answer, result>>

(* dedupe: none is; do_with_retry with the ETag of the cached entry. *)
Lead(t) ==
    /\ pc[t] = "looked"
    /\ dedupe => flight[get[t]] = Nothing
    /\ flight' = IF dedupe THEN [flight EXCEPT ![get[t]] = t] ELSE flight
    /\ pc' = [pc EXCEPT ![t] = "leading"]
    /\ UNCHANGED <<version, dedupe, cache, get, cached, answer, result>>

IfNoneMatch(t) == IF cached[t] = Nothing THEN Nothing ELSE cached[t].etag

Riders(r) == {t \in Tasks : pc[t] = "riding" /\ get[t] = r}

(* The answer arrives; everybody aboard gets it. *)
Respond(t) ==
    /\ pc[t] = "leading"
    /\ LET r == get[t]
           aboard == {t} \cup (IF dedupe THEN Riders(r) ELSE {})
           a == Answer(r, IfNoneMatch(t))
       IN  /\ answer' = [d \in Tasks |-> IF d \in aboard THEN a ELSE answer[d]]
           /\ pc' = [d \in Tasks |-> IF d \in aboard THEN "answered" ELSE pc[d]]
           /\ flight' = IF dedupe THEN [flight EXCEPT ![r] = Nothing] ELSE flight
    /\ UNCHANGED <<version, dedupe, cache, get, cached, result>>

(* Faulty end: a 304 is answered from the cache as it is now, which may    *)
(* hold another entry than the one that was revalidated.                   *)
FinishLooksAgain(t) ==
    /\ pc[t] = "answered"
    /\ result' = [result EXCEPT ![t] =
                    IF answer[t].status = 304 /\ cache[Path(get[t])] # Nothing
                    THEN cache[Path(get[t])].data
                    ELSE IF answer[t].status = 304 /\ cached[t] # Nothing
                    THEN cached[t].data ELSE answer[t].body]
    /\ cache' = IF answer[t].status = 200
                THEN [cache EXCEPT ![Path(get[t])] =
                        [etag |-> answer[t].etag, data |-> answer[t].body]]
                ELSE cache
    /\ pc' = [pc EXCEPT ![t] = "returned"]
    /\ UNCHANGED <<version, dedupe, flight, get, cached, answer>>

(* 304: the data of the entry found by the look-up, or the empty body when *)
(* there was none.  2xx with an ETag: cache.set(&url, ...).                *)
Finish(t) ==
    /\ pc[t] = "answered"
    /\ result' = [result EXCEPT ![t] =
                    IF answer[t].status = 304 /\ cached[t] # Nothing
                    THEN cached[t].data ELSE answer[t].body]
    /\ cache' = IF answer[t].status = 200
                THEN [cache EXCEPT ![Path(get[t])] =
                        [etag |-> answer[t].etag, data |-> answer[t].body]]
                ELSE cache
    /\ pc' = [pc EXCEPT ![t] = "returned"]
    /\ UNCHANGED <<version, dedupe, flight, get, cached, answer>>

Leave(t) ==
    /\ pc[t] = "returned"
    /\ pc' = [pc EXCEPT ![t] = "idle"]
    /\ get' = [get EXCEPT ![t] = Nothing]
    /\ cached' = [cached EXCEPT ![t] = Nothing]
    /\ answer' = [answer EXCEPT ![t] = Nothing]
    /\ result' = [result EXCEPT ![t] = Nothing]
    /\ UNCHANGED <<version, dedupe, cache, flight>>

(* The TTL of an entry passes, or clear() is called: get no longer returns *)
(* it.                                                                     *)
Expire(p) ==
    /\ cache[p] # Nothing
    /\ cache' = [cache EXCEPT ![p] = Nothing]
    /\ UNCHANGED <<version, dedupe, flight, pc, get, cached, answer, result>>

Origin == /\ \E r \in Resources : Update(r)
          /\ UNCHANGED <<dedupe, cache, flight, pc, get, cached, answer, result>>

Next == \/ \E t \in Tasks : \/ \E r \in Resources : Lookup(t, r)
                            \/ Ride(t) \/ Lead(t) \/ Respond(t) \/ Finish(t) \/ Leave(t)
        \/ \E p \in Paths : Expire(p)
        \/ Origin

Spec == Init /\ [][Next]_vars

-----------------------------------------------------------------------------
(* Type invariant. *)
TypeOK ==
    /\ version \in [Resources -> Versions]
    /\ dedupe \in BOOLEAN
    /\ cache \in [Paths -> Entries \cup {Nothing}]
    /\ flight \in [Resources -> Tasks \cup {Nothing}]
    /\ pc \in [Tasks -> PcStates]
    /\ get \in [Tasks -> Resources \cup {Nothing}]
    /\ cached \in [Tasks -> Entries \cup {Nothing}]
    /\ answer \in [Tasks -> Answers \cup {Nothing}]
    /\ result \in [Tasks -> Bodies \cup {Nothing}]

(* A call that got an answer returns the body of the resource it asked     *)
(* for, never the one of another query on the same path.                   *)
OwnBody ==
    \A t \in Tasks : (pc[t] = "returned" /\ result[t] # Nothing)
                        => result[t].of = get[t]

(* "GET responses are cached; subsequent requests send `If-None-Match` and *)
(* return the cached body on 304 Not Modified": without deduplication no   *)
(* call returns empty.  (A rider may: it shares the 304 of a leader whose  *)
(* look-up found an entry where its own found none.)                       *)
NoEmptyResult ==
    ~dedupe => \A t \in Tasks : pc[t] = "returned" => result[t] # Nothing

(* A call never returns a version older than the one its ETag named: a 304 *)
(* does not bring back what the cache had forgotten.                       *)
NotOlderThanCached ==
    \A t \in Tasks :
        (pc[t] = "returned" /\ result[t] # Nothing /\ cached[t] # Nothing
            /\ cached[t].data.of = get[t])
        => result[t].version >= cached[t].data.version
=============================================================================
