------------------------------ MODULE MCCaches ------------------------------
(***************************************************************************)
(* The response caches of the generated SDKs in one model, against one     *)
(* origin: the initial state chooses the SDK that calls and whether it     *)
(* deduplicates, the others stay where they start.                         *)
(***************************************************************************)
EXTENDS RustCache

CONSTANTS p1, p2, q1, q2

(* Resources are pairs of a path and a query. *)
OneQuery == {<<p1, q1>>, <<p2, q1>>}
TwoQueries == {<<p1, q1>>, <<p1, q2>>}
PathOf(r) == r[1]

VARIABLES sdk,
          goDedupe, goCache, goInm, goFlight, goPc, goGet, goAtStart, goCached,
          goSent, goAnswer, goResult,
          tsDedupe, tsCache, tsFlight, tsPc, tsGet, tsAtStart, tsCached, tsAnswer

rustVars == <<dedupe, cache, flight, pc, get, cached, answer, result>>
goVars == <<goDedupe, goCache, goInm, goFlight, goPc, goGet, goAtStart, goCached,
            goSent, goAnswer, goResult>>
tsVars == <<tsDedupe, tsCache, tsFlight, tsPc, tsGet, tsAtStart, tsCached, tsAnswer>>

Go == INSTANCE GoCache WITH
          Goroutines <- Tasks, dedupe <- goDedupe, cache <- goCache, inm <- goInm,
          flight <- goFlight, pc <- goPc, get <- goGet, atStart <- goAtStart,
          cached <- goCached, sent <- goSent, answer <- goAnswer, result <- goResult
Ts == INSTANCE TsCache WITH
          Calls <- Tasks, dedupe <- tsDedupe, cache <- tsCache, flight <- tsFlight,
          pc <- tsPc, get <- tsGet, atStart <- tsAtStart, cached <- tsCached,
          answer <- tsAnswer

ASSUME GoEntriesAssumption == Nothing \notin Go!Entries

MCInit ==
    /\ sdk \in {"rust", "go", "ts"}
    /\ Init /\ Go!Init /\ Ts!Init
    /\ sdk # "rust" => ~dedupe
    /\ sdk # "go" => ~goDedupe
    /\ sdk # "ts" => ~tsDedupe

MCNext ==
    \/ sdk = "rust" /\ Next /\ UNCHANGED <<sdk, goVars, tsVars>>
    \/ sdk = "go" /\ Go!Next /\ UNCHANGED <<sdk, rustVars, tsVars>>
    \/ sdk = "ts" /\ Ts!Next /\ UNCHANGED <<sdk, rustVars, goVars>>

MCSpec == MCInit /\ [][MCNext]_<<sdk, vars, goVars, tsVars>>

-----------------------------------------------------------------------------
(* Rust and Go, with and without deduplication: a call never returns a     *)
(* version older than the entry it revalidates.                            *)
NeverOlder == NotOlderThanCached /\ Go!NotOlderThanCached

(* Go and TypeScript: an entry pairs the ETag and the body of one version  *)
(* of its own URL, whatever the calls shared and however they interleave;  *)
(* when no Go call is in progress the shared If-None-Match is gone.  The   *)
(* variables of the three caches keep their types.                         *)
EntriesCoherent ==
    /\ TypeOK /\ Go!TypeOK /\ Ts!TypeOK
    /\ Go!CacheCoherent /\ Ts!CacheCoherent
    /\ Go!HeaderCleaned

(* A result is the resource as it was at or after the start of the call:   *)
(* in TypeScript for every call that returns, leader or rider (one that is *)
(* answered 304 throws and has no result: see CachedBodyOn304), in Go for  *)
(* calls that no other overlaps, whatever overlapping calls before them    *)
(* left behind.  In Rust only this is claimed: without deduplication, no   *)
(* call returns the empty body of a 304.                                   *)
FreshResults == Go!FreshAlone /\ Ts!Fresh /\ NoEmptyResult
=============================================================================
