------------------------------ MODULE MCDedup -------------------------------
(***************************************************************************)
(* The request dedupers of the generated SDKs in one model: the initial    *)
(* state chooses the SDK that runs, the others stay where they start.      *)
(***************************************************************************)
EXTENDS RustDedup

CONSTANTS NullBody, TypeError,
          TwoKeys   \* keys of the Go and the TypeScript deduper

ASSUME TsValuesAssumption ==
    /\ {Nothing, "open", TypeError} \cap (Outcomes \cup NullBody) = {}
    /\ Nothing \notin {"open", TypeError} /\ TypeError # "open"
    /\ Nothing \notin [key : TwoKeys, got : Outcomes \cup {TypeError, Nothing}]

VARIABLES sdk,
          goInflight, goOutcome, goDone, goPc, goKey, goRide, goResult,
          tsInFlight, tsSettled, tsResolved, tsPc, tsKey, tsRide, tsResult

goVars == <<goInflight, goOutcome, goDone, goPc, goKey, goRide, goResult>>
tsVars == <<tsInFlight, tsSettled, tsResolved, tsPc, tsKey, tsRide, tsResult>>

Go == INSTANCE GoDedup WITH
          Keys <- TwoKeys,
          inflight <- goInflight, outcome <- goOutcome, done <- goDone,
          pc <- goPc, key <- goKey, ride <- goRide, result <- goResult
Ts == INSTANCE TsDedup WITH
          Keys <- TwoKeys, Bodied <- Oks, Errors <- Errs,
          inFlight <- tsInFlight, settled <- tsSettled, resolved <- tsResolved,
          pc <- tsPc, key <- tsKey, ride <- tsRide, result <- tsResult

MCInit == sdk \in {"rust", "go", "ts"} /\ Init /\ Go!Init /\ Ts!Init

MCNext ==
    \/ sdk = "rust" /\ Next /\ UNCHANGED <<sdk, goVars, tsVars>>
    \/ sdk = "go" /\ Go!Next /\ UNCHANGED <<sdk, vars, tsVars>>
    \/ sdk = "ts" /\ Ts!Next /\ UNCHANGED <<sdk, vars, goVars>>

MCSpec ==
    /\ MCInit
    /\ [][MCNext]_<<sdk, vars, goVars, tsVars>>
    /\ \/ sdk = "rust" /\ Fairness
       \/ sdk = "go" /\ Go!Fairness
       \/ sdk = "ts" /\ Ts!Fairness

-----------------------------------------------------------------------------
(* The maps list flights in progress only.  Rust: the entry of a key is    *)
(* its only leader's.  Go: the map lists exactly the flights whose leader  *)
(* is inside Do.  TypeScript: no listed promise has settled.  The          *)
(* variables of all three keep their types.                                *)
MapsExact ==
    /\ OneLeader /\ Go!MapExact /\ Ts!ListedIsOpen
    /\ TypeOK /\ Go!TypeOK /\ Ts!TypeOK

(* Every call returns: in Rust unless the leader of its key was dropped,   *)
(* in Go and TypeScript always; and only a drop leaves an entry without    *)
(* its leader in the Rust map.                                             *)
NobodyWaitsForever ==
    /\ OnlyDropsOrphan
    /\ EveryCallReturns /\ Go!EveryCallReturns /\ Ts!EveryCallSettles

(* Do in Go and dedupe in TypeScript implement the single flight: for      *)
(* callers that join a flight between its wg.Done and its deletion, and    *)
(* for responses that cannot be rebuilt, too.                              *)
SharesFlights == Go!ImplementsSingleFlight /\ Ts!ImplementsSingleFlight
=============================================================================
