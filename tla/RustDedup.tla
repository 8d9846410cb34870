----------------------------- MODULE RustDedup ------------------------------
(***************************************************************************)
(* dedup.rs of a generated Rust SDK: RequestDeduper::dedupe.  A tokio      *)
(* broadcast channel stands for the flight: the map holds one sender, the  *)
(* leader another, and a follower subscribes under the map's lock.  A      *)
(* receiver gets what is sent after it subscribed, and an error once every *)
(* sender is gone.  The leader sends first and locks the map afterwards to *)
(* remove the entry, and each of its awaits is a point where its future    *)
(* may be dropped.                                                         *)
(***************************************************************************)
EXTENDS Naturals, FiniteSets

CONSTANTS Callers,    \* tasks that share one client
          Keys,       \* method, URL and query
          Oks,        \* successful responses of f
          Errs,       \* errors of f
          Message,    \* Error::Message(text of an error of f)
          Closed,     \* Error::Message("dedupe channel closed")
          Nothing

ASSUME ValuesAssumption ==
    /\ Oks \cap Errs = {}
    /\ {Message, Closed, Nothing} \cap (Oks \cup Errs) = {}
    /\ Message # Closed /\ Nothing \notin {Message, Closed} /\ Nothing \notin Nat
ASSUME CallersAssumption == IsFiniteSet(Callers) /\ IsFiniteSet(Keys)

Outcomes == Oks \cup Errs

(* Channels: one per leader, reused once nobody holds an end of it. *)
Chans == 1 .. Cardinality(Callers) + Cardinality(Keys)

VARIABLES inflight,   \* the map: key -> channel of the sender it holds
          pc,         \* pc[t]: where task t stands
          key,        \* key[t]: the key it calls dedupe with
          chan,       \* chan[t]: the channel it sends to or receives from
          inbox,      \* inbox[t]: what its receiver holds
          result,     \* result[t]: what f returned to it, or dedupe returns
          landed,     \* history: landed[f]: what f() of channel f's leader gave
          late        \* history: late[t]: it subscribed after the send

vars == <<inflight, pc, key, chan, inbox, result, landed, late>>

PcStates == {"idle", "running", "sending", "removing", "receiving", "returned"}

Init ==
    /\ inflight = [k \in Keys |-> Nothing]
    /\ pc = [t \in Callers |-> "idle"]
    /\ key = [t \in Callers |-> Nothing]
    /\ chan = [t \in Callers |-> Nothing]
    /\ inbox = [t \in Callers |-> Nothing]
    /\ result = [t \in Callers |-> Nothing]
    /\ landed = [f \in Chans |-> Nothing]
    /\ late = [t \in Callers |-> FALSE]

Fresh == CHOOSE f \in Chans : /\ \A t \in Callers : chan[t] # f
                              /\ \A k \in Keys : inflight[k] # f

(* The key is in the map: subscribe, drop the lock, recv().await. *)
Follow(t, k) ==
    /\ pc[t] = "idle"
    /\ inflight[k] # Nothing
    /\ pc' = [pc EXCEPT ![t] = "receiving"]
    /\ key' = [key EXCEPT ![t] = k]
    /\ chan' = [chan EXCEPT ![t] = inflight[k]]
    /\ late' = [late EXCEPT ![t] = \E d \in Callers : /\ chan[d] = inflight[k]
                                                     /\ pc[d] = "removing"]
    /\ UNCHANGED <<inflight, inbox, result, landed>>

(* Faulty look-up: the lock is dropped between get and insert. *)
LeadAlways(t, k) ==
    /\ pc[t] = "idle"
    /\ inflight' = [inflight EXCEPT ![k] = Fresh]
    /\ landed' = [landed EXCEPT ![Fresh] = Nothing]
    /\ pc' = [pc EXCEPT ![t] = "running"]
    /\ key' = [key EXCEPT ![t] = k]
    /\ chan' = [chan EXCEPT ![t] = Fresh]
    /\ UNCHANGED <<inbox, result, late>>

(* It is not: insert a sender of a new channel, drop the lock, start f. *)
Lead(t, k) ==
    /\ pc[t] = "idle"
    /\ inflight[k] = Nothing
    /\ inflight' = [inflight EXCEPT ![k] = Fresh]
    /\ landed' = [landed EXCEPT ![Fresh] = Nothing]
    /\ pc' = [pc EXCEPT ![t] = "running"]
    /\ key' = [key EXCEPT ![t] = k]
    /\ chan' = [chan EXCEPT ![t] = Fresh]
    /\ UNCHANGED <<inbox, result, late>>

(* f().await is done. *)
Finish(t, o) ==
    /\ pc[t] = "running"
    /\ result' = [result EXCEPT ![t] = o]
    /\ landed' = [landed EXCEPT ![chan[t]] = o]
    /\ pc' = [pc EXCEPT ![t] = "sending"]
    /\ UNCHANGED <<inflight, key, chan, inbox, late>>

(* What goes over the channel: a response as it is, an error as its text. *)
Wire(o) == IF o \in Oks THEN o ELSE Message

(* Faulty leader: nothing is sent. *)
SendForgotten(t) ==
    /\ pc[t] = "sending"
    /\ pc' = [pc EXCEPT ![t] = "removing"]
    /\ UNCHANGED <<inflight, key, chan, inbox, result, landed, late>>

(* Faulty leader: one channel for all keys. *)
SendToAll(t) ==
    /\ pc[t] = "sending"
    /\ inbox' = [d \in Callers |->
                    IF pc[d] = "receiving" THEN Wire(result[t]) ELSE inbox[d]]
    /\ pc' = [pc EXCEPT ![t] = "removing"]
    /\ UNCHANGED <<inflight, key, chan, result, landed, late>>

(* tx.send(wire) reaches the receivers that exist now. *)
Send(t) ==
    /\ pc[t] = "sending"
    /\ inbox' = [d \in Callers |->
                    IF pc[d] = "receiving" /\ chan[d] = chan[t]
                    THEN Wire(result[t]) ELSE inbox[d]]
    /\ pc' = [pc EXCEPT ![t] = "removing"]
    /\ UNCHANGED <<inflight, key, chan, result, landed, late>>

(* lock().await; map.remove(&key); the leader returns and drops its sender. *)
Remove(t) ==
    /\ pc[t] = "removing"
    /\ inflight' = [inflight EXCEPT ![key[t]] = Nothing]
    /\ pc' = [pc EXCEPT ![t] = "returned"]
    /\ UNCHANGED <<key, chan, inbox, result, landed, late>>

(* recv() yields what was sent. *)
Recv(t) ==
    /\ pc[t] = "receiving"
    /\ inbox[t] # Nothing
    /\ result' = [result EXCEPT ![t] = inbox[t]]
    /\ pc' = [pc EXCEPT ![t] = "returned"]
    /\ UNCHANGED <<inflight, key, chan, inbox, landed, late>>

Leading(t) == pc[t] \in {"running", "sending", "removing"}

(* A sender of channel f is left: the leader's or the one in the map. *)
SenderLeft(f) ==
    \/ \E t \in Callers : Leading(t) /\ chan[t] = f
    \/ \E k \in Keys : inflight[k] = f

(* recv() fails: nothing arrived and every sender is gone. *)
RecvClosed(t) ==
    /\ pc[t] = "receiving"
    /\ inbox[t] = Nothing
    /\ ~SenderLeft(chan[t])
    /\ result' = [result EXCEPT ![t] = Closed]
    /\ pc' = [pc EXCEPT ![t] = "returned"]
    /\ UNCHANGED <<inflight, key, chan, inbox, landed, late>>

(* The task's local state goes away: after a return, or when its future is *)
(* dropped.                                                                *)
Forget(t) ==
    /\ pc' = [pc EXCEPT ![t] = "idle"]
    /\ key' = [key EXCEPT ![t] = Nothing]
    /\ chan' = [chan EXCEPT ![t] = Nothing]
    /\ inbox' = [inbox EXCEPT ![t] = Nothing]
    /\ result' = [result EXCEPT ![t] = Nothing]
    /\ late' = [late EXCEPT ![t] = FALSE]
    /\ landed' = [f \in Chans |->    \* of the channels somebody still holds
                    IF \/ \E d \in Callers \ {t} : chan[d] = f
                       \/ \E k \in Keys : inflight[k] = f
                    THEN landed[f] ELSE Nothing]
    /\ UNCHANGED inflight

Leave(t) == pc[t] = "returned" /\ Forget(t)

(* The future of dedupe is dropped at an await (a select!, a timeout around *)
(* the call, an aborted task).  The map is not told.                        *)
Drop(t) == pc[t] \in {"running", "removing", "receiving"} /\ Forget(t)

Next == \E t \in Callers :
            \/ \E k \in Keys : Follow(t, k) \/ Lead(t, k)
            \/ \E o \in Outcomes : Finish(t, o)
            \/ Send(t) \/ Remove(t) \/ Recv(t) \/ RecvClosed(t) \/ Leave(t) \/ Drop(t)

Spec == Init /\ [][Next]_vars

(* Tasks are polled, f ends (each attempt has a timeout), and tokio's      *)
(* Mutex is fair.                                                          *)
Fairness == \A t \in Callers :
                /\ WF_vars(\E o \in Outcomes : Finish(t, o))
                /\ WF_vars(Send(t)) /\ WF_vars(Remove(t))
                /\ WF_vars(Recv(t)) /\ WF_vars(RecvClosed(t))

FairSpec == Spec /\ Fairness

-----------------------------------------------------------------------------
(* Type invariant. *)
TypeOK ==
    /\ inflight \in [Keys -> Chans \cup {Nothing}]
    /\ pc \in [Callers -> PcStates]
    /\ key \in [Callers -> Keys \cup {Nothing}]
    /\ chan \in [Callers -> Chans \cup {Nothing}]
    /\ inbox \in [Callers -> Oks \cup {Message, Nothing}]
    /\ result \in [Callers -> Outcomes \cup {Message, Closed, Nothing}]
    /\ landed \in [Chans -> Outcomes \cup {Nothing}]
    /\ late \in [Callers -> BOOLEAN]

(* There is one leader per key, and the entry of the key is its own: no    *)
(* leader removes the entry of another.                                    *)
OneLeader == \A t \in Callers : Leading(t) => inflight[key[t]] = chan[t]

(* An entry without a leader: later callers wait for a send that never     *)
(* comes, and the sender in the map keeps the channel open.                *)
Orphaned(k) ==
    inflight[k] # Nothing /\ \A t \in Callers : ~(Leading(t) /\ key[t] = k)

(* No entry outlives its leader, unless the leader's future was dropped.   *)
OnlyDropsOrphan ==
    [][\A k \in Keys : Orphaned(k)' => Orphaned(k) \/ \E t \in Callers : Drop(t)]_vars

(* A follower never gets what another flight landed with: what it returns  *)
(* is its own flight's outcome or the closed channel.                      *)
NoForeignResult ==
    \A t \in Callers : pc[t] = "returned" =>
        result[t] \in {landed[chan[t]], Wire(landed[chan[t]]), Closed}

(* Nobody who subscribed before the leader's send is left out, however the *)
(* removal, the receptions and the next flights of the key interleave.     *)
EarlyFollowersServed ==
    \A t \in Callers : pc[t] = "returned" /\ ~late[t] => result[t] # Closed

(* A call of dedupe returns, unless the leader of its key was dropped. *)
EveryCallReturns ==
    \A t \in Callers :
        pc[t] \in {"running", "receiving"}
            ~> \/ pc[t] \in {"returned", "idle"}
               \/ \E k \in Keys : key[t] = k /\ Orphaned(k)
=============================================================================
