---------------------------- MODULE ProfileLedger ----------------------------
(***************************************************************************)
(* What the profile store promises the game (package comment of            *)
(* server/sporenet/savebuffer/buffer.go): a player plays the latest        *)
(* accepted version of the profile, the durable version follows it at its  *)
(* own pace, "a process failure can lose recent changes" but nothing else. *)
(* A version has two parts because lifetime counters are also accepted on  *)
(* their own.                                                              *)
(***************************************************************************)
EXTENDS Integers

CONSTANTS Users, None

VARIABLES
    latest,     \* the version last accepted
    durable,    \* the version a restart would find
    playing     \* the version a logged-in player sees; None without a session

ledger == <<latest, durable, playing>>

IsUpTo(v, w) == v.profile <= w.profile /\ v.stats <= w.stats

New == [profile |-> 0, stats |-> 0]

Init == /\ latest = [u \in Users |-> New]
        /\ durable = [u \in Users |-> New]
        /\ playing = [u \in Users |-> None]

Login(u) == /\ playing[u] = None
            /\ playing' = [playing EXCEPT ![u] = latest[u]]
            /\ UNCHANGED <<latest, durable>>

\* A change is accepted; with a logout the player is gone afterwards.
Change(u) == /\ playing[u] # None
             /\ IsUpTo(latest[u], latest'[u])
             /\ latest' = [latest EXCEPT ![u] = latest'[u]]
             /\ \/ playing' = [playing EXCEPT ![u] = latest'[u]]
                \/ playing' = [playing EXCEPT ![u] = None]
             /\ UNCHANGED durable

\* The durable version catches up, though not necessarily with the latest.
Persist(u) == /\ IsUpTo(durable[u], durable'[u])
              /\ IsUpTo(durable'[u], latest[u])
              /\ durable' = [durable EXCEPT ![u] = durable'[u]]
              /\ UNCHANGED <<latest, playing>>

\* The process ends, in order or not, and another one starts.
Restart == /\ latest' = durable
           /\ playing' = [u \in Users |-> None]
           /\ UNCHANGED durable

Next == Restart \/ \E u \in Users : Login(u) \/ Change(u) \/ Persist(u)

Spec == Init /\ [][Next]_ledger
=============================================================================
