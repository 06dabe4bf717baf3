--------------------------- MODULE AdmissionPolicy ---------------------------
(***************************************************************************)
(* What maintenance promises (deployment/README.md, "Maintenance"): once   *)
(* an operation has been activated, nobody enters the game until the       *)
(* operation has been released, by an operator's cancellation or by the    *)
(* supervisor's final outcome; crashes and restarts do not open the gate.  *)
(***************************************************************************)
EXTENDS Naturals

CONSTANTS Players, Operations, Open

VARIABLES
    holding,    \* the operation that keeps the game closed, or Open
    released,   \* the operations that may let go
    inside      \* players inside an entry: a login, or the making of a game

policy == <<holding, released, inside>>

Init == holding = Open /\ released = {} /\ inside = {}

Enter(p) == /\ holding = Open
            /\ inside' = inside \cup {p}
            /\ UNCHANGED <<holding, released>>

Leave(p) == inside' = inside \ {p} /\ UNCHANGED <<holding, released>>

Release(o) == released' = released \cup {o} /\ UNCHANGED <<holding, inside>>

\* Nobody is left inside when an operation begins to hold.
Hold(o) == /\ holding = Open
           /\ holding' = o
           /\ inside' = {}
           /\ released' \in {released, released \cup {o}}

Reopen == /\ holding \in released'
          /\ holding' = Open
          /\ inside' \in {inside, {}}
          /\ released' \in {released, released \cup {holding}}

Restart == inside' = {} /\ UNCHANGED <<holding, released>>

Next == \/ \E p \in Players : Enter(p) \/ Leave(p)
        \/ \E o \in Operations : Release(o) \/ Hold(o)
        \/ Reopen \/ Restart

Spec == Init /\ [][Next]_policy
=============================================================================
