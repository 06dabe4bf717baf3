------------------------------ MODULE TaskBoard ------------------------------
(***************************************************************************)
(* What the scheduler promises to the services that hand it callbacks.  A  *)
(* task is new until its Add takes effect, then pending, claimed by the    *)
(* dispatcher, running, and gone.  It can be cancelled while it is pending *)
(* and at no other time, it begins at most once, and nothing begins once   *)
(* the board is closed.                                                    *)
(***************************************************************************)
CONSTANT Tasks

VARIABLES state, isOpen

vars == <<state, isOpen>>

Init == state = [n \in Tasks |-> "new"] /\ isOpen = TRUE

Move(n, from, to) == state[n] = from /\ state' = [state EXCEPT ![n] = to] /\ UNCHANGED isOpen

Schedule(n) == isOpen /\ Move(n, "new", "pending")
Refuse(n)   == ~isOpen /\ Move(n, "new", "gone")
Cancel(n)   == Move(n, "pending", "gone")
Claim(n)    == isOpen /\ Move(n, "pending", "claimed")
Begin(n)    == isOpen /\ Move(n, "claimed", "running")
Discard(n)  == ~isOpen /\ Move(n, "claimed", "gone")
End(n)      == Move(n, "running", "gone")

\* Closing drops whatever is pending.
Close ==
    /\ isOpen /\ isOpen' = FALSE
    /\ state' = [n \in Tasks |-> IF state[n] = "pending" THEN "gone" ELSE state[n]]

Next == \/ Close
        \/ \E n \in Tasks : \/ Schedule(n) \/ Refuse(n) \/ Cancel(n) \/ Claim(n)
                            \/ Begin(n) \/ Discard(n) \/ End(n)

Spec == Init /\ [][Next]_vars
=============================================================================
