----------------------------- MODULE DurableStore -----------------------------
(***************************************************************************)
(* What state.json and book-map.json promise: a map in memory, and a saved *)
(* map that is always one the memory once was.  A save may be refused,     *)
(* with an error; a restart goes back to the saved map.                    *)
(***************************************************************************)
CONSTANTS Keys, Values, None

VARIABLES current, saved

vars == <<current, saved>>

Map == [Keys -> Values \union {None}]
Empty == [k \in Keys |-> None]

Init == current = Empty /\ saved = Empty

Change(k, v) ==
    /\ current' = [current EXCEPT ![k] = v]
    /\ UNCHANGED saved

\* Saving writes the whole map: also changes whose own save was refused.
Save ==
    /\ saved' = current
    /\ UNCHANGED current

Restart ==
    /\ current' = saved
    /\ UNCHANGED saved

Next ==
    \/ \E k \in Keys, v \in Values \union {None} : Change(k, v)
    \/ Save
    \/ Restart

Spec == Init /\ [][Next]_vars
=============================================================================
