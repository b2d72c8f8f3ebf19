------------------------------ MODULE ItemLock ------------------------------
(***************************************************************************)
(* What Relay Post promises of its items: an item is held for at most one  *)
(* reservation, a reservation is over once its hold ended, and an item     *)
(* that was released to a reservation is never held or released again.     *)
(***************************************************************************)
CONSTANTS Item, Reservation, Free

VARIABLES held,      \* the reservation an item is held for, or Free
          released,  \* the reservation an item was released to, or Free
          over       \* the reservations that expired or ended in a release

vars == <<held, released, over>>

Init ==
  /\ held = [i \in Item |-> Free]
  /\ released = [i \in Item |-> Free]
  /\ over = {}

\* One step of the store: holds whose time is over are given up, and then at
\* most one item is held or released.
Kept(expired) == [i \in Item |-> IF held[i] \in expired THEN Free ELSE held[i]]

Expire(expired) ==
  /\ held' = Kept(expired)
  /\ over' = over \cup expired
  /\ UNCHANGED released

Hold(expired, i, r) ==
  /\ Kept(expired)[i] = Free
  /\ released[i] = Free
  /\ r \notin over \cup expired
  /\ \A j \in Item : held[j] # r
  /\ held' = [Kept(expired) EXCEPT ![i] = r]
  /\ over' = over \cup expired
  /\ UNCHANGED released

Release(expired, i) ==
  /\ held[i] \notin expired \cup {Free}
  /\ held' = [Kept(expired) EXCEPT ![i] = Free]
  /\ released' = [released EXCEPT ![i] = held[i]]
  /\ over' = over \cup expired \cup {held[i]}

Held == {held[i] : i \in Item} \ {Free}

Next ==
  \E expired \in SUBSET Held :
    \/ Expire(expired)
    \/ \E i \in Item : Release(expired, i) \/ \E r \in Reservation : Hold(expired, i, r)

Spec == Init /\ [][Next]_vars
=============================================================================
