------------------------------- MODULE Drain -------------------------------
(***************************************************************************)
(* What a server with a Close promises: it opens with some tasks, a task   *)
(* may start others, also while it is closing, and Close returns when the  *)
(* last has left; after that none ever runs.                               *)
(***************************************************************************)

VARIABLES state, active     \* state: new, open, closing, closed; the tasks that run

vars == <<state, active>>

Init == state = "new" /\ active = {}

Opens  == state = "new" /\ state' = "open" /\ active' # {}

\* An open that failed leaves nothing behind.
Fails  == state = "new" /\ state' = "closed" /\ active' = {}

\* Only what runs can start something.
Starts ==
  /\ active # {} /\ UNCHANGED state
  /\ \E t \in active' : t \notin active /\ active' = active \cup {t}

Leaves == UNCHANGED state /\ \E t \in active : active' = active \ {t}

Closes == state = "open" /\ state' = "closing" /\ UNCHANGED active

Closed == state = "closing" /\ active = {} /\ state' = "closed" /\ UNCHANGED active

Next == Opens \/ Fails \/ Starts \/ Leaves \/ Closes \/ Closed

Spec == Init /\ [][Next]_vars

=============================================================================
