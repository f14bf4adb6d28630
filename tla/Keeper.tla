------------------------------- MODULE Keeper -------------------------------
(***************************************************************************)
(* What the daemon promises of its configuration, whatever the requests,   *)
(* the devices and the failures are: a view that answers are given from,   *)
(* a saved copy that survives the process, and answers.                    *)
(*                                                                         *)
(* The view and the saved copy come apart only in a step that answers with *)
(* an error, no step answers ok while they differ, nothing is ever saved   *)
(* but the view, and a daemon starts with what the last one has saved.     *)
(***************************************************************************)

VARIABLES saved, view, mode, answer     \* mode: off, on; answer: none, ok, error

vars == <<saved, view, mode, answer>>

Init == view = saved /\ mode = "off" /\ answer = "none"

\* Some change is made and saved, and answered now or later.
Keep ==
  /\ mode = "on" /\ UNCHANGED mode
  /\ saved' = view'
  /\ answer' \in {"none", "ok", "error"}

\* A change is made and cannot be saved, or is refused half way.
Stray ==
  /\ mode = "on" /\ UNCHANGED <<mode, saved>>
  /\ answer' = "error"

\* Nothing changes and something is answered; a mere reader is told nothing of
\* what is saved.
Report ==
  /\ mode = "on" /\ UNCHANGED <<mode, saved, view>>
  /\ answer' \in {"none", "ok", "error"}
  /\ answer' = "ok" => view = saved

Stop  == mode = "on" /\ mode' = "off" /\ view' = saved /\ answer' = "none" /\ UNCHANGED saved
Start == mode = "off" /\ mode' = "on" /\ answer' \in {"none", "ok"} /\ UNCHANGED <<saved, view>>

Next == Keep \/ Stray \/ Report \/ Stop \/ Start

Spec == Init /\ [][Next]_vars

=============================================================================
