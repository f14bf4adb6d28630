------------------------------ MODULE MCLogin ------------------------------
(* Instance of Login for TLC. *)
EXTENDS Login, TLC

AllFaults == {"disk", "crash", "reset"}
=============================================================================
