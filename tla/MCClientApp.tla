---------------------------- MODULE MCClientApp ----------------------------
(***************************************************************************)
(* Instances of ClientApp for TLC.                                         *)
(***************************************************************************)
EXTENDS ClientApp, TLC

AllRequests == {"toggle", "connect", "disconnect"}

\* Goroutines of a kind are alike.
GoroutineSymmetry == Permutations(Users) \cup Permutations(Monitors)
=============================================================================
