---------------------------- MODULE MCWhitelist ----------------------------
(***************************************************************************)
(* Instances of Whitelist for TLC.                                         *)
(***************************************************************************)
EXTENDS Whitelist, TLC

\* What fails: nothing, or the start of the proxy, after which the tunnel is
\* raised without it.
NoFailures    == {}
ProxyFailures == {"proxy"}
=============================================================================
