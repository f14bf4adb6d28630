----------------------------- MODULE MCNetstack -----------------------------
(* Instances of Netstack for TLC. *)
EXTENDS Netstack, TLC

\* Addresses of two bits; all flows come from the same peer.
OnePeer == [f \in Flows |-> <<0, 1>>]

Spec1(prefix, up, down) == [prefix |-> prefix, up |-> up, down |-> down]

\* A limited site, and in it a peer without limits and one whose uploads are
\* limited further.
SomeSpecs ==
  {<<Spec1(<<0>>, 2, 0), Spec1(<<0, 0>>, 0, 0), Spec1(<<0, 1>>, 1, 0)>>}

\* Uploads are paced, so they get room for reads of every size.
UpMore == [up |-> 2, down |-> 1]

OnlyLimited == {<<Spec1(<<0, 1>>, 1, 1)>>}
=============================================================================
