------------------------------ MODULE MCUpdate ------------------------------
(* Instance of Update for TLC. *)
EXTENDS Update, TLC

Number(n) == [numeric |-> TRUE, val |-> n]
Word(r)   == [numeric |-> FALSE, val |-> r]
Version(nums, pre) == [nums |-> nums, pre |-> pre]

\* Cores of one to three numbers, and pre-releases of up to two identifiers.
SomeVersions ==
  {Version(nums, pre) :
     nums \in {<<1>>, <<1, 0>>, <<1, 2>>, <<1, 2, 0>>, <<1, 2, 1>>, <<2>>},
     pre \in {<<>>, <<Word(0)>>, <<Word(1)>>, <<Word(0), Number(1)>>, <<Number(2)>>,
              <<Word(0), Word(0)>>}}

SomePublished == {Version(<<1, 2>>, <<>>)}

Updaters == Permutations(Procs)
=============================================================================
