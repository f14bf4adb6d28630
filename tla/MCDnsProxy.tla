----------------------------- MODULE MCDnsProxy -----------------------------
(* Instance of DnsProxy for TLC. *)
EXTENDS DnsProxy, TLC

NoName == <<>>
Good   == <<"good", "test">>
Ads    == <<"ads", "test">>
AdsSub == <<"x", "ads", "test">>

SomeQueries == {Good, AdsSub}
SomeLists ==
  {{}, {[kind |-> "wildcard", name |-> Ads], [kind |-> "address", name |-> Good]}}
=============================================================================
