----------------------------- MODULE MCNetfilter -----------------------------
(* Instances of Netfilter for TLC.                                          *)
EXTENDS Netfilter

BothFamilies == <<"v4", "v6">>
=============================================================================
