---------------------------- MODULE MCRateLimit -----------------------------
(* Instance of RateLimit: the rules in small.                              *)
EXTENDS RateLimit

Limits == [authentication |-> 2, read |-> 1]
AddressLimits == [authentication |-> 2, read |-> 2]
Windows == [authentication |-> 2, read |-> 1]
=============================================================================
