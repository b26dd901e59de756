----------------------------- MODULE MCMonitor -----------------------------
(***************************************************************************)
(* Instances of Monitor for TLC: three devices of which the third has the  *)
(* host name of the first (MCReuse), or two with their own (MCOwn).        *)
(***************************************************************************)
EXTENDS Monitor, TLC

CONSTANTS d1, d2, d3, h1, h2

MCReuse   == d1 :> h1 @@ d2 :> h2 @@ d3 :> h1
MCOwn     == [d \in Device |-> IF d = d1 THEN h1 ELSE h2]
MCAnyCall == Call
MCReads   == {"group", "show", "deactivate"}
=============================================================================
