----------------------------- MODULE MCDiscovery -----------------------------
(* Instance of Discovery for TLC: one run, and as many owner sessions as   *)
(* the desktop process makes connections before TLC stops handing them out.*)
EXTENDS Discovery
=============================================================================
