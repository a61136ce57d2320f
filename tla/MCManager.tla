------------------------------ MODULE MCManager ------------------------------
(* Instances of Database for TLC.                                           *)
EXTENDS Database

NoLog == {[enabled |-> FALSE, rx_rpt |-> FALSE, limit |-> 50]}
MCLower == [e \in Eid |-> IF e = "E1" THEN "e1" ELSE e]
MCRptSets == {<<2, 1>>}
=============================================================================
