------------------------------ MODULE MCAlarms ------------------------------
(* An instance of Alarms for TLC: one row names a category, the other     *)
(* matches any.                                                              *)
EXTENDS Alarms

RowResources(r) == Resource
RowCategories(r) == IF r = "c1" THEN {"c1"} ELSE Category
=============================================================================
