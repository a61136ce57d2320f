------------------------------- MODULE MCExec -------------------------------
(* The instance of Exec for TLC: a small object store of controls and macros. *)
EXTENDS Exec, TLC

C(o, t, a, n) == [op |-> o, tgt |-> t, alt |-> a, time |-> n]

(* What a target expands to, which is the part of module Expansion: target   *)
(* names are numbers, the null value is 0, and a macro has the controls       *)
(* before the first item that is none.                                      *)
Ctrls(ctrls, parts) == IF \A i \in DOMAIN parts : parts[i] \in DOMAIN ctrls THEN parts
                       ELSE SubSeq(parts, 1, (CHOOSE i \in DOMAIN parts :
                              /\ parts[i] \notin DOMAIN ctrls
                              /\ \A j \in 1 .. (i - 1) : parts[j] \in DOMAIN ctrls) - 1)
Store(n, ctrls, macros) ==
  [t \in 0 .. n |->
     LET parts == IF t \in DOMAIN macros THEN macros[t] ELSE <<t>>
     IN [items |-> Ctrls(ctrls, parts), ok |-> \A i \in DOMAIN parts : parts[i] \in DOMAIN ctrls]]

(* Macros with branches, catches and waits; targets that do not expand: 0   *)
(* by itself, in the macro 14 and behind the deadline 13.  From 15 on,       *)
(* deadlines that expire, are met, coincide with their target or fail.      *)
MCTargets == 0 .. 24
MCCtrls ==
  (1 :> C("ok", 0, 0, 0)) @@ (2 :> C("fail", 0, 0, 0)) @@
  (3 :> C("wait_for", 0, 0, 1)) @@ (4 :> C("wait_until", 0, 0, 1)) @@
  (5 :> C("wait_cond", 0, 0, 1)) @@
  (7 :> C("catch", 6, 10, 0)) @@ (8 :> C("if_then_else", 10, 0, 0)) @@
  (9 :> C("catch", 3, 0, 0)) @@ (13 :> C("exec_deadline", 14, 1, 1)) @@
  (15 :> C("wait_for", 0, 0, 2)) @@
  (18 :> C("exec_deadline", 16, 1, 1)) @@ (19 :> C("exec_deadline", 16, 0, 3)) @@
  (20 :> C("exec_deadline", 15, 1, 2)) @@ (21 :> C("exec_deadline", 17, 0, 3)) @@
  (22 :> C("exec_deadline", 23, 1, 0))
MCMacros ==
  (6 :> <<3, 2, 1>>) @@ (10 :> <<1, 3>>) @@ (11 :> <<7, 8, 1>>) @@ (12 :> <<9, 5, 4>>) @@
  (14 :> <<1, 0>>) @@ (16 :> <<15, 1>>) @@ (17 :> <<15, 2>>) @@ (23 :> <<>>) @@ (24 :> <<18, 1, 19>>)
MCExpand == Store(24, MCCtrls, MCMacros)
MCCtrlNames == DOMAIN MCCtrls
MCInputs == {<<11, 12>>, <<12, 2, 8>>, <<14, 13>>, <<24, 21>>, <<20, 22>>, <<21, 20>>}
=============================================================================
