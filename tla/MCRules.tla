------------------------------ MODULE MCRules ------------------------------
(* Instances of Rules for TLC. *)
EXTENDS Rules, TLC

CONSTANTS t1, s1

P(interval, form, start, max, init) ==
  [valid |-> TRUE, interval |-> interval, form |-> form, start |-> start, max |-> max, init |-> init]
Invalid == [P(1, "TD", 0, 0, TRUE) EXCEPT !.valid = FALSE]

OneState == {s1}
Two == {t1, s1}
TimeTwo == {t1}

(* A rule of either kind that starts at once, without and with a maximum. *)
PeriodParams == {P(1, "TD", 0, 2, TRUE), P(2, "TD", 0, 0, TRUE), P(1, "TD", 0, 1, FALSE)}
EnsureParams == {P(2, "TD", 0, 1, TRUE), P(1, "TD", 0, 2, FALSE), Invalid}
=============================================================================
