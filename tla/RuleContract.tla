---------------------------- MODULE RuleContract ----------------------------
(***************************************************************************)
(* What a rule promises, without a timeline: amm/tbr.h and amm/sbr.h.      *)
(* A rule executes only while it is enabled and the agent is not ending,   *)
(* at most max times after each enabling, and never sooner after its last  *)
(* execution than its interval.                                            *)
(***************************************************************************)
EXTENDS Integers

CONSTANT Rule

VARIABLES now, enabled, limit, count, last, ended

vars == <<now, enabled, limit, count, last, ended>>

Init ==
  /\ enabled = [r \in Rule |-> FALSE] /\ count = [r \in Rule |-> 0]
  /\ last = [r \in Rule |-> -1] /\ ended = FALSE

Execute ==
  /\ ~ ended
  /\ \E r \in Rule :
       /\ enabled[r]
       /\ limit[r].max > 0 => count[r] < limit[r].max
       /\ last[r] # -1 => now >= last[r] + limit[r].interval
       /\ count' = [count EXCEPT ![r] = @ + 1]
       /\ last' = [last EXCEPT ![r] = now]
  /\ UNCHANGED <<now, enabled, limit, ended>>

(* A rule is given other limits, enabled, which restarts its count, or     *)
(* disabled; at most one rule at a time.                                   *)
Control ==
  /\ \E r \in Rule :
       /\ \A s \in Rule \ {r} : enabled'[s] = enabled[s] /\ limit'[s] = limit[s] /\ count'[s] = count[s]
       /\ count'[r] = count[r] \/ (count'[r] = 0 /\ enabled'[r])
  /\ UNCHANGED <<now, last, ended>>

Tick == now' = now + 1 /\ UNCHANGED <<enabled, limit, count, last, ended>>

End == ended' = TRUE /\ UNCHANGED <<now, enabled, limit, count, last>>

Next == Execute \/ Control \/ Tick \/ End

Spec == Init /\ [][Next]_vars
=============================================================================
