------------------------------- MODULE Rules -------------------------------
(***************************************************************************)
(* Time-based and state-based rules: the rule part of exec.c, the rule     *)
(* descriptors (amm/tbr.c, amm/sbr.c), their start at refda_agent_init_objs*)
(* and the controls ensure-tbr, ensure-sbr, ensure-rule-enabled,           *)
(* reset-rule-enabled and obsolete-rule.                                   *)
(*                                                                         *)
(* Everything here runs in the exec worker, one callback or control at a   *)
(* time; around it the clock ticks and conditions change.  Times are POSIX *)
(* times, and a TP value is taken for one, as the code does.               *)
(***************************************************************************)
EXTENDS Integers, FiniteSets

CONSTANTS
  Rule,       \* the rules that may exist
  TBRs,       \* the time-based ones; the others are state-based
  AdmRules,   \* the ones an ADM registers before the agent starts
  Params,     \* parameters a rule may be given
  Ops,        \* the controls on rules that managers use
  MaxOps,     \* bound on their number
  OpsBy,      \* bound on their time
  Boot,       \* the time at start
  MaxTime,    \* bound on the clock
  BusyBy,     \* from this time on the worker runs an event when it is due
  CountMod    \* counters wrap around at this value (2^64 in the code)

ASSUME RuleAssumption == TBRs \subseteq Rule /\ AdmRules \subseteq Rule /\ IsFiniteSet(Rule)
ASSUME ParamsAssumption ==
  Params \subseteq [valid : BOOLEAN, interval : Nat, form : {"TD", "TP"}, start : Nat,
                    max : Nat, init : BOOLEAN]
ASSUME OpsAssumption == Ops \subseteq {"ensure", "enable", "disable", "reset", "obsolete"}
ASSUME BoundsAssumption ==
  MaxOps \in Nat /\ OpsBy \in Nat /\ BusyBy \in Nat
  /\ Boot \in Nat /\ MaxTime \in Nat /\ CountMod \in Nat \ {0}

VARIABLES
  now, conds,            \* the clock; the state-based rules whose condition is truthy
  started,               \* whether refda_agent_init_objs has run
  exists, obsolete,      \* the rule objects in the store
  param,                 \* what each was last given
  enabled, exec_count,   \* the rule state
  timeline,              \* the rule events of agent->exec_timeline
  exec_end,              \* agent->exec_end
  num_tbrs, num_sbrs,    \* agent->instr.num_tbrs, num_sbrs
  fired, last,           \* times executed since made, time of the last (history)
  ops                    \* controls used so far

store == <<exists, obsolete, param>>
state == <<enabled, exec_count, timeline, num_tbrs, num_sbrs>>
history == <<fired, last>>
vars == <<now, conds, started, exists, obsolete, param, enabled, exec_count,
          timeline, exec_end, num_tbrs, num_sbrs, fired, last, ops>>

(* Parameters of a descriptor fresh from refda_amm_*_desc_init. *)
NoParam == [valid |-> FALSE, interval |-> 0, form |-> "TD", start |-> 0, max |-> 0, init |-> TRUE]

Init ==
  /\ now = Boot /\ conds \in SUBSET (Rule \ TBRs)
  /\ started = FALSE
  /\ exists = AdmRules /\ obsolete = {}
  /\ param \in {f \in [Rule -> Params \cup {NoParam}] :
                  \A r \in Rule : IF r \in AdmRules THEN f[r] \in Params /\ f[r].valid
                                  ELSE f[r] = NoParam}
  /\ enabled = [r \in Rule |-> FALSE] /\ exec_count = [r \in Rule |-> 0]
  /\ timeline = {} /\ exec_end = FALSE
  /\ num_tbrs = 0 /\ num_sbrs = 0
  /\ fired = [r \in Rule |-> 0] /\ last = [r \in Rule |-> -1]
  /\ ops = 0

(* Mutant: one execution too many. *)
reached_max_late(count, max) == count > 0 /\ max > 0 /\ count > max

(* refda_amm_tbr_desc_reached_max_exec_count, and the same for an SBR. *)
reached_max(count, max) == count > 0 /\ max > 0 /\ count >= max

(* refda_exec_tbr_next_scheduled_time and refda_exec_sbr_next_scheduled_   *)
(* time.  absolute_start_time keeps its initial zero: nothing sets it.     *)
absolute_start_time == 0

next_scheduled_time(r, p, starting) ==
  IF r \notin TBRs \/ ~ starting THEN now + p.interval
  ELSE IF p.form = "TP" THEN p.start
  ELSE IF p.start = 0 THEN now
  ELSE absolute_start_time + p.start

(* A time read from the clock is its own key on the timeline (refda_       *)
(* timeline_push would replace an event of equal time); sub stands for its *)
(* nanoseconds.                                                            *)
FreshSub(ts) == CHOOSE n \in 1 .. Cardinality(timeline) + 1 :
                  \A e \in timeline : e.ts = ts => e.sub # n

FromClock(r, p, starting) ==
  r \notin TBRs \/ ~ starting \/ (p.form = "TD" /\ p.start = 0)

EventFor(r, p, starting) ==
  LET ts == next_scheduled_time(r, p, starting)
  IN [ts |-> ts, sub |-> IF FromClock(r, p, starting) THEN FreshSub(ts) ELSE 0, rule |-> r]

TimelinePush(tl, e) == {f \in tl : f.ts # e.ts \/ f.sub # e.sub} \cup {e}

Count(n, by) == (n + by + CountMod) % CountMod

(* instr.num_tbrs or num_sbrs changes by n for a rule of r's kind. *)
CountRule(r, n) ==
  /\ num_tbrs' = IF r \in TBRs THEN Count(num_tbrs, n) ELSE num_tbrs
  /\ num_sbrs' = IF r \in TBRs THEN num_sbrs ELSE Count(num_sbrs, n)
-----------------------------------------------------------------------------
(* refda_exec_tbr_enable / refda_exec_sbr_enable with parameters p.  The   *)
(* count is reset before refda_exec_schedule_* looks at it.                *)
Enable(r, p) ==
  /\ enabled' = [enabled EXCEPT ![r] = TRUE]
  /\ exec_count' = [exec_count EXCEPT ![r] = 0]
  /\ CountRule(r, 1)
  /\ timeline' = IF exec_end THEN timeline ELSE TimelinePush(timeline, EventFor(r, p, TRUE))

(* refda_exec_tbr_disable / refda_exec_sbr_disable: a pending event stays  *)
(* on the timeline.                                                        *)
Disable(r) ==
  /\ enabled' = [enabled EXCEPT ![r] = FALSE]
  /\ CountRule(r, -1)
  /\ UNCHANGED <<exec_count, timeline>>

(* The enabled flag a control stores before it calls enable, and which     *)
(* stays when enable refuses the rule for want of a valid action.          *)
EnableStored(r) ==
  IF param[r].valid THEN Enable(r, param[r])
  ELSE /\ enabled' = [enabled EXCEPT ![r] = TRUE]
       /\ UNCHANGED <<exec_count, timeline, num_tbrs, num_sbrs>>

(* refda_agent_init_objs enables the ADM rules one after the other. *)
InitRule ==
  /\ ~ started
  /\ \E r \in AdmRules :
       /\ param[r].init /\ ~ enabled[r]
       /\ Enable(r, param[r])
  /\ UNCHANGED <<now, conds, started, store, exec_end, history, ops>>

InitOver ==
  /\ ~ started
  /\ \A r \in AdmRules : param[r].init => enabled[r]
  /\ started' = TRUE
  /\ UNCHANGED <<now, conds, store, state, exec_end, history, ops>>

Use(op) ==
  /\ started /\ op \in Ops
  /\ ops < MaxOps /\ now <= OpsBy
  /\ ops' = ops + 1

(* ensure-tbr, ensure-sbr: an existing object is reused, its parameters    *)
(* are overwritten and an init-enabled rule is enabled, again if it was.   *)
(* Without a macro as action the object is still made but not filled in.   *)
Ensure ==
  /\ Use("ensure")
  /\ \E r \in Rule \ AdmRules, p \in Params :
       /\ exists' = exists \cup {r}
       /\ param' = IF p.valid THEN [param EXCEPT ![r] = p] ELSE param
       /\ IF p.valid /\ p.init THEN Enable(r, p) ELSE UNCHANGED state
  /\ UNCHANGED <<now, conds, started, obsolete, exec_end, history>>

(* ensure-rule-enabled *)
EnsureEnabled ==
  /\ Use("enable")
  /\ \E r \in exists :
       IF enabled[r] THEN UNCHANGED state ELSE EnableStored(r)
  /\ UNCHANGED <<now, conds, started, store, exec_end, history>>

EnsureDisabled ==
  /\ Use("disable")
  /\ \E r \in exists :
       IF enabled[r] THEN Disable(r) ELSE UNCHANGED state
  /\ UNCHANGED <<now, conds, started, store, exec_end, history>>

(* reset-rule-enabled *)
ResetEnabled ==
  /\ Use("reset")
  /\ \E r \in exists :
       IF enabled[r] = param[r].init THEN UNCHANGED state
       ELSE IF param[r].init THEN EnableStored(r) ELSE Disable(r)
  /\ UNCHANGED <<now, conds, started, store, exec_end, history>>

(* obsolete-rule: only for rules of an ODM. *)
ObsoleteRule ==
  /\ Use("obsolete")
  /\ \E r \in exists \ AdmRules :
       /\ obsolete' = obsolete \cup {r}
       /\ IF enabled[r] THEN Disable(r) ELSE UNCHANGED state
  /\ UNCHANGED <<now, conds, started, exists, param, exec_end, history>>
-----------------------------------------------------------------------------
(* Times executed and the last time, of a rule whose action is added as a  *)
(* target.  refda_exec_add_target returns 0 even if the action cannot be   *)
(* expanded, so the execution is always counted.                           *)
RuleAction(r) ==
  /\ exec_count' = [exec_count EXCEPT ![r] = @ + 1]
  /\ fired' = [fired EXCEPT ![r] = @ + 1]
  /\ last' = [last EXCEPT ![r] = now]

(* The exec worker takes a due event; it leaves the timeline after the     *)
(* callback.  Of several in the same second any may be the first.          *)
Due(e) == e \in timeline /\ e.ts <= now /\ \A f \in timeline : e.ts <= f.ts

(* refda_exec_run_tbr, refda_exec_run_sbr: a rule that was disabled *)
RunDisabled ==
  /\ started
  /\ \E e \in timeline :
       /\ Due(e) /\ ~ enabled[e.rule]
       /\ timeline' = timeline \ {e}
  /\ UNCHANGED <<now, conds, started, store, enabled, exec_count, exec_end, num_tbrs, num_sbrs,
                 history, ops>>

(* Mutant: a rule at its limit stays enabled without an event. *)
RunAtLimitStays ==
  /\ started
  /\ \E e \in timeline :
       /\ Due(e) /\ enabled[e.rule] /\ reached_max(exec_count[e.rule], param[e.rule].max)
       /\ timeline' = timeline \ {e}
  /\ UNCHANGED <<now, conds, started, store, enabled, exec_count, exec_end, num_tbrs, num_sbrs,
                 history, ops>>

(* Mutant: the rule is scheduled again and not disabled. *)
RunAtLimitGoesOn ==
  /\ started
  /\ \E e \in timeline :
       /\ Due(e) /\ enabled[e.rule] /\ reached_max(exec_count[e.rule], param[e.rule].max)
       /\ timeline' = TimelinePush(timeline, EventFor(e.rule, param[e.rule], FALSE)) \ {e}
  /\ UNCHANGED <<now, conds, started, store, enabled, exec_count, exec_end, num_tbrs, num_sbrs,
                 history, ops>>

(* ... a rule at its limit, which is disabled here and not by the run that *)
(* reached the limit, as that one had scheduled this event before it       *)
(* counted                                                                 *)
RunAtLimit ==
  /\ started
  /\ \E e \in timeline :
       /\ Due(e) /\ enabled[e.rule] /\ reached_max(exec_count[e.rule], param[e.rule].max)
       /\ enabled' = [enabled EXCEPT ![e.rule] = FALSE]
       /\ CountRule(e.rule, -1)
       /\ timeline' = timeline \ {e}
  /\ UNCHANGED <<now, conds, started, store, exec_count, exec_end, history, ops>>

(* ... any other.  The next run is scheduled before the condition of a     *)
(* state-based rule is evaluated and before the action is executed.        *)
Run ==
  /\ started
  /\ \E e \in timeline :
       LET r == e.rule IN
       /\ Due(e) /\ enabled[r] /\ ~ reached_max(exec_count[r], param[r].max)
       /\ timeline' = TimelinePush(timeline, EventFor(r, param[r], FALSE)) \ {e}
       /\ IF r \in TBRs \cup conds THEN RuleAction(r) ELSE UNCHANGED <<exec_count, fired, last>>
  /\ UNCHANGED <<now, conds, started, store, enabled, exec_end, num_tbrs, num_sbrs, ops>>

(* The end-of-input sentinel: refda_exec_worker drops every rule event. *)
Sentinel ==
  /\ started /\ ~ exec_end
  /\ exec_end' = TRUE
  /\ timeline' = {}
  /\ UNCHANGED <<now, conds, started, store, enabled, exec_count, num_tbrs, num_sbrs, history, ops>>

(* Time passes; the values conditions are about change. *)
Tick ==
  /\ started /\ now < MaxTime
  /\ now < BusyBy \/ ~ \E e \in timeline : Due(e)
  /\ now' = now + 1
  /\ UNCHANGED <<conds, started, store, state, exec_end, history, ops>>

ConditionChanges ==
  /\ started
  /\ \E r \in exists \ TBRs :
       conds' = IF r \in conds THEN conds \ {r} ELSE conds \cup {r}
  /\ UNCHANGED <<now, started, store, state, exec_end, history, ops>>

Next == \/ InitRule \/ InitOver
        \/ Ensure \/ EnsureEnabled \/ EnsureDisabled \/ ResetEnabled \/ ObsoleteRule
        \/ RunDisabled \/ RunAtLimit \/ Run \/ Sentinel \/ Tick \/ ConditionChanges

Spec == Init /\ [][Next]_vars

(* The worker never stops and time never does. *)
FairSpec == Spec /\ WF_vars(InitRule \/ InitOver) /\ WF_vars(RunDisabled \/ RunAtLimit \/ Run)
                 /\ WF_vars(Tick)
-----------------------------------------------------------------------------
(* Type invariant. *)
TypeOK ==
  /\ now \in Nat /\ conds \subseteq Rule \ TBRs /\ started \in BOOLEAN
  /\ AdmRules \subseteq exists /\ exists \subseteq Rule /\ obsolete \subseteq exists \ AdmRules
  /\ param \in [Rule -> Params \cup {NoParam}]
  /\ enabled \in [Rule -> BOOLEAN] /\ exec_count \in [Rule -> Nat]
  /\ timeline \subseteq [ts : Nat, sub : Nat, rule : Rule] /\ IsFiniteSet(timeline)
  /\ exec_end \in BOOLEAN /\ num_tbrs \in 0 .. CountMod - 1 /\ num_sbrs \in 0 .. CountMod - 1
  /\ fired \in [Rule -> Nat] /\ last \in [Rule -> Nat \cup {-1}] /\ ops \in 0 .. MaxOps

(* Until the agent ends, an enabled rule has an event on the timeline that *)
(* runs it: refda_exec_*_enable and refda_exec_run_* never lose it.        *)
EnabledHasEvent ==
  \A r \in Rule : enabled[r] /\ ~ exec_end => \E e \in timeline : e.rule = r

(* A rule is waiting for one event at most (exec.c, enable and run). *)
OneEventPerRule == \A e, f \in timeline : e.rule = f.rule => e = f

(* Once the sentinel was handled no rule is ever scheduled again.          *)
NoRuleAfterEnd == exec_end => timeline = {}

(* A rule with a maximum, once enabled, executes that often and then is    *)
(* disabled, unless the agent ends first.                                  *)
LimitReached ==
  \A r \in TBRs : enabled[r] /\ param[r].max > 0 ~> ~ enabled[r] \/ exec_end

(* The rules keep their contract: refda_exec_run_* execute a rule only     *)
(* while it is enabled, below its maximum, and never sooner than its       *)
(* period or minimum interval after its last execution.                    *)
Contract == INSTANCE RuleContract
              WITH limit <- param, count <- exec_count, ended <- exec_end
KeepsContract == Contract!Spec

(* The same apart from the intervals, which a rule that is enabled while   *)
(* an event of its is pending does not keep.                               *)
Limits == INSTANCE RuleContract
            WITH limit <- [r \in Rule |-> [param[r] EXCEPT !.interval = 0]],
                 count <- exec_count, ended <- exec_end
KeepsLimits == Limits!Spec
=============================================================================
