---------------------------- MODULE RulesProofs ----------------------------
(* Proofs about Rules, for every set of rules, parameters and bounds. *)
EXTENDS Rules, FiniteSetTheorems, TLAPS

(* The events the timeline may hold. *)
Event == [ts : Nat, sub : Nat, rule : Rule]

(* Parameters as a rule may have them. *)
ParamType == [valid : BOOLEAN, interval : Nat, form : {"TD", "TP"}, start : Nat,
              max : Nat, init : BOOLEAN]

LEMMA ParamsType == Params \cup {NoParam} \subseteq ParamType
<1>1. NoParam \in ParamType
  BY DEF NoParam, ParamType
<1>2. Params \subseteq ParamType
  BY ParamsAssumption, Zenon DEF ParamType
<1> QED
  BY <1>1, <1>2, Zenon

-----------------------------------------------------------------------------
(* The timeline.                                                           *)

\* There is a free key for every time read from the clock.
LEMMA FreshSubFree ==
  ASSUME NEW ts, IsFiniteSet(timeline)
  PROVE  /\ FreshSub(ts) \in Nat
         /\ \A e \in timeline : e.ts = ts => e.sub # FreshSub(ts)
<1> DEFINE c == Cardinality(timeline)
           S == 1 .. c + 1
<1>1. c \in Nat
  BY FS_CardinalityType
<1> HIDE DEF c
<1>2. IsFiniteSet(S) /\ Cardinality(S) = c + 1
  BY <1>1, FS_Interval
<1>3. \E n \in S : \A e \in timeline : e.ts = ts => e.sub # n
  <2> SUFFICES ASSUME \A n \in S : \E e \in timeline : e.ts = ts /\ e.sub = n
               PROVE  FALSE
    OBVIOUS
  <2> DEFINE f == [n \in S |-> CHOOSE e \in timeline : e.ts = ts /\ e.sub = n]
  <2>1. \A n \in S : f[n] \in timeline /\ f[n].sub = n
    OBVIOUS
  <2>2. f \in [S -> timeline]
    BY <2>1
  <2>3. Cardinality(timeline) < Cardinality(S)
    BY <1>1, <1>2 DEF c
  <2> HIDE DEF f, S
  <2>4. \E x, y \in S : x # y /\ f[x] = f[y]
    BY <1>2, <2>2, <2>3, FS_PigeonHole
  <2> QED
    BY <2>1, <2>4
<1>4. S \subseteq Nat
  BY <1>1
<1>5. FreshSub(ts) = CHOOSE n \in S : \A e \in timeline : e.ts = ts => e.sub # n
  BY DEF FreshSub, c
<1> HIDE DEF S
<1> QED
  BY <1>3, <1>4, <1>5

\* What is scheduled is an event.
LEMMA EventType ==
  ASSUME TypeOK, NEW r \in Rule, NEW p \in ParamType, NEW starting \in BOOLEAN
  PROVE  EventFor(r, p, starting) \in Event
<1>1. next_scheduled_time(r, p, starting) \in Nat
  BY DEF next_scheduled_time, absolute_start_time, ParamType, TypeOK
<1>2. FreshSub(next_scheduled_time(r, p, starting)) \in Nat
  BY FreshSubFree DEF TypeOK
<1> QED
  BY <1>1, <1>2 DEF EventFor, Event

\* A push keeps the timeline a finite set of events and its new event.
LEMMA PushType ==
  ASSUME NEW tl \in SUBSET Event, IsFiniteSet(tl), NEW e \in Event
  PROVE  /\ TimelinePush(tl, e) \subseteq Event /\ IsFiniteSet(TimelinePush(tl, e))
         /\ TimelinePush(tl, e) \subseteq tl \cup {e} /\ e \in TimelinePush(tl, e)
<1> DEFINE kept == {f \in tl : f.ts # e.ts \/ f.sub # e.sub}
<1>1. IsFiniteSet(kept)
  BY FS_Subset
<1>2. IsFiniteSet(kept \cup {e})
  BY <1>1, FS_AddElement
<1> QED
  BY <1>2 DEF TimelinePush

\* The counters stay below the value they wrap around at.
LEMMA CountType ==
  ASSUME NEW n \in 0 .. CountMod - 1, NEW by \in {-1, 1}
  PROVE  Count(n, by) \in 0 .. CountMod - 1
  BY BoundsAssumption DEF Count

LEMMA CountRuleType ==
  ASSUME TypeOK, NEW r, NEW by \in {-1, 1}, CountRule(r, by)
  PROVE  num_tbrs' \in 0 .. CountMod - 1 /\ num_sbrs' \in 0 .. CountMod - 1
  BY CountType DEF CountRule, TypeOK
-----------------------------------------------------------------------------
(* Type correctness.                                                       *)

LEMMA InitType == Init => TypeOK
<1> SUFFICES ASSUME Init PROVE TypeOK
  OBVIOUS
<1>1. param \in [Rule -> Params \cup {NoParam}]
  BY Zenon DEF Init
<1>2. started \in BOOLEAN /\ exec_end \in BOOLEAN
  BY Zenon DEF Init
<1>3. IsFiniteSet({})
  BY FS_EmptySet
<1>4. conds \subseteq Rule \ TBRs
  BY DEF Init
<1>5. enabled \in [Rule -> BOOLEAN]
  BY Zenon DEF Init
<1>6. exec_count \in [Rule -> Nat] /\ fired \in [Rule -> Nat]
      /\ last \in [Rule -> Nat \cup {-1}]
  BY BoundsAssumption DEF Init
<1>7. now \in Nat /\ ops \in 0 .. MaxOps /\ num_tbrs \in 0 .. CountMod - 1
      /\ num_sbrs \in 0 .. CountMod - 1
  BY BoundsAssumption DEF Init
<1>8. AdmRules \subseteq exists /\ exists \subseteq Rule /\ obsolete \subseteq exists \ AdmRules
  BY RuleAssumption DEF Init
<1>9. timeline \subseteq [ts : Nat, sub : Nat, rule : Rule] /\ IsFiniteSet(timeline)
  BY <1>3, Zenon DEF Init
<1> QED
  BY <1>1, <1>2, <1>4, <1>5, <1>6, <1>7, <1>8, <1>9, Zenon DEF TypeOK

(* The type of what a control may change. *)
StateType ==
  /\ enabled' \in [Rule -> BOOLEAN] /\ exec_count' \in [Rule -> Nat]
  /\ timeline' \subseteq Event /\ IsFiniteSet(timeline')
  /\ num_tbrs' \in 0 .. CountMod - 1 /\ num_sbrs' \in 0 .. CountMod - 1

\* Enabling a rule keeps the types of what it changes.
LEMMA EnableType ==
  ASSUME TypeOK, NEW r \in Rule, NEW p \in ParamType, Enable(r, p)
  PROVE  StateType
<1>1. enabled' \in [Rule -> BOOLEAN]
  BY Zenon DEF Enable, TypeOK
<1>2. exec_count' \in [Rule -> Nat]
  BY DEF Enable, TypeOK
<1>3. EventFor(r, p, TRUE) \in Event
  BY EventType
<1>4. timeline' \subseteq Event /\ IsFiniteSet(timeline')
  <2>1. timeline \in SUBSET Event /\ IsFiniteSet(timeline)
    BY DEF TypeOK, Event
  <2>2. timeline' = timeline \/ timeline' = TimelinePush(timeline, EventFor(r, p, TRUE))
    BY DEF Enable
  <2> QED
    BY <1>3, <2>1, <2>2, PushType
<1> QED
  BY <1>1, <1>2, <1>4, CountRuleType DEF Enable, StateType

LEMMA DisableType ==
  ASSUME TypeOK, NEW r \in Rule, Disable(r)
  PROVE  StateType
<1>1. enabled' \in [Rule -> BOOLEAN]
  BY Zenon DEF Disable, TypeOK
<1>2. timeline' \subseteq Event /\ IsFiniteSet(timeline') /\ exec_count' \in [Rule -> Nat]
  BY DEF Disable, TypeOK, Event
<1> QED
  BY <1>1, <1>2, CountRuleType DEF Disable, StateType

LEMMA UnchangedType == TypeOK /\ UNCHANGED state => StateType
<1> SUFFICES ASSUME TypeOK, UNCHANGED state PROVE StateType
  OBVIOUS
<1>1. enabled' \in [Rule -> BOOLEAN]
  BY Zenon DEF TypeOK, state
<1> QED
  BY <1>1 DEF TypeOK, state, StateType, Event

LEMMA EnableStoredType ==
  ASSUME TypeOK, NEW r \in Rule, EnableStored(r) PROVE StateType
<1>1. param[r] \in ParamType
  BY ParamsType DEF TypeOK
<1>2. CASE param[r].valid
  BY <1>1, <1>2, EnableType DEF EnableStored
<1>3. CASE ~ param[r].valid
  <2>1. enabled' \in [Rule -> BOOLEAN]
    BY <1>3, Zenon DEF EnableStored, TypeOK
  <2> QED
    BY <1>3, <2>1 DEF EnableStored, TypeOK, StateType, Event
<1> QED
  BY <1>2, <1>3

\* The parts of the state no control changes.
LEMMA ControlType ==
  ASSUME TypeOK, StateType, UNCHANGED <<now, conds, started, store, exec_end, history>>,
         ops' \in 0 .. MaxOps
  PROVE  TypeOK'
<1>1. started' \in BOOLEAN /\ exec_end' \in BOOLEAN /\ enabled' \in [Rule -> BOOLEAN]
  BY Zenon DEF TypeOK, StateType
<1> QED
  BY <1>1 DEF TypeOK, StateType, store, history, Event

LEMMA ControlsType ==
  TypeOK /\ (EnsureEnabled \/ EnsureDisabled \/ ResetEnabled) => TypeOK'
<1> SUFFICES ASSUME TypeOK, EnsureEnabled \/ EnsureDisabled \/ ResetEnabled PROVE TypeOK'
  OBVIOUS
<1>1. exists \subseteq Rule
  BY DEF TypeOK
<1>2. StateType
  <2>1. CASE EnsureEnabled
    BY <1>1, <2>1, UnchangedType, EnableStoredType DEF EnsureEnabled
  <2>2. CASE EnsureDisabled
    BY <1>1, <2>2, UnchangedType, DisableType DEF EnsureDisabled
  <2>3. CASE ResetEnabled
    BY <1>1, <2>3, UnchangedType, EnableStoredType, DisableType DEF ResetEnabled
  <2> QED
    BY <2>1, <2>2, <2>3
<1>3. ops' \in 0 .. MaxOps
  BY BoundsAssumption DEF TypeOK, EnsureEnabled, EnsureDisabled, ResetEnabled, Use
<1>4. UNCHANGED <<now, conds, started, store, exec_end, history>>
  BY DEF EnsureEnabled, EnsureDisabled, ResetEnabled
<1> QED
  BY <1>2, <1>3, <1>4, ControlType

LEMMA EnsureType == TypeOK /\ Ensure => TypeOK'
<1> SUFFICES ASSUME TypeOK, Ensure PROVE TypeOK'
  OBVIOUS
<1>1. PICK r \in Rule \ AdmRules, p \in Params :
        /\ exists' = exists \cup {r}
        /\ param' = IF p.valid THEN [param EXCEPT ![r] = p] ELSE param
        /\ IF p.valid /\ p.init THEN Enable(r, p) ELSE UNCHANGED state
  BY DEF Ensure
<1>2. p \in ParamType
  BY ParamsType
<1>3. StateType
  BY <1>1, <1>2, EnableType, UnchangedType
<1>4. exists' \subseteq Rule /\ AdmRules \subseteq exists' /\ obsolete' \subseteq exists' \ AdmRules
  BY <1>1 DEF TypeOK, Ensure
<1>5. param' \in [Rule -> Params \cup {NoParam}]
  BY <1>1 DEF TypeOK
<1>6. ops' \in 0 .. MaxOps
  BY BoundsAssumption DEF TypeOK, Ensure, Use
<1>7. started' \in BOOLEAN /\ exec_end' \in BOOLEAN /\ enabled' \in [Rule -> BOOLEAN]
  BY <1>3, Zenon DEF TypeOK, StateType, Ensure
<1> QED
  BY <1>3, <1>4, <1>5, <1>6, <1>7 DEF TypeOK, StateType, history, Event, Ensure

LEMMA ObsoleteType == TypeOK /\ ObsoleteRule => TypeOK'
<1> SUFFICES ASSUME TypeOK, ObsoleteRule PROVE TypeOK'
  OBVIOUS
<1>1. exists \subseteq Rule
  BY DEF TypeOK
<1>2. StateType
  BY <1>1, UnchangedType, DisableType DEF ObsoleteRule
<1>3. obsolete' \subseteq exists' \ AdmRules
  BY DEF TypeOK, ObsoleteRule
<1>4. ops' \in 0 .. MaxOps
  BY BoundsAssumption DEF TypeOK, ObsoleteRule, Use
<1>5. started' \in BOOLEAN /\ exec_end' \in BOOLEAN /\ enabled' \in [Rule -> BOOLEAN]
  BY <1>2, Zenon DEF TypeOK, StateType, ObsoleteRule
<1> QED
  BY <1>2, <1>3, <1>4, <1>5 DEF TypeOK, StateType, history, Event, ObsoleteRule

LEMMA StartType == TypeOK /\ (InitRule \/ InitOver) => TypeOK'
<1> SUFFICES ASSUME TypeOK, InitRule \/ InitOver PROVE TypeOK'
  OBVIOUS
<1>1. CASE InitRule
  <2>1. PICK r \in AdmRules : Enable(r, param[r])
    BY <1>1 DEF InitRule
  <2>2. r \in Rule /\ param[r] \in ParamType
    BY RuleAssumption, ParamsType DEF TypeOK
  <2>3. StateType
    BY <2>1, <2>2, EnableType
  <2>4. ops' \in 0 .. MaxOps /\ UNCHANGED <<now, conds, started, store, exec_end, history>>
    BY <1>1 DEF InitRule, TypeOK
  <2> QED
    BY <2>3, <2>4, ControlType
<1>2. CASE InitOver
  <2>1. StateType
    BY <1>2, UnchangedType DEF InitOver
  <2>2. started' \in BOOLEAN /\ exec_end' \in BOOLEAN /\ enabled' \in [Rule -> BOOLEAN]
    BY <1>2, <2>1, Zenon DEF TypeOK, StateType, InitOver
  <2> QED
    BY <1>2, <2>1, <2>2 DEF TypeOK, StateType, store, history, Event, InitOver
<1> QED
  BY <1>1, <1>2

LEMMA RunType == TypeOK /\ (RunDisabled \/ RunAtLimit \/ Run) => TypeOK'
<1> SUFFICES ASSUME TypeOK, RunDisabled \/ RunAtLimit \/ Run PROVE TypeOK'
  OBVIOUS
<1>1. timeline \in SUBSET Event /\ IsFiniteSet(timeline)
  BY DEF TypeOK, Event
<1>2. \A e : timeline \ {e} \subseteq Event /\ IsFiniteSet(timeline \ {e})
  BY <1>1, FS_RemoveElement
<1>3. started' \in BOOLEAN /\ exec_end' \in BOOLEAN
  BY Zenon DEF TypeOK, RunDisabled, RunAtLimit, Run
<1>4. CASE RunDisabled
  <2>1. timeline' \subseteq Event /\ IsFiniteSet(timeline')
    BY <1>2, <1>4 DEF RunDisabled
  <2>2. enabled' \in [Rule -> BOOLEAN]
    BY <1>4, Zenon DEF TypeOK, RunDisabled
  <2> QED
    BY <1>3, <1>4, <2>1, <2>2 DEF TypeOK, RunDisabled, store, history, Event
<1>5. CASE RunAtLimit
  <2>1. PICK e \in timeline :
          /\ enabled' = [enabled EXCEPT ![e.rule] = FALSE]
          /\ CountRule(e.rule, -1)
          /\ timeline' = timeline \ {e}
    BY <1>5 DEF RunAtLimit
  <2>2. timeline' \subseteq Event /\ IsFiniteSet(timeline')
    BY <1>2, <2>1
  <2>3. enabled' \in [Rule -> BOOLEAN]
    BY <2>1, Zenon DEF TypeOK
  <2>4. num_tbrs' \in 0 .. CountMod - 1 /\ num_sbrs' \in 0 .. CountMod - 1
    BY <2>1, CountRuleType
  <2> QED
    BY <1>3, <1>5, <2>2, <2>3, <2>4 DEF TypeOK, RunAtLimit, store, history, Event
<1>6. CASE Run
  <2>1. PICK e \in timeline :
          /\ timeline' = TimelinePush(timeline, EventFor(e.rule, param[e.rule], FALSE)) \ {e}
          /\ IF e.rule \in TBRs \cup conds THEN RuleAction(e.rule)
             ELSE UNCHANGED <<exec_count, fired, last>>
    BY <1>6 DEF Run
  <2>2. e.rule \in Rule /\ param[e.rule] \in ParamType
    BY <1>1, ParamsType DEF TypeOK, Event
  <2> DEFINE next == EventFor(e.rule, param[e.rule], FALSE)
  <2>3. TimelinePush(timeline, next) \subseteq Event /\ IsFiniteSet(TimelinePush(timeline, next))
    <3>1. next \in Event
      BY <2>2, EventType
    <3> HIDE DEF next
    <3> QED
      BY <1>1, <3>1, PushType
  <2>4. timeline' \subseteq Event /\ IsFiniteSet(timeline')
    BY <2>1, <2>3, FS_RemoveElement
  <2>5. exec_count' \in [Rule -> Nat] /\ fired' \in [Rule -> Nat]
        /\ last' \in [Rule -> Nat \cup {-1}]
    <3>1. exec_count \in [Rule -> Nat] /\ fired \in [Rule -> Nat] /\ now \in Nat
          /\ last \in [Rule -> Nat \cup {-1}]
      BY DEF TypeOK
    <3>2. CASE RuleAction(e.rule)
      BY <2>2, <3>1, <3>2 DEF RuleAction
    <3>3. CASE UNCHANGED <<exec_count, fired, last>>
      BY <3>1, <3>3
    <3> QED
      BY <2>1, <3>2, <3>3
  <2>6. enabled' \in [Rule -> BOOLEAN]
    BY <1>6, Zenon DEF TypeOK, Run
  <2> QED
    BY <1>3, <1>6, <2>4, <2>5, <2>6 DEF TypeOK, Run, store, Event
<1> QED
  BY <1>4, <1>5, <1>6

LEMMA OtherType == TypeOK /\ (Sentinel \/ Tick \/ ConditionChanges \/ UNCHANGED vars) => TypeOK'
<1> SUFFICES ASSUME TypeOK, Sentinel \/ Tick \/ ConditionChanges \/ UNCHANGED vars PROVE TypeOK'
  OBVIOUS
<1>1. started' \in BOOLEAN /\ exec_end' \in BOOLEAN /\ enabled' \in [Rule -> BOOLEAN]
  BY Zenon DEF TypeOK, Sentinel, Tick, ConditionChanges, vars, state
<1>2. CASE Sentinel
  BY <1>1, <1>2, FS_EmptySet DEF TypeOK, Sentinel, store, history
<1>3. CASE Tick
  BY <1>1, <1>3 DEF TypeOK, Tick, store, state, history
<1>4. CASE ConditionChanges
  <2>1. conds' \subseteq Rule \ TBRs
    BY <1>4 DEF TypeOK, ConditionChanges
  <2> QED
    BY <1>1, <1>4, <2>1 DEF TypeOK, ConditionChanges, store, state, history
<1>5. CASE UNCHANGED vars
  BY <1>1, <1>5 DEF TypeOK, vars
<1> QED
  BY <1>2, <1>3, <1>4, <1>5

\* Every variable keeps its type, and the timeline stays finite, whatever
\* controls managers use on the rules (exec.c and the rule controls).
THEOREM TypeCorrect == Spec => []TypeOK
<1>1. TypeOK /\ [Next]_vars => TypeOK'
  BY ControlsType, EnsureType, ObsoleteType, StartType, RunType, OtherType DEF Next
<1> QED
  BY <1>1, InitType, PTL DEF Spec

-----------------------------------------------------------------------------
(* Steps that are not runs, seen through the contract.                     *)

\* Enabling, disabling or redefining one rule leaves the others alone and
\* restarts no count but that of a rule that is enabled.
LEMMA OneControlled ==
  ASSUME TypeOK, NEW r \in Rule,
         Enable(r, param[r]) \/ Disable(r) \/ EnableStored(r) \/ UNCHANGED state
  PROVE  /\ \A s \in Rule \ {r} : enabled'[s] = enabled[s] /\ exec_count'[s] = exec_count[s]
         /\ exec_count'[r] = exec_count[r] \/ (exec_count'[r] = 0 /\ enabled'[r])
<1>1. enabled \in [Rule -> BOOLEAN] /\ exec_count \in [Rule -> Nat]
  BY DEF TypeOK
<1>2. CASE Enable(r, param[r])
  BY <1>1, <1>2 DEF Enable
<1>3. CASE Disable(r)
  BY <1>1, <1>3 DEF Disable
<1>4. CASE EnableStored(r)
  BY <1>1, <1>4 DEF EnableStored, Enable
<1>5. CASE UNCHANGED state
  BY <1>5 DEF state
<1> QED
  BY <1>2, <1>3, <1>4, <1>5

LEMMA ControlStep ==
  TypeOK /\ (\/ InitRule \/ Ensure \/ EnsureEnabled \/ EnsureDisabled \/ ResetEnabled
             \/ ObsoleteRule \/ RunAtLimit)
    => Contract!Control
<1> SUFFICES ASSUME TypeOK, \/ InitRule \/ Ensure \/ EnsureEnabled \/ EnsureDisabled
                            \/ ResetEnabled \/ ObsoleteRule \/ RunAtLimit
             PROVE  Contract!Control
  OBVIOUS
<1>1. exists \subseteq Rule /\ AdmRules \subseteq Rule
  BY RuleAssumption DEF TypeOK
<1>2. CASE InitRule \/ EnsureEnabled \/ EnsureDisabled \/ ResetEnabled \/ ObsoleteRule
  <2>1. \E r \in Rule : Enable(r, param[r]) \/ Disable(r) \/ EnableStored(r) \/ UNCHANGED state
    BY <1>1, <1>2 DEF InitRule, EnsureEnabled, EnsureDisabled, ResetEnabled, ObsoleteRule
  <2>2. UNCHANGED <<now, param, last, exec_end>>
    BY <1>2 DEF InitRule, EnsureEnabled, EnsureDisabled, ResetEnabled, ObsoleteRule, store, history
  <2> QED
    BY <2>1, <2>2, OneControlled DEF Contract!Control
<1>3. CASE Ensure
  <2>1. PICK r \in Rule, p \in Params :
          /\ param' = IF p.valid THEN [param EXCEPT ![r] = p] ELSE param
          /\ IF p.valid /\ p.init THEN Enable(r, p) ELSE UNCHANGED state
    BY <1>3 DEF Ensure
  <2>2. \A s \in Rule \ {r} : param'[s] = param[s]
    BY <2>1 DEF TypeOK
  <2>3. /\ \A s \in Rule \ {r} : enabled'[s] = enabled[s] /\ exec_count'[s] = exec_count[s]
        /\ exec_count'[r] = exec_count[r] \/ (exec_count'[r] = 0 /\ enabled'[r])
    BY <2>1 DEF TypeOK, Enable, state
  <2>4. UNCHANGED <<now, last, exec_end>>
    BY <1>3 DEF Ensure, history
  <2> QED
    BY <2>2, <2>3, <2>4 DEF Contract!Control
<1>4. CASE RunAtLimit
  <2>1. PICK e \in timeline : enabled' = [enabled EXCEPT ![e.rule] = FALSE]
    BY <1>4 DEF RunAtLimit
  <2>2. e.rule \in Rule
    BY DEF TypeOK
  <2>3. UNCHANGED <<now, param, exec_count, last, exec_end>>
    BY <1>4 DEF RunAtLimit, store, history
  <2> QED
    BY <2>1, <2>2, <2>3 DEF Contract!Control, TypeOK
<1> QED
  BY <1>2, <1>3, <1>4

LEMMA NotRunStep ==
  TypeOK /\ [Next]_vars => \/ Run \/ Contract!Control \/ Contract!Tick \/ Contract!End
                           \/ UNCHANGED Contract!vars
<1> SUFFICES ASSUME TypeOK, [Next]_vars, ~ Run, ~ Contract!Control
             PROVE  Contract!Tick \/ Contract!End \/ UNCHANGED Contract!vars
  OBVIOUS
<1>1. InitOver \/ RunDisabled \/ Sentinel \/ Tick \/ ConditionChanges \/ UNCHANGED vars
  BY ControlStep DEF Next
<1>2. CASE InitOver \/ RunDisabled \/ ConditionChanges \/ UNCHANGED vars
  BY <1>2 DEF InitOver, RunDisabled, ConditionChanges, vars, store, state, history, Contract!vars
<1>3. CASE Sentinel
  BY <1>3 DEF Sentinel, store, history, Contract!End
<1>4. CASE Tick
  BY <1>4 DEF Tick, store, state, history, Contract!Tick
<1> QED
  BY <1>1, <1>2, <1>3, <1>4

(* No rule after the end, and the limits on executions.                    *)

\* An execution is never in the future.
LastPast == \A r \in Rule : last[r] <= now

LEMMA InitLimits == Init => NoRuleAfterEnd /\ LastPast
  BY BoundsAssumption DEF Init, NoRuleAfterEnd, LastPast

LEMMA EndStep == TypeOK /\ NoRuleAfterEnd /\ [Next]_vars => NoRuleAfterEnd'
<1> SUFFICES ASSUME TypeOK, NoRuleAfterEnd, [Next]_vars, exec_end' PROVE timeline' = {}
  BY DEF NoRuleAfterEnd
<1>1. CASE Sentinel
  BY <1>1 DEF Sentinel
<1>2. CASE InitRule \/ Ensure \/ EnsureEnabled \/ EnsureDisabled \/ ResetEnabled \/ ObsoleteRule
  <2>1. exec_end
    BY <1>2 DEF InitRule, Ensure, EnsureEnabled, EnsureDisabled, ResetEnabled, ObsoleteRule
  <2>2. timeline' = timeline
    BY <1>2, <2>1 DEF InitRule, Ensure, EnsureEnabled, EnsureDisabled, ResetEnabled, ObsoleteRule,
                      EnableStored, Enable, Disable, state
  <2> QED
    BY <2>1, <2>2 DEF NoRuleAfterEnd
<1>3. CASE RunDisabled \/ RunAtLimit \/ Run
  BY <1>3 DEF RunDisabled, RunAtLimit, Run, NoRuleAfterEnd
<1>4. CASE InitOver \/ Tick \/ ConditionChanges \/ UNCHANGED vars
  BY <1>4 DEF InitOver, Tick, ConditionChanges, vars, state, NoRuleAfterEnd
<1> QED
  BY <1>1, <1>2, <1>3, <1>4 DEF Next

\* Once the sentinel was handled no control and no run puts a rule event on
\* the timeline (the exec_end test of refda_exec_schedule_tbr and _sbr).
THEOREM EndedForGood == Spec => []NoRuleAfterEnd
  BY TypeCorrect, InitLimits, EndStep, PTL DEF Spec

\* What a run does that executes its rule.
LEMMA RunExecutes ==
  ASSUME TypeOK, NoRuleAfterEnd, Run
  PROVE  \/ UNCHANGED Contract!vars
         \/ \E e \in timeline :
              LET r == e.rule IN
              /\ r \in Rule /\ Due(e) /\ ~ exec_end /\ enabled[r]
              /\ param[r].max > 0 => exec_count[r] < param[r].max
              /\ exec_count' = [exec_count EXCEPT ![r] = @ + 1]
              /\ last' = [last EXCEPT ![r] = now]
              /\ UNCHANGED <<now, enabled, param, exec_end>>
<1>1. PICK e \in timeline :
        /\ Due(e) /\ enabled[e.rule] /\ ~ reached_max(exec_count[e.rule], param[e.rule].max)
        /\ IF e.rule \in TBRs \cup conds THEN RuleAction(e.rule)
           ELSE UNCHANGED <<exec_count, fired, last>>
  BY DEF Run
<1>2. UNCHANGED <<now, enabled, param, exec_end>>
  BY DEF Run, store
<1>3. e.rule \in Rule /\ param[e.rule].max \in Nat /\ exec_count[e.rule] \in Nat
  BY ParamsType DEF TypeOK, ParamType
<1>4. param[e.rule].max > 0 => exec_count[e.rule] < param[e.rule].max
  BY <1>1, <1>3 DEF reached_max
<1>5. ~ exec_end
  BY <1>1 DEF NoRuleAfterEnd
<1>6. CASE e.rule \in TBRs \cup conds
  BY <1>1, <1>2, <1>3, <1>4, <1>5, <1>6 DEF RuleAction
<1>7. CASE e.rule \notin TBRs \cup conds
  BY <1>1, <1>2, <1>7 DEF Contract!vars
<1> QED
  BY <1>6, <1>7

LEMMA LastStep == TypeOK /\ NoRuleAfterEnd /\ LastPast /\ [Next]_vars => LastPast'
<1> SUFFICES ASSUME TypeOK, NoRuleAfterEnd, LastPast, [Next]_vars PROVE LastPast'
  OBVIOUS
<1>1. now \in Nat /\ last \in [Rule -> Nat \cup {-1}]
  BY DEF TypeOK
<1>2. CASE Run
  <2>1. now' = now /\ (last' = last \/ \E r \in Rule : last' = [last EXCEPT ![r] = now])
    BY <1>2, RunExecutes DEF Contract!vars
  <2> QED
    BY <1>1, <2>1 DEF LastPast
<1>3. CASE Contract!Control \/ Contract!Tick \/ Contract!End \/ UNCHANGED Contract!vars
  BY <1>1, <1>3 DEF LastPast, Contract!Control, Contract!Tick, Contract!End, Contract!vars
<1> QED
  BY <1>2, <1>3, NotRunStep

LEMMA LimitsStep ==
  TypeOK /\ NoRuleAfterEnd /\ LastPast /\ [Next]_vars => [Limits!Next]_(Limits!vars)
<1> SUFFICES ASSUME TypeOK, NoRuleAfterEnd, LastPast, [Next]_vars,
                    ~ UNCHANGED Limits!vars
             PROVE  Limits!Next
  OBVIOUS
<1> USE DEF Limits!Next
<1>1. CASE UNCHANGED Contract!vars
  BY <1>1 DEF Contract!vars, Limits!vars
<1>2. CASE Contract!Tick
  BY <1>2 DEF Contract!Tick, Limits!Tick
<1>3. CASE Contract!End
  BY <1>3 DEF Contract!End, Limits!End
<1>4. CASE Contract!Control
  BY <1>4 DEF Contract!Control, Limits!Control
<1>5. CASE Run /\ ~ UNCHANGED Contract!vars
  <2>1. PICK e \in timeline :
          LET r == e.rule IN
          /\ r \in Rule /\ ~ exec_end /\ enabled[r]
          /\ param[r].max > 0 => exec_count[r] < param[r].max
          /\ exec_count' = [exec_count EXCEPT ![r] = @ + 1]
          /\ last' = [last EXCEPT ![r] = now]
          /\ UNCHANGED <<now, enabled, param, exec_end>>
    BY <1>5, RunExecutes
  <2> DEFINE r == e.rule
             limit == [s \in Rule |-> [param[s] EXCEPT !.interval = 0]]
  <2>2. limit[r].max = param[r].max /\ limit[r].interval = 0
    BY <2>1, ParamsType DEF TypeOK, ParamType
  <2>3. last[r] # -1 => now >= last[r] + limit[r].interval
    BY <2>1, <2>2 DEF LastPast, TypeOK
  <2> QED
    BY <2>1, <2>2, <2>3 DEF Limits!Execute
<1> QED
  BY <1>1, <1>2, <1>3, <1>4, <1>5, NotRunStep

\* Whatever controls managers use, a rule executes only while it is enabled,
\* at most its maximum of times per enabling, and never once the agent is
\* ending (refda_exec_run_tbr, refda_exec_run_sbr).
THEOREM LimitsKept == Spec => KeepsLimits
<1>1. Init => Limits!Init
  BY DEF Init, Limits!Init
<1> QED
  BY <1>1, TypeCorrect, EndedForGood, InitLimits, LastStep, LimitsStep, PTL
     DEF Spec, KeepsLimits, Limits!Spec

(* The intervals, when rules are enabled by managers but never disabled or *)
(* redefined by them.                                                      *)

OnlyEnabling == Ops \subseteq {"enable"}

\* Enough time has gone by since the last execution of r.
Rested(r, t) == last[r] # -1 => t >= last[r] + param[r].interval

\* A disabled rule waits for no event, and it or the event it waits for is
\* not too early for the next execution.
PeriodInv ==
  /\ OneEventPerRule
  /\ \A e \in timeline : enabled[e.rule] /\ (Rested(e.rule, e.ts) \/ Rested(e.rule, now))
  /\ \A r \in Rule : ~ enabled[r] => Rested(r, now)

LEMMA InitPeriod == Init => PeriodInv
  BY DEF Init, PeriodInv, OneEventPerRule, Rested

\* A rule that is disabled is enabled.
LEMMA EnablePeriod ==
  ASSUME TypeOK, PeriodInv, NEW r \in Rule, ~ enabled[r], EnableStored(r) \/ Enable(r, param[r]),
         UNCHANGED <<now, param, last>>
  PROVE  PeriodInv'
<1>1. param[r] \in ParamType
  BY ParamsType DEF TypeOK
<1>2. enabled' = [enabled EXCEPT ![r] = TRUE]
  BY DEF EnableStored, Enable
<1>3. PICK f : f.rule = r /\ timeline' \subseteq timeline \cup {f}
  <2> DEFINE f == EventFor(r, param[r], TRUE)
  <2>1. f.rule = r
    BY DEF EventFor
  <2>2. TimelinePush(timeline, f) \subseteq timeline \cup {f}
    BY DEF TimelinePush
  <2>3. timeline' = timeline \/ timeline' = TimelinePush(timeline, f)
    BY DEF EnableStored, Enable
  <2> QED
    BY <2>1, <2>2, <2>3
<1>4. \A e \in timeline : e.rule # r /\ e.rule \in Rule
  BY DEF PeriodInv, TypeOK
<1>5. Rested(r, now)
  BY DEF PeriodInv
<1>6. OneEventPerRule'
  BY <1>3, <1>4 DEF OneEventPerRule, PeriodInv
<1>7. \A s \in Rule : enabled[s] => enabled'[s]
  BY <1>2 DEF TypeOK
<1>8. \A e \in timeline' : enabled'[e.rule] /\ (Rested(e.rule, e.ts) \/ Rested(e.rule, now))'
  <2> SUFFICES ASSUME NEW e \in timeline'
               PROVE  enabled'[e.rule] /\ (Rested(e.rule, e.ts) \/ Rested(e.rule, now))'
    OBVIOUS
  <2>1. CASE e \in timeline
    BY <1>4, <1>7, <2>1 DEF PeriodInv, Rested
  <2>2. CASE e = f
    BY <1>2, <1>3, <1>5, <2>2 DEF Rested, TypeOK
  <2> QED
    BY <1>3, <2>1, <2>2
<1>9. \A s \in Rule : ~ enabled'[s] => Rested(s, now)'
  BY <1>7 DEF PeriodInv, Rested
<1> QED
  BY <1>6, <1>8, <1>9 DEF PeriodInv

LEMMA RunPeriod ==
  ASSUME TypeOK, LastPast, NoRuleAfterEnd, PeriodInv, Run PROVE PeriodInv'
<1>1. PICK e \in timeline :
        /\ Due(e) /\ enabled[e.rule]
        /\ timeline' = TimelinePush(timeline, EventFor(e.rule, param[e.rule], FALSE)) \ {e}
        /\ IF e.rule \in TBRs \cup conds THEN RuleAction(e.rule)
           ELSE UNCHANGED <<exec_count, fired, last>>
  BY DEF Run
<1> DEFINE r == e.rule
<1>2. UNCHANGED <<now, enabled, param>>
  BY DEF Run, store
<1>3. r \in Rule /\ param[r].interval \in Nat /\ now \in Nat /\ e.ts \in Nat
      /\ last \in [Rule -> Nat \cup {-1}] /\ e.ts <= now
  BY <1>1, ParamsType DEF TypeOK, ParamType, Due
<1>4. PICK f : /\ f.rule = r /\ f.ts = now + param[r].interval
               /\ timeline' \subseteq (timeline \ {e}) \cup {f}
  <2> DEFINE f == EventFor(r, param[r], FALSE)
  <2>1. f.rule = r /\ f.ts = now + param[r].interval
    BY DEF EventFor, next_scheduled_time
  <2>2. timeline' \subseteq (timeline \ {e}) \cup {f}
    BY <1>1 DEF TimelinePush
  <2> QED
    BY <2>1, <2>2
<1>5. timeline' \subseteq (timeline \ {e}) \cup {f}
  BY <1>4
<1>6. last' = last \/ last' = [last EXCEPT ![r] = now]
  BY <1>1 DEF RuleAction
<1>7. \A g \in timeline \ {e} : g.rule # r /\ g.rule \in Rule
  BY DEF PeriodInv, OneEventPerRule, TypeOK
<1>8. Rested(r, now)
  BY <1>1, <1>3 DEF PeriodInv, Rested
<1>9. OneEventPerRule'
  BY <1>4, <1>5, <1>7 DEF OneEventPerRule, PeriodInv
<1>10. \A g \in timeline' : enabled'[g.rule] /\ (Rested(g.rule, g.ts) \/ Rested(g.rule, now))'
  <2> SUFFICES ASSUME NEW g \in timeline'
               PROVE  enabled'[g.rule] /\ (Rested(g.rule, g.ts) \/ Rested(g.rule, now))'
    OBVIOUS
  <2>1. CASE g \in timeline \ {e}
    <3>1. last'[g.rule] = last[g.rule]
      BY <1>3, <1>6, <1>7, <2>1
    <3> QED
      BY <1>2, <2>1, <3>1 DEF PeriodInv, Rested
  <2>2. CASE g = f
    <3>1. Rested(r, f.ts)'
      BY <1>2, <1>3, <1>4, <1>6, <1>8 DEF Rested
    <3> QED
      BY <1>1, <1>2, <1>4, <2>2, <3>1 DEF Rested
  <2> QED
    BY <1>5, <2>1, <2>2
<1>11. \A s \in Rule : ~ enabled'[s] => Rested(s, now)'
  BY <1>1, <1>2, <1>3, <1>6 DEF PeriodInv, Rested
<1> QED
  BY <1>9, <1>10, <1>11 DEF PeriodInv

LEMMA PeriodStep ==
  ASSUME OnlyEnabling
  PROVE  TypeOK /\ NoRuleAfterEnd /\ LastPast /\ PeriodInv /\ [Next]_vars => PeriodInv'
<1> SUFFICES ASSUME TypeOK, NoRuleAfterEnd, LastPast, PeriodInv, [Next]_vars PROVE PeriodInv'
  OBVIOUS
<1>0. now \in Nat /\ last \in [Rule -> Nat \cup {-1}] /\ \A r \in Rule : param[r].interval \in Nat
  BY ParamsType DEF TypeOK, ParamType
<1>1. CASE InitRule
  <2>1. PICK r \in Rule : ~ enabled[r] /\ Enable(r, param[r])
    BY <1>1, RuleAssumption DEF InitRule
  <2> QED
    BY <1>1, <2>1, EnablePeriod DEF InitRule, store, history
<1>2. CASE EnsureEnabled
  <2>1. PICK r \in exists : IF enabled[r] THEN UNCHANGED state ELSE EnableStored(r)
    BY <1>2 DEF EnsureEnabled
  <2>2. UNCHANGED <<now, param, last>> /\ r \in Rule
    BY <1>2 DEF EnsureEnabled, store, history, TypeOK
  <2>3. CASE enabled[r]
    BY <2>1, <2>2, <2>3 DEF state, PeriodInv, OneEventPerRule, Rested
  <2>4. CASE ~ enabled[r]
    BY <2>1, <2>2, <2>4, EnablePeriod
  <2> QED
    BY <2>3, <2>4
<1>3. CASE Run
  BY <1>3, RunPeriod
<1>4. CASE RunAtLimit
  <2>1. PICK e \in timeline :
          /\ Due(e) /\ enabled' = [enabled EXCEPT ![e.rule] = FALSE]
          /\ timeline' = timeline \ {e}
    BY <1>4 DEF RunAtLimit
  <2>2. UNCHANGED <<now, param, last>> /\ e.rule \in Rule
    BY <1>4 DEF RunAtLimit, store, history, TypeOK
  <2>3. \A g \in timeline' : g.rule # e.rule /\ g.rule \in Rule /\ g \in timeline
    BY <2>1 DEF PeriodInv, OneEventPerRule, TypeOK
  <2>4. Rested(e.rule, now)
    BY <1>0, <2>1, <2>2 DEF PeriodInv, Rested, Due, TypeOK
  <2>5. \A s \in Rule : s # e.rule => enabled'[s] = enabled[s]
    BY <2>1 DEF TypeOK
  <2>6. OneEventPerRule'
    BY <2>3 DEF PeriodInv, OneEventPerRule
  <2>7. \A g \in timeline' : enabled'[g.rule] /\ (Rested(g.rule, g.ts) \/ Rested(g.rule, now))'
    BY <2>2, <2>3, <2>5 DEF PeriodInv, Rested
  <2>8. \A r \in Rule : ~ enabled'[r] => Rested(r, now)'
    BY <2>2, <2>4, <2>5 DEF PeriodInv, Rested
  <2> QED
    BY <2>6, <2>7, <2>8 DEF PeriodInv
<1>5. CASE Tick
  <2>1. now' = now + 1 /\ UNCHANGED <<timeline, enabled, param, last>>
    BY <1>5 DEF Tick, store, state, history
  <2>2. \A r \in Rule : Rested(r, now) => Rested(r, now)'
    BY <1>0, <2>1 DEF Rested
  <2>3. \A e \in timeline : e.rule \in Rule
    BY DEF TypeOK
  <2>4. OneEventPerRule'
    BY <2>1 DEF OneEventPerRule, PeriodInv
  <2>5. \A e \in timeline' : enabled'[e.rule] /\ (Rested(e.rule, e.ts) \/ Rested(e.rule, now))'
    BY <2>1, <2>2, <2>3 DEF PeriodInv, Rested
  <2>6. \A r \in Rule : ~ enabled'[r] => Rested(r, now)'
    BY <2>1, <2>2 DEF PeriodInv
  <2> QED
    BY <2>4, <2>5, <2>6 DEF PeriodInv
<1>6. CASE Sentinel
  BY <1>6 DEF Sentinel, store, history, PeriodInv, OneEventPerRule, Rested
<1>7. CASE InitOver \/ ConditionChanges \/ UNCHANGED vars
  BY <1>7 DEF InitOver, ConditionChanges, vars, store, state, history, PeriodInv, OneEventPerRule,
              Rested
<1>8. ~ RunDisabled
  BY DEF RunDisabled, PeriodInv
<1>9. ~ Ensure /\ ~ EnsureDisabled /\ ~ ResetEnabled /\ ~ ObsoleteRule
  BY DEF OnlyEnabling, Use, Ensure, EnsureDisabled, ResetEnabled, ObsoleteRule
<1> QED
  BY <1>1, <1>2, <1>3, <1>4, <1>5, <1>6, <1>7, <1>8, <1>9 DEF Next

LEMMA ContractStep ==
  ASSUME TypeOK, NoRuleAfterEnd, LastPast, PeriodInv, [Next]_vars
  PROVE  [Contract!Next]_(Contract!vars)
<1>1. CASE Run /\ ~ UNCHANGED Contract!vars
  <2>1. PICK e \in timeline :
          LET r == e.rule IN
          /\ r \in Rule /\ Due(e) /\ ~ exec_end /\ enabled[r]
          /\ param[r].max > 0 => exec_count[r] < param[r].max
          /\ exec_count' = [exec_count EXCEPT ![r] = @ + 1]
          /\ last' = [last EXCEPT ![r] = now]
          /\ UNCHANGED <<now, enabled, param, exec_end>>
    BY <1>1, RunExecutes
  <2>2. now \in Nat /\ e.ts \in Nat /\ e.ts <= now /\ last[e.rule] \in Nat \cup {-1}
        /\ param[e.rule].interval \in Nat
    BY <2>1, ParamsType DEF TypeOK, ParamType, Due
  <2>3. last[e.rule] # -1 => now >= last[e.rule] + param[e.rule].interval
    BY <2>2 DEF PeriodInv, Rested
  <2> QED
    BY <2>1, <2>3 DEF Contract!Next, Contract!Execute
<1> QED
  BY <1>1, NotRunStep DEF Contract!Next

\* When managers only ever enable rules, no rule waits for two events.
THEOREM OneEvent == OnlyEnabling => (Spec => []OneEventPerRule)
<1> SUFFICES ASSUME OnlyEnabling PROVE Spec => []OneEventPerRule
  OBVIOUS
<1>1. PeriodInv => OneEventPerRule
  BY DEF PeriodInv
<1>2. TypeOK /\ NoRuleAfterEnd /\ LastPast /\ PeriodInv /\ [Next]_vars => PeriodInv'
  BY PeriodStep
<1> QED
  BY <1>1, <1>2, TypeCorrect, EndedForGood, InitLimits, LastStep, InitPeriod, PTL DEF Spec

\* When managers only ever enable rules, every rule keeps its contract with
\* its period or minimum interval (refda_exec_run_tbr, refda_exec_run_sbr).
THEOREM ContractKept == OnlyEnabling => (Spec => KeepsContract)
<1> SUFFICES ASSUME OnlyEnabling PROVE Spec => KeepsContract
  OBVIOUS
<1>1. Init => Contract!Init
  BY DEF Init, Contract!Init
<1>2. TypeOK /\ NoRuleAfterEnd /\ LastPast /\ PeriodInv /\ [Next]_vars => PeriodInv'
  BY PeriodStep
<1> QED
  BY <1>1, <1>2, TypeCorrect, EndedForGood, InitLimits, LastStep, InitPeriod, ContractStep, PTL
     DEF Spec, KeepsContract, Contract!Spec
-----------------------------------------------------------------------------
(* An enabled rule has an event, when every rule that may be enabled has a *)
(* valid action and starts at once.                                        *)

StartAtOnce ==
  \A p \in Params : p.valid /\ p.form = "TD" /\ p.start = 0

\* A rule that exists has been given parameters.
Given == \A r \in exists : param[r] \in Params

LEMMA GivenStep == StartAtOnce => (TypeOK /\ Given /\ [Next]_vars => Given')
<1> SUFFICES ASSUME StartAtOnce, TypeOK, Given, [Next]_vars PROVE Given'
  OBVIOUS
<1>1. CASE Ensure
  <2>1. PICK r \in Rule, p \in Params :
          exists' = exists \cup {r} /\ param' = IF p.valid THEN [param EXCEPT ![r] = p] ELSE param
    BY <1>1 DEF Ensure
  <2>2. p.valid
    BY DEF StartAtOnce
  <2> QED
    BY <2>1, <2>2 DEF Given, TypeOK
<1>2. CASE ~ Ensure
  <2>1. exists' = exists /\ param' = param
    BY <1>2 DEF Next, InitRule, InitOver, EnsureEnabled, EnsureDisabled, ResetEnabled, ObsoleteRule,
                RunDisabled, RunAtLimit, Run, Sentinel, Tick, ConditionChanges, store, vars
  <2> QED
    BY <2>1 DEF Given
<1> QED
  BY <1>1, <1>2

\* A push whose key is free keeps every other event.
LEMMA FreshPush ==
  ASSUME TypeOK, NEW r \in Rule, NEW p \in ParamType, NEW starting \in BOOLEAN,
         FromClock(r, p, starting)
  PROVE  LET e == EventFor(r, p, starting)
         IN  TimelinePush(timeline, e) = timeline \cup {e} /\ e.rule = r /\ e \notin timeline
<1> DEFINE e == EventFor(r, p, starting)
           ts == next_scheduled_time(r, p, starting)
<1>1. e = [ts |-> ts, sub |-> FreshSub(ts), rule |-> r]
  BY DEF EventFor
<1>2. \A f \in timeline : f.ts = ts => f.sub # FreshSub(ts)
  BY FreshSubFree DEF TypeOK
<1> HIDE DEF e, ts
<1>3. \A f \in timeline : f.ts # e.ts \/ f.sub # e.sub
  BY <1>1, <1>2
<1>4. e.rule = r
  BY <1>1
<1> QED
  BY <1>3, <1>4 DEF TimelinePush, e
LEMMA EnableHasEvent ==
  ASSUME TypeOK, EnabledHasEvent, StartAtOnce, NEW r \in Rule, NEW p \in Params, Enable(r, p),
         exec_end' = exec_end
  PROVE  EnabledHasEvent'
<1> SUFFICES ASSUME ~ exec_end, NEW s \in Rule, enabled'[s] PROVE \E e \in timeline' : e.rule = s
  BY DEF EnabledHasEvent
<1>1. p \in ParamType /\ FromClock(r, p, TRUE)
  BY ParamsType DEF FromClock, StartAtOnce
<1> DEFINE f == EventFor(r, p, TRUE)
<1>2. f.rule = r /\ TimelinePush(timeline, f) = timeline \cup {f}
  BY <1>1, FreshPush
<1>3. timeline' = TimelinePush(timeline, f)
  BY DEF Enable
<1> HIDE DEF f
<1>4. CASE s = r
  BY <1>2, <1>3, <1>4
<1>5. CASE s # r
  <2>1. enabled[s]
    BY <1>5 DEF Enable, TypeOK
  <2> QED
    BY <1>2, <1>3, <2>1 DEF EnabledHasEvent
<1> QED
  BY <1>4, <1>5

\* A rule's event goes only when it is replaced or the rule is disabled.
LEMMA RunHasEvent ==
  ASSUME TypeOK, EnabledHasEvent, RunDisabled \/ RunAtLimit \/ Run
  PROVE  EnabledHasEvent'
<1>0. exec_end' = exec_end
  BY DEF RunDisabled, RunAtLimit, Run
<1> SUFFICES ASSUME ~ exec_end, NEW s \in Rule, enabled'[s] PROVE \E e \in timeline' : e.rule = s
  BY <1>0 DEF EnabledHasEvent
<1>1. enabled[s]
  <2>1. enabled' = enabled \/ \E r \in Rule : enabled' = [enabled EXCEPT ![r] = FALSE]
    BY DEF RunDisabled, RunAtLimit, Run, TypeOK
  <2> QED
    BY <2>1 DEF TypeOK
<1>2. PICK g \in timeline : g.rule = s
  BY <1>1 DEF EnabledHasEvent
<1>3. CASE RunDisabled
  BY <1>1, <1>2, <1>3 DEF RunDisabled
<1>4. CASE RunAtLimit
  <2>1. PICK e \in timeline :
          enabled' = [enabled EXCEPT ![e.rule] = FALSE] /\ timeline' = timeline \ {e}
    BY <1>4 DEF RunAtLimit
  <2>2. e.rule # s
    BY <2>1 DEF TypeOK
  <2> QED
    BY <1>2, <2>1, <2>2
<1>5. CASE Run
  <2>1. PICK e \in timeline :
          timeline' = TimelinePush(timeline, EventFor(e.rule, param[e.rule], FALSE)) \ {e}
    BY <1>5 DEF Run
  <2> DEFINE f == EventFor(e.rule, param[e.rule], FALSE)
  <2>2. e.rule \in Rule /\ param[e.rule] \in ParamType
    BY ParamsType DEF TypeOK
  <2>3. /\ TimelinePush(timeline, f) = timeline \cup {f}
        /\ f.rule = e.rule /\ f \notin timeline
    BY <2>2, FreshPush DEF FromClock
  <2>4. timeline' = (timeline \cup {f}) \ {e}
    BY <2>1, <2>3
  <2> HIDE DEF f
  <2> QED
    BY <1>2, <2>3, <2>4
<1> QED
  BY <1>3, <1>4, <1>5

LEMMA EventStep ==
  ASSUME StartAtOnce, TypeOK, Given, EnabledHasEvent, [Next]_vars
  PROVE  EnabledHasEvent'
<1>1. CASE Ensure
  <2>1. PICK r \in Rule, p \in Params :
          IF p.valid /\ p.init THEN Enable(r, p) ELSE UNCHANGED state
    BY <1>1 DEF Ensure
  <2>2. exec_end' = exec_end
    BY <1>1 DEF Ensure
  <2> QED
    BY <2>1, <2>2, EnableHasEvent DEF EnabledHasEvent, state
<1>2. CASE InitRule \/ EnsureEnabled \/ EnsureDisabled \/ ResetEnabled \/ ObsoleteRule
  <2>1. exec_end' = exec_end
    BY <1>2 DEF InitRule, EnsureEnabled, EnsureDisabled, ResetEnabled, ObsoleteRule
  <2>2. exists \subseteq Rule /\ AdmRules \subseteq exists
    BY DEF TypeOK
  <2>3. \A r \in exists : param[r] \in Params /\ param[r].valid
    BY DEF Given, StartAtOnce
  <2>4. \E r \in exists : Enable(r, param[r]) \/ Disable(r) \/ UNCHANGED state
    BY <1>2, <2>2, <2>3 DEF InitRule, EnsureEnabled, EnsureDisabled, ResetEnabled, ObsoleteRule,
                            EnableStored
  <2>5. PICK r \in exists : Enable(r, param[r]) \/ Disable(r) \/ UNCHANGED state
    BY <2>4
  <2>6. CASE Enable(r, param[r])
    BY <2>1, <2>2, <2>3, <2>6, EnableHasEvent
  <2>7. CASE Disable(r)
    BY <2>1, <2>7 DEF Disable, EnabledHasEvent, TypeOK
  <2>8. CASE UNCHANGED state
    BY <2>1, <2>8 DEF state, EnabledHasEvent
  <2> QED
    BY <2>5, <2>6, <2>7, <2>8
<1>3. CASE RunDisabled \/ RunAtLimit \/ Run
  BY <1>3, RunHasEvent
<1>4. CASE Sentinel
  BY <1>4 DEF Sentinel, EnabledHasEvent
<1>5. CASE InitOver \/ Tick \/ ConditionChanges \/ UNCHANGED vars
  <2>1. UNCHANGED <<state, exec_end>>
    BY <1>5 DEF InitOver, Tick, ConditionChanges, vars, state
  <2> QED
    BY <2>1 DEF state, EnabledHasEvent
<1> QED
  BY <1>1, <1>2, <1>3, <1>4, <1>5 DEF Next

\* When every rule has a valid action and starts at once, an enabled rule
\* always has an event that will run it, whatever controls are used on it
\* (refda_exec_schedule_tbr, refda_exec_schedule_sbr).
THEOREM EventKept == StartAtOnce => (Spec => []EnabledHasEvent)
<1> SUFFICES ASSUME StartAtOnce PROVE Spec => []EnabledHasEvent
  OBVIOUS
<1>1. Init => Given /\ EnabledHasEvent
  <2> SUFFICES ASSUME Init PROVE Given /\ EnabledHasEvent
    OBVIOUS
  <2>1. Given
    BY RuleAssumption, Zenon DEF Init, Given
  <2>2. EnabledHasEvent
    BY Zenon DEF Init, EnabledHasEvent
  <2> QED
    BY <2>1, <2>2
<1>2. TypeOK /\ Given /\ [Next]_vars => Given'
  BY GivenStep
<1>3. TypeOK /\ Given /\ EnabledHasEvent /\ [Next]_vars => EnabledHasEvent'
  BY EventStep
<1> QED
  BY <1>1, <1>2, <1>3, TypeCorrect, PTL DEF Spec
=============================================================================
