-------------------------------- MODULE Exec --------------------------------
(***************************************************************************)
(* Execution sequences in the exec worker of the agent: exec_proc.c,       *)
(* exec_item.c, exec_status.c, ctrl_exec_ctx.c, timeline.c, the worker     *)
(* iteration of exec.c and the controls of ietf_dtnma_agent.c that wait or *)
(* start further sequences (if-then-else, catch, exec-deadline, wait-for,  *)
(* wait-until, wait-cond).                                                 *)
(*                                                                         *)
(* The worker is one thread.  Around it the clock ticks, EXECSETs arrive   *)
(* and the state behind a condition changes.  Nested calls are frames of   *)
(* stack: one action is one C function up to its next call that changes    *)
(* state.                                                                  *)
(*                                                                         *)
(* seqs and items are the memory of the sequences and items ever made, by  *)
(* number; LiveSeq and LiveItem say which of them are still referenced,    *)
(* that is, not yet freed.  The number 0 is the null pointer.              *)
(***************************************************************************)
EXTENDS Naturals, Sequences, Functions, FiniteSets

CONSTANTS
  Target,     \* names of execution targets
  Null,       \* the null value, where a parameter may be null
  Ctrl,       \* names of CTRL references with their parameters
  CtrlDef,    \* what each does: [op, tgt, alt, time]
  ExpandsTo,  \* what each target expands to: [items, ok]
  Inputs,     \* the sequences of targets that may arrive
  MaxTime,    \* bound on the clock
  CondBy,     \* conditions become true no later than this
  BusyBy      \* the clock may overtake a busy worker up to this time

Ops == {"ok", "fail", "if_then_else", "catch", "exec_deadline",
        "wait_for", "wait_until", "wait_cond"}

ASSUME NullAssumption == Null \in Target
ASSUME CtrlAssumption ==
  CtrlDef \in [Ctrl -> [op : Ops, tgt : Target, alt : Target, time : Nat]]
ASSUME ExpandsToAssumption ==
  /\ DOMAIN ExpandsTo = Target
  /\ \A t \in Target : ExpandsTo[t].items \in Seq(Ctrl) /\ ExpandsTo[t].ok \in BOOLEAN
ASSUME InputsAssumption == \A s \in Inputs : s \in Seq(Target)
ASSUME TimeAssumption == MaxTime \in Nat /\ CondBy \in Nat /\ BusyBy \in Nat

VARIABLES
  now, cond, input,          \* the surroundings
  execs, execs_sem,          \* agent->execs, agent->execs_sem
  pc, stack, nowtime, ready, \* the worker: position, calls, locals
  exec_state,                \* agent->exec_state, as numbers of sequences
  seqs,                      \* refda_exec_seq_t: items, status
  items,                     \* refda_exec_item_t with its user_data status
  timeline,                  \* agent->exec_timeline
  run, succeeded, failed     \* agent->instr.num_ctrls_*

env == <<now, cond, input>>
worker == <<pc, stack, nowtime, ready>>
queue == <<execs, execs_sem>>
instr == <<run, succeeded, failed>>
vars == <<now, cond, input, execs, execs_sem, pc, stack, nowtime, ready,
          exec_state, seqs, items, timeline, run, succeeded, failed>>

Op(i) == CtrlDef[items[i].ctrl].op
Param(i) == CtrlDef[items[i].ctrl]

Frame(f, i, b) == [fn |-> f, of |-> i, flag |-> b]
Finish(i) == Frame("ctrl_finish", i, FALSE)
Post(i, b) == Frame("status_post", i, b)

(* What a catch or exec-deadline item keeps in user_data is its status:    *)
(* target is status.seq, finished the value of the semaphore.  home, the   *)
(* sequence an item was made for, is only looked at by properties.         *)
NewItem(c, p) ==
  [ctrl |-> c, seq |-> p, home |-> p, stage |-> "PENDING", result |-> "undefined",
   target |-> 0, failed |-> FALSE, finished |-> 0]

NewItems(t, p) == [k \in 1 .. Len(ExpandsTo[t].items) |-> NewItem(ExpandsTo[t].items[k], p)]

NewIds(t) == [k \in 1 .. Len(ExpandsTo[t].items) |-> Len(items) + k]

FrontItem(p) == seqs[p].items[1]
IsEmpty(p) == seqs[p].items = <<>>
IsWaiting(p) == ~ IsEmpty(p) /\ items[FrontItem(p)].stage = "WAITING"

(* References that keep memory alive: the two lists of sequences, the item *)
(* list of a live sequence, the events, and the pointers calls hold.       *)
LiveSeq(p) == p \in Range(exec_state) \/ p \in Range(ready)
LiveItem(i) ==
  \/ \E p \in 1 .. Len(seqs) : LiveSeq(p) /\ i \in Range(seqs[p].items)
  \/ \E e \in timeline : e.item = i
  \/ \E k \in 1 .. Len(stack) :
       stack[k].of = i /\ stack[k].fn \in {"ctrl_finish", "expire", "set_waiting"}
-----------------------------------------------------------------------------
Init ==
  /\ now = 0 /\ cond = FALSE /\ input \in Inputs
  /\ execs = <<>> /\ execs_sem = 0
  /\ pc = "wait" /\ stack = <<>> /\ nowtime = 0 /\ ready = <<>>
  /\ exec_state = <<>> /\ seqs = <<>> /\ items = <<>> /\ timeline = {}
  /\ run = 0 /\ succeeded = 0 /\ failed = 0

Due(t) == {e \in timeline : e.ts <= t}

(* Surroundings. *)
Arrive ==
  /\ input # <<>>
  /\ execs' = Append(execs, Head(input))
  /\ input' = Tail(input)
  /\ execs_sem' = execs_sem + 1
  /\ UNCHANGED <<now, cond, worker, exec_state, seqs, items, timeline, instr>>

(* Time passes while the worker sleeps before an event, and while it is at  *)
(* work up to BusyBy.                                                       *)
Sleeping == pc = "wait" /\ execs_sem = 0 /\ Due(now) = {} /\ timeline # {}

Tick ==
  /\ now < MaxTime
  /\ cond \/ now < CondBy
  /\ now < BusyBy \/ Sleeping
  /\ now' = now + 1
  /\ UNCHANGED <<cond, input, queue, worker, exec_state, seqs, items, timeline, instr>>

CondHolds ==
  /\ ~ cond
  /\ cond' = TRUE
  /\ UNCHANGED <<now, input, queue, worker, exec_state, seqs, items, timeline, instr>>
-----------------------------------------------------------------------------
(* refda_timeline_push: events are keyed by their time alone, and a push   *)
(* replaces an event of equal key.  Times read from the clock differ in    *)
(* their nanoseconds, which sub stands for; times given by a manager do    *)
(* not (sub = 0).                                                          *)
TimelinePush(tl, e) == {f \in tl : f.ts # e.ts \/ f.sub # e.sub} \cup {e}

Event(t, s, i) == [ts |-> t, sub |-> s, item |-> i]

(* Mutant: a result never wakes the worker. *)
WakesNever(i) == 0

(* The part of refda_exec_item_finish_result that posts execs_sem. *)
Wakes(i) == IF items[i].stage = "WAITING" /\ items[i].seq # 0 THEN 1 ELSE 0

WithResult(is, i, r) == [is EXCEPT ![i].stage = "COMPLETE", ![i].result = r]

set_result(i, r) ==
  /\ items' = WithResult(items, i, r)
  /\ execs_sem' = execs_sem + Wakes(i)

(* refda_ctrl_exec_ctx_set_waiting: the stage is stored whatever it was. *)
set_waiting(i, tl) ==
  /\ items' = [items EXCEPT ![i].stage = "WAITING"]
  /\ timeline' = tl

(* refda_exec_next: what t expands to goes after the front item, as far as *)
(* the expansion came, in a sequence that still exists.                    *)
exec_next(p, t) ==
  IF p = 0 THEN seqs
  ELSE [seqs EXCEPT ![p].items = <<Head(@)>> \o NewIds(t) \o Tail(@)]

Queued(p, t) == IF p = 0 THEN <<>> ELSE NewItems(t, p)
-----------------------------------------------------------------------------
(* The start of a worker iteration: sem_wait with an empty timeline, else  *)
(* sem_timedwait for its first event.                                      *)
Woken == /\ pc' = IF timeline = {} THEN "pop" ELSE "events"
         /\ nowtime' = now
         /\ UNCHANGED <<env, execs, stack, ready, exec_state, seqs, items, timeline, instr>>

Wake == /\ pc = "wait" /\ execs_sem > 0
        /\ execs_sem' = execs_sem - 1
        /\ Woken

Timeout == /\ pc = "wait" /\ execs_sem = 0 /\ Due(now) # {}
           /\ UNCHANGED execs_sem
           /\ Woken

First(tl) == {e \in tl : \A f \in tl : e.ts <= f.ts}

EventsOver ==
  /\ pc = "events" /\ stack = <<>>
  /\ Due(nowtime) = {}
  /\ pc' = "pop"
  /\ UNCHANGED <<env, queue, stack, nowtime, ready, exec_state, seqs, items, timeline, instr>>

(* refda_ctrl_exec_ctx_init refuses the event of a terminated item. *)
EventStale(e) == items[e.item].seq = 0

EventIgnored ==
  /\ pc = "events" /\ stack = <<>>
  /\ \E e \in First(Due(nowtime)) :
       /\ EventStale(e)
       /\ timeline' = timeline \ {e}
  /\ UNCHANGED <<env, queue, worker, exec_state, seqs, items, instr>>

(* ctrl_wait_finished, and ctrl_wait_cond_check when the condition holds. *)
EventFinished ==
  /\ pc = "events" /\ stack = <<>>
  /\ \E e \in First(Due(nowtime)) :
       /\ ~ EventStale(e)
       /\ Op(e.item) # "exec_deadline" /\ (Op(e.item) = "wait_cond" => cond)
       /\ set_result(e.item, "null")
       /\ stack' = <<Finish(e.item)>>
       /\ timeline' = timeline \ {e}
  /\ UNCHANGED <<env, execs, pc, nowtime, ready, exec_state, seqs, instr>>

(* Mutant: the condition is not checked again. *)
EventCheckOnce ==
  /\ pc = "events" /\ stack = <<>>
  /\ \E e \in First(Due(nowtime)) :
       /\ ~ EventStale(e) /\ Op(e.item) = "wait_cond" /\ ~ cond
       /\ set_waiting(e.item, timeline \ {e})
  /\ UNCHANGED <<env, queue, worker, exec_state, seqs, instr>>

(* ctrl_wait_cond_check when the condition does not hold: check again. *)
EventCheckAgain ==
  /\ pc = "events" /\ stack = <<>>
  /\ \E e \in First(Due(nowtime)) :
       /\ ~ EventStale(e) /\ Op(e.item) = "wait_cond" /\ ~ cond
       /\ set_waiting(e.item, TimelinePush(timeline \ {e},
                                Event(now + Param(e.item).time, e.item, e.item)))
  /\ UNCHANGED <<env, queue, worker, exec_state, seqs, instr>>

(* Mutant: the target is not terminated. *)
EventDeadlineExpiresOnly ==
  /\ pc = "events" /\ stack = <<>>
  /\ \E e \in First(Due(nowtime)) :
       LET i == e.item IN
       /\ ~ EventStale(e) /\ Op(i) = "exec_deadline"
       /\ stack' = IF items[i].stage = "WAITING"
                   THEN <<Frame("expire", i, FALSE), Finish(i)>>
                   ELSE <<Finish(i)>>
       /\ timeline' = timeline \ {e}
  /\ UNCHANGED <<env, queue, pc, nowtime, ready, exec_state, seqs, items, instr>>

(* ctrl_exec_deadline_timeout: while the item still waits, terminate the   *)
(* target and then expire; a target that just finished is left as it is.   *)
EventDeadline ==
  /\ pc = "events" /\ stack = <<>>
  /\ \E e \in First(Due(nowtime)) :
       LET i == e.item IN
       /\ ~ EventStale(e) /\ Op(i) = "exec_deadline"
       /\ stack' = IF items[i].stage = "WAITING"
                   THEN <<Frame("terminate", items[i].target, FALSE),
                          Frame("expire", i, FALSE), Finish(i)>>
                   ELSE <<Finish(i)>>
       /\ timeline' = timeline \ {e}
  /\ UNCHANGED <<env, queue, pc, nowtime, ready, exec_state, seqs, items, instr>>
-----------------------------------------------------------------------------
Top == stack[1]
Calls(f) == stack # <<>> /\ Top.fn = f

(* The item list after refda_exec_proc_clear. *)
Cleared(p) == <<>>

Unbind(is, ids) ==
  [i \in DOMAIN is |-> IF i \in ids THEN [is[i] EXCEPT !.seq = 0] ELSE is[i]]

(* Clear or pop sequence p down to rest; a status, if there is one, is     *)
(* posted when nothing is left.                                            *)
LeaveItems(p, rest, fails) ==
  /\ seqs' = [seqs EXCEPT ![p].items = rest]
  /\ items' = Unbind(items, Range(seqs[p].items) \ Range(rest))
  /\ stack' = IF seqs[p].status # 0 /\ rest = <<>>
              THEN <<Post(seqs[p].status, fails)>> \o Tail(stack)
              ELSE Tail(stack)

(* Mutant: a failure is not counted. *)
FinishFailureUncounted ==
  /\ Calls("ctrl_finish")
  /\ LET p == items[Top.of].seq IN
       /\ p # 0 /\ items[Top.of].result = "undefined"
       /\ LeaveItems(p, Cleared(p), TRUE)
  /\ UNCHANGED <<env, queue, pc, nowtime, ready, exec_state, timeline, instr>>

(* refda_exec_proc_ctrl_finish.  Its early return for an item without a    *)
(* sequence is never taken: each caller holds an item it has just found in *)
(* one.                                                                    *)
FinishFailure ==
  /\ Calls("ctrl_finish")
  /\ LET p == items[Top.of].seq IN
       /\ p # 0 /\ items[Top.of].result = "undefined"
       /\ LeaveItems(p, Cleared(p), TRUE)
  /\ failed' = failed + 1
  /\ UNCHANGED <<env, queue, pc, nowtime, ready, exec_state, timeline, run, succeeded>>

FinishSuccess ==
  /\ Calls("ctrl_finish")
  /\ LET p == items[Top.of].seq IN
       /\ p # 0 /\ items[Top.of].result # "undefined"
       /\ LeaveItems(p, Tail(seqs[p].items), FALSE)
  /\ succeeded' = succeeded + 1
  /\ UNCHANGED <<env, queue, pc, nowtime, ready, exec_state, timeline, run, failed>>

(* refda_exec_status_post with the on_finished callback of the item that   *)
(* owns the status, ctrl_catch_finished or ctrl_exec_deadline_finished.    *)
PostItems(i, fails, r) ==
  LET posted == [items EXCEPT ![i].target = 0, ![i].failed = fails,
                              ![i].finished = @ + 1]
  IN WithResult(posted, i, r)

StatusPostCatch ==
  /\ Calls("status_post") /\ Op(Top.of) = "catch"
  /\ LET i == Top.of  p == items[i].seq  t == Param(i).alt IN
       /\ seqs' = IF Top.flag THEN exec_next(p, t) ELSE seqs
       /\ items' = PostItems(i, Top.flag, IF Top.flag THEN "false" ELSE "true")
                     \o (IF Top.flag THEN Queued(p, t) ELSE <<>>)
       /\ execs_sem' = execs_sem + Wakes(i)
  /\ stack' = Tail(stack)
  /\ UNCHANGED <<env, execs, pc, nowtime, ready, exec_state, timeline, instr>>

StatusPostDeadline ==
  /\ Calls("status_post") /\ Op(Top.of) = "exec_deadline"
  /\ items' = PostItems(Top.of, Top.flag, IF Top.flag THEN "undefined" ELSE "true")
  /\ execs_sem' = execs_sem + Wakes(Top.of)
  /\ stack' = Tail(stack)
  /\ UNCHANGED <<env, execs, pc, nowtime, ready, exec_state, seqs, timeline, instr>>

(* refda_exec_proc_terminate: a waiting front item is finished as failed,  *)
(* a front item in any other stage is left alone, an empty sequence is     *)
(* cleared again.  A null sequence is ignored.                             *)
TerminateWaiting ==
  /\ Calls("terminate") /\ Top.of # 0 /\ IsWaiting(Top.of)
  /\ stack' = <<Finish(FrontItem(Top.of))>> \o Tail(stack)
  /\ UNCHANGED <<env, queue, pc, nowtime, ready, exec_state, seqs, items, timeline, instr>>

TerminateEmpty ==
  /\ Calls("terminate") /\ Top.of # 0 /\ IsEmpty(Top.of)
  /\ LeaveItems(Top.of, <<>>, TRUE)
  /\ UNCHANGED <<env, queue, pc, nowtime, ready, exec_state, timeline, instr>>

TerminateNothing ==
  /\ Calls("terminate")
  /\ Top.of # 0 => ~ IsWaiting(Top.of) /\ ~ IsEmpty(Top.of)
  /\ stack' = Tail(stack)
  /\ UNCHANGED <<env, queue, pc, nowtime, ready, exec_state, seqs, items, timeline, instr>>

(* The rest of ctrl_exec_deadline_timeout. *)
Expire ==
  /\ Calls("expire")
  /\ LET i == Top.of  p == items[i].seq  t == Param(i).alt IN
       /\ seqs' = exec_next(p, t)
       /\ items' = WithResult(items, i, "false") \o Queued(p, t)
       /\ execs_sem' = execs_sem + Wakes(i)
  /\ stack' = Tail(stack)
  /\ UNCHANGED <<env, execs, pc, nowtime, ready, exec_state, timeline, instr>>
-----------------------------------------------------------------------------
(* refda_exec_add_target for a status owned by item i, or for none (0).    *)
(* A target that does not expand leaves no sequence; its status is posted  *)
(* before the sequence is dropped.                                         *)
AddTarget(t, i) ==
  LET p == Len(seqs) + 1
      owned == IF i = 0 THEN items ELSE [items EXCEPT ![i].target = p]
  IN /\ seqs' = Append(seqs, [items |-> IF ExpandsTo[t].ok THEN NewIds(t) ELSE <<>>,
                              status |-> i])
     /\ items' = IF ExpandsTo[t].ok THEN owned \o NewItems(t, p) ELSE owned
     /\ exec_state' = IF ExpandsTo[t].ok \/ i # 0 THEN Append(exec_state, p) ELSE exec_state
     /\ execs_sem' = execs_sem + 1

DropSequence ==
  /\ Calls("drop")
  /\ exec_state' = SubSeq(exec_state, 1, Len(exec_state) - 1)
  /\ stack' = Tail(stack)
  /\ UNCHANGED <<env, queue, pc, nowtime, ready, seqs, items, timeline, instr>>

(* The rest of an iteration: at most one EXECSET, then every sequence that *)
(* does not wait.                                                          *)
PopNone ==
  /\ pc = "pop" /\ execs = <<>>
  /\ pc' = "collect"
  /\ UNCHANGED <<env, queue, stack, nowtime, ready, exec_state, seqs, items, timeline, instr>>

PopTarget ==
  /\ pc = "pop" /\ execs # <<>>
  /\ AddTarget(Head(execs), 0)
  /\ execs' = Tail(execs)
  /\ pc' = "collect"
  /\ UNCHANGED <<env, stack, nowtime, ready, timeline, instr>>

(* What is left of s when only the positions in K are kept. *)
Kept(s, K) ==
  [n \in 1 .. Cardinality(K) |-> s[CHOOSE k \in K : Cardinality({j \in K : j <= k}) = n]]

(* refda_exec_waiting: the lock is held around one pass over the list, which *)
(* removes what is empty and collects what does not wait.                    *)
Collect ==
  /\ pc = "collect"
  /\ LET left == {k \in DOMAIN exec_state : ~ IsEmpty(exec_state[k])} IN
       /\ ready' = Kept(exec_state, {k \in left : ~ IsWaiting(exec_state[k])})
       /\ exec_state' = Kept(exec_state, left)
  /\ pc' = "run"
  /\ UNCHANGED <<env, queue, stack, nowtime, seqs, items, timeline, instr>>

RunOver ==
  /\ pc = "run" /\ stack = <<>> /\ ready = <<>>
  /\ pc' = "wait"
  /\ UNCHANGED <<env, queue, stack, nowtime, ready, exec_state, seqs, items, timeline, instr>>

Running == pc = "run" /\ stack = <<>> /\ ready # <<>>
Current == FrontItem(ready[1])

(* refda_exec_proc_run: on to the next sequence once this one waits or is  *)
(* empty.                                                                  *)
RunNext ==
  /\ Running /\ (IsEmpty(ready[1]) \/ IsWaiting(ready[1]))
  /\ ready' = Tail(ready)
  /\ UNCHANGED <<env, queue, pc, stack, nowtime, exec_state, seqs, items, timeline, instr>>

(* refda_exec_proc_ctrl_start for an item that completed while it waited. *)
RunComplete ==
  /\ Running /\ ~ IsEmpty(ready[1]) /\ items[Current].stage = "COMPLETE"
  /\ stack' = <<Finish(Current)>>
  /\ UNCHANGED <<env, queue, pc, nowtime, ready, exec_state, seqs, items, timeline, instr>>

(* refda_exec_proc_ctrl_start for a pending item: call its execute         *)
(* function, one action for each kind of control.                          *)
Start(op) ==
  /\ Running /\ ~ IsEmpty(ready[1])
  /\ items[Current].stage = "PENDING" /\ Op(Current) = op
  /\ run' = run + 1
  /\ UNCHANGED <<env, execs, pc, nowtime, ready, succeeded, failed>>

(* A control that sets a result of the right type before it returns. *)
StartOk ==
  /\ Start("ok")
  /\ set_result(Current, "null")
  /\ stack' = <<Finish(Current)>>
  /\ UNCHANGED <<exec_state, seqs, timeline>>

(* A control that returns without a result, or with one of another type. *)
StartFail ==
  /\ Start("fail")
  /\ stack' = <<Finish(Current)>>
  /\ UNCHANGED <<execs_sem, exec_state, seqs, items, timeline>>

StartIfThenElse ==
  /\ Start("if_then_else")
  /\ \E truthy \in BOOLEAN :
       LET p == ready[1]
           t == IF truthy THEN Param(Current).tgt ELSE Param(Current).alt
       IN /\ seqs' = IF t = Null THEN seqs ELSE exec_next(p, t)
          /\ items' = WithResult(items, Current, IF truthy THEN "true" ELSE "false")
                        \o (IF t = Null THEN <<>> ELSE Queued(p, t))
  /\ stack' = <<Finish(Current)>>
  /\ UNCHANGED <<execs_sem, exec_state, timeline>>

StartWait ==
  /\ \/ Start("wait_for")
        /\ set_waiting(Current, TimelinePush(timeline,
                         Event(now + Param(Current).time, Current, Current)))
     \/ Start("wait_until")
        /\ set_waiting(Current, TimelinePush(timeline,
                         Event(Param(Current).time, 0, Current)))
     \/ Start("wait_cond") /\ ~ cond
        /\ set_waiting(Current, TimelinePush(timeline,
                         Event(now + Param(Current).time, Current, Current)))
  /\ UNCHANGED <<execs_sem, stack, exec_state, seqs>>

StartCond ==
  /\ Start("wait_cond") /\ cond
  /\ set_result(Current, "null")
  /\ stack' = <<Finish(Current)>>
  /\ UNCHANGED <<exec_state, seqs, timeline>>

(* catch and exec-deadline: the target becomes a sequence of its own, and  *)
(* the item waits for its status.                                          *)
StartTarget ==
  /\ Start("catch") \/ Start("exec_deadline")
  /\ AddTarget(Param(Current).tgt, Current)
  /\ stack' = (IF ExpandsTo[Param(Current).tgt].ok THEN <<>>
               ELSE <<Post(Current, TRUE), Frame("drop", 0, FALSE)>>)
              \o <<Frame("set_waiting", Current, FALSE)>>
  /\ UNCHANGED timeline

(* Mutant: the execute function returns without set_waiting. *)
WaitForTargetReturns ==
  /\ Calls("set_waiting")
  /\ stack' = <<Finish(Top.of)>>
  /\ UNCHANGED <<env, queue, pc, nowtime, ready, exec_state, seqs, items, timeline, instr>>

WaitForTarget ==
  /\ Calls("set_waiting")
  /\ LET i == Top.of IN
       set_waiting(i, IF Op(i) = "catch" THEN timeline
                      ELSE TimelinePush(timeline, Event(now + Param(i).time, i, i)))
  /\ stack' = Tail(stack)
  /\ UNCHANGED <<env, queue, pc, nowtime, ready, exec_state, seqs, instr>>
-----------------------------------------------------------------------------
Events == EventIgnored \/ EventFinished \/ EventCheckAgain \/ EventDeadline \/ EventsOver
Returns ==
  \/ FinishFailure \/ FinishSuccess
  \/ StatusPostCatch \/ StatusPostDeadline
  \/ TerminateWaiting \/ TerminateEmpty \/ TerminateNothing \/ Expire
  \/ DropSequence \/ WaitForTarget
Starts ==
  \/ StartOk \/ StartFail \/ StartIfThenElse \/ StartWait \/ StartCond \/ StartTarget
Worker ==
  \/ Wake \/ Timeout \/ Events \/ PopNone \/ PopTarget
  \/ Collect \/ RunOver \/ RunNext \/ RunComplete \/ Starts \/ Returns

Next == Arrive \/ Tick \/ CondHolds \/ Worker

Spec == Init /\ [][Next]_vars

(* The threads are scheduled, time passes, and conditions come to hold. *)
FairSpec == Spec /\ WF_vars(Worker) /\ WF_vars(Tick) /\ WF_vars(Arrive) /\ WF_vars(CondHolds)
-----------------------------------------------------------------------------
ItemId == 1 .. Len(items)
SeqId == 1 .. Len(seqs)

TypeOK ==
  /\ now \in 0 .. MaxTime /\ nowtime \in 0 .. MaxTime /\ cond \in BOOLEAN
  /\ input \in Seq(Target) /\ execs \in Seq(Target) /\ execs_sem \in Nat
  /\ pc \in {"wait", "events", "pop", "collect", "run"}
  /\ stack \in Seq([fn : {"ctrl_finish", "status_post", "terminate", "expire",
                          "drop", "set_waiting"}, of : Nat, flag : BOOLEAN])
  /\ exec_state \in Seq(SeqId) /\ ready \in Seq(SeqId)
  /\ seqs \in Seq([items : Seq(ItemId), status : {0} \cup ItemId])
  /\ items \in Seq([ctrl : Ctrl, seq : {0} \cup SeqId, home : SeqId,
                     stage : {"PENDING", "WAITING", "COMPLETE"},
                     result : {"undefined", "null", "true", "false"},
                     target : {0} \cup SeqId, failed : BOOLEAN, finished : Nat])
  /\ \A e \in timeline : e.ts \in Nat /\ e.sub \in {0} \cup ItemId /\ e.item \in ItemId
  /\ run \in Nat /\ succeeded \in Nat /\ failed \in Nat

(* instr.h: the controls run are the ones counted as succeeded or failed   *)
(* plus those still at the front of a sequence, whether they were finished *)
(* by their own result, an event, a terminated target or a cleared         *)
(* sequence.                                                               *)
CountersBalance ==
  stack = <<>> =>
    run = succeeded + failed
            + Cardinality({i \in ItemId : items[i].seq # 0 /\ items[i].stage # "PENDING"})

(* No item is left over.  exec_item.h: a WAITING item "is waiting on an    *)
(* external event to complete" -- one that waits in a sequence has an      *)
(* event on the timeline or a target sequence that still has items to run. *)
(* exec_proc.h: a sequence runs "until the first deferred completion or    *)
(* execution failure" -- once an item has left its sequence without a      *)
(* result, by its own failure or because the sequence was cleared under    *)
(* it, nothing of the sequence is left to run, not even a target a late    *)
(* callback queues behind a front item that is gone.                       *)
NothingLeftOver ==
  \A i \in ItemId :
    /\ stack = <<>> /\ items[i].seq # 0 /\ items[i].stage = "WAITING" =>
         \/ \E e \in timeline : e.item = i
         \/ items[i].target # 0 /\ LiveSeq(items[i].target) /\ ~ IsEmpty(items[i].target)
    /\ items[i].seq = 0 /\ items[i].result = "undefined" => IsEmpty(items[i].home)

(* exec_seq.h: the status of a sequence is a finish state tracker owned by *)
(* someone else, "null when there is no tracker".  A sequence with items   *)
(* left has a status whose owning item has been freed only when that is an *)
(* exec-deadline that expired; the post at the end of any other goes to a  *)
(* live catch or exec-deadline item.                                       *)
StatusOwnerLives ==
  \A p \in SeqId :
    LET i == seqs[p].status
    IN LiveSeq(p) /\ ~ IsEmpty(p) /\ i # 0 =>
         LiveItem(i) \/ (Op(i) = "exec_deadline" /\ items[i].result = "false")

(* exec-deadline: a target that "does not finish" in time "is terminated".  *)
(* The step that gives a deadline item the result false leaves nothing of  *)
(* the sequence of its target, unless the target was not waiting at that    *)
(* moment: refda_exec_proc_terminate ends a front item that waits, and      *)
(* leaves a sequence whose front item is still to be started, or has just   *)
(* completed and is to be finished, as it is.                               *)
(* "If the target experiences a failure executing before the deadline, then *)
(* this control will also fail": a deadline item whose status has been      *)
(* posted as failed never goes on to expire.  A target that does not expand *)
(* is left out: its failure is posted before the item starts to wait.       *)
DeadlineKept ==
  [][/\ \A i \in ItemId, p \in SeqId :
          /\ seqs[p].status = i /\ Op(i) = "exec_deadline"
          /\ items[i].result = "undefined" /\ items'[i].result = "false"
          => seqs[p].items = <<>> \/ items[Head(seqs[p].items)].stage # "WAITING"
     /\ \A i \in ItemId :
          stack = <<>> /\ items[i].finished > 0 /\ items[i].failed /\ ExpandsTo[Param(i).tgt].ok =>
            \A k \in 1 .. Len(stack)' : stack'[k] # Frame("expire", i, FALSE)]_vars

(* What is asked to run finishes: once the last target has arrived, every  *)
(* sequence empties and is removed from the agent's list.                  *)
AllFinish == <>[](input = <<>> /\ execs = <<>> /\ exec_state = <<>>)
=============================================================================
